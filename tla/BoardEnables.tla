---------------------------- MODULE BoardEnables ----------------------------
(***************************************************************************)
(* The board enables: the code of board_enable.c that lets a mainboard's   *)
(* flash chip be written, by a GPIO line wired to its write protection or  *)
(* by a bit of a bridge. Each works on the chipset or Super I/O of its own *)
(* boards, and is run after flashrom looked for the Super I/Os and enabled *)
(* the flash interface of those of ITE.                                    *)
(***************************************************************************)
EXTENDS SuperIo

Single(s) == CHOOSE x \in s : TRUE

-----------------------------------------------------------------------------
(* GPIO lines of Winbond chips. Where a port's lines are multiplexed, what  *)
(* selects the GPIO function of one.                                        *)
WinbondPort(chip, port) ==
  CASE chip = "W83627HF" /\ port = 2 -> [ldn |-> \h08, enable |-> 0, base |-> \hF0]
    [] chip = "W83627EHF" /\ port = 2 -> [ldn |-> \h09, enable |-> 0, base |-> \hE3]
    [] chip = "W83627THF" /\ port = 4 -> [ldn |-> \h09, enable |-> 1, base |-> \hF4]
    [] OTHER -> [ldn |-> 0, enable |-> 0, base |-> 0]
WinbondMux(chip, bit) ==
  CASE chip = "W83627HF" -> IF bit = 0 THEN [reg |-> \h2A, on |-> {0}, off |-> {}]
                            ELSE [reg |-> \h2B, on |-> IF bit = 7 THEN {0, 1} ELSE {8 - bit}, off |-> {}]
    [] chip = "W83627EHF" -> CASE bit \in 0 .. 1 -> [reg |-> \h29, on |-> {1}, off |-> {2}]
                               [] bit \in 2 .. 3 -> [reg |-> \h24, on |-> {}, off |-> {1}]
                               [] OTHER -> [reg |-> \h2A, on |-> {0}, off |-> {}]
    [] OTHER -> [reg |-> \h2D, on |-> {bit}, off |-> {}]

(* winbond_superio_chipdef(): the first that has GPIO tables.               *)
Chipdef ==
  LET known == {n \in DOMAIN found : found[n].chip \in {"W83627HF", "W83627EHF", "W83627THF"}}
  IN  IF known = {} THEN "none" ELSE found[CHOOSE n \in known : \A m \in known : n <= m].chip

(* winbond_gpio_set(): the chip found may not be the one at this port.      *)
WinbondDevice(port, n) == <<Select(port, n)>>
WinbondGpio(port, chipid, pin, high) ==
  LET gpio == WinbondPort(chipid, pin \div 10)
      bit == pin % 10
      mux == WinbondMux(chipid, bit)
  IN  IF Chipdef # chipid \/ bit >= 8 \/ gpio.ldn = 0 THEN Fail
      ELSE <<Key(port, "8787")>> \o WinbondDevice(port, gpio.ldn)
           \o <<Raise(Sio(port), \h30, {gpio.enable}), Mask(Sio(port), mux.reg, mux.on, mux.off),
                Drop(Sio(port), gpio.base, {bit}), Drop(Sio(port), gpio.base + 2, {bit}),
                Level(Sio(port), gpio.base + 1, bit, high), Key(port, "aa"), Return(0)>>

W836xxMemw(port) ==
  <<Key(port, "8787"),
    If(Bits(Sio(port), \h24, {}, {1}), <<Raise(Sio(port), \h24, {3, 5})>>, <<>>),
    Key(port, "aa")>>
W83697xxMemw(port) ==
  <<Key(port, "8787"),
    If(Bits(Sio(port), \h24, {}, {1}),
       <<If(Bits(Sio(port), \h2A, 4 .. 7, {}),
            <<Raise(Sio(port), \h28, {3}), Mask(Sio(port), \h24, {3, 5}, {4})>>, <<>>)>>,
       <<>>),
    Key(port, "aa")>>

It8707fWriteEnable(port) ==
  <<Key(port, "8787"), Raise(Sio(port), \h23, {3}), Raise(Sio(port), \h24, {2, 3}),
    Drop(Sio(port), \h23, {3}), Key(port, "ite exit"), Return(0)>>

It8703fGpio51 ==
  <<Key("2e", "8787"),
    If(Id("2e", {"IT8703F"}), <<Key("2e", "aa")>>, <<Key("2e", "aa")>> \o Fail),
    Key("2e", "8787"), Select("2e", \h0C), ReadBase(Sio("2e"), \h60), Key("2e", "aa"),
    Need(HasBase, Fail), Raise(AtBase, 0, {1}), Return(0)>>

(* it87_gpio_set(): the lines are numbered by port and bit.                 *)
It87Lines(chip) ==
  CASE chip = "IT8712F" -> (10 .. 17) \cup (20 .. 27) \cup (30 .. 37) \cup (40 .. 47) \cup (50 .. 55)
    [] chip = "IT8718F" -> (10 .. 14) \cup {16, 17} \cup (20 .. 27) \cup (30 .. 37) \cup (40 .. 44)
                           \cup {46, 47} \cup (50 .. 57) \cup (60 .. 67)
It87Gpio(gpio, high) ==
  LET ite == {n \in DOMAIN found : found[n].chip \in {"IT8712F", "IT8718F"}}
      sio == found[CHOOSE n \in ite : \A m \in ite : n <= m]
  IN  IF ite = {} THEN Fail
      ELSE IF gpio \notin It87Lines(sio.chip) THEN Fail
      ELSE <<Key(sio.port, "ite"), Select(sio.port, \h07), ReadBase(Sio(sio.port), \h62),
             Key(sio.port, "ite exit"), Need(HasBase, Fail),
             Level(AtBase, (gpio \div 10) - 1, gpio % 10, high), Return(0)>>

(* A failed check of an SMSC chip leaves its configuration mode.            *)
(* Mutant: it returns at once.                                              *)
SmscRefusesOpen(port) == Fail
SmscRefuses(port) == <<Key(port, "aa")>> \o Fail

(* fdc37b787_gpio50_raise(): the line must have been set up as an output.   *)
Fdc37b787Gpio50(port) ==
  <<Key(port, "55"), Need(Id(port, {"FDC37B787"}), SmscRefuses(port)), Select(port, \h08),
    Need(Bits(Sio(port), \hC8, {4}, {0, 1, 3}), SmscRefuses(port)),
    Raise(Sio(port), \hF9, {0}), Key(port, "aa"), Return(0)>>

(* smsc_find_runtime() and board_mitac_6513wu().                            *)
SmscFindRuntime(port, chip, device) ==
  <<Key(port, "55"), Need(Id(port, {chip}), SmscRefuses(port)), Select(port, device),
    Need(Bits(Sio(port), \h30, {0}, {}), SmscRefuses(port)),
    ReadBase(Sio(port), \h60), Key(port, "aa"), Need(HasBase, Fail)>>
Mitac6513wu ==
  <<Need(Device("ICH"), Fail)>> \o SmscFindRuntime("4e", "LPC47U33x", \h0A)
  \o <<Drop(AtBase, \h33, {0, 1, 2, 7}), Raise(AtBase, \h4D, {0}), Return(0)>>

(* pc8736x_gpio_set(): no configuration mode; the logical device stays      *)
(* selected. The level goes to the next code through `more`.                *)
Pc8736xGpio(chipid, gpio, high, more) ==
  LET sio == Sio("2e")
      bankbase == <<0, 4, 8, 10, 12>>
  IN  <<Need(Id("2e", {chipid}), Fail), Select("2e", \h07), ReadBase(sio, \h60), Need(HasBase, Fail),
        Raise(sio, \h30, {0}), Put(sio, \hF0, {(gpio \div 8) * 16 + (gpio % 8)}), Raise(sio, \hF1, {0}),
        Level(AtBase, bankbase[1 + (gpio \div 8)], gpio % 8, high)>> \o more

-----------------------------------------------------------------------------
(* GPIO lines of chipsets. The bridge of the board:                         *)
Bridge(known) == IF board.devices \cap known = {} THEN "none" ELSE Single(board.devices \cap known)

(* intel_ich_gpio_set(): the lines each chipset allows.                     *)
IchAllowed ==
  LET Second(lines) == {32 + n : n \in lines}
  IN  [ICH |-> {16, 17} \cup (21 .. 27),
       ICH2 |-> {0, 1, 3, 4, 8, 11, 12, 13} \cup (16 .. 25) \cup {27, 28},
       ICH3 |-> (16 .. 25) \cup {27, 28} \cup (32 .. 43),
       ICH4 |-> (16 .. 25) \cup {27, 28} \cup (32 .. 43),
       ICH4M |-> {16, 17, 25, 27, 28} \cup (32 .. 43),
       ICH5 |-> (16 .. 25) \cup {27, 28} \cup Second({0, 2, 8, 9, 16, 17}),
       ICH6 |-> (16 .. 25) \cup {27, 28} \cup Second({0, 1, 2, 8, 9, 16, 17}),
       ICH7 |-> (0 .. 31) \cup Second((0 .. 7) \cup {16, 17}),
       ICH7M |-> ((1 .. 31) \ {18, 20}) \cup Second((1 .. 7) \cup {16, 17}),
       ICH8 |-> (0 .. 31) \cup Second((0 .. 11) \cup (16 .. 23)),
       ICH9 |-> (0 .. 31) \cup Second(0 .. 23),
       ICH10 |-> (0 .. 63) \cup {72}]
(* From the ICH8 on the line may stay what it is; beyond line 31 that is    *)
(* looked up at an offset of 30, or 40, and not of 0x30, or 0x40.           *)
(* Mutant: one set of offsets for all the lines.                            *)
IchOffsetsFirst(bank) == [use |-> \h00, check |-> \h00, io |-> \h04, lvl |-> \h0C]
IchOffsets(bank) ==
  CASE bank = 0 -> [use |-> \h00, check |-> \h00, io |-> \h04, lvl |-> \h0C]
    [] bank = 1 -> [use |-> \h30, check |-> 30, io |-> \h34, lvl |-> \h38]
    [] OTHER -> [use |-> \h40, check |-> 40, io |-> \h44, lvl |-> \h48]
IchGpio(gpio, high, more) ==
  LET bridge == Bridge(DOMAIN IchAllowed)
      bit == gpio % 32
      at == IchOffsets(gpio \div 32)
      function == IF gpio = 28 /\ bridge = "ICH" THEN 27 ELSE bit
  IN  IF bridge = "none" THEN Fail
      ELSE IF gpio \notin IchAllowed[bridge] THEN Fail
      ELSE <<ReadBase(Pci(bridge), IF bridge \in {"ICH6", "ICH7", "ICH7M", "ICH8", "ICH9", "ICH10"}
                                   THEN \h48 ELSE \h58),
             Raise(AtBase, at.use, {function})>>
           \o (IF bridge \in {"ICH8", "ICH9", "ICH10"} THEN <<Need(Bits(AtBase, at.check, {bit}, {}), Fail)>>
               ELSE <<>>)
           \o <<Drop(AtBase, at.io, {bit}), Level(AtBase, at.lvl, bit, high)>> \o more

(* intel_piix4_gpo_set(): a multiplexed line must have been set up.         *)
Piix4Mux(gpo) ==
  CASE gpo \in 1 .. 7 -> Bits(Pci("PIIX4"), \hB0, {}, {0})
    [] gpo \in 9 .. 11 -> Bits(Pci("PIIX4"), \hB0, {}, {gpo - 1})
    [] gpo \in (12 .. 14) \cup {29} -> Bits(Pci("PIIX4"), \h4E, {}, {8})
    [] gpo \in 15 .. 16 -> Bits(Pci("PIIX4"), \hB2, {1}, {})
    [] gpo \in 17 .. 21 -> Bits(Pci("PIIX4"), \hB2, {gpo - 15}, {})
    [] gpo \in 22 .. 23 -> Bits(Pci("PIIX4"), \hB2, {12}, {})
    [] gpo \in 24 .. 26 -> Bits(Pci("PIIX4"), \hB2, {gpo - 11}, {})
    [] OTHER -> Device("PIIX4")
Piix4Gpo(gpo, high) ==
  <<Need(Device("PIIX4"), Fail), Need(Piix4Mux(gpo), Fail), Need(Device("PIIX4 PM"), Fail),
    ReadBase(Pci("PIIX4 PM"), \h40), Level(AtBase, \h34 + (gpo \div 8), gpo % 8, high), Return(0)>>

(* nvidia_mcp_gpio_set(): from the MCP51 on the lines are the SMBus         *)
(* controller's, function 1 of the device whose function 0 is the bridge.   *)
NvidiaGpio(gpio, high, more) ==
  LET bridge == Bridge({"CK804", "MCP04", "MCP2", "CK8", "MCP51", "MCP55"})
  IN  CASE bridge = "none" -> Fail
        [] bridge \in {"MCP51", "MCP55"} ->
             <<Need(Device("MCP SMBus"), Fail), ReadBase(Pci("MCP SMBus"), \h64),
               Mask(AtBase, \hC0 + gpio, IF high = 1 THEN {0, 2} ELSE {2}, 0 .. 3)>> \o more
        [] OTHER ->
             <<ReadBase(Pci(bridge), \h64),
               Mask(AtBase, \hC0 + gpio, IF high = 1 THEN {0, 2} ELSE {2}, 0 .. 3)>> \o more

(* via_vt823x_gpio_set() *)
Vt823xOutput(gpio) ==
  CASE gpio \in 12 .. 15 -> {4} [] gpio = 9 -> {5} [] OTHER -> {0}
Vt823xGpio(gpio, high, fail, more) ==
  LET bridge == Bridge({"VT8235", "VT8237", "VT8237A"})
  IN  IF bridge = "none" \/ gpio \notin (12 .. 15) \cup {5, 9} THEN fail
      ELSE <<Raise(Pci(bridge), \hE4, Vt823xOutput(gpio)), ReadBase(Pci(bridge), \h88),
             Level(AtBase, \h4C + (gpio \div 8), gpio % 8, high)>> \o more

(* via_apollo_gpo_set() *)
ApolloSelect(gpio) ==
  CASE gpio = 0 -> Drop(Pci("VT82C686 PM"), \h54, {0, 1})
    [] gpio \in 1 .. 3 -> Raise(Pci("VT82C686 PM"), \h54, {gpio + 1})
    [] OTHER -> Raise(Pci("VT82C686 PM"), \h54, {})
ApolloGpo(gpio, high) ==
  <<Need(Device("VT82C686 PM"), Fail), ApolloSelect(gpio), ReadBase(Pci("VT82C686 PM"), \h48),
    Level(AtBase, \h4C, gpio, high), Return(0)>>

-----------------------------------------------------------------------------
(* The enables of a board of its own. A second line, in the bridge; MSRs of *)
(* the Geode, by which flash device it starts from.                         *)
OfNvidiaAndAmd(e) ==
  CASE e = "board_sun_ultra_40_m2" ->
         NvidiaGpio(4, 0, <<Need(Device("MCP55"), Fail), ReadBase(Pci("MCP55"), \hB4), Need(HasBase, Fail),
                            Raise(AtBase, \h4B, {4}), Return(0)>>)
    [] e = "board_artecgroup_dbe6x" ->
         <<Need(Device("msr"), Fail),
           If(Bits(Pci("msr"), \h15, {8, 9}, {}),
              <<Raise(Pci("msr"), \h15, {2, 3, 10, 11})>>,
              <<Mask(Pci("msr"), \h15, {3, 11}, {2, 10})>>),
           Return(0)>>
    [] e = "amd_sbxxx_gpio9_raise" ->
         <<Need(Device("AMD SMBus"), Fail), Mask(Pci("AMD SMBus"), \hA8, {5}, {13}), Return(0)>>

(* Several lines, one after the other: a failure is the end.                *)
OfSeveralLines(e) ==
  CASE e = "board_hp_vl400" ->
         IchGpio(25, 1, Pc8736xGpio("PC87360", 9, 1, Pc8736xGpio("PC87360", 39, 1, <<Return(0)>>)))
    [] e = "board_hp_p2706t" -> Pc8736xGpio("PC87364", 37, 1, Pc8736xGpio("PC87364", 38, 1, <<Return(0)>>))
    [] e = "board_acorp_6a815epd" -> IchGpio(22, 1, IchGpio(23, 1, <<Return(0)>>))
    [] e = "board_kontron_986lcd_m" -> IchGpio(34, 1, IchGpio(35, 1, <<Return(0)>>))
    [] e = "board_aopen_i975xa_ydg" -> IchGpio(33, 1, <<Return(0)>>)

OfSuperIo(e) ==
  CASE e = "sis_gpio0_raise_and_w836xx_memw" ->
         <<Need(Device("SiS962"), <<Return(1)>>), ReadBase(Pci("SiS962"), \h74), Drop(AtBase, \h68, {0}),
           Raise(AtBase, \h64, {0})>> \o W836xxMemw("2e") \o <<Return(0)>>
    [] e = "board_mitac_6513wu" -> Mitac6513wu
    [] e = "board_abit_av8" -> <<Raise(Fixed("0x4000"), \h4E, {6, 7}), Return(0)>>
    [] e = "it8703f_gpio51_raise" -> It8703fGpio51
    [] e = "it8707f_write_enable_2e" -> It8707fWriteEnable("2e")
    [] e = "fdc37b787_gpio50_raise_3f0" -> Fdc37b787Gpio50("3f0")

OfOneBoard(e) ==
  CASE e = "board_msi_kt4v" ->        (* the Super I/O whatever came of the line *)
         Vt823xGpio(12, 1, W836xxMemw("2e") \o Fail, W836xxMemw("2e") \o <<Return(0)>>)
    [] e = "board_asus_p5a" ->        (* contact, read, and write the device *)
         <<Poll(Fail), Poll(Fail), Need(Device("w83781d"), Fail), Drop(Pci("w83781d"), \hEF, {1}),
           Poll(Fail), Return(0)>>
    [] e = "board_hp_dl145_g3_enable" -> <<Raise(Fixed("HT1000"), \h44, {2, 5}), Return(0)>>
    [] e = "board_hp_dl165_g6_enable" ->
         <<Raise(Fixed("HT1000"), \h44, {7}), Raise(Fixed("HT1000"), \h46, {2}), Return(0)>>
    [] e = "board_ibm_x3455" -> <<Raise(Fixed("HT1000"), \h45, {5}), Return(0)>>
    [] e = "board_ecs_geforce6100sm_m" ->
         <<Need(Device("MCP61 SMBus"), Fail), Drop(Pci("MCP61 SMBus"), \hE0, {3}), Return(0)>>
    [] OTHER -> <<Return(0)>>

(* The enables of a line: the function and what it is called with.          *)
WinbondLine ==
  [w83627hf_gpio24_raise_2e |-> <<"2e", "W83627HF", 24>>, w83627hf_gpio25_raise_2e |-> <<"2e", "W83627HF", 25>>,
   w83627ehf_gpio22_raise_2e |-> <<"2e", "W83627EHF", 22>>,
   w83627thf_gpio44_raise_2e |-> <<"2e", "W83627THF", 44>>,
   w83627thf_gpio44_raise_4e |-> <<"4e", "W83627THF", 44>>]
MemwPort ==
  [w836xx_memw_enable_2e |-> "2e", w836xx_memw_enable_4e |-> "4e"]
(* it8712f_gpio31_raise() raises line 32.                                   *)
It87Line == [it8712f_gpio12_raise |-> 12, it8712f_gpio31_raise |-> 32, it8718f_gpio63_raise |-> 63]
Vt823xLine == [via_vt823x_gpio5_raise |-> 5, via_vt823x_gpio9_raise |-> 9, via_vt823x_gpio15_raise |-> 15]
NvidiaLine ==
  [nvidia_mcp_gpio0_raise |-> <<0, 1>>, nvidia_mcp_gpio2_lower |-> <<2, 0>>, nvidia_mcp_gpio2_raise |-> <<2, 1>>,
   nvidia_mcp_gpio4_raise |-> <<4, 1>>, nvidia_mcp_gpio5_raise |-> <<5, 1>>, nvidia_mcp_gpio8_raise |-> <<8, 1>>,
   nvidia_mcp_gpio0a_raise |-> <<10, 1>>, nvidia_mcp_gpio0c_raise |-> <<12, 1>>,
   nvidia_mcp_gpio4_lower |-> <<4, 0>>, nvidia_mcp_gpio10_raise |-> <<16, 1>>,
   nvidia_mcp_gpio21_raise |-> <<33, 1>>, nvidia_mcp_gpio31_raise |-> <<49, 1>>,
   nvidia_mcp_gpio3b_raise |-> <<59, 1>>]
Piix4Line ==
  [intel_piix4_gpo18_lower |-> <<18, 0>>, intel_piix4_gpo14_raise |-> <<14, 1>>,
   intel_piix4_gpo22_raise |-> <<22, 1>>, intel_piix4_gpo26_lower |-> <<26, 0>>,
   intel_piix4_gpo27_lower |-> <<27, 0>>, intel_piix4_gpo30_lower |-> <<30, 0>>]
IchLine ==
  [intel_ich_gpio16_raise |-> 16, intel_ich_gpio18_raise |-> 18, intel_ich_gpio19_raise |-> 19,
   intel_ich_gpio20_raise |-> 20, intel_ich_gpio21_raise |-> 21, intel_ich_gpio22_raise |-> 22,
   intel_ich_gpio23_raise |-> 23, intel_ich_gpio25_raise |-> 25, intel_ich_gpio26_raise |-> 26,
   intel_ich_gpio32_raise |-> 32, intel_ich_gpio34_raise |-> 34, intel_ich_gpio38_raise |-> 38,
   intel_ich_gpio43_raise |-> 43]
ApolloLine == [via_apollo_gpo4_lower |-> 4, via_apollo_gpo0_lower |-> 0]

Enable ==
  LET e == board.enable
      done == <<Return(0)>>
  IN  CASE e \in DOMAIN WinbondLine ->
             WinbondGpio(WinbondLine[e][1], WinbondLine[e][2], WinbondLine[e][3], 1)
        [] e \in DOMAIN MemwPort -> W836xxMemw(MemwPort[e]) \o done
        [] e = "w83697xx_memw_enable_2e" -> W83697xxMemw("2e") \o done
        [] e \in DOMAIN It87Line -> It87Gpio(It87Line[e], 1)
        [] e \in DOMAIN Vt823xLine -> Vt823xGpio(Vt823xLine[e], 1, Fail, done)
        [] e \in DOMAIN NvidiaLine -> NvidiaGpio(NvidiaLine[e][1], NvidiaLine[e][2], done)
        [] e \in DOMAIN Piix4Line -> Piix4Gpo(Piix4Line[e][1], Piix4Line[e][2])
        [] e \in DOMAIN IchLine -> IchGpio(IchLine[e], 1, done)
        [] e \in DOMAIN ApolloLine -> ApolloGpo(ApolloLine[e], 0)
        [] e \in {"board_sun_ultra_40_m2", "board_artecgroup_dbe6x", "amd_sbxxx_gpio9_raise"} -> OfNvidiaAndAmd(e)
        [] e \in {"board_hp_vl400", "board_hp_p2706t", "board_acorp_6a815epd", "board_kontron_986lcd_m",
                  "board_aopen_i975xa_ydg"} -> OfSeveralLines(e)
        [] e \in {"sis_gpio0_raise_and_w836xx_memw", "board_mitac_6513wu", "board_abit_av8",
                  "it8703f_gpio51_raise", "it8707f_write_enable_2e", "fdc37b787_gpio50_raise_3f0"} -> OfSuperIo(e)
        [] OTHER -> OfOneBoard(e)

OnCall ==
  /\ Does("call")
  /\ Then(IF Todo.name = "init_superio_ite" THEN IteInterfaces ELSE Enable)
  /\ UNCHANGED <<board, outcome, conf, ldn, regs, base, found, tries>>

BoardInit ==
  /\ board \in Boards
  /\ todo = SuperioProbes \o <<Call("init_superio_ite"), Call("board_flash_enable")>>
  /\ outcome = 99 /\ conf = {} /\ ldn = [port \in ConfigPorts |-> 0] /\ regs = <<>>
  /\ base = NoBase /\ found = <<>> /\ tries = 0

BoardStep == OnKey \/ OnSelect \/ OnMask \/ OnBase \/ OnIf \/ OnPoll \/ OnRegister \/ OnReturn \/ OnCall
BoardDone == todo = <<>> /\ UNCHANGED boardVars
BoardNext == BoardStep \/ BoardDone

BoardSpec == BoardInit /\ [][BoardNext]_boardVars

-----------------------------------------------------------------------------
(* What the board needs, from where its lines are wired: registers, bits    *)
(* and their values. First the line itself, and what makes an output of it. *)
Bit(place, reg, bit, value) == [at |-> <<place, reg>>, bit |-> bit, value |-> value]

WinbondNeeds(port, chip, pin) ==
  LET d == <<port, IF chip = "W83627HF" THEN 8 ELSE 9, 0>>
      f == CASE chip = "W83627HF" -> \hF0 [] chip = "W83627EHF" -> \hE3 [] OTHER -> \hF4
      n == pin % 10
  IN  {Bit(d, \h30, IF chip = "W83627THF" THEN 1 ELSE 0, 1),
       Bit(d, f, n, 0), Bit(d, f + 1, n, 1), Bit(d, f + 2, n, 0)}
      \cup {Bit(<<port, Global, 0>>, WinbondMux(chip, n).reg, b, 1) : b \in WinbondMux(chip, n).on}
      \cup {Bit(<<port, Global, 0>>, WinbondMux(chip, n).reg, b, 0) : b \in WinbondMux(chip, n).off}

IchNeeds(lines) ==
  LET bridge == Bridge(DOMAIN IchAllowed)
      gpio == <<bridge, 0, IF bridge \in {"ICH", "ICH2", "ICH3", "ICH4", "ICH4M", "ICH5"} THEN \h58 ELSE \h48>>
      Bank(n) == IF n < 32 THEN 0 ELSE \h30
      Lvl(n) == IF n < 32 THEN \h0C ELSE \h38
  IN  UNION {{Bit(gpio, Bank(n), n % 32, 1), Bit(gpio, Bank(n) + 4, n % 32, 0),
              Bit(gpio, Lvl(n), n % 32, 1)} : n \in lines}

NvidiaNeeds(line, high) ==
  LET owner == Bridge({"CK804", "MCP04", "MCP2", "CK8"})
      place == <<IF owner = "none" THEN "MCP SMBus" ELSE owner, 0, \h64>>
  IN  {Bit(place, \hC0 + line, 0, high), Bit(place, \hC0 + line, 1, 0),
       Bit(place, \hC0 + line, 2, 1), Bit(place, \hC0 + line, 3, 0)}

(* A PC8736x' lines come in banks of 8; five have levels, at these offsets. *)
Pc8736xNeeds(lines) ==
  LET Offset(n) == CASE n \in 0 .. 7 -> 0 [] n \in 8 .. 15 -> 4 [] n \in 16 .. 23 -> 8
                     [] n \in 24 .. 31 -> 10 [] OTHER -> 12
  IN  {Bit(<<"2e", 7, 0>>, \h30, 0, 1)}
      \cup {Bit(<<"2e", 7, \h60>>, Offset(n), n % 8, 1) : n \in lines}
      \cup {Bit(<<"2e", 7, 0>>, 256 * (1 + ((n \div 8) * 16 + (n % 8))), 0, 1) : n \in lines}

Vt823xNeeds(line) ==
  LET bridge == Bridge({"VT8235", "VT8237", "VT8237A"})
  IN  {Bit(<<bridge, 0, 0>>, \hE4, IF line = 5 THEN 0 ELSE IF line = 9 THEN 5 ELSE 4, 1),
       Bit(<<bridge, 0, \h88>>, IF line < 8 THEN \h4C ELSE \h4D, line % 8, 1)}

It87Port == IF ChipAt("2e") \in {"IT8712F", "IT8718F"} THEN "2e" ELSE "4e"
ItePlace(n) == <<It87Port, 7, n>>

(* MEMW#, unless bit 1 said that the chip is no flash chip's.               *)
MemwNeeds(port) ==
  IF ChipAt(port) \in Winbond /\ 1 \notin Content(<<<<port, Global, 0>>, \h24>>)
  THEN {Bit(<<port, Global, 0>>, \h24, 3, 1), Bit(<<port, Global, 0>>, \h24, 5, 1)} ELSE {}

Needs ==
  LET e == board.enable
  IN  CASE e \in DOMAIN WinbondLine -> WinbondNeeds(WinbondLine[e][1], WinbondLine[e][2], WinbondLine[e][3])
        [] e \in DOMAIN IchLine -> IchNeeds({IchLine[e]})
        [] e = "board_acorp_6a815epd" -> IchNeeds({22, 23})
        [] e = "board_kontron_986lcd_m" -> IchNeeds({34, 35})
        [] e = "board_aopen_i975xa_ydg" -> IchNeeds({33})
        [] e = "board_hp_vl400" -> IchNeeds({25}) \cup Pc8736xNeeds({9, 39})
        [] e = "board_hp_p2706t" -> Pc8736xNeeds({37, 38})
        [] e \in DOMAIN NvidiaLine -> NvidiaNeeds(NvidiaLine[e][1], NvidiaLine[e][2])
        [] e = "board_sun_ultra_40_m2" ->
             NvidiaNeeds(4, 0) \cup {Bit(<<"MCP55", 0, \hB4>>, \h4B, 4, 1)}
        [] e \in DOMAIN Piix4Line ->
             {Bit(<<"PIIX4 PM", 0, \h40>>, \h34 + (Piix4Line[e][1] \div 8), Piix4Line[e][1] % 8, Piix4Line[e][2])}
        [] e \in DOMAIN Vt823xLine -> Vt823xNeeds(Vt823xLine[e])
        [] e = "board_msi_kt4v" -> Vt823xNeeds(12) \cup MemwNeeds("2e")
        [] e = "it8712f_gpio12_raise" -> {Bit(ItePlace(\h62), 0, 2, 1)}
        [] e = "it8712f_gpio31_raise" -> {Bit(ItePlace(\h62), 2, 2, 1)}
        [] e = "it8718f_gpio63_raise" -> {Bit(ItePlace(\h62), 5, 3, 1)}
        [] e = "it8703f_gpio51_raise" -> {Bit(<<"2e", 12, \h60>>, 0, 1, 1)}
        [] e = "it8707f_write_enable_2e" ->
             {Bit(<<"2e", Global, 0>>, \h24, 2, 1), Bit(<<"2e", Global, 0>>, \h24, 3, 1),
              Bit(<<"2e", Global, 0>>, \h23, 3, 0)}
        [] e \in DOMAIN MemwPort -> MemwNeeds(MemwPort[e])
        [] e = "sis_gpio0_raise_and_w836xx_memw" ->
             {Bit(<<"SiS962", 0, \h74>>, \h68, 0, 0), Bit(<<"SiS962", 0, \h74>>, \h64, 0, 1)} \cup MemwNeeds("2e")
        [] e = "fdc37b787_gpio50_raise_3f0" -> {Bit(<<"3f0", 8, 0>>, \hF9, 0, 1)}
        [] e = "board_mitac_6513wu" ->
             {Bit(<<"4e", 10, \h60>>, \h33, b, 0) : b \in {0, 1, 2, 7}} \cup {Bit(<<"4e", 10, \h60>>, \h4D, 0, 1)}
        [] e \in DOMAIN ApolloLine -> {Bit(<<"VT82C686 PM", 0, \h48>>, \h4C, ApolloLine[e], 0)}
        [] OTHER -> {}

Ended == todo = <<>>
(* A board enable that returned 0 has driven every line of its board: each  *)
(* is routed to its pin, is an output and has its level, whatever the       *)
(* registers held and whichever logical device was selected before. (Only   *)
(* winbond_gpio_set() may work at a port where its chip is not.)            *)
ChipElsewhere == board.enable \in DOMAIN WinbondLine
                 /\ ChipAt(WinbondLine[board.enable][1]) # WinbondLine[board.enable][2]
DrivesItsLines ==
  Ended /\ outcome = 0 /\ ~ChipElsewhere => \A n \in Needs : (n.bit \in Content(n.at)) <=> n.value = 1

(* What a register may change besides: what init_superio_ite() and the      *)
(* probes do, and the bits an enable clears or sets on the way.             *)
Initial(address) == IF address \in DOMAIN board.preset THEN board.preset[address] ELSE board.fill
Besides(address) ==
  LET place == address[1] reg == address[2]
  IN  CASE place[2] = Global /\ reg = 2 -> Word                 (* the ITE exit, see OnKey *)
        [] place[2] = Global /\ reg = \h24 -> 0 .. 5            (* the flash interface     *)
        [] place[2] = Global /\ reg = \h23 -> {3}
        [] place[2] = Global /\ reg = \h28 -> {3}
        [] place[2] = 7 /\ reg \in {\h64, \h65} -> Word
        [] place[2] = 7 /\ reg = \hF0 -> 0 .. 255               (* the pin of a PC8736x    *)
        [] place[2] = \h0B /\ reg = \h4E -> {0, 1, 2, 7}
        [] place[1] \in {"msr", "w83781d", "AMD SMBus", "HT1000", "0x4000", "MCP61 SMBus", "VT82C686 PM"} -> Word
        [] OTHER -> {}
(* No other line changes, and nothing else of the Super I/O or the bridge:  *)
(* not the same bit in another logical device, nor another bit of the       *)
(* register.                                                                *)
OnlyItsLines ==
  \A a \in DOMAIN regs : \A b \in (regs[a] \ Initial(a)) \cup (Initial(a) \ regs[a]) :
    b \in Besides(a) \/ \E n \in Needs : n.at = a /\ n.bit = b

(* All of its lines, and only those.                                        *)
ItsLines == DrivesItsLines /\ OnlyItsLines

(* Every way out of the code, that of a failed check too, leaves the Super  *)
(* I/O's configuration mode, in which the next access to its ports would    *)
(* change it. Only two do not: a bad it87spiport, and the probe for ITE     *)
(* chips, whose key opens those of SMSC.                                    *)
LeavesConfigurationMode ==
  Ended => \A port \in conf :
             \/ ChipAt(port) \in {"IT8716F", "IT8718F"} /\ board.it87spiport = "bad"
             \/ ChipAt(port) \in Smsc /\ board.enable # "board_mitac_6513wu"
=============================================================================
