---------------------------- MODULE MCMainboard -----------------------------
EXTENDS Mainboard, MCInternal, TLC

Nothing == [port \in ConfigPorts |-> "none"]
At2e(chip) == [Nothing EXCEPT !["2e"] = chip]
At4e(chip) == [Nothing EXCEPT !["4e"] = chip]

(* The registers hold zeros, or ones, or what the code has to find.         *)
Filled(b, preset) ==
  {[enable |-> b[1], sio |-> b[2], devices |-> b[3], based |-> TRUE, it87spiport |-> "none",
    preset |-> p, fill |-> f] : f \in {{}, Word}, p \in {<<>>, preset}}
Plain(b) == Filled(b, <<>>)

(* Each enable on the chipsets of its boards.                               *)
IchBoards ==
  UNION {Plain(<<b[1], At2e(b[3]), {b[2]}>>) : b \in
    {<<"intel_ich_gpio16_raise", "ICH9", "none">>, <<"intel_ich_gpio16_raise", "ICH7", "W83627EHF">>,
     <<"intel_ich_gpio18_raise", "ICH6", "none">>, <<"intel_ich_gpio19_raise", "ICH6", "none">>,
     <<"intel_ich_gpio20_raise", "ICH7", "none">>, <<"intel_ich_gpio21_raise", "ICH2", "none">>,
     <<"intel_ich_gpio21_raise", "ICH5", "none">>, <<"intel_ich_gpio21_raise", "ICH6", "none">>,
     <<"intel_ich_gpio22_raise", "ICH2", "none">>, <<"intel_ich_gpio22_raise", "ICH4", "none">>,
     <<"intel_ich_gpio22_raise", "ICH", "LPC47U33x">>, <<"intel_ich_gpio23_raise", "ICH5", "none">>,
     <<"intel_ich_gpio23_raise", "ICH2", "none">>, <<"intel_ich_gpio25_raise", "ICH2", "none">>,
     <<"intel_ich_gpio26_raise", "ICH7", "none">>, <<"intel_ich_gpio32_raise", "ICH4", "none">>,
     <<"intel_ich_gpio32_raise", "ICH5", "none">>, <<"intel_ich_gpio34_raise", "ICH7", "none">>,
     <<"intel_ich_gpio38_raise", "ICH7M", "none">>, <<"intel_ich_gpio43_raise", "ICH4M", "none">>,
     <<"board_aopen_i975xa_ydg", "ICH7", "W83627EHF">>, <<"board_acorp_6a815epd", "ICH2", "none">>,
     <<"board_kontron_986lcd_m", "ICH7", "none">>, <<"board_hp_vl400", "ICH", "PC87360">>,
     <<"board_hp_vl400", "ICH", "none">>, <<"board_hp_p2706t", "ICH", "PC87364">>,
     (* not in the table of boards: lines a chipset does not have, or keeps *)
     <<"intel_ich_gpio18_raise", "ICH", "none">>, <<"intel_ich_gpio34_raise", "ICH10", "none">>,
     <<"intel_ich_gpio16_raise", "other", "none">>}}

NvidiaBoards ==
  UNION {Plain(<<b[1], At2e(b[3]), {b[2], "MCP SMBus"}>>) : b \in
    {<<"nvidia_mcp_gpio0_raise", "MCP51", "none">>, <<"nvidia_mcp_gpio2_lower", "CK804", "none">>,
     <<"nvidia_mcp_gpio2_raise", "MCP51", "none">>, <<"nvidia_mcp_gpio2_raise", "MCP55", "W83627EHF">>,
     <<"nvidia_mcp_gpio2_raise", "other", "none">>, <<"nvidia_mcp_gpio4_raise", "CK804", "none">>,
     <<"nvidia_mcp_gpio5_raise", "MCP55", "none">>, <<"nvidia_mcp_gpio8_raise", "CK804", "none">>,
     <<"nvidia_mcp_gpio0a_raise", "CK8", "none">>, <<"nvidia_mcp_gpio0c_raise", "CK8", "none">>,
     <<"nvidia_mcp_gpio4_lower", "MCP51", "none">>, <<"nvidia_mcp_gpio10_raise", "MCP04", "none">>,
     <<"nvidia_mcp_gpio21_raise", "CK804", "IT8712F">>, <<"nvidia_mcp_gpio31_raise", "MCP2", "none">>,
     <<"nvidia_mcp_gpio3b_raise", "MCP51", "none">>, <<"board_sun_ultra_40_m2", "MCP55", "none">>}}
  \cup Plain(<<"nvidia_mcp_gpio0_raise", Nothing, {"MCP51"}>>)

ChipsetBoards ==
  UNION {Plain(<<b[1], At2e(b[2]), b[3]>>) : b \in
    {<<"via_vt823x_gpio5_raise", "IT8716F", {"VT8237A"}>>, <<"via_vt823x_gpio9_raise", "none", {"VT8237"}>>,
     <<"via_vt823x_gpio15_raise", "none", {"VT8235"}>>, <<"via_vt823x_gpio15_raise", "none", {}>>,
     <<"board_msi_kt4v", "W83697HF", {"VT8235"}>>, <<"board_msi_kt4v", "W83697HF", {}>>,
     <<"via_apollo_gpo4_lower", "none", {"VT82C686 PM"}>>, <<"via_apollo_gpo0_lower", "none", {"VT82C686 PM"}>>,
     <<"intel_piix4_gpo27_lower", "none", {"PIIX4", "PIIX4 PM"}>>,
     <<"intel_piix4_gpo30_lower", "none", {"PIIX4", "PIIX4 PM"}>>,
     <<"sis_gpio0_raise_and_w836xx_memw", "W83697HF", {"SiS962"}>>,
     <<"board_abit_av8", "none", {}>>, <<"board_hp_dl145_g3_enable", "none", {}>>,
     <<"board_hp_dl165_g6_enable", "none", {}>>, <<"board_ibm_x3455", "none", {}>>,
     <<"board_ecs_geforce6100sm_m", "none", {"MCP61 SMBus"}>>, <<"amd_sbxxx_gpio9_raise", "none", {"AMD SMBus"}>>,
     <<"board_artecgroup_dbe6x", "none", {"msr"}>>, <<"board_asus_p5a", "none", {"w83781d"}>>}}
  \cup UNION {Filled(<<b, Nothing, {"PIIX4", "PIIX4 PM"}>>,
                (<<<<"PIIX4", 0, 0>>, \hB2>> :> {3, 12, 15}) @@ (<<<<"PIIX4", 0, 0>>, \h4E>> :> {})) :
              b \in DOMAIN Piix4Line}

(* A Super I/O's enables find their chip, at their port or at the other, or *)
(* another chip, and its base set up by the BIOS or not.                    *)
Unbased(boards) ==
  boards \cup {[b EXCEPT !.based = FALSE] :
                  b \in {c \in boards : \A port \in ConfigPorts : c.sio[port] # "W83697HF"}}
SuperIoBoards ==
  Unbased(UNION {Filled(<<b[1], b[2], {"ICH"}>>,
                        (<<<<"3f0", 8, 0>>, \hC8>> :> {4}) @@ (<<<<"4e", 10, 0>>, \h30>> :> {0})) :
     b \in {<<e, At2e(c)>> : e \in {"w83627hf_gpio24_raise_2e", "w83627hf_gpio25_raise_2e"},
                             c \in {"W83627HF", "W83627THF", "none"}}
           \cup {<<"w83627hf_gpio24_raise_2e", At4e("W83627HF")>>,
                 <<"w83627ehf_gpio22_raise_2e", At2e("W83627EHF")>>,
                 <<"w83627thf_gpio44_raise_2e", At2e("W83627THF")>>,
                 <<"w83627thf_gpio44_raise_4e", At4e("W83627THF")>>,
                 <<"w83627thf_gpio44_raise_4e", [At4e("W83627THF") EXCEPT !["2e"] = "W83627HF"]>>,
                 <<"w836xx_memw_enable_2e", At2e("W83697HF")>>, <<"w836xx_memw_enable_2e", At2e("IT8705F")>>,
                 <<"w836xx_memw_enable_4e", At4e("W83697HF")>>,
                 <<"it8712f_gpio12_raise", At2e("IT8712F")>>, <<"it8712f_gpio31_raise", At4e("IT8712F")>>,
                 <<"it8718f_gpio63_raise", At2e("IT8718F")>>, <<"it8718f_gpio63_raise", At2e("IT8712F")>>,
                 <<"it8718f_gpio63_raise", Nothing>>,
                 <<"it8703f_gpio51_raise", At2e("IT8703F")>>, <<"it8703f_gpio51_raise", At2e("IT8712F")>>,
                 <<"it8707f_write_enable_2e", At2e("IT8707F")>>,
                 <<"fdc37b787_gpio50_raise_3f0", [Nothing EXCEPT !["3f0"] = "FDC37B787"]>>,
                 <<"fdc37b787_gpio50_raise_3f0", Nothing>>,
                 <<"board_mitac_6513wu", At4e("LPC47U33x")>>, <<"board_mitac_6513wu", Nothing>>,
                 <<"board_hp_p2706t", At2e("PC87364")>>}})
  \cup Filled(<<"w83697xx_memw_enable_2e", At2e("W83697HF"), {}>>,
              (<<<<"2e", Global, 0>>, \h24>> :> {}) @@ (<<<<"2e", Global, 0>>, \h2A>> :> 4 .. 7))

(* The flash interfaces of the ITE chips, as the BIOS may have set them up. *)
IteBoards ==
  {[enable |-> "none", sio |-> At2e("IT8705F"), devices |-> {}, based |-> TRUE, it87spiport |-> "none",
    preset |-> <<<<"2e", Global, 0>>, \h24>> :> v, fill |-> f] : v \in {{}, {4, 6}, {1, 4, 6}}, f \in {{}, Word}}
  \cup {[enable |-> e, sio |-> At2e("IT8718F"), devices |-> {}, based |-> TRUE, it87spiport |-> p,
         preset |-> <<<<"2e", Global, 0>>, \h24>> :> v, fill |-> {}] :
        e \in {"none", "it8718f_gpio63_raise"}, p \in {"none", "good", "bad"}, v \in {{}, {0, 1, 2}}}

MCWired == IchBoards \cup NvidiaBoards \cup ChipsetBoards \cup SuperIoBoards \cup IteBoards
=============================================================================
