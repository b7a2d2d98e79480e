------------------------------ MODULE SuperIo -------------------------------
(***************************************************************************)
(* Super I/O chips and the code that pokes at them. A chip listens at its  *)
(* two ports only in configuration mode, which each maker's chips enter    *)
(* and leave by another key, and there to the logical device selected last *)
(* by whoever did. Code is the list of what it does to the hardware, one   *)
(* step at a time: a key, a read-modify-write of a register, a check.      *)
(***************************************************************************)
EXTENDS Integers, Sequences

CONSTANTS
  Boards,      (* the mainboards: see the module that gives them            *)
  MaxPolls     (* polls of a device, for the 5000 of ASUSP5A_LOOP           *)

ASSUME SuperIoAssumption == MaxPolls \in Nat \ {0}

VARIABLES
  board,       (* what is on the mainboard                                  *)
  todo,        (* what is left of the code                                  *)
  outcome,     (* what the board enable returned                            *)
  conf,        (* the ports whose chip is in configuration mode             *)
  ldn,         (* the logical device selected, of the chip at each port     *)
  regs,        (* the registers written, as sets of bits                    *)
  base,        (* the I/O base that was read last                           *)
  found,       (* the Super I/Os that were found                            *)
  tries        (* polls so far                                              *)

boardVars == <<board, todo, outcome, conf, ldn, regs, base, found, tries>>

ConfigPorts == {"2e", "4e", "3f0"}
Word == 0 .. 31
Global == 256                       (* the "logical device" of registers below 0x30 *)
NoBase == <<"none", 0, 0>>

(* The chips, as the code takes them to be.                                 *)
Winbond == {"W83627HF", "W83627EHF", "W83627THF", "W83697HF"}
Smsc == {"FDC37B787", "LPC47U33x"}
AlwaysOpen == {"PC87360", "PC87364"}
ChipAt(port) == board.sio[port]

(* An SMSC chip takes the 0x55 of the ITE key for its own.                  *)
Opens(chip, key) ==
  CASE key = "8787" -> chip \in Winbond \cup {"IT8707F", "IT8703F"}
    [] key = "ite" -> chip \in Smsc \cup {"IT8705F", "IT8712F", "IT8716F", "IT8718F"}
    [] OTHER -> key = "55" /\ chip \in Smsc
Closes(chip, key) ==
  CASE key = "aa" -> chip \in Winbond \cup Smsc \cup {"IT8703F"}
    [] OTHER -> key = "ite exit" /\ chip \in {"IT8705F", "IT8707F", "IT8712F", "IT8716F", "IT8718F"}
Open(port) == ChipAt(port) \in AlwaysOpen \/ port \in conf

(* Registers: of the Super I/O at a port, of a PCI device, of an I/O block  *)
(* at a fixed place or at the base just read. One that was never written    *)
(* has what the board came with.                                            *)
Sio(port) == <<"sio", port>>
Pci(dev) == <<"pci", dev>>
Fixed(name) == <<"pci", name>>
AtBase == <<"base", "">>

(* A PC8736x keeps a configuration register for each pin, of which 0xf0     *)
(* picks one.                                                               *)
Address(where, reg) ==
  CASE where[1] = "base" -> <<base, reg>>
    [] where[1] = "pci" -> <<<<where[2], 0, 0>>, reg>>
    [] OTHER ->
         LET port == where[2]
             bank == IF reg < \h30 THEN Global ELSE ldn[port]
             pin == <<<<port, bank, 0>>, \hF0>>
         IN  IF ChipAt(port) \in AlwaysOpen /\ reg = \hF1 /\ pin \in DOMAIN regs
             THEN <<<<port, bank, 0>>, 256 * (1 + CHOOSE n \in regs[pin] : TRUE)>>
             ELSE <<<<port, bank, 0>>, reg>>
Content(address) == IF address \in DOMAIN regs THEN regs[address]
                    ELSE IF address \in DOMAIN board.preset THEN board.preset[address]
                    ELSE board.fill
Answers(where) == where[1] = "sio" => Open(where[2])
Value(where, reg) == IF Answers(where) THEN Content(Address(where, reg)) ELSE Word

(* Registers 0x24 to 0x2a of an IT8707F cannot be written until bit 3 of    *)
(* 0x23 is set.                                                             *)
Writable(where, reg) ==
  /\ Answers(where)
  /\ (where[1] = "sio" /\ ChipAt(where[2]) = "IT8707F" /\ reg \in \h24 .. \h2A) => 3 \in Value(where, \h23)

-----------------------------------------------------------------------------
(* The steps.                                                               *)
Key(port, key) == [do |-> "key", port |-> port, key |-> key]
Select(port, n) == [do |-> "select", port |-> port, ldn |-> n]
Mask(where, reg, on, off) == [do |-> "mask", where |-> where, reg |-> reg, on |-> on, off |-> off]
Raise(where, reg, bits) == Mask(where, reg, bits, {})
Drop(where, reg, bits) == Mask(where, reg, {}, bits)
Level(where, reg, bit, high) == IF high = 1 THEN Raise(where, reg, {bit}) ELSE Drop(where, reg, {bit})
Put(where, reg, bits) == Mask(where, reg, bits, 0 .. 255)
ReadBase(where, reg) == [do |-> "base", where |-> where, reg |-> reg]
If(test, then, else) == [do |-> "if", test |-> test, then |-> then, else |-> else]
Poll(else) == [do |-> "poll", else |-> else]
Register(port, chip) == [do |-> "register", port |-> port, chip |-> chip]
Call(name) == [do |-> "call", name |-> name]
Return(value) == [do |-> "return", value |-> value]
Fail == <<Return(-1)>>

(* What an "if" looks at.                                                   *)
Bits(where, reg, on, off) == [is |-> "bits", where |-> where, reg |-> reg, on |-> on, off |-> off]
Id(port, chips) == [is |-> "id", port |-> port, chips |-> chips]
HasBase == [is |-> "base"]
Device(name) == [is |-> "device", name |-> name]
Need(test, else) == If(test, <<>>, else)

Holds(test) ==
  CASE test.is = "bits" -> LET v == Value(test.where, test.reg)
                           IN  test.on \subseteq v /\ test.off \cap v = {}
    [] test.is = "id" -> Open(test.port) /\ ChipAt(test.port) \in test.chips
    [] test.is = "base" -> base # NoBase
    [] test.is = "device" -> test.name \in board.devices

-----------------------------------------------------------------------------
(* What a step does. OnKey: a key opens the chip, or closes it, or is only  *)
(* another index to it; the ITE exit is a write of 2 to register 2 of any   *)
(* chip that listens.                                                       *)
Todo == Head(todo)
Does(what) == todo # <<>> /\ Todo.do = what
Then(more) == todo' = more \o Tail(todo)

OnKey ==
  /\ Does("key") /\ Then(<<>>)
  /\ LET chip == ChipAt(Todo.port)
     IN  /\ conf' = IF Opens(chip, Todo.key) THEN conf \cup {Todo.port}
                    ELSE IF Closes(chip, Todo.key) THEN conf \ {Todo.port} ELSE conf
         /\ regs' = IF Todo.key = "ite exit" /\ Open(Todo.port) /\ ~Closes(chip, Todo.key)
                    THEN [a \in DOMAIN regs \cup {Address(Sio(Todo.port), 2)} |->
                            IF a = Address(Sio(Todo.port), 2) THEN {1} ELSE regs[a]]
                    ELSE regs
  /\ UNCHANGED <<board, outcome, ldn, base, found, tries>>

OnSelect ==
  /\ Does("select") /\ Then(<<>>)
  /\ ldn' = IF Open(Todo.port) THEN [ldn EXCEPT ![Todo.port] = Todo.ldn] ELSE ldn
  /\ UNCHANGED <<board, outcome, conf, regs, base, found, tries>>

(* sio_mask(), and the same for PCI and I/O registers.                      *)
Masked(old, on, off) == (old \ off) \cup on
OnMask ==
  /\ Does("mask") /\ Then(<<>>)
  /\ regs' = IF ~Writable(Todo.where, Todo.reg) THEN regs
             ELSE LET a == Address(Todo.where, Todo.reg)
                  IN  [b \in DOMAIN regs \cup {a} |->
                         IF b = a THEN Masked(Content(a), Todo.on, Todo.off) ELSE regs[b]]
  /\ UNCHANGED <<board, outcome, conf, ldn, base, found, tries>>

(* The BIOS may have left a base address at 0.                              *)
OnBase ==
  /\ Does("base") /\ Then(<<>>)
  /\ base' = IF ~board.based THEN NoBase
             ELSE IF Todo.where[1] = "sio" THEN <<Todo.where[2], ldn[Todo.where[2]], Todo.reg>>
             ELSE <<Todo.where[2], 0, Todo.reg>>
  /\ UNCHANGED <<board, outcome, conf, ldn, regs, found, tries>>

OnIf ==
  /\ Does("if")
  /\ Then(IF Holds(Todo.test) THEN Todo.then ELSE Todo.else)
  /\ UNCHANGED <<board, outcome, conf, ldn, regs, base, found, tries>>

(* A device is polled until it answers, or for so long.                     *)
OnPoll ==
  /\ Does("poll")
  /\ \/ Then(<<>>) /\ tries' = 0
     \/ tries < MaxPolls /\ tries' = tries + 1 /\ UNCHANGED todo
     \/ tries = MaxPolls /\ tries' = 0 /\ Then(Todo.else)
  /\ UNCHANGED <<board, outcome, conf, ldn, regs, base, found>>

(* register_superio() *)
OnRegister ==
  /\ Does("register") /\ Then(<<>>)
  /\ found' = IF Len(found) = 3 THEN found
                 ELSE Append(found, [chip |-> Todo.chip, port |-> Todo.port])
  /\ UNCHANGED <<board, outcome, conf, ldn, regs, base, tries>>

OnReturn ==
  /\ Does("return") /\ todo' = <<>> /\ outcome' = Todo.value
  /\ UNCHANGED <<board, conf, ldn, regs, base, found, tries>>

-----------------------------------------------------------------------------
(* probe_superio_winbond(), for one port. The chip's own key must open it   *)
(* and close it again, else it was open before or is another maker's.       *)
WinbondFound(port) ==
  CASE ChipAt(port) = "W83697HF" ->           (* w836xx_deviceid_hwmon() *)
         <<If(IF port = "4e" THEN Bits(Sio(port), \h26, {6}, {}) ELSE Bits(Sio(port), \h26, {}, {6}),
              <<Select(port, \h0B),
                If(Bits(Sio(port), \h30, {0}, {}),
                   <<ReadBase(Sio(port), \h60), Raise(AtBase, \h4E, {7}), Drop(AtBase, \h4E, {7}),
                     Drop(AtBase, \h4E, {0, 1, 2}), Register(port, "W83697HF")>>,
                   <<>>)>>,
              <<>>)>>
    [] ChipAt(port) \in Winbond \ {"W83697HF"} -> <<Register(port, ChipAt(port))>>
    [] OTHER -> <<>>
ProbeWinbond(port) ==
  LET id == [is |-> "id", port |-> port, chips |-> {ChipAt(port)}]
  IN  <<Key(port, "8787"),
        If(id,
           <<Key(port, "aa"),
             If(id,
                IF ChipAt(port) = "IT8707F" THEN <<Register(port, "IT8707F"), Key(port, "ite exit")>>
                ELSE <<>>,
                <<Key(port, "8787")>> \o WinbondFound(port) \o <<Key(port, "aa")>>)>>,
           <<>>)>>

(* probe_superio_ite() *)
Ite == {"IT8705F", "IT8707F", "IT8712F", "IT8716F", "IT8718F"}
ProbeIte(port) ==
  <<Key(port, "ite"),
    If(Id(port, Ite), <<Key(port, "ite exit"), Register(port, ChipAt(port))>>, <<Key(port, "ite exit")>>)>>

SuperioProbes == ProbeWinbond("2e") \o ProbeWinbond("4e") \o ProbeIte("2e") \o ProbeIte("4e")

(* it8705f_write_enable(): writes are enabled only if what the BIOS set up  *)
(* makes sense.                                                             *)
It8705fWriteEnable(port) ==
  LET Clear(reg, bits) == Bits(Sio(port), reg, {}, bits)
  IN  <<Key(port, "ite"),
        If(Bits(Sio(port), \h24, {4, 6}, {1}),
           <<If(Clear(\h25, 0 .. 7),
                <<If(Clear(\h26, 0 .. 7),
                     <<If(Clear(\h27, 0 .. 7),
                          <<If(Clear(\h29, 0 .. 4), <<Raise(Sio(port), \h24, {2})>>, <<>>)>>, <<>>)>>, <<>>)>>,
                <<>>)>>,
           <<>>),
        Key(port, "ite exit")>>

(* it87spi_probe(): a bad it87spiport ends it at once, the chip still open. *)
It87SpiProbe(port) ==
  <<Key(port, "ite"),
    If(Bits(Sio(port), \h24, {}, {1, 2, 3}),
       <<Key(port, "ite exit")>>,
       <<If(Bits(Sio(port), \h24, {4}, {}), <<>>, <<Mask(Sio(port), \h24, {4}, {0})>>), Select(port, 7)>>
       \o CASE board.it87spiport = "bad" -> <<>>
            [] board.it87spiport = "good" -> <<Put(Sio(port), \h64, {0, 3}), Put(Sio(port), \h65, {3}),
                                               Key(port, "ite exit")>>
            [] OTHER -> <<Key(port, "ite exit")>>)>>

IteInterfaces ==
  LET Of(n) == IF n > Len(found) THEN <<>>
               ELSE CASE found[n].chip = "IT8705F" -> It8705fWriteEnable(found[n].port)
                      [] found[n].chip \in {"IT8716F", "IT8718F"} -> It87SpiProbe(found[n].port)
                      [] OTHER -> <<>>
  IN  Of(1) \o Of(2) \o Of(3)
=============================================================================
