-------------------------------- MODULE Cli ---------------------------------
(***************************************************************************)
(* The command line program (cli_classic.c): the options, one after the    *)
(* other; programmer_init(); probing every registered programmer for every *)
(* chip of the table; the choice of the one chip; and the operation on it. *)
(*                                                                         *)
(* What -l and -i do is in Layout, what init() and shutdown do in          *)
(* Lifecycle, what doit() does in EraseWrite.                              *)
(***************************************************************************)
EXTENDS Integers, Sequences, FiniteSets

CONSTANTS
  Buses,             (* bus types                                           *)
  flashchips,        (* the table of chips                                  *)
  MAX_CHIPS,         (* length of flashes[] (3): two must fit               *)
  CommandLines,      (* sequences of options                                *)
  ProgrammerSets,    (* what registered_programmers[] may hold after init() *)
  DecodeLimits,      (* what max_rom_decode may be after init()             *)
  NoChip             (* no -c option                                        *)

Operations == {"-r", "-w", "-v", "-E", "-L", "-R", "-h"}
ChipIndex == DOMAIN flashchips
ChipNames == {flashchips[k].name : k \in ChipIndex}

(* probe: the entry has a probe function. generic: model_id is that of a    *)
(* vendor's generic entry or of SFDP. They may be anywhere: flashchips[] has *)
(* SFDP's before the opaque chips of a programmer, which are not generic.   *)
Chip == [name : ChipNames, bustype : SUBSET Buses, size : Nat, probe : BOOLEAN,
         generic : BOOLEAN]

(* An option with its argument: arg is the name given to -c; "known" or     *)
(* "unknown" for -p; "file", or "bad" for an empty file name. "other" is an *)
(* option that is unknown or refused.                                       *)
Option == [opt : Operations \cup {"-n", "-f", "-c", "-p", "other"}, arg : STRING]

ASSUME CliAssumption ==
  /\ flashchips \in Seq(Chip)
  /\ MAX_CHIPS \in Nat \ {0, 1}
  /\ CommandLines \subseteq Seq(Option)
  /\ \A line \in CommandLines : \A n \in DOMAIN line : line[n].arg # NoChip
  /\ ProgrammerSets \subseteq Seq(SUBSET Buses)
  /\ DecodeLimits \subseteq [Buses -> Nat]

VARIABLES
  argv,                     (* the options not looked at yet                *)
  operation,                (* the operation specified, or "none"           *)
  filename,                 (* of the image: "none", "file" or "bad"        *)
  dont_verify_it, force, chip_to_probe, prog,
  registered_programmers, max_rom_decode,
  answers,                  (* the chips there are: [interface, table entry] *)
  flashes,                  (* the chips found                              *)
  j, startchip,             (* the interface and entry probing goes on at   *)
  done,                     (* history: the operation carried out           *)
  programmer,               (* "off", "on", "down", "down twice"            *)
  cmdline,                  (* history: argv of the start                   *)
  ret, pc

vars == <<argv, operation, filename, dont_verify_it, force, chip_to_probe, prog,
          registered_programmers, max_rom_decode, answers, flashes, j, startchip, done,
          programmer, cmdline, ret, pc>>

options == <<argv, operation, filename, dont_verify_it, force, chip_to_probe, prog>>
machine == <<registered_programmers, max_rom_decode, answers, cmdline>>
probing == <<flashes, j, startchip>>

Interfaces == DOMAIN registered_programmers

Nothing == [op |-> "none", verify |-> FALSE, chip |-> <<0, 0>>]

Init ==
  /\ argv \in CommandLines /\ cmdline = argv
  /\ operation = "none" /\ filename = "none" /\ chip_to_probe = NoChip /\ prog = "none"
  /\ dont_verify_it = FALSE /\ force = FALSE
  /\ registered_programmers = << >> /\ answers = {} /\ max_rom_decode \in DecodeLimits
  /\ flashes = << >> /\ j = 1 /\ startchip = 1
  /\ done = Nothing /\ programmer = "off"
  /\ ret = 0 /\ pc = "getopt"

-----------------------------------------------------------------------------
(* One round of the option loop. *)

AbortUsage == pc' = "exit" /\ ret' = 1

(* -R and -h leave at once.                                                 *)
LastOption(opt) ==
  IF opt \in {"-R", "-h"} THEN pc' = "exit" /\ ret' = 0 ELSE UNCHANGED <<pc, ret>>

SpecifyOperation ==
  /\ pc = "getopt" /\ argv # << >> /\ Head(argv).opt \in Operations
  /\ LET opt == Head(argv).opt IN
     \/ /\ operation # "none" \/ (opt = "-v" /\ dont_verify_it)
        /\ AbortUsage
        /\ UNCHANGED <<argv, operation, filename>>
     \/ /\ operation = "none" /\ ~(opt = "-v" /\ dont_verify_it)
        /\ operation' = opt
        /\ filename' = Head(argv).arg
        /\ argv' = Tail(argv)
        /\ LastOption(opt)
  /\ UNCHANGED <<dont_verify_it, force, chip_to_probe, prog, machine, probing, done, programmer>>

NoVerify ==
  /\ pc = "getopt" /\ argv # << >> /\ Head(argv).opt = "-n"
  /\ IF operation = "-v"
     THEN AbortUsage /\ UNCHANGED <<argv, dont_verify_it>>
     ELSE dont_verify_it' = TRUE /\ argv' = Tail(argv) /\ UNCHANGED <<pc, ret>>
  /\ UNCHANGED <<operation, filename, force, chip_to_probe, prog, machine, probing, done, programmer>>

ForceIt ==
  /\ pc = "getopt" /\ argv # << >> /\ Head(argv).opt = "-f"
  /\ force' = TRUE
  /\ argv' = Tail(argv)
  /\ UNCHANGED <<operation, filename, dont_verify_it, chip_to_probe, prog, machine, probing, done,
                 programmer, ret, pc>>

ChipToProbe ==
  /\ pc = "getopt" /\ argv # << >> /\ Head(argv).opt = "-c"
  /\ chip_to_probe' = Head(argv).arg
  /\ argv' = Tail(argv)
  /\ UNCHANGED <<operation, filename, dont_verify_it, force, prog, machine, probing, done, programmer,
                 ret, pc>>

Programmer ==
  /\ pc = "getopt" /\ argv # << >> /\ Head(argv).opt = "-p"
  /\ IF prog # "none" \/ Head(argv).arg = "unknown"
     THEN AbortUsage /\ UNCHANGED <<argv, prog>>
     ELSE prog' = Head(argv).arg /\ argv' = Tail(argv) /\ UNCHANGED <<pc, ret>>
  /\ UNCHANGED <<operation, filename, dont_verify_it, force, chip_to_probe, machine, probing, done,
                 programmer>>

(* Unknown options and superfluous arguments.                               *)
Usage ==
  /\ pc = "getopt" /\ argv # << >> /\ Head(argv).opt = "other"
  /\ AbortUsage
  /\ UNCHANGED <<options, machine, probing, done, programmer>>

-----------------------------------------------------------------------------
(* From the options to the programmer. *)

Goto(label) == pc' = label /\ ret' = ret
GotoOut == pc' = "exit" /\ ret' = 1
GotoOutShutdown == pc' = "out_shutdown" /\ ret' = 1

(* Is there an image file, is only a list wanted, are the layout and the    *)
(* names right?                                                             *)
OptionsParsed ==
  /\ pc = "getopt" /\ argv = << >>
  /\ \/ operation \in {"-r", "-w", "-v"} /\ filename = "bad" /\ AbortUsage
     \/ operation = "-L" /\ (Goto("exit") \/ GotoOut)
     \/ /\ operation # "-L"
        /\ operation \in {"-r", "-w", "-v"} => filename # "bad"
        /\ \/ GotoOut             (* read_romlayout(), process_include_args() *)
           \/ chip_to_probe \notin ChipNames \cup {NoChip} /\ GotoOut
           \/ chip_to_probe \in ChipNames \cup {NoChip} /\ Goto("init")
  /\ UNCHANGED <<options, machine, probing, done, programmer>>

(* programmer_init(), with the default programmer if -p was not given: it   *)
(* registers the interfaces behind which the chips are.                     *)
CallsProgrammerInit ==
  /\ pc = "init"
  /\ \/ GotoOutShutdown /\ UNCHANGED <<registered_programmers, max_rom_decode, answers>>
     \/ /\ registered_programmers' \in ProgrammerSets
        /\ max_rom_decode' \in DecodeLimits
        /\ answers' \in SUBSET {ik \in (DOMAIN registered_programmers') \times ChipIndex :
             /\ flashchips[ik[2]].probe
             /\ registered_programmers'[ik[1]] \cap flashchips[ik[2]].bustype # {}}
        /\ Goto("probe")
  /\ programmer' = "on"
  /\ UNCHANGED <<options, cmdline, probing, done>>

-----------------------------------------------------------------------------
(* probe_flash() *)

Named(k) == chip_to_probe = NoChip \/ flashchips[k].name = chip_to_probe
OnBus(iface, k) == registered_programmers[iface] \cap flashchips[k].bustype # {}
Tried(iface, k) == Named(k) /\ OnBus(iface, k) /\ flashchips[k].probe
Answers(iface, k) == Tried(iface, k) /\ <<iface, k>> \in answers

(* A generic entry matches only if nothing has been found on the interface. *)
Match(iface, k, first) == Answers(iface, k) /\ (first = 1 \/ ~flashchips[k].generic)

(* The entry probe_flash() returns, if any.                                 *)
ProbeFlash(iface, first) ==
  {k \in ChipIndex : /\ first <= k /\ Match(iface, k, first)
                     /\ \A m \in first .. k - 1 : ~Match(iface, m, first)}

ProbeFinds ==
  /\ pc = "probe" /\ j \in Interfaces /\ Len(flashes) < MAX_CHIPS
  /\ \E k \in ProbeFlash(j, startchip) :
       /\ flashes' = Append(flashes, <<j, k>>)
       /\ startchip' = k + 1
  /\ UNCHANGED <<options, machine, j, done, programmer, ret, pc>>

NextInterface ==
  /\ pc = "probe" /\ j \in Interfaces
  /\ Len(flashes) >= MAX_CHIPS \/ ProbeFlash(j, startchip) = {}
  /\ j' = j + 1
  /\ startchip' = 1
  /\ UNCHANGED <<options, machine, flashes, done, programmer, ret, pc>>

(* Mutant: the first of several chips is taken.                             *)
ChooseFirst ==
  /\ pc = "probe" /\ j \notin Interfaces
  /\ IF flashes = << >>
     THEN IF force /\ operation = "-r" /\ chip_to_probe # NoChip
          THEN Goto("forced_read") ELSE GotoOutShutdown
     ELSE Goto("check_size")
  /\ UNCHANGED <<options, machine, probing, done, programmer>>

(* Exactly one chip is worked on; without one, only a read can be forced.   *)
Choose ==
  /\ pc = "probe" /\ j \notin Interfaces
  /\ LET forced == force /\ operation = "-r" /\ chip_to_probe # NoChip IN
     \/ Len(flashes) > 1 /\ GotoOutShutdown
     \/ Len(flashes) = 1 /\ Goto("check_size")
     \/ flashes = << >> /\ forced /\ Goto("forced_read")
     \/ flashes = << >> /\ ~forced /\ GotoOutShutdown
  /\ UNCHANGED <<options, machine, probing, done, programmer>>

(* probe_flash() with force set: the first entry of the name on the first   *)
(* interface that has a bus in common with it.                              *)
ForcedChip ==
  {ik \in Interfaces \X ChipIndex :
     /\ Named(ik[2]) /\ OnBus(ik[1], ik[2])
     /\ \A m \in Interfaces, n \in ChipIndex :
          Named(n) /\ OnBus(m, n) => ik[1] < m \/ (ik[1] = m /\ ik[2] <= n)}

(* Buses of the entry -c was found at: the first of its name.               *)
CompatibleProgrammers ==
  {iface \in Interfaces :
     \E k \in ChipIndex : /\ Named(k) /\ OnBus(iface, k)
                          /\ \A n \in 1 .. k - 1 : ~Named(n)}

ForcedRead ==
  /\ pc = "forced_read"
  /\ \/ /\ CompatibleProgrammers = {} \/ ForcedChip = {}
        /\ GotoOutShutdown
        /\ done' = done
     \/ /\ CompatibleProgrammers # {}
        /\ \E chip \in ForcedChip :
             \/ /\ done' = [op |-> operation, verify |-> FALSE, chip |-> chip]
                /\ Goto("out_shutdown")
             \/ GotoOutShutdown /\ done' = done
  /\ UNCHANGED <<options, machine, probing, programmer>>

-----------------------------------------------------------------------------
(* Mutant: one bus the chip is not too big for is enough.                   *)
CheckMaxDecodeAll(iface, k) ==
  \A b \in registered_programmers[iface] \cap flashchips[k].bustype :
    max_rom_decode[b] < flashchips[k].size

(* check_max_decode() on the buses that interface and chip have in common   *)
CheckMaxDecode(iface, k) ==
  \E b \in registered_programmers[iface] \cap flashchips[k].bustype :
    max_rom_decode[b] < flashchips[k].size

(* Mutant: out_shutdown is left out after a refused chip.                   *)
CheckSizeNoShutdown ==
  /\ pc = "check_size"
  /\ LET iface == flashes[1][1]  k == flashes[1][2] IN
     \/ CheckMaxDecode(iface, k) /\ ~force /\ GotoOut
     \/ /\ ~CheckMaxDecode(iface, k) \/ force
        /\ Goto(IF operation = "none" THEN "out_shutdown" ELSE "doit")
  /\ UNCHANGED <<options, machine, probing, done, programmer>>

CheckSize ==
  /\ pc = "check_size"
  /\ LET iface == flashes[1][1]  k == flashes[1][2] IN
     \/ CheckMaxDecode(iface, k) /\ ~force /\ GotoOutShutdown
     \/ /\ ~CheckMaxDecode(iface, k) \/ force
        /\ Goto(IF operation = "none" THEN "out_shutdown" ELSE "doit")
  /\ UNCHANGED <<options, machine, probing, done, programmer>>

(* programmer_shutdown() *)
ShutDown == IF programmer = "on" THEN "down" ELSE "down twice"

(* doit() carries out the operation or fails, and shuts the programmer down.*)
Doit ==
  /\ pc = "doit"
  /\ \/ /\ done' = [op |-> operation,
                    verify |-> operation = "-v" \/ (operation = "-w" /\ ~dont_verify_it),
                    chip |-> flashes[1]]
        /\ Goto("exit")
     \/ done' = done /\ GotoOut
  /\ programmer' = ShutDown
  /\ UNCHANGED <<options, machine, probing>>

OutShutdown ==
  /\ pc = "out_shutdown"
  /\ programmer' = ShutDown
  /\ Goto("exit")
  /\ UNCHANGED <<options, machine, probing, done>>

Terminated == pc = "exit" /\ UNCHANGED vars

Step ==
  \/ SpecifyOperation \/ NoVerify \/ ForceIt \/ ChipToProbe \/ Programmer \/ Usage
  \/ OptionsParsed \/ CallsProgrammerInit
  \/ ProbeFinds \/ NextInterface \/ Choose \/ ForcedRead
  \/ CheckSize \/ Doit \/ OutShutdown

Next == Step \/ Terminated

Spec == Init /\ [][Next]_vars

-----------------------------------------------------------------------------
(* An operation is carried out on a chip that answered its probe, or it is  *)
(* a forced read: "flashrom can never write if the flash chip isn't found   *)
(* automatically". And no other entry is as good: a specific chip is the    *)
(* only specific one that answers on any interface; a generic one is worked *)
(* on only if no interface has a specific one and no other interface has a  *)
(* generic one.                                                             *)
OnlyTheOneChip ==
  done.op # "none" =>
    LET iface == done.chip[1]  k == done.chip[2] IN
    \/ ~Answers(iface, k) /\ done.op = "-r" /\ force
    \/ /\ Answers(iface, k)
       /\ \A m \in Interfaces, n \in ChipIndex :
            Answers(m, n) /\ <<m, n>> # <<iface, k>> => m = iface /\ flashchips[n].generic

Given(opt) == {n \in DOMAIN cmdline : cmdline[n].opt = opt}

(* The only operation, on a chip of the name the last -c gives, verified    *)
(* after a write unless -n is somewhere; -n and -v never go together.       *)
OptionsHeeded ==
  done.op # "none" =>
    /\ UNION {Given(opt) : opt \in Operations} = Given(done.op)
    /\ Cardinality(Given(done.op)) = 1
    /\ done.verify <=> (done.op = "-v" \/ (done.op = "-w" /\ Given("-n") = {}))
    /\ done.op = "-v" => Given("-n") = {}
    /\ \A n \in Given("-c") : \/ \E m \in Given("-c") : n < m
                               \/ flashchips[done.chip[2]].name = cmdline[n].arg

(* "Force chip access even if the chip is bigger than the maximum supported *)
(* size for the flash bus": without -f, nothing is done to a chip that is   *)
(* too big for any bus it has in common with the interface it was found on. *)
TooBigNeedsForce ==
  done.op # "none" /\ Given("-f") = {} =>
    \A b \in registered_programmers[done.chip[1]] \cap flashchips[done.chip[2]].bustype :
      flashchips[done.chip[2]].size <= max_rom_decode[b]

(* What is done is what the command line says in any order of its options.  *)
DoneAsAsked == OptionsHeeded /\ TooBigNeedsForce

(* Once programmer_init() was called, programmer_shutdown() runs exactly    *)
(* once on every way out, also if init() failed.                            *)
ShutdownOnce ==
  pc = "exit" => programmer \in {"off", "down"} /\ (done.op # "none" => programmer = "down")

(* The exit status tells whether what was asked for was done; and whatever  *)
(* it is, the programmer was shut down if it was started.                   *)
StatusIsDone ==
  pc = "exit" /\ operation \in {"-r", "-w", "-v", "-E"} => (ret = 0 <=> done.op = operation)
ExitStatus == StatusIsDone /\ ShutdownOnce
=============================================================================
