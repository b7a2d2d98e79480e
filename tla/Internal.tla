------------------------------ MODULE Internal ------------------------------
(***************************************************************************)
(* internal_init(): how flashrom makes out on which mainboard it runs, and *)
(* decides which code of that board and of its chipset to run.             *)
(*                                                                         *)
(* What a chipset or board enable does to registers is not repeated here   *)
(* (Programmers lists it): an enable is recorded as having run, and its    *)
(* result is one of those its code can return. Strings are sequences of    *)
(* tokens; a vendor and model are one name.                                *)
(***************************************************************************)
EXTENDS Integers, Sequences, FiniteSets

CONSTANTS
  chipset_enables,     (* the table: PCI device, possible results           *)
  board_matches,       (* the table: see Board                              *)
  Machines,            (* the computers flashrom may run on                 *)
  Params,              (* what the user may write after -p internal:        *)
  SUPERIO_MAX_COUNT,   (* length of superios[] (3)                          *)
  NONE

(* struct board_match. A NONE is a zero of the table, or of a card.         *)
Phases == {"P1", "P2", "P3"}
Enables == {NONE, "poke", "p2_not_a_laptop", "p2_whitelist_laptop"}

Results == {"OK", "FAILED", "NOT_DONE_YET", "NONFATAL", "FATAL"}

ASSUME InternalAssumption ==
  /\ SUPERIO_MAX_COUNT \in Nat \ {0}
  /\ DOMAIN board_matches \subseteq Nat \ {0}
  /\ \A n \in DOMAIN board_matches :
       /\ board_matches[n].phase \in Phases
       /\ board_matches[n].status \in {"OK", "NT"}
       /\ board_matches[n].enable \in Enables
  /\ \A n \in DOMAIN chipset_enables : chipset_enables[n].results \subseteq Results

VARIABLES
  machine, param,
  pc,                (* the call internal_init() makes next                 *)
  ret,               (* of chipset_flash_enable(), then of internal_init()  *)
  cb,                (* the coreboot IDs                                    *)
  has_dmi_support,
  is_laptop, laptop_ok,
  superios,
  chipset,           (* loop variable of chipset_flash_enable()             *)
  max_rom_decode,    (* of the parallel bus, in KiB                         *)
  ran,               (* history: the board enables that ran                 *)
  enabled            (* history: the chipsets enabled, with the result      *)

vars == <<machine, param, pc, ret, cb, has_dmi_support, is_laptop, laptop_ok, superios, chipset,
          max_rom_decode, ran, enabled>>

Unlimited == 4194304

Init ==
  /\ machine \in Machines /\ param \in Params
  /\ pc = "extract_programmer_param" /\ ret = 0
  /\ cb = NONE /\ has_dmi_support = FALSE
  /\ is_laptop = 0 /\ laptop_ok = FALSE
  /\ superios = << >> /\ chipset = 1 /\ max_rom_decode = Unlimited
  /\ ran = << >> /\ enabled = << >>

At(call) == pc = call
Goes(call) == pc' = call /\ ret' = ret
Returns(value) == pc' = "returned" /\ ret' = value

-----------------------------------------------------------------------------
(* A parameter with an unknown or without a value ends internal_init().     *)
ExtractProgrammerParams ==
  /\ At("extract_programmer_param")
  /\ IF "garbage" \in {param.boardenable, param.boardmismatch, param.laptop, param.mainboard}
     THEN Returns(1)
     ELSE Goes("rget_io_perms")
  /\ UNCHANGED <<machine, param, cb, has_dmi_support, is_laptop, laptop_ok, superios, chipset,
                 max_rom_decode, ran, enabled>>

(* rget_io_perms() and register_shutdown() may fail; on x86                 *)
(* processor_flash_enable() does not.                                       *)
RgetIoPerms ==
  /\ At("rget_io_perms")
  /\ Returns(1) \/ Goes("cb_parse_table")
  /\ UNCHANGED <<machine, param, cb, has_dmi_support, is_laptop, laptop_ok, superios, chipset,
                 max_rom_decode, ran, enabled>>

(* The user's mainboard= against the IDs of the running coreboot. A table   *)
(* without a mainboard record leaves the IDs unset and is a success all the *)
(* same: strcasecmp() then has a null pointer to follow.                    *)
Mismatch == param.mainboard # NONE /\ cb' # NONE /\ param.mainboard # cb'

CbParseTable ==
  /\ At("cb_parse_table")
  /\ cb' = IF machine.coreboot \in {"no table", "no record"} THEN NONE ELSE machine.coreboot
  /\ IF machine.coreboot = "no record" /\ param.mainboard # NONE
     THEN pc' = "crashed" /\ ret' = ret
     ELSE IF Mismatch /\ param.boardmismatch # "force" THEN Returns(1) ELSE Goes("dmi_init")
  /\ UNCHANGED <<machine, param, has_dmi_support, is_laptop, laptop_ok, superios, chipset,
                 max_rom_decode, ran, enabled>>

(* dmi_chassis_types[]: 0 not a laptop, 1 a laptop, 2 not specific enough.  *)
Chassis(name) ==
  CASE name \in {"Desktop", "Low Profile Desktop", "Mini Tower", "Tower", "Main Server Chassis",
                 "Rack Mount Chassis", "Sealed-case PC"}                              -> 0
    [] name \in {"Portable", "Laptop", "Notebook", "Hand Held", "Sub Notebook"}       -> 1
    [] OTHER                                                                          -> 2

(* dmi_init(): nothing is known of the chassis if a string before it could  *)
(* not be read, or if it could not be read itself.                          *)
DmiInit ==
  /\ At("dmi_init")
  /\ has_dmi_support' = (machine.dmi # NONE)
  /\ is_laptop' = IF machine.dmi = NONE \/ machine.chassis = NONE THEN 0
                                                                 ELSE Chassis(machine.chassis)
  /\ Goes("board_handle_before_superio")
  /\ UNCHANGED <<machine, param, cb, laptop_ok, superios, chipset, max_rom_decode, ran, enabled>>

-----------------------------------------------------------------------------
(* Matching of boards. *)

PciDevFind(device) == \E d \in machine.pci : d.device = device
PciCardFind(device, card) == [device |-> device, card |-> card] \in machine.pci

(* dmi_compare(): a pattern may be anchored at either end.                  *)
DmiCompare(value, pattern) ==
  LET v == Len(value)
      p == Len(pattern.text)
      Occurs(at) == SubSeq(value, at + 1, at + p) = pattern.text
  IN  \E at \in 0 .. v - p : /\ pattern.start => at = 0
                             /\ pattern.end => at = v - p
                             /\ Occurs(at)

DmiMatch(pattern) == has_dmi_support /\ \E value \in machine.dmi : DmiCompare(value, pattern)

(* What board_match_pci_ids() asks of a row, but for the phase.             *)
PciIdsMatch(b) ==
  /\ b.first_card # NONE \/ b.dmi_pattern # NONE
  /\ PciCardFind(b.first, b.first_card)
  /\ b.second # NONE => IF b.second_card # NONE THEN PciCardFind(b.second, b.second_card)
                                             ELSE PciDevFind(b.second)
  /\ b.dmi_pattern # NONE => DmiMatch(b.dmi_pattern)

(* board_match_pci_ids(): the first row of the phase that matches, or 0.    *)
BoardMatchPciIds(phase) ==
  LET rows == {n \in DOMAIN board_matches :
                 board_matches[n].phase = phase /\ PciIdsMatch(board_matches[n])}
  IN  IF rows = {} THEN 0 ELSE CHOOSE n \in rows : \A m \in rows : n <= m

(* board_match_name(): the one row with that name whose main PCI devices    *)
(* are there, whatever its phase; 0 if there are two.                       *)
BoardMatchName(name) ==
  LET rows == {n \in DOMAIN board_matches :
                 /\ board_matches[n].lb = name
                 /\ PciDevFind(board_matches[n].first)
                 /\ PciDevFind(board_matches[n].second)}
  IN  IF Cardinality(rows) = 1 THEN CHOOSE n \in rows : TRUE ELSE 0

(* board_enable_safetycheck() *)
BoardEnableSafetycheck(n) ==
  n # 0 /\ (board_matches[n].status = "OK" \/ param.boardenable = "force")

(* board->enable(): a function of the phase P2 changes what is known of the *)
(* laptop.                                                                  *)
RunEnable(n) ==
  /\ ran' = Append(ran, n)
  /\ is_laptop' = CASE board_matches[n].enable = "p2_not_a_laptop"     -> 0
                    [] board_matches[n].enable = "p2_whitelist_laptop" -> 1
                    [] OTHER                                           -> is_laptop
  /\ laptop_ok' = (laptop_ok \/ board_matches[n].enable = "p2_whitelist_laptop")

RunsNoEnable == UNCHANGED <<ran, is_laptop, laptop_ok>>

(* board_handle_phase(): its callers do not look at the result.             *)
BoardHandlePhase(phase) ==
  LET n == BoardMatchPciIds(phase)
  IN  IF BoardEnableSafetycheck(n) /\ board_matches[n].enable # NONE THEN RunEnable(n)
                                                                   ELSE RunsNoEnable

BoardHandleBeforeSuperio ==
  /\ At("board_handle_before_superio")
  /\ BoardHandlePhase("P1")
  /\ Goes("probe_superio")
  /\ UNCHANGED <<machine, param, cb, has_dmi_support, superios, chipset, max_rom_decode, enabled>>

-----------------------------------------------------------------------------
(* probe_superio(): the Winbond probe finds the two ITE chips that need its *)
(* way in, and the ITE probe finds them again. What does not fit into       *)
(* superios[] is forgotten.                                                 *)

Ports == <<0, 1>>
Chip(port) == machine.superio[port]
Found(port) == [port |-> port, chip |-> Chip(port)]

WinbondProbe(port) ==
  IF Chip(port) \in {"W83627", "IT8707F"} THEN <<Found(port)>> ELSE << >>
IteProbe(port) ==
  IF Chip(port) \in {"IT8707F", "IT8705F", "IT8716F", "IT85"} THEN <<Found(port)>> ELSE << >>

(* Mutant: a chip of a model that was found already is taken for the same.  *)
RegisterModels(s) ==
  LET New(n) == \A m \in 1 .. n - 1 : s[m].chip # s[n].chip
  IN  [k \in 1 .. Cardinality({n \in DOMAIN s : New(n)}) |->
         s[CHOOSE n \in DOMAIN s :
             New(n) /\ Cardinality({m \in 1 .. n : New(m)}) = k]]

(* register_superio() *)
RegisterSuperios(s) ==
  SubSeq(s, 1, IF Len(s) > SUPERIO_MAX_COUNT THEN SUPERIO_MAX_COUNT ELSE Len(s))

ProbeSuperio ==
  /\ At("probe_superio")
  /\ superios' = RegisterSuperios(WinbondProbe(Ports[1]) \o WinbondProbe(Ports[2])
                                  \o IteProbe(Ports[1]) \o IteProbe(Ports[2]))
  /\ Goes("board_handle_before_laptop")
  /\ UNCHANGED <<machine, param, cb, has_dmi_support, is_laptop, laptop_ok, chipset,
                 max_rom_decode, ran, enabled>>

BoardHandleBeforeLaptop ==
  /\ At("board_handle_before_laptop")
  /\ BoardHandlePhase("P2")
  /\ Goes("laptop")
  /\ UNCHANGED <<machine, param, cb, has_dmi_support, superios, chipset, max_rom_decode, enabled>>

(* Mutant: the user's word that it is not a laptop counts for any.          *)
ForcedLaptopByEither == param.laptop \in {"force_I_want_a_brick", "this_is_not_a_laptop"}

(* if (force_laptop || (not_a_laptop && (is_laptop == 2)))                  *)
ForcedLaptop ==
  \/ param.laptop = "force_I_want_a_brick"
  \/ param.laptop = "this_is_not_a_laptop" /\ is_laptop = 2

LaptopCheck ==
  /\ At("laptop")
  /\ IF is_laptop # 0 /\ ~laptop_ok /\ ~ForcedLaptop THEN Returns(1)
     ELSE pc' = "chipset_flash_enable" /\ ret' = -2
  /\ UNCHANGED <<machine, param, cb, has_dmi_support, is_laptop, laptop_ok, superios, chipset,
                 max_rom_decode, ran, enabled>>

-----------------------------------------------------------------------------
(* One row of chipset_flash_enable(). *)

ChipsetFound == PciDevFind(chipset_enables[chipset].device)

(* Not there, or an unexpected second match.                                *)
PassOver ==
  /\ At("chipset_flash_enable") /\ chipset \in DOMAIN chipset_enables
  /\ ~ChipsetFound \/ ret # -2
  /\ chipset' = chipset + 1
  /\ UNCHANGED <<machine, param, pc, ret, cb, has_dmi_support, is_laptop, laptop_ok, superios,
                 max_rom_decode, ran, enabled>>

Code(result) ==
  CASE result = "OK" -> 0 [] result = "FAILED" -> -1 [] result = "NOT_DONE_YET" -> -2
    [] result = "NONFATAL" -> 2 [] result = "FATAL" -> 3

(* The row's doit(). NOT_DONE_YET counts as nothing found.                  *)
EnableChipset ==
  /\ At("chipset_flash_enable") /\ chipset \in DOMAIN chipset_enables
  /\ ChipsetFound /\ ret = -2
  /\ \E result \in chipset_enables[chipset].results :
       /\ enabled' = Append(enabled, [row |-> chipset, result |-> result])
       /\ IF result = "FATAL" THEN Returns(Code(result)) ELSE pc' = pc /\ ret' = Code(result)
  /\ chipset' = chipset + 1
  /\ UNCHANGED <<machine, param, cb, has_dmi_support, is_laptop, laptop_ok, superios,
                 max_rom_decode, ran>>

(* No chipset at all is only a warning.                                     *)
ChipsetsDone ==
  /\ At("chipset_flash_enable") /\ chipset \notin DOMAIN chipset_enables
  /\ Goes("init_superio_ite")
  /\ UNCHANGED <<machine, param, cb, has_dmi_support, is_laptop, laptop_ok, superios, chipset,
                 max_rom_decode, ran, enabled>>

(* init_superio_ite(): it8705f_write_enable() sets the size the Super I/O   *)
(* decodes, unless no segment of the flash is enabled.                      *)
It8705fs == {n \in DOMAIN superios : superios[n].chip = "IT8705F"}

InitSuperioIte ==
  /\ At("init_superio_ite")
  /\ max_rom_decode' \in IF It8705fs = {} THEN {max_rom_decode}
                                         ELSE {max_rom_decode, 256, 512, 1024}
  /\ Goes("board_flash_enable")
  /\ UNCHANGED <<machine, param, cb, has_dmi_support, is_laptop, laptop_ok, superios, chipset,
                 ran, enabled>>

-----------------------------------------------------------------------------
(* board_flash_enable() *)

(* Mutant: a name of the user's that matches nothing is passed over.        *)
TheBoardOrAnother ==
  LET named == IF param.mainboard # NONE THEN BoardMatchName(param.mainboard)
               ELSE IF cb # NONE THEN BoardMatchName(cb) ELSE 0
  IN  IF named # 0 THEN named ELSE BoardMatchPciIds("P3")

(* The row it settles on. The user's name has to match, coreboot's need not.*)
TheBoard ==
  LET named == IF cb # NONE THEN BoardMatchName(cb) ELSE 0
  IN  IF param.mainboard # NONE THEN BoardMatchName(param.mainboard)
      ELSE IF named # 0 THEN named ELSE BoardMatchPciIds("P3")

(* No row fits: an error if the user gave the name, else nothing to do.     *)
NoBoard ==
  /\ At("board_flash_enable") /\ TheBoard = 0
  /\ IF param.mainboard # NONE THEN Returns(1) ELSE Goes("register_par_programmer")
  /\ UNCHANGED <<machine, param, cb, has_dmi_support, is_laptop, laptop_ok, superios, chipset,
                 max_rom_decode, ran, enabled>>

UntestedBoard ==
  /\ At("board_flash_enable") /\ TheBoard # 0 /\ ~BoardEnableSafetycheck(TheBoard)
  /\ Returns(1)
  /\ UNCHANGED <<machine, param, cb, has_dmi_support, is_laptop, laptop_ok, superios, chipset,
                 max_rom_decode, ran, enabled>>

(* "Aborting to be safe." if the enable fails.                              *)
EnableBoard ==
  /\ At("board_flash_enable") /\ BoardEnableSafetycheck(TheBoard)
  /\ max_rom_decode' = IF board_matches[TheBoard].limit # 0 THEN board_matches[TheBoard].limit
                                                            ELSE max_rom_decode
  /\ \/ board_matches[TheBoard].enable = NONE /\ RunsNoEnable /\ Goes("register_par_programmer")
     \/ /\ board_matches[TheBoard].enable # NONE /\ RunEnable(TheBoard)
        /\ \/ Goes("register_par_programmer")
           \/ board_matches[TheBoard].enable = "poke" /\ Returns(1)
  /\ UNCHANGED <<machine, param, cb, has_dmi_support, superios, chipset, enabled>>

RegisterParProgrammer ==
  /\ At("register_par_programmer")
  /\ Returns(0)
  /\ UNCHANGED <<machine, param, cb, has_dmi_support, is_laptop, laptop_ok, superios, chipset,
                 max_rom_decode, ran, enabled>>

Step ==
  \/ ExtractProgrammerParams \/ RgetIoPerms \/ CbParseTable \/ DmiInit
  \/ BoardHandleBeforeSuperio \/ ProbeSuperio \/ BoardHandleBeforeLaptop \/ LaptopCheck
  \/ PassOver \/ EnableChipset \/ ChipsetsDone \/ InitSuperioIte
  \/ NoBoard \/ UntestedBoard \/ EnableBoard \/ RegisterParProgrammer

Terminated == pc \in {"returned", "crashed"} /\ UNCHANGED vars

Next == Step \/ Terminated

Spec == Init /\ [][Next]_vars

FairSpec == Spec /\ WF_vars(Step)

-----------------------------------------------------------------------------
BeforeDmi == {"extract_programmer_param", "rget_io_perms", "cb_parse_table", "dmi_init"}
BeforeLaptop == {"board_handle_before_superio", "probe_superio", "board_handle_before_laptop",
                 "laptop"}
AfterLaptop == {"chipset_flash_enable", "init_superio_ite", "board_flash_enable",
                "register_par_programmer"}

(* The type invariant. *)
TypeOK ==
  /\ machine \in Machines /\ param \in Params
  /\ pc \in BeforeDmi \cup BeforeLaptop \cup AfterLaptop \cup {"returned", "crashed"}
  /\ ret \in {Code(result) : result \in Results} \cup {1}
  /\ has_dmi_support \in BOOLEAN /\ is_laptop \in 0 .. 2 /\ laptop_ok \in BOOLEAN
  /\ chipset \in Nat \ {0}
  /\ ran \in Seq(DOMAIN board_matches)
  /\ enabled \in Seq([row : DOMAIN chipset_enables, result : Results])

(* Once the laptop check is behind, flashrom touches the flash.             *)
Proceeded == pc \in AfterLaptop \/ enabled # << >> \/ (pc = "returned" /\ ret = 0)

Forced(b) == b.status = "OK" \/ param.boardenable = "force"
Whitelisted ==
  \E n \in DOMAIN board_matches :
    /\ board_matches[n].phase # "P3" /\ PciIdsMatch(board_matches[n]) /\ Forced(board_matches[n])
    /\ board_matches[n].enable \in {"p2_not_a_laptop", "p2_whitelist_laptop"}

(* "flashrom will attempt to detect if it is running on a laptop and abort  *)
(* immediately": a computer whose chassis says so is left alone unless its  *)
(* board is on the list, or the user forces it; that it is no laptop is     *)
(* believed only where the chassis leaves it open.                          *)
LaptopNeedsForce ==
  Proceeded /\ machine.dmi # NONE /\ machine.chassis # NONE /\ ~Whitelisted =>
    CASE Chassis(machine.chassis) = 0 -> TRUE
      [] Chassis(machine.chassis) = 1 -> param.laptop = "force_I_want_a_brick"
      [] OTHER -> param.laptop \in {"force_I_want_a_brick", "this_is_not_a_laptop"}

(* Code of a board that was never tested runs only with boardenable=force,  *)
(* in any phase and however the board was found: "a wrong board enable      *)
(* function might cause the system to behave erratically".                  *)
UntestedNeedsForce == \A n \in DOMAIN ran : Forced(board_matches[ran[n]])

(* No board's code runs on another board: its main PCI devices are there,   *)
(* and it is the one the user names, or the one coreboot names, or its      *)
(* cards and DMI strings are those of the machine.                          *)
RightBoard ==
  \A n \in DOMAIN ran :
    LET b == board_matches[ran[n]]
    IN  /\ PciDevFind(b.first)
        /\ b.second # NONE => PciDevFind(b.second)
        /\ \/ param.mainboard # NONE /\ b.lb = param.mainboard
           \/ cb # NONE /\ b.lb = cb
           \/ PciIdsMatch(b)
        /\ b.phase = "P3" /\ param.mainboard # NONE => b.lb = param.mainboard

(* One chipset is enabled, the first in the table that is there, besides    *)
(* those that say they have not done it yet; and after a fatal error        *)
(* nothing more is done.                                                    *)
OneChipset ==
  \A m, n \in DOMAIN enabled :
    /\ PciDevFind(chipset_enables[enabled[n].row].device)
    /\ m < n => enabled[m].result = "NOT_DONE_YET"
    /\ enabled[n].result = "FATAL" => pc = "returned" /\ ret # 0

(* Whatever rows match, only code that is meant for this machine, and that  *)
(* the user has not to ask for, is run on it.                               *)
RightCodeOnly == UntestedNeedsForce /\ RightBoard /\ OneChipset

(* Every Super I/O the probes can tell is in superios[], whatever was found *)
(* twice: the place that is missing is that of a second finding.            *)
NoSuperioLost ==
  Proceeded =>
    \A k \in DOMAIN Ports :
      WinbondProbe(Ports[k]) \o IteProbe(Ports[k]) # << >> =>
        \E n \in DOMAIN superios : superios[n] = Found(Ports[k])

(* "The suggested procedure for a mainboard with untested board specific    *)
(* code is to first try to probe the ROM (just invoke flashrom ...) without *)
(* running the board enable code (i.e. without any parameters)." That needs *)
(* internal_init() to go on without the enable. Violated: it returns 1.     *)
UntestedIsSkipped ==
  pc = "returned" /\ ret = 1 /\ param.boardenable = NONE /\ param.mainboard = NONE /\ TheBoard # 0
    => board_matches[TheBoard].status = "OK" \/ ~Proceeded
=============================================================================
