--------------------------- MODULE InternalProofs ---------------------------
(***************************************************************************)
(* Proofs about internal_init(), for every board and chipset table, every  *)
(* computer and every combination of parameters.                           *)
(***************************************************************************)
EXTENDS Internal, FiniteSetTheorems, WellFoundedInduction, TLAPS

LEMMA AppendType ==
  ASSUME NEW S, NEW s \in Seq(S), NEW e \in S
  PROVE  /\ Append(s, e) \in Seq(S) /\ Len(s) \in Nat
         /\ DOMAIN Append(s, e) = 1 .. Len(s) + 1 /\ DOMAIN s = 1 .. Len(s)
         /\ \A n \in 1 .. Len(s) : Append(s, e)[n] = s[n]
         /\ Append(s, e)[Len(s) + 1] = e
OBVIOUS

LEMMA ElementType ==
  ASSUME NEW S, NEW s \in Seq(S), NEW n \in DOMAIN s
  PROVE  s[n] \in S
OBVIOUS

LEMMA FirstRow ==
  ASSUME NEW S, S \subseteq Nat, S # {}
  PROVE  \E n \in S : \A m \in S : n <= m
<1> DEFINE R == {ss \in Nat \X Nat : ss[1] < ss[2]}
<1>1. IsWellFoundedOn(R, Nat)
  BY NatLessThanWellFounded DEF OpToRel
<1> HIDE DEF R
<1>2. PICK n \in S : \A m \in S : ~(<<m, n>> \in R)
  BY <1>1, WFMin
<1>3. \A m \in S : ~(m < n)
  BY <1>2 DEF R
<1> QED BY <1>3

(* What board_match_pci_ids() returns is 0 or a row of its phase that       *)
(* matches.                                                                 *)
LEMMA MatchedByIds ==
  ASSUME NEW phase, BoardMatchPciIds(phase) # 0
  PROVE  LET n == BoardMatchPciIds(phase)
         IN  n \in DOMAIN board_matches /\ board_matches[n].phase = phase
             /\ PciIdsMatch(board_matches[n])
<1> DEFINE rows == {n \in DOMAIN board_matches :
                      board_matches[n].phase = phase /\ PciIdsMatch(board_matches[n])}
<1>1. rows # {} /\ BoardMatchPciIds(phase) = CHOOSE n \in rows : \A m \in rows : n <= m
  BY DEF BoardMatchPciIds
<1>2. rows \subseteq Nat
  BY InternalAssumption
<1>3. \E n \in rows : \A m \in rows : n <= m
  <2> HIDE DEF rows
  <2> QED BY <1>1, <1>2, FirstRow
<1>4. BoardMatchPciIds(phase) \in rows
  <2> HIDE DEF rows
  <2> QED BY <1>1, <1>3
<1> QED BY <1>4

(* What board_match_name() returns is 0 or a row with that name whose main  *)
(* devices are there.                                                       *)
LEMMA MatchedByName ==
  ASSUME NEW name, BoardMatchName(name) # 0
  PROVE  LET n == BoardMatchName(name)
         IN  n \in DOMAIN board_matches /\ board_matches[n].lb = name
             /\ PciDevFind(board_matches[n].first) /\ PciDevFind(board_matches[n].second)
<1> DEFINE rows == {n \in DOMAIN board_matches :
                 /\ board_matches[n].lb = name
                 /\ PciDevFind(board_matches[n].first)
                 /\ PciDevFind(board_matches[n].second)}
<1>1. Cardinality(rows) = 1 /\ BoardMatchName(name) = CHOOSE n \in rows : TRUE
  BY DEF BoardMatchName
<1> HIDE DEF rows
<1>2. rows # {}
  BY <1>1, FS_EmptySet
<1>3. BoardMatchName(name) \in rows
  BY <1>1, <1>2
<1> QED BY <1>3 DEF rows

LEMMA CardThere ==
  ASSUME NEW device, NEW card, PciCardFind(device, card)
  PROVE  PciDevFind(device)
BY DEF PciCardFind, PciDevFind

(* The main devices of a row that matches are there.                        *)
LEMMA DevicesThere ==
  ASSUME NEW b, PciIdsMatch(b)
  PROVE  PciDevFind(b.first) /\ (b.second # NONE => PciDevFind(b.second))
BY CardThere DEF PciIdsMatch

-----------------------------------------------------------------------------
(* What is true of the row an enable is about to run for.                   *)
MayRun(n) ==
  LET b == board_matches[n]
  IN  /\ Forced(b)
      /\ PciDevFind(b.first)
      /\ b.second # NONE => PciDevFind(b.second)
      /\ \/ param.mainboard # NONE /\ b.lb = param.mainboard
         \/ cb # NONE /\ b.lb = cb
         \/ PciIdsMatch(b)
      /\ b.phase = "P3" /\ param.mainboard # NONE => b.lb = param.mainboard

LEMMA RightIsMayRun ==
  (\A n \in DOMAIN ran : MayRun(ran[n])) <=> UntestedNeedsForce /\ RightBoard
BY DEF MayRun, UntestedNeedsForce, RightBoard

(* Before the laptop check, on a board that is not on the list, flashrom    *)
(* knows of the laptop what the chassis says.                               *)
LaptopKnown ==
  pc \in BeforeLaptop /\ ~Whitelisted =>
    /\ laptop_ok = FALSE
    /\ is_laptop = IF machine.dmi = NONE \/ machine.chassis = NONE THEN 0
                                                                 ELSE Chassis(machine.chassis)

EarlyParts ==
  /\ pc \in BeforeDmi => ran = << >> /\ laptop_ok = FALSE /\ is_laptop = 0
  /\ pc \in BeforeDmi \cup BeforeLaptop => enabled = << >>
  /\ pc = "crashed" => enabled = << >>

(* While the loop over the chipsets has not found one, none has done        *)
(* anything.                                                                *)
ChipsetPending ==
  pc = "chipset_flash_enable" /\ ret = -2 =>
    \A n \in DOMAIN enabled : enabled[n].result = "NOT_DONE_YET"

IInv ==
  /\ TypeOK /\ EarlyParts /\ LaptopKnown /\ LaptopNeedsForce
  /\ (\A n \in DOMAIN ran : MayRun(ran[n]))
  /\ ChipsetPending /\ OneChipset

LEMMA Codes ==
  /\ Code("OK") = 0 /\ Code("FAILED") = -1 /\ Code("NOT_DONE_YET") = -2
  /\ Code("NONFATAL") = 2 /\ Code("FATAL") = 3
  /\ {Code(result) : result \in Results} = {0, -1, -2, 2, 3}
<1>1. /\ Code("OK") = 0 /\ Code("FAILED") = -1 /\ Code("NOT_DONE_YET") = -2
      /\ Code("NONFATAL") = 2 /\ Code("FATAL") = 3
  BY DEF Code
<1> QED BY <1>1 DEF Results

LEMMA RunTypes ==
  ASSUME TypeOK, NEW n \in DOMAIN board_matches, RunEnable(n)
  PROVE  /\ ran' \in Seq(DOMAIN board_matches) /\ is_laptop' \in 0 .. 2
         /\ laptop_ok' \in BOOLEAN
<1>1. ran' \in Seq(DOMAIN board_matches)
  BY AppendType DEF TypeOK, RunEnable
<1>2. is_laptop' \in 0 .. 2
  BY DEF TypeOK, RunEnable
<1>3. laptop_ok' \in BOOLEAN
  BY DEF TypeOK, RunEnable
<1> QED BY <1>1, <1>2, <1>3

(* board_handle_phase() runs nothing, or the enable of a row of its phase   *)
(* that matches and that it may run.                                        *)
LEMMA PhaseRuns ==
  ASSUME NEW phase, BoardHandlePhase(phase)
  PROVE  \/ RunsNoEnable
         \/ \E n \in DOMAIN board_matches :
              /\ RunEnable(n) /\ board_matches[n].phase = phase
              /\ PciIdsMatch(board_matches[n]) /\ Forced(board_matches[n])
<1>1. CASE RunsNoEnable
  BY <1>1
<1>2. CASE ~RunsNoEnable
  <2> DEFINE n == BoardMatchPciIds(phase)
  <2>1. BoardEnableSafetycheck(n) /\ RunEnable(n)
    BY <1>2 DEF BoardHandlePhase
  <2>2. n # 0 /\ Forced(board_matches[n])
    BY <2>1 DEF BoardEnableSafetycheck, Forced
  <2>3. /\ n \in DOMAIN board_matches /\ board_matches[n].phase = phase
        /\ PciIdsMatch(board_matches[n])
    BY <2>2, MatchedByIds
  <2> QED BY <2>1, <2>2, <2>3
<1> QED BY <1>1, <1>2

LEMMA PhaseTypes ==
  ASSUME TypeOK, NEW phase, BoardHandlePhase(phase)
  PROVE  /\ ran' \in Seq(DOMAIN board_matches) /\ is_laptop' \in 0 .. 2
         /\ laptop_ok' \in BOOLEAN
<1>1. CASE RunsNoEnable
  BY <1>1 DEF TypeOK, RunsNoEnable
<1>2. ASSUME NEW n \in DOMAIN board_matches, RunEnable(n)
      PROVE  /\ ran' \in Seq(DOMAIN board_matches) /\ is_laptop' \in 0 .. 2
             /\ laptop_ok' \in BOOLEAN
  BY <1>2, RunTypes
<1> QED BY <1>1, <1>2, PhaseRuns

LEMMA ChassisType == \A name : Chassis(name) \in 0 .. 2
BY DEF Chassis

(* The row board_flash_enable() settles on.                                 *)
LEMMA BoardIsRow ==
  ASSUME TheBoard # 0
  PROVE  /\ TheBoard \in DOMAIN board_matches
         /\ PciDevFind(board_matches[TheBoard].first)
         /\ board_matches[TheBoard].second # NONE => PciDevFind(board_matches[TheBoard].second)
         /\ \/ param.mainboard # NONE /\ board_matches[TheBoard].lb = param.mainboard
            \/ cb # NONE /\ board_matches[TheBoard].lb = cb
            \/ PciIdsMatch(board_matches[TheBoard])
         /\ param.mainboard # NONE => board_matches[TheBoard].lb = param.mainboard
<1>1. CASE param.mainboard # NONE
  <2>1. TheBoard = BoardMatchName(param.mainboard)
    BY <1>1 DEF TheBoard
  <2> QED BY <1>1, <2>1, MatchedByName
<1>2. CASE param.mainboard = NONE /\ cb # NONE /\ BoardMatchName(cb) # 0
  <2>1. TheBoard = BoardMatchName(cb)
    BY <1>2 DEF TheBoard
  <2> QED BY <1>2, <2>1, MatchedByName
<1>3. CASE param.mainboard = NONE /\ ~(cb # NONE /\ BoardMatchName(cb) # 0)
  <2>1. TheBoard = BoardMatchPciIds("P3")
    BY <1>3 DEF TheBoard
  <2>2. PciIdsMatch(board_matches[TheBoard]) /\ TheBoard \in DOMAIN board_matches
    BY <2>1, MatchedByIds
  <2> QED BY <1>3, <2>2, DevicesThere
<1> QED BY <1>1, <1>2, <1>3

-----------------------------------------------------------------------------
(* Types *)

LEMMA InitType == Init => TypeOK
<1> SUFFICES ASSUME Init PROVE TypeOK
  OBVIOUS
<1>1. << >> \in Seq(DOMAIN board_matches)
      /\ << >> \in Seq([row : DOMAIN chipset_enables, result : Results])
  OBVIOUS
<1>2. ret \in {Code(result) : result \in Results} \cup {1}
  BY Codes DEF Init
<1>3. has_dmi_support \in BOOLEAN /\ laptop_ok \in BOOLEAN
  BY DEF Init
<1>4. is_laptop \in 0 .. 2 /\ chipset \in Nat \ {0}
  BY DEF Init
<1>5. /\ machine \in Machines /\ param \in Params
      /\ pc \in BeforeDmi /\ ran = << >> /\ enabled = << >>
  BY DEF Init, BeforeDmi
<1> QED BY <1>1, <1>2, <1>3, <1>4, <1>5 DEF TypeOK

USE DEF At, Goes, Returns

LEMMA TypeStep ==
  ASSUME TypeOK, [Next]_vars
  PROVE  TypeOK'
<1> USE Codes DEF TypeOK, BeforeDmi, BeforeLaptop, AfterLaptop
<1>1. CASE ExtractProgrammerParams
  BY <1>1 DEF ExtractProgrammerParams
<1>2. CASE RgetIoPerms
  BY <1>2 DEF RgetIoPerms
<1>3. CASE CbParseTable
  BY <1>3 DEF CbParseTable
<1>4. CASE DmiInit
  BY <1>4, ChassisType DEF DmiInit
<1>5. CASE BoardHandleBeforeSuperio
  <2>1. BoardHandlePhase("P1")
    BY <1>5 DEF BoardHandleBeforeSuperio
  <2> QED BY <1>5, <2>1, PhaseTypes DEF BoardHandleBeforeSuperio
<1>6. CASE ProbeSuperio
  BY <1>6 DEF ProbeSuperio
<1>7. CASE BoardHandleBeforeLaptop
  <2>1. BoardHandlePhase("P2")
    BY <1>7 DEF BoardHandleBeforeLaptop
  <2> QED BY <1>7, <2>1, PhaseTypes DEF BoardHandleBeforeLaptop
<1>8. CASE LaptopCheck
  BY <1>8 DEF LaptopCheck
<1>9. CASE PassOver
  BY <1>9 DEF PassOver
<1>10. CASE EnableChipset
  <2>1. PICK result \in chipset_enables[chipset].results :
          /\ enabled' = Append(enabled, [row |-> chipset, result |-> result])
          /\ IF result = "FATAL" THEN Returns(Code(result)) ELSE pc' = pc /\ ret' = Code(result)
    BY <1>10 DEF EnableChipset
  <2>2. result \in Results /\ chipset \in DOMAIN chipset_enables
    BY <1>10, <2>1, InternalAssumption DEF EnableChipset
  <2>3. enabled' \in Seq([row : DOMAIN chipset_enables, result : Results])
    BY <2>1, <2>2, AppendType
  <2>4. ret' \in {Code(r) : r \in Results} /\ pc' \in {pc, "returned"}
    BY <2>1, <2>2
  <2> QED BY <1>10, <2>3, <2>4 DEF EnableChipset
<1>11. CASE ChipsetsDone
  BY <1>11 DEF ChipsetsDone
<1>12. CASE InitSuperioIte
  BY <1>12 DEF InitSuperioIte
<1>13. CASE NoBoard
  BY <1>13 DEF NoBoard
<1>14. CASE UntestedBoard
  BY <1>14 DEF UntestedBoard
<1>15. CASE EnableBoard
  <2>1. /\ TheBoard # 0
        /\ RunsNoEnable \/ RunEnable(TheBoard)
        /\ pc' \in {"register_par_programmer", "returned"} /\ ret' \in {ret, 1}
        /\ UNCHANGED <<machine, param, cb, has_dmi_support, superios, chipset, enabled>>
    BY <1>15 DEF EnableBoard, BoardEnableSafetycheck
  <2>2. TheBoard \in DOMAIN board_matches
    BY <2>1, BoardIsRow
  <2>3. /\ ran' \in Seq(DOMAIN board_matches) /\ is_laptop' \in 0 .. 2
        /\ laptop_ok' \in BOOLEAN
    BY <2>1, <2>2, RunTypes DEF RunsNoEnable
  <2> QED BY <2>1, <2>3
<1>16. CASE RegisterParProgrammer
  BY <1>16 DEF RegisterParProgrammer
<1>17. CASE UNCHANGED vars
  BY <1>17 DEF vars
<1> QED BY <1>1, <1>2, <1>3, <1>4, <1>5, <1>6, <1>7, <1>8, <1>9, <1>10, <1>11, <1>12, <1>13,
           <1>14, <1>15, <1>16, <1>17 DEF Next, Step, Terminated

-----------------------------------------------------------------------------
(* The code that runs *)

LEMMA MatchKept ==
  ASSUME UNCHANGED <<machine, param, has_dmi_support>>, NEW b
  PROVE  PciIdsMatch(b)' <=> PciIdsMatch(b)
<1>1. DmiMatch(b.dmi_pattern)' <=> DmiMatch(b.dmi_pattern)
  BY DEF DmiMatch
<1> QED BY <1>1 DEF PciIdsMatch, PciCardFind, PciDevFind

LEMMA MayRunKept ==
  ASSUME UNCHANGED <<machine, param, cb, has_dmi_support>>, NEW n
  PROVE  MayRun(n)' <=> MayRun(n)
BY MatchKept DEF MayRun, Forced, PciDevFind

AllMayRun == \A n \in DOMAIN ran : MayRun(ran[n])

LEMMA NothingRan ==
  ASSUME ran' = << >>
  PROVE  AllMayRun'
BY DEF AllMayRun

LEMMA NothingRuns ==
  ASSUME AllMayRun, UNCHANGED <<machine, param, cb, has_dmi_support, ran>>
  PROVE  AllMayRun'
BY MayRunKept DEF AllMayRun

LEMMA OneRuns ==
  ASSUME TypeOK, AllMayRun, UNCHANGED <<machine, param, cb, has_dmi_support>>,
         NEW n \in DOMAIN board_matches, RunEnable(n), MayRun(n)
  PROVE  AllMayRun'
<1>1. ran' = Append(ran, n) /\ ran \in Seq(DOMAIN board_matches)
  BY DEF RunEnable, TypeOK
<1>2. \A k : MayRun(k)' <=> MayRun(k)
  BY MayRunKept
<1>3. SUFFICES ASSUME NEW m \in DOMAIN (ran')
               PROVE  MayRun(ran[m])'
  BY Zenon DEF AllMayRun
<1>4. CASE m \in DOMAIN ran
  <2>1. ran'[m] = ran[m]
    BY <1>1, <1>4, AppendType
  <2>2. MayRun(ran[m])
    BY <1>4 DEF AllMayRun
  <2> QED BY <1>2, <2>1, <2>2
<1>5. CASE m \notin DOMAIN ran
  <2>1. ran'[m] = n
    BY <1>1, <1>3, <1>5, AppendType
  <2> QED BY <1>2, <2>1
<1> QED BY <1>4, <1>5

LEMMA PhaseMayRun ==
  ASSUME TypeOK, AllMayRun, UNCHANGED <<machine, param, cb, has_dmi_support>>,
         NEW phase, phase # "P3", BoardHandlePhase(phase)
  PROVE  AllMayRun'
<1>1. CASE RunsNoEnable
  BY <1>1, NothingRuns DEF RunsNoEnable
<1>2. ASSUME NEW n \in DOMAIN board_matches, RunEnable(n), board_matches[n].phase = phase,
             PciIdsMatch(board_matches[n]), Forced(board_matches[n])
      PROVE  AllMayRun'
  <2>1. MayRun(n)
    BY <1>2, DevicesThere DEF MayRun
  <2> QED BY <1>2, <2>1, OneRuns
<1> QED BY <1>1, <1>2, PhaseRuns

LEMMA RunStep ==
  ASSUME IInv, [Next]_vars
  PROVE  AllMayRun'
<1>0. TypeOK /\ AllMayRun /\ (pc \in BeforeDmi => ran = << >>)
  BY DEF IInv, AllMayRun, EarlyParts
<1>1. CASE ExtractProgrammerParams \/ RgetIoPerms \/ CbParseTable \/ DmiInit
  <2>1. ran' = ran /\ pc \in BeforeDmi
    BY <1>1 DEF ExtractProgrammerParams, RgetIoPerms, CbParseTable, DmiInit, BeforeDmi
  <2> QED BY <1>0, <2>1, NothingRan
<1>2. CASE BoardHandleBeforeSuperio
  BY <1>0, <1>2, PhaseMayRun DEF BoardHandleBeforeSuperio
<1>3. CASE BoardHandleBeforeLaptop
  BY <1>0, <1>3, PhaseMayRun DEF BoardHandleBeforeLaptop
<1>4. CASE \/ ProbeSuperio \/ LaptopCheck \/ PassOver \/ EnableChipset \/ ChipsetsDone
           \/ InitSuperioIte \/ NoBoard \/ UntestedBoard \/ RegisterParProgrammer \/ UNCHANGED vars
  <2>1. UNCHANGED <<machine, param, cb, has_dmi_support, ran>>
    BY <1>4 DEF ProbeSuperio, LaptopCheck, PassOver, EnableChipset, ChipsetsDone, InitSuperioIte,
                NoBoard, UntestedBoard, RegisterParProgrammer, vars
  <2> QED BY <1>0, <2>1, NothingRuns
<1>5. CASE EnableBoard
  <2>1. /\ TheBoard # 0 /\ Forced(board_matches[TheBoard])
        /\ RunsNoEnable \/ RunEnable(TheBoard)
        /\ UNCHANGED <<machine, param, cb, has_dmi_support>>
    BY <1>5 DEF EnableBoard, BoardEnableSafetycheck, Forced
  <2>2. TheBoard \in DOMAIN board_matches /\ MayRun(TheBoard)
    BY <2>1, BoardIsRow DEF MayRun
  <2>3. CASE RunsNoEnable
    BY <1>0, <2>1, <2>3, NothingRuns DEF RunsNoEnable
  <2>4. CASE RunEnable(TheBoard)
    BY <1>0, <2>1, <2>2, <2>4, OneRuns
  <2> QED BY <2>1, <2>3, <2>4
<1> QED BY <1>1, <1>2, <1>3, <1>4, <1>5 DEF Next, Step, Terminated

-----------------------------------------------------------------------------
(* Laptops *)

Early == BeforeDmi \cup BeforeLaptop

(* The actions after which the laptop check is behind, or internal_init()   *)
(* has returned.                                                            *)
LateAction == PassOver \/ EnableChipset \/ ChipsetsDone \/ InitSuperioIte \/ NoBoard
             \/ UntestedBoard \/ EnableBoard \/ RegisterParProgrammer

LEMMA LateStep ==
  ASSUME LateAction
  PROVE  /\ pc \in AfterLaptop /\ pc' \notin Early /\ pc' # "crashed"
         /\ UNCHANGED <<machine, param, has_dmi_support>>
<1> USE DEF Early, BeforeDmi, BeforeLaptop, AfterLaptop
<1>1. CASE PassOver \/ EnableChipset \/ ChipsetsDone \/ InitSuperioIte
  BY <1>1 DEF PassOver, EnableChipset, ChipsetsDone, InitSuperioIte
<1>2. CASE NoBoard \/ UntestedBoard \/ RegisterParProgrammer
  BY <1>2 DEF NoBoard, UntestedBoard, RegisterParProgrammer
<1>3. CASE EnableBoard
  BY <1>3 DEF EnableBoard
<1> QED BY <1>1, <1>2, <1>3 DEF LateAction

LEMMA WhitelistKept ==
  ASSUME UNCHANGED <<machine, param, has_dmi_support>>
  PROVE  Whitelisted' <=> Whitelisted
BY MatchKept DEF Whitelisted, Forced

(* board_handle_phase() knows no more of the laptop than before unless the  *)
(* board is on the list.                                                    *)
LEMMA PhaseLaptop ==
  ASSUME TypeOK, NEW phase, phase # "P3", BoardHandlePhase(phase), ~Whitelisted
  PROVE  UNCHANGED <<is_laptop, laptop_ok>>
<1>1. CASE RunsNoEnable
  BY <1>1 DEF RunsNoEnable
<1>2. ASSUME NEW n \in DOMAIN board_matches, RunEnable(n), board_matches[n].phase = phase,
             PciIdsMatch(board_matches[n]), Forced(board_matches[n])
      PROVE  UNCHANGED <<is_laptop, laptop_ok>>
  <2>1. board_matches[n].enable \notin {"p2_not_a_laptop", "p2_whitelist_laptop"}
    BY <1>2 DEF Whitelisted
  <2>2. laptop_ok' = (laptop_ok \/ FALSE) /\ is_laptop' = is_laptop
    BY <1>2, <2>1 DEF RunEnable
  <2>3. laptop_ok' = laptop_ok
    BY <2>2 DEF TypeOK
  <2> QED BY <2>2, <2>3
<1> QED BY <1>1, <1>2, PhaseRuns

LEMMA EarlyStep ==
  ASSUME IInv, [Next]_vars
  PROVE  EarlyParts'
<1> USE DEF BeforeDmi, BeforeLaptop, AfterLaptop, EarlyParts
<1>0. EarlyParts
  BY DEF IInv
<1>1. CASE ExtractProgrammerParams \/ RgetIoPerms \/ CbParseTable \/ LaptopCheck
  BY <1>0, <1>1 DEF ExtractProgrammerParams, RgetIoPerms, CbParseTable, LaptopCheck
<1>2. CASE DmiInit \/ ProbeSuperio
  BY <1>0, <1>2 DEF DmiInit, ProbeSuperio
<1>3. CASE BoardHandleBeforeSuperio \/ BoardHandleBeforeLaptop
  BY <1>0, <1>3 DEF BoardHandleBeforeSuperio, BoardHandleBeforeLaptop
<1>4. CASE PassOver \/ ChipsetsDone \/ InitSuperioIte
  BY <1>0, <1>4 DEF PassOver, ChipsetsDone, InitSuperioIte
<1>5. CASE EnableChipset
  BY <1>0, <1>5 DEF EnableChipset
<1>6. CASE NoBoard \/ UntestedBoard \/ EnableBoard \/ RegisterParProgrammer
  BY <1>0, <1>6 DEF NoBoard, UntestedBoard, EnableBoard, RegisterParProgrammer
<1>7. CASE UNCHANGED vars
  BY <1>0, <1>7 DEF vars
<1> QED BY <1>1, <1>2, <1>3, <1>4, <1>5, <1>6, <1>7 DEF Next, Step, Terminated

Permitted ==
  machine.dmi # NONE /\ machine.chassis # NONE /\ ~Whitelisted =>
    CASE Chassis(machine.chassis) = 0 -> TRUE
      [] Chassis(machine.chassis) = 1 -> param.laptop = "force_I_want_a_brick"
      [] OTHER -> param.laptop \in {"force_I_want_a_brick", "this_is_not_a_laptop"}

LEMMA NeedsPermission ==
  /\ LaptopNeedsForce <=> (Proceeded => Permitted)
  /\ LaptopNeedsForce' <=> (Proceeded' => Permitted')
BY DEF LaptopNeedsForce, Permitted

LEMMA PermittedKept ==
  ASSUME UNCHANGED <<machine, param, has_dmi_support>>
  PROVE  Permitted' <=> Permitted
BY WhitelistKept DEF Permitted

(* The laptop check lets pass what is permitted only.                       *)
LEMMA CheckPermits ==
  ASSUME IInv, LaptopCheck, pc' # "returned"
  PROVE  Permitted
<1> SUFFICES ASSUME machine.dmi # NONE, machine.chassis # NONE, ~Whitelisted
             PROVE  CASE Chassis(machine.chassis) = 0 -> TRUE
                      [] Chassis(machine.chassis) = 1 -> param.laptop = "force_I_want_a_brick"
                      [] OTHER -> param.laptop \in {"force_I_want_a_brick", "this_is_not_a_laptop"}
  BY DEF Permitted
<1>1. laptop_ok = FALSE /\ is_laptop = Chassis(machine.chassis)
  BY DEF IInv, LaptopKnown, LaptopCheck, BeforeLaptop
<1>2. is_laptop = 0 \/ ForcedLaptop
  BY <1>1 DEF LaptopCheck
<1> QED BY <1>1, <1>2 DEF ForcedLaptop

LEMMA EarlyAction ==
  ASSUME IInv,
         \/ ExtractProgrammerParams \/ RgetIoPerms \/ CbParseTable \/ DmiInit
         \/ BoardHandleBeforeSuperio \/ ProbeSuperio \/ BoardHandleBeforeLaptop
         \/ LaptopCheck /\ pc' = "returned"
  PROVE  ~Proceeded'
<1> USE DEF BeforeDmi, BeforeLaptop, AfterLaptop
<1>1. enabled = << >>
  BY DEF IInv, EarlyParts, ExtractProgrammerParams, RgetIoPerms, CbParseTable, DmiInit,
         BoardHandleBeforeSuperio, ProbeSuperio, BoardHandleBeforeLaptop, LaptopCheck
<1>2. CASE ExtractProgrammerParams \/ RgetIoPerms \/ CbParseTable \/ DmiInit
  <2>1. enabled' = << >> /\ pc' \notin AfterLaptop
    BY <1>1, <1>2 DEF ExtractProgrammerParams, RgetIoPerms, CbParseTable, DmiInit
  <2>2. pc' = "returned" => ret' = 1
    BY <1>2 DEF ExtractProgrammerParams, RgetIoPerms, CbParseTable, DmiInit
  <2> QED BY <2>1, <2>2 DEF Proceeded
<1>3. CASE BoardHandleBeforeSuperio \/ ProbeSuperio \/ BoardHandleBeforeLaptop
  BY <1>1, <1>3 DEF BoardHandleBeforeSuperio, ProbeSuperio, BoardHandleBeforeLaptop, Proceeded
<1>4. CASE LaptopCheck /\ pc' = "returned"
  BY <1>1, <1>4 DEF LaptopCheck, Proceeded
<1> QED BY <1>2, <1>3, <1>4

LEMMA LaptopStep ==
  ASSUME IInv, [Next]_vars
  PROVE  LaptopNeedsForce'
<1>1. CASE LateAction
  <2>1. Permitted
    BY <1>1, LateStep, NeedsPermission DEF IInv, Proceeded
  <2>2. Permitted'
    BY <1>1, <2>1, LateStep, PermittedKept
  <2> QED BY <2>2, NeedsPermission
<1>2. CASE LaptopCheck /\ pc' # "returned"
  <2>1. UNCHANGED <<machine, param, has_dmi_support>>
    BY <1>2 DEF LaptopCheck
  <2>2. Permitted'
    BY <1>2, <2>1, CheckPermits, PermittedKept
  <2> QED BY <2>2, NeedsPermission
<1>3. CASE \/ ExtractProgrammerParams \/ RgetIoPerms \/ CbParseTable \/ DmiInit
           \/ BoardHandleBeforeSuperio \/ ProbeSuperio \/ BoardHandleBeforeLaptop
           \/ LaptopCheck /\ pc' = "returned"
  BY <1>3, EarlyAction, NeedsPermission
<1>4. CASE UNCHANGED vars
  <2>1. UNCHANGED <<machine, param, has_dmi_support>>
    BY <1>4 DEF vars
  <2>2. Proceeded' <=> Proceeded
    BY <1>4 DEF vars, Proceeded
  <2> QED BY <2>1, <2>2, PermittedKept, NeedsPermission DEF IInv
<1> QED BY <1>1, <1>2, <1>3, <1>4 DEF Next, Step, Terminated, LateAction

LEMMA KnownStep ==
  ASSUME IInv, [Next]_vars
  PROVE  LaptopKnown'
<1> USE DEF BeforeDmi, BeforeLaptop
<1>1. CASE ExtractProgrammerParams \/ RgetIoPerms \/ CbParseTable \/ LaptopCheck
  BY <1>1 DEF ExtractProgrammerParams, RgetIoPerms, CbParseTable, LaptopCheck, LaptopKnown
<1>2. CASE DmiInit
  BY <1>2 DEF DmiInit, LaptopKnown, IInv, EarlyParts
<1>3. CASE BoardHandleBeforeSuperio \/ BoardHandleBeforeLaptop \/ ProbeSuperio \/ UNCHANGED vars
  <2>1. UNCHANGED <<machine, param, has_dmi_support>>
    BY <1>3 DEF BoardHandleBeforeSuperio, BoardHandleBeforeLaptop, ProbeSuperio, vars
  <2>2. ~Whitelisted => UNCHANGED <<is_laptop, laptop_ok>>
    BY <1>3, PhaseLaptop DEF BoardHandleBeforeSuperio, BoardHandleBeforeLaptop, ProbeSuperio, vars,
                             IInv
  <2>3. pc' \in BeforeLaptop => pc \in BeforeLaptop
    BY <1>3 DEF BoardHandleBeforeSuperio, BoardHandleBeforeLaptop, ProbeSuperio, vars
  <2>4. LaptopKnown
    BY DEF IInv
  <2> QED BY <2>1, <2>2, <2>3, <2>4, WhitelistKept DEF LaptopKnown
<1>4. CASE LateAction
  BY <1>4, LateStep DEF LaptopKnown, Early
<1> QED BY <1>1, <1>2, <1>3, <1>4 DEF Next, Step, Terminated, LateAction

-----------------------------------------------------------------------------
(* Chipsets *)

ChipsetParts == ChipsetPending /\ OneChipset

LEMMA NoneEnabled ==
  ASSUME enabled' = << >>
  PROVE  ChipsetParts'
BY DEF ChipsetParts, ChipsetPending, OneChipset

LEMMA ChipsetStep ==
  ASSUME IInv, [Next]_vars
  PROVE  ChipsetParts'
<1> USE DEF BeforeDmi, BeforeLaptop
<1>0. ChipsetPending /\ OneChipset /\ (pc \in BeforeDmi \cup BeforeLaptop => enabled = << >>)
  BY DEF IInv, EarlyParts
<1>1. CASE ExtractProgrammerParams \/ RgetIoPerms \/ CbParseTable \/ DmiInit
  BY <1>0, <1>1, NoneEnabled DEF ExtractProgrammerParams, RgetIoPerms, CbParseTable, DmiInit
<1>2. CASE BoardHandleBeforeSuperio \/ ProbeSuperio \/ BoardHandleBeforeLaptop \/ LaptopCheck
  BY <1>0, <1>2, NoneEnabled DEF BoardHandleBeforeSuperio, ProbeSuperio, BoardHandleBeforeLaptop,
                                 LaptopCheck
<1>3. CASE PassOver \/ UNCHANGED vars
  BY <1>0, <1>3 DEF PassOver, vars, ChipsetParts, ChipsetPending, OneChipset, PciDevFind
<1>4. CASE EnableChipset
  <2>1. PICK result \in chipset_enables[chipset].results :
          /\ enabled' = Append(enabled, [row |-> chipset, result |-> result])
          /\ IF result = "FATAL" THEN Returns(Code(result)) ELSE pc' = pc /\ ret' = Code(result)
    BY <1>4 DEF EnableChipset
  <2>2. /\ result \in Results /\ chipset \in DOMAIN chipset_enables
        /\ pc = "chipset_flash_enable" /\ ret = -2 /\ ChipsetFound /\ machine' = machine
    BY <1>4, <2>1, InternalAssumption DEF EnableChipset
  <2>3. /\ DOMAIN (enabled') = 1 .. Len(enabled) + 1 /\ DOMAIN enabled = 1 .. Len(enabled)
        /\ Len(enabled) \in Nat
        /\ \A n \in 1 .. Len(enabled) : enabled'[n] = enabled[n]
        /\ enabled'[Len(enabled) + 1] = [row |-> chipset, result |-> result]
    BY <2>1, <2>2, AppendType DEF IInv, TypeOK
  <2>4. \A n \in 1 .. Len(enabled) : enabled'[n].result = "NOT_DONE_YET"
    BY <1>0, <2>2, <2>3 DEF ChipsetPending
  <2>5. result = "FATAL" => pc' = "returned" /\ ret' # 0
    BY <2>1, Codes
  <2>6. pc' = "chipset_flash_enable" /\ ret' = -2 => result = "NOT_DONE_YET"
    BY <2>1, <2>2, Codes DEF Results
  <2>7. ChipsetPending'
    BY <2>3, <2>4, <2>6 DEF ChipsetPending
  <2>8. \A n \in DOMAIN (enabled') : PciDevFind(chipset_enables[enabled'[n].row].device)
    BY <1>0, <2>2, <2>3 DEF OneChipset, ChipsetFound
  <2>9. OneChipset'
    BY <2>2, <2>3, <2>4, <2>5, <2>8 DEF OneChipset, PciDevFind
  <2> QED BY <2>7, <2>9 DEF ChipsetParts
<1>5. CASE ChipsetsDone \/ InitSuperioIte \/ NoBoard \/ UntestedBoard \/ RegisterParProgrammer
  BY <1>0, <1>5 DEF ChipsetsDone, InitSuperioIte, NoBoard, UntestedBoard, RegisterParProgrammer,
                    ChipsetParts, ChipsetPending, OneChipset, PciDevFind
<1>6. CASE EnableBoard
  BY <1>0, <1>6 DEF EnableBoard, ChipsetParts, ChipsetPending, OneChipset, PciDevFind
<1> QED BY <1>1, <1>2, <1>3, <1>4, <1>5, <1>6 DEF Next, Step, Terminated

-----------------------------------------------------------------------------
LEMMA Invariance == Spec => []IInv
<1>1. Init => IInv
  <2> SUFFICES ASSUME Init PROVE IInv
    OBVIOUS
  <2>1. TypeOK
    BY InitType
  <2>2. EarlyParts /\ LaptopKnown /\ ChipsetPending
    BY DEF Init, EarlyParts, LaptopKnown, ChipsetPending, BeforeDmi, BeforeLaptop
  <2>3. LaptopNeedsForce
    BY DEF Init, LaptopNeedsForce, Proceeded, AfterLaptop
  <2>4. (\A n \in DOMAIN ran : MayRun(ran[n])) /\ OneChipset
    BY DEF Init, OneChipset
  <2> QED BY <2>1, <2>2, <2>3, <2>4 DEF IInv
<1>2. IInv /\ [Next]_vars => IInv'
  <2> SUFFICES ASSUME IInv, [Next]_vars PROVE IInv'
    OBVIOUS
  <2>1. TypeOK'
    BY TypeStep DEF IInv
  <2>2. EarlyParts' /\ LaptopKnown' /\ LaptopNeedsForce'
    BY EarlyStep, KnownStep, LaptopStep
  <2>3. AllMayRun' /\ ChipsetParts'
    BY RunStep, ChipsetStep
  <2> QED BY <2>1, <2>2, <2>3 DEF IInv, AllMayRun, ChipsetParts
<1> QED BY <1>1, <1>2, PTL DEF Spec

(* Type correctness of internal_init().                                     *)
THEOREM Typing == Spec => []TypeOK
<1>1. IInv => TypeOK
  BY DEF IInv
<1> QED BY <1>1, Invariance, PTL

(* For every board table: an untested row's enable runs only if the user    *)
(* forces it, in each phase and however the board was matched.              *)
THEOREM UntestedForced == Spec => []UntestedNeedsForce
<1>1. IInv => UntestedNeedsForce
  BY RightIsMayRun DEF IInv
<1> QED BY <1>1, Invariance, PTL

(* For every board table, also one with rows that clash: an enable runs     *)
(* only where its devices are, and by the user's name if he gives one.      *)
THEOREM BoardIsRight == Spec => []RightBoard
<1>1. IInv => RightBoard
  BY RightIsMayRun DEF IInv
<1> QED BY <1>1, Invariance, PTL

(* For every table: no board enable before the laptop check lets a laptop   *)
(* pass that is not on the list.                                            *)
THEOREM LaptopForced == Spec => []LaptopNeedsForce
<1>1. IInv => LaptopNeedsForce
  BY DEF IInv
<1> QED BY <1>1, Invariance, PTL

(* For every chipset table: after the first that has done something no      *)
(* other is enabled.                                                        *)
THEOREM ChipsetOnce == Spec => []OneChipset
<1>1. IInv => OneChipset
  BY DEF IInv
<1> QED BY <1>1, Invariance, PTL

(* For every table and machine: only code that is meant for this machine,   *)
(* and that the user has not to ask for, is run on it.                      *)
THEOREM CodeIsRight == Spec => []RightCodeOnly
<1>1. UntestedNeedsForce /\ RightBoard /\ OneChipset => RightCodeOnly
  BY DEF RightCodeOnly
<1> QED BY <1>1, UntestedForced, BoardIsRight, ChipsetOnce, PTL

-----------------------------------------------------------------------------
(* Super I/Os *)

Kept(port) ==
  WinbondProbe(port) \o IteProbe(port) # << >> =>
    \E n \in DOMAIN superios : superios[n] = Found(port)

(* From the probe on, as far as anything is done with them.                 *)
SuperiosKnown ==
  pc \in {"board_handle_before_laptop", "laptop"} \/ Proceeded => Kept(0) /\ Kept(1)

(* A probe finds the chip at its port, or nothing.                          *)
LEMMA ProbeTypes ==
  ASSUME NEW S, NEW port, Found(port) \in S
  PROVE  /\ WinbondProbe(port) \in Seq(S)
         /\ WinbondProbe(port) = << >> \/ WinbondProbe(port) = <<Found(port)>>
         /\ IteProbe(port) \in Seq(S)
         /\ IteProbe(port) = << >> \/ IteProbe(port) = <<Found(port)>>
<1>1. << >> \in Seq(S) /\ <<Found(port)>> \in Seq(S)
  OBVIOUS
<1> QED BY <1>1 DEF WinbondProbe, IteProbe

(* One more probe, which finds one chip or none.                            *)
LEMMA OneProbe ==
  ASSUME NEW S, NEW a \in Seq(S), NEW b \in Seq(S), Len(b) \in {0, 1}
  PROVE  /\ a \o b \in Seq(S) /\ Len(a) \in Nat /\ Len(a \o b) = Len(a) + Len(b)
         /\ \A n \in 1 .. Len(a) : (a \o b)[n] = a[n]
         /\ Len(b) = 1 => (a \o b)[Len(a) + 1] = b[1]
OBVIOUS

(* Where the findings of four probes stand.                                 *)
Stand(s, a, b, c, d) ==
  /\ Len(s) = Len(a) + Len(b) + Len(c) + Len(d)
  /\ Len(a) = 1 => s[1] = a[1]
  /\ Len(b) = 1 => s[Len(a) + 1] = b[1]
  /\ Len(c) = 1 => s[Len(a) + Len(b) + 1] = c[1]
  /\ Len(d) = 1 => s[Len(a) + Len(b) + Len(c) + 1] = d[1]

LEMMA Places ==
  ASSUME NEW w \in {0, 1}, NEW x \in {0, 1}, NEW y \in {0, 1}
  PROVE  /\ w = 1 => 1 \in 1 .. w /\ 1 \in 1 .. w + x /\ 1 \in 1 .. w + x + y
         /\ x = 1 => w + 1 \in 1 .. w + x /\ w + 1 \in 1 .. w + x + y
OBVIOUS

LEMMA FourProbes ==
  ASSUME NEW S, NEW a \in Seq(S), NEW b \in Seq(S), NEW c \in Seq(S), NEW d \in Seq(S),
         Len(a) \in {0, 1}, Len(b) \in {0, 1}, Len(c) \in {0, 1}, Len(d) \in {0, 1}
  PROVE  LET s == ((a \o b) \o c) \o d
         IN  s \in Seq(S) /\ Stand(s, a, b, c, d)
<1> DEFINE ab == a \o b  abc == ab \o c  s == abc \o d
<1>1. /\ ab \in Seq(S) /\ Len(ab) = Len(a) + Len(b)
      /\ \A n \in 1 .. Len(a) : ab[n] = a[n]
      /\ Len(b) = 1 => ab[Len(a) + 1] = b[1]
  BY OneProbe
<1>2. /\ abc \in Seq(S) /\ Len(abc) = Len(ab) + Len(c)
      /\ \A n \in 1 .. Len(ab) : abc[n] = ab[n]
      /\ Len(c) = 1 => abc[Len(ab) + 1] = c[1]
  <2> HIDE DEF ab
  <2>1. PICK u : u = ab
    OBVIOUS
  <2>2. u \in Seq(S) /\ c \in Seq(S) /\ Len(c) \in {0, 1}
    BY ONLY <1>1, <2>1, c \in Seq(S), Len(c) \in {0, 1}
  <2>3. /\ u \o c \in Seq(S) /\ Len(u \o c) = Len(u) + Len(c)
        /\ \A n \in 1 .. Len(u) : (u \o c)[n] = u[n]
        /\ Len(c) = 1 => (u \o c)[Len(u) + 1] = c[1]
    BY ONLY <2>2, OneProbe
  <2> QED BY ONLY <2>1, <2>3
<1>3. /\ s \in Seq(S) /\ Len(s) = Len(abc) + Len(d)
      /\ \A n \in 1 .. Len(abc) : s[n] = abc[n]
      /\ Len(d) = 1 => s[Len(abc) + 1] = d[1]
  <2> HIDE DEF abc
  <2>1. PICK u : u = abc
    OBVIOUS
  <2>2. u \in Seq(S) /\ d \in Seq(S) /\ Len(d) \in {0, 1}
    BY ONLY <1>2, <2>1, d \in Seq(S), Len(d) \in {0, 1}
  <2>3. /\ u \o d \in Seq(S) /\ Len(u \o d) = Len(u) + Len(d)
        /\ \A n \in 1 .. Len(u) : (u \o d)[n] = u[n]
        /\ Len(d) = 1 => (u \o d)[Len(u) + 1] = d[1]
    BY ONLY <2>2, OneProbe
  <2> QED BY ONLY <2>1, <2>3
<1> HIDE DEF ab, abc, s
<1>4. s \in Seq(S) /\ Stand(s, a, b, c, d)
  <2>1. /\ s \in Seq(S) /\ Len(s) = Len(a) + Len(b) + Len(c) + Len(d)
        /\ Len(abc) = Len(a) + Len(b) + Len(c) /\ Len(ab) = Len(a) + Len(b)
    BY <1>1, <1>2, <1>3
  <2>2. Len(a) = 1 => 1 \in 1 .. Len(a) /\ 1 \in 1 .. Len(ab) /\ 1 \in 1 .. Len(abc)
    BY <2>1, Places, Zenon
  <2>3. Len(b) = 1 => Len(a) + 1 \in 1 .. Len(ab) /\ Len(a) + 1 \in 1 .. Len(abc)
    BY <2>1, Places, Zenon
  <2>4. Len(c) = 1 => Len(ab) + 1 \in 1 .. Len(abc)
    BY <2>1
  <2>5. ASSUME Len(a) = 1 PROVE s[1] = a[1]
    <3>1. s[1] = abc[1]
      BY <1>3, <2>2, <2>5, Zenon
    <3>2. abc[1] = ab[1]
      BY <1>2, <2>2, <2>5, Zenon
    <3>3. ab[1] = a[1]
      BY <1>1, <2>2, <2>5, Zenon
    <3> QED BY <3>1, <3>2, <3>3, Zenon
  <2>6. Len(b) = 1 => s[Len(a) + 1] = b[1]
    BY <1>1, <1>2, <1>3, <2>3, Zenon
  <2>7. /\ Len(c) = 1 => s[Len(ab) + 1] = c[1]
        /\ Len(d) = 1 => s[Len(abc) + 1] = d[1]
    BY <1>2, <1>3, <2>4, Zenon
  <2> QED BY <2>1, <2>5, <2>6, <2>7, Zenon DEF Stand
<1> QED BY <1>4 DEF s, abc, ab

(* What register_superio() keeps of them.                                   *)
LEMMA Registered ==
  ASSUME NEW S, NEW s \in Seq(S), NEW n \in 1 .. Len(s), n <= SUPERIO_MAX_COUNT
  PROVE  n \in DOMAIN RegisterSuperios(s) /\ RegisterSuperios(s)[n] = s[n]
<1> DEFINE m == IF Len(s) > SUPERIO_MAX_COUNT THEN SUPERIO_MAX_COUNT ELSE Len(s)
<1>1. m \in 0 .. Len(s) /\ n \in 1 .. m
  BY InternalAssumption
<1>2. RegisterSuperios(s) = SubSeq(s, 1, m)
  BY DEF RegisterSuperios
<1> HIDE DEF m
<1>3. SubSeq(s, 1, m) = [i \in 1 .. m |-> s[i]]
  BY <1>1
<1> QED BY <1>1, <1>2, <1>3

(* Three places are enough for two ports: the fourth finding, if there is   *)
(* one, is the second one of its chip.                                      *)
LEMMA ThreeAreEnough ==
  ASSUME SUPERIO_MAX_COUNT >= 3, ProbeSuperio
  PROVE  Kept(0)' /\ Kept(1)'
<1> DEFINE a == WinbondProbe(0)  b == WinbondProbe(1)  c == IteProbe(0)  d == IteProbe(1)
           s == ((a \o b) \o c) \o d
           S == {Found(0), Found(1)}
<1>1. superios' = RegisterSuperios(s)
  BY DEF ProbeSuperio, Ports
<1>2. /\ WinbondProbe(0)' = a /\ WinbondProbe(1)' = b /\ IteProbe(0)' = c /\ IteProbe(1)' = d
      /\ Found(0)' = Found(0) /\ Found(1)' = Found(1)
  BY DEF ProbeSuperio, WinbondProbe, IteProbe, Found, Chip
<1>3. /\ a \in Seq(S) /\ (a = << >> \/ a = <<Found(0)>>)
      /\ b \in Seq(S) /\ (b = << >> \/ b = <<Found(1)>>)
      /\ c \in Seq(S) /\ (c = << >> \/ c = <<Found(0)>>)
      /\ d \in Seq(S) /\ (d = << >> \/ d = <<Found(1)>>)
  <2>1. Found(0) \in S /\ Found(1) \in S
    OBVIOUS
  <2> HIDE DEF S
  <2> QED BY <2>1, ProbeTypes
<1> HIDE DEF a, b, c, d, S
<1>4. /\ (a = << >>) \/ (Len(a) = 1 /\ a[1] = Found(0))
      /\ (b = << >>) \/ (Len(b) = 1 /\ b[1] = Found(1))
      /\ (c = << >>) \/ (Len(c) = 1 /\ c[1] = Found(0))
      /\ (d = << >>) \/ (Len(d) = 1 /\ d[1] = Found(1))
  <2>1. /\ Len(<<Found(0)>>) = 1 /\ <<Found(0)>>[1] = Found(0)
        /\ Len(<<Found(1)>>) = 1 /\ <<Found(1)>>[1] = Found(1)
    OBVIOUS
  <2> QED BY <1>3, <2>1, Zenon
<1>5. /\ Len(a) = IF a = << >> THEN 0 ELSE 1
      /\ Len(b) = IF b = << >> THEN 0 ELSE 1
      /\ Len(c) = IF c = << >> THEN 0 ELSE 1
      /\ Len(d) = IF d = << >> THEN 0 ELSE 1
  <2>1. Len(<< >>) = 0
    OBVIOUS
  <2> QED BY <1>4, <2>1
<1>6. s \in Seq(S) /\ Stand(s, a, b, c, d)
  <2>1. Len(a) \in {0, 1} /\ Len(b) \in {0, 1} /\ Len(c) \in {0, 1} /\ Len(d) \in {0, 1}
    BY <1>5
  <2> QED BY <1>3, <2>1, FourProbes, Zenon
<1> HIDE DEF s
<1>7. SUPERIO_MAX_COUNT \in Nat
  BY InternalAssumption
<1>8. \A n \in 1 .. Len(s) : n <= SUPERIO_MAX_COUNT =>
        n \in DOMAIN (superios') /\ superios'[n] = s[n]
  BY <1>1, <1>6, Registered
<1>9. ASSUME a # << >> \/ c # << >>
      PROVE  \E n \in DOMAIN (superios') : superios'[n] = Found(0)
  <2>1. CASE a # << >>
    <3>1. 1 \in 1 .. Len(s) /\ 1 <= SUPERIO_MAX_COUNT /\ Len(a) = 1
      BY <1>5, <1>6, <1>7, <2>1 DEF Stand
    <3>2. s[1] = Found(0)
      BY <1>4, <1>6, <2>1, <3>1, Zenon DEF Stand
    <3> QED BY <1>8, <3>1, <3>2, Zenon
  <2>2. CASE a = << >> /\ c # << >>
    <3> DEFINE n == Len(a) + Len(b) + 1
    <3>1. n \in 1 .. Len(s) /\ n <= SUPERIO_MAX_COUNT /\ Len(c) = 1
      BY <1>5, <1>6, <1>7, <2>2 DEF Stand
    <3>2. s[n] = Found(0)
      BY <1>4, <1>6, <2>2, <3>1, Zenon DEF Stand
    <3> QED BY <1>8, <3>1, <3>2, Zenon
  <2> QED BY <1>9, <2>1, <2>2
<1>10. ASSUME b # << >> \/ d # << >>
       PROVE  \E n \in DOMAIN (superios') : superios'[n] = Found(1)
  <2>1. CASE b # << >>
    <3> DEFINE n == Len(a) + 1
    <3>1. n \in 1 .. Len(s) /\ n <= SUPERIO_MAX_COUNT /\ Len(b) = 1
      BY <1>5, <1>6, <1>7, <2>1 DEF Stand
    <3>2. s[n] = Found(1)
      BY <1>4, <1>6, <2>1, <3>1, Zenon DEF Stand
    <3> QED BY <1>8, <3>1, <3>2, Zenon
  <2>2. CASE b = << >> /\ d # << >>
    <3> DEFINE n == Len(a) + Len(b) + Len(c) + 1
    <3>1. n \in 1 .. Len(s) /\ n <= SUPERIO_MAX_COUNT /\ Len(d) = 1
      BY <1>5, <1>6, <1>7, <2>2 DEF Stand
    <3>2. s[n] = Found(1)
      BY <1>4, <1>6, <2>2, <3>1, Zenon DEF Stand
    <3> QED BY <1>8, <3>1, <3>2, Zenon
  <2> QED BY <1>10, <2>1, <2>2
<1>11. (a \o c # << >> => a # << >> \/ c # << >>) /\ (b \o d # << >> => b # << >> \/ d # << >>)
  <2>1. << >> \o << >> = << >>
    OBVIOUS
  <2> QED BY <2>1
<1>12. Kept(0)'
  BY <1>2, <1>9, <1>11 DEF Kept, a, c
<1>13. Kept(1)'
  BY <1>2, <1>10, <1>11 DEF Kept, b, d
<1> QED BY <1>12, <1>13

LEMMA NotYetProbed ==
  ASSUME \/ ExtractProgrammerParams \/ RgetIoPerms \/ CbParseTable \/ DmiInit
         \/ BoardHandleBeforeSuperio
  PROVE  pc' \notin {"board_handle_before_laptop", "laptop"}
<1>1. CASE ExtractProgrammerParams
  BY <1>1 DEF ExtractProgrammerParams
<1>2. CASE RgetIoPerms
  BY <1>2 DEF RgetIoPerms
<1>3. CASE CbParseTable
  <2>1. pc' \in {"crashed", "returned", "dmi_init"}
    BY <1>3, Zenon DEF CbParseTable
  <2> QED BY <2>1
<1>4. CASE DmiInit \/ BoardHandleBeforeSuperio
  BY <1>4 DEF DmiInit, BoardHandleBeforeSuperio
<1> QED BY <1>1, <1>2, <1>3, <1>4

LEMMA SuperioStep ==
  ASSUME SUPERIO_MAX_COUNT >= 3, IInv, SuperiosKnown, [Next]_vars
  PROVE  SuperiosKnown'
<1>0. machine' = machine /\ superios' = superios => (Kept(0) => Kept(0)') /\ (Kept(1) => Kept(1)')
  BY DEF Kept, WinbondProbe, IteProbe, Found, Chip
<1>1. CASE ExtractProgrammerParams \/ RgetIoPerms \/ CbParseTable \/ DmiInit
           \/ BoardHandleBeforeSuperio
  <2>1. ~Proceeded'
    BY <1>1, EarlyAction
  <2>2. pc' \notin {"board_handle_before_laptop", "laptop"}
    BY <1>1, NotYetProbed
  <2> QED BY <2>1, <2>2 DEF SuperiosKnown
<1>2. CASE ProbeSuperio
  BY <1>2, ThreeAreEnough DEF SuperiosKnown
<1>3. CASE BoardHandleBeforeLaptop \/ LaptopCheck
  <2>1. machine' = machine /\ superios' = superios
        /\ pc \in {"board_handle_before_laptop", "laptop"}
    BY <1>3 DEF BoardHandleBeforeLaptop, LaptopCheck
  <2> QED BY <1>0, <2>1 DEF SuperiosKnown
<1>4. CASE LateAction
  <2>1. machine' = machine /\ superios' = superios /\ Proceeded
    BY <1>4 DEF LateAction, PassOver, EnableChipset, ChipsetsDone, InitSuperioIte, NoBoard,
                UntestedBoard, EnableBoard, RegisterParProgrammer, Proceeded, AfterLaptop
  <2> QED BY <1>0, <2>1 DEF SuperiosKnown
<1>5. CASE UNCHANGED vars
  BY <1>0, <1>5 DEF vars, SuperiosKnown, Proceeded
<1> QED BY <1>1, <1>2, <1>3, <1>4, <1>5 DEF Next, Step, Terminated, LateAction

(* With the three places the code has: a chip that answers to two probes    *)
(* pushes no other out of superios[].                                       *)
THEOREM AllFound == SUPERIO_MAX_COUNT >= 3 => (Spec => []NoSuperioLost)
<1> SUFFICES ASSUME SUPERIO_MAX_COUNT >= 3 PROVE Spec => []NoSuperioLost
  OBVIOUS
<1>1. Init => SuperiosKnown
  BY DEF Init, SuperiosKnown, Proceeded, AfterLaptop
<1>2. IInv /\ SuperiosKnown /\ [Next]_vars => SuperiosKnown'
  BY SuperioStep
<1>3. SuperiosKnown => NoSuperioLost
  BY DEF SuperiosKnown, NoSuperioLost, Kept, Ports
<1> QED BY <1>1, <1>2, <1>3, Invariance, PTL DEF Spec
=============================================================================
