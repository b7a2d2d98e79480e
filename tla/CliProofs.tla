----------------------------- MODULE CliProofs -----------------------------
(***************************************************************************)
(* Proofs about the command line program, for every table of chips, every  *)
(* command line, every set of interfaces and all chips that may answer;    *)
(* about the ROM layout it keeps; and about the life of the programmer it  *)
(* calls.                                                                  *)
(***************************************************************************)
EXTENDS Cli, Layout, Lifecycle, FiniteSetTheorems, WellFoundedInduction, TLAPS

-----------------------------------------------------------------------------
(* Type correctness.                                                        *)

Pcs == {"getopt", "init", "probe", "forced_read", "check_size", "doit", "out_shutdown", "exit"}

(* What has a type of its own: the tables, the options and the indices.     *)
TypeOK ==
  /\ argv \in Seq(Option) /\ cmdline \in Seq(Option)
  /\ operation \in Operations \cup {"none"}
  /\ dont_verify_it \in BOOLEAN /\ force \in BOOLEAN
  /\ registered_programmers \in Seq(SUBSET Buses)
  /\ max_rom_decode \in [Buses -> Nat]
  /\ j \in Nat \ {0} /\ startchip \in Nat \ {0}
  /\ flashes \in Seq(Interfaces \X ChipIndex)
  /\ pc \in {"getopt", "init"} => flashes = << >> /\ j = 1 /\ startchip = 1
  /\ ret \in {0, 1} /\ pc \in Pcs

LEMMA TailType ==
  ASSUME NEW S, NEW s \in Seq(S), s # << >>
  PROVE  /\ Head(s) \in S /\ Head(s) = s[1] /\ Tail(s) \in Seq(S) /\ Len(Tail(s)) = Len(s) - 1
         /\ \A n \in 1 .. Len(s) - 1 : Tail(s)[n] = s[n + 1]
OBVIOUS

LEMMA AppendType ==
  ASSUME NEW S, NEW s \in Seq(S), NEW e \in S
  PROVE  /\ Append(s, e) \in Seq(S) /\ Len(Append(s, e)) = Len(s) + 1
         /\ \A n \in 1 .. Len(s) : Append(s, e)[n] = s[n]
         /\ Append(s, e)[Len(s) + 1] = e
OBVIOUS

LEMMA TypeInit == Init => TypeOK
<1> SUFFICES ASSUME Init PROVE TypeOK
  OBVIOUS
<1>1. argv \in Seq(Option) /\ max_rom_decode \in [Buses -> Nat]
  BY CliAssumption DEF Init
<1>2. registered_programmers \in Seq(SUBSET Buses) /\ flashes \in Seq(Interfaces \X ChipIndex)
  BY DEF Init
<1>3. cmdline = argv /\ operation = "none" /\ ~dont_verify_it /\ ~force /\ ret = 0 /\ pc \in Pcs
      /\ flashes = << >> /\ j = 1 /\ startchip = 1
      /\ dont_verify_it \in BOOLEAN /\ force \in BOOLEAN
  BY DEF Init, Pcs
<1> QED BY <1>1, <1>2, <1>3 DEF TypeOK

LEMMA TypeStep == TypeOK /\ [Next]_vars => TypeOK'
<1> SUFFICES ASSUME TypeOK, [Next]_vars PROVE TypeOK'
  OBVIOUS
<1> USE DEF TypeOK, Pcs, options, machine, probing, Goto, GotoOut, GotoOutShutdown, AbortUsage,
            Interfaces
<1>1. CASE SpecifyOperation
  BY <1>1, TailType DEF SpecifyOperation, LastOption
<1>2. CASE NoVerify
  BY <1>2, TailType DEF NoVerify
<1>3. CASE ForceIt
  BY <1>3, TailType DEF ForceIt
<1>4. CASE ChipToProbe
  BY <1>4, TailType DEF ChipToProbe
<1>5. CASE Programmer
  BY <1>5, TailType DEF Programmer
<1>6. CASE Usage
  BY <1>6 DEF Usage
<1>7. CASE OptionsParsed
  BY <1>7 DEF OptionsParsed
<1>8. CASE CallsProgrammerInit
  <2>1. registered_programmers' \in Seq(SUBSET Buses) /\ max_rom_decode' \in [Buses -> Nat]
    BY <1>8, CliAssumption DEF CallsProgrammerInit
  <2>2. flashes' = << >> /\ << >> \in Seq(Interfaces' \X ChipIndex)
    BY <1>8 DEF CallsProgrammerInit
  <2> QED BY <1>8, <2>1, <2>2 DEF CallsProgrammerInit
<1>9. CASE ProbeFinds
  <2>1. PICK n \in ProbeFlash(j, startchip) :
          flashes' = Append(flashes, <<j, n>>) /\ startchip' = n + 1
    BY <1>9 DEF ProbeFinds
  <2>2. n \in ChipIndex /\ n \in Nat \ {0} /\ j \in Interfaces
    <3>1. n \in ChipIndex
      BY DEF ProbeFlash
    <3>2. j \in Interfaces
      BY <1>9 DEF ProbeFinds
    <3>3. flashchips \in Seq(Chip)
      BY CliAssumption
    <3>4. ChipIndex \subseteq Nat \ {0}
      BY ONLY <3>3 DEF ChipIndex
    <3> QED BY ONLY <3>1, <3>2, <3>4
  <2>3. flashes' \in Seq(Interfaces \X ChipIndex)
    BY <2>1, <2>2, AppendType
  <2> QED BY <1>9, <2>1, <2>2, <2>3 DEF ProbeFinds
<1>10. CASE NextInterface
  BY <1>10 DEF NextInterface
<1>11. CASE Choose
  BY <1>11 DEF Choose
<1>12. CASE ForcedRead
  BY <1>12 DEF ForcedRead
<1>13. CASE CheckSize
  BY <1>13 DEF CheckSize
<1>14. CASE Doit
  BY <1>14 DEF Doit
<1>15. CASE OutShutdown
  BY <1>15 DEF OutShutdown
<1>16. CASE UNCHANGED vars
  BY <1>16 DEF vars
<1> QED BY <1>1, <1>2, <1>3, <1>4, <1>5, <1>6, <1>7, <1>8, <1>9, <1>10, <1>11, <1>12, <1>13,
           <1>14, <1>15, <1>16 DEF Next, Step, Terminated

(* The indices of the probing stay within the tables.                       *)
THEOREM Typing == Spec => []TypeOK
BY TypeInit, TypeStep, PTL DEF Spec

-----------------------------------------------------------------------------
(* The ways out of main().                                                  *)

(* Nothing is done before the last two steps; the programmer is on from     *)
(* programmer_init() until the shutdown.                                    *)
WayInv ==
  /\ pc \notin {"out_shutdown", "exit"} => ret = 0 /\ done = Nothing
  /\ pc \in {"getopt", "init"} => programmer = "off"
  /\ pc \notin {"getopt", "init", "exit"} => programmer = "on"
  /\ pc = "out_shutdown" =>
       (operation \in {"-r", "-w", "-v", "-E"} => (ret = 0 <=> done.op = operation))
  /\ ExitStatus

LEMMA WayInit == Init => WayInv
BY DEF Init, WayInv, ExitStatus, StatusIsDone, ShutdownOnce

LEMMA WayStep == WayInv /\ [Next]_vars => WayInv'
<1> SUFFICES ASSUME WayInv, [Next]_vars PROVE WayInv'
  OBVIOUS
<1> USE DEF WayInv, ExitStatus, StatusIsDone, ShutdownOnce, Nothing, options, machine, probing,
            Goto, GotoOut, GotoOutShutdown, AbortUsage, ShutDown
<1>1. CASE SpecifyOperation
  BY <1>1 DEF SpecifyOperation, LastOption
<1>2. CASE NoVerify
  BY <1>2 DEF NoVerify
<1>3. CASE ForceIt
  BY <1>3 DEF ForceIt
<1>4. CASE ChipToProbe
  BY <1>4 DEF ChipToProbe
<1>5. CASE Programmer
  BY <1>5 DEF Programmer
<1>6. CASE Usage
  BY <1>6 DEF Usage
<1>7. CASE OptionsParsed
  BY <1>7 DEF OptionsParsed
<1>8. CASE CallsProgrammerInit
  BY <1>8 DEF CallsProgrammerInit
<1>9. CASE ProbeFinds
  BY <1>9 DEF ProbeFinds
<1>10. CASE NextInterface
  BY <1>10 DEF NextInterface
<1>11. CASE Choose
  BY <1>11 DEF Choose
<1>12. CASE ForcedRead
  BY <1>12 DEF ForcedRead
<1>13. CASE CheckSize
  BY <1>13 DEF CheckSize
<1>14. CASE Doit
  BY <1>14 DEF Doit
<1>15. CASE OutShutdown
  BY <1>15 DEF OutShutdown
<1>16. CASE UNCHANGED vars
  BY <1>16 DEF vars
<1> QED BY <1>1, <1>2, <1>3, <1>4, <1>5, <1>6, <1>7, <1>8, <1>9, <1>10, <1>11, <1>12, <1>13,
           <1>14, <1>15, <1>16 DEF Next, Step, Terminated

(* main() returns 0 exactly if it did what it was asked for, and has shut   *)
(* the programmer down exactly once if it started it.                       *)
THEOREM StatusTrue == Spec => []ExitStatus
<1>1. WayInv => ExitStatus
  BY DEF WayInv
<1> QED BY <1>1, WayInit, WayStep, PTL DEF Spec

-----------------------------------------------------------------------------
(* Only the one chip.                                                       *)

FoundAnswer == \A f \in DOMAIN flashes : Answers(flashes[f][1], flashes[f][2])

Found(m, n) == \E f \in DOMAIN flashes : flashes[f] = <<m, n>>
FoundOn(m) == \E f \in DOMAIN flashes : flashes[f][1] = m

(* An entry that answers is among the chips found, or it is a generic one   *)
(* on an interface with another, or flashes[] is full.                      *)
Considered(m, n) ==
  Answers(m, n) => \/ Len(flashes) >= MAX_CHIPS
                   \/ Found(m, n)
                   \/ flashchips[n].generic /\ FoundOn(m)

Passed(m, n) == m < j \/ (m = j /\ n < startchip)

ProbeInv ==
  /\ pc \notin {"out_shutdown", "exit"} => done = Nothing
  /\ FoundAnswer
  /\ pc = "probe" => /\ startchip # 1 => FoundOn(j)
                     /\ \A m \in Interfaces, n \in ChipIndex : Passed(m, n) => Considered(m, n)
  /\ pc \in {"forced_read", "check_size", "doit"} =>
       \A m \in Interfaces, n \in ChipIndex : Considered(m, n)
  /\ pc = "forced_read" => flashes = << >> /\ operation = "-r" /\ force
  /\ pc \in {"check_size", "doit"} => Len(flashes) = 1
  /\ OnlyTheOneChip

(* A set of indices that is not empty has a least one.                      *)
LEMMA LeastIndex ==
  ASSUME NEW S, S \subseteq Nat, S # {}
  PROVE  \E n \in S : \A m \in S : n <= m
<1> DEFINE Less == {mn \in Nat \X Nat : mn[1] < mn[2]}
<1>1. IsWellFoundedOn(Less, Nat)
  BY NatLessThanWellFounded DEF OpToRel
<1> HIDE DEF Less
<1>2. PICK n \in S : \A m \in S : <<m, n>> \notin Less
  BY <1>1, WFMin
<1>3. \A m \in S : ~(m < n)
  BY <1>2 DEF Less
<1> QED BY <1>3

(* If an entry from first on matches, there is a first one.                 *)
LEMMA FirstMatch ==
  ASSUME NEW m, NEW first \in Nat \ {0}, ProbeFlash(m, first) = {}
  PROVE  \A n \in ChipIndex : first <= n => ~Match(m, n, first)
<1> DEFINE hits == {n \in ChipIndex : first <= n /\ Match(m, n, first)}
<1>1. ChipIndex = 1 .. Len(flashchips) /\ Len(flashchips) \in Nat
  BY CliAssumption DEF ChipIndex
<1>2. ASSUME hits # {} PROVE FALSE
  <2>1. hits \subseteq Nat
    BY <1>1
  <2>2. PICK n \in hits : \A x \in hits : n <= x
    BY <1>2, <2>1, LeastIndex
  <2>3. n \in ProbeFlash(m, first)
    <3>1. \A x \in first .. n - 1 : x \in ChipIndex /\ first <= x /\ ~(n <= x)
      BY <1>1, <2>2
    <3>2. \A x \in first .. n - 1 : ~Match(m, x, first)
      BY <2>2, <3>1
    <3> QED BY <2>2, <3>2 DEF ProbeFlash
  <2> QED BY <2>3
<1> QED BY <1>2

LEMMA ProbeInit == Init => ProbeInv
BY DEF Init, ProbeInv, FoundAnswer, OnlyTheOneChip, Nothing

(* What was probed stays as it was while the inputs of the probing do.      *)
LEMMA AnswersKept ==
  ASSUME UNCHANGED <<chip_to_probe, registered_programmers, answers>>
  PROVE  /\ \A m, n : Answers(m, n)' <=> Answers(m, n)
         /\ Interfaces' = Interfaces
BY DEF Answers, Tried, Named, OnBus, Interfaces

LEMMA ConsideredKept ==
  ASSUME UNCHANGED <<chip_to_probe, registered_programmers, answers, flashes>>
  PROVE  \A m, n : /\ Considered(m, n)' <=> Considered(m, n)
                   /\ Found(m, n)' <=> Found(m, n)
                   /\ FoundOn(m)' <=> FoundOn(m)
BY AnswersKept DEF Considered, Found, FoundOn

LEMMA FoundKept ==
  ASSUME UNCHANGED <<chip_to_probe, registered_programmers, answers, flashes>>
  PROVE  FoundAnswer' <=> FoundAnswer
BY DEF FoundAnswer, Answers, Tried, Named, OnBus

(* A doit() or a forced read on the right chip.                             *)
LEMMA DoneRight ==
  ASSUME ProbeInv, UNCHANGED <<chip_to_probe, registered_programmers, answers, force, operation>>,
         NEW iface \in Interfaces, NEW c \in ChipIndex, done'.op = operation,
         done'.chip = <<iface, c>>,
         \A m \in Interfaces, n \in ChipIndex : Considered(m, n),
         \/ flashes = << >> /\ operation = "-r" /\ force
         \/ Len(flashes) = 1 /\ flashes[1] = <<iface, c>>
  PROVE  OnlyTheOneChip'
<1>1. MAX_CHIPS \in Nat \ {0, 1}
  BY CliAssumption
<1>2. CASE flashes = << >> /\ operation = "-r" /\ force
  <2>1. ~Answers(iface, c)
    BY <1>1, <1>2 DEF Considered, Found, FoundOn
  <2> QED BY <1>2, <2>1, AnswersKept DEF OnlyTheOneChip
<1>3. CASE Len(flashes) = 1 /\ flashes[1] = <<iface, c>>
  <2>1. DOMAIN flashes = {1}
    BY <1>3
  <2>2. Answers(iface, c)
    BY <1>3, <2>1 DEF ProbeInv, FoundAnswer
  <2>3. \A m \in Interfaces, n \in ChipIndex :
          Answers(m, n) /\ <<m, n>> # <<iface, c>> => m = iface /\ flashchips[n].generic
    BY <1>1, <1>3, <2>1 DEF Considered, Found, FoundOn
  <2> QED BY <2>2, <2>3, AnswersKept DEF OnlyTheOneChip
<1> QED BY <1>2, <1>3

LEMMA ProbeStep == TypeOK /\ ProbeInv /\ [Next]_vars => ProbeInv'
<1> SUFFICES ASSUME TypeOK, ProbeInv, [Next]_vars PROVE ProbeInv'
  OBVIOUS
<1> USE DEF options, machine, probing, Goto, GotoOut, GotoOutShutdown, AbortUsage
<1>t. /\ flashes \in Seq(Interfaces \X ChipIndex) /\ j \in Nat \ {0} /\ startchip \in Nat \ {0}
      /\ ChipIndex = 1 .. Len(flashchips) /\ Len(flashchips) \in Nat
      /\ Interfaces = 1 .. Len(registered_programmers) /\ Len(registered_programmers) \in Nat
  BY CliAssumption DEF TypeOK, ChipIndex, Interfaces
(* The option loop.                                                         *)
<1>o. ASSUME pc = "getopt", pc' \in {"getopt", "init", "exit"}, done' = done, flashes' = flashes
      PROVE  ProbeInv'
  <2>1. flashes = << >> /\ done = Nothing
    BY <1>o DEF TypeOK, ProbeInv
  <2> QED BY <1>o, <2>1 DEF ProbeInv, FoundAnswer, OnlyTheOneChip, Nothing
(* A way out without anything done.                                         *)
<1>e. ASSUME pc \notin {"out_shutdown", "exit"}, pc' \in {"out_shutdown", "exit"}, done' = done,
             UNCHANGED <<chip_to_probe, registered_programmers, answers, flashes>>
      PROVE  ProbeInv'
  <2>1. done = Nothing
    BY <1>e DEF ProbeInv
  <2>2. FoundAnswer'
    BY <1>e, FoundKept DEF ProbeInv
  <2> QED BY <1>e, <2>1, <2>2 DEF ProbeInv, OnlyTheOneChip, Nothing
<1>1. CASE SpecifyOperation
  BY <1>1, <1>o DEF SpecifyOperation, LastOption
<1>2. CASE NoVerify
  BY <1>2, <1>o DEF NoVerify
<1>3. CASE ForceIt
  BY <1>3, <1>o DEF ForceIt
<1>4. CASE ChipToProbe
  BY <1>4, <1>o DEF ChipToProbe
<1>5. CASE Programmer
  BY <1>5, <1>o DEF Programmer
<1>6. CASE Usage
  BY <1>6, <1>o DEF Usage
<1>7. CASE OptionsParsed
  BY <1>7, <1>o DEF OptionsParsed
<1>8. CASE CallsProgrammerInit
  <2>1. flashes = << >> /\ flashes' = << >> /\ j' = 1 /\ startchip' = 1 /\ done = Nothing
        /\ done' = done /\ pc' \in {"probe", "out_shutdown"}
    BY <1>8 DEF CallsProgrammerInit, TypeOK, ProbeInv
  <2>2. Interfaces' \subseteq Nat \ {0} /\ ChipIndex \subseteq Nat \ {0}
    <3>1. TypeOK'
      BY TypeStep
    <3>2. registered_programmers' \in Seq(SUBSET Buses)
      BY <3>1 DEF TypeOK
    <3> QED BY <1>t, <3>2 DEF Interfaces
  <2>3. \A m \in Interfaces', n \in ChipIndex : ~Passed(m, n)'
    BY <2>1, <2>2 DEF Passed
  <2> QED BY <2>1, <2>3 DEF ProbeInv, FoundAnswer, OnlyTheOneChip, Nothing
<1>9. CASE ProbeFinds
  <2>1. PICK n \in ProbeFlash(j, startchip) :
          flashes' = Append(flashes, <<j, n>>) /\ startchip' = n + 1
    BY <1>9 DEF ProbeFinds
  <2>2. /\ pc = "probe" /\ pc' = pc /\ j' = j /\ j \in Interfaces /\ done' = done
        /\ UNCHANGED <<chip_to_probe, registered_programmers, answers>>
    BY <1>9 DEF ProbeFinds
  <2>3. /\ n \in ChipIndex /\ n \in Nat \ {0} /\ startchip <= n /\ Match(j, n, startchip)
        /\ \A x \in startchip .. n - 1 : ~Match(j, x, startchip)
    BY <1>t, <2>1 DEF ProbeFlash
  <2>4. /\ Len(flashes') = Len(flashes) + 1
        /\ DOMAIN flashes = 1 .. Len(flashes) /\ DOMAIN flashes' = 1 .. Len(flashes) + 1
        /\ \A f \in DOMAIN flashes : flashes'[f] = flashes[f] /\ f \in DOMAIN flashes'
        /\ flashes'[Len(flashes) + 1] = <<j, n>> /\ Len(flashes) + 1 \in DOMAIN flashes'
        /\ \A f \in DOMAIN flashes' : f \in DOMAIN flashes \/ f = Len(flashes) + 1
        /\ Len(flashes) \in Nat
    <3>1. <<j, n>> \in Interfaces \X ChipIndex
      BY <2>2, <2>3
    <3> HIDE DEF Interfaces
    <3>2. PICK e, s : e = <<j, n>> /\ s = flashes /\ flashes' = Append(s, e)
      BY ONLY <2>1
    <3>3. e \in Interfaces \X ChipIndex /\ s \in Seq(Interfaces \X ChipIndex)
      BY <1>t, <3>1, <3>2
    <3>4. /\ Append(s, e) \in Seq(Interfaces \X ChipIndex) /\ Len(Append(s, e)) = Len(s) + 1
          /\ \A f \in 1 .. Len(s) : Append(s, e)[f] = s[f]
          /\ Append(s, e)[Len(s) + 1] = e
      BY ONLY <3>3, AppendType
    <3>5. Len(s) \in Nat /\ DOMAIN s = 1 .. Len(s) /\ DOMAIN flashes' = 1 .. Len(s) + 1
      BY ONLY <3>2, <3>3, <3>4
    <3> QED BY ONLY <3>2, <3>4, <3>5
  <2>5. \A m, x : Answers(m, x)' <=> Answers(m, x)
    BY <2>2, AnswersKept
  <2>6. \A m, x : (Found(m, x) => Found(m, x)') /\ (FoundOn(m) => FoundOn(m)')
    BY <2>4 DEF Found, FoundOn
  <2>7. \A m, x : m = j /\ x = n => Found(m, x)' /\ FoundOn(m)'
    BY <2>4 DEF Found, FoundOn
  <2>8. \A f \in DOMAIN flashes' : Answers(flashes'[f][1], flashes'[f][2])
    BY <2>3, <2>4 DEF Match, ProbeInv, FoundAnswer
  <2>9. ASSUME NEW m \in Interfaces, NEW x \in ChipIndex, Passed(m, x)' PROVE Considered(m, x)'
    <3>1. CASE Passed(m, x)
      <4>1. Considered(m, x)
        BY <2>2, <3>1 DEF ProbeInv
      <4> QED BY <2>4, <2>5, <2>6, <4>1, CliAssumption DEF Considered
    <3>2. CASE ~Passed(m, x)
      <4>1. m = j /\ startchip <= x /\ x <= n
        BY <1>t, <2>1, <2>2, <2>3, <2>9, <3>2 DEF Passed
      <4>2. CASE x = n
        BY <2>7, <4>1, <4>2 DEF Considered
      <4>3. CASE x # n
        <5>1. ~Match(j, x, startchip)
          BY <1>t, <2>3, <4>1, <4>3
        <5>2. Answers(m, x) => flashchips[x].generic
          BY <4>1, <5>1 DEF Match
        <5> QED BY <2>5, <2>7, <4>1, <5>2 DEF Considered
      <4> QED BY <4>2, <4>3
    <3> QED BY <3>1, <3>2
  <2>10. OnlyTheOneChip'
    BY <2>2 DEF ProbeInv, OnlyTheOneChip, Nothing
  <2>11. FoundAnswer'
    <3> SUFFICES ASSUME NEW f \in DOMAIN flashes'
                 PROVE  Answers(flashes[f][1], flashes[f][2])'
      BY DEF FoundAnswer
    <3>1. Answers(flashes'[f][1], flashes'[f][2])
      BY <2>8
    <3> QED BY <2>2, <3>1 DEF Answers, Tried, Named, OnBus
  <2>12. Interfaces' = Interfaces /\ done = Nothing
    BY <2>2 DEF Interfaces, ProbeInv
  <2>13. FoundOn(j)'
    BY <2>2, <2>4 DEF FoundOn
  <2> QED BY <2>2, <2>9, <2>10, <2>11, <2>12, <2>13 DEF ProbeInv
<1>10. CASE NextInterface
  <2>1. /\ pc = "probe" /\ pc' = pc /\ j' = j + 1 /\ startchip' = 1 /\ j \in Interfaces
        /\ Len(flashes) >= MAX_CHIPS \/ ProbeFlash(j, startchip) = {}
        /\ UNCHANGED <<chip_to_probe, registered_programmers, answers, flashes, done>>
    BY <1>10 DEF NextInterface
  <2>2. Interfaces' = Interfaces /\ \A m, n : Considered(m, n)' <=> Considered(m, n)
    BY <2>1, ConsideredKept, AnswersKept
  <2>3. ASSUME NEW m \in Interfaces, NEW x \in ChipIndex, Passed(m, x)' PROVE Considered(m, x)
    <3>1. CASE Passed(m, x)
      BY <2>1, <3>1 DEF ProbeInv
    <3>2. CASE ~Passed(m, x)
      <4>1. m = j /\ startchip <= x
        BY <1>t, <2>1, <2>3, <3>2 DEF Passed
      <4>2. CASE Len(flashes) >= MAX_CHIPS
        BY <4>2 DEF Considered
      <4>3. CASE ProbeFlash(j, startchip) = {}
        <5>1. ~Match(m, x, startchip)
          BY <1>t, <4>1, <4>3, FirstMatch
        <5>2. startchip # 1 => FoundOn(j)
          BY <2>1 DEF ProbeInv
        <5> QED BY <4>1, <5>1, <5>2 DEF Match, Considered
      <4> QED BY <2>1, <4>2, <4>3
    <3> QED BY <3>1, <3>2
  <2>4. FoundAnswer'
    BY <2>1, FoundKept DEF ProbeInv
  <2>5. OnlyTheOneChip' /\ done = Nothing
    BY <2>1 DEF ProbeInv, OnlyTheOneChip, Nothing
  <2> QED BY <2>1, <2>2, <2>3, <2>4, <2>5 DEF ProbeInv
<1>11. CASE Choose
  <2>1. /\ pc = "probe" /\ j \notin Interfaces
        /\ UNCHANGED <<chip_to_probe, registered_programmers, answers, flashes, done, operation,
                       force>>
    BY <1>11 DEF Choose
  <2>2. CASE pc' = "out_shutdown"
    BY <1>e, <2>1, <2>2
  <2>3. CASE pc' # "out_shutdown"
    <3>1. \/ pc' = "check_size" /\ Len(flashes) = 1
          \/ pc' = "forced_read" /\ flashes = << >> /\ operation = "-r" /\ force
      BY <1>11, <2>3 DEF Choose
    <3>2. ASSUME NEW m \in Interfaces, NEW n \in ChipIndex PROVE Considered(m, n)
      <4>1. CASE j = 0 \/ j > Len(registered_programmers)
        <5>1. Passed(m, n)
          BY <1>t, <4>1 DEF Passed
        <5> QED BY <2>1, <5>1 DEF ProbeInv
      <4> QED BY <1>t, <2>1, <4>1
    <3>3. Interfaces' = Interfaces /\ \A m, n : Considered(m, n)' <=> Considered(m, n)
      BY <2>1, ConsideredKept, AnswersKept
    <3>4. FoundAnswer'
      BY <2>1, FoundKept DEF ProbeInv
    <3>5. OnlyTheOneChip' /\ done = Nothing
      BY <2>1 DEF ProbeInv, OnlyTheOneChip, Nothing
    <3> QED BY <2>1, <3>1, <3>2, <3>3, <3>4, <3>5 DEF ProbeInv
  <2> QED BY <2>2, <2>3
<1>12. CASE ForcedRead
  <2>1. /\ pc = "forced_read" /\ pc' = "out_shutdown"
        /\ UNCHANGED <<chip_to_probe, registered_programmers, answers, flashes, operation, force>>
    BY <1>12 DEF ForcedRead
  <2>2. CASE done' = done
    BY <1>e, <2>1, <2>2
  <2>3. CASE done' # done
    <3>1. PICK chip \in ForcedChip : done'.op = operation /\ done'.chip = chip
      BY <1>12, <2>3 DEF ForcedRead
    <3>2. PICK iface \in Interfaces, c \in ChipIndex : chip = <<iface, c>>
      BY DEF ForcedChip
    <3>3. OnlyTheOneChip'
      BY <2>1, <3>1, <3>2, DoneRight DEF ProbeInv
    <3>4. FoundAnswer'
      BY <2>1, FoundKept DEF ProbeInv
    <3> QED BY <2>1, <3>3, <3>4 DEF ProbeInv
  <2> QED BY <2>2, <2>3
<1>13. CASE CheckSize
  <2>1. /\ pc = "check_size" /\ pc' \in {"out_shutdown", "doit"}
        /\ UNCHANGED <<chip_to_probe, registered_programmers, answers, flashes, done, operation,
                       force>>
    BY <1>13 DEF CheckSize
  <2>2. CASE pc' = "out_shutdown"
    BY <1>e, <2>1, <2>2
  <2>3. CASE pc' = "doit"
    <3>1. Interfaces' = Interfaces /\ \A m, n : Considered(m, n)' <=> Considered(m, n)
      BY <2>1, ConsideredKept, AnswersKept
    <3>2. FoundAnswer'
      BY <2>1, FoundKept DEF ProbeInv
    <3>3. OnlyTheOneChip' /\ done = Nothing
      BY <2>1 DEF ProbeInv, OnlyTheOneChip, Nothing
    <3> QED BY <2>1, <2>3, <3>1, <3>2, <3>3 DEF ProbeInv
  <2> QED BY <2>1, <2>2, <2>3
<1>14. CASE Doit
  <2>1. /\ pc = "doit" /\ pc' = "exit"
        /\ UNCHANGED <<chip_to_probe, registered_programmers, answers, flashes, operation, force>>
    BY <1>14 DEF Doit
  <2>2. CASE done' = done
    BY <1>e, <2>1, <2>2
  <2>3. CASE done' # done
    <3>1. done'.op = operation /\ done'.chip = flashes[1]
      BY <1>14, <2>3 DEF Doit
    <3>2. PICK iface \in Interfaces, c \in ChipIndex : flashes[1] = <<iface, c>>
      <4>1. 1 \in DOMAIN flashes
        BY <1>t, <2>1 DEF ProbeInv
      <4>2. \A S : \A s \in Seq(S) : \A f \in DOMAIN s : s[f] \in S
        OBVIOUS
      <4>3. flashes[1] \in Interfaces \X ChipIndex
        BY <1>t, <4>1, <4>2, Zenon
      <4> QED BY <4>3
    <3>3. OnlyTheOneChip'
      BY <2>1, <3>1, <3>2, DoneRight DEF ProbeInv
    <3>4. FoundAnswer'
      BY <2>1, FoundKept DEF ProbeInv
    <3> QED BY <2>1, <3>3, <3>4 DEF ProbeInv
  <2> QED BY <2>2, <2>3
<1>15. CASE OutShutdown
  <2>1. /\ pc' = "exit"
        /\ UNCHANGED <<chip_to_probe, registered_programmers, answers, flashes, done, force>>
    BY <1>15 DEF OutShutdown
  <2>2. \A m, n : Answers(m, n)' <=> Answers(m, n)
    BY <2>1, AnswersKept
  <2>3. FoundAnswer'
    BY <2>1, FoundKept DEF ProbeInv
  <2> QED BY <2>1, <2>2, <2>3 DEF ProbeInv, OnlyTheOneChip, Interfaces
<1>16. CASE UNCHANGED vars
  <2>1. UNCHANGED <<chip_to_probe, registered_programmers, answers, flashes, done, force, operation,
                    pc, j, startchip>>
    BY <1>16 DEF vars
  <2>2. \A m, n : /\ Answers(m, n)' <=> Answers(m, n)
                  /\ Considered(m, n)' <=> Considered(m, n)
                  /\ FoundOn(m)' <=> FoundOn(m)
                  /\ Passed(m, n)' <=> Passed(m, n)
    BY <2>1, AnswersKept, ConsideredKept DEF Passed
  <2>3. FoundAnswer' <=> FoundAnswer
    BY <2>1, FoundKept
  <2>4. OnlyTheOneChip' <=> OnlyTheOneChip
    BY <2>1, <2>2 DEF OnlyTheOneChip, Interfaces
  <2> QED BY <2>1, <2>2, <2>3, <2>4 DEF ProbeInv, Interfaces
<1> QED BY <1>1, <1>2, <1>3, <1>4, <1>5, <1>6, <1>7, <1>8, <1>9, <1>10, <1>11, <1>12, <1>13,
           <1>14, <1>15, <1>16 DEF Next, Step, Terminated

(* With two candidates nothing is done; a generic entry neither hides nor   *)
(* doubles a specific one; only a read is done without a chip that answers. *)
THEOREM OneChip == Spec => []OnlyTheOneChip
<1>1. ProbeInv => OnlyTheOneChip
  BY DEF ProbeInv
<1> QED BY <1>1, TypeInit, TypeStep, ProbeInit, ProbeStep, PTL DEF Spec

-----------------------------------------------------------------------------
(* Only as asked.                                                           *)

Upto == Len(cmdline) - Len(argv)

(* What the first options of the command line have left in the variables.   *)
Parsed ==
  /\ operation = "none" => \A n \in 1 .. Upto : cmdline[n].opt \notin Operations
  /\ operation # "none" =>
       \E p \in 1 .. Upto : /\ cmdline[p].opt = operation
                            /\ \A n \in 1 .. Upto : cmdline[n].opt \in Operations => n = p
  /\ dont_verify_it <=> \E n \in 1 .. Upto : cmdline[n].opt = "-n"
  /\ force <=> \E n \in 1 .. Upto : cmdline[n].opt = "-f"
  /\ ~(operation = "-v" /\ dont_verify_it)
  /\ \A n \in 1 .. Upto : cmdline[n].opt = "-c" =>
       \/ \E m \in 1 .. Upto : n < m /\ cmdline[m].opt = "-c"
       \/ chip_to_probe = cmdline[n].arg

(* argv is the rest of the command line.                                    *)
Rest ==
  /\ Upto \in Nat
  /\ \A n \in 1 .. Len(argv) : argv[n] = cmdline[Upto + n]
  /\ \A n \in 1 .. Len(cmdline) : cmdline[n].arg # NoChip

Allowed(iface, k) == force \/ ~CheckMaxDecode(iface, k)

DoneOnce ==
  done.op # "none" =>
    /\ argv = << >> /\ done.op = operation
    /\ done.verify <=> (operation = "-v" \/ (operation = "-w" /\ ~dont_verify_it))
    /\ done.chip \in Interfaces \X ChipIndex
    /\ Named(done.chip[2]) /\ Allowed(done.chip[1], done.chip[2])

AskedInv ==
  /\ Rest /\ Parsed
  /\ pc \notin {"getopt", "exit"} => argv = << >>
  /\ pc = "doit" => operation # "none" /\ Allowed(flashes[1][1], flashes[1][2])
  /\ DoneOnce

LEMMA AskedInit == Init => AskedInv
<1> SUFFICES ASSUME Init PROVE AskedInv
  OBVIOUS
<1>1. argv \in Seq(Option) /\ cmdline = argv /\ \A n \in DOMAIN argv : argv[n].arg # NoChip
  BY CliAssumption DEF Init
<1>2. Len(argv) \in Nat /\ DOMAIN argv = 1 .. Len(argv)
  BY <1>1
<1>3. Upto = 0 /\ Rest
  BY <1>1, <1>2 DEF Rest, Upto
<1>4. 1 .. Upto = {}
  BY <1>3
<1>5. Parsed
  BY <1>4 DEF Init, Parsed
<1> QED BY <1>3, <1>5 DEF Init, AskedInv, DoneOnce, Nothing

(* One option is taken from argv.                                           *)
LEMMA OneMore ==
  ASSUME TypeOK, Rest, argv # << >>, argv' = Tail(argv), cmdline' = cmdline
  PROVE  /\ Upto' = Upto + 1 /\ Upto \in Nat /\ Rest' /\ cmdline[Upto + 1] = Head(argv)
         /\ Head(argv) \in Option
         /\ \A n : n \in 1 .. Upto + 1 <=> n \in 1 .. Upto \/ n = Upto + 1
         /\ \A n \in 1 .. Upto : n < Upto + 1
<1>1. argv \in Seq(Option) /\ cmdline \in Seq(Option)
  BY DEF TypeOK
<1>2. /\ Head(argv) = argv[1] /\ Head(argv) \in Option /\ Len(Tail(argv)) = Len(argv) - 1
      /\ \A n \in 1 .. Len(argv) - 1 : Tail(argv)[n] = argv[n + 1]
  BY <1>1, TailType
<1>3. Len(argv) \in Nat \ {0} /\ Len(cmdline) \in Nat
  BY <1>1
<1>4. Upto' = Upto + 1 /\ Upto \in Nat
  BY <1>2, <1>3 DEF Rest, Upto
<1>5. cmdline[Upto + 1] = Head(argv)
  BY <1>2, <1>3 DEF Rest
<1>6. Rest'
  BY <1>2, <1>3, <1>4 DEF Rest
<1> QED BY <1>2, <1>4, <1>5, <1>6

LEMMA AskedStep == TypeOK /\ ProbeInv /\ AskedInv /\ [Next]_vars => AskedInv'
<1> SUFFICES ASSUME TypeOK, ProbeInv, AskedInv, [Next]_vars PROVE AskedInv'
  OBVIOUS
<1> USE DEF options, machine, probing, Goto, GotoOut, GotoOutShutdown, AbortUsage
<1>i. /\ Rest /\ Parsed /\ DoneOnce
      /\ pc \notin {"getopt", "exit"} => argv = << >>
      /\ pc \notin {"out_shutdown", "exit"} => done = Nothing
  BY DEF AskedInv, ProbeInv
(* The next option is taken, or main() stops.                               *)
<1>o. ASSUME pc = "getopt", pc' \in {"getopt", "init", "exit"}, done' = done, Rest', Parsed',
             pc' = "init" => argv' = << >>
      PROVE  AskedInv'
  BY <1>i, <1>o DEF AskedInv, DoneOnce, Nothing
<1>s. ASSUME UNCHANGED <<options, cmdline>> PROVE Rest' /\ Parsed'
  <2>1. Upto' = Upto
    BY <1>s DEF Upto
  <2>2. Rest'
    BY <1>i, <1>s, <2>1 DEF Rest
  <2>3. Parsed'
    BY <1>i, <1>s, <2>1 DEF Parsed
  <2> QED BY <2>2, <2>3
(* The programmer and the chips are looked at; nothing is done yet.         *)
<1>n. ASSUME UNCHANGED <<options, cmdline>>, pc \notin {"out_shutdown", "exit"},
             pc' \notin {"getopt", "doit"}, pc # "getopt", done' = done
      PROVE  AskedInv'
  BY <1>i, <1>s, <1>n DEF AskedInv, DoneOnce, Nothing
<1>a. ASSUME UNCHANGED <<options, machine>>
      PROVE  \A m, n : /\ Named(n)' <=> Named(n)
                       /\ Allowed(m, n)' <=> Allowed(m, n)
                       /\ Interfaces' = Interfaces
  BY <1>a DEF Named, Allowed, CheckMaxDecode, Interfaces
(* Something is done.                                                       *)
<1>d. ASSUME UNCHANGED <<options, machine>>, pc \notin {"getopt", "exit"},
             pc' \in {"out_shutdown", "exit"},
             NEW iface \in Interfaces, NEW c \in ChipIndex, done'.op = operation,
             done'.verify <=> (operation = "-v" \/ (operation = "-w" /\ ~dont_verify_it)),
             done'.chip = <<iface, c>>, Named(c), Allowed(iface, c)
      PROVE  AskedInv'
  <2>1. Rest' /\ Parsed' /\ argv' = << >>
    BY <1>i, <1>d, <1>s
  <2>2. Named(c)' /\ Allowed(iface, c)' /\ Interfaces' = Interfaces
    BY <1>a, <1>d
  <2>3. DoneOnce'
    BY <1>d, <2>1, <2>2 DEF DoneOnce, Named, Allowed, CheckMaxDecode
  <2> QED BY <1>d, <2>1, <2>3 DEF AskedInv
<1>1. CASE SpecifyOperation
  <2>1. CASE operation' = operation /\ argv' = argv /\ pc' = "exit"
    BY <1>1, <1>o, <1>s, <2>1 DEF SpecifyOperation
  <2>2. CASE operation = "none" /\ operation' = Head(argv).opt /\ argv' = Tail(argv)
    <3>1. /\ argv # << >> /\ cmdline' = cmdline /\ pc = "getopt" /\ done' = done
          /\ Head(argv).opt \in Operations /\ pc' \in {"getopt", "exit"}
          /\ ~(Head(argv).opt = "-v" /\ dont_verify_it)
          /\ UNCHANGED <<dont_verify_it, force, chip_to_probe>>
      BY <1>1, <2>2 DEF SpecifyOperation, LastOption, Operations
    <3>2. /\ Upto' = Upto + 1 /\ Upto \in Nat /\ Rest' /\ cmdline[Upto + 1] = Head(argv)
          /\ \A n : n \in 1 .. Upto + 1 <=> n \in 1 .. Upto \/ n = Upto + 1
      BY <1>i, <2>2, <3>1, OneMore
    <3>3. Head(argv).opt \notin {"none", "-n", "-f", "-c"}
      BY <3>1 DEF Operations
    <3>4. Parsed'
      BY <1>i, <2>2, <3>1, <3>2, <3>3 DEF Parsed
    <3> QED BY <1>o, <3>1, <3>2, <3>4
  <2> QED BY <1>1, <2>1, <2>2 DEF SpecifyOperation
<1>2. CASE NoVerify
  <2>1. CASE UNCHANGED options /\ pc' = "exit"
    BY <1>2, <1>o, <1>s, <2>1 DEF NoVerify
  <2>2. CASE operation # "-v" /\ dont_verify_it' = TRUE /\ argv' = Tail(argv) /\ pc' = pc
    <3>1. /\ argv # << >> /\ cmdline' = cmdline /\ pc = "getopt" /\ done' = done
          /\ Head(argv).opt = "-n" /\ UNCHANGED <<operation, force, chip_to_probe>>
      BY <1>2, <2>2 DEF NoVerify
    <3>2. /\ Upto' = Upto + 1 /\ Upto \in Nat /\ Rest' /\ cmdline[Upto + 1] = Head(argv)
          /\ \A n : n \in 1 .. Upto + 1 <=> n \in 1 .. Upto \/ n = Upto + 1
      BY <1>i, <2>2, <3>1, OneMore
    <3>3. Parsed'
      BY <1>i, <2>2, <3>1, <3>2 DEF Parsed, Operations
    <3> QED BY <1>o, <2>2, <3>1, <3>2, <3>3
  <2> QED BY <1>2, <2>1, <2>2 DEF NoVerify
<1>3. CASE ForceIt
  <2>1. /\ argv # << >> /\ cmdline' = cmdline /\ pc = "getopt" /\ pc' = pc /\ done' = done
        /\ Head(argv).opt = "-f" /\ UNCHANGED <<operation, dont_verify_it, chip_to_probe>>
        /\ force' = TRUE /\ argv' = Tail(argv)
    BY <1>3 DEF ForceIt
  <2>2. /\ Upto' = Upto + 1 /\ Upto \in Nat /\ Rest' /\ cmdline[Upto + 1] = Head(argv)
        /\ \A n : n \in 1 .. Upto + 1 <=> n \in 1 .. Upto \/ n = Upto + 1
    BY <1>i, <2>1, OneMore
  <2>3. Parsed'
    BY <1>i, <2>1, <2>2 DEF Parsed, Operations
  <2> QED BY <1>o, <2>1, <2>2, <2>3
<1>4. CASE ChipToProbe
  <2>1. /\ argv # << >> /\ cmdline' = cmdline /\ pc = "getopt" /\ pc' = pc /\ done' = done
        /\ Head(argv).opt = "-c" /\ UNCHANGED <<operation, dont_verify_it, force>>
        /\ chip_to_probe' = Head(argv).arg /\ argv' = Tail(argv)
    BY <1>4 DEF ChipToProbe
  <2>2. /\ Upto' = Upto + 1 /\ Upto \in Nat /\ Rest' /\ cmdline[Upto + 1] = Head(argv)
        /\ \A n : n \in 1 .. Upto + 1 <=> n \in 1 .. Upto \/ n = Upto + 1
        /\ \A n \in 1 .. Upto : n < Upto + 1
    BY <1>i, <2>1, OneMore
  <2>3. \A n \in 1 .. Upto + 1 : cmdline[n].opt = "-c" =>
          \/ \E m \in 1 .. Upto + 1 : n < m /\ cmdline[m].opt = "-c"
          \/ chip_to_probe' = cmdline[n].arg
    BY <2>1, <2>2
  <2>4. Parsed'
    <3>1. "-c" \notin Operations
      BY DEF Operations
    <3> QED BY <1>i, <2>1, <2>2, <2>3, <3>1 DEF Parsed
  <2> QED BY <1>o, <2>1, <2>2, <2>4
<1>5. CASE Programmer
  <2>1. CASE UNCHANGED options /\ pc' = "exit"
    BY <1>5, <1>o, <1>s, <2>1 DEF Programmer
  <2>2. CASE argv' = Tail(argv) /\ pc' = pc
    <3>1. /\ argv # << >> /\ cmdline' = cmdline /\ pc = "getopt" /\ done' = done
          /\ Head(argv).opt = "-p"
          /\ UNCHANGED <<operation, dont_verify_it, force, chip_to_probe>>
      BY <1>5, <2>2 DEF Programmer
    <3>2. /\ Upto' = Upto + 1 /\ Upto \in Nat /\ Rest' /\ cmdline[Upto + 1] = Head(argv)
          /\ \A n : n \in 1 .. Upto + 1 <=> n \in 1 .. Upto \/ n = Upto + 1
      BY <1>i, <2>2, <3>1, OneMore
    <3>3. Parsed'
      BY <1>i, <3>1, <3>2 DEF Parsed, Operations
    <3> QED BY <1>o, <2>2, <3>1, <3>2, <3>3
  <2> QED BY <1>5, <2>1, <2>2 DEF Programmer
<1>6. CASE Usage
  BY <1>6, <1>o, <1>s DEF Usage
<1>7. CASE OptionsParsed
  BY <1>7, <1>o, <1>s DEF OptionsParsed
<1>8. CASE CallsProgrammerInit
  BY <1>8, <1>n DEF CallsProgrammerInit
<1>9. CASE ProbeFinds
  BY <1>9, <1>n DEF ProbeFinds
<1>10. CASE NextInterface
  BY <1>10, <1>n DEF NextInterface
<1>11. CASE Choose
  BY <1>11, <1>n DEF Choose
<1>12. CASE ForcedRead
  <2>1. CASE done' = done
    BY <1>12, <1>n, <2>1 DEF ForcedRead
  <2>2. CASE done' # done
    <3>1. /\ pc = "forced_read" /\ pc' = "out_shutdown" /\ UNCHANGED <<options, machine>>
          /\ operation = "-r" /\ force
      BY <1>12, <2>2 DEF ForcedRead, ProbeInv
    <3>2. PICK chip \in ForcedChip : done' = [op |-> operation, verify |-> FALSE, chip |-> chip]
      BY <1>12, <2>2 DEF ForcedRead
    <3>3. PICK iface \in Interfaces, c \in ChipIndex : chip = <<iface, c>> /\ Named(c)
      BY DEF ForcedChip
    <3> QED BY <1>d, <3>1, <3>2, <3>3 DEF Allowed
  <2> QED BY <2>1, <2>2
<1>13. CASE CheckSize
  <2>1. /\ pc = "check_size" /\ UNCHANGED <<options, machine>> /\ flashes' = flashes
        /\ done' = done /\ pc' \in {"out_shutdown", "doit"}
        /\ pc' = "doit" => operation # "none" /\ Allowed(flashes[1][1], flashes[1][2])
    BY <1>13 DEF CheckSize, Allowed
  <2>2. CASE pc' = "out_shutdown"
    BY <1>n, <2>1, <2>2
  <2>3. CASE pc' = "doit"
    <3>1. Allowed(flashes[1][1], flashes[1][2])'
      BY <2>1, <2>3 DEF Allowed, CheckMaxDecode
    <3>2. Rest' /\ Parsed' /\ argv' = << >> /\ done = Nothing
      BY <1>i, <1>s, <2>1
    <3> QED BY <2>1, <2>3, <3>1, <3>2 DEF AskedInv, DoneOnce, Nothing
  <2> QED BY <2>1, <2>2, <2>3
<1>14. CASE Doit
  <2>1. CASE done' = done
    BY <1>14, <1>n, <2>1 DEF Doit
  <2>2. CASE done' # done
    <3>1. /\ pc = "doit" /\ pc' = "exit" /\ UNCHANGED <<options, machine>>
          /\ done'.op = operation /\ done'.chip = flashes[1]
          /\ done'.verify = (operation = "-v" \/ (operation = "-w" /\ ~dont_verify_it))
      BY <1>14, <2>2 DEF Doit
    <3>2. flashes \in Seq(Interfaces \X ChipIndex) /\ 1 \in DOMAIN flashes
      BY <3>1 DEF TypeOK, ProbeInv
    <3>3. \A S : \A s \in Seq(S) : \A f \in DOMAIN s : s[f] \in S
      OBVIOUS
    <3>4. flashes[1] \in Interfaces \X ChipIndex
      BY <3>2, <3>3, Zenon
    <3>5. PICK iface \in Interfaces, c \in ChipIndex : flashes[1] = <<iface, c>>
      BY <3>4
    <3>6. Named(c)
      BY <3>2, <3>5 DEF ProbeInv, FoundAnswer, Answers, Tried
    <3>7. Allowed(iface, c)
      BY <3>1, <3>5 DEF AskedInv
    <3> QED BY <1>d, <3>1, <3>5, <3>6, <3>7
  <2> QED BY <2>1, <2>2
<1>15. CASE OutShutdown
  <2>1. /\ pc' = "exit" /\ UNCHANGED <<options, machine>> /\ done' = done
    BY <1>15 DEF OutShutdown
  <2>2. DoneOnce'
    BY <1>i, <2>1 DEF DoneOnce, Named, Allowed, CheckMaxDecode, Interfaces
  <2> QED BY <1>s, <2>1, <2>2 DEF AskedInv
<1>16. CASE UNCHANGED vars
  <2>1. UNCHANGED <<options, machine>> /\ UNCHANGED <<done, pc, flashes>>
    BY <1>16 DEF vars
  <2>2. DoneOnce'
    BY <1>i, <2>1 DEF DoneOnce, Named, Allowed, CheckMaxDecode, Interfaces
  <2>3. Rest' /\ Parsed'
    BY <1>s, <2>1
  <2> QED BY <2>1, <2>2, <2>3 DEF AskedInv, Allowed, CheckMaxDecode
<1> QED BY <1>1, <1>2, <1>3, <1>4, <1>5, <1>6, <1>7, <1>8, <1>9, <1>10, <1>11, <1>12, <1>13,
           <1>14, <1>15, <1>16 DEF Next, Step, Terminated

LEMMA AskedIsHeeded == TypeOK /\ AskedInv => DoneAsAsked
<1> SUFFICES ASSUME TypeOK, AskedInv, done.op # "none" PROVE OptionsHeeded /\ TooBigNeedsForce
  BY DEF DoneAsAsked, OptionsHeeded, TooBigNeedsForce
<1>1. /\ Rest /\ Parsed /\ argv = << >> /\ done.op = operation /\ operation # "none"
      /\ done.verify <=> (operation = "-v" \/ (operation = "-w" /\ ~dont_verify_it))
      /\ done.chip \in Interfaces \X ChipIndex
      /\ Named(done.chip[2]) /\ Allowed(done.chip[1], done.chip[2])
  BY DEF AskedInv, DoneOnce
<1>2. DOMAIN cmdline = 1 .. Upto
  <2>1. cmdline \in Seq(Option) /\ Len(argv) = 0
    BY <1>1 DEF TypeOK
  <2> QED BY <2>1 DEF Upto
<1>3. PICK p \in DOMAIN cmdline :
        /\ cmdline[p].opt = operation
        /\ \A n \in DOMAIN cmdline : cmdline[n].opt \in Operations => n = p
  BY <1>1, <1>2 DEF Parsed
<1>4. operation \in Operations
  BY <1>1 DEF TypeOK
<1>5. Given(operation) = {p} /\ UNION {Given(opt) : opt \in Operations} = {p}
  BY <1>3, <1>4 DEF Given
<1>6. Cardinality({p}) = 1
  BY FS_Singleton
<1>7. (Given("-n") = {} <=> ~dont_verify_it) /\ (Given("-f") = {} <=> ~force)
  BY <1>1, <1>2 DEF Given, Parsed
<1>8. \A n \in Given("-c") : \/ \E m \in Given("-c") : n < m
                              \/ flashchips[done.chip[2]].name = cmdline[n].arg
  <2>1. \A n \in Given("-c") : \/ \E m \in Given("-c") : n < m
                                \/ chip_to_probe = cmdline[n].arg
    BY <1>1, <1>2 DEF Given, Parsed
  <2>2. \A n \in Given("-c") : cmdline[n].arg # NoChip
    BY <1>1, <1>2 DEF Given, Rest, Upto
  <2> QED BY <1>1, <2>1, <2>2 DEF Named
<1>9. OptionsHeeded
  BY <1>1, <1>5, <1>6, <1>7, <1>8 DEF OptionsHeeded, Parsed
<1>10. TooBigNeedsForce
  <2> SUFFICES ASSUME ~force,
                      NEW b \in registered_programmers[done.chip[1]]
                                \cap flashchips[done.chip[2]].bustype
               PROVE  flashchips[done.chip[2]].size <= max_rom_decode[b]
    BY <1>7 DEF TooBigNeedsForce
  <2>1. ~(max_rom_decode[b] < flashchips[done.chip[2]].size)
    BY <1>1 DEF Allowed, CheckMaxDecode
  <2>2. \A S : \A s \in Seq(S) : \A f \in DOMAIN s : s[f] \in S
    OBVIOUS
  <2>3. done.chip[1] \in DOMAIN registered_programmers /\ done.chip[2] \in DOMAIN flashchips
    BY <1>1 DEF Interfaces, ChipIndex
  <2>4. registered_programmers[done.chip[1]] \in SUBSET Buses
    BY <2>2, <2>3, Zenon DEF TypeOK
  <2>5. flashchips[done.chip[2]] \in Chip
    BY <2>2, <2>3, CliAssumption, Zenon
  <2>6. max_rom_decode[b] \in Nat /\ flashchips[done.chip[2]].size \in Nat
    BY <2>4, <2>5 DEF TypeOK, Chip
  <2> QED BY <2>1, <2>6
<1> QED BY <1>9, <1>10

(* What is done is what the options say, in whichever order they come, on a *)
(* chip of the right name that is not too big without -f.                   *)
THEOREM AsAsked == Spec => []DoneAsAsked
BY TypeInit, TypeStep, ProbeInit, ProbeStep, AskedInit, AskedStep, AskedIsHeeded, PTL DEF Spec

-----------------------------------------------------------------------------
(* The ROM layout (Layout), for every chip size, layout file and list of    *)
(* -i arguments.                                                            *)

USE DEF Addr, UInt

LEMMA LayoutAppend ==
  ASSUME NEW S, NEW s \in Seq(S), NEW e \in S
  PROVE  Append(s, e) \in Seq(S) /\ Len(Append(s, e)) = Len(s) + 1 /\ Len(s) \in Nat
OBVIOUS

LEMMA ElementType ==
  ASSUME NEW S, NEW s \in Seq(S), NEW n \in DOMAIN s
  PROVE  s[n] \in S
OBVIOUS

LEMMA EntryType ==
  ASSUME rom_entries \in Seq(RomEntry), NEW n \in DOMAIN rom_entries
  PROVE  /\ rom_entries[n].name \in Names
         /\ rom_entries[n].start \in UInt /\ rom_entries[n].end \in UInt
         /\ [rom_entries[n] EXCEPT !.included = TRUE] \in RomEntry
<1>1. rom_entries[n] \in RomEntry
  BY ElementType
<1>2. \A e \in RomEntry : /\ e.name \in Names /\ e.start \in UInt /\ e.end \in UInt
                          /\ [e EXCEPT !.included = TRUE] \in RomEntry
  BY DEF RomEntry
<1> QED BY <1>1, <1>2

LEMMA ReplaceType ==
  ASSUME NEW S, NEW s \in Seq(S), NEW n \in DOMAIN s, NEW e \in S
  PROVE  [s EXCEPT ![n] = e] \in Seq(S) /\ Len([s EXCEPT ![n] = e]) = Len(s)
OBVIOUS

LEMMA LayoutTypeInit == LayoutInit => LayoutTypes
BY LayoutAssumption DEF LayoutInit, LayoutTypes

LEMMA LayoutTypeStep == LayoutTypes /\ [LayoutNext]_layoutVars => LayoutTypes'
<1> SUFFICES ASSUME LayoutTypes, [LayoutNext]_layoutVars PROVE LayoutTypes'
  OBVIOUS
<1> USE DEF LayoutTypes
<1>1. CASE RegisterIncludeArg
  <2>1. CASE layoutpc' = "abort"
    BY <1>1, <2>1 DEF RegisterIncludeArg
  <2>2. CASE layoutpc' # "abort"
    <3>1. Head(args) \in Names /\ Tail(args) \in Seq(Names)
      BY <1>1 DEF RegisterIncludeArg
    <3>2. Len(include_args) < MAX_ROMLAYOUT /\ include_args' = Append(include_args, Head(args))
      BY <1>1, <2>2, LayoutAssumption DEF RegisterIncludeArg
    <3>3. include_args' \in Seq(Names) /\ Len(include_args') <= MAX_ROMLAYOUT
      BY <3>1, <3>2, LayoutAppend, LayoutAssumption
    <3> QED BY <1>1, <2>2, <3>1, <3>3 DEF RegisterIncludeArg
  <2> QED BY <2>1, <2>2
<1>2. CASE IncludesRegistered
  BY <1>2 DEF IncludesRegistered
<1>3. CASE ReadRomlayout
  <2>1. CASE layoutpc' = "abort"
    BY <1>3, <2>1 DEF ReadRomlayout
  <2>2. CASE layoutpc' # "abort"
    <3>1. Head(layoutfile) \in Line /\ Tail(layoutfile) \in Seq(Line)
      BY <1>3 DEF ReadRomlayout
    <3> DEFINE entry == [name |-> Head(layoutfile).name, start |-> Head(layoutfile).start,
                         end |-> Head(layoutfile).end, included |-> FALSE]
    <3>2. entry \in RomEntry
      BY <3>1 DEF Line, RomEntry
    <3>3. rom_entries' = Append(rom_entries, entry) /\ Len(rom_entries) < MAX_ROMLAYOUT
      BY <1>3, <2>2, LayoutAssumption DEF ReadRomlayout
    <3> HIDE DEF entry
    <3>4. rom_entries' \in Seq(RomEntry) /\ Len(rom_entries') <= MAX_ROMLAYOUT
      BY <3>2, <3>3, LayoutAppend, LayoutAssumption
    <3>5. layoutfile' = Tail(layoutfile) /\ layoutpc' = layoutpc
      BY <1>3, <2>2 DEF ReadRomlayout
    <3>6. UNCHANGED <<args, include_args, i, newcontents, start, asked>>
      BY <1>3 DEF ReadRomlayout
    <3> QED BY <3>1, <3>4, <3>5, <3>6
  <2> QED BY <2>1, <2>2
<1>4. CASE LayoutRead
  BY <1>4 DEF LayoutRead
<1>5. CASE ProcessIncludeArg
  <2>1. CASE layoutpc' = "abort"
    BY <1>5, <2>1 DEF ProcessIncludeArg
  <2>2. CASE layoutpc' # "abort"
    <3>1. PICK n \in DOMAIN rom_entries :
            rom_entries' = [rom_entries EXCEPT ![n].included = TRUE] /\ i' = i + 1
      BY <1>5, <2>2 DEF ProcessIncludeArg, EntryNamed
    <3>2. [rom_entries[n] EXCEPT !.included = TRUE] \in RomEntry
      BY EntryType
    <3>3. rom_entries' \in Seq(RomEntry) /\ Len(rom_entries') = Len(rom_entries)
      BY <3>1, <3>2, ReplaceType
    <3>4. /\ UNCHANGED <<layoutfile, args, include_args, newcontents, start, asked>>
          /\ layoutpc' = layoutpc
      BY <1>5, <2>2 DEF ProcessIncludeArg
    <3>5. i' \in Nat \ {0}
      BY <3>1
    <3> QED BY <3>3, <3>4, <3>5
  <2> QED BY <2>1, <2>2
<1>6. CASE IncludeArgsProcessed
  BY <1>6 DEF IncludeArgsProcessed
<1>7. CASE NothingIncluded
  BY <1>7 DEF NothingIncluded
<1>8. CASE SkipRegion
  <2>1. PICK n \in DOMAIN rom_entries : start' = Behind(rom_entries[n].end)
    BY <1>8 DEF SkipRegion, NextIncluded, Live
  <2>2. start' \in UInt
    <3>1. rom_entries[n].end \in UInt
      BY EntryType
    <3> QED BY <2>1, <3>1, LayoutAssumption DEF Behind
  <2>3. newcontents' \in [Addr -> {"image", "chip"}]
    BY <1>8 DEF SkipRegion, KeepOld
  <2> QED BY <1>8, <2>2, <2>3 DEF SkipRegion
<1>9. CASE KeepRest
  BY <1>9 DEF KeepRest, KeepOld
<1>10. CASE RomentriesHandled
  BY <1>10 DEF RomentriesHandled
<1>11. CASE UNCHANGED layoutVars
  BY <1>11 DEF layoutVars
<1> QED BY <1>1, <1>2, <1>3, <1>4, <1>5, <1>6, <1>7, <1>8, <1>9, <1>10, <1>11
        DEF LayoutNext, LayoutStep, LayoutOver

(* Every variable keeps its type; neither table grows past its size.        *)
THEOREM LayoutTyping == LayoutSpec => []LayoutTypes
BY LayoutTypeInit, LayoutTypeStep, PTL DEF LayoutSpec

-----------------------------------------------------------------------------
(* get_next_included_romentry() skips no byte of an included region.        *)
LEMMA NothingSkipped ==
  ASSUME LayoutTypes, NEW n \in NextIncluded(start), NEW a \in Addr,
         start <= a, a < rom_entries[n].start
  PROVE  ~InRegion(a)
<1> SUFFICES ASSUME NEW m \in DOMAIN rom_entries, rom_entries[m].included,
                    Covers(rom_entries[m], a)
             PROVE  FALSE
  BY DEF InRegion
<1>1. /\ rom_entries[m].start \in UInt /\ rom_entries[m].end \in UInt
      /\ rom_entries[n].start \in UInt /\ start \in UInt
  BY EntryType DEF LayoutTypes, NextIncluded, Live
<1>2. m \in Live(start)
  BY <1>1, LayoutAssumption DEF Live, Covers
<1>3. ~(rom_entries[n].start <= start)
  BY <1>1, LayoutAssumption
<1>4. rom_entries[n].start <= rom_entries[m].start
  BY <1>1, <1>2, <1>3, LayoutAssumption DEF NextIncluded
<1> QED BY <1>1, <1>4, LayoutAssumption DEF Covers

LEMMA LayoutInvInit == LayoutInit => LInv
BY LayoutTypeInit DEF LayoutInit, LInv, NothingKeptYet, LoopInv, UnionOfIncluded

LEMMA LayoutInvStep == LInv /\ [LayoutNext]_layoutVars => LInv'
<1> SUFFICES ASSUME LInv, [LayoutNext]_layoutVars PROVE LInv'
  OBVIOUS
<1>t. LayoutTypes /\ LayoutTypes'
  BY LayoutTypeStep DEF LInv
<1>i. NothingKeptYet /\ LoopInv
  BY DEF LInv
<1>s. SUFFICES NothingKeptYet' /\ LoopInv' /\ UnionOfIncluded'
  BY <1>t DEF LInv
<1> USE DEF NothingKeptYet, LoopInv, UnionOfIncluded
<1>1. CASE RegisterIncludeArg
  BY <1>1, <1>i DEF RegisterIncludeArg
<1>2. CASE IncludesRegistered
  BY <1>2, <1>i DEF IncludesRegistered
<1>3. CASE ReadRomlayout
  BY <1>3, <1>i DEF ReadRomlayout
<1>4. CASE LayoutRead
  BY <1>4, <1>i DEF LayoutRead
<1>5. CASE ProcessIncludeArg
  BY <1>5, <1>i DEF ProcessIncludeArg
<1>6. CASE IncludeArgsProcessed
  BY <1>6, <1>i DEF IncludeArgsProcessed
<1>7. CASE NothingIncluded
  BY <1>7, <1>i DEF NothingIncluded
<1>8. CASE SkipRegion
  <2>1. PICK n \in NextIncluded(start) :
          /\ newcontents' = KeepOld(start .. rom_entries[n].start - 1)
          /\ start' = Behind(rom_entries[n].end)
          /\ layoutpc' = IF start' = 0 THEN "done" ELSE layoutpc
    BY <1>8 DEF SkipRegion
  <2>2. /\ n \in DOMAIN rom_entries /\ rom_entries[n].included
        /\ rom_entries[n].start \in UInt /\ rom_entries[n].end \in UInt
        /\ start \in UInt
    BY <1>t, EntryType DEF NextIncluded, Live, LayoutTypes
  <2>3. \A a \in Addr : InRegion(a)' <=> InRegion(a)
    BY <1>8 DEF SkipRegion, InRegion, Covers
  <2>4. \A a \in Addr : InRegion(a) => newcontents'[a] = "image"
    <3> SUFFICES ASSUME NEW a \in Addr, InRegion(a) PROVE newcontents'[a] = "image"
      OBVIOUS
    <3>1. ~(start <= a /\ a < rom_entries[n].start)
      BY <1>t, NothingSkipped
    <3>2. newcontents[a] = "image"
      BY <1>8, <1>i DEF SkipRegion
    <3> QED BY <2>1, <2>2, <3>1, <3>2 DEF KeepOld
  <2>5. \A a \in Addr : ~InRegion(a) /\ (start' = 0 \/ a < start') => newcontents'[a] = "chip"
    <3> SUFFICES ASSUME NEW a \in Addr, ~InRegion(a), start' = 0 \/ a < start'
                 PROVE  newcontents'[a] = "chip"
      OBVIOUS
    <3>1. CASE a < start
      BY <1>8, <1>i, <2>1, <3>1 DEF SkipRegion, KeepOld
    <3>2. CASE start <= a /\ a < rom_entries[n].start
      BY <2>1, <2>2, <3>2 DEF KeepOld
    <3>3. CASE rom_entries[n].start <= a
      <4>1. a <= rom_entries[n].end
        BY <2>1, <2>2, LayoutAssumption DEF Behind
      <4>2. InRegion(a)
        BY <2>2, <3>3, <4>1 DEF InRegion, Covers
      <4> QED BY <4>2
    <3> QED BY <2>2, <3>1, <3>2, <3>3, LayoutAssumption
  <2> QED BY <1>8, <2>1, <2>3, <2>4, <2>5 DEF SkipRegion
<1>9. CASE KeepRest
  <2>1. \A a \in Addr : InRegion(a)' <=> InRegion(a)
    BY <1>9 DEF KeepRest, InRegion, Covers
  <2>2. \A a \in Addr : start <= a => ~InRegion(a)
    <3> SUFFICES ASSUME NEW a \in Addr, start <= a, NEW m \in DOMAIN rom_entries,
                        rom_entries[m].included, Covers(rom_entries[m], a)
                 PROVE  FALSE
      BY DEF InRegion
    <3>1. rom_entries[m].start \in UInt /\ rom_entries[m].end \in UInt /\ start \in UInt
      BY <1>t, EntryType DEF LayoutTypes
    <3>2. m \in Live(start)
      BY <3>1, LayoutAssumption DEF Live, Covers
    <3> QED BY <1>9, <3>2 DEF KeepRest
  <2>3. \A a \in Addr : newcontents'[a] = "image" <=> InRegion(a)
    <3>1. start \in UInt
      BY <1>t DEF LayoutTypes
    <3> QED BY <1>9, <1>i, <2>2, <3>1, LayoutAssumption DEF KeepRest, KeepOld
  <2> QED BY <1>9, <2>1, <2>3 DEF KeepRest
<1>10. CASE RomentriesHandled
  <2>1. \A a \in Addr : InRegion(a)' <=> InRegion(a)
    BY <1>10 DEF RomentriesHandled, InRegion, Covers
  <2>2. \A a \in Addr : a < start
    BY <1>10, <1>t, LayoutAssumption DEF RomentriesHandled, LayoutTypes
  <2> QED BY <1>10, <1>i, <2>1, <2>2 DEF RomentriesHandled
<1>11. CASE UNCHANGED layoutVars
  <2>1. UnionOfIncluded
    BY DEF LInv
  <2> QED BY <1>11, <1>i, <2>1 DEF layoutVars, InRegion, Covers
<1> QED BY <1>1, <1>2, <1>3, <1>4, <1>5, <1>6, <1>7, <1>8, <1>9, <1>10, <1>11
        DEF LayoutNext, LayoutStep, LayoutOver

(* handle_romentries() takes from the image the union of the included       *)
(* regions and nothing else, whatever the layout.                           *)
THEOREM UnionTaken == LayoutSpec => []UnionOfIncluded
<1>1. LInv => UnionOfIncluded
  BY DEF LInv
<1> QED BY <1>1, LayoutInvInit, LayoutInvStep, PTL DEF LayoutSpec
-----------------------------------------------------------------------------
(* From the -i arguments to the regions. What getopt() has taken of the     *)
(* command line are the arguments registered, in their order.               *)
Registered ==
  /\ Len(asked) = Len(include_args) + Len(args)
  /\ \A n \in DOMAIN include_args : asked[n] = include_args[n]
  /\ \A n \in DOMAIN args : asked[Len(include_args) + n] = args[n]

(* The first k arguments have been processed: their regions, and no other,  *)
(* are included.                                                            *)
Marked(k) ==
  /\ \A x \in 1 .. k : EntryNamed(include_args[x]) # {}
  /\ \A n \in DOMAIN rom_entries :
       rom_entries[n].included <=> \E x \in 1 .. k : n \in EntryNamed(include_args[x])

ArgsInv ==
  /\ layoutpc # "abort" => Registered
  /\ layoutpc \notin {"getopt", "abort"} => args = << >>
  /\ layoutpc \in {"getopt", "read_romlayout"} => i = 1 /\ Marked(0)
  /\ layoutpc = "process_include_args" => i <= Len(include_args) + 1 /\ Marked(i - 1)
  /\ layoutpc \in {"handle_romentries", "done"} => Marked(Len(include_args))

LEMMA MarkedUnchanged ==
  ASSUME UNCHANGED <<rom_entries, include_args>>
  PROVE  \A k : Marked(k)' <=> Marked(k)
BY DEF Marked, EntryNamed

LEMMA RegisteredUnchanged ==
  ASSUME UNCHANGED <<asked, include_args, args>>
  PROVE  Registered' <=> Registered
BY DEF Registered

LEMMA ArgsInit == LayoutInit => ArgsInv
<1> SUFFICES ASSUME LayoutInit PROVE ArgsInv
  OBVIOUS
<1>1. args \in Seq(Names)
  BY LayoutAssumption DEF LayoutInit
<1>2. Registered
  BY <1>1 DEF LayoutInit, Registered
<1>3. Marked(0)
  BY DEF LayoutInit, Marked
<1> QED BY <1>2, <1>3 DEF LayoutInit, ArgsInv

LEMMA ArgsStep == LayoutTypes /\ ArgsInv /\ [LayoutNext]_layoutVars => ArgsInv'
<1> SUFFICES ASSUME LayoutTypes, ArgsInv, [LayoutNext]_layoutVars PROVE ArgsInv'
  OBVIOUS
<1>t. args \in Seq(Names) /\ asked \in Seq(Names) /\ include_args \in Seq(Names)
      /\ rom_entries \in Seq(RomEntry) /\ i \in Nat
  BY DEF LayoutTypes
<1>1. CASE RegisterIncludeArg
  <2>1. CASE layoutpc' = "abort"
    BY <2>1 DEF ArgsInv
  <2>2. CASE layoutpc' # "abort"
    <3>1. include_args' = Append(include_args, Head(args)) /\ args' = Tail(args)
          /\ args # << >> /\ layoutpc = "getopt" /\ layoutpc' = layoutpc
          /\ UNCHANGED <<i, asked, rom_entries>>
      BY <1>1, <2>2 DEF RegisterIncludeArg
    <3>2. /\ Len(include_args') = Len(include_args) + 1
          /\ Len(args') = Len(args) - 1
          /\ Head(args) = args[1]
          /\ 1 \in DOMAIN args
          /\ include_args'[Len(include_args) + 1] = Head(args)
          /\ \A n \in DOMAIN include_args : include_args'[n] = include_args[n]
          /\ DOMAIN include_args' = 1 .. Len(include_args) + 1
          /\ DOMAIN include_args = 1 .. Len(include_args)
          /\ DOMAIN args = 1 .. Len(args)
          /\ DOMAIN args' = 1 .. Len(args) - 1
          /\ \A n \in DOMAIN args' : args'[n] = args[n + 1]
      BY <1>t, <3>1
    <3>3. Registered
      BY <3>1 DEF ArgsInv
    <3>4. Registered'
      <4>1. Len(asked') = Len(include_args') + Len(args')
        BY <1>t, <3>1, <3>2, <3>3 DEF Registered
      <4>2. \A n \in DOMAIN include_args' : asked'[n] = include_args'[n]
        <5>1. asked[Len(include_args) + 1] = args[1]
          BY <3>2, <3>3 DEF Registered
        <5>2. \A n \in DOMAIN include_args : asked[n] = include_args[n]
          BY <3>3 DEF Registered
        <5>3. \A n \in DOMAIN include_args' : n \in DOMAIN include_args \/ n = Len(include_args) + 1
          BY <1>t, <3>2
        <5> QED BY <3>1, <3>2, <5>1, <5>2, <5>3
      <4>3. \A n \in DOMAIN args' : asked'[Len(include_args') + n] = args'[n]
        <5> SUFFICES ASSUME NEW n \in DOMAIN args'
                     PROVE  asked'[Len(include_args') + n] = args'[n]
          OBVIOUS
        <5>1. n \in Nat /\ n + 1 \in DOMAIN args
          BY <1>t, <3>2
        <5>2. asked[Len(include_args) + (n + 1)] = args[n + 1]
          BY <3>3, <5>1 DEF Registered
        <5>3. Len(include_args') + n = Len(include_args) + (n + 1)
          BY <1>t, <3>2, <5>1
        <5> QED BY <3>1, <3>2, <5>2, <5>3
      <4> QED BY <4>1, <4>2, <4>3 DEF Registered
    <3>5. i = 1 /\ Marked(0)
      BY <3>1 DEF ArgsInv
    <3>6. Marked(0)'
      BY <3>1, <3>5 DEF Marked
    <3> QED BY <3>1, <3>4, <3>5, <3>6 DEF ArgsInv
  <2> QED BY <2>1, <2>2
<1>2. CASE IncludesRegistered
  <2>1. UNCHANGED <<rom_entries, include_args, asked, args, i>>
        /\ layoutpc = "getopt" /\ layoutpc' = "read_romlayout" /\ args = << >>
    BY <1>2 DEF IncludesRegistered
  <2> QED BY <2>1, MarkedUnchanged, RegisteredUnchanged DEF ArgsInv
<1>3. CASE ReadRomlayout
  <2>1. CASE layoutpc' = "abort"
    BY <2>1 DEF ArgsInv
  <2>2. CASE layoutpc' # "abort"
    <3> DEFINE entry == [name |-> Head(layoutfile).name, start |-> Head(layoutfile).start,
                         end |-> Head(layoutfile).end, included |-> FALSE]
    <3>1. rom_entries' = Append(rom_entries, entry)
          /\ layoutpc = "read_romlayout" /\ layoutpc' = layoutpc
          /\ UNCHANGED <<include_args, asked, args, i>>
      BY <1>3, <2>2 DEF ReadRomlayout
    <3>2. ~entry.included
      OBVIOUS
    <3> HIDE DEF entry
    <3>3. \A n \in DOMAIN rom_entries : ~rom_entries[n].included
      BY <3>1 DEF ArgsInv, Marked
    <3>4. \A n \in DOMAIN rom_entries' : rom_entries'[n] = entry \/
             (n \in DOMAIN rom_entries /\ rom_entries'[n] = rom_entries[n])
      BY <1>t, <3>1
    <3>5. Marked(0)'
      BY <3>2, <3>3, <3>4 DEF Marked
    <3> QED BY <3>1, <3>5, RegisteredUnchanged DEF ArgsInv
  <2> QED BY <2>1, <2>2
<1>4. CASE LayoutRead
  <2>1. UNCHANGED <<rom_entries, include_args, asked, args, i>>
        /\ layoutpc = "read_romlayout" /\ layoutpc' = "process_include_args"
    BY <1>4 DEF LayoutRead
  <2>2. i = 1 /\ Marked(0) /\ Registered /\ args = << >>
    BY <2>1 DEF ArgsInv
  <2>3. i - 1 = 0 /\ i <= Len(include_args) + 1
    BY <1>t, <2>2
  <2>4. Marked(i - 1)'
    BY <2>1, <2>2, <2>3, MarkedUnchanged
  <2> QED BY <2>1, <2>2, <2>3, <2>4, RegisteredUnchanged DEF ArgsInv
<1>5. CASE ProcessIncludeArg
  <2>1. CASE layoutpc' = "abort"
    BY <2>1 DEF ArgsInv
  <2>2. CASE layoutpc' # "abort"
    <3>1. PICK n \in EntryNamed(include_args[i]) :
            /\ rom_entries' = [rom_entries EXCEPT ![n].included = TRUE]
            /\ i' = i + 1 /\ layoutpc' = layoutpc
      BY <1>5, <2>2 DEF ProcessIncludeArg
    <3>2. layoutpc = "process_include_args" /\ i <= Len(include_args)
          /\ UNCHANGED <<include_args, asked, args>>
      BY <1>5 DEF ProcessIncludeArg
    <3>3. Marked(i - 1) /\ Registered /\ args = << >>
      BY <3>2 DEF ArgsInv
    <3>4. DOMAIN rom_entries' = DOMAIN rom_entries /\ n \in DOMAIN rom_entries
          /\ rom_entries'[n] = [rom_entries[n] EXCEPT !.included = TRUE]
          /\ \A m \in DOMAIN rom_entries : m # n => rom_entries'[m] = rom_entries[m]
      BY <1>t, <3>1 DEF EntryNamed
    <3>5. \A e \in RomEntry : [e EXCEPT !.included = TRUE].name = e.name
                              /\ [e EXCEPT !.included = TRUE].included
      BY DEF RomEntry
    <3>6. rom_entries[n] \in RomEntry
      BY <1>t, <3>4, ElementType
    <3>7. \A m \in DOMAIN rom_entries : rom_entries'[m].name = rom_entries[m].name
      BY <3>4, <3>5, <3>6
    <3>8. rom_entries'[n].included
      BY <3>4, <3>5, <3>6
    <3>9. \A x : EntryNamed(include_args[x])' = EntryNamed(include_args[x])
      <4>1. \A m \in DOMAIN rom_entries : 1 .. m - 1 \subseteq DOMAIN rom_entries
        BY <1>t
      <4> QED BY <3>2, <3>4, <3>7, <4>1 DEF EntryNamed
    <3>10. \A m \in EntryNamed(include_args[i]) : m = n
      <4> SUFFICES ASSUME NEW m \in EntryNamed(include_args[i]), m # n PROVE FALSE
        OBVIOUS
      <4>1. m \in Nat \ {0} /\ n \in Nat \ {0}
        BY <1>t DEF EntryNamed
      <4>2. rom_entries[m].name = include_args[i] /\ rom_entries[n].name = include_args[i]
        BY DEF EntryNamed
      <4>3. CASE m < n
        <5>1. m \in 1 .. n - 1
          BY <4>1, <4>3
        <5> QED BY <4>2, <5>1 DEF EntryNamed
      <4>4. CASE n < m
        <5>1. n \in 1 .. m - 1
          BY <4>1, <4>4
        <5> QED BY <4>2, <5>1 DEF EntryNamed
      <4> QED BY <4>1, <4>3, <4>4
    <3>11. /\ \A x \in 1 .. i : x \in 1 .. i - 1 \/ x = i
           /\ \A x \in 1 .. i - 1 : x \in 1 .. i
           /\ i \in 1 .. i
           /\ i' - 1 = i /\ i' <= Len(include_args') + 1
      BY <1>t, <3>1, <3>2 DEF LayoutTypes
    <3>12. \A x \in 1 .. i : EntryNamed(include_args[x]) # {}
      BY <3>1, <3>3, <3>11 DEF Marked
    <3>13. \A m \in DOMAIN rom_entries :
             rom_entries'[m].included <=> \E x \in 1 .. i : m \in EntryNamed(include_args[x])
      <4> SUFFICES ASSUME NEW m \in DOMAIN rom_entries
                   PROVE  rom_entries'[m].included
                            <=> \E x \in 1 .. i : m \in EntryNamed(include_args[x])
        OBVIOUS
      <4>1. CASE m = n
        BY <3>1, <3>8, <3>11, <4>1
      <4>2. CASE m # n
        <5>1. rom_entries'[m].included <=> \E x \in 1 .. i - 1 : m \in EntryNamed(include_args[x])
          BY <3>3, <3>4, <4>2 DEF Marked
        <5>2. m \notin EntryNamed(include_args[i])
          BY <3>10, <4>2
        <5> QED BY <3>11, <5>1, <5>2
      <4> QED BY <4>1, <4>2
    <3>14. Marked(i - 1)'
      <4>1. i' - 1 = i
        BY <3>11
      <4>2. \A x \in 1 .. i' - 1 : EntryNamed(include_args[x])' # {}
        BY <3>9, <3>12, <4>1
      <4>3. \A m \in DOMAIN rom_entries' :
              rom_entries'[m].included <=> \E x \in 1 .. i' - 1 : m \in EntryNamed(include_args[x])'
        BY <3>4, <3>9, <3>13, <4>1
      <4> QED BY <4>2, <4>3 DEF Marked
    <3> QED BY <3>1, <3>2, <3>3, <3>11, <3>14, RegisteredUnchanged DEF ArgsInv
  <2> QED BY <2>1, <2>2
<1>6. CASE IncludeArgsProcessed
  <2>1. UNCHANGED <<rom_entries, include_args, asked, args, i>> /\ i > Len(include_args)
        /\ layoutpc = "process_include_args" /\ layoutpc' = "handle_romentries"
    BY <1>6 DEF IncludeArgsProcessed
  <2>2. i <= Len(include_args) + 1 /\ Marked(i - 1) /\ Registered /\ args = << >>
    BY <2>1 DEF ArgsInv
  <2>3. Len(include_args') = i - 1
    BY <1>t, <2>1, <2>2
  <2>4. Marked(Len(include_args))'
    BY <2>1, <2>2, <2>3, MarkedUnchanged
  <2> QED BY <2>1, <2>2, <2>4, RegisteredUnchanged DEF ArgsInv
<1>7. CASE layoutpc = "handle_romentries" /\ layoutpc' \in {"handle_romentries", "done"}
           /\ UNCHANGED <<rom_entries, include_args, asked, args, i>>
  <2>1. Marked(Len(include_args))' <=> Marked(Len(include_args))
    BY <1>7, MarkedUnchanged
  <2> QED BY <1>7, <2>1, RegisteredUnchanged DEF ArgsInv
<1>8. CASE UNCHANGED layoutVars
  <2>1. UNCHANGED <<rom_entries, include_args, asked, args, i, layoutpc>>
    BY <1>8 DEF layoutVars
  <2>2. /\ Marked(0)' <=> Marked(0)
        /\ Marked(i - 1)' <=> Marked(i - 1)
        /\ Marked(Len(include_args))' <=> Marked(Len(include_args))
    BY <2>1, MarkedUnchanged
  <2> QED BY <2>1, <2>2, RegisteredUnchanged DEF ArgsInv
<1>9. NothingIncluded \/ SkipRegion \/ KeepRest \/ RomentriesHandled =>
        layoutpc = "handle_romentries" /\ layoutpc' \in {"handle_romentries", "done"}
        /\ UNCHANGED <<rom_entries, include_args, asked, args, i>>
  BY DEF NothingIncluded, SkipRegion, KeepRest, RomentriesHandled
<1> QED BY <1>1, <1>2, <1>3, <1>4, <1>5, <1>6, <1>7, <1>8, <1>9
        DEF LayoutNext, LayoutStep, LayoutOver

(* With -i, a byte comes from the image exactly if the first region of a    *)
(* name on the command line covers it; flashrom goes no further if a name   *)
(* is not in the layout, is given twice, or there are too many.             *)
THEOREM AskedTaken == LayoutSpec => []OnlyWhatWasAsked
<1>1. LayoutTypes /\ ArgsInv /\ UnionOfIncluded => OnlyWhatWasAsked
  <2> SUFFICES ASSUME LayoutTypes, ArgsInv, UnionOfIncluded, layoutpc = "done", asked # << >>
               PROVE  /\ \A n \in DOMAIN asked : EntryNamed(asked[n]) # {}
                      /\ \A a \in Addr : newcontents[a] = "image" <=>
                           \E n \in DOMAIN asked :
                             \E m \in EntryNamed(asked[n]) : Covers(rom_entries[m], a)
    BY DEF OnlyWhatWasAsked
  <2>1. args = << >> /\ Registered /\ Marked(Len(include_args))
    BY DEF ArgsInv
  <2>2. asked \in Seq(Names) /\ include_args \in Seq(Names)
    BY DEF LayoutTypes
  <2>3. Len(asked) = Len(include_args) /\ DOMAIN asked = 1 .. Len(include_args)
        /\ DOMAIN include_args = 1 .. Len(include_args)
    BY <2>1, <2>2 DEF Registered
  <2>4. \A n \in DOMAIN asked : asked[n] = include_args[n]
    BY <2>1, <2>3 DEF Registered
  <2>5. include_args # << >>
    BY <2>2, <2>3
  <2>6. \A n \in DOMAIN asked : EntryNamed(asked[n]) # {}
    BY <2>1, <2>3, <2>4 DEF Marked
  <2>7. \A a \in Addr : InRegion(a) <=>
          \E n \in DOMAIN asked : \E m \in EntryNamed(asked[n]) : Covers(rom_entries[m], a)
    <3>1. \A name : EntryNamed(name) \subseteq DOMAIN rom_entries
      BY DEF EntryNamed
    <3> QED BY <2>1, <2>3, <2>4, <3>1 DEF InRegion, Marked
  <2> QED BY <2>5, <2>6, <2>7 DEF UnionOfIncluded
<1> QED BY <1>1, LayoutTypeInit, LayoutTypeStep, ArgsInit, ArgsStep, UnionTaken, PTL DEF LayoutSpec

-----------------------------------------------------------------------------
(* The life of a programmer, from programmer_init() to the end of           *)
(* programmer_shutdown(), for every driver, every length of shutdown_fn[]   *)
(* and every set of registers.                                              *)

LEMMA CallsAppend ==
  ASSUME NEW S, NEW s \in Seq(S), NEW e \in S
  PROVE  Append(s, e) \in Seq(S) /\ Len(Append(s, e)) = Len(s) + 1 /\ Len(s) \in Nat
OBVIOUS

LEMMA AppendElements ==
  ASSUME NEW S, NEW s \in Seq(S), NEW e
  PROVE  /\ DOMAIN Append(s, e) = DOMAIN s \cup {Len(s) + 1}
         /\ \A n \in DOMAIN s : Append(s, e)[n] = s[n] /\ n < Len(s) + 1
         /\ Append(s, e)[Len(s) + 1] = e
         /\ Len(s) + 1 \notin DOMAIN s
OBVIOUS

LEMMA FrontType ==
  ASSUME NEW S, NEW s \in Seq(S), s # << >>
  PROVE  /\ SubSeq(s, 1, Len(s) - 1) \in Seq(S)
         /\ Len(SubSeq(s, 1, Len(s) - 1)) = Len(s) - 1
         /\ Len(s) \in Nat /\ Len(s) \in DOMAIN s
<1>1. Len(s) \in Nat \ {0} /\ DOMAIN s = 1 .. Len(s)
  OBVIOUS
<1>2. SubSeq(s, 1, Len(s) - 1) \in Seq(S) /\ Len(SubSeq(s, 1, Len(s) - 1)) = Len(s) - 1
  BY <1>1
<1> QED BY <1>1, <1>2

LEMMA FrontElements ==
  ASSUME NEW S, NEW s \in Seq(S), s # << >>
  PROVE  /\ DOMAIN SubSeq(s, 1, Len(s) - 1) = DOMAIN s \ {Len(s)}
         /\ \A n \in DOMAIN s : n # Len(s) => SubSeq(s, 1, Len(s) - 1)[n] = s[n] /\ n < Len(s)
         /\ \A n \in DOMAIN s : n <= Len(s) /\ n \in Nat
<1>1. Len(s) \in Nat \ {0} /\ DOMAIN s = 1 .. Len(s)
  OBVIOUS
<1>2. /\ DOMAIN SubSeq(s, 1, Len(s) - 1) = 1 .. Len(s) - 1
      /\ \A n \in 1 .. Len(s) - 1 : SubSeq(s, 1, Len(s) - 1)[n] = s[n]
  BY <1>1
<1> QED BY <1>1, <1>2

-----------------------------------------------------------------------------
(* The call init() is at. *)

LEMMA DriverType ==
  ASSUME LifeTypeOK, NEW n \in DOMAIN driver
  PROVE  /\ driver[n].call \in Calls /\ driver[n].access \in SUBSET Accesses
         /\ driver[n].cells \in SUBSET Cells /\ driver[n].closes \in SUBSET Accesses
<1>1. driver \in Seq(Call)
  BY LifecycleAssumption DEF LifeTypeOK
<1>2. driver[n] \in Call
  BY <1>1, ElementType
<1> QED BY <1>2 DEF Call

LEMMA AtType ==
  ASSUME LifeTypeOK, NEW calls, At(calls)
  PROVE  /\ pos \in DOMAIN driver /\ pos \in 1 .. Len(driver) /\ Len(driver) \in Nat
         /\ This.access \in SUBSET Accesses /\ This.cells \in SUBSET Cells
         /\ This.closes \in SUBSET Accesses
<1>1. driver \in Seq(Call)
  BY LifecycleAssumption DEF LifeTypeOK
<1> QED BY <1>1, DriverType DEF At, This

LEMMA DriverDomain ==
  ASSUME LifeTypeOK
  PROVE  DOMAIN driver = 1 .. Len(driver) /\ Len(driver) \in Nat /\ pos \in Nat
<1>1. driver \in Seq(Call)
  BY LifecycleAssumption DEF LifeTypeOK
<1> QED BY <1>1 DEF LifeTypeOK

LEMMA FunctionType ==
  ASSUME LifeTypeOK, NEW calls, At(calls)
  PROVE  Function(This) \in ShutdownFn /\ Undo(This) \in ShutdownFn
BY AtType DEF Function, Undo, ShutdownFn, LifeTypeOK

LEMMA WriteType ==
  ASSUME LifeTypeOK, NEW cells, Write(cells)
  PROVE  /\ regs' \in [Touched(driver) -> Val]
         /\ \A c \in Touched(driver) : c \notin cells => regs'[c] = regs[c]
<1>1. PICK data \in [cells -> Val] :
        regs' = [c \in DOMAIN regs |-> IF c \in cells THEN data[c] ELSE regs[c]]
  BY DEF Write
<1>2. regs \in [Touched(driver) -> Val]
  BY DEF LifeTypeOK
<1>3. DOMAIN regs = Touched(driver) /\ \A c \in Touched(driver) : regs[c] \in Val
  BY <1>2
<1>4. \A c \in cells : data[c] \in Val
  OBVIOUS
<1> QED BY <1>1, <1>3, <1>4

LEMMA RegistersType ==
  ASSUME LifeTypeOK, NEW fn \in ShutdownFn, Registers(fn)
  PROVE  shutdown_fn' \in Seq(ShutdownFn) /\ Len(shutdown_fn') <= SHUTDOWN_MAXFN
<1>1. CASE Refuses
  BY <1>1 DEF Registers, LifeTypeOK
<1>2. CASE ~Refuses
  <2>1. shutdown_fn' = Append(shutdown_fn, fn)
    BY <1>2 DEF Registers
  <2>2. shutdown_fn \in Seq(ShutdownFn) /\ ~(Len(shutdown_fn) >= SHUTDOWN_MAXFN)
    BY <1>2 DEF Refuses, LifeTypeOK
  <2>3. Append(shutdown_fn, fn) \in Seq(ShutdownFn)
        /\ Len(Append(shutdown_fn, fn)) = Len(shutdown_fn) + 1 /\ Len(shutdown_fn) \in Nat
    BY <2>2, CallsAppend
  <2> QED BY <2>1, <2>2, <2>3, LifecycleAssumption
<1> QED BY <1>1, <1>2

LEMMA TopType ==
  ASSUME LifeTypeOK, shutdown_fn # << >>
  PROVE  /\ Len(shutdown_fn) \in DOMAIN shutdown_fn
         /\ Top \in ShutdownFn
         /\ Top.undo \in BOOLEAN /\ Top.cells \in SUBSET Cells
         /\ Top.data \in [Touched(driver) -> Val] /\ Top.closes \in SUBSET Accesses
<1>1. shutdown_fn \in Seq(ShutdownFn)
  BY DEF LifeTypeOK
<1>2. Len(shutdown_fn) \in DOMAIN shutdown_fn
  BY <1>1, FrontType
<1>3. Top \in ShutdownFn
  BY <1>1, <1>2, ElementType DEF Top
<1> QED BY <1>2, <1>3 DEF ShutdownFn

LEMMA PopsType ==
  ASSUME LifeTypeOK, shutdown_fn # << >>, Pops
  PROVE  shutdown_fn' \in Seq(ShutdownFn) /\ Len(shutdown_fn') <= SHUTDOWN_MAXFN
<1>1. shutdown_fn \in Seq(ShutdownFn) /\ Len(shutdown_fn) <= SHUTDOWN_MAXFN
  BY DEF LifeTypeOK
<1>2. /\ SubSeq(shutdown_fn, 1, Len(shutdown_fn) - 1) \in Seq(ShutdownFn)
      /\ Len(SubSeq(shutdown_fn, 1, Len(shutdown_fn) - 1)) = Len(shutdown_fn) - 1
      /\ Len(shutdown_fn) \in Nat
  BY <1>1, FrontType
<1> QED BY <1>1, <1>2, LifecycleAssumption DEF Pops

(* What stays as it is because driver does. *)
LEMMA SameDriver ==
  ASSUME UNCHANGED driver
  PROVE  /\ Touched(driver)' = Touched(driver) /\ Reversible(driver)' = Reversible(driver)
         /\ ShutdownFn' = ShutdownFn /\ InOrder(driver)' = InOrder(driver)
BY DEF Touched, Reversible, CellsOf, ShutdownFn, InOrder, Registering, Opening

LEMMA DriverStays == [LifeNext]_lifeVars => UNCHANGED driver
BY DEF LifeNext, LifeStep, LifeOver, lifeVars, ProgrammerInit, RgetIoPerms, PciInit, OpenDevice,
   ReversibleWrite, ReversibleVal, PlainWrite, SetByHand, RegisterShutdown, RegisterProgrammer,
   BitbangSpiInit, Check, InitSucceeds, Work, RunUndo, RunFunction, ShutdownReturns

LEMMA ReversibleCells ==
  ASSUME LifeTypeOK, At({"rwrite", "rval"})
  PROVE  This.cells \subseteq Reversible(driver)
<1>1. pos \in {m \in DOMAIN driver : driver[m].call \in {"rwrite", "rval"}}
  BY DEF At
<1> QED BY <1>1 DEF This, Reversible, CellsOf

-----------------------------------------------------------------------------
LEMMA LifeTypeInit == LifeInit => LifeTypeOK
<1> SUFFICES ASSUME LifeInit PROVE LifeTypeOK
  OBVIOUS
<1>1. driver \in Seq(Call)
  BY LifecycleAssumption DEF LifeInit
<1>2. Len(driver) \in Nat
  BY <1>1
<1>3. shutdown_fn \in Seq(ShutdownFn) /\ Len(shutdown_fn) <= SHUTDOWN_MAXFN
  <2>1. shutdown_fn = << >>
    BY DEF LifeInit
  <2>2. << >> \in Seq(ShutdownFn) /\ Len(<< >>) = 0
    OBVIOUS
  <2> QED BY <2>1, <2>2, LifecycleAssumption
<1>4. pos \in 1 .. Len(driver) + 1
  BY <1>2 DEF LifeInit
<1>5. registered_programmer_count \in 0 .. PROGRAMMERS_MAX
  BY LifecycleAssumption DEF LifeInit
<1>6. /\ regs \in [Touched(driver) -> Val] /\ own \in [Touched(driver) -> Val]
      /\ original \in [Touched(driver) -> Val]
  BY DEF LifeInit
<1>7. may_register_shutdown \in BOOLEAN /\ open \in SUBSET Accesses
      /\ unsaved \in SUBSET Reversible(driver) /\ driver \in Drivers
      /\ phase \in {"start", "init", "work", "shutdown", "down", "exited"}
  BY DEF LifeInit
<1> QED BY <1>3, <1>4, <1>5, <1>6, <1>7 DEF LifeTypeOK

LEMMA LifeTypeStep == LifeTypeOK /\ [LifeNext]_lifeVars => LifeTypeOK'
<1> SUFFICES ASSUME LifeTypeOK, [LifeNext]_lifeVars PROVE LifeTypeOK'
  OBVIOUS
<1>a. /\ driver' = driver /\ Touched(driver') = Touched(driver)
      /\ Reversible(driver') = Reversible(driver) /\ ShutdownFn' = ShutdownFn
  BY DriverStays, SameDriver
<1>b. /\ driver \in Drivers /\ pos \in 1 .. Len(driver) + 1 /\ Len(driver) \in Nat
      /\ phase \in {"start", "init", "work", "shutdown", "down", "exited"}
      /\ shutdown_fn \in Seq(ShutdownFn) /\ Len(shutdown_fn) <= SHUTDOWN_MAXFN
      /\ may_register_shutdown \in BOOLEAN
      /\ registered_programmer_count \in 0 .. PROGRAMMERS_MAX
      /\ open \in SUBSET Accesses
      /\ regs \in [Touched(driver) -> Val] /\ own \in [Touched(driver) -> Val]
      /\ original \in [Touched(driver) -> Val] /\ unsaved \in SUBSET Reversible(driver)
      /\ PROGRAMMERS_MAX \in Nat /\ Off \in Val
  <2>1. driver \in Seq(Call)
    BY LifecycleAssumption DEF LifeTypeOK
  <2> QED BY <2>1, LifecycleAssumption DEF LifeTypeOK
<1>pos. pos' \in 1 .. Len(driver) + 1
        /\ phase' \in {"start", "init", "work", "shutdown", "down", "exited"}
        /\ may_register_shutdown' \in BOOLEAN
  <2>1. ASSUME NEW calls, At(calls),
               \/ Goes \/ InitFails
               \/ phase' = "exited" /\ UNCHANGED <<pos, may_register_shutdown>>
        PROVE  pos' \in 1 .. Len(driver) + 1
               /\ phase' \in {"start", "init", "work", "shutdown", "down", "exited"}
               /\ may_register_shutdown' \in BOOLEAN
    <3>1. pos \in 1 .. Len(driver)
      BY <2>1, AtType
    <3>2. phase = "init"
      BY <2>1 DEF At
    <3>3. pos' = pos + 1 \/ pos' = pos
      BY <2>1 DEF Goes, InitFails
    <3>4. pos' \in 1 .. Len(driver) + 1
      BY <3>1, <3>3, <1>b
    <3>5. phase' \in {"start", "init", "work", "shutdown", "down", "exited"}
      BY <2>1, <3>2 DEF Goes, InitFails
    <3>6. may_register_shutdown' \in BOOLEAN
      BY <2>1, <1>b, Zenon DEF Goes, InitFails
    <3> QED BY <3>4, <3>5, <3>6
  <2>2. CASE \/ RgetIoPerms \/ PciInit \/ OpenDevice \/ ReversibleWrite \/ ReversibleVal
             \/ PlainWrite \/ SetByHand \/ RegisterShutdown \/ RegisterProgrammer
             \/ BitbangSpiInit \/ Check
    <3>1. /\ At(Calls)
          /\ \/ Goes \/ InitFails
             \/ phase' = "exited" /\ UNCHANGED <<pos, may_register_shutdown>>
      BY <2>2 DEF RgetIoPerms, PciInit, OpenDevice, ReversibleWrite, ReversibleVal, PlainWrite,
         SetByHand, RegisterShutdown, RegisterProgrammer, BitbangSpiInit, Check, At, Calls
    <3> QED BY <2>1, <3>1
  <2>3. CASE \/ ProgrammerInit \/ InitSucceeds \/ Work \/ RunUndo \/ RunFunction
             \/ ShutdownReturns \/ UNCHANGED lifeVars
    BY <2>3, <1>b DEF ProgrammerInit, InitSucceeds, Work, RunUndo, RunFunction, ShutdownReturns,
       lifeVars
  <2> QED BY <2>2, <2>3 DEF LifeNext, LifeStep, LifeOver
<1>fn. shutdown_fn' \in Seq(ShutdownFn) /\ Len(shutdown_fn') <= SHUTDOWN_MAXFN
  <2>1. CASE RgetIoPerms
    <3>1. Registers(Function(This)) \/ shutdown_fn' = shutdown_fn
      BY <2>1 DEF RgetIoPerms
    <3> QED BY <2>1, <3>1, <1>b, FunctionType, RegistersType DEF RgetIoPerms
  <2>2. CASE ReversibleWrite
    BY <2>2, FunctionType, RegistersType DEF ReversibleWrite, Saves
  <2>3. CASE ReversibleVal
    BY <2>3, FunctionType, RegistersType DEF ReversibleVal, Saves
  <2>4. CASE RegisterShutdown
    BY <2>4, FunctionType, RegistersType DEF RegisterShutdown
  <2>5. CASE RunUndo \/ RunFunction
    BY <2>5, PopsType DEF RunUndo, RunFunction
  <2>6. CASE UNCHANGED shutdown_fn
    BY <2>6, <1>b
  <2> QED BY <2>1, <2>2, <2>3, <2>4, <2>5, <2>6 DEF LifeNext, LifeStep, LifeOver, lifeVars,
        ProgrammerInit,
        PciInit, OpenDevice, PlainWrite, SetByHand, RegisterProgrammer, BitbangSpiInit, Check,
        InitSucceeds, Work, ShutdownReturns
<1>count. registered_programmer_count' \in 0 .. PROGRAMMERS_MAX
  <2>1. CASE CountProgrammer
    BY <2>1, <1>b DEF CountProgrammer
  <2>2. CASE UNCHANGED registered_programmer_count
    BY <2>2, <1>b
  <2> QED BY <2>1, <2>2 DEF LifeNext, LifeStep, LifeOver, lifeVars, ProgrammerInit, RgetIoPerms,
        PciInit,
        OpenDevice, ReversibleWrite, ReversibleVal, PlainWrite, SetByHand, RegisterShutdown,
        RegisterProgrammer, BitbangSpiInit, Check, InitSucceeds, Work, RunUndo, RunFunction,
        ShutdownReturns
<1>open. open' \in SUBSET Accesses
  <2>1. ASSUME NEW calls, At(calls), open' = open \cup This.access
        PROVE  open' \in SUBSET Accesses
    BY <2>1, <1>b, AtType
  <2>2. CASE RgetIoPerms \/ PciInit \/ OpenDevice
    <3>1. UNCHANGED open \/ \E calls : At(calls) /\ open' = open \cup This.access
      BY <2>2 DEF RgetIoPerms, PciInit, OpenDevice
    <3> QED BY <3>1, <2>1, <1>b
  <2>3. CASE RunFunction
    BY <2>3, <1>b DEF RunFunction
  <2>4. CASE UNCHANGED open
    BY <2>4, <1>b
  <2> QED BY <2>2, <2>3, <2>4 DEF LifeNext, LifeStep, LifeOver, lifeVars, ProgrammerInit,
        ReversibleWrite, ReversibleVal, PlainWrite, SetByHand, RegisterShutdown,
        RegisterProgrammer, BitbangSpiInit, Check, InitSucceeds, Work, RunUndo,
        ShutdownReturns
<1>regs. regs' \in [Touched(driver) -> Val]
  <2>1. CASE ReversibleWrite \/ PlainWrite \/ SetByHand \/ Work
    <3>1. \E cells : Write(cells)
      BY <2>1 DEF ReversibleWrite, PlainWrite, SetByHand, Work
    <3> QED BY <3>1, WriteType
  <2>2. CASE RunUndo
    <3>1. Top.data \in [Touched(driver) -> Val]
      BY <2>2, TopType DEF RunUndo
    <3> QED BY <2>2, <3>1, <1>b DEF RunUndo
  <2>3. CASE RunFunction
    BY <2>3, <1>b DEF RunFunction
  <2>4. CASE UNCHANGED regs
    BY <2>4, <1>b
  <2> QED BY <2>1, <2>2, <2>3, <2>4 DEF LifeNext, LifeStep, LifeOver, lifeVars, ProgrammerInit,
        RgetIoPerms, PciInit, OpenDevice, ReversibleVal, RegisterShutdown, RegisterProgrammer,
        BitbangSpiInit, Check, InitSucceeds, ShutdownReturns
<1>own. own' \in [Touched(driver) -> Val]
  <2>1. CASE SetByHand
    BY <2>1, <1>b DEF SetByHand
  <2>2. CASE UNCHANGED own
    BY <2>2, <1>b
  <2> QED BY <2>1, <2>2 DEF LifeNext, LifeStep, LifeOver, lifeVars, ProgrammerInit, RgetIoPerms,
        PciInit,
        OpenDevice, ReversibleWrite, ReversibleVal, PlainWrite, RegisterShutdown,
        RegisterProgrammer, BitbangSpiInit, Check, InitSucceeds, Work, RunUndo, RunFunction,
        ShutdownReturns
<1>unsaved. unsaved' \in SUBSET Reversible(driver)
  <2>1. CASE ReversibleWrite \/ ReversibleVal
    <3>1. At({"rwrite", "rval"}) /\ Saves
      BY <2>1 DEF ReversibleWrite, ReversibleVal, At
    <3> QED BY <3>1, ReversibleCells, <1>b DEF Saves
  <2>2. CASE UNCHANGED unsaved
    BY <2>2, <1>b
  <2> QED BY <2>1, <2>2 DEF LifeNext, LifeStep, LifeOver, lifeVars, ProgrammerInit, RgetIoPerms,
        PciInit,
        OpenDevice, PlainWrite, SetByHand, RegisterShutdown,
        RegisterProgrammer, BitbangSpiInit, Check, InitSucceeds, Work, RunUndo, RunFunction,
        ShutdownReturns
<1>original. original' = original
  BY DEF LifeNext, LifeStep, LifeOver, lifeVars, ProgrammerInit, RgetIoPerms, PciInit,
     OpenDevice, ReversibleWrite, ReversibleVal, PlainWrite, SetByHand, RegisterShutdown,
     RegisterProgrammer, BitbangSpiInit, Check, InitSucceeds, Work, RunUndo, RunFunction,
     ShutdownReturns
<1> QED BY <1>a, <1>b, <1>pos, <1>fn, <1>count, <1>open, <1>regs, <1>own, <1>unsaved,
      <1>original DEF LifeTypeOK

(* The state is of its type: shutdown_fn[] never overflows, and what is     *)
(* saved in it covers every register the driver touches.                    *)
THEOREM LifeTyping == LifeSpec => []LifeTypeOK
<1>1. LifeTypeOK /\ [LifeNext]_lifeVars => LifeTypeOK'
  BY LifeTypeStep
<1> QED BY LifeTypeInit, <1>1, PTL DEF LifeSpec

-----------------------------------------------------------------------------
(* What the steps do with shutdown_fn[]. *)

LEMMA RegisterCases ==
  ASSUME LifeTypeOK, NEW fn \in ShutdownFn, Registers(fn)
  PROVE  \/ Refuses /\ shutdown_fn' = shutdown_fn
         \/ /\ ~Refuses
            /\ DOMAIN shutdown_fn' = DOMAIN shutdown_fn \cup {Len(shutdown_fn) + 1}
            /\ Len(shutdown_fn) + 1 \notin DOMAIN shutdown_fn
            /\ \A n \in DOMAIN shutdown_fn : /\ shutdown_fn'[n] = shutdown_fn[n]
                                             /\ n < Len(shutdown_fn) + 1
                                             /\ n \in Nat
            /\ shutdown_fn'[Len(shutdown_fn) + 1] = fn
            /\ Len(shutdown_fn) \in Nat
<1>1. CASE Refuses
  BY <1>1 DEF Registers
<1>2. CASE ~Refuses
  <2>1. shutdown_fn' = Append(shutdown_fn, fn)
    BY <1>2 DEF Registers
  <2>2. shutdown_fn \in Seq(ShutdownFn)
    BY DEF LifeTypeOK
  <2>3. /\ DOMAIN Append(shutdown_fn, fn) = DOMAIN shutdown_fn \cup {Len(shutdown_fn) + 1}
        /\ \A n \in DOMAIN shutdown_fn : /\ Append(shutdown_fn, fn)[n] = shutdown_fn[n]
                                         /\ n < Len(shutdown_fn) + 1
        /\ Append(shutdown_fn, fn)[Len(shutdown_fn) + 1] = fn
        /\ Len(shutdown_fn) + 1 \notin DOMAIN shutdown_fn
    BY <2>2, AppendElements
  <2>4. DOMAIN shutdown_fn \subseteq Nat /\ Len(shutdown_fn) \in Nat
    BY <2>2
  <2> QED BY <1>2, <2>1, <2>3, <2>4
<1> QED BY <1>1, <1>2

LEMMA PopCases ==
  ASSUME LifeTypeOK, shutdown_fn # << >>, Pops
  PROVE  /\ DOMAIN shutdown_fn' = DOMAIN shutdown_fn \ {Len(shutdown_fn)}
         /\ \A n \in DOMAIN shutdown_fn : n # Len(shutdown_fn) =>
              shutdown_fn'[n] = shutdown_fn[n] /\ n < Len(shutdown_fn)
         /\ \A n \in DOMAIN shutdown_fn : n <= Len(shutdown_fn) /\ n \in Nat
         /\ Len(shutdown_fn) \in DOMAIN shutdown_fn
<1>1. shutdown_fn \in Seq(ShutdownFn)
  BY DEF LifeTypeOK
<1>2. shutdown_fn' = SubSeq(shutdown_fn, 1, Len(shutdown_fn) - 1)
  BY DEF Pops
<1> QED BY <1>1, <1>2, FrontElements, TopType

LEMMA NeedsAreOpen ==
  ASSUME LifeTypeOK, IInv, InOrder(driver), At({"rwrite", "rval", "register_shutdown"})
  PROVE  This.access \subseteq open
<1>1. pos \in DOMAIN driver /\ phase = "init" /\ pos \in Nat
  BY DriverDomain DEF At
<1>2. ASSUME NEW a \in This.access PROVE a \in open
  <2>1. PICK m \in 1 .. pos - 1 : driver[m].call \in Opening /\ a \in driver[m].access
    BY <1>1, <1>2 DEF InOrder, This, At
  <2>2. m \in DOMAIN driver /\ m < pos
    BY <2>1, <1>1, AtType DEF LifeTypeOK
  <2> QED BY <2>1, <2>2, <1>1 DEF IInv, OpenedIsOpen
<1> QED BY <1>2

LEMMA ClosesNothingNeeded ==
  ASSUME LifeTypeOK, IInv, InOrder(driver), At({"rget_io_perms", "register_shutdown"})
  PROVE  \A n \in DOMAIN shutdown_fn : shutdown_fn[n].needs \cap This.closes = {}
<1>1. pos \in DOMAIN driver /\ phase = "init" /\ pos <= pos
  BY AtType DEF At
<1> QED BY <1>1 DEF IInv, NothingClosedTooSoon, This, At

LEMMA AccessRegistered ==
  ASSUME LifeTypeOK, IInv, InOrder(driver), NEW fn \in ShutdownFn, Registers(fn),
         UNCHANGED driver, fn.needs \subseteq open', open \subseteq open',
         \A n \in DOMAIN shutdown_fn : shutdown_fn[n].needs \cap fn.closes = {}
  PROVE  AccessOutlivesUse'
<1>1. CASE shutdown_fn' = shutdown_fn
  BY <1>1 DEF IInv, AccessOutlivesUse
<1>2. CASE shutdown_fn' # shutdown_fn
  BY <1>2, RegisterCases DEF IInv, AccessOutlivesUse
<1> QED BY <1>1, <1>2

LEMMA AccessStep == LifeTypeOK /\ IInv /\ [LifeNext]_lifeVars => AccessOutlivesUse'
<1> SUFFICES ASSUME LifeTypeOK, IInv, [LifeNext]_lifeVars, InOrder(driver) PROVE AccessOutlivesUse'
  BY DriverStays, SameDriver DEF AccessOutlivesUse
<1>a. UNCHANGED driver
  BY DriverStays
<1>1. CASE RgetIoPerms
  <2>1. CASE open' = open /\ shutdown_fn' = shutdown_fn
    BY <2>1, <1>a, SameDriver DEF IInv, AccessOutlivesUse
  <2>2. CASE Registers(Function(This)) /\ open' = open \cup This.access
    <3>1. \A n \in DOMAIN shutdown_fn : shutdown_fn[n].needs \cap This.closes = {}
      BY <1>1, ClosesNothingNeeded DEF RgetIoPerms, At
    <3>2. Function(This) \in ShutdownFn
      BY <1>1, FunctionType DEF RgetIoPerms
    <3>3. Function(This).needs = This.access /\ Function(This).closes = This.closes
      BY DEF Function
    <3> QED BY <2>2, <3>1, <3>2, <3>3, <1>a, AccessRegistered
  <2> QED BY <1>1, <2>1, <2>2 DEF RgetIoPerms
<1>2. CASE ReversibleWrite \/ ReversibleVal
  <2>1. At({"rwrite", "rval", "register_shutdown"}) /\ Registers(Undo(This)) /\ open' = open
    BY <1>2 DEF ReversibleWrite, ReversibleVal, Saves, At
  <2>2. Undo(This) \in ShutdownFn
    BY <2>1, FunctionType
  <2>3. Undo(This).needs = This.access /\ Undo(This).closes = {}
    BY DEF Undo
  <2> QED BY <2>1, <2>2, <2>3, <1>a, NeedsAreOpen, AccessRegistered
<1>3. CASE RegisterShutdown
  <2>1. /\ At({"rwrite", "rval", "register_shutdown"})
        /\ At({"rget_io_perms", "register_shutdown"})
        /\ Registers(Function(This)) /\ open' = open
    BY <1>3 DEF RegisterShutdown, At
  <2>2. Function(This) \in ShutdownFn
    BY <2>1, FunctionType
  <2>3. Function(This).needs = This.access /\ Function(This).closes = This.closes
    BY DEF Function
  <2> QED BY <2>1, <2>2, <2>3, <1>a, NeedsAreOpen, ClosesNothingNeeded, AccessRegistered
<1>4. CASE RunUndo
  <2>1. shutdown_fn # << >> /\ Pops /\ open' = open
    BY <1>4 DEF RunUndo
  <2> QED BY <2>1, PopCases, <1>a, SameDriver DEF IInv, AccessOutlivesUse
<1>5. CASE RunFunction
  <2>1. shutdown_fn # << >> /\ Pops /\ open' = open \ shutdown_fn[Len(shutdown_fn)].closes
    BY <1>5 DEF RunFunction, Top
  <2> QED BY <2>1, PopCases, <1>a, SameDriver DEF IInv, AccessOutlivesUse
<1>6. CASE open \subseteq open' /\ shutdown_fn' = shutdown_fn
  BY <1>6, <1>a, SameDriver DEF IInv, AccessOutlivesUse
<1>7. CASE \/ ProgrammerInit \/ PciInit \/ OpenDevice \/ PlainWrite \/ SetByHand
           \/ RegisterProgrammer \/ BitbangSpiInit \/ Check \/ InitSucceeds \/ Work
           \/ ShutdownReturns \/ UNCHANGED lifeVars
  <2>1. open \subseteq open' /\ shutdown_fn' = shutdown_fn
    BY <1>7 DEF ProgrammerInit, PciInit, OpenDevice, PlainWrite, SetByHand, RegisterProgrammer,
       BitbangSpiInit, Check, InitSucceeds, Work, ShutdownReturns, lifeVars
  <2> QED BY <2>1, <1>6
<1> QED BY <1>1, <1>2, <1>3, <1>4, <1>5, <1>7 DEF LifeNext, LifeStep, LifeOver

-----------------------------------------------------------------------------
(* The parts of the invariant that speak of the calls before and after pos. *)

(* While init() runs, it has either not begun or made one call more.        *)
LEMMA InitSteps ==
  ASSUME LifeTypeOK, IInv, [LifeNext]_lifeVars, phase' = "init"
  PROVE  \/ phase = "start" /\ pos' = 1 /\ shutdown_fn' = << >>
         \/ UNCHANGED lifeVars /\ phase = "init"
         \/ At(Calls) /\ phase = "init" /\ pos' = pos + 1 /\ pos \in DOMAIN driver
<1>1. CASE \/ RgetIoPerms \/ PciInit \/ OpenDevice \/ ReversibleWrite \/ ReversibleVal
           \/ PlainWrite \/ SetByHand \/ RegisterShutdown \/ RegisterProgrammer
           \/ BitbangSpiInit \/ Check
  <2>1. At(Calls) /\ Goes
    BY <1>1 DEF RgetIoPerms, PciInit, OpenDevice, ReversibleWrite, ReversibleVal, PlainWrite,
       SetByHand, RegisterShutdown, RegisterProgrammer, BitbangSpiInit, Check, InitFails, At,
       Calls
  <2> QED BY <2>1 DEF At, Goes
<1>2. CASE ProgrammerInit
  BY <1>2 DEF ProgrammerInit, IInv, Phases
<1>3. CASE InitSucceeds \/ Work \/ RunUndo \/ RunFunction \/ ShutdownReturns
  BY <1>3 DEF InitSucceeds, Work, RunUndo, RunFunction, ShutdownReturns
<1>4. CASE UNCHANGED lifeVars
  BY <1>4 DEF lifeVars
<1> QED BY <1>1, <1>2, <1>3, <1>4 DEF LifeNext, LifeStep, LifeOver

LEMMA WorkSteps ==
  ASSUME LifeTypeOK, IInv, [LifeNext]_lifeVars, phase' = "work"
  PROVE  \/ UNCHANGED lifeVars
         \/ InitSucceeds
BY DEF LifeNext, LifeStep, LifeOver, ProgrammerInit, RgetIoPerms, PciInit, OpenDevice,
   ReversibleWrite, ReversibleVal, PlainWrite, SetByHand, RegisterShutdown, RegisterProgrammer,
   BitbangSpiInit, Check, Goes, InitFails, At, Work, RunUndo, RunFunction, ShutdownReturns, lifeVars

LEMMA PhasesStep == LifeTypeOK /\ IInv /\ [LifeNext]_lifeVars => Phases'
<1> SUFFICES ASSUME LifeTypeOK, IInv, [LifeNext]_lifeVars PROVE Phases'
  OBVIOUS
<1>1. phase' # "start" \/ UNCHANGED lifeVars
  BY DEF LifeNext, LifeStep, LifeOver, ProgrammerInit, RgetIoPerms, PciInit, OpenDevice,
     ReversibleWrite, ReversibleVal, PlainWrite, SetByHand, RegisterShutdown,
     RegisterProgrammer, BitbangSpiInit, Check, Goes, InitFails, At, InitSucceeds, Work, RunUndo,
     RunFunction, ShutdownReturns
<1>2. phase' = "work" => pos' > Len(driver')
  BY WorkSteps DEF InitSucceeds, IInv, Phases, lifeVars
<1>3. phase' = "down" => shutdown_fn' = << >>
  BY DEF IInv, Phases, LifeNext, LifeStep, LifeOver, ProgrammerInit, RgetIoPerms, PciInit,
     OpenDevice, ReversibleWrite, ReversibleVal, PlainWrite, SetByHand, RegisterShutdown,
     RegisterProgrammer, BitbangSpiInit, Check, Goes, InitFails, At, InitSucceeds, Work, RunUndo,
     RunFunction, ShutdownReturns, lifeVars
<1> QED BY <1>1, <1>2, <1>3 DEF IInv, Phases, lifeVars

(* What a call of init() may add to shutdown_fn[].                          *)
LEMMA CallRegisters ==
  ASSUME LifeTypeOK, [LifeNext]_lifeVars, At(Calls)
  PROVE  \/ shutdown_fn' = shutdown_fn
         \/ /\ At({"rget_io_perms", "register_shutdown"})
            /\ Function(This) \in ShutdownFn /\ Registers(Function(This))
         \/ /\ At({"rwrite", "rval"})
            /\ Undo(This) \in ShutdownFn /\ Registers(Undo(This)) /\ Saves
<1>1. CASE RgetIoPerms \/ RegisterShutdown
  <2>1. At({"rget_io_perms", "register_shutdown"})
    BY <1>1 DEF RgetIoPerms, RegisterShutdown, At
  <2>2. shutdown_fn' = shutdown_fn \/ Registers(Function(This))
    BY <1>1 DEF RgetIoPerms, RegisterShutdown
  <2> QED BY <2>1, <2>2, FunctionType
<1>2. CASE ReversibleWrite \/ ReversibleVal
  <2>1. At({"rwrite", "rval"}) /\ Registers(Undo(This)) /\ Saves
    BY <1>2 DEF ReversibleWrite, ReversibleVal, Saves, At
  <2> QED BY <2>1, FunctionType
<1>3. CASE RunUndo \/ RunFunction
  BY <1>3 DEF RunUndo, RunFunction, At
<1> QED BY <1>1, <1>2, <1>3 DEF LifeNext, LifeStep, LifeOver, lifeVars, ProgrammerInit, PciInit,
      OpenDevice, PlainWrite, SetByHand, RegisterProgrammer, BitbangSpiInit, Check,
      InitSucceeds, Work, ShutdownReturns

LEMMA NothingClosedStep == LifeTypeOK /\ IInv /\ [LifeNext]_lifeVars => NothingClosedTooSoon'
<1> SUFFICES ASSUME LifeTypeOK, IInv, [LifeNext]_lifeVars, InOrder(driver), phase' = "init",
                    NEW n \in DOMAIN shutdown_fn', NEW m \in DOMAIN driver,
                    pos' <= m, driver[m].call \in {"rget_io_perms", "register_shutdown"}
             PROVE  shutdown_fn'[n].needs \cap driver[m].closes = {}
  BY DriverStays, SameDriver DEF NothingClosedTooSoon
<1>1. CASE phase = "start" /\ shutdown_fn' = << >>
  BY <1>1
<1>2. CASE UNCHANGED lifeVars /\ phase = "init"
  BY <1>2 DEF IInv, NothingClosedTooSoon, lifeVars
<1>3. CASE At(Calls) /\ phase = "init" /\ pos' = pos + 1 /\ pos \in DOMAIN driver
  <2>1. pos < m /\ pos <= m /\ pos \in Nat
    BY <1>3, DriverDomain
  <2>2. \A k \in DOMAIN shutdown_fn : shutdown_fn[k].needs \cap driver[m].closes = {}
    BY <1>3, <2>1 DEF IInv, NothingClosedTooSoon
  <2>3. driver[pos].call \in Registering => This.access \cap driver[m].closes = {}
    BY <1>3, <2>1 DEF InOrder, This
  <2>4. Function(This).needs = This.access /\ Undo(This).needs = This.access
    BY DEF Function, Undo
  <2>5. CASE shutdown_fn' = shutdown_fn
    BY <2>2, <2>5
  <2>6. CASE /\ At({"rget_io_perms", "register_shutdown"})
             /\ Function(This) \in ShutdownFn /\ Registers(Function(This))
    <3>1. driver[pos].call \in Registering
      BY <2>6 DEF At, Registering
    <3> QED BY <2>2, <2>3, <2>4, <2>6, <3>1, RegisterCases
  <2>7. CASE /\ At({"rwrite", "rval"})
             /\ Undo(This) \in ShutdownFn /\ Registers(Undo(This))
    <3>1. driver[pos].call \in Registering
      BY <2>7 DEF At, Registering
    <3> QED BY <2>2, <2>3, <2>4, <2>7, <3>1, RegisterCases
  <2> QED BY <1>3, <2>5, <2>6, <2>7, CallRegisters
<1> QED BY <1>1, <1>2, <1>3, InitSteps

LEMMA OpenedStep == LifeTypeOK /\ IInv /\ [LifeNext]_lifeVars => OpenedIsOpen'
<1> SUFFICES ASSUME LifeTypeOK, IInv, [LifeNext]_lifeVars, InOrder(driver), phase' \in {"init",
                    "work"},
                    NEW m \in DOMAIN driver, m < pos', driver[m].call \in Opening
             PROVE  driver[m].access \subseteq open'
  BY DriverStays, SameDriver DEF OpenedIsOpen
<1>1. CASE phase' = "init"
  <2>1. CASE phase = "start" /\ pos' = 1
    BY <2>1, DriverDomain
  <2>2. CASE UNCHANGED lifeVars /\ phase = "init"
    BY <2>2 DEF IInv, OpenedIsOpen, lifeVars
  <2>3. CASE At(Calls) /\ phase = "init" /\ pos' = pos + 1 /\ pos \in DOMAIN driver
    <3>1. open \subseteq open'
      BY <2>3, <1>1 DEF LifeNext, LifeStep, LifeOver, lifeVars, ProgrammerInit, RgetIoPerms,
            PciInit,
         OpenDevice, ReversibleWrite, ReversibleVal, PlainWrite, SetByHand, RegisterShutdown,
         RegisterProgrammer, BitbangSpiInit, Check, InitSucceeds, Work, RunUndo, RunFunction,
         ShutdownReturns
    <3>2. CASE m = pos
      <4>1. At(Opening)
        BY <2>3, <3>2 DEF At
      <4>2. open' = open \cup This.access
        <5>1. CASE RgetIoPerms \/ PciInit \/ OpenDevice
          BY <5>1, <1>1 DEF RgetIoPerms, PciInit, OpenDevice, InitFails
        <5>2. CASE \/ ReversibleWrite \/ ReversibleVal \/ PlainWrite \/ SetByHand
                   \/ RegisterShutdown \/ RegisterProgrammer \/ BitbangSpiInit \/ Check
          BY <5>2, <4>1 DEF ReversibleWrite, ReversibleVal, PlainWrite, SetByHand,
             RegisterShutdown, RegisterProgrammer, BitbangSpiInit, Check, At, Opening
        <5>3. CASE \/ ProgrammerInit \/ InitSucceeds \/ Work \/ RunUndo \/ RunFunction
                   \/ ShutdownReturns \/ LifeOver
          BY <5>3, <2>3, <1>1 DEF ProgrammerInit, InitSucceeds, Work, RunUndo, RunFunction,
             ShutdownReturns, LifeOver
        <5>4. ~ UNCHANGED lifeVars
          BY <2>3, DriverDomain DEF lifeVars
        <5> QED BY <5>1, <5>2, <5>3, <5>4 DEF LifeNext, LifeStep
      <4> QED BY <3>2, <4>2 DEF This
    <3>3. CASE m # pos
      <4>1. m < pos
        BY <2>3, <3>3, DriverDomain
      <4> QED BY <2>3, <3>1, <4>1 DEF IInv, OpenedIsOpen
    <3> QED BY <3>2, <3>3
  <2> QED BY <1>1, <2>1, <2>2, <2>3, InitSteps
<1>2. CASE phase' = "work"
  BY <1>2, WorkSteps DEF InitSucceeds, IInv, OpenedIsOpen, lifeVars
<1> QED BY <1>1, <1>2

LEMMA ApartStep == LifeTypeOK /\ IInv /\ [LifeNext]_lifeVars => CellsApart'
<1> SUFFICES ASSUME LifeTypeOK, IInv, [LifeNext]_lifeVars, InOrder(driver),
                    NEW n \in DOMAIN shutdown_fn', ~shutdown_fn'[n].undo
             PROVE  shutdown_fn'[n].cells \cap Reversible(driver) = {}
  BY DriverStays, SameDriver DEF CellsApart
<1>1. \A k \in DOMAIN shutdown_fn :
        ~shutdown_fn[k].undo => shutdown_fn[k].cells \cap Reversible(driver) = {}
  BY DEF IInv, CellsApart
<1>2. CASE At(Calls)
  <2>1. CASE /\ At({"rget_io_perms", "register_shutdown"})
             /\ Function(This) \in ShutdownFn /\ Registers(Function(This))
    <3>1. This.cells \cap Reversible(driver) = {}
      BY <2>1 DEF At, This, InOrder
    <3>2. Function(This).cells = This.cells
      BY DEF Function
    <3> QED BY <1>1, <2>1, <3>1, <3>2, RegisterCases
  <2>2. CASE /\ At({"rwrite", "rval"})
             /\ Undo(This) \in ShutdownFn /\ Registers(Undo(This))
    <3>1. Undo(This).undo
      BY DEF Undo
    <3> QED BY <1>1, <2>2, <3>1, RegisterCases
  <2>3. CASE shutdown_fn' = shutdown_fn
    BY <1>1, <2>3
  <2> QED BY <1>2, <2>1, <2>2, <2>3, CallRegisters
<1>3. CASE RunUndo \/ RunFunction
  BY <1>1, <1>3, PopCases DEF RunUndo, RunFunction
<1>4. CASE shutdown_fn' = shutdown_fn
  BY <1>1, <1>4
<1>5. At(Calls) \/ RunUndo \/ RunFunction \/ shutdown_fn' = shutdown_fn
  BY DEF LifeNext, LifeStep, LifeOver, lifeVars, ProgrammerInit, RgetIoPerms, PciInit, OpenDevice,
     ReversibleWrite, ReversibleVal, PlainWrite, SetByHand, RegisterShutdown,
     RegisterProgrammer, BitbangSpiInit, Check, InitSucceeds, Work, ShutdownReturns, At, Calls
<1> QED BY <1>2, <1>3, <1>4, <1>5

-----------------------------------------------------------------------------
(* Which undos concern a cell. *)

LEMMA SavedIsUndone == \A c : c \in SavedCells <=> UndosOf(c) # {}
BY DEF SavedCells, UndosOf

LEMMA UndosRegistered ==
  ASSUME LifeTypeOK, NEW fn \in ShutdownFn, Registers(fn), NEW c
  PROVE  /\ UndosOf(c) \subseteq UndosOf(c)'
         /\ ~(fn.undo /\ c \in fn.cells) => UndosOf(c)' = UndosOf(c)
         /\ ~Refuses /\ fn.undo /\ c \in fn.cells =>
              UndosOf(c)' = UndosOf(c) \cup {Len(shutdown_fn) + 1}
         /\ Refuses => UndosOf(c)' = UndosOf(c)
<1>1. CASE Refuses /\ shutdown_fn' = shutdown_fn
  BY <1>1 DEF UndosOf
<1>2. CASE ~(Refuses /\ shutdown_fn' = shutdown_fn)
  BY <1>2, RegisterCases DEF UndosOf
<1> QED BY <1>1, <1>2

LEMMA WrittenStep == LifeTypeOK /\ IInv /\ [LifeNext]_lifeVars => WrittenIsSaved'
<1> SUFFICES ASSUME LifeTypeOK, IInv, [LifeNext]_lifeVars, InOrder(driver), phase' \in {"init",
                    "work"},
                    NEW m \in DOMAIN driver, m < pos', driver[m].call \in {"rwrite", "rval"},
                    NEW c \in driver[m].cells
             PROVE  c \in unsaved' \/ UndosOf(c)' # {}
  BY DriverStays, SameDriver, SavedIsUndone DEF WrittenIsSaved, SavedCells, UndosOf
<1>a. unsaved \subseteq unsaved'
  BY DEF LifeNext, LifeStep, LifeOver, lifeVars, ProgrammerInit, RgetIoPerms, PciInit, OpenDevice,
     ReversibleWrite, ReversibleVal, PlainWrite, SetByHand, RegisterShutdown,
     RegisterProgrammer, BitbangSpiInit, Check, InitSucceeds, Work, RunUndo, RunFunction,
     ShutdownReturns, Saves
<1>b. m < pos /\ phase \in {"init", "work"} => c \in unsaved \/ UndosOf(c) # {}
  BY SavedIsUndone DEF IInv, WrittenIsSaved
<1>1. CASE phase' = "init"
  <2>1. CASE phase = "start" /\ pos' = 1
    BY <2>1, DriverDomain
  <2>2. CASE UNCHANGED lifeVars /\ phase = "init"
    BY <2>2, <1>b DEF lifeVars, UndosOf
  <2>3. CASE At(Calls) /\ phase = "init" /\ pos' = pos + 1 /\ pos \in DOMAIN driver
    <3>1. UndosOf(c) \subseteq UndosOf(c)'
      <4>1. CASE shutdown_fn' = shutdown_fn
        BY <4>1 DEF UndosOf
      <4> QED BY <2>3, <4>1, CallRegisters, UndosRegistered
    <3>2. CASE m = pos
      <4>1. ReversibleWrite \/ ReversibleVal
        <5>1. CASE \/ RgetIoPerms \/ PciInit \/ OpenDevice \/ PlainWrite \/ SetByHand
                   \/ RegisterShutdown \/ RegisterProgrammer \/ BitbangSpiInit \/ Check
          BY <5>1, <3>2 DEF RgetIoPerms, PciInit, OpenDevice, PlainWrite, SetByHand,
             RegisterShutdown, RegisterProgrammer, BitbangSpiInit, Check, At
        <5>2. CASE \/ ProgrammerInit \/ InitSucceeds \/ Work \/ RunUndo \/ RunFunction
                   \/ ShutdownReturns \/ LifeOver
          BY <5>2, <2>3, <1>1 DEF ProgrammerInit, InitSucceeds, Work, RunUndo, RunFunction,
             ShutdownReturns, LifeOver
        <5>3. ~ UNCHANGED lifeVars
          BY <2>3, DriverDomain DEF lifeVars
        <5> QED BY <5>1, <5>2, <5>3 DEF LifeNext, LifeStep
      <4>2. At({"rwrite", "rval"}) /\ Saves
        BY <4>1 DEF ReversibleWrite, ReversibleVal, At
      <4>3. c \in This.cells /\ Undo(This) \in ShutdownFn
        BY <3>2, <4>2, FunctionType DEF This
      <4>4. CASE Refuses
        BY <4>2, <4>3, <4>4, <3>1, SavedIsUndone DEF Saves
      <4>5. CASE ~Refuses
        <5>1. Undo(This).undo /\ c \in Undo(This).cells
          BY <4>3 DEF Undo
        <5> QED BY <4>2, <4>3, <4>5, <5>1, UndosRegistered DEF Saves
      <4> QED BY <4>4, <4>5
    <3>3. CASE m # pos
      <4>1. m < pos
        BY <2>3, <3>3, DriverDomain
      <4> QED BY <2>3, <3>1, <4>1, <1>a, <1>b
    <3> QED BY <3>2, <3>3
  <2> QED BY <1>1, <2>1, <2>2, <2>3, InitSteps
<1>2. CASE phase' = "work"
  BY <1>2, <1>b, WorkSteps DEF InitSucceeds, lifeVars, UndosOf
<1> QED BY <1>1, <1>2

-----------------------------------------------------------------------------
(* A cell keeps its original value, in the device or in its first undo.     *)

LEMMA KeptRegistered ==
  ASSUME LifeTypeOK, NEW fn \in ShutdownFn, Registers(fn), NEW c, Kept(c), UNCHANGED original,
         regs'[c] = regs[c] \/ UndosOf(c)' # {}, fn.data = regs
  PROVE  Kept(c)'
<1>1. CASE Refuses
  BY <1>1, RegisterCases, UndosRegistered DEF Kept
<1>2. CASE ~Refuses
  <2>a. /\ \A n \in DOMAIN shutdown_fn : /\ shutdown_fn'[n] = shutdown_fn[n]
                                         /\ n < Len(shutdown_fn) + 1
                                         /\ n \in Nat
        /\ shutdown_fn'[Len(shutdown_fn) + 1] = fn
        /\ Len(shutdown_fn) \in Nat
    BY <1>2, RegisterCases
  <2>b. UndosOf(c) \subseteq DOMAIN shutdown_fn
    BY DEF UndosOf
  <2>1. CASE fn.undo /\ c \in fn.cells
    <3>1. UndosOf(c)' = UndosOf(c) \cup {Len(shutdown_fn) + 1}
      BY <1>2, <2>1, UndosRegistered
    <3>2. CASE UndosOf(c) = {} /\ regs[c] = original[c]
      BY <2>a, <3>1, <3>2 DEF Kept
    <3>3. CASE UndosOf(c) # {}
      <4>1. PICK n \in UndosOf(c) : /\ \A m \in UndosOf(c) : n <= m
                                    /\ shutdown_fn[n].data[c] = original[c]
        BY <3>3 DEF Kept
      <4>2. \A m \in UndosOf(c)' : n <= m
        BY <2>a, <2>b, <3>1, <4>1
      <4>3. n \in UndosOf(c)' /\ shutdown_fn'[n].data[c] = original'[c]
        BY <2>a, <2>b, <3>1, <4>1
      <4> QED BY <4>2, <4>3 DEF Kept
    <3> QED BY <3>2, <3>3 DEF Kept
  <2>2. CASE ~(fn.undo /\ c \in fn.cells)
    <3>1. UndosOf(c)' = UndosOf(c)
      BY <2>2, UndosRegistered
    <3> QED BY <2>a, <2>b, <3>1 DEF Kept
  <2> QED BY <2>1, <2>2
<1> QED BY <1>1, <1>2

LEMMA KeptPopped ==
  ASSUME LifeTypeOK, shutdown_fn # << >>, Pops, UNCHANGED original, NEW c, Kept(c),
         Top.undo /\ c \in Top.cells => regs'[c] = Top.data[c],
         ~(Top.undo /\ c \in Top.cells) => regs'[c] = regs[c]
  PROVE  Kept(c)'
<1> DEFINE last == Len(shutdown_fn)
<1>a. /\ DOMAIN shutdown_fn' = DOMAIN shutdown_fn \ {last}
      /\ \A n \in DOMAIN shutdown_fn : n # last => shutdown_fn'[n] = shutdown_fn[n] /\ n < last
      /\ last \in DOMAIN shutdown_fn
  BY PopCases
<1>b. UndosOf(c)' = UndosOf(c) \ {last}
  BY <1>a DEF UndosOf
<1>c. last \in UndosOf(c) <=> Top.undo /\ c \in Top.cells
  BY <1>a DEF UndosOf, Top
<1>d. UndosOf(c) \subseteq DOMAIN shutdown_fn /\ DOMAIN shutdown_fn \subseteq Nat
  BY PopCases DEF UndosOf
<1>1. CASE UndosOf(c) = {}
  BY <1>1, <1>b, <1>c DEF Kept
<1>2. CASE UndosOf(c) # {}
  <2>1. PICK n \in UndosOf(c) : /\ \A m \in UndosOf(c) : n <= m
                                /\ shutdown_fn[n].data[c] = original[c]
    BY <1>2 DEF Kept
  <2>2. CASE n = last
    <3>1. UndosOf(c)' = {}
      BY <2>1, <2>2, <1>a, <1>b, <1>d
    <3>2. regs'[c] = original[c]
      BY <2>1, <2>2, <1>c DEF Top
    <3> QED BY <3>1, <3>2 DEF Kept
  <2>3. CASE n # last
    <3>1. n \in UndosOf(c)' /\ shutdown_fn'[n] = shutdown_fn[n]
      BY <2>1, <2>3, <1>a, <1>b, <1>d
    <3>2. \A m \in UndosOf(c)' : n <= m
      BY <2>1, <1>b
    <3> QED BY <2>1, <3>1, <3>2 DEF Kept
  <2> QED BY <2>2, <2>3
<1> QED BY <1>1, <1>2

LEMMA KeptStep == LifeTypeOK /\ IInv /\ [LifeNext]_lifeVars => OriginalIsKept'
<1> SUFFICES ASSUME LifeTypeOK, IInv, [LifeNext]_lifeVars, InOrder(driver),
                    NEW c \in Reversible(driver), c \notin unsaved'
             PROVE  Kept(c)'
  BY DriverStays, SameDriver DEF OriginalIsKept
<1>a. c \in Touched(driver) /\ regs \in [Touched(driver) -> Val]
  BY DEF Reversible, Touched, CellsOf, LifeTypeOK
<1>1. CASE ReversibleWrite \/ ReversibleVal
  <2>1. /\ At({"rwrite", "rval"}) /\ Saves /\ Registers(Undo(This)) /\ original' = original
        /\ Undo(This) \in ShutdownFn
    BY <1>1, FunctionType DEF ReversibleWrite, ReversibleVal, Saves, At
  <2>2. c \notin unsaved
    BY <2>1 DEF Saves
  <2>3. Kept(c)
    BY <2>2 DEF IInv, OriginalIsKept
  <2>4. Undo(This).undo /\ Undo(This).cells = This.cells /\ Undo(This).data = regs
    BY DEF Undo
  <2>5. CASE c \in This.cells
    <3>1. UndosOf(c)' # {}
      <4>1. CASE Refuses
        BY <2>1, <2>5, <4>1, SavedIsUndone, UndosRegistered DEF Saves
      <4>2. CASE ~Refuses
        BY <2>1, <2>4, <2>5, <4>2, UndosRegistered
      <4> QED BY <4>1, <4>2
    <3> QED BY <2>1, <2>3, <2>4, <3>1, KeptRegistered
  <2>6. CASE c \notin This.cells
    <3>1. regs'[c] = regs[c]
      BY <1>1, <1>a, <2>6, WriteType DEF ReversibleWrite, ReversibleVal
    <3> QED BY <2>1, <2>3, <2>4, <3>1, KeptRegistered
  <2> QED BY <2>5, <2>6
<1>2. CASE UNCHANGED unsaved /\ c \notin unsaved
  <2>1. Kept(c)
    BY <1>2 DEF IInv, OriginalIsKept
  <2>2. ASSUME UNCHANGED <<shutdown_fn, original>>, regs'[c] = regs[c] \/ UndosOf(c) # {}
        PROVE  Kept(c)'
    BY <2>1, <2>2 DEF Kept, UndosOf
  <2>3. CASE RgetIoPerms \/ RegisterShutdown
    <3>1. CASE shutdown_fn' = shutdown_fn
      BY <2>2, <2>3, <3>1 DEF RgetIoPerms, RegisterShutdown
    <3>2. CASE Registers(Function(This)) /\ Function(This) \in ShutdownFn
      <4>1. Function(This).data = regs
        BY DEF Function
      <4>2. original' = original /\ regs'[c] = regs[c]
        BY <2>3 DEF RgetIoPerms, RegisterShutdown
      <4> QED BY <2>1, <3>2, <4>1, <4>2, KeptRegistered
    <3>3. shutdown_fn' = shutdown_fn \/ (Registers(Function(This)) /\ Function(This) \in ShutdownFn)
      BY <2>3, FunctionType DEF RgetIoPerms, RegisterShutdown
    <3> QED BY <3>1, <3>2, <3>3
  <2>4. CASE PlainWrite
    <3>1. Write(This.cells) /\ UNCHANGED <<shutdown_fn, original>> /\ At({"write"})
      BY <2>4 DEF PlainWrite
    <3>2. CASE c \in This.cells
      <4>1. PICK m \in 1 .. pos - 1 : driver[m].call \in {"rwrite", "rval"} /\ c \in driver[m].cells
        BY <3>1, <3>2 DEF InOrder, At, This
      <4>2. m \in DOMAIN driver /\ m < pos
        BY <3>1, <4>1, DriverDomain DEF At
      <4>3. UndosOf(c) # {}
        BY <3>1, <4>1, <4>2, <1>2, SavedIsUndone DEF IInv, WrittenIsSaved, At
      <4> QED BY <2>2, <3>1, <4>3
    <3>3. CASE c \notin This.cells
      BY <2>2, <3>1, <3>3, <1>a, WriteType
    <3> QED BY <3>2, <3>3
  <2>5. CASE SetByHand
    <3>1. Write(This.cells) /\ UNCHANGED <<shutdown_fn, original>> /\ c \notin This.cells
      BY <2>5 DEF SetByHand, InOrder, At, This
    <3> QED BY <2>2, <3>1, <1>a, WriteType
  <2>6. CASE Work
    <3>1. /\ Write(CellsOf(driver, {"rval"})) /\ UNCHANGED <<shutdown_fn, original>>
          /\ phase = "work"
      BY <2>6 DEF Work
    <3>2. CASE c \in CellsOf(driver, {"rval"})
      <4>1. PICK m \in DOMAIN driver : driver[m].call = "rval" /\ c \in driver[m].cells
        BY <3>2 DEF CellsOf
      <4>2. m < pos
        BY <3>1, DriverDomain DEF IInv, Phases
      <4>3. UndosOf(c) # {}
        BY <3>1, <4>1, <4>2, <1>2, SavedIsUndone DEF IInv, WrittenIsSaved
      <4> QED BY <2>2, <3>1, <4>3
    <3>3. CASE c \notin CellsOf(driver, {"rval"})
      BY <2>2, <3>1, <3>3, <1>a, WriteType
    <3> QED BY <3>2, <3>3
  <2>7. CASE RunUndo
    <3>1. shutdown_fn # << >> /\ Pops /\ original' = original /\ Top.undo
      BY <2>7 DEF RunUndo
    <3>2. Top.needs \subseteq open
      BY <3>1, TopType DEF IInv, AccessOutlivesUse, Top
    <3>3. regs' = [d \in DOMAIN regs |-> IF d \in Top.cells THEN Top.data[d] ELSE regs[d]]
      BY <2>7, <3>2 DEF RunUndo
    <3> QED BY <2>1, <3>1, <3>3, <1>a, KeptPopped
  <2>8. CASE RunFunction
    <3>1. /\ shutdown_fn # << >> /\ Pops /\ original' = original /\ ~Top.undo
          /\ regs' = [d \in DOMAIN regs |-> IF d \in Top.cells THEN own[d] ELSE regs[d]]
      BY <2>8 DEF RunFunction
    <3>2. c \notin Top.cells
      BY <3>1, TopType DEF IInv, CellsApart, Top
    <3> QED BY <2>1, <3>1, <3>2, <1>a, KeptPopped
  <2>9. CASE \/ ProgrammerInit \/ PciInit \/ OpenDevice \/ RegisterProgrammer
             \/ BitbangSpiInit \/ Check \/ InitSucceeds \/ ShutdownReturns \/ UNCHANGED lifeVars
    <3>1. UNCHANGED <<shutdown_fn, original, regs>>
      BY <2>9 DEF ProgrammerInit, PciInit, OpenDevice, RegisterProgrammer, BitbangSpiInit,
         Check, InitSucceeds, ShutdownReturns, lifeVars
    <3> QED BY <2>2, <3>1
  <2> QED BY <1>1, <2>3, <2>4, <2>5, <2>6, <2>7, <2>8, <2>9 DEF LifeNext, LifeStep, LifeOver
<1>3. ReversibleWrite \/ ReversibleVal \/ UNCHANGED unsaved
  BY DEF LifeNext, LifeStep, LifeOver, lifeVars, ProgrammerInit, RgetIoPerms, PciInit, OpenDevice,
     PlainWrite, SetByHand, RegisterShutdown, RegisterProgrammer, BitbangSpiInit, Check,
     InitSucceeds, Work, RunUndo, RunFunction, ShutdownReturns
<1> QED BY <1>1, <1>2, <1>3

-----------------------------------------------------------------------------
LEMMA InvInit == LifeInit => IInv
<1> SUFFICES ASSUME LifeInit PROVE IInv
  OBVIOUS
<1>1. shutdown_fn = << >> /\ DOMAIN shutdown_fn = {} /\ regs = original /\ phase = "start"
  BY DEF LifeInit
<1>2. \A c : UndosOf(c) = {}
  BY <1>1 DEF UndosOf
<1>3. AccessOutlivesUse /\ CellsApart
  BY <1>1 DEF AccessOutlivesUse, CellsApart
<1>4. OriginalIsKept
  BY <1>1, <1>2 DEF OriginalIsKept, Kept
<1>5. OpenedIsOpen /\ NothingClosedTooSoon /\ WrittenIsSaved
  BY <1>1 DEF OpenedIsOpen, NothingClosedTooSoon, WrittenIsSaved
<1>6. Phases
  BY DEF LifeInit, Phases
<1> QED BY <1>3, <1>4, <1>5, <1>6 DEF IInv

LEMMA Invariance == LifeSpec => [](LifeTypeOK /\ IInv)
<1>1. LifeInit => LifeTypeOK /\ IInv
  BY LifeTypeInit, InvInit
<1>2. LifeTypeOK /\ IInv /\ [LifeNext]_lifeVars => (LifeTypeOK /\ IInv)'
  BY LifeTypeStep, AccessStep, KeptStep, OpenedStep, NothingClosedStep, ApartStep, WrittenStep,
     PhasesStep DEF IInv
<1> QED BY <1>1, <1>2, PTL DEF LifeSpec

(* No shutdown function of a driver that keeps to the order runs through an *)
(* access that is closed, whatever fails on the way.                        *)
THEOREM AccessLasts == LifeSpec => []AccessOutlivesUse
<1>1. LifeTypeOK /\ IInv => AccessOutlivesUse
  BY DEF IInv
<1> QED BY <1>1, Invariance, PTL

(* The old value of every register such a driver writes reversibly is at no *)
(* moment lost.                                                             *)
THEOREM OriginalSafe == LifeSpec => []OriginalIsKept
<1>1. LifeTypeOK /\ IInv => OriginalIsKept
  BY DEF IInv
<1> QED BY <1>1, Invariance, PTL

(* After programmer_shutdown() every such register is as it was, unless its *)
(* undo did not fit into shutdown_fn[].                                     *)
THEOREM Restored == LifeSpec => []RestoredOnShutdown
<1>1. ASSUME IInv PROVE RestoredOnShutdown
  <2> SUFFICES ASSUME phase = "down", InOrder(driver), NEW c \in Reversible(driver) \ unsaved
               PROVE  regs[c] = original[c]
    BY DEF RestoredOnShutdown
  <2>1. UndosOf(c) = {}
    BY <1>1 DEF IInv, Phases, UndosOf
  <2> QED BY <1>1, <2>1 DEF IInv, OriginalIsKept, Kept
<1> QED BY <1>1, Invariance, PTL

-----------------------------------------------------------------------------
(* What a successful init() has opened and set is closed and put back.      *)

UndosApart ==
  \A n \in DOMAIN shutdown_fn :
    shutdown_fn[n].undo => shutdown_fn[n].cells \subseteq Reversible(driver)

(* The function call m has registered is still to run, or has run.          *)
Pending(m) ==
  \E n \in DOMAIN shutdown_fn : /\ ~shutdown_fn[n].undo
                                /\ shutdown_fn[n].closes = driver[m].closes
                                /\ shutdown_fn[n].cells = driver[m].cells
HasRun(m) ==
  /\ phase \in {"shutdown", "down"}
  /\ open \cap driver[m].closes = {}
  /\ \A c \in driver[m].cells : regs[c] = own[c]

RegisteredRun ==
  \A m \in DOMAIN driver :
    m < pos /\ driver[m].call = "register_shutdown" => Pending(m) \/ HasRun(m)

ReleaseInv == UndosApart /\ RegisteredRun

LEMMA TidyDriver ==
  ASSUME LifeTypeOK
  PROVE  Tidy(driver)
BY LifecycleAssumption DEF LifeTypeOK

LEMMA UndosApartStep == LifeTypeOK /\ UndosApart /\ [LifeNext]_lifeVars => UndosApart'
<1> SUFFICES ASSUME LifeTypeOK, UndosApart, [LifeNext]_lifeVars,
                    NEW n \in DOMAIN shutdown_fn', shutdown_fn'[n].undo
             PROVE  shutdown_fn'[n].cells \subseteq Reversible(driver)
  BY DriverStays, SameDriver DEF UndosApart
<1>1. \A k \in DOMAIN shutdown_fn :
        shutdown_fn[k].undo => shutdown_fn[k].cells \subseteq Reversible(driver)
  BY DEF UndosApart
<1>2. CASE At(Calls)
  <2>1. CASE /\ At({"rget_io_perms", "register_shutdown"})
             /\ Function(This) \in ShutdownFn /\ Registers(Function(This))
    <3>1. ~Function(This).undo
      BY DEF Function
    <3> QED BY <1>1, <2>1, <3>1, RegisterCases
  <2>2. CASE /\ At({"rwrite", "rval"})
             /\ Undo(This) \in ShutdownFn /\ Registers(Undo(This))
    <3>1. Undo(This).cells \subseteq Reversible(driver)
      BY <2>2, ReversibleCells DEF Undo
    <3> QED BY <1>1, <2>2, <3>1, RegisterCases
  <2>3. CASE shutdown_fn' = shutdown_fn
    BY <1>1, <2>3
  <2> QED BY <1>2, <2>1, <2>2, <2>3, CallRegisters
<1>3. CASE RunUndo \/ RunFunction
  BY <1>1, <1>3, PopCases DEF RunUndo, RunFunction
<1>4. CASE shutdown_fn' = shutdown_fn
  BY <1>1, <1>4
<1>5. At(Calls) \/ RunUndo \/ RunFunction \/ shutdown_fn' = shutdown_fn
  BY DEF LifeNext, LifeStep, LifeOver, lifeVars, ProgrammerInit, RgetIoPerms, PciInit, OpenDevice,
     ReversibleWrite, ReversibleVal, PlainWrite, SetByHand, RegisterShutdown,
     RegisterProgrammer, BitbangSpiInit, Check, InitSucceeds, Work, ShutdownReturns, At, Calls
<1> QED BY <1>2, <1>3, <1>4, <1>5

(* What has been registered stays registered when more is.                  *)
LEMMA PendingStays ==
  ASSUME LifeTypeOK, NEW m, Pending(m), UNCHANGED driver,
         \/ shutdown_fn' = shutdown_fn
         \/ \E fn \in ShutdownFn : Registers(fn)
  PROVE  Pending(m)'
<1>1. PICK n \in DOMAIN shutdown_fn : /\ ~shutdown_fn[n].undo
                                      /\ shutdown_fn[n].closes = driver[m].closes
                                      /\ shutdown_fn[n].cells = driver[m].cells
  BY DEF Pending
<1>2. n \in DOMAIN shutdown_fn' /\ shutdown_fn'[n] = shutdown_fn[n]
  <2>1. CASE shutdown_fn' = shutdown_fn
    BY <2>1
  <2>2. ASSUME NEW fn \in ShutdownFn, Registers(fn)
        PROVE  n \in DOMAIN shutdown_fn' /\ shutdown_fn'[n] = shutdown_fn[n]
    BY <2>2, RegisterCases
  <2> QED BY <2>1, <2>2
<1> QED BY <1>1, <1>2 DEF Pending

(* During init() nothing has run.                                           *)
LEMMA RegisteredInInit ==
  ASSUME LifeTypeOK, RegisteredRun, [LifeNext]_lifeVars, At(Calls),
         NEW m \in DOMAIN driver, m < pos', driver[m].call = "register_shutdown"
  PROVE  Pending(m)'
<1>1. UNCHANGED driver
  BY DriverStays
<1>2. CASE m < pos
  <2>1. Pending(m)
    BY <1>2 DEF RegisteredRun, HasRun, At
  <2>2. shutdown_fn' = shutdown_fn \/ \E fn \in ShutdownFn : Registers(fn)
    BY CallRegisters
  <2> QED BY <1>1, <2>1, <2>2, PendingStays
<1>3. CASE ~(m < pos)
  <2>1. pos \in Nat /\ m \in Nat /\ pos \in DOMAIN driver
    BY DriverDomain DEF At
  <2>2. pos' = pos \/ pos' = pos + 1
    BY DEF LifeNext, LifeStep, LifeOver, lifeVars, ProgrammerInit, RgetIoPerms, PciInit, OpenDevice,
       ReversibleWrite, ReversibleVal, PlainWrite, SetByHand, RegisterShutdown,
       RegisterProgrammer, BitbangSpiInit, Check, InitSucceeds, Work, RunUndo, RunFunction,
       ShutdownReturns, At, Goes, InitFails
  <2>3. m = pos /\ pos' = pos + 1
    BY <1>3, <2>1, <2>2
  <2>4. driver[pos].call = "register_shutdown" /\ pos' # pos
    BY <2>1, <2>3
  <2>5. RegisterShutdown
    BY <2>4 DEF LifeNext, LifeStep, LifeOver, lifeVars, ProgrammerInit, RgetIoPerms, PciInit,
          OpenDevice,
       ReversibleWrite, ReversibleVal, PlainWrite, SetByHand, RegisterProgrammer,
       BitbangSpiInit, Check, InitSucceeds, Work, RunUndo, RunFunction, ShutdownReturns, At
  <2>6. Registers(Function(This)) /\ ~Refuses
    BY <2>4, <2>5 DEF RegisterShutdown, InitFails
  <2>7. Function(This) \in ShutdownFn
    BY FunctionType
  <2>8. /\ Len(shutdown_fn) + 1 \in DOMAIN shutdown_fn'
        /\ shutdown_fn'[Len(shutdown_fn) + 1] = Function(This)
    BY <2>6, <2>7, RegisterCases
  <2>9. /\ ~Function(This).undo /\ Function(This).closes = driver[m].closes
        /\ Function(This).cells = driver[m].cells
    BY <2>3 DEF Function, This
  <2> QED BY <1>1, <2>8, <2>9 DEF Pending
<1> QED BY <1>2, <1>3

(* One call of the loop in programmer_shutdown().                           *)
LEMMA RegisteredPopped ==
  ASSUME LifeTypeOK, ReleaseInv, RunUndo \/ RunFunction,
         NEW m \in DOMAIN driver, m < pos, driver[m].call = "register_shutdown"
  PROVE  Pending(m)' \/ HasRun(m)'
<1>1. /\ shutdown_fn # << >> /\ Pops /\ phase = "shutdown"
      /\ driver' = driver /\ phase' = phase /\ own' = own
  BY DEF RunUndo, RunFunction
<1>2. /\ DOMAIN shutdown_fn' = DOMAIN shutdown_fn \ {Len(shutdown_fn)}
      /\ \A n \in DOMAIN shutdown_fn : n # Len(shutdown_fn) => shutdown_fn'[n] = shutdown_fn[n]
      /\ Len(shutdown_fn) \in DOMAIN shutdown_fn
  BY <1>1, PopCases
<1>3. /\ regs \in [Touched(driver) -> Val]
      /\ driver[m].cells \subseteq Touched(driver) \ Reversible(driver)
  BY TidyDriver DEF Tidy, LifeTypeOK
<1>4. open' \subseteq open
  BY DEF RunUndo, RunFunction
<1>5. CASE RunUndo
  <2>1. Top.undo /\ Top.cells \subseteq Reversible(driver)
    BY <1>2, <1>5 DEF RunUndo, ReleaseInv, UndosApart, Top
  <2>2. \A c \in driver[m].cells : regs'[c] = regs[c]
    BY <1>3, <1>5, <2>1 DEF RunUndo
  <2>3. HasRun(m) => HasRun(m)'
    BY <1>1, <1>4, <2>2 DEF HasRun
  <2>4. Pending(m) => Pending(m)'
    BY <1>1, <1>2, <2>1 DEF Pending, Top
  <2> QED BY <2>3, <2>4 DEF ReleaseInv, RegisteredRun
<1>6. CASE RunFunction
  <2>1. /\ \A c \in driver[m].cells : regs'[c] = IF c \in Top.cells THEN own[c] ELSE regs[c]
        /\ open' = open \ Top.closes
    BY <1>3, <1>6 DEF RunFunction
  <2>2. HasRun(m) => HasRun(m)'
    BY <1>1, <1>4, <2>1 DEF HasRun
  <2>3. ASSUME Pending(m) PROVE Pending(m)' \/ HasRun(m)'
    <3>1. PICK n \in DOMAIN shutdown_fn : /\ ~shutdown_fn[n].undo
                                          /\ shutdown_fn[n].closes = driver[m].closes
                                          /\ shutdown_fn[n].cells = driver[m].cells
      BY <2>3 DEF Pending
    <3>2. CASE n = Len(shutdown_fn)
      <4>1. Top.closes = driver[m].closes /\ Top.cells = driver[m].cells
        BY <3>1, <3>2 DEF Top
      <4> QED BY <1>1, <2>1, <4>1 DEF HasRun
    <3>3. CASE n # Len(shutdown_fn)
      BY <1>1, <1>2, <3>1, <3>3 DEF Pending
    <3> QED BY <3>2, <3>3
  <2> QED BY <2>2, <2>3 DEF ReleaseInv, RegisteredRun
<1> QED BY <1>5, <1>6

LEMMA RegisteredStep == LifeTypeOK /\ IInv /\ ReleaseInv /\ [LifeNext]_lifeVars => RegisteredRun'
<1> SUFFICES ASSUME LifeTypeOK, IInv, ReleaseInv, [LifeNext]_lifeVars,
                    NEW m \in DOMAIN driver, m < pos', driver[m].call = "register_shutdown"
             PROVE  Pending(m)' \/ HasRun(m)'
  BY DriverStays DEF RegisteredRun
<1>1. CASE At(Calls)
  BY <1>1, RegisteredInInit DEF ReleaseInv
<1>2. CASE RunUndo \/ RunFunction
  <2>1. m < pos
    BY <1>2 DEF RunUndo, RunFunction
  <2> QED BY <1>2, <2>1, RegisteredPopped
<1>3. CASE ProgrammerInit
  <2>1. pos' = 1 /\ m \in Nat \ {0}
    BY <1>3, DriverDomain DEF ProgrammerInit, IInv, Phases
  <2> QED BY <2>1
<1>4. CASE InitSucceeds \/ Work \/ ShutdownReturns \/ UNCHANGED lifeVars
  <2>1. /\ UNCHANGED <<driver, pos, shutdown_fn, open, own>>
        /\ phase \in {"shutdown", "down"} => phase' \in {"shutdown", "down"} /\ regs' = regs
    BY <1>4 DEF InitSucceeds, Work, ShutdownReturns, lifeVars
  <2>2. Pending(m) \/ HasRun(m)
    BY <2>1 DEF ReleaseInv, RegisteredRun
  <2> QED BY <2>1, <2>2 DEF Pending, HasRun
<1>5. \/ At(Calls) \/ RunUndo \/ RunFunction \/ ProgrammerInit
      \/ InitSucceeds \/ Work \/ ShutdownReturns \/ UNCHANGED lifeVars
  BY DEF LifeNext, LifeStep, LifeOver, RgetIoPerms, PciInit, OpenDevice, ReversibleWrite,
     ReversibleVal, PlainWrite, SetByHand, RegisterShutdown, RegisterProgrammer,
     BitbangSpiInit, Check, At, Calls
<1> QED BY <1>1, <1>2, <1>3, <1>4, <1>5

(* After a successful init(), whatever was done then: the shutdown closes   *)
(* what the driver's functions close, but the port I/O, whose closing may   *)
(* have been refused, and puts back what was set by hand.                   *)
THEOREM Released == LifeSpec => []ReleasedOnShutdown
<1>1. LifeInit => ReleaseInv
  <2> SUFFICES ASSUME LifeInit PROVE ReleaseInv
    OBVIOUS
  <2>1. DOMAIN shutdown_fn = {} /\ pos = 1
    BY DEF LifeInit
  <2>2. \A m \in DOMAIN driver : ~(m < 1)
    BY LifeTypeInit, DriverDomain
  <2> QED BY <2>1, <2>2 DEF ReleaseInv, UndosApart, RegisteredRun
<1>2. LifeTypeOK /\ IInv /\ ReleaseInv /\ [LifeNext]_lifeVars => ReleaseInv'
  BY UndosApartStep, RegisteredStep DEF ReleaseInv
<1>3. ASSUME LifeTypeOK, IInv, ReleaseInv, phase = "down", pos > Len(driver)
      PROVE  /\ open \cap Closes(driver) \subseteq {"io"}
             /\ \A c \in CellsOf(driver, {"register_shutdown"}) : regs[c] = own[c]
  <2>1. DOMAIN shutdown_fn = {}
    BY <1>3 DEF IInv, Phases
  <2>2. \A m \in DOMAIN driver : driver[m].call = "register_shutdown" => HasRun(m)
    <3>1. \A m \in DOMAIN driver : m < pos
      BY <1>3, DriverDomain
    <3> QED BY <1>3, <2>1, <3>1 DEF ReleaseInv, RegisteredRun, Pending
  <2>3. \A m \in DOMAIN driver : \/ driver[m].call = "register_shutdown"
                                 \/ driver[m].closes \subseteq {"io"}
    BY <1>3, TidyDriver DEF Tidy
  <2>4. open \cap Closes(driver) \subseteq {"io"}
    BY <2>2, <2>3 DEF Closes, HasRun
  <2>5. \A c \in CellsOf(driver, {"register_shutdown"}) : regs[c] = own[c]
    BY <2>2 DEF CellsOf, HasRun
  <2> QED BY <2>4, <2>5
<1>4. LifeTypeOK /\ IInv /\ ReleaseInv => ReleasedOnShutdown
  BY <1>3 DEF ReleasedOnShutdown
<1> QED BY <1>1, <1>2, <1>4, Invariance, PTL DEF LifeSpec
============================================================================
