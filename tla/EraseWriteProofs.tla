-------------------------- MODULE EraseWriteProofs --------------------------
(***************************************************************************)
(* Proofs about the write engine, for every chip size, granularity, eraser *)
(* table, image, layout, request and number of faults; and that it         *)
(* implements FlashUpdate.                                                 *)
(***************************************************************************)
EXTENDS EraseWrite, FiniteSetTheorems, TLAPS

USE DEF Addr, Image

-----------------------------------------------------------------------------
(* Lemmas about the helpers of the engine.                                  *)

(* There are finitely many erasers, so they can be counted.                 *)
LEMMA UsableCountType ==
  IsFiniteSet(UsableErasers) /\ Cardinality(UsableErasers) \in Nat
<1>1. DOMAIN Erasers = 1 .. Len(Erasers) /\ Len(Erasers) \in Nat
  BY EraserAssumption
<1>2. IsFiniteSet(1 .. Len(Erasers))
  BY <1>1, FS_Interval
<1>3. IsFiniteSet(UsableErasers)
  BY <1>1, <1>2, FS_Subset DEF UsableErasers
<1> QED BY <1>3, FS_CardinalityType

(* Filling or programming a buffer gives a buffer.                          *)
LEMMA FilledType ==
  ASSUME NEW buf \in Image, NEW area, NEW byte \in Byte
  PROVE  Filled(buf, area, byte) \in Image
BY DEF Filled

LEMMA ProgrammedType ==
  ASSUME NEW old \in Byte, NEW want \in Byte
  PROVE  Programmed(old, want) \in Byte
BY ChipAssumption DEF Programmed

LEMMA HandleRomentriesType ==
  ASSUME NEW old \in Image, NEW new \in Image
  PROVE  HandleRomentries(old, new) \in Image
BY DEF HandleRomentries

(* The block boundaries of a usable eraser are addresses of the chip or its *)
(* end, in ascending order.                                                 *)
LEMMA BoundsType ==
  ASSUME NEW e \in DOMAIN Erasers, NEW b \in DOMAIN Erasers[e].bounds
  PROVE  /\ Erasers[e].bounds[b] \in 0 .. Size
         /\ Len(Erasers[e].bounds) \in Nat
         /\ DOMAIN Erasers[e].bounds = 1 .. Len(Erasers[e].bounds)
         /\ b < Len(Erasers[e].bounds) => /\ b + 1 \in DOMAIN Erasers[e].bounds
                                          /\ Erasers[e].bounds[b + 1] \in 0 .. Size
                                          /\ Erasers[e].bounds[b] < Erasers[e].bounds[b + 1]
<1>1. /\ Erasers[e].bounds \in Seq(0 .. Size)
      /\ \A c \in 1 .. Len(Erasers[e].bounds) - 1 : Erasers[e].bounds[c] < Erasers[e].bounds[c + 1]
  BY EraserAssumption DEF IsEraser
<1>2. \A S : \A s \in Seq(S) : DOMAIN s = 1 .. Len(s) /\ Len(s) \in Nat /\ \A i \in DOMAIN s : s[i] \in S
  OBVIOUS
<1>3. /\ DOMAIN Erasers[e].bounds = 1 .. Len(Erasers[e].bounds) /\ Len(Erasers[e].bounds) \in Nat
      /\ \A i \in DOMAIN Erasers[e].bounds : Erasers[e].bounds[i] \in 0 .. Size
  BY <1>1, <1>2, Zenon
<1> QED BY <1>1, <1>3, ChipAssumption, SMTT(30)

-----------------------------------------------------------------------------
(* Type correctness.                                                        *)

LEMMA TypeInit == Init => TypeOK
<1> SUFFICES ASSUME Init PROVE TypeOK
  OBVIOUS
<1>1. flash \in Image /\ before \in Image /\ image \in Image /\ included \subseteq Addr
  BY InputAssumption DEF Init
<1>2. oldcontents \in Image /\ newcontents \in Image /\ curcontents \in Image
  BY ChipAssumption DEF Init
<1>3. usable \in Nat /\ faults \in 0 .. MaxFaults
  BY UsableCountType, ChipAssumption DEF Init
<1>4. pc \in Pcs /\ ~InWalk /\ pc # "reread"
  BY DEF Init, Pcs, InWalk
<1>5. lied \in BOOLEAN
  BY DEF Init
<1> QED BY <1>1, <1>2, <1>3, <1>4, <1>5 DEF Init, TypeOK

LEMMA BehavesType ==
  ASSUME TypeOK, NEW ok \in BOOLEAN, Behaves(ok)
  PROVE  faults' \in 0 .. MaxFaults
BY ChipAssumption DEF TypeOK, Behaves

(* A chip write that succeeds moves starthere on; one that fails ends the   *)
(* walk.  The buffers and the verdict stay.                                 *)
LEMMA ChipWriteLeaves ==
  ASSUME ChipWrite
  PROVE  /\ pc = "chip_write"
         /\ UNCHANGED inputs /\ UNCHANGED buffers /\ UNCHANGED verdict
         /\ UNCHANGED <<usable, blk>>
         /\ lied' \in {lied, TRUE, FALSE}
         /\ \/ (\E g \in NextWrite : starthere' = g + Gran) /\ UNCHANGED <<pc, k>>
            \/ WalkFails /\ UNCHANGED starthere
<1>1. pc = "chip_write" /\ UNCHANGED <<inputs, buffers, usable, blk, verdict>>
  BY Zenon DEF ChipWrite
<1>2. PICK last \in NextWrite :
        LET area == UNION {Bytes(g) : g \in NextWrite} IN
          \E took \in SUBSET area, ok \in BOOLEAN :
            /\ lied' = (lied \/ (ok /\ took # area))
            /\ IF ok
               THEN starthere' = last + Gran /\ UNCHANGED <<pc, k>>
               ELSE WalkFails /\ UNCHANGED starthere
  BY Zenon DEF ChipWrite
<1>3. lied' \in {lied, TRUE, FALSE}
  BY <1>2, Zenon
<1>4. \/ starthere' = last + Gran /\ UNCHANGED <<pc, k>>
      \/ WalkFails /\ UNCHANGED starthere
  BY <1>2, Zenon
<1> QED BY <1>1, <1>3, <1>4, Zenon

LEMMA TypeStep == TypeOK /\ [Next]_vars => TypeOK'
<1> SUFFICES ASSUME TypeOK, [Next]_vars PROVE TypeOK'
  OBVIOUS
<1> USE DEF TypeOK, Pcs, InWalk, inputs, buffers, walk, verdict, Return
<1>1. CASE SafetyCheck
  BY <1>1 DEF SafetyCheck
<1>2. CASE ReadFlashToFile
  BY <1>2, BehavesType DEF ReadFlashToFile
<1>3. CASE ReadBufFromFile
  BY <1>3 DEF ReadBufFromFile
<1>4. CASE ReadOld
  <2>1. faults' \in 0 .. MaxFaults
    BY <1>4, BehavesType DEF ReadOld
  <2>2. newcontents' \in Image /\ oldcontents' \in Image
    BY <1>4, HandleRomentriesType DEF ReadOld
  <2> QED BY <1>4, <2>1, <2>2 DEF ReadOld
<1>5. CASE CompareRange
  BY <1>5 DEF CompareRange
<1>6. CASE StartEraseAndWrite
  BY <1>6 DEF StartEraseAndWrite
<1>7. CASE NoEraserLeft
  BY <1>7 DEF NoEraserLeft, EraseAndWriteReturns
<1>8. CASE SkipEraser
  BY <1>8 DEF SkipEraser
<1>9. CASE TryEraser
  <2>1. k \in DOMAIN Erasers
    BY <1>9, EraserAssumption DEF TryEraser
  <2>2. 1 \in DOMAIN Erasers[k].bounds
    BY <2>1, EraserAssumption DEF IsEraser
  <2> QED BY <1>9, <2>1, <2>2 DEF TryEraser
<1>10. CASE WalkSucceeds
  BY <1>10 DEF WalkSucceeds, EraseAndWriteReturns
<1>11. CASE Reread
  BY <1>11, BehavesType DEF Reread, EraseAndWriteReturns
<1>12. CASE BlockHelper
  <2>1. BlockStart \in Nat
    BY <1>12, BoundsType DEF BlockHelper, BlockStart
  <2> QED BY <1>12, <2>1 DEF BlockHelper, ToBlockWrite
<1>13. CASE EraseFn
  <2>1. faults' \in 0 .. MaxFaults
    BY <1>13, BehavesType DEF EraseFn
  <2>2. flash' \in Image
    BY <1>13, FilledType, ChipAssumption DEF EraseFn
  <2> QED BY <1>13, <2>1, <2>2 DEF EraseFn, WalkFails, Usable
<1>14. CASE CheckErasedRange
  <2>1. BlockStart \in Nat
    BY <1>14, BoundsType DEF CheckErasedRange, BlockStart
  <2>2. faults' \in 0 .. MaxFaults
    BY <1>14, BehavesType DEF CheckErasedRange
  <2>3. curcontents' \in Image
    BY <1>14, FilledType, ChipAssumption DEF CheckErasedRange
  <2>4. /\ pc = "check_erased_range"
        /\ UNCHANGED <<flash, oldcontents, newcontents, usable, blk, lied>>
        /\ UNCHANGED inputs /\ UNCHANGED verdict
        /\ \/ ToBlockWrite /\ k' = k
           \/ WalkFails /\ UNCHANGED <<curcontents, starthere>>
    BY <1>14 DEF CheckErasedRange
  <2>5. CASE ToBlockWrite /\ k' = k
    BY <2>1, <2>2, <2>3, <2>4, <2>5 DEF ToBlockWrite, Usable
  <2>6. CASE WalkFails /\ UNCHANGED <<curcontents, starthere>>
    BY <2>2, <2>3, <2>4, <2>6 DEF WalkFails, Usable
  <2> QED BY <2>4, <2>5, <2>6
<1>15. CASE ChipWrite
  <2>1. faults' \in 0 .. MaxFaults
    BY <1>15, BehavesType DEF ChipWrite
  <2>2. flash' \in Image
    BY <1>15, ProgrammedType DEF ChipWrite
  <2>3. \A g \in NextWrite : g + Gran \in Nat
    <3>1. BlockStart \in Nat
      BY <1>15, BoundsType DEF ChipWrite, BlockStart
    <3>2. \A g \in NextWrite : g \in BlockStart .. BlockEnd - Gran
      BY ONLY DEF NextWrite, ToWrite, Granules
    <3>3. \A s \in Nat : \A e : \A g \in s .. e : g \in Nat
      OBVIOUS
    <3>4. \A g \in NextWrite : g \in Nat
      BY ONLY <3>1, <3>2, <3>3
    <3> QED BY ONLY <3>4, ChipAssumption
  <2>4. /\ pc = "chip_write" /\ UNCHANGED <<usable, blk>>
        /\ UNCHANGED inputs /\ UNCHANGED buffers /\ UNCHANGED verdict
    BY ONLY <1>15, ChipWriteLeaves
  <2>5. lied' \in BOOLEAN
    BY <1>15, ChipWriteLeaves
  <2>6. \/ (\E g \in NextWrite : starthere' = g + Gran) /\ UNCHANGED <<pc, k>>
        \/ WalkFails /\ UNCHANGED starthere
    BY ONLY <1>15, ChipWriteLeaves
  <2>7. CASE (\E g \in NextWrite : starthere' = g + Gran) /\ UNCHANGED <<pc, k>>
    <3>1. starthere' \in Nat
      BY <2>3, <2>7
    <3> QED BY <2>1, <2>2, <2>4, <2>5, <2>7, <3>1 DEF Usable
  <2>8. CASE WalkFails /\ UNCHANGED starthere
    BY <2>1, <2>2, <2>4, <2>5, <2>8 DEF WalkFails, Usable
  <2> QED BY <2>6, <2>7, <2>8
<1>16. CASE BlockDone
  BY <1>16, BoundsType DEF BlockDone
<1>17. CASE Recheck
  BY <1>17, BehavesType DEF Recheck
<1>18. CASE VerifyRange
  BY <1>18, BehavesType DEF VerifyRange
<1>19. CASE UNCHANGED vars
  BY <1>19 DEF vars, Usable
<1> QED BY <1>1, <1>2, <1>3, <1>4, <1>5, <1>6, <1>7, <1>8, <1>9, <1>10, <1>11, <1>12,
           <1>13, <1>14, <1>15, <1>16, <1>17, <1>18, <1>19 DEF Next, Step, Terminated

(* Every variable keeps its type, and the block the engine works on is one  *)
(* of the eraser's.                                                         *)
THEOREM Typing == Spec => []TypeOK
BY TypeInit, TypeStep, PTL DEF Spec

-----------------------------------------------------------------------------
(* Only erased bytes are programmed.                                        *)

LEMMA InvInit == Init => IInv
BY TypeInit DEF Init, IInv, CopyIsRightAhead, WorkAhead, StartsRight, BlankAhead

(* The boundaries around the block the engine works on.                     *)
LEMMA BlockBounds ==
  ASSUME TypeOK, InWalk
  PROVE  /\ BlockStart \in Nat
         /\ blk < Len(Erasers[k].bounds) =>
              BlockEnd \in Nat /\ BlockStart < BlockEnd /\ BlockEnd <= Size
<1>1. k \in DOMAIN Erasers /\ blk \in DOMAIN Erasers[k].bounds
  BY DEF TypeOK
<1> QED BY <1>1, BoundsType, ChipAssumption DEF BlockStart, BlockEnd

LEMMA GranuleBounds ==
  ASSUME TypeOK, pc = "chip_write", NEW g \in Granules
  PROVE  /\ g \in Nat /\ BlockStart <= g /\ g + Gran <= BlockEnd
         /\ \A a \in Bytes(g) : a \in Nat /\ g <= a /\ a < g + Gran /\ a \in Block /\ a \in Addr
<1>1. BlockStart \in Nat /\ BlockEnd \in Nat /\ BlockEnd <= Size
  BY BlockBounds DEF InWalk, TypeOK
<1> QED BY <1>1, ChipAssumption DEF Granules, Bytes, Block

LEMMA InvStep == IInv /\ [Next]_vars => IInv'
<1> SUFFICES ASSUME IInv, [Next]_vars PROVE IInv'
  OBVIOUS
<1> USE DEF inputs, buffers, walk, verdict, Return
<1>t. TypeOK /\ TypeOK'
  BY TypeStep DEF IInv
<1>i. CopyIsRightAhead /\ StartsRight /\ BlankAhead
  BY DEF IInv
<1>q. SUFFICES CopyIsRightAhead' /\ StartsRight' /\ BlankAhead'
  BY <1>t DEF IInv
<1>1. CASE SafetyCheck
  BY <1>1, <1>t, <1>i DEF SafetyCheck, CopyIsRightAhead, WorkAhead, StartsRight, BlankAhead
<1>2. CASE ReadFlashToFile
  BY <1>2 DEF ReadFlashToFile, CopyIsRightAhead, WorkAhead, StartsRight, BlankAhead
<1>3. CASE ReadBufFromFile
  BY <1>3 DEF ReadBufFromFile, CopyIsRightAhead, WorkAhead, StartsRight, BlankAhead
<1>4. CASE ReadOld
  BY <1>4 DEF ReadOld, CopyIsRightAhead, WorkAhead, StartsRight, BlankAhead
<1>5. CASE CompareRange
  BY <1>5 DEF CompareRange, CopyIsRightAhead, WorkAhead, StartsRight, BlankAhead
<1>6. CASE StartEraseAndWrite
  BY <1>6, <1>i DEF StartEraseAndWrite, CopyIsRightAhead, WorkAhead, StartsRight, BlankAhead
<1>7. CASE NoEraserLeft
  BY <1>7 DEF NoEraserLeft, EraseAndWriteReturns, CopyIsRightAhead, WorkAhead, StartsRight, BlankAhead
<1>8. CASE SkipEraser
  BY <1>8, <1>i DEF SkipEraser, CopyIsRightAhead, WorkAhead, StartsRight, BlankAhead
<1>9. CASE TryEraser
  BY <1>9, <1>i DEF TryEraser, CopyIsRightAhead, WorkAhead, StartsRight, BlankAhead
<1>10. CASE WalkSucceeds
  BY <1>10 DEF WalkSucceeds, EraseAndWriteReturns, CopyIsRightAhead, WorkAhead, StartsRight, BlankAhead
<1>11. CASE Reread
  BY <1>11 DEF Reread, EraseAndWriteReturns, CopyIsRightAhead, WorkAhead, StartsRight, BlankAhead
<1>12. CASE BlockHelper
  <2>1. BlockStart \in Nat /\ BlockEnd \in Nat /\ BlockStart < BlockEnd
    BY <1>12, <1>t, BlockBounds DEF BlockHelper, InWalk
  <2>2. CopyIsRightAhead'
    <3>1. \A a \in Addr : WorkAhead(a)' => WorkAhead(a)
      BY <1>12, <2>1, ChipAssumption
         DEF BlockHelper, ToBlockWrite, WorkAhead, BlockStart, BlockEnd
    <3> QED BY <1>12, <1>i, <3>1 DEF BlockHelper, ToBlockWrite, CopyIsRightAhead
  <2>3. BlankAhead'
    <3> SUFFICES ASSUME pc' = "chip_write" PROVE BlankAhead'
      BY DEF BlankAhead
    <3>1. ~NeedErase /\ starthere' = BlockStart
      BY <1>12 DEF BlockHelper, ToBlockWrite
    <3>2. ToWrite' \subseteq Granules /\ \A g \in ToWrite' : Differs(curcontents, g)
      BY <1>12 DEF BlockHelper, ToWrite, Granules, Differs, Bytes, BlockStart, BlockEnd
    <3>3. \A g \in ToWrite' : \A a \in Bytes(g) : curcontents[a] = ERASED
      BY <3>1, <3>2 DEF NeedErase
    <3> QED BY <1>12, <2>1, <3>1, <3>3 DEF BlockHelper, BlankAhead, BlockEnd
  <2> QED BY <1>12, <2>2, <2>3 DEF BlockHelper, ToBlockWrite, StartsRight
<1>13. CASE EraseFn
  <2>1. BlockEnd \in Nat
    BY <1>13, <1>t, BlockBounds DEF EraseFn, InWalk, TypeOK
  <2>2. \A a \in Addr : a >= BlockEnd => flash'[a] = flash[a]
    BY <1>13, <2>1, <1>t, ChipAssumption DEF EraseFn, Filled, Block
  <2>3. CopyIsRightAhead'
    BY <1>13, <1>i, <2>2 DEF EraseFn, WalkFails, CopyIsRightAhead, WorkAhead, BlockEnd
  <2> QED BY <1>13, <2>3 DEF EraseFn, WalkFails, StartsRight, BlankAhead
<1>14. CASE CheckErasedRange
  <2>1. BlockStart \in Nat /\ BlockEnd \in Nat /\ BlockStart < BlockEnd /\ BlockEnd <= Size
    BY <1>14, <1>t, BlockBounds DEF CheckErasedRange, InWalk, TypeOK
  <2>2. CASE pc' # "chip_write"
    BY <1>14, <2>2 DEF CheckErasedRange, WalkFails, ToBlockWrite, CopyIsRightAhead,
                       WorkAhead, StartsRight, BlankAhead
  <2>3. CASE pc' = "chip_write"
    <3>1. /\ \A a \in Block : flash[a] = ERASED
          /\ curcontents' = Filled(curcontents, Block, ERASED)
          /\ starthere' = BlockStart /\ k' = k
      BY <1>14, <2>3 DEF CheckErasedRange, WalkFails, ToBlockWrite
    <3>2. CopyIsRightAhead'
      BY <1>14, <1>i, <2>1, <2>3, <3>1, ChipAssumption
         DEF CheckErasedRange, CopyIsRightAhead, WorkAhead, Filled, Block
    <3>3. \A g \in ToWrite' : \A a \in Bytes(g) : curcontents'[a] = ERASED
      <4> SUFFICES ASSUME NEW g \in ToWrite', NEW a \in Bytes(g) PROVE curcontents'[a] = ERASED
        OBVIOUS
      <4>1. g \in BlockStart .. BlockEnd - Gran
        BY <1>14, <3>1 DEF CheckErasedRange, ToWrite, Granules, BlockStart, BlockEnd
      <4>2. a \in Block /\ a \in Addr
        BY <4>1, <2>1, ChipAssumption DEF Bytes, Block
      <4> QED BY <4>2, <3>1, <1>t DEF Filled, TypeOK
    <3>4. starthere' <= BlockEnd'
      BY <1>14, <3>1, <2>1 DEF CheckErasedRange, BlockEnd
    <3> QED BY <2>3, <3>2, <3>3, <3>4 DEF StartsRight, BlankAhead
  <2> QED BY <2>2, <2>3
<1>15. CASE ChipWrite
  <2>1. BlockStart \in Nat /\ BlockEnd \in Nat /\ starthere \in Nat
    BY <1>15, <1>t, BlockBounds DEF ChipWrite, InWalk, TypeOK
  <2>2. CASE pc' # "chip_write"
    BY <1>15, <2>2 DEF ChipWrite, WalkFails, CopyIsRightAhead, WorkAhead, StartsRight, BlankAhead
  <2>3. CASE pc' = "chip_write"
    <3>1. PICK last \in NextWrite :
            /\ \A g \in NextWrite : g <= last
            /\ starthere' = last + Gran /\ k' = k
            /\ \A a \in Addr : flash'[a] = flash[a] \/ \E g \in NextWrite : a \in Bytes(g)
      BY <1>15, <2>3 DEF ChipWrite, WalkFails
    <3>2. last \in Granules /\ last \in Nat /\ starthere <= last /\ last + Gran <= BlockEnd
      BY <1>15, <1>t, <3>1, GranuleBounds DEF ChipWrite, NextWrite, ToWrite
    <3>3. \A a \in Addr : a >= starthere' => flash'[a] = flash[a]
      BY <1>15, <1>t, <3>1, <3>2, GranuleBounds, ChipAssumption DEF ChipWrite, NextWrite, ToWrite
    <3>4. CopyIsRightAhead'
      BY <1>15, <1>i, <2>1, <2>3, <3>1, <3>2, <3>3, ChipAssumption
         DEF ChipWrite, CopyIsRightAhead, WorkAhead
    <3>5. ToWrite' \subseteq ToWrite
      <4>1. Granules' = Granules /\ \A g \in Granules : Differs(curcontents, g)' <=> Differs(curcontents, g)
        BY <1>15, <3>1 DEF ChipWrite, Granules, Differs, BlockStart, BlockEnd
      <4>2. \A g \in Granules : g \in Nat /\ (g >= starthere' => g >= starthere)
        BY <1>15, <1>t, <2>1, <3>1, <3>2, GranuleBounds, ChipAssumption DEF ChipWrite
      <4> QED BY <4>1, <4>2 DEF ToWrite
    <3> QED BY <1>15, <1>i, <2>3, <3>1, <3>2, <3>4, <3>5
            DEF ChipWrite, StartsRight, BlankAhead, BlockEnd
  <2> QED BY <2>2, <2>3
<1>16. CASE BlockDone
  <2>1. BlockEnd \in Nat /\ starthere \in Nat /\ starthere <= BlockEnd
    BY <1>16, <1>t, <1>i, BlockBounds DEF BlockDone, InWalk, TypeOK, BlankAhead
  <2>2. BlockStart' = BlockEnd
    BY <1>16 DEF BlockDone, BlockStart, BlockEnd
  <2> QED BY <1>16, <1>i, <2>1, <2>2, ChipAssumption
          DEF BlockDone, CopyIsRightAhead, WorkAhead, StartsRight, BlankAhead
<1>17. CASE Recheck
  BY <1>17 DEF Recheck, CopyIsRightAhead, WorkAhead, StartsRight, BlankAhead
<1>18. CASE VerifyRange
  BY <1>18 DEF VerifyRange, CopyIsRightAhead, WorkAhead, StartsRight, BlankAhead
<1>19. CASE UNCHANGED vars
  BY <1>19, <1>i DEF vars, CopyIsRightAhead, WorkAhead, StartsRight, BlankAhead, ToWrite,
                     Granules, Differs, BlockStart, BlockEnd
<1> QED BY <1>1, <1>2, <1>3, <1>4, <1>5, <1>6, <1>7, <1>8, <1>9, <1>10, <1>11, <1>12,
           <1>13, <1>14, <1>15, <1>16, <1>17, <1>18, <1>19 DEF Next, Step, Terminated

(* The copy holds what the chip holds wherever the engine still has to work.*)
THEOREM CopyRight == Spec => []CopyIsRightAhead
<1>1. IInv => CopyIsRightAhead
  BY DEF IInv
<1> QED BY <1>1, InvInit, InvStep, PTL DEF Spec

(* The copy says the bytes are blank, and the copy is right there.          *)
LEMMA IInvWrites == IInv => ProgramsOnlyErased
<1> SUFFICES ASSUME IInv, pc = "chip_write", NEW g \in ToWrite, NEW a \in Bytes(g)
             PROVE  flash[a] = ERASED
  BY DEF ProgramsOnlyErased
<1>1. g \in Granules /\ g >= starthere
  BY DEF ToWrite
<1>2. a >= starthere /\ a \in Addr
  BY <1>1, GranuleBounds, ChipAssumption DEF IInv, TypeOK
<1>3. curcontents[a] = ERASED
  BY DEF IInv, BlankAhead
<1> QED BY <1>2, <1>3, ChipAssumption DEF IInv, CopyIsRightAhead, WorkAhead

(* write() is never asked to program a byte the chip does not hold erased.  *)
THEOREM WritesSafe == Spec => []ProgramsOnlyErased
BY IInvWrites, InvInit, InvStep, PTL DEF Spec

-----------------------------------------------------------------------------
(* The engine does not give up while an eraser is left.                     *)

Count == Cardinality(UsableErasers)
Before == {"chip_safety_check", "read_flash_to_file", "read_buf_from_file", "read_old",
           "compare_range", "start_erase_and_write"}
Trying == InWalk \/ pc = "reread"

(* usable counts the erasers whose turn has not come.                       *)
Untried(n, trying) == {e \in UsableErasers : e > n \/ (e = n /\ ~trying)}

(* Each eraser whose turn is over has had a fault of its own; that of an    *)
(* erase may show only in the check that follows.                           *)
RetryInv ==
  /\ pc \in Before => k = 1 /\ usable = Count
  /\ pc = "next_eraser" \/ Trying => usable = Cardinality(Untried(k, Trying))
  /\ usable <= Count
  /\ pc \notin {"chip_safety_check", "done"} /\ job.op = "write" => Count > 0
  /\ pc \in {"next_eraser", "reread"} => faults >= Count - usable
  /\ Trying => usable < Count
  /\ InWalk => faults >= Count - usable - 1
  /\ pc = "check_erased_range" =>
       (\A a \in Block : flash[a] = ERASED) \/ faults >= Count - usable
  /\ pc = "recheck" => IF usable = 0 THEN faults >= Count ELSE faults > Count - usable

LEMMA UntriedCount ==
  ASSUME NEW n, NEW t
  PROVE  IsFiniteSet(Untried(n, t)) /\ Cardinality(Untried(n, t)) \in Nat
<1>1. DOMAIN Erasers = 1 .. Len(Erasers) /\ Len(Erasers) \in Nat
  BY EraserAssumption
<1>2. IsFiniteSet(1 .. Len(Erasers))
  BY <1>1, FS_Interval
<1>3. IsFiniteSet(Untried(n, t))
  BY <1>1, <1>2, FS_Subset DEF UsableErasers, Untried
<1> QED BY <1>3, FS_CardinalityType

LEMMA RetryInit == Init => RetryInv
<1> SUFFICES ASSUME Init PROVE RetryInv
  OBVIOUS
<1>1. Count \in Nat /\ usable = Count
  BY UsableCountType DEF Init, Count
<1> QED BY <1>1 DEF Init, RetryInv, Before, Trying, InWalk

(* A walk that is cut short has had a fault: the rest of the invariant holds*)
(* whether another eraser is left or not.                                   *)
LEMMA CutShort ==
  ASSUME TypeOK, RetryInv, InWalk, WalkFails, usable' = usable, job' = job,
         faults' \in Nat, faults' >= Count - usable
  PROVE  RetryInv'
<1>1. Count \in Nat
  BY UsableCountType DEF Count
<1>2. usable = Cardinality(Untried(k, TRUE)) /\ usable < Count /\ (job.op = "write" => Count > 0)
  BY DEF RetryInv, Trying, InWalk
<1>3. usable \in Nat /\ k \in Nat
  BY DEF TypeOK
<1>4. Count' = Count
  BY DEF Count, UsableErasers, Usable
<1>5. CASE usable = 0
  <2>1. pc' = "next_eraser" /\ k' = k + 1
    BY <1>5 DEF WalkFails
  <2>2. Untried(k + 1, FALSE) = Untried(k, TRUE)
    <3>1. \A e \in UsableErasers : e \in Nat
      BY EraserAssumption DEF UsableErasers
    <3> QED BY <1>3, <3>1 DEF Untried
  <2>3. usable' = Cardinality(Untried(k', Trying'))
    BY <1>2, <2>1, <2>2 DEF Trying, InWalk
  <2>4. Untried(k, Trying)' = Untried(k', Trying')
    BY DEF Untried, UsableErasers, Usable
  <2> QED BY <1>1, <1>2, <1>3, <1>4, <2>1, <2>3, <2>4
          DEF RetryInv, Before, Trying, InWalk
<1>6. CASE usable # 0
  <2>1. pc' = "reread" /\ k' = k
    BY <1>6 DEF WalkFails
  <2>2. usable' = Cardinality(Untried(k', Trying'))
    BY <1>2, <2>1 DEF Trying, Untried
  <2>3. Untried(k, Trying)' = Untried(k', Trying')
    BY DEF Untried, UsableErasers, Usable
  <2> QED BY <1>1, <1>2, <1>3, <1>4, <2>1, <2>2, <2>3
          DEF RetryInv, Before, Trying, InWalk
<1> QED BY <1>5, <1>6

LEMMA RetryStep == TypeOK /\ RetryInv /\ [Next]_vars => RetryInv'
<1> SUFFICES ASSUME TypeOK, RetryInv, [Next]_vars PROVE RetryInv'
  OBVIOUS
<1> USE DEF inputs, buffers, walk, verdict, Return
<1>c. Count \in Nat
  BY UsableCountType DEF Count
<1>p. Count' = Count /\ \A n, t : Untried(n, t)' = Untried(n, t)
  BY DEF Count, Untried, UsableErasers, Usable
<1>t. usable \in Nat /\ faults \in Nat /\ k \in Nat \ {0}
  BY DEF TypeOK
<1>e. \A e \in UsableErasers : e \in Nat \ {0}
  BY EraserAssumption DEF UsableErasers
<1> USE DEF RetryInv, Before, Trying, InWalk
<1>1. CASE SafetyCheck
  <2>1. Safe /\ job.op = "write" => Count > 0
    <3>1. \A S : IsFiniteSet(S) => (Cardinality(S) = 0 <=> S = {})
      BY FS_EmptySet
    <3>2. UsableErasers # {} => Count > 0
      BY <1>c, <3>1, UsableCountType DEF Count
    <3> QED BY <3>2 DEF Safe
  <2>2. pc' \in Before \cup {"done"} /\ pc = "chip_safety_check"
        /\ k' = k /\ usable' = usable /\ job' = job /\ faults' = faults
    BY <1>1 DEF SafetyCheck
  <2>3. pc' # "done" => Safe
    BY <1>1 DEF SafetyCheck
  <2>4. job.op = "write" /\ pc' # "done" => Count > 0
    BY <2>1, <2>3
  <2> QED BY <1>c, <1>p, <1>t, <2>2, <2>4
<1>2. CASE ReadFlashToFile
  BY <1>2, <1>c, <1>p, <1>t DEF ReadFlashToFile
<1>3. CASE ReadBufFromFile
  BY <1>3, <1>c, <1>p, <1>t DEF ReadBufFromFile
<1>4. CASE ReadOld
  BY <1>4, <1>c, <1>p, <1>t DEF ReadOld
<1>5. CASE CompareRange
  BY <1>5, <1>c, <1>p, <1>t DEF CompareRange
<1>6. CASE StartEraseAndWrite
  <2>1. Untried(1, FALSE) = UsableErasers
    BY <1>e DEF Untried
  <2>2. pc' = "next_eraser" /\ k' = 1 /\ usable' = Count /\ faults' = faults
        /\ job' = job /\ pc = "start_erase_and_write"
    BY <1>6 DEF StartEraseAndWrite
  <2>3. Untried(k, Trying)' = Untried(k', Trying')
    BY DEF Untried, UsableErasers, Usable
  <2>4. usable' = Cardinality(Untried(k', Trying'))
    BY <2>1, <2>2 DEF Count
  <2> QED BY <1>c, <1>p, <1>t, <2>2, <2>3, <2>4
<1>7. CASE NoEraserLeft
  <2>1. usable = Cardinality(Untried(k, FALSE))
    BY <1>7 DEF NoEraserLeft
  <2>2. usable = 0
    <3> SUFFICES ASSUME k > Len(Erasers) PROVE usable = 0
      BY <1>7 DEF NoEraserLeft
    <3>1. \A e \in UsableErasers : e \in 1 .. Len(Erasers)
      BY EraserAssumption DEF UsableErasers
    <3>2. Untried(k, FALSE) = {}
      BY <1>t, <3>1, EraserAssumption DEF Untried
    <3> QED BY <2>1, <3>2, FS_EmptySet
  <2>3. faults >= Count
    BY <1>7, <1>c, <2>2 DEF NoEraserLeft
  <2> QED BY <1>7, <1>c, <1>p, <1>t, <2>2, <2>3 DEF NoEraserLeft, EraseAndWriteReturns, Count
<1>8. CASE SkipEraser
  <2>1. k \notin UsableErasers
    BY <1>8 DEF SkipEraser, UsableErasers
  <2>2. Untried(k + 1, FALSE) = Untried(k, FALSE)
    BY <1>t, <1>e, <2>1 DEF Untried
  <2>3. pc = "next_eraser" /\ pc' = pc /\ k' = k + 1 /\ usable' = usable
        /\ faults' = faults /\ job' = job
    BY <1>8 DEF SkipEraser
  <2>4. Untried(k, Trying)' = Untried(k', Trying')
    BY DEF Untried, UsableErasers, Usable
  <2>5. usable' = Cardinality(Untried(k', Trying'))
    BY <2>2, <2>3
  <2> QED BY <1>c, <1>p, <1>t, <2>3, <2>4, <2>5
<1>9. CASE TryEraser
  <2>1. k \in UsableErasers
    BY <1>9, <1>t, EraserAssumption DEF TryEraser, UsableErasers
  <2>2. Untried(k, TRUE) = Untried(k, FALSE) \ {k} /\ k \in Untried(k, FALSE)
    BY <1>t, <1>e, <2>1 DEF Untried
  <2>3. Cardinality(Untried(k, TRUE)) = Cardinality(Untried(k, FALSE)) - 1
    BY <2>2, UntriedCount, FS_RemoveElement
  <2>4. pc = "next_eraser" /\ pc' = "walk_eraseregions" /\ k' = k /\ usable' = usable - 1
        /\ usable > 0 /\ faults' = faults /\ job' = job
    BY <1>9 DEF TryEraser
  <2>5. Untried(k, Trying)' = Untried(k', Trying')
    BY DEF Untried, UsableErasers, Usable
  <2>6. usable' = Cardinality(Untried(k', Trying'))
    BY <2>3, <2>4
  <2> QED BY <1>c, <1>p, <1>t, <2>4, <2>5, <2>6
<1>10. CASE WalkSucceeds
  BY <1>10, <1>c, <1>p, <1>t DEF WalkSucceeds, EraseAndWriteReturns
<1>11. CASE Reread
  <2>1. /\ pc = "reread" /\ usable' = usable /\ job' = job
        /\ faults' \in {faults, faults + 1}
    BY <1>11 DEF Reread, Behaves
  <2>2. CASE pc' = "next_eraser" /\ k' = k + 1
    <3>1. Untried(k + 1, FALSE) = Untried(k, TRUE)
      BY <1>t, <1>e DEF Untried
    <3>2. Untried(k, Trying)' = Untried(k', Trying')
      BY DEF Untried, UsableErasers, Usable
    <3>3. usable' = Cardinality(Untried(k', Trying'))
      BY <2>1, <2>2, <3>1
    <3> QED BY <1>c, <1>p, <1>t, <2>1, <2>2, <3>2, <3>3
  <2>3. CASE faults' = faults + 1 /\ EraseAndWriteReturns(1)
    <3>1. faults' > Count - usable /\ (usable = 0 => faults' >= Count)
      BY <1>c, <1>t, <2>1, <2>3
    <3> QED BY <1>c, <1>p, <1>t, <2>1, <2>3, <3>1 DEF EraseAndWriteReturns
  <2> QED BY <1>11, <2>2, <2>3 DEF Reread, Behaves
<1>w. ASSUME InWalk, pc' \in {"walk_eraseregions", "erasefn", "chip_write"},
             UNCHANGED <<k, usable, job>>, faults' >= faults, faults' \in Nat
      PROVE  RetryInv'
  <2>1. Untried(k, Trying)' = Untried(k, Trying)
    BY <1>w DEF Untried, UsableErasers, Usable
  <2> QED BY <1>c, <1>p, <1>t, <1>w, <2>1
<1>12. CASE BlockHelper
  BY <1>12, <1>t, <1>w DEF BlockHelper, ToBlockWrite
<1>13. CASE EraseFn
  <2>1. PICK took \in SUBSET Block, ok \in BOOLEAN :
          /\ Behaves(ok /\ took = Block)
          /\ flash' = Filled(flash, took, ERASED)
          /\ IF ok THEN pc' = "check_erased_range" /\ k' = k ELSE WalkFails
    BY <1>13 DEF EraseFn
  <2>2. pc = "erasefn" /\ UNCHANGED <<usable, blk, job>>
    BY <1>13 DEF EraseFn
  <2>3. faults >= Count - usable - 1 /\ faults' \in Nat
    BY <1>t, <2>1, <2>2 DEF Behaves
  <2>4. CASE ~ok
    <3>1. faults' >= Count - usable
      BY <1>c, <1>t, <2>1, <2>3, <2>4 DEF Behaves
    <3> QED BY <2>1, <2>2, <2>3, <2>4, <3>1, CutShort
  <2>5. CASE ok
    <3>1. pc' = "check_erased_range" /\ k' = k
      BY <2>1, <2>5
    <3>2. Block' = Block
      BY <2>2, <3>1 DEF Block, BlockStart, BlockEnd
    <3>3. (\A a \in Block : flash'[a] = ERASED) \/ faults' >= Count - usable
      <4>1. CASE took = Block
        <5>1. Block \subseteq Addr
          <6>1. k \in DOMAIN Erasers /\ blk \in DOMAIN Erasers[k].bounds
                /\ blk < Len(Erasers[k].bounds)
            BY <2>2 DEF TypeOK
          <6>2. BlockStart \in 0 .. Size /\ BlockEnd \in 0 .. Size
            BY <6>1, BoundsType DEF BlockStart, BlockEnd
          <6> QED BY <6>2, ChipAssumption DEF Block
        <5> QED BY <2>1, <4>1, <5>1 DEF Filled
      <4>2. CASE took # Block
        BY <1>c, <1>t, <2>1, <2>3, <4>2 DEF Behaves
      <4> QED BY <4>1, <4>2
    <3>4. faults' >= faults
      BY <1>t, <2>1 DEF Behaves
    <3>5. Untried(k, Trying)' = Untried(k, Trying)
      BY <2>2, <3>1 DEF Untried, UsableErasers, Usable
    <3> QED BY <1>c, <1>p, <1>t, <2>2, <2>3, <3>1, <3>2, <3>3, <3>4, <3>5
  <2> QED BY <2>4, <2>5
<1>14. CASE CheckErasedRange
  <2>1. PICK ok \in BOOLEAN :
          /\ Behaves(ok)
          /\ IF ok /\ \A a \in Block : flash[a] = ERASED
             THEN ToBlockWrite /\ k' = k
             ELSE WalkFails
    BY <1>14 DEF CheckErasedRange
  <2>2. pc = "check_erased_range" /\ UNCHANGED <<usable, blk, job>>
    BY <1>14 DEF CheckErasedRange
  <2>3. faults' >= faults /\ faults' \in Nat
    BY <1>t, <2>1 DEF Behaves
  <2>4. CASE ok /\ \A a \in Block : flash[a] = ERASED
    BY <1>w, <2>1, <2>2, <2>3, <2>4 DEF ToBlockWrite
  <2>5. CASE ~(ok /\ \A a \in Block : flash[a] = ERASED)
    <3>1. faults' >= Count - usable
      <4>1. CASE ok
        BY <1>c, <1>t, <2>1, <2>2, <2>3, <2>5, <4>1
      <4>2. CASE ~ok
        BY <1>c, <1>t, <2>1, <2>2, <4>2 DEF Behaves
      <4> QED BY <4>1, <4>2
    <3> QED BY <2>1, <2>2, <2>3, <2>5, <3>1, CutShort
  <2> QED BY <2>4, <2>5
<1>15. CASE ChipWrite
  <2>1. pc = "chip_write" /\ UNCHANGED <<usable, blk, job>>
    BY <1>15 DEF ChipWrite
  <2>2. \/ faults' \in {faults, faults + 1} /\ UNCHANGED <<pc, k>>
        \/ faults' = faults + 1 /\ WalkFails
    BY <1>15 DEF ChipWrite, Behaves
  <2>3. CASE faults' \in {faults, faults + 1} /\ UNCHANGED <<pc, k>>
    <3>1. faults' >= faults /\ faults' \in Nat
      BY <1>t, <2>3
    <3> QED BY <1>w, <2>1, <2>3, <3>1
  <2>4. CASE faults' = faults + 1 /\ WalkFails
    <3>1. faults' >= Count - usable /\ faults' \in Nat
      BY <1>c, <1>t, <2>1, <2>4
    <3> QED BY <2>1, <2>4, <3>1, CutShort
  <2> QED BY <2>2, <2>3, <2>4
<1>16. CASE BlockDone
  BY <1>16, <1>t, <1>w DEF BlockDone
<1>17. CASE Recheck
  BY <1>17, <1>c, <1>p, <1>t DEF Recheck
<1>18. CASE VerifyRange
  BY <1>18, <1>c, <1>p, <1>t DEF VerifyRange
<1>19. CASE UNCHANGED vars
  <2>1. UNCHANGED <<pc, k, usable, job, faults, blk, flash>>
    BY <1>19 DEF vars
  <2>2. Untried(k, Trying)' = Untried(k, Trying)
    BY <2>1 DEF Untried, UsableErasers, Usable
  <2>3. Block' = Block
    BY <2>1 DEF Block, BlockStart, BlockEnd
  <2> QED BY <1>c, <1>p, <1>t, <2>1, <2>2, <2>3
<1> QED BY <1>1, <1>2, <1>3, <1>4, <1>5, <1>6, <1>7, <1>8, <1>9, <1>10, <1>11, <1>12,
           <1>13, <1>14, <1>15, <1>16, <1>17, <1>18, <1>19 DEF Next, Step, Terminated

(* doit() gives up a write only when each usable eraser has had a fault of  *)
(* its own, or when the chip could not be read again after one of them.     *)
THEOREM EachEraserTried == Spec => []RetriesAnotherEraser
<1>1. RetryInv => RetriesAnotherEraser
  BY DEF RetryInv, RetriesAnotherEraser, Count
<1> QED BY <1>1, TypeInit, TypeStep, RetryInit, RetryStep, PTL DEF Spec

-----------------------------------------------------------------------------
(* The refinement of FlashUpdate: whatever fails, the verdict of doit() is  *)
(* true. It takes one assumption more than the rest, that no block of the   *)
(* chip is cut by a granule.                                                *)

(* Division with remainder.                                                 *)
LEMMA DivMod ==
  ASSUME NEW n \in Nat, NEW d \in Nat \ {0}
  PROVE  /\ n \div d \in Nat /\ n % d \in 0 .. d - 1
         /\ n = d * (n \div d) + (n % d)
<1>1. n % d \in 0 .. d - 1
  OBVIOUS
<1>2. n \div d \in Nat
  OBVIOUS
<1>3. n % d = n - d * (n \div d)
  BY Z3
<1> QED BY <1>1, <1>2, <1>3

(* A multiple leaves no remainder.                                          *)
LEMMA MultipleMod ==
  ASSUME NEW q \in Nat, NEW d \in Nat \ {0}
  PROVE  (d * q) % d = 0
<1> DEFINE n == d * q  p == n \div d  r == n % d
<1>1. n \in Nat
  OBVIOUS
<1>2. p \in Nat /\ r \in 0 .. d - 1 /\ n = d * p + r
  BY <1>1, DivMod
<1>3. r = d * (q - p)
  BY <1>2
<1>4. CASE q - p >= 1
  <2>1. d * (q - p) >= d
    BY <1>2, <1>4
  <2> QED BY <1>2, <1>3, <2>1
<1>5. CASE q - p <= 0
  <2>1. d * (q - p) <= 0
    BY <1>2, <1>5
  <2> QED BY <1>2, <1>3, <2>1
<1> QED BY <1>2, <1>4, <1>5

(* There is no multiple strictly between two that follow each other.        *)
LEMMA NoMultipleBetween ==
  ASSUME NEW d \in Nat \ {0}, NEW m \in Nat, NEW n \in Nat,
         m % d = 0, n % d = 0, m < n + d
  PROVE  m <= n
<1> DEFINE p == m \div d  q == n \div d
<1>1. p \in Nat /\ m = d * p /\ q \in Nat /\ n = d * q
  BY DivMod
<1>2. SUFFICES ASSUME q + 1 <= p PROVE FALSE
  <2>1. p <= q => d * p <= d * q
    BY <1>1
  <2> QED BY <1>1, <2>1
<1>3. d * (q + 1) <= d * p
  BY <1>1, <1>2
<1>4. d * (q + 1) = d * q + d
  BY <1>1
<1> QED BY <1>1, <1>3, <1>4

(* Every byte of a stretch of whole granules is in one of them.             *)
LEMMA InAGranule ==
  ASSUME NEW d \in Nat \ {0}, NEW s \in Nat, NEW e \in Nat, NEW a \in Nat,
         s <= a, a < e, (e - s) % d = 0
  PROVE  \E g \in s .. e - d : (g - s) % d = 0 /\ a \in g .. g + d - 1
<1> DEFINE q == (a - s) \div d  m == (e - s) \div d
<1>0. a - s \in Nat /\ e - s \in Nat
  OBVIOUS
<1>1. q \in Nat /\ (a - s) % d \in 0 .. d - 1 /\ a - s = d * q + ((a - s) % d)
  BY <1>0, DivMod
<1>2. m \in Nat /\ e - s = d * m
  BY <1>0, DivMod
<1>3. q < m
  <2> SUFFICES ASSUME m <= q PROVE FALSE
    BY <1>1, <1>2
  <2>1. d * m <= d * q
    BY <1>1, <1>2
  <2> QED BY <1>1, <1>2, <2>1
<1>4. d * (q + 1) <= d * m
  BY <1>1, <1>2, <1>3
<1>5. d * q \in Nat /\ (d * q) % d = 0 /\ d * (q + 1) = d * q + d
  BY <1>1, MultipleMod
<1>6. PICK x \in Nat : x % d = 0 /\ x + d <= e - s /\ x <= a - s /\ a - s < x + d
  <2>1. d * q + d <= e - s /\ d * q <= a - s /\ a - s < d * q + d
    BY <1>1, <1>2, <1>4, <1>5
  <2> QED BY <1>5, <2>1
<1> HIDE DEF q, m
<1>7. s + x \in s .. e - d /\ (s + x) - s = x /\ a \in s + x .. (s + x) + d - 1
  BY <1>6
<1> QED BY <1>6, <1>7

-----------------------------------------------------------------------------
(* The strengthening.                                                       *)

(* The blocks of a chip are whole granules of the write helper.             *)
WholeGranules ==
  \A e \in UsableErasers : \A b \in 1 .. Len(Erasers[e].bounds) - 1 :
    (Erasers[e].bounds[b + 1] - Erasers[e].bounds[b]) % Gran = 0

Engine == {"start_erase_and_write", "next_eraser", "walk_eraseregions", "erasefn",
           "check_erased_range", "chip_write", "reread", "recheck", "verify_range"}

(* Which request gets how far, and what the buffers hold then.              *)
Requests ==
  /\ pc \notin {"chip_safety_check", "done"} => Safe
  /\ pc = "chip_safety_check" => newcontents = [a \in Addr |-> ERASED]
  /\ pc = "read_flash_to_file" => job.op = "read"
  /\ pc \in {"read_buf_from_file", "read_old"} => job.op \in {"write", "verify"}
  /\ pc = "read_old" => newcontents = image
  /\ pc = "compare_range" => job.op = "verify" /\ oldcontents = before
  /\ pc \in Engine => job.op \in {"write", "erase"}
  /\ pc \in Engine \cup {"compare_range"} => newcontents = Wanted
  /\ pc \in Engine /\ job.op = "write" => oldcontents = before
  /\ pc \in {"recheck", "verify_range"} => job.op = "write"

(* The chip is not touched before the engine starts, and an erase never     *)
(* comes to depend on a write.                                              *)
Untouched == (pc \in Before => flash = before /\ ~lied) /\ (job.op = "erase" => ~lied)

(* What lies behind the engine is as wanted, unless the chip has lied.      *)
Right(a) == flash[a] = newcontents[a] \/ lied

BehindIsRight ==
  /\ InWalk => \A a \in Addr : a < BlockStart => Right(a)
  /\ pc = "chip_write" =>
       \A g \in Granules : g < starthere => \A a \in Bytes(g) : Right(a)

VerdictInv == Requests /\ Untouched /\ BehindIsRight

-----------------------------------------------------------------------------
(* It is inductive.                                                         *)

LEMMA VerdictInit == Init => VerdictInv
BY DEF Init, VerdictInv, Requests, Before, Engine, Untouched, BehindIsRight, InWalk

(* With whole granules, a block is right when its granules are.             *)
LEMMA BlockIsGranules ==
  ASSUME WholeGranules, TypeOK, pc = "chip_write", NEW a \in Block
  PROVE  \E g \in Granules : a \in Bytes(g)
<1>1. /\ BlockStart \in Nat /\ BlockEnd \in Nat
      /\ k \in UsableErasers /\ blk \in 1 .. Len(Erasers[k].bounds) - 1
  <2>1. k \in DOMAIN Erasers /\ Usable(k) /\ blk \in DOMAIN Erasers[k].bounds
        /\ blk < Len(Erasers[k].bounds)
    BY DEF TypeOK, InWalk
  <2>2. DOMAIN Erasers[k].bounds = 1 .. Len(Erasers[k].bounds) /\ Len(Erasers[k].bounds) \in Nat
    BY <2>1, BoundsType
  <2>3. BlockStart \in Nat /\ BlockEnd \in Nat
    BY <2>1, BlockBounds DEF InWalk
  <2> QED BY <2>1, <2>2, <2>3 DEF UsableErasers
<1>2. (BlockEnd - BlockStart) % Gran = 0
  BY <1>1 DEF WholeGranules, BlockStart, BlockEnd
<1>3. a \in Nat /\ BlockStart <= a /\ a < BlockEnd
  BY <1>1 DEF Block
<1>4. \E g \in BlockStart .. BlockEnd - Gran :
        (g - BlockStart) % Gran = 0 /\ a \in g .. g + Gran - 1
  BY <1>1, <1>2, <1>3, InAGranule, ChipAssumption
<1> QED BY <1>4 DEF Granules, Bytes

(* An erase leaves nothing to write: what was erased is what was wanted.    *)
LEMMA EraseWritesNothing ==
  ASSUME IInv, Requests, pc = "chip_write", job.op = "erase"
  PROVE  ToWrite = {}
<1> SUFFICES ASSUME NEW g \in ToWrite PROVE FALSE
  OBVIOUS
<1>1. PICK a \in Bytes(g) : curcontents[a] # newcontents[a]
  BY DEF ToWrite, Differs
<1>2. a \in Addr
  BY GranuleBounds DEF IInv, ToWrite
<1>3. newcontents[a] = ERASED
  BY <1>2 DEF Requests, Engine, Wanted
<1>4. curcontents[a] = ERASED
  BY <1>1 DEF IInv, BlankAhead
<1> QED BY <1>1, <1>3, <1>4

(* A granule that is ahead and does not differ is right on the chip.        *)
LEMMA EqualIsRight ==
  ASSUME IInv, Requests, pc = "chip_write", NEW g \in Granules,
         g >= starthere, ~Differs(curcontents, g), NEW a \in Bytes(g)
  PROVE  flash[a] = newcontents[a]
<1>1. a \in Addr /\ a >= starthere
  BY GranuleBounds DEF IInv, TypeOK
<1>2. curcontents[a] = newcontents[a]
  BY DEF Differs
<1>3. curcontents[a] = flash[a] \/ (job.op = "erase" /\ curcontents[a] = ZERO)
  BY <1>1 DEF IInv, CopyIsRightAhead, WorkAhead
<1>4. job.op = "erase" => newcontents[a] = ERASED
  BY <1>1 DEF Requests, Engine, Wanted
<1> QED BY <1>2, <1>3, <1>4, ChipAssumption

LEMMA RequestsStep ==
  ASSUME TypeOK, Requests, Untouched, [Next]_vars
  PROVE  Requests'
<1> USE DEF inputs, buffers, walk, verdict, Return, Requests, Engine
<1>s. UNCHANGED inputs => (Safe' <=> Safe) /\ Wanted' = Wanted
  BY DEF Safe, Wanted, Goal, HandleRomentries, UsableErasers, Usable
<1>1. CASE SafetyCheck
  <2>1. job.op = "erase" => newcontents = Wanted
    BY <1>1 DEF SafetyCheck, Wanted
  <2>2. job.op \in {"read", "write", "erase", "verify"}
    BY InputAssumption DEF TypeOK, JobType
  <2> QED BY <1>1, <1>s, <2>1, <2>2 DEF SafetyCheck
<1>2. CASE ReadFlashToFile
  BY <1>2, <1>s DEF ReadFlashToFile
<1>3. CASE ReadBufFromFile
  BY <1>3, <1>s DEF ReadBufFromFile
<1>4. CASE ReadOld
  <2>1. flash = before /\ newcontents = image /\ job.op \in {"write", "verify"} /\ Safe
    BY <1>4 DEF ReadOld, Untouched, Before
  <2>2. HandleRomentries(flash, newcontents) = Wanted
    BY <2>1 DEF Wanted, Goal
  <2> QED BY <1>4, <1>s, <2>1, <2>2 DEF ReadOld
<1>5. CASE CompareRange
  BY <1>5, <1>s DEF CompareRange
<1>6. CASE StartEraseAndWrite
  BY <1>6, <1>s DEF StartEraseAndWrite
<1>7. CASE NoEraserLeft
  BY <1>7, <1>s DEF NoEraserLeft, EraseAndWriteReturns
<1>8. CASE SkipEraser
  BY <1>8, <1>s DEF SkipEraser
<1>9. CASE TryEraser
  BY <1>9, <1>s DEF TryEraser
<1>10. CASE WalkSucceeds
  BY <1>10, <1>s DEF WalkSucceeds, EraseAndWriteReturns
<1>11. CASE Reread
  BY <1>11, <1>s DEF Reread, EraseAndWriteReturns
<1>12. CASE BlockHelper
  BY <1>12, <1>s DEF BlockHelper, ToBlockWrite
<1>13. CASE EraseFn
  BY <1>13, <1>s DEF EraseFn, WalkFails
<1>14. CASE CheckErasedRange
  BY <1>14, <1>s DEF CheckErasedRange, WalkFails, ToBlockWrite
<1>15. CASE ChipWrite
  BY <1>15, <1>s DEF ChipWrite, WalkFails
<1>16. CASE BlockDone
  BY <1>16, <1>s DEF BlockDone
<1>17. CASE Recheck
  BY <1>17, <1>s DEF Recheck
<1>18. CASE VerifyRange
  BY <1>18, <1>s DEF VerifyRange
<1>19. CASE UNCHANGED vars
  BY <1>19, <1>s DEF vars
<1> QED BY <1>1, <1>2, <1>3, <1>4, <1>5, <1>6, <1>7, <1>8, <1>9, <1>10, <1>11, <1>12,
           <1>13, <1>14, <1>15, <1>16, <1>17, <1>18, <1>19 DEF Next, Step, Terminated

LEMMA UntouchedStep ==
  ASSUME IInv, Requests, Untouched, [Next]_vars
  PROVE  Untouched'
<1> USE DEF inputs, buffers, walk, verdict, Return, Untouched, Before
<1>1. CASE SafetyCheck
  BY <1>1 DEF SafetyCheck
<1>2. CASE ReadFlashToFile
  BY <1>2 DEF ReadFlashToFile
<1>3. CASE ReadBufFromFile
  BY <1>3 DEF ReadBufFromFile
<1>4. CASE ReadOld
  BY <1>4 DEF ReadOld
<1>5. CASE CompareRange
  BY <1>5 DEF CompareRange
<1>6. CASE StartEraseAndWrite
  BY <1>6 DEF StartEraseAndWrite
<1>7. CASE NoEraserLeft
  BY <1>7 DEF NoEraserLeft, EraseAndWriteReturns
<1>8. CASE SkipEraser
  BY <1>8 DEF SkipEraser
<1>9. CASE TryEraser
  BY <1>9 DEF TryEraser
<1>10. CASE WalkSucceeds
  BY <1>10 DEF WalkSucceeds, EraseAndWriteReturns
<1>11. CASE Reread
  BY <1>11 DEF Reread, EraseAndWriteReturns
<1>12. CASE BlockHelper
  BY <1>12 DEF BlockHelper, ToBlockWrite
<1>13. CASE EraseFn
  BY <1>13 DEF EraseFn, WalkFails
<1>14. CASE CheckErasedRange
  BY <1>14 DEF CheckErasedRange, WalkFails, ToBlockWrite
<1>15. CASE ChipWrite
  <2>1. job.op # "erase"
    BY <1>15, EraseWritesNothing DEF ChipWrite
  <2> QED BY <1>15, <2>1 DEF ChipWrite, WalkFails
<1>16. CASE BlockDone
  BY <1>16 DEF BlockDone
<1>17. CASE Recheck
  BY <1>17 DEF Recheck
<1>18. CASE VerifyRange
  BY <1>18 DEF VerifyRange
<1>19. CASE UNCHANGED vars
  BY <1>19 DEF vars
<1> QED BY <1>1, <1>2, <1>3, <1>4, <1>5, <1>6, <1>7, <1>8, <1>9, <1>10, <1>11, <1>12,
           <1>13, <1>14, <1>15, <1>16, <1>17, <1>18, <1>19 DEF Next, Step, Terminated

(* Buffers that agree everywhere are the same.                              *)
LEMMA SameImage ==
  ASSUME NEW have \in Image, NEW want \in Image, \A a \in Addr : have[a] = want[a]
  PROVE  have = want
<1>1. have = [a \in Addr |-> have[a]] /\ want = [a \in Addr |-> want[a]]
  OBVIOUS
<1>2. [a \in Addr |-> have[a]] = [a \in Addr |-> want[a]]
  OBVIOUS
<1> QED BY <1>1, <1>2

(* Two granules of a block are a multiple of a granule apart.               *)
LEMMA SameGrid ==
  ASSUME NEW g \in Granules, NEW h \in Granules, BlockStart \in Nat, g < h + Gran,
         g \in Nat, h \in Nat
  PROVE  g <= h
<1>1. g - BlockStart \in Nat /\ h - BlockStart \in Nat
  BY ChipAssumption DEF Granules
<1>2. (g - BlockStart) % Gran = 0 /\ (h - BlockStart) % Gran = 0
  BY DEF Granules
<1>3. g - BlockStart < (h - BlockStart) + Gran
  BY ChipAssumption
<1>4. g - BlockStart <= h - BlockStart
  BY <1>1, <1>2, <1>3, NoMultipleBetween, ChipAssumption
<1> QED BY <1>4

LEMMA BehindStep ==
  ASSUME WholeGranules, IInv, Requests, BehindIsRight, [Next]_vars
  PROVE  BehindIsRight'
<1> USE DEF inputs, buffers, walk, verdict, Return, InWalk
<1>t. TypeOK
  BY DEF IInv
<1>i. /\ InWalk => \A a \in Addr : a < BlockStart => Right(a)
      /\ pc = "chip_write" =>
           \A g \in Granules : g < starthere => \A a \in Bytes(g) : Right(a)
  BY DEF BehindIsRight
(* Nothing has changed but that the block is to be written from its start.  *)
<1>b. ASSUME InWalk, UNCHANGED <<k, blk, flash, newcontents, lied>>,
             pc' = "chip_write" => starthere' = BlockStart
      PROVE  BehindIsRight'
  <2>1. BlockStart' = BlockStart /\ BlockEnd' = BlockEnd /\ Granules' = Granules
    BY <1>b DEF BlockStart, BlockEnd, Granules
  <2>2. \A g \in Granules : ~(g < BlockStart)
    BY <1>b, <1>t, BlockBounds DEF Granules
  <2>3. \A a : Right(a)' <=> Right(a)
    BY <1>b DEF Right
  <2> QED BY <1>b, <1>i, <2>1, <2>2, <2>3 DEF BehindIsRight
<1>o. ASSUME ~InWalk' PROVE BehindIsRight'
  BY <1>o DEF BehindIsRight
<1>9. CASE TryEraser
  <2>1. k \in DOMAIN Erasers
    BY <1>9, <1>t, EraserAssumption DEF TryEraser, TypeOK
  <2>2. BlockStart' = 0 /\ pc' = "walk_eraseregions"
    BY <1>9, <2>1, EraserAssumption DEF TryEraser, BlockStart, IsEraser
  <2> QED BY <2>2, ChipAssumption DEF BehindIsRight
<1>12. CASE BlockHelper
  BY <1>12, <1>b DEF BlockHelper, ToBlockWrite
<1>13. CASE EraseFn
  <2>1. CASE ~InWalk'
    BY <1>o, <2>1
  <2>2. CASE InWalk'
    <3>1. /\ pc = "erasefn" /\ pc' = "check_erased_range" /\ k' = k /\ blk' = blk
          /\ newcontents' = newcontents /\ lied' = lied
      BY <1>13, <2>2 DEF EraseFn, WalkFails
    <3>2. PICK took \in SUBSET Block : flash' = Filled(flash, took, ERASED)
      BY <1>13 DEF EraseFn
    <3>3. BlockStart \in Nat /\ BlockEnd \in Nat /\ BlockStart' = BlockStart
      BY <1>t, <3>1, BlockBounds DEF BlockStart, TypeOK
    <3>4. \A a \in Addr : a < BlockStart => flash'[a] = flash[a]
      BY <3>2, <3>3, ChipAssumption DEF Filled, Block
    <3> QED BY <1>i, <3>1, <3>3, <3>4 DEF BehindIsRight, Right
  <2> QED BY <2>1, <2>2
<1>14. CASE CheckErasedRange
  <2>1. InWalk' => k' = k /\ pc' = "chip_write" /\ starthere' = BlockStart
    BY <1>14 DEF CheckErasedRange, WalkFails, ToBlockWrite
  <2> QED BY <1>14, <1>b, <1>o, <2>1 DEF CheckErasedRange
<1>15. CASE ChipWrite
  <2>1. CASE ~InWalk'
    BY <1>o, <2>1
  <2>2. CASE InWalk'
    <3> DEFINE area == UNION {Bytes(g) : g \in NextWrite}
    <3>1. PICK last \in NextWrite, took \in SUBSET area :
            /\ starthere' = last + Gran /\ k' = k /\ pc' = "chip_write"
            /\ flash' = [a \in Addr |-> IF a \in took THEN Programmed(flash[a], newcontents[a])
                                                      ELSE flash[a]]
            /\ lied' = (lied \/ took # area)
      BY <1>15, <2>2 DEF ChipWrite, WalkFails
    <3>2. pc = "chip_write" /\ blk' = blk /\ newcontents' = newcontents
      BY <1>15 DEF ChipWrite
    <3>3. /\ BlockStart' = BlockStart /\ BlockEnd' = BlockEnd /\ Granules' = Granules
          /\ BlockStart \in Nat /\ starthere \in Nat
      BY <1>t, <3>1, <3>2, BlockBounds DEF BlockStart, BlockEnd, Granules, TypeOK
    <3>4. \A g \in NextWrite : g \in Granules /\ g \in ToWrite
      BY DEF NextWrite, ToWrite
    <3>5. \A a \in area : a \in Addr /\ ~(a < BlockStart)
      BY <1>t, <3>2, <3>3, <3>4, GranuleBounds
    <3>6. \A a \in area : flash[a] = ERASED
      BY <1>t, <3>2, <3>4, IInvWrites DEF ProgramsOnlyErased
    <3>7. \A a \in Addr : \/ lied'
                          \/ a \notin area /\ flash'[a] = flash[a]
                          \/ a \in area /\ flash'[a] = newcontents[a]
      BY <3>1, <3>6 DEF Programmed
    <3>8. \A a \in Addr : a < BlockStart => Right(a)'
      BY <1>i, <3>1, <3>2, <3>5, <3>7 DEF Right
    <3>9. ASSUME NEW g \in Granules, g < starthere', NEW a \in Bytes(g), ~lied',
                 flash'[a] # newcontents[a]
          PROVE  FALSE
      <4>1. a \in Addr /\ a \notin area /\ flash'[a] = flash[a]
        BY <1>t, <3>2, <3>7, <3>9, GranuleBounds
      <4>2. g \in Nat /\ last \in Nat /\ last \in Granules
        BY <1>t, <3>2, <3>4, GranuleBounds
      <4>3. g >= starthere
        <5>1. ~lied
          BY <3>1, <3>9
        <5>2. ~Right(a)
          BY <3>9, <4>1, <5>1 DEF Right
        <5> QED BY <1>i, <3>2, <3>3, <3>9, <4>2, <5>2
      <4>4. Differs(curcontents, g)
        BY <3>2, <3>9, <4>1, <4>3, EqualIsRight
      <4>5. g \in ToWrite
        BY <4>3, <4>4 DEF ToWrite
      <4>6. g <= last
        BY <3>1, <3>3, <3>9, <4>2, SameGrid
      <4>7. g \in NextWrite
        <5>1. \A h \in Granules : h \in Nat
          BY <1>t, <3>2, GranuleBounds
        <5> QED BY <4>2, <4>5, <4>6, <5>1 DEF NextWrite
      <4> QED BY <4>1, <4>7
    <3> QED BY <3>1, <3>2, <3>3, <3>8, <3>9 DEF BehindIsRight, Right
  <2> QED BY <2>1, <2>2
<1>16. CASE BlockDone
  <2>1. /\ pc = "chip_write" /\ pc' = "walk_eraseregions" /\ k' = k /\ blk' = blk + 1
        /\ flash' = flash /\ newcontents' = newcontents /\ lied' = lied /\ ToWrite = {}
    BY <1>16 DEF BlockDone
  <2>2. BlockStart' = BlockEnd /\ BlockStart \in Nat /\ BlockEnd \in Nat /\ starthere \in Nat
    BY <1>t, <2>1, BlockBounds DEF BlockStart, BlockEnd, TypeOK
  <2>3. ASSUME NEW a \in Addr, a < BlockEnd, ~(a < BlockStart) PROVE Right(a)
    <3>1. a \in Block
      BY <2>2, <2>3, ChipAssumption DEF Block
    <3>2. PICK g \in Granules : a \in Bytes(g)
      BY <1>t, <2>1, <3>1, BlockIsGranules
    <3>3. g \in Nat
      BY <1>t, <2>1, GranuleBounds
    <3>4. CASE g < starthere
      BY <1>i, <2>1, <3>2, <3>4
    <3>5. CASE g >= starthere
      <4>1. ~Differs(curcontents, g)
        BY <2>1, <3>5 DEF ToWrite
      <4> QED BY <2>1, <3>2, <3>5, <4>1, EqualIsRight DEF Right
    <3> QED BY <2>2, <3>3, <3>4, <3>5
  <2> QED BY <1>i, <2>1, <2>2, <2>3 DEF BehindIsRight, Right
<1>19. CASE UNCHANGED vars
  <2>1. UNCHANGED <<pc, k, blk, starthere, flash, newcontents, lied>>
    BY <1>19 DEF vars
  <2> QED BY <1>i, <2>1 DEF BehindIsRight, Right, BlockStart, BlockEnd, Granules
<1>20. CASE SafetyCheck \/ ReadFlashToFile \/ ReadBufFromFile \/ ReadOld \/ CompareRange
            \/ StartEraseAndWrite \/ NoEraserLeft \/ SkipEraser \/ WalkSucceeds \/ Reread
            \/ Recheck \/ VerifyRange
  <2>1. pc' \notin {"walk_eraseregions", "erasefn", "check_erased_range", "chip_write"}
    BY <1>20 DEF SafetyCheck, ReadFlashToFile, ReadBufFromFile, ReadOld, CompareRange,
                 StartEraseAndWrite, NoEraserLeft, SkipEraser, WalkSucceeds, Reread,
                 Recheck, VerifyRange, EraseAndWriteReturns
  <2> QED BY <1>o, <2>1
<1> QED BY <1>9, <1>12, <1>13, <1>14, <1>15, <1>16, <1>19, <1>20 DEF Next, Step, Terminated

-----------------------------------------------------------------------------
(* The refinement.                                                          *)

(* What the abstract update is told of the request.                         *)
MayChange == job.op \in {"write", "erase"} /\ Safe

LEMMA UpdateInit == Init => Update!Init
<1> SUFFICES ASSUME Init PROVE Update!Init
  OBVIOUS
<1>1. TypeOK
  BY TypeInit
<1>2. Wanted \in [Addr -> Byte]
  BY <1>1, HandleRomentriesType, ChipAssumption DEF TypeOK, Wanted, Goal
<1>3. (job.op \in {"write", "erase"} /\ Safe) \in BOOLEAN
  BY DEF Safe
<1> QED BY <1>1, <1>2, <1>3 DEF Init, TypeOK, Update!Init, Outcome

LEMMA UpdateStep ==
  ASSUME IInv, VerdictInv, [Next]_vars
  PROVE  [Update!Next]_(Update!vars)
<1> USE DEF inputs, buffers, walk, verdict, Return
<1>t. TypeOK /\ TypeOK'
  BY TypeStep DEF IInv
<1>i. Requests /\ Untouched /\ BehindIsRight
  BY DEF VerdictInv
<1>s. UNCHANGED inputs => Wanted' = Wanted /\ MayChange' = MayChange
  BY DEF Safe, Wanted, Goal, HandleRomentries, UsableErasers, Usable, MayChange
(* A step that does not return is a stutter or touches the chip.            *)
<1>a. ASSUME pc # "done", pc' # "done", UNCHANGED inputs, UNCHANGED <<flash, lied>>
      PROVE  UNCHANGED Update!vars
  BY <1>a, <1>s DEF Update!vars, Outcome, MayChange
<1>b. ASSUME pc # "done", pc' # "done", UNCHANGED inputs, MayChange, lied' \in {lied, TRUE}
      PROVE  Update!Next
  <2>1. flash' \in [Addr -> Byte]
    BY <1>t DEF TypeOK
  <2> QED BY <1>b, <1>s, <2>1 DEF Update!Next, Update!Touch, Outcome, MayChange
(* A return finishes, with a verdict that is true.                          *)
<1>c. ASSUME pc # "done", pc' = "done", UNCHANGED inputs, UNCHANGED <<flash, lied>>,
             Outcome' \in {"verified", "success", "untouched", "emergency"},
             Outcome' = "verified" => flash = Wanted,
             Outcome' = "success" => flash = Wanted \/ lied,
             Outcome' = "untouched" => flash = before,
             Outcome' = "emergency" => MayChange
      PROVE  Update!Next
  <2>1. Update!True(Outcome')
    BY <1>c DEF Update!True, MayChange
  <2>2. Outcome = "none"
    BY <1>c DEF Outcome
  <2> QED BY <1>c, <1>s, <2>1, <2>2 DEF Update!Next, Update!Finish, MayChange
<1>o. ASSUME pc' = "done"
      PROVE  /\ Outcome' \in {"verified", "success", "untouched", "emergency"}
             /\ ret' = 0 => Outcome' \in {"verified", "success"}
             /\ ret' = 1 => Outcome' = IF said' = "emergency" THEN "emergency" ELSE "untouched"
             /\ Outcome' = "verified" => job'.verify
  BY <1>t, <1>o DEF Outcome, TypeOK
(* Before the engine starts, nothing has been done to the chip.             *)
<1>p. ASSUME pc \in Before, UNCHANGED inputs, UNCHANGED <<flash, lied>>,
             pc' = "done" => \/ ret' = 0 /\ flash = Wanted
                             \/ ret' = 1 /\ said' # "emergency"
      PROVE  [Update!Next]_(Update!vars)
  <2>1. flash = before /\ pc # "done"
    BY <1>i, <1>p DEF Untouched, Before
  <2> QED BY <1>a, <1>c, <1>o, <1>p, <2>1
(* Within it, a step may do anything to the chip but return.                *)
<1>e. ASSUME pc \in Engine, pc' # "done", UNCHANGED inputs, lied' \in {lied, TRUE}
      PROVE  [Update!Next]_(Update!vars)
  <2>1. MayChange /\ pc # "done"
    BY <1>i, <1>e DEF Requests, Engine, MayChange
  <2> QED BY <1>b, <1>e, <2>1
(* It may give up at any time.                                              *)
<1>f. ASSUME pc \in Engine, pc' = "done", UNCHANGED inputs, UNCHANGED <<flash, lied>>,
             ret' = 1 /\ (said' = "emergency" \/ flash = before)
      PROVE  [Update!Next]_(Update!vars)
  <2>1. MayChange /\ pc # "done"
    BY <1>i, <1>f DEF Requests, Engine, MayChange
  <2> QED BY <1>c, <1>f, <1>o, <2>1
<1>1. CASE SafetyCheck
  BY <1>1, <1>p DEF SafetyCheck, Before
<1>2. CASE ReadFlashToFile
  <2>1. job.op = "read" /\ flash = before
    BY <1>2, <1>i DEF ReadFlashToFile, Requests, Untouched, Before
  <2>2. flash = Wanted
    BY <2>1 DEF Wanted
  <2> QED BY <1>2, <1>p, <2>2 DEF ReadFlashToFile, Before
<1>3. CASE ReadBufFromFile
  BY <1>3, <1>p DEF ReadBufFromFile, Before
<1>4. CASE ReadOld
  BY <1>4, <1>p DEF ReadOld, Before
<1>5. CASE CompareRange
  <2>1. flash = before /\ oldcontents = before /\ newcontents = Wanted
    BY <1>5, <1>i DEF CompareRange, Requests, Untouched, Before
  <2> QED BY <1>5, <1>p, <2>1 DEF CompareRange, Before
<1>6. CASE StartEraseAndWrite
  BY <1>6, <1>p DEF StartEraseAndWrite, Before
<1>7. CASE NoEraserLeft
  BY <1>7, <1>e, <1>f DEF NoEraserLeft, EraseAndWriteReturns, Engine
<1>8. CASE SkipEraser
  BY <1>8, <1>e DEF SkipEraser, Engine
<1>9. CASE TryEraser
  BY <1>9, <1>e DEF TryEraser, Engine
<1>10. CASE WalkSucceeds
  <2>1. pc = "walk_eraseregions" /\ blk = Len(Erasers[k].bounds)
        /\ UNCHANGED inputs /\ UNCHANGED <<flash, lied>>
    BY <1>10 DEF WalkSucceeds
  <2>2. BlockStart = Size
    <3>1. k \in DOMAIN Erasers /\ Usable(k) /\ blk \in DOMAIN Erasers[k].bounds
      BY <1>t, <2>1 DEF TypeOK, InWalk
    <3>2. Erasers[k].bounds[blk] \in {0, Size} /\ Erasers[k].bounds[1] = 0
          /\ Len(Erasers[k].bounds) > 1
      BY <2>1, <3>1, EraserAssumption DEF IsEraser, Usable
    <3>3. Len(Erasers[k].bounds) \in Nat /\ Len(Erasers[k].bounds) - 1 \in DOMAIN Erasers[k].bounds
      BY <3>1, <3>2, BoundsType
    <3>4. Erasers[k].bounds[blk] # 0
      <4> DEFINE b == Len(Erasers[k].bounds) - 1
      <4>1. b \in DOMAIN Erasers[k].bounds /\ b < Len(Erasers[k].bounds) /\ b + 1 = blk
        BY <2>1, <3>3
      <4>2. Erasers[k].bounds[b] \in 0 .. Size /\ Erasers[k].bounds[b] < Erasers[k].bounds[b + 1]
        BY <3>1, <4>1, BoundsType
      <4> QED BY <4>1, <4>2, ChipAssumption
    <3> QED BY <3>2, <3>4 DEF BlockStart
  <2>3. newcontents = Wanted /\ job.op \in {"write", "erase"}
    BY <1>i, <2>1 DEF Requests, Engine
  <2>4. flash = Wanted \/ lied
    <3>1. \A a \in Addr : flash[a] = newcontents[a] \/ lied
      <4>1. \A a \in Addr : a < BlockStart
        BY <2>2, ChipAssumption
      <4>2. \A a \in Addr : a < BlockStart => Right(a)
        BY <1>i, <2>1 DEF BehindIsRight, InWalk
      <4> QED BY <4>1, <4>2 DEF Right
    <3>2. flash \in Image /\ newcontents \in Image
      BY <1>t DEF TypeOK
    <3>3. (\A a \in Addr : flash[a] = newcontents[a]) => flash = newcontents
      BY <3>2, SameImage
    <3> QED BY <2>3, <3>1, <3>3
  <2>5. job.op = "erase" => ~lied
    BY <1>i DEF Untouched
  <2>6. CASE pc' # "done"
    BY <1>e, <2>1, <2>6 DEF Engine
  <2>7. CASE pc' = "done"
    <3>1. ret' = 0 /\ ~(job.op = "write" /\ job.verify)
      BY <1>10, <2>7 DEF WalkSucceeds, EraseAndWriteReturns
    <3>2. Outcome' = "verified" => flash = Wanted
      BY <1>o, <2>1, <2>3, <2>4, <2>5, <2>7, <3>1
    <3> QED BY <1>c, <1>o, <2>1, <2>4, <2>7, <3>1, <3>2
  <2> QED BY <2>6, <2>7
<1>11. CASE Reread
  BY <1>11, <1>e, <1>f DEF Reread, EraseAndWriteReturns, Engine
<1>12. CASE BlockHelper
  BY <1>12, <1>e DEF BlockHelper, ToBlockWrite, Engine
<1>13. CASE EraseFn
  BY <1>13, <1>e DEF EraseFn, WalkFails, Engine
<1>14. CASE CheckErasedRange
  BY <1>14, <1>e DEF CheckErasedRange, WalkFails, ToBlockWrite, Engine
<1>15. CASE ChipWrite
  <2>1. lied' \in {lied, TRUE}
    BY <1>15, <1>t DEF ChipWrite, TypeOK
  <2> QED BY <1>15, <1>e, <2>1 DEF ChipWrite, WalkFails, Engine
<1>16. CASE BlockDone
  BY <1>16, <1>e DEF BlockDone, Engine
<1>17. CASE Recheck
  <2>1. oldcontents = before
    BY <1>17, <1>i DEF Recheck, Requests, Engine
  <2> QED BY <1>17, <1>f, <2>1 DEF Recheck, Engine
<1>18. CASE VerifyRange
  <2>1. pc = "verify_range" /\ newcontents = Wanted /\ UNCHANGED inputs
        /\ UNCHANGED <<flash, lied>> /\ pc' = "done"
    BY <1>18, <1>i DEF VerifyRange, Requests, Engine
  <2>2. CASE ret' = 0
    <3>1. flash = Wanted
      BY <1>18, <2>1, <2>2 DEF VerifyRange
    <3> QED BY <1>c, <1>o, <2>1, <2>2, <3>1
  <2>3. CASE ret' = 1 /\ said' = "emergency"
    BY <1>f, <2>1, <2>3 DEF Engine
  <2> QED BY <1>18, <2>2, <2>3 DEF VerifyRange
<1>19. CASE UNCHANGED vars
  <2>1. UNCHANGED inputs /\ UNCHANGED <<flash, lied, pc, ret, said>>
    BY <1>19 DEF vars
  <2>2. Outcome' = Outcome
    BY <2>1 DEF Outcome
  <2> QED BY <1>s, <2>1, <2>2 DEF Update!vars, MayChange
<1> QED BY <1>1, <1>2, <1>3, <1>4, <1>5, <1>6, <1>7, <1>8, <1>9, <1>10, <1>11, <1>12,
           <1>13, <1>14, <1>15, <1>16, <1>17, <1>18, <1>19 DEF Next, Step, Terminated

(* Whatever fails, the verdict doit() ends with is true: "VERIFIED" and a   *)
(* successful -E mean the contents asked for, a plain success means them    *)
(* unless the chip lied, "unchanged" and the refusals mean the old contents.*)
THEOREM VerdictsTrue == WholeGranules => (Spec => ImplementsUpdate)
<1> SUFFICES ASSUME WholeGranules PROVE Spec => ImplementsUpdate
  OBVIOUS
<1>1. IInv /\ VerdictInv /\ [Next]_vars => VerdictInv'
  BY RequestsStep, UntouchedStep, BehindStep DEF VerdictInv, IInv
<1>2. IInv /\ VerdictInv /\ [Next]_vars => [Update!Next]_(Update!vars)
  BY UpdateStep
<1> QED BY <1>1, <1>2, InvInit, InvStep, VerdictInit, UpdateInit, PTL
        DEF Spec, ImplementsUpdate, Update!Spec
=============================================================================
