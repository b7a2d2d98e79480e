----------------------------- MODULE EraseWrite -----------------------------
(***************************************************************************)
(* The write engine of flashrom (flashrom.c): doit() and what it calls,    *)
(* erase_and_write_flash(), walk_eraseregions(),                           *)
(* erase_and_write_block_helper(), need_erase(), get_next_write(),         *)
(* check_erased_range(), verify_range(), on a chip that may fail.          *)
(*                                                                         *)
(* One behaviour is one call of doit().  Every call that reaches the chip  *)
(* (read, erase, write) is a step of its own, and so is every decision     *)
(* the host takes between two of them.  The chip may report an error after *)
(* a partial effect, report success without the effect, or fail to be      *)
(* read; a read that succeeds returns what the chip holds.                 *)
(***************************************************************************)
EXTENDS Integers, Sequences, FiniteSets

CONSTANTS
  Size,       (* chip size in bytes                                         *)
  Gran,       (* write granularity the helper assumes (256 in the source)   *)
  Byte,       (* what one byte of the chip can hold                         *)
  ERASED,     (* 0xff                                                       *)
  ZERO,       (* 0x00                                                       *)
  Erasers,    (* chip->block_erasers: [fn |-> is the function there,        *)
              (* bounds |-> the block boundaries its regions walk through]  *)
  Contents,   (* the contents the chip may have when doit() is called       *)
  Images,     (* the contents the image file may have                       *)
  Layouts,    (* the sets of bytes that included regions may cover          *)
  Jobs,       (* the requests doit() is called with                         *)
  MaxFaults   (* bound: how often the chip misbehaves in one behaviour      *)

Addr == 0 .. Size - 1
Image == [Addr -> Byte]

(* The operation, -n, --force, and what chip_safety_check() looks at.       *)
JobType == [op : {"read", "write", "erase", "verify"}, verify : BOOLEAN,
            force : BOOLEAN, mayWrite : BOOLEAN,
            bad : SUBSET {"read", "erase", "write"},
            has : SUBSET {"read", "write"}]

(* selfcheck_eraseblocks() refuses a table whose blocks do not add up to the chip. *)
IsEraser(e) ==
  /\ e.fn \in BOOLEAN
  /\ e.bounds \in Seq(0 .. Size)
  /\ Len(e.bounds) >= 1
  /\ e.bounds[1] = 0
  /\ \A b \in 1 .. Len(e.bounds) - 1 : e.bounds[b] < e.bounds[b + 1]
  /\ e.bounds[Len(e.bounds)] \in {0, Size}

ASSUME ChipAssumption ==
  /\ Size \in Nat \ {0}
  /\ Gran \in Nat \ {0}
  /\ ERASED \in Byte /\ ZERO \in Byte /\ ERASED # ZERO
  /\ MaxFaults \in Nat

ASSUME EraserAssumption ==
  /\ Erasers \in Seq([fn : BOOLEAN, bounds : Seq(0 .. Size)])
  /\ \A e \in DOMAIN Erasers : IsEraser(Erasers[e])

ASSUME InputAssumption ==
  /\ Contents \subseteq Image
  /\ Images \subseteq Image
  /\ Layouts \subseteq SUBSET Addr
  /\ Jobs \subseteq JobType

VARIABLES
  job,          (* the arguments of doit()                                  *)
  image,        (* the image file                                           *)
  included,     (* the bytes to take from the image (all without -i)        *)
  flash,        (* the chip                                                 *)
  before,       (* history: the chip when doit() was called                 *)
  oldcontents, newcontents, curcontents,   (* the buffers of the same names *)
  k,            (* the eraser erase_and_write_flash() is at                 *)
  usable,       (* usable_erasefunctions                                    *)
  blk,          (* the block walk_eraseregions() is at                      *)
  starthere,    (* chip address up to which the block has been written      *)
  pc,           (* the call doit() is about to make                         *)
  ret,          (* what doit() returns: 0 or 1 (any error)                  *)
  said,         (* the verdict the user reads                               *)
  faults,       (* how often the chip has misbehaved                        *)
  lied          (* history: a write reported success without its effect     *)

inputs == <<job, image, included, before>>
buffers == <<oldcontents, newcontents, curcontents>>
walk == <<k, usable, blk, starthere>>
verdict == <<ret, said>>
vars == <<inputs, flash, buffers, walk, pc, verdict, faults, lied>>

-----------------------------------------------------------------------------
(* The geometry of the chip and the two pure decisions of the helper.       *)

(* check_block_eraser() *)
Usable(e) == Erasers[e].fn /\ Len(Erasers[e].bounds) > 1

UsableErasers == {e \in DOMAIN Erasers : Usable(e)}

BlockStart == Erasers[k].bounds[blk]
BlockEnd == Erasers[k].bounds[blk + 1]
Block == BlockStart .. BlockEnd - 1

(* The whole granules of the block, named by their first byte: the loops    *)
(* run len / stride times, so bytes behind the last whole one are left out. *)
Granules == {g \in BlockStart .. BlockEnd - Gran : (g - BlockStart) % Gran = 0}
Bytes(g) == g .. g + Gran - 1

Differs(have, g) == \E a \in Bytes(g) : have[a] # newcontents[a]

(* Mutant of NeedErase: a granule counts as blank at its first blank byte.  *)
NeedEraseFirstByte ==
  \E g \in Granules : Differs(curcontents, g) /\ \A a \in Bytes(g) : curcontents[a] # ERASED

NeedErase ==
  \E g \in Granules : /\ Differs(curcontents, g)
                      /\ \E a \in Bytes(g) : curcontents[a] # ERASED

ToWrite == {g \in Granules : g >= starthere /\ Differs(curcontents, g)}

(* get_next_write(): the first differing granule and those that follow it   *)
(* without an equal one in between.                                         *)
NextWrite ==
  {g \in ToWrite : \A h \in Granules :
     (h <= g /\ \E f \in ToWrite : f <= h) => h \in ToWrite}

(* handle_romentries(): module Layout shows that its loop computes this.    *)
HandleRomentries(old, new) == [a \in Addr |-> IF a \in included THEN new[a] ELSE old[a]]

(* What the user asked for with -w.                                         *)
Goal == HandleRomentries(before, image)

Filled(buf, area, byte) == [a \in Addr |-> IF a \in area THEN byte ELSE buf[a]]

(* A byte that is overwritten without an erase loses the bits of both.      *)
Programmed(old, want) == IF old \in {ERASED, want} THEN want ELSE ZERO

-----------------------------------------------------------------------------
Init ==
  /\ job \in Jobs
  /\ image \in Images
  /\ included \in Layouts
  /\ flash \in Contents
  /\ before = flash
  /\ oldcontents = [a \in Addr |-> ZERO]
  /\ newcontents = [a \in Addr |-> ERASED]
  /\ curcontents = [a \in Addr |-> ZERO]
  /\ k = 1 /\ blk = 1 /\ starthere = 0
  /\ usable = Cardinality(UsableErasers)
  /\ pc = "chip_safety_check"
  /\ ret = 0 /\ said = "nothing"
  /\ faults = 0 /\ lied = FALSE

(* A step of the chip that may misbehave as long as the bound allows it.    *)
Behaves(well) ==
  \/ well /\ faults' = faults
  \/ ~well /\ faults < MaxFaults /\ faults' = faults + 1

Return(r, verdict_said) == pc' = "done" /\ ret' = r /\ said' = verdict_said

-----------------------------------------------------------------------------
(* doit() up to the point where erasing and writing begins.                 *)

(* chip_safety_check(): TRUE when the operation may go ahead.               *)
Safe ==
  /\ job.op \in {"write", "erase"} => job.mayWrite \/ job.force
  /\ "read" \notin job.bad \/ job.force
  /\ "read" \in job.has
  /\ job.op \in {"write", "erase"} =>
       /\ "erase" \notin job.bad \/ job.force
       /\ UsableErasers # {}
  /\ job.op = "write" => /\ "write" \notin job.bad \/ job.force
                         /\ "write" \in job.has

SafetyCheck ==
  /\ pc = "chip_safety_check"
  /\ IF ~Safe
     THEN Return(1, "aborting")
     ELSE /\ pc' = CASE job.op = "read" -> "read_flash_to_file"
                     [] job.op = "erase" -> "start_erase_and_write"
                     [] OTHER -> "read_buf_from_file"
          /\ UNCHANGED verdict
  /\ UNCHANGED <<inputs, flash, buffers, walk, faults, lied>>

(* -r: the chip or the output file may fail; nothing else is done.          *)
ReadFlashToFile ==
  /\ pc = "read_flash_to_file"
  /\ \E ok \in BOOLEAN :
       /\ Behaves(ok)
       /\ Return(IF ok THEN 0 ELSE 1, IF ok THEN "done" ELSE "failed")
  /\ UNCHANGED <<inputs, flash, buffers, walk, lied>>

(* The file may be missing, of the wrong size or for another board.         *)
ReadBufFromFile ==
  /\ pc = "read_buf_from_file"
  /\ \/ /\ newcontents' = image
        /\ pc' = "read_old"
        /\ UNCHANGED verdict
     \/ /\ newcontents' \in {newcontents, image}
        /\ Return(1, "failed")
  /\ UNCHANGED <<inputs, flash, oldcontents, curcontents, walk, faults, lied>>

(* Read the whole chip and take what no included region covers from it.     *)
ReadOld ==
  /\ pc = "read_old"
  /\ \E ok \in BOOLEAN :
       /\ Behaves(ok)
       /\ IF ok
          THEN /\ oldcontents' = flash
               /\ newcontents' = HandleRomentries(flash, newcontents)
               /\ pc' = IF job.op = "write" THEN "start_erase_and_write"
                                            ELSE "compare_range"
               /\ UNCHANGED verdict
          ELSE /\ Return(1, "failed")
               /\ UNCHANGED <<oldcontents, newcontents>>
  /\ UNCHANGED <<inputs, flash, curcontents, walk, lied>>

CompareRange ==
  /\ pc = "compare_range"
  /\ IF newcontents = oldcontents THEN Return(0, "verified") ELSE Return(1, "failed")
  /\ UNCHANGED <<inputs, flash, buffers, walk, faults, lied>>

-----------------------------------------------------------------------------
(* erase_and_write_flash().  Without an image (-E) it is called with old    *)
(* contents of all 0x00 and new contents of all 0xff.                       *)

StartEraseAndWrite ==
  /\ pc = "start_erase_and_write"
  /\ curcontents' = oldcontents
  /\ pc' = "next_eraser"
  /\ UNCHANGED <<inputs, flash, oldcontents, newcontents, walk, verdict, faults, lied>>

(* What doit() does with the result of erase_and_write_flash().             *)
EraseAndWriteReturns(r) ==
  IF r = 0
  THEN IF job.op = "write" /\ job.verify
       THEN pc' = "verify_range" /\ UNCHANGED verdict
       ELSE Return(0, "done")
  ELSE IF job.op = "write"
       THEN pc' = "recheck" /\ UNCHANGED verdict
       ELSE Return(1, "emergency")

NoEraserLeft ==
  /\ pc = "next_eraser"
  /\ k > Len(Erasers) \/ usable = 0
  /\ EraseAndWriteReturns(1)
  /\ UNCHANGED <<inputs, flash, buffers, walk, faults, lied>>

(* Mutant: a slot without an eraser counts as a used one.                   *)
SkipEraserCounted ==
  /\ pc = "next_eraser"
  /\ k <= Len(Erasers) /\ usable > 0
  /\ ~Usable(k)
  /\ k' = k + 1
  /\ usable' = usable - 1
  /\ UNCHANGED <<inputs, flash, buffers, blk, starthere, pc, verdict, faults, lied>>

SkipEraser ==
  /\ pc = "next_eraser"
  /\ k <= Len(Erasers) /\ usable > 0
  /\ ~Usable(k)
  /\ k' = k + 1
  /\ UNCHANGED <<inputs, flash, buffers, usable, blk, starthere, pc, verdict, faults, lied>>

TryEraser ==
  /\ pc = "next_eraser"
  /\ k <= Len(Erasers) /\ usable > 0
  /\ Usable(k)
  /\ usable' = usable - 1
  /\ blk' = 1
  /\ pc' = "walk_eraseregions"
  /\ UNCHANGED <<inputs, flash, buffers, k, starthere, verdict, faults, lied>>

(* The walk was cut short: look at the chip again if an eraser is left.     *)
WalkFails ==
  IF usable = 0
  THEN pc' = "next_eraser" /\ k' = k + 1
  ELSE pc' = "reread" /\ k' = k

WalkSucceeds ==
  /\ pc = "walk_eraseregions"
  /\ blk = Len(Erasers[k].bounds)
  /\ EraseAndWriteReturns(0)
  /\ UNCHANGED <<inputs, flash, buffers, walk, faults, lied>>

(* Mutant: the copy is reset to the contents doit() began with.             *)
RereadNothing ==
  /\ pc = "reread"
  /\ \E ok \in BOOLEAN :
       /\ Behaves(ok)
       /\ IF ok
          THEN /\ curcontents' = oldcontents
               /\ k' = k + 1
               /\ pc' = "next_eraser"
               /\ UNCHANGED verdict
          ELSE /\ EraseAndWriteReturns(1)
               /\ UNCHANGED <<curcontents, k>>
  /\ UNCHANGED <<inputs, flash, oldcontents, newcontents, usable, blk, starthere, lied>>

Reread ==
  /\ pc = "reread"
  /\ \E ok \in BOOLEAN :
       /\ Behaves(ok)
       /\ IF ok
          THEN /\ curcontents' = flash
               /\ k' = k + 1
               /\ pc' = "next_eraser"
               /\ UNCHANGED verdict
          ELSE /\ EraseAndWriteReturns(1)
               /\ UNCHANGED <<curcontents, k>>
  /\ UNCHANGED <<inputs, flash, oldcontents, newcontents, usable, blk, starthere, lied>>

-----------------------------------------------------------------------------
(* erase_and_write_block_helper() on the block the walk is at.              *)

ToBlockWrite == pc' = "chip_write" /\ starthere' = BlockStart

BlockHelper ==
  /\ pc = "walk_eraseregions"
  /\ blk < Len(Erasers[k].bounds)
  /\ IF NeedErase
     THEN pc' = "erasefn" /\ UNCHANGED starthere
     ELSE ToBlockWrite
  /\ UNCHANGED <<inputs, flash, buffers, k, usable, blk, verdict, faults, lied>>

EraseFn ==
  /\ pc = "erasefn"
  /\ \E took \in SUBSET Block, ok \in BOOLEAN :
       /\ Behaves(ok /\ took = Block)
       /\ flash' = Filled(flash, took, ERASED)
       /\ IF ok THEN pc' = "check_erased_range" /\ k' = k ELSE WalkFails
  /\ UNCHANGED <<inputs, buffers, usable, blk, starthere, verdict, lied>>

CheckErasedRange ==
  /\ pc = "check_erased_range"
  /\ \E ok \in BOOLEAN :
       /\ Behaves(ok)
       /\ IF ok /\ \A a \in Block : flash[a] = ERASED
          THEN /\ curcontents' = Filled(curcontents, Block, ERASED)
               /\ ToBlockWrite
               /\ k' = k
          ELSE /\ WalkFails
               /\ UNCHANGED <<curcontents, starthere>>
  /\ UNCHANGED <<inputs, flash, oldcontents, newcontents, usable, blk, verdict, lied>>

(* Mutant: starthere advances to the last granule written, not behind it.   *)
ChipWriteOffByOne ==
  /\ pc = "chip_write"
  /\ ToWrite # {}
  /\ \E last \in NextWrite :
       /\ \A g \in NextWrite : g <= last
       /\ flash' = [a \in Addr |-> IF \E g \in NextWrite : a \in Bytes(g)
                                   THEN Programmed(flash[a], newcontents[a])
                                   ELSE flash[a]]
       /\ starthere' = last
  /\ UNCHANGED <<inputs, buffers, k, usable, blk, pc, verdict, faults, lied>>

(* chip->write() of the run that get_next_write() found.                    *)
ChipWrite ==
  /\ pc = "chip_write"
  /\ ToWrite # {}
  /\ \E last \in NextWrite :
       /\ \A g \in NextWrite : g <= last
       /\ LET area == UNION {Bytes(g) : g \in NextWrite} IN
          \E took \in SUBSET area, ok \in BOOLEAN :
            /\ Behaves(ok /\ took = area)
            /\ flash' = [a \in Addr |-> IF a \in took
                                        THEN Programmed(flash[a], newcontents[a])
                                        ELSE flash[a]]
            /\ lied' = (lied \/ (ok /\ took # area))
            /\ IF ok
               THEN starthere' = last + Gran /\ UNCHANGED <<pc, k>>
               ELSE WalkFails /\ UNCHANGED starthere
  /\ UNCHANGED <<inputs, buffers, usable, blk, verdict>>

BlockDone ==
  /\ pc = "chip_write"
  /\ ToWrite = {}
  /\ blk' = blk + 1
  /\ pc' = "walk_eraseregions"
  /\ UNCHANGED <<inputs, flash, buffers, k, usable, starthere, verdict, faults, lied>>

-----------------------------------------------------------------------------
(* doit() after erase_and_write_flash().                                    *)

RecheckReadOnly ==
  /\ pc = "recheck"
  /\ \E ok \in BOOLEAN :
       /\ Behaves(ok)
       /\ newcontents' = IF ok THEN flash ELSE newcontents
       /\ Return(1, IF ok THEN "unchanged" ELSE "emergency")
  /\ UNCHANGED <<inputs, flash, oldcontents, curcontents, walk, lied>>

(* "Uh oh.  Erase/write failed.  Checking if anything changed."             *)
Recheck ==
  /\ pc = "recheck"
  /\ \E ok \in BOOLEAN :
       /\ Behaves(ok)
       /\ newcontents' = IF ok THEN flash ELSE newcontents
       /\ Return(1, IF ok /\ flash = oldcontents THEN "unchanged" ELSE "emergency")
  /\ UNCHANGED <<inputs, flash, oldcontents, curcontents, walk, lied>>

VerifyRange ==
  /\ pc = "verify_range"
  /\ \E ok \in BOOLEAN :
       /\ Behaves(ok)
       /\ IF ok /\ flash = newcontents
          THEN Return(0, "verified")
          ELSE Return(1, "emergency")
  /\ UNCHANGED <<inputs, flash, buffers, walk, lied>>

(* doit() returned.                                                         *)
Terminated == pc = "done" /\ UNCHANGED vars

Step ==
  \/ SafetyCheck \/ ReadFlashToFile \/ ReadBufFromFile \/ ReadOld \/ CompareRange
  \/ StartEraseAndWrite \/ NoEraserLeft \/ SkipEraser \/ TryEraser
  \/ WalkSucceeds \/ Reread
  \/ BlockHelper \/ EraseFn \/ CheckErasedRange \/ ChipWrite \/ BlockDone
  \/ Recheck \/ VerifyRange

Next == Step \/ Terminated

Spec == Init /\ [][Next]_vars

(* One thread runs doit(), and every chip call returns.                     *)
FairSpec == Spec /\ WF_vars(Step)

-----------------------------------------------------------------------------
Pcs == {"chip_safety_check", "read_flash_to_file", "read_buf_from_file", "read_old",
        "compare_range", "start_erase_and_write", "next_eraser", "walk_eraseregions",
        "erasefn", "check_erased_range", "chip_write", "reread", "recheck",
        "verify_range", "done"}

InWalk == pc \in {"walk_eraseregions", "erasefn", "check_erased_range", "chip_write"}

(* The types of the variables, and: while an eraser is used, k and blk name *)
(* one of its blocks, so erasefn() and write() get addresses on the chip.   *)
TypeOK ==
  /\ job \in Jobs /\ image \in Image /\ included \subseteq Addr
  /\ flash \in Image /\ before \in Image
  /\ oldcontents \in Image /\ newcontents \in Image /\ curcontents \in Image
  /\ k \in Nat \ {0} /\ usable \in Nat /\ blk \in Nat \ {0} /\ starthere \in Nat
  /\ pc \in Pcs /\ ret \in {0, 1}
  /\ said \in {"nothing", "aborting", "failed", "done", "verified", "unchanged", "emergency"}
  /\ faults \in 0 .. MaxFaults /\ lied \in BOOLEAN
  /\ InWalk \/ pc = "reread" => k \in DOMAIN Erasers /\ Usable(k)
  /\ InWalk => blk \in DOMAIN Erasers[k].bounds
  /\ InWalk /\ pc # "walk_eraseregions" => blk < Len(Erasers[k].bounds)

(* need_erase() and get_next_write() agree: no byte is ever programmed that *)
(* the chip does not hold erased, whatever failed before and whichever      *)
(* eraser the engine is retrying with ("have needs to be in erased state"). *)
ProgramsOnlyErased ==
  pc = "chip_write" => \A g \in ToWrite : \A a \in Bytes(g) : flash[a] = ERASED

(* The host's idea of the chip, curcontents, is right wherever the engine   *)
(* still has to work: everywhere between two erasers, behind the block      *)
(* during an erase, from starthere on while the block is written.  With -E  *)
(* it may instead hold the pretended 0x00 of a byte not erased yet.         *)
WorkAhead(a) ==
  CASE pc = "next_eraser" -> usable > 0
    [] pc = "walk_eraseregions" -> a >= BlockStart
    [] pc \in {"erasefn", "check_erased_range"} -> a >= BlockEnd
    [] pc = "chip_write" -> a >= starthere
    [] OTHER -> FALSE

CopyIsRightAhead ==
  \A a \in Addr : WorkAhead(a) =>
     \/ curcontents[a] = flash[a]
     \/ job.op = "erase" /\ curcontents[a] = ZERO

(* What makes the two inductive: the contents doit() starts from, what a    *)
(* block still has to get, and that writing stays within the block.         *)
StartsRight ==
  /\ pc = "chip_safety_check" => oldcontents = [a \in Addr |-> ZERO]
  /\ pc = "start_erase_and_write" =>
       \A a \in Addr : \/ oldcontents[a] = flash[a]
                       \/ job.op = "erase" /\ oldcontents[a] = ZERO

BlankAhead ==
  pc = "chip_write" => /\ starthere <= BlockEnd
                       /\ \A g \in ToWrite : \A a \in Bytes(g) : curcontents[a] = ERASED

IInv == TypeOK /\ CopyIsRightAhead /\ StartsRight /\ BlankAhead

(* What the request asks the chip to hold in the end.                       *)
Wanted == CASE job.op = "erase" -> [a \in Addr |-> ERASED]
            [] job.op \in {"write", "verify"} -> Goal
            [] OTHER -> before

(* "-E: Erase the flash ROM chip."  A reader of the manual takes a 0 from   *)
(* doit() for an erased chip, whatever the blocks of the chip are.          *)
EraseErasesChip ==
  pc = "done" /\ job.op = "erase" /\ ret = 0 => flash = [a \in Addr |-> ERASED]

(* A write is given up only with no usable eraser left that has not failed  *)
(* it, or when the chip could not be read again after one of them.          *)
RetriesAnotherEraser ==
  pc = "recheck" =>
    IF usable = 0 THEN faults >= Cardinality(UsableErasers)
                  ELSE faults > Cardinality(UsableErasers) - usable

(* doit() returns, although erasers, blocks and runs are retried.           *)
Termination == <>(pc = "done")

(* doit() implements the abstract update of module FlashUpdate.             *)
Outcome ==
  CASE pc # "done" -> "none"
    [] pc = "done" /\ ret = 0 -> IF job.verify THEN "verified" ELSE "success"
    [] pc = "done" /\ ret # 0 -> IF said = "emergency" THEN "emergency" ELSE "untouched"

Update == INSTANCE FlashUpdate WITH
            goal <- Wanted, outcome <- Outcome, betrayed <- lied,
            mayChange <- job.op \in {"write", "erase"} /\ Safe

ImplementsUpdate == Update!Spec
=============================================================================
