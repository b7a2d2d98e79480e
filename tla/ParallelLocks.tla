---------------------------- MODULE ParallelLocks ----------------------------
(***************************************************************************)
(* Opening the locks of a parallel, LPC or FWH chip before it is written:  *)
(* the unlock functions of flashchips.c. Most chips have a register for    *)
(* each of their blocks, at its address plus 2 in a window of their own:   *)
(* 0 opens the block, unless the register is locked down. The functions    *)
(* differ in the registers they write, and in whether they look at what    *)
(* came of it. Two chips have lock bits instead, which a command clears    *)
(* all at once, in the background. Addresses are in units of 4 KB.         *)
(***************************************************************************)
EXTENDS Integers, FiniteSetsExt

CONSTANTS
  LockChips,      (* [unlock, size, page, blocks, a_model, gap]: size and   *)
                  (* page as in flashchips.c; blocks: where the lock blocks *)
                  (* start; a_model: the model is ST_M50FLW080A; gap: small *)
                  (* blocks are where the function does not expect them     *)
  LockContents(_) (* what the registers of a chip may hold when it is met   *)

Bits == {"write", "down", "read"}
Blind == {"unlock_82802ab", "unlock_49fl00x", "unlock_49lfxxxc"}
Winbond == {"unlock_w39v040fb", "unlock_w39v080fa"}
LockBits == {"unlock_28f004s5", "unlock_lh28f008bjt"}

(* The bits a register may have; SST's chips have no read lock, and a lock  *)
(* bit is one bit.                                                          *)
LockValues(c) ==
  CASE c.unlock = "unlock_sst_fwhub" -> SUBSET {"write", "down"}
    [] c.unlock \in LockBits -> SUBSET {"write"}
    [] OTHER -> SUBSET Bits

(* Any registers may hold anything, each its own.                           *)
ASSUME LockAssumption ==
  \A c \in LockChips :
    /\ LockContents(c) \subseteq [c.blocks -> LockValues(c)]
    /\ c.size \in Nat /\ c.page \in Nat \ {0} /\ {c.a_model, c.gap} \subseteq BOOLEAN
    /\ 0 \in c.blocks /\ c.blocks \subseteq 0 .. c.size - 1

VARIABLES
  lockchip,
  locks,          (* the registers: the bits that are set, of each block    *)
  masterlock,     (* of a chip with lock bits                               *)
  hwlocks,        (* of Winbond's: the pins that lock, #TBL and #WP         *)
  view,           (* what a read of the chip shows: "array", "id", "status" *)
  clearing,       (* it is clearing its lock bits                           *)
  lockpos,        (* i, the block or sector the function is at              *)
  need_unlock, ret,
  unlocked,       (* the result: "none", "0" or "error"                     *)
  lockpc,
  unheard         (* history: clearing the lock bits has failed             *)

lockHost == <<lockchip, lockpos, need_unlock, ret, unlocked, lockpc>>
lockDevice == <<locks, masterlock, hwlocks, view, clearing, unheard>>
lockVars == <<lockHost, lockDevice>>

LocksInit ==
  /\ lockchip \in LockChips
  /\ locks \in LockContents(lockchip)
  /\ masterlock \in IF lockchip.unlock \in LockBits THEN BOOLEAN ELSE {FALSE}
  /\ hwlocks \in IF lockchip.unlock \in Winbond THEN SUBSET {"TBL", "WP"} ELSE {{}}
  /\ view = "array" /\ clearing = FALSE /\ unheard = FALSE
  /\ lockpos = 0 /\ need_unlock = FALSE /\ ret = 0
  /\ unlocked = "none" /\ lockpc = "loop"

-----------------------------------------------------------------------------
(* The registers that are looked at or written: which comes after that at a *)

(* The 64 KB blocks that are opened sector by sector.                       *)
Stm50Small(c) == {0, IF c.a_model THEN 16 * 14 ELSE 16, 16 * 15}

Stride(c, a) ==
  CASE c.unlock = "unlock_49fl00x" /\ c.page = 4 -> 8     (* Pm49FL002       *)
    [] c.unlock = "unlock_49lfxxxc" ->
         (CASE a < c.size - 16 -> 16 [] a = c.size - 16 -> 8
            [] a = c.size - 4 -> 4 [] OTHER -> 2)
    [] c.unlock = "unlock_stm50flw0x0x" -> IF a - (a % 16) \in Stm50Small(c) THEN 1 ELSE c.page
    [] c.unlock = "unlock_28f004s5" -> 16
    [] c.unlock = "unlock_lh28f008bjt" -> IF a >= 16 THEN 16 ELSE 2
    [] OTHER -> c.page

-----------------------------------------------------------------------------
(* The chip *)

(* The block whose register an address selects.                             *)
BlockAt(a) == Max({b \in lockchip.blocks : b <= a})
Opened(a) ==
  IF "down" \in locks[BlockAt(a)] THEN locks ELSE [locks EXCEPT ![BlockAt(a)] = {}]

Cleared ==
  /\ clearing
  /\ clearing' = FALSE /\ locks' = [b \in lockchip.blocks |-> {}]
  /\ UNCHANGED <<lockHost, masterlock, hwlocks, view, unheard>>

ClearFails ==
  /\ clearing
  /\ clearing' = FALSE /\ unheard' = TRUE
  /\ UNCHANGED <<lockHost, locks, masterlock, hwlocks, view>>

-----------------------------------------------------------------------------
(* The functions *)

LockAt(functions) == lockpc = "loop" /\ lockchip.unlock \in functions
More == lockpos < lockchip.size
Unlocking(r) == unlocked' = r /\ lockpc' = "returned"
Next1 == lockpos' = lockpos + Stride(lockchip, lockpos) /\ UNCHANGED <<unlocked, lockpc>>
RegistersOnly == UNCHANGED <<lockchip, need_unlock, masterlock, hwlocks, view, clearing, unheard>>

WriteBlindly ==
  /\ LockAt(Blind) /\ More
  /\ locks' = Opened(lockpos) /\ Next1
  /\ RegistersOnly /\ UNCHANGED ret

(* What is read back must be 0: a block that is locked open is an error.    *)
Stm50Block ==
  /\ LockAt({"unlock_stm50flw0x0x"}) /\ More
  /\ locks' = Opened(lockpos)
  /\ IF Opened(lockpos)[BlockAt(lockpos)] = {} THEN Next1 ELSE Unlocking("error") /\ UNCHANGED lockpos
  /\ RegistersOnly /\ UNCHANGED ret

(* Only the write lock counts.                                              *)
SstFwhubBlock ==
  /\ LockAt({"unlock_sst_fwhub"}) /\ More
  /\ locks' = IF "write" \in locks[BlockAt(lockpos)] THEN Opened(lockpos) ELSE locks
  /\ ret' = IF "write" \in Opened(lockpos)[BlockAt(lockpos)] THEN ret + 1 ELSE ret
  /\ Next1
  /\ RegistersOnly

(* Mutant: a block that is only locked against reads is taken for open.     *)
W39WriteOnly ==
  /\ LockAt(Winbond) /\ More
  /\ LET locking == locks[BlockAt(lockpos)] IN
     IF "write" \notin locking THEN Next1 /\ UNCHANGED locks
     ELSE IF "down" \in locking THEN Unlocking("error") /\ UNCHANGED <<lockpos, locks>>
     ELSE locks' = Opened(lockpos) /\ Next1
  /\ RegistersOnly /\ UNCHANGED ret

W39FwhBlock ==
  /\ LockAt(Winbond) /\ More
  /\ LET locking == locks[BlockAt(lockpos)] IN
     IF locking \cap {"read", "write"} = {} THEN Next1 /\ UNCHANGED locks
     ELSE IF "down" \in locking THEN Unlocking("error") /\ UNCHANGED <<lockpos, locks>>
     ELSE locks' = Opened(lockpos) /\ Next1
  /\ RegistersOnly /\ UNCHANGED ret

(* printlock_w39_common(), in ID mode and out of it.                        *)
LoopEnds ==
  /\ lockpc = "loop" /\ lockchip.unlock \notin LockBits /\ ~More
  /\ Unlocking(IF ret = 0 /\ hwlocks = {} THEN "0" ELSE "error")
  /\ RegistersOnly /\ UNCHANGED <<lockpos, ret, locks>>

(* 50 clears the status, 90 shows the identifiers with the lock bits; each  *)
(* block is one read. 60 D0 clears all of them.                             *)
ReadLockBit ==
  /\ LockAt(LockBits) /\ More
  /\ view' = "id" /\ need_unlock' = (need_unlock \/ locks[BlockAt(lockpos)] # {})
  /\ Next1
  /\ UNCHANGED <<lockchip, ret, locks, masterlock, hwlocks, clearing, unheard>>

ClearLockBits ==
  /\ LockAt(LockBits) /\ ~More
  /\ CASE need_unlock /\ masterlock ->
            Unlocking("error") /\ view' = "array" /\ UNCHANGED clearing
       [] need_unlock /\ ~masterlock ->
            /\ clearing' = TRUE /\ view' = "status"
            /\ IF lockchip.unlock = "unlock_28f004s5" THEN Unlocking("0")
               ELSE lockpc' = "wait" /\ UNCHANGED unlocked
       [] OTHER -> Unlocking("0") /\ view' = "array" /\ UNCHANGED clearing
  /\ UNCHANGED <<lockchip, lockpos, need_unlock, ret, locks, masterlock, hwlocks, unheard>>

(* wait_82802ab(), which makes the chip show its contents again.            *)
LockWait ==
  /\ lockpc = "wait" /\ ~clearing
  /\ Unlocking("0") /\ view' = "array"
  /\ UNCHANGED <<lockchip, lockpos, need_unlock, ret, locks, masterlock, hwlocks, clearing, unheard>>

LocksHost ==
  \/ WriteBlindly \/ Stm50Block \/ SstFwhubBlock \/ W39FwhBlock \/ LoopEnds
  \/ ReadLockBit \/ ClearLockBits \/ LockWait
LocksNext == LocksHost \/ Cleared \/ ClearFails

-----------------------------------------------------------------------------
(* Properties *)

(* What the functions are known not to do: three write without a look at    *)
(* what came of it, so that a block that is locked down stays as it is; and *)
(* the sectors of some chips they do not open one by one ("TODO: What about *)
(* the other types?", stm50flw0x0x.c), but only the first in 64 KB.         *)
Expected(c) == IF c.gap THEN {b \in c.blocks : b % 16 = 0} ELSE c.blocks

(* Where a function comes by. The chips of flashchips.c have their blocks   *)
(* there, and their last block ends where the function does.                *)
Stops(c) ==
  {a \in 0 .. c.size :
     CASE c.unlock = "unlock_49lfxxxc" ->
            a % 16 = 0 \/ a \in {c.size - 8, c.size - 6, c.size - 4}
       [] c.unlock = "unlock_stm50flw0x0x" -> a % c.page = 0 \/ a - (a % 16) \in Stm50Small(c)
       [] c.unlock = "unlock_lh28f008bjt" -> a % 16 = 0 \/ (a < 16 /\ a % 2 = 0)
       [] OTHER -> a % Stride(c, 0) = 0}
ASSUME StopsAssumption ==
  \A c \in LockChips : \A a \in Stops(c) :
    a < c.size =>
      /\ a + Stride(c, a) \in Stops(c)
      /\ \A b \in Expected(c) : a <= b /\ b < a + Stride(c, a) => b = a

IsOpen(b) ==
  \/ locks[b] \cap (IF lockchip.unlock = "unlock_sst_fwhub" THEN {"write"} ELSE Bits \ {"down"}) = {}
  \/ lockchip.unlock \in Blind /\ "down" \in locks[b]
  \/ lockchip.unlock \in LockBits /\ (unheard \/ clearing)

(* When an unlock function has returned 0, every block can be written, and  *)
(* no pin of the chip forbids it: whichever registers were locked, locked   *)
(* down, or open already. The chip shows its contents; but after            *)
(* unlock_28f004s5() it may still be clearing its lock bits, and then it    *)
(* shows its status.                                                        *)
Unlocked ==
  unlocked = "0" =>
    /\ \A b \in Expected(lockchip) : IsOpen(b)
    /\ hwlocks = {}
    /\ lockchip.unlock # "unlock_28f004s5" => view = "array" /\ ~clearing
=============================================================================
