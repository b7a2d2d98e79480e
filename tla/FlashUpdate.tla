---------------------------- MODULE FlashUpdate ----------------------------
(***************************************************************************)
(* What one call of doit() promises its user, without any of the engine:   *)
(* an operation that is allowed to may bring the chip into any state for a *)
(* while, and the verdict it ends with is true.  Module EraseWrite         *)
(* implements this.                                                        *)
(***************************************************************************)
CONSTANTS Addr, Byte

VARIABLES
  flash,      (* the chip                                                   *)
  before,     (* the chip when the operation began                          *)
  goal,       (* the contents asked for                                     *)
  mayChange,  (* is the chip to be changed at all?                          *)
  betrayed,   (* the chip has claimed to have done what it did not          *)
  outcome     (* "none" while the operation runs, then the verdict          *)

vars == <<flash, before, goal, mayChange, betrayed, outcome>>

Init ==
  /\ flash \in [Addr -> Byte]
  /\ before = flash
  /\ goal \in [Addr -> Byte]
  /\ mayChange \in BOOLEAN
  /\ betrayed = FALSE
  /\ outcome = "none"

(* The chip changes, only while the operation runs and only if it may.      *)
Touch ==
  /\ outcome = "none" /\ mayChange
  /\ flash' \in [Addr -> Byte]
  /\ betrayed' \in {betrayed, TRUE}
  /\ UNCHANGED <<before, goal, mayChange, outcome>>

(* Each verdict needs what it says.                                         *)
True(verdict) ==
  CASE verdict = "verified" -> flash = goal
    [] verdict = "success" -> flash = goal \/ betrayed
    [] verdict = "untouched" -> flash = before
    [] verdict = "emergency" -> mayChange

Finish ==
  /\ outcome = "none"
  /\ \E verdict \in {"verified", "success", "untouched", "emergency"} :
       True(verdict) /\ outcome' = verdict
  /\ UNCHANGED <<flash, before, goal, mayChange, betrayed>>

Next == Touch \/ Finish

Spec == Init /\ [][Next]_vars
=============================================================================
