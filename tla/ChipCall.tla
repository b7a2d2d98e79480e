------------------------------ MODULE ChipCall ------------------------------
(***************************************************************************)
(* What the write engine may expect of a call of a chip's read, write or   *)
(* erase function: it changes nothing but the bytes it was called for,     *)
(* each of them only to what it should become, and it returns 0 only if    *)
(* all of them are what they should be. A call that returns an error may   *)
(* have had any part of its effect, and the chip may still go on with it.  *)
(* If a failure is hidden from the caller, only the first of these is left.*)
(***************************************************************************)
EXTENDS Integers

CONSTANTS Addr, Val

VARIABLES
  fn,       (* "read", "write", "erase", or "rewrite": a write by a chip    *)
            (* that erases on its own what it writes                        *)
  range,    (* the bytes the call is for                                    *)
  data,     (* what to write to them                                        *)
  mem,      (* the contents of the chip                                     *)
  result,   (* "none" until the call returns                                *)
  told      (* no failure has been hidden from the caller                   *)

vars == <<fn, range, data, mem, result, told>>

(* Programming only clears bits; a byte here is one bit.                    *)
Becomes(a) ==
  CASE fn = "read" -> mem[a]
    [] fn = "write" -> IF data[a] = 0 THEN 0 ELSE mem[a]
    [] fn = "rewrite" -> data[a]
    [] fn = "erase" -> 1

Init ==
  /\ fn \in {"read", "write", "rewrite", "erase"} /\ range \in SUBSET Addr
  /\ data \in [Addr -> Val] /\ mem \in [Addr -> Val]
  /\ result = "none"
  /\ told = TRUE

Change ==
  /\ result = "0" => ~told
  /\ mem' \in [Addr -> Val]
  /\ \A a \in Addr : mem'[a] # mem[a] => a \in range /\ (told => mem'[a] = Becomes(a) \/ (fn = "rewrite" /\ mem'[a] = 1))
  /\ UNCHANGED <<fn, range, data, result, told>>

Hide ==
  /\ told' = FALSE
  /\ UNCHANGED <<fn, range, data, mem, result>>

Fail ==
  /\ result = "none"
  /\ result' = "error"
  /\ UNCHANGED <<fn, range, data, mem, told>>

Succeed ==
  /\ result = "none"
  /\ told => \A a \in range : mem[a] = Becomes(a)
  /\ result' = "0"
  /\ UNCHANGED <<fn, range, data, mem, told>>

Next == Change \/ Hide \/ Fail \/ Succeed

Spec == Init /\ [][Next]_vars
=============================================================================
