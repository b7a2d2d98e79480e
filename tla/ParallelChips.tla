---------------------------- MODULE ParallelChips ----------------------------
(***************************************************************************)
(* What is done to a parallel, LPC or FWH chip by its entry in the table:  *)
(* it is unlocked (ParallelLocks), and then called upon to erase or write  *)
(* (ParallelCommands). A behaviour is one such call: part says which.      *)
(***************************************************************************)
EXTENDS ParallelCommands, ParallelLocks

VARIABLE part     (* "command" or "unlock"                                  *)

chipVars == <<vars, lockVars, part>>

CommandsIdle ==
  /\ job = CHOOSE k \in Jobs : TRUE
  /\ pos = job.start /\ cycles = << >> /\ tmp1 = 0 /\ polls = 0
  /\ tried = 0 /\ failed = FALSE /\ result = "none" /\ pc = "none"
  /\ mem = [a \in Addr |-> 1] /\ seq = << >> /\ load = {} /\ busy = Idle /\ dq6 = 0
  /\ shows = "array" /\ failures = 0 /\ late = FALSE /\ weak = FALSE
LocksIdle ==
  /\ lockchip = CHOOSE c \in LockChips : TRUE
  /\ locks = << >> /\ masterlock = FALSE /\ hwlocks = {}
  /\ view = "array" /\ clearing = FALSE /\ unheard = FALSE
  /\ lockpos = 0 /\ need_unlock = FALSE /\ ret = 0
  /\ unlocked = "none" /\ lockpc = "none"

ChipsInit ==
  \/ part = "command" /\ Init /\ LocksIdle
  \/ part = "unlock" /\ CommandsIdle /\ LocksInit

InCommand(A) == part = "command" /\ A /\ UNCHANGED <<lockVars, part>>
InUnlock(A) == part = "unlock" /\ A /\ UNCHANGED <<vars, part>>

ChipsNext == InCommand(Next) \/ InUnlock(LocksNext)
ChipsSpec == ChipsInit /\ [][ChipsNext]_chipVars

(* One thread, whose accesses of the chip return; a chip that is loaded     *)
(* starts in the end. That it finishes what it does is assumed of the chips *)
(* that are asked for their status, without a limit; of the others it is    *)
(* not.                                                                     *)
ChipsFairSpec ==
  /\ ChipsSpec
  /\ WF_chipVars(InCommand(Host)) /\ WF_chipVars(InCommand(StartLoad))
  /\ WF_chipVars(InCommand(Intel /\ (Finish \/ Fail)))
  /\ WF_chipVars(InUnlock(LocksHost)) /\ WF_chipVars(InUnlock(Cleared \/ ClearFails))

(* Every call returns, even if a chip that shows a toggle bit never         *)
(* finishes: the wait for it has a limit.                                   *)
Termination == <>(pc = "returned" \/ unlocked # "none")

(* And it does what a call may do, and no more (ChipCall).                  *)
ImplementsAndReturns == ImplementsCall /\ Termination
=============================================================================
