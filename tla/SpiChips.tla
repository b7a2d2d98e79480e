------------------------------ MODULE SpiChips -------------------------------
(***************************************************************************)
(* What doit() asks of a SPI chip: first to give up its block protection   *)
(* (StatusRegister), then to be read, erased and written (Spi25). A        *)
(* behaviour is about one call: work says of which kind.                   *)
(***************************************************************************)
EXTENDS Spi25, StatusRegister

VARIABLE work     (* "call" or "unlock"                                     *)

chipsVars == <<spiVars, vars, work>>

Spi25Idle ==
  /\ job = CHOOSE k \in Jobs : TRUE
  /\ pgm = CHOOSE p \in Programmers : TRUE
  /\ pos = job.start /\ stage = "start" /\ cmds = << >>
  /\ buf = [a \in Addr |-> None]
  /\ ret = "none" /\ at = "none"
  /\ mem = [a \in Addr |-> 1] /\ welatch = FALSE /\ wip = Idle /\ aai = None
  /\ lost = 0 /\ misled = FALSE /\ unchecked = FALSE
RegisterIdle ==
  /\ chip = CHOOSE c \in Chips : TRUE
  /\ protected = FALSE /\ reg = {} /\ wel = FALSE /\ busy = {}
  /\ status = {} /\ writing = {} /\ opcodes = << >> /\ i = 0 /\ after = "test"
  /\ pc = "none" /\ result = "none" /\ failures = 0 /\ was = {} /\ blind = FALSE

ChipsInit ==
  \/ work = "call" /\ SpiInit /\ RegisterIdle
  \/ work = "unlock" /\ Spi25Idle /\ Init

InCall(A) == work = "call" /\ A /\ UNCHANGED <<vars, work>>
InUnlock(A) == work = "unlock" /\ A /\ UNCHANGED <<spiVars, work>>

ChipsNext == InCall(SpiNext) \/ InUnlock(Next)
ChipsSpec == ChipsInit /\ [][ChipsNext]_chipsVars

(* One thread, whose commands return. A chip gets a program or erase        *)
(* command done in the time its data sheet gives; of a write to its status  *)
(* register nothing is assumed.                                             *)
ChipsFairSpec ==
  /\ ChipsSpec
  /\ WF_chipsVars(InCall(SpiStep)) /\ WF_chipsVars(InCall(ArrayDone))
  /\ WF_chipsVars(InUnlock(Step))

(* Every call returns: the wait for a program or erase command because the  *)
(* chip finishes, that for its status register although it may not.         *)
CallsReturn == <>(at = "returned" \/ pc = "returned")
=============================================================================
