--------------------------------- MODULE Ich ---------------------------------
(***************************************************************************)
(* The SPI controller of Intel's chipsets as ich_init_spi() sets it up:    *)
(* with software sequencing, or, if the firmware has locked a menu without *)
(* the opcodes to read the chip and its status, with hardware sequencing,  *)
(* for the rest of the run.                                                *)
(***************************************************************************)
EXTENDS IchSpi, IchHwseq

VARIABLE mode     (* ich_spi_mode: "swseq" or "hwseq"                       *)

ichVars == <<vars, hwVars, mode>>

Idle ==
  /\ job = CHOOSE j \in Jobs : TRUE
  /\ at = "start" /\ pos = 0 /\ buf = <<>>
  /\ flash = CHOOSE d \in Data : TRUE
  /\ faddr = 0 /\ fdata = [i \in Registers |-> 0]
  /\ fcycle = NoFCycle /\ fdone = FALSE /\ herr = FALSE
  /\ result = "none" /\ told = TRUE /\ trouble = FALSE

(* The user may ask for either way, and with more than one chip it is       *)
(* hardware sequencing too; the menu, which that does not use, stays the    *)
(* same, so that the case of the locked menu stands for all of them.        *)
IchInit ==
  /\ Init
  /\ \/ mode = "swseq" /\ Idle
     \/ mode = "hwseq" /\ lock /\ MissingOpcodes(menu) /\ bbar = 0 /\ HwInit

IchNext ==
  \/ mode = "swseq" /\ Next /\ UNCHANGED <<hwVars, mode>>
  \/ mode = "hwseq" /\ HwNext /\ UNCHANGED <<vars, mode>>

IchSpec == IchInit /\ [][IchNext]_ichVars
IchFairSpec ==
  IchSpec /\ WF_ichVars(mode = "swseq" /\ Host /\ UNCHANGED <<hwVars, mode>>)
          /\ WF_ichVars(mode = "hwseq" /\ HwHost /\ UNCHANGED <<vars, mode>>)

(* What the chip sees of a call, whether it succeeds or fails, is what was  *)
(* asked for, in order and once.                                            *)
OnTheWire == AsAsked /\ InOrder

(* What the controller can do is done: no order of calls leaves a menu in   *)
(* which a command has no place, and hardware sequencing takes every block  *)
(* of the layout it reports.                                                *)
AllTaken == UnlockedTakesAll /\ LayoutFits

(* The bytes a read returns are the answer to this read, in either mode.    *)
ReadsAreOwn == OwnAnswer /\ HwReadResult

(* Every call returns, with either way of sequencing, whatever the          *)
(* controller does.                                                         *)
Returns == Termination /\ (mode = "hwseq" => HwTermination)
=============================================================================
