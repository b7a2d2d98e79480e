------------------------------ MODULE IchHwseq ------------------------------
(***************************************************************************)
(* The SPI controller of Intel's ICH9 and later in hardware sequencing:    *)
(* the controller knows the chip, the host asks for bytes to be read or    *)
(* written or a block to be erased, and waits for the "done" or the        *)
(* "error" flag. One call of a function of the opaque programmer, for any  *)
(* range the write engine may ask for. The controller may still be at a    *)
(* cycle of an earlier call that was given up.                             *)
(***************************************************************************)
EXTENDS Integers, Sequences, SequencesExt

CONSTANTS
  SizeComp0, SizeComp1,  (* the sizes of the chips                          *)
  Boundary,       (* FPB: where the upper partition begins, or 0            *)
  EraseLow, EraseHigh,   (* the erase block size in the partitions          *)
  MaxTransfer,    (* max_data_read and max_data_write                       *)
  Data            (* the contents to read and to write                      *)

VARIABLES
  job,            (* [fn, addr, len, data]: the call                        *)
  at,             (* "start", "next", "wait" or "end"                       *)
  pos,            (* addr as it goes on                                     *)
  buf,            (* what was read so far                                   *)
  flash,          (* the contents of the chip                               *)
  faddr, fdata,   (* the registers of the controller                        *)
  fcycle,         (* [op, addr, n], NoFCycle or StaleCycle                  *)
  fdone, herr,    (* FDONE and FCERR                                        *)
  result,         (* "none", "0" or "error"                                 *)
  told,           (* no earlier cycle was in progress when the flags were   *)
                  (* cleared                                                *)
  trouble         (* the controller has failed or kept the host waiting     *)

hwHost == <<job, at, pos, buf, result>>
hwCtrl == <<flash, faddr, fdata, fcycle, fdone, herr>>
hwVars == <<hwHost, hwCtrl, told, trouble>>

(* ich_hwseq_probe(): the size of the chip and the layout of its eraser.    *)
TotalSize == SizeComp0 + SizeComp1
SizeHigh == TotalSize - Boundary
EraseBlocks ==
  IF Boundary = 0 THEN <<[size |-> EraseHigh, count |-> SizeHigh \div EraseHigh]>>
  ELSE <<[size |-> EraseLow, count |-> (TotalSize - SizeHigh) \div EraseLow],
         [size |-> EraseHigh, count |-> SizeHigh \div EraseHigh]>>

Registers == 1 .. MaxTransfer
FAddr == 0 .. TotalSize - 1

ASSUME PartitionsAssumption ==
  /\ {SizeComp0, EraseLow, EraseHigh, MaxTransfer} \subseteq Nat \ {0} /\ SizeComp1 \in Nat
  /\ Boundary \in 0 .. TotalSize - 1 /\ Boundary % EraseLow = 0 /\ SizeHigh % EraseHigh = 0
  /\ Data # {} /\ Data \subseteq [FAddr -> {0, 1}]

BlockSizeAt(a) == IF a >= Boundary THEN EraseHigh ELSE EraseLow
BlockAt(a) == {b \in FAddr : b \div BlockSizeAt(a) = a \div BlockSizeAt(a)}

(* The blocks the write engine erases, one after the other.                 *)
Blocks ==
  LET first == EraseBlocks[1]
      low == {[addr |-> i * first.size, len |-> first.size] : i \in 0 .. first.count - 1}
  IN IF Len(EraseBlocks) = 1 THEN low
     ELSE low \cup {[addr |-> first.size * first.count + i * EraseBlocks[2].size, len |-> EraseBlocks[2].size] :
                      i \in 0 .. EraseBlocks[2].count - 1}

NoFCycle == [op |-> "none", addr |-> 0, n |-> 0]
StaleCycle == [op |-> "stale", addr |-> 0, n |-> 0]

Jobs ==
  {j \in [fn : {"read", "write"}, addr : FAddr, len : 1 .. TotalSize, data : Data] : j.addr + j.len <= TotalSize}
  \cup {[fn |-> "erase", addr |-> b.addr, len |-> b.len, data |-> d] : b \in Blocks, d \in Data}

HwInit ==
  /\ job \in Jobs /\ at = "start" /\ pos = job.addr /\ buf = <<>>
  /\ flash \in Data /\ faddr = 0 /\ fdata = [i \in Registers |-> 0]
  /\ fcycle \in {NoFCycle, StaleCycle} /\ told = TRUE
  /\ fdone \in BOOLEAN /\ herr \in BOOLEAN
  /\ result = "none" /\ trouble = FALSE

-----------------------------------------------------------------------------
Fails ==
  /\ result' = "error" /\ at' = "end"

EraseRefused ==
  \/ job.len # BlockSizeAt(job.addr)
  \/ job.addr % BlockSizeAt(job.addr) # 0

(* What cannot be done is refused; else the flags are cleared, once.        *)
Check ==
  /\ at = "start"
  /\ faddr' = (IF job.fn = "erase" THEN job.addr ELSE faddr)
  /\ IF job.addr + job.len > TotalSize \/ (job.fn = "erase" /\ EraseRefused)
     THEN Fails /\ UNCHANGED <<fdone, herr, told>>
     ELSE /\ fdone' = FALSE /\ herr' = FALSE /\ at' = "next"
          /\ told' = (fcycle = NoFCycle) /\ UNCHANGED result
  /\ UNCHANGED <<job, pos, buf, flash, fdata, fcycle, trouble>>

BlockLen ==
  IF job.addr + job.len - pos < MaxTransfer THEN job.addr + job.len - pos ELSE MaxTransfer

(* HSFC.FGO starts a cycle, and does nothing while one is in progress.      *)
Go(op, n) == fcycle' = (IF fcycle = NoFCycle THEN [op |-> op, addr |-> faddr', n |-> n] ELSE fcycle)

ReadChunk ==
  /\ at = "next" /\ job.fn = "read" /\ pos < job.addr + job.len
  /\ faddr' = pos
  /\ Go("read", BlockLen)
  /\ at' = "wait"
  /\ UNCHANGED <<job, pos, buf, result, flash, fdata, fdone, herr, told, trouble>>

WriteChunk ==
  /\ at = "next" /\ job.fn = "write" /\ pos < job.addr + job.len
  /\ faddr' = pos
  /\ fdata' = [i \in Registers |->
                 IF i <= BlockLen /\ pos + i - 1 \in FAddr THEN job.data[pos + i - 1] ELSE fdata[i]]
  /\ Go("write", BlockLen)
  /\ at' = "wait"
  /\ UNCHANGED <<job, pos, buf, result, flash, fdone, herr, told, trouble>>

EraseBlock ==
  /\ at = "next" /\ job.fn = "erase" /\ pos < job.addr + job.len
  /\ UNCHANGED faddr
  /\ Go("erase", job.len)
  /\ at' = "wait"
  /\ UNCHANGED <<job, pos, buf, result, flash, fdata, fdone, herr, told, trouble>>

(* ich_hwseq_wait_for_cycle_complete(): the flags are read, then cleared.   *)
WaitFails ==
  /\ at = "wait" /\ herr
  /\ herr' = FALSE /\ fdone' = FALSE
  /\ Fails
  /\ UNCHANGED <<job, pos, buf, flash, faddr, fdata, fcycle, told, trouble>>

WaitTimeout ==
  /\ at = "wait" /\ ~fdone /\ ~herr
  /\ Fails
  /\ trouble' = TRUE
  /\ UNCHANGED <<job, pos, buf, hwCtrl, told>>

(* Mutant: the "done" flag stays set for the next chunk.                    *)
WaitDoneOnce ==
  /\ at = "wait" /\ fdone /\ ~herr
  /\ buf' = (IF job.fn = "read" THEN buf \o SubSeq(fdata, 1, BlockLen) ELSE buf)
  /\ pos' = pos + (IF job.fn = "erase" THEN job.len ELSE BlockLen)
  /\ at' = "next"
  /\ UNCHANGED <<job, result, flash, faddr, fdata, fcycle, fdone, herr, told, trouble>>
WaitDone ==
  /\ at = "wait" /\ fdone /\ ~herr
  /\ fdone' = FALSE
  /\ buf' = (IF job.fn = "read" THEN buf \o SubSeq(fdata, 1, BlockLen) ELSE buf)
  /\ pos' = pos + (IF job.fn = "erase" THEN job.len ELSE BlockLen)
  /\ at' = "next"
  /\ UNCHANGED <<job, result, flash, faddr, fdata, fcycle, herr, told, trouble>>

HwReturn ==
  /\ at = "next" /\ pos >= job.addr + job.len
  /\ result' = "0" /\ at' = "end"
  /\ UNCHANGED <<job, pos, buf, hwCtrl, told, trouble>>

-----------------------------------------------------------------------------
(* The controller.                                                          *)
Affected ==
  CASE fcycle.op = "write" -> {a \in FAddr : fcycle.addr <= a /\ a < fcycle.addr + fcycle.n}
    [] fcycle.op = "erase" -> BlockAt(fcycle.addr)
    [] OTHER -> {}
After(a) ==
  CASE a \notin Affected -> flash[a]
    [] a \in Affected /\ fcycle.op = "erase" -> 1
    [] OTHER -> IF fdata[a - fcycle.addr + 1] = 0 THEN 0 ELSE flash[a]

CycleCompletes ==
  /\ fcycle # NoFCycle
  /\ flash' = [a \in FAddr |-> After(a)]
  /\ fdata' = [i \in Registers |->
                 IF fcycle.op = "read" /\ i <= fcycle.n /\ fcycle.addr + i - 1 \in FAddr
                 THEN flash[fcycle.addr + i - 1] ELSE fdata[i]]
  /\ fdone' = TRUE /\ fcycle' = NoFCycle
  /\ UNCHANGED <<hwHost, faddr, herr, told, trouble>>

(* A cycle that fails may have had its effect on some of the bytes.         *)
CycleAborts ==
  /\ fcycle # NoFCycle
  /\ \E S \in SUBSET Affected : flash' = [a \in FAddr |-> IF a \in S THEN After(a) ELSE flash[a]]
  /\ fdone' \in BOOLEAN /\ herr' = TRUE /\ fcycle' = NoFCycle /\ trouble' = TRUE
  /\ UNCHANGED <<hwHost, faddr, fdata, told>>

HwHost ==
  Check \/ ReadChunk \/ WriteChunk \/ EraseBlock \/ WaitFails \/ WaitTimeout \/ WaitDone \/ HwReturn
HwNext == HwHost \/ CycleCompletes \/ CycleAborts

HwSpec == HwInit /\ [][HwNext]_hwVars

-----------------------------------------------------------------------------
Bytes(j) == {a \in FAddr : j.addr <= a /\ a < j.addr + j.len}

OpaqueCall == INSTANCE ChipCall WITH
  Addr <- FAddr, Val <- {0, 1}, fn <- job.fn, range <- Bytes(job), data <- job.data, mem <- flash

(* A call changes only the bytes it is for, each only to what it is to      *)
(* become, and returns 0 only if all of them are: with any chunk size, and  *)
(* blocks of two sizes. With an earlier cycle still in progress the first   *)
(* part is left: its end is taken for the end of this one.                  *)
ImplementsCall == OpaqueCall!Spec

(* What was read is what the chip holds, unless an earlier cycle was in     *)
(* progress.                                                                *)
HwReadResult ==
  job.fn = "read" /\ result = "0" /\ told => buf = [i \in 1 .. job.len |-> flash[job.addr + i - 1]]

(* Every block of the layout that ich_hwseq_probe() reports is one that     *)
(* ich_hwseq_block_erase() takes.                                           *)
LayoutFits == result = "error" => trouble \/ ~told

HwTermination == <>(result # "none")
=============================================================================
