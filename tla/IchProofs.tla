----------------------------- MODULE IchProofs -----------------------------
(***************************************************************************)
(* Theorems about Ich, for every menu, call, chip and order of events: in  *)
(* three parts, about IchHwseq, about IchSpi, and about the two composed.  *)
(***************************************************************************)
EXTENDS Ich, SequenceTheorems, TLAPS

-----------------------------------------------------------------------------
(* The inductive invariant of IchHwseq *)

JobEnd == job.addr + job.len
Live == fcycle \notin {NoFCycle, StaleCycle}

HwTypes ==
  /\ job \in Jobs /\ at \in {"start", "next", "wait", "end"} /\ pos \in job.addr .. JobEnd
  /\ flash \in [FAddr -> {0, 1}] /\ fdata \in [Registers -> {0, 1}]
  /\ fdone \in BOOLEAN /\ herr \in BOOLEAN /\ told \in BOOLEAN /\ trouble \in BOOLEAN

(* Where the call is.                                                       *)
HwWalk ==
  /\ at = "start" => pos = job.addr /\ buf = << >> /\ told = TRUE /\ ~Live
  /\ result \in {"none", "0", "error"} /\ (result = "none" <=> at # "end")
  /\ result = "0" => pos = JobEnd
  /\ at = "wait" => pos < JobEnd
  /\ job.fn = "erase" => pos \in {job.addr, JobEnd}
  /\ job.fn = "erase" /\ at \in {"next", "wait"} => ~EraseRefused /\ faddr = job.addr

(* What the controller is at concerns only the bytes of the call.           *)
HwConfined ==
  Live =>
    /\ fcycle.op = job.fn
    /\ job.fn = "erase" => fcycle.addr = job.addr /\ ~EraseRefused
    /\ job.fn = "write" =>
         /\ fcycle.n \in Registers /\ fcycle.addr \in Nat
         /\ job.addr <= fcycle.addr /\ fcycle.addr + fcycle.n <= JobEnd

(* When no earlier cycle was in the way, the controller is at the chunk the *)
(* host waits for, or done with it.                                         *)
ChunkDone ==
  CASE job.fn = "read" -> \A i \in 1 .. BlockLen : fdata[i] = flash[pos + i - 1]
    [] job.fn = "write" ->
         \A a \in FAddr : pos <= a /\ a < pos + BlockLen /\ job.data[a] = 0 => flash[a] = 0
    [] OTHER -> \A a \in Bytes(job) : flash[a] = 1
HwChunk ==
  told =>
    /\ at \in {"next", "wait"} => fcycle # StaleCycle
    /\ at = "next" => ~Live /\ ~fdone /\ ~herr
    /\ herr /\ at = "wait" => trouble
    /\ at = "wait" /\ fdone /\ ~herr => ChunkDone
    /\ Live =>
         /\ at \in {"wait", "end"} /\ result # "0" /\ pos < JobEnd /\ (at = "wait" => ~fdone /\ ~herr)
         /\ job.fn # "erase" => fcycle.addr = pos /\ fcycle.n = BlockLen
         /\ job.fn = "write" => \A i \in 1 .. BlockLen : fdata[i] = job.data[pos + i - 1]

(* What the loop has passed has been read or is as it should be.            *)
HwPassed ==
  told =>
    /\ job.fn = "read" => buf = [i \in 1 .. pos - job.addr |-> flash[job.addr + i - 1]]
    /\ job.fn = "write" =>
         \A a \in FAddr : job.addr <= a /\ a < pos /\ job.data[a] = 0 => flash[a] = 0
    /\ job.fn = "erase" /\ pos = JobEnd => \A a \in Bytes(job) : flash[a] = 1

HwInv == HwTypes /\ HwWalk /\ HwConfined /\ HwChunk /\ HwPassed

-----------------------------------------------------------------------------
(* Division with a remainder.                                               *)
LEMMA DivMod ==
  ASSUME NEW a \in Nat, NEW p \in Nat \ {0}
  PROVE  a = p * (a \div p) + (a % p) /\ a % p \in 0 .. p - 1 /\ a \div p \in Nat
  OBVIOUS

(* Multiples of p are p apart.                                              *)
LEMMA MulLess ==
  ASSUME NEW p \in Nat \ {0}, NEW q \in Nat, NEW r \in Nat, q < r
  PROVE  p * q + p <= p * r
  <1>1. PICK d \in Nat : r = q + 1 + d
    <2>1. r - q - 1 \in Nat /\ r = q + 1 + (r - q - 1) OBVIOUS
    <2> QED BY <2>1
  <1>2. p * r = p * q + p + p * d
    BY <1>1
  <1>3. p * d \in Nat
    OBVIOUS
  <1> QED BY <1>2, <1>3

(* What lies within p above a multiple of p has it for its quotient.        *)
LEMMA Quotient ==
  ASSUME NEW a \in Nat, NEW p \in Nat \ {0}, NEW q \in Nat, p * q <= a, a < p * q + p
  PROVE  a \div p = q /\ a % p = a - p * q
  <1>1. a = p * (a \div p) + (a % p) /\ a % p \in 0 .. p - 1 /\ a \div p \in Nat
    BY DivMod
  <1>2. DEFINE d == a \div p
  <1>3. d \in Nat /\ p * d <= a /\ a < p * d + p BY <1>1
  <1>4. CASE d < q
    <2>1. p * d + p <= p * q BY <1>3, <1>4, MulLess
    <2> HIDE DEF d
    <2>2. p * d \in Nat /\ p * q \in Nat BY <1>3
    <2> QED BY <1>3, <2>1, <2>2
  <1>5. CASE q < d
    <2>1. p * q + p <= p * d BY <1>3, <1>5, MulLess
    <2> HIDE DEF d
    <2>2. p * d \in Nat /\ p * q \in Nat BY <1>3
    <2> QED BY <1>3, <2>1, <2>2
  <1>6. d = q
    <2> HIDE DEF d
    <2> QED BY <1>3, <1>4, <1>5
  <1> QED BY <1>1, <1>6

(* The sizes, by their names.                                               *)
LEMMA SizeFacts ==
  /\ TotalSize \in Nat \ {0} /\ Boundary \in Nat /\ Boundary < TotalSize
  /\ EraseLow \in Nat \ {0} /\ EraseHigh \in Nat \ {0} /\ MaxTransfer \in Nat \ {0}
  /\ SizeHigh \in Nat \ {0} /\ TotalSize - SizeHigh = Boundary
  /\ Boundary % EraseLow = 0 /\ SizeHigh % EraseHigh = 0
  <1>1. TotalSize \in Nat \ {0}
    BY PartitionsAssumption DEF PartitionsAssumption, TotalSize
  <1>2. Boundary \in 0 .. TotalSize - 1
    BY PartitionsAssumption DEF PartitionsAssumption
  <1> QED BY <1>1, <1>2, PartitionsAssumption DEF PartitionsAssumption, SizeHigh

(* A multiple of a block's size below another ends no later than that.      *)
LEMMA WithinMultiple ==
  ASSUME NEW n \in Nat, NEW p \in Nat \ {0}, n % p = 0, NEW i \in 0 .. (n \div p) - 1
  PROVE  i * p \in Nat /\ i * p + p <= n /\ (i * p) % p = 0
  <1> DEFINE q == n \div p
  <1>1. n = p * q /\ q \in Nat
    BY DivMod
  <1>2. i \in Nat /\ i < q
    BY <1>1
  <1>3. p * i + p <= p * q
    <2> HIDE DEF q
    <2> QED BY <1>1, <1>2, MulLess
  <1>4. p * i \in Nat /\ i * p = p * i
    BY <1>2
  <1>5. (p * i) % p = p * i - p * i
    BY <1>2, <1>4, Quotient
  <1> HIDE DEF q
  <1> QED BY <1>1, <1>3, <1>4, <1>5

(* The upper partition begins at a multiple of its blocks' size.            *)
Aligned == Boundary % EraseHigh = 0

(* Each block of the layout lies within the chip; and if the partitions are *)
(* aligned, its size and address are the ones the controller takes.         *)
LEMMA BlockFacts ==
  ASSUME NEW b \in Blocks
  PROVE  /\ b.addr \in FAddr /\ b.len \in Nat \ {0} /\ b.addr + b.len <= TotalSize
         /\ Aligned => b.len = BlockSizeAt(b.addr) /\ b.addr % BlockSizeAt(b.addr) = 0
  <1> USE SizeFacts
  <1>1. CASE Boundary = 0
    <2>1. /\ EraseBlocks[1].size = EraseHigh /\ EraseBlocks[1].count = SizeHigh \div EraseHigh
          /\ Len(EraseBlocks) = 1
      BY <1>1 DEF EraseBlocks
    <2>2. PICK i \in 0 .. (SizeHigh \div EraseHigh) - 1 :
            b = [addr |-> i * EraseHigh, len |-> EraseHigh]
      BY <2>1 DEF Blocks
    <2>3. i * EraseHigh \in Nat /\ i * EraseHigh + EraseHigh <= SizeHigh
          /\ (i * EraseHigh) % EraseHigh = 0
      BY WithinMultiple
    <2> DEFINE x == i * EraseHigh
    <2>4. b.addr = x /\ b.len = EraseHigh
      BY <2>2
    <2>5. x \in Nat /\ x + EraseHigh <= TotalSize /\ x % EraseHigh = 0
      BY <1>1, <2>3
    <2> HIDE DEF x
    <2> QED BY <1>1, <2>4, <2>5 DEF FAddr, BlockSizeAt
  <1>2. CASE Boundary # 0
    <2>1. /\ EraseBlocks[1] = [size |-> EraseLow, count |-> Boundary \div EraseLow]
          /\ EraseBlocks[2] = [size |-> EraseHigh, count |-> SizeHigh \div EraseHigh]
          /\ Len(EraseBlocks) = 2
      BY <1>2 DEF EraseBlocks
    <2>2. EraseLow * (Boundary \div EraseLow) = Boundary
      BY DivMod
    <2>3. \/ \E i \in 0 .. (Boundary \div EraseLow) - 1 : b = [addr |-> i * EraseLow, len |-> EraseLow]
          \/ \E i \in 0 .. (SizeHigh \div EraseHigh) - 1 :
               b = [addr |-> Boundary + i * EraseHigh, len |-> EraseHigh]
      BY <2>1, <2>2 DEF Blocks
    <2>4. ASSUME NEW i \in 0 .. (Boundary \div EraseLow) - 1, b = [addr |-> i * EraseLow,
                 len |-> EraseLow]
          PROVE  /\ b.addr \in FAddr /\ b.len \in Nat \ {0} /\ b.addr + b.len <= TotalSize
                 /\ b.len = BlockSizeAt(b.addr) /\ b.addr % BlockSizeAt(b.addr) = 0
      <3>1. i * EraseLow \in Nat /\ i * EraseLow + EraseLow <= Boundary
            /\ (i * EraseLow) % EraseLow = 0
        BY WithinMultiple
      <3> DEFINE x == i * EraseLow
      <3>2. b.addr = x /\ b.len = EraseLow
        BY <2>4
      <3>3. x \in Nat /\ x + EraseLow <= Boundary /\ x % EraseLow = 0
        BY <3>1
      <3> HIDE DEF x
      <3>4. ~(x >= Boundary)
        BY <3>3
      <3> QED BY <3>2, <3>3, <3>4 DEF FAddr, BlockSizeAt
    <2>5. ASSUME NEW i \in 0 .. (SizeHigh \div EraseHigh) - 1,
                 b = [addr |-> Boundary + i * EraseHigh, len |-> EraseHigh]
          PROVE  /\ b.addr \in FAddr /\ b.len \in Nat \ {0} /\ b.addr + b.len <= TotalSize
                 /\ Aligned => b.len = BlockSizeAt(b.addr) /\ b.addr % BlockSizeAt(b.addr) = 0
      <3>1. i * EraseHigh \in Nat /\ i * EraseHigh + EraseHigh <= SizeHigh
            /\ (i * EraseHigh) % EraseHigh = 0
        BY WithinMultiple
      <3> DEFINE x == i * EraseHigh
                 y == Boundary + x
      <3>2. b.addr = y /\ b.len = EraseHigh
        BY <2>5
      <3>3. x \in Nat /\ x + EraseHigh <= SizeHigh /\ x % EraseHigh = 0
        BY <3>1
      <3>4. Aligned => y % EraseHigh = 0
        <4> SUFFICES ASSUME Aligned PROVE y % EraseHigh = 0
          OBVIOUS
        <4> DEFINE q == Boundary \div EraseHigh
        <4>1. Boundary = EraseHigh * q /\ q \in Nat
          BY DivMod DEF Aligned
        <4>2. i \in Nat
          OBVIOUS
        <4> HIDE DEF q
        <4>3. EraseHigh * (q + i) = y /\ q + i \in Nat /\ y \in Nat
          BY <4>1, <4>2, <3>3
        <4>4. y % EraseHigh = y - EraseHigh * (q + i)
          BY <4>3, Quotient
        <4> QED BY <4>3, <4>4
      <3>5. y \in Nat /\ y + EraseHigh <= TotalSize /\ y >= Boundary
        <4> HIDE DEF x
        <4> QED BY <3>3
      <3> HIDE DEF y
      <3> QED BY <3>2, <3>4, <3>5 DEF FAddr, BlockSizeAt
    <2> QED BY <2>3, <2>4, <2>5
  <1> QED BY <1>1, <1>2

(* What every call has.                                                     *)
LEMMA HwJobFacts ==
  ASSUME job \in Jobs
  PROVE  /\ job.fn \in {"read", "write", "erase"} /\ job.addr \in FAddr /\ job.addr \in Nat
         /\ job.len \in Nat \ {0} /\ JobEnd \in Nat /\ JobEnd <= TotalSize /\ job.addr < JobEnd
         /\ job.data \in [FAddr -> {0, 1}] /\ Bytes(job) \subseteq FAddr
         /\ job.fn = "erase" /\ Aligned => ~EraseRefused
  <1>1. Data \subseteq [FAddr -> {0, 1}] /\ TotalSize \in Nat
    BY PartitionsAssumption, SizeFacts DEF PartitionsAssumption
  <1>2. CASE job \in {j \in [fn : {"read", "write"}, addr : FAddr, len : 1 .. TotalSize, data : Data] :
                        j.addr + j.len <= TotalSize}
    BY <1>1, <1>2 DEF FAddr, JobEnd, Bytes
  <1>3. CASE job \in {[fn |-> "erase", addr |-> b.addr, len |-> b.len, data |-> d] :
                        b \in Blocks, d \in Data}
    <2>1. PICK b \in Blocks, d \in Data : job = [fn |-> "erase", addr |-> b.addr, len |-> b.len, data |-> d]
      BY <1>3
    <2>2. job.fn = "erase" /\ job.addr = b.addr /\ job.len = b.len /\ job.data = d
      BY <2>1
    <2>3. /\ b.addr \in FAddr /\ b.len \in Nat \ {0} /\ b.addr + b.len <= TotalSize
          /\ Aligned => b.len = BlockSizeAt(b.addr) /\ b.addr % BlockSizeAt(b.addr) = 0
      BY BlockFacts
    <2>4. Aligned => ~EraseRefused
      BY <2>2, <2>3 DEF EraseRefused
    <2>5. job.addr \in FAddr /\ job.len \in Nat \ {0} /\ job.addr + job.len <= TotalSize
      BY <2>2, <2>3
    <2> QED BY <1>1, <2>2, <2>4, <2>5 DEF FAddr, JobEnd, Bytes
  <1> QED BY <1>2, <1>3 DEF Jobs

(* The block an erase is for is what the controller erases.                 *)
LEMMA BlockIs ==
  ASSUME job \in Jobs, job.fn = "erase", ~EraseRefused
  PROVE  BlockAt(job.addr) = Bytes(job)
  <1> DEFINE s == BlockSizeAt(job.addr)
             q == job.addr \div s
  <1>1. s \in Nat \ {0} /\ job.len = s /\ job.addr % s = 0 /\ job.addr \in Nat
    BY SizeFacts, HwJobFacts DEF BlockSizeAt, EraseRefused
  <1>2. job.addr = s * q /\ q \in Nat
    <2>1. PICK a \in Nat, p \in Nat \ {0} : a = job.addr /\ p = s
      BY ONLY <1>1
    <2> HIDE DEF s
    <2>2. PICK k, r : k = a \div p /\ r = a % p
      OBVIOUS
    <2>3. a = p * (a \div p) + (a % p) /\ a \div p \in Nat
      BY ONLY <2>1, DivMod
    <2>4. a = p * k + r /\ k \in Nat
      BY ONLY <2>2, <2>3
    <2>5. q = k /\ r = 0
      BY ONLY <1>1, <2>1, <2>2
    <2> HIDE DEF q
    <2>6. p * k \in Nat
      BY ONLY <2>1, <2>4
    <2>7. a = p * k
      BY ONLY <2>1, <2>4, <2>5, <2>6
    <2> QED BY ONLY <2>1, <2>4, <2>5, <2>7
  <1>3. FAddr \subseteq Nat
    BY DEF FAddr
  <1>4. BlockAt(job.addr) = {b \in FAddr : b \div s = q}
    BY DEF BlockAt
  <1>5. Bytes(job) = {b \in FAddr : s * q <= b /\ b < s * q + s}
    BY <1>1, <1>2 DEF Bytes
  <1> HIDE DEF s, q
  <1>6. ASSUME NEW b \in FAddr PROVE b \div s = q <=> s * q <= b /\ b < s * q + s
    <2>1. b \in Nat
      BY <1>3
    <2>2. s * q <= b /\ b < s * q + s => b \div s = q
      BY <1>1, <1>2, <2>1, Quotient
    <2>3. b = s * (b \div s) + (b % s) /\ b % s \in 0 .. s - 1
      BY <1>1, <2>1, DivMod
    <2>4. b \div s = q => s * q <= b /\ b < s * q + s
      <3> SUFFICES ASSUME b \div s = q PROVE s * q <= b /\ b < s * q + s
        OBVIOUS
      <3> DEFINE n == s * q
      <3>1. n \in Nat /\ b = n + (b % s)
        BY <1>1, <1>2, <2>3
      <3> DEFINE r == b % s
      <3>2. r \in Nat /\ r < s
        BY <1>1, <2>3
      <3> HIDE DEF n, r
      <3> QED BY <1>1, <2>1, <3>1, <3>2 DEF n, r
    <2> QED BY <2>2, <2>4
  <1> QED BY <1>4, <1>5, <1>6

(* The chunk at hand.                                                       *)
LEMMA ChunkFacts ==
  ASSUME HwTypes, pos < JobEnd
  PROVE  BlockLen \in Registers /\ BlockLen \in Nat \ {0} /\ pos \in Nat /\ pos + BlockLen <= JobEnd
  <1>1. /\ JobEnd \in Nat /\ pos \in Nat /\ MaxTransfer \in Nat \ {0} /\ job.addr + job.len = JobEnd
        /\ job.addr \in Nat /\ job.len \in Nat
    BY HwJobFacts, SizeFacts DEF HwTypes, JobEnd
  <1>2. BlockLen = IF JobEnd - pos < MaxTransfer THEN JobEnd - pos ELSE MaxTransfer
    BY <1>1 DEF BlockLen
  <1> QED BY <1>1, <1>2 DEF Registers

(* The bytes of a chunk are bytes of the chip.                              *)
LEMMA ChunkBytes ==
  ASSUME HwTypes, pos < JobEnd, NEW i \in 1 .. BlockLen
  PROVE  pos + i - 1 \in FAddr /\ i \in Registers
  <1>1. JobEnd \in Nat /\ JobEnd <= TotalSize /\ TotalSize \in Nat
    BY HwJobFacts, SizeFacts DEF HwTypes
  <1>2. BlockLen \in Nat \ {0} /\ pos \in Nat /\ pos + BlockLen <= JobEnd /\ BlockLen \in Registers
    BY ChunkFacts
  <1> DEFINE n == BlockLen
  <1> HIDE DEF n
  <1>3. n \in Nat /\ n \in 1 .. MaxTransfer /\ MaxTransfer \in Nat
    BY <1>2, SizeFacts DEF n, Registers
  <1>4. i \in 1 .. n /\ pos + n <= JobEnd
    BY <1>2 DEF n
  <1> QED BY <1>1, <1>2, <1>3, <1>4 DEF FAddr, Registers

(* A job and its place fix what is said of them.                            *)
LEMMA HwSame ==
  ASSUME job' = job
  PROVE  /\ JobEnd' = JobEnd /\ Bytes(job)' = Bytes(job) /\ EraseRefused' = EraseRefused
         /\ pos' = pos => BlockLen' = BlockLen
  BY DEF JobEnd, Bytes, EraseRefused, BlockLen

(* The first states satisfy the invariant.                                  *)
LEMMA HwStart == HwInit => HwInv
  <1> SUFFICES ASSUME HwInit PROVE HwInv
    OBVIOUS
  <1> USE DEF HwInit
  <1>1. /\ job.addr \in Nat /\ JobEnd \in Nat /\ job.addr < JobEnd
        /\ job.fn \in {"read", "write", "erase"}
    BY HwJobFacts
  <1>2. Data \subseteq [FAddr -> {0, 1}]
    BY PartitionsAssumption DEF PartitionsAssumption
  <1>3. HwTypes
    <2>1. pos \in job.addr .. JobEnd
      BY <1>1
    <2>2. flash \in [FAddr -> {0, 1}]
      BY <1>2
    <2>3. fdata \in [Registers -> {0, 1}]
      OBVIOUS
    <2> QED BY <2>1, <2>2, <2>3 DEF HwTypes
  <1>4. ~Live
    BY DEF Live
  <1>5. HwWalk /\ HwConfined /\ HwChunk
    BY <1>1, <1>4 DEF HwWalk, HwConfined, HwChunk
  <1>6. HwPassed
    <2>1. << >> = [i \in 1 .. pos - job.addr |-> flash[job.addr + i - 1]]
      <3>1. 1 .. pos - job.addr = {}
        BY <1>1
      <3> QED BY <3>1
    <2>2. pos = job.addr /\ pos # JobEnd
      BY <1>1
    <2> QED BY <1>1, <2>1, <2>2 DEF HwPassed, FAddr
  <1> QED BY <1>3, <1>5, <1>6 DEF HwInv

(* The call begins.                                                         *)
LEMMA HwCheck ==
  ASSUME HwInv, Check
  PROVE  HwInv'
  <1> USE DEF HwInv
  <1>1. /\ at = "start" /\ pos' = pos /\ job' = job /\ buf' = buf /\ flash' = flash
        /\ fdata' = fdata
        /\ fcycle' = fcycle /\ trouble' = trouble /\ pos = job.addr /\ ~Live /\ told = TRUE
        /\ result = "none" /\ (job.fn = "erase" => faddr' = job.addr)
        /\ \/ result' = "error" /\ at' = "end" /\ fdone' = fdone /\ herr' = herr /\ told' = told
           \/ /\ ~(job.fn = "erase" /\ EraseRefused) /\ fdone' = FALSE /\ herr' = FALSE
              /\ at' = "next"
              /\ told' = (fcycle = NoFCycle) /\ result' = result
    BY DEF Check, Fails, HwWalk
  <1>2. HwTypes'
    BY <1>1, HwSame DEF HwTypes
  <1>3. ~Live'
    BY <1>1 DEF Live
  <1>4. HwWalk'
    <2>1. JobEnd' = JobEnd /\ EraseRefused' = EraseRefused
      BY <1>1, HwSame
    <2>2. at' # "start" /\ at' # "wait" /\ result' # "0" /\ (result' = "none" <=> at' # "end")
          /\ result' \in {"none", "error"}
      BY <1>1
    <2> QED BY <1>1, <2>1, <2>2 DEF HwWalk
  <1>5. HwChunk'
    <2>1. told' /\ at' # "end" => fcycle' = NoFCycle
      BY <1>1
    <2>2. NoFCycle # StaleCycle
      BY DEF NoFCycle, StaleCycle
    <2> QED BY <1>1, <1>3, <2>1, <2>2 DEF HwChunk
  <1>6. HwPassed'
    <2>1. HwPassed /\ JobEnd' = JobEnd /\ Bytes(job)' = Bytes(job)
      BY <1>1, HwSame
    <2> QED BY <1>1, <2>1 DEF HwPassed
  <1>7. HwConfined'
    BY <1>3 DEF HwConfined
  <1> QED BY <1>2, <1>4, <1>5, <1>6, <1>7

(* A chunk is asked for.                                                    *)
LEMMA HwChunkStep ==
  ASSUME HwInv, ReadChunk \/ WriteChunk \/ EraseBlock
  PROVE  HwInv'
  <1> USE DEF HwInv
  <1>1. /\ at = "next" /\ at' = "wait" /\ pos < JobEnd /\ job' = job /\ pos' = pos /\ buf' = buf
        /\ result' = result /\ flash' = flash /\ fdone' = fdone /\ herr' = herr /\ told' = told
        /\ trouble' = trouble
    BY DEF ReadChunk, WriteChunk, EraseBlock, JobEnd
  <1>2. /\ JobEnd' = JobEnd /\ Bytes(job)' = Bytes(job) /\ EraseRefused' = EraseRefused
        /\ BlockLen' = BlockLen
    BY <1>1, HwSame
  <1>3. /\ job.fn \in {"read", "write", "erase"} /\ job.addr \in Nat
        /\ job.data \in [FAddr -> {0, 1}]
    BY HwJobFacts DEF HwTypes
  <1>4. BlockLen \in Registers /\ BlockLen \in Nat \ {0} /\ pos \in Nat /\ pos + BlockLen <= JobEnd
    BY <1>1, ChunkFacts
  <1>5. /\ job.fn = "erase" => faddr' = job.addr /\ ~EraseRefused
        /\ job.fn # "erase" => faddr' = pos
        /\ fcycle' = IF fcycle # NoFCycle THEN fcycle
                     ELSE [op |-> job.fn, addr |-> faddr',
                           n |-> IF job.fn = "erase" THEN job.len ELSE BlockLen]
    BY <1>1 DEF ReadChunk, WriteChunk, EraseBlock, Go, HwWalk
  <1>6. /\ fdata' \in [Registers -> {0, 1}]
        /\ job.fn = "write" => \A i \in 1 .. BlockLen : fdata'[i] = job.data[pos + i - 1]
    <2>1. CASE WriteChunk
      <3>1. fdata' = [i \in Registers |->
                 IF i <= BlockLen /\ pos + i - 1 \in FAddr THEN job.data[pos + i - 1] ELSE fdata[i]]
        BY <2>1 DEF WriteChunk
      <3>2. fdata' \in [Registers -> {0, 1}]
        BY <1>3, <3>1 DEF HwTypes
      <3>3. ASSUME NEW i \in 1 .. BlockLen PROVE fdata'[i] = job.data[pos + i - 1]
        <4>1. pos + i - 1 \in FAddr /\ i \in Registers
          BY <1>1, ChunkBytes
        <4>2. i <= BlockLen
          BY <1>4
        <4> QED BY <3>1, <4>1, <4>2
      <3> QED BY <3>2, <3>3
    <2>2. CASE ReadChunk \/ EraseBlock
      <3>1. fdata' = fdata /\ job.fn # "write"
        BY <2>2 DEF ReadChunk, EraseBlock
      <3> QED BY <3>1 DEF HwTypes
    <2> QED BY <2>1, <2>2
  <1>7. HwTypes'
    BY <1>1, <1>2, <1>6 DEF HwTypes
  <1>8. HwWalk'
    BY <1>1, <1>2, <1>5 DEF HwWalk
  <1>9. CASE fcycle # NoFCycle
    <2>1. fcycle' = fcycle /\ Live' = Live /\ ~told
      BY <1>1, <1>5, <1>9 DEF Live, HwChunk
    <2>2. HwConfined' /\ HwChunk'
      BY <1>1, <1>2, <2>1 DEF HwConfined, HwChunk
    <2>3. HwPassed'
      BY <1>1, <2>1 DEF HwPassed
    <2> QED BY <1>7, <1>8, <2>2, <2>3
  <1>10. CASE fcycle = NoFCycle
    <2>1. /\ fcycle'.op = job.fn /\ fcycle'.addr = faddr'
          /\ fcycle'.n = IF job.fn = "erase" THEN job.len ELSE BlockLen
      BY <1>5, <1>10
    <2>2. fcycle' # StaleCycle
      BY <1>3, <2>1 DEF StaleCycle
    <2>3. HwConfined'
      BY <1>1, <1>2, <1>3, <1>4, <1>5, <2>1 DEF HwConfined, HwTypes
    <2>4. HwChunk'
      <3>1. told => ~fdone /\ ~herr
        BY <1>1 DEF HwChunk
      <3>2. result' # "0"
        BY <1>1 DEF HwWalk
      <3> QED BY <1>1, <1>2, <1>5, <1>6, <2>1, <2>2, <3>1, <3>2 DEF HwChunk
    <2>5. HwPassed'
      BY <1>1, <1>2 DEF HwPassed
    <2> QED BY <1>7, <1>8, <2>3, <2>4, <2>5
  <1> QED BY <1>9, <1>10

(* The wait ends without the chunk being done.                              *)
LEMMA HwGivesUp ==
  ASSUME HwInv, WaitFails \/ WaitTimeout
  PROVE  HwInv'
  <1> USE DEF HwInv
  <1>1. /\ at = "wait" /\ at' = "end" /\ result' = "error" /\ job' = job /\ pos' = pos /\ buf' = buf
        /\ flash' = flash /\ faddr' = faddr /\ fdata' = fdata /\ fcycle' = fcycle /\ told' = told
        /\ fdone' \in BOOLEAN /\ herr' \in BOOLEAN /\ trouble' \in BOOLEAN
    BY DEF WaitFails, WaitTimeout, Fails, hwCtrl, HwTypes
  <1>2. /\ JobEnd' = JobEnd /\ Bytes(job)' = Bytes(job) /\ EraseRefused' = EraseRefused
        /\ BlockLen' = BlockLen /\ Live' = Live
    BY <1>1, HwSame DEF Live
  <1>3. HwTypes'
    BY <1>1, <1>2 DEF HwTypes
  <1>4. HwWalk'
    BY <1>1, <1>2 DEF HwWalk
  <1>5. HwConfined'
    BY <1>1, <1>2 DEF HwConfined
  <1>6. HwPassed'
    BY <1>1, <1>2 DEF HwPassed
  <1>7. HwChunk'
    BY <1>1, <1>2 DEF HwChunk
  <1> QED BY <1>3, <1>4, <1>5, <1>6, <1>7

(* What was read so far, and the chunk behind it.                           *)
LEMMA Longer ==
  ASSUME NEW k \in Nat, NEW n \in Nat, NEW b, NEW d, NEW m \in Nat, n <= m,
         d \in [1 .. m -> {0, 1}], NEW f \in [1 .. k + n -> {0, 1}],
         b = [i \in 1 .. k |-> f[i]], \A i \in 1 .. n : d[i] = f[k + i]
  PROVE  b \o SubSeq(d, 1, n) = f
  <1>1. b \in [1 .. k -> {0, 1}]
    OBVIOUS
  <1>2. b \in Seq({0, 1}) /\ Len(b) = k /\ \A i \in 1 .. k : b[i] = f[i]
    BY <1>1
  <1> DEFINE s == SubSeq(d, 1, n)
  <1>3. s \in Seq({0, 1}) /\ Len(s) = n /\ \A i \in 1 .. n : s[i] = d[i]
    <2>1. d \in Seq({0, 1}) /\ Len(d) = m
      OBVIOUS
    <2> QED BY <2>1
  <1> HIDE DEF s
  <1>4. b \o s \in Seq({0, 1}) /\ Len(b \o s) = k + n
    <2>0. b \in Seq({0, 1}) /\ s \in Seq({0, 1})
      BY <1>2, <1>3
    <2>1. Len(b \o s) = Len(b) + Len(s)
      BY ONLY <2>0
    <2>2. b \o s \in Seq({0, 1})
      BY ONLY <1>2, <1>3
    <2> QED BY <1>2, <1>3, <2>1, <2>2
  <1>5. b \o s = [i \in 1 .. k + n |-> (b \o s)[i]]
    BY <1>4
  <1>6. ASSUME NEW i \in 1 .. k + n PROVE (b \o s)[i] = f[i]
    <2>1. CASE i <= k
      BY <1>2, <1>3, <2>1
    <2>2. CASE i > k
      <3>1. i - k \in 1 .. n /\ k + (i - k) = i
        BY <2>2
      <3>2. (b \o s)[i] = s[i - k]
        BY <1>2, <1>3, <2>2
      <3> QED BY <1>3, <3>1, <3>2
    <2>3. i <= k \/ i > k
      OBVIOUS
    <2> QED BY <2>1, <2>2, <2>3
  <1> QED BY <1>5, <1>6 DEF s

(* The chunk is done.                                                       *)
LEMMA HwGoesOn ==
  ASSUME HwInv, WaitDone
  PROVE  HwInv'
  <1> USE DEF HwInv
  <1> DEFINE size == IF job.fn = "erase" THEN job.len ELSE BlockLen
  <1>1. /\ at = "wait" /\ at' = "next" /\ fdone /\ ~herr /\ fdone' = FALSE /\ herr' = herr
        /\ result' = result /\ job' = job /\ pos' = pos + size
        /\ flash' = flash /\ faddr' = faddr /\ fdata' = fdata /\ fcycle' = fcycle /\ told' = told
        /\ trouble' = trouble
        /\ buf' = (IF job.fn = "read" THEN buf \o SubSeq(fdata, 1, BlockLen) ELSE buf)
    BY DEF WaitDone
  <1>2. pos < JobEnd
    BY <1>1 DEF HwWalk
  <1>3. /\ BlockLen \in Registers /\ BlockLen \in Nat \ {0} /\ pos \in Nat
        /\ pos + BlockLen <= JobEnd /\ JobEnd \in Nat /\ job.addr \in Nat /\ job.addr <= pos
        /\ job.fn \in {"read", "write", "erase"} /\ job.addr + job.len = JobEnd
        /\ JobEnd <= TotalSize /\ TotalSize \in Nat
    BY <1>2, ChunkFacts, HwJobFacts, SizeFacts DEF HwTypes, JobEnd
  <1>4. JobEnd' = JobEnd /\ Bytes(job)' = Bytes(job) /\ EraseRefused' = EraseRefused /\ Live' = Live
    BY <1>1, HwSame DEF Live
  <1>5. job.fn = "erase" => pos = job.addr /\ pos' = JobEnd
    <2>1. job.fn = "erase" => pos = job.addr
      BY <1>2, <1>3 DEF HwWalk
    <2> QED BY <1>1, <1>3, <2>1
  <1>6. job.fn # "erase" => pos' = pos + BlockLen
    BY <1>1
  <1>7. pos' \in job.addr .. JobEnd
    <2>1. pos + BlockLen \in job.addr .. JobEnd /\ JobEnd \in job.addr .. JobEnd
      <3> DEFINE n == BlockLen
      <3> HIDE DEF n
      <3>1. n \in Nat /\ pos + n <= JobEnd
        BY <1>3 DEF n
      <3> QED BY <1>3, <3>1 DEF n
    <2> QED BY <1>5, <1>6, <2>1
  <1>8. HwTypes'
    BY <1>1, <1>4, <1>7 DEF HwTypes
  <1>9. HwWalk'
    BY <1>1, <1>4, <1>5 DEF HwWalk
  <1>10. HwConfined'
    BY <1>1, <1>4 DEF HwConfined
  <1>11. told => ~Live /\ ChunkDone
    BY <1>1 DEF HwChunk
  <1>12. HwChunk'
    <2>1. told => fcycle # StaleCycle
      BY <1>1 DEF HwChunk
    <2> QED BY <1>1, <1>4, <1>11, <2>1 DEF HwChunk
  <1>13. ASSUME told, job.fn = "read"
         PROVE  buf' = [i \in 1 .. pos' - job.addr |-> flash[job.addr + i - 1]]
    <2> DEFINE k == pos - job.addr
               n == BlockLen
               f == [i \in 1 .. k + n |-> flash[job.addr + i - 1]]
    <2>1. k \in Nat /\ n \in Nat /\ n <= MaxTransfer /\ MaxTransfer \in Nat
      BY <1>3, SizeFacts DEF Registers
    <2>2. \A i \in 1 .. k + n : job.addr + i - 1 \in FAddr
      <3> HIDE DEF n
      <3>1. pos + n <= JobEnd /\ n \in Nat
        BY <1>3 DEF n
      <3>2. k + n = (pos + n) - job.addr
        BY <1>3, <3>1
      <3> QED BY <1>3, <3>1, <3>2 DEF FAddr
    <2>3. f \in [1 .. k + n -> {0, 1}]
      BY <2>2 DEF HwTypes
    <2>4. buf = [i \in 1 .. k |-> f[i]]
      <3>1. buf = [i \in 1 .. k |-> flash[job.addr + i - 1]]
        BY <1>13 DEF HwPassed
      <3>2. \A i \in 1 .. k : i \in 1 .. k + n
        <4> HIDE DEF k, n
        <4> QED BY <2>1
      <3> QED BY <3>1, <3>2
    <2>5. \A i \in 1 .. n : fdata[i] = f[k + i]
      <3>1. \A i \in 1 .. n : fdata[i] = flash[pos + i - 1]
        BY <1>11, <1>13 DEF ChunkDone
      <3>2. \A i \in 1 .. n : k + i \in 1 .. k + n /\ job.addr + (k + i) - 1 = pos + i - 1
        <4> HIDE DEF n
        <4> QED BY <1>3, <2>1
      <3> QED BY <3>1, <3>2
    <2>6. fdata \in [1 .. MaxTransfer -> {0, 1}]
      BY DEF HwTypes, Registers
    <2>7. buf' = buf \o SubSeq(fdata, 1, n)
      BY <1>1, <1>13
    <2>8. pos' - job.addr = k + n
      <3> HIDE DEF n
      <3>1. pos' = pos + n
        BY <1>6, <1>13 DEF n
      <3> QED BY <1>3, <2>1, <3>1
    <2> HIDE DEF k, n
    <2>9. buf \o SubSeq(fdata, 1, n) = f
      <3> HIDE DEF f
      <3> QED BY <2>1, <2>3, <2>4, <2>5, <2>6, Longer
    <2> QED BY <2>7, <2>8, <2>9
  <1>14. ASSUME told, job.fn = "write", NEW a \in FAddr, job.addr <= a, a < pos', job.data[a] = 0
         PROVE  flash[a] = 0
    <2>1. CASE a < pos
      BY <1>14, <2>1 DEF HwPassed
    <2>2. CASE pos <= a
      BY <1>6, <1>11, <1>14, <2>2 DEF ChunkDone
    <2>3. a \in Nat
      BY DEF FAddr
    <2> QED BY <1>3, <2>1, <2>2, <2>3
  <1>15. told /\ job.fn = "erase" => \A a \in Bytes(job) : flash[a] = 1
    BY <1>11 DEF ChunkDone
  <1>16. HwPassed'
    BY <1>1, <1>4, <1>13, <1>14, <1>15 DEF HwPassed
  <1> QED BY <1>8, <1>9, <1>10, <1>12, <1>16

(* The call returns 0.                                                      *)
LEMMA HwReturns ==
  ASSUME HwInv, HwReturn
  PROVE  HwInv'
  <1> USE DEF HwInv
  <1>1. /\ at = "next" /\ at' = "end" /\ pos >= JobEnd /\ result' = "0" /\ job' = job /\ pos' = pos
        /\ buf' = buf /\ flash' = flash /\ faddr' = faddr /\ fdata' = fdata /\ fcycle' = fcycle
        /\ told' = told /\ fdone' = fdone /\ herr' = herr /\ trouble' = trouble
    BY DEF HwReturn, hwCtrl, JobEnd
  <1>2. /\ JobEnd' = JobEnd /\ Bytes(job)' = Bytes(job) /\ EraseRefused' = EraseRefused
        /\ BlockLen' = BlockLen /\ Live' = Live
    BY <1>1, HwSame DEF Live
  <1>3. pos = JobEnd
    <2>1. JobEnd \in Nat /\ job.addr \in Nat
      BY HwJobFacts DEF HwTypes
    <2> QED BY <1>1, <2>1 DEF HwTypes
  <1>4. HwTypes'
    BY <1>1, <1>2 DEF HwTypes
  <1>5. HwWalk'
    BY <1>1, <1>2, <1>3 DEF HwWalk
  <1>6. HwConfined'
    BY <1>1, <1>2 DEF HwConfined
  <1>7. HwPassed'
    BY <1>1, <1>2 DEF HwPassed
  <1>8. HwChunk'
    <2>1. told => ~Live
      BY <1>1 DEF HwChunk
    <2> QED BY <1>1, <1>2, <2>1 DEF HwChunk
  <1> QED BY <1>4, <1>5, <1>6, <1>7, <1>8

(* What the chip holds when the controller is done.                         *)
LEMMA AfterIs ==
  ASSUME HwInv, NEW a \in FAddr
  PROVE  /\ After(a) \in {0, 1}
         /\ a \in Affected => Live /\ a \in Bytes(job) /\ job.fn \in {"write", "erase"}
         /\ a \in Affected /\ job.fn = "erase" => After(a) = 1
         /\ a \in Affected /\ told /\ job.fn = "write" =>
              After(a) = IF job.data[a] = 0 THEN 0 ELSE flash[a]
         /\ After(a) # flash[a] => a \in Affected
         /\ a \in Affected /\ told /\ job.fn = "write" => pos <= a /\ a < pos + BlockLen
  <1> USE DEF HwInv
  <1>1. /\ job.fn \in {"read", "write", "erase"} /\ job.addr \in Nat /\ job.len \in Nat
        /\ job.addr + job.len = JobEnd /\ a \in Nat /\ flash[a] \in {0, 1}
    BY HwJobFacts DEF HwTypes, FAddr, JobEnd
  <1>2. CASE ~Live
    <2>1. fcycle.op \in {"none", "stale"}
      BY <1>2 DEF Live, NoFCycle, StaleCycle
    <2>2. a \notin Affected
      BY <2>1 DEF Affected
    <2> QED BY <1>1, <2>2 DEF After
  <1>3. CASE Live /\ job.fn = "read"
    <2>1. a \notin Affected
      BY <1>3 DEF Affected, HwConfined
    <2> QED BY <1>1, <2>1 DEF After
  <1>4. CASE Live /\ job.fn = "erase"
    <2>1. fcycle.op = "erase" /\ fcycle.addr = job.addr /\ ~EraseRefused
      BY <1>4 DEF HwConfined
    <2>2. Affected = Bytes(job)
      BY <1>4, <2>1, BlockIs DEF Affected, HwTypes
    <2> QED BY <1>1, <1>4, <2>1, <2>2 DEF After
  <1>5. CASE Live /\ job.fn = "write"
    <2>1. /\ fcycle.op = "write" /\ fcycle.n \in Registers /\ fcycle.addr \in Nat
          /\ job.addr <= fcycle.addr /\ fcycle.addr + fcycle.n <= JobEnd
      BY <1>5 DEF HwConfined
    <2> DEFINE n == fcycle.n
               x == fcycle.addr
    <2>2. n \in Nat /\ n <= MaxTransfer /\ MaxTransfer \in Nat /\ x \in Nat
      BY <2>1, SizeFacts DEF Registers
    <2>3. a \in Affected <=> x <= a /\ a < x + n
      BY <2>1 DEF Affected
    <2>4. a \in Affected => a \in Bytes(job) /\ a - x + 1 \in Registers /\ a - x + 1 \in 1 .. n
      <3> SUFFICES ASSUME a \in Affected
                   PROVE  a \in Bytes(job) /\ a - x + 1 \in 1 .. n /\ a - x + 1 \in Registers
        OBVIOUS
      <3>1. x <= a /\ a < x + n /\ job.addr <= x /\ x + n <= JobEnd
        BY <2>1, <2>3
      <3> HIDE DEF x, n
      <3>2. a - x + 1 \in 1 .. n /\ job.addr <= a /\ a < job.addr + job.len
        BY <1>1, <2>2, <3>1
      <3> QED BY <2>2, <3>2 DEF Bytes, Registers
    <2>5. After(a) = IF a \in Affected THEN IF fdata[a - x + 1] = 0 THEN 0 ELSE flash[a] ELSE flash[a]
      BY <2>1 DEF After
    <2>6. told => x = pos /\ n = BlockLen /\ \A i \in 1 .. BlockLen : fdata[i] = job.data[pos + i - 1]
      BY <1>5 DEF HwChunk
    <2>7. a \in Affected /\ told => After(a) = IF job.data[a] = 0 THEN 0 ELSE flash[a]
      <3> SUFFICES ASSUME a \in Affected, told PROVE fdata[a - x + 1] = job.data[a]
        BY <2>5
      <3>1. a - x + 1 \in 1 .. BlockLen /\ x = pos
        BY <2>4, <2>6
      <3>2. pos + (a - x + 1) - 1 = a
        <4> HIDE DEF x
        <4> QED BY <1>1, <2>2, <3>1
      <3> QED BY <2>6, <3>1, <3>2
    <2>8. a \in Affected /\ told => pos <= a /\ a < pos + BlockLen
      BY <2>3, <2>6
    <2>9. After(a) \in {0, 1} /\ (After(a) # flash[a] => a \in Affected)
      BY <1>1, <2>5
    <2> QED BY <1>5, <2>4, <2>7, <2>8, <2>9
  <1> QED BY <1>1, <1>2, <1>3, <1>4, <1>5

(* The controller stops, done or not: what it leaves of the invariant.      *)
LEMMA HwStops ==
  ASSUME HwInv, fcycle # NoFCycle, fcycle' = NoFCycle, UNCHANGED <<hwHost, faddr, told>>,
         flash' \in [FAddr -> {0, 1}], \A a \in FAddr : flash'[a] \in {flash[a], After(a)},
         fdata' \in [Registers -> {0, 1}], fdone' \in BOOLEAN, herr' \in BOOLEAN,
         trouble' \in BOOLEAN,
         trouble => trouble', herr /\ ~Live => herr', herr' => herr \/ trouble',
         fdone' /\ ~herr' /\ Live /\ told /\ at = "wait" => ChunkDone'
  PROVE  HwInv'
  <1> USE DEF HwInv
  <1>1. /\ at' = at /\ result' = result /\ job' = job /\ pos' = pos /\ buf' = buf /\ faddr' = faddr
        /\ told' = told
    BY DEF hwHost
  <1>2. /\ JobEnd' = JobEnd /\ Bytes(job)' = Bytes(job) /\ EraseRefused' = EraseRefused
        /\ BlockLen' = BlockLen
    BY <1>1, HwSame
  <1>3. ~Live' /\ fcycle' # StaleCycle
    BY DEF Live, NoFCycle, StaleCycle
  <1>4. HwTypes'
    BY <1>1, <1>2 DEF HwTypes
  <1>5. HwWalk'
    BY <1>1, <1>2, <1>3 DEF HwWalk
  <1>6. HwConfined'
    BY <1>3 DEF HwConfined
  <1>7. job.fn \in {"read", "write", "erase"}
    BY HwJobFacts DEF HwTypes
  <1>8. HwChunk'
    <2>1. told => (at \in {"next", "wait"} => Live) /\ (Live => at \in {"wait", "end"})
      BY DEF HwChunk, Live
    <2>2. told /\ at = "wait" => ~fdone /\ ~herr
      BY <2>1 DEF HwChunk
    <2> QED BY <1>1, <1>2, <1>3, <2>1, <2>2 DEF HwChunk
  <1>9. HwPassed'
    <2>1. job.fn = "read" => flash' = flash
      <3> SUFFICES ASSUME job.fn = "read" PROVE \A a \in FAddr : flash'[a] = flash[a]
        BY DEF HwTypes
      <3> TAKE a \in FAddr
      <3>1. a \notin Affected
        BY AfterIs
      <3> QED BY <3>1, AfterIs
    <2>2. ASSUME told, job.fn = "write", NEW a \in FAddr, flash[a] = 0 PROVE flash'[a] = 0
      <3>1. a \in Affected => After(a) = 0
        BY <2>2, AfterIs
      <3>2. a \notin Affected => After(a) = flash[a]
        BY AfterIs
      <3> QED BY <2>2, <3>1, <3>2
    <2>3. ASSUME job.fn = "erase", NEW a \in FAddr, flash[a] = 1 PROVE flash'[a] = 1
      <3>1. a \in Affected => After(a) = 1
        BY <2>3, AfterIs
      <3>2. a \notin Affected => After(a) = flash[a]
        BY AfterIs
      <3> QED BY <2>3, <3>1, <3>2
    <2>4. Bytes(job) \subseteq FAddr
      BY HwJobFacts DEF HwTypes
    <2> QED BY <1>1, <1>2, <2>1, <2>2, <2>3, <2>4 DEF HwPassed
  <1> QED BY <1>4, <1>5, <1>6, <1>8, <1>9

(* A cycle is over.                                                         *)
LEMMA HwCompletes ==
  ASSUME HwInv, CycleCompletes
  PROVE  HwInv'
  <1> USE DEF HwInv
  <1>1. /\ fcycle # NoFCycle /\ fcycle' = NoFCycle /\ fdone' = TRUE /\ herr' = herr
        /\ trouble' = trouble
        /\ UNCHANGED <<hwHost, faddr, told>>
        /\ flash' = [a \in FAddr |-> After(a)]
        /\ fdata' = [i \in Registers |->
                 IF fcycle.op = "read" /\ i <= fcycle.n /\ fcycle.addr + i - 1 \in FAddr
                 THEN flash[fcycle.addr + i - 1] ELSE fdata[i]]
    BY DEF CycleCompletes
  <1>2. flash' \in [FAddr -> {0, 1}] /\ \A a \in FAddr : flash'[a] = After(a)
    BY <1>1, AfterIs
  <1>3. fdata' \in [Registers -> {0, 1}]
    <2>1. \A i \in Registers : fdata[i] \in {0, 1}
      BY DEF HwTypes
    <2>2. \A a \in FAddr : flash[a] \in {0, 1}
      BY DEF HwTypes
    <2> QED BY <1>1, <2>1, <2>2
  <1>4. ASSUME Live, told, at = "wait" PROVE ChunkDone'
    <2>1. /\ fcycle.op = job.fn /\ pos < JobEnd /\ job' = job /\ pos' = pos /\ BlockLen' = BlockLen
          /\ Bytes(job)' = Bytes(job) /\ job.fn \in {"read", "write", "erase"}
      BY <1>1, <1>4, HwSame, HwJobFacts DEF HwConfined, HwChunk, hwHost, HwTypes
    <2>2. CASE job.fn = "read"
      <3>1. fcycle.addr = pos /\ fcycle.n = BlockLen /\ fcycle.op = "read"
        BY <1>4, <2>1, <2>2 DEF HwChunk
      <3>2. ASSUME NEW i \in 1 .. BlockLen PROVE fdata'[i] = flash'[pos + i - 1]
        <4>1. pos + i - 1 \in FAddr /\ i \in Registers
          BY <2>1, ChunkBytes
        <4>2. i <= BlockLen
          BY <2>1, ChunkFacts
        <4>3. fdata'[i] = flash[pos + i - 1]
          BY <1>1, <3>1, <4>1, <4>2
        <4>4. After(pos + i - 1) = flash[pos + i - 1]
          BY <2>2, <4>1, AfterIs
        <4> QED BY <1>2, <4>1, <4>3, <4>4
      <3> QED BY <2>1, <2>2, <3>2 DEF ChunkDone
    <2>3. CASE job.fn = "write"
      <3>1. fcycle.addr = pos /\ fcycle.n = BlockLen /\ fcycle.op = "write"
        BY <1>4, <2>1, <2>3 DEF HwChunk
      <3>2. ASSUME NEW a \in FAddr, pos <= a, a < pos + BlockLen, job.data[a] = 0
            PROVE  flash'[a] = 0
        <4>1. a \in Affected
          BY <3>1, <3>2 DEF Affected
        <4>2. After(a) = 0
          BY <1>4, <2>3, <3>2, <4>1, AfterIs
        <4> QED BY <1>2, <4>2
      <3> QED BY <2>1, <2>3, <3>2 DEF ChunkDone
    <2>4. CASE job.fn = "erase"
      <3>1. fcycle.op = "erase" /\ fcycle.addr = job.addr /\ ~EraseRefused
        BY <1>4, <2>4 DEF HwConfined
      <3>2. Affected = Bytes(job) /\ Bytes(job) \subseteq FAddr
        BY <2>4, <3>1, BlockIs, HwJobFacts DEF Affected, HwTypes
      <3>3. \A a \in Bytes(job) : flash'[a] = 1
        BY <1>2, <2>4, <3>2, AfterIs
      <3> QED BY <2>1, <2>4, <3>3 DEF ChunkDone
    <2> QED BY <2>1, <2>2, <2>3, <2>4
  <1> QED BY <1>1, <1>2, <1>3, <1>4, HwStops DEF HwTypes

(* A cycle fails, with an effect on some of its bytes.                      *)
LEMMA HwAborts ==
  ASSUME HwInv, CycleAborts
  PROVE  HwInv'
  <1>1. /\ fcycle # NoFCycle /\ fcycle' = NoFCycle /\ fdone' \in BOOLEAN /\ herr' = TRUE
        /\ trouble' = TRUE /\ fdata' = fdata /\ UNCHANGED <<hwHost, faddr, told>>
    BY DEF CycleAborts
  <1>2. PICK S \in SUBSET Affected :
          flash' = [a \in FAddr |-> IF a \in S THEN After(a) ELSE flash[a]]
    BY DEF CycleAborts
  <1>3. flash \in [FAddr -> {0, 1}] /\ fdata \in [Registers -> {0, 1}]
    BY DEF HwInv, HwTypes
  <1>4. flash' \in [FAddr -> {0, 1}]
    BY <1>2, <1>3, AfterIs
  <1>5. \A a \in FAddr : flash'[a] \in {flash[a], After(a)}
    BY <1>2
  <1> QED BY <1>1, <1>3, <1>4, <1>5, HwStops

(* Every step keeps the invariant.                                          *)
LEMMA HwNextInv ==
  ASSUME HwInv, [HwNext]_hwVars
  PROVE  HwInv'
  <1>1. CASE Check
    BY <1>1, HwCheck
  <1>2. CASE ReadChunk \/ WriteChunk \/ EraseBlock
    BY <1>2, HwChunkStep
  <1>3. CASE WaitFails \/ WaitTimeout
    BY <1>3, HwGivesUp
  <1>4. CASE WaitDone
    BY <1>4, HwGoesOn
  <1>5. CASE HwReturn
    BY <1>5, HwReturns
  <1>6. CASE CycleCompletes
    BY <1>6, HwCompletes
  <1>7. CASE CycleAborts
    BY <1>7, HwAborts
  <1>8. CASE UNCHANGED hwVars
    <2>1. /\ job' = job /\ at' = at /\ pos' = pos /\ buf' = buf /\ result' = result
          /\ flash' = flash
          /\ faddr' = faddr /\ fdata' = fdata /\ fcycle' = fcycle /\ fdone' = fdone /\ herr' = herr
          /\ told' = told /\ trouble' = trouble
      BY <1>8 DEF hwVars, hwHost, hwCtrl
    <2>2. /\ JobEnd' = JobEnd /\ Bytes(job)' = Bytes(job) /\ EraseRefused' = EraseRefused
          /\ BlockLen' = BlockLen /\ Live' = Live
      BY <2>1, HwSame DEF Live
    <2>3. HwTypes'
      BY <2>1, <2>2 DEF HwInv, HwTypes
    <2>4. HwWalk' /\ HwConfined' /\ HwPassed'
      BY <2>1, <2>2 DEF HwInv, HwWalk, HwConfined, HwPassed
    <2>5. HwChunk'
      BY <2>1, <2>2 DEF HwInv, HwChunk, ChunkDone
    <2> QED BY <2>3, <2>4, <2>5 DEF HwInv
  <1> QED BY <1>1, <1>2, <1>3, <1>4, <1>5, <1>6, <1>7, <1>8 DEF HwNext, HwHost

(* What a read returns, from what the loop has passed.                      *)
LEMMA HwReadFollows ==
  ASSUME HwInv
  PROVE  HwReadResult
  <1> SUFFICES ASSUME job.fn = "read", result = "0", told
               PROVE  buf = [i \in 1 .. job.len |-> flash[job.addr + i - 1]]
    BY DEF HwReadResult
  <1>1. pos = JobEnd /\ job.addr \in Nat /\ job.len \in Nat \ {0}
    BY HwJobFacts DEF HwInv, HwTypes, HwWalk
  <1>2. pos - job.addr = job.len
    BY <1>1 DEF JobEnd
  <1> QED BY <1>2 DEF HwInv, HwPassed

(* A step of the controller or the host takes every block, and an error has *)
(* a reason.                                                                *)
LEMMA HwFits ==
  ASSUME Aligned, HwInv, LayoutFits, [HwNext]_hwVars
  PROVE  LayoutFits'
  <1> USE DEF LayoutFits
  <1>1. CASE Check
    <2>1. job \in Jobs /\ result = "none"
      BY <1>1 DEF Check, HwInv, HwTypes, HwWalk
    <2>2. job.addr + job.len <= TotalSize /\ (job.fn = "erase" => ~EraseRefused)
      BY <2>1, HwJobFacts DEF JobEnd
    <2>3. ~(job.addr + job.len > TotalSize)
      BY <2>1, <2>2, HwJobFacts, SizeFacts
    <2>4. result' = result
      BY <1>1, <2>2, <2>3 DEF Check
    <2> QED BY <2>1, <2>4
  <1>2. CASE WaitFails
    BY <1>2 DEF WaitFails, HwInv, HwChunk
  <1>3. CASE WaitTimeout
    BY <1>3 DEF WaitTimeout
  <1>4. CASE ReadChunk \/ WriteChunk \/ EraseBlock \/ WaitDone
    BY <1>4 DEF ReadChunk, WriteChunk, EraseBlock, WaitDone
  <1>5. CASE HwReturn
    BY <1>5 DEF HwReturn
  <1>6. CASE CycleCompletes \/ CycleAborts
    BY <1>6 DEF CycleCompletes, CycleAborts, hwHost
  <1>7. CASE UNCHANGED hwVars
    BY <1>7 DEF hwVars, hwHost
  <1> QED BY <1>1, <1>2, <1>3, <1>4, <1>5, <1>6, <1>7 DEF HwNext, HwHost

-----------------------------------------------------------------------------
(* The promise of a call *)

(* The call begins as the promise says.                                     *)
LEMMA HwCallInit == HwInit => OpaqueCall!Init
  <1> SUFFICES ASSUME HwInit PROVE OpaqueCall!Init
    OBVIOUS
  <1>1. HwInv
    BY HwStart
  <1>2. /\ job.fn \in {"read", "write", "erase"} /\ Bytes(job) \subseteq FAddr
        /\ job.data \in [FAddr -> {0, 1}] /\ flash \in [FAddr -> {0, 1}]
    BY <1>1, HwJobFacts DEF HwInv, HwTypes
  <1> QED BY <1>2 DEF HwInit, OpaqueCall!Init

(* What the controller does to the chip, it may.                            *)
LEMMA HwChange ==
  ASSUME HwInv, CycleCompletes \/ CycleAborts
  PROVE  OpaqueCall!Change \/ UNCHANGED OpaqueCall!vars
  <1>1. /\ job' = job /\ result' = result /\ told' = told /\ Bytes(job)' = Bytes(job)
    BY HwSame DEF CycleCompletes, CycleAborts, hwHost
  <1>2. flash' \in [FAddr -> {0, 1}] /\ flash \in [FAddr -> {0, 1}]
    BY HwNextInv DEF HwInv, HwTypes, HwNext
  <1>3. \A a \in FAddr : flash'[a] \in {flash[a], After(a)}
    <2>1. CASE CycleCompletes
      BY <2>1 DEF CycleCompletes
    <2>2. CASE CycleAborts
      BY <2>2 DEF CycleAborts
    <2> QED BY <2>1, <2>2
  <1>4. CASE ~Live
    <2>1. \A a \in FAddr : flash'[a] = flash[a]
      BY <1>3, <1>4, AfterIs
    <2>2. flash' = flash
      BY <1>2, <2>1
    <2> QED BY <1>1, <2>2 DEF OpaqueCall!vars
  <1>5. CASE Live
    <2>1. result = "0" => ~told
      BY <1>5 DEF HwInv, HwChunk
    <2>2. ASSUME NEW a \in FAddr, flash'[a] # flash[a]
          PROVE  a \in Bytes(job) /\ (told => flash'[a] = OpaqueCall!Becomes(a))
      <3>1. a \in Affected /\ flash'[a] = After(a)
        BY <1>3, <2>2, AfterIs
      <3>2. a \in Bytes(job) /\ job.fn \in {"write", "erase"}
        BY <3>1, AfterIs
      <3>3. CASE job.fn = "erase"
        <4>1. OpaqueCall!Becomes(a) = 1
          BY <3>3 DEF OpaqueCall!Becomes
        <4> QED BY <3>1, <3>2, <3>3, <4>1, AfterIs
      <3>4. CASE job.fn = "write"
        <4>1. OpaqueCall!Becomes(a) = IF job.data[a] = 0 THEN 0 ELSE flash[a]
          BY <3>4 DEF OpaqueCall!Becomes
        <4>2. told => After(a) = IF job.data[a] = 0 THEN 0 ELSE flash[a]
          BY <3>1, <3>4, AfterIs
        <4> QED BY <3>1, <3>2, <4>1, <4>2
      <3> QED BY <3>2, <3>3, <3>4
    <2> QED BY <1>1, <1>2, <2>1, <2>2 DEF OpaqueCall!Change
  <1> QED BY <1>4, <1>5

(* The call may return 0 when it does.                                      *)
LEMMA HwSucceeds ==
  ASSUME HwInv, HwReturn
  PROVE  OpaqueCall!Succeed
  <1>1. /\ job' = job /\ result = "none" /\ result' = "0" /\ told' = told /\ flash' = flash
        /\ Bytes(job)' = Bytes(job) /\ pos >= JobEnd
    BY HwSame DEF HwReturn, HwInv, HwWalk, hwCtrl, JobEnd
  <1>2. /\ pos = JobEnd /\ job.fn \in {"read", "write", "erase"} /\ Bytes(job) \subseteq FAddr
    BY <1>1, HwJobFacts DEF HwInv, HwTypes
  <1>3. ASSUME told, NEW a \in Bytes(job) PROVE flash[a] = OpaqueCall!Becomes(a)
    <2>1. CASE job.fn = "read"
      BY <2>1 DEF OpaqueCall!Becomes
    <2>2. CASE job.fn = "write"
      <3>1. a \in FAddr /\ job.addr <= a /\ a < pos
        BY <1>2 DEF Bytes, JobEnd
      <3>2. job.data[a] = 0 => flash[a] = 0
        BY <1>3, <2>2, <3>1 DEF HwInv, HwPassed
      <3> QED BY <2>2, <3>2 DEF OpaqueCall!Becomes
    <2>3. CASE job.fn = "erase"
      BY <1>2, <1>3, <2>3 DEF HwInv, HwPassed, OpaqueCall!Becomes
    <2> QED BY <1>2, <2>1, <2>2, <2>3
  <1> QED BY <1>1, <1>3 DEF OpaqueCall!Succeed

(* Every step is a step of the promise, or none.                            *)
LEMMA HwCallStep ==
  ASSUME HwInv, [HwNext]_hwVars
  PROVE  [OpaqueCall!Next]_(OpaqueCall!vars)
  <1> USE DEF OpaqueCall!Next
  <1>1. CASE Check
    <2>1. told = TRUE /\ result = "none"
      BY <1>1 DEF Check, HwInv, HwWalk
    <2>2. /\ job' = job /\ flash' = flash /\ Bytes(job)' = Bytes(job)
          /\ (result' = "error" /\ told' = told) \/ (result' = result /\ told' \in BOOLEAN)
      BY <1>1, HwSame DEF Check, Fails
    <2>3. result' = "error" /\ told' = told => OpaqueCall!Fail
      BY <2>1, <2>2 DEF OpaqueCall!Fail
    <2>4. result' = result /\ told' = FALSE => OpaqueCall!Hide
      BY <2>2 DEF OpaqueCall!Hide
    <2>5. result' = result /\ told' = told => UNCHANGED OpaqueCall!vars
      BY <2>2 DEF OpaqueCall!vars
    <2> QED BY ONLY <2>1, <2>2, <2>3, <2>4, <2>5
  <1>2. CASE ReadChunk \/ WriteChunk \/ EraseBlock \/ WaitDone
    BY <1>2, HwSame DEF ReadChunk, WriteChunk, EraseBlock, WaitDone, OpaqueCall!vars
  <1>3. CASE WaitFails \/ WaitTimeout
    <2>1. /\ job' = job /\ flash' = flash /\ told' = told /\ result = "none"
          /\ Bytes(job)' = Bytes(job)
          /\ result' = "error"
      BY <1>3, HwSame DEF WaitFails, WaitTimeout, Fails, hwCtrl, HwInv, HwWalk
    <2> QED BY <2>1 DEF OpaqueCall!Fail
  <1>4. CASE HwReturn
    BY <1>4, HwSucceeds
  <1>5. CASE CycleCompletes \/ CycleAborts
    BY <1>5, HwChange
  <1>6. CASE UNCHANGED hwVars
    BY <1>6, HwSame DEF hwVars, hwHost, hwCtrl, OpaqueCall!vars
  <1> QED BY <1>1, <1>2, <1>3, <1>4, <1>5, <1>6 DEF HwNext, HwHost

-----------------------------------------------------------------------------
(* The inductive invariant of IchSpi *)

N == Len(asked)
Done == Len(asked[N]) - Len(cmds)
Entries == [call : Nat, op : Opcodes, args : Seq(Nat), readcnt : Nat]
Answers == Entries \cup {Nothing}
Tables ==
  [preop : Opcodes \X Opcodes, op : [Slots -> Opcodes], type : [Slots -> SpiTypes], atomic : [Slots -> 0 .. 2]]
Cycles == [preops : {<<>>, <<1>>, <<2>>}, index : Slots, call : Nat, readcnt : Nat]

SwTypes ==
  /\ lock \in BOOLEAN /\ asked \in Seq(Calls) /\ pc \in {"idle", "next", "scip", "poll"}
  /\ ret \in {0, 1}
  /\ curopcodes \in Tables /\ curopcodes.preop \in Preops
  /\ menu = ProgramOpcodes(curopcodes)
  /\ chip \in Seq(Entries) /\ spia \in Seq(Nat) /\ spid \in [out : Seq(Nat), in : Answers]
  /\ cycle = NoCycle \/ cycle \in Cycles
  /\ cds \in BOOLEAN /\ fcerr \in BOOLEAN /\ failed \in BOOLEAN /\ torn \in BOOLEAN

(* The guessed types are the ones every call guesses.                       *)
Agrees(ops) ==
  \A k \in Calls : \A i \in DOMAIN k : \A s \in Slots :
    k[i].op = ops.op[s] /\ SpiType(k[i]) # "invalid" => ops.type[s] = SpiType(k[i])
SwTable == ~lock => Agrees(curopcodes)

(* What is left of the call.                                                *)
SwWalk ==
  /\ N = 0 => pc = "idle" /\ cycle = NoCycle /\ chip = <<>>
  /\ N > 0 =>
       /\ cmds \in Seq(Commands) /\ Len(cmds) <= Len(asked[N])
       /\ \A i \in 1 .. Len(cmds) : cmds[i] = asked[N][Done + i]
  /\ pc = "idle" /\ ret = 0 => cmds = <<>>
  /\ pc \in {"scip", "poll"} =>
       /\ cmds # <<>> /\ ret = 0 /\ oppos \in Slots /\ oppos = FindOpcode(curopcodes, cmds[1].op)
       /\ SizeFits(curopcodes.type[oppos], cmds[1])

(* The prefix that is kept back is the last command so far, and marked at   *)
(* the opcode of the next one.                                              *)
NoneHeld == \A s \in Slots : curopcodes.atomic[s] = 0
SwHeld ==
  /\ pc = "idle" \/ ret # 0 => NoneHeld
  /\ N > 0 /\ ~NoneHeld =>
       /\ cmds # <<>> /\ Done > 0 /\ FindOpcode(curopcodes, cmds[1].op) \in Slots
       /\ curopcodes.atomic[FindOpcode(curopcodes, cmds[1].op)] \in {1, 2}
       /\ curopcodes.preop[curopcodes.atomic[FindOpcode(curopcodes, cmds[1].op)]] = asked[N][Done].op

(* What the controller is going to send.                                    *)
Going == [call |-> cycle.call, op |-> menu.op[cycle.index], args |-> Sent, readcnt |-> cycle.readcnt]
GoingPrefix == [call |-> cycle.call, op |-> menu.preop[cycle.preops[1]], args |-> <<>>, readcnt |-> 0]
Pending(n, j) ==
  /\ cycle.call = n /\ j \in 1 .. Len(asked[n]) /\ Going = Entry(n, j)
  /\ cycle.preops = <<>> => Seen(n, j - 1)
  /\ cycle.preops # <<>> => j > 1 /\ GoingPrefix = Entry(n, j - 1) /\ Seen(n, j - 2)

(* What the chip has seen of the call.                                      *)
SwSeen ==
  N > 0 => \A n \in {N}, j \in {Done} :
    /\ ret = 0 /\ pc # "poll" => (NoneHeld => Seen(n, j)) /\ (~NoneHeld => Seen(n, j - 1))
    /\ pc = "poll" =>
         /\ cycle # NoCycle => ~cds /\ ~fcerr /\ cycle.index = oppos /\ Pending(n, j + 1)
         /\ cycle = NoCycle => cds \/ fcerr
         /\ cycle = NoCycle /\ cds /\ ~fcerr =>
              Seen(n, j + 1) /\ (Writes(curopcodes.type[oppos]) \/ spid.in = Entry(n, j + 1))
         /\ fcerr => failed

(* What it has seen of any, and may still see.                              *)
SwChip ==
  /\ \A i \in 1 .. Len(chip) : chip[i].call \in 1 .. N
  /\ \A i, j \in 1 .. Len(chip) : i < j => chip[i].call <= chip[j].call
  /\ ~torn => \A n \in 1 .. N : \E j \in 0 .. Len(asked[n]) : Seen(n, j)
  /\ cycle # NoCycle =>
       /\ cycle.call \in 1 .. N
       /\ pc # "poll" /\ ret = 0 => cycle.call < N
       /\ \A i \in 1 .. Len(chip) : chip[i].call <= cycle.call
       /\ ~torn => \E n \in 1 .. N : \E j \in 1 .. Len(asked[n]) : Pending(n, j)

(* Why a call has not returned 0.                                           *)
SwReason ==
  N > 0 /\ ret # 0 => failed \/ lock \/ \E i \in 1 .. Len(asked[N]) : ~Sendable(asked[N][i])

SwInv == SwTypes /\ SwTable /\ SwWalk /\ SwHeld /\ SwSeen /\ SwChip /\ SwReason /\ OwnAnswer

-----------------------------------------------------------------------------
(* The first element of a set of slots.                                     *)
LEMMA FirstOf ==
  ASSUME NEW S \in SUBSET Slots
  PROVE  IF S = {} THEN First(S) = -1 ELSE First(S) \in S
  <1>1. CASE S = {}
    BY <1>1 DEF First
  <1>2. CASE S # {}
    <2>1. \E i \in S : \A j \in S : i <= j
      <3>1. CASE 0 \in S
        BY <3>1 DEF Slots
      <3>2. CASE 0 \notin S /\ 1 \in S
        BY <3>2 DEF Slots
      <3>3. CASE S \cap {0, 1} = {} /\ 2 \in S
        BY <3>3 DEF Slots
      <3>4. CASE S \cap {0, 1, 2} = {} /\ 3 \in S
        BY <3>4 DEF Slots
      <3>5. CASE S \cap {0, 1, 2, 3} = {} /\ 4 \in S
        BY <3>5 DEF Slots
      <3>6. CASE S \cap {0, 1, 2, 3, 4} = {} /\ 5 \in S
        BY <3>6 DEF Slots
      <3>7. CASE S \subseteq {6, 7} /\ 6 \in S
        BY <3>7
      <3>9. CASE S = {7}
        BY <3>9
      <3>8. S \subseteq {0, 1, 2, 3, 4, 5, 6, 7}
        BY DEF Slots
      <3> QED BY <3>1, <3>2, <3>3, <3>4, <3>5, <3>6, <1>2, <3>7, <3>8, <3>9
    <2> QED BY <1>2, <2>1 DEF First
  <1> QED BY <1>1, <1>2

(* What find_opcode() and find_preop() find.                                *)
LEMMA Finds ==
  ASSUME NEW ops, NEW op
  PROVE  /\ FindOpcode(ops, op) \in Slots \cup {-1} /\ FindPreop(ops, op) \in {-1, 0, 1}
         /\ FindOpcode(ops, op) # -1 => ops.op[FindOpcode(ops, op)] = op
         /\ FindOpcode(ops, op) = -1 => \A i \in Slots : ops.op[i] # op
         /\ FindPreop(ops, op) # -1 => ops.preop[FindPreop(ops, op) + 1] = op
         /\ FindPreop(ops, op) = -1 => ops.preop[1] # op /\ ops.preop[2] # op
  <1> DEFINE S == {i \in Slots : ops.op[i] = op}
             P == {i \in 0 .. 1 : ops.preop[i + 1] = op}
  <1>1. S \in SUBSET Slots /\ P \in SUBSET Slots
    BY DEF Slots
  <1>2. -1 \notin Slots
    BY DEF Slots
  <1>3. /\ IF S = {} THEN First(S) = -1 ELSE First(S) \in S
        /\ IF P = {} THEN First(P) = -1 ELSE First(P) \in P
    BY <1>1, FirstOf
  <1>4. FindOpcode(ops, op) = First(S) /\ FindPreop(ops, op) = First(P)
    BY DEF FindOpcode, FindPreop
  <1>5. \A i : i \in S <=> i \in Slots /\ ops.op[i] = op
    OBVIOUS
  <1>6. \A i : i \in P <=> i \in 0 .. 1 /\ ops.preop[i + 1] = op
    OBVIOUS
  <1> HIDE DEF S, P
  <1>7. /\ First(S) \in Slots \cup {-1} /\ First(P) \in {-1, 0, 1}
        /\ First(S) # -1 => ops.op[First(S)] = op
        /\ First(S) = -1 => \A i \in Slots : ops.op[i] # op
    BY <1>1, <1>2, <1>3, <1>5, <1>6
  <1>8. First(P) # -1 => ops.preop[First(P) + 1] = op
    BY <1>3, <1>6
  <1>9. First(P) = -1 => ops.preop[1] # op /\ ops.preop[2] # op
    <2>1. -1 \notin 0 .. 1 /\ 0 \in 0 .. 1 /\ 1 \in 0 .. 1 /\ 0 + 1 = 1 /\ 1 + 1 = 2
      OBVIOUS
    <2>2. First(P) = -1 => P = {}
      BY <1>3, <1>6, <2>1
    <2> QED BY <1>6, <2>1, <2>2
  <1> QED BY <1>4, <1>7, <1>8, <1>9

(* The guess is a type of the controller, or none.                          *)
LEMMA Guess ==
  /\ \A c : SpiType(c) \in SpiTypes \cup {"invalid"}
  /\ "invalid" \notin SpiTypes
  /\ \A s \in Slots :
       /\ O_ST_M25P.op[s] \in DOMAIN PossibleOpcodes /\ O_ST_M25P.op[s] \in Opcodes
       /\ O_ST_M25P.type[s] = PossibleOpcodes[O_ST_M25P.op[s]] /\ O_ST_M25P.type[s] \in SpiTypes
  <1>1. \A x \in DOMAIN PossibleOpcodes : PossibleOpcodes[x] \in SpiTypes
    BY DEF PossibleOpcodes, SpiTypes
  <1>2. \A c : SpiType(c) \in SpiTypes \cup {"invalid"}
    BY <1>1 DEF SpiType, SpiTypes
  <1>3. \A s \in Slots : DefaultOps[s + 1] \in DOMAIN PossibleOpcodes
    <2>1. \A s \in Slots : s \in {0, 1, 2, 3, 4, 5, 6, 7}
      BY DEF Slots
    <2> QED BY <2>1 DEF DefaultOps, PossibleOpcodes
  <1>4. \A s \in Slots : /\ O_ST_M25P.op[s] = DefaultOps[s + 1]
                         /\ O_ST_M25P.type[s] = PossibleOpcodes[DefaultOps[s + 1]]
    BY DEF O_ST_M25P
  <1>5. \A x \in DOMAIN PossibleOpcodes : x \in Opcodes
    BY CallsAssumption DEF CallsAssumption
  <1> QED BY <1>1, <1>2, <1>3, <1>4, <1>5 DEF SpiTypes

(* The address and the bytes behind it are all there is to send.            *)
LEMMA SplitArgs ==
  ASSUME NEW s \in Seq(Nat), Len(s) >= 3
  PROVE  SubSeq(s, 1, 3) \in Seq(Nat) /\ SubSeq(s, 4, Len(s)) \in Seq(Nat)
         /\ SubSeq(s, 1, 3) \o SubSeq(s, 4, Len(s)) = s
  <1> DEFINE n == Len(s)
  <1>1. n \in Nat /\ 3 <= n /\ \A i \in 1 .. n : s[i] \in Nat
    OBVIOUS
  <1>2. \A i \in 4 .. n : s[i] \in Nat
    <2> HIDE DEF n
    <2> QED BY <1>1
  <1>3. \A i \in 1 .. 3 : s[i] \in Nat
    <2> HIDE DEF n
    <2> QED BY <1>1
  <1>4. SubSeq(s, 1, 3) \in Seq(Nat)
    BY ONLY <1>3, SubSeqProperties
  <1>5. SubSeq(s, 4, n) \in Seq(Nat)
    <2> HIDE DEF n
    <2> QED BY ONLY <1>1, <1>2, SubSeqProperties
  <1>6. SubSeq(s, 1, 3) \o SubSeq(s, 3 + 1, n) = SubSeq(s, 1, n)
    <2>1. 1 \in 1 .. Len(s) + 1 /\ 3 \in 1 - 1 .. Len(s) /\ n \in 3 .. Len(s)
      BY <1>1
    <2> HIDE DEF n
    <2> QED BY <2>1, ConcatAdjacentSubSeq
  <1>7. SubSeq(s, 1, n) = s
    BY SubSeqFull
  <1>8. 3 + 1 = 4
    OBVIOUS
  <1> QED BY ONLY <1>4, <1>5, <1>6, <1>7, <1>8, Zenon

(* What the chip has seen, while it receives nothing.                       *)
LEMMA SeenSame ==
  ASSUME NEW n, NEW j, chip' = chip, asked'[n] = asked[n], curopcodes'.preop = curopcodes.preop
  PROVE  Seen(n, j)' = Seen(n, j) /\ \A i : Entry(n, i)' = Entry(n, i)
  <1>1. \A i : Entry(n, i)' = Entry(n, i)
    BY DEF Entry
  <1>2. Took(n, 0, j)' = Took(n, 0, j) /\ Took(n, 1, j)' = Took(n, 1, j)
    BY <1>1 DEF Took
  <1>3. \A op : FindPreop(curopcodes, op)' = FindPreop(curopcodes, op)
    BY DEF FindPreop
  <1>4. TwoPreops(n)' = TwoPreops(n)
    BY <1>3 DEF TwoPreops
  <1> QED BY <1>1, <1>2, <1>4 DEF Seen

(* A command that the chip receives.                                        *)
LEMMA Grows ==
  ASSUME chip \in Seq(Entries), NEW e \in Entries, chip' = Append(chip, e)
  PROVE  /\ chip' \in Seq(Entries) /\ Len(chip) \in Nat /\ Len(chip') = Len(chip) + 1
         /\ chip'[Len(chip) + 1] = e /\ \A i \in 1 .. Len(chip) : chip'[i] = chip[i]
         /\ \A i \in 1 .. Len(chip) : chip[i] \in Entries
  BY AppendProperties

(* It changes nothing for another call.                                     *)
LEMMA TookOther ==
  ASSUME chip \in Seq(Entries), NEW e \in Entries, chip' = Append(chip, e), asked' = asked,
         NEW n, NEW d \in {0, 1}, NEW j \in Nat, e.call # n, Took(n, d, j)
  PROVE  Took(n, d, j)'
  <1> DEFINE m == Len(chip)
  <1>1. /\ m \in Nat /\ Len(chip') = m + 1 /\ chip'[m + 1] = e
        /\ \A i \in 1 .. m : chip'[i] = chip[i]
    BY Grows
  <1>2. PICK o \in -d .. m - j :
          /\ \A i \in 1 .. m : chip[i].call = n <=> i - o \in d + 1 .. j
          /\ \A i \in d + 1 .. j : chip[o + i] = Entry(n, i)
    BY DEF Took
  <1>3. \A i : Entry(n, i)' = Entry(n, i)
    BY DEF Entry
  <1> HIDE DEF m
  <1>4. o \in -d .. (m + 1) - j /\ o \in Int
    BY <1>1
  <1>5. \A i \in 1 .. m + 1 : chip'[i].call = n <=> i - o \in d + 1 .. j
    <2> TAKE i \in 1 .. m + 1
    <2>1. CASE i = m + 1
      <3>1. i - o \notin d + 1 .. j
        BY <1>1, <1>4, <2>1
      <3> QED BY <1>1, <2>1, <3>1
    <2>2. CASE i # m + 1
      <3>1. i \in 1 .. m
        BY <1>1, <2>2
      <3> QED BY <1>1, <1>2, <3>1
    <2> QED BY <2>1, <2>2
  <1>6. \A i \in d + 1 .. j : chip'[o + i] = Entry(n, i)
    <2> TAKE i \in d + 1 .. j
    <2>1. o + i \in 1 .. m
      BY <1>1, <1>2
    <2> QED BY <1>1, <1>2, <2>1
  <1>7. \E q \in -d .. Len(chip') - j :
          /\ \A i \in 1 .. Len(chip') : chip'[i].call = n <=> i - q \in d + 1 .. j
          /\ \A i \in d + 1 .. j : chip'[q + i] = Entry(n, i)'
    <2>1. o \in -d .. Len(chip') - j
      BY <1>1, <1>4
    <2>2. \A i \in 1 .. Len(chip') : chip'[i].call = n <=> i - o \in d + 1 .. j
      BY <1>1, <1>5
    <2>3. \A i \in d + 1 .. j : chip'[o + i] = Entry(n, i)'
      BY <1>3, <1>6
    <2> QED BY ONLY <2>1, <2>2, <2>3, Zenon
  <1> QED BY ONLY <1>7, Zenon DEF Took

(* The next command of a call, which is the last one the chip knows of.     *)
LEMMA TookMore ==
  ASSUME chip \in Seq(Entries), asked' = asked,
         NEW n \in Nat, NEW d \in {0, 1}, NEW j \in Nat, d <= j,
         Entry(n, j + 1) \in Entries, chip' = Append(chip, Entry(n, j + 1)),
         \A a, b \in 1 .. Len(chip) : a < b => chip[a].call <= chip[b].call,
         \A a \in 1 .. Len(chip) : chip[a].call <= n,
         Took(n, d, j)
  PROVE  Took(n, d, j + 1)'
  <1> DEFINE m == Len(chip)
  <1>1. /\ m \in Nat /\ Len(chip') = m + 1 /\ chip'[m + 1] = Entry(n, j + 1)
        /\ \A i \in 1 .. m : chip'[i] = chip[i] /\ chip[i] \in Entries
    BY Grows
  <1>2. PICK o \in -d .. m - j :
          /\ \A i \in 1 .. m : chip[i].call = n <=> i - o \in d + 1 .. j
          /\ \A i \in d + 1 .. j : chip[o + i] = Entry(n, i)
    BY DEF Took
  <1>3. \A i : Entry(n, i)' = Entry(n, i)
    BY DEF Entry
  <1>4. \A a, b \in 1 .. m : a < b => chip[a].call <= chip[b].call
    OBVIOUS
  <1>5. \A a \in 1 .. m : chip[a].call <= n /\ chip[a].call \in Nat
    BY <1>1 DEF Entries
  <1>6. Entry(n, j + 1).call = n
    BY DEF Entry
  <1> HIDE DEF m
  <1> DEFINE q == m - j
  <1>7. d < j => o = q
    <2> SUFFICES ASSUME d < j, o # q PROVE FALSE
      OBVIOUS
    <2>1. o + j \in 1 .. m /\ o + j < m /\ m \in 1 .. m
      BY <1>1, <1>2
    <2>2. chip[o + j].call = n
      <3>1. (o + j) - o \in d + 1 .. j
        BY <1>2
      <3> QED BY <1>2, <2>1, <3>1
    <2>3. chip[m].call = n
      <3>1. chip[o + j].call <= chip[m].call
        BY <1>4, <2>1
      <3> DEFINE x == chip[m].call
      <3>2. x <= n /\ x \in Nat /\ n <= x
        BY <1>5, <2>1, <2>2, <3>1
      <3> HIDE DEF x
      <3>3. x = n
        BY <3>2
      <3> QED BY <3>3 DEF x
    <2>4. m - o \in d + 1 .. j
      BY <1>2, <2>1, <2>3
    <2> QED BY <1>1, <1>2, <2>1, <2>4
  <1>8. q \in -d .. (m + 1) - (j + 1) /\ q \in Int /\ j + q = m
    BY <1>1, <1>2
  <1>9. \A i \in 1 .. m : chip[i].call = n <=> i - q \in d + 1 .. j
    <2>1. CASE d < j
      BY <1>2, <1>7, <2>1
    <2>2. CASE d = j
      <3>1. d + 1 .. j = {}
        BY <2>2
      <3> QED BY <1>2, <3>1
    <2> QED BY <2>1, <2>2
  <1>10. \A i \in d + 1 .. j : chip[q + i] = Entry(n, i)
    BY <1>2, <1>7
  <1>11. \A i \in 1 .. m + 1 : chip'[i].call = n <=> i - q \in d + 1 .. j + 1
    <2> TAKE i \in 1 .. m + 1
    <2>1. CASE i = m + 1
      <3>1. i - q = j + 1 /\ j + 1 \in d + 1 .. j + 1
        BY <1>1, <1>8, <2>1
      <3> QED BY <1>1, <1>6, <2>1, <3>1
    <2>2. CASE i # m + 1
      <3>1. i \in 1 .. m
        BY <1>1, <2>2
      <3>2. i - q \in d + 1 .. j <=> i - q \in d + 1 .. j + 1
        BY <1>1, <1>8, <3>1
      <3> QED BY <1>1, <1>9, <3>1, <3>2
    <2> QED BY <2>1, <2>2
  <1>12. \A i \in d + 1 .. j + 1 : chip'[q + i] = Entry(n, i)
    <2> TAKE i \in d + 1 .. j + 1
    <2>1. CASE i = j + 1
      <3>1. q + i = m + 1
        BY <1>1, <1>8, <2>1
      <3> QED BY <1>1, <2>1, <3>1
    <2>2. CASE i # j + 1
      <3>1. i \in d + 1 .. j /\ q + i \in 1 .. m
        BY <1>1, <1>8, <2>2
      <3> QED BY <1>1, <1>10, <3>1
    <2> QED BY <2>1, <2>2
  <1>13. \E p \in -d .. Len(chip') - (j + 1) :
           /\ \A i \in 1 .. Len(chip') : chip'[i].call = n <=> i - p \in d + 1 .. j + 1
           /\ \A i \in d + 1 .. j + 1 : chip'[p + i] = Entry(n, i)'
    <2> HIDE DEF q
    <2>1. q \in -d .. Len(chip') - (j + 1)
      BY ONLY <1>1, <1>8
    <2>2. \A i \in 1 .. Len(chip') : chip'[i].call = n <=> i - q \in d + 1 .. j + 1
      BY ONLY <1>1, <1>11
    <2>3. \A i \in d + 1 .. j + 1 : chip'[q + i] = Entry(n, i)'
      BY ONLY <1>3, <1>12
    <2> WITNESS q \in -d .. Len(chip') - (j + 1)
    <2> QED BY ONLY <2>2, <2>3
  <1> QED BY ONLY <1>13, Zenon DEF Took

(* The same of what the chip has seen, with or without the first prefix.    *)
LEMMA SeenOther ==
  ASSUME chip \in Seq(Entries), NEW e \in Entries, chip' = Append(chip, e), asked' = asked,
         curopcodes' = curopcodes, NEW n, NEW j \in Nat, e.call # n, Seen(n, j)
  PROVE  Seen(n, j)'
  <1>1. TwoPreops(n)' = TwoPreops(n)
    BY DEF TwoPreops, FindPreop
  <1>2. CASE Took(n, 0, j)
    BY <1>2, TookOther DEF Seen
  <1>3. CASE j > 0 /\ TwoPreops(n) /\ Took(n, 1, j)
    BY <1>1, <1>3, TookOther DEF Seen
  <1> QED BY <1>2, <1>3 DEF Seen

(* The next command of a call.                                              *)
LEMMA SeenMore ==
  ASSUME chip \in Seq(Entries), asked' = asked, curopcodes' = curopcodes, NEW n \in Nat,
         NEW j \in Nat,
         Entry(n, j + 1) \in Entries, chip' = Append(chip, Entry(n, j + 1)),
         \A a, b \in 1 .. Len(chip) : a < b => chip[a].call <= chip[b].call,
         \A a \in 1 .. Len(chip) : chip[a].call <= n,
         Seen(n, j)
  PROVE  Seen(n, j + 1)'
  <1>1. TwoPreops(n)' = TwoPreops(n)
    BY DEF TwoPreops, FindPreop
  <1>2. CASE Took(n, 0, j)
    <2>1. Took(n, 0, j + 1)'
      <3>1. 0 <= j /\ 0 \in {0, 1}
        OBVIOUS
      <3> QED BY <1>2, <3>1, TookMore
    <2> QED BY <2>1 DEF Seen
  <1>3. CASE j > 0 /\ TwoPreops(n) /\ Took(n, 1, j)
    <2>1. Took(n, 1, j + 1)'
      <3>1. 1 <= j
        BY <1>3
      <3> QED BY <1>3, <3>1, TookMore
    <2>2. j + 1 > 0
      OBVIOUS
    <2> QED BY <1>1, <1>3, <2>1, <2>2 DEF Seen
  <1> QED BY <1>2, <1>3 DEF Seen

(* Of a call that has just been made nothing has arrived.                   *)
LEMMA SeenNone ==
  ASSUME NEW n \in Nat, chip \in Seq(Entries), \A a \in 1 .. Len(chip) : chip[a].call < n,
         chip' = chip
  PROVE  Seen(n, 0)'
  <1>1. Len(chip) \in Nat /\ 0 + 1 .. 0 = {}
    OBVIOUS
  <1>2. \A a \in 1 .. Len(chip) : chip[a].call # n
    <2>1. \A a \in 1 .. Len(chip) : chip[a].call \in Nat
      <3>1. \A a \in 1 .. Len(chip) : chip[a] \in Entries
        BY ElementOfSeq
      <3> QED BY <3>1 DEF Entries
    <2> QED BY <2>1
  <1>3. \E o \in -0 .. Len(chip) - 0 :
          /\ \A i \in 1 .. Len(chip) : chip[i].call = n <=> i - o \in 0 + 1 .. 0
          /\ \A i \in 0 + 1 .. 0 : chip[o + i] = Entry(n, i)'
    BY <1>1, <1>2
  <1>4. Took(n, 0, 0)'
    BY <1>3 DEF Took
  <1> QED BY <1>4 DEF Seen

(* The first of two prefixes is left out.                                   *)
LEMMA SeenLess ==
  ASSUME NEW n, chip \in Seq(Entries), TwoPreops(n), Seen(n, 0)
  PROVE  Seen(n, 1)
  <1>1. PICK o \in 0 .. Len(chip) : \A i \in 1 .. Len(chip) : chip[i].call = n <=> i - o \in 1 .. 0
    BY DEF Seen, Took
  <1>2. Len(chip) \in Nat /\ 1 .. 0 = {} /\ 1 + 1 .. 1 = {} /\ -1 \in -1 .. Len(chip) - 1
    OBVIOUS
  <1>3. Took(n, 1, 1)
    BY <1>1, <1>2 DEF Took
  <1> QED BY <1>3 DEF Seen

(* A prefix that is found is one of the two.                                *)
LEMMA FindPreopIs ==
  ASSUME NEW ops, NEW op, FindPreop(ops, op) # -1
  PROVE  op \in {ops.preop[1], ops.preop[2]}
  <1>1. FindPreop(ops, op) + 1 \in {1, 2}
    BY Finds
  <1> QED BY <1>1, Finds

-----------------------------------------------------------------------------
(* What a call is made of.                                                  *)
LEMMA CallFacts ==
  ASSUME NEW k \in Calls
  PROVE  /\ k \in Seq(Commands) /\ Len(k) \in Nat /\ DOMAIN k = 1 .. Len(k)
         /\ \A i \in DOMAIN k : k[i] \in Commands
         /\ \A i \in DOMAIN k : Len(k[i].args) < 256 /\ k[i].readcnt < 256
         /\ \A p \in Preops : \A i \in DOMAIN k : k[i].op \in {p[1], p[2]} =>
              /\ i < Len(k) => k[i].args = <<>> /\ k[i].readcnt = 0
              /\ i > 1 /\ i + 1 \in DOMAIN k => k[i + 1].op \notin {p[1], p[2]}
  <1>1. k \in Seq(Commands)
    BY CallsAssumption DEF CallsAssumption
  <1>2. Len(k) \in Nat /\ DOMAIN k = 1 .. Len(k) /\ \A i \in DOMAIN k : k[i] \in Commands
    BY <1>1, ElementOfSeq
  <1>3. ASSUME NEW p \in Preops, NEW i \in DOMAIN k, k[i].op \in {p[1], p[2]}
        PROVE  /\ i < Len(k) => k[i].args = <<>> /\ k[i].readcnt = 0
               /\ i > 1 /\ i + 1 \in DOMAIN k => k[i + 1].op \notin {p[1], p[2]}
    <2> DEFINE P == {m \in DOMAIN k : k[m].op \in {p[1], p[2]}}
    <2>1. /\ \A m \in P : m < Len(k) => k[m].args = <<>> /\ k[m].readcnt = 0
          /\ \A m \in P : m > 1 => m + 1 \notin P
      BY CallsAssumption DEF CallsAssumption
    <2>2. i \in P
      BY <1>3
    <2> QED BY <2>1, <2>2
  <1>4. \A i \in DOMAIN k : Len(k[i].args) < 256 /\ k[i].readcnt < 256
    BY CallsAssumption DEF CallsAssumption
  <1> QED BY <1>1, <1>2, <1>3, <1>4

(* No count is cut off.                                                     *)
LEMMA CountFits ==
  ASSUME NEW k \in Calls, NEW i \in DOMAIN k, NEW type \in SpiTypes, SizeFits(type, k[i])
  PROVE  /\ Carried(type, k[i]) = DataLength(type, k[i])
         /\ type = "write" => Carried(type, k[i]) = Len(k[i].args)
         /\ type = "write_address" => 3 + Carried(type, k[i]) = Len(k[i].args)
         /\ ~Writes(type) => Carried(type, k[i]) = k[i].readcnt
  <1> DEFINE c == k[i]
             l == Len(c.args)
             r == c.readcnt
             d == DataLength(type, c)
  <1>1. l \in Nat /\ r \in Nat /\ l < 256 /\ r < 256
    <2>1. c \in Commands /\ l < 256 /\ r < 256
      BY CallFacts
    <2> QED BY <2>1 DEF Commands
  <1>2. /\ type = "write" => d = (1 + l) - 1
        /\ type = "write_address" => d = (1 + l) - 4 /\ 1 + l >= 4
        /\ ~Writes(type) => d = r
        /\ type \in {"read", "read_address", "write", "write_address"}
        /\ Writes(type) <=> type \in {"write", "write_address"}
    BY DEF DataLength, Writecnt, SizeFits, Writes, SpiTypes
  <1>3. Carried(type, c) = d % 256
    BY DEF Carried
  <1> HIDE DEF c, l, r, d
  <1>4. /\ d \in Nat /\ d < 256
        /\ type = "write" => d = l
        /\ type = "write_address" => 3 + d = l
        /\ ~Writes(type) => d = r
    BY <1>1, <1>2
  <1>5. d % 256 = d
    BY <1>4
  <1> QED BY <1>3, <1>4, <1>5 DEF c, l, r, d

(* The calls so far.                                                        *)
LEMMA AskedFacts ==
  ASSUME asked \in Seq(Calls)
  PROVE  N \in Nat /\ \A n \in 1 .. N : asked[n] \in Calls
  BY ElementOfSeq DEF N

(* The command at hand, and what is left behind it.                         *)
LEMMA AtHand ==
  ASSUME SwTypes, SwWalk, N > 0, cmds # <<>>
  PROVE  /\ N \in Nat \ {0} /\ asked[N] \in Calls /\ Done \in Nat /\ Done + 1 \in DOMAIN asked[N]
         /\ Len(asked[N]) \in Nat /\ DOMAIN asked[N] = 1 .. Len(asked[N]) /\ Done < Len(asked[N])
         /\ cmds[1] = asked[N][Done + 1] /\ cmds[1] \in Commands
         /\ Len(cmds) \in Nat /\ Done = Len(asked[N]) - Len(cmds)
         /\ Done > 0 => Done \in DOMAIN asked[N]
         /\ Tail(cmds) \in Seq(Commands) /\ Len(asked[N]) - Len(Tail(cmds)) = Done + 1
         /\ Len(Tail(cmds)) <= Len(asked[N])
         /\ \A i \in 1 .. Len(Tail(cmds)) : Tail(cmds)[i] = asked[N][(Done + 1) + i]
         /\ Len(cmds) > 1 => /\ Tail(cmds)[1] = cmds[2] /\ Tail(cmds) # <<>>
                             /\ cmds[2] = asked[N][Done + 2] /\ Done + 2 \in DOMAIN asked[N]
                             /\ cmds[2] \in Commands
  <1>1. N \in Nat \ {0} /\ asked[N] \in Calls
    <2>1. N \in Nat /\ \A n \in 1 .. N : asked[n] \in Calls
      BY AskedFacts DEF SwTypes
    <2>2. N \in 1 .. N
      BY <2>1
    <2> QED BY <2>1, <2>2
  <1>2. /\ Len(asked[N]) \in Nat /\ DOMAIN asked[N] = 1 .. Len(asked[N])
        /\ \A i \in DOMAIN asked[N] : asked[N][i] \in Commands
    BY <1>1, CallFacts
  <1>3. /\ cmds \in Seq(Commands) /\ Len(cmds) <= Len(asked[N])
        /\ \A i \in 1 .. Len(cmds) : cmds[i] = asked[N][Done + i]
    BY SwTypes, <1>1 DEF SwWalk
  <1> DEFINE l == Len(asked[N])
             m == Len(cmds)
             t == Tail(cmds)
  <1>4. /\ m \in Nat \ {0} /\ l \in Nat /\ m <= l /\ Done = l - m
    BY <1>2, <1>3, EmptySeq DEF Done
  <1>5. /\ t \in Seq(Commands) /\ Len(t) = m - 1 /\ \A i \in 1 .. Len(t) : t[i] = cmds[i + 1]
    BY <1>3, HeadTailProperties
  <1> HIDE DEF t, m, l
  <1>6. Done \in Nat /\ Done + 1 \in 1 .. l /\ Done < l /\ (Done > 0 => Done \in 1 .. l)
    BY <1>4
  <1>7. cmds[1] = asked[N][Done + 1]
    BY <1>3, <1>4 DEF m
  <1>8. l - Len(t) = Done + 1 /\ Len(t) <= l
    BY <1>4, <1>5
  <1>9. ASSUME NEW i \in 1 .. Len(t) PROVE t[i] = asked[N][(Done + 1) + i]
    <2>1. i + 1 \in 1 .. m /\ Done + (i + 1) = (Done + 1) + i
      BY <1>4, <1>5, <1>6
    <2>2. cmds[i + 1] = asked[N][Done + (i + 1)]
      BY <1>3, <2>1 DEF m
    <2> QED BY <1>5, <2>1, <2>2
  <1>10. ASSUME m > 1
         PROVE  t[1] = cmds[2] /\ t # <<>> /\ cmds[2] = asked[N][Done + 2] /\ Done + 2 \in 1 .. l
    <2>1. 1 \in 1 .. Len(t) /\ 2 \in 1 .. m /\ Done + 2 \in 1 .. l
      BY <1>4, <1>5, <1>10
    <2>2. t # <<>>
      BY <1>4, <1>5, <1>10, EmptySeq
    <2>3. t[1] = cmds[1 + 1] /\ 1 + 1 = 2
      BY <1>5, <2>1
    <2> QED BY <1>3, <2>1, <2>2, <2>3 DEF m
  <1> QED BY <1>1, <1>2, <1>4, <1>5, <1>6, <1>7, <1>8, <1>9, <1>10 DEF l, m, t

(* A table in which an opcode is replaced.                                  *)
LEMMA Replaced ==
  ASSUME curopcodes \in Tables, NEW c \in Commands, SpiType(c) # "invalid"
  PROVE  /\ Reprogrammed(c) \in Tables /\ Reprogrammed(c).preop = curopcodes.preop
         /\ Reprogrammed(c).atomic = curopcodes.atomic
         /\ Reprogrammed(c).op = [curopcodes.op EXCEPT ![2] = c.op]
         /\ Reprogrammed(c).type = [curopcodes.type EXCEPT ![2] = SpiType(c)]
         /\ FindOpcode(curopcodes, c.op) = -1 => FindOpcode(Reprogrammed(c), c.op) = 2
  <1>1. /\ Reprogrammed(c).preop = curopcodes.preop /\ Reprogrammed(c).atomic = curopcodes.atomic
        /\ Reprogrammed(c).op = [curopcodes.op EXCEPT ![2] = c.op]
        /\ Reprogrammed(c).type = [curopcodes.type EXCEPT ![2] = SpiType(c)]
    BY DEF Reprogrammed, Tables
  <1>2. SpiType(c) \in SpiTypes /\ c.op \in Opcodes
    BY Guess DEF Commands
  <1>3. Reprogrammed(c) \in Tables
    <2>1. Reprogrammed(c) = [preop |-> curopcodes.preop, op |-> [curopcodes.op EXCEPT ![2] = c.op],
                             type |-> [curopcodes.type EXCEPT ![2] = SpiType(c)], atomic |-> curopcodes.atomic]
      <3>1. PICK p, o, y, m : curopcodes = [preop |-> p, op |-> o, type |-> y, atomic |-> m]
        BY DEF Tables
      <3> DEFINE e == [curopcodes EXCEPT !.op[2] = c.op]
                 n == [o EXCEPT ![2] = c.op]
      <3>2. e = [preop |-> p, op |-> n, type |-> y, atomic |-> m]
        BY <3>1
      <3>3. Reprogrammed(c) = [e EXCEPT !.type[2] = SpiType(c)]
        BY DEF Reprogrammed
      <3>4. n = [curopcodes.op EXCEPT ![2] = c.op] /\ y = curopcodes.type
        BY <3>1
      <3> HIDE DEF e, n
      <3> QED BY <3>1, <3>2, <3>3, <3>4
    <2>2. [curopcodes.op EXCEPT ![2] = c.op] \in [Slots -> Opcodes]
      BY <1>2 DEF Tables
    <2>3. [curopcodes.type EXCEPT ![2] = SpiType(c)] \in [Slots -> SpiTypes]
      BY <1>2 DEF Tables
    <2> QED BY <2>1, <2>2, <2>3 DEF Tables
  <1>4. ASSUME FindOpcode(curopcodes, c.op) = -1
        PROVE  FindOpcode(Reprogrammed(c), c.op) = 2
    <2>1. \A s \in Slots : curopcodes.op[s] # c.op
      BY <1>4, Finds
    <2>2. \A s \in Slots : Reprogrammed(c).op[s] = IF s = 2 THEN c.op ELSE curopcodes.op[s]
      BY <1>1 DEF Tables
    <2>3. 2 \in Slots
      BY DEF Slots
    <2> DEFINE f == FindOpcode(Reprogrammed(c), c.op)
    <2>4. f \in Slots \cup {-1} /\ (f # -1 => Reprogrammed(c).op[f] = c.op)
          /\ (f = -1 => \A i \in Slots : Reprogrammed(c).op[i] # c.op)
      BY Finds
    <2> HIDE DEF f
    <2>5. f = 2
      BY <2>1, <2>2, <2>3, <2>4
    <2> QED BY <2>5 DEF f
  <1> QED BY <1>1, <1>3, <1>4

(* A table whose marks are taken away.                                      *)
LEMMA Unmarked ==
  ASSUME NEW ops \in Tables
  PROVE  /\ NonAtomic(ops) \in Tables /\ NonAtomic(ops).preop = ops.preop
         /\ NonAtomic(ops).op = ops.op
         /\ NonAtomic(ops).type = ops.type /\ \A s \in Slots : NonAtomic(ops).atomic[s] = 0
         /\ ProgramOpcodes(NonAtomic(ops)) = ProgramOpcodes(ops)
         /\ Agrees(ops) => Agrees(NonAtomic(ops))
  <1>1. NonAtomic(ops) = [preop |-> ops.preop, op |-> ops.op, type |-> ops.type,
                          atomic |-> [s \in Slots |-> 0]]
    BY DEF NonAtomic, Tables
  <1>2. [s \in Slots |-> 0] \in [Slots -> 0 .. 2]
    OBVIOUS
  <1> QED BY <1>1, <1>2 DEF Tables, ProgramOpcodes, Agrees

(* The guess for a command that a call has is one for all that name it.     *)
LEMMA ReplacedAgrees ==
  ASSUME curopcodes \in Tables, Agrees(curopcodes), NEW k \in Calls, NEW i \in DOMAIN k,
         SpiType(k[i]) # "invalid"
  PROVE  Agrees(Reprogrammed(k[i]))
  <1> DEFINE c == k[i]
             r == Reprogrammed(c)
  <1>1. c \in Commands
    BY CallFacts
  <1>2. /\ \A s \in Slots : r.op[s] = IF s = 2 THEN c.op ELSE curopcodes.op[s]
        /\ \A s \in Slots : r.type[s] = IF s = 2 THEN SpiType(c) ELSE curopcodes.type[s]
    <2>1. r.op = [curopcodes.op EXCEPT ![2] = c.op]
          /\ r.type = [curopcodes.type EXCEPT ![2] = SpiType(c)]
      BY <1>1, Replaced
    <2> HIDE DEF r, c
    <2> QED BY <2>1 DEF Tables
  <1> SUFFICES ASSUME NEW l \in Calls, NEW j \in DOMAIN l, NEW s \in Slots,
                      l[j].op = r.op[s], SpiType(l[j]) # "invalid"
               PROVE  r.type[s] = SpiType(l[j])
    BY DEF Agrees
  <1>3. CASE s = 2
    <2>1. l[j].op = c.op /\ r.type[s] = SpiType(c)
      BY <1>2, <1>3
    <2>2. SpiType(c) = SpiType(l[j]) \/ "invalid" \in {SpiType(c), SpiType(l[j])}
      BY <2>1, CallsAssumption DEF CallsAssumption
    <2> QED BY <2>1, <2>2
  <1>4. CASE s # 2
    <2>1. l[j].op = curopcodes.op[s] /\ r.type[s] = curopcodes.type[s]
      BY <1>2, <1>4
    <2> QED BY <2>1 DEF Agrees
  <1> QED BY <1>3, <1>4

(* What a command finds.                                                    *)
LEMMA TableFacts ==
  ASSUME SwTypes, SwTable, NEW k \in Calls, NEW i \in DOMAIN k
  PROVE  /\ TableFor(k[i]) \in Tables /\ TableFor(k[i]).preop = curopcodes.preop
         /\ TableFor(k[i]).atomic = curopcodes.atomic
         /\ ~lock => Agrees(TableFor(k[i]))
         /\ FindOpcode(curopcodes, k[i].op) # -1 => TableFor(k[i]) = curopcodes
         /\ ~lock /\ SpiType(k[i]) # "invalid" => FindOpcode(TableFor(k[i]), k[i].op) # -1
  <1>1. curopcodes \in Tables /\ k[i] \in Commands
    BY CallFacts DEF SwTypes
  <1>2. CASE FindOpcode(curopcodes, k[i].op) = -1 /\ ~lock /\ SpiType(k[i]) # "invalid"
    <2>1. TableFor(k[i]) = Reprogrammed(k[i])
      BY <1>2 DEF TableFor
    <2>2. Agrees(Reprogrammed(k[i]))
      BY <1>1, <1>2, ReplacedAgrees DEF SwTable
    <2>3. /\ Reprogrammed(k[i]) \in Tables /\ Reprogrammed(k[i]).preop = curopcodes.preop
          /\ Reprogrammed(k[i]).atomic = curopcodes.atomic
          /\ FindOpcode(Reprogrammed(k[i]), k[i].op) = 2
      BY <1>1, <1>2, Replaced
    <2>4. 2 # -1
      OBVIOUS
    <2> QED BY ONLY <1>2, <2>1, <2>2, <2>3, <2>4
  <1>3. CASE ~(FindOpcode(curopcodes, k[i].op) = -1 /\ ~lock /\ SpiType(k[i]) # "invalid")
    <2>1. TableFor(k[i]) = curopcodes
      BY <1>3 DEF TableFor
    <2> QED BY <1>1, <1>3, <2>1 DEF SwTable
  <1> QED BY <1>2, <1>3

-----------------------------------------------------------------------------
(* What a step of the host leaves of what the chip has seen.                *)
LEMMA SwFrame ==
  ASSUME SwInv, chip' = chip, asked' = asked, cycle' = cycle, spia' = spia, spid' = spid,
         curopcodes'.preop = curopcodes.preop,
         torn => torn', cycle = NoCycle \/ torn' \/ menu' = menu,
         cycle # NoCycle /\ pc' # "poll" /\ ret' = 0 => cycle.call < N
  PROVE  SwChip' /\ N' = N /\ \A n, j : Seen(n, j)' = Seen(n, j)
  <1>1. N' = N
    BY DEF N
  <1>2. \A n, j : Seen(n, j)' = Seen(n, j) /\ Entry(n, j)' = Entry(n, j)
    BY SeenSame
  <1>3. ASSUME cycle # NoCycle, ~torn'
        PROVE  \E n \in 1 .. N : \E j \in 1 .. Len(asked[n]) : Pending(n, j)'
    <2>0. PICK n \in 1 .. N : \E j \in 1 .. Len(asked[n]) : Pending(n, j)
      BY <1>3 DEF SwInv, SwChip
    <2>1. PICK j \in 1 .. Len(asked[n]) : Pending(n, j)
      BY <2>0
    <2>2. menu' = menu /\ Sent' = Sent
      BY <1>3 DEF Sent
    <2>3. Going' = Going /\ GoingPrefix' = GoingPrefix
      BY <2>2 DEF Going, GoingPrefix
    <2>4. Pending(n, j)'
      BY <1>2, <2>1, <2>3 DEF Pending
    <2> QED BY <2>4
  <1>4. ~torn' => \A n \in 1 .. N : \E j \in 0 .. Len(asked[n]) : Seen(n, j)'
    BY <1>2 DEF SwInv, SwChip
  <1> QED BY <1>1, <1>2, <1>3, <1>4 DEF SwInv, SwChip

(* Two prefixes in a row are the first two commands of a call.              *)
LEMMA TwoInRow ==
  ASSUME SwTypes, asked[N] \in Calls, NEW i \in Nat \ {0}, i \in DOMAIN asked[N],
         i + 1 \in DOMAIN asked[N],
         asked[N][i].op \in {curopcodes.preop[1], curopcodes.preop[2]},
         asked[N][i + 1].op \in {curopcodes.preop[1], curopcodes.preop[2]}
  PROVE  i = 1 /\ TwoPreops(N)
  <1>1. i = 1
    <2>1. curopcodes.preop \in Preops
      BY DEF SwTypes
    <2>2. i > 1 => asked[N][i + 1].op \notin {curopcodes.preop[1], curopcodes.preop[2]}
      BY <2>1, CallFacts
    <2> QED BY <2>2
  <1>2. Len(asked[N]) \in Nat /\ DOMAIN asked[N] = 1 .. Len(asked[N])
    BY CallFacts
  <1>3. i \in 1 .. Len(asked[N]) - 1
    <2> DEFINE l == Len(asked[N])
    <2> HIDE DEF l
    <2>1. l \in Nat /\ i + 1 \in 1 .. l
      BY <1>2 DEF l
    <2>2. i \in 1 .. l - 1
      BY <2>1
    <2> QED BY <2>2 DEF l
  <1>4. \A j \in {i, i + 1} : FindPreop(curopcodes, asked[N][j].op) # -1
    BY Finds
  <1>5. TwoPreops(N)
    BY <1>3, <1>4 DEF TwoPreops
  <1> QED BY <1>1, <1>5

(* The prefix at hand.                                                      *)
LEMMA PreopAtHand ==
  ASSUME SwInv, Begins, PreopPos # -1
  PROVE  /\ N > 0 /\ N \in Nat /\ Len(cmds) > 1 /\ asked[N] \in Calls /\ PreopPos \in {0, 1}
         /\ curopcodes.preop[PreopPos + 1] = cmds[1].op /\ cmds[1] = asked[N][Done + 1]
         /\ cmds[1].op \in {curopcodes.preop[1], curopcodes.preop[2]}
         /\ NextOpPos = FindOpcode(curopcodes, cmds[2].op)
  <1>1. N > 0 /\ N \in Nat
    <2>1. N \in Nat
      BY AskedFacts DEF SwInv, SwTypes
    <2>2. N # 0
      BY DEF SwInv, SwWalk, Begins
    <2> QED BY <2>1, <2>2
  <1>2. HasNext /\ PreopPos = FindPreop(curopcodes, cmds[1].op)
    BY DEF PreopPos
  <1>3. PreopPos \in {0, 1} /\ curopcodes.preop[PreopPos + 1] = cmds[1].op
    BY <1>2, Finds
  <1>4. curopcodes.preop[PreopPos + 1] \in {curopcodes.preop[1], curopcodes.preop[2]}
    <2>1. PreopPos + 1 \in {1, 2}
      BY <1>3
    <2> QED BY <2>1
  <1> QED BY <1>1, <1>2, <1>3, <1>4, AtHand DEF HasNext, NextOpPos, SwInv, Begins

(* A prefix is kept back and marked at the opcode of the next command.      *)
LEMMA Keeps ==
  ASSUME SwInv, Begins, PreopPos # -1,
         curopcodes' \in Tables, curopcodes'.preop = curopcodes.preop,
         menu' = ProgramOpcodes(curopcodes'), ~lock => Agrees(curopcodes'),
         FindOpcode(curopcodes', cmds[2].op) \in Slots,
         curopcodes'.atomic[FindOpcode(curopcodes', cmds[2].op)] = PreopPos + 1,
         cmds' = Tail(cmds), torn' \in BOOLEAN, torn => torn',
         cycle = NoCycle \/ torn' \/ menu' = menu,
         UNCHANGED <<lock, asked, pc, ret, readarr, cycle, cds, fcerr, spia, spid, chip, failed>>
  PROVE  SwInv'
  <1>1. /\ N > 0 /\ N \in Nat /\ Len(cmds) > 1 /\ asked[N] \in Calls /\ PreopPos \in {0, 1}
        /\ curopcodes.preop[PreopPos + 1] = cmds[1].op
        /\ cmds[1].op \in {curopcodes.preop[1], curopcodes.preop[2]}
    BY PreopAtHand
  <1>2. cmds # <<>> /\ pc = "next" /\ ret = 0
    BY DEF Begins
  <1>3. /\ Done \in Nat /\ Done + 1 \in DOMAIN asked[N] /\ (Done > 0 => Done \in DOMAIN asked[N])
        /\ cmds[1] = asked[N][Done + 1]
        /\ Tail(cmds) \in Seq(Commands) /\ Len(asked[N]) - Len(Tail(cmds)) = Done + 1
        /\ Len(Tail(cmds)) <= Len(asked[N])
        /\ \A i \in 1 .. Len(Tail(cmds)) : Tail(cmds)[i] = asked[N][(Done + 1) + i]
        /\ Tail(cmds)[1] = cmds[2] /\ Tail(cmds) # <<>>
    BY <1>1, <1>2, AtHand DEF SwInv
  <1>4. N' = N /\ Done' = Done + 1
    BY <1>3 DEF N, Done
  <1>5. SwChip' /\ \A n, j : Seen(n, j)' = Seen(n, j)
    <2>1. cycle # NoCycle => cycle.call < N
      BY <1>2 DEF SwInv, SwChip
    <2> QED BY <2>1, SwFrame
  <1>6. SwTypes'
    BY DEF SwInv, SwTypes
  <1>7. SwTable'
    BY DEF SwTable, Agrees
  <1>8. SwWalk'
    <2>1. pc' = "next" /\ asked'[N'] = asked[N] /\ N' # 0
      BY <1>1, <1>2, <1>4
    <2>2. /\ cmds' \in Seq(Commands) /\ Len(cmds') <= Len(asked[N])
          /\ \A i \in 1 .. Len(cmds') : cmds'[i] = asked[N][Done' + i]
      BY <1>3, <1>4
    <2> QED BY ONLY <2>1, <2>2 DEF SwWalk
  <1>9. ~NoneHeld'
    <2>1. PreopPos + 1 # 0
      BY <1>1
    <2> QED BY <2>1 DEF NoneHeld
  <1>10. SwHeld'
    <2>1. PreopPos + 1 \in {1, 2} /\ Done + 1 > 0
      BY <1>1, <1>3
    <2>2. cmds'[1] = cmds[2] /\ cmds' # <<>> /\ pc' # "idle" /\ ret' = 0
      BY <1>2, <1>3
    <2> QED BY <1>1, <1>3, <1>4, <2>1, <2>2 DEF SwHeld
  <1>11. Seen(N, Done)
    <2>1. (NoneHeld => Seen(N, Done)) /\ (~NoneHeld => Seen(N, Done - 1))
      BY <1>1, <1>2 DEF SwInv, SwSeen
    <2>2. CASE ~NoneHeld
      <3> DEFINE a == curopcodes.atomic[FindOpcode(curopcodes, cmds[1].op)]
      <3>1. Done > 0 /\ a \in {1, 2} /\ curopcodes.preop[a] = asked[N][Done].op
        BY <1>1, <2>2 DEF SwInv, SwHeld
      <3>2. asked[N][Done].op \in {curopcodes.preop[1], curopcodes.preop[2]}
        BY <3>1
      <3>3. /\ Done \in Nat \ {0} /\ Done \in DOMAIN asked[N] /\ Done + 1 \in DOMAIN asked[N]
            /\ asked[N][Done + 1].op \in {curopcodes.preop[1], curopcodes.preop[2]}
        BY ONLY <1>1, <1>3, <3>1
      <3>4. SwTypes /\ asked[N] \in Calls
        BY <1>1 DEF SwInv
      <3>5. Done = 1 /\ TwoPreops(N)
        BY ONLY <3>2, <3>3, <3>4, TwoInRow
      <3>6. Seen(N, 0)
        BY <2>1, <2>2, <3>5
      <3> QED BY <3>5, <3>6, SeenLess DEF SwInv, SwTypes
    <2> QED BY <2>1, <2>2
  <1>12. SwSeen'
    <2> SUFFICES ASSUME NEW n \in {N'}, NEW j \in {Done'} PROVE Seen(n, j - 1)'
      BY <1>2, <1>9 DEF SwSeen
    <2>1. n = N /\ j - 1 = Done
      BY <1>3, <1>4
    <2> QED BY <1>5, <1>11, <2>1
  <1>13. SwReason' /\ OwnAnswer'
    BY <1>2 DEF SwInv, SwReason, OwnAnswer
  <1> QED BY <1>5, <1>6, <1>7, <1>8, <1>10, <1>12, <1>13 DEF SwInv

(* Of two prefixes in a row the first is ignored.                           *)
LEMMA SwIgnores ==
  ASSUME SwInv, IgnorePreop
  PROVE  SwInv'
  <1>1. /\ Begins /\ PreopPos # -1 /\ FindPreop(curopcodes, cmds[2].op) # -1 /\ cmds' = Tail(cmds)
        /\ UNCHANGED <<lock, curopcodes, menu, asked, pc, ret, readarr, cycle, cds, fcerr, spia,
                       spid, chip>>
        /\ failed' = failed /\ torn' = torn
    BY DEF IgnorePreop, ctrlVars
  <1>2. /\ N > 0 /\ N \in Nat /\ Len(cmds) > 1 /\ asked[N] \in Calls
        /\ cmds[1].op \in {curopcodes.preop[1], curopcodes.preop[2]}
    BY <1>1, PreopAtHand
  <1>3. cmds # <<>> /\ pc = "next" /\ ret = 0
    BY <1>1 DEF Begins
  <1>4. /\ Done \in Nat /\ Done + 1 \in DOMAIN asked[N] /\ Done + 2 \in DOMAIN asked[N]
        /\ cmds[1] = asked[N][Done + 1] /\ cmds[2] = asked[N][Done + 2]
        /\ Tail(cmds) \in Seq(Commands) /\ Len(asked[N]) - Len(Tail(cmds)) = Done + 1
        /\ Len(Tail(cmds)) <= Len(asked[N])
        /\ \A i \in 1 .. Len(Tail(cmds)) : Tail(cmds)[i] = asked[N][(Done + 1) + i]
        /\ Tail(cmds)[1] = cmds[2] /\ Tail(cmds) # <<>>
    BY <1>2, <1>3, AtHand DEF SwInv
  <1>5. N' = N /\ Done' = Done + 1
    BY <1>1, <1>4 DEF N, Done
  <1>6. SwChip' /\ \A n, j : Seen(n, j)' = Seen(n, j)
    <2>1. cycle # NoCycle => cycle.call < N
      BY <1>3 DEF SwInv, SwChip
    <2> QED BY <1>1, <2>1, SwFrame
  <1>7. cmds[2].op \in {curopcodes.preop[1], curopcodes.preop[2]}
    BY <1>1, Finds, FindPreopIs
  <1>8. Done = 0 /\ TwoPreops(N)
    <2>1. Done + 1 \in Nat \ {0} /\ (Done + 1) + 1 = Done + 2
      BY <1>4
    <2>2. Done + 1 = 1 /\ TwoPreops(N)
      BY <1>2, <1>4, <1>7, <2>1, TwoInRow DEF SwInv
    <2> QED BY <1>4, <2>2
  <1>9. NoneHeld /\ NoneHeld' = NoneHeld
    <2>1. ~(Done > 0)
      BY <1>8
    <2>2. NoneHeld
      BY <1>2, <2>1 DEF SwInv, SwHeld
    <2> QED BY <1>1, <2>2 DEF NoneHeld
  <1>10. Seen(N, 1)
    <2>1. Seen(N, 0)
      BY <1>2, <1>3, <1>8, <1>9 DEF SwInv, SwSeen
    <2> QED BY <1>8, <2>1, SeenLess DEF SwInv, SwTypes
  <1>11. SwTypes' /\ SwTable'
    BY <1>1 DEF SwInv, SwTypes, SwTable, Agrees
  <1>12. SwWalk' /\ SwHeld'
    BY <1>1, <1>2, <1>3, <1>4, <1>5, <1>9 DEF SwWalk, SwHeld
  <1>13. SwSeen'
    <2> SUFFICES ASSUME NEW n \in {N'}, NEW j \in {Done'} PROVE Seen(n, j)'
      BY <1>1, <1>3, <1>9 DEF SwSeen
    <2>1. n = N /\ j = 1
      BY <1>5, <1>8
    <2> QED BY <1>6, <1>10, <2>1
  <1>14. SwReason' /\ OwnAnswer'
    BY <1>1, <1>3 DEF SwInv, SwReason, OwnAnswer
  <1> QED BY <1>6, <1>11, <1>12, <1>13, <1>14 DEF SwInv

(* A prefix is kept back for an opcode of the menu.                         *)
LEMMA SwPairs ==
  ASSUME SwInv, PairPreop
  PROVE  SwInv'
  <1>1. /\ Begins /\ PreopPos # -1 /\ NextOpPos # -1 /\ cmds' = Tail(cmds)
        /\ curopcodes' = [curopcodes EXCEPT !.atomic[NextOpPos] = PreopPos + 1]
        /\ UNCHANGED <<lock, asked, pc, ret, readarr, cycle, cds, fcerr, spia, spid, chip, failed>>
        /\ torn' = torn /\ menu' = menu
    BY DEF PairPreop, ctrlVars
  <1>2. PreopPos \in {0, 1} /\ NextOpPos = FindOpcode(curopcodes, cmds[2].op)
    BY <1>1, PreopAtHand
  <1>3. NextOpPos \in Slots
    BY <1>1, <1>2, Finds
  <1>4. PICK p, o, y, m : /\ curopcodes = [preop |-> p, op |-> o, type |-> y, atomic |-> m]
                          /\ p \in Opcodes \X Opcodes /\ o \in [Slots -> Opcodes]
                          /\ y \in [Slots -> SpiTypes] /\ m \in [Slots -> 0 .. 2]
    BY DEF SwInv, SwTypes, Tables
  <1> DEFINE r == [m EXCEPT ![NextOpPos] = PreopPos + 1]
  <1>5. curopcodes' = [preop |-> p, op |-> o, type |-> y, atomic |-> r]
    BY <1>1, <1>4
  <1>6. r \in [Slots -> 0 .. 2] /\ r[NextOpPos] = PreopPos + 1
    <2>1. PreopPos + 1 \in 0 .. 2
      BY <1>2
    <2> QED BY <1>3, <1>4, <2>1
  <1> HIDE DEF r
  <1>7. curopcodes' \in Tables /\ curopcodes'.preop = curopcodes.preop
        /\ curopcodes'.op = curopcodes.op
        /\ curopcodes'.type = curopcodes.type /\ curopcodes'.atomic = r
    BY <1>4, <1>5, <1>6 DEF Tables
  <1>8. menu' = ProgramOpcodes(curopcodes') /\ (~lock => Agrees(curopcodes'))
    BY <1>1, <1>7 DEF SwInv, SwTypes, SwTable, ProgramOpcodes, Agrees
  <1>9. FindOpcode(curopcodes', cmds[2].op) = NextOpPos
    BY <1>2, <1>7 DEF FindOpcode
  <1>10. torn' \in BOOLEAN
    BY <1>1 DEF SwInv, SwTypes
  <1> QED BY <1>1, <1>3, <1>6, <1>7, <1>8, <1>9, <1>10, Keeps

(* The menu is rewritten for the next command.                              *)
LEMMA SwReprograms ==
  ASSUME SwInv, ReprogramForPreop
  PROVE  SwInv'
  <1> DEFINE c == cmds[2]
  <1>1. /\ Begins /\ PreopPos # -1 /\ NextOpPos = -1 /\ ~lock /\ SpiType(c) # "invalid"
        /\ curopcodes' = [Reprogrammed(c) EXCEPT !.atomic[2] = PreopPos + 1]
        /\ menu' = ProgramOpcodes(Reprogrammed(c))
        /\ torn' = (torn \/ (cycle # NoCycle /\ ProgramOpcodes(Reprogrammed(c)) # menu))
        /\ cmds' = Tail(cmds)
        /\ UNCHANGED <<lock, asked, pc, ret, readarr, cycle, cds, fcerr, spia, spid, chip, failed>>
    BY DEF ReprogramForPreop, NeedsSlot, Rewrite
  <1>2. /\ N > 0 /\ Len(cmds) > 1 /\ asked[N] \in Calls /\ PreopPos \in {0, 1}
        /\ NextOpPos = FindOpcode(curopcodes, c.op)
    BY <1>1, PreopAtHand
  <1>3. c = asked[N][Done + 2] /\ Done + 2 \in DOMAIN asked[N] /\ c \in Commands
    BY <1>1, <1>2, AtHand DEF SwInv, Begins
  <1>4. curopcodes \in Tables /\ Agrees(curopcodes)
    BY <1>1 DEF SwInv, SwTypes, SwTable
  <1>5. /\ Reprogrammed(c) \in Tables /\ Reprogrammed(c).preop = curopcodes.preop
        /\ FindOpcode(Reprogrammed(c), c.op) = 2
    BY <1>1, <1>2, <1>3, <1>4, Replaced
  <1>6. Agrees(Reprogrammed(c))
    BY <1>1, <1>2, <1>3, <1>4, ReplacedAgrees
  <1> HIDE DEF c
  <1>7. PICK p, o, y, m : /\ Reprogrammed(c) = [preop |-> p, op |-> o, type |-> y, atomic |-> m]
                          /\ p \in Opcodes \X Opcodes /\ o \in [Slots -> Opcodes]
                          /\ y \in [Slots -> SpiTypes] /\ m \in [Slots -> 0 .. 2]
    BY <1>5 DEF Tables
  <1> DEFINE r == [m EXCEPT ![2] = PreopPos + 1]
  <1>8. curopcodes' = [preop |-> p, op |-> o, type |-> y, atomic |-> r]
    BY <1>1, <1>7
  <1>9. r \in [Slots -> 0 .. 2] /\ r[2] = PreopPos + 1 /\ 2 \in Slots
    <2>1. PreopPos + 1 \in 0 .. 2 /\ 2 \in Slots
      BY <1>2 DEF Slots
    <2> QED BY <1>7, <2>1
  <1> HIDE DEF r
  <1>10. curopcodes' \in Tables /\ curopcodes'.preop = curopcodes.preop /\ curopcodes'.atomic = r
         /\ curopcodes'.op = Reprogrammed(c).op /\ curopcodes'.type = Reprogrammed(c).type
    BY <1>5, <1>7, <1>8, <1>9 DEF Tables
  <1>11. menu' = ProgramOpcodes(curopcodes') /\ (~lock => Agrees(curopcodes'))
    BY <1>1, <1>5, <1>6, <1>10 DEF ProgramOpcodes, Agrees
  <1>12. FindOpcode(curopcodes', c.op) = 2
    BY <1>5, <1>10 DEF FindOpcode
  <1>13. torn' \in BOOLEAN /\ (torn => torn') /\ (cycle = NoCycle \/ torn' \/ menu' = menu)
    BY <1>1 DEF SwInv, SwTypes
  <1> QED BY <1>1, <1>9, <1>10, <1>11, <1>12, <1>13, Keeps DEF c

(* What can be sent is accepted, if the menu may be rewritten.              *)
LEMMA Takes ==
  ASSUME SwTypes, SwTable, ~lock, NEW k \in Calls, NEW i \in DOMAIN k, Sendable(k[i])
  PROVE  Accepted(k[i])
  <1> DEFINE c == k[i]
             t == TableFor(c)
             x == FindOpcode(t, c.op)
  <1>1. SpiType(c) # "invalid" /\ Agrees(t) /\ x # -1
    BY TableFacts DEF Sendable
  <1>2. x \in Slots /\ t.op[x] = c.op
    BY <1>1, Finds
  <1>3. t.type[x] = SpiType(c)
    BY <1>1, <1>2 DEF Agrees
  <1>4. t.type[x] \in SpiTypes
    BY <1>2, TableFacts DEF Tables
  <1>5. Carried(t.type[x], c) = DataLength(t.type[x], c)
    BY <1>3, <1>4, CountFits DEF Sendable
  <1> QED BY <1>1, <1>3, <1>5 DEF Accepted, Sendable

(* A command is refused.                                                    *)
LEMMA SwRefuses ==
  ASSUME SwInv, Refuse
  PROVE  SwInv'
  <1> DEFINE c == cmds[1]
             t == TableFor(c)
  <1>1. /\ Begins /\ ~Accepted(c) /\ curopcodes' = NonAtomic(t) /\ menu' = ProgramOpcodes(t)
        /\ torn' = (torn \/ (cycle # NoCycle /\ ProgramOpcodes(t) # menu))
        /\ ret' = 1 /\ cmds' = Tail(cmds)
        /\ UNCHANGED <<lock, bbar, asked, pc, readarr, cycle, cds, fcerr, spia, spid, chip, failed>>
    BY DEF Refuse, IsCommand, Rewrite
  <1>2. cmds # <<>> /\ pc = "next" /\ ret = 0 /\ N > 0
    <2>1. cmds # <<>> /\ pc = "next" /\ ret = 0
      BY <1>1 DEF Begins
    <2>2. N \in Nat /\ N # 0
      BY <2>1, AskedFacts DEF SwInv, SwTypes, SwWalk
    <2> QED BY <2>1, <2>2
  <1>3. /\ asked[N] \in Calls /\ Done \in Nat /\ Done + 1 \in DOMAIN asked[N]
        /\ c = asked[N][Done + 1]
        /\ DOMAIN asked[N] = 1 .. Len(asked[N])
        /\ Tail(cmds) \in Seq(Commands) /\ Len(asked[N]) - Len(Tail(cmds)) = Done + 1
        /\ Len(Tail(cmds)) <= Len(asked[N])
        /\ \A i \in 1 .. Len(Tail(cmds)) : Tail(cmds)[i] = asked[N][(Done + 1) + i]
    BY <1>2, AtHand DEF SwInv
  <1>4. t \in Tables /\ t.preop = curopcodes.preop /\ (~lock => Agrees(t))
    BY <1>3, TableFacts DEF SwInv
  <1> HIDE DEF t, c
  <1>5. N' = N /\ Done' = Done + 1
    BY <1>1, <1>3 DEF N, Done
  <1>6. /\ curopcodes' \in Tables /\ curopcodes'.preop = curopcodes.preop /\ NoneHeld'
        /\ menu' = ProgramOpcodes(curopcodes') /\ (~lock => Agrees(curopcodes'))
    BY <1>1, <1>4, Unmarked DEF NoneHeld
  <1>7. torn' \in BOOLEAN /\ (torn => torn') /\ (cycle = NoCycle \/ torn' \/ menu' = menu)
    BY <1>1 DEF SwInv, SwTypes
  <1>8. SwChip'
    BY <1>1, <1>6, <1>7, SwFrame
  <1>9. SwTypes'
    BY <1>1, <1>6, <1>7 DEF SwInv, SwTypes
  <1>10. SwTable'
    BY <1>1, <1>6 DEF SwTable, Agrees
  <1>11. SwWalk' /\ SwHeld'
    BY <1>1, <1>2, <1>3, <1>5, <1>6 DEF SwWalk, SwHeld
  <1>12. SwSeen'
    BY <1>1, <1>2 DEF SwSeen
  <1>13. SwReason'
    <2>1. lock \/ ~Sendable(asked[N][Done + 1])
      BY <1>1, <1>3, Takes DEF SwInv, c
    <2> QED BY <1>1, <1>3, <1>5, <2>1 DEF SwReason, Sendable
  <1>14. OwnAnswer'
    BY <1>1 DEF SwInv, OwnAnswer
  <1> QED BY <1>8, <1>9, <1>10, <1>11, <1>12, <1>13, <1>14 DEF SwInv

(* A command is accepted.                                                   *)
LEMMA SwAccepts ==
  ASSUME SwInv, Accept
  PROVE  SwInv'
  <1> DEFINE c == cmds[1]
             t == TableFor(c)
  <1>1. /\ Begins /\ Accepted(c) /\ curopcodes' = t /\ menu' = ProgramOpcodes(t)
        /\ torn' = (torn \/ (cycle # NoCycle /\ ProgramOpcodes(t) # menu))
        /\ oppos' = FindOpcode(t, c.op) /\ pc' = "scip"
        /\ UNCHANGED <<lock, bbar, asked, cmds, ret, readarr, cycle, cds, fcerr, spia, spid, chip,
                       failed>>
    BY DEF Accept, IsCommand, Rewrite
  <1>2. cmds # <<>> /\ pc = "next" /\ ret = 0 /\ N > 0
    <2>1. cmds # <<>> /\ pc = "next" /\ ret = 0
      BY <1>1 DEF Begins
    <2>2. N \in Nat /\ N # 0
      BY <2>1, AskedFacts DEF SwInv, SwTypes, SwWalk
    <2> QED BY <2>1, <2>2
  <1>3. asked[N] \in Calls /\ Done + 1 \in DOMAIN asked[N] /\ c = asked[N][Done + 1]
    BY <1>2, AtHand DEF SwInv
  <1>4. /\ t \in Tables /\ t.preop = curopcodes.preop /\ t.atomic = curopcodes.atomic
        /\ (~lock => Agrees(t)) /\ (FindOpcode(curopcodes, c.op) # -1 => t = curopcodes)
    BY <1>3, TableFacts DEF SwInv
  <1>5. oppos' \in Slots /\ SizeFits(t.type[oppos'], c)
    BY <1>1, Finds DEF Accepted
  <1> HIDE DEF t, c
  <1>6. N' = N /\ Done' = Done /\ cmds'[1] = c
    BY <1>1 DEF N, Done, c
  <1>7. torn' \in BOOLEAN /\ (torn => torn') /\ (cycle = NoCycle \/ torn' \/ menu' = menu)
    BY <1>1 DEF SwInv, SwTypes
  <1>8. SwChip' /\ \A n, j : Seen(n, j)' = Seen(n, j)
    <2>1. cycle # NoCycle => cycle.call < N
      BY <1>2 DEF SwInv, SwChip
    <2> QED BY <1>1, <1>4, <1>7, <2>1, SwFrame
  <1>9. SwTypes'
    BY <1>1, <1>4, <1>7 DEF SwInv, SwTypes
  <1>10. SwTable'
    BY <1>1, <1>4 DEF SwTable, Agrees
  <1>11. SwWalk'
    BY <1>1, <1>2, <1>5, <1>6 DEF SwInv, SwWalk
  <1>12. NoneHeld' = NoneHeld
    BY <1>1, <1>4 DEF NoneHeld
  <1>13. SwHeld'
    <2>1. CASE NoneHeld
      BY <1>12, <2>1 DEF SwHeld
    <2>2. CASE ~NoneHeld
      <3>1. FindOpcode(curopcodes, c.op) \in Slots
        BY <1>2, <2>2 DEF SwInv, SwHeld, c
      <3>2. curopcodes' = curopcodes
        BY <1>1, <1>4, <3>1 DEF Slots
      <3> QED BY <1>1, <1>6, <1>12, <2>2, <3>2 DEF SwInv, SwHeld, c
    <2> QED BY <2>1, <2>2
  <1>14. SwSeen'
    <2> SUFFICES ASSUME NEW n \in {N'}, NEW j \in {Done'} 
                 PROVE  (NoneHeld => Seen(n, j)') /\ (~NoneHeld => Seen(n, j - 1)')
      BY <1>1, <1>12 DEF SwSeen
    <2>1. (NoneHeld => Seen(n, j)) /\ (~NoneHeld => Seen(n, j - 1))
      BY <1>2, <1>6 DEF SwInv, SwSeen
    <2> QED BY <1>8, <2>1
  <1>15. SwReason' /\ OwnAnswer'
    BY <1>1, <1>2 DEF SwInv, SwReason, OwnAnswer
  <1> QED BY <1>8, <1>9, <1>10, <1>11, <1>13, <1>14, <1>15 DEF SwInv

(* A call is made.                                                          *)
LEMMA SwCalls ==
  ASSUME SwInv, Call
  PROVE  SwInv'
  <1>1. PICK k \in Calls : asked' = Append(asked, k) /\ cmds' = k
    BY DEF Call
  <1>2. /\ pc = "idle" /\ pc' = "next" /\ ret' = 0 /\ failed' = FALSE
        /\ UNCHANGED <<lock, curopcodes, menu, oppos, readarr, cycle, cds, fcerr, spia, spid,
                       chip, torn>>
    BY DEF Call, ctrlVars
  <1>3. /\ N \in Nat /\ asked \in Seq(Calls) /\ asked' \in Seq(Calls) /\ N' = N + 1
        /\ \A n \in 1 .. N : asked'[n] = asked[n] /\ asked[n] \in Calls
        /\ asked'[N + 1] = k
    BY <1>1, AppendProperties, AskedFacts DEF SwInv, SwTypes, N
  <1>4. /\ k \in Seq(Commands) /\ Len(k) \in Nat /\ Done' = 0
    BY <1>1, <1>3, CallFacts DEF Done
  <1>5. \A n \in 1 .. N : \A j : Seen(n, j)' = Seen(n, j) /\ Entry(n, j)' = Entry(n, j)
    BY <1>2, <1>3, SeenSame
  <1>6. chip \in Seq(Entries) /\ \A i \in 1 .. Len(chip) : chip[i].call \in 1 .. N /\ chip[i].call < N + 1
    BY <1>3 DEF SwInv, SwTypes, SwChip
  <1>7. \A n \in {N'} : Seen(n, 0)'
    <2> TAKE n \in {N'}
    <2>1. n \in Nat /\ n = N + 1
      BY <1>3
    <2> QED BY <1>2, <1>6, <2>1, SeenNone
  <1>8. SwTypes' /\ SwTable'
    BY <1>2, <1>3 DEF SwInv, SwTypes, SwTable, Agrees
  <1>9. SwWalk'
    <2>1. N + 1 # 0 /\ Len(k) <= Len(k) /\ \A i \in 1 .. Len(k) : 0 + i = i
      BY <1>3, <1>4
    <2> QED BY <1>1, <1>2, <1>3, <1>4, <2>1 DEF SwWalk
  <1>10. SwHeld'
    BY <1>2 DEF SwInv, SwHeld, NoneHeld
  <1>11. SwSeen'
    <2> SUFFICES ASSUME NEW n \in {N'}, NEW j \in {Done'} PROVE Seen(n, j)'
      BY <1>2 DEF SwInv, SwHeld, NoneHeld, SwSeen
    <2>1. j = 0
      BY <1>4
    <2> QED BY <1>7, <2>1
  <1>12. SwChip'
    <2>1. \A i \in 1 .. Len(chip) : chip[i].call \in 1 .. N + 1
      BY <1>3, <1>6
    <2>2. ~torn => \A n \in 1 .. N + 1 : \E j \in 0 .. Len(asked'[n]) : Seen(n, j)'
      <3> SUFFICES ASSUME ~torn, NEW n \in 1 .. N + 1
                   PROVE  \E j \in 0 .. Len(asked'[n]) : Seen(n, j)'
        OBVIOUS
      <3>1. CASE n = N + 1
        <4>1. Seen(n, 0)' /\ 0 \in 0 .. Len(asked'[n])
          BY <1>3, <1>4, <1>7, <3>1
        <4> QED BY <4>1
      <3>2. CASE n \in 1 .. N
        BY <1>3, <1>5, <3>2 DEF SwInv, SwChip
      <3>3. n = N + 1 \/ n \in 1 .. N
        BY <1>3
      <3> QED BY ONLY <3>1, <3>2, <3>3
    <2>3. ASSUME cycle # NoCycle
          PROVE  /\ cycle.call \in 1 .. N + 1 /\ cycle.call < N + 1
                 /\ \A i \in 1 .. Len(chip) : chip[i].call <= cycle.call
                 /\ ~torn => \E n \in 1 .. N + 1 : \E j \in 1 .. Len(asked'[n]) : Pending(n, j)'
      <3>1. cycle.call \in 1 .. N /\ \A i \in 1 .. Len(chip) : chip[i].call <= cycle.call
        BY <2>3 DEF SwInv, SwChip
      <3>2. ASSUME ~torn PROVE \E n \in 1 .. N + 1 : \E j \in 1 .. Len(asked'[n]) : Pending(n, j)'
        <4>1. PICK n \in 1 .. N : \E j \in 1 .. Len(asked[n]) : Pending(n, j)
          BY <2>3, <3>2 DEF SwInv, SwChip
        <4>2. PICK j \in 1 .. Len(asked[n]) : Pending(n, j)
          BY <4>1
        <4>3. Going' = Going /\ GoingPrefix' = GoingPrefix
          BY <1>2 DEF Going, GoingPrefix, Sent
        <4>4. asked'[n] = asked[n] /\ n \in 1 .. N + 1
          BY <1>3, <4>1
        <4>5. Pending(n, j)'
          BY <1>2, <1>5, <4>2, <4>3, <4>4 DEF Pending
        <4> QED BY <4>4, <4>5
      <3>3. cycle.call \in 1 .. N + 1 /\ cycle.call < N + 1
        BY <1>3, <3>1
      <3> QED BY ONLY <3>1, <3>2, <3>3
    <2>4. \A i, j \in 1 .. Len(chip) : i < j => chip[i].call <= chip[j].call
      BY DEF SwInv, SwChip
    <2> QED BY <1>2, <1>3, <2>1, <2>2, <2>3, <2>4 DEF SwChip
  <1>13. SwReason' /\ OwnAnswer'
    BY <1>2 DEF SwInv, SwReason, OwnAnswer
  <1> QED BY <1>8, <1>9, <1>10, <1>11, <1>12, <1>13 DEF SwInv

(* A call returns.                                                          *)
LEMMA SwReturns ==
  ASSUME SwInv, Return
  PROVE  SwInv'
  <1>1. /\ pc = "next" /\ (cmds = <<>> \/ ret # 0) /\ pc' = "idle"
        /\ UNCHANGED <<lock, bbar, curopcodes, menu, asked, cmds, oppos, ret, readarr, cycle, cds,
                       fcerr,
                       spia, spid, chip, failed, torn>>
    BY DEF Return, ctrlVars
  <1>2. N' = N /\ Done' = Done /\ NoneHeld' = NoneHeld
    BY <1>1 DEF N, Done, NoneHeld
  <1>3. N > 0
    <2>1. N \in Nat /\ N # 0
      BY <1>1, AskedFacts DEF SwInv, SwTypes, SwWalk
    <2> QED BY <2>1
  <1>4. SwChip' /\ \A n, j : Seen(n, j)' = Seen(n, j)
    <2>1. cycle # NoCycle /\ ret = 0 => cycle.call < N
      BY <1>1 DEF SwInv, SwChip
    <2> QED BY <1>1, <2>1, SwFrame
  <1>5. SwTypes' /\ SwTable'
    BY <1>1 DEF SwInv, SwTypes, SwTable, Agrees
  <1>6. ret \in {0, 1}
    BY DEF SwInv, SwTypes
  <1>7. SwWalk'
    BY <1>1, <1>2, <1>3 DEF SwInv, SwWalk
  <1>8. NoneHeld
    BY <1>1, <1>3 DEF SwInv, SwHeld
  <1>9. SwHeld'
    BY <1>2, <1>8 DEF SwHeld
  <1>10. SwSeen'
    <2> SUFFICES ASSUME NEW n \in {N'}, NEW j \in {Done'}, ret = 0 PROVE Seen(n, j)'
      BY <1>1, <1>2, <1>8 DEF SwSeen
    <2>1. Seen(n, j)
      BY <1>1, <1>2, <1>3, <1>8 DEF SwInv, SwSeen
    <2> QED BY <1>4, <2>1
  <1>11. SwReason' /\ OwnAnswer'
    BY <1>1, <1>2 DEF SwInv, SwReason, OwnAnswer, Sendable
  <1> QED BY <1>4, <1>5, <1>7, <1>9, <1>10, <1>11 DEF SwInv

(* The command at hand once it has been accepted.                           *)
LEMMA UnderWay ==
  ASSUME SwInv, pc \in {"scip", "poll"}
  PROVE  /\ N > 0 /\ N \in Nat /\ cmds # <<>> /\ ret = 0 /\ asked[N] \in Calls /\ Done \in Nat
         /\ Done + 1 \in DOMAIN asked[N] /\ DOMAIN asked[N] = 1 .. Len(asked[N])
         /\ cmds[1] = asked[N][Done + 1] /\ cmds[1] \in Commands
         /\ (Done > 0 => Done \in DOMAIN asked[N])
         /\ Tail(cmds) \in Seq(Commands) /\ Len(asked[N]) - Len(Tail(cmds)) = Done + 1
         /\ Len(Tail(cmds)) <= Len(asked[N])
         /\ \A i \in 1 .. Len(Tail(cmds)) : Tail(cmds)[i] = asked[N][(Done + 1) + i]
  <1>1. cmds # <<>> /\ ret = 0
    BY DEF SwInv, SwWalk
  <1>2. N \in Nat /\ N # 0
    BY AskedFacts DEF SwInv, SwTypes, SwWalk
  <1>3. N > 0
    BY <1>2
  <1> QED BY <1>1, <1>2, <1>3, AtHand DEF SwInv

(* The host goes on to the next command, with or without success.           *)
LEMMA Finishes ==
  ASSUME SwInv, pc \in {"scip", "poll"}, pc' = "next", cmds' = Tail(cmds),
         curopcodes' = NonAtomic(curopcodes), ret' \in {0, 1},
         UNCHANGED <<lock, bbar, menu, asked, cycle, cds, spia, spid, chip, torn>>,
         failed' \in BOOLEAN, fcerr' \in BOOLEAN,
         ret' = 1 => failed', cycle # NoCycle => ret' = 1,
         ret' = 0 => pc = "poll" /\ cds /\ ~fcerr /\ readarr'.to = readarr'.from,
         ret' = 1 => readarr' = readarr
  PROVE  SwInv'
  <1>1. /\ N > 0 /\ N \in Nat /\ cmds # <<>> /\ ret = 0 /\ asked[N] \in Calls /\ Done \in Nat
        /\ Done + 1 \in DOMAIN asked[N]
        /\ Tail(cmds) \in Seq(Commands) /\ Len(asked[N]) - Len(Tail(cmds)) = Done + 1
        /\ Len(Tail(cmds)) <= Len(asked[N])
        /\ \A i \in 1 .. Len(Tail(cmds)) : Tail(cmds)[i] = asked[N][(Done + 1) + i]
    BY UnderWay
  <1>2. N' = N /\ Done' = Done + 1
    BY <1>1 DEF N, Done
  <1>3. curopcodes \in Tables /\ menu = ProgramOpcodes(curopcodes)
    BY DEF SwInv, SwTypes
  <1>4. /\ curopcodes' \in Tables /\ curopcodes'.preop = curopcodes.preop /\ NoneHeld'
        /\ menu' = ProgramOpcodes(curopcodes') /\ (~lock => Agrees(curopcodes'))
    BY <1>3, Unmarked DEF NoneHeld, SwInv, SwTable
  <1>5. SwChip' /\ \A n, j : Seen(n, j)' = Seen(n, j)
    <2>1. torn => torn'
      OBVIOUS
    <2> QED BY <1>4, <2>1, SwFrame
  <1>6. SwTypes' /\ SwTable'
    BY <1>4 DEF SwInv, SwTypes, SwTable, Agrees
  <1>7. SwWalk' /\ SwHeld'
    BY <1>1, <1>2, <1>4 DEF SwWalk, SwHeld
  <1>8. SwSeen'
    <2> SUFFICES ASSUME ret' = 0, NEW n \in {N'}, NEW j \in {Done'} PROVE Seen(n, j)'
      BY <1>4 DEF SwSeen
    <2>1. n = N /\ j = Done + 1 /\ cycle = NoCycle /\ pc = "poll" /\ cds /\ ~fcerr
      BY <1>2
    <2>2. Seen(n, j)
      BY <1>1, <2>1 DEF SwInv, SwSeen
    <2> QED BY <1>5, <2>2
  <1>9. SwReason'
    BY DEF SwReason
  <1>10. OwnAnswer'
    BY DEF SwInv, OwnAnswer
  <1> QED BY <1>5, <1>6, <1>7, <1>8, <1>9, <1>10 DEF SwInv

(* The host waits no longer, or the controller has reported an error.       *)
LEMMA SwGivesUp ==
  ASSUME SwInv, ScipTimeout \/ PollTimeout \/ CycleError
  PROVE  SwInv'
  <1>1. /\ pc \in {"scip", "poll"} /\ pc' = "next" /\ cmds' = Tail(cmds) /\ ret' = 1
        /\ curopcodes' = NonAtomic(curopcodes) /\ readarr' = readarr
        /\ UNCHANGED <<lock, bbar, menu, asked, cycle, cds, spia, spid, chip, torn>>
        /\ failed' \in BOOLEAN /\ fcerr' \in BOOLEAN
    BY DEF ScipTimeout, PollTimeout, CycleError, Finish, ctrlVars, SwInv, SwTypes
  <1>2. failed'
    <2>1. ScipTimeout \/ PollTimeout => failed'
      BY DEF ScipTimeout, PollTimeout
    <2>2. CycleError => failed'
      <3> SUFFICES ASSUME CycleError PROVE failed'
        OBVIOUS
      <3>1. pc = "poll" /\ fcerr /\ failed' = failed
        BY DEF CycleError
      <3>2. N > 0 /\ failed
        BY <1>1, <3>1, UnderWay DEF SwInv, SwSeen
      <3> QED BY <3>1, <3>2
    <2> QED BY <2>1, <2>2
  <1> QED BY <1>1, <1>2, Finishes

(* The cycle is over, and its answer is taken.                              *)
LEMMA SwDone ==
  ASSUME SwInv, CycleDone
  PROVE  SwInv'
  <1>1. /\ pc = "poll" /\ cds /\ ~fcerr /\ pc' = "next" /\ cmds' = Tail(cmds) /\ ret' = 0
        /\ curopcodes' = NonAtomic(curopcodes)
        /\ UNCHANGED <<lock, bbar, menu, asked, cycle, cds, fcerr, spia, spid, chip, torn, failed>>
    BY DEF CycleDone, Finish, ctrlVars
  <1>2. N > 0 /\ cmds[1] = asked[N][Done + 1]
    BY <1>1, UnderWay
  <1>3. /\ cycle = NoCycle
        /\ Writes(curopcodes.type[oppos]) \/ spid.in = Entry(N, Done + 1)
    BY <1>1, <1>2 DEF SwInv, SwSeen
  <1>4. readarr'.to = readarr'.from
    <2> DEFINE count == Carried(curopcodes.type[oppos], cmds[1])
    <2>1. CASE ~Writes(curopcodes.type[oppos]) /\ count > 0
      <3>1. readarr' = [to |-> [call |-> Len(asked), op |-> cmds[1].op, args |-> cmds[1].args,
                                readcnt |-> cmds[1].readcnt],
                        from |-> spid.in]
        BY <2>1 DEF CycleDone
      <3>2. readarr'.to = Entry(N, Done + 1)
        BY <1>2, <3>1 DEF Entry, N
      <3> QED BY <1>3, <2>1, <3>1, <3>2
    <2>2. CASE ~(~Writes(curopcodes.type[oppos]) /\ count > 0)
      <3>1. readarr' = readarr
        BY <2>2 DEF CycleDone
      <3> QED BY <3>1 DEF SwInv, OwnAnswer
    <2> QED BY <2>1, <2>2
  <1>5. failed' \in BOOLEAN /\ fcerr' \in BOOLEAN
    BY <1>1 DEF SwInv, SwTypes
  <1> QED BY <1>1, <1>3, <1>4, <1>5, Finishes

(* A cycle is started.                                                      *)
LEMMA SwStarts ==
  ASSUME SwInv, Start
  PROVE  SwInv'
  <1> DEFINE c == cmds[1]
             type == curopcodes.type[oppos]
             mark == curopcodes.atomic[oppos]
             preops == IF mark = 0 THEN <<>> ELSE <<mark>>
             bytes == Carried(type, c)
             count == IF Writes(type) THEN 0 ELSE bytes
  <1>1. /\ pc = "scip" /\ cycle = NoCycle /\ pc' = "poll" /\ cds' = FALSE /\ fcerr' = FALSE
        /\ spia' = (IF WithAddress(type) THEN SubSeq(c.args, 1, 3) ELSE <<0, 0, 0>>)
        /\ spid' = (IF type = "write" THEN [spid EXCEPT !.out = SubSeq(c.args, 1, bytes)]
                    ELSE IF type = "write_address" THEN [spid EXCEPT !.out = SubSeq(c.args, 4, 3 + bytes)]
                    ELSE spid)
        /\ cycle' = [preops |-> preops, index |-> FindOpcode(menu, c.op), call |-> N, readcnt |-> count]
        /\ UNCHANGED <<lock, bbar, curopcodes, menu, asked, cmds, oppos, ret, readarr, chip,
                       failed, torn>>
    BY DEF Start, Ready, N
  <1>2. /\ N > 0 /\ N \in Nat /\ cmds # <<>> /\ ret = 0 /\ asked[N] \in Calls /\ Done \in Nat
        /\ Done + 1 \in DOMAIN asked[N] /\ DOMAIN asked[N] = 1 .. Len(asked[N])
        /\ c = asked[N][Done + 1] /\ c \in Commands /\ (Done > 0 => Done \in DOMAIN asked[N])
    BY <1>1, UnderWay
  <1>3. /\ oppos \in Slots /\ oppos = FindOpcode(curopcodes, c.op) /\ SizeFits(type, c)
        /\ curopcodes \in Tables /\ menu = ProgramOpcodes(curopcodes)
    BY <1>1 DEF SwInv, SwTypes, SwWalk
  <1>4. /\ type \in SpiTypes /\ mark \in 0 .. 2 /\ menu.op = curopcodes.op
        /\ menu.type = curopcodes.type
        /\ menu.preop = curopcodes.preop
    BY <1>3 DEF Tables, ProgramOpcodes
  <1>5. FindOpcode(menu, c.op) = oppos /\ menu.op[oppos] = c.op
    <2>1. FindOpcode(menu, c.op) = FindOpcode(curopcodes, c.op)
      BY <1>4 DEF FindOpcode
    <2>2. oppos # -1
      BY <1>3 DEF Slots
    <2> QED BY <1>3, <1>4, <2>1, <2>2, Finds
  <1>6. c.args \in Seq(Nat) /\ c.readcnt \in Nat /\ c.op \in Opcodes
    BY <1>2 DEF Commands
  <1>7. spid \in [out : Seq(Nat), in : Answers]
    BY DEF SwInv, SwTypes
  <1>b. /\ type = "write" => bytes = Len(c.args)
        /\ type = "write_address" => 3 + bytes = Len(c.args)
        /\ ~Writes(type) => bytes = c.readcnt
    BY <1>2, <1>3, <1>4, CountFits
  <1> HIDE DEF bytes
  <1>8. cycle' \in Cycles
    <2>1. preops \in {<<>>, <<1>>, <<2>>}
      BY <1>4
    <2>2. count \in Nat
      BY <1>6, <1>b
    <2> HIDE DEF preops, count
    <2> QED BY <1>1, <1>2, <1>3, <1>5, <2>1, <2>2 DEF Cycles
  <1>9. /\ spia' \in Seq(Nat) /\ spid' \in [out : Seq(Nat), in : Answers]
        /\ (IF WithAddress(type) THEN spia' ELSE <<>>) \o (IF Writes(type) THEN spid'.out ELSE <<>>) = c.args
        /\ count = c.readcnt
    <2> HIDE DEF type, c
    <2>1. Len(c.args) \in Nat /\ \A s \in Seq(Nat) : s \o <<>> = s /\ <<>> \o s = s
      BY <1>6, ConcatEmptySeq
    <2>2. CASE type = "read"
      <3>1. Len(c.args) = 0 /\ ~WithAddress(type) /\ ~Writes(type)
        BY <1>3, <2>1, <2>2 DEF SizeFits, Writecnt, WithAddress, Writes
      <3>2. c.args = <<>>
        BY <1>6, <3>1, EmptySeq
      <3>3. <<0, 0, 0>> \in Seq(Nat)
        OBVIOUS
      <3> QED BY <1>1, <1>7, <1>b, <2>1, <2>2, <3>1, <3>2, <3>3
    <2>3. CASE type = "write"
      <3>1. c.readcnt = 0 /\ ~WithAddress(type) /\ Writes(type)
        BY <1>3, <2>3 DEF SizeFits, WithAddress, Writes
      <3>2. SubSeq(c.args, 1, bytes) = c.args
        BY <1>6, <1>b, <2>3, SubSeqFull
      <3>5. spid' = [spid EXCEPT !.out = c.args]
        BY <1>1, <2>3, <3>2
      <3>3. spid'.out = c.args /\ spid' \in [out : Seq(Nat), in : Answers]
        BY <1>6, <1>7, <3>5
      <3>4. <<0, 0, 0>> \in Seq(Nat)
        OBVIOUS
      <3> QED BY <1>1, <1>6, <2>1, <3>1, <3>3, <3>4
    <2>4. CASE type = "read_address"
      <3>0. 1 + Len(c.args) = 4
        BY <1>3, <2>4 DEF SizeFits, Writecnt
      <3>1. Len(c.args) = 3 /\ WithAddress(type) /\ ~Writes(type)
        <4>1. WithAddress(type) /\ ~Writes(type)
          BY <2>4 DEF WithAddress, Writes
        <4>2. \A l \in Nat : 1 + l = 4 => l = 3
          OBVIOUS
        <4> QED BY <2>1, <3>0, <4>1, <4>2
      <3>2. SubSeq(c.args, 1, 3) = c.args
        BY <1>6, <3>1, SubSeqFull
      <3> QED BY <1>1, <1>6, <1>7, <1>b, <2>1, <2>4, <3>1, <3>2
    <2>5. CASE type = "write_address"
      <3>1. Len(c.args) >= 3 /\ c.readcnt = 0 /\ WithAddress(type) /\ Writes(type)
        BY <1>3, <2>1, <2>5 DEF SizeFits, Writecnt, WithAddress, Writes
      <3>2. /\ SubSeq(c.args, 1, 3) \in Seq(Nat) /\ SubSeq(c.args, 4, Len(c.args)) \in Seq(Nat)
            /\ SubSeq(c.args, 1, 3) \o SubSeq(c.args, 4, Len(c.args)) = c.args
        BY <1>6, <3>1, SplitArgs
      <3>3. spid' = [spid EXCEPT !.out = SubSeq(c.args, 4, Len(c.args))]
            /\ spia' = SubSeq(c.args, 1, 3)
        BY <1>1, <1>b, <2>5, <3>1
      <3>4. spid'.out = SubSeq(c.args, 4, Len(c.args)) /\ spid' \in [out : Seq(Nat), in : Answers]
        BY <1>7, <3>2, <3>3
      <3> QED BY <3>1, <3>2, <3>3, <3>4
    <2> QED BY <1>4, <2>2, <2>3, <2>4, <2>5 DEF SpiTypes
  <1>10. /\ N' = N /\ Done' = Done /\ NoneHeld' = NoneHeld
         /\ \A n, j : Seen(n, j)' = Seen(n, j) /\ Entry(n, j)' = Entry(n, j)
    BY <1>1, SeenSame DEF N, Done, NoneHeld
  <1>11. cycle'.preops = preops /\ cycle'.index = oppos /\ cycle'.call = N /\ cycle'.readcnt = count
    BY <1>1, <1>5
  <1>12. Going' = Entry(N, Done + 1)
    <2>1. menu'.type[cycle'.index] = type /\ menu'.op[cycle'.index] = c.op
      BY <1>1, <1>4, <1>5, <1>11
    <2> HIDE DEF type, c, count, preops
    <2>2. Sent' = c.args
      BY <1>9, <2>1 DEF Sent
    <2> QED BY <1>2, <1>9, <1>11, <2>1, <2>2 DEF Going, Entry
  <1>13. FindOpcode(curopcodes, c.op) = oppos /\ (mark = 0 <=> NoneHeld)
    <2>1. NoneHeld => mark = 0
      BY <1>3 DEF NoneHeld
    <2>2. ~NoneHeld => mark # 0
      <3>1. ~NoneHeld => mark \in {1, 2}
        BY <1>2, <1>3 DEF SwInv, SwHeld
      <3> QED BY <3>1
    <2> QED BY <1>3, <2>1, <2>2
  <1>14. ~NoneHeld => Done > 0 /\ GoingPrefix' = Entry(N, Done)
    <2> SUFFICES ASSUME ~NoneHeld PROVE Done > 0 /\ GoingPrefix' = Entry(N, Done)
      OBVIOUS
    <2>1. Done > 0 /\ mark \in {1, 2} /\ curopcodes.preop[mark] = asked[N][Done].op
      BY <1>2, <1>13 DEF SwInv, SwHeld
    <2>2. curopcodes.preop \in Preops
          /\ asked[N][Done].op \in {curopcodes.preop[1], curopcodes.preop[2]}
      BY <2>1 DEF SwInv, SwTypes
    <2>3. asked[N][Done].args = <<>> /\ asked[N][Done].readcnt = 0
      <3>1. Done \in DOMAIN asked[N] /\ Done < Len(asked[N])
        BY <1>2, <2>1
      <3> QED BY <1>2, <2>2, <3>1, CallFacts
    <2> HIDE DEF type, c, count, mark
    <2>4. preops[1] = mark /\ menu'.preop[mark] = asked[N][Done].op
      BY <1>1, <1>4, <2>1
    <2> HIDE DEF preops
    <2> QED BY <1>11, <2>1, <2>3, <2>4 DEF GoingPrefix, Entry
  <1>15. (NoneHeld => Seen(N, Done)) /\ (~NoneHeld => Seen(N, Done - 1))
    BY <1>1, <1>2 DEF SwInv, SwSeen
  <1>16. \A n \in {N}, j \in {Done} : Pending(n, j + 1)'
    <2> TAKE n \in {N}, j \in {Done}
    <2>1. n = N /\ j = Done /\ j \in Nat /\ (j + 1) - 1 = j /\ (j + 1) - 2 = j - 1
      BY <1>2
    <2>2. j + 1 \in 1 .. Len(asked'[n])
      BY <1>1, <1>2, <2>1
    <2>3. Going' = Entry(n, j + 1)'
      BY <1>10, <1>12, <2>1
    <2>4. preops = <<>> <=> NoneHeld
      BY <1>13
    <2> HIDE DEF preops, mark, type, c, count
    <2>5. cycle'.preops = <<>> => Seen(n, (j + 1) - 1)'
      BY <1>10, <1>11, <1>15, <2>1, <2>4
    <2>6. cycle'.preops # <<>> =>
            j + 1 > 1 /\ GoingPrefix' = Entry(n, (j + 1) - 1)' /\ Seen(n, (j + 1) - 2)'
      BY <1>10, <1>11, <1>14, <1>15, <2>1, <2>4
    <2> QED BY <1>11, <2>1, <2>2, <2>3, <2>5, <2>6 DEF Pending
  <1> HIDE DEF preops, mark, count
  <1>17. SwTypes' /\ SwTable'
    <2> HIDE DEF type, c
    <2> QED BY <1>1, <1>8, <1>9 DEF SwInv, SwTypes, SwTable, Agrees
  <1>18. SwWalk'
    BY <1>1, <1>2, <1>3, <1>10 DEF SwInv, SwWalk
  <1>19. SwHeld'
    BY <1>1, <1>2, <1>10 DEF SwInv, SwHeld
  <1>20. cycle' # NoCycle
    BY <1>3, <1>11 DEF NoCycle, Slots
  <1>21. SwSeen'
    <2> SUFFICES ASSUME NEW n \in {N'}, NEW j \in {Done'} PROVE Pending(n, j + 1)'
      BY <1>1, <1>11, <1>20 DEF SwSeen
    <2> QED BY <1>10, <1>16
  <1>22. SwChip'
    <2>1. \A i \in 1 .. Len(chip) : chip[i].call \in 1 .. N
      BY DEF SwInv, SwChip
    <2>2. N \in 1 .. N /\ \A i \in 1 .. Len(chip) : chip[i].call <= N
      BY <1>2, <2>1
    <2>3. \E n \in 1 .. N : \E j \in 1 .. Len(asked'[n]) : Pending(n, j)'
      <3>1. \A n \in {N}, j \in {Done} : j + 1 \in 1 .. Len(asked'[n])
        BY <1>1, <1>2
      <3> QED BY <1>16, <2>2, <3>1
    <2>4. \A i, j \in 1 .. Len(chip) : i < j => chip[i].call <= chip[j].call
      BY DEF SwInv, SwChip
    <2>5. ~torn => \A n \in 1 .. N : \E j \in 0 .. Len(asked[n]) : Seen(n, j)
      BY DEF SwInv, SwChip
    <2> QED BY <1>1, <1>10, <1>11, <2>1, <2>2, <2>3, <2>4, <2>5 DEF SwChip
  <1>23. SwReason' /\ OwnAnswer'
    BY <1>1, <1>2 DEF SwInv, SwReason, OwnAnswer
  <1> QED BY <1>17, <1>18, <1>19, <1>21, <1>22, <1>23 DEF SwInv

-----------------------------------------------------------------------------
(* What the chip has seen of the other calls, and the order of the calls,   *)
(* when it receives a command of the cycle in progress.                     *)
LEMMA SwReceives ==
  ASSUME SwInv, cycle # NoCycle, NEW e \in Entries, e.call = cycle.call, chip' = Append(chip, e),
         asked' = asked, curopcodes' = curopcodes
  PROVE  /\ chip' \in Seq(Entries) /\ N \in Nat /\ cycle.call \in 1 .. N
         /\ \A i \in 1 .. Len(chip') : chip'[i].call \in 1 .. N /\ chip'[i].call <= cycle.call
         /\ \A i, j \in 1 .. Len(chip') : i < j => chip'[i].call <= chip'[j].call
         /\ \A n : \A j \in Nat : n # cycle.call /\ Seen(n, j) => Seen(n, j)'
         /\ \A n \in Nat : \A j \in Nat : n = cycle.call /\ e = Entry(n, j + 1) /\ Seen(n, j) => Seen(n, j + 1)'
  <1> DEFINE m == cycle.call
             l == Len(chip)
  <1>1. chip \in Seq(Entries) /\ N \in Nat
    BY AskedFacts DEF SwInv, SwTypes
  <1>2. /\ chip' \in Seq(Entries) /\ l \in Nat /\ Len(chip') = l + 1 /\ chip'[l + 1] = e
        /\ \A i \in 1 .. l : chip'[i] = chip[i]
    BY <1>1, Grows
  <1>3. /\ m \in 1 .. N /\ \A i \in 1 .. l : chip[i].call \in 1 .. N /\ chip[i].call <= m
        /\ \A i, j \in 1 .. l : i < j => chip[i].call <= chip[j].call
    BY DEF SwInv, SwChip
  <1>4. \A n : \A j \in Nat : n # m /\ Seen(n, j) => Seen(n, j)'
    BY <1>1, SeenOther
  <1>5. ASSUME NEW n \in Nat, NEW j \in Nat, n = m, e = Entry(n, j + 1), Seen(n, j)
        PROVE  Seen(n, j + 1)'
    <2>1. \A a \in 1 .. Len(chip) : chip[a].call <= n
      BY <1>3, <1>5
    <2> QED BY <1>1, <1>3, <1>5, <2>1, SeenMore
  <1> HIDE DEF m, l
  <1>6. e.call = m /\ m <= m
    BY <1>1, <1>3 DEF m
  <1>7. \A i \in 1 .. l + 1 : chip'[i].call \in 1 .. N /\ chip'[i].call <= m
    <2> TAKE i \in 1 .. l + 1
    <2>1. CASE i = l + 1
      BY <1>2, <1>3, <1>6, <2>1
    <2>2. CASE i # l + 1
      <3>1. i \in 1 .. l
        BY <1>2, <2>2
      <3> QED BY <1>2, <1>3, <3>1
    <2> QED BY <2>1, <2>2
  <1>8. \A i, j \in 1 .. l + 1 : i < j => chip'[i].call <= chip'[j].call
    <2> SUFFICES ASSUME NEW i \in 1 .. l + 1, NEW j \in 1 .. l + 1, i < j
                 PROVE  chip'[i].call <= chip'[j].call
      OBVIOUS
    <2>1. CASE j = l + 1
      BY <1>2, <1>6, <1>7, <2>1
    <2>2. CASE j # l + 1
      <3>1. i \in 1 .. l /\ j \in 1 .. l
        BY <1>2, <2>2
      <3> QED BY <1>2, <1>3, <3>1
    <2> QED BY <2>1, <2>2
  <1> QED BY <1>1, <1>2, <1>3, <1>4, <1>5, <1>7, <1>8 DEF m

(* How much of the last call is behind the host.                            *)
LEMMA SoFar ==
  ASSUME SwInv, N > 0
  PROVE  Done \in Nat /\ (~NoneHeld => Done - 1 \in Nat)
  <1>1. Len(asked[N]) \in Nat
    <2>1. N \in 1 .. N /\ \A n \in 1 .. N : asked[n] \in Calls
      BY AskedFacts DEF SwInv, SwTypes
    <2> QED BY <2>1, CallFacts
  <1>2. Len(cmds) \in Nat /\ Len(cmds) <= Len(asked[N])
    BY DEF SwInv, SwWalk
  <1>3. ~NoneHeld => Done > 0
    BY DEF SwInv, SwHeld
  <1>4. Len(asked[N]) - Len(cmds) \in Nat
    BY <1>1, <1>2
  <1> QED BY <1>3, <1>4 DEF Done

(* The controller sends the prefix.                                         *)
LEMMA SwSendsPreop ==
  ASSUME SwInv, SendPreop
  PROVE  SwInv'
  <1>1. /\ cycle # NoCycle /\ cycle.preops # <<>> /\ chip' = Append(chip, GoingPrefix)
        /\ cycle' = [cycle EXCEPT !.preops = <<>>]
        /\ UNCHANGED <<lock, bbar, curopcodes, asked, cmds, pc, oppos, ret, readarr, menu, cds,
                       fcerr, spia,
                       spid, failed, torn>>
    BY DEF SendPreop, hostVars, Received, GoingPrefix
  <1>2. cycle \in Cycles /\ curopcodes \in Tables /\ menu = ProgramOpcodes(curopcodes)
    BY <1>1 DEF SwInv, SwTypes
  <1>3. cycle.call \in Nat /\ cycle.index \in Slots /\ cycle.preops[1] \in {1, 2}
    BY <1>1, <1>2 DEF Cycles
  <1>4. cycle' \in Cycles /\ cycle'.preops = <<>> /\ cycle'.index = cycle.index
        /\ cycle'.call = cycle.call
        /\ cycle'.readcnt = cycle.readcnt
    BY <1>1, <1>2 DEF Cycles
  <1>5. cycle' # NoCycle
    BY <1>3, <1>4 DEF NoCycle, Slots
  <1>6. GoingPrefix \in Entries /\ GoingPrefix.call = cycle.call
    <2>1. menu.preop \in Opcodes \X Opcodes
      BY <1>2 DEF Tables, ProgramOpcodes
    <2>2. menu.preop[cycle.preops[1]] \in Opcodes
      BY <1>3, <2>1
    <2>3. <<>> \in Seq(Nat) /\ 0 \in Nat
      OBVIOUS
    <2> QED BY ONLY <1>3, <2>2, <2>3 DEF GoingPrefix, Entries
  <1> DEFINE e == GoingPrefix
  <1> HIDE DEF e
  <1>7. /\ chip' \in Seq(Entries) /\ N \in Nat /\ cycle.call \in 1 .. N
        /\ \A i \in 1 .. Len(chip') : chip'[i].call \in 1 .. N /\ chip'[i].call <= cycle.call
        /\ \A i, j \in 1 .. Len(chip') : i < j => chip'[i].call <= chip'[j].call
        /\ \A n : \A j \in Nat : n # cycle.call /\ Seen(n, j) => Seen(n, j)'
        /\ \A n \in Nat : \A j \in Nat : n = cycle.call /\ e = Entry(n, j + 1) /\ Seen(n, j) => Seen(n, j + 1)'
    <2>1. e \in Entries /\ e.call = cycle.call /\ chip' = Append(chip, e)
      BY <1>1, <1>6 DEF e
    <2> QED BY <1>1, <2>1, SwReceives
  <1>8. N' = N /\ Done' = Done /\ NoneHeld' = NoneHeld /\ Going' = Going /\ \A n, j : Entry(n, j)' = Entry(n, j)
    BY <1>1, <1>4 DEF N, Done, NoneHeld, Going, Sent, Entry
  <1>9. ASSUME NEW n, NEW j, Pending(n, j) PROVE Pending(n, j)' /\ Seen(n, j - 1)'
    <2>1. /\ cycle.call = n /\ j \in 1 .. Len(asked[n]) /\ Going = Entry(n, j)
          /\ j > 1 /\ e = Entry(n, j - 1) /\ Seen(n, j - 2)
      BY <1>1, <1>9 DEF Pending, e
    <2>2. j - 2 \in Nat /\ (j - 2) + 1 = j - 1 /\ n \in Nat
      BY <1>3, <2>1
    <2>3. Seen(n, j - 1)'
      <3>1. \A q \in {j - 2} : Seen(n, q + 1)'
        BY <1>7, <2>1, <2>2
      <3>2. \A q \in {j - 2} : q + 1 = j - 1
        BY <2>2
      <3> QED BY <3>1, <3>2
    <2> QED BY <1>1, <1>4, <1>8, <2>1, <2>3 DEF Pending
  <1>10. SwTypes' /\ SwTable'
    BY <1>1, <1>4, <1>7 DEF SwInv, SwTypes, SwTable, Agrees
  <1>11. SwWalk' /\ SwHeld'
    BY <1>1, <1>3, <1>7, <1>8 DEF SwInv, SwWalk, SwHeld
  <1>12. SwSeen'
    <2> SUFFICES ASSUME N > 0, NEW n \in {N}, NEW j \in {Done}
                 PROVE  /\ ret = 0 /\ pc # "poll" => (NoneHeld => Seen(n, j)') /\ (~NoneHeld => Seen(n, j - 1)')
                        /\ pc = "poll" => ~cds /\ ~fcerr /\ cycle.index = oppos /\ Pending(n, j + 1)'
      BY <1>1, <1>4, <1>5, <1>8 DEF SwSeen
    <2>1. ASSUME ret = 0, pc # "poll"
          PROVE  (NoneHeld => Seen(n, j)') /\ (~NoneHeld => Seen(n, j - 1)')
      <3>1. (NoneHeld => Seen(n, j)) /\ (~NoneHeld => Seen(n, j - 1))
        BY <2>1 DEF SwInv, SwSeen
      <3>2. n # cycle.call
        BY <1>1, <1>3, <1>7, <2>1 DEF SwInv, SwChip
      <3>3. j \in Nat /\ (~NoneHeld => j - 1 \in Nat)
        BY SoFar
      <3> QED BY <1>7, <3>1, <3>2, <3>3
    <2>2. ASSUME pc = "poll" PROVE ~cds /\ ~fcerr /\ cycle.index = oppos /\ Pending(n, j + 1)'
      <3>1. ~cds /\ ~fcerr /\ cycle.index = oppos /\ Pending(n, j + 1)
        BY <1>1, <2>2 DEF SwInv, SwSeen
      <3> QED BY <1>9, <3>1
    <2> QED BY <2>1, <2>2
  <1>13. SwChip'
    <2>1. ASSUME ~torn
          PROVE  /\ \A n \in 1 .. N : \E j \in 0 .. Len(asked[n]) : Seen(n, j)'
                 /\ \E n \in 1 .. N : \E j \in 1 .. Len(asked[n]) : Pending(n, j)'
      <3>1. PICK m \in 1 .. N : \E j \in 1 .. Len(asked[m]) : Pending(m, j)
        BY <1>1, <2>1 DEF SwInv, SwChip
      <3>2. PICK k \in 1 .. Len(asked[m]) : Pending(m, k)
        BY <3>1
      <3>3. Pending(m, k)' /\ Seen(m, k - 1)' /\ m = cycle.call /\ k - 1 \in 0 .. Len(asked[m])
        BY <1>9, <3>2 DEF Pending
      <3>4. ASSUME NEW n \in 1 .. N PROVE \E j \in 0 .. Len(asked[n]) : Seen(n, j)'
        <4>1. CASE n = m
          BY <3>3, <4>1
        <4>2. CASE n # m
          <5>1. PICK j \in 0 .. Len(asked[n]) : Seen(n, j)
            BY <2>1 DEF SwInv, SwChip
          <5>2. Seen(n, j)'
            BY <1>7, <3>3, <4>2, <5>1
          <5> QED BY <5>2
        <4> QED BY <4>1, <4>2
      <3> QED BY <3>2, <3>3, <3>4
    <2>2. pc # "poll" /\ ret = 0 => cycle.call < N
      BY <1>1 DEF SwInv, SwChip
    <2> QED BY <1>1, <1>4, <1>7, <1>8, <2>1, <2>2 DEF SwChip
  <1>14. SwReason' /\ OwnAnswer'
    BY <1>1, <1>8 DEF SwInv, SwReason, OwnAnswer, Sendable
  <1> QED BY <1>10, <1>11, <1>12, <1>13, <1>14 DEF SwInv

(* The controller sends the opcode, and the chip answers it.                *)
LEMMA SwSendsOpcode ==
  ASSUME SwInv, SendOpcode
  PROVE  SwInv'
  <1> DEFINE e == Going
             writes == Writes(menu.type[cycle.index])
  <1>1. /\ cycle # NoCycle /\ cycle.preops = <<>> /\ chip' = Append(chip, e)
        /\ cycle' = NoCycle /\ cds' = TRUE
        /\ spid' = (IF writes THEN spid ELSE [spid EXCEPT !.in = Last(chip')])
        /\ UNCHANGED <<lock, bbar, curopcodes, asked, cmds, pc, oppos, ret, readarr, menu, fcerr,
                       spia,
                       failed, torn>>
    BY DEF SendOpcode, hostVars, Received, Going
  <1>2. /\ cycle \in Cycles /\ curopcodes \in Tables /\ menu = ProgramOpcodes(curopcodes)
        /\ spia \in Seq(Nat) /\ spid \in [out : Seq(Nat), in : Answers]
    BY <1>1 DEF SwInv, SwTypes
  <1>3. e \in Entries /\ e.call = cycle.call /\ cycle.call \in Nat /\ cycle.index \in Slots
    <2>1. cycle.call \in Nat /\ cycle.index \in Slots /\ cycle.readcnt \in Nat
      BY <1>2 DEF Cycles
    <2>2. menu.op[cycle.index] \in Opcodes
      BY <1>2, <2>1 DEF Tables, ProgramOpcodes
    <2>3. Sent \in Seq(Nat)
      <3> DEFINE a == IF WithAddress(menu.type[cycle.index]) THEN spia ELSE <<>>
                 b == IF writes THEN spid.out ELSE <<>>
      <3>1. a \in Seq(Nat) /\ b \in Seq(Nat)
        BY <1>2
      <3>2. Sent = a \o b
        BY DEF Sent
      <3> HIDE DEF a, b
      <3> QED BY <3>1, <3>2
    <2> QED BY <2>1, <2>2, <2>3 DEF Going, Entries
  <1> HIDE DEF e
  <1>4. /\ chip' \in Seq(Entries) /\ N \in Nat /\ cycle.call \in 1 .. N
        /\ \A i \in 1 .. Len(chip') : chip'[i].call \in 1 .. N /\ chip'[i].call <= cycle.call
        /\ \A i, j \in 1 .. Len(chip') : i < j => chip'[i].call <= chip'[j].call
        /\ \A n : \A j \in Nat : n # cycle.call /\ Seen(n, j) => Seen(n, j)'
        /\ \A n \in Nat : \A j \in Nat : n = cycle.call /\ e = Entry(n, j + 1) /\ Seen(n, j) => Seen(n, j + 1)'
    BY <1>1, <1>3, SwReceives
  <1>5. N' = N /\ Done' = Done /\ NoneHeld' = NoneHeld /\ \A n, j : Entry(n, j)' = Entry(n, j)
    BY <1>1 DEF N, Done, NoneHeld, Entry
  <1>6. ASSUME NEW n, NEW j, Pending(n, j) PROVE e = Entry(n, j) /\ Seen(n, j)' /\ cycle.call = n
    <2>1. cycle.call = n /\ j \in 1 .. Len(asked[n]) /\ e = Entry(n, j) /\ Seen(n, j - 1)
      BY <1>1, <1>6 DEF Pending, e
    <2>2. j - 1 \in Nat /\ (j - 1) + 1 = j /\ n \in Nat
      BY <1>3, <2>1
    <2>3. \A q \in {j - 1} : Seen(n, q + 1)'
      BY <1>4, <2>1, <2>2
    <2>4. \A q \in {j - 1} : q + 1 = j
      BY <2>2
    <2> QED BY <2>1, <2>3, <2>4
  <1>7. spid' \in [out : Seq(Nat), in : Answers] /\ (~writes => spid'.in = e)
    <2>1. CASE writes
      BY <1>1, <1>2, <2>1
    <2>2. CASE ~writes
      <3>1. Last(chip') = e
        <4>1. chip'[Len(chip')] = e
          BY <1>1, <1>3, AppendProperties DEF SwInv, SwTypes
        <4> QED BY <4>1 DEF Last
      <3>2. spid' = [spid EXCEPT !.in = e]
        BY <1>1, <2>2, <3>1
      <3> QED BY <1>2, <1>3, <2>2, <3>2 DEF Answers
    <2> QED BY <2>1, <2>2
  <1>8. SwTypes' /\ SwTable'
    BY <1>1, <1>4, <1>7 DEF SwInv, SwTypes, SwTable, Agrees
  <1>9. SwWalk' /\ SwHeld'
    BY <1>1, <1>3, <1>4, <1>5 DEF SwInv, SwWalk, SwHeld
  <1>10. SwSeen'
    <2> SUFFICES ASSUME N > 0, NEW n \in {N}, NEW j \in {Done}
                 PROVE  /\ ret = 0 /\ pc # "poll" => (NoneHeld => Seen(n, j)') /\ (~NoneHeld => Seen(n, j - 1)')
                        /\ pc = "poll" /\ ~fcerr =>
                             Seen(n, j + 1)' /\ (Writes(curopcodes.type[oppos]) \/ spid'.in = Entry(n, j + 1)')
                        /\ pc = "poll" /\ fcerr => failed
      BY <1>1, <1>5 DEF SwSeen
    <2>1. ASSUME ret = 0, pc # "poll"
          PROVE  (NoneHeld => Seen(n, j)') /\ (~NoneHeld => Seen(n, j - 1)')
      <3>1. (NoneHeld => Seen(n, j)) /\ (~NoneHeld => Seen(n, j - 1))
        BY <2>1 DEF SwInv, SwSeen
      <3>2. n # cycle.call
        BY <1>1, <1>3, <1>4, <2>1 DEF SwInv, SwChip
      <3>3. j \in Nat /\ (~NoneHeld => j - 1 \in Nat)
        BY SoFar
      <3> QED BY <1>4, <3>1, <3>2, <3>3
    <2>2. ASSUME pc = "poll"
          PROVE  /\ Seen(n, j + 1)'
                 /\ (Writes(curopcodes.type[oppos]) \/ spid'.in = Entry(n, j + 1)')
                 /\ fcerr => failed
      <3>1. cycle.index = oppos /\ Pending(n, j + 1) /\ (fcerr => failed)
        BY <1>1, <2>2 DEF SwInv, SwSeen
      <3>2. menu.type[cycle.index] = curopcodes.type[oppos]
        BY <1>2, <3>1 DEF ProgramOpcodes
      <3> QED BY <1>5, <1>6, <1>7, <3>1, <3>2
    <2> QED BY <2>1, <2>2
  <1>11. SwChip'
    <2>1. ASSUME ~torn, NEW n \in 1 .. N PROVE \E j \in 0 .. Len(asked[n]) : Seen(n, j)'
      <3>1. PICK m \in 1 .. N : \E j \in 1 .. Len(asked[m]) : Pending(m, j)
        BY <1>1, <2>1 DEF SwInv, SwChip
      <3>2. PICK k \in 1 .. Len(asked[m]) : Pending(m, k)
        BY <3>1
      <3>3. Seen(m, k)' /\ m = cycle.call /\ k \in 0 .. Len(asked[m])
        BY <1>6, <3>2
      <3>4. CASE n = m
        BY <3>3, <3>4
      <3>5. CASE n # m
        <4>1. PICK j \in 0 .. Len(asked[n]) : Seen(n, j)
          BY <2>1 DEF SwInv, SwChip
        <4>2. Seen(n, j)'
          BY <1>4, <3>3, <3>5, <4>1
        <4> QED BY <4>2
      <3> QED BY <3>4, <3>5
    <2> QED BY <1>1, <1>4, <1>5, <2>1 DEF SwChip
  <1>12. SwReason' /\ OwnAnswer'
    BY <1>1, <1>5 DEF SwInv, SwReason, OwnAnswer, Sendable
  <1> QED BY <1>8, <1>9, <1>10, <1>11, <1>12 DEF SwInv

(* The controller fails.                                                    *)
LEMMA SwFails ==
  ASSUME SwInv, CycleFails
  PROVE  SwInv'
  <1>1. /\ cycle # NoCycle /\ fcerr' = TRUE /\ cycle' = NoCycle /\ failed' = TRUE
        /\ UNCHANGED <<lock, bbar, curopcodes, asked, cmds, pc, oppos, ret, readarr, menu, cds,
                       spia, spid,
                       chip, torn>>
    BY DEF CycleFails, hostVars
  <1>2. /\ N' = N /\ Done' = Done /\ NoneHeld' = NoneHeld
        /\ \A n, j : Seen(n, j)' = Seen(n, j) /\ Entry(n, j)' = Entry(n, j)
    BY <1>1, SeenSame DEF N, Done, NoneHeld
  <1>3. SwTypes' /\ SwTable'
    BY <1>1 DEF SwInv, SwTypes, SwTable, Agrees
  <1>4. SwWalk' /\ SwHeld'
    BY <1>1, <1>2 DEF SwInv, SwWalk, SwHeld
  <1>5. SwSeen'
    BY <1>1, <1>2 DEF SwInv, SwSeen
  <1>6. SwChip'
    BY <1>1, <1>2 DEF SwInv, SwChip
  <1>7. SwReason' /\ OwnAnswer'
    BY <1>1, <1>2 DEF SwInv, SwReason, OwnAnswer
  <1> QED BY <1>3, <1>4, <1>5, <1>6, <1>7 DEF SwInv

(* Nothing happens.                                                         *)
LEMMA SwStays ==
  ASSUME SwInv, UNCHANGED vars
  PROVE  SwInv'
  <1>1. UNCHANGED <<lock, bbar, curopcodes, asked, cmds, pc, oppos, ret, readarr, menu, cycle,
                    cds, fcerr, spia,
                    spid, chip, failed, torn>>
    BY DEF vars, hostVars, ctrlVars
  <1>2. /\ N' = N /\ Done' = Done /\ NoneHeld' = NoneHeld /\ Going' = Going
        /\ GoingPrefix' = GoingPrefix
        /\ \A n, j : Seen(n, j)' = Seen(n, j) /\ Entry(n, j)' = Entry(n, j)
    BY <1>1, SeenSame DEF N, Done, NoneHeld, Going, GoingPrefix, Sent
  <1>3. \A n, j : Pending(n, j)' = Pending(n, j)
    BY <1>1, <1>2 DEF Pending
  <1>4. SwTypes' /\ SwTable'
    BY <1>1 DEF SwInv, SwTypes, SwTable, Agrees
  <1>5. SwWalk' /\ SwHeld'
    BY <1>1, <1>2 DEF SwInv, SwWalk, SwHeld
  <1>6. SwSeen'
    BY <1>1, <1>2, <1>3 DEF SwInv, SwSeen
  <1>7. SwChip'
    BY <1>1, <1>2, <1>3 DEF SwInv, SwChip
  <1>8. SwReason' /\ OwnAnswer'
    BY <1>1, <1>2 DEF SwInv, SwReason, OwnAnswer, Sendable
  <1> QED BY <1>4, <1>5, <1>6, <1>7, <1>8 DEF SwInv

(* The menu at the start, the firmware's or the one the program makes.      *)
LEMMA SwMenu ==
  ASSUME Init
  PROVE  /\ lock \in BOOLEAN /\ curopcodes \in Tables /\ curopcodes.preop \in Preops
         /\ menu = ProgramOpcodes(curopcodes) /\ SwTable /\ NoneHeld
  <1>1. lock \in BOOLEAN
    BY DEF Init
  <1>2. CASE lock
    <2>1. menu \in LockedMenus /\ curopcodes = GenerateOpcodes(menu)
      BY <1>2 DEF Init
    <2>2. PICK p, o, y : /\ menu = [preop |-> p, op |-> o, type |-> y]
                         /\ p \in Opcodes \X Opcodes /\ o \in [Slots -> Opcodes]
                         /\ y \in [Slots -> SpiTypes]
      <3>1. menu \in Menus
        BY <2>1, CallsAssumption DEF CallsAssumption
      <3> QED BY <3>1 DEF Menus
    <2> DEFINE none == [i \in Slots |-> 0]
    <2>3. none \in [Slots -> 0 .. 2] /\ \A s \in Slots : none[s] = 0
      OBVIOUS
    <2>4. curopcodes = [preop |-> p, op |-> o, type |-> y, atomic |-> none]
      BY <2>1, <2>2 DEF GenerateOpcodes
    <2> HIDE DEF none
    <2>5. curopcodes \in Tables /\ menu = ProgramOpcodes(curopcodes) /\ NoneHeld
          /\ curopcodes.preop = p
      BY <2>2, <2>3, <2>4 DEF Tables, ProgramOpcodes, NoneHeld
    <2>6. p \in Preops
      BY <2>1, <2>2 DEF Preops
    <2> QED BY <1>1, <1>2, <2>5, <2>6 DEF SwTable
  <1>3. CASE ~lock
    <2>1. curopcodes = O_ST_M25P /\ menu = ProgramOpcodes(O_ST_M25P)
      BY <1>3 DEF Init
    <2> DEFINE o == [i \in Slots |-> DefaultOps[i + 1]]
               y == [i \in Slots |-> PossibleOpcodes[DefaultOps[i + 1]]]
               none == [i \in Slots |-> 0]
    <2>2. O_ST_M25P = [preop |-> <<"WREN", "EWSR">>, op |-> o, type |-> y, atomic |-> none]
      BY DEF O_ST_M25P
    <2>3. none \in [Slots -> 0 .. 2] /\ \A s \in Slots : none[s] = 0
      OBVIOUS
    <2>4. <<"WREN", "EWSR">> \in Opcodes \X Opcodes
      BY CallsAssumption DEF CallsAssumption
    <2>5. O_ST_M25P.op = o /\ O_ST_M25P.type = y
      BY <2>2
    <2>6. o \in [Slots -> Opcodes] /\ y \in [Slots -> SpiTypes]
      <3>1. \A s \in Slots : O_ST_M25P.op[s] \in Opcodes /\ O_ST_M25P.type[s] \in SpiTypes
        BY Guess
      <3>2. \A s \in Slots : O_ST_M25P.op[s] = DefaultOps[s + 1]
                             /\ O_ST_M25P.type[s] = PossibleOpcodes[DefaultOps[s + 1]]
        BY <2>5
      <3> QED BY <3>1, <3>2
    <2> HIDE DEF o, y, none
    <2>7. O_ST_M25P \in Tables /\ NoneHeld
      BY <2>1, <2>2, <2>3, <2>4, <2>6 DEF Tables, NoneHeld
    <2>8. Agrees(O_ST_M25P)
      <3> SUFFICES ASSUME NEW k \in Calls, NEW i \in DOMAIN k, NEW s \in Slots,
                          k[i].op = O_ST_M25P.op[s]
                   PROVE  O_ST_M25P.type[s] = SpiType(k[i])
        BY DEF Agrees
      <3>1. O_ST_M25P.op[s] \in DOMAIN PossibleOpcodes
            /\ O_ST_M25P.type[s] = PossibleOpcodes[O_ST_M25P.op[s]]
        BY Guess
      <3> HIDE DEF O_ST_M25P
      <3>2. k[i].op \in DOMAIN PossibleOpcodes
        BY <3>1
      <3>3. SpiType(k[i]) = PossibleOpcodes[k[i].op]
        BY ONLY <3>2 DEF SpiType
      <3> QED BY <3>1, <3>3
    <2>9. O_ST_M25P.preop \in Preops
      BY DEF Preops
    <2> QED BY <1>1, <2>1, <2>7, <2>8, <2>9 DEF SwTable
  <1> QED BY <1>1, <1>2, <1>3

(* The first states satisfy the invariant.                                  *)
LEMMA SwStart == Init => SwInv
  <1> SUFFICES ASSUME Init PROVE SwInv
    OBVIOUS
  <1>1. /\ asked = <<>> /\ cmds = <<>> /\ pc = "idle" /\ ret = 0 /\ cycle = NoCycle /\ cds = FALSE
        /\ fcerr = FALSE /\ spia = <<>> /\ spid = [out |-> <<>>, in |-> Nothing]
        /\ readarr = [to |-> Nothing, from |-> Nothing] /\ chip = <<>> /\ failed = FALSE
        /\ torn = FALSE
    BY DEF Init
  <1>2. Len(asked) = 0 /\ Len(chip) = 0 /\ \A S : <<>> \in Seq(S)
    BY <1>1
  <1>3. N = 0 /\ ~(N > 0) /\ 1 .. N = {} /\ 1 .. Len(chip) = {}
    BY <1>2 DEF N
  <1>4. SwTypes
    <2>1. [out |-> <<>>, in |-> Nothing] \in [out : Seq(Nat), in : Answers]
      BY <1>2 DEF Answers
    <2> QED BY <1>1, <1>2, <2>1, SwMenu DEF SwTypes
  <1>5. SwWalk /\ SwHeld /\ SwSeen /\ SwReason
    BY <1>1, <1>3, SwMenu DEF SwWalk, SwHeld, SwSeen, SwReason
  <1>6. SwChip /\ OwnAnswer
    BY <1>1, <1>3 DEF SwChip, OwnAnswer
  <1> QED BY <1>4, <1>5, <1>6, SwMenu DEF SwInv

(* Every step keeps it.                                                     *)
LEMMA SwNextInv == SwInv /\ [Next]_vars => SwInv'
  <1> SUFFICES ASSUME SwInv, [Next]_vars PROVE SwInv'
    OBVIOUS
  <1>1. CASE Call \/ Return \/ IgnorePreop \/ ReprogramForPreop
    BY <1>1, SwCalls, SwReturns, SwIgnores, SwReprograms
  <1>2. CASE PairPreop \/ Refuse \/ Accept
    BY <1>2, SwPairs, SwRefuses, SwAccepts
  <1>3. CASE ScipTimeout \/ PollTimeout \/ CycleError
    BY <1>3, SwGivesUp
  <1>4. CASE Start \/ CycleDone
    BY <1>4, SwStarts, SwDone
  <1>5. CASE SendPreop \/ SendOpcode \/ CycleFails
    BY <1>5, SwSendsPreop, SwSendsOpcode, SwFails
  <1>6. CASE UNCHANGED vars
    BY <1>6, SwStays
  <1> QED BY <1>1, <1>2, <1>3, <1>4, <1>5, <1>6 DEF Next, Host, Controller

(* What the invariant says of the wire, of the answers and of refusals.     *)
LEMMA SwGives == SwInv => AsAsked /\ InOrder /\ OwnAnswer /\ UnlockedTakesAll
  <1> SUFFICES ASSUME SwInv PROVE AsAsked /\ InOrder /\ OwnAnswer /\ UnlockedTakesAll
    OBVIOUS
  <1>1. AsAsked
    <2> SUFFICES ASSUME pc = "idle", N > 0, ret = 0 PROVE Seen(N, Len(asked[N]))
      BY DEF AsAsked, N
    <2>1. cmds = <<>> /\ NoneHeld
      BY DEF SwInv, SwWalk, SwHeld
    <2>2. Done = Len(asked[N])
      <3>1. Len(asked[N]) \in Nat
        <4>1. N \in 1 .. N /\ \A n \in 1 .. N : asked[n] \in Calls
          BY AskedFacts DEF SwInv, SwTypes
        <4> QED BY <4>1, CallFacts
      <3>2. Len(cmds) = 0
        BY <2>1
      <3> QED BY <3>1, <3>2 DEF Done
    <2>3. Seen(N, Done)
      BY <2>1 DEF SwInv, SwSeen
    <2> QED BY <2>2, <2>3
  <1>2. InOrder
    BY DEF SwInv, SwChip, InOrder, N
  <1>3. UnlockedTakesAll
    <2>1. ret \in {0, 1} /\ (N > 0 /\ ret # 0 => failed \/ lock \/ \E i \in 1 .. Len(asked[N]) : ~Sendable(asked[N][i]))
      BY DEF SwInv, SwTypes, SwReason
    <2> QED BY <2>1 DEF UnlockedTakesAll, N
  <1> QED BY <1>1, <1>2, <1>3 DEF SwInv

-----------------------------------------------------------------------------
(* The two ways of sequencing, of which a run uses one                      *)

IchInv ==
  /\ SwInv /\ mode \in {"swseq", "hwseq"}
  /\ mode = "swseq" => result = "none"
  /\ mode = "hwseq" => HwInv

(* A call there is none of yet: of hardware sequencing that is not used.    *)
LEMMA IdleCall ==
  ASSUME Idle
  PROVE  result = "none" /\ OpaqueCall!Init
  <1>1. job \in Jobs
    <2>1. PICK d \in Data : TRUE
      BY PartitionsAssumption DEF PartitionsAssumption
    <2> DEFINE j == [fn |-> "read", addr |-> 0, len |-> 1, data |-> d]
    <2>2. TotalSize \in Nat \ {0}
      BY SizeFacts
    <2>3. 0 \in FAddr /\ 1 \in 1 .. TotalSize /\ 0 + 1 <= TotalSize
      BY <2>2 DEF FAddr
    <2>4. j \in Jobs
      BY <2>3 DEF Jobs
    <2> HIDE DEF j
    <2> QED BY <2>4 DEF Idle
  <1>2. flash \in Data
    BY PartitionsAssumption DEF PartitionsAssumption, Idle
  <1>3. flash \in [FAddr -> {0, 1}]
    BY <1>2, PartitionsAssumption DEF PartitionsAssumption
  <1>4. /\ job.fn \in {"read", "write", "erase"} /\ Bytes(job) \subseteq FAddr
        /\ job.data \in [FAddr -> {0, 1}]
    BY <1>1, HwJobFacts
  <1>5. result = "none" /\ told = TRUE
    BY DEF Idle
  <1> QED BY <1>3, <1>4, <1>5 DEF OpaqueCall!Init

(* At the start no call of hardware sequencing has returned.                *)
LEMMA IchStart == IchInit => IchInv /\ result = "none" /\ OpaqueCall!Init
  <1> SUFFICES ASSUME IchInit PROVE IchInv /\ result = "none" /\ OpaqueCall!Init
    OBVIOUS
  <1>1. SwInv
    BY SwStart DEF IchInit
  <1>2. CASE mode = "swseq" /\ Idle
    BY <1>1, <1>2, IdleCall DEF IchInv
  <1>3. CASE mode = "hwseq" /\ HwInit
    BY <1>1, <1>3, HwStart, HwCallInit DEF IchInv, HwInit
  <1> QED BY <1>2, <1>3 DEF IchInit

(* A step is one of the way that is used, which leaves the other as it is.  *)
LEMMA IchCases ==
  ASSUME IchInv, [IchNext]_ichVars
  PROVE  /\ [Next]_vars /\ mode' = mode
         /\ mode = "swseq" => UNCHANGED hwVars
         /\ mode = "hwseq" => [HwNext]_hwVars
  BY DEF IchInv, IchNext, ichVars

(* Every step keeps the invariant, and steps of the call refine ChipCall.   *)
LEMMA IchNextInv ==
  IchInv /\ [IchNext]_ichVars => IchInv' /\ [OpaqueCall!Next]_(OpaqueCall!vars)
  <1> SUFFICES ASSUME IchInv, [IchNext]_ichVars
               PROVE  IchInv' /\ [OpaqueCall!Next]_(OpaqueCall!vars)
    OBVIOUS
  <1>1. /\ [Next]_vars /\ mode' = mode /\ (mode = "swseq" => UNCHANGED hwVars)
        /\ (mode = "hwseq" => [HwNext]_hwVars)
    BY IchCases
  <1>2. SwInv'
    BY <1>1, SwNextInv DEF IchInv
  <1>3. CASE mode = "swseq"
    <2>1. job' = job /\ flash' = flash /\ result' = result /\ told' = told
      BY <1>1, <1>3 DEF hwVars, hwHost, hwCtrl
    <2>2. UNCHANGED OpaqueCall!vars
      BY <2>1, HwSame DEF OpaqueCall!vars
    <2> QED BY <1>1, <1>2, <1>3, <2>1, <2>2 DEF IchInv
  <1>4. CASE mode = "hwseq"
    <2>1. HwInv /\ [HwNext]_hwVars
      BY <1>1, <1>4 DEF IchInv
    <2> QED BY <1>1, <1>2, <1>4, <2>1, HwNextInv, HwCallStep DEF IchInv
  <1> QED BY <1>3, <1>4 DEF IchInv

(* The blocks of the layout are taken, in either mode.                      *)
LEMMA IchFits ==
  ASSUME Aligned
  PROVE  IchInv /\ LayoutFits /\ [IchNext]_ichVars => LayoutFits'
  <1> SUFFICES ASSUME IchInv, LayoutFits, [IchNext]_ichVars PROVE LayoutFits'
    OBVIOUS
  <1>1. /\ mode = "swseq" => UNCHANGED hwVars
        /\ mode = "hwseq" => [HwNext]_hwVars
    BY IchCases
  <1>2. CASE mode = "swseq"
    <2>1. result' = result
      BY <1>1, <1>2 DEF hwVars, hwHost
    <2> QED BY <1>2, <2>1 DEF IchInv, LayoutFits
  <1>3. CASE mode = "hwseq"
    BY <1>1, <1>3, HwFits DEF IchInv
  <1> QED BY <1>2, <1>3 DEF IchInv

(* The commands of a call reach the chip in their order, each once and with *)
(* its prefix: on a menu that is locked or rewritten as the host goes, with *)
(* a controller that is slow or fails. A call that returns 0 has sent all.  *)
THEOREM CommandsReachTheChip == IchSpec => []OnTheWire
  <1>1. IchInit => IchInv
    BY IchStart
  <1>2. IchInv /\ [IchNext]_ichVars => IchInv'
    BY IchNextInv
  <1>3. IchInv => OnTheWire
    BY SwGives DEF IchInv, OnTheWire
  <1> QED BY <1>1, <1>2, <1>3, PTL DEF IchSpec

(* What a read returns is the answer to this read, in either mode: with     *)
(* hardware sequencing, if no earlier cycle was in progress when the flags  *)
(* were cleared.                                                            *)
THEOREM AnswersAreOwn == IchSpec => []ReadsAreOwn
  <1>1. IchInit => IchInv
    BY IchStart
  <1>2. IchInv /\ [IchNext]_ichVars => IchInv'
    BY IchNextInv
  <1>3. IchInv => ReadsAreOwn
    <2>1. IchInv => OwnAnswer
      BY SwGives DEF IchInv
    <2>2. IchInv => HwReadResult
      <3>1. result = "none" => HwReadResult
        BY DEF HwReadResult
      <3> QED BY <3>1, HwReadFollows DEF IchInv
    <2> QED BY <2>1, <2>2 DEF ReadsAreOwn
  <1> QED BY <1>1, <1>2, <1>3, PTL DEF IchSpec

(* Nothing that the controller can do is refused, if the blocks of the      *)
(* upper partition are at multiples of their size.                          *)
THEOREM NothingRefused ==
  ASSUME Aligned
  PROVE  IchSpec => []AllTaken
  <1>1. IchInit => IchInv /\ LayoutFits
    BY IchStart DEF LayoutFits
  <1>2. IchInv /\ LayoutFits /\ [IchNext]_ichVars => IchInv' /\ LayoutFits'
    BY IchNextInv, IchFits
  <1>3. IchInv /\ LayoutFits => AllTaken
    BY SwGives DEF IchInv, AllTaken
  <1> QED BY <1>1, <1>2, <1>3, PTL DEF IchSpec

(* A call in hardware sequencing does what the write engine may expect of   *)
(* it, for any range, chunk size and partitions.                            *)
THEOREM HwCallRefines == IchSpec => ImplementsCall
  <1>1. IchInit => IchInv /\ OpaqueCall!Init
    BY IchStart
  <1>2. IchInv /\ [IchNext]_ichVars => IchInv' /\ [OpaqueCall!Next]_(OpaqueCall!vars)
    BY IchNextInv
  <1> QED BY <1>1, <1>2, PTL DEF IchSpec, ImplementsCall, OpaqueCall!Spec
=============================================================================
