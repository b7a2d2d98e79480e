------------------------- MODULE ParallelChipsProofs -------------------------
(***************************************************************************)
(* Theorems about ParallelChips, for every chip, call and number of        *)
(* failures: in three parts, about ParallelCommands, about ParallelLocks,  *)
(* and about the two composed.                                             *)
(***************************************************************************)
EXTENDS ParallelChips, TLAPS

-----------------------------------------------------------------------------
(* The inductive invariant of ParallelCommands *)

IsSequence(s) == Len(s) \in Nat /\ s = [i \in 1 .. Len(s) |-> s[i]]

CommandTypes ==
  /\ job \in Jobs /\ pos \in job.start .. End
  /\ tmp1 \in Val /\ polls \in 0 .. MaxPolls
  /\ tried \in 0 .. MaxTries /\ failed \in BOOLEAN /\ result \in {"none", "0", "error"}
  /\ pc \in {"loop", "send", "toggle", "reset", "check", "returned"}
  /\ mem \in [Addr -> Val] /\ dq6 \in Val /\ shows \in {"array", "status"}
  /\ load \subseteq Addr /\ IsSequence(seq)
  /\ failures \in 0 .. MaxFailures /\ late \in BOOLEAN /\ weak \in BOOLEAN

(* The cycles of the command at hand, what it is to change, and the codes   *)
(* the chip goes by, with what the host writes before them.                 *)
Command ==
  CASE job.function \in SectorErases -> SectorCycles
    [] job.function \in ChipErases -> ChipCycles
    [] job.function \in ByteWrites -> ByteCycles
    [] OTHER -> PageCycles
Target ==
  CASE job.function \in SectorErases -> BlockOf(BlockSize, job.start)
    [] job.function \in ChipErases -> Addr
    [] job.function \in ByteWrites -> BlockOf(Step(job.function), pos)
    [] OTHER -> BlockOf(PageSize, pos)
Key ==
  CASE job.function \in {"erase_sector_jedec", "block_erase_m29f400bt"} -> EraseCodes("30")
    [] job.function \in {"erase_chip_block_jedec", "block_erase_chip_m29f400bt"} -> EraseCodes("10")
    [] job.function \in {"erase_sector_28sf040", "erase_block_82802ab"} -> <<"20", "D0">>
    [] job.function = "erase_sector_49lfxxxc" -> <<"30", "D0">>
    [] job.function = "erase_chip_28sf040" -> <<"30", "30">>
    [] job.function = "write_82802ab" -> <<"40", "data">>
    [] job.function = "write_28sf040" -> <<"10", "data">>
    [] OTHER -> <<"AA", "55", "A0", "data">>
Clears == IF job.function = "erase_block_82802ab" THEN 1 ELSE 0
Full == Clears + Len(Key)
Sent == Len(Command) - Len(cycles)

(* What the chip has heard after n cycles, if it was listening.             *)
Heard(n) ==
  IF n <= Clears THEN << >>
  ELSE IF n < Full THEN SubSeq(Key, 1, n - Clears)
  ELSE IF Paged THEN <<"AA", "55", "A0">> ELSE << >>

(* Where the loop of the function is.                                       *)
Walk ==
  /\ result = "none" <=> pc # "returned"
  /\ pc \in {"send", "toggle", "reset", "check"} => pos < End
  /\ pos % Step(job.function) = 0
  /\ Paged => pos % PageSize = 0
  /\ job.function \in Erases => pos = job.start
  /\ job.function \in ChipErases /\ pc \in {"send", "toggle", "reset", "check"} =>
       job.start = 0 /\ job.len = Size
  /\ pc = "toggle" => ~Intel
  /\ pc = "reset" => Intel
  /\ tried > 0 => job.function \notin Unchecked /\ pos < End
  /\ failed => job.function = "write_jedec_1"
  /\ job.function = "write_jedec_1" /\ (tried > 0 \/ pc \in {"send", "toggle", "check"}) =>
       job.data[pos] = 0
  /\ job.function \in Erases /\ (pc = "loop" \/ (pc = "send" /\ Sent < Full)) => ~late /\ ~weak

OnTheWay ==
  /\ pc = "send" =>
       /\ Len(cycles) <= Len(Command)
       /\ cycles = [i \in 1 .. Len(cycles) |-> Command[Sent + i]]
       /\ Codes(seq) \in {<< >>, Heard(Sent)}
  /\ pc # "send" => cycles = << >> /\ seq = << >>
  /\ Working => seq = << >>

(* Whatever the chip takes for a command changes only what it may.          *)
MayBecome(f) ==
  \A a \in DOMAIN f :
    /\ f[a] \in Val
    /\ IF job.function \in Erases THEN f[a] = 1
       ELSE IF Paged THEN f[a] \in {1, job.data[a]}
       ELSE f[a] = IF job.data[a] = 0 THEN 0 ELSE mem[a]
Confined ==
  /\ DOMAIN busy \subseteq Cells /\ MayBecome(busy)
  /\ job.function \notin Erases => \A a \in Cells : job.data[a] = 1 => mem[a] = 1
  /\ load # {} =>
       /\ Paged /\ busy = Idle /\ pc \in {"send", "toggle"}
       /\ load \subseteq {a \in BlockOf(PageSize, pos) : job.data[a] = 0}
       /\ pc = "send" => Sent >= Full
  /\ ~failed /\ job.function \notin Unchecked /\ busy # Idle => DOMAIN busy = Target /\ pos < End

(* A chip at work is waited for.                                            *)
WaitsFor ==
  /\ ~Intel => shows = "array"
  /\ Intel => ~late /\ (busy # Idle => shows = "status")
  /\ pc = "toggle" /\ Working => tmp1 = 1 - dq6
  /\ pc \in {"check", "loop", "returned"} /\ ~late => ~Working /\ shows = "array"
  /\ pc = "reset" => ~Working

(* The effect of the command is there, or a failure accounts for it.        *)
Effects(f) ==
  \A a \in Target :
    a \in DOMAIN f /\ (IF job.function \in Erases THEN f[a] = 1 ELSE job.data[a] = 0 => f[a] = 0)
Fault == IF job.function \in Unchecked THEN weak ELSE failures > tried
SentData == {a \in BlockOf(PageSize, pos) : a < pos + Sent - 3 /\ job.data[a] = 0}
OnTrack ==
  /\ ~late /\ ~Fault /\ pc = "send" =>
       \/ Sent < Full /\ ~Working /\ Codes(seq) = Heard(Sent)
       \/ Sent >= Full /\ ~Paged /\ load = {} /\ Effects(Outcome)
       \/ Sent >= Full /\ Paged /\ ~Working /\ SentData = {} /\ Codes(seq) = Heard(Sent)
       \/ Sent >= Full /\ Paged /\ busy = Idle /\ load = SentData /\ load # {}
       \/ Sent >= Full /\ Paged /\ load = {} /\ Effects(Outcome)
            /\ \A i \in DOMAIN cycles : Skipped(cycles[i])
  /\ ~late /\ ~Fault /\ pc = "toggle" =>
       \/ load = {} /\ Effects(Outcome)
       \/ busy = Idle /\ load = {a \in BlockOf(PageSize, pos) : job.data[a] = 0} /\ load # {}
  /\ ~late /\ ~Fault /\ pc \in {"reset", "check"} => Effects(mem)
  /\ ~late /\ job.function \notin Unchecked => tried <= failures
  /\ failed /\ ~late => failures >= MaxTries

(* What the loop has passed is written, unless a failure accounts for it.   *)
Written(a) == job.data[a] = 0 => mem[a] = 0
DoneSoFar ==
  /\ job.function \in BlindWrites /\ ~late /\ ~weak => \A a \in job.start .. pos - 1 : Written(a)
  /\ job.function \notin Unchecked /\ ~failed =>
       /\ \A a \in job.start .. pos - 1 : Written(a)
       /\ pc = "loop" /\ tried = 0 => ~Working
       /\ result = "0" => ~Working
  /\ result = "0" =>
       /\ ~failed
       /\ job.function \notin Erases => pos = End
       /\ job.function \in Erases /\ ~late /\ ~weak => \A a \in Cells : mem[a] = 1
  /\ result = "error" /\ ~late => job.function \in Unchecked \/ failures >= MaxTries

CommandInv == CommandTypes /\ Walk /\ OnTheWay /\ Confined /\ WaitsFor /\ OnTrack /\ DoneSoFar

-----------------------------------------------------------------------------
(* Division with a remainder.                                               *)
LEMMA DivMod ==
  ASSUME NEW a \in Nat, NEW p \in Nat \ {0}
  PROVE  a = p * (a \div p) + (a % p) /\ a % p \in 0 .. p - 1 /\ a \div p \in Nat
  OBVIOUS

(* Multiples of p are p apart.                                              *)
LEMMA MulLess ==
  ASSUME NEW p \in Nat \ {0}, NEW q \in Nat, NEW r \in Nat, q < r
  PROVE  p * q + p <= p * r
  <1>1. PICK d \in Nat : r = q + 1 + d
    <2>1. r - q - 1 \in Nat /\ r = q + 1 + (r - q - 1) OBVIOUS
    <2> QED BY <2>1
  <1>2. p * r = p * q + p + p * d
    BY <1>1
  <1>3. p * d \in Nat
    OBVIOUS
  <1> QED BY <1>2, <1>3

(* What lies within p above a multiple of p has it for its quotient.        *)
LEMMA Quotient ==
  ASSUME NEW a \in Nat, NEW p \in Nat \ {0}, NEW q \in Nat, p * q <= a, a < p * q + p
  PROVE  a \div p = q /\ a % p = a - p * q
  <1>1. a = p * (a \div p) + (a % p) /\ a % p \in 0 .. p - 1 /\ a \div p \in Nat
    BY DivMod
  <1>2. DEFINE d == a \div p
  <1>3. d \in Nat /\ p * d <= a /\ a < p * d + p BY <1>1
  <1>4. CASE d < q
    <2>1. p * d + p <= p * q BY <1>3, <1>4, MulLess
    <2> HIDE DEF d
    <2>2. p * d \in Nat /\ p * q \in Nat BY <1>3
    <2> QED BY <1>3, <2>1, <2>2
  <1>5. CASE q < d
    <2>1. p * q + p <= p * d BY <1>3, <1>5, MulLess
    <2> HIDE DEF d
    <2>2. p * d \in Nat /\ p * q \in Nat BY <1>3
    <2> QED BY <1>3, <2>1, <2>2
  <1>6. d = q
    <2> HIDE DEF d
    <2> QED BY <1>3, <1>4, <1>5
  <1> QED BY <1>1, <1>6

(* A block at a multiple of its size.                                       *)
LEMMA BlockIs ==
  ASSUME NEW size \in Nat \ {0}, NEW a \in Nat, a % size = 0
  PROVE  BlockOf(size, a) = a .. a + size - 1
  <1> DEFINE q == a \div size
  <1>1. q \in Nat /\ a = size * q
    BY DivMod
  <1> HIDE DEF q
  <1>2. q * size = a /\ (q + 1) * size = a + size
    BY <1>1
  <1>3. BlockOf(size, a) = q * size .. (q + 1) * size - 1
    BY DEF BlockOf, q
  <1> DEFINE lo == q * size
             hi == (q + 1) * size
  <1> HIDE DEF lo, hi
  <1>4. BlockOf(size, a) = lo .. hi - 1 /\ lo = a /\ hi = a + size
    BY <1>2, <1>3 DEF lo, hi
  <1> QED BY <1>4

(* Every byte of a block has that block.                                    *)
LEMMA SameBlock ==
  ASSUME NEW size \in Nat \ {0}, NEW a \in Nat, a % size = 0, NEW b \in a .. a + size - 1
  PROVE  BlockOf(size, b) = BlockOf(size, a)
  <1> DEFINE q == a \div size
  <1>1. q \in Nat /\ a = size * q
    BY DivMod
  <1>2. b \div size = q
    <2> HIDE DEF q
    <2>1. b \in Nat /\ size * q <= b /\ b < size * q + size
      BY <1>1
    <2> QED BY <1>1, <2>1, Quotient, Zenon
  <1> QED BY <1>2 DEF BlockOf, q

(* Between two multiples of a size there is room for one block.             *)
LEMMA NextBlock ==
  ASSUME NEW size \in Nat \ {0}, NEW a \in Nat, NEW b \in Nat,
         a % size = 0, b % size = 0, a < b
  PROVE  a + size <= b /\ (a + size) % size = 0
  <1> DEFINE q == a \div size
             r == b \div size
  <1>1. q \in Nat /\ r \in Nat /\ a = size * q /\ b = size * r
    BY DivMod
  <1> HIDE DEF q, r
  <1>2. q < r
    <2>1. CASE r = q BY <1>1, <2>1
    <2>2. CASE r < q
      <3>1. size * r + size <= size * q
        BY <1>1, <2>2, MulLess
      <3>2. size * r \in Nat
        BY <1>1
      <3> QED BY <1>1, <3>1, <3>2
    <2> QED BY <1>1, <2>1, <2>2
  <1>3. a + size <= b
    BY <1>1, <1>2, MulLess
  <1>4. (a + size) % size = 0
    <2>1. a + size \in Nat /\ size * (q + 1) = a + size
      BY <1>1
    <2>2. q + 1 \in Nat /\ size * (q + 1) <= a + size /\ a + size < size * (q + 1) + size
      BY <1>1, <2>1
    <2>3. (a + size) % size = (a + size) - size * (q + 1)
      <3> DEFINE z == a + size
                 y == q + 1
      <3>1. z \in Nat /\ y \in Nat /\ size * y <= z /\ z < size * y + size
        BY <2>1, <2>2
      <3> HIDE DEF z, y
      <3>2. z % size = z - size * y
        BY <3>1, Quotient, Zenon
      <3> QED BY <3>2 DEF z, y
    <2> QED BY <2>1, <2>3
  <1> QED BY <1>3, <1>4

(* The sum of two multiples.                                                *)
LEMMA SumOf ==
  ASSUME NEW size \in Nat \ {0}, NEW a \in Nat, NEW b \in Nat, a % size = 0, b % size = 0
  PROVE  (a + b) % size = 0
  <1> DEFINE q == a \div size
             r == b \div size
  <1>1. q \in Nat /\ r \in Nat /\ a = size * q /\ b = size * r
    BY DivMod
  <1> HIDE DEF q, r
  <1> DEFINE z == a + b
             y == q + r
  <1>2. y \in Nat /\ z \in Nat /\ size * y = z
    BY <1>1
  <1> HIDE DEF z, y
  <1>3. size * y <= z /\ z < size * y + size
    BY <1>2
  <1>4. z % size = z - size * y
    BY <1>2, <1>3, Quotient, Zenon
  <1> QED BY <1>2, <1>4 DEF z

-----------------------------------------------------------------------------
(* What is assumed of the sizes.                                            *)
LEMMA Sizes ==
  /\ Size \in Nat \ {0} /\ PageSize \in Nat \ {0} /\ BlockSize \in Nat \ {0}
  /\ MaxTries \in Nat \ {0} /\ MaxPolls \in Nat \ {0} /\ MaxFailures \in Nat
  BY JedecAssumption DEF JedecAssumption

(* A chip is written byte by byte, or by the word.                          *)
LEMMA StepIs == Step(job.function) = 1 \/ (Step(job.function) = 2 /\ job.function \in BlindWrites)
  BY DEF Step, BlindWrites

(* What is assumed of a call.                                               *)
LEMMA JobFacts ==
  ASSUME job \in Jobs
  PROVE  /\ job.function \in Functions /\ job.start \in Nat /\ job.len \in Nat \ {0}
         /\ job.data \in [Addr -> Val]
         /\ End \in Nat /\ job.start < End /\ End <= Size /\ Cells \subseteq Addr
         /\ Paged => job.start % PageSize = 0 /\ End % PageSize = 0
         /\ job.function \in SectorErases => job.start % BlockSize = 0 /\ job.len = BlockSize
         /\ job.start % Step(job.function) = 0 /\ End % Step(job.function) = 0
  <1>1. /\ job.function \in Functions /\ job.start \in Nat /\ job.len \in Nat \ {0}
        /\ job.data \in [Addr -> Val] /\ job.start + job.len <= Size
        /\ Paged => job.start % PageSize = 0 /\ job.len % PageSize = 0
        /\ job.function \in SectorErases => job.start % BlockSize = 0 /\ job.len = BlockSize
        /\ job.start % Step(job.function) = 0 /\ job.len % Step(job.function) = 0
    BY JedecAssumption DEF JedecAssumption, Job, Addr, Paged
  <1>2. End % Step(job.function) = 0
    BY <1>1, StepIs, SumOf DEF End
  <1>3. Paged => End % PageSize = 0
    BY <1>1, Sizes, SumOf DEF End
  <1>4. End \in Nat /\ job.start < End /\ End <= Size /\ Cells \subseteq Addr
    BY <1>1, Sizes DEF End, Cells, Addr
  <1> QED BY <1>1, <1>2, <1>3, <1>4

(* How many bytes of a write a command is for.                              *)
Width == IF Paged THEN PageSize ELSE Step(job.function)

(* The command for a write changes the next bytes of its range.             *)
LEMMA TargetWrite ==
  ASSUME CommandTypes, Walk, pos < End, job.function \notin Erases
  PROVE  /\ Width \in Nat \ {0} /\ Target = pos .. pos + Width - 1
         /\ Target = BlockOf(Width, pos)
         /\ pos + Width <= End /\ (pos + Width) % Width = 0 /\ Target \subseteq Cells
  <1>1. /\ job.start \in Nat /\ pos \in Nat /\ End \in Nat /\ job.start <= pos /\ End <= Size
        /\ Paged => End % PageSize = 0
        /\ End % Step(job.function) = 0
        /\ job.function \in Functions
    BY JobFacts DEF CommandTypes
  <1>2. Width \in Nat \ {0} /\ pos % Width = 0 /\ End % Width = 0
    BY <1>1, StepIs, Sizes DEF Width, Walk
  <1>3. Target = BlockOf(Width, pos)
    BY <1>1 DEF Target, Width, Paged, Functions, ByteWrites, BlindWrites, Erases,
       SectorErases, ChipErases
  <1>4. pos + Width <= End /\ (pos + Width) % Width = 0
    BY <1>1, <1>2, NextBlock
  <1>5. Target = pos .. pos + Width - 1
    BY <1>1, <1>2, <1>3, BlockIs
  <1> QED BY <1>1, <1>2, <1>3, <1>4, <1>5 DEF Cells

(* The command for an erase changes all of it.                              *)
LEMMA TargetErase ==
  ASSUME CommandTypes, Walk, job.function \in Erases, pc \in {"send", "toggle", "reset", "check"}
  PROVE  Target = Cells
  <1>1. CASE job.function \in SectorErases
    <2>1. Target = BlockOf(BlockSize, job.start)
      BY <1>1 DEF Target, SectorErases, ChipErases, ByteWrites, BlindWrites
    <2>2. BlockOf(BlockSize, job.start) = job.start .. job.start + BlockSize - 1
      BY <1>1, JobFacts, Sizes, BlockIs DEF CommandTypes
    <2>3. End = job.start + BlockSize /\ End - 1 = job.start + BlockSize - 1
      BY <1>1, JobFacts DEF CommandTypes, End
    <2> QED BY ONLY <2>1, <2>2, <2>3 DEF Cells
  <1>2. CASE job.function \in ChipErases
    <2>1. job.function \notin SectorErases \cup ByteWrites
      BY <1>2 DEF SectorErases, ChipErases, ByteWrites, BlindWrites
    <2>2. Target = Addr
      BY ONLY <1>2, <2>1 DEF Target
    <2>3. job.start = 0 /\ job.len = Size
      BY <1>2 DEF Walk
    <2> QED BY <2>2, <2>3, Sizes DEF Cells, End, Addr
  <1> QED BY <1>1, <1>2 DEF Erases

-----------------------------------------------------------------------------
(* The cycles of a command: those before the key, the key with its address, *)
(* those after it.                                                          *)
KeyAddr == IF job.function \in ByteWrites THEN pos ELSE job.start
OpAt(n) ==
  IF n <= Clears THEN "50" ELSE IF n <= Full THEN Key[n - Clears]
  ELSE IF Paged THEN "data" ELSE "70"
Script(s) ==
  /\ IsSequence(s) /\ Full <= Len(s)
  /\ Len(s) > Full => Intel \/ Paged
  /\ \A n \in 1 .. Len(s) : s[n].op = OpAt(n)
  /\ job.function \in SectorErases \cup ByteWrites => s[Full].addr = KeyAddr
  /\ Paged => Len(s) = PageSize + 3 /\ \A n \in 4 .. Len(s) : s[n].addr = pos + n - 4

(* The key is among what the chip understands, and for this function.       *)
KeyKnown ==
  /\ Full \in Nat /\ Clears \in {0, 1} /\ Len(Key) \in {2, 4, 6} /\ Full = Clears + Len(Key)
  /\ Clears = 1 => Intel
  /\ Intel => Len(Key) = 2
  /\ Paged => Full = 4
  /\ job.function \in SectorErases => Key \in SectorCodes \ (Programs \cup ChipCodes)
  /\ job.function \in ChipErases => Key \in ChipCodes \ (Programs \cup SectorCodes)
  /\ job.function \notin Erases => Key \in Programs \ (SectorCodes \cup ChipCodes)

(* The functions, by the commands they send.                                *)
LEMMA FunctionsAre ==
  ASSUME job.function \in Functions
  PROVE  \/ job.function \in {"erase_sector_jedec", "block_erase_m29f400bt"}
         \/ job.function \in {"erase_chip_block_jedec", "block_erase_chip_m29f400bt"}
         \/ job.function \in {"write_jedec_1", "write_m29f400bt", "write_en29lv640b"}
         \/ job.function = "erase_sector_28sf040" \/ job.function = "erase_block_82802ab"
         \/ job.function = "erase_sector_49lfxxxc" \/ job.function = "erase_chip_28sf040"
         \/ job.function = "write_82802ab" \/ job.function = "write_28sf040"
         \/ job.function = "write_jedec"
  BY DEF Functions, Erases, SectorErases, ChipErases, ByteWrites, BlindWrites

(* The codes of each function's command, in their order.                    *)
LEMMA KeyIs ==
  ASSUME job.function \in Functions
  PROVE  KeyKnown
  <1> USE DEF KeyKnown, Key, Full, Clears, Intel, AskStatus, Paged, SectorErases, ChipErases,
        Erases, Programs, SectorCodes, ChipCodes, EraseCodes
  <1>1. CASE job.function \in {"erase_sector_jedec", "block_erase_m29f400bt"}
    BY <1>1
  <1>2. CASE job.function \in {"erase_chip_block_jedec", "block_erase_chip_m29f400bt"}
    BY <1>2
  <1>3. CASE job.function \in {"write_jedec_1", "write_m29f400bt", "write_en29lv640b"}
    BY <1>3
  <1>4. CASE job.function = "erase_sector_28sf040"
    BY <1>4
  <1>5. CASE job.function = "erase_block_82802ab"
    BY <1>5
  <1>6. CASE job.function = "erase_sector_49lfxxxc"
    BY <1>6
  <1>7. CASE job.function = "erase_chip_28sf040"
    BY <1>7
  <1>8. CASE job.function = "write_82802ab"
    BY <1>8
  <1>9. CASE job.function = "write_28sf040"
    BY <1>9
  <1>10. CASE job.function = "write_jedec"
    BY <1>10
  <1> QED BY <1>1, <1>2, <1>3, <1>4, <1>5, <1>6, <1>7, <1>8, <1>9, <1>10, FunctionsAre

(* What comes behind three cycles.                                          *)
LEMMA BehindThree ==
  ASSUME NEW a, NEW b, NEW c, NEW n \in Nat, NEW t, t = [i \in 1 .. n |-> t[i]],
         NEW s, s = <<a, b, c>> \o t
  PROVE  /\ Len(s) = n + 3 /\ s = [i \in 1 .. Len(s) |-> s[i]]
         /\ s[1] = a /\ s[2] = b /\ s[3] = c
         /\ \A k \in 4 .. n + 3 : s[k] = t[k - 3]
  OBVIOUS

(* What a sequence of six cycles has in each place.                         *)
LEMMA SixCycles ==
  ASSUME NEW a, NEW b, NEW c, NEW d, NEW e, NEW f, NEW s, s = <<a, b, c>> \o <<d, e, f>>
  PROVE  /\ Len(s) = 6 /\ s = [i \in 1 .. Len(s) |-> s[i]]
         /\ s[1] = a /\ s[2] = b /\ s[3] = c /\ s[4] = d /\ s[5] = e /\ s[6] = f
  <1> DEFINE t == <<d, e, f>>
  <1>1. t = [i \in 1 .. 3 |-> t[i]] /\ t[1] = d /\ t[2] = e /\ t[3] = f
    OBVIOUS
  <1>2. s = <<a, b, c>> \o t
    OBVIOUS
  <1> HIDE DEF t
  <1>3. /\ Len(s) = 3 + 3 /\ s = [i \in 1 .. Len(s) |-> s[i]]
        /\ s[1] = a /\ s[2] = b /\ s[3] = c
        /\ \A k \in 4 .. 3 + 3 : s[k] = t[k - 3]
    BY <1>1, <1>2, BehindThree
  <1>4. s[4] = t[1] /\ s[5] = t[2] /\ s[6] = t[3]
    BY <1>3
  <1> QED BY <1>1, <1>3, <1>4

(* What a sequence of four cycles has in each place.                        *)
LEMMA FourCycles ==
  ASSUME NEW a, NEW b, NEW c, NEW d, NEW s, s = Append(<<a, b, c>>, d)
  PROVE  /\ Len(s) = 4 /\ s = [i \in 1 .. Len(s) |-> s[i]]
         /\ s[1] = a /\ s[2] = b /\ s[3] = c /\ s[4] = d
  OBVIOUS

(* The command of each function is as its key says.                         *)
LEMMA SixCodes ==
  ASSUME NEW a, NEW b, NEW c, NEW d, NEW e, NEW f
  PROVE  LET s == <<a, b, c, d, e, f>> IN s = [i \in 1 .. 6 |-> s[i]]
  OBVIOUS

(* A sequence of four is what it has in each place.                         *)
LEMMA FourCodes ==
  ASSUME NEW a, NEW b, NEW c, NEW d
  PROVE  LET s == <<a, b, c, d>> IN s = [i \in 1 .. 4 |-> s[i]]
  OBVIOUS

(* A sequence of two is what it has in each place.                          *)
LEMMA TwoCodes ==
  ASSUME NEW a, NEW b
  PROVE  LET s == <<a, b>> IN s = [i \in 1 .. 2 |-> s[i]]
  OBVIOUS

(* The codes of a command are a sequence.                                   *)
LEMMA KeySeq ==
  ASSUME job.function \in Functions
  PROVE  Key = [i \in 1 .. Len(Key) |-> Key[i]]
  <1>1. CASE job.function \in {"erase_sector_jedec", "block_erase_m29f400bt"}
    <2>1. Key = <<"AA", "55", "80", "AA", "55", "30">>
      BY <1>1 DEF Key, EraseCodes
    <2> QED BY <2>1, SixCodes
  <1>2. CASE job.function \in {"erase_chip_block_jedec", "block_erase_chip_m29f400bt"}
    <2>1. Key = <<"AA", "55", "80", "AA", "55", "10">>
      BY <1>2 DEF Key, EraseCodes
    <2> QED BY <2>1, SixCodes
  <1>3. CASE job.function \in {"write_jedec_1", "write_m29f400bt", "write_en29lv640b",
              "write_jedec"}
    <2>1. Key = <<"AA", "55", "A0", "data">>
      BY <1>3 DEF Key
    <2> QED BY <2>1, FourCodes
  <1>4. CASE job.function \in {"erase_sector_28sf040", "erase_block_82802ab"}
    <2>1. Key = <<"20", "D0">>
      BY <1>4 DEF Key
    <2> QED BY <2>1, TwoCodes
  <1>5. CASE job.function = "erase_sector_49lfxxxc"
    <2>1. Key = <<"30", "D0">>
      BY <1>5 DEF Key
    <2> QED BY <2>1, TwoCodes
  <1>6. CASE job.function = "erase_chip_28sf040"
    <2>1. Key = <<"30", "30">>
      BY <1>6 DEF Key
    <2> QED BY <2>1, TwoCodes
  <1>7. CASE job.function = "write_82802ab"
    <2>1. Key = <<"40", "data">>
      BY <1>7 DEF Key
    <2> QED BY <2>1, TwoCodes
  <1>8. CASE job.function = "write_28sf040"
    <2>1. Key = <<"10", "data">>
      BY <1>8 DEF Key
    <2> QED BY <2>1, TwoCodes
  <1> QED BY <1>1, <1>2, <1>3, <1>4, <1>5, <1>6, <1>7, <1>8, FunctionsAre

(* A command that is its key and nothing else is as the key says.           *)
LEMMA OnlyKey ==
  ASSUME NEW s, NEW l \in Nat, IsSequence(s), Len(s) = l, Clears = 0, Full = l, ~Paged,
         \A n \in 1 .. l : s[n].op = Key[n],
         job.function \in SectorErases \cup ByteWrites => s[l].addr = KeyAddr
  PROVE  Script(s)
  <1>1. \A n \in 1 .. l : OpAt(n) = Key[n]
    <2> SUFFICES ASSUME NEW n \in 1 .. l PROVE OpAt(n) = Key[n]
      OBVIOUS
    <2>1. n - 0 = n /\ ~(n <= 0) /\ n <= l
      OBVIOUS
    <2> QED BY <2>1 DEF OpAt
  <1> QED BY <1>1 DEF Script

(* A function's cycles are its command's codes, in their places, and then   *)
(* its data.                                                                *)
LEMMA CommandIs ==
  ASSUME job.function \in Functions, pos \in Nat
  PROVE  Script(Command)
  <1> USE DEF Key, Full, Clears, Intel, AskStatus, Paged, SectorErases, ChipErases, ByteWrites,
        BlindWrites, EraseCodes, KeyAddr, OpAt
  <1>1. CASE job.function \in {"erase_sector_jedec", "block_erase_m29f400bt"}
    <2>1. PICK a, b, c, e, s : /\ a = Cycle("AA", 0) /\ b = Cycle("55", 0) /\ c = Cycle("80", 0)
                               /\ e = Cycle("30", job.start) /\ s = Command
      OBVIOUS
    <2>2. s = <<a, b, c>> \o <<a, b, e>>
      BY <1>1, <2>1 DEF Command, SectorCycles, Unlock
    <2>3. /\ Len(s) = 6 /\ s = [i \in 1 .. Len(s) |-> s[i]]
          /\ s[1] = a /\ s[2] = b /\ s[3] = c /\ s[4] = a /\ s[5] = b /\ s[6] = e
      BY ONLY <2>2, SixCycles
    <2>4. Len(Command) = 6 /\ Command = [i \in 1 .. Len(Command) |-> Command[i]]
      BY ONLY <2>1, <2>3
    <2>5. /\ a.op = "AA" /\ b.op = "55" /\ c.op = "80" /\ e.op = "30" /\ e.addr = job.start
      BY ONLY <2>1 DEF Cycle
    <2>6. /\ Command[1].op = "AA" /\ Command[2].op = "55" /\ Command[3].op = "80"
          /\ Command[4].op = "AA" /\ Command[5].op = "55" /\ Command[6].op = "30"
          /\ Command[6].addr = job.start
      BY ONLY <2>1, <2>3, <2>5
    <2>7. Key = <<"AA", "55", "80", "AA", "55", "30">>
      BY <1>1
    <2>8. /\ Len(Key) = 6 /\ Key[1] = "AA" /\ Key[2] = "55" /\ Key[3] = "80"
          /\ Key[4] = "AA" /\ Key[5] = "55" /\ Key[6] = "30"
      BY ONLY <2>7
    <2>9. \A n \in 1 .. 6 : Command[n].op = Key[n]
      BY ONLY <2>6, <2>8
    <2>10. Clears = 0 /\ ~Paged
      BY <1>1
    <2>11. job.function \in SectorErases \cup ByteWrites => Command[6].addr = KeyAddr
      BY <1>1, <2>6
    <2> HIDE DEF Key, Full, Clears, Paged, SectorErases, ByteWrites, KeyAddr, OpAt
    <2>12. Full = 6
      BY ONLY <2>8, <2>10 DEF Full
    <2>13. IsSequence(Command) /\ Len(Command) = 6
      BY ONLY <2>4 DEF IsSequence
    <2>14. PICK l \in Nat : l = 6
      OBVIOUS
    <2>15. /\ Len(Command) = l /\ Full = l /\ \A n \in 1 .. l : Command[n].op = Key[n]
           /\ job.function \in SectorErases \cup ByteWrites => Command[l].addr = KeyAddr
      BY ONLY <2>9, <2>11, <2>12, <2>13, <2>14
    <2> QED BY ONLY <2>10, <2>13, <2>14, <2>15, OnlyKey
  <1>2. CASE job.function \in {"erase_chip_block_jedec", "block_erase_chip_m29f400bt"}
    <2>1. PICK a, b, c, e, s : /\ a = Cycle("AA", 0) /\ b = Cycle("55", 0) /\ c = Cycle("80", 0)
                               /\ e = Cycle("10", 0) /\ s = Command
      OBVIOUS
    <2>2. s = <<a, b, c>> \o <<a, b, e>>
      <3>1. Command = ChipCycles
        BY <1>2 DEF Command
      <3>2. ChipCycles = Unlock("80") \o <<Cycle("AA", 0), Cycle("55", 0), Cycle("10", 0)>>
        BY <1>2 DEF ChipCycles
      <3>3. Unlock("80") = <<a, b, c>>
        BY ONLY <2>1 DEF Unlock
      <3>4. <<Cycle("AA", 0), Cycle("55", 0), Cycle("10", 0)>> = <<a, b, e>>
        BY ONLY <2>1
      <3> QED BY ONLY <2>1, <3>1, <3>2, <3>3, <3>4
    <2>3. /\ Len(s) = 6 /\ s = [i \in 1 .. Len(s) |-> s[i]]
          /\ s[1] = a /\ s[2] = b /\ s[3] = c /\ s[4] = a /\ s[5] = b /\ s[6] = e
      BY ONLY <2>2, SixCycles
    <2>4. Len(Command) = 6 /\ Command = [i \in 1 .. Len(Command) |-> Command[i]]
      BY ONLY <2>1, <2>3
    <2>5. /\ a.op = "AA" /\ b.op = "55" /\ c.op = "80" /\ e.op = "10" /\ e.addr = 0
      BY ONLY <2>1 DEF Cycle
    <2>6. /\ Command[1].op = "AA" /\ Command[2].op = "55" /\ Command[3].op = "80"
          /\ Command[4].op = "AA" /\ Command[5].op = "55" /\ Command[6].op = "10"
          /\ Command[6].addr = 0
      BY ONLY <2>1, <2>3, <2>5
    <2>7. Key = <<"AA", "55", "80", "AA", "55", "10">>
      BY <1>2
    <2>8. /\ Len(Key) = 6 /\ Key[1] = "AA" /\ Key[2] = "55" /\ Key[3] = "80"
          /\ Key[4] = "AA" /\ Key[5] = "55" /\ Key[6] = "10"
      BY ONLY <2>7
    <2>9. \A n \in 1 .. 6 : Command[n].op = Key[n]
      BY ONLY <2>6, <2>8
    <2>10. Clears = 0 /\ ~Paged
      BY <1>2
    <2>11. job.function \in SectorErases \cup ByteWrites => Command[6].addr = KeyAddr
      BY <1>2, <2>6
    <2> HIDE DEF Key, Full, Clears, Paged, SectorErases, ByteWrites, KeyAddr, OpAt
    <2>12. Full = 6
      BY ONLY <2>8, <2>10 DEF Full
    <2>13. IsSequence(Command) /\ Len(Command) = 6
      BY ONLY <2>4 DEF IsSequence
    <2>14. PICK l \in Nat : l = 6
      OBVIOUS
    <2>15. /\ Len(Command) = l /\ Full = l /\ \A n \in 1 .. l : Command[n].op = Key[n]
           /\ job.function \in SectorErases \cup ByteWrites => Command[l].addr = KeyAddr
      BY ONLY <2>9, <2>11, <2>12, <2>13, <2>14
    <2> QED BY ONLY <2>10, <2>13, <2>14, <2>15, OnlyKey
  <1>3. CASE job.function \in {"write_jedec_1", "write_m29f400bt", "write_en29lv640b"}
    <2>1. Command = Append(<<Cycle("AA", 0), Cycle("55", 0), Cycle("A0", 0)>>, Cycle("data", pos))
      BY <1>3 DEF Command, ByteCycles, Unlock
    <2>2. /\ Len(Command) = 4 /\ Command = [i \in 1 .. Len(Command) |-> Command[i]]
          /\ Command[1] = Cycle("AA", 0) /\ Command[2] = Cycle("55", 0)
          /\ Command[3] = Cycle("A0", 0) /\ Command[4] = Cycle("data", pos)
      BY <2>1, FourCycles
    <2>3. /\ Command[1].op = "AA" /\ Command[2].op = "55" /\ Command[3].op = "A0"
          /\ Command[4].op = "data" /\ Command[4].addr = pos
      BY ONLY <2>2 DEF Cycle
    <2>4. Key = <<"AA", "55", "A0", "data">>
      BY <1>3
    <2>5. Len(Key) = 4 /\ Key[1] = "AA" /\ Key[2] = "55" /\ Key[3] = "A0" /\ Key[4] = "data"
      BY ONLY <2>4
    <2>6. \A n \in 1 .. 4 : Command[n].op = Key[n]
      BY ONLY <2>3, <2>5
    <2>7. Clears = 0 /\ ~Paged /\ KeyAddr = pos
      BY <1>3
    <2> HIDE DEF Key, Full, Clears, Paged, SectorErases, ByteWrites, KeyAddr, OpAt
    <2>8. Full = 4
      BY ONLY <2>5, <2>7 DEF Full
    <2>9. IsSequence(Command) /\ Len(Command) = 4
      BY ONLY <2>2 DEF IsSequence
    <2>10. PICK l \in Nat : l = 4
      OBVIOUS
    <2>11. /\ Len(Command) = l /\ Full = l /\ \A n \in 1 .. l : Command[n].op = Key[n]
           /\ Command[l].addr = KeyAddr
      BY ONLY <2>3, <2>6, <2>7, <2>8, <2>9, <2>10
    <2> QED BY ONLY <2>7, <2>9, <2>10, <2>11, OnlyKey
  <1>4. CASE job.function = "erase_sector_28sf040"
    <2>1. Command = <<Cycle("20", 0), Cycle("D0", job.start)>>
      BY <1>4 DEF Command, SectorCycles
    <2> QED BY <1>4, <2>1 DEF Script, IsSequence, Cycle
  <1>5. CASE job.function = "erase_block_82802ab"
    <2>1. Command = <<Cycle("50", job.start), Cycle("20", job.start), Cycle("D0", job.start),
                      Cycle("70", 0)>>
      BY <1>5 DEF Command, SectorCycles
    <2> QED BY <1>5, <2>1 DEF Script, IsSequence, Cycle
  <1>6. CASE job.function = "erase_sector_49lfxxxc"
    <2>1. Command = <<Cycle("30", 0), Cycle("D0", job.start), Cycle("70", 0)>>
      BY <1>6 DEF Command, SectorCycles
    <2> QED BY <1>6, <2>1 DEF Script, IsSequence, Cycle
  <1>7. CASE job.function = "erase_chip_28sf040"
    <2>1. Command = <<Cycle("30", 0), Cycle("30", 0)>>
      BY <1>7 DEF Command, ChipCycles
    <2> QED BY <1>7, <2>1 DEF Script, IsSequence, Cycle
  <1>8. CASE job.function = "write_82802ab"
    <2>1. Command = <<Cycle("40", pos), Cycle("data", pos), Cycle("70", 0)>>
      BY <1>8 DEF Command, ByteCycles
    <2> QED BY <1>8, <2>1 DEF Script, IsSequence, Cycle
  <1>9. CASE job.function = "write_28sf040"
    <2>1. Command = <<Cycle("10", pos), Cycle("data", pos)>>
      BY <1>9 DEF Command, ByteCycles
    <2> QED BY <1>9, <2>1 DEF Script, IsSequence, Cycle
  <1>10. CASE job.function = "write_jedec"
    <2> DEFINE page == [i \in 1 .. PageSize |-> Cycle("data", pos + i - 1)]
    <2>1. Command = <<Cycle("AA", 0), Cycle("55", 0), Cycle("A0", 0)>> \o page
      BY <1>10 DEF Command, PageCycles, Unlock
    <2>2. \A i \in 1 .. PageSize : page[i] = Cycle("data", pos + i - 1)
      OBVIOUS
    <2>3. page = [i \in 1 .. PageSize |-> page[i]]
      OBVIOUS
    <2> HIDE DEF page
    <2>4. /\ Len(Command) = PageSize + 3 /\ Command = [i \in 1 .. Len(Command) |-> Command[i]]
          /\ Command[1] = Cycle("AA", 0) /\ Command[2] = Cycle("55", 0)
          /\ Command[3] = Cycle("A0", 0)
          /\ \A k \in 4 .. PageSize + 3 : Command[k] = page[k - 3]
      BY <2>1, <2>3, Sizes, BehindThree
    <2>5. \A n \in 4 .. PageSize + 3 : Command[n].op = "data" /\ Command[n].addr = pos + n - 4
      <3> SUFFICES ASSUME NEW n \in 4 .. PageSize + 3
                   PROVE  Command[n].op = "data" /\ Command[n].addr = pos + n - 4
        OBVIOUS
      <3>1. n - 3 \in 1 .. PageSize /\ pos + (n - 3) - 1 = pos + n - 4
        BY Sizes
      <3>2. Command[n] = Cycle("data", pos + (n - 3) - 1)
        BY <2>2, <2>4, <3>1
      <3> QED BY <3>1, <3>2 DEF Cycle
    <2>6. \A n \in 1 .. 3 : Command[n].op = OpAt(n)
      BY <1>10, <2>4 DEF Cycle
    <2>7. \A n \in 4 .. PageSize + 3 : OpAt(n) = "data"
      BY <1>10
    <2> QED BY <1>10, <2>4, <2>5, <2>6, <2>7, Sizes DEF Script, IsSequence
  <1> QED BY <1>1, <1>2, <1>3, <1>4, <1>5, <1>6, <1>7, <1>8, <1>9, <1>10, FunctionsAre

-----------------------------------------------------------------------------
(* What the chip makes of a code, after the codes h: it may be the last of  *)
(* a command, or one that a command may begin with.                         *)
Keeps(h, op) ==
  IF \E m \in Commands : IsStrictPrefix(Append(h, op), m) THEN Append(h, op) ELSE << >>

(* A strict prefix is shorter, and has the same in each place.              *)
LEMMA PrefixThen ==
  ASSUME NEW s, NEW m, Len(s) \in Nat, Len(m) \in Nat, IsStrictPrefix(s, m)
  PROVE  Len(s) <= Len(m) /\ s # m /\ \A i \in 1 .. Len(s) : s[i] = m[i]
  <1>1. Len(s) <= Len(m) /\ s # m /\ SubSeq(s, 1, Len(s)) = SubSeq(m, 1, Len(s))
    BY DEF IsStrictPrefix, IsPrefix
  <1> SUFFICES ASSUME NEW i \in 1 .. Len(s) PROVE s[i] = m[i]
    BY <1>1
  <1>2. SubSeq(s, 1, Len(s))[i] = s[i] /\ SubSeq(m, 1, Len(s))[i] = m[i]
    OBVIOUS
  <1> QED BY <1>1, <1>2

(* What is shorter and has the same in each place is a strict prefix.       *)
LEMMA PrefixIf ==
  ASSUME NEW s, NEW m, Len(s) \in Nat, Len(m) \in Nat, Len(s) < Len(m),
         \A i \in 1 .. Len(s) : s[i] = m[i]
  PROVE  IsStrictPrefix(s, m)
  <1>1. SubSeq(s, 1, Len(s)) = SubSeq(m, 1, Len(s)) OBVIOUS
  <1> QED BY <1>1 DEF IsStrictPrefix, IsPrefix

(* No two commands that a chip understands begin alike. None begins with    *)
(* what is written before or after a key, nor with a later code of one for  *)
(* a write.                                                                 *)
Apart(m, k) ==
  /\ Len(m) \in Nat \ {0, 1} /\ m[1] \notin {"50", "70", "data"}
  /\ m = k \/ \E i \in 1 .. Len(k) : i <= Len(m) /\ m[i] # k[i]
  /\ k[Len(k)] = "data" => \A j \in 2 .. Len(k) : m[1] # k[j]

(* No other command begins with the codes of this one: the chip cannot take *)
(* a command for another.                                                   *)
LEMMA CommandsApart ==
  ASSUME job.function \in Functions
  PROVE  \A m \in Commands : Apart(m, Key)
  <1> DEFINE a == <<"AA", "55", "A0", "data">>
             b == EraseCodes("30")
             c == EraseCodes("10")
             d == <<"30", "30">>
             e == <<"20", "D0">>
             f == <<"30", "D0">>
             g == <<"40", "data">>
             h == <<"10", "data">>
  <1>a. Len(a) = 4 /\ a[1] = "AA" /\ a[2] = "55" /\ a[3] = "A0" /\ a[4] = "data"
    OBVIOUS
  <1>b. /\ Len(b) = 6 /\ b[1] = "AA" /\ b[2] = "55" /\ b[3] = "80" /\ b[4] = "AA" /\ b[5] = "55"
        /\ b[6] = "30"
    BY DEF EraseCodes
  <1>c. /\ Len(c) = 6 /\ c[1] = "AA" /\ c[2] = "55" /\ c[3] = "80" /\ c[4] = "AA" /\ c[5] = "55"
        /\ c[6] = "10"
    BY DEF EraseCodes
  <1>d. Len(d) = 2 /\ d[1] = "30" /\ d[2] = "30"
    OBVIOUS
  <1>e. Len(e) = 2 /\ e[1] = "20" /\ e[2] = "D0"
    OBVIOUS
  <1>f. Len(f) = 2 /\ f[1] = "30" /\ f[2] = "D0"
    OBVIOUS
  <1>g. Len(g) = 2 /\ g[1] = "40" /\ g[2] = "data"
    OBVIOUS
  <1>h. Len(h) = 2 /\ h[1] = "10" /\ h[2] = "data"
    OBVIOUS
  <1>p. ChipCodes = {c, d}
    BY DEF ChipCodes
  <1>1. CASE job.function \in {"erase_sector_jedec", "block_erase_m29f400bt"}
    <2>1. Programs = {a} /\ SectorCodes = {b} /\ Key = b
      BY <1>1 DEF Programs, SectorCodes, Key
    <2> HIDE DEF a, b, c, d
    <2>2. Apart(a, b)
      BY <1>a, <1>b DEF Apart
    <2>3. Apart(b, b)
      BY <1>b DEF Apart
    <2>4. Apart(c, b)
      BY <1>b, <1>c DEF Apart
    <2>5. Apart(d, b)
      BY <1>b, <1>d DEF Apart
    <2> QED BY <1>p, <2>1, <2>2, <2>3, <2>4, <2>5 DEF Commands
  <1>2. CASE job.function \in {"erase_chip_block_jedec", "block_erase_chip_m29f400bt"}
    <2>1. Programs = {a} /\ SectorCodes = {b} /\ Key = c
      BY <1>2 DEF Programs, SectorCodes, Key
    <2> HIDE DEF a, b, c, d
    <2>2. Apart(a, c)
      BY <1>a, <1>c DEF Apart
    <2>3. Apart(b, c)
      BY <1>b, <1>c DEF Apart
    <2>4. Apart(c, c)
      BY <1>c DEF Apart
    <2>5. Apart(d, c)
      BY <1>c, <1>d DEF Apart
    <2> QED BY <1>p, <2>1, <2>2, <2>3, <2>4, <2>5 DEF Commands
  <1>3. CASE job.function \in {"write_jedec_1", "write_m29f400bt", "write_en29lv640b",
              "write_jedec"}
    <2>1. Programs = {a} /\ SectorCodes = {b} /\ Key = a
      BY <1>3 DEF Programs, SectorCodes, Key
    <2> HIDE DEF a, b, c, d
    <2>2. Apart(a, a)
      BY <1>a DEF Apart
    <2>3. Apart(b, a)
      BY <1>a, <1>b DEF Apart
    <2>4. Apart(c, a)
      BY <1>a, <1>c DEF Apart
    <2>5. Apart(d, a)
      BY <1>a, <1>d DEF Apart
    <2> QED BY <1>p, <2>1, <2>2, <2>3, <2>4, <2>5 DEF Commands
  <1>4. CASE job.function \in {"erase_sector_28sf040", "erase_block_82802ab"}
    <2>1. Programs = {a} /\ SectorCodes = {e} /\ Key = e
      BY <1>4 DEF Programs, SectorCodes, Key
    <2> HIDE DEF a, c, d, e
    <2>2. Apart(a, e)
      BY <1>a, <1>e DEF Apart
    <2>3. Apart(e, e)
      BY <1>e DEF Apart
    <2>4. Apart(c, e)
      BY <1>c, <1>e DEF Apart
    <2>5. Apart(d, e)
      BY <1>d, <1>e DEF Apart
    <2> QED BY <1>p, <2>1, <2>2, <2>3, <2>4, <2>5 DEF Commands
  <1>5. CASE job.function = "erase_sector_49lfxxxc"
    <2>1. Programs = {a} /\ SectorCodes = {f} /\ Key = f
      BY <1>5 DEF Programs, SectorCodes, Key
    <2> HIDE DEF a, c, d, f
    <2>2. Apart(a, f)
      BY <1>a, <1>f DEF Apart
    <2>3. Apart(f, f)
      BY <1>f DEF Apart
    <2>4. Apart(c, f)
      BY <1>c, <1>f DEF Apart
    <2>5. Apart(d, f)
      BY <1>d, <1>f DEF Apart
    <2> QED BY <1>p, <2>1, <2>2, <2>3, <2>4, <2>5 DEF Commands
  <1>6. CASE job.function = "erase_chip_28sf040"
    <2>1. Programs = {a} /\ SectorCodes = {b} /\ Key = d
      BY <1>6 DEF Programs, SectorCodes, Key
    <2> HIDE DEF a, b, c, d
    <2>2. Apart(a, d)
      BY <1>a, <1>d DEF Apart
    <2>3. Apart(b, d)
      BY <1>b, <1>d DEF Apart
    <2>4. Apart(c, d)
      BY <1>c, <1>d DEF Apart
    <2>5. Apart(d, d)
      BY <1>d DEF Apart
    <2> QED BY <1>p, <2>1, <2>2, <2>3, <2>4, <2>5 DEF Commands
  <1>7. CASE job.function = "write_82802ab"
    <2>1. Programs = {g} /\ SectorCodes = {b} /\ Key = g
      BY <1>7 DEF Programs, SectorCodes, Key
    <2> HIDE DEF b, c, d, g
    <2>2. Apart(g, g)
      BY <1>g DEF Apart
    <2>3. Apart(b, g)
      BY <1>b, <1>g DEF Apart
    <2>4. Apart(c, g)
      BY <1>c, <1>g DEF Apart
    <2>5. Apart(d, g)
      BY <1>d, <1>g DEF Apart
    <2> QED BY <1>p, <2>1, <2>2, <2>3, <2>4, <2>5 DEF Commands
  <1>8. CASE job.function = "write_28sf040"
    <2>1. Programs = {h} /\ SectorCodes = {b} /\ Key = h
      BY <1>8 DEF Programs, SectorCodes, Key
    <2> HIDE DEF b, c, d, h
    <2>2. Apart(h, h)
      BY <1>h DEF Apart
    <2>3. Apart(b, h)
      BY <1>b, <1>h DEF Apart
    <2>4. Apart(c, h)
      BY <1>c, <1>h DEF Apart
    <2>5. Apart(d, h)
      BY <1>d, <1>h DEF Apart
    <2> QED BY <1>p, <2>1, <2>2, <2>3, <2>4, <2>5 DEF Commands
  <1> QED BY <1>1, <1>2, <1>3, <1>4, <1>5, <1>6, <1>7, <1>8, FunctionsAre

(* A key for a write ends with the data.                                    *)
LEMMA KeyEnds ==
  ASSUME job.function \in Functions, job.function \notin Erases
  PROVE  Key[Len(Key)] = "data"
  <1>1. job.function = "write_82802ab" \/ job.function = "write_28sf040"
        \/ job.function \in {"write_jedec_1", "write_m29f400bt", "write_en29lv640b", "write_jedec"}
    BY DEF Functions, Erases, ByteWrites, BlindWrites
  <1> QED BY <1>1 DEF Key

(* The beginning of a key, one code longer.                                 *)
LEMMA OneMore ==
  ASSUME NEW key, NEW len \in Nat, Len(key) = len, key = [i \in 1 .. len |-> key[i]],
         NEW k \in Nat, k < len
  PROVE  LET s == SubSeq(key, 1, k)
             t == Append(s, key[k + 1]) IN
         /\ Len(s) = k /\ Len(t) = k + 1
         /\ \A i \in 1 .. k : s[i] = key[i]
         /\ \A i \in 1 .. k + 1 : t[i] = key[i]
         /\ t = SubSeq(key, 1, k + 1)
         /\ k + 1 = len => t = key
         /\ k = 0 => s = << >>
  <1> DEFINE s == SubSeq(key, 1, k)
             t == Append(s, key[k + 1])
  <1>1. Len(s) = k /\ \A i \in 1 .. k : s[i] = key[i]
    OBVIOUS
  <1>2. s = [i \in 1 .. k |-> key[i]]
    OBVIOUS
  <1>3. Len(t) = k + 1 /\ t = [i \in 1 .. k + 1 |-> key[i]]
    <2> HIDE DEF s
    <2> QED BY <1>1, <1>2
  <1>4. SubSeq(key, 1, k + 1) = [i \in 1 .. k + 1 |-> key[i]]
    OBVIOUS
  <1>5. k = 0 => s = << >>
    BY <1>2
  <1> HIDE DEF s, t
  <1> QED BY <1>1, <1>2, <1>3, <1>4, <1>5 DEF s, t

(* The codes that come after h, if the next one is the n + 1st of the       *)
(* command: they are a command only if they are its key.                    *)
Heeds(n, h) ==
  LET op == OpAt(n + 1)
      s == Append(h, op) IN
  /\ s \in Commands =>
       s = Key /\ h = Heard(n) /\ (n + 1 = Full \/ (Paged /\ n >= Full)) /\ Keeps(h, op) = << >>
  /\ s \notin Commands => Keeps(h, op) \in {<< >>, Heard(n + 1)}
  /\ h = Heard(n) /\ n + 1 < Full => s \notin Commands /\ Keeps(h, op) = Heard(n + 1)
  /\ h = Heard(n) /\ (n + 1 = Full \/ (Paged /\ n >= Full)) => s = Key /\ Key \in Commands
  /\ n >= Full /\ ~Paged => s \notin Commands /\ Keeps(h, op) = << >>

(* What the chip makes of the next code when it has heard the first ones.   *)
LEMMA Hearing ==
  ASSUME job.function \in Functions, NEW n \in Nat, n < Full \/ Paged \/ Intel,
         NEW h, h \in {<< >>, Heard(n)}, job.function \in Erases /\ n < Full => h = Heard(n)
  PROVE  Heeds(n, h)
  <1>1. KeyKnown /\ Key = [i \in 1 .. Len(Key) |-> Key[i]] /\ \A m \in Commands : Apart(m, Key)
    BY KeyIs, KeySeq, CommandsApart
  <1>2. Key \in Commands
    BY <1>1 DEF KeyKnown, Commands, Functions, Erases
  <1> DEFINE op == OpAt(n + 1)
             len == Len(Key)
  <1>3. len \in {2, 4, 6}
    BY <1>1 DEF KeyKnown
  <1>4. Append(<< >>, op) \notin Commands
    <2>1. Len(Append(<< >>, op)) = 1
      OBVIOUS
    <2> QED BY <1>1, <2>1 DEF Apart
  <1>5. ASSUME \A m \in Commands : m[1] # op
        PROVE  Keeps(<< >>, op) = << >>
    <2> DEFINE s == Append(<< >>, op)
    <2>1. Len(s) = 1 /\ s[1] = op
      OBVIOUS
    <2> HIDE DEF s
    <2>2. ASSUME NEW m \in Commands, IsStrictPrefix(s, m)
          PROVE  FALSE
      <3>1. Len(m) \in Nat /\ Len(s) \in Nat
        BY <1>1, <2>1 DEF Apart
      <3>2. \A i \in 1 .. Len(s) : s[i] = m[i]
        BY <2>2, <3>1, PrefixThen
      <3> QED BY <1>5, <2>1, <3>2
    <2> QED BY <2>2 DEF Keeps, s
  <1>6. CASE n < Clears
    <2>1. n = 0 /\ Clears = 1 /\ Intel /\ ~Paged /\ n + 1 < Full
      BY <1>1, <1>6 DEF KeyKnown, Intel, AskStatus, Paged
    <2>2. op = "50" /\ Heard(n) = << >> /\ Heard(n + 1) = << >>
      BY <2>1 DEF OpAt, Heard
    <2>3. Keeps(<< >>, op) = << >>
      BY <1>1, <1>5, <2>2 DEF Apart
    <2>4. h = << >> /\ n + 1 # Full /\ ~(n >= Full)
      BY <1>1, <2>1, <2>2 DEF KeyKnown
    <2> HIDE DEF op
    <2> QED BY <1>4, <2>1, <2>2, <2>3, <2>4 DEF Heeds, op
  <1>7. CASE Clears <= n /\ n < Full
    <2> DEFINE k == n - Clears
    <2>1. k \in Nat /\ k < len /\ (n + 1) - Clears = k + 1
      BY <1>1, <1>7 DEF KeyKnown
    <2>2. op = Key[k + 1]
      BY <1>1, <1>7, <2>1 DEF OpAt, KeyKnown
    <2>3. CASE h = Heard(n)
      <3> DEFINE s == SubSeq(Key, 1, k)
                 t == Append(s, op)
      <3>1. /\ Len(s) = k /\ Len(t) = k + 1
            /\ \A i \in 1 .. k + 1 : t[i] = Key[i]
            /\ t = SubSeq(Key, 1, k + 1)
            /\ k + 1 = len => t = Key
            /\ k = 0 => s = << >>
        <4>1. Key = [i \in 1 .. len |-> Key[i]] /\ len \in Nat
          BY <1>1, <1>3
        <4> HIDE DEF k, len
        <4> QED BY <2>1, <2>2, <4>1, OneMore DEF len
      <3>2. h = s
        <4>1. CASE n = Clears
          <5>1. k = 0 /\ Heard(n) = << >>
            BY <4>1, <1>1 DEF Heard, KeyKnown
          <5> QED BY <2>3, <3>1, <5>1
        <4>2. CASE n > Clears
          <5>1. ~(n <= Clears)
            BY <1>1, <4>2 DEF KeyKnown
          <5> QED BY <1>7, <2>3, <5>1 DEF Heard
        <4> QED BY <1>1, <1>7, <4>1, <4>2 DEF KeyKnown
      <3> HIDE DEF t, s, op, k
      <3>3. CASE n + 1 < Full
        <4>1. k + 1 < len
          BY <1>1, <3>3, <2>1 DEF KeyKnown, k
        <4>2. t \notin Commands
          <5>1. ASSUME t \in Commands PROVE FALSE
            <6>1. t # Key
              BY <3>1, <4>1, <1>3
            <6>2. PICK i \in 1 .. len : i <= Len(t) /\ t[i] # Key[i]
              BY <1>1, <5>1, <6>1 DEF Apart
            <6> QED BY <2>1, <3>1, <6>2
          <5> QED BY <5>1
        <4>3. IsStrictPrefix(t, Key)
          <5>1. /\ Len(t) \in Nat /\ Len(Key) \in Nat /\ Len(t) < Len(Key)
                /\ \A i \in 1 .. Len(t) : t[i] = Key[i]
            BY <1>3, <2>1, <3>1, <4>1
          <5> DEFINE u == t
          <5>2. Len(u) \in Nat /\ Len(u) < Len(Key) /\ \A i \in 1 .. Len(u) : u[i] = Key[i]
            BY <5>1
          <5> HIDE DEF u
          <5>3. Len(Key) \in Nat
            BY <5>1
          <5>4. IsStrictPrefix(u, Key)
            BY <5>2, <5>3, PrefixIf, Zenon
          <5> QED BY <5>4 DEF u
        <4>4. Keeps(h, op) = t
          BY <1>2, <3>2, <4>3 DEF Keeps, t
        <4>5. Heard(n + 1) = t
          <5>1. ~(n + 1 <= Clears)
            BY <1>1, <1>7 DEF KeyKnown
          <5>2. Heard(n + 1) = SubSeq(Key, 1, (n + 1) - Clears)
            BY <3>3, <5>1 DEF Heard
          <5> QED BY <2>1, <3>1, <5>2
        <4>6. n + 1 # Full /\ ~(n >= Full)
          BY <1>1, <1>7, <3>3 DEF KeyKnown
        <4>7. Append(h, op) = t
          BY <3>2 DEF t
        <4> HIDE DEF t
        <4> QED BY <2>3, <3>3, <4>2, <4>4, <4>5, <4>6, <4>7 DEF Heeds, op
      <3>4. CASE n + 1 = Full
        <4>1. k + 1 = len /\ t = Key
          BY <1>1, <3>4, <2>1, <3>1 DEF KeyKnown, k
        <4>2. ASSUME NEW m \in Commands, IsStrictPrefix(Key, m)
              PROVE  FALSE
          <5>1. Len(m) \in Nat /\ len \in Nat
            BY <1>1, <1>3 DEF Apart
          <5>2. Key # m /\ \A i \in 1 .. len : Key[i] = m[i]
            BY <4>2, <5>1, PrefixThen
          <5> QED BY <1>1, <5>2 DEF Apart
        <4>3. Keeps(h, op) = << >>
          BY <3>2, <4>1, <4>2 DEF Keeps, t
        <4>4. Append(h, op) = Key /\ ~(n + 1 < Full) /\ ~(n >= Full)
          BY <1>1, <1>7, <3>2, <3>4, <4>1 DEF t, KeyKnown
        <4> QED BY <1>2, <2>3, <3>4, <4>3, <4>4 DEF Heeds, op
      <3> QED BY <1>1, <1>7, <3>3, <3>4 DEF KeyKnown
    <2>4. CASE h # Heard(n)
      <3>1. h = << >> /\ job.function \notin Erases
        BY <1>7, <2>4
      <3>2. k # 0
        <4>1. ASSUME k = 0 PROVE Heard(n) = << >>
          BY <1>1, <1>7, <4>1 DEF Heard, KeyKnown
        <4> QED BY <2>4, <3>1, <4>1
      <3>3. \A m \in Commands : m[1] # op
        <4>1. k + 1 \in 2 .. len
          BY <2>1, <3>2, <1>3
        <4> HIDE DEF k, op
        <4> QED BY <1>1, <2>2, <3>1, <4>1, KeyEnds DEF Apart
      <3>4. Keeps(<< >>, op) = << >>
        BY <1>5, <3>3
      <3> QED BY <1>1, <1>4, <1>7, <2>4, <3>1, <3>4 DEF Heeds, KeyKnown
    <2> QED BY <2>3, <2>4
  <1>8. CASE n >= Full /\ ~Paged
    <2>1. op = "70" /\ h = << >>
      BY <1>1, <1>8 DEF OpAt, Heard, KeyKnown
    <2>2. Keeps(<< >>, op) = << >>
      BY <1>1, <1>5, <2>1 DEF Apart
    <2> QED BY <1>1, <1>4, <1>8, <2>1, <2>2 DEF Heeds, KeyKnown
  <1>9. CASE n >= Full /\ Paged
    <2>1. op = "data" /\ Full = 4 /\ Clears = 0 /\ Heard(n) = <<"AA", "55", "A0">>
      BY <1>1, <1>9 DEF OpAt, Heard, KeyKnown, Paged, Clears
    <2>2. Key = <<"AA", "55", "A0", "data">>
      BY <1>9 DEF Key, Paged
    <2>3. CASE h = << >>
      <3>1. Keeps(<< >>, op) = << >>
        BY <1>1, <1>5, <2>1 DEF Apart
      <3>2. h # Heard(n)
        BY <2>1, <2>3
      <3> QED BY <1>1, <1>4, <1>9, <2>1, <2>3, <3>1, <3>2 DEF Heeds, KeyKnown
    <2>4. CASE h = <<"AA", "55", "A0">>
      <3>1. Append(h, op) = Key
        <4> DEFINE s == Append(h, op)
        <4>1. /\ Len(s) = 4 /\ s = [i \in 1 .. Len(s) |-> s[i]]
              /\ s[1] = "AA" /\ s[2] = "55" /\ s[3] = "A0" /\ s[4] = "data"
          <5>1. s = Append(<<"AA", "55", "A0">>, "data")
            BY <2>1, <2>4
          <5> QED BY <5>1, FourCycles
        <4>2. len = 4 /\ Key[1] = "AA" /\ Key[2] = "55" /\ Key[3] = "A0" /\ Key[4] = "data"
          BY <2>2
        <4> HIDE DEF s, len
        <4>3. s = [i \in 1 .. 4 |-> Key[i]]
          BY <4>1, <4>2
        <4> QED BY <1>1, <4>2, <4>3 DEF s, len
      <3>2. ASSUME NEW m \in Commands, IsStrictPrefix(Key, m)
            PROVE  FALSE
        <4>1. Len(m) \in Nat /\ len \in Nat
          BY <1>1, <1>3 DEF Apart
        <4>2. Key # m /\ \A i \in 1 .. len : Key[i] = m[i]
          BY <3>2, <4>1, PrefixThen
        <4> QED BY <1>1, <4>2 DEF Apart
      <3>3. Keeps(h, op) = << >>
        BY <3>1, <3>2 DEF Keeps
      <3> QED BY <1>1, <1>2, <1>9, <2>1, <2>4, <3>1, <3>3 DEF Heeds, KeyKnown
    <2> QED BY <2>1, <2>3, <2>4
  <1> QED BY <1>1, <1>6, <1>7, <1>8, <1>9 DEF KeyKnown

-----------------------------------------------------------------------------
(* A chip that is not at work has the contents it has.                      *)
LEMMA AtRest ==
  ASSUME mem \in [Addr -> Val], busy = Idle
  PROVE  Outcome = mem
  <1>1. Outcome = [x \in Addr |-> mem[x]]
    BY DEF Outcome, Idle
  <1> QED BY <1>1

(* An empty sequence of cycles has no codes.                                *)
LEMMA NoCodes == Codes(<< >>) = << >> /\ IsSequence(<< >>)
  BY DEF Codes, IsSequence

(* A sequence with one more.                                                *)
LEMMA AppendIs ==
  ASSUME NEW t, NEW n \in Nat, Len(t) = n, t = [i \in 1 .. n |-> t[i]], NEW x
  PROVE  Append(t, x) = [i \in 1 .. n + 1 |-> IF i = n + 1 THEN x ELSE t[i]]
  OBVIOUS

(* One more cycle is one more code.                                         *)
LEMMA OneCode ==
  ASSUME NEW s, IsSequence(s), NEW c
  PROVE  Codes(Append(s, c)) = Append(Codes(s), c.op) /\ IsSequence(Append(s, c))
  <1> DEFINE n == Len(s)
  <1>1. n \in Nat /\ s = [i \in 1 .. n |-> s[i]]
    BY DEF IsSequence
  <1>2. DOMAIN s = 1 .. n
    BY <1>1
  <1>3. Append(s, c) = [i \in 1 .. n + 1 |-> IF i = n + 1 THEN c ELSE s[i]]
            /\ Len(Append(s, c)) = n + 1
    <2>1. Len(s) = n
      OBVIOUS
    <2> HIDE DEF n
    <2>2. Append(s, c) = [i \in 1 .. n + 1 |-> IF i = n + 1 THEN c ELSE s[i]]
      BY <1>1, <2>1, AppendIs
    <2>3. n + 1 \in Nat
      BY <1>1
    <2> QED BY <2>2, <2>3
  <1>4. Codes(s) = [i \in 1 .. n |-> s[i].op]
    BY <1>2 DEF Codes
  <1>5. Len(Codes(s)) = n
    BY <1>1, <1>4
  <1>6. Append(Codes(s), c.op) = [i \in 1 .. n + 1 |-> IF i = n + 1 THEN c.op ELSE s[i].op]
    <2>1. Codes(s) = [i \in 1 .. n |-> Codes(s)[i]] /\ \A i \in 1 .. n : Codes(s)[i] = s[i].op
      BY <1>4
    <2>2. Append(Codes(s), c.op)
            = [i \in 1 .. n + 1 |-> IF i = n + 1 THEN c.op ELSE Codes(s)[i]]
      BY <1>1, <1>5, <2>1, AppendIs
    <2>3. \A i \in 1 .. n + 1 : i # n + 1 => i \in 1 .. n
      BY <1>1
    <2> QED BY <2>1, <2>2, <2>3
  <1>7. Codes(Append(s, c)) = [i \in 1 .. n + 1 |-> IF i = n + 1 THEN c.op ELSE s[i].op]
    BY <1>3 DEF Codes
  <1> QED BY <1>1, <1>3, <1>6, <1>7 DEF IsSequence

(* Only an empty sequence of cycles has no codes.                           *)
LEMMA CodesNone ==
  ASSUME NEW s, IsSequence(s), Codes(s) = << >>
  PROVE  s = << >>
  <1> DEFINE n == Len(s)
  <1>1. n \in Nat /\ s = [i \in 1 .. n |-> s[i]]
    BY DEF IsSequence
  <1>2. DOMAIN s = 1 .. n
    BY <1>1
  <1>3. DOMAIN Codes(s) = 1 .. n
    BY <1>2 DEF Codes
  <1>4. DOMAIN Codes(s) = {}
    OBVIOUS
  <1> HIDE DEF n
  <1>5. n = 0
    BY <1>1, <1>3, <1>4
  <1> QED BY <1>1, <1>5

(* What depends on the call alone, and what on the place of the loop, too.  *)
LEMMA SameCall ==
  ASSUME job' = job
  PROVE  /\ Key' = Key /\ Clears' = Clears /\ Full' = Full /\ End' = End /\ Cells' = Cells
         /\ Paged' = Paged /\ Intel' = Intel
         /\ \A n \in Nat : Heard(n)' = Heard(n)
  <1>1. /\ Key' = Key /\ Clears' = Clears /\ End' = End
        /\ Paged' = Paged /\ Intel' = Intel
    BY DEF Key, Clears, End, Paged, Intel
  <1>2. Full' = Full /\ Cells' = Cells
    BY <1>1 DEF Full, Cells
  <1> QED BY <1>1, <1>2 DEF Heard

(* The command and what it is for depend on the call and the place only.    *)
LEMMA SamePlace ==
  ASSUME job' = job, pos' = pos
  PROVE  Command' = Command /\ Target' = Target
  <1>1. Command' = Command
    BY DEF Command, SectorCycles, ChipCycles, ByteCycles, PageCycles
  <1> QED BY <1>1 DEF Target

(* Before its first code nothing has been heard.                            *)
LEMMA NothingHeard == KeyKnown => Heard(0) = << >>
  BY DEF Heard, KeyKnown

(* What the invariant says of a call whose command has been sent.           *)
LEMMA CallFacts ==
  ASSUME CommandTypes
  PROVE  /\ job.function \in Functions /\ KeyKnown /\ Script(Command)
         /\ pos \in Nat /\ End \in Nat /\ pos <= End /\ job.start <= pos /\ job.start \in Nat
         /\ Cells \subseteq Addr /\ job.data \in [Addr -> Val]
  <1>1. job.function \in Functions
    BY JobFacts DEF CommandTypes
  <1>2. pos \in Nat /\ End \in Nat /\ pos <= End /\ job.start <= pos /\ job.start \in Nat
        /\ Cells \subseteq Addr /\ job.data \in [Addr -> Val]
    BY JobFacts DEF CommandTypes
  <1> QED BY <1>1, <1>2, KeyIs, CommandIs

(* The cycles of a command, by the kind of its function.                    *)
LEMMA CommandOf ==
  /\ job.function \in SectorErases => Command = SectorCycles /\ job.function \notin ChipErases
  /\ job.function \in ChipErases =>
       Command = ChipCycles /\ job.function \notin SectorErases /\ Target = Addr
  /\ job.function \in ByteWrites => Command = ByteCycles /\ job.function \notin Erases
  /\ Paged => Command = PageCycles /\ job.function \notin Erases
  <1>1. /\ job.function \in SectorErases => job.function \notin ChipErases
        /\ job.function \in ByteWrites =>
             job.function \notin SectorErases /\ job.function \notin ChipErases
        /\ Paged => job.function \notin SectorErases /\ job.function \notin ChipErases
                    /\ job.function \notin ByteWrites
    BY DEF SectorErases, ChipErases, ByteWrites, BlindWrites, Paged
  <1>2. job.function \in SectorErases => Command = SectorCycles
    BY <1>1 DEF Command
  <1>3. job.function \in ChipErases =>
          Command = ChipCycles /\ job.function \notin SectorErases /\ Target = Addr
    BY <1>1 DEF Command, Target
  <1>4. job.function \in ByteWrites => Command = ByteCycles
    BY <1>1 DEF Command
  <1>5. Paged => Command = PageCycles
    BY <1>1 DEF Command
  <1> QED BY <1>1, <1>2, <1>3, <1>4, <1>5 DEF Erases

(* What a command does depends on the chip's contents only.                 *)
LEMMA SameEffects ==
  ASSUME job' = job, pos' = pos, mem' = mem, busy' = busy
  PROVE  /\ Effects(Outcome)' = Effects(Outcome) /\ Effects(mem)' = Effects(mem)
         /\ MayBecome(busy)' = MayBecome(busy)
  <1>1. Outcome' = Outcome
    BY DEF Outcome
  <1> QED BY <1>1, SamePlace DEF Effects, MayBecome, Paged

-----------------------------------------------------------------------------
(* The steps of the host preserve the invariant. A command is issued in the *)
(* loop.                                                                    *)
LEMMA Issued ==
  ASSUME CommandInv, pc = "loop", pos < End,
         job.function = "write_jedec_1" => job.data[pos] = 0,
         job.function \in ChipErases => job.start = 0 /\ job.len = Size,
         cycles' = Command, pc' = "send",
         UNCHANGED <<job, pos, tmp1, polls, tried, failed, result, chip, failures, late, weak>>
  PROVE  CommandInv'
  <1> USE DEF CommandInv
  <1>1. /\ job' = job /\ pos' = pos /\ tmp1' = tmp1 /\ polls' = polls /\ tried' = tried
        /\ failed' = failed /\ result' = result /\ failures' = failures /\ late' = late
        /\ weak' = weak /\ mem' = mem /\ seq' = seq /\ load' = load /\ busy' = busy
        /\ dq6' = dq6 /\ shows' = shows
    BY DEF chip
  <1>2. /\ Command' = Command /\ Target' = Target /\ Full' = Full /\ End' = End /\ Cells' = Cells
        /\ Paged' = Paged /\ Intel' = Intel /\ Heard(0)' = Heard(0)
    BY <1>1, SameCall, SamePlace
  <1>3. /\ Effects(Outcome)' = Effects(Outcome) /\ Effects(mem)' = Effects(mem)
        /\ MayBecome(busy)' = MayBecome(busy) /\ Fault' = Fault
    BY <1>1, SameEffects DEF Fault
  <1>4. KeyKnown /\ Script(Command) /\ Full \in Nat \ {0}
    <2>1. KeyKnown /\ Script(Command)
      BY CallFacts
    <2> QED BY <2>1 DEF KeyKnown
  <1>5. Sent' = 0 /\ Len(Command) \in Nat
    BY <1>2, <1>4 DEF Sent, Script, IsSequence
  <1>6. seq = << >> /\ load = {}
    BY DEF OnTheWay, Confined
  <1>7. Codes(seq) = << >> /\ Heard(0) = << >>
    BY <1>4, <1>6, NoCodes, NothingHeard
  <1>a. CommandTypes'
    BY <1>1, <1>2 DEF CommandTypes
  <1>b. Walk'
    BY <1>1, <1>2, <1>4, <1>5 DEF Walk
  <1>c. OnTheWay'
    <2>1. Command = [i \in 1 .. Len(Command) |-> Command[0 + i]]
      BY <1>4 DEF Script, IsSequence
    <2>2. Codes(seq)' = << >>
      BY <1>1, <1>6, <1>7
    <2> HIDE DEF CommandInv
    <2> QED BY <1>1, <1>2, <1>5, <1>6, <2>1, <2>2 DEF OnTheWay
  <1>d. Confined'
    BY <1>1, <1>2, <1>3, <1>6 DEF Confined
  <1>e. WaitsFor'
    BY <1>1, <1>2 DEF WaitsFor
  <1>f. OnTrack'
    <2>1. ~late => ~Working
      BY DEF WaitsFor
    <2>2. Working' = Working /\ (Codes(seq) = Heard(0))' /\ Sent' < Full'
      BY <1>1, <1>2, <1>4, <1>5, <1>6, <1>7 DEF Working
    <2> QED BY <1>1, <1>3, <1>5, <2>1, <2>2 DEF OnTrack
  <1>g. DoneSoFar'
    BY <1>1, <1>2 DEF DoneSoFar, Written, Working, Walk
  <1> QED BY <1>a, <1>b, <1>c, <1>d, <1>e, <1>f, <1>g

(* The erase functions begin.                                               *)
LEMMA StepErase ==
  ASSUME CommandInv, EraseBlock \/ EraseChip
  PROVE  CommandInv'
  <1> USE DEF CommandInv
  <1>1. pc = "loop" /\ job.function \in Erases
    BY DEF EraseBlock, EraseChip, AtLoop, Erases
  <1>2. pos < End /\ job.function # "write_jedec_1"
    BY <1>1, JobFacts DEF Walk, CommandTypes, Erases, SectorErases, ChipErases
  <1>3. CASE EraseBlock
    <2>1. cycles' = Command /\ pc' = "send" /\ job.function \notin ChipErases
      BY <1>3, CommandOf DEF EraseBlock, Issue, AtLoop
    <2> QED BY <1>1, <1>2, <1>3, <2>1, Issued DEF EraseBlock
  <1>4. CASE EraseChip /\ job.start = 0 /\ job.len = Size
    <2>1. cycles' = Command /\ pc' = "send" /\ result' = result
      BY <1>4, CommandOf DEF EraseChip, Issue, AtLoop
    <2> QED BY <1>1, <1>2, <1>4, <2>1, Issued DEF EraseChip
  <1>5. CASE EraseChip /\ ~(job.start = 0 /\ job.len = Size)
    <2>1. /\ job' = job /\ pos' = pos /\ cycles' = cycles /\ tmp1' = tmp1 /\ polls' = polls
          /\ tried' = tried /\ failed' = failed /\ failures' = failures /\ late' = late
          /\ weak' = weak /\ mem' = mem /\ seq' = seq /\ load' = load /\ busy' = busy
          /\ dq6' = dq6 /\ shows' = shows /\ pc' = "returned" /\ result' = "error"
      BY <1>5 DEF EraseChip, Return, chip
    <2>2. /\ Command' = Command /\ Target' = Target /\ End' = End /\ Cells' = Cells
          /\ Paged' = Paged /\ Intel' = Intel
      BY <2>1, SameCall, SamePlace
    <2>3. /\ MayBecome(busy)' = MayBecome(busy) /\ Working' = Working
      BY <2>1, SameEffects DEF Working
    <2>4. load = {}
      BY <1>1 DEF Confined
    <2>a. CommandTypes'
      BY <2>1, <2>2 DEF CommandTypes
    <2>b. Walk'
      BY <1>1, <2>1, <2>2 DEF Walk
    <2>c. OnTheWay'
      BY <1>1, <2>1, <2>3 DEF OnTheWay
    <2>d. Confined'
      BY <2>1, <2>2, <2>3, <2>4 DEF Confined
    <2>e. WaitsFor'
      BY <1>1, <2>1, <2>2, <2>3 DEF WaitsFor
    <2>f. OnTrack'
      BY <1>1, <2>1 DEF OnTrack, Unchecked
    <2>g. DoneSoFar'
      BY <1>1, <2>1 DEF DoneSoFar, Unchecked, Erases, SectorErases, ChipErases, BlindWrites
    <2> QED BY <2>a, <2>b, <2>c, <2>d, <2>e, <2>f, <2>g
  <1> QED BY <1>3, <1>4, <1>5

(* The write functions go on to the next byte or page.                      *)
LEMMA StepWrite ==
  ASSUME CommandInv, WriteByte \/ WritePage
  PROVE  CommandInv'
  <1> USE DEF CommandInv
  <1>1. CASE WriteByte
    <2>1. /\ pc = "loop" /\ pos < End /\ cycles' = Command /\ pc' = "send"
          /\ job.function \notin ChipErases
      BY <1>1, CommandOf DEF WriteByte, Issue, AtLoop, Erases
    <2>2. job.function = "write_jedec_1" => job.data[pos] = 0
      BY <1>1 DEF WriteByte, SkipOnes
    <2> QED BY <1>1, <2>1, <2>2, Issued DEF WriteByte
  <1>2. CASE WritePage
    <2>1. /\ pc = "loop" /\ pos < End /\ cycles' = Command /\ pc' = "send"
          /\ job.function \notin ChipErases /\ job.function # "write_jedec_1"
      BY <1>2, CommandOf DEF WritePage, Issue, AtLoop, Erases, Paged
    <2> QED BY <1>2, <2>1, Issued DEF WritePage
  <1> QED BY <1>1, <1>2

(* The loop passes a byte that is 0xff.                                     *)
LEMMA StepSkip ==
  ASSUME CommandInv, SkipByte
  PROVE  CommandInv'
  <1> USE DEF CommandInv
  <1>1. /\ job' = job /\ pos' = pos + 1 /\ cycles' = cycles /\ tmp1' = tmp1 /\ polls' = polls
        /\ tried' = tried /\ failed' = failed /\ failures' = failures /\ late' = late
        /\ weak' = weak /\ mem' = mem /\ seq' = seq /\ load' = load /\ busy' = busy
        /\ dq6' = dq6 /\ shows' = shows /\ pc = "loop" /\ pc' = pc /\ result' = result
        /\ pos < End /\ job.data[pos] = 1
    BY DEF SkipByte, AtLoop, chip
  <1>2. /\ job.function \in {"write_jedec_1", "write_28sf040"} /\ ~Paged
        /\ job.function \notin Erases /\ Step(job.function) = 1
    BY DEF SkipByte, AtLoop, SkipOnes, Paged, Erases, SectorErases, ChipErases, Step
  <1>3. End' = End /\ Cells' = Cells /\ Paged' = Paged /\ Intel' = Intel
    BY <1>1, SameCall
  <1>4. MayBecome(busy)' = MayBecome(busy) /\ Working' = Working
    BY <1>1, <1>3 DEF Working, MayBecome
  <1>5. pos \in Nat /\ End \in Nat /\ job.start \in Nat /\ job.start <= pos
    BY CallFacts
  <1>6. tried = 0
    BY <1>1, <1>2 DEF Walk, CommandTypes, Unchecked, BlindWrites
  <1>7. load = {}
    BY <1>1 DEF Confined
  <1>a. CommandTypes'
    BY <1>1, <1>3, <1>5 DEF CommandTypes
  <1>b. Walk'
    <2>1. (pos + 1) % 1 = 0
      BY <1>5
    <2> QED BY <1>1, <1>2, <1>3, <1>6, <2>1 DEF Walk
  <1>c. OnTheWay'
    BY <1>1, <1>4 DEF OnTheWay
  <1>d. Confined'
    <2>1. ~failed /\ job.function \notin Unchecked => busy = Idle
      BY <1>1, <1>6 DEF DoneSoFar, Working
    <2> QED BY <1>1, <1>2, <1>3, <1>4, <1>7, <2>1 DEF Confined
  <1>e. WaitsFor'
    BY <1>1, <1>3, <1>4 DEF WaitsFor
  <1>f. OnTrack'
    BY <1>1 DEF OnTrack
  <1>g. DoneSoFar'
    <2>1. ASSUME \A a \in job.start .. pos - 1 : Written(a)
          PROVE  (\A a \in job.start .. pos - 1 : Written(a))'
      BY <1>1, <1>5, <2>1 DEF Written
    <2>2. result = "none"
      BY <1>1 DEF Walk
    <2> QED BY <1>1, <1>3, <1>4, <2>1, <2>2 DEF DoneSoFar
  <1> QED BY <1>a, <1>b, <1>c, <1>d, <1>e, <1>f, <1>g

(* A write is through.                                                      *)
LEMMA StepDone ==
  ASSUME CommandInv, Done
  PROVE  CommandInv'
  <1> USE DEF CommandInv
  <1>1. /\ job' = job /\ pos' = pos /\ cycles' = cycles /\ tmp1' = tmp1 /\ polls' = polls
        /\ tried' = tried /\ failed' = failed /\ failures' = failures /\ late' = late
        /\ weak' = weak /\ mem' = mem /\ seq' = seq /\ load' = load /\ busy' = busy
        /\ dq6' = dq6 /\ shows' = shows /\ pc = "loop" /\ pc' = "returned"
        /\ result' = (IF failed THEN "error" ELSE "0") /\ pos >= End
        /\ job.function \notin Erases
    BY DEF Done, AtLoop, Return, chip, ByteWrites, BlindWrites, Erases, SectorErases, ChipErases
  <1>2. /\ End' = End /\ Cells' = Cells /\ Paged' = Paged /\ Intel' = Intel /\ Target' = Target
        /\ MayBecome(busy)' = MayBecome(busy) /\ Working' = Working
    BY <1>1, SameCall, SamePlace, SameEffects DEF Working
  <1>3. pos \in Nat /\ End \in Nat /\ pos = End
    BY <1>1, CallFacts
  <1>4. tried = 0
    BY <1>1, <1>3 DEF Walk, CommandTypes
  <1>5. load = {}
    BY <1>1 DEF Confined
  <1>a. CommandTypes'
    BY <1>1, <1>2 DEF CommandTypes
  <1>b. Walk'
    BY <1>1, <1>2, <1>4 DEF Walk
  <1>c. OnTheWay'
    BY <1>1, <1>2 DEF OnTheWay
  <1>d. Confined'
    BY <1>1, <1>2, <1>5 DEF Confined
  <1>e. WaitsFor'
    BY <1>1, <1>2 DEF WaitsFor
  <1>f. OnTrack'
    BY <1>1 DEF OnTrack
  <1>g. DoneSoFar'
    <2>1. (\A a \in job.start .. pos - 1 : Written(a))'
              = (\A a \in job.start .. pos - 1 : Written(a))
      BY <1>1 DEF Written
    <2>2. failed /\ ~late => failures >= MaxTries
      BY DEF OnTrack
    <2> QED BY <1>1, <1>2, <1>3, <1>4, <2>1, <2>2 DEF DoneSoFar
  <1> QED BY <1>a, <1>b, <1>c, <1>d, <1>e, <1>f, <1>g

(* When all cycles have been written, the chip changes what it should, or   *)
(* has all it shall program.                                                *)
Arrived ==
  \/ load = {} /\ Effects(Outcome)
  \/ busy = Idle /\ load = {a \in BlockOf(PageSize, pos) : job.data[a] = 0} /\ load # {}

(* Once all cycles are sent the chip has taken the command.                 *)
LEMMA AllSent ==
  ASSUME CommandInv, pc = "send", cycles = << >>
  PROVE  ~late /\ ~Fault => Arrived
  <1> USE DEF CommandInv
  <1>1. Script(Command) /\ pos \in Nat
    BY CallFacts
  <1>2. Sent = Len(Command) /\ Len(Command) \in Nat /\ Full <= Len(Command) /\ Full \in Nat
    <2>1. KeyKnown
      BY CallFacts
    <2> QED BY <1>1, <2>1 DEF Sent, Script, IsSequence, KeyKnown
  <1>3. ASSUME Paged
        PROVE  /\ SentData = {a \in BlockOf(PageSize, pos) : job.data[a] = 0}
               /\ BlockOf(PageSize, pos) \subseteq Addr /\ Target = BlockOf(PageSize, pos)
               /\ job.function \notin Erases
    <2>1. job.function \notin Erases
      BY <1>3, CommandOf
    <2>2. pos < End
      BY DEF Walk
    <2>3. Target = BlockOf(PageSize, pos) /\ Target = pos .. pos + PageSize - 1
              /\ Target \subseteq Cells
      BY <1>3, <2>1, <2>2, TargetWrite DEF Width
    <2>4. Sent = PageSize + 3
      BY <1>1, <1>2, <1>3 DEF Script
    <2>5. \A a \in BlockOf(PageSize, pos) : a < (pos + Sent) - 3
      BY <1>1, <2>3, <2>4, Sizes
    <2>6. Cells \subseteq Addr
      BY CallFacts
    <2>7. pos + Sent - 3 = (pos + Sent) - 3
      BY <1>1, <1>2
    <2> HIDE DEF Sent
    <2> QED BY <2>1, <2>3, <2>5, <2>6, <2>7 DEF SentData
  <1> SUFFICES ASSUME ~late, ~Fault PROVE Arrived
    OBVIOUS
  <1>4. CASE Sent >= Full /\ ~Paged /\ load = {} /\ Effects(Outcome)
    BY <1>4 DEF Arrived
  <1>5. CASE Paged /\ ~Working /\ SentData = {}
    <2>1. mem \in [Addr -> Val] /\ busy = Idle /\ load = {}
      BY <1>5 DEF Working, CommandTypes
    <2>2. Outcome = mem
      BY <2>1, AtRest
    <2>3. Effects(mem)
      BY <1>3, <1>5, <2>1 DEF Effects
    <2> QED BY <2>1, <2>2, <2>3 DEF Arrived
  <1>6. CASE Paged /\ busy = Idle /\ load = SentData /\ load # {}
    BY <1>3, <1>6 DEF Arrived
  <1>7. CASE load = {} /\ Effects(Outcome)
    BY <1>7 DEF Arrived
  <1>8. ~(Sent < Full)
    BY <1>2
  <1> QED BY <1>4, <1>5, <1>6, <1>7, <1>8 DEF OnTrack

(* A chip that is not at work any more has done what it should.             *)
LEMMA ArrivedRests ==
  ASSUME CommandInv, Arrived, busy = Idle, load = {}
  PROVE  Effects(mem)
  BY AtRest DEF Arrived, CommandInv, CommandTypes

(* The host reads the toggle bit for the first time.                        *)
LEMMA StepToggleFirst ==
  ASSUME CommandInv, ToggleFirst
  PROVE  CommandInv'
  <1> USE DEF CommandInv
  <1>1. PICK v \in Val : ReadBit6(v) /\ tmp1' = v
    BY DEF ToggleFirst
  <1>2. /\ job' = job /\ pos' = pos /\ cycles' = cycles /\ polls' = 0
        /\ tried' = tried /\ failed' = failed /\ failures' = failures /\ late' = late
        /\ weak' = weak /\ mem' = mem /\ load' = load /\ busy' = busy
        /\ shows' = shows /\ pc = "send" /\ pc' = "toggle" /\ result' = result
        /\ cycles = << >> /\ ~Intel
    BY DEF ToggleFirst, Unseen
  <1>3. /\ seq' = << >> /\ dq6' \in Val
        /\ Working => tmp1' = dq6 /\ dq6' = 1 - dq6
    BY <1>1 DEF ReadBit6, CommandTypes, Val
  <1>4. /\ End' = End /\ Cells' = Cells /\ Paged' = Paged /\ Intel' = Intel /\ Target' = Target
        /\ Command' = Command
        /\ MayBecome(busy)' = MayBecome(busy) /\ Working' = Working
        /\ Effects(Outcome)' = Effects(Outcome) /\ Fault' = Fault
    BY <1>2, SameCall, SamePlace, SameEffects DEF Working, Fault
  <1>a. CommandTypes'
    BY <1>1, <1>2, <1>3, <1>4, NoCodes, Sizes DEF CommandTypes
  <1>b. Walk'
    BY <1>2, <1>4 DEF Walk
  <1>c. OnTheWay'
    BY <1>2, <1>3 DEF OnTheWay
  <1>d. Confined'
    BY <1>2, <1>4 DEF Confined
  <1>e. WaitsFor'
    BY <1>2, <1>3, <1>4 DEF WaitsFor, CommandTypes, Val
  <1>f. OnTrack'
    <2>1. Arrived' = Arrived
      BY <1>2, <1>4 DEF Arrived
    <2>2. ~late /\ ~Fault => Arrived
      BY <1>2, AllSent
    <2> QED BY <1>2, <1>4, <2>1, <2>2 DEF OnTrack, Arrived
  <1>g. DoneSoFar'
    BY <1>2, <1>4 DEF DoneSoFar, Written
  <1> QED BY <1>a, <1>b, <1>c, <1>d, <1>e, <1>f, <1>g

(* It compares two reads: a chip at work answers them differently.          *)
LEMMA StepToggle ==
  ASSUME CommandInv, Toggle
  PROVE  CommandInv'
  <1> USE DEF CommandInv
  <1>1. PICK v \in Val : ReadBit6(v) /\ tmp1' = v /\ pc' = IF v = tmp1 THEN "check" ELSE "toggle"
    BY DEF Toggle
  <1>2. /\ job' = job /\ pos' = pos /\ cycles' = cycles /\ polls' = polls + 1 /\ polls < MaxPolls
        /\ tried' = tried /\ failed' = failed /\ failures' = failures /\ late' = late
        /\ weak' = weak /\ mem' = mem /\ load' = load /\ busy' = busy
        /\ shows' = shows /\ pc = "toggle" /\ result' = result
    BY DEF Toggle, Unseen
  <1>3. /\ seq' = << >> /\ dq6' \in Val
        /\ Working => tmp1' = dq6 /\ dq6' = 1 - dq6
    BY <1>1 DEF ReadBit6, CommandTypes, Val
  <1>4. /\ End' = End /\ Cells' = Cells /\ Paged' = Paged /\ Intel' = Intel /\ Target' = Target
        /\ Command' = Command
        /\ MayBecome(busy)' = MayBecome(busy) /\ Working' = Working
        /\ Effects(Outcome)' = Effects(Outcome) /\ Effects(mem)' = Effects(mem) /\ Fault' = Fault
    BY <1>2, SameCall, SamePlace, SameEffects DEF Working, Fault
  <1>5. ~Intel /\ cycles = << >> /\ seq = << >> /\ shows = "array" /\ dq6 \in Val
    BY <1>2 DEF Walk, OnTheWay, WaitsFor, CommandTypes
  <1>6. CASE Working
    <2>1. pc' = "toggle" /\ tmp1' = 1 - dq6'
      BY <1>1, <1>2, <1>3, <1>5, <1>6 DEF WaitsFor, Val
    <2>a. CommandTypes'
      BY <1>1, <1>2, <1>3, <1>4, <2>1, NoCodes, Sizes DEF CommandTypes
    <2>b. Walk'
      BY <1>2, <1>4, <2>1 DEF Walk
    <2>c. OnTheWay'
      BY <1>2, <1>3, <1>5, <2>1 DEF OnTheWay
    <2>d. Confined'
      BY <1>2, <1>4, <2>1 DEF Confined
    <2>e. WaitsFor'
      BY <1>2, <1>3, <1>4, <1>5, <2>1 DEF WaitsFor
    <2>f. OnTrack'
      BY <1>2, <1>4, <2>1 DEF OnTrack
    <2>g. DoneSoFar'
      BY <1>2, <1>4, <2>1 DEF DoneSoFar, Written
    <2> QED BY <2>a, <2>b, <2>c, <2>d, <2>e, <2>f, <2>g
  <1>7. CASE ~Working
    <2>1. pc' \in {"check", "toggle"} /\ busy = Idle /\ load = {}
      BY <1>1, <1>7 DEF Working
    <2>a. CommandTypes'
      BY <1>1, <1>2, <1>3, <1>4, <2>1, NoCodes, Sizes DEF CommandTypes
    <2>b. Walk'
      BY <1>2, <1>4, <2>1, <1>5 DEF Walk
    <2>c. OnTheWay'
      BY <1>2, <1>3, <1>5, <2>1 DEF OnTheWay
    <2>d. Confined'
      BY <1>2, <1>4, <2>1 DEF Confined
    <2>e. WaitsFor'
      BY <1>2, <1>3, <1>4, <1>5, <1>7, <2>1 DEF WaitsFor
    <2>f. OnTrack'
      <3>1. ~late /\ ~Fault => Effects(mem) /\ Effects(Outcome)
        BY <1>2, <2>1, ArrivedRests DEF OnTrack, Arrived
      <3> QED BY <1>2, <1>4, <2>1, <3>1 DEF OnTrack
    <2>g. DoneSoFar'
      BY <1>2, <1>4, <2>1 DEF DoneSoFar, Written
    <2> QED BY <2>a, <2>b, <2>c, <2>d, <2>e, <2>f, <2>g
  <1> QED BY <1>6, <1>7

(* It has had enough.                                                       *)
LEMMA StepToggleLimit ==
  ASSUME CommandInv, ToggleLimit
  PROVE  CommandInv'
  <1> USE DEF CommandInv
  <1>1. /\ job' = job /\ pos' = pos /\ cycles' = cycles /\ polls' = polls /\ tmp1' = tmp1
        /\ tried' = tried /\ failed' = failed /\ failures' = failures
        /\ weak' = weak /\ mem' = mem /\ load' = load /\ busy' = busy /\ seq' = seq /\ dq6' = dq6
        /\ shows' = shows /\ pc = "toggle" /\ pc' = "check" /\ result' = result
        /\ load = {} /\ late' = (late \/ busy # Idle)
    BY DEF ToggleLimit, Unseen
  <1>2. /\ End' = End /\ Cells' = Cells /\ Paged' = Paged /\ Intel' = Intel /\ Target' = Target
        /\ Command' = Command
        /\ MayBecome(busy)' = MayBecome(busy) /\ Working' = Working
        /\ Effects(Outcome)' = Effects(Outcome) /\ Effects(mem)' = Effects(mem) /\ Fault' = Fault
    BY <1>1, SameCall, SamePlace, SameEffects DEF Working, Fault
  <1>3. ~Intel /\ cycles = << >> /\ seq = << >> /\ shows = "array"
    BY <1>1 DEF Walk, OnTheWay, WaitsFor
  <1>4. ~late' => ~late /\ busy = Idle /\ ~Working
    BY <1>1 DEF Working
  <1>a. CommandTypes'
    BY <1>1, <1>2 DEF CommandTypes
  <1>b. Walk'
    BY <1>1, <1>2, <1>3 DEF Walk
  <1>c. OnTheWay'
    BY <1>1, <1>3 DEF OnTheWay
  <1>d. Confined'
    BY <1>1, <1>2 DEF Confined
  <1>e. WaitsFor'
    BY <1>1, <1>2, <1>3, <1>4 DEF WaitsFor
  <1>f. OnTrack'
    <2>1. ~late' /\ ~Fault => Effects(mem)
      BY <1>1, <1>4, ArrivedRests DEF OnTrack, Arrived
    <2> QED BY <1>1, <1>2, <1>4, <2>1 DEF OnTrack
  <1>g. DoneSoFar'
    BY <1>1, <1>2, <1>4 DEF DoneSoFar, Written, Walk
  <1> QED BY <1>a, <1>b, <1>c, <1>d, <1>e, <1>f, <1>g

(* A step that changes nothing.                                             *)
LEMMA Stuttering ==
  ASSUME CommandInv, UNCHANGED vars
  PROVE  CommandInv'
  <1> USE DEF CommandInv
  <1>1. /\ job' = job /\ pos' = pos /\ cycles' = cycles /\ polls' = polls /\ tmp1' = tmp1
        /\ tried' = tried /\ failed' = failed /\ failures' = failures /\ late' = late
        /\ weak' = weak /\ mem' = mem /\ load' = load /\ busy' = busy /\ seq' = seq /\ dq6' = dq6
        /\ shows' = shows /\ pc' = pc /\ result' = result
    BY DEF vars, host, chip
  <1>2. /\ Key' = Key /\ Clears' = Clears /\ Full' = Full
        /\ End' = End /\ Cells' = Cells /\ Paged' = Paged /\ Intel' = Intel /\ Target' = Target
        /\ Command' = Command
        /\ MayBecome(busy)' = MayBecome(busy) /\ Working' = Working
        /\ Effects(Outcome)' = Effects(Outcome) /\ Effects(mem)' = Effects(mem) /\ Fault' = Fault
    BY <1>1, SameCall, SamePlace, SameEffects DEF Working, Fault
  <1>3. Sent' = Sent
    BY <1>1, <1>2 DEF Sent
  <1>4. SentData' = SentData
    BY <1>1, <1>3 DEF SentData
  <1>5. Heard(Sent)' = Heard(Sent)
    <2> HIDE DEF Sent
    <2> QED BY <1>2, <1>3 DEF Heard
  <1>6. (Codes(seq) = Heard(Sent))' = (Codes(seq) = Heard(Sent))
    BY <1>1, <1>5
  <1>7. (\A i \in DOMAIN cycles : Skipped(cycles[i]))'
            = (\A i \in DOMAIN cycles : Skipped(cycles[i]))
    BY <1>1, <1>2 DEF Skipped
  <1>a. CommandTypes'
    BY <1>1, <1>2 DEF CommandTypes
  <1>b. Walk'
    BY <1>1, <1>2, <1>3 DEF Walk
  <1>c. OnTheWay'
    <2> HIDE DEF Sent
    <2> QED BY <1>1, <1>2, <1>3, <1>5 DEF OnTheWay
  <1>d. Confined'
    BY <1>1, <1>2, <1>3 DEF Confined
  <1>e. WaitsFor'
    BY <1>1, <1>2 DEF WaitsFor
  <1>f. OnTrack'
    <2> HIDE DEF Sent
    <2> QED BY <1>1, <1>2, <1>3, <1>4, <1>6, <1>7 DEF OnTrack
  <1>g. DoneSoFar'
    BY <1>1, <1>2 DEF DoneSoFar, Written
  <1> QED BY <1>a, <1>b, <1>c, <1>d, <1>e, <1>f, <1>g

(* It reads the status.                                                     *)
LEMMA StepAsk ==
  ASSUME CommandInv, Ask
  PROVE  CommandInv'
  <1> USE DEF CommandInv
  <1>1. /\ job' = job /\ pos' = pos /\ cycles' = cycles /\ polls' = polls /\ tmp1' = tmp1
        /\ tried' = tried /\ failed' = failed /\ failures' = failures /\ late' = late
        /\ weak' = weak /\ mem' = mem /\ load' = load /\ busy' = busy /\ seq' = seq /\ dq6' = dq6
        /\ shows' = shows /\ pc = "send" /\ result' = result /\ cycles = << >> /\ Intel
        /\ pc' = IF shows = "array" \/ busy = Idle THEN "reset" ELSE "send"
    BY DEF Ask, chip
  <1>2. /\ End' = End /\ Cells' = Cells /\ Paged' = Paged /\ Intel' = Intel /\ Target' = Target
        /\ Command' = Command /\ Full' = Full /\ Sent' = Sent /\ SentData' = SentData
        /\ MayBecome(busy)' = MayBecome(busy) /\ Working' = Working
        /\ Effects(Outcome)' = Effects(Outcome) /\ Effects(mem)' = Effects(mem) /\ Fault' = Fault
    <2>1. Command' = Command
      BY <1>1, SamePlace
    <2>2. Sent' = Sent
      BY <1>1, <2>1 DEF Sent
    <2> QED BY <1>1, <2>1, <2>2, SameCall, SamePlace, SameEffects DEF Working, Fault, SentData
  <1>3. ~Paged /\ load = {} /\ ~late
    BY <1>1 DEF Intel, AskStatus, Paged, Confined, WaitsFor
  <1>4. CASE pc' = "send"
    <2>1. UNCHANGED vars
      BY <1>1, <1>4 DEF vars, host, chip
    <2> QED BY <2>1, Stuttering
  <1>5. CASE pc' = "reset"
    <2>1. busy = Idle /\ ~Working /\ seq = << >>
      <3>1. busy = Idle
        BY <1>1, <1>5 DEF WaitsFor
      <3>2. seq = << >>
        <4>1. Codes(seq) \in {<< >>, Heard(Sent)} /\ IsSequence(seq)
          BY <1>1 DEF OnTheWay, CommandTypes
        <4>2. Script(Command) /\ KeyKnown
          BY CallFacts
        <4>3. Sent \in Nat /\ Sent >= Full /\ Full > Clears /\ Clears \in Nat
          <5>1. Len(cycles) = 0
            BY <1>1
          <5>2. Len(Command) \in Nat /\ Full <= Len(Command)
            BY <4>2 DEF Script, IsSequence
          <5> QED BY <4>2, <5>1, <5>2 DEF Sent, KeyKnown
        <4>4. Heard(Sent) = << >>
          <5> HIDE DEF Sent
          <5>1. ~(Sent <= Clears) /\ ~(Sent < Full)
            BY <4>2, <4>3 DEF KeyKnown
          <5> QED BY <1>3, <5>1 DEF Heard
        <4> QED BY <4>1, <4>4, CodesNone
      <3> QED BY <1>3, <3>1, <3>2 DEF Working
    <2>a. CommandTypes'
      BY <1>1, <1>2, <1>5 DEF CommandTypes
    <2>b. Walk'
      BY <1>1, <1>2, <1>5 DEF Walk
    <2>c. OnTheWay'
      BY <1>1, <1>5, <2>1 DEF OnTheWay
    <2>d. Confined'
      BY <1>1, <1>2, <1>3, <1>5 DEF Confined
    <2>e. WaitsFor'
      BY <1>1, <1>2, <1>5, <2>1 DEF WaitsFor
    <2>f. OnTrack'
      <3>1. ~Fault => Effects(mem)
        BY <1>1, <1>3, <2>1, AllSent, ArrivedRests
      <3> QED BY <1>1, <1>2, <1>5, <3>1 DEF OnTrack
    <2>g. DoneSoFar'
      BY <1>1, <1>2, <1>5 DEF DoneSoFar, Written, Walk
    <2> QED BY <2>a, <2>b, <2>c, <2>d, <2>e, <2>f, <2>g
  <1> QED BY <1>1, <1>4, <1>5

(* It has the chip show its contents again.                                 *)
LEMMA StepReset ==
  ASSUME CommandInv, Reset
  PROVE  CommandInv'
  <1> USE DEF CommandInv
  <1>1. /\ job' = job /\ pos' = pos /\ cycles' = cycles /\ polls' = polls /\ tmp1' = tmp1
        /\ tried' = tried /\ failed' = failed /\ failures' = failures /\ late' = late
        /\ weak' = weak /\ mem' = mem /\ load' = load /\ busy' = busy /\ seq' = << >> /\ dq6' = dq6
        /\ shows' = (IF busy = Idle THEN "array" ELSE shows) /\ pc = "reset" /\ pc' = "check"
        /\ result' = result
    BY DEF Reset
  <1>2. /\ End' = End /\ Cells' = Cells /\ Paged' = Paged /\ Intel' = Intel /\ Target' = Target
        /\ Command' = Command
        /\ MayBecome(busy)' = MayBecome(busy) /\ Working' = Working
        /\ Effects(Outcome)' = Effects(Outcome) /\ Effects(mem)' = Effects(mem) /\ Fault' = Fault
    BY <1>1, SameCall, SamePlace, SameEffects DEF Working, Fault
  <1>3. ~Working /\ busy = Idle /\ shows' = "array" /\ Intel /\ cycles = << >> /\ load = {}
    BY <1>1 DEF WaitsFor, Working, Walk, OnTheWay
  <1>4. job.function # "write_jedec_1"
    BY <1>3 DEF Intel, AskStatus
  <1>a. CommandTypes'
    BY <1>1, <1>2, <1>3, NoCodes DEF CommandTypes
  <1>b. Walk'
    BY <1>1, <1>2, <1>4 DEF Walk
  <1>c. OnTheWay'
    BY <1>1, <1>3 DEF OnTheWay
  <1>d. Confined'
    BY <1>1, <1>2, <1>3 DEF Confined
  <1>e. WaitsFor'
    BY <1>1, <1>2, <1>3 DEF WaitsFor
  <1>f. OnTrack'
    BY <1>1, <1>2 DEF OnTrack
  <1>g. DoneSoFar'
    BY <1>1, <1>2 DEF DoneSoFar, Written, Walk
  <1> QED BY <1>a, <1>b, <1>c, <1>d, <1>e, <1>f, <1>g

(* An erase function returns.                                               *)
LEMMA StepEraseDone ==
  ASSUME CommandInv, EraseDone
  PROVE  CommandInv'
  <1> USE DEF CommandInv
  <1>1. /\ job' = job /\ pos' = pos /\ cycles' = cycles /\ polls' = polls /\ tmp1' = tmp1
        /\ tried' = tried /\ failed' = failed /\ failures' = failures /\ late' = late
        /\ weak' = weak /\ mem' = mem /\ load' = load /\ busy' = busy /\ seq' = seq /\ dq6' = dq6
        /\ shows' = shows /\ pc = "check" /\ pc' = "returned" /\ result' = "0"
        /\ job.function \in Erases
    BY DEF EraseDone, Return, chip
  <1>2. /\ End' = End /\ Cells' = Cells /\ Paged' = Paged /\ Intel' = Intel /\ Target' = Target
        /\ Command' = Command
        /\ MayBecome(busy)' = MayBecome(busy) /\ Working' = Working
    BY <1>1, SameCall, SamePlace, SameEffects DEF Working
  <1>3. /\ job.function \in Unchecked /\ job.function \notin BlindWrites /\ ~failed
        /\ load = {}
    BY <1>1 DEF Walk, Confined, Unchecked, Erases, SectorErases, ChipErases, BlindWrites
  <1>a. CommandTypes'
    BY <1>1, <1>2 DEF CommandTypes
  <1>b. Walk'
    BY <1>1, <1>2 DEF Walk
  <1>c. OnTheWay'
    BY <1>1, <1>2 DEF OnTheWay
  <1>d. Confined'
    BY <1>1, <1>2, <1>3 DEF Confined
  <1>e. WaitsFor'
    BY <1>1, <1>2 DEF WaitsFor
  <1>f. OnTrack'
    BY <1>1, <1>3 DEF OnTrack
  <1>g. DoneSoFar'
    <2>1. Target = Cells
      BY <1>1, TargetErase
    <2>2. ~late /\ ~weak => Effects(mem)
      BY <1>1, <1>3 DEF OnTrack, Fault
    <2>3. ~late /\ ~weak => \A a \in Cells : mem[a] = 1
      BY <1>1, <2>1, <2>2 DEF Effects
    <2> QED BY <1>1, <1>2, <1>3, <2>3 DEF DoneSoFar
  <1> QED BY <1>a, <1>b, <1>c, <1>d, <1>e, <1>f, <1>g

(* A byte or page is not right: the chip has failed once more than it has   *)
(* been tried again.                                                        *)
LEMMA NotRight ==
  ASSUME CommandInv, pc = "check", job.function \notin Unchecked, ~Verifies(Target)
  PROVE  ~late => failures > tried
  <1> USE DEF CommandInv
  <1> SUFFICES ASSUME ~late, ~Fault PROVE FALSE
    BY DEF Fault
  <1>1. Effects(mem) /\ busy = Idle
    BY DEF OnTrack, WaitsFor, Working
  <1>2. job.function \notin Erases /\ pos < End
    BY DEF Unchecked, Walk
  <1>3. Target \subseteq Cells /\ Cells \subseteq Addr
    BY <1>2, TargetWrite, CallFacts
  <1>4. \A a \in Target : mem[a] = job.data[a]
    <2> SUFFICES ASSUME NEW a \in Target PROVE mem[a] = job.data[a]
      OBVIOUS
    <2>1. job.data[a] \in {0, 1}
      BY <1>3, CallFacts DEF Val
    <2>2. job.data[a] = 1 => mem[a] = 1
      BY <1>2, <1>3 DEF Confined
    <2>3. job.data[a] = 0 => mem[a] = 0
      BY <1>1, <1>2 DEF Effects
    <2> QED BY <2>1, <2>2, <2>3
  <1> QED BY <1>1, <1>4 DEF Verifies

(* It is tried again.                                                       *)
LEMMA Retried ==
  ASSUME CommandInv, pc = "check", job.function \notin Unchecked, ~Verifies(Target),
         tried < MaxTries, Retry,
         UNCHANGED <<job, cycles, tmp1, polls, chip, failures, late, weak>>
  PROVE  CommandInv'
  <1> USE DEF CommandInv
  <1>1. /\ job' = job /\ pos' = pos /\ cycles' = cycles /\ polls' = polls /\ tmp1' = tmp1
        /\ tried' = tried + 1 /\ failed' = failed /\ failures' = failures /\ late' = late
        /\ weak' = weak /\ mem' = mem /\ load' = load /\ busy' = busy /\ seq' = seq /\ dq6' = dq6
        /\ shows' = shows /\ pc' = "loop" /\ result' = result
    BY DEF Retry, chip
  <1>2. /\ End' = End /\ Cells' = Cells /\ Paged' = Paged /\ Intel' = Intel /\ Target' = Target
        /\ Command' = Command
        /\ MayBecome(busy)' = MayBecome(busy) /\ Working' = Working
    BY <1>1, SameCall, SamePlace, SameEffects DEF Working
  <1>3. job.function \notin Erases /\ tried \in Nat /\ load = {} /\ MaxTries \in Nat
    BY Sizes DEF Unchecked, Confined, CommandTypes
  <1>a. CommandTypes'
    BY <1>1, <1>2, <1>3 DEF CommandTypes
  <1>b. Walk'
    BY <1>1, <1>2, <1>3 DEF Walk
  <1>c. OnTheWay'
    BY <1>1, <1>2 DEF OnTheWay
  <1>d. Confined'
    BY <1>1, <1>2, <1>3 DEF Confined
  <1>e. WaitsFor'
    BY <1>1, <1>2 DEF WaitsFor
  <1>f. OnTrack'
    <2>1. ~late => tried + 1 <= failures
      BY <1>3, NotRight DEF CommandTypes
    <2>2. failed' /\ ~late' => failures' >= MaxTries
      BY <1>1 DEF OnTrack
    <2> QED BY <1>1, <2>1, <2>2 DEF OnTrack
  <1>g. DoneSoFar'
    BY <1>1, <1>2, <1>3 DEF DoneSoFar, Written, Walk
  <1> QED BY <1>a, <1>b, <1>c, <1>d, <1>e, <1>f, <1>g

(* The loop goes on behind what it has written.                             *)
LEMMA GoesOn ==
  ASSUME CommandInv, pc = "check", job.function \notin Erases,
         pos' = pos + Width, pc' = "loop",
         tried' = IF job.function \in Unchecked THEN tried ELSE 0,
         failed' \in BOOLEAN, failed => failed', failed' => job.function = "write_jedec_1",
         failed' /\ ~late => failures >= MaxTries,
         ~failed' /\ job.function \notin Unchecked => Verifies(Target),
         UNCHANGED <<job, cycles, tmp1, polls, result, chip, failures, late, weak>>
  PROVE  CommandInv'
  <1> USE DEF CommandInv
  <1>1. /\ job' = job /\ cycles' = cycles /\ polls' = polls /\ tmp1' = tmp1
        /\ failures' = failures /\ late' = late /\ result' = result
        /\ weak' = weak /\ mem' = mem /\ load' = load /\ busy' = busy /\ seq' = seq /\ dq6' = dq6
        /\ shows' = shows
    BY DEF chip
  <1>2. pos < End /\ tried' = 0 /\ 0 \in 0 .. MaxTries
    BY Sizes DEF Walk, CommandTypes
  <1>3. /\ End' = End /\ Cells' = Cells /\ Paged' = Paged /\ Intel' = Intel
        /\ MayBecome(busy)' = MayBecome(busy) /\ Working' = Working
    BY <1>1, SameCall DEF Working, MayBecome
  <1>4. /\ Width \in Nat \ {0} /\ Target = pos .. pos + Width - 1
        /\ pos + Width <= End /\ (pos + Width) % Width = 0 /\ Target \subseteq Cells
    BY <1>2, TargetWrite
  <1>5. pos \in Nat /\ End \in Nat /\ job.start \in Nat /\ job.start <= pos
    BY CallFacts
  <1>6. load = {} /\ result = "none"
    BY DEF Confined, Walk
  <1>7. \A a \in job.start .. (pos + Width) - 1 : a \in job.start .. pos - 1 \/ a \in Target
    BY <1>4, <1>5
  <1>a. CommandTypes'
    BY <1>1, <1>2, <1>3, <1>4, <1>5 DEF CommandTypes
  <1>b. Walk'
    <2>1. (pos + Width) % Step(job.function) = 0
      <3>1. CASE Paged
        <4>1. Step(job.function) = 1
          BY <3>1 DEF Step, Paged
        <4>2. pos + Width \in Nat
          BY <1>4, <1>5
        <4> QED BY <4>1, <4>2
      <3>2. CASE ~Paged
        BY <1>4, <3>2 DEF Width
      <3> QED BY <3>1, <3>2
    <2>2. Paged => (pos + Width) % PageSize = 0
      BY <1>4 DEF Width
    <2> HIDE DEF Width
    <2> QED BY <1>1, <1>2, <1>3, <1>4, <2>1, <2>2 DEF Walk
  <1>c. OnTheWay'
    BY <1>1, <1>3 DEF OnTheWay
  <1>d. Confined'
    BY <1>1, <1>3, <1>6 DEF Confined, Verifies
  <1>e. WaitsFor'
    BY <1>1, <1>3 DEF WaitsFor
  <1>f. OnTrack'
    <2>1. ~late /\ job.function \notin Unchecked => 0 <= failures
      BY DEF CommandTypes
    <2> QED BY <1>1, <1>2, <2>1 DEF OnTrack
  <1>g. DoneSoFar'
    <2>1. job.function \in BlindWrites /\ ~late /\ ~weak => \A a \in Target : Written(a)
      BY DEF OnTrack, Fault, Effects, Written, Unchecked
    <2>2. job.function \notin Unchecked /\ ~failed' => \A a \in Target : Written(a)
      BY DEF Verifies, Written
    <2>3. ASSUME \A a \in job.start .. pos - 1 : Written(a), \A a \in Target : Written(a)
          PROVE  (\A a \in job.start .. pos - 1 : Written(a))'
      <3>1. \A a \in job.start .. (pos + Width) - 1 : Written(a)
        BY <1>7, <2>3
      <3>2. \A a \in job.start .. (pos + Width) - 1 : Written(a)'
        BY <1>1, <3>1 DEF Written
      <3>3. pos' - 1 = (pos + Width) - 1
        OBVIOUS
      <3> QED BY <1>1, <3>2, <3>3
    <2>4. job.function \notin Unchecked /\ ~failed' => ~Working
      BY <1>6 DEF Working, Verifies
    <2> QED BY <1>1, <1>3, <1>6, <2>1, <2>2, <2>3, <2>4 DEF DoneSoFar
  <1> QED BY <1>a, <1>b, <1>c, <1>d, <1>e, <1>f, <1>g

(* What a function makes of the chip when it has waited.                    *)
LEMMA StepCheck ==
  ASSUME CommandInv, CheckByte \/ CheckNothing \/ CheckPage
  PROVE  CommandInv'
  <1> USE DEF CommandInv
  <1>1. pc = "check" /\ pos < End /\ pos \in Nat
    BY CallFacts DEF CheckByte, CheckNothing, CheckPage, Walk
  <1>2. ~late /\ job.function \notin Unchecked => tried <= failures
    BY DEF OnTrack
  <1>3. failed => job.function = "write_jedec_1"
    BY DEF Walk
  <1>4. failed /\ ~late => failures >= MaxTries
    BY DEF OnTrack
  <1>5. tried \in Nat /\ failures \in Nat /\ MaxTries \in Nat /\ failed \in BOOLEAN
    BY Sizes DEF CommandTypes
  <1>6. CASE CheckByte
    <2>1. job.function = "write_jedec_1" /\ Width = 1 /\ job.function \notin Erases
          /\ job.function \notin Unchecked
      BY <1>6 DEF CheckByte, Width, Paged, Step, Erases, SectorErases, ChipErases, Unchecked,
         BlindWrites
    <2>2. Target = {pos}
      <3>1. Target = pos .. pos + 1 - 1
        BY <1>1, <2>1, TargetWrite
      <3> QED BY <1>1, <3>1
    <2>3. CASE ~Verifies({pos}) /\ tried < MaxTries
      BY <1>1, <1>6, <2>1, <2>2, <2>3, Retried DEF CheckByte
    <2>4. CASE ~(~Verifies({pos}) /\ tried < MaxTries)
      <3>1. /\ failed' = (failed \/ tried >= MaxTries) /\ pos' = pos + 1 /\ tried' = 0
            /\ pc' = "loop" /\ result' = result
            /\ UNCHANGED <<job, cycles, tmp1, polls, chip, failures, late, weak>>
        BY <1>6, <2>4 DEF CheckByte
      <3>2. failed' /\ ~late => failures >= MaxTries
        <4>1. tried >= MaxTries /\ ~late => failures >= MaxTries
          BY <1>2, <1>5, <2>1
        <4> QED BY <1>4, <3>1, <4>1
      <3>3. ~failed' => Verifies(Target)
        <4>1. tried >= MaxTries \/ tried < MaxTries
          BY <1>5
        <4> QED BY <2>2, <2>4, <3>1, <4>1
      <3>4. failed' \in BOOLEAN /\ (failed => failed')
        BY <3>1, <1>5
      <3>5. pos' = pos + Width /\ tried' = IF job.function \in Unchecked THEN tried ELSE 0
        BY <2>1, <3>1
      <3> HIDE DEF CommandInv
      <3> QED BY <1>1, <2>1, <3>1, <3>2, <3>3, <3>4, <3>5, GoesOn
    <2> QED BY <2>3, <2>4
  <1>7. CASE CheckNothing
    <2>1. job.function \in BlindWrites /\ Width = Step(job.function) /\ job.function \notin Erases
          /\ job.function \in Unchecked
      BY <1>7 DEF CheckNothing, Width, Paged, Erases, SectorErases, ChipErases, Unchecked,
         BlindWrites
    <2>2. /\ pos' = pos + Width /\ pc' = "loop" /\ failed' = failed /\ tried' = tried
          /\ UNCHANGED <<job, cycles, tmp1, polls, result, chip, failures, late, weak>>
      BY <1>7, <2>1 DEF CheckNothing
    <2> HIDE DEF CommandInv
    <2> QED BY <1>1, <1>3, <1>4, <1>5, <2>1, <2>2, GoesOn
  <1>8. CASE CheckPage
    <2>1. Paged /\ Width = PageSize /\ job.function \notin Erases /\ job.function \notin Unchecked
          /\ ~failed
      BY <1>3, <1>8 DEF CheckPage, Width, Paged, Erases, SectorErases, ChipErases, Unchecked,
         BlindWrites
    <2>2. Target = BlockOf(PageSize, pos)
      BY <1>1, <2>1, TargetWrite
    <2>3. CASE Verifies(Target)
      <3>1. /\ pos' = pos + Width /\ pc' = "loop" /\ failed' = failed /\ tried' = 0
            /\ UNCHANGED <<job, cycles, tmp1, polls, result, chip, failures, late, weak>>
        BY <1>8, <2>1, <2>2, <2>3 DEF CheckPage
      <3> HIDE DEF CommandInv
      <3> QED BY <1>1, <1>3, <1>4, <1>5, <2>1, <2>3, <3>1, GoesOn
    <2>4. CASE ~Verifies(Target) /\ tried < MaxTries
      BY <1>1, <1>8, <2>1, <2>2, <2>4, Retried DEF CheckPage
    <2>5. CASE ~Verifies(Target) /\ ~(tried < MaxTries)
      <3>1. /\ job' = job /\ pos' = pos /\ cycles' = cycles /\ polls' = polls /\ tmp1' = tmp1
            /\ tried' = tried /\ failed' = failed /\ failures' = failures /\ late' = late
            /\ weak' = weak /\ mem' = mem /\ load' = load /\ busy' = busy /\ seq' = seq
            /\ dq6' = dq6 /\ shows' = shows /\ pc' = "returned" /\ result' = "error"
        BY <1>8, <2>2, <2>5 DEF CheckPage, Return, chip
      <3>2. /\ End' = End /\ Cells' = Cells /\ Paged' = Paged /\ Intel' = Intel /\ Target' = Target
            /\ Command' = Command
            /\ MayBecome(busy)' = MayBecome(busy) /\ Working' = Working
        BY <3>1, SameCall, SamePlace, SameEffects DEF Working
      <3>3. load = {}
        BY <1>1 DEF Confined
      <3>4. ~late => failures >= MaxTries
        BY <1>2, <1>5, <2>1, <2>5
      <3>a. CommandTypes'
        BY <3>1, <3>2 DEF CommandTypes
      <3>b. Walk'
        BY <1>1, <2>1, <3>1, <3>2 DEF Walk
      <3>c. OnTheWay'
        BY <1>1, <3>1, <3>2 DEF OnTheWay
      <3>d. Confined'
        BY <3>1, <3>2, <3>3 DEF Confined
      <3>e. WaitsFor'
        BY <1>1, <3>1, <3>2 DEF WaitsFor
      <3>f. OnTrack'
        BY <1>2, <1>4, <3>1 DEF OnTrack
      <3>g. DoneSoFar'
        BY <2>1, <3>1, <3>2, <3>4 DEF DoneSoFar, Written
      <3> QED BY <3>a, <3>b, <3>c, <3>d, <3>e, <3>f, <3>g
    <2> QED BY <2>3, <2>4, <2>5
  <1> QED BY <1>6, <1>7, <1>8

-----------------------------------------------------------------------------
(* The steps of the chip preserve it. It starts on the page it has loaded.  *)
LEMMA PageIs ==
  ASSUME CommandInv, load # {}
  PROVE  /\ Paged /\ pos < End /\ job.function \notin Erases /\ job.function \notin Unchecked
         /\ Target = BlockOf(PageSize, pos) /\ load \subseteq Target /\ Target \subseteq Cells
         /\ PageImage = [a \in Target |-> IF a \in load THEN job.data[a] ELSE 1]
  <1>1. Paged /\ pos < End /\ load \subseteq BlockOf(PageSize, pos)
    BY DEF CommandInv, Confined, Walk
  <1>2. job.function \notin Erases /\ job.function \notin Unchecked
    BY <1>1 DEF Paged, Erases, SectorErases, ChipErases, Unchecked, BlindWrites
  <1>3. Target = BlockOf(PageSize, pos) /\ Target = pos .. pos + PageSize - 1
            /\ Target \subseteq Cells
    BY <1>1, <1>2, TargetWrite DEF Width, CommandInv
  <1>4. PICK b \in load : b = CHOOSE c \in load : TRUE
    OBVIOUS
  <1>5. BlockOf(PageSize, b) = BlockOf(PageSize, pos)
    <2>1. pos \in Nat /\ pos % PageSize = 0
      BY <1>1, CallFacts DEF CommandInv, Walk
    <2>2. b \in pos .. pos + PageSize - 1
      BY <1>1, <1>3
    <2> QED BY <2>1, <2>2, Sizes, SameBlock
  <1>6. BlockOf(PageSize, CHOOSE c \in load : TRUE) = Target
    BY <1>3, <1>4, <1>5
  <1> QED BY <1>1, <1>2, <1>3, <1>6 DEF PageImage

(* A page that is loaded is begun, by the chip itself.                      *)
LEMMA StepLoad ==
  ASSUME CommandInv, StartLoad
  PROVE  CommandInv'
  <1> USE DEF CommandInv
  <1>1. /\ job' = job /\ pos' = pos /\ cycles' = cycles /\ polls' = polls /\ tmp1' = tmp1
        /\ tried' = tried /\ failed' = failed /\ late' = late
        /\ weak' = weak /\ mem' = mem /\ load' = {} /\ busy' = PageImage /\ seq' = seq
        /\ dq6' = dq6 /\ shows' = shows /\ pc' = pc /\ result' = result
        /\ load # {} /\ busy = Idle
    BY DEF StartLoad, host
  <1>2. /\ Paged /\ pos < End /\ job.function \notin Erases /\ job.function \notin Unchecked
        /\ Target = BlockOf(PageSize, pos) /\ load \subseteq Target /\ Target \subseteq Cells
        /\ PageImage = [a \in Target |-> IF a \in load THEN job.data[a] ELSE 1]
    BY <1>1, PageIs
  <1>3. /\ Full' = Full /\ End' = End /\ Cells' = Cells /\ Paged' = Paged /\ Intel' = Intel
        /\ Target' = Target /\ Command' = Command
    BY <1>1, SameCall, SamePlace
  <1>4. Sent' = Sent
    BY <1>1, <1>3 DEF Sent
  <1>5. Working /\ Working' /\ pc \in {"send", "toggle"} /\ (pc = "send" => Sent >= Full)
            /\ seq = << >>
        /\ ~Intel
    <2>1. Working /\ pc \in {"send", "toggle"} /\ (pc = "send" => Sent >= Full) /\ seq = << >>
      BY <1>1 DEF Confined, Working, OnTheWay
    <2>2. ~Intel
      BY <1>2 DEF Intel, Paged, AskStatus
    <2>3. PageImage # Idle
      <3>1. DOMAIN PageImage # {} /\ DOMAIN Idle = {}
        BY <1>1, <1>2 DEF Idle
      <3> QED BY <3>1
    <2> QED BY <1>1, <2>1, <2>2, <2>3 DEF Working
  <1>6. failures' \in 0 .. MaxFailures /\ failures <= failures'
    BY Sizes DEF StartLoad, CommandTypes
  <1>7. Cells \subseteq Addr /\ job.data \in [Addr -> Val] /\ pos \in Nat
    BY CallFacts
  <1>a. CommandTypes'
    BY <1>1, <1>3, <1>6 DEF CommandTypes
  <1>b. Walk'
    <2> HIDE DEF Sent
    <2> QED BY <1>1, <1>2, <1>3, <1>4 DEF Walk
  <1>c. OnTheWay'
    <2>1. Codes(seq)' = << >>
      BY <1>1, <1>5, NoCodes
    <2> HIDE DEF Sent
    <2> QED BY <1>1, <1>3, <1>4, <1>5, <2>1 DEF OnTheWay
  <1>d. Confined'
    <2>1. MayBecome(busy)'
      BY <1>1, <1>2, <1>3, <1>7 DEF MayBecome, Val
    <2> QED BY <1>1, <1>2, <1>3, <2>1 DEF Confined
  <1>e. WaitsFor'
    BY <1>1, <1>3, <1>5 DEF WaitsFor
  <1>f. OnTrack'
    <2>1. CASE \A i \in DOMAIN cycles : Skipped(cycles[i])
      <3>1. failures' = failures /\ Fault' = Fault
        BY <1>1, <2>1 DEF StartLoad, Fault
      <3>2. (\A i \in DOMAIN cycles : Skipped(cycles[i]))'
        BY <1>1, <1>3, <2>1 DEF Skipped
      <3>3. ASSUME \A a \in Target : job.data[a] = 0 => a \in load
            PROVE  Effects(Outcome)'
        <4>1. \A a \in Target : job.data[a] = 0 => PageImage[a] = 0
          BY <1>2, <3>3
        <4>2. DOMAIN PageImage = Target /\ Target \subseteq Addr
          BY <1>2, <1>7
        <4> HIDE DEF PageImage
        <4> QED BY <1>1, <1>2, <1>3, <4>1, <4>2 DEF Effects, Outcome
      <3>4. CASE pc = "send"
        <4>1. SUFFICES ASSUME ~late, ~Fault PROVE (Sent >= Full /\ Paged /\ load = {}
                    /\ Effects(Outcome))'
          <5> HIDE DEF Sent
          <5> QED BY <1>1, <1>2, <3>1, <3>2, <3>4 DEF OnTrack
        <4>2. load = SentData
          BY <1>1, <1>2, <1>5, <3>4, <4>1 DEF OnTrack, Working
        <4>3. \A a \in Target : job.data[a] = 0 => a \in load
          <5> SUFFICES ASSUME NEW a \in Target, job.data[a] = 0, a \notin load PROVE FALSE
            OBVIOUS
          <5>1. Script(Command) /\ KeyKnown
            BY CallFacts
          <5>2. /\ Len(cycles) <= Len(Command)
                /\ cycles = [i \in 1 .. Len(cycles) |-> Command[Sent + i]]
            BY <3>4 DEF OnTheWay
          <5>3. Len(Command) = PageSize + 3 /\ \A n \in 4 .. Len(Command) : Command[n].addr
                    = pos + n - 4
            BY <1>2, <5>1 DEF Script
          <5>4. Target = pos .. pos + PageSize - 1
            BY <1>2, TargetWrite DEF Width
          <5>5. Len(cycles) \in Nat /\ Sent \in Nat /\ Sent + Len(cycles) = PageSize + 3
            BY <5>2, <5>3, Sizes DEF Sent
          <5>6. Full = 4 /\ Sent >= 4
            BY <1>2, <1>5, <3>4, <5>1 DEF KeyKnown
          <5> DEFINE i == (a + 4) - (pos + Sent)
          <5>7. a >= (pos + Sent) - 3
            <6>1. a \in BlockOf(PageSize, pos) /\ ~(a < pos + Sent - 3)
              BY <1>2, <4>2 DEF SentData
            <6> HIDE DEF Sent
            <6> QED BY <1>7, <5>4, <5>5, <6>1
          <5>8. i \in 1 .. Len(cycles) /\ Sent + i \in 4 .. Len(Command) /\ pos + (Sent + i) - 4 = a
            <6> DEFINE n == Sent
            <6>1. a \in Nat /\ pos \in Nat /\ n \in Nat /\ PageSize \in Nat /\ Len(cycles) \in Nat
                  /\ n >= 4 /\ n + Len(cycles) = PageSize + 3 /\ a >= (pos + n) - 3
                  /\ a <= pos + PageSize - 1 /\ Len(Command) = PageSize + 3
              BY <1>7, <5>3, <5>4, <5>5, <5>6, <5>7, Sizes
            <6> HIDE DEF n
            <6> DEFINE k == (a + 4) - (pos + n)
                       m == Len(cycles)
                       l == Len(Command)
            <6>2. k \in Int /\ n + k = (a + 4) - pos /\ m \in Nat /\ l \in Nat
              BY ONLY <6>1
            <6>3. k >= 1 /\ k <= m /\ n + k >= 4 /\ n + k <= l /\ pos + (n + k) = a + 4
              BY ONLY <6>1, <6>2
            <6> HIDE DEF k, m, l
            <6>4. k \in 1 .. m /\ n + k \in 4 .. l /\ pos + (n + k) - 4 = a
              BY ONLY <6>1, <6>2, <6>3
            <6> QED BY <6>4 DEF n, k, m, l
          <5>9. cycles[i] = Command[Sent + i] /\ i \in DOMAIN cycles
            <6> HIDE DEF i, Sent
            <6> QED BY <5>2, <5>8
          <5>10. cycles[i].addr = a
            <6> HIDE DEF i, Sent
            <6> QED BY <5>3, <5>8, <5>9
          <5>11. job.data[cycles[i].addr] = 1
            BY <2>1, <5>9 DEF Skipped
          <5> HIDE DEF i
          <5> QED BY <5>10, <5>11
        <4>4. Effects(Outcome)'
          BY <3>3, <4>3
        <4> HIDE DEF Sent
        <4> QED BY <1>1, <1>2, <1>3, <1>4, <1>5, <3>4, <4>4
      <3>5. CASE pc = "toggle"
        <4>1. ~late /\ ~Fault => Effects(Outcome)'
          BY <1>1, <1>2, <3>3, <3>5 DEF OnTrack
        <4> QED BY <1>1, <3>1, <3>5, <4>1 DEF OnTrack
      <3> QED BY <1>5, <3>4, <3>5
    <2>2. CASE ~\A i \in DOMAIN cycles : Skipped(cycles[i])
      <3>1. failures' = failures + 1
        BY <2>2 DEF StartLoad
      <3>2. tried \in Nat /\ failures \in Nat /\ MaxTries \in Nat
        BY Sizes DEF CommandTypes
      <3>3. ~late => failures' > tried
        <4>1. ~late => tried <= failures
          BY <1>2 DEF OnTrack
        <4> QED BY <3>1, <3>2, <4>1
      <3>4. ~late' => Fault'
        BY <1>1, <1>2, <3>3 DEF Fault
      <3>5. ~late' => tried' <= failures'
        BY <1>1, <3>1, <3>2, <3>3
      <3>6. failed' /\ ~late' => failures' >= MaxTries
        <4>1. failed /\ ~late => failures >= MaxTries
          BY DEF OnTrack
        <4> QED BY <1>1, <3>1, <3>2, <4>1
      <3> QED BY <3>4, <3>5, <3>6 DEF OnTrack
    <2> QED BY <2>1, <2>2
  <1>g. DoneSoFar'
    BY <1>1, <1>2, <1>3, <1>5 DEF DoneSoFar, Written, Walk
  <1> QED BY <1>a, <1>b, <1>c, <1>d, <1>e, <1>f, <1>g

(* It is done with what it does, or fails.                                  *)
LEMMA BusyFacts ==
  ASSUME CommandInv, busy # Idle
  PROVE  /\ Working /\ load = {} /\ seq = << >>
         /\ DOMAIN busy \subseteq Cells /\ Cells \subseteq Addr
         /\ pc \in {"check", "loop", "returned"} => late
         /\ pc # "reset"
  <1> USE DEF CommandInv
  <1>1. Working /\ load = {} /\ DOMAIN busy \subseteq Cells
    BY DEF Confined, Working
  <1>2. Cells \subseteq Addr
    BY CallFacts
  <1> QED BY <1>1, <1>2 DEF WaitsFor, OnTheWay, CommandTypes

(* The chip finishes.                                                       *)
LEMMA StepFinish ==
  ASSUME CommandInv, Finish
  PROVE  CommandInv'
  <1> USE DEF CommandInv
  <1>1. /\ job' = job /\ pos' = pos /\ cycles' = cycles /\ polls' = polls /\ tmp1' = tmp1
        /\ tried' = tried /\ failed' = failed /\ late' = late /\ failures' = failures
        /\ weak' = weak /\ mem' = Outcome /\ load' = load /\ busy' = Idle /\ seq' = seq
        /\ dq6' = dq6 /\ shows' = shows /\ pc' = pc /\ result' = result
        /\ busy # Idle
    BY DEF Finish, host
  <1>2. /\ Working /\ load = {} /\ seq = << >>
        /\ DOMAIN busy \subseteq Cells /\ Cells \subseteq Addr
        /\ pc \in {"check", "loop", "returned"} => late
        /\ pc # "reset"
    BY <1>1, BusyFacts
  <1>3. /\ Full' = Full /\ End' = End /\ Cells' = Cells /\ Paged' = Paged /\ Intel' = Intel
        /\ Target' = Target /\ Command' = Command
    BY <1>1, SameCall, SamePlace
  <1>4. Sent' = Sent /\ Fault' = Fault /\ ~Working'
    BY <1>1, <1>2, <1>3 DEF Sent, Fault, Working
  <1>5. /\ Outcome \in [Addr -> Val]
        /\ \A a \in Addr : Outcome[a] = IF a \in DOMAIN busy THEN busy[a] ELSE mem[a]
    <2>1. \A a \in DOMAIN busy : busy[a] \in Val
      BY DEF Confined, MayBecome
    <2> QED BY <1>2, <2>1 DEF Outcome, CommandTypes
  <1>6. Outcome' = Outcome
    BY <1>1, <1>5 DEF Outcome, Idle
  <1>7. (Effects(Outcome))' = Effects(Outcome)
    BY <1>1, <1>3, <1>6 DEF Effects
  <1>a. CommandTypes'
    BY <1>1, <1>3, <1>5 DEF CommandTypes
  <1>b. Walk'
    <2> HIDE DEF Sent
    <2> QED BY <1>1, <1>3, <1>4 DEF Walk
  <1>c. OnTheWay'
    <2>1. Codes(seq)' = << >>
      BY <1>1, <1>2, NoCodes
    <2> HIDE DEF Sent
    <2> QED BY <1>1, <1>2, <1>3, <1>4, <2>1 DEF OnTheWay
  <1>d. Confined'
    <2>1. DOMAIN busy' = {}
      BY <1>1 DEF Idle
    <2>2. MayBecome(busy)'
      BY <2>1 DEF MayBecome
    <2>3. ASSUME job.function \notin Erases, NEW a \in Cells, job.data[a] = 1
          PROVE  Outcome[a] = 1
      <3>1. mem[a] = 1 /\ a \in Addr
        BY <1>2, <2>3 DEF Confined
      <3>2. a \in DOMAIN busy => busy[a] = 1
        BY <2>3, <3>1 DEF Confined, MayBecome
      <3> QED BY <1>5, <3>1, <3>2
    <2> QED BY <1>1, <1>2, <1>3, <2>1, <2>2, <2>3 DEF Confined
  <1>e. WaitsFor'
    BY <1>1, <1>2, <1>3, <1>4 DEF WaitsFor
  <1>f. OnTrack'
    <2>1. CASE pc = "send"
      <3>1. (\A i \in DOMAIN cycles : Skipped(cycles[i]))'
                = (\A i \in DOMAIN cycles : Skipped(cycles[i]))
        BY <1>1, <1>3 DEF Skipped
      <3> HIDE DEF Sent
      <3> QED BY <1>1, <1>2, <1>3, <1>4, <1>7, <2>1, <3>1 DEF OnTrack
    <2>2. CASE pc = "toggle"
      BY <1>1, <1>2, <1>3, <1>4, <1>7, <2>2 DEF OnTrack
    <2>3. CASE pc \notin {"send", "toggle"}
      BY <1>1, <1>2, <2>3 DEF OnTrack, CommandTypes
    <2> QED BY <2>1, <2>2, <2>3
  <1>g. DoneSoFar'
    <2>1. ASSUME job.function \in BlindWrites, NEW a \in job.start .. pos - 1, Written(a)
          PROVE  Written(a)'
      <3>1. a \in Cells /\ a \in Addr
        BY <1>2, CallFacts DEF Cells
      <3>2. job.function \notin Erases /\ ~Paged
        BY <2>1 DEF BlindWrites, Erases, SectorErases, ChipErases, Paged
      <3>3. a \in DOMAIN busy => (job.data[a] = 0 => busy[a] = 0)
        BY <3>2 DEF Confined, MayBecome
      <3> QED BY <1>1, <1>5, <2>1, <3>1, <3>3 DEF Written
    <2>2. ASSUME job.function \notin Unchecked, ~failed, NEW a \in job.start .. pos - 1, Written(a)
          PROVE  Written(a)'
      <3>1. a \in Addr
        BY <1>2, CallFacts DEF Cells
      <3>2. a \notin DOMAIN busy
        <4>1. DOMAIN busy = Target /\ pos < End /\ job.function \notin Erases
          BY <1>1, <2>2 DEF Confined, Unchecked
        <4>2. Target = pos .. pos + Width - 1
          BY <4>1, TargetWrite
        <4> HIDE DEF Width
        <4>3. pos \in Nat /\ job.start \in Nat
          BY CallFacts
        <4> QED BY <4>1, <4>2, <4>3
      <3> QED BY <1>1, <1>5, <2>2, <3>1, <3>2 DEF Written
    <2>3. ASSUME result = "0", job.function \in Erases, ~late, ~weak
          PROVE  \A a \in Cells : mem'[a] = 1
      <3>1. \A a \in Cells : mem[a] = 1
        BY <2>3 DEF DoneSoFar
      <3>2. \A a \in DOMAIN busy : busy[a] = 1
        BY <2>3 DEF Confined, MayBecome
      <3> QED BY <1>1, <1>2, <1>5, <3>1, <3>2
    <2> QED BY <1>1, <1>3, <1>4, <2>1, <2>2, <2>3 DEF DoneSoFar
  <1> QED BY <1>a, <1>b, <1>c, <1>d, <1>e, <1>f, <1>g

(* The chip fails.                                                          *)
LEMMA StepFail ==
  ASSUME CommandInv, Fail
  PROVE  CommandInv'
  <1> USE DEF CommandInv
  <1>1. /\ job' = job /\ pos' = pos /\ cycles' = cycles /\ polls' = polls /\ tmp1' = tmp1
        /\ tried' = tried /\ failed' = failed /\ late' = late /\ failures' = failures + 1
        /\ weak' = (weak \/ job.function \in Unchecked) /\ mem' = mem /\ load' = load
        /\ busy' = Idle /\ seq' = seq /\ failures < MaxFailures
        /\ dq6' = dq6 /\ shows' = shows /\ pc' = pc /\ result' = result
        /\ busy # Idle
    BY DEF Fail, host
  <1>2. /\ Working /\ load = {} /\ seq = << >>
        /\ DOMAIN busy \subseteq Cells /\ Cells \subseteq Addr
        /\ pc \in {"check", "loop", "returned"} => late
        /\ pc # "reset"
    BY <1>1, BusyFacts
  <1>3. /\ Full' = Full /\ End' = End /\ Cells' = Cells /\ Paged' = Paged /\ Intel' = Intel
        /\ Target' = Target /\ Command' = Command
    BY <1>1, SameCall, SamePlace
  <1>4. Sent' = Sent /\ ~Working'
    BY <1>1, <1>2, <1>3 DEF Sent, Working
  <1>5. tried \in Nat /\ failures \in Nat /\ failures + 1 \in 0 .. MaxFailures /\ MaxTries \in Nat
        /\ weak' \in BOOLEAN
    <2>1. weak' \in BOOLEAN
      BY <1>1 DEF CommandTypes
    <2> QED BY <1>1, <2>1, Sizes DEF CommandTypes
  <1>6. ~late => Fault'
    <2>1. CASE job.function \in Unchecked
      <3>1. weak' = TRUE
        BY <1>1, <2>1
      <3> QED BY <1>1, <2>1, <3>1 DEF Fault
    <2>2. CASE job.function \notin Unchecked
      <3>1. ~late => tried <= failures
        BY <2>2 DEF OnTrack
      <3>2. ~late => failures + 1 > tried
        BY <1>5, <3>1
      <3> QED BY <1>1, <2>2, <3>2 DEF Fault
    <2> QED BY <2>1, <2>2
  <1>a. CommandTypes'
    BY <1>1, <1>3, <1>5 DEF CommandTypes
  <1>b. Walk'
    <2>1. ~(job.function \in Erases /\ (pc = "loop" \/ (pc = "send" /\ Sent < Full)))
      <3> SUFFICES ASSUME job.function \in Erases, pc = "loop" \/ (pc = "send" /\ Sent < Full)
                   PROVE  FALSE
        OBVIOUS
      <3>1. ~late /\ ~weak
        BY DEF Walk
      <3>2. pc = "send" /\ Sent < Full
        BY <1>2, <3>1
      <3>3. ~Fault
        BY <3>1 DEF Fault, Unchecked
      <3>4. ~(Sent >= Full)
        <4>1. Full \in Nat /\ Sent \in Int
          <5>1. KeyKnown /\ Script(Command)
            BY CallFacts
          <5>2. Len(cycles) <= Len(Command) /\ cycles
                    = [i \in 1 .. Len(cycles) |-> Command[Sent + i]]
            BY <3>2 DEF OnTheWay
          <5>3. Len(cycles) \in Nat
            <6> HIDE DEF Sent
            <6> QED BY <5>2
          <5> QED BY <5>1, <5>3 DEF KeyKnown, Script, IsSequence, Sent
        <4> HIDE DEF Sent
        <4> QED BY <3>2, <4>1
      <3> HIDE DEF Sent
      <3> QED BY <1>2, <3>1, <3>2, <3>3, <3>4 DEF OnTrack
    <2> HIDE DEF Sent
    <2> QED BY <1>1, <1>3, <1>4, <2>1 DEF Walk
  <1>c. OnTheWay'
    <2>1. Codes(seq)' = << >>
      BY <1>1, <1>2, NoCodes
    <2> HIDE DEF Sent
    <2> QED BY <1>1, <1>2, <1>3, <1>4, <2>1 DEF OnTheWay
  <1>d. Confined'
    <2>1. DOMAIN busy' = {}
      BY <1>1 DEF Idle
    <2>2. MayBecome(busy)'
      BY <2>1 DEF MayBecome
    <2> QED BY <1>1, <1>2, <1>3, <2>1, <2>2 DEF Confined
  <1>e. WaitsFor'
    BY <1>1, <1>2, <1>3, <1>4 DEF WaitsFor
  <1>f. OnTrack'
    <2>1. ~late /\ job.function \notin Unchecked => tried <= failures + 1
      <3>1. ~late /\ job.function \notin Unchecked => tried <= failures
        BY DEF OnTrack
      <3> QED BY <1>5, <3>1
    <2>2. failed /\ ~late => failures + 1 >= MaxTries
      <3>1. failed /\ ~late => failures >= MaxTries
        BY DEF OnTrack
      <3> QED BY <1>5, <3>1
    <2> QED BY <1>1, <1>6, <2>1, <2>2 DEF OnTrack
  <1>g. DoneSoFar'
    <2>1. ~weak' => ~weak
      BY <1>1
    <2>2. result = "error" /\ ~late => job.function \in Unchecked \/ failures + 1 >= MaxTries
      <3>1. result = "error" /\ ~late => job.function \in Unchecked \/ failures >= MaxTries
        BY DEF DoneSoFar
      <3> QED BY <1>5, <3>1
    <2>3. \A a \in job.start .. pos - 1 : Written(a)' = Written(a)
      BY <1>1 DEF Written
    <2> QED BY <1>1, <1>3, <1>4, <2>1, <2>2, <2>3 DEF DoneSoFar
  <1> QED BY <1>a, <1>b, <1>c, <1>d, <1>e, <1>f, <1>g

-----------------------------------------------------------------------------
(* A sequence without its first element.                                    *)
LEMMA TailIs ==
  ASSUME NEW s, NEW m \in Nat \ {0}, s = [i \in 1 .. m |-> s[i]], Len(s) = m
  PROVE  /\ Len(Tail(s)) = m - 1
         /\ \A i \in 1 .. m - 1 : Tail(s)[i] = s[i + 1]
         /\ Tail(s) = [i \in 1 .. m - 1 |-> s[i + 1]]
         /\ DOMAIN Tail(s) = 1 .. m - 1 /\ DOMAIN s = 1 .. m
  <1>1. s # << >>
    OBVIOUS
  <1>2. Tail(s) = [i \in 1 .. m - 1 |-> s[i + 1]]
    BY <1>1
  <1>3. m - 1 \in Nat
    OBVIOUS
  <1>4. Len(Tail(s)) = m - 1
    BY <1>2, <1>3
  <1> QED BY <1>2, <1>4

(* A cycle is written: the next of the command.                             *)
LEMMA SendFacts ==
  ASSUME CommandInv, Send
  PROVE  /\ job' = job /\ pos' = pos /\ polls' = polls /\ tmp1' = tmp1
         /\ tried' = tried /\ failed' = failed /\ late' = late /\ failures' = failures
         /\ weak' = weak /\ mem' = mem /\ dq6' = dq6 /\ result' = result
         /\ pc = "send" /\ pc' = "send" /\ cycles' = Tail(cycles)
         /\ Sent \in Nat /\ Sent < Len(Command) /\ Sent' = Sent + 1
         /\ cycles[1] = Command[Sent + 1] /\ cycles[1].op = OpAt(Sent + 1) /\ 1 \in DOMAIN cycles
         /\ Len(cycles') <= Len(Command)
         /\ cycles' = [i \in 1 .. Len(cycles') |-> Command[(Sent + 1) + i]]
         /\ \A i \in DOMAIN cycles' : i + 1 \in DOMAIN cycles /\ cycles'[i] = cycles[i + 1]
         /\ Sent < Full \/ Paged \/ Intel
         /\ job.function \in SectorErases \cup ByteWrites /\ Sent + 1 = Full => cycles[1].addr
              = KeyAddr
         /\ Paged => /\ Len(Command) = PageSize + 3 /\ Full = 4
                     /\ Sent >= 3 => cycles[1].addr = (pos + Sent) - 3
  <1> USE DEF CommandInv
  <1>1. /\ job' = job /\ pos' = pos /\ polls' = polls /\ tmp1' = tmp1
        /\ tried' = tried /\ failed' = failed /\ late' = late /\ failures' = failures
        /\ weak' = weak /\ mem' = mem /\ dq6' = dq6 /\ result' = result
        /\ pc = "send" /\ pc' = "send" /\ cycles' = Tail(cycles) /\ cycles # << >>
    BY DEF Send
  <1>2. Script(Command) /\ KeyKnown /\ pos \in Nat
    BY CallFacts
  <1>3. /\ Len(cycles) <= Len(Command)
        /\ cycles = [i \in 1 .. Len(cycles) |-> Command[Sent + i]]
    BY <1>1 DEF OnTheWay
  <1> DEFINE n == Sent
             len == Len(Command)
             m == Len(cycles)
  <1>4. len \in Nat /\ m \in Nat /\ n = len - m /\ m <= len
    <2>1. m \in Nat
      <3> HIDE DEF Sent
      <3> QED BY <1>3
    <2> QED BY <1>2, <1>3, <2>1 DEF Sent, Script, IsSequence
  <1>5. m > 0
    <2>1. ASSUME m = 0 PROVE FALSE
      <3>1. cycles = << >>
        <4> HIDE DEF Sent
        <4> QED BY <1>3, <2>1
      <3> QED BY <1>1, <3>1
    <2> QED BY <1>4, <2>1
  <1>6. n \in Nat /\ n < len
    BY <1>4, <1>5
  <1>7. cycles = [i \in 1 .. m |-> Command[n + i]]
    BY <1>3
  <1> HIDE DEF m, n, len
  <1>8. /\ Len(Tail(cycles)) = m - 1
        /\ \A i \in 1 .. m - 1 : Tail(cycles)[i] = cycles[i + 1]
        /\ Tail(cycles) = [i \in 1 .. m - 1 |-> cycles[i + 1]]
        /\ DOMAIN Tail(cycles) = 1 .. m - 1 /\ DOMAIN cycles = 1 .. m
    <2>1. Len(cycles) = m
      BY DEF m
    <2>2. m \in Nat \ {0} /\ cycles = [i \in 1 .. m |-> cycles[i]]
      BY <1>4, <1>5, <1>7
    <2> QED BY <2>1, <2>2, TailIs
  <1>9. Len(cycles') = m - 1 /\ m - 1 <= len
    BY <1>1, <1>4, <1>8
  <1>10. Sent' = n + 1
    <2>1. Command' = Command
      BY <1>1, SamePlace
    <2> QED BY <1>4, <1>9, <2>1 DEF Sent, len
  <1>11. cycles' = [i \in 1 .. m - 1 |-> Command[(n + 1) + i]]
    <2>1. \A i \in 1 .. m - 1 : cycles[i + 1] = Command[(n + 1) + i]
      <3> SUFFICES ASSUME NEW i \in 1 .. m - 1 PROVE cycles[i + 1] = Command[(n + 1) + i]
        OBVIOUS
      <3>1. i + 1 \in 1 .. m /\ n + (i + 1) = (n + 1) + i
        BY <1>4, <1>6
      <3>2. cycles[i + 1] = Command[n + (i + 1)]
        BY <1>7, <3>1
      <3> QED BY <3>1, <3>2
    <2> QED BY <1>1, <1>8, <2>1
  <1>12. cycles[1] = Command[n + 1] /\ 1 \in DOMAIN cycles
    BY <1>4, <1>5, <1>7, <1>8
  <1>13. Command[n + 1].op = OpAt(n + 1)
    BY <1>2, <1>6 DEF Script, len
  <1>14. n < Full \/ Paged \/ Intel
    <2>1. len > Full => Intel \/ Paged
      BY <1>2 DEF Script, len
    <2>2. Full \in Nat
      BY <1>2 DEF KeyKnown
    <2> QED BY <1>4, <1>6, <2>1, <2>2
  <1>15. job.function \in SectorErases \cup ByteWrites /\ n + 1 = Full => cycles[1].addr = KeyAddr
    BY <1>2, <1>12 DEF Script
  <1>16. Paged => /\ len = PageSize + 3 /\ Full = 4
                  /\ n >= 3 => cycles[1].addr = (pos + n) - 3
    <2>1. SUFFICES ASSUME Paged PROVE /\ len = PageSize + 3 /\ Full = 4
                                      /\ n >= 3 => cycles[1].addr = (pos + n) - 3
      OBVIOUS
    <2>2. len = PageSize + 3 /\ Full = 4
      BY <1>2, <2>1 DEF Script, KeyKnown, len
    <2>3. ASSUME n >= 3 PROVE cycles[1].addr = (pos + n) - 3
      <3>1. n + 1 \in 4 .. len
        BY <1>4, <1>6, <2>3
      <3>2. Command[n + 1].addr = pos + (n + 1) - 4
        BY <1>2, <2>1, <3>1 DEF Script, len
      <3>3. pos + (n + 1) - 4 = (pos + n) - 3
        BY <1>2, <1>6
      <3> QED BY <1>12, <3>2, <3>3
    <2> QED BY <2>2, <2>3
  <1>17. \A i \in DOMAIN cycles' : i + 1 \in DOMAIN cycles /\ cycles'[i] = cycles[i + 1]
    BY <1>1, <1>4, <1>8
  <1> HIDE DEF CommandInv
  <1> QED BY <1>1, <1>6, <1>9, <1>10, <1>11, <1>12, <1>13, <1>14, <1>15, <1>16, <1>17 DEF m, n, len

(* What the chip starts when it has heard the key.                          *)
LEMMA StartsIs ==
  ASSUME CommandInv, pc = "send", ~Paged, NEW c,
         job.function \in SectorErases \cup ByteWrites => c.addr = KeyAddr
  PROVE  /\ DOMAIN Starts(Key, c) = Target /\ Target \subseteq Cells /\ Target # {}
         /\ \A a \in Target :
              Starts(Key, c)[a] = IF job.function \in Erases THEN 1
                                  ELSE IF job.data[a] = 0 THEN 0 ELSE mem[a]
  <1> USE DEF CommandInv
  <1>1. KeyKnown /\ pos < End /\ pos \in Nat /\ job.start \in Nat /\ End \in Nat
    BY CallFacts DEF Walk
  <1>2. CASE job.function \in SectorErases
    <2>1. job.function \in Erases /\ Target = Cells /\ c.addr = job.start
      BY <1>2, TargetErase DEF Erases, KeyAddr, SectorErases, ByteWrites, BlindWrites
    <2>2. Starts(Key, c) = Erased(BlockOf(BlockSize, job.start))
      BY <1>1, <1>2, <2>1 DEF KeyKnown, Starts
    <2>3. Target = BlockOf(BlockSize, job.start)
      <3>1. job.function \notin ChipErases /\ job.function \notin ByteWrites
        BY <1>2, CommandOf DEF Erases
      <3> QED BY <1>2, <3>1 DEF Target
    <2>4. job.start \in Cells
      BY <1>1 DEF Cells, Walk, CommandTypes
    <2> QED BY <2>1, <2>2, <2>3, <2>4 DEF Erased
  <1>3. CASE job.function \in ChipErases
    <2>1. job.function \in Erases /\ Target = Cells
      BY <1>3, TargetErase DEF Erases
    <2>2. Starts(Key, c) = Erased(Addr)
      BY <1>1, <1>3 DEF KeyKnown, Starts
    <2>3. Target = Addr
      BY <1>3, CommandOf
    <2>4. job.start \in Cells
      BY <1>1 DEF Cells, Walk, CommandTypes
    <2> QED BY <2>1, <2>2, <2>3, <2>4 DEF Erased
  <1>4. CASE job.function \notin Erases
    <2>1. job.function \in ByteWrites
      BY <1>4, CallFacts DEF Functions, Paged
    <2>2. c.addr = pos
      BY <2>1 DEF KeyAddr
    <2>3. /\ Width \in Nat \ {0} /\ Target = pos .. pos + Width - 1
          /\ Target = BlockOf(Width, pos) /\ Target \subseteq Cells
      BY <1>1, <1>4, TargetWrite
    <2>4. Width = Step(job.function)
      BY DEF Width
    <2>5. Starts(Key, c) = [a \in Target |-> IF job.data[a] = 0 THEN 0 ELSE mem[a]]
      BY <1>1, <1>4, <2>2, <2>3, <2>4 DEF KeyKnown, Starts
    <2>6. pos \in Target
      <3> HIDE DEF Width
      <3> QED BY <1>1, <2>3
    <2> QED BY <1>4, <2>3, <2>5, <2>6
  <1> QED BY <1>2, <1>3, <1>4 DEF Erases

(* The data of a page that have been sent, with the next of them.           *)
LEMMA MoreSent ==
  ASSUME CommandInv, Send, Paged
  PROVE  /\ pos < End /\ job.function \notin Erases /\ job.function \notin Unchecked
         /\ Target = BlockOf(PageSize, pos) /\ Target \subseteq Cells /\ Cells \subseteq Addr
         /\ Sent >= 3 =>
              /\ cycles[1].op = "data" /\ cycles[1].addr \in Target
              /\ SentData' = IF job.data[cycles[1].addr] = 0
                             THEN SentData \cup {cycles[1].addr} ELSE SentData
              /\ Heard(Sent + 1) = Heard(Sent) /\ Sent + 1 >= Full /\ ~(Sent + 1 < Full)
         /\ Sent = 3 => SentData = {}
         /\ ~Skipped(cycles[1]) /\ Sent >= 3 => job.data[cycles[1].addr] = 0
         /\ Skipped(cycles[1]) => Sent >= 3 /\ job.data[cycles[1].addr] = 1
  <1> USE DEF CommandInv
  <1> DEFINE n == Sent
             c == cycles[1]
  <1>1. /\ job' = job /\ pos' = pos /\ n \in Nat /\ n < Len(Command) /\ Sent' = n + 1
        /\ c.op = OpAt(n + 1) /\ Len(Command) = PageSize + 3 /\ Full = 4
        /\ n >= 3 => c.addr = (pos + n) - 3 /\ pc = "send"
    BY SendFacts
  <1>2. pos < End /\ job.function \notin Erases /\ job.function \notin Unchecked
    <2>1. pc = "send"
      BY SendFacts
    <2>2. pos < End
      BY <2>1 DEF Walk
    <2> QED BY <2>2 DEF Paged, Erases, SectorErases, ChipErases, Unchecked, BlindWrites
  <1>3. Target = BlockOf(PageSize, pos) /\ Target = pos .. pos + PageSize - 1
            /\ Target \subseteq Cells
    BY <1>2, TargetWrite DEF Width
  <1>4. Cells \subseteq Addr /\ pos \in Nat /\ job.data \in [Addr -> Val] /\ KeyKnown
    BY CallFacts
  <1>5. Clears = 0 /\ Key = <<"AA", "55", "A0", "data">> /\ Len(Key) = 4
    BY DEF Clears, Paged, Key
  <1> HIDE DEF n, c
  <1>6. n >= 3 => c.op = "data"
    <2>1. SUFFICES ASSUME n >= 3 PROVE OpAt(n + 1) = "data"
      BY <1>1
    <2>2. CASE n = 3
      <3>1. n + 1 = 4 /\ (n + 1) - Clears = 4 /\ ~(n + 1 <= Clears) /\ n + 1 <= Full
        BY <1>1, <1>5, <2>2
      <3> QED BY <1>5, <3>1 DEF OpAt
    <2>3. CASE n > 3
      <3>1. ~(n + 1 <= Clears) /\ ~(n + 1 <= Full)
        BY <1>1, <1>5, <2>3
      <3> QED BY <3>1 DEF OpAt
    <2> QED BY <1>1, <2>1, <2>2, <2>3
  <1>7. n >= 3 => c.addr \in Target
    BY <1>1, <1>3, <1>4, Sizes
  <1>8. SentData = {a \in Target : a < (pos + n) - 3 /\ job.data[a] = 0}
    <2>1. pos + n - 3 = (pos + n) - 3
      BY <1>1, <1>4
    <2> QED BY <1>3, <2>1 DEF SentData, n
  <1>9. SentData' = {a \in Target : a < (pos + n) - 2 /\ job.data[a] = 0}
    <2>1. pos + (n + 1) - 3 = (pos + n) - 2
      BY <1>1, <1>4
    <2>2. SentData' = {a \in BlockOf(PageSize, pos) : a < pos + (n + 1) - 3 /\ job.data[a] = 0}
      BY <1>1 DEF SentData
    <2> QED BY <1>3, <2>1, <2>2
  <1>10. n >= 3 => SentData' = IF job.data[c.addr] = 0 THEN SentData \cup {c.addr} ELSE SentData
    <2> SUFFICES ASSUME n >= 3
                 PROVE  SentData' = IF job.data[c.addr] = 0 THEN SentData \cup {c.addr}
                     ELSE SentData
      OBVIOUS
    <2>1. \A a \in Target : a < (pos + n) - 2 <=> (a < (pos + n) - 3 \/ a = c.addr)
      BY <1>1, <1>3, <1>4, Sizes
    <2> QED BY <1>7, <1>8, <1>9, <2>1
  <1>11. n = 3 => SentData = {}
    BY <1>3, <1>4, <1>8, Sizes
  <1>12. n >= 3 => Heard(n + 1) = Heard(n) /\ n + 1 >= Full /\ ~(n + 1 < Full)
    <2>1. SUFFICES ASSUME n >= 3
                   PROVE  Heard(n + 1) = Heard(n) /\ n + 1 >= Full /\ ~(n + 1 < Full)
      OBVIOUS
    <2>2. ~(n <= Clears) /\ ~(n + 1 <= Clears) /\ ~(n + 1 < Full) /\ n + 1 >= Full
      BY <1>1, <1>5, <2>1
    <2>3. Heard(n + 1) = <<"AA", "55", "A0">>
      BY <2>2 DEF Heard
    <2>4. CASE n = 3
      <3>1. n - Clears = 3 /\ n < Full
        BY <1>1, <1>5, <2>4
      <3>2. Heard(n) = SubSeq(Key, 1, 3)
        BY <2>2, <3>1 DEF Heard
      <3>3. SubSeq(Key, 1, 3) = <<"AA", "55", "A0">>
        <4> DEFINE t == <<"AA", "55", "A0">>
        <4>1. SubSeq(Key, 1, 3) = [i \in 1 .. 3 |-> Key[i]]
          OBVIOUS
        <4>2. t = [i \in 1 .. 3 |-> t[i]]
          OBVIOUS
        <4>3. \A i \in 1 .. 3 : t[i] = Key[i]
          BY <1>5
        <4> HIDE DEF t
        <4>4. SubSeq(Key, 1, 3) = t
          BY <4>1, <4>2, <4>3
        <4> QED BY <4>4 DEF t
      <3> QED BY <2>2, <2>3, <3>2, <3>3
    <2>5. CASE n > 3
      <3>1. ~(n < Full)
        BY <1>1, <2>5
      <3> QED BY <2>2, <2>3, <3>1 DEF Heard
    <2> QED BY <1>1, <2>1, <2>4, <2>5
  <1>13. n >= 3 => job.data[c.addr] \in {0, 1}
    BY <1>3, <1>4, <1>7 DEF Val
  <1>14. Skipped(c) => n >= 3
    <2>1. SUFFICES ASSUME n < 3 PROVE OpAt(n + 1) # "data"
      BY <1>1 DEF Skipped
    <2>2. ~(n + 1 <= Clears) /\ n + 1 <= Full /\ (n + 1) - Clears \in {1, 2, 3}
      BY <1>1, <1>5, <2>1
    <2>3. OpAt(n + 1) = Key[(n + 1) - Clears]
      BY <2>2 DEF OpAt
    <2>4. Key[1] = "AA" /\ Key[2] = "55" /\ Key[3] = "A0"
      BY <1>5
    <2> QED BY <2>2, <2>3, <2>4
  <1>15. ~Skipped(c) /\ n >= 3 => job.data[c.addr] = 0
    BY <1>6, <1>13 DEF Skipped
  <1> HIDE DEF CommandInv
  <1> QED BY <1>2, <1>3, <1>4, <1>6, <1>7, <1>10, <1>11, <1>12, <1>14, <1>15 DEF n, c, Skipped

(* Where the chip is in a command that is on the way.                       *)
Track ==
  \/ Sent < Full /\ ~Working /\ Codes(seq) = Heard(Sent)
  \/ Sent >= Full /\ ~Paged /\ load = {} /\ Effects(Outcome)
  \/ Sent >= Full /\ Paged /\ ~Working /\ SentData = {} /\ Codes(seq) = Heard(Sent)
  \/ Sent >= Full /\ Paged /\ busy = Idle /\ load = SentData /\ load # {}
  \/ Sent >= Full /\ Paged /\ load = {} /\ Effects(Outcome)
       /\ \A i \in DOMAIN cycles : Skipped(cycles[i])

(* What there is to show of the step, besides what it leaves alone.         *)
LEMMA Sends ==
  ASSUME CommandInv, Send,
         load' \subseteq Addr, IsSequence(seq'), Codes(seq') \in {<< >>, Heard(Sent + 1)},
         Working' => seq' = << >>,
         shows' \in {"array", "status"}, ~Intel => shows' = "array",
         Intel => (busy' # Idle => shows' = "status"),
         Confined', ~late /\ ~Fault => Track'
  PROVE  CommandInv'
  <1> USE DEF CommandInv
  <1>1. /\ job' = job /\ pos' = pos /\ polls' = polls /\ tmp1' = tmp1
        /\ tried' = tried /\ failed' = failed /\ late' = late /\ failures' = failures
        /\ weak' = weak /\ mem' = mem /\ dq6' = dq6 /\ result' = result
        /\ pc = "send" /\ pc' = "send"
        /\ Sent \in Nat /\ Sent' = Sent + 1
        /\ Len(cycles') <= Len(Command)
        /\ cycles' = [i \in 1 .. Len(cycles') |-> Command[(Sent + 1) + i]]
    BY SendFacts
  <1>2. /\ Key' = Key /\ Clears' = Clears
        /\ Full' = Full /\ End' = End /\ Cells' = Cells /\ Paged' = Paged /\ Intel' = Intel
        /\ Target' = Target /\ Command' = Command
    BY <1>1, SameCall, SamePlace
  <1>3. Fault' = Fault
    BY <1>1 DEF Fault
  <1>4. Full \in Nat
    <2>1. KeyKnown
      BY CallFacts
    <2> QED BY <2>1 DEF KeyKnown
  <1>a. CommandTypes'
    BY <1>1, <1>2 DEF CommandTypes
  <1>b. Walk'
    <2>1. Sent' < Full' => Sent < Full
      BY <1>1, <1>2, <1>4
    <2> HIDE DEF Sent
    <2> QED BY <1>1, <1>2, <2>1 DEF Walk
  <1>c. OnTheWay'
    <2>1. Heard(Sent)' = Heard(Sent + 1)
      <3> HIDE DEF Sent
      <3> QED BY <1>1, <1>2 DEF Heard
    <2> HIDE DEF Sent
    <2> QED BY <1>1, <1>2, <2>1 DEF OnTheWay
  <1>e. WaitsFor'
    BY <1>1, <1>2 DEF WaitsFor
  <1>f. OnTrack'
    <2>1. ~late' /\ ~Fault' => Track'
      BY <1>1, <1>3
    <2>2. OnTrack
      OBVIOUS
    <2> HIDE DEF CommandInv
    <2> QED BY <1>1, <2>1, <2>2 DEF OnTrack, Track
  <1>g. DoneSoFar'
    <2>1. result = "none"
      BY <1>1 DEF Walk
    <2> QED BY <1>1, <1>2, <2>1 DEF DoneSoFar, Written
  <1> QED BY <1>a, <1>b, <1>c, <1>e, <1>f, <1>g

(* A byte of a page that is 0xff is not written.                            *)
LEMMA SendsNothing ==
  ASSUME CommandInv, Send, Skipped(cycles[1])
  PROVE  CommandInv'
  <1> USE DEF CommandInv
  <1> DEFINE n == Sent
             c == cycles[1]
  <1>1. /\ job' = job /\ pos' = pos /\ mem' = mem /\ failed' = failed /\ late' = late
        /\ pc = "send" /\ pc' = "send" /\ n \in Nat /\ Sent' = n + 1
        /\ \A i \in DOMAIN cycles' : i + 1 \in DOMAIN cycles /\ cycles'[i] = cycles[i + 1]
    BY SendFacts
  <1>2. seq' = seq /\ load' = load /\ busy' = busy /\ shows' = shows
    BY DEF Send
  <1>3. Paged
    BY DEF Skipped
  <1>4. /\ n >= 3 /\ job.data[c.addr] = 1 /\ SentData' = SentData
        /\ Heard(n + 1) = Heard(n) /\ n + 1 >= Full /\ ~(n + 1 < Full)
        /\ n = 3 => SentData = {}
    BY <1>3, MoreSent
  <1>5. Full = 4
    BY <1>3, SendFacts
  <1>6. /\ Key' = Key /\ Clears' = Clears
        /\ Full' = Full /\ End' = End /\ Cells' = Cells /\ Paged' = Paged /\ Intel' = Intel
        /\ Target' = Target /\ Command' = Command
        /\ MayBecome(busy)' = MayBecome(busy) /\ Working' = Working
        /\ Effects(Outcome)' = Effects(Outcome)
    BY <1>1, <1>2, SameCall, SamePlace, SameEffects DEF Working
  <1>7. Heard(Sent)' = Heard(n)
    <2> HIDE DEF n
    <2>1. Heard(Sent)' = Heard(n + 1)
      BY <1>1, <1>6 DEF Heard
    <2> QED BY <1>4, <2>1
  <1> HIDE DEF n, c
  <1>8. Sent' >= Full' /\ (Sent < Full => n = 3)
    BY <1>1, <1>4, <1>5, <1>6 DEF n
  <1>9. Codes(seq)' = Codes(seq)
    BY <1>2
  <1>10. Confined'
    BY <1>1, <1>2, <1>6, <1>8 DEF Confined
  <1>11. ~late /\ ~Fault => Track'
    <2> SUFFICES ASSUME ~late, ~Fault PROVE Track'
      OBVIOUS
    <2>1. CASE Sent < Full /\ ~Working /\ Codes(seq) = Heard(Sent)
      <3>1. SentData' = {}
        BY <1>4, <1>8, <2>1
      <3>2. Codes(seq)' = Heard(Sent)'
        BY <1>7, <1>9, <2>1 DEF n
      <3> HIDE DEF Sent
      <3> QED BY <1>3, <1>6, <1>8, <2>1, <3>1, <3>2 DEF Track
    <2>2. CASE Sent >= Full /\ Paged /\ ~Working /\ SentData = {} /\ Codes(seq) = Heard(Sent)
      <3>2. Codes(seq)' = Heard(Sent)'
        BY <1>7, <1>9, <2>2 DEF n
      <3> HIDE DEF Sent
      <3> QED BY <1>3, <1>4, <1>6, <1>8, <2>2, <3>2 DEF Track
    <2>3. CASE Sent >= Full /\ Paged /\ busy = Idle /\ load = SentData /\ load # {}
      <3> HIDE DEF Sent
      <3> QED BY <1>2, <1>3, <1>4, <1>6, <1>8, <2>3 DEF Track
    <2>4. CASE Sent >= Full /\ Paged /\ load = {} /\ Effects(Outcome)
               /\ \A i \in DOMAIN cycles : Skipped(cycles[i])
      <3>1. (\A i \in DOMAIN cycles : Skipped(cycles[i]))'
        BY <1>1, <1>6, <2>4 DEF Skipped
      <3> HIDE DEF Sent
      <3> QED BY <1>2, <1>3, <1>6, <1>8, <2>4, <3>1 DEF Track
    <2> HIDE DEF Sent
    <2> QED BY <1>1, <1>3, <2>1, <2>2, <2>3, <2>4 DEF OnTrack
  <1>12. load \subseteq Addr /\ IsSequence(seq) /\ Codes(seq) \in {<< >>, Heard(n + 1)}
         /\ (Working => seq = << >>)
    BY <1>1, <1>4 DEF CommandTypes, OnTheWay, n
  <1>13. /\ shows \in {"array", "status"} /\ (~Intel => shows = "array")
         /\ Intel => (busy # Idle => shows = "status")
    BY DEF WaitsFor, CommandTypes
  <1> HIDE DEF CommandInv
  <1> QED BY <1>2, <1>6, <1>10, <1>11, <1>12, <1>13, Sends DEF n

(* A chip at work does not hear it, but for the request of its status.      *)
LEMMA SendsToBusy ==
  ASSUME CommandInv, Send, ~Skipped(cycles[1]), busy # Idle
  PROVE  CommandInv'
  <1> USE DEF CommandInv
  <1> DEFINE n == Sent
             c == cycles[1]
  <1>1. /\ job' = job /\ pos' = pos /\ mem' = mem /\ failed' = failed /\ late' = late
        /\ pc = "send" /\ pc' = "send" /\ n \in Nat /\ Sent' = n + 1
        /\ \A i \in DOMAIN cycles' : i + 1 \in DOMAIN cycles /\ cycles'[i] = cycles[i + 1]
    BY SendFacts
  <1>2. /\ seq' = seq /\ load' = load /\ busy' = busy
        /\ shows' = IF Intel /\ c.op = "70" THEN "status" ELSE shows
    BY DEF Send, WriteCycle
  <1>3. Working /\ load = {} /\ seq = << >>
    BY BusyFacts
  <1>4. /\ Full' = Full /\ End' = End /\ Cells' = Cells /\ Paged' = Paged /\ Intel' = Intel
        /\ Target' = Target /\ Command' = Command
        /\ MayBecome(busy)' = MayBecome(busy) /\ Working' = Working
        /\ Effects(Outcome)' = Effects(Outcome)
    BY <1>1, <1>2, SameCall, SamePlace, SameEffects DEF Working
  <1>5. Full \in Nat
    <2>1. KeyKnown
      BY CallFacts
    <2> QED BY <2>1 DEF KeyKnown
  <1> HIDE DEF c
  <1>6. Sent >= Full => Sent' >= Full'
    BY <1>1, <1>4, <1>5
  <1>7. Confined'
    BY <1>1, <1>2, <1>3, <1>4 DEF Confined
  <1>8. ~late /\ ~Fault => Track'
    <2> SUFFICES ASSUME ~late, ~Fault PROVE Track'
      OBVIOUS
    <2>1. CASE Sent >= Full /\ ~Paged /\ load = {} /\ Effects(Outcome)
      <3> HIDE DEF Sent, n
      <3> QED BY <1>2, <1>4, <1>6, <2>1 DEF Track
    <2>2. CASE Sent >= Full /\ Paged /\ load = {} /\ Effects(Outcome)
               /\ \A i \in DOMAIN cycles : Skipped(cycles[i])
      <3>1. (\A i \in DOMAIN cycles : Skipped(cycles[i]))'
        BY <1>1, <1>4, <2>2 DEF Skipped
      <3> HIDE DEF Sent, n
      <3> QED BY <1>2, <1>4, <1>6, <2>2, <3>1 DEF Track
    <2> HIDE DEF Sent, n
    <2> QED BY <1>1, <1>3, <2>1, <2>2 DEF OnTrack
  <1>9. Codes(seq') = << >> /\ IsSequence(seq')
    BY <1>2, <1>3, NoCodes
  <1>10. /\ shows' \in {"array", "status"} /\ (~Intel => shows' = "array")
         /\ Intel => (busy' # Idle => shows' = "status")
    BY <1>2 DEF WaitsFor, CommandTypes
  <1>11. load' \subseteq Addr /\ (Working' => seq' = << >>)
    BY <1>2, <1>3 DEF CommandTypes
  <1> HIDE DEF CommandInv, n
  <1> QED BY <1>7, <1>8, <1>9, <1>10, <1>11, Sends

(* One that is loading a page takes it for the next byte.                   *)
LEMMA SendsByte ==
  ASSUME CommandInv, Send, ~Skipped(cycles[1]), busy = Idle, load # {}
  PROVE  CommandInv'
  <1> USE DEF CommandInv
  <1> DEFINE n == Sent
             c == cycles[1]
  <1>1. /\ job' = job /\ pos' = pos /\ mem' = mem /\ failed' = failed /\ late' = late
        /\ pc = "send" /\ pc' = "send" /\ n \in Nat /\ Sent' = n + 1
    BY SendFacts
  <1>2. seq' = seq /\ load' = load \cup {c.addr} /\ busy' = busy /\ shows' = shows
    BY DEF Send, WriteCycle
  <1>3. Paged /\ n >= Full /\ seq = << >>
    BY <1>1 DEF Confined, OnTheWay, Working
  <1>4. Full = 4
    BY <1>3, SendFacts
  <1>5. /\ Target = BlockOf(PageSize, pos) /\ Target \subseteq Cells /\ Cells \subseteq Addr
        /\ c.addr \in Target /\ job.data[c.addr] = 0 /\ SentData' = SentData \cup {c.addr}
    <2>1. n >= 3
      BY <1>1, <1>3, <1>4
    <2> HIDE DEF n
    <2> QED BY <1>3, <2>1, MoreSent DEF n
  <1>6. /\ Full' = Full /\ End' = End /\ Cells' = Cells /\ Paged' = Paged /\ Intel' = Intel
        /\ Target' = Target /\ Command' = Command
        /\ MayBecome(busy)' = MayBecome(busy)
    BY <1>1, <1>2, SameCall, SamePlace, SameEffects
  <1> HIDE DEF c
  <1>7. Sent' >= Full'
    BY <1>1, <1>3, <1>4, <1>6
  <1>8. load' # {} /\ load' \subseteq {a \in BlockOf(PageSize, pos') : job'.data[a] = 0}
    BY <1>1, <1>2, <1>5 DEF Confined
  <1>9. Confined'
    <2> HIDE DEF Sent, n
    <2> QED BY <1>1, <1>2, <1>3, <1>6, <1>7, <1>8 DEF Confined
  <1>10. ~late /\ ~Fault => Track'
    <2> SUFFICES ASSUME ~late, ~Fault PROVE Track'
      OBVIOUS
    <2>1. load = SentData
      <3>1. ~(Sent < Full)
        BY <1>1, <1>3, <1>4
      <3> HIDE DEF Sent, n
      <3> QED BY <1>1, <1>3, <3>1 DEF OnTrack, Working
    <2>2. load' = SentData'
      BY <1>2, <1>5, <2>1
    <2> HIDE DEF Sent, n
    <2> QED BY <1>2, <1>3, <1>6, <1>7, <1>8, <2>2 DEF Track
  <1>11. Codes(seq') = << >> /\ IsSequence(seq') /\ seq' = << >>
    BY <1>2, <1>3, NoCodes
  <1>12. /\ shows' \in {"array", "status"} /\ (~Intel => shows' = "array")
         /\ Intel => (busy' # Idle => shows' = "status")
    BY <1>2 DEF WaitsFor, CommandTypes
  <1>13. load' \subseteq Addr
    BY <1>2, <1>5 DEF CommandTypes
  <1> HIDE DEF CommandInv, n
  <1> QED BY <1>9, <1>10, <1>11, <1>12, <1>13, Sends

(* One that is idle takes it for the next code of a command: the last, on   *)
(* which it starts, or another.                                             *)
LEMMA CodeHeeded ==
  ASSUME CommandInv, Send, ~Skipped(cycles[1]), busy = Idle, load = {}
  PROVE  LET h == Codes(seq)
             op == OpAt(Sent + 1) IN
         /\ Heeds(Sent, h) /\ h \in {<< >>, Heard(Sent)}
         /\ Codes(Append(seq, cycles[1])) = Append(h, op)
         /\ Codes(seq') = Keeps(h, op) /\ IsSequence(seq')
         /\ Keeps(h, op) = << >> => seq' = << >>
         /\ shows' = (IF Intel /\ (op = "70" \/ Append(h, op) \in Commands) THEN "status"
              ELSE shows)
         /\ Append(h, op) \notin Commands => load' = load /\ busy' = busy
         /\ Append(h, op) \in Commands =>
              IF Paged THEN load' = {cycles[1].addr} /\ busy' = busy
              ELSE busy' = Starts(Append(h, op), cycles[1]) /\ load' = load
  <1> USE DEF CommandInv
  <1> DEFINE n == Sent
             c == cycles[1]
             h == Codes(seq)
             op == OpAt(n + 1)
             s == Append(seq, c)
  <1>1. n \in Nat /\ c.op = op /\ pc = "send" /\ (n < Full \/ Paged \/ Intel)
    BY SendFacts
  <1>2. IsSequence(seq) /\ h \in {<< >>, Heard(n)} /\ job.function \in Functions
    BY <1>1, CallFacts DEF CommandTypes, OnTheWay
  <1>3. Codes(s) = Append(h, op) /\ IsSequence(s)
    BY <1>1, <1>2, OneCode
  <1>4. job.function \in Erases /\ n < Full => h = Heard(n)
    <2> SUFFICES ASSUME job.function \in Erases, n < Full PROVE h = Heard(n)
      OBVIOUS
    <2>1. ~late /\ ~weak
      BY <1>1 DEF Walk
    <2>2. ~Fault
      BY <2>1 DEF Fault, Unchecked
    <2>3. ~(n >= Full)
      <3>1. Full \in Nat
        <4>1. KeyKnown
          BY CallFacts
        <4> QED BY <4>1 DEF KeyKnown
      <3> HIDE DEF n
      <3> QED BY <1>1, <3>1
    <2> HIDE DEF h
    <2>4. Codes(seq) = Heard(Sent)
      <3> HIDE DEF Sent
      <3> QED BY <1>1, <2>1, <2>2, <2>3 DEF OnTrack, n
    <2> QED BY <2>4 DEF h
  <1>5. Heeds(n, h)
    <2> HIDE DEF n, h
    <2> QED BY <1>1, <1>2, <1>4, Hearing
  <1>6. /\ seq' = IF \E m \in Commands : IsStrictPrefix(Append(h, op), m) THEN s ELSE << >>
        /\ IF Append(h, op) \notin Commands THEN UNCHANGED <<load, busy>>
           ELSE IF Paged THEN load' = {c.addr} /\ UNCHANGED busy
           ELSE busy' = Starts(Append(h, op), c) /\ UNCHANGED load
        /\ shows' = CASE Intel /\ (op = "70" \/ Append(h, op) \in Commands) -> "status"
                      [] OTHER -> shows
    <2>1. WriteCycle(c)
      BY DEF Send
    <2> HIDE DEF op, h
    <2> QED BY <1>1, <1>3, <2>1 DEF WriteCycle
  <1> HIDE DEF n, c, op
  <1>7. Codes(seq') = Keeps(h, op) /\ IsSequence(seq') /\ (Keeps(h, op) = << >> => seq' = << >>)
    <2>1. Codes(<< >>) = << >> /\ IsSequence(<< >>)
      BY NoCodes
    <2>2. CASE \E m \in Commands : IsStrictPrefix(Append(h, op), m)
      <3>1. seq' = s /\ Keeps(h, op) = Append(h, op)
        BY <1>6, <2>2 DEF Keeps
      <3>2. Codes(seq') = Keeps(h, op) /\ IsSequence(seq')
        BY <1>3, <3>1
      <3> QED BY <3>2, CodesNone
    <2>3. CASE ~\E m \in Commands : IsStrictPrefix(Append(h, op), m)
      BY <1>6, <2>1, <2>3 DEF Keeps
    <2> QED BY <2>2, <2>3
  <1>8. shows' = (IF Intel /\ (op = "70" \/ Append(h, op) \in Commands) THEN "status" ELSE shows)
    BY <1>6
  <1> HIDE DEF h, CommandInv
  <1> QED BY <1>2, <1>3, <1>5, <1>6, <1>7, <1>8 DEF n, c, h, op

(* A cycle that goes to a chip that is not at work.                         *)
LEMMA SendsCode ==
  ASSUME CommandInv, Send, ~Skipped(cycles[1]), busy = Idle, load = {}
  PROVE  CommandInv'
  <1> USE DEF CommandInv
  <1> DEFINE n == Sent
             c == cycles[1]
             h == Codes(seq)
             op == OpAt(n + 1)
  <1>1. /\ job' = job /\ pos' = pos /\ mem' = mem /\ failed' = failed /\ late' = late
        /\ pc = "send" /\ pc' = "send" /\ n \in Nat /\ Sent' = n + 1 /\ 1 \in DOMAIN cycles
        /\ job.function \in SectorErases \cup ByteWrites /\ n + 1 = Full => c.addr = KeyAddr
        /\ Paged => Full = 4
    BY SendFacts
  <1>2. /\ Heeds(n, h) /\ h \in {<< >>, Heard(n)}
        /\ Codes(seq') = Keeps(h, op) /\ IsSequence(seq')
        /\ Keeps(h, op) = << >> => seq' = << >>
        /\ shows' = (IF Intel /\ (op = "70" \/ Append(h, op) \in Commands) THEN "status" ELSE shows)
        /\ Append(h, op) \notin Commands => load' = load /\ busy' = busy
        /\ Append(h, op) \in Commands =>
             IF Paged THEN load' = {c.addr} /\ busy' = busy
             ELSE busy' = Starts(Append(h, op), c) /\ load' = load
    BY CodeHeeded
  <1>3. /\ Key' = Key /\ Clears' = Clears
        /\ Full' = Full /\ End' = End /\ Cells' = Cells /\ Paged' = Paged /\ Intel' = Intel
        /\ Target' = Target /\ Command' = Command
    BY <1>1, SameCall, SamePlace
  <1>4. Full \in Nat /\ Cells \subseteq Addr /\ job.data \in [Addr -> Val] /\ mem \in [Addr -> Val]
    <2>1. KeyKnown
      BY CallFacts
    <2> QED BY <2>1, CallFacts DEF KeyKnown, CommandTypes
  <1> HIDE DEF n
  <1>5. Heard(Sent)' = Heard(n + 1)
    <2> HIDE DEF Sent
    <2> QED BY <1>1, <1>3 DEF Heard
  <1> HIDE DEF op, h, c
  <1>6. /\ shows' \in {"array", "status"} /\ (~Intel => shows' = "array")
        /\ Append(h, op) \in Commands /\ Intel => shows' = "status"
    BY <1>2 DEF WaitsFor, CommandTypes
  <1>7. ~late /\ ~Fault /\ (Sent < Full \/ (Sent >= Full /\ Paged)) =>
          \/ h = Heard(n)
          \/ Sent >= Full /\ Paged /\ \A i \in DOMAIN cycles : Skipped(cycles[i])
    <2> SUFFICES ASSUME ~late, ~Fault, Sent < Full \/ (Sent >= Full /\ Paged)
                 PROVE  \/ h = Heard(n)
                        \/ Sent >= Full /\ Paged /\ \A i \in DOMAIN cycles : Skipped(cycles[i])
      OBVIOUS
    <2>1. Sent < Full => ~(Sent >= Full)
      BY <1>1, <1>4 DEF n
    <2> HIDE DEF Sent
    <2> QED BY <1>1, <2>1 DEF OnTrack, n, h
  <1>8. ~late /\ ~Fault /\ Sent < Full => h = Heard(n)
    <2>1. Sent < Full => ~(Sent >= Full)
      BY <1>1, <1>4 DEF n
    <2> HIDE DEF Sent
    <2> QED BY <1>7, <2>1
  <1>9. ~late /\ ~Fault /\ Sent >= Full /\ Paged => h = Heard(n)
    <2>1. ~\A i \in DOMAIN cycles : Skipped(cycles[i])
      BY <1>1
    <2> HIDE DEF Sent
    <2> QED BY <1>7, <2>1
  <1>10. CASE Append(h, op) \in Commands /\ Paged
    <2>1. /\ load' = {c.addr} /\ busy' = busy /\ h = Heard(n) /\ (n + 1 = Full \/ n >= Full)
          /\ seq' = << >> /\ Codes(seq') = << >>
      <3>1. Keeps(h, op) = << >> /\ h = Heard(n) /\ (n + 1 = Full \/ n >= Full)
        BY <1>2, <1>10 DEF Heeds, op
      <3> QED BY <1>2, <1>10, <3>1
    <2>2. n >= 3 /\ Sent' >= Full' /\ Full = 4
      BY <1>1, <1>3, <1>10, <2>1
    <2>3. /\ Target = BlockOf(PageSize, pos) /\ Target \subseteq Cells
          /\ c.addr \in Target /\ job.data[c.addr] = 0
          /\ SentData' = SentData \cup {c.addr}
          /\ n = 3 => SentData = {}
      <3> HIDE DEF Sent
      <3> QED BY <1>10, <2>2, MoreSent DEF n, c
    <2>4. ~Intel
      BY <1>10 DEF Intel, AskStatus, Paged
    <2>5. Confined'
      <3>1. MayBecome(busy)' = MayBecome(busy)
        BY <1>1, <2>1, SameEffects
      <3> HIDE DEF Sent
      <3> QED BY <1>1, <1>3, <1>10, <2>1, <2>2, <2>3, <3>1 DEF Confined
    <2>6. ~late /\ ~Fault => Track'
      <3> SUFFICES ASSUME ~late, ~Fault PROVE Track'
        OBVIOUS
      <3>1. SentData = {}
        <4>1. CASE n = 3
          BY <2>3, <4>1
        <4>2. CASE n # 3
          <5>1. Sent >= Full /\ ~(Sent < Full)
            BY <1>1, <2>2, <4>2 DEF n
          <5>2. ~\A i \in DOMAIN cycles : Skipped(cycles[i])
            BY <1>1
          <5> HIDE DEF Sent
          <5> QED BY <1>1, <1>10, <5>1, <5>2 DEF OnTrack
        <4> QED BY <4>1, <4>2
      <3>2. load' = SentData' /\ load' # {} /\ busy' = Idle /\ Paged'
        BY <1>3, <1>10, <2>1, <2>3, <3>1
      <3> HIDE DEF Sent
      <3> QED BY <2>2, <3>2 DEF Track
    <2>7. load' \subseteq Addr
      BY <1>4, <2>1, <2>3
    <2> HIDE DEF CommandInv
    <2> QED BY <1>2, <1>6, <2>1, <2>4, <2>5, <2>6, <2>7, Sends
  <1>11. CASE Append(h, op) \in Commands /\ ~Paged
    <2>1. /\ load' = {} /\ busy' = Starts(Key, c) /\ n + 1 = Full
          /\ seq' = << >> /\ Codes(seq') = << >>
      <3>1. Keeps(h, op) = << >> /\ Append(h, op) = Key /\ n + 1 = Full
        BY <1>2, <1>11 DEF Heeds, op
      <3> QED BY <1>2, <1>11, <3>1
    <2>2. /\ DOMAIN busy' = Target /\ Target \subseteq Cells /\ Target # {}
          /\ \A a \in Target :
               busy'[a] = IF job.function \in Erases THEN 1
                          ELSE IF job.data[a] = 0 THEN 0 ELSE mem[a]
      BY <1>1, <1>11, <2>1, StartsIs
    <2>3. Sent' = Full' /\ Full' \in Nat
      BY <1>1, <1>3, <1>4, <2>1
    <2>4. Confined'
      <3>1. MayBecome(busy)'
        BY <1>1, <1>3, <1>4, <1>11, <2>2 DEF MayBecome, Val
      <3>2. pos < End
        BY <1>1 DEF Walk
      <3> HIDE DEF Sent
      <3> QED BY <1>1, <1>3, <2>1, <2>2, <3>1, <3>2 DEF Confined
    <2>5. Effects(Outcome)'
      <3>1. \A a \in Target : a \in Addr /\ a \in DOMAIN busy'
        BY <1>4, <2>2
      <3> QED BY <1>1, <1>3, <2>2, <3>1 DEF Effects, Outcome
    <2>6. Track'
      <3>1. Sent' >= Full'
        BY <2>3
      <3> HIDE DEF Sent
      <3> QED BY <1>3, <1>11, <2>1, <2>5, <3>1 DEF Track
    <2>7. Intel => shows' = "status"
      BY <1>6, <1>11
    <2> HIDE DEF CommandInv
    <2> QED BY <1>2, <1>6, <2>1, <2>4, <2>6, <2>7, Sends
  <1>12. CASE Append(h, op) \notin Commands
    <2>1. load' = {} /\ busy' = Idle
      BY <1>2, <1>12
    <2>2. Keeps(h, op) \in {<< >>, Heard(n + 1)}
      BY <1>2, <1>12 DEF Heeds, op
    <2>3. Confined'
      <3>1. MayBecome(busy)' = MayBecome(busy)
        BY <1>1, <2>1, SameEffects
      <3> HIDE DEF Sent
      <3> QED BY <1>1, <1>3, <2>1, <3>1 DEF Confined
    <2>4. ~Working'
      BY <2>1 DEF Working
    <2>5. ~late /\ ~Fault => Track'
      <3> SUFFICES ASSUME ~late, ~Fault PROVE Track'
        OBVIOUS
      <3>1. CASE Sent < Full
        <4>1. h = Heard(n)
          <5> HIDE DEF Sent
          <5> QED BY <1>8, <3>1
        <4>2. n + 1 # Full
          BY <1>2, <1>12, <4>1 DEF Heeds, op
        <4>3. n + 1 < Full
          BY <1>1, <1>4, <3>1, <4>2 DEF n
        <4>4. Keeps(h, op) = Heard(n + 1)
          BY <1>2, <4>1, <4>3 DEF Heeds, op
        <4>5. Sent' < Full' /\ Codes(seq') = Heard(Sent)'
          BY <1>1, <1>2, <1>3, <1>5, <4>3, <4>4
        <4> HIDE DEF Sent
        <4> QED BY <2>4, <4>5 DEF Track
      <3>2. CASE Sent >= Full /\ ~Paged
        <4>1. Sent' >= Full'
          BY <1>1, <1>3, <1>4, <3>2 DEF n
        <4>2. Effects(Outcome)
          <5>1. ~(Sent < Full)
            BY <1>1, <1>4, <3>2 DEF n
          <5> HIDE DEF Sent
          <5> QED BY <1>1, <3>2, <5>1 DEF OnTrack
        <4>3. Effects(Outcome)'
          BY <1>1, <2>1, <4>2, SameEffects
        <4> HIDE DEF Sent
        <4> QED BY <1>3, <2>1, <3>2, <4>1, <4>3 DEF Track
      <3>3. CASE Sent >= Full /\ Paged
        <4>1. h = Heard(n)
          <5> HIDE DEF Sent
          <5> QED BY <1>9, <3>3
        <4>2. n >= Full
          BY <3>3 DEF n
        <4> QED BY <1>2, <1>12, <3>3, <4>1, <4>2 DEF Heeds, op
      <3> QED BY <1>1, <1>4, <3>1, <3>2, <3>3 DEF n
    <2>6. Codes(seq') \in {<< >>, Heard(Sent + 1)}
      BY <1>2, <2>2 DEF n
    <2> HIDE DEF CommandInv
    <2> QED BY <1>2, <1>6, <2>1, <2>3, <2>4, <2>5, <2>6, Sends
  <1> QED BY <1>10, <1>11, <1>12

(* A cycle is sent, or left out.                                            *)
LEMMA StepSend ==
  ASSUME CommandInv, Send
  PROVE  CommandInv'
  BY SendsNothing, SendsToBusy, SendsByte, SendsCode

-----------------------------------------------------------------------------
(* A call starts with the invariant.                                        *)
LEMMA CommandInit ==
  ASSUME Init
  PROVE  CommandInv
  <1> USE DEF Init
  <1>1. job \in Jobs
    OBVIOUS
  <1>2. /\ job.function \in Functions /\ job.start \in Nat /\ End \in Nat /\ job.start < End
        /\ Paged => job.start % PageSize = 0
        /\ job.start % Step(job.function) = 0
    BY <1>1, JobFacts
  <1>3. mem \in [Addr -> Val]
    BY JedecAssumption DEF JedecAssumption
  <1>4. DOMAIN busy = {} /\ ~Working
    BY DEF Idle, Working
  <1>a. CommandTypes
    <2>1. IsSequence(seq)
      BY NoCodes
    <2>2. pos \in job.start .. End /\ tmp1 \in Val
      BY <1>2 DEF Val
    <2>3. polls \in 0 .. MaxPolls /\ tried \in 0 .. MaxTries /\ failures \in 0 .. MaxFailures
      BY Sizes
    <2> QED BY <1>1, <1>3, <2>1, <2>2, <2>3 DEF CommandTypes
  <1>b. Walk
    BY <1>2 DEF Walk
  <1>c. OnTheWay
    BY <1>4 DEF OnTheWay
  <1>d. Confined
    BY <1>4 DEF Confined, MayBecome, Prepared
  <1>e. WaitsFor
    BY <1>4 DEF WaitsFor
  <1>f. OnTrack
    BY Sizes DEF OnTrack
  <1>g. DoneSoFar
    BY <1>2, <1>4 DEF DoneSoFar
  <1> QED BY <1>a, <1>b, <1>c, <1>d, <1>e, <1>f, <1>g DEF CommandInv

(* Every step preserves it.                                                 *)
LEMMA CommandNext ==
  ASSUME CommandInv, [Next]_vars
  PROVE  CommandInv'
  <1>1. CASE EraseBlock \/ EraseChip
    BY <1>1, StepErase
  <1>2. CASE SkipByte
    BY <1>2, StepSkip
  <1>3. CASE WriteByte \/ WritePage
    BY <1>3, StepWrite
  <1>4. CASE Done
    BY <1>4, StepDone
  <1>5. CASE Send
    BY <1>5, StepSend
  <1>6. CASE ToggleFirst
    BY <1>6, StepToggleFirst
  <1>7. CASE Toggle
    BY <1>7, StepToggle
  <1>8. CASE ToggleLimit
    BY <1>8, StepToggleLimit
  <1>9. CASE Ask
    BY <1>9, StepAsk
  <1>10. CASE Reset
    BY <1>10, StepReset
  <1>11. CASE EraseDone
    BY <1>11, StepEraseDone
  <1>12. CASE CheckByte \/ CheckNothing \/ CheckPage
    BY <1>12, StepCheck
  <1>13. CASE StartLoad
    BY <1>13, StepLoad
  <1>14. CASE Finish
    BY <1>14, StepFinish
  <1>15. CASE Fail
    BY <1>15, StepFail
  <1>16. CASE UNCHANGED vars
    BY <1>16, Stuttering
  <1> QED BY <1>1, <1>2, <1>3, <1>4, <1>5, <1>6, <1>7, <1>8, <1>9, <1>10, <1>11, <1>12, <1>13,
             <1>14, <1>15, <1>16 DEF Next, Host, ChipStep

(* Wherever a call is: the chip has heard what the host has sent, nothing   *)
(* outside the place that is worked on changes, and what has been passed is *)
(* as the call wants it.                                                    *)
THEOREM CommandInvariance == Spec => []CommandInv
  BY CommandInit, CommandNext, PTL DEF Spec

(* Such a chip listens when it should.                                      *)
LEMMA InvListens == CommandInv => ChipListens
  BY DEF CommandInv, WaitsFor, ChipListens

(* And a write that is checked needs no more tries than failures.           *)
LEMMA InvSuffice == CommandInv => RetriesSuffice
  <1> SUFFICES ASSUME CommandInv, pc = "returned", failures < MaxTries, ~late,
                      job.function \notin Unchecked
               PROVE  result = "0"
    BY DEF RetriesSuffice
  <1>1. result \in {"0", "error"}
    BY DEF CommandInv, CommandTypes, Walk
  <1>2. result # "error"
    <2>1. ~(failures >= MaxTries)
      BY Sizes DEF CommandInv, CommandTypes
    <2> QED BY <2>1 DEF CommandInv, DoneSoFar
  <1> QED BY <1>1, <1>2

(* For every chip, call and number of failures: the check, the next command *)
(* and the next call find a chip that listens and shows its contents.       *)
THEOREM Listens == Spec => []ChipListens
  BY InvListens, CommandInvariance, PTL

(* A write that is checked succeeds if fewer operations fail than there are *)
(* retries.                                                                 *)
THEOREM Suffice == Spec => []RetriesSuffice
  BY InvSuffice, CommandInvariance, PTL

-----------------------------------------------------------------------------
(* The refinement of ChipCall *)

Told == job.function \notin Unchecked \/ (~late /\ ~weak)

(* A call that has begun is an abstract call that has begun.                *)
LEMMA CallStarts == Init => Call!Init
  <1> SUFFICES ASSUME Init PROVE Call!Init
    OBVIOUS
  <1>1. /\ job.data \in [Addr -> Val] /\ Cells \subseteq Addr /\ mem \in [Addr -> Val]
        /\ result = "none" /\ late = FALSE /\ weak = FALSE
    BY JobFacts, JedecAssumption DEF Init, JedecAssumption
  <1> QED BY <1>1 DEF Call!Init

(* What a byte is to become, by the kind of the function.                   *)
LEMMA BecomesIs ==
  ASSUME NEW a
  PROVE  Call!Becomes(a) = IF job.function \in Erases THEN 1
                           ELSE IF Paged THEN job.data[a]
                           ELSE IF job.data[a] = 0 THEN 0 ELSE mem[a]
  <1>1. CASE job.function \in Erases
    <2>1. ~Paged
      BY <1>1, CommandOf
    <2> QED BY <1>1, <2>1 DEF Call!Becomes
  <1>2. CASE job.function \notin Erases /\ Paged
    BY <1>2 DEF Call!Becomes
  <1>3. CASE job.function \notin Erases /\ ~Paged
    BY <1>3 DEF Call!Becomes
  <1> QED BY <1>1, <1>2, <1>3

(* What a step does to the abstract call.                                   *)
LEMMA CallStutters ==
  ASSUME job' = job, mem' = mem, result' = result, Told' = Told
  PROVE  UNCHANGED Call!vars
  BY SameCall DEF Call!vars, Told

(* To lose sight of a failure is a step of the abstract call.               *)
LEMMA CallHides ==
  ASSUME job' = job, mem' = mem, result' = result, ~Told'
  PROVE  Call!Next
  BY SameCall DEF Call!Next, Call!Hide, Told

(* So is to return an error,                                                *)
LEMMA CallFails ==
  ASSUME job' = job, mem' = mem, result = "none", result' = "error", late' = late, weak' = weak
  PROVE  Call!Next
  BY SameCall DEF Call!Next, Call!Fail

(* and to return 0 when the bytes are as they should be.                    *)
LEMMA CallSucceeds ==
  ASSUME job' = job, mem' = mem, result = "none", result' = "0", late' = late, weak' = weak,
         Told => \A a \in Cells : mem[a] = Call!Becomes(a)
  PROVE  Call!Next
  BY SameCall DEF Call!Next, Call!Succeed, Told

(* What has been written is what the data say.                              *)
LEMMA AllWritten ==
  ASSUME CommandInv, job.function \notin Erases, \A a \in Cells : Written(a), NEW a \in Cells
  PROVE  mem[a] = Call!Becomes(a)
  <1>1. job.data[a] \in {0, 1}
    BY CallFacts DEF CommandInv, Val
  <1>2. job.data[a] = 1 => mem[a] = 1
    BY DEF CommandInv, Confined
  <1>3. job.data[a] = 0 => mem[a] = 0
    BY DEF Written
  <1>4. mem[a] = IF job.function \in Erases THEN 1
                 ELSE IF Paged THEN job.data[a]
                 ELSE IF job.data[a] = 0 THEN 0 ELSE mem[a]
    BY <1>1, <1>2, <1>3
  <1> QED BY <1>4, BecomesIs

(* What the chip does when it finishes is a change of the abstract call.    *)
LEMMA CallChanges ==
  ASSUME CommandInv, Finish
  PROVE  Call!Next
  <1>1. job' = job /\ result' = result /\ mem' = Outcome /\ busy # Idle /\ late' = late
            /\ weak' = weak
    BY DEF Finish, host
  <1>2. /\ Working /\ DOMAIN busy \subseteq Cells /\ Cells \subseteq Addr
        /\ pc \in {"check", "loop", "returned"} => late
    BY <1>1, BusyFacts
  <1>3. mem' \in [Addr -> Val] /\ Cells' = Cells
    BY <1>1, StepFinish, SameCall DEF CommandInv, CommandTypes
  <1>4. result = "0" => ~Told
    <2> SUFFICES ASSUME result = "0", Told PROVE FALSE
      OBVIOUS
    <2>1. pc = "returned" /\ ~failed
      BY DEF CommandInv, Walk, DoneSoFar
    <2>2. late
      BY <1>2, <2>1
    <2>3. job.function \notin Unchecked
      BY <2>2 DEF Told
    <2> QED BY <1>2, <2>1, <2>3 DEF CommandInv, DoneSoFar
  <1>5. ASSUME NEW a \in Addr, mem'[a] # mem[a]
        PROVE  a \in Cells /\ (mem'[a] = Call!Becomes(a) \/ (Paged /\ mem'[a] = 1))
    <2>1. a \in DOMAIN busy /\ mem'[a] = busy[a]
      BY <1>1, <1>5 DEF Outcome
    <2>2. IF job.function \in Erases THEN busy[a] = 1
          ELSE IF Paged THEN busy[a] \in {1, job.data[a]}
          ELSE busy[a] = IF job.data[a] = 0 THEN 0 ELSE mem[a]
      BY <2>1 DEF CommandInv, Confined, MayBecome
    <2>3. Paged => job.function \notin Erases
      BY CommandOf
    <2>4. CASE job.function \in Erases
      BY <1>2, <2>1, <2>2, <2>4, BecomesIs
    <2>5. CASE job.function \notin Erases /\ Paged
      BY <1>2, <2>1, <2>2, <2>5, BecomesIs
    <2>6. CASE job.function \notin Erases /\ ~Paged
      BY <1>2, <2>1, <2>2, <2>6, BecomesIs
    <2> QED BY <2>4, <2>5, <2>6
  <1>6. Paged => job.function \notin Erases
    BY CommandOf
  <1> QED BY <1>1, <1>3, <1>4, <1>5, <1>6, SameCall DEF Call!Next, Call!Change, Told

(* Each step of a call is one of the abstract call, or none to it.          *)
LEMMA CallStep ==
  ASSUME CommandInv, [Next]_vars
  PROVE  [Call!Next]_(Call!vars)
  <1>1. CASE Finish
    BY <1>1, CallChanges
  <1>2. CASE Fail \/ ToggleLimit
    <2>1. job' = job /\ mem' = mem /\ result' = result
      BY <1>2 DEF Fail, ToggleLimit, Unseen, host
    <2>2. Told' \in BOOLEAN /\ Told \in BOOLEAN /\ (Told' => Told)
      BY <1>2, <2>1 DEF Told, Fail, ToggleLimit, Unseen, CommandInv, CommandTypes
    <2>3. CASE Told'
      BY <2>1, <2>2, <2>3, CallStutters
    <2>4. CASE ~Told'
      BY <2>1, <2>4, CallHides
    <2> QED BY <2>3, <2>4
  <1>3. CASE Done
    <2>1. /\ pc = "loop" /\ pos >= End /\ job' = job /\ mem' = mem /\ late' = late /\ weak' = weak
          /\ result' = IF failed THEN "error" ELSE "0"
          /\ job.function \notin Erases
      BY <1>3 DEF Done, AtLoop, Return, chip, ByteWrites, BlindWrites, Erases, SectorErases,
           ChipErases
    <2>2. result = "none"
      BY <2>1 DEF CommandInv, Walk
    <2>3. CASE failed
      BY <2>1, <2>2, <2>3, CallFails
    <2>4. CASE ~failed
      <3>1. ASSUME Told PROVE \A a \in Cells : Written(a)
        <4>1. job.start .. pos - 1 = Cells
          <5>1. pos = End
            BY <2>1, CallFacts DEF CommandInv
          <5> QED BY <5>1 DEF Cells
        <4>2. \/ job.function \notin Unchecked
              \/ job.function \in BlindWrites /\ ~late /\ ~weak
          BY <2>1, <3>1 DEF Told, Unchecked
        <4> QED BY <2>4, <4>1, <4>2 DEF CommandInv, DoneSoFar
      <3>2. Told => \A a \in Cells : mem[a] = Call!Becomes(a)
        BY <2>1, <3>1, AllWritten
      <3> QED BY <2>1, <2>2, <2>4, <3>2, CallSucceeds
    <2> QED BY <2>3, <2>4
  <1>4. CASE EraseDone
    <2>1. /\ pc = "check" /\ job' = job /\ mem' = mem /\ late' = late /\ weak' = weak
          /\ result' = "0" /\ job.function \in Erases
      BY <1>4 DEF EraseDone, Return, chip
    <2>2. result = "none"
      BY <2>1 DEF CommandInv, Walk
    <2>3. ASSUME Told, NEW a \in Cells PROVE mem[a] = Call!Becomes(a)
      <3>1. ~late /\ ~weak
        BY <2>1, <2>3 DEF Told, Unchecked
      <3>2. Effects(mem)
        BY <2>1, <3>1 DEF CommandInv, OnTrack, Fault, Unchecked
      <3>3. Target = Cells
        BY <2>1, TargetErase DEF CommandInv
      <3>4. mem[a] = 1
        BY <2>1, <3>2, <3>3 DEF Effects
      <3> QED BY <2>1, <3>4, BecomesIs
    <2> QED BY <2>1, <2>2, <2>3, CallSucceeds
  <1>5. CASE EraseChip
    <2>1. /\ pc = "loop" /\ job' = job /\ mem' = mem /\ late' = late /\ weak' = weak
          /\ result' = "error" \/ result' = result
      BY <1>5 DEF EraseChip, AtLoop, Return, chip
    <2>2. result = "none"
      BY <2>1 DEF CommandInv, Walk
    <2>3. Told' = Told
      BY <2>1 DEF Told
    <2> QED BY <2>1, <2>2, <2>3, CallFails, CallStutters
  <1>6. CASE CheckPage
    <2>1. /\ pc = "check" /\ job' = job /\ mem' = mem /\ late' = late /\ weak' = weak
          /\ result' = "error" \/ result' = result
      BY <1>6 DEF CheckPage, Return, Retry, chip
    <2>2. result = "none"
      BY <2>1 DEF CommandInv, Walk
    <2>3. Told' = Told
      BY <2>1 DEF Told
    <2> QED BY <2>1, <2>2, <2>3, CallFails, CallStutters
  <1>7. ASSUME job' = job, mem' = mem, result' = result, late' = late, weak' = weak
        PROVE  UNCHANGED Call!vars
    BY <1>7, CallStutters DEF Told
  <1>8. CASE EraseBlock \/ SkipByte \/ WriteByte \/ WritePage
    BY <1>7, <1>8 DEF EraseBlock, SkipByte, WriteByte, WritePage, chip
  <1>9. CASE Send \/ ToggleFirst \/ Toggle \/ Ask \/ Reset
    BY <1>7, <1>9 DEF Send, ToggleFirst, Toggle, Ask, Reset, Unseen, chip
  <1>10. CASE CheckByte \/ CheckNothing
    BY <1>7, <1>10 DEF CheckByte, CheckNothing, Retry, chip
  <1>11. CASE StartLoad
    BY <1>7, <1>11 DEF StartLoad, host
  <1>12. CASE UNCHANGED vars
    BY <1>7, <1>12 DEF vars, host, chip
  <1> QED BY <1>1, <1>2, <1>3, <1>4, <1>5, <1>6, <1>8, <1>9, <1>10, <1>11, <1>12
          DEF Next, Host, ChipStep

(* A call changes no byte but its own, each only to what it should become,  *)
(* and returns 0 only if all of them have, unless a failure is hidden from  *)
(* a function that checks nothing.                                          *)
THEOREM CallRefines == Spec => ImplementsCall
  BY CallStarts, CallStep, CommandInvariance, PTL DEF Spec, ImplementsCall, Call!Spec

-----------------------------------------------------------------------------
(* ParallelLocks *)

AllOpen == \A b \in Expected(lockchip) : locks[b] = {}
Passed == {b \in Expected(lockchip) : b < lockpos}

(* What has been passed is open, is counted, or is to be cleared.           *)
LocksInv ==
  /\ lockchip \in LockChips /\ locks \in [lockchip.blocks -> SUBSET Bits]
  /\ lockpos \in Stops(lockchip) /\ ret \in Nat /\ need_unlock \in BOOLEAN
  /\ lockpc \in {"loop", "wait", "returned"} /\ (unlocked = "none" <=> lockpc # "returned")
  /\ lockchip.unlock \notin LockBits =>
       /\ view = "array" /\ ~clearing /\ lockpc # "wait"
       /\ lockpc = "loop" /\ ret = 0 => \A b \in Passed : IsOpen(b)
       /\ unlocked = "0" => hwlocks = {} /\ \A b \in Expected(lockchip) : IsOpen(b)
  /\ lockchip.unlock \in LockBits =>
       /\ hwlocks = {}
       /\ lockpc = "loop" /\ ~need_unlock => \A b \in Passed : locks[b] = {}
       /\ lockpc = "loop" => ~clearing
       /\ lockpc = "wait" => lockchip.unlock = "unlock_lh28f008bjt"
       /\ lockpc = "wait" \/ unlocked = "0" => clearing \/ unheard \/ AllOpen
       /\ unlocked = "0" /\ lockchip.unlock # "unlock_28f004s5" => view = "array" /\ ~clearing

(* A block at which a function comes by is the one it selects.              *)
LEMMA BlockHere ==
  ASSUME LocksInv, NEW a \in lockchip.blocks
  PROVE  BlockAt(a) = a
  <1> DEFINE S == {b \in lockchip.blocks : b <= a}
  <1>1. lockchip.blocks \subseteq Int
    BY LockAssumption DEF LocksInv, LockAssumption
  <1>2. a \in S /\ \A b \in S : a >= b
    BY <1>1
  <1>3. \A x \in S : (\A b \in S : x >= b) => x = a
    BY <1>1, <1>2
  <1> HIDE DEF S
  <1>4. Max(S) = a
    BY <1>2, <1>3 DEF Max
  <1> QED BY <1>4 DEF BlockAt, S

(* Opening a block leaves the others as they are.                           *)
LEMMA OpenedIs ==
  ASSUME LocksInv, NEW a
  PROVE  /\ Opened(a) \in [lockchip.blocks -> SUBSET Bits]
         /\ \A b \in lockchip.blocks : Opened(a)[b] = locks[b] \/ Opened(a)[b] = {}
         /\ BlockAt(a) \in lockchip.blocks /\ "down" \notin locks[BlockAt(a)] =>
              Opened(a)[BlockAt(a)] = {}
  <1>1. locks \in [lockchip.blocks -> SUBSET Bits]
    BY DEF LocksInv
  <1> DEFINE x == BlockAt(a)
  <1> HIDE DEF x
  <1> QED BY <1>1 DEF Opened, x

(* The next stop, and what lies before it.                                  *)
LEMMA NextStop ==
  ASSUME LocksInv, More, lockpos' = lockpos + Stride(lockchip, lockpos), lockchip' = lockchip
  PROVE  /\ lockpos' \in Stops(lockchip)' /\ lockpos \in Int
         /\ Expected(lockchip) \subseteq lockchip.blocks
         /\ \A b \in Passed' : b \in Passed
              \/ (b = lockpos /\ b \in Expected(lockchip) /\ BlockAt(lockpos) = lockpos)
  <1>1. lockchip \in LockChips /\ lockpos \in Stops(lockchip) /\ lockpos < lockchip.size
    BY DEF LocksInv, More
  <1>2. /\ lockpos + Stride(lockchip, lockpos) \in Stops(lockchip)
        /\ \A b \in Expected(lockchip) :
             lockpos <= b /\ b < lockpos + Stride(lockchip, lockpos) => b = lockpos
    BY <1>1, StopsAssumption DEF StopsAssumption
  <1>3. Expected(lockchip) \subseteq lockchip.blocks /\ lockchip.blocks \subseteq Int
    BY <1>1, LockAssumption DEF Expected, LockAssumption
  <1>4. Stops(lockchip) \subseteq Int
    BY <1>1, LockAssumption DEF Stops, LockAssumption
  <1>5. Passed' = {b \in Expected(lockchip) : b < lockpos + Stride(lockchip, lockpos)}
    BY DEF Passed
  <1>6. ASSUME NEW b \in Passed'
        PROVE  b \in Passed
                 \/ (b = lockpos /\ b \in Expected(lockchip) /\ BlockAt(lockpos) = lockpos)
    <2>1. b \in Expected(lockchip) /\ b < lockpos + Stride(lockchip, lockpos) /\ b \in Int
      BY <1>3, <1>5, <1>6
    <2>2. CASE b < lockpos
      BY <2>1, <2>2 DEF Passed
    <2>3. CASE ~(b < lockpos)
      <3>1. b = lockpos
        BY <1>1, <1>2, <1>4, <2>1, <2>3
      <3> QED BY <1>3, <2>1, <3>1, BlockHere
    <2> QED BY <2>2, <2>3
  <1> QED BY <1>1, <1>2, <1>3, <1>4, <1>6

(* Nothing has been passed at the beginning.                                *)
LEMMA LocksStart == LocksInit => LocksInv
  <1> SUFFICES ASSUME LocksInit PROVE LocksInv
    OBVIOUS
  <1> USE DEF LocksInit
  <1>1. /\ lockchip.size \in Nat /\ lockchip.page \in Nat \ {0}
        /\ lockchip.blocks \subseteq 0 .. lockchip.size - 1
    BY LockAssumption DEF LockAssumption
  <1>2. locks \in [lockchip.blocks -> SUBSET Bits]
    <2>1. locks \in [lockchip.blocks -> LockValues(lockchip)]
      BY LockAssumption DEF LockAssumption
    <2>2. LockValues(lockchip) \subseteq SUBSET Bits
      BY DEF LockValues, Bits
    <2> QED BY <2>1, <2>2
  <1>3. 0 \in Stops(lockchip)
    <2>1. Stride(lockchip, 0) \in Nat \ {0}
      BY <1>1 DEF Stride
    <2>2. 0 \in 0 .. lockchip.size /\ 0 % 16 = 0 /\ 0 % lockchip.page = 0
          /\ 0 % Stride(lockchip, 0) = 0
      <3> DEFINE s == Stride(lockchip, 0)
      <3> HIDE DEF s
      <3>1. s \in Nat \ {0} => 0 % s = 0
        OBVIOUS
      <3> QED BY <1>1, <2>1, <3>1 DEF s
    <2> QED BY <2>2 DEF Stops
  <1>4. Passed = {}
    BY <1>1 DEF Passed, Expected
  <1>5. lockchip.unlock \in LockBits => lockchip.unlock \notin Winbond
    BY DEF LockBits, Winbond
  <1> QED BY <1>2, <1>3, <1>4, <1>5 DEF LocksInv

(* A step of the loop of a chip with registers.                             *)
LEMMA RegisterStep ==
  ASSUME LocksInv, lockchip.unlock \notin LockBits, lockpc = "loop", RegistersOnly,
         locks' \in {locks, Opened(lockpos)}, ret' \in Nat, ret' = 0 => ret = 0,
         \/ Unlocking("error") /\ UNCHANGED lockpos
         \/ /\ Next1 /\ More
            /\ \A b \in Expected(lockchip) :
                 ret' = 0 /\ BlockAt(lockpos) = lockpos /\ b = lockpos => IsOpen(b)'
  PROVE  LocksInv'
  <1>1. /\ lockchip' = lockchip /\ need_unlock' = need_unlock /\ hwlocks' = hwlocks
        /\ view' = view /\ clearing' = clearing /\ unheard' = unheard
        /\ lockchip'.unlock \notin LockBits /\ lockpc # "returned" /\ unlocked = "none"
    BY DEF RegistersOnly, LocksInv
  <1>2. /\ locks' \in [lockchip.blocks -> SUBSET Bits]
        /\ \A b \in lockchip.blocks : locks'[b] = locks[b] \/ locks'[b] = {}
    BY OpenedIs DEF LocksInv
  <1>3. \A b \in lockchip.blocks : IsOpen(b) => IsOpen(b)'
    <2> SUFFICES ASSUME NEW b \in lockchip.blocks, IsOpen(b) PROVE IsOpen(b)'
      OBVIOUS
    <2>1. CASE locks'[b] = locks[b]
      BY <1>1, <2>1 DEF IsOpen
    <2>2. CASE locks'[b] = {}
      BY <2>2 DEF IsOpen
    <2> QED BY <1>2, <2>1, <2>2
  <1>4. CASE Unlocking("error") /\ UNCHANGED lockpos
    BY <1>1, <1>2, <1>4 DEF LocksInv, Unlocking
  <1>5. CASE /\ Next1 /\ More
             /\ \A b \in Expected(lockchip) :
                  ret' = 0 /\ BlockAt(lockpos) = lockpos /\ b = lockpos => IsOpen(b)'
    <2>1. /\ lockpos' = lockpos + Stride(lockchip, lockpos) /\ unlocked' = unlocked
          /\ lockpc' = lockpc
      BY <1>5 DEF Next1
    <2>2. /\ lockpos' \in Stops(lockchip)' /\ Expected(lockchip) \subseteq lockchip.blocks
          /\ \A b \in Passed' : b \in Passed
              \/ (b = lockpos /\ b \in Expected(lockchip) /\ BlockAt(lockpos) = lockpos)
      BY <1>1, <1>5, <2>1, NextStop
    <2>3. ASSUME ret' = 0, NEW b \in Passed' PROVE IsOpen(b)'
      <3>1. CASE b \in Passed
        <4>1. IsOpen(b)
          BY <2>3, <3>1 DEF LocksInv
        <4> QED BY <1>3, <2>2, <3>1, <4>1 DEF Passed
      <3>2. CASE b = lockpos /\ b \in Expected(lockchip) /\ BlockAt(lockpos) = lockpos
        BY <1>5, <2>3, <3>2
      <3> QED BY <2>2, <3>1, <3>2
    <2>4. (ret = 0 => \A b \in Passed : IsOpen(b))'
      BY <2>3
    <2> QED BY <1>1, <1>2, <2>1, <2>2, <2>4 DEF LocksInv
  <1> QED BY <1>4, <1>5

(* What the functions that read or write registers do is such a step.       *)
LEMMA RegistersKeep ==
  ASSUME LocksInv, WriteBlindly \/ Stm50Block \/ SstFwhubBlock \/ W39FwhBlock
  PROVE  LocksInv'
  <1> DEFINE x == BlockAt(lockpos)
  <1>1. /\ lockpc = "loop" /\ lockchip.unlock \notin LockBits /\ RegistersOnly
             /\ lockchip' = lockchip
        /\ ret \in Nat /\ locks \in [lockchip.blocks -> SUBSET Bits]
    BY DEF LocksInv, WriteBlindly, Stm50Block, SstFwhubBlock, W39FwhBlock, LockAt, Blind,
           Winbond, LockBits, RegistersOnly
  <1>2. lockchip \in LockChips /\ Expected(lockchip) \subseteq lockchip.blocks
    BY DEF LocksInv, Expected
  <1>3. Opened(lockpos) = IF "down" \in locks[x] THEN locks ELSE [locks EXCEPT ![x] = {}]
    BY DEF Opened
  <1> HIDE DEF x
  <1>4. CASE WriteBlindly
    <2>1. lockchip.unlock \in Blind /\ locks' = Opened(lockpos) /\ ret' = ret /\ Next1 /\ More
      BY <1>4 DEF WriteBlindly, LockAt
    <2>2. ASSUME NEW b \in Expected(lockchip), x = b PROVE IsOpen(b)'
      <3>1. "down" \in locks'[b] \/ locks'[b] = {}
        BY <1>1, <1>2, <1>3, <2>1, <2>2
      <3> QED BY <1>1, <2>1, <3>1 DEF IsOpen
    <2> QED BY <1>1, <2>1, <2>2, RegisterStep DEF x
  <1>5. CASE Stm50Block
    <2>1. /\ lockchip.unlock = "unlock_stm50flw0x0x" /\ locks' = Opened(lockpos) /\ ret' = ret
               /\ More
          /\ IF locks'[x] = {} THEN Next1 ELSE Unlocking("error") /\ UNCHANGED lockpos
      BY <1>5 DEF Stm50Block, LockAt, x
    <2>2. ASSUME locks'[x] = {}, NEW b \in Expected(lockchip), x = b PROVE IsOpen(b)'
      BY <2>2 DEF IsOpen
    <2>3. CASE locks'[x] = {}
      BY <1>1, <2>1, <2>2, <2>3, RegisterStep DEF x
    <2>4. CASE locks'[x] # {}
      BY <1>1, <2>1, <2>4, RegisterStep
    <2> QED BY <2>3, <2>4
  <1>6. CASE SstFwhubBlock
    <2>1. /\ lockchip.unlock = "unlock_sst_fwhub" /\ More /\ Next1
          /\ locks' = IF "write" \in locks[x] THEN Opened(lockpos) ELSE locks
          /\ ret' = IF "write" \in Opened(lockpos)[x] THEN ret + 1 ELSE ret
      BY <1>6 DEF SstFwhubBlock, LockAt, x
    <2>2. ret' \in Nat /\ (ret' = 0 => ret = 0) /\ locks' \in {locks, Opened(lockpos)}
      BY <1>1, <2>1
    <2>3. ASSUME NEW b \in Expected(lockchip), ret' = 0, x = b PROVE IsOpen(b)'
      <3>1. "write" \notin Opened(lockpos)[b]
        BY <1>1, <2>1, <2>3
      <3>2. "write" \notin locks'[b]
        BY <2>1, <2>3, <3>1
      <3> QED BY <1>1, <2>1, <3>2 DEF IsOpen
    <2> QED BY <1>1, <2>1, <2>2, <2>3, RegisterStep DEF x
  <1>7. CASE W39FwhBlock
    <2>1. /\ lockchip.unlock \in Winbond /\ More /\ ret' = ret
          /\ \/ locks[x] \cap {"read", "write"} = {} /\ Next1 /\ locks' = locks
             \/ Unlocking("error") /\ UNCHANGED <<lockpos, locks>>
             \/ "down" \notin locks[x] /\ locks' = Opened(lockpos) /\ Next1
      BY <1>7 DEF W39FwhBlock, LockAt, x
    <2>2. CASE locks[x] \cap {"read", "write"} = {} /\ Next1 /\ locks' = locks
      <3>1. ASSUME NEW b \in Expected(lockchip), x = b PROVE IsOpen(b)'
        <4>1. locks'[b] \subseteq Bits /\ locks'[b] \cap {"read", "write"} = {}
          BY <1>1, <1>2, <2>2, <3>1
        <4>2. locks'[b] \cap (Bits \ {"down"}) = {} /\ locks'[b] \cap {"write"} = {}
          BY <4>1 DEF Bits
        <4> QED BY <4>2 DEF IsOpen
      <3> QED BY <1>1, <2>1, <2>2, <3>1, RegisterStep DEF x
    <2>3. CASE Unlocking("error") /\ UNCHANGED <<lockpos, locks>>
      BY <1>1, <2>1, <2>3, RegisterStep
    <2>4. CASE "down" \notin locks[x] /\ locks' = Opened(lockpos) /\ Next1
      <3>1. ASSUME NEW b \in Expected(lockchip), x = b PROVE IsOpen(b)'
        <4>1. locks'[b] = {}
          BY <1>1, <1>2, <1>3, <2>4, <3>1
        <4> QED BY <4>1 DEF IsOpen
      <3> QED BY <1>1, <2>1, <2>4, <3>1, RegisterStep DEF x
    <2> QED BY <2>1, <2>2, <2>3, <2>4
  <1> QED BY <1>4, <1>5, <1>6, <1>7

(* At the end of its loop a function has passed every block.                *)
LEMMA AllPassed ==
  ASSUME LocksInv, ~More
  PROVE  Passed = Expected(lockchip)
  <1>1. lockchip \in LockChips /\ lockpos \in Stops(lockchip) /\ ~(lockpos < lockchip.size)
    BY DEF LocksInv, More
  <1>2. lockchip.size \in Nat /\ lockchip.blocks \subseteq 0 .. lockchip.size - 1
    BY <1>1, LockAssumption DEF LockAssumption
  <1>3. lockpos \in Int /\ Expected(lockchip) \subseteq 0 .. lockchip.size - 1
    BY <1>1, <1>2 DEF Stops, Expected
  <1> QED BY <1>1, <1>2, <1>3 DEF Passed

(* The other steps keep the invariant as well.                              *)
LEMMA LocksKeep ==
  ASSUME LocksInv, [LocksNext]_lockVars
  PROVE  LocksInv'
  <1>1. CASE WriteBlindly \/ Stm50Block \/ SstFwhubBlock \/ W39FwhBlock
    BY <1>1, RegistersKeep
  <1>2. CASE LoopEnds
    <2>1. /\ lockchip' = lockchip /\ locks' = locks /\ lockpos' = lockpos /\ ret' = ret
          /\ need_unlock' = need_unlock /\ hwlocks' = hwlocks /\ view' = view
          /\ clearing' = clearing /\ unheard' = unheard /\ lockpc' = "returned"
          /\ unlocked' = (IF ret = 0 /\ hwlocks = {} THEN "0" ELSE "error")
          /\ lockpc = "loop" /\ lockchip.unlock \notin LockBits /\ ~More
      BY <1>2 DEF LoopEnds, RegistersOnly, Unlocking
    <2>2. ret = 0 => \A b \in Expected(lockchip) : IsOpen(b)
      BY <2>1, AllPassed DEF LocksInv
    <2>3. ret = 0 => \A b \in Expected(lockchip) : IsOpen(b)'
      BY <2>1, <2>2 DEF IsOpen
    <2> QED BY <2>1, <2>3 DEF LocksInv
  <1>3. CASE ReadLockBit
    <2>1. /\ lockchip' = lockchip /\ locks' = locks /\ ret' = ret /\ hwlocks' = hwlocks
          /\ clearing' = clearing /\ unheard' = unheard /\ unlocked' = unlocked /\ lockpc' = lockpc
          /\ lockpos' = lockpos + Stride(lockchip, lockpos)
          /\ need_unlock' = (need_unlock \/ locks[BlockAt(lockpos)] # {})
          /\ lockpc = "loop" /\ lockchip.unlock \in LockBits /\ More
      BY <1>3 DEF ReadLockBit, LockAt, Next1
    <2>2. /\ lockpos' \in Stops(lockchip)'
          /\ \A b \in Passed' : b \in Passed
              \/ (b = lockpos /\ b \in Expected(lockchip) /\ BlockAt(lockpos) = lockpos)
      BY <2>1, NextStop
    <2>3. ~need_unlock' => \A b \in Passed' : locks'[b] = {}
      BY <2>1, <2>2 DEF LocksInv
    <2>4. need_unlock' \in BOOLEAN
      BY <2>1 DEF LocksInv
    <2>5. lockpc' = "loop" /\ unlocked' = "none" /\ ~clearing'
      BY <2>1 DEF LocksInv
    <2> QED BY <2>1, <2>2, <2>3, <2>4, <2>5 DEF LocksInv
  <1>4. CASE ClearLockBits
    <2>1. /\ lockchip' = lockchip /\ locks' = locks /\ ret' = ret /\ hwlocks' = hwlocks
          /\ need_unlock' = need_unlock /\ lockpos' = lockpos /\ unheard' = unheard
          /\ lockpc = "loop" /\ lockchip.unlock \in LockBits /\ ~More
      BY <1>4 DEF ClearLockBits, LockAt
    <2>2. need_unlock \in BOOLEAN /\ ~clearing /\ unlocked = "none"
      BY <2>1 DEF LocksInv
    <2>3. ~need_unlock => AllOpen
      BY <2>1, AllPassed DEF LocksInv, AllOpen
    <2>4. \/ Unlocking("error") /\ clearing' = clearing
          \/ clearing' = TRUE /\ lockchip.unlock = "unlock_28f004s5" /\ Unlocking("0")
          \/ /\ clearing' = TRUE /\ lockchip.unlock # "unlock_28f004s5"
             /\ lockpc' = "wait" /\ unlocked' = unlocked
          \/ ~need_unlock /\ Unlocking("0") /\ view' = "array" /\ clearing' = clearing
      BY <1>4, <2>2 DEF ClearLockBits
    <2>5. CASE Unlocking("error") /\ clearing' = clearing
      BY <2>1, <2>5 DEF LocksInv, Unlocking
    <2>6. CASE clearing' = TRUE /\ lockchip.unlock = "unlock_28f004s5" /\ Unlocking("0")
      BY <2>1, <2>6 DEF LocksInv, Unlocking
    <2>7. CASE /\ clearing' = TRUE /\ lockchip.unlock # "unlock_28f004s5"
               /\ lockpc' = "wait" /\ unlocked' = unlocked
      BY <2>1, <2>2, <2>7 DEF LocksInv, LockBits
    <2>8. CASE ~need_unlock /\ Unlocking("0") /\ view' = "array" /\ clearing' = clearing
      <3>1. AllOpen'
        BY <2>1, <2>3, <2>8 DEF AllOpen
      <3> QED BY <2>1, <2>2, <2>8, <3>1 DEF LocksInv, Unlocking
    <2> QED BY <2>4, <2>5, <2>6, <2>7, <2>8
  <1>5. CASE LockWait
    <2>1. /\ lockchip' = lockchip /\ locks' = locks /\ ret' = ret /\ hwlocks' = hwlocks
          /\ need_unlock' = need_unlock /\ lockpos' = lockpos /\ unheard' = unheard
          /\ clearing' = clearing /\ lockpc = "wait" /\ ~clearing /\ unlocked' = "0"
          /\ lockpc' = "returned" /\ view' = "array"
      BY <1>5 DEF LockWait, Unlocking
    <2>2. lockchip.unlock \in LockBits /\ (unheard \/ AllOpen)
      BY <2>1 DEF LocksInv
    <2>3. unheard' \/ AllOpen'
      BY <2>1, <2>2 DEF AllOpen
    <2> QED BY <2>1, <2>2, <2>3 DEF LocksInv
  <1>6. CASE Cleared
    <2>1. /\ lockchip' = lockchip /\ ret' = ret /\ hwlocks' = hwlocks /\ unlocked' = unlocked
          /\ need_unlock' = need_unlock /\ lockpos' = lockpos /\ unheard' = unheard
          /\ lockpc' = lockpc /\ view' = view /\ clearing /\ clearing' = FALSE
          /\ locks' = [b \in lockchip.blocks |-> {}]
      BY <1>6 DEF Cleared, lockHost
    <2>2. lockchip.unlock \in LockBits /\ lockpc # "loop"
      BY <2>1 DEF LocksInv
    <2>3. AllOpen'
      BY <2>1 DEF AllOpen, Expected
    <2>4. locks' \in [lockchip.blocks -> SUBSET Bits]
      BY <2>1
    <2> QED BY <2>1, <2>2, <2>3, <2>4 DEF LocksInv
  <1>7. CASE ClearFails
    <2>1. /\ lockchip' = lockchip /\ ret' = ret /\ hwlocks' = hwlocks /\ unlocked' = unlocked
          /\ need_unlock' = need_unlock /\ lockpos' = lockpos /\ unheard' = TRUE
          /\ lockpc' = lockpc /\ view' = view /\ clearing /\ clearing' = FALSE
          /\ locks' = locks
      BY <1>7 DEF ClearFails, lockHost
    <2>2. lockchip.unlock \in LockBits /\ lockpc # "loop"
      BY <2>1 DEF LocksInv
    <2> QED BY <2>1, <2>2 DEF LocksInv
  <1>8. CASE UNCHANGED lockVars
    <2>1. /\ lockchip' = lockchip /\ ret' = ret /\ hwlocks' = hwlocks /\ unlocked' = unlocked
          /\ need_unlock' = need_unlock /\ lockpos' = lockpos /\ unheard' = unheard
          /\ lockpc' = lockpc /\ view' = view /\ clearing' = clearing
          /\ locks' = locks
      BY <1>8 DEF lockVars, lockHost, lockDevice
    <2>2. AllOpen' = AllOpen /\ Passed' = Passed /\ \A b : IsOpen(b)' = IsOpen(b)
      BY <2>1 DEF AllOpen, Passed, IsOpen
    <2> QED BY <2>1, <2>2 DEF LocksInv
  <1> QED BY <1>1, <1>2, <1>3, <1>4, <1>5, <1>6, <1>7, <1>8 DEF LocksNext, LocksHost

(* It says of the function's result what Unlocked says.                     *)
LEMMA LocksSay == LocksInv => Unlocked
  <1> SUFFICES ASSUME LocksInv, unlocked = "0" PROVE Unlocked
    BY DEF Unlocked
  <1>1. CASE lockchip.unlock \notin LockBits
    <2>1. hwlocks = {} /\ (\A b \in Expected(lockchip) : IsOpen(b)) /\ view = "array" /\ ~clearing
      BY <1>1 DEF LocksInv
    <2> QED BY <2>1 DEF Unlocked
  <1>2. CASE lockchip.unlock \in LockBits
    <2>1. /\ hwlocks = {} /\ (clearing \/ unheard \/ AllOpen)
          /\ lockchip.unlock # "unlock_28f004s5" => view = "array" /\ ~clearing
      BY <1>2 DEF LocksInv
    <2>2. \A b \in Expected(lockchip) : IsOpen(b)
      BY <1>2, <2>1 DEF IsOpen, AllOpen
    <2> QED BY <2>1, <2>2 DEF Unlocked
  <1> QED BY <1>1, <1>2

-----------------------------------------------------------------------------
(* ParallelChips: one call, of either kind *)

ChipsInv ==
  \/ part = "command" /\ CommandInv /\ LocksIdle
  \/ part = "unlock" /\ CommandsIdle /\ LocksInv



(* What is idle promises everything.                                        *)
LEMMA IdleHolds ==
  /\ CommandsIdle => ChipListens /\ RetriesSuffice
  /\ LocksIdle => Unlocked
  <1>1. CommandsIdle => ChipListens /\ RetriesSuffice
    BY DEF CommandsIdle, ChipListens, RetriesSuffice
  <1>2. LocksIdle => Unlocked
    BY DEF LocksIdle, Unlocked
  <1> QED BY <1>1, <1>2

(* And an idle command is an abstract call that has not begun.              *)
LEMMA IdleCall == CommandsIdle => Call!Init
  <1> SUFFICES ASSUME CommandsIdle PROVE Call!Init
    OBVIOUS
  <1>1. job \in Jobs
    BY JedecAssumption DEF CommandsIdle, JedecAssumption
  <1>2. /\ mem = [a \in Addr |-> 1] /\ result = "none" /\ late = FALSE /\ weak = FALSE
    BY DEF CommandsIdle
  <1>3. /\ job.data \in [Addr -> Val] /\ Cells \subseteq Addr /\ mem \in [Addr -> Val]
    BY <1>1, <1>2, JobFacts, JedecAssumption DEF JedecAssumption, Val
  <1> QED BY <1>2, <1>3 DEF Call!Init

(* A step of one part leaves the other idle.                                *)
LEMMA ChipsNextInv == ChipsInv /\ [ChipsNext]_chipVars => ChipsInv'
  <1> SUFFICES ASSUME ChipsInv, [ChipsNext]_chipVars PROVE ChipsInv'
    OBVIOUS
  <1>1. CASE part = "command"
    <2>1. CommandInv /\ LocksIdle
      BY <1>1 DEF ChipsInv
    <2>2. [Next]_vars /\ UNCHANGED <<lockVars, part>>
      BY <1>1 DEF ChipsNext, InCommand, InUnlock, chipVars
    <2>3. CommandInv'
      BY <2>1, <2>2, CommandNext
    <2>4. LocksIdle'
      BY <2>1, <2>2 DEF LocksIdle, lockVars, lockHost, lockDevice
    <2> QED BY <1>1, <2>2, <2>3, <2>4 DEF ChipsInv
  <1>2. CASE part = "unlock"
    <2>1. CommandsIdle /\ LocksInv
      BY <1>2 DEF ChipsInv
    <2>2. [LocksNext]_lockVars /\ UNCHANGED <<vars, part>>
      BY <1>2 DEF ChipsNext, InCommand, InUnlock, chipVars
    <2>3. LocksInv'
      BY <2>1, <2>2, LocksKeep
    <2>4. CommandsIdle'
      BY <2>1, <2>2 DEF CommandsIdle, vars, host, chip, Idle
    <2> QED BY <1>2, <2>2, <2>3, <2>4 DEF ChipsInv
  <1> QED BY <1>1, <1>2 DEF ChipsInv

(* Each step is one of the abstract call, or none to it.                    *)
LEMMA ChipsCall == ChipsInv /\ [ChipsNext]_chipVars => [Call!Next]_(Call!vars)
  <1> SUFFICES ASSUME ChipsInv, [ChipsNext]_chipVars PROVE [Call!Next]_(Call!vars)
    OBVIOUS
  <1>1. CASE part = "command"
    <2>1. CommandInv
      BY <1>1 DEF ChipsInv
    <2>2. [Next]_vars
      BY <1>1 DEF ChipsNext, InCommand, InUnlock, chipVars
    <2> QED BY <2>1, <2>2, CallStep
  <1>2. CASE part = "unlock"
    <2>1. UNCHANGED vars
      BY <1>2 DEF ChipsNext, InCommand, InUnlock, chipVars
    <2>2. job' = job /\ mem' = mem /\ result' = result /\ Told' = Told
      BY <2>1 DEF vars, host, chip, Told
    <2> QED BY <2>2, CallStutters
  <1> QED BY <1>1, <1>2 DEF ChipsInv

(* Both begin as they should.                                               *)
LEMMA ChipsStart == ChipsInit => ChipsInv /\ Call!Init
  <1>1. ChipsInit => ChipsInv
    BY CommandInit, LocksStart DEF ChipsInit, ChipsInv
  <1>2. ChipsInit => Call!Init
    BY CallStarts, IdleCall DEF ChipsInit
  <1> QED BY <1>1, <1>2

(* Whatever is done to a parallel chip, the chip listens when it should,    *)
(* retries are enough, and an unlock function that returns 0 leaves every   *)
(* block it is for open.                                                    *)
THEOREM ChipsSafe == ChipsSpec => [](ChipListens /\ RetriesSuffice /\ Unlocked)
  <1>1. ChipsInv => ChipListens /\ RetriesSuffice /\ Unlocked
    BY IdleHolds, InvListens, InvSuffice, LocksSay DEF ChipsInv
  <1> QED BY <1>1, ChipsStart, ChipsNextInv, PTL DEF ChipsSpec

(* And each call that is made of it does what a call may do, and no more.   *)
THEOREM ChipsRefine == ChipsSpec => ImplementsCall
  BY ChipsStart, ChipsNextInv, ChipsCall, PTL DEF ChipsSpec, ImplementsCall, Call!Spec
=============================================================================
