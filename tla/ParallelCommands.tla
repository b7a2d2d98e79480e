-------------------------- MODULE ParallelCommands --------------------------
(***************************************************************************)
(* Writing and erasing a parallel, LPC or FWH chip: with JEDEC commands    *)
(* (jedec.c, m29f400bt.c, en29lv640b.c, sst28sf040.c) and with Intel's     *)
(* (82802ab.c, sst49lfxxxc.c). A command is a sequence of bus cycles; the  *)
(* chip then works on its own and ignores what is written to it.           *)
(*                                                                         *)
(* With JEDEC commands it answers every read with a bit 6 that toggles;    *)
(* the host compares two reads until they agree, or until it has had       *)
(* enough. A chip with Intel's shows its status register instead of its    *)
(* contents, until it is told to show them again; the host asks for the    *)
(* status and reads it until the chip is done, for as long as it takes.    *)
(*                                                                         *)
(* Only write_jedec_1(), by the byte, and write_jedec(), by pages, which   *)
(* the chip erases first, look at what they have written. A page is loaded *)
(* byte by byte; the chip starts when the next byte is late, even if the   *)
(* host has only been held up. A byte is one bit wide: 1 is 0xff,          *)
(* programming clears.                                                     *)
(***************************************************************************)
EXTENDS Integers, Sequences, SequencesExt

CONSTANTS
  Size,            (* of the chip                                           *)
  PageSize,        (* page_size, the longest load of a page                 *)
  BlockSize,       (* what an erase command erases                          *)
  Jobs,            (* the calls                                             *)
  Contents,        (* what the chip may hold                                *)
  MaxTries,        (* MAX_REFLASH_TRIES, 16                                 *)
  MaxPolls,        (* the limit of toggle_ready_jedec_common(), 0xfffffff   *)
  MaxFailures      (* bound: program and erase operations that do not work  *)

Addr == 0 .. Size - 1
Val == {0, 1}

SectorErases ==
  {"erase_sector_jedec", "block_erase_m29f400bt", "erase_sector_28sf040",
   "erase_block_82802ab", "erase_sector_49lfxxxc"}
ChipErases == {"erase_chip_block_jedec", "block_erase_chip_m29f400bt", "erase_chip_28sf040"}
Erases == SectorErases \cup ChipErases
BlindWrites == {"write_28sf040", "write_82802ab", "write_m29f400bt", "write_en29lv640b"}
ByteWrites == {"write_jedec_1"} \cup BlindWrites
Functions == Erases \cup ByteWrites \cup {"write_jedec"}

(* Those that skip 0xff, those that ask for the status register, and those  *)
(* that check nothing.                                                      *)
SkipOnes == {"write_jedec_1", "write_28sf040"}
AskStatus == {"write_82802ab", "erase_block_82802ab", "erase_sector_49lfxxxc"}
Unchecked == Erases \cup BlindWrites
Step(f) == IF f = "write_en29lv640b" THEN 2 ELSE 1   (* bytes at a time     *)

Job == [function : Functions, start : Addr, len : 1 .. Size, data : [Addr -> Val]]

(* The engine writes multiples of 256 bytes, and the pages of the chips     *)
(* that take write_jedec() have 128 or 256; it erases whole blocks.         *)
ASSUME JedecAssumption ==
  /\ {Size, PageSize, BlockSize, MaxTries, MaxPolls} \subseteq Nat \ {0}
  /\ Size % PageSize = 0 /\ Size % BlockSize = 0
  /\ Jobs # {} /\ Jobs \subseteq Job
  /\ \A k \in Jobs :
       /\ k.start + k.len <= Size
       /\ k.function = "write_jedec" => k.start % PageSize = 0 /\ k.len % PageSize = 0
       /\ k.function \in SectorErases => k.start % BlockSize = 0 /\ k.len = BlockSize
       /\ k.start % Step(k.function) = 0 /\ k.len % Step(k.function) = 0
  /\ Contents \subseteq [Addr -> Val]
  /\ MaxFailures \in Nat

VARIABLES
  job,
  pos,             (* dst: the byte or page the loop is at                  *)
  cycles,          (* bus cycles that are still to be written               *)
  tmp1, polls,     (* of toggle_ready_jedec_common()                        *)
  tried, failed, result, pc,
  mem, seq,        (* the chip: contents, the cycles of a command so far,   *)
  load, busy, dq6, (* bytes loaded, bytes it is changing, the toggle bit,   *)
  shows,           (* what a read shows: "array" or "status"                *)
  failures,        (* bound                                                 *)
  late,            (* history: the wait reached its limit                   *)
  weak             (* history: what nobody looks at did not work            *)

host == <<job, pos, cycles, tmp1, polls, tried, failed, result, pc>>
chip == <<mem, seq, load, busy, dq6, shows>>
vars == <<host, chip, failures, late, weak>>

Idle == << >>
End == job.start + job.len
Cells == job.start .. End - 1

(* The engine has erased what a write would have to set bits in.            *)
Prepared == job.function \notin Erases => \A a \in Cells : job.data[a] = 1 => mem[a] = 1

Init ==
  /\ job \in Jobs
  /\ pos = job.start /\ cycles = << >> /\ tmp1 = 0 /\ polls = 0
  /\ tried = 0 /\ failed = FALSE /\ result = "none" /\ pc = "loop"
  /\ mem \in Contents /\ Prepared /\ seq = << >> /\ load = {} /\ busy = Idle /\ dq6 \in Val
  /\ shows = "array"
  /\ failures = 0 /\ late = FALSE /\ weak = FALSE

-----------------------------------------------------------------------------
(* The chip *)

Cycle(op, a) == [op |-> op, addr |-> a]
Unlock(op) == <<Cycle("AA", 0), Cycle("55", 0), Cycle(op, 0)>>
Codes(s) == [i \in DOMAIN s |-> s[i].op]

EraseCodes(op) == <<"AA", "55", "80", "AA", "55", op>>

(* What the chip of the call understands.                                   *)
Programs ==
  CASE job.function = "write_82802ab" -> {<<"40", "data">>}
    [] job.function = "write_28sf040" -> {<<"10", "data">>}
    [] OTHER -> {<<"AA", "55", "A0", "data">>}
SectorCodes ==
  CASE job.function = "erase_block_82802ab" -> {<<"20", "D0">>}
    [] job.function = "erase_sector_49lfxxxc" -> {<<"30", "D0">>}
    [] job.function = "erase_sector_28sf040" -> {<<"20", "D0">>}
    [] OTHER -> {EraseCodes("30")}
ChipCodes == {EraseCodes("10"), <<"30", "30">>}
Commands == Programs \cup SectorCodes \cup ChipCodes
Intel == job.function \in AskStatus

BlockOf(size, a) == (a \div size) * size .. (a \div size + 1) * size - 1
Erased(cells) == [a \in cells |-> 1]

(* A chip that loads pages erases what it writes, but only what is loaded   *)
(* is programmed.                                                           *)
PageImage ==
  [a \in BlockOf(PageSize, CHOOSE b \in load : TRUE) |-> IF a \in load THEN job.data[a] ELSE 1]

(* What a complete command starts; a word is programmed as a whole.         *)
Starts(codes, c) ==
  CASE codes \in Programs ->
         [a \in BlockOf(Step(job.function), c.addr) |-> IF job.data[a] = 0 THEN 0 ELSE mem[a]]
    [] codes \in SectorCodes -> Erased(BlockOf(BlockSize, c.addr))
    [] codes \in ChipCodes -> Erased(Addr)

Paged == job.function = "write_jedec"

(* A chip with Intel's commands hears that it is asked for its status while *)
(* it is busy, but not that it shall show its contents again.               *)
WriteCycle(c) ==
  LET s == Append(seq, c) IN
  \/ /\ busy # Idle
     /\ shows' = IF Intel /\ c.op = "70" THEN "status" ELSE shows
     /\ UNCHANGED <<seq, load, busy>>
  \/ /\ busy = Idle /\ load # {}
     /\ load' = load \cup {c.addr}
     /\ UNCHANGED <<seq, busy, shows>>
  \/ /\ busy = Idle /\ load = {}
     /\ seq' = IF \E m \in Commands : IsStrictPrefix(Codes(s), m) THEN s ELSE << >>
     /\ IF Codes(s) \notin Commands THEN UNCHANGED <<load, busy>>
        ELSE IF Paged THEN load' = {c.addr} /\ UNCHANGED busy
        ELSE busy' = Starts(Codes(s), c) /\ UNCHANGED load
     /\ shows' = CASE Intel /\ (c.op = "70" \/ Codes(s) \in Commands) -> "status"
                   [] OTHER -> shows

(* A byte of a page that is 0xff is not written.                            *)
Skipped(c) == Paged /\ c.op = "data" /\ job.data[c.addr] = 1

(* The next byte is late. That loads of the host are cut short counts as a  *)
(* failure.                                                                 *)
StartLoad ==
  /\ load # {} /\ busy = Idle
  /\ busy' = PageImage /\ load' = {}
  /\ IF \A i \in DOMAIN cycles : Skipped(cycles[i]) THEN UNCHANGED failures
     ELSE failures < MaxFailures /\ failures' = failures + 1
  /\ UNCHANGED <<host, mem, seq, dq6, shows, late, weak>>

(* What it will hold when it is done.                                       *)
Outcome == [a \in Addr |-> IF a \in DOMAIN busy THEN busy[a] ELSE mem[a]]

Finish ==
  /\ busy # Idle
  /\ mem' = Outcome
  /\ busy' = Idle
  /\ UNCHANGED <<host, seq, load, dq6, shows, failures, late, weak>>

(* A byte is not programmed, a block not erased.                            *)
Fail ==
  /\ busy # Idle /\ failures < MaxFailures
  /\ busy' = Idle
  /\ failures' = failures + 1
  /\ weak' = (weak \/ job.function \in Unchecked)
  /\ UNCHANGED <<host, mem, seq, load, dq6, shows, late>>

ChipStep == StartLoad \/ Finish \/ Fail

Working == busy # Idle \/ load # {}

(* Reading toggles bit 6 of a chip at work; of another one it shows the     *)
(* contents, any value for the host, and ends a command without its data.   *)
ReadBit6(v) ==
  /\ IF Working THEN v = dq6 /\ dq6' = 1 - dq6 ELSE v \in Val /\ UNCHANGED dq6
  /\ seq' = << >>

-----------------------------------------------------------------------------
(* The host *)

AtLoop(functions) == pc = "loop" /\ job.function \in functions
Issue(s) == cycles' = s /\ pc' = "send"
Return(r) == result' = r /\ pc' = "returned"
Unseen == UNCHANGED <<mem, load, busy, shows, failures, weak>>

(* The cycles of an erase function, and of a write of one byte or word;     *)
(* those with Intel's commands clear the status register first and ask for  *)
(* it last, in wait_82802ab().                                              *)
SectorCycles ==
  CASE job.function \in {"erase_sector_jedec", "block_erase_m29f400bt"} ->
         Unlock("80") \o <<Cycle("AA", 0), Cycle("55", 0), Cycle("30", job.start)>>
    [] job.function = "erase_sector_28sf040" -> <<Cycle("20", 0), Cycle("D0", job.start)>>
    [] job.function = "erase_block_82802ab" ->
         <<Cycle("50", job.start), Cycle("20", job.start), Cycle("D0", job.start), Cycle("70", 0)>>
    [] job.function = "erase_sector_49lfxxxc" ->
         <<Cycle("30", 0), Cycle("D0", job.start), Cycle("70", 0)>>
ChipCycles ==
  IF job.function = "erase_chip_28sf040" THEN <<Cycle("30", 0), Cycle("30", 0)>>
  ELSE Unlock("80") \o <<Cycle("AA", 0), Cycle("55", 0), Cycle("10", 0)>>
ByteCycles ==
  CASE job.function = "write_82802ab" -> <<Cycle("40", pos), Cycle("data", pos), Cycle("70", 0)>>
    [] job.function = "write_28sf040" -> <<Cycle("10", pos), Cycle("data", pos)>>
    [] OTHER -> Append(Unlock("A0"), Cycle("data", pos))
PageCycles == Unlock("A0") \o [i \in 1 .. PageSize |-> Cycle("data", pos + i - 1)]

EraseBlock ==
  /\ AtLoop(SectorErases)
  /\ Issue(SectorCycles)
  /\ UNCHANGED <<job, pos, tmp1, polls, tried, failed, result, chip, failures, late, weak>>

EraseChip ==
  /\ AtLoop(ChipErases)
  /\ IF job.start # 0 \/ job.len # Size
     THEN Return("error") /\ UNCHANGED cycles
     ELSE Issue(ChipCycles) /\ UNCHANGED result
  /\ UNCHANGED <<job, pos, tmp1, polls, tried, failed, chip, failures, late, weak>>

(* If the data is 0xff, it is not programmed.                               *)
SkipByte ==
  /\ AtLoop(SkipOnes) /\ pos < End /\ job.data[pos] = 1
  /\ pos' = pos + 1
  /\ UNCHANGED <<job, cycles, tmp1, polls, tried, failed, result, pc, chip, failures, late, weak>>

WriteByte ==
  /\ AtLoop(ByteWrites) /\ pos < End
  /\ job.function \in SkipOnes => job.data[pos] = 0
  /\ Issue(ByteCycles)
  /\ UNCHANGED <<job, pos, tmp1, polls, tried, failed, result, chip, failures, late, weak>>

WritePage ==
  /\ AtLoop({"write_jedec"}) /\ pos < End
  /\ Issue(PageCycles)
  /\ UNCHANGED <<job, pos, tmp1, polls, tried, failed, result, chip, failures, late, weak>>

Done ==
  /\ AtLoop(ByteWrites \cup {"write_jedec"}) /\ pos >= End
  /\ Return(IF failed THEN "error" ELSE "0")
  /\ UNCHANGED <<job, pos, cycles, tmp1, polls, tried, failed, chip, failures, late, weak>>

(* chip_writeb()                                                            *)
Send ==
  /\ pc = "send" /\ cycles # << >>
  /\ IF Skipped(cycles[1]) THEN UNCHANGED <<seq, load, busy, shows>> ELSE WriteCycle(cycles[1])
  /\ cycles' = Tail(cycles)
  /\ UNCHANGED <<job, pos, tmp1, polls, tried, failed, result, pc, mem, dq6, failures, late, weak>>

ToggleFirst ==
  /\ pc = "send" /\ cycles = << >> /\ ~Intel
  /\ \E v \in Val : ReadBit6(v) /\ tmp1' = v
  /\ polls' = 0 /\ pc' = "toggle"
  /\ UNCHANGED <<job, pos, cycles, tried, failed, result, late>> /\ Unseen

Toggle ==
  /\ pc = "toggle" /\ polls < MaxPolls
  /\ \E v \in Val :
       /\ ReadBit6(v) /\ tmp1' = v
       /\ pc' = IF v = tmp1 THEN "check" ELSE "toggle"
  /\ polls' = polls + 1
  /\ UNCHANGED <<job, pos, cycles, tried, failed, result, late>> /\ Unseen

(* So many reads take longer than the wait for the next byte of a page.     *)
ToggleLimit ==
  /\ pc = "toggle" /\ polls = MaxPolls /\ load = {}
  /\ pc' = "check"
  /\ late' = (late \/ busy # Idle)
  /\ UNCHANGED <<job, pos, cycles, tmp1, polls, tried, failed, result, seq, dq6>> /\ Unseen

(* wait_82802ab(): there is no limit.                                       *)
Ask ==
  /\ pc = "send" /\ cycles = << >> /\ Intel
  /\ pc' = IF shows = "array" \/ busy = Idle THEN "reset" ELSE "send"
  /\ UNCHANGED <<job, pos, cycles, tmp1, polls, tried, failed, result, chip, failures, late, weak>>

(* Mutant: the chip is left as it is.                                       *)
ResetNothing ==
  /\ pc = "reset" /\ pc' = "check"
  /\ UNCHANGED <<job, pos, cycles, tmp1, polls, tried, failed, result, chip, failures, late, weak>>

Reset ==
  /\ pc = "reset"
  /\ shows' = IF busy = Idle THEN "array" ELSE shows
  /\ seq' = << >> /\ pc' = "check"
  /\ UNCHANGED <<job, pos, cycles, tmp1, polls, tried, failed, result>>
  /\ UNCHANGED <<mem, load, busy, dq6, failures, late, weak>>

(* The bytes of a busy chip do not compare: bit 7 is inverted.              *)
Verifies(cells) == busy = Idle /\ \A a \in cells : mem[a] = job.data[a]

Retry == tried' = tried + 1 /\ pc' = "loop" /\ UNCHANGED <<pos, failed, result>>

(* The erase functions do not check anything.                               *)
EraseDone ==
  /\ pc = "check" /\ job.function \in Erases
  /\ Return("0")
  /\ UNCHANGED <<job, pos, cycles, tmp1, polls, tried, failed, chip, failures, late, weak>>

(* Mutant: a byte that is not right is left at that.                        *)
CheckByteOnce ==
  /\ pc = "check" /\ job.function = "write_jedec_1"
  /\ pos' = pos + 1 /\ failed' = (failed \/ ~Verifies({pos}))
  /\ pc' = "loop" /\ UNCHANGED <<tried, result>>
  /\ UNCHANGED <<job, cycles, tmp1, polls, chip, failures, late, weak>>

(* Mutant: the failure of one byte is forgotten with the next.              *)
CheckByteForgets ==
  /\ pc = "check" /\ job.function = "write_jedec_1"
  /\ IF ~Verifies({pos}) /\ tried < MaxTries THEN Retry
     ELSE /\ failed' = (tried >= MaxTries)
          /\ pos' = pos + 1 /\ tried' = 0 /\ pc' = "loop"
          /\ UNCHANGED result
  /\ UNCHANGED <<job, cycles, tmp1, polls, chip, failures, late, weak>>

(* The last retry counts as failed, whatever came of it.                    *)
CheckByte ==
  /\ pc = "check" /\ job.function = "write_jedec_1"
  /\ IF ~Verifies({pos}) /\ tried < MaxTries THEN Retry
     ELSE /\ failed' = (failed \/ tried >= MaxTries)
          /\ pos' = pos + 1 /\ tried' = 0 /\ pc' = "loop"
          /\ UNCHANGED result
  /\ UNCHANGED <<job, cycles, tmp1, polls, chip, failures, late, weak>>

(* The others go on with the next byte or word.                             *)
CheckNothing ==
  /\ pc = "check" /\ job.function \in BlindWrites
  /\ pos' = pos + Step(job.function) /\ pc' = "loop"
  /\ UNCHANGED <<job, cycles, tmp1, polls, tried, failed, result, chip, failures, late, weak>>

CheckPage ==
  /\ pc = "check" /\ job.function = "write_jedec"
  /\ IF Verifies(BlockOf(PageSize, pos))
     THEN pos' = pos + PageSize /\ tried' = 0 /\ pc' = "loop" /\ UNCHANGED <<failed, result>>
     ELSE IF tried < MaxTries THEN Retry
     ELSE Return("error") /\ UNCHANGED <<pos, tried, failed>>
  /\ UNCHANGED <<job, cycles, tmp1, polls, chip, failures, late, weak>>

Host ==
  \/ EraseBlock \/ EraseChip \/ SkipByte \/ WriteByte \/ WritePage \/ Done
  \/ Send \/ ToggleFirst \/ Toggle \/ ToggleLimit \/ Ask \/ Reset
  \/ EraseDone \/ CheckByte \/ CheckNothing \/ CheckPage

Next == Host \/ ChipStep

Spec == Init /\ [][Next]_vars

-----------------------------------------------------------------------------
(* Properties *)

(* Two reads agree only once the chip is done, whenever it finishes between *)
(* them, and a chip that has shown its status is made to show its contents; *)
(* so that the check, the next command and the next call find a chip that   *)
(* listens and can be read, unless the wait has reached its limit.          *)
ChipListens ==
  pc \in {"check", "loop", "returned"} /\ ~late => ~Working /\ shows = "array"

(* A write that is checked succeeds if fewer operations fail than there are *)
(* retries, in whatever bytes or pages.                                     *)
RetriesSuffice ==
  pc = "returned" /\ failures < MaxTries /\ ~late /\ job.function \notin Unchecked => result = "0"

(* What the caller of the function may expect: ChipCall. Only a function    *)
(* that checks nothing can hide a failure.                                  *)
Call == INSTANCE ChipCall WITH
  fn <- CASE job.function \in Erases -> "erase"
          [] Paged -> "rewrite"
          [] OTHER -> "write",
  range <- Cells, data <- job.data,
  told <- job.function \notin Unchecked \/ (~late /\ ~weak)
ImplementsCall == Call!Spec
=============================================================================
