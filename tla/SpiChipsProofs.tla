--------------------------- MODULE SpiChipsProofs ---------------------------
(***************************************************************************)
(* What SpiChips promises, for every chip, call, controller and register   *)
(* as assumed in its parts, however long the chip takes and whatever       *)
(* fails.                                                                  *)
(*                                                                         *)
(* Spi25: the chip takes every command it gets, a read returns what is     *)
(* there, the next call finds the chip ready, and the call does what the   *)
(* write engine is promised (ChipCall).                                    *)
(*                                                                         *)
(* StatusRegister: types, that 0 means unprotected, that the register      *)
(* loses bits of the masks only, and that a chip which can be unprotected  *)
(* is.                                                                     *)
(***************************************************************************)
EXTENDS SpiChips, TLAPS

-----------------------------------------------------------------------------
(* Spi25 *)

(* What a call does.                                                        *)
Reads == job.function = "spi_chip_read"
Writes == job.function \in {"spi_chip_write_256", "spi_chip_write_1", "spi_aai_write"}
Erases == job.function \in {"spi_block_erase", "spi_block_erase_50", "spi_chip_erase"}
AaiCall == job.function = "spi_aai_write" /\ pgm.aai

(* No failure has gone unseen.                                              *)
Told == ~misled /\ ~unchecked

CallTypes ==
  /\ job \in Jobs /\ pgm \in Programmers
  /\ pos \in job.start .. End
  /\ stage \in {"start", "cont", "end"}
  /\ buf \in [Addr -> Val \cup {None}]
  /\ ret \in {"none", "0", "error"} /\ at \in {"loop", "send", "poll", "returned"}
  /\ mem \in [Addr -> Val] /\ welatch \in BOOLEAN
  /\ lost \in 0 .. MaxLost /\ misled \in BOOLEAN /\ unchecked \in BOOLEAN

(* The commands on their way end in one that is not a write enable.         *)
Main == cmds[Len(cmds)]
NeedsEnable(c) == c.op \in {"PP", "SE", "CE", "AAI"}
Command == [op : {"READ", "PP", "AAI", "AAI_CONT", "WRDI", "SE", "BE_50", "CE"},
            addr : Nat, n : Nat]

(* It is one for the bytes up to pos, or for the block or chip of the call, *)
(* and what is programmed is in one page.                                   *)
Up(c) == c.addr >= job.start /\ c.addr + c.n = pos /\ c.n >= 1
InOnePage(a, n) == a + n <= (a \div PageSize + 1) * PageSize
Legal(c) ==
  \/ c.op = "READ" /\ Reads /\ Up(c)
  \/ c.op = "PP" /\ Writes /\ stage = "start" /\ Up(c) /\ InOnePage(c.addr, c.n)
  \/ c.op \in {"AAI", "AAI_CONT"} /\ AaiCall /\ stage = "cont" /\ Up(c) /\ c.n = 2 /\ c.addr % 2 = 0
  \/ c.op = "WRDI" /\ AaiCall /\ stage = "end" /\ pos = End
  \/ c.op = "SE" /\ job.function = "spi_block_erase" /\ c.addr = job.start /\ pos = End
  \/ c.op = "BE_50" /\ job.function = "spi_block_erase_50" /\ c.addr = job.start /\ pos = End
  \/ /\ c.op = "CE" /\ job.function = "spi_chip_erase"
     /\ c.addr = job.start /\ pos = End /\ job.start = 0 /\ job.len = Size

OnTheWay ==
  at = "send" =>
    /\ cmds = <<Main>> \/ (cmds = <<Wren, Main>> /\ NeedsEnable(Main))
    /\ Main \in Command /\ Legal(Main)

(* Where an AAI write is in its call, and any other.                        *)
StageOK ==
  /\ stage = "start" /\ AaiCall => pos = job.start \/ (pos = job.start + 1 /\ job.start % 2 = 1)
  /\ stage # "start" => AaiCall /\ pos % 2 = 0
  /\ stage = "end" => pos = End
  /\ Erases => pos \in {job.start, End}

(* How far the call is when it waits or returns.                            *)
Walk ==
  /\ StageOK
  /\ ret # "none" <=> at = "returned"
  /\ ret = "0" => pos = End /\ stage # "cont"
  /\ at = "poll" => ~Reads /\ stage # "end" /\ pos > job.start

(* What the chip is changing is the call's to change; an AAI address that   *)
(* the chip has lost commands of is still one of the call's.                *)
Sending(op) == at = "send" /\ Main.op = op

Confined ==
  /\ DOMAIN wip \subseteq Cells /\ \A a \in DOMAIN wip : wip[a] \in Val
  /\ Reads => wip = Idle
  /\ aai # None =>
       /\ AaiCall /\ stage # "start" /\ aai \in Nat /\ aai % 2 = 0
       /\ IF Sending("AAI_CONT") THEN job.start <= aai /\ aai <= pos - 2
          ELSE (job.start <= aai /\ aai <= pos) \/ pos = Size

(* Unless a failure has gone unseen, the chip is ready for the next command *)
(* and its latch and AAI address are where the call takes them to be.       *)
ChipReady ==
  Told =>
    /\ at \in {"loop", "send"} \/ ret = "0" => wip = Idle
    /\ at = "send" =>
         /\ aai # None <=> Main.op \in {"AAI_CONT", "WRDI"}
         /\ Main.op = "AAI_CONT" => aai = Main.addr
         /\ Len(cmds) = 1 /\ NeedsEnable(Main) => welatch
    /\ at \in {"loop", "poll"} \/ ret = "0" => aai = IF stage = "cont" THEN pos % Size ELSE None
    /\ /\ at = "loop" \/ ret = "0" \/ (at = "poll" /\ wip = Idle)
       /\ pos > job.start /\ stage # "cont"
       /\ job.function \notin {"spi_chip_read", "spi_block_erase_50"}
       => ~welatch

(* The bytes that were read, or are or will soon be as they should.         *)
Reached == IF at = "send" /\ Main.op # "WRDI" THEN Main.addr ELSE pos
NewValue(a) == IF ~Writes THEN 1 ELSE IF job.data[a] = 0 THEN 0 ELSE mem[a]
Soon(a) == IF a \in DOMAIN wip THEN wip[a] ELSE mem[a]
Wanted(a, v) == IF Writes THEN job.data[a] = 0 => v = 0 ELSE v = 1
Behind == { a \in Addr : job.start <= a /\ a < Reached }

DoneSoFar ==
  /\ Told => \A a \in DOMAIN wip : wip[a] = NewValue(a)
  /\ Told /\ ret # "error" /\ ~Reads => \A a \in Behind : Wanted(a, Soon(a))
  /\ Reads /\ ret # "error" => \A a \in Behind : buf[a] = mem[a]

CallInv == CallTypes /\ OnTheWay /\ Walk /\ Confined /\ ChipReady /\ DoneSoFar

-----------------------------------------------------------------------------
(* Division with a remainder.                                               *)
LEMMA DivMod ==
  ASSUME NEW a \in Nat, NEW p \in Nat \ {0}
  PROVE  a = p * (a \div p) + (a % p) /\ a % p \in 0 .. p - 1 /\ a \div p \in Nat
  OBVIOUS

(* Multiples of p are p apart.                                              *)
LEMMA MulLess ==
  ASSUME NEW p \in Nat \ {0}, NEW q \in Nat, NEW r \in Nat, q < r
  PROVE  p * q + p <= p * r
  <1>1. PICK d \in Nat : r = q + 1 + d
    <2>1. r - q - 1 \in Nat /\ r = q + 1 + (r - q - 1) OBVIOUS
    <2> QED BY <2>1
  <1>2. p * r = p * q + p + p * d
    BY <1>1
  <1>3. p * d \in Nat
    OBVIOUS
  <1> QED BY <1>2, <1>3

(* What lies within p above a multiple of p has it for its quotient.        *)
LEMMA Quotient ==
  ASSUME NEW a \in Nat, NEW p \in Nat \ {0}, NEW q \in Nat, p * q <= a, a < p * q + p
  PROVE  a \div p = q /\ a % p = a - p * q
  <1>1. a = p * (a \div p) + (a % p) /\ a % p \in 0 .. p - 1 /\ a \div p \in Nat
    BY DivMod
  <1>2. DEFINE d == a \div p
  <1>3. d \in Nat /\ p * d <= a /\ a < p * d + p BY <1>1
  <1>4. CASE d < q
    <2>1. p * d + p <= p * q BY <1>3, <1>4, MulLess
    <2> HIDE DEF d
    <2>2. p * d \in Nat /\ p * q \in Nat BY <1>3
    <2> QED BY <1>3, <2>1, <2>2
  <1>5. CASE q < d
    <2>1. p * q + p <= p * d BY <1>3, <1>5, MulLess
    <2> HIDE DEF d
    <2>2. p * d \in Nat /\ p * q \in Nat BY <1>3
    <2> QED BY <1>3, <2>1, <2>2
  <1>6. d = q
    <2> HIDE DEF d
    <2> QED BY <1>3, <1>4, <1>5
  <1> QED BY <1>1, <1>6

(* What is assumed of a call.                                               *)
LEMMA JobFacts ==
  ASSUME job \in Jobs
  PROVE  /\ job.function \in Functions /\ job.start \in Nat /\ job.len \in Nat \ {0}
         /\ job.data \in [Addr -> Val]
         /\ End \in Nat /\ job.start < End /\ End <= Size
         /\ job.function = "spi_aai_write" =>
              job.len >= 2 /\ End % 2 = 0 /\ PageSize % 2 = 0
         /\ job.function \in {"spi_block_erase", "spi_block_erase_50"} =>
              job.len = BlockSize /\ job.start % BlockSize = 0
  BY Spi25Assumption DEF Spi25Assumption, Job, Addr, End

(* What is assumed of the sizes.                                            *)
LEMMA Sizes ==
  /\ Size \in Nat \ {0} /\ PageSize \in Nat \ {0} /\ BlockSize \in Nat \ {0}
  /\ MaxLost \in Nat
  BY Spi25Assumption DEF Spi25Assumption

(* What is assumed of a controller.                                         *)
LEMMA PgmFacts ==
  ASSUME pgm \in Programmers
  PROVE  pgm.max_data_read \in Nat /\ pgm.max_data_write \in Nat /\ pgm.aai \in BOOLEAN
  BY Spi25Assumption DEF Spi25Assumption, Programmer

(* A chunk that ends with its page does not wrap around.                    *)
LEMMA InPageStays ==
  ASSUME NEW a \in Nat, NEW n \in Nat, InOnePage(a, n), NEW k \in 0 .. n - 1
  PROVE  InPage(a, k) = a + k
  <1> DEFINE q == a \div PageSize
  <1>1. q \in Nat /\ PageSize * q <= a
    <2>1. a = PageSize * q + (a % PageSize) /\ a % PageSize \in 0 .. PageSize - 1 /\ q \in Nat
      BY Sizes, DivMod
    <2> HIDE DEF q
    <2>2. PageSize * q \in Nat
      BY <2>1, Sizes
    <2> QED BY <2>1, <2>2
  <1> HIDE DEF q
  <1>2. (q + 1) * PageSize = PageSize * q + PageSize /\ q * PageSize = PageSize * q
    BY Sizes, <1>1
  <1>3. a + n <= PageSize * q + PageSize
    BY <1>2 DEF InOnePage, q
  <1>4. PageSize * q \in Nat
    BY Sizes, <1>1
  <1>5. a + k \in Nat /\ PageSize * q <= a + k /\ a + k < PageSize * q + PageSize
    BY Sizes, <1>1, <1>3, <1>4
  <1>6. (a + k) % PageSize = (a + k) - PageSize * q
    <2> DEFINE z == a + k
    <2>1. z \in Nat /\ PageSize * q <= z /\ z < PageSize * q + PageSize
      BY <1>5
    <2> HIDE DEF z
    <2>2. PageSize \in Nat \ {0} /\ q \in Nat
      BY Sizes, <1>1
    <2>3. z \div PageSize = q /\ z % PageSize = z - PageSize * q
      BY <2>1, <2>2, Quotient, Zenon
    <2> QED BY <2>3 DEF z
  <1>7. InPage(a, k) = PageSize * q + ((a + k) - PageSize * q)
    BY <1>2, <1>6 DEF InPage, q
  <1> QED BY <1>4, <1>7

(* Two bytes from an even address are in one page, if pages are even.       *)
LEMMA EvenInPage ==
  ASSUME NEW a \in Nat, a % 2 = 0, PageSize % 2 = 0
  PROVE  InOnePage(a, 2)
  <1> DEFINE q == a \div PageSize
  <1>1. q \in Nat /\ a < PageSize * q + PageSize
    BY Sizes, DivMod
  <1> HIDE DEF q
  <1>2. (q + 1) * PageSize = PageSize * q + PageSize
    BY Sizes, <1>1
  <1>3. PICK h \in Nat : PageSize = 2 * h
    <2>1. PageSize = 2 * (PageSize \div 2) /\ PageSize \div 2 \in Nat
      BY Sizes
    <2> QED BY <2>1
  <1>4. PICK b \in Nat : a = 2 * b
    <2>1. a = 2 * (a \div 2) /\ a \div 2 \in Nat
      OBVIOUS
    <2> QED BY <2>1
  <1>5. PageSize * q + PageSize = 2 * (h * q + h) /\ h * q \in Nat
    BY <1>1, <1>3
  <1>6. a + 2 <= PageSize * q + PageSize
    BY <1>1, <1>4, <1>5
  <1> QED BY <1>2, <1>6 DEF InOnePage, q

(* The least of three.                                                      *)
LEMMA MinOf3 ==
  ASSUME NEW a \in Int, NEW b \in Int, NEW c \in Int
  PROVE  /\ Min({a, b, c}) \in {a, b, c}
         /\ Min({a, b, c}) <= a /\ Min({a, b, c}) <= b /\ Min({a, b, c}) <= c
  <1>1. \E x \in {a, b, c} : \A y \in {a, b, c} : x <= y
    <2>1. CASE a <= b /\ a <= c BY <2>1
    <2>2. CASE b <= a /\ b <= c BY <2>2
    <2>3. CASE c <= b /\ c <= a BY <2>3
    <2> QED BY <2>1, <2>2, <2>3
  <1>2. Min({a, b, c}) \in {a, b, c} /\ \A y \in {a, b, c} : Min({a, b, c}) <= y
    BY <1>1 DEF Min
  <1> QED BY <1>2

(* A chunk has bytes, ends with the call at the latest, and is in a page.   *)
LEMMA ChunkFacts ==
  ASSUME pos \in Nat, End \in Nat, pos < End, NEW chunksize \in Nat \ {0}
  PROVE  /\ Chunk(chunksize) \in Nat \ {0} /\ pos + Chunk(chunksize) <= End
         /\ InOnePage(pos, Chunk(chunksize))
  <1> DEFINE q == pos \div PageSize
             e == (q + 1) * PageSize
  <1>1. q \in Nat /\ pos < PageSize * q + PageSize
    BY Sizes, DivMod
  <1>2. e = PageSize * q + PageSize /\ e \in Nat
    <2> HIDE DEF q
    <2> QED BY Sizes, <1>1
  <1>3. pos < e
    BY <1>1, <1>2
  <1> HIDE DEF e
  <1>4. Chunk(chunksize) = Min({chunksize, End - pos, e - pos})
    BY DEF Chunk, e
  <1>5. /\ Min({chunksize, End - pos, e - pos}) \in {chunksize, End - pos, e - pos}
        /\ Min({chunksize, End - pos, e - pos}) <= End - pos
        /\ Min({chunksize, End - pos, e - pos}) <= e - pos
    <2>1. chunksize \in Int /\ End - pos \in Int /\ e - pos \in Int
      BY <1>2
    <2> QED BY <2>1, MinOf3
  <1>6. /\ Chunk(chunksize) \in Nat \ {0}
        /\ pos + Chunk(chunksize) <= End /\ pos + Chunk(chunksize) <= e
    BY <1>2, <1>3, <1>4, <1>5
  <1> QED BY <1>6 DEF InOnePage, e

(* The block at a multiple of its size.                                     *)
LEMMA BlockIs ==
  ASSUME NEW a \in Nat, a % BlockSize = 0
  PROVE  Block(a) = a .. a + BlockSize - 1
  <1> DEFINE q == a \div BlockSize
  <1>1. q \in Nat /\ a = BlockSize * q
    BY Sizes, DivMod
  <1> HIDE DEF q
  <1>2. q * BlockSize = a /\ (q + 1) * BlockSize = a + BlockSize
    BY Sizes, <1>1
  <1>3. Block(a) = q * BlockSize .. (q + 1) * BlockSize - 1
    BY DEF Block, q
  <1> DEFINE lo == q * BlockSize
             hi == (q + 1) * BlockSize
  <1> HIDE DEF lo, hi
  <1>4. Block(a) = lo .. hi - 1 /\ lo = a /\ hi = a + BlockSize
    BY <1>2, <1>3 DEF lo, hi
  <1> QED BY <1>4, Sizes

-----------------------------------------------------------------------------
(* A call starts within the invariant.                                      *)
LEMMA CallInit == SpiInit => CallInv
  <1> SUFFICES ASSUME SpiInit PROVE CallInv
    OBVIOUS
  <1>j. job \in Jobs /\ pgm \in Programmers /\ pos = job.start /\ stage = "start"
    BY DEF SpiInit
  <1>f. /\ job.start \in Nat /\ End \in Nat /\ job.start < End
        /\ job.function \in Functions
    BY <1>j, JobFacts
  <1>1. CallTypes
    <2>1. mem \in [Addr -> Val]
      BY Spi25Assumption DEF Spi25Assumption, SpiInit
    <2>2. buf \in [Addr -> Val \cup {None}]
      BY DEF SpiInit
    <2>3. pos \in job.start .. End
      BY <1>j, <1>f
    <2>4. lost \in 0 .. MaxLost
      BY Sizes DEF SpiInit
    <2> QED BY <1>j, <2>1, <2>2, <2>3, <2>4 DEF SpiInit, CallTypes
  <1>2. OnTheWay /\ Walk
    BY <1>j, <1>f DEF SpiInit, OnTheWay, Walk, StageOK
  <1>3. Confined /\ ChipReady
    <2>1. DOMAIN wip = {}
      BY DEF SpiInit, Idle
    <2> QED BY <1>j, <1>f, <2>1 DEF SpiInit, Confined, ChipReady
  <1>4. DoneSoFar
    <2>1. Behind = {}
      BY <1>j, <1>f DEF SpiInit, Behind, Reached, Addr
    <2>2. DOMAIN wip = {}
      BY DEF SpiInit, Idle
    <2> QED BY <2>1, <2>2 DEF DoneSoFar
  <1> QED BY <1>1, <1>2, <1>3, <1>4 DEF CallInv

(* What the loops do: the next command is on its way.                       *)
Begins(c) ==
  /\ at = "loop" /\ at' = "send" /\ ret' = ret /\ stage # "end"
  /\ c \in Command
  /\ cmds' = IF NeedsEnable(c) THEN <<Wren, c>> ELSE <<c>>
  /\ Legal(c)' /\ StageOK' /\ stage' \in {"start", "cont", "end"}
  /\ pos' \in job.start .. End
  /\ IF c.op = "WRDI" THEN pos' = pos ELSE c.addr = pos
  /\ (c.op \in {"AAI_CONT", "WRDI"}) <=> (stage = "cont")
  /\ c.op = "AAI_CONT" => pos < End - 1
  /\ UNCHANGED Rest

(* The fields of a command.                                                 *)
LEMMA Commands ==
  ASSUME NEW op \in {"READ", "PP", "AAI", "AAI_CONT", "WRDI", "SE", "BE_50", "CE"},
         NEW a \in Nat, NEW n \in Nat
  PROVE  /\ Cmd(op, a, n) \in Command
         /\ Cmd(op, a, n).op = op /\ Cmd(op, a, n).addr = a /\ Cmd(op, a, n).n = n
  BY DEF Cmd, Command

(* The erase functions send one command for the whole call.                 *)
LEMMA EraseBegins ==
  ASSUME CallInv, SpiBlockErase \/ (SpiChipErase /\ at' # "returned")
  PROVE  \E c : Begins(c)
  <1>1. job \in Jobs /\ pgm \in Programmers /\ pos \in job.start .. End /\ StageOK
    BY DEF CallInv, CallTypes, Walk
  <1>2. /\ job.start \in Nat /\ End \in Nat /\ job.start < End /\ job.function \in Functions
    BY <1>1, JobFacts
  <1>3. at = "loop" /\ at' = "send" /\ ret' = ret /\ pos < End /\ pos' = End /\ stage' = stage
        /\ UNCHANGED Rest /\ Erases
    BY DEF SpiBlockErase, SpiChipErase, AtLoop, Erases, Multicommand, Finish
  <1>4. pos = job.start /\ End' = End /\ UNCHANGED <<job, pgm>>
    BY <1>1, <1>2, <1>3 DEF StageOK, Rest, End
  <1>5. stage = "start" /\ ~AaiCall
    BY <1>1, <1>3 DEF StageOK, Erases, AaiCall, CallInv, CallTypes
  <1>6. StageOK'
    BY <1>3, <1>4, <1>5 DEF StageOK, AaiCall, Erases
  <1>7. CASE SpiBlockErase /\ job.function = "spi_block_erase"
    <2>p. PICK c : c = Cmd("SE", job.start, 0)
      OBVIOUS
    <2>1. c \in Command /\ c.op = "SE" /\ c.addr = job.start
      BY <1>2, <2>p, Commands
    <2>2. cmds' = <<Wren, c>>
      BY <1>7, <2>p DEF SpiBlockErase, Multicommand
    <2>3. Legal(c)'
      BY <1>3, <1>4, <1>7, <2>1 DEF Legal
    <2>4. Begins(c)
      BY <1>2, <1>3, <1>4, <1>5, <1>6, <2>1, <2>2, <2>3 DEF Begins, NeedsEnable
    <2> QED BY <2>4
  <1>8. CASE SpiBlockErase /\ job.function = "spi_block_erase_50"
    <2>p. PICK c : c = Cmd("BE_50", job.start, 0)
      OBVIOUS
    <2>1. c \in Command /\ c.op = "BE_50" /\ c.addr = job.start
      BY <1>2, <2>p, Commands
    <2>2. cmds' = <<c>>
      BY <1>8, <2>p DEF SpiBlockErase, Multicommand
    <2>3. Legal(c)'
      BY <1>3, <1>4, <1>8, <2>1 DEF Legal
    <2>4. Begins(c)
      BY <1>2, <1>3, <1>4, <1>5, <1>6, <2>1, <2>2, <2>3 DEF Begins, NeedsEnable
    <2> QED BY <2>4
  <1>9. CASE SpiChipErase
    <2>p. PICK c : c = Cmd("CE", 0, 0)
      OBVIOUS
    <2>0. job.function = "spi_chip_erase" /\ job.start = 0 /\ job.len = Size /\ cmds' = <<Wren, c>>
      BY <1>3, <1>9, <2>p DEF SpiChipErase, AtLoop, Multicommand, Finish
    <2>1. c \in Command /\ c.op = "CE" /\ c.addr = job.start
      BY <2>0, <2>p, Commands
    <2>3. Legal(c)'
      BY <1>3, <1>4, <2>0, <2>1 DEF Legal
    <2>4. Begins(c)
      BY <1>2, <1>3, <1>4, <1>5, <1>6, <2>0, <2>1, <2>3 DEF Begins, NeedsEnable
    <2> QED BY <2>4
  <1> QED BY <1>7, <1>8, <1>9 DEF SpiBlockErase, AtLoop

(* The chunked loops send the next chunk, read or write.                    *)
LEMMA ChunkBegins ==
  ASSUME CallInv, SpiReadChunked \/ SpiWriteChunked
  PROVE  \E c : Begins(c)
  <1>1. job \in Jobs /\ pgm \in Programmers /\ pos \in job.start .. End /\ StageOK
        /\ stage \in {"start", "cont", "end"}
    BY DEF CallInv, CallTypes, Walk
  <1>2. /\ job.start \in Nat /\ End \in Nat /\ job.start < End /\ End <= Size
        /\ pgm.max_data_read \in Nat /\ pgm.max_data_write \in Nat
    BY <1>1, JobFacts, PgmFacts
  <1>3. at = "loop" /\ at' = "send" /\ ret' = ret /\ pos < End /\ UNCHANGED Rest /\ stage' = stage
        /\ job.function \in {"spi_chip_read", "spi_chip_write_256"}
    BY DEF SpiReadChunked, SpiWriteChunked, AtLoop, Multicommand
  <1>4. ~AaiCall /\ ~Erases /\ stage = "start" /\ UNCHANGED <<job, pgm>> /\ End' = End
    BY <1>1, <1>3 DEF AaiCall, Erases, StageOK, Rest, End
  <1>5. StageOK'
    BY <1>3, <1>4 DEF StageOK, AaiCall, Erases
  <1>n. pos \in Nat
    BY <1>1, <1>2
  <1>6. CASE SpiReadChunked
    <2>n. PICK n : n = Chunk(pgm.max_data_read)
      OBVIOUS
    <2>p. PICK c : c = Cmd("READ", pos, n)
      OBVIOUS
    <2>1. pgm.max_data_read \in Nat \ {0} /\ pos' = pos + n /\ cmds' = <<c>> /\ Reads
      BY <1>2, <1>6, <2>n, <2>p DEF SpiReadChunked, Multicommand, AtLoop, Reads
    <2>2. n \in Nat \ {0} /\ pos + n <= End
      BY <1>2, <1>3, <1>n, <2>1, <2>n, ChunkFacts
    <2>3. c \in Command /\ c.op = "READ" /\ c.addr = pos /\ c.n = n
      BY <1>n, <2>2, <2>p, Commands
    <2>4. pos' \in job.start .. End /\ Up(c)'
      BY <1>1, <1>2, <1>4, <2>1, <2>2, <2>3 DEF Up
    <2>5. Legal(c)'
      BY <1>4, <2>1, <2>3, <2>4 DEF Legal, Reads
    <2>6. Begins(c)
      BY <1>3, <1>4, <1>5, <2>1, <2>3, <2>4, <2>5 DEF Begins, NeedsEnable
    <2> QED BY <2>6
  <1>7. CASE SpiWriteChunked
    <2>n. PICK n : n = Chunk(pgm.max_data_write)
      OBVIOUS
    <2>p. PICK c : c = Cmd("PP", pos, n)
      OBVIOUS
    <2>1. pgm.max_data_write \in Nat \ {0} /\ pos' = pos + n /\ cmds' = <<Wren, c>> /\ Writes
      BY <1>2, <1>7, <2>n, <2>p DEF SpiWriteChunked, Multicommand, AtLoop, Writes
    <2>2. n \in Nat \ {0} /\ pos + n <= End /\ InOnePage(pos, n)
      BY <1>2, <1>3, <1>n, <2>1, <2>n, ChunkFacts
    <2>3. c \in Command /\ c.op = "PP" /\ c.addr = pos /\ c.n = n
      BY <1>n, <2>2, <2>p, Commands
    <2>4. pos' \in job.start .. End /\ Up(c)'
      BY <1>1, <1>2, <1>4, <2>1, <2>2, <2>3 DEF Up
    <2>5. Legal(c)'
      BY <1>3, <1>4, <2>1, <2>2, <2>3, <2>4 DEF Legal, Writes
    <2>6. Begins(c)
      BY <1>3, <1>4, <1>5, <2>1, <2>3, <2>4, <2>5 DEF Begins, NeedsEnable
    <2> QED BY <2>6
  <1> QED BY <1>6, <1>7

(* One byte is in one page.                                                 *)
LEMMA OneInPage ==
  ASSUME NEW a \in Nat
  PROVE  InOnePage(a, 1)
  <1> DEFINE q == a \div PageSize
  <1>1. q \in Nat /\ a < PageSize * q + PageSize
    BY Sizes, DivMod
  <1> HIDE DEF q
  <1>2. (q + 1) * PageSize = PageSize * q + PageSize /\ PageSize * q + PageSize \in Nat
    BY Sizes, <1>1
  <1> QED BY <1>1, <1>2 DEF InOnePage, q

(* spi_chip_write_1(), and the odd first byte of an AAI write.              *)
LEMMA ByteBegins ==
  ASSUME CallInv, SpiChipWrite1 \/ AaiOddStart
  PROVE  \E c : Begins(c)
  <1>1. job \in Jobs /\ pgm \in Programmers /\ pos \in job.start .. End /\ StageOK
        /\ stage \in {"start", "cont", "end"}
    BY DEF CallInv, CallTypes, Walk
  <1>2. /\ job.start \in Nat /\ End \in Nat /\ job.start < End /\ End <= Size
        /\ pgm.aai \in BOOLEAN
        /\ job.function = "spi_aai_write" => job.len >= 2 /\ End % 2 = 0
    BY <1>1, JobFacts, PgmFacts
  <1>n. pos \in Nat
    BY <1>1, <1>2
  <1>p. PICK c : c = Cmd("PP", pos, 1)
    OBVIOUS
  <1>3. at = "loop" /\ at' = "send" /\ ret' = ret /\ UNCHANGED Rest /\ stage' = stage
        /\ cmds' = <<Wren, c>> /\ Writes /\ pos' = pos + 1
    BY <1>p DEF SpiChipWrite1, AaiOddStart, AtAai, AtLoop, Multicommand, ByteProgram, Writes
  <1>4. UNCHANGED <<job, pgm>> /\ End' = End
    BY <1>3 DEF Rest, End
  <1>5. stage = "start" /\ pos < End /\ StageOK'
    <2>1. CASE SpiChipWrite1
      <3>1. ~AaiCall /\ ~Erases /\ pos < End
        BY <2>1, <1>2 DEF SpiChipWrite1, AtLoop, AaiCall, Erases
      <3> QED BY <1>1, <1>3, <1>4, <3>1 DEF StageOK, AaiCall, Erases
    <2>2. CASE AaiOddStart
      <3>1. AaiCall /\ stage = "start" /\ pos % 2 = 1
        BY <2>2 DEF AaiOddStart, AtAai, AtLoop, AaiCall
      <3>2. pos = job.start
        <4>1. CASE pos = job.start + 1 /\ job.start % 2 = 1
          BY <1>2, <3>1, <4>1
        <4> QED BY <1>1, <3>1, <4>1 DEF StageOK
      <3>3. pos < End /\ ~Erases
        BY <1>2, <3>1, <3>2 DEF AaiCall, Erases
      <3> QED BY <1>1, <1>3, <1>4, <3>1, <3>2, <3>3 DEF StageOK, AaiCall, Erases
    <2> QED BY <2>1, <2>2
  <1>6. c \in Command /\ c.op = "PP" /\ c.addr = pos /\ c.n = 1
    BY <1>n, <1>p, Commands
  <1>7. pos' \in job.start .. End /\ Up(c)'
    BY <1>1, <1>2, <1>3, <1>4, <1>5, <1>6 DEF Up
  <1>8. Legal(c)'
    BY <1>3, <1>4, <1>5, <1>6, <1>7, <1>n, OneInPage DEF Legal, Writes
  <1>9. Begins(c)
    BY <1>3, <1>4, <1>5, <1>6, <1>7, <1>8 DEF Begins, NeedsEnable
  <1> QED BY <1>9

(* The steps of an AAI write.                                               *)
LEMMA AaiBegins ==
  ASSUME CallInv, AaiStart \/ AaiCont \/ AaiExit
  PROVE  \E c : Begins(c)
  <1>1. job \in Jobs /\ pgm \in Programmers /\ pos \in job.start .. End /\ StageOK
        /\ stage \in {"start", "cont", "end"}
    BY DEF CallInv, CallTypes, Walk
  <1>3. /\ at = "loop" /\ at' = "send" /\ ret' = ret /\ UNCHANGED Rest /\ AaiCall
        /\ AaiStart => stage = "start" /\ stage' = "cont" /\ pos % 2 = 0 /\ pos' = pos + 2
        /\ AaiCont => stage = "cont" /\ stage' = "cont" /\ pos < End - 1 /\ pos' = pos + 2
        /\ AaiExit => stage = "cont" /\ stage' = "end" /\ pos >= End - 1
    BY DEF AaiStart, AaiCont, AaiExit, AtAai, AtLoop, Multicommand, AaiCall
  <1>2. /\ job.start \in Nat /\ End \in Nat /\ job.start < End /\ End <= Size
        /\ job.start + 2 <= End /\ End % 2 = 0
    BY <1>1, <1>3, JobFacts DEF AaiCall, End
  <1>n. pos \in Nat /\ pos % 2 = 0
    <2>1. pos \in Nat
      BY <1>1, <1>2
    <2>2. pos % 2 = 0
      BY <1>1, <1>3 DEF StageOK
    <2> QED BY <2>1, <2>2
  <1>4. UNCHANGED <<job, pgm>> /\ End' = End /\ AaiCall' /\ ~Erases
    BY <1>3 DEF Rest, End, AaiCall, Erases
  <1>5. CASE AaiStart \/ AaiCont
    <2>1. pos + 2 <= End /\ (pos + 2) % 2 = 0
      <3>1. pos < End
        <4>1. CASE AaiStart
          BY <1>1, <1>2, <1>3, <1>n, <4>1 DEF StageOK
        <4>2. CASE AaiCont
          BY <1>2, <1>3, <1>n, <4>2
        <4> QED BY <1>5, <4>1, <4>2
      <3> QED BY <1>2, <1>n, <3>1
    <2>2. stage' = "cont" /\ pos' = pos + 2 /\ pos' \in job.start .. End /\ StageOK'
      <3>1. stage' = "cont" /\ pos' = pos + 2 /\ pos' \in job.start .. End
        BY <1>1, <1>2, <1>3, <1>5, <2>1
      <3>2. Erases' = Erases
        BY <1>4 DEF Erases
      <3> QED BY <1>4, <2>1, <3>1, <3>2 DEF StageOK
    <2>3. PICK c \in Command : /\ c.op \in {"AAI", "AAI_CONT"} /\ c.addr = pos /\ c.n = 2
                               /\ c.op = "AAI" <=> AaiStart
                               /\ cmds' = IF c.op = "AAI" THEN <<Wren, c>> ELSE <<c>>
      <3>1. CASE AaiStart
        <4>1. cmds' = <<Wren, Cmd("AAI", pos, 2)>>
          BY <3>1 DEF AaiStart, Multicommand
        <4>2. PICK c : c = Cmd("AAI", pos, 2)
          OBVIOUS
        <4>3. c \in Command /\ c.op = "AAI" /\ c.addr = pos /\ c.n = 2
          BY <1>n, <4>2, Commands
        <4> QED BY <3>1, <4>1, <4>2, <4>3
      <3>2. CASE AaiCont
        <4>1. cmds' = <<Cmd("AAI_CONT", pos, 2)>> /\ ~AaiStart
          BY <1>3, <3>2 DEF AaiCont, Multicommand
        <4>2. PICK c : c = Cmd("AAI_CONT", pos, 2)
          OBVIOUS
        <4>3. c \in Command /\ c.op = "AAI_CONT" /\ c.addr = pos /\ c.n = 2
          BY <1>n, <4>2, Commands
        <4> QED BY <4>1, <4>2, <4>3
      <3> QED BY <1>5, <3>1, <3>2
    <2>4. Up(c)'
      BY <1>1, <1>2, <1>4, <1>n, <2>2, <2>3 DEF Up
    <2>5. Legal(c)'
      BY <1>4, <1>n, <2>2, <2>3, <2>4 DEF Legal
    <2>6. Begins(c)
      BY <1>3, <1>5, <2>2, <2>3, <2>5 DEF Begins, NeedsEnable
    <2> QED BY <2>6
  <1>6. CASE AaiExit
    <2>p. PICK c : c = Cmd("WRDI", 0, 0)
      OBVIOUS
    <2>1. pos = End
      BY <1>1, <1>2, <1>3, <1>6, <1>n
    <2>2. Remaining = << >>
      BY <1>n DEF Remaining
    <2>3. pos' = pos
      <3>1. Len(<< >>) \div 2 = 0 OBVIOUS
      <3> QED BY <1>6, <1>n, <2>2, <3>1 DEF AaiExit
    <2>4. cmds' = <<c>>
      <3>1. cmds' = <<c>> \o << >>
        BY <1>6, <2>2, <2>p DEF AaiExit, Multicommand
      <3> QED BY <3>1
    <2>5. StageOK' /\ stage' = "end" /\ pos' \in job.start .. End
      <3>1. Erases' = Erases
        BY <1>4 DEF Erases
      <3> QED BY <1>1, <1>2, <1>3, <1>4, <1>6, <1>n, <2>1, <2>3, <3>1 DEF StageOK
    <2>6. c \in Command /\ c.op = "WRDI"
      BY <2>p, Commands
    <2>7. Legal(c)'
      BY <1>4, <2>1, <2>3, <2>5, <2>6 DEF Legal
    <2>8. Begins(c)
      BY <1>3, <1>6, <2>3, <2>4, <2>5, <2>6, <2>7 DEF Begins, NeedsEnable
    <2> QED BY <2>8
  <1> QED BY <1>5, <1>6

(* Setting out with a command keeps the invariant.                          *)
LEMMA BeginsInv ==
  ASSUME CallInv, NEW c, Begins(c)
  PROVE  CallInv'
  <1>1. /\ at = "loop" /\ at' = "send" /\ ret' = ret /\ c \in Command
        /\ cmds' = IF NeedsEnable(c) THEN <<Wren, c>> ELSE <<c>>
        /\ Legal(c)' /\ StageOK' /\ pos' \in job.start .. End
        /\ stage' \in {"start", "cont", "end"}
    BY DEF Begins
  <1>2. /\ UNCHANGED <<job, pgm, buf, mem, welatch, wip, aai, lost, misled, unchecked>>
        /\ End' = End
    BY DEF Begins, Rest, flashchip, End
  <1>3. Main' = c
    BY <1>1 DEF Main
  <1>4. CallTypes'
    BY <1>1, <1>2 DEF CallInv, CallTypes
  <1>5. OnTheWay'
    BY <1>1, <1>3 DEF OnTheWay
  <1>6. Walk'
    BY <1>1 DEF CallInv, Walk
  <1>r. ret = "none" /\ ret' = "none"
    BY <1>1 DEF CallInv, Walk
  <1>t. Told' = Told /\ Reads' = Reads /\ Writes' = Writes /\ AaiCall' = AaiCall
    BY <1>2 DEF Told, Reads, Writes, AaiCall
  <1>j. job.start \in Nat /\ End \in Nat /\ End <= Size
    BY JobFacts DEF CallInv, CallTypes
  <1>n. pos \in Nat /\ pos \in job.start .. End
    BY <1>j DEF CallInv, CallTypes
  <1>7. Confined'
    <2>1. DOMAIN wip' \subseteq Cells' /\ \A a \in DOMAIN wip' : wip'[a] \in Val
      BY <1>2 DEF CallInv, Confined, Cells
    <2>2. Reads' => wip' = Idle
      BY <1>2, <1>t DEF CallInv, Confined
    <2>3. ASSUME aai' # None
          PROVE  /\ AaiCall' /\ stage' # "start" /\ aai' \in Nat /\ aai' % 2 = 0
                 /\ IF Sending("AAI_CONT")' THEN job'.start <= aai' /\ aai' <= pos' - 2
                    ELSE (job'.start <= aai' /\ aai' <= pos') \/ pos' = Size
      <3>1. /\ AaiCall /\ stage # "start" /\ aai \in Nat /\ aai % 2 = 0 /\ aai' = aai
            /\ (job.start <= aai /\ aai <= pos) \/ pos = Size
        BY <1>1, <1>2, <2>3 DEF CallInv, Confined, Sending
      <3>2. stage = "cont" /\ c.op \in {"AAI_CONT", "WRDI"}
        <4>1. stage # "end"
          BY DEF Begins
        <4>2. stage = "cont" BY <3>1, <4>1 DEF CallInv, CallTypes
        <4> QED BY <4>2 DEF Begins
      <3>3. CASE c.op = "AAI_CONT"
        <4>1. pos < End - 1 /\ c.addr = pos /\ Up(c)' /\ c.n = 2 /\ stage' = "cont"
          BY <1>1, <3>3 DEF Begins, Legal
        <4>2. pos' = pos + 2
          BY <4>1, <1>n DEF Up
        <4> QED BY <1>2, <1>3, <1>j, <1>n, <1>t, <3>1, <3>3, <4>1, <4>2 DEF Sending
      <3>4. CASE c.op = "WRDI"
        <4>1. pos' = pos /\ stage' = "end"
          BY <1>1, <3>4 DEF Begins, Legal
        <4> QED BY <1>2, <1>3, <1>t, <3>1, <3>4, <4>1 DEF Sending
      <3> QED BY <3>2, <3>3, <3>4
    <2> QED BY <2>1, <2>2, <2>3 DEF Confined
  <1>8. ChipReady'
    <2> SUFFICES ASSUME Told PROVE ChipReady'
      BY <1>t DEF ChipReady
    <2>1. wip = Idle /\ aai = IF stage = "cont" THEN pos % Size ELSE None
      BY <1>1 DEF CallInv, ChipReady
    <2>2. c.op \in {"AAI_CONT", "WRDI"} <=> stage = "cont"
      BY DEF Begins
    <2>3. stage = "cont" => pos % Size \in Nat /\ (c.op = "AAI_CONT" => pos % Size = c.addr)
      <3>1. pos % Size \in Nat
        BY <1>n, Sizes, DivMod
      <3>2. ASSUME c.op = "AAI_CONT" PROVE pos % Size = c.addr
        <4>1. c.addr = pos /\ pos < End - 1
          BY <3>2 DEF Begins
        <4>2. pos < Size
          BY <4>1, <1>j, <1>n, Sizes
        <4>3. Size * 0 = 0
          BY Sizes
        <4>4. pos % Size = pos
          BY <1>n, <4>2, Sizes
        <4> QED BY <4>1, <4>4
      <3> QED BY <3>1, <3>2
    <2>4. (aai # None <=> c.op \in {"AAI_CONT", "WRDI"}) /\ (c.op = "AAI_CONT" => aai = c.addr)
      BY <2>1, <2>2, <2>3 DEF None
    <2>5. Len(cmds') = 1 => ~NeedsEnable(c)
      BY <1>1
    <2> QED BY <1>1, <1>2, <1>3, <1>r, <2>1, <2>4, <2>5 DEF ChipReady
  <1>9. DoneSoFar'
    <2>1. Reached' = pos /\ Reached = pos
      <3>1. Reached = pos BY <1>1 DEF Reached
      <3>2. Reached' = pos
        BY <1>1, <1>3 DEF Reached, Begins
      <3> QED BY <3>1, <3>2
    <2>2. Behind' = Behind
      BY <1>2, <2>1 DEF Behind
    <2> QED BY <1>2, <1>r, <1>t, <2>2 DEF CallInv, DoneSoFar, NewValue, Soon, Wanted, Reads,
         Writes, Told
  <1> QED BY <1>4, <1>5, <1>6, <1>7, <1>8, <1>9 DEF CallInv

-----------------------------------------------------------------------------
(* What the chip makes of the bytes of a program command.                   *)
LEMMA ProgramsIs ==
  ASSUME NEW c \in Command, NEW a \in Nat, c.n >= 1, InOnePage(a, c.n)
  PROVE  /\ DOMAIN Programs(c, a) = a .. a + c.n - 1
         /\ \A b \in a .. a + c.n - 1 :
              Programs(c, a)[b] = IF job.data[c.addr + (b - a)] = 0 THEN 0 ELSE mem[b]
  <1> DEFINE P == {InPage(a, k) : k \in 0 .. c.n - 1}
             Data(k, b) == IF job.data[c.addr + k] = 0 THEN 0 ELSE mem[b]
             From(b) == CHOOSE m \in 0 .. c.n - 1 : InPage(a, m) = b
  <1>1. c.n \in Nat /\ c.addr \in Nat
    BY DEF Command
  <1>2. \A k \in 0 .. c.n - 1 : InPage(a, k) = a + k
    BY <1>1, InPageStays
  <1>3. P = a .. a + c.n - 1
    <2>1. P \subseteq a .. a + c.n - 1
      BY <1>1, <1>2
    <2>2. ASSUME NEW b \in a .. a + c.n - 1 PROVE b \in P
      <3>1. b - a \in 0 .. c.n - 1 /\ a + (b - a) = b
        BY <1>1
      <3>2. InPage(a, b - a) = b
        BY <1>2, <3>1
      <3> QED BY <3>1, <3>2
    <2> QED BY <2>1, <2>2
  <1>4. ASSUME NEW b \in a .. a + c.n - 1 PROVE From(b) = b - a
    <2>1. b - a \in 0 .. c.n - 1 /\ a + (b - a) = b
      BY <1>1
    <2>2. InPage(a, b - a) = b
      BY <1>2, <2>1
    <2>3. \E m \in 0 .. c.n - 1 : InPage(a, m) = b
      BY <2>1, <2>2
    <2>4. From(b) \in 0 .. c.n - 1 /\ InPage(a, From(b)) = b
      BY <2>3
    <2> HIDE DEF From
    <2>5. a + From(b) = b
      BY <1>2, <2>4
    <2> QED BY <1>1, <2>4, <2>5
  <1>5. Programs(c, a) = [b \in P |-> Data(From(b), b)]
    BY DEF Programs
  <1> HIDE DEF P, From
  <1> QED BY <1>3, <1>4, <1>5

(* The commands left: the main one, or an enable before it.                 *)
LEMMA MainIs ==
  ASSUME CallInv, at = "send"
  PROVE  /\ Main \in Command /\ Legal(Main) /\ Main.addr \in Nat /\ Main.n \in Nat
         /\ \/ cmds = <<Main>> /\ Head(cmds) = Main /\ Len(cmds) = 1 /\ Tail(cmds) = << >>
            \/ /\ cmds = <<Wren, Main>> /\ NeedsEnable(Main)
               /\ Head(cmds) = Wren /\ Len(cmds) = 2 /\ Tail(cmds) = <<Main>>
  <1>1. /\ Main \in Command /\ Legal(Main)
        /\ cmds = <<Main>> \/ (cmds = <<Wren, Main>> /\ NeedsEnable(Main))
    BY DEF CallInv, OnTheWay
  <1>2. Main.addr \in Nat /\ Main.n \in Nat
    BY <1>1 DEF Command
  <1> HIDE DEF Main
  <1>3. \A m : /\ Head(<<m>>) = m /\ Len(<<m>>) = 1 /\ Tail(<<m>>) = << >>
               /\ Head(<<Wren, m>>) = Wren /\ Len(<<Wren, m>>) = 2 /\ Tail(<<Wren, m>>) = <<m>>
    OBVIOUS
  <1> QED BY <1>1, <1>2, <1>3

(* The types of a call, spelt out.                                          *)
LEMMA TypesAre ==
  ASSUME CallInv
  PROVE  /\ job.start \in Nat /\ End \in Nat /\ job.start < End /\ End <= Size
         /\ pos \in Nat /\ job.start <= pos /\ pos <= End
         /\ job.data \in [Addr -> Val] /\ mem \in [Addr -> Val]
         /\ Cells \subseteq Addr
         /\ job.function \in Functions
  <1>1. job \in Jobs /\ pos \in job.start .. End /\ mem \in [Addr -> Val]
    BY DEF CallInv, CallTypes
  <1>2. /\ job.start \in Nat /\ End \in Nat /\ job.start < End /\ End <= Size
        /\ job.data \in [Addr -> Val] /\ job.function \in Functions
    BY <1>1, JobFacts
  <1>3. pos \in Nat /\ job.start <= pos /\ pos <= End
    BY <1>1, <1>2
  <1>4. Cells \subseteq Addr
    BY <1>2, Sizes DEF Cells, Addr
  <1> QED BY <1>1, <1>2, <1>3, <1>4

(* What the main command of a call makes of the chip.                       *)
ChangesWell(W) ==
  /\ DOMAIN W \subseteq Cells /\ \A b \in DOMAIN W : W[b] \in Val
  /\ Reads \/ Main.op \in {"READ", "WRDI"} => W = Idle
  /\ Main.op \notin {"READ", "WRDI"} /\ (Main.op = "AAI_CONT" => aai = Main.addr) =>
       /\ \A b \in Addr : Main.addr <= b /\ b < pos => b \in DOMAIN W
       /\ Main.addr < pos
       /\ \A b \in DOMAIN W : W[b] = NewValue(b)

(* A program command clears what it should within the call.                 *)
LEMMA ProgramsWell ==
  ASSUME CallInv, at = "send", Main.op \in {"PP", "AAI", "AAI_CONT"},
         NEW a \in Nat, InOnePage(a, Main.n), job.start <= a, a + Main.n <= pos,
         Main.op # "AAI_CONT" => a = Main.addr
  PROVE  LET W == Programs(Main, a) IN
         /\ DOMAIN W \subseteq Cells /\ \A b \in DOMAIN W : W[b] \in Val
         /\ a = Main.addr =>
              /\ \A b \in Addr : Main.addr <= b /\ b < pos => b \in DOMAIN W
              /\ Main.addr < pos
              /\ \A b \in DOMAIN W : W[b] = NewValue(b)
  <1> DEFINE W == Programs(Main, a)
             m == Main
  <1>1. m \in Command /\ m.addr \in Nat /\ m.n \in Nat /\ Up(m) /\ Writes
    BY MainIs DEF Legal, AaiCall, Writes
  <1>t. /\ job.start \in Nat /\ End \in Nat /\ pos \in Nat /\ pos <= End
        /\ job.data \in [Addr -> Val] /\ mem \in [Addr -> Val] /\ Cells \subseteq Addr
    BY TypesAre
  <1> HIDE DEF m
  <1>2. m.n >= 1 /\ m.addr + m.n = pos /\ job.start <= m.addr
    BY <1>1 DEF Up
  <1>3. /\ DOMAIN W = a .. a + m.n - 1
        /\ \A b \in a .. a + m.n - 1 : W[b] = IF job.data[m.addr + (b - a)] = 0 THEN 0 ELSE mem[b]
    BY <1>1, <1>2, ProgramsIs DEF m
  <1> HIDE DEF W
  <1>4. \A b \in a .. a + m.n - 1 : b \in Cells /\ m.addr + (b - a) \in Cells
    BY <1>t, <1>1, <1>2 DEF Cells, m
  <1>5. \A b \in DOMAIN W : W[b] \in Val
    <2> SUFFICES ASSUME NEW b \in DOMAIN W PROVE W[b] \in Val
      OBVIOUS
    <2>1. b \in Addr /\ mem[b] \in Val
      BY <1>t, <1>3, <1>4
    <2> QED BY <1>3, <2>1 DEF Val
  <1>6. ASSUME a = m.addr
        PROVE  /\ \A b \in Addr : m.addr <= b /\ b < pos => b \in DOMAIN W
               /\ m.addr < pos
               /\ \A b \in DOMAIN W : W[b] = NewValue(b)
    <2>1. \A b \in DOMAIN W : m.addr + (b - a) = b
      BY <1>1, <1>3, <1>6
    <2>2. \A b \in DOMAIN W : W[b] = NewValue(b)
      BY <1>1, <1>3, <2>1 DEF NewValue
    <2>3. \A b \in Addr : m.addr <= b /\ b < pos => b \in DOMAIN W
      BY <1>1, <1>2, <1>3, <1>6, Sizes DEF Addr
    <2>4. m.addr < pos
      BY <1>1, <1>2, <1>t
    <2> QED BY <2>2, <2>3, <2>4
  <1> QED BY <1>3, <1>4, <1>5, <1>6 DEF W, m

(* The main command does what it should, if the chip takes it.              *)
LEMMA MainChangesWell ==
  ASSUME CallInv, at = "send", Takes(Main)
  PROVE  ChangesWell(Changes(Main))
  <1> DEFINE W == Changes(Main)
  <1>m. Legal(Main) /\ Main \in Command /\ Main.addr \in Nat /\ Main.n \in Nat
    BY MainIs
  <1>t. /\ job.start \in Nat /\ End \in Nat /\ job.start < End /\ pos \in Nat
        /\ pos <= End /\ End <= Size
        /\ job.start <= pos /\ Cells \subseteq Addr /\ mem \in [Addr -> Val]
    BY TypesAre
  <1>1. CASE Main.op \in {"READ", "WRDI"}
    <2>1. W = Idle
      BY <1>1 DEF Changes
    <2>2. DOMAIN W = {}
      BY <2>1 DEF Idle
    <2> QED BY <1>1, <2>1, <2>2 DEF ChangesWell
  <1>2. CASE Main.op \in {"PP", "AAI"}
    <2>1. W = Programs(Main, Main.addr)
      BY <1>2 DEF Changes
    <2>2. Up(Main) /\ ~Reads
      BY <1>m, <1>2 DEF Legal, Writes, Reads, AaiCall
    <2>3. InOnePage(Main.addr, Main.n)
      <3>1. CASE Main.op = "PP"
        BY <1>m, <3>1 DEF Legal
      <3>2. CASE Main.op = "AAI"
        <4>1. Main.n = 2 /\ Main.addr % 2 = 0 /\ PageSize % 2 = 0
          BY <1>m, <3>2, JobFacts DEF Legal, AaiCall, CallInv, CallTypes
        <4> QED BY <1>m, <4>1, EvenInPage
      <3> QED BY <1>2, <3>1, <3>2
    <2>4. job.start <= Main.addr /\ Main.addr + Main.n <= pos
      BY <1>m, <1>t, <2>2 DEF Up
    <2> QED BY <1>m, <1>2, <2>1, <2>2, <2>3, <2>4, ProgramsWell DEF ChangesWell
  <1>3. CASE Main.op = "AAI_CONT"
    <2>1. W = Programs(Main, aai)
      BY <1>3 DEF Changes
    <2>2. Up(Main) /\ ~Reads /\ Main.n = 2 /\ PageSize % 2 = 0
      BY <1>m, <1>3, JobFacts DEF Legal, Reads, AaiCall, CallInv, CallTypes
    <2>3. aai # None
      BY <1>3 DEF Takes
    <2>4. aai \in Nat /\ aai % 2 = 0 /\ job.start <= aai /\ aai <= pos - 2
      BY <1>3, <2>3 DEF CallInv, Confined, Sending
    <2>5. InOnePage(aai, Main.n) /\ aai + Main.n <= pos
      BY <1>t, <2>2, <2>4, EvenInPage
    <2> QED BY <1>m, <1>3, <2>1, <2>2, <2>4, <2>5, ProgramsWell DEF ChangesWell
  <1>4. CASE Main.op \in {"SE", "BE_50", "CE"}
    <2>1. Erases /\ ~Reads /\ ~Writes /\ Main.addr = job.start /\ pos = End
      BY <1>m, <1>4 DEF Legal, Erases, Reads, Writes
    <2>2. W = [a \in Cells |-> 1]
      <3>1. CASE Main.op \in {"SE", "BE_50"}
        <4>1. job.function \in {"spi_block_erase", "spi_block_erase_50"}
          BY <1>m, <3>1 DEF Legal
        <4>2. job.len = BlockSize /\ job.start % BlockSize = 0
          BY <4>1, JobFacts DEF CallInv, CallTypes
        <4>3. Block(Main.addr) = job.start .. job.start + BlockSize - 1
          BY <1>t, <2>1, <4>2, BlockIs
        <4>4. Block(Main.addr) = Cells
          BY <1>t, <4>2, <4>3, Sizes DEF Cells, End
        <4>5. W = [a \in Block(Main.addr) |-> 1]
          BY <3>1 DEF Changes
        <4> QED BY <4>4, <4>5
      <3>2. CASE Main.op = "CE"
        <4>1. job.start = 0 /\ job.len = Size
          BY <1>m, <3>2 DEF Legal
        <4>2. Cells = Addr
          BY <4>1, Sizes DEF Cells, End, Addr
        <4>3. W = [a \in Addr |-> 1]
          BY <3>2 DEF Changes
        <4> QED BY <4>2, <4>3
      <3> QED BY <1>4, <3>1, <3>2
    <2>3. DOMAIN W = Cells /\ \A b \in Cells : W[b] = 1
      BY <2>2
    <2>4. \A b \in DOMAIN W : W[b] = NewValue(b) /\ W[b] \in Val
      BY <2>1, <2>3 DEF NewValue, Val
    <2>5. \A b \in Addr : Main.addr <= b /\ b < pos => b \in DOMAIN W
      BY <1>t, <2>1, <2>3, Sizes DEF Cells, Addr
    <2> HIDE DEF W
    <2>6. ChangesWell(W)
      BY <1>4, <1>t, <2>1, <2>3, <2>4, <2>5 DEF ChangesWell
    <2> QED BY <2>6 DEF W
  <1> QED BY <1>m, <1>1, <1>2, <1>3, <1>4 DEF Command

(* The chip after a command was delivered, or was lost on the way.          *)
LEMMA ChipConfined ==
  ASSUME CallInv, at = "send", Deliver(Head(cmds)) \/ UNCHANGED flashchip
  PROVE  /\ mem' = mem /\ welatch' \in BOOLEAN
         /\ DOMAIN wip' \subseteq Cells /\ \A b \in DOMAIN wip' : wip'[b] \in Val
         /\ Reads => wip' = Idle
         /\ aai' # None => /\ AaiCall /\ stage # "start" /\ aai' \in Nat /\ aai' % 2 = 0
                           /\ (job.start <= aai' /\ aai' <= pos) \/ pos = Size
         /\ Told => \A b \in DOMAIN wip' : wip'[b] = NewValue(b)
  <1>t. /\ job.start \in Nat /\ End \in Nat /\ job.start < End /\ pos \in Nat
        /\ pos <= End /\ End <= Size
        /\ job.start <= pos
    BY TypesAre
  <1>w. welatch \in BOOLEAN
    BY DEF CallInv, CallTypes
  <1>c. /\ DOMAIN wip \subseteq Cells /\ \A b \in DOMAIN wip : wip[b] \in Val
        /\ Reads => wip = Idle
        /\ aai # None => /\ AaiCall /\ stage # "start" /\ aai \in Nat /\ aai % 2 = 0
                         /\ (job.start <= aai /\ aai <= pos) \/ pos = Size
        /\ Told => \A b \in DOMAIN wip : wip[b] = NewValue(b)
    <2>1. /\ DOMAIN wip \subseteq Cells /\ \A b \in DOMAIN wip : wip[b] \in Val
          /\ Reads => wip = Idle
          /\ aai # None => AaiCall /\ stage # "start" /\ aai \in Nat /\ aai % 2 = 0
      BY DEF CallInv, Confined
    <2>2. ASSUME aai # None PROVE (job.start <= aai /\ aai <= pos) \/ pos = Size
      <3>1. IF Sending("AAI_CONT") THEN job.start <= aai /\ aai <= pos - 2
            ELSE (job.start <= aai /\ aai <= pos) \/ pos = Size
        BY <2>2 DEF CallInv, Confined
      <3> QED BY <1>t, <2>1, <2>2, <3>1
    <2>3. Told => \A b \in DOMAIN wip : wip[b] = NewValue(b)
      BY DEF CallInv, DoneSoFar
    <2> QED BY <2>1, <2>2, <2>3
  <1>1. CASE UNCHANGED flashchip
    BY <1>1, <1>c, <1>w DEF flashchip
  <1>2. CASE Deliver(Head(cmds)) /\ ~Takes(Head(cmds))
    <2>1. mem' = mem /\ wip' = wip /\ welatch' = welatch /\ aai' = aai
      BY <1>2 DEF Deliver
    <2> QED BY <2>1, <1>c, <1>w
  <1>3. CASE Deliver(Head(cmds)) /\ Takes(Head(cmds)) /\ Head(cmds) = Wren
    <2>1. Head(cmds).op = "WREN"
      BY <1>3 DEF Wren, Cmd
    <2>2. mem' = mem /\ wip' = Idle /\ welatch' = TRUE /\ aai' = aai
      BY <1>3, <2>1 DEF Deliver, Changes
    <2>3. DOMAIN wip' = {}
      BY <2>2 DEF Idle
    <2> QED BY <1>c, <2>2, <2>3
  <1>4. CASE Deliver(Head(cmds)) /\ Takes(Head(cmds)) /\ Head(cmds) = Main
    <2>m. Main \in Command /\ Legal(Main)
      BY MainIs
    <2>1. mem' = mem /\ wip' = Changes(Main) /\ welatch' \in BOOLEAN
      <3>1. /\ mem' = mem /\ wip' = Changes(Main)
            /\ welatch' = CASE Main.op = "WREN" -> TRUE
                            [] Main.op = "WRDI" -> FALSE
                            [] OTHER -> welatch
        BY <1>4 DEF Deliver
      <3> QED BY <3>1, <1>w
    <2>2. ChangesWell(wip')
      BY <1>4, <2>1, MainChangesWell
    <2>3. Told /\ Main.op = "AAI_CONT" => aai = Main.addr
      BY DEF CallInv, ChipReady
    <2>4. /\ DOMAIN wip' \subseteq Cells /\ \A b \in DOMAIN wip' : wip'[b] \in Val
          /\ Reads => wip' = Idle
      BY <2>2 DEF ChangesWell
    <2>5. Told => \A b \in DOMAIN wip' : wip'[b] = NewValue(b)
      <3>1. CASE Main.op \in {"READ", "WRDI"}
        <4>1. wip' = Idle /\ DOMAIN Idle = {}
          BY <2>2, <3>1 DEF ChangesWell, Idle
        <4> QED BY <4>1
      <3>2. CASE Main.op \notin {"READ", "WRDI"}
        BY <2>2, <2>3, <3>2 DEF ChangesWell
      <3> QED BY <3>1, <3>2
    <2>6. ASSUME aai' # None
          PROVE  /\ AaiCall /\ stage # "start" /\ aai' \in Nat /\ aai' % 2 = 0
                 /\ (job.start <= aai' /\ aai' <= pos) \/ pos = Size
      <3>0. aai' = CASE Main.op = "AAI" -> (Main.addr + 2) % Size
                     [] Main.op = "AAI_CONT" -> (aai + 2) % Size
                     [] Main.op = "WRDI" -> None
                     [] OTHER -> aai
        BY <1>4 DEF Deliver
      <3>1. CASE Main.op \in {"AAI", "AAI_CONT"}
        <4> DEFINE a == IF Main.op = "AAI" THEN Main.addr ELSE aai
        <4>1. /\ AaiCall /\ stage # "start" /\ Up(Main)
              /\ Main.n = 2 /\ Main.addr % 2 = 0 /\ Main.addr \in Nat
          BY <2>m, <3>1 DEF Legal, Command
        <4>2. a \in Nat /\ a % 2 = 0 /\ job.start <= a /\ a + 2 <= pos
          <5>1. CASE Main.op = "AAI"
            BY <1>t, <4>1, <5>1 DEF Up
          <5>2. CASE Main.op = "AAI_CONT"
            <6>1. aai # None
              BY <1>4, <5>2 DEF Takes
            <6>2. aai \in Nat /\ aai % 2 = 0 /\ job.start <= aai /\ aai <= pos - 2
              BY <5>2, <6>1 DEF CallInv, Confined, Sending
            <6> QED BY <1>t, <5>2, <6>2
          <5> QED BY <3>1, <5>1, <5>2
        <4>3. aai' = (a + 2) % Size
          BY <3>0, <3>1
        <4> HIDE DEF a
        <4>4. CASE a + 2 < Size
          <5>1. aai' = a + 2
            BY <4>2, <4>3, <4>4, Sizes
          <5> QED BY <1>t, <4>1, <4>2, <5>1
        <4>5. CASE a + 2 = Size
          <5>1. aai' = 0 /\ pos = Size
            BY <1>t, <4>2, <4>3, <4>5, Sizes
          <5> QED BY <4>1, <5>1
        <4> QED BY <1>t, <4>2, <4>4, <4>5, Sizes
      <3>2. CASE Main.op = "WRDI"
        BY <2>6, <3>0, <3>2
      <3>3. CASE Main.op \notin {"AAI", "AAI_CONT", "WRDI"}
        BY <1>c, <2>6, <3>0, <3>3
      <3> QED BY <3>1, <3>2, <3>3
    <2> QED BY <2>1, <2>4, <2>5, <2>6
  <1> QED BY <1>1, <1>2, <1>3, <1>4, MainIs

(* The chip can take what is sent, unless a failure has gone unseen.        *)
LEMMA TakesWell ==
  ASSUME CallInv, at = "send", Told
  PROVE  Takes(Head(cmds))
  <1>1. /\ wip = Idle
        /\ aai # None <=> Main.op \in {"AAI_CONT", "WRDI"}
        /\ Len(cmds) = 1 /\ NeedsEnable(Main) => welatch
    BY DEF CallInv, ChipReady
  <1>2. CASE cmds = <<Main>> /\ Head(cmds) = Main /\ Len(cmds) = 1
    BY <1>1, <1>2 DEF Takes, NeedsEnable
  <1>3. CASE Head(cmds) = Wren /\ NeedsEnable(Main)
    <2>1. Head(cmds).op = "WREN"
      BY <1>3 DEF Wren, Cmd
    <2>2. aai = None
      BY <1>1, <1>3 DEF NeedsEnable
    <2> QED BY <1>1, <2>1, <2>2 DEF Takes
  <1> QED BY <1>2, <1>3, MainIs

(* A command sent, with or without a failure: types and what the chip does. *)
LEMMA SentInv ==
  ASSUME CallInv, at = "send", Deliver(Head(cmds)) \/ UNCHANGED flashchip,
         UNCHANGED <<job, pgm, pos, stage>>,
         buf' \in [Addr -> Val \cup {None}], ret' \in {"none", "0", "error"},
         at' \in {"loop", "send", "poll", "returned"}, lost' \in 0 .. MaxLost,
         misled' = misled, unchecked' \in BOOLEAN,
         at' = "send" => cmds' = <<Main>> /\ NeedsEnable(Main)
  PROVE  CallTypes' /\ OnTheWay' /\ Confined'
  <1>1. /\ mem' = mem /\ welatch' \in BOOLEAN
        /\ DOMAIN wip' \subseteq Cells /\ \A b \in DOMAIN wip' : wip'[b] \in Val
        /\ Reads => wip' = Idle
        /\ aai' # None => /\ AaiCall /\ stage # "start" /\ aai' \in Nat /\ aai' % 2 = 0
                          /\ (job.start <= aai' /\ aai' <= pos) \/ pos = Size
    BY ChipConfined
  <1>2. End' = End /\ Cells' = Cells /\ AaiCall' = AaiCall /\ Reads' = Reads
    BY DEF End, Cells, AaiCall, Reads
  <1>3. CallTypes'
    BY <1>1, <1>2 DEF CallInv, CallTypes
  <1>4. ASSUME at' = "send" PROVE Main' = Main /\ NeedsEnable(Main)
    <2>1. Main' = cmds'[Len(cmds')] /\ cmds' = <<Main>> /\ NeedsEnable(Main)
      BY <1>4 DEF Main
    <2> HIDE DEF Main
    <2> QED BY <2>1
  <1>5. OnTheWay'
    <2> SUFFICES ASSUME at' = "send"
                 PROVE  cmds' = <<Main>>' /\ Main' \in Command /\ Legal(Main)'
      BY DEF OnTheWay
    <2>1. Main' = Main /\ Main \in Command /\ Legal(Main)
      BY <1>4, MainIs
    <2>2. Legal(Main)'
      <3> HIDE DEF Main
      <3> QED BY <1>2, <2>1 DEF Legal, Reads, Writes, Up, AaiCall
    <2> QED BY <2>1, <2>2
  <1>6. Confined'
    <2>1. ~Sending("AAI_CONT")'
      BY <1>4 DEF Sending, NeedsEnable
    <2> QED BY <1>1, <1>2, <2>1 DEF Confined
  <1> QED BY <1>3, <1>5, <1>6

(* A command that is sent keeps the invariant.                              *)
LEMMA SendOkInv ==
  ASSUME CallInv, SendOk
  PROVE  CallInv'
  <1>1. /\ at = "send" /\ Deliver(Head(cmds)) /\ cmds' = Tail(cmds) /\ ret' = ret
        /\ at' = After(Head(cmds))
        /\ buf' = [a \in Addr |->
                     IF Head(cmds).op = "READ" /\ a - Head(cmds).addr \in 0 .. Head(cmds).n - 1
                                  THEN mem[a] ELSE buf[a]]
        /\ UNCHANGED <<job, pgm, pos, stage, lost, misled, unchecked>>
    BY DEF SendOk, GoOn
  <1>m. /\ Main \in Command /\ Legal(Main) /\ Main.addr \in Nat /\ Main.n \in Nat
        /\ \/ cmds = <<Main>> /\ Head(cmds) = Main /\ Len(cmds) = 1 /\ Tail(cmds) = << >>
           \/ /\ cmds = <<Wren, Main>> /\ NeedsEnable(Main)
              /\ Head(cmds) = Wren /\ Len(cmds) = 2 /\ Tail(cmds) = <<Main>>
    BY <1>1, MainIs
  <1>t. /\ job.start \in Nat /\ End \in Nat /\ pos \in Nat
        /\ job.start <= pos /\ pos <= End /\ End <= Size
        /\ mem \in [Addr -> Val]
    BY TypesAre
  <1>r. ret = "none" /\ StageOK
    BY <1>1 DEF CallInv, Walk
  <1>s. /\ End' = End /\ AaiCall' = AaiCall /\ Reads' = Reads /\ Writes' = Writes
        /\ Erases' = Erases /\ Told' = Told /\ StageOK'
    BY <1>1, <1>r DEF End, AaiCall, Reads, Writes, Erases, Told, StageOK
  <1>b. buf' \in [Addr -> Val \cup {None}]
    <2>1. buf \in [Addr -> Val \cup {None}]
      BY DEF CallInv, CallTypes
    <2> QED BY <1>1, <1>t, <2>1
  <1>l. lost \in 0 .. MaxLost /\ misled \in BOOLEAN /\ unchecked \in BOOLEAN
    BY DEF CallInv, CallTypes
  <1>c. /\ mem' = mem
        /\ Told => \A b \in DOMAIN wip' : wip'[b] = NewValue(b)
        /\ Reads => wip' = Idle
    BY <1>1, ChipConfined
  <1>d. Told => wip = Idle /\ Takes(Head(cmds))
    BY <1>1, TakesWell DEF CallInv, ChipReady
  <1>n. mem' = mem /\ (\A b : NewValue(b)' = NewValue(b))
    BY <1>1, <1>c, <1>s DEF NewValue
  <1>2. CASE /\ Head(cmds) = Wren /\ cmds = <<Wren, Main>> /\ Tail(cmds) = <<Main>>
             /\ NeedsEnable(Main) /\ Len(cmds) = 2
    <2>1. at' = "send" /\ cmds' = <<Main>>
      <3>1. cmds' = <<Main>>
        BY <1>1, <1>2
      <3>2. Len(cmds) = 2 /\ at' = After(Head(cmds))
        BY <1>1, <1>2
      <3>m. Len(cmds) > 1 /\ Head(cmds) = Wren /\ Wren.op = "WREN"
        BY <1>2 DEF Wren, Cmd
      <3>3. at' = "send"
        BY <3>2, <3>m DEF After
      <3> QED BY <3>1, <3>3
    <2>2. CallTypes' /\ OnTheWay' /\ Confined'
      BY <1>1, <1>2, <1>b, <1>l, <1>r, <2>1, SentInv
    <2>3. Main' = Main
      <3>1. Main' = cmds'[Len(cmds')]
        BY DEF Main
      <3> HIDE DEF Main
      <3> QED BY <2>1, <3>1
    <2>4. Walk'
      BY <1>1, <1>r, <1>s, <2>1 DEF Walk
    <2>5. Head(cmds).op = "WREN"
      BY <1>2 DEF Wren, Cmd
    <2>6. ChipReady'
      <3> SUFFICES ASSUME Told PROVE ChipReady'
        BY <1>s DEF ChipReady
      <3>1. wip' = Idle /\ welatch' = TRUE /\ aai' = aai
        BY <1>1, <1>d, <2>5 DEF Deliver, Changes
      <3>2. aai = None
        BY <1>1, <1>2 DEF CallInv, ChipReady, NeedsEnable
      <3> QED BY <1>1, <1>2, <1>r, <2>1, <2>3, <3>1, <3>2 DEF ChipReady, NeedsEnable
    <2>7. DoneSoFar'
      <3>1. Reached' = Reached /\ Behind' = Behind
        <4>1. Reached' = Reached
          BY <1>1, <1>2, <2>1, <2>3 DEF Reached
        <4> QED BY <1>1, <4>1 DEF Behind
      <3>2. Told => wip' = Idle /\ wip = Idle
        BY <1>1, <1>d, <2>5 DEF Deliver, Changes
      <3>3. buf' = buf
        <4>1. buf \in [Addr -> Val \cup {None}]
          BY DEF CallInv, CallTypes
        <4> QED BY <1>1, <2>5, <4>1
      <3>4. Told => (\A b : Soon(b)' = Soon(b)) /\ (\A b, v : Wanted(b, v)' = Wanted(b, v))
        BY <1>1, <1>n, <1>s, <3>2 DEF Soon, Wanted
      <3>5. Told /\ ~Reads => \A a \in Behind : Wanted(a, Soon(a))
        BY <1>r DEF CallInv, DoneSoFar
      <3>6. Reads => \A a \in Behind : buf[a] = mem[a]
        BY <1>r DEF CallInv, DoneSoFar
      <3> QED BY <1>c, <1>n, <1>s, <3>1, <3>3, <3>4, <3>5, <3>6 DEF DoneSoFar
    <2> QED BY <2>2, <2>4, <2>6, <2>7 DEF CallInv
  <1>3. CASE Head(cmds) = Main /\ cmds = <<Main>> /\ Len(cmds) = 1
    <2>1. at' = IF Main.op \in {"READ", "WRDI"} THEN "loop" ELSE "poll"
      BY <1>1, <1>3 DEF After
    <2>2. CallTypes' /\ OnTheWay' /\ Confined'
      BY <1>1, <1>3, <1>b, <1>l, <1>r, <2>1, SentInv
    <2>w. Told => ChangesWell(wip') /\ (Main.op = "AAI_CONT" => aai = Main.addr)
      <3>1. Told => wip' = Changes(Main) /\ Takes(Main)
        BY <1>1, <1>3, <1>d DEF Deliver
      <3> QED BY <1>1, <3>1, MainChangesWell DEF CallInv, ChipReady
    <2>p. Main.op \notin {"READ", "WRDI"} => ~Reads /\ stage # "end" /\ pos > job.start
      <3>1. Main.op \in {"PP", "AAI", "AAI_CONT"} => Up(Main) /\ Writes /\ stage # "end"
        BY <1>m DEF Legal, Writes, AaiCall
      <3>2. Main.op \in {"SE", "BE_50", "CE"} => pos = End /\ Erases
        BY <1>m DEF Legal, Erases
      <3>3. Erases => stage # "end"
        BY <1>r DEF StageOK, AaiCall, Erases
      <3>4. job.start < End
        BY TypesAre
      <3> QED BY <1>m, <1>t, <3>1, <3>2, <3>3, <3>4 DEF Up, Command, Reads, Writes, Erases
    <2>4. Walk'
      BY <1>1, <1>r, <1>s, <2>1, <2>p DEF Walk
    <2>6. ChipReady'
      <3> SUFFICES ASSUME Told PROVE ChipReady'
        BY <1>s DEF ChipReady
      <3>1. /\ aai' = CASE Main.op = "AAI" -> (Main.addr + 2) % Size
                       [] Main.op = "AAI_CONT" -> (aai + 2) % Size
                       [] Main.op = "WRDI" -> None
                       [] OTHER -> aai
            /\ welatch' = CASE Main.op = "WREN" -> TRUE
                            [] Main.op = "WRDI" -> FALSE
                            [] OTHER -> welatch
        BY <1>1, <1>3, <1>d DEF Deliver
      <3>2. aai # None <=> Main.op \in {"AAI_CONT", "WRDI"}
        BY <1>1 DEF CallInv, ChipReady
      <3>3. CASE Main.op \in {"AAI", "AAI_CONT"}
        <4>1. stage = "cont" /\ Main.addr + 2 = pos
          BY <1>m, <3>3 DEF Legal, Up
        <4>2. aai' = pos % Size
          BY <2>w, <3>1, <3>3, <4>1
        <4> QED BY <1>1, <1>r, <2>1, <3>3, <4>1, <4>2 DEF ChipReady
      <3>4. CASE Main.op = "WRDI"
        <4>1. stage = "end" /\ wip' = Idle /\ aai' = None /\ welatch' = FALSE
          BY <1>m, <2>w, <3>1, <3>4 DEF Legal, ChangesWell
        <4> QED BY <1>1, <1>r, <2>1, <3>4, <4>1 DEF ChipReady
      <3>5. CASE Main.op = "READ"
        <4>1. wip' = Idle /\ aai' = None /\ stage # "cont" /\ job.function = "spi_chip_read"
          <5>1. Reads
            BY <1>m, <3>5 DEF Legal
          <5> QED BY <1>r, <2>w, <3>1, <3>2, <3>5, <5>1 DEF ChangesWell, StageOK, AaiCall, Reads
        <4> QED BY <1>1, <1>r, <2>1, <3>5, <4>1 DEF ChipReady
      <3>6. CASE Main.op \in {"PP", "SE", "BE_50", "CE"}
        <4>1. aai' = None /\ stage # "cont"
          <5>1. stage = "start"
            BY <1>m, <1>r, <3>6 DEF Legal, StageOK, AaiCall, Erases, CallInv, CallTypes
          <5> QED BY <3>1, <3>2, <3>6, <5>1
        <4>2. wip' # Idle
          <5>1. Main.addr \in DOMAIN wip'
            <6>1. \A b \in Addr : Main.addr <= b /\ b < pos => b \in DOMAIN wip'
              BY <2>w, <3>6 DEF ChangesWell
            <6>2. Main.addr < pos
              BY <2>w, <3>6 DEF ChangesWell
            <6>3. Main.addr \in Addr
              BY <1>m, <1>t, <6>2, Sizes DEF Addr
            <6> QED BY <1>m, <6>1, <6>2, <6>3
          <5> QED BY <5>1 DEF Idle
        <4> QED BY <1>1, <1>r, <2>1, <3>6, <4>1, <4>2 DEF ChipReady
      <3> QED BY <1>m, <3>3, <3>4, <3>5, <3>6 DEF Command
    <2>7. DoneSoFar'
      <3>1. Reached' = pos
        BY <1>1, <2>1 DEF Reached
      <3>2. Told => \A b \in DOMAIN wip' : wip'[b] = NewValue(b)'
        BY <1>c, <1>n
      <3>3. ASSUME Told, ~Reads, NEW a \in Behind' PROVE Wanted(a, Soon(a))'
        <4>1. a \in Addr /\ job.start <= a /\ a < pos
          BY <1>1, <3>1, <3>3 DEF Behind
        <4>2. CASE a \in DOMAIN wip'
          <5>1. Soon(a)' = NewValue(a)
            BY <1>c, <3>3, <4>2 DEF Soon
          <5> QED BY <1>1, <1>s, <5>1 DEF Wanted, NewValue
        <4>3. CASE a \notin DOMAIN wip'
          <5>1. a \in Behind
            <6>1. CASE Main.op \in {"WRDI"}
              BY <4>1, <6>1 DEF Behind, Reached
            <6>2. CASE Main.op \notin {"READ", "WRDI"}
              <7>1. \A b \in Addr : Main.addr <= b /\ b < pos => b \in DOMAIN wip'
                BY <2>w, <3>3, <6>2 DEF ChangesWell
              <7>2. ~(Main.addr <= a)
                BY <4>1, <4>3, <7>1
              <7>3. a < Main.addr
                BY <1>m, <4>1, <7>2, Sizes DEF Addr
              <7> QED BY <1>1, <4>1, <6>2, <7>3 DEF Behind, Reached
            <6>3. CASE Main.op = "READ"
              BY <1>m, <3>3, <6>3 DEF Legal
            <6> QED BY <6>1, <6>2, <6>3
          <5>2. Wanted(a, Soon(a))
            BY <1>r, <3>3, <5>1 DEF CallInv, DoneSoFar
          <5>3. Soon(a) = mem[a] /\ Soon(a)' = mem[a]
            BY <1>d, <1>n, <3>3, <4>3 DEF Soon, Idle
          <5> QED BY <1>1, <1>s, <5>2, <5>3 DEF Wanted
        <4> QED BY <4>2, <4>3
      <3>4. ASSUME Reads, NEW a \in Behind' PROVE buf'[a] = mem'[a]
        <4>1. a \in Addr /\ job.start <= a /\ a < pos
          BY <1>1, <3>1 DEF Behind
        <4>2. Main.op = "READ" /\ Up(Main)
          BY <1>m, <3>4 DEF Legal, Reads, Writes, AaiCall
        <4>3. buf'[a] = IF a - Main.addr \in 0 .. Main.n - 1 THEN mem[a] ELSE buf[a]
          BY <1>1, <1>3, <4>1, <4>2
        <4>4. CASE a < Main.addr
          <5>1. a \in Behind
            BY <1>1, <4>1, <4>2, <4>4 DEF Behind, Reached
          <5>2. buf[a] = mem[a]
            BY <1>r, <3>4, <5>1 DEF CallInv, DoneSoFar
          <5> QED BY <1>c, <4>3, <5>2
        <4>5. CASE a >= Main.addr
          <5>1. a - Main.addr \in 0 .. Main.n - 1
            <6>1. a \in Nat /\ Main.addr \in Nat /\ Main.n \in Nat
              BY <1>m, <4>1, Sizes DEF Addr
            <6>2. Main.addr + Main.n = pos /\ a < pos /\ a >= Main.addr
              BY <4>1, <4>2, <4>5 DEF Up
            <6> QED BY <6>1, <6>2
          <5> QED BY <1>c, <4>3, <5>1
        <4> QED BY <1>m, <4>1, <4>4, <4>5, Sizes DEF Addr
      <3> QED BY <1>s, <3>2, <3>3, <3>4 DEF DoneSoFar
    <2> QED BY <2>2, <2>4, <2>6, <2>7 DEF CallInv
  <1> QED BY <1>m, <1>2, <1>3

(* A command whose sending fails keeps the invariant.                       *)
LEMMA SendLostInv ==
  ASSUME CallInv, SendLost
  PROVE  CallInv'
  <1>1. /\ at = "send" /\ (Deliver(Head(cmds)) \/ UNCHANGED flashchip)
        /\ lost' = lost + 1 /\ lost < MaxLost
        /\ UNCHANGED <<job, pgm, pos, stage, buf, misled>>
        /\ \/ /\ Ignored(Head(cmds)) /\ cmds' = Tail(cmds) /\ at' = After(Head(cmds))
              /\ ret' = ret /\ unchecked' = TRUE
           \/ /\ ~Ignored(Head(cmds)) /\ at' = "returned" /\ ret' = "error" /\ cmds' = cmds
              /\ unchecked' = unchecked
    BY DEF SendLost, GoOn, Finish
  <1>m. /\ Main \in Command /\ Legal(Main) /\ Main.addr \in Nat /\ Main.n \in Nat
        /\ \/ cmds = <<Main>> /\ Head(cmds) = Main /\ Len(cmds) = 1 /\ Tail(cmds) = << >>
           \/ /\ cmds = <<Wren, Main>> /\ NeedsEnable(Main)
              /\ Head(cmds) = Wren /\ Len(cmds) = 2 /\ Tail(cmds) = <<Main>>
    BY <1>1, MainIs
  <1>r. ret = "none" /\ StageOK
    BY <1>1 DEF CallInv, Walk
  <1>s. /\ End' = End /\ AaiCall' = AaiCall /\ Reads' = Reads /\ Erases' = Erases /\ StageOK'
    BY <1>1, <1>r DEF End, AaiCall, Reads, Erases, StageOK
  <1>l. /\ lost' \in 0 .. MaxLost /\ unchecked' \in BOOLEAN /\ buf' \in [Addr -> Val \cup {None}]
        /\ misled' \in BOOLEAN
    <2>1. /\ lost \in 0 .. MaxLost /\ unchecked \in BOOLEAN /\ misled \in BOOLEAN
          /\ buf \in [Addr -> Val \cup {None}]
      BY DEF CallInv, CallTypes
    <2>2. lost' \in 0 .. MaxLost
      BY <1>1, <2>1, Sizes
    <2> QED BY <1>1, <2>1, <2>2
  <1>2. CASE /\ Ignored(Head(cmds)) /\ cmds' = Tail(cmds) /\ at' = After(Head(cmds))
             /\ ret' = ret /\ unchecked' = TRUE
    <2>1. Head(cmds) = Main /\ Len(cmds) = 1 /\ Main.op \in {"AAI_CONT", "WRDI"}
      <3>1. Wren.op = "WREN"
        BY DEF Wren, Cmd
      <3> QED BY <1>2, <1>m, <3>1 DEF Ignored
    <2>2. at' = IF Main.op = "WRDI" THEN "loop" ELSE "poll"
      BY <1>2, <2>1 DEF After
    <2>3. CallTypes' /\ OnTheWay' /\ Confined'
      BY <1>1, <1>2, <1>l, <1>r, <2>2, SentInv
    <2>4. AaiCall /\ (Main.op = "AAI_CONT" => stage = "cont" /\ Up(Main))
      BY <1>m, <2>1 DEF Legal
    <2>5. Main.op = "AAI_CONT" => pos > job.start
      <3>1. job.start \in Nat /\ pos \in Nat
        BY TypesAre
      <3> QED BY <1>m, <2>4, <3>1 DEF Up
    <2>6. ~Reads
      BY <2>4 DEF Reads, AaiCall
    <2>7. Walk'
      BY <1>1, <1>2, <1>r, <1>s, <2>1, <2>2, <2>4, <2>5, <2>6 DEF Walk
    <2>8. ChipReady' /\ DoneSoFar'
      BY <1>2, <1>s, <2>6 DEF ChipReady, DoneSoFar, Told
    <2> QED BY <2>3, <2>7, <2>8 DEF CallInv
  <1>3. CASE /\ ~Ignored(Head(cmds)) /\ at' = "returned" /\ ret' = "error" /\ cmds' = cmds
             /\ unchecked' = unchecked
    <2>1. CallTypes' /\ OnTheWay' /\ Confined'
      BY <1>1, <1>3, <1>l, SentInv
    <2>2. Walk' /\ ChipReady'
      BY <1>3, <1>s DEF Walk, ChipReady
    <2>3. mem' = mem /\ (Told => \A b \in DOMAIN wip' : wip'[b] = NewValue(b))
      BY <1>1, ChipConfined
    <2>4. Told' = Told /\ (\A b : NewValue(b)' = NewValue(b))
      BY <1>1, <1>3, <2>3 DEF Told, NewValue, Writes
    <2>5. DoneSoFar'
      BY <1>3, <2>3, <2>4 DEF DoneSoFar
    <2> QED BY <2>1, <2>2, <2>5 DEF CallInv
  <1> QED BY <1>1, <1>2, <1>3

(* The chip gets done with its change.                                      *)
LEMMA ArrayInv ==
  ASSUME CallInv, ArrayDone
  PROVE  CallInv'
  <1>1. /\ wip # Idle /\ wip' = Idle
        /\ mem' = [a \in Addr |-> IF a \in DOMAIN wip THEN wip[a] ELSE mem[a]]
        /\ welatch' = (aai # None)
        /\ UNCHANGED <<job, pgm, pos, stage, cmds, buf, ret, at, aai, lost, misled, unchecked>>
    BY DEF ArrayDone, caller
  <1>s. /\ End' = End /\ AaiCall' = AaiCall
        /\ Reads' = Reads /\ Writes' = Writes /\ Erases' = Erases
        /\ Told' = Told /\ Cells' = Cells /\ Main' = Main /\ Behind' = Behind
    BY <1>1 DEF End, AaiCall, Reads, Writes, Erases, Told, Cells, Main, Behind, Reached
  <1>i. DOMAIN Idle = {}
    BY DEF Idle
  <1>2. CallTypes'
    <2>1. mem' \in [Addr -> Val]
      <3>1. mem \in [Addr -> Val] /\ \A b \in DOMAIN wip : wip[b] \in Val
        BY DEF CallInv, CallTypes, Confined
      <3> QED BY <1>1, <3>1
    <2> QED BY <1>1, <1>s, <2>1 DEF CallInv, CallTypes
  <1>3. OnTheWay' /\ Walk'
    <2>1. StageOK' = StageOK
      BY <1>1, <1>s DEF StageOK
    <2>2. Legal(Main)' = Legal(Main)
      BY <1>1, <1>s DEF Legal, Up
    <2> QED BY <1>1, <1>s, <2>1, <2>2 DEF CallInv, OnTheWay, Walk
  <1>4. Confined'
    <2>1. Sending("AAI_CONT")' = Sending("AAI_CONT")
      BY <1>1, <1>s DEF Sending
    <2> QED BY <1>1, <1>i, <1>s, <2>1 DEF CallInv, Confined
  <1>r. ~Reads
    BY <1>1 DEF CallInv, Confined
  <1>5. ChipReady'
    <2> SUFFICES ASSUME Told PROVE ChipReady'
      BY <1>s DEF ChipReady
    <2>1. at \notin {"loop", "send"} /\ ret # "0"
      BY <1>1 DEF CallInv, ChipReady
    <2>2. at = "poll" => aai = IF stage = "cont" THEN pos % Size ELSE None
      BY DEF CallInv, ChipReady
    <2> QED BY <1>1, <1>s, <2>1, <2>2 DEF ChipReady
  <1>6. DoneSoFar'
    <2>1. ASSUME Told, ret # "error", NEW a \in Behind PROVE Wanted(a, Soon(a))'
      <3>1. Wanted(a, Soon(a))
        BY <1>r, <2>1 DEF CallInv, DoneSoFar
      <3>2. a \in Addr
        BY DEF Behind
      <3>3. Soon(a)' = Soon(a)
        BY <1>1, <1>i, <3>2 DEF Soon
      <3> QED BY <1>1, <1>s, <3>1, <3>3 DEF Wanted
    <2> QED BY <1>1, <1>i, <1>r, <1>s, <2>1 DEF DoneSoFar
  <1> QED BY <1>2, <1>3, <1>4, <1>5, <1>6 DEF CallInv

(* Back in the loop, or back at the caller.                                 *)
Goes(where, r) ==
  /\ at \in {"loop", "poll"} /\ at' = where /\ ret' = r
  /\ UNCHANGED <<job, pgm, pos, stage, buf, mem, welatch, wip, aai, unchecked>>
  /\ lost' \in 0 .. MaxLost /\ misled' \in BOOLEAN
  /\ where = "returned" <=> r # "none"
  /\ r = "0" => pos = End /\ stage # "cont" /\ at = "loop"
  /\ misled' = FALSE => misled = FALSE /\ (where = "loop" => wip = Idle)

(* Going back keeps the invariant.                                          *)
LEMMA GoesInv ==
  ASSUME CallInv, NEW where \in {"loop", "poll", "returned"}, NEW r \in {"none", "0", "error"},
         Goes(where, r), where = "poll" => at = "poll"
  PROVE  CallInv'
  <1>1. /\ at \in {"loop", "poll"} /\ at' = where /\ ret' = r
        /\ UNCHANGED <<job, pgm, pos, stage, buf, mem, welatch, wip, aai, unchecked>>
        /\ lost' \in 0 .. MaxLost /\ misled' \in BOOLEAN
        /\ where = "returned" <=> r # "none"
        /\ r = "0" => pos = End /\ stage # "cont" /\ at = "loop"
        /\ Told' => Told /\ (where = "loop" => wip = Idle)
    BY DEF Goes, Told, CallInv, CallTypes
  <1>s. /\ End' = End /\ AaiCall' = AaiCall
        /\ Reads' = Reads /\ Writes' = Writes /\ Erases' = Erases
        /\ Cells' = Cells /\ StageOK' = StageOK
    BY <1>1 DEF End, AaiCall, Reads, Writes, Erases, Cells, StageOK
  <1>b. Reached' = Reached /\ Behind' = Behind
    <2>1. Reached' = Reached
      BY <1>1 DEF Reached
    <2> QED BY <1>1, <2>1 DEF Behind
  <1>2. CallTypes'
    BY <1>1, <1>s DEF CallInv, CallTypes
  <1>3. OnTheWay' /\ Walk'
    BY <1>1, <1>s DEF OnTheWay, CallInv, Walk
  <1>4. Confined'
    BY <1>1, <1>s DEF CallInv, Confined, Sending
  <1>5. ChipReady'
    <2> SUFFICES ASSUME Told' PROVE ChipReady'
      BY DEF ChipReady
    <2>1. ret = "none" /\ Told /\ job.start < End
      BY <1>1, TypesAre DEF CallInv, Walk
    <2>2. aai = IF stage = "cont" THEN pos % Size ELSE None
      BY <1>1, <2>1 DEF CallInv, ChipReady
    <2>3. /\ at = "loop" => wip = Idle
          /\ /\ at = "loop" \/ wip = Idle
             /\ pos > job.start /\ stage # "cont"
             /\ job.function \notin {"spi_chip_read", "spi_block_erase_50"}
             => ~welatch
      BY <1>1, <2>1 DEF CallInv, ChipReady
    <2>4. CASE where = "returned"
      BY <1>1, <2>1, <2>2, <2>3, <2>4 DEF ChipReady
    <2>5. CASE where = "loop"
      BY <1>1, <2>1, <2>2, <2>3, <2>5 DEF ChipReady
    <2>6. CASE where = "poll"
      BY <1>1, <2>1, <2>2, <2>3, <2>6 DEF ChipReady
    <2> QED BY <2>4, <2>5, <2>6
  <1>6. DoneSoFar'
    <2>1. ret = "none"
      BY <1>1 DEF CallInv, Walk
    <2>2. /\ \A b : NewValue(b)' = NewValue(b) /\ Soon(b)' = Soon(b)
          /\ \A b, v : Wanted(b, v)' = Wanted(b, v)
      BY <1>1, <1>s DEF NewValue, Soon, Wanted
    <2>3. /\ Told => \A a \in DOMAIN wip : wip[a] = NewValue(a)
          /\ Told /\ ~Reads => \A a \in Behind : Wanted(a, Soon(a))
          /\ Reads => \A a \in Behind : buf[a] = mem[a]
      BY <2>1 DEF CallInv, DoneSoFar
    <2> QED BY <1>1, <1>s, <1>b, <2>2, <2>3 DEF DoneSoFar
  <1> QED BY <1>2, <1>3, <1>4, <1>5, <1>6 DEF CallInv

(* The end of a loop, and the early returns.                                *)
LEMMA FinishInv ==
  ASSUME CallInv, Done \/ ChunkUnspecified \/ (SpiChipErase /\ at' = "returned")
  PROVE  CallInv'
  <1>1. /\ at = "loop" /\ at' = "returned" /\ ret' \in {"0", "error"}
        /\ UNCHANGED <<job, pgm, pos, stage, buf, mem, welatch, wip, aai, lost, misled, unchecked>>
    BY DEF Done, ChunkUnspecified, SpiChipErase, AtLoop, Finish, Multicommand, Rest, flashchip
  <1>2. ret' = "0" => pos = End /\ stage # "cont"
    <2> SUFFICES ASSUME ret' = "0" PROVE pos = End /\ stage # "cont"
      OBVIOUS
    <2>1. Done
      BY DEF ChunkUnspecified, SpiChipErase, AtLoop, Finish, Multicommand
    <2>2. IF job.function = "spi_aai_write" /\ pgm.aai THEN stage = "end" ELSE pos >= End
      BY <2>1 DEF Done
    <2>3. pos \in Nat /\ End \in Nat /\ pos <= End
      BY TypesAre
    <2>4. stage = "end" => pos = End
      BY DEF CallInv, Walk, StageOK
    <2>5. stage # "start" => AaiCall
      BY DEF CallInv, Walk, StageOK
    <2> QED BY <2>2, <2>3, <2>4, <2>5 DEF AaiCall
  <1>3. lost' \in 0 .. MaxLost /\ misled' \in BOOLEAN
    BY <1>1 DEF CallInv, CallTypes
  <1>4. Goes("returned", ret')
    BY <1>1, <1>2, <1>3 DEF Goes
  <1> QED BY <1>1, <1>4, GoesInv

(* The wait for the chip, which a failing RDSR may end early.               *)
LEMMA PollsInv ==
  ASSUME CallInv, Poll \/ PollFails
  PROVE  CallInv'
  <1>0. ret = "none" /\ lost \in 0 .. MaxLost /\ misled \in BOOLEAN
    BY DEF CallInv, CallTypes, Walk, Poll, PollFails
  <1>1. CASE Poll
    <2>1. Goes("loop", "none")
      BY <1>0, <1>1 DEF Poll, Goes, flashchip
    <2> QED BY <2>1, GoesInv
  <1>2. CASE PollFails
    <2>1. lost' \in 0 .. MaxLost
      <3>1. lost' = lost + 1 /\ lost < MaxLost
        BY <1>2 DEF PollFails
      <3> QED BY <1>0, <3>1, Sizes
    <2>2. at = "poll" /\ at' \in {"poll", "loop"} /\ Goes(at', "none")
      BY <1>0, <1>2, <2>1 DEF PollFails, Goes, flashchip
    <2> QED BY <2>2, GoesInv
  <1> QED BY <1>1, <1>2

(* Every step keeps the invariant.                                          *)
LEMMA CallNext == CallInv /\ [SpiNext]_spiVars => CallInv'
  <1> SUFFICES ASSUME CallInv, [SpiNext]_spiVars PROVE CallInv'
    OBVIOUS
  <1>1. CASE \E c : Begins(c)
    BY <1>1, BeginsInv
  <1>2. CASE SpiBlockErase \/ SpiChipErase
    BY <1>1, <1>2, EraseBegins, FinishInv
  <1>3. CASE SpiReadChunked \/ SpiWriteChunked
    BY <1>1, <1>3, ChunkBegins
  <1>4. CASE SpiChipWrite1 \/ AaiOddStart
    BY <1>1, <1>4, ByteBegins
  <1>5. CASE AaiStart \/ AaiCont \/ AaiExit
    BY <1>1, <1>5, AaiBegins
  <1>6. CASE Done \/ ChunkUnspecified
    BY <1>6, FinishInv
  <1>7. CASE SendOk
    BY <1>7, SendOkInv
  <1>8. CASE SendLost
    BY <1>8, SendLostInv
  <1>9. CASE Poll \/ PollFails
    BY <1>9, PollsInv
  <1>10. CASE ArrayDone
    BY <1>10, ArrayInv
  <1>11. CASE UNCHANGED spiVars
    BY <1>11 DEF spiVars, caller, flashchip, CallInv, CallTypes, OnTheWay, Walk, StageOK,
         Confined, ChipReady,
      DoneSoFar, Reads, Writes, Erases, AaiCall, Told, Main, Legal, Up, Sending, Behind, Reached,
           NewValue,
      Soon, Wanted, End, Cells
  <1> QED BY <1>2, <1>3, <1>4, <1>5, <1>6, <1>7, <1>8, <1>9, <1>10, <1>11 DEF SpiNext, SpiStep

(* The invariant holds for any sizes, calls, controllers and contents.      *)
THEOREM CallInvariance == SpiSpec => []CallInv
  BY CallInit, CallNext, PTL DEF SpiSpec

(* The invariant is strong enough.                                          *)
LEMMA InvObeyed == CallInv => Obeyed
  <1> SUFFICES ASSUME CallInv PROVE Obeyed
    OBVIOUS
  <1>1. CommandsTaken
    BY TakesWell DEF CommandsTaken, Told
  <1>t. /\ job.start \in Nat /\ End \in Nat /\ job.start < End /\ Cells \subseteq Addr
    BY TypesAre
  <1>2. ReadResult
    <2> SUFFICES ASSUME ret = "0", Reads, NEW a \in Cells PROVE buf[a] = mem[a]
      BY DEF ReadResult, Reads
    <2>1. at = "returned" /\ pos = End
      BY DEF CallInv, Walk
    <2>2. a \in Behind
      BY <1>t, <2>1 DEF Behind, Reached, Cells
    <2> QED BY <2>2 DEF CallInv, DoneSoFar
  <1>3. LeavesIdle
    <2> SUFFICES ASSUME ret = "0", Told
                 PROVE  /\ wip = Idle /\ aai = None
                        /\ job.function \notin {"spi_chip_read", "spi_block_erase_50"} => ~welatch
      BY DEF LeavesIdle, Told
    <2>1. pos = End /\ stage # "cont"
      BY DEF CallInv, Walk
    <2> QED BY <1>t, <2>1 DEF CallInv, ChipReady
  <1> QED BY <1>1, <1>2, <1>3 DEF Obeyed

(* For any chip, call and controller, however many commands fail: unless a  *)
(* failure has gone unseen, no command finds the chip busy, not enabled or  *)
(* in AAI mode; a read that returns 0 has read every byte; and a call that  *)
(* returns 0 leaves the chip as the next call expects it.                   *)
THEOREM CallObeyed == SpiSpec => []Obeyed
  BY InvObeyed, CallInvariance, PTL

-----------------------------------------------------------------------------
(* The refinement of ChipCall *)

(* A call reads, writes or erases.                                          *)
LEMMA CallKind ==
  ASSUME CallInv
  PROVE  /\ Reads <=> ~Writes /\ ~Erases
         /\ ~(Writes /\ Erases)
  BY TypesAre DEF Reads, Writes, Erases, Functions

(* A call starts as an abstract one.                                        *)
LEMMA ChipCallInit == SpiInit => Call!Init
  <1> SUFFICES ASSUME SpiInit PROVE Call!Init
    OBVIOUS
  <1>1. CallInv
    BY CallInit
  <1>2. Cells \in SUBSET Addr /\ job.data \in [Addr -> Val] /\ mem \in [Addr -> Val]
    BY <1>1, TypesAre
  <1>3. ret = "none" /\ misled = FALSE /\ unchecked = FALSE
    BY DEF SpiInit
  <1> QED BY <1>2, <1>3 DEF Call!Init

(* What the abstract call lets a byte become is what the invariant says.    *)
LEMMA BecomesIs ==
  ASSUME CallInv, NEW a \in Addr
  PROVE  Call!Becomes(a) = IF Reads THEN mem[a] ELSE NewValue(a)
  <1>1. CASE Reads
    BY <1>1 DEF Call!Becomes, Reads
  <1>2. CASE Writes
    BY <1>2 DEF Call!Becomes, NewValue, Writes, Reads
  <1>3. CASE Erases
    BY <1>3 DEF Call!Becomes, NewValue, Erases, Writes, Reads
  <1> QED BY <1>1, <1>2, <1>3, CallKind

(* Every step is one of the abstract call, or none.                         *)
LEMMA ChipCallStep ==
  ASSUME CallInv, [SpiNext]_spiVars
  PROVE  [Call!Next]_(Call!vars)
  <1>i. CallInv'
    BY CallNext
  <1>b. misled \in BOOLEAN /\ unchecked \in BOOLEAN /\ misled' \in BOOLEAN /\ unchecked' \in BOOLEAN
        /\ ret \in {"none", "0", "error"} /\ mem' \in [Addr -> Val]
    BY <1>i DEF CallInv, CallTypes
  <1>1. ASSUME UNCHANGED <<job, mem, ret, misled, unchecked>> PROVE UNCHANGED Call!vars
    BY <1>1 DEF Call!vars, Cells, End
  <1>2. ASSUME UNCHANGED <<job, mem, ret>>, ~Told' PROVE Call!Next
    BY <1>2 DEF Call!Next, Call!Hide, Cells, End, Told
  <1>3. ASSUME UNCHANGED <<job, mem, misled, unchecked>>, ret = "none", ret' = "error"
        PROVE  Call!Next
    BY <1>3 DEF Call!Next, Call!Fail, Cells, End
  <1>4. ASSUME UNCHANGED <<job, mem, misled, unchecked>>, ret = "none", ret' = "0"
        PROVE  Call!Next
    <2>1. job' = job /\ mem' = mem /\ Told' = Told /\ Reads' = Reads /\ Cells' = Cells
          /\ (\A a : NewValue(a)' = NewValue(a))
      BY <1>4 DEF Told, Reads, Cells, End, NewValue, Writes
    <2>2. ASSUME Told, NEW a \in Cells PROVE mem[a] = Call!Becomes(a)
      <3>1. a \in Addr
        BY TypesAre
      <3>2. CASE Reads
        BY <3>1, <3>2, BecomesIs
      <3>3. CASE ~Reads
        <4>1. wip' = Idle /\ pos' = End' /\ at' = "returned"
          BY <1>4, <1>i, <2>1, <2>2 DEF CallInv, ChipReady, Walk
        <4>2. a \in Behind'
          <5>1. job.start \in Nat /\ End \in Nat /\ End' = End
            BY <1>4, TypesAre DEF End
          <5> QED BY <1>4, <3>1, <4>1, <5>1 DEF Behind, Reached, Cells
        <4>3. Wanted(a, Soon(a))'
          BY <1>4, <1>i, <2>1, <2>2, <3>3, <4>2 DEF CallInv, DoneSoFar
        <4>4. Soon(a)' = mem[a]
          BY <1>4, <4>1 DEF Soon, Idle
        <4>5. mem[a] = NewValue(a)
          BY <1>4, <4>3, <4>4 DEF Wanted, NewValue, Writes
        <4> QED BY <3>1, <3>3, <4>5, BecomesIs
      <3> QED BY <3>2, <3>3
    <2> QED BY <1>4, <2>2 DEF Call!Next, Call!Succeed, Cells, End, Told
  <1>5. CASE ArrayDone
    <2>1. /\ wip # Idle /\ mem' = [a \in Addr |-> IF a \in DOMAIN wip THEN wip[a] ELSE mem[a]]
          /\ UNCHANGED <<job, ret, misled, unchecked>>
      BY <1>5 DEF ArrayDone, caller
    <2>2. ~Reads /\ DOMAIN wip \subseteq Cells
      BY <2>1 DEF CallInv, Confined
    <2>3. ret = "0" => ~Told
      BY <2>1 DEF CallInv, ChipReady
    <2>4. ASSUME NEW a \in Addr, mem'[a] # mem[a]
          PROVE  a \in Cells /\ (Told => mem'[a] = Call!Becomes(a))
      <3>1. a \in DOMAIN wip /\ mem'[a] = wip[a]
        BY <2>1, <2>4
      <3>2. Told => mem'[a] = NewValue(a)
        BY <3>1 DEF CallInv, DoneSoFar
      <3> QED BY <2>2, <3>1, <3>2, BecomesIs
    <2> QED BY <1>b, <2>1, <2>3, <2>4 DEF Call!Next, Call!Change, Cells, End, Told
  <1>6. CASE SpiBlockErase \/ SpiReadChunked \/ SpiWriteChunked \/ SpiChipWrite1 \/ AaiOddStart
             \/ AaiStart \/ AaiCont \/ AaiExit \/ Poll
    <2>1. UNCHANGED <<job, mem, ret, misled, unchecked>>
      BY <1>6 DEF SpiBlockErase, SpiReadChunked, SpiWriteChunked, SpiChipWrite1, AaiOddStart,
           AaiStart,
                  AaiCont, AaiExit, Poll, Multicommand, Rest, flashchip
    <2> QED BY <1>1, <2>1
  <1>7. CASE SpiChipErase \/ Done \/ ChunkUnspecified
    <2>1. /\ UNCHANGED <<job, mem, misled, unchecked>> /\ at = "loop"
          /\ ret' = ret \/ ret' \in {"0", "error"}
      BY <1>7 DEF SpiChipErase, Done, ChunkUnspecified, AtLoop, Multicommand, Finish, Rest,
           flashchip
    <2>2. ret = "none"
      BY <2>1 DEF CallInv, Walk
    <2> QED BY <1>1, <1>3, <1>4, <2>1, <2>2
  <1>8. CASE SendOk
    <2>1. UNCHANGED <<job, mem, ret, misled, unchecked>>
      BY <1>8 DEF SendOk, GoOn, Deliver
    <2> QED BY <1>1, <2>1
  <1>9. CASE SendLost
    <2>1. /\ UNCHANGED <<job, mem, misled>> /\ at = "send"
          /\ \/ ret' = ret /\ unchecked' = TRUE
             \/ ret' = "error" /\ unchecked' = unchecked
      BY <1>9 DEF SendLost, GoOn, Finish, Deliver, flashchip
    <2>2. ret = "none"
      BY <2>1 DEF CallInv, Walk
    <2> QED BY <1>2, <1>3, <2>1, <2>2 DEF Told
  <1>10. CASE PollFails
    <2>1. UNCHANGED <<job, mem, ret>> /\ misled' = TRUE
      BY <1>10 DEF PollFails, flashchip
    <2> QED BY <1>2, <2>1 DEF Told
  <1>11. CASE UNCHANGED spiVars
    <2>1. UNCHANGED <<job, mem, ret, misled, unchecked>>
      BY <1>11 DEF spiVars, caller, flashchip
    <2> QED BY <1>1, <2>1
  <1> QED BY <1>5, <1>6, <1>7, <1>8, <1>9, <1>10, <1>11 DEF SpiNext, SpiStep

(* What the write engine relies on, for any chip, call and controller: the  *)
(* function changes nothing outside its range and in it only what it should,*)
(* and returns 0 only when the chip is done and every byte is right, unless *)
(* a failure has gone unseen.                                               *)
THEOREM CallRefines == SpiSpec => ImplementsCall
  BY ChipCallInit, ChipCallStep, CallInvariance, PTL DEF SpiSpec, ImplementsCall, Call!Spec

-----------------------------------------------------------------------------
(* StatusRegister *)

Pairs == {<<"WREN">>, <<"EWSR">>, <<"WREN", "EWSR">>}

(* The register is not being written, or has been read, where the function  *)
(* counts on it.                                                            *)
Settled ==
  /\ result # "none" => pc = "returned"
  /\ ~blind /\ pc \in {"read", "test", "unprotect", "verify"} => busy = {}
  /\ ~blind /\ pc \in {"test", "verify"} => status = reg
  /\ ~blind /\ result = "0" => busy = {} /\ reg \cap chip.bp = {}

(* A value the register may take.                                           *)
Cleared(r) == r \subseteq was /\ was \ r \subseteq chip.bp \cup chip.lock

(* What is written derives from what was first read.                        *)
Derived ==
  /\ pc \in {"test", "unprotect", "verify"} => after = pc
  /\ after = "test" => pc \in {"read", "test", "returned"}
  /\ pc = "read" => after # "unprotect"
  /\ ~blind /\ after = "test" => reg = was /\ busy = {}
  /\ ~blind /\ (after = "unprotect" \/ pc = "test") => status = was
  /\ ~blind /\ pc \in {"enable", "wrsr", "poll"} => Cleared(writing)

(* The count is within its limit as long as it is counted.                  *)
Polled == pc = "poll" => i <= MaxPolls

IInv == TypeOK /\ Settled /\ Derived /\ OnlyMasksCleared /\ Polled

-----------------------------------------------------------------------------

(* What is assumed of a kind of chip: types.                                *)
LEMMA ChipFields ==
  ASSUME NEW c \in Chips
  PROVE  /\ c.bp \subseteq Bits /\ c.lock \subseteq Bits /\ c.wp \subseteq Bits
         /\ c.writable \subseteq Bits /\ c.locker \subseteq Bits
         /\ c.features \in SUBSET {"WREN", "EWSR"}
  BY StatusRegisterAssumption DEF StatusRegisterAssumption, ChipType

(* What is assumed of the bounds.                                           *)
LEMMA Bounds == MaxPolls \in Nat /\ MaxFailures \in Nat
  BY StatusRegisterAssumption DEF StatusRegisterAssumption

(* The enable commands a chip of the table may need.                        *)
LEMMA OpcodesType ==
  ASSUME NEW f
  PROVE  Opcodes(f) \in Pairs
  BY DEF Opcodes, Pairs

(* The sequences of enable commands there are.                              *)
LEMMA PairLen ==
  /\ Len(<<"WREN">>) = 1 /\ Len(<<"EWSR">>) = 1 /\ Len(<<"WREN", "EWSR">>) = 2
  /\ Tail(<<"WREN", "EWSR">>) = <<"EWSR">>
  OBVIOUS

(* None of them is empty.                                                   *)
LEMMA PairType ==
  ASSUME NEW s \in Pairs
  PROVE  s # << >> /\ s \in {<< >>, <<"WREN">>, <<"EWSR">>, <<"WREN", "EWSR">>}
  BY DEF Pairs

(* What a failed attempt leaves to try.                                     *)
LEMMA FlagFailsType ==
  ASSUME opcodes \in Pairs, NEW r \in {"error", "TIMEOUT_ERROR"}, FlagFails(r),
         result = "none"
  PROVE  /\ opcodes' \in Pairs
         /\ \/ pc' = "enable" /\ result' = "none"
            \/ pc' = "returned" /\ result' = r
  <1>1. \/ Len(opcodes) > 1 /\ opcodes' = Tail(opcodes) /\ pc' = "enable" /\ result' = result
        \/ pc' = "returned" /\ result' = r /\ opcodes' = opcodes
    BY DEF FlagFails
  <1>2. CASE opcodes = <<"WREN", "EWSR">>
    BY <1>1, <1>2, PairLen DEF Pairs
  <1>3. CASE opcodes \in {<<"WREN">>, <<"EWSR">>}
    <2>1. Len(opcodes) = 1
      BY <1>3, PairLen
    <2> QED BY <1>1, <2>1
  <1> QED BY <1>2, <1>3 DEF Pairs

(* Reading the register keeps the types of what it counts.                  *)
LEMMA RdsrType ==
  ASSUME failures \in 0 .. MaxFailures, blind \in BOOLEAN, NEW seen \in BOOLEAN, Rdsr(seen)
  PROVE  failures' \in 0 .. MaxFailures /\ blind' \in BOOLEAN
  <1>1. \/ failures' = failures /\ blind' = blind
        \/ failures < MaxFailures /\ failures' = failures + 1 /\ blind' = TRUE
    BY DEF Rdsr
  <1>2. failures' \in 0 .. MaxFailures
    BY <1>1, Bounds
  <1> QED BY <1>1, <1>2

(* What a WRSR makes of the register.                                       *)
LEMMA WrsrCleared ==
  ASSUME Cleared(reg), Cleared(writing)
  PROVE  Cleared((writing \cap Open) \cup (reg \ Open))
  BY DEF Cleared

(* The bits a WRSR changes can be written.                                  *)
LEMMA OpenBits ==
  ASSUME chip \in Chips
  PROVE  Open \subseteq Bits
  BY ChipFields DEF Open
-----------------------------------------------------------------------------

(* The function starts within the invariant.                                *)
LEMMA InitInv == Init => IInv
  <1> SUFFICES ASSUME Init PROVE IInv
    OBVIOUS
  <1>1. reg \subseteq Bits
    BY ChipFields DEF Init
  <1>2. TypeOK
    <2>1. i \in 0 .. MaxPolls + 1 /\ failures \in 0 .. MaxFailures
      <3>1. i = 0 /\ failures = 0 BY DEF Init
      <3> QED BY <3>1, Bounds
    <2> QED BY <1>1, <2>1 DEF Init, TypeOK
  <1>3. Settled /\ Derived /\ OnlyMasksCleared /\ Polled
    BY DEF Init, Settled, Derived, OnlyMasksCleared, Polled
  <1> QED BY <1>2, <1>3 DEF IInv

(* The steps that send a command: what the chip may get, and where the      *)
(* function goes on.                                                        *)
LEMMA DeviceInv ==
  ASSUME IInv, pc \in {"enable", "wrsr"},
         \/ UNCHANGED device
         \/ Enabled(Head(opcodes))
         \/ pc = "wrsr" /\ Wrsr,
         UNCHANGED <<was, blind, writing>>
  PROVE  /\ chip' = chip /\ reg' = reg /\ protected' = protected
         /\ wel' \in BOOLEAN /\ busy' \subseteq SUBSET Bits
         /\ OnlyMasksCleared'
  <1>1. CASE UNCHANGED device
    BY <1>1 DEF device, IInv, TypeOK, OnlyMasksCleared
  <1>2. CASE Enabled(Head(opcodes))
    BY <1>2 DEF Enabled, IInv, TypeOK, OnlyMasksCleared
  <1>3. CASE pc = "wrsr" /\ Wrsr
    <2>1. (writing \cap Open) \cup (reg \ Open) \subseteq Bits
      BY OpenBits DEF IInv, TypeOK
    <2>2. ~blind => Cleared((writing \cap Open) \cup (reg \ Open))
      <3> SUFFICES ASSUME ~blind PROVE Cleared((writing \cap Open) \cup (reg \ Open))
        OBVIOUS
      <3>1. Cleared(reg) BY DEF IInv, OnlyMasksCleared, Cleared
      <3>2. Cleared(writing) BY <1>3 DEF IInv, Derived
      <3> QED BY <3>1, <3>2, WrsrCleared
    <2>3. busy' \subseteq busy \cup {(writing \cap Open) \cup (reg \ Open)}
      BY <1>3 DEF Wrsr
    <2>4. chip' = chip /\ reg' = reg /\ protected' = protected /\ wel' = wel
      BY <1>3 DEF Wrsr
    <2>5. OnlyMasksCleared'
      BY <2>2, <2>3, <2>4 DEF OnlyMasksCleared, Cleared, IInv
    <2> QED BY <2>1, <2>3, <2>4, <2>5 DEF IInv, TypeOK
  <1> QED BY <1>1, <1>2, <1>3

(* Every step keeps the invariant.                                          *)
LEMMA NextInv == IInv /\ [Next]_vars => IInv'
  <1> SUFFICES ASSUME IInv, [Next]_vars PROVE IInv'
    OBVIOUS
  <1>c. chip \in Chips /\ chip.bp \subseteq Bits /\ chip.lock \subseteq Bits
        /\ chip.features \in SUBSET {"WREN", "EWSR"}
    BY ChipFields DEF IInv, TypeOK
  <1>o. pc \in {"enable", "wrsr", "poll"} => opcodes \in Pairs /\ result = "none"
    BY DEF IInv, TypeOK, Settled, Pairs
  <1>p. Polled'
    <2>1. CASE SendWrsr
      BY <2>1, Bounds DEF SendWrsr, Polled
    <2>2. CASE PollWip
      BY <2>2 DEF PollWip, FlagFails, Polled
    <2>3. CASE pc' = pc /\ i' = i
      BY <2>3 DEF IInv, Polled
    <2>4. CASE SendFails
      BY <2>4 DEF SendFails, FlagFails, Polled
    <2>5. CASE ReadStatus
      BY <2>5 DEF ReadStatus, IInv, TypeOK, Polled
    <2>6. CASE \/ SendEnable \/ PollReady \/ NotProtected \/ BailOut
               \/ UnlockRegister \/ GlobalUnprotect \/ Verify
      BY <2>6 DEF SendEnable, PollReady, NotProtected, BailOut, UnlockRegister, GlobalUnprotect,
                  Verify, Return, WriteStatusRegister, Polled
    <2>7. CASE ChipFinishes \/ UNCHANGED vars
      BY <2>3, <2>7 DEF ChipFinishes, vars, host
    <2> QED BY <2>1, <2>2, <2>4, <2>5, <2>6, <2>7 DEF Next, Step
  <1>1. CASE SendEnable
    <2>1. /\ chip' = chip /\ reg' = reg /\ protected' = protected
          /\ wel' \in BOOLEAN /\ busy' \subseteq SUBSET Bits /\ OnlyMasksCleared'
      BY <1>1, DeviceInv DEF SendEnable
    <2> QED BY <1>p, <1>1, <1>o, <2>1 DEF SendEnable, IInv, TypeOK, Settled, Derived, Cleared,
         Enabled, Pairs
  <1>2. CASE SendWrsr
    <2>1. /\ chip' = chip /\ reg' = reg /\ protected' = protected
          /\ wel' \in BOOLEAN /\ busy' \subseteq SUBSET Bits /\ OnlyMasksCleared'
      BY <1>2, DeviceInv DEF SendWrsr
    <2>2. TypeOK'
      BY <1>2, <1>o, <2>1, Bounds
      DEF SendWrsr, IInv, TypeOK, Pairs
    <2> QED BY <1>p, <1>2, <1>o, <2>1, <2>2 DEF SendWrsr, IInv, Settled, Derived, Cleared
  <1>3. CASE SendFails
    <2>1. /\ chip' = chip /\ reg' = reg /\ protected' = protected
          /\ wel' \in BOOLEAN /\ busy' \subseteq SUBSET Bits /\ OnlyMasksCleared'
      BY <1>3, DeviceInv DEF SendFails
    <2>2. /\ opcodes' \in Pairs
          /\ \/ pc' = "enable" /\ result' = "none"
             \/ pc' = "returned" /\ result' = "error"
      BY <1>3, <1>o, FlagFailsType DEF SendFails
    <2>3. TypeOK'
      BY <1>3, <2>1, <2>2, Bounds
      DEF SendFails, IInv, TypeOK, Pairs
    <2> QED BY <1>p, <1>3, <2>1, <2>2, <2>3 DEF SendFails, IInv, Settled, Derived, Cleared
  <1>4. CASE PollWip
    <2>1. UNCHANGED device /\ UNCHANGED <<status, writing, after, was>> /\ (~blind' => ~blind)
      BY <1>4 DEF PollWip, Rdsr
    <2>2. /\ opcodes' \in Pairs
          /\ \/ pc' = "enable" /\ result' = "none"
             \/ pc' = "returned" /\ result' = "TIMEOUT_ERROR"
             \/ pc' = "poll" /\ result' = "none"
      BY <1>4, <1>o, FlagFailsType DEF PollWip
    <2>3. i' \in 0 .. MaxPolls + 1
      <3>1. CASE i' <= MaxPolls
        BY <1>4, <3>1, Bounds DEF PollWip, IInv, TypeOK
      <3>2. CASE i' > MaxPolls
        <4>1. i' = i + 1 /\ i \in 0 .. MaxPolls + 1
          BY <1>4 DEF PollWip, IInv, TypeOK
        <4>2. i <= MaxPolls
          BY <1>o, <1>4 DEF PollWip, IInv, Polled
        <4> QED BY <4>1, <4>2, Bounds
      <3> QED BY <1>4, <3>1, <3>2 DEF PollWip
    <2>4. failures' \in 0 .. MaxFailures /\ blind' \in BOOLEAN
      BY <1>4, RdsrType DEF PollWip, IInv, TypeOK
    <2>5. TypeOK'
      BY <2>1, <2>2, <2>3, <2>4, PairType DEF device, IInv, TypeOK
    <2> QED BY <1>p, <1>4, <2>1, <2>2, <2>5
      DEF PollWip, device, IInv, Settled, Derived, Cleared, OnlyMasksCleared
  <1>5. CASE PollReady
    <2>1. UNCHANGED device /\ UNCHANGED <<status, writing, opcodes, i, after, result, was>>
      BY <1>5 DEF PollReady
    <2>2. failures' \in 0 .. MaxFailures /\ blind' \in BOOLEAN
      BY <1>5, RdsrType DEF PollReady, IInv, TypeOK
    <2>3. /\ pc = "poll" /\ pc' \in {"unprotect", "read"}
          /\ pc' = "unprotect" <=> after = "unprotect"
      BY <1>5 DEF PollReady
    <2>4. ~blind' => ~blind /\ busy = {}
      BY <1>5 DEF PollReady, Rdsr
    <2>5. TypeOK'
      BY <2>1, <2>2, <2>3 DEF device, IInv, TypeOK
    <2> QED BY <1>p, <1>o, <2>1, <2>3, <2>4, <2>5
      DEF device, IInv, Settled, Derived, Cleared, OnlyMasksCleared
  <1>6. CASE ReadStatus
    <2>1. UNCHANGED device /\ UNCHANGED <<writing, opcodes, i, after, result, was>>
      BY <1>6 DEF ReadStatus
    <2>2. failures' \in 0 .. MaxFailures /\ blind' \in BOOLEAN /\ status' \subseteq Bits
      <3>1. \/ status' = reg /\ failures' = failures /\ blind' = blind
            \/ /\ failures < MaxFailures /\ failures' = failures + 1
               /\ blind' = TRUE /\ status' \subseteq Bits
        BY <1>6 DEF ReadStatus
      <3>2. failures \in 0 .. MaxFailures /\ blind \in BOOLEAN /\ reg \subseteq Bits
        BY DEF IInv, TypeOK
      <3>3. failures' \in 0 .. MaxFailures
        BY <3>1, <3>2, Bounds
      <3> QED BY <3>1, <3>2, <3>3
    <2>3. pc = "read" /\ pc' = after /\ (~blind' => ~blind /\ status' = reg)
      BY <1>6 DEF ReadStatus
    <2>4. TypeOK'
      BY <2>1, <2>2, <2>3 DEF device, IInv, TypeOK
    <2> QED BY <1>p, <2>1, <2>3, <2>4
      DEF device, IInv, TypeOK, Settled, Derived, Cleared, OnlyMasksCleared
  <1>7. CASE NotProtected \/ BailOut \/ Verify
    <2>1. /\ UNCHANGED device
          /\ UNCHANGED <<writing, opcodes, i, after, status, failures, was, blind>>
          /\ pc \in {"test", "verify"} /\ pc' = "returned" /\ result' \in {"0", "error"}
          /\ result' = "0" => status \cap chip.bp = {}
      BY <1>7 DEF NotProtected, BailOut, Verify, Return, Protection
    <2>2. TypeOK'
      BY <2>1 DEF device, IInv, TypeOK
    <2> QED BY <1>p, <2>1, <2>2 DEF device, IInv, Settled, Derived, Cleared, OnlyMasksCleared
  <1>8. CASE UnlockRegister \/ GlobalUnprotect
    <2>1. /\ UNCHANGED device
          /\ UNCHANGED <<i, result, status, failures, was, blind>>
          /\ pc \in {"test", "unprotect"} /\ pc' = "enable" /\ after' \in {"unprotect", "verify"}
          /\ opcodes' = Opcodes(chip.features)
          /\ writing' \in {status \ chip.lock, status \ (chip.bp \cup chip.lock)}
      BY <1>8 DEF UnlockRegister, GlobalUnprotect, WriteStatusRegister
    <2>2. opcodes' \in Pairs
      BY <1>c, <2>1, OpcodesType
    <2>3. TypeOK'
      <3>1. writing' \subseteq Bits
        BY <2>1 DEF IInv, TypeOK
      <3> QED BY <2>1, <2>2, <3>1, PairType DEF device, IInv, TypeOK
    <2>4. ~blind => status = was
      BY <2>1 DEF IInv, Derived
    <2>5. ~blind => Cleared(writing)'
      BY <2>1, <2>4 DEF device, Cleared
    <2> QED BY <1>p, <2>1, <2>3, <2>4, <2>5 DEF device, IInv, Settled, Derived, OnlyMasksCleared
  <1>9. CASE ChipFinishes
    <2>1. /\ reg' \in busy /\ busy' = {} /\ wel' = FALSE
          /\ UNCHANGED <<chip, protected, host, failures, was, blind>>
      BY <1>9 DEF ChipFinishes
    <2>2. reg' \subseteq Bits
      BY <2>1 DEF IInv, TypeOK
    <2>3. TypeOK'
      <3>1. TypeOK
        BY DEF IInv
      <3>2. wel' \in BOOLEAN /\ busy' \subseteq SUBSET Bits
        BY ONLY <2>1
      <3>3. /\ UNCHANGED <<chip, protected, failures, was, blind>>
            /\ UNCHANGED <<status, writing, opcodes, i, after, pc, result>>
        BY ONLY <2>1 DEF host
      <3> QED BY ONLY <2>2, <3>1, <3>2, <3>3 DEF TypeOK
    <2>4. OnlyMasksCleared'
      <3>1. /\ {reg'} \cup busy' \subseteq {reg} \cup busy
            /\ chip' = chip /\ was' = was /\ blind' = blind
        BY ONLY <2>1
      <3>2. OnlyMasksCleared
        BY DEF IInv
      <3> QED BY ONLY <3>1, <3>2 DEF OnlyMasksCleared
    <2>5. ~blind => pc \notin {"read", "test", "unprotect", "verify"} /\ result # "0"
      BY <2>1 DEF IInv, Settled
    <2>6. ~blind => after # "test"
      BY <2>1, <2>5 DEF IInv, Derived, Settled
    <2>7. Settled'
      BY <2>1, <2>5 DEF host, IInv, Settled
    <2>8. Derived'
      BY <2>1, <2>5, <2>6 DEF host, IInv, Derived, Cleared
    <2> QED BY <1>p, <2>3, <2>4, <2>7, <2>8 DEF IInv
  <1>10. CASE UNCHANGED vars
    BY <1>10, <1>p DEF vars, host, device, IInv, TypeOK, Settled, Derived, Cleared, OnlyMasksCleared
  <1> QED
    BY <1>1, <1>2, <1>3, <1>4, <1>5, <1>6, <1>7, <1>8, <1>9, <1>10 DEF Next, Step
-----------------------------------------------------------------------------

(* The invariant holds for any masks, chips and bounds.                     *)
THEOREM Invariance == Spec => []IInv
  BY InitInv, NextInv, PTL DEF Spec

(* Every variable has its type, and no attempt is polled more than          *)
(* MaxPolls + 1 times.                                                      *)
THEOREM Typing == Spec => []TypeOK
  <1>1. IInv => TypeOK BY DEF IInv
  <1> QED BY <1>1, Invariance, PTL

(* When spi_disable_blockprotect_generic() returns 0 and RDSR never failed, *)
(* the chip is unprotected.                                                 *)
THEOREM Unprotected == Spec => []UnprotectedIfZero
  <1>1. IInv => UnprotectedIfZero BY DEF IInv, Settled, UnprotectedIfZero
  <1> QED BY <1>1, Invariance, PTL

(* Retries, time-outs and late chips never cost the register a bit that no  *)
(* mask names, and never set one.                                           *)
THEOREM MasksOnly == Spec => []OnlyMasksCleared
  <1>1. IInv => OnlyMasksCleared BY DEF IInv
  <1> QED BY <1>1, Invariance, PTL

(* The invariant is what the run checks of the protection.                  *)
LEMMA InvProtectionGone == IInv => OnlyProtectionGone
  BY DEF IInv, Settled, UnprotectedIfZero, OnlyProtectionGone

(* For all masks, enable commands and chips: what is reported unprotected   *)
(* is, and nothing but protection is lost.                                  *)
THEOREM ProtectionGone == Spec => []OnlyProtectionGone
  BY InvProtectionGone, Invariance, PTL

-----------------------------------------------------------------------------
(* Without failures, a chip that can be unprotected is.                     *)

(* The chip can be unprotected: its pin does not hold it locked.            *)
Unlockable == DescribedRight /\ (~protected \/ was \cap chip.locker = {})

(* The register before a write, where the write is to take effect.          *)
Base == IF after = "unprotect" THEN was ELSE was \ chip.lock

(* What the register shows of the pin.                                      *)
PinKnown == chip.wp \subseteq IF protected THEN Bits \ was ELSE was

(* The chip has the enable commands that are left to try.                   *)
CommandsAccepted ==
  pc \in {"enable", "wrsr", "poll"} =>
    \A n \in DOMAIN opcodes : opcodes[n] \in chip.accepts

(* A write that was sent is done, is under way, or is yet to be sent.       *)
Writing ==
  pc \in {"enable", "wrsr", "poll"} =>
    /\ writing = IF after = "unprotect" THEN was \ chip.lock ELSE was \ (chip.bp \cup chip.lock)
    /\ reg \in {Base, writing} /\ busy \subseteq {writing}
    /\ pc = "wrsr" /\ ~wel /\ busy = {} => reg = writing
    /\ pc = "poll" /\ busy = {} => reg = writing

(* Without failures every write takes effect.                               *)
EffectInv ==
  /\ result # "error" /\ (pc = "returned" => result # "none")
  /\ after = "unprotect" => ~protected
  /\ Writing
  /\ pc = "unprotect" => reg = was \ chip.lock
  /\ pc \in {"read", "verify"} /\ after = "verify" => reg = was \ (chip.bp \cup chip.lock)

UnlockInv ==
  /\ PinKnown /\ CommandsAccepted
  /\ blind => failures # 0
  /\ failures = 0 /\ Unlockable => EffectInv

(* What is assumed of a kind of chip: masks and enable commands.            *)
LEMMA ChipKind ==
  ASSUME NEW c \in Chips
  PROVE  /\ c.bp \subseteq c.writable /\ c.lock \subseteq c.writable
         /\ c.locker \subseteq c.writable
         /\ c.bp \cap c.locker = {} /\ c.lock \subseteq c.locker /\ c.wp \subseteq Bits
         /\ IF c.features = {} THEN "EWSR" \in c.accepts ELSE c.features \subseteq c.accepts
         /\ c.features \in SUBSET {"WREN", "EWSR"}
  BY StatusRegisterAssumption DEF StatusRegisterAssumption, ChipType

(* The enable commands that are tried are commands of the chip.             *)
LEMMA OpcodesAccepted ==
  ASSUME NEW c \in Chips
  PROVE  \A n \in DOMAIN Opcodes(c.features) : Opcodes(c.features)[n] \in c.accepts
  <1>1. /\ IF c.features = {} THEN "EWSR" \in c.accepts ELSE c.features \subseteq c.accepts
        /\ c.features \in SUBSET {"WREN", "EWSR"}
    BY ChipKind
  <1>2. CASE "WREN" \notin c.features
    <2>1. Opcodes(c.features) = <<"EWSR">> /\ "EWSR" \in c.accepts
      BY <1>1, <1>2 DEF Opcodes
    <2> QED BY <2>1
  <1>3. CASE "WREN" \in c.features /\ "EWSR" \notin c.features
    <2>1. Opcodes(c.features) = <<"WREN">> /\ "WREN" \in c.accepts
      BY <1>1, <1>3 DEF Opcodes
    <2> QED BY <2>1
  <1>4. CASE "WREN" \in c.features /\ "EWSR" \in c.features
    <2>1. Opcodes(c.features) = <<"WREN", "EWSR">> /\ "WREN" \in c.accepts /\ "EWSR" \in c.accepts
      BY <1>1, <1>4 DEF Opcodes
    <2> QED BY <2>1
  <1> QED BY <1>2, <1>3, <1>4

(* What a WRSR makes of the register is what it writes.                     *)
LEMMA WrsrTakes ==
  ASSUME IInv, Unlockable, EffectInv, pc = "wrsr"
  PROVE  (writing \cap Open) \cup (reg \ Open) = writing
  <1>1. /\ writing = IF after = "unprotect" THEN was \ chip.lock ELSE was \ (chip.bp \cup chip.lock)
        /\ reg \in {Base, writing}
    BY DEF EffectInv, Writing
  <1>c. /\ chip.bp \subseteq chip.writable /\ chip.lock \subseteq chip.writable
        /\ chip.lock \subseteq chip.locker
        /\ chip.locks_softly => chip.locker \subseteq chip.lock
    BY ChipKind DEF IInv, TypeOK, Unlockable, DescribedRight
  <1>2. CASE reg = writing
    BY <1>2
  <1>3. CASE reg = Base /\ after = "unprotect"
    <2>1. ~protected /\ writing = was \ chip.lock /\ reg = was
      BY <1>1, <1>3 DEF EffectInv, Base
    <2>2. CASE reg \cap chip.locker = {} \/ ~chip.locks_softly
      <3>1. Open = chip.writable
        BY <2>1, <2>2 DEF Open
      <3> QED BY <1>c, <2>1, <3>1
    <2>3. CASE reg \cap chip.locker # {} /\ chip.locks_softly
      <3>1. Open = chip.locker /\ chip.locker = chip.lock
        BY <1>c, <2>1, <2>3 DEF Open
      <3> QED BY <2>1, <3>1
    <2> QED BY <2>2, <2>3
  <1>4. CASE reg = Base /\ after # "unprotect"
    <2>1. writing = was \ (chip.bp \cup chip.lock) /\ reg = was \ chip.lock
      BY <1>1, <1>4 DEF Base
    <2>2. Open = chip.writable
      <3>1. CASE protected
        <4>1. reg \cap chip.locker = {}
          BY <2>1, <3>1 DEF Unlockable
        <4> QED BY <4>1 DEF Open
      <3>2. CASE ~protected /\ chip.locks_softly
        <4>1. reg \cap chip.locker = {}
          BY <1>c, <2>1, <3>2
        <4> QED BY <4>1 DEF Open
      <3>3. CASE ~protected /\ ~chip.locks_softly
        BY <3>3 DEF Open
      <3> QED BY <3>1, <3>2, <3>3
    <2> QED BY <1>c, <2>1, <2>2
  <1> QED BY <1>1, <1>2, <1>3, <1>4

(* The function starts within the stronger invariant.                       *)
LEMMA UnlockInit == Init => UnlockInv
  BY DEF Init, UnlockInv, PinKnown, CommandsAccepted, EffectInv, Writing

(* Every step keeps the stronger invariant.                                 *)
LEMMA UnlockNext ==
  ASSUME IInv, UnlockInv, [Next]_vars
  PROVE  UnlockInv'
  <1>c. chip \in Chips
    BY DEF IInv, TypeOK
  <1>f. failures \in Nat
    <2>1. failures \in 0 .. MaxFailures
      BY DEF IInv, TypeOK
    <2> QED BY <2>1, Bounds
  <1>k. UNCHANGED <<chip, protected, was>>
    BY DEF Next, Step, SendEnable, SendWrsr, SendFails, PollWip, PollReady, ReadStatus,
         NotProtected, BailOut,
           UnlockRegister, GlobalUnprotect, Verify, ChipFinishes, Enabled, Wrsr, device, vars
  <1>p. PinKnown'
    BY <1>k DEF UnlockInv, PinKnown
  <1>u. Unlockable' = Unlockable
    BY <1>k DEF Unlockable, DescribedRight
  <1>o. CommandsAccepted'
    <2>1. CASE UnlockRegister \/ GlobalUnprotect
      <3>1. opcodes' = Opcodes(chip.features)
        BY <2>1 DEF UnlockRegister, GlobalUnprotect, WriteStatusRegister
      <3> QED BY <1>c, <1>k, <3>1, OpcodesAccepted DEF CommandsAccepted
    <2>2. CASE SendFails \/ PollWip
      <3>1. /\ pc \in {"enable", "wrsr", "poll"}
            /\ opcodes' = opcodes \/ (Len(opcodes) > 1 /\ opcodes' = Tail(opcodes))
        BY <2>2 DEF SendFails, PollWip, FlagFails
      <3>2. opcodes \in {<<"WREN">>, <<"EWSR">>, <<"WREN", "EWSR">>}
        BY <3>1 DEF IInv, TypeOK
      <3>3. CASE opcodes' = opcodes
        BY <1>k, <3>1, <3>3 DEF UnlockInv, CommandsAccepted
      <3>4. CASE Len(opcodes) > 1 /\ opcodes' = Tail(opcodes)
        <4>1. opcodes = <<"WREN", "EWSR">> /\ opcodes' = <<"EWSR">>
          <5>1. CASE opcodes = <<"WREN", "EWSR">>
            BY <3>4, <5>1, PairLen
          <5>2. CASE opcodes \in {<<"WREN">>, <<"EWSR">>}
            <6>1. Len(opcodes) = 1
              BY <5>2, PairLen
            <6> QED BY <3>4, <6>1
          <5> QED BY <3>2, <5>1, <5>2
        <4>2. "EWSR" \in chip.accepts
          <5>1. 2 \in DOMAIN opcodes /\ opcodes[2] = "EWSR"
            BY <4>1
          <5> QED BY <3>1, <5>1 DEF UnlockInv, CommandsAccepted
        <4> QED BY <1>k, <4>1, <4>2 DEF CommandsAccepted
      <3> QED BY <3>1, <3>3, <3>4
    <2>3. CASE SendEnable \/ SendWrsr
      BY <1>k, <2>3 DEF SendEnable, SendWrsr, UnlockInv, CommandsAccepted
    <2>4. CASE ReadStatus
      BY <2>4 DEF ReadStatus, IInv, TypeOK, CommandsAccepted
    <2>5. CASE PollReady \/ NotProtected \/ BailOut \/ Verify
      BY <2>5 DEF PollReady, NotProtected, BailOut, Verify, Return, CommandsAccepted
    <2>6. CASE ChipFinishes \/ UNCHANGED vars
      BY <1>k, <2>6 DEF ChipFinishes, vars, host, UnlockInv, CommandsAccepted
    <2> QED BY <2>1, <2>2, <2>3, <2>4, <2>5, <2>6 DEF Next, Step
  <1>b. blind' => failures' # 0
    <2>1. CASE PollWip \/ PollReady
      <3>1. \/ failures' = failures /\ blind' = blind
            \/ failures' = failures + 1
        BY <2>1 DEF PollWip, PollReady, Rdsr
      <3>2. failures' = failures + 1 => failures' # 0
        BY <1>f
      <3> QED BY <3>1, <3>2, Zenon DEF UnlockInv
    <2>2. CASE SendFails
      BY <1>f, <2>2 DEF SendFails
    <2>3. CASE ReadStatus
      <3>1. (failures' = failures /\ blind' = blind) \/ failures' = failures + 1
        BY <2>3 DEF ReadStatus
      <3>2. failures' = failures + 1 => failures' # 0
        BY <1>f
      <3> QED BY <3>1, <3>2, Zenon DEF UnlockInv
    <2>4. CASE UNCHANGED <<failures, blind>>
      BY <2>4 DEF UnlockInv
    <2> QED BY <2>1, <2>2, <2>3, <2>4
        DEF Next, Step, SendEnable, SendWrsr, NotProtected, BailOut, UnlockRegister,
            GlobalUnprotect, Verify,
            ChipFinishes, vars
  <1>e. ASSUME failures' = 0, Unlockable' PROVE EffectInv'
    <2>0. failures = 0 /\ ~SendFails /\ Unlockable
      BY <1>e, <1>f, <1>u DEF Next, Step, SendEnable, SendWrsr, SendFails, PollWip, PollReady,
           ReadStatus,
          NotProtected, BailOut, UnlockRegister, GlobalUnprotect, Verify, ChipFinishes, Rdsr, vars
    <2>1. EffectInv /\ ~blind
      BY <2>0 DEF UnlockInv
    <2>t. chip.lock \subseteq chip.locker /\ chip.wp \subseteq Bits
      BY <1>c, ChipKind
    <2>2. CASE SendEnable
      <3>1. Head(opcodes) \in chip.accepts
        <4>1. opcodes \in Pairs
          BY <2>2 DEF SendEnable, IInv, TypeOK, Pairs
        <4>2. 1 \in DOMAIN opcodes /\ Head(opcodes) = opcodes[1]
          BY <4>1 DEF Pairs
        <4> QED BY <2>2, <4>2 DEF SendEnable, UnlockInv, CommandsAccepted
      <3>2. wel' = (wel \/ busy = {}) /\ UNCHANGED <<reg, busy>>
        BY <2>2, <3>1 DEF SendEnable, Enabled
      <3> QED BY <1>k, <2>1, <2>2, <3>2 DEF SendEnable, EffectInv, Writing, Base
    <2>3. CASE SendWrsr
      <3>1. /\ busy' = IF busy = {} /\ wel THEN {writing} ELSE busy
            /\ UNCHANGED <<reg, wel>>
        <4>1. (writing \cap Open) \cup (reg \ Open) = writing
          BY <2>0, <2>1, <2>3, WrsrTakes DEF SendWrsr
        <4> QED BY <2>3, <4>1 DEF SendWrsr, Wrsr
      <3> QED BY <1>k, <2>1, <2>3, <3>1 DEF SendWrsr, EffectInv, Writing, Base
    <2>4. CASE PollWip
      <3>1. /\ UNCHANGED <<reg, wel, busy, writing, after>>
            /\ pc = "poll" /\ pc' \in {"poll", "enable", "returned"}
            /\ result' # "error" /\ (pc' = "returned" => result' # "none")
        BY <2>1, <2>4 DEF PollWip, FlagFails, device, EffectInv
      <3> QED BY <1>k, <2>1, <3>1 DEF EffectInv, Writing, Base
    <2>5. CASE PollReady
      <3>1. /\ pc = "poll" /\ busy = {} /\ UNCHANGED <<reg, wel, busy, writing, after, result>>
            /\ pc' = IF after = "unprotect" THEN "unprotect" ELSE "read"
        BY <1>e, <1>f, <2>0, <2>5 DEF PollReady, Rdsr, device
      <3> QED BY <1>k, <2>1, <3>1 DEF EffectInv, Writing
    <2>6. CASE ReadStatus
      <3>1. UNCHANGED <<reg, after, result>> /\ pc' = after /\ pc = "read"
        BY <2>6 DEF ReadStatus, device
      <3> QED BY <1>k, <2>1, <3>1 DEF EffectInv, Writing, IInv, TypeOK, Derived
    <2>7. CASE NotProtected
      BY <1>k, <2>1, <2>7 DEF NotProtected, Return, device, EffectInv, Writing
    <2>8. CASE BailOut
      <3>1. status = was
        BY <2>1, <2>8 DEF BailOut, IInv, Derived
      <3>2. was \cap chip.locker # {} /\ chip.wp # {} /\ was \cap chip.wp = {}
        BY <2>8, <2>t, <3>1 DEF BailOut, RegisterLocked, HardwareProtected
      <3>3. protected
        BY <3>2 DEF UnlockInv, PinKnown
      <3> QED BY <2>0, <3>2, <3>3 DEF Unlockable
    <2>9. CASE UnlockRegister
      <3>1. status = was /\ reg = was /\ busy = {}
        BY <2>1, <2>9 DEF UnlockRegister, IInv, Derived, Settled
      <3>2. /\ writing' = was \ chip.lock /\ after' = "unprotect" /\ pc' = "enable"
            /\ UNCHANGED <<reg, busy, result>> /\ was \cap chip.lock # {}
        BY <2>9, <3>1 DEF UnlockRegister, WriteStatusRegister, device, RegisterLocked
      <3>3. ~protected
        BY <2>0, <2>t, <3>2 DEF Unlockable
      <3> QED BY <1>k, <2>1, <3>1, <3>2, <3>3 DEF EffectInv, Writing, Base
    <2>10. CASE GlobalUnprotect
      <3>1. status = was /\ reg = was \ chip.lock /\ busy = {}
        <4>1. CASE pc = "test" /\ ~RegisterLocked
          <5>1. status = was /\ reg = was /\ busy = {}
            BY <2>1, <4>1 DEF IInv, Derived, Settled
          <5> QED BY <4>1, <5>1 DEF RegisterLocked
        <4>2. CASE pc = "unprotect"
          BY <2>1, <4>2 DEF IInv, Derived, Settled, EffectInv
        <4> QED BY <2>10, <4>1, <4>2 DEF GlobalUnprotect
      <3>2. /\ writing' = was \ (chip.bp \cup chip.lock) /\ after' = "verify" /\ pc' = "enable"
            /\ UNCHANGED <<reg, busy, result>>
        BY <2>10, <3>1 DEF GlobalUnprotect, WriteStatusRegister, device
      <3> QED BY <1>k, <2>1, <3>1, <3>2 DEF EffectInv, Writing, Base
    <2>11. CASE Verify
      <3>1. pc = "verify" /\ after = "verify" /\ status = reg
        BY <2>1, <2>11 DEF Verify, IInv, Derived, Settled
      <3>2. ~Protection
        BY <2>1, <3>1 DEF EffectInv, Protection
      <3> QED BY <1>k, <2>1, <2>11, <3>1, <3>2 DEF Verify, Return, device, EffectInv, Writing
    <2>12. CASE ChipFinishes
      <3>1. reg' \in busy /\ busy' = {} /\ UNCHANGED <<writing, after, pc, result>>
        BY <2>12 DEF ChipFinishes, host
      <3>2. pc \in {"enable", "wrsr", "poll", "returned"}
        BY <2>1, <3>1 DEF IInv, TypeOK, Settled
      <3> QED BY <1>k, <2>1, <3>1, <3>2 DEF EffectInv, Writing
    <2>13. CASE UNCHANGED vars
      BY <2>1, <2>13 DEF vars, host, device, EffectInv, Writing, Base
    <2> QED BY <2>0, <2>2, <2>3, <2>4, <2>5, <2>6, <2>7, <2>8, <2>9, <2>10, <2>11, <2>12,
         <2>13 DEF Next, Step
  <1> QED BY <1>p, <1>o, <1>b, <1>e DEF UnlockInv

(* Once the function has returned, the two invariants say why.              *)
LEMMA InvUnlocks == IInv /\ UnlockInv => Unlocks
  <1> SUFFICES ASSUME IInv, UnlockInv PROVE Unlocks
    OBVIOUS
  <1>1. result \in {"none", "0", "error", "TIMEOUT_ERROR"}
    BY DEF IInv, TypeOK
  <1> QED BY <1>1 DEF Unlocks, UnlockInv, Unlockable, EffectInv

(* A chip whose lock bits the table knows is unprotected if nothing fails,  *)
(* or not done in time, unless the pin protects its locked register.        *)
THEOREM Unlocked == Spec => []Unlocks
  <1>1. IInv /\ UnlockInv /\ [Next]_vars => UnlockInv'
    BY UnlockNext
  <1> QED BY <1>1, InvUnlocks, UnlockInit, Invariance, PTL DEF Spec

-----------------------------------------------------------------------------
(* The two composed *)

ChipsInv ==
  \/ work = "call" /\ CallInv /\ RegisterIdle
  \/ work = "unlock" /\ Spi25Idle /\ IInv /\ UnlockInv

(* What is idle promises everything.                                        *)
LEMMA IdleSafe ==
  /\ Spi25Idle => Obeyed
  /\ RegisterIdle => OnlyProtectionGone /\ Unlocks
  <1>1. Spi25Idle => Obeyed
    BY DEF Spi25Idle, Obeyed, CommandsTaken, ReadResult, LeavesIdle
  <1>2. RegisterIdle => OnlyProtectionGone /\ Unlocks
    BY DEF RegisterIdle, OnlyProtectionGone, UnprotectedIfZero, OnlyMasksCleared, Unlocks
  <1> QED BY <1>1, <1>2

(* A step of one part leaves the other idle.                                *)
LEMMA ChipsNextInv == ChipsInv /\ [ChipsNext]_chipsVars => ChipsInv'
  <1> SUFFICES ASSUME ChipsInv, [ChipsNext]_chipsVars PROVE ChipsInv'
    OBVIOUS
  <1>1. CASE work = "call"
    <2>1. CallInv /\ RegisterIdle
      BY <1>1 DEF ChipsInv
    <2>2. [SpiNext]_spiVars /\ UNCHANGED <<vars, work>>
      BY <1>1 DEF ChipsNext, InCall, InUnlock, chipsVars
    <2>3. CallInv'
      BY <2>1, <2>2, CallNext
    <2>4. RegisterIdle'
      BY <2>1, <2>2 DEF RegisterIdle, vars, device, host
    <2> QED BY <1>1, <2>2, <2>3, <2>4 DEF ChipsInv
  <1>2. CASE work = "unlock"
    <2>1. Spi25Idle /\ IInv /\ UnlockInv
      BY <1>2 DEF ChipsInv
    <2>2. [Next]_vars /\ UNCHANGED <<spiVars, work>>
      BY <1>2 DEF ChipsNext, InCall, InUnlock, chipsVars
    <2>3. IInv' /\ UnlockInv'
      BY <2>1, <2>2, NextInv, UnlockNext
    <2>4. Spi25Idle'
      BY <2>1, <2>2 DEF Spi25Idle, spiVars, caller, flashchip
    <2> QED BY <1>2, <2>2, <2>3, <2>4 DEF ChipsInv
  <1> QED BY <1>1, <1>2 DEF ChipsInv

(* What doit() asks of a SPI chip, a call or to give up its protection, is  *)
(* done as each of them promises.                                           *)
THEOREM ChipsSafe == ChipsSpec => [](Obeyed /\ OnlyProtectionGone /\ Unlocks)
  <1>1. ChipsInit => ChipsInv
    BY CallInit, InitInv, UnlockInit DEF ChipsInit, ChipsInv
  <1>2. ChipsInv => Obeyed /\ OnlyProtectionGone /\ Unlocks
    BY IdleSafe, InvObeyed, InvUnlocks, InvProtectionGone DEF ChipsInv
  <1> QED BY <1>1, <1>2, ChipsNextInv, PTL DEF ChipsSpec
=============================================================================
