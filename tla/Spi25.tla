-------------------------------- MODULE Spi25 --------------------------------
(***************************************************************************)
(* Reading, writing and erasing a JEDEC family 25 SPI chip (spi25.c, and   *)
(* the default controller functions of spi.c): a write enable, a program   *)
(* or erase command, and polling of the status register until the write in *)
(* progress is over; in chunks of what the controller and a page take, by  *)
(* the byte, or by auto address increment (AAI).                           *)
(*                                                                         *)
(* The chip is a device of its own: it takes a command only if it is not   *)
(* busy and has been write enabled, and it finishes in its own time. A     *)
(* byte is one bit wide: 1 is erased, programming clears.                  *)
(***************************************************************************)
EXTENDS Integers, Sequences, FiniteSetsExt

CONSTANTS
  Size,             (* of the chip                                          *)
  PageSize,         (* page_size; at most the 256 bytes spi_nbyte_program() *)
                    (* takes, for every chip of the table                   *)
  BlockSize,        (* what an erase command erases                         *)
  Jobs,             (* the calls                                            *)
  Programmers,      (* the controllers                                      *)
  Contents,         (* what the chip may hold                               *)
  MaxLost           (* bound: how many commands may fail                    *)

Addr == 0 .. Size - 1
Val == {0, 1}

Functions == {"spi_chip_read", "spi_chip_write_256", "spi_chip_write_1", "spi_aai_write",
              "spi_block_erase", "spi_block_erase_50", "spi_chip_erase"}

(* A call chip->function(flash, buf, start, len); data is buf by address.   *)
Job == [function : Functions, start : Addr, len : 1 .. Size, data : [Addr -> Val]]

(* struct spi_programmer: MAX_DATA_UNSPECIFIED is 0; aai is whether the     *)
(* controller can do AAI, which IT87 and WBSIO cannot.                      *)
Programmer == [max_data_read : Nat, max_data_write : Nat, aai : BOOLEAN]

(* The callers erase whole blocks and keep AAI writes to multiples of 256   *)
(* bytes; here, to two bytes at least, with an even end. A page of a chip   *)
(* with AAI has 256 bytes.                                                  *)
ASSUME Spi25Assumption ==
  /\ {Size, PageSize, BlockSize} \subseteq Nat \ {0}
  /\ Size % PageSize = 0 /\ Size % BlockSize = 0 /\ Size % 2 = 0
  /\ Jobs \subseteq Job
  /\ \A k \in Jobs :
       /\ k.start + k.len <= Size
       /\ k.function = "spi_aai_write" =>
            k.len >= 2 /\ (k.start + k.len) % 2 = 0 /\ PageSize % 2 = 0
       /\ k.function \in {"spi_block_erase", "spi_block_erase_50"} =>
            k.len = BlockSize /\ k.start % BlockSize = 0
  /\ Programmers \subseteq Programmer
  /\ Contents \subseteq [Addr -> Val]
  /\ MaxLost \in Nat

VARIABLES
  job, pgm,
  pos,         (* where the loop of the function is: starthere + j, i, pos  *)
  stage,       (* of an AAI write: "start", "cont", "end"                   *)
  cmds,        (* the commands still to be sent: struct spi_command[]       *)
  buf,         (* what was read                                             *)
  ret, at,
  mem, welatch, wip, aai,  (* the chip: contents, write enable latch, the   *)
                           (* bytes it is changing, the AAI address         *)
  lost,        (* bound                                                     *)
  misled,      (* history: RDSR failed, so that readarr was not written     *)
  unchecked    (* history: a command failed, and nobody looked              *)

caller == <<job, pgm, pos, stage, cmds, buf, ret, at>>
flashchip == <<mem, welatch, wip, aai>>
spiVars == <<caller, flashchip, lost, misled, unchecked>>

None == -1
Idle == << >>
End == job.start + job.len
Cells == job.start .. End - 1

SpiInit ==
  /\ job \in Jobs /\ pgm \in Programmers
  /\ pos = job.start /\ stage = "start" /\ cmds = << >>
  /\ buf = [a \in Addr |-> None]
  /\ ret = "none" /\ at = "loop"
  /\ mem \in Contents /\ welatch \in BOOLEAN /\ wip = Idle /\ aai = None
  /\ lost = 0 /\ misled = FALSE /\ unchecked = FALSE

-----------------------------------------------------------------------------
(* The chip *)

(* A command with its address and n bytes, sent or to be read.              *)
Cmd(op, a, n) == [op |-> op, addr |-> a, n |-> n]

Block(a) == (a \div BlockSize) * BlockSize .. (a \div BlockSize + 1) * BlockSize - 1

(* The bytes from a on wrap around at the end of their page.                *)
InPage(a, k) == (a \div PageSize) * PageSize + ((a + k) % PageSize)

Takes(c) ==
  /\ wip = Idle
  /\ IF aai # None THEN c.op \in {"AAI_CONT", "WRDI"} ELSE c.op # "AAI_CONT"
  /\ c.op \in {"PP", "SE", "CE", "AAI"} => welatch

(* What the chip makes of its bytes from a on with the n bytes of c.        *)
Programs(c, a) ==
  [b \in {InPage(a, k) : k \in 0 .. c.n - 1} |->
     LET k == CHOOSE m \in 0 .. c.n - 1 : InPage(a, m) = b
     IN IF job.data[c.addr + k] = 0 THEN 0 ELSE mem[b]]

Changes(c) ==
  CASE c.op \in {"PP", "AAI"} -> Programs(c, c.addr)
    [] c.op = "AAI_CONT" -> Programs(c, aai)
    [] c.op \in {"SE", "BE_50"} -> [a \in Block(c.addr) |-> 1]
    [] c.op = "CE" -> [a \in Addr |-> 1]
    [] OTHER -> Idle

Deliver(c) ==
  /\ IF Takes(c)
     THEN /\ wip' = Changes(c)
          /\ welatch' = CASE c.op = "WREN" -> TRUE [] c.op = "WRDI" -> FALSE [] OTHER -> welatch
          /\ aai' = CASE c.op = "AAI" -> (c.addr + 2) % Size
                      [] c.op = "AAI_CONT" -> (aai + 2) % Size
                      [] c.op = "WRDI" -> None
                      [] OTHER -> aai
     ELSE UNCHANGED <<wip, welatch, aai>>
  /\ UNCHANGED mem

ArrayDone ==
  /\ wip # Idle
  /\ mem' = [a \in Addr |-> IF a \in DOMAIN wip THEN wip[a] ELSE mem[a]]
  /\ wip' = Idle
  /\ welatch' = (aai # None)
  /\ UNCHANGED <<caller, aai, lost, misled, unchecked>>

-----------------------------------------------------------------------------
(* The loops of the functions. Each step sets up the next commands.         *)

AtLoop(functions) == at = "loop" /\ job.function \in functions
Finish(r) == at' = "returned" /\ ret' = r /\ UNCHANGED cmds
Multicommand(s) == cmds' = s /\ at' = "send" /\ UNCHANGED ret
Rest == <<job, pgm, buf, flashchip, lost, misled, unchecked>>

Wren == Cmd("WREN", 0, 0)

(* spi_block_erase_20(), _52(), _d7(), _d8(); _50() and _81() have no WREN. *)
SpiBlockErase ==
  /\ AtLoop({"spi_block_erase", "spi_block_erase_50"}) /\ pos < End
  /\ Multicommand(IF job.function = "spi_block_erase"
                  THEN <<Wren, Cmd("SE", job.start, 0)>> ELSE <<Cmd("BE_50", job.start, 0)>>)
  /\ pos' = End
  /\ UNCHANGED <<stage, Rest>>

(* spi_block_erase_60(), _62(), _c7()                                       *)
SpiChipErase ==
  /\ AtLoop({"spi_chip_erase"}) /\ pos < End
  /\ \/ /\ job.start # 0 \/ job.len # Size
        /\ Finish("error")
        /\ UNCHANGED pos
     \/ /\ job.start = 0 /\ job.len = Size
        /\ Multicommand(<<Wren, Cmd("CE", 0, 0)>>)
        /\ pos' = End
  /\ UNCHANGED <<stage, Rest>>

(* MAX_DATA_UNSPECIFIED                                                     *)
ChunkUnspecified ==
  /\ \/ AtLoop({"spi_chip_read"}) /\ pgm.max_data_read = 0
     \/ AtLoop({"spi_chip_write_256"}) /\ pgm.max_data_write = 0
  /\ Finish("error")
  /\ UNCHANGED <<pos, stage, Rest>>

(* Mutant: the chunks go on past the end of the page.                       *)
ChunkAcrossPages(chunksize) == Min({chunksize, End - pos})

(* The next chunk of spi_read_chunked() and spi_write_chunked().            *)
Chunk(chunksize) == Min({chunksize, End - pos, (pos \div PageSize + 1) * PageSize - pos})

SpiReadChunked ==
  /\ AtLoop({"spi_chip_read"}) /\ pos < End /\ pgm.max_data_read > 0
  /\ Multicommand(<<Cmd("READ", pos, Chunk(pgm.max_data_read))>>)
  /\ pos' = pos + Chunk(pgm.max_data_read)
  /\ UNCHANGED <<stage, Rest>>

(* Mutant: the write enable is sent for the first chunk only.               *)
SpiWriteChunkedEnabledOnce ==
  /\ AtLoop({"spi_chip_write_256"}) /\ pos < End /\ pgm.max_data_write > 0
  /\ LET n == Chunk(pgm.max_data_write) IN
     /\ Multicommand((IF pos = job.start THEN <<Wren>> ELSE << >>) \o <<Cmd("PP", pos, n)>>)
     /\ pos' = pos + n
  /\ UNCHANGED <<stage, Rest>>

SpiWriteChunked ==
  /\ AtLoop({"spi_chip_write_256"}) /\ pos < End /\ pgm.max_data_write > 0
  /\ LET n == Chunk(pgm.max_data_write) IN
     /\ Multicommand(<<Wren, Cmd("PP", pos, n)>>)
     /\ pos' = pos + n
  /\ UNCHANGED <<stage, Rest>>

ByteProgram(a) == <<Wren, Cmd("PP", a, 1)>>

(* Without AAI in the controller, an AAI write comes down to this.          *)
SpiChipWrite1 ==
  /\ AtLoop({"spi_chip_write_1"} \cup IF pgm.aai THEN {} ELSE {"spi_aai_write"})
  /\ pos < End
  /\ Multicommand(ByteProgram(pos))
  /\ pos' = pos + 1
  /\ UNCHANGED <<stage, Rest>>

(* default_spi_write_aai()                                                  *)
AtAai(s) == AtLoop({"spi_aai_write"}) /\ pgm.aai /\ stage = s

AaiOddStart ==
  /\ AtAai("start") /\ pos % 2 = 1
  /\ Multicommand(ByteProgram(pos))
  /\ pos' = pos + 1
  /\ UNCHANGED <<stage, Rest>>

AaiStart ==
  /\ AtAai("start") /\ pos % 2 = 0
  /\ Multicommand(<<Wren, Cmd("AAI", pos, 2)>>)
  /\ pos' = pos + 2 /\ stage' = "cont"
  /\ UNCHANGED Rest

AaiCont ==
  /\ AtAai("cont") /\ pos < End - 1
  /\ Multicommand(<<Cmd("AAI_CONT", pos, 2)>>)
  /\ pos' = pos + 2
  /\ UNCHANGED <<stage, Rest>>

(* "Write remaining byte (if any)": spi_chip_write_1() of pos % 2 bytes.    *)
Remaining == IF pos < End /\ pos % 2 = 1 THEN ByteProgram(pos) ELSE << >>

AaiExit ==
  /\ AtAai("cont") /\ pos >= End - 1
  /\ Multicommand(<<Cmd("WRDI", 0, 0)>> \o Remaining)
  /\ pos' = pos + Len(Remaining) \div 2 /\ stage' = "end"
  /\ UNCHANGED Rest

Done ==
  /\ at = "loop"
  /\ IF job.function = "spi_aai_write" /\ pgm.aai THEN stage = "end" ELSE pos >= End
  /\ Finish("0")
  /\ UNCHANGED <<pos, stage, Rest>>

-----------------------------------------------------------------------------
(* Sending and waiting *)

(* Nobody looks at the results of spi_send_command() for AAI_CONT and of    *)
(* spi_write_disable().                                                     *)
Ignored(c) == c.op \in {"AAI_CONT", "WRDI"}

After(c) ==
  IF Len(cmds) > 1 THEN "send"
  ELSE IF c.op \in {"READ", "WRDI"} THEN "loop" ELSE "poll"

GoOn(c) ==
  /\ cmds' = Tail(cmds)
  /\ at' = After(c)
  /\ UNCHANGED ret

SendOk ==
  /\ at = "send"
  /\ LET c == Head(cmds) IN
     /\ Deliver(c)
     /\ GoOn(c)
     /\ buf' = [a \in Addr |-> IF c.op = "READ" /\ a - c.addr \in 0 .. c.n - 1 THEN mem[a] ELSE buf[a]]
  /\ UNCHANGED <<job, pgm, pos, stage, lost, misled, unchecked>>

(* The programmer reports an error, and the chip has got the command or     *)
(* not.                                                                     *)
SendLost ==
  /\ at = "send" /\ lost < MaxLost
  /\ LET c == Head(cmds) IN
     /\ Deliver(c) \/ UNCHANGED flashchip
     /\ \/ Ignored(c) /\ GoOn(c) /\ unchecked' = TRUE
        \/ ~Ignored(c) /\ Finish("error") /\ UNCHANGED unchecked
  /\ lost' = lost + 1
  /\ UNCHANGED <<job, pgm, pos, stage, buf, misled>>

(* Mutant: waiting for the write enable latch instead.                      *)
PollWel ==
  /\ at = "poll" /\ ~welatch
  /\ at' = "loop"
  /\ UNCHANGED <<job, pgm, pos, stage, cmds, buf, ret, flashchip, lost, misled, unchecked>>

(* while (spi_read_status_register(flash) & SPI_SR_WIP)                     *)
Poll ==
  /\ at = "poll" /\ wip = Idle
  /\ at' = "loop"
  /\ UNCHANGED <<job, pgm, pos, stage, cmds, buf, ret, flashchip, lost, misled, unchecked>>

(* spi_read_status_register() returns what was in its buffer.               *)
PollFails ==
  /\ at = "poll" /\ lost < MaxLost
  /\ at' \in {"poll", "loop"}
  /\ lost' = lost + 1 /\ misled' = TRUE
  /\ UNCHANGED <<job, pgm, pos, stage, cmds, buf, ret, flashchip, unchecked>>

SpiStep ==
  \/ SpiBlockErase \/ SpiChipErase \/ ChunkUnspecified
  \/ SpiReadChunked \/ SpiWriteChunked \/ SpiChipWrite1
  \/ AaiOddStart \/ AaiStart \/ AaiCont \/ AaiExit \/ Done
  \/ SendOk \/ SendLost \/ Poll \/ PollFails

SpiNext == SpiStep \/ ArrayDone

SpiSpec == SpiInit /\ [][SpiNext]_spiVars

-----------------------------------------------------------------------------
(* Properties *)

(* Unless a failure has gone unseen, every command reaches the chip when it *)
(* can take it: enabled, not busy, and none but AAI commands within AAI.    *)
CommandsTaken == at = "send" /\ ~misled /\ ~unchecked => Takes(Head(cmds))

(* A read that returns 0 has read every byte it was called for.             *)
ReadResult ==
  ret = "0" /\ job.function = "spi_chip_read" => \A a \in Cells : buf[a] = mem[a]

(* Unless a failure has gone unseen, a call that returns 0 leaves a chip    *)
(* that is not busy, not write enabled by it and not in AAI mode, so that   *)
(* the next call finds the chip as this one has.                            *)
LeavesIdle ==
  ret = "0" /\ ~misled /\ ~unchecked =>
    /\ wip = Idle /\ aai = None
    /\ job.function \notin {"spi_chip_read", "spi_block_erase_50"} => ~welatch

(* The chip does as it is told: no command of this call is lost on it, what *)
(* it answers is what is returned, and the next call will find it the same. *)
Obeyed == CommandsTaken /\ ReadResult /\ LeavesIdle

(* What the caller of the function may expect: ChipCall.                    *)
Call == INSTANCE ChipCall WITH
  fn <- CASE job.function = "spi_chip_read" -> "read"
          [] job.function \in {"spi_chip_write_256", "spi_chip_write_1", "spi_aai_write"} -> "write"
          [] OTHER -> "erase",
  range <- Cells, data <- job.data, result <- ret, told <- ~misled /\ ~unchecked
ImplementsCall == Call!Spec
=============================================================================
