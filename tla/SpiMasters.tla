----------------------------- MODULE SpiMasters -----------------------------
(***************************************************************************)
(* How the SPI masters of flashrom send one command: writecnt bytes to the *)
(* chip, then readcnt bytes from it. Each has registers, a buffer, a FIFO  *)
(* or a protocol of its own, limits of its own, and its own way to fail.   *)
(*                                                                         *)
(* Only the identity of bytes matters: the bytes to write are 1, 2, ...,   *)
(* writecnt; the chip answers with 1, 2, ... once it has been sent all of  *)
(* them; 0 is a byte with no meaning.                                      *)
(***************************************************************************)
EXTENDS Integers, Sequences, FiniteSets

CONSTANTS
  Masters,        (* the masters to run                                     *)
  Commands,       (* [writecnt, readcnt] the chip functions send            *)
  Bits,           (* bits of a byte, for the masters that send bits         *)
  MaxLong,        (* what the masters with a large buffer take at once      *)
  MaxOther        (* bound on the accesses of another user of the FIFO      *)

(* v >> k                                                                   *)
ShiftedRight(v, k) == LET h[n \in 0 .. k] == IF n = 0 THEN v ELSE h[n - 1] \div 2 IN h[k]

(* The numbers that stand for bytes have no more than the bits of a byte. A *)
(* pointer of three bits cannot tell eight accesses by another from none:   *)
(* fewer it shows.                                                          *)
ASSUME MastersAssumption ==
  /\ Commands \subseteq [writecnt : Nat \ {0}, readcnt : Nat]
  /\ Bits \in Nat \ {0} /\ MaxLong \in Nat /\ MaxOther \in 0 .. 7
  /\ \A c \in Commands : \A v \in (1 .. c.writecnt) \cup (1 .. c.readcnt) : ShiftedRight(v, Bits) = 0

VARIABLES
  master, command,
  pc,             (* where send_command() is                                *)
  i,              (* its loop counter                                       *)
  cs,             (* the chip is selected                                   *)
  in, out,        (* bytes the chip got and sent since                      *)
  chip,           (* the transactions it has seen: [in, out]                *)
  regs,           (* registers and buffers of the master                    *)
  readarr,        (* what is returned                                       *)
  result,         (* "none" until it returns                                *)
  lost,           (* the last message to or from the master that was lost   *)
  other           (* accesses of another user of the controller             *)

vars == <<master, command, pc, i, cs, in, out, chip, regs, readarr, result, lost, other>>

Writecnt == command.writecnt
Readcnt == command.readcnt
Writearr == [k \in 1 .. Writecnt |-> k]
Answer == [k \in 1 .. Readcnt |-> k]

Init ==
  /\ master \in Masters /\ command \in Commands
  /\ pc = "start" /\ i = 0
  /\ cs = FALSE /\ in = <<>> /\ out = 0 /\ chip = <<>>
  /\ regs = <<>> /\ readarr = <<>> /\ result = "none" /\ lost = "nothing" /\ other = 0

(* The wires.                                                               *)
Transaction(bytes, n) ==
  /\ chip' = Append(chip, [in |-> bytes, out |-> n])
  /\ UNCHANGED <<cs, in, out>>
Quiet == UNCHANGED <<cs, in, out, chip>>
Deselect ==
  /\ chip' = (IF cs THEN Append(chip, [in |-> in, out |-> out]) ELSE chip)
  /\ cs' = FALSE /\ in' = <<>> /\ out' = 0

Return(r) == result' = r /\ pc' = "end" /\ UNCHANGED <<i>>
Goto(l) == pc' = l /\ UNCHANGED <<i, result>>
At(m, l) == master = m /\ pc = l
Fixed == UNCHANGED <<master, command>>

-----------------------------------------------------------------------------
(* Dediprog: one USB control message with the bytes to write, one for the   *)
(* answer.                                                                  *)
DediprogLimit == Writecnt <= 16 /\ Readcnt <= 16

DediprogSend ==
  /\ At("dediprog", "start") /\ DediprogLimit
  /\ \/ /\ Transaction(Writearr, Readcnt)
        /\ IF Readcnt = 0 THEN Return("0") ELSE Goto("receive")
        /\ UNCHANGED <<lost>>
     \/ lost' = "bytes" /\ Quiet /\ Return("error")
  /\ regs' = Answer
  /\ UNCHANGED <<readarr, other>> /\ Fixed

DediprogReceive ==
  /\ At("dediprog", "receive")
  /\ \/ readarr' = regs /\ Return("0") /\ UNCHANGED lost
     \/ lost' = "answer" /\ Return("error") /\ UNCHANGED readarr
  /\ Quiet
  /\ UNCHANGED <<regs, other>> /\ Fixed

-----------------------------------------------------------------------------
(* Bus Pirate, first command set: one message with "select", "transfer n    *)
(* bytes", the bytes, and "deselect"; each is acknowledged in the same      *)
(* place of the answer, which also has what the chip sent meanwhile.        *)
BuspirateV1Limit == Writecnt <= 16 /\ Readcnt <= 16 /\ Writecnt + Readcnt <= 16

BuspirateV1Send ==
  /\ At("buspirate_v1", "start") /\ BuspirateV1Limit
  /\ \/ /\ Transaction(Writearr, Readcnt)
        /\ \E acks \in [1 .. 3 -> BOOLEAN] :
             regs' = [acks |-> acks, data |-> [k \in 1 .. Writecnt + Readcnt |->
                                                 IF k <= Writecnt THEN 0 ELSE k - Writecnt]]
        /\ UNCHANGED lost
     \/ lost' = "bytes" /\ Quiet /\ regs' = <<>>
  /\ Goto("receive")
  /\ UNCHANGED <<readarr, other>> /\ Fixed

Skipped == Writecnt

BuspirateV1Receive ==
  /\ At("buspirate_v1", "receive")
  /\ IF lost # "nothing" \/ \E k \in 1 .. 3 : ~regs.acks[k]
     THEN Return("error") /\ UNCHANGED readarr
     ELSE Return("0") /\ readarr' = SubSeq(regs.data, Skipped + 1, Skipped + Readcnt)
  /\ Quiet /\ UNCHANGED <<regs, lost, other>> /\ Fixed

(* The second command set has one command for all of it.                    *)
BuspirateV2 ==
  /\ At("buspirate_v2", "start") /\ Writecnt + Readcnt <= MaxLong
  /\ \/ Transaction(Writearr, Readcnt) /\ Return("0") /\ readarr' = Answer /\ UNCHANGED lost
     \/ lost' = "bytes" /\ Quiet /\ Return("error") /\ UNCHANGED readarr
  /\ UNCHANGED <<regs, other>> /\ Fixed

-----------------------------------------------------------------------------
(* FT2232: with nothing to read, all goes out in one buffer; else the chip  *)
(* is deselected by one of its own, which is sent also if the others fail.  *)
Ft2232Send ==
  /\ At("ft2232", "start") /\ Writecnt <= MaxLong /\ Readcnt <= MaxLong
  /\ \/ /\ UNCHANGED lost
        /\ IF Readcnt = 0
           THEN Transaction(Writearr, 0) /\ Return("0")
           ELSE cs' = TRUE /\ in' = Writearr /\ out' = Readcnt /\ Goto("get_buf") /\ UNCHANGED chip
     \/ lost' = "bytes" /\ Quiet
        /\ IF Readcnt = 0 THEN Return("error") ELSE Goto("deassert")
  /\ regs' = Answer
  /\ UNCHANGED <<readarr, other>> /\ Fixed

Ft2232GetBuf ==
  /\ At("ft2232", "get_buf")
  /\ \/ readarr' = regs /\ UNCHANGED lost
     \/ lost' = "answer" /\ UNCHANGED readarr
  /\ Goto("deassert") /\ Quiet
  /\ UNCHANGED <<regs, other>> /\ Fixed

Ft2232Deassert ==
  /\ At("ft2232", "deassert")
  /\ Deselect
  /\ Return(IF lost # "nothing" THEN "error" ELSE "0")
  /\ UNCHANGED <<regs, readarr, lost, other>> /\ Fixed

(* This buffer may be lost as well, and then the chip stays selected.       *)
Ft2232DeassertFails ==
  /\ At("ft2232", "deassert")
  /\ lost' = "deselect" /\ Quiet /\ Return("error")
  /\ UNCHANGED <<regs, readarr, other>> /\ Fixed

-----------------------------------------------------------------------------
(* Linux: one or two transfers for the kernel.                              *)
LinuxSpi ==
  /\ At("linux_spi", "start") /\ Writecnt > 0
  /\ \/ Transaction(Writearr, Readcnt) /\ Return("0") /\ readarr' = Answer /\ UNCHANGED lost
     \/ lost' = "bytes" /\ Quiet /\ Return("error") /\ UNCHANGED readarr
  /\ UNCHANGED <<regs, other>> /\ Fixed

-----------------------------------------------------------------------------
(* IT8716F: registers for the opcode, three bytes of address (in reverse)   *)
(* and one of data; a code says which of them are sent. The controller is   *)
(* busy for a while; nothing waits for the end of a command without answer  *)
(* but the next command.                                                    *)
It87Limit == Readcnt <= 3 /\ Writecnt \in {1, 2, 4, 5}
It87Registers ==
  CASE Writecnt = 1 -> [opcode |-> 1, a |-> <<0, 0, 0>>, data |-> 0]
    [] Writecnt = 2 -> [opcode |-> 1, a |-> <<0, 0, 0>>, data |-> 2]
    [] Writecnt = 4 -> [opcode |-> 1, a |-> <<4, 3, 2>>, data |-> 0]
    [] OTHER -> [opcode |-> 1, a |-> <<4, 3, 2>>, data |-> 5]

It87Start ==
  /\ At("it87spi", "start") /\ It87Limit
  /\ regs' = It87Registers
  /\ Goto("busy")
  /\ Quiet /\ UNCHANGED <<readarr, lost, other>> /\ Fixed

It87Runs ==
  /\ At("it87spi", "busy")
  /\ Transaction(<<regs.opcode>>
                 \o (IF Writecnt \in {4, 5} THEN <<regs.a[3], regs.a[2], regs.a[1]>> ELSE <<>>)
                 \o (IF Writecnt \in {2, 5} THEN <<regs.data>> ELSE <<>>), Readcnt)
  /\ readarr' = Answer
  /\ Return("0")
  /\ UNCHANGED <<regs, lost, other>> /\ Fixed

-----------------------------------------------------------------------------
(* W83627DHG: eleven modes, with the address in two registers and four      *)
(* bits of the mode: the high four bits of its first byte are dropped, and  *)
(* are 0 for a chip of up to 1 MB.                                          *)
WbsioMode ==
  CASE Writecnt = 1 /\ Readcnt = 0 -> 1
    [] Writecnt = 2 /\ Readcnt = 0 -> 2
    [] Writecnt = 1 /\ Readcnt = 2 -> 3
    [] Writecnt = 4 /\ Readcnt = 0 -> 4
    [] Writecnt = 5 /\ Readcnt = 0 -> 5
    [] Writecnt = 8 /\ Readcnt = 0 -> 6
    [] Writecnt = 4 /\ Readcnt \in 1 .. 4 -> 7 + Readcnt
    [] OTHER -> 0

(* Register 0 is the opcode, 1 the mode, 2 and 3 the address, 4 to 7 data.  *)
WbsioRegisters ==
  [k \in 0 .. 7 |->
     CASE k = 0 -> 1
       [] k \in 2 .. 3 /\ Writecnt >= 4 -> k + 1
       [] k >= 4 /\ Writecnt = 2 -> IF k = 4 THEN 2 ELSE 0
       [] k >= 4 /\ Writecnt > 4 /\ k < Writecnt -> k + 1
       [] OTHER -> 0]

WbsioStart ==
  /\ At("wbsio", "start") /\ WbsioMode # 0
  /\ regs' = WbsioRegisters
  /\ Goto("run")
  /\ Quiet /\ UNCHANGED <<readarr, lost, other>> /\ Fixed

WbsioRun ==
  LET m == WbsioMode
      address == IF m >= 4 THEN <<2, regs[2], regs[3]>> ELSE <<>>
      data == CASE m \in {2, 5} -> <<regs[4]>> [] m = 6 -> <<regs[4], regs[5], regs[6], regs[7]>> [] OTHER -> <<>>
      n == CASE m = 3 -> 2 [] m >= 8 -> m - 7 [] OTHER -> 0
  IN /\ At("wbsio", "run")
     /\ Transaction(<<regs[0]>> \o address \o data, n)
     /\ readarr' = [k \in 1 .. n |-> k]
     /\ Return("0")
     /\ UNCHANGED <<regs, lost, other>> /\ Fixed

-----------------------------------------------------------------------------
(* IT8502: an access to one address deselects the chip, one to another      *)
(* selects it and shifts a byte.                                            *)
It85CeHigh ==
  /\ At("it85spi", "start") \/ (At("it85spi", "shift") /\ i = Writecnt + Readcnt)
  /\ Deselect
  /\ IF pc = "start" THEN Goto("shift") ELSE Return("0")
  /\ UNCHANGED <<regs, readarr, lost, other>> /\ Fixed

It85CeLow ==
  /\ At("it85spi", "shift") /\ i < Writecnt + Readcnt
  /\ cs' = TRUE /\ i' = i + 1
  /\ IF i < Writecnt
     THEN in' = Append(in, i + 1) /\ UNCHANGED <<out, readarr>>
     ELSE out' = out + 1 /\ readarr' = Append(readarr, out') /\ UNCHANGED in
  /\ UNCHANGED <<pc, chip, regs, result, lost, other>> /\ Fixed

-----------------------------------------------------------------------------
(* SB600: opcode and counts have registers; the other bytes go through a    *)
(* FIFO, a ring of eight with one pointer for both directions: what the     *)
(* chip sends while it is written to is stored as well. The driver compares *)
(* the pointer with what it should be, to detect that another user (IPMI,   *)
(* say) has accessed the FIFO, and then resets it; the reset waits for the  *)
(* pointer to be 0.                                                         *)
Sb600Limit == Writecnt - 1 <= 8 /\ Readcnt <= 8

(* With nothing but an opcode to send the controller reads a byte too few.  *)
ReadOffBy1 == IF Writecnt = 1 THEN 1 ELSE 0

Sb600Start ==
  /\ At("sb600", "start") /\ Sb600Limit
  /\ regs' = [fifo |-> [k \in 0 .. 7 |-> 0], ptr |-> 0, cmd |-> 1,
              write |-> Writecnt - 1, read |-> Readcnt + ReadOffBy1]
  /\ Goto("clear_to_write")
  /\ Quiet /\ UNCHANGED <<readarr, lost, other>> /\ Fixed

Sb600Clear == [l \in {"clear_to_write", "clear_to_execute", "clear_to_skip", "clear_to_count"} |->
                 CASE l = "clear_to_write" -> "write" [] l = "clear_to_execute" -> "execute"
                   [] l = "clear_to_skip" -> "skip" [] OTHER -> "count"]
Sb600Cleared ==
  /\ master = "sb600" /\ regs # <<>> /\ regs.ptr = 0
  /\ pc \in DOMAIN Sb600Clear /\ pc' = Sb600Clear[pc]
  /\ i' = 0
  /\ Quiet /\ UNCHANGED <<regs, readarr, result, lost, other>> /\ Fixed

(* The wait reads the pointer again, and does not reset it again.           *)
Sb600Spins ==
  master = "sb600" /\ pc \in DOMAIN Sb600Clear /\ regs.ptr # 0 /\ UNCHANGED vars

Sb600Port ==
  /\ \/ At("sb600", "write") /\ i < Writecnt - 1
        /\ regs' = [regs EXCEPT !.fifo[regs.ptr] = i + 2, !.ptr = (@ + 1) % 8]
        /\ UNCHANGED readarr
     \/ At("sb600", "skip") /\ i < Writecnt - 1
        /\ regs' = [regs EXCEPT !.ptr = (@ + 1) % 8]
        /\ UNCHANGED readarr
     \/ At("sb600", "read") /\ i < Readcnt
        /\ readarr' = Append(readarr, regs.fifo[regs.ptr])
        /\ regs' = [regs EXCEPT !.ptr = (@ + 1) % 8]
  /\ i' = i + 1
  /\ Quiet /\ UNCHANGED <<pc, result, lost, other>> /\ Fixed

(* Mutant: the pointer is not looked at.                                    *)
Sb600CompareNothing(want) == TRUE
Sb600Compare(want) == regs.ptr = want % 8

(* compare_internal_fifo_pointer(), and the reset where there is one.       *)
Sb600Check ==
  LET check(l, n, want, next) ==
        /\ At("sb600", l) /\ i = n
        /\ IF ~Sb600Compare(want) THEN Return("error") ELSE pc' = next /\ i' = 0 /\ UNCHANGED result
        /\ regs' = IF next = "read" THEN regs ELSE [regs EXCEPT !.ptr = 0]
  IN /\ \/ check("write", Writecnt - 1, Writecnt - 1, "clear_to_execute")
        \/ check("executed", 0, Writecnt - 1 + Readcnt, "clear_to_skip")
        \/ check("skip", Writecnt - 1, Writecnt - 1, "read")
        \/ check("read", Readcnt, Readcnt + Writecnt - 1, "clear_to_count")
     /\ Quiet /\ UNCHANGED <<readarr, lost, other>> /\ Fixed

(* The controller runs the command; the FIFO is stored to as it is sent.    *)
Sb600Execute ==
  LET n == regs.write
      m == IF n = 0 THEN regs.read - 1 ELSE regs.read
      slot(k) == (regs.ptr + k) % 8
  IN /\ At("sb600", "execute")
     /\ Transaction(<<regs.cmd>> \o [k \in 1 .. n |-> regs.fifo[slot(k - 1)]], m)
     /\ regs' = [regs EXCEPT
                   !.ptr = slot(n + m),
                   !.fifo = [s \in 0 .. 7 |->
                               IF \E k \in 0 .. n + m - 1 : slot(k) = s
                               THEN LET k == CHOOSE k \in 0 .. n + m - 1 :
                                               slot(k) = s /\ k + 8 > n + m - 1
                                    IN IF k < n THEN 0 ELSE k - n + 1
                               ELSE @[s]]]
     /\ Goto("executed")
     /\ UNCHANGED <<readarr, lost, other>> /\ Fixed

Sb600Count ==
  /\ At("sb600", "count")
  /\ Return(IF regs.write = Writecnt - 1 /\ regs.read = Readcnt + ReadOffBy1 THEN "0" ELSE "error")
  /\ Quiet /\ UNCHANGED <<regs, readarr, lost, other>> /\ Fixed

(* The other user reads a byte of the FIFO, or asks for a read of its own.  *)
Sb600Other ==
  /\ master = "sb600" /\ pc \notin {"start", "end"} /\ other < MaxOther
  /\ \/ regs' = [regs EXCEPT !.ptr = (@ + 1) % 8]
     \/ regs.write > 0 /\ regs' = [regs EXCEPT !.write = @ - 1, !.read = @ + 1]
  /\ other' = other + 1
  /\ Quiet /\ UNCHANGED <<pc, i, readarr, result, lost>> /\ Fixed

-----------------------------------------------------------------------------
(* Bit banging. A pin is set by writing all of them, from a cache of what   *)
(* was written last. The NVIDIA chipset has the pins in a register shared   *)
(* with a SPI engine of its own: the bus is requested, the cache is read    *)
(* again once it is granted, and whenever the data from the chip is read.   *)

Bitbangs == {"mcp6x", "rayer_spi"}
Bit(v, k) == ShiftedRight(v, k) % 2
Byte(bits) == LET f[n \in 0 .. Bits] == IF n = 0 THEN 0 ELSE 2 * f[n - 1] + bits[n] IN f[Bits]
Sck(pins) == "sck" \in pins
Cs(pins) == "cs" \notin pins            (* active low                        *)

BitbangStart ==
  /\ master \in Bitbangs /\ pc = "start"
  /\ regs' = [pins |-> {"cs"}, cache |-> {"cs"}, request |-> master = "mcp6x", bits |-> <<>>]
  /\ Goto(IF master = "mcp6x" THEN "grant" ELSE "select")
  /\ Quiet /\ UNCHANGED <<readarr, lost, other>> /\ Fixed

(* The SPI engine ends what it does. It leaves the clock low, as the driver *)
(* takes for granted (SPI mode 0), and the data pin as it likes.            *)
BitbangEngine ==
  /\ At("mcp6x", "grant")
  /\ \E pins \in {{"cs"}, {"cs", "mosi"}} : regs' = [regs EXCEPT !.pins = pins]
  /\ Goto("granted")
  /\ Quiet /\ UNCHANGED <<readarr, lost, other>> /\ Fixed

BitbangGranted ==
  /\ At("mcp6x", "granted")
  /\ regs' = [regs EXCEPT !.cache = regs.pins]
  /\ Goto("select")
  /\ Quiet /\ UNCHANGED <<readarr, lost, other>> /\ Fixed

(* The pins change, and the chip sees an edge.                              *)
Drive(pins) ==
  LET rise == Sck(pins) /\ ~Sck(regs.pins) /\ Cs(pins)
      fall == ~Sck(pins) /\ Sck(regs.pins) /\ Cs(pins)
      byte == fall /\ Len(regs.bits) = Bits
  IN /\ cs' = Cs(pins)
     /\ regs' = [regs EXCEPT !.pins = pins, !.cache = pins,
                             !.bits = IF rise THEN Append(@, IF "mosi" \in pins THEN 1 ELSE 0)
                                      ELSE IF byte \/ ~Cs(pins) THEN <<>> ELSE @]
     /\ IF cs /\ ~Cs(pins)
        THEN chip' = Append(chip, [in |-> in, out |-> out]) /\ in' = <<>> /\ out' = 0
        ELSE /\ in' = (IF byte /\ Len(in) < Writecnt THEN Append(in, Byte(regs.bits)) ELSE in)
             /\ out' = (IF byte /\ Len(in) = Writecnt THEN out + 1 ELSE out)
             /\ UNCHANGED chip
Set(pin, v) == Drive(IF v = 1 THEN regs.cache \union {pin} ELSE regs.cache \ {pin})

(* What the chip has on its output after the clock went high.               *)
Miso == IF Len(in) < Writecnt \/ Len(regs.bits) = 0 THEN 0
        ELSE Bit(out + 1, Bits - Len(regs.bits))

BitbangSelect ==
  /\ master \in Bitbangs /\ pc = "select"
  /\ Set("cs", 0) /\ pc' = "mosi" /\ i' = 0
  /\ UNCHANGED <<readarr, result, lost, other>> /\ Fixed

(* i counts the bits; a byte read starts as 0.                              *)
BitbangMosi ==
  LET byte == i \div Bits + 1
  IN /\ master \in Bitbangs /\ pc = "mosi" /\ i < Bits * (Writecnt + Readcnt)
     /\ Set("mosi", IF byte <= Writecnt THEN Bit(byte, Bits - 1 - (i % Bits)) ELSE 0)
     /\ pc' = "sck"
     /\ readarr' = (IF byte > Writecnt /\ (i % Bits) = 0 THEN Append(readarr, 0) ELSE readarr)
     /\ UNCHANGED <<i, result, lost, other>> /\ Fixed

BitbangSckHigh ==
  /\ master \in Bitbangs /\ pc = "sck"
  /\ Set("sck", 1) /\ Goto("miso")
  /\ UNCHANGED <<readarr, lost, other>> /\ Fixed

BitbangSckLow ==
  /\ master \in Bitbangs /\ pc = "miso"
  /\ Set("sck", 0) /\ pc' = "mosi" /\ i' = i + 1
  /\ readarr' = (IF i \div Bits >= Writecnt
                 THEN [readarr EXCEPT ![Len(readarr)] = 2 * @ + Miso] ELSE readarr)
  /\ UNCHANGED <<result, lost, other>> /\ Fixed

BitbangDeselect ==
  /\ master \in Bitbangs /\ pc = "mosi" /\ i = Bits * (Writecnt + Readcnt)
  /\ Set("cs", 1) /\ Goto("release")
  /\ UNCHANGED <<readarr, lost, other>> /\ Fixed

BitbangRelease ==
  /\ master \in Bitbangs /\ pc = "release"
  /\ regs' = [regs EXCEPT !.request = FALSE]
  /\ Return("0")
  /\ Quiet /\ UNCHANGED <<readarr, lost, other>> /\ Fixed

-----------------------------------------------------------------------------
Accepted ==
  CASE master = "dediprog" -> DediprogLimit
    [] master = "buspirate_v1" -> BuspirateV1Limit
    [] master = "buspirate_v2" -> Writecnt + Readcnt <= MaxLong
    [] master = "ft2232" -> Writecnt <= MaxLong /\ Readcnt <= MaxLong
    [] master = "linux_spi" -> Writecnt > 0
    [] master = "it87spi" -> It87Limit
    [] master = "wbsio" -> WbsioMode # 0
    [] master = "sb600" -> Sb600Limit
    [] OTHER -> TRUE

Refuse ==
  /\ pc = "start" /\ ~Accepted
  /\ Return("invalid length")
  /\ Quiet /\ UNCHANGED <<regs, readarr, lost, other>> /\ Fixed

Program ==
  \/ Refuse
  \/ DediprogSend \/ DediprogReceive \/ BuspirateV1Send \/ BuspirateV1Receive \/ BuspirateV2
  \/ Ft2232Send \/ Ft2232GetBuf \/ Ft2232Deassert \/ Ft2232DeassertFails \/ LinuxSpi
  \/ It87Start \/ It87Runs \/ WbsioStart \/ WbsioRun \/ It85CeHigh \/ It85CeLow
  \/ Sb600Start \/ Sb600Cleared \/ Sb600Port \/ Sb600Check \/ Sb600Execute \/ Sb600Count
  \/ BitbangStart \/ BitbangEngine \/ BitbangGranted \/ BitbangSelect \/ BitbangMosi
  \/ BitbangSckHigh \/ BitbangSckLow \/ BitbangDeselect \/ BitbangRelease

Done == pc = "end" /\ UNCHANGED vars
Next == Program \/ Sb600Other \/ Sb600Spins \/ Done

(* The driver is a thread that runs; what it waits for (the controller, the *)
(* kernel, the USB device, the grant) answers, well or with an error.       *)
Spec == Init /\ [][Next]_vars
FairSpec == Spec /\ WF_vars(Program)

-----------------------------------------------------------------------------
(* A command that succeeds was one transaction of the chip, with exactly    *)
(* the bytes given, and returns exactly the chip's answer: across the       *)
(* register orders, the rings and the bits of the masters, and although     *)
(* another user accesses the FIFO of the SB600. And what the master said it *)
(* can do (max_data_read, max_data_write) is not refused: neither a read of *)
(* so many bytes nor a page program.                                        *)
Intact ==
  result = "0" => /\ chip = <<[in |-> Writearr, out |-> Readcnt]>>
                  /\ Readcnt > 0 => readarr = Answer

MaxDataRead == [m \in {"buspirate_v1", "buspirate_v2", "ft2232", "it85spi", "sb600", "mcp6x", "rayer_spi"} |->
                  CASE m = "buspirate_v1" -> 12 [] m = "sb600" -> 8 [] OTHER -> MaxLong - 4]
MaxDataWrite == [m \in DOMAIN MaxDataRead |->
                  CASE m = "buspirate_v1" -> 12 [] m = "sb600" -> 5 [] OTHER -> MaxLong - 4]
KeepsItsWord ==
  result = "invalid length" /\ master \in DOMAIN MaxDataRead =>
    ~(\/ Writecnt = 4 /\ Readcnt <= MaxDataRead[master]
      \/ Writecnt <= 4 + MaxDataWrite[master] /\ Readcnt = 0)

CommandIntact == Intact /\ KeepsItsWord

(* However it ends, the chip is not left selected, where the next command   *)
(* would be taken for data, unless the message that deselects it was lost.  *)
NotLeftSelected == pc = "end" /\ cs => lost = "deselect"

(* The command returns. The reset of the SB600's FIFO waits for a pointer   *)
(* of 0, for ever if another user has moved it meanwhile.                   *)
CommandOver == pc = "end" \/ other > 0
=============================================================================
