------------------------------- MODULE Serprog -------------------------------
(***************************************************************************)
(* The serprog driver (serprog.c) and the programmer at the other end of   *)
(* the serial line. The host combines writes of bytes to adjacent          *)
(* addresses, passes them with the delays to the operation buffer of the   *)
(* device, counts how full that is, and has it executed before it reads.   *)
(* Buffer operations are streamed: their answers are collected later.      *)
(*                                                                         *)
(* The two run concurrently, over a FIFO each way. What is written is the  *)
(* number of the write, so that a read shows which writes came before it.  *)
(***************************************************************************)
EXTENDS Integers, SequencesExt

CONSTANTS
  Addr,            (* addresses that are written, consecutive numbers       *)
  Reads,           (* arguments of serprog_chip_readn()                     *)
  SerprogDevices,  (* the devices: sizes of their buffers, longest write    *)
                   (* and read; write_n 0: not supported, read_n 0: no limit*)
  MaxCalls,        (* bound: calls of the driver                            *)
  MaxRefusals      (* bound: commands the device refuses for reasons of its *)
                   (* own                                                   *)

Device == [opbuf : Nat, serbuf : Nat, write_n : Nat, read_n : Nat]

(* serprog_init() knows the buffer of a device, or takes it to be 300 bytes *)
(* and more than the largest single operation.                              *)
ASSUME SerprogAssumption ==
  /\ Addr \subseteq Nat
  /\ Reads \subseteq [addr : Nat, len : Nat \ {0}]
  /\ SerprogDevices \subseteq {d \in Device : d.opbuf >= 7 + d.write_n}
  /\ MaxCalls \in Nat /\ MaxRefusals \in Nat

VARIABLES
  serprog,         (* sp_device_opbuf_size, _serbuf_size, sp_max_write_n,   *)
                   (* sp_max_read_n                                         *)
  host,            (* prev: sp_prev_was_write; addr, data: sp_write_n_addr  *)
                   (* and the bytes of sp_write_n_buf; usage:               *)
                   (* sp_opbuf_usage                                        *)
  todo,            (* what the call still has to do on the line             *)
  ops, streamed,   (* sp_streamed_transmit_ops, _bytes                      *)
  asked, got, outcome,   (* the last read or SPI command, and its outcome   *)
  spc,
  link,            (* the line works                                        *)
  input, answers,  (* the line: to the device, and back                     *)
  opbuf, performed, drivers,   (* the device: buffer, what it has done to   *)
                   (* the chip, output drivers                              *)
  issued,          (* history: what the callers asked to be done to the chip*)
  naks,            (* history: why buffer operations were not taken         *)
  calls, refusals  (* bounds                                                *)

driver == <<host, todo, ops, streamed, asked, got, outcome, spc>>
device == <<opbuf, performed, drivers>>
serprogVars == <<serprog, driver, link, input, answers, device, issued, naks, calls, refusals>>

None == -1

Cmd(c, a, d, n) == [cmd |-> c, addr |-> a, data |-> d, len |-> n]
NoCmd == Cmd("none", None, << >>, 0)

(* Bytes on the line; of a buffer operation, also the bytes it takes in the *)
(* operation buffer.                                                        *)
WireBytes(c) ==
  Len(c.data) + [writeb |-> 4, writen |-> 7, delay |-> 5, exec |-> 1,
                 readb |-> 4, readn |-> 7, spi |-> 7, pin |-> 2][c.cmd]

BufferBytes(s) == FoldLeft(LAMBDA sum, c : sum + WireBytes(c), 0, s)

(* What a command does to the chip.                                         *)
Effects(c) ==
  CASE c.cmd \in {"writeb", "writen"} ->
         [k \in DOMAIN c.data |-> [addr |-> c.addr + k - 1, val |-> c.data[k]]]
    [] c.cmd = "delay" -> <<[addr |-> None, val |-> c.addr]>>
    [] OTHER -> << >>
AllEffects(s) == FlattenSeq([k \in DOMAIN s |-> Effects(s[k])])

(* The last value written to a, 0 if none.                                  *)
Content(log, a) ==
  LET writes == {k \in DOMAIN log : log[k].addr = a}
  IN IF writes = {} THEN 0 ELSE log[Max(writes)].val
Contents(log, a, n) == [k \in 1 .. n |-> Content(log, a + k - 1)]

Fresh == [prev |-> FALSE, addr |-> 0, data |-> << >>, usage |-> 0]

SerprogInit ==
  /\ serprog \in SerprogDevices
  /\ host = Fresh /\ todo = << >> /\ ops = 0 /\ streamed = 0
  /\ asked = NoCmd /\ got = << >> /\ outcome = "none" /\ spc = "idle"
  /\ link = TRUE /\ input = << >> /\ answers = << >>
  /\ opbuf = << >> /\ performed = << >> /\ drivers = TRUE
  /\ issued = << >> /\ naks = {} /\ calls = 0 /\ refusals = 0

-----------------------------------------------------------------------------
(* What a call has to do on the line, as functions of the driver's state h: *)
(* out is the sequence of things to do.                                     *)

Stream(c) == [do |-> "stream", cmd |-> c]
Docommand(c) == [do |-> "docommand", cmd |-> c]
Flush == [do |-> "flush", cmd |-> NoCmd]
Ack == [do |-> "ack", cmd |-> NoCmd]
Data == [do |-> "data", cmd |-> NoCmd]

Open == [prev |-> host.prev, addr |-> host.addr, data |-> host.data, usage |-> host.usage,
         out |-> << >>]
Do(h, item) == [h EXCEPT !.out = Append(@, item)]
Pending(h) == serprog.write_n > 0 /\ h.data # << >>

(* sp_pass_writen(). A single byte goes as a single write, and then         *)
(* sp_prev_was_write is left as it is.                                      *)
PassWriten(h) ==
  IF Len(h.data) = 1
  THEN [Do(h, Stream(Cmd("writeb", h.addr, h.data, 0))) EXCEPT !.data = << >>, !.usage = @ + 5]
  ELSE [Do(h, Stream(Cmd("writen", h.addr, h.data, 0))) EXCEPT
          !.data = << >>, !.usage = @ + 7 + Len(h.data), !.prev = FALSE]

Passed(h) == IF Pending(h) THEN PassWriten(h) ELSE h

(* sp_execute_opbuf_noflush(), sp_execute_opbuf()                           *)
ExecuteNoflush(h) ==
  [Do(Passed(h), Stream(Cmd("exec", None, << >>, 0))) EXCEPT !.usage = 0, !.prev = FALSE]
Execute(h) == Do(ExecuteNoflush(h), Flush)

(* sp_check_opbuf_usage()                                                   *)
CheckUsage(h, n) == IF serprog.opbuf <= h.usage + n THEN Execute(h) ELSE h

(* Mutant: any two writes in a row are combined.                            *)
CombineAny(h, a, v) ==
  IF h.prev THEN [h EXCEPT !.data = Append(@, v)]
  ELSE [Passed(h) EXCEPT !.prev = TRUE, !.addr = a, !.data = <<v>>]

Combine(h, a, v) ==
  IF h.prev /\ a = h.addr + Len(h.data)
  THEN [h EXCEPT !.data = Append(@, v)]
  ELSE LET p == IF h.prev /\ h.data # << >> THEN PassWriten(h) ELSE h
       IN [p EXCEPT !.prev = TRUE, !.addr = a, !.data = <<v>>]

CombinedWrite(h, a, v) ==
  LET c == Combine(h, a, v)
      checked == CheckUsage(c, 7 + Len(c.data))
  IN IF Len(checked.data) >= serprog.write_n THEN PassWriten(checked) ELSE checked

SingleWrite(h, a, v) ==
  [Do(CheckUsage(h, 6), Stream(Cmd("writeb", a, <<v>>, 0))) EXCEPT !.usage = @ + 5]

(* Everything asked for so far is on its way before a read goes out.        *)
BeforeRead(h) == IF h.usage > 0 \/ Pending(h) THEN ExecuteNoflush(h) ELSE h

Read(h, c) == Do(Do(Do(BeforeRead(h), Stream(c)), Flush), Data)
ReadN(a, n) == Cmd("readn", a, << >>, n)

(* serprog_chip_readn(): reads of at most sp_max_read_n, then the rest.     *)
ReadChunks(h, a, n) ==
  LET full == IF serprog.read_n = 0 THEN 0 ELSE (n - 1) \div serprog.read_n
      chunk(k) == ReadN(a + ((k - 1) * serprog.read_n), serprog.read_n)
      read[k \in 0 .. full] == IF k = 0 THEN h ELSE Read(read[k - 1], chunk(k))
      rest == a + (full * serprog.read_n)
  IN Read(read[full], ReadN(rest, a + n - rest))

-----------------------------------------------------------------------------
(* The calls *)

Begin(r, running) ==
  /\ host' = [prev |-> r.prev, addr |-> r.addr, data |-> r.data, usage |-> r.usage]
  /\ todo' = r.out
  /\ spc' = IF r.out = << >> THEN "idle" ELSE running
  /\ calls' = calls + 1
  /\ UNCHANGED <<serprog, ops, streamed, link, input, answers, device, naks, refusals>>

Call == spc = "idle" /\ calls < MaxCalls
Asks(c) == asked' = c /\ got' = << >> /\ outcome' = "none"

ChipWriteb(a) ==
  /\ Call
  /\ LET v == Len(issued) + 1 IN
     /\ issued' = Append(issued, [addr |-> a, val |-> v])
     /\ Begin(IF serprog.write_n > 0 THEN CombinedWrite(Open, a, v) ELSE SingleWrite(Open, a, v), "busy")
  /\ Asks(NoCmd)

Delay ==
  /\ Call
  /\ LET d == Cmd("delay", Len(issued) + 1, << >>, 0)
         checked == CheckUsage(Passed(Open), 5)
     IN /\ issued' = issued \o Effects(d)
        /\ Begin([Do(checked, Stream(d)) EXCEPT !.usage = @ + 5, !.prev = FALSE], "busy")
  /\ Asks(NoCmd)

ChipReadb(a) ==
  /\ Call
  /\ LET c == Cmd("readb", a, << >>, 1) IN Begin(Read(Open, c), "busy") /\ Asks(c)
  /\ UNCHANGED issued

ChipReadn(a, n) ==
  /\ Call
  /\ Begin(ReadChunks(Open, a, n), "busy") /\ Asks(ReadN(a, n))
  /\ UNCHANGED issued

(* serprog_spi_send_command() of one byte out and one in                    *)
SpiSendCommand ==
  /\ Call
  /\ LET c == Cmd("spi", None, <<0>>, 1)
         h == IF host.usage > 0 \/ Pending(host) THEN Execute(Open) ELSE Open
     IN Begin(Do(Do(Do(h, Docommand(c)), Ack), Data), "busy") /\ Asks(c)
  /\ UNCHANGED issued

(* serprog_shutdown(). Its result is not looked at.                         *)
Shutdown ==
  /\ Call
  /\ LET h == IF host.usage > 0 \/ Pending(host) THEN Execute(Open) ELSE Open
     IN Begin(Do(Do(h, Docommand(Cmd("pin", None, << >>, 0))), Ack), "stopping")
  /\ Asks(NoCmd)
  /\ UNCHANGED issued

Calls ==
  \/ \E a \in Addr : ChipWriteb(a) \/ ChipReadb(a)
  \/ \E r \in Reads : ChipReadn(r.addr, r.len)
  \/ Delay \/ SpiSendCommand \/ Shutdown

-----------------------------------------------------------------------------
(* The host on the line *)

Running == spc \in {"busy", "stopping"}
Next1(what) == Running /\ todo[1].do = what
AnswerKind == answers[1].kind

Advance(t) ==
  /\ todo' = t
  /\ spc' = IF t # << >> THEN spc ELSE IF spc = "stopping" THEN "stopped" ELSE "idle"
CallReturns(r) == outcome' = r /\ Advance(IF r = "error" THEN << >> ELSE Tail(todo))
Die == spc' = "died" /\ UNCHANGED todo

(* sp_stream_buffer_op() collects the answers first if too much is under    *)
(* way; so does sp_pass_writen().                                           *)
MustFlush == streamed >= WireBytes(todo[1].cmd) + serprog.serbuf

FlushFirst ==
  /\ Next1("stream") /\ link /\ MustFlush
  /\ Advance(<<Flush>> \o todo)
  /\ UNCHANGED <<serprog, host, ops, streamed, asked, got, outcome, link, input, answers, device,
                 issued, naks, calls, refusals>>

SendStream ==
  /\ Next1("stream") /\ link /\ ~MustFlush
  /\ input' = Append(input, todo[1].cmd)
  /\ ops' = ops + 1
  /\ streamed' = streamed + WireBytes(todo[1].cmd)
  /\ Advance(Tail(todo))
  /\ UNCHANGED <<serprog, host, asked, got, outcome, link, answers, device, issued, naks, calls, refusals>>

(* sp_flush_stream(): an answer for each streamed operation.                *)
FlushAnswer ==
  /\ Next1("flush") /\ link /\ ops > 0 /\ answers # << >>
  /\ answers' = Tail(answers)
  /\ IF AnswerKind = "ack" THEN ops' = ops - 1 /\ UNCHANGED <<todo, spc>> ELSE Die /\ UNCHANGED ops
  /\ UNCHANGED <<serprog, host, streamed, asked, got, outcome, link, input, device, issued, naks, calls, refusals>>

FlushDone ==
  /\ Next1("flush") /\ ops = 0
  /\ streamed' = 0
  /\ Advance(Tail(todo))
  /\ UNCHANGED <<serprog, host, ops, asked, got, outcome, link, input, answers, device, issued,
                 naks, calls, refusals>>

(* sp_docommand()                                                           *)
SendCommand ==
  /\ Next1("docommand") /\ link
  /\ input' = Append(input, todo[1].cmd)
  /\ Advance(Tail(todo))
  /\ UNCHANGED <<serprog, host, ops, streamed, asked, got, outcome, link, answers, device, issued,
                 naks, calls, refusals>>

CommandAnswer ==
  /\ Next1("ack") /\ link /\ answers # << >>
  /\ answers' = Tail(answers)
  /\ CallReturns(IF AnswerKind = "ack" THEN "ok" ELSE "error")
  /\ UNCHANGED <<serprog, host, ops, streamed, asked, got, link, input, device, issued, naks, calls, refusals>>

ReadData ==
  /\ Next1("data") /\ link /\ answers # << >>
  /\ answers' = Tail(answers)
  /\ got' = got \o answers[1].data
  /\ CallReturns("ok")
  /\ UNCHANGED <<serprog, host, ops, streamed, asked, link, input, device, issued, naks, calls, refusals>>

(* On a line that has gone dead only sp_docommand() returns an error.       *)
LineDead ==
  /\ Running /\ ~link /\ (todo[1].do = "flush" => ops > 0)
  /\ IF todo[1].do \in {"docommand", "ack"} \/ (todo[1].do = "data" /\ asked.cmd = "spi")
     THEN CallReturns("error")
     ELSE Die /\ UNCHANGED outcome
  /\ UNCHANGED <<serprog, host, ops, streamed, asked, got, link, input, answers, device, issued, naks,
                 calls, refusals>>

LinkFails ==
  /\ Running /\ link
  /\ link' = FALSE
  /\ UNCHANGED <<serprog, driver, input, answers, device, issued, naks, calls, refusals>>

HostStep ==
  \/ FlushFirst \/ SendStream \/ FlushAnswer \/ FlushDone
  \/ SendCommand \/ CommandAnswer \/ ReadData \/ LineDead

-----------------------------------------------------------------------------
(* The device takes one command after the other, and answers each.          *)

Received(c) == input # << >> /\ c = input[1] /\ input' = Tail(input)
Reply(kind, data) ==
  answers' = Append(answers, [kind |-> kind, data |-> << >>])
             \o (IF data = << >> THEN << >> ELSE <<[kind |-> "data", data |-> data]>>)
BufferOp(c) == c.cmd \in {"writeb", "writen", "delay"}
Fits(c) == BufferBytes(opbuf) + WireBytes(c) <= serprog.opbuf

Store(c) ==
  /\ Received(c) /\ BufferOp(c) /\ Fits(c)
  /\ opbuf' = Append(opbuf, c)
  /\ Reply("ack", << >>)
  /\ UNCHANGED <<serprog, driver, link, performed, drivers, issued, naks, calls, refusals>>

Overflow(c) ==
  /\ Received(c) /\ BufferOp(c) /\ ~Fits(c)
  /\ naks' = naks \cup {"overflow"}
  /\ Reply("nak", << >>)
  /\ UNCHANGED <<serprog, driver, link, device, issued, calls, refusals>>

Exec(c) ==
  /\ Received(c) /\ c.cmd = "exec"
  /\ performed' = performed \o AllEffects(opbuf)
  /\ opbuf' = << >>
  /\ Reply("ack", << >>)
  /\ UNCHANGED <<serprog, driver, link, drivers, issued, naks, calls, refusals>>

Immediate(c) ==
  /\ Received(c) /\ c.cmd \in {"readb", "readn", "spi", "pin"}
  /\ Reply("ack", CASE c.cmd \in {"readb", "readn"} -> Contents(performed, c.addr, c.len)
                    [] c.cmd = "spi" -> <<Len(performed)>>
                    [] c.cmd = "pin" -> << >>)
  /\ drivers' = (drivers /\ c.cmd # "pin")
  /\ UNCHANGED <<serprog, driver, link, opbuf, performed, issued, naks, calls, refusals>>

(* Execute operation buffer clears it, regardless of the return value.      *)
DeviceRefuses(c) ==
  /\ Received(c) /\ refusals < MaxRefusals
  /\ refusals' = refusals + 1
  /\ naks' = IF BufferOp(c) \/ c.cmd = "exec" THEN naks \cup {"refused"} ELSE naks
  /\ opbuf' = IF c.cmd = "exec" THEN << >> ELSE opbuf
  /\ Reply("nak", << >>)
  /\ UNCHANGED <<serprog, driver, link, performed, drivers, issued, calls>>

DeviceStep ==
  input # << >> /\ LET c == input[1] IN
    Store(c) \/ Overflow(c) \/ Exec(c) \/ Immediate(c) \/ DeviceRefuses(c)

SerprogNext == Calls \/ HostStep \/ LinkFails \/ DeviceStep

SerprogSpec == SerprogInit /\ [][SerprogNext]_serprogVars

-----------------------------------------------------------------------------
(* Properties *)

Sent == [k \in DOMAIN todo |-> todo[k].cmd]
Held == AllEffects(<<Cmd("writen", host.addr, host.data, 0)>>)
Replies == {k \in DOMAIN answers : answers[k].kind # "data"}

(* Combining, buffering and streaming lose nothing, double nothing and      *)
(* change no order and no address: unless the device has refused one, every *)
(* write and delay that was asked for is in exactly one place between the   *)
(* host's buffer and the chip, in the order of the calls.                   *)
Conserved ==
  naks = {} =>
    issued = performed \o AllEffects(opbuf) \o AllEffects(input) \o AllEffects(Sent) \o Held

(* A read or SPI command that returns without an error returns its own      *)
(* answer, given after everything that was asked for before it had been     *)
(* done to the chip; a lost buffer operation ends flashrom before that.     *)
ReadResult ==
  (spc = "idle" /\ outcome = "ok") =>
    got = IF asked.cmd = "spi" THEN <<Len(issued)>> ELSE Contents(issued, asked.addr, asked.len)

(* The flow control counts right: there is an answer or an unanswered       *)
(* command for each streamed operation, and for a command that is waited    *)
(* for one more; so that no driver step takes one answer for another.       *)
CountsMatch ==
  (link /\ spc # "died") =>
    Len(input) + Cardinality(Replies) = ops + (IF Running /\ todo[1].do = "ack" THEN 1 ELSE 0)

(* serprog_shutdown() leaves nothing undone, and the drivers off, unless    *)
(* the line or the device failed.                                           *)
ShutdownFlushes ==
  (spc = "stopped" /\ link /\ naks = {} /\ refusals = 0) => performed = issued /\ ~drivers

(* sp_write_n_buf, of sp_max_write_n bytes, never holds so many that the    *)
(* next byte would be written behind it, and holds none if the device does  *)
(* not take combined writes.                                                *)
BufferFits == Len(host.data) < serprog.write_n \/ host.data = << >>

(* What is asked for is done, once and in order, and what is answered is    *)
(* the answer to what was asked, which the flow control is to see to.       *)
Delivered == BufferFits /\ Conserved /\ ReadResult /\ CountsMatch /\ ShutdownFlushes

(* Every call returns, or ends flashrom: nobody waits for an answer that    *)
(* does not come.                                                           *)
SessionIdle == spc \in {"idle", "stopped", "died"}
=============================================================================
