------------------------------- MODULE IchSpi -------------------------------
(***************************************************************************)
(* The SPI controller of Intel's ICH7 and later, in software sequencing.   *)
(* The controller does not send the bytes it is given: it sends one of the *)
(* eight opcodes of a menu, with an address and data as the type of that   *)
(* opcode says, and may send one of two prefix opcodes in front, without   *)
(* letting anything in between, and wait until the chip is no longer busy. *)
(* A firmware may have locked the menu; else flashrom rewrites it as it    *)
(* goes.                                                                   *)
(*                                                                         *)
(* The host runs one multicommand after the other; the controller does its *)
(* part on its own and may be slow: a cycle the host no longer waits for   *)
(* goes on.                                                                *)
(***************************************************************************)
EXTENDS Integers, Sequences, SequencesExt

CONSTANTS
  Opcodes,        (* the opcodes of SPI chips                               *)
  Calls,          (* multicommands: sequences of [op, args, readcnt], where *)
                  (* op and args are the bytes to write                     *)
  LockedMenus,    (* what firmwares leave behind: [preop, op, type]         *)
  Bbars,          (* the lowest address the controller lets through         *)
  MaxData,        (* max_data_read and max_data_write                       *)
  MaxCalls        (* bound on the multicommands of one run                  *)

VARIABLES
  lock,           (* ichspi_lock                                            *)
  bbar,           (* ichspi_bbar                                            *)
  curopcodes,     (* [preop, op, type, atomic]: 0, or 1 + the prefix to use *)
  menu,           (* the controller's PREOP, OPMENU and OPTYPE              *)
  asked,          (* the calls so far                                       *)
  cmds,           (* what is left of the last one                           *)
  pc,             (* "idle", "next", "scip" or "poll"                       *)
  oppos,          (* the index of the command in curopcodes                 *)
  ret,            (* what the last call returns                             *)
  cycle,          (* what the controller has left to send: [preops, index,  *)
                  (* n] with the number of the call, or NoCycle             *)
  cds, fcerr,     (* Cycle Done Status and Flash Cycle Error                *)
  spia, spid,     (* address and data registers; spid.in is an answer       *)
  readarr,        (* [to, from]: the last command that has read data, and   *)
                  (* the command that data answers                          *)
  chip,           (* what the chip has received: [call, op, args, readcnt]  *)
  failed,         (* the controller has failed or kept the host waiting     *)
  torn            (* the menu was rewritten while a cycle was in progress:  *)
                  (* the cycle may use the new one                          *)

hostVars == <<lock, bbar, curopcodes, asked, cmds, pc, oppos, ret, readarr>>
ctrlVars == <<menu, cycle, cds, fcerr, spia, spid, chip>>
vars == <<hostVars, ctrlVars, failed, torn>>

Slots == 0 .. 7
SpiTypes == {"read", "read_address", "write", "write_address"}
NoCycle == [preops |-> <<>>, index |-> -1, call |-> 0, readcnt |-> 0]
Nothing == [call |-> 0, op |-> "none", args |-> <<>>, readcnt |-> 0]

WithAddress(type) == type \in {"read_address", "write_address"}
Writes(type) == type \in {"write", "write_address"}

PossibleOpcodes ==
  [BYTE_PROGRAM |-> "write_address", READ |-> "read_address",
   BE_D8 |-> "write_address", RDSR |-> "read", REMS |-> "read_address",
   WRSR |-> "write", RDID |-> "read", CE_C7 |-> "write", SE |-> "write_address",
   BE_52 |-> "write_address", AAI |-> "write"]

DefaultOps == <<"BYTE_PROGRAM", "READ", "BE_D8", "RDSR", "REMS", "WRSR", "RDID", "CE_C7">>
O_ST_M25P ==
  [preop |-> <<"WREN", "EWSR">>, op |-> [i \in Slots |-> DefaultOps[i + 1]],
   type |-> [i \in Slots |-> PossibleOpcodes[DefaultOps[i + 1]]],
   atomic |-> [i \in Slots |-> 0]]

-----------------------------------------------------------------------------
Writecnt(c) == 1 + Len(c.args)

(* The opcodes the program knows have a type, that of others is guessed.    *)
SpiType(c) ==
  CASE c.op \in DOMAIN PossibleOpcodes -> PossibleOpcodes[c.op]
    [] c.op \notin DOMAIN PossibleOpcodes /\ c.readcnt = 0 -> "write"
    [] c.op \notin DOMAIN PossibleOpcodes /\ c.readcnt > 0 /\ Writecnt(c) = 1 -> "read"
    [] c.op \notin DOMAIN PossibleOpcodes /\ c.readcnt > 0 /\ Writecnt(c) = 4 -> "read_address"
    [] OTHER -> "invalid"

Commands == [op : Opcodes, args : Seq(Nat), readcnt : Nat]
Menus == [preop : Opcodes \X Opcodes, op : [Slots -> Opcodes], type : [Slots -> SpiTypes]]
Preops == {m.preop : m \in LockedMenus} \cup {O_ST_M25P.preop}

(* What stands on a menu as a prefix is a whole command when another one    *)
(* follows it; the last may have an address, as the block erase with 0x50,  *)
(* the opcode of EWSR, has, which is sent alone. At most the first of a call's commands is one of two *)
(* prefixes in a row. An opcode that is used in two ways has the same type  *)
(* in both. And no caller has 256 bytes for one command, or wants them: the *)
(* count would not fit.                                                     *)
ASSUME CallsAssumption ==
  /\ DOMAIN PossibleOpcodes \cup {"WREN", "EWSR"} \subseteq Opcodes
  /\ Calls \subseteq Seq(Commands) /\ LockedMenus \subseteq Menus
  /\ \A k \in Calls, p \in Preops :
       LET P == {i \in DOMAIN k : k[i].op \in {p[1], p[2]}}
       IN /\ \A i \in P : i < Len(k) => k[i].args = <<>> /\ k[i].readcnt = 0
          /\ \A i \in P : i > 1 => i + 1 \notin P
  /\ \A k \in Calls : \A i \in DOMAIN k : Len(k[i].args) < 256 /\ k[i].readcnt < 256
  /\ \A k, l \in Calls : \A i \in DOMAIN k, j \in DOMAIN l :
       k[i].op = l[j].op => SpiType(k[i]) = SpiType(l[j]) \/ "invalid" \in {SpiType(k[i]), SpiType(l[j])}

First(S) == IF S = {} THEN -1 ELSE CHOOSE i \in S : \A j \in S : i <= j
FindOpcode(ops, op) == First({i \in Slots : ops.op[i] = op})
FindPreop(ops, op) == First({i \in 0 .. 1 : ops.preop[i + 1] = op})

(* The third opcode gives way.                                              *)
Reprogrammed(c) == [curopcodes EXCEPT !.op[2] = c.op, !.type[2] = SpiType(c)]

ProgramOpcodes(ops) == [preop |-> ops.preop, op |-> ops.op, type |-> ops.type]

GenerateOpcodes(m) ==
  [preop |-> m.preop, op |-> m.op, type |-> m.type, atomic |-> [i \in Slots |-> 0]]

MissingOpcodes(m) == FindOpcode(m, "READ") = -1 \/ FindOpcode(m, "RDSR") = -1

Init ==
  /\ lock \in BOOLEAN /\ bbar \in Bbars
  /\ menu \in (IF lock THEN LockedMenus ELSE {ProgramOpcodes(O_ST_M25P)})
  /\ curopcodes = (IF lock THEN GenerateOpcodes(menu) ELSE O_ST_M25P)
  /\ asked = <<>> /\ cmds = <<>> /\ pc = "idle" /\ oppos = -1 /\ ret = 0
  /\ cycle = NoCycle /\ cds = FALSE /\ fcerr = FALSE
  /\ spia = <<>> /\ spid = [out |-> <<>>, in |-> Nothing]
  /\ readarr = [to |-> Nothing, from |-> Nothing] /\ chip = <<>>
  /\ failed = FALSE /\ torn = FALSE

-----------------------------------------------------------------------------
(* ich_spi_send_multicommand(): a command that is a prefix opcode is not    *)
(* sent but noted at the opcode it goes with.                               *)
Call ==
  /\ pc = "idle" /\ Len(asked) < MaxCalls
  /\ \E k \in Calls : asked' = Append(asked, k) /\ cmds' = k
  /\ pc' = "next" /\ ret' = 0 /\ failed' = FALSE
  /\ UNCHANGED <<lock, bbar, curopcodes, oppos, readarr, ctrlVars, torn>>

Return ==
  /\ pc = "next" /\ (cmds = <<>> \/ ret # 0)
  /\ pc' = "idle"
  /\ UNCHANGED <<lock, bbar, curopcodes, asked, cmds, oppos, ret, readarr, ctrlVars, failed, torn>>

Begins == pc = "next" /\ cmds # <<>> /\ ret = 0
HasNext == Len(cmds) > 1
PreopPos == IF HasNext THEN FindPreop(curopcodes, cmds[1].op) ELSE -1
NextOpPos == IF HasNext THEN FindOpcode(curopcodes, cmds[2].op) ELSE -1

(* Two prefix opcodes, one after the other: the first is ignored.           *)
IgnorePreop ==
  /\ Begins /\ PreopPos # -1 /\ NextOpPos = -1
  /\ FindPreop(curopcodes, cmds[2].op) # -1
  /\ cmds' = Tail(cmds)
  /\ UNCHANGED <<lock, bbar, curopcodes, asked, pc, oppos, ret, readarr, ctrlVars, failed, torn>>

(* The menu is written without a look at whether a cycle is in progress.    *)
Rewrite(m) ==
  /\ menu' = m
  /\ torn' = (torn \/ (cycle # NoCycle /\ m # menu))

(* An opcode that is not on the menu is put there before it is its turn.    *)
(* A guess that fails (no caller asks for it) would index opcode[-4].       *)
NeedsSlot ==
  /\ Begins /\ PreopPos # -1 /\ NextOpPos = -1
  /\ FindPreop(curopcodes, cmds[2].op) = -1 /\ ~lock

ReprogramForPreop ==
  /\ NeedsSlot
  /\ SpiType(cmds[2]) # "invalid"
  /\ curopcodes' = [Reprogrammed(cmds[2]) EXCEPT !.atomic[2] = PreopPos + 1]
  /\ Rewrite(ProgramOpcodes(Reprogrammed(cmds[2])))
  /\ cmds' = Tail(cmds)
  /\ UNCHANGED <<lock, bbar, asked, pc, oppos, ret, readarr, cycle, cds, fcerr, spia, spid, chip, failed>>

PairPreop ==
  /\ Begins /\ PreopPos # -1 /\ NextOpPos # -1
  /\ curopcodes' = [curopcodes EXCEPT !.atomic[NextOpPos] = PreopPos + 1]
  /\ cmds' = Tail(cmds)
  /\ UNCHANGED <<lock, bbar, asked, pc, oppos, ret, readarr, ctrlVars, failed, torn>>

(* After each command that was sent, or refused, no opcode has a prefix.    *)
NonAtomic(ops) == [ops EXCEPT !.atomic = [i \in Slots |-> 0]]

IsCommand ==
  /\ Begins
  /\ PreopPos # -1 => NextOpPos = -1 /\ FindPreop(curopcodes, cmds[2].op) = -1 /\ lock

-----------------------------------------------------------------------------
(* ich_spi_send_command()                                                   *)

(* Mutant: only opcodes with a prefix are put on the menu.                  *)
TableForListed(c) == curopcodes
(* The table after find_opcode() and reprogram_opcode_on_the_fly().         *)
TableFor(c) ==
  IF FindOpcode(curopcodes, c.op) = -1 /\ ~lock /\ SpiType(c) # "invalid"
  THEN Reprogrammed(c) ELSE curopcodes

Address(args) == 65536 * args[1] + 256 * args[2] + args[3]

(* Mutant: a write command may have bytes to read.                          *)
SizeFitsWrites(type, c) ==
  /\ type = "read_address" => Writecnt(c) = 4
  /\ type = "read" => Writecnt(c) = 1
  /\ type = "write_address" => Writecnt(c) >= 4
(* Only these numbers of bytes to write and to read can be sent.            *)
SizeFits(type, c) ==
  /\ type = "read_address" => Writecnt(c) = 4
  /\ type = "read" => Writecnt(c) = 1
  /\ type = "write_address" => Writecnt(c) >= 4
  /\ Writes(type) => c.readcnt = 0

DataLength(type, c) ==
  CASE type = "write" -> Writecnt(c) - 1
    [] type = "write_address" -> Writecnt(c) - 4
    [] OTHER -> c.readcnt
(* run_opcode() takes it as a byte, before it looks at the limit.           *)
Carried(type, c) == DataLength(type, c) % 256

Accepted(c) ==
  LET i == FindOpcode(TableFor(c), c.op)
  IN /\ i # -1
     /\ LET type == TableFor(c).type[i]
        IN /\ SizeFits(type, c)
           /\ WithAddress(type) => Address(c.args) >= bbar
           /\ Carried(type, c) <= MaxData

Refuse ==
  /\ IsCommand /\ ~Accepted(cmds[1])
  /\ curopcodes' = NonAtomic(TableFor(cmds[1]))
  /\ Rewrite(ProgramOpcodes(TableFor(cmds[1])))
  /\ ret' = 1 /\ cmds' = Tail(cmds)
  /\ UNCHANGED <<lock, bbar, asked, pc, oppos, readarr, cycle, cds, fcerr, spia, spid, chip, failed>>

Accept ==
  /\ IsCommand /\ Accepted(cmds[1])
  /\ curopcodes' = TableFor(cmds[1])
  /\ Rewrite(ProgramOpcodes(TableFor(cmds[1])))
  /\ oppos' = FindOpcode(TableFor(cmds[1]), cmds[1].op)
  /\ pc' = "scip"
  /\ UNCHANGED <<lock, bbar, asked, cmds, ret, readarr, cycle, cds, fcerr, spia, spid, chip, failed>>

-----------------------------------------------------------------------------
(* run_opcode(), which does the same on ICH7 and on later controllers       *)
Finish(r) ==
  /\ ret' = r /\ pc' = "next" /\ cmds' = Tail(cmds)
  /\ curopcodes' = NonAtomic(curopcodes)

(* Mutant: the host waits for the controller as long as it takes.           *)
ScipTimeoutNever == FALSE /\ UNCHANGED vars
(* Mutant: the controller may still be at the last command.                 *)
ReadyAlways == TRUE
(* SPIS_SCIP, SSFS_SCIP: a cycle is in progress.                            *)
Ready == cycle = NoCycle

ScipTimeout ==
  /\ pc = "scip" /\ ~Ready
  /\ Finish(1)
  /\ failed' = TRUE
  /\ UNCHANGED <<lock, bbar, asked, oppos, readarr, ctrlVars, torn>>

(* SCGO does nothing while a cycle is in progress.                          *)
Start ==
  /\ pc = "scip" /\ Ready
  /\ LET c == cmds[1]
         type == curopcodes.type[oppos]
         count == Carried(type, c)
     IN /\ spia' = (IF WithAddress(type) THEN SubSeq(c.args, 1, 3) ELSE <<0, 0, 0>>)
        /\ spid' = (IF type = "write" THEN [spid EXCEPT !.out = SubSeq(c.args, 1, count)]
                    ELSE IF type = "write_address" THEN [spid EXCEPT !.out = SubSeq(c.args, 4, 3 + count)]
                    ELSE spid)
        /\ cycle' = IF cycle # NoCycle THEN cycle ELSE
                    [preops |-> IF curopcodes.atomic[oppos] = 0 THEN <<>> ELSE <<curopcodes.atomic[oppos]>>,
                     index |-> FindOpcode(menu, c.op), call |-> Len(asked),
                     readcnt |-> IF Writes(type) THEN 0 ELSE count]
  /\ cds' = FALSE /\ fcerr' = FALSE
  /\ pc' = "poll"
  /\ UNCHANGED <<lock, bbar, curopcodes, menu, asked, cmds, oppos, ret, readarr, chip, failed, torn>>

PollTimeout ==
  /\ pc = "poll" /\ ~cds /\ ~fcerr
  /\ Finish(1)
  /\ failed' = TRUE
  /\ UNCHANGED <<lock, bbar, asked, oppos, readarr, ctrlVars, torn>>

CycleError ==
  /\ pc = "poll" /\ fcerr
  /\ fcerr' = FALSE
  /\ Finish(1)
  /\ UNCHANGED <<lock, bbar, menu, asked, oppos, readarr, cycle, cds, spia, spid, chip, failed, torn>>

CycleDone ==
  /\ pc = "poll" /\ cds /\ ~fcerr
  /\ IF ~Writes(curopcodes.type[oppos]) /\ Carried(curopcodes.type[oppos], cmds[1]) > 0
     THEN readarr' = [to |-> [call |-> Len(asked), op |-> cmds[1].op, args |-> cmds[1].args, readcnt |-> cmds[1].readcnt],
                      from |-> spid.in]
     ELSE UNCHANGED readarr
  /\ Finish(0)
  /\ UNCHANGED <<lock, bbar, asked, oppos, ctrlVars, failed, torn>>

-----------------------------------------------------------------------------
(* The controller: it sends the prefix, then the opcode, and is done when   *)
(* the chip has taken it.                                                   *)
Received(op, args, n) == Append(chip, [call |-> cycle.call, op |-> op, args |-> args, readcnt |-> n])

SendPreop ==
  /\ cycle # NoCycle /\ cycle.preops # <<>>
  /\ chip' = Received(menu.preop[cycle.preops[1]], <<>>, 0)
  /\ cycle' = [cycle EXCEPT !.preops = <<>>]
  /\ UNCHANGED <<hostVars, menu, cds, fcerr, spia, spid, failed, torn>>

Sent ==
  LET type == menu.type[cycle.index]
  IN (IF WithAddress(type) THEN spia ELSE <<>>) \o (IF Writes(type) THEN spid.out ELSE <<>>)

SendOpcode ==
  /\ cycle # NoCycle /\ cycle.preops = <<>>
  /\ chip' = Received(menu.op[cycle.index], Sent, cycle.readcnt)
  /\ spid' = (IF Writes(menu.type[cycle.index]) THEN spid ELSE [spid EXCEPT !.in = Last(chip')])
  /\ cycle' = NoCycle /\ cds' = TRUE
  /\ UNCHANGED <<hostVars, menu, fcerr, spia, failed, torn>>

CycleFails ==
  /\ cycle # NoCycle
  /\ fcerr' = TRUE /\ cycle' = NoCycle /\ failed' = TRUE
  /\ UNCHANGED <<hostVars, menu, cds, spia, spid, chip, torn>>

Host ==
  Call \/ Return \/ IgnorePreop \/ ReprogramForPreop \/ PairPreop \/ Refuse \/ Accept
  \/ ScipTimeout \/ Start \/ PollTimeout \/ CycleError \/ CycleDone
Controller == SendPreop \/ SendOpcode \/ CycleFails

Next == Host \/ Controller

Spec == Init /\ [][Next]_vars
-----------------------------------------------------------------------------
FairSpec == Spec /\ WF_vars(Host)

Entry(n, i) ==
  [call |-> n, op |-> asked[n][i].op, args |-> asked[n][i].args, readcnt |-> asked[n][i].readcnt]

(* The chip has received the commands of call n from the one behind the dth *)
(* to the jth, one after the other, once, and no other for this call.       *)
Took(n, d, j) ==
  \E o \in -d .. Len(chip) - j :
    /\ \A i \in 1 .. Len(chip) : chip[i].call = n <=> i - o \in d + 1 .. j
    /\ \A i \in d + 1 .. j : chip[o + i] = Entry(n, i)

(* The first of two prefixes in a row may be left out: the code says that   *)
(* it ignores it. No chip function sends two.                               *)
TwoPreops(n) ==
  \E i \in 1 .. Len(asked[n]) - 1 : \A j \in {i, i + 1} : FindPreop(curopcodes, asked[n][j].op) # -1
Seen(n, j) == Took(n, 0, j) \/ (j > 0 /\ TwoPreops(n) /\ Took(n, 1, j))

(* A call that returns 0 has had all its commands sent to the chip, and no  *)
(* other: also those that were not on the menu, and those that were kept    *)
(* back to go in front of the next.                                         *)
AsAsked ==
  LET n == Len(asked)
  IN pc = "idle" /\ n > 0 /\ ret = 0 => Seen(n, Len(asked[n]))

(* Whatever fails or is late, the chip sees the commands in the order in    *)
(* which they were asked for, each at most once, with its bytes, and none   *)
(* whose prefix it has not seen before or that nobody asked for: unless the *)
(* menu was rewritten under a cycle the host no longer waited for.          *)
InOrder ==
  /\ \A i, j \in 1 .. Len(chip) : i < j => chip[i].call <= chip[j].call
  /\ ~torn => \A n \in 1 .. Len(asked) : \E j \in 0 .. Len(asked[n]) : Seen(n, j)

(* The bytes a read command returns are the chip's answer to this command,  *)
(* not to one the host gave up waiting for.                                 *)
OwnAnswer == readarr.to = readarr.from

(* If the menu is not locked, every call whose commands the controller can  *)
(* send succeeds: no order of calls leaves the menu in a state in which     *)
(* one of them is refused.                                                  *)
Sendable(c) ==
  /\ SpiType(c) # "invalid" /\ SizeFits(SpiType(c), c)
  /\ DataLength(SpiType(c), c) <= MaxData
  /\ WithAddress(SpiType(c)) => Address(c.args) >= bbar
UnlockedTakesAll ==
  LET n == Len(asked)
  IN pc = "idle" /\ n > 0 /\ ~lock /\ ~failed /\ (\A i \in 1 .. Len(asked[n]) : Sendable(asked[n][i]))
       => ret = 0

(* Every call returns, whatever the controller does.                        *)
Termination == [](pc # "idle" => <>(pc = "idle"))
=============================================================================
