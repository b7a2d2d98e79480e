----------------------------- MODULE SerprogSync -----------------------------
(***************************************************************************)
(* The way into a serprog session (serprog_init()): bringing the device's  *)
(* parser and the line into a known state, and asking the device what it   *)
(* is and can do. The device may still be waiting for parameters of a      *)
(* command of an earlier session, answers of that session may still be on  *)
(* the line, and any answer may come later than the driver waits for it.   *)
(*                                                                         *)
(* The answer to SYNCNOP is NAK and ACK, which no other command gives; the *)
(* driver looks for it, sends SYNCNOP once more and must then read exactly *)
(* these. The line is a FIFO each way. A byte of the answer knows which    *)
(* command it belongs to; the driver only sees what it is.                 *)
(***************************************************************************)
EXTENDS Integers, Sequences

CONSTANTS
  SyncDevices,   (* [map, buses, refuses, version]: the commands it has,    *)
                 (* its bus types, what it answers with NAK, and its        *)
                 (* interface version: "version-1" is the right one         *)
  Nops,          (* NOPs that are sent first: 8                             *)
  Tries,         (* SYNCNOPs that are tried: 8                              *)
  Scans,         (* bytes that are read, or waited for, after each: 10      *)
  MaxEaten,      (* bound: bytes the device takes for parameters            *)
  Stale,         (* what may be on the line from an earlier session         *)
  MaxLate        (* bound: answers that come after the driver has given up  *)

(* NOP and the query for the interface version are answered with ACK by     *)
(* every device (the protocol has no NAK for them); and what is left on the *)
(* line does not look like an interface version, which nothing tells from   *)
(* one.                                                                     *)
ASSUME SyncAssumption ==
  /\ {Nops, Tries, Scans, MaxEaten, MaxLate} \subseteq Nat /\ Scans > Nops /\ Tries > 0
  /\ SyncDevices # {}
  /\ \A d \in SyncDevices :
       /\ d.buses \subseteq {"spi", "nonspi"} /\ "stop" \notin d.map
       /\ {"NOP", "Q_IFACE"} \cap d.refuses = {}
  /\ Stale \subseteq Seq([byte : {"ACK", "NAK", "other"}, of : {"earlier"}])

VARIABLES
  peer,          (* the device                                              *)
  eats,          (* bytes it still takes for parameters                     *)
  told,          (* the bus types it has been told to use, and whether its  *)
  ready,         (* operation buffer is set up and its pins are driven      *)
  toPeer,        (* the line: commands,                                     *)
  toHost,        (* and bytes of answers                                    *)
  tcp,           (* ip= was given: tcflush() does nothing                   *)
  tries, scanned,
  queries,       (* what serprog_init() still has to ask                    *)
  buses,         (* serprog_buses_supported                                 *)
  syncpc,
  lates,         (* bound: answers that were not waited for                 *)
  clean          (* history: device and line were idle when it began        *)

syncVars == <<peer, eats, told, ready, toPeer, toHost, tcp, tries, scanned, queries, buses,
              syncpc, lates, clean>>

Tagged(byte, command) == [byte |-> byte, of |-> command]

SyncInit ==
  /\ peer \in SyncDevices /\ eats \in 0 .. MaxEaten
  /\ told = {"spi", "nonspi"} /\ ready = {}
  /\ toPeer = << >> /\ toHost \in Stale /\ tcp \in BOOLEAN
  /\ tries = 0 /\ scanned = 0 /\ queries = << >> /\ buses = {}
  /\ syncpc = "start" /\ lates = 0
  /\ clean = (eats = 0 /\ toHost = << >>)

-----------------------------------------------------------------------------
(* The device. How long an answer is matters only for the first query; the  *)
(* parameters of any are one here.                                          *)

Payload(c) ==
  CASE c = "Q_IFACE" -> << peer.version, peer.version >>
    [] c \in {"Q_CMDMAP", "Q_BUSTYPE", "Q_WRNMAXLEN", "Q_RDNMAXLEN", "Q_PGMNAME",
              "Q_SERBUF", "Q_OPBUF", "S_SPI_FREQ"} -> << "value" >>
    [] OTHER -> << >>

PeerSays(c) ==
  IF c = "SYNCNOP" THEN << "NAK", "ACK" >>
  ELSE IF c \in peer.refuses THEN << "NAK" >>
  ELSE << "ACK" >> \o Payload(c)

Bus(c) == CASE c = "S_BUSTYPE-spi" -> {"spi"} [] c = "S_BUSTYPE-all" -> peer.buses [] OTHER -> told

(* The last parameter completes the command of the earlier session.         *)
PeerEats ==
  /\ toPeer # << >> /\ eats > 0
  /\ eats' = eats - 1 /\ toPeer' = Tail(toPeer)
  /\ \/ eats = 1 /\ \E b \in {"ACK", "NAK"} : toHost' = Append(toHost, Tagged(b, "earlier"))
     \/ eats > 1 /\ UNCHANGED toHost
  /\ UNCHANGED <<peer, told, ready, tcp, tries, scanned, queries, buses, syncpc, lates, clean>>

PeerAnswers ==
  /\ toPeer # << >> /\ eats = 0
  /\ LET c == toPeer[1]
         a == PeerSays(c)
     IN /\ toPeer' = Tail(toPeer)
        /\ toHost' = toHost \o [k \in DOMAIN a |-> Tagged(a[k], c)]
        /\ told' = IF c \in peer.refuses THEN told ELSE Bus(c)
        /\ ready' = IF c \in {"O_INIT", "S_PIN_STATE"} \ peer.refuses THEN ready \cup {c} ELSE ready
  /\ UNCHANGED <<peer, eats, tcp, tries, scanned, queries, buses, syncpc, lates, clean>>

-----------------------------------------------------------------------------
(* sp_synchronize() *)

In(l) == syncpc = l
Transmit(s) == toPeer' = toPeer \o s
Others == UNCHANGED <<peer, eats, told, ready, tcp, queries, buses, clean>>

SendNops ==
  /\ In("start")
  /\ Transmit([k \in 1 .. Nops |-> "NOP"]) /\ syncpc' = "flush"
  /\ UNCHANGED <<toHost, tries, scanned, lates>> /\ Others

(* What has come within a second is thrown away.                            *)
FlushIncoming ==
  /\ In("flush")
  /\ \E k \in 0 .. (IF tcp THEN 0 ELSE Len(toHost)) : toHost' = SubSeq(toHost, k + 1, Len(toHost))
  /\ syncpc' = "try"
  /\ UNCHANGED <<toPeer, tries, scanned, lates>> /\ Others

Try ==
  /\ In("try")
  /\ IF tries < Tries
     THEN Transmit(<<"SYNCNOP">>) /\ tries' = tries + 1 /\ scanned' = 0 /\ syncpc' = "scan"
     ELSE syncpc' = "failed" /\ UNCHANGED <<toPeer, tries, scanned>>
  /\ UNCHANGED <<toHost, lates>> /\ Others

(* sp_sync_read_timeout(): b is "none" if nothing has come in time. A       *)
(* device that has not been asked for anything, or is waiting for more,     *)
(* says nothing; else what it says is late.                                 *)
Silent == toHost = << >> /\ toPeer = << >>
SyncRead(b) ==
  \/ /\ toHost # << >> /\ b = toHost[1].byte
     /\ toHost' = Tail(toHost) /\ UNCHANGED lates
  \/ /\ b = "none" /\ ~Silent /\ lates < MaxLate
     /\ lates' = lates + 1 /\ UNCHANGED toHost
  \/ /\ b = "none" /\ Silent
     /\ UNCHANGED <<toHost, lates>>

Bytes == {"ACK", "NAK", "other", "none"}

Scan ==
  /\ In("scan")
  /\ \/ /\ scanned < Scans
        /\ \E b \in Bytes : SyncRead(b) /\ syncpc' = (IF b = "NAK" THEN "nak" ELSE "scan")
        /\ scanned' = scanned + 1
     \/ scanned = Scans /\ syncpc' = "try" /\ UNCHANGED <<toHost, lates, scanned>>
  /\ UNCHANGED <<toPeer, tries>> /\ Others

AfterNak ==
  /\ In("nak")
  /\ \E b \in Bytes :
       /\ SyncRead(b)
       /\ IF b = "ACK" THEN Transmit(<<"SYNCNOP">>) /\ syncpc' = "confirm"
          ELSE syncpc' = "scan" /\ UNCHANGED toPeer
  /\ UNCHANGED <<tries, scanned>> /\ Others

Confirm ==
  /\ In("confirm")
  /\ \E b \in Bytes : SyncRead(b) /\ syncpc' = (IF b = "NAK" THEN "confirm-ack" ELSE "try")
  /\ UNCHANGED <<toPeer, tries, scanned>> /\ Others

(* Mutant: the NAK is enough.                                               *)
ConfirmAckNot ==
  /\ In("confirm-ack")
  /\ syncpc' = "query" /\ queries' = <<"Q_IFACE", "Q_CMDMAP", "Q_BUSTYPE">>
  /\ UNCHANGED <<peer, eats, told, ready, toPeer, toHost, tcp, tries, scanned, buses, lates, clean>>

(* Here a byte that does not come is the end of it.                         *)
ConfirmAck ==
  /\ In("confirm-ack")
  /\ \E b \in Bytes :
       /\ SyncRead(b)
       /\ CASE b = "ACK" -> syncpc' = "query" /\ queries' = <<"Q_IFACE", "Q_CMDMAP", "Q_BUSTYPE">>
            [] b = "none" -> syncpc' = "failed" /\ UNCHANGED queries
            [] OTHER -> syncpc' = "try" /\ UNCHANGED queries
  /\ UNCHANGED <<peer, eats, told, ready, toPeer, tcp, tries, scanned, buses, clean>>

-----------------------------------------------------------------------------
(* The queries of serprog_init(), each with sp_docommand() *)

Needed == {"O_INIT", "O_DELAY", "R_BYTE", "R_NBYTES", "O_WRITEB"}
Optional ==
  {"Q_BUSTYPE", "Q_WRNMAXLEN", "Q_RDNMAXLEN", "S_SPI_FREQ", "Q_PGMNAME", "Q_SERBUF", "Q_OPBUF"}

(* What is asked once the bus types b are known; "stop" where a command     *)
(* that is needed is not in the map. The speed of SPI is set if spispeed=   *)
(* was given.                                                               *)
LimitsOf == <<"Q_WRNMAXLEN", "Q_RDNMAXLEN">>
Following(b) ==
  (IF "spi" \notin b THEN << >>
   ELSE IF "O_SPIOP" \notin peer.map THEN <<"stop">>
   ELSE <<"S_BUSTYPE-spi">> \o LimitsOf \o <<"S_SPI_FREQ", "S_BUSTYPE-all">>)
  \o (IF "nonspi" \notin b THEN << >>
      ELSE IF Needed \subseteq peer.map THEN LimitsOf ELSE <<"stop">>)
  \o <<"Q_PGMNAME", "Q_SERBUF">>
  \o (IF "O_INIT" \notin peer.map THEN << >>
      ELSE IF "O_EXEC" \notin peer.map THEN <<"stop">> ELSE <<"O_INIT", "Q_OPBUF">>)
  \o (IF "S_PIN_STATE" \in peer.map THEN <<"S_PIN_STATE">> ELSE << >>)

(* A command that is not in the map is not sent, and counts as refused.     *)
Available(c) ==
  \/ c \in {"Q_IFACE", "Q_CMDMAP"} \cup peer.map
  \/ c \in {"S_BUSTYPE-spi", "S_BUSTYPE-all"} /\ "S_BUSTYPE" \in peer.map

Outcome(c, ok) ==
  IF ~ok /\ c \notin Optional THEN syncpc' = "failed" /\ UNCHANGED <<queries, buses>>
  ELSE /\ syncpc' = "query"
       /\ IF c = "Q_BUSTYPE"
          THEN /\ buses' = (IF ok THEN peer.buses ELSE {"nonspi"})
               /\ queries' = Following(IF ok THEN peer.buses ELSE {"nonspi"})
          ELSE queries' = Tail(queries) /\ UNCHANGED buses

Querying == UNCHANGED <<peer, eats, told, ready, tcp, tries, scanned, lates, clean>>

Query ==
  /\ In("query") /\ queries # << >>
  /\ IF Available(queries[1])
     THEN Transmit(<<queries[1]>>) /\ syncpc' = "answer" /\ UNCHANGED <<queries, buses>>
     ELSE Outcome(queries[1], FALSE) /\ UNCHANGED toPeer
  /\ UNCHANGED toHost /\ Querying

(* The read blocks until there is an answer.                                *)
Told ==
  /\ In("answer") /\ toHost # << >>
  /\ LET c == queries[1]
         n == Len(Payload(c))
         ok == toHost[1].byte = "ACK"
         read == SubSeq(toHost, 2, 1 + n)
     IN /\ ok => Len(toHost) > n
        /\ toHost' = SubSeq(toHost, IF ok THEN 2 + n ELSE 2, Len(toHost))
        /\ Outcome(c, ok /\ (c = "Q_IFACE" => \A k \in 1 .. n : read[k].byte = "version-1"))
  /\ UNCHANGED toPeer /\ Querying

InitDone ==
  /\ In("query") /\ queries = << >>
  /\ syncpc' = "done"
  /\ UNCHANGED <<toPeer, toHost, queries, buses>> /\ Querying

(* Reading or writing the line fails while the device is being looked for.  *)
LineFails ==
  /\ syncpc \in {"try", "scan", "nak", "confirm", "confirm-ack"} /\ lates < MaxLate
  /\ syncpc' = "failed" /\ lates' = lates + 1
  /\ UNCHANGED <<toPeer, toHost, tries, scanned>> /\ Others

SyncHost ==
  \/ SendNops \/ FlushIncoming \/ Try \/ Scan \/ AfterNak \/ Confirm \/ ConfirmAck
  \/ Query \/ Told \/ InitDone
SyncPeer == PeerEats \/ PeerAnswers
SyncNext == SyncHost \/ SyncPeer \/ LineFails

-----------------------------------------------------------------------------
(* Properties *)

(* When serprog_init() believes what a device says, it is the answer to     *)
(* what it has asked: whatever was on the line, and whichever SYNCNOP the   *)
(* answer it took belonged to, nothing but that answer is still to come. At *)
(* the end the device uses the bus types it was found to have, and is set   *)
(* up. And a device that is there, idle, answers in time and speaks this    *)
(* version is found.                                                        *)
InStep ==
  syncpc \in {"query", "answer", "done"} /\ (queries = << >> \/ queries[1] # "Q_IFACE") =>
    /\ \A k \in DOMAIN toHost : toHost[k].of = queries[1]
    /\ syncpc # "answer" => toHost = << >> /\ toPeer = << >>
SetUp ==
  syncpc = "done" =>
    /\ told = {"spi", "nonspi"} \/ told = peer.buses
    /\ "nonspi" \in buses => "O_INIT" \in ready
    /\ "S_PIN_STATE" \in peer.map => "S_PIN_STATE" \in ready
Found ==
  clean /\ lates = 0 /\ syncpc = "failed" =>
    queries # << >> /\ (queries[1] = "Q_IFACE" => peer.version # "version-1")
SessionOpens == InStep /\ SetUp /\ Found

(* The search for a device ends, whether there is one or not.               *)
SyncOver == syncpc \in {"done", "failed"}
=============================================================================
