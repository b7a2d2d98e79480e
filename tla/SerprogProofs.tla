---------------------------- MODULE SerprogProofs ----------------------------
(***************************************************************************)
(* Proofs about a session with a serprog device, for every device, every   *)
(* set of addresses and reads, any number of calls and of refusals, and a  *)
(* line that may go dead.                                                  *)
(*                                                                         *)
(* The invariant follows everything that was asked for on its way: what    *)
(* writes and delays do to the chip (Conserved), what the reads owe the    *)
(* caller (Accounted), and where on the way the operation buffer is        *)
(* executed (Pipeline). The flow control is right because of the shape     *)
(* that the driver's list has at every moment (TodoShape, TodoEnds).       *)
(***************************************************************************)
EXTENDS SpiProgrammers, SequenceTheorems, FiniteSetTheorems, WellFoundedInduction, TLAPS

-----------------------------------------------------------------------------
(* Arithmetic.                                                              *)

(* Division with remainder.                                                 *)
LEMMA DivMod ==
  ASSUME NEW a \in Nat, NEW p \in Nat \ {0}
  PROVE  a = p * (a \div p) + (a % p) /\ a % p \in 0 .. p - 1 /\ a \div p \in Nat
  OBVIOUS

(* A set of numbers has a least one.                                        *)
LEMMA LeastIndex ==
  ASSUME NEW T, T \subseteq Nat, T # {}
  PROVE  \E n \in T : \A m \in T : n <= m
  <1> DEFINE Less == {mn \in Nat \X Nat : mn[1] < mn[2]}
  <1>1. IsWellFoundedOn(Less, Nat)
    BY NatLessThanWellFounded DEF OpToRel
  <1> HIDE DEF Less
  <1>2. PICK n \in T : \A m \in T : <<m, n>> \notin Less
    BY <1>1, WFMin
  <1>3. \A m \in T : ~(m < n)
    BY <1>2 DEF Less
  <1> QED BY <1>3

-----------------------------------------------------------------------------
(* Commands and what is to be done with them.                               *)
StoredKinds == {"writeb", "writen", "delay"}
ReadKinds == {"readb", "readn"}
SerCmd(kinds) == {c \in [cmd : kinds, addr : Int, data : Seq(Nat), len : Nat] :
                    c.cmd \in ReadKinds => c.len > 0}
Streamed == StoredKinds \cup ReadKinds \cup {"exec"}
AnyCmd == SerCmd(Streamed \cup {"spi", "pin"})
ListedCmd == SerCmd(Streamed \cup {"spi", "pin", "none"})
Item ==
  {Flush, Ack, Data} \cup [do : {"stream"}, cmd : SerCmd(Streamed)]
  \cup [do : {"docommand"}, cmd : SerCmd({"spi", "pin"})]
Event == [addr : Int, val : Int]
OnLine == [kind : {"ack", "nak"}, data : {<< >>}] \cup [kind : {"data"}, data : Seq(Int)]
HostState == [prev : BOOLEAN, addr : Nat, data : Seq(Nat), usage : Nat]
Wants == {NoCmd} \cup [cmd : ReadKinds \cup {"spi"}, addr : Int, data : Seq(Nat), len : Nat]

SerprogType ==
  /\ serprog \in SerprogDevices
  /\ host \in HostState /\ todo \in Seq(Item) /\ ops \in Nat
  /\ asked \in Wants /\ got \in Seq(Int) /\ outcome \in {"none", "ok", "error"}
  /\ spc \in {"idle", "busy", "stopping", "stopped", "died"}
  /\ input \in Seq(AnyCmd) /\ answers \in Seq(OnLine)
  /\ opbuf \in Seq(SerCmd(StoredKinds)) /\ performed \in Seq(Event) /\ issued \in Seq(Event)
  /\ refusals \in Nat

(* Bytes are held only while writes are being combined.                     *)
HostFits ==
  /\ host.data # << >> => host.prev
  /\ serprog.write_n = 0 => host.data = << >>
  /\ BufferFits

-----------------------------------------------------------------------------
(* The driver's list: what an entry comes after, what does not come after   *)
(* it, and that a read is waited for.                                       *)
Awaits(item) == item.do \in {"docommand", "ack", "data"}
IsAnswer(item) == item.do \in {"ack", "data"}
IsImmediate(c) == c.cmd \in ReadKinds \cup {"spi", "pin"}

TodoShape(t) ==
  /\ \A k \in 2 .. Len(t) :
       /\ t[k].do = "data" => t[k - 1].do \in {"flush", "ack"}
       /\ t[k].do = "ack" <=> t[k - 1].do = "docommand"
       /\ t[k].do = "docommand" => t[k - 1].do = "flush"
  /\ \A k \in 1 .. Len(t) :
       /\ t[k].do = "docommand" => Len(t) <= k + 2
       /\ t[k].do = "ack" => Len(t) <= k + 1
  /\ \A k \in 1 .. Len(t) : \A m \in 1 .. Len(t) :
       k < m /\ Awaits(t[k]) => ~BufferOp(t[m].cmd) /\ t[m].cmd.cmd # "exec"
  /\ \A k \in 1 .. Len(t) : IsImmediate(t[k].cmd) => \E m \in 1 .. Len(t) : m > k /\ IsAnswer(t[m])
Waits(t) == \E k \in 1 .. Len(t) : Awaits(t[k])

(* How the list ends, and what that says about the call.                    *)
TodoEnds ==
  /\ TodoShape(todo)
  /\ spc \in {"idle", "stopped"} => todo = << >>
  /\ Running => todo # << >> /\ outcome # "error"
  /\ spc = "busy" /\ Waits(todo) => todo[Len(todo)].do = "data"
  /\ spc = "stopping" =>
       /\ todo[Len(todo)].do = "ack"
       /\ \A k \in 1 .. Len(todo) : todo[k].do # "data"
  /\ Running /\ outcome = "ok" => spc = "busy" /\ todo[Len(todo)].do = "data"
  /\ Running => \A k \in 1 .. Len(todo) :
                  todo[k].do = "docommand" => (todo[k].cmd.cmd = "pin") = (spc = "stopping")

-----------------------------------------------------------------------------
(* What is on its way to the chip.                                          *)
Settled(s) ==
  \A j \in 1 .. Len(s) : \A k \in 1 .. Len(s) :
    j < k /\ BufferOp(s[j]) /\ IsImmediate(s[k]) => \E m \in 1 .. Len(s) :
                                                      j < m /\ m < k /\ s[m].cmd = "exec"
NoneBehind(s) ==
  \A j \in 1 .. Len(s) : \A k \in 1 .. Len(s) : k < j /\ IsImmediate(s[k]) => ~BufferOp(s[j])
Drained(s) ==
  \A j \in 1 .. Len(s) : BufferOp(s[j]) => \E m \in 1 .. Len(s) : j < m /\ s[m].cmd = "exec"

OnTheWay == opbuf \o input \o Sent
Pipeline ==
  /\ Settled(OnTheWay) /\ NoneBehind(OnTheWay)
  /\ host.usage = 0 => Drained(OnTheWay)
  /\ (\E k \in 1 .. Len(input) :
        IsImmediate(input[k])) => \E m \in 1 .. Len(todo) : IsAnswer(todo[m])

(* What a command owes its caller, and what an answer brings.               *)
Promise(log, c) ==
  CASE c.cmd \in ReadKinds -> Contents(log, c.addr, c.len)
    [] c.cmd = "spi" -> <<Len(log)>>
    [] OTHER -> << >>
Owes(log, c) == IF c.cmd \in ReadKinds \cup {"spi"} THEN <<Promise(log, c)>> ELSE << >>
Brings(a) == IF a.kind = "data" THEN <<a.data>> ELSE << >>
AllOwed(log, s) == FlattenSeq([k \in DOMAIN s |-> Owes(log, s[k])])
AllBrought(s) == FlattenSeq([k \in DOMAIN s |-> Brings(s[k])])
AllWanted(t) == FlattenSeq([k \in DOMAIN t |-> IF t[k].do = "data" THEN <<0>> ELSE << >>])
Owed == AllBrought(answers) \o AllOwed(issued, OnTheWay)
Naked == \E k \in 1 .. Len(answers) : answers[k].kind = "nak"
Accounted ==
  ~Naked => /\ Len(Owed) = Len(AllWanted(todo))
            /\ outcome # "error" => got \o FlattenSeq(Owed) = Promise(issued, asked)

(* A command that is waited for is alone on the line.                       *)
AckAlone ==
  Running /\ todo[1].do = "ack" =>
    /\ naks = {}
    /\ \/ /\ Len(input) = 1 /\ answers = << >>
          /\ input[1].cmd = IF spc = "stopping" THEN "pin" ELSE "spi"
       \/ /\ input = << >> /\ Len(answers) \in {1, 2}
          /\ answers[1].kind = "nak" => Len(answers) = 1
          /\ answers[1].kind # "data" /\ (Len(answers) = 2 => answers[2].kind = "data")
          /\ answers[1].kind = "ack" /\ spc = "stopping" => ~drivers

(* While the line works and the driver goes on.                             *)
Flow ==
  /\ CountsMatch
  /\ Running /\ Awaits(todo[1]) => ops = 0
  /\ Waits(todo) \/ spc = "stopped" => host.usage = 0 /\ host.data = << >>
  /\ host.usage = 0 =>
       /\ \A k \in 1 .. Len(todo) :
            todo[k].do = "stream" => \E m \in 1 .. Len(todo) : m > k /\ todo[m].do = "flush"
       /\ ops > 0 => \E m \in 1 .. Len(todo) : todo[m].do = "flush"
  /\ naks # {} => Naked
Working == link /\ spc # "died"

SerprogInv ==
  /\ SerprogType /\ HostFits /\ TodoEnds
  /\ Conserved /\ ReadResult
  /\ Naked => refusals > 0 \/ naks # {}
  /\ Working => Flow /\ Pipeline /\ Accounted /\ AckAlone /\ ShutdownFlushes

-----------------------------------------------------------------------------
(* Sequences that are joined.                                               *)

(* What holds at 0, and at n + 1 if at n, holds everywhere.                 *)
LEMMA Climb ==
  ASSUME NEW T, 0 \in T, \A n \in Nat : n \in T => n + 1 \in T
  PROVE  Nat \subseteq T
  <1>1. SUFFICES ASSUME ~(Nat \subseteq T) PROVE FALSE
    OBVIOUS
  <1>2. Nat \ T \subseteq Nat /\ Nat \ T # {}
    BY <1>1
  <1>3. PICK n \in Nat \ T : \A m \in Nat \ T : n <= m
    BY <1>2, LeastIndex
  <1>4. n # 0 /\ n \in Nat
    BY <1>3
  <1>5. n - 1 \in Nat /\ n - 1 < n /\ (n - 1) + 1 = n
    BY <1>4
  <1>6. n - 1 \in T
    BY <1>3, <1>5
  <1> QED BY <1>3, <1>5, <1>6

(* What FlattenSeq computes on the way.                                     *)
JoinUpto(g, s, n) == g = [j \in 1 .. n |-> IF j = 1 THEN s[j] ELSE g[j - 1] \o s[j]]

SameUpto(s, t, n) == \A j \in 1 .. n : s[j] = t[j]

(* There is such a function.                                                *)
LEMMA JoinExists ==
  ASSUME NEW B, NEW s \in Seq(Seq(B))
  PROVE  \E g : JoinUpto(g, s, Len(s))
  <1> DEFINE T == {n \in Nat : \E g : JoinUpto(g, s, n)}
  <1>1. 0 \in T
    <2>1. JoinUpto([j \in 1 .. 0 |-> s[j]], s, 0)
      BY DEF JoinUpto
    <2> QED BY <2>1
  <1>2. ASSUME NEW n \in Nat, n \in T PROVE n + 1 \in T
    <2>2. PICK g : JoinUpto(g, s, n)
      BY <1>2
    <2> DEFINE h == [j \in 1 .. n + 1 |->
                      IF j <= n THEN g[j] ELSE IF j = 1 THEN s[j] ELSE g[n] \o s[j]]
               r == [j \in 1 .. n + 1 |-> IF j = 1 THEN s[j] ELSE h[j - 1] \o s[j]]
    <2>3. ASSUME NEW j \in 1 .. n + 1 PROVE h[j] = r[j]
      <3>1. CASE j = 1
        BY <2>2, <3>1 DEF JoinUpto
      <3>2. CASE j # 1 /\ j <= n
        <4>1. j \in 1 .. n /\ j - 1 \in 1 .. n /\ j - 1 \in 1 .. n + 1
          BY <3>2
        <4>2. h[j] = g[j] /\ h[j - 1] = g[j - 1]
          BY <4>1
        <4>3. g[j] = g[j - 1] \o s[j]
          BY <2>2, <3>2, <4>1 DEF JoinUpto
        <4> QED BY <3>2, <4>2, <4>3
      <3>3. CASE j # 1 /\ j = n + 1
        <4>1. n \in 1 .. n + 1 /\ n \in 1 .. n /\ j - 1 = n /\ ~(j <= n)
          BY <3>3
        <4>2. h[n] = g[n]
          BY <4>1
        <4> QED BY <3>3, <4>1, <4>2
      <3> QED BY <3>1, <3>2, <3>3
    <2>4. h = r
      BY <2>3
    <2>5. JoinUpto(h, s, n + 1)
      BY ONLY <2>4 DEF JoinUpto
    <2> QED BY <2>5
  <1>3. Nat \subseteq T
    <2> HIDE DEF T
    <2> QED BY <1>1, <1>2, Climb
  <1> QED BY <1>3

(* FlattenSeq takes the last of its values.                                 *)
LEMMA Flattens ==
  ASSUME NEW B, NEW s \in Seq(Seq(B)), s # << >>
  PROVE  \E g : JoinUpto(g, s, Len(s)) /\ FlattenSeq(s) = g[Len(s)]
  <1>1. Len(s) # 0
    OBVIOUS
  <1>2. JoinUpto(CHOOSE g : JoinUpto(g, s, Len(s)), s, Len(s))
    BY JoinExists
  <1>3. FlattenSeq(s) = (CHOOSE g : JoinUpto(g, s, Len(s)))[Len(s)]
    BY <1>1 DEF FlattenSeq, JoinUpto
  <1> QED BY <1>2, <1>3

(* A beginning of the sequence has the same values.                         *)
LEMMA JoinAgrees ==
  ASSUME NEW n \in Nat, NEW m \in Nat, n <= m,
         NEW s, NEW t, SameUpto(s, t, n),
         NEW g, NEW h, JoinUpto(g, s, n), JoinUpto(h, t, m)
  PROVE  SameUpto(g, h, n)
  <1> DEFINE T == {j \in Nat : j \in 1 .. n => g[j] = h[j]}
  <1>1. 0 \in T
    OBVIOUS
  <1>2. ASSUME NEW j \in Nat, j \in T PROVE j + 1 \in T
    <2>1. SUFFICES ASSUME j + 1 \in 1 .. n PROVE g[j + 1] = h[j + 1]
      OBVIOUS
    <2>2. j + 1 \in 1 .. m /\ (j + 1) - 1 = j /\ s[j + 1] = t[j + 1]
      BY <2>1 DEF SameUpto
    <2>3. g[j + 1] = IF j + 1 = 1 THEN s[j + 1] ELSE g[(j + 1) - 1] \o s[j + 1]
      BY <2>1 DEF JoinUpto
    <2>4. h[j + 1] = IF j + 1 = 1 THEN t[j + 1] ELSE h[(j + 1) - 1] \o t[j + 1]
      BY <2>2 DEF JoinUpto
    <2>5. CASE j = 0
      BY <2>2, <2>3, <2>4, <2>5
    <2>6. CASE j # 0
      <3>1. j \in 1 .. n
        BY <2>1, <2>6
      <3>2. g[j] = h[j]
        BY <1>2, <3>1
      <3> QED BY <2>2, <2>3, <2>4, <2>6, <3>2
    <2> QED BY <2>5, <2>6
  <1>3. Nat \subseteq T
    <2> HIDE DEF T
    <2> QED BY <1>1, <1>2, Climb
  <1> QED BY <1>3 DEF SameUpto

(* What it returns when one more is joined.                                 *)
LEMMA FlattenAppend ==
  ASSUME NEW B, NEW s \in Seq(Seq(B)), NEW x \in Seq(B)
  PROVE  FlattenSeq(Append(s, x)) = FlattenSeq(s) \o x
  <1> DEFINE t == Append(s, x)
  <1>1. t \in Seq(Seq(B)) /\ Len(t) = Len(s) + 1 /\ t[Len(s) + 1] = x /\ t # << >>
        /\ \A j \in 1 .. Len(s) : s[j] = t[j]
    BY AppendProperties
  <1> HIDE DEF t
  <1>2. PICK h : JoinUpto(h, t, Len(t)) /\ FlattenSeq(t) = h[Len(t)]
    BY <1>1, Flattens
  <1>3. Len(s) \in Nat
    OBVIOUS
  <1>4. h[Len(s) + 1] = IF Len(s) + 1 = 1 THEN x ELSE h[(Len(s) + 1) - 1] \o x
    <2>1. Len(s) + 1 \in 1 .. Len(t)
      BY <1>1, <1>3
    <2> QED BY <1>1, <1>2, <2>1 DEF JoinUpto
  <1>5. CASE s = << >>
    <2>1. FlattenSeq(s) = << >> /\ Len(s) = 0
      BY <1>5 DEF FlattenSeq
    <2> QED BY <1>1, <1>2, <1>4, <2>1 DEF t
  <1>6. CASE s # << >>
    <2>1. PICK g : JoinUpto(g, s, Len(s)) /\ FlattenSeq(s) = g[Len(s)]
      BY <1>6, Flattens
    <2>2. g[Len(s)] = h[Len(s)]
      <3>1. \A j \in 1 .. Len(s) : g[j] = h[j]
        <4>1. PICK n \in Nat, m \in Nat : n = Len(s) /\ m = Len(t) /\ n <= m
          BY <1>1, <1>3
        <4>2. JoinUpto(g, s, n)
          BY <2>1, <4>1
        <4>3. JoinUpto(h, t, m)
          BY <1>2, <4>1
        <4>4. t \in Seq(Seq(B))
          BY <1>1
        <4>5. SameUpto(s, t, n)
          BY <1>1, <4>1 DEF SameUpto
        <4>6. n <= m
          BY <4>1
        <4>7. n \in Nat
          BY <4>1
        <4>8. m \in Nat
          BY <4>1
        <4>9. SameUpto(g, h, n)
          BY ONLY <4>2, <4>3, <4>4, <4>5, <4>6, <4>7, <4>8, JoinAgrees
        <4> QED BY <4>1, <4>9 DEF SameUpto
      <3> QED BY <1>3, <1>6, <3>1
    <2>3. Len(s) + 1 # 1 /\ (Len(s) + 1) - 1 = Len(s)
      BY <1>3, <1>6
    <2> QED BY <1>1, <1>2, <1>4, <2>1, <2>2, <2>3 DEF t
  <1> QED BY <1>5, <1>6

(* What holds of the empty sequence, and still if one is appended, holds of *)
(* every sequence.                                                          *)
LEMMA ClimbSeq ==
  ASSUME NEW V, NEW T, << >> \in T, \A s \in Seq(V) : \A v \in V : s \in T => Append(s, v) \in T
  PROVE  Seq(V) \subseteq T
  <1> DEFINE N == {n \in Nat : \A s \in Seq(V) : Len(s) = n => s \in T}
  <1>1. 0 \in N
    <2>1. \A s \in Seq(V) : Len(s) = 0 => s = << >>
      OBVIOUS
    <2> QED BY <2>1
  <1>2. ASSUME NEW n \in Nat, n \in N PROVE n + 1 \in N
    <2>1. SUFFICES ASSUME NEW s \in Seq(V), Len(s) = n + 1 PROVE s \in T
      OBVIOUS
    <2>2. s # << >>
      BY <2>1
    <2>3. PICK r \in Seq(V), v \in V : s = Append(r, v)
      BY <2>2, SequenceEmptyOrAppend
    <2>4. Len(s) = Len(r) + 1 /\ Len(r) \in Nat
      BY <2>3
    <2>5. r \in T
      BY <1>2, <2>1, <2>4
    <2> QED BY <2>3, <2>5
  <1>3. Nat \subseteq N
    <2> HIDE DEF N
    <2> QED BY <1>1, <1>2, Climb
  <1>4. ASSUME NEW s \in Seq(V) PROVE s \in T
    <2>1. Len(s) \in Nat
      OBVIOUS
    <2>2. Len(s) \in N
      BY <1>3, <2>1
    <2> QED BY <2>2
  <1> QED BY <1>4

(* What is joined is a sequence of what was in the parts.                   *)
LEMMA FlattenType ==
  ASSUME NEW B
  PROVE  \A s \in Seq(Seq(B)) : FlattenSeq(s) \in Seq(B)
  <1> DEFINE T == {s \in Seq(Seq(B)) : FlattenSeq(s) \in Seq(B)}
  <1>1. << >> \in T
    BY DEF FlattenSeq
  <1>2. ASSUME NEW s \in Seq(Seq(B)), NEW v \in Seq(B), s \in T PROVE Append(s, v) \in T
    <2>1. FlattenSeq(Append(s, v)) = FlattenSeq(s) \o v
      BY FlattenAppend
    <2>2. FlattenSeq(s) \o v \in Seq(B)
      BY <1>2, ConcatProperties
    <2>3. Append(s, v) \in Seq(Seq(B))
      OBVIOUS
    <2> QED BY <2>1, <2>2, <2>3
  <1>3. Seq(Seq(B)) \subseteq T
    <2> HIDE DEF T
    <2> QED BY <1>1, <1>2, ClimbSeq
  <1> QED BY <1>3

(* Joining two sequences of parts joins what they make.                     *)
LEMMA FlattenConcat ==
  ASSUME NEW B, NEW s \in Seq(Seq(B))
  PROVE  \A t \in Seq(Seq(B)) : FlattenSeq(s \o t) = FlattenSeq(s) \o FlattenSeq(t)
  <1> DEFINE T == {t \in Seq(Seq(B)) : FlattenSeq(s \o t) = FlattenSeq(s) \o FlattenSeq(t)}
  <1>1. << >> \in T
    <2>1. FlattenSeq(<< >>) = << >>
      BY DEF FlattenSeq
    <2>2. s \o << >> = s /\ FlattenSeq(s) \o << >> = FlattenSeq(s)
      BY FlattenType, ConcatEmptySeq
    <2>3. FlattenSeq(s \o << >>) = FlattenSeq(s) \o FlattenSeq(<< >>)
      BY <2>1, <2>2
    <2>4. << >> \in Seq(Seq(B))
      OBVIOUS
    <2> QED BY ONLY <2>3, <2>4
  <1>2. ASSUME NEW t \in Seq(Seq(B)), NEW v \in Seq(B), t \in T PROVE Append(t, v) \in T
    <2>1. s \o Append(t, v) = Append(s \o t, v)
      OBVIOUS
    <2>2. s \o t \in Seq(Seq(B)) /\ Append(t, v) \in Seq(Seq(B))
      OBVIOUS
    <2>3. FlattenSeq(Append(s \o t, v)) = FlattenSeq(s \o t) \o v
      BY <2>2, FlattenAppend
    <2>4. FlattenSeq(Append(t, v)) = FlattenSeq(t) \o v
      BY FlattenAppend
    <2>5. FlattenSeq(s) \in Seq(B) /\ FlattenSeq(t) \in Seq(B)
      BY FlattenType
    <2>6. (FlattenSeq(s) \o FlattenSeq(t)) \o v = FlattenSeq(s) \o (FlattenSeq(t) \o v)
      BY <2>5, ConcatAssociative
    <2> QED BY <1>2, <2>1, <2>2, <2>3, <2>4, <2>6
  <1>3. Seq(Seq(B)) \subseteq T
    <2> HIDE DEF T
    <2> QED BY <1>1, <1>2, ClimbSeq
  <1> QED BY <1>3

(* One part, and none.                                                      *)
LEMMA FlattenOne ==
  ASSUME NEW B, NEW x \in Seq(B)
  PROVE  FlattenSeq(<<x>>) = x /\ FlattenSeq(<< >>) = << >>
  <1>1. FlattenSeq(<< >>) = << >>
    BY DEF FlattenSeq
  <1>2. << >> \in Seq(Seq(B)) /\ Append(<< >>, x) = <<x>> /\ << >> \o x = x
    OBVIOUS
  <1> QED BY <1>1, <1>2, FlattenAppend

-----------------------------------------------------------------------------
(* Sequences whose elements each stand for a sequence.                      *)
MapSeq(E, s) == [k \in DOMAIN s |-> E[s[k]]]
FlatMap(E, s) == FlattenSeq(MapSeq(E, s))

IsMapped(m, E, s, C) ==
  /\ m \in Seq(C) /\ Len(m) = Len(s)
  /\ \A k \in 1 .. Len(s) : m[k] = E[s[k]]

(* A mapped sequence has the places of the sequence.                        *)
LEMMA MappedType ==
  ASSUME NEW A, NEW C, NEW E \in [A -> C], NEW s \in Seq(A)
  PROVE  IsMapped(MapSeq(E, s), E, s, C)
  <1>1. DOMAIN s = 1 .. Len(s) /\ Len(s) \in Nat
    OBVIOUS
  <1> QED BY <1>1 DEF MapSeq, IsMapped

(* The whole is what the two parts make.                                    *)
MappedJoins(E, s, t) == MapSeq(E, s \o t) = MapSeq(E, s) \o MapSeq(E, t)
(* What is joined is mapped part by part.                                   *)
LEMMA MappedConcat ==
  ASSUME NEW A, NEW C, NEW E \in [A -> C], NEW s \in Seq(A), NEW t \in Seq(A)
  PROVE  MappedJoins(E, s, t)
  <1> DEFINE a == MapSeq(E, s \o t)
             b == MapSeq(E, s) \o MapSeq(E, t)
  <1>1. s \o t \in Seq(A) /\ Len(s \o t) = Len(s) + Len(t)
        /\ \A j \in 1 .. Len(s) + Len(t) : (s \o t)[j] = IF j <= Len(s) THEN s[j] ELSE t[j - Len(s)]
    BY ConcatProperties
  <1>2. a \in Seq(C) /\ Len(a) = Len(s) + Len(t)
        /\ \A j \in 1 .. Len(s) + Len(t) : a[j] = E[(s \o t)[j]]
    <2>1. PICK u : u = s \o t
      OBVIOUS
    <2>2. u \in Seq(A) /\ Len(u) = Len(s) + Len(t)
      BY <1>1, <2>1
    <2>3. u \in Seq(A)
      BY <2>2
    <2>4. IsMapped(MapSeq(E, u), E, u, C)
      BY <2>3, MappedType
    <2> QED BY <2>1, <2>2, <2>4 DEF IsMapped
  <1>3. IsMapped(MapSeq(E, s), E, s, C)
    BY MappedType
  <1>4. IsMapped(MapSeq(E, t), E, t, C)
    BY MappedType
  <1>5. b \in Seq(C) /\ Len(b) = Len(s) + Len(t)
        /\ \A j \in 1 .. Len(s) + Len(t) :
             b[j] = IF j <= Len(s) THEN MapSeq(E, s)[j] ELSE MapSeq(E, t)[j - Len(s)]
    <2>1. PICK p : p = MapSeq(E, s)
      OBVIOUS
    <2>2. PICK q : q = MapSeq(E, t)
      OBVIOUS
    <2>3. p \in Seq(C) /\ q \in Seq(C)
      BY <1>3, <1>4, <2>1, <2>2 DEF IsMapped
    <2>4. p \o q \in Seq(C) /\ Len(p \o q) = Len(p) + Len(q)
          /\ \A j \in 1 .. Len(p) + Len(q) :
               (p \o q)[j] = IF j <= Len(p) THEN p[j] ELSE q[j - Len(p)]
      BY <2>3, ConcatProperties
    <2> QED BY <1>3, <1>4, <2>1, <2>2, <2>4 DEF IsMapped
  <1> HIDE DEF a, b
  <1>6. ASSUME NEW j \in 1 .. Len(s) + Len(t) PROVE a[j] = b[j]
    <2>1. Len(s) \in Nat /\ Len(t) \in Nat
      OBVIOUS
    <2>2. CASE j <= Len(s)
      <3>1. j \in 1 .. Len(s)
        BY <2>1, <2>2
      <3> QED BY <1>1, <1>2, <1>3, <1>5, <2>2, <3>1 DEF IsMapped
    <2>3. CASE ~(j <= Len(s))
      <3>1. j - Len(s) \in 1 .. Len(t)
        BY <2>1, <2>3
      <3>2. (s \o t)[j] = t[j - Len(s)]
        BY <1>1, <2>3
      <3>3. a[j] = E[t[j - Len(s)]]
        BY <1>2, <3>2
      <3>4. b[j] = MapSeq(E, t)[j - Len(s)]
        BY <1>5, <2>3
      <3> QED BY <1>4, <3>1, <3>3, <3>4 DEF IsMapped
    <2> QED BY <2>2, <2>3
  <1>7. a = b
    <2>1. \A j \in 1 .. Len(a) : a[j] = b[j]
      BY <1>2, <1>6
    <2> QED BY <1>2, <1>5, <2>1, SeqEqual
  <1> QED BY <1>7 DEF a, b, MappedJoins

(* What the commands of a sequence make, joined, is a sequence.             *)
LEMMA FlatMapType ==
  ASSUME NEW A, NEW B, NEW E \in [A -> Seq(B)], NEW s \in Seq(A)
  PROVE  FlatMap(E, s) \in Seq(B)
  <1>1. IsMapped(MapSeq(E, s), E, s, Seq(B))
    BY MappedType
  <1>2. MapSeq(E, s) \in Seq(Seq(B))
    BY <1>1 DEF IsMapped
  <1> QED BY <1>2, FlattenType DEF FlatMap

FlatMapJoins(E, s, t) == FlatMap(E, s \o t) = FlatMap(E, s) \o FlatMap(E, t)
(* Joined sequences make what each of them makes, joined.                   *)
LEMMA FlatMapConcat ==
  ASSUME NEW A, NEW B, NEW E \in [A -> Seq(B)], NEW s \in Seq(A), NEW t \in Seq(A)
  PROVE  FlatMapJoins(E, s, t)
  <1>1. PICK p : p = MapSeq(E, s)
    OBVIOUS
  <1>2. PICK q : q = MapSeq(E, t)
    OBVIOUS
  <1>3. p \in Seq(Seq(B)) /\ q \in Seq(Seq(B))
    <2>1. IsMapped(MapSeq(E, s), E, s, Seq(B)) 
      BY MappedType
    <2>2. IsMapped(MapSeq(E, t), E, t, Seq(B)) 
      BY MappedType
    <2> QED BY <1>1, <1>2, <2>1, <2>2 DEF IsMapped
  <1>4. FlattenSeq(p \o q) = FlattenSeq(p) \o FlattenSeq(q)
    BY <1>3, FlattenConcat
  <1>5. MappedJoins(E, s, t)
    BY ONLY E \in [A -> Seq(B)], s \in Seq(A), t \in Seq(A), MappedConcat
  <1> QED BY <1>1, <1>2, <1>4, <1>5 DEF FlatMap, FlatMapJoins, MappedJoins

(* A sequence of one command makes what the command makes, and none         *)
(* nothing.                                                                 *)
LEMMA FlatMapOne ==
  ASSUME NEW A, NEW B, NEW E \in [A -> Seq(B)], NEW c \in A
  PROVE  FlatMap(E, <<c>>) = E[c] /\ FlatMap(E, << >>) = << >>
  <1>1. MapSeq(E, <<c>>) = <<E[c]>> /\ MapSeq(E, << >>) = << >>
    BY DEF MapSeq
  <1>2. E[c] \in Seq(B)
    OBVIOUS
  <1> QED BY <1>1, <1>2, FlattenOne DEF FlatMap

(* A sequence of one.                                                       *)
LEMMA Single ==
  ASSUME NEW A, NEW c \in A
  PROVE  <<c>> \in Seq(A) /\ Len(<<c>>) = 1 /\ <<c>>[1] = c
  OBVIOUS

(* A command more makes what it makes, at the end.                          *)
LEMMA FlatMapAppend ==
  ASSUME NEW A, NEW B, NEW E \in [A -> Seq(B)], NEW s \in Seq(A), NEW c \in A
  PROVE  FlatMap(E, Append(s, c)) = FlatMap(E, s) \o E[c]
  <1>1. PICK t \in Seq(A) : t = <<c>>
    BY Single
  <1>2. Append(s, c) = s \o <<c>>
    BY AppendIsConcat
  <1>3. FlatMapJoins(E, s, t)
    BY ONLY E \in [A -> Seq(B)], s \in Seq(A), t \in Seq(A), FlatMapConcat
  <1>4. FlatMap(E, <<c>>) = E[c]
    BY FlatMapOne
  <1> QED BY <1>1, <1>2, <1>3, <1>4 DEF FlatMapJoins

(* A sequence is its first element, and then the rest.                      *)
LEMMA FirstAndRest ==
  ASSUME NEW A, NEW s \in Seq(A), s # << >>
  PROVE  /\ s = <<s[1]>> \o Tail(s) /\ s[1] \in A /\ Tail(s) \in Seq(A) /\ <<s[1]>> \in Seq(A)
         /\ Len(Tail(s)) = Len(s) - 1 /\ Len(s) \in Nat \ {0}
         /\ \A k \in 1 .. Len(s) - 1 : Tail(s)[k] = s[k + 1]
  <1>1. s[1] \in A /\ Tail(s) \in Seq(A) /\ Len(s) \in Nat \ {0}
    OBVIOUS
  <1>2. s = <<s[1]>> \o Tail(s)
    OBVIOUS
  <1>3. Len(Tail(s)) = Len(s) - 1 /\ \A k \in 1 .. Len(s) - 1 : Tail(s)[k] = s[k + 1]
    BY HeadTailProperties
  <1> QED BY <1>1, <1>2, <1>3

(* The first command makes what comes first.                                *)
LEMMA FlatMapFirst ==
  ASSUME NEW A, NEW B, NEW E \in [A -> Seq(B)], NEW s \in Seq(A), s # << >>
  PROVE  FlatMap(E, s) = E[s[1]] \o FlatMap(E, Tail(s))
  <1>1. PICK c \in A, t \in Seq(A) : c = s[1] /\ t = Tail(s) /\ s = <<c>> \o t
    BY FirstAndRest
  <1>2. PICK h \in Seq(A) : h = <<c>>
    BY Single
  <1>3. FlatMapJoins(E, h, t)
    BY ONLY E \in [A -> Seq(B)], h \in Seq(A), t \in Seq(A), FlatMapConcat
  <1>4. FlatMap(E, <<c>>) = E[c]
    BY FlatMapOne
  <1> QED BY <1>1, <1>2, <1>3, <1>4 DEF FlatMapJoins

(* Elements that stand for nothing make nothing.                            *)
Barren(E, s) == \A k \in 1 .. Len(s) : E[s[k]] = << >>

(* Commands that make nothing make nothing together.                        *)
LEMMA FlatMapNone ==
  ASSUME NEW A, NEW B, NEW E \in [A -> Seq(B)]
  PROVE  \A s \in Seq(A) : Barren(E, s) => FlatMap(E, s) = << >>
  <1> DEFINE T == {s \in Seq(A) : Barren(E, s) => FlatMap(E, s) = << >>}
  <1>1. << >> \in T
    <2>1. MapSeq(E, << >>) = << >>
      BY DEF MapSeq
    <2>2. FlatMap(E, << >>) = << >>
      BY <2>1 DEF FlatMap, FlattenSeq
    <2> QED BY <2>2
  <1>2. ASSUME NEW s \in Seq(A), NEW c \in A, s \in T PROVE Append(s, c) \in T
    <2>1. SUFFICES ASSUME Barren(E, Append(s, c)) PROVE FlatMap(E, Append(s, c)) = << >>
      OBVIOUS
    <2>2. PICK t : t = Append(s, c)
      OBVIOUS
    <2>3. Len(t) = Len(s) + 1 /\ t[Len(s) + 1] = c /\ (\A k \in 1 .. Len(s) :
                                                         t[k] = s[k]) /\ Len(s) \in Nat
      BY <2>2
    <2>4. E[c] = << >>
      BY <2>1, <2>2, <2>3 DEF Barren
    <2>5. Barren(E, s)
      <3> SUFFICES ASSUME NEW k \in 1 .. Len(s) PROVE E[s[k]] = << >>
        BY DEF Barren
      <3>1. k \in 1 .. Len(t) /\ t[k] = s[k]
        BY <2>3
      <3> QED BY <2>1, <2>2, <3>1 DEF Barren
    <2>6. FlatMap(E, s) = << >>
      BY <1>2, <2>5
    <2> QED BY <2>4, <2>6, FlatMapAppend
  <1>3. Seq(A) \subseteq T
    <2> HIDE DEF T
    <2> QED BY <1>1, <1>2, ClimbSeq
  <1> QED BY <1>3

-----------------------------------------------------------------------------
(* What the commands and the answers stand for.                             *)
EffectsMap == [c \in ListedCmd |-> Effects(c)]
OwesMap(log) == [c \in ListedCmd |-> Owes(log, c)]
BringsMap == [a \in OnLine |-> Brings(a)]
WantsMap == [t \in Item |-> IF t.do = "data" THEN <<0>> ELSE << >>]

(* A write makes an event of each byte, a delay makes one.                  *)
LEMMA EffectsType ==
  ASSUME NEW c \in ListedCmd
  PROVE  /\ Effects(c) \in Seq(Event)
         /\ ~BufferOp(c) => Effects(c) = << >>
  <1>1. c.addr \in Int /\ c.data \in Seq(Nat) /\ None \in Int
    BY DEF ListedCmd, SerCmd, None
  <1>2. CASE c.cmd \in {"writeb", "writen"}
    <2>1. DOMAIN c.data = 1 .. Len(c.data) /\ Len(c.data) \in Nat
          /\ \A k \in 1 .. Len(c.data) : c.data[k] \in Nat
      BY <1>1
    <2>2. Effects(c) = [k \in DOMAIN c.data |-> [addr |-> c.addr + k - 1, val |-> c.data[k]]]
      BY <1>2 DEF Effects
    <2>3. \A k \in 1 .. Len(c.data) : [addr |-> c.addr + k - 1, val |-> c.data[k]] \in Event
      BY <1>1, <2>1 DEF Event
    <2>4. Effects(c) \in Seq(Event)
      BY <2>1, <2>2, <2>3
    <2> QED BY <1>2, <2>4 DEF BufferOp
  <1>3. CASE c.cmd = "delay"
    <2>1. Effects(c) = <<[addr |-> None, val |-> c.addr]>>
      BY <1>3 DEF Effects
    <2> QED BY <1>1, <1>3, <2>1 DEF BufferOp, Event
  <1>4. CASE c.cmd \notin {"writeb", "writen", "delay"}
    BY <1>4 DEF Effects
  <1> QED BY <1>2, <1>3, <1>4 DEF BufferOp

(* A set of indices that is not empty has a last one.                       *)
LEMMA LastIndex ==
  ASSUME NEW n \in Nat, NEW T, T \subseteq 1 .. n, T # {}
  PROVE  Max(T) \in T /\ \A m \in T : m <= Max(T)
  <1> DEFINE R == {n - m : m \in T}
  <1>1. R \subseteq Nat /\ R # {}
    <2>1. \A m \in T : n - m \in Nat
      OBVIOUS
    <2>2. PICK m : m \in T
      OBVIOUS
    <2>3. n - m \in R
      BY <2>2
    <2> QED BY <2>1, <2>3
  <1>2. PICK r \in R : \A q \in R : r <= q
    BY <1>1, LeastIndex
  <1>3. PICK k \in T : r = n - k
    BY <1>2
  <1>4. \A m \in T : k >= m
    <2> SUFFICES ASSUME NEW m \in T PROVE k >= m
      OBVIOUS
    <2>1. n - m \in R
      OBVIOUS
    <2>2. r <= n - m
      BY <1>2, <2>1
    <2> QED BY <1>3, <2>2
  <1>5. \E x \in T : \A y \in T : x >= y
    BY <1>3, <1>4
  <1>6. Max(T) \in T /\ \A y \in T : Max(T) >= y
    BY <1>5 DEF Max
  <1>7. \A m \in T : m <= Max(T)
    BY <1>6
  <1> QED BY <1>6, <1>7

(* What is read.                                                            *)
LEMMA ContentType ==
  ASSUME NEW log \in Seq(Event), NEW a
  PROVE  Content(log, a) \in Int
  <1> DEFINE writes == {k \in DOMAIN log : log[k].addr = a}
  <1>1. DOMAIN log = 1 .. Len(log) /\ Len(log) \in Nat
        /\ \A k \in 1 .. Len(log) : log[k] \in Event
    OBVIOUS
  <1>2. Content(log, a) = IF writes = {} THEN 0 ELSE log[Max(writes)].val
    BY DEF Content
  <1>3. CASE writes = {}
    BY <1>2, <1>3
  <1>4. CASE writes # {}
    <2>1. writes \subseteq 1 .. Len(log)
      BY <1>1
    <2> HIDE DEF writes
    <2>2. Max(writes) \in writes
      BY <1>1, <1>4, <2>1, LastIndex
    <2> QED BY <1>1, <1>2, <1>4, <2>1, <2>2 DEF Event
  <1> QED BY <1>3, <1>4

(* A read brings as many bytes as it asks for, each the last one written    *)
(* to its address.                                                          *)
LEMMA ContentsType ==
  ASSUME NEW log \in Seq(Event), NEW a, NEW n \in Nat
  PROVE  /\ Contents(log, a, n) \in Seq(Int) /\ Len(Contents(log, a, n)) = n
         /\ \A k \in 1 .. n : Contents(log, a, n)[k] = Content(log, a + k - 1)
  <1>1. \A k \in 1 .. n : Content(log, a + k - 1) \in Int
    BY ContentType
  <1> QED BY <1>1 DEF Contents

(* Reading goes on where it ended.                                          *)
LEMMA ContentsJoin ==
  ASSUME NEW log \in Seq(Event), NEW a \in Int, NEW n \in Nat, NEW m \in Nat
  PROVE  Contents(log, a, n) \o Contents(log, a + n, m) = Contents(log, a, n + m)
  <1>1. PICK p : p = Contents(log, a, n)
    OBVIOUS
  <1>2. PICK b \in Int : b = a + n
    OBVIOUS
  <1>3. PICK q : q = Contents(log, b, m)
    OBVIOUS
  <1>4. PICK l \in Nat : l = n + m
    OBVIOUS
  <1>5. PICK w : w = Contents(log, a, l)
    OBVIOUS
  <1>6. p \in Seq(Int) /\ Len(p) = n /\ \A k \in 1 .. n : p[k] = Content(log, a + k - 1)
    BY <1>1, ContentsType
  <1>7. q \in Seq(Int) /\ Len(q) = m /\ \A k \in 1 .. m : q[k] = Content(log, b + k - 1)
    BY <1>3, ContentsType
  <1>8. w \in Seq(Int) /\ Len(w) = l /\ \A k \in 1 .. l : w[k] = Content(log, a + k - 1)
    BY <1>5, ContentsType
  <1>9. p \o q \in Seq(Int) /\ Len(p \o q) = n + m
        /\ \A k \in 1 .. n + m : (p \o q)[k] = IF k <= n THEN p[k] ELSE q[k - n]
    BY <1>6, <1>7, ConcatProperties
  <1>10. ASSUME NEW k \in 1 .. n + m PROVE (p \o q)[k] = w[k]
    <2>1. CASE k <= n
      <3>1. k \in 1 .. n /\ k \in 1 .. l
        BY <1>4, <2>1
      <3> QED BY <1>6, <1>8, <1>9, <2>1, <3>1
    <2>2. CASE ~(k <= n)
      <3>1. k - n \in 1 .. m /\ k \in 1 .. l /\ b + (k - n) - 1 = a + k - 1
        BY <1>2, <1>4, <2>2
      <3>2. q[k - n] = Content(log, b + (k - n) - 1)
        BY <1>7, <3>1
      <3> QED BY <1>8, <1>9, <2>2, <3>1, <3>2
    <2> QED BY <2>1, <2>2
  <1>11. p \o q = w
    <2>1. \A k \in 1 .. Len(p \o q) : (p \o q)[k] = w[k]
      BY <1>9, <1>10
    <2> QED BY <1>4, <1>8, <1>9, <2>1, SeqEqual
  <1> QED BY <1>1, <1>2, <1>3, <1>4, <1>5, <1>11

(* What a command promises is a sequence of bytes.                          *)
LEMMA OwesType ==
  ASSUME NEW log \in Seq(Event), NEW c \in ListedCmd
  PROVE  Promise(log, c) \in Seq(Int) /\ Owes(log, c) \in Seq(Seq(Int))
  <1>1. c.len \in Nat /\ Len(log) \in Int
    BY DEF ListedCmd, SerCmd
  <1>2. Contents(log, c.addr, c.len) \in Seq(Int)
    BY <1>1, ContentsType
  <1>3. Promise(log, c) \in Seq(Int)
    BY <1>1, <1>2 DEF Promise
  <1> QED BY <1>3 DEF Owes

(* The maps of which the totals are made.                                   *)
LEMMA MapTypes ==
  ASSUME NEW log \in Seq(Event)
  PROVE  /\ EffectsMap \in [ListedCmd -> Seq(Event)]
         /\ OwesMap(log) \in [ListedCmd -> Seq(Seq(Int))]
         /\ BringsMap \in [OnLine -> Seq(Seq(Int))]
         /\ WantsMap \in [Item -> Seq({0})]
  <1>1. EffectsMap \in [ListedCmd -> Seq(Event)]
    BY EffectsType DEF EffectsMap
  <1>2. OwesMap(log) \in [ListedCmd -> Seq(Seq(Int))]
    BY OwesType DEF OwesMap
  <1>3. BringsMap \in [OnLine -> Seq(Seq(Int))]
    <2>1. \A a \in OnLine : Brings(a) \in Seq(Seq(Int))
      BY DEF OnLine, Brings
    <2> QED BY <2>1 DEF BringsMap
  <1>4. WantsMap \in [Item -> Seq({0})]
    <2>1. <<0>> \in Seq({0}) /\ << >> \in Seq({0})
      OBVIOUS
    <2> QED BY <2>1 DEF WantsMap
  <1> QED BY <1>1, <1>2, <1>3, <1>4

(* The sums of the model are sums of these.                                 *)
LEMMA AllEffectsMap ==
  ASSUME NEW s \in Seq(ListedCmd)
  PROVE  AllEffects(s) = FlatMap(EffectsMap, s)
  <1>1. \A k \in DOMAIN s : s[k] \in ListedCmd
    OBVIOUS
  <1>2. [k \in DOMAIN s |-> Effects(s[k])] = MapSeq(EffectsMap, s)
    BY <1>1 DEF MapSeq, EffectsMap
  <1> QED BY <1>2 DEF AllEffects, FlatMap

(* What is owed in all, as a map over the commands.                         *)
LEMMA AllOwedMap ==
  ASSUME NEW log, NEW s \in Seq(ListedCmd)
  PROVE  AllOwed(log, s) = FlatMap(OwesMap(log), s)
  <1>1. \A k \in DOMAIN s : s[k] \in ListedCmd
    OBVIOUS
  <1>2. [k \in DOMAIN s |-> Owes(log, s[k])] = MapSeq(OwesMap(log), s)
    BY <1>1 DEF MapSeq, OwesMap
  <1> QED BY <1>2 DEF AllOwed, FlatMap

(* What is brought in all, as a map over the answers.                       *)
LEMMA AllBroughtMap ==
  ASSUME NEW s \in Seq(OnLine)
  PROVE  AllBrought(s) = FlatMap(BringsMap, s)
  <1>1. \A k \in DOMAIN s : s[k] \in OnLine
    OBVIOUS
  <1>2. [k \in DOMAIN s |-> Brings(s[k])] = MapSeq(BringsMap, s)
    BY <1>1 DEF MapSeq, BringsMap
  <1> QED BY <1>2 DEF AllBrought, FlatMap

(* What is waited for in all, as a map over the list.                       *)
LEMMA AllWantedMap ==
  ASSUME NEW s \in Seq(Item)
  PROVE  AllWanted(s) = FlatMap(WantsMap, s)
  <1>1. \A k \in DOMAIN s : s[k] \in Item
    OBVIOUS
  <1>2. [k \in DOMAIN s |-> IF s[k].do = "data" THEN <<0>> ELSE << >>] = MapSeq(WantsMap, s)
    BY <1>1 DEF MapSeq, WantsMap
  <1> QED BY <1>2 DEF AllWanted, FlatMap

-----------------------------------------------------------------------------
(* The way to the chip: the device's buffer, the line, the driver's list.  *)
CmdMap == [j \in Item |-> j.cmd]
Cmds(t) == [k \in DOMAIN t |-> t[k].cmd]
Line(o, j, t) == o \o j \o Cmds(t)

(* The kinds of entry of the driver's list.                                 *)
LEMMA ItemType ==
  ASSUME NEW x \in Item
  PROVE  /\ x.cmd \in ListedCmd
         /\ x.do \in {"stream", "docommand", "flush", "ack", "data"}
         /\ x.do \in {"flush", "ack", "data"} => x.cmd = NoCmd
         /\ x.do = "stream" => x.cmd \in SerCmd(Streamed)
         /\ x.do = "docommand" => x.cmd \in SerCmd({"spi", "pin"})
         /\ x.do = "flush" => x = Flush
  <1>1. NoCmd \in ListedCmd
    BY DEF NoCmd, Cmd, ListedCmd, SerCmd, None, ReadKinds, Streamed, StoredKinds
  <1>2. CASE x \in {Flush, Ack, Data}
    BY <1>1, <1>2 DEF Flush, Ack, Data
  <1>3. CASE x \in [do : {"stream"}, cmd : SerCmd(Streamed)]
    BY <1>3 DEF SerCmd, ListedCmd
  <1>4. CASE x \in [do : {"docommand"}, cmd : SerCmd({"spi", "pin"})]
    BY <1>4 DEF SerCmd, ListedCmd
  <1> QED BY <1>2, <1>3, <1>4 DEF Item

(* Each entry has a command.                                                *)
LEMMA CmdMapType == CmdMap \in [Item -> ListedCmd]
  BY ItemType DEF CmdMap

(* The commands of a list, as a map over its entries.                       *)
LEMMA CmdsMapped ==
  ASSUME NEW t \in Seq(Item)
  PROVE  Cmds(t) = MapSeq(CmdMap, t)
  <1>1. \A k \in DOMAIN t : t[k] \in Item
    OBVIOUS
  <1> QED BY <1>1 DEF Cmds, MapSeq, CmdMap

(* The commands of a list have the places of its entries.                   *)
LEMMA CmdsType ==
  ASSUME NEW t \in Seq(Item)
  PROVE  /\ Cmds(t) \in Seq(ListedCmd) /\ Len(Cmds(t)) = Len(t)
         /\ \A k \in 1 .. Len(t) : Cmds(t)[k] = t[k].cmd
  <1>1. \A k \in 1 .. Len(t) : t[k] \in Item /\ t[k].cmd \in ListedCmd
    BY ItemType
  <1>2. DOMAIN t = 1 .. Len(t) /\ Len(t) \in Nat
    OBVIOUS
  <1> QED BY <1>1, <1>2 DEF Cmds

(* The commands of joined lists.                                            *)
LEMMA CmdsConcat ==
  ASSUME NEW s \in Seq(Item), NEW t \in Seq(Item)
  PROVE  Cmds(s \o t) = Cmds(s) \o Cmds(t)
  <1>1. MappedJoins(CmdMap, s, t)
    BY CmdMapType, MappedConcat
  <1>2. s \o t \in Seq(Item)
    BY ConcatProperties
  <1>3. PICK u \in Seq(Item) : u = s \o t
    BY <1>2
  <1>4. Cmds(u) = MapSeq(CmdMap, u) /\ Cmds(s) = MapSeq(CmdMap, s) /\ Cmds(t) = MapSeq(CmdMap, t)
    BY CmdsMapped
  <1> QED BY <1>1, <1>3, <1>4 DEF MappedJoins

(* The command of the first entry comes first.                              *)
LEMMA CmdsFirst ==
  ASSUME NEW t \in Seq(Item), t # << >>
  PROVE  Cmds(t) = <<t[1].cmd>> \o Cmds(Tail(t)) /\ Cmds(<< >>) = << >>
  <1>1. PICK x \in Item, r \in Seq(Item) : x = t[1] /\ r = Tail(t) /\ t = <<x>> \o r
    BY FirstAndRest
  <1>2. PICK h \in Seq(Item) : h = <<x>>
    BY Single
  <1>3. Cmds(h \o r) = Cmds(h) \o Cmds(r)
    BY CmdsConcat
  <1>4. Cmds(h) = <<x.cmd>> /\ Cmds(<< >>) = << >>
    BY <1>2 DEF Cmds
  <1> QED BY <1>1, <1>2, <1>3, <1>4

(* Joining is associative.                                                  *)
AssocAt(s, t, u) == (s \o t) \o u = s \o (t \o u)
(* Three sequences can be joined in either order.                           *)
LEMMA Assoc ==
  ASSUME NEW A, NEW s \in Seq(A), NEW t \in Seq(A), NEW u \in Seq(A)
  PROVE  AssocAt(s, t, u)
  BY ConcatAssociative DEF AssocAt

(* Moving along leaves the way as it is.                                    *)
LEMMA LineType ==
  ASSUME NEW o \in Seq(ListedCmd), NEW j \in Seq(ListedCmd), NEW t \in Seq(Item)
  PROVE  Line(o, j, t) \in Seq(ListedCmd)
  <1>1. Cmds(t) \in Seq(ListedCmd)
    BY CmdsType
  <1> QED BY <1>1, ConcatProperties DEF Line

(* The way is the same when the device puts a command from the line in      *)
(* its buffer.                                                              *)
LEMMA LineStores ==
  ASSUME NEW o \in Seq(ListedCmd), NEW j \in Seq(ListedCmd), NEW t \in Seq(Item), j # << >>
  PROVE  Line(Append(o, j[1]), Tail(j), t) = Line(o, j, t)
  <1>1. PICK c \in ListedCmd, r \in Seq(ListedCmd) : c = j[1] /\ r = Tail(j) /\ j = <<c>> \o r
    BY FirstAndRest
  <1>2. PICK h \in Seq(ListedCmd) : h = <<c>>
    BY Single
  <1>3. Append(o, c) = o \o h
    BY <1>2, AppendIsConcat
  <1>4. AssocAt(o, h, r)
    BY Assoc
  <1> QED BY <1>1, <1>2, <1>3, <1>4 DEF Line, AssocAt

(* The way is the same when the host sends the first entry.                 *)
LEMMA LineSends ==
  ASSUME NEW o \in Seq(ListedCmd), NEW j \in Seq(ListedCmd), NEW t \in Seq(Item), t # << >>
  PROVE  Line(o, Append(j, t[1].cmd), Tail(t)) = Line(o, j, t)
  <1>1. t[1] \in Item /\ Tail(t) \in Seq(Item)
    BY FirstAndRest
  <1>2. PICK c \in ListedCmd : c = t[1].cmd
    BY <1>1, ItemType
  <1>3. PICK h \in Seq(ListedCmd) : h = <<c>>
    BY Single
  <1>4. PICK r \in Seq(ListedCmd) : r = Cmds(Tail(t))
    BY <1>1, CmdsType
  <1>5. Cmds(t) = h \o r
    BY <1>2, <1>3, <1>4, CmdsFirst
  <1>6. Append(j, c) = j \o h
    BY <1>3, AppendIsConcat
  <1>7. PICK oi \in Seq(ListedCmd) : oi = o \o j
    BY ConcatProperties
  <1>8. AssocAt(o, j, h)
    BY Assoc
  <1>9. AssocAt(oi, h, r)
    BY Assoc
  <1> QED BY <1>2, <1>4, <1>5, <1>6, <1>7, <1>8, <1>9 DEF Line, AssocAt

(* Where one thing is taken off the way, the rest stays as it was.          *)
Without(r, a, x, b, q) == r = (a \o <<x>>) \o b /\ q = a \o b

(* Without the first entry of the list the way lacks its command.           *)
LEMMA LineListed ==
  ASSUME NEW o \in Seq(ListedCmd), NEW j \in Seq(ListedCmd), NEW t \in Seq(Item), t # << >>
  PROVE  \E a \in Seq(ListedCmd), b \in Seq(ListedCmd) :
           Without(Line(o, j, t), a, t[1].cmd, b, Line(o, j, Tail(t)))
  <1>1. t[1] \in Item /\ Tail(t) \in Seq(Item)
    BY FirstAndRest
  <1>2. PICK c \in ListedCmd : c = t[1].cmd
    BY <1>1, ItemType
  <1>3. PICK h \in Seq(ListedCmd) : h = <<c>>
    BY Single
  <1>4. PICK r \in Seq(ListedCmd) : r = Cmds(Tail(t))
    BY <1>1, CmdsType
  <1>5. Cmds(t) = h \o r
    BY <1>2, <1>3, <1>4, CmdsFirst
  <1>6. PICK oi \in Seq(ListedCmd) : oi = o \o j
    BY ConcatProperties
  <1>7. AssocAt(oi, h, r)
    BY Assoc
  <1>8. Without(Line(o, j, t), oi, t[1].cmd, r, Line(o, j, Tail(t)))
    BY <1>2, <1>3, <1>4, <1>5, <1>6, <1>7 DEF Line, Without, AssocAt
  <1> QED BY <1>8

(* Without the first command on the line the way lacks that one.            *)
LEMMA LineReceived ==
  ASSUME NEW o \in Seq(ListedCmd), NEW j \in Seq(ListedCmd), NEW t \in Seq(Item), j # << >>
  PROVE  /\ \E b \in Seq(ListedCmd) : Without(Line(o, j, t), o, j[1], b, Line(o, Tail(j), t))
                                      /\ b = Line(<< >>, Tail(j), t)
  <1>1. PICK c \in ListedCmd, r \in Seq(ListedCmd) : c = j[1] /\ r = Tail(j) /\ j = <<c>> \o r
    BY FirstAndRest
  <1>2. PICK h \in Seq(ListedCmd) : h = <<c>>
    BY Single
  <1>3. PICK u \in Seq(ListedCmd) : u = Cmds(t)
    BY CmdsType
  <1>4. PICK oh \in Seq(ListedCmd) : oh = o \o h
    BY ConcatProperties
  <1>5. PICK ru \in Seq(ListedCmd) : ru = r \o u
    BY ConcatProperties
  <1>6. AssocAt(o, h, r)
    BY Assoc
  <1>7. AssocAt(oh, r, u)
    BY Assoc
  <1>8. AssocAt(o, r, u)
    BY Assoc
  <1>9. << >> \o r = r
    BY ConcatEmptySeq
  <1>10. Without(Line(o, j, t), o, j[1], ru, Line(o, Tail(j), t)) /\ ru = Line(<< >>, Tail(j), t)
    BY <1>1, <1>2, <1>3, <1>4, <1>5, <1>6, <1>7, <1>8, <1>9 DEF Line, Without, AssocAt
  <1> QED BY <1>10

(* The places of what stays.                                                *)
Removed(r, p, q) ==
  /\ Len(q) \in Nat /\ Len(r) = Len(q) + 1 /\ p \in 1 .. Len(r)
  /\ \A k \in 1 .. Len(q) : q[k] = r[IF k < p THEN k ELSE k + 1]
Dropped(r, n, q) ==
  /\ Len(q) \in Nat /\ n \in Nat /\ Len(r) = Len(q) + n
  /\ \A k \in 1 .. Len(q) : q[k] = r[n + k]

(* Where the one that is lacking was.                                       *)
LEMMA WithoutIndex ==
  ASSUME NEW a \in Seq(ListedCmd), NEW b \in Seq(ListedCmd), NEW x \in ListedCmd,
         NEW r, NEW q, Without(r, a, x, b, q)
  PROVE  /\ Removed(r, Len(a) + 1, q) /\ r[Len(a) + 1] = x /\ Dropped(r, Len(a) + 1, b)
         /\ \A k \in 1 .. Len(a) : r[k] = a[k]
  <1>1. PICK h \in Seq(ListedCmd) : h = <<x>> /\ Len(h) = 1 /\ h[1] = x
    BY Single
  <1>2. PICK ah \in Seq(ListedCmd) : ah = a \o h
    BY ConcatProperties
  <1>3. /\ Len(ah) = Len(a) + 1
        /\ \A k \in 1 .. Len(a) + 1 : ah[k] = IF k <= Len(a) THEN a[k] ELSE h[k - Len(a)]
    BY <1>1, <1>2, ConcatProperties
  <1>4. /\ Len(r) = Len(ah) + Len(b)
        /\ \A k \in 1 .. Len(ah) + Len(b) : r[k] = IF k <= Len(ah) THEN ah[k] ELSE b[k - Len(ah)]
    <2>1. r = ah \o b
      BY <1>1, <1>2 DEF Without
    <2> QED BY <2>1, ConcatProperties
  <1>5. /\ Len(q) = Len(a) + Len(b)
        /\ \A k \in 1 .. Len(a) + Len(b) : q[k] = IF k <= Len(a) THEN a[k] ELSE b[k - Len(a)]
    <2>1. q = a \o b
      BY DEF Without
    <2> QED BY <2>1, ConcatProperties
  <1>6. PICK n \in Nat, m \in Nat : n = Len(a) /\ m = Len(b)
    OBVIOUS
  <1>7. \A k \in 1 .. n : ah[k] = a[k]
    <2> SUFFICES ASSUME NEW k \in 1 .. n PROVE ah[k] = a[k]
      OBVIOUS
    <2>1. k \in 1 .. Len(a) + 1 /\ k <= Len(a)
      BY <1>6
    <2> QED BY <1>3, <2>1
  <1>8. ah[n + 1] = x
    <2>1. n + 1 \in 1 .. Len(a) + 1 /\ ~(n + 1 <= Len(a)) /\ (n + 1) - Len(a) = 1
      BY <1>6
    <2> QED BY <1>1, <1>3, <2>1
  <1>9. Len(r) = n + 1 + m /\ Len(q) = n + m
    BY <1>3, <1>4, <1>5, <1>6
  <1>10. \A k \in 1 .. n + 1 + m : r[k] = IF k <= n + 1 THEN ah[k] ELSE b[k - (n + 1)]
    BY <1>3, <1>4, <1>6
  <1>11. \A k \in 1 .. n + m : q[k] = IF k <= n THEN a[k] ELSE b[k - n]
    BY <1>5, <1>6
  <1>12. r[n + 1] = x
    BY <1>8, <1>10
  <1>13. \A k \in 1 .. n : r[k] = a[k]
    BY <1>7, <1>10
  <1>14. \A k \in 1 .. m : b[k] = r[(n + 1) + k]
    <2> SUFFICES ASSUME NEW k \in 1 .. m PROVE b[k] = r[(n + 1) + k]
      OBVIOUS
    <2>1. (n + 1) + k \in 1 .. n + 1 + m /\ ~((n + 1) + k <= n + 1) /\ ((n + 1) + k) - (n + 1) = k
      OBVIOUS
    <2> QED BY <1>10, <2>1
  <1>15. \A k \in 1 .. n + m : q[k] = r[IF k < n + 1 THEN k ELSE k + 1]
    <2> SUFFICES ASSUME NEW k \in 1 .. n + m PROVE q[k] = r[IF k < n + 1 THEN k ELSE k + 1]
      OBVIOUS
    <2>1. CASE k < n + 1
      <3>1. k \in 1 .. n
        BY <2>1
      <3> QED BY <1>11, <1>13, <2>1, <3>1
    <2>2. CASE ~(k < n + 1)
      <3>1. k - n \in 1 .. m /\ (n + 1) + (k - n) = k + 1 /\ ~(k <= n)
        BY <2>2
      <3>2. b[k - n] = r[(n + 1) + (k - n)]
        BY <1>14, <3>1
      <3> QED BY <1>11, <2>2, <3>1, <3>2
    <2> QED BY <2>1, <2>2
  <1> QED BY <1>6, <1>9, <1>12, <1>13, <1>14, <1>15 DEF Removed, Dropped

(* Taking off what is no execution of the buffer keeps the order.           *)
LEMMA RemoveKeeps ==
  ASSUME NEW r, NEW p, NEW q, Removed(r, p, q), r[p].cmd # "exec"
  PROVE  /\ Settled(r) => Settled(q)
         /\ NoneBehind(r) => NoneBehind(q)
         /\ Drained(r) => Drained(q)
  <1> DEFINE Ix(k) == IF k < p THEN k ELSE k + 1
  <1>1. PICK n \in Nat : n = Len(q)
    BY DEF Removed
  <1>2. Len(r) = n + 1 /\ p \in 1 .. n + 1 /\ \A k \in 1 .. n : q[k] = r[Ix(k)]
    BY <1>1 DEF Removed
  <1>3. \A k \in 1 .. n : Ix(k) \in 1 .. n + 1
    BY <1>2
  <1>4. \A j \in 1 .. n : \A k \in 1 .. n : j < k => Ix(j) < Ix(k)
    BY <1>2
  <1>5. \A m \in 1 .. n + 1 : m # p => \E l \in 1 .. n : Ix(l) = m
    <2> SUFFICES ASSUME NEW m \in 1 .. n + 1, m # p PROVE \E l \in 1 .. n : Ix(l) = m
      OBVIOUS
    <2>1. CASE m < p
      <3>1. m \in 1 .. n /\ Ix(m) = m
        BY <1>2, <2>1
      <3> QED BY <3>1
    <2>2. CASE ~(m < p)
      <3>1. m - 1 \in 1 .. n /\ Ix(m - 1) = m
        BY <1>2, <2>2
      <3> QED BY <3>1
    <2> QED BY <2>1, <2>2
  <1>6. \A j \in 1 .. n : \A k \in 1 .. n : Ix(j) < Ix(k) => j < k
    BY <1>2
  <1> HIDE DEF Ix
  <1>7. ASSUME Settled(r) PROVE Settled(q)
    <2>1. SUFFICES ASSUME NEW j \in 1 .. n, NEW k \in 1 .. n, j < k, BufferOp(q[j]),
                          IsImmediate(q[k])
                   PROVE  \E m \in 1 .. n : j < m /\ m < k /\ q[m].cmd = "exec"
      BY <1>1 DEF Settled
    <2>2. BufferOp(r[Ix(j)]) /\ IsImmediate(r[Ix(k)]) /\ Ix(j) < Ix(k)
      BY <1>2, <1>4, <2>1
    <2>3. PICK m \in 1 .. n + 1 : Ix(j) < m /\ m < Ix(k) /\ r[m].cmd = "exec"
      BY <1>2, <1>3, <1>7, <2>2 DEF Settled
    <2>4. PICK l \in 1 .. n : Ix(l) = m
      BY <1>5, <2>3
    <2>5. j < l /\ l < k /\ q[l].cmd = "exec"
      BY <1>2, <1>6, <2>3, <2>4
    <2> QED BY <2>5
  <1>8. ASSUME NoneBehind(r) PROVE NoneBehind(q)
    <2>1. SUFFICES ASSUME NEW j \in 1 .. n, NEW k \in 1 .. n, k < j, IsImmediate(q[k])
                   PROVE  ~BufferOp(q[j])
      BY <1>1 DEF NoneBehind
    <2>2. IsImmediate(r[Ix(k)]) /\ Ix(k) < Ix(j)
      BY <1>2, <1>4, <2>1
    <2>3. ~BufferOp(r[Ix(j)])
      BY <1>2, <1>3, <1>8, <2>2 DEF NoneBehind
    <2> QED BY <1>2, <2>3
  <1>9. ASSUME Drained(r) PROVE Drained(q)
    <2>1. SUFFICES ASSUME NEW j \in 1 .. n, BufferOp(q[j])
                   PROVE  \E m \in 1 .. n : j < m /\ q[m].cmd = "exec"
      BY <1>1 DEF Drained
    <2>2. BufferOp(r[Ix(j)])
      BY <1>2, <2>1
    <2>3. PICK m \in 1 .. n + 1 : Ix(j) < m /\ r[m].cmd = "exec"
      BY <1>2, <1>3, <1>9, <2>2 DEF Drained
    <2>4. PICK l \in 1 .. n : Ix(l) = m
      BY <1>5, <2>3
    <2>5. j < l /\ q[l].cmd = "exec"
      BY <1>2, <1>6, <2>3, <2>4
    <2> QED BY <2>5
  <1> QED BY <1>7, <1>8, <1>9

(* So does inserting what is neither an operation nor waited for.           *)
LEMMA InsertKeeps ==
  ASSUME NEW r, NEW p, NEW q, Removed(r, p, q), ~BufferOp(r[p]), ~IsImmediate(r[p])
  PROVE  /\ Settled(q) => Settled(r)
         /\ NoneBehind(q) => NoneBehind(r)
         /\ Drained(q) => Drained(r)
  <1> DEFINE Ix(k) == IF k < p THEN k ELSE k + 1
  <1>1. PICK n \in Nat : n = Len(q)
    BY DEF Removed
  <1>2. Len(r) = n + 1 /\ p \in 1 .. n + 1 /\ \A k \in 1 .. n : q[k] = r[Ix(k)]
    BY <1>1 DEF Removed
  <1>3. \A k \in 1 .. n : Ix(k) \in 1 .. n + 1
    BY <1>2
  <1>4. \A j \in 1 .. n : \A k \in 1 .. n : j < k => Ix(j) < Ix(k)
    BY <1>2
  <1>5. \A m \in 1 .. n + 1 : m # p => \E l \in 1 .. n : Ix(l) = m
    <2> SUFFICES ASSUME NEW m \in 1 .. n + 1, m # p PROVE \E l \in 1 .. n : Ix(l) = m
      OBVIOUS
    <2>1. CASE m < p
      <3>1. m \in 1 .. n /\ Ix(m) = m
        BY <1>2, <2>1
      <3> QED BY <3>1
    <2>2. CASE ~(m < p)
      <3>1. m - 1 \in 1 .. n /\ Ix(m - 1) = m
        BY <1>2, <2>2
      <3> QED BY <3>1
    <2> QED BY <2>1, <2>2
  <1>6. \A j \in 1 .. n : \A k \in 1 .. n : Ix(j) < Ix(k) => j < k
    BY <1>2
  <1> HIDE DEF Ix
  <1>7. ASSUME Settled(q) PROVE Settled(r)
    <2>1. SUFFICES ASSUME NEW j \in 1 .. n + 1, NEW k \in 1 .. n + 1, j < k, BufferOp(r[j]),
                          IsImmediate(r[k])
                   PROVE  \E m \in 1 .. n + 1 : j < m /\ m < k /\ r[m].cmd = "exec"
      BY <1>2 DEF Settled
    <2>2. j # p /\ k # p
      BY <2>1
    <2>3. PICK a \in 1 .. n, b \in 1 .. n : Ix(a) = j /\ Ix(b) = k
      BY <1>5, <2>2
    <2>4. a < b /\ BufferOp(q[a]) /\ IsImmediate(q[b])
      BY <1>2, <1>6, <2>1, <2>3
    <2>5. PICK m \in 1 .. n : a < m /\ m < b /\ q[m].cmd = "exec"
      BY <1>1, <1>7, <2>4 DEF Settled
    <2>6. j < Ix(m) /\ Ix(m) < k /\ r[Ix(m)].cmd = "exec"
      BY <1>2, <1>4, <2>3, <2>5
    <2> QED BY <1>3, <2>6
  <1>8. ASSUME NoneBehind(q) PROVE NoneBehind(r)
    <2>1. SUFFICES ASSUME NEW j \in 1 .. n + 1, NEW k \in 1 .. n + 1, k < j, IsImmediate(r[k])
                   PROVE  ~BufferOp(r[j])
      BY <1>2 DEF NoneBehind
    <2>2. CASE j = p
      BY <2>2
    <2>3. CASE j # p
      <3>1. PICK a \in 1 .. n, b \in 1 .. n : Ix(a) = j /\ Ix(b) = k
        BY <1>5, <2>1, <2>3
      <3>2. b < a /\ IsImmediate(q[b])
        BY <1>2, <1>6, <2>1, <3>1
      <3>3. ~BufferOp(q[a])
        BY <1>1, <1>8, <3>2 DEF NoneBehind
      <3> QED BY <1>2, <3>1, <3>3
    <2> QED BY <2>2, <2>3
  <1>9. ASSUME Drained(q) PROVE Drained(r)
    <2>1. SUFFICES ASSUME NEW j \in 1 .. n + 1, BufferOp(r[j])
                   PROVE  \E m \in 1 .. n + 1 : j < m /\ r[m].cmd = "exec"
      BY <1>2 DEF Drained
    <2>2. PICK a \in 1 .. n : Ix(a) = j
      BY <1>5, <2>1
    <2>3. BufferOp(q[a])
      BY <1>2, <2>1, <2>2
    <2>4. PICK m \in 1 .. n : a < m /\ q[m].cmd = "exec"
      BY <1>1, <1>9, <2>3 DEF Drained
    <2>5. j < Ix(m) /\ r[Ix(m)].cmd = "exec"
      BY <1>2, <1>4, <2>2, <2>4
    <2> QED BY <1>3, <2>5
  <1> QED BY <1>7, <1>8, <1>9

(* And dropping everything up to some place.                                *)
LEMMA DropKeeps ==
  ASSUME NEW r, NEW n, NEW q, Dropped(r, n, q)
  PROVE  /\ Settled(r) => Settled(q)
         /\ NoneBehind(r) => NoneBehind(q)
         /\ Drained(r) => Drained(q)
  <1>1. PICK l \in Nat : l = Len(q)
    BY DEF Dropped
  <1>2. Len(r) = l + n /\ n \in Nat /\ \A k \in 1 .. l : q[k] = r[n + k]
    BY <1>1 DEF Dropped
  <1>3. \A k \in 1 .. l : n + k \in 1 .. Len(r)
    BY <1>2
  <1>4. \A m \in 1 .. Len(r) : m > n => m - n \in 1 .. l /\ n + (m - n) = m
    BY <1>2
  <1>5. ASSUME Settled(r) PROVE Settled(q)
    <2>1. SUFFICES ASSUME NEW j \in 1 .. l, NEW k \in 1 .. l, j < k, BufferOp(q[j]),
                          IsImmediate(q[k])
                   PROVE  \E m \in 1 .. l : j < m /\ m < k /\ q[m].cmd = "exec"
      BY <1>1 DEF Settled
    <2>2. BufferOp(r[n + j]) /\ IsImmediate(r[n + k]) /\ n + j < n + k
      BY <1>2, <2>1
    <2>3. PICK m \in 1 .. Len(r) : n + j < m /\ m < n + k /\ r[m].cmd = "exec"
      BY <1>3, <1>5, <2>2 DEF Settled
    <2>4. m - n \in 1 .. l /\ j < m - n /\ m - n < k /\ n + (m - n) = m
      BY <1>2, <1>4, <2>3
    <2>5. q[m - n].cmd = "exec"
      BY <1>2, <2>3, <2>4
    <2> QED BY <2>4, <2>5
  <1>6. ASSUME NoneBehind(r) PROVE NoneBehind(q)
    <2>1. SUFFICES ASSUME NEW j \in 1 .. l, NEW k \in 1 .. l, k < j, IsImmediate(q[k])
                   PROVE  ~BufferOp(q[j])
      BY <1>1 DEF NoneBehind
    <2>2. IsImmediate(r[n + k]) /\ n + k < n + j
      BY <1>2, <2>1
    <2>3. ~BufferOp(r[n + j])
      BY <1>3, <1>6, <2>2 DEF NoneBehind
    <2> QED BY <1>2, <2>3
  <1>7. ASSUME Drained(r) PROVE Drained(q)
    <2>1. SUFFICES ASSUME NEW j \in 1 .. l, BufferOp(q[j])
                   PROVE  \E m \in 1 .. l : j < m /\ q[m].cmd = "exec"
      BY <1>1 DEF Drained
    <2>2. BufferOp(r[n + j])
      BY <1>2, <2>1
    <2>3. PICK m \in 1 .. Len(r) : n + j < m /\ r[m].cmd = "exec"
      BY <1>3, <1>7, <2>2 DEF Drained
    <2>4. m - n \in 1 .. l /\ j < m - n /\ n + (m - n) = m
      BY <1>2, <1>4, <2>3
    <2>5. q[m - n].cmd = "exec"
      BY <1>2, <2>3, <2>4
    <2> QED BY <2>4, <2>5
  <1> QED BY <1>5, <1>6, <1>7

-----------------------------------------------------------------------------
(* How many answers there are to commands.                                  *)
RepliesMap == [a \in OnLine |-> IF a.kind # "data" THEN <<0>> ELSE << >>]
RepliesIn(s) == {k \in DOMAIN s : s[k].kind # "data"}
NReplies(s) == Cardinality(RepliesIn(s))

(* The replies among the answers can be counted.                            *)
LEMMA RepliesFinite ==
  ASSUME NEW s \in Seq(OnLine)
  PROVE  IsFiniteSet(RepliesIn(s)) /\ RepliesIn(s) \subseteq 1 .. Len(s)
  <1>1. DOMAIN s = 1 .. Len(s) /\ Len(s) \in Int
    OBVIOUS
  <1>2. IsFiniteSet(1 .. Len(s))
    BY <1>1, FS_Interval
  <1>3. RepliesIn(s) \in SUBSET (1 .. Len(s))
    BY <1>1 DEF RepliesIn
  <1> QED BY <1>2, <1>3, FS_Subset

(* One answer more, other than the bytes of a read, is one reply more.      *)
LEMMA RepliesAppend ==
  ASSUME NEW s \in Seq(OnLine), NEW a \in OnLine
  PROVE  NReplies(Append(s, a)) = NReplies(s) + (IF a.kind # "data" THEN 1 ELSE 0)
  <1>1. PICK t \in Seq(OnLine) : t = Append(s, a)
    BY AppendProperties
  <1>2. Len(t) = Len(s) + 1 /\ (\A k \in 1 .. Len(s) : t[k] = s[k]) /\ t[Len(s) + 1] = a
        /\ Len(s) \in Nat
    BY <1>1
  <1>3. DOMAIN s = 1 .. Len(s) /\ DOMAIN t = 1 .. Len(t)
    OBVIOUS
  <1>4. IsFiniteSet(RepliesIn(s)) /\ Len(s) + 1 \notin RepliesIn(s)
    BY <1>2, RepliesFinite
  <1>5. CASE a.kind # "data"
    <2>1. RepliesIn(t) = RepliesIn(s) \cup {Len(s) + 1}
      BY <1>2, <1>3, <1>5 DEF RepliesIn
    <2>2. Cardinality(RepliesIn(s) \cup {Len(s) + 1}) = Cardinality(RepliesIn(s)) + 1
      BY <1>4, FS_AddElement
    <2> QED BY <1>1, <1>5, <2>1, <2>2 DEF NReplies
  <1>6. CASE a.kind = "data"
    <2>1. RepliesIn(t) = RepliesIn(s)
      BY <1>2, <1>3, <1>6 DEF RepliesIn
    <2>2. Cardinality(RepliesIn(s)) \in Nat
      BY <1>4, FS_CardinalityType
    <2> QED BY <1>1, <1>6, <2>1, <2>2 DEF NReplies
  <1> QED BY <1>5, <1>6

(* The replies, as a map over the answers.                                  *)
LEMMA RepliesMapType == RepliesMap \in [OnLine -> Seq({0})]
  <1>1. <<0>> \in Seq({0}) /\ << >> \in Seq({0})
    OBVIOUS
  <1> QED BY <1>1 DEF RepliesMap

(* It is the length of a sum, too.                                          *)
LEMMA RepliesLen ==
  \A s \in Seq(OnLine) : NReplies(s) = Len(FlatMap(RepliesMap, s))
  <1> DEFINE T == {s \in Seq(OnLine) : NReplies(s) = Len(FlatMap(RepliesMap, s))}
  <1>1. << >> \in T
    <2>1. RepliesIn(<< >>) = {}
      BY DEF RepliesIn
    <2>2. NReplies(<< >>) = 0
      BY <2>1, FS_EmptySet DEF NReplies
    <2>3. FlatMap(RepliesMap, << >>) = << >>
      BY DEF FlatMap, MapSeq, FlattenSeq
    <2>4. Len(FlatMap(RepliesMap, << >>)) = 0
      BY <2>3
    <2>5. << >> \in Seq(OnLine)
      OBVIOUS
    <2> QED BY ONLY <2>2, <2>4, <2>5
  <1>2. ASSUME NEW s \in Seq(OnLine), NEW a \in OnLine, s \in T PROVE Append(s, a) \in T
    <2>1. FlatMap(RepliesMap, Append(s, a)) = FlatMap(RepliesMap, s) \o RepliesMap[a]
      BY RepliesMapType, FlatMapAppend
    <2>2. PICK u \in Seq({0}) : u = FlatMap(RepliesMap, s)
      BY RepliesMapType, FlatMapType
    <2>3. CASE a.kind # "data"
      <3>1. RepliesMap[a] = <<0>>
        BY <2>3 DEF RepliesMap
      <3>2. Len(u \o <<0>>) = Len(u) + 1
        OBVIOUS
      <3>3. NReplies(Append(s, a)) = NReplies(s) + 1
        BY <2>3, RepliesAppend
      <3> QED BY <1>2, <2>1, <2>2, <3>1, <3>2, <3>3
    <2>4. CASE a.kind = "data"
      <3>1. RepliesMap[a] = << >>
        BY <2>4 DEF RepliesMap
      <3>2. u \o << >> = u
        OBVIOUS
      <3>3. NReplies(Append(s, a)) = NReplies(s) + 0
        BY <2>4, RepliesAppend
      <3>4. NReplies(s) \in Nat
        BY RepliesFinite, FS_CardinalityType DEF NReplies
      <3> QED BY <1>2, <2>1, <2>2, <3>1, <3>2, <3>3, <3>4
    <2> QED BY <2>3, <2>4
  <1>3. Seq(OnLine) \subseteq T
    <2> HIDE DEF T
    <2> QED BY <1>1, <1>2, ClimbSeq
  <1> QED BY <1>3

(* One answer less is one reply less, unless it was the bytes of a read.    *)
LEMMA RepliesTail ==
  ASSUME NEW s \in Seq(OnLine), s # << >>
  PROVE  /\ NReplies(s) = NReplies(Tail(s)) + (IF s[1].kind # "data" THEN 1 ELSE 0)
         /\ NReplies(s) \in Nat /\ NReplies(Tail(s)) \in Nat
  <1>1. PICK a \in OnLine, r \in Seq(OnLine) : a = s[1] /\ r = Tail(s)
    BY FirstAndRest
  <1>2. FlatMap(RepliesMap, s) = RepliesMap[a] \o FlatMap(RepliesMap, r)
    BY <1>1, RepliesMapType, FlatMapFirst
  <1>3. PICK u \in Seq({0}) : u = FlatMap(RepliesMap, r)
    BY RepliesMapType, FlatMapType
  <1>4. NReplies(s) = Len(FlatMap(RepliesMap, s)) /\ NReplies(r) = Len(u)
    BY <1>3, RepliesLen
  <1>5. CASE a.kind # "data"
    <2>1. RepliesMap[a] = <<0>> /\ Len(<<0>> \o u) = 1 + Len(u) /\ Len(u) \in Nat
      BY <1>5 DEF RepliesMap
    <2> QED BY <1>1, <1>2, <1>3, <1>4, <1>5, <2>1
  <1>6. CASE a.kind = "data"
    <2>1. RepliesMap[a] = << >> /\ << >> \o u = u /\ Len(u) \in Nat
      BY <1>6 DEF RepliesMap
    <2> QED BY <1>1, <1>2, <1>3, <1>4, <1>6, <2>1
  <1> QED BY <1>5, <1>6

(* No answers to commands: all bring data.                                  *)
LEMMA RepliesNone ==
  ASSUME NEW s \in Seq(OnLine)
  PROVE  /\ NReplies(s) \in Nat
         /\ NReplies(s) = 0 => \A k \in 1 .. Len(s) : s[k].kind = "data"
  <1>1. IsFiniteSet(RepliesIn(s))
    BY RepliesFinite
  <1>2. NReplies(s) \in Nat /\ (NReplies(s) = 0 => RepliesIn(s) = {})
    BY <1>1, FS_CardinalityType, FS_EmptySet DEF NReplies
  <1>3. DOMAIN s = 1 .. Len(s)
    OBVIOUS
  <1> QED BY <1>2, <1>3 DEF RepliesIn

-----------------------------------------------------------------------------
(* What the way holds.                                                      *)

(* A sequence of commands of some kinds is one of commands of more kinds.   *)
LEMMA KindsIn ==
  ASSUME NEW K, NEW L, K \subseteq L
  PROVE  SerCmd(K) \subseteq SerCmd(L) /\ Seq(SerCmd(K)) \subseteq Seq(SerCmd(L))
  <1>1. SerCmd(K) \subseteq SerCmd(L)
    BY DEF SerCmd
  <1>2. \A s \in Seq(SerCmd(K)) : s \in Seq(SerCmd(L))
    BY <1>1
  <1> QED BY <1>1, <1>2

(* The kinds of command that each part of the way holds.                    *)
LEMMA WayKinds ==
  /\ SerCmd(StoredKinds) \subseteq ListedCmd /\ Seq(SerCmd(StoredKinds)) \subseteq Seq(ListedCmd)
  /\ AnyCmd \subseteq ListedCmd /\ Seq(AnyCmd) \subseteq Seq(ListedCmd)
  /\ SerCmd(Streamed) \subseteq AnyCmd /\ SerCmd({"spi", "pin"}) \subseteq AnyCmd
  <1>1. /\ StoredKinds \subseteq Streamed \cup {"spi", "pin", "none"}
        /\ Streamed \cup {"spi", "pin"} \subseteq Streamed \cup {"spi", "pin", "none"}
        /\ Streamed \subseteq Streamed \cup {"spi", "pin"}
        /\ {"spi", "pin"} \subseteq Streamed \cup {"spi", "pin"}
    BY DEF StoredKinds, Streamed
  <1> QED BY <1>1, KindsIn DEF AnyCmd, ListedCmd

(* The effects on the way, in one sum.                                      *)
WayEffects(p, o, j, t, h) ==
  p \o AllEffects(o) \o AllEffects(j) \o AllEffects(Cmds(t)) \o h
SumsUp(p, o, j, t, h) == WayEffects(p, o, j, t, h) = (p \o AllEffects(Line(o, j, t))) \o h

(* What joined sequences of commands do to the chip.                        *)
LEMMA EffectsJoin ==
  ASSUME NEW s \in Seq(ListedCmd), NEW t \in Seq(ListedCmd)
  PROVE  /\ AllEffects(s) \in Seq(Event)
         /\ AllEffects(s \o t) = AllEffects(s) \o AllEffects(t)
  <1>1. EffectsMap \in [ListedCmd -> Seq(Event)]
    <2>1. << >> \in Seq(Event)
      OBVIOUS
    <2> QED BY <2>1, MapTypes
  <1>2. FlatMapJoins(EffectsMap, s, t)
    BY ONLY <1>1, s \in Seq(ListedCmd), t \in Seq(ListedCmd), FlatMapConcat
  <1>3. s \o t \in Seq(ListedCmd)
    BY ConcatProperties
  <1>4. PICK u \in Seq(ListedCmd) : u = s \o t
    BY <1>3
  <1>5. AllEffects(u) = FlatMap(EffectsMap, u)
    BY AllEffectsMap
  <1>6. AllEffects(s) = FlatMap(EffectsMap, s) /\ AllEffects(t) = FlatMap(EffectsMap, t)
    BY AllEffectsMap
  <1>7. FlatMap(EffectsMap, s) \in Seq(Event)
    BY <1>1, FlatMapType
  <1> QED BY <1>2, <1>4, <1>5, <1>6, <1>7 DEF FlatMapJoins

(* What the parts of the way do is what the way does.                       *)
LEMMA LineEffects ==
  ASSUME NEW o \in Seq(ListedCmd), NEW j \in Seq(ListedCmd), NEW t \in Seq(Item),
         NEW p \in Seq(Event), NEW h \in Seq(Event)
  PROVE  SumsUp(p, o, j, t, h)
  <1>1. PICK s \in Seq(ListedCmd) : s = Cmds(t)
    BY CmdsType
  <1>2. PICK oi \in Seq(ListedCmd) : oi = o \o j
    BY ConcatProperties
  <1>3. PICK eo \in Seq(Event) : eo = AllEffects(o)
    BY EffectsJoin
  <1>4. PICK ei \in Seq(Event) : ei = AllEffects(j)
    BY EffectsJoin
  <1>5. PICK es \in Seq(Event) : es = AllEffects(s)
    BY EffectsJoin
  <1>6. PICK eoi \in Seq(Event) : eoi = eo \o ei
    BY ConcatProperties
  <1>7. AllEffects(oi) = eoi
    BY <1>2, <1>3, <1>4, <1>6, EffectsJoin
  <1>8. AllEffects(Line(o, j, t)) = eoi \o es
    BY <1>1, <1>2, <1>5, <1>7, EffectsJoin DEF Line
  <1>9. PICK pe \in Seq(Event) : pe = p \o eo
    BY ConcatProperties
  <1>10. AssocAt(p, eo, ei)
    BY Assoc
  <1>11. AssocAt(p, eoi, es)
    BY Assoc
  <1>12. (p \o eo) \o ei = p \o eoi
    BY <1>6, <1>10 DEF AssocAt
  <1>13. ((p \o eo) \o ei) \o es = p \o (eoi \o es)
    BY <1>11, <1>12 DEF AssocAt
  <1> QED BY <1>1, <1>3, <1>4, <1>5, <1>8, <1>13 DEF SumsUp, WayEffects

(* A way without one of its commands.                                       *)
CountedAt(E, r, a, x, b, q) ==
  /\ FlatMap(E, r) = (FlatMap(E, a) \o E[x]) \o FlatMap(E, b)
  /\ FlatMap(E, q) = FlatMap(E, a) \o FlatMap(E, b)

(* One command less makes less by what that command makes.                  *)
LEMMA Counted ==
  ASSUME NEW A, NEW B, NEW E \in [A -> Seq(B)], NEW a \in Seq(A), NEW b \in Seq(A), NEW x \in A,
         NEW r, NEW q, Without(r, a, x, b, q)
  PROVE  CountedAt(E, r, a, x, b, q)
  <1>1. PICK h \in Seq(A) : h = <<x>>
    BY Single
  <1>2. PICK ah \in Seq(A) : ah = a \o h
    BY ConcatProperties
  <1>3. FlatMapJoins(E, a, h)
    BY ONLY E \in [A -> Seq(B)], a \in Seq(A), h \in Seq(A), FlatMapConcat
  <1>4. FlatMapJoins(E, ah, b)
    BY ONLY E \in [A -> Seq(B)], ah \in Seq(A), b \in Seq(A), FlatMapConcat
  <1>5. FlatMapJoins(E, a, b)
    BY ONLY E \in [A -> Seq(B)], a \in Seq(A), b \in Seq(A), FlatMapConcat
  <1>6. FlatMap(E, h) = E[x]
    BY <1>1, FlatMapOne
  <1> QED BY <1>1, <1>2, <1>3, <1>4, <1>5, <1>6 DEF CountedAt, Without, FlatMapJoins

Mute(E, x) == E[x] = << >>
SameMade(E, r, q) == FlatMap(E, r) = FlatMap(E, q)

(* One command less that makes nothing makes no difference.                 *)
LEMMA Uncounted ==
  ASSUME NEW A, NEW B, NEW E \in [A -> Seq(B)], NEW a \in Seq(A), NEW b \in Seq(A), NEW x \in A,
         NEW r, NEW q, Without(r, a, x, b, q), Mute(E, x)
  PROVE  SameMade(E, r, q)
  <1>1. CountedAt(E, r, a, x, b, q)
    BY ONLY E \in [A -> Seq(B)], a \in Seq(A), b \in Seq(A), x \in A, Without(r, a, x, b, q),
              Counted
  <1>2. PICK ea \in Seq(B) : ea = FlatMap(E, a)
    BY FlatMapType
  <1>3. ea \o << >> = ea
    BY ConcatEmptySeq
  <1> QED BY <1>1, <1>2, <1>3 DEF CountedAt, Mute, SameMade

(* What neither changes the chip nor is answered with data can be taken off *)
(* the way.                                                                 *)
LEMMA UnheldOff ==
  ASSUME NEW a \in Seq(ListedCmd), NEW b \in Seq(ListedCmd), NEW x \in ListedCmd, NEW r, NEW q,
         Without(r, a, x, b, q)
  PROVE  /\ r \in Seq(ListedCmd) /\ q \in Seq(ListedCmd)
         /\ ~BufferOp(x) => AllEffects(r) = AllEffects(q)
         /\ \A log \in Seq(Event) : x.cmd \notin ReadKinds \cup {"spi"} =>
              AllOwed(log, r) = AllOwed(log, q)
  <1>1. <<x>> \in Seq(ListedCmd)
    BY Single
  <1>2. PICK ax \in Seq(ListedCmd) : ax = a \o <<x>>
    BY <1>1, ConcatProperties
  <1>3. r \in Seq(ListedCmd)
    BY <1>2, ConcatProperties DEF Without
  <1>4. q \in Seq(ListedCmd)
    BY ConcatProperties DEF Without
  <1>5. EffectsMap \in [ListedCmd -> Seq(Event)]
    <2>1. << >> \in Seq(Event)
      OBVIOUS
    <2> QED BY <2>1, MapTypes
  <1>6. ASSUME ~BufferOp(x) PROVE AllEffects(r) = AllEffects(q)
    <2>1. Mute(EffectsMap, x)
      BY <1>6, EffectsType DEF EffectsMap, Mute
    <2>2. SameMade(EffectsMap, r, q)
      BY ONLY <1>5, <2>1, a \in Seq(ListedCmd), b \in Seq(ListedCmd), x \in ListedCmd,
              Without(r, a, x, b, q), Uncounted
    <2> QED BY <1>3, <1>4, <2>2, AllEffectsMap DEF SameMade
  <1>7. ASSUME NEW log \in Seq(Event), x.cmd \notin ReadKinds \cup {"spi"}
        PROVE  AllOwed(log, r) = AllOwed(log, q)
    <2>1. OwesMap(log)[x] = << >>
      BY <1>7 DEF OwesMap, Owes
    <2>2. PICK E : E = OwesMap(log)
      OBVIOUS
    <2>3. E \in [ListedCmd -> Seq(Seq(Int))]
      BY <2>2, MapTypes
    <2>4. Mute(E, x)
      BY <2>1, <2>2 DEF Mute
    <2>5. SameMade(E, r, q)
      BY ONLY <2>3, <2>4, a \in Seq(ListedCmd), b \in Seq(ListedCmd), x \in ListedCmd,
              Without(r, a, x, b, q), Uncounted
    <2> QED BY <1>3, <1>4, <2>2, <2>5, AllOwedMap DEF SameMade
  <1> QED BY <1>3, <1>4, <1>6, <1>7

-----------------------------------------------------------------------------
(* What an answer adds to the answers.                                      *)
NakedIn(s) == \E k \in 1 .. Len(s) : s[k].kind = "nak"
Bringing(d) == IF d = << >> THEN << >> ELSE <<d>>
Replied(s, kind, d) ==
  Append(s, [kind |-> kind, data |-> << >>])
  \o (IF d = << >> THEN << >> ELSE <<[kind |-> "data", data |-> d]>>)
Answered(s, r, kind, d) ==
  /\ r \in Seq(OnLine)
  /\ NReplies(r) = NReplies(s) + 1
  /\ AllBrought(r) = AllBrought(s) \o Bringing(d)
  /\ NakedIn(r) <=> NakedIn(s) \/ kind = "nak"
  /\ s = << >> => /\ Len(r) = IF d = << >> THEN 1 ELSE 2
                  /\ r[1].kind = kind
                  /\ d # << >> => r[2].kind = "data"

(* One more answer.                                                         *)
LEMMA AnswerAdds ==
  ASSUME NEW s \in Seq(OnLine), NEW a \in OnLine
  PROVE  /\ Append(s, a) \in Seq(OnLine)
         /\ AllBrought(Append(s, a)) = AllBrought(s) \o Brings(a)
         /\ NakedIn(Append(s, a)) <=> NakedIn(s) \/ a.kind = "nak"
         /\ AllBrought(s) \in Seq(Seq(Int))
         /\ Len(Append(s, a)) = Len(s) + 1 /\ Append(s, a)[Len(s) + 1] = a
         /\ \A k \in 1 .. Len(s) : Append(s, a)[k] = s[k]
  <1>1. BringsMap \in [OnLine -> Seq(Seq(Int))]
    <2>1. << >> \in Seq(Event)
      OBVIOUS
    <2> QED BY <2>1, MapTypes
  <1>2. PICK r \in Seq(OnLine) : r = Append(s, a)
    BY AppendProperties
  <1>3. Len(r) = Len(s) + 1 /\ r[Len(s) + 1] = a /\ (\A k \in 1 .. Len(s) :
                                                       r[k] = s[k]) /\ Len(s) \in Nat
    BY <1>2
  <1>4. FlatMap(BringsMap, Append(s, a)) = FlatMap(BringsMap, s) \o BringsMap[a]
    BY ONLY <1>1, s \in Seq(OnLine), a \in OnLine, FlatMapAppend
  <1>5. AllBrought(r) = FlatMap(BringsMap, r) /\ AllBrought(s) = FlatMap(BringsMap, s)
    BY AllBroughtMap
  <1>6. BringsMap[a] = Brings(a)
    BY DEF BringsMap
  <1>7. FlatMap(BringsMap, s) \in Seq(Seq(Int))
    BY <1>1, FlatMapType
  <1>8. NakedIn(r) <=> NakedIn(s) \/ a.kind = "nak"
    <2>1. ASSUME NakedIn(r) PROVE NakedIn(s) \/ a.kind = "nak"
      <3>1. PICK k \in 1 .. Len(s) + 1 : r[k].kind = "nak"
        BY <1>3, <2>1 DEF NakedIn
      <3>2. CASE k = Len(s) + 1
        BY <1>3, <3>1, <3>2
      <3>3. CASE k # Len(s) + 1
        <4>1. k \in 1 .. Len(s)
          BY <1>3, <3>3
        <4> QED BY <1>3, <3>1, <4>1 DEF NakedIn
      <3> QED BY <3>2, <3>3
    <2>2. ASSUME NakedIn(s) PROVE NakedIn(r)
      <3>1. PICK k \in 1 .. Len(s) : s[k].kind = "nak"
        BY <2>2 DEF NakedIn
      <3>2. k \in 1 .. Len(r) /\ r[k] = s[k]
        BY <1>3
      <3> QED BY <3>1, <3>2 DEF NakedIn
    <2>3. ASSUME a.kind = "nak" PROVE NakedIn(r)
      <3>1. Len(s) + 1 \in 1 .. Len(r)
        BY <1>3
      <3> QED BY <1>3, <2>3, <3>1 DEF NakedIn
    <2> QED BY <2>1, <2>2, <2>3
  <1> QED BY <1>2, <1>3, <1>4, <1>5, <1>6, <1>7, <1>8

(* The answers with the reply of the device to one command.                 *)
LEMMA ReplyAnswers ==
  ASSUME NEW s \in Seq(OnLine), NEW kind \in {"ack", "nak"}, NEW d \in Seq(Int)
  PROVE  Answered(s, Replied(s, kind, d), kind, d)
  <1>1. PICK a \in OnLine : a = [kind |-> kind, data |-> << >>]
    BY DEF OnLine
  <1>2. PICK r \in Seq(OnLine) : r = Append(s, a)
    BY AnswerAdds
  <1>3. /\ AllBrought(r) = AllBrought(s) \o << >>
        /\ NakedIn(r) <=> NakedIn(s) \/ kind = "nak"
        /\ AllBrought(s) \in Seq(Seq(Int))
    BY <1>1, <1>2, AnswerAdds DEF Brings
  <1>4. AllBrought(r) = AllBrought(s)
    BY <1>3, ConcatEmptySeq
  <1>5. NReplies(r) = NReplies(s) + 1
    BY <1>1, <1>2, RepliesAppend
  <1>6. s = << >> => Len(r) = 1 /\ r[1] = a
    BY <1>2
  <1>7. CASE d = << >>
    <2>1. Replied(s, kind, d) = r \o << >>
      BY <1>1, <1>2, <1>7 DEF Replied
    <2>2. Replied(s, kind, d) = r
      BY <2>1, ConcatEmptySeq
    <2>3. AllBrought(r) = AllBrought(s) \o Bringing(d)
      BY <1>3, <1>4, <1>7 DEF Bringing
    <2>4. s = << >> => Len(r) = (IF d = << >> THEN 1 ELSE 2) /\ r[1].kind = kind
      BY <1>1, <1>6, <1>7
    <2> QED BY <1>3, <1>5, <1>7, <2>2, <2>3, <2>4 DEF Answered
  <1>8. CASE d # << >>
    <2>1. PICK b \in OnLine : b = [kind |-> "data", data |-> d]
      BY DEF OnLine
    <2>2. PICK u \in Seq(OnLine) : u = Append(r, b)
      BY AnswerAdds
    <2>3. r \o <<b>> = u
      BY <2>2, AppendIsConcat
    <2>4. Replied(s, kind, d) = u
      BY <1>1, <1>2, <1>8, <2>1, <2>3 DEF Replied
    <2>5. AllBrought(u) = AllBrought(s) \o Bringing(d)
      BY <1>4, <1>8, <2>1, <2>2, AnswerAdds DEF Brings, Bringing
    <2>6. NakedIn(u) <=> NakedIn(s) \/ kind = "nak"
      BY <1>3, <2>1, <2>2, AnswerAdds
    <2>7. NReplies(u) = NReplies(r) + 0
      BY <2>1, <2>2, RepliesAppend
    <2>8. NReplies(r) \in Nat /\ NReplies(s) \in Nat
      BY RepliesNone
    <2>9. NReplies(u) = NReplies(s) + 1
      BY <1>5, <2>7, <2>8
    <2>10. s = << >> => Len(u) = 2 /\ u[1] = a /\ u[2] = b
      <3> SUFFICES ASSUME s = << >> PROVE Len(u) = 2 /\ u[1] = a /\ u[2] = b
        OBVIOUS
      <3>1. Len(r) = 1 /\ r[1] = a
        BY <1>6
      <3>2. Len(u) = Len(r) + 1 /\ u[Len(r) + 1] = b /\ \A k \in 1 .. Len(r) : u[k] = r[k]
        BY <2>2
      <3> QED BY <3>1, <3>2
    <2>11. s = << >> =>
             Len(u) = (IF d = << >> THEN 1 ELSE 2) /\ u[1].kind = kind /\ u[2].kind = "data"
      BY <1>1, <1>8, <2>1, <2>10
    <2> QED BY <2>4, <2>5, <2>6, <2>9, <2>11 DEF Answered
  <1> QED BY <1>7, <1>8

-----------------------------------------------------------------------------
(* A step of the device: it takes a command off the line and answers it.    *)
(* What is left to show of each step is what becomes of the way.            *)
WayKept(s) == Settled(s) /\ NoneBehind(s)
DeviceOnly ==
  /\ input # << >> /\ input' = Tail(input)
  /\ UNCHANGED <<serprog, host, todo, ops, streamed, asked, got, outcome, spc, link, issued, calls>>

DeviceTakes(kind, d) ==
  /\ Answered(answers, answers', kind, d)
  /\ opbuf' \in Seq(SerCmd(StoredKinds)) /\ performed' \in Seq(Event) /\ refusals' \in Nat
  /\ kind = "nak" => refusals' > 0 \/ naks' # {}
  /\ refusals > 0 => refusals' > 0
  /\ naks # {} => naks' # {}
  /\ naks' # {} => naks # {} \/ kind = "nak"
  /\ Conserved'
  /\ Working => /\ WayKept(OnTheWay')
                /\ host.usage = 0 => Drained(OnTheWay')
  /\ Working /\ kind = "ack" /\ ~Naked =>
       Bringing(d) \o AllOwed(issued, OnTheWay') = AllOwed(issued, OnTheWay)
  /\ Working /\ Running /\ todo[1].do = "ack" =>
       /\ naks' = {} /\ kind \in {"ack", "nak"}
       /\ kind = "nak" => d = << >>
       /\ kind = "ack" /\ spc = "stopping" => ~drivers'

(* What the device takes was first on the line.                             *)
LEMMA InputTail ==
  ASSUME SerprogType, DeviceOnly
  PROVE  /\ input[1] \in AnyCmd /\ input' \in Seq(AnyCmd)
         /\ Len(input) \in Nat \ {0} /\ Len(input') = Len(input) - 1
         /\ \A k \in 1 .. Len(input') : input'[k] = input[k + 1]
  <1>1. input \in Seq(AnyCmd) /\ input # << >> /\ input' = Tail(input)
    BY DEF SerprogType, DeviceOnly
  <1> QED BY <1>1, FirstAndRest

(* The device keeps the types.                                              *)
LEMMA DeviceType ==
  ASSUME SerprogType, DeviceOnly, NEW kind, NEW d, DeviceTakes(kind, d)
  PROVE  SerprogType'
  <1>1. input' \in Seq(AnyCmd)
    BY InputTail
  <1>2. answers' \in Seq(OnLine)
    BY DEF DeviceTakes, Answered
  <1>3. opbuf' \in Seq(SerCmd(StoredKinds)) /\ performed' \in Seq(Event) /\ refusals' \in Nat
    BY DEF DeviceTakes
  <1> QED BY <1>1, <1>2, <1>3 DEF SerprogType, DeviceOnly

(* The device keeps the counts of the flow control: it gives one answer     *)
(* for each command.                                                        *)
LEMMA DeviceFlow ==
  ASSUME SerprogType, DeviceOnly, NEW kind, NEW d, DeviceTakes(kind, d), Flow, Working
  PROVE  Flow'
  <1>1. Len(input) \in Nat \ {0} /\ Len(input') = Len(input) - 1
    BY InputTail
  <1>2. NReplies(answers') = NReplies(answers) + 1 /\ NReplies(answers) \in Nat
    <2>1. NReplies(answers) \in Nat
      BY RepliesNone DEF SerprogType
    <2> QED BY <2>1 DEF DeviceTakes, Answered
  <1>3. Len(input') + NReplies(answers') = Len(input) + NReplies(answers)
    BY <1>1, <1>2
  <1>4. UNCHANGED <<host, todo, ops, spc, link>>
    BY DEF DeviceOnly
  <1>5. CountsMatch'
    BY <1>3, <1>4 DEF Flow, CountsMatch, Running, Replies, NReplies, RepliesIn
  <1>6. naks' # {} => Naked'
    <2>1. naks' # {} => NakedIn(answers) \/ kind = "nak"
      BY DEF DeviceTakes, Flow, Naked, NakedIn
    <2>2. NakedIn(answers') <=> NakedIn(answers) \/ kind = "nak"
      BY DEF DeviceTakes, Answered
    <2> QED BY <2>1, <2>2 DEF Naked, NakedIn
  <1>7. (Running /\ Awaits(todo[1]) => ops = 0)'
    BY <1>4 DEF Flow, Running
  <1>8. (Waits(todo) \/ spc = "stopped" => host.usage = 0 /\ host.data = << >>)'
    BY <1>4 DEF Flow
  <1>9. (host.usage = 0 =>
         /\ \A k \in 1 .. Len(todo) :
              todo[k].do = "stream" => \E m \in 1 .. Len(todo) : m > k /\ todo[m].do = "flush"
         /\ ops > 0 => \E m \in 1 .. Len(todo) : todo[m].do = "flush")'
    BY <1>4 DEF Flow
  <1> QED BY <1>5, <1>6, <1>7, <1>8, <1>9 DEF Flow

(* The device keeps what the commands on the way are to each other.         *)
LEMMA DevicePipeline ==
  ASSUME SerprogType, DeviceOnly, NEW kind, NEW d, DeviceTakes(kind, d), Pipeline, Working
  PROVE  Pipeline'
  <1>1. (\E k \in 1 .. Len(input') :
           IsImmediate(input'[k])) => \E k \in 1 .. Len(input) : IsImmediate(input[k])
    <2> SUFFICES ASSUME NEW k \in 1 .. Len(input'), IsImmediate(input'[k])
                 PROVE  \E m \in 1 .. Len(input) : IsImmediate(input[m])
      OBVIOUS
    <2>1. k + 1 \in 1 .. Len(input) /\ input'[k] = input[k + 1]
      BY InputTail
    <2> QED BY <2>1
  <1>2. todo' = todo /\ host' = host
    BY DEF DeviceOnly
  <1>3. WayKept(OnTheWay') /\ (host.usage = 0 => Drained(OnTheWay'))
    BY DEF DeviceTakes
  <1> QED BY <1>1, <1>2, <1>3 DEF Pipeline, WayKept

(* The way, and what is held, by their parts.                               *)
LEMMA WayLine ==
  /\ OnTheWay = Line(opbuf, input, todo)
  /\ Sent = Cmds(todo)
  /\ Held = AllEffects(<<Cmd("writen", host.addr, host.data, 0)>>)
  BY DEF OnTheWay, Line, Sent, Cmds, Held

(* What is on the line and in the device are commands.                      *)
LEMMA WayTypeAt ==
  ASSUME NEW o \in Seq(SerCmd(StoredKinds)), NEW j \in Seq(AnyCmd), NEW t \in Seq(Item)
  PROVE  /\ o \in Seq(ListedCmd) /\ j \in Seq(ListedCmd)
         /\ Line(o, j, t) \in Seq(ListedCmd)
  <1>1. o \in Seq(ListedCmd)
    BY WayKinds
  <1>2. j \in Seq(ListedCmd)
    BY WayKinds
  <1> QED BY <1>1, <1>2, LineType

(* The commands that are on the way.                                        *)
LEMMA WayType ==
  ASSUME SerprogType
  PROVE  /\ opbuf \in Seq(ListedCmd) /\ input \in Seq(ListedCmd)
         /\ OnTheWay \in Seq(ListedCmd) /\ OnTheWay = Line(opbuf, input, todo)
  BY WayTypeAt DEF SerprogType, OnTheWay, Line, Sent, Cmds

(* What is owed is a sequence of answers.                                   *)
LEMMA OwedType ==
  ASSUME NEW log \in Seq(Event), NEW s \in Seq(ListedCmd)
  PROVE  AllOwed(log, s) \in Seq(Seq(Int))
  <1>1. PICK E : E = OwesMap(log)
    OBVIOUS
  <1>2. E \in [ListedCmd -> Seq(Seq(Int))]
    BY <1>1, MapTypes
  <1>3. FlatMap(E, s) \in Seq(Seq(Int))
    BY <1>2, FlatMapType
  <1> QED BY <1>1, <1>3, AllOwedMap

(* What is brought is a sequence of answers.                                *)
LEMMA BroughtType ==
  ASSUME NEW s \in Seq(OnLine)
  PROVE  AllBrought(s) \in Seq(Seq(Int))
  <1>1. BringsMap \in [OnLine -> Seq(Seq(Int))]
    <2>1. << >> \in Seq(Event)
      OBVIOUS
    <2> QED BY <2>1, MapTypes
  <1>2. FlatMap(BringsMap, s) \in Seq(Seq(Int))
    BY <1>1, FlatMapType
  <1> QED BY <1>2, AllBroughtMap

(* The answer of the device is what the command owed, unless it refuses.    *)
LEMMA DeviceAccounted ==
  ASSUME SerprogType, DeviceOnly, NEW kind \in {"ack", "nak"}, NEW d \in Seq(Int),
         DeviceTakes(kind, d), Accounted, Working
  PROVE  Accounted'
  <1> SUFFICES ASSUME ~Naked'
               PROVE  /\ Len(Owed') = Len(AllWanted(todo'))
                      /\ outcome' # "error" => got' \o FlattenSeq(Owed') = Promise(issued', asked')
    BY DEF Accounted
  <1>1. kind = "ack" /\ ~Naked
    BY DEF DeviceTakes, Answered, Naked, NakedIn
  <1>2. UNCHANGED <<todo, got, outcome, issued, asked>>
    BY DEF DeviceOnly
  <1>3. SerprogType'
    BY DeviceType
  <1>4. OnTheWay' \in Seq(ListedCmd)
    BY <1>3, WayTypeAt DEF SerprogType, OnTheWay, Line, Sent, Cmds
  <1>5. issued \in Seq(Event)
    BY DEF SerprogType
  <1>6. PICK b \in Seq(Seq(Int)) : b = AllBrought(answers)
    BY BroughtType DEF SerprogType
  <1>7. PICK e \in Seq(Seq(Int)) : e = Bringing(d)
    <2>1. <<d>> \in Seq(Seq(Int))
      BY Single
    <2>2. << >> \in Seq(Seq(Int))
      OBVIOUS
    <2>3. Bringing(d) \in Seq(Seq(Int))
      BY <2>1, <2>2 DEF Bringing
    <2> QED BY <2>3
  <1>8. PICK w \in Seq(Seq(Int)) : w = AllOwed(issued, OnTheWay')
    BY <1>4, <1>5, OwedType
  <1>9. AssocAt(b, e, w)
    BY Assoc
  <1>10. AllBrought(answers') = b \o e
    BY <1>6, <1>7 DEF DeviceTakes, Answered
  <1>11. e \o w = AllOwed(issued, OnTheWay)
    BY <1>1, <1>7, <1>8 DEF DeviceTakes
  <1>12. Owed' = AllBrought(answers') \o AllOwed(issued, OnTheWay')
    BY <1>2 DEF Owed
  <1>13. Owed' = Owed
    BY <1>6, <1>8, <1>9, <1>10, <1>11, <1>12 DEF Owed, AssocAt
  <1> QED BY <1>1, <1>2, <1>13 DEF Accounted

(* A command that is waited for stays alone on the line.                    *)
LEMMA DeviceAckAlone ==
  ASSUME SerprogType, DeviceOnly, NEW kind \in {"ack", "nak"}, NEW d \in Seq(Int),
         DeviceTakes(kind, d), AckAlone, Working
  PROVE  AckAlone'
  <1> SUFFICES ASSUME Running, todo[1].do = "ack"
               PROVE /\ naks' = {}
                     /\ input' = << >> /\ Len(answers') \in {1, 2}
                     /\ answers'[1].kind = "nak" => Len(answers') = 1
                     /\ answers'[1].kind # "data"
                     /\ (Len(answers') = 2 => answers'[2].kind = "data")
                     /\ answers'[1].kind = "ack" /\ spc = "stopping" => ~drivers'
    BY DEF AckAlone, Running, DeviceOnly
  <1>1. Len(input) = 1 /\ answers = << >>
    BY DEF AckAlone, DeviceOnly
  <1>2. input' = << >>
    <2>1. Len(input') = 0 /\ input' \in Seq(AnyCmd)
      BY <1>1, InputTail
    <2> QED BY <2>1
  <1>3. /\ Len(answers') = (IF d = << >> THEN 1 ELSE 2)
        /\ answers'[1].kind = kind
        /\ d # << >> => answers'[2].kind = "data"
    BY <1>1 DEF DeviceTakes, Answered
  <1>4. /\ naks' = {}
        /\ kind = "nak" => d = << >>
        /\ kind = "ack" /\ spc = "stopping" => ~drivers'
    BY DEF DeviceTakes
  <1>5. CASE d = << >>
    BY <1>2, <1>3, <1>4, <1>5
  <1>6. CASE d # << >>
    BY <1>2, <1>3, <1>4, <1>6
  <1> QED BY <1>5, <1>6

(* The device has something to do only before the shutdown is over.         *)
LEMMA DeviceNotStopped ==
  ASSUME SerprogType, TodoEnds, DeviceOnly, Flow, Working
  PROVE  spc # "stopped"
  <1> SUFFICES ASSUME spc = "stopped" PROVE FALSE
    OBVIOUS
  <1>1. todo = << >> /\ Len(todo) = 0
    BY DEF TodoEnds
  <1>2. host.usage = 0
    BY DEF Flow
  <1>3. ~(ops > 0)
    BY <1>1, <1>2 DEF Flow
  <1>4. ops = 0
    BY <1>3 DEF SerprogType
  <1>5. Len(input) + NReplies(answers) = 0
    BY <1>4 DEF Flow, CountsMatch, Working, Running, Replies, NReplies, RepliesIn
  <1>6. NReplies(answers) \in Nat
    BY RepliesNone DEF SerprogType
  <1> QED BY <1>5, <1>6, InputTail

(* The step keeps the invariant.                                            *)
LEMMA DeviceKeeps ==
  ASSUME SerprogInv, DeviceOnly, NEW kind \in {"ack", "nak"}, NEW d \in Seq(Int),
         DeviceTakes(kind, d)
  PROVE  SerprogInv'
  <1>1. SerprogType /\ HostFits /\ TodoEnds /\ ReadResult
    BY DEF SerprogInv
  <1>2. SerprogType'
    BY <1>1, DeviceType
  <1>3. HostFits'
    BY <1>1 DEF HostFits, BufferFits, DeviceOnly
  <1>4. TodoEnds'
    BY <1>1 DEF TodoEnds, Running, DeviceOnly
  <1>5. Conserved'
    BY DEF DeviceTakes
  <1>6. ReadResult'
    BY <1>1 DEF ReadResult, DeviceOnly
  <1>7. Naked' => refusals' > 0 \/ naks' # {}
    <2>1. Naked => refusals > 0 \/ naks # {}
      BY DEF SerprogInv
    <2>2. Naked' => Naked \/ kind = "nak"
      BY DEF DeviceTakes, Answered, Naked, NakedIn
    <2> QED BY <2>1, <2>2 DEF DeviceTakes
  <1>8. ASSUME Working PROVE Flow' /\ Pipeline' /\ Accounted' /\ AckAlone' /\ ShutdownFlushes'
    <2>1. Flow /\ Pipeline /\ Accounted /\ AckAlone
      BY <1>8 DEF SerprogInv
    <2>2. Flow'
      BY <1>1, <1>8, <2>1, DeviceFlow
    <2>3. Pipeline'
      BY <1>1, <1>8, <2>1, DevicePipeline
    <2>4. Accounted'
      BY <1>1, <1>8, <2>1, DeviceAccounted
    <2>5. AckAlone'
      BY <1>1, <1>8, <2>1, DeviceAckAlone
    <2>6. spc # "stopped"
      BY <1>1, <1>8, <2>1, DeviceNotStopped
    <2>7. ShutdownFlushes'
      BY <2>6 DEF ShutdownFlushes, DeviceOnly
    <2> QED BY <2>2, <2>3, <2>4, <2>5, <2>7
  <1>9. Working' => Working
    BY DEF Working, DeviceOnly
  <1> QED BY <1>2, <1>3, <1>4, <1>5, <1>6, <1>7, <1>8, <1>9 DEF SerprogInv

-----------------------------------------------------------------------------
(* What the host holds.                                                     *)
HeldBy(h) == AllEffects(<<Cmd("writen", h.addr, h.data, 0)>>)

(* The bytes that the host holds, as what a combined write of them does.    *)
LEMMA HeldType ==
  ASSUME NEW h, h.addr \in Int, h.data \in Seq(Nat)
  PROVE  /\ HeldBy(h) \in Seq(Event)
         /\ HeldBy(h) = Effects(Cmd("writen", h.addr, h.data, 0))
         /\ h.data = << >> => HeldBy(h) = << >>
  <1>1. PICK c \in ListedCmd : c = Cmd("writen", h.addr, h.data, 0)
    BY DEF Cmd, ListedCmd, SerCmd, ReadKinds, Streamed, StoredKinds
  <1>2. PICK s \in Seq(ListedCmd) : s = <<c>>
    BY Single
  <1>3. EffectsMap \in [ListedCmd -> Seq(Event)]
    <2>1. << >> \in Seq(Event)
      OBVIOUS
    <2> QED BY <2>1, MapTypes
  <1>4. FlatMap(EffectsMap, <<c>>) = EffectsMap[c]
    BY ONLY <1>3, c \in ListedCmd, FlatMapOne
  <1>5. AllEffects(s) = FlatMap(EffectsMap, s)
    BY AllEffectsMap
  <1>6. AllEffects(s) = Effects(c)
    BY <1>2, <1>4, <1>5 DEF EffectsMap
  <1>7. Effects(c) \in Seq(Event)
    BY EffectsType
  <1>8. ASSUME h.data = << >> PROVE Effects(c) = << >>
    <2>1. c.cmd = "writen" /\ c.data = << >>
      BY <1>1, <1>8 DEF Cmd
    <2>2. Effects(c) = [k \in DOMAIN c.data |-> [addr |-> c.addr + k - 1, val |-> c.data[k]]]
      BY <2>1 DEF Effects
    <2> QED BY <2>1, <2>2
  <1> QED BY <1>1, <1>2, <1>6, <1>7, <1>8 DEF HeldBy

(* Conserved, with everything that is on the way as one sequence.           *)
LEMMA ConservedWay ==
  ASSUME SerprogType
  PROVE  /\ Conserved <=> (naks = {} => issued = (performed \o AllEffects(OnTheWay)) \o Held)
         /\ Held \in Seq(Event) /\ Held = HeldBy(host)
         /\ host.data = << >> => Held = << >>
  <1>1. opbuf \in Seq(ListedCmd) /\ input \in Seq(ListedCmd) /\ todo \in Seq(Item)
        /\ OnTheWay = Line(opbuf, input, todo) /\ performed \in Seq(Event)
    BY WayType DEF SerprogType
  <1>2. host.addr \in Int /\ host.data \in Seq(Nat) /\ Held = HeldBy(host)
    BY DEF SerprogType, HostState, Held, HeldBy
  <1>3. HeldBy(host) \in Seq(Event) /\ (host.data = << >> => HeldBy(host) = << >>)
    BY <1>2, HeldType
  <1>4. SumsUp(performed, opbuf, input, todo, Held)
    BY <1>1, <1>2, <1>3, LineEffects
  <1>5. Conserved <=> (naks = {} => issued = WayEffects(performed, opbuf, input, todo, Held))
    BY DEF Conserved, WayEffects, Sent, Cmds
  <1> QED BY <1>1, <1>2, <1>3, <1>4, <1>5 DEF SumsUp

(* The same after a step.                                                   *)
LEMMA ConservedNext ==
  ASSUME SerprogType'
  PROVE  /\ Conserved' <=> (naks' = {} => issued' = (performed' \o AllEffects(OnTheWay')) \o Held')
         /\ Held' \in Seq(Event) /\ Held' = HeldBy(host')
         /\ host'.data = << >> => Held' = << >>
  <1>1. opbuf' \in Seq(ListedCmd) /\ input' \in Seq(ListedCmd) /\ todo' \in Seq(Item)
        /\ OnTheWay' = Line(opbuf', input', todo') /\ performed' \in Seq(Event)
    BY WayTypeAt DEF SerprogType, OnTheWay, Line, Sent, Cmds
  <1>2. host'.addr \in Int /\ host'.data \in Seq(Nat) /\ Held' = HeldBy(host')
    BY DEF SerprogType, HostState, Held, HeldBy
  <1>3. HeldBy(host') \in Seq(Event) /\ (host'.data = << >> => HeldBy(host') = << >>)
    BY <1>2, HeldType
  <1>4. SumsUp(performed', opbuf', input', todo', Held')
    BY <1>1, <1>2, <1>3, LineEffects
  <1>5. Conserved' <=>
          (naks' = {} => issued' = WayEffects(performed', opbuf', input', todo', Held'))
    BY DEF Conserved, WayEffects, Sent, Cmds
  <1> QED BY <1>1, <1>2, <1>3, <1>4, <1>5 DEF SumsUp

-----------------------------------------------------------------------------
(* The steps of the device.                                                 *)
LEMMA ReceivedIs ==
  ASSUME SerprogType, NEW c, Received(c),
         UNCHANGED <<serprog, host, todo, ops, streamed, asked, got, outcome, spc, link, issued,
                     calls>>
  PROVE  /\ DeviceOnly /\ c = input[1] /\ c \in AnyCmd /\ c \in ListedCmd
         /\ \E b \in Seq(ListedCmd) :
              /\ Without(OnTheWay, opbuf, c, b, Line(opbuf, Tail(input), todo))
              /\ b = Line(<< >>, Tail(input), todo)
  <1>1. DeviceOnly /\ c = input[1] /\ input # << >>
    BY DEF DeviceOnly, Received
  <1>2. c \in AnyCmd /\ c \in ListedCmd
    BY <1>1, InputTail, WayKinds
  <1>3. opbuf \in Seq(ListedCmd) /\ input \in Seq(ListedCmd) /\ todo \in Seq(Item)
        /\ OnTheWay = Line(opbuf, input, todo)
    BY WayType DEF SerprogType
  <1>4. \E b \in Seq(ListedCmd) :
          Without(Line(opbuf, input, todo), opbuf, input[1], b, Line(opbuf, Tail(input), todo))
                                  /\ b = Line(<< >>, Tail(input), todo)
    BY <1>1, <1>3, LineReceived
  <1> QED BY <1>1, <1>2, <1>3, <1>4

(* The device puts a command in its buffer.                                 *)
LEMMA StoreKeeps ==
  ASSUME SerprogInv, NEW c, Store(c)
  PROVE  SerprogInv'
  <1>1. SerprogType
    BY DEF SerprogInv
  <1>2. /\ Received(c) /\ BufferOp(c) /\ opbuf' = Append(opbuf, c)
        /\ answers' = Replied(answers, "ack", << >>)
        /\ UNCHANGED <<serprog, host, todo, ops, streamed, asked, got, outcome, spc, link, issued,
                       calls>>
        /\ UNCHANGED <<performed, drivers, naks, refusals>>
    BY DEF Store, Reply, Replied, driver
  <1>3. DeviceOnly /\ c = input[1] /\ c \in AnyCmd
    BY <1>1, <1>2, ReceivedIs
  <1>4. << >> \in Seq(Int) /\ Bringing(<< >>) = << >>
    BY DEF Bringing
  <1>5. Answered(answers, answers', "ack", << >>)
    BY <1>1, <1>2, <1>4, ReplyAnswers DEF SerprogType
  <1>6. opbuf' \in Seq(SerCmd(StoredKinds))
    <2>1. c \in SerCmd(StoredKinds)
      BY <1>2, <1>3 DEF AnyCmd, SerCmd, BufferOp, StoredKinds
    <2>2. opbuf \in Seq(SerCmd(StoredKinds))
      BY <1>1 DEF SerprogType
    <2> QED BY <1>2, <2>1, <2>2, AppendProperties
  <1>7. OnTheWay' = OnTheWay
    <2>1. opbuf \in Seq(ListedCmd) /\ input \in Seq(ListedCmd) /\ todo \in Seq(Item)
          /\ OnTheWay = Line(opbuf, input, todo)
      BY <1>1, WayType DEF SerprogType
    <2>2. Line(Append(opbuf, input[1]), Tail(input), todo) = Line(opbuf, input, todo)
      BY <1>3, <2>1, LineStores DEF DeviceOnly
    <2>3. OnTheWay' = Line(opbuf', input', todo')
      BY DEF OnTheWay, Line, Sent, Cmds
    <2> QED BY <1>2, <1>3, <2>1, <2>2, <2>3 DEF DeviceOnly
  <1>8. performed' = performed /\ naks' = naks /\ refusals' = refusals /\ issued' = issued
        /\ host' = host
    BY <1>2
  <1>9. SerprogType'
    <2>1. input' \in Seq(AnyCmd)
      BY <1>1, <1>3, InputTail
    <2>2. answers' \in Seq(OnLine)
      BY <1>5 DEF Answered
    <2> QED BY <1>1, <1>2, <1>6, <2>1, <2>2 DEF SerprogType
  <1>10. Conserved'
    <2>1. Held' = Held
      BY <1>8 DEF Held
    <2> QED BY <1>1, <1>7, <1>8, <1>9, <2>1, ConservedWay, ConservedNext DEF SerprogInv
  <1>11. Working => /\ WayKept(OnTheWay')
                    /\ host.usage = 0 => Drained(OnTheWay')
    BY <1>7 DEF SerprogInv, Pipeline, WayKept
  <1>12. Bringing(<< >>) \o AllOwed(issued, OnTheWay') = AllOwed(issued, OnTheWay)
    <2>1. AllOwed(issued, OnTheWay) \in Seq(Seq(Int))
      BY <1>1, WayType, OwedType DEF SerprogType
    <2> QED BY <1>4, <1>7, <2>1, ConcatEmptySeq
  <1>13. ASSUME Working, Running, todo[1].do = "ack" PROVE FALSE
    <2>1. input[1].cmd \in {"pin", "spi"}
      BY <1>3, <1>13 DEF SerprogInv, AckAlone, DeviceOnly
    <2> QED BY <1>2, <1>3, <2>1 DEF BufferOp
  <1>14. DeviceTakes("ack", << >>)
    BY <1>1, <1>5, <1>6, <1>8, <1>10, <1>11, <1>12, <1>13 DEF DeviceTakes, SerprogType
  <1> QED BY <1>3, <1>4, <1>14, DeviceKeeps

(* A command is taken off the line; unless it executes the buffer, the rest *)
(* of the way stays in order.                                               *)
LEMMA TakenOff ==
  ASSUME SerprogType, NEW c, Received(c), opbuf' = opbuf,
         UNCHANGED <<serprog, host, todo, ops, streamed, asked, got, outcome, spc, link, issued,
                     calls>>
  PROVE  /\ c.cmd # "exec" =>
              /\ WayKept(OnTheWay) => WayKept(OnTheWay')
              /\ Drained(OnTheWay) => Drained(OnTheWay')
         /\ ~BufferOp(c) => AllEffects(OnTheWay') = AllEffects(OnTheWay)
         /\ \A log \in Seq(Event) : c.cmd \notin ReadKinds \cup {"spi"} =>
              AllOwed(log, OnTheWay) = AllOwed(log, OnTheWay')
  <1>1. PICK b \in Seq(ListedCmd) : Without(OnTheWay, opbuf, c, b, Line(opbuf, Tail(input), todo))
    BY ReceivedIs
  <1>2. OnTheWay' = Line(opbuf, Tail(input), todo)
    BY DEF OnTheWay, Line, Sent, Cmds, Received
  <1>3. PICK r, q : r = OnTheWay /\ q = OnTheWay'
    OBVIOUS
  <1>4. Without(r, opbuf, c, b, q)
    BY <1>1, <1>2, <1>3
  <1>5. opbuf \in Seq(ListedCmd) /\ c \in ListedCmd
    BY WayType, ReceivedIs
  <1>6. /\ ~BufferOp(c) => AllEffects(r) = AllEffects(q)
        /\ \A log \in Seq(Event) :
             c.cmd \notin ReadKinds \cup {"spi"} => AllOwed(log, r) = AllOwed(log, q)
    BY <1>4, <1>5, UnheldOff
  <1>7. Removed(r, Len(opbuf) + 1, q) /\ r[Len(opbuf) + 1] = c
    BY <1>4, <1>5, WithoutIndex
  <1>8. PICK p : p = Len(opbuf) + 1
    OBVIOUS
  <1>9. Removed(r, p, q) /\ r[p] = c
    BY <1>7, <1>8
  <1>10. c.cmd # "exec" => /\ Settled(r) => Settled(q)
                           /\ NoneBehind(r) => NoneBehind(q)
                           /\ Drained(r) => Drained(q)
    BY <1>9, RemoveKeeps
  <1> QED BY <1>3, <1>6, <1>10 DEF WayKept

(* The operation buffer is cleared, and the command after it.               *)
LEMMA Cleared ==
  ASSUME SerprogType, NEW c, Received(c), c.cmd = "exec", opbuf' = << >>,
         UNCHANGED <<serprog, host, todo, ops, streamed, asked, got, outcome, spc, link, issued,
                     calls>>
  PROVE  /\ WayKept(OnTheWay) => WayKept(OnTheWay')
         /\ Drained(OnTheWay) => Drained(OnTheWay')
         /\ AllEffects(OnTheWay) = AllEffects(opbuf) \o AllEffects(OnTheWay')
         /\ \A log \in Seq(Event) : AllOwed(log, OnTheWay) = AllOwed(log, OnTheWay')
  <1>1. PICK b \in Seq(ListedCmd) :
          /\ Without(OnTheWay, opbuf, c, b, Line(opbuf, Tail(input), todo))
          /\ b = Line(<< >>, Tail(input), todo)
    BY ReceivedIs
  <1>2. OnTheWay' = b
    BY <1>1 DEF OnTheWay, Line, Sent, Cmds, Received
  <1>3. PICK r, q : r = OnTheWay /\ q = Line(opbuf, Tail(input), todo)
    OBVIOUS
  <1>4. Without(r, opbuf, c, b, q)
    BY <1>1, <1>3
  <1>5. opbuf \in Seq(ListedCmd) /\ c \in ListedCmd /\ opbuf \in Seq(SerCmd(StoredKinds))
    BY WayType, ReceivedIs DEF SerprogType
  <1>6. Dropped(r, Len(opbuf) + 1, b)
    BY <1>4, <1>5, WithoutIndex
  <1>7. PICK n : n = Len(opbuf) + 1
    OBVIOUS
  <1>8. Dropped(r, n, b)
    BY <1>6, <1>7
  <1>9. /\ Settled(r) => Settled(b)
        /\ NoneBehind(r) => NoneBehind(b)
        /\ Drained(r) => Drained(b)
    BY <1>8, DropKeeps
  <1>10. q = opbuf \o b
    BY <1>4 DEF Without
  <1>11. AllEffects(r) = AllEffects(opbuf) \o AllEffects(b)
    <2>1. ~BufferOp(c)
      BY DEF BufferOp
    <2>2. AllEffects(r) = AllEffects(q)
      BY <1>4, <1>5, <2>1, UnheldOff
    <2> QED BY <1>5, <1>10, <2>2, EffectsJoin
  <1>12. ASSUME NEW log \in Seq(Event) PROVE AllOwed(log, r) = AllOwed(log, b)
    <2>1. c.cmd \notin ReadKinds \cup {"spi"}
      BY DEF ReadKinds
    <2>2. AllOwed(log, r) = AllOwed(log, q) /\ q \in Seq(ListedCmd)
      BY <1>4, <1>5, <2>1, UnheldOff
    <2>3. PICK E : E = OwesMap(log)
      OBVIOUS
    <2>4. E \in [ListedCmd -> Seq(Seq(Int))]
      BY <2>3, MapTypes
    <2>5. FlatMapJoins(E, opbuf, b)
      BY ONLY <2>4, <1>5, b \in Seq(ListedCmd), FlatMapConcat
    <2>6. Barren(E, opbuf)
      <3>1. \A k \in 1 .. Len(opbuf) : opbuf[k] \in SerCmd(StoredKinds) /\ opbuf[k] \in ListedCmd
        BY <1>5
      <3>2. \A k \in 1 .. Len(opbuf) : opbuf[k].cmd \notin ReadKinds \cup {"spi"}
        BY <3>1 DEF SerCmd, StoredKinds, ReadKinds
      <3> QED BY <2>3, <3>1, <3>2 DEF Barren, OwesMap, Owes
    <2>7. FlatMap(E, opbuf) = << >>
      BY <1>5, <2>4, <2>6, FlatMapNone
    <2>8. FlatMap(E, b) \in Seq(Seq(Int))
      BY <2>4, FlatMapType
    <2>9. FlatMap(E, q) = FlatMap(E, b)
      BY <1>10, <2>5, <2>7, <2>8, ConcatEmptySeq DEF FlatMapJoins
    <2> QED BY <2>2, <2>3, <2>9, AllOwedMap
  <1> QED BY <1>2, <1>3, <1>9, <1>11, <1>12 DEF WayKept

(* The device has no room for a command.                                    *)
LEMMA OverflowKeeps ==
  ASSUME SerprogInv, NEW c, Overflow(c)
  PROVE  SerprogInv'
  <1>1. SerprogType
    BY DEF SerprogInv
  <1>2. /\ Received(c) /\ BufferOp(c) /\ naks' = naks \cup {"overflow"}
        /\ answers' = Replied(answers, "nak", << >>)
        /\ UNCHANGED <<serprog, host, todo, ops, streamed, asked, got, outcome, spc, link, issued,
                       calls>>
        /\ UNCHANGED <<opbuf, performed, drivers, refusals>>
    BY DEF Overflow, Reply, Replied, driver, device
  <1>3. DeviceOnly /\ c = input[1] /\ c \in AnyCmd
    BY <1>1, <1>2, ReceivedIs
  <1>4. << >> \in Seq(Int)
    OBVIOUS
  <1>5. Answered(answers, answers', "nak", << >>)
    BY <1>1, <1>2, <1>4, ReplyAnswers DEF SerprogType
  <1>6. naks' # {}
    BY <1>2
  <1>7. Conserved'
    BY <1>6 DEF Conserved
  <1>8. Working => /\ WayKept(OnTheWay')
                   /\ host.usage = 0 => Drained(OnTheWay')
    <2>1. c.cmd # "exec"
      BY <1>2 DEF BufferOp
    <2>2. WayKept(OnTheWay) => WayKept(OnTheWay')
      BY <1>1, <1>2, <2>1, TakenOff
    <2>3. Drained(OnTheWay) => Drained(OnTheWay')
      BY <1>1, <1>2, <2>1, TakenOff
    <2> QED BY <2>2, <2>3 DEF SerprogInv, Pipeline, WayKept
  <1>9. ASSUME Working, Running, todo[1].do = "ack" PROVE FALSE
    <2>1. input[1].cmd \in {"pin", "spi"}
      BY <1>3, <1>9 DEF SerprogInv, AckAlone, DeviceOnly
    <2> QED BY <1>2, <1>3, <2>1 DEF BufferOp
  <1>10. DeviceTakes("nak", << >>)
    BY <1>1, <1>2, <1>5, <1>6, <1>7, <1>8, <1>9 DEF DeviceTakes, SerprogType
  <1> QED BY <1>3, <1>4, <1>10, DeviceKeeps

(* The device executes its buffer: all of it goes from the way to the       *)
(* chip.                                                                    *)
LEMMA ExecKeeps ==
  ASSUME SerprogInv, NEW c, Exec(c)
  PROVE  SerprogInv'
  <1>1. SerprogType
    BY DEF SerprogInv
  <1>2. /\ Received(c) /\ c.cmd = "exec" /\ opbuf' = << >>
        /\ performed' = performed \o AllEffects(opbuf)
        /\ answers' = Replied(answers, "ack", << >>)
        /\ UNCHANGED <<serprog, host, todo, ops, streamed, asked, got, outcome, spc, link, issued,
                       calls>>
        /\ UNCHANGED <<drivers, naks, refusals>>
    BY DEF Exec, Reply, Replied, driver
  <1>3. DeviceOnly /\ c = input[1] /\ c \in AnyCmd
    BY <1>1, <1>2, ReceivedIs
  <1>4. << >> \in Seq(Int) /\ Bringing(<< >>) = << >>
    BY DEF Bringing
  <1>5. Answered(answers, answers', "ack", << >>)
    BY <1>1, <1>2, <1>4, ReplyAnswers DEF SerprogType
  <1>6. opbuf' \in Seq(SerCmd(StoredKinds))
    BY <1>2
  <1>7. /\ WayKept(OnTheWay) => WayKept(OnTheWay')
        /\ Drained(OnTheWay) => Drained(OnTheWay')
        /\ AllEffects(OnTheWay) = AllEffects(opbuf) \o AllEffects(OnTheWay')
        /\ \A log \in Seq(Event) : AllOwed(log, OnTheWay) = AllOwed(log, OnTheWay')
    BY <1>1, <1>2, Cleared
  <1>8. naks' = naks /\ refusals' = refusals /\ issued' = issued /\ host' = host
    BY <1>2
  <1>9. performed \in Seq(Event) /\ AllEffects(opbuf) \in Seq(Event) /\ performed' \in Seq(Event)
    <2>1. AllEffects(opbuf) \in Seq(Event)
      BY <1>1, WayType, EffectsJoin
    <2> QED BY <1>1, <1>2, <2>1, ConcatProperties DEF SerprogType
  <1>10. SerprogType'
    <2>1. input' \in Seq(AnyCmd)
      BY <1>1, <1>3, InputTail
    <2>2. answers' \in Seq(OnLine)
      BY <1>5 DEF Answered
    <2> QED BY <1>1, <1>2, <1>6, <1>9, <2>1, <2>2 DEF SerprogType
  <1>11. Conserved'
    <2>1. Held' = Held
      BY <1>8 DEF Held
    <2>2. OnTheWay' \in Seq(ListedCmd)
      BY <1>10, WayTypeAt DEF SerprogType, OnTheWay, Line, Sent, Cmds
    <2>3. PICK p \in Seq(Event), e \in Seq(Event) : p = performed /\ e = AllEffects(opbuf)
      BY <1>9
    <2>4. PICK f \in Seq(Event) : f = AllEffects(OnTheWay')
      BY <2>2, EffectsJoin
    <2>5. AssocAt(p, e, f)
      BY Assoc
    <2>6. performed' \o AllEffects(OnTheWay') = performed \o AllEffects(OnTheWay)
      BY <1>2, <1>7, <2>3, <2>4, <2>5 DEF AssocAt
    <2> QED BY <1>1, <1>8, <1>10, <2>1, <2>6, ConservedWay, ConservedNext DEF SerprogInv
  <1>12. Working => /\ WayKept(OnTheWay')
                    /\ host.usage = 0 => Drained(OnTheWay')
    BY <1>7 DEF SerprogInv, Pipeline, WayKept
  <1>13. Bringing(<< >>) \o AllOwed(issued, OnTheWay') = AllOwed(issued, OnTheWay)
    <2>1. issued \in Seq(Event)
      BY <1>1 DEF SerprogType
    <2>2. AllOwed(issued, OnTheWay) \in Seq(Seq(Int))
      BY <1>1, <2>1, WayType, OwedType
    <2> QED BY <1>4, <1>7, <2>1, <2>2, ConcatEmptySeq
  <1>14. ASSUME Working, Running, todo[1].do = "ack" PROVE FALSE
    <2>1. input[1].cmd \in {"pin", "spi"}
      BY <1>3, <1>14 DEF SerprogInv, AckAlone, DeviceOnly
    <2> QED BY <1>2, <1>3, <2>1
  <1>15. DeviceTakes("ack", << >>)
    BY <1>1, <1>5, <1>6, <1>8, <1>9, <1>11, <1>12, <1>13, <1>14 DEF DeviceTakes, SerprogType
  <1> QED BY <1>3, <1>4, <1>15, DeviceKeeps

(* The device refuses a command.                                            *)
LEMMA RefusalKeeps ==
  ASSUME SerprogInv, NEW c, DeviceRefuses(c)
  PROVE  SerprogInv'
  <1>1. SerprogType
    BY DEF SerprogInv
  <1>2. /\ Received(c)
        /\ refusals' = refusals + 1
        /\ naks' = IF BufferOp(c) \/ c.cmd = "exec" THEN naks \cup {"refused"} ELSE naks
        /\ opbuf' = IF c.cmd = "exec" THEN << >> ELSE opbuf
        /\ answers' = Replied(answers, "nak", << >>)
        /\ UNCHANGED <<serprog, host, todo, ops, streamed, asked, got, outcome, spc, link, issued,
                       calls>>
        /\ UNCHANGED <<performed, drivers>>
    BY DEF DeviceRefuses, Reply, Replied, driver
  <1>3. DeviceOnly /\ c = input[1] /\ c \in AnyCmd
    BY <1>1, <1>2, ReceivedIs
  <1>4. << >> \in Seq(Int)
    OBVIOUS
  <1>5. Answered(answers, answers', "nak", << >>)
    BY <1>1, <1>2, <1>4, ReplyAnswers DEF SerprogType
  <1>6. opbuf' \in Seq(SerCmd(StoredKinds)) /\ refusals' \in Nat /\ refusals' > 0
    BY <1>1, <1>2 DEF SerprogType
  <1>7. SerprogType'
    <2>1. input' \in Seq(AnyCmd)
      BY <1>1, <1>3, InputTail
    <2>2. answers' \in Seq(OnLine)
      BY <1>5 DEF Answered
    <2> QED BY <1>1, <1>2, <1>6, <2>1, <2>2 DEF SerprogType
  <1>8. CASE BufferOp(c) \/ c.cmd = "exec"
    <2>1. naks' # {} /\ Conserved'
      BY <1>2, <1>8 DEF Conserved
    <2>2. /\ WayKept(OnTheWay) => WayKept(OnTheWay')
          /\ Drained(OnTheWay) => Drained(OnTheWay')
      <3>1. CASE c.cmd = "exec"
        <4>1. opbuf' = << >>
          BY <1>2, <3>1
        <4> QED BY <1>1, <1>2, <3>1, <4>1, Cleared
      <3>2. CASE c.cmd # "exec"
        <4>1. opbuf' = opbuf
          BY <1>2, <3>2
        <4> QED BY <1>1, <1>2, <3>2, <4>1, TakenOff
      <3> QED BY <3>1, <3>2
    <2>3. Working => /\ WayKept(OnTheWay')
                     /\ host.usage = 0 => Drained(OnTheWay')
      BY <2>2 DEF SerprogInv, Pipeline, WayKept
    <2>4. ASSUME Working, Running, todo[1].do = "ack" PROVE FALSE
      <3>1. input[1].cmd \in {"pin", "spi"}
        BY <1>3, <2>4 DEF SerprogInv, AckAlone, DeviceOnly
      <3> QED BY <1>3, <1>8, <3>1 DEF BufferOp
    <2>5. performed' \in Seq(Event)
      BY <1>1, <1>2 DEF SerprogType
    <2>6. DeviceTakes("nak", << >>)
      BY <1>5, <1>6, <2>1, <2>3, <2>4, <2>5 DEF DeviceTakes
    <2> QED BY <1>3, <1>4, <2>6, DeviceKeeps
  <1>9. CASE ~(BufferOp(c) \/ c.cmd = "exec")
    <2>1. naks' = naks /\ opbuf' = opbuf /\ c.cmd # "exec" /\ ~BufferOp(c)
      BY <1>2, <1>9
    <2>2. /\ WayKept(OnTheWay) => WayKept(OnTheWay')
          /\ Drained(OnTheWay) => Drained(OnTheWay')
          /\ AllEffects(OnTheWay') = AllEffects(OnTheWay)
      BY <1>1, <1>2, <2>1, TakenOff
    <2>3. Conserved'
      <3>1. Held' = Held
        BY <1>2 DEF Held
      <3> QED BY <1>1, <1>2, <1>7, <2>1, <2>2, <3>1, ConservedWay, ConservedNext DEF SerprogInv
    <2>4. Working => /\ WayKept(OnTheWay')
                     /\ host.usage = 0 => Drained(OnTheWay')
      BY <2>2 DEF SerprogInv, Pipeline, WayKept
    <2>5. Working /\ Running /\ todo[1].do = "ack" => naks' = {}
      BY <2>1 DEF SerprogInv, AckAlone
    <2>6. performed' \in Seq(Event)
      BY <1>1, <1>2 DEF SerprogType
    <2>7. DeviceTakes("nak", << >>)
      BY <1>5, <1>6, <2>1, <2>3, <2>4, <2>5, <2>6 DEF DeviceTakes
    <2> QED BY <1>3, <1>4, <2>7, DeviceKeeps
  <1> QED BY <1>8, <1>9

(* When a command that is answered with data, or waited for, is received,   *)
(* all that was asked for before has been done to the chip.                 *)
LEMMA AllPerformed ==
  ASSUME SerprogInv, Working, ~Naked, NEW c, Received(c), IsImmediate(c),
         UNCHANGED <<serprog, host, todo, ops, streamed, asked, got, outcome, spc, link, issued,
                     calls>>
  PROVE  performed = issued /\ opbuf = << >>
  <1>1. SerprogType /\ Flow /\ Pipeline /\ Conserved
    BY DEF SerprogInv
  <1>2. input # << >> /\ c = input[1] /\ c \in ListedCmd /\ Len(input) \in Nat \ {0}
    BY <1>1, ReceivedIs, InputTail DEF Received
  <1>3. naks = {}
    BY <1>1 DEF Flow
  <1>4. host.data = << >>
    <2>1. 1 \in 1 .. Len(input) /\ IsImmediate(input[1])
      BY <1>2
    <2>2. \E m \in 1 .. Len(todo) : IsAnswer(todo[m])
      BY <1>1, <2>1 DEF Pipeline
    <2>3. Waits(todo)
      BY <2>2 DEF Waits, IsAnswer, Awaits
    <2> QED BY <1>1, <2>3 DEF Flow
  <1>5. PICK b \in Seq(ListedCmd) : Without(OnTheWay, opbuf, c, b, Line(opbuf, Tail(input), todo))
    BY <1>1, ReceivedIs
  <1>6. PICK r : r = OnTheWay
    OBVIOUS
  <1>7. opbuf \in Seq(ListedCmd) /\ opbuf \in Seq(SerCmd(StoredKinds)) /\ r \in Seq(ListedCmd)
    BY <1>1, <1>6, WayType DEF SerprogType
  <1>8. PICK n \in Nat : n = Len(opbuf)
    BY <1>7
  <1>9. PICK q : q = Line(opbuf, Tail(input), todo)
    OBVIOUS
  <1>10. Without(r, opbuf, c, b, q)
    BY <1>5, <1>6, <1>9
  <1>11. /\ Removed(r, Len(opbuf) + 1, q) /\ r[Len(opbuf) + 1] = c
         /\ \A k \in 1 .. Len(opbuf) : r[k] = opbuf[k]
    BY <1>2, <1>7, <1>10, WithoutIndex
  <1>12. r[n + 1] = c /\ n + 1 \in 1 .. Len(r) /\ (\A k \in 1 .. n :
                                                     r[k] = opbuf[k]) /\ Len(r) \in Nat
    BY <1>7, <1>8, <1>11 DEF Removed
  <1>13. \A k \in 1 .. n : opbuf[k].cmd \in StoredKinds
    BY <1>7, <1>8 DEF SerCmd
  <1>14. Settled(r) /\ NoneBehind(r)
    BY <1>1, <1>6 DEF Pipeline
  <1>15. n = 0
    <2> SUFFICES ASSUME n # 0 PROVE FALSE
      OBVIOUS
    <2>1. 1 \in 1 .. n /\ 1 \in 1 .. Len(r) /\ 1 < n + 1
      BY <1>12
    <2>2. BufferOp(r[1])
      BY <1>12, <1>13, <2>1 DEF BufferOp, StoredKinds
    <2>3. PICK m \in 1 .. Len(r) : 1 < m /\ m < n + 1 /\ r[m].cmd = "exec"
      BY <1>12, <1>14, <2>1, <2>2 DEF Settled
    <2>4. m \in 1 .. n
      BY <2>3
    <2> QED BY <1>12, <1>13, <2>3, <2>4 DEF StoredKinds
  <1>16. opbuf = << >>
    <2>1. Len(opbuf) = 0
      BY <1>8, <1>15
    <2> QED BY <1>7, <2>1
  <1>17. \A j \in 1 .. Len(r) : ~BufferOp(r[j])
    <2> SUFFICES ASSUME NEW j \in 1 .. Len(r), BufferOp(r[j]) PROVE FALSE
      OBVIOUS
    <2>1. CASE j = 1
      BY <1>12, <1>15, <2>1 DEF IsImmediate, BufferOp, ReadKinds
    <2>2. CASE j # 1
      <3>1. n + 1 < j
        BY <1>15, <2>2
      <3> QED BY <1>12, <1>14, <3>1 DEF NoneBehind
    <2> QED BY <2>1, <2>2
  <1>18. AllEffects(r) = << >>
    <2>1. EffectsMap \in [ListedCmd -> Seq(Event)]
      <3>1. << >> \in Seq(Event)
        OBVIOUS
      <3> QED BY <3>1, MapTypes
    <2>2. Barren(EffectsMap, r)
      <3>1. \A k \in 1 .. Len(r) : r[k] \in ListedCmd
        BY <1>7
      <3> QED BY <1>17, <3>1, EffectsType DEF Barren, EffectsMap
    <2>3. FlatMap(EffectsMap, r) = << >>
      BY <1>7, <2>1, <2>2, FlatMapNone
    <2> QED BY <1>7, <2>3, AllEffectsMap
  <1>19. issued = (performed \o << >>) \o << >>
    BY <1>1, <1>3, <1>4, <1>6, <1>18, ConservedWay
  <1>20. performed \o << >> = performed
    BY <1>1, ConcatEmptySeq DEF SerprogType
  <1> QED BY <1>16, <1>19, <1>20

(* The device does a read, an SPI command or the switching of its           *)
(* drivers; its buffer is empty then.                                       *)
LEMMA ImmediateKeeps ==
  ASSUME SerprogInv, NEW c, Immediate(c)
  PROVE  SerprogInv'
  <1> DEFINE d == CASE c.cmd \in {"readb", "readn"} -> Contents(performed, c.addr, c.len)
                    [] c.cmd = "spi" -> <<Len(performed)>>
                    [] c.cmd = "pin" -> << >>
  <1>1. SerprogType
    BY DEF SerprogInv
  <1>2. /\ Received(c) /\ c.cmd \in {"readb", "readn", "spi", "pin"}
        /\ answers' = Replied(answers, "ack", d)
        /\ drivers' = (drivers /\ c.cmd # "pin")
        /\ UNCHANGED <<serprog, host, todo, ops, streamed, asked, got, outcome, spc, link, issued,
                       calls>>
        /\ UNCHANGED <<opbuf, performed, naks, refusals>>
    BY DEF Immediate, Reply, Replied, driver
  <1>3. DeviceOnly /\ c = input[1] /\ c \in AnyCmd /\ c \in ListedCmd
    BY <1>1, <1>2, ReceivedIs
  <1>4. /\ c.cmd \in ReadKinds => d = Contents(performed, c.addr, c.len)
        /\ c.cmd = "spi" => d = <<Len(performed)>>
        /\ c.cmd = "pin" => d = << >>
    BY DEF ReadKinds
  <1> HIDE DEF d
  <1>5. IsImmediate(c) /\ ~BufferOp(c) /\ c.cmd # "exec"
    BY <1>2 DEF IsImmediate, BufferOp, ReadKinds
  <1>6. d \in Seq(Int) /\ Bringing(d) = Owes(performed, c)
    <2>1. CASE c.cmd \in ReadKinds
      <3>1. d = Contents(performed, c.addr, c.len)
        BY <1>4, <2>1
      <3>2. c.len \in Nat \ {0} /\ performed \in Seq(Event)
        BY <1>1, <1>3, <2>1 DEF AnyCmd, SerCmd, SerprogType
      <3>3. d \in Seq(Int) /\ Len(d) # 0
        BY <3>1, <3>2, ContentsType
      <3>4. d # << >>
        BY <3>3
      <3>5. Promise(performed, c) = d
        BY <2>1, <3>1 DEF Promise, ReadKinds
      <3> QED BY <2>1, <3>3, <3>4, <3>5 DEF Bringing, Owes
    <2>2. CASE c.cmd = "spi"
      <3>1. d = <<Len(performed)>> /\ c.cmd \notin ReadKinds
        BY <1>4, <2>2 DEF ReadKinds
      <3>2. Len(performed) \in Int
        BY <1>1 DEF SerprogType
      <3>3. d \in Seq(Int) /\ Len(d) # 0
        BY <3>1, <3>2, Single
      <3>4. d # << >>
        BY <3>3
      <3>5. Promise(performed, c) = d
        BY <2>2, <3>1 DEF Promise, ReadKinds
      <3> QED BY <2>2, <3>3, <3>4, <3>5 DEF Bringing, Owes
    <2>3. CASE c.cmd = "pin"
      <3>1. d = << >> /\ c.cmd \notin ReadKinds \cup {"spi"}
        BY <1>4, <2>3 DEF ReadKinds
      <3>2. d \in Seq(Int)
        BY <3>1
      <3> QED BY <3>1, <3>2 DEF Bringing, Owes
    <2> QED BY <1>2, <2>1, <2>2, <2>3 DEF ReadKinds
  <1>7. c.cmd = "pin" => d = << >>
    BY <1>4
  <1>8. Answered(answers, answers', "ack", d)
    BY <1>1, <1>2, <1>6, ReplyAnswers DEF SerprogType
  <1>9. SerprogType'
    <2>1. input' \in Seq(AnyCmd)
      BY <1>1, <1>3, InputTail
    <2>2. answers' \in Seq(OnLine)
      BY <1>8 DEF Answered
    <2> QED BY <1>1, <1>2, <2>1, <2>2 DEF SerprogType
  <1>10. /\ WayKept(OnTheWay) => WayKept(OnTheWay')
         /\ Drained(OnTheWay) => Drained(OnTheWay')
         /\ AllEffects(OnTheWay') = AllEffects(OnTheWay)
    BY <1>1, <1>2, <1>5, TakenOff
  <1>11. Conserved'
    <2>1. Held' = Held
      BY <1>2 DEF Held
    <2> QED BY <1>1, <1>2, <1>9, <1>10, <2>1, ConservedWay, ConservedNext DEF SerprogInv
  <1>12. Working => /\ WayKept(OnTheWay')
                    /\ host.usage = 0 => Drained(OnTheWay')
    BY <1>10 DEF SerprogInv, Pipeline, WayKept
  <1>13. ASSUME Working, ~Naked
         PROVE  Bringing(d) \o AllOwed(issued, OnTheWay') = AllOwed(issued, OnTheWay)
    <2>1. performed = issued /\ opbuf = << >>
      BY <1>2, <1>5, <1>13, AllPerformed
    <2>2. PICK b \in Seq(ListedCmd) : Without(OnTheWay, opbuf, c, b, Line(opbuf, Tail(input), todo))
      BY <1>1, <1>2, ReceivedIs
    <2>3. OnTheWay' = Line(opbuf, Tail(input), todo)
      BY <1>2 DEF OnTheWay, Line, Sent, Cmds, Received
    <2>4. PICK r, q : r = OnTheWay /\ q = OnTheWay'
      OBVIOUS
    <2>5. Without(r, opbuf, c, b, q) /\ opbuf \in Seq(ListedCmd)
      BY <1>1, <2>2, <2>3, <2>4, WayType
    <2>6. issued \in Seq(Event)
      BY <1>1 DEF SerprogType
    <2>7. PICK E : E = OwesMap(issued)
      OBVIOUS
    <2>8. E \in [ListedCmd -> Seq(Seq(Int))]
      BY <2>6, <2>7, MapTypes
    <2>9. CountedAt(E, r, opbuf, c, b, q)
      BY ONLY <2>5, <2>8, <1>3, b \in Seq(ListedCmd), Counted
    <2>10. FlatMap(E, opbuf) = << >>
      BY <1>3, <2>1, <2>8, FlatMapOne
    <2>11. E[c] \in Seq(Seq(Int)) /\ FlatMap(E, b) \in Seq(Seq(Int))
      BY <1>3, <2>8, FlatMapType
    <2>12. << >> \o E[c] = E[c] /\ << >> \o FlatMap(E, b) = FlatMap(E, b)
      BY <2>11, ConcatEmptySeq
    <2>13. FlatMap(E, r) = E[c] \o FlatMap(E, q)
      BY <2>9, <2>10, <2>12 DEF CountedAt
    <2>14. r \in Seq(ListedCmd) /\ q \in Seq(ListedCmd)
      BY <1>3, <2>5, UnheldOff
    <2>15. E[c] = Bringing(d)
      BY <1>3, <1>6, <2>1, <2>7 DEF OwesMap
    <2> QED BY <2>4, <2>7, <2>13, <2>14, <2>15, AllOwedMap
  <1>14. ASSUME Working, Running, todo[1].do = "ack"
         PROVE  naks' = {} /\ (spc = "stopping" => ~drivers')
    <2>1. naks = {} /\ (spc = "stopping" => input[1].cmd = "pin")
      BY <1>3, <1>14 DEF SerprogInv, AckAlone, DeviceOnly
    <2> QED BY <1>2, <1>3, <2>1
  <1>15. DeviceTakes("ack", d)
    BY <1>1, <1>2, <1>8, <1>11, <1>12, <1>13, <1>14 DEF DeviceTakes, SerprogType
  <1> QED BY <1>3, <1>6, <1>15, DeviceKeeps

(* Every step of the device.                                                *)
LEMMA DeviceStepKeeps ==
  ASSUME SerprogInv, DeviceStep
  PROVE  SerprogInv'
  <1>1. PICK c : Store(c) \/ Overflow(c) \/ Exec(c) \/ Immediate(c) \/ DeviceRefuses(c)
    BY DEF DeviceStep
  <1> QED BY <1>1, StoreKeeps, OverflowKeeps, ExecKeeps, ImmediateKeeps, RefusalKeeps

-----------------------------------------------------------------------------
(* The driver's list without its first entry, and with one more before it.  *)
Behind(t, u) ==
  /\ Len(u) \in Nat /\ Len(t) = Len(u) + 1
  /\ \A k \in 1 .. Len(u) : u[k] = t[k + 1]
StreamsFlush(t) ==
  \A k \in 1 .. Len(t) : t[k].do = "stream" => \E m \in 1 .. Len(t) : m > k /\ t[m].do = "flush"
Flushes(t) == \E m \in 1 .. Len(t) : t[m].do = "flush"
Expects(t) == \E m \in 1 .. Len(t) : IsAnswer(t[m])

(* The list goes on behind its first entry.                                 *)
LEMMA TailBehind ==
  ASSUME NEW t \in Seq(Item), t # << >>
  PROVE  /\ Behind(t, Tail(t)) /\ Tail(t) \in Seq(Item) /\ t[1] \in Item
         /\ Len(t) \in Nat \ {0}
  BY FirstAndRest DEF Behind

(* The list goes on behind a flush that is put before it.                   *)
LEMMA FlushBehind ==
  ASSUME NEW t \in Seq(Item)
  PROVE  /\ Behind(<<Flush>> \o t, t) /\ <<Flush>> \o t \in Seq(Item)
         /\ (<<Flush>> \o t)[1] = Flush
  <1>1. Flush \in Item
    BY DEF Item
  <1>2. PICK h \in Seq(Item) : h = <<Flush>> /\ Len(h) = 1 /\ h[1] = Flush
    BY <1>1, Single
  <1>3. /\ h \o t \in Seq(Item) /\ Len(h \o t) = Len(h) + Len(t)
        /\ \A j \in 1 .. Len(h) + Len(t) : (h \o t)[j] = IF j <= Len(h) THEN h[j] ELSE t[j - Len(h)]
    BY ConcatProperties
  <1>4. PICK n \in Nat : n = Len(t)
    OBVIOUS
  <1>5. \A k \in 1 .. n : t[k] = (h \o t)[k + 1]
    <2> SUFFICES ASSUME NEW k \in 1 .. n PROVE t[k] = (h \o t)[k + 1]
      OBVIOUS
    <2>1. k + 1 \in 1 .. 1 + n /\ ~(k + 1 <= 1) /\ (k + 1) - 1 = k
      OBVIOUS
    <2> QED BY <1>2, <1>3, <1>4, <2>1
  <1>6. (h \o t)[1] = Flush
    <2>1. 1 \in 1 .. 1 + n
      OBVIOUS
    <2> QED BY <1>2, <1>3, <1>4, <2>1
  <1> QED BY <1>2, <1>3, <1>4, <1>5, <1>6 DEF Behind

(* What holds for a list and for what is behind its first entry.            *)
LEMMA ListBehind ==
  ASSUME NEW t, NEW u, Behind(t, u)
  PROVE  /\ Waits(u) => Waits(t)
         /\ Waits(t) /\ ~Awaits(t[1]) => Waits(u)
         /\ StreamsFlush(t) => StreamsFlush(u)
         /\ StreamsFlush(t) /\ t[1].do = "stream" => Flushes(u)
         /\ Flushes(t) /\ t[1].do # "flush" => Flushes(u)
         /\ Expects(t) /\ ~IsAnswer(t[1]) => Expects(u)
  <1>1. PICK n \in Nat : n = Len(u) /\ Len(t) = n + 1 /\ \A k \in 1 .. n : u[k] = t[k + 1]
    BY DEF Behind
  <1>2. \A k \in 1 .. n : k + 1 \in 1 .. n + 1
    OBVIOUS
  <1>3. \A m \in 1 .. n + 1 : m > 1 => m - 1 \in 1 .. n /\ u[m - 1] = t[m]
    <2> SUFFICES ASSUME NEW m \in 1 .. n + 1, m > 1 PROVE m - 1 \in 1 .. n /\ u[m - 1] = t[m]
      OBVIOUS
    <2>1. m - 1 \in 1 .. n /\ (m - 1) + 1 = m
      OBVIOUS
    <2> QED BY <1>1, <2>1
  <1>4. 1 \in 1 .. n + 1 /\ \A m \in 1 .. n + 1 : m = 1 \/ m > 1
    OBVIOUS
  <1>5. Waits(u) => Waits(t)
    BY <1>1, <1>2 DEF Waits
  <1>6. Waits(t) /\ ~Awaits(t[1]) => Waits(u)
    BY <1>1, <1>3, <1>4 DEF Waits
  <1>7. ASSUME StreamsFlush(t) PROVE StreamsFlush(u)
    <2> SUFFICES ASSUME NEW k \in 1 .. n, u[k].do = "stream"
                 PROVE  \E m \in 1 .. n : m > k /\ u[m].do = "flush"
      BY <1>1 DEF StreamsFlush
    <2>1. PICK m \in 1 .. n + 1 : m > k + 1 /\ t[m].do = "flush"
      BY <1>1, <1>2, <1>7 DEF StreamsFlush
    <2>2. m > 1 /\ m - 1 > k
      BY <2>1
    <2> QED BY <1>3, <2>1, <2>2
  <1>8. ASSUME StreamsFlush(t), t[1].do = "stream" PROVE Flushes(u)
    <2>1. PICK m \in 1 .. n + 1 : m > 1 /\ t[m].do = "flush"
      BY <1>1, <1>4, <1>8 DEF StreamsFlush
    <2> QED BY <1>1, <1>3, <2>1 DEF Flushes
  <1>9. ASSUME Flushes(t), t[1].do # "flush" PROVE Flushes(u)
    <2>1. PICK m \in 1 .. n + 1 : m > 1 /\ t[m].do = "flush"
      BY <1>1, <1>4, <1>9 DEF Flushes
    <2> QED BY <1>1, <1>3, <2>1 DEF Flushes
  <1>10. ASSUME Expects(t), ~IsAnswer(t[1]) PROVE Expects(u)
    <2>1. PICK m \in 1 .. n + 1 : m > 1 /\ IsAnswer(t[m])
      BY <1>1, <1>4, <1>10 DEF Expects
    <2> QED BY <1>1, <1>3, <2>1 DEF Expects
  <1> QED BY <1>5, <1>6, <1>7, <1>8, <1>9, <1>10

(* Its shape stays.                                                         *)
LEMMA ShapeBehind ==
  ASSUME NEW t, NEW u, Behind(t, u), TodoShape(t)
  PROVE  TodoShape(u)
  <1>1. PICK n \in Nat : n = Len(u) /\ Len(t) = n + 1 /\ \A k \in 1 .. n : u[k] = t[k + 1]
    BY DEF Behind
  <1>2. \A k \in 2 .. n : /\ k + 1 \in 2 .. n + 1 /\ k - 1 \in 1 .. n
                          /\ u[k] = t[k + 1] /\ u[k - 1] = t[(k + 1) - 1]
    <2> SUFFICES ASSUME NEW k \in 2 .. n
                 PROVE  /\ k + 1 \in 2 .. n + 1 /\ k - 1 \in 1 .. n
                        /\ u[k] = t[k + 1] /\ u[k - 1] = t[(k + 1) - 1]
      OBVIOUS
    <2>1. k + 1 \in 2 .. n + 1 /\ k - 1 \in 1 .. n /\ k \in 1 .. n /\ (k - 1) + 1 = (k + 1) - 1
      OBVIOUS
    <2> QED BY <1>1, <2>1
  <1>3. ASSUME NEW k \in 2 .. n
        PROVE  /\ u[k].do = "data" => u[k - 1].do \in {"flush", "ack"}
               /\ u[k].do = "ack" <=> u[k - 1].do = "docommand"
               /\ u[k].do = "docommand" => u[k - 1].do = "flush"
    <2>1. /\ k + 1 \in 2 .. Len(t) /\ u[k] = t[k + 1] /\ u[k - 1] = t[(k + 1) - 1]
      BY <1>1, <1>2
    <2> QED BY <2>1 DEF TodoShape
  <1>4. ASSUME NEW k \in 1 .. n
        PROVE  /\ u[k].do = "docommand" => n <= k + 2
               /\ u[k].do = "ack" => n <= k + 1
    <2>1. k + 1 \in 1 .. Len(t) /\ u[k] = t[k + 1]
      BY <1>1
    <2>2. /\ u[k].do = "docommand" => n + 1 <= (k + 1) + 2
          /\ u[k].do = "ack" => n + 1 <= (k + 1) + 1
      BY <1>1, <2>1 DEF TodoShape
    <2> QED BY <2>2
  <1>5. ASSUME NEW k \in 1 .. n, NEW m \in 1 .. n, k < m, Awaits(u[k])
        PROVE  ~BufferOp(u[m].cmd) /\ u[m].cmd.cmd # "exec"
    <2>1. k + 1 \in 1 .. Len(t) /\ m + 1 \in 1 .. Len(t) /\ k + 1 < m + 1
      BY <1>1, <1>5
    <2>2. Awaits(t[k + 1]) /\ u[m] = t[m + 1]
      BY <1>1, <1>5
    <2> QED BY <2>1, <2>2 DEF TodoShape
  <1>6. ASSUME NEW k \in 1 .. n, IsImmediate(u[k].cmd)
        PROVE  \E m \in 1 .. n : m > k /\ IsAnswer(u[m])
    <2>1. k + 1 \in 1 .. Len(t) /\ IsImmediate(t[k + 1].cmd)
      BY <1>1, <1>6
    <2>2. PICK m \in 1 .. Len(t) : m > k + 1 /\ IsAnswer(t[m])
      BY <2>1 DEF TodoShape
    <2>3. m - 1 \in 1 .. n /\ m - 1 > k /\ (m - 1) + 1 = m
      BY <1>1, <2>2
    <2>4. u[m - 1] = t[m]
      BY <1>1, <2>3
    <2> QED BY <2>2, <2>3, <2>4
  <1> QED BY <1>1, <1>3, <1>4, <1>5, <1>6 DEF TodoShape

(* A flush put before a streamed operation leaves the shape as it is.       *)
LEMMA ShapeBefore ==
  ASSUME NEW t, NEW u, Behind(t, u), TodoShape(u), t[1] = Flush, Len(u) # 0, u[1].do = "stream"
  PROVE  TodoShape(t)
  <1>1. PICK n \in Nat : n = Len(u) /\ Len(t) = n + 1 /\ \A k \in 1 .. n : u[k] = t[k + 1]
    BY DEF Behind
  <1>2. \A m \in 1 .. n + 1 : m > 1 => m - 1 \in 1 .. n /\ u[m - 1] = t[m]
    <2> SUFFICES ASSUME NEW m \in 1 .. n + 1, m > 1 PROVE m - 1 \in 1 .. n /\ u[m - 1] = t[m]
      OBVIOUS
    <2>1. m - 1 \in 1 .. n /\ (m - 1) + 1 = m
      OBVIOUS
    <2> QED BY <1>1, <2>1
  <1>3. t[1].do = "flush" /\ t[1].cmd = NoCmd
    BY DEF Flush
  <1>4. ~Awaits(t[1]) /\ ~IsImmediate(t[1].cmd)
    BY <1>3 DEF Awaits, IsImmediate, NoCmd, Cmd, ReadKinds
  <1>5. ASSUME NEW k \in 2 .. n + 1
        PROVE  /\ t[k].do = "data" => t[k - 1].do \in {"flush", "ack"}
               /\ t[k].do = "ack" <=> t[k - 1].do = "docommand"
               /\ t[k].do = "docommand" => t[k - 1].do = "flush"
    <2>1. CASE k = 2
      <3>1. t[2] = u[1] /\ t[k - 1] = t[1]
        BY <1>2, <2>1
      <3> QED BY <1>3, <2>1, <3>1
    <2>2. CASE k # 2
      <3>1. k - 1 \in 2 .. n /\ u[k - 1] = t[k]
        BY <1>2, <2>2
      <3>2. u[(k - 1) - 1] = t[k - 1]
        <4>1. k - 1 \in 1 .. n + 1 /\ k - 1 > 1
          BY <2>2
        <4> QED BY <1>2, <4>1
      <3> QED BY <1>1, <3>1, <3>2 DEF TodoShape
    <2> QED BY <2>1, <2>2
  <1>6. ASSUME NEW k \in 1 .. n + 1
        PROVE  /\ t[k].do = "docommand" => n + 1 <= k + 2
               /\ t[k].do = "ack" => n + 1 <= k + 1
    <2>1. CASE k = 1
      BY <1>3, <2>1
    <2>2. CASE k # 1
      <3>1. k - 1 \in 1 .. n /\ u[k - 1] = t[k]
        BY <1>2, <2>2
      <3>2. /\ t[k].do = "docommand" => n <= (k - 1) + 2
            /\ t[k].do = "ack" => n <= (k - 1) + 1
        BY <1>1, <3>1 DEF TodoShape
      <3> QED BY <3>2
    <2> QED BY <2>1, <2>2
  <1>7. ASSUME NEW k \in 1 .. n + 1, NEW m \in 1 .. n + 1, k < m, Awaits(t[k])
        PROVE  ~BufferOp(t[m].cmd) /\ t[m].cmd.cmd # "exec"
    <2>1. k # 1
      BY <1>4, <1>7
    <2>2. k - 1 \in 1 .. n /\ m - 1 \in 1 .. n /\ k - 1 < m - 1
      BY <1>7, <2>1
    <2>3. u[k - 1] = t[k] /\ u[m - 1] = t[m]
      BY <1>2, <1>7, <2>1
    <2> QED BY <1>1, <1>7, <2>2, <2>3 DEF TodoShape
  <1>8. ASSUME NEW k \in 1 .. n + 1, IsImmediate(t[k].cmd)
        PROVE  \E m \in 1 .. n + 1 : m > k /\ IsAnswer(t[m])
    <2>1. k # 1
      BY <1>4, <1>8
    <2>2. k - 1 \in 1 .. n /\ u[k - 1] = t[k]
      BY <1>2, <2>1
    <2>3. PICK m \in 1 .. n : m > k - 1 /\ IsAnswer(u[m])
      BY <1>1, <1>8, <2>2 DEF TodoShape
    <2>4. m + 1 \in 1 .. n + 1 /\ m + 1 > k /\ u[m] = t[m + 1]
      BY <1>1, <2>3
    <2> QED BY <2>3, <2>4
  <1> QED BY <1>1, <1>5, <1>6, <1>7, <1>8 DEF TodoShape

(* How the list ends, when the first entry has been done.                   *)
EndsAt(t, s, r) ==
  /\ TodoShape(t)
  /\ s \in {"idle", "stopped"} => t = << >>
  /\ s \in {"busy", "stopping"} => t # << >> /\ r # "error"
  /\ s = "busy" /\ Waits(t) => t[Len(t)].do = "data"
  /\ s = "stopping" =>
       /\ t[Len(t)].do = "ack"
       /\ \A k \in 1 .. Len(t) : t[k].do # "data"
  /\ s \in {"busy", "stopping"} /\ r = "ok" => s = "busy" /\ t[Len(t)].do = "data"
  /\ s \in {"busy", "stopping"} =>
       \A k \in 1 .. Len(t) : t[k].do = "docommand" => (t[k].cmd.cmd = "pin") = (s = "stopping")

(* An empty list ends as it should when no call runs.                       *)
LEMMA NothingEnds ==
  ASSUME NEW s, s \notin {"busy", "stopping"}, NEW r
  PROVE  TodoShape(<< >>) /\ EndsAt(<< >>, s, r)
  <1>1. Len(<< >>) = 0
    OBVIOUS
  <1>2. 1 .. 0 = {} /\ 2 .. 0 = {}
    OBVIOUS
  <1>3. TodoShape(<< >>)
    BY <1>1, <1>2 DEF TodoShape
  <1> QED BY <1>3 DEF EndsAt

(* A list without its first entry ends as the list did.                     *)
LEMMA EndsTail ==
  ASSUME NEW t \in Seq(Item), NEW s \in {"busy", "stopping"}, NEW r, EndsAt(t, s, r), NEW r2,
         \/ r2 = r
         \/ r2 = "ok" /\ s = "busy" /\ Waits(t)
         \/ Tail(t) = << >>,
         NEW s2, s2 = IF Tail(t) # << >> THEN s ELSE IF s = "stopping" THEN "stopped" ELSE "idle"
  PROVE  /\ EndsAt(Tail(t), s2, r2)
         /\ s = "stopping" => Waits(t)
         /\ s2 = "stopped" => s = "stopping" /\ t[1].do = "ack"
         /\ s2 = "idle" => s = "busy" /\ t[Len(t)] = t[1] /\ Len(t) = 1
  <1>1. t # << >> /\ TodoShape(t)
    BY DEF EndsAt
  <1>2. PICK u \in Seq(Item) : u = Tail(t) /\ Behind(t, u)
    BY <1>1, TailBehind
  <1>3. PICK n \in Nat : n = Len(u) /\ Len(t) = n + 1 /\ \A k \in 1 .. n : u[k] = t[k + 1]
    BY <1>2 DEF Behind
  <1>4. TodoShape(u)
    BY <1>1, <1>2, ShapeBehind
  <1>5. Waits(u) => Waits(t)
    BY <1>2, ListBehind
  <1>6. s = "stopping" => Waits(t)
    <2>1. Len(t) \in 1 .. Len(t)
      BY <1>3
    <2> QED BY <2>1 DEF EndsAt, Waits, Awaits
  <1>7. CASE u = << >>
    <2>1. n = 0 /\ Len(t) = 1
      BY <1>3, <1>7
    <2>2. s2 \in {"idle", "stopped"} /\ (s2 = "stopped" <=> s = "stopping")
      BY <1>2, <1>7
    <2>3. EndsAt(u, s2, r2)
      BY <1>7, <2>2, NothingEnds
    <2>4. s = "stopping" => t[1].do = "ack"
      BY <2>1 DEF EndsAt
    <2> QED BY <1>2, <1>6, <2>1, <2>2, <2>3, <2>4
  <1>8. CASE u # << >>
    <2>1. s2 = s /\ n # 0
      BY <1>2, <1>3, <1>8
    <2>2. n \in 1 .. n /\ u[n] = t[n + 1]
      BY <1>3, <2>1
    <2>3. u[Len(u)] = t[Len(t)]
      BY <1>3, <2>2
    <2>4. \A k \in 1 .. n : k + 1 \in 1 .. Len(t) /\ u[k] = t[k + 1]
      BY <1>3
    <2>5. r2 # "error"
      BY <1>2, <1>8 DEF EndsAt
    <2>6. r2 = "ok" => s = "busy" /\ t[Len(t)].do = "data"
      BY <1>2, <1>8 DEF EndsAt
    <2>7. s = "busy" /\ Waits(u) => u[Len(u)].do = "data"
      BY <1>5, <2>3 DEF EndsAt
    <2>8. s = "stopping" =>
            /\ u[Len(u)].do = "ack"
            /\ \A k \in 1 .. Len(u) : u[k].do # "data"
      BY <1>3, <2>3, <2>4 DEF EndsAt
    <2>9. \A k \in 1 .. Len(u) : u[k].do = "docommand" => (u[k].cmd.cmd = "pin") = (s = "stopping")
      BY <1>3, <2>4 DEF EndsAt
    <2>10. EndsAt(u, s, r2)
      BY <1>4, <1>8, <2>3, <2>5, <2>6, <2>7, <2>8, <2>9 DEF EndsAt
    <2> QED BY <1>2, <1>6, <2>1, <2>10
  <1> QED BY <1>7, <1>8

(* How the list ends, for a list, a state of the driver and an outcome.     *)
LEMMA TodoEndsAt == TodoEnds <=> EndsAt(todo, spc, outcome)
  BY DEF TodoEnds, EndsAt, Running

(* The same after a step.                                                   *)
LEMMA TodoEndsNext == TodoEnds' <=> EndsAt(todo', spc', outcome')
  BY DEF TodoEnds, EndsAt, Running

-----------------------------------------------------------------------------
(* A step of the driver that takes the first entry off its list. What is    *)
(* left to show of each is what becomes of the way and of the answers.      *)
TailStep ==
  /\ Running /\ Advance(Tail(todo))
  /\ UNCHANGED <<serprog, host, asked, link, opbuf, performed, drivers, issued, naks, refusals>>

TailTakes ==
  /\ ops' \in Nat /\ input' \in Seq(AnyCmd) /\ answers' \in Seq(OnLine) /\ got' \in Seq(Int)
  /\ outcome' \in {"none", "ok", "error"}
  /\ \/ outcome' = outcome
     \/ outcome' = "ok" /\ spc = "busy" /\ Waits(todo)
     \/ Tail(todo) = << >>
  /\ AllEffects(OnTheWay') = AllEffects(OnTheWay)
  /\ ReadResult'
  /\ NakedIn(answers') => NakedIn(answers)
  /\ Working =>
       /\ CountsMatch'
       /\ Running' /\ Awaits(todo'[1]) => ops' = 0
       /\ naks # {} => Naked'
       /\ host.usage = 0 /\ ops' > 0 => Flushes(todo')
       /\ WayKept(OnTheWay')
       /\ Drained(OnTheWay) => Drained(OnTheWay')
       /\ (\E k \in 1 .. Len(input') : IsImmediate(input'[k])) => Expects(todo')
       /\ Accounted' /\ AckAlone' /\ ShutdownFlushes'

(* A step of the host that takes the first entry off the list keeps the     *)
(* invariant, when it keeps what TailTakes says.                            *)
LEMMA TailKeeps ==
  ASSUME SerprogInv, TailStep, TailTakes
  PROVE  SerprogInv'
  <1>1. SerprogType /\ HostFits /\ TodoEnds
    BY DEF SerprogInv
  <1>2. spc \in {"busy", "stopping"} /\ todo # << >> /\ todo \in Seq(Item)
    BY <1>1 DEF TailStep, Running, TodoEnds, SerprogType
  <1>3. /\ todo' = Tail(todo) /\ todo' \in Seq(Item) /\ Behind(todo, todo')
        /\ spc' = IF Tail(todo) # << >> THEN spc ELSE IF spc = "stopping" THEN "stopped" ELSE "idle"
    BY <1>2, TailBehind DEF TailStep, Advance
  <1>4. SerprogType'
    <2>1. spc' \in {"idle", "busy", "stopping", "stopped", "died"}
      BY <1>2, <1>3
    <2> QED BY <1>1, <1>3, <2>1 DEF SerprogType, TailStep, TailTakes
  <1>5. HostFits'
    BY <1>1 DEF HostFits, BufferFits, TailStep
  <1>6. EndsAt(todo, spc, outcome)
    BY <1>1, TodoEndsAt
  <1>7. /\ EndsAt(Tail(todo), spc', outcome')
        /\ spc = "stopping" => Waits(todo)
        /\ spc' = "stopped" => spc = "stopping" /\ todo[1].do = "ack"
    <2>1. \/ outcome' = outcome
          \/ outcome' = "ok" /\ spc = "busy" /\ Waits(todo)
          \/ Tail(todo) = << >>
      BY DEF TailTakes
    <2> QED BY <1>2, <1>3, <1>6, <2>1, EndsTail
  <1>8. TodoEnds'
    BY <1>3, <1>7, TodoEndsNext
  <1>9. Conserved'
    <2>1. Held' = Held
      BY DEF Held, TailStep
    <2>2. Conserved /\ AllEffects(OnTheWay') = AllEffects(OnTheWay)
      BY DEF SerprogInv, TailTakes
    <2>3. performed' = performed /\ naks' = naks /\ issued' = issued
      BY DEF TailStep
    <2> QED BY <1>1, <1>4, <2>1, <2>2, <2>3, ConservedWay, ConservedNext
  <1>10. ReadResult'
    BY DEF TailTakes
  <1>11. Naked' => refusals' > 0 \/ naks' # {}
    BY DEF SerprogInv, TailTakes, TailStep, Naked, NakedIn
  <1>12. ASSUME Working PROVE Flow'
    <2>1. Flow
      BY <1>12 DEF SerprogInv
    <2>2. CountsMatch' /\ (Running' /\ Awaits(todo'[1]) => ops' = 0) /\ (naks' # {} => Naked')
      BY <1>12 DEF TailTakes, TailStep
    <2>3. Waits(todo') \/ spc' = "stopped" => Waits(todo)
      BY <1>3, <1>7, ListBehind
    <2>4. Waits(todo') \/ spc' = "stopped" => host'.usage = 0 /\ host'.data = << >>
      BY <2>1, <2>3 DEF Flow, TailStep
    <2>5. host.usage = 0 => StreamsFlush(todo)
      BY <2>1 DEF Flow, StreamsFlush
    <2>6. host'.usage = 0 => StreamsFlush(todo') /\ (ops' > 0 => Flushes(todo'))
      BY <1>3, <1>12, <2>5, ListBehind DEF TailTakes, TailStep
    <2> QED BY <2>2, <2>4, <2>6 DEF Flow, StreamsFlush, Flushes
  <1>13. ASSUME Working PROVE Pipeline'
    <2>1. Pipeline
      BY <1>13 DEF SerprogInv
    <2>2. host' = host
      BY DEF TailStep
    <2>3. WayKept(OnTheWay') /\ (Drained(OnTheWay) => Drained(OnTheWay'))
      BY <1>13 DEF TailTakes
    <2>4. (\E k \in 1 .. Len(input') :
             IsImmediate(input'[k])) => \E m \in 1 .. Len(todo') : IsAnswer(todo'[m])
      BY <1>13 DEF TailTakes, Expects
    <2> QED BY <2>1, <2>2, <2>3, <2>4 DEF Pipeline, WayKept
  <1>14. Working => Accounted' /\ AckAlone' /\ ShutdownFlushes'
    BY DEF TailTakes
  <1>15. Working' => Working
    BY <1>2 DEF Working, TailStep
  <1> QED BY <1>4, <1>5, <1>8, <1>9, <1>10, <1>11, <1>12, <1>13, <1>14, <1>15 DEF SerprogInv

(* A read's bytes are one answer that is waited for.                        *)
LEMMA WantedFirst ==
  ASSUME NEW t \in Seq(Item), t # << >>
  PROVE  /\ Len(AllWanted(t)) = (IF t[1].do = "data" THEN 1 ELSE 0) + Len(AllWanted(Tail(t)))
         /\ Len(AllWanted(Tail(t))) \in Nat /\ Len(AllWanted(<< >>)) = 0
  <1>1. WantsMap \in [Item -> Seq({0})]
    <2>1. << >> \in Seq(Event)
      OBVIOUS
    <2> QED BY <2>1, MapTypes
  <1>2. PICK u \in Seq(Item) : u = Tail(t)
    BY TailBehind
  <1>3. PICK x \in Item : x = t[1]
    BY TailBehind
  <1>4. FlatMap(WantsMap, t) = WantsMap[t[1]] \o FlatMap(WantsMap, Tail(t))
    BY ONLY <1>1, t \in Seq(Item), t # << >>, FlatMapFirst
  <1>5. PICK w \in Seq({0}) : w = FlatMap(WantsMap, u)
    BY <1>1, FlatMapType
  <1>6. AllWanted(t) = WantsMap[x] \o w /\ AllWanted(u) = w
    BY <1>2, <1>3, <1>4, <1>5, AllWantedMap
  <1>7. Len(w) \in Nat
    BY <1>5
  <1>8. Len(AllWanted(t)) = (IF x.do = "data" THEN 1 ELSE 0) + Len(w)
    <2>1. CASE x.do = "data"
      <3>1. WantsMap[x] = <<0>>
        BY <2>1 DEF WantsMap
      <3>2. Len(<<0>> \o w) = 1 + Len(w)
        BY <1>5
      <3> QED BY <1>6, <2>1, <3>1, <3>2
    <2>2. CASE x.do # "data"
      <3>1. WantsMap[x] = << >>
        BY <2>2 DEF WantsMap
      <3>2. << >> \o w = w
        BY <1>5
      <3> QED BY <1>6, <1>7, <2>2, <3>1, <3>2
    <2> QED BY <2>1, <2>2
  <1>9. Len(AllWanted(<< >>)) = 0
    <2>1. FlatMap(WantsMap, <<x>>) = WantsMap[x] /\ FlatMap(WantsMap, << >>) = << >>
      BY ONLY <1>1, x \in Item, FlatMapOne
    <2>2. << >> \in Seq(Item)
      OBVIOUS
    <2>3. AllWanted(<< >>) = << >>
      BY <2>1, <2>2, AllWantedMap
    <2> QED BY <2>3
  <1> QED BY <1>2, <1>3, <1>6, <1>7, <1>8, <1>9

(* The first entry of what is behind is the second of the list.             *)
LEMMA SecondEntry ==
  ASSUME NEW t, NEW u, Behind(t, u), Len(u) # 0
  PROVE  u[1] = t[2] /\ 2 \in 2 .. Len(t) /\ 2 - 1 = 1
  <1>1. Len(u) \in Nat /\ Len(t) = Len(u) + 1 /\ 1 \in 1 .. Len(u)
    BY DEF Behind
  <1> QED BY <1>1 DEF Behind

(* What the next entry can be, and that the call goes on unless its last    *)
(* entry has been done.                                                     *)
LEMMA NextEntry ==
  ASSUME SerprogInv, TailStep
  PROVE  /\ todo # << >> /\ todo \in Seq(Item) /\ todo[1] \in Item
         /\ todo' = Tail(todo) /\ todo' \in Seq(Item) /\ Behind(todo, todo')
         /\ TodoShape(todo) /\ spc \in {"busy", "stopping"}
         /\ Running' =>
              /\ todo'[1].do = "ack" <=> todo[1].do = "docommand"
              /\ todo'[1].do = "data" => todo[1].do \in {"flush", "ack"}
              /\ todo'[1].do = "docommand" => todo[1].do = "flush"
         /\ spc' = "stopped" => todo[1].do = "ack" /\ spc = "stopping"
         /\ spc' = "idle" => Len(todo) = 1 /\ spc = "busy"
         /\ outcome' = outcome /\ todo[1].do # "data" => ReadResult'
         /\ spc' \in {"busy", "stopping"} => Tail(todo) # << >> /\ spc' = spc
  <1>1. todo # << >> /\ todo \in Seq(Item) /\ spc \in {"busy", "stopping"} /\ TodoEnds
        /\ TodoShape(todo)
    BY DEF SerprogInv, SerprogType, TodoEnds, TailStep, Running
  <1>2. todo' = Tail(todo) /\ todo' \in Seq(Item) /\ Behind(todo, todo') /\ todo[1] \in Item
        /\ spc' = IF Tail(todo) # << >> THEN spc ELSE IF spc = "stopping" THEN "stopped" ELSE "idle"
    BY <1>1, TailBehind DEF TailStep, Advance
  <1>3. EndsAt(todo, spc, outcome)
    BY <1>1, TodoEndsAt
  <1>4. /\ spc' = "stopped" => spc = "stopping" /\ todo[1].do = "ack"
        /\ spc' = "idle" => spc = "busy" /\ todo[Len(todo)] = todo[1] /\ Len(todo) = 1
    BY <1>1, <1>2, <1>3, EndsTail
  <1>5. ASSUME Running'
        PROVE  /\ todo'[1].do = "ack" <=> todo[1].do = "docommand"
               /\ todo'[1].do = "data" => todo[1].do \in {"flush", "ack"}
               /\ todo'[1].do = "docommand" => todo[1].do = "flush"
    <2>1. Tail(todo) # << >>
      BY <1>1, <1>2, <1>5 DEF Running
    <2>2. Len(todo') # 0
      BY <1>2, <2>1
    <2>4. todo'[1] = todo[2] /\ 2 \in 2 .. Len(todo) /\ 2 - 1 = 1
      BY <1>2, <2>2, SecondEntry
    <2>5. /\ todo[2].do = "data" => todo[2 - 1].do \in {"flush", "ack"}
          /\ todo[2].do = "ack" <=> todo[2 - 1].do = "docommand"
          /\ todo[2].do = "docommand" => todo[2 - 1].do = "flush"
      BY <1>1, <2>4 DEF TodoShape
    <2> QED BY <2>4, <2>5
  <1>6. ASSUME outcome' = outcome, todo[1].do # "data", spc' = "idle", outcome' = "ok" PROVE FALSE
    <2>1. todo[Len(todo)].do = "data"
      BY <1>1, <1>3, <1>6 DEF EndsAt
    <2> QED BY <1>4, <1>6, <2>1
  <1>7. outcome' = outcome /\ todo[1].do # "data" => ReadResult'
    BY <1>6 DEF ReadResult
  <1>8. spc' \in {"busy", "stopping"} => Tail(todo) # << >> /\ spc' = spc
    BY <1>2
  <1> QED BY <1>1, <1>2, <1>4, <1>5, <1>7, <1>8

(* An entry that sends nothing is taken off the list.                       *)
LEMMA ListedOff ==
  ASSUME SerprogType, todo # << >>, todo[1].cmd = NoCmd, todo' = Tail(todo), UNCHANGED <<opbuf,
                               input>>
  PROVE  /\ AllEffects(OnTheWay') = AllEffects(OnTheWay)
         /\ \A log \in Seq(Event) : AllOwed(log, OnTheWay') = AllOwed(log, OnTheWay)
         /\ WayKept(OnTheWay) => WayKept(OnTheWay')
         /\ Drained(OnTheWay) => Drained(OnTheWay')
  <1>1. opbuf \in Seq(ListedCmd) /\ input \in Seq(ListedCmd) /\ todo \in Seq(Item)
        /\ OnTheWay = Line(opbuf, input, todo)
    BY WayType DEF SerprogType
  <1>2. OnTheWay' = Line(opbuf, input, Tail(todo))
    BY DEF OnTheWay, Line, Sent, Cmds
  <1>3. PICK a \in Seq(ListedCmd), b \in Seq(ListedCmd) :
          Without(Line(opbuf, input, todo), a, todo[1].cmd, b, Line(opbuf, input, Tail(todo)))
    BY <1>1, LineListed
  <1>4. PICK r, q : r = OnTheWay /\ q = OnTheWay'
    OBVIOUS
  <1>5. PICK x : x = NoCmd
    OBVIOUS
  <1>6. Without(r, a, x, b, q)
    BY <1>1, <1>2, <1>3, <1>4, <1>5
  <1>7. x \in ListedCmd /\ x.cmd = "none"
    BY <1>5 DEF NoCmd, Cmd, ListedCmd, SerCmd, None, ReadKinds, Streamed, StoredKinds
  <1>8. ~BufferOp(x) /\ x.cmd \notin ReadKinds \cup {"spi"} /\ x.cmd # "exec"
    BY <1>7 DEF BufferOp, ReadKinds
  <1>9. /\ AllEffects(r) = AllEffects(q)
        /\ \A log \in Seq(Event) : AllOwed(log, r) = AllOwed(log, q)
    BY <1>6, <1>7, <1>8, UnheldOff
  <1>10. Removed(r, Len(a) + 1, q) /\ r[Len(a) + 1] = x
    BY <1>6, <1>7, WithoutIndex
  <1>11. PICK p : p = Len(a) + 1
    OBVIOUS
  <1>12. Removed(r, p, q) /\ r[p].cmd # "exec"
    BY <1>8, <1>10, <1>11
  <1>13. /\ Settled(r) => Settled(q)
         /\ NoneBehind(r) => NoneBehind(q)
         /\ Drained(r) => Drained(q)
    BY <1>12, RemoveKeeps
  <1> QED BY <1>4, <1>9, <1>13 DEF WayKept

(* So is one that is sent: it goes on on the line.                          *)
LEMMA ListedSent ==
  ASSUME SerprogType, todo # << >>, todo' = Tail(todo), input' = Append(input, todo[1].cmd),
         opbuf' = opbuf
  PROVE  OnTheWay' = OnTheWay
  <1>1. opbuf \in Seq(ListedCmd) /\ input \in Seq(ListedCmd) /\ todo \in Seq(Item)
        /\ OnTheWay = Line(opbuf, input, todo)
    BY WayType DEF SerprogType
  <1>2. OnTheWay' = Line(opbuf, Append(input, todo[1].cmd), Tail(todo))
    BY DEF OnTheWay, Line, Sent, Cmds
  <1> QED BY <1>1, <1>2, LineSends

(* The line with one command more.                                          *)
LEMMA InputMore ==
  ASSUME NEW l \in Seq(AnyCmd), NEW c \in AnyCmd
  PROVE  /\ Append(l, c) \in Seq(AnyCmd) /\ Len(Append(l, c)) = Len(l) + 1 /\ Len(l) \in Nat
         /\ \A k \in 1 .. Len(Append(l, c)) :
              Append(l, c)[k] = c \/ \E m \in 1 .. Len(l) : Append(l, c)[k] = l[m]
  <1>1. PICK j \in Seq(AnyCmd) : j = Append(l, c)
    BY AppendProperties
  <1>2. Len(j) = Len(l) + 1 /\ j[Len(l) + 1] = c /\ (\A k \in 1 .. Len(l) :
                                                       j[k] = l[k]) /\ Len(l) \in Nat
    BY <1>1
  <1>3. ASSUME NEW k \in 1 .. Len(j) PROVE j[k] = c \/ \E m \in 1 .. Len(l) : j[k] = l[m]
    <2>1. CASE k = Len(l) + 1
      BY <1>2, <2>1
    <2>2. CASE k # Len(l) + 1
      <3>1. k \in 1 .. Len(l)
        BY <1>2, <2>2
      <3> QED BY <1>2, <3>1
    <2> QED BY <2>1, <2>2
  <1> QED BY <1>1, <1>2, <1>3

(* The number of answers that are under way.                                *)
LEMMA Counts ==
  ASSUME SerprogInv, Working
  PROVE  /\ Len(input) + NReplies(answers) = ops + (IF Running /\ todo[1].do = "ack" THEN 1 ELSE 0)
         /\ Len(input) \in Nat /\ NReplies(answers) \in Nat /\ ops \in Nat
  <1>1. Len(input) + NReplies(answers) = ops + (IF Running /\ todo[1].do = "ack" THEN 1 ELSE 0)
    BY DEF SerprogInv, Flow, CountsMatch, Working, Replies, NReplies, RepliesIn
  <1>2. input \in Seq(AnyCmd) /\ answers \in Seq(OnLine) /\ ops \in Nat
    BY DEF SerprogInv, SerprogType
  <1>3. Len(input) \in Nat /\ NReplies(answers) \in Nat
    BY <1>2, RepliesNone
  <1> QED BY <1>1, <1>2, <1>3

(* The counts after a step.                                                 *)
LEMMA CountsNext ==
  ASSUME Len(input') + NReplies(answers')
           = ops' + (IF Running' /\ todo'[1].do = "ack" THEN 1 ELSE 0)
  PROVE  CountsMatch'
  BY DEF CountsMatch, Replies, NReplies, RepliesIn

(* The host streams an operation.                                           *)
LEMMA SendStreamKeeps ==
  ASSUME SerprogInv, SendStream
  PROVE  SerprogInv'
  <1>1. SerprogType
    BY DEF SerprogInv
  <1>2. /\ TailStep /\ todo[1].do = "stream" /\ Running
        /\ input' = Append(input, todo[1].cmd) /\ ops' = ops + 1
        /\ UNCHANGED <<got, outcome, answers>>
    BY DEF SendStream, TailStep, Next1, device
  <1>3. /\ todo # << >> /\ todo \in Seq(Item) /\ todo[1] \in Item
        /\ todo' = Tail(todo) /\ todo' \in Seq(Item) /\ Behind(todo, todo')
        /\ TodoShape(todo)
        /\ ~(Running' /\ Awaits(todo'[1]))
        /\ spc' # "stopped"
        /\ ReadResult'
    BY <1>2, NextEntry DEF Awaits
  <1>4. todo[1].cmd \in AnyCmd
    BY <1>2, <1>3, ItemType, WayKinds
  <1>5. input \in Seq(AnyCmd) /\ ops \in Nat /\ answers \in Seq(OnLine) /\ got \in Seq(Int)
        /\ outcome \in {"none", "ok", "error"}
    BY <1>1 DEF SerprogType
  <1>6. /\ input' \in Seq(AnyCmd) /\ Len(input') = Len(input) + 1
        /\ \A k \in 1 .. Len(input') :
             input'[k] = todo[1].cmd \/ \E m \in 1 .. Len(input) : input'[k] = input[m]
    BY <1>2, <1>4, <1>5, InputMore
  <1>7. OnTheWay' = OnTheWay
    BY <1>1, <1>2, <1>3, ListedSent DEF TailStep
  <1>8. ASSUME Working
        PROVE  /\ CountsMatch'
               /\ naks # {} => Naked'
               /\ host.usage = 0 /\ ops' > 0 => Flushes(todo')
               /\ WayKept(OnTheWay')
               /\ (\E k \in 1 .. Len(input') : IsImmediate(input'[k])) => Expects(todo')
               /\ Accounted' /\ AckAlone' /\ ShutdownFlushes'
    <2>1. Flow /\ Pipeline /\ Accounted
      BY <1>8 DEF SerprogInv
    <2>2. CountsMatch'
      <3>1. Len(input) + NReplies(answers) = ops + 0 /\ Len(input) \in Nat
            /\ NReplies(answers) \in Nat
        BY <1>2, <1>8, Counts
      <3>2. ops' = ops + 1 /\ ops \in Nat /\ Len(input') = Len(input) + 1 /\ answers' = answers
        BY <1>2, <1>5, <1>6
      <3>3. Len(input') + NReplies(answers') = ops' + 0
        BY ONLY <3>1, <3>2
      <3>4. ~(Running' /\ todo'[1].do = "ack")
        BY <1>3 DEF Awaits
      <3> QED BY <3>3, <3>4, CountsNext
    <2>3. naks # {} => Naked'
      BY <1>2, <2>1 DEF Flow, Naked
    <2>4. host.usage = 0 => Flushes(todo')
      BY <1>2, <1>3, <2>1, ListBehind DEF Flow, StreamsFlush
    <2>5. WayKept(OnTheWay')
      BY <1>7, <2>1 DEF Pipeline, WayKept
    <2>6. (\E k \in 1 .. Len(input') : IsImmediate(input'[k])) => Expects(todo')
      <3>1. ASSUME NEW k \in 1 .. Len(input'), IsImmediate(input'[k]) PROVE Expects(todo)
        <4>1. CASE input'[k] = todo[1].cmd
          <5>1. 1 \in 1 .. Len(todo)
            BY <1>3, TailBehind
          <5>2. \E m \in 1 .. Len(todo) : m > 1 /\ IsAnswer(todo[m])
            BY <1>3, <3>1, <4>1, <5>1 DEF TodoShape
          <5> QED BY <5>2 DEF Expects
        <4>2. CASE \E m \in 1 .. Len(input) : input'[k] = input[m]
          BY <2>1, <3>1, <4>2 DEF Pipeline, Expects
        <4> QED BY <1>6, <4>1, <4>2
      <3>2. Expects(todo) => Expects(todo')
        BY <1>2, <1>3, ListBehind DEF IsAnswer
      <3> QED BY <3>1, <3>2
    <2>7. Accounted'
      <3>1. Owed' = Owed
        BY <1>2, <1>7 DEF Owed, TailStep
      <3>2. Len(AllWanted(todo')) = Len(AllWanted(todo))
        BY <1>2, <1>3, WantedFirst
      <3> QED BY <1>2, <2>1, <3>1, <3>2 DEF Accounted, Naked, TailStep
    <2>8. AckAlone' /\ ShutdownFlushes'
      BY <1>3 DEF AckAlone, ShutdownFlushes, Awaits
    <2> QED BY <2>2, <2>3, <2>4, <2>5, <2>6, <2>7, <2>8
  <1>9. TailTakes
    <2>1. ops' \in Nat
      BY <1>2, <1>5
    <2>2. NakedIn(answers') => NakedIn(answers)
      BY <1>2
    <2> QED BY <1>2, <1>3, <1>5, <1>6, <1>7, <1>8, <2>1, <2>2 DEF TailTakes
  <1> QED BY <1>2, <1>9, TailKeeps

(* The host has collected all answers.                                      *)
LEMMA FlushDoneKeeps ==
  ASSUME SerprogInv, FlushDone
  PROVE  SerprogInv'
  <1>1. SerprogType
    BY DEF SerprogInv
  <1>2. /\ TailStep /\ todo[1].do = "flush" /\ Running /\ ops = 0
        /\ UNCHANGED <<got, outcome, answers, input, ops>>
    BY DEF FlushDone, TailStep, Next1, device
  <1>3. /\ todo # << >> /\ todo \in Seq(Item) /\ todo[1] \in Item
        /\ todo' = Tail(todo) /\ todo' \in Seq(Item) /\ Behind(todo, todo')
        /\ ~(Running' /\ todo'[1].do = "ack")
        /\ spc' # "stopped"
        /\ ReadResult'
    BY <1>2, NextEntry
  <1>4. todo[1].cmd = NoCmd
    BY <1>2, <1>3, ItemType
  <1>5. input \in Seq(AnyCmd) /\ ops \in Nat /\ answers \in Seq(OnLine) /\ got \in Seq(Int)
        /\ outcome \in {"none", "ok", "error"} /\ issued \in Seq(Event)
    BY <1>1 DEF SerprogType
  <1>6. /\ AllEffects(OnTheWay') = AllEffects(OnTheWay)
        /\ \A log \in Seq(Event) : AllOwed(log, OnTheWay') = AllOwed(log, OnTheWay)
        /\ WayKept(OnTheWay) => WayKept(OnTheWay')
        /\ Drained(OnTheWay) => Drained(OnTheWay')
    BY <1>1, <1>2, <1>3, <1>4, ListedOff DEF TailStep
  <1>7. ASSUME Working
        PROVE  /\ CountsMatch'
               /\ naks # {} => Naked'
               /\ WayKept(OnTheWay')
               /\ (\E k \in 1 .. Len(input') : IsImmediate(input'[k])) => Expects(todo')
               /\ Accounted' /\ AckAlone' /\ ShutdownFlushes'
    <2>1. Flow /\ Pipeline /\ Accounted
      BY <1>7 DEF SerprogInv
    <2>2. CountsMatch'
      <3>1. Len(input) + NReplies(answers) = ops + 0
        BY <1>2, <1>7, Counts
      <3>2. Len(input') + NReplies(answers') = ops' + 0
        BY <1>2, <3>1
      <3> QED BY <1>3, <3>2, CountsNext
    <2>3. naks # {} => Naked'
      BY <1>2, <2>1 DEF Flow, Naked
    <2>4. WayKept(OnTheWay')
      BY <1>6, <2>1 DEF Pipeline, WayKept
    <2>5. (\E k \in 1 .. Len(input') : IsImmediate(input'[k])) => Expects(todo')
      <3>1. (\E k \in 1 .. Len(input) : IsImmediate(input[k])) => Expects(todo)
        BY <2>1 DEF Pipeline, Expects
      <3>2. Expects(todo) => Expects(todo')
        BY <1>2, <1>3, ListBehind DEF IsAnswer
      <3> QED BY <1>2, <3>1, <3>2
    <2>6. Accounted'
      <3>1. Owed' = Owed
        BY <1>2, <1>5, <1>6 DEF Owed, TailStep
      <3>2. Len(AllWanted(todo')) = Len(AllWanted(todo))
        BY <1>2, <1>3, WantedFirst
      <3> QED BY <1>2, <2>1, <3>1, <3>2 DEF Accounted, Naked, TailStep
    <2>7. AckAlone' /\ ShutdownFlushes'
      BY <1>3 DEF AckAlone, ShutdownFlushes
    <2> QED BY <2>2, <2>3, <2>4, <2>5, <2>6, <2>7
  <1>8. TailTakes
    BY <1>2, <1>3, <1>5, <1>6, <1>7 DEF TailTakes
  <1> QED BY <1>2, <1>8, TailKeeps

(* A sequence of length 0.                                                  *)
LEMMA NoLength ==
  ASSUME NEW A, NEW s \in Seq(A), Len(s) = 0
  PROVE  s = << >>
  OBVIOUS

(* The places of what is joined.                                            *)
Joined(r, s, t) == r = s \o t
(* The places of what is joined.                                            *)
LEMMA JoinPlaces ==
  ASSUME NEW A, NEW s \in Seq(A), NEW t \in Seq(A), NEW r, Joined(r, s, t)
  PROVE  /\ Len(r) = Len(s) + Len(t) /\ r \in Seq(A)
         /\ \A k \in 1 .. Len(s) + Len(t) : r[k] = IF k <= Len(s) THEN s[k] ELSE t[k - Len(s)]
  BY ConcatProperties DEF Joined

(* The answers without the first.                                           *)
LEMMA AnswersTail ==
  ASSUME NEW s \in Seq(OnLine), s # << >>
  PROVE  /\ Tail(s) \in Seq(OnLine) /\ s[1] \in OnLine /\ Len(s) \in Nat \ {0}
         /\ NakedIn(Tail(s)) => NakedIn(s)
         /\ NakedIn(s) => s[1].kind = "nak" \/ NakedIn(Tail(s))
         /\ s[1].kind = "nak" => NakedIn(s)
         /\ AllBrought(s) = Brings(s[1]) \o AllBrought(Tail(s))
         /\ AllBrought(Tail(s)) \in Seq(Seq(Int)) /\ Brings(s[1]) \in Seq(Seq(Int))
         /\ Len(s) = 1 => Tail(s) = << >>
  <1>1. /\ Tail(s) \in Seq(OnLine) /\ s[1] \in OnLine /\ Len(Tail(s)) = Len(s) - 1
        /\ Len(s) \in Nat \ {0}
        /\ \A k \in 1 .. Len(s) - 1 : Tail(s)[k] = s[k + 1]
    BY FirstAndRest
  <1>0. Tail(s) \in Seq(OnLine)
    BY <1>1
  <1>2. PICK u \in Seq(OnLine) : u = Tail(s)
    BY <1>0
  <1>30. PICK n \in Nat : n = Len(u)
    OBVIOUS
  <1>3. Len(s) = n + 1 /\ Len(u) = n
    BY <1>1, <1>2, <1>30
  <1>4. \A k \in 1 .. n : u[k] = s[k + 1]
    BY <1>1, <1>2, <1>3
  <1>5. NakedIn(u) => NakedIn(s)
    BY <1>3, <1>4 DEF NakedIn
  <1>6. NakedIn(s) => s[1].kind = "nak" \/ NakedIn(u)
    <2> SUFFICES ASSUME NEW k \in 1 .. n + 1, s[k].kind = "nak", k # 1 PROVE NakedIn(u)
      BY <1>3 DEF NakedIn
    <2>1. k - 1 \in 1 .. n /\ (k - 1) + 1 = k
      OBVIOUS
    <2>2. u[k - 1] = s[k]
      BY <1>4, <2>1
    <2> QED BY <1>3, <2>1, <2>2 DEF NakedIn
  <1>7. s[1].kind = "nak" => NakedIn(s)
    <2>1. 1 \in 1 .. Len(s)
      BY <1>3
    <2> QED BY <2>1 DEF NakedIn
  <1>8. BringsMap \in [OnLine -> Seq(Seq(Int))]
    <2>1. << >> \in Seq(Event)
      OBVIOUS
    <2> QED BY <2>1, MapTypes
  <1>9. FlatMap(BringsMap, s) = BringsMap[s[1]] \o FlatMap(BringsMap, Tail(s))
    BY ONLY <1>8, s \in Seq(OnLine), s # << >>, FlatMapFirst
  <1>10. BringsMap[s[1]] = Brings(s[1]) /\ BringsMap[s[1]] \in Seq(Seq(Int))
    BY <1>1, <1>8 DEF BringsMap
  <1>11. AllBrought(s) = Brings(s[1]) \o AllBrought(u)
    BY <1>2, <1>9, <1>10, AllBroughtMap
  <1>12. AllBrought(u) \in Seq(Seq(Int))
    BY BroughtType
  <1>13. Len(s) = 1 => u = << >>
    <2>1. Len(s) = 1 => Len(u) = 0
      BY <1>3
    <2> QED BY <2>1
  <1> QED BY <1>1, <1>2, <1>5, <1>6, <1>7, <1>10, <1>11, <1>12, <1>13

(* While a command is waited for alone, nothing is left on the way.         *)
LEMMA QuietWay ==
  ASSUME SerprogInv, Working, Running, todo[1].do = "ack", input = << >>
  PROVE  /\ opbuf = << >> /\ AllEffects(OnTheWay) = << >> /\ host.usage = 0 /\ host.data = << >>
         /\ ops = 0
  <1>1. SerprogType /\ Flow /\ Pipeline /\ TodoEnds /\ TodoShape(todo) /\ todo # << >>
    BY DEF SerprogInv, TodoEnds
  <1>2. todo \in Seq(Item) /\ todo[1] \in Item /\ Len(todo) \in Nat \ {0}
    BY <1>1, TailBehind DEF SerprogType
  <1>3. Awaits(todo[1]) /\ 1 \in 1 .. Len(todo)
    BY <1>2 DEF Awaits
  <1>4. host.usage = 0 /\ host.data = << >> /\ ops = 0
    BY <1>1, <1>3 DEF Flow, Waits
  <1>5. PICK r, s, n : r = OnTheWay /\ s = Cmds(todo) /\ n = Len(opbuf)
    OBVIOUS
  <1>6. opbuf \in Seq(ListedCmd) /\ opbuf \in Seq(SerCmd(StoredKinds)) /\ r \in Seq(ListedCmd)
        /\ n \in Nat
    BY <1>1, <1>5, WayType DEF SerprogType
  <1>7. s \in Seq(ListedCmd) /\ Len(s) = Len(todo) /\ \A k \in 1 .. Len(todo) : s[k] = todo[k].cmd
    BY <1>2, <1>5, CmdsType
  <1>8. r = opbuf \o s
    <2>1. OnTheWay = (opbuf \o << >>) \o Cmds(todo)
      BY WayLine DEF Line
    <2>2. opbuf \o << >> = opbuf
      BY <1>6, ConcatEmptySeq
    <2> QED BY <1>5, <2>1, <2>2
  <1>9. Len(r) = n + Len(s) /\ \A k \in 1 .. n + Len(s) :
                                 r[k] = IF k <= n THEN opbuf[k] ELSE s[k - n]
    <2>1. Joined(r, opbuf, s) /\ opbuf \in Seq(ListedCmd) /\ s \in Seq(ListedCmd)
      BY <1>6, <1>7, <1>8 DEF Joined
    <2>2. /\ Len(r) = Len(opbuf) + Len(s)
          /\ \A k \in 1 .. Len(opbuf) + Len(s) :
               r[k] = IF k <= Len(opbuf) THEN opbuf[k] ELSE s[k - Len(opbuf)]
      BY ONLY <2>1, JoinPlaces
    <2> QED BY <1>5, <2>2
  <1>10. todo[1].cmd = NoCmd
    BY <1>2, ItemType
  <1>11. \A k \in 1 .. Len(todo) : ~BufferOp(s[k]) /\ s[k].cmd # "exec"
    <2> SUFFICES ASSUME NEW k \in 1 .. Len(todo) PROVE ~BufferOp(s[k]) /\ s[k].cmd # "exec"
      OBVIOUS
    <2>1. CASE k = 1
      BY <1>7, <1>10, <2>1 DEF BufferOp, NoCmd, Cmd
    <2>2. CASE k # 1
      <3>1. 1 < k
        BY <2>2
      <3> QED BY <1>1, <1>3, <1>7, <3>1 DEF TodoShape
    <2> QED BY <2>1, <2>2
  <1>12. \A k \in 1 .. n : opbuf[k].cmd \in StoredKinds
    BY <1>5, <1>6 DEF SerCmd
  <1>13. \A k \in 1 .. Len(r) : r[k].cmd # "exec"
    <2> SUFFICES ASSUME NEW k \in 1 .. Len(r) PROVE r[k].cmd # "exec"
      OBVIOUS
    <2>1. CASE k <= n
      <3>1. k \in 1 .. n /\ r[k] = opbuf[k]
        BY <1>6, <1>9, <2>1
      <3> QED BY <1>12, <3>1 DEF StoredKinds
    <2>2. CASE ~(k <= n)
      <3>1. k - n \in 1 .. Len(todo) /\ r[k] = s[k - n]
        BY <1>2, <1>6, <1>7, <1>9, <2>2
      <3> QED BY <1>11, <3>1
    <2> QED BY <2>1, <2>2
  <1>14. \A k \in 1 .. Len(r) : ~BufferOp(r[k])
    BY <1>1, <1>4, <1>5, <1>13 DEF Pipeline, Drained
  <1>15. opbuf = << >>
    <2>1. CASE n = 0
      BY <1>5, <1>6, <2>1, NoLength
    <2>2. CASE n # 0
      <3>1. 1 \in 1 .. n /\ 1 \in 1 .. Len(r) /\ r[1] = opbuf[1]
        BY <1>2, <1>6, <1>7, <1>9, <2>2
      <3> QED BY <1>12, <1>14, <3>1 DEF BufferOp, StoredKinds
    <2> QED BY <2>1, <2>2
  <1>16. AllEffects(r) = << >>
    <2>1. EffectsMap \in [ListedCmd -> Seq(Event)]
      <3>1. << >> \in Seq(Event)
        OBVIOUS
      <3> QED BY <3>1, MapTypes
    <2>2. Barren(EffectsMap, r)
      <3>1. \A k \in 1 .. Len(r) : r[k] \in ListedCmd
        BY <1>6
      <3> QED BY <1>14, <3>1, EffectsType DEF Barren, EffectsMap
    <2>3. FlatMap(EffectsMap, r) = << >>
      BY <1>6, <2>1, <2>2, FlatMapNone
    <2> QED BY <1>6, <2>3, AllEffectsMap
  <1> QED BY <1>4, <1>5, <1>15, <1>16

(* The command that is waited for has been acknowledged.                    *)
LEMMA AcknowledgedKeeps ==
  ASSUME SerprogInv, CommandAnswer, AnswerKind = "ack"
  PROVE  SerprogInv'
  <1>1. SerprogType /\ TodoEnds
    BY DEF SerprogInv
  <1>2. /\ TailStep /\ todo[1].do = "ack" /\ Running /\ link /\ answers # << >>
        /\ answers' = Tail(answers) /\ outcome' = "ok" /\ answers[1].kind = "ack"
        /\ UNCHANGED <<got, input, ops>>
    BY DEF CommandAnswer, TailStep, Next1, CallReturns, device, AnswerKind
  <1>3. /\ todo # << >> /\ todo \in Seq(Item) /\ todo[1] \in Item
        /\ todo' = Tail(todo) /\ todo' \in Seq(Item) /\ Behind(todo, todo')
        /\ TodoShape(todo) /\ spc \in {"busy", "stopping"}
        /\ ~(Running' /\ todo'[1].do = "ack")
        /\ spc' = "stopped" => spc = "stopping"
        /\ spc' = "idle" => Len(todo) = 1 /\ spc = "busy"
    BY <1>2, NextEntry
  <1>4. Working
    BY <1>2, <1>3 DEF Working
  <1>5. todo[1].cmd = NoCmd /\ Len(todo) \in Nat \ {0} /\ 1 \in 1 .. Len(todo)
    BY <1>2, <1>3, ItemType, TailBehind
  <1>6. input \in Seq(AnyCmd) /\ ops \in Nat /\ answers \in Seq(OnLine) /\ got \in Seq(Int)
        /\ issued \in Seq(Event)
    BY <1>1 DEF SerprogType
  <1>7. /\ AllEffects(OnTheWay') = AllEffects(OnTheWay)
        /\ \A log \in Seq(Event) : AllOwed(log, OnTheWay') = AllOwed(log, OnTheWay)
        /\ WayKept(OnTheWay) => WayKept(OnTheWay')
        /\ Drained(OnTheWay) => Drained(OnTheWay')
    BY <1>1, <1>2, <1>3, <1>5, ListedOff DEF TailStep
  <1>8. /\ input = << >> /\ naks = {}
        /\ spc = "stopping" => ~drivers
    BY <1>2, <1>4 DEF SerprogInv, AckAlone
  <1>9. Waits(todo)
    BY <1>2, <1>5 DEF Waits, Awaits
  <1>10. spc = "stopping" => Tail(todo) = << >>
    <2> SUFFICES ASSUME spc = "stopping" PROVE Tail(todo) = << >>
      OBVIOUS
    <2>1. todo[Len(todo)].do = "ack"
      BY <1>1 DEF TodoEnds
    <2>2. Len(todo) <= 1 + 1
      BY <1>2, <1>3, <1>5 DEF TodoShape
    <2>3. Len(todo) # 2
      <3> SUFFICES ASSUME Len(todo) = 2 PROVE FALSE
        OBVIOUS
      <3>1. 2 \in 2 .. Len(todo) /\ 2 - 1 = 1
        OBVIOUS
      <3>2. todo[2].do = "ack" <=> todo[2 - 1].do = "docommand"
        BY <1>3, <3>1 DEF TodoShape
      <3> QED BY <1>2, <2>1, <3>1, <3>2
    <2>4. PICK n \in Nat \ {0} : n = Len(todo)
      BY <1>5
    <2>5. n = 1
      BY <2>2, <2>3, <2>4
    <2>6. Len(Tail(todo)) = 0 /\ Tail(todo) \in Seq(Item)
      <3>1. Len(todo) = Len(todo') + 1 /\ Len(todo') \in Nat
        BY <1>3 DEF Behind
      <3>2. PICK m \in Nat : m = Len(todo')
        BY ONLY <3>1
      <3>3. n = m + 1
        BY ONLY <2>4, <3>1, <3>2
      <3>4. m = 0
        BY ONLY <2>5, <3>2, <3>3
      <3>5. Len(todo') = 0
        BY <3>2, <3>4
      <3> QED BY <1>3, <3>5
    <2> QED BY <2>6, NoLength
  <1>11. spc' # "idle"
    <2> SUFFICES ASSUME spc' = "idle" PROVE FALSE
      OBVIOUS
    <2>1. todo[Len(todo)].do = "data"
      BY <1>1, <1>3, <1>9 DEF TodoEnds
    <2> QED BY <1>2, <1>3, <2>1
  <1>12. /\ Tail(answers) \in Seq(OnLine)
         /\ NakedIn(Tail(answers)) => NakedIn(answers)
         /\ NakedIn(answers) => NakedIn(Tail(answers))
         /\ AllBrought(answers) = AllBrought(Tail(answers))
    <2>1. Brings(answers[1]) = << >>
      BY <1>2 DEF Brings
    <2>2. /\ AllBrought(answers) = Brings(answers[1]) \o AllBrought(Tail(answers))
          /\ AllBrought(Tail(answers)) \in Seq(Seq(Int))
      BY <1>2, <1>6, AnswersTail
    <2>3. << >> \o AllBrought(Tail(answers)) = AllBrought(Tail(answers))
      BY <2>2, ConcatEmptySeq
    <2> QED BY <1>2, <1>6, <2>1, <2>2, <2>3, AnswersTail
  <1>13. /\ opbuf = << >> /\ AllEffects(OnTheWay) = << >> /\ host.data = << >> /\ ops = 0
    BY <1>2, <1>4, <1>8, QuietWay
  <1>14. CountsMatch'
    <2>1. Len(input) + NReplies(answers) = ops + 1 /\ Len(input) \in Nat /\ ops \in Nat
      BY <1>2, <1>4, Counts
    <2>2. NReplies(answers) = NReplies(Tail(answers)) + 1 /\ NReplies(Tail(answers)) \in Nat
      BY <1>2, <1>6, RepliesTail
    <2>3. Len(input) + NReplies(Tail(answers)) = ops + 0
      BY ONLY <2>1, <2>2
    <2>4. Len(input') + NReplies(answers') = ops' + 0
      BY <1>2, <2>3
    <2> QED BY <1>3, <2>4, CountsNext
  <1>15. Accounted'
    <2>1. Accounted /\ outcome # "error"
      BY <1>1, <1>2, <1>4 DEF SerprogInv, TodoEnds
    <2>2. Owed' = Owed
      BY <1>2, <1>6, <1>7, <1>12 DEF Owed, TailStep
    <2>3. Len(AllWanted(todo')) = Len(AllWanted(todo))
      BY <1>2, <1>3, WantedFirst
    <2>4. Naked => Naked'
      BY <1>2, <1>12 DEF Naked, NakedIn
    <2> QED BY <1>2, <2>1, <2>2, <2>3, <2>4 DEF Accounted, TailStep
  <1>16. AckAlone'
    BY <1>3 DEF AckAlone
  <1>17. ShutdownFlushes'
    <2>1. issued = (performed \o << >>) \o << >>
      BY <1>1, <1>8, <1>13, ConservedWay DEF SerprogInv
    <2>2. performed \o << >> = performed
      BY <1>1, ConcatEmptySeq DEF SerprogType
    <2>3. performed = issued
      BY <2>1, <2>2
    <2>4. performed' = performed /\ issued' = issued /\ drivers' = drivers
      BY <1>2 DEF TailStep
    <2>5. spc' = "stopped" => ~drivers
      BY <1>3, <1>8
    <2>6. performed' = issued'
      BY <2>3, <2>4
    <2>7. spc' = "stopped" => ~drivers'
      BY <2>4, <2>5
    <2> QED BY <2>6, <2>7 DEF ShutdownFlushes
  <1>18. WayKept(OnTheWay')
    BY <1>4, <1>7 DEF SerprogInv, Pipeline, WayKept
  <1>19. TailTakes
    <2>1. ReadResult'
      BY <1>11 DEF ReadResult
    <2>2. \/ outcome' = "ok" /\ spc = "busy" /\ Waits(todo)
          \/ Tail(todo) = << >>
      BY <1>2, <1>3, <1>9, <1>10
    <2>3. ~\E k \in 1 .. Len(input') : IsImmediate(input'[k])
      <3>1. input' = << >> /\ Len(<< >>) = 0
        BY <1>2, <1>8
      <3> QED BY <3>1
    <2>4. ops' = 0 /\ ops' \in Nat
      BY <1>2, <1>13
    <2>5. answers' \in Seq(OnLine) /\ (NakedIn(answers') => NakedIn(answers))
      BY <1>2, <1>12
    <2> QED BY <1>2, <1>6, <1>7, <1>8, <1>14, <1>15, <1>16, <1>17, <1>18, <2>1, <2>2, <2>3, <2>4,
                 <2>5
        DEF TailTakes
  <1> QED BY <1>2, <1>19, TailKeeps

(* Nothing on the way.                                                      *)
LEMMA NothingOnTheWay ==
  ASSUME opbuf' = << >>, input' = << >>, todo' = << >>
  PROVE  /\ OnTheWay' = << >> /\ AllEffects(OnTheWay') = << >>
         /\ \A log : AllOwed(log, OnTheWay') = << >>
         /\ WayKept(OnTheWay') /\ Drained(OnTheWay')
  <1>1. << >> \in Seq(ListedCmd) /\ << >> \in Seq(Item) /\ << >> \in Seq(Event) /\ Len(<< >>) = 0
    OBVIOUS
  <1>2. Cmds(<< >>) = << >>
    BY DEF Cmds
  <1>3. Sent' = Cmds(<< >>)
    BY DEF Sent, Cmds
  <1>4. OnTheWay' = << >> \o << >> \o << >>
    BY <1>2, <1>3 DEF OnTheWay
  <1>5. OnTheWay' = << >>
    BY <1>4
  <1>6. [k \in DOMAIN << >> |-> Effects(<< >>[k])] = << >>
    OBVIOUS
  <1>7. \A log : [k \in DOMAIN << >> |-> Owes(log, << >>[k])] = << >>
    OBVIOUS
  <1>8. FlattenSeq(<< >>) = << >>
    BY <1>1, FlattenOne
  <1>9. AllEffects(<< >>) = << >>
    BY <1>6, <1>8 DEF AllEffects
  <1>10. \A log : AllOwed(log, << >>) = << >>
    BY <1>7, <1>8 DEF AllOwed
  <1>11. 1 .. 0 = {}
    OBVIOUS
  <1>12. WayKept(<< >>) /\ Drained(<< >>)
    BY <1>1, <1>11 DEF WayKept, Settled, NoneBehind, Drained
  <1> QED BY <1>5, <1>9, <1>10, <1>12

(* No answers left.                                                         *)
LEMMA NoAnswers ==
  /\ AllBrought(<< >>) = << >> /\ NReplies(<< >>) = 0 /\ ~NakedIn(<< >>)
  /\ Len(AllWanted(<< >>)) = 0 /\ << >> \in Seq(OnLine) /\ << >> \in Seq(AnyCmd)
  <1>1. << >> \in Seq(OnLine) /\ << >> \in Seq(Item) /\ << >> \in Seq(AnyCmd)
        /\ << >> \in Seq(Event)
        /\ Len(<< >>) = 0
    OBVIOUS
  <1>2. [k \in DOMAIN << >> |-> Brings(<< >>[k])] = << >>
    OBVIOUS
  <1>3. [k \in DOMAIN << >> |-> IF << >>[k].do = "data" THEN <<0>> ELSE << >>] = << >>
    OBVIOUS
  <1>4. FlattenSeq(<< >>) = << >>
    BY <1>1, FlattenOne
  <1>5. AllBrought(<< >>) = << >> /\ AllWanted(<< >>) = << >>
    BY <1>2, <1>3, <1>4 DEF AllBrought, AllWanted
  <1>6. RepliesIn(<< >>) = {}
    BY DEF RepliesIn
  <1>7. NReplies(<< >>) = 0
    BY <1>6, FS_EmptySet DEF NReplies
  <1>8. ~NakedIn(<< >>)
    BY <1>1 DEF NakedIn
  <1> QED BY <1>1, <1>5, <1>7, <1>8

(* The command that is waited for has been refused.                         *)
LEMMA RefusedKeeps ==
  ASSUME SerprogInv, CommandAnswer, AnswerKind # "ack"
  PROVE  SerprogInv'
  <1>1. SerprogType /\ TodoEnds /\ HostFits
    BY DEF SerprogInv
  <1>2. /\ todo[1].do = "ack" /\ Running /\ link /\ answers # << >>
        /\ answers' = Tail(answers) /\ outcome' = "error" /\ answers[1].kind # "ack"
        /\ todo' = << >> /\ spc' = IF spc = "stopping" THEN "stopped" ELSE "idle"
        /\ UNCHANGED <<serprog, host, ops, asked, got, link, input, opbuf, performed, drivers,
                       issued, naks, refusals>>
    BY DEF CommandAnswer, Next1, CallReturns, Advance, device, AnswerKind
  <1>3. Working
    BY <1>2 DEF Working, Running
  <1>4. answers \in Seq(OnLine) /\ answers[1] \in OnLine
    BY <1>1, <1>2, AnswersTail DEF SerprogType
  <1>5. answers[1].kind \in {"ack", "nak", "data"}
    BY <1>4 DEF OnLine
  <1>6. naks = {} /\ input = << >> /\ Len(answers) = 1 /\ answers[1].kind = "nak"
    BY <1>2, <1>3, <1>5 DEF SerprogInv, AckAlone
  <1>7. answers' = << >> /\ Naked
    BY <1>2, <1>4, <1>6, AnswersTail DEF Naked, NakedIn
  <1>8. opbuf = << >> /\ AllEffects(OnTheWay) = << >> /\ host.usage = 0 /\ host.data = << >>
        /\ ops = 0
    BY <1>2, <1>3, <1>6, QuietWay
  <1>9. opbuf' = << >> /\ input' = << >> /\ todo' = << >>
    BY <1>2, <1>6, <1>8
  <1>10. /\ AllEffects(OnTheWay') = << >> /\ AllOwed(issued', OnTheWay') = << >>
         /\ WayKept(OnTheWay') /\ Drained(OnTheWay')
    BY <1>9, NothingOnTheWay
  <1>11. spc' \in {"idle", "stopped"} /\ ~Running'
    BY <1>2 DEF Running
  <1>12. SerprogType'
    <2>1. << >> \in Seq(Item)
      OBVIOUS
    <2> QED BY <1>1, <1>2, <1>7, <1>9, <1>11, <2>1, NoAnswers DEF SerprogType
  <1>13. HostFits'
    BY <1>1, <1>2 DEF HostFits, BufferFits
  <1>14. TodoEnds'
    BY <1>9, <1>11, NothingEnds, TodoEndsNext
  <1>15. Conserved'
    <2>1. Held' = Held
      BY <1>2 DEF Held
    <2>2. Conserved /\ AllEffects(OnTheWay') = AllEffects(OnTheWay)
      BY <1>8, <1>10 DEF SerprogInv
    <2> QED BY <1>1, <1>2, <1>12, <2>1, <2>2, ConservedWay, ConservedNext
  <1>16. ReadResult'
    BY <1>2 DEF ReadResult
  <1>17. ~Naked'
    BY <1>7, NoAnswers DEF Naked, NakedIn
  <1>18. Flow'
    <2>1. CountsMatch'
      <3>1. Len(input') = 0 /\ NReplies(answers') = 0 /\ ops' = 0
        BY <1>2, <1>7, <1>8, <1>9, NoAnswers
      <3>2. Len(input') + NReplies(answers') = ops' + 0
        BY <3>1
      <3> QED BY <1>11, <3>2, CountsNext
    <2>2. host'.usage = 0 /\ host'.data = << >> /\ naks' = {} /\ ~(ops' > 0)
      BY <1>2, <1>6, <1>8
    <2>3. 1 .. Len(todo') = {}
      BY <1>9
    <2> QED BY <1>11, <2>1, <2>2, <2>3 DEF Flow
  <1>19. Pipeline'
    <2>1. 1 .. Len(input') = {}
      BY <1>9
    <2> QED BY <1>10, <2>1 DEF Pipeline, WayKept
  <1>20. Accounted'
    <2>1. AllBrought(answers') = << >> /\ AllWanted(todo') = AllWanted(<< >>)
      BY <1>7, <1>9, NoAnswers
    <2>2. Owed' = << >> \o << >>
      BY <1>10, <2>1 DEF Owed
    <2>3. Len(Owed') = 0
      BY <2>2
    <2> QED BY <1>2, <2>1, <2>3, NoAnswers DEF Accounted
  <1>21. AckAlone'
    BY <1>11 DEF AckAlone
  <1>22. ShutdownFlushes'
    <2>1. refusals > 0 \/ naks # {}
      BY <1>7 DEF SerprogInv
    <2>2. refusals' = refusals /\ naks = {} /\ refusals \in Nat
      BY <1>1, <1>2, <1>6 DEF SerprogType
    <2>3. refusals' # 0
      BY <2>1, <2>2
    <2> QED BY <2>3 DEF ShutdownFlushes
  <1> QED BY <1>12, <1>13, <1>14, <1>15, <1>16, <1>17, <1>18, <1>19, <1>20, <1>21,
               <1>22 DEF SerprogInv

(* A command that is answered with data, still in the list, is owed them.   *)
LEMMA OwedListed ==
  ASSUME SerprogType, todo # << >>, todo[1].cmd.cmd \in ReadKinds \cup {"spi"}
  PROVE  Len(AllOwed(issued, OnTheWay)) \in Nat \ {0}
  <1>1. opbuf \in Seq(ListedCmd) /\ input \in Seq(ListedCmd) /\ todo \in Seq(Item)
        /\ OnTheWay = Line(opbuf, input, todo) /\ OnTheWay \in Seq(ListedCmd)
        /\ issued \in Seq(Event)
    BY WayType DEF SerprogType
  <1>2. PICK x : x = todo[1].cmd
    OBVIOUS
  <1>3. x \in ListedCmd /\ x.cmd \in ReadKinds \cup {"spi"}
    BY <1>1, <1>2, TailBehind, ItemType
  <1>4. PICK a \in Seq(ListedCmd), b \in Seq(ListedCmd) :
          Without(Line(opbuf, input, todo), a, todo[1].cmd, b, Line(opbuf, input, Tail(todo)))
    BY <1>1, LineListed
  <1>5. PICK r, q : r = OnTheWay /\ q = Line(opbuf, input, Tail(todo))
    OBVIOUS
  <1>6. Without(r, a, x, b, q)
    BY <1>1, <1>2, <1>4, <1>5
  <1>7. PICK E : E = OwesMap(issued)
    OBVIOUS
  <1>8. E \in [ListedCmd -> Seq(Seq(Int))]
    BY <1>1, <1>7, MapTypes
  <1>9. CountedAt(E, r, a, x, b, q)
    BY ONLY <1>3, <1>6, <1>8, a \in Seq(ListedCmd), b \in Seq(ListedCmd), Counted
  <1>10. PICK ea, eb, ex, er : ea = FlatMap(E, a) /\ eb = FlatMap(E, b) /\ ex = E[x]
         /\ er = FlatMap(E, r)
    OBVIOUS
  <1>11. ea \in Seq(Seq(Int)) /\ eb \in Seq(Seq(Int)) /\ ex \in Seq(Seq(Int))
    BY <1>3, <1>8, <1>10, FlatMapType
  <1>12. ex = <<Promise(issued, x)>>
    BY <1>3, <1>7, <1>10 DEF OwesMap, Owes
  <1>13. Len(ex) = 1
    BY <1>12
  <1>14. er = (ea \o ex) \o eb
    BY <1>9, <1>10 DEF CountedAt
  <1>15. ea \o ex \in Seq(Seq(Int)) /\ Len(ea \o ex) = Len(ea) + Len(ex)
    BY <1>11, ConcatProperties
  <1>16. Len(er) = Len(ea \o ex) + Len(eb)
    BY <1>11, <1>14, <1>15, ConcatProperties
  <1>17. Len(ea) \in Nat /\ Len(eb) \in Nat
    BY <1>11
  <1>18. Len(er) \in Nat \ {0}
    BY ONLY <1>13, <1>15, <1>16, <1>17
  <1>19. AllOwed(issued, OnTheWay) = er
    BY <1>1, <1>5, <1>7, <1>10, AllOwedMap
  <1> QED BY <1>18, <1>19

(* A list that waits for no data, and one of at most three entries that     *)
(* starts with a command.                                                   *)
LEMMA WantedNone ==
  ASSUME NEW t \in Seq(Item), \A k \in 1 .. Len(t) : t[k].do # "data"
  PROVE  Len(AllWanted(t)) = 0
  <1>1. WantsMap \in [Item -> Seq({0})]
    <2>1. << >> \in Seq(Event)
      OBVIOUS
    <2> QED BY <2>1, MapTypes
  <1>2. Barren(WantsMap, t)
    <2>1. \A k \in 1 .. Len(t) : t[k] \in Item
      OBVIOUS
    <2> QED BY <2>1 DEF Barren, WantsMap
  <1>3. FlatMap(WantsMap, t) = << >>
    BY <1>1, <1>2, FlatMapNone
  <1> QED BY <1>3, AllWantedMap

(* Behind a command at most one answer with bytes is waited for.            *)
LEMMA WantedShort ==
  ASSUME NEW t \in Seq(Item), t # << >>, TodoShape(t), t[1].do = "docommand"
  PROVE  Len(AllWanted(t)) \in {0, 1}
  <1>0. Behind(t, Tail(t)) /\ Tail(t) \in Seq(Item)
    BY TailBehind
  <1>1. PICK u \in Seq(Item) : u = Tail(t) /\ Behind(t, u)
    BY <1>0
  <1>20. Len(u) \in Nat /\ Len(t) = Len(u) + 1
    BY <1>1 DEF Behind
  <1>2. PICK n \in Nat : n = Len(u) /\ Len(t) = n + 1
    BY <1>20
  <1>3. 1 \in 1 .. Len(t)
    BY <1>2
  <1>4. n + 1 <= 3
    BY <1>2, <1>3 DEF TodoShape
  <1>5. Len(AllWanted(t)) = Len(AllWanted(u)) /\ Len(AllWanted(u)) \in Nat
        /\ Len(AllWanted(<< >>)) = 0
    <2>1. /\ Len(AllWanted(t)) = (IF t[1].do = "data" THEN 1 ELSE 0) + Len(AllWanted(u))
          /\ Len(AllWanted(u)) \in Nat /\ Len(AllWanted(<< >>)) = 0
      BY <1>1, WantedFirst
    <2> QED BY <2>1
  <1>6. CASE u = << >>
    BY <1>5, <1>6
  <1>7. CASE u # << >>
    <2>1. n # 0
      BY <1>2, <1>7
    <2>2. u[1] = t[2] /\ 2 \in 2 .. Len(t) /\ 2 - 1 = 1
      BY <1>1, <1>2, <2>1, SecondEntry
    <2>3. t[2].do = "ack" <=> t[2 - 1].do = "docommand"
      BY <2>2 DEF TodoShape
    <2>4. u[1].do = "ack"
      BY <2>2, <2>3
    <2>5. PICK v \in Seq(Item) : v = Tail(u) /\ Behind(u, v)
      BY <1>7, TailBehind
    <2>6. PICK m \in Nat : m = Len(v) /\ n = m + 1
      BY <1>2, <2>5 DEF Behind
    <2>7. m <= 1
      BY <1>4, <2>6
    <2>8. Len(AllWanted(u)) = Len(AllWanted(v)) /\ Len(AllWanted(v)) \in Nat
      <3>1. /\ Len(AllWanted(u)) = (IF u[1].do = "data" THEN 1 ELSE 0) + Len(AllWanted(v))
            /\ Len(AllWanted(v)) \in Nat
        BY <1>7, <2>5, WantedFirst
      <3> QED BY <2>4, <3>1
    <2>9. CASE v = << >>
      BY <1>5, <2>8, <2>9
    <2>10. CASE v # << >>
      <3>1. PICK w \in Seq(Item) : w = Tail(v) /\ Behind(v, w)
        BY <2>10, TailBehind
      <3>2. Len(w) = 0
        <4>1. Len(w) \in Nat /\ m = Len(w) + 1
          BY <2>6, <3>1 DEF Behind
        <4> QED BY <2>7, <4>1
      <3>3. w = << >>
        BY <3>2, NoLength
      <3>4. Len(AllWanted(v)) = (IF v[1].do = "data" THEN 1 ELSE 0) + 0
        BY <1>5, <2>10, <3>1, <3>3, WantedFirst
      <3> QED BY <1>5, <2>8, <3>4
    <2> QED BY <2>9, <2>10
  <1> QED BY <1>6, <1>7

(* The first answer brings data when there is one that is not a reply.      *)
LEMMA BroughtFirst ==
  ASSUME NEW s \in Seq(OnLine), s # << >>, NReplies(s) = 0
  PROVE  /\ s[1].kind = "data" /\ Brings(s[1]) = <<s[1].data>> /\ s[1].data \in Seq(Int)
         /\ ~NakedIn(s) /\ Len(AllBrought(s)) \in Nat \ {0}
  <1>1. /\ s[1] \in OnLine /\ Len(s) \in Nat \ {0}
        /\ AllBrought(s) = Brings(s[1]) \o AllBrought(Tail(s))
        /\ AllBrought(Tail(s)) \in Seq(Seq(Int)) /\ Brings(s[1]) \in Seq(Seq(Int))
    BY AnswersTail
  <1>2. \A k \in 1 .. Len(s) : s[k].kind = "data"
    BY RepliesNone
  <1>3. s[1].kind = "data" /\ ~NakedIn(s)
    BY <1>1, <1>2 DEF NakedIn
  <1>4. s[1].data \in Seq(Int)
    BY <1>1, <1>3 DEF OnLine
  <1>5. Brings(s[1]) = <<s[1].data>>
    BY <1>3 DEF Brings
  <1>6. Len(AllBrought(s)) = Len(Brings(s[1])) + Len(AllBrought(Tail(s)))
    BY <1>1, ConcatProperties
  <1>7. Len(Brings(s[1])) = 1 /\ Len(AllBrought(Tail(s))) \in Nat
    BY <1>1, <1>5
  <1> QED BY <1>3, <1>4, <1>5, <1>6, <1>7

(* Nothing is left on the line to the device when the driver turns to what  *)
(* it waits for, and every answer there brings data.                        *)
LEMMA QuietLine ==
  ASSUME SerprogInv, Working, Running, Awaits(todo[1]), todo[1].do # "ack"
  PROVE  input = << >> /\ NReplies(answers) = 0 /\ ops = 0 /\ ~Naked /\ naks = {}
  <1>1. SerprogType /\ Flow
    BY DEF SerprogInv
  <1>2. ops = 0
    BY <1>1 DEF Flow
  <1>3. /\ Len(input) + NReplies(answers) = ops + 0
        /\ Len(input) \in Nat /\ NReplies(answers) \in Nat
    BY Counts
  <1>4. Len(input) = 0 /\ NReplies(answers) = 0
    BY ONLY <1>2, <1>3
  <1>5. input = << >>
    BY <1>1, <1>4, NoLength DEF SerprogType
  <1>6. ~Naked
    BY <1>1, <1>4, RepliesNone DEF SerprogType, Naked
  <1> QED BY <1>1, <1>2, <1>4, <1>5, <1>6 DEF Flow

(* Before a command that is waited for goes out, no answer is left either.  *)
LEMMA NoOlderAnswers ==
  ASSUME SerprogInv, Working, Running, todo[1].do = "docommand"
  PROVE  answers = << >>
  <1>1. SerprogType /\ TodoEnds /\ TodoShape(todo) /\ todo # << >> /\ Accounted
    BY DEF SerprogInv, TodoEnds
  <1>2. todo \in Seq(Item) /\ todo[1] \in Item /\ Len(todo) \in Nat \ {0} /\ answers \in Seq(OnLine)
    BY <1>1, TailBehind DEF SerprogType
  <1>3. NReplies(answers) = 0 /\ ~Naked
    BY QuietLine DEF Awaits
  <1>4. Len(Owed) = Len(AllWanted(todo))
    BY <1>1, <1>3 DEF Accounted
  <1>5. issued \in Seq(Event) /\ OnTheWay \in Seq(ListedCmd)
    BY <1>1, WayType DEF SerprogType
  <1>6. AllBrought(answers) \in Seq(Seq(Int)) /\ AllOwed(issued, OnTheWay) \in Seq(Seq(Int))
    BY <1>2, <1>5, BroughtType, OwedType
  <1>7. Len(Owed) = Len(AllBrought(answers)) + Len(AllOwed(issued, OnTheWay))
    BY <1>6, ConcatProperties DEF Owed
  <1>8. Len(AllBrought(answers)) \in Nat /\ Len(AllOwed(issued, OnTheWay)) \in Nat
    BY <1>6
  <1>9. Len(AllBrought(answers)) = 0
    <2>1. todo[1].cmd.cmd \in {"spi", "pin"}
      BY <1>2, ItemType DEF SerCmd
    <2>2. CASE todo[1].cmd.cmd = "spi"
      <3>1. Len(AllOwed(issued, OnTheWay)) \in Nat \ {0}
        BY <1>1, <2>2, OwedListed
      <3>2. Len(AllWanted(todo)) \in {0, 1}
        BY <1>1, <1>2, WantedShort
      <3> QED BY ONLY <1>4, <1>7, <1>8, <3>1, <3>2
    <2>3. CASE todo[1].cmd.cmd = "pin"
      <3>1. 1 \in 1 .. Len(todo)
        BY <1>2
      <3>2. (todo[1].cmd.cmd = "pin") = (spc = "stopping")
        BY <1>1, <3>1 DEF TodoEnds
      <3>3. \A k \in 1 .. Len(todo) : todo[k].do # "data"
        BY <1>1, <2>3, <3>2 DEF TodoEnds
      <3>4. Len(AllWanted(todo)) = 0
        BY <1>2, <3>3, WantedNone
      <3>5. PICK m \in Nat, n \in Nat : m = Len(AllBrought(answers))
            /\ n = Len(AllOwed(issued, OnTheWay))
        BY <1>8
      <3>6. m + n = 0
        BY ONLY <1>4, <1>7, <3>4, <3>5
      <3> QED BY <3>5, <3>6
    <2> QED BY <2>1, <2>2, <2>3
  <1> QED BY <1>2, <1>3, <1>9, BroughtFirst

(* The host sends a command it will wait for.                               *)
LEMMA SendCommandKeeps ==
  ASSUME SerprogInv, SendCommand
  PROVE  SerprogInv'
  <1>1. SerprogType
    BY DEF SerprogInv
  <1>2. /\ TailStep /\ todo[1].do = "docommand" /\ Running /\ link
        /\ input' = Append(input, todo[1].cmd)
        /\ UNCHANGED <<got, outcome, answers, ops>>
    BY DEF SendCommand, TailStep, Next1, device
  <1>3. /\ todo # << >> /\ todo \in Seq(Item) /\ todo[1] \in Item
        /\ todo' = Tail(todo) /\ todo' \in Seq(Item) /\ Behind(todo, todo')
        /\ TodoShape(todo) /\ spc \in {"busy", "stopping"}
        /\ Running' => todo'[1].do = "ack"
        /\ spc' # "stopped"
        /\ ReadResult'
        /\ spc' \in {"busy", "stopping"} => spc' = spc
    BY <1>2, NextEntry
  <1>4. Working
    BY <1>2, <1>3 DEF Working
  <1>5. todo[1].cmd \in SerCmd({"spi", "pin"}) /\ todo[1].cmd \in AnyCmd
    BY <1>2, <1>3, ItemType, WayKinds
  <1>6. input \in Seq(AnyCmd) /\ ops \in Nat /\ answers \in Seq(OnLine) /\ got \in Seq(Int)
        /\ outcome \in {"none", "ok", "error"}
    BY <1>1 DEF SerprogType
  <1>7. input = << >> /\ NReplies(answers) = 0 /\ ops = 0 /\ naks = {} /\ answers = << >>
    BY <1>2, <1>4, QuietLine, NoOlderAnswers DEF Awaits
  <1>8. input' = <<todo[1].cmd>> /\ input' \in Seq(AnyCmd)
    BY <1>2, <1>5, <1>7
  <1>9. Len(input') = 1 /\ input'[1] = todo[1].cmd
    BY <1>8
  <1>10. OnTheWay' = OnTheWay
    BY <1>1, <1>2, <1>3, ListedSent DEF TailStep
  <1>11. Len(todo) \in Nat \ {0} /\ Behind(todo, Tail(todo))
    BY <1>3, TailBehind
  <1>12. Len(todo) # 1
    <2> SUFFICES ASSUME Len(todo) = 1 PROVE FALSE
      OBVIOUS
    <2>1. 1 \in 1 .. Len(todo)
      BY <1>11
    <2>2. spc = "stopping" => todo[Len(todo)].do = "ack"
      BY DEF SerprogInv, TodoEnds
    <2>3. Waits(todo)
      BY <1>2, <2>1 DEF Waits, Awaits
    <2>4. spc = "busy" => todo[Len(todo)].do = "data"
      BY <2>3 DEF SerprogInv, TodoEnds
    <2> QED BY <1>2, <1>3, <2>2, <2>4
  <1>13. Running' /\ todo'[1].do = "ack" /\ spc' = spc
    <2>1. Tail(todo) # << >>
      <3> SUFFICES ASSUME Tail(todo) = << >> PROVE FALSE
        OBVIOUS
      <3>1. Len(Tail(todo)) = 0 /\ Len(todo) = Len(Tail(todo)) + 1
        BY <1>11 DEF Behind
      <3> QED BY <1>12, <3>1
    <2>2. spc' = spc
      BY <1>2, <2>1 DEF TailStep, Advance
    <2>3. Running'
      BY <1>3, <2>2 DEF Running
    <2> QED BY <1>3, <2>2, <2>3
  <1>14. CountsMatch'
    <2>1. Len(input') + NReplies(answers') = ops' + 1
      BY <1>2, <1>7, <1>9
    <2> QED BY <1>13, <2>1, CountsNext
  <1>15. WayKept(OnTheWay') /\ (Drained(OnTheWay) => Drained(OnTheWay'))
    BY <1>4, <1>10 DEF SerprogInv, Pipeline, WayKept
  <1>16. Expects(todo')
    <2>1. Len(todo) = Len(todo') + 1 /\ Len(todo') \in Nat
      BY <1>3 DEF Behind
    <2>2. Len(todo') # 0
      BY ONLY <1>12, <2>1
    <2>3. 1 \in 1 .. Len(todo')
      BY <2>1, <2>2
    <2> QED BY <1>13, <2>3 DEF Expects, IsAnswer
  <1>17. Accounted'
    <2>1. Accounted
      BY <1>4 DEF SerprogInv
    <2>2. Owed' = Owed
      BY <1>2, <1>10 DEF Owed, TailStep
    <2>3. Len(AllWanted(todo')) = Len(AllWanted(todo))
      BY <1>2, <1>3, WantedFirst
    <2> QED BY <1>2, <2>1, <2>2, <2>3 DEF Accounted, Naked, TailStep
  <1>18. AckAlone'
    <2>1. (todo[1].cmd.cmd = "pin") = (spc = "stopping")
      <3>1. 1 \in 1 .. Len(todo)
        BY <1>11
      <3> QED BY <1>2, <3>1 DEF SerprogInv, TodoEnds
    <2>2. input'[1].cmd = IF spc' = "stopping" THEN "pin" ELSE "spi"
      BY <1>5, <1>9, <1>13, <2>1 DEF SerCmd
    <2>3. naks' = {} /\ answers' = << >>
      BY <1>2, <1>7 DEF TailStep
    <2> QED BY <1>9, <2>2, <2>3 DEF AckAlone
  <1>19. ShutdownFlushes'
    BY <1>3 DEF ShutdownFlushes
  <1>20. TailTakes
    <2>1. NakedIn(answers') => NakedIn(answers)
      BY <1>2
    <2>2. ops' = 0 /\ ~(ops' > 0)
      BY <1>2, <1>7
    <2>3. naks = {} /\ AllEffects(OnTheWay') = AllEffects(OnTheWay)
      BY <1>7, <1>10
    <2> QED BY <1>2, <1>3, <1>6, <1>8, <1>14, <1>15, <1>16, <1>17, <1>18, <1>19, <2>1, <2>2,
               <2>3 DEF TailTakes
  <1> QED BY <1>2, <1>20, TailKeeps

(* Taking the first of the pieces that are owed.                            *)
LEMMA OwedTaken ==
  ASSUME NEW d \in Seq(Int), NEW s \in Seq(Seq(Int)), NEW g \in Seq(Int)
  PROVE  /\ <<d>> \o s \in Seq(Seq(Int)) /\ Len(<<d>> \o s) = 1 + Len(s) /\ Len(s) \in Nat
         /\ g \o FlattenSeq(<<d>> \o s) = (g \o d) \o FlattenSeq(s)
  <1>1. PICK o \in Seq(Seq(Int)) : o = <<d>> /\ Len(o) = 1
    BY Single
  <1>2. o \o s \in Seq(Seq(Int)) /\ Len(o \o s) = Len(o) + Len(s)
    BY ConcatProperties
  <1>3. FlattenSeq(o \o s) = FlattenSeq(o) \o FlattenSeq(s)
    BY FlattenConcat
  <1>4. FlattenSeq(o) = d
    BY <1>1, FlattenOne
  <1>5. PICK f \in Seq(Int) : f = FlattenSeq(s)
    BY FlattenType
  <1>6. AssocAt(g, d, f)
    BY Assoc
  <1>7. FlattenSeq(<<d>> \o s) = d \o f
    BY <1>1, <1>3, <1>4, <1>5
  <1>8. g \o FlattenSeq(<<d>> \o s) = (g \o d) \o FlattenSeq(s)
    BY <1>5, <1>6, <1>7 DEF AssocAt
  <1>9. Len(s) \in Nat
    OBVIOUS
  <1>10. <<d>> \o s \in Seq(Seq(Int)) /\ Len(<<d>> \o s) = 1 + Len(s)
    BY <1>1, <1>2
  <1> QED BY <1>8, <1>9, <1>10

(* What a call may have asked for, and gets.                                *)
LEMMA PromiseKept ==
  ASSUME NEW log \in Seq(Event), NEW c \in Wants
  PROVE  /\ Promise(log, c) = IF c.cmd = "spi" THEN <<Len(log)>> ELSE Contents(log, c.addr, c.len)
         /\ Promise(log, c) \in Seq(Int)
  <1>1. CASE c = NoCmd
    <2>1. c.cmd = "none" /\ c.addr = None /\ c.len = 0
      BY <1>1 DEF NoCmd, Cmd
    <2>2. Promise(log, c) = << >>
      BY <2>1 DEF Promise, ReadKinds
    <2>3. Contents(log, c.addr, 0) \in Seq(Int) /\ Len(Contents(log, c.addr, 0)) = 0
      BY ContentsType
    <2>4. Contents(log, c.addr, 0) = << >>
      BY <2>3, NoLength
    <2> QED BY <2>1, <2>2, <2>4
  <1>2. CASE c # NoCmd
    <2>1. c.cmd \in ReadKinds \cup {"spi"} /\ c.len \in Nat
      BY <1>2 DEF Wants
    <2>2. c.cmd = "spi" => c.cmd \notin ReadKinds
      BY DEF ReadKinds
    <2>3. c.cmd \in ReadKinds => Promise(log, c) = Contents(log, c.addr, c.len)
      BY DEF Promise, ReadKinds
    <2>4. c.cmd = "spi" => Promise(log, c) = <<Len(log)>>
      BY DEF Promise, ReadKinds
    <2>5. Contents(log, c.addr, c.len) \in Seq(Int)
      BY <2>1, ContentsType
    <2>6. Len(log) \in Int
      OBVIOUS
    <2>7. <<Len(log)>> \in Seq(Int)
      BY <2>6, Single
    <2> QED BY <2>1, <2>2, <2>3, <2>4, <2>5, <2>7
  <1> QED BY <1>1, <1>2

(* The host reads bytes.                                                    *)
LEMMA ReadDataKeeps ==
  ASSUME SerprogInv, ReadData
  PROVE  SerprogInv'
  <1>1. SerprogType /\ TodoEnds
    BY DEF SerprogInv
  <1>2. /\ TailStep /\ todo[1].do = "data" /\ Running /\ link /\ answers # << >>
        /\ answers' = Tail(answers) /\ outcome' = "ok" /\ got' = got \o answers[1].data
        /\ UNCHANGED <<input, ops>>
    BY DEF ReadData, TailStep, Next1, CallReturns, device
  <1>3. /\ todo # << >> /\ todo \in Seq(Item) /\ todo[1] \in Item
        /\ todo' = Tail(todo) /\ todo' \in Seq(Item) /\ Behind(todo, todo')
        /\ TodoShape(todo) /\ spc \in {"busy", "stopping"}
        /\ ~(Running' /\ todo'[1].do = "ack")
        /\ spc' # "stopped"
        /\ spc' = "idle" => Len(todo) = 1 /\ spc = "busy"
    BY <1>2, NextEntry
  <1>4. Working
    BY <1>2, <1>3 DEF Working
  <1>5. todo[1].cmd = NoCmd /\ Len(todo) \in Nat \ {0} /\ 1 \in 1 .. Len(todo)
    BY <1>2, <1>3, ItemType, TailBehind
  <1>6. input \in Seq(AnyCmd) /\ ops \in Nat /\ answers \in Seq(OnLine) /\ got \in Seq(Int)
        /\ issued \in Seq(Event) /\ asked \in Wants
    BY <1>1 DEF SerprogType
  <1>7. /\ AllEffects(OnTheWay') = AllEffects(OnTheWay)
        /\ \A log \in Seq(Event) : AllOwed(log, OnTheWay') = AllOwed(log, OnTheWay)
        /\ WayKept(OnTheWay) => WayKept(OnTheWay')
        /\ Drained(OnTheWay) => Drained(OnTheWay')
    BY <1>1, <1>2, <1>3, <1>5, ListedOff DEF TailStep
  <1>8. input = << >> /\ NReplies(answers) = 0 /\ ops = 0 /\ ~Naked /\ naks = {}
    BY <1>2, <1>4, QuietLine DEF Awaits
  <1>9. spc = "busy" /\ Waits(todo)
    <2>1. spc # "stopping"
      BY <1>1, <1>2, <1>5 DEF TodoEnds
    <2> QED BY <1>2, <1>3, <1>5, <2>1 DEF Waits, Awaits
  <1>10. PICK d \in Seq(Int) : d = answers[1].data
    BY <1>2, <1>6, <1>8, BroughtFirst
  <1>11. answers[1].kind = "data" /\ Brings(answers[1]) = <<d>>
    BY <1>2, <1>6, <1>8, <1>10, BroughtFirst
  <1>12. /\ Tail(answers) \in Seq(OnLine)
         /\ NakedIn(Tail(answers)) => NakedIn(answers)
         /\ AllBrought(answers) = <<d>> \o AllBrought(Tail(answers))
         /\ AllBrought(Tail(answers)) \in Seq(Seq(Int))
    BY <1>2, <1>6, <1>11, AnswersTail
  <1>13. OnTheWay \in Seq(ListedCmd)
    BY <1>1, WayType
  <1>14. PICK o, w : o = AllBrought(Tail(answers)) /\ w = AllOwed(issued, OnTheWay)
    OBVIOUS
  <1>15. o \in Seq(Seq(Int)) /\ w \in Seq(Seq(Int))
    BY <1>6, <1>12, <1>13, <1>14, OwedType
  <1>16. PICK s \in Seq(Seq(Int)) : s = o \o w
    BY <1>15, ConcatProperties
  <1>17. Owed' = s
    BY <1>2, <1>6, <1>7, <1>14, <1>16 DEF Owed, TailStep
  <1>18. Owed = <<d>> \o s
    <2>1. PICK e \in Seq(Seq(Int)) : e = <<d>>
      BY Single
    <2>2. AssocAt(e, o, w)
      BY <1>15, Assoc
    <2> QED BY <1>12, <1>14, <1>16, <2>1, <2>2 DEF AssocAt, Owed
  <1>19. /\ Len(Owed) = 1 + Len(s) /\ Len(s) \in Nat
         /\ got \o FlattenSeq(Owed) = (got \o d) \o FlattenSeq(s)
    BY <1>6, <1>18, OwedTaken
  <1>20. /\ Len(Owed) = Len(AllWanted(todo))
         /\ got \o FlattenSeq(Owed) = Promise(issued, asked)
    BY <1>1, <1>2, <1>4, <1>8 DEF SerprogInv, Accounted, TodoEnds
  <1>21. /\ Len(AllWanted(todo)) = 1 + Len(AllWanted(todo')) /\ Len(AllWanted(todo')) \in Nat
         /\ Len(AllWanted(<< >>)) = 0
    BY <1>2, <1>3, WantedFirst
  <1>22. Len(s) = Len(AllWanted(todo'))
    <2>1. PICK m \in Nat, n \in Nat : m = Len(s) /\ n = Len(AllWanted(todo'))
      BY <1>19, <1>21
    <2>2. 1 + m = 1 + n
      BY <1>19, <1>20, <1>21, <2>1
    <2> QED BY <2>1, <2>2
  <1>23. got' = got \o d
    BY <1>2, <1>10
  <1>24. got' \in Seq(Int)
    BY <1>6, <1>23, ConcatProperties
  <1>25. got' \o FlattenSeq(s) = Promise(issued, asked)
    BY <1>19, <1>20, <1>23
  <1>26. Accounted'
    BY <1>2, <1>17, <1>22, <1>25 DEF Accounted, TailStep
  <1>27. ReadResult'
    <2> SUFFICES ASSUME spc' = "idle"
                 PROVE  got' = IF asked.cmd = "spi" THEN <<Len(issued)>>
                               ELSE Contents(issued, asked.addr, asked.len)
      BY <1>2 DEF ReadResult, TailStep
    <2>1. todo' = << >>
      <3>1. PICK n \in Nat : n = Len(todo') /\ Len(todo) = n + 1
        BY <1>3 DEF Behind
      <3>2. Len(todo) = 1
        BY <1>3
      <3>3. n + 1 = 1
        BY <3>1, <3>2
      <3>4. n = 0
        BY <3>3
      <3> QED BY <1>3, <3>1, <3>4, NoLength
    <2>2. Len(s) = 0
      BY <1>21, <1>22, <2>1
    <2>3. s = << >>
      BY <2>2, NoLength
    <2>4. FlattenSeq(s) = << >>
      BY <1>10, <2>3, FlattenOne
    <2>5. got' \o << >> = got'
      BY <1>24, ConcatEmptySeq
    <2>6. got' = Promise(issued, asked)
      BY <1>25, <2>4, <2>5
    <2> QED BY <1>6, <2>6, PromiseKept
  <1>28. CountsMatch'
    <2>1. NReplies(answers) = NReplies(Tail(answers)) + 0 /\ NReplies(Tail(answers)) \in Nat
      BY <1>2, <1>6, <1>11, RepliesTail
    <2>2. NReplies(answers') = 0
      BY <1>2, <1>8, <2>1
    <2>3. Len(input') = 0 /\ ops' = 0
      BY <1>2, <1>8
    <2>4. Len(input') + NReplies(answers') = ops' + 0
      BY <2>2, <2>3
    <2> QED BY <1>3, <2>4, CountsNext
  <1>29. WayKept(OnTheWay')
    BY <1>4, <1>7 DEF SerprogInv, Pipeline, WayKept
  <1>30. AckAlone' /\ ShutdownFlushes'
    BY <1>3 DEF AckAlone, ShutdownFlushes
  <1>31. TailTakes
    <2>1. ~\E k \in 1 .. Len(input') : IsImmediate(input'[k])
      <3>1. input' = << >> /\ Len(<< >>) = 0
        BY <1>2, <1>8
      <3> QED BY <3>1
    <2>2. ops' = 0 /\ ops' \in Nat /\ ~(ops' > 0)
      BY <1>2, <1>8
    <2>3. answers' \in Seq(OnLine) /\ input' \in Seq(AnyCmd)
          /\ (NakedIn(answers') => NakedIn(answers))
      BY <1>2, <1>6, <1>12
    <2> QED BY <1>2, <1>7, <1>8, <1>9, <1>24, <1>26, <1>27, <1>28, <1>29, <1>30, <2>1, <2>2, <2>3
        DEF TailTakes
  <1> QED BY <1>2, <1>31, TailKeeps

(* The list behind a flush is the list.                                     *)
LEMMA FlushTail ==
  ASSUME NEW t \in Seq(Item)
  PROVE  Tail(<<Flush>> \o t) = t /\ <<Flush>> \o t # << >>
  <1>1. PICK u : u = <<Flush>> \o t
    OBVIOUS
  <1>2. Behind(u, t) /\ u \in Seq(Item)
    BY <1>1, FlushBehind
  <1>3. PICK n \in Nat : n = Len(t)
    OBVIOUS
  <1>4. Len(u) = n + 1 /\ \A k \in 1 .. n : t[k] = u[k + 1]
    BY <1>2, <1>3 DEF Behind
  <1>5. u # << >>
    BY <1>4
  <1>6. Behind(u, Tail(u)) /\ Tail(u) \in Seq(Item)
    BY <1>2, <1>5, TailBehind
  <1>7. Len(Tail(u)) = n /\ \A k \in 1 .. n : Tail(u)[k] = u[k + 1]
    BY <1>4, <1>6 DEF Behind
  <1>8. \A k \in 1 .. n : Tail(u)[k] = t[k]
    BY <1>4, <1>7
  <1>9. Tail(u) = t
    BY <1>3, <1>6, <1>7, <1>8, SeqEqual
  <1> QED BY <1>1, <1>5, <1>9

(* An entry that sends nothing is put before the list.                      *)
LEMMA FlushListed ==
  ASSUME SerprogType, todo' = <<Flush>> \o todo, UNCHANGED <<opbuf, input>>
  PROVE  /\ AllEffects(OnTheWay') = AllEffects(OnTheWay)
         /\ \A log \in Seq(Event) : AllOwed(log, OnTheWay') = AllOwed(log, OnTheWay)
         /\ WayKept(OnTheWay) => WayKept(OnTheWay')
         /\ Drained(OnTheWay) => Drained(OnTheWay')
  <1>1. opbuf \in Seq(ListedCmd) /\ input \in Seq(ListedCmd) /\ todo \in Seq(Item)
        /\ OnTheWay = Line(opbuf, input, todo)
    BY WayType DEF SerprogType
  <1>2. PICK t \in Seq(Item) : t = <<Flush>> \o todo /\ t # << >> /\ Tail(t) = todo /\ t[1] = Flush
    BY <1>1, FlushBehind, FlushTail
  <1>3. OnTheWay' = Line(opbuf, input, t)
    BY <1>2 DEF OnTheWay, Line, Sent, Cmds
  <1>4. PICK a \in Seq(ListedCmd), b \in Seq(ListedCmd) :
          Without(Line(opbuf, input, t), a, t[1].cmd, b, Line(opbuf, input, Tail(t)))
    BY <1>1, <1>2, LineListed
  <1>5. PICK r, q, x : r = OnTheWay' /\ q = OnTheWay /\ x = NoCmd
    OBVIOUS
  <1>6. t[1].cmd = x
    BY <1>2, <1>5 DEF Flush
  <1>7. Without(r, a, x, b, q)
    BY <1>1, <1>2, <1>3, <1>4, <1>5, <1>6
  <1>8. x \in ListedCmd /\ x.cmd = "none"
    BY <1>5 DEF NoCmd, Cmd, ListedCmd, SerCmd, None, ReadKinds, Streamed, StoredKinds
  <1>9. ~BufferOp(x) /\ x.cmd \notin ReadKinds \cup {"spi"} /\ ~IsImmediate(x)
    BY <1>8 DEF BufferOp, ReadKinds, IsImmediate
  <1>10. /\ AllEffects(r) = AllEffects(q)
         /\ \A log \in Seq(Event) : AllOwed(log, r) = AllOwed(log, q)
    BY <1>7, <1>8, <1>9, UnheldOff
  <1>11. Removed(r, Len(a) + 1, q) /\ r[Len(a) + 1] = x
    BY <1>7, <1>8, WithoutIndex
  <1>12. PICK p : p = Len(a) + 1
    OBVIOUS
  <1>13. Removed(r, p, q) /\ ~BufferOp(r[p]) /\ ~IsImmediate(r[p])
    BY <1>9, <1>11, <1>12
  <1>14. /\ Settled(q) => Settled(r)
         /\ NoneBehind(q) => NoneBehind(r)
         /\ Drained(q) => Drained(r)
    BY <1>13, InsertKeeps
  <1> QED BY <1>5, <1>10, <1>14 DEF WayKept

(* The list with a flush before it.                                         *)
LEMMA ListBefore ==
  ASSUME NEW t, NEW u, Behind(t, u), t[1] = Flush
  PROVE  /\ Waits(t) => Waits(u)
         /\ StreamsFlush(u) => StreamsFlush(t)
         /\ Flushes(t)
         /\ Expects(u) => Expects(t)
  <1>1. PICK n \in Nat : n = Len(u) /\ Len(t) = n + 1 /\ \A k \in 1 .. n : u[k] = t[k + 1]
    BY DEF Behind
  <1>2. t[1].do = "flush" /\ ~Awaits(t[1])
    BY DEF Flush, Awaits
  <1>3. 1 \in 1 .. n + 1 /\ \A k \in 1 .. n : k + 1 \in 1 .. n + 1
    OBVIOUS
  <1>4. Waits(t) => Waits(u)
    BY <1>2, ListBehind
  <1>5. Flushes(t)
    BY <1>1, <1>2, <1>3 DEF Flushes
  <1>6. Expects(u) => Expects(t)
    BY <1>1, <1>3 DEF Expects
  <1>7. ASSUME StreamsFlush(u) PROVE StreamsFlush(t)
    <2> SUFFICES ASSUME NEW k \in 1 .. n + 1, t[k].do = "stream"
                 PROVE  \E m \in 1 .. n + 1 : m > k /\ t[m].do = "flush"
      BY <1>1 DEF StreamsFlush
    <2>1. k # 1
      BY <1>2
    <2>2. k - 1 \in 1 .. n /\ (k - 1) + 1 = k
      BY <2>1
    <2>3. u[k - 1].do = "stream"
      BY <1>1, <2>2
    <2>4. PICK m \in 1 .. n : m > k - 1 /\ u[m].do = "flush"
      BY <1>1, <1>7, <2>2, <2>3 DEF StreamsFlush
    <2>5. m + 1 \in 1 .. n + 1 /\ m + 1 > k /\ t[m + 1].do = "flush"
      BY <1>1, <2>4
    <2> QED BY <2>5
  <1> QED BY <1>4, <1>5, <1>6, <1>7

(* The host collects answers before it streams more.                        *)
LEMMA FlushFirstKeeps ==
  ASSUME SerprogInv, FlushFirst
  PROVE  SerprogInv'
  <1>1. SerprogType /\ TodoEnds /\ HostFits
    BY DEF SerprogInv
  <1>2. /\ todo[1].do = "stream" /\ Running /\ link /\ todo' = <<Flush>> \o todo
        /\ spc' = IF <<Flush>> \o todo # << >> THEN spc ELSE IF spc = "stopping" THEN "stopped"
             ELSE "idle"
        /\ UNCHANGED <<serprog, host, ops, asked, got, outcome, link, input, answers, opbuf,
                       performed,
                       drivers, issued, naks, refusals>>
    BY DEF FlushFirst, Next1, Advance, device
  <1>3. todo \in Seq(Item) /\ todo # << >> /\ TodoShape(todo)
    BY <1>1, <1>2 DEF SerprogType, TodoEnds
  <1>4. spc' = spc /\ Running'
    BY <1>2, <1>3, FlushTail DEF Running
  <1>5. Behind(todo', todo) /\ todo' \in Seq(Item) /\ todo'[1] = Flush
    BY <1>2, <1>3, FlushBehind
  <1>6. Working
    BY <1>2 DEF Working, Running
  <1>7. PICK n \in Nat :
          n = Len(todo) /\ Len(todo') = n + 1 /\ \A k \in 1 .. n : todo[k] = todo'[k + 1]
    BY <1>5 DEF Behind
  <1>8. n # 0
    BY <1>3, <1>7
  <1>9. todo'[1].do = "flush"
    BY <1>5 DEF Flush
  <1>10. /\ Waits(todo') => Waits(todo)
         /\ StreamsFlush(todo) => StreamsFlush(todo')
         /\ Flushes(todo')
         /\ Expects(todo) => Expects(todo')
    BY <1>5, ListBefore
  <1>11. /\ AllEffects(OnTheWay') = AllEffects(OnTheWay)
         /\ \A log \in Seq(Event) : AllOwed(log, OnTheWay') = AllOwed(log, OnTheWay)
         /\ WayKept(OnTheWay) => WayKept(OnTheWay')
         /\ Drained(OnTheWay) => Drained(OnTheWay')
    BY <1>1, <1>2, FlushListed
  <1>12. SerprogType'
    BY <1>1, <1>2, <1>4, <1>5 DEF SerprogType
  <1>13. HostFits'
    BY <1>1, <1>2 DEF HostFits, BufferFits
  <1>14. TodoEnds'
    <2>1. TodoShape(todo')
      BY <1>2, <1>3, <1>5, <1>7, <1>8, ShapeBefore
    <2>2. todo'[Len(todo')] = todo[Len(todo)]
      BY <1>7, <1>8
    <2>3. todo' # << >>
      BY <1>7
    <2>4. \A k \in 1 .. Len(todo') : k # 1 => k - 1 \in 1 .. Len(todo) /\ todo'[k] = todo[k - 1]
      <3> SUFFICES ASSUME NEW k \in 1 .. n + 1, k # 1
                   PROVE  k - 1 \in 1 .. n /\ todo'[k] = todo[k - 1]
        BY <1>7
      <3>1. k - 1 \in 1 .. n /\ (k - 1) + 1 = k
        OBVIOUS
      <3> QED BY <1>7, <3>1
    <2>5. spc = "stopping" => \A k \in 1 .. Len(todo') : todo'[k].do # "data"
      BY <1>1, <1>9, <2>4 DEF TodoEnds
    <2>6. \A k \in 1 .. Len(todo') :
            todo'[k].do = "docommand" => (todo'[k].cmd.cmd = "pin") = (spc = "stopping")
      BY <1>1, <1>2, <1>9, <2>4 DEF TodoEnds
    <2>7. spc \notin {"idle", "stopped"}
      BY <1>2 DEF Running
    <2>8. outcome # "error"
      BY <1>1, <1>2 DEF TodoEnds
    <2>9. /\ spc = "busy" /\ Waits(todo') => todo'[Len(todo')].do = "data"
          /\ spc = "stopping" => todo'[Len(todo')].do = "ack"
          /\ outcome = "ok" => spc = "busy" /\ todo'[Len(todo')].do = "data"
      BY <1>1, <1>2, <1>10, <2>2 DEF TodoEnds
    <2>10. EndsAt(todo', spc, outcome)
      BY <2>1, <2>3, <2>5, <2>6, <2>7, <2>8, <2>9 DEF EndsAt
    <2> QED BY <1>2, <1>4, <2>10, TodoEndsNext
  <1>15. Conserved'
    <2>1. Held' = Held
      BY <1>2 DEF Held
    <2> QED BY <1>1, <1>2, <1>11, <1>12, <2>1, ConservedWay, ConservedNext DEF SerprogInv
  <1>16. ReadResult'
    BY <1>2, <1>4 DEF ReadResult, Running
  <1>17. Naked' => refusals' > 0 \/ naks' # {}
    BY <1>2 DEF SerprogInv, Naked
  <1>18. Flow'
    <2>1. Flow
      BY <1>6 DEF SerprogInv
    <2>2. CountsMatch'
      <3>1. Len(input) + NReplies(answers) = ops + 0
        BY <1>2, <1>6, Counts
      <3>2. Len(input') + NReplies(answers') = ops' + 0
        BY <1>2, <3>1
      <3> QED BY <1>9, <3>2, CountsNext
    <2>3. ~Awaits(todo'[1]) /\ spc' # "stopped"
      BY <1>4, <1>9 DEF Awaits, Running
    <2>4. host'.usage = 0 => StreamsFlush(todo') /\ Flushes(todo')
      BY <1>2, <1>10, <2>1 DEF Flow, StreamsFlush
    <2>5. Waits(todo') => host'.usage = 0 /\ host'.data = << >>
      BY <1>2, <1>10, <2>1 DEF Flow
    <2>6. naks' # {} => Naked'
      BY <1>2, <2>1 DEF Flow, Naked
    <2> QED BY <2>2, <2>3, <2>4, <2>5, <2>6 DEF Flow, StreamsFlush, Flushes
  <1>19. Pipeline'
    <2>1. Pipeline
      BY <1>6 DEF SerprogInv
    <2>2. (\E k \in 1 .. Len(input') :
             IsImmediate(input'[k])) => \E m \in 1 .. Len(todo') : IsAnswer(todo'[m])
      BY <1>2, <1>10, <2>1 DEF Pipeline, Expects
    <2> QED BY <1>2, <1>11, <2>1, <2>2 DEF Pipeline, WayKept
  <1>20. Accounted'
    <2>1. Accounted
      BY <1>6 DEF SerprogInv
    <2>2. Owed' = Owed
      BY <1>1, <1>2, <1>11 DEF Owed, SerprogType
    <2>3. Len(AllWanted(todo')) = Len(AllWanted(todo))
      <3>1. Tail(todo') = todo /\ todo' # << >>
        BY <1>2, <1>3, FlushTail
      <3>2. Len(AllWanted(todo'))
              = (IF todo'[1].do = "data" THEN 1 ELSE 0) + Len(AllWanted(Tail(todo')))
            /\ Len(AllWanted(Tail(todo'))) \in Nat
        BY <1>5, <3>1, WantedFirst
      <3>3. PICK m \in Nat : m = Len(AllWanted(Tail(todo')))
        BY <3>2
      <3>4. Len(AllWanted(todo')) = 0 + m
        BY <1>9, <3>2, <3>3
      <3>5. Len(AllWanted(todo)) = m
        BY <3>1, <3>3
      <3> QED BY <3>4, <3>5
    <2> QED BY <1>2, <2>1, <2>2, <2>3 DEF Accounted, Naked
  <1>21. AckAlone' /\ ShutdownFlushes'
    BY <1>4, <1>9 DEF AckAlone, ShutdownFlushes, Running
  <1> QED BY <1>12, <1>13, <1>14, <1>15, <1>16, <1>17, <1>18, <1>19, <1>20, <1>21 DEF SerprogInv

(* When the line is dead, or flashrom has ended, what is left to show.      *)
LEMMA NotWorking ==
  ASSUME SerprogInv, ~Working', SerprogType', EndsAt(todo', spc', outcome'),
         UNCHANGED <<serprog, host, performed, issued, naks, refusals>>,
         NakedIn(answers') => NakedIn(answers),
         AllEffects(OnTheWay') = AllEffects(OnTheWay),
         ReadResult'
  PROVE  SerprogInv'
  <1>1. SerprogType /\ HostFits
    BY DEF SerprogInv
  <1>2. HostFits'
    BY <1>1 DEF HostFits, BufferFits
  <1>3. Conserved'
    <2>1. Held' = Held
      BY DEF Held
    <2> QED BY <1>1, <2>1, ConservedWay, ConservedNext DEF SerprogInv
  <1>4. TodoEnds'
    BY TodoEndsNext
  <1>5. Naked' => refusals' > 0 \/ naks' # {}
    BY DEF SerprogInv, Naked, NakedIn
  <1> QED BY <1>2, <1>3, <1>4, <1>5 DEF SerprogInv

(* Nothing that is left of the list, once something is waited for, changes  *)
(* the chip.                                                                *)
LEMMA SilentList ==
  ASSUME SerprogType, TodoShape(todo), todo # << >>, Awaits(todo[1]),
         todo' = << >>, UNCHANGED <<opbuf, input>>
  PROVE  AllEffects(OnTheWay') = AllEffects(OnTheWay)
  <1>1. opbuf \in Seq(ListedCmd) /\ input \in Seq(ListedCmd) /\ todo \in Seq(Item)
        /\ OnTheWay = Line(opbuf, input, todo)
    BY WayType DEF SerprogType
  <1>2. Cmds(todo) \in Seq(ListedCmd) /\ Len(Cmds(todo)) = Len(todo)
        /\ \A k \in 1 .. Len(todo) : Cmds(todo)[k] = todo[k].cmd
    BY <1>1, CmdsType
  <1>3. todo[1] \in Item /\ Len(todo) \in Nat \ {0}
    BY <1>1, TailBehind
  <1>4. ~BufferOp(todo[1].cmd)
    <2>1. CASE todo[1].do = "docommand"
      <3>1. todo[1].cmd.cmd \in {"spi", "pin"}
        BY <1>3, <2>1, ItemType DEF SerCmd
      <3> QED BY <3>1 DEF BufferOp
    <2>2. CASE todo[1].do \in {"ack", "data"}
      <3>1. todo[1].cmd = NoCmd
        BY <1>3, <2>2, ItemType
      <3> QED BY <3>1 DEF BufferOp, NoCmd, Cmd
    <2> QED BY <2>1, <2>2 DEF Awaits
  <1>5. \A k \in 1 .. Len(todo) : ~BufferOp(Cmds(todo)[k]) /\ Cmds(todo)[k] \in ListedCmd
    <2> SUFFICES ASSUME NEW k \in 1 .. Len(todo)
                 PROVE  ~BufferOp(Cmds(todo)[k]) /\ Cmds(todo)[k] \in ListedCmd
      OBVIOUS
    <2>1. CASE k = 1
      BY <1>2, <1>4, <2>1
    <2>2. CASE k # 1
      <3>1. 1 \in 1 .. Len(todo) /\ 1 < k
        BY <1>3, <2>2
      <3>2. ~BufferOp(todo[k].cmd)
        BY <3>1 DEF TodoShape
      <3> QED BY <1>2, <3>2
    <2> QED BY <2>1, <2>2
  <1>6. PICK c \in Seq(ListedCmd) : c = Cmds(todo)
    BY <1>2
  <1>7. EffectsMap \in [ListedCmd -> Seq(Event)]
    <2>1. << >> \in Seq(Event)
      OBVIOUS
    <2> QED BY <2>1, MapTypes
  <1>8. Barren(EffectsMap, c)
    BY <1>2, <1>5, <1>6, EffectsType DEF Barren, EffectsMap
  <1>9. FlatMap(EffectsMap, c) = << >>
    BY <1>7, <1>8, FlatMapNone
  <1>10. AllEffects(c) = << >>
    BY <1>6, <1>9, AllEffectsMap
  <1>11. PICK s \in Seq(ListedCmd) : s = opbuf \o input
    BY <1>1, ConcatProperties
  <1>12. OnTheWay = s \o c
    BY <1>1, <1>6, <1>11 DEF Line
  <1>13. OnTheWay' = s
    <2>1. OnTheWay' = s \o Cmds(<< >>)
      BY <1>11 DEF OnTheWay, Sent, Cmds
    <2>2. Cmds(<< >>) = << >>
      BY DEF Cmds
    <2>3. s \o << >> = s
      BY ConcatEmptySeq
    <2> QED BY <2>1, <2>2, <2>3
  <1>14. AllEffects(s \o c) = AllEffects(s) \o AllEffects(c) /\ AllEffects(s) \in Seq(Event)
    BY EffectsJoin
  <1>15. AllEffects(s) \o << >> = AllEffects(s)
    BY <1>14, ConcatEmptySeq
  <1> QED BY <1>10, <1>12, <1>13, <1>14, <1>15

(* flashrom ends.                                                           *)
LEMMA DiesKeeps ==
  ASSUME SerprogInv, spc' = "died", UNCHANGED todo, UNCHANGED outcome,
         UNCHANGED <<serprog, host, asked, got, input, opbuf, performed, issued, naks, refusals>>,
         ops' \in Nat, answers' \in Seq(OnLine), NakedIn(answers') => NakedIn(answers)
  PROVE  SerprogInv'
  <1>1. SerprogType /\ TodoEnds
    BY DEF SerprogInv
  <1>2. SerprogType'
    BY <1>1 DEF SerprogType
  <1>3. EndsAt(todo', spc', outcome')
    BY <1>1 DEF TodoEnds, EndsAt
  <1>4. OnTheWay' = OnTheWay
    BY DEF OnTheWay, Sent
  <1>5. ReadResult'
    BY DEF ReadResult
  <1>6. ~Working'
    BY DEF Working
  <1> QED BY <1>2, <1>3, <1>4, <1>5, <1>6, NotWorking

(* The host notices that the line is dead.                                  *)
LEMMA LineDeadKeeps ==
  ASSUME SerprogInv, LineDead
  PROVE  SerprogInv'
  <1>1. SerprogType /\ TodoEnds
    BY DEF SerprogInv
  <1>2. /\ Running /\ ~link /\ link' = link
        /\ UNCHANGED <<serprog, host, ops, asked, got, input, answers, opbuf, performed, issued,
                       naks, refusals>>
    BY DEF LineDead, device
  <1>3. CASE todo[1].do \in {"docommand", "ack"} \/ (todo[1].do = "data" /\ asked.cmd = "spi")
    <2>1. /\ outcome' = "error" /\ todo' = << >>
          /\ spc' = IF spc = "stopping" THEN "stopped" ELSE "idle"
      BY <1>3 DEF LineDead, CallReturns, Advance
    <2>2. Awaits(todo[1]) /\ TodoShape(todo) /\ todo # << >>
      BY <1>1, <1>2, <1>3 DEF Awaits, TodoEnds
    <2>3. AllEffects(OnTheWay') = AllEffects(OnTheWay)
      BY <1>1, <1>2, <2>1, <2>2, SilentList
    <2>4. SerprogType'
      <3>1. << >> \in Seq(Item)
        OBVIOUS
      <3> QED BY <1>1, <1>2, <2>1, <3>1 DEF SerprogType
    <2>5. EndsAt(todo', spc', outcome')
      BY <2>1, NothingEnds
    <2>6. ReadResult' /\ ~Working'
      BY <1>2, <2>1 DEF ReadResult, Working
    <2> QED BY <1>2, <2>3, <2>4, <2>5, <2>6, NotWorking
  <1>4. CASE ~(todo[1].do \in {"docommand", "ack"} \/ (todo[1].do = "data" /\ asked.cmd = "spi"))
    <2>1. spc' = "died" /\ UNCHANGED todo /\ UNCHANGED outcome
      BY <1>4 DEF LineDead, Die
    <2>2. ops' \in Nat /\ answers' \in Seq(OnLine) /\ (NakedIn(answers') => NakedIn(answers))
      BY <1>1, <1>2 DEF SerprogType
    <2> QED BY <1>2, <2>1, <2>2, DiesKeeps
  <1> QED BY <1>3, <1>4

(* The line goes dead.                                                      *)
LEMMA LinkFailsKeeps ==
  ASSUME SerprogInv, LinkFails
  PROVE  SerprogInv'
  <1>1. SerprogType /\ TodoEnds
    BY DEF SerprogInv
  <1>2. /\ link' = FALSE
        /\ UNCHANGED <<serprog, host, todo, ops, asked, got, outcome, spc, input, answers, opbuf,
                       performed,
                       issued, naks, refusals>>
    BY DEF LinkFails, driver, device
  <1>3. SerprogType'
    BY <1>1, <1>2 DEF SerprogType
  <1>4. EndsAt(todo', spc', outcome')
    BY <1>1, <1>2, TodoEndsAt
  <1>5. OnTheWay' = OnTheWay
    BY <1>2 DEF OnTheWay, Sent
  <1>6. ReadResult'
    BY <1>2 DEF SerprogInv, ReadResult
  <1>7. ~Working'
    BY <1>2 DEF Working
  <1> QED BY <1>2, <1>3, <1>4, <1>5, <1>6, <1>7, NotWorking

(* The host collects an answer.                                             *)
LEMMA FlushAnswerKeeps ==
  ASSUME SerprogInv, FlushAnswer
  PROVE  SerprogInv'
  <1>1. SerprogType /\ TodoEnds /\ HostFits
    BY DEF SerprogInv
  <1>2. /\ todo[1].do = "flush" /\ Running /\ link /\ ops > 0 /\ answers # << >>
        /\ answers' = Tail(answers)
        /\ UNCHANGED <<serprog, host, asked, got, outcome, link, input, opbuf, performed, drivers,
                       issued, naks, refusals>>
    BY DEF FlushAnswer, Next1, device
  <1>3. answers \in Seq(OnLine) /\ ops \in Nat /\ issued \in Seq(Event)
    BY <1>1 DEF SerprogType
  <1>4. /\ Tail(answers) \in Seq(OnLine) /\ answers[1] \in OnLine
        /\ NakedIn(Tail(answers)) => NakedIn(answers)
        /\ NakedIn(answers) => answers[1].kind = "nak" \/ NakedIn(Tail(answers))
        /\ AllBrought(answers) = Brings(answers[1]) \o AllBrought(Tail(answers))
        /\ AllBrought(Tail(answers)) \in Seq(Seq(Int))
    BY <1>2, <1>3, AnswersTail
  <1>5. CASE answers[1].kind # "ack"
    <2>1. spc' = "died" /\ UNCHANGED todo /\ ops' = ops
      BY <1>5 DEF FlushAnswer, Die, AnswerKind
    <2>2. ops' \in Nat /\ answers' \in Seq(OnLine) /\ (NakedIn(answers') => NakedIn(answers))
      BY <1>2, <1>3, <1>4, <2>1
    <2>3. UNCHANGED outcome
      BY <1>2
    <2> QED BY <1>2, <2>1, <2>2, <2>3, DiesKeeps
  <1>6. CASE answers[1].kind = "ack"
    <2>1. ops' = ops - 1 /\ todo' = todo /\ spc' = spc
      BY <1>6 DEF FlushAnswer, AnswerKind
    <2>2. Working /\ (Running' <=> Running)
      BY <1>2, <2>1 DEF Working, Running
    <2>3. OnTheWay' = OnTheWay
      BY <1>2, <2>1 DEF OnTheWay, Sent
    <2>4. Naked' <=> Naked
      BY <1>2, <1>4, <1>6 DEF Naked, NakedIn
    <2>5. AllBrought(answers') = AllBrought(answers)
      <3>1. Brings(answers[1]) = << >>
        BY <1>6 DEF Brings
      <3>2. << >> \o AllBrought(Tail(answers)) = AllBrought(Tail(answers))
        BY <1>4, ConcatEmptySeq
      <3> QED BY <1>2, <1>4, <3>1, <3>2
    <2>6. SerprogType'
      <3>1. ops' \in Nat
        BY <1>2, <1>3, <2>1
      <3> QED BY <1>1, <1>2, <1>4, <2>1, <3>1 DEF SerprogType
    <2>7. HostFits'
      BY <1>1, <1>2 DEF HostFits, BufferFits
    <2>8. TodoEnds'
      BY <1>1, <1>2, <2>1, TodoEndsAt, TodoEndsNext
    <2>9. Conserved'
      <3>1. Held' = Held
        BY <1>2 DEF Held
      <3> QED BY <1>1, <1>2, <2>3, <2>6, <3>1, ConservedWay, ConservedNext DEF SerprogInv
    <2>10. ReadResult'
      BY <1>2, <2>1 DEF SerprogInv, ReadResult
    <2>11. Naked' => refusals' > 0 \/ naks' # {}
      BY <1>2, <2>4 DEF SerprogInv
    <2>12. Flow'
      <3>1. Flow
        BY <2>2 DEF SerprogInv
      <3>2. CountsMatch'
        <4>1. Len(input) + NReplies(answers) = ops + 0 /\ Len(input) \in Nat
          BY <1>2, <2>2, Counts
        <4>2. NReplies(answers) = NReplies(Tail(answers)) + 1 /\ NReplies(Tail(answers)) \in Nat
          BY <1>2, <1>3, <1>6, RepliesTail
        <4>3. PICK j \in Nat, m \in Nat, o \in Nat : j = Len(input)
              /\ m = NReplies(Tail(answers)) /\ o = ops
          BY <1>3, <4>1, <4>2
        <4>4. j + (m + 1) = o
          BY <4>1, <4>2, <4>3
        <4>5. j + m = (o - 1) + 0
          BY <4>4
        <4>6. Len(input') + NReplies(answers') = ops' + 0
          BY <1>2, <2>1, <4>3, <4>5
        <4> QED BY <1>2, <2>1, <4>6, CountsNext
      <3>3. ~Awaits(todo'[1])
        BY <1>2, <2>1 DEF Awaits
      <3> QED BY <1>2, <2>1, <2>4, <3>1, <3>2, <3>3 DEF Flow
    <2>13. Pipeline'
      BY <1>2, <2>1, <2>2, <2>3 DEF SerprogInv, Pipeline
    <2>14. Accounted'
      <3>1. Accounted
        BY <2>2 DEF SerprogInv
      <3>2. Owed' = Owed
        BY <1>2, <2>3, <2>5 DEF Owed
      <3> QED BY <1>2, <2>1, <2>4, <3>1, <3>2 DEF Accounted
    <2>15. AckAlone'
      BY <1>2, <2>1 DEF AckAlone
    <2>16. ShutdownFlushes'
      BY <1>2, <2>1 DEF ShutdownFlushes, Running
    <2> QED BY <2>6, <2>7, <2>8, <2>9, <2>10, <2>11, <2>12, <2>13, <2>14, <2>15,
               <2>16 DEF SerprogInv
  <1> QED BY <1>5, <1>6

(* Every step of the driver on the line.                                    *)
LEMMA HostStepKeeps ==
  ASSUME SerprogInv, HostStep
  PROVE  SerprogInv'
  BY FlushFirstKeeps, SendStreamKeeps, FlushAnswerKeeps, FlushDoneKeeps, SendCommandKeeps,
     AcknowledgedKeeps, RefusedKeeps, ReadDataKeeps, LineDeadKeeps DEF HostStep

-----------------------------------------------------------------------------
(* What the writes and delays put in the list: commands of the operation    *)
(* buffer, executions of it, and flushes.                                   *)
WriteItem == {Flush} \cup [do : {"stream"}, cmd : SerCmd(StoredKinds \cup {"exec"})]
DriverState(I) == [prev : BOOLEAN, addr : Nat, data : Seq(Nat), usage : Nat, out : Seq(I)]

(* Every buffer operation in the list is executed, and so is, when u says   *)
(* that there may be any, what is in the operation buffer before.           *)
Emptied(t, u) ==
  /\ \A j \in 1 .. Len(t) :
       BufferOp(t[j].cmd) => \E m \in 1 .. Len(t) : j < m /\ t[m].cmd.cmd = "exec"
  /\ u = 0 \/ \E m \in 1 .. Len(t) : t[m].cmd.cmd = "exec"
Collected(t, u) == StreamsFlush(t) /\ (u = 0 \/ Flushes(t))

(* The entries that writes put in the list.                                 *)
LEMMA WriteItems ==
  /\ WriteItem \subseteq Item /\ Seq(WriteItem) \subseteq Seq(Item) /\ Flush \in WriteItem
  /\ \A x \in WriteItem : x.do \in {"stream", "flush"} /\ ~IsImmediate(x.cmd) /\ x.cmd \in ListedCmd
  <1>1. SerCmd(StoredKinds \cup {"exec"}) \subseteq SerCmd(Streamed)
    <2>1. StoredKinds \cup {"exec"} \subseteq Streamed
      BY DEF Streamed
    <2> QED BY <2>1, KindsIn
  <1>2. WriteItem \subseteq Item
    BY <1>1 DEF WriteItem, Item
  <1>3. Seq(WriteItem) \subseteq Seq(Item)
    BY <1>2
  <1>4. Flush \in WriteItem
    BY DEF WriteItem
  <1>5. ASSUME NEW x \in WriteItem
        PROVE  x.do \in {"stream", "flush"} /\ ~IsImmediate(x.cmd) /\ x.cmd \in ListedCmd
    <2>1. x.cmd \in ListedCmd
      BY <1>2, ItemType
    <2>2. CASE x = Flush
      BY <2>1, <2>2 DEF Flush, NoCmd, Cmd, IsImmediate, ReadKinds
    <2>3. CASE x \in [do : {"stream"}, cmd : SerCmd(StoredKinds \cup {"exec"})]
      <3>1. x.do = "stream" /\ x.cmd.cmd \in StoredKinds \cup {"exec"}
        BY <2>3 DEF SerCmd
      <3> QED BY <2>1, <3>1 DEF StoredKinds, IsImmediate, ReadKinds
    <2> QED BY <2>2, <2>3 DEF WriteItem
  <1> QED BY <1>2, <1>3, <1>4, <1>5

(* One more entry.                                                          *)
LEMMA OneMore ==
  ASSUME NEW A, NEW t \in Seq(A), NEW x \in A
  PROVE  \E n \in Nat : /\ n = Len(t) /\ Len(Append(t, x)) = n + 1 /\ Append(t, x)[n + 1] = x
                        /\ \A k \in 1 .. n : Append(t, x)[k] = t[k]
                        /\ Append(t, x) \in Seq(A)
  <1>1. PICK u \in Seq(A) : u = Append(t, x)
    BY AppendProperties
  <1>2. Len(u) = Len(t) + 1 /\ u[Len(t) + 1] = x /\ \A k \in 1 .. Len(t) : u[k] = t[k]
    BY <1>1, AppendProperties
  <1>3. Len(t) \in Nat
    OBVIOUS
  <1> QED BY <1>1, <1>2, <1>3

(* The buffer stays empty behind an entry that puts nothing in it, and is   *)
(* empty behind its execution.                                              *)
LEMMA EmptiedMore ==
  ASSUME NEW t \in Seq(Item), NEW x \in Item, NEW u
  PROVE  /\ x.cmd.cmd = "exec" => Emptied(Append(t, x), u)
         /\ Emptied(t, u) /\ ~BufferOp(x.cmd) => Emptied(Append(t, x), u)
  <1>1. PICK v : v = Append(t, x)
    OBVIOUS
  <1>2. PICK n \in Nat :
          n = Len(t) /\ Len(v) = n + 1 /\ v[n + 1] = x /\ \A k \in 1 .. n : v[k] = t[k]
    BY <1>1, OneMore
  <1>3. n + 1 \in 1 .. n + 1 /\ \A k \in 1 .. n + 1 : k = n + 1 \/ k \in 1 .. n
    OBVIOUS
  <1>4. \A k \in 1 .. n : k \in 1 .. n + 1 /\ k < n + 1
    OBVIOUS
  <1>5. ASSUME x.cmd.cmd = "exec" PROVE Emptied(v, u)
    <2>1. ~BufferOp(x.cmd)
      BY <1>5 DEF BufferOp
    <2>2. v[n + 1].cmd.cmd = "exec"
      BY <1>2, <1>5
    <2>3. \A j \in 1 .. n + 1 :
            BufferOp(v[j].cmd) => \E m \in 1 .. n + 1 : j < m /\ v[m].cmd.cmd = "exec"
      BY <1>2, <1>3, <1>4, <2>1, <2>2
    <2> QED BY <1>2, <1>3, <2>2, <2>3 DEF Emptied
  <1>6. ASSUME Emptied(t, u), ~BufferOp(x.cmd) PROVE Emptied(v, u)
    <2>1. ASSUME NEW j \in 1 .. n + 1, BufferOp(v[j].cmd)
          PROVE  \E m \in 1 .. n + 1 : j < m /\ v[m].cmd.cmd = "exec"
      <3>1. j \in 1 .. n /\ v[j] = t[j]
        BY <1>2, <1>3, <1>6, <2>1
      <3>2. PICK m \in 1 .. n : j < m /\ t[m].cmd.cmd = "exec"
        BY <1>2, <1>6, <2>1, <3>1 DEF Emptied
      <3> QED BY <1>2, <1>4, <3>2
    <2>2. u = 0 \/ \E m \in 1 .. n + 1 : v[m].cmd.cmd = "exec"
      <3>1. CASE u = 0
        BY <3>1
      <3>2. CASE u # 0
        <4>1. PICK m \in 1 .. n : t[m].cmd.cmd = "exec"
          BY <1>2, <1>6, <3>2 DEF Emptied
        <4> QED BY <1>2, <1>4, <4>1
      <3> QED BY <3>1, <3>2
    <2> QED BY <1>2, <2>1, <2>2 DEF Emptied
  <1> QED BY <1>1, <1>5, <1>6

(* Behind a flush no answer is left.                                        *)
LEMMA FlushCollects ==
  ASSUME NEW t \in Seq(Item), NEW u
  PROVE  Collected(Append(t, Flush), u) /\ Append(t, Flush)[Len(Append(t, Flush))] = Flush
  <1>0. Flush \in Item
    BY DEF Item
  <1>1. PICK v : v = Append(t, Flush)
    OBVIOUS
  <1>2. PICK n \in Nat :
          n = Len(t) /\ Len(v) = n + 1 /\ v[n + 1] = Flush /\ \A k \in 1 .. n : v[k] = t[k]
    BY <1>0, <1>1, OneMore
  <1>3. n + 1 \in 1 .. n + 1 /\ \A k \in 1 .. n + 1 : k = n + 1 \/ k < n + 1
    OBVIOUS
  <1>4. Flush.do = "flush"
    BY DEF Flush
  <1>5. Flushes(v)
    BY <1>2, <1>3, <1>4 DEF Flushes
  <1>6. StreamsFlush(v)
    BY <1>2, <1>3, <1>4 DEF StreamsFlush
  <1> QED BY <1>1, <1>2, <1>5, <1>6 DEF Collected

(* What the commands of a list do and owe with one entry more.              *)
LEMMA EffectsMore ==
  ASSUME NEW t \in Seq(Item), NEW x \in Item
  PROVE  /\ AllEffects(Cmds(Append(t, x))) = AllEffects(Cmds(t)) \o Effects(x.cmd)
         /\ AllEffects(Cmds(t)) \in Seq(Event) /\ Effects(x.cmd) \in Seq(Event)
         /\ \A log \in Seq(Event) :
              /\ AllOwed(log, Cmds(Append(t, x))) = AllOwed(log, Cmds(t)) \o Owes(log, x.cmd)
              /\ AllOwed(log, Cmds(t)) \in Seq(Seq(Int)) /\ Owes(log, x.cmd) \in Seq(Seq(Int))
  <1>1. PICK o \in Seq(Item) : o = <<x>>
    BY Single
  <1>2. Append(t, x) = t \o o
    BY <1>1, AppendIsConcat
  <1>3. PICK c, d : c = Cmds(t) /\ d = x.cmd
    OBVIOUS
  <1>4. c \in Seq(ListedCmd) /\ d \in ListedCmd
    BY <1>3, CmdsType, ItemType
  <1>5. Cmds(o) = <<d>>
    <2>1. Cmds(o) \in Seq(ListedCmd) /\ Len(Cmds(o)) = 1 /\ Cmds(o)[1] = d
      <3>1. Len(o) = 1 /\ o[1] = x /\ 1 \in 1 .. 1
        BY <1>1
      <3> QED BY <1>3, <3>1, CmdsType
    <2> QED BY <2>1
  <1>6. Cmds(Append(t, x)) = Append(c, d)
    <2>1. Cmds(t \o o) = c \o Cmds(o)
      BY <1>3, CmdsConcat
    <2>2. c \o <<d>> = Append(c, d)
      BY <1>4, AppendIsConcat
    <2> QED BY <1>2, <1>5, <2>1, <2>2
  <1>7. EffectsMap \in [ListedCmd -> Seq(Event)]
    <2>1. << >> \in Seq(Event)
      OBVIOUS
    <2> QED BY <2>1, MapTypes
  <1>8. FlatMap(EffectsMap, Append(c, d)) = FlatMap(EffectsMap, c) \o EffectsMap[d]
    BY ONLY <1>4, <1>7, c \in Seq(ListedCmd), d \in ListedCmd, FlatMapAppend
  <1>9. Append(c, d) \in Seq(ListedCmd)
    BY <1>4, AppendProperties
  <1>10. AllEffects(Append(c, d)) = AllEffects(c) \o Effects(d)
    <2>1. AllEffects(Append(c, d)) = FlatMap(EffectsMap, Append(c, d))
      BY <1>9, AllEffectsMap
    <2>2. AllEffects(c) = FlatMap(EffectsMap, c) /\ EffectsMap[d] = Effects(d)
      BY <1>4, AllEffectsMap DEF EffectsMap
    <2> QED BY <1>8, <2>1, <2>2
  <1>11. AllEffects(c) \in Seq(Event)
    BY <1>4, EffectsJoin
  <1>12. Effects(d) \in Seq(Event)
    BY <1>4, EffectsType
  <1>13. ASSUME NEW log \in Seq(Event)
         PROVE  /\ AllOwed(log, Append(c, d)) = AllOwed(log, c) \o Owes(log, d)
                /\ AllOwed(log, c) \in Seq(Seq(Int)) /\ Owes(log, d) \in Seq(Seq(Int))
    <2>1. PICK E : E = OwesMap(log)
      OBVIOUS
    <2>2. E \in [ListedCmd -> Seq(Seq(Int))]
      BY <2>1, MapTypes
    <2>3. FlatMap(E, Append(c, d)) = FlatMap(E, c) \o E[d]
      BY ONLY <1>4, <2>2, c \in Seq(ListedCmd), d \in ListedCmd, FlatMapAppend
    <2>4. AllOwed(log, Append(c, d)) = FlatMap(E, Append(c, d)) /\ AllOwed(log, c) = FlatMap(E, c)
      BY <1>4, <1>9, <2>1, AllOwedMap
    <2>5. E[d] = Owes(log, d)
      BY <1>4, <2>1 DEF OwesMap
    <2> QED BY <1>4, <2>3, <2>4, <2>5, OwedType, OwesType
  <1> QED BY <1>3, <1>6, <1>10, <1>11, <1>12, <1>13

-----------------------------------------------------------------------------
(* The driver's state while it works out what to do, having been given g;   *)
(* u is how full the operation buffer was before.                           *)
Fed(h, g, u) ==
  /\ h \in DriverState(WriteItem)
  /\ g = AllEffects(Cmds(h.out)) \o HeldBy(h)
  /\ h.usage = 0 => Emptied(h.out, u)
Gathered(h, u) == h.usage = 0 => Collected(h.out, u)
Tidy(h) ==
  /\ h.data # << >> => h.prev
  /\ serprog.write_n = 0 => h.data = << >>

(* A command put in the list changes the chip as it says.                   *)
LEMMA Listed ==
  ASSUME NEW h \in DriverState(WriteItem), NEW c \in SerCmd(StoredKinds \cup {"exec"})
  PROVE  /\ Append(h.out, Stream(c)) \in Seq(WriteItem) /\ h.out \in Seq(WriteItem)
         /\ h.out \in Seq(Item) /\ Stream(c) \in Item /\ Stream(c).cmd = c
         /\ AllEffects(Cmds(Append(h.out, Stream(c)))) = AllEffects(Cmds(h.out)) \o Effects(c)
         /\ AllEffects(Cmds(h.out)) \in Seq(Event) /\ Effects(c) \in Seq(Event)
         /\ HeldBy(h) \in Seq(Event)
         /\ HeldBy(h) = Effects(Cmd("writen", h.addr, h.data, 0))
         /\ h.data = << >> => HeldBy(h) = << >>
  <1>0. Stream(c).cmd = c
    BY DEF Stream
  <1>1. PICK x : x = Stream(c) /\ x.cmd = c
    BY <1>0
  <1>2. x \in WriteItem
    BY <1>1 DEF Stream, WriteItem
  <1>3. h.out \in Seq(WriteItem) /\ h.addr \in Int /\ h.data \in Seq(Nat)
    BY DEF DriverState
  <1>4. Append(h.out, x) \in Seq(WriteItem)
    BY <1>2, <1>3, AppendProperties
  <1>5. h.out \in Seq(Item) /\ x \in Item
    BY <1>2, <1>3, WriteItems
  <1>6. PICK t \in Seq(Item) : t = h.out
    BY <1>5
  <1>7. /\ AllEffects(Cmds(Append(t, x))) = AllEffects(Cmds(t)) \o Effects(x.cmd)
        /\ AllEffects(Cmds(t)) \in Seq(Event) /\ Effects(x.cmd) \in Seq(Event)
    BY <1>5, EffectsMore
  <1>8. /\ HeldBy(h) \in Seq(Event)
        /\ HeldBy(h) = Effects(Cmd("writen", h.addr, h.data, 0))
        /\ h.data = << >> => HeldBy(h) = << >>
    BY <1>3, HeldType
  <1> QED BY <1>1, <1>3, <1>4, <1>5, <1>6, <1>7, <1>8

(* Passing the combined bytes on changes nothing of what is to be done,     *)
(* and holds none.                                                          *)
LEMMA PassWritenFed ==
  ASSUME NEW h, NEW g, NEW u, Fed(h, g, u), h.data # << >>
  PROVE  /\ Fed(PassWriten(h), g, u) /\ PassWriten(h).data = << >>
         /\ PassWriten(h).usage \in Nat \ {0}
         /\ PassWriten(h).addr = h.addr
  <1>1. h \in DriverState(WriteItem) /\ g = AllEffects(Cmds(h.out)) \o HeldBy(h)
    BY DEF Fed
  <1>2. /\ h.prev \in BOOLEAN /\ h.addr \in Nat /\ h.data \in Seq(Nat) /\ h.usage \in Nat
        /\ h = [prev |-> h.prev, addr |-> h.addr, data |-> h.data, usage |-> h.usage, out |-> h.out]
    BY <1>1 DEF DriverState
  <1>3. PICK c : c = Cmd(IF Len(h.data) = 1 THEN "writeb" ELSE "writen", h.addr, h.data, 0)
    OBVIOUS
  <1>4. c \in SerCmd(StoredKinds \cup {"exec"})
    BY <1>2, <1>3 DEF Cmd, SerCmd, StoredKinds, ReadKinds
  <1>5. Effects(c) = HeldBy(h)
    <2>1. HeldBy(h) = Effects(Cmd("writen", h.addr, h.data, 0))
      BY <1>1, <1>4, Listed
    <2>2. Effects(Cmd("writen", h.addr, h.data, 0)) =
            [k \in DOMAIN h.data |-> [addr |-> h.addr + k - 1, val |-> h.data[k]]]
      BY DEF Effects, Cmd
    <2>3. Effects(Cmd("writeb", h.addr, h.data, 0)) =
            [k \in DOMAIN h.data |-> [addr |-> h.addr + k - 1, val |-> h.data[k]]]
      BY DEF Effects, Cmd
    <2> QED BY <1>3, <2>1, <2>2, <2>3
  <1>6. PICK p, n : /\ p = IF Len(h.data) = 1 THEN h.prev ELSE FALSE
                    /\ n = IF Len(h.data) = 1 THEN h.usage + 5 ELSE h.usage + 7 + Len(h.data)
    OBVIOUS
  <1>7. p \in BOOLEAN /\ n \in Nat \ {0}
    <2>1. p \in BOOLEAN
      BY <1>2, <1>6
    <2>2. PICK m \in Nat : m = Len(h.data)
      BY <1>2
    <2>3. n \in Nat \ {0}
      <3>1. CASE Len(h.data) = 1
        BY <1>2, <1>6, <3>1
      <3>2. CASE Len(h.data) # 1
        <4>1. n = h.usage + 7 + m
          BY <1>6, <2>2, <3>2
        <4> QED BY <1>2, <4>1
      <3> QED BY <3>1, <3>2
    <2> QED BY <2>1, <2>3
  <1>8. PICK r : r = PassWriten(h)
    OBVIOUS
  <1>9. r = [prev |-> p, addr |-> h.addr, data |-> << >>, usage |-> n,
             out |-> Append(h.out, Stream(c))]
    <2>1. CASE Len(h.data) = 1
      BY <1>2, <1>3, <1>6, <1>8, <2>1 DEF PassWriten, Do
    <2>2. CASE Len(h.data) # 1
      BY <1>2, <1>3, <1>6, <1>8, <2>2 DEF PassWriten, Do
    <2> QED BY <2>1, <2>2
  <1>10. r \in DriverState(WriteItem) /\ r.data = << >> /\ r.usage = n
         /\ r.out = Append(h.out, Stream(c))
         /\ r.addr = h.addr
    <2>1. Append(h.out, Stream(c)) \in Seq(WriteItem)
      BY <1>1, <1>4, Listed
    <2>2. << >> \in Seq(Nat)
      OBVIOUS
    <2> QED BY <1>2, <1>7, <1>9, <2>1, <2>2 DEF DriverState
  <1>11. g = AllEffects(Cmds(r.out)) \o HeldBy(r)
    <2>1. HeldBy(r) = << >>
      BY <1>4, <1>10, Listed
    <2>2. AllEffects(Cmds(r.out)) = AllEffects(Cmds(h.out)) \o Effects(c)
      BY <1>1, <1>4, <1>10, Listed
    <2>3. AllEffects(Cmds(r.out)) = g
      BY <1>1, <1>5, <2>2
    <2>4. AllEffects(Cmds(r.out)) \in Seq(Event)
      BY <1>4, <1>10, Listed
    <2>5. AllEffects(Cmds(r.out)) \o << >> = AllEffects(Cmds(r.out))
      BY <2>4, ConcatEmptySeq
    <2> QED BY <2>1, <2>3, <2>5
  <1>12. r.usage # 0
    BY <1>7, <1>10
  <1> QED BY <1>7, <1>8, <1>10, <1>11, <1>12 DEF Fed

(* So when there are any.                                                   *)
LEMMA PassedFed ==
  ASSUME NEW h, NEW g, NEW u, Fed(h, g, u), serprog.write_n \in Nat,
         serprog.write_n = 0 => h.data = << >>
  PROVE  /\ Fed(Passed(h), g, u) /\ Passed(h).data = << >>
         /\ Gathered(h, u) => Gathered(Passed(h), u)
  <1>1. CASE h.data # << >>
    <2>1. Passed(h) = PassWriten(h)
      BY <1>1 DEF Passed, Pending
    <2>2. Fed(PassWriten(h), g, u) /\ PassWriten(h).data = << >>
          /\ PassWriten(h).usage \in Nat \ {0}
      BY <1>1, PassWritenFed
    <2>3. PassWriten(h).usage # 0
      BY <2>2
    <2> QED BY <2>1, <2>2, <2>3 DEF Gathered
  <1>2. CASE h.data = << >>
    <2>1. Passed(h) = h
      BY <1>2 DEF Passed, Pending
    <2> QED BY <1>2, <2>1
  <1> QED BY <1>1, <1>2

(* Executing the buffer changes nothing of what is to be done; the          *)
(* combined bytes go first.                                                 *)
LEMMA ExecuteFed ==
  ASSUME NEW h, NEW g, NEW u, Fed(h, g, u), serprog.write_n \in Nat,
         serprog.write_n = 0 => h.data = << >>
  PROVE  /\ Fed(ExecuteNoflush(h), g, u)
         /\ ExecuteNoflush(h).data = << >> /\ ExecuteNoflush(h).usage = 0
         /\ Fed(Execute(h), g, u) /\ Gathered(Execute(h), u)
         /\ Execute(h).data = << >> /\ Execute(h).usage = 0
         /\ Execute(h).out[Len(Execute(h).out)] = Flush
  <1>1. PICK p : p = Passed(h)
    OBVIOUS
  <1>2. Fed(p, g, u) /\ p.data = << >>
    BY <1>1, PassedFed
  <1>3. p \in DriverState(WriteItem) /\ g = AllEffects(Cmds(p.out)) \o HeldBy(p)
    BY <1>2 DEF Fed
  <1>4. /\ p.prev \in BOOLEAN /\ p.addr \in Nat /\ p.data \in Seq(Nat) /\ p.usage \in Nat
        /\ p = [prev |-> p.prev, addr |-> p.addr, data |-> p.data, usage |-> p.usage, out |-> p.out]
    BY <1>3 DEF DriverState
  <1>5. PICK c : c = Cmd("exec", None, << >>, 0)
    OBVIOUS
  <1>6. c \in SerCmd(StoredKinds \cup {"exec"}) /\ c.cmd = "exec"
    BY <1>5 DEF Cmd, SerCmd, StoredKinds, ReadKinds, None
  <1>7. PICK r, t : r = ExecuteNoflush(h) /\ t = Append(p.out, Stream(c))
    OBVIOUS
  <1>8. r = [prev |-> FALSE, addr |-> p.addr, data |-> << >>, usage |-> 0, out |-> t]
    <2>1. r = [Do(p, Stream(c)) EXCEPT !.usage = 0, !.prev = FALSE]
      BY <1>1, <1>5, <1>7 DEF ExecuteNoflush
    <2> QED BY <1>2, <1>4, <1>7, <2>1 DEF Do
  <1>9. /\ t \in Seq(WriteItem) /\ p.out \in Seq(Item) /\ Stream(c) \in Item /\ Stream(c).cmd = c
        /\ AllEffects(Cmds(t)) = AllEffects(Cmds(p.out)) \o Effects(c)
        /\ AllEffects(Cmds(p.out)) \in Seq(Event) /\ HeldBy(p) = << >>
    BY <1>2, <1>3, <1>6, <1>7, Listed
  <1>10. Effects(c) = << >>
    BY <1>6 DEF Effects
  <1>11. AllEffects(Cmds(t)) = AllEffects(Cmds(p.out))
         /\ AllEffects(Cmds(p.out)) \o << >> = AllEffects(Cmds(p.out))
    BY <1>9, <1>10, ConcatEmptySeq
  <1>12. Emptied(t, u)
    BY <1>6, <1>7, <1>9, EmptiedMore
  <1>13. r \in DriverState(WriteItem) /\ r.data = << >> /\ r.usage = 0 /\ r.out = t
         /\ r.addr = p.addr
    <2>1. << >> \in Seq(Nat)
      OBVIOUS
    <2> QED BY <1>4, <1>8, <1>9, <2>1 DEF DriverState
  <1>14. HeldBy(r) = << >>
    BY <1>6, <1>13, Listed
  <1>15. Fed(r, g, u)
    BY <1>3, <1>9, <1>11, <1>12, <1>13, <1>14 DEF Fed
  <1>16. PICK f, v : f = Execute(h) /\ v = Append(t, Flush)
    OBVIOUS
  <1>17. f = [prev |-> FALSE, addr |-> p.addr, data |-> << >>, usage |-> 0, out |-> v]
    <2>1. f = Do(r, Flush)
      BY <1>7, <1>16 DEF Execute
    <2> QED BY <1>8, <1>16, <2>1 DEF Do
  <1>18. t \in Seq(Item) /\ Flush \in WriteItem /\ Flush \in Item
    BY <1>9, WriteItems
  <1>19. v \in Seq(WriteItem)
    BY <1>9, <1>16, <1>18, AppendProperties
  <1>20. Emptied(v, u)
    <2>1. ~BufferOp(Flush.cmd)
      BY DEF Flush, BufferOp, NoCmd, Cmd
    <2> QED BY <1>12, <1>16, <1>18, <2>1, EmptiedMore
  <1>21. Collected(v, u) /\ v[Len(v)] = Flush
    BY <1>16, <1>18, FlushCollects
  <1>22. AllEffects(Cmds(v)) = AllEffects(Cmds(t))
    <2>1. AllEffects(Cmds(v)) = AllEffects(Cmds(t)) \o Effects(Flush.cmd)
          /\ AllEffects(Cmds(t)) \in Seq(Event)
      BY <1>16, <1>18, EffectsMore
    <2>2. Effects(Flush.cmd) = << >>
      BY DEF Flush, Effects, NoCmd, Cmd
    <2>3. AllEffects(Cmds(t)) \o << >> = AllEffects(Cmds(t))
      BY <2>1, ConcatEmptySeq
    <2> QED BY <2>1, <2>2, <2>3
  <1>23. f \in DriverState(WriteItem) /\ f.data = << >> /\ f.usage = 0 /\ f.out = v
         /\ f.addr = p.addr
    <2>1. << >> \in Seq(Nat)
      OBVIOUS
    <2> QED BY <1>4, <1>17, <1>19, <2>1 DEF DriverState
  <1>24. HeldBy(f) = << >>
    BY <1>6, <1>23, Listed
  <1>25. Fed(f, g, u) /\ Gathered(f, u)
    BY <1>3, <1>9, <1>11, <1>20, <1>21, <1>22, <1>23, <1>24 DEF Fed, Gathered
  <1> QED BY <1>7, <1>13, <1>15, <1>16, <1>21, <1>23, <1>25

(* One more byte held.                                                      *)
Ev(a, v) == [addr |-> a, val |-> v]
Spread(a, d) == Effects(Cmd("writen", a, d, 0))

(* A byte joined to combined ones goes to the address behind them.          *)
LEMMA SpreadMore ==
  ASSUME NEW a \in Nat, NEW d \in Seq(Nat), NEW v \in Nat
  PROVE  /\ Spread(a, Append(d, v)) = Append(Spread(a, d), Ev(a + Len(d), v))
         /\ Ev(a + Len(d), v) \in Event
  <1>1. PICK n \in Nat : n = Len(d)
    OBVIOUS
  <1>2. PICK w \in Seq(Nat) : w = Append(d, v)
    BY AppendProperties
  <1>3. Len(w) = n + 1 /\ w[n + 1] = v /\ \A k \in 1 .. n : w[k] = d[k]
    BY <1>1, <1>2, AppendProperties
  <1>4. Spread(a, w) = [k \in 1 .. n + 1 |-> [addr |-> a + k - 1, val |-> w[k]]]
    <2>1. DOMAIN w = 1 .. n + 1
      BY <1>3
    <2> QED BY <2>1 DEF Spread, Effects, Cmd
  <1>5. Spread(a, d) = [k \in 1 .. n |-> [addr |-> a + k - 1, val |-> d[k]]]
    <2>1. DOMAIN d = 1 .. n
      BY <1>1
    <2> QED BY <2>1 DEF Spread, Effects, Cmd
  <1>6. PICK e : e = Ev(a + n, v)
    OBVIOUS
  <1>7. e \in Event
    BY <1>6 DEF Ev, Event
  <1>8. PICK s : s = Spread(a, d)
    OBVIOUS
  <1>9. s \in Seq(Event) /\ Len(s) = n
    <2>1. \A k \in 1 .. n : [addr |-> a + k - 1, val |-> d[k]] \in Event
      BY <1>1 DEF Event
    <2> QED BY <1>5, <1>8, <2>1
  <1>10. PICK t : t = Append(s, e)
    OBVIOUS
  <1>11. t \in Seq(Event) /\ Len(t) = n + 1 /\ t[n + 1] = e /\ \A k \in 1 .. n : t[k] = s[k]
    BY <1>7, <1>9, <1>10, AppendProperties
  <1>12. PICK r : r = Spread(a, w)
    OBVIOUS
  <1>13. r \in Seq(Event) /\ Len(r) = n + 1
    <2>1. \A k \in 1 .. n + 1 : [addr |-> a + k - 1, val |-> w[k]] \in Event
      BY <1>2, <1>3 DEF Event
    <2> QED BY <1>4, <1>12, <2>1
  <1>14. \A k \in 1 .. n + 1 : r[k] = t[k]
    <2> SUFFICES ASSUME NEW k \in 1 .. n + 1 PROVE r[k] = t[k]
      OBVIOUS
    <2>1. r[k] = [addr |-> a + k - 1, val |-> w[k]]
      BY <1>4, <1>12
    <2>2. CASE k = n + 1
      <3>1. a + k - 1 = a + n
        BY <2>2
      <3> QED BY <1>3, <1>6, <1>11, <2>1, <2>2, <3>1 DEF Ev
    <2>3. CASE k # n + 1
      <3>1. k \in 1 .. n
        BY <2>3
      <3> QED BY <1>3, <1>5, <1>8, <1>11, <2>1, <3>1
    <2> QED BY <2>2, <2>3
  <1>15. r = t
    BY <1>11, <1>13, <1>14, SeqEqual
  <1> QED BY <1>1, <1>2, <1>6, <1>7, <1>8, <1>10, <1>12, <1>15

(* What is held is what the bytes would change.                             *)
LEMMA HeldSpread ==
  ASSUME NEW h \in DriverState(WriteItem)
  PROVE  /\ HeldBy(h) = Spread(h.addr, h.data) /\ HeldBy(h) \in Seq(Event)
         /\ h.data = << >> => HeldBy(h) = << >>
         /\ AllEffects(Cmds(h.out)) \in Seq(Event)
  <1>1. h.addr \in Int /\ h.data \in Seq(Nat) /\ h.out \in Seq(WriteItem)
    BY DEF DriverState
  <1>2. Cmds(h.out) \in Seq(ListedCmd)
    BY <1>1, WriteItems, CmdsType
  <1> QED BY <1>1, <1>2, HeldType, EffectsJoin DEF Spread

(* A byte that joins the combined ones, or comes after they were passed     *)
(* on, is done after all before it.                                         *)
LEMMA CombineFed ==
  ASSUME NEW h, NEW g \in Seq(Event), NEW u, Fed(h, g, u), Gathered(h, u), Tidy(h),
         serprog.write_n \in Nat \ {0},
         Len(h.data) < serprog.write_n \/ h.data = << >>,
         NEW a \in Nat, NEW v \in Nat
  PROVE  /\ Fed(Combine(h, a, v), g \o <<Ev(a, v)>>, u) /\ Gathered(Combine(h, a, v), u)
         /\ Tidy(Combine(h, a, v)) /\ Len(Combine(h, a, v).data) <= serprog.write_n
  <1>1. h \in DriverState(WriteItem) /\ g = AllEffects(Cmds(h.out)) \o HeldBy(h)
    BY DEF Fed
  <1>2. /\ h.prev \in BOOLEAN /\ h.addr \in Nat /\ h.data \in Seq(Nat) /\ h.usage \in Nat
        /\ h = [prev |-> h.prev, addr |-> h.addr, data |-> h.data, usage |-> h.usage, out |-> h.out]
        /\ h.out \in Seq(WriteItem)
    BY <1>1 DEF DriverState
  <1>20. h.data \in Seq(Nat)
    BY <1>2
  <1>22. h.addr \in Nat /\ Len(h.data) \in Nat
    BY <1>2, <1>20
  <1>21. PICK x \in Nat, m \in Nat : x = h.addr /\ m = Len(h.data)
    BY ONLY <1>22
  <1>3. PICK c : c = Combine(h, a, v)
    OBVIOUS
  <1>4. CASE h.prev /\ a = h.addr + Len(h.data)
    <2>0. Append(h.data, v) \in Seq(Nat) /\ Len(Append(h.data, v)) = Len(h.data) + 1
      BY ONLY <1>20, v \in Nat, AppendProperties
    <2>1. PICK d \in Seq(Nat) : d = Append(h.data, v) /\ Len(d) = Len(h.data) + 1
      BY <2>0
    <2>2. c = [prev |-> h.prev, addr |-> h.addr, data |-> d, usage |-> h.usage, out |-> h.out]
      BY <1>2, <1>3, <1>4, <2>1 DEF Combine
    <2>3. c \in DriverState(WriteItem) /\ c.data = d /\ c.usage = h.usage /\ c.out = h.out /\ c.prev
          /\ c.addr = h.addr
      BY <1>2, <1>4, <2>2 DEF DriverState
    <2>4. PICK b, s, e : b = AllEffects(Cmds(h.out)) /\ s = HeldBy(h) /\ e = Ev(a, v)
      OBVIOUS
    <2>5. b \in Seq(Event) /\ s \in Seq(Event) /\ s = Spread(h.addr, h.data)
      BY <1>1, <2>4, HeldSpread
    <2>6. HeldBy(c) = Append(s, e) /\ e \in Event
      <3>1. /\ Spread(x, Append(h.data, v)) = Append(Spread(x, h.data), Ev(x + Len(h.data), v))
            /\ Ev(x + Len(h.data), v) \in Event
        BY ONLY <1>20, v \in Nat, x \in Nat, SpreadMore
      <3>2. HeldBy(c) = Spread(c.addr, c.data)
        BY <2>3, HeldSpread
      <3>3. x + Len(h.data) = a
        BY <1>4, <1>21
      <3> QED BY <1>21, <2>1, <2>3, <2>4, <2>5, <3>1, <3>2, <3>3
    <2>7. PICK o \in Seq(Event) : o = <<e>>
      BY <2>6, Single
    <2>8. Append(s, e) = s \o o
      BY <2>5, <2>6, <2>7, AppendIsConcat
    <2>9. AssocAt(b, s, o)
      BY <2>5, <2>7, Assoc
    <2>10. g \o <<Ev(a, v)>> = AllEffects(Cmds(c.out)) \o HeldBy(c)
      BY <1>1, <2>3, <2>4, <2>6, <2>7, <2>8, <2>9 DEF AssocAt
    <2>11. Fed(c, g \o <<Ev(a, v)>>, u) /\ Gathered(c, u)
      BY <2>3, <2>10 DEF Fed, Gathered
    <2>12. Tidy(c)
      BY <2>3 DEF Tidy
    <2>13. Len(c.data) <= serprog.write_n
      <3>2. m < serprog.write_n \/ m = 0
        BY <1>21
      <3>3. Len(c.data) = m + 1
        BY <1>21, <2>1, <2>3
      <3> QED BY <3>2, <3>3
    <2> QED BY <1>3, <2>11, <2>12, <2>13
  <1>5. CASE ~(h.prev /\ a = h.addr + Len(h.data))
    <2>1. PICK p : p = IF h.prev /\ h.data # << >> THEN PassWriten(h) ELSE h
      OBVIOUS
    <2>2. Fed(p, g, u) /\ Gathered(p, u) /\ p.data = << >>
      <3>1. CASE h.prev /\ h.data # << >>
        <4>1. Fed(PassWriten(h), g, u) /\ PassWriten(h).data = << >> /\ PassWriten(h).usage # 0
          BY <3>1, PassWritenFed
        <4> QED BY <2>1, <3>1, <4>1 DEF Gathered
      <3>2. CASE ~(h.prev /\ h.data # << >>)
        BY <2>1, <3>2 DEF Tidy
      <3> QED BY <3>1, <3>2
    <2>3. p \in DriverState(WriteItem) /\ g = AllEffects(Cmds(p.out)) \o HeldBy(p)
      BY <2>2 DEF Fed
    <2>4. /\ p.usage \in Nat /\ p.out \in Seq(WriteItem)
          /\ p = [prev |-> p.prev, addr |-> p.addr, data |-> p.data, usage |-> p.usage,
               out |-> p.out]
      BY <2>3 DEF DriverState
    <2>5. c = [p EXCEPT !.prev = TRUE, !.addr = a, !.data = <<v>>]
      BY <1>3, <1>5, <2>1 DEF Combine
    <2>6. c = [prev |-> TRUE, addr |-> a, data |-> <<v>>, usage |-> p.usage, out |-> p.out]
      BY <2>4, <2>5
    <2>7. PICK d \in Seq(Nat) : d = <<v>> /\ Len(d) = 1
      BY Single
    <2>8. c \in DriverState(WriteItem) /\ c.data = d /\ c.usage = p.usage /\ c.out = p.out /\ c.prev
          /\ c.addr = a
      BY <2>4, <2>6, <2>7 DEF DriverState
    <2>9. HeldBy(c) = <<Ev(a, v)>>
      <3>0. << >> \in Seq(Nat)
        OBVIOUS
      <3>1. PICK z \in Seq(Nat) : z = << >>
        BY ONLY <3>0
      <3>10. Len(z) = 0 /\ Append(z, v) = <<v>> /\ a + 0 = a
        BY <3>1
      <3>11. Spread(a, Append(z, v)) = Append(Spread(a, z), Ev(a + Len(z), v))
        BY ONLY z \in Seq(Nat), a \in Nat, v \in Nat, SpreadMore
      <3>2. Spread(a, <<v>>) = Append(Spread(a, << >>), Ev(a, v))
        BY <3>1, <3>10, <3>11
      <3>3. Spread(a, << >>) = << >>
        <4>1. [k \in DOMAIN << >> |-> [addr |-> a + k - 1, val |-> << >>[k]]] = << >>
          OBVIOUS
        <4> QED BY <4>1 DEF Spread, Effects, Cmd
      <3>4. Append(<< >>, Ev(a, v)) = <<Ev(a, v)>>
        OBVIOUS
      <3> QED BY <2>7, <2>8, <3>2, <3>3, <3>4, HeldSpread
    <2>10. g = AllEffects(Cmds(p.out))
      <3>1. HeldBy(p) = << >> /\ AllEffects(Cmds(p.out)) \in Seq(Event)
        BY <2>2, <2>3, HeldSpread
      <3>2. AllEffects(Cmds(p.out)) \o << >> = AllEffects(Cmds(p.out))
        BY <3>1, ConcatEmptySeq
      <3> QED BY <2>3, <3>1, <3>2
    <2>11. Fed(c, g \o <<Ev(a, v)>>, u)
      BY <2>2, <2>8, <2>9, <2>10 DEF Fed
    <2>12. Gathered(c, u)
      BY <2>2, <2>8 DEF Gathered
    <2>13. Tidy(c)
      BY <2>8 DEF Tidy
    <2>14. Len(c.data) <= serprog.write_n
      <3>1. Len(c.data) = 1
        BY <2>7, <2>8
      <3> QED BY <3>1
    <2> QED BY <1>3, <2>11, <2>12, <2>13, <2>14
  <1> QED BY <1>4, <1>5

(* Executing a buffer that might overflow changes nothing of what is to     *)
(* be done.                                                                 *)
LEMMA CheckedFed ==
  ASSUME NEW h, NEW g, NEW u, Fed(h, g, u), Gathered(h, u), Tidy(h), serprog.write_n \in Nat, NEW n
  PROVE  /\ Fed(CheckUsage(h, n), g, u) /\ Gathered(CheckUsage(h, n), u) /\ Tidy(CheckUsage(h, n))
         /\ CheckUsage(h, n).data = h.data \/ CheckUsage(h, n).data = << >>
  <1>1. CASE serprog.opbuf <= h.usage + n
    <2>1. CheckUsage(h, n) = Execute(h)
      BY <1>1 DEF CheckUsage
    <2>2. Fed(Execute(h), g, u) /\ Gathered(Execute(h), u) /\ Execute(h).data = << >>
      BY ExecuteFed DEF Tidy
    <2> QED BY <2>1, <2>2 DEF Tidy
  <1>2. CASE ~(serprog.opbuf <= h.usage + n)
    <2>1. CheckUsage(h, n) = h
      BY <1>2 DEF CheckUsage
    <2> QED BY <2>1
  <1> QED BY <1>1, <1>2

(* A write that may be combined is done after all before it, and no more    *)
(* bytes are held than the device takes at once.                            *)
LEMMA CombinedWriteFed ==
  ASSUME NEW h, NEW g \in Seq(Event), NEW u, Fed(h, g, u), Gathered(h, u), Tidy(h),
         serprog.write_n \in Nat \ {0},
         Len(h.data) < serprog.write_n \/ h.data = << >>,
         NEW a \in Nat, NEW v \in Nat
  PROVE  /\ Fed(CombinedWrite(h, a, v), g \o <<Ev(a, v)>>, u) /\ Gathered(CombinedWrite(h, a, v), u)
         /\ Tidy(CombinedWrite(h, a, v))
         /\ \/ Len(CombinedWrite(h, a, v).data) < serprog.write_n
            \/ CombinedWrite(h, a, v).data = << >>
  <1>1. PICK c, e : c = Combine(h, a, v) /\ e = g \o <<Ev(a, v)>>
    OBVIOUS
  <1>2. Fed(c, e, u) /\ Gathered(c, u) /\ Tidy(c) /\ Len(c.data) <= serprog.write_n
    BY <1>1, CombineFed
  <1>3. PICK k : k = CheckUsage(c, 7 + Len(c.data))
    OBVIOUS
  <1>4. Fed(k, e, u) /\ Gathered(k, u) /\ Tidy(k)
    BY <1>2, <1>3, CheckedFed
  <1>5. CombinedWrite(h, a, v) = IF Len(k.data) >= serprog.write_n THEN PassWriten(k) ELSE k
    BY <1>1, <1>3 DEF CombinedWrite
  <1>6. k.data \in Seq(Nat)
    BY <1>4 DEF Fed, DriverState
  <1>7. PICK m \in Nat : m = Len(k.data)
    BY <1>6
  <1>8. CASE m >= serprog.write_n
    <2>1. k.data # << >>
      BY <1>7, <1>8
    <2>2. Fed(PassWriten(k), e, u) /\ PassWriten(k).data = << >>
          /\ PassWriten(k).usage \in Nat \ {0}
      BY <1>4, <2>1, PassWritenFed
    <2>3. PassWriten(k).usage # 0
      BY <2>2
    <2>4. Gathered(PassWriten(k), u) /\ Tidy(PassWriten(k))
      BY <2>2, <2>3 DEF Gathered, Tidy
    <2>5. CombinedWrite(h, a, v) = PassWriten(k)
      BY <1>5, <1>7, <1>8
    <2> QED BY <1>1, <2>2, <2>4, <2>5
  <1>9. CASE ~(m >= serprog.write_n)
    <2>1. CombinedWrite(h, a, v) = k
      BY <1>5, <1>7, <1>9
    <2>2. Len(k.data) < serprog.write_n
      BY <1>7, <1>9
    <2> QED BY <1>1, <1>4, <2>1, <2>2
  <1> QED BY <1>8, <1>9

(* A byte that is written alone, and a delay, are put in the list at once.  *)
LEMMA SpreadOne ==
  ASSUME NEW a \in Nat, NEW v \in Nat
  PROVE  Effects(Cmd("writeb", a, <<v>>, 0)) = <<Ev(a, v)>> /\ Ev(a, v) \in Event
  <1>0. << >> \in Seq(Nat)
    OBVIOUS
  <1>1. PICK z \in Seq(Nat) : z = << >>
    BY ONLY <1>0
  <1>2. Len(z) = 0 /\ Append(z, v) = <<v>> /\ a + 0 = a
    BY <1>1
  <1>3. Spread(a, Append(z, v)) = Append(Spread(a, z), Ev(a + Len(z), v))
    BY ONLY z \in Seq(Nat), a \in Nat, v \in Nat, SpreadMore
  <1>4. Spread(a, z) = << >>
    <2>1. [k \in DOMAIN << >> |-> [addr |-> a + k - 1, val |-> << >>[k]]] = << >>
      OBVIOUS
    <2> QED BY <1>1, <2>1 DEF Spread, Effects, Cmd
  <1>5. Append(<< >>, Ev(a, v)) = <<Ev(a, v)>>
    OBVIOUS
  <1>6. Spread(a, <<v>>) = <<Ev(a, v)>>
    BY <1>2, <1>3, <1>4, <1>5
  <1>7. Effects(Cmd("writeb", a, <<v>>, 0)) = Spread(a, <<v>>)
    BY DEF Effects, Spread, Cmd
  <1>8. Ev(a, v) \in Event
    BY DEF Ev, Event
  <1> QED BY <1>6, <1>7, <1>8

(* An operation that is put in the list at once is done after all before    *)
(* it.                                                                      *)
LEMMA StoredNow ==
  ASSUME NEW h, NEW g, NEW u, Fed(h, g, u), h.data = << >>, NEW c \in SerCmd(StoredKinds),
         NEW p \in BOOLEAN, NEW r,
         r = [prev |-> p, addr |-> h.addr, data |-> << >>, usage |-> h.usage + 5,
              out |-> Append(h.out, Stream(c))]
  PROVE  Fed(r, g \o Effects(c), u) /\ Gathered(r, u) /\ Tidy(r) /\ r.data = << >>
  <1>1. h \in DriverState(WriteItem) /\ g = AllEffects(Cmds(h.out)) \o HeldBy(h)
    BY DEF Fed
  <1>2. h.addr \in Nat /\ h.usage \in Nat
    BY <1>1 DEF DriverState
  <1>3. c \in SerCmd(StoredKinds \cup {"exec"})
    <2>1. StoredKinds \subseteq StoredKinds \cup {"exec"}
      OBVIOUS
    <2> QED BY <2>1, KindsIn
  <1>4. /\ Append(h.out, Stream(c)) \in Seq(WriteItem)
        /\ AllEffects(Cmds(Append(h.out, Stream(c)))) = AllEffects(Cmds(h.out)) \o Effects(c)
        /\ AllEffects(Cmds(h.out)) \in Seq(Event) /\ Effects(c) \in Seq(Event) /\ HeldBy(h) = << >>
    BY <1>1, <1>3, Listed
  <1>5. r.addr = h.addr /\ r.data = << >> /\ r.usage = h.usage + 5
        /\ r.out = Append(h.out, Stream(c))
    OBVIOUS
  <1>6. r \in DriverState(WriteItem)
    <2>1. << >> \in Seq(Nat) /\ h.usage + 5 \in Nat
      BY <1>2
    <2> QED BY <1>2, <1>4, <2>1 DEF DriverState
  <1>7. HeldBy(r) = << >>
    BY <1>5, <1>6, HeldSpread
  <1>8. g = AllEffects(Cmds(h.out))
    BY <1>1, <1>4, ConcatEmptySeq
  <1>9. PICK e, d \in Seq(Event) : e = AllEffects(Cmds(h.out)) \o Effects(c) /\ d = e
    BY <1>4, ConcatProperties
  <1>10. d \o << >> = d
    BY ConcatEmptySeq
  <1>11. g \o Effects(c) = AllEffects(Cmds(r.out)) \o HeldBy(r)
    BY <1>4, <1>5, <1>7, <1>8, <1>9, <1>10
  <1>12. r.usage # 0
    BY <1>2, <1>5
  <1> QED BY <1>5, <1>6, <1>11, <1>12 DEF Fed, Gathered, Tidy

(* A write that is not combined is done after all before it.                *)
LEMMA SingleWriteFed ==
  ASSUME NEW h, NEW g, NEW u, Fed(h, g, u), Gathered(h, u), Tidy(h), h.data = << >>,
         serprog.write_n \in Nat, NEW a \in Nat, NEW v \in Nat
  PROVE  /\ Fed(SingleWrite(h, a, v), g \o <<Ev(a, v)>>, u) /\ Gathered(SingleWrite(h, a, v), u)
         /\ Tidy(SingleWrite(h, a, v)) /\ SingleWrite(h, a, v).data = << >>
  <1>1. PICK k : k = CheckUsage(h, 6)
    OBVIOUS
  <1>2. Fed(k, g, u) /\ k.data = << >>
    BY <1>1, CheckedFed
  <1>3. PICK c : c = Cmd("writeb", a, <<v>>, 0)
    OBVIOUS
  <1>4. c \in SerCmd(StoredKinds)
    <2>1. <<v>> \in Seq(Nat)
      BY Single
    <2> QED BY <1>3, <2>1 DEF Cmd, SerCmd, StoredKinds, ReadKinds
  <1>5. PICK r : r = SingleWrite(h, a, v)
    OBVIOUS
  <1>6. /\ k.prev \in BOOLEAN
        /\ k = [prev |-> k.prev, addr |-> k.addr, data |-> k.data, usage |-> k.usage, out |-> k.out]
    BY <1>2 DEF Fed, DriverState
  <1>7. r = [prev |-> k.prev, addr |-> k.addr, data |-> << >>, usage |-> k.usage + 5,
             out |-> Append(k.out, Stream(c))]
    <2>1. r = [Do(k, Stream(c)) EXCEPT !.usage = @ + 5]
      BY <1>1, <1>3, <1>5 DEF SingleWrite
    <2> QED BY <1>2, <1>6, <2>1 DEF Do
  <1>8. PICK p \in BOOLEAN : p = k.prev
    BY <1>6
  <1>9. Fed(r, g \o Effects(c), u) /\ Gathered(r, u) /\ Tidy(r) /\ r.data = << >>
    BY <1>2, <1>4, <1>7, <1>8, StoredNow
  <1> QED BY <1>3, <1>5, <1>9, SpreadOne

(* At the beginning of a call what is to be done is what is held.           *)
LEMMA OpenFed ==
  ASSUME SerprogType, HostFits
  PROVE  /\ Fed(Open, Held, host.usage) /\ Gathered(Open, host.usage) /\ Tidy(Open)
         /\ Held \in Seq(Event) /\ serprog.write_n \in Nat /\ serprog.read_n \in Nat
         /\ Len(Open.data) < serprog.write_n \/ Open.data = << >>
         /\ Open.data = host.data /\ Open.usage = host.usage /\ Open.out = << >>
         /\ host.usage \in Nat
  <1>1. host.prev \in BOOLEAN /\ host.addr \in Nat /\ host.data \in Seq(Nat) /\ host.usage \in Nat
    BY DEF SerprogType, HostState
  <1>2. << >> \in Seq(WriteItem) /\ Len(<< >>) = 0 /\ << >> \in Seq(Item)
    OBVIOUS
  <1>3. Open \in DriverState(WriteItem)
    BY <1>1, <1>2 DEF Open, DriverState
  <1>4. /\ Open.data = host.data /\ Open.usage = host.usage /\ Open.out = << >>
        /\ Open.prev = host.prev
        /\ Open.addr = host.addr
    BY DEF Open
  <1>5. Held \in Seq(Event) /\ Held = HeldBy(host)
    BY ConservedWay
  <1>6. HeldBy(Open) = Held
    BY <1>4, <1>5 DEF HeldBy
  <1>7. AllEffects(Cmds(<< >>)) = << >>
    <2>1. Cmds(<< >>) = << >>
      BY DEF Cmds
    <2>2. [k \in DOMAIN << >> |-> Effects(<< >>[k])] = << >>
      OBVIOUS
    <2>3. FlattenSeq(<< >>) = << >>
      BY <1>5, FlattenOne
    <2> QED BY <2>1, <2>2, <2>3 DEF AllEffects
  <1>8. << >> \o Held = Held
    BY <1>5, ConcatEmptySeq
  <1>9. 1 .. 0 = {}
    OBVIOUS
  <1>10. host.usage = 0 => Emptied(<< >>, host.usage) /\ Collected(<< >>, host.usage)
    BY <1>2, <1>9 DEF Emptied, Collected, StreamsFlush
  <1>11. Fed(Open, Held, host.usage)
    BY <1>3, <1>4, <1>6, <1>7, <1>8, <1>10 DEF Fed
  <1>12. Gathered(Open, host.usage)
    BY <1>4, <1>10 DEF Gathered
  <1>13. Tidy(Open) /\ (Len(Open.data) < serprog.write_n \/ Open.data = << >>)
    BY <1>4 DEF Tidy, HostFits, BufferFits
  <1>14. serprog.write_n \in Nat /\ serprog.read_n \in Nat
    BY SerprogAssumption DEF SerprogType, Device
  <1> QED BY <1>1, <1>4, <1>5, <1>11, <1>12, <1>13, <1>14

(* What is done before a read, and before a command that is waited for.     *)
LEMMA BeforeReadFed ==
  ASSUME SerprogType, HostFits
  PROVE  /\ Fed(BeforeRead(Open), Held, host.usage)
         /\ BeforeRead(Open).usage = 0 /\ BeforeRead(Open).data = << >>
  <1>1. /\ Fed(Open, Held, host.usage) /\ Tidy(Open) /\ serprog.write_n \in Nat
        /\ Open.data = host.data /\ Open.usage = host.usage /\ host.usage \in Nat
    BY OpenFed
  <1>2. CASE Open.usage > 0 \/ Pending(Open)
    <2>1. BeforeRead(Open) = ExecuteNoflush(Open)
      BY <1>2 DEF BeforeRead
    <2> QED BY <1>1, <2>1, ExecuteFed DEF Tidy
  <1>3. CASE ~(Open.usage > 0 \/ Pending(Open))
    <2>1. BeforeRead(Open) = Open
      BY <1>3 DEF BeforeRead
    <2>2. Open.usage = 0
      BY <1>1, <1>3
    <2>3. Open.data = << >>
      BY <1>1, <1>3 DEF Pending, Tidy
    <2> QED BY <1>1, <2>1, <2>2, <2>3
  <1> QED BY <1>2, <1>3

(* Before a command that is waited for the buffer is executed and the       *)
(* answers are collected.                                                   *)
LEMMA BeforeCommandFed ==
  ASSUME SerprogType, HostFits, NEW h,
         h = IF host.usage > 0 \/ Pending(host) THEN Execute(Open) ELSE Open
  PROVE  /\ Fed(h, Held, host.usage) /\ Gathered(h, host.usage)
         /\ h.usage = 0 /\ h.data = << >>
         /\ h.out = << >> \/ h.out[Len(h.out)] = Flush
  <1>1. /\ Fed(Open, Held, host.usage) /\ Tidy(Open) /\ serprog.write_n \in Nat
        /\ Gathered(Open, host.usage)
        /\ Open.data = host.data /\ Open.usage = host.usage /\ host.usage \in Nat
        /\ Open.out = << >>
    BY OpenFed
  <1>2. CASE host.usage > 0 \/ Pending(host)
    <2>1. h = Execute(Open)
      BY <1>2
    <2> QED BY <1>1, <2>1, ExecuteFed DEF Tidy
  <1>3. CASE ~(host.usage > 0 \/ Pending(host))
    <2>1. h = Open
      BY <1>3
    <2>2. Open.usage = 0
      BY <1>1, <1>3
    <2>3. Open.data = << >>
      BY <1>1, <1>3 DEF Pending, Tidy
    <2> QED BY <1>1, <2>1, <2>2, <2>3
  <1> QED BY <1>2, <1>3

-----------------------------------------------------------------------------
(* What a call puts in the list: writes first, and then what it waits for.  *)
Halves(t, w, z, n, m) ==
  /\ n \in Nat /\ m \in Nat /\ Len(t) = n + m /\ Len(w) = n /\ Len(z) = m
  /\ \A k \in 1 .. n : t[k] = w[k] /\ w[k] \in WriteItem
  /\ \A k \in 1 .. m : t[n + k] = z[k]
Trailer(z, s) ==
  /\ TodoShape(z) /\ StreamsFlush(z)
  /\ \A k \in 1 .. Len(z) : ~BufferOp(z[k].cmd) /\ z[k].cmd.cmd # "exec"
  /\ z # << >> =>
       /\ z[1].do \notin {"ack", "data"}
       /\ s = "busy" => z[Len(z)].do = "data"
       /\ s = "stopping" => z[Len(z)].do = "ack" /\ \A k \in 1 .. Len(z) : z[k].do # "data"
  /\ \A k \in 1 .. Len(z) : z[k].do = "docommand" => (z[k].cmd.cmd = "pin") = (s = "stopping")
MayFollow(w, z) ==
  z # << >> /\ z[1].do = "docommand" => w = << >> \/ w[Len(w)] = Flush

(* The list of a call has two halves: operations that are buffered, and     *)
(* what is asked after them.                                                *)
LEMMA HalvesOf ==
  ASSUME NEW w \in Seq(WriteItem), NEW z \in Seq(Item)
  PROVE  /\ \E n \in Nat, m \in Nat : Halves(w \o z, w, z, n, m)
         /\ w \o z \in Seq(Item)
  <1>1. PICK t : t = w \o z
    OBVIOUS
  <1>2. w \in Seq(Item) /\ Joined(t, w, z)
    BY <1>1, WriteItems DEF Joined
  <1>3. /\ Len(t) = Len(w) + Len(z) /\ t \in Seq(Item)
        /\ \A k \in 1 .. Len(w) + Len(z) : t[k] = IF k <= Len(w) THEN w[k] ELSE z[k - Len(w)]
    BY <1>2, JoinPlaces
  <1>4. PICK n \in Nat : n = Len(w)
    OBVIOUS
  <1>5. PICK m \in Nat : m = Len(z)
    OBVIOUS
  <1>6. \A k \in 1 .. n : t[k] = w[k] /\ w[k] \in WriteItem
    <2> SUFFICES ASSUME NEW k \in 1 .. n PROVE t[k] = w[k] /\ w[k] \in WriteItem
      OBVIOUS
    <2>1. k \in 1 .. n + m /\ k <= n
      OBVIOUS
    <2> QED BY <1>3, <1>4, <1>5, <2>1
  <1>7. \A k \in 1 .. m : t[n + k] = z[k]
    <2> SUFFICES ASSUME NEW k \in 1 .. m PROVE t[n + k] = z[k]
      OBVIOUS
    <2>1. n + k \in 1 .. n + m /\ ~(n + k <= n) /\ (n + k) - n = k
      OBVIOUS
    <2> QED BY <1>3, <1>4, <1>5, <2>1
  <1>8. Halves(t, w, z, n, m)
    BY <1>3, <1>4, <1>5, <1>6, <1>7 DEF Halves
  <1> QED BY <1>1, <1>3, <1>8

(* The places of the two halves.                                            *)
LEMMA HalfPlaces ==
  ASSUME NEW t, NEW w, NEW z, NEW n, NEW m, Halves(t, w, z, n, m)
  PROVE  /\ \A k \in 1 .. n + m : k \notin 1 .. n => k - n \in 1 .. m /\ t[k] = z[k - n]
         /\ \A k \in 1 .. n :
              t[k].do \in {"stream", "flush"} /\ ~IsImmediate(t[k].cmd) /\ ~Awaits(t[k])
  <1>1. ASSUME NEW k \in 1 .. n + m, k \notin 1 .. n PROVE k - n \in 1 .. m /\ t[k] = z[k - n]
    <2>1. n \in Nat /\ m \in Nat
      BY DEF Halves
    <2>2. k - n \in 1 .. m /\ n + (k - n) = k
      BY <1>1, <2>1
    <2> QED BY <2>2 DEF Halves
  <1>2. ASSUME NEW k \in 1 .. n
        PROVE  t[k].do \in {"stream", "flush"} /\ ~IsImmediate(t[k].cmd) /\ ~Awaits(t[k])
    <2>1. t[k] \in WriteItem
      BY DEF Halves
    <2>2. t[k].do \in {"stream", "flush"} /\ ~IsImmediate(t[k].cmd)
      BY <2>1, WriteItems
    <2> QED BY <2>2 DEF Awaits
  <1> QED BY <1>1, <1>2

(* A list of two halves has the shape that a list should have.              *)
LEMMA ShapeJoin ==
  ASSUME NEW t, NEW w \in Seq(WriteItem), NEW z \in Seq(Item), NEW n, NEW m, Halves(t, w, z, n, m),
         NEW s, Trailer(z, s), MayFollow(w, z)
  PROVE  TodoShape(t)
  <1>1. /\ n \in Nat /\ m \in Nat /\ Len(t) = n + m /\ Len(w) = n /\ Len(z) = m
        /\ \A k \in 1 .. n : t[k] = w[k]
    BY DEF Halves
  <1>2. /\ \A k \in 1 .. n + m : k \notin 1 .. n => k - n \in 1 .. m /\ t[k] = z[k - n]
        /\ \A k \in 1 .. n :
             t[k].do \in {"stream", "flush"} /\ ~IsImmediate(t[k].cmd) /\ ~Awaits(t[k])
    BY HalfPlaces
  <1>3. TodoShape(z)
    BY DEF Trailer
  <1>4. ASSUME NEW k \in 2 .. n + m
        PROVE  /\ t[k].do = "data" => t[k - 1].do \in {"flush", "ack"}
               /\ t[k].do = "ack" <=> t[k - 1].do = "docommand"
               /\ t[k].do = "docommand" => t[k - 1].do = "flush"
    <2>0. k \in 1 .. n + m /\ k - 1 \in 1 .. n + m
      BY <1>1
    <2>1. CASE k \in 1 .. n
      <3>1. k - 1 \in 1 .. n
        BY <1>1, <2>1
      <3> QED BY <1>2, <2>1, <3>1
    <2>2. CASE k \notin 1 .. n /\ k - 1 \in 1 .. n
      <3>1. k - n = 1 /\ k - 1 = n
        BY <1>1, <2>0, <2>2
      <3>2. t[k] = z[1] /\ 1 \in 1 .. m
        BY <1>2, <2>0, <2>2, <3>1
      <3>3. z # << >>
        BY <1>1, <3>2
      <3>4. z[1].do \notin {"ack", "data"}
        BY <3>3 DEF Trailer
      <3>5. t[k - 1].do # "docommand"
        BY <1>2, <2>2
      <3>6. z[1].do = "docommand" => t[k - 1].do = "flush"
        <4>1. n # 0
          BY <1>1, <2>2
        <4>2. w # << >>
          BY <1>1, <4>1
        <4>3. z[1].do = "docommand" => w[n] = Flush
          BY <1>1, <3>3, <4>2 DEF MayFollow
        <4>4. t[k - 1] = w[n]
          BY <1>1, <2>2, <3>1
        <4> QED BY <4>3, <4>4 DEF Flush
      <3> QED BY <3>2, <3>4, <3>5, <3>6
    <2>3. CASE k \notin 1 .. n /\ k - 1 \notin 1 .. n
      <3>1. t[k] = z[k - n] /\ t[k - 1] = z[(k - 1) - n]
        BY <1>2, <2>0, <2>3
      <3>2. k - n \in 2 .. m /\ (k - 1) - n = (k - n) - 1
        BY <1>1, <2>0, <2>3
      <3>3. /\ z[k - n].do = "data" => z[(k - n) - 1].do \in {"flush", "ack"}
            /\ z[k - n].do = "ack" <=> z[(k - n) - 1].do = "docommand"
            /\ z[k - n].do = "docommand" => z[(k - n) - 1].do = "flush"
        BY <1>1, <1>3, <3>2 DEF TodoShape
      <3> QED BY <3>1, <3>2, <3>3
    <2> QED BY <2>1, <2>2, <2>3
  <1>5. ASSUME NEW k \in 1 .. n + m
        PROVE  /\ t[k].do = "docommand" => n + m <= k + 2
               /\ t[k].do = "ack" => n + m <= k + 1
    <2>1. CASE k \in 1 .. n
      BY <1>2, <2>1
    <2>2. CASE k \notin 1 .. n
      <3>1. k - n \in 1 .. m /\ t[k] = z[k - n]
        BY <1>2, <2>2
      <3>2. /\ t[k].do = "docommand" => m <= (k - n) + 2
            /\ t[k].do = "ack" => m <= (k - n) + 1
        BY <1>1, <1>3, <3>1 DEF TodoShape
      <3> QED BY <1>1, <3>2
    <2> QED BY <2>1, <2>2
  <1>6. ASSUME NEW k \in 1 .. n + m, NEW j \in 1 .. n + m, k < j, Awaits(t[k])
        PROVE  ~BufferOp(t[j].cmd) /\ t[j].cmd.cmd # "exec"
    <2>1. k \notin 1 .. n
      BY <1>2, <1>6
    <2>2. j \notin 1 .. n
      BY <1>1, <1>6, <2>1
    <2>3. j - n \in 1 .. m /\ t[j] = z[j - n]
      BY <1>2, <2>2
    <2> QED BY <1>1, <2>3 DEF Trailer
  <1>7. ASSUME NEW k \in 1 .. n + m, IsImmediate(t[k].cmd)
        PROVE  \E j \in 1 .. n + m : j > k /\ IsAnswer(t[j])
    <2>1. k \notin 1 .. n
      BY <1>2, <1>7
    <2>2. k - n \in 1 .. m /\ t[k] = z[k - n]
      BY <1>2, <2>1
    <2>3. PICK l \in 1 .. m : l > k - n /\ IsAnswer(z[l])
      BY <1>1, <1>3, <1>7, <2>2 DEF TodoShape
    <2>4. n + l \in 1 .. n + m /\ n + l > k
      BY <1>1, <2>3
    <2>5. t[n + l] = z[l]
      BY DEF Halves
    <2> QED BY <2>3, <2>4, <2>5
  <1> QED BY <1>1, <1>4, <1>5, <1>6, <1>7 DEF TodoShape

(* Where on the way the operation buffer is executed.                       *)
LEMMA WayJoin ==
  ASSUME NEW t, NEW w, NEW z, NEW n, NEW m, Halves(t, w, z, n, m), t \in Seq(Item),
         NEW s, Trailer(z, s), NEW u,
         NEW q \in Seq(ListedCmd), \A k \in 1 .. Len(q) : ~IsImmediate(q[k]),
         u = 0 => Drained(q),
         NEW r, Joined(r, q, Cmds(t))
  PROVE  /\ NoneBehind(r)
         /\ Emptied(w, u) \/ z = << >> => Settled(r)
         /\ Emptied(w, u) => Drained(r)
  <1>1. /\ n \in Nat /\ m \in Nat /\ Len(t) = n + m /\ Len(w) = n /\ Len(z) = m
        /\ \A k \in 1 .. n : t[k] = w[k]
    BY DEF Halves
  <1>2. /\ \A k \in 1 .. n + m : k \notin 1 .. n => k - n \in 1 .. m /\ t[k] = z[k - n]
        /\ \A k \in 1 .. n :
             t[k].do \in {"stream", "flush"} /\ ~IsImmediate(t[k].cmd) /\ ~Awaits(t[k])
    BY HalfPlaces
  <1>3. PICK l \in Nat : l = Len(q)
    OBVIOUS
  <1>4. Cmds(t) \in Seq(ListedCmd) /\ Len(Cmds(t)) = Len(t) /\ \A k \in 1 .. Len(t) :
                                                                 Cmds(t)[k] = t[k].cmd
    BY CmdsType
  <1>5. PICK c \in Seq(ListedCmd) : c = Cmds(t)
    BY <1>4
  <1>6. Len(c) = n + m /\ \A k \in 1 .. n + m : c[k] = t[k].cmd
    BY <1>1, <1>4, <1>5
  <1>30. n \in Nat /\ m \in Nat /\ l \in Nat
    BY <1>1
  <1>31. Joined(r, q, c)
    BY <1>5
  <1>7. /\ Len(r) = Len(q) + Len(c)
        /\ \A k \in 1 .. Len(q) + Len(c) : r[k] = IF k <= Len(q) THEN q[k] ELSE c[k - Len(q)]
    BY ONLY q \in Seq(ListedCmd), c \in Seq(ListedCmd), <1>31, JoinPlaces
  <1>8. Len(r) = l + n + m /\ \A k \in 1 .. l + n + m : r[k] = IF k <= l THEN q[k] ELSE c[k - l]
    BY <1>1, <1>3, <1>6, <1>7
  <1>9. ASSUME NEW k \in 1 .. l PROVE r[k] = q[k] /\ ~IsImmediate(r[k]) /\ k \in 1 .. Len(q)
    <2>1. k \in 1 .. l + n + m /\ k <= l
      BY <1>1
    <2> QED BY <1>3, <1>8, <2>1
  <1>10. ASSUME NEW k \in 1 .. n PROVE r[l + k] = w[k].cmd /\ ~IsImmediate(r[l + k])
    <2>1. l + k \in 1 .. l + n + m /\ ~(l + k <= l) /\ (l + k) - l = k /\ k \in 1 .. n + m
      BY ONLY <1>30, k \in 1 .. n
    <2> QED BY <1>1, <1>2, <1>6, <1>8, <2>1
  <1>11. ASSUME NEW k \in 1 .. m PROVE r[l + n + k] = z[k].cmd /\ ~BufferOp(r[l + n + k])
    <2>1. l + n + k \in 1 .. l + n + m /\ ~(l + n + k <= l) /\ (l + n + k) - l = n + k
          /\ n + k \in 1 .. n + m
      BY <1>1
    <2>2. t[n + k] = z[k]
      BY DEF Halves
    <2>3. r[l + n + k] = z[k].cmd
      BY <1>6, <1>8, <2>1, <2>2
    <2> QED BY <1>1, <2>3 DEF Trailer
  <1>12. \A k \in 1 .. l + n + m : \/ k \in 1 .. l
                                   \/ k - l \in 1 .. n /\ l + (k - l) = k
                                   \/ k - (l + n) \in 1 .. m /\ l + n + (k - (l + n)) = k
    BY ONLY <1>30
  <1>13. ASSUME NEW k \in 1 .. l + n + m, IsImmediate(r[k])
         PROVE  k > l + n /\ z # << >>
    <2>1. k \notin 1 .. l
      BY <1>9, <1>13
    <2>2. k - l \notin 1 .. n
      <3> SUFFICES ASSUME k - l \in 1 .. n, l + (k - l) = k PROVE FALSE
        BY <1>1, <1>12
      <3>1. ~IsImmediate(r[l + (k - l)])
        BY <1>10
      <3> QED BY <1>13, <3>1
    <2>3. k - (l + n) \in 1 .. m
      BY <1>12, <2>1, <2>2
    <2>4. m # 0
      BY <1>1, <2>3
    <2> QED BY <1>1, <2>3, <2>4
  <1>14. ASSUME NEW j \in 1 .. l + n + m, BufferOp(r[j]), Emptied(w, u)
         PROVE  \E y \in 1 .. l + n : j < y /\ r[y].cmd = "exec"
    <2>1. CASE j \in 1 .. l
      <3>1. CASE u = 0
        <4>1. PICK y \in 1 .. Len(q) : j < y /\ q[y].cmd = "exec"
          BY <1>9, <1>14, <2>1, <3>1 DEF Drained
        <4>2. y \in 1 .. l /\ y \in 1 .. l + n
          BY <1>1, <1>3
        <4> QED BY <1>9, <4>1, <4>2
      <3>2. CASE u # 0
        <4>1. PICK y \in 1 .. n : w[y].cmd.cmd = "exec"
          BY <1>1, <1>14, <3>2 DEF Emptied
        <4>2. l + y \in 1 .. l + n /\ j < l + y
          BY ONLY <1>30, <2>1, y \in 1 .. n
        <4> QED BY <1>10, <4>1, <4>2
      <3> QED BY <3>1, <3>2
    <2>2. CASE j - l \in 1 .. n /\ l + (j - l) = j
      <3>1. PICK p \in 1 .. n : p = j - l /\ l + p = j
        BY <2>2
      <3>2. BufferOp(w[p].cmd)
        BY <1>10, <1>14, <3>1
      <3>3. PICK y \in 1 .. n : p < y /\ w[y].cmd.cmd = "exec"
        BY <1>1, <1>14, <3>2 DEF Emptied
      <3>4. l + y \in 1 .. l + n /\ j < l + y
        BY ONLY <1>30, <3>1, <3>3, p \in 1 .. n, y \in 1 .. n
      <3> QED BY <1>10, <3>3, <3>4
    <2>3. CASE j - (l + n) \in 1 .. m /\ l + n + (j - (l + n)) = j
      <3>1. ~BufferOp(r[l + n + (j - (l + n))])
        BY <1>11, <2>3
      <3> QED BY <1>14, <2>3, <3>1
    <2> QED BY <1>12, <2>1, <2>2, <2>3
  <1>15. NoneBehind(r)
    <2> SUFFICES ASSUME NEW j \in 1 .. l + n + m, NEW k \in 1 .. l + n + m, k < j, IsImmediate(r[k])
                 PROVE  ~BufferOp(r[j])
      BY <1>8 DEF NoneBehind
    <2>1. k > l + n
      BY <1>13
    <2>2. j - (l + n) \in 1 .. m /\ l + n + (j - (l + n)) = j
      BY <1>1, <2>1
    <2>3. ~BufferOp(r[l + n + (j - (l + n))])
      BY <1>11, <2>2
    <2> QED BY <2>2, <2>3
  <1>16. ASSUME Emptied(w, u) \/ z = << >> PROVE Settled(r)
    <2> SUFFICES ASSUME NEW j \in 1 .. l + n + m, NEW k \in 1 .. l + n + m, j < k, BufferOp(r[j]),
                        IsImmediate(r[k])
                 PROVE  \E y \in 1 .. l + n + m : j < y /\ y < k /\ r[y].cmd = "exec"
      BY <1>8 DEF Settled
    <2>1. k > l + n /\ z # << >>
      BY <1>13
    <2>2. PICK y \in 1 .. l + n : j < y /\ r[y].cmd = "exec"
      BY <1>14, <1>16, <2>1
    <2>3. y \in 1 .. l + n + m /\ y < k
      BY <1>1, <2>1
    <2> QED BY <2>2, <2>3
  <1>17. ASSUME Emptied(w, u) PROVE Drained(r)
    <2> SUFFICES ASSUME NEW j \in 1 .. l + n + m, BufferOp(r[j])
                 PROVE  \E y \in 1 .. l + n + m : j < y /\ r[y].cmd = "exec"
      BY <1>8 DEF Drained
    <2>1. PICK y \in 1 .. l + n : j < y /\ r[y].cmd = "exec"
      BY <1>14, <1>17
    <2>2. y \in 1 .. l + n + m
      BY <1>1
    <2> QED BY <2>1, <2>2
  <1> QED BY <1>15, <1>16, <1>17

(* What the list says of the call, when it is put together of the two.      *)
LEMMA ListJoin ==
  ASSUME NEW t, NEW w \in Seq(WriteItem), NEW z \in Seq(Item), NEW n, NEW m, Halves(t, w, z, n, m),
         NEW s, Trailer(z, s), NEW u
  PROVE  /\ Collected(w, u) \/ Flushes(z) => Collected(t, u)
         /\ Waits(t) => z # << >>
         /\ Len(t) # 0 => t[1].do # "ack"
         /\ Len(t) # 0 /\ Awaits(t[1]) => w = << >> /\ z # << >>
         /\ z # << >> => Len(t) # 0 /\ t[Len(t)] = z[Len(z)]
  <1>1. /\ n \in Nat /\ m \in Nat /\ Len(t) = n + m /\ Len(w) = n /\ Len(z) = m
        /\ \A k \in 1 .. n : t[k] = w[k]
        /\ \A k \in 1 .. m : t[n + k] = z[k]
    BY DEF Halves
  <1>2. n \in Nat /\ m \in Nat
    BY <1>1
  <1>3. /\ \A k \in 1 .. n + m : k \notin 1 .. n => k - n \in 1 .. m /\ t[k] = z[k - n]
        /\ \A k \in 1 .. n :
             t[k].do \in {"stream", "flush"} /\ ~IsImmediate(t[k].cmd) /\ ~Awaits(t[k])
    BY HalfPlaces
  <1>4. m # 0 => z # << >>
    BY <1>1
  <1>5. n = 0 => w = << >>
    BY <1>1, NoLength
  <1>6. ASSUME Flushes(z) PROVE Collected(t, u)
    <2>1. PICK l \in 1 .. m : z[l].do = "flush"
      BY <1>1, <1>6 DEF Flushes
    <2>2. n + l \in 1 .. n + m /\ t[n + l].do = "flush"
      BY <1>1, <2>1
    <2>3. ASSUME NEW k \in 1 .. n + m, t[k].do = "stream"
          PROVE  \E j \in 1 .. n + m : j > k /\ t[j].do = "flush"
      <3>1. CASE k \in 1 .. n
        <4>1. n + l > k
          BY <1>2, <3>1
        <4> QED BY <2>2, <4>1
      <3>2. CASE k \notin 1 .. n
        <4>1. k - n \in 1 .. m /\ t[k] = z[k - n]
          BY <1>3, <3>2
        <4>2. PICK j \in 1 .. m : j > k - n /\ z[j].do = "flush"
          BY <1>1, <2>3, <4>1 DEF Trailer, StreamsFlush
        <4>3. n + j \in 1 .. n + m /\ n + j > k
          BY <1>2, <4>2
        <4> QED BY <1>1, <4>2, <4>3
      <3> QED BY <3>1, <3>2
    <2> QED BY <1>1, <2>2, <2>3 DEF Collected, StreamsFlush, Flushes
  <1>7. ASSUME Collected(w, u) PROVE Collected(t, u)
    <2>0. \A k \in 1 .. n : k \in 1 .. n + m
      BY <1>2
    <2>1. u = 0 \/ \E l \in 1 .. n + m : t[l].do = "flush"
      BY <1>1, <1>7, <2>0 DEF Collected, Flushes
    <2>2. ASSUME NEW k \in 1 .. n + m, t[k].do = "stream"
          PROVE  \E j \in 1 .. n + m : j > k /\ t[j].do = "flush"
      <3>1. CASE k \in 1 .. n
        BY <1>1, <1>7, <2>0, <2>2, <3>1 DEF Collected, StreamsFlush
      <3>2. CASE k \notin 1 .. n
        <4>1. k - n \in 1 .. m /\ t[k] = z[k - n]
          BY <1>3, <3>2
        <4>2. PICK j \in 1 .. m : j > k - n /\ z[j].do = "flush"
          BY <1>1, <2>2, <4>1 DEF Trailer, StreamsFlush
        <4>3. n + j \in 1 .. n + m /\ n + j > k
          BY <1>2, <4>2
        <4> QED BY <1>1, <4>2, <4>3
      <3> QED BY <3>1, <3>2
    <2> QED BY <1>1, <2>1, <2>2 DEF Collected, StreamsFlush, Flushes
  <1>8. ASSUME Waits(t) PROVE z # << >>
    <2>1. PICK k \in 1 .. n + m : Awaits(t[k])
      BY <1>1, <1>8 DEF Waits
    <2>2. k - n \in 1 .. m
      BY <1>3, <2>1
    <2> QED BY <1>2, <1>4, <2>2
  <1>9. ASSUME Len(t) # 0 PROVE t[1].do # "ack" /\ (Awaits(t[1]) => w = << >> /\ z # << >>)
    <2>1. 1 \in 1 .. n + m
      BY <1>1, <1>9
    <2>2. CASE 1 \in 1 .. n
      <3>1. t[1].do \in {"stream", "flush"} /\ ~Awaits(t[1])
        BY <1>3, <2>2
      <3> QED BY <3>1
    <2>3. CASE 1 \notin 1 .. n
      <3>1. n = 0 /\ 1 - n \in 1 .. m /\ t[1] = z[1 - n]
        BY <1>2, <1>3, <2>1, <2>3
      <3>2. t[1] = z[1] /\ z # << >>
        BY <1>1, <3>1
      <3> QED BY <1>5, <3>1, <3>2 DEF Trailer
    <2> QED BY <2>2, <2>3
  <1>10. ASSUME z # << >> PROVE Len(t) # 0 /\ t[Len(t)] = z[Len(z)]
    <2>1. m # 0
      BY <1>1, <1>10
    <2>2. m \in 1 .. m /\ n + m # 0
      BY <1>2, <2>1
    <2> QED BY <1>1, <2>2
  <1> QED BY <1>6, <1>7, <1>8, <1>9, <1>10

(* It ends as a list should.                                                *)
LEMMA EndsJoin ==
  ASSUME NEW t \in Seq(Item), NEW w \in Seq(WriteItem), NEW z \in Seq(Item), NEW n, NEW m,
         Halves(t, w, z, n, m),
         NEW s \in {"busy", "stopping"}, Trailer(z, s), MayFollow(w, z),
         s = "stopping" => z # << >>,
         NEW s2, s2 = IF t = << >> THEN "idle" ELSE s
  PROVE  EndsAt(t, s2, "none")
  <1>1. CASE t = << >>
    BY <1>1, NothingEnds
  <1>2. CASE t # << >>
    <2>1. s2 = s /\ TodoShape(t)
      BY <1>2, ShapeJoin
    <2>2. /\ n \in Nat /\ m \in Nat /\ Len(t) = n + m /\ Len(z) = m
          /\ \A k \in 1 .. m : t[n + k] = z[k]
      BY DEF Halves
    <2>3. /\ \A k \in 1 .. n + m : k \notin 1 .. n => k - n \in 1 .. m /\ t[k] = z[k - n]
          /\ \A k \in 1 .. n : t[k].do \in {"stream", "flush"}
      BY HalfPlaces
    <2>4. /\ Waits(t) => z # << >>
          /\ z # << >> => t[Len(t)] = z[Len(z)]
      BY ListJoin
    <2>5. s = "busy" /\ Waits(t) => t[Len(t)].do = "data"
      BY <2>4 DEF Trailer
    <2>6. m # 0 => z # << >>
      BY <2>2
    <2>7. ASSUME s = "stopping"
          PROVE  t[Len(t)].do = "ack" /\ \A k \in 1 .. Len(t) : t[k].do # "data"
      <3>1. t[Len(t)].do = "ack" /\ \A k \in 1 .. m : z[k].do # "data"
        BY <2>2, <2>4, <2>7 DEF Trailer
      <3>2. \A k \in 1 .. n + m : t[k].do # "data"
        BY <2>3, <3>1
      <3> QED BY <2>2, <3>1, <3>2
    <2>8. ASSUME NEW k \in 1 .. n + m, t[k].do = "docommand"
          PROVE  (t[k].cmd.cmd = "pin") = (s = "stopping")
      <3>1. k - n \in 1 .. m /\ t[k] = z[k - n]
        BY <2>3, <2>8
      <3> QED BY <2>2, <2>8, <3>1 DEF Trailer
    <2> QED BY <1>2, <2>1, <2>2, <2>5, <2>7, <2>8 DEF EndsAt
  <1> QED BY <1>1, <1>2

(* What is waited for at the end is all that is waited for.                 *)
LEMMA WantedJoin ==
  ASSUME NEW w \in Seq(WriteItem), NEW z \in Seq(Item)
  PROVE  Len(AllWanted(w \o z)) = Len(AllWanted(z))
  <1>1. w \in Seq(Item)
    BY WriteItems
  <1>2. WantsMap \in [Item -> Seq({0})]
    <2>1. << >> \in Seq(Event)
      OBVIOUS
    <2> QED BY <2>1, MapTypes
  <1>3. FlatMapJoins(WantsMap, w, z)
    BY ONLY <1>1, z \in Seq(Item), <1>2, FlatMapConcat
  <1>4. Barren(WantsMap, w)
    <2> SUFFICES ASSUME NEW k \in 1 .. Len(w) PROVE WantsMap[w[k]] = << >>
      BY DEF Barren
    <2>1. w[k] \in WriteItem
      OBVIOUS
    <2>2. w[k] \in Item /\ w[k].do # "data"
      BY <2>1, WriteItems
    <2> QED BY <2>2 DEF WantsMap
  <1>5. FlatMap(WantsMap, w) = << >>
    BY ONLY <1>1, <1>2, <1>4, FlatMapNone
  <1>6. FlatMap(WantsMap, z) \in Seq({0})
    BY ONLY z \in Seq(Item), <1>2, FlatMapType
  <1>7. FlatMap(WantsMap, w \o z) = << >> \o FlatMap(WantsMap, z)
    BY <1>3, <1>5 DEF FlatMapJoins
  <1>8. FlatMap(WantsMap, w \o z) = FlatMap(WantsMap, z)
    BY <1>6, <1>7
  <1>9. w \o z \in Seq(Item)
    BY HalvesOf
  <1> QED BY <1>8, <1>9, AllWantedMap

(* What a call puts on the way to the chip.                                 *)
LEMMA CallWay ==
  ASSUME SerprogType, todo = << >>, NEW w \in Seq(WriteItem), NEW z \in Seq(Item), NEW s,
         Trailer(z, s),
         todo' = w \o z, UNCHANGED <<opbuf, input>>
  PROVE  /\ OnTheWay \in Seq(ListedCmd) /\ Joined(OnTheWay', OnTheWay, Cmds(w \o z))
         /\ Joined(OnTheWay, opbuf, input)
         /\ opbuf \in Seq(ListedCmd) /\ input \in Seq(ListedCmd)
         /\ Cmds(w \o z) = Cmds(w) \o Cmds(z)
         /\ Cmds(w) \in Seq(ListedCmd) /\ Cmds(z) \in Seq(ListedCmd)
  <1>1. /\ opbuf \in Seq(ListedCmd) /\ input \in Seq(ListedCmd)
        /\ OnTheWay = Line(opbuf, input, todo) /\ OnTheWay \in Seq(ListedCmd)
    BY WayType
  <1>2. w \in Seq(Item) /\ w \o z \in Seq(Item)
    BY WriteItems, HalvesOf
  <1>3. Cmds(w) \in Seq(ListedCmd) /\ Cmds(z) \in Seq(ListedCmd)
    BY <1>2, CmdsType
  <1>4. Cmds(w \o z) = Cmds(w) \o Cmds(z)
    BY <1>2, CmdsConcat
  <1>5. Cmds(<< >>) = << >>
    BY DEF Cmds
  <1>6. OnTheWay = (opbuf \o input) \o << >>
    BY <1>1, <1>5 DEF Line
  <1>7. opbuf \o input \in Seq(ListedCmd)
    BY ONLY <1>1, ConcatProperties
  <1>8. OnTheWay = opbuf \o input
    BY ONLY <1>6, <1>7
  <1>9. OnTheWay' = (opbuf \o input) \o Cmds(w \o z)
    BY DEF OnTheWay, Sent, Cmds
  <1> QED BY <1>1, <1>3, <1>4, <1>8, <1>9 DEF Joined

(* Writes owe nothing, what is waited for at the end changes nothing.       *)
LEMMA CallMakes ==
  ASSUME SerprogType, todo = << >>, NEW w \in Seq(WriteItem), NEW z \in Seq(Item), NEW s,
         Trailer(z, s),
         todo' = w \o z, UNCHANGED <<opbuf, input>>
  PROVE  /\ AllEffects(OnTheWay') = AllEffects(OnTheWay) \o AllEffects(Cmds(w))
         /\ AllEffects(OnTheWay) \in Seq(Event) /\ AllEffects(Cmds(w)) \in Seq(Event)
  <1>1. /\ OnTheWay \in Seq(ListedCmd) /\ Joined(OnTheWay', OnTheWay, Cmds(w \o z))
        /\ Cmds(w \o z) = Cmds(w) \o Cmds(z)
        /\ Cmds(w) \in Seq(ListedCmd) /\ Cmds(z) \in Seq(ListedCmd)
    BY CallWay
  <1>2. PICK c \in Seq(ListedCmd), d \in Seq(ListedCmd), q \in Seq(ListedCmd) :
          c = Cmds(w) /\ d = Cmds(z) /\ q = OnTheWay
    BY <1>1
  <1>3. c \o d \in Seq(ListedCmd)
    BY ONLY c \in Seq(ListedCmd), d \in Seq(ListedCmd), ConcatProperties
  <1>4. AllEffects(d) = << >>
    <2>1. EffectsMap \in [ListedCmd -> Seq(Event)]
      <3>1. << >> \in Seq(Event)
        OBVIOUS
      <3> QED BY <3>1, MapTypes
    <2>2. Barren(EffectsMap, d)
      <3> SUFFICES ASSUME NEW k \in 1 .. Len(d) PROVE EffectsMap[d[k]] = << >>
        BY DEF Barren
      <3>1. d[k] \in ListedCmd
        OBVIOUS
      <3>2. Len(d) = Len(z) /\ d[k] = z[k].cmd
        BY <1>2, CmdsType
      <3>3. ~BufferOp(d[k])
        BY <3>2 DEF Trailer
      <3>4. Effects(d[k]) = << >>
        BY <3>1, <3>3, EffectsType
      <3> QED BY <3>1, <3>4 DEF EffectsMap
    <2>3. FlatMap(EffectsMap, d) = << >>
      BY ONLY d \in Seq(ListedCmd), <2>1, <2>2, FlatMapNone
    <2> QED BY <2>3, AllEffectsMap
  <1>5. OnTheWay' = q \o (c \o d)
    BY <1>1, <1>2 DEF Joined
  <1>6. AllEffects(q \o (c \o d)) = AllEffects(q) \o AllEffects(c \o d)
    BY ONLY q \in Seq(ListedCmd), <1>3, EffectsJoin
  <1>7. AllEffects(c \o d) = AllEffects(c) \o AllEffects(d) /\ AllEffects(c) \in Seq(Event)
        /\ AllEffects(q) \in Seq(Event)
    BY ONLY q \in Seq(ListedCmd), c \in Seq(ListedCmd), d \in Seq(ListedCmd), EffectsJoin
  <1>8. AllEffects(c \o d) = AllEffects(c)
    BY <1>4, <1>7
  <1> QED BY <1>2, <1>5, <1>6, <1>7, <1>8

(* Only the second half owes answers.                                       *)
LEMMA CallOwes ==
  ASSUME SerprogType, todo = << >>, NEW w \in Seq(WriteItem), NEW z \in Seq(Item), NEW s,
         Trailer(z, s),
         todo' = w \o z, UNCHANGED <<opbuf, input>>,
         NEW log \in Seq(Event), \A k \in 1 .. Len(OnTheWay) : ~IsImmediate(OnTheWay[k])
  PROVE  AllOwed(log, OnTheWay') = AllOwed(log, Cmds(z)) /\ AllOwed(log, Cmds(z)) \in Seq(Seq(Int))
  <1>1. /\ OnTheWay \in Seq(ListedCmd) /\ Joined(OnTheWay', OnTheWay, Cmds(w \o z))
        /\ Cmds(w \o z) = Cmds(w) \o Cmds(z)
        /\ Cmds(w) \in Seq(ListedCmd) /\ Cmds(z) \in Seq(ListedCmd)
    BY CallWay
  <1>2. PICK c \in Seq(ListedCmd), d \in Seq(ListedCmd), q \in Seq(ListedCmd) :
          c = Cmds(w) /\ d = Cmds(z) /\ q = OnTheWay
    BY <1>1
  <1>3. PICK E : E = OwesMap(log)
    OBVIOUS
  <1>4. E \in [ListedCmd -> Seq(Seq(Int))]
    BY <1>3, MapTypes
  <1>5. ASSUME NEW x \in ListedCmd, ~IsImmediate(x) PROVE E[x] = << >>
    BY <1>3, <1>5 DEF OwesMap, Owes, IsImmediate
  <1>6. Barren(E, q)
    <2> SUFFICES ASSUME NEW k \in 1 .. Len(q) PROVE E[q[k]] = << >>
      BY DEF Barren
    <2>1. q[k] \in ListedCmd /\ ~IsImmediate(q[k])
      BY <1>2
    <2> QED BY <1>5, <2>1
  <1>7. Barren(E, c)
    <2> SUFFICES ASSUME NEW k \in 1 .. Len(c) PROVE E[c[k]] = << >>
      BY DEF Barren
    <2>1. c[k] \in ListedCmd
      OBVIOUS
    <2>2. w \in Seq(Item)
      BY WriteItems
    <2>3. Len(c) = Len(w) /\ c[k] = w[k].cmd
      BY <1>2, <2>2, CmdsType
    <2>4. w[k] \in WriteItem
      BY <2>3
    <2>5. ~IsImmediate(c[k])
      BY <2>3, <2>4, WriteItems
    <2> QED BY <1>5, <2>1, <2>5
  <1>8. FlatMap(E, q) = << >>
    BY ONLY q \in Seq(ListedCmd), <1>4, <1>6, FlatMapNone
  <1>9. FlatMap(E, c) = << >>
    BY ONLY c \in Seq(ListedCmd), <1>4, <1>7, FlatMapNone
  <1>10. FlatMap(E, d) \in Seq(Seq(Int))
    BY ONLY d \in Seq(ListedCmd), <1>4, FlatMapType
  <1>11. PICK e \in Seq(ListedCmd) : e = c \o d
    BY ConcatProperties
  <1>12. FlatMapJoins(E, q, e)
    BY ONLY q \in Seq(ListedCmd), e \in Seq(ListedCmd), <1>4, FlatMapConcat
  <1>13. FlatMapJoins(E, c, d)
    BY ONLY c \in Seq(ListedCmd), d \in Seq(ListedCmd), <1>4, FlatMapConcat
  <1>14. FlatMap(E, e) = << >> \o FlatMap(E, d)
    BY <1>9, <1>11, <1>13 DEF FlatMapJoins
  <1>15. FlatMap(E, e) = FlatMap(E, d)
    BY ONLY <1>10, <1>14
  <1>16. FlatMap(E, q \o e) = << >> \o FlatMap(E, d)
    BY <1>8, <1>12, <1>15 DEF FlatMapJoins
  <1>17. FlatMap(E, q \o e) = FlatMap(E, d)
    BY ONLY <1>10, <1>16
  <1>18. PICK r \in Seq(ListedCmd) : r = q \o e
    BY ConcatProperties
  <1>19. OnTheWay' = r
    BY <1>1, <1>2, <1>11, <1>18 DEF Joined
  <1>20. AllOwed(log, r) = FlatMap(E, r) /\ AllOwed(log, d) = FlatMap(E, d)
    BY <1>3, AllOwedMap
  <1> QED BY <1>2, <1>10, <1>17, <1>18, <1>19, <1>20

(* A call, by what it puts in the list: w are the writes that come first,   *)
(* z what is waited for, new what the caller has given to do to the chip.   *)
CallStep(w, z, s, new) ==
  /\ spc = "idle"
  /\ todo' = w \o z /\ spc' = IF todo' = << >> THEN "idle" ELSE s
  /\ issued' = issued \o new
  /\ got' = << >> /\ outcome' = "none"
  /\ UNCHANGED <<serprog, ops, link, input, answers, opbuf, performed, drivers, naks, refusals>>
CallTakes(w, z, s, new) ==
  /\ w \in Seq(WriteItem) /\ z \in Seq(Item) /\ new \in Seq(Event) /\ s \in {"busy", "stopping"}
  /\ Trailer(z, s) /\ MayFollow(w, z)
  /\ s = "stopping" => z # << >>
  /\ host' \in HostState /\ HostFits' /\ asked' \in Wants
  /\ Held \o new = AllEffects(Cmds(w)) \o Held'
  /\ host'.usage = 0 => Emptied(w, host.usage) /\ (Collected(w, host.usage) \/ Flushes(z))
  /\ z # << >> => host'.usage = 0 /\ host'.data = << >>
Owing(z, log, c) ==
  /\ Len(AllOwed(log, Cmds(z))) = Len(AllWanted(z))
  /\ FlattenSeq(AllOwed(log, Cmds(z))) = Promise(log, c)

(* A call adds what it asks for at the end of what is to be done.           *)
LEMMA CallConserved ==
  ASSUME SerprogInv, SerprogType', NEW w, NEW z, NEW s, NEW new, CallStep(w, z, s, new),
         CallTakes(w, z, s, new)
  PROVE  Conserved'
  <1>1. SerprogType /\ Conserved /\ todo = << >> /\ performed \in Seq(Event)
    BY DEF SerprogInv, SerprogType, TodoEnds, CallStep
  <1>2. /\ AllEffects(OnTheWay') = AllEffects(OnTheWay) \o AllEffects(Cmds(w))
        /\ AllEffects(OnTheWay) \in Seq(Event) /\ AllEffects(Cmds(w)) \in Seq(Event)
    BY <1>1, CallMakes DEF CallStep, CallTakes
  <1>3. Held \in Seq(Event) /\ (naks = {} => issued = (performed \o AllEffects(OnTheWay)) \o Held)
    BY <1>1, ConservedWay
  <1>4. Held' \in Seq(Event)
    BY ConservedNext
  <1>5. PICK p \in Seq(Event), e \in Seq(Event), f \in Seq(Event), h \in Seq(Event),
               h2 \in Seq(Event), x \in Seq(Event) :
          /\ p = performed /\ e = AllEffects(OnTheWay) /\ f = AllEffects(Cmds(w))
          /\ h = Held /\ h2 = Held' /\ x = new
    BY <1>1, <1>2, <1>3, <1>4 DEF CallTakes
  <1>6. PICK pe \in Seq(Event) : pe = p \o e
    BY ConcatProperties
  <1>7. AssocAt(pe, h, x) /\ AssocAt(pe, f, h2) /\ AssocAt(p, e, f)
    BY ONLY pe \in Seq(Event), h \in Seq(Event), x \in Seq(Event), f \in Seq(Event),
    h2 \in Seq(Event),
            p \in Seq(Event), e \in Seq(Event), Assoc
  <1>8. h \o x = f \o h2
    BY <1>5 DEF CallTakes
  <1>9. (pe \o h) \o x = (p \o (e \o f)) \o h2
    BY <1>6, <1>7, <1>8 DEF AssocAt
  <1>10. naks = {} => issued' = (performed \o AllEffects(OnTheWay')) \o Held'
    BY <1>2, <1>3, <1>5, <1>6, <1>9 DEF CallStep
  <1>11. performed' = performed /\ naks' = naks
    BY DEF CallStep
  <1> QED BY <1>10, <1>11, ConservedNext

(* Nothing but writes is under way when a call begins.                      *)
LEMMA QuietIdle ==
  ASSUME SerprogInv, Working, spc = "idle"
  PROVE  /\ \A k \in 1 .. Len(OnTheWay) : ~IsImmediate(OnTheWay[k])
         /\ host.usage = 0 => Drained(OnTheWay) /\ ops = 0
         /\ \A k \in 1 .. Len(input) : ~IsImmediate(input[k])
         /\ ~Naked => AllBrought(answers) = << >>
  <1>1. SerprogType /\ todo = << >> /\ Flow /\ Pipeline /\ Accounted
    BY DEF SerprogInv, TodoEnds
  <1>2. opbuf \in Seq(SerCmd(StoredKinds)) /\ answers \in Seq(OnLine) /\ ops \in Nat
        /\ issued \in Seq(Event)
    BY <1>1 DEF SerprogType
  <1>3. Len(todo) = 0
    BY <1>1
  <1>4. \A k \in 1 .. Len(input) : ~IsImmediate(input[k])
    BY <1>1, <1>3 DEF Pipeline
  <1>5. host.usage = 0 => Drained(OnTheWay) /\ ops = 0
    <2>1. host.usage = 0 => ~(ops > 0)
      BY <1>1, <1>3 DEF Flow
    <2> QED BY <1>1, <1>2, <2>1 DEF Pipeline
  <1>6. OnTheWay \in Seq(ListedCmd) /\ input \in Seq(ListedCmd) /\ opbuf \in Seq(ListedCmd)
        /\ OnTheWay = Line(opbuf, input, todo)
    BY <1>1, WayType
  <1>7. Cmds(<< >>) = << >>
    BY DEF Cmds
  <1>8. opbuf \o input \in Seq(ListedCmd)
    BY ONLY <1>6, ConcatProperties
  <1>9. OnTheWay = (opbuf \o input) \o << >>
    BY <1>1, <1>6, <1>7 DEF Line
  <1>10. PICK q : q = OnTheWay
    OBVIOUS
  <1>11. Joined(q, opbuf, input)
    BY <1>8, <1>9, <1>10 DEF Joined
  <1>12. /\ Len(q) = Len(opbuf) + Len(input)
         /\ \A k \in 1 .. Len(opbuf) + Len(input) :
              q[k] = IF k <= Len(opbuf) THEN opbuf[k] ELSE input[k - Len(opbuf)]
    <2>1. opbuf \in Seq(ListedCmd) /\ input \in Seq(ListedCmd)
      BY <1>6
    <2> QED BY ONLY <2>1, <1>11, JoinPlaces
  <1>13. PICK n \in Nat, m \in Nat : n = Len(opbuf) /\ m = Len(input)
    BY <1>6
  <1>14. ASSUME NEW k \in 1 .. n + m PROVE ~IsImmediate(q[k])
    <2>1. CASE k <= n
      <3>1. k \in 1 .. n /\ q[k] = opbuf[k]
        BY <1>12, <1>13, <2>1
      <3>2. opbuf[k] \in SerCmd(StoredKinds)
        BY <1>2, <1>13, <3>1
      <3>3. opbuf[k].cmd \in StoredKinds
        BY <3>2 DEF SerCmd
      <3> QED BY <3>1, <3>3 DEF StoredKinds, IsImmediate, ReadKinds
    <2>2. CASE ~(k <= n)
      <3>1. k - n \in 1 .. m
        BY <2>2
      <3>2. q[k] = input[k - n]
        BY <1>12, <1>13, <2>2
      <3> QED BY <1>4, <1>13, <3>1, <3>2
    <2> QED BY <2>1, <2>2
  <1>15. \A k \in 1 .. Len(OnTheWay) : ~IsImmediate(OnTheWay[k])
    BY <1>10, <1>12, <1>13, <1>14
  <1>16. ASSUME ~Naked PROVE AllBrought(answers) = << >>
    <2>1. PICK b \in Seq(Seq(Int)), o \in Seq(Seq(Int)) : b = AllBrought(answers)
          /\ o = AllOwed(issued, OnTheWay)
      BY <1>2, <1>6, BroughtType, OwedType
    <2>2. Len(b \o o) = Len(AllWanted(<< >>))
      BY <1>1, <1>16, <2>1 DEF Accounted, Owed
    <2>3. Len(AllWanted(<< >>)) = 0
      BY NoAnswers
    <2>4. Len(b \o o) = Len(b) + Len(o)
      BY ONLY b \in Seq(Seq(Int)), o \in Seq(Seq(Int)), ConcatProperties
    <2>5. Len(b) \in Nat /\ Len(o) \in Nat
      BY ONLY b \in Seq(Seq(Int)), o \in Seq(Seq(Int))
    <2>6. Len(b) = 0
      BY ONLY <2>2, <2>3, <2>4, <2>5
    <2>7. b = << >>
      BY ONLY b \in Seq(Seq(Int)), <2>6, NoLength
    <2> QED BY <2>1, <2>7
  <1> QED BY <1>4, <1>5, <1>15, <1>16

(* A call keeps what the commands on the way are to each other: what is     *)
(* asked comes behind an executed buffer.                                   *)
LEMMA CallPipeline ==
  ASSUME SerprogInv, Working, NEW w, NEW z, NEW s, NEW new, CallStep(w, z, s, new), CallTakes(w,
         z, s, new)
  PROVE  Pipeline'
  <1>1. SerprogType /\ todo = << >> /\ spc = "idle" /\ input' = input
    BY DEF SerprogInv, TodoEnds, CallStep
  <1>2. /\ \A k \in 1 .. Len(OnTheWay) : ~IsImmediate(OnTheWay[k])
        /\ host.usage = 0 => Drained(OnTheWay)
        /\ \A k \in 1 .. Len(input) : ~IsImmediate(input[k])
    BY <1>1, QuietIdle
  <1>3. w \in Seq(WriteItem) /\ z \in Seq(Item) /\ Trailer(z, s) /\ todo' = w \o z
    BY DEF CallStep, CallTakes
  <1>4. OnTheWay \in Seq(ListedCmd) /\ Joined(OnTheWay', OnTheWay, Cmds(w \o z))
    BY <1>1, <1>3, CallWay DEF CallStep
  <1>5. PICK t : t = w \o z
    OBVIOUS
  <1>6. (\E n \in Nat, m \in Nat : Halves(t, w, z, n, m)) /\ t \in Seq(Item)
    BY <1>3, <1>5, HalvesOf
  <1>7. PICK n \in Nat, m \in Nat : Halves(t, w, z, n, m)
    BY <1>6
  <1>8. PICK q \in Seq(ListedCmd) : q = OnTheWay
    BY <1>4
  <1>9. PICK r : r = OnTheWay'
    OBVIOUS
  <1>10. PICK u : u = host.usage
    OBVIOUS
  <1>11. /\ \A k \in 1 .. Len(q) : ~IsImmediate(q[k])
         /\ u = 0 => Drained(q)
         /\ Joined(r, q, Cmds(t))
    BY <1>2, <1>4, <1>5, <1>8, <1>9, <1>10
  <1>12. w \in Seq(WriteItem) /\ z \in Seq(Item) /\ Trailer(z, s)
    BY <1>3
  <1>13. /\ NoneBehind(r)
         /\ Emptied(w, u) \/ z = << >> => Settled(r)
         /\ Emptied(w, u) => Drained(r)
    BY ONLY <1>6, <1>7, <1>11, <1>12, q \in Seq(ListedCmd), WayJoin
  <1>14. host'.usage = 0 => Emptied(w, u)
    BY <1>10 DEF CallTakes
  <1>15. z # << >> => Emptied(w, u)
    BY <1>10 DEF CallTakes
  <1>16. Settled(OnTheWay') /\ NoneBehind(OnTheWay') /\ (host'.usage = 0 => Drained(OnTheWay'))
    BY <1>9, <1>13, <1>14, <1>15
  <1>17. \A k \in 1 .. Len(input') : ~IsImmediate(input'[k])
    BY <1>1, <1>2
  <1> QED BY <1>16, <1>17 DEF Pipeline

(* A call owes its caller what it asks for.                                 *)
LEMMA CallAccounted ==
  ASSUME SerprogInv, Working, NEW w, NEW z, NEW s, NEW new, CallStep(w, z, s, new), CallTakes(w,
         z, s, new),
         SerprogType', Owing(z, issued', asked')
  PROVE  Accounted'
  <1> SUFFICES ASSUME ~Naked'
               PROVE  /\ Len(Owed') = Len(AllWanted(todo'))
                      /\ outcome' # "error" => got' \o FlattenSeq(Owed') = Promise(issued', asked')
    BY DEF Accounted
  <1>1. SerprogType /\ todo = << >> /\ spc = "idle" /\ answers' = answers /\ ~Naked
    BY DEF SerprogInv, TodoEnds, CallStep, Naked
  <1>2. /\ \A k \in 1 .. Len(OnTheWay) : ~IsImmediate(OnTheWay[k])
        /\ AllBrought(answers) = << >>
    BY <1>1, QuietIdle
  <1>3. w \in Seq(WriteItem) /\ z \in Seq(Item) /\ Trailer(z, s) /\ todo' = w \o z /\ got' = << >>
    BY DEF CallStep, CallTakes
  <1>4. issued' \in Seq(Event) /\ asked' \in Wants
    BY DEF SerprogType
  <1>5. AllOwed(issued', OnTheWay') = AllOwed(issued', Cmds(z))
        /\ AllOwed(issued', Cmds(z)) \in Seq(Seq(Int))
    BY <1>1, <1>2, <1>3, <1>4, CallOwes DEF CallStep
  <1>6. Owed' = << >> \o AllOwed(issued', Cmds(z))
    BY <1>1, <1>2, <1>5 DEF Owed
  <1>7. Owed' = AllOwed(issued', Cmds(z))
    BY <1>5, <1>6
  <1>8. Len(AllWanted(todo')) = Len(AllWanted(z))
    BY <1>3, WantedJoin
  <1>9. Promise(issued', asked') \in Seq(Int)
    BY <1>4, PromiseKept
  <1>10. FlattenSeq(Owed') = Promise(issued', asked')
    BY <1>7 DEF Owing
  <1>11. got' \o FlattenSeq(Owed') = Promise(issued', asked')
    BY <1>3, <1>9, <1>10
  <1> QED BY <1>7, <1>8, <1>11 DEF Owing

(* A call keeps the counts of the flow control.                             *)
LEMMA CallFlow ==
  ASSUME SerprogInv, Working, NEW w, NEW z, NEW s, NEW new, CallStep(w, z, s, new), CallTakes(w,
         z, s, new)
  PROVE  Flow' /\ AckAlone'
  <1>1. SerprogType /\ Flow /\ spc = "idle" /\ ops \in Nat
    BY DEF SerprogInv, SerprogType, CallStep
  <1>2. w \in Seq(WriteItem) /\ z \in Seq(Item) /\ Trailer(z, s) /\ todo' = w \o z
        /\ s \in {"busy", "stopping"}
    BY DEF CallStep, CallTakes
  <1>3. PICK t : t = w \o z
    OBVIOUS
  <1>4. (\E n \in Nat, m \in Nat : Halves(t, w, z, n, m)) /\ t \in Seq(Item)
    BY <1>2, <1>3, HalvesOf
  <1>5. PICK n \in Nat, m \in Nat : Halves(t, w, z, n, m)
    BY <1>4
  <1>6. PICK u : u = host.usage
    OBVIOUS
  <1>7. /\ Collected(w, u) \/ Flushes(z) => Collected(t, u)
        /\ Waits(t) => z # << >>
        /\ Len(t) # 0 => t[1].do # "ack"
        /\ Len(t) # 0 /\ Awaits(t[1]) => w = << >> /\ z # << >>
    BY ONLY <1>2, <1>5, ListJoin
  <1>8. Running' => todo' # << >>
    BY <1>2 DEF Running, CallStep
  <1>9. Running' => Len(t) # 0
    <2>1. Len(t) = 0 => t = << >>
      BY <1>4, NoLength
    <2> QED BY <1>2, <1>3, <1>8, <2>1
  <1>10. ~(Running' /\ todo'[1].do = "ack")
    BY <1>2, <1>3, <1>7, <1>9
  <1>11. CountsMatch'
    <2>1. Len(input) + NReplies(answers) = ops + (IF Running /\ todo[1].do = "ack" THEN 1 ELSE 0)
      BY Counts
    <2>2. ~Running
      BY <1>1 DEF Running
    <2>3. Len(input') + NReplies(answers') = ops' + (IF Running'
          /\ todo'[1].do = "ack" THEN 1 ELSE 0)
      BY <1>10, <2>1, <2>2 DEF CallStep
    <2> QED BY <2>3, CountsNext
  <1>12. ASSUME Running', Awaits(todo'[1]) PROVE ops' = 0
    <2>1. w = << >> /\ z # << >>
      BY <1>2, <1>3, <1>7, <1>9, <1>12
    <2>2. Emptied(<< >>, host.usage)
      BY <2>1 DEF CallTakes
    <2>3. host.usage = 0
      BY <2>2 DEF Emptied
    <2> QED BY <1>1, <2>3, QuietIdle DEF CallStep
  <1>13. Waits(todo') \/ spc' = "stopped" => host'.usage = 0 /\ host'.data = << >>
    <2>1. spc' # "stopped"
      BY <1>2 DEF CallStep
    <2>2. Waits(todo') => z # << >>
      BY <1>2, <1>3, <1>7
    <2> QED BY <2>1, <2>2 DEF CallTakes
  <1>14. ASSUME host'.usage = 0 PROVE StreamsFlush(todo') /\ (ops' > 0 => Flushes(todo'))
    <2>1. Collected(t, u)
      BY <1>6, <1>7, <1>14 DEF CallTakes
    <2>2. StreamsFlush(t) /\ (u = 0 \/ Flushes(t))
      BY <2>1 DEF Collected
    <2>3. u = 0 => ~(ops' > 0)
      BY <1>1, <1>6, QuietIdle DEF CallStep
    <2> QED BY <1>2, <1>3, <2>2, <2>3
  <1>15. naks' # {} => Naked'
    BY <1>1 DEF Flow, CallStep, Naked
  <1>16. Flow'
    BY <1>11, <1>12, <1>13, <1>14, <1>15 DEF Flow, StreamsFlush, Flushes
  <1>17. AckAlone'
    BY <1>10 DEF AckAlone
  <1> QED BY <1>16, <1>17

(* A call that puts its work in the list that way keeps the invariant.      *)
LEMMA CallKeeps ==
  ASSUME SerprogInv, NEW w, NEW z, NEW s, NEW new, CallStep(w, z, s, new), CallTakes(w, z, s, new),
         Owing(z, issued', asked')
  PROVE  SerprogInv'
  <1>1. SerprogType /\ spc = "idle"
    BY DEF SerprogInv, CallStep
  <1>2. w \in Seq(WriteItem) /\ z \in Seq(Item) /\ Trailer(z, s) /\ todo' = w \o z
        /\ s \in {"busy", "stopping"}
        /\ MayFollow(w, z) /\ (s = "stopping" => z # << >>)
    BY DEF CallStep, CallTakes
  <1>3. PICK t \in Seq(Item) : t = w \o z
    BY <1>2, HalvesOf
  <1>4. PICK n \in Nat, m \in Nat : Halves(t, w, z, n, m)
    BY <1>2, <1>3, HalvesOf
  <1>5. SerprogType'
    <2>1. issued' \in Seq(Event)
      <3>1. issued \in Seq(Event) /\ new \in Seq(Event)
        BY <1>1 DEF SerprogType, CallTakes
      <3> QED BY <3>1, ConcatProperties DEF CallStep
    <2>2. host' \in HostState /\ todo' \in Seq(Item) /\ ops' \in Nat /\ serprog' \in SerprogDevices
      BY <1>1, <1>2, <1>3 DEF SerprogType, CallTakes, CallStep
    <2>3. asked' \in Wants /\ got' \in Seq(Int) /\ outcome' \in {"none", "ok", "error"}
      BY DEF CallTakes, CallStep
    <2>4. spc' \in {"idle", "busy", "stopping", "stopped", "died"}
      BY <1>2 DEF CallStep
    <2>5. /\ input' \in Seq(AnyCmd) /\ answers' \in Seq(OnLine)
          /\ opbuf' \in Seq(SerCmd(StoredKinds)) /\ performed' \in Seq(Event) /\ refusals' \in Nat
      BY <1>1 DEF SerprogType, CallStep
    <2> QED BY <2>1, <2>2, <2>3, <2>4, <2>5 DEF SerprogType
  <1>6. TodoEnds'
    <2>1. PICK s2 : s2 = IF t = << >> THEN "idle" ELSE s
      OBVIOUS
    <2>2. EndsAt(t, s2, "none")
      BY ONLY <1>2, <1>4, t \in Seq(Item), <2>1, EndsJoin
    <2>3. todo' = t /\ spc' = s2 /\ outcome' = "none"
      BY <1>2, <1>3, <2>1 DEF CallStep
    <2> QED BY <2>2, <2>3, TodoEndsNext
  <1>7. Conserved' /\ HostFits'
    BY <1>5, CallConserved DEF CallTakes
  <1>8. ReadResult'
    BY DEF ReadResult, CallStep
  <1>9. Naked' => refusals' > 0 \/ naks' # {}
    BY DEF SerprogInv, CallStep, Naked
  <1>10. Working' => Working
    BY <1>1 DEF Working, CallStep
  <1>11. ShutdownFlushes'
    BY <1>2 DEF ShutdownFlushes, CallStep
  <1>12. Working => Flow' /\ AckAlone' /\ Pipeline' /\ Accounted'
    BY <1>5, CallFlow, CallPipeline, CallAccounted
  <1> QED BY <1>5, <1>6, <1>7, <1>8, <1>9, <1>10, <1>11, <1>12 DEF SerprogInv

(* The reads of a call: of n bytes from a on, one after the other.          *)
ReadEntry(z, k) ==
  /\ z[k].do \in {"stream", "flush", "data"}
  /\ ~BufferOp(z[k].cmd) /\ z[k].cmd.cmd # "exec"
  /\ z[k].do = "data" => k > 1 /\ z[k - 1].do = "flush"
  /\ z[k].do = "stream" => k + 2 <= Len(z) /\ z[k + 1].do = "flush" /\ z[k + 2].do = "data"
  /\ z[k].do # "stream" => ~IsImmediate(z[k].cmd)
Reading(z, a, n) ==
  /\ z \in Seq(Item)
  /\ \A k \in 1 .. Len(z) : ReadEntry(z, k)
  /\ z # << >> => z[1].do = "stream" /\ z[Len(z)].do = "data"
  /\ \A log \in Seq(Event) :
       /\ Len(AllOwed(log, Cmds(z))) = Len(AllWanted(z))
       /\ FlattenSeq(AllOwed(log, Cmds(z))) = Contents(log, a, n)
More(z, c) == Append(Append(Append(z, Stream(c)), Flush), Data)
IsMore(t, z, c) ==
  \E l \in Nat : /\ l = Len(z) /\ Len(t) = l + 3 /\ \A k \in 1 .. l : t[k] = z[k]
                 /\ t[l + 1] = Stream(c) /\ t[l + 2] = Flush /\ t[l + 3] = Data

(* A list of reads can be the second half.                                  *)
LEMMA ReadingTrails ==
  ASSUME NEW z, NEW a, NEW n, Reading(z, a, n)
  PROVE  Trailer(z, "busy") /\ (z # << >> => Flushes(z)) /\ \A w : MayFollow(w, z)
  <1>1. z \in Seq(Item) /\ \A k \in 1 .. Len(z) : ReadEntry(z, k)
    BY DEF Reading
  <1>2. PICK l \in Nat : l = Len(z)
    BY <1>1
  <1>3. z # << >> => l # 0
    BY <1>1, <1>2, NoLength
  <1>4. z # << >> => z[1].do = "stream" /\ z[l].do = "data"
    BY <1>2 DEF Reading
  <1>5. ASSUME NEW k \in 1 .. l
        PROVE  /\ z[k].do \in {"stream", "flush", "data"}
               /\ ~BufferOp(z[k].cmd) /\ z[k].cmd.cmd # "exec"
               /\ z[k].do = "data" => k > 1 /\ z[k - 1].do = "flush"
               /\ z[k].do = "stream" =>
                    /\ k + 1 \in 1 .. l /\ k + 2 \in 1 .. l
                    /\ z[k + 1].do = "flush" /\ z[k + 2].do = "data"
               /\ z[k].do # "stream" => ~IsImmediate(z[k].cmd)
    BY <1>1, <1>2 DEF ReadEntry
  <1>6. \A k \in 2 .. l : k \in 1 .. l /\ k - 1 \in 1 .. l
    BY <1>2
  <1>7. ASSUME NEW k \in 2 .. l
        PROVE  /\ z[k].do = "data" => z[k - 1].do \in {"flush", "ack"}
               /\ z[k].do = "ack" <=> z[k - 1].do = "docommand"
               /\ z[k].do = "docommand" => z[k - 1].do = "flush"
    <2>1. z[k].do \in {"stream", "flush", "data"} /\ z[k - 1].do \in {"stream", "flush", "data"}
      BY <1>5, <1>6
    <2>2. z[k].do = "data" => z[k - 1].do = "flush"
      BY <1>5, <1>6
    <2> QED BY <2>1, <2>2
  <1>8. ASSUME NEW k \in 1 .. l, IsImmediate(z[k].cmd)
        PROVE  \E m \in 1 .. l : m > k /\ IsAnswer(z[m])
    <2>1. k + 2 \in 1 .. l /\ k + 2 > k /\ z[k + 2].do = "data"
      BY <1>5, <1>8
    <2> QED BY <2>1 DEF IsAnswer
  <1>9. TodoShape(z)
    <2>1. \A k \in 1 .. l : z[k].do # "docommand" /\ z[k].do # "ack"
      BY <1>5
    <2>2. \A k \in 1 .. l : ~BufferOp(z[k].cmd) /\ z[k].cmd.cmd # "exec"
      BY <1>5
    <2> QED BY <1>2, <1>7, <1>8, <2>1, <2>2 DEF TodoShape
  <1>10. StreamsFlush(z)
    <2> SUFFICES ASSUME NEW k \in 1 .. l, z[k].do = "stream"
                 PROVE  \E m \in 1 .. l : m > k /\ z[m].do = "flush"
      BY <1>2 DEF StreamsFlush
    <2>1. k + 1 \in 1 .. l /\ k + 1 > k /\ z[k + 1].do = "flush"
      BY <1>5
    <2> QED BY <2>1
  <1>11. ASSUME z # << >> PROVE Flushes(z) /\ z[1].do = "stream"
    <2>1. 1 \in 1 .. l /\ z[1].do = "stream"
      BY <1>3, <1>4, <1>11
    <2>2. 1 + 1 \in 1 .. l /\ z[1 + 1].do = "flush"
      BY <1>5, <2>1
    <2> QED BY <1>2, <2>1, <2>2 DEF Flushes
  <1>12. \A k \in 1 .. l : z[k].do # "docommand"
    BY <1>5
  <1>13. Trailer(z, "busy")
    BY <1>2, <1>4, <1>5, <1>9, <1>10, <1>11, <1>12 DEF Trailer
  <1> QED BY <1>11, <1>13 DEF MayFollow

(* One read more is three entries more.                                     *)
LEMMA ThreeMore ==
  ASSUME NEW z \in Seq(Item), NEW c \in SerCmd(ReadKinds), NEW t, t = More(z, c)
  PROVE  /\ IsMore(t, z, c)
         /\ t \in Seq(Item) /\ Stream(c) \in Item /\ Stream(c).cmd = c /\ c \in ListedCmd
         /\ Append(z, Stream(c)) \in Seq(Item) /\ Append(Append(z, Stream(c)), Flush) \in Seq(Item)
  <1>1. c \in SerCmd(Streamed) /\ c \in ListedCmd
    <2>1. ReadKinds \subseteq Streamed
      BY DEF Streamed
    <2>2. c \in SerCmd(Streamed)
      BY <2>1, KindsIn
    <2> QED BY <2>2, WayKinds
  <1>2. Stream(c) \in Item /\ Flush \in Item /\ Data \in Item /\ Stream(c).cmd = c
    BY <1>1 DEF Stream, Item
  <1>3. PICK x \in Item : x = Stream(c)
    BY <1>2
  <1>4. PICK z1 \in Seq(Item) : z1 = Append(z, x)
    BY AppendProperties
  <1>5. PICK z2 \in Seq(Item) : z2 = Append(z1, Flush)
    BY <1>2, AppendProperties
  <1>6. PICK z3 \in Seq(Item) : z3 = Append(z2, Data)
    BY <1>2, AppendProperties
  <1>7. t = z3
    BY <1>3, <1>4, <1>5, <1>6 DEF More
  <1>8. PICK l \in Nat : l = Len(z)
    OBVIOUS
  <1>9. Len(z1) = l + 1 /\ z1[l + 1] = x /\ \A k \in 1 .. l : z1[k] = z[k]
    BY <1>4, <1>8, AppendProperties
  <1>10. Len(z2) = l + 2 /\ z2[l + 2] = Flush /\ \A k \in 1 .. l + 1 : z2[k] = z1[k]
    BY <1>2, <1>5, <1>9, AppendProperties
  <1>11. Len(z3) = l + 3 /\ z3[l + 3] = Data /\ \A k \in 1 .. l + 2 : z3[k] = z2[k]
    BY <1>2, <1>6, <1>10, AppendProperties
  <1>12. z3[l + 1] = x /\ z3[l + 2] = Flush /\ \A k \in 1 .. l : z3[k] = z[k]
    <2>1. /\ l + 1 \in 1 .. l + 1 /\ l + 1 \in 1 .. l + 2 /\ l + 2 \in 1 .. l + 2
          /\ \A k \in 1 .. l : k \in 1 .. l + 1 /\ k \in 1 .. l + 2
      OBVIOUS
    <2> QED BY <1>9, <1>10, <1>11, <2>1
  <1>13. IsMore(t, z, c)
    BY <1>3, <1>7, <1>8, <1>11, <1>12 DEF IsMore
  <1> QED BY <1>1, <1>2, <1>3, <1>4, <1>5, <1>7, <1>13

(* A list of reads is one with one read more.                               *)
LEMMA EntriesMore ==
  ASSUME NEW z, NEW a, NEW n, Reading(z, a, n), NEW c \in SerCmd(ReadKinds), NEW t, t = More(z, c)
  PROVE  /\ \A k \in 1 .. Len(t) : ReadEntry(t, k)
         /\ t # << >> /\ t[1].do = "stream" /\ t[Len(t)].do = "data"
  <1>1. z \in Seq(Item) /\ \A k \in 1 .. Len(z) : ReadEntry(z, k)
    BY DEF Reading
  <1>2. PICK l \in Nat : /\ l = Len(z) /\ Len(t) = l + 3 /\ \A k \in 1 .. l : t[k] = z[k]
                         /\ t[l + 1] = Stream(c) /\ t[l + 2] = Flush /\ t[l + 3] = Data
    <2>1. z \in Seq(Item)
      BY <1>1
    <2>2. IsMore(t, z, c)
      BY ONLY <2>1, c \in SerCmd(ReadKinds), t = More(z, c), ThreeMore
    <2> QED BY ONLY <2>2 DEF IsMore
  <1>3. l # 0 => z[1].do = "stream" /\ z[l].do = "data"
    BY <1>2 DEF Reading
  <1>4. c.cmd \in ReadKinds
    BY DEF SerCmd
  <1>5. ~BufferOp(c) /\ c.cmd # "exec"
    BY <1>4 DEF ReadKinds, BufferOp
  <1>6. ~BufferOp(NoCmd) /\ NoCmd.cmd # "exec" /\ ~IsImmediate(NoCmd)
    BY DEF NoCmd, Cmd, BufferOp, IsImmediate, ReadKinds
  <1>7. /\ Stream(c).do = "stream" /\ Stream(c).cmd = c
        /\ Flush.do = "flush" /\ Flush.cmd = NoCmd /\ Data.do = "data" /\ Data.cmd = NoCmd
    BY DEF Stream, Flush, Data
  <1>8. ASSUME NEW k \in 1 .. l PROVE ReadEntry(t, k)
    <2>1. ReadEntry(z, k) /\ t[k] = z[k]
      BY <1>1, <1>2
    <2>2. t[k].do = "data" => k > 1 /\ t[k - 1].do = "flush"
      <3> SUFFICES ASSUME t[k].do = "data" PROVE k > 1 /\ t[k - 1].do = "flush"
        OBVIOUS
      <3>1. k > 1 /\ z[k - 1].do = "flush"
        BY <2>1 DEF ReadEntry
      <3>2. k - 1 \in 1 .. l
        BY <3>1
      <3> QED BY <1>2, <3>1, <3>2
    <2>3. t[k].do = "stream" => k + 2 <= l + 3 /\ t[k + 1].do = "flush" /\ t[k + 2].do = "data"
      <3> SUFFICES ASSUME t[k].do = "stream"
                   PROVE  k + 2 <= l + 3 /\ t[k + 1].do = "flush" /\ t[k + 2].do = "data"
        OBVIOUS
      <3>1. k + 2 <= l /\ z[k + 1].do = "flush" /\ z[k + 2].do = "data"
        BY <1>2, <2>1 DEF ReadEntry
      <3>2. k + 1 \in 1 .. l /\ k + 2 \in 1 .. l
        BY <3>1
      <3> QED BY <1>2, <3>1, <3>2
    <2> QED BY <1>2, <2>1, <2>2, <2>3 DEF ReadEntry
  <1>9. ReadEntry(t, l + 1)
    <2>1. (l + 1) + 2 <= Len(t) /\ (l + 1) + 1 = l + 2 /\ (l + 1) + 2 = l + 3
      BY <1>2
    <2> QED BY <1>2, <1>5, <1>7, <2>1 DEF ReadEntry
  <1>10. ReadEntry(t, l + 2)
    BY <1>2, <1>6, <1>7 DEF ReadEntry
  <1>11. ReadEntry(t, l + 3)
    <2>1. l + 3 > 1 /\ (l + 3) - 1 = l + 2
      OBVIOUS
    <2> QED BY <1>2, <1>6, <1>7, <2>1 DEF ReadEntry
  <1>12. \A k \in 1 .. l + 3 : k \in 1 .. l \/ k = l + 1 \/ k = l + 2 \/ k = l + 3
    OBVIOUS
  <1>13. \A k \in 1 .. Len(t) : ReadEntry(t, k)
    BY <1>2, <1>8, <1>9, <1>10, <1>11, <1>12
  <1>14. t[1].do = "stream"
    <2>1. CASE l = 0
      <3>1. l + 1 = 1
        BY <2>1
      <3> QED BY <1>2, <1>7, <3>1
    <2>2. CASE l # 0
      <3>1. 1 \in 1 .. l
        BY <2>2
      <3> QED BY <1>2, <1>3, <2>2, <3>1
    <2> QED BY <2>1, <2>2
  <1>15. t # << >>
    BY <1>2
  <1> QED BY <1>2, <1>7, <1>13, <1>14, <1>15

(* One answer more is waited for with each entry that waits for bytes.      *)
LEMMA WantedMore ==
  ASSUME NEW t \in Seq(Item), NEW x \in Item
  PROVE  /\ Len(AllWanted(Append(t, x))) = Len(AllWanted(t)) + (IF x.do = "data" THEN 1 ELSE 0)
         /\ Len(AllWanted(t)) \in Nat
  <1>1. PICK E : E = WantsMap
    OBVIOUS
  <1>2. E \in [Item -> Seq({0})]
    <2>1. << >> \in Seq(Event)
      OBVIOUS
    <2> QED BY <1>1, <2>1, MapTypes
  <1>3. FlatMap(E, Append(t, x)) = FlatMap(E, t) \o E[x]
    BY ONLY <1>2, t \in Seq(Item), x \in Item, FlatMapAppend
  <1>4. FlatMap(E, t) \in Seq({0})
    BY ONLY <1>2, t \in Seq(Item), FlatMapType
  <1>5. E[x] = IF x.do = "data" THEN <<0>> ELSE << >>
    BY <1>1 DEF WantsMap
  <1>6. E[x] \in Seq({0})
    BY <1>2
  <1>7. PICK f \in Seq({0}), e \in Seq({0}) : f = FlatMap(E, t) /\ e = E[x]
    BY <1>4, <1>6
  <1>8. Len(f \o e) = Len(f) + Len(e)
    BY ONLY f \in Seq({0}), e \in Seq({0}), ConcatProperties
  <1>9. Len(e) = IF x.do = "data" THEN 1 ELSE 0
    BY <1>5, <1>7
  <1>10. Append(t, x) \in Seq(Item)
    BY AppendProperties
  <1>11. AllWanted(Append(t, x)) = FlatMap(E, Append(t, x)) /\ AllWanted(t) = FlatMap(E, t)
    BY <1>1, <1>10, AllWantedMap
  <1>12. Len(f) \in Nat
    BY ONLY f \in Seq({0})
  <1> QED BY <1>3, <1>7, <1>8, <1>9, <1>11, <1>12

OwedAt(log, t, x) ==
  /\ AllOwed(log, Cmds(Append(t, x))) = AllOwed(log, Cmds(t)) \o Owes(log, x.cmd)
  /\ AllOwed(log, Cmds(t)) \in Seq(Seq(Int))
(* What is owed with one entry more.                                        *)
LEMMA OwedMore ==
  ASSUME NEW t \in Seq(Item), NEW x \in Item, NEW log \in Seq(Event)
  PROVE  OwedAt(log, t, x)
  BY EffectsMore DEF OwedAt

(* What is owed with one read more.                                         *)
LEMMA ReadOwed ==
  ASSUME NEW z \in Seq(Item), NEW c \in SerCmd(ReadKinds), NEW t, t = More(z, c),
         NEW log \in Seq(Event)
  PROVE  /\ AllOwed(log, Cmds(t)) = AllOwed(log, Cmds(z)) \o <<Contents(log, c.addr, c.len)>>
         /\ AllOwed(log, Cmds(z)) \in Seq(Seq(Int)) /\ Contents(log, c.addr, c.len) \in Seq(Int)
         /\ Len(AllWanted(t)) = Len(AllWanted(z)) + 1 /\ Len(AllWanted(z)) \in Nat
  <1>1. /\ Stream(c) \in Item /\ Stream(c).cmd = c /\ c \in ListedCmd
        /\ Append(z, Stream(c)) \in Seq(Item) /\ Append(Append(z, Stream(c)), Flush) \in Seq(Item)
    BY ThreeMore
  <1>2. Flush \in Item /\ Data \in Item
    BY DEF Item
  <1>3. PICK z1 \in Seq(Item) : z1 = Append(z, Stream(c))
    BY <1>1
  <1>4. PICK z2 \in Seq(Item) : z2 = Append(z1, Flush)
    BY <1>1, <1>3
  <1>5. t = Append(z2, Data)
    BY <1>3, <1>4 DEF More
  <1>6. c.cmd \in ReadKinds /\ c.addr \in Int /\ c.len \in Nat
    BY DEF SerCmd
  <1>7. Promise(log, c) = Contents(log, c.addr, c.len) /\ Contents(log, c.addr, c.len) \in Seq(Int)
    <2>1. Contents(log, c.addr, c.len) \in Seq(Int)
      BY <1>6, ContentsType
    <2>2. Promise(log, c) = Contents(log, c.addr, c.len)
      BY <1>6 DEF Promise, ReadKinds
    <2> QED BY <2>1, <2>2
  <1>8. Owes(log, c) = <<Contents(log, c.addr, c.len)>>
    BY <1>6, <1>7 DEF Owes
  <1>9. Owes(log, NoCmd) = << >>
    BY DEF Owes, NoCmd, Cmd, ReadKinds
  <1>10. Flush.cmd = NoCmd /\ Data.cmd = NoCmd /\ Stream(c).do = "stream" /\ Flush.do = "flush"
         /\ Data.do = "data"
    BY DEF Flush, Data, Stream
  <1>11. OwedAt(log, z, Stream(c)) /\ OwedAt(log, z1, Flush) /\ OwedAt(log, z2, Data)
    BY <1>1, <1>2, OwedMore
  <1>12. PICK o \in Seq(Seq(Int)), o1 \in Seq(Seq(Int)), o2 \in Seq(Seq(Int)) :
           o = AllOwed(log, Cmds(z)) /\ o1 = AllOwed(log, Cmds(z1)) /\ o2 = AllOwed(log, Cmds(z2))
    BY <1>11 DEF OwedAt
  <1>13. o1 = o \o <<Contents(log, c.addr, c.len)>>
    BY <1>1, <1>3, <1>8, <1>11, <1>12 DEF OwedAt
  <1>14. o2 = o1 \o << >>
    BY <1>4, <1>9, <1>10, <1>11, <1>12 DEF OwedAt
  <1>15. AllOwed(log, Cmds(t)) = o2 \o << >>
    BY <1>5, <1>9, <1>10, <1>11, <1>12 DEF OwedAt
  <1>16. AllOwed(log, Cmds(t)) = o1
    BY ONLY <1>14, <1>15, o1 \in Seq(Seq(Int)), o2 \in Seq(Seq(Int))
  <1>17. /\ Len(AllWanted(z1)) = Len(AllWanted(z)) + 0 /\ Len(AllWanted(z)) \in Nat
         /\ Len(AllWanted(z2)) = Len(AllWanted(z1)) + 0
         /\ Len(AllWanted(t)) = Len(AllWanted(z2)) + 1
    BY <1>1, <1>2, <1>3, <1>4, <1>5, <1>10, WantedMore
  <1>18. Len(AllWanted(t)) = Len(AllWanted(z)) + 1
    BY ONLY <1>17
  <1> QED BY <1>7, <1>12, <1>13, <1>16, <1>17, <1>18

(* One more read, of what comes behind.                                     *)
LEMMA ReadingMore ==
  ASSUME NEW z, NEW a \in Int, NEW n \in Nat, Reading(z, a, n), NEW c \in SerCmd(ReadKinds),
         c.addr = a + n,
         NEW m \in Nat, c.len = m, NEW t, t = More(z, c)
  PROVE  Reading(t, a, n + m) /\ t # << >>
  <1>1. z \in Seq(Item)
    BY DEF Reading
  <1>2. t \in Seq(Item)
    BY <1>1, ThreeMore
  <1>3. /\ \A k \in 1 .. Len(t) : ReadEntry(t, k)
        /\ t # << >> /\ t[1].do = "stream" /\ t[Len(t)].do = "data"
    BY EntriesMore
  <1>4. ASSUME NEW log \in Seq(Event)
        PROVE  /\ Len(AllOwed(log, Cmds(t))) = Len(AllWanted(t))
               /\ FlattenSeq(AllOwed(log, Cmds(t))) = Contents(log, a, n + m)
    <2>1. /\ AllOwed(log, Cmds(t)) = AllOwed(log, Cmds(z)) \o <<Contents(log, c.addr, c.len)>>
          /\ AllOwed(log, Cmds(z)) \in Seq(Seq(Int)) /\ Contents(log, c.addr, c.len) \in Seq(Int)
          /\ Len(AllWanted(t)) = Len(AllWanted(z)) + 1 /\ Len(AllWanted(z)) \in Nat
      BY <1>1, ReadOwed
    <2>2. PICK o \in Seq(Seq(Int)), d \in Seq(Int) : o = AllOwed(log, Cmds(z))
          /\ d = Contents(log, a + n, m)
      BY <2>1
    <2>3. /\ Len(o) = Len(AllWanted(z)) /\ FlattenSeq(o) = Contents(log, a, n)
      BY <2>2 DEF Reading
    <2>4. PICK e \in Seq(Seq(Int)) : e = <<d>> /\ Len(e) = 1
      BY Single
    <2>5. AllOwed(log, Cmds(t)) = o \o e
      BY <2>1, <2>2, <2>4
    <2>6. Len(o \o e) = Len(o) + 1
      BY <2>4, ConcatProperties
    <2>7. FlattenSeq(o \o e) = FlattenSeq(o) \o FlattenSeq(e)
      BY ONLY o \in Seq(Seq(Int)), e \in Seq(Seq(Int)), FlattenConcat
    <2>8. FlattenSeq(e) = d
      BY <2>4, FlattenOne
    <2>9. Contents(log, a, n) \o Contents(log, a + n, m) = Contents(log, a, n + m)
      BY ContentsJoin
    <2>10. Len(AllOwed(log, Cmds(t))) = Len(AllWanted(t))
      BY <2>1, <2>3, <2>5, <2>6
    <2> QED BY <2>2, <2>3, <2>5, <2>7, <2>8, <2>9, <2>10
  <1> QED BY <1>2, <1>3, <1>4 DEF Reading

(* Nothing has been read at first.                                          *)
LEMMA ReadingNone ==
  ASSUME NEW a \in Int
  PROVE  Reading(<< >>, a, 0)
  <1>1. << >> \in Seq(Item) /\ Len(<< >>) = 0 /\ 1 .. 0 = {} /\ << >> \in Seq(Event)
        /\ << >> \in Seq(ListedCmd)
    OBVIOUS
  <1>2. Cmds(<< >>) = << >>
    BY DEF Cmds
  <1>3. ASSUME NEW log \in Seq(Event)
        PROVE  AllOwed(log, << >>) = << >>
    <2>1. [k \in DOMAIN << >> |-> Owes(log, << >>[k])] = << >>
      OBVIOUS
    <2> QED BY <2>1 DEF AllOwed, FlattenSeq
  <1>4. Len(AllWanted(<< >>)) = 0
    BY NoAnswers
  <1>5. \A log : Contents(log, a, 0) = << >>
    BY DEF Contents
  <1>6. FlattenSeq(<< >>) = << >>
    BY DEF FlattenSeq
  <1> QED BY <1>1, <1>2, <1>3, <1>4, <1>5, <1>6 DEF Reading

(* The driver's state with z put in the list, and that state when the reads *)
(* of n bytes from a on have been put there.                                *)
With(h, z) ==
  [prev |-> h.prev, addr |-> h.addr, data |-> h.data, usage |-> h.usage, out |-> h.out \o z]
ReadIs(h, a, n) == \E z : z # << >> /\ Reading(z, a, n) /\ h = With(BeforeRead(Open), z)
ReadsTo(h, a, n) == \E z : Reading(z, a, n) /\ BeforeRead(h) = With(BeforeRead(Open), z)

AppendsTo(s, z, x) == Append(s \o z, x) = s \o Append(z, x)
(* Appending to the second of two joined sequences is appending to both.    *)
LEMMA AppendBehind ==
  ASSUME NEW A, NEW s \in Seq(A), NEW z \in Seq(A), NEW x \in A
  PROVE  AppendsTo(s, z, x)
  <1>1. PICK o \in Seq(A) : o = <<x>>
    BY Single
  <1>2. PICK q \in Seq(A) : q = s \o z
    BY ConcatProperties
  <1>3. Append(q, x) = q \o o /\ Append(z, x) = z \o o
    BY <1>1, AppendIsConcat
  <1>4. AssocAt(s, z, o)
    BY ONLY s \in Seq(A), z \in Seq(A), o \in Seq(A), Assoc
  <1> QED BY <1>2, <1>3, <1>4 DEF AppendsTo, AssocAt

(* One read more behind what is in the list.                                *)
LEMMA MoreBehind ==
  ASSUME NEW s \in Seq(Item), NEW z \in Seq(Item), NEW c \in SerCmd(ReadKinds), NEW q, q = s \o z
  PROVE  Append(Append(Append(q, Stream(c)), Flush), Data) = s \o More(z, c)
  <1>1. /\ Stream(c) \in Item
        /\ Append(z, Stream(c)) \in Seq(Item) /\ Append(Append(z, Stream(c)), Flush) \in Seq(Item)
    <2>1. PICK t : t = More(z, c)
      OBVIOUS
    <2> QED BY <2>1, ThreeMore
  <1>2. Flush \in Item /\ Data \in Item
    BY DEF Item
  <1>3. PICK x \in Item, f \in Item, d \in Item : x = Stream(c) /\ f = Flush /\ d = Data
    BY <1>1, <1>2
  <1>4. PICK z1 \in Seq(Item) : z1 = Append(z, x)
    BY <1>1, <1>3
  <1>5. PICK z2 \in Seq(Item) : z2 = Append(z1, f)
    BY <1>1, <1>3, <1>4
  <1>6. AppendsTo(s, z, x) /\ AppendsTo(s, z1, f) /\ AppendsTo(s, z2, d)
    BY ONLY s \in Seq(Item), z \in Seq(Item), z1 \in Seq(Item), z2 \in Seq(Item),
            x \in Item, f \in Item, d \in Item, AppendBehind
  <1>7. Append(q, x) = s \o z1
    BY <1>4, <1>6 DEF AppendsTo
  <1>8. Append(s \o z1, f) = s \o z2
    BY <1>5, <1>6 DEF AppendsTo
  <1>9. Append(s \o z2, d) = s \o Append(z2, d)
    BY <1>6 DEF AppendsTo
  <1>10. More(z, c) = Append(z2, d)
    BY <1>3, <1>4, <1>5 DEF More
  <1> QED BY <1>3, <1>7, <1>8, <1>9, <1>10

ListWith(b, q) == [prev |-> b.prev, addr |-> b.addr, data |-> b.data, usage |-> b.usage, out |-> q]
(* Doing something more changes the list only.                              *)
LEMMA DoLists ==
  ASSUME NEW b, NEW q, NEW x
  PROVE  Do(ListWith(b, q), x) = ListWith(b, Append(q, x))
  <1>1. PICK h : h = ListWith(b, q)
    OBVIOUS
  <1>2. h.out = q
    BY <1>1 DEF ListWith
  <1>3. Do(h, x) = [h EXCEPT !.out = Append(q, x)]
    BY <1>2 DEF Do
  <1>4. PICK y : y = Append(q, x)
    OBVIOUS
  <1>5. [h EXCEPT !.out = y] = ListWith(b, y)
    BY <1>1 DEF ListWith
  <1> QED BY <1>1, <1>3, <1>4, <1>5

(* A read of the bytes behind those that have been read is a longer read.   *)
LEMMA ReadMore ==
  ASSUME SerprogType, HostFits, NEW h, NEW a \in Int, NEW n \in Nat, ReadsTo(h, a, n),
         NEW c \in SerCmd(ReadKinds), c.addr = a + n, NEW m \in Nat, c.len = m
  PROVE  ReadIs(Read(h, c), a, n + m) /\ ReadsTo(Read(h, c), a, n + m)
  <1>1. PICK b : b = BeforeRead(Open)
    OBVIOUS
  <1>2. b \in DriverState(WriteItem) /\ b.usage = 0 /\ b.data = << >>
    BY <1>1, BeforeReadFed DEF Fed
  <1>3. b.out \in Seq(WriteItem)
    BY <1>2 DEF DriverState
  <1>4. b.out \in Seq(Item)
    BY <1>3, WriteItems
  <1>5. PICK z : Reading(z, a, n) /\ BeforeRead(h) = With(b, z)
    BY <1>1 DEF ReadsTo
  <1>6. z \in Seq(Item)
    BY <1>5 DEF Reading
  <1>7. PICK t : t = More(z, c)
    OBVIOUS
  <1>8. Reading(t, a, n + m) /\ t # << >>
    BY <1>5, <1>7, ReadingMore
  <1>14. PICK s \in Seq(Item) : s = b.out
    BY <1>4
  <1>9. PICK q : s = b.out /\ q = s \o z
    BY <1>14
  <1>10. Append(Append(Append(q, Stream(c)), Flush), Data) = s \o t
    <2>1. c \in SerCmd(ReadKinds)
      OBVIOUS
    <2>2. Append(Append(Append(q, Stream(c)), Flush), Data) = s \o More(z, c)
      BY ONLY <1>6, <1>9, <1>14, <2>1, MoreBehind
    <2> QED BY ONLY <1>7, <2>2
  <1>15. PICK d : d = BeforeRead(h)
    OBVIOUS
  <1>16. d = ListWith(b, q)
    BY <1>5, <1>9, <1>15 DEF With, ListWith
  <1>17. Do(d, Stream(c)) = ListWith(b, Append(q, Stream(c)))
    BY ONLY <1>16, DoLists
  <1>18. Do(Do(d, Stream(c)), Flush) = ListWith(b, Append(Append(q, Stream(c)), Flush))
    BY ONLY <1>17, DoLists
  <1>19. Do(Do(Do(d, Stream(c)), Flush), Data) =
           ListWith(b, Append(Append(Append(q, Stream(c)), Flush), Data))
    BY ONLY <1>18, DoLists
  <1>11. Read(h, c) = ListWith(b, Append(Append(Append(q, Stream(c)), Flush), Data))
    BY ONLY <1>15, <1>19 DEF Read
  <1>12. Read(h, c) = With(b, t)
    BY <1>9, <1>10, <1>11 DEF With, ListWith
  <1>13. BeforeRead(With(b, t)) = With(b, t)
    <2>1. With(b, t).usage = 0 /\ With(b, t).data = << >>
      BY <1>2 DEF With
    <2> QED BY <2>1 DEF BeforeRead, Pending
  <1> QED BY <1>1, <1>8, <1>12, <1>13 DEF ReadIs, ReadsTo

(* At the beginning of a call nothing has been read.                        *)
LEMMA ReadsNone ==
  ASSUME SerprogType, HostFits, NEW a \in Int
  PROVE  ReadsTo(Open, a, 0)
  <1>1. PICK b : b = BeforeRead(Open)
    OBVIOUS
  <1>2. b \in DriverState(WriteItem)
    BY <1>1, BeforeReadFed DEF Fed
  <1>3. b.out \in Seq(WriteItem)
    BY <1>2 DEF DriverState
  <1>4. b.out \o << >> = b.out
    BY <1>3
  <1>5. b = [prev |-> b.prev, addr |-> b.addr, data |-> b.data, usage |-> b.usage, out |-> b.out]
    BY <1>2 DEF DriverState
  <1>6. PICK z : z = << >>
    OBVIOUS
  <1>7. b.out \o z = b.out
    BY <1>4, <1>6
  <1>8. With(b, z) = b
    BY <1>5, <1>7 DEF With
  <1>9. Reading(z, a, 0)
    BY <1>6, ReadingNone
  <1> QED BY <1>1, <1>8, <1>9 DEF ReadsTo

(* The reads of a long one, one by one.                                     *)
ReadUpto(g, h, a, p, n) ==
  g = [k \in 0 .. n |-> IF k = 0 THEN h ELSE Read(g[k - 1], ReadN(a + ((k - 1) * p), p))]
(* The driver's state after each of a number of reads.                      *)
LEMMA ReadsExist ==
  ASSUME NEW h, NEW a, NEW p, NEW n \in Nat
  PROVE  \E g : ReadUpto(g, h, a, p, n)
  <1> DEFINE T == {j \in Nat : \E g : ReadUpto(g, h, a, p, j)}
  <1>1. 0 \in T
    <2> DEFINE f == [k \in 0 .. 0 |-> h]
               r == [k \in 0 .. 0 |->
                      IF k = 0 THEN h ELSE Read(f[k - 1], ReadN(a + ((k - 1) * p), p))]
    <2>1. \A k \in 0 .. 0 : k = 0
      OBVIOUS
    <2>2. \A k \in 0 .. 0 : f[k] = r[k]
      BY <2>1
    <2>3. f = r
      BY <2>2
    <2>4. ReadUpto(f, h, a, p, 0)
      BY ONLY <2>3 DEF ReadUpto
    <2> QED BY <2>4
  <1>2. ASSUME NEW j \in Nat, j \in T PROVE j + 1 \in T
    <2>1. PICK g : ReadUpto(g, h, a, p, j)
      BY <1>2
    <2> DEFINE f == [k \in 0 .. j + 1 |->
                      IF k <= j THEN g[k] ELSE Read(g[j], ReadN(a + (j * p), p))]
               r == [k \in 0 .. j + 1 |->
                      IF k = 0 THEN h ELSE Read(f[k - 1], ReadN(a + ((k - 1) * p), p))]
    <2>2. ASSUME NEW k \in 0 .. j + 1 PROVE f[k] = r[k]
      <3>1. CASE k = 0
        <4>1. 0 \in 0 .. j /\ 0 \in 0 .. j + 1
          OBVIOUS
        <4>2. g[0] = h
          BY <2>1, <4>1 DEF ReadUpto
        <4> QED BY <3>1, <4>1, <4>2
      <3>2. CASE k # 0 /\ k <= j
        <4>1. k \in 0 .. j /\ k - 1 \in 0 .. j /\ k - 1 \in 0 .. j + 1
          BY <3>2
        <4>2. f[k] = g[k] /\ f[k - 1] = g[k - 1]
          BY <4>1
        <4>3. g[k] = Read(g[k - 1], ReadN(a + ((k - 1) * p), p))
          BY <2>1, <3>2, <4>1 DEF ReadUpto
        <4> QED BY <3>2, <4>2, <4>3
      <3>3. CASE k # 0 /\ k = j + 1
        <4>1. j \in 0 .. j + 1 /\ k - 1 = j /\ ~(k <= j) /\ j <= j
          BY <3>3
        <4>2. f[j] = g[j]
          BY <4>1
        <4> QED BY <3>3, <4>1, <4>2
      <3> QED BY <3>1, <3>2, <3>3
    <2>3. f = r
      BY <2>2
    <2>4. ReadUpto(f, h, a, p, j + 1)
      BY ONLY <2>3 DEF ReadUpto
    <2> QED BY <2>4
  <1>3. Nat \subseteq T
    <2> HIDE DEF T
    <2> QED BY <1>1, <1>2, Climb
  <1> QED BY <1>3

FullReads(n) == IF serprog.read_n = 0 THEN 0 ELSE (n - 1) \div serprog.read_n
ChunkReads(h, a, n) == CHOOSE g : ReadUpto(g, h, a, serprog.read_n, FullReads(n))
(* A read in chunks is the full ones, then the rest.                        *)
LEMMA ChunksAre ==
  ASSUME NEW h, NEW a, NEW n
  PROVE  ReadChunks(h, a, n) =
           Read(ChunkReads(h, a, n)[FullReads(n)],
                ReadN(a + (FullReads(n) * serprog.read_n),
                  a + n - (a + (FullReads(n) * serprog.read_n))))
  BY DEF ReadChunks, FullReads, ChunkReads, ReadUpto

(* A read of at most so many bytes, and the numbers of bytes before.        *)
LEMMA OneRead ==
  ASSUME NEW a \in Int, NEW p \in Nat \ {0}
  PROVE  ReadN(a, p) \in SerCmd(ReadKinds) /\ ReadN(a, p).addr = a /\ ReadN(a, p).len = p
  <1>1. << >> \in Seq(Nat)
    OBVIOUS
  <1> QED BY <1>1 DEF ReadN, Cmd, SerCmd, ReadKinds

(* After f reads of p bytes each, f * p bytes have been read.               *)
LEMMA UptoReads ==
  ASSUME SerprogType, HostFits, NEW a \in Int, NEW p \in Nat, NEW f \in Nat, f # 0 => p # 0,
         NEW g, ReadUpto(g, Open, a, p, f)
  PROVE  ReadsTo(g[f], a, f * p)
  <1> DEFINE T == {j \in Nat : j \in 0 .. f => ReadsTo(g[j], a, j * p)}
  <1>1. 0 \in T
    <2>1. 0 \in 0 .. f /\ 0 * p = 0
      OBVIOUS
    <2>2. g[0] = Open
      BY <2>1 DEF ReadUpto
    <2>3. ReadsTo(g[0], a, 0)
      BY <2>2, ReadsNone
    <2> QED BY <2>1, <2>3
  <1>2. ASSUME NEW j \in Nat, j \in T PROVE j + 1 \in T
    <2> SUFFICES ASSUME j + 1 \in 0 .. f PROVE ReadsTo(g[j + 1], a, (j + 1) * p)
      OBVIOUS
    <2>1. j \in 0 .. f /\ (j + 1) - 1 = j /\ j + 1 # 0 /\ f # 0
      OBVIOUS
    <2>2. p \in Nat \ {0}
      BY <2>1
    <2>3. ReadsTo(g[j], a, j * p)
      BY <1>2, <2>1
    <2>4. g[j + 1] = Read(g[(j + 1) - 1], ReadN(a + (((j + 1) - 1) * p), p))
      BY <2>1 DEF ReadUpto
    <2>5. PICK b \in Nat : b = j * p
      OBVIOUS
    <2>6. b + p = (j + 1) * p
      BY <2>5
    <2>7. PICK c : c = ReadN(a + b, p)
      OBVIOUS
    <2>8. a + b \in Int
      OBVIOUS
    <2>9. c \in SerCmd(ReadKinds) /\ c.addr = a + b /\ c.len = p
      BY <2>2, <2>7, <2>8, OneRead
    <2>10. g[j + 1] = Read(g[j], c)
      BY <2>1, <2>4, <2>5, <2>7
    <2>11. ReadsTo(g[j], a, b)
      BY <2>3, <2>5
    <2>12. ReadsTo(Read(g[j], c), a, b + p)
      BY ONLY SerprogType, HostFits, a \in Int, b \in Nat, p \in Nat, <2>9, <2>11, ReadMore
    <2> QED BY <2>6, <2>10, <2>12
  <1>3. Nat \subseteq T
    <2> HIDE DEF T
    <2> QED BY <1>1, <1>2, Climb
  <1>4. f \in T /\ f \in 0 .. f
    BY <1>3
  <1> QED BY <1>4

(* What serprog_chip_readn() puts in the list reads what it was asked for.  *)
LEMMA ChunksRead ==
  ASSUME SerprogType, HostFits, NEW a \in Int, NEW n \in Nat \ {0}
  PROVE  ReadIs(ReadChunks(Open, a, n), a, n)
  <1>1. serprog.read_n \in Nat
    BY OpenFed
  <1>2. PICK p \in Nat : p = serprog.read_n
    BY <1>1
  <1>3. PICK f : f = FullReads(n)
    OBVIOUS
  <1>4. f \in Nat /\ (f # 0 => p # 0) /\ f * p < n
    <2>1. CASE p = 0
      BY <1>2, <1>3, <2>1 DEF FullReads
    <2>2. CASE p # 0
      <3>1. p \in Nat \ {0} /\ n - 1 \in Nat
        BY <2>2
      <3>2. n - 1 = p * ((n - 1) \div p) + ((n - 1) % p) /\ (n - 1) % p \in 0 .. p - 1
            /\ (n - 1) \div p \in Nat
        BY <3>1, DivMod
      <3>3. f = (n - 1) \div p
        BY <1>2, <1>3, <2>2 DEF FullReads
      <3>4. PICK m \in Nat : m = (n - 1) % p
        BY <3>2
      <3>5. n - 1 = p * f + m /\ f \in Nat
        BY <3>2, <3>3, <3>4
      <3>6. PICK b \in Nat : b = p * f
        BY <3>5
      <3>7. f * p = b
        BY <3>5, <3>6
      <3>8. b < n
        BY <3>5, <3>6
      <3> QED BY <2>2, <3>5, <3>7, <3>8
    <2> QED BY <2>1, <2>2
  <1>5. PICK g : g = ChunkReads(Open, a, n)
    OBVIOUS
  <1>6. ReadUpto(g, Open, a, p, f)
    <2>1. \E x : ReadUpto(x, Open, a, p, f)
      BY <1>4, ReadsExist
    <2> QED BY <1>2, <1>3, <1>5, <2>1 DEF ChunkReads
  <1>7. ReadsTo(g[f], a, f * p)
    BY <1>4, <1>6, UptoReads
  <1>8. PICK b \in Nat : b = f * p
    BY <1>4
  <1>9. PICK r \in Nat \ {0} : r = n - b
    BY <1>4, <1>8
  <1>10. a + n - (a + b) = r /\ b + r = n
    BY <1>9
  <1>11. PICK c : c = ReadN(a + b, r)
    OBVIOUS
  <1>12. a + b \in Int
    OBVIOUS
  <1>13. c \in SerCmd(ReadKinds) /\ c.addr = a + b /\ c.len = r
    BY <1>11, <1>12, OneRead
  <1>14. ReadChunks(Open, a, n) = Read(g[f], c)
    <2>1. ReadChunks(Open, a, n) =
            Read(ChunkReads(Open, a, n)[FullReads(n)],
                ReadN(a + (FullReads(n) * serprog.read_n),
                  a + n - (a + (FullReads(n) * serprog.read_n))))
      BY ChunksAre
    <2> QED BY <1>2, <1>3, <1>5, <1>8, <1>10, <1>11, <2>1
  <1>15. ReadsTo(g[f], a, b)
    BY <1>7, <1>8
  <1>16. r \in Nat
    OBVIOUS
  <1>17. ReadIs(Read(g[f], c), a, b + r)
    BY ONLY SerprogType, HostFits, a \in Int, b \in Nat, <1>13, <1>15, <1>16, ReadMore
  <1> QED BY <1>10, <1>14, <1>17

(* The driver's state is what the call has worked out.                      *)
HostIs(h) == host' = [prev |-> h.prev, addr |-> h.addr, data |-> h.data, usage |-> h.usage]
(* What the host keeps after a call.                                        *)
LEMMA HostAfter ==
  ASSUME NEW h \in DriverState(WriteItem), Tidy(h), Len(h.data) < serprog.write_n \/ h.data = << >>,
         HostIs(h), serprog' = serprog
  PROVE  /\ host' \in HostState /\ HostFits' /\ Held' = HeldBy(h)
         /\ host'.usage = h.usage /\ host'.data = h.data
  <1>1. h.prev \in BOOLEAN /\ h.addr \in Nat /\ h.data \in Seq(Nat) /\ h.usage \in Nat
    BY DEF DriverState
  <1>2. host' \in HostState
    BY <1>1 DEF HostIs, HostState
  <1>3. host'.usage = h.usage /\ host'.data = h.data /\ host'.prev = h.prev /\ host'.addr = h.addr
    BY DEF HostIs
  <1>4. Held' = HeldBy(h)
    BY <1>3 DEF Held, HeldBy
  <1>5. HostFits'
    BY <1>3 DEF HostFits, BufferFits, Tidy
  <1> QED BY <1>2, <1>3, <1>4, <1>5

(* What a call does besides.                                                *)
LEMMA BeginStep ==
  ASSUME SerprogType, NEW r, NEW w \in Seq(WriteItem), NEW z \in Seq(Item), r.out = w \o z, NEW s,
         NEW c, NEW new,
         Call, Begin(r, s), Asks(c), issued' = issued \o new
  PROVE  CallStep(w, z, s, new) /\ HostIs(r) /\ asked' = c /\ serprog' = serprog
  BY DEF Call, Begin, Asks, CallStep, HostIs, device

(* A read.                                                                  *)
LEMMA BeginReads ==
  ASSUME SerprogInv, NEW r, NEW a \in Int, NEW n \in Nat, ReadIs(r, a, n),
         Call, Begin(r, "busy"), NEW c \in Wants, Asks(c), c.cmd \in ReadKinds, c.addr = a,
         c.len = n,
         issued' = issued
  PROVE  SerprogInv'
  <1>1. SerprogType /\ HostFits /\ issued \in Seq(Event)
    BY DEF SerprogInv, SerprogType
  <1>2. PICK b : b = BeforeRead(Open)
    OBVIOUS
  <1>3. Fed(b, Held, host.usage) /\ b.usage = 0 /\ b.data = << >>
    BY <1>1, <1>2, BeforeReadFed
  <1>4. b \in DriverState(WriteItem) /\ Held = AllEffects(Cmds(b.out)) \o HeldBy(b)
        /\ Emptied(b.out, host.usage)
    BY <1>3 DEF Fed
  <1>5. PICK w \in Seq(WriteItem) : w = b.out
    BY <1>4 DEF DriverState
  <1>6. PICK z : z # << >> /\ Reading(z, a, n) /\ r = With(b, z)
    BY <1>2 DEF ReadIs
  <1>7. Trailer(z, "busy") /\ Flushes(z) /\ MayFollow(w, z) /\ z \in Seq(Item)
    <2>1. Reading(z, a, n) /\ z # << >>
      BY <1>6
    <2> QED BY <2>1, ReadingTrails DEF Reading
  <1>8. /\ r.prev = b.prev /\ r.addr = b.addr /\ r.data = << >> /\ r.usage = 0 /\ r.out = w \o z
    BY <1>3, <1>5, <1>6 DEF With
  <1>10. PICK new \in Seq(Event) : new = << >>
    <2>1. << >> \in Seq(Event)
      OBVIOUS
    <2> QED BY <2>1
  <1>11. issued' = issued \o new
    BY <1>1, <1>10
  <1>12. CallStep(w, z, "busy", new) /\ HostIs(r) /\ asked' = c /\ serprog' = serprog
    BY <1>1, <1>7, <1>8, <1>11, BeginStep
  <1>13. HostIs(b) /\ Tidy(b)
    BY <1>3, <1>6, <1>12 DEF HostIs, With, Tidy
  <1>14. /\ host' \in HostState /\ HostFits' /\ Held' = HeldBy(b)
         /\ host'.usage = 0 /\ host'.data = << >>
    BY <1>3, <1>4, <1>12, <1>13, HostAfter
  <1>15. Held \o new = AllEffects(Cmds(w)) \o Held'
    <2>1. Held \in Seq(Event)
      BY <1>1, ConservedWay
    <2> QED BY <1>4, <1>5, <1>10, <1>14, <2>1
  <1>16. CallTakes(w, z, "busy", new)
    BY <1>4, <1>5, <1>7, <1>12, <1>14, <1>15 DEF CallTakes
  <1>17. Owing(z, issued', asked')
    <2>1. /\ Len(AllOwed(issued, Cmds(z))) = Len(AllWanted(z))
          /\ FlattenSeq(AllOwed(issued, Cmds(z))) = Contents(issued, a, n)
      BY <1>1, <1>6 DEF Reading
    <2>2. Promise(issued, c) = Contents(issued, a, n)
      <3>1. c.cmd # "spi"
        BY DEF ReadKinds
      <3> QED BY <1>1, <3>1, PromiseKept
    <2> QED BY <1>12, <2>1, <2>2 DEF Owing
  <1> QED BY <1>12, <1>16, <1>17, CallKeeps

(* A write or a delay.                                                      *)
LEMMA BeginWrites ==
  ASSUME SerprogInv, NEW r, NEW new \in Seq(Event), Fed(r, Held \o new, host.usage), Gathered(r,
         host.usage),
         Tidy(r), Len(r.data) < serprog.write_n \/ r.data = << >>,
         Call, Begin(r, "busy"), Asks(NoCmd), issued' = issued \o new
  PROVE  SerprogInv'
  <1>1. SerprogType /\ issued \in Seq(Event)
    BY DEF SerprogInv, SerprogType
  <1>2. /\ r \in DriverState(WriteItem) /\ Held \o new = AllEffects(Cmds(r.out)) \o HeldBy(r)
        /\ r.usage = 0 => Emptied(r.out, host.usage) /\ Collected(r.out, host.usage)
    BY DEF Fed, Gathered
  <1>3. PICK w \in Seq(WriteItem) : w = r.out
    BY <1>2 DEF DriverState
  <1>4. PICK z \in Seq(Item) : z = << >>
    <2>1. << >> \in Seq(Item)
      OBVIOUS
    <2> QED BY <2>1
  <1>5. Reading(z, 0, 0)
    BY <1>4, ReadingNone
  <1>6. Trailer(z, "busy") /\ MayFollow(w, z)
    BY <1>5, ReadingTrails
  <1>7. r.out = w \o z
    BY <1>3, <1>4
  <1>8. CallStep(w, z, "busy", new) /\ HostIs(r) /\ asked' = NoCmd /\ serprog' = serprog
    BY <1>1, <1>7, BeginStep
  <1>9. /\ host' \in HostState /\ HostFits' /\ Held' = HeldBy(r)
        /\ host'.usage = r.usage /\ host'.data = r.data
    BY <1>2, <1>8, HostAfter
  <1>10. NoCmd \in Wants
    BY DEF Wants
  <1>11. CallTakes(w, z, "busy", new)
    BY <1>2, <1>3, <1>4, <1>6, <1>8, <1>9, <1>10 DEF CallTakes
  <1>12. issued' \in Seq(Event)
    BY <1>1, ConcatProperties
  <1>13. Owing(z, issued', asked')
    <2>1. /\ Len(AllOwed(issued', Cmds(z))) = Len(AllWanted(z))
          /\ FlattenSeq(AllOwed(issued', Cmds(z))) = Contents(issued', 0, 0)
      BY <1>5, <1>12 DEF Reading
    <2>2. Contents(issued', 0, 0) = << >>
      BY DEF Contents
    <2>3. Promise(issued', NoCmd) = << >>
      BY DEF Promise, NoCmd, Cmd, ReadKinds
    <2> QED BY <1>8, <2>1, <2>2, <2>3 DEF Owing
  <1> QED BY <1>8, <1>11, <1>13, CallKeeps

(* A command that is waited for: its acknowledgement, and then more or not. *)
LEMMA AppendNext ==
  ASSUME NEW A, NEW x \in A, NEW y \in A, NEW v \in A
  PROVE  Append(<<x>>, y) = <<x, y>> /\ Append(<<x, y>>, v) = <<x, y, v>>
  <1>1. PICK o \in Seq(A) : o = <<x>> /\ Len(o) = 1 /\ o[1] = x
    BY Single
  <1>2. PICK p : p = <<x, y>>
    OBVIOUS
  <1>3. p \in Seq(A) /\ Len(p) = 2 /\ p[1] = x /\ p[2] = y
    BY <1>2
  <1>4. PICK q : q = <<x, y, v>>
    OBVIOUS
  <1>5. q \in Seq(A) /\ Len(q) = 3 /\ q[1] = x /\ q[2] = y /\ q[3] = v
    BY <1>4
  <1>6. Append(o, y) = p
    <2>1. PICK u \in Seq(A) : u = Append(o, y)
      BY AppendProperties
    <2>2. Len(u) = 2 /\ u[1] = x /\ u[2] = y
      BY <1>1, <2>1, AppendProperties
    <2>3. \A k \in 1 .. 2 : k = 1 \/ k = 2
      OBVIOUS
    <2>4. \A k \in 1 .. Len(u) : u[k] = p[k]
      BY <1>3, <2>2, <2>3
    <2> QED BY <1>3, <2>1, <2>2, <2>4, SeqEqual
  <1>7. Append(p, v) = q
    <2>1. PICK u \in Seq(A) : u = Append(p, v)
      BY <1>3, AppendProperties
    <2>5. Len(u) = Len(p) + 1 /\ u[Len(p) + 1] = v /\ \A k \in 1 .. Len(p) : u[k] = p[k]
      <3>1. p \in Seq(A)
        BY <1>3
      <3> QED BY ONLY <3>1, v \in A, <2>1, AppendProperties
    <2>6. Len(u) = 3 /\ u[3] = v /\ \A k \in 1 .. 2 : u[k] = p[k]
      BY <1>3, <2>5
    <2>2. Len(u) = 3 /\ u[1] = x /\ u[2] = y /\ u[3] = v
      BY <1>3, <2>6
    <2>3. \A k \in 1 .. 3 : k = 1 \/ k = 2 \/ k = 3
      OBVIOUS
    <2>4. \A k \in 1 .. Len(u) : u[k] = q[k]
      BY <1>5, <2>2, <2>3
    <2> QED BY <1>5, <2>1, <2>2, <2>4, SeqEqual
  <1> QED BY <1>1, <1>2, <1>4, <1>6, <1>7

(* Two entries more.                                                        *)
LEMMA TwoEntries ==
  ASSUME NEW s \in Seq(Item), NEW x \in Item, NEW y \in Item
  PROVE  Append(Append(s, x), y) = s \o <<x, y>> /\ <<x, y>> \in Seq(Item)
  <1>1. PICK o \in Seq(Item) : o = <<x>>
    BY Single
  <1>2. AppendsTo(s, o, y)
    BY ONLY s \in Seq(Item), o \in Seq(Item), y \in Item, AppendBehind
  <1>3. Append(s, x) = s \o o
    BY <1>1, AppendIsConcat
  <1>4. Append(o, y) = <<x, y>>
    BY <1>1, AppendNext
  <1> QED BY <1>2, <1>3, <1>4 DEF AppendsTo

(* Three entries more.                                                      *)
LEMMA ThreeEntries ==
  ASSUME NEW s \in Seq(Item), NEW x \in Item, NEW y \in Item, NEW v \in Item
  PROVE  Append(Append(Append(s, x), y), v) = s \o <<x, y, v>> /\ <<x, y, v>> \in Seq(Item)
  <1>1. Append(Append(s, x), y) = s \o <<x, y>> /\ <<x, y>> \in Seq(Item)
    BY TwoEntries
  <1>2. PICK o \in Seq(Item) : o = <<x, y>>
    BY <1>1
  <1>3. AppendsTo(s, o, v)
    BY ONLY s \in Seq(Item), o \in Seq(Item), v \in Item, AppendBehind
  <1>4. Append(o, v) = <<x, y, v>>
    BY <1>2, AppendNext
  <1> QED BY <1>1, <1>2, <1>3, <1>4 DEF AppendsTo

(* The entries of a command that is waited for.                             *)
LEMMA CommandEntries ==
  ASSUME NEW c \in SerCmd({"spi", "pin"})
  PROVE  /\ Docommand(c) \in Item /\ Ack \in Item /\ Data \in Item
         /\ Docommand(c).do = "docommand" /\ Docommand(c).cmd = c
         /\ Ack.do = "ack" /\ Ack.cmd = NoCmd /\ Data.do = "data" /\ Data.cmd = NoCmd
         /\ c.cmd \in {"spi", "pin"} /\ ~BufferOp(c) /\ c.cmd # "exec"
         /\ ~BufferOp(NoCmd) /\ NoCmd.cmd # "exec" /\ ~IsImmediate(NoCmd)
  <1>1. Docommand(c) \in Item /\ Ack \in Item /\ Data \in Item
    BY DEF Docommand, Item
  <1>2. c.cmd \in {"spi", "pin"}
    BY DEF SerCmd
  <1>3. ~BufferOp(c) /\ c.cmd # "exec"
    BY <1>2 DEF BufferOp
  <1>4. ~BufferOp(NoCmd) /\ NoCmd.cmd # "exec" /\ ~IsImmediate(NoCmd)
    BY DEF NoCmd, Cmd, BufferOp, IsImmediate, ReadKinds
  <1> QED BY <1>1, <1>2, <1>3, <1>4 DEF Docommand, Ack, Data

(* They can be the second half.                                             *)
LEMMA CommandTrails ==
  ASSUME NEW c \in SerCmd({"spi", "pin"}), NEW z,
         \/ c.cmd = "pin" /\ z = <<Docommand(c), Ack>>
         \/ c.cmd = "spi" /\ z = <<Docommand(c), Ack, Data>>
  PROVE  /\ Trailer(z, IF c.cmd = "pin" THEN "stopping" ELSE "busy")
         /\ z # << >> /\ z[1].do = "docommand"
  <1>1. /\ Docommand(c) \in Item /\ Ack \in Item /\ Data \in Item
        /\ Docommand(c).do = "docommand" /\ Docommand(c).cmd = c
        /\ Ack.do = "ack" /\ Ack.cmd = NoCmd /\ Data.do = "data" /\ Data.cmd = NoCmd
        /\ c.cmd \in {"spi", "pin"} /\ ~BufferOp(c) /\ c.cmd # "exec"
        /\ ~BufferOp(NoCmd) /\ NoCmd.cmd # "exec" /\ ~IsImmediate(NoCmd)
    BY CommandEntries
  <1>2. PICK l \in {2, 3} :
          /\ Len(z) = l /\ z[1] = Docommand(c) /\ z[2] = Ack /\ (l = 3 => z[3] = Data)
          /\ l = 3 <=> c.cmd = "spi"
    <2>1. CASE c.cmd = "pin" /\ z = <<Docommand(c), Ack>>
      BY <2>1
    <2>2. CASE c.cmd = "spi" /\ z = <<Docommand(c), Ack, Data>>
      BY <2>2
    <2> QED BY <2>1, <2>2
  <1>3. \A k \in 1 .. l : k = 1 \/ k = 2 \/ (k = 3 /\ l = 3)
    BY <1>2
  <1>4. \A k \in 2 .. l : (k = 2 /\ k - 1 = 1) \/ (k = 3 /\ l = 3 /\ k - 1 = 2)
    BY <1>2
  <1>5. 1 \in 1 .. l /\ 2 \in 1 .. l /\ (l = 3 => 3 \in 1 .. l)
    BY <1>2
  <1>6. ASSUME NEW k \in 2 .. l
        PROVE  /\ z[k].do = "data" => z[k - 1].do \in {"flush", "ack"}
               /\ z[k].do = "ack" <=> z[k - 1].do = "docommand"
               /\ z[k].do = "docommand" => z[k - 1].do = "flush"
    <2>1. CASE k = 2 /\ k - 1 = 1
      BY <1>1, <1>2, <2>1
    <2>2. CASE k = 3 /\ l = 3 /\ k - 1 = 2
      BY <1>1, <1>2, <2>2
    <2> QED BY <1>4, <2>1, <2>2
  <1>7. ASSUME NEW k \in 1 .. l
        PROVE  /\ z[k].do = "docommand" => l <= k + 2
               /\ z[k].do = "ack" => l <= k + 1
               /\ ~BufferOp(z[k].cmd) /\ z[k].cmd.cmd # "exec"
               /\ z[k].do # "stream"
               /\ IsImmediate(z[k].cmd) => 2 > k
               /\ z[k].do = "docommand" => z[k].cmd = c
               /\ z[k].do = "data" => l = 3
    <2>1. CASE k = 1
      BY <1>1, <1>2, <2>1
    <2>2. CASE k = 2
      BY <1>1, <1>2, <2>2
    <2>3. CASE k = 3 /\ l = 3
      BY <1>1, <1>2, <2>3
    <2> QED BY <1>3, <2>1, <2>2, <2>3
  <1>8. IsAnswer(z[2])
    BY <1>1, <1>2 DEF IsAnswer
  <1>9. TodoShape(z)
    BY <1>2, <1>5, <1>6, <1>7, <1>8 DEF TodoShape
  <1>10. StreamsFlush(z)
    BY <1>2, <1>7 DEF StreamsFlush
  <1>11. z # << >> /\ z[1].do = "docommand"
    BY <1>1, <1>2
  <1>12. PICK s : s = IF c.cmd = "pin" THEN "stopping" ELSE "busy"
    OBVIOUS
  <1>13. s = "busy" => z[Len(z)].do = "data"
    BY <1>1, <1>2, <1>12
  <1>14. s = "stopping" => z[Len(z)].do = "ack" /\ \A k \in 1 .. Len(z) : z[k].do # "data"
    BY <1>1, <1>2, <1>7, <1>12
  <1>15. \A k \in 1 .. Len(z) : z[k].do = "docommand" => (z[k].cmd.cmd = "pin") = (s = "stopping")
    BY <1>2, <1>7, <1>12
  <1>16. Trailer(z, s)
    BY <1>2, <1>7, <1>9, <1>10, <1>11, <1>13, <1>14, <1>15 DEF Trailer
  <1> QED BY <1>11, <1>12, <1>16

(* What is owed for it.                                                     *)
LEMMA CommandOwed ==
  ASSUME NEW c \in SerCmd({"spi", "pin"}), NEW log \in Seq(Event), NEW e, e \in {<<Docommand(c),
         Ack>>, <<Docommand(c), Ack, Data>>}
  PROVE  /\ AllOwed(log, Cmds(e)) = Owes(log, c)
         /\ Len(AllWanted(e)) = IF e = <<Docommand(c), Ack>> THEN 0 ELSE 1
  <1>1. /\ Docommand(c) \in Item /\ Ack \in Item /\ Data \in Item
        /\ Docommand(c).do = "docommand" /\ Docommand(c).cmd = c
        /\ Ack.do = "ack" /\ Ack.cmd = NoCmd /\ Data.do = "data" /\ Data.cmd = NoCmd
    BY CommandEntries
  <1>2. PICK x \in Item, y \in Item, v \in Item : x = Docommand(c) /\ y = Ack /\ v = Data
    BY <1>1
  <1>3. PICK n \in Seq(Item) : n = << >>
    <2>1. << >> \in Seq(Item)
      OBVIOUS
    <2> QED BY <2>1
  <1>4. PICK z1 \in Seq(Item) : z1 = Append(n, x)
    BY AppendProperties
  <1>5. PICK z2 \in Seq(Item) : z2 = Append(z1, y)
    BY AppendProperties
  <1>6. PICK z3 \in Seq(Item) : z3 = Append(z2, v)
    BY AppendProperties
  <1>7. z2 = <<x, y>> /\ z3 = <<x, y, v>>
    <2>1. z1 = <<x>>
      BY <1>3, <1>4
    <2>2. Append(<<x>>, y) = <<x, y>> /\ Append(<<x, y>>, v) = <<x, y, v>>
      BY ONLY <1>2, AppendNext
    <2>3. z2 = <<x, y>>
      BY ONLY <1>5, <2>1, <2>2
    <2> QED BY ONLY <1>6, <2>2, <2>3
  <1>8. OwedAt(log, n, x) /\ OwedAt(log, z1, y) /\ OwedAt(log, z2, v)
    BY OwedMore
  <1>9. AllOwed(log, Cmds(n)) = << >>
    <2>1. Reading(<< >>, 0, 0)
      BY ReadingNone
    <2>2. Len(AllOwed(log, Cmds(n))) = Len(AllWanted(<< >>))
      BY <1>3, <2>1 DEF Reading
    <2>3. AllOwed(log, Cmds(n)) \in Seq(Seq(Int)) /\ Len(AllOwed(log, Cmds(n))) = 0
      BY <1>8, <2>2, NoAnswers DEF OwedAt
    <2> QED BY ONLY <2>3, NoLength
  <1>10. Owes(log, NoCmd) = << >>
    BY DEF Owes, NoCmd, Cmd, ReadKinds
  <1>11. Owes(log, c) \in Seq(Seq(Int))
    <2>1. c \in ListedCmd
      BY WayKinds
    <2> QED BY <2>1, OwesType
  <1>12. AllOwed(log, Cmds(z1)) = << >> \o Owes(log, c)
    BY <1>1, <1>2, <1>4, <1>8, <1>9 DEF OwedAt
  <1>13. PICK o \in Seq(Seq(Int)) : o = Owes(log, c)
    BY <1>11
  <1>14. AllOwed(log, Cmds(z1)) = o
    BY <1>12, <1>13
  <1>15. AllOwed(log, Cmds(z2)) = o \o << >>
    BY <1>1, <1>2, <1>5, <1>8, <1>10, <1>14 DEF OwedAt
  <1>16. AllOwed(log, Cmds(z2)) = o
    BY <1>15
  <1>17. AllOwed(log, Cmds(z3)) = o \o << >>
    BY <1>1, <1>2, <1>6, <1>8, <1>10, <1>16 DEF OwedAt
  <1>18. AllOwed(log, Cmds(z3)) = o
    BY <1>17
  <1>19. /\ Len(AllWanted(z1)) = 0 + 0 /\ Len(AllWanted(z2)) = Len(AllWanted(z1)) + 0
         /\ Len(AllWanted(z3)) = Len(AllWanted(z2)) + 1
    <2>1. /\ Len(AllWanted(Append(n, x))) = Len(AllWanted(n)) + (IF x.do = "data" THEN 1 ELSE 0)
          /\ Len(AllWanted(Append(z1, y))) = Len(AllWanted(z1)) + (IF y.do = "data" THEN 1 ELSE 0)
          /\ Len(AllWanted(Append(z2, v))) = Len(AllWanted(z2)) + (IF v.do = "data" THEN 1 ELSE 0)
      BY WantedMore
    <2>2. Len(AllWanted(n)) = 0
      BY <1>3, NoAnswers
    <2>3. x.do # "data" /\ y.do # "data" /\ v.do = "data"
      BY <1>1, <1>2
    <2> QED BY <1>4, <1>5, <1>6, <2>1, <2>2, <2>3
  <1>20. z2 # z3
    BY <1>7
  <1>21. e = z2 \/ e = z3
    BY <1>2, <1>7
  <1>22. Len(AllWanted(z2)) = 0 /\ Len(AllWanted(z3)) = 1
    BY ONLY <1>19
  <1>23. e = <<Docommand(c), Ack>> <=> e = z2
    BY <1>2, <1>7
  <1>24. CASE e = z2
    BY <1>13, <1>16, <1>22, <1>23, <1>24
  <1>25. CASE e = z3
    BY <1>13, <1>18, <1>20, <1>22, <1>23, <1>25
  <1> QED BY <1>21, <1>24, <1>25

(* A command that is waited for, once everything else has been sent.        *)
LEMMA CommandAsks ==
  ASSUME SerprogInv, NEW h, h = IF host.usage > 0 \/ Pending(host) THEN Execute(Open) ELSE Open,
         NEW c \in SerCmd({"spi", "pin"}), NEW z \in Seq(Item),
         NEW s, NEW r, r = [prev |-> h.prev, addr |-> h.addr, data |-> h.data, usage |-> h.usage,
         out |-> h.out \o z],
         \/ c.cmd = "pin" /\ s = "stopping" /\ z = <<Docommand(c), Ack>>
         \/ c.cmd = "spi" /\ s = "busy" /\ z = <<Docommand(c), Ack, Data>>,
         NEW d \in Wants, d = IF c.cmd = "spi" THEN c ELSE NoCmd,
         Call, Begin(r, s), Asks(d), issued' = issued
  PROVE  SerprogInv'
  <1>1. SerprogType /\ HostFits /\ issued \in Seq(Event)
    BY DEF SerprogInv, SerprogType
  <1>2. /\ Fed(h, Held, host.usage) /\ Gathered(h, host.usage)
        /\ h.usage = 0 /\ h.data = << >>
        /\ h.out = << >> \/ h.out[Len(h.out)] = Flush
    BY <1>1, BeforeCommandFed
  <1>3. /\ h \in DriverState(WriteItem) /\ Held = AllEffects(Cmds(h.out)) \o HeldBy(h)
        /\ Emptied(h.out, host.usage) /\ Collected(h.out, host.usage)
    BY <1>2 DEF Fed, Gathered
  <1>4. PICK w \in Seq(WriteItem) : w = h.out
    BY <1>3 DEF DriverState
  <1>5. Trailer(z, s) /\ z # << >> /\ z[1].do = "docommand"
    <2>1. Trailer(z, IF c.cmd = "pin" THEN "stopping" ELSE "busy") /\ z # << >>
          /\ z[1].do = "docommand"
      BY CommandTrails
    <2>2. s = IF c.cmd = "pin" THEN "stopping" ELSE "busy"
      OBVIOUS
    <2> QED BY <2>1, <2>2
  <1>6. MayFollow(w, z) /\ s \in {"busy", "stopping"}
    BY <1>2, <1>4 DEF MayFollow
  <1>7. PICK new \in Seq(Event) : new = << >>
    <2>1. << >> \in Seq(Event)
      OBVIOUS
    <2> QED BY <2>1
  <1>8. issued' = issued \o new
    BY <1>1, <1>7
  <1>9. r.out = w \o z
    BY <1>4
  <1>10. CallStep(w, z, s, new) /\ HostIs(r) /\ asked' = d /\ serprog' = serprog
    <2>1. SerprogType
      BY <1>1
    <2> QED BY ONLY w \in Seq(WriteItem), z \in Seq(Item), <2>1, <1>8, <1>9, Call, Begin(r, s),
                 Asks(d), BeginStep
  <1>11. HostIs(h) /\ Tidy(h)
    BY <1>2, <1>10 DEF HostIs, Tidy
  <1>12. /\ host' \in HostState /\ HostFits' /\ Held' = HeldBy(h)
         /\ host'.usage = 0 /\ host'.data = << >>
    BY <1>2, <1>3, <1>10, <1>11, HostAfter
  <1>13. Held \o new = AllEffects(Cmds(w)) \o Held'
    <2>1. Held \in Seq(Event)
      BY <1>1, ConservedWay
    <2> QED BY <1>3, <1>4, <1>7, <1>12, <2>1
  <1>14. CallTakes(w, z, s, new)
    BY <1>3, <1>4, <1>5, <1>6, <1>10, <1>12, <1>13 DEF CallTakes
  <1>15. Owing(z, issued', asked')
    <2>1. AllOwed(issued, Cmds(z)) = Owes(issued, c)
          /\ Len(AllWanted(z)) = IF z = <<Docommand(c), Ack>> THEN 0 ELSE 1
      BY <1>1, CommandOwed
    <2>2. CASE c.cmd = "pin" /\ s = "stopping" /\ z = <<Docommand(c), Ack>>
      <3>1. Owes(issued, c) = << >> /\ d = NoCmd
        BY <2>2 DEF Owes, ReadKinds
      <3>2. Promise(issued, NoCmd) = << >>
        BY DEF Promise, NoCmd, Cmd, ReadKinds
      <3>3. FlattenSeq(<< >>) = << >>
        BY DEF FlattenSeq
      <3>4. Len(AllWanted(z)) = 0
        BY <2>1, <2>2
      <3> QED BY <1>10, <2>1, <3>1, <3>2, <3>3, <3>4 DEF Owing
    <2>3. CASE c.cmd = "spi" /\ s = "busy" /\ z = <<Docommand(c), Ack, Data>>
      <3>1. Owes(issued, c) = <<Promise(issued, c)>> /\ d = c
        BY <2>3 DEF Owes
      <3>2. Promise(issued, c) \in Seq(Int)
        BY <1>1, <3>1, PromiseKept
      <3>3. FlattenSeq(<<Promise(issued, c)>>) = Promise(issued, c)
        BY <3>2, FlattenOne
      <3>4. Len(<<Promise(issued, c)>>) = 1
        OBVIOUS
      <3>5. Len(AllWanted(z)) = 1
        <4>1. Len(<<Docommand(c), Ack, Data>>) # Len(<<Docommand(c), Ack>>)
          OBVIOUS
        <4>2. z # <<Docommand(c), Ack>>
          BY <2>3, <4>1
        <4> QED BY <2>1, <4>2
      <3> QED BY <1>10, <2>1, <3>1, <3>3, <3>4, <3>5 DEF Owing
    <2> QED BY <2>2, <2>3
  <1> QED BY <1>10, <1>14, <1>15, CallKeeps

(* A write or a delay is in the list, or held, when the call has been made. *)
LEMMA WritebKeeps ==
  ASSUME SerprogInv, NEW a \in Addr, ChipWriteb(a)
  PROVE  SerprogInv'
  <1>1. SerprogType /\ HostFits /\ issued \in Seq(Event) /\ a \in Nat
    BY SerprogAssumption DEF SerprogInv, SerprogType
  <1>2. /\ Fed(Open, Held, host.usage) /\ Gathered(Open, host.usage) /\ Tidy(Open)
        /\ Held \in Seq(Event) /\ serprog.write_n \in Nat
        /\ Len(Open.data) < serprog.write_n \/ Open.data = << >>
    BY <1>1, OpenFed
  <1>3. PICK v \in Nat : v = Len(issued) + 1
    BY <1>1
  <1>4. PICK e \in Event : e = Ev(a, v)
    BY <1>1, SpreadOne
  <1>5. PICK new \in Seq(Event) : new = <<e>>
    BY Single
  <1>6. PICK r :
          r = IF serprog.write_n > 0 THEN CombinedWrite(Open, a, v) ELSE SingleWrite(Open, a, v)
    OBVIOUS
  <1>7. Call /\ Begin(r, "busy") /\ Asks(NoCmd) /\ issued' = Append(issued, e)
    BY <1>3, <1>4, <1>6 DEF ChipWriteb, Ev
  <1>8. issued' = issued \o new
    BY <1>1, <1>5, <1>7, AppendIsConcat
  <1>9. /\ Fed(r, Held \o new, host.usage) /\ Gathered(r, host.usage) /\ Tidy(r)
        /\ Len(r.data) < serprog.write_n \/ r.data = << >>
    <2>1. CASE serprog.write_n > 0
      <3>1. serprog.write_n \in Nat \ {0} /\ r = CombinedWrite(Open, a, v)
        BY <1>2, <1>6, <2>1
      <3>7. PICK g \in Seq(Event) : g = Held
        BY <1>2
      <3>2. PICK h, u : g = Held /\ h = Open /\ u = host.usage
        BY <3>7
      <3>3. /\ Fed(h, g, u) /\ Gathered(h, u) /\ Tidy(h)
            /\ (Len(h.data) < serprog.write_n \/ h.data = << >>)
        BY <1>2, <3>2
      <3>4. serprog.write_n \in Nat \ {0}
        BY <3>1
      <3>5. a \in Nat
        BY <1>1
      <3>6. /\ Fed(CombinedWrite(h, a, v), g \o <<Ev(a, v)>>, u)
            /\ Gathered(CombinedWrite(h, a, v), u)
            /\ Tidy(CombinedWrite(h, a, v))
            /\ \/ Len(CombinedWrite(h, a, v).data) < serprog.write_n
               \/ CombinedWrite(h, a, v).data = << >>
        BY ONLY g \in Seq(Event), <3>3, <3>4, <3>5, v \in Nat, CombinedWriteFed
      <3> QED BY <1>4, <1>5, <3>1, <3>2, <3>6
    <2>2. CASE ~(serprog.write_n > 0)
      <3>1. serprog.write_n = 0 /\ r = SingleWrite(Open, a, v)
        BY <1>2, <1>6, <2>2
      <3>2. Open.data = << >>
        BY <1>2, <3>1 DEF Tidy
      <3>3. /\ Fed(SingleWrite(Open, a, v), Held \o <<Ev(a, v)>>, host.usage)
            /\ Gathered(SingleWrite(Open, a, v), host.usage)
            /\ Tidy(SingleWrite(Open, a, v)) /\ SingleWrite(Open, a, v).data = << >>
        BY <1>1, <1>2, <3>2, SingleWriteFed
      <3> QED BY <1>4, <1>5, <3>1, <3>3
    <2> QED BY <2>1, <2>2
  <1> QED BY <1>7, <1>8, <1>9, BeginWrites

(* A delay is in the list when the call has been made.                      *)
LEMMA DelayKeeps ==
  ASSUME SerprogInv, Delay
  PROVE  SerprogInv'
  <1>1. SerprogType /\ HostFits /\ issued \in Seq(Event)
    BY DEF SerprogInv, SerprogType
  <1>2. /\ Fed(Open, Held, host.usage) /\ Gathered(Open, host.usage) /\ Tidy(Open)
        /\ Held \in Seq(Event) /\ serprog.write_n \in Nat
    BY <1>1, OpenFed
  <1>3. PICK d : d = Cmd("delay", Len(issued) + 1, << >>, 0)
    OBVIOUS
  <1>4. d \in SerCmd(StoredKinds)
    <2>1. << >> \in Seq(Nat) /\ Len(issued) + 1 \in Int
      BY <1>1
    <2> QED BY <1>3, <2>1 DEF Cmd, SerCmd, StoredKinds, ReadKinds
  <1>5. PICK p : p = Passed(Open)
    OBVIOUS
  <1>6. Fed(p, Held, host.usage) /\ Gathered(p, host.usage) /\ p.data = << >> /\ Tidy(p)
    <2>1. serprog.write_n = 0 => Open.data = << >>
      BY <1>2 DEF Tidy
    <2>2. Fed(p, Held, host.usage) /\ Gathered(p, host.usage) /\ p.data = << >>
      BY <1>2, <1>5, <2>1, PassedFed
    <2> QED BY <2>2 DEF Tidy
  <1>7. PICK h : h = CheckUsage(p, 5)
    OBVIOUS
  <1>8. Fed(h, Held, host.usage) /\ h.data = << >>
    BY <1>2, <1>6, <1>7, CheckedFed
  <1>9. PICK r : r = [Do(h, Stream(d)) EXCEPT !.usage = @ + 5, !.prev = FALSE]
    OBVIOUS
  <1>10. PICK y : y = Append(h.out, Stream(d))
    OBVIOUS
  <1>11. h = [prev |-> h.prev, addr |-> h.addr, data |-> h.data, usage |-> h.usage, out |-> h.out]
    BY <1>8 DEF Fed, DriverState
  <1>12. r = [prev |-> FALSE, addr |-> h.addr, data |-> << >>, usage |-> h.usage + 5, out |-> y]
    <2>1. Do(h, Stream(d)) = [h EXCEPT !.out = y]
      BY <1>10 DEF Do
    <2>2. Do(h, Stream(d)) =
            [prev |-> h.prev, addr |-> h.addr, data |-> << >>, usage |-> h.usage, out |-> y]
      BY <1>8, <1>11, <2>1
    <2>3. PICK e, u : e = Do(h, Stream(d)) /\ u = h.usage
      OBVIOUS
    <2>4. e = [prev |-> h.prev, addr |-> h.addr, data |-> << >>, usage |-> u, out |-> y]
      BY ONLY <2>2, <2>3
    <2>5. r = [e EXCEPT !.usage = @ + 5, !.prev = FALSE]
      BY <1>9, <2>3
    <2>6. e.usage = u
      BY <2>4
    <2>7. r = [e EXCEPT !.usage = u + 5, !.prev = FALSE]
      BY <2>5, <2>6
    <2>8. PICK f, n, z : f = FALSE /\ n = u + 5 /\ z = << >>
      OBVIOUS
    <2>9. PICK q, a : q = h.prev /\ a = h.addr
      OBVIOUS
    <2>10. e = [prev |-> q, addr |-> a, data |-> z, usage |-> u, out |-> y]
      BY ONLY <2>4, <2>8, <2>9
    <2>11. [e EXCEPT !.usage = n, !.prev = f] =
             [prev |-> f, addr |-> a, data |-> z, usage |-> n, out |-> y]
      <3>1. PICK w : w = [e EXCEPT !.usage = n]
        OBVIOUS
      <3>2. w = [prev |-> q, addr |-> a, data |-> z, usage |-> n, out |-> y]
        BY ONLY <2>10, <3>1
      <3>3. [w EXCEPT !.prev = f] = [prev |-> f, addr |-> a, data |-> z, usage |-> n, out |-> y]
        BY ONLY <3>2
      <3> QED BY ONLY <3>1, <3>3
    <2> QED BY ONLY <2>3, <2>7, <2>8, <2>9, <2>11
  <1>13. PICK new \in Seq(Event) : new = Effects(d)
    <2>1. d \in ListedCmd
      BY <1>4, WayKinds
    <2> QED BY <2>1, EffectsType
  <1>14. Fed(r, Held \o new, host.usage) /\ Gathered(r, host.usage) /\ Tidy(r) /\ r.data = << >>
    <2>1. PICK g, u : g = Held /\ u = host.usage
      OBVIOUS
    <2>2. Fed(h, g, u) /\ h.data = << >>
      BY <1>8, <2>1
    <2>3. r = [prev |-> FALSE, addr |-> h.addr, data |-> << >>, usage |-> h.usage + 5,
               out |-> Append(h.out, Stream(d))]
      BY ONLY <1>10, <1>12
    <2>4. PICK f \in BOOLEAN : f = FALSE
      OBVIOUS
    <2>5. r = [prev |-> f, addr |-> h.addr, data |-> << >>, usage |-> h.usage + 5,
               out |-> Append(h.out, Stream(d))]
      BY ONLY <2>3, <2>4
    <2>6. Fed(h, g, u)
      BY <2>2
    <2>7. h.data = << >>
      BY <2>2
    <2>8. Fed(r, g \o Effects(d), u) /\ Gathered(r, u) /\ Tidy(r) /\ r.data = << >>
      BY ONLY d \in SerCmd(StoredKinds), f \in BOOLEAN, <1>4, <2>5, <2>6, <2>7, StoredNow
    <2> QED BY <1>13, <2>1, <2>8
  <1>15. Call /\ Begin(r, "busy") /\ Asks(NoCmd) /\ issued' = issued \o new
    BY <1>3, <1>5, <1>7, <1>9, <1>13 DEF Delay
  <1> QED BY <1>14, <1>15, BeginWrites

(* A byte is read.                                                          *)
LEMMA ReadbKeeps ==
  ASSUME SerprogInv, NEW a \in Addr, ChipReadb(a)
  PROVE  SerprogInv'
  <1>1. SerprogType /\ HostFits /\ a \in Int
    BY SerprogAssumption DEF SerprogInv
  <1>2. PICK c : c = Cmd("readb", a, << >>, 1)
    OBVIOUS
  <1>3. c \in SerCmd(ReadKinds) /\ c \in Wants /\ c.cmd \in ReadKinds /\ c.addr = a /\ c.len = 1
    <2>1. << >> \in Seq(Nat)
      OBVIOUS
    <2> QED BY <1>1, <1>2, <2>1 DEF Cmd, SerCmd, ReadKinds, Wants
  <1>4. ReadsTo(Open, a, 0)
    BY <1>1, ReadsNone
  <1>5. c.addr = a + 0
    BY <1>1, <1>3
  <1>6. ReadIs(Read(Open, c), a, 0 + 1)
    BY <1>1, <1>3, <1>4, <1>5, ReadMore
  <1>7. ReadIs(Read(Open, c), a, 1)
    BY <1>6
  <1>8. Call /\ Begin(Read(Open, c), "busy") /\ Asks(c) /\ issued' = issued
    BY <1>2 DEF ChipReadb
  <1>9. PICK r : r = Read(Open, c)
    OBVIOUS
  <1>10. ReadIs(r, a, 1) /\ Begin(r, "busy")
    BY <1>7, <1>8, <1>9
  <1>11. a \in Int /\ 1 \in Nat
    BY <1>1
  <1>12. c \in Wants
    BY <1>3
  <1> QED BY ONLY <1>11, <1>12, SerprogInv, <1>3, <1>8, <1>10, BeginReads

(* A number of bytes is read, in chunks.                                    *)
LEMMA ReadnKeeps ==
  ASSUME SerprogInv, NEW q \in Reads, ChipReadn(q.addr, q.len)
  PROVE  SerprogInv'
  <1>1. SerprogType /\ HostFits
    BY DEF SerprogInv
  <1>2. PICK a \in Int, n \in Nat \ {0} : a = q.addr /\ n = q.len
    BY SerprogAssumption
  <1>3. PICK c : c = ReadN(a, n)
    OBVIOUS
  <1>4. c \in Wants /\ c.cmd \in ReadKinds /\ c.addr = a /\ c.len = n
    <2>1. << >> \in Seq(Nat)
      OBVIOUS
    <2> QED BY <1>3, <2>1 DEF ReadN, Cmd, ReadKinds, Wants
  <1>5. PICK r : r = ReadChunks(Open, a, n)
    OBVIOUS
  <1>6. ReadIs(r, a, n)
    BY <1>1, <1>5, ChunksRead
  <1>7. Call /\ Begin(r, "busy") /\ Asks(c) /\ issued' = issued
    BY <1>2, <1>3, <1>5 DEF ChipReadn
  <1>8. c \in Wants /\ n \in Nat
    BY <1>4
  <1> QED BY ONLY a \in Int, <1>8, SerprogInv, <1>4, <1>6, <1>7, BeginReads

(* An SPI command is sent.                                                  *)
LEMMA SpiSendKeeps ==
  ASSUME SerprogInv, SpiSendCommand
  PROVE  SerprogInv'
  <1>1. SerprogType /\ HostFits
    BY DEF SerprogInv
  <1>2. PICK h : h = IF host.usage > 0 \/ Pending(host) THEN Execute(Open) ELSE Open
    OBVIOUS
  <1>3. h \in DriverState(WriteItem)
    BY <1>1, <1>2, BeforeCommandFed DEF Fed
  <1>4. h.out \in Seq(Item)
    <2>1. h.out \in Seq(WriteItem)
      BY <1>3 DEF DriverState
    <2> QED BY <2>1, WriteItems
  <1>5. PICK c : c = Cmd("spi", None, <<0>>, 1)
    OBVIOUS
  <1>6. c \in SerCmd({"spi", "pin"}) /\ c \in Wants /\ c.cmd = "spi"
    <2>1. <<0>> \in Seq(Nat)
      OBVIOUS
    <2> QED BY <1>5, <2>1 DEF Cmd, None, SerCmd, ReadKinds, Wants
  <1>7. c \in SerCmd({"spi", "pin"})
    BY <1>6
  <1>8. Docommand(c) \in Item /\ Ack \in Item /\ Data \in Item
    BY <1>7, CommandEntries
  <1>9. PICK z \in Seq(Item) : z = <<Docommand(c), Ack, Data>>
    <2>1. <<Docommand(c), Ack, Data>> \in Seq(Item)
      BY <1>8
    <2> QED BY ONLY <2>1
  <1>10. Append(Append(Append(h.out, Docommand(c)), Ack), Data) = h.out \o z
    BY <1>4, <1>8, <1>9, ThreeEntries
  <1>11. PICK r : r = [prev |-> h.prev, addr |-> h.addr, data |-> h.data, usage |-> h.usage,
                out |-> h.out \o z]
    OBVIOUS
  <1>12. h = ListWith(h, h.out)
    BY <1>3 DEF DriverState, ListWith
  <1>13. PICK b, q : b = h /\ q = h.out /\ h = ListWith(b, q)
    BY <1>12
  <1>14. Do(h, Docommand(c)) = ListWith(b, Append(q, Docommand(c)))
    BY ONLY <1>13, DoLists
  <1>15. Do(Do(h, Docommand(c)), Ack) = ListWith(b, Append(Append(q, Docommand(c)), Ack))
    BY ONLY <1>14, DoLists
  <1>16. Do(Do(Do(h, Docommand(c)), Ack), Data) =
           ListWith(b, Append(Append(Append(q, Docommand(c)), Ack), Data))
    BY ONLY <1>15, DoLists
  <1>17. ListWith(h, h.out \o z) = r
    BY <1>11 DEF ListWith
  <1>18. Do(Do(Do(h, Docommand(c)), Ack), Data) = r
    BY ONLY <1>10, <1>13, <1>16, <1>17
  <1>19. Call /\ Begin(r, "busy") /\ Asks(c) /\ issued' = issued
    BY <1>2, <1>5, <1>18 DEF SpiSendCommand
  <1>20. c \in Wants /\ c = (IF c.cmd = "spi" THEN c ELSE NoCmd)
    BY <1>6
  <1>21. c.cmd = "spi" /\ "busy" = "busy" /\ z = <<Docommand(c), Ack, Data>>
    BY <1>6, <1>9
  <1>22. PICK s : s = "busy"
    OBVIOUS
  <1> QED BY ONLY SerprogInv, <1>2, <1>7, z \in Seq(Item), <1>11, <1>19, <1>20, <1>21, <1>22,
               CommandAsks

(* serprog_shutdown() switches the output drivers off.                      *)
LEMMA ShutdownKeeps ==
  ASSUME SerprogInv, Shutdown
  PROVE  SerprogInv'
  <1>1. SerprogType /\ HostFits
    BY DEF SerprogInv
  <1>2. PICK h : h = IF host.usage > 0 \/ Pending(host) THEN Execute(Open) ELSE Open
    OBVIOUS
  <1>3. h \in DriverState(WriteItem)
    BY <1>1, <1>2, BeforeCommandFed DEF Fed
  <1>4. h.out \in Seq(Item)
    <2>1. h.out \in Seq(WriteItem)
      BY <1>3 DEF DriverState
    <2> QED BY <2>1, WriteItems
  <1>5. PICK c : c = Cmd("pin", None, << >>, 0)
    OBVIOUS
  <1>6. c \in SerCmd({"spi", "pin"}) /\ c.cmd = "pin"
    <2>1. << >> \in Seq(Nat)
      OBVIOUS
    <2> QED BY <1>5, <2>1 DEF Cmd, None, SerCmd, ReadKinds
  <1>7. c \in SerCmd({"spi", "pin"})
    BY <1>6
  <1>8. Docommand(c) \in Item /\ Ack \in Item
    BY <1>7, CommandEntries
  <1>9. PICK z \in Seq(Item) : z = <<Docommand(c), Ack>>
    <2>1. <<Docommand(c), Ack>> \in Seq(Item)
      BY <1>8
    <2> QED BY ONLY <2>1
  <1>10. Append(Append(h.out, Docommand(c)), Ack) = h.out \o z
    BY <1>4, <1>8, <1>9, TwoEntries
  <1>11. PICK r : r = [prev |-> h.prev, addr |-> h.addr, data |-> h.data, usage |-> h.usage,
                out |-> h.out \o z]
    OBVIOUS
  <1>12. h = ListWith(h, h.out)
    BY <1>3 DEF DriverState, ListWith
  <1>13. PICK b, q : b = h /\ q = h.out /\ h = ListWith(b, q)
    BY <1>12
  <1>14. Do(h, Docommand(c)) = ListWith(b, Append(q, Docommand(c)))
    BY ONLY <1>13, DoLists
  <1>15. Do(Do(h, Docommand(c)), Ack) = ListWith(b, Append(Append(q, Docommand(c)), Ack))
    BY ONLY <1>14, DoLists
  <1>17. ListWith(h, h.out \o z) = r
    BY <1>11 DEF ListWith
  <1>18. Do(Do(h, Docommand(c)), Ack) = r
    BY ONLY <1>10, <1>13, <1>15, <1>17
  <1>19. Call /\ Begin(r, "stopping") /\ Asks(NoCmd) /\ issued' = issued
    BY <1>2, <1>5, <1>18 DEF Shutdown
  <1>20. PICK d \in Wants : d = NoCmd
    BY DEF Wants
  <1>21. d = (IF c.cmd = "spi" THEN c ELSE NoCmd) /\ Asks(d)
    BY <1>6, <1>19, <1>20
  <1>22. c.cmd = "pin" /\ "stopping" = "stopping" /\ z = <<Docommand(c), Ack>>
    BY <1>6, <1>9
  <1> QED BY ONLY SerprogInv, <1>2, <1>7, z \in Seq(Item), d \in Wants, <1>11, <1>19, <1>21, <1>22,
               CommandAsks

(* Every call of the driver keeps the invariant.                            *)
LEMMA CallsKeep ==
  ASSUME SerprogInv, Calls
  PROVE  SerprogInv'
  <1>1. CASE \E a \in Addr : ChipWriteb(a) \/ ChipReadb(a)
    BY <1>1, WritebKeeps, ReadbKeeps
  <1>2. CASE \E r \in Reads : ChipReadn(r.addr, r.len)
    BY <1>2, ReadnKeeps
  <1>3. CASE Delay \/ SpiSendCommand \/ Shutdown
    BY <1>3, DelayKeeps, SpiSendKeeps, ShutdownKeeps
  <1> QED BY <1>1, <1>2, <1>3 DEF Calls

-----------------------------------------------------------------------------
(* The whole session.                                                       *)

(* Nothing is on its way at first.                                          *)
LEMMA SessionStarts ==
  ASSUME SerprogInit
  PROVE  SerprogInv
  <1>1. /\ serprog \in SerprogDevices /\ host = Fresh /\ todo = << >> /\ ops = 0
        /\ asked = NoCmd /\ got = << >> /\ outcome = "none" /\ spc = "idle"
        /\ input = << >> /\ answers = << >> /\ opbuf = << >> /\ performed = << >>
        /\ issued = << >> /\ naks = {} /\ refusals = 0
    BY DEF SerprogInit
  <1>2. << >> \in Seq(Nat) /\ << >> \in Seq(Int) /\ << >> \in Seq(Event) /\ << >> \in Seq(Item)
        /\ << >> \in Seq(AnyCmd) /\ << >> \in Seq(OnLine) /\ << >> \in Seq(SerCmd(StoredKinds))
    OBVIOUS
  <1>3. host \in HostState /\ host.data = << >> /\ host.usage = 0
    BY <1>1, <1>2 DEF HostState, Fresh
  <1>4. SerprogType
    BY <1>1, <1>2, <1>3 DEF SerprogType, Wants
  <1>5. HostFits
    BY <1>3 DEF HostFits, BufferFits
  <1>6. TodoEnds
    <2>1. spc \notin {"busy", "stopping"}
      BY <1>1
    <2>2. EndsAt(<< >>, spc, outcome)
      BY <2>1, NothingEnds
    <2> QED BY <1>1, <2>2, TodoEndsAt
  <1>7. Cmds(<< >>) = << >>
    BY DEF Cmds
  <1>8. OnTheWay = << >>
    <2>1. << >> \o << >> = << >>
      OBVIOUS
    <2>2. Line(<< >>, << >>, << >>) = << >>
      BY <1>7, <2>1 DEF Line
    <2> QED BY <1>1, <2>2, WayLine
  <1>9. AllEffects(OnTheWay) = << >> /\ (\A log : AllOwed(log, OnTheWay) = << >>)
    <2>1. [k \in DOMAIN << >> |-> Effects(<< >>[k])] = << >>
      OBVIOUS
    <2>2. \A log : [k \in DOMAIN << >> |-> Owes(log, << >>[k])] = << >>
      OBVIOUS
    <2>3. FlattenSeq(<< >>) = << >>
      BY <1>2, FlattenOne
    <2> QED BY <1>8, <2>1, <2>2, <2>3 DEF AllEffects, AllOwed
  <1>10. Conserved
    <2>1. Held = << >>
      BY <1>3, <1>4, ConservedWay
    <2>2. issued = (performed \o AllEffects(OnTheWay)) \o Held
      <3>1. (<< >> \o << >>) \o << >> = << >>
        OBVIOUS
      <3> QED BY <1>1, <1>9, <2>1, <3>1
    <2> QED BY <1>4, <2>2, ConservedWay
  <1>11. ReadResult
    BY <1>1 DEF ReadResult
  <1>12. 1 .. 0 = {} /\ Len(<< >>) = 0
    OBVIOUS
  <1>13. ~Naked
    BY <1>1, <1>12 DEF Naked
  <1>14. Flow
    <2>1. CountsMatch
      <3>1. Cardinality(Replies) = 0
        <4>1. Replies = {}
          BY <1>1, <1>12 DEF Replies
        <4> QED BY <4>1, FS_EmptySet
      <3> QED BY <1>1, <1>12, <3>1 DEF CountsMatch, Running
    <2>2. ~Waits(todo) /\ ~Running /\ spc # "stopped" /\ naks = {}
      BY <1>1, <1>12 DEF Waits, Running
    <2>3. (\A k \in 1 .. Len(todo) :
             todo[k].do = "stream" => \E m \in 1 .. Len(todo) : m > k /\ todo[m].do = "flush")
          /\ ~(ops > 0)
      BY <1>1, <1>12
    <2> QED BY <2>1, <2>2, <2>3 DEF Flow
  <1>15. Pipeline
    BY <1>1, <1>8, <1>12 DEF Pipeline, Settled, NoneBehind, Drained
  <1>16. Accounted
    <2>1. Owed = << >>
      <3>1. AllBrought(<< >>) = << >> /\ << >> \o << >> = << >>
        BY NoAnswers
      <3> QED BY <1>1, <1>9, <3>1 DEF Owed
    <2>2. Len(AllWanted(<< >>)) = 0
      BY NoAnswers
    <2>3. FlattenSeq(<< >>) = << >>
      BY <1>2, FlattenOne
    <2>5. << >> \o << >> = << >>
      OBVIOUS
    <2>4. Promise(issued, asked) = << >>
      BY <1>1 DEF Promise, NoCmd, Cmd, ReadKinds
    <2> QED BY <1>1, <1>12, <2>1, <2>2, <2>3, <2>4, <2>5 DEF Accounted
  <1>17. AckAlone /\ ShutdownFlushes
    BY <1>1 DEF AckAlone, ShutdownFlushes, Running
  <1> QED BY <1>1, <1>4, <1>5, <1>6, <1>10, <1>11, <1>13, <1>14, <1>15, <1>16, <1>17 DEF SerprogInv

(* Every step keeps the invariant.                                          *)
LEMMA SessionStep ==
  ASSUME SerprogInv, SerprogNext
  PROVE  SerprogInv'
  BY CallsKeep, HostStepKeeps, LinkFailsKeeps, DeviceStepKeeps DEF SerprogNext

(* So does one of another programmer.                                       *)
LEMMA SessionRests ==
  ASSUME SerprogInv, UNCHANGED serprogVars
  PROVE  SerprogInv'
  <1>1. /\ UNCHANGED <<serprog, host, todo, ops, asked, got, outcome, spc, link, input, answers,
                       opbuf,
                       performed, drivers, issued, naks, refusals>>
    BY DEF serprogVars, driver, device
  <1>2. SerprogType' /\ HostFits'
    BY <1>1 DEF SerprogInv, SerprogType, HostFits, BufferFits
  <1>3. TodoEnds'
    BY <1>1 DEF SerprogInv, TodoEnds, Running
  <1>4. OnTheWay' = OnTheWay
    BY <1>1 DEF OnTheWay, Sent
  <1>5. Conserved' = Conserved
    BY <1>1 DEF Conserved, Sent, Held
  <1>6. ReadResult' = ReadResult
    BY <1>1 DEF ReadResult
  <1>7. Naked' = Naked
    BY <1>1 DEF Naked
  <1>8. CountsMatch' = CountsMatch
    BY <1>1 DEF CountsMatch, Replies, Running
  <1>9. Flow' = Flow
    BY <1>1, <1>7, <1>8 DEF Flow, Running
  <1>10. Pipeline' = Pipeline
    BY <1>1, <1>4 DEF Pipeline
  <1>11. Accounted' = Accounted
    BY <1>1, <1>4, <1>7 DEF Accounted, Owed
  <1>12. AckAlone' = AckAlone
    BY <1>1 DEF AckAlone, Running
  <1>13. ShutdownFlushes' = ShutdownFlushes
    BY <1>1 DEF ShutdownFlushes
  <1>14. Working' = Working
    BY <1>1 DEF Working
  <1> QED BY <1>1, <1>2, <1>3, <1>5, <1>6, <1>7, <1>9, <1>10, <1>11, <1>12, <1>13,
               <1>14 DEF SerprogInv

(* What the invariant says.                                                 *)
LEMMA SessionSays ==
  ASSUME SerprogInv
  PROVE  Delivered
  <1>1. CountsMatch
    BY DEF SerprogInv, Working, Flow, CountsMatch
  <1>2. ShutdownFlushes
    BY DEF SerprogInv, Working, ShutdownFlushes
  <1> QED BY <1>1, <1>2 DEF SerprogInv, HostFits, Delivered

(* A session with a serprog device, or another programmer.                  *)
SessionInv == IF mode = "serprog" THEN SerprogInv ELSE SerprogIdle

(* The other programmers leave the session alone, and an idle one owes      *)
(* nothing.                                                                 *)
LEMMA OtherDelivers ==
  ASSUME SerprogIdle
  PROVE  Delivered
  <1>1. /\ host = Fresh /\ todo = << >> /\ spc = "none" /\ link = FALSE /\ input = << >>
        /\ opbuf = << >> /\ performed = << >> /\ issued = << >>
    BY DEF SerprogIdle
  <1>2. host.data = << >> /\ host.addr = 0
    BY <1>1 DEF Fresh
  <1>3. BufferFits /\ ReadResult /\ CountsMatch /\ ShutdownFlushes
    BY <1>1, <1>2 DEF BufferFits, ReadResult, CountsMatch, ShutdownFlushes
  <1>4. << >> \in Seq(Nat) /\ << >> \in Seq(Event)
    OBVIOUS
  <1>5. AllEffects(<< >>) = << >>
    <2>1. [k \in DOMAIN << >> |-> Effects(<< >>[k])] = << >>
      OBVIOUS
    <2>2. FlattenSeq(<< >>) = << >>
      BY <1>4, FlattenOne
    <2> QED BY <2>1, <2>2 DEF AllEffects
  <1>6. Sent = << >>
    BY <1>1 DEF Sent
  <1>7. Held = << >>
    <2>1. host.addr \in Int /\ host.data \in Seq(Nat) /\ host.data = << >>
      BY <1>2, <1>4
    <2>2. HeldBy(host) = << >>
      BY <2>1, HeldType
    <2> QED BY <2>2 DEF Held, HeldBy
  <1>8. << >> \o << >> \o << >> \o << >> \o << >> = << >>
    OBVIOUS
  <1>9. Conserved
    BY <1>1, <1>5, <1>6, <1>7, <1>8 DEF Conserved
  <1> QED BY <1>3, <1>9 DEF Delivered

(* Every step of the composition keeps it.                                  *)
LEMMA ProgrammersStep ==
  ASSUME SessionInv, [ProgrammersNext]_programmerVars
  PROVE  SessionInv'
  <1>1. CASE mode = "serprog" /\ InSerprog(SerprogNext)
    <2>1. SerprogInv' /\ mode' = mode
      BY <1>1, SessionStep DEF SessionInv, InSerprog
    <2> QED BY <1>1, <2>1 DEF SessionInv
  <1>2. CASE UNCHANGED <<serprogVars, mode>>
    <2>1. CASE mode = "serprog"
      BY <1>2, <2>1, SessionRests DEF SessionInv
    <2>2. CASE mode # "serprog"
      <3>1. SerprogIdle
        BY <2>2 DEF SessionInv
      <3>2. SerprogIdle'
        BY <1>2, <3>1 DEF SerprogIdle, serprogVars, driver, device
      <3> QED BY <1>2, <2>2, <3>2 DEF SessionInv
    <2> QED BY <2>1, <2>2
  <1>3. (mode = "serprog" /\ InSerprog(SerprogNext)) \/ UNCHANGED <<serprogVars, mode>>
    BY DEF ProgrammersNext, InCommand, InAdapter, InBulk, InSession, InSerprog, programmerVars
  <1> QED BY <1>1, <1>2, <1>3

(* What the caller of the serprog driver asked for is done to the chip,     *)
(* once, in order and at its address, and what a read returns is the answer *)
(* to it, given after all that was asked for before: combining writes,      *)
(* filling and executing the operation buffer, streaming and collecting     *)
(* answers change nothing of that; the counters of the flow control agree   *)
(* with what is on the line, and serprog_shutdown() leaves nothing behind   *)
(* (serprog.c).                                                             *)
THEOREM SerprogDelivers == ProgrammersSpec => []Delivered
  <1>1. ProgrammersInit => SessionInv
    BY SessionStarts DEF ProgrammersInit, SessionInv
  <1>2. SessionInv /\ [ProgrammersNext]_programmerVars => SessionInv'
    BY ProgrammersStep
  <1>3. SessionInv => Delivered
    BY SessionSays, OtherDelivers DEF SessionInv
  <1> QED BY <1>1, <1>2, <1>3, PTL DEF ProgrammersSpec
=============================================================================
