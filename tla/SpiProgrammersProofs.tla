------------------------ MODULE SpiProgrammersProofs ------------------------
(***************************************************************************)
(* Proofs about the SPI programmers other than Intel's chipsets.           *)
(***************************************************************************)
EXTENDS SpiProgrammers, SequenceTheorems, WellFoundedInduction, TLAPS

-----------------------------------------------------------------------------
(* Arithmetic.                                                              *)

(* Division with remainder.                                                 *)
LEMMA DivMod ==
  ASSUME NEW a \in Nat, NEW p \in Nat \ {0}
  PROVE  a = p * (a \div p) + (a % p) /\ a % p \in 0 .. p - 1 /\ a \div p \in Nat
  OBVIOUS

(* Multiples of p are p apart.                                              *)
LEMMA MulLess ==
  ASSUME NEW p \in Nat \ {0}, NEW q \in Nat, NEW r \in Nat, q < r
  PROVE  p * q + p <= p * r
  <1>1. PICK d \in Nat : r = q + 1 + d
    <2>1. r - q - 1 \in Nat /\ r = q + 1 + (r - q - 1) OBVIOUS
    <2> QED BY <2>1
  <1>2. p * r = p * q + p + p * d
    BY <1>1
  <1>3. p * d \in Nat
    OBVIOUS
  <1> QED BY <1>2, <1>3

(* What lies within p above a multiple of p has it for its quotient.        *)
LEMMA Quotient ==
  ASSUME NEW a \in Nat, NEW p \in Nat \ {0}, NEW q \in Nat, p * q <= a, a < p * q + p
  PROVE  a \div p = q /\ a % p = a - p * q
  <1>1. a = p * (a \div p) + (a % p) /\ a % p \in 0 .. p - 1 /\ a \div p \in Nat
    BY DivMod
  <1>2. DEFINE d == a \div p
  <1>3. d \in Nat /\ p * d <= a /\ a < p * d + p BY <1>1
  <1>4. CASE d < q
    <2>1. p * d + p <= p * q BY <1>3, <1>4, MulLess
    <2> HIDE DEF d
    <2>2. p * d \in Nat /\ p * q \in Nat BY <1>3
    <2> QED BY <1>3, <2>1, <2>2
  <1>5. CASE q < d
    <2>1. p * q + p <= p * d BY <1>3, <1>5, MulLess
    <2> HIDE DEF d
    <2>2. p * d \in Nat /\ p * q \in Nat BY <1>3
    <2> QED BY <1>3, <2>1, <2>2
  <1>6. d = q
    <2> HIDE DEF d
    <2> QED BY <1>3, <1>4, <1>5
  <1> QED BY <1>1, <1>6

(* The smaller of two numbers.                                              *)
LEMMA MinOf2 ==
  ASSUME NEW x \in Int, NEW y \in Int
  PROVE  Min({x, y}) \in {x, y} /\ Min({x, y}) <= x /\ Min({x, y}) <= y
  <1>1. \E z \in {x, y} : \A w \in {x, y} : z <= w
    <2>1. CASE x <= y BY <2>1
    <2>2. CASE y <= x BY <2>2
    <2> QED BY <2>1, <2>2
  <1>2. Min({x, y}) \in {x, y} /\ \A w \in {x, y} : Min({x, y}) <= w
    BY <1>1 DEF Min
  <1> QED BY <1>2

(* Past the rest of its unit an address is a multiple of the unit.          *)
LEMMA RoundedUp ==
  ASSUME NEW a \in Nat, NEW u \in Nat \ {0}
  PROVE  (a + (u - (a % u))) % u = 0
  <1> DEFINE q == a \div u
  <1>1. a = u * q + (a % u) /\ a % u \in 0 .. u - 1 /\ q \in Nat
    BY DivMod
  <1>2. a + (u - (a % u)) = u * (q + 1) /\ u * (q + 1) = u * q + u /\ u * q \in Nat
    <2> HIDE DEF q
    <2> QED BY <1>1
  <1>3. q + 1 \in Nat /\ u * (q + 1) \in Nat
    BY <1>1, <1>2
  <1> DEFINE m == a + (u - (a % u))
  <1>4. m \in Nat /\ m = u * (q + 1)
    BY <1>2, <1>3
  <1> HIDE DEF q, m
  <1>5. u * (q + 1) <= m /\ m < u * (q + 1) + u
    BY <1>3, <1>4
  <1>6. m % u = m - u * (q + 1)
    BY <1>3, <1>4, <1>5, Quotient
  <1>7. m % u = 0
    BY <1>3, <1>4, <1>6
  <1> QED BY <1>7 DEF m

(* Whole units of a number are no more than the number.                     *)
LEMMA WholeUnits ==
  ASSUME NEW s \in Nat, NEW u \in Nat \ {0}
  PROVE  s \div u \in Nat /\ (s \div u) * u \in Nat /\ (s \div u) * u <= s
  <1> DEFINE q == s \div u
             r == s % u
  <1>1. s = u * q + r /\ r \in 0 .. u - 1 /\ q \in Nat
    BY DivMod
  <1> HIDE DEF q, r
  <1>2. q * u = u * q /\ u * q \in Nat
    BY <1>1
  <1>3. q \in Nat /\ q * u \in Nat /\ q * u <= s
    BY <1>1, <1>2
  <1> QED BY <1>3 DEF q

(* n values of f from s on.                                                 *)
ReadFrom(f, s, n) == [k \in 1 .. n |-> f[s + k - 1]]

(* What is read in two parts, one behind the other, is the whole.           *)
LEMMA Continued ==
  ASSUME NEW f, NEW s \in Int, NEW m \in Nat, NEW n \in Nat
  PROVE  ReadFrom(f, s, m) \o ReadFrom(f, s + m, n) = ReadFrom(f, s, m + n)
  <1> DEFINE V == {f[x] : x \in s .. s + m + n - 1}
             first == ReadFrom(f, s, m)
             second == ReadFrom(f, s + m, n)
             whole == ReadFrom(f, s, m + n)
  <1>1. first \in Seq(V) /\ Len(first) = m
    <2>1. \A k \in 1 .. m : s + k - 1 \in s .. s + m + n - 1
      OBVIOUS
    <2> QED BY <2>1 DEF ReadFrom
  <1>2. second \in Seq(V) /\ Len(second) = n
    <2>1. \A k \in 1 .. n : s + m + k - 1 \in s .. s + m + n - 1
      OBVIOUS
    <2> QED BY <2>1 DEF ReadFrom
  <1>3. whole \in Seq(V) /\ Len(whole) = m + n
    <2>1. \A k \in 1 .. m + n : s + k - 1 \in s .. s + m + n - 1
      OBVIOUS
    <2>2. m + n \in Nat
      OBVIOUS
    <2> QED BY <2>1, <2>2 DEF ReadFrom
  <1>4. first \o second \in Seq(V) /\ Len(first \o second) = m + n
        /\ \A k \in 1 .. m + n : (first \o second)[k] = IF k <= m THEN first[k] ELSE second[k - m]
    <2> HIDE DEF first, second
    <2>1. first \in Seq(V) /\ second \in Seq(V)
      BY <1>1, <1>2
    <2>2. /\ first \o second \in Seq(V) /\ Len(first \o second) = Len(first) + Len(second)
          /\ \A k \in 1 .. Len(first) + Len(second) :
               (first \o second)[k] = IF k <= Len(first) THEN first[k] ELSE second[k - Len(first)]
      BY ONLY <2>1, ConcatProperties
    <2> QED BY <1>1, <1>2, <2>2
  <1>5. ASSUME NEW k \in 1 .. m + n PROVE (first \o second)[k] = whole[k]
    <2>1. whole[k] = f[s + k - 1]
      BY DEF ReadFrom
    <2>2. CASE k <= m
      <3>1. k \in 1 .. m
        BY <2>2
      <3>2. first[k] = f[s + k - 1]
        BY <3>1 DEF ReadFrom
      <3> HIDE DEF first, second, whole
      <3> QED BY <1>4, <2>1, <2>2, <3>2
    <2>3. CASE ~(k <= m)
      <3>1. k - m \in 1 .. n /\ s + m + (k - m) - 1 = s + k - 1
        BY <2>3
      <3>2. second[k - m] = f[s + m + (k - m) - 1]
        BY <3>1 DEF ReadFrom
      <3> HIDE DEF first, second, whole
      <3> QED BY <1>4, <2>1, <2>3, <3>1, <3>2
    <2> QED BY <2>2, <2>3
  <1> HIDE DEF V
  <1>6. \A a, b \in Seq(V) : Len(a) = Len(b) /\ (\A k \in 1 .. Len(a) : a[k] = b[k]) => a = b
    OBVIOUS
  <1> HIDE DEF first, second, whole
  <1>7. first \o second = whole
    BY <1>3, <1>4, <1>5, <1>6
  <1> QED BY <1>7 DEF first, second, whole

(* A number of units is that many.                                          *)
LEMMA UnitsInAll ==
  ASSUME NEW u \in Nat \ {0}, NEW m \in Nat, NEW all \in Nat, all = m * u
  PROVE  all \div u = m
  <1>1. u * m = all
    OBVIOUS
  <1>2. u * m <= all /\ all < u * m + u
    BY <1>1
  <1> QED BY <1>2, Quotient

(* A number below the modulus is its own rest.                              *)
LEMMA SmallRest ==
  ASSUME NEW x \in Nat, NEW p \in Nat \ {0}
  PROVE  x % p \in Int /\ (x < p => x % p = x)
  <1>1. x % p \in Int
    BY DivMod
  <1>2. ASSUME x < p PROVE x % p = x
    <2>1. p * 0 <= x /\ x < p * 0 + p
      BY <1>2
    <2>2. x % p = x - p * 0
      BY <2>1, Quotient
    <2> QED BY <2>2
  <1> QED BY <1>1, <1>2

(* Fewer units make less.                                                   *)
LEMMA FewerUnits ==
  ASSUME NEW m \in Nat, NEW c \in Nat, NEW u \in Nat, m * u < c * u
  PROVE  m < c
  <1>1. u # 0
    OBVIOUS
  <1>2. m # c
    OBVIOUS
  <1>3. CASE c < m
    <2>1. u * c + u <= u * m
      BY <1>1, <1>3, MulLess
    <2>2. u * c = c * u /\ u * m = m * u /\ c * u \in Nat /\ m * u \in Nat
      OBVIOUS
    <2> QED BY <2>1, <2>2
  <1> QED BY <1>2, <1>3

-----------------------------------------------------------------------------
(* The masters with read and write functions of their own (BulkIo).         *)

(* The types, and that the position stays in the range.                     *)
BulkTypes ==
  /\ bulkjob \in BulkJobs /\ bulkmem \in [BulkAddr -> {0, 1}]
  /\ bulkpos \in Nat /\ bulkjob.start <= bulkpos /\ bulkpos <= End
  /\ announced \in Int /\ bulkresult \in {"none", "0", "error"} /\ bulklost \in BOOLEAN
  /\ swallowed \in BOOLEAN

(* In the aligned middle the position is at a unit; the mapped chip is read *)
(* at once.                                                                 *)
BulkAtUnit ==
  BulkStart <= bulkpos /\ bulkpos < BulkEnd =>
    /\ \E n \in Nat : bulkpos = BulkStart + n * Unit
    /\ ~Dediprog /\ bulkjob.fn = "read" => bulkpos = BulkStart

(* The packets of a bulk transfer fit their count.                          *)
BulkFits == BulkLen < MaxCount * Unit

(* Then the device expects as many as there are.                            *)
BulkCounted ==
  /\ bulkpos < BulkStart => announced = Unannounced
  /\ Dediprog /\ BulkStart <= bulkpos /\ bulkpos < BulkEnd /\ announced # Unannounced =>
       (BulkFits => announced * Unit = BulkEnd - bulkpos)

(* What is behind the position has been done, unless a packet was taken for *)
(* nothing.                                                                 *)
BulkPassed ==
  ~swallowed =>
  /\ bulkjob.fn = "write" =>
       \A a \in BulkAddr :
         bulkjob.start <= a /\ a < bulkpos /\ bulkjob.data[a] = 0 => bulkmem[a] = 0
  /\ bulkjob.fn = "read" =>
       bulkbuf = [k \in 1 .. bulkpos - bulkjob.start |-> bulkmem[bulkjob.start + k - 1]]

(* The verdict is right.                                                    *)
BulkVerdict ==
  /\ bulkresult = "0" => bulkpos = End /\ ~bulklost
  /\ bulkresult = "error" => bulklost \/ (Refused /\ bulkpos = End)
  /\ bulklost => Dediprog
  /\ swallowed => Dediprog /\ BulkLen >= MaxCount * Unit

BulkInv == BulkTypes /\ BulkAtUnit /\ BulkCounted /\ BulkPassed /\ BulkVerdict

(* A call is for a range of the chip, in multiples of the granularity.      *)
LEMMA BulkJobFacts ==
  ASSUME bulkjob \in BulkJobs
  PROVE  /\ bulkjob.fn \in {"read", "write"} /\ bulkjob.data \in [BulkAddr -> {0, 1}]
         /\ bulkjob.start \in Nat /\ bulkjob.len \in Nat \ {0} /\ End \in Nat /\ End <= BulkSize
         /\ bulkjob.start % Granularity = 0 /\ bulkjob.len % Granularity = 0
         /\ Granularity <= bulkjob.len /\ bulkjob.page_size \in Nat \ {0}
  <1>1. /\ bulkjob.fn \in {"read", "write"} /\ bulkjob.data \in BulkContents
        /\ bulkjob.start \in BulkAddr /\ bulkjob.len \in 1 .. BulkSize
        /\ bulkjob.page_size \in PageSizes
        /\ bulkjob.start % Granularity = 0 /\ bulkjob.len % Granularity = 0
        /\ bulkjob.start + bulkjob.len <= BulkSize
    BY DEF BulkJobs
  <1>2. bulkjob.start \in Nat /\ bulkjob.len \in Nat \ {0} /\ End \in Nat
    BY <1>1, BulkAssumption DEF BulkAddr, End
  <1>3. Granularity <= bulkjob.len
    <2> DEFINE q == bulkjob.len \div Granularity
    <2>1. Granularity \in Nat \ {0}
      BY BulkAssumption
    <2>2. bulkjob.len = Granularity * q /\ q \in Nat
      <3>1. bulkjob.len = Granularity * q + (bulkjob.len % Granularity) /\ q \in Nat
        BY <1>2, <2>1, DivMod
      <3>2. Granularity * q \in Nat
        <4> HIDE DEF q
        <4> QED BY <2>1, <3>1
      <3> HIDE DEF q
      <3> QED BY <1>1, <3>1, <3>2
    <2>3. q # 0
      <3> HIDE DEF q
      <3> QED BY <1>2, <2>1, <2>2
    <2>4. Granularity * 0 + Granularity <= Granularity * q
      <3> HIDE DEF q
      <3> QED BY <2>1, <2>2, <2>3, MulLess
    <2> QED BY <2>1, <2>2, <2>4
  <1> QED BY <1>1, <1>2, <1>3, BulkAssumption DEF End

(* The aligned middle is in the range, is made of units, and begins at a    *)
(* multiple of one.                                                         *)
LEMMA BulkMiddle ==
  ASSUME bulkjob \in BulkJobs
  PROVE  /\ Unit \in Nat /\ BulkStart \in Nat /\ BulkLen \in Nat /\ BulkEnd = BulkStart + BulkLen
         /\ bulkjob.start <= BulkStart /\ BulkEnd <= End
         /\ Unit = 0 => BulkLen = 0
         /\ Unit # 0 => BulkStart % Unit = 0 /\ \E n \in Nat : BulkLen = n * Unit
  <1> USE BulkJobFacts
  <1>1. Unit \in Nat
    BY BulkAssumption DEF Unit
  <1>2. CASE Unit = 0
    BY <1>2 DEF Residue, BulkLen, BulkStart, BulkEnd, End
  <1>3. CASE Unit # 0
    <2>1. Unit \in Nat \ {0} /\ bulkjob.start % Unit \in 0 .. Unit - 1
      BY <1>1, <1>3, DivMod
    <2>2. bulkjob.start % Unit # 0 => Unit - (bulkjob.start % Unit) <= bulkjob.len
      <3>1. CASE Unit <= Granularity
        BY <2>1, <3>1, BulkAssumption
      <3>2. CASE Unit = 2 * Granularity
        <4> DEFINE q == bulkjob.start \div (2 * Granularity)
                   r == bulkjob.start % (2 * Granularity)
        <4>1. Granularity \in Nat \ {0} /\ 2 * Granularity \in Nat \ {0}
          BY BulkAssumption
        <4>2. bulkjob.start = (2 * Granularity) * q + r /\ r \in 0 .. 2 * Granularity - 1
              /\ q \in Nat
          BY <4>1, DivMod
        <4>3. CASE r < Granularity
          <5>1. (2 * Granularity) * q = Granularity * (2 * q) /\ 2 * q \in Nat
            BY <4>1, <4>2
          <5>2. bulkjob.start % Granularity = bulkjob.start - Granularity * (2 * q)
            <6> HIDE DEF q, r
            <6>1. Granularity * (2 * q) \in Nat BY <4>1, <5>1
            <6>2. /\ Granularity * (2 * q) <= bulkjob.start
                  /\ bulkjob.start < Granularity * (2 * q) + Granularity
              BY <4>1, <4>2, <4>3, <5>1, <6>1
            <6> QED BY <4>1, <5>1, <6>2, Quotient
          <5>3. r = 0
            <6> HIDE DEF q, r
            <6>1. Granularity * (2 * q) \in Nat BY <4>1, <5>1
            <6> QED BY <4>1, <4>2, <5>1, <5>2, <6>1
          <5> QED BY <3>2, <5>3
        <4>4. CASE Granularity <= r
          <5>1. bulkjob.start % Unit = r
            BY <3>2
          <5> HIDE DEF q, r
          <5> QED BY <3>2, <4>1, <4>2, <4>4, <5>1
        <4> QED BY <4>1, <4>2, <4>3, <4>4
      <3>3. Unit <= Granularity \/ Unit = 2 * Granularity
        BY <1>1, BulkAssumption DEF Unit
      <3> QED BY <3>1, <3>2, <3>3
    <2>3. Residue \in Nat /\ Residue <= bulkjob.len /\ BulkStart % Unit = 0
      <3>1. CASE bulkjob.start % Unit = 0
        BY <1>3, <3>1 DEF Residue, BulkStart
      <3>2. CASE bulkjob.start % Unit # 0
        <4>1. Residue = Unit - (bulkjob.start % Unit)
          BY <1>3, <3>2 DEF Residue
        <4>2. (bulkjob.start + (Unit - (bulkjob.start % Unit))) % Unit = 0
          BY <2>1, RoundedUp
        <4> QED BY <2>1, <2>2, <3>2, <4>1, <4>2 DEF BulkStart
      <3> QED BY <3>1, <3>2
    <2> DEFINE n == (bulkjob.len - Residue) \div Unit
    <2>4. bulkjob.len - Residue \in Nat
      BY <2>3
    <2>5. n \in Nat /\ n * Unit \in Nat /\ n * Unit <= bulkjob.len - Residue
      BY <2>1, <2>4, WholeUnits
    <2>6. BulkLen = n * Unit
      BY <1>3 DEF BulkLen
    <2> HIDE DEF n
    <2>8. BulkLen \in Nat /\ \E m \in Nat : BulkLen = m * Unit
      BY <2>5, <2>6
    <2>9. BulkLen <= bulkjob.len - Residue
      BY <2>5, <2>6
    <2>10. BulkStart \in Nat /\ bulkjob.start <= BulkStart /\ BulkStart = bulkjob.start + Residue
      BY <2>3 DEF BulkStart
    <2>11. BulkEnd <= End /\ BulkEnd = BulkStart + BulkLen
      BY <2>3, <2>8, <2>9, <2>10 DEF BulkEnd, End
    <2> QED BY <1>1, <1>3, <2>3, <2>8, <2>10, <2>11
  <1> QED BY <1>2, <1>3

(* What depends on the call alone stays.                                    *)
LEMMA BulkSame ==
  ASSUME bulkjob' = bulkjob
  PROVE  /\ End' = End /\ Dediprog' = Dediprog /\ Unit' = Unit /\ Residue' = Residue
         /\ BulkStart' = BulkStart /\ BulkLen' = BulkLen /\ BulkEnd' = BulkEnd /\ Refused' = Refused
  <1>1. End' = End /\ Dediprog' = Dediprog
    BY DEF End, Dediprog
  <1>2. Unit' = Unit
    BY <1>1 DEF Unit
  <1>3. Residue' = Residue
    BY <1>2 DEF Residue
  <1>4. BulkStart' = BulkStart /\ BulkLen' = BulkLen
    BY <1>2, <1>3 DEF BulkStart, BulkLen
  <1> QED BY <1>1, <1>2, <1>3, <1>4 DEF BulkEnd, Refused

(* A transfer of n bytes that went well.                                    *)
LEMMA BulkAdvance ==
  ASSUME BulkTypes, BulkPassed, BulkVerdict, NEW n \in Nat \ {0}, bulkpos + n <= End,
         Effect(bulkpos .. bulkpos + n - 1), Took(n), announced' \in Int,
         bulkjob' = bulkjob, bulkresult' = bulkresult, bulklost' = bulklost,
         swallowed' = swallowed
  PROVE  BulkTypes' /\ BulkPassed' /\ BulkVerdict'
  <1>a. /\ bulkjob \in BulkJobs /\ bulkjob.fn \in {"read", "write"} /\ bulkjob.start \in Nat
        /\ End \in Nat /\ End <= BulkSize /\ bulkmem \in [BulkAddr -> {0, 1}]
        /\ bulkpos \in Nat /\ bulkjob.start <= bulkpos
    BY BulkJobFacts DEF BulkTypes
  <1>b. End' = End /\ Dediprog' = Dediprog /\ Refused' = Refused /\ BulkSize \in Nat
        /\ BulkLen' = BulkLen /\ Unit' = Unit
    BY BulkSame, BulkAssumption
  <1>1. bulkpos' = bulkpos + n /\ bulkpos < End
    BY <1>a DEF Took
  <1>v. BulkVerdict'
    BY <1>a, <1>b, <1>1 DEF BulkVerdict
  <1>s. CASE swallowed
    <2>1. bulkmem' \in [BulkAddr -> {0, 1}]
      BY <1>a DEF Effect
    <2>2. BulkTypes'
      BY <1>a, <1>b, <1>1, <2>1 DEF BulkTypes
    <2>3. BulkPassed'
      BY <1>s DEF BulkPassed
    <2> QED BY <1>v, <2>2, <2>3
  <1>2. CASE ~swallowed /\ bulkjob.fn = "read"
    <2>1. bulkmem' = bulkmem /\ bulkbuf' = bulkbuf \o [k \in 1 .. n |-> bulkmem[bulkpos + k - 1]]
      BY <1>2 DEF Effect, Took
    <2>2. bulkbuf = [k \in 1 .. bulkpos - bulkjob.start |-> bulkmem[bulkjob.start + k - 1]]
      BY <1>2 DEF BulkPassed
    <2> DEFINE m == bulkpos - bulkjob.start
    <2>3. m \in Nat /\ bulkpos = bulkjob.start + m
      BY <1>a
    <2>5. ReadFrom(bulkmem, bulkjob.start, m) \o ReadFrom(bulkmem, bulkjob.start + m, n)
            = ReadFrom(bulkmem, bulkjob.start, m + n)
      <3>1. bulkjob.start \in Int
        BY <1>a
      <3> HIDE DEF m
      <3> QED BY <2>3, <3>1, Continued
    <2>8. bulkbuf' = ReadFrom(bulkmem, bulkjob.start, m + n)
      <3>1. /\ bulkbuf = ReadFrom(bulkmem, bulkjob.start, m)
            /\ bulkbuf' = bulkbuf \o ReadFrom(bulkmem, bulkpos, n)
        BY <2>1, <2>2 DEF ReadFrom
      <3> HIDE DEF m
      <3> QED BY <2>3, <2>5, <3>1
    <2>9. m + n = bulkpos' - bulkjob.start
      BY <1>a, <1>1
    <2>10. bulkbuf' = [k \in 1 .. bulkpos' - bulkjob'.start |-> bulkmem'[bulkjob'.start + k - 1]]
      BY <2>1, <2>8, <2>9 DEF ReadFrom
    <2>11. BulkPassed'
      BY <1>2, <2>10 DEF BulkPassed
    <2>12. BulkTypes'
      BY <1>a, <1>b, <1>1, <2>1 DEF BulkTypes
    <2> QED BY <1>v, <2>11, <2>12
  <1>3. CASE ~swallowed /\ bulkjob.fn = "write"
    <2>1. bulkmem' = [a \in BulkAddr |->
                        IF a \in bulkpos .. bulkpos + n - 1 /\ bulkjob.data[a] = 0
                        THEN 0 ELSE bulkmem[a]]
      BY <1>3 DEF Effect
    <2>2. bulkmem' \in [BulkAddr -> {0, 1}]
      BY <1>a, <2>1
    <2>3. ASSUME NEW a \in BulkAddr, bulkjob.start <= a, a < bulkpos + n, bulkjob.data[a] = 0
          PROVE  bulkmem'[a] = 0
      <3>1. a \in Int
        BY DEF BulkAddr
      <3>2. CASE a < bulkpos
        BY <1>3, <2>1, <2>3, <3>2 DEF BulkPassed
      <3>3. CASE bulkpos <= a
        BY <1>a, <2>1, <2>3, <3>1, <3>3
      <3> QED BY <1>a, <3>1, <3>2, <3>3
    <2>4. BulkPassed'
      BY <1>1, <1>3, <2>3 DEF BulkPassed
    <2>5. BulkTypes'
      BY <1>a, <1>b, <1>1, <2>2 DEF BulkTypes
    <2> QED BY <1>v, <2>4, <2>5
  <1> QED BY <1>a, <1>s, <1>2, <1>3

(* A transfer that was lost on the way.                                     *)
LEMMA BulkBreaks ==
  ASSUME BulkInv, Going, NEW X, Effect(X), Lost, bulkjob' = bulkjob, bulkresult' = bulkresult,
         swallowed' = swallowed
  PROVE  BulkInv'
  <1> USE BulkJobFacts, BulkSame DEF BulkInv
  <1>1. bulkpos' = bulkpos /\ bulkbuf' = bulkbuf /\ announced' = announced /\ bulklost' = TRUE
        /\ Dediprog
    BY DEF Lost
  <1>2. bulkmem' \in [BulkAddr -> {0, 1}]
    BY DEF Effect, BulkTypes
  <1>3. BulkTypes'
    BY <1>1, <1>2 DEF BulkTypes
  <1>4. BulkAtUnit'
    BY <1>1 DEF BulkAtUnit
  <1>c. BulkCounted'
    BY <1>1 DEF BulkCounted, BulkFits
  <1>5. BulkPassed'
    BY <1>1 DEF BulkPassed, Effect, BulkTypes
  <1>6. BulkVerdict'
    BY <1>1 DEF BulkVerdict, Going
  <1> QED BY <1>3, <1>4, <1>c, <1>5, <1>6

(* What a transfer does to the chip is what the caller may expect.          *)
LEMMA BulkChange ==
  ASSUME BulkInv, bulkpos < End, NEW X \in SUBSET (bulkjob.start .. End - 1), Effect(X),
         bulkjob' = bulkjob, bulkresult' = bulkresult, swallowed' = swallowed
  PROVE  MasterCall!Change
  <1> USE BulkJobFacts, BulkSame DEF BulkInv, BulkTypes
  <1>1. bulkmem' \in [BulkAddr -> {0, 1}]
    BY DEF Effect
  <1>2. ASSUME NEW a \in BulkAddr, bulkmem'[a] # bulkmem[a]
        PROVE  a \in bulkjob.start .. End - 1 /\ bulkmem'[a] = MasterCall!Becomes(a)
    BY <1>2 DEF Effect, MasterCall!Becomes
  <1>3. bulkresult # "0"
    BY DEF BulkVerdict
  <1> QED BY <1>1, <1>2, <1>3 DEF MasterCall!Change

(* A chunk has bytes, and ends with what it is a part of.                   *)
LEMMA BulkChunk ==
  ASSUME bulkjob \in BulkJobs, bulkpos \in Nat, NEW stop \in Nat, bulkpos < stop
  PROVE  /\ Min({ChunkSize, stop - bulkpos}) \in Nat \ {0}
         /\ bulkpos + Min({ChunkSize, stop - bulkpos}) <= stop
  <1>1. bulkjob.page_size \in Nat \ {0}
    BY BulkJobFacts
  <1> DEFINE r == bulkpos % bulkjob.page_size
             room == bulkjob.page_size - r
  <1>2. r \in 0 .. bulkjob.page_size - 1
    BY <1>1, DivMod
  <1>3. room \in Nat \ {0}
    <2> HIDE DEF r
    <2> QED BY <1>1, <1>2
  <1>4. Min({2, room}) \in {2, room}
    <2> HIDE DEF room
    <2> QED BY <1>3, MinOf2
  <1>5. ChunkSize \in {2, 1, Min({2, room})}
    BY DEF ChunkSize
  <1>6. ChunkSize \in Nat \ {0}
    <2> HIDE DEF room
    <2> QED BY <1>3, <1>4, <1>5
  <1> DEFINE left == stop - bulkpos
             least == Min({ChunkSize, left})
  <1>7. left \in Nat \ {0} /\ bulkpos + left = stop
    OBVIOUS
  <1>8. least \in {ChunkSize, left} /\ least <= left
    <2>1. \A x, y \in Int : Min({x, y}) \in {x, y} /\ Min({x, y}) <= y
      BY MinOf2
    <2>2. ChunkSize \in Int /\ left \in Int
      BY <1>6, <1>7
    <2> HIDE DEF left
    <2> QED BY <2>1, <2>2, Zenon
  <1>9. least \in Nat \ {0} /\ bulkpos + least <= stop
    <2> HIDE DEF left, least
    <2> QED BY <1>6, <1>7, <1>8
  <1> QED BY <1>9

(* The first n units end with a whole unit.                                 *)
LEMMA NextUnit ==
  ASSUME NEW u \in Nat \ {0}, NEW n \in Nat, NEW m \in Nat, n * u < m * u
  PROVE  n * u \in Nat /\ n * u + u = (n + 1) * u /\ (n + 1) * u <= m * u
  <1>1. n * u = u * n /\ m * u = u * m /\ n * u \in Nat /\ m * u \in Nat /\ n * u + u = (n + 1) * u
    OBVIOUS
  <1>2. n < m
    <2> SUFFICES ASSUME ~(n < m) PROVE FALSE
      OBVIOUS
    <2>1. CASE m = n
      BY <2>1
    <2>2. CASE m < n
      <3>1. u * m + u <= u * n
        BY <2>2, MulLess
      <3> HIDE <1>1
      <3> QED BY <1>1, <3>1
    <2> QED BY <2>1, <2>2
  <1>3. u * n + u <= u * m
    BY <1>2, MulLess
  <1> QED BY <1>1, <1>3

(* Chunk: single commands before and after the middle.                      *)
LEMMA BulkByChunk ==
  ASSUME BulkInv, Chunk
  PROVE  BulkInv' /\ MasterCall!Change
  <1> DEFINE stop == IF bulkpos < BulkStart THEN BulkStart ELSE End
             n == Min({ChunkSize, stop - bulkpos})
             bytes == bulkpos .. bulkpos + n - 1
  <1>1. /\ bulkjob \in BulkJobs /\ bulkjob.start \in Nat /\ End \in Nat /\ bulkpos \in Nat
        /\ bulkjob.start <= bulkpos /\ bulkpos <= End
        /\ BulkTypes /\ BulkPassed /\ BulkVerdict
    BY BulkJobFacts DEF BulkInv, BulkTypes
  <1>2. /\ BulkStart \in Nat /\ BulkLen \in Nat /\ BulkEnd = BulkStart + BulkLen /\ BulkEnd <= End
    BY <1>1, BulkMiddle
  <1>3. /\ Going /\ bulkpos < End /\ ~(BulkStart <= bulkpos /\ bulkpos < BulkEnd)
        /\ bulkjob' = bulkjob /\ bulkresult' = bulkresult /\ swallowed' = swallowed
        /\ \/ Effect(bytes) /\ Took(n) /\ UNCHANGED <<announced, bulklost>>
           \/ Lost /\ \E X \in SUBSET bytes : Effect(X)
    BY DEF Chunk
  <1>4. stop \in Nat /\ bulkpos < stop /\ stop <= End
    BY <1>1, <1>2, <1>3
  <1>5. n \in Nat \ {0} /\ bulkpos + n <= stop
    <2> HIDE DEF stop
    <2> QED BY <1>1, <1>4, BulkChunk
  <1>6. bytes \in SUBSET (bulkjob.start .. End - 1) /\ bulkpos + n <= End
    <2> HIDE DEF n, stop
    <2> QED BY <1>1, <1>4, <1>5
  <1>7. CASE Effect(bytes) /\ Took(n) /\ UNCHANGED <<announced, bulklost>>
    <2>1. BulkTypes' /\ BulkPassed' /\ BulkVerdict'
      <3>1. announced' \in Int
        BY <1>1, <1>7 DEF BulkTypes
      <3> HIDE DEF n
      <3> QED BY <1>1, <1>3, <1>5, <1>6, <1>7, <3>1, BulkAdvance
    <2>2. bulkpos' = bulkpos + n /\ BulkStart' = BulkStart /\ BulkEnd' = BulkEnd
      BY <1>3, <1>7, BulkSame DEF Took
    <2>3. BulkAtUnit'
      <3> SUFFICES ASSUME (BulkStart <= bulkpos /\ bulkpos < BulkEnd)' PROVE bulkpos' = BulkStart'
        <4>1. Unit' \in Nat /\ BulkStart' \in Nat
          BY <1>1, <1>2, <1>3, BulkSame, BulkMiddle
        <4>2. \A x, y \in Nat : x = x + 0 * y
          OBVIOUS
        <4> QED BY <4>1, <4>2 DEF BulkAtUnit
      <3>1. bulkpos < BulkStart /\ stop = BulkStart
        <4> HIDE DEF n
        <4> QED BY <1>1, <1>2, <1>3, <1>5, <2>2
      <3> HIDE DEF n, stop
      <3> QED BY <1>1, <1>2, <1>5, <2>2, <3>1
    <2>c. BulkCounted'
      <3>1. announced' = announced /\ (bulkpos < BulkStart => announced = Unannounced)
        BY <1>7 DEF BulkInv, BulkCounted
      <3>2. bulkpos < BulkStart \/ (BulkEnd <= bulkpos' /\ BulkStart <= bulkpos')
        <4> HIDE DEF n
        <4> QED BY <1>1, <1>2, <1>3, <1>5, <2>2
      <3>3. CASE bulkpos < BulkStart
        BY <3>1, <3>3 DEF BulkCounted, Unannounced
      <3>4. CASE BulkEnd <= bulkpos' /\ BulkStart <= bulkpos'
        <4>1. ~(bulkpos' < BulkStart') /\ ~(bulkpos' < BulkEnd')
          <5>1. bulkpos' \in Nat
            BY <2>1 DEF BulkTypes
          <5> QED BY <1>2, <2>2, <3>4, <5>1
        <4> QED BY <4>1 DEF BulkCounted
      <3> QED BY <3>2, <3>3, <3>4
    <2>4. MasterCall!Change
      <3> HIDE DEF bytes
      <3> QED BY <1>3, <1>6, <1>7, BulkChange
    <2> QED BY <2>1, <2>c, <2>3, <2>4 DEF BulkInv
  <1>8. ASSUME Lost, NEW X \in SUBSET bytes, Effect(X)
        PROVE  BulkInv' /\ MasterCall!Change
    <2>1. BulkInv'
      BY <1>3, <1>8, BulkBreaks
    <2>2. X \in SUBSET (bulkjob.start .. End - 1)
      <3> HIDE DEF bytes
      <3> QED BY <1>6, <1>8
    <2>3. MasterCall!Change
      BY <1>3, <1>8, <2>2, BulkChange
    <2> QED BY <2>1, <2>3
  <1> QED BY <1>3, <1>7, <1>8

(* BulkCommand: an announcement, which an aligned range is always worth.    *)
LEMMA BulkByCommand ==
  ASSUME BulkInv, BulkCommand
  PROVE  BulkInv' /\ UNCHANGED MasterCall!vars
  <1>1. /\ Dediprog /\ Going /\ bulkpos < BulkEnd
        /\ bulkjob' = bulkjob /\ bulkmem' = bulkmem /\ bulkpos' = bulkpos /\ bulkbuf' = bulkbuf
        /\ announced = Unannounced /\ swallowed' = swallowed
    BY DEF BulkCommand, Lost
  <1>2. bulkjob \in BulkJobs /\ BulkTypes /\ BulkAtUnit /\ BulkPassed /\ BulkVerdict
    BY DEF BulkInv, BulkTypes
  <1>3. Unit \in Nat /\ BulkLen \in Nat
        /\ (Unit # 0 => BulkStart % Unit = 0) /\ (Unit = 0 => BulkLen = 0)
        /\ BulkStart \in Nat /\ BulkEnd = BulkStart + BulkLen
    BY <1>2, BulkMiddle
  <1>4. bulkpos = BulkStart
    BY DEF BulkCommand
  <1>5. Unit # 0 /\ BulkStart % Unit = 0
    BY <1>1, <1>3, <1>4
  <1>6. /\ bulkresult' = bulkresult
        /\ \/ announced' = (BulkLen \div Unit) % MaxCount /\ bulklost' = bulklost
           \/ announced' = announced /\ bulklost' = TRUE
    BY <1>5 DEF BulkCommand, Lost
  <1>7. announced' \in Int
        /\ (announced' # Unannounced => (BulkFits => announced' * Unit = BulkLen))
    <2>1. PICK m \in Nat : BulkLen = m * Unit
      BY <1>2, <1>5, BulkMiddle
    <2>2. BulkLen \div Unit = m
      BY <1>3, <1>5, <2>1, UnitsInAll
    <2>3. m % MaxCount \in Int /\ (m < MaxCount => m % MaxCount = m)
      <3>1. MaxCount \in Nat \ {0}
        BY BulkAssumption
      <3> QED BY <2>1, <3>1, SmallRest
    <2>4. BulkFits => m < MaxCount
      <3>1. MaxCount \in Nat /\ Unit \in Nat
        BY <1>3, BulkAssumption
      <3> QED BY <2>1, <3>1, FewerUnits DEF BulkFits
    <2>5. announced' = m % MaxCount \/ announced' = Unannounced
      BY <1>1, <1>6, <2>2
    <2> QED BY <2>1, <2>3, <2>4, <2>5 DEF Unannounced
  <1>8. bulklost' \in BOOLEAN
    BY <1>2, <1>6 DEF BulkTypes
  <1>9. /\ End' = End /\ Dediprog' = Dediprog /\ Unit' = Unit /\ BulkStart' = BulkStart
        /\ BulkEnd' = BulkEnd /\ Refused' = Refused /\ BulkLen' = BulkLen
    BY <1>1, BulkSame
  <1>10. BulkTypes'
    BY <1>1, <1>2, <1>6, <1>7, <1>8, <1>9 DEF BulkTypes
  <1>11. BulkAtUnit'
    BY <1>1, <1>2, <1>9 DEF BulkAtUnit
  <1>c. BulkCounted'
    <2>1. bulkpos' = BulkStart' /\ ~(bulkpos' < BulkStart')
      BY <1>1, <1>3, <1>4, <1>9
    <2>2. BulkEnd' - bulkpos' = BulkLen
      BY <1>1, <1>3, <1>4, <1>9
    <2>3. BulkLen' = BulkLen
      BY <1>1, BulkSame
    <2>4. BulkFits' => BulkFits
      BY <1>9, <2>3 DEF BulkFits
    <2> QED BY <1>7, <1>9, <2>1, <2>2, <2>4 DEF BulkCounted
  <1>12. BulkPassed'
    BY <1>1, <1>2 DEF BulkPassed
  <1>13. BulkVerdict'
    BY <1>1, <1>2, <1>6, <1>9 DEF BulkVerdict, Going
  <1>14. UNCHANGED MasterCall!vars
    BY <1>1, <1>6, <1>9 DEF MasterCall!vars
  <1> QED BY <1>10, <1>11, <1>c, <1>12, <1>13, <1>14 DEF BulkInv

(* The mapped chip is read all at once.                                     *)
LEMMA BulkByRead ==
  ASSUME BulkInv, BulkStart <= bulkpos, bulkpos < BulkEnd, ~Dediprog, bulkjob.fn = "read"
  PROVE  /\ BulkLen \in Nat \ {0} /\ bulkpos + BulkLen = BulkEnd /\ bulkpos + BulkLen <= End
         /\ bulkpos .. bulkpos + BulkLen - 1 \in SUBSET (bulkjob.start .. End - 1)
  <1>1. /\ bulkjob \in BulkJobs /\ bulkjob.start \in Nat /\ End \in Nat /\ bulkpos \in Nat
        /\ bulkjob.start <= bulkpos /\ BulkAtUnit
    BY BulkJobFacts DEF BulkInv, BulkTypes
  <1>2. /\ BulkStart \in Nat /\ BulkLen \in Nat /\ BulkEnd = BulkStart + BulkLen /\ BulkEnd <= End
    BY <1>1, BulkMiddle
  <1>3. bulkpos = BulkStart
    BY <1>1 DEF BulkAtUnit
  <1> QED BY <1>1, <1>2, <1>3

(* All else in the middle goes in whole units.                              *)
LEMMA BulkByUnit ==
  ASSUME BulkInv, BulkStart <= bulkpos, bulkpos < BulkEnd
  PROVE  /\ Unit \in Nat \ {0} /\ bulkpos + Unit <= End
         /\ bulkpos .. bulkpos + Unit - 1 \in SUBSET (bulkjob.start .. End - 1)
         /\ \E m \in Nat : bulkpos + Unit = BulkStart + m * Unit
  <1>1. /\ bulkjob \in BulkJobs /\ bulkjob.start \in Nat /\ End \in Nat /\ bulkpos \in Nat
        /\ bulkjob.start <= bulkpos /\ BulkAtUnit
    BY BulkJobFacts DEF BulkInv, BulkTypes
  <1>2. /\ Unit \in Nat /\ BulkStart \in Nat /\ BulkLen \in Nat /\ BulkEnd = BulkStart + BulkLen
        /\ BulkEnd <= End /\ (Unit = 0 => BulkLen = 0)
        /\ (Unit # 0 => \E m \in Nat : BulkLen = m * Unit)
    BY <1>1, BulkMiddle
  <1>3. Unit \in Nat \ {0}
    BY <1>1, <1>2
  <1>4. PICK k \in Nat : bulkpos = BulkStart + k * Unit
    BY <1>1 DEF BulkAtUnit
  <1>5. PICK m \in Nat : BulkLen = m * Unit
    BY <1>2, <1>3
  <1> DEFINE here == k * Unit
             next == (k + 1) * Unit
             all == m * Unit
  <1>6. here \in Nat /\ all \in Nat /\ bulkpos = BulkStart + here /\ BulkEnd = BulkStart + all
    BY <1>2, <1>3, <1>4, <1>5
  <1>7. here < all
    <2> HIDE DEF here, all
    <2> QED BY <1>1, <1>2, <1>6
  <1>8. here + Unit = next /\ next <= all
    BY <1>3, <1>7, NextUnit
  <1>9. bulkpos + Unit = BulkStart + next /\ bulkpos + Unit <= BulkEnd
    <2> HIDE DEF here, next, all
    <2> QED BY <1>1, <1>2, <1>3, <1>6, <1>8
  <1>10. \E j \in Nat : bulkpos + Unit = BulkStart + j * Unit
    BY <1>9
  <1>11. bulkpos + Unit <= End
    BY <1>1, <1>2, <1>3, <1>9
  <1> QED BY <1>1, <1>3, <1>10, <1>11

(* BulkPacket: a packet or page of a bulk transfer.                         *)
LEMMA BulkByPacket ==
  ASSUME BulkInv, BulkPacket
  PROVE  BulkInv' /\ MasterCall!Change
  <1> DEFINE bytes == bulkpos .. bulkpos + Unit - 1
  <1>1. /\ Dediprog /\ Going /\ BulkStart <= bulkpos /\ bulkpos < BulkEnd /\ announced > 0
        /\ bulkjob' = bulkjob /\ bulkresult' = bulkresult /\ swallowed' = swallowed
        /\ \/ Effect(bytes) /\ Took(Unit) /\ announced' = announced - 1 /\ bulklost' = bulklost
           \/ Lost /\ \E X \in SUBSET bytes : Effect(X)
    BY DEF BulkPacket
  <1>2. /\ bulkjob \in BulkJobs /\ BulkTypes /\ BulkPassed /\ BulkVerdict /\ bulkpos \in Nat
        /\ announced \in Int /\ BulkCounted
    BY DEF BulkInv, BulkTypes
  <1>3. /\ Unit \in Nat /\ BulkLen \in Nat /\ (Unit = 0 => BulkLen = 0) /\ BulkStart \in Nat
        /\ BulkEnd = BulkStart + BulkLen /\ BulkEnd <= End /\ End \in Nat
    BY <1>2, BulkMiddle, BulkJobFacts
  <1>4. Unit \in Nat \ {0} /\ bulkpos < End
    BY <1>1, <1>2, <1>3
  <1>5. /\ bulkpos + Unit <= End /\ bytes \in SUBSET (bulkjob.start .. End - 1)
        /\ \E m \in Nat : bulkpos + Unit = BulkStart + m * Unit
    BY <1>1, BulkByUnit
  <1>6. CASE Effect(bytes) /\ Took(Unit) /\ announced' = announced - 1 /\ bulklost' = bulklost
    <2>1. announced' \in Int
      BY <1>1, <1>2, <1>6
    <2>2. BulkTypes' /\ BulkPassed' /\ BulkVerdict'
      BY <1>1, <1>2, <1>4, <1>5, <1>6, <2>1, BulkAdvance
    <2>3. bulkpos' = bulkpos + Unit /\ BulkStart' = BulkStart /\ BulkEnd' = BulkEnd
          /\ Unit' = Unit /\ Dediprog' /\ BulkLen' = BulkLen
      BY <1>1, <1>6, BulkSame DEF Took
    <2>4. BulkAtUnit'
      BY <1>5, <2>3 DEF BulkAtUnit
    <2>c. BulkCounted'
      <3>1. ~(bulkpos' < BulkStart')
        BY <1>1, <1>2, <1>3, <2>3
      <3>2. BulkFits' => BulkFits
        BY <2>3 DEF BulkFits
      <3>3. BulkFits => announced * Unit = BulkEnd - bulkpos
        BY <1>1, <1>2 DEF BulkCounted, Unannounced
      <3>4. (announced - 1) * Unit = announced * Unit - Unit
        BY <1>2, <1>3
      <3>5. BulkEnd' - bulkpos' = BulkEnd - bulkpos - Unit
        BY <1>2, <1>3, <2>3
      <3>6. BulkFits => announced' * Unit' = BulkEnd' - bulkpos'
        BY <1>6, <2>3, <3>3, <3>4, <3>5
      <3> QED BY <3>1, <3>2, <3>6 DEF BulkCounted
    <2>5. MasterCall!Change
      <3> HIDE DEF bytes
      <3> QED BY <1>1, <1>4, <1>5, <1>6, BulkChange
    <2> QED BY <2>2, <2>4, <2>c, <2>5 DEF BulkInv
  <1>7. ASSUME Lost, NEW X \in SUBSET bytes, Effect(X)
        PROVE  BulkInv' /\ MasterCall!Change
    <2>1. BulkInv'
      BY <1>1, <1>7, BulkBreaks
    <2>2. X \in SUBSET (bulkjob.start .. End - 1)
      <3> HIDE DEF bytes
      <3> QED BY <1>5, <1>7
    <2>3. MasterCall!Change
      BY <1>1, <1>4, <1>7, <2>2, BulkChange
    <2> QED BY <2>1, <2>3
  <1> QED BY <1>1, <1>6, <1>7

(* BulkSurplus: a packet that the device was not told of.                   *)
LEMMA BulkBySurplus ==
  ASSUME BulkInv, BulkSurplus
  PROVE  BulkInv' /\ (MasterCall!Change \/ MasterCall!Hide \/ UNCHANGED MasterCall!vars)
  <1> DEFINE bytes == bulkpos .. bulkpos + Unit - 1
  <1>1. /\ Dediprog /\ Going /\ BulkStart <= bulkpos /\ bulkpos < BulkEnd /\ announced = 0
        /\ bulkjob' = bulkjob /\ bulkresult' = bulkresult /\ announced' = announced
    BY DEF BulkSurplus, Lost
  <1>2. /\ bulkjob \in BulkJobs /\ BulkTypes /\ BulkPassed /\ BulkVerdict /\ bulkpos \in Nat
        /\ BulkCounted
    BY DEF BulkInv, BulkTypes
  <1>3. /\ Unit \in Nat /\ BulkLen \in Nat /\ BulkStart \in Nat /\ MaxCount \in Nat
        /\ BulkEnd = BulkStart + BulkLen /\ BulkEnd <= End /\ End \in Nat
    BY <1>2, BulkMiddle, BulkJobFacts, BulkAssumption
  <1>4. /\ Unit \in Nat \ {0} /\ bulkpos + Unit <= End /\ bulkpos < End
        /\ bytes \in SUBSET (bulkjob.start .. End - 1)
        /\ \E m \in Nat : bulkpos + Unit = BulkStart + m * Unit
    BY <1>1, <1>2, <1>3, BulkByUnit
  <1>5. ~BulkFits
    <2>1. BulkFits => 0 * Unit = BulkEnd - bulkpos
      BY <1>1, <1>2 DEF BulkCounted, Unannounced
    <2> QED BY <1>1, <1>2, <1>3, <2>1
  <1>6. /\ End' = End /\ BulkStart' = BulkStart /\ BulkEnd' = BulkEnd /\ Unit' = Unit
        /\ BulkLen' = BulkLen /\ Refused' = Refused /\ Dediprog'
    BY <1>1, BulkSame
  <1>7. BulkLen' >= MaxCount * Unit' /\ ~BulkFits'
    <2>1. MaxCount * Unit \in Nat
      BY <1>3
    <2> QED BY <1>3, <1>5, <1>6, <2>1 DEF BulkFits
  <1>8. ASSUME bulkpos' = bulkpos + Unit PROVE BulkAtUnit' /\ BulkCounted'
    <2>1. BulkAtUnit'
      BY <1>4, <1>6, <1>8 DEF BulkAtUnit
    <2>2. ~(bulkpos' < BulkStart')
      BY <1>1, <1>2, <1>3, <1>6, <1>8
    <2> QED BY <1>7, <2>1, <2>2 DEF BulkCounted
  <1>9. CASE Effect(bytes) /\ Took(Unit) /\ bulklost' = bulklost /\ swallowed' = swallowed
    <2>1. BulkTypes' /\ BulkPassed' /\ BulkVerdict'
      <3>1. announced' \in Int
        BY <1>1
      <3> QED BY <1>1, <1>2, <1>4, <1>9, <3>1, BulkAdvance
    <2>2. BulkAtUnit' /\ BulkCounted'
      BY <1>8, <1>9 DEF Took
    <2>3. MasterCall!Change
      <3> HIDE DEF bytes
      <3> QED BY <1>1, <1>4, <1>9, BulkChange
    <2> QED BY <2>1, <2>2, <2>3 DEF BulkInv
  <1>10. CASE bulkpos' = bulkpos + Unit /\ swallowed' = TRUE /\ bulkmem' = bulkmem
              /\ bulklost' = bulklost
    <2>1. BulkTypes'
      <3>1. bulkpos' \in Nat /\ bulkjob'.start <= bulkpos' /\ bulkpos' <= End'
        <4>1. bulkjob.start \in Nat /\ bulkjob.start <= bulkpos
          BY <1>2, BulkJobFacts DEF BulkTypes
        <4> QED BY <1>1, <1>2, <1>4, <1>6, <1>10, <4>1
      <3> QED BY <1>1, <1>2, <1>10, <3>1 DEF BulkTypes
    <2>2. BulkPassed'
      BY <1>10 DEF BulkPassed
    <2>3. BulkVerdict'
      BY <1>1, <1>2, <1>6, <1>7, <1>10 DEF BulkVerdict, Going
    <2>4. MasterCall!Hide
      BY <1>1, <1>6, <1>10 DEF MasterCall!Hide
    <2> QED BY <1>8, <1>10, <2>1, <2>2, <2>3, <2>4 DEF BulkInv
  <1>11. CASE Lost /\ bulkmem' = bulkmem /\ swallowed' = swallowed
    <2>1. BulkInv'
      <3>1. bulkmem = [a \in BulkAddr |-> bulkmem[a]]
        BY <1>2 DEF BulkTypes
      <3>2. Effect({})
        BY <1>11, <3>1 DEF Effect
      <3> QED BY <1>1, <1>11, <3>2, BulkBreaks
    <2>2. UNCHANGED MasterCall!vars
      BY <1>1, <1>6, <1>11 DEF MasterCall!vars
    <2> QED BY <2>1, <2>2
  <1> QED BY <1>9, <1>10, <1>11 DEF BulkSurplus

(* Mapped: all of the middle is read at once, or a page of it is written.   *)
LEMMA BulkByMap ==
  ASSUME BulkInv, Mapped
  PROVE  BulkInv' /\ MasterCall!Change
  <1> DEFINE n == IF bulkjob.fn = "read" THEN BulkLen ELSE Unit
             bytes == bulkpos .. bulkpos + n - 1
  <1>1. /\ ~Dediprog /\ BulkStart <= bulkpos /\ bulkpos < BulkEnd
        /\ bulkjob' = bulkjob /\ bulkresult' = bulkresult /\ announced' = announced
        /\ bulklost' = bulklost /\ swallowed' = swallowed
        /\ Effect(bytes) /\ Took(n)
    BY DEF Mapped
  <1>2. /\ bulkjob \in BulkJobs /\ BulkTypes /\ BulkPassed /\ BulkVerdict /\ bulkpos \in Nat
        /\ announced' \in Int
    BY <1>1 DEF BulkInv, BulkTypes
  <1>3. /\ Unit \in Nat /\ BulkLen \in Nat /\ (Unit = 0 => BulkLen = 0) /\ BulkStart \in Nat
        /\ BulkEnd = BulkStart + BulkLen /\ BulkEnd <= End /\ End \in Nat
    BY <1>2, BulkMiddle, BulkJobFacts
  <1>4. Unit \in Nat \ {0} /\ bulkpos < End
    BY <1>1, <1>2, <1>3
  <1>5. /\ n \in Nat \ {0} /\ bulkpos + n <= End /\ bytes \in SUBSET (bulkjob.start .. End - 1)
        /\ bulkpos + n < BulkEnd => /\ \E m \in Nat : bulkpos + n = BulkStart + m * Unit
                                    /\ bulkjob.fn # "read"
    <2>1. CASE bulkjob.fn = "read"
      <3>1. n = BulkLen
        BY <2>1
      <3>2. /\ BulkLen \in Nat \ {0} /\ bulkpos + BulkLen = BulkEnd /\ bulkpos + BulkLen <= End
            /\ bulkpos .. bulkpos + BulkLen - 1 \in SUBSET (bulkjob.start .. End - 1)
        BY <1>1, <2>1, BulkByRead
      <3>3. BulkEnd \in Nat
        BY <1>3
      <3> HIDE DEF n
      <3> QED BY <3>1, <3>2, <3>3
    <2>2. CASE bulkjob.fn # "read"
      <3>1. n = Unit
        BY <2>2
      <3>2. /\ Unit \in Nat \ {0} /\ bulkpos + Unit <= End
            /\ bulkpos .. bulkpos + Unit - 1 \in SUBSET (bulkjob.start .. End - 1)
            /\ \E m \in Nat : bulkpos + Unit = BulkStart + m * Unit
        BY <1>1, BulkByUnit
      <3> HIDE DEF n
      <3> QED BY <2>2, <3>1, <3>2
    <2> QED BY <2>1, <2>2
  <1> HIDE DEF n
  <1>6. BulkTypes' /\ BulkPassed' /\ BulkVerdict'
    BY <1>1, <1>2, <1>5, BulkAdvance
  <1>7. bulkpos' = bulkpos + n /\ BulkStart' = BulkStart /\ BulkEnd' = BulkEnd /\ Unit' = Unit
        /\ ~Dediprog'
    BY <1>1, BulkSame DEF Took
  <1>8. BulkAtUnit'
    BY <1>1, <1>5, <1>7 DEF BulkAtUnit
  <1>c. BulkCounted'
    <2>1. ~(bulkpos' < BulkStart')
      BY <1>1, <1>2, <1>3, <1>5, <1>7
    <2> QED BY <1>7, <2>1 DEF BulkCounted
  <1>9. MasterCall!Change
    <2> HIDE DEF bytes
    <2> QED BY <1>1, <1>4, <1>5, BulkChange
  <1> QED BY <1>6, <1>8, <1>c, <1>9 DEF BulkInv

(* BulkReturn: 0 is returned only when all has been done.                   *)
LEMMA BulkByReturn ==
  ASSUME BulkInv, BulkReturn
  PROVE  BulkInv' /\ (MasterCall!Succeed \/ MasterCall!Fail)
  <1>1. /\ bulkresult = "none" /\ (bulklost \/ bulkpos >= End)
        /\ bulkresult' = (IF bulklost \/ Refused THEN "error" ELSE "0")
        /\ bulkjob' = bulkjob /\ bulkpos' = bulkpos /\ bulkbuf' = bulkbuf /\ bulkmem' = bulkmem
        /\ announced' = announced /\ bulklost' = bulklost /\ swallowed' = swallowed
    BY DEF BulkReturn
  <1>2. /\ bulkjob \in BulkJobs /\ bulkjob.start \in Nat /\ End \in Nat /\ bulkpos \in Nat
        /\ bulkpos <= End
        /\ bulkjob.fn \in {"read", "write"}
        /\ BulkTypes /\ BulkAtUnit /\ BulkCounted /\ BulkPassed /\ BulkVerdict
    BY BulkJobFacts DEF BulkInv, BulkTypes
  <1>3. /\ End' = End /\ Dediprog' = Dediprog /\ Unit' = Unit /\ BulkStart' = BulkStart
        /\ BulkEnd' = BulkEnd /\ Refused' = Refused /\ BulkLen' = BulkLen
    BY <1>1, BulkSame
  <1>4. BulkTypes' /\ BulkAtUnit' /\ BulkPassed'
    <2>1. BulkTypes'
      BY <1>1, <1>2, <1>3 DEF BulkTypes
    <2>2. BulkAtUnit'
      BY <1>1, <1>2, <1>3 DEF BulkAtUnit
    <2>3. BulkPassed'
      BY <1>1, <1>2 DEF BulkPassed
    <2> QED BY <2>1, <2>2, <2>3
  <1>c. BulkCounted'
    BY <1>1, <1>2, <1>3 DEF BulkCounted, BulkFits
  <1>5. BulkVerdict'
    BY <1>1, <1>2, <1>3 DEF BulkVerdict
  <1>6. ASSUME bulklost \/ Refused PROVE MasterCall!Fail
    BY <1>1, <1>3, <1>6 DEF MasterCall!Fail
  <1>7. ASSUME ~bulklost, ~Refused PROVE MasterCall!Succeed
    <2>1. bulkpos = End /\ bulkresult' = "0"
      BY <1>1, <1>2, <1>7
    <2>2. ~swallowed => \A a \in bulkjob.start .. End - 1 : bulkmem[a] = MasterCall!Becomes(a)
      <3>1. SUFFICES ASSUME ~swallowed, NEW a \in bulkjob.start .. End - 1
                     PROVE  bulkmem[a] = MasterCall!Becomes(a)
        OBVIOUS
      <3>2. a \in BulkAddr /\ bulkjob.start <= a /\ a < bulkpos
        <4>1. End <= BulkSize /\ BulkSize \in Nat
          BY <1>2, BulkJobFacts, BulkAssumption
        <4>2. a \in Int /\ bulkjob.start <= a /\ a <= End - 1
          BY <1>2
        <4>3. a \in 0 .. BulkSize - 1 /\ a < bulkpos
          BY <1>2, <2>1, <4>1, <4>2
        <4> QED BY <4>2, <4>3 DEF BulkAddr
      <3> QED BY <1>2, <3>1, <3>2 DEF BulkPassed, MasterCall!Becomes
    <2> QED BY <1>1, <1>3, <2>1, <2>2 DEF MasterCall!Succeed
  <1> QED BY <1>4, <1>c, <1>5, <1>6, <1>7 DEF BulkInv

(* A call begins with nothing done.                                         *)
LEMMA BulkBegins ==
  ASSUME bulkjob \in BulkJobs, bulkpos = bulkjob.start, bulkbuf = << >>,
         bulkmem \in [BulkAddr -> {0, 1}], announced = Unannounced, bulkresult = "none",
         bulklost = FALSE, swallowed = FALSE
  PROVE  BulkInv /\ MasterCall!Init
  <1>1. /\ bulkjob.fn \in {"read", "write"} /\ bulkjob.data \in [BulkAddr -> {0, 1}]
        /\ bulkjob.start \in Nat /\ bulkjob.len \in Nat \ {0} /\ End \in Nat /\ End <= BulkSize
    BY BulkJobFacts
  <1>2. /\ Unit \in Nat /\ BulkStart \in Nat /\ bulkjob.start <= BulkStart
    BY BulkMiddle
  <1>3. BulkTypes
    <2>1. bulkpos \in Nat /\ bulkjob.start <= bulkpos /\ bulkpos <= End
      BY <1>1 DEF End
    <2>2. announced \in Int
      BY ONLY announced = Unannounced DEF Unannounced
    <2>3. bulkresult \in {"none", "0", "error"}
      BY ONLY bulkresult = "none"
    <2>4. bulklost \in BOOLEAN /\ swallowed \in BOOLEAN
      BY ONLY bulklost = FALSE, swallowed = FALSE, Zenon
    <2> QED BY <2>1, <2>2, <2>3, <2>4 DEF BulkTypes
  <1>4. BulkAtUnit
    <2>1. \A x, y \in Nat : x = x + 0 * y
      OBVIOUS
    <2> QED BY <1>1, <1>2, <2>1 DEF BulkAtUnit
  <1>c. BulkCounted
    BY ONLY announced = Unannounced DEF BulkCounted
  <1>5. BulkPassed
    <2>1. bulkpos - bulkjob.start = 0
      BY <1>1
    <2>2. [k \in 1 .. 0 |-> bulkmem[bulkjob.start + k - 1]] = << >>
      OBVIOUS
    <2>3. \A a \in BulkAddr : ~(bulkjob.start <= a /\ a < bulkpos)
      BY <1>1, BulkAssumption DEF BulkAddr
    <2> QED BY <2>1, <2>2, <2>3 DEF BulkPassed
  <1>6. BulkVerdict
    BY DEF BulkVerdict
  <1>7. MasterCall!Init
    <2>1. bulkjob.start .. End - 1 \in SUBSET BulkAddr
      BY <1>1, BulkAssumption DEF BulkAddr
    <2> QED BY <1>1, <2>1 DEF MasterCall!Init
  <1> QED BY <1>3, <1>4, <1>c, <1>5, <1>6, <1>7 DEF BulkInv

(* Also the call that is not made in the other modes.                       *)
LEMMA BulkStarts ==
  ASSUME ProgrammersInit
  PROVE  BulkInv /\ MasterCall!Init
  <1>1. CASE BulkInit
    <2>1. bulkmem \in [BulkAddr -> {0, 1}]
      BY <1>1, BulkAssumption DEF BulkInit
    <2> QED BY <1>1, <2>1, BulkBegins DEF BulkInit
  <1>2. CASE BulkIdle
    <2>1. \E j \in BulkJobs : TRUE
      <3>1. PICK f \in BulkContents, p \in PageSizes : TRUE
        BY BulkAssumption
      <3> DEFINE j == [driver |-> "dediprog", fn |-> "read", start |-> 0, len |-> Granularity,
                       data |-> f, page_size |-> p, big |-> FALSE]
      <3>2. Granularity \in Nat \ {0} /\ BulkSize \in Nat \ {0} /\ Granularity <= BulkSize
        <4>1. Packet \in Nat \ {0} /\ BulkSize \in Nat \ {0} /\ BulkSize % Packet = 0
              /\ Granularity \in Nat \ {0} /\ Granularity <= Packet
          BY BulkAssumption
        <4>2. Packet <= BulkSize
          <5>1. CASE BulkSize < Packet
            <6>1. Packet * 0 <= BulkSize /\ BulkSize < Packet * 0 + Packet
              BY <4>1, <5>1
            <6>2. BulkSize % Packet = BulkSize - Packet * 0
              BY <4>1, <6>1, Quotient
            <6> QED BY <4>1, <6>2
          <5> QED BY <4>1, <5>1
        <4> QED BY <4>1, <4>2
      <3>3. 0 % Granularity = 0 /\ Granularity % Granularity = 0
        <4>1. 0 % Granularity = 0 - Granularity * 0
          BY <3>2, Quotient
        <4>2. Granularity % Granularity = Granularity - Granularity * 1
          BY <3>2, Quotient
        <4> QED BY <3>2, <4>1, <4>2
      <3>4. j \in BulkJobs
        BY <3>1, <3>2, <3>3 DEF BulkJobs, BulkAddr
      <3> QED BY <3>4
    <2>2. bulkjob \in BulkJobs
      BY <1>2, <2>1 DEF BulkIdle
    <2>3. bulkmem \in [BulkAddr -> {0, 1}]
      BY <1>2 DEF BulkIdle
    <2> QED BY <1>2, <2>2, <2>3, BulkBegins DEF BulkIdle
  <1> QED BY <1>1, <1>2 DEF ProgrammersInit

(* Nothing happens to it.                                                   *)
LEMMA BulkStutter ==
  ASSUME BulkInv, UNCHANGED bulkVars
  PROVE  BulkInv' /\ [MasterCall!Next]_MasterCall!vars
  <1>1. /\ bulkjob' = bulkjob /\ bulkpos' = bulkpos /\ bulkbuf' = bulkbuf /\ bulkmem' = bulkmem
        /\ announced' = announced /\ bulkresult' = bulkresult /\ bulklost' = bulklost
        /\ swallowed' = swallowed
    BY DEF bulkVars
  <1>2. /\ End' = End /\ Dediprog' = Dediprog /\ Unit' = Unit /\ BulkStart' = BulkStart
        /\ BulkEnd' = BulkEnd /\ Refused' = Refused /\ BulkLen' = BulkLen
    BY <1>1, BulkSame
  <1>3. BulkTypes'
    BY <1>1, <1>2 DEF BulkInv, BulkTypes
  <1>4. BulkAtUnit'
    BY <1>1, <1>2 DEF BulkInv, BulkAtUnit
  <1>c. BulkCounted'
    BY <1>1, <1>2 DEF BulkInv, BulkCounted, BulkFits
  <1>5. BulkPassed'
    BY <1>1 DEF BulkInv, BulkPassed
  <1>6. BulkVerdict'
    BY <1>1, <1>2 DEF BulkInv, BulkVerdict
  <1>7. UNCHANGED MasterCall!vars
    BY <1>1, <1>2 DEF MasterCall!vars
  <1> QED BY <1>3, <1>4, <1>c, <1>5, <1>6, <1>7 DEF BulkInv

(* Every step of a call is one that the call may take.                      *)
LEMMA BulkStep ==
  ASSUME BulkInv, ProgrammersNext
  PROVE  BulkInv' /\ [MasterCall!Next]_MasterCall!vars
  <1>1. CASE Chunk
    BY <1>1, BulkByChunk DEF MasterCall!Next
  <1>2. CASE BulkCommand
    BY <1>2, BulkByCommand
  <1>3. CASE BulkPacket
    BY <1>3, BulkByPacket DEF MasterCall!Next
  <1>s. CASE BulkSurplus
    BY <1>s, BulkBySurplus DEF MasterCall!Next
  <1>4. CASE Mapped
    BY <1>4, BulkByMap DEF MasterCall!Next
  <1>5. CASE BulkReturn
    BY <1>5, BulkByReturn DEF MasterCall!Next
  <1>6. CASE UNCHANGED bulkVars
    BY <1>6, BulkStutter
  <1>7. \/ Chunk \/ BulkCommand \/ BulkPacket \/ BulkSurplus \/ Mapped \/ BulkReturn
        \/ UNCHANGED bulkVars
    BY DEF ProgrammersNext, InCommand, InAdapter, InBulk, InSession, InSerprog, BulkNext, BulkHost
  <1> QED BY <1>1, <1>2, <1>3, <1>s, <1>4, <1>5, <1>6, <1>7

(* What has been read by the end is the range, and no call fails for        *)
(* nothing.                                                                 *)
LEMMA BulkIsRight ==
  ASSUME BulkInv
  PROVE  BulkResult
  <1>1. CASE bulkjob.fn = "read" /\ bulkresult = "0"
    <2>1. bulkpos = bulkjob.start + bulkjob.len /\ bulkjob.start \in Nat /\ bulkjob.len \in Nat
      BY <1>1, BulkJobFacts DEF BulkInv, BulkTypes, BulkVerdict, End
    <2>2. bulkpos - bulkjob.start = bulkjob.len
      BY <2>1
    <2> QED BY <1>1, <2>2 DEF BulkInv, BulkPassed, BulkVerdict, BulkResult
  <1>2. CASE ~(bulkjob.fn = "read" /\ bulkresult = "0")
    BY <1>2 DEF BulkInv, BulkVerdict, BulkResult
  <1> QED BY <1>1, <1>2

(* The masters with read and write functions of their own do what the write *)
(* engine expects of a chip's: a call changes only what it is for, the      *)
(* parts it takes in bulk and those it takes by commands leave nothing out  *)
(* and do nothing twice, and what is read is what the chip has.             *)
THEOREM BulkImplements == ProgrammersSpec => ImplementsMasterCall
  <1>1. ProgrammersInit => BulkInv /\ MasterCall!Init
    BY BulkStarts
  <1>2. BulkInv /\ [ProgrammersNext]_programmerVars => BulkInv' /\ [MasterCall!Next]_MasterCall!vars
    <2>1. UNCHANGED programmerVars => UNCHANGED bulkVars
      BY DEF programmerVars
    <2> QED BY <2>1, BulkStep, BulkStutter
  <1>3. BulkInv => BulkResult
    BY BulkIsRight
  <1> QED BY <1>1, <1>2, <1>3, PTL DEF ProgrammersSpec, ImplementsMasterCall, MasterCall!Spec
-----------------------------------------------------------------------------
(* The search for a serprog device (SerprogSync).                           *)

AllBuses == {"spi", "nonspi"}
Greetings == {"NOP", "SYNCNOP"}
Early == {"Q_CMDMAP", "Q_BUSTYPE"}
Ordinary ==
  {"S_BUSTYPE-spi", "Q_WRNMAXLEN", "Q_RDNMAXLEN", "S_SPI_FREQ", "S_BUSTYPE-all", "stop",
  "Q_PGMNAME",
   "Q_SERBUF", "O_INIT", "Q_OPBUF", "S_PIN_STATE"}
SyncCommands == Greetings \cup {"Q_IFACE"} \cup Early \cup Ordinary
SyncReplies == {"ACK", "NAK", "other", "value"} \cup {d.version : d \in SyncDevices}
SyncWords == [byte : SyncReplies, of : SyncCommands \cup {"earlier"}]

FirstQueries == <<"Q_IFACE", "Q_CMDMAP", "Q_BUSTYPE">>
Looking == {"start", "flush", "try", "scan", "nak", "confirm", "confirm-ack"}

SyncTypes ==
  /\ peer \in SyncDevices /\ eats \in Nat
  /\ toPeer \in Seq(SyncCommands) /\ toHost \in Seq(SyncWords) /\ queries \in Seq(SyncCommands)
  /\ tries \in Nat /\ scanned \in Nat /\ lates \in Nat
  /\ buses \subseteq AllBuses
  /\ syncpc \in Looking \cup {"none", "query", "answer", "done", "failed"}

(* No byte that says "version 1" is on the line; only the answer to Q_IFACE *)
(* has them, as its last two.                                               *)
NoVersion == \A k \in 1 .. Len(toHost) : toHost[k].byte # "version-1"
Greeted == \A k \in 1 .. Len(toPeer) : toPeer[k] \in Greetings

(* As long as the device is looked for, it is sent nothing but NOPs.        *)
SyncLooking ==
  syncpc \in Looking =>
    queries = << >> /\ buses = {} /\ told = AllBuses /\ Greeted /\ NoVersion

(* Q_IFACE is the last that is sent before its answer is believed.          *)
SyncFirst ==
  syncpc \in {"query", "answer"} /\ queries = FirstQueries =>
    /\ buses = {} /\ told = AllBuses
    /\ \/ syncpc = "query" /\ Greeted /\ NoVersion
       \/ /\ syncpc = "answer" /\ NoVersion
          /\ \A k \in 1 .. Len(toPeer) :
               toPeer[k] \in Greetings \/ (toPeer[k] = "Q_IFACE" /\ k = Len(toPeer))
       \/ /\ syncpc = "answer" /\ toPeer = << >> /\ eats = 0
          /\ \A k \in 1 .. Len(toHost) : toHost[k].byte = "version-1" => k >= Len(toHost) - 1

(* Then the device is asked one thing at a time, and nothing else is on the *)
(* line.                                                                    *)
ReplyTo(c) == [k \in DOMAIN PeerSays(c) |-> Tagged(PeerSays(c)[k], c)]
Has(c) ==
  /\ c = "S_BUSTYPE-all" => told = peer.buses
  /\ c \in {"O_INIT", "S_PIN_STATE"} => c \in ready
SyncInStep ==
  syncpc = "done" \/ (syncpc \in {"query", "answer"} /\ queries # FirstQueries) =>
    /\ eats = 0
    /\ \/ \A k \in 1 .. Len(queries) : queries[k] \in Early
       \/ \A k \in 1 .. Len(queries) : queries[k] \in Ordinary
    /\ syncpc = "done" => queries = << >>
    /\ syncpc # "answer" => toPeer = << >> /\ toHost = << >>
    /\ syncpc = "answer" =>
         /\ queries # << >> /\ queries[1] # "stop"
         /\ \/ toPeer = << queries[1] >> /\ toHost = << >>
            \/ /\ toPeer = << >> /\ toHost = ReplyTo(queries[1])
               /\ queries[1] \notin peer.refuses => Has(queries[1])

(* What the device is to be told is still among the queries.                *)
Among(some, s) == \E k \in 1 .. Len(s) : s[k] \in some
BackToAll(s) ==
  \A k \in 1 .. Len(s) : s[k] = "S_BUSTYPE-spi" => \E j \in k + 1 .. Len(s) : s[j] = "S_BUSTYPE-all"
Owed(c) == c \in ready \/ Among({c, "stop", "Q_BUSTYPE"}, queries)
SyncOwed ==
  syncpc \in {"query", "answer", "done"} =>
    /\ told = AllBuses \/ told = peer.buses \/ Among({"S_BUSTYPE-all"}, queries)
    /\ Among({"Q_BUSTYPE"}, queries) => told = AllBuses
    /\ BackToAll(queries)
    /\ "nonspi" \in buses => Owed("O_INIT")
    /\ "S_PIN_STATE" \in peer.map => Owed("S_PIN_STATE")

(* How a device answers that is there, idle and in time: with an ACK for    *)
(* every NOP, then with what SYNCNOP is answered.                           *)
Acks(n) == \A k \in 1 .. n : toHost[k].byte = "ACK"
LineIdle == toPeer = << >> /\ toHost = << >>
SyncClean ==
  clean /\ lates = 0 =>
    /\ eats = 0
    /\ syncpc = "start" => LineIdle /\ tries = 0
    /\ syncpc \in {"flush", "try"} =>
         /\ Acks(Len(toHost)) /\ (\A k \in 1 .. Len(toPeer) : toPeer[k] = "NOP")
         /\ Len(toHost) + Len(toPeer) <= Nops /\ tries = 0
    /\ syncpc = "scan" =>
         \/ /\ Acks(Len(toHost)) /\ Len(toPeer) > 0
            /\ \A k \in 1 .. Len(toPeer) : toPeer[k] = IF k = Len(toPeer) THEN "SYNCNOP" ELSE "NOP"
            /\ Len(toHost) + Len(toPeer) - 1 + scanned <= Nops
         \/ /\ toPeer = << >> /\ Len(toHost) > 1 /\ Acks(Len(toHost) - 2)
            /\ toHost[Len(toHost) - 1].byte = "NAK" /\ toHost[Len(toHost)].byte = "ACK"
            /\ Len(toHost) - 2 + scanned <= Nops
    /\ syncpc \in {"nak", "confirm-ack"} => toPeer = << >> /\ Len(toHost) = 1 /\ Acks(1)
    /\ syncpc = "confirm" =>
         \/ toPeer = <<"SYNCNOP">> /\ toHost = << >>
         \/ toPeer = << >> /\ Len(toHost) = 2 /\ toHost[1].byte = "NAK" /\ toHost[2].byte = "ACK"
    /\ syncpc = "query" /\ queries = FirstQueries => LineIdle
    /\ syncpc = "answer" /\ queries = FirstQueries =>
         \/ toPeer = <<"Q_IFACE">> /\ toHost = << >>
         \/ /\ toPeer = << >> /\ Len(toHost) = 3 /\ toHost[1].byte = "ACK"
            /\ toHost[2].byte = peer.version /\ toHost[3].byte = peer.version
    /\ syncpc = "failed" =>
         queries # << >> /\ (queries[1] = "Q_IFACE" => peer.version # "version-1")

SyncInv ==
  SyncTypes /\ SyncLooking /\ SyncFirst /\ SyncInStep /\ SyncOwed /\ SyncClean

(* What a command is answered with.                                         *)
LEMMA PeerSaysThat ==
  ASSUME peer \in SyncDevices, NEW c \in SyncCommands
  PROVE  /\ Payload(c) \in Seq(SyncReplies) /\ Len(Payload(c)) \in Nat
         /\ \A k \in 1 .. Len(Payload(c)) :
              Payload(c)[k] = IF c = "Q_IFACE" THEN peer.version ELSE "value"
         /\ c = "Q_IFACE" => Len(Payload(c)) = 2
         /\ c \in Greetings => Len(Payload(c)) = 0
         /\ PeerSays(c) \in Seq(SyncReplies)
         /\ c = "SYNCNOP" => /\ Len(PeerSays(c)) = 2
                             /\ PeerSays(c)[1] = "NAK" /\ PeerSays(c)[2] = "ACK"
         /\ c # "SYNCNOP" /\ c \in peer.refuses => Len(PeerSays(c)) = 1 /\ PeerSays(c)[1] = "NAK"
         /\ c # "SYNCNOP" /\ c \notin peer.refuses =>
              /\ Len(PeerSays(c)) = 1 + Len(Payload(c)) /\ PeerSays(c)[1] = "ACK"
              /\ \A k \in 2 .. Len(PeerSays(c)) : PeerSays(c)[k] = Payload(c)[k - 1]
  <1>1. {"ACK", "NAK", "value", peer.version} \subseteq SyncReplies
    BY DEF SyncReplies
  <1> HIDE DEF SyncReplies
  <1> DEFINE p == Payload(c)
  <1>2. /\ p \in Seq(SyncReplies) /\ Len(p) \in Nat
        /\ \A k \in 1 .. Len(p) : p[k] = IF c = "Q_IFACE" THEN peer.version ELSE "value"
        /\ (c = "Q_IFACE" => Len(p) = 2) /\ (c \in Greetings => Len(p) = 0)
    <2>1. CASE c = "Q_IFACE"
      <3>1. p = << peer.version, peer.version >>
        BY <2>1 DEF Payload
      <3> HIDE DEF p
      <3> QED BY <1>1, <2>1, <3>1 DEF Greetings
    <2>2. CASE c # "Q_IFACE" /\ p = << "value" >> /\ c \notin Greetings
      <3> HIDE DEF p
      <3> QED BY <1>1, <2>2
    <2>3. CASE c # "Q_IFACE" /\ p = << >>
      <3> HIDE DEF p
      <3> QED BY <2>3
    <2>4. c = "Q_IFACE" \/ (c # "Q_IFACE" /\ p = << "value" >> /\ c \notin Greetings)
          \/ (c # "Q_IFACE" /\ p = << >>)
      BY DEF Payload, Greetings
    <2> QED BY <2>1, <2>2, <2>3, <2>4
  <1> DEFINE a == PeerSays(c)
  <1>3. CASE c = "SYNCNOP"
    <2>1. a = << "NAK", "ACK" >>
      BY <1>3 DEF PeerSays
    <2>2. a \in Seq(SyncReplies) /\ Len(a) = 2 /\ a[1] = "NAK" /\ a[2] = "ACK"
      <3> HIDE DEF a
      <3> QED BY <1>1, <2>1
    <2> QED BY <1>2, <1>3, <2>2
  <1>4. CASE c # "SYNCNOP" /\ c \in peer.refuses
    <2>1. a = << "NAK" >>
      BY <1>4 DEF PeerSays
    <2>2. a \in Seq(SyncReplies) /\ Len(a) = 1 /\ a[1] = "NAK"
      <3> HIDE DEF a
      <3> QED BY <1>1, <2>1
    <2> QED BY <1>2, <1>4, <2>2
  <1>5. CASE c # "SYNCNOP" /\ c \notin peer.refuses
    <2>1. a = << "ACK" >> \o p
      BY <1>5 DEF PeerSays
    <2> HIDE DEF p, a
    <2>2. << "ACK" >> \in Seq(SyncReplies) /\ Len(<< "ACK" >>) = 1 /\ << "ACK" >>[1] = "ACK"
      BY <1>1
    <2>3. /\ a \in Seq(SyncReplies) /\ Len(a) = 1 + Len(p)
          /\ \A k \in 1 .. 1 + Len(p) : a[k] = IF k <= 1 THEN << "ACK" >>[k] ELSE p[k - 1]
      BY <1>2, <2>1, <2>2, ConcatProperties
    <2>4. a[1] = "ACK" /\ \A k \in 2 .. Len(a) : a[k] = p[k - 1]
      BY <1>2, <2>2, <2>3
    <2> QED BY <1>2, <1>5, <2>3, <2>4 DEF p, a
  <1> QED BY <1>3, <1>4, <1>5

(* The answer knows its command.                                            *)
LEMMA ReplyIs ==
  ASSUME peer \in SyncDevices, NEW c \in SyncCommands
  PROVE  /\ ReplyTo(c) \in Seq(SyncWords) /\ Len(ReplyTo(c)) = Len(PeerSays(c))
         /\ \A k \in 1 .. Len(PeerSays(c)) :
              ReplyTo(c)[k].byte = PeerSays(c)[k] /\ ReplyTo(c)[k].of = c
  <1>1. PeerSays(c) \in Seq(SyncReplies)
    BY PeerSaysThat
  <1>2. \A k \in 1 .. Len(PeerSays(c)) : PeerSays(c)[k] \in SyncReplies
    BY <1>1
  <1>3. DOMAIN PeerSays(c) = 1 .. Len(PeerSays(c)) /\ Len(PeerSays(c)) \in Nat
    BY <1>1
  <1>4. \A k \in 1 .. Len(PeerSays(c)) : Tagged(PeerSays(c)[k], c) \in SyncWords
    BY <1>2 DEF Tagged, SyncWords
  <1>5. ReplyTo(c) = [k \in 1 .. Len(PeerSays(c)) |-> Tagged(PeerSays(c)[k], c)]
    BY <1>3 DEF ReplyTo
  <1>6. ReplyTo(c) \in Seq(SyncWords) /\ Len(ReplyTo(c)) = Len(PeerSays(c))
    BY <1>3, <1>4, <1>5
  <1>7. ASSUME NEW k \in 1 .. Len(PeerSays(c))
        PROVE  ReplyTo(c)[k].byte = PeerSays(c)[k] /\ ReplyTo(c)[k].of = c
    <2>1. ReplyTo(c)[k] = Tagged(PeerSays(c)[k], c)
      BY <1>5
    <2> QED BY <2>1 DEF Tagged
  <1> QED BY <1>6, <1>7

(* The device answers.                                                      *)
LEMMA PeerReplies ==
  ASSUME SyncTypes, PeerAnswers
  PROVE  /\ toPeer # << >> /\ toPeer[1] \in SyncCommands
         /\ toPeer' \in Seq(SyncCommands) /\ Len(toPeer') = Len(toPeer) - 1
         /\ \A k \in 1 .. Len(toPeer') : toPeer'[k] = toPeer[k + 1]
         /\ toHost' = toHost \o ReplyTo(toPeer[1])
         /\ toHost' \in Seq(SyncWords) /\ Len(toHost') = Len(toHost) + Len(PeerSays(toPeer[1]))
         /\ \A k \in 1 .. Len(toHost') :
              toHost'[k].byte = IF k <= Len(toHost) THEN toHost[k].byte
                                ELSE PeerSays(toPeer[1])[k - Len(toHost)]
  <1> DEFINE c == toPeer[1]
  <1>1. toPeer \in Seq(SyncCommands) /\ toPeer # << >> /\ toHost \in Seq(SyncWords)
        /\ peer \in SyncDevices
    BY DEF SyncTypes, PeerAnswers
  <1>2. c \in SyncCommands
    BY <1>1
  <1>3. toPeer' = Tail(toPeer) /\ toHost' = toHost \o ReplyTo(c)
    BY DEF PeerAnswers, ReplyTo
  <1>4. /\ toPeer' \in Seq(SyncCommands) /\ Len(toPeer') = Len(toPeer) - 1
        /\ \A k \in 1 .. Len(toPeer') : toPeer'[k] = toPeer[k + 1]
    BY <1>1, <1>3, HeadTailProperties
  <1> HIDE DEF c
  <1>5. /\ ReplyTo(c) \in Seq(SyncWords) /\ Len(ReplyTo(c)) = Len(PeerSays(c))
        /\ Len(PeerSays(c)) \in Nat
        /\ \A k \in 1 .. Len(PeerSays(c)) : ReplyTo(c)[k].byte = PeerSays(c)[k]
    <2>1. PeerSays(c) \in Seq(SyncReplies)
      BY <1>1, <1>2, PeerSaysThat
    <2> QED BY <1>1, <1>2, <2>1, ReplyIs
  <1>6. /\ toHost' \in Seq(SyncWords) /\ Len(toHost') = Len(toHost) + Len(ReplyTo(c))
        /\ \A k \in 1 .. Len(toHost) + Len(ReplyTo(c)) :
             toHost'[k] = IF k <= Len(toHost) THEN toHost[k] ELSE ReplyTo(c)[k - Len(toHost)]
    <2> DEFINE r == ReplyTo(c)
    <2>1. r \in Seq(SyncWords) /\ toHost' = toHost \o r
      BY <1>3, <1>5
    <2> HIDE DEF r
    <2>2. /\ toHost' \in Seq(SyncWords) /\ Len(toHost') = Len(toHost) + Len(r)
          /\ \A k \in 1 .. Len(toHost) + Len(r) :
               toHost'[k] = IF k <= Len(toHost) THEN toHost[k] ELSE r[k - Len(toHost)]
      BY <1>1, <2>1, ConcatProperties
    <2> QED BY <2>2 DEF r
  <1>7. ASSUME NEW k \in 1 .. Len(toHost')
        PROVE  toHost'[k].byte = IF k <= Len(toHost) THEN toHost[k].byte
                                 ELSE PeerSays(c)[k - Len(toHost)]
    <2>1. CASE k <= Len(toHost)
      BY <1>5, <1>6, <2>1
    <2>2. CASE ~(k <= Len(toHost))
      <3>1. k - Len(toHost) \in 1 .. Len(PeerSays(c))
        BY <1>1, <1>5, <1>6, <2>2
      <3> QED BY <1>5, <1>6, <2>2, <3>1
    <2> QED BY <2>1, <2>2
  <1> QED BY <1>1, <1>2, <1>3, <1>4, <1>5, <1>6, <1>7 DEF c

(* A command is sent.                                                       *)
LEMMA SyncSends ==
  ASSUME toPeer \in Seq(SyncCommands), NEW c \in SyncCommands, Transmit(<< c >>)
  PROVE  /\ toPeer' \in Seq(SyncCommands) /\ Len(toPeer') = Len(toPeer) + 1
         /\ \A k \in 1 .. Len(toPeer') : toPeer'[k] = IF k = Len(toPeer) + 1 THEN c ELSE toPeer[k]
         /\ toPeer = << >> => toPeer' = << c >>
  <1>1. toPeer' = Append(toPeer, c)
    BY AppendIsConcat DEF Transmit
  <1>2. /\ toPeer' \in Seq(SyncCommands) /\ Len(toPeer') = Len(toPeer) + 1
        /\ \A k \in 1 .. Len(toPeer) : toPeer'[k] = toPeer[k]
        /\ toPeer'[Len(toPeer) + 1] = c
    BY <1>1, AppendProperties
  <1>3. \A k \in 1 .. Len(toPeer') : toPeer'[k] = IF k = Len(toPeer) + 1 THEN c ELSE toPeer[k]
    BY <1>2
  <1>4. toPeer = << >> => toPeer' = << c >>
    BY <1>1
  <1> QED BY <1>2, <1>3, <1>4

(* A byte is read, or none.                                                 *)
LEMMA SyncReads ==
  ASSUME SyncTypes, NEW b \in Bytes, SyncRead(b)
  PROVE  /\ toHost' \in Seq(SyncWords) /\ lates' \in Nat
         /\ \A k \in 1 .. Len(toHost') : \E j \in 1 .. Len(toHost) : toHost'[k] = toHost[j]
         /\ lates' = 0 =>
              /\ lates = 0
              /\ \/ /\ toHost # << >> /\ b = toHost[1].byte /\ Len(toHost') = Len(toHost) - 1
                    /\ \A k \in 1 .. Len(toHost') : toHost'[k] = toHost[k + 1]
                 \/ toPeer = << >> /\ toHost = << >> /\ toHost' = << >> /\ b = "none"
  <1>1. toHost \in Seq(SyncWords) /\ lates \in Nat
    BY DEF SyncTypes
  <1>2. CASE toHost # << >> /\ b = toHost[1].byte /\ toHost' = Tail(toHost) /\ lates' = lates
    <2>1. /\ toHost' \in Seq(SyncWords) /\ Len(toHost') = Len(toHost) - 1
          /\ \A k \in 1 .. Len(toHost') : toHost'[k] = toHost[k + 1]
      BY <1>1, <1>2, HeadTailProperties
    <2>2. \A k \in 1 .. Len(toHost') : k + 1 \in 1 .. Len(toHost)
      BY <1>1, <2>1
    <2> QED BY <1>1, <1>2, <2>1, <2>2
  <1>3. CASE b = "none" /\ lates' = lates + 1 /\ toHost' = toHost
    BY <1>1, <1>3
  <1>4. CASE b = "none" /\ toHost = << >> /\ toPeer = << >> /\ toHost' = toHost /\ lates' = lates
    BY <1>1, <1>4
  <1> QED BY <1>2, <1>3, <1>4 DEF SyncRead, Silent

(* Until the device has been found there is nothing to say about queries.   *)
LEMMA SyncNoQueries ==
  ASSUME syncpc' \in Looking \cup {"failed"}
  PROVE  SyncFirst' /\ SyncInStep' /\ SyncOwed'
  BY DEF Looking, SyncFirst, SyncInStep, SyncOwed

(* What the steps of the search leave alone.                                *)
LEMMA SyncSearch ==
  ASSUME SyncTypes, SyncLooking, Others, syncpc \in Looking,
         toPeer' \in Seq(SyncCommands), toHost' \in Seq(SyncWords),
         tries' \in Nat, scanned' \in Nat, lates' \in Nat,
         syncpc' \in Looking \cup {"failed"}, Greeted', NoVersion'
  PROVE  SyncTypes' /\ SyncLooking' /\ SyncFirst' /\ SyncInStep' /\ SyncOwed'
  <1>1. SyncTypes'
    BY DEF SyncTypes, Others
  <1>2. SyncLooking'
    BY DEF SyncLooking, Others
  <1>3. SyncFirst' /\ SyncInStep' /\ SyncOwed'
    BY SyncNoQueries
  <1> QED BY <1>1, <1>2, <1>3

(* SendNops                                                                 *)
LEMMA SyncBySendNops ==
  ASSUME SyncInv, SendNops
  PROVE  SyncInv'
  <1>1. /\ syncpc = "start" /\ syncpc' = "flush" /\ Others
        /\ toHost' = toHost /\ tries' = tries /\ scanned' = scanned /\ lates' = lates
        /\ toPeer' = toPeer \o [k \in 1 .. Nops |-> "NOP"]
        /\ SyncTypes /\ SyncLooking
    BY DEF SendNops, In, Transmit, SyncInv
  <1>2. Greeted /\ NoVersion
    BY <1>1 DEF SyncLooking, Looking
  <1> DEFINE nops == [k \in 1 .. Nops |-> "NOP"]
  <1>3. Nops \in Nat
    BY SyncAssumption
  <1>4. nops \in Seq(SyncCommands) /\ Len(nops) = Nops /\ \A k \in 1 .. Nops : nops[k] = "NOP"
    BY <1>3 DEF SyncCommands, Greetings
  <1> HIDE DEF nops
  <1>5. toPeer \in Seq(SyncCommands)
    BY <1>1 DEF SyncTypes
  <1>6. /\ toPeer' \in Seq(SyncCommands) /\ Len(toPeer') = Len(toPeer) + Nops
        /\ \A k \in 1 .. Len(toPeer) + Nops :
             toPeer'[k] = IF k <= Len(toPeer) THEN toPeer[k] ELSE nops[k - Len(toPeer)]
    <2>1. toPeer' = toPeer \o nops
      BY <1>1 DEF nops
    <2> QED BY <1>4, <1>5, <2>1, ConcatProperties
  <1>7. ASSUME NEW k \in 1 .. Len(toPeer')
        PROVE  /\ k <= Len(toPeer) => toPeer'[k] \in Greetings
               /\ ~(k <= Len(toPeer)) => toPeer'[k] = "NOP"
    <2>1. CASE k <= Len(toPeer)
      BY <1>2, <1>5, <1>6, <2>1 DEF Greeted
    <2>2. CASE ~(k <= Len(toPeer))
      <3>1. k - Len(toPeer) \in 1 .. Nops
        BY <1>3, <1>5, <1>6, <2>2
      <3>2. toPeer'[k] = nops[k - Len(toPeer)]
        BY <1>6, <2>2
      <3> QED BY <1>4, <2>2, <3>1, <3>2
    <2> QED BY <2>1, <2>2
  <1>8. Greeted'
    BY <1>7 DEF Greeted, Greetings
  <1>9. NoVersion'
    BY <1>1, <1>2 DEF NoVersion
  <1>10. SyncTypes' /\ SyncLooking' /\ SyncFirst' /\ SyncInStep' /\ SyncOwed'
    <2>1. tries' \in Nat /\ scanned' \in Nat /\ lates' \in Nat /\ toHost' \in Seq(SyncWords)
      BY <1>1 DEF SyncTypes
    <2> QED BY <1>1, <1>6, <1>8, <1>9, <2>1, SyncSearch DEF Looking
  <1>11. SyncClean'
    <2> SUFFICES ASSUME clean', lates' = 0 PROVE SyncClean'
      BY DEF SyncClean
    <2>1. eats = 0 /\ toPeer = << >> /\ toHost = << >> /\ tries = 0
      BY <1>1 DEF SyncClean, SyncInv, LineIdle, Others
    <2>2. eats' = 0 /\ tries' = 0 /\ Len(toHost') = 0 /\ Len(toPeer') = Nops
      BY <1>1, <1>3, <1>6, <2>1 DEF Others
    <2>3. \A k \in 1 .. Len(toPeer') : toPeer'[k] = "NOP"
      BY <1>7, <2>1
    <2>4. Acks(Len(toHost))'
      BY <2>2 DEF Acks
    <2> QED BY <1>1, <1>3, <2>2, <2>3, <2>4 DEF SyncClean
  <1> QED BY <1>10, <1>11 DEF SyncInv

(* What is left of a line behind its first bytes.                           *)
LEMMA Remainder ==
  ASSUME NEW V, NEW s \in Seq(V), NEW m \in 1 .. Len(s) + 1, NEW r, r = SubSeq(s, m, Len(s))
  PROVE  /\ r \in Seq(V) /\ Len(r) = Len(s) - m + 1
         /\ \A k \in 1 .. Len(r) : r[k] = s[m + k - 1]
  <1>1. m \in Int /\ Len(s) \in Int
    OBVIOUS
  <1>2. \A k \in m .. Len(s) : s[k] \in V
    OBVIOUS
  <1>3. /\ SubSeq(s, m, Len(s)) \in Seq(V)
        /\ Len(SubSeq(s, m, Len(s))) = IF m <= Len(s) THEN Len(s) - m + 1 ELSE 0
        /\ \A k \in 1 .. Len(s) - m + 1 : SubSeq(s, m, Len(s))[k] = s[m + k - 1]
    BY ONLY <1>1, <1>2, SubSeqProperties
  <1>4. /\ r \in Seq(V) /\ Len(r) = IF m <= Len(s) THEN Len(s) - m + 1 ELSE 0
        /\ \A k \in 1 .. Len(s) - m + 1 : r[k] = s[m + k - 1]
    BY ONLY <1>3, r = SubSeq(s, m, Len(s))
  <1>5. Len(r) = Len(s) - m + 1
    BY <1>4
  <1> QED BY <1>4, <1>5

(* FlushIncoming                                                            *)
LEMMA SyncByFlush ==
  ASSUME SyncInv, FlushIncoming
  PROVE  SyncInv'
  <1>1. /\ syncpc = "flush" /\ syncpc' = "try" /\ Others
        /\ toPeer' = toPeer /\ tries' = tries /\ scanned' = scanned /\ lates' = lates
        /\ SyncTypes /\ SyncLooking
    BY DEF FlushIncoming, In, SyncInv
  <1>2. toHost \in Seq(SyncWords) /\ toPeer \in Seq(SyncCommands)
    BY <1>1 DEF SyncTypes
  <1>3. PICK n \in 0 .. Len(toHost) : toHost' = SubSeq(toHost, n + 1, Len(toHost))
    <2>1. PICK n \in 0 .. (IF tcp THEN 0 ELSE Len(toHost)) :
            toHost' = SubSeq(toHost, n + 1, Len(toHost))
      BY DEF FlushIncoming
    <2>2. n \in 0 .. Len(toHost)
      BY <1>2, <2>1
    <2> QED BY <2>1, <2>2
  <1>4. /\ toHost' \in Seq(SyncWords) /\ Len(toHost') = Len(toHost) - n
        /\ \A k \in 1 .. Len(toHost') : toHost'[k] = toHost[n + k]
    <2>1. PICK m : m = n + 1
      OBVIOUS
    <2>2. m \in 1 .. Len(toHost) + 1 /\ toHost' = SubSeq(toHost, m, Len(toHost))
      BY <1>2, <1>3, <2>1
    <2>3. /\ toHost' \in Seq(SyncWords) /\ Len(toHost') = Len(toHost) - m + 1
          /\ \A k \in 1 .. Len(toHost') : toHost'[k] = toHost[m + k - 1]
      BY ONLY <1>2, <2>2, Remainder
    <2>4. Len(toHost') = Len(toHost) - n
      BY <1>2, <2>1, <2>3
    <2>5. ASSUME NEW k \in 1 .. Len(toHost') PROVE toHost'[k] = toHost[n + k]
      <3>1. m + k - 1 = n + k
        BY <2>1
      <3> QED BY <2>3, <3>1
    <2> QED BY <2>3, <2>4, <2>5
  <1>5. ASSUME NEW k \in 1 .. Len(toHost') PROVE n + k \in 1 .. Len(toHost)
    BY <1>2, <1>4
  <1>6. Greeted' /\ NoVersion'
    <2>1. Greeted /\ NoVersion
      BY <1>1 DEF SyncLooking, Looking
    <2>2. Greeted'
      BY <1>1, <2>1 DEF Greeted
    <2>3. NoVersion'
      BY <1>4, <1>5, <2>1 DEF NoVersion
    <2> QED BY <2>2, <2>3
  <1>7. SyncTypes' /\ SyncLooking' /\ SyncFirst' /\ SyncInStep' /\ SyncOwed'
    <2>1. tries' \in Nat /\ scanned' \in Nat /\ lates' \in Nat /\ toPeer' \in Seq(SyncCommands)
      BY <1>1 DEF SyncTypes
    <2> QED BY <1>1, <1>4, <1>6, <2>1, SyncSearch DEF Looking
  <1>8. SyncClean'
    <2> SUFFICES ASSUME clean', lates' = 0 PROVE SyncClean'
      BY DEF SyncClean
    <2>1. /\ eats = 0 /\ tries = 0 /\ Acks(Len(toHost)) /\ \A k \in 1 .. Len(toPeer) :
                                                             toPeer[k] = "NOP"
          /\ Len(toHost) + Len(toPeer) <= Nops
      BY <1>1 DEF SyncClean, SyncInv, Others
    <2>2. Acks(Len(toHost))'
      BY <1>4, <1>5, <2>1 DEF Acks
    <2>3. Len(toHost') + Len(toPeer') <= Nops
      BY <1>1, <1>2, <1>4, <2>1, SyncAssumption
    <2> QED BY <1>1, <2>1, <2>2, <2>3 DEF SyncClean, Others
  <1> QED BY <1>7, <1>8 DEF SyncInv

(* Try: a device that is idle is sent SYNCNOP once.                         *)
LEMMA SyncByTry ==
  ASSUME SyncInv, Try
  PROVE  SyncInv'
  <1>1. /\ syncpc = "try" /\ Others /\ toHost' = toHost /\ lates' = lates /\ SyncTypes
        /\ SyncLooking
        /\ \/ /\ tries < Tries /\ Transmit(<<"SYNCNOP">>) /\ tries' = tries + 1
              /\ scanned' = 0 /\ syncpc' = "scan"
           \/ /\ ~(tries < Tries) /\ syncpc' = "failed" /\ toPeer' = toPeer
              /\ tries' = tries /\ scanned' = scanned
    BY DEF Try, In, SyncInv
  <1>2. Greeted /\ NoVersion /\ toPeer \in Seq(SyncCommands) /\ toHost \in Seq(SyncWords)
        /\ tries \in Nat /\ scanned \in Nat /\ lates \in Nat
    BY <1>1 DEF SyncLooking, Looking, SyncTypes
  <1>3. NoVersion'
    BY <1>1, <1>2 DEF NoVersion
  <1>4. /\ clean /\ lates = 0 =>
           /\ eats = 0 /\ tries = 0 /\ Acks(Len(toHost)) /\ \A k \in 1 .. Len(toPeer) :
                                                              toPeer[k] = "NOP"
           /\ Len(toHost) + Len(toPeer) <= Nops
    BY <1>1 DEF SyncClean, SyncInv
  <1>5. CASE tries < Tries /\ Transmit(<<"SYNCNOP">>) /\ tries' = tries + 1 /\ scanned' = 0
        /\ syncpc' = "scan"
    <2>1. /\ toPeer' \in Seq(SyncCommands) /\ Len(toPeer') = Len(toPeer) + 1
          /\ \A k \in 1 .. Len(toPeer') :
               toPeer'[k] = IF k = Len(toPeer) + 1 THEN "SYNCNOP" ELSE toPeer[k]
      <3>1. "SYNCNOP" \in SyncCommands
        BY DEF SyncCommands, Greetings
      <3> QED BY <1>2, <1>5, <3>1, SyncSends
    <2>2. Greeted'
      BY <1>2, <2>1 DEF Greeted, Greetings
    <2>3. SyncTypes' /\ SyncLooking' /\ SyncFirst' /\ SyncInStep' /\ SyncOwed'
      BY <1>1, <1>2, <1>3, <1>5, <2>1, <2>2, SyncSearch DEF Looking
    <2>4. SyncClean'
      <3> SUFFICES ASSUME clean', lates' = 0 PROVE SyncClean'
        BY DEF SyncClean
      <3>1. /\ eats' = 0 /\ Acks(Len(toHost))' /\ \A k \in 1 .. Len(toPeer) : toPeer[k] = "NOP"
            /\ Len(toHost) + Len(toPeer) <= Nops
        BY <1>1, <1>4 DEF Others, Acks
      <3>2. ASSUME NEW k \in 1 .. Len(toPeer')
            PROVE  toPeer'[k] = IF k = Len(toPeer') THEN "SYNCNOP" ELSE "NOP"
        <4>1. CASE k = Len(toPeer) + 1
          BY <2>1, <4>1
        <4>2. CASE k # Len(toPeer) + 1
          <5>1. k \in 1 .. Len(toPeer)
            BY <1>2, <2>1, <4>2
          <5> QED BY <2>1, <3>1, <4>2, <5>1
        <4> QED BY <4>1, <4>2
      <3>3. Len(toPeer') > 0 /\ Len(toHost') + Len(toPeer') - 1 + scanned' <= Nops
        BY <1>1, <1>2, <1>5, <2>1, <3>1, SyncAssumption
      <3> QED BY <1>5, <3>1, <3>2, <3>3 DEF SyncClean
    <2> QED BY <2>3, <2>4 DEF SyncInv
  <1>6. CASE ~(tries < Tries) /\ syncpc' = "failed" /\ toPeer' = toPeer /\ tries' = tries
        /\ scanned' = scanned
    <2>1. Greeted'
      BY <1>2, <1>6 DEF Greeted
    <2>2. SyncTypes' /\ SyncLooking' /\ SyncFirst' /\ SyncInStep' /\ SyncOwed'
      BY <1>1, <1>2, <1>3, <1>6, <2>1, SyncSearch DEF Looking
    <2>3. SyncClean'
      <3>1. ~(clean /\ lates = 0)
        BY <1>2, <1>4, <1>6, SyncAssumption
      <3> QED BY <1>1, <3>1 DEF SyncClean, Others
    <2> QED BY <2>2, <2>3 DEF SyncInv
  <1> QED BY <1>1, <1>5, <1>6

(* What a byte that is read leaves of the line.                             *)
LEMMA SyncReadKeeps ==
  ASSUME SyncTypes, NEW b \in Bytes, SyncRead(b), NoVersion
  PROVE  NoVersion'
  <1>1. \A k \in 1 .. Len(toHost') : \E j \in 1 .. Len(toHost) : toHost'[k] = toHost[j]
    BY SyncReads
  <1> QED BY <1>1 DEF NoVersion

(* Scan                                                                     *)
LEMMA SyncByScan ==
  ASSUME SyncInv, Scan
  PROVE  SyncInv'
  <1>1. syncpc = "scan" /\ Others /\ toPeer' = toPeer /\ tries' = tries /\ SyncTypes /\ SyncLooking
    BY DEF Scan, In, SyncInv
  <1>2. /\ Greeted /\ NoVersion /\ toPeer \in Seq(SyncCommands) /\ toHost \in Seq(SyncWords)
        /\ tries \in Nat /\ scanned \in Nat /\ lates \in Nat
    BY <1>1 DEF SyncLooking, Looking, SyncTypes
  <1>3. Greeted'
    BY <1>1, <1>2 DEF Greeted
  <1>4. clean /\ lates = 0 =>
          /\ eats = 0
          /\ \/ /\ Acks(Len(toHost)) /\ Len(toPeer) > 0
                /\ \A k \in 1 .. Len(toPeer) :
                     toPeer[k] = IF k = Len(toPeer) THEN "SYNCNOP" ELSE "NOP"
                /\ Len(toHost) + Len(toPeer) - 1 + scanned <= Nops
             \/ /\ toPeer = << >> /\ Len(toHost) > 1 /\ Acks(Len(toHost) - 2)
                /\ toHost[Len(toHost) - 1].byte = "NAK" /\ toHost[Len(toHost)].byte = "ACK"
                /\ Len(toHost) - 2 + scanned <= Nops
    BY <1>1 DEF SyncClean, SyncInv
  <1>5. CASE scanned = Scans /\ syncpc' = "try" /\ UNCHANGED <<toHost, lates, scanned>>
    <2>1. NoVersion'
      BY <1>2, <1>5 DEF NoVersion
    <2>2. SyncTypes' /\ SyncLooking' /\ SyncFirst' /\ SyncInStep' /\ SyncOwed'
      BY <1>1, <1>2, <1>3, <1>5, <2>1, SyncSearch DEF Looking
    <2>3. SyncClean'
      <3>1. ~(clean /\ lates = 0)
        BY <1>2, <1>4, <1>5, SyncAssumption
      <3> QED BY <1>1, <1>5, <3>1 DEF SyncClean, Others
    <2> QED BY <2>2, <2>3 DEF SyncInv
  <1>6. ASSUME NEW b \in Bytes, SyncRead(b), syncpc' = (IF b = "NAK" THEN "nak" ELSE "scan"),
               scanned' = scanned + 1
        PROVE  SyncInv'
    <2>1. NoVersion' /\ toHost' \in Seq(SyncWords) /\ lates' \in Nat
      BY <1>1, <1>2, <1>6, SyncReads, SyncReadKeeps
    <2>2. SyncTypes' /\ SyncLooking' /\ SyncFirst' /\ SyncInStep' /\ SyncOwed'
      <3>1. scanned' \in Nat /\ syncpc' \in Looking
        BY <1>2, <1>6 DEF Looking
      <3> QED BY <1>1, <1>2, <1>3, <2>1, <3>1, SyncSearch DEF Looking
    <2>3. SyncClean'
      <3> SUFFICES ASSUME clean', lates' = 0 PROVE SyncClean'
        BY DEF SyncClean
      <3>1. /\ lates = 0
            /\ \/ /\ toHost # << >> /\ b = toHost[1].byte /\ Len(toHost') = Len(toHost) - 1
                  /\ \A k \in 1 .. Len(toHost') : toHost'[k] = toHost[k + 1]
               \/ toPeer = << >> /\ toHost = << >> /\ toHost' = << >> /\ b = "none"
        BY <1>1, <1>6, SyncReads
      <3>2. clean /\ eats' = 0
        BY <1>1, <1>4, <3>1 DEF Others
      <3>3. /\ toHost # << >> /\ b = toHost[1].byte /\ Len(toHost') = Len(toHost) - 1
            /\ \A k \in 1 .. Len(toHost') : toHost'[k] = toHost[k + 1]
        BY <1>2, <1>4, <3>1, <3>2
      <3>4. CASE Acks(Len(toHost)) /\ Len(toPeer) > 0
        <4>1. b = "ACK"
          BY <1>2, <3>3, <3>4 DEF Acks
        <4>2. syncpc' = "scan"
          BY <1>6, <4>1
        <4>3. Acks(Len(toHost))'
          <5>1. ASSUME NEW k \in 1 .. Len(toHost') PROVE toHost'[k].byte = "ACK"
            <6>1. k + 1 \in 1 .. Len(toHost)
              BY <1>2, <3>3
            <6> QED BY <3>3, <3>4, <6>1 DEF Acks
          <5> QED BY <5>1 DEF Acks
        <4>4. /\ \A k \in 1 .. Len(toPeer) :
                   toPeer[k] = IF k = Len(toPeer) THEN "SYNCNOP" ELSE "NOP"
              /\ Len(toHost) + Len(toPeer) - 1 + scanned <= Nops
          BY <1>2, <1>4, <3>1, <3>2, <3>4
        <4>5. Len(toHost') + Len(toPeer') - 1 + scanned' <= Nops
          BY <1>1, <1>2, <1>6, <3>3, <4>4, SyncAssumption
        <4> QED BY <1>1, <3>2, <3>4, <4>2, <4>3, <4>4, <4>5 DEF SyncClean
      <3>5. CASE /\ toPeer = << >> /\ Len(toHost) > 1 /\ Acks(Len(toHost) - 2)
                 /\ toHost[Len(toHost) - 1].byte = "NAK" /\ toHost[Len(toHost)].byte = "ACK"
                 /\ Len(toHost) - 2 + scanned <= Nops
        <4>1. CASE Len(toHost) = 2
          <5>1. b = "NAK" /\ syncpc' = "nak"
            BY <1>6, <3>3, <3>5, <4>1
          <5>2. Len(toHost') = 1 /\ toHost'[1].byte = "ACK"
            BY <3>3, <3>5, <4>1
          <5>3. Acks(1)'
            BY <5>2 DEF Acks
          <5> QED BY <1>1, <3>2, <3>5, <5>1, <5>2, <5>3 DEF SyncClean
        <4>2. CASE Len(toHost) # 2
          <5>1. Len(toHost) - 2 \in Nat \ {0}
            BY <1>2, <3>5, <4>2
          <5>2. b = "ACK" /\ syncpc' = "scan"
            BY <1>6, <3>3, <3>5, <5>1 DEF Acks
          <5>3. Len(toHost') > 1 /\ Len(toHost') = Len(toHost) - 1 /\ Len(toHost') \in Nat
            BY <1>2, <3>3, <5>1
          <5>4. ASSUME NEW k \in 1 .. Len(toHost') - 2 PROVE toHost'[k].byte = "ACK"
            <6>1. k + 1 \in 1 .. Len(toHost) - 2 /\ k \in 1 .. Len(toHost')
              BY <1>2, <5>3
            <6> QED BY <3>3, <3>5, <6>1 DEF Acks
          <5>5. toHost'[Len(toHost') - 1].byte = "NAK" /\ toHost'[Len(toHost')].byte = "ACK"
            <6>1. /\ Len(toHost') - 1 \in 1 .. Len(toHost') /\ Len(toHost') \in 1 .. Len(toHost')
                  /\ Len(toHost') - 1 + 1 = Len(toHost) - 1 /\ Len(toHost') + 1 = Len(toHost)
              BY <1>2, <5>3
            <6>2. /\ toHost'[Len(toHost') - 1] = toHost[Len(toHost) - 1]
                  /\ toHost'[Len(toHost')] = toHost[Len(toHost)]
              BY <3>3, <6>1
            <6> QED BY <3>5, <6>2
          <5>6. Acks(Len(toHost) - 2)'
            BY <5>4 DEF Acks
          <5>7. Len(toHost') - 2 + scanned' <= Nops
            BY <1>2, <1>6, <3>5, <5>3, SyncAssumption
          <5> QED BY <1>1, <3>2, <3>5, <5>2, <5>3, <5>5, <5>6, <5>7 DEF SyncClean
        <4> QED BY <4>1, <4>2
      <3> QED BY <1>4, <3>1, <3>2, <3>4, <3>5
    <2> QED BY <2>2, <2>3 DEF SyncInv
  <1> QED BY <1>5, <1>6 DEF Scan

(* AfterNak                                                                 *)
LEMMA SyncByAfterNak ==
  ASSUME SyncInv, AfterNak
  PROVE  SyncInv'
  <1>1. /\ syncpc = "nak" /\ Others /\ tries' = tries /\ scanned' = scanned /\ SyncTypes
        /\ SyncLooking
        /\ tries \in Nat /\ scanned \in Nat /\ toPeer \in Seq(SyncCommands)
        /\ toHost \in Seq(SyncWords)
    BY DEF AfterNak, In, SyncInv, SyncTypes
  <1>2. PICK b \in Bytes :
          /\ SyncRead(b)
          /\ IF b = "ACK" THEN Transmit(<<"SYNCNOP">>) /\ syncpc' = "confirm"
             ELSE syncpc' = "scan" /\ toPeer' = toPeer
    BY DEF AfterNak
  <1>3. Greeted /\ NoVersion
    BY <1>1 DEF SyncLooking, Looking
  <1>4. NoVersion' /\ toHost' \in Seq(SyncWords) /\ lates' \in Nat
    BY <1>1, <1>2, <1>3, SyncReads, SyncReadKeeps
  <1>5. b = "ACK" => /\ toPeer' \in Seq(SyncCommands) /\ Len(toPeer') = Len(toPeer) + 1
                     /\ \A k \in 1 .. Len(toPeer') :
                          toPeer'[k] = IF k = Len(toPeer) + 1 THEN "SYNCNOP" ELSE toPeer[k]
                     /\ toPeer = << >> => toPeer' = <<"SYNCNOP">>
    <2>1. "SYNCNOP" \in SyncCommands
      BY DEF SyncCommands, Greetings
    <2> QED BY <1>1, <1>2, <2>1, SyncSends
  <1>6. Greeted' /\ toPeer' \in Seq(SyncCommands)
    <2>1. CASE b = "ACK"
      BY <1>1, <1>3, <1>5, <2>1 DEF Greeted, Greetings
    <2>2. CASE b # "ACK"
      BY <1>1, <1>2, <1>3, <2>2 DEF Greeted
    <2> QED BY <2>1, <2>2
  <1>7. SyncTypes' /\ SyncLooking' /\ SyncFirst' /\ SyncInStep' /\ SyncOwed'
    <2>1. syncpc' \in Looking /\ syncpc \in Looking /\ tries' \in Nat /\ scanned' \in Nat
      BY <1>1, <1>2 DEF Looking
    <2> QED BY <1>1, <1>4, <1>6, <2>1, SyncSearch
  <1>8. SyncClean'
    <2> SUFFICES ASSUME clean', lates' = 0 PROVE SyncClean'
      BY DEF SyncClean
    <2>1. /\ lates = 0
          /\ \/ /\ toHost # << >> /\ b = toHost[1].byte /\ Len(toHost') = Len(toHost) - 1
                /\ \A k \in 1 .. Len(toHost') : toHost'[k] = toHost[k + 1]
             \/ toPeer = << >> /\ toHost = << >> /\ toHost' = << >> /\ b = "none"
      BY <1>1, <1>2, SyncReads
    <2>2. eats' = 0 /\ toPeer = << >> /\ Len(toHost) = 1 /\ toHost[1].byte = "ACK"
      BY <1>1, <2>1 DEF SyncClean, SyncInv, Others, Acks
    <2>3. b = "ACK" /\ Len(toHost') = 0
      BY <2>1, <2>2
    <2>4. toHost' = << >> /\ toPeer' = <<"SYNCNOP">> /\ syncpc' = "confirm"
      BY <1>2, <1>4, <1>5, <2>2, <2>3
    <2> QED BY <2>2, <2>4 DEF SyncClean
  <1> QED BY <1>7, <1>8 DEF SyncInv

(* Confirm                                                                  *)
LEMMA SyncByConfirm ==
  ASSUME SyncInv, Confirm
  PROVE  SyncInv'
  <1>1. /\ syncpc = "confirm" /\ Others /\ toPeer' = toPeer /\ tries' = tries /\ scanned' = scanned
        /\ tries \in Nat /\ scanned \in Nat /\ toPeer \in Seq(SyncCommands)
        /\ toHost \in Seq(SyncWords)
        /\ SyncTypes /\ SyncLooking
    BY DEF Confirm, In, SyncInv, SyncTypes
  <1>2. PICK b \in Bytes : SyncRead(b) /\ syncpc' = (IF b = "NAK" THEN "confirm-ack" ELSE "try")
    BY DEF Confirm
  <1>3. Greeted /\ NoVersion
    BY <1>1 DEF SyncLooking, Looking
  <1>4. NoVersion' /\ toHost' \in Seq(SyncWords) /\ lates' \in Nat
    BY <1>1, <1>2, <1>3, SyncReads, SyncReadKeeps
  <1>5. Greeted'
    BY <1>1, <1>3 DEF Greeted
  <1>6. SyncTypes' /\ SyncLooking' /\ SyncFirst' /\ SyncInStep' /\ SyncOwed'
    <2>1. syncpc' \in Looking /\ syncpc \in Looking /\ tries' \in Nat /\ scanned' \in Nat
      BY <1>1, <1>2 DEF Looking
    <2> QED BY <1>1, <1>4, <1>5, <2>1, SyncSearch
  <1>7. SyncClean'
    <2> SUFFICES ASSUME clean', lates' = 0 PROVE SyncClean'
      BY DEF SyncClean
    <2>1. /\ lates = 0
          /\ \/ /\ toHost # << >> /\ b = toHost[1].byte /\ Len(toHost') = Len(toHost) - 1
                /\ \A k \in 1 .. Len(toHost') : toHost'[k] = toHost[k + 1]
             \/ toPeer = << >> /\ toHost = << >> /\ toHost' = << >> /\ b = "none"
      BY <1>1, <1>2, SyncReads
    <2>2. /\ eats' = 0
          /\ \/ toPeer = <<"SYNCNOP">> /\ toHost = << >>
             \/ /\ toPeer = << >> /\ Len(toHost) = 2
                /\ toHost[1].byte = "NAK" /\ toHost[2].byte = "ACK"
      BY <1>1, <2>1 DEF SyncClean, SyncInv, Others
    <2>3. toPeer = << >> /\ Len(toHost) = 2 /\ toHost[1].byte = "NAK" /\ toHost[2].byte = "ACK"
          /\ b = "NAK"
          /\ Len(toHost') = 1 /\ toHost'[1] = toHost[2]
      <3>1. <<"SYNCNOP">> # << >>
        OBVIOUS
      <3>2. /\ toHost # << >> /\ b = toHost[1].byte /\ Len(toHost') = Len(toHost) - 1
            /\ \A k \in 1 .. Len(toHost') : toHost'[k] = toHost[k + 1]
        BY <2>1, <2>2, <3>1
      <3> QED BY <2>2, <3>2
    <2>4. Acks(1)' /\ syncpc' = "confirm-ack"
      BY <1>2, <2>3 DEF Acks
    <2> QED BY <1>1, <2>2, <2>3, <2>4 DEF SyncClean
  <1> QED BY <1>6, <1>7 DEF SyncInv

(* ConfirmAck: now the device is asked what it is.                          *)
LEMMA SyncByConfirmAck ==
  ASSUME SyncInv, ConfirmAck
  PROVE  SyncInv'
  <1>1. /\ syncpc = "confirm-ack" /\ SyncTypes /\ SyncLooking
        /\ peer' = peer /\ eats' = eats /\ told' = told /\ ready' = ready /\ toPeer' = toPeer
        /\ tries' = tries /\ scanned' = scanned /\ buses' = buses /\ clean' = clean
        /\ toPeer \in Seq(SyncCommands) /\ toHost \in Seq(SyncWords) /\ queries = << >>
    BY DEF ConfirmAck, In, SyncInv, SyncTypes, SyncLooking, Looking
  <1>2. PICK b \in Bytes :
          /\ SyncRead(b)
          /\ \/ b = "ACK" /\ syncpc' = "query" /\ queries' = FirstQueries
             \/ b = "none" /\ syncpc' = "failed" /\ queries' = queries
             \/ b \notin {"ACK", "none"} /\ syncpc' = "try" /\ queries' = queries
    BY DEF ConfirmAck, FirstQueries
  <1>3. Greeted /\ NoVersion /\ buses = {} /\ told = AllBuses
    BY <1>1 DEF SyncLooking, Looking
  <1>4. NoVersion' /\ toHost' \in Seq(SyncWords) /\ lates' \in Nat
    BY <1>1, <1>2, <1>3, SyncReads, SyncReadKeeps
  <1>5. Greeted'
    BY <1>1, <1>3 DEF Greeted
  <1>6. clean' /\ lates' = 0 => /\ eats' = 0 /\ syncpc' = "query" /\ queries' = FirstQueries
                               /\ toPeer' = << >> /\ toHost' = << >>
    <2> SUFFICES ASSUME clean', lates' = 0
                 PROVE  /\ eats' = 0 /\ syncpc' = "query" /\ queries' = FirstQueries
                        /\ toPeer' = << >> /\ toHost' = << >>
      OBVIOUS
    <2>1. /\ lates = 0
          /\ \/ /\ toHost # << >> /\ b = toHost[1].byte /\ Len(toHost') = Len(toHost) - 1
                /\ \A k \in 1 .. Len(toHost') : toHost'[k] = toHost[k + 1]
             \/ toPeer = << >> /\ toHost = << >> /\ toHost' = << >> /\ b = "none"
      BY <1>1, <1>2, SyncReads
    <2>2. eats = 0 /\ toPeer = << >> /\ Len(toHost) = 1 /\ toHost[1].byte = "ACK"
      BY <1>1, <2>1 DEF SyncClean, SyncInv, Acks
    <2>3. b = "ACK" /\ Len(toHost') = 0
      <3>1. toHost # << >>
        BY <2>2
      <3>2. b = toHost[1].byte /\ Len(toHost') = Len(toHost) - 1
        BY <2>1, <3>1
      <3> QED BY <2>2, <3>2
    <2>4. toHost' = << >>
      BY <1>4, <2>3
    <2> QED BY <1>1, <1>2, <2>2, <2>3, <2>4
  <1>7. FirstQueries \in Seq(SyncCommands) /\ Len(FirstQueries) = 3 /\ FirstQueries[1] = "Q_IFACE"
        /\ FirstQueries[2] = "Q_CMDMAP" /\ FirstQueries[3] = "Q_BUSTYPE"
    BY DEF FirstQueries, SyncCommands, Early
  <1>8. queries' \in Seq(SyncCommands)
    <2>1. << >> \in Seq(SyncCommands)
      OBVIOUS
    <2>2. queries' = FirstQueries \/ queries' = << >>
      BY <1>1, <1>2
    <2> QED BY <1>7, <2>1, <2>2
  <1>9. SyncTypes'
    BY <1>1, <1>2, <1>4, <1>8 DEF SyncTypes, Looking
  <1>10. SyncLooking'
    BY <1>1, <1>2, <1>3, <1>4, <1>5 DEF SyncLooking, Looking
  <1>11. SyncFirst'
    BY <1>1, <1>2, <1>3, <1>4, <1>5 DEF SyncFirst
  <1>12. SyncInStep'
    BY <1>2 DEF SyncInStep
  <1>13. SyncOwed'
    <2> SUFFICES ASSUME syncpc' = "query", queries' = FirstQueries PROVE SyncOwed'
      BY <1>2 DEF SyncOwed
    <2>1. BackToAll(queries)'
      BY <1>7 DEF BackToAll
    <2>2. Owed("O_INIT")' /\ Owed("S_PIN_STATE")'
      <3>1. 3 \in 1 .. Len(queries') /\ queries'[3] = "Q_BUSTYPE"
        BY <1>7
      <3> QED BY <3>1 DEF Owed, Among
    <2> QED BY <1>1, <1>3, <2>1, <2>2 DEF SyncOwed
  <1>14. SyncClean'
    BY <1>6 DEF SyncClean, LineIdle
  <1> QED BY <1>9, <1>10, <1>11, <1>12, <1>13, <1>14 DEF SyncInv

(* LineFails: that is late, too.                                            *)
LEMMA SyncByLineFails ==
  ASSUME SyncInv, LineFails
  PROVE  SyncInv'
  <1>1. /\ syncpc \in Looking /\ Others /\ syncpc' = "failed" /\ lates' = lates + 1
        /\ toPeer' = toPeer /\ toHost' = toHost /\ tries' = tries /\ scanned' = scanned
        /\ SyncTypes /\ SyncLooking
    BY DEF LineFails, Looking, SyncInv
  <1>2. /\ tries \in Nat /\ scanned \in Nat /\ lates \in Nat
        /\ toPeer \in Seq(SyncCommands) /\ toHost \in Seq(SyncWords) /\ Greeted /\ NoVersion
    BY <1>1 DEF SyncTypes, SyncLooking
  <1>3. Greeted' /\ NoVersion'
    BY <1>1, <1>2 DEF Greeted, NoVersion
  <1>4. SyncTypes' /\ SyncLooking' /\ SyncFirst' /\ SyncInStep' /\ SyncOwed'
    BY <1>1, <1>2, <1>3, SyncSearch
  <1>5. SyncClean'
    BY <1>1, <1>2 DEF SyncClean
  <1> QED BY <1>4, <1>5 DEF SyncInv

(* One list of queries behind another.                                      *)
LEMMA QueriesJoined ==
  ASSUME NEW s \in Seq(Ordinary), NEW t \in Seq(Ordinary), NEW some
  PROVE  /\ s \o t \in Seq(Ordinary)
         /\ Among(some, s) \/ Among(some, t) => Among(some, s \o t)
         /\ BackToAll(s) /\ BackToAll(t) => BackToAll(s \o t)
         /\ t # << >> /\ t[Len(t)] = "S_BUSTYPE-all" => (BackToAll(t) => BackToAll(s \o t))
  <1> DEFINE u == s \o t
  <1>1. /\ u \in Seq(Ordinary) /\ Len(u) = Len(s) + Len(t)
        /\ \A k \in 1 .. Len(s) + Len(t) : u[k] = IF k <= Len(s) THEN s[k] ELSE t[k - Len(s)]
    BY ConcatProperties
  <1>2. Len(s) \in Nat /\ Len(t) \in Nat
    OBVIOUS
  <1> HIDE DEF u
  <1>3. \A k \in 1 .. Len(s) : k \in 1 .. Len(u) /\ u[k] = s[k]
    BY <1>1, <1>2
  <1>4. ASSUME NEW k \in 1 .. Len(t) PROVE Len(s) + k \in 1 .. Len(u) /\ u[Len(s) + k] = t[k]
    <2>1. Len(s) + k \in 1 .. Len(u) /\ ~(Len(s) + k <= Len(s)) /\ Len(s) + k - Len(s) = k
      BY <1>1, <1>2
    <2>2. u[Len(s) + k] = t[Len(s) + k - Len(s)]
      BY <1>1, <2>1
    <2> QED BY <2>1, <2>2
  <1>5. Among(some, s) \/ Among(some, t) => Among(some, u)
    <2>1. ASSUME Among(some, s) PROVE Among(some, u)
      BY <1>3, <2>1 DEF Among
    <2>2. ASSUME Among(some, t) PROVE Among(some, u)
      BY <1>4, <2>2 DEF Among
    <2> QED BY <2>1, <2>2
  <1>6. ASSUME BackToAll(t), BackToAll(s) \/ (t # << >> /\ t[Len(t)] = "S_BUSTYPE-all")
        PROVE  BackToAll(u)
    <2> SUFFICES ASSUME NEW k \in 1 .. Len(u), u[k] = "S_BUSTYPE-spi"
                 PROVE  \E j \in k + 1 .. Len(u) : u[j] = "S_BUSTYPE-all"
      BY DEF BackToAll
    <2>1. CASE k <= Len(s) /\ BackToAll(s)
      <3>1. k \in 1 .. Len(s) /\ s[k] = "S_BUSTYPE-spi"
        BY <1>2, <1>3, <2>1
      <3>2. PICK j \in k + 1 .. Len(s) : s[j] = "S_BUSTYPE-all"
        BY <2>1, <3>1 DEF BackToAll
      <3>3. j \in 1 .. Len(s) /\ j \in k + 1 .. Len(u)
        BY <1>1, <1>2, <3>1
      <3> QED BY <1>3, <3>2, <3>3
    <2>2. CASE k <= Len(s) /\ ~BackToAll(s)
      <3>1. t # << >> /\ t[Len(t)] = "S_BUSTYPE-all"
        BY <1>6, <2>2
      <3>2. Len(t) \in 1 .. Len(t)
        BY <3>1
      <3>3. Len(s) + Len(t) \in k + 1 .. Len(u) /\ u[Len(s) + Len(t)] = "S_BUSTYPE-all"
        BY <1>1, <1>2, <1>4, <2>2, <3>1, <3>2
      <3> QED BY <3>3
    <2>3. CASE ~(k <= Len(s))
      <3>1. k - Len(s) \in 1 .. Len(t) /\ u[k] = t[k - Len(s)]
        BY <1>1, <1>2, <2>3
      <3>2. PICK j \in k - Len(s) + 1 .. Len(t) : t[j] = "S_BUSTYPE-all"
        BY <1>6, <3>1 DEF BackToAll
      <3>3. j \in 1 .. Len(t) /\ Len(s) + j \in k + 1 .. Len(u)
        BY <1>1, <1>2, <2>3, <3>1
      <3> QED BY <1>4, <3>2, <3>3
    <2> QED BY <2>1, <2>2, <2>3
  <1> QED BY <1>1, <1>5, <1>6 DEF u

(* What is asked once the bus types are known.                              *)
LEMMA FollowingIs ==
  ASSUME NEW b \in SUBSET AllBuses
  PROVE  /\ Following(b) \in Seq(Ordinary) /\ BackToAll(Following(b))
         /\ "nonspi" \in b => Among({"O_INIT", "stop", "Q_BUSTYPE"}, Following(b))
         /\ "S_PIN_STATE" \in peer.map => Among({"S_PIN_STATE", "stop", "Q_BUSTYPE"}, Following(b))
  <1> DEFINE spi == IF "spi" \notin b THEN << >>
                    ELSE IF "O_SPIOP" \notin peer.map THEN <<"stop">>
                    ELSE <<"S_BUSTYPE-spi">> \o LimitsOf \o <<"S_SPI_FREQ", "S_BUSTYPE-all">>
             nonspi == IF "nonspi" \notin b THEN << >>
                       ELSE IF Needed \subseteq peer.map THEN LimitsOf ELSE <<"stop">>
             name == <<"Q_PGMNAME", "Q_SERBUF">>
             bufs == IF "O_INIT" \notin peer.map THEN << >>
                      ELSE IF "O_EXEC" \notin peer.map THEN <<"stop">> ELSE <<"O_INIT", "Q_OPBUF">>
             pins == IF "S_PIN_STATE" \in peer.map THEN <<"S_PIN_STATE">> ELSE << >>
             init == {"O_INIT", "stop", "Q_BUSTYPE"}
             state == {"S_PIN_STATE", "stop", "Q_BUSTYPE"}
  <1>0. << >> \in Seq(Ordinary) /\ <<"stop">> \in Seq(Ordinary) /\ LimitsOf \in Seq(Ordinary)
        /\ BackToAll(<< >>) /\ BackToAll(<<"stop">>) /\ BackToAll(LimitsOf)
        /\ Among(init, <<"stop">>) /\ Among(state, <<"stop">>)
    <2>1. << >> \in Seq(Ordinary) /\ <<"stop">> \in Seq(Ordinary) /\ LimitsOf \in Seq(Ordinary)
      BY DEF Ordinary, LimitsOf
    <2>2. BackToAll(<< >>) /\ BackToAll(<<"stop">>) /\ BackToAll(LimitsOf)
      BY DEF BackToAll, LimitsOf
    <2>3. Among(init, <<"stop">>) /\ Among(state, <<"stop">>)
      <3>1. 1 \in 1 .. Len(<<"stop">>) /\ <<"stop">>[1] = "stop"
        OBVIOUS
      <3> QED BY <3>1 DEF Among
    <2> QED BY <2>1, <2>2, <2>3
  <1>1. spi \in Seq(Ordinary) /\ BackToAll(spi)
    <2>1. <<"S_BUSTYPE-spi">> \in Seq(Ordinary)
      BY DEF Ordinary
    <2>2. <<"S_BUSTYPE-spi">> \o LimitsOf \in Seq(Ordinary)
      BY <1>0, <2>1, QueriesJoined
    <2> DEFINE first == <<"S_BUSTYPE-spi">> \o LimitsOf
               last == <<"S_SPI_FREQ", "S_BUSTYPE-all">>
    <2>3. last \in Seq(Ordinary) /\ last # << >> /\ last[Len(last)] = "S_BUSTYPE-all"
          /\ BackToAll(last)
      BY DEF Ordinary, BackToAll
    <2>4. first \o last \in Seq(Ordinary) /\ BackToAll(first \o last)
      <3> HIDE DEF first, last
      <3> QED BY <2>2, <2>3, QueriesJoined DEF first
    <2> QED BY <1>0, <2>4
  <1>2. nonspi \in Seq(Ordinary) /\ BackToAll(nonspi)
        /\ ("nonspi" \in b => Among(init, nonspi) \/ Needed \subseteq peer.map)
    BY <1>0
  <1>3. name \in Seq(Ordinary) /\ BackToAll(name)
    BY DEF Ordinary, BackToAll
  <1>4. bufs \in Seq(Ordinary) /\ BackToAll(bufs)
        /\ ("O_INIT" \in peer.map => Among(init, bufs))
    <2> DEFINE both == <<"O_INIT", "Q_OPBUF">>
    <2>1. both \in Seq(Ordinary) /\ BackToAll(both)
      BY DEF Ordinary, BackToAll
    <2>2. Among(init, both)
      <3>1. 1 \in 1 .. Len(both) /\ both[1] = "O_INIT"
        OBVIOUS
      <3> QED BY <3>1 DEF Among
    <2> HIDE DEF both
    <2>3. bufs \in {<< >>, <<"stop">>, both}
          /\ ("O_INIT" \in peer.map => bufs \in {<<"stop">>, both})
      BY DEF both
    <2> HIDE DEF bufs, init
    <2> QED BY <1>0, <2>1, <2>2, <2>3
  <1>5. pins \in Seq(Ordinary) /\ BackToAll(pins)
        /\ ("S_PIN_STATE" \in peer.map => Among(state, pins))
    <2> DEFINE one == <<"S_PIN_STATE">>
    <2>1. one \in Seq(Ordinary) /\ BackToAll(one)
      BY DEF Ordinary, BackToAll
    <2>2. Among(state, one)
      <3>1. 1 \in 1 .. Len(one) /\ one[1] = "S_PIN_STATE"
        OBVIOUS
      <3> QED BY <3>1 DEF Among
    <2> HIDE DEF one
    <2>3. pins \in {<< >>, one} /\ ("S_PIN_STATE" \in peer.map => pins = one)
      BY DEF one
    <2> HIDE DEF pins, state
    <2> QED BY <1>0, <2>1, <2>2, <2>3
  <1>6. Following(b) = (((spi \o nonspi) \o name) \o bufs) \o pins
    BY DEF Following
  <1>7. "nonspi" \in b => Among(init, nonspi) \/ Among(init, bufs)
    BY <1>2, <1>4 DEF Needed
  <1> HIDE DEF spi, nonspi, name, bufs, pins, init, state
  <1>8. spi \o nonspi \in Seq(Ordinary) /\ BackToAll(spi \o nonspi)
        /\ (Among(init, nonspi) => Among(init, spi \o nonspi))
    BY <1>1, <1>2, QueriesJoined
  <1>9. (spi \o nonspi) \o name \in Seq(Ordinary) /\ BackToAll((spi \o nonspi) \o name)
        /\ (Among(init, spi \o nonspi) => Among(init, (spi \o nonspi) \o name))
    BY <1>3, <1>8, QueriesJoined
  <1> DEFINE most == (spi \o nonspi) \o name
  <1>10. most \o bufs \in Seq(Ordinary) /\ BackToAll(most \o bufs)
         /\ (Among(init, most) \/ Among(init, bufs) => Among(init, most \o bufs))
    BY <1>4, <1>9, QueriesJoined
  <1>11. (most \o bufs) \o pins \in Seq(Ordinary) /\ BackToAll((most \o bufs) \o pins)
         /\ (Among(init, most \o bufs) => Among(init, (most \o bufs) \o pins))
         /\ (Among(state, pins) => Among(state, (most \o bufs) \o pins))
    BY <1>5, <1>10, QueriesJoined
  <1>12. "nonspi" \in b => Among(init, Following(b))
    BY <1>6, <1>7, <1>8, <1>9, <1>10, <1>11
  <1>13. "S_PIN_STATE" \in peer.map => Among(state, Following(b))
    BY <1>5, <1>6, <1>11
  <1> QED BY <1>6, <1>11, <1>12, <1>13 DEF init, state

(* After an answer, or without a command that cannot be sent: the next one. *)
LEMMA SyncGoesOn ==
  ASSUME SyncTypes, SyncOwed, syncpc \in {"query", "answer"}, Querying, queries # << >>,
         (\A k \in 2 .. Len(queries) :
            queries[k] \in Early) \/ (\A k \in 1 .. Len(queries) : queries[k] \in Ordinary),
         NEW ok \in BOOLEAN, Outcome(queries[1], ok),
         ok => Has(queries[1]) /\ queries[1] # "stop",
         syncpc' = "query" => eats = 0 /\ toPeer' = << >> /\ toHost' = << >>
  PROVE  /\ queries' \in Seq(SyncCommands) /\ buses' \in SUBSET AllBuses
         /\ syncpc' \in {"query", "failed"} /\ (syncpc' = "failed" => ~ok /\ queries' = queries)
         /\ (syncpc' = "query" => queries' # FirstQueries)
         /\ SyncFirst' /\ SyncInStep' /\ SyncOwed' /\ SyncLooking'
  <1>1. /\ queries \in Seq(SyncCommands) /\ queries[1] \in SyncCommands /\ buses \in SUBSET AllBuses
        /\ peer.buses \in SUBSET AllBuses /\ peer' = peer /\ told' = told /\ ready' = ready
        /\ eats' = eats
    <2>1. peer \in SyncDevices /\ queries \in Seq(SyncCommands) /\ buses \in SUBSET AllBuses
      BY DEF SyncTypes
    <2>2. peer.buses \in SUBSET AllBuses
      BY <2>1, SyncAssumption DEF AllBuses
    <2> QED BY <2>1, <2>2 DEF Querying
  <1>2. CASE ~ok /\ queries[1] \notin Optional
    <2>1. syncpc' = "failed" /\ queries' = queries /\ buses' = buses
      BY <1>2 DEF Outcome
    <2>2. SyncFirst' /\ SyncInStep' /\ SyncOwed'
      BY <2>1, SyncNoQueries
    <2>3. SyncLooking'
      BY <2>1 DEF SyncLooking, Looking
    <2> QED BY <1>1, <1>2, <2>1, <2>2, <2>3
  <1>3. ASSUME ok \/ queries[1] \in Optional, queries' \in Seq(SyncCommands),
               buses' \in SUBSET AllBuses,
               \/ \A k \in 1 .. Len(queries') : queries'[k] \in Early
               \/ \A k \in 1 .. Len(queries') : queries'[k] \in Ordinary,
               SyncOwed'
        PROVE  /\ syncpc' = "query" /\ queries' # FirstQueries
               /\ SyncFirst' /\ SyncInStep' /\ SyncLooking'
    <2>1. syncpc' = "query"
      BY <1>3 DEF Outcome
    <2>2. queries' # FirstQueries
      <3>1. Len(FirstQueries) = 3 /\ FirstQueries[1] = "Q_IFACE"
        BY DEF FirstQueries
      <3> QED BY <1>3, <3>1 DEF Early, Ordinary
    <2>3. SyncFirst' /\ SyncLooking'
      BY <2>1, <2>2 DEF SyncFirst, SyncLooking, Looking
    <2>4. SyncInStep'
      BY <1>1, <1>3, <2>1 DEF SyncInStep
    <2> QED BY <2>1, <2>2, <2>3, <2>4
  <1>4. CASE (ok \/ queries[1] \in Optional) /\ queries[1] = "Q_BUSTYPE"
    <2> DEFINE b == IF ok THEN peer.buses ELSE {"nonspi"}
    <2>1. buses' = b /\ queries' = Following(b)
      BY <1>4 DEF Outcome
    <2>2. b \in SUBSET AllBuses
      BY <1>1 DEF AllBuses
    <2> HIDE DEF b
    <2>3. /\ queries' \in Seq(Ordinary) /\ BackToAll(queries')
          /\ "nonspi" \in buses' => Among({"O_INIT", "stop", "Q_BUSTYPE"}, queries')
          /\ "S_PIN_STATE" \in peer.map => Among({"S_PIN_STATE", "stop", "Q_BUSTYPE"}, queries')
      BY <2>1, <2>2, FollowingIs
    <2>4. queries' \in Seq(SyncCommands) /\ \A k \in 1 .. Len(queries') : queries'[k] \in Ordinary
      <3>1. Ordinary \subseteq SyncCommands
        BY DEF SyncCommands
      <3> QED BY <2>3, <3>1, SeqMonotonic
    <2>5. told' = AllBuses
      <3>1. 1 \in 1 .. Len(queries)
        BY <1>1
      <3>2. Among({"Q_BUSTYPE"}, queries)
        BY <1>4, <3>1 DEF Among
      <3> QED BY <1>1, <3>2 DEF SyncOwed
    <2>6. SyncOwed'
      BY <1>1, <2>3, <2>5 DEF SyncOwed, Owed
    <2> QED BY <1>3, <1>4, <2>1, <2>2, <2>4, <2>6
  <1>5. CASE (ok \/ queries[1] \in Optional) /\ queries[1] # "Q_BUSTYPE"
    <2>1. buses' = buses /\ queries' = Tail(queries)
      BY <1>5 DEF Outcome
    <2>2. /\ queries' \in Seq(SyncCommands) /\ Len(queries') = Len(queries) - 1
          /\ \A k \in 1 .. Len(queries') : queries'[k] = queries[k + 1]
      BY <1>1, <2>1, HeadTailProperties
    <2>3. \A k \in 1 .. Len(queries') : k + 1 \in 2 .. Len(queries)
      BY <1>1, <2>2
    <2>4. \/ \A k \in 1 .. Len(queries') : queries'[k] \in Early
          \/ \A k \in 1 .. Len(queries') : queries'[k] \in Ordinary
      BY <1>1, <2>2, <2>3
    <2>5. ASSUME NEW some, Among(some, queries), queries[1] \notin some PROVE Among(some, queries')
      <3>1. PICK k \in 1 .. Len(queries) : queries[k] \in some
        BY <2>5 DEF Among
      <3>2. k # 1 /\ k - 1 \in 1 .. Len(queries') /\ k - 1 + 1 = k
        BY <1>1, <2>2, <2>5, <3>1
      <3>3. queries'[k - 1] \in some
        BY <2>2, <3>1, <3>2
      <3> QED BY <3>2, <3>3 DEF Among
    <2>6. queries[1] # "stop"
          /\ (queries[1] \in {"S_BUSTYPE-all", "O_INIT", "S_PIN_STATE"} => Has(queries[1]))
      BY <1>5 DEF Optional
    <2>7. told' = AllBuses \/ told' = peer'.buses \/ Among({"S_BUSTYPE-all"}, queries')
      <3>1. CASE queries[1] = "S_BUSTYPE-all"
        BY <1>1, <2>6, <3>1 DEF Has
      <3>2. CASE queries[1] # "S_BUSTYPE-all"
        <4>1. told = AllBuses \/ told = peer.buses \/ Among({"S_BUSTYPE-all"}, queries)
          BY DEF SyncOwed
        <4>2. queries[1] \notin {"S_BUSTYPE-all"}
          BY <3>2
        <4> QED BY <1>1, <2>5, <4>1, <4>2
      <3> QED BY <3>1, <3>2
    <2>8. Among({"Q_BUSTYPE"}, queries') => told' = AllBuses
      <3>1. ASSUME Among({"Q_BUSTYPE"}, queries') PROVE Among({"Q_BUSTYPE"}, queries)
        <4>1. PICK k \in 1 .. Len(queries') : queries'[k] \in {"Q_BUSTYPE"}
          BY <3>1 DEF Among
        <4>2. k + 1 \in 1 .. Len(queries) /\ queries[k + 1] \in {"Q_BUSTYPE"}
          BY <1>1, <2>2, <4>1
        <4> QED BY <4>2 DEF Among
      <3> QED BY <1>1, <3>1 DEF SyncOwed
    <2>9. BackToAll(queries')
      <3> SUFFICES ASSUME NEW k \in 1 .. Len(queries'), queries'[k] = "S_BUSTYPE-spi"
                   PROVE  \E j \in k + 1 .. Len(queries') : queries'[j] = "S_BUSTYPE-all"
        BY DEF BackToAll
      <3>1. k + 1 \in 1 .. Len(queries) /\ queries[k + 1] = "S_BUSTYPE-spi"
        BY <1>1, <2>2
      <3>2. PICK j \in k + 1 + 1 .. Len(queries) : queries[j] = "S_BUSTYPE-all"
        BY <3>1 DEF SyncOwed, BackToAll
      <3>3. j - 1 \in k + 1 .. Len(queries') /\ j - 1 \in 1 .. Len(queries') /\ j - 1 + 1 = j
        <4> DEFINE n == Len(queries')
                   m == Len(queries)
        <4>1. n = m - 1 /\ m \in Nat /\ k \in 1 .. n /\ j \in k + 2 .. m
          BY <1>1, <2>2, <3>2
        <4> HIDE DEF n, m
        <4>2. j - 1 \in k + 1 .. n /\ j - 1 \in 1 .. n /\ j - 1 + 1 = j
          BY <4>1
        <4> QED BY <4>2 DEF n
      <3> QED BY <2>2, <3>2, <3>3
    <2>10. ASSUME NEW c \in {"O_INIT", "S_PIN_STATE"}, c \in ready \/ Among({c, "stop",
                  "Q_BUSTYPE"}, queries)
           PROVE  c \in ready' \/ Among({c, "stop", "Q_BUSTYPE"}, queries')
      <3>1. CASE queries[1] = c
        BY <1>1, <2>6, <3>1 DEF Has
      <3>2. CASE queries[1] # c
        <4>1. queries[1] \notin {c, "stop", "Q_BUSTYPE"}
          BY <1>5, <2>6, <3>2
        <4> QED BY <1>1, <2>5, <2>10, <4>1
      <3> QED BY <3>1, <3>2
    <2>11. SyncOwed'
      <3>1. "nonspi" \in buses' =>
              "O_INIT" \in ready' \/ Among({"O_INIT", "stop", "Q_BUSTYPE"}, queries')
        BY <2>1, <2>10 DEF SyncOwed, Owed
      <3>2. "S_PIN_STATE" \in peer'.map =>
              "S_PIN_STATE" \in ready' \/ Among({"S_PIN_STATE", "stop", "Q_BUSTYPE"}, queries')
        BY <1>1, <2>10 DEF SyncOwed, Owed
      <3> QED BY <2>7, <2>8, <2>9, <3>1, <3>2 DEF SyncOwed, Owed
    <2>12. ok \/ queries[1] \in Optional
      BY <1>5
    <2>13. buses' \in SUBSET AllBuses
      BY <1>1, <2>1
    <2>14. /\ syncpc' = "query" /\ queries' # FirstQueries
           /\ SyncFirst' /\ SyncInStep' /\ SyncLooking'
      BY <1>3, <2>2, <2>4, <2>11, <2>12, <2>13
    <2> QED BY <2>2, <2>11, <2>13, <2>14
  <1> QED BY <1>2, <1>4, <1>5

(* Query: a command is sent if the device has it.                           *)
LEMMA SyncByQuery ==
  ASSUME SyncInv, Query
  PROVE  SyncInv'
  <1>1. /\ syncpc = "query" /\ queries # << >> /\ Querying /\ toHost' = toHost
        /\ SyncTypes /\ SyncFirst /\ SyncInStep /\ SyncOwed
        /\ queries \in Seq(SyncCommands) /\ toPeer \in Seq(SyncCommands)
        /\ toHost \in Seq(SyncWords)
    BY DEF Query, In, SyncInv, SyncTypes
  <1>2. /\ peer' = peer /\ eats' = eats /\ told' = told /\ ready' = ready /\ tries' = tries
        /\ scanned' = scanned /\ lates' = lates /\ clean' = clean
    BY <1>1 DEF Querying
  <1>3. peer.map = peer.map /\ "stop" \notin peer.map /\ peer \in SyncDevices
    BY <1>1, SyncAssumption DEF SyncTypes
  <1>4. FirstQueries[1] = "Q_IFACE"
    BY DEF FirstQueries
  <1>5. queries[1] \in SyncCommands
    BY <1>1
  <1>6. CASE Available(queries[1])
    <2>1. Transmit(<< queries[1] >>) /\ syncpc' = "answer" /\ queries' = queries /\ buses' = buses
      BY <1>6 DEF Query
    <2>2. queries[1] # "stop"
      BY <1>3, <1>6 DEF Available
    <2>3. /\ toPeer' \in Seq(SyncCommands) /\ Len(toPeer') = Len(toPeer) + 1
          /\ \A k \in 1 .. Len(toPeer') :
               toPeer'[k] = IF k = Len(toPeer) + 1 THEN queries[1] ELSE toPeer[k]
          /\ toPeer = << >> => toPeer' = << queries[1] >>
      BY <1>1, <1>5, <2>1, SyncSends
    <2>4. SyncTypes'
      BY <1>1, <1>2, <2>1, <2>3 DEF SyncTypes
    <2>5. SyncLooking'
      BY <2>1 DEF SyncLooking, Looking
    <2>6. SyncFirst'
      <3> SUFFICES ASSUME queries = FirstQueries PROVE SyncFirst'
        BY <2>1 DEF SyncFirst
      <3>1. buses = {} /\ told = AllBuses /\ Greeted /\ NoVersion
        BY <1>1 DEF SyncFirst
      <3>2. ASSUME NEW k \in 1 .. Len(toPeer')
            PROVE  toPeer'[k] \in Greetings \/ (toPeer'[k] = "Q_IFACE" /\ k = Len(toPeer'))
        <4>1. CASE k = Len(toPeer) + 1
          BY <1>4, <2>3, <4>1
        <4>2. CASE k # Len(toPeer) + 1
          <5>1. k \in 1 .. Len(toPeer)
            BY <1>1, <2>3, <4>2
          <5> QED BY <2>3, <3>1, <4>2, <5>1 DEF Greeted
        <4> QED BY <4>1, <4>2
      <3>3. NoVersion'
        BY <1>1, <3>1 DEF NoVersion
      <3> QED BY <1>2, <2>1, <3>1, <3>2, <3>3 DEF SyncFirst
    <2>7. SyncInStep'
      <3> SUFFICES ASSUME queries # FirstQueries PROVE SyncInStep'
        BY <2>1 DEF SyncInStep
      <3>1. /\ eats = 0 /\ toPeer = << >> /\ toHost = << >>
            /\ \/ \A k \in 1 .. Len(queries) : queries[k] \in Early
               \/ \A k \in 1 .. Len(queries) : queries[k] \in Ordinary
        BY <1>1 DEF SyncInStep
      <3>2. toPeer' = << queries[1] >> /\ toHost' = << >>
        BY <1>1, <2>3, <3>1
      <3> QED BY <1>1, <1>2, <2>1, <2>2, <3>1, <3>2 DEF SyncInStep
    <2>8. SyncOwed'
      <3>1. BackToAll(queries)' /\ Owed("O_INIT")' = Owed("O_INIT")
            /\ Owed("S_PIN_STATE")' = Owed("S_PIN_STATE")
        BY <1>1, <1>2, <2>1 DEF SyncOwed, BackToAll, Owed
      <3> QED BY <1>1, <1>2, <2>1, <3>1 DEF SyncOwed
    <2>9. SyncClean'
      <3> SUFFICES ASSUME clean, lates = 0 PROVE SyncClean'
        BY <1>2 DEF SyncClean
      <3>1. eats = 0 /\ (queries = FirstQueries => toPeer = << >> /\ toHost = << >>)
        BY <1>1 DEF SyncClean, SyncInv, LineIdle
      <3> QED BY <1>1, <1>2, <1>4, <2>1, <2>3, <3>1 DEF SyncClean
    <2> QED BY <2>4, <2>5, <2>6, <2>7, <2>8, <2>9 DEF SyncInv
  <1>7. CASE ~Available(queries[1])
    <2>1. Outcome(queries[1], FALSE) /\ toPeer' = toPeer
      BY <1>7 DEF Query
    <2>2. queries[1] # "Q_IFACE" /\ queries # FirstQueries
      BY <1>4, <1>7 DEF Available
    <2>3. /\ eats = 0 /\ toPeer = << >> /\ toHost = << >>
          /\ \/ \A k \in 1 .. Len(queries) : queries[k] \in Early
             \/ \A k \in 1 .. Len(queries) : queries[k] \in Ordinary
      BY <1>1, <2>2 DEF SyncInStep
    <2>4. \/ \A k \in 2 .. Len(queries) : queries[k] \in Early
          \/ \A k \in 1 .. Len(queries) : queries[k] \in Ordinary
      BY <1>1, <2>3
    <2>5. /\ queries' \in Seq(SyncCommands) /\ buses' \in SUBSET AllBuses
          /\ syncpc' \in {"query", "failed"} /\ (syncpc' = "failed" => queries' = queries)
          /\ (syncpc' = "query" => queries' # FirstQueries)
          /\ SyncFirst' /\ SyncInStep' /\ SyncOwed' /\ SyncLooking'
      BY <1>1, <2>1, <2>3, <2>4, SyncGoesOn
    <2>6. SyncTypes'
      BY <1>1, <1>2, <2>1, <2>5 DEF SyncTypes
    <2>7. SyncClean'
      BY <1>1, <1>2, <2>2, <2>3, <2>5 DEF SyncClean
    <2> QED BY <2>5, <2>6, <2>7 DEF SyncInv
  <1> QED BY <1>6, <1>7

(* The answer that Told reads, behind its first byte.                       *)
LEMMA SyncPayload ==
  ASSUME toHost \in Seq(SyncWords), NEW n \in Nat, Len(toHost) > n
  PROVE  \A k \in 1 .. n : SubSeq(toHost, 2, 1 + n)[k] = toHost[k + 1]
  <1>1. \A k \in 2 .. 1 + n : toHost[k] \in SyncWords
    OBVIOUS
  <1>2. \A k \in 1 .. (1 + n) - 2 + 1 : SubSeq(toHost, 2, 1 + n)[k] = toHost[2 + k - 1]
    <2>1. 1 + n \in Int
      OBVIOUS
    <2> QED BY <1>1, <2>1, SubSeqProperties
  <1>3. ASSUME NEW k \in 1 .. n PROVE SubSeq(toHost, 2, 1 + n)[k] = toHost[k + 1]
    <2>1. k \in 1 .. (1 + n) - 2 + 1 /\ 2 + k - 1 = k + 1
      OBVIOUS
    <2> QED BY <1>2, <2>1
  <1> QED BY <1>3

(* Told: the first answer is believed only if it is one.                    *)
LEMMA SyncByToldFirst ==
  ASSUME SyncInv, Told, queries = FirstQueries
  PROVE  SyncInv'
  <1>1. /\ syncpc = "answer" /\ toHost # << >> /\ Querying /\ toPeer' = toPeer
        /\ SyncTypes /\ SyncFirst /\ SyncOwed /\ peer \in SyncDevices
        /\ toPeer \in Seq(SyncCommands) /\ toHost \in Seq(SyncWords)
    BY DEF Told, In, SyncInv, SyncTypes
  <1>2. /\ peer' = peer /\ eats' = eats /\ told' = told /\ ready' = ready /\ tries' = tries
        /\ scanned' = scanned /\ lates' = lates /\ clean' = clean
    BY <1>1 DEF Querying
  <1>3. Len(queries) = 3 /\ queries[1] = "Q_IFACE" /\ queries[2] \in Early
        /\ queries[3] \in Early /\ queries # << >>
    BY DEF FirstQueries, Early
  <1>4. Len(Payload("Q_IFACE")) = 2
    <2>1. "Q_IFACE" \in SyncCommands
      BY DEF SyncCommands
    <2> QED BY <1>1, <2>1, PeerSaysThat
  <1> DEFINE ack == toHost[1].byte = "ACK"
             right == ack /\ ("Q_IFACE" = "Q_IFACE" =>
                               \A k \in 1 .. 2 : SubSeq(toHost, 2, 1 + 2)[k].byte = "version-1")
  <1>5. /\ ack => Len(toHost) > 2
        /\ toHost' = SubSeq(toHost, IF ack THEN 2 + 2 ELSE 2, Len(toHost))
        /\ Outcome("Q_IFACE", right)
    <2>1. PICK c, n : c = queries[1] /\ n = Len(Payload(c))
      OBVIOUS
    <2>2. /\ ack => Len(toHost) > n
          /\ toHost' = SubSeq(toHost, IF ack THEN 2 + n ELSE 2, Len(toHost))
          /\ Outcome(c, ack /\ (c = "Q_IFACE" =>
                               \A k \in 1 .. n : SubSeq(toHost, 2, 1 + n)[k].byte = "version-1"))
      BY <2>1, Zenon DEF Told
    <2>3. c = "Q_IFACE" /\ n = 2
      BY <1>3, <1>4, <2>1
    <2> QED BY ONLY <2>2, <2>3, Zenon
  <1>6. ack => \A k \in 1 .. 2 : SubSeq(toHost, 2, 1 + 2)[k] = toHost[k + 1]
    BY <1>1, <1>5, SyncPayload
  <1>7. toHost' \in Seq(SyncWords)
    <2> DEFINE from == IF ack THEN 2 + 2 ELSE 2
    <2>1. from \in 1 .. Len(toHost) + 1
      <3>1. Len(toHost) \in Nat /\ Len(toHost) > 0
        BY <1>1
      <3> QED BY <1>5, <3>1
    <2>2. toHost' = SubSeq(toHost, from, Len(toHost))
      BY <1>5
    <2> HIDE DEF from
    <2> QED BY ONLY <1>1, <2>1, <2>2, Remainder
  <1>8. right => toHost[2].byte = "version-1" /\ toHost[3].byte = "version-1" /\ Len(toHost) > 2
    BY <1>5, <1>6
  <1>9. right => eats = 0 /\ toPeer = << >> /\ toHost' = << >>
    <2> SUFFICES ASSUME right PROVE eats = 0 /\ toPeer = << >> /\ toHost' = << >>
      OBVIOUS
    <2>1. 2 \in 1 .. Len(toHost) /\ 3 \in 1 .. Len(toHost) /\ toHost[2].byte = "version-1" /\ ack
      BY <1>1, <1>8
    <2>2. ~NoVersion
      BY <2>1 DEF NoVersion
    <2>3. /\ toPeer = << >> /\ eats = 0
          /\ \A k \in 1 .. Len(toHost) : toHost[k].byte = "version-1" => k >= Len(toHost) - 1
      BY <1>1, <2>2 DEF SyncFirst
    <2>4. 2 >= Len(toHost) - 1
      BY <2>1, <2>3
    <2>5. Len(toHost) = 3
      <3> DEFINE m == Len(toHost)
      <3>1. m \in Nat /\ m > 2 /\ 2 >= m - 1
        BY <1>1, <1>8, <2>4
      <3> HIDE DEF m, right, ack
      <3>2. m = 3
        BY ONLY <3>1
      <3> QED BY <3>2 DEF m
    <2>6. toHost' = SubSeq(toHost, 4, 3)
      BY <1>5, <2>1, <2>5
    <2>7. toHost' = << >>
      <3>1. 4 \in Int /\ 3 \in Int /\ 3 < 4
        OBVIOUS
      <3> QED BY <2>6, <3>1, SubSeqEmpty
    <2> QED BY <2>3, <2>7
  <1>10. clean /\ lates = 0 => eats = 0 /\ (right \/ peer.version # "version-1")
    <2> SUFFICES ASSUME clean, lates = 0 PROVE eats = 0 /\ (right \/ peer.version # "version-1")
      OBVIOUS
    <2>1. eats = 0 /\ Len(toHost) = 3 /\ toHost[1].byte = "ACK" /\ toHost[2].byte = peer.version
          /\ toHost[3].byte = peer.version
      BY <1>1 DEF SyncClean, SyncInv
    <2>2. \A k \in 1 .. 2 : SubSeq(toHost, 2, 1 + 2)[k].byte = peer.version
      BY <1>6, <2>1
    <2> QED BY <2>1, <2>2
  <1>11. syncpc' = "query" => right
    <2>1. "Q_IFACE" \notin Optional
      BY DEF Optional
    <2> HIDE DEF right
    <2> QED BY <1>5, <2>1 DEF Outcome
  <1> HIDE DEF ack
  <1>12. right \in BOOLEAN
    OBVIOUS
  <1> HIDE DEF right
  <1>13. /\ queries' \in Seq(SyncCommands) /\ buses' \in SUBSET AllBuses
         /\ syncpc' \in {"query", "failed"} /\ (syncpc' = "failed" => ~right /\ queries' = queries)
         /\ (syncpc' = "query" => queries' # FirstQueries)
         /\ SyncFirst' /\ SyncInStep' /\ SyncOwed' /\ SyncLooking'
    <2>1. \A k \in 2 .. Len(queries) : queries[k] \in Early
      BY <1>3
    <2>2. Has(queries[1]) /\ queries[1] # "stop"
      BY <1>3 DEF Has
    <2>3. syncpc' = "query" => eats = 0 /\ toPeer' = << >> /\ toHost' = << >>
      BY <1>1, <1>9, <1>11
    <2>4. Outcome(queries[1], right)
      BY <1>3, <1>5
    <2> QED BY <1>1, <1>3, <1>12, <2>1, <2>2, <2>3, <2>4, SyncGoesOn
  <1>14. SyncTypes'
    BY <1>1, <1>2, <1>7, <1>13 DEF SyncTypes
  <1>15. SyncClean'
    BY <1>2, <1>3, <1>10, <1>13 DEF SyncClean
  <1> QED BY <1>13, <1>14, <1>15 DEF SyncInv

(* Then the answer is all there is on the line.                             *)
LEMMA SyncByToldNext ==
  ASSUME SyncInv, Told, queries # FirstQueries
  PROVE  SyncInv'
  <1>1. /\ syncpc = "answer" /\ toHost # << >> /\ Querying /\ toPeer' = toPeer
        /\ SyncTypes /\ SyncInStep /\ SyncOwed /\ peer \in SyncDevices
        /\ toPeer \in Seq(SyncCommands) /\ toHost \in Seq(SyncWords)
        /\ queries \in Seq(SyncCommands)
    BY DEF Told, In, SyncInv, SyncTypes
  <1>2. /\ peer' = peer /\ eats' = eats /\ told' = told /\ ready' = ready /\ tries' = tries
        /\ scanned' = scanned /\ lates' = lates /\ clean' = clean
    BY <1>1 DEF Querying
  <1> DEFINE c == queries[1]
             n == Len(Payload(c))
             ack == toHost[1].byte = "ACK"
  <1>3. /\ eats = 0 /\ queries # << >> /\ c # "stop" /\ toPeer = << >> /\ toHost = ReplyTo(c)
        /\ c \notin peer.refuses => Has(c)
        /\ \/ \A k \in 1 .. Len(queries) : queries[k] \in Early
           \/ \A k \in 1 .. Len(queries) : queries[k] \in Ordinary
    BY <1>1 DEF SyncInStep
  <1>4. c \in Early \cup Ordinary
    <2>1. 1 \in 1 .. Len(queries)
      BY <1>1, <1>3
    <2> QED BY <1>3, <2>1
  <1>5. c \in SyncCommands /\ c # "Q_IFACE" /\ c # "SYNCNOP"
    BY <1>4 DEF SyncCommands, Early, Ordinary
  <1>6. /\ toHost' = SubSeq(toHost, IF ack THEN 2 + n ELSE 2, Len(toHost))
        /\ Outcome(c, ack)
    <2>1. Outcome(c, ack /\ (c = "Q_IFACE" => \A k \in 1 .. n :
                                                SubSeq(toHost, 2, 1 + n)[k].byte = "version-1"))
          /\ toHost' = SubSeq(toHost, IF ack THEN 2 + n ELSE 2, Len(toHost))
      BY DEF Told
    <2>2. (ack /\ (c = "Q_IFACE" => \A k \in 1 .. n :
                                      SubSeq(toHost, 2, 1 + n)[k].byte = "version-1")) = ack
      BY <1>5
    <2> QED BY <2>1, <2>2
  <1> HIDE DEF c
  <1>7. /\ n \in Nat /\ Len(toHost) = Len(PeerSays(c)) /\ Len(toHost) \in Nat
        /\ \A k \in 1 .. Len(PeerSays(c)) : toHost[k].byte = PeerSays(c)[k]
    BY <1>1, <1>3, <1>5, PeerSaysThat, ReplyIs
  <1>8. /\ c \in peer.refuses => ~ack /\ Len(toHost) = 1
        /\ c \notin peer.refuses => ack /\ Len(toHost) = 1 + n
    <2>1. /\ c \in peer.refuses => Len(PeerSays(c)) = 1 /\ PeerSays(c)[1] = "NAK"
          /\ c \notin peer.refuses => Len(PeerSays(c)) = 1 + n /\ PeerSays(c)[1] = "ACK"
      BY <1>1, <1>5, PeerSaysThat
    <2>2. toHost[1].byte = PeerSays(c)[1]
      BY <1>7, <2>1
    <2> QED BY <1>7, <2>1, <2>2
  <1>9. toHost' = << >>
    <2> DEFINE from == IF ack THEN 2 + n ELSE 2
    <2>1. from \in Int /\ Len(toHost) \in Int /\ Len(toHost) < from
      BY <1>7, <1>8
    <2>2. toHost' = SubSeq(toHost, from, Len(toHost))
      BY <1>6
    <2> HIDE DEF from
    <2> QED BY <2>1, <2>2, SubSeqEmpty
  <1>10. ack \in BOOLEAN
    OBVIOUS
  <1> HIDE DEF ack
  <1>11. /\ queries' \in Seq(SyncCommands) /\ buses' \in SUBSET AllBuses
         /\ syncpc' \in {"query", "failed"} /\ (syncpc' = "failed" => queries' = queries)
         /\ (syncpc' = "query" => queries' # FirstQueries)
         /\ SyncFirst' /\ SyncInStep' /\ SyncOwed' /\ SyncLooking'
    <2>1. ack => Has(queries[1]) /\ queries[1] # "stop"
      BY <1>3, <1>8 DEF c
    <2>2. Outcome(queries[1], ack)
      BY <1>6 DEF c
    <2>3. \/ \A k \in 2 .. Len(queries) : queries[k] \in Early
          \/ \A k \in 1 .. Len(queries) : queries[k] \in Ordinary
      BY <1>1, <1>3
    <2>4. toPeer' = << >>
      BY <1>1, <1>3
    <2> QED BY <1>1, <1>3, <1>9, <1>10, <2>1, <2>2, <2>3, <2>4, SyncGoesOn
  <1>12. toHost' \in Seq(SyncWords)
    BY <1>9
  <1>13. SyncTypes'
    BY <1>1, <1>2, <1>11, <1>12 DEF SyncTypes
  <1>14. SyncClean'
    BY <1>2, <1>3, <1>5, <1>11 DEF SyncClean, c
  <1> QED BY <1>11, <1>13, <1>14 DEF SyncInv

(* InitDone                                                                 *)
LEMMA SyncByInitDone ==
  ASSUME SyncInv, InitDone
  PROVE  SyncInv'
  <1>1. /\ syncpc = "query" /\ queries = << >> /\ syncpc' = "done" /\ toPeer' = toPeer
        /\ toHost' = toHost
        /\ queries' = queries /\ buses' = buses /\ Querying
    BY DEF InitDone, In
  <1>2. /\ peer' = peer /\ eats' = eats /\ told' = told /\ ready' = ready /\ tries' = tries
        /\ scanned' = scanned /\ lates' = lates /\ clean' = clean
    BY <1>1 DEF Querying
  <1>3. queries # FirstQueries
    <2>1. Len(FirstQueries) = 3
      BY DEF FirstQueries
    <2>2. Len(queries) = 0
      BY <1>1
    <2> QED BY <2>1, <2>2
  <1>4. SyncTypes'
    BY <1>1, <1>2 DEF SyncInv, SyncTypes
  <1>5. SyncLooking' /\ SyncFirst'
    BY <1>1 DEF SyncLooking, SyncFirst, Looking
  <1>6. SyncInStep'
    BY <1>1, <1>2, <1>3 DEF SyncInv, SyncInStep
  <1>7. SyncOwed'
    <2>1. SyncOwed
      BY DEF SyncInv
    <2> QED BY <1>1, <1>2, <2>1 DEF SyncOwed, Owed, BackToAll, Among
  <1>8. SyncClean'
    BY <1>1, <1>2 DEF SyncInv, SyncClean
  <1> QED BY <1>4, <1>5, <1>6, <1>7, <1>8 DEF SyncInv


(* The answer to a NOP has no byte but ACK and NAK.                         *)
LEMMA GreetingIs ==
  ASSUME peer \in SyncDevices, NEW c \in Greetings
  PROVE  /\ \A k \in 1 .. Len(PeerSays(c)) : PeerSays(c)[k] \in {"ACK", "NAK"}
         /\ c = "NOP" => Len(PeerSays(c)) = 1 /\ PeerSays(c)[1] = "ACK"
  <1>1. c \in SyncCommands /\ (c = "SYNCNOP" \/ c = "NOP")
    BY DEF SyncCommands, Greetings
  <1>2. CASE c = "SYNCNOP"
    <2>1. Len(PeerSays(c)) = 2 /\ PeerSays(c)[1] = "NAK" /\ PeerSays(c)[2] = "ACK"
      BY <1>1, <1>2, PeerSaysThat
    <2> QED BY <1>2, <2>1
  <1>3. CASE c = "NOP"
    <2>1. c # "SYNCNOP" /\ c \notin peer.refuses
      BY <1>3, SyncAssumption
    <2>2. Len(PeerSays(c)) = 1 + Len(Payload(c)) /\ PeerSays(c)[1] = "ACK" /\ Len(Payload(c)) = 0
      BY <1>1, <2>1, PeerSaysThat
    <2> QED BY <2>2
  <1> QED BY <1>1, <1>2, <1>3

(* PeerEats: a device that is found has taken all parameters.               *)
LEMMA SyncByPeerEats ==
  ASSUME SyncInv, PeerEats
  PROVE  SyncInv'
  <1>1. /\ toPeer # << >> /\ eats > 0 /\ eats' = eats - 1 /\ toPeer' = Tail(toPeer)
        /\ SyncTypes /\ SyncLooking /\ SyncFirst /\ SyncInStep /\ SyncOwed /\ SyncClean
        /\ peer' = peer /\ told' = told /\ ready' = ready /\ tries' = tries /\ scanned' = scanned
        /\ queries' = queries /\ buses' = buses /\ syncpc' = syncpc /\ lates' = lates
        /\ clean' = clean
    BY DEF PeerEats, SyncInv
  <1>2. toPeer \in Seq(SyncCommands) /\ toHost \in Seq(SyncWords) /\ eats \in Nat
    BY <1>1 DEF SyncTypes
  <1>3. /\ toPeer' \in Seq(SyncCommands) /\ Len(toPeer') = Len(toPeer) - 1
        /\ \A k \in 1 .. Len(toPeer') : toPeer'[k] = toPeer[k + 1]
    BY <1>1, <1>2, HeadTailProperties
  <1>4. \A k \in 1 .. Len(toPeer') : k + 1 \in 1 .. Len(toPeer)
    BY <1>2, <1>3
  <1>5. toHost' \in Seq(SyncWords) /\ (NoVersion => NoVersion')
    <2>1. CASE toHost' = toHost
      BY <1>2, <2>1 DEF NoVersion
    <2>2. ASSUME NEW b \in {"ACK", "NAK"}, toHost' = Append(toHost, Tagged(b, "earlier"))
          PROVE  toHost' \in Seq(SyncWords) /\ (NoVersion => NoVersion')
      <3> DEFINE w == Tagged(b, "earlier")
      <3>1. w \in SyncWords /\ w.byte # "version-1"
        BY DEF Tagged, SyncWords, SyncReplies
      <3>2. toHost' = Append(toHost, w)
        BY <2>2
      <3> HIDE DEF w
      <3>3. /\ toHost' \in Seq(SyncWords) /\ Len(toHost') = Len(toHost) + 1
            /\ \A k \in 1 .. Len(toHost) : toHost'[k] = toHost[k]
            /\ toHost'[Len(toHost) + 1] = w
        BY <1>2, <3>1, <3>2, AppendProperties
      <3>4. ASSUME NoVersion, NEW k \in 1 .. Len(toHost') PROVE toHost'[k].byte # "version-1"
        <4>1. k \in 1 .. Len(toHost) \/ k = Len(toHost) + 1
          BY <1>2, <3>3
        <4> QED BY <3>1, <3>3, <3>4, <4>1 DEF NoVersion
      <3> QED BY <3>3, <3>4 DEF NoVersion
    <2> QED BY <2>1, <2>2 DEF PeerEats
  <1>6. SyncTypes'
    BY <1>1, <1>2, <1>3, <1>5 DEF SyncTypes
  <1>7. Greeted => Greeted'
    BY <1>3, <1>4 DEF Greeted
  <1>8. SyncLooking'
    BY <1>1, <1>5, <1>7 DEF SyncLooking
  <1>9. SyncFirst'
    <2> SUFFICES ASSUME syncpc \in {"query", "answer"}, queries = FirstQueries PROVE SyncFirst'
      BY <1>1 DEF SyncFirst
    <2>1. /\ buses = {} /\ told = AllBuses /\ NoVersion
          /\ \/ syncpc = "query" /\ Greeted
             \/ /\ syncpc = "answer"
                /\ \A k \in 1 .. Len(toPeer) :
                     toPeer[k] \in Greetings \/ (toPeer[k] = "Q_IFACE" /\ k = Len(toPeer))
      BY <1>1 DEF SyncFirst
    <2>2. ASSUME \A k \in 1 .. Len(toPeer) :
                   toPeer[k] \in Greetings \/ (toPeer[k] = "Q_IFACE" /\ k = Len(toPeer)),
                 NEW k \in 1 .. Len(toPeer')
          PROVE  toPeer'[k] \in Greetings \/ (toPeer'[k] = "Q_IFACE" /\ k = Len(toPeer'))
      <3>1. toPeer[k + 1] \in Greetings \/ (toPeer[k + 1] = "Q_IFACE" /\ k + 1 = Len(toPeer))
        BY <1>4, <2>2
      <3>2. toPeer'[k] = toPeer[k + 1] /\ (k + 1 = Len(toPeer) => k = Len(toPeer'))
        BY <1>2, <1>3
      <3> QED BY <3>1, <3>2
    <2> QED BY <1>1, <1>5, <1>7, <2>1, <2>2 DEF SyncFirst
  <1>10. SyncInStep'
    <2>1. ~(syncpc = "done" \/ (syncpc \in {"query", "answer"} /\ queries # FirstQueries))
      BY <1>1, <1>2 DEF SyncInStep
    <2> QED BY <1>1, <2>1 DEF SyncInStep
  <1>11. SyncOwed'
    BY <1>1 DEF SyncOwed, Owed, BackToAll, Among
  <1>12. SyncClean'
    <2>1. ~(clean /\ lates = 0)
      BY <1>1, <1>2 DEF SyncClean
    <2> QED BY <1>1, <2>1 DEF SyncClean
  <1> QED BY <1>6, <1>8, <1>9, <1>10, <1>11, <1>12 DEF SyncInv

(* What a device answers that is there, idle and in time.                   *)
LEMMA CleanByPeerAnswers ==
  ASSUME SyncInv, PeerAnswers
  PROVE  SyncClean'
  <1> SUFFICES ASSUME clean', lates' = 0 PROVE SyncClean'
    BY DEF SyncClean
  <1>1. /\ eats = 0 /\ eats' = eats /\ peer' = peer /\ tries' = tries /\ scanned' = scanned
        /\ queries' = queries /\ syncpc' = syncpc /\ clean /\ lates = 0
        /\ SyncTypes /\ SyncClean
    BY DEF PeerAnswers, SyncInv
  <1> DEFINE c == toPeer[1]
             h == Len(toHost)
             p == Len(toPeer)
             a == PeerSays(c)
  <1>2. /\ peer \in SyncDevices /\ toPeer # << >> /\ c \in SyncCommands
        /\ toPeer' \in Seq(SyncCommands) /\ Len(toPeer') = p - 1
        /\ toHost' \in Seq(SyncWords) /\ Len(toHost') = h + Len(a)
    BY <1>1, PeerReplies DEF SyncTypes
  <1>15. /\ \A k \in 1 .. Len(toPeer') : toPeer'[k] = toPeer[k + 1]
         /\ \A k \in 1 .. Len(toHost') :
              toHost'[k].byte = IF k <= h THEN toHost[k].byte ELSE a[k - h]
    BY <1>1, PeerReplies
  <1>3. h \in Nat /\ p \in Nat /\ p > 0 /\ scanned \in Nat /\ Nops \in Nat
    BY <1>1, <1>2, SyncAssumption DEF SyncTypes
  <1>4. c = "NOP" => Len(a) = 1 /\ a[1] = "ACK"
    BY <1>2, GreetingIs DEF Greetings
  <1>5. c = "SYNCNOP" => Len(a) = 2 /\ a[1] = "NAK" /\ a[2] = "ACK"
    BY <1>2, PeerSaysThat
  <1>6. c = "Q_IFACE" => Len(a) = 3 /\ a[1] = "ACK" /\ a[2] = peer.version /\ a[3] = peer.version
    <2> SUFFICES ASSUME c = "Q_IFACE"
                 PROVE  Len(a) = 3 /\ a[1] = "ACK" /\ a[2] = peer.version /\ a[3] = peer.version
      OBVIOUS
    <2>1. c \notin peer.refuses /\ c # "SYNCNOP"
      BY <1>2, SyncAssumption
    <2> DEFINE q == Payload(c)
    <2>2. /\ Len(q) = 2 /\ \A k \in 1 .. 2 : q[k] = peer.version
          /\ Len(a) = 1 + Len(q) /\ a[1] = "ACK" /\ \A k \in 2 .. Len(a) : a[k] = q[k - 1]
      <3>1. /\ Len(q) = 2 /\ Len(a) = 1 + Len(q) /\ a[1] = "ACK"
            /\ \A k \in 2 .. Len(a) : a[k] = q[k - 1]
            /\ \A k \in 1 .. Len(q) : q[k] = IF c = "Q_IFACE" THEN peer.version ELSE "value"
        BY <1>2, <2>1, PeerSaysThat
      <3> QED BY <3>1
    <2> HIDE DEF q, a, c
    <2>3. a[2] = q[1] /\ a[3] = q[2]
      BY <2>2
    <2> QED BY <2>2, <2>3
  <1> HIDE DEF c, a
  <1>7. p = 1 => toPeer' = << >>
    BY <1>2
  <1>8. toPeer[1] = c
    BY DEF c
  <1>9. ASSUME syncpc \in {"flush", "try"}
        PROVE  /\ Acks(Len(toHost))' /\ (\A k \in 1 .. Len(toPeer') : toPeer'[k] = "NOP")
               /\ Len(toHost') + Len(toPeer') <= Nops /\ tries' = 0
    <2>1. /\ Acks(h) /\ (\A k \in 1 .. p : toPeer[k] = "NOP") /\ h + p <= Nops /\ tries = 0
      BY <1>1, <1>9 DEF SyncClean
    <2>2. c = "NOP"
      BY <1>3, <1>8, <2>1
    <2>3. ASSUME NEW k \in 1 .. Len(toHost') PROVE toHost'[k].byte = "ACK"
      <3>1. k <= h \/ k = h + 1
        <4>1. Len(a) = 1
          BY <1>4, <2>2
        <4> QED BY <1>2, <1>3, <4>1
      <3>2. CASE k <= h
        BY <1>3, <1>15, <2>1, <3>2 DEF Acks
      <3>3. CASE k = h + 1
        <4>1. ~(k <= h) /\ k - h = 1
          BY <1>3, <3>3
        <4> QED BY <1>4, <1>15, <2>2, <4>1
      <3> QED BY <3>1, <3>2, <3>3
    <2>4. ASSUME NEW k \in 1 .. Len(toPeer') PROVE toPeer'[k] = "NOP"
      BY <1>2, <1>3, <1>15, <2>1
    <2>5. Len(toHost') + Len(toPeer') <= Nops
      <3>1. h + p <= Nops /\ Len(a) = 1
        BY <1>4, <2>1, <2>2
      <3> QED BY <1>2, <1>3, <3>1
    <2> QED BY <1>1, <2>1, <2>3, <2>4, <2>5 DEF Acks
  <1>10. ASSUME syncpc = "scan"
         PROVE  \/ /\ Acks(Len(toHost))' /\ Len(toPeer') > 0
                   /\ \A k \in 1 .. Len(toPeer') :
                        toPeer'[k] = IF k = Len(toPeer') THEN "SYNCNOP" ELSE "NOP"
                   /\ Len(toHost') + Len(toPeer') - 1 + scanned' <= Nops
                \/ /\ toPeer' = << >> /\ Len(toHost') > 1 /\ Acks(Len(toHost) - 2)'
                   /\ toHost'[Len(toHost') - 1].byte = "NAK" /\ toHost'[Len(toHost')].byte = "ACK"
                   /\ Len(toHost') - 2 + scanned' <= Nops
    <2>1. /\ Acks(h) /\ \A k \in 1 .. p : toPeer[k] = IF k = p THEN "SYNCNOP" ELSE "NOP"
          /\ h + p - 1 + scanned <= Nops
      BY <1>1, <1>2, <1>10 DEF SyncClean
    <2>2. CASE p = 1
      <3>1. c = "SYNCNOP"
        BY <1>8, <2>1, <2>2
      <3>2. Len(toHost') = h + 2 /\ Len(toHost') - 2 = h
        <4>1. Len(a) = 2
          BY <1>5, <3>1
        <4> QED BY <1>2, <1>3, <4>1
      <3>3. toHost'[h + 1].byte = "NAK" /\ toHost'[h + 2].byte = "ACK"
        <4>1. h + 1 \in 1 .. Len(toHost') /\ h + 2 \in 1 .. Len(toHost') /\ ~(h + 1 <= h)
              /\ ~(h + 2 <= h)
              /\ h + 1 - h = 1 /\ h + 2 - h = 2
          BY <1>3, <3>2
        <4>2. toHost'[h + 1].byte = a[h + 1 - h] /\ toHost'[h + 2].byte = a[h + 2 - h]
          BY <1>15, <4>1
        <4> QED BY <1>5, <3>1, <4>1, <4>2
      <3>4. ASSUME NEW k \in 1 .. Len(toHost') - 2 PROVE toHost'[k].byte = "ACK"
        BY <1>3, <1>15, <2>1, <3>2 DEF Acks
      <3>5. Len(toHost') - 2 + scanned' <= Nops /\ Len(toHost') - 1 = h + 1 /\ Len(toHost') > 1
        BY <1>1, <1>3, <2>1, <2>2, <3>2
      <3>6. Acks(Len(toHost) - 2)'
        BY <3>4 DEF Acks
      <3> QED BY <1>7, <2>2, <3>2, <3>3, <3>5, <3>6
    <2>3. CASE p # 1
      <3>1. c = "NOP"
        BY <1>3, <1>8, <2>1, <2>3
      <3>2. ASSUME NEW k \in 1 .. Len(toHost') PROVE toHost'[k].byte = "ACK"
        <4>1. k <= h \/ k = h + 1
          <5>1. Len(a) = 1
            BY <1>4, <3>1
          <5> QED BY <1>2, <1>3, <5>1
        <4>2. CASE k <= h
          BY <1>3, <1>15, <2>1, <4>2 DEF Acks
        <4>3. CASE k = h + 1
          <5>1. ~(k <= h) /\ k - h = 1
            BY <1>3, <4>3
          <5> QED BY <1>4, <1>15, <3>1, <5>1
        <4> QED BY <4>1, <4>2, <4>3
      <3>3. ASSUME NEW k \in 1 .. Len(toPeer')
            PROVE  toPeer'[k] = IF k = Len(toPeer') THEN "SYNCNOP" ELSE "NOP"
        BY <1>2, <1>3, <1>15, <2>1
      <3>4. Len(toHost') + Len(toPeer') - 1 + scanned' <= Nops /\ Len(toPeer') > 0
        <4>1. h + p - 1 + scanned <= Nops /\ Len(a) = 1 /\ scanned' = scanned
          BY <1>1, <1>4, <2>1, <3>1
        <4>2. Len(toHost') = h + 1 /\ Len(toPeer') = p - 1
          BY <1>2, <4>1
        <4>3. p - 1 > 0
          <5>1. \A q \in Nat : q > 0 /\ q # 1 => q - 1 > 0
            OBVIOUS
          <5> QED BY ONLY <1>3, <2>3, <5>1
        <4> QED BY <1>3, <4>1, <4>2, <4>3
      <3>5. Acks(Len(toHost))'
        BY <3>2 DEF Acks
      <3> QED BY <3>3, <3>4, <3>5
    <2> QED BY <2>2, <2>3
  <1>11. syncpc \notin {"start", "nak", "confirm-ack"} /\ ~(syncpc = "query"
         /\ queries = FirstQueries)
    BY <1>1, <1>2 DEF SyncClean, LineIdle
  <1>12. ASSUME syncpc = "confirm"
         PROVE  /\ toPeer' = << >> /\ Len(toHost') = 2
                /\ toHost'[1].byte = "NAK" /\ toHost'[2].byte = "ACK"
    <2>1. toPeer = << "SYNCNOP" >> /\ toHost = << >>
      BY <1>1, <1>2, <1>12 DEF SyncClean
    <2>2. p = 1 /\ h = 0 /\ c = "SYNCNOP"
      BY <1>8, <2>1
    <2> QED BY <1>2, <1>5, <1>7, <1>15, <2>2
  <1>13. ASSUME syncpc = "answer", queries = FirstQueries
         PROVE  /\ toPeer' = << >> /\ Len(toHost') = 3 /\ toHost'[1].byte = "ACK"
                /\ toHost'[2].byte = peer.version /\ toHost'[3].byte = peer.version
    <2>1. toPeer = << "Q_IFACE" >> /\ toHost = << >>
      BY <1>1, <1>2, <1>13 DEF SyncClean
    <2>2. p = 1 /\ h = 0 /\ c = "Q_IFACE"
      BY <1>8, <2>1
    <2> QED BY <1>2, <1>6, <1>7, <1>15, <2>2
  <1>14. syncpc = "failed" =>
           queries # << >> /\ (queries[1] = "Q_IFACE" => peer.version # "version-1")
    BY <1>1 DEF SyncClean
  <1> HIDE DEF h, p
  <1> QED BY <1>1, <1>9, <1>10, <1>11, <1>12, <1>13, <1>14 DEF SyncClean

(* The reply to a command, as long as the device stays the same.            *)
LEMMA ReplyStays ==
  ASSUME peer' = peer, queries' = queries
  PROVE  ReplyTo(queries[1])' = ReplyTo(queries[1])
  BY DEF ReplyTo, PeerSays, Payload, Tagged

(* PeerAnswers: what is answered belongs to what was asked, and does what   *)
(* it was asked for.                                                        *)
LEMMA SyncByPeerAnswers ==
  ASSUME SyncInv, PeerAnswers
  PROVE  SyncInv'
  <1>1. /\ eats = 0 /\ eats' = eats /\ peer' = peer /\ tries' = tries /\ scanned' = scanned
        /\ queries' = queries /\ buses' = buses /\ syncpc' = syncpc /\ lates' = lates
        /\ clean' = clean
        /\ SyncTypes /\ SyncLooking /\ SyncFirst /\ SyncInStep /\ SyncOwed
        /\ toPeer \in Seq(SyncCommands) /\ toHost \in Seq(SyncWords)
        /\ queries \in Seq(SyncCommands)
    BY DEF PeerAnswers, SyncInv, SyncTypes
  <1> DEFINE c == toPeer[1]
             h == Len(toHost)
             a == PeerSays(c)
  <1>2. /\ peer \in SyncDevices /\ toPeer # << >> /\ c \in SyncCommands
        /\ toPeer' \in Seq(SyncCommands) /\ Len(toPeer') = Len(toPeer) - 1
        /\ toHost' \in Seq(SyncWords) /\ Len(toHost') = h + Len(a)
        /\ toHost' = toHost \o ReplyTo(c)
    BY <1>1, PeerReplies DEF SyncTypes
  <1>3. /\ \A k \in 1 .. Len(toPeer') : toPeer'[k] = toPeer[k + 1]
        /\ \A k \in 1 .. Len(toHost') :
             toHost'[k].byte = IF k <= h THEN toHost[k].byte ELSE a[k - h]
    BY <1>1, PeerReplies
  <1>4. /\ told' = (IF c \in peer.refuses THEN told ELSE Bus(c))
        /\ ready' = (IF c \in {"O_INIT", "S_PIN_STATE"} \ peer.refuses
                     THEN ready \cup {c} ELSE ready)
    BY DEF PeerAnswers
  <1>5. Len(toPeer) \in Nat /\ h \in Nat /\ Len(a) \in Nat /\ 1 \in 1 .. Len(toPeer)
    <2>1. a \in Seq(SyncReplies)
      BY <1>2, PeerSaysThat
    <2> QED BY <1>1, <1>2, <2>1
  <1>6. \A k \in 1 .. Len(toPeer') : k + 1 \in 1 .. Len(toPeer)
    BY <1>2, <1>5
  <1>7. toPeer[1] = c
    BY DEF c
  <1> HIDE DEF c, a, h
  <1>8. SyncTypes'
    BY <1>1, <1>2 DEF SyncTypes
  <1>9. ASSUME c \in Greetings \cup {"Q_IFACE"}
        PROVE  told' = told /\ ready' = ready
    BY <1>4, <1>9 DEF Bus, Greetings
  <1>10. ASSUME Greeted PROVE Greeted'
    BY <1>3, <1>6, <1>10 DEF Greeted
  <1>11. ASSUME NoVersion, c \in Greetings PROVE NoVersion'
    <2> SUFFICES ASSUME NEW k \in 1 .. Len(toHost') PROVE toHost'[k].byte # "version-1"
      BY DEF NoVersion
    <2>1. CASE k <= h
      <3>1. k \in 1 .. Len(toHost)
        BY <1>5, <2>1 DEF h
      <3> QED BY <1>3, <1>11, <2>1, <3>1 DEF NoVersion
    <2>2. CASE ~(k <= h)
      <3>1. k - h \in 1 .. Len(a)
        BY <1>2, <1>5, <2>2
      <3>2. a[k - h] \in {"ACK", "NAK"}
        BY <1>2, <1>11, <3>1, GreetingIs DEF a
      <3> QED BY <1>3, <2>2, <3>2
    <2> QED BY <2>1, <2>2
  <1>12. SyncLooking'
    <2> SUFFICES ASSUME syncpc \in Looking PROVE SyncLooking'
      BY <1>1 DEF SyncLooking
    <2>1. queries = << >> /\ buses = {} /\ told = AllBuses /\ Greeted /\ NoVersion
      BY <1>1 DEF SyncLooking
    <2>2. c \in Greetings
      BY <1>5, <1>7, <2>1 DEF Greeted
    <2> QED BY <1>1, <1>9, <1>10, <1>11, <2>1, <2>2 DEF SyncLooking
  <1>13. SyncFirst'
    <2> SUFFICES ASSUME syncpc \in {"query", "answer"}, queries = FirstQueries PROVE SyncFirst'
      BY <1>1 DEF SyncFirst
    <2>1. /\ buses = {} /\ told = AllBuses /\ NoVersion
          /\ \/ syncpc = "query" /\ Greeted
             \/ /\ syncpc = "answer"
                /\ \A k \in 1 .. Len(toPeer) :
                     toPeer[k] \in Greetings \/ (toPeer[k] = "Q_IFACE" /\ k = Len(toPeer))
      BY <1>1, <1>2 DEF SyncFirst
    <2>2. CASE c \in Greetings
      <3>1. told' = told /\ NoVersion'
        BY <1>9, <1>11, <2>1, <2>2
      <3>2. CASE syncpc = "query" /\ Greeted
        BY <1>1, <1>10, <2>1, <3>1, <3>2 DEF SyncFirst
      <3>3. CASE /\ syncpc = "answer"
                 /\ \A k \in 1 .. Len(toPeer) :
                      toPeer[k] \in Greetings \/ (toPeer[k] = "Q_IFACE" /\ k = Len(toPeer))
        <4>1. ASSUME NEW k \in 1 .. Len(toPeer')
              PROVE  toPeer'[k] \in Greetings \/ (toPeer'[k] = "Q_IFACE" /\ k = Len(toPeer'))
          <5>1. toPeer[k + 1] \in Greetings \/ (toPeer[k + 1] = "Q_IFACE" /\ k + 1 = Len(toPeer))
            BY <1>6, <3>3
          <5>2. toPeer'[k] = toPeer[k + 1]
            BY <1>3
          <5>3. k + 1 = Len(toPeer) => k = Len(toPeer')
            BY <1>2, <1>5
          <5> QED BY <5>1, <5>2, <5>3
        <4> QED BY <1>1, <2>1, <3>1, <3>3, <4>1 DEF SyncFirst
      <3> QED BY <2>1, <3>2, <3>3
    <2>3. CASE c \notin Greetings
      <3>1. syncpc = "answer" /\ c = "Q_IFACE" /\ Len(toPeer) = 1
        <4>1. syncpc = "answer"
          BY <1>5, <1>7, <2>1, <2>3 DEF Greeted
        <4> QED BY <1>5, <1>7, <2>1, <2>3, <4>1 DEF Greeted
      <3>2. toPeer' = << >>
        <4>1. Len(toPeer') = 0
          BY <1>2, <3>1
        <4> QED BY <1>2, <4>1
      <3>3. told' = told
        BY <1>9, <3>1
      <3>4. c \notin peer.refuses /\ c # "SYNCNOP"
        BY <1>2, <3>1, SyncAssumption
      <3>5. Len(a) = 1 + Len(Payload(c)) /\ a[1] = "ACK" /\ Len(Payload(c)) = 2
        BY <1>2, <3>1, <3>4, PeerSaysThat DEF a
      <3>6. ASSUME NEW k \in 1 .. Len(toHost'), toHost'[k].byte = "version-1"
            PROVE  k >= Len(toHost') - 1
        <4>1. Len(a) = 3
          BY <3>5
        <4>2. ~(k <= h)
          <5> SUFFICES ASSUME k <= h PROVE FALSE
            OBVIOUS
          <5>1. k \in 1 .. Len(toHost) /\ toHost'[k].byte = toHost[k].byte
            BY <1>3, <1>5 DEF h
          <5> QED BY <2>1, <3>6, <5>1 DEF NoVersion
        <4>3. toHost'[k].byte = a[k - h]
          BY <1>3, <4>2
        <4>4. k - h # 1
          BY <3>5, <3>6, <4>3
        <4>5. Len(toHost') = h + 3
          BY <1>2, <4>1
        <4> QED BY <1>5, <4>2, <4>4, <4>5
      <3> QED BY <1>1, <2>1, <3>1, <3>2, <3>3, <3>6 DEF SyncFirst
    <2> QED BY <2>2, <2>3
  <1>14. ASSUME syncpc = "done" \/ (syncpc \in {"query", "answer"} /\ queries # FirstQueries)
         PROVE  SyncInStep' /\ SyncOwed'
    <2>1. /\ syncpc = "answer" /\ queries # << >> /\ queries[1] # "stop"
          /\ toPeer = << queries[1] >> /\ toHost = << >>
          /\ \/ \A k \in 1 .. Len(queries) : queries[k] \in Early
             \/ \A k \in 1 .. Len(queries) : queries[k] \in Ordinary
      BY <1>1, <1>2, <1>14 DEF SyncInStep
    <2>2. c = queries[1] /\ Len(toPeer) = 1 /\ 1 \in 1 .. Len(queries)
      BY <1>1, <1>7, <2>1
    <2>3. toPeer' = << >>
      <3>1. Len(toPeer') = 0
        BY <1>2, <2>2
      <3> QED BY <1>2, <3>1
    <2>4. toHost' = ReplyTo(queries[1])
      <3> DEFINE r == ReplyTo(queries[1])
      <3>1. r \in Seq(SyncWords)
        BY <1>2, <2>2, ReplyIs
      <3>2. toHost' = << >> \o r
        BY <1>2, <2>1, <2>2
      <3> HIDE DEF r
      <3>3. toHost' = r
        BY <3>1, <3>2
      <3> QED BY <3>3 DEF r
    <2>5. c \notin peer.refuses =>
            /\ (c = "S_BUSTYPE-all" => told' = peer'.buses)
            /\ (c \in {"O_INIT", "S_PIN_STATE"} => c \in ready')
      BY <1>1, <1>4 DEF Bus
    <2>6. c = queries'[1]
      BY <1>1, <2>2
    <2>7. SyncInStep'
      <3>1. toHost' = ReplyTo(queries[1])'
        BY <1>1, <2>4, ReplyStays
      <3>2. queries[1] \notin peer.refuses => Has(queries[1])'
        BY <2>2, <2>5, <2>6 DEF Has
      <3> QED BY <1>1, <2>1, <2>3, <3>1, <3>2 DEF SyncInStep
    <2>8. SyncOwed'
      <3>1. /\ told = AllBuses \/ told = peer.buses \/ Among({"S_BUSTYPE-all"}, queries)
            /\ Among({"Q_BUSTYPE"}, queries) => told = AllBuses
            /\ BackToAll(queries)
            /\ "nonspi" \in buses => Owed("O_INIT")
            /\ "S_PIN_STATE" \in peer.map => Owed("S_PIN_STATE")
        BY <1>1, <2>1 DEF SyncOwed
      <3>2. ready \subseteq ready'
        BY <1>4
      <3>3. told' = told \/ (c = "S_BUSTYPE-spi" /\ told' = {"spi"}) \/ (c = "S_BUSTYPE-all"
            /\ told' = peer.buses)
        BY <1>4 DEF Bus
      <3>4. /\ BackToAll(queries)'
            /\ \A x : Among(x, queries)' = Among(x, queries)
        BY <1>1, <3>1 DEF BackToAll, Among
      <3>5. c = "S_BUSTYPE-spi" => Among({"S_BUSTYPE-all"}, queries)
        <4> SUFFICES ASSUME c = "S_BUSTYPE-spi" PROVE Among({"S_BUSTYPE-all"}, queries)
          OBVIOUS
        <4>1. PICK j \in 1 + 1 .. Len(queries) : queries[j] = "S_BUSTYPE-all"
          BY <2>2, <3>1 DEF BackToAll
        <4>2. j \in 1 .. Len(queries)
          BY <1>1
        <4> QED BY <4>1, <4>2 DEF Among
      <3>6. c \in {"S_BUSTYPE-spi", "S_BUSTYPE-all"} => ~Among({"Q_BUSTYPE"}, queries)
        BY <2>1, <2>2 DEF Among, Early, Ordinary
      <3>7. told' = AllBuses \/ told' = peer'.buses \/ Among({"S_BUSTYPE-all"}, queries)'
        BY <1>1, <3>1, <3>3, <3>4, <3>5
      <3>8. Among({"Q_BUSTYPE"}, queries)' => told' = AllBuses
        BY <3>1, <3>3, <3>4, <3>6
      <3>9. (Owed("O_INIT") => Owed("O_INIT")') /\ (Owed("S_PIN_STATE") => Owed("S_PIN_STATE")')
        BY <1>1, <3>2 DEF Owed, Among
      <3> QED BY <1>1, <3>1, <3>4, <3>7, <3>8, <3>9 DEF SyncOwed
    <2> QED BY <2>7, <2>8
  <1>15. SyncInStep' /\ SyncOwed'
    <2>1. CASE syncpc = "done" \/ (syncpc \in {"query", "answer"} /\ queries # FirstQueries)
      BY <1>14, <2>1
    <2>2. CASE ~(syncpc = "done" \/ (syncpc \in {"query", "answer"} /\ queries # FirstQueries))
      <3>1. SyncInStep'
        BY <1>1, <2>2 DEF SyncInStep
      <3>2. CASE syncpc \notin {"query", "answer", "done"}
        <4>1. syncpc' \notin {"query", "answer", "done"}
          BY <1>1, <3>2
        <4> QED BY <3>1, <4>1 DEF SyncOwed
      <3>3. CASE syncpc \in {"query", "answer"} /\ queries = FirstQueries
        <4>1. told = AllBuses /\ c \in Greetings \cup {"Q_IFACE"}
          <5>1. /\ told = AllBuses
                /\ \/ syncpc = "query" /\ Greeted
                   \/ \A k \in 1 .. Len(toPeer) :
                        toPeer[k] \in Greetings \/ (toPeer[k] = "Q_IFACE" /\ k = Len(toPeer))
            BY <1>1, <1>2, <3>3 DEF SyncFirst
          <5> QED BY <1>5, <1>7, <5>1 DEF Greeted
        <4>2. told' = told /\ ready' = ready
          BY <1>9, <4>1
        <4>3. SyncOwed'
          BY <1>1, <4>2 DEF SyncOwed, BackToAll, Owed, Among
        <4> QED BY <3>1, <4>3
      <3> QED BY <2>2, <3>1, <3>2, <3>3
    <2> QED BY <2>1, <2>2
  <1>16. SyncClean'
    BY CleanByPeerAnswers
  <1> QED BY <1>8, <1>12, <1>13, <1>15, <1>16 DEF SyncInv

(* Nothing happens.                                                         *)
LEMMA SyncByStutter ==
  ASSUME SyncInv, UNCHANGED syncVars
  PROVE  SyncInv'
  <1>1. /\ peer' = peer /\ eats' = eats /\ told' = told /\ ready' = ready /\ toPeer' = toPeer
        /\ toHost' = toHost /\ tries' = tries /\ scanned' = scanned /\ queries' = queries
        /\ buses' = buses /\ syncpc' = syncpc /\ lates' = lates /\ clean' = clean
    BY DEF syncVars
  <1>2. SyncTypes'
    BY <1>1 DEF SyncInv, SyncTypes
  <1>3. SyncLooking'
    BY <1>1 DEF SyncInv, SyncLooking, Greeted, NoVersion
  <1>4. SyncFirst'
    BY <1>1 DEF SyncInv, SyncFirst, Greeted, NoVersion
  <1>5. SyncInStep'
    <2>1. ReplyTo(queries[1])' = ReplyTo(queries[1]) /\ Has(queries[1])' = Has(queries[1])
      BY <1>1, ReplyStays DEF Has
    <2> QED BY <1>1, <2>1 DEF SyncInv, SyncInStep
  <1>6. SyncOwed'
    BY <1>1 DEF SyncInv, SyncOwed, BackToAll, Owed, Among
  <1>7. SyncClean'
    BY <1>1 DEF SyncInv, SyncClean, Acks, LineIdle
  <1> QED BY <1>2, <1>3, <1>4, <1>5, <1>6, <1>7 DEF SyncInv

(* One step of the search, of a programmer that is not serprog, or none.    *)
LEMMA SyncStep ==
  ASSUME SyncInv, [ProgrammersNext]_programmerVars
  PROVE  SyncInv'
  <1>1. SyncNext \/ UNCHANGED syncVars
    BY DEF ProgrammersNext, InCommand, InAdapter, InBulk, InSession, InSerprog, programmerVars
  <1>2. ASSUME SyncNext PROVE SyncInv'
    <2>1. SendNops \/ FlushIncoming \/ Try \/ Scan \/ AfterNak \/ Confirm \/ ConfirmAck
          \/ Query \/ Told \/ InitDone \/ PeerEats \/ PeerAnswers \/ LineFails
      BY <1>2 DEF SyncNext, SyncHost, SyncPeer
    <2>2. Told => SyncInv'
      BY SyncByToldFirst, SyncByToldNext
    <2>3. (SendNops => SyncInv') /\ (FlushIncoming => SyncInv') /\ (Try => SyncInv')
      BY SyncBySendNops, SyncByFlush, SyncByTry
    <2>4. (Scan => SyncInv') /\ (AfterNak => SyncInv')
          /\ (Confirm => SyncInv') /\ (ConfirmAck => SyncInv')
      BY SyncByScan, SyncByAfterNak, SyncByConfirm, SyncByConfirmAck
    <2>5. (Query => SyncInv') /\ (InitDone => SyncInv') /\ (LineFails => SyncInv')
      BY SyncByQuery, SyncByInitDone, SyncByLineFails
    <2>6. (PeerEats => SyncInv') /\ (PeerAnswers => SyncInv')
      BY SyncByPeerEats, SyncByPeerAnswers
    <2> QED BY <2>1, <2>2, <2>3, <2>4, <2>5, <2>6
  <1> QED BY <1>1, <1>2, SyncByStutter

(* It holds at first: nothing has been sent, and the line does not look     *)
(* like an interface version.                                               *)
LEMMA SyncStarts ==
  ASSUME ProgrammersInit
  PROVE  SyncInv
  <1>1. CASE SyncInit
    <2>1. /\ peer \in SyncDevices /\ eats \in Nat /\ told = AllBuses /\ toPeer = << >>
          /\ toHost \in Stale
          /\ tries = 0 /\ scanned = 0 /\ queries = << >> /\ buses = {} /\ syncpc = "start"
          /\ lates = 0
          /\ clean = (eats = 0 /\ toHost = << >>)
      BY <1>1, SyncAssumption DEF SyncInit, AllBuses
    <2>2. toHost \in Seq([byte : {"ACK", "NAK", "other"}, of : {"earlier"}])
      BY <2>1, SyncAssumption
    <2>3. ASSUME NEW k \in 1 .. Len(toHost)
          PROVE  toHost[k].byte \in {"ACK", "NAK", "other"} /\ toHost[k] \in SyncWords
      <3>1. toHost[k] \in [byte : {"ACK", "NAK", "other"}, of : {"earlier"}]
        <4> DEFINE W == [byte : {"ACK", "NAK", "other"}, of : {"earlier"}]
        <4>1. toHost \in Seq(W)
          BY <2>2
        <4> HIDE DEF W
        <4>2. toHost[k] \in W
          BY <4>1
        <4> QED BY <4>2 DEF W
      <3>2. PICK b \in {"ACK", "NAK", "other"} : toHost[k] = [byte |-> b, of |-> "earlier"]
        BY <3>1
      <3>3. b \in SyncReplies /\ "earlier" \in SyncCommands \cup {"earlier"}
        BY DEF SyncReplies
      <3> QED BY <3>2, <3>3 DEF SyncWords
    <2>4. toHost \in Seq(SyncWords) /\ toPeer \in Seq(SyncCommands) /\ queries \in Seq(SyncCommands)
      BY <2>1, <2>2, <2>3
    <2>5. SyncTypes
      BY <2>1, <2>4 DEF SyncTypes, Looking
    <2>6. Greeted /\ NoVersion
      BY <2>1, <2>3 DEF Greeted, NoVersion
    <2>7. SyncLooking /\ SyncFirst /\ SyncInStep /\ SyncOwed
      BY <2>1, <2>6 DEF SyncLooking, SyncFirst, SyncInStep, SyncOwed
    <2>8. SyncClean
      BY <2>1 DEF SyncClean, LineIdle
    <2> QED BY <2>5, <2>7, <2>8 DEF SyncInv
  <1>2. CASE SyncIdle
    <2>1. /\ peer \in SyncDevices /\ eats = 0 /\ toPeer = << >> /\ toHost = << >>
          /\ tries = 0 /\ scanned = 0 /\ queries = << >> /\ buses = {} /\ syncpc = "none"
          /\ lates = 0
          /\ clean = FALSE
      BY <1>2, SyncAssumption DEF SyncIdle
    <2>2. SyncTypes
      BY <2>1 DEF SyncTypes, Looking
    <2>3. SyncLooking /\ SyncFirst /\ SyncInStep /\ SyncOwed /\ SyncClean
      BY <2>1 DEF SyncLooking, SyncFirst, SyncInStep, SyncOwed, SyncClean, Looking
    <2> QED BY <2>2, <2>3 DEF SyncInv
  <1> QED BY <1>1, <1>2 DEF ProgrammersInit

(* What the invariant says of a session that is being opened, or is open.   *)
LEMMA SyncSays ==
  ASSUME SyncInv
  PROVE  SessionOpens
  <1>1. SyncTypes /\ SyncFirst /\ SyncInStep /\ SyncOwed /\ SyncClean /\ peer \in SyncDevices
        /\ queries \in Seq(SyncCommands) /\ toHost \in Seq(SyncWords)
    BY DEF SyncInv, SyncTypes
  <1>2. InStep
    <2> SUFFICES ASSUME syncpc \in {"query", "answer", "done"},
                        queries = << >> \/ queries[1] # "Q_IFACE"
                 PROVE  /\ \A k \in DOMAIN toHost : toHost[k].of = queries[1]
                        /\ syncpc # "answer" => toHost = << >> /\ toPeer = << >>
      BY DEF InStep
    <2>1. queries # FirstQueries
      <3>1. Len(FirstQueries) = 3 /\ FirstQueries[1] = "Q_IFACE"
        BY DEF FirstQueries
      <3>2. queries = << >> => Len(queries) = 0
        OBVIOUS
      <3> QED BY <3>1, <3>2
    <2>2. /\ \/ \A k \in 1 .. Len(queries) : queries[k] \in Early
             \/ \A k \in 1 .. Len(queries) : queries[k] \in Ordinary
          /\ syncpc # "answer" => toPeer = << >> /\ toHost = << >>
          /\ syncpc = "answer" =>
               queries # << >> /\ (toHost = << >> \/ toHost = ReplyTo(queries[1]))
      BY <1>1, <2>1 DEF SyncInStep
    <2>3. ASSUME NEW k \in DOMAIN toHost PROVE toHost[k].of = queries[1]
      <3>1. k \in 1 .. Len(toHost) /\ toHost # << >>
        BY <1>1
      <3>2. queries # << >> /\ toHost = ReplyTo(queries[1])
        BY <2>2, <3>1
      <3> DEFINE c == queries[1]
      <3>3. c \in SyncCommands /\ toHost = ReplyTo(c)
        BY <1>1, <3>2
      <3> HIDE DEF c
      <3>4. Len(toHost) = Len(PeerSays(c)) /\ \A j \in 1 .. Len(PeerSays(c)) : toHost[j].of = c
        BY <1>1, <3>3, ReplyIs
      <3> QED BY <3>1, <3>4 DEF c
    <2> QED BY <2>2, <2>3
  <1>3. SetUp
    <2> SUFFICES ASSUME syncpc = "done"
                 PROVE  /\ told = {"spi", "nonspi"} \/ told = peer.buses
                        /\ "nonspi" \in buses => "O_INIT" \in ready
                        /\ "S_PIN_STATE" \in peer.map => "S_PIN_STATE" \in ready
      BY DEF SetUp
    <2>1. queries = << >>
      BY <1>1 DEF SyncInStep
    <2>2. \A x : ~Among(x, queries)
      <3>1. Len(queries) = 0
        BY <2>1
      <3> QED BY <3>1 DEF Among
    <2> QED BY <1>1, <2>2 DEF SyncOwed, Owed, AllBuses
  <1>4. Found
    BY <1>1 DEF Found, SyncClean
  <1> QED BY <1>2, <1>3, <1>4 DEF SessionOpens

(* A serprog device is believed only when nothing but its answer is on the  *)
(* line, it is set up when it is used, and one that is there is found       *)
(* (serprog_init(), sp_synchronize()).                                      *)
THEOREM SerprogSessionOpens == ProgrammersSpec => []SessionOpens
  <1>1. ProgrammersInit => SyncInv
    BY SyncStarts
  <1>2. SyncInv /\ [ProgrammersNext]_programmerVars => SyncInv'
    BY SyncStep
  <1>3. SyncInv => SessionOpens
    BY SyncSays
  <1> QED BY <1>1, <1>2, <1>3, PTL DEF ProgrammersSpec

-----------------------------------------------------------------------------
(* External programmers, from init() to shutdown. All but the Bus Pirate's  *)
(* lists are gone through one entry after the other, and the invariant says *)
(* of every entry that is passed what it achieved. The Bus Pirate's says at *)
(* which places of the list the device's mode is known, and that the line   *)
(* is truthful where a shutdown may begin: a BBIO on it means that the      *)
(* device is in raw bitbang mode now.                                       *)

(* What the device can be.                                                  *)
IsDevice(d) ==
  /\ d = [mode |-> d.mode, zeros |-> d.zeros, swallow |-> d.swallow,
          firmware |-> d.firmware, power |-> d.power, ready |-> d.ready]
  /\ d.zeros \in Nat /\ d.swallow \in Nat

Plain == {"dediprog", "ft2232", "linux_spi", "pony", "ajawe"}

(* These have no shutdown function, and leave the port open.                *)
LeftOpen == {"pony", "ajawe"}

(* The device does, or has done, what it was asked.                         *)
Did(what) == IF what = "voltage" THEN dev.power ELSE what \in dev.ready

(* What init() relies on once it is past an entry of its list.              *)
PastEntry(e) ==
  /\ e.op = "register_shutdown" => shutdownfn
  /\ e.op = "register_master" => usable
  /\ e.op = "ask" /\ e.onfail # "ignore" => Did(e.arg)
  /\ e.op = "ask" /\ ~Declines(e.arg) => linkfailed \/ Did(e.arg)
Behind(op) == \E k \in 1 .. Len(InitOf) : k < step /\ InitOf[k].op = op

(* The same for shutdown, as far as no message was lost.                    *)
Undone(e) ==
  /\ e.op = "close" => ~open
  /\ e.op = "ask" /\ e.arg = "voltage-off" => ~dev.power

(* The device is closed where a shutdown function is missing.               *)
ClosedOrRegistered ==
  /\ adapter \in {"dediprog", "linux_spi"} => shutdownfn \/ ~open
  /\ adapter = "ft2232" => (open => usable)

PlainInv ==
  /\ adapter \in Plain
  /\ phase = "init" =>
       /\ step \in 1 .. Len(InitOf) + 1
       /\ \A k \in 1 .. Len(InitOf) : k < step => PastEntry(InitOf[k])
       /\ (open => Behind("open")) /\ (shutdownfn => Behind("register_shutdown"))
       /\ (usable => Behind("register_master"))
  /\ phase = "use" => step = 1 /\ \A k \in 1 .. Len(InitOf) : PastEntry(InitOf[k])
  /\ phase = "shutdown" =>
       /\ step \in 1 .. Len(ShutdownOf) + 1
       /\ \/ linkfailed
          \/ /\ ClosedOrRegistered
             /\ \A k \in 1 .. Len(ShutdownOf) : k < step => Undone(ShutdownOf[k])
  /\ phase = "end" => LeftAsFound

-----------------------------------------------------------------------------
(* What a Bus Pirate says.                                                  *)
Words == {"BBIO", "1", "echo", "noise", "irate", "hardware",
          "irmware", "version", "HiZ>", "SPI", "ok"}
Settings == {"power", "speed", "config", "cs-high"}
Says(s, word) == \E k \in 1 .. Len(s) : s[k] = word
Paired(s) == \A k \in 1 .. Len(s) : s[k] = "BBIO" => k + 1 \in 1 .. Len(s) /\ s[k + 1] = "1"
NoneAfter(s, word) == \A k \in 1 .. Len(s) : s[k] = word => \A j \in k .. Len(s) : s[j] # "BBIO"
Listens(where) == dev.mode = where /\ dev.swallow = 0
(* A Bus Pirate that has said BBIO is in raw bitbang mode.                  *)
Truthful == Says(line, "BBIO") => Listens("bbio")

PirateInit ==
  /\ step \in 1 .. 26 + 2 * Zeros
  /\ dev.ready \subseteq Settings
  /\ open => step > 2
  /\ shutdownfn <=> step > 3
  /\ usable => step = 26 + 2 * Zeros
  /\ step <= 5 + Zeros => ~Says(line, "irate")
  /\ step <= 14 + 2 * Zeros => ~Says(line, "SPI")
  /\ step = 15 + 2 * Zeros => (Says(line, "SPI") => Listens("spi"))
  /\ step >= 16 + 2 * Zeros => Listens("spi")
  /\ step >= 18 + 2 * Zeros => "power" \in dev.ready /\ dev.power
  /\ step >= 20 + 2 * Zeros => "speed" \in dev.ready
  /\ step >= 22 + 2 * Zeros => "config" \in dev.ready
  /\ step >= 24 + 2 * Zeros => "cs-high" \in dev.ready
  /\ \/ linkfailed
     \/ step = 6 + Zeros /\ NoneAfter(line, "irate")
     \/ step = 15 + 2 * Zeros /\ NoneAfter(line, "SPI")
     \/ step \notin {6 + Zeros, 15 + 2 * Zeros} /\ Truthful

PirateUse ==
  /\ step = 1 /\ shutdownfn
  /\ Listens("spi") /\ dev.power /\ dev.ready = Settings
  /\ linkfailed \/ Truthful

PirateShutdown ==
  /\ step \in 1 .. Len(ShutdownOf) + 1
  /\ ~shutdownfn => ~open
  /\ shutdownfn =>
       /\ step <= 2 => Truthful
       /\ step \in {3, 4} => Listens("bbio")
       /\ step = 3 => line # <<>> /\ line[1] = "1"
       /\ step >= 5 => dev.mode = "terminal" /\ ~dev.power
       /\ step >= 6 => ~open

PirateInv ==
  /\ adapter = "buspirate"
  /\ line \in Seq(Words) /\ Paired(line)
  /\ phase = "init" => PirateInit
  /\ phase = "use" => PirateUse
  /\ phase = "shutdown" => linkfailed \/ PirateShutdown
  /\ phase = "end" => LeftAsFound

AdaptersInv ==
  IF mode # "adapter" THEN AdaptersIdle
  ELSE /\ phase \in {"init", "use", "shutdown", "end"}
       /\ IsDevice(dev)
       /\ PlainInv \/ PirateInv

-----------------------------------------------------------------------------
(* A step by which the device loses nothing, nor the driver.                *)
Gains ==
  /\ adapter' = adapter /\ dev'.firmware = dev.firmware
  /\ dev.ready \subseteq dev'.ready /\ (dev.power => dev'.power)
  /\ (shutdownfn => shutdownfn') /\ (usable => usable') /\ (linkfailed => linkfailed')

(* What the device is after it was asked for something.                     *)
LEMMA DeviceDoes ==
  ASSUME IsDevice(dev), NEW what
  PROVE  /\ IsDevice(Does(what)) /\ Does(what).firmware = dev.firmware
         /\ dev.ready \subseteq Does(what).ready
         /\ what # "voltage-off" => (dev.power => Does(what).power)
         /\ what # "voltage" => (Does(what).power => dev.power)
         /\ what = "voltage" => Does(what).power
         /\ what = "voltage-off" => ~Does(what).power
         /\ what \notin {"voltage", "voltage-off"} => what \in Does(what).ready
  <1>1. PICK m, z, s, f, p, r :
          dev = [mode |-> m, zeros |-> z, swallow |-> s, firmware |-> f, power |-> p, ready |-> r]
          /\ z \in Nat /\ s \in Nat
    BY DEF IsDevice
  <1>2. CASE what = "voltage"
    <2>1. Does(what) = [mode |-> m, zeros |-> z, swallow |-> s, firmware |-> f, power |-> TRUE,
                        ready |-> r]
      BY <1>1, <1>2 DEF Does
    <2> QED BY <1>1, <1>2, <2>1 DEF IsDevice
  <1>3. CASE what = "voltage-off"
    <2>1. Does(what) = [mode |-> m, zeros |-> z, swallow |-> s, firmware |-> f, power |-> FALSE,
                        ready |-> r]
      BY <1>1, <1>3 DEF Does
    <2> QED BY <1>1, <1>3, <2>1 DEF IsDevice
  <1>4. CASE what \notin {"voltage", "voltage-off"}
    <2>1. Does(what) = [mode |-> m, zeros |-> z, swallow |-> s, firmware |-> f, power |-> p,
                        ready |-> r \cup {what}]
      BY <1>1, <1>4 DEF Does
    <2> QED BY <1>1, <1>4, <2>1 DEF IsDevice
  <1> QED BY <1>2, <1>3, <1>4

(* An entry that may fail and leave the driver with an open device finds it *)
(* still closed, or the shutdown function registered.                       *)
FailsSafely(k) ==
  \/ InitOf[k].op \notin {"parameters", "ask"} \/ InitOf[k].onfail = "close"
  \/ \A j \in 1 .. Len(InitOf) : j < k => InitOf[j].op # "open"
  \/ adapter = "ft2232" /\ InitOf[k].onfail = "ignore"
  \/ adapter # "ft2232" /\ \E j \in 1 .. Len(InitOf) : j < k /\ InitOf[j].op = "register_shutdown"

(* A list that follows another.                                             *)
Follows(r, s, t) ==
  /\ Len(r) = Len(s) + Len(t)
  /\ \A k \in 1 .. Len(r) : r[k] = IF k <= Len(s) THEN s[k] ELSE t[k - Len(s)]

(* What is joined follows.                                                  *)
LEMMA Joined ==
  ASSUME NEW V, NEW s \in Seq(V), NEW t \in Seq(V)
  PROVE  s \o t \in Seq(V) /\ Follows(s \o t, s, t)
  BY ConcatProperties DEF Follows

(* What each programmer must have answered, and may not have ignored.       *)
Demanded ==
  CASE adapter = "dediprog" -> {"voltage", "claim", "devicestring", "C"}
    [] adapter = "ft2232" -> {"pins"}
    [] adapter = "linux_spi" -> {"mode", "bits"}
    [] adapter = "pony" -> {"toggle"}
    [] OTHER -> {}
Demands(what) ==
  \E j \in 1 .. Len(InitOf) :
    /\ InitOf[j].op = "ask" /\ InitOf[j].arg = what /\ InitOf[j].onfail # "ignore"
    /\ \A k \in 1 .. Len(InitOf) : InitOf[k].op = "register_master" => j < k

(* The lists of the init() functions but the Bus Pirate's.                  *)
PlainList ==
  /\ Len(InitOf) \in Nat
  /\ \A k \in 1 .. Len(InitOf) :
       /\ InitOf[k].op \in {"parameters", "open", "ask", "register_shutdown", "register_master"}
       /\ InitOf[k].arg # "voltage-off"
       /\ adapter \in LeftOpen \/ FailsSafely(k)
  /\ \A what \in Demanded : Demands(what)
  /\ \E j \in 1 .. Len(InitOf) : InitOf[j].op = "register_master"
  /\ adapter \in {"dediprog", "linux_spi"} =>
       \E j \in 1 .. Len(InitOf) : InitOf[j].op = "register_shutdown"
  /\ adapter = "ft2232" =>
       \E j \in 1 .. Len(InitOf) :
         /\ InitOf[j].op = "ask" /\ InitOf[j].arg = "bitmode"
         /\ \A k \in 1 .. Len(InitOf) : InitOf[k].op = "register_master" => j < k

(* The Dediprog's.                                                         *)
LEMMA DediprogList ==
  ASSUME adapter = "dediprog"
  PROVE  PlainList
  <1> DEFINE e == DediprogInit
  <1>1. InitOf = e
    BY DEF InitOf
  <1>2. Len(e) = 14
    BY DEF DediprogInit
  <1>3. ASSUME NEW k \in 1 .. 14
        PROVE  /\ e[k].op \in {"parameters", "open", "ask", "register_shutdown", "register_master"}
               /\ e[k].arg # "voltage-off"
               /\ (e[k].op = "open") <=> (k = 2)
               /\ (e[k].op = "register_master") <=> (k = 13)
               /\ k \in {3, 4} => e[k].onfail = "close"
               /\ k = 5 => e[k].op = "register_shutdown"
               /\ k \in {4, 9, 10, 12} => e[k].op = "ask"
               /\ k = 4 => e[k].arg = "claim"
               /\ k = 9 => e[k].arg = "devicestring" /\ e[k].onfail = "return"
               /\ k = 10 => e[k].arg = "C" /\ e[k].onfail = "return"
               /\ k = 12 => e[k].arg = "voltage" /\ e[k].onfail = "return"
    BY DEF DediprogInit, S, Ask, Just
  <1> HIDE DEF e
  <1>4. ASSUME NEW k \in 1 .. 14 PROVE FailsSafely(k)
    <2>1. CASE k <= 2
      BY <1>1, <1>2, <1>3, <2>1 DEF FailsSafely
    <2>2. CASE k > 2
      <3>1. 5 \in 1 .. Len(InitOf)
        BY <1>1, <1>2
      <3> QED BY <1>1, <1>2, <1>3, <2>2, <3>1 DEF FailsSafely
    <2> QED BY <2>1, <2>2
  <1>5. Demands("voltage")
    <2>1. 12 \in 1 .. Len(InitOf)
      BY <1>1, <1>2
    <2> QED BY <1>1, <1>2, <1>3, <2>1 DEF Demands
  <1>6. Demands("claim")
    <2>1. 4 \in 1 .. Len(InitOf)
      BY <1>1, <1>2
    <2> QED BY <1>1, <1>2, <1>3, <2>1 DEF Demands
  <1>7. Demands("devicestring")
    <2>1. 9 \in 1 .. Len(InitOf)
      BY <1>1, <1>2
    <2> QED BY <1>1, <1>2, <1>3, <2>1 DEF Demands
  <1>8. Demands("C")
    <2>1. 10 \in 1 .. Len(InitOf)
      BY <1>1, <1>2
    <2> QED BY <1>1, <1>2, <1>3, <2>1 DEF Demands
  <1>9. 13 \in 1 .. Len(InitOf)
    BY <1>1, <1>2
  <1>10. 5 \in 1 .. Len(InitOf)
    BY <1>1, <1>2
  <1> QED
    BY <1>1, <1>2, <1>3, <1>4, <1>5, <1>6, <1>7, <1>8, <1>9, <1>10 DEF PlainList, Demanded

(* FT2232's.                                                               *)
LEMMA Ft2232List ==
  ASSUME adapter = "ft2232"
  PROVE  PlainList
  <1> DEFINE e == Ft2232Init
  <1>1. InitOf = e
    BY DEF InitOf
  <1>2. Len(e) = 11
    BY DEF Ft2232Init
  <1>3. ASSUME NEW k \in 1 .. 11
        PROVE  /\ e[k].op \in {"parameters", "open", "ask", "register_shutdown", "register_master"}
               /\ e[k].arg # "voltage-off"
               /\ (e[k].op = "open") <=> (k = 2)
               /\ (e[k].op = "register_master") <=> (k = 11)
               /\ k >= 3 /\ k <= 10 => e[k].op = "ask" /\ e[k].onfail \in {"ignore", "close"}
               /\ k = 11 => e[k].onfail = "return"
               /\ k = 6 => e[k].arg = "bitmode"
               /\ k = 10 => e[k].arg = "pins" /\ e[k].onfail = "close"
    BY DEF Ft2232Init, S, Ask, Just
  <1> HIDE DEF e
  <1>4. ASSUME NEW k \in 1 .. 11 PROVE FailsSafely(k)
    <2>1. CASE k <= 2
      BY <1>1, <1>2, <1>3, <2>1 DEF FailsSafely
    <2>2. CASE k > 2
      BY <1>1, <1>2, <1>3, <2>2 DEF FailsSafely
    <2> QED BY <2>1, <2>2
  <1>5. Demands("pins")
    <2>1. 10 \in 1 .. Len(InitOf)
      BY <1>1, <1>2
    <2> QED BY <1>1, <1>2, <1>3, <2>1 DEF Demands
  <1>6. \E j \in 1 .. Len(InitOf) :
         /\ InitOf[j].op = "ask" /\ InitOf[j].arg = "bitmode"
         /\ \A k \in 1 .. Len(InitOf) : InitOf[k].op = "register_master" => j < k
    <2>1. 6 \in 1 .. Len(InitOf)
      BY <1>1, <1>2
    <2> QED BY <1>1, <1>2, <1>3, <2>1
  <1>7. 11 \in 1 .. Len(InitOf)
    BY <1>1, <1>2
  <1> QED
    BY <1>1, <1>2, <1>3, <1>4, <1>5, <1>6, <1>7 DEF PlainList, Demanded

(* spidev's.                                                               *)
LEMMA LinuxSpiList ==
  ASSUME adapter = "linux_spi"
  PROVE  PlainList
  <1> DEFINE e == LinuxSpiInit
  <1>1. InitOf = e
    BY DEF InitOf
  <1>2. Len(e) = 7
    BY DEF LinuxSpiInit
  <1>3. ASSUME NEW k \in 1 .. 7
        PROVE  /\ e[k].op \in {"parameters", "open", "ask", "register_shutdown", "register_master"}
               /\ e[k].arg # "voltage-off"
               /\ (e[k].op = "open") <=> (k = 2)
               /\ (e[k].op = "register_master") <=> (k = 7)
               /\ k = 3 => e[k].op = "register_shutdown"
               /\ k = 5 => e[k].op = "ask" /\ e[k].arg = "mode" /\ e[k].onfail = "return"
               /\ k = 6 => e[k].op = "ask" /\ e[k].arg = "bits" /\ e[k].onfail = "return"
    BY DEF LinuxSpiInit, S, Ask, Just
  <1> HIDE DEF e
  <1>4. ASSUME NEW k \in 1 .. 7 PROVE FailsSafely(k)
    <2>1. CASE k <= 2
      BY <1>1, <1>2, <1>3, <2>1 DEF FailsSafely
    <2>2. CASE k > 2
      <3>1. 3 \in 1 .. Len(InitOf)
        BY <1>1, <1>2
      <3> QED BY <1>1, <1>2, <1>3, <2>2, <3>1 DEF FailsSafely
    <2> QED BY <2>1, <2>2
  <1>5. Demands("mode")
    <2>1. 5 \in 1 .. Len(InitOf)
      BY <1>1, <1>2
    <2> QED BY <1>1, <1>2, <1>3, <2>1 DEF Demands
  <1>6. Demands("bits")
    <2>1. 6 \in 1 .. Len(InitOf)
      BY <1>1, <1>2
    <2> QED BY <1>1, <1>2, <1>3, <2>1 DEF Demands
  <1>7. 7 \in 1 .. Len(InitOf)
    BY <1>1, <1>2
  <1>8. 3 \in 1 .. Len(InitOf)
    BY <1>1, <1>2
  <1> QED
    BY <1>1, <1>2, <1>3, <1>4, <1>5, <1>6, <1>7, <1>8 DEF PlainList, Demanded

(* The pony's.                                                             *)
LEMMA PonyList ==
  ASSUME adapter = "pony"
  PROVE  PlainList
  <1> DEFINE e == PonyInit
             V == {Just("open"), Just("parameters"), Ask("toggle"), Just("register_master")}
             first == <<Just("open"), Just("parameters")>>
             toggles == Replicate(10, Ask("toggle"))
             before == first \o toggles
             last == <<Just("register_master")>>
  <1>1. InitOf = e
    BY DEF InitOf
  <1>2. first \in Seq(V) /\ Len(first) = 2 /\ first[1] = Just("open")
        /\ first[2] = Just("parameters")
    OBVIOUS
  <1>3. toggles \in Seq(V) /\ Len(toggles) = 10 /\ \A k \in 1 .. 10 : toggles[k] = Ask("toggle")
    BY DEF Replicate
  <1>4. last \in Seq(V) /\ Len(last) = 1 /\ last[1] = Just("register_master")
    OBVIOUS
  <1>5. e = before \o last /\ before = first \o toggles
    BY DEF PonyInit
  <1> HIDE DEF e, V, first, toggles, last, before
  <1>6. before \in Seq(V) /\ Follows(before, first, toggles)
    BY <1>2, <1>3, <1>5, Joined
  <1>7. Follows(e, before, last)
    BY <1>4, <1>5, <1>6, Joined
  <1>8. Len(before) = 12
        /\ \A k \in 1 .. 12 : before[k] = IF k <= 2 THEN first[k] ELSE toggles[k - 2]
    BY <1>2, <1>3, <1>6 DEF Follows
  <1>9. Len(e) = 13 /\ \A k \in 1 .. 13 : e[k] = IF k <= 12 THEN before[k] ELSE last[k - 12]
    BY <1>4, <1>7, <1>8 DEF Follows
  <1>10. ASSUME NEW k \in 1 .. 13
        PROVE  e[k] = IF k = 1 THEN Just("open") ELSE IF k = 2 THEN Just("parameters")
                      ELSE IF k <= 12 THEN Ask("toggle") ELSE Just("register_master")
    BY <1>2, <1>3, <1>4, <1>8, <1>9
  <1>11. Demands("toggle")
    <2>1. 3 \in 1 .. Len(InitOf)
      BY <1>1, <1>9
    <2> QED BY <1>1, <1>9, <1>10, <2>1 DEF Demands, S, Ask, Just
  <1>12. 13 \in 1 .. Len(InitOf)
    BY <1>1, <1>9
  <1> QED
    BY <1>1, <1>9, <1>10, <1>11, <1>12 DEF PlainList, Demanded, LeftOpen, S, Ask, Just

(* The AJAWe's, which asks for nothing.                                     *)
LEMMA AjaweList ==
  ASSUME adapter = "ajawe"
  PROVE  PlainList
  <1> DEFINE e == AjaweInit
  <1>1. InitOf = e
    BY DEF InitOf
  <1>2. Len(e) = 3
    BY DEF AjaweInit
  <1>3. ASSUME NEW k \in 1 .. 3
        PROVE  /\ e[k].op \in {"parameters", "open", "ask", "register_shutdown", "register_master"}
               /\ e[k].arg # "voltage-off"
               /\ k = 3 => e[k].op = "register_master"
    BY DEF AjaweInit, S, Just
  <1> HIDE DEF e
  <1>4. 3 \in 1 .. Len(InitOf)
    BY <1>1, <1>2
  <1> QED
    BY <1>1, <1>2, <1>3, <1>4 DEF PlainList, Demanded, LeftOpen

(* All of them.                                                             *)
LEMMA PlainLists ==
  ASSUME adapter \in Plain
  PROVE  PlainList
  BY DediprogList, Ft2232List, LinuxSpiList, PonyList, AjaweList DEF Plain

-----------------------------------------------------------------------------
(* init() goes on to its next entry.                                        *)
LEMMA PlainGoesOn ==
  ASSUME PlainInv, phase = "init", step \in 1 .. Len(InitOf), Proceed, Gains,
         NEW e, e = InitOf[step], PastEntry(e)',
         open' => open \/ e.op = "open",
         shutdownfn' => shutdownfn \/ e.op = "register_shutdown",
         usable' => usable \/ e.op = "register_master"
  PROVE  PlainInv'
  <1>1. InitOf' = InitOf /\ adapter' = adapter /\ adapter \in Plain
    BY DEF Gains, InitOf, PlainInv
  <1>2. Len(InitOf) \in Nat
    BY <1>1, PlainLists DEF PlainList
  <1>3. phase' = "init" /\ step' = step + 1 /\ step' \in 1 .. Len(InitOf) + 1
    BY <1>2 DEF Proceed
  <1>4. \A k \in 1 .. Len(InitOf) : k < step' => PastEntry(InitOf[k])'
    <2>1. SUFFICES ASSUME NEW k \in 1 .. Len(InitOf), k < step' PROVE PastEntry(InitOf[k])'
      OBVIOUS
    <2>2. CASE k < step
      <3>1. PastEntry(InitOf[k])
        BY <2>2 DEF PlainInv
      <3> QED BY <1>1, <3>1 DEF PastEntry, Gains, Did, Declines
    <2>3. CASE k = step
      BY <1>1, <2>3 DEF PastEntry, Did, Declines
    <2> QED BY <1>2, <1>3, <2>1, <2>2, <2>3
  <1>5. ASSUME NEW op, Behind(op) \/ e.op = op PROVE Behind(op)'
    <2>1. PICK k \in 1 .. Len(InitOf) : k < step' /\ InitOf[k].op = op
      BY <1>2, <1>3, <1>5 DEF Behind
    <2> QED BY <1>1, <2>1 DEF Behind
  <1>6. (open => Behind("open")) /\ (shutdownfn => Behind("register_shutdown"))
        /\ (usable => Behind("register_master"))
    BY DEF PlainInv
  <1> QED BY <1>1, <1>3, <1>4, <1>5, <1>6 DEF PlainInv

(* init() gives up: programmer_shutdown() is next.                          *)
LEMMA PlainGivesUp ==
  ASSUME PlainInv, phase = "init", Over, adapter' = adapter, linkfailed' \/ ClosedOrRegistered'
  PROVE  PlainInv'
  <1>1. phase' = "shutdown" /\ step' = 1 /\ adapter \in Plain
    BY DEF Over, PlainInv
  <1>2. Len(ShutdownOf') \in Nat /\ Len(ShutdownOf)' = Len(ShutdownOf')
    BY DEF ShutdownOf, DediprogShutdown, LinuxSpiShutdown, Plain, BuspirateShutdown
  <1> QED BY <1>1, <1>2 DEF PlainInv

(* The entry that is next.                                                  *)
LEMMA PlainNow ==
  ASSUME PlainInv, phase = "init", NEW op, Now(op)
  PROVE  /\ step \in 1 .. Len(InitOf) /\ List[step] = InitOf[step] /\ Arg = InitOf[step].arg
         /\ InitOf[step].op = op /\ InitOf[step].arg # "voltage-off"
         /\ op \in {"parameters", "open", "ask", "register_shutdown", "register_master"}
         /\ adapter \in LeftOpen \/ FailsSafely(step)
  <1>1. adapter \in Plain
    BY DEF PlainInv
  <1>2. PlainList
    BY <1>1, PlainLists
  <1>3. step \in 1 .. Len(InitOf) /\ List = InitOf /\ List[step].op = op
    BY <1>2 DEF PlainInv, PlainList, Now, List
  <1> QED BY <1>2, <1>3 DEF PlainList, Arg

(* A step of init() fails.                                                  *)
LEMMA PlainFails ==
  ASSUME PlainInv, phase = "init", step \in 1 .. Len(InitOf), List[step] = InitOf[step],
         Gains, shutdownfn' = shutdownfn, usable' = usable,
         NEW e, e = InitOf[step], e.op \in {"parameters", "open", "ask"},
         e.onfail = "ignore" => Proceed /\ PastEntry(e)',
         e.onfail # "ignore" => Over,
         open' => open /\ e.onfail # "close" /\ e.op # "open",
         linkfailed' \/ adapter \in LeftOpen \/ e.op = "open" \/ FailsSafely(step)
  PROVE  PlainInv'
  <1>1. adapter' = adapter /\ (open' => open)
    BY DEF Gains
  <1>2. CASE e.onfail = "ignore"
    BY <1>1, <1>2, PlainGoesOn
  <1>3. CASE e.onfail # "ignore"
    <2>1. Over
      BY <1>3
    <2>2. ASSUME open', ~linkfailed', adapter \notin LeftOpen
          PROVE  adapter # "ft2232" /\ shutdownfn
      <3>1. open /\ e.onfail # "close" /\ e.op \in {"parameters", "ask"} /\ FailsSafely(step)
        BY <2>1, <2>2
      <3>2. PICK j \in 1 .. Len(InitOf) : j < step /\ InitOf[j].op = "open"
        BY <3>1 DEF PlainInv, Behind
      <3>3. /\ adapter # "ft2232"
            /\ \E m \in 1 .. Len(InitOf) : m < step /\ InitOf[m].op = "register_shutdown"
        BY <1>3, <3>1, <3>2 DEF FailsSafely
      <3> QED BY <3>3 DEF PlainInv, PastEntry
    <2>3. linkfailed' \/ ClosedOrRegistered'
      BY <1>1, <2>2 DEF ClosedOrRegistered, LeftOpen
    <2> QED BY <1>1, <2>1, <2>3, PlainGivesUp
  <1> QED BY <1>2, <1>3

(* One action after the other, in init().                                   *)
LEMMA PlainByParameters ==
  ASSUME PlainInv, phase = "init", Parameters
  PROVE  PlainInv'
  <1>1. PICK e : e = InitOf[step]
    OBVIOUS
  <1>2. Now("parameters") /\ Gains /\ shutdownfn' = shutdownfn /\ usable' = usable
    BY DEF Parameters, Gains
  <1>3. /\ step \in 1 .. Len(InitOf) /\ List[step] = e /\ e.op = "parameters"
        /\ adapter \in LeftOpen \/ FailsSafely(step)
    BY <1>1, <1>2, PlainNow
  <1>4. PastEntry(e)'
    BY <1>3 DEF PastEntry
  <1>5. CASE Proceed /\ UNCHANGED open
    BY <1>1, <1>2, <1>3, <1>4, <1>5, PlainGoesOn
  <1>6. CASE StepFails(open)
    <2>1. /\ e.onfail = "ignore" => Proceed
          /\ e.onfail # "ignore" => Over
          /\ open' => open /\ e.onfail # "close" /\ e.op # "open"
      BY <1>3, <1>6 DEF StepFails
    <2> QED BY <1>1, <1>2, <1>3, <1>4, <2>1, PlainFails
  <1>7. (Proceed /\ UNCHANGED open) \/ StepFails(open)
    BY DEF Parameters
  <1> QED BY <1>5, <1>6, <1>7

(* The program stops.                                                       *)
LEMMA PlainByFreedTwice ==
  ASSUME PlainInv, FreedTwice
  PROVE  PlainInv'
  <1>1. adapter' = adapter /\ adapter = "pony" /\ phase' = "end"
    BY DEF FreedTwice
  <1>2. LeftAsFound'
    BY <1>1 DEF LeftAsFound
  <1> QED BY <1>1, <1>2 DEF PlainInv, Plain

(* Opening the device.                                                      *)
LEMMA PlainByOpen ==
  ASSUME PlainInv, phase = "init", OpenDevice
  PROVE  PlainInv'
  <1>1. PICK e : e = InitOf[step]
    OBVIOUS
  <1>2. Now("open") /\ Gains /\ shutdownfn' = shutdownfn /\ usable' = usable
    BY DEF OpenDevice, Gains
  <1>3. step \in 1 .. Len(InitOf) /\ List[step] = e /\ e.op = "open"
    BY <1>1, <1>2, PlainNow
  <1>4. PastEntry(e)'
    BY <1>3 DEF PastEntry
  <1>5. CASE Proceed
    BY <1>1, <1>2, <1>3, <1>4, <1>5, PlainGoesOn
  <1>6. ASSUME e.onfail = "ignore" => Proceed, e.onfail # "ignore" => Over, ~open'
        PROVE  PlainInv'
    BY <1>1, <1>2, <1>3, <1>4, <1>6, PlainFails
  <1>7. \/ Proceed
        \/ (e.onfail = "ignore" => Proceed) /\ (e.onfail # "ignore" => Over) /\ ~open'
    BY <1>3 DEF OpenDevice, StepFails
  <1> QED BY <1>5, <1>6, <1>7

(* Registering the shutdown function, or the programmer.                    *)
LEMMA PlainByRegister ==
  ASSUME PlainInv, phase = "init", Register
  PROVE  PlainInv'
  <1>1. PICK e : e = InitOf[step]
    OBVIOUS
  <1>2. Gains /\ Proceed /\ open' = open
    BY DEF Register, Gains
  <1>3. CASE Now("register_shutdown") /\ shutdownfn' /\ usable' = usable
    <2>1. step \in 1 .. Len(InitOf) /\ e.op = "register_shutdown"
      BY <1>1, <1>3, PlainNow
    <2>2. PastEntry(e)'
      BY <1>3, <2>1 DEF PastEntry
    <2> QED BY <1>1, <1>2, <1>3, <2>1, <2>2, PlainGoesOn
  <1>4. CASE Now("register_master") /\ usable' /\ shutdownfn' = shutdownfn
    <2>1. step \in 1 .. Len(InitOf) /\ e.op = "register_master"
      BY <1>1, <1>4, PlainNow
    <2>2. PastEntry(e)'
      BY <1>4, <2>1 DEF PastEntry
    <2> QED BY <1>1, <1>2, <1>4, <2>1, <2>2, PlainGoesOn
  <1>5. \/ Now("register_shutdown") /\ shutdownfn' /\ usable' = usable
        \/ Now("register_master") /\ usable' /\ shutdownfn' = shutdownfn
    BY DEF Register
  <1> QED BY <1>3, <1>4, <1>5

(* Asking the device.                                                       *)
LEMMA PlainByAsk ==
  ASSUME PlainInv, phase = "init", IsDevice(dev), AskDevice
  PROVE  PlainInv'
  <1>1. PICK e : e = InitOf[step]
    OBVIOUS
  <1>2. Now("ask") /\ adapter' = adapter /\ shutdownfn' = shutdownfn /\ usable' = usable
    BY DEF AskDevice
  <1>3. /\ step \in 1 .. Len(InitOf) /\ List[step] = e /\ Arg = e.arg
        /\ e.op = "ask" /\ e.arg # "voltage-off" /\ (adapter \in LeftOpen \/ FailsSafely(step))
    BY <1>1, <1>2, PlainNow
  <1>4. /\ Does(e.arg).firmware = dev.firmware /\ dev.ready \subseteq Does(e.arg).ready
        /\ dev.power => Does(e.arg).power
        /\ IF e.arg = "voltage" THEN Does(e.arg).power ELSE e.arg \in Does(e.arg).ready
    BY <1>3, DeviceDoes
  <1>5. CASE Declines(Arg) /\ StepFails(open) /\ dev' = dev /\ linkfailed' = linkfailed
    <2>1. Gains
      BY <1>2, <1>5 DEF Gains
    <2>2. e.onfail = "ignore" => PastEntry(e)'
      BY <1>3, <1>5 DEF PastEntry, Declines
    <2>3. /\ e.onfail = "ignore" => Proceed
          /\ e.onfail # "ignore" => Over
          /\ open' => open /\ e.onfail # "close" /\ e.op # "open"
      BY <1>3, <1>5 DEF StepFails
    <2> QED BY <1>1, <1>2, <1>3, <1>5, <2>1, <2>2, <2>3, PlainFails
  <1>6. CASE dev' = Does(Arg) /\ Proceed /\ open' = open /\ linkfailed' = linkfailed
    <2>1. Gains
      BY <1>2, <1>3, <1>4, <1>6 DEF Gains
    <2>2. PastEntry(e)'
      BY <1>3, <1>4, <1>6 DEF PastEntry, Did
    <2> QED BY <1>1, <1>2, <1>3, <1>6, <2>1, <2>2, PlainGoesOn
  <1>7. CASE linkfailed' /\ StepFails(open) /\ dev' \in {dev, Does(Arg)}
    <2>1. Gains
      BY <1>2, <1>3, <1>4, <1>7 DEF Gains
    <2>2. e.onfail = "ignore" => PastEntry(e)'
      BY <1>3, <1>7 DEF PastEntry
    <2>3. /\ e.onfail = "ignore" => Proceed
          /\ e.onfail # "ignore" => Over
          /\ open' => open /\ e.onfail # "close" /\ e.op # "open"
      BY <1>3, <1>7 DEF StepFails
    <2> QED BY <1>1, <1>2, <1>3, <1>7, <2>1, <2>2, <2>3, PlainFails
  <1>8. \/ Declines(Arg) /\ StepFails(open) /\ dev' = dev /\ linkfailed' = linkfailed
        \/ dev' = Does(Arg) /\ Proceed /\ open' = open /\ linkfailed' = linkfailed
        \/ linkfailed' /\ StepFails(open) /\ dev' \in {dev, Does(Arg)}
    BY DEF AskDevice
  <1> QED BY <1>5, <1>6, <1>7, <1>8

(* init() is through, and a programmer is used.                             *)
LEMMA PlainByListEnds ==
  ASSUME PlainInv, phase = "init", ListEnds
  PROVE  PlainInv'
  <1>1. /\ phase' = "use" /\ step' = 1 /\ step > Len(InitOf) /\ InitOf' = InitOf
        /\ UNCHANGED <<adapter, dev, shutdownfn, usable, linkfailed>>
    BY DEF ListEnds, List, InitOf
  <1>2. Len(InitOf) \in Nat
    BY PlainLists DEF PlainList, PlainInv
  <1>3. \A k \in 1 .. Len(InitOf) : PastEntry(InitOf[k])
    BY <1>1, <1>2 DEF PlainInv
  <1>4. \A k \in 1 .. Len(InitOf) : PastEntry(InitOf[k])'
    BY <1>1, <1>3 DEF PastEntry, Did, Declines
  <1> QED BY <1>1, <1>4 DEF PlainInv

(* The use is over.                                                         *)
LEMMA PlainByUse ==
  ASSUME PlainInv, Use
  PROVE  PlainInv'
  <1>1. /\ phase = "use" /\ phase' = "shutdown" /\ step' = 1 /\ adapter \in Plain
        /\ UNCHANGED <<adapter, dev, open, shutdownfn, usable, linkfailed>>
    BY DEF Use, PlainInv, Plain
  <1>2. PlainList
    BY <1>1, PlainLists
  <1>3. ClosedOrRegistered
    BY <1>1, <1>2 DEF ClosedOrRegistered, PlainList, PlainInv, PastEntry
  <1>4. Len(ShutdownOf') \in Nat
    BY <1>1 DEF ShutdownOf, DediprogShutdown, LinuxSpiShutdown, Plain
  <1>5. ClosedOrRegistered'
    BY <1>1, <1>3 DEF ClosedOrRegistered
  <1> QED BY <1>1, <1>4, <1>5 DEF PlainInv

-----------------------------------------------------------------------------
(* The lists of the shutdown functions: they end with the device closed,    *)
(* and a Dediprog's chip without power.                                     *)
LEMMA PlainShutdown ==
  ASSUME adapter \in Plain
  PROVE  /\ Len(ShutdownOf) \in Nat
         /\ \A k \in 1 .. Len(ShutdownOf) :
              /\ ShutdownOf[k].op \in {"ask", "close"}
              /\ ShutdownOf[k].arg \notin {"voltage", "devicestring", "toggle"}
         /\ shutdownfn => \E k \in 1 .. Len(ShutdownOf) : ShutdownOf[k].op = "close"
         /\ shutdownfn /\ adapter = "dediprog" =>
              \E k \in 1 .. Len(ShutdownOf) :
                ShutdownOf[k].op = "ask" /\ ShutdownOf[k].arg = "voltage-off"
  <1>1. CASE ~shutdownfn
    BY <1>1 DEF ShutdownOf
  <1>2. CASE shutdownfn /\ adapter = "dediprog"
    <2>1. /\ Len(DediprogShutdown) = 3
          /\ DediprogShutdown[1].op = "ask" /\ DediprogShutdown[1].arg = "voltage-off"
          /\ DediprogShutdown[3].op = "close"
      BY DEF DediprogShutdown, Ask, Just, S
    <2>2. 1 \in 1 .. 3 /\ 3 \in 1 .. 3
      OBVIOUS
    <2>3. ShutdownOf = DediprogShutdown
      BY <1>2 DEF ShutdownOf
    <2>4. ASSUME NEW k \in 1 .. 3
          PROVE  /\ DediprogShutdown[k].op \in {"ask", "close"}
                 /\ DediprogShutdown[k].arg \notin {"voltage", "devicestring", "toggle"}
      BY DEF DediprogShutdown, Ask, Just, S
    <2>5. Len(ShutdownOf) = 3
      BY <2>1, <2>3
    <2>6. /\ \E k \in 1 .. 3 : ShutdownOf[k].op = "close"
          /\ \E k \in 1 .. 3 : ShutdownOf[k].op = "ask" /\ ShutdownOf[k].arg = "voltage-off"
      BY <2>1, <2>2, <2>3
    <2>7. \A k \in 1 .. 3 : /\ ShutdownOf[k].op \in {"ask", "close"}
                           /\ ShutdownOf[k].arg \notin {"voltage", "devicestring", "toggle"}
      BY <2>3, <2>4
    <2> QED BY <2>5, <2>6, <2>7
  <1>3. CASE shutdownfn /\ adapter # "dediprog"
    <2>1. /\ Len(LinuxSpiShutdown) = 1
          /\ LinuxSpiShutdown[1].op = "close" /\ LinuxSpiShutdown[1].arg = "none"
      BY DEF LinuxSpiShutdown, Just, S
    <2>2. 1 \in 1 .. 1 /\ \A k \in 1 .. 1 : k = 1
      OBVIOUS
    <2>3. ShutdownOf = LinuxSpiShutdown
      BY <1>3 DEF ShutdownOf, Plain
    <2>4. Len(ShutdownOf) = 1
      BY <2>1, <2>3
    <2>5. \A k \in 1 .. 1 : ShutdownOf[k].op = "close" /\ ShutdownOf[k].arg = "none"
      BY <2>1, <2>2, <2>3
    <2>6. \E k \in 1 .. 1 : ShutdownOf[k].op = "close"
      BY <2>2, <2>5
    <2> QED BY <1>3, <2>4, <2>5, <2>6
  <1> QED BY <1>1, <1>2, <1>3

(* Shutdown goes on.                                                        *)
LEMMA PlainShutsOn ==
  ASSUME PlainInv, phase = "shutdown", step \in 1 .. Len(ShutdownOf), Proceed,
         UNCHANGED <<adapter, shutdownfn, usable>>, linkfailed => linkfailed',
         open' => open, dev'.power => dev.power,
         NEW e, e = ShutdownOf[step], linkfailed' \/ Undone(e)'
  PROVE  PlainInv'
  <1>1. ShutdownOf' = ShutdownOf /\ adapter \in Plain
    BY DEF ShutdownOf, PlainInv
  <1>2. Len(ShutdownOf) \in Nat
    BY <1>1, PlainShutdown
  <1>3. phase' = "shutdown" /\ step' = step + 1 /\ step' \in 1 .. Len(ShutdownOf) + 1
    BY <1>2 DEF Proceed
  <1>4. ASSUME ~linkfailed' PROVE ClosedOrRegistered'
    <2>1. ClosedOrRegistered
      BY <1>4 DEF PlainInv
    <2> QED BY <2>1 DEF ClosedOrRegistered
  <1>5. ASSUME ~linkfailed', NEW k \in 1 .. Len(ShutdownOf), k < step' PROVE Undone(ShutdownOf[k])'
    <2>1. CASE k < step
      <3>1. Undone(ShutdownOf[k])
        BY <1>5, <2>1 DEF PlainInv
      <3> QED BY <1>1, <3>1 DEF Undone
    <2>2. CASE k = step
      BY <1>1, <1>5, <2>2 DEF Undone
    <2> QED BY <1>2, <1>3, <1>5, <2>1, <2>2
  <1> QED BY <1>1, <1>3, <1>4, <1>5 DEF PlainInv

(* Every action of a shutdown.                                              *)
LEMMA PlainShutdownStep ==
  ASSUME PlainInv, phase = "shutdown", IsDevice(dev), AdaptersHost \/ ReadFails
  PROVE  PlainInv'
  <1>1. adapter \in Plain /\ List = ShutdownOf
    BY DEF PlainInv, List
  <1>2. /\ Len(ShutdownOf) \in Nat
        /\ \A k \in 1 .. Len(ShutdownOf) :
             /\ ShutdownOf[k].op \in {"ask", "close"}
             /\ ShutdownOf[k].arg \notin {"voltage", "devicestring", "toggle"}
    BY <1>1, PlainShutdown
  <1>3. ASSUME NEW op, Now(op)
        PROVE  step \in 1 .. Len(ShutdownOf) /\ op \in {"ask", "close"} /\ op = ShutdownOf[step].op
    BY <1>1, <1>2, <1>3 DEF Now, PlainInv
  <1>4. PICK e : e = ShutdownOf[step]
    OBVIOUS
  <1>5. CASE AskDevice
    <2>1. /\ Now("ask") /\ step \in 1 .. Len(ShutdownOf) /\ e.op = "ask" /\ Arg = e.arg
          /\ e.arg \notin {"voltage", "devicestring", "toggle"}
          /\ UNCHANGED <<adapter, shutdownfn, usable>>
      BY <1>1, <1>2, <1>3, <1>4, <1>5 DEF AskDevice, Arg
    <2>2. /\ ~Declines(Arg) /\ (Does(e.arg).power => dev.power)
          /\ e.arg = "voltage-off" => ~Does(e.arg).power
      BY <2>1, DeviceDoes DEF Declines
    <2>3. CASE dev' = Does(Arg) /\ Proceed /\ UNCHANGED <<open, linkfailed>>
      <3>1. Undone(e)'
        BY <2>1, <2>2, <2>3 DEF Undone
      <3> QED BY <1>4, <2>1, <2>2, <2>3, <3>1, PlainShutsOn
    <2>4. CASE linkfailed' = TRUE /\ StepFails(open) /\ dev' \in {dev, Does(Arg)}
      <3>1. CASE Proceed
        <4>1. open' => open
          BY <2>4 DEF StepFails
        <4> QED BY <1>4, <2>1, <2>2, <2>4, <3>1, <4>1, PlainShutsOn
      <3>2. CASE Over
        BY <1>1, <2>1, <2>4, <3>2 DEF Over, PlainInv, LeftAsFound
      <3> QED BY <2>4, <3>1, <3>2 DEF StepFails
    <2> QED BY <1>5, <2>2, <2>3, <2>4 DEF AskDevice
  <1>6. CASE Close
    <2>1. /\ step \in 1 .. Len(ShutdownOf) /\ e.op = "close" /\ Proceed /\ open' = FALSE
          /\ UNCHANGED <<adapter, dev, shutdownfn, usable, linkfailed>>
      BY <1>3, <1>4, <1>6 DEF Close
    <2>2. Undone(e)'
      BY <2>1 DEF Undone
    <2> QED BY <1>4, <2>1, <2>2, PlainShutsOn
  <1>7. CASE ListEnds
    <2>1. /\ phase' = "end" /\ step > Len(ShutdownOf)
          /\ UNCHANGED <<adapter, dev, open, shutdownfn, usable, linkfailed>>
      BY <1>1, <1>7 DEF ListEnds
    <2>2. ASSUME ~linkfailed PROVE LeftAsFound'
      <3>1. ClosedOrRegistered /\ \A k \in 1 .. Len(ShutdownOf) : Undone(ShutdownOf[k])
        BY <1>2, <2>1, <2>2 DEF PlainInv
      <3>2. shutdownfn => ~open
        BY <1>1, <3>1, PlainShutdown DEF Undone
      <3>3. shutdownfn /\ adapter = "dediprog" => ~dev.power
        BY <1>1, <3>1, PlainShutdown DEF Undone
      <3> QED BY <1>1, <2>1, <3>1, <3>2, <3>3 DEF LeftAsFound, ClosedOrRegistered, Plain
    <2>3. LeftAsFound'
      BY <2>1, <2>2 DEF LeftAsFound
    <2> QED BY <1>1, <2>1, <2>3 DEF PlainInv
  <1>8. ~Now("parameters") /\ ~Now("open") /\ ~Now("register_shutdown") /\ ~Now("register_master")
        /\ ~Now("send") /\ ~Now("wait") /\ ~Now("expect") /\ ~Now("version")
    BY <1>3
  <1>9. ~Parameters /\ ~FreedTwice /\ ~OpenDevice /\ ~Register /\ ~SendByte
    BY <1>8 DEF Parameters, FreedTwice, OpenDevice, Register, SendByte
  <1>10. ~WaitForString /\ ~ExpectByte /\ ~CheckVersion /\ ~ReadFails /\ ~Use
    BY <1>8 DEF WaitForString, ExpectByte, CheckVersion, ReadFails, Use
  <1> QED BY <1>5, <1>6, <1>7, <1>9, <1>10 DEF AdaptersHost

-----------------------------------------------------------------------------
(* Lines. One that is appended to another.                                  *)
LEMMA WordsJoined ==
  ASSUME NEW s \in Seq(Words), NEW t \in Seq(Words)
  PROVE  /\ s \o t \in Seq(Words)
         /\ \A w : Says(s \o t, w) <=> Says(s, w) \/ Says(t, w)
         /\ Paired(s) /\ Paired(t) => Paired(s \o t)
  <1>1. PICK r : r = s \o t
    OBVIOUS
  <1>2. r \in Seq(Words) /\ Follows(r, s, t)
    BY <1>1, Joined
  <1>3. Len(s) \in Nat /\ Len(t) \in Nat
    OBVIOUS
  <1>4. /\ Len(r) = Len(s) + Len(t)
        /\ \A k \in 1 .. Len(s) : r[k] = s[k]
        /\ \A k \in 1 .. Len(t) : r[Len(s) + k] = t[k]
    <2>1. Len(r) = Len(s) + Len(t)
      BY <1>2 DEF Follows
    <2>2. ASSUME NEW k \in 1 .. Len(s) PROVE r[k] = s[k]
      <3>1. k \in 1 .. Len(r) /\ k <= Len(s)
        BY <1>3, <2>1
      <3> QED BY <1>2, <3>1 DEF Follows
    <2>3. ASSUME NEW k \in 1 .. Len(t) PROVE r[Len(s) + k] = t[k]
      <3>1. Len(s) + k \in 1 .. Len(r) /\ ~(Len(s) + k <= Len(s)) /\ (Len(s) + k) - Len(s) = k
        BY <1>3, <2>1
      <3> QED BY <1>2, <3>1 DEF Follows
    <2> QED BY <2>1, <2>2, <2>3
  <1>5. ASSUME NEW w PROVE Says(r, w) <=> Says(s, w) \/ Says(t, w)
    <2>1. ASSUME Says(s, w) PROVE Says(r, w)
      <3>1. PICK k \in 1 .. Len(s) : s[k] = w
        BY <2>1 DEF Says
      <3> QED BY <1>3, <1>4, <3>1 DEF Says
    <2>2. ASSUME Says(t, w) PROVE Says(r, w)
      <3>1. PICK k \in 1 .. Len(t) : t[k] = w
        BY <2>2 DEF Says
      <3>2. Len(s) + k \in 1 .. Len(r)
        BY <1>3, <1>4, <3>1
      <3> QED BY <1>4, <3>1, <3>2 DEF Says
    <2>3. ASSUME Says(r, w) PROVE Says(s, w) \/ Says(t, w)
      <3>1. PICK k \in 1 .. Len(r) : r[k] = w
        BY <2>3 DEF Says
      <3>2. CASE k <= Len(s)
        BY <1>3, <1>4, <3>1, <3>2 DEF Says
      <3>3. CASE k > Len(s)
        <4>1. k - Len(s) \in 1 .. Len(t) /\ Len(s) + (k - Len(s)) = k
          BY <1>3, <1>4, <3>3
        <4> QED BY <1>4, <3>1, <4>1 DEF Says
      <3> QED BY <1>3, <3>2, <3>3
    <2> QED BY <2>1, <2>2, <2>3
  <1>6. ASSUME Paired(s), Paired(t), NEW k \in 1 .. Len(r), r[k] = "BBIO"
        PROVE  k + 1 \in 1 .. Len(r) /\ r[k + 1] = "1"
    <2>1. CASE k <= Len(s)
      <3>1. k + 1 \in 1 .. Len(s) /\ s[k + 1] = "1"
        BY <1>3, <1>4, <1>6, <2>1 DEF Paired
      <3> QED BY <1>3, <1>4, <3>1
    <2>2. CASE k > Len(s)
      <3>1. k - Len(s) \in 1 .. Len(t) /\ Len(s) + (k - Len(s)) = k
        BY <1>3, <1>4, <2>2
      <3>2. (k - Len(s)) + 1 \in 1 .. Len(t) /\ t[(k - Len(s)) + 1] = "1"
        BY <1>4, <1>6, <3>1 DEF Paired
      <3>3. PICK j : j = (k - Len(s)) + 1
        OBVIOUS
      <3>4. j \in 1 .. Len(t) /\ t[j] = "1"
        BY ONLY <3>2, <3>3
      <3>5. Len(s) + j = k + 1 /\ Len(s) + j \in 1 .. Len(s) + Len(t)
        BY ONLY <1>3, <3>1, <3>3, <3>4, <2>2, k \in 1 .. Len(r), <1>4
      <3>6. r[Len(s) + j] = t[j]
        BY ONLY <1>4, <3>4
      <3> QED BY ONLY <1>4, <3>4, <3>5, <3>6
    <2> QED BY <1>3, <2>1, <2>2
  <1> QED BY <1>1, <1>2, <1>5, <1>6 DEF Paired

(* What is left of one when m words are taken away.                         *)
Rest(s, m) == SubSeq(s, m + 1, Len(s))

(* It is still a line, and a BBIO in it is still followed by a 1.           *)
LEMMA WordsLeft ==
  ASSUME NEW s \in Seq(Words), NEW m \in 1 .. Len(s), NEW r, r = Rest(s, m)
  PROVE  /\ r \in Seq(Words) /\ Len(r) = Len(s) - m
         /\ \A k \in 1 .. Len(r) : r[k] = s[m + k] /\ m + k \in 1 .. Len(s)
         /\ \A w : Says(r, w) => Says(s, w)
         /\ Paired(s) => Paired(r)
  <1>1. Len(s) \in Nat /\ m + 1 \in Int /\ Len(s) \in Int
        /\ \A k \in m + 1 .. Len(s) : s[k] \in Words
    OBVIOUS
  <1>2. /\ SubSeq(s, m + 1, Len(s)) \in Seq(Words)
        /\ Len(SubSeq(s, m + 1, Len(s))) = IF m + 1 <= Len(s) THEN Len(s) - (m + 1) + 1 ELSE 0
        /\ \A k \in 1 .. Len(s) - (m + 1) + 1 : SubSeq(s, m + 1, Len(s))[k] = s[(m + 1) + k - 1]
    BY <1>1, SubSeqProperties
  <1>3. r \in Seq(Words) /\ Len(r) = Len(s) - m
    BY <1>1, <1>2 DEF Rest
  <1>4. ASSUME NEW k \in 1 .. Len(r) PROVE r[k] = s[m + k] /\ m + k \in 1 .. Len(s)
    <2>1. k \in 1 .. Len(s) - (m + 1) + 1 /\ (m + 1) + k - 1 = m + k /\ m + k \in 1 .. Len(s)
      BY <1>1, <1>3
    <2> QED BY <1>2, <2>1 DEF Rest
  <1>5. ASSUME NEW w, Says(r, w) PROVE Says(s, w)
    BY <1>4, <1>5 DEF Says
  <1>6. ASSUME Paired(s), NEW k \in 1 .. Len(r), r[k] = "BBIO"
        PROVE  k + 1 \in 1 .. Len(r) /\ r[k + 1] = "1"
    <2>1. (m + k) + 1 \in 1 .. Len(s) /\ s[(m + k) + 1] = "1"
      BY <1>4, <1>6 DEF Paired
    <2>2. k + 1 \in 1 .. Len(r) /\ m + (k + 1) = (m + k) + 1
      BY <1>1, <1>3, <2>1
    <2> QED BY <1>4, <2>1, <2>2
  <1> QED BY <1>3, <1>4, <1>5, <1>6 DEF Paired

(* A set of indices that is not empty has a least one.                      *)
LEMMA LeastIndex ==
  ASSUME NEW T, T \subseteq Nat, T # {}
  PROVE  \E n \in T : \A m \in T : n <= m
  <1> DEFINE Less == {mn \in Nat \X Nat : mn[1] < mn[2]}
  <1>1. IsWellFoundedOn(Less, Nat)
    BY NatLessThanWellFounded DEF OpToRel
  <1> HIDE DEF Less
  <1>2. PICK n \in T : \A m \in T : <<m, n>> \notin Less
    BY <1>1, WFMin
  <1>3. \A m \in T : ~(m < n)
    BY <1>2 DEF Less
  <1> QED BY <1>3

(* A word that is there is found, the first of them.                        *)
LEMMA KeyIs ==
  ASSUME line \in Seq(Words), NEW w, Says(line, w)
  PROVE  Key(w) \in 1 .. Len(line) /\ line[Key(w)] = w
  <1> DEFINE T == {k \in 1 .. Len(line) : line[k] = w}
  <1>1. T \subseteq Nat /\ T # {}
    BY DEF Says
  <1>2. PICK n \in T : \A m \in T : n <= m
    BY <1>1, LeastIndex
  <1>3. \A j \in 1 .. n - 1 : line[j] # w
    <2>1. SUFFICES ASSUME NEW j \in 1 .. n - 1, line[j] = w PROVE FALSE
      OBVIOUS
    <2>2. j \in T /\ j < n
      BY <2>1
    <2> QED BY <1>2, <2>2
  <1>4. \E k \in 1 .. Len(line) : line[k] = w /\ \A j \in 1 .. k - 1 : line[j] # w
    BY <1>3
  <1> QED BY <1>4 DEF Key

(* What a Bus Pirate answers.                                               *)
LEMMA AnswersAre ==
  ASSUME IsDevice(dev), NEW byte
  PROVE  /\ Answers(byte) \in Seq(Words) /\ Paired(Answers(byte))
         /\ Says(Answers(byte), "BBIO") => byte = "00" /\ ~(dev.swallow > 0) /\ ~MoreZeros
         /\ Says(Answers(byte), "irate") => byte = "0f"
         /\ Says(Answers(byte), "SPI") => byte = "01" /\ dev.mode = "bbio" /\ ~(dev.swallow > 0)
         /\ byte = "00" /\ ~MoreZeros /\ ~(dev.swallow > 0) => Says(Answers(byte), "BBIO")
         /\ NoneAfter(Answers(byte), "irate") /\ NoneAfter(Answers(byte), "SPI")
  <1> DEFINE two == <<"BBIO", "1">>
             banner == <<"noise", "irate", "hardware", "irmware", "version", "noise", "HiZ>">>
             spi == <<"SPI", "1">>
  <1>1. /\ two \in Seq(Words) /\ Paired(two) /\ Says(two, "BBIO") /\ ~Says(two, "irate")
        /\ ~Says(two, "SPI")
        /\ NoneAfter(two, "irate") /\ NoneAfter(two, "SPI")
    BY DEF Words, Paired, Says, NoneAfter
  <1>2. /\ banner \in Seq(Words) /\ Paired(banner) /\ ~Says(banner, "BBIO") /\ ~Says(banner, "SPI")
        /\ NoneAfter(banner, "irate") /\ NoneAfter(banner, "SPI")
    BY DEF Words, Paired, Says, NoneAfter
  <1>3. /\ spi \in Seq(Words) /\ Paired(spi) /\ ~Says(spi, "BBIO") /\ ~Says(spi, "irate")
        /\ NoneAfter(spi, "irate") /\ NoneAfter(spi, "SPI")
    BY DEF Words, Paired, Says, NoneAfter
  <1>4. ASSUME NEW s \in {<< >>, <<"echo">>, <<"ok">>}
        PROVE  /\ s \in Seq(Words) /\ Paired(s) /\ ~Says(s, "BBIO") /\ ~Says(s, "irate")
               /\ ~Says(s, "SPI")
               /\ NoneAfter(s, "irate") /\ NoneAfter(s, "SPI")
    <2>1. CASE s = << >>
      BY <2>1 DEF Words, Paired, Says, NoneAfter
    <2>2. CASE s = <<"echo">>
      BY <2>2 DEF Words, Paired, Says, NoneAfter
    <2>3. CASE s = <<"ok">>
      BY <2>3 DEF Words, Paired, Says, NoneAfter
    <2> QED BY <2>1, <2>2, <2>3
  <1>5. \/ Answers(byte) = two /\ byte = "00" /\ ~(dev.swallow > 0) /\ ~MoreZeros
        \/ Answers(byte) = banner /\ byte = "0f"
        \/ Answers(byte) = spi /\ byte = "01" /\ dev.mode = "bbio" /\ ~(dev.swallow > 0)
        \/ Answers(byte) \in {<< >>, <<"echo">>, <<"ok">>}
           /\ ~(byte = "00" /\ ~MoreZeros /\ ~(dev.swallow > 0))
    <2> HIDE DEF two, banner, spi
    <2>1. CASE dev.swallow > 0
      BY <2>1 DEF Answers
    <2>2. CASE ~(dev.swallow > 0) /\ byte = "00" /\ ~MoreZeros
      BY <2>2 DEF Answers, two
    <2>3. CASE ~(dev.swallow > 0) /\ byte = "00" /\ MoreZeros
      BY <2>3 DEF Answers
    <2>4. CASE ~(dev.swallow > 0) /\ byte = "0f" /\ dev.mode = "bbio"
      BY <2>4 DEF Answers, banner
    <2>5. CASE ~(dev.swallow > 0) /\ byte = "01" /\ dev.mode = "bbio"
      BY <2>5 DEF Answers, spi
    <2>6. CASE ~(dev.swallow > 0) /\ byte # "00" /\ ~(byte \in {"0f", "01"} /\ dev.mode = "bbio")
      BY <2>6 DEF Answers
    <2> QED BY <2>1, <2>2, <2>3, <2>4, <2>5, <2>6
  <1> HIDE DEF two, banner, spi
  <1>6. CASE Answers(byte) = two /\ byte = "00" /\ ~(dev.swallow > 0) /\ ~MoreZeros
    BY <1>1, <1>6
  <1>7. CASE Answers(byte) = banner /\ byte = "0f"
    BY <1>2, <1>7
  <1>8. CASE Answers(byte) = spi /\ byte = "01" /\ dev.mode = "bbio" /\ ~(dev.swallow > 0)
    BY <1>3, <1>8
  <1>9. CASE Answers(byte) \in {<< >>, <<"echo">>, <<"ok">>}
             /\ ~(byte = "00" /\ ~MoreZeros /\ ~(dev.swallow > 0))
    BY <1>4, <1>9
  <1> QED BY <1>5, <1>6, <1>7, <1>8, <1>9

(* What a byte makes of it.                                                 *)
LEMMA TakesIs ==
  ASSUME IsDevice(dev), NEW byte
  PROVE  /\ IsDevice(Takes(byte))
         /\ Takes(byte).ready \subseteq dev.ready \cup (Settings \cap {byte})
         /\ ~(dev.swallow > 0) =>
              /\ byte = "00" /\ ~MoreZeros =>
                   Takes(byte).mode = "bbio" /\ Takes(byte).swallow = 0
              /\ byte = "01" /\ dev.mode = "bbio" =>
                   Takes(byte).mode = "spi" /\ Takes(byte).swallow = 0
              /\ byte = "0f" /\ dev.mode = "bbio" =>
                   Takes(byte).mode = "terminal" /\ ~Takes(byte).power
              /\ byte \in Settings /\ dev.mode = "spi" =>
                   /\ Takes(byte).mode = "spi" /\ Takes(byte).swallow = 0
                   /\ Takes(byte).ready = dev.ready \cup {byte}
                   /\ byte = "power" => Takes(byte).power
                   /\ dev.power => Takes(byte).power
  <1>1. PICK m, z, n, f, p, r :
          dev = [mode |-> m, zeros |-> z, swallow |-> n, firmware |-> f, power |-> p, ready |-> r]
          /\ z \in Nat /\ n \in Nat
    BY DEF IsDevice
  <1>2. CASE n > 0
    <2>1. Takes(byte) = [mode |-> m, zeros |-> z, swallow |-> n - 1, firmware |-> f, power |-> p,
                         ready |-> r]
      BY <1>1, <1>2 DEF Takes
    <2> QED BY <1>1, <1>2, <2>1 DEF IsDevice
  <1>3. CASE ~(n > 0) /\ byte = "00" /\ m = "terminal" /\ z + 1 < Zeros
    <2>1. Takes(byte) = [mode |-> m, zeros |-> z + 1, swallow |-> n, firmware |-> f, power |-> p,
                         ready |-> r]
      BY <1>1, <1>3 DEF Takes, MoreZeros
    <2>2. MoreZeros
      BY <1>1, <1>3 DEF MoreZeros
    <2> QED BY <1>1, <1>3, <2>1, <2>2 DEF IsDevice, Settings
  <1>4. CASE ~(n > 0) /\ byte = "00" /\ ~(m = "terminal" /\ z + 1 < Zeros)
    <2>1. Takes(byte) = [mode |-> "bbio", zeros |-> 0, swallow |-> n, firmware |-> f, power |-> p,
                         ready |-> r]
      BY <1>1, <1>4 DEF Takes, MoreZeros
    <2> QED BY <1>1, <1>4, <2>1 DEF IsDevice, Settings
  <1>5. CASE ~(n > 0) /\ byte = "0f" /\ m = "bbio"
    <2>1. Takes(byte) = [mode |-> "terminal", zeros |-> z, swallow |-> n, firmware |-> f,
                         power |-> FALSE, ready |-> {}]
      BY <1>1, <1>5 DEF Takes
    <2> QED BY <1>1, <1>5, <2>1 DEF IsDevice, Settings
  <1>6. CASE ~(n > 0) /\ byte = "01" /\ m = "bbio"
    <2>1. Takes(byte) = [mode |-> "spi", zeros |-> z, swallow |-> n, firmware |-> f, power |-> p,
                         ready |-> r]
      BY <1>1, <1>6 DEF Takes
    <2> QED BY <1>1, <1>6, <2>1 DEF IsDevice, Settings
  <1>7. CASE ~(n > 0) /\ byte = "power" /\ m = "spi"
    <2>1. Takes(byte) = [mode |-> m, zeros |-> z, swallow |-> n, firmware |-> f, power |-> TRUE,
                         ready |-> r \cup {byte}]
      BY <1>1, <1>7 DEF Takes
    <2> QED BY <1>1, <1>7, <2>1 DEF IsDevice, Settings
  <1>8. CASE ~(n > 0) /\ byte \in {"speed", "config", "cs-high"} /\ m = "spi"
    <2>1. Takes(byte) = [mode |-> m, zeros |-> z, swallow |-> n, firmware |-> f, power |-> p,
                         ready |-> r \cup {byte}]
      BY <1>1, <1>8 DEF Takes
    <2>2. byte \in Settings /\ byte \notin {"00", "01", "0f", "power"}
          /\ Settings \cap {byte} = {byte}
      BY <1>8 DEF Settings
    <2>3. IsDevice(Takes(byte))
      BY <1>1, <2>1 DEF IsDevice
    <2> QED BY <1>1, <1>8, <2>1, <2>2, <2>3
  <1>9. CASE /\ ~(n > 0) /\ byte # "00"
             /\ ~(m = "bbio" /\ byte \in {"0f", "01"}) /\ ~(m = "spi" /\ byte \in Settings)
    <2>1. Takes(byte) = dev
      BY <1>1, <1>9 DEF Takes, Settings
    <2> QED BY <1>1, <1>9, <2>1 DEF IsDevice, Settings
  <1> QED BY <1>2, <1>3, <1>4, <1>5, <1>6, <1>7, <1>8, <1>9 DEF Settings

-----------------------------------------------------------------------------
(* The Bus Pirate's list: twice as many zeros as its terminal takes, and    *)
(* what comes before, between and after them.                               *)
PirateFirst == <<Just("parameters"), Just("open"), Just("register_shutdown")>>
PirateReset ==
  <<Wait("BBIO"), Send("0f"), Wait("irate"), Expect("hardware"), Wait("irmware"), Expect("version"),
    Wait("HiZ>"), Just("version")>>
PirateSetup ==
  <<Wait("BBIO"), Expect("1"), S("send", "01", "ignore"), Wait("SPI"), Expect("1"),
    Send("power"), Expect("ok"), Send("speed"), Expect("ok"), Send("config"), Expect("ok"),
    Send("cs-high"), Expect("ok"), Just("register_master")>>
PirateEntries ==
  {Just("parameters"), Just("open"), Just("register_shutdown"), Just("version"),
  Just("register_master"),
   S("send", "01", "ignore")}
  \cup {Send(b) : b \in {"00", "0f"} \cup Settings}
  \cup {Wait(w) : w \in {"BBIO", "irate", "irmware", "HiZ>", "SPI"}}
  \cup {Expect(w) : w \in {"1", "hardware", "version", "ok"}}

(* Where the first of two lists is.                                         *)
LEMMA FirstPart ==
  ASSUME NEW r, NEW s, NEW t, Follows(r, s, t), Len(s) \in Nat, Len(t) \in Nat
  PROVE  \A k \in 1 .. Len(s) : r[k] = s[k]
  <1> SUFFICES ASSUME NEW k \in 1 .. Len(s) PROVE r[k] = s[k]
    OBVIOUS
  <1>1. k \in 1 .. Len(r) /\ k <= Len(s)
    BY DEF Follows
  <1>2. r[k] = IF k <= Len(s) THEN s[k] ELSE t[k - Len(s)]
    BY <1>1 DEF Follows
  <1> QED BY <1>1, <1>2

(* Where the second of two lists is.                                        *)
LEMMA SecondPart ==
  ASSUME NEW r, NEW s, NEW t, Follows(r, s, t), Len(s) \in Nat, Len(t) \in Nat
  PROVE  \A k \in 1 .. Len(t) : r[Len(s) + k] = t[k]
  <1> SUFFICES ASSUME NEW k \in 1 .. Len(t) PROVE r[Len(s) + k] = t[k]
    OBVIOUS
  <1>1. Len(s) + k \in 1 .. Len(r) /\ ~(Len(s) + k <= Len(s)) /\ (Len(s) + k) - Len(s) = k
    BY DEF Follows
  <1>2. r[Len(s) + k] = IF Len(s) + k <= Len(s) THEN s[Len(s) + k] ELSE t[(Len(s) + k) - Len(s)]
    BY <1>1 DEF Follows
  <1> QED BY <1>1, <1>2

(* Where what is in it.                                                     *)
LEMMA PirateList ==
  ASSUME adapter = "buspirate"
  PROVE  /\ Len(InitOf) = 25 + 2 * Zeros
         /\ \A k \in 1 .. 3 : InitOf[k] = PirateFirst[k]
         /\ \A k \in 4 .. 3 + Zeros : InitOf[k] = Send("00")
         /\ \A k \in 1 .. 8 : InitOf[3 + Zeros + k] = PirateReset[k]
         /\ \A k \in 12 + Zeros .. 11 + 2 * Zeros : InitOf[k] = Send("00")
         /\ \A k \in 1 .. 14 : InitOf[11 + 2 * Zeros + k] = PirateSetup[k]
  <1> DEFINE first == PirateFirst
             zeros == RawBitbang
             reset == PirateReset
             setup == PirateSetup
             one == first \o zeros
             two == one \o reset
             three == two \o zeros
             all == three \o setup
  <1>1. InitOf = all
    BY DEF InitOf, BuspirateInit, PirateFirst, PirateReset, PirateSetup
  <1>2. PICK V : V = PirateEntries
    OBVIOUS
  <1>3. first \in Seq(V) /\ Len(first) = 3
    BY <1>2 DEF PirateFirst, PirateEntries
  <1>4. zeros \in Seq(V) /\ Len(zeros) = Zeros /\ \A k \in 1 .. Zeros : zeros[k] = Send("00")
    BY <1>2, AdaptersAssumption DEF RawBitbang, Replicate, PirateEntries
  <1>5. reset \in Seq(V) /\ Len(reset) = 8
    BY <1>2 DEF PirateReset, PirateEntries
  <1>6. setup \in Seq(V) /\ Len(setup) = 14
    BY <1>2 DEF PirateSetup, PirateEntries, Settings
  <1> HIDE DEF first, zeros, reset, setup
  <1>7. one \in Seq(V) /\ Follows(one, first, zeros)
    BY <1>3, <1>4, Joined
  <1> HIDE DEF one
  <1>8. two \in Seq(V) /\ Follows(two, one, reset)
    BY <1>5, <1>7, Joined
  <1> HIDE DEF two
  <1>9. three \in Seq(V) /\ Follows(three, two, zeros)
    BY <1>4, <1>8, Joined
  <1> HIDE DEF three
  <1>10. all \in Seq(V) /\ Follows(all, three, setup)
    BY <1>6, <1>9, Joined
  <1> HIDE DEF all
  <1>11. Zeros \in Nat
    BY AdaptersAssumption
  <1>12. Len(one) = 3 + Zeros /\ Len(two) = 11 + Zeros /\ Len(three) = 11 + 2 * Zeros
         /\ Len(all) = 25 + 2 * Zeros
    BY <1>3, <1>4, <1>5, <1>6, <1>7, <1>8, <1>9, <1>10, <1>11 DEF Follows
  <1>13. \A k \in 1 .. 11 + 2 * Zeros : all[k] = three[k]
    <2>1. Len(three) = 11 + 2 * Zeros /\ Len(three) \in Nat /\ Len(setup) \in Nat
      BY <1>6, <1>11, <1>12
    <2>2. \A k \in 1 .. Len(three) : all[k] = three[k]
      <3>1. Follows(all, three, setup) /\ Len(three) \in Nat /\ Len(setup) \in Nat
        BY <1>10, <2>1
      <3> QED BY ONLY <3>1, FirstPart
    <2> QED BY <2>1, <2>2
  <1>14. \A k \in 1 .. 11 + Zeros : all[k] = two[k]
    <2>1. Len(two) = 11 + Zeros /\ Len(two) \in Nat /\ Len(zeros) \in Nat
      BY <1>4, <1>11, <1>12
    <2>2. \A k \in 1 .. Len(two) : three[k] = two[k]
      <3>1. Follows(three, two, zeros) /\ Len(two) \in Nat /\ Len(zeros) \in Nat
        BY <1>9, <2>1
      <3> QED BY ONLY <3>1, FirstPart
    <2>3. \A k \in 1 .. 11 + Zeros : k \in 1 .. 11 + 2 * Zeros
      BY <1>11
    <2> QED BY <2>1, <2>2, <2>3, <1>13
  <1>15. \A k \in 1 .. 3 + Zeros : all[k] = one[k]
    <2>1. Len(one) = 3 + Zeros /\ Len(one) \in Nat /\ Len(reset) \in Nat
      BY <1>5, <1>11, <1>12
    <2>2. \A k \in 1 .. Len(one) : two[k] = one[k]
      <3>1. Follows(two, one, reset) /\ Len(one) \in Nat /\ Len(reset) \in Nat
        BY <1>8, <2>1
      <3> QED BY ONLY <3>1, FirstPart
    <2>3. \A k \in 1 .. 3 + Zeros : k \in 1 .. 11 + Zeros
      BY <1>11
    <2> QED BY <2>1, <2>2, <2>3, <1>14
  <1>16. \A k \in 1 .. 3 : all[k] = first[k]
    <2>1. Len(first) = 3 /\ Len(first) \in Nat /\ Len(zeros) \in Nat
      BY <1>3, <1>4, <1>11, <1>12
    <2>2. \A k \in 1 .. Len(first) : one[k] = first[k]
      <3>1. Follows(one, first, zeros) /\ Len(first) \in Nat /\ Len(zeros) \in Nat
        BY <1>7, <2>1
      <3> QED BY ONLY <3>1, FirstPart
    <2>3. \A k \in 1 .. 3 : k \in 1 .. 3 + Zeros
      BY <1>11
    <2> QED BY <2>1, <2>2, <2>3, <1>15
  <1>17. \A k \in 4 .. 3 + Zeros : all[k] = Send("00")
    <2>1. SUFFICES ASSUME NEW k \in 4 .. 3 + Zeros PROVE all[k] = Send("00")
      OBVIOUS
    <2>2. k - 3 \in 1 .. Zeros /\ 3 + (k - 3) = k /\ k \in 1 .. 3 + Zeros
      BY <1>11
    <2>3. \A j \in 1 .. Zeros : one[3 + j] = zeros[j]
      <3>1. Len(first) = 3 /\ Len(zeros) = Zeros
        BY <1>3, <1>4, <1>5, <1>6, <1>11, <1>12
      <3>2. Len(first) \in Nat /\ Len(zeros) \in Nat
        BY <1>3, <1>4, <1>5, <1>6, <1>11, <1>12
      <3>3. Follows(one, first, zeros)
        BY <1>7
      <3>4. \A j \in 1 .. Len(zeros) : one[Len(first) + j] = zeros[j]
        BY ONLY <3>2, <3>3, SecondPart
      <3> QED BY <3>1, <3>4
    <2> QED BY <1>4, <1>15, <2>2, <2>3
  <1>18. \A k \in 1 .. 8 : all[3 + Zeros + k] = reset[k]
    <2>1. SUFFICES ASSUME NEW k \in 1 .. 8 PROVE all[3 + Zeros + k] = reset[k]
      OBVIOUS
    <2>2. 3 + Zeros \in Nat /\ 3 + Zeros + k \in 1 .. 11 + Zeros
      BY <1>11
    <2>3. \A j \in 1 .. 8 : two[3 + Zeros + j] = reset[j]
      <3>1. Len(one) = 3 + Zeros /\ Len(reset) = 8
        BY <1>3, <1>4, <1>5, <1>6, <1>11, <1>12
      <3>2. Len(one) \in Nat /\ Len(reset) \in Nat
        BY <1>3, <1>4, <1>5, <1>6, <1>11, <1>12
      <3>3. Follows(two, one, reset)
        BY <1>8
      <3>4. \A j \in 1 .. Len(reset) : two[Len(one) + j] = reset[j]
        BY ONLY <3>2, <3>3, SecondPart
      <3> QED BY <3>1, <3>4
    <2> QED BY <1>14, <2>2, <2>3
  <1>19. \A k \in 12 + Zeros .. 11 + 2 * Zeros : all[k] = Send("00")
    <2>1. SUFFICES ASSUME NEW k \in 12 + Zeros .. 11 + 2 * Zeros PROVE all[k] = Send("00")
      OBVIOUS
    <2>2. /\ k - (11 + Zeros) \in 1 .. Zeros /\ (11 + Zeros) + (k - (11 + Zeros)) = k
          /\ k \in 1 .. 11 + 2 * Zeros /\ 11 + Zeros \in Nat
      BY <1>11
    <2>3. \A j \in 1 .. Zeros : three[11 + Zeros + j] = zeros[j]
      <3>1. Len(two) = 11 + Zeros /\ Len(zeros) = Zeros
        BY <1>3, <1>4, <1>5, <1>6, <1>11, <1>12
      <3>2. Len(two) \in Nat /\ Len(zeros) \in Nat
        BY <1>3, <1>4, <1>5, <1>6, <1>11, <1>12
      <3>3. Follows(three, two, zeros)
        BY <1>9
      <3>4. \A j \in 1 .. Len(zeros) : three[Len(two) + j] = zeros[j]
        BY ONLY <3>2, <3>3, SecondPart
      <3> QED BY <3>1, <3>4
    <2> QED BY <1>4, <1>13, <2>2, <2>3
  <1>20. \A k \in 1 .. 14 : all[11 + 2 * Zeros + k] = setup[k]
    <2>1. SUFFICES ASSUME NEW k \in 1 .. 14 PROVE all[11 + 2 * Zeros + k] = setup[k]
      OBVIOUS
    <2>2. 11 + 2 * Zeros \in Nat
      BY <1>11
    <2>3. \A j \in 1 .. 14 : all[11 + 2 * Zeros + j] = setup[j]
      <3>1. Len(three) = 11 + 2 * Zeros /\ Len(setup) = 14
        BY <1>3, <1>4, <1>5, <1>6, <1>11, <1>12
      <3>2. Len(three) \in Nat /\ Len(setup) \in Nat
        BY <1>3, <1>4, <1>5, <1>6, <1>11, <1>12
      <3>3. Follows(all, three, setup)
        BY <1>10
      <3>4. \A j \in 1 .. Len(setup) : all[Len(three) + j] = setup[j]
        BY ONLY <3>2, <3>3, SecondPart
      <3> QED BY <3>1, <3>4
    <2> QED BY <2>3
  <1> QED
    BY <1>1, <1>12, <1>16, <1>17, <1>18, <1>19, <1>20 DEF first, reset, setup

(* What is at which place of it.                                            *)
SendsAt(b, n) ==
  \/ b = "00" /\ n \in (4 .. 3 + Zeros) \cup (12 + Zeros .. 11 + 2 * Zeros)
  \/ b = "0f" /\ n = 5 + Zeros
  \/ b = "01" /\ n = 14 + 2 * Zeros
  \/ b = "power" /\ n = 17 + 2 * Zeros
  \/ b = "speed" /\ n = 19 + 2 * Zeros
  \/ b = "config" /\ n = 21 + 2 * Zeros
  \/ b = "cs-high" /\ n = 23 + 2 * Zeros
WaitsAt(w, n) ==
  \/ w = "BBIO" /\ n \in {4 + Zeros, 12 + 2 * Zeros}
  \/ w = "irate" /\ n = 6 + Zeros
  \/ w = "irmware" /\ n = 8 + Zeros
  \/ w = "HiZ>" /\ n = 10 + Zeros
  \/ w = "SPI" /\ n = 15 + 2 * Zeros
ExpectsAt(n) ==
  \/ n \in {7 + Zeros, 9 + Zeros}
  \/ n \in {13 + 2 * Zeros, 16 + 2 * Zeros, 18 + 2 * Zeros,
            20 + 2 * Zeros, 22 + 2 * Zeros, 24 + 2 * Zeros}
PirateAt(e, n) ==
  /\ e.onfail = IF n = 14 + 2 * Zeros THEN "ignore" ELSE "return"
  /\ \/ n = 1 /\ e.op = "parameters"
     \/ n = 2 /\ e.op = "open"
     \/ n = 3 /\ e.op = "register_shutdown"
     \/ n = 11 + Zeros /\ e.op = "version"
     \/ n = 25 + 2 * Zeros /\ e.op = "register_master"
     \/ e.op = "send" /\ SendsAt(e.arg, n)
     \/ e.op = "wait" /\ WaitsAt(e.arg, n)
     \/ e.op = "expect" /\ ExpectsAt(n)

(* Every entry is one of these.                                             *)
LEMMA PiratePlaces ==
  ASSUME adapter = "buspirate", NEW n \in 1 .. Len(InitOf)
  PROVE  PirateAt(InitOf[n], n)
  <1>1. Zeros \in Nat /\ Zeros > 0
    BY AdaptersAssumption
  <1>2. n \in 1 .. 25 + 2 * Zeros
    BY PirateList
  <1>3. CASE n \in 1 .. 3
    <2>1. InitOf[n] = PirateFirst[n]
      BY <1>3, PirateList
    <2>2. /\ n = 1 => PirateFirst[n] = Just("parameters")
          /\ n = 2 => PirateFirst[n] = Just("open")
          /\ n = 3 => PirateFirst[n] = Just("register_shutdown")
      BY DEF PirateFirst
    <2>3. n = 1 \/ n = 2 \/ n = 3
      BY <1>3
    <2> QED BY <1>1, <2>1, <2>2, <2>3 DEF PirateAt, Just, S
  <1>4. CASE n \in (4 .. 3 + Zeros) \cup (12 + Zeros .. 11 + 2 * Zeros)
    <2>1. InitOf[n] = Send("00")
      BY <1>4, PirateList
    <2> QED BY <1>1, <1>4, <2>1 DEF PirateAt, SendsAt, Send, S
  <1>5. CASE n \in 4 + Zeros .. 11 + Zeros
    <2>1. PICK k \in 1 .. 8 : n = 3 + Zeros + k
      <3>1. n - 3 - Zeros \in 1 .. 8 /\ n = 3 + Zeros + (n - 3 - Zeros)
        BY <1>1, <1>5
      <3> QED BY <3>1
    <2>2. InitOf[n] = PirateReset[k]
      BY <2>1, PirateList
    <2>3. /\ k = 1 => PirateReset[k] = Wait("BBIO")
          /\ k = 2 => PirateReset[k] = Send("0f")
          /\ k = 3 => PirateReset[k] = Wait("irate")
          /\ k = 4 => PirateReset[k] = Expect("hardware")
          /\ k = 5 => PirateReset[k] = Wait("irmware")
          /\ k = 6 => PirateReset[k] = Expect("version")
          /\ k = 7 => PirateReset[k] = Wait("HiZ>")
          /\ k = 8 => PirateReset[k] = Just("version")
      BY DEF PirateReset
    <2>4. n # 14 + 2 * Zeros
      BY <1>1, <1>5
    <2>5. k = 1 \/ k = 2 \/ k = 3 \/ k = 4 \/ k = 5 \/ k = 6 \/ k = 7 \/ k = 8
      BY <2>1
    <2>6. CASE k \in {1, 3, 5, 7}
      BY <1>1, <2>1, <2>2, <2>3, <2>4, <2>6 DEF PirateAt, WaitsAt, Wait, S
    <2>7. CASE k \in {4, 6}
      BY <1>1, <2>1, <2>2, <2>3, <2>4, <2>7 DEF PirateAt, ExpectsAt, Expect, S
    <2>8. CASE k \in {2, 8}
      BY <1>1, <2>1, <2>2, <2>3, <2>4, <2>8 DEF PirateAt, SendsAt, Send, Just, S
    <2> QED BY <2>5, <2>6, <2>7, <2>8
  <1>6. CASE n \in 12 + 2 * Zeros .. 25 + 2 * Zeros
    <2>1. PICK k \in 1 .. 14 : n = 11 + 2 * Zeros + k
      <3>1. n - 11 - 2 * Zeros \in 1 .. 14 /\ n = 11 + 2 * Zeros + (n - 11 - 2 * Zeros)
        BY <1>1, <1>6
      <3> QED BY <3>1
    <2>2. InitOf[n] = PirateSetup[k]
      BY <2>1, PirateList
    <2>3. /\ PirateSetup[1] = Wait("BBIO") /\ PirateSetup[2] = Expect("1")
          /\ PirateSetup[3] = S("send", "01", "ignore") /\ PirateSetup[4] = Wait("SPI")
          /\ PirateSetup[5] = Expect("1") /\ PirateSetup[6] = Send("power")
          /\ PirateSetup[7] = Expect("ok") /\ PirateSetup[8] = Send("speed")
          /\ PirateSetup[9] = Expect("ok") /\ PirateSetup[10] = Send("config")
          /\ PirateSetup[11] = Expect("ok") /\ PirateSetup[12] = Send("cs-high")
          /\ PirateSetup[13] = Expect("ok") /\ PirateSetup[14] = Just("register_master")
      BY DEF PirateSetup
    <2>4. n = 14 + 2 * Zeros <=> k = 3
      BY <1>1, <2>1
    <2>5. k \in {1, 4} \/ k \in {2, 5, 7, 9, 11, 13} \/ k = 3 \/ k \in {6, 8, 10, 12} \/ k = 14
      BY <2>1
    <2>6. CASE k \in {1, 4}
      BY <1>1, <2>1, <2>2, <2>3, <2>4, <2>6 DEF PirateAt, WaitsAt, Wait, S
    <2>7. CASE k \in {2, 5, 7, 9, 11, 13}
      BY <1>1, <2>1, <2>2, <2>3, <2>4, <2>7 DEF PirateAt, ExpectsAt, Expect, S
    <2>8. CASE k = 3
      BY <1>1, <2>1, <2>2, <2>3, <2>4, <2>8 DEF PirateAt, SendsAt, S
    <2>9. CASE k \in {6, 8, 10, 12}
      BY <1>1, <2>1, <2>2, <2>3, <2>4, <2>9 DEF PirateAt, SendsAt, Send, S
    <2>10. CASE k = 14
      BY <1>1, <2>1, <2>2, <2>3, <2>4, <2>10 DEF PirateAt, Just, S
    <2> QED BY <2>5, <2>6, <2>7, <2>8, <2>9, <2>10
  <1>7. \/ n \in 1 .. 3 \/ n \in (4 .. 3 + Zeros) \cup (12 + Zeros .. 11 + 2 * Zeros)
        \/ n \in 4 + Zeros .. 11 + Zeros \/ n \in 12 + 2 * Zeros .. 25 + 2 * Zeros
    BY <1>1, <1>2
  <1> QED BY <1>3, <1>4, <1>5, <1>6, <1>7

(* Its shutdown list.                                                       *)
LEMMA PirateShutdownList ==
  ASSUME adapter = "buspirate"
  PROVE  /\ ~shutdownfn => Len(ShutdownOf) = 0
         /\ shutdownfn =>
              /\ Len(ShutdownOf) = 5
              /\ ShutdownOf[1].op = "send" /\ ShutdownOf[1].arg = "00"
              /\ ShutdownOf[2].op = "wait" /\ ShutdownOf[2].arg = "BBIO"
              /\ ShutdownOf[3].op = "expect" /\ ShutdownOf[3].arg = "1"
              /\ ShutdownOf[4].op = "send" /\ ShutdownOf[4].arg = "0f"
              /\ ShutdownOf[5].op = "close"
  <1>1. CASE ~shutdownfn
    BY <1>1 DEF ShutdownOf
  <1>2. CASE shutdownfn
    <2>1. ShutdownOf = BuspirateShutdown
      BY <1>2 DEF ShutdownOf
    <2>2. /\ Len(BuspirateShutdown) = 5
          /\ BuspirateShutdown[1].op = "send" /\ BuspirateShutdown[1].arg = "00"
          /\ BuspirateShutdown[2].op = "wait" /\ BuspirateShutdown[2].arg = "BBIO"
          /\ BuspirateShutdown[3].op = "expect" /\ BuspirateShutdown[3].arg = "1"
          /\ BuspirateShutdown[4].op = "send" /\ BuspirateShutdown[4].arg = "0f"
          /\ BuspirateShutdown[5].op = "close"
      BY DEF BuspirateShutdown, S, Just
    <2> QED BY <1>2, <2>1, <2>2
  <1> QED BY <1>1, <1>2

(* A word that the first of two lines lacks.                                *)
LEMMA NoneAfterJoined ==
  ASSUME NEW s \in Seq(Words), NEW t \in Seq(Words), NEW r, Follows(r, s, t),
         NEW w, ~Says(s, w), NoneAfter(t, w)
  PROVE  NoneAfter(r, w)
  <1>1. Len(s) \in Nat /\ Len(t) \in Nat /\ Len(r) = Len(s) + Len(t)
    BY DEF Follows
  <1>2. SUFFICES ASSUME NEW k \in 1 .. Len(r), r[k] = w, NEW j \in k .. Len(r)
                 PROVE  r[j] # "BBIO"
    BY DEF NoneAfter
  <1>3. ~(k <= Len(s))
    <2>1. SUFFICES ASSUME k <= Len(s) PROVE FALSE
      OBVIOUS
    <2>2. k \in 1 .. Len(s)
      BY <1>1, <2>1
    <2>3. r[k] = s[k]
      BY <2>1 DEF Follows
    <2> QED BY <1>2, <2>2, <2>3 DEF Says
  <1>4. /\ k - Len(s) \in 1 .. Len(t) /\ j - Len(s) \in k - Len(s) .. Len(t)
        /\ ~(j <= Len(s)) /\ j \in 1 .. Len(r)
    BY <1>1, <1>2, <1>3
  <1>5. r[k] = t[k - Len(s)] /\ r[j] = t[j - Len(s)]
    BY <1>3, <1>4 DEF Follows
  <1> QED BY <1>2, <1>4, <1>5 DEF NoneAfter

(* The line after a byte was sent.                                          *)
Answered(byte, next) ==
  /\ next \in Seq(Words)
  /\ Paired(line) => Paired(next)
  /\ \A w : Says(next, w) <=> Says(line, w) \/ Says(Answers(byte), w)
  /\ ~Says(line, "irate") => NoneAfter(next, "irate")
  /\ ~Says(line, "SPI") => NoneAfter(next, "SPI")

(* A byte is answered, or lost with nothing done.                           *)
LEMMA ByteSent ==
  ASSUME IsDevice(dev), line \in Seq(Words), SendByte
  PROVE  \/ dev' = Takes(Arg) /\ Answered(Arg, line') /\ Proceed
            /\ open' = open /\ linkfailed' = linkfailed
         \/ linkfailed' /\ StepFails(open) /\ dev' = dev /\ line' = line
  <1> DEFINE With(s, t) == s \o t
  <1>1. \/ dev' = Takes(Arg) /\ line' = With(line, Answers(Arg)) /\ Proceed
           /\ open' = open /\ linkfailed' = linkfailed
        \/ linkfailed' /\ StepFails(open) /\ dev' = dev /\ line' = line
    BY Zenon DEF SendByte
  <1>2. Answers(Arg) \in Seq(Words) /\ Paired(Answers(Arg))
        /\ NoneAfter(Answers(Arg), "irate") /\ NoneAfter(Answers(Arg), "SPI")
    BY AnswersAre
  <1>3. ASSUME line' = With(line, Answers(Arg)) PROVE Answered(Arg, line')
    <2>1. PICK s, t, r : s = line /\ t = Answers(Arg) /\ r = line'
      OBVIOUS
    <2>2. r = s \o t /\ s \in Seq(Words) /\ t \in Seq(Words)
      BY <1>2, <1>3, <2>1, Zenon
    <2>3. /\ r \in Seq(Words)
          /\ \A w : Says(r, w) <=> Says(s, w) \/ Says(t, w)
          /\ Paired(s) /\ Paired(t) => Paired(r)
      BY <2>2, WordsJoined, Zenon
    <2>4. Follows(r, s, t)
      BY <2>2, Joined, Zenon
    <2>5. /\ ~Says(s, "irate") => NoneAfter(r, "irate")
          /\ ~Says(s, "SPI") => NoneAfter(r, "SPI")
      <3>1. s \in Seq(Words) /\ t \in Seq(Words) /\ NoneAfter(t, "irate") /\ NoneAfter(t, "SPI")
        BY <1>2, <2>1, Zenon
      <3> QED BY <2>4, <3>1, NoneAfterJoined, Zenon
    <2> QED BY <1>2, <2>1, <2>3, <2>5, Zenon DEF Answered
  <1> HIDE DEF With
  <1> QED BY <1>1, <1>3

(* The entry that is next.                                                  *)
LEMMA PirateNow ==
  ASSUME adapter = "buspirate", phase = "init", step \in 1 .. 26 + 2 * Zeros, NEW op, Now(op)
  PROVE  /\ step \in 1 .. 25 + 2 * Zeros
         /\ List[step].onfail = IF step = 14 + 2 * Zeros THEN "ignore" ELSE "return"
         /\ op \notin {"ask", "close"}
         /\ op = "parameters" => step = 1
         /\ op = "open" => step = 2
         /\ op = "register_shutdown" => step = 3
         /\ op = "version" => step = 11 + Zeros
         /\ op = "register_master" => step = 25 + 2 * Zeros
         /\ op = "send" => SendsAt(Arg, step)
         /\ op = "wait" => WaitsAt(Arg, step)
         /\ op = "expect" => ExpectsAt(step)
  <1>1. List = InitOf /\ Len(InitOf) = 25 + 2 * Zeros /\ Zeros \in Nat
    BY PirateList, AdaptersAssumption DEF List
  <1>2. step \in 1 .. Len(InitOf)
    BY <1>1 DEF Now
  <1>3. PirateAt(InitOf[step], step)
    BY <1>2, PiratePlaces
  <1> QED BY <1>1, <1>2, <1>3 DEF PirateAt, Now, Arg

(* init() goes on, with the device as it was and nothing new on the line.   *)
LEMMA PirateGoesOn ==
  ASSUME PirateInit, step \in 1 .. 25 + 2 * Zeros,
         step \notin {5 + Zeros, 14 + 2 * Zeros, 17 + 2 * Zeros, 19 + 2 * Zeros,
                      21 + 2 * Zeros, 23 + 2 * Zeros},
         step' = step + 1, dev' = dev, linkfailed' = linkfailed,
         \A w : Says(line', w) => Says(line, w),
         open' => open \/ step = 2,
         shutdownfn' <=> shutdownfn \/ step = 3,
         usable' => usable \/ step = 25 + 2 * Zeros,
         step = 6 + Zeros /\ ~linkfailed => ~Says(line', "BBIO"),
         step = 15 + 2 * Zeros => Says(line, "SPI") /\ (~linkfailed => ~Says(line', "BBIO"))
  PROVE  PirateInit'
  <1>1. Zeros \in Nat /\ Zeros > 0
    BY AdaptersAssumption
  <1>2. step' \in 1 .. 26 + 2 * Zeros /\ dev'.ready \subseteq Settings
    BY <1>1 DEF PirateInit
  <1>3. /\ open' => step' > 2
        /\ shutdownfn' <=> step' > 3
        /\ usable' => step' = 26 + 2 * Zeros
    BY <1>1 DEF PirateInit
  <1>4. /\ step' <= 5 + Zeros => ~Says(line', "irate")
        /\ step' <= 14 + 2 * Zeros => ~Says(line', "SPI")
        /\ step' # 15 + 2 * Zeros
    BY <1>1 DEF PirateInit
  <1>5. Listens("bbio")' = Listens("bbio") /\ Listens("spi")' = Listens("spi")
    BY DEF Listens
  <1>6. step' >= 16 + 2 * Zeros => Listens("spi")'
    BY <1>1, <1>5 DEF PirateInit
  <1>7. /\ step' >= 18 + 2 * Zeros => "power" \in dev'.ready /\ dev'.power
        /\ step' >= 20 + 2 * Zeros => "speed" \in dev'.ready
        /\ step' >= 22 + 2 * Zeros => "config" \in dev'.ready
        /\ step' >= 24 + 2 * Zeros => "cs-high" \in dev'.ready
    BY <1>1 DEF PirateInit
  <1>8. step' \notin {6 + Zeros, 15 + 2 * Zeros}
    BY <1>1
  <1>9. linkfailed' \/ Truthful'
    <2>1. CASE step \in {6 + Zeros, 15 + 2 * Zeros}
      BY <2>1 DEF Truthful
    <2>2. CASE step \notin {6 + Zeros, 15 + 2 * Zeros} /\ ~linkfailed
      <3>1. Truthful
        BY <2>2 DEF PirateInit
      <3> QED BY <1>5, <3>1 DEF Truthful
    <2> QED BY <2>1, <2>2
  <1> QED BY <1>2, <1>3, <1>4, <1>6, <1>7, <1>8, <1>9 DEF PirateInit

(* init() gives up, somewhere where the device is truthful, or before it    *)
(* was opened.                                                              *)
LEMMA PirateGivesUp ==
  ASSUME adapter = "buspirate", PirateInit, step \in 1 .. 25 + 2 * Zeros, step # 3,
         phase = "init", Over, open' => open,
         adapter' = adapter, shutdownfn' = shutdownfn, dev' = dev,
         \A w : Says(line', w) => Says(line, w),
         linkfailed' \/ (~linkfailed /\ step \notin {6 + Zeros, 15 + 2 * Zeros})
  PROVE  phase' = "shutdown" /\ (linkfailed' \/ PirateShutdown')
  <1>1. phase' = "shutdown" /\ step' = 1 /\ (open' => open)
    BY DEF Over
  <1>2. CASE ~linkfailed'
    <2>1. Truthful
      BY <1>2 DEF PirateInit
    <2>2. Truthful'
      BY <2>1 DEF Truthful, Listens
    <2>3. Zeros \in Nat
      BY AdaptersAssumption
    <2>4. ~shutdownfn => ~open
      BY <2>3 DEF PirateInit
    <2>5. Len(ShutdownOf') \in Nat /\ Len(ShutdownOf)' = Len(ShutdownOf')
      <3>1. ShutdownOf' = ShutdownOf
        BY DEF ShutdownOf
      <3> QED BY <3>1, PirateShutdownList
    <2>6. step' \in 1 .. Len(ShutdownOf') + 1
      BY <1>1, <2>5
    <2> QED BY <1>1, <2>2, <2>4, <2>5, <2>6 DEF PirateShutdown
  <1> QED BY <1>1, <1>2

(* One action after the other, in init(): the result is an init() that goes *)
(* on, a shutdown, or a programmer in use.                                  *)
PirateIn ==
  /\ adapter = "buspirate"
  /\ line \in Seq(Words) /\ Paired(line)
  /\ \/ phase = "init" /\ PirateInit
     \/ phase = "use" /\ PirateUse
     \/ phase = "shutdown" /\ (linkfailed \/ PirateShutdown)

(* parameters, opening, registering, the version: the line is left alone.   *)
LEMMA PirateByOthers ==
  ASSUME PirateIn, phase = "init", Parameters \/ OpenDevice \/ Register \/ CheckVersion
  PROVE  PirateIn'
  <1>1. /\ adapter = "buspirate" /\ line \in Seq(Words) /\ Paired(line) /\ PirateInit
        /\ step \in 1 .. 26 + 2 * Zeros
    BY DEF PirateIn, PirateInit
  <1>2. Zeros \in Nat /\ Zeros > 0
    BY AdaptersAssumption
  <1>3. /\ UNCHANGED <<adapter, dev, line, linkfailed>>
        /\ \A w : Says(line', w) => Says(line, w)
    BY DEF Parameters, OpenDevice, Register, CheckVersion
  <1>4. ASSUME step \in 1 .. 25 + 2 * Zeros, Proceed, step \in {1, 2, 3, 11 + Zeros,
               25 + 2 * Zeros},
               open' => open \/ step = 2,
               shutdownfn' <=> shutdownfn \/ step = 3,
               usable' => usable \/ step = 25 + 2 * Zeros
        PROVE  PirateIn'
    <2>1. step \notin {5 + Zeros, 14 + 2 * Zeros, 17 + 2 * Zeros, 19 + 2 * Zeros,
                       21 + 2 * Zeros, 23 + 2 * Zeros, 6 + Zeros, 15 + 2 * Zeros}
      BY <1>2, <1>4
    <2>2. phase' = "init" /\ step' = step + 1
      BY <1>4 DEF Proceed
    <2>3. PirateInit'
      BY <1>1, <1>3, <1>4, <2>1, <2>2, PirateGoesOn
    <2> QED BY <1>1, <1>3, <2>2, <2>3 DEF PirateIn
  <1>5. ASSUME step \in 1 .. 25 + 2 * Zeros, step \in {1, 2, 11 + Zeros}, shutdownfn' = shutdownfn,
               Over, open' => open
        PROVE  PirateIn'
    <2>1. linkfailed' \/ (~linkfailed /\ step \notin {6 + Zeros, 15 + 2 * Zeros})
      BY <1>2, <1>3, <1>5
    <2>2. step # 3
      BY <1>2, <1>5
    <2>3. phase' = "shutdown" /\ (linkfailed' \/ PirateShutdown')
      BY <1>1, <1>3, <1>5, <2>1, <2>2, PirateGivesUp
    <2> QED BY <1>1, <1>3, <2>3 DEF PirateIn
  <1>6. CASE Parameters
    <2>1. Now("parameters") /\ shutdownfn' = shutdownfn /\ usable' = usable
      BY <1>6 DEF Parameters
    <2>2. step = 1 /\ step \in 1 .. 25 + 2 * Zeros /\ List[step].onfail = "return"
      <3>1. /\ step = 1 /\ step \in 1 .. 25 + 2 * Zeros
            /\ List[step].onfail = IF step = 14 + 2 * Zeros THEN "ignore" ELSE "return"
        BY <1>1, <2>1, PirateNow
      <3>2. step # 14 + 2 * Zeros
        BY <1>2, <3>1
      <3> QED BY <3>1, <3>2
    <2>3. ~(step = 3) /\ ~(step = 25 + 2 * Zeros)
      BY <1>2, <2>2
    <2>4. CASE Proceed /\ open' = open
      BY <1>4, <2>1, <2>2, <2>3, <2>4
    <2>5. CASE StepFails(open)
      <3>1. Over /\ (open' => open)
        BY <2>2, <2>5 DEF StepFails
      <3> QED BY <1>5, <2>1, <2>2, <3>1
    <2> QED BY <1>6, <2>4, <2>5 DEF Parameters
  <1>7. CASE OpenDevice
    <2>1. Now("open") /\ shutdownfn' = shutdownfn /\ usable' = usable
      BY <1>7 DEF OpenDevice
    <2>2. step = 2 /\ step \in 1 .. 25 + 2 * Zeros /\ List[step].onfail = "return"
      <3>1. /\ step = 2 /\ step \in 1 .. 25 + 2 * Zeros
            /\ List[step].onfail = IF step = 14 + 2 * Zeros THEN "ignore" ELSE "return"
        BY <1>1, <2>1, PirateNow
      <3>2. step # 14 + 2 * Zeros
        BY <1>2, <3>1
      <3> QED BY <3>1, <3>2
    <2>3. ~(step = 3) /\ ~(step = 25 + 2 * Zeros)
      BY <1>2, <2>2
    <2>4. CASE Proceed
      BY <1>4, <2>1, <2>2, <2>3, <2>4
    <2>5. CASE Over /\ ~open'
      BY <1>5, <2>1, <2>2, <2>5
    <2>6. Proceed \/ (Over /\ ~open')
      BY <1>7, <2>2 DEF OpenDevice, StepFails
    <2> QED BY <2>4, <2>5, <2>6
  <1>8. CASE CheckVersion
    <2>1. Now("version") /\ shutdownfn' = shutdownfn /\ usable' = usable
      BY <1>8 DEF CheckVersion
    <2>2. step = 11 + Zeros /\ step \in 1 .. 25 + 2 * Zeros /\ List[step].onfail = "return"
      <3>1. /\ step = 11 + Zeros /\ step \in 1 .. 25 + 2 * Zeros
            /\ List[step].onfail = IF step = 14 + 2 * Zeros THEN "ignore" ELSE "return"
        BY <1>1, <2>1, PirateNow
      <3>2. step # 14 + 2 * Zeros
        BY <1>2, <3>1
      <3> QED BY <3>1, <3>2
    <2>3. ~(step = 3) /\ ~(step = 25 + 2 * Zeros)
      BY <1>2, <2>2
    <2>4. CASE Proceed /\ open' = open
      BY <1>4, <2>1, <2>2, <2>3, <2>4
    <2>5. CASE StepFails(open)
      <3>1. Over /\ (open' => open)
        BY <2>2, <2>5 DEF StepFails
      <3> QED BY <1>5, <2>1, <2>2, <3>1
    <2> QED BY <1>8, <2>4, <2>5 DEF CheckVersion
  <1>9. CASE Register
    <2>1. Proceed /\ open' = open
      BY <1>9 DEF Register
    <2>2. CASE Now("register_shutdown") /\ shutdownfn' /\ usable' = usable
      <3>1. step = 3 /\ step \in 1 .. 25 + 2 * Zeros
        BY <1>1, <2>2, PirateNow
      <3> QED BY <1>4, <2>1, <2>2, <3>1
    <2>3. CASE Now("register_master") /\ shutdownfn' = shutdownfn
      <3>1. step = 25 + 2 * Zeros /\ step \in 1 .. 25 + 2 * Zeros
        BY <1>1, <2>3, PirateNow
      <3>2. ~(step = 3)
        BY <1>2, <3>1
      <3> QED BY <1>4, <2>1, <2>3, <3>1, <3>2
    <2>4. \/ Now("register_shutdown") /\ shutdownfn' /\ usable' = usable
          \/ Now("register_master") /\ shutdownfn' = shutdownfn
      BY <1>9 DEF Register
    <2> QED BY <2>2, <2>3, <2>4
  <1> QED BY <1>6, <1>7, <1>8, <1>9

(* A wait takes the line up to its key, and what follows the key is left.   *)
LEMMA Waited ==
  ASSUME line \in Seq(Words), Paired(line), WaitForString
  PROVE  /\ line' \in Seq(Words) /\ Paired(line')
         /\ \A w : Says(line', w) => Says(line, w)
         /\ Says(line, Arg)
         /\ NoneAfter(line, Arg) => ~Says(line', "BBIO")
         /\ Arg = "BBIO" => line' # << >> /\ line'[1] = "1"
  <1>1. PICK m, s, r : m = Key(Arg) /\ s = line /\ r = line'
    OBVIOUS
  <1>2. Says(line, Arg) /\ r = SubSeq(s, m + 1, Len(s))
    BY <1>1 DEF WaitForString, Says
  <1>3. m \in 1 .. Len(s) /\ s[m] = Arg /\ s \in Seq(Words)
    BY <1>1, <1>2, KeyIs
  <1>4. /\ r \in Seq(Words) /\ Len(r) = Len(s) - m
        /\ \A k \in 1 .. Len(r) : r[k] = s[m + k] /\ m + k \in 1 .. Len(s)
        /\ \A w : Says(r, w) => Says(s, w)
        /\ Paired(s) => Paired(r)
    <2>1. s \in Seq(Words)
      BY <1>3
    <2>2. m \in 1 .. Len(s)
      BY <1>3
    <2>3. r = Rest(s, m)
      BY <1>2 DEF Rest
    <2> QED BY <2>1, <2>2, <2>3, WordsLeft
  <1>5. ASSUME NoneAfter(s, Arg), Says(r, "BBIO") PROVE FALSE
    <2>1. PICK k \in 1 .. Len(r) : r[k] = "BBIO"
      BY <1>5 DEF Says
    <2>2. s[m + k] = "BBIO" /\ m + k \in m .. Len(s)
      BY <1>3, <1>4, <2>1
    <2> QED BY <1>3, <1>5, <2>2 DEF NoneAfter
  <1>6. ASSUME Arg = "BBIO" PROVE r # << >> /\ r[1] = "1"
    <2>1. m + 1 \in 1 .. Len(s) /\ s[m + 1] = "1"
      BY <1>1, <1>3, <1>6 DEF Paired
    <2>2. 1 \in 1 .. Len(r)
      BY <1>3, <1>4, <2>1
    <2>3. r # << >>
      BY <2>2
    <2> QED BY <1>4, <2>1, <2>2, <2>3
  <1> QED BY <1>1, <1>2, <1>4, <1>5, <1>6

(* An answer that is read.                                                  *)
LEMMA AnswerRead ==
  ASSUME line \in Seq(Words), Paired(line), line # << >>, line' = Tail(line)
  PROVE  /\ line' \in Seq(Words) /\ Paired(line')
         /\ \A w : Says(line', w) => Says(line, w)
  <1>1. PICK s, r : s = line /\ r = line'
    OBVIOUS
  <1>2. s \in Seq(Words) /\ 1 \in 1 .. Len(s)
    BY <1>1
  <1>3. r = Rest(s, 1)
    BY <1>1, <1>2 DEF Rest
  <1> QED BY <1>1, <1>2, <1>3, WordsLeft

(* Waiting for a word.                                                      *)
LEMMA PirateByWait ==
  ASSUME PirateIn, phase = "init", WaitForString
  PROVE  PirateIn'
  <1>1. /\ adapter = "buspirate" /\ line \in Seq(Words) /\ Paired(line) /\ PirateInit
        /\ step \in 1 .. 26 + 2 * Zeros
    BY DEF PirateIn, PirateInit
  <1>2. Zeros \in Nat /\ Zeros > 0
    BY AdaptersAssumption
  <1>3. /\ line' \in Seq(Words) /\ Paired(line')
        /\ \A w : Says(line', w) => Says(line, w)
        /\ Says(line, Arg) /\ (NoneAfter(line, Arg) => ~Says(line', "BBIO"))
    BY <1>1, Waited
  <1>4. /\ Now("wait") /\ Proceed /\ UNCHANGED <<adapter, dev, open, shutdownfn, usable,
                                                 linkfailed>>
    BY DEF WaitForString
  <1>5. step \in 1 .. 25 + 2 * Zeros /\ WaitsAt(Arg, step)
    BY <1>1, <1>4, PirateNow
  <1>6. /\ step \notin {1, 2, 3, 5 + Zeros, 14 + 2 * Zeros, 17 + 2 * Zeros, 19 + 2 * Zeros,
                        21 + 2 * Zeros, 23 + 2 * Zeros, 25 + 2 * Zeros}
        /\ step = 6 + Zeros => Arg = "irate"
        /\ step = 15 + 2 * Zeros => Arg = "SPI"
    BY <1>2, <1>5 DEF WaitsAt
  <1>7. step = 6 + Zeros /\ ~linkfailed => ~Says(line', "BBIO")
    BY <1>1, <1>2, <1>3, <1>6 DEF PirateInit
  <1>8. step = 15 + 2 * Zeros => Says(line, "SPI") /\ (~linkfailed => ~Says(line', "BBIO"))
    BY <1>1, <1>2, <1>3, <1>6 DEF PirateInit
  <1>9. phase' = "init" /\ step' = step + 1
    BY <1>4 DEF Proceed
  <1>10. PirateInit'
    BY <1>1, <1>3, <1>4, <1>5, <1>6, <1>7, <1>8, <1>9, PirateGoesOn
  <1> QED BY <1>1, <1>3, <1>4, <1>9, <1>10 DEF PirateIn

(* An answer that is the right one, or not.                                 *)
LEMMA PirateByExpect ==
  ASSUME PirateIn, phase = "init", ExpectByte
  PROVE  PirateIn'
  <1>1. /\ adapter = "buspirate" /\ line \in Seq(Words) /\ Paired(line) /\ PirateInit
        /\ step \in 1 .. 26 + 2 * Zeros
    BY DEF PirateIn, PirateInit
  <1>2. Zeros \in Nat /\ Zeros > 0
    BY AdaptersAssumption
  <1>3. /\ line' \in Seq(Words) /\ Paired(line')
        /\ \A w : Says(line', w) => Says(line, w)
    BY <1>1, AnswerRead DEF ExpectByte
  <1>4. Now("expect") /\ UNCHANGED <<adapter, dev, shutdownfn, usable, linkfailed>>
    BY DEF ExpectByte
  <1>5. step \in 1 .. 25 + 2 * Zeros /\ ExpectsAt(step)
        /\ List[step].onfail = (IF step = 14 + 2 * Zeros THEN "ignore" ELSE "return")
    BY <1>1, <1>4, PirateNow
  <1>6. step \notin {1, 2, 3, 5 + Zeros, 6 + Zeros, 14 + 2 * Zeros, 15 + 2 * Zeros, 17 + 2 * Zeros,
                     19 + 2 * Zeros, 21 + 2 * Zeros, 23 + 2 * Zeros, 25 + 2 * Zeros}
    BY <1>2, <1>5 DEF ExpectsAt
  <1>7. CASE Proceed /\ open' = open
    <2>1. phase' = "init" /\ step' = step + 1
      BY <1>7 DEF Proceed
    <2>2. PirateInit'
      BY <1>1, <1>3, <1>4, <1>5, <1>6, <1>7, <2>1, PirateGoesOn
    <2> QED BY <1>1, <1>3, <1>4, <2>1, <2>2 DEF PirateIn
  <1>8. CASE StepFails(open)
    <2>1. Over /\ (open' => open)
      BY <1>5, <1>6, <1>8 DEF StepFails
    <2>2. linkfailed' \/ (~linkfailed /\ step \notin {6 + Zeros, 15 + 2 * Zeros})
      BY <1>4, <1>6
    <2>3. phase' = "shutdown" /\ (linkfailed' \/ PirateShutdown')
      BY <1>1, <1>3, <1>4, <1>5, <1>6, <2>1, <2>2, PirateGivesUp
    <2> QED BY <1>1, <1>3, <1>4, <2>3 DEF PirateIn
  <1> QED BY <1>7, <1>8 DEF ExpectByte

(* A read fails.                                                            *)
LEMMA PirateByReadFails ==
  ASSUME PirateIn, phase = "init", ReadFails
  PROVE  PirateIn'
  <1>1. /\ adapter = "buspirate" /\ line \in Seq(Words) /\ Paired(line) /\ PirateInit
        /\ step \in 1 .. 26 + 2 * Zeros
    BY DEF PirateIn, PirateInit
  <1>2. Zeros \in Nat /\ Zeros > 0
    BY AdaptersAssumption
  <1>3. /\ linkfailed' /\ StepFails(open) /\ UNCHANGED <<adapter, dev, line, shutdownfn, usable>>
        /\ Now("wait") \/ Now("expect")
    BY DEF ReadFails
  <1>4. step # 14 + 2 * Zeros
        /\ List[step].onfail = (IF step = 14 + 2 * Zeros THEN "ignore" ELSE "return")
    <2>1. CASE Now("wait")
      <3>1. WaitsAt(Arg, step)
            /\ List[step].onfail = (IF step = 14 + 2 * Zeros THEN "ignore" ELSE "return")
        BY <1>1, <2>1, PirateNow
      <3> QED BY <1>2, <3>1 DEF WaitsAt
    <2>2. CASE Now("expect")
      <3>1. ExpectsAt(step)
            /\ List[step].onfail = (IF step = 14 + 2 * Zeros THEN "ignore" ELSE "return")
        BY <1>1, <2>2, PirateNow
      <3> QED BY <1>2, <3>1 DEF ExpectsAt
    <2> QED BY <1>3, <2>1, <2>2
  <1>5. phase' = "shutdown"
    BY <1>3, <1>4 DEF StepFails, Over
  <1> QED BY <1>1, <1>3, <1>5 DEF PirateIn

(* Whoever says BBIO when a byte was sent is in raw bitbang mode: the line  *)
(* said so before, or the byte was the last 0x00 that it took.              *)
LEMMA StaysTruthful ==
  ASSUME IsDevice(dev), NEW byte, Answered(byte, line'), dev' = Takes(byte), Truthful,
         byte = "00" \/ ~Says(line, "BBIO")
  PROVE  Truthful'
  <1>1. SUFFICES ASSUME Says(line', "BBIO") PROVE Listens("bbio")'
    BY DEF Truthful
  <1>2. Says(line, "BBIO") \/ Says(Answers(byte), "BBIO")
    BY <1>1 DEF Answered
  <1>3. byte = "00" /\ ~(dev.swallow > 0) /\ ~MoreZeros
    <2>1. CASE Says(Answers(byte), "BBIO")
      BY <2>1, AnswersAre
    <2>2. CASE Says(line, "BBIO")
      <3>1. Listens("bbio")
        BY <2>2 DEF Truthful
      <3> QED BY <2>2, <3>1 DEF Listens, MoreZeros
    <2> QED BY <1>2, <2>1, <2>2
  <1>4. Takes(byte).mode = "bbio" /\ Takes(byte).swallow = 0
    BY <1>3, TakesIs
  <1> QED BY <1>4 DEF Listens

(* The byte arrives.                                                        *)
LEMMA PirateSends ==
  ASSUME PirateInit, IsDevice(dev), step \in 1 .. 25 + 2 * Zeros, SendsAt(Arg, step),
         dev' = Takes(Arg), Answered(Arg, line'), step' = step + 1,
         open' = open, linkfailed' = linkfailed, shutdownfn' = shutdownfn, usable' = usable
  PROVE  PirateInit'
  <1>1. Zeros \in Nat /\ Zeros > 0
    BY AdaptersAssumption
  <1>2. PICK b : b = Arg
    OBVIOUS
  <1>3. /\ step \in 4 .. 23 + 2 * Zeros
        /\ b = "0f" <=> step = 5 + Zeros
        /\ b = "01" <=> step = 14 + 2 * Zeros
        /\ b = "00" <=> step < 5 + Zeros \/ (step > 6 + Zeros /\ step < 12 + 2 * Zeros)
        /\ b = "power" <=> step = 17 + 2 * Zeros
        /\ b = "speed" <=> step = 19 + 2 * Zeros
        /\ b = "config" <=> step = 21 + 2 * Zeros
        /\ b = "cs-high" <=> step = 23 + 2 * Zeros
        /\ b \in {"00", "0f", "01"} \cup Settings
    BY <1>1, <1>2 DEF SendsAt, Settings
  <1>4. step \notin {6 + Zeros, 15 + 2 * Zeros}
    BY <1>1, <1>2 DEF SendsAt
  <1>5. /\ Takes(b).ready \subseteq dev.ready \cup (Settings \cap {b})
        /\ ~(dev.swallow > 0) =>
             /\ b = "01" /\ dev.mode = "bbio" => Takes(b).mode = "spi" /\ Takes(b).swallow = 0
             /\ b \in Settings /\ dev.mode = "spi" =>
                  /\ Takes(b).mode = "spi" /\ Takes(b).swallow = 0
                  /\ Takes(b).ready = dev.ready \cup {b}
                  /\ b = "power" => Takes(b).power
                  /\ dev.power => Takes(b).power
    BY TakesIs
  <1>6. /\ Says(Answers(b), "irate") => b = "0f"
        /\ Says(Answers(b), "SPI") => b = "01" /\ dev.mode = "bbio" /\ ~(dev.swallow > 0)
    BY AnswersAre
  <1>7. /\ step' \in 1 .. 26 + 2 * Zeros
        /\ dev'.ready \subseteq Settings
        /\ open' => step' > 2
        /\ shutdownfn' <=> step' > 3
        /\ usable' => step' = 26 + 2 * Zeros
    BY <1>1, <1>2, <1>3, <1>5 DEF PirateInit
  <1>8. step' <= 5 + Zeros => ~Says(line', "irate")
    BY <1>1, <1>2, <1>3, <1>6 DEF PirateInit, Answered
  <1>9. step' <= 14 + 2 * Zeros => ~Says(line', "SPI")
    BY <1>1, <1>2, <1>3, <1>6 DEF PirateInit, Answered
  <1>10. step' = 15 + 2 * Zeros => (Says(line', "SPI") => Listens("spi")')
    <2>1. SUFFICES ASSUME step' = 15 + 2 * Zeros, Says(line', "SPI") PROVE Listens("spi")'
      OBVIOUS
    <2>2. ~Says(line, "SPI")
      BY <1>1, <1>3, <2>1 DEF PirateInit
    <2>3. Says(Answers(b), "SPI")
      BY <1>2, <2>1, <2>2 DEF Answered
    <2> QED BY <1>2, <1>5, <1>6, <2>3 DEF Listens
  <1>11. CASE step < 16 + 2 * Zeros
    <2>1. ~(step' >= 16 + 2 * Zeros)
      BY <1>1, <1>3, <1>4, <1>11
    <2>2. step' = 6 + Zeros => NoneAfter(line', "irate")
      <3>1. step' = 6 + Zeros => step <= 5 + Zeros
        BY <1>1, <1>3
      <3>2. step <= 5 + Zeros => ~Says(line, "irate")
        BY DEF PirateInit
      <3> QED BY <3>1, <3>2 DEF Answered
    <2>3. step' = 15 + 2 * Zeros => NoneAfter(line', "SPI")
      <3>1. step' = 15 + 2 * Zeros => step <= 14 + 2 * Zeros
        BY <1>1, <1>3
      <3>2. step <= 14 + 2 * Zeros => ~Says(line, "SPI")
        BY DEF PirateInit
      <3> QED BY <3>1, <3>2 DEF Answered
    <2>4. step' \notin {6 + Zeros, 15 + 2 * Zeros} => linkfailed' \/ Truthful'
      <3>1. SUFFICES ASSUME step' \notin {6 + Zeros, 15 + 2 * Zeros}, ~linkfailed PROVE Truthful'
        OBVIOUS
      <3>2. Truthful
        BY <1>4, <3>1 DEF PirateInit
      <3>3. b = "00"
        BY <1>1, <1>3, <1>11, <3>1 DEF Settings
      <3> QED BY <1>2, <3>2, <3>3, StaysTruthful
    <2>5. ~(step' >= 18 + 2 * Zeros) /\ ~(step' >= 20 + 2 * Zeros) /\ ~(step' >= 22 + 2 * Zeros)
          /\ ~(step' >= 24 + 2 * Zeros)
      BY <1>1, <1>3, <2>1
    <2> HIDE <1>3, <1>11
    <2> QED BY <1>7, <1>8, <1>9, <1>10, <2>1, <2>2, <2>3, <2>4, <2>5 DEF PirateInit
  <1>12. CASE step >= 16 + 2 * Zeros
    <2>1. Listens("spi") /\ b \in Settings
      BY <1>1, <1>3, <1>12 DEF PirateInit
    <2>2. dev.mode = "spi" /\ ~(dev.swallow > 0)
      BY <2>1 DEF Listens
    <2>3. /\ Listens("spi")' /\ dev'.ready = dev.ready \cup {b}
          /\ b = "power" => dev'.power
          /\ dev.power => dev'.power
      BY <1>2, <1>5, <2>1, <2>2 DEF Listens
    <2>4. /\ step' >= 18 + 2 * Zeros => "power" \in dev'.ready /\ dev'.power
          /\ step' >= 20 + 2 * Zeros => "speed" \in dev'.ready
      BY <1>1, <1>3, <2>3 DEF PirateInit
    <2>5. /\ step' >= 22 + 2 * Zeros => "config" \in dev'.ready
          /\ step' >= 24 + 2 * Zeros => "cs-high" \in dev'.ready
      BY <1>1, <1>3, <2>3 DEF PirateInit
    <2>6. ~linkfailed => ~Says(line, "BBIO")
      BY <1>4, <2>2 DEF PirateInit, Truthful, Listens
    <2>7. ~Says(Answers(b), "BBIO")
      BY <2>1, AnswersAre DEF Settings
    <2>8. linkfailed' \/ Truthful'
      BY <1>2, <2>6, <2>7 DEF Truthful, Answered
    <2>9. step' \notin {6 + Zeros, 15 + 2 * Zeros}
      BY <1>1, <1>3, <1>12
    <2> QED BY <1>7, <1>8, <1>9, <1>10, <2>3, <2>4, <2>5, <2>8, <2>9 DEF PirateInit
  <1> QED BY <1>1, <1>3, <1>11, <1>12

(* Sending in init(): a byte that is lost ends it, but the 0x01.            *)
LEMMA PirateBySend ==
  ASSUME PirateIn, phase = "init", IsDevice(dev), SendByte
  PROVE  PirateIn'
  <1>1. /\ adapter = "buspirate" /\ line \in Seq(Words) /\ Paired(line) /\ PirateInit
        /\ step \in 1 .. 26 + 2 * Zeros
    BY DEF PirateIn, PirateInit
  <1>2. Zeros \in Nat /\ Zeros > 0
    BY AdaptersAssumption
  <1>3. Now("send") /\ adapter' = adapter /\ shutdownfn' = shutdownfn /\ usable' = usable
    BY DEF SendByte
  <1>4. step \in 1 .. 25 + 2 * Zeros /\ SendsAt(Arg, step)
        /\ List[step].onfail = (IF step = 14 + 2 * Zeros THEN "ignore" ELSE "return")
    BY <1>1, <1>3, PirateNow
  <1>5. CASE dev' = Takes(Arg) /\ Answered(Arg, line') /\ Proceed /\ open' = open
        /\ linkfailed' = linkfailed
    <2>1. phase' = "init" /\ step' = step + 1
      BY <1>5 DEF Proceed
    <2>2. PirateInit'
      BY <1>1, <1>3, <1>4, <1>5, <2>1, PirateSends
    <2>3. line' \in Seq(Words) /\ Paired(line')
      BY <1>1, <1>5 DEF Answered
    <2> QED BY <1>1, <1>3, <2>1, <2>2, <2>3 DEF PirateIn
  <1>6. CASE linkfailed' /\ StepFails(open) /\ dev' = dev /\ line' = line
    <2>1. CASE step = 14 + 2 * Zeros
      <3>1. Proceed /\ (open' => open)
        BY <1>4, <1>6, <2>1 DEF StepFails
      <3>2. phase' = "init" /\ step' = 15 + 2 * Zeros
        BY <1>2, <2>1, <3>1 DEF Proceed
      <3>3. ~Says(line', "SPI") /\ ~usable' /\ shutdownfn' /\ dev'.ready \subseteq Settings
        BY <1>1, <1>2, <1>3, <1>6, <2>1 DEF PirateInit
      <3>4. step' \in 1 .. 26 + 2 * Zeros /\ step' > 3 /\ ~(step' <= 5 + Zeros)
            /\ ~(step' <= 14 + 2 * Zeros) /\ ~(step' >= 16 + 2 * Zeros)
            /\ ~(step' >= 18 + 2 * Zeros) /\ ~(step' >= 20 + 2 * Zeros)
            /\ ~(step' >= 22 + 2 * Zeros) /\ ~(step' >= 24 + 2 * Zeros) /\ step' > 2
        BY <1>2, <3>2
      <3>5. PirateInit'
        BY <1>6, <3>3, <3>4 DEF PirateInit
      <3> QED BY <1>1, <1>3, <1>6, <3>2, <3>5 DEF PirateIn
    <2>2. CASE step # 14 + 2 * Zeros
      <3>1. phase' = "shutdown"
        BY <1>4, <1>6, <2>2 DEF StepFails, Over
      <3> QED BY <1>1, <1>3, <1>6, <3>1 DEF PirateIn
    <2> QED BY <2>1, <2>2
  <1> QED BY <1>1, <1>5, <1>6, ByteSent

(* The end of init(): every setting was acknowledged.                       *)
LEMMA PirateByListEnds ==
  ASSUME PirateIn, phase = "init", ListEnds
  PROVE  PirateIn'
  <1>1. /\ adapter = "buspirate" /\ line \in Seq(Words) /\ Paired(line) /\ PirateInit
    BY DEF PirateIn
  <1>2. Zeros \in Nat /\ Zeros > 0
    BY AdaptersAssumption
  <1>3. /\ phase' = "use" /\ step' = 1 /\ step > Len(List)
        /\ UNCHANGED <<adapter, dev, line, shutdownfn, linkfailed>>
    BY DEF ListEnds
  <1>4. Len(List) = 25 + 2 * Zeros
    BY <1>1, PirateList DEF List
  <1>5. step = 26 + 2 * Zeros
    BY <1>1, <1>2, <1>3, <1>4 DEF PirateInit
  <1>6. /\ step > 3 /\ step >= 16 + 2 * Zeros /\ step >= 18 + 2 * Zeros /\ step >= 20 + 2 * Zeros
        /\ step >= 22 + 2 * Zeros /\ step >= 24 + 2 * Zeros
        /\ step # 6 + Zeros /\ step # 15 + 2 * Zeros
    BY <1>2, <1>5
  <1>7. shutdownfn /\ Listens("spi") /\ dev.power /\ dev.ready = Settings
        /\ (linkfailed \/ Truthful)
    BY <1>1, <1>6 DEF PirateInit, Settings
  <1>8. PirateUse'
    BY <1>3, <1>7 DEF PirateUse, Listens, Truthful
  <1> QED BY <1>1, <1>3, <1>8 DEF PirateIn

(* The use.                                                                 *)
LEMMA PirateByUse ==
  ASSUME PirateIn, Use
  PROVE  PirateIn'
  <1>1. /\ adapter = "buspirate" /\ line \in Seq(Words) /\ Paired(line) /\ PirateUse
        /\ phase' = "shutdown" /\ UNCHANGED <<adapter, line, step, open, shutdownfn>>
    BY DEF PirateIn, Use
  <1>2. CASE linkfailed'
    BY <1>1, <1>2 DEF PirateIn
  <1>3. CASE dev' = dev /\ linkfailed' = linkfailed
    <2>1. linkfailed' \/ Truthful'
      BY <1>1, <1>3 DEF PirateUse, Truthful, Listens
    <2>2. Len(ShutdownOf)' \in Nat
      <3>1. ShutdownOf' = ShutdownOf
        BY <1>1 DEF ShutdownOf
      <3> QED BY <1>1, <3>1, PirateShutdownList
    <2>3. step' \in 1 .. Len(ShutdownOf)' + 1 /\ step' = 1 /\ shutdownfn'
      BY <1>1, <2>2 DEF PirateUse
    <2>4. linkfailed' \/ PirateShutdown'
      BY <2>1, <2>3 DEF PirateShutdown
    <2> QED BY <1>1, <2>4 DEF PirateIn
  <1> QED BY <1>2, <1>3 DEF Use

-----------------------------------------------------------------------------
(* The Bus Pirate's shutdown. What every action of it leaves alone.         *)
LEMMA PirateShutsLine ==
  ASSUME phase = "shutdown", line \in Seq(Words), Paired(line), IsDevice(dev),
         AdaptersHost \/ ReadFails
  PROVE  /\ adapter' = adapter /\ phase' \in {"shutdown", "end"} /\ (linkfailed => linkfailed')
         /\ line' \in Seq(Words) /\ Paired(line')
  <1>1. CASE SendByte
    <2>1. adapter' = adapter
      BY <1>1 DEF SendByte
    <2>2. CASE Answered(Arg, line') /\ Proceed /\ linkfailed' = linkfailed
      BY <2>1, <2>2 DEF Answered, Proceed
    <2>3. CASE linkfailed' /\ StepFails(open) /\ line' = line
      BY <2>1, <2>3 DEF StepFails, Over, Proceed
    <2> QED BY <1>1, <2>2, <2>3, ByteSent
  <1>2. CASE WaitForString
    BY <1>2, Waited DEF WaitForString, Proceed
  <1>3. CASE ExpectByte
    <2>1. line' \in Seq(Words) /\ Paired(line')
      BY <1>3, AnswerRead DEF ExpectByte
    <2>2. adapter' = adapter /\ linkfailed' = linkfailed /\ (Proceed \/ StepFails(open))
      BY <1>3 DEF ExpectByte
    <2> QED BY <2>1, <2>2 DEF StepFails, Over, Proceed
  <1>4. CASE Parameters \/ FreedTwice \/ OpenDevice \/ Register \/ CheckVersion
    BY <1>4 DEF Parameters, FreedTwice, OpenDevice, Register, CheckVersion, StepFails, Over,
                Proceed
  <1>5. CASE AskDevice \/ ReadFails
    BY <1>5 DEF AskDevice, ReadFails, StepFails, Over, Proceed
  <1>6. CASE Close \/ ListEnds
    BY <1>6 DEF Close, ListEnds, Proceed
  <1>7. ~Use
    BY DEF Use
  <1> QED BY <1>1, <1>2, <1>3, <1>4, <1>5, <1>6, <1>7 DEF AdaptersHost

(* The entry that is next.                                                  *)
LEMMA PirateShutdownNow ==
  ASSUME adapter = "buspirate", phase = "shutdown", PirateShutdown, NEW op, Now(op)
  PROVE  /\ shutdownfn /\ step \in 1 .. 5
         /\ step \in {1, 4} => op = "send"
         /\ step = 1 => Arg = "00"
         /\ step = 4 => Arg = "0f"
         /\ step = 2 => op = "wait" /\ Arg = "BBIO"
         /\ step = 3 => op = "expect" /\ Arg = "1"
         /\ step = 5 => op = "close"
  <1>1. List = ShutdownOf /\ step \in 1 .. Len(ShutdownOf) + 1
    BY DEF List, PirateShutdown
  <1>2. shutdownfn /\ Len(ShutdownOf) = 5
    BY <1>1, PirateShutdownList DEF Now
  <1>3. step \in 1 .. 5
    BY <1>1, <1>2 DEF Now
  <1>4. step = 1 \/ step = 2 \/ step = 3 \/ step = 4 \/ step = 5
    BY <1>3
  <1> QED BY <1>1, <1>2, <1>3, <1>4, PirateShutdownList DEF Now, Arg

(* Its five entries, one after the other.                                   *)
LEMMA PirateShutsDown ==
  ASSUME adapter = "buspirate", phase = "shutdown", PirateShutdown, ~linkfailed',
         line \in Seq(Words), Paired(line), IsDevice(dev), AdaptersHost \/ ReadFails
  PROVE  \/ phase' = "shutdown" /\ PirateShutdown'
         \/ phase' = "end" /\ LeftAsFound'
  <1>1. Len(ShutdownOf) \in Nat /\ (shutdownfn => Len(ShutdownOf) = 5)
        /\ (~shutdownfn => Len(ShutdownOf) = 0)
    BY PirateShutdownList
  <1>2. ASSUME Proceed, shutdownfn, shutdownfn' = shutdownfn, adapter' = adapter, step \in 1 .. 5,
               step = 1 => Truthful',
               step = 2 => line' # << >> /\ line'[1] = "1",
               step \in {2, 3} => Listens("bbio")',
               step >= 4 => dev'.mode = "terminal" /\ ~dev'.power,
               step >= 5 => ~open'
        PROVE  phase' = "shutdown" /\ PirateShutdown'
    <2>1. step' = step + 1 /\ phase' = "shutdown"
      BY <1>2 DEF Proceed
    <2>2. Len(ShutdownOf)' = 5
      <3>1. ShutdownOf' = ShutdownOf
        BY <1>2 DEF ShutdownOf
      <3> QED BY <1>1, <1>2, <3>1
    <2>3. /\ step' \in 1 .. Len(ShutdownOf)' + 1
          /\ step' <= 2 => Truthful'
          /\ step' \in {3, 4} => Listens("bbio")'
          /\ step' = 3 => line' # << >> /\ line'[1] = "1"
          /\ step' >= 5 => dev'.mode = "terminal" /\ ~dev'.power
          /\ step' >= 6 => ~open'
      BY <1>2, <2>1, <2>2
    <2> QED BY <1>2, <2>1, <2>3 DEF PirateShutdown
  <1>3. CASE SendByte
    <2>1. shutdownfn /\ step \in 1 .. 5 /\ ((step = 1 /\ Arg = "00") \/ (step = 4 /\ Arg = "0f"))
      <3>1. Now("send")
        BY <1>3 DEF SendByte
      <3>2. step = 1 \/ step = 2 \/ step = 3 \/ step = 4 \/ step = 5
        BY <3>1, PirateShutdownNow
      <3> QED BY <3>1, <3>2, PirateShutdownNow
    <2>2. dev' = Takes(Arg) /\ Answered(Arg, line') /\ Proceed
      BY <1>3, ByteSent
    <2>3. shutdownfn' = shutdownfn /\ adapter' = adapter
      BY <1>3 DEF SendByte
    <2>4. CASE step = 1
      <3>1. Truthful /\ Arg = "00"
        BY <2>1, <2>4 DEF PirateShutdown
      <3>2. PICK b : b = Arg
        OBVIOUS
      <3>3. Truthful'
        BY <2>2, <3>1, <3>2, StaysTruthful
      <3> QED BY <1>2, <2>1, <2>2, <2>3, <2>4, <3>3
    <2>5. CASE step = 4
      <3>1. Listens("bbio") /\ Arg = "0f"
        BY <2>1, <2>5 DEF PirateShutdown
      <3>2. PICK b : b = Arg
        OBVIOUS
      <3>3. Takes(b).mode = "terminal" /\ ~Takes(b).power
        BY <3>1, <3>2, TakesIs DEF Listens
      <3>4. dev'.mode = "terminal" /\ ~dev'.power
        BY <2>2, <3>2, <3>3
      <3> QED BY <1>2, <2>1, <2>2, <2>3, <2>5, <3>4
    <2> QED BY <2>1, <2>4, <2>5
  <1>4. CASE WaitForString
    <2>1. shutdownfn /\ step = 2 /\ Arg = "BBIO"
      <3>1. Now("wait")
        BY <1>4 DEF WaitForString
      <3>2. step = 1 \/ step = 2 \/ step = 3 \/ step = 4 \/ step = 5
        BY <3>1, PirateShutdownNow
      <3> QED BY <3>1, <3>2, PirateShutdownNow
    <2>2. Proceed /\ UNCHANGED <<adapter, dev, open, shutdownfn>>
      BY <1>4 DEF WaitForString
    <2>3. Says(line, "BBIO") /\ line' # << >> /\ line'[1] = "1"
      BY <1>4, <2>1, Waited
    <2>4. Listens("bbio")
      BY <2>1, <2>3 DEF PirateShutdown, Truthful
    <2>5. Listens("bbio")'
      BY <2>2, <2>4 DEF Listens
    <2> QED BY <1>2, <2>1, <2>2, <2>3, <2>5
  <1>5. CASE ExpectByte
    <2>1. shutdownfn /\ step = 3 /\ Arg = "1"
      <3>1. Now("expect")
        BY <1>5 DEF ExpectByte
      <3>2. step = 1 \/ step = 2 \/ step = 3 \/ step = 4 \/ step = 5
        BY <3>1, PirateShutdownNow
      <3> QED BY <3>1, <3>2, PirateShutdownNow
    <2>2. Listens("bbio") /\ line # << >> /\ line[1] = "1"
      BY <2>1 DEF PirateShutdown
    <2>3. Head(line) = Arg
      BY <2>1, <2>2
    <2>4. Proceed /\ UNCHANGED <<adapter, dev, open, shutdownfn>>
      BY <1>5, <2>3 DEF ExpectByte
    <2>5. Listens("bbio")'
      BY <2>2, <2>4 DEF Listens
    <2> QED BY <1>2, <2>1, <2>4, <2>5
  <1>6. CASE Close
    <2>1. shutdownfn /\ step = 5
      <3>1. Now("close")
        BY <1>6 DEF Close
      <3>2. step = 1 \/ step = 2 \/ step = 3 \/ step = 4 \/ step = 5
        BY <3>1, PirateShutdownNow
      <3> QED BY <3>1, <3>2, PirateShutdownNow
    <2>2. Proceed /\ ~open' /\ UNCHANGED <<adapter, dev, shutdownfn>>
      BY <1>6 DEF Close
    <2>3. dev.mode = "terminal" /\ ~dev.power
      BY <2>1 DEF PirateShutdown
    <2> QED BY <1>2, <2>1, <2>2, <2>3
  <1>7. CASE ListEnds
    <2>1. /\ phase' = "end" /\ step > Len(ShutdownOf)
          /\ UNCHANGED <<adapter, dev, open, shutdownfn, usable, linkfailed>>
      BY <1>7 DEF ListEnds, List
    <2>2. ~shutdownfn => ~open
      BY DEF PirateShutdown
    <2>3. shutdownfn => dev.mode = "terminal" /\ ~dev.power /\ ~open
      <3>1. step \in 1 .. Len(ShutdownOf) + 1
        BY DEF PirateShutdown
      <3>2. ASSUME shutdownfn PROVE step >= 6 /\ step >= 5
        <4>1. step > 5 /\ step \in 1 .. 6
          <5>1. Len(ShutdownOf) = 5
            BY <1>1, <3>2
          <5>2. step > Len(ShutdownOf)
            BY <2>1
          <5> QED BY <3>1, <5>1, <5>2
        <4> QED BY <4>1
      <3> QED BY <3>2 DEF PirateShutdown
    <2>4. LeftAsFound'
      BY <2>1, <2>2, <2>3 DEF LeftAsFound
    <2> QED BY <2>1, <2>4
  <1>8. ASSUME NEW op, Now(op) PROVE op \in {"send", "wait", "expect", "close"}
    <2>1. step = 1 \/ step = 2 \/ step = 3 \/ step = 4 \/ step = 5
      BY <1>8, PirateShutdownNow
    <2> QED BY <1>8, <2>1, PirateShutdownNow
  <1>9. ~Now("parameters") /\ ~Now("open") /\ ~Now("register_shutdown") /\ ~Now("register_master")
        /\ ~Now("version") /\ ~Now("ask")
    BY <1>8
  <1>10. ~Parameters /\ ~FreedTwice /\ ~OpenDevice /\ ~Register /\ ~CheckVersion /\ ~AskDevice
    BY <1>9 DEF Parameters, FreedTwice, OpenDevice, Register, CheckVersion, AskDevice
  <1>11. ~Use /\ ~ReadFails
    BY DEF Use, ReadFails
  <1> QED BY <1>3, <1>4, <1>5, <1>6, <1>7, <1>10, <1>11 DEF AdaptersHost

-----------------------------------------------------------------------------
(* Every action of a Bus Pirate's driver.                                   *)
LEMMA PirateStep ==
  ASSUME PirateInv, phase \in {"init", "use", "shutdown", "end"}, IsDevice(dev),
         AdaptersHost \/ ReadFails
  PROVE  PirateInv'
  <1>1. adapter = "buspirate" /\ line \in Seq(Words) /\ Paired(line)
    BY DEF PirateInv
  <1>2. ASSUME PirateIn' PROVE PirateInv'
    BY <1>2 DEF PirateIn, PirateInv
  <1>3. CASE phase = "init"
    <2>1. PirateIn
      BY <1>1, <1>3 DEF PirateIn, PirateInv
    <2>2. ASSUME NEW op, Now(op) PROVE op \notin {"ask", "close"}
      <3>1. step \in 1 .. 26 + 2 * Zeros
        BY <1>3 DEF PirateInv, PirateInit
      <3> QED BY <1>1, <1>3, <2>2, <3>1, PirateNow
    <2>3. ~Now("ask") /\ ~Now("close")
      BY <2>2
    <2>4. ~AskDevice /\ ~Close /\ ~Use /\ ~FreedTwice
      BY <1>1, <1>3, <2>3 DEF AskDevice, Close, Use, FreedTwice
    <2>5. CASE Parameters \/ OpenDevice \/ Register \/ CheckVersion
      BY <1>2, <1>3, <2>1, <2>5, PirateByOthers
    <2>6. CASE SendByte
      BY <1>2, <1>3, <2>1, <2>6, PirateBySend
    <2>7. CASE WaitForString
      BY <1>2, <1>3, <2>1, <2>7, PirateByWait
    <2>8. CASE ExpectByte
      BY <1>2, <1>3, <2>1, <2>8, PirateByExpect
    <2>9. CASE ReadFails
      BY <1>2, <1>3, <2>1, <2>9, PirateByReadFails
    <2>10. CASE ListEnds
      BY <1>2, <1>3, <2>1, <2>10, PirateByListEnds
    <2> QED BY <2>4, <2>5, <2>6, <2>7, <2>8, <2>9, <2>10 DEF AdaptersHost
  <1>4. CASE phase = "use"
    <2>1. PirateIn
      BY <1>1, <1>4 DEF PirateIn, PirateInv
    <2>2. ~Parameters /\ ~FreedTwice /\ ~OpenDevice /\ ~Register /\ ~SendByte /\ ~WaitForString
          /\ ~ExpectByte /\ ~CheckVersion /\ ~AskDevice /\ ~Close /\ ~ListEnds /\ ~ReadFails
      BY <1>4 DEF Parameters, FreedTwice, OpenDevice, Register, SendByte, WaitForString,
                  ExpectByte, CheckVersion,
                  AskDevice, Close, ListEnds, ReadFails, Now
    <2> QED BY <1>2, <2>1, <2>2, PirateByUse DEF AdaptersHost
  <1>5. CASE phase = "shutdown"
    <2>1. /\ adapter' = adapter /\ phase' \in {"shutdown", "end"} /\ (linkfailed => linkfailed')
          /\ line' \in Seq(Words) /\ Paired(line')
      BY <1>1, <1>5, PirateShutsLine
    <2>2. CASE linkfailed'
      BY <1>1, <2>1, <2>2 DEF PirateInv, LeftAsFound
    <2>3. CASE ~linkfailed'
      <3>1. PirateShutdown
        BY <1>5, <2>1, <2>3 DEF PirateInv
      <3>2. \/ phase' = "shutdown" /\ PirateShutdown'
            \/ phase' = "end" /\ LeftAsFound'
        BY <1>1, <1>5, <2>3, <3>1, PirateShutsDown
      <3> QED BY <1>1, <2>1, <3>2 DEF PirateInv
    <2> QED BY <2>2, <2>3
  <1>6. CASE phase = "end"
    BY <1>6 DEF AdaptersHost, Parameters, FreedTwice, OpenDevice, Register, SendByte, WaitForString,
                ExpectByte, CheckVersion, AskDevice, Close, ListEnds, Use, ReadFails, Now
  <1> QED BY <1>3, <1>4, <1>5, <1>6

(* Every action of the others.                                              *)
LEMMA PlainStep ==
  ASSUME PlainInv, phase \in {"init", "use", "shutdown", "end"}, IsDevice(dev),
         AdaptersHost \/ ReadFails
  PROVE  PlainInv'
  <1>1. CASE phase = "init"
    <2>1. ASSUME NEW op, Now(op)
          PROVE  op \in {"parameters", "open", "ask", "register_shutdown", "register_master"}
      BY <1>1, <2>1, PlainNow
    <2>2. ~Now("send") /\ ~Now("wait") /\ ~Now("expect") /\ ~Now("version") /\ ~Now("close")
      BY <2>1
    <2>3. ~SendByte /\ ~WaitForString /\ ~ExpectByte /\ ~CheckVersion /\ ~Close /\ ~ReadFails
          /\ ~Use
      BY <1>1, <2>2 DEF SendByte, WaitForString, ExpectByte, CheckVersion, Close, ReadFails, Use
    <2>4. CASE Parameters \/ FreedTwice
      BY <1>1, <2>4, PlainByParameters, PlainByFreedTwice
    <2>5. CASE OpenDevice
      BY <1>1, <2>5, PlainByOpen
    <2>6. CASE Register
      BY <1>1, <2>6, PlainByRegister
    <2>7. CASE AskDevice
      BY <1>1, <2>7, PlainByAsk
    <2>8. CASE ListEnds
      BY <1>1, <2>8, PlainByListEnds
    <2> QED BY <2>3, <2>4, <2>5, <2>6, <2>7, <2>8 DEF AdaptersHost
  <1>2. CASE phase = "use"
    <2>1. ~Parameters /\ ~FreedTwice /\ ~OpenDevice /\ ~Register /\ ~SendByte /\ ~WaitForString
          /\ ~ExpectByte /\ ~CheckVersion /\ ~AskDevice /\ ~Close /\ ~ListEnds /\ ~ReadFails
      BY <1>2 DEF Parameters, FreedTwice, OpenDevice, Register, SendByte, WaitForString,
                  ExpectByte, CheckVersion,
                  AskDevice, Close, ListEnds, ReadFails, Now
    <2> QED BY <2>1, PlainByUse DEF AdaptersHost
  <1>3. CASE phase = "shutdown"
    BY <1>3, PlainShutdownStep
  <1>4. CASE phase = "end"
    BY <1>4 DEF AdaptersHost, Parameters, FreedTwice, OpenDevice, Register, SendByte, WaitForString,
                ExpectByte, CheckVersion, AskDevice, Close, ListEnds, Use, ReadFails, Now
  <1> QED BY <1>1, <1>2, <1>3, <1>4

(* The device remains one.                                                  *)
LEMMA DeviceKept ==
  ASSUME phase \in {"init", "use", "shutdown", "end"}, IsDevice(dev), AdaptersHost \/ ReadFails
  PROVE  phase' \in {"init", "use", "shutdown", "end"} /\ IsDevice(dev)'
  <1>1. phase' \in {"init", "use", "shutdown", "end"}
    BY DEF AdaptersHost, Parameters, FreedTwice, OpenDevice, Register, SendByte, WaitForString,
           ExpectByte, CheckVersion, AskDevice, Close, ListEnds, Use, ReadFails, StepFails, Over, Proceed
  <1>2. PICK d : d = dev'
    OBVIOUS
  <1>3. CASE SendByte
    <2>1. d = Takes(Arg) \/ d = dev
      BY <1>2, <1>3, ByteSent DEF SendByte
    <2>2. IsDevice(Takes(Arg))
      BY TakesIs
    <2> QED BY <1>1, <1>2, <2>1, <2>2
  <1>4. CASE AskDevice
    <2>1. d = Does(Arg) \/ d = dev
      BY <1>2, <1>4 DEF AskDevice
    <2>2. IsDevice(Does(Arg))
      BY DeviceDoes
    <2> QED BY <1>1, <1>2, <2>1, <2>2
  <1>5. CASE Use
    <2>1. d = [dev EXCEPT !.swallow = 1] \/ d = dev
      BY <1>2, <1>5 DEF Use
    <2>2. IsDevice([dev EXCEPT !.swallow = 1])
      BY DEF IsDevice
    <2> QED BY <1>1, <1>2, <2>1, <2>2
  <1>6. CASE \/ Parameters \/ FreedTwice \/ OpenDevice \/ Register \/ WaitForString \/ ExpectByte
             \/ CheckVersion \/ Close \/ ListEnds \/ ReadFails
    <2>1. dev' = dev
      BY <1>6 DEF Parameters, FreedTwice, OpenDevice, Register, WaitForString, ExpectByte,
                  CheckVersion, Close, ListEnds, ReadFails
    <2> QED BY <1>1, <2>1
  <1> QED BY <1>3, <1>4, <1>5, <1>6 DEF AdaptersHost

-----------------------------------------------------------------------------
(* A step that leaves the programmer alone.                                 *)
LEMMA PlainStutter ==
  ASSUME PlainInv, UNCHANGED adapterVars
  PROVE  PlainInv'
  <1>1. UNCHANGED <<adapter, dev, line, phase, step, open, shutdownfn, usable, linkfailed>>
    BY DEF adapterVars
  <1>2. InitOf' = InitOf /\ ShutdownOf' = ShutdownOf
    BY <1>1 DEF InitOf, ShutdownOf
  <1>3. PICK es, ss : es = InitOf /\ ss = ShutdownOf
    OBVIOUS
  <1>4. \A e : (PastEntry(e) => PastEntry(e)') /\ (Undone(e) => Undone(e)')
    BY <1>1 DEF PastEntry, Undone, Did, Declines
  <1>5. \A op : Behind(op) => Behind(op)'
    BY <1>1, <1>2 DEF Behind
  <1>6. (ClosedOrRegistered => ClosedOrRegistered') /\ (LeftAsFound => LeftAsFound')
    BY <1>1 DEF ClosedOrRegistered, LeftAsFound
  <1> QED BY <1>1, <1>2, <1>4, <1>5, <1>6 DEF PlainInv

(* The same of a Bus Pirate.                                                *)
LEMMA PirateStutter ==
  ASSUME PirateInv, UNCHANGED adapterVars
  PROVE  PirateInv'
  <1>1. UNCHANGED <<adapter, dev, line, phase, step, open, shutdownfn, usable, linkfailed>>
    BY DEF adapterVars
  <1>2. ShutdownOf' = ShutdownOf
    BY <1>1 DEF ShutdownOf
  <1>3. (Truthful => Truthful') /\ (\A m : Listens(m) => Listens(m)')
        /\ (LeftAsFound => LeftAsFound')
    BY <1>1 DEF Truthful, Listens, LeftAsFound
  <1>4. (PirateInit => PirateInit') /\ (PirateUse => PirateUse')
        /\ (PirateShutdown => PirateShutdown')
    BY <1>1, <1>2, <1>3 DEF PirateInit, PirateUse, PirateShutdown
  <1> QED BY <1>1, <1>3, <1>4 DEF PirateInv

(* Every step.                                                              *)
LEMMA AdaptersStep ==
  ASSUME AdaptersInv, [ProgrammersNext]_programmerVars
  PROVE  AdaptersInv'
  <1>1. CASE mode = "adapter" /\ (AdaptersHost \/ ReadFails) /\ mode' = mode
    <2>1. phase \in {"init", "use", "shutdown", "end"} /\ IsDevice(dev) /\ (PlainInv \/ PirateInv)
      BY <1>1 DEF AdaptersInv
    <2>2. phase' \in {"init", "use", "shutdown", "end"} /\ IsDevice(dev)'
      BY <1>1, <2>1, DeviceKept
    <2>3. PlainInv' \/ PirateInv'
      BY <1>1, <2>1, PlainStep, PirateStep
    <2> QED BY <1>1, <2>2, <2>3 DEF AdaptersInv
  <1>2. CASE UNCHANGED <<adapterVars, mode>>
    <2>1. CASE mode = "adapter"
      <3>1. phase' = phase /\ dev' = dev /\ mode' = mode
        BY <1>2 DEF adapterVars
      <3>2. PlainInv' \/ PirateInv'
        BY <1>2, <2>1, PlainStutter, PirateStutter DEF AdaptersInv
      <3> QED BY <2>1, <3>1, <3>2 DEF AdaptersInv
    <2>2. CASE mode # "adapter"
      <3>1. UNCHANGED <<adapter, dev, line, phase, step, open, shutdownfn, usable, linkfailed,
                        mode>>
        BY <1>2 DEF adapterVars
      <3>2. AdaptersIdle'
        BY <2>2, <3>1 DEF AdaptersInv, AdaptersIdle
      <3> QED BY <2>2, <3>1, <3>2 DEF AdaptersInv
    <2> QED BY <2>1, <2>2
  <1>3. \/ mode = "adapter" /\ (AdaptersHost \/ ReadFails) /\ mode' = mode
        \/ UNCHANGED <<adapterVars, mode>>
    BY DEF ProgrammersNext, programmerVars, InCommand, InAdapter, InBulk, InSession, InSerprog,
           AdaptersNext
  <1> QED BY <1>1, <1>2, <1>3

(* A programmer starts with its init().                                     *)
LEMMA AdaptersStart ==
  ASSUME ProgrammersInit
  PROVE  AdaptersInv
  <1>1. CASE mode # "adapter"
    BY <1>1 DEF ProgrammersInit, AdaptersInv
  <1>2. CASE mode = "adapter"
    <2>1. AdaptersInit
      BY <1>2 DEF ProgrammersInit
    <2>2. /\ phase = "init" /\ step = 1 /\ line = << >> /\ ~open /\ ~shutdownfn /\ ~usable
          /\ ~linkfailed
          /\ adapter \in Plain \cup {"buspirate"}
      BY <2>1 DEF AdaptersInit, Plain
    <2>3. IsDevice(dev) /\ dev.ready = {}
      <3>1. CASE adapter = "buspirate"
        BY <2>1, <3>1, AdaptersAssumption DEF AdaptersInit, Devices, IsDevice
      <3>2. CASE adapter # "buspirate"
        BY <2>1, <3>2 DEF AdaptersInit, Devices, IsDevice
      <3> QED BY <3>1, <3>2
    <2>4. CASE adapter \in Plain
      <3>1. Len(InitOf) \in Nat
        BY <2>4, PlainLists DEF PlainList
      <3>2. step \in 1 .. Len(InitOf) + 1 /\ \A k \in 1 .. Len(InitOf) : ~(k < step)
        BY <2>2, <3>1
      <3>3. PlainInv
        BY <2>2, <2>4, <3>2 DEF PlainInv
      <3> QED BY <1>2, <2>2, <2>3, <3>3 DEF AdaptersInv
    <2>5. CASE adapter = "buspirate"
      <3>1. Zeros \in Nat /\ Zeros > 0
        BY AdaptersAssumption
      <3>2. line \in Seq(Words) /\ Paired(line) /\ \A w : ~Says(line, w)
        BY <2>2 DEF Paired, Says
      <3>3. step \in 1 .. 26 + 2 * Zeros /\ ~(step > 2) /\ ~(step > 3)
            /\ step \notin {6 + Zeros, 15 + 2 * Zeros}
            /\ ~(step >= 16 + 2 * Zeros) /\ ~(step >= 18 + 2 * Zeros) /\ ~(step >= 20 + 2 * Zeros)
            /\ ~(step >= 22 + 2 * Zeros) /\ ~(step >= 24 + 2 * Zeros)
        BY <2>2, <3>1
      <3>4. PirateInit
        BY <2>2, <2>3, <3>2, <3>3 DEF PirateInit, Truthful
      <3>5. PirateInv
        BY <2>2, <2>5, <3>2, <3>4 DEF PirateInv
      <3> QED BY <1>2, <2>2, <2>3, <3>5 DEF AdaptersInv
    <2> QED BY <2>2, <2>4, <2>5
  <1> QED BY <1>1, <1>2

(* What a registered programmer needs was done.                             *)
LEMMA PlainIsReady ==
  ASSUME PlainInv, usable, phase \in {"init", "use"}
  PROVE  /\ \A what \in Demanded : Did(what)
         /\ adapter = "ft2232" => linkfailed \/ Did("bitmode")
  <1>1. adapter \in Plain
    BY DEF PlainInv
  <1>2. PlainList
    BY <1>1, PlainLists
  <1>3. ASSUME NEW j \in 1 .. Len(InitOf),
               \A k \in 1 .. Len(InitOf) : InitOf[k].op = "register_master" => j < k
        PROVE  PastEntry(InitOf[j])
    <2>1. CASE phase = "init"
      <3>1. PICK k \in 1 .. Len(InitOf) : k < step /\ InitOf[k].op = "register_master"
        BY <2>1 DEF PlainInv, Behind
      <3>2. j < step
        <4>1. j < k /\ step \in Int
          BY <1>3, <2>1, <3>1 DEF PlainInv
        <4> QED BY <3>1, <4>1
      <3> QED BY <2>1, <3>2 DEF PlainInv
    <2>2. CASE phase = "use"
      BY <2>2 DEF PlainInv
    <2> QED BY <2>1, <2>2
  <1>4. ASSUME NEW what \in Demanded PROVE Did(what)
    <2>1. Demands(what)
      BY <1>2 DEF PlainList
    <2>2. PICK j \in 1 .. Len(InitOf) :
            /\ InitOf[j].op = "ask" /\ InitOf[j].arg = what /\ InitOf[j].onfail # "ignore"
            /\ \A k \in 1 .. Len(InitOf) : InitOf[k].op = "register_master" => j < k
      BY <2>1 DEF Demands
    <2> QED BY <1>3, <2>2 DEF PastEntry
  <1>5. ASSUME adapter = "ft2232" PROVE linkfailed \/ Did("bitmode")
    <2>1. PICK j \in 1 .. Len(InitOf) :
            /\ InitOf[j].op = "ask" /\ InitOf[j].arg = "bitmode"
            /\ \A k \in 1 .. Len(InitOf) : InitOf[k].op = "register_master" => j < k
      BY <1>2, <1>5 DEF PlainList
    <2> QED BY <1>3, <2>1 DEF PastEntry, Declines
  <1> QED BY <1>4, <1>5

(* What the invariant says.                                                 *)
LEMMA AdaptersSay ==
  ASSUME AdaptersInv
  PROVE  AdaptersInStep
  <1>1. CASE mode # "adapter"
    BY <1>1 DEF AdaptersInv, AdaptersIdle, AdaptersInStep, UsableIsReady, LeftAsFound
  <1>2. CASE mode = "adapter" /\ PirateInv
    <2>1. LeftAsFound
      BY <1>2 DEF PirateInv, LeftAsFound
    <2>2. ASSUME usable, phase = "init"
          PROVE  dev.mode = "spi" /\ dev.power /\ dev.ready = Settings
      <3>1. Zeros \in Nat
        BY AdaptersAssumption
      <3>2. step = 26 + 2 * Zeros
        BY <1>2, <2>2 DEF PirateInv, PirateInit
      <3>3. /\ step >= 16 + 2 * Zeros /\ step >= 18 + 2 * Zeros /\ step >= 20 + 2 * Zeros
            /\ step >= 22 + 2 * Zeros /\ step >= 24 + 2 * Zeros
        BY <3>1, <3>2
      <3> QED BY <1>2, <2>2, <3>3 DEF PirateInv, PirateInit, Listens, Settings
    <2>3. ASSUME phase = "use"
          PROVE  dev.mode = "spi" /\ dev.power /\ dev.ready = Settings
      BY <1>2, <2>3 DEF PirateInv, PirateUse, Listens
    <2>4. adapter = "buspirate"
      BY <1>2 DEF PirateInv
    <2>5. UsableIsReady
      BY <2>2, <2>3, <2>4 DEF UsableIsReady, Settings
    <2> QED BY <2>1, <2>5 DEF AdaptersInStep
  <1>3. CASE mode = "adapter" /\ PlainInv
    <2>1. LeftAsFound
      BY <1>3 DEF PlainInv, LeftAsFound
    <2>2. adapter \in Plain
      BY <1>3 DEF PlainInv
    <2>3. UsableIsReady
      <3>1. SUFFICES ASSUME usable, phase \in {"init", "use"} PROVE UsableIsReady
        BY DEF UsableIsReady
      <3>2. (\A what \in Demanded : Did(what))
            /\ (adapter = "ft2232" => linkfailed \/ Did("bitmode"))
        BY <1>3, <3>1, PlainIsReady
      <3> QED BY <2>2, <3>2 DEF UsableIsReady, Demanded, Did, Plain
    <2> QED BY <2>1, <2>3 DEF AdaptersInStep
  <1> QED BY <1>1, <1>2, <1>3 DEF AdaptersInv

(* An external programmer is registered only when it is ready for SPI       *)
(* commands, and unless a message was lost its device is left closed,       *)
(* without power for the chip, and a Bus Pirate at its terminal             *)
(* (dediprog_init(), buspirate_spi_init(), ft2232_spi_init(),               *)
(* linux_spi_init(), pony_spi_init() and their shutdown functions).         *)
THEOREM AdaptersStayInStep == ProgrammersSpec => []AdaptersInStep
  <1>1. ProgrammersInit => AdaptersInv
    BY AdaptersStart
  <1>2. AdaptersInv /\ [ProgrammersNext]_programmerVars => AdaptersInv'
    BY AdaptersStep
  <1>3. AdaptersInv => AdaptersInStep
    BY AdaptersSay
  <1> QED BY <1>1, <1>2, <1>3, PTL DEF ProgrammersSpec

-----------------------------------------------------------------------------
(* Bits of a byte.                                                          *)

(* Induction over the numbers, for a set.                                   *)
LEMMA Climb ==
  ASSUME NEW T, 0 \in T, \A n \in Nat : n \in T => n + 1 \in T
  PROVE  Nat \subseteq T
  <1>1. SUFFICES ASSUME ~(Nat \subseteq T) PROVE FALSE
    OBVIOUS
  <1>2. Nat \ T \subseteq Nat /\ Nat \ T # {}
    BY <1>1
  <1>3. PICK n \in Nat \ T : \A m \in Nat \ T : n <= m
    BY <1>2, LeastIndex
  <1>4. n # 0 /\ n \in Nat
    BY <1>3
  <1>5. n - 1 \in Nat /\ n - 1 < n /\ (n - 1) + 1 = n
    BY <1>4
  <1>6. n - 1 \in T
    BY <1>3, <1>5
  <1>7. (n - 1) + 1 \in T
    BY <1>5, <1>6
  <1> QED BY <1>3, <1>5, <1>7

(* h is the list of v, v / 2, v / 4, ... that a right shift goes through.   *)
Halves(h, v, n) == h = [m \in 0 .. n |-> IF m = 0 THEN v ELSE h[m - 1] \div 2]

(* The list begins with v and each entry is half of the one before.         *)
LEMMA HalvesStep ==
  ASSUME NEW v \in Nat, NEW n \in Nat, NEW h, Halves(h, v, n)
  PROVE  /\ h[0] = v
         /\ \A m \in 1 .. n : h[m] = h[m - 1] \div 2
  BY DEF Halves

(* There is such a list of every length.                                    *)
LEMMA HalvesExist ==
  ASSUME NEW v \in Nat
  PROVE  \A n \in Nat : \E h : Halves(h, v, n)
  <1> DEFINE T == {n \in Nat : \E h : Halves(h, v, n)}
  <1>1. 0 \in T
    <2>1. PICK h : h = [m \in 0 .. 0 |-> v]
      OBVIOUS
    <2>2. Halves(h, v, 0)
      BY <2>1 DEF Halves
    <2> QED BY <2>2
  <1>2. ASSUME NEW n \in Nat, n \in T PROVE n + 1 \in T
    <2>1. PICK h : Halves(h, v, n)
      BY <1>2
    <2>2. PICK g : g = [m \in 0 .. n + 1 |-> IF m = 0 THEN v ELSE h[m - 1] \div 2]
      OBVIOUS
    <2>3. h = [m \in 0 .. n |-> IF m = 0 THEN v ELSE h[m - 1] \div 2]
      BY <2>1 DEF Halves
    <2>4. \A m \in 0 .. n : g[m] = h[m]
      BY <2>2, <2>3
    <2>5. \A m \in 0 .. n + 1 : m # 0 => m - 1 \in 0 .. n /\ g[m - 1] = h[m - 1]
      BY <2>4
    <2>6. g = [m \in 0 .. n + 1 |-> IF m = 0 THEN v ELSE g[m - 1] \div 2]
      BY <2>2, <2>5
    <2>7. Halves(g, v, n + 1)
      BY <2>6 DEF Halves
    <2> QED BY <2>7
  <1> HIDE DEF T
  <1>3. Nat \subseteq T
    BY <1>1, <1>2, Climb
  <1> QED BY <1>3 DEF T

(* Two such lists agree where both have entries.                            *)
LEMMA HalvesAgree ==
  ASSUME NEW v \in Nat, NEW n \in Nat, NEW h, Halves(h, v, n), NEW p \in Nat, NEW g, Halves(g, v, p)
  PROVE  \A m \in Nat : m <= n /\ m <= p => g[m] = h[m] /\ h[m] \in Nat
  <1> DEFINE T == {m \in Nat : m <= n /\ m <= p => g[m] = h[m] /\ h[m] \in Nat}
  <1>1. 0 \in T
    BY HalvesStep
  <1>2. ASSUME NEW m \in Nat, m \in T PROVE m + 1 \in T
    <2> SUFFICES ASSUME m + 1 <= n, m + 1 <= p
                 PROVE  g[m + 1] = h[m + 1] /\ h[m + 1] \in Nat
      OBVIOUS
    <2>1. g[m] = h[m] /\ h[m] \in Nat
      BY <1>2
    <2>2. m + 1 \in 1 .. n /\ m + 1 \in 1 .. p /\ (m + 1) - 1 = m
      OBVIOUS
    <2>3. h[m + 1] = h[m] \div 2 /\ g[m + 1] = g[m] \div 2
      BY <2>2, HalvesStep
    <2> QED BY <2>1, <2>3
  <1> HIDE DEF T
  <1>3. Nat \subseteq T
    BY <1>1, <1>2, Climb
  <1> QED BY <1>3 DEF T

(* The shift is the last entry of such a list.                              *)
LEMMA ShiftedIs ==
  ASSUME NEW v \in Nat, NEW n \in Nat
  PROVE  \E h : Halves(h, v, n) /\ ShiftedRight(v, n) = h[n]
  <1>1. ShiftedRight(v, n) = (CHOOSE h : Halves(h, v, n))[n]
    BY DEF ShiftedRight, Halves
  <1>2. PICK h : h = CHOOSE g : Halves(g, v, n)
    OBVIOUS
  <1>3. Halves(h, v, n)
    BY <1>2, HalvesExist
  <1> QED BY <1>1, <1>2, <1>3

(* A shift by one more halves.                                              *)
LEMMA Shifts ==
  ASSUME NEW v \in Nat, NEW n \in Nat
  PROVE  /\ ShiftedRight(v, n) \in Nat /\ ShiftedRight(v, 0) = v
         /\ ShiftedRight(v, n + 1) = ShiftedRight(v, n) \div 2
         /\ ShiftedRight(v, n) = 2 * ShiftedRight(v, n + 1) + (ShiftedRight(v, n) % 2)
  <1>1. PICK h : Halves(h, v, n) /\ ShiftedRight(v, n) = h[n]
    BY ShiftedIs
  <1>2. PICK g : Halves(g, v, n + 1) /\ ShiftedRight(v, n + 1) = g[n + 1]
    BY ShiftedIs
  <1>3. PICK f : Halves(f, v, 0) /\ ShiftedRight(v, 0) = f[0]
    BY ShiftedIs
  <1>4. f[0] = v
    BY <1>3, HalvesStep
  <1>5. g[n] = h[n] /\ h[n] \in Nat
    BY <1>1, <1>2, HalvesAgree
  <1>6. n + 1 \in 1 .. n + 1 /\ (n + 1) - 1 = n
    OBVIOUS
  <1>7. g[n + 1] = g[n] \div 2
    BY <1>2, <1>6, HalvesStep
  <1> QED BY <1>1, <1>2, <1>3, <1>4, <1>5, <1>7

(* A byte put together from its bits, the most significant first.           *)
Doubles(f, n, bits) == f = [m \in 0 .. n |-> IF m = 0 THEN 0 ELSE 2 * f[m - 1] + bits[m]]

(* bits are the bits of v.                                                  *)
BitsOf(v, bits) == \A m \in 1 .. Bits : bits[m] = ShiftedRight(v, Bits - m) % 2

(* There is a list of partial bytes of every length.                        *)
LEMMA DoublesExist ==
  ASSUME NEW bits
  PROVE  \A n \in Nat : \E f : Doubles(f, n, bits)
  <1> DEFINE T == {n \in Nat : \E f : Doubles(f, n, bits)}
  <1>1. 0 \in T
    <2>1. PICK f : f = [m \in 0 .. 0 |-> 0]
      OBVIOUS
    <2>2. Doubles(f, 0, bits)
      BY <2>1 DEF Doubles
    <2> QED BY <2>2
  <1>2. ASSUME NEW n \in Nat, n \in T PROVE n + 1 \in T
    <2>1. PICK f : Doubles(f, n, bits)
      BY <1>2
    <2>2. PICK g : g = [m \in 0 .. n + 1 |-> IF m = 0 THEN 0 ELSE 2 * f[m - 1] + bits[m]]
      OBVIOUS
    <2>3. f = [m \in 0 .. n |-> IF m = 0 THEN 0 ELSE 2 * f[m - 1] + bits[m]]
      BY <2>1 DEF Doubles
    <2>4. \A m \in 0 .. n : g[m] = f[m]
      BY <2>2, <2>3
    <2>5. \A m \in 0 .. n + 1 : m # 0 => m - 1 \in 0 .. n /\ g[m - 1] = f[m - 1]
      BY <2>4
    <2>6. g = [m \in 0 .. n + 1 |-> IF m = 0 THEN 0 ELSE 2 * g[m - 1] + bits[m]]
      BY <2>2, <2>5
    <2>7. Doubles(g, n + 1, bits)
      BY <2>6 DEF Doubles
    <2> QED BY <2>7
  <1> HIDE DEF T
  <1>3. Nat \subseteq T
    BY <1>1, <1>2, Climb
  <1> QED BY <1>3 DEF T

(* Byte() puts the bits of a byte together to the byte.                     *)
LEMMA ByteOfBits ==
  ASSUME NEW v \in Nat, ShiftedRight(v, Bits) = 0, NEW bits, BitsOf(v, bits)
  PROVE  Byte(bits) = v
  <1>1. Bits \in Nat
    BY MastersAssumption
  <1>2. Byte(bits) = (CHOOSE f : Doubles(f, Bits, bits))[Bits]
    BY DEF Byte, Doubles
  <1>3. PICK f : f = CHOOSE g : Doubles(g, Bits, bits)
    OBVIOUS
  <1>4. Doubles(f, Bits, bits)
    BY <1>1, <1>3, DoublesExist
  <1> DEFINE T == {n \in Nat : n <= Bits => f[n] = ShiftedRight(v, Bits - n)}
  <1>5. 0 \in T
    <2>1. f[0] = 0
      BY <1>1, <1>4 DEF Doubles
    <2>2. Bits - 0 = Bits
      BY <1>1
    <2> QED BY <2>1, <2>2
  <1>6. ASSUME NEW n \in Nat, n \in T PROVE n + 1 \in T
    <2> SUFFICES ASSUME n + 1 <= Bits PROVE f[n + 1] = ShiftedRight(v, Bits - (n + 1))
      OBVIOUS
    <2>1. PICK r \in Nat : r = Bits - (n + 1)
      BY <1>1
    <2>2. n + 1 \in 1 .. Bits /\ n + 1 \in 0 .. Bits /\ (n + 1) - 1 = n /\ Bits - n = r + 1
             /\ n <= Bits
      BY <1>1, <2>1
    <2>3. f[n + 1] = 2 * f[n] + bits[n + 1]
      BY <1>1, <1>4, <2>2 DEF Doubles
    <2>4. bits[n + 1] = ShiftedRight(v, r) % 2
      BY <2>1, <2>2 DEF BitsOf
    <2>5. f[n] = ShiftedRight(v, r + 1)
      BY <1>6, <2>2
    <2>6. ShiftedRight(v, r) = 2 * ShiftedRight(v, r + 1) + (ShiftedRight(v, r) % 2)
      BY <2>1, Shifts
    <2> QED BY <2>1, <2>3, <2>4, <2>5, <2>6
  <1> HIDE DEF T
  <1>7. Nat \subseteq T
    BY <1>5, <1>6, Climb
  <1>8. f[Bits] = ShiftedRight(v, Bits - Bits) /\ Bits - Bits = 0
    BY <1>1, <1>7 DEF T
  <1> QED BY <1>2, <1>3, <1>8, Shifts

-----------------------------------------------------------------------------
(* The inductive invariant.                                                 *)

(* The bytes of a command and of its answer are numbered.                   *)
Upto(n) == [k \in 1 .. n |-> k]

(* No transaction has begun.                                                *)
NothingYet == chip = << >> /\ ~cs /\ in = << >> /\ out = 0

(* The chip has seen the command, whole and once.                           *)
SentWhole == chip = <<[in |-> Writearr, out |-> Readcnt]>>

(* The chip is selected and has got everything, the end is missing.         *)
Selected == cs /\ in = Writearr /\ out = Readcnt /\ chip = << >>

(* What the caller may find at the end.                                     *)
CommandEnds ==
  /\ result \in {"0", "error", "invalid length"}
  /\ result = "0" => SentWhole /\ (Readcnt > 0 => readarr = Answer)
  /\ result = "invalid length" => KeepsItsWord
  /\ cs => lost = "deselect"

(* Dediprog: between the two bulk transfers.                                *)
DediprogInv == At("dediprog", "receive") => SentWhole /\ ~cs /\ regs = Answer

(* Bus Pirate: the answer is on the line, dummies first.                    *)
BuspirateInv ==
  At("buspirate_v1", "receive") =>
    /\ ~cs
    /\ lost = "nothing" =>
         /\ SentWhole
         /\ regs.data = [k \in 1 .. Writecnt + Readcnt |->
                         IF k <= Writecnt THEN 0 ELSE k - Writecnt]

(* FT2232: the answer is in the buffer, CS# is to be released.              *)
Ft2232Inv ==
  /\ At("ft2232", "get_buf") => Selected /\ regs = Answer /\ lost = "nothing"
  /\ At("ft2232", "deassert") /\ lost = "nothing" => Selected /\ readarr = Answer

(* IT87 and Winbond: the registers are filled and the chip has seen         *)
(* nothing.                                                                 *)
It87Inv == At("it87spi", "busy") => NothingYet /\ It87Limit /\ regs = It87Registers
WbsioInv == At("wbsio", "run") => NothingYet /\ WbsioMode # 0 /\ regs = WbsioRegisters

(* After n bytes were shifted the chip has got that many of the command and *)
(* given the rest of the answer.                                            *)
BytesIn(n) == in = Upto(IF n <= Writecnt THEN n ELSE Writecnt)
BytesOut(n) == out = IF n <= Writecnt THEN 0 ELSE n - Writecnt

(* IT85: byte by byte.                                                      *)
It85Inv ==
  At("it85spi", "shift") =>
    /\ i \in 0 .. Writecnt + Readcnt /\ chip = << >> /\ (cs <=> i > 0)
    /\ BytesIn(i) /\ BytesOut(i) /\ readarr = Upto(out)

(* The SB600: before and after the chip is spoken to.                       *)
Sb600Before == {"clear_to_write", "write", "clear_to_execute", "execute"}
Sb600After == {"executed", "clear_to_skip", "skip", "read", "clear_to_count", "count"}

(* The other user of the FIFO moved the pointer at most o times.            *)
Drifted(p, o, n) == \E d \in 0 .. o : p = (n + d) % 8
Drift(n) == Drifted(regs.ptr, other, n)

(* The first n bytes after the opcode are in the FIFO.                      *)
Stored(n) == \A k \in 0 .. n - 1 : regs.fifo[k] = k + 2

(* The answer follows the command in the FIFO.                              *)
Sb600Answer == \A k \in 0 .. Readcnt - 1 : regs.fifo[(Writecnt - 1 + k) % 8] = k + 1

(* Where the pointer is where the driver believes it, the FIFO holds what   *)
(* the driver believes.                                                     *)
Sb600Right ==
  /\ regs.read = Readcnt + ReadOffBy1
  /\ regs.ptr \in 0 .. 7 /\ regs.fifo = [s \in 0 .. 7 |-> regs.fifo[s]]
  /\ pc \in Sb600Before => chip = << >> /\ readarr = << >>
  /\ pc = "write" => i \in 0 .. Writecnt - 1 /\ Drift(i) /\ (regs.ptr = i % 8 => Stored(i))
  /\ pc \in {"clear_to_execute", "execute"} => Stored(Writecnt - 1)
  /\ pc = "execute" => i = 0 /\ Drift(0)
  /\ pc = "executed" => /\ i = 0 /\ readarr = << >> /\ Drift(Writecnt - 1 + Readcnt)
                        /\ regs.ptr = (Writecnt - 1 + Readcnt) % 8 => SentWhole /\ Sb600Answer
  /\ pc \in {"clear_to_skip", "skip", "read"} => SentWhole /\ Sb600Answer
  /\ pc \in {"clear_to_skip", "skip"} => readarr = << >>
  /\ pc = "skip" => i \in 0 .. Writecnt - 1 /\ Drift(i)
  /\ pc = "read" => /\ i \in 0 .. Readcnt /\ Drift(Writecnt - 1 + i)
                    /\ regs.ptr = (Writecnt - 1 + i) % 8 => readarr = Upto(i)
  /\ pc \in {"clear_to_count", "count"} => SentWhole /\ readarr = Answer

(* SB600: the driver stores the lengths, and looks at the pointer, so that  *)
(* it notices the other user.                                               *)
Sb600Inv ==
  master = "sb600" /\ pc \notin {"start", "end"} =>
    /\ ~cs /\ Sb600Limit /\ pc \in Sb600Before \cup Sb600After
    /\ regs = [fifo |-> regs.fifo, ptr |-> regs.ptr, cmd |-> 1,
               write |-> regs.write, read |-> regs.read]
    /\ regs.write \in 0 .. Writecnt - 1
    /\ regs.write = Writecnt - 1 => Sb600Right

(* The bits of the byte under way that are through.                         *)
BitsGone(q, n) ==
  /\ regs.bits \in Seq({0, 1}) /\ Len(regs.bits) = n
  /\ q < Writecnt => \A k \in 1 .. n : regs.bits[k] = Bit(q + 1, Bits - k)

(* What was read, the last byte as far as it is through.                    *)
Collected(q, r, begun) ==
  readarr = IF q < Writecnt THEN << >>
            ELSE IF begun THEN Append(Upto(q - Writecnt), ShiftedRight(q - Writecnt + 1, Bits - r))
                 ELSE Upto(q - Writecnt)

(* Bit banging: q bytes and r bits are through.                             *)
BitbangAt(q, r) ==
  /\ i = Bits * q + r /\ q <= Writecnt + Readcnt /\ (q = Writecnt + Readcnt => r = 0 /\ pc = "mosi")
  /\ BytesIn(q) /\ BytesOut(q)
  /\ BitsGone(q, IF pc = "miso" THEN r + 1 ELSE r)
  /\ Collected(q, r, pc # "mosi" \/ r > 0)
  /\ pc = "sck" => ("mosi" \in regs.pins <=> q < Writecnt /\ Bit(q + 1, Bits - 1 - r) = 1)

(* Bit banging: the pins, and what went over them.                          *)
BitbangInv ==
  master \in Bitbangs /\ pc \notin {"start", "end"} =>
    /\ regs = [pins |-> regs.pins, cache |-> regs.cache, request |-> regs.request,
               bits |-> regs.bits]
    /\ pc \in {"grant", "granted", "select", "mosi", "sck", "miso", "release"}
    /\ pc \in {"grant", "granted", "select"} =>
         /\ NothingYet /\ readarr = << >> /\ regs.bits = << >>
         /\ regs.pins \in {{"cs"}, {"cs", "mosi"}} /\ (pc = "select" => regs.cache = regs.pins)
    /\ pc \in {"mosi", "sck", "miso"} =>
         /\ cs /\ chip = << >> /\ regs.cache = regs.pins /\ "cs" \notin regs.pins
         /\ "sck" \in regs.pins <=> pc = "miso"
         /\ \E q \in 0 .. Writecnt + Readcnt, r \in 0 .. Bits - 1 : BitbangAt(q, r)
    /\ pc = "release" => ~cs /\ SentWhole /\ (Readcnt > 0 => readarr = Answer)

(* What holds for every master.                                             *)
CommandTypes ==
  /\ command \in Commands /\ other \in 0 .. MaxOther
  /\ result = "none" <=> pc # "end"
  /\ pc = "start" => i = 0 /\ NothingYet /\ readarr = << >> /\ lost = "nothing"
  /\ pc = "end" => CommandEnds

(* The inductive invariant of a command on any of the masters.              *)
MastersInv ==
  /\ CommandTypes
  /\ DediprogInv /\ BuspirateInv /\ Ft2232Inv /\ It87Inv /\ WbsioInv
  /\ It85Inv /\ Sb600Inv /\ BitbangInv

(* What a command is, from the assumptions on the constants.                *)
LEMMA CommandFacts ==
  ASSUME CommandTypes
  PROVE  /\ Writecnt \in Nat \ {0} /\ Readcnt \in Nat /\ MaxOther \in 0 .. 7
         /\ Bits \in Nat \ {0} /\ MaxLong \in Nat
         /\ \A v \in 1 .. Writecnt : ShiftedRight(v, Bits) = 0
         /\ \A v \in 1 .. Readcnt : ShiftedRight(v, Bits) = 0
  BY MastersAssumption DEF CommandTypes, Writecnt, Readcnt

(* A list of numbered bytes grows by the next number.                       *)
LEMMA UptoGrows ==
  ASSUME NEW n \in Nat
  PROVE  /\ Upto(n) \in Seq(Nat) /\ Len(Upto(n)) = n
         /\ Append(Upto(n), n + 1) = Upto(n + 1)
  <1>1. Upto(n) \in Seq(Nat) /\ Len(Upto(n)) = n /\ DOMAIN Upto(n) = 1 .. n
    BY DEF Upto
  <1>2. PICK s : s = Append(Upto(n), n + 1)
    OBVIOUS
  <1>3. s = [k \in 1 .. n + 1 |-> IF k = n + 1 THEN n + 1 ELSE Upto(n)[k]]
    BY <1>1, <1>2
  <1>4. \A k \in 1 .. n + 1 : (IF k = n + 1 THEN n + 1 ELSE Upto(n)[k]) = k
    BY DEF Upto
  <1>5. s = [k \in 1 .. n + 1 |-> k]
    BY <1>3, <1>4
  <1> QED BY <1>1, <1>2, <1>5 DEF Upto

(* No bytes.                                                                *)
LEMMA UptoNone == Upto(0) = << >>
  BY DEF Upto

(* The command and the answer are such lists.                               *)
LEMMA UptoUses ==
  /\ Writearr = Upto(Writecnt) /\ Answer = Upto(Readcnt)
  BY DEF Writearr, Answer, Upto

(* A refusal is of a command that is too long.                              *)
LEMMA RefuseKeeps ==
  ASSUME MastersInv, Refuse
  PROVE  MastersInv'
  <1>1. /\ pc = "start" /\ ~Accepted /\ result' = "invalid length" /\ pc' = "end" /\ i' = i
        /\ UNCHANGED <<cs, in, out, chip, regs, readarr, lost, other, master, command>>
    BY DEF Refuse, Return, Quiet, Fixed
  <1>2. Writecnt \in Nat \ {0} /\ Readcnt \in Nat /\ MaxLong \in Nat
    BY CommandFacts DEF MastersInv
  <1>3. KeepsItsWord'
    <2> SUFFICES ASSUME master \in DOMAIN MaxDataRead,
                        \/ Writecnt = 4 /\ Readcnt <= MaxDataRead[master]
                        \/ Writecnt <= 4 + MaxDataWrite[master] /\ Readcnt = 0
                 PROVE  Accepted
      BY <1>1 DEF KeepsItsWord, Writecnt, Readcnt
    <2>1. DOMAIN MaxDataRead = {"buspirate_v1", "buspirate_v2", "ft2232", "it85spi", "sb600",
                                "mcp6x", "rayer_spi"}
      BY DEF MaxDataRead
    <2>2. /\ MaxDataRead[master] = CASE master = "buspirate_v1" -> 12 [] master = "sb600" -> 8
                                     [] OTHER -> MaxLong - 4
          /\ MaxDataWrite[master] = CASE master = "buspirate_v1" -> 12 [] master = "sb600" -> 5
                                      [] OTHER -> MaxLong - 4
      BY <2>1 DEF MaxDataRead, MaxDataWrite
    <2>3. CASE master = "buspirate_v1"
      BY <1>2, <2>2, <2>3 DEF Accepted, BuspirateV1Limit
    <2>4. CASE master = "sb600"
      BY <1>2, <2>2, <2>4 DEF Accepted, Sb600Limit
    <2>5. CASE master \in {"buspirate_v2", "ft2232"}
      BY <1>2, <2>2, <2>5 DEF Accepted
    <2>6. CASE master \in {"it85spi", "mcp6x", "rayer_spi"}
      BY <2>6 DEF Accepted
    <2> QED BY <2>1, <2>3, <2>4, <2>5, <2>6
  <1>4. CommandTypes'
    BY <1>1, <1>3 DEF MastersInv, CommandTypes, CommandEnds, NothingYet
  <1> QED BY <1>1, <1>4 DEF MastersInv, DediprogInv, BuspirateInv, Ft2232Inv, It87Inv, WbsioInv,
             It85Inv, Sb600Inv, BitbangInv, At

-----------------------------------------------------------------------------
(* The masters that send a command in one or two steps.                     *)

(* A step of one of the masters that are neither the SB600 nor bit banged.  *)
LEMMA MasterStep ==
  ASSUME MastersInv, Fixed, UNCHANGED other, master \notin Bitbangs \cup {"sb600"},
         result' = "none" <=> pc' # "end", pc' # "start", pc' = "end" => CommandEnds',
         DediprogInv', BuspirateInv', Ft2232Inv', It87Inv', WbsioInv', It85Inv'
  PROVE  MastersInv'
  <1>1. CommandTypes'
    BY DEF MastersInv, CommandTypes, Fixed
  <1> QED BY <1>1 DEF MastersInv, Sb600Inv, BitbangInv, Fixed

(* The parts of the invariant about other masters than m say nothing.       *)
OtherMasters(m) ==
  /\ m # "dediprog" => master # "dediprog"
  /\ m # "buspirate_v1" => master # "buspirate_v1"
  /\ m # "ft2232" => master # "ft2232"
  /\ m # "it87spi" => master # "it87spi"
  /\ m # "wbsio" => master # "wbsio"
  /\ m # "it85spi" => master # "it85spi"
  /\ master \notin Bitbangs \cup {"sb600"}

(* The part of the invariant that all masters share.                        *)
LEMMA TypesHold == MastersInv => CommandTypes
  BY DEF MastersInv

(* A whole transaction in one step.                                         *)
LEMMA SentByOne ==
  ASSUME CommandTypes, pc = "start" \/ NothingYet, Transaction(Writearr, Readcnt), Fixed
  PROVE  SentWhole' /\ ~cs' /\ UNCHANGED <<cs, in, out>>
  <1>1. chip = << >> /\ ~cs
    BY DEF CommandTypes, NothingYet
  <1> QED BY <1>1 DEF Transaction, SentWhole, Fixed, Writearr, Writecnt, Readcnt

(* The steps of the Dediprog.                                               *)
LEMMA DediprogKeeps ==
  ASSUME MastersInv, DediprogSend \/ DediprogReceive
  PROVE  MastersInv'
  <1>1. master = "dediprog" /\ Fixed /\ UNCHANGED other
    BY DEF DediprogSend, DediprogReceive, At
  <1>2. OtherMasters("dediprog")
    BY <1>1 DEF OtherMasters, Bitbangs
  <1>3. Readcnt' = Readcnt /\ Answer' = Answer /\ Writearr' = Writearr
    BY <1>1 DEF Fixed, Readcnt, Answer, Writearr, Writecnt
  <1>4. Readcnt \in Nat
    BY CommandFacts DEF MastersInv
  <1>5. CASE DediprogSend
    <2>1. pc = "start" /\ result = "none" /\ ~cs /\ regs' = Answer /\ readarr' = readarr
      BY <1>5 DEF DediprogSend, At, MastersInv, CommandTypes, NothingYet
    <2>2. CASE Transaction(Writearr, Readcnt) /\ UNCHANGED lost
               /\ IF Readcnt = 0 THEN Return("0") ELSE Goto("receive")
      <3>1. SentWhole' /\ ~cs'
        BY <1>1, <2>1, <2>2, TypesHold, SentByOne
      <3>0. (Readcnt' = 0 /\ pc' = "end" /\ result' = "0")
            \/ (pc' = "receive" /\ result' = result)
        BY <1>3, <2>2 DEF Return, Goto
      <3>2. pc' = "end" => CommandEnds'
        <4> SUFFICES ASSUME pc' = "end" PROVE CommandEnds'
          OBVIOUS
        <4>1. result' = "0" /\ Readcnt' = 0
          BY <3>0
        <4>2. ~(Readcnt' > 0)
          BY <4>1
        <4> QED BY <4>1, <4>2, <3>1 DEF CommandEnds
      <3>3. pc' # "start" /\ (result' = "none" <=> pc' # "end")
        BY <2>1, <3>0
      <3>4. DediprogInv'
        BY <1>3, <2>1, <3>1 DEF DediprogInv
      <3> QED BY <1>1, <1>2, <3>2, <3>3, <3>4, MasterStep DEF OtherMasters, BuspirateInv,
           Ft2232Inv, It87Inv, WbsioInv, It85Inv, Fixed, At
    <2>3. CASE Quiet /\ Return("error")
      <3>1. CommandEnds' /\ DediprogInv' /\ pc' = "end" /\ result' = "error"
        BY <2>1, <2>3 DEF CommandEnds, Return, Quiet, DediprogInv, At
      <3> QED BY <1>1, <1>2, <3>1, MasterStep DEF OtherMasters, BuspirateInv, Ft2232Inv, It87Inv,
                 WbsioInv, It85Inv, Fixed, At
    <2> QED BY <1>5, <2>2, <2>3 DEF DediprogSend
  <1>6. CASE DediprogReceive
    <2>1. SentWhole /\ ~cs /\ regs = Answer /\ Quiet
      BY <1>6 DEF DediprogReceive, MastersInv, DediprogInv
    <2>2. SentWhole' /\ ~cs'
      BY <1>3, <2>1 DEF SentWhole, Quiet
    <2>3. pc' = "end" /\ ((result' = "0" /\ readarr' = regs) \/ result' = "error")
      BY <1>6 DEF DediprogReceive, Return
    <2>4. CommandEnds' /\ DediprogInv'
      BY <1>3, <2>1, <2>2, <2>3 DEF CommandEnds, DediprogInv, At
    <2> QED BY <1>1, <1>2, <2>3, <2>4, MasterStep DEF OtherMasters, BuspirateInv, Ft2232Inv,
         It87Inv, WbsioInv, It85Inv, Fixed, At
  <1> QED BY <1>5, <1>6

(* The steps of the Bus Pirate with the old firmware.                       *)
LEMMA BuspirateKeeps ==
  ASSUME MastersInv, BuspirateV1Send \/ BuspirateV1Receive
  PROVE  MastersInv'
  <1>1. master = "buspirate_v1" /\ Fixed /\ UNCHANGED other
    BY DEF BuspirateV1Send, BuspirateV1Receive, At
  <1>2. OtherMasters("buspirate_v1")
    BY <1>1 DEF OtherMasters, Bitbangs
  <1>3. Readcnt' = Readcnt /\ Answer' = Answer /\ Writearr' = Writearr /\ Writecnt' = Writecnt
    BY <1>1 DEF Fixed, Readcnt, Answer, Writearr, Writecnt
  <1>4. Readcnt \in Nat /\ Writecnt \in Nat
    BY CommandFacts DEF MastersInv
  <1>5. CASE BuspirateV1Send
    <2>1. pc = "start" /\ result = "none" /\ ~cs /\ readarr' = readarr /\ pc' = "receive"
             /\ result' = result
          /\ lost = "nothing"
      BY <1>5 DEF BuspirateV1Send, Goto, At, MastersInv, CommandTypes, NothingYet
    <2>2. BuspirateInv'
      <3>1. CASE /\ Transaction(Writearr, Readcnt)
                 /\ \E acks \in [1 .. 3 -> BOOLEAN] :
                      regs' = [acks |-> acks,
                               data |-> [k \in 1 .. Writecnt + Readcnt |->
                                         IF k <= Writecnt THEN 0 ELSE k - Writecnt]]
        <4>1. SentWhole' /\ ~cs'
          BY <1>1, <2>1, <3>1, TypesHold, SentByOne
        <4>2. regs'.data = [k \in 1 .. Writecnt + Readcnt |->
                            IF k <= Writecnt THEN 0 ELSE k - Writecnt]
          BY <3>1
        <4> QED BY <1>3, <4>1, <4>2 DEF BuspirateInv
      <3>2. CASE lost' = "bytes" /\ Quiet
        BY <2>1, <3>2 DEF BuspirateInv, Quiet
      <3> QED BY <1>5, <3>1, <3>2 DEF BuspirateV1Send
    <2> QED BY <1>1, <1>2, <2>1, <2>2, MasterStep DEF OtherMasters, DediprogInv, Ft2232Inv, It87Inv,
               WbsioInv, It85Inv, Fixed, At
  <1>6. CASE BuspirateV1Receive
    <2>1. BuspirateInv /\ At("buspirate_v1", "receive") /\ Quiet /\ UNCHANGED <<regs, lost>>
      BY <1>6 DEF BuspirateV1Receive, MastersInv
    <2>2. ~cs'
      BY <2>1 DEF BuspirateInv, Quiet
    <2>3. CASE lost # "nothing" \/ \E k \in 1 .. 3 : ~regs.acks[k]
      <3>1. pc' = "end" /\ result' = "error"
        BY <1>6, <2>3 DEF BuspirateV1Receive, Return
      <3>2. CommandEnds' /\ BuspirateInv'
        BY <2>2, <3>1 DEF CommandEnds, BuspirateInv, At
      <3> QED BY <1>1, <1>2, <3>1, <3>2, MasterStep DEF OtherMasters, DediprogInv, Ft2232Inv,
           It87Inv, WbsioInv, It85Inv, Fixed, At
    <2>4. CASE ~(lost # "nothing" \/ \E k \in 1 .. 3 : ~regs.acks[k])
      <3>1. pc' = "end" /\ result' = "0" /\ readarr' = SubSeq(regs.data, Writecnt + 1,
               Writecnt + Readcnt)
        BY <1>6, <2>4 DEF BuspirateV1Receive, Return, Skipped
      <3>2. SentWhole
            /\ regs.data = [k \in 1 .. Writecnt + Readcnt |->
                            IF k <= Writecnt THEN 0 ELSE k - Writecnt]
        BY <2>1, <2>4 DEF BuspirateInv
      <3>3. SentWhole'
        BY <1>3, <2>1, <3>2 DEF SentWhole, Quiet
      <3>4. SubSeq(regs.data, Writecnt + 1, Writecnt + Readcnt) = Answer
        <4>1. PICK s : s = regs.data
          OBVIOUS
        <4>2. s \in Seq(Int) /\ Len(s) = Writecnt + Readcnt
              /\ \A k \in 1 .. Writecnt + Readcnt : s[k] = IF k <= Writecnt THEN 0 ELSE k - Writecnt
          BY <1>4, <3>2, <4>1
        <4>3. PICK a : a = SubSeq(s, Writecnt + 1, Writecnt + Readcnt)
          OBVIOUS
        <4>4. a = [k \in 1 .. Readcnt |-> s[Writecnt + k]]
          BY <1>4, <4>2, <4>3
        <4>5. \A k \in 1 .. Readcnt : s[Writecnt + k] = k
          BY <1>4, <4>2
        <4>6. a = [k \in 1 .. Readcnt |-> k]
          BY <4>4, <4>5
        <4> QED BY <4>1, <4>3, <4>6 DEF Answer
      <3>5. CommandEnds' /\ BuspirateInv'
        BY <1>3, <2>2, <3>1, <3>3, <3>4 DEF CommandEnds, BuspirateInv, At
      <3> QED BY <1>1, <1>2, <3>1, <3>5, MasterStep DEF OtherMasters, DediprogInv, Ft2232Inv,
           It87Inv, WbsioInv, It85Inv, Fixed, At
    <2> QED BY <2>3, <2>4
  <1> QED BY <1>5, <1>6

(* The masters that do everything with one message.                         *)
LEMMA OneMessageKeeps ==
  ASSUME MastersInv, BuspirateV2 \/ LinuxSpi
  PROVE  MastersInv'
  <1>1. master \in {"buspirate_v2", "linux_spi"} /\ Fixed /\ UNCHANGED other
    BY DEF BuspirateV2, LinuxSpi, At
  <1>2. OtherMasters("none")
    BY <1>1 DEF OtherMasters, Bitbangs
  <1>3. Readcnt' = Readcnt /\ Answer' = Answer /\ Writearr' = Writearr
    BY <1>1 DEF Fixed, Readcnt, Answer, Writearr, Writecnt
  <1>4. pc = "start" /\ ~cs /\ pc' = "end"
    BY DEF BuspirateV2, LinuxSpi, At, Return, MastersInv, CommandTypes, NothingYet
  <1>5. /\ result' \in {"0", "error"} /\ CommandEnds'
    <2>1. CASE Transaction(Writearr, Readcnt) /\ Return("0") /\ readarr' = Answer
      <3>1. SentWhole' /\ ~cs'
        BY <1>1, <1>4, <2>1, TypesHold, SentByOne
      <3> QED BY <1>3, <2>1, <3>1 DEF CommandEnds, Return
    <2>2. CASE Quiet /\ Return("error")
      BY <1>4, <2>2 DEF CommandEnds, Quiet, Return
    <2> QED BY <2>1, <2>2 DEF BuspirateV2, LinuxSpi
  <1> QED BY <1>1, <1>2, <1>4, <1>5, MasterStep DEF OtherMasters, DediprogInv, BuspirateInv,
       Ft2232Inv, It87Inv, WbsioInv, It85Inv, Fixed, At

(* The steps of the FT2232: CS# stays asserted only where releasing it      *)
(* failed.                                                                  *)
LEMMA Ft2232Keeps ==
  ASSUME MastersInv, Ft2232Send \/ Ft2232GetBuf \/ Ft2232Deassert \/ Ft2232DeassertFails
  PROVE  MastersInv'
  <1>1. master = "ft2232" /\ Fixed /\ UNCHANGED other
    BY DEF Ft2232Send, Ft2232GetBuf, Ft2232Deassert, Ft2232DeassertFails, At
  <1>2. OtherMasters("ft2232")
    BY <1>1 DEF OtherMasters, Bitbangs
  <1>3. Readcnt' = Readcnt /\ Answer' = Answer /\ Writearr' = Writearr
    BY <1>1 DEF Fixed, Readcnt, Answer, Writearr, Writecnt
  <1>4. Readcnt \in Nat
    BY CommandFacts DEF MastersInv
  <1>5. SUFFICES /\ Ft2232Inv' /\ pc' # "start" /\ (result' = "none" <=> pc' # "end")
                 /\ pc' = "end" => CommandEnds'
    BY <1>1, <1>2, MasterStep DEF OtherMasters, DediprogInv, BuspirateInv, It87Inv, WbsioInv,
         It85Inv, Fixed, At
  <1>6. CASE Ft2232Send
    <2>1. pc = "start" /\ result = "none" /\ ~cs /\ regs' = Answer /\ readarr' = readarr
          /\ lost = "nothing" /\ chip = << >>
      BY <1>6 DEF Ft2232Send, At, MastersInv, CommandTypes, NothingYet
    <2>2. CASE UNCHANGED lost /\ Readcnt = 0 /\ Transaction(Writearr, 0) /\ Return("0")
      <3>1. SentWhole' /\ ~cs'
        BY <1>1, <2>1, <2>2, TypesHold, SentByOne
      <3> QED BY <1>3, <2>1, <2>2, <3>1 DEF CommandEnds, Return, Ft2232Inv, At
    <2>3. CASE /\ UNCHANGED lost /\ Readcnt # 0
               /\ cs' = TRUE /\ in' = Writearr /\ out' = Readcnt /\ Goto("get_buf")
               /\ UNCHANGED chip
      BY <1>3, <2>1, <2>3 DEF Goto, Ft2232Inv, At, Selected
    <2>4. CASE lost' = "bytes" /\ Quiet /\ Readcnt = 0 /\ Return("error")
      BY <2>1, <2>4 DEF CommandEnds, Return, Quiet, Ft2232Inv, At
    <2>5. CASE lost' = "bytes" /\ Quiet /\ Readcnt # 0 /\ Goto("deassert")
      BY <2>1, <2>5 DEF Goto, Ft2232Inv, At
    <2> QED BY <1>6, <2>2, <2>3, <2>4, <2>5 DEF Ft2232Send
  <1>7. CASE Ft2232GetBuf
    <2>1. Selected /\ regs = Answer /\ lost = "nothing" /\ result = "none" /\ Quiet
             /\ Goto("deassert")
      BY <1>7 DEF Ft2232GetBuf, MastersInv, Ft2232Inv, CommandTypes, At
    <2>2. Selected'
      BY <1>3, <2>1 DEF Selected, Quiet
    <2>3. readarr' = regs \/ lost' = "answer"
      BY <1>7 DEF Ft2232GetBuf
    <2> QED BY <1>3, <2>1, <2>2, <2>3 DEF Goto, Ft2232Inv, At
  <1>8. CASE Ft2232Deassert
    <2>1. Deselect /\ pc' = "end" /\ result' = (IF lost # "nothing" THEN "error" ELSE "0")
          /\ readarr' = readarr
      BY <1>8 DEF Ft2232Deassert, Return
    <2>2. ~cs'
      BY <2>1 DEF Deselect
    <2>3. lost = "nothing" => SentWhole' /\ readarr' = Answer'
      <3> SUFFICES ASSUME lost = "nothing" PROVE SentWhole' /\ readarr' = Answer'
        OBVIOUS
      <3>1. Selected /\ readarr = Answer
        BY <1>8 DEF Ft2232Deassert, MastersInv, Ft2232Inv
      <3> QED BY <1>3, <2>1, <3>1 DEF Selected, Deselect, SentWhole
    <2> QED BY <2>1, <2>2, <2>3 DEF CommandEnds, Ft2232Inv, At
  <1>9. CASE Ft2232DeassertFails
    BY <1>9 DEF Ft2232DeassertFails, Return, CommandEnds, Ft2232Inv, At
  <1> QED BY <1>6, <1>7, <1>8, <1>9

(* Numbered bytes go on in the next list.                                   *)
LEMMA UptoJoin ==
  ASSUME NEW m \in Nat, NEW n \in Nat, NEW t \in Seq(Nat), Len(t) = n,
         \A k \in 1 .. n : t[k] = m + k
  PROVE  Upto(m) \o t = Upto(m + n)
  <1>1. PICK u \in Seq(Nat) : u = Upto(m) /\ Len(u) = m /\ \A k \in 1 .. m : u[k] = k
    BY UptoGrows DEF Upto
  <1>2. PICK s : s = u \o t
    OBVIOUS
  <1>3. /\ u \o t \in Seq(Nat) /\ Len(u \o t) = Len(u) + Len(t)
        /\ \A k \in 1 .. Len(u) + Len(t) : (u \o t)[k] = IF k <= Len(u) THEN u[k] ELSE t[k - Len(u)]
    BY ConcatProperties
  <1>4. /\ s \in Seq(Nat) /\ Len(s) = m + n
        /\ \A k \in 1 .. m + n : s[k] = IF k <= m THEN u[k] ELSE t[k - m]
    BY <1>1, <1>2, <1>3
  <1>5. \A k \in 1 .. m + n : s[k] = k
    <2> SUFFICES ASSUME NEW k \in 1 .. m + n PROVE s[k] = k
      OBVIOUS
    <2>1. CASE k <= m
      BY <1>1, <1>4, <2>1
    <2>2. CASE ~(k <= m)
      <3>1. k - m \in 1 .. n
        BY <2>2
      <3>2. t[k - m] = m + (k - m)
        BY <3>1
      <3> QED BY <1>4, <2>2, <3>2
    <2> QED BY <2>1, <2>2
  <1>6. s = [k \in 1 .. m + n |-> k]
    <2>1. s = [k \in 1 .. m + n |-> s[k]]
      BY <1>4
    <2> QED BY <1>5, <2>1
  <1> QED BY <1>1, <1>2, <1>6 DEF Upto

(* The parts of a command of w bytes.                                       *)
CommandParts(a, d, w) ==
  \/ a = << >> /\ d = << >> /\ w = 1
  \/ a = << >> /\ d = << 2 >> /\ w = 2
  \/ a = <<2, 3, 4>> /\ d = << >> /\ w = 4
  \/ a = <<2, 3, 4>> /\ d = << 5 >> /\ w = 5
  \/ a = <<2, 3, 4>> /\ d = <<5, 6, 7, 8>> /\ w = 8

(* Opcode, address and data put together again are the command.             *)
LEMMA CommandJoins ==
  ASSUME NEW op, op = << 1 >>, NEW a, NEW d, NEW w, CommandParts(a, d, w)
  PROVE  op \o a \o d = Upto(w)
  <1>1. op = Upto(1)
    BY DEF Upto
  <1>2. PICK e : e = << >>
    OBVIOUS
  <1>3. e \in Seq(Nat) /\ Len(e) = 0
    BY <1>2
  <1>4. PICK f : f = <<2, 3, 4>>
    OBVIOUS
  <1>5. f \in Seq(Nat) /\ Len(f) = 3 /\ f[1] = 2 /\ f[2] = 3 /\ f[3] = 4
    BY <1>4
  <1>6. PICK x, y, z : x = << 2 >> /\ y = << 5 >> /\ z = <<5, 6, 7, 8>>
    OBVIOUS
  <1>7. /\ x \in Seq(Nat) /\ Len(x) = 1 /\ x[1] = 2
        /\ y \in Seq(Nat) /\ Len(y) = 1 /\ y[1] = 5
    BY <1>6
  <1>8. z \in Seq(Nat) /\ Len(z) = 4 /\ z[1] = 5 /\ z[2] = 6 /\ z[3] = 7 /\ z[4] = 8
    BY <1>6
  <1>9. \/ a = e /\ d = e /\ w = 1
        \/ a = e /\ d = x /\ w = 2
        \/ a = f /\ d = e /\ w = 4
        \/ a = f /\ d = y /\ w = 5
        \/ a = f /\ d = z /\ w = 8
    BY ONLY <1>2, <1>4, <1>6, CommandParts(a, d, w) DEF CommandParts
  <1>10. Upto(1) \o e = Upto(1)
    <2>1. PICK m, n : m = 1 /\ n = 0
      OBVIOUS
    <2>2. m \in Nat /\ n \in Nat /\ Len(e) = n /\ m + n = 1
      BY ONLY <1>3, <2>1
    <2>3. \A k \in 1 .. n : e[k] = m + k
      BY ONLY <1>3, <2>1
    <2>4. Upto(m) \o e = Upto(m + n)
      BY ONLY <1>3, <2>2, <2>3, UptoJoin
    <2> QED BY ONLY <2>1, <2>2, <2>4
  <1>11. Upto(1) \o f = Upto(4)
    <2>1. PICK m, n : m = 1 /\ n = 3
      OBVIOUS
    <2>2. m \in Nat /\ n \in Nat /\ Len(f) = n /\ m + n = 4
      BY ONLY <1>5, <2>1
    <2>3. \A k \in 1 .. n : f[k] = m + k
      BY ONLY <1>5, <2>1
    <2>4. Upto(m) \o f = Upto(m + n)
      BY ONLY <1>5, <2>2, <2>3, UptoJoin
    <2> QED BY ONLY <2>1, <2>2, <2>4
  <1>12. Upto(1) \o x = Upto(2)
    <2>1. PICK m, n : m = 1 /\ n = 1
      OBVIOUS
    <2>2. m \in Nat /\ n \in Nat /\ Len(x) = n /\ m + n = 2
      BY ONLY <1>7, <2>1
    <2>3. \A k \in 1 .. n : x[k] = m + k
      BY ONLY <1>7, <2>1
    <2>4. Upto(m) \o x = Upto(m + n)
      BY ONLY <1>7, <2>2, <2>3, UptoJoin
    <2> QED BY ONLY <2>1, <2>2, <2>4
  <1>13. Upto(4) \o e = Upto(4)
    <2>1. PICK m, n : m = 4 /\ n = 0
      OBVIOUS
    <2>2. m \in Nat /\ n \in Nat /\ Len(e) = n /\ m + n = 4
      BY ONLY <1>3, <2>1
    <2>3. \A k \in 1 .. n : e[k] = m + k
      BY ONLY <1>3, <2>1
    <2>4. Upto(m) \o e = Upto(m + n)
      BY ONLY <1>3, <2>2, <2>3, UptoJoin
    <2> QED BY ONLY <2>1, <2>2, <2>4
  <1>14. Upto(4) \o y = Upto(5)
    <2>1. PICK m, n : m = 4 /\ n = 1
      OBVIOUS
    <2>2. m \in Nat /\ n \in Nat /\ Len(y) = n /\ m + n = 5
      BY ONLY <1>7, <2>1
    <2>3. \A k \in 1 .. n : y[k] = m + k
      BY ONLY <1>7, <2>1
    <2>4. Upto(m) \o y = Upto(m + n)
      BY ONLY <1>7, <2>2, <2>3, UptoJoin
    <2> QED BY ONLY <2>1, <2>2, <2>4
  <1>15. Upto(4) \o z = Upto(8)
    <2>1. PICK m, n : m = 4 /\ n = 4
      OBVIOUS
    <2>2. m \in Nat /\ n \in Nat /\ Len(z) = n /\ m + n = 8
      BY ONLY <1>8, <2>1
    <2>3. \A k \in 1 .. n : z[k] = m + k
      BY ONLY <1>8, <2>1
    <2>4. Upto(m) \o z = Upto(m + n)
      BY ONLY <1>8, <2>2, <2>3, UptoJoin
    <2> QED BY ONLY <2>1, <2>2, <2>4
  <1> QED BY ONLY <1>1, <1>9, <1>10, <1>11, <1>12, <1>13, <1>14, <1>15

(* The steps of the IT87.                                                   *)
LEMMA It87Keeps ==
  ASSUME MastersInv, It87Start \/ It87Runs
  PROVE  MastersInv'
  <1>1. master = "it87spi" /\ Fixed /\ UNCHANGED other
    BY DEF It87Start, It87Runs, At
  <1>2. OtherMasters("it87spi")
    BY <1>1 DEF OtherMasters, Bitbangs
  <1>3. /\ Readcnt' = Readcnt /\ Answer' = Answer /\ Writearr' = Writearr /\ Writecnt' = Writecnt
        /\ It87Registers' = It87Registers /\ It87Limit' = It87Limit
    BY <1>1 DEF Fixed, Readcnt, Answer, Writearr, Writecnt, It87Registers, It87Limit
  <1>4. SUFFICES /\ It87Inv' /\ pc' # "start" /\ (result' = "none" <=> pc' # "end")
                 /\ pc' = "end" => CommandEnds'
    BY <1>1, <1>2, MasterStep DEF OtherMasters, DediprogInv, BuspirateInv, Ft2232Inv, WbsioInv,
         It85Inv, Fixed, At
  <1>5. CASE It87Start
    <2>1. NothingYet /\ It87Limit /\ regs' = It87Registers /\ Goto("busy") /\ Quiet
             /\ result = "none"
      BY <1>5 DEF It87Start, MastersInv, CommandTypes, At
    <2>2. NothingYet'
      BY <2>1 DEF NothingYet, Quiet
    <2> QED BY <1>3, <2>1, <2>2 DEF It87Inv, Goto
  <1>6. CASE It87Runs
    <2>1. NothingYet /\ It87Limit /\ regs = It87Registers /\ readarr' = Answer /\ Return("0")
      BY <1>6 DEF It87Runs, MastersInv, It87Inv
    <2>2. PICK a, d : /\ a = (IF Writecnt \in {4, 5} THEN <<regs.a[3], regs.a[2], regs.a[1]>>
                               ELSE <<>>)
                      /\ d = (IF Writecnt \in {2, 5} THEN <<regs.data>> ELSE <<>>)
      OBVIOUS
    <2>3. <<regs.opcode>> \o a \o d = Writearr
      <3>1. PICK op : op = <<regs.opcode>>
        OBVIOUS
      <3>2. op = << 1 >>
        BY <2>1, <3>1 DEF It87Registers
      <3>3. CommandParts(a, d, Writecnt)
        <4>1. CASE Writecnt = 1
          BY <2>2, <4>1 DEF CommandParts
        <4>2. CASE Writecnt = 2
          <5>1. regs.data = 2
            BY <2>1, <4>2 DEF It87Registers
          <5> QED BY <2>2, <4>2, <5>1 DEF CommandParts
        <4>3. CASE Writecnt = 4
          <5>1. regs.a = <<4, 3, 2>>
            BY <2>1, <4>3 DEF It87Registers
          <5>2. regs.a[1] = 4 /\ regs.a[2] = 3 /\ regs.a[3] = 2
            BY <5>1
          <5> QED BY <2>2, <4>3, <5>2 DEF CommandParts
        <4>4. CASE Writecnt = 5
          <5>1. regs.a = <<4, 3, 2>> /\ regs.data = 5
            BY <2>1, <4>4 DEF It87Registers
          <5>2. regs.a[1] = 4 /\ regs.a[2] = 3 /\ regs.a[3] = 2
            BY <5>1
          <5> QED BY <2>2, <4>4, <5>1, <5>2 DEF CommandParts
        <4> QED BY <2>1, <4>1, <4>2, <4>3, <4>4 DEF It87Limit
      <3>4. op \o a \o d = Upto(Writecnt)
        BY ONLY <3>2, <3>3, CommandJoins
      <3> QED BY ONLY <3>1, <3>4, UptoUses
    <2>4. Transaction(Writearr, Readcnt)
      BY <1>6, <2>2, <2>3 DEF It87Runs
    <2>5. SentWhole' /\ ~cs'
      BY <1>1, <2>1, <2>4, TypesHold, SentByOne
    <2>6. pc' = "end" /\ result' = "0"
      BY <2>1 DEF Return
    <2> QED BY <1>3, <2>1, <2>5, <2>6 DEF CommandEnds, It87Inv, At
  <1> QED BY <1>5, <1>6

(* The steps of the Winbond chip.                                           *)
LEMMA WbsioKeeps ==
  ASSUME MastersInv, WbsioStart \/ WbsioRun
  PROVE  MastersInv'
  <1>1. master = "wbsio" /\ Fixed /\ UNCHANGED other
    BY DEF WbsioStart, WbsioRun, At
  <1>2. OtherMasters("wbsio")
    BY <1>1 DEF OtherMasters, Bitbangs
  <1>3. /\ Readcnt' = Readcnt /\ Answer' = Answer /\ Writearr' = Writearr /\ Writecnt' = Writecnt
        /\ WbsioRegisters' = WbsioRegisters /\ WbsioMode' = WbsioMode
    BY <1>1 DEF Fixed, Readcnt, Answer, Writearr, Writecnt, WbsioRegisters, WbsioMode
  <1>4. SUFFICES /\ WbsioInv' /\ pc' # "start" /\ (result' = "none" <=> pc' # "end")
                 /\ pc' = "end" => CommandEnds'
    BY <1>1, <1>2, MasterStep DEF OtherMasters, DediprogInv, BuspirateInv, Ft2232Inv, It87Inv,
         It85Inv, Fixed, At
  <1>5. CASE WbsioStart
    <2>1. NothingYet /\ WbsioMode # 0 /\ regs' = WbsioRegisters /\ Goto("run") /\ Quiet
             /\ result = "none"
      BY <1>5 DEF WbsioStart, MastersInv, CommandTypes, At
    <2>2. NothingYet'
      BY <2>1 DEF NothingYet, Quiet
    <2> QED BY <1>3, <2>1, <2>2 DEF WbsioInv, Goto
  <1>6. CASE WbsioRun
    <2>1. NothingYet /\ WbsioMode # 0 /\ regs = WbsioRegisters
      BY <1>6 DEF WbsioRun, MastersInv, WbsioInv
    <2> DEFINE address == IF WbsioMode >= 4 THEN <<2, regs[2], regs[3]>> ELSE <<>>
               data == CASE WbsioMode \in {2, 5} -> <<regs[4]>>
                         [] WbsioMode = 6 -> <<regs[4], regs[5], regs[6], regs[7]>> [] OTHER -> <<>>
               n == CASE WbsioMode = 3 -> 2 [] WbsioMode >= 8 -> WbsioMode - 7 [] OTHER -> 0
    <2>2. Transaction(<<regs[0]>> \o address \o data, n) /\ readarr' = [k \in 1 .. n |-> k]
             /\ Return("0")
      BY <1>6 DEF WbsioRun
    <2>3. Writecnt \in Nat /\ Readcnt \in Nat
      BY TypesHold, CommandFacts
    <2>4. /\ regs[0] = 1
          /\ Writecnt >= 4 => regs[2] = 3 /\ regs[3] = 4
          /\ Writecnt = 2 => regs[4] = 2
          /\ Writecnt = 5 => regs[4] = 5
          /\ Writecnt = 8 => regs[4] = 5 /\ regs[5] = 6 /\ regs[6] = 7 /\ regs[7] = 8
      BY <2>1, <2>3 DEF WbsioRegisters
    <2>5. <<regs[0]>> \o address \o data = Writearr /\ n = Readcnt
      <3>1. PICK op, a, d : op = <<regs[0]>> /\ a = address /\ d = data
        OBVIOUS
      <3>2. op = << 1 >>
        BY ONLY <2>4, <3>1
      <3>3. ASSUME Writecnt = 1 /\ Readcnt = 0
            PROVE  CommandParts(a, d, Writecnt) /\ n = Readcnt
        <4>1. WbsioMode = 1
          BY <3>3 DEF WbsioMode
        <4>2. a = << >> /\ d = << >> /\ n = 0
          BY <3>1, <4>1
        <4> HIDE DEF address, data, n
        <4> QED BY <3>3, <4>2 DEF CommandParts
      <3>4. ASSUME Writecnt = 2 /\ Readcnt = 0
            PROVE  CommandParts(a, d, Writecnt) /\ n = Readcnt
        <4>1. WbsioMode = 2
          BY <3>4 DEF WbsioMode
        <4>2. a = << >> /\ d = <<regs[4]>> /\ n = 0
          BY <3>1, <4>1
        <4> HIDE DEF address, data, n
        <4> QED BY <2>4, <3>4, <4>2 DEF CommandParts
      <3>5. ASSUME Writecnt = 1 /\ Readcnt = 2
            PROVE  CommandParts(a, d, Writecnt) /\ n = Readcnt
        <4>1. WbsioMode = 3
          BY <3>5 DEF WbsioMode
        <4>2. a = << >> /\ d = << >> /\ n = 2
          BY <3>1, <4>1
        <4> HIDE DEF address, data, n
        <4> QED BY <3>5, <4>2 DEF CommandParts
      <3>6. ASSUME Writecnt = 4 /\ Readcnt \in 0 .. 4
            PROVE  CommandParts(a, d, Writecnt) /\ n = Readcnt
        <4>1. WbsioMode = IF Readcnt = 0 THEN 4 ELSE 7 + Readcnt
          BY <3>6 DEF WbsioMode
        <4>2. WbsioMode >= 4 /\ WbsioMode \notin {2, 3, 5, 6}
          BY <3>6, <4>1
        <4>3. a = <<2, regs[2], regs[3]>> /\ d = << >>
          BY <3>1, <4>2
        <4>4. n = Readcnt
          BY <3>6, <4>1
        <4> HIDE DEF address, data, n
        <4> QED BY <2>4, <3>6, <4>3, <4>4 DEF CommandParts
      <3>7. ASSUME Writecnt = 5 /\ Readcnt = 0
            PROVE  CommandParts(a, d, Writecnt) /\ n = Readcnt
        <4>1. WbsioMode = 5
          BY <3>7 DEF WbsioMode
        <4>2. a = <<2, regs[2], regs[3]>> /\ d = <<regs[4]>> /\ n = 0
          BY <3>1, <4>1
        <4> HIDE DEF address, data, n
        <4> QED BY <2>4, <3>7, <4>2 DEF CommandParts
      <3>8. ASSUME Writecnt = 8 /\ Readcnt = 0
            PROVE  CommandParts(a, d, Writecnt) /\ n = Readcnt
        <4>1. WbsioMode = 6
          BY <3>8 DEF WbsioMode
        <4>2. a = <<2, regs[2], regs[3]>> /\ d = <<regs[4], regs[5], regs[6], regs[7]>> /\ n = 0
          BY <3>1, <4>1
        <4> HIDE DEF address, data, n
        <4> QED BY <2>4, <3>8, <4>2 DEF CommandParts
      <3>9. \/ Writecnt = 1 /\ Readcnt = 0
            \/ Writecnt = 2 /\ Readcnt = 0
            \/ Writecnt = 1 /\ Readcnt = 2
            \/ Writecnt = 4 /\ Readcnt \in 0 .. 4
            \/ Writecnt = 5 /\ Readcnt = 0
            \/ Writecnt = 8 /\ Readcnt = 0
        BY <2>1, <2>3 DEF WbsioMode
      <3> HIDE DEF address, data, n
      <3>10. CommandParts(a, d, Writecnt) /\ n = Readcnt
        BY ONLY <3>3, <3>4, <3>5, <3>6, <3>7, <3>8, <3>9
      <3>11. op \o a \o d = Upto(Writecnt)
        BY ONLY <3>2, <3>10, CommandJoins
      <3> QED BY ONLY <3>1, <3>10, <3>11, UptoUses
    <2> HIDE DEF address, data, n
    <2>6. Transaction(Writearr, Readcnt) /\ readarr' = Answer
      BY <2>2, <2>5 DEF Answer
    <2>7. SentWhole' /\ ~cs'
      BY <1>1, <2>1, <2>6, TypesHold, SentByOne
    <2>8. pc' = "end" /\ result' = "0"
      BY <2>2 DEF Return
    <2> QED BY <1>3, <2>6, <2>7, <2>8 DEF CommandEnds, WbsioInv, At
  <1> QED BY <1>5, <1>6

(* The steps of the IT85.                                                   *)
LEMMA It85Keeps ==
  ASSUME MastersInv, It85CeHigh \/ It85CeLow
  PROVE  MastersInv'
  <1>1. master = "it85spi" /\ Fixed /\ UNCHANGED other
    BY DEF It85CeHigh, It85CeLow, At
  <1>2. OtherMasters("it85spi")
    BY <1>1 DEF OtherMasters, Bitbangs
  <1>3. /\ Readcnt' = Readcnt /\ Answer' = Answer /\ Writearr' = Writearr /\ Writecnt' = Writecnt
    BY <1>1 DEF Fixed, Readcnt, Answer, Writearr, Writecnt
  <1>4. SUFFICES /\ It85Inv' /\ pc' # "start" /\ (result' = "none" <=> pc' # "end")
                 /\ pc' = "end" => CommandEnds'
    BY <1>1, <1>2, MasterStep DEF OtherMasters, DediprogInv, BuspirateInv, Ft2232Inv, It87Inv,
         WbsioInv, Fixed, At
  <1>5. Writecnt \in Nat \ {0} /\ Readcnt \in Nat
    BY TypesHold, CommandFacts
  <1>6. CASE It85CeHigh /\ pc = "start"
    <2>1. NothingYet /\ i = 0 /\ readarr = << >> /\ result = "none"
      BY <1>6 DEF MastersInv, CommandTypes
    <2>2. Deselect /\ Goto("shift") /\ UNCHANGED readarr
      BY <1>6 DEF It85CeHigh
    <2>3. chip' = << >> /\ ~cs' /\ in' = << >> /\ out' = 0 /\ i' = 0 /\ readarr' = << >>
      BY <2>1, <2>2 DEF Deselect, NothingYet, Goto
    <2>4. in' = Upto(0) /\ readarr' = Upto(0)
      BY <2>3, UptoNone
    <2> QED BY <1>3, <1>5, <2>1, <2>2, <2>3, <2>4 DEF It85Inv, Goto, BytesIn, BytesOut
  <1>7. CASE It85CeHigh /\ pc # "start"
    <2>1. At("it85spi", "shift") /\ i = Writecnt + Readcnt /\ Deselect /\ Return("0")
             /\ UNCHANGED readarr
      BY <1>7 DEF It85CeHigh, At
    <2>2. chip = << >> /\ cs /\ BytesIn(i) /\ BytesOut(i) /\ readarr = Upto(out)
      BY <1>5, <2>1 DEF MastersInv, It85Inv
    <2>3. in = Upto(Writecnt) /\ out = Readcnt
      BY <1>5, <2>1, <2>2 DEF BytesIn, BytesOut
    <2>4. SentWhole' /\ ~cs'
      BY <1>3, <2>1, <2>2, <2>3, UptoUses DEF SentWhole, Deselect
    <2>5. readarr' = Answer'
      BY <1>3, <2>1, <2>2, <2>3, UptoUses
    <2>6. pc' = "end" /\ result' = "0"
      BY <2>1 DEF Return
    <2> QED BY <2>4, <2>5, <2>6 DEF CommandEnds, It85Inv, At
  <1>8. CASE It85CeLow
    <2>1. /\ At("it85spi", "shift") /\ i < Writecnt + Readcnt
          /\ cs' = TRUE /\ i' = i + 1 /\ UNCHANGED <<pc, chip, result>>
      BY <1>8 DEF It85CeLow
    <2>2. /\ i \in 0 .. Writecnt + Readcnt /\ chip = << >>
          /\ BytesIn(i) /\ BytesOut(i) /\ readarr = Upto(out) /\ result = "none"
      BY <2>1 DEF MastersInv, It85Inv, CommandTypes, At
    <2>3. CASE i < Writecnt
      <3>1. in' = Append(in, i + 1) /\ UNCHANGED <<out, readarr>>
        BY <1>8, <2>3 DEF It85CeLow
      <3>2. in = Upto(i) /\ out = 0
        BY <1>5, <2>2, <2>3 DEF BytesIn, BytesOut
      <3>3. in' = Upto(i + 1)
        <4>1. i \in Nat
          BY <1>5, <2>2
        <4> QED BY ONLY <3>1, <3>2, <4>1, UptoGrows
      <3>4. BytesIn(i)' /\ BytesOut(i)' /\ readarr' = Upto(out')
        <4>1. /\ (IF i <= Writecnt THEN i ELSE Writecnt)' = i + 1
              /\ (IF i <= Writecnt THEN 0 ELSE i - Writecnt)' = 0
          BY <1>3, <1>5, <2>1, <2>2, <2>3
        <4> QED BY <1>3, <2>1, <2>2, <3>1, <3>2, <3>3, <4>1 DEF BytesIn, BytesOut
      <3> QED BY <1>3, <1>5, <2>1, <2>2, <3>4 DEF It85Inv, At
    <2>4. CASE ~(i < Writecnt)
      <3>1. out' = out + 1 /\ readarr' = Append(readarr, out') /\ UNCHANGED in
        BY <1>8, <2>4 DEF It85CeLow
      <3>2. in = Upto(Writecnt) /\ out = i - Writecnt
        BY <1>5, <2>2, <2>4 DEF BytesIn, BytesOut
      <3>3. readarr' = Upto(out + 1)
        <4>1. out \in Nat
          BY <1>5, <2>2, <2>4, <3>2
        <4>2. readarr' = Append(Upto(out), out + 1)
          BY <2>2, <3>1
        <4> QED BY ONLY <4>1, <4>2, UptoGrows
      <3>4. BytesIn(i)' /\ BytesOut(i)' /\ readarr' = Upto(out')
        <4>1. /\ (IF i <= Writecnt THEN i ELSE Writecnt)' = Writecnt
              /\ (IF i <= Writecnt THEN 0 ELSE i - Writecnt)' = i - Writecnt + 1
          BY <1>3, <1>5, <2>1, <2>2, <2>4
        <4> QED BY <1>3, <2>1, <2>2, <3>1, <3>2, <3>3, <4>1 DEF BytesIn, BytesOut
      <3> QED BY <1>3, <1>5, <2>1, <2>2, <3>4 DEF It85Inv, At
    <2> QED BY <2>3, <2>4
  <1> QED BY <1>6, <1>7, <1>8

-----------------------------------------------------------------------------
(* The SB600, whose FIFO another user may move.                             *)

(* The registers of the SB600, each by its name.                            *)
Sb600Regs(R, F, p, w, r) == R = [fifo |-> F, ptr |-> p, cmd |-> 1, write |-> w, read |-> r]

(* What is known in every step between the start and the end.               *)
LEMMA Sb600Known ==
  ASSUME MastersInv, master = "sb600", pc \notin {"start", "end"}
  PROVE  /\ ~cs /\ Sb600Limit /\ pc \in Sb600Before \cup Sb600After /\ result = "none"
         /\ Sb600Regs(regs, regs.fifo, regs.ptr, regs.write, regs.read)
         /\ regs.write \in 0 .. Writecnt - 1
         /\ regs.write = Writecnt - 1 => Sb600Right
         /\ Writecnt \in 1 .. 9 /\ Readcnt \in 0 .. 8 /\ other \in 0 .. 7
  <1>1. Sb600Inv /\ CommandTypes
    BY DEF MastersInv
  <1>2. Writecnt \in Nat \ {0} /\ Readcnt \in Nat /\ MaxOther \in 0 .. 7
    BY <1>1, CommandFacts
  <1>3. Sb600Limit
    BY <1>1 DEF Sb600Inv
  <1>4. Writecnt \in 1 .. 9 /\ Readcnt \in 0 .. 8
    BY <1>2, <1>3 DEF Sb600Limit
  <1>5. other \in 0 .. 7 /\ result = "none"
    BY <1>1, <1>2 DEF CommandTypes
  <1> QED BY <1>1, <1>4, <1>5 DEF Sb600Inv, Sb600Regs

(* A step of the SB600 that keeps its part of the invariant keeps all of    *)
(* it.                                                                      *)
LEMMA Sb600Holds ==
  ASSUME MastersInv, master = "sb600", Fixed, other' \in 0 .. MaxOther,
         result' = "none" <=> pc' # "end", pc' # "start", pc' = "end" => CommandEnds',
         Sb600Inv'
  PROVE  MastersInv'
  <1>1. CommandTypes'
    BY DEF MastersInv, CommandTypes, Fixed
  <1>2. master' = "sb600"
    BY DEF Fixed
  <1> QED BY <1>1, <1>2 DEF MastersInv, DediprogInv, BuspirateInv, Ft2232Inv, It87Inv, WbsioInv,
       It85Inv, BitbangInv, Bitbangs, At

(* What the steps need to show of the registers they leave.                 *)
LEMMA Sb600Leaves ==
  ASSUME NEW F, NEW p, NEW w, NEW r, Sb600Regs(regs', F, p, w, r),
         Fixed, Writecnt \in Nat \ {0}, Sb600Limit, ~cs', pc' \in Sb600Before \cup Sb600After,
         w \in 0 .. Writecnt - 1, w = Writecnt - 1 => Sb600Right'
  PROVE  Sb600Inv'
  <1>1. regs' = [fifo |-> F, ptr |-> p, cmd |-> 1, write |-> w, read |-> r]
    BY DEF Sb600Regs
  <1>2. regs'.fifo = F /\ regs'.ptr = p /\ regs'.write = w /\ regs'.read = r
    BY <1>1
  <1>3. regs' = [fifo |-> regs'.fifo, ptr |-> regs'.ptr, cmd |-> 1,
                 write |-> regs'.write, read |-> regs'.read]
    BY <1>1, <1>2
  <1>4. Sb600Limit' /\ Writecnt' = Writecnt
    BY DEF Fixed, Sb600Limit, Writecnt, Readcnt
  <1> QED BY <1>2, <1>3, <1>4 DEF Sb600Inv

(* The fields of the registers.                                             *)
LEMMA Sb600Field ==
  ASSUME NEW F, NEW p, NEW w, NEW r, Sb600Regs(regs', F, p, w, r)
  PROVE  regs'.fifo = F /\ regs'.ptr = p /\ regs'.write = w /\ regs'.read = r
  BY DEF Sb600Regs

(* Fewer than eight moves of a pointer modulo eight show.                   *)
LEMMA Drifting ==
  ASSUME NEW b \in Nat, NEW d \in 0 .. 7
  PROVE  /\ (b + d) % 8 = b % 8 <=> d = 0
         /\ (b + d) % 8 \in 0 .. 7
         /\ (((b + d) % 8) + 1) % 8 = (b + 1 + d) % 8
         /\ (((b + d) % 8) + 1) % 8 = (b + (d + 1)) % 8
         /\ (((b + d) % 8) + 1) % 8 = (b + 1) % 8 => d = 0
  OBVIOUS

(* A cleared pointer has not moved.                                         *)
LEMMA NoDrift ==
  ASSUME NEW o \in Nat
  PROVE  Drifted(0, o, 0)
  <1>1. 0 \in 0 .. o /\ 0 = (0 + 0) % 8
    OBVIOUS
  <1> QED BY <1>1 DEF Drifted

(* The lengths and the opcode are written.                                  *)
LEMMA Sb600StartKeeps ==
  ASSUME MastersInv, Sb600Start
  PROVE  MastersInv'
  <1>1. master = "sb600" /\ pc = "start" /\ Fixed /\ UNCHANGED <<other, readarr, lost>>
           /\ Sb600Limit
        /\ Goto("clear_to_write") /\ Quiet
    BY DEF Sb600Start, At
  <1>2. NothingYet /\ readarr = << >> /\ result = "none" /\ other \in 0 .. MaxOther
    BY <1>1 DEF MastersInv, CommandTypes
  <1>3. Writecnt \in Nat \ {0} /\ Readcnt \in Nat
    BY TypesHold, CommandFacts
  <1>4. PICK F : F = [k \in 0 .. 7 |-> 0]
    OBVIOUS
  <1>5. Sb600Regs(regs', F, 0, Writecnt - 1, Readcnt + ReadOffBy1)
    BY <1>4 DEF Sb600Start, Sb600Regs
  <1>6. Sb600Right'
    <2>1. regs'.fifo = F /\ regs'.ptr = 0 /\ regs'.read = Readcnt + ReadOffBy1
      BY <1>5, Sb600Field
    <2>2. Readcnt' = Readcnt /\ ReadOffBy1' = ReadOffBy1
      BY <1>1 DEF Fixed, Readcnt, ReadOffBy1, Writecnt
    <2>3. F = [s \in 0 .. 7 |-> F[s]]
      BY <1>4
    <2>4. pc' = "clear_to_write" /\ chip' = << >> /\ readarr' = << >>
      BY <1>1, <1>2 DEF Goto, Quiet, NothingYet
    <2> QED BY <2>1, <2>2, <2>3, <2>4 DEF Sb600Right
  <1>7. ~cs' /\ pc' = "clear_to_write" /\ result' = "none"
    BY <1>1, <1>2 DEF Quiet, NothingYet, Goto
  <1>8. Sb600Inv'
    BY <1>1, <1>3, <1>5, <1>6, <1>7, Sb600Leaves DEF Sb600Before
  <1> QED BY <1>1, <1>2, <1>7, <1>8, Sb600Holds

(* The pointer is cleared, which takes the moves of the other back.         *)
LEMMA Sb600ClearedKeeps ==
  ASSUME MastersInv, Sb600Cleared
  PROVE  MastersInv'
  <1>1. /\ master = "sb600" /\ regs.ptr = 0 /\ i' = 0 /\ Fixed /\ Quiet
        /\ UNCHANGED <<regs, readarr, result, lost, other>>
        /\ \/ pc = "clear_to_write" /\ pc' = "write"
           \/ pc = "clear_to_execute" /\ pc' = "execute"
           \/ pc = "clear_to_skip" /\ pc' = "skip"
           \/ pc = "clear_to_count" /\ pc' = "count"
    BY DEF Sb600Cleared, Sb600Clear
  <1>2. /\ ~cs /\ Sb600Limit /\ result = "none"
        /\ Sb600Regs(regs, regs.fifo, regs.ptr, regs.write, regs.read)
        /\ regs.write \in 0 .. Writecnt - 1
        /\ regs.write = Writecnt - 1 => Sb600Right
        /\ Writecnt \in 1 .. 9 /\ Readcnt \in 0 .. 8 /\ other \in 0 .. 7
    BY <1>1, Sb600Known
  <1>3. /\ Writecnt' = Writecnt /\ Readcnt' = Readcnt /\ ReadOffBy1' = ReadOffBy1
        /\ SentWhole' = SentWhole /\ Answer' = Answer /\ Sb600Answer' = Sb600Answer
    BY <1>1 DEF Fixed, Quiet, Writecnt, Readcnt, ReadOffBy1, SentWhole, Writearr, Answer,
         Sb600Answer
  <1>4. Sb600Right => Sb600Right'
    <2> SUFFICES ASSUME Sb600Right PROVE Sb600Right'
      OBVIOUS
    <2>1. /\ regs'.read = Readcnt' + ReadOffBy1' /\ regs'.ptr \in 0 .. 7
          /\ regs'.fifo = [s \in 0 .. 7 |-> regs'.fifo[s]]
      BY <1>1, <1>3 DEF Sb600Right
    <2>2. Drift(0)' /\ Drift(i)'
      BY <1>1, <1>2, NoDrift DEF Drift
    <2>3. CASE pc = "clear_to_write" /\ pc' = "write"
      <3>1. chip' = << >> /\ readarr' = << >>
        BY <1>1, <2>3 DEF Sb600Right, Sb600Before, Quiet
      <3>2. i' \in 0 .. Writecnt' - 1 /\ Stored(i)'
        BY <1>1, <1>2, <1>3 DEF Stored
      <3> QED BY <2>1, <2>2, <2>3, <3>1, <3>2 DEF Sb600Right
    <2>4. CASE pc = "clear_to_execute" /\ pc' = "execute"
      <3>1. chip' = << >> /\ readarr' = << >>
        BY <1>1, <2>4 DEF Sb600Right, Sb600Before, Quiet
      <3>2. Stored(Writecnt - 1)'
        BY <1>1, <1>3, <2>4 DEF Sb600Right, Stored
      <3> QED BY <1>1, <2>1, <2>2, <2>4, <3>1, <3>2 DEF Sb600Right
    <2>5. CASE pc = "clear_to_skip" /\ pc' = "skip"
      <3>1. readarr' = << >> /\ SentWhole' /\ Sb600Answer'
        BY <1>1, <1>3, <2>5 DEF Sb600Right
      <3>2. i' \in 0 .. Writecnt' - 1
        BY <1>1, <1>2, <1>3
      <3> QED BY <2>1, <2>2, <2>5, <3>1, <3>2 DEF Sb600Right, Sb600Before
    <2>6. CASE pc = "clear_to_count" /\ pc' = "count"
      <3>1. SentWhole' /\ readarr' = Answer'
        BY <1>1, <1>3, <2>6 DEF Sb600Right
      <3> QED BY <2>1, <2>6, <3>1 DEF Sb600Right, Sb600Before
    <2> QED BY <1>1, <2>3, <2>4, <2>5, <2>6
  <1>5. /\ Sb600Regs(regs', regs.fifo, regs.ptr, regs.write, regs.read) /\ ~cs'
        /\ pc' \in Sb600Before \cup Sb600After /\ pc' \notin {"start", "end"}
    BY <1>1, <1>2 DEF Sb600Regs, Quiet, Sb600Before, Sb600After
  <1>6. Sb600Inv'
    <2>1. PICK F, p, w, r : F = regs.fifo /\ p = regs.ptr /\ w = regs.write /\ r = regs.read
      OBVIOUS
    <2>2. Sb600Regs(regs', F, p, w, r)
      BY <1>1, <1>2, <2>1 DEF Sb600Regs
    <2> QED BY <1>1, <1>2, <1>4, <1>5, <2>1, <2>2, Sb600Leaves
  <1>7. other' \in 0 .. MaxOther
    BY <1>1 DEF MastersInv, CommandTypes
  <1> QED BY <1>1, <1>2, <1>5, <1>6, <1>7, Sb600Holds

(* The length of the next read is set back.                                 *)
LEMMA Sb600CountKeeps ==
  ASSUME MastersInv, Sb600Count
  PROVE  MastersInv'
  <1>1. /\ master = "sb600" /\ pc = "count" /\ pc' = "end" /\ Fixed /\ Quiet
        /\ UNCHANGED <<regs, readarr, lost, other>> /\ result' \in {"0", "error"}
        /\ result' = "0" => regs.write = Writecnt - 1
    BY DEF Sb600Count, Return, At
  <1>2. /\ ~cs
        /\ regs.write = Writecnt - 1 => Sb600Right
    BY <1>1, Sb600Known
  <1>3. result' = "0" => SentWhole' /\ readarr' = Answer'
    BY <1>1, <1>2 DEF Sb600Right, SentWhole, Answer, Fixed, Quiet, Writearr, Writecnt, Readcnt
  <1>4. CommandEnds' /\ Sb600Inv'
    BY <1>1, <1>2, <1>3 DEF CommandEnds, Quiet, Sb600Inv
  <1>5. other' \in 0 .. MaxOther
    BY <1>1 DEF MastersInv, CommandTypes
  <1> QED BY <1>1, <1>4, <1>5, Sb600Holds

(* What all steps between the start and the end of the SB600 leave alone.   *)
Sb600Fixed ==
  /\ Writecnt' = Writecnt /\ Readcnt' = Readcnt /\ ReadOffBy1' = ReadOffBy1
  /\ Answer' = Answer /\ Writearr' = Writearr

(* A step that fixes the command fixes what is computed from it.            *)
LEMMA Sb600FixedByAll ==
  ASSUME Fixed
  PROVE  Sb600Fixed
  BY DEF Fixed, Sb600Fixed, Writecnt, Readcnt, ReadOffBy1, Writearr, Answer

(* A step that does not speak to the chip.                                  *)
LEMMA SentStays ==
  ASSUME Fixed, Quiet
  PROVE  SentWhole' = SentWhole
  BY DEF Fixed, Quiet, SentWhole, Writearr, Writecnt, Readcnt

(* A step of the pointer, and a move by the other user.                     *)
LEMMA DriftsOn ==
  ASSUME NEW p, NEW o \in 0 .. 7, NEW n \in Nat, Drifted(p, o, n)
  PROVE  /\ p \in 0 .. 7
         /\ Drifted((p + 1) % 8, o, n + 1)
         /\ (p + 1) % 8 = (n + 1) % 8 => p = n % 8
         /\ o + 1 \in 0 .. 7 => Drifted((p + 1) % 8, o + 1, n) /\ (p + 1) % 8 # n % 8
  <1>1. PICK d \in 0 .. o : p = (n + d) % 8
    BY DEF Drifted
  <1>2. d \in 0 .. 7
    BY <1>1
  <1>3. /\ (n + d) % 8 = n % 8 <=> d = 0
        /\ (n + d) % 8 \in 0 .. 7
        /\ (((n + d) % 8) + 1) % 8 = (n + 1 + d) % 8
        /\ (((n + d) % 8) + 1) % 8 = (n + (d + 1)) % 8
        /\ (((n + d) % 8) + 1) % 8 = (n + 1) % 8 => d = 0
    BY <1>2, Drifting
  <1>4. Drifted((p + 1) % 8, o, n + 1)
    <2>1. (p + 1) % 8 = ((n + 1) + d) % 8
      BY <1>1, <1>3
    <2> QED BY <1>1, <2>1 DEF Drifted
  <1>5. (p + 1) % 8 = (n + 1) % 8 => p = n % 8
    BY <1>1, <1>3
  <1>6. ASSUME o + 1 \in 0 .. 7 PROVE Drifted((p + 1) % 8, o + 1, n) /\ (p + 1) % 8 # n % 8
    <2>1. d + 1 \in 0 .. o + 1 /\ d + 1 \in 0 .. 7 /\ d + 1 # 0
      BY <1>1, <1>6
    <2>2. (p + 1) % 8 = (n + (d + 1)) % 8
      BY <1>1, <1>3
    <2>3. (n + (d + 1)) % 8 # n % 8
      BY <2>1, Drifting
    <2> QED BY <2>1, <2>2, <2>3 DEF Drifted
  <1> QED BY <1>1, <1>3, <1>4, <1>5, <1>6

(* A byte through the FIFO port.                                            *)
LEMMA Sb600PortKeeps ==
  ASSUME MastersInv, Sb600Port
  PROVE  MastersInv'
  <1>1. /\ master = "sb600" /\ pc \in {"write", "skip", "read"} /\ i' = i + 1 /\ Fixed /\ Quiet
        /\ UNCHANGED <<pc, result, lost, other>>
    BY DEF Sb600Port, At
  <1>2. /\ ~cs /\ Sb600Limit /\ pc \in Sb600Before \cup Sb600After /\ result = "none"
        /\ Sb600Regs(regs, regs.fifo, regs.ptr, regs.write, regs.read)
        /\ regs.write \in 0 .. Writecnt - 1
        /\ regs.write = Writecnt - 1 => Sb600Right
        /\ Writecnt \in 1 .. 9 /\ Readcnt \in 0 .. 8 /\ other \in 0 .. 7
    BY <1>1, Sb600Known
  <1>3. Sb600Fixed /\ SentWhole' = SentWhole
    BY <1>1, Sb600FixedByAll, SentStays
  <1>4. PICK F, p, w, r : F = regs.fifo /\ p = regs.ptr /\ w = regs.write /\ r = regs.read
    OBVIOUS
  <1>5. regs = [fifo |-> F, ptr |-> p, cmd |-> 1, write |-> w, read |-> r]
    BY <1>2, <1>4 DEF Sb600Regs
  <1>6. PICK G : /\ Sb600Regs(regs', G, (p + 1) % 8, w, r)
                 /\ pc = "write" => /\ i < Writecnt - 1 /\ G = [F EXCEPT ![p] = i + 2]
                                    /\ readarr' = readarr
                 /\ pc = "skip" => i < Writecnt - 1 /\ G = F /\ readarr' = readarr
                 /\ pc = "read" => i < Readcnt /\ G = F /\ readarr' = Append(readarr, F[p])
    <2>1. CASE pc = "write"
      <3>1. PICK G : G = [F EXCEPT ![p] = i + 2]
        OBVIOUS
      <3>2. i < Writecnt - 1 /\ readarr' = readarr
            /\ regs' = [regs EXCEPT !.fifo[regs.ptr] = i + 2, !.ptr = (@ + 1) % 8]
        BY <2>1 DEF Sb600Port, At
      <3>3. regs' = [fifo |-> G, ptr |-> (p + 1) % 8, cmd |-> 1, write |-> w, read |-> r]
        BY <1>5, <3>1, <3>2
      <3> QED BY <2>1, <3>1, <3>2, <3>3 DEF Sb600Regs
    <2>2. CASE pc = "skip"
      <3>2. i < Writecnt - 1 /\ readarr' = readarr /\ regs' = [regs EXCEPT !.ptr = (@ + 1) % 8]
        BY <2>2 DEF Sb600Port, At
      <3>3. regs' = [fifo |-> F, ptr |-> (p + 1) % 8, cmd |-> 1, write |-> w, read |-> r]
        BY <1>5, <3>2
      <3> QED BY <2>2, <3>2, <3>3 DEF Sb600Regs
    <2>3. CASE pc = "read"
      <3>2. /\ i < Readcnt /\ readarr' = Append(readarr, regs.fifo[regs.ptr])
            /\ regs' = [regs EXCEPT !.ptr = (@ + 1) % 8]
        BY <2>3 DEF Sb600Port, At
      <3>3. regs' = [fifo |-> F, ptr |-> (p + 1) % 8, cmd |-> 1, write |-> w, read |-> r]
        BY <1>5, <3>2
      <3> QED BY <1>4, <2>3, <3>2, <3>3 DEF Sb600Regs
    <2> QED BY <1>1, <2>1, <2>2, <2>3
  <1>7. regs'.fifo = G /\ regs'.ptr = (p + 1) % 8 /\ regs'.write = w /\ regs'.read = r
    BY <1>6, Sb600Field
  <1>8. ASSUME w = Writecnt - 1 PROVE Sb600Right'
    <2>1. Sb600Right
      BY <1>2, <1>4, <1>8
    <2>2. p \in 0 .. 7 /\ F = [s \in 0 .. 7 |-> F[s]] /\ r = Readcnt + ReadOffBy1
      BY <1>4, <2>1 DEF Sb600Right
    <2>3. regs'.ptr \in 0 .. 7 /\ regs'.fifo = [s \in 0 .. 7 |-> regs'.fifo[s]]
      <3>1. (p + 1) % 8 \in 0 .. 7
        BY <2>2
      <3>2. CASE pc = "write"
        BY <1>6, <1>7, <2>2, <3>1, <3>2
      <3>3. CASE pc # "write"
        BY <1>1, <1>6, <1>7, <2>2, <3>1, <3>3
      <3> QED BY <3>2, <3>3
    <2>4. regs'.read = Readcnt' + ReadOffBy1'
      BY <1>3, <1>7, <2>2 DEF Sb600Fixed
    <2>5. CASE pc = "write"
      <3>1. chip' = << >> /\ readarr' = << >>
        BY <1>1, <1>6, <2>1, <2>5 DEF Sb600Right, Sb600Before, Quiet
      <3>2. i \in 0 .. Writecnt - 1 /\ Drifted(p, other, i) /\ (p = i % 8 => Stored(i))
        BY <1>4, <2>1, <2>5 DEF Sb600Right, Drift
      <3>3. i \in Nat /\ i < Writecnt - 1 /\ i' \in 0 .. Writecnt' - 1
        BY <1>1, <1>2, <1>3, <1>6, <2>5, <3>2 DEF Sb600Fixed
      <3>4. Drifted((p + 1) % 8, other, i + 1) /\ ((p + 1) % 8 = (i + 1) % 8 => p = i % 8)
        BY <1>2, <3>2, <3>3, DriftsOn
      <3>5. Drift(i)'
        BY <1>1, <1>7, <3>4 DEF Drift
      <3>6. regs'.ptr = i' % 8 => Stored(i)'
        <4> SUFFICES ASSUME regs'.ptr = i' % 8 PROVE Stored(i)'
          OBVIOUS
        <4>1. p = i % 8
          BY <1>1, <1>7, <3>4
        <4>2. i \in 0 .. 7 /\ p = i
          BY <1>2, <3>3, <4>1
        <4>3. \A k \in 0 .. i - 1 : F[k] = k + 2
          BY <1>4, <3>2, <4>1 DEF Stored
        <4>4. G = [F EXCEPT ![p] = i + 2]
          BY <1>6, <2>5
        <4>5. \A k \in 0 .. i : G[k] = k + 2
          <5>1. DOMAIN F = 0 .. 7
            BY <2>2
          <5>2. G = [s \in 0 .. 7 |-> IF s = p THEN i + 2 ELSE F[s]]
            BY ONLY <4>4, <5>1
          <5> QED BY ONLY <4>2, <4>3, <5>2
        <4>6. i' - 1 = i
          BY <1>1, <3>3
        <4> QED BY <1>7, <4>5, <4>6 DEF Stored
      <3> QED BY <1>1, <2>3, <2>4, <2>5, <3>1, <3>3, <3>5, <3>6 DEF Sb600Right
    <2>6. CASE pc = "skip"
      <3>1. SentWhole' /\ readarr' = << >> /\ Sb600Answer'
        BY <1>3, <1>4, <1>6, <1>7, <2>1, <2>6 DEF Sb600Right, Sb600Answer, Sb600Fixed
      <3>2. i \in 0 .. Writecnt - 1 /\ Drifted(p, other, i)
        BY <1>4, <2>1, <2>6 DEF Sb600Right, Drift
      <3>3. i \in Nat /\ i < Writecnt - 1 /\ i' \in 0 .. Writecnt' - 1
        BY <1>1, <1>2, <1>3, <1>6, <2>6, <3>2 DEF Sb600Fixed
      <3>4. Drifted((p + 1) % 8, other, i + 1)
        BY <1>2, <3>2, <3>3, DriftsOn
      <3>5. Drift(i)'
        BY <1>1, <1>7, <3>4 DEF Drift
      <3> QED BY <1>1, <2>3, <2>4, <2>6, <3>1, <3>3, <3>5 DEF Sb600Right, Sb600Before
    <2>7. CASE pc = "read"
      <3>1. SentWhole' /\ Sb600Answer'
        BY <1>3, <1>4, <1>6, <1>7, <2>1, <2>7 DEF Sb600Right, Sb600Answer, Sb600Fixed
      <3>2. /\ i \in 0 .. Readcnt /\ Drifted(p, other, Writecnt - 1 + i) /\ Sb600Answer
            /\ p = (Writecnt - 1 + i) % 8 => readarr = Upto(i)
        BY <1>4, <2>1, <2>7 DEF Sb600Right, Drift
      <3>3. /\ i \in Nat /\ i < Readcnt /\ i' \in 0 .. Readcnt' /\ Writecnt - 1 + i \in Nat
            /\ Writecnt - 1 + i + 1 = Writecnt - 1 + (i + 1)
        BY <1>1, <1>2, <1>3, <1>6, <2>7, <3>2 DEF Sb600Fixed
      <3>4. /\ Drifted((p + 1) % 8, other, Writecnt - 1 + (i + 1))
            /\ (p + 1) % 8 = (Writecnt - 1 + (i + 1)) % 8 => p = (Writecnt - 1 + i) % 8
        BY <1>2, <3>2, <3>3, DriftsOn
      <3>5. Drift(Writecnt - 1 + i)'
        BY <1>1, <1>3, <1>7, <3>4 DEF Drift, Sb600Fixed
      <3>6. regs'.ptr = (Writecnt' - 1 + i') % 8 => readarr' = Upto(i')
        <4> SUFFICES ASSUME regs'.ptr = (Writecnt' - 1 + i') % 8 PROVE readarr' = Upto(i')
          OBVIOUS
        <4>1. p = (Writecnt - 1 + i) % 8
          BY <1>1, <1>3, <1>7, <3>4 DEF Sb600Fixed
        <4>2. F[p] = i + 1
          <5>1. i \in 0 .. Readcnt - 1
            BY <1>2, <3>3
          <5> QED BY <1>4, <3>2, <4>1, <5>1 DEF Sb600Answer
        <4>3. readarr' = Append(Upto(i), i + 1)
          BY <1>6, <2>7, <3>2, <4>1, <4>2
        <4> QED BY <1>1, <3>3, <4>3, UptoGrows
      <3> QED BY <1>1, <2>3, <2>4, <2>7, <3>1, <3>3, <3>5, <3>6 DEF Sb600Right, Sb600Before
    <2> QED BY <1>1, <2>5, <2>6, <2>7
  <1>9. ~cs' /\ pc' \in Sb600Before \cup Sb600After /\ pc' \notin {"start", "end"}
           /\ Writecnt \in Nat \ {0}
    BY <1>1, <1>2 DEF Quiet
  <1>10. Sb600Inv'
    <2>1. PICK q : q = (p + 1) % 8
      OBVIOUS
    <2> QED BY <1>1, <1>2, <1>4, <1>6, <1>8, <1>9, <2>1, Sb600Leaves
  <1>11. other' \in 0 .. MaxOther
    BY <1>1 DEF MastersInv, CommandTypes
  <1> QED BY <1>1, <1>2, <1>9, <1>10, <1>11, Sb600Holds

(* The other user moves the pointer.                                        *)
LEMMA Sb600OtherKeeps ==
  ASSUME MastersInv, Sb600Other
  PROVE  MastersInv'
  <1>1. /\ master = "sb600" /\ pc \notin {"start", "end"} /\ other' = other + 1 /\ other < MaxOther
        /\ Fixed /\ Quiet /\ UNCHANGED <<pc, i, readarr, result, lost>>
    BY DEF Sb600Other
  <1>2. /\ ~cs /\ Sb600Limit /\ pc \in Sb600Before \cup Sb600After /\ result = "none"
        /\ Sb600Regs(regs, regs.fifo, regs.ptr, regs.write, regs.read)
        /\ regs.write \in 0 .. Writecnt - 1
        /\ regs.write = Writecnt - 1 => Sb600Right
        /\ Writecnt \in 1 .. 9 /\ Readcnt \in 0 .. 8 /\ other \in 0 .. 7
    BY <1>1, Sb600Known
  <1>3. Sb600Fixed /\ SentWhole' = SentWhole
    BY <1>1, Sb600FixedByAll, SentStays
  <1>4. PICK F, p, w, r : F = regs.fifo /\ p = regs.ptr /\ w = regs.write /\ r = regs.read
    OBVIOUS
  <1>5. regs = [fifo |-> F, ptr |-> p, cmd |-> 1, write |-> w, read |-> r]
    BY <1>2, <1>4 DEF Sb600Regs
  <1>6. other' \in 0 .. MaxOther /\ other + 1 \in 0 .. 7 /\ ~cs' /\ Writecnt \in Nat \ {0}
    BY <1>1, <1>2, MastersAssumption DEF Quiet
  <1>7. CASE regs' = [regs EXCEPT !.ptr = (@ + 1) % 8]
    <2>1. Sb600Regs(regs', F, (p + 1) % 8, w, r)
      BY <1>5, <1>7 DEF Sb600Regs
    <2>2. regs'.fifo = F /\ regs'.ptr = (p + 1) % 8 /\ regs'.write = w /\ regs'.read = r
      BY <2>1, Sb600Field
    <2>3. ASSUME w = Writecnt - 1 PROVE Sb600Right'
      <3>1. Sb600Right
        BY <1>2, <1>4, <2>3
      <3>2. /\ regs'.read = Readcnt' + ReadOffBy1' /\ regs'.ptr \in 0 .. 7
            /\ regs'.fifo = [s \in 0 .. 7 |-> regs'.fifo[s]]
        BY <1>3, <1>4, <2>2, <3>1 DEF Sb600Right, Sb600Fixed
      <3>3. Sb600Answer' = Sb600Answer
        BY <1>3, <1>4, <2>2 DEF Sb600Answer, Sb600Fixed
      <3>4. \A n \in Nat : Stored(n) <=> \A k \in 0 .. n - 1 : regs'.fifo[k] = k + 2
        BY <1>4, <2>2 DEF Stored
      <3>5. \A n \in Nat : Drift(n) => /\ Drifted(regs'.ptr, other', n)
                                      /\ regs'.ptr # n % 8
        <4> SUFFICES ASSUME NEW n \in Nat, Drifted(p, other, n)
                     PROVE  Drifted((p + 1) % 8, other + 1, n) /\ (p + 1) % 8 # n % 8
          BY <1>1, <1>4, <2>2 DEF Drift
        <4> QED BY <1>2, <1>6, DriftsOn
      <3>6. CASE pc \in {"clear_to_write", "write"}
        <4>1. chip' = << >> /\ readarr' = << >>
          BY <1>1, <3>1, <3>6 DEF Sb600Right, Sb600Before, Quiet
        <4>2. pc = "write" => i' \in 0 .. Writecnt' - 1 /\ Drift(i)' /\ regs'.ptr # i' % 8
          <5> SUFFICES ASSUME pc = "write"
                       PROVE  i' \in 0 .. Writecnt' - 1 /\ Drift(i)' /\ regs'.ptr # i' % 8
            OBVIOUS
          <5>1. i \in 0 .. Writecnt - 1 /\ Drift(i) /\ i \in Nat
            BY <1>2, <3>1 DEF Sb600Right
          <5> QED BY <1>1, <1>3, <3>5, <5>1 DEF Drift, Sb600Fixed
        <4> QED BY <1>1, <3>2, <3>6, <4>1, <4>2 DEF Sb600Right
      <3>7. CASE pc \in {"clear_to_execute", "execute"}
        <4>1. chip' = << >> /\ readarr' = << >>
          BY <1>1, <3>1, <3>7 DEF Sb600Right, Sb600Before, Quiet
        <4>2. Stored(Writecnt - 1)'
          <5>1. Stored(Writecnt - 1)
            BY <3>1, <3>7 DEF Sb600Right
          <5> QED BY <1>3, <1>4, <2>2, <5>1 DEF Stored, Sb600Fixed
        <4>3. pc = "execute" => i' = 0 /\ Drift(0)'
          BY <1>1, <3>1, <3>5 DEF Sb600Right, Drift
        <4> QED BY <1>1, <3>2, <3>7, <4>1, <4>2, <4>3 DEF Sb600Right
      <3>8. CASE pc = "executed"
        <4>1. i = 0 /\ readarr = << >> /\ Drift(Writecnt - 1 + Readcnt)
                 /\ Writecnt - 1 + Readcnt \in Nat
          BY <1>2, <3>1, <3>8 DEF Sb600Right
        <4>2. Drift(Writecnt - 1 + Readcnt)' /\ regs'.ptr # (Writecnt' - 1 + Readcnt') % 8
          BY <1>3, <3>5, <4>1 DEF Drift, Sb600Fixed
        <4> QED BY <1>1, <3>2, <3>8, <4>1, <4>2 DEF Sb600Right, Sb600Before
      <3>9. CASE pc \in {"clear_to_skip", "skip", "read"}
        <4>1. SentWhole' /\ Sb600Answer' /\ (pc # "read" => readarr' = << >>)
          BY <1>1, <1>3, <3>1, <3>3, <3>9 DEF Sb600Right
        <4>2. pc = "skip" => i' \in 0 .. Writecnt' - 1 /\ Drift(i)'
          <5> SUFFICES ASSUME pc = "skip" PROVE i' \in 0 .. Writecnt' - 1 /\ Drift(i)'
            OBVIOUS
          <5>1. i \in 0 .. Writecnt - 1 /\ Drift(i) /\ i \in Nat
            BY <1>2, <3>1 DEF Sb600Right
          <5> QED BY <1>1, <1>3, <3>5, <5>1 DEF Drift, Sb600Fixed
        <4>3. pc = "read" => /\ i' \in 0 .. Readcnt' /\ Drift(Writecnt - 1 + i)'
                             /\ regs'.ptr # (Writecnt' - 1 + i') % 8
          <5> SUFFICES ASSUME pc = "read"
                       PROVE  /\ i' \in 0 .. Readcnt' /\ Drift(Writecnt - 1 + i)'
                              /\ regs'.ptr # (Writecnt' - 1 + i') % 8
            OBVIOUS
          <5>1. i \in 0 .. Readcnt /\ Drift(Writecnt - 1 + i) /\ Writecnt - 1 + i \in Nat
            BY <1>2, <3>1 DEF Sb600Right
          <5> QED BY <1>1, <1>3, <3>5, <5>1 DEF Drift, Sb600Fixed
        <4> QED BY <1>1, <3>2, <3>9, <4>1, <4>2, <4>3 DEF Sb600Right, Sb600Before
      <3>10. CASE pc \in {"clear_to_count", "count"}
        <4>1. SentWhole' /\ readarr' = Answer'
          BY <1>1, <1>3, <3>1, <3>10 DEF Sb600Right, Sb600Fixed
        <4> QED BY <1>1, <3>2, <3>10, <4>1 DEF Sb600Right, Sb600Before
      <3> QED BY <1>2, <3>6, <3>7, <3>8, <3>9, <3>10 DEF Sb600Before, Sb600After
    <2>4. Sb600Inv'
      <3>1. PICK q : q = (p + 1) % 8
        OBVIOUS
      <3> QED BY <1>1, <1>2, <1>4, <1>6, <2>1, <2>3, <3>1, Sb600Leaves
    <2> QED BY <1>1, <1>2, <1>6, <2>4, Sb600Holds
  <1>8. CASE regs.write > 0 /\ regs' = [regs EXCEPT !.write = @ - 1, !.read = @ + 1]
    <2>1. PICK v, u : v = w - 1 /\ u = r + 1
      OBVIOUS
    <2>2. Sb600Regs(regs', F, p, v, u)
      BY <1>5, <1>8, <2>1 DEF Sb600Regs
    <2>3. v \in 0 .. Writecnt - 1 /\ v # Writecnt - 1
      BY <1>2, <1>4, <1>8, <2>1
    <2>4. Sb600Inv'
      BY <1>1, <1>2, <1>6, <2>2, <2>3, Sb600Leaves
    <2> QED BY <1>1, <1>2, <1>6, <2>4, Sb600Holds
  <1> QED BY <1>7, <1>8 DEF Sb600Other

(* The driver compares the pointer with what it expects.                    *)
LEMMA Sb600CheckKeeps ==
  ASSUME MastersInv, Sb600Check
  PROVE  MastersInv'
  <1>1. /\ master = "sb600" /\ pc \in {"write", "executed", "skip", "read"} /\ Fixed /\ Quiet
        /\ UNCHANGED <<readarr, lost, other>>
    BY DEF Sb600Check, At
  <1>2. /\ ~cs /\ Sb600Limit /\ pc \in Sb600Before \cup Sb600After /\ result = "none"
        /\ Sb600Regs(regs, regs.fifo, regs.ptr, regs.write, regs.read)
        /\ regs.write \in 0 .. Writecnt - 1
        /\ regs.write = Writecnt - 1 => Sb600Right
        /\ Writecnt \in 1 .. 9 /\ Readcnt \in 0 .. 8 /\ other \in 0 .. 7
    BY <1>1, Sb600Known
  <1>3. Sb600Fixed /\ SentWhole' = SentWhole
    BY <1>1, Sb600FixedByAll, SentStays
  <1>4. ~cs' /\ other' \in 0 .. MaxOther /\ Writecnt \in Nat \ {0}
    BY <1>1, <1>2 DEF Quiet, MastersInv, CommandTypes
  <1>5. CASE Return("error")
    <2>1. pc' = "end" /\ result' = "error"
      BY <1>5 DEF Return
    <2>2. CommandEnds' /\ Sb600Inv'
      BY <1>4, <2>1 DEF CommandEnds, Sb600Inv
    <2> QED BY <1>1, <1>4, <2>1, <2>2, Sb600Holds
  <1>6. CASE ~Return("error")
    <2>1. PICK F, p, w, r : F = regs.fifo /\ p = regs.ptr /\ w = regs.write /\ r = regs.read
      OBVIOUS
    <2>2. regs = [fifo |-> F, ptr |-> p, cmd |-> 1, write |-> w, read |-> r]
      BY <1>2, <2>1 DEF Sb600Regs
    <2>3. /\ i' = 0 /\ result' = result
          /\ \/ /\ pc = "write" /\ i = Writecnt - 1 /\ p = (Writecnt - 1) % 8
                /\ pc' = "clear_to_execute" /\ regs' = [regs EXCEPT !.ptr = 0]
             \/ /\ pc = "executed" /\ i = 0 /\ p = (Writecnt - 1 + Readcnt) % 8
                /\ pc' = "clear_to_skip" /\ regs' = [regs EXCEPT !.ptr = 0]
             \/ /\ pc = "skip" /\ i = Writecnt - 1
                /\ pc' = "read" /\ regs' = regs
             \/ /\ pc = "read" /\ i = Readcnt /\ p = (Readcnt + Writecnt - 1) % 8
                /\ pc' = "clear_to_count" /\ regs' = [regs EXCEPT !.ptr = 0]
      BY <1>1, <1>6, <2>1 DEF Sb600Check, Sb600Compare, At
    <2>4. pc = "skip" => p = (Writecnt - 1) % 8
      BY <1>1, <1>6, <2>1 DEF Sb600Check, Sb600Compare, At
    <2>5. PICK q : Sb600Regs(regs', F, q, w, r) /\ q = IF pc = "skip" THEN p ELSE 0
      <3>1. CASE pc = "skip"
        BY <2>2, <2>3, <3>1 DEF Sb600Regs
      <3>2. CASE pc # "skip"
        BY <2>2, <2>3, <3>2 DEF Sb600Regs
      <3> QED BY <3>1, <3>2
    <2>6. regs'.fifo = F /\ regs'.ptr = q /\ regs'.write = w /\ regs'.read = r
      BY <2>5, Sb600Field
    <2>7. ASSUME w = Writecnt - 1 PROVE Sb600Right'
      <3>1. Sb600Right
        BY <1>2, <2>1, <2>7
      <3>2. /\ regs'.read = Readcnt' + ReadOffBy1' /\ regs'.ptr \in 0 .. 7
            /\ regs'.fifo = [s \in 0 .. 7 |-> regs'.fifo[s]]
        BY <1>3, <2>1, <2>5, <2>6, <3>1 DEF Sb600Right, Sb600Fixed
      <3>3. Sb600Answer' = Sb600Answer
        BY <1>3, <2>1, <2>6 DEF Sb600Answer, Sb600Fixed
      <3>4. CASE pc = "write" /\ pc' = "clear_to_execute"
        <4>1. chip' = << >> /\ readarr' = << >>
          BY <1>1, <3>1, <3>4 DEF Sb600Right, Sb600Before, Quiet
        <4>2. Stored(Writecnt - 1)'
          <5>1. Stored(i) /\ i = Writecnt - 1
            BY <2>1, <2>3, <3>1, <3>4 DEF Sb600Right
          <5> QED BY <1>3, <2>1, <2>6, <5>1 DEF Stored, Sb600Fixed
        <4> QED BY <3>2, <3>4, <4>1, <4>2 DEF Sb600Right
      <3>5. CASE pc = "executed" /\ pc' = "clear_to_skip"
        <4>1. readarr' = << >> /\ SentWhole' /\ Sb600Answer'
          BY <1>1, <1>3, <2>1, <2>3, <3>1, <3>3, <3>5 DEF Sb600Right
        <4> QED BY <3>2, <3>5, <4>1 DEF Sb600Right, Sb600Before
      <3>6. CASE pc = "skip" /\ pc' = "read"
        <4>1. readarr' = << >> /\ SentWhole' /\ Sb600Answer'
          BY <1>1, <1>3, <3>1, <3>3, <3>6 DEF Sb600Right
        <4>2. Drift(Writecnt - 1) /\ Writecnt - 1 + 0 = Writecnt - 1
          BY <1>2, <2>3, <3>1, <3>6 DEF Sb600Right
        <4>3. Drift(Writecnt - 1 + i)'
          BY <1>1, <1>3, <2>1, <2>3, <2>5, <2>6, <3>6, <4>2 DEF Drift, Sb600Fixed
        <4>4. readarr' = Upto(i') /\ i' \in 0 .. Readcnt'
          BY <1>2, <1>3, <2>3, <4>1, UptoNone DEF Sb600Fixed
        <4> QED BY <3>2, <3>6, <4>1, <4>3, <4>4 DEF Sb600Right, Sb600Before
      <3>7. CASE pc = "read" /\ pc' = "clear_to_count"
        <4>1. SentWhole /\ (p = (Writecnt - 1 + i) % 8 => readarr = Upto(i)) /\ i = Readcnt
          BY <2>1, <2>3, <3>1, <3>7 DEF Sb600Right
        <4>2. p = (Readcnt + Writecnt - 1) % 8
          BY <2>3, <3>7
        <4>3. Readcnt + Writecnt - 1 = Writecnt - 1 + Readcnt
          BY <1>2
        <4>4. readarr = Answer
          BY <4>1, <4>2, <4>3, UptoUses
        <4>5. SentWhole' /\ readarr' = Answer'
          BY <1>1, <1>3, <4>1, <4>4 DEF Sb600Fixed
        <4> QED BY <3>2, <3>7, <4>5 DEF Sb600Right, Sb600Before
      <3> QED BY <2>3, <3>4, <3>5, <3>6, <3>7
    <2>8. pc' \in Sb600Before \cup Sb600After /\ pc' \notin {"start", "end"} /\ result' = "none"
      BY <1>2, <2>3 DEF Sb600Before, Sb600After
    <2>9. Sb600Inv'
      BY <1>1, <1>2, <1>4, <2>1, <2>5, <2>7, <2>8, Sb600Leaves
    <2> QED BY <1>1, <1>4, <2>8, <2>9, Sb600Holds
  <1> QED BY <1>5, <1>6

(* The slots of the FIFO that a transaction fills, and the byte that was    *)
(* put last into each.                                                      *)
SlotUsed(p, n, m, s) == \E k \in 0 .. n + m - 1 : (p + k) % 8 = s
SlotLast(p, n, m, s) == CHOOSE k \in 0 .. n + m - 1 : (p + k) % 8 = s /\ k + 8 > n + m - 1

(* Of eight slots each is written last by one of the last eight bytes.      *)
LEMMA LastEight ==
  ASSUME NEW n \in 0 .. 8, NEW m \in 0 .. 8, NEW p, p = 0, NEW j \in 0 .. m - 1
  PROVE  SlotUsed(p, n, m, (n + j) % 8) /\ SlotLast(p, n, m, (n + j) % 8) = n + j
  <1>1. n + j \in 0 .. n + m - 1 /\ (p + (n + j)) % 8 = (n + j) % 8 /\ (n + j) + 8 > n + m - 1
    OBVIOUS
  <1>2. ASSUME NEW k \in 0 .. n + m - 1, (p + k) % 8 = (n + j) % 8, k + 8 > n + m - 1
        PROVE  k = n + j
    BY <1>2
  <1> QED BY <1>1, <1>2 DEF SlotUsed, SlotLast

(* The chip gets the command from the FIFO and the answer is put into it.   *)
LEMMA Sb600ExecuteKeeps ==
  ASSUME MastersInv, Sb600Execute
  PROVE  MastersInv'
  <1>1. /\ master = "sb600" /\ pc = "execute" /\ pc' = "executed" /\ Fixed
        /\ UNCHANGED <<i, result, readarr, lost, other>>
    BY DEF Sb600Execute, At, Goto
  <1>2. /\ ~cs /\ Sb600Limit /\ pc \in Sb600Before \cup Sb600After /\ result = "none"
        /\ Sb600Regs(regs, regs.fifo, regs.ptr, regs.write, regs.read)
        /\ regs.write \in 0 .. Writecnt - 1
        /\ regs.write = Writecnt - 1 => Sb600Right
        /\ Writecnt \in 1 .. 9 /\ Readcnt \in 0 .. 8 /\ other \in 0 .. 7
    BY <1>1, Sb600Known
  <1>3. Sb600Fixed
    BY <1>1, Sb600FixedByAll
  <1>4. PICK F, p, w, r : F = regs.fifo /\ p = regs.ptr /\ w = regs.write /\ r = regs.read
    OBVIOUS
  <1>5. regs = [fifo |-> F, ptr |-> p, cmd |-> 1, write |-> w, read |-> r]
    BY <1>2, <1>4 DEF Sb600Regs
  <1>6. PICK m : m = IF w = 0 THEN r - 1 ELSE r
    OBVIOUS
  <1>7. PICK G, B :
          /\ G = [s \in 0 .. 7 |->
                    IF SlotUsed(p, w, m, s)
                    THEN IF SlotLast(p, w, m, s) < w THEN 0 ELSE SlotLast(p, w, m, s) - w + 1
                    ELSE F[s]]
          /\ B = [k \in 1 .. w |-> F[(p + (k - 1)) % 8]]
    OBVIOUS
  <1>8. /\ Transaction(<< 1 >> \o B, m)
        /\ regs' = [regs EXCEPT !.ptr = (p + (w + m)) % 8, !.fifo = G]
    <2>1. regs.cmd = 1
      BY <1>5
    <2>2. PICK H :
            H = [s \in 0 .. 7 |->
                   IF \E k \in 0 .. w + m - 1 : (p + k) % 8 = s
                   THEN LET k == CHOOSE k \in 0 .. w + m - 1 : (p + k) % 8 = s /\ k + 8 > w + m - 1
                        IN IF k < w THEN 0 ELSE k - w + 1
                   ELSE F[s]]
      OBVIOUS
    <2>3. H = G
      BY ONLY <1>7, <2>2 DEF SlotUsed, SlotLast
    <2> DEFINE v == IF regs.write = 0 THEN regs.read - 1 ELSE regs.read
    <2>4. PICK A, J :
            /\ A = [k \in 1 .. regs.write |-> regs.fifo[(regs.ptr + (k - 1)) % 8]]
            /\ J = [s \in 0 .. 7 |->
                     IF \E k \in 0 .. regs.write + v - 1 : (regs.ptr + k) % 8 = s
                     THEN LET k == CHOOSE k \in 0 .. regs.write + v - 1 :
                                     (regs.ptr + k) % 8 = s /\ k + 8 > regs.write + v - 1
                          IN IF k < regs.write THEN 0 ELSE k - regs.write + 1
                     ELSE regs.fifo[s]]
      OBVIOUS
    <2>5. /\ Transaction(<<regs.cmd>> \o A, v)
          /\ regs' = [regs EXCEPT !.ptr = (regs.ptr + (regs.write + v)) % 8, !.fifo = J]
      BY <2>4 DEF Sb600Execute
    <2>6. v = m
      BY ONLY <1>4, <1>6
    <2>7. A = B
      BY ONLY <1>4, <1>7, <2>4
    <2> HIDE DEF v
    <2>8. J = H
      BY ONLY <1>4, <2>2, <2>4, <2>6
    <2> QED BY ONLY <1>4, <2>1, <2>3, <2>5, <2>6, <2>7, <2>8
  <1>9. PICK q : q = (p + (w + m)) % 8
    OBVIOUS
  <1>10. Sb600Regs(regs', G, q, w, r)
    BY <1>5, <1>8, <1>9 DEF Sb600Regs
  <1>11. regs'.fifo = G /\ regs'.ptr = q /\ regs'.write = w /\ regs'.read = r
    BY <1>10, Sb600Field
  <1>12. ASSUME w = Writecnt - 1 PROVE Sb600Right'
    <2>1. Sb600Right
      BY <1>2, <1>4, <1>12
    <2>2. r = Readcnt + ReadOffBy1
      BY <1>4, <2>1 DEF Sb600Right
    <2>3. m = Readcnt /\ w \in 0 .. 8 /\ m \in 0 .. 8
      BY <1>2, <1>6, <1>12, <2>2 DEF ReadOffBy1
    <2>4. /\ i = 0 /\ Drifted(p, other, 0) /\ chip = << >> /\ readarr = << >>
          /\ \A k \in 0 .. w - 1 : F[k] = k + 2
      BY <1>1, <1>4, <1>12, <2>1 DEF Sb600Right, Drift, Stored, Sb600Before
    <2>5. PICK d \in 0 .. other : p = (0 + d) % 8
      BY <2>4 DEF Drifted
    <2>6. d \in 0 .. 7 /\ p = d
      BY <1>2, <2>5
    <2>7. q = (w + m + d) % 8 /\ q \in 0 .. 7 /\ Drifted(q, other, w + m)
      <3>1. q = (w + m + d) % 8 /\ q \in 0 .. 7
        BY <1>9, <2>3, <2>6
      <3> QED BY <3>1 DEF Drifted
    <2>8. /\ regs'.read = Readcnt' + ReadOffBy1' /\ regs'.ptr \in 0 .. 7
          /\ regs'.fifo = [s \in 0 .. 7 |-> regs'.fifo[s]]
      BY <1>3, <1>7, <1>11, <2>2, <2>7 DEF Sb600Fixed
    <2>9. Writecnt' - 1 + Readcnt' = w + m
      BY <1>3, <1>12, <2>3 DEF Sb600Fixed
    <2>10. Drift(Writecnt - 1 + Readcnt)'
      BY <1>1, <1>11, <2>7, <2>9 DEF Drift
    <2>11. ASSUME q = (w + m) % 8 PROVE SentWhole' /\ Sb600Answer'
      <3>1. p = 0
        <4>1. w + m \in Nat
          BY <2>3
        <4> QED BY <2>6, <2>7, <2>11, <4>1, Drifting
      <3>2. B \in Seq(Nat) /\ Len(B) = w /\ \A k \in 1 .. w : B[k] = 1 + k
        <4>1. \A k \in 1 .. w : (p + (k - 1)) % 8 = k - 1 /\ k - 1 \in 0 .. w - 1
          BY <2>3, <3>1
        <4>2. \A k \in 1 .. w : F[(p + (k - 1)) % 8] = 1 + k
          BY <2>3, <2>4, <4>1
        <4>3. B = [k \in 1 .. w |-> 1 + k]
          BY <1>7, <4>2
        <4> QED BY <2>3, <4>3
      <3>3. << 1 >> \o B = Upto(1 + w)
        <4>1. Upto(1) = << 1 >>
          BY DEF Upto
        <4>2. Upto(1) \o B = Upto(1 + w)
          <5>1. 1 \in Nat /\ w \in Nat
            BY <2>3
          <5> QED BY ONLY <3>2, <5>1, UptoJoin
        <4> QED BY ONLY <4>1, <4>2
      <3>4. SentWhole'
        <4>1. 1 + w = Writecnt
          BY <1>2, <1>12
        <4>2. << 1 >> \o B = Writearr
          BY <3>3, <4>1, UptoUses
        <4>3. chip' = Append(chip, [in |-> Writearr, out |-> m])
          BY <1>8, <4>2 DEF Transaction
        <4> QED BY <1>3, <2>3, <2>4, <4>3 DEF SentWhole, Sb600Fixed
      <3>5. \A j \in 0 .. m - 1 : G[(w + j) % 8] = j + 1
        <4> SUFFICES ASSUME NEW j \in 0 .. m - 1 PROVE G[(w + j) % 8] = j + 1
          OBVIOUS
        <4>1. PICK s \in 0 .. 7 : s = (w + j) % 8
          BY <2>3
        <4>2. SlotUsed(p, w, m, s) /\ SlotLast(p, w, m, s) = w + j
          BY <2>3, <3>1, <4>1, LastEight
        <4>3. G[s] = IF SlotLast(p, w, m, s) < w THEN 0 ELSE SlotLast(p, w, m, s) - w + 1
          BY <1>7, <4>2
        <4>4. G[s] = IF w + j < w THEN 0 ELSE (w + j) - w + 1
          BY <4>2, <4>3
        <4> QED BY <2>3, <4>1, <4>4
      <3>6. Sb600Answer'
        BY <1>3, <1>11, <1>12, <2>3, <3>5 DEF Sb600Answer, Sb600Fixed
      <3> QED BY <3>4, <3>6
    <2>12. i' = 0 /\ readarr' = << >>
      BY <1>1, <2>4
    <2> QED BY <1>1, <1>11, <2>8, <2>9, <2>10, <2>11, <2>12 DEF Sb600Right, Sb600Before
  <1>13. /\ ~cs' /\ pc' \in Sb600Before \cup Sb600After /\ pc' \notin {"start", "end"}
         /\ result' = "none" /\ Writecnt \in Nat \ {0} /\ other' \in 0 .. MaxOther
    BY <1>1, <1>2, <1>8 DEF Transaction, Sb600After, MastersInv, CommandTypes
  <1>14. Sb600Inv'
    BY <1>1, <1>2, <1>4, <1>10, <1>12, <1>13, Sb600Leaves
  <1> QED BY <1>1, <1>13, <1>14, Sb600Holds

-----------------------------------------------------------------------------
(* Bit banging.                                                             *)

(* A number has one quotient and one remainder.                             *)
LEMMA QuotientUnique ==
  ASSUME NEW b \in Nat \ {0}, NEW q \in Nat, NEW r \in 0 .. b - 1, NEW a, a = b * q + r
  PROVE  a \in Nat /\ a \div b = q /\ a % b = r
  <1>1. a \in Nat
    OBVIOUS
  <1>2. PICK p, s : p = a \div b /\ s = a % b
    OBVIOUS
  <1>3. p \in Nat /\ s \in 0 .. b - 1 /\ a = b * p + s
    BY <1>1, <1>2, DivMod
  <1>4. ~(p < q)
    <2> SUFFICES ASSUME p < q PROVE FALSE
      OBVIOUS
    <2>1. PICK e \in Nat : q = p + 1 + e
      <3>1. q - p - 1 \in Nat
        BY <1>3
      <3> QED BY <1>3, <3>1
    <2>2. b * q = b * p + b + b * e /\ b * e \in Nat
      BY <1>3, <2>1
    <2> QED BY <1>3, <2>2
  <1>5. ~(q < p)
    <2> SUFFICES ASSUME q < p PROVE FALSE
      OBVIOUS
    <2>1. PICK e \in Nat : p = q + 1 + e
      <3>1. p - q - 1 \in Nat
        BY <1>3
      <3> QED BY <1>3, <3>1
    <2>2. b * p = b * q + b + b * e /\ b * e \in Nat
      BY <1>3, <2>1
    <2> QED BY <1>3, <2>2
  <1> QED BY <1>1, <1>2, <1>3, <1>4, <1>5

(* The pins and what else bit banging keeps, each by its name.              *)
BitRegs(R, P, C, Q, B) == R = [pins |-> P, cache |-> C, request |-> Q, bits |-> B]

(* New pins and new bits.                                                   *)
LEMMA BitSet ==
  ASSUME NEW R, NEW P, NEW C, NEW Q, NEW B, BitRegs(R, P, C, Q, B), NEW x, NEW z
  PROVE  BitRegs([R EXCEPT !.pins = x, !.cache = x, !.bits = z], x, x, Q, z)
  <1>1. R = [pins |-> P, cache |-> C, request |-> Q, bits |-> B]
    BY DEF BitRegs
  <1>2. PICK R1 : R1 = [R EXCEPT !.pins = x]
    OBVIOUS
  <1>3. R1 = [pins |-> x, cache |-> C, request |-> Q, bits |-> B]
    BY <1>1, <1>2
  <1>4. PICK R2 : R2 = [R1 EXCEPT !.cache = x]
    OBVIOUS
  <1>5. R2 = [pins |-> x, cache |-> x, request |-> Q, bits |-> B]
    BY <1>3, <1>4
  <1>6. [R2 EXCEPT !.bits = z] = [pins |-> x, cache |-> x, request |-> Q, bits |-> z]
    BY <1>5
  <1>7. [R EXCEPT !.pins = x, !.cache = x, !.bits = z] = [R2 EXCEPT !.bits = z]
    BY ONLY <1>2, <1>4
  <1> QED BY <1>6, <1>7 DEF BitRegs

(* A change of the pins that is no edge of the clock nor of CS#.            *)
LEMMA DriveStays ==
  ASSUME NEW P, NEW C, NEW Q, NEW B, BitRegs(regs, P, C, Q, B), NEW pins, Drive(pins),
         "cs" \notin pins, "sck" \in pins <=> "sck" \in P
  PROVE  /\ BitRegs(regs', pins, pins, Q, B)
         /\ cs' /\ UNCHANGED <<chip, in, out>>
  <1>1. regs = [pins |-> P, cache |-> C, request |-> Q, bits |-> B]
    BY DEF BitRegs
  <1>2. regs.pins = P /\ regs.bits = B
    BY <1>1
  <1>3. /\ cs' = TRUE /\ UNCHANGED <<chip, in, out>>
        /\ regs' = [regs EXCEPT !.pins = pins, !.cache = pins, !.bits = B]
    BY <1>2 DEF Drive, Cs, Sck
  <1> QED BY <1>3, BitSet

(* A rising edge of the clock: the chip takes a bit.                        *)
LEMMA DriveRises ==
  ASSUME NEW P, NEW C, NEW Q, NEW B, BitRegs(regs, P, C, Q, B), NEW pins, Drive(pins),
         "cs" \notin pins, "sck" \in pins, "sck" \notin P
  PROVE  /\ BitRegs(regs', pins, pins, Q, Append(B, IF "mosi" \in pins THEN 1 ELSE 0))
         /\ cs' /\ UNCHANGED <<chip, in, out>>
  <1>1. regs = [pins |-> P, cache |-> C, request |-> Q, bits |-> B]
    BY DEF BitRegs
  <1>2. regs.pins = P /\ regs.bits = B
    BY <1>1
  <1>3. /\ cs' = TRUE /\ UNCHANGED <<chip, in, out>>
        /\ regs' = [regs EXCEPT !.pins = pins, !.cache = pins,
                                !.bits = Append(B, IF "mosi" \in pins THEN 1 ELSE 0)]
    BY <1>2 DEF Drive, Cs, Sck
  <1> QED BY <1>3, BitSet

(* A falling edge of the clock: eight bits are a byte.                      *)
LEMMA DriveFalls ==
  ASSUME NEW P, NEW C, NEW Q, NEW B, BitRegs(regs, P, C, Q, B), NEW pins, Drive(pins),
         "cs" \notin pins, "sck" \notin pins, "sck" \in P
  PROVE  /\ cs' /\ UNCHANGED chip
         /\ Len(B) = Bits => /\ BitRegs(regs', pins, pins, Q, << >>)
                             /\ in' = (IF Len(in) < Writecnt THEN Append(in, Byte(B)) ELSE in)
                             /\ out' = (IF Len(in) = Writecnt THEN out + 1 ELSE out)
         /\ Len(B) # Bits => BitRegs(regs', pins, pins, Q, B) /\ UNCHANGED <<in, out>>
  <1>1. regs = [pins |-> P, cache |-> C, request |-> Q, bits |-> B]
    BY DEF BitRegs
  <1>2. regs.pins = P /\ regs.bits = B
    BY <1>1
  <1>3. cs' = TRUE /\ UNCHANGED chip
    BY <1>2 DEF Drive, Cs, Sck
  <1>4. CASE Len(B) = Bits
    <2>1. /\ in' = (IF Len(in) < Writecnt THEN Append(in, Byte(B)) ELSE in)
          /\ out' = (IF Len(in) = Writecnt THEN out + 1 ELSE out)
          /\ regs' = [regs EXCEPT !.pins = pins, !.cache = pins, !.bits = << >>]
      BY <1>2, <1>4 DEF Drive, Cs, Sck
    <2> QED BY <1>3, <1>4, <2>1, BitSet
  <1>5. CASE Len(B) # Bits
    <2>1. /\ UNCHANGED <<in, out>>
          /\ regs' = [regs EXCEPT !.pins = pins, !.cache = pins, !.bits = B]
      BY <1>2, <1>5 DEF Drive, Cs, Sck
    <2> QED BY <1>3, <1>5, <2>1, BitSet
  <1> QED BY <1>4, <1>5

(* CS# is released: the transaction is over.                                *)
LEMMA DriveEnds ==
  ASSUME NEW P, NEW C, NEW Q, NEW B, BitRegs(regs, P, C, Q, B), NEW pins, Drive(pins),
         "cs" \in pins, cs
  PROVE  /\ BitRegs(regs', pins, pins, Q, << >>)
         /\ ~cs' /\ chip' = Append(chip, [in |-> in, out |-> out])
  <1>1. regs = [pins |-> P, cache |-> C, request |-> Q, bits |-> B]
    BY DEF BitRegs
  <1>3. /\ cs' = FALSE /\ chip' = Append(chip, [in |-> in, out |-> out])
        /\ regs' = [regs EXCEPT !.pins = pins, !.cache = pins, !.bits = << >>]
    BY DEF Drive, Cs, Sck
  <1> QED BY <1>3, BitSet

(* The fields of the registers.                                             *)
LEMMA BitField ==
  ASSUME NEW R, NEW P, NEW C, NEW Q, NEW B, BitRegs(R, P, C, Q, B)
  PROVE  /\ R.pins = P /\ R.cache = C /\ R.request = Q /\ R.bits = B
         /\ R = [pins |-> R.pins, cache |-> R.cache, request |-> R.request, bits |-> R.bits]
  BY DEF BitRegs

(* A step of bit banging that keeps its part of the invariant keeps all of  *)
(* it.                                                                      *)
LEMMA BitbangHolds ==
  ASSUME MastersInv, master \in Bitbangs, Fixed, UNCHANGED other,
         result' = "none" <=> pc' # "end", pc' # "start", pc' = "end" => CommandEnds',
         BitbangInv'
  PROVE  MastersInv'
  <1>1. CommandTypes'
    BY DEF MastersInv, CommandTypes, Fixed
  <1>2. master' \in Bitbangs
    BY DEF Fixed
  <1> QED BY <1>1, <1>2 DEF MastersInv, DediprogInv, BuspirateInv, Ft2232Inv, It87Inv, WbsioInv,
       It85Inv, Sb600Inv, Bitbangs, At

(* What is known in every step between the start and the end.               *)
LEMMA BitbangKnown ==
  ASSUME MastersInv, master \in Bitbangs, pc \notin {"start", "end"}
  PROVE  /\ BitRegs(regs, regs.pins, regs.cache, regs.request, regs.bits)
         /\ result = "none" /\ BitbangInv
         /\ Writecnt \in Nat \ {0} /\ Readcnt \in Nat /\ Bits \in Nat \ {0}
         /\ \A v \in 1 .. Writecnt : ShiftedRight(v, Bits) = 0
         /\ \A v \in 1 .. Readcnt : ShiftedRight(v, Bits) = 0
  <1>1. BitbangInv /\ CommandTypes
    BY DEF MastersInv
  <1>2. result = "none"
    BY <1>1 DEF CommandTypes
  <1>3. regs = [pins |-> regs.pins, cache |-> regs.cache, request |-> regs.request,
                bits |-> regs.bits]
    BY <1>1 DEF BitbangInv
  <1> QED BY <1>1, <1>2, <1>3, CommandFacts DEF BitRegs

(* What is computed from the command.                                       *)
CommandFixed ==
  Writecnt' = Writecnt /\ Readcnt' = Readcnt /\ Answer' = Answer /\ Writearr' = Writearr

(* A step that fixes the command fixes what is computed from it.            *)
LEMMA CommandFixedByAll ==
  ASSUME Fixed
  PROVE  CommandFixed
  BY DEF Fixed, CommandFixed, Writecnt, Readcnt, Writearr, Answer

(* The bus is requested and granted.                                        *)
LEMMA BitbangBeginKeeps ==
  ASSUME MastersInv, BitbangStart \/ BitbangEngine \/ BitbangGranted
  PROVE  MastersInv'
  <1>1. master \in Bitbangs /\ Fixed /\ UNCHANGED <<other, readarr>> /\ Quiet
    BY DEF BitbangStart, BitbangEngine, BitbangGranted, At, Bitbangs
  <1>2. pc \in {"start", "grant", "granted"}
    BY DEF BitbangStart, BitbangEngine, BitbangGranted, At
  <1>3. NothingYet /\ readarr = << >> /\ result = "none"
    BY <1>1, <1>2 DEF MastersInv, CommandTypes, BitbangInv
  <1>4. NothingYet' /\ readarr' = << >>
    BY <1>1, <1>3 DEF NothingYet, Quiet
  <1>5. /\ pc' \in {"grant", "granted", "select"} /\ result' = "none"
        /\ regs' = [pins |-> regs'.pins, cache |-> regs'.cache, request |-> regs'.request,
                    bits |-> regs'.bits]
        /\ regs'.bits = << >> /\ regs'.pins \in {{"cs"}, {"cs", "mosi"}}
        /\ pc' = "select" => regs'.cache = regs'.pins
    <2>1. CASE BitbangStart
      <3>1. PICK Q : regs' = [pins |-> {"cs"}, cache |-> {"cs"}, request |-> Q, bits |-> << >>]
        BY <2>1 DEF BitbangStart
      <3>2. pc' \in {"grant", "select"} /\ result' = "none"
        BY <1>3, <2>1 DEF BitbangStart, Goto
      <3> QED BY <3>1, <3>2
    <2>2. CASE BitbangEngine \/ BitbangGranted
      <3>1. /\ regs = [pins |-> regs.pins, cache |-> regs.cache, request |-> regs.request,
                       bits |-> regs.bits]
            /\ regs.bits = << >> /\ regs.pins \in {{"cs"}, {"cs", "mosi"}}
        BY <1>1, <2>2 DEF BitbangEngine, BitbangGranted, At, MastersInv, BitbangInv
      <3>2. PICK P, C, Q : P = regs.pins /\ C = regs.cache /\ Q = regs.request
        OBVIOUS
      <3>3. regs = [pins |-> P, cache |-> C, request |-> Q, bits |-> << >>]
        BY <3>1, <3>2
      <3>4. CASE BitbangEngine
        <4>1. PICK pins \in {{"cs"}, {"cs", "mosi"}} : regs' = [regs EXCEPT !.pins = pins]
          BY <3>4 DEF BitbangEngine
        <4>2. regs' = [pins |-> pins, cache |-> C, request |-> Q, bits |-> << >>]
          BY <3>3, <4>1
        <4>3. pc' = "granted" /\ result' = "none"
          BY <1>3, <3>4 DEF BitbangEngine, Goto
        <4> QED BY <4>2, <4>3
      <3>5. CASE BitbangGranted
        <4>1. regs' = [pins |-> P, cache |-> P, request |-> Q, bits |-> << >>]
          BY <3>2, <3>3, <3>5 DEF BitbangGranted
        <4>2. pc' = "select" /\ result' = "none"
          BY <1>3, <3>5 DEF BitbangGranted, Goto
        <4> QED BY <3>1, <3>2, <4>1, <4>2
      <3> QED BY <2>2, <3>4, <3>5
    <2> QED BY <2>1, <2>2
  <1>6. BitbangInv'
    BY <1>4, <1>5 DEF BitbangInv
  <1> QED BY <1>1, <1>5, <1>6, BitbangHolds

(* The bus is given back.                                                   *)
LEMMA BitbangReleaseKeeps ==
  ASSUME MastersInv, BitbangRelease
  PROVE  MastersInv'
  <1>1. /\ master \in Bitbangs /\ pc = "release" /\ Fixed /\ UNCHANGED <<other, readarr>> /\ Quiet
        /\ pc' = "end" /\ result' = "0"
    BY DEF BitbangRelease, Return
  <1>2. CommandFixed /\ SentWhole' = SentWhole
    BY <1>1, CommandFixedByAll, SentStays
  <1>3. ~cs /\ SentWhole /\ (Readcnt > 0 => readarr = Answer)
    BY <1>1 DEF MastersInv, BitbangInv
  <1>4. CommandEnds' /\ BitbangInv'
    BY <1>1, <1>2, <1>3 DEF CommandEnds, BitbangInv, CommandFixed, Quiet
  <1> QED BY <1>1, <1>4, BitbangHolds

(* What was read after q bytes and r bits.                                  *)
ReadBack(q, r, begun) ==
  IF q < Writecnt THEN << >>
  ELSE IF begun THEN Append(Upto(q - Writecnt), ShiftedRight(q - Writecnt + 1, Bits - r))
       ELSE Upto(q - Writecnt)

(* The invariant between selecting and deselecting, with the values of the  *)
(* registers and the place named.                                           *)
Middle(P, Q, B, q, r) ==
  /\ BitRegs(regs, P, P, Q, B) /\ cs /\ chip = << >>
  /\ "cs" \notin P /\ ("sck" \in P <=> pc = "miso") /\ pc \in {"mosi", "sck", "miso"}
  /\ q \in 0 .. Writecnt + Readcnt /\ r \in 0 .. Bits - 1 /\ i = Bits * q + r
  /\ q = Writecnt + Readcnt => r = 0 /\ pc = "mosi"
  /\ in = Upto(IF q <= Writecnt THEN q ELSE Writecnt)
  /\ out = IF q <= Writecnt THEN 0 ELSE q - Writecnt
  /\ B \in Seq({0, 1}) /\ Len(B) = (IF pc = "miso" THEN r + 1 ELSE r)
  /\ q < Writecnt => \A k \in 1 .. Len(B) : B[k] = Bit(q + 1, Bits - k)
  /\ readarr = ReadBack(q, r, pc # "mosi" \/ r > 0)
  /\ pc = "sck" => ("mosi" \in P <=> q < Writecnt /\ Bit(q + 1, Bits - 1 - r) = 1)

(* The values exist.                                                        *)
LEMMA MiddleFromInv ==
  ASSUME BitbangInv, master \in Bitbangs, pc \in {"mosi", "sck", "miso"}
  PROVE  \E P, Q, B, q, r : Middle(P, Q, B, q, r)
  <1>1. /\ regs = [pins |-> regs.pins, cache |-> regs.cache, request |-> regs.request,
                   bits |-> regs.bits]
        /\ cs /\ chip = << >> /\ regs.cache = regs.pins /\ "cs" \notin regs.pins
        /\ "sck" \in regs.pins <=> pc = "miso"
    BY DEF BitbangInv
  <1>2. PICK q \in 0 .. Writecnt + Readcnt, r \in 0 .. Bits - 1 : BitbangAt(q, r)
    BY DEF BitbangInv
  <1>3. PICK P, Q, B : P = regs.pins /\ Q = regs.request /\ B = regs.bits
    OBVIOUS
  <1>4. BitRegs(regs, P, P, Q, B)
    BY <1>1, <1>3 DEF BitRegs
  <1>5. Middle(P, Q, B, q, r)
    BY <1>1, <1>2, <1>3, <1>4
       DEF Middle, BitbangAt, BytesIn, BytesOut, BitsGone, Collected, ReadBack
  <1> QED BY <1>5

(* They are all the invariant asks for.                                     *)
LEMMA InvFromMiddle ==
  ASSUME NEW P, NEW Q, NEW B, NEW q, NEW r, Middle(P, Q, B, q, r)
  PROVE  BitbangInv
  <1>1. /\ regs.pins = P /\ regs.cache = P /\ regs.request = Q /\ regs.bits = B
        /\ regs = [pins |-> regs.pins, cache |-> regs.cache, request |-> regs.request,
                   bits |-> regs.bits]
    BY BitField DEF Middle
  <1>2. BitbangAt(q, r)
    BY <1>1 DEF Middle, BitbangAt, BytesIn, BytesOut, BitsGone, Collected, ReadBack
  <1>3. q \in 0 .. Writecnt + Readcnt /\ r \in 0 .. Bits - 1
    BY DEF Middle
  <1> QED BY <1>1, <1>2, <1>3 DEF Middle, BitbangInv

(* A step between selecting and deselecting.                                *)
LEMMA MiddleHolds ==
  ASSUME MastersInv, master \in Bitbangs, Fixed, UNCHANGED other, result' = "none",
         NEW P, NEW Q, NEW B, NEW q, NEW r, Middle(P, Q, B, q, r)'
  PROVE  MastersInv'
  <1>1. BitbangInv'
    BY InvFromMiddle, PTL
  <1>2. pc' \in {"mosi", "sck", "miso"}
    BY DEF Middle
  <1> QED BY <1>1, <1>2, BitbangHolds

(* CS# is asserted.                                                         *)
LEMMA BitbangSelectKeeps ==
  ASSUME MastersInv, BitbangSelect
  PROVE  MastersInv'
  <1>1. /\ master \in Bitbangs /\ pc = "select" /\ Fixed /\ UNCHANGED <<other, readarr>>
        /\ pc' = "mosi" /\ i' = 0 /\ result' = result /\ Set("cs", 0)
    BY DEF BitbangSelect
  <1>2. /\ BitRegs(regs, regs.pins, regs.cache, regs.request, regs.bits)
        /\ result = "none" /\ BitbangInv
        /\ Writecnt \in Nat \ {0} /\ Readcnt \in Nat /\ Bits \in Nat \ {0}
    BY <1>1, BitbangKnown
  <1>3. /\ NothingYet /\ readarr = << >> /\ regs.bits = << >>
        /\ regs.pins \in {{"cs"}, {"cs", "mosi"}} /\ regs.cache = regs.pins
    BY <1>1, <1>2 DEF BitbangInv
  <1>4. PICK P, Q : P = regs.pins /\ Q = regs.request
    OBVIOUS
  <1>5. BitRegs(regs, P, P, Q, << >>)
    BY <1>2, <1>3, <1>4
  <1>6. PICK pins : pins = P \ {"cs"}
    OBVIOUS
  <1>7. Drive(pins)
    BY <1>1, <1>3, <1>4, <1>6 DEF Set
  <1>8. "cs" \notin pins /\ "sck" \notin pins /\ "sck" \notin P
    BY <1>3, <1>4, <1>6
  <1>9. BitRegs(regs', pins, pins, Q, << >>) /\ cs' /\ UNCHANGED <<chip, in, out>>
    BY <1>5, <1>7, <1>8, DriveStays
  <1>10. CommandFixed
    BY <1>1, CommandFixedByAll
  <1>11. Middle(pins, Q, << >>, 0, 0)'
    <2>1. 0 \in 0 .. Writecnt' + Readcnt' /\ 0 \in 0 .. Bits - 1 /\ 0 # Writecnt' + Readcnt'
          /\ 0 < Writecnt' /\ Bits * 0 + 0 = 0
      BY <1>2, <1>10 DEF CommandFixed
    <2>2. in' = Upto(0) /\ out' = 0 /\ chip' = << >> /\ readarr' = << >>
      BY <1>1, <1>3, <1>9, UptoNone DEF NothingYet
    <2>3. ReadBack(0, 0, FALSE)' = << >>
      BY <2>1 DEF ReadBack
    <2>4. readarr' = ReadBack(0, 0, pc # "mosi" \/ 0 > 0)'
      BY <1>1, <2>1, <2>2 DEF ReadBack
    <2>5. << >> \in Seq({0, 1}) /\ Len(<< >>) = 0
      OBVIOUS
    <2>6. (IF 0 <= Writecnt THEN 0 ELSE Writecnt)' = 0
             /\ (IF 0 <= Writecnt THEN 0 ELSE 0 - Writecnt)' = 0
      BY <1>2, <1>10, <2>1 DEF CommandFixed
    <2> QED BY <1>1, <1>8, <1>9, <2>1, <2>2, <2>4, <2>5, <2>6 DEF Middle
  <1> QED BY <1>1, <1>2, <1>11, MiddleHolds

(* The next bit is put out.                                                 *)
LEMMA BitbangMosiKeeps ==
  ASSUME MastersInv, BitbangMosi
  PROVE  MastersInv'
  <1> DEFINE byte == i \div Bits + 1
             v == IF byte <= Writecnt THEN Bit(byte, Bits - 1 - (i % Bits)) ELSE 0
  <1>1. /\ master \in Bitbangs /\ pc = "mosi" /\ Fixed /\ UNCHANGED <<other, i>>
        /\ pc' = "sck" /\ result' = result /\ i < Bits * (Writecnt + Readcnt) /\ Set("mosi", v)
        /\ readarr' = (IF byte > Writecnt /\ (i % Bits) = 0 THEN Append(readarr, 0) ELSE readarr)
    BY DEF BitbangMosi
  <1> HIDE DEF byte, v
  <1>2. /\ result = "none" /\ BitbangInv
        /\ Writecnt \in Nat \ {0} /\ Readcnt \in Nat /\ Bits \in Nat \ {0}
        /\ \A x \in 1 .. Readcnt : ShiftedRight(x, Bits) = 0
    BY <1>1, BitbangKnown
  <1>3. PICK P, Q, B, q, r : Middle(P, Q, B, q, r)
    BY <1>1, <1>2, MiddleFromInv
  <1>4. /\ q \in Nat /\ r \in Nat /\ r \in 0 .. Bits - 1 /\ i = Bits * q + r
        /\ q <= Writecnt + Readcnt
        /\ q = Writecnt + Readcnt => r = 0
    BY <1>1, <1>2, <1>3 DEF Middle
  <1>5. i \div Bits = q /\ i % Bits = r /\ i \in Nat
    BY <1>2, <1>4, QuotientUnique
  <1>6. q < Writecnt + Readcnt
    BY <1>1, <1>2, <1>4
  <1>7. byte = q + 1 /\ (byte <= Writecnt <=> q < Writecnt)
        /\ v = IF q < Writecnt THEN Bit(q + 1, Bits - 1 - r) ELSE 0
    BY <1>2, <1>4, <1>5 DEF byte, v
  <1>8. BitRegs(regs, P, P, Q, B) /\ "cs" \notin P /\ "sck" \notin P
    BY <1>1, <1>3 DEF Middle
  <1>9. regs.cache = P
    BY <1>8, BitField
  <1>10. PICK pins : pins = IF v = 1 THEN P \cup {"mosi"} ELSE P \ {"mosi"}
    OBVIOUS
  <1>11. Drive(pins) /\ "cs" \notin pins /\ "sck" \notin pins /\ ("mosi" \in pins <=> v = 1)
    BY <1>1, <1>8, <1>9, <1>10 DEF Set
  <1>12. BitRegs(regs', pins, pins, Q, B) /\ cs' /\ UNCHANGED <<chip, in, out>>
    BY <1>8, <1>11, DriveStays
  <1>13. CommandFixed
    BY <1>1, CommandFixedByAll
  <1>14. readarr' = ReadBack(q, r, TRUE)
    <2>1. readarr = ReadBack(q, r, r > 0)
      BY <1>1, <1>3 DEF Middle
    <2>2. CASE q < Writecnt
      <3>1. ~(byte > Writecnt)
        BY <1>2, <1>4, <1>7, <2>2
      <3>2. readarr' = << >>
        BY <1>1, <2>1, <2>2, <3>1 DEF ReadBack
      <3> QED BY <2>2, <3>2 DEF ReadBack
    <2>3. CASE ~(q < Writecnt) /\ r > 0
      BY <1>1, <1>4, <1>5, <2>1, <2>3 DEF ReadBack
    <2>4. CASE ~(q < Writecnt) /\ r = 0
      <3>1. byte > Writecnt
        BY <1>2, <1>4, <1>7, <2>4
      <3>2. readarr' = Append(Upto(q - Writecnt), 0)
        BY <1>1, <1>5, <2>1, <2>4, <3>1 DEF ReadBack
      <3>3. q - Writecnt + 1 \in 1 .. Readcnt /\ Bits - 0 = Bits
        BY <1>2, <1>4, <1>6, <2>4
      <3>4. ShiftedRight(q - Writecnt + 1, Bits - r) = 0
        BY <1>2, <2>4, <3>3
      <3> QED BY <2>4, <3>2, <3>4 DEF ReadBack
    <2>5. r > 0 \/ r = 0
      BY <1>4
    <2> QED BY ONLY <2>2, <2>3, <2>4, <2>5
  <1>15. Middle(pins, Q, B, q, r)'
    <2>1. readarr' = ReadBack(q, r, pc # "mosi" \/ r > 0)'
      BY <1>1, <1>13, <1>14 DEF ReadBack, CommandFixed
    <2>2. "mosi" \in pins <=> q < Writecnt' /\ Bit(q + 1, Bits - 1 - r) = 1
      BY <1>7, <1>11, <1>13 DEF CommandFixed
    <2>3. /\ chip = << >> /\ q \in 0 .. Writecnt + Readcnt /\ r \in 0 .. Bits - 1
          /\ i = Bits * q + r
          /\ in = Upto(IF q <= Writecnt THEN q ELSE Writecnt)
          /\ out = IF q <= Writecnt THEN 0 ELSE q - Writecnt
          /\ B \in Seq({0, 1}) /\ Len(B) = r
          /\ q < Writecnt => \A k \in 1 .. Len(B) : B[k] = Bit(q + 1, Bits - k)
      BY <1>1, <1>3 DEF Middle
    <2>4. /\ q \in 0 .. Writecnt' + Readcnt' /\ q # Writecnt' + Readcnt'
          /\ (IF q <= Writecnt THEN q ELSE Writecnt)' = (IF q <= Writecnt THEN q ELSE Writecnt)
          /\ (IF q <= Writecnt THEN 0 ELSE q - Writecnt)' =
               (IF q <= Writecnt THEN 0 ELSE q - Writecnt)
          /\ q < Writecnt' <=> q < Writecnt
      BY <1>2, <1>4, <1>6, <1>13, <2>3 DEF CommandFixed
    <2>5. /\ in' = Upto(IF q <= Writecnt THEN q ELSE Writecnt)'
          /\ out' = (IF q <= Writecnt THEN 0 ELSE q - Writecnt)'
      BY <1>12, <1>13, <2>3 DEF CommandFixed, Upto
    <2> QED BY <1>1, <1>11, <1>12, <2>1, <2>2, <2>3, <2>4, <2>5 DEF Middle
  <1> QED BY <1>1, <1>2, <1>15, MiddleHolds

(* The clock rises.                                                         *)
LEMMA BitbangSckHighKeeps ==
  ASSUME MastersInv, BitbangSckHigh
  PROVE  MastersInv'
  <1>1. /\ master \in Bitbangs /\ pc = "sck" /\ Fixed /\ UNCHANGED <<other, i, readarr>>
        /\ pc' = "miso" /\ result' = result /\ Set("sck", 1)
    BY DEF BitbangSckHigh, Goto
  <1>2. /\ result = "none" /\ BitbangInv
        /\ Writecnt \in Nat \ {0} /\ Readcnt \in Nat /\ Bits \in Nat \ {0}
    BY <1>1, BitbangKnown
  <1>3. PICK P, Q, B, q, r : Middle(P, Q, B, q, r)
    BY <1>1, <1>2, MiddleFromInv
  <1>4. /\ q \in Nat /\ r \in Nat /\ r \in 0 .. Bits - 1 /\ i = Bits * q + r /\ chip = << >>
        /\ q \in 0 .. Writecnt + Readcnt /\ q # Writecnt + Readcnt
        /\ in = Upto(IF q <= Writecnt THEN q ELSE Writecnt)
        /\ out = IF q <= Writecnt THEN 0 ELSE q - Writecnt
        /\ B \in Seq({0, 1}) /\ Len(B) = r
        /\ q < Writecnt => \A k \in 1 .. r : B[k] = Bit(q + 1, Bits - k)
        /\ readarr = ReadBack(q, r, TRUE)
        /\ "mosi" \in P <=> q < Writecnt /\ Bit(q + 1, Bits - 1 - r) = 1
    <2>1. /\ q \in 0 .. Writecnt + Readcnt /\ r \in 0 .. Bits - 1 /\ i = Bits * q + r
          /\ chip = << >>
          /\ q = Writecnt + Readcnt => r = 0 /\ pc = "mosi"
          /\ in = Upto(IF q <= Writecnt THEN q ELSE Writecnt)
          /\ out = IF q <= Writecnt THEN 0 ELSE q - Writecnt
      BY ONLY <1>3 DEF Middle
    <2>2. q \in Nat /\ r \in Nat
      BY ONLY <1>2, <2>1
    <2>3. B \in Seq({0, 1}) /\ Len(B) = r
      BY ONLY <1>1, <1>3 DEF Middle
    <2>4. q < Writecnt => \A k \in 1 .. r : B[k] = Bit(q + 1, Bits - k)
      <3>1. q < Writecnt => \A k \in 1 .. Len(B) : B[k] = Bit(q + 1, Bits - k)
        BY ONLY <1>3 DEF Middle
      <3> QED BY ONLY <2>3, <3>1
    <2>5. readarr = ReadBack(q, r, TRUE)
      <3>1. readarr = ReadBack(q, r, pc # "mosi" \/ r > 0)
        BY ONLY <1>3 DEF Middle
      <3> QED BY ONLY <1>1, <3>1 DEF ReadBack
    <2>6. "mosi" \in P <=> q < Writecnt /\ Bit(q + 1, Bits - 1 - r) = 1
      BY ONLY <1>1, <1>3 DEF Middle
    <2>7. pc # "mosi"
      BY ONLY <1>1
    <2> QED BY ONLY <2>1, <2>2, <2>3, <2>4, <2>5, <2>6, <2>7
  <1>5. BitRegs(regs, P, P, Q, B) /\ "cs" \notin P /\ "sck" \notin P
    BY <1>1, <1>3 DEF Middle
  <1>6. regs.cache = P
    BY <1>5, BitField
  <1>7. PICK pins : pins = P \cup {"sck"}
    OBVIOUS
  <1>8. Drive(pins) /\ "cs" \notin pins /\ "sck" \in pins /\ ("mosi" \in pins <=> "mosi" \in P)
    BY <1>1, <1>5, <1>6, <1>7 DEF Set
  <1>9. PICK e \in {0, 1} : e = IF "mosi" \in pins THEN 1 ELSE 0
    OBVIOUS
  <1>10. PICK C : C = Append(B, e)
    OBVIOUS
  <1>11. BitRegs(regs', pins, pins, Q, C) /\ cs' /\ UNCHANGED <<chip, in, out>>
    BY <1>5, <1>8, <1>9, <1>10, DriveRises
  <1>12. CommandFixed
    BY <1>1, CommandFixedByAll
  <1>13. /\ C \in Seq({0, 1}) /\ Len(C) = r + 1 /\ C[r + 1] = e
         /\ \A k \in 1 .. r : C[k] = B[k]
    BY <1>4, <1>9, <1>10
  <1>14. ASSUME q < Writecnt PROVE \A k \in 1 .. Len(C) : C[k] = Bit(q + 1, Bits - k)
    <2>1. Bit(q + 1, Bits - (r + 1)) = e
      <3>1. Bits - (r + 1) \in Nat /\ Bits - (r + 1) = Bits - 1 - r
        BY <1>2, <1>4
      <3>2. Bit(q + 1, Bits - (r + 1)) \in {0, 1}
        <4>1. ShiftedRight(q + 1, Bits - (r + 1)) \in Nat
          <5>1. PICK n \in Nat : n = Bits - (r + 1)
            BY <3>1
          <5>2. PICK w \in Nat : w = q + 1
            BY <1>4
          <5>3. ShiftedRight(w, n) \in Nat
            BY ONLY Shifts
          <5> QED BY ONLY <5>1, <5>2, <5>3
        <4> QED BY <4>1 DEF Bit
      <3> QED BY <1>4, <1>8, <1>9, <1>14, <3>1, <3>2
    <2> SUFFICES ASSUME NEW k \in 1 .. r + 1 PROVE C[k] = Bit(q + 1, Bits - k)
      BY <1>13
    <2>2. CASE k = r + 1
      BY <1>13, <2>1, <2>2
    <2>3. CASE k \in 1 .. r
      BY <1>4, <1>13, <1>14, <2>3
    <2> QED BY <1>4, <2>2, <2>3
  <1>15. Middle(pins, Q, C, q, r)'
    <2>1. readarr' = ReadBack(q, r, pc # "mosi" \/ r > 0)'
      BY <1>1, <1>4, <1>12 DEF ReadBack, CommandFixed
    <2>2. /\ q \in 0 .. Writecnt' + Readcnt' /\ q # Writecnt' + Readcnt'
          /\ (IF q <= Writecnt THEN q ELSE Writecnt)' = (IF q <= Writecnt THEN q ELSE Writecnt)
          /\ (IF q <= Writecnt THEN 0 ELSE q - Writecnt)' =
               (IF q <= Writecnt THEN 0 ELSE q - Writecnt)
          /\ q < Writecnt' <=> q < Writecnt
      BY <1>2, <1>4, <1>12 DEF CommandFixed
    <2>3. /\ in' = Upto(IF q <= Writecnt THEN q ELSE Writecnt)'
          /\ out' = (IF q <= Writecnt THEN 0 ELSE q - Writecnt)'
      BY <1>4, <1>11, <1>12 DEF CommandFixed, Upto
    <2> QED BY <1>1, <1>4, <1>8, <1>11, <1>13, <1>14, <2>1, <2>2, <2>3 DEF Middle
  <1> QED BY <1>1, <1>2, <1>15, MiddleHolds

(* CS# is released after the last byte.                                     *)
LEMMA BitbangDeselectKeeps ==
  ASSUME MastersInv, BitbangDeselect
  PROVE  MastersInv'
  <1>1. /\ master \in Bitbangs /\ pc = "mosi" /\ Fixed /\ UNCHANGED <<other, readarr>>
        /\ pc' = "release" /\ result' = result /\ Set("cs", 1) /\ i = Bits * (Writecnt + Readcnt)
    BY DEF BitbangDeselect, Goto
  <1>2. /\ result = "none" /\ BitbangInv
        /\ Writecnt \in Nat \ {0} /\ Readcnt \in Nat /\ Bits \in Nat \ {0}
    BY <1>1, BitbangKnown
  <1>3. PICK P, Q, B, q, r : Middle(P, Q, B, q, r)
    BY <1>1, <1>2, MiddleFromInv
  <1>4. /\ q \in Nat /\ r \in 0 .. Bits - 1 /\ i = Bits * q + r /\ chip = << >> /\ cs
        /\ in = Upto(IF q <= Writecnt THEN q ELSE Writecnt)
        /\ out = IF q <= Writecnt THEN 0 ELSE q - Writecnt
        /\ readarr = ReadBack(q, r, r > 0)
    BY <1>1, <1>2, <1>3 DEF Middle
  <1>5. q = Writecnt + Readcnt /\ r = 0
    <2>1. PICK n \in Nat : n = Writecnt + Readcnt
      BY <1>2
    <2>2. i \div Bits = q /\ i % Bits = r
      BY <1>2, <1>4, QuotientUnique
    <2>3. 0 \in 0 .. Bits - 1 /\ i = Bits * n + 0
      <3>1. Bits * n \in Nat
        BY <1>2
      <3> QED BY <1>1, <1>2, <2>1, <3>1
    <2>4. i \div Bits = n /\ i % Bits = 0
      BY <1>2, <2>3, QuotientUnique
    <2> QED BY <2>1, <2>2, <2>4
  <1>6. in = Writearr /\ out = Readcnt /\ readarr = Answer
    <2>1. /\ (IF q <= Writecnt THEN q ELSE Writecnt) = Writecnt
          /\ (IF q <= Writecnt THEN 0 ELSE q - Writecnt) = Readcnt
          /\ ~(q < Writecnt) /\ q - Writecnt = Readcnt
      BY <1>2, <1>5
    <2>2. in = Upto(Writecnt) /\ out = Readcnt
      BY <1>4, <2>1
    <2>3. readarr = Upto(Readcnt)
      BY <1>4, <1>5, <2>1 DEF ReadBack
    <2> QED BY <2>2, <2>3, UptoUses
  <1>7. BitRegs(regs, P, P, Q, B)
    BY <1>3 DEF Middle
  <1>8. regs.cache = P
    BY <1>7, BitField
  <1>9. PICK pins : pins = P \cup {"cs"}
    OBVIOUS
  <1>10. Drive(pins) /\ "cs" \in pins
    BY <1>1, <1>8, <1>9 DEF Set
  <1>11. BitRegs(regs', pins, pins, Q, << >>) /\ ~cs' /\ chip' = Append(chip,
            [in |-> in, out |-> out])
    BY <1>4, <1>7, <1>10, DriveEnds
  <1>12. CommandFixed
    BY <1>1, CommandFixedByAll
  <1>13. SentWhole' /\ readarr' = Answer'
    BY <1>1, <1>4, <1>6, <1>11, <1>12 DEF SentWhole, CommandFixed
  <1>14. regs' = [pins |-> regs'.pins, cache |-> regs'.cache, request |-> regs'.request,
                  bits |-> regs'.bits]
    BY <1>11, BitField
  <1>15. BitbangInv'
    BY <1>1, <1>11, <1>13, <1>14 DEF BitbangInv
  <1> QED BY <1>1, <1>2, <1>15, BitbangHolds

(* The least significant bit joins.                                         *)
LEMMA BitJoins ==
  ASSUME NEW v \in Nat, NEW n \in Nat
  PROVE  ShiftedRight(v, n) = 2 * ShiftedRight(v, n + 1) + Bit(v, n)
  BY Shifts DEF Bit

(* The last byte of a list is replaced.                                     *)
LEMMA LastReplaced ==
  ASSUME NEW n \in Nat, NEW x, NEW y, NEW s, s = Append(Upto(n), x)
  PROVE  /\ Len(s) = n + 1 /\ s[n + 1] = x
         /\ [s EXCEPT ![n + 1] = y] = Append(Upto(n), y)
  <1>1. PICK u : u = Upto(n)
    OBVIOUS
  <1>2. u \in Seq(Nat) /\ Len(u) = n
    BY <1>1, UptoGrows
  <1>3. PICK T : T = Nat \cup {x, y}
    OBVIOUS
  <1>4. u \in Seq(T) /\ x \in T /\ y \in T
    BY <1>2, <1>3
  <1>5. s = Append(u, x)
    BY <1>1
  <1>6. s \in Seq(T) /\ Len(s) = n + 1 /\ s[n + 1] = x /\ \A k \in 1 .. n : s[k] = u[k]
    BY <1>2, <1>4, <1>5
  <1>7. PICK w : w = Append(u, y)
    OBVIOUS
  <1>8. w \in Seq(T) /\ Len(w) = n + 1 /\ w[n + 1] = y /\ \A k \in 1 .. n : w[k] = u[k]
    BY <1>2, <1>4, <1>7
  <1>9. PICK t : /\ t = [s EXCEPT ![n + 1] = y] /\ t \in Seq(T) /\ Len(t) = n + 1
                 /\ \A k \in 1 .. n + 1 : t[k] = IF k = n + 1 THEN y ELSE s[k]
    <2>1. n + 1 \in 1 .. Len(s)
      BY <1>6
    <2>2. /\ [s EXCEPT ![n + 1] = y] \in Seq(T) /\ Len([s EXCEPT ![n + 1] = y]) = Len(s)
          /\ \A j \in 1 .. Len(s) : [s EXCEPT ![n + 1] = y][j] = IF j = n + 1 THEN y ELSE s[j]
      BY ONLY <1>4, <1>6, <2>1, ExceptSeq
    <2> QED BY <1>6, <2>2
  <1>10. \A k \in 1 .. n + 1 : t[k] = w[k]
    BY <1>6, <1>8, <1>9
  <1>11. t = w
    BY <1>8, <1>9, <1>10, SeqEqual
  <1> QED BY <1>1, <1>6, <1>7, <1>9, <1>11

(* The last byte of a list is the one appended.                             *)
LEMMA LastOfAppended ==
  ASSUME NEW n \in Nat, NEW x, NEW s, s = Append(Upto(n), x)
  PROVE  Len(s) = n + 1 /\ s[n + 1] = x
  BY LastReplaced

(* The bit is read and the clock falls.                                     *)
LEMMA BitbangSckLowKeeps ==
  ASSUME MastersInv, BitbangSckLow
  PROVE  MastersInv'
  <1>1. /\ master \in Bitbangs /\ pc = "miso" /\ Fixed /\ UNCHANGED other
        /\ pc' = "mosi" /\ i' = i + 1 /\ result' = result /\ Set("sck", 0)
        /\ readarr' = (IF i \div Bits >= Writecnt
                       THEN [readarr EXCEPT ![Len(readarr)] = 2 * @ + Miso] ELSE readarr)
    BY DEF BitbangSckLow
  <1>2. /\ result = "none" /\ BitbangInv
        /\ Writecnt \in Nat \ {0} /\ Readcnt \in Nat /\ Bits \in Nat \ {0}
        /\ \A x \in 1 .. Writecnt : ShiftedRight(x, Bits) = 0
    BY <1>1, BitbangKnown
  <1>3. PICK P, Q, B, q, r : Middle(P, Q, B, q, r)
    BY <1>1, <1>2, MiddleFromInv
  <1>4. /\ q \in 0 .. Writecnt + Readcnt /\ r \in 0 .. Bits - 1 /\ i = Bits * q + r /\ chip = << >>
        /\ q # Writecnt + Readcnt
        /\ in = Upto(IF q <= Writecnt THEN q ELSE Writecnt)
        /\ out = IF q <= Writecnt THEN 0 ELSE q - Writecnt
        /\ B \in Seq({0, 1}) /\ Len(B) = r + 1
        /\ q < Writecnt => \A k \in 1 .. Len(B) : B[k] = Bit(q + 1, Bits - k)
    <2>1. pc # "mosi"
      BY <1>1
    <2> QED BY ONLY <1>1, <1>3, <2>1 DEF Middle
  <1>5. readarr = ReadBack(q, r, TRUE)
    <2>1. readarr = ReadBack(q, r, pc # "mosi" \/ r > 0)
      BY ONLY <1>3 DEF Middle
    <2> QED BY ONLY <1>1, <2>1 DEF ReadBack
  <1>6. q \in Nat /\ r \in Nat /\ q < Writecnt + Readcnt /\ q + 1 \in 0 .. Writecnt + Readcnt
    BY ONLY <1>2, <1>4
  <1>7. i \div Bits = q /\ i \in Nat
    BY <1>2, <1>4, <1>6, QuotientUnique
  <1>8. BitRegs(regs, P, P, Q, B) /\ "cs" \notin P /\ "sck" \in P
    BY <1>1, <1>3 DEF Middle
  <1>9. regs.cache = P /\ regs.bits = B
    BY <1>8, BitField
  <1>10. PICK pins : pins = P \ {"sck"}
    OBVIOUS
  <1>11. Drive(pins) /\ "cs" \notin pins /\ "sck" \notin pins
    BY <1>1, <1>8, <1>9, <1>10 DEF Set
  <1>12. /\ cs' /\ UNCHANGED chip
         /\ Len(B) = Bits => /\ BitRegs(regs', pins, pins, Q, << >>)
                             /\ in' = (IF Len(in) < Writecnt THEN Append(in, Byte(B)) ELSE in)
                             /\ out' = (IF Len(in) = Writecnt THEN out + 1 ELSE out)
         /\ Len(B) # Bits => BitRegs(regs', pins, pins, Q, B) /\ UNCHANGED <<in, out>>
    BY <1>8, <1>11, DriveFalls
  <1>13. CommandFixed
    BY <1>1, CommandFixedByAll
  <1>14. Len(in) = IF q <= Writecnt THEN q ELSE Writecnt
    <2>1. PICK n \in Nat : n = IF q <= Writecnt THEN q ELSE Writecnt
      BY <1>2, <1>6
    <2> QED BY <1>4, <2>1, UptoGrows
  (* What was read so far has one more bit.                                 *)
  <1>15. readarr' = IF q < Writecnt THEN << >>
                    ELSE Append(Upto(q - Writecnt), ShiftedRight(q - Writecnt + 1, Bits - (r + 1)))
    <2>1. CASE q < Writecnt
      <3>1. ~(i \div Bits >= Writecnt)
        BY <1>2, <1>6, <1>7, <2>1
      <3> QED BY <1>1, <1>5, <2>1, <3>1 DEF ReadBack
    <2>2. CASE ~(q < Writecnt)
      <3>1. PICK n \in Nat : n = q - Writecnt
        BY <1>2, <1>6, <2>2
      <3>2. PICK m \in Nat : m = Bits - (r + 1)
        BY <1>2, <1>4, <1>6
      <3>3. Bits - r = m + 1
        BY <1>2, <1>6, <3>2
      <3>4. readarr = Append(Upto(n), ShiftedRight(n + 1, m + 1))
        BY <1>5, <2>2, <3>1, <3>3 DEF ReadBack
      <3>5. PICK x : x = ShiftedRight(n + 1, m + 1)
        OBVIOUS
      <3>6. Miso = Bit(n + 1, m)
        <4>1. Len(in) = Writecnt /\ ~(Len(in) < Writecnt)
          BY <1>2, <1>6, <1>14, <2>2
        <4>2. out = n
          BY <1>2, <1>4, <1>6, <2>2, <3>1
        <4>3. Len(B) = r + 1 /\ Len(B) # 0
          BY <1>4, <1>6
        <4> QED BY <1>9, <3>2, <4>1, <4>2, <4>3 DEF Miso
      <3>7. ShiftedRight(n + 1, m) = 2 * x + Miso
        <4>1. n + 1 \in Nat
          BY <3>1
        <4> QED BY <3>2, <3>5, <3>6, <4>1, BitJoins
      <3>8. PICK y : y = 2 * x + Miso
        OBVIOUS
      <3>9. i \div Bits >= Writecnt
        BY <1>2, <1>6, <1>7, <2>2
      <3>10. /\ Len(readarr) = n + 1 /\ readarr[n + 1] = x
             /\ [readarr EXCEPT ![n + 1] = y] = Append(Upto(n), y)
        <4>1. readarr = Append(Upto(n), x)
          BY ONLY <3>4, <3>5
        <4>2. n \in Nat
          BY <3>1
        <4>3. Len(readarr) = n + 1 /\ readarr[n + 1] = x
          BY ONLY <4>1, <4>2, LastOfAppended
        <4>4. [readarr EXCEPT ![n + 1] = y] = Append(Upto(n), y)
          BY ONLY <4>1, <4>2, LastReplaced
        <4> QED BY ONLY <4>3, <4>4
      <3>11. readarr' = [readarr EXCEPT ![n + 1] = y]
        BY <1>1, <3>8, <3>9, <3>10
      <3>12. readarr' = Append(Upto(n), y)
        BY <3>10, <3>11
      <3> QED BY <2>2, <3>1, <3>2, <3>7, <3>8, <3>12
    <2> QED BY <2>1, <2>2
  <1>16. CASE Len(B) # Bits
    <2>1. /\ r + 1 \in 0 .. Bits - 1 /\ r + 1 > 0 /\ i' = Bits * q + (r + 1)
          /\ BitRegs(regs', pins, pins, Q, B) /\ UNCHANGED <<in, out>>
      <3>1. r + 1 # Bits
        BY <1>4, <1>16
      <3>2. Bits * q \in Nat
        <4>1. \A x, y \in Nat : x * y \in Nat
          OBVIOUS
        <4>2. Bits \in Nat /\ q \in Nat
          BY <1>2, <1>6
        <4> QED BY ONLY <4>1, <4>2
      <3> QED BY <1>1, <1>2, <1>4, <1>6, <1>12, <1>16, <3>1, <3>2
    <2>2. readarr' = ReadBack(q, r + 1, pc # "mosi" \/ r + 1 > 0)'
      BY <1>13, <1>15, <2>1 DEF ReadBack, CommandFixed
    <2>3. /\ q \in 0 .. Writecnt' + Readcnt' /\ q # Writecnt' + Readcnt'
          /\ (IF q <= Writecnt THEN q ELSE Writecnt)' = (IF q <= Writecnt THEN q ELSE Writecnt)
          /\ (IF q <= Writecnt THEN 0 ELSE q - Writecnt)' =
               (IF q <= Writecnt THEN 0 ELSE q - Writecnt)
          /\ q < Writecnt' <=> q < Writecnt
      BY <1>2, <1>4, <1>13 DEF CommandFixed
    <2>4. /\ in' = Upto(IF q <= Writecnt THEN q ELSE Writecnt)'
          /\ out' = (IF q <= Writecnt THEN 0 ELSE q - Writecnt)'
      BY <1>4, <1>13, <2>1 DEF CommandFixed, Upto
    <2>5. Middle(pins, Q, B, q, r + 1)'
      BY <1>1, <1>4, <1>11, <1>12, <2>1, <2>2, <2>3, <2>4 DEF Middle
    <2>6. PICK s : s = r + 1
      OBVIOUS
    <2> QED BY <1>1, <1>2, <2>5, <2>6, MiddleHolds
  <1>17. CASE Len(B) = Bits
    <2>1. /\ r + 1 = Bits /\ BitRegs(regs', pins, pins, Q, << >>)
          /\ in' = (IF Len(in) < Writecnt THEN Append(in, Byte(B)) ELSE in)
          /\ out' = (IF Len(in) = Writecnt THEN out + 1 ELSE out)
      BY <1>4, <1>12, <1>17
    <2>2. i' = Bits * (q + 1) + 0
      <3>1. Bits * (q + 1) = Bits * q + Bits /\ Bits * q \in Nat
        BY <1>2, <1>6
      <3> QED BY <1>1, <1>2, <1>4, <1>6, <2>1, <3>1
    <2>3. Bits - (r + 1) = 0
      BY <1>2, <2>1
    <2>4. PICK p \in Nat : p = q + 1
      BY <1>6
    <2>5. readarr' = ReadBack(p, 0, FALSE)
      <3>1. CASE q < Writecnt /\ p < Writecnt
        BY <1>15, <3>1 DEF ReadBack
      <3>2. CASE q < Writecnt /\ ~(p < Writecnt)
        <4>1. p - Writecnt = 0
          BY <1>2, <1>6, <2>4, <3>2
        <4> QED BY <1>15, <3>2, <4>1, UptoNone DEF ReadBack
      <3>3. CASE ~(q < Writecnt)
        <4>1. PICK n \in Nat : n = q - Writecnt
          BY <1>2, <1>6, <3>3
        <4>2. p - Writecnt = n + 1 /\ ~(p < Writecnt) /\ n + 1 \in Nat
          BY <1>2, <1>6, <2>4, <3>3, <4>1
        <4>3. ShiftedRight(n + 1, 0) = n + 1
          BY <4>2, Shifts
        <4>4. readarr' = Append(Upto(n), n + 1)
          BY <1>15, <2>3, <3>3, <4>1, <4>3
        <4> QED BY <4>1, <4>2, <4>4, UptoGrows DEF ReadBack
      <3> QED BY <3>1, <3>2, <3>3
    <2>6. /\ in' = Upto(IF p <= Writecnt THEN p ELSE Writecnt)
          /\ out' = IF p <= Writecnt THEN 0 ELSE p - Writecnt
      <3>1. CASE q < Writecnt
        <4>1. Len(in) = q /\ p <= Writecnt /\ q <= Writecnt
          BY <1>2, <1>6, <1>14, <2>4, <3>1
        <4>2. Byte(B) = p
          <5>1. p \in 1 .. Writecnt
            BY <1>2, <1>6, <2>4, <3>1
          <5>2. ShiftedRight(p, Bits) = 0
            BY <1>2, <5>1
          <5>3. BitsOf(p, B)
            BY <1>4, <1>17, <2>4, <3>1 DEF BitsOf, Bit
          <5> QED BY <2>4, <5>2, <5>3, ByteOfBits
        <4>3. in = Upto(q) /\ out = 0
          BY <1>4, <4>1
        <4>4. in' = Upto(p)
          BY <1>6, <2>1, <2>4, <3>1, <4>1, <4>2, <4>3, UptoGrows
        <4>5. out' = 0
          BY <1>2, <1>6, <2>1, <3>1, <4>1, <4>3
        <4> QED BY <4>1, <4>4, <4>5
      <3>2. CASE ~(q < Writecnt)
        <4>1. Len(in) = Writecnt /\ ~(p <= Writecnt)
          BY <1>2, <1>6, <1>14, <2>4, <3>2
        <4>2. in' = in /\ out' = out + 1
          BY <1>2, <2>1, <4>1
        <4>3. in = Upto(Writecnt) /\ out = q - Writecnt
          <5>1. CASE q = Writecnt
            BY <1>2, <1>4, <5>1
          <5>2. CASE ~(q <= Writecnt)
            BY <1>4, <5>2
          <5> QED BY <1>2, <1>6, <3>2, <5>1, <5>2
        <4>4. q - Writecnt + 1 = p - Writecnt
          BY <1>2, <1>6, <2>4
        <4> QED BY <4>1, <4>2, <4>3, <4>4
      <3> QED BY <3>1, <3>2
    <2>7. /\ p \in 0 .. Writecnt' + Readcnt' /\ 0 \in 0 .. Bits - 1
          /\ (IF p <= Writecnt THEN p ELSE Writecnt)' = (IF p <= Writecnt THEN p ELSE Writecnt)
          /\ (IF p <= Writecnt THEN 0 ELSE p - Writecnt)' =
               (IF p <= Writecnt THEN 0 ELSE p - Writecnt)
      BY <1>2, <1>6, <1>13, <2>4 DEF CommandFixed
    <2>8. /\ in' = Upto(IF p <= Writecnt THEN p ELSE Writecnt)'
          /\ out' = (IF p <= Writecnt THEN 0 ELSE p - Writecnt)'
      BY <1>13, <2>6 DEF CommandFixed, Upto
    <2>9. readarr' = ReadBack(p, 0, pc # "mosi" \/ 0 > 0)'
      BY <1>1, <1>13, <2>5 DEF ReadBack, CommandFixed
    <2>10. PICK e \in Seq({0, 1}) : e = << >> /\ Len(e) = 0
      <3>1. << >> \in Seq({0, 1}) /\ Len(<< >>) = 0
        OBVIOUS
      <3> QED BY <3>1
    <2>11. i' = Bits * p + 0
      BY ONLY <2>2, <2>4
    <2>12. Middle(pins, Q, e, p, 0)'
      <3>1. BitRegs(regs', pins, pins, Q, e) /\ cs' /\ chip' = << >>
        BY ONLY <1>4, <1>12, <2>1, <2>10
      <3>2. \A k \in 1 .. Len(e) : e[k] = Bit(p + 1, Bits - k)
        BY ONLY <2>10
      <3>3. /\ pc' = "mosi" /\ pc' \in {"mosi", "sck", "miso"} /\ pc' # "sck" /\ pc' # "miso"
            /\ "sck" \in pins <=> pc' = "miso"
            /\ Len(e) = IF pc' = "miso" THEN 0 + 1 ELSE 0
        BY ONLY <1>1, <1>11, <2>10
      <3> QED BY ONLY <1>11, <2>7, <2>8, <2>9, <2>10, <2>11, <3>1, <3>2, <3>3 DEF Middle
    <2> QED BY <1>1, <1>2, <2>12, MiddleHolds
  <1> QED BY <1>16, <1>17

-----------------------------------------------------------------------------
(* All masters together.                                                    *)

(* When the run is not about a command the masters are idle.                *)
CommandInv == IF mode = "command" THEN MastersInv ELSE MastersIdle

(* The initial states.                                                      *)
LEMMA CommandBegins == ProgrammersInit => CommandInv
  <1> SUFFICES ASSUME ProgrammersInit PROVE CommandInv
    OBVIOUS
  <1>1. CASE mode = "command"
    <2>1. Init
      BY <1>1 DEF ProgrammersInit
    <2>2. /\ command \in Commands /\ pc = "start" /\ i = 0
          /\ cs = FALSE /\ in = << >> /\ out = 0 /\ chip = << >>
          /\ readarr = << >> /\ result = "none" /\ lost = "nothing" /\ other = 0
      BY <2>1 DEF Init
    <2>3. 0 \in 0 .. MaxOther
      BY MastersAssumption
    <2>4. CommandTypes
      BY <2>2, <2>3 DEF CommandTypes, NothingYet
    <2>5. MastersInv
      BY <2>2, <2>4 DEF MastersInv, DediprogInv, BuspirateInv, Ft2232Inv, It87Inv, WbsioInv,
           It85Inv, Sb600Inv, BitbangInv, At
    <2> QED BY <1>1, <2>5 DEF CommandInv
  <1>2. CASE mode # "command"
    BY <1>2 DEF ProgrammersInit, CommandInv
  <1> QED BY <1>1, <1>2

(* A step that changes nothing.                                             *)
LEMMA CommandStays ==
  ASSUME MastersInv, UNCHANGED vars
  PROVE  MastersInv'
  <1>1. /\ UNCHANGED <<master, command, pc, i>> /\ UNCHANGED <<cs, in, out, chip>>
        /\ UNCHANGED <<regs, readarr, result, lost, other>>
    BY DEF vars
  <1>2. CommandTypes'
    BY <1>1 DEF MastersInv, CommandTypes, CommandEnds, NothingYet, KeepsItsWord, SentWhole, Answer,
       Writearr, Writecnt, Readcnt
  <1>3. DediprogInv' /\ BuspirateInv' /\ Ft2232Inv'
    BY <1>1 DEF MastersInv, DediprogInv, BuspirateInv, Ft2232Inv, At, SentWhole, Selected, Answer,
       Writearr, Writecnt, Readcnt
  <1>4. It87Inv' /\ WbsioInv' /\ It85Inv'
    <2>1. /\ Writecnt' = Writecnt /\ Readcnt' = Readcnt /\ It87Limit' = It87Limit
          /\ It87Registers' = It87Registers /\ WbsioMode' = WbsioMode /\ NothingYet' = NothingYet
          /\ WbsioRegisters' = WbsioRegisters
      BY <1>1 DEF It87Limit, It87Registers, WbsioMode, WbsioRegisters, NothingYet, Writecnt, Readcnt
    <2>2. It87Inv'
      BY <1>1, <2>1 DEF MastersInv, It87Inv, At
    <2>3. WbsioInv'
      BY <1>1, <2>1 DEF MastersInv, WbsioInv, At
    <2>4. It85Inv'
      <3> SUFFICES ASSUME At("it85spi", "shift")'
                   PROVE  /\ i' \in 0 .. Writecnt' + Readcnt' /\ chip' = << >> /\ (cs' <=> i' > 0)
                          /\ BytesIn(i)' /\ BytesOut(i)' /\ readarr' = Upto(out')
        BY DEF It85Inv
      <3>1. /\ i \in 0 .. Writecnt + Readcnt /\ chip = << >> /\ (cs <=> i > 0)
            /\ BytesIn(i) /\ BytesOut(i) /\ readarr = Upto(out)
        BY <1>1 DEF MastersInv, It85Inv, At
      <3>2. BytesIn(i)' /\ BytesOut(i)'
        BY <1>1, <2>1, <3>1 DEF BytesIn, BytesOut
      <3>3. readarr' = Upto(out')
        BY <1>1, <3>1 DEF Upto
      <3> QED BY <1>1, <2>1, <3>1, <3>2, <3>3
    <2> QED BY <2>2, <2>3, <2>4
  <1>5. Sb600Inv'
    BY <1>1 DEF MastersInv, Sb600Inv, Sb600Right, Sb600Limit, Drift, Drifted, Stored, Sb600Answer,
       SentWhole, Answer, Upto, Writearr, Writecnt, Readcnt, ReadOffBy1
  <1>6. BitbangInv'
    <2>1. /\ Writecnt' = Writecnt /\ Readcnt' = Readcnt /\ Writearr' = Writearr /\ Answer' = Answer
          /\ NothingYet' = NothingYet /\ SentWhole' = SentWhole
      BY <1>1 DEF Writecnt, Readcnt, Writearr, Answer, NothingYet, SentWhole
    <2>2. CASE master \in Bitbangs /\ pc \in {"mosi", "sck", "miso"}
      <3>1. BitbangInv
        BY DEF MastersInv
      <3>2. PICK P, Q, B, q, r : Middle(P, Q, B, q, r)
        BY <2>2, <3>1, MiddleFromInv
      <3>3. Middle(P, Q, B, q, r)'
        BY <1>1, <2>1, <3>2 DEF Middle, ReadBack, BitRegs
      <3> QED BY <3>3, InvFromMiddle, PTL
    <2>3. CASE ~(master \in Bitbangs /\ pc \in {"mosi", "sck", "miso"})
      BY <1>1, <2>1, <2>3 DEF MastersInv, BitbangInv
    <2> QED BY <2>2, <2>3
  <1> QED BY <1>2, <1>3, <1>4, <1>5, <1>6 DEF MastersInv

(* Every step of a command.                                                 *)
LEMMA CommandStep ==
  ASSUME MastersInv, Next
  PROVE  MastersInv'
  <1>1. CASE Program
    BY <1>1, RefuseKeeps, DediprogKeeps, BuspirateKeeps, OneMessageKeeps, Ft2232Keeps, It87Keeps,
       WbsioKeeps, It85Keeps, Sb600StartKeeps, Sb600ClearedKeeps, Sb600PortKeeps, Sb600CheckKeeps,
       Sb600ExecuteKeeps, Sb600CountKeeps, BitbangBeginKeeps, BitbangSelectKeeps, BitbangMosiKeeps,
       BitbangSckHighKeeps, BitbangSckLowKeeps, BitbangDeselectKeeps, BitbangReleaseKeeps
       DEF Program
  <1>2. CASE Sb600Other
    BY <1>2, Sb600OtherKeeps
  <1>3. CASE Sb600Spins \/ Done
    BY <1>3, CommandStays DEF Sb600Spins, Done
  <1> QED BY <1>1, <1>2, <1>3 DEF Next

(* Every step of the programmers.                                           *)
LEMMA CommandInvKept ==
  ASSUME CommandInv, [ProgrammersNext]_programmerVars
  PROVE  CommandInv'
  <1>1. CASE InCommand(Next)
    BY <1>1, CommandStep DEF InCommand, CommandInv
  <1>2. CASE UNCHANGED <<vars, mode>>
    <2>1. CASE mode = "command"
      BY <1>2, <2>1, CommandStays DEF CommandInv
    <2>2. CASE mode # "command"
      BY <1>2, <2>2 DEF CommandInv, MastersIdle, vars
    <2> QED BY <2>1, <2>2
  <1>3. \/ InCommand(Next)
        \/ UNCHANGED <<vars, mode>>
    BY DEF ProgrammersNext, InAdapter, InBulk, InSession, InSerprog, programmerVars
  <1> QED BY <1>1, <1>2, <1>3

(* The invariant says what the caller relies on.                            *)
LEMMA CommandInvSafe == CommandInv => TransfersIntact
  <1> SUFFICES ASSUME CommandInv PROVE TransfersIntact
    OBVIOUS
  <1>1. CASE mode = "command"
    <2>1. CommandTypes
      BY <1>1 DEF CommandInv, MastersInv
    <2>2. result # "none" => CommandEnds
      BY <2>1 DEF CommandTypes
    <2>3. pc = "end" => CommandEnds
      BY <2>1 DEF CommandTypes
    <2>4. Intact /\ KeepsItsWord
      BY <2>2 DEF Intact, KeepsItsWord, CommandEnds, SentWhole
    <2> QED BY <2>3, <2>4 DEF TransfersIntact, CommandIntact, NotLeftSelected, CommandEnds
  <1>2. CASE mode # "command"
    <2>1. MastersIdle
      BY <1>2 DEF CommandInv
    <2> QED BY <2>1 DEF MastersIdle, TransfersIntact, CommandIntact, Intact, KeepsItsWord,
               NotLeftSelected
  <1> QED BY <1>1, <1>2

(****************************************************************************)
(* Whatever the master, its limits and the length of the command: a command *)
(* that ends without an error has reached the chip whole and once, and its  *)
(* whole answer the caller; one that is refused as too long really is       *)
(* longer than what the master announces; and the chip is left selected     *)
(* only where releasing it failed (spi_send_command() of ft2232_spi.c,      *)
(* dediprog.c, buspirate_spi.c, linux_spi.c, it87spi.c, wbsio_spi.c,        *)
(* it85spi.c, sb600spi.c and bitbang_spi.c).                                *)
(****************************************************************************)
THEOREM CommandsIntact == ProgrammersSpec => []TransfersIntact
  <1>1. ProgrammersInit => CommandInv
    BY CommandBegins
  <1>2. CommandInv /\ [ProgrammersNext]_programmerVars => CommandInv'
    BY CommandInvKept
  <1>3. CommandInv => TransfersIntact
    BY CommandInvSafe
  <1> QED BY <1>1, <1>2, <1>3, PTL DEF ProgrammersSpec

=============================================================================
