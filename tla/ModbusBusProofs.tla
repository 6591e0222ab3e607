-------------------------- MODULE ModbusBusProofs ---------------------------
(***************************************************************************)
(* Proofs about the bus, for any calls, any objects and any number of      *)
(* faults: what the server executes was sent to it, and what is received   *)
(* fits msg.buf.                                                           *)
(***************************************************************************)
EXTENDS ModbusBus, FiniteSetTheorems, FunctionTheorems, WellFoundedInduction, SequenceTheorems, TLAPS

\* What a message carries before its checksum, and what is on the line.
Bodies == Seq(DataByte)
WireByte == DataByte \cup ({256, 257} \X Bodies)

\* The bytes that end a message with the body p.
Ends(s, p) == {i \in DOMAIN s : s[i] = <<257, p>>}
Count(s, p) == Cardinality(Ends(s, p))

\* Messages that can be for the server, and messages for unit 2.
ForServer == {p \in Bodies : p # <<>> /\ p[1] \in { <<1>>, Broadcast }}
ForOther == {f \in Seq(WireByte) : Len(f) >= 4 /\ Body(f) \in Bodies /\ f[1] = <<2>>}

\* The call under way has arguments that its function does not refuse.
Refused(r) == Function(r, FirstObject(r), 0).bad

\* A receiver waits for more than it has.
Ahead(t, b) == t \in Nat /\ t > Len(b)

\* The byte count of a request has been compared with its limit.
Checked(b) ==
  Len(b) >= 2 + FixedPart(Code(b)) /\ Code(b) \in Counted /\ (Code(b) = 16 => Len(b) >= RequestEnd(b))
    => ByteCount(b) <= MaxBytes(Code(b))

\* The byte count of an answer has.
CountedForms == {"discrete", "registers", "read_file", "write_file"}
CheckedAnswer(w, b) ==
  Len(b) >= 3 /\ w.form \in CountedForms /\ ~IsException(w, b) => num(b[3]) <= 251

\* What the functions expect.
Expected(w) == w.form \in CountedForms \cup {"echo", "objects"} \/ (w.form = "raw" /\ w.room \in 0 .. 255)

\* What the client c waits for.
Wants(c) == Function(c.r, c.object, Len(c.ids)).res

ClientOK(c) ==
  /\ c = [at |-> c.at, r |-> c.r, rx |-> c.rx, buf |-> c.buf, err |-> c.err, object |-> c.object,
          ids |-> c.ids, fresh |-> c.fresh, early |-> c.early, faults |-> c.faults]
  /\ c.at \in {"idle", "send", "recv", "done"}
  /\ c.rx \in Seq(WireByte) /\ c.buf \in Seq(WireByte)
  /\ c.object \in 0 .. 255
  /\ c.at \in {"send", "recv"} => WellFormed(c.r) /\ ~Refused(c.r)
  /\ c.at = "send" => c.buf = <<>>
  /\ c.at = "recv" => Ahead(AnswerTarget(Wants(c), c.buf), c.buf) /\ CheckedAnswer(Wants(c), c.buf)

\* How far the server s wants to get.
NextLength(s) == IF s.at = "req" THEN RequestTarget(s.buf) ELSE AnswerTarget(s.want, s.buf)

ServerOK(s) ==
  /\ s = [at |-> s.at, rx |-> s.rx, buf |-> s.buf, want |-> s.want]
  /\ s.at \in {"req", "res"}
  /\ s.rx \in Seq(WireByte) /\ s.buf \in Seq(WireByte)
  /\ s.at = "req" /\ s.buf # <<>> => Len(s.buf) >= 2 /\ Code(s.buf) \in Functions /\ Checked(s.buf)
  /\ s.at = "res" => Expected(s.want) /\ s.want.form # "raw" /\ CheckedAnswer(s.want, s.buf)
  /\ Ahead(NextLength(s), s.buf)

WorldInv ==
  /\ other \in Seq(ForOther)
  /\ plan \in Plans /\ calls \in Nat

\* How often a bag holds the message p.
Copies(bag, p) == IF p \in DOMAIN bag THEN bag[p] ELSE 0

\* How often the server s may still find the message p in what it has and will read.
Pending(s, p) == Count(s.buf, p) + Count(s.rx, p)

\* What the server s has executed and what it may still read was sent.
BagsOK(s, done, all) ==
  /\ DOMAIN all \subseteq Bodies /\ \A p \in DOMAIN all : all[p] \in Nat \ {0}
  /\ DOMAIN done \subseteq ForServer /\ \A p \in DOMAIN done : done[p] \in Nat \ {0}
  /\ \A p \in ForServer : Copies(done, p) + Pending(s, p) <= Copies(all, p)

IInv == ClientOK(client) /\ ServerOK(server) /\ WorldInv /\ BagsOK(server, executed, sent)
-----------------------------------------------------------------------------
(* Numbers and sets.                                                       *)

\* A nonempty set of numbers has a least one.
LEMMA Least ==
  ASSUME NEW S \in SUBSET Nat, S # {}
  PROVE  \E d \in S : \A x \in S : d <= x
<1>1. PICK d \in S : \A x \in S : ~(<<x, d>> \in OpToRel(<, Nat))
  BY NatLessThanWellFounded, WFMin
<1>2. \A x \in S : ~(x < d)
  BY <1>1 DEF OpToRel
<1> QED BY <1>2

\* Min, by which the next mark of an answer and the next object are chosen.
LEMMA MinIn ==
  ASSUME NEW S \in SUBSET Nat, S # {}
  PROVE  Min(S) \in S /\ \A x \in S : Min(S) <= x
<1>1. PICK d \in S : \A x \in S : d <= x
  BY Least
<1> QED BY <1>1 DEF Min

\* Nth finds each of a set of ids.
LEMMA NthIn ==
  ASSUME NEW ids \in SUBSET (0 .. 255), NEW k \in 1 .. Cardinality(ids)
  PROVE  Nth(ids, k) \in ids
<1> DEFINE upto(m) == {i \in ids : i <= m}
           S == {m \in Nat : Cardinality(upto(m)) >= k}
<1> DEFINE top == 255
<1>1. IsFiniteSet(ids)
  <2>1. top \in Nat /\ ids \in SUBSET Nat /\ \A s \in ids : s <= top
    OBVIOUS
  <2> HIDE DEF top
  <2> QED BY <2>1, FS_BoundedSetOfNaturals
<1>2. \A m : IsFiniteSet(upto(m)) /\ Cardinality(upto(m)) \in Nat
  <2> TAKE m
  <2>1. upto(m) \in SUBSET ids
    OBVIOUS
  <2> HIDE DEF upto
  <2> QED BY <2>1, <1>1, FS_Subset, FS_CardinalityType
<1>3. upto(255) = ids
  <2>1. \A i \in ids : i <= 255
    OBVIOUS
  <2> QED BY <2>1
<1>4. 255 \in S
  <2>1. Cardinality(upto(255)) >= k
    <3> HIDE DEF upto
    <3>1. Cardinality(ids) \in Nat
      BY <1>1, FS_CardinalityType
    <3> QED BY <1>3, <3>1
  <2> HIDE DEF upto
  <2> QED BY <2>1
<1>5. PICK m \in S : \A x \in S : m <= x
  <2>1. S \in SUBSET Nat /\ S # {}
    BY <1>4
  <2> HIDE DEF S
  <2> QED BY <2>1, Least
<1>6. Cardinality(upto(m)) >= k /\ m \in Nat
  BY <1>5
<1>7. upto(m - 1) = upto(m) \ {m}
  <2>1. \A i \in ids : i <= m - 1 <=> i <= m /\ i # m
    BY <1>6
  <2> QED BY <2>1
<1>8. Cardinality(upto(m - 1)) < k
  <2>1. CASE m = 0
    <3>1. upto(m - 1) = {}
      <4>1. \A i \in ids : ~(i <= m - 1)
        BY <2>1
      <4> QED BY <4>1
    <3>2. Cardinality(upto(m - 1)) = 0
      BY <3>1, FS_EmptySet
    <3> QED BY <3>2
  <2>2. CASE m # 0
    <3>1. m - 1 \in Nat /\ ~(m <= m - 1)
      BY <2>2, <1>6
    <3>2. m - 1 \notin S
      BY <3>1, <1>5
    <3>3. Cardinality(upto(m - 1)) \in Nat
      BY <1>2
    <3> HIDE DEF upto
    <3> QED BY <3>1, <3>2, <3>3
  <2> QED BY <2>1, <2>2
<1>9. m \in upto(m) /\ Cardinality(upto(m)) = k
  <2>1. Cardinality(upto(m - 1)) = IF m \in upto(m) THEN Cardinality(upto(m)) - 1 ELSE Cardinality(upto(m))
    <3> HIDE DEF upto
    <3> QED BY <1>2, <1>7, FS_RemoveElement
  <2>2. Cardinality(upto(m)) \in Nat
    BY <1>2
  <2> HIDE DEF upto
  <2> QED BY <2>1, <2>2, <1>6, <1>8
<1> QED BY <1>9 DEF Nth

\* A page of identification objects has at most 128: those from 128 on, or
\* those up to 7.
LEMMA FewIn ==
  ASSUME NEW T, \E lo \in Nat : \A x \in T : x \in lo .. lo + 127
  PROVE  IsFiniteSet(T) /\ Cardinality(T) \in 0 .. 128
<1> PICK lo \in Nat : \A x \in T : x \in lo .. lo + 127
  OBVIOUS
<1> DEFINE hi == lo + 127
<1>1. hi \in Int /\ lo \in Int /\ ~(lo > hi) /\ hi - lo + 1 = 128
  OBVIOUS
<1>2. T \in SUBSET (lo .. hi)
  OBVIOUS
<1> HIDE DEF hi
<1>3. IsFiniteSet(lo .. hi) /\ Cardinality(lo .. hi) = 128
  BY <1>1, FS_Interval
<1>4. IsFiniteSet(T) /\ Cardinality(T) <= 128
  BY <1>2, <1>3, FS_Subset
<1>5. Cardinality(T) \in Nat
  BY <1>4, FS_CardinalityType
<1> QED BY <1>4, <1>5

\* The concatenation of sequences of data is data.
LEMMA FlattenBodies ==
  ASSUME NEW s \in Seq(Bodies)
  PROVE  FlattenSeq(s) \in Bodies
<1> DEFINE n == Len(s)
           Rec(f, m) == f = [i \in 1 .. m |-> IF i = 1 THEN s[i] ELSE f[i - 1] \o s[i]]
<1>1. CASE n = 0
  BY <1>1 DEF FlattenSeq, Bodies
<1>2. CASE n # 0
  <2> USE <1>2
  <2>1. FlattenSeq(s) = (CHOOSE f : Rec(f, n))[n]
    BY Zenon DEF FlattenSeq
  <2>2. \A m \in Nat : \E f : Rec(f, m)
    <3> DEFINE S == {m \in Nat : ~ \E f : Rec(f, m)}
    <3> SUFFICES ASSUME S # {} PROVE FALSE
      OBVIOUS
    <3>1. PICK m \in S : \A x \in S : m <= x
      <4>1. S \in SUBSET Nat
        OBVIOUS
      <4> HIDE DEF S
      <4> QED BY <4>1, Least
    <3>2. CASE m = 0
      <4> DEFINE g == [i \in 1 .. 0 |-> s[1]]
      <4>1. Rec(g, 0)
        OBVIOUS
      <4> QED BY <4>1, <3>1, <3>2
    <3>3. CASE m # 0
      <4>1. m - 1 \in Nat /\ ~(m <= m - 1)
        BY <3>1, <3>3
      <4>2. PICK f : Rec(f, m - 1)
        BY <4>1, <3>1
      <4> DEFINE g == [i \in 1 .. m |-> IF i = 1 THEN s[i] ELSE f[i - 1] \o s[i]]
      <4>3. \A i \in 1 .. m - 1 : g[i] = f[i]
        <5>1. \A i \in 1 .. m - 1 : f[i] = IF i = 1 THEN s[i] ELSE f[i - 1] \o s[i]
          BY <4>2, Zenon
        <5>2. \A i \in 1 .. m - 1 : i \in 1 .. m
          BY <4>1
        <5>3. \A i \in 1 .. m : g[i] = IF i = 1 THEN s[i] ELSE f[i - 1] \o s[i]
          BY Zenon
        <5> HIDE DEF g
        <5> QED BY <5>1, <5>2, <5>3, Zenon
      <4>4. Rec(g, m)
        <5>1. \A i \in 1 .. m : i # 1 => g[i - 1] = f[i - 1]
          <6>1. \A i \in 1 .. m : i # 1 => i - 1 \in 1 .. m - 1
            BY <4>1
          <6> HIDE DEF g
          <6> QED BY <4>3, <6>1, Zenon
        <5>2. \A i \in 1 .. m : (IF i = 1 THEN s[i] ELSE f[i - 1] \o s[i]) = (IF i = 1 THEN s[i] ELSE g[i - 1] \o s[i])
          <6> HIDE DEF g
          <6> QED BY <5>1, Zenon
        <5>3. g = [i \in 1 .. m |-> IF i = 1 THEN s[i] ELSE g[i - 1] \o s[i]]
          BY <5>2, Zenon
        <5> QED BY <5>3, Zenon
      <4> QED BY <4>4, <3>1
    <3> QED BY <3>2, <3>3
  <2>3. n \in Nat
    OBVIOUS
  <2> DEFINE g == CHOOSE f : Rec(f, n)
  <2>4. Rec(g, n)
    BY <2>2, <2>3
  <2>7. FlattenSeq(s) = g[n]
    BY <2>1
  <2> HIDE DEF g
  <2>5. \A i \in 1 .. n : s[i] \in Bodies
    OBVIOUS
  <2>6. \A i \in 1 .. n : g[i] \in Bodies
    <3> DEFINE S == {i \in 1 .. n : g[i] \notin Bodies}
    <3> SUFFICES ASSUME S # {} PROVE FALSE
      OBVIOUS
    <3>1. PICK i \in S : \A x \in S : i <= x
      <4>1. S \in SUBSET Nat
        OBVIOUS
      <4> HIDE DEF S
      <4> QED BY <4>1, Least
    <3>2. i \in 1 .. n /\ g[i] \notin Bodies
      BY <3>1
    <3>3. g[i] = IF i = 1 THEN s[i] ELSE g[i - 1] \o s[i]
      BY <3>2, <2>4
    <3>4. i # 1 => g[i - 1] \in Bodies
      BY <3>1, <3>2
    <3> QED BY <3>2, <3>3, <3>4, <2>5 DEF Bodies
  <2> QED BY <2>7, <2>6, <2>3
<1> QED BY <1>1, <1>2
-----------------------------------------------------------------------------
(* Bytes and sequences of bytes.                                           *)

\* What a byte on the line is taken for.
LEMMA NumIn == \A x \in WireByte : num(x) \in 0 .. 255
<1> SUFFICES ASSUME NEW x \in WireByte PROVE num(x) \in 0 .. 255
  OBVIOUS
<1>1. CASE x \in DataByte
  BY <1>1 DEF DataByte, num
<1>2. CASE x \in {256, 257} \X Bodies
  <2>1. Len(x) = 2
    BY <1>2
  <2> QED BY <2>1, BusAssumption DEF num
<1> QED BY <1>1, <1>2 DEF WireByte

\* A byte of data is none of the checksum's.
LEMMA NotCrc == \A x \in DataByte : \A k, p : x # <<k, p>>
<1> SUFFICES ASSUME NEW x \in DataByte, NEW k, NEW p, x = <<k, p>> PROVE FALSE
  OBVIOUS
<1>1. Len(x) = 1
  BY DEF DataByte
<1>2. Len(<<k, p>>) = 2
  OBVIOUS
<1> QED BY <1>1, <1>2

\* Data is what the line may carry.
LEMMA BodyOnLine == \A s \in Bodies : s \in Seq(WireByte)
BY DEF Bodies, WireByte

\* The checksum's bytes are on the line.
LEMMA CrcOnLine == \A p \in Bodies : crc_calc(p) \in Seq(WireByte) /\ Len(crc_calc(p)) = 2
<1> SUFFICES ASSUME NEW p \in Bodies PROVE crc_calc(p) \in Seq(WireByte) /\ Len(crc_calc(p)) = 2
  OBVIOUS
<1>1. <<256, p>> \in WireByte /\ <<257, p>> \in WireByte
  BY DEF WireByte
<1> QED BY <1>1 DEF crc_calc

\* A checksum on the line covers data.
LEMMA CrcCoversData == \A p : <<257, p>> \in WireByte => p \in Bodies
<1> SUFFICES ASSUME NEW p, <<257, p>> \in WireByte PROVE p \in Bodies
  OBVIOUS
<1>1. <<257, p>> \notin DataByte
  BY NotCrc
<1> QED BY <1>1 DEF WireByte
-----------------------------------------------------------------------------
(* How many messages with the body p end in a sequence of bytes.           *)

\* The number is one.
LEMMA CountType ==
  ASSUME NEW s \in Seq(WireByte), NEW p
  PROVE  IsFiniteSet(Ends(s, p)) /\ Count(s, p) \in Nat
<1> DEFINE n == Len(s)
<1>1. Ends(s, p) \in SUBSET Nat /\ n \in Nat /\ \A i \in Ends(s, p) : i <= n
  BY DEF Ends
<1>2. IsFiniteSet(Ends(s, p))
  <2> HIDE DEF n
  <2> QED BY <1>1, FS_BoundedSetOfNaturals
<1> QED BY <1>2, FS_CardinalityType DEF Count

\* The empty sequence holds none.
LEMMA CountEmpty == \A p : Count(<<>>, p) = 0
<1> TAKE p
<1>1. Ends(<<>>, p) = {}
  BY DEF Ends
<1> QED BY <1>1, FS_EmptySet DEF Count

\* Data holds none.
LEMMA CountData ==
  ASSUME NEW s \in Bodies, NEW p
  PROVE  Count(s, p) = 0
<1>1. \A i \in DOMAIN s : s[i] \in DataByte
  BY DEF Bodies
<1>2. Ends(s, p) = {}
  BY <1>1, NotCrc DEF Ends
<1> QED BY <1>2, FS_EmptySet DEF Count

\* One after the other.
LEMMA CountConcat ==
  ASSUME NEW s \in Seq(WireByte), NEW t \in Seq(WireByte), NEW p
  PROVE  Count(s \o t, p) = Count(s, p) + Count(t, p)
<1> DEFINE n == Len(s)
           shift == [i \in Ends(t, p) |-> i + n]
           moved == {i + n : i \in Ends(t, p)}
<1>1. n \in Nat /\ Ends(t, p) \subseteq 1 .. Len(t) /\ Ends(s, p) \subseteq 1 .. n
  BY DEF Ends
<1>2. shift \in Bijection(Ends(t, p), moved)
  <2>1. shift \in [Ends(t, p) -> moved]
    OBVIOUS
  <2>2. \A i, j \in Ends(t, p) : shift[i] = shift[j] => i = j
    BY <1>1
  <2>3. \A k \in moved : \E i \in Ends(t, p) : shift[i] = k
    OBVIOUS
  <2> HIDE DEF shift, moved
  <2> QED BY <2>1, <2>2, <2>3, Fun_IsBij
<1>3. IsFiniteSet(moved) /\ Cardinality(moved) = Cardinality(Ends(t, p))
  <2>1. ExistsBijection(Ends(t, p), moved)
    BY <1>2, Zenon DEF ExistsBijection
  <2>2. IsFiniteSet(Ends(t, p))
    BY CountType
  <2> HIDE DEF moved
  <2> QED BY <2>1, <2>2, FS_Bijection
<1>4. Ends(s \o t, p) = Ends(s, p) \cup moved
  <2>1. DOMAIN (s \o t) = 1 .. n + Len(t)
    OBVIOUS
  <2>2. \A i \in 1 .. n : (s \o t)[i] = s[i]
    OBVIOUS
  <2>3. \A i \in 1 .. Len(t) : (s \o t)[i + n] = t[i]
    OBVIOUS
  <2>4. ASSUME NEW k \in Ends(s \o t, p) PROVE k \in Ends(s, p) \cup moved
    <3>1. k \in 1 .. n + Len(t) /\ (s \o t)[k] = <<257, p>>
      BY <2>1 DEF Ends
    <3>2. CASE k <= n
      BY <3>1, <3>2, <2>2 DEF Ends
    <3>3. CASE k > n
      <4>1. k - n \in 1 .. Len(t) /\ k = (k - n) + n
        BY <3>1, <3>3, <1>1
      <4>2. t[k - n] = <<257, p>>
        BY <4>1, <3>1, <2>3
      <4>3. k - n \in Ends(t, p)
        BY <4>1, <4>2 DEF Ends
      <4> QED BY <4>1, <4>3
    <3> QED BY <3>1, <3>2, <3>3, <1>1
  <2>5. ASSUME NEW k \in Ends(s, p) PROVE k \in Ends(s \o t, p)
    BY <2>1, <2>2, <1>1 DEF Ends
  <2>6. ASSUME NEW i \in Ends(t, p) PROVE i + n \in Ends(s \o t, p)
    <3>1. i \in 1 .. Len(t) /\ t[i] = <<257, p>>
      BY <1>1, Zenon DEF Ends
    <3>2. (s \o t)[i + n] = <<257, p>> /\ i + n \in 1 .. n + Len(t)
      BY <3>1, <2>3, <1>1
    <3> QED BY <3>2, <2>1 DEF Ends
  <2> QED BY <2>4, <2>5, <2>6
<1>5. Ends(s, p) \cap moved = {}
  BY <1>1
<1> HIDE DEF moved
<1>6. IsFiniteSet(Ends(s, p)) /\ Cardinality(Ends(s, p)) \in Nat
  BY CountType DEF Count
<1>7. Cardinality(Ends(s, p) \cup moved) = Cardinality(Ends(s, p)) + Cardinality(moved) - Cardinality({})
  BY <1>3, <1>5, <1>6, FS_Union
<1>8. Cardinality(Ends(t, p)) \in Nat
  BY CountType DEF Count
<1> QED BY <1>3, <1>4, <1>6, <1>7, <1>8, FS_EmptySet DEF Count

\* A checksum ends one message, the one it covers.
LEMMA CountCrc ==
  ASSUME NEW q \in Bodies, NEW p
  PROVE  Count(crc_calc(q), p) = IF p = q THEN 1 ELSE 0
<1>1. \A x, y : x # y => <<256, x>> # <<257, y>>
  OBVIOUS
<1>2. DOMAIN crc_calc(q) = {1, 2} /\ crc_calc(q)[1] = <<256, q>> /\ crc_calc(q)[2] = <<257, q>>
  BY DEF crc_calc
<1>3. <<256, q>> # <<257, p>> /\ (<<257, q>> = <<257, p>> <=> q = p)
  OBVIOUS
<1>4. Ends(crc_calc(q), p) = IF p = q THEN {2} ELSE {}
  BY <1>2, <1>3 DEF Ends
<1> QED BY <1>4, FS_EmptySet, FS_Singleton DEF Count

\* Putting bytes together.
LEMMA Joined == \A s, t \in Seq(WireByte) :
  /\ s \o t \in Seq(WireByte) /\ Len(s \o t) = Len(s) + Len(t)
  /\ \A i \in 1 .. Len(s) : (s \o t)[i] = s[i]
  /\ \A i \in Len(s) + 1 .. Len(s) + Len(t) : (s \o t)[i] = t[i - Len(s)]
OBVIOUS

\* Taking bytes out.
LEMMA Piece == \A s \in Seq(WireByte) : \A j, k \in Nat :
  1 <= j /\ j <= k + 1 /\ k <= Len(s) =>
    /\ SubSeq(s, j, k) \in Seq(WireByte) /\ Len(SubSeq(s, j, k)) = k - j + 1
    /\ \A i \in 1 .. k - j + 1 : SubSeq(s, j, k)[i] = s[j + i - 1]
<1> SUFFICES ASSUME NEW s \in Seq(WireByte), NEW j \in Nat, NEW k \in Nat, 1 <= j, j <= k + 1, k <= Len(s)
             PROVE  /\ SubSeq(s, j, k) \in Seq(WireByte) /\ Len(SubSeq(s, j, k)) = k - j + 1
                    /\ \A i \in 1 .. k - j + 1 : SubSeq(s, j, k)[i] = s[j + i - 1]
  OBVIOUS
<1>1. \A i \in 1 .. k - j + 1 : j + i - 1 \in 1 .. Len(s)
  OBVIOUS
<1>2. Len(SubSeq(s, j, k)) = k - j + 1
  OBVIOUS
<1>3. \A i \in 1 .. k - j + 1 : SubSeq(s, j, k)[i] = s[j + i - 1]
  OBVIOUS
<1>4. SubSeq(s, j, k) \in Seq(WireByte)
  OBVIOUS
<1> QED BY <1>2, <1>3, <1>4

\* Two adjacent pieces make one.
LEMMA Adjacent == \A s \in Seq(WireByte) : \A j, k, l \in Nat :
  1 <= j /\ j <= k + 1 /\ k <= l /\ l <= Len(s) =>
    SubSeq(s, j, l) = SubSeq(s, j, k) \o SubSeq(s, k + 1, l)
<1> SUFFICES ASSUME NEW s \in Seq(WireByte), NEW j \in Nat, NEW k \in Nat, NEW l \in Nat,
                    1 <= j, j <= k + 1, k <= l, l <= Len(s)
             PROVE  SubSeq(s, j, l) = SubSeq(s, j, k) \o SubSeq(s, k + 1, l)
  OBVIOUS
<1> DEFINE a == SubSeq(s, j, k)
           b == SubSeq(s, k + 1, l)
           c == SubSeq(s, j, l)
<1>0. Len(s) \in Nat
  OBVIOUS
<1>1. a \in Seq(WireByte) /\ Len(a) = k - j + 1 /\ \A i \in 1 .. k - j + 1 : a[i] = s[j + i - 1]
  BY <1>0, Piece
<1>2. b \in Seq(WireByte) /\ Len(b) = l - k /\ \A i \in 1 .. l - k : b[i] = s[k + i]
  <2>1. k + 1 \in Nat /\ 1 <= k + 1 /\ k + 1 <= l + 1 /\ l - (k + 1) + 1 = l - k
    OBVIOUS
  <2>2. b \in Seq(WireByte) /\ Len(b) = l - (k + 1) + 1 /\ \A i \in 1 .. l - (k + 1) + 1 : b[i] = s[(k + 1) + i - 1]
    BY <1>0, <2>1, Piece
  <2>3. \A i \in 1 .. l - k : (k + 1) + i - 1 = k + i
    OBVIOUS
  <2> HIDE DEF b
  <2> QED BY <2>1, <2>2, <2>3
<1>3. c \in Seq(WireByte) /\ Len(c) = l - j + 1 /\ \A i \in 1 .. l - j + 1 : c[i] = s[j + i - 1]
  BY <1>0, Piece
<1> HIDE DEF a, b, c
<1>4. a \o b \in Seq(WireByte) /\ Len(a \o b) = l - j + 1
  <2>1. a \in Seq(WireByte) /\ b \in Seq(WireByte)
    BY <1>1, <1>2
  <2>2. a \o b \in Seq(WireByte) /\ Len(a \o b) = Len(a) + Len(b)
    BY <2>1, Joined, Zenon
  <2>3. (k - j + 1) + (l - k) = l - j + 1
    OBVIOUS
  <2>4. Len(a \o b) = (k - j + 1) + (l - k)
    BY <1>1, <1>2, <2>2, Zenon
  <2> QED BY <2>2, <2>3, <2>4, Zenon
<1>5. ASSUME NEW i \in 1 .. l - j + 1 PROVE c[i] = (a \o b)[i]
  <2>1. CASE i <= k - j + 1
    <3>1. i \in 1 .. Len(a)
      BY <1>1, <2>1
    <3> QED BY <1>1, <1>2, <1>3, <2>1, <3>1, Joined
  <2>2. CASE i > k - j + 1
    <3>1. i \in Len(a) + 1 .. Len(a) + Len(b) /\ i - Len(a) \in 1 .. l - k
      BY <1>1, <1>2, <2>2
    <3>2. (a \o b)[i] = b[i - Len(a)]
      BY <1>1, <1>2, <3>1, Joined
    <3>3. b[i - Len(a)] = s[k + (i - Len(a))]
      BY <1>2, <3>1
    <3>4. k + (i - Len(a)) = j + i - 1
      BY <1>1
    <3> QED BY <1>3, <3>2, <3>3, <3>4
  <2>3. i <= k - j + 1 \/ i > k - j + 1
    OBVIOUS
  <2> QED BY <2>1, <2>2, <2>3, Zenon
<1>6. c = a \o b
  BY <1>3, <1>4, <1>5, SeqEqual
<1> QED BY <1>6 DEF a, b, c

\* Cutting a message.
LEMMA Cut ==
  ASSUME NEW s \in Seq(WireByte), NEW k \in Nat, k <= Len(s)
  PROVE  /\ SubSeq(s, 1, k) \in Seq(WireByte) /\ Len(SubSeq(s, 1, k)) = k
         /\ SubSeq(s, k + 1, Len(s)) \in Seq(WireByte)
         /\ SubSeq(s, 1, k) \o SubSeq(s, k + 1, Len(s)) = s
<1> DEFINE n == Len(s)
<1>1. n \in Nat /\ 1 \in Nat /\ 1 <= k + 1 /\ k + 1 \in Nat /\ k + 1 <= n + 1 /\ k - 1 + 1 = k
  OBVIOUS
<1>2. SubSeq(s, 1, n) = s
  OBVIOUS
<1>3. SubSeq(s, 1, n) = SubSeq(s, 1, k) \o SubSeq(s, k + 1, n)
  <2>1. 1 <= 1 /\ k <= n /\ n <= Len(s)
    OBVIOUS
  <2> HIDE DEF n
  <2> QED BY <1>1, <2>1, Adjacent, Zenon
<1>4. SubSeq(s, 1, k) \in Seq(WireByte) /\ Len(SubSeq(s, 1, k)) = k
  BY <1>1, Piece
<1>5. SubSeq(s, k + 1, n) \in Seq(WireByte)
  BY <1>1, Piece
<1> QED BY <1>2, <1>3, <1>4, <1>5

\* A message with a body of data carries no other end than its own.
LEMMA FrameBytes ==
  ASSUME NEW q \in Bodies, NEW p
  PROVE  /\ q \o crc_calc(q) \in Seq(WireByte)
         /\ Count(q \o crc_calc(q), p) = IF p = q THEN 1 ELSE 0
         /\ Body(q \o crc_calc(q)) = q
<1> DEFINE c == crc_calc(q)
<1>1. q \in Seq(WireByte) /\ c \in Seq(WireByte) /\ Len(c) = 2
  BY BodyOnLine, CrcOnLine
<1>2. Count(c, p) = IF p = q THEN 1 ELSE 0
  BY CountCrc
<1>3. Count(q, p) = 0
  BY CountData
<1> HIDE DEF c
<1>4. Count(q \o c, p) = IF p = q THEN 1 ELSE 0
  BY <1>1, <1>2, <1>3, CountConcat
<1>5. Body(q \o c) = q
  <2>1. Len(q \o c) - 2 = Len(q)
    <3>1. Len(q \o c) = Len(q) + Len(c)
      BY <1>1, Joined, Zenon
    <3>2. Len(q) \in Nat
      BY <1>1
    <3>3. Len(q \o c) = Len(q) + 2
      BY <1>1, <3>1, Zenon
    <3> HIDE DEF c
    <3> QED BY <3>2, <3>3
  <2>2. SubSeq(q \o c, 1, Len(q)) = q
    BY <1>1
  <2> QED BY <2>1, <2>2 DEF Body
<1>6. q \o c \in Seq(WireByte)
  BY <1>1
<1> QED BY <1>4, <1>5, <1>6 DEF c

\* What arrives of a message is bytes, and no more of them end a message.
LEMMA ArrivalBytes ==
  ASSUME NEW f \in Seq(WireByte), NEW h \in Arrivals(f), NEW p
  PROVE  h \in Seq(WireByte) /\ Count(h, p) <= Count(f, p)
<1>0. Count(f, p) \in Nat
  BY CountType
<1>1. CASE h = f
  BY <1>0, <1>1
<1>2. CASE h = <<>>
  BY <1>0, <1>2, CountEmpty
<1>3. ASSUME NEW i \in DOMAIN f, h = RemoveAt(f, i) PROVE h \in Seq(WireByte) /\ Count(h, p) <= Count(f, p)
  <2> DEFINE a == SubSeq(f, 1, i - 1)
             x == SubSeq(f, i, i)
             b == SubSeq(f, i + 1, Len(f))
  <2>1. a \in Seq(WireByte) /\ x \in Seq(WireByte) /\ b \in Seq(WireByte)
    OBVIOUS
  <2>2. f = (a \o x) \o b
    <3>1. i \in Nat /\ i - 1 \in Nat /\ 1 <= i /\ i <= Len(f) /\ (i - 1) + 1 = i /\ Len(f) \in Nat
      OBVIOUS
    <3>2. SubSeq(f, 1, i) = a \o x
      <4>1. SubSeq(f, 1, i) = SubSeq(f, 1, i - 1) \o SubSeq(f, (i - 1) + 1, i)
        BY <3>1, Adjacent
      <4> QED BY <3>1, <4>1
    <3>3. SubSeq(f, 1, i) \o b = f
      BY <3>1, Cut
    <3> QED BY <3>2, <3>3
  <2>3. h = a \o b
    BY <1>3 DEF RemoveAt
  <2> HIDE DEF a, x, b
  <2>4. Count(f, p) = Count(a, p) + Count(x, p) + Count(b, p)
    <3>1. a \o x \in Seq(WireByte)
      BY <2>1, Joined
    <3>2. Count(f, p) = Count(a \o x, p) + Count(b, p)
      BY <2>1, <2>2, <3>1, CountConcat
    <3> QED BY <2>1, <3>2, CountConcat
  <2>5. Count(h, p) = Count(a, p) + Count(b, p)
    BY <2>1, <2>3, CountConcat
  <2>6. Count(a, p) \in Nat /\ Count(x, p) \in Nat /\ Count(b, p) \in Nat
    BY <2>1, CountType
  <2> QED BY <2>1, <2>3, <2>4, <2>5, <2>6
<1>4. ASSUME NEW i \in DOMAIN f, NEW n \in Noise, h = ReplaceAt(f, i, n) PROVE h \in Seq(WireByte) /\ Count(h, p) <= Count(f, p)
  <2>1. n \in DataByte /\ n \in WireByte
    BY BusAssumption DEF WireByte
  <2>2. h \in Seq(WireByte) /\ DOMAIN h = DOMAIN f /\ \A j \in DOMAIN f : h[j] = IF j = i THEN n ELSE f[j]
    BY <1>4, <2>1 DEF ReplaceAt
  <2>3. Ends(h, p) \in SUBSET Ends(f, p)
    BY <2>1, <2>2, NotCrc DEF Ends
  <2>4. IsFiniteSet(Ends(f, p))
    BY CountType
  <2> QED BY <2>2, <2>3, <2>4, FS_Subset DEF Count
<1> QED BY <1>1, <1>2, <1>3, <1>4 DEF Arrivals

\* A message whose checksum is right carries data, and its end counts.
LEMMA CrcCounts ==
  ASSUME NEW m \in Seq(WireByte), Len(m) >= 2, CrcOK(m)
  PROVE  Body(m) \in Bodies /\ Count(m, Body(m)) >= 1
<1> DEFINE n == Len(m)
<1>1. n \in DOMAIN m /\ m[n] \in WireByte
  OBVIOUS
<1>2. m[n] = <<257, Body(m)>>
  <2>1. SubSeq(m, n - 1, n)[2] = m[n]
    OBVIOUS
  <2>2. crc_calc(Body(m))[2] = <<257, Body(m)>>
    BY DEF crc_calc
  <2> QED BY <2>1, <2>2 DEF CrcOK
<1>3. Body(m) \in Bodies
  BY <1>1, <1>2, CrcCoversData
<1>4. Ends(m, Body(m)) # {}
  BY <1>1, <1>2 DEF Ends
<1>5. IsFiniteSet(Ends(m, Body(m))) /\ Count(m, Body(m)) \in Nat
  BY CountType
<1>6. Count(m, Body(m)) # 0
  BY <1>4, <1>5, FS_EmptySet DEF Count
<1> QED BY <1>3, <1>5, <1>6
-----------------------------------------------------------------------------
(* How far a receiver wants to get.                                        *)

\* m is b with bytes received after it.
Extends(m, b) == Len(m) > Len(b) /\ \A i \in 1 .. Len(b) : m[i] = b[i]

\* A limit that is not passed.
LEMMA NotPassed == \A x \in 0 .. 255 : \A y \in Nat : ~(x > y) => x <= y
OBVIOUS

\* The sizes of the requests.
LEMMA Sizes ==
  ASSUME NEW fc \in Functions
  PROVE  /\ FixedPart(fc) \in 1 .. 9
         /\ fc \in {15, 16} => FixedPart(fc) = 5 /\ MaxBytes(fc) = 246
         /\ fc = 20 => FixedPart(fc) = 1 /\ MaxBytes(fc) = 245
         /\ fc = 21 => FixedPart(fc) = 1 /\ MaxBytes(fc) = 251
         /\ fc = 23 => FixedPart(fc) = 9 /\ MaxBytes(fc) = 242
BY DEF Functions, FixedPart, MaxBytes

\* Where a request ends.
LEMMA RequestEndType ==
  ASSUME NEW b \in Seq(WireByte), Len(b) >= 2 + FixedPart(Code(b)), Code(b) \in Functions
  PROVE  /\ ByteCount(b) \in 0 .. 255
         /\ RequestEnd(b) \in Nat /\ RequestEnd(b) >= 2 + FixedPart(Code(b))
<1>1. FixedPart(Code(b)) \in 1 .. 9
  BY Sizes
<1> DEFINE k == 2 + FixedPart(Code(b))
<1>2. k \in 1 .. Len(b)
  BY <1>1
<1>3. b[k] \in WireByte
  BY <1>2
<1>4. num(b[k]) \in 0 .. 255
  BY <1>3, NumIn
<1>5. ByteCount(b) \in 0 .. 255
  BY <1>4 DEF ByteCount
<1>6. RequestEnd(b) = 2 + FixedPart(Code(b)) + ByteCount(b) \/ RequestEnd(b) = 2 + FixedPart(Code(b)) + 0
  BY Zenon DEF RequestEnd
<1> DEFINE f == FixedPart(Code(b))
           n == ByteCount(b)
           e == RequestEnd(b)
<1>7. f \in 1 .. 9 /\ n \in 0 .. 255 /\ (e = 2 + f + n \/ e = 2 + f + 0)
  BY <1>1, <1>5, <1>6, Zenon
<1> HIDE DEF f, n, e
<1>8. e \in Nat /\ e >= 2 + f
  BY <1>7
<1> QED BY <1>5, <1>8 DEF e, f

\* A handler that wants more wants more than it has.
LEMMA RequestAhead ==
  ASSUME NEW b \in Seq(WireByte), Len(b) >= 2 => Code(b) \in Functions
  PROVE  RequestTarget(b) = 0 \/ Ahead(RequestTarget(b), b)
<1>0. Len(b) \in Nat
  OBVIOUS
<1>1. CASE Len(b) < 2
  BY <1>0, <1>1 DEF RequestTarget, Ahead
<1>2. CASE Len(b) >= 2
  <2>1. FixedPart(Code(b)) \in 1 .. 9
    BY <1>2, Sizes
  <2>2. CASE Len(b) < 2 + FixedPart(Code(b))
    BY <1>0, <1>2, <2>1, <2>2 DEF RequestTarget, Ahead
  <2>3. CASE Len(b) >= 2 + FixedPart(Code(b))
    <3>1. RequestEnd(b) \in Nat
      BY <1>2, <2>3, RequestEndType
    <3> QED BY <1>0, <1>2, <2>1, <2>3, <3>1 DEF RequestTarget, Ahead
  <2> QED BY <1>0, <2>1, <2>2, <2>3
<1> QED BY <1>0, <1>1, <1>2

\* What has been compared fits msg.buf.
LEMMA RequestFits ==
  ASSUME NEW b \in Seq(WireByte), Len(b) >= 2, Code(b) \in Functions, Checked(b)
  PROVE  RequestTarget(b) <= IF Code(b) = 16 THEN 262 ELSE 260
<1>0. Len(b) \in Nat
  OBVIOUS
<1>1. FixedPart(Code(b)) \in 1 .. 9
  BY Sizes
<1>2. CASE Len(b) < 2 + FixedPart(Code(b))
  BY <1>0, <1>1, <1>2 DEF RequestTarget
<1>3. CASE Len(b) >= 2 + FixedPart(Code(b))
  <2>1. ByteCount(b) \in 0 .. 255 /\ RequestEnd(b) \in Nat
    BY <1>3, RequestEndType
  <2>2. CASE Code(b) \notin Counted
    <3>1. RequestEnd(b) <= 11
      BY <1>1, <2>2 DEF RequestEnd
    <3> QED BY <1>0, <1>1, <1>3, <2>1, <3>1 DEF RequestTarget
  <2>3. CASE Code(b) \in Counted
    <3>1. RequestEnd(b) = 2 + FixedPart(Code(b)) + ByteCount(b)
      BY <2>3 DEF RequestEnd
    <3>2. CASE Code(b) = 16
      <4>1. RequestEnd(b) = 7 + ByteCount(b)
        BY <3>1, <3>2, Sizes
      <4>2. Len(b) >= RequestEnd(b) => ByteCount(b) <= 246
        BY <1>3, <2>3, <3>2, Sizes DEF Checked
      <4>3. FixedPart(Code(b)) = 5
        BY <3>2, Sizes
      <4>4. RequestTarget(b) = (IF Len(b) < RequestEnd(b) THEN RequestEnd(b)
                                ELSE IF Len(b) < RequestEnd(b) + 2 THEN RequestEnd(b) + 2 ELSE 0)
        BY <1>0, <1>3, <4>3 DEF RequestTarget
      <4> DEFINE k == Len(b)
                 n == ByteCount(b)
                 e == RequestEnd(b)
                 t == RequestTarget(b)
      <4>5. /\ k \in Nat /\ n \in 0 .. 255 /\ e \in Nat /\ e = 7 + n /\ (k >= e => n <= 246)
            /\ t = IF k < e THEN e ELSE IF k < e + 2 THEN e + 2 ELSE 0
        BY <1>0, <2>1, <4>1, <4>2, <4>4, Zenon
      <4> HIDE DEF k, n, e, t
      <4>6. t <= 262
        BY <4>5
      <4> QED BY <3>2, <4>6 DEF t
    <3>3. CASE Code(b) # 16
      <4>1. ByteCount(b) <= MaxBytes(Code(b))
        BY <1>3, <2>3, <3>3 DEF Checked
      <4>2. Code(b) \in {15, 20, 21, 23}
        BY <2>3, <3>3 DEF Counted
      <4>3. RequestEnd(b) <= 258
        <5>1. Code(b) = 15 \/ Code(b) = 20 \/ Code(b) = 21 \/ Code(b) = 23
          BY <4>2
        <5>2. FixedPart(Code(b)) + MaxBytes(Code(b)) <= 256 /\ MaxBytes(Code(b)) \in Nat
          BY <5>1, Sizes
        <5> DEFINE f == FixedPart(Code(b))
                   n == ByteCount(b)
                   most == MaxBytes(Code(b))
                   e == RequestEnd(b)
        <5>3. f \in 1 .. 9 /\ n \in 0 .. 255 /\ e = 2 + f + n /\ n <= most /\ f + most <= 256 /\ most \in Nat
          BY <1>1, <2>1, <3>1, <4>1, <5>2, Zenon
        <5> HIDE DEF f, n, most, e
        <5>4. e <= 258
          BY <5>3
        <5> QED BY <5>4 DEF e
      <4> QED BY <1>0, <1>1, <1>3, <2>1, <3>3, <4>3 DEF RequestTarget
    <3> QED BY <3>2, <3>3
  <2> QED BY <2>2, <2>3
<1> QED BY <1>0, <1>1, <1>2, <1>3

\* The function code and the byte count stay what they were.
LEMMA Same ==
  ASSUME NEW b \in Seq(WireByte), NEW m \in Seq(WireByte), Extends(m, b), Len(b) >= 2
  PROVE  /\ Code(m) = Code(b)
         /\ Code(b) \in Functions /\ Len(b) >= 2 + FixedPart(Code(b)) =>
              ByteCount(m) = ByteCount(b) /\ RequestEnd(m) = RequestEnd(b)
<1>1. Code(m) = Code(b)
  BY DEF Extends, Code
<1>2. ASSUME Code(b) \in Functions, Len(b) >= 2 + FixedPart(Code(b))
      PROVE  ByteCount(m) = ByteCount(b) /\ RequestEnd(m) = RequestEnd(b)
  <2>1. FixedPart(Code(b)) \in 1 .. 9
    BY <1>2, Sizes
  <2>2. 2 + FixedPart(Code(b)) \in 1 .. Len(b)
    BY <1>2, <2>1
  <2>3. m[2 + FixedPart(Code(b))] = b[2 + FixedPart(Code(b))]
    BY <2>2 DEF Extends
  <2> QED BY <1>1, <2>3 DEF ByteCount, RequestEnd
<1> QED BY <1>1, <1>2

\* A request that is not complete has had its byte count compared.
LEMMA RequestMore ==
  ASSUME NEW b \in Seq(WireByte), NEW m \in Seq(WireByte), Extends(m, b), Len(b) >= 2,
         Code(b) \in Functions, Checked(b), Len(m) = RequestTarget(b), RequestCheck(m) = "more"
  PROVE  Code(m) \in Functions /\ Checked(m) /\ Ahead(RequestTarget(m), m)
<1>0. Len(b) \in Nat /\ Len(m) \in Nat /\ Len(m) > 2
  BY DEF Extends
<1>1. Code(m) = Code(b)
  BY Same
<1>2. FixedPart(Code(b)) \in 1 .. 9
  BY Sizes
<1>3. ~OverLimit(m) /\ RequestTarget(m) # 0
  BY DEF RequestCheck
<1>4. Checked(m)
  <2> SUFFICES ASSUME Len(m) >= 2 + FixedPart(Code(m)), Code(m) \in Counted,
                      Code(m) = 16 => Len(m) >= RequestEnd(m)
               PROVE  ByteCount(m) <= MaxBytes(Code(m))
    BY DEF Checked
  <2>1. ByteCount(m) \in 0 .. 255 /\ RequestEnd(m) \in Nat /\ RequestEnd(m) >= 2 + FixedPart(Code(m))
    BY <1>1, RequestEndType
  <2>2. MaxBytes(Code(m)) \in Nat
    BY <1>1, Sizes DEF Counted
  <2>3. CASE Code(m) # 16 /\ Len(b) < 2 + FixedPart(Code(b))
    <3>1. Len(m) = 2 + FixedPart(Code(m))
      BY <1>0, <1>1, <2>3 DEF RequestTarget
    <3>2. ~(ByteCount(m) > MaxBytes(Code(m)))
      BY <1>0, <1>3, <2>3, <3>1, Zenon DEF OverLimit
    <3> QED BY <2>1, <2>2, <3>2, NotPassed, Zenon
  <2>4. CASE Code(m) # 16 /\ Len(b) >= 2 + FixedPart(Code(b))
    <3>1. ByteCount(m) = ByteCount(b)
      BY <2>4, Same
    <3>2. ByteCount(b) <= MaxBytes(Code(b))
      BY <1>1, <2>4 DEF Checked
    <3> QED BY <1>1, <3>1, <3>2
  <2>5. CASE Code(m) = 16
    <3>1. Len(m) < RequestEnd(m) + 2
      BY <1>0, <1>1, <1>2, <1>3, <2>1 DEF RequestTarget
    <3>2. Len(m) = RequestEnd(m)
      <4>1. CASE Len(b) < 2 + FixedPart(Code(b))
        <5>1. Len(m) = 2 + FixedPart(Code(m))
          BY <1>0, <1>1, <4>1 DEF RequestTarget
        <5> QED BY <1>0, <2>1, <2>5, <5>1
      <4>2. CASE Len(b) >= 2 + FixedPart(Code(b))
        <5>1. RequestEnd(m) = RequestEnd(b)
          BY <4>2, Same
        <5>2. Len(m) \in {RequestEnd(b), RequestEnd(b) + 2, 0}
          BY <1>0, <1>2, <4>2 DEF RequestTarget
        <5> QED BY <1>0, <2>1, <3>1, <5>1, <5>2
      <4> QED BY <1>0, <1>2, <4>1, <4>2
    <3>3. ~(ByteCount(m) > MaxBytes(Code(m)))
      BY <1>0, <1>3, <2>5, <3>2, Zenon DEF OverLimit
    <3> QED BY <2>1, <2>2, <3>3, NotPassed, Zenon
  <2> QED BY <1>0, <1>2, <2>3, <2>4, <2>5
<1> QED BY <1>1, <1>3, <1>4, RequestAhead

\* A fixed part, the rest and the checksum, k bytes being there.
Parts(k, fixed, rest) ==
  IF k < fixed THEN fixed
  ELSE IF k < fixed + rest THEN fixed + rest
  ELSE IF k < fixed + rest + 2 THEN fixed + rest + 2 ELSE 0

\* The next of these parts is ahead, and not beyond the checksum.
LEMMA PartsAhead == \A k, fixed \in Nat : \A rest \in 0 .. 255 :
  /\ Parts(k, fixed, rest) \in Nat /\ Parts(k, fixed, rest) <= fixed + rest + 2
  /\ Parts(k, fixed, rest) = 0 \/ Parts(k, fixed, rest) > k
BY DEF Parts

\* AnswerTarget, form by form.
LEMMA TargetOf ==
  ASSUME NEW w, NEW b
  PROVE  /\ Len(b) < 2 => AnswerTarget(w, b) = 2
         /\ ~(Len(b) < 2) /\ IsException(w, b) => AnswerTarget(w, b) = Parts(Len(b), 3, 0)
         /\ ~(Len(b) < 2) /\ ~IsException(w, b) =>
              /\ w.form = "echo" => AnswerTarget(w, b) = Parts(Len(b), 6, 0)
              /\ w.form = "raw" => AnswerTarget(w, b) = Parts(Len(b), 2, w.room)
              /\ w.form = "objects" => AnswerTarget(w, b) = IF Len(b) < 8 THEN 8 ELSE ObjectTarget(b)
              /\ w.form \in CountedForms =>
                   AnswerTarget(w, b) = Parts(Len(b), 3, IF Len(b) < 3 THEN 0 ELSE num(b[3]))
<1>1. Len(b) < 2 => AnswerTarget(w, b) = 2
  BY Zenon DEF AnswerTarget
<1>2. ~(Len(b) < 2) /\ IsException(w, b) => AnswerTarget(w, b) = Parts(Len(b), 3, 0)
  BY Zenon DEF AnswerTarget, Parts
<1>3. ASSUME ~(Len(b) < 2), ~IsException(w, b), w.form = "echo" PROVE AnswerTarget(w, b) = Parts(Len(b), 6, 0)
  BY <1>3, Zenon DEF AnswerTarget, Parts
<1>4. ASSUME ~(Len(b) < 2), ~IsException(w, b), w.form = "raw" PROVE AnswerTarget(w, b) = Parts(Len(b), 2, w.room)
  BY <1>4, Zenon DEF AnswerTarget, Parts
<1>5. ASSUME ~(Len(b) < 2), ~IsException(w, b), w.form = "objects"
      PROVE  AnswerTarget(w, b) = IF Len(b) < 8 THEN 8 ELSE ObjectTarget(b)
  BY <1>5, Zenon DEF AnswerTarget
<1>6. ASSUME ~(Len(b) < 2), ~IsException(w, b), w.form \in CountedForms
      PROVE  AnswerTarget(w, b) = Parts(Len(b), 3, IF Len(b) < 3 THEN 0 ELSE num(b[3]))
  <2>1. w.form # "echo" /\ w.form # "raw" /\ w.form # "objects"
    BY <1>6 DEF CountedForms
  <2> QED BY <1>6, <2>1, Zenon DEF AnswerTarget, Parts
<1> QED BY <1>1, <1>2, <1>3, <1>4, <1>5, <1>6, Zenon

\* The next mark in a list of objects is ahead.
LEMMA ObjectAhead ==
  ASSUME NEW b \in Seq(WireByte)
  PROVE  ObjectTarget(b) \in {0, -1} \/ Ahead(ObjectTarget(b), b)
<1> DEFINE marks == {ObjectEnds(b)[i] : i \in 1 .. Begun(b)} \cup {ObjectEnds(b)[i] + 2 : i \in 0 .. Begun(b)}
           ahead == {t \in marks : t \in Len(b) + 1 .. Len(b) + 255}
<1>1. ObjectTarget(b) \in {0, -1} \/ (ObjectTarget(b) = Min(ahead) /\ ahead # {})
  <2> HIDE DEF ahead
  <2>1. ObjectTarget(b) = -1 \/ (IF ahead = {} THEN ObjectTarget(b) = 0 ELSE ObjectTarget(b) = Min(ahead))
    BY Zenon DEF ObjectTarget, ahead
  <2> QED BY <2>1, Zenon
<1>2. ahead \in SUBSET Nat /\ \A t \in ahead : t > Len(b)
  <2> HIDE DEF marks
  <2> QED OBVIOUS
<1> HIDE DEF ahead
<1>3. ahead # {} => Min(ahead) \in ahead
  BY <1>2, MinIn
<1> QED BY <1>1, <1>2, <1>3, Zenon DEF Ahead

\* A receiver of an answer that wants more wants more than it has.
LEMMA AnswerAhead ==
  ASSUME NEW w, Expected(w), NEW b \in Seq(WireByte)
  PROVE  /\ AnswerTarget(w, b) \in {0, -1} \/ Ahead(AnswerTarget(w, b), b)
         /\ AnswerTarget(w, b) = -1 => Len(b) > 2 /\ w.form = "objects" /\ ~IsException(w, b)
<1> DEFINE k == Len(b)
           t == AnswerTarget(w, b)
<1>0. k \in Nat
  OBVIOUS
<1>1. CASE k < 2
  <2>1. t = 2
    BY <1>1, TargetOf, Zenon
  <2>2. Ahead(t, b)
    BY <1>1, <2>1 DEF Ahead
  <2>3. t # -1
    BY <2>1
  <2> QED BY <2>2, <2>3
<1>2. ASSUME NEW fixed \in Nat, NEW rest \in 0 .. 255, t = Parts(k, fixed, rest)
      PROVE  (t \in {0, -1} \/ Ahead(t, b)) /\ t # -1
  <2>1. t \in Nat /\ (t = 0 \/ t > k)
    BY <1>0, <1>2, PartsAhead, Zenon
  <2>2. t # -1
    BY <2>1
  <2> QED BY <2>1, <2>2, Zenon DEF Ahead
<1>3. CASE ~(k < 2) /\ IsException(w, b)
  <2>1. t = Parts(k, 3, 0)
    BY <1>3, TargetOf, Zenon
  <2>2. 3 \in Nat /\ 0 \in 0 .. 255
    OBVIOUS
  <2> QED BY <1>2, <2>1, <2>2, Zenon
<1>4. CASE ~(k < 2) /\ ~IsException(w, b)
  <2>1. CASE w.form = "echo"
    <3>1. t = Parts(k, 6, 0)
      BY <1>4, <2>1, TargetOf, Zenon
    <3>2. 6 \in Nat /\ 0 \in 0 .. 255
      OBVIOUS
    <3> QED BY <1>2, <3>1, <3>2, Zenon
  <2>2. CASE w.form = "raw"
    <3>1. t = Parts(k, 2, w.room)
      BY <1>4, <2>2, TargetOf, Zenon
    <3>2. w.room \in 0 .. 255
      BY <2>2 DEF Expected, CountedForms
    <3>3. 2 \in Nat
      OBVIOUS
    <3> QED BY <1>2, <3>1, <3>2, <3>3, Zenon
  <2>3. CASE w.form \in CountedForms
    <3> DEFINE rest == IF k < 3 THEN 0 ELSE num(b[3])
    <3>1. t = Parts(k, 3, rest)
      BY <1>4, <2>3, TargetOf, Zenon
    <3>2. rest \in 0 .. 255
      <4>1. CASE k < 3
        BY <4>1
      <4>2. CASE ~(k < 3)
        <5>1. b[3] \in WireByte
          BY <1>0, <4>2
        <5> QED BY <4>2, <5>1, NumIn
      <4> QED BY <4>1, <4>2
    <3>3. 3 \in Nat
      OBVIOUS
    <3> HIDE DEF rest
    <3> QED BY <1>2, <3>1, <3>2, <3>3, Zenon
  <2>4. CASE w.form = "objects"
    <3>1. t = IF k < 8 THEN 8 ELSE ObjectTarget(b)
      BY <1>4, <2>4, TargetOf, Zenon
    <3>2. CASE k < 8
      <4>1. Ahead(t, b) /\ t # -1
        BY <3>1, <3>2 DEF Ahead
      <4> QED BY <4>1
    <3>3. CASE ~(k < 8)
      <4>1. t \in {0, -1} \/ Ahead(t, b)
        BY <3>1, <3>3, ObjectAhead, Zenon
      <4>2. Len(b) > 2
        BY <3>3, <1>0
      <4> QED BY <1>4, <2>4, <4>1, <4>2, Zenon
    <3> QED BY <3>2, <3>3
  <2> QED BY <2>1, <2>2, <2>3, <2>4, Zenon DEF Expected, CountedForms
<1> QED BY <1>1, <1>3, <1>4, Zenon

\* What has been compared fits msg.buf, objects excepted.
LEMMA AnswerFits ==
  ASSUME NEW w, Expected(w), w.form # "objects", NEW b \in Seq(WireByte), CheckedAnswer(w, b)
  PROVE  AnswerTarget(w, b) <= 260
<1> DEFINE k == Len(b)
           t == AnswerTarget(w, b)
<1>0. k \in Nat
  OBVIOUS
<1>1. CASE k < 2
  <2>1. t = 2
    BY <1>1, TargetOf, Zenon
  <2> QED BY <2>1
<1>2. ASSUME NEW fixed \in {2, 3, 6}, NEW rest \in 0 .. 255, t = Parts(k, fixed, rest), fixed = 2 \/ rest \in 0 .. 251
      PROVE  t <= 260
  <2>0. fixed \in Nat
    OBVIOUS
  <2>1. t \in Nat /\ t <= fixed + rest + 2
    BY <1>0, <1>2, <2>0, PartsAhead, Zenon
  <2> HIDE DEF t
  <2> QED BY <1>2, <2>1
<1>3. CASE ~(k < 2) /\ IsException(w, b)
  <2>1. t = Parts(k, 3, 0)
    BY <1>3, TargetOf, Zenon
  <2>2. 3 \in {2, 3, 6} /\ 0 \in 0 .. 255 /\ 0 \in 0 .. 251
    OBVIOUS
  <2> QED BY <1>2, <2>1, <2>2, Zenon
<1>4. CASE ~(k < 2) /\ ~IsException(w, b)
  <2>1. CASE w.form = "echo"
    <3>1. t = Parts(k, 6, 0)
      BY <1>4, <2>1, TargetOf, Zenon
    <3>2. 6 \in {2, 3, 6} /\ 0 \in 0 .. 255 /\ 0 \in 0 .. 251
      OBVIOUS
    <3> QED BY <1>2, <3>1, <3>2, Zenon
  <2>2. CASE w.form = "raw"
    <3>1. t = Parts(k, 2, w.room)
      BY <1>4, <2>2, TargetOf, Zenon
    <3>2. w.room \in 0 .. 255
      BY <2>2 DEF Expected, CountedForms
    <3>3. 2 \in {2, 3, 6}
      OBVIOUS
    <3> QED BY <1>2, <3>1, <3>2, <3>3, Zenon
  <2>3. CASE w.form \in CountedForms
    <3> DEFINE rest == IF k < 3 THEN 0 ELSE num(b[3])
    <3>1. t = Parts(k, 3, rest)
      BY <1>4, <2>3, TargetOf, Zenon
    <3>2. rest \in 0 .. 255 /\ rest <= 251
      <4>1. CASE k < 3
        BY <4>1
      <4>2. CASE ~(k < 3)
        <5>1. b[3] \in WireByte /\ k >= 3
          BY <1>0, <4>2
        <5>2. num(b[3]) <= 251
          BY <1>4, <2>3, <5>1, Zenon DEF CheckedAnswer
        <5> QED BY <4>2, <5>1, <5>2, NumIn
      <4> QED BY <4>1, <4>2
    <3> HIDE DEF rest
    <3>3. 3 \in {2, 3, 6} /\ rest \in 0 .. 251
      BY <3>2
    <3> QED BY <1>2, <3>1, <3>2, <3>3, Zenon
  <2> QED BY <2>1, <2>2, <2>3, Zenon DEF Expected, CountedForms
<1> QED BY <1>1, <1>3, <1>4, Zenon

\* An answer that is not complete has had its byte count compared.
LEMMA AnswerMore ==
  ASSUME NEW w, Expected(w), NEW b \in Seq(WireByte), NEW m \in Seq(WireByte), Extends(m, b),
         CheckedAnswer(w, b), Len(m) = AnswerTarget(w, b), AnswerCheck(w, m) = "more"
  PROVE  CheckedAnswer(w, m) /\ Ahead(AnswerTarget(w, m), m)
<1>1. AnswerTarget(w, m) # 0 /\ EarlyVerdict(w, m) = "more"
  <2>1. CASE AnswerTarget(w, m) # 0
    BY <2>1, Zenon DEF AnswerCheck
  <2>2. CASE AnswerTarget(w, m) = 0
    <3>1. AnswerCheck(w, m) \in {"CRC", "EXCEPTION", "INVALID_RESPONSE", "NONE"}
      BY <2>2 DEF AnswerCheck
    <3> QED BY <3>1
  <2> QED BY <2>1, <2>2
<1>2. AnswerTarget(w, m) # -1
  <2> SUFFICES ASSUME AnswerTarget(w, m) = -1 PROVE FALSE
    OBVIOUS
  <2>1. Len(m) > 2 /\ w.form = "objects" /\ ~IsException(w, m)
    BY AnswerAhead
  <2>2. EarlyVerdict(w, m) \in {"INVALID_UNIT_ID", "INVALID_RESPONSE"}
    BY <2>1, Zenon DEF EarlyVerdict
  <2> QED BY <1>1, <2>2
<1>3. Ahead(AnswerTarget(w, m), m)
  BY <1>1, <1>2, AnswerAhead, Zenon
<1>4. CheckedAnswer(w, m)
  <2> SUFFICES ASSUME Len(m) >= 3, w.form \in CountedForms, ~IsException(w, m) PROVE num(m[3]) <= 251
    BY DEF CheckedAnswer
  <2>0. Len(b) \in Nat /\ Len(m) \in Nat
    OBVIOUS
  <2>1. CASE Len(b) >= 3
    <3>1. m[3] = b[3] /\ m[2] = b[2]
      BY <2>1 DEF Extends
    <3>2. ~IsException(w, b)
      BY <3>1 DEF IsException, Code
    <3> QED BY <2>1, <3>1, <3>2, Zenon DEF CheckedAnswer
  <2>2. CASE ~(Len(b) >= 3)
    <3>1. Len(b) < 2 => Len(m) = 2
      BY TargetOf, Zenon
    <3>2. ~(Len(b) < 2) /\ Len(b) < 3
      BY <2>0, <2>2, <3>1
    <3>3. m[2] = b[2]
      BY <2>0, <3>2 DEF Extends
    <3>4. ~IsException(w, b)
      BY <3>3 DEF IsException, Code
    <3>5. AnswerTarget(w, b) = 3
      BY <3>2, <3>4, TargetOf, Zenon DEF Parts
    <3>6. Len(m) = 3 /\ Len(m) > 2
      BY <3>5
    <3>7. ~(num(m[3]) > IF w.form = "write_file" THEN 251 ELSE 250)
      <4>1. SUFFICES ASSUME num(m[3]) > IF w.form = "write_file" THEN 251 ELSE 250 PROVE FALSE
        OBVIOUS
      <4>2. EarlyVerdict(w, m) \in {"INVALID_UNIT_ID", "INVALID_RESPONSE"}
        BY <3>6, <4>1, Zenon DEF EarlyVerdict, CountedForms
      <4> QED BY <1>1, <4>2
    <3>8. num(m[3]) \in 0 .. 255
      <4>1. m[3] \in WireByte
        <5>1. Len(m) >= 3
          OBVIOUS
        <5> QED BY <2>0, <5>1
      <4> QED BY <4>1, NumIn, Zenon
    <3> DEFINE n == num(m[3])
    <3>9. n \in 0 .. 255 /\ ~(n > 251 /\ n > 250)
      BY <3>7, <3>8, Zenon
    <3> HIDE DEF n
    <3>10. n <= 251
      BY <3>9
    <3> QED BY <3>10 DEF n
  <2> QED BY <2>1, <2>2
<1> QED BY <1>3, <1>4
-----------------------------------------------------------------------------
(* What the client functions send and expect.                              *)

\* A number up to 255 is a byte.
LEMMA ByteOf == \A n \in 0 .. 255 : << n >> \in DataByte
BY DEF DataByte

\* The halves of a number of 16 bits.
LEMMA Halves == \A n \in uint16_t : n \div 256 \in 0 .. 255 /\ n % 256 \in 0 .. 255
<1>1. \A n \in uint16_t : n \in Nat /\ n <= 65535
  BY DEF uint16_t
<1>2. \A n \in Nat : n <= 65535 => n \div 256 \in 0 .. 255 /\ n % 256 \in 0 .. 255
  OBVIOUS
<1> QED BY <1>1, <1>2

\* Two bytes of a number of 16 bits.
LEMMA Put2 ==
  ASSUME NEW n \in uint16_t
  PROVE  put_2(n) \in Bodies /\ put_2(n)[1] \in DataByte /\ put_2(n)[2] \in DataByte
<1> DEFINE x == << n \div 256 >>
           y == << n % 256 >>
<1>1. x \in DataByte /\ y \in DataByte
  BY Halves, ByteOf, Zenon
<1>2. put_2(n) = <<x, y>>
  BY Zenon DEF put_2
<1> HIDE DEF x, y
<1>3. <<x, y>> \in Bodies /\ <<x, y>>[1] \in DataByte /\ <<x, y>>[2] \in DataByte
  BY <1>1 DEF Bodies
<1> QED BY <1>2, <1>3, Zenon

\* The arguments as bytes.
LEMMA FieldsType ==
  ASSUME NEW r, r.arg \in Seq(uint16_t)
  PROVE  Fields(r) \in Bodies
<1> DEFINE n == Len(r.arg)
           e(i) == put_2(r.arg[(i + 1) \div 2])[2 - (i % 2)]
<1>1. n \in Nat
  OBVIOUS
<1>2. ASSUME NEW i \in 1 .. 2 * n PROVE e(i) \in DataByte
  <2>1. (i + 1) \div 2 \in 1 .. n /\ 2 - (i % 2) \in {1, 2}
    <3> HIDE DEF n
    <3> QED BY <1>1
  <2>2. r.arg[(i + 1) \div 2] \in uint16_t
    BY <2>1
  <2> DEFINE v == r.arg[(i + 1) \div 2]
             k == 2 - (i % 2)
  <2>3. k = 1 \/ k = 2
    BY <2>1
  <2> HIDE DEF k
  <2>4. put_2(v)[k] \in DataByte
    BY <2>2, <2>3, Put2, Zenon
  <2> QED BY <2>4 DEF k
<1>3. Fields(r) = [i \in 1 .. 2 * n |-> e(i)]
  BY DEF Fields
<1>4. 2 * n \in Nat
  <2> HIDE DEF n
  <2> QED BY <1>1
<1> HIDE DEF n, e
<1> QED BY <1>2, <1>3, <1>4 DEF Bodies

\* Data after data.
LEMMA Appended == \A s, t \in Bodies : s \o t \in Bodies
BY DEF Bodies

\* Bytes are data.
LEMMA Short == \A x, y, z \in DataByte :
  << x >> \in Bodies /\ << x, y >> \in Bodies /\ << x, y, z >> \in Bodies
BY DEF Bodies

\* What the function of a call is.
LEMMA FunctionOf ==
  ASSUME NEW r, NEW o, NEW n
  PROVE  /\ r.raw => Function(r, o, n) = nmbs_send_raw_pdu(r)
         /\ ~r.raw =>
              /\ r.fc \in {1, 2} => Function(r, o, n) = read_discrete(r)
              /\ r.fc \in {3, 4} => Function(r, o, n) = read_registers(r)
              /\ r.fc = 5 => Function(r, o, n) = nmbs_write_single_coil(r)
              /\ r.fc = 6 => Function(r, o, n) = nmbs_write_single_register(r)
              /\ r.fc = 15 => Function(r, o, n) = nmbs_write_multiple_coils(r)
              /\ r.fc = 16 => Function(r, o, n) = nmbs_write_multiple_registers(r)
              /\ r.fc = 20 => Function(r, o, n) = nmbs_read_file_record(r)
              /\ r.fc = 21 => Function(r, o, n) = nmbs_write_file_record(r)
              /\ r.fc = 23 => Function(r, o, n) = nmbs_read_write_registers(r)
              /\ r.fc = 43 =>
                   /\ r.arg[1] = 1 => Function(r, o, n) = nmbs_read_device_identification_basic(r, o)
                   /\ r.arg[1] = 2 => Function(r, o, n) = nmbs_read_device_identification_regular(r, o)
                   /\ r.arg[1] = 3 => Function(r, o, n) = nmbs_read_device_identification_extended(r, o, n)
                   /\ r.arg[1] = 4 => Function(r, o, n) = nmbs_read_device_identification(r, o)
<1>1. ASSUME r.raw PROVE Function(r, o, n) = nmbs_send_raw_pdu(r)
  BY <1>1, Zenon DEF Function
<1>2. ASSUME ~r.raw, r.fc \in {1, 2} PROVE Function(r, o, n) = read_discrete(r)
  <2>1. r.fc \notin {3, 4} /\ r.fc # 5 /\ r.fc # 6 /\ r.fc # 15 /\ r.fc # 16
        /\ r.fc # 20 /\ r.fc # 21 /\ r.fc # 23 /\ r.fc # 43
    BY <1>2
  <2> QED BY <1>2, <2>1, Zenon DEF Function
<1>3. ASSUME ~r.raw, r.fc \in {3, 4} PROVE Function(r, o, n) = read_registers(r)
  <2>1. r.fc \notin {1, 2} /\ r.fc # 5 /\ r.fc # 6 /\ r.fc # 15 /\ r.fc # 16
        /\ r.fc # 20 /\ r.fc # 21 /\ r.fc # 23 /\ r.fc # 43
    BY <1>3
  <2> QED BY <1>3, <2>1, Zenon DEF Function
<1>4. ASSUME ~r.raw, r.fc = 5 PROVE Function(r, o, n) = nmbs_write_single_coil(r)
  <2>1. r.fc \notin {1, 2} /\ r.fc \notin {3, 4} /\ r.fc # 6 /\ r.fc # 15 /\ r.fc # 16
        /\ r.fc # 20 /\ r.fc # 21 /\ r.fc # 23 /\ r.fc # 43
    BY <1>4
  <2> QED BY <1>4, <2>1, Zenon DEF Function
<1>5. ASSUME ~r.raw, r.fc = 6 PROVE Function(r, o, n) = nmbs_write_single_register(r)
  <2>1. r.fc \notin {1, 2} /\ r.fc \notin {3, 4} /\ r.fc # 5 /\ r.fc # 15 /\ r.fc # 16
        /\ r.fc # 20 /\ r.fc # 21 /\ r.fc # 23 /\ r.fc # 43
    BY <1>5
  <2> QED BY <1>5, <2>1, Zenon DEF Function
<1>6. ASSUME ~r.raw, r.fc = 15 PROVE Function(r, o, n) = nmbs_write_multiple_coils(r)
  <2>1. r.fc \notin {1, 2} /\ r.fc \notin {3, 4} /\ r.fc # 5 /\ r.fc # 6 /\ r.fc # 16
        /\ r.fc # 20 /\ r.fc # 21 /\ r.fc # 23 /\ r.fc # 43
    BY <1>6
  <2> QED BY <1>6, <2>1, Zenon DEF Function
<1>7. ASSUME ~r.raw, r.fc = 16 PROVE Function(r, o, n) = nmbs_write_multiple_registers(r)
  <2>1. r.fc \notin {1, 2} /\ r.fc \notin {3, 4} /\ r.fc # 5 /\ r.fc # 6 /\ r.fc # 15
        /\ r.fc # 20 /\ r.fc # 21 /\ r.fc # 23 /\ r.fc # 43
    BY <1>7
  <2> QED BY <1>7, <2>1, Zenon DEF Function
<1>8. ASSUME ~r.raw, r.fc = 20 PROVE Function(r, o, n) = nmbs_read_file_record(r)
  <2>1. r.fc \notin {1, 2} /\ r.fc \notin {3, 4} /\ r.fc # 5 /\ r.fc # 6 /\ r.fc # 15
        /\ r.fc # 16 /\ r.fc # 21 /\ r.fc # 23 /\ r.fc # 43
    BY <1>8
  <2> QED BY <1>8, <2>1, Zenon DEF Function
<1>9. ASSUME ~r.raw, r.fc = 21 PROVE Function(r, o, n) = nmbs_write_file_record(r)
  <2>1. r.fc \notin {1, 2} /\ r.fc \notin {3, 4} /\ r.fc # 5 /\ r.fc # 6 /\ r.fc # 15
        /\ r.fc # 16 /\ r.fc # 20 /\ r.fc # 23 /\ r.fc # 43
    BY <1>9
  <2> QED BY <1>9, <2>1, Zenon DEF Function
<1>10. ASSUME ~r.raw, r.fc = 23 PROVE Function(r, o, n) = nmbs_read_write_registers(r)
  <2>1. r.fc \notin {1, 2} /\ r.fc \notin {3, 4} /\ r.fc # 5 /\ r.fc # 6 /\ r.fc # 15
        /\ r.fc # 16 /\ r.fc # 20 /\ r.fc # 21 /\ r.fc # 43
    BY <1>10
  <2> QED BY <1>10, <2>1, Zenon DEF Function
<1>11. ASSUME ~r.raw, r.fc = 43
      PROVE  /\ r.arg[1] = 1 => Function(r, o, n) = nmbs_read_device_identification_basic(r, o)
             /\ r.arg[1] = 2 => Function(r, o, n) = nmbs_read_device_identification_regular(r, o)
             /\ r.arg[1] = 3 => Function(r, o, n) = nmbs_read_device_identification_extended(r, o, n)
             /\ r.arg[1] = 4 => Function(r, o, n) = nmbs_read_device_identification(r, o)
  <2>1. r.fc \notin {1, 2} /\ r.fc \notin {3, 4} /\ r.fc # 5 /\ r.fc # 6 /\ r.fc # 15
        /\ r.fc # 16 /\ r.fc # 20 /\ r.fc # 21 /\ r.fc # 23
    BY <1>11
  <2>2. 1 # 2 /\ 1 # 3 /\ 1 # 4 /\ 2 # 3 /\ 2 # 4 /\ 3 # 4
    OBVIOUS
  <2>3. ASSUME r.arg[1] = 1 PROVE Function(r, o, n) = nmbs_read_device_identification_basic(r, o)
    <3>1. r.arg[1] # 2 /\ r.arg[1] # 3 /\ r.arg[1] # 4
      BY <2>2, <2>3, Zenon
    <3> QED BY <1>11, <2>1, <2>3, <3>1, Zenon DEF Function
  <2>4. ASSUME r.arg[1] = 2 PROVE Function(r, o, n) = nmbs_read_device_identification_regular(r, o)
    <3>1. r.arg[1] # 1 /\ r.arg[1] # 3 /\ r.arg[1] # 4
      BY <2>2, <2>4, Zenon
    <3> QED BY <1>11, <2>1, <2>4, <3>1, Zenon DEF Function
  <2>5. ASSUME r.arg[1] = 3 PROVE Function(r, o, n) = nmbs_read_device_identification_extended(r, o, n)
    <3>1. r.arg[1] # 1 /\ r.arg[1] # 2 /\ r.arg[1] # 4
      BY <2>2, <2>5, Zenon
    <3> QED BY <1>11, <2>1, <2>5, <3>1, Zenon DEF Function
  <2>6. ASSUME r.arg[1] = 4 PROVE Function(r, o, n) = nmbs_read_device_identification(r, o)
    <3>1. r.arg[1] # 1 /\ r.arg[1] # 2 /\ r.arg[1] # 3
      BY <2>2, <2>6, Zenon
    <3> QED BY <1>11, <2>1, <2>6, <3>1, Zenon DEF Function
  <2> QED BY <2>3, <2>4, <2>5, <2>6
<1> QED BY <1>1, <1>2, <1>3, <1>4, <1>5, <1>6, <1>7, <1>8, <1>9, <1>10, <1>11

\* The arguments of a call.
LEMMA Arguments ==
  ASSUME NEW r, WellFormed(r)
  PROVE  /\ r.data \in Bodies /\ r.to \in DataByte /\ r.fc \in 0 .. 255
         /\ r.raw => r.arg[1] \in 0 .. 255
         /\ ~r.raw => r.fc \in Functions
         /\ ~r.raw /\ r.fc = 43 => r.arg[1] \in 1 .. 4 /\ r.arg[2] \in 0 .. 255
         /\ ~r.raw /\ r.fc # 43 =>
              /\ Fields(r) \in Bodies /\ r.arg[1] \in uint16_t /\ r.arg[2] \in uint16_t
              /\ r.fc \in {20, 21, 23} => r.arg[3] \in uint16_t
              /\ r.fc = 23 => r.arg[4] \in uint16_t
<1>1. r.data \in Bodies /\ r.to \in DataByte /\ r.fc \in 0 .. 255
  BY Zenon DEF WellFormed, Bodies, uint8_t
<1>2. ASSUME r.raw PROVE r.arg[1] \in 0 .. 255
  <2>1. r.arg \in Seq(uint8_t) /\ Len(r.arg) = 1
    BY <1>2, Zenon DEF WellFormed
  <2>2. r.arg[1] \in uint8_t
    BY <2>1
  <2> QED BY <2>2 DEF uint8_t
<1>3. ASSUME ~r.raw PROVE r.fc \in Functions
  BY <1>3, Zenon DEF WellFormed
<1>4. ASSUME ~r.raw, r.fc = 43 PROVE r.arg[1] \in 1 .. 4 /\ r.arg[2] \in 0 .. 255
  <2>1. r.arg \in Seq(uint8_t) /\ r.arg[1] \in 1 .. 4
    BY <1>4, Zenon DEF WellFormed
  <2>2. r.fc \in {20, 21, 43} /\ r.fc # 23
    BY <1>4
  <2>3. Len(r.arg) = 3
    BY <1>4, <2>2, Zenon DEF WellFormed
  <2>4. r.arg[2] \in uint8_t
    BY <2>1, <2>3
  <2> QED BY <2>1, <2>4 DEF uint8_t
<1>5. ASSUME ~r.raw, r.fc # 43
      PROVE  /\ Fields(r) \in Bodies /\ r.arg[1] \in uint16_t /\ r.arg[2] \in uint16_t
             /\ r.fc \in {20, 21, 23} => r.arg[3] \in uint16_t
             /\ r.fc = 23 => r.arg[4] \in uint16_t
  <2>1. r.arg \in Seq(uint16_t)
    BY <1>5, Zenon DEF WellFormed
  <2>2. CASE r.fc \in {20, 21}
    <3>1. r.fc \in {20, 21, 43} /\ r.fc # 23
      BY <2>2
    <3>2. Len(r.arg) = 3
      BY <1>5, <3>1, Zenon DEF WellFormed
    <3> QED BY <2>1, <3>1, <3>2, FieldsType
  <2>3. CASE r.fc = 23
    <3>1. r.fc \notin {20, 21, 43}
      BY <2>3
    <3>2. Len(r.arg) = 4
      BY <1>5, <2>3, <3>1, Zenon DEF WellFormed
    <3> QED BY <2>1, <3>2, FieldsType
  <2>4. CASE r.fc \notin {20, 21, 23}
    <3>1. r.fc \notin {20, 21, 43} /\ r.fc # 23
      BY <1>5, <2>4
    <3>2. Len(r.arg) = 2
      BY <1>5, <3>1, Zenon DEF WellFormed
    <3> QED BY <2>1, <2>4, <3>1, <3>2, FieldsType
  <2> QED BY <2>2, <2>3, <2>4
<1> QED BY <1>1, <1>2, <1>3, <1>4, <1>5, Zenon

\* A quantity is a number.
LEMMA Quantity == \A q \in uint16_t : q \in Nat
BY DEF uint16_t

\* What a call sends is data, and its function expects an answer of some form.
Sound(f, r) ==
  /\ ~f.bad => f.pdu \in Bodies
  /\ Expected(f.res)
  /\ f.res.form = "objects" <=> ~r.raw /\ r.fc = 43

\* Nothing but objects is expected of the other functions.
LEMMA SoundOther ==
  ASSUME NEW r, r.raw \/ r.fc # 43, NEW bad \in BOOLEAN, NEW pdu, ~bad => pdu \in Bodies,
         NEW h, NEW form \in CountedForms \cup {"echo"}, NEW fixed, NEW room
  PROVE  Sound(Sends(bad, pdu, Res(h, form, fixed, room)), r)
<1>1. form # "objects"
  BY DEF CountedForms
<1> DEFINE f == Sends(bad, pdu, Res(h, form, fixed, room))
<1>2. f.bad = bad /\ f.pdu = pdu /\ f.res.form = form
  BY DEF Sends, Res
<1> HIDE DEF f
<1>3. Sound(f, r)
  <2>1. f.res.form # "objects" /\ f.res.form \in CountedForms \cup {"echo", "objects"}
    BY <1>1, <1>2
  <2>2. ~f.bad => f.pdu \in Bodies
    BY <1>2
  <2> QED BY <2>1, <2>2, Zenon DEF Sound, Expected
<1> QED BY <1>3 DEF f

\* nmbs_send_raw_pdu sends the caller's bytes and waits for as many as asked for.
LEMMA SoundRaw ==
  ASSUME NEW r, WellFormed(r), r.raw
  PROVE  Sound(nmbs_send_raw_pdu(r), r)
<1>1. r.data \in Bodies /\ r.arg[1] \in 0 .. 255
  BY Arguments
<1>2. "raw" # "objects"
  OBVIOUS
<1> DEFINE f == nmbs_send_raw_pdu(r)
<1>3. f.pdu = r.data /\ f.res.form = "raw" /\ f.res.room = r.arg[1]
  BY DEF Sends, Res, nmbs_send_raw_pdu, nmbs_receive_raw_pdu_response
<1> HIDE DEF f
<1>4. Sound(f, r)
  <2>1. f.res.form # "objects" /\ f.res.form = "raw" /\ f.res.room \in 0 .. 255 /\ f.pdu \in Bodies
    BY <1>1, <1>2, <1>3, Zenon
  <2> QED BY <2>1, Zenon DEF Sound, Expected
<1> QED BY <1>4 DEF f

\* The identification functions send bytes, whichever object they ask for.
LEMMA SoundIdentification ==
  ASSUME NEW r, WellFormed(r), ~r.raw, r.fc = 43, NEW o \in 0 .. 255, NEW bad, NEW room
  PROVE  Sound(Identification(bad, r, o, room), r)
<1>1. r.arg[1] \in 0 .. 255
  <2>1. r.arg[1] \in 1 .. 4
    BY Arguments
  <2> DEFINE c == r.arg[1]
  <2> HIDE DEF c
  <2>2. c \in 1 .. 4
    BY <2>1 DEF c
  <2>3. c \in 0 .. 255
    BY <2>2
  <2> QED BY <2>3 DEF c
<1>2. 14 \in 0 .. 255
  OBVIOUS
<1>3. << << 14 >>, << r.arg[1] >>, << o >> >> \in Bodies
  BY <1>1, <1>2, ByteOf, Short, Zenon
<1> DEFINE f == Identification(bad, r, o, room)
<1>4. f.pdu \in Bodies /\ f.res.form = "objects"
  <2> DEFINE pdu == << << 14 >>, << r.arg[1] >>, << o >> >>
  <2>1. f = Sends(bad, pdu, Res(To(r), "objects", <<>>, room))
    BY Zenon DEF Identification, recv_read_device_identification_res
  <2> HIDE DEF pdu, f
  <2>2. f.pdu = pdu /\ f.res.form = "objects"
    BY <2>1 DEF Sends, Res
  <2> QED BY <1>3, <2>2 DEF pdu
<1> HIDE DEF f
<1>5. Sound(f, r)
  <2>1. f.res.form \in CountedForms \cup {"echo", "objects"}
    BY <1>4
  <2> QED BY <1>4, <2>1, Zenon DEF Sound, Expected
<1> QED BY <1>5 DEF f

\* What each function sends.
LEMMA SoundCall ==
  ASSUME NEW r, WellFormed(r), NEW o \in 0 .. 255, NEW n
  PROVE  Sound(Function(r, o, n), r)
<1>1. CASE r.raw
  BY <1>1, FunctionOf, SoundRaw, Zenon
<1>2. CASE ~r.raw /\ r.fc = 43
  <2>1. r.arg[1] = 1 \/ r.arg[1] = 2 \/ r.arg[1] = 3 \/ r.arg[1] = 4
    <3>1. r.arg[1] \in 1 .. 4
      BY <1>2, Arguments, Zenon
    <3> QED BY <3>1
  <2>2. \A bad, room : Sound(Identification(bad, r, o, room), r)
    BY <1>2, SoundIdentification
  <2>3. /\ Sound(nmbs_read_device_identification_basic(r, o), r)
        /\ Sound(nmbs_read_device_identification_regular(r, o), r)
        /\ Sound(nmbs_read_device_identification_extended(r, o, n), r)
        /\ Sound(nmbs_read_device_identification(r, o), r)
    BY <2>2, Zenon
       DEF nmbs_read_device_identification_basic, nmbs_read_device_identification_regular,
           nmbs_read_device_identification_extended, nmbs_read_device_identification
  <2>4. /\ r.arg[1] = 1 => Function(r, o, n) = nmbs_read_device_identification_basic(r, o)
        /\ r.arg[1] = 2 => Function(r, o, n) = nmbs_read_device_identification_regular(r, o)
        /\ r.arg[1] = 3 => Function(r, o, n) = nmbs_read_device_identification_extended(r, o, n)
        /\ r.arg[1] = 4 => Function(r, o, n) = nmbs_read_device_identification(r, o)
    BY <1>2, FunctionOf, Zenon
  <2> QED BY <2>1, <2>3, <2>4, Zenon
<1>3. CASE ~r.raw /\ r.fc # 43
  <2> DEFINE a == r.arg
  <2>1. /\ Fields(r) \in Bodies /\ r.data \in Bodies /\ a[1] \in uint16_t /\ a[2] \in uint16_t
        /\ r.fc \in {20, 21, 23} => a[3] \in uint16_t
        /\ r.fc = 23 => a[4] \in uint16_t
    BY <1>3, Arguments, Zenon
  <2>2. \A bad \in BOOLEAN : \A pdu, h, fixed, room : \A form \in CountedForms \cup {"echo"} :
          (~bad => pdu \in Bodies) => Sound(Sends(bad, pdu, Res(h, form, fixed, room)), r)
    BY <1>3, SoundOther, Zenon
  <2>3. {"discrete", "registers", "read_file", "write_file", "echo"} \subseteq CountedForms \cup {"echo"}
    BY DEF CountedForms
  <2> DEFINE bad(max) == BadQuantity(a[2], max) \/ BadRange(a[1], a[2])
  <2>4. \A max : bad(max) \in BOOLEAN
    BY DEF BadQuantity, BadRange
  <2>5. CASE r.fc \in {1, 2}
    <3>1. Sound(read_discrete(r), r)
      <4> DEFINE no == bad(2000)
      <4>1. no \in BOOLEAN
        BY <2>4
      <4>2. read_discrete(r) = Sends(no, Fields(r), Res(To(r), "discrete", <<>>, 0))
        BY DEF read_discrete, recv_read_discrete_res
      <4> HIDE DEF no
      <4> QED BY <2>1, <2>2, <2>3, <4>1, <4>2, Zenon
    <3> QED BY <1>3, <2>5, <3>1, FunctionOf, Zenon
  <2>6. CASE r.fc \in {3, 4}
    <3>1. Sound(read_registers(r), r)
      BY <2>1, <2>2, <2>3, <2>4, Zenon DEF read_registers, recv_read_registers_res
    <3> QED BY <1>3, <2>6, <3>1, FunctionOf, Zenon
  <2>7. CASE r.fc = 5
    <3> DEFINE v == IF a[2] = 0 THEN 0 ELSE 65280
               pdu == put_2(a[1]) \o put_2(v)
    <3>1. v \in uint16_t
      BY DEF uint16_t
    <3>2. pdu \in Bodies
      <4> HIDE DEF v
      <4> QED BY <2>1, <3>1, Put2, Appended, Zenon
    <3>3. nmbs_write_single_coil(r) = Sends(FALSE, pdu, Res(To(r), "echo", pdu, 0))
      BY DEF nmbs_write_single_coil, recv_write_single_coil_res
    <3> HIDE DEF pdu
    <3>4. Sound(nmbs_write_single_coil(r), r)
      BY <2>2, <2>3, <3>2, <3>3, Zenon
    <3> QED BY <1>3, <2>7, <3>4, FunctionOf, Zenon
  <2>8. CASE r.fc = 6
    <3>1. Sound(nmbs_write_single_register(r), r)
      BY <2>1, <2>2, <2>3, Zenon DEF nmbs_write_single_register, recv_write_single_register_res
    <3> QED BY <1>3, <2>8, <3>1, FunctionOf, Zenon
  <2>9. ASSUME NEW c, NEW no \in BOOLEAN, ~no => c \in 0 .. 255
        PROVE  ~no => Fields(r) \o << << c >> >> \o r.data \in Bodies
    BY <2>1, <2>9, ByteOf, Short, Appended, Zenon
  <2>10. CASE r.fc = 15
    <3> DEFINE no == bad(1968)
               pdu == Fields(r) \o << << Packed(a[2]) >> >> \o r.data
    <3>1. no \in BOOLEAN /\ (~no => Packed(a[2]) \in 0 .. 255)
      <4>1. a[2] \in Nat
        BY <2>1, Quantity, Zenon
      <4> DEFINE q == a[2]
      <4> HIDE DEF q
      <4>2. ~BadQuantity(q, 1968) => Packed(q) \in 0 .. 255
        BY <4>1 DEF BadQuantity, Packed, q
      <4> QED BY <4>2, <2>4 DEF q
    <3>2. nmbs_write_multiple_coils(r) = Sends(no, pdu, Res(To(r), "echo", Fields(r), 0))
      BY DEF nmbs_write_multiple_coils, recv_write_multiple_coils_res
    <3> HIDE DEF no
    <3>4. ~no => pdu \in Bodies
      BY <2>9, <3>1, Zenon
    <3> HIDE DEF pdu
    <3>3. Sound(nmbs_write_multiple_coils(r), r)
      BY <2>2, <2>3, <3>1, <3>2, <3>4, Zenon
    <3> QED BY <1>3, <2>10, <3>3, FunctionOf, Zenon
  <2>11. CASE r.fc = 16
    <3>1. ~bad(123) => 2 * a[2] \in 0 .. 255
      <4>1. a[2] \in Nat
        BY <2>1, Quantity, Zenon
      <4> DEFINE q == a[2]
      <4> HIDE DEF q
      <4>2. ~BadQuantity(q, 123) => 2 * q \in 0 .. 255
        BY <4>1 DEF BadQuantity, q
      <4> QED BY <4>2 DEF q
    <3>2. ~bad(123) => Fields(r) \o << << 2 * a[2] >> >> \o r.data \in Bodies
      <4> HIDE DEF bad
      <4> QED BY <2>4, <2>9, <3>1, Zenon
    <3>3. Sound(nmbs_write_multiple_registers(r), r)
      BY <2>2, <2>3, <2>4, <3>2, Zenon DEF nmbs_write_multiple_registers, recv_write_multiple_registers_res
    <3> QED BY <1>3, <2>11, <3>3, FunctionOf, Zenon
  <2> DEFINE lost(max) == BadRecord(a[1], a[2], a[3], max)
  <2>12. \A max : lost(max) \in BOOLEAN
    BY DEF BadRecord
  <2>13. CASE r.fc = 20
    <3>1. 7 \in 0 .. 255 /\ 6 \in 0 .. 255
      OBVIOUS
    <3>2. << << 7 >>, << 6 >> >> \o Fields(r) \in Bodies
      BY <2>1, <3>1, ByteOf, Short, Appended, Zenon
    <3>3. Sound(nmbs_read_file_record(r), r)
      BY <2>2, <2>3, <2>12, <3>2, Zenon DEF nmbs_read_file_record, recv_read_file_record_res
    <3> QED BY <1>3, <2>13, <3>3, FunctionOf, Zenon
  <2>14. CASE r.fc = 21
    <3> DEFINE pdu == << << 7 + 2 * a[3] >>, << 6 >> >> \o Fields(r) \o r.data
    <3>1. a[3] \in Nat
      <4>1. r.fc \in {20, 21, 23}
        BY <2>14
      <4> QED BY <2>1, <4>1, Quantity, Zenon
    <3>2. ~lost(122) => 7 + 2 * a[3] \in 0 .. 255
      <4> DEFINE q == a[3]
      <4> HIDE DEF q
      <4>1. ~(q > 122) => 7 + 2 * q \in 0 .. 255
        BY <3>1 DEF q
      <4>2. ~lost(122) => ~(q > 122)
        BY DEF BadRecord, q
      <4> QED BY <4>1, <4>2 DEF q
    <3>3. 6 \in 0 .. 255
      OBVIOUS
    <3>4. ~lost(122) => pdu \in Bodies
      <4> HIDE DEF lost
      <4> QED BY <2>1, <3>2, <3>3, ByteOf, Short, Appended, Zenon
    <3>5. nmbs_write_file_record(r) = Sends(lost(122), pdu, Res(To(r), "write_file", pdu, 0))
      BY Zenon DEF nmbs_write_file_record, recv_write_file_record_res
    <3> HIDE DEF pdu, lost
    <3>6. Sound(nmbs_write_file_record(r), r)
      BY <2>2, <2>3, <2>12, <3>4, <3>5, Zenon
    <3> QED BY <1>3, <2>14, <3>6, FunctionOf, Zenon
  <2>15. CASE r.fc = 23
    <3> DEFINE no == bad(125) \/ BadQuantity(a[4], 121) \/ BadRange(a[3], a[4])
    <3>1. no \in BOOLEAN
      BY DEF BadQuantity, BadRange
    <3>2. ~no => 2 * a[4] \in 0 .. 255
      <4>1. a[4] \in Nat
        BY <2>1, <2>15, Quantity, Zenon
      <4> DEFINE q == a[4]
      <4> HIDE DEF q
      <4>2. ~BadQuantity(q, 121) => 2 * q \in 0 .. 255
        BY <4>1 DEF BadQuantity, q
      <4>3. ~no => ~BadQuantity(q, 121)
        BY Zenon DEF q
      <4> QED BY <4>2, <4>3 DEF q
    <3>3. ~no => Fields(r) \o << << 2 * a[4] >> >> \o r.data \in Bodies
      <4> HIDE DEF no
      <4> QED BY <2>9, <3>1, <3>2, Zenon
    <3>4. nmbs_read_write_registers(r) =
            Sends(no, Fields(r) \o << << 2 * a[4] >> >> \o r.data,
                  Res(To(r), "registers", << << 2 * a[2] >> >>, 0))
      BY Zenon DEF nmbs_read_write_registers, recv_read_registers_res
    <3> HIDE DEF no
    <3>5. Sound(nmbs_read_write_registers(r), r)
      BY <2>2, <2>3, <3>1, <3>3, <3>4, Zenon
    <3> QED BY <1>3, <2>15, <3>5, FunctionOf, Zenon
  <2>16. r.fc \in Functions \ {43}
    BY <1>3, Arguments, Zenon
  <2> QED BY <2>16, <2>5, <2>6, <2>7, <2>8, <2>10, <2>11, <2>13, <2>14, <2>15 DEF Functions
<1> QED BY <1>1, <1>2, <1>3
-----------------------------------------------------------------------------
(* The checks of the handlers.                                             *)

\* FirstFailure is the code of a check, or 0 when all have passed.
LEMMA FirstFailureOf ==
  ASSUME NEW checks, NEW n \in Nat, DOMAIN checks = 1 .. n, \A i \in 1 .. n : checks[i][2] \in 1 .. 4
  PROVE  /\ FirstFailure(checks) \in 0 .. 4
         /\ FirstFailure(checks) = 0 => \A i \in 1 .. n : ~checks[i][1]
<1> DEFINE failed == {i \in DOMAIN checks : checks[i][1]}
<1>1. failed \in SUBSET Nat
  OBVIOUS
<1>2. FirstFailure(checks) = IF failed = {} THEN 0 ELSE checks[Min(failed)][2]
  BY Zenon DEF FirstFailure
<1>3. CASE failed = {}
  <2>1. \A i \in 1 .. n : ~checks[i][1]
    BY <1>3, Zenon
  <2>2. 0 \in 0 .. 4
    OBVIOUS
  <2> QED BY <1>2, <1>3, <2>1, <2>2, Zenon
<1>4. CASE failed # {}
  <2>1. Min(failed) \in failed
    BY <1>1, <1>4, MinIn, Zenon
  <2>2. checks[Min(failed)][2] \in 1 .. 4
    BY <2>1, Zenon
  <2> DEFINE k == checks[Min(failed)][2]
  <2> HIDE DEF k
  <2>3. k \in 0 .. 4 /\ k # 0
    BY <2>2 DEF k
  <2> QED BY <1>2, <1>4, <2>3, Zenon DEF k
<1> QED BY <1>3, <1>4

\* One check.
LEMMA OneCheck ==
  ASSUME NEW a1,
         NEW k1 \in 1 .. 4
  PROVE  /\ FirstFailure(<< << a1, k1 >> >>) \in 0 .. 4
         /\ FirstFailure(<< << a1, k1 >> >>) = 0 => ~a1
<1> DEFINE c == << << a1, k1 >> >>
<1>1. DOMAIN c = 1 .. 1
  OBVIOUS
<1>2. \A i \in 1 .. 1 : i = 1
  OBVIOUS
<1>3. c[1][2] = k1
  BY Zenon
<1>4. c[1][1] = a1
  BY Zenon
<1>5. 1 \in Nat /\ 1 \in 1 .. 1
  OBVIOUS
<1> HIDE DEF c
<1>6. \A i \in 1 .. 1 : c[i][2] \in 1 .. 4
  BY <1>2, <1>3, Zenon
<1>7. FirstFailure(c) \in 0 .. 4 /\ (FirstFailure(c) = 0 => \A i \in 1 .. 1 : ~c[i][1])
  BY <1>1, <1>5, <1>6, FirstFailureOf, Zenon
<1>8. FirstFailure(c) \in 0 .. 4 /\ (FirstFailure(c) = 0 => ~a1)
  BY <1>4, <1>5, <1>7, Zenon
<1> QED BY <1>8, Zenon DEF c

\* Two checks.
LEMMA TwoChecks ==
  ASSUME NEW a1, NEW a2,
         NEW k1 \in 1 .. 4, NEW k2 \in 1 .. 4
  PROVE  /\ FirstFailure(<< << a1, k1 >>, << a2, k2 >> >>) \in 0 .. 4
         /\ FirstFailure(<< << a1, k1 >>, << a2, k2 >> >>) = 0 => ~a1 /\ ~a2
<1> DEFINE c == << << a1, k1 >>, << a2, k2 >> >>
<1>1. DOMAIN c = 1 .. 2
  OBVIOUS
<1>2. \A i \in 1 .. 2 : i = 1 \/ i = 2
  OBVIOUS
<1>3. c[1][2] = k1 /\ c[2][2] = k2
  BY Zenon
<1>4. c[1][1] = a1 /\ c[2][1] = a2
  BY Zenon
<1>5. 2 \in Nat /\ 1 \in 1 .. 2 /\ 2 \in 1 .. 2
  OBVIOUS
<1> HIDE DEF c
<1>6. \A i \in 1 .. 2 : c[i][2] \in 1 .. 4
  BY <1>2, <1>3, Zenon
<1>7. FirstFailure(c) \in 0 .. 4 /\ (FirstFailure(c) = 0 => \A i \in 1 .. 2 : ~c[i][1])
  BY <1>1, <1>5, <1>6, FirstFailureOf, Zenon
<1>8. FirstFailure(c) \in 0 .. 4 /\ (FirstFailure(c) = 0 => ~a1 /\ ~a2)
  BY <1>4, <1>5, <1>7, Zenon
<1> QED BY <1>8, Zenon DEF c

\* Three checks.
LEMMA ThreeChecks ==
  ASSUME NEW a1, NEW a2, NEW a3,
         NEW k1 \in 1 .. 4, NEW k2 \in 1 .. 4, NEW k3 \in 1 .. 4
  PROVE  /\ FirstFailure(<< << a1, k1 >>, << a2, k2 >>, << a3, k3 >> >>) \in 0 .. 4
         /\ FirstFailure(<< << a1, k1 >>, << a2, k2 >>, << a3, k3 >> >>) = 0 => ~a1 /\ ~a2 /\ ~a3
<1> DEFINE c == << << a1, k1 >>, << a2, k2 >>, << a3, k3 >> >>
<1>1. DOMAIN c = 1 .. 3
  OBVIOUS
<1>2. \A i \in 1 .. 3 : i = 1 \/ i = 2 \/ i = 3
  OBVIOUS
<1>3. c[1][2] = k1 /\ c[2][2] = k2 /\ c[3][2] = k3
  BY Zenon
<1>4. c[1][1] = a1 /\ c[2][1] = a2 /\ c[3][1] = a3
  BY Zenon
<1>5. 3 \in Nat /\ 1 \in 1 .. 3 /\ 2 \in 1 .. 3 /\ 3 \in 1 .. 3
  OBVIOUS
<1> HIDE DEF c
<1>6. \A i \in 1 .. 3 : c[i][2] \in 1 .. 4
  BY <1>2, <1>3, Zenon
<1>7. FirstFailure(c) \in 0 .. 4 /\ (FirstFailure(c) = 0 => \A i \in 1 .. 3 : ~c[i][1])
  BY <1>1, <1>5, <1>6, FirstFailureOf, Zenon
<1>8. FirstFailure(c) \in 0 .. 4 /\ (FirstFailure(c) = 0 => ~a1 /\ ~a2 /\ ~a3)
  BY <1>4, <1>5, <1>7, Zenon
<1> QED BY <1>8, Zenon DEF c

\* Four checks.
LEMMA FourChecks ==
  ASSUME NEW a1, NEW a2, NEW a3, NEW a4,
         NEW k1 \in 1 .. 4, NEW k2 \in 1 .. 4, NEW k3 \in 1 .. 4, NEW k4 \in 1 .. 4
  PROVE  /\ FirstFailure(<< << a1, k1 >>, << a2, k2 >>, << a3, k3 >>, << a4, k4 >> >>) \in 0 .. 4
         /\ FirstFailure(<< << a1, k1 >>, << a2, k2 >>, << a3, k3 >>, << a4, k4 >> >>) = 0 => ~a1 /\ ~a2 /\ ~a3 /\ ~a4
<1> DEFINE c == << << a1, k1 >>, << a2, k2 >>, << a3, k3 >>, << a4, k4 >> >>
<1>1. DOMAIN c = 1 .. 4
  OBVIOUS
<1>2. \A i \in 1 .. 4 : i = 1 \/ i = 2 \/ i = 3 \/ i = 4
  OBVIOUS
<1>3. c[1][2] = k1 /\ c[2][2] = k2 /\ c[3][2] = k3 /\ c[4][2] = k4
  BY Zenon
<1>4. c[1][1] = a1 /\ c[2][1] = a2 /\ c[3][1] = a3 /\ c[4][1] = a4
  BY Zenon
<1>5. 4 \in Nat /\ 1 \in 1 .. 4 /\ 2 \in 1 .. 4 /\ 3 \in 1 .. 4 /\ 4 \in 1 .. 4
  OBVIOUS
<1> HIDE DEF c
<1>6. \A i \in 1 .. 4 : c[i][2] \in 1 .. 4
  BY <1>2, <1>3, Zenon
<1>7. FirstFailure(c) \in 0 .. 4 /\ (FirstFailure(c) = 0 => \A i \in 1 .. 4 : ~c[i][1])
  BY <1>1, <1>5, <1>6, FirstFailureOf, Zenon
<1>8. FirstFailure(c) \in 0 .. 4 /\ (FirstFailure(c) = 0 => ~a1 /\ ~a2 /\ ~a3 /\ ~a4)
  BY <1>4, <1>5, <1>7, Zenon
<1> QED BY <1>8, Zenon DEF c

\* Five checks.
LEMMA FiveChecks ==
  ASSUME NEW a1, NEW a2, NEW a3, NEW a4, NEW a5,
         NEW k1 \in 1 .. 4, NEW k2 \in 1 .. 4, NEW k3 \in 1 .. 4, NEW k4 \in 1 .. 4, NEW k5 \in 1 .. 4
  PROVE  /\ FirstFailure(<< << a1, k1 >>, << a2, k2 >>, << a3, k3 >>, << a4, k4 >>, << a5, k5 >> >>) \in 0 .. 4
         /\ FirstFailure(<< << a1, k1 >>, << a2, k2 >>, << a3, k3 >>, << a4, k4 >>, << a5, k5 >> >>) = 0 => ~a1 /\ ~a2 /\ ~a3 /\ ~a4 /\ ~a5
<1> DEFINE c == << << a1, k1 >>, << a2, k2 >>, << a3, k3 >>, << a4, k4 >>, << a5, k5 >> >>
<1>1. DOMAIN c = 1 .. 5
  OBVIOUS
<1>2. \A i \in 1 .. 5 : i = 1 \/ i = 2 \/ i = 3 \/ i = 4 \/ i = 5
  OBVIOUS
<1>3. c[1][2] = k1 /\ c[2][2] = k2 /\ c[3][2] = k3 /\ c[4][2] = k4 /\ c[5][2] = k5
  BY Zenon
<1>4. c[1][1] = a1 /\ c[2][1] = a2 /\ c[3][1] = a3 /\ c[4][1] = a4 /\ c[5][1] = a5
  BY Zenon
<1>5. 5 \in Nat /\ 1 \in 1 .. 5 /\ 2 \in 1 .. 5 /\ 3 \in 1 .. 5 /\ 4 \in 1 .. 5 /\ 5 \in 1 .. 5
  OBVIOUS
<1> HIDE DEF c
<1>6. \A i \in 1 .. 5 : c[i][2] \in 1 .. 4
  BY <1>2, <1>3, Zenon
<1>7. FirstFailure(c) \in 0 .. 4 /\ (FirstFailure(c) = 0 => \A i \in 1 .. 5 : ~c[i][1])
  BY <1>1, <1>5, <1>6, FirstFailureOf, Zenon
<1>8. FirstFailure(c) \in 0 .. 4 /\ (FirstFailure(c) = 0 => ~a1 /\ ~a2 /\ ~a3 /\ ~a4 /\ ~a5)
  BY <1>4, <1>5, <1>7, Zenon
<1> QED BY <1>8, Zenon DEF c

\* Seven checks.
LEMMA SevenChecks ==
  ASSUME NEW a1, NEW a2, NEW a3, NEW a4, NEW a5, NEW a6, NEW a7,
         NEW k1 \in 1 .. 4, NEW k2 \in 1 .. 4, NEW k3 \in 1 .. 4, NEW k4 \in 1 .. 4, NEW k5 \in 1 .. 4, NEW k6 \in 1 .. 4, NEW k7 \in 1 .. 4
  PROVE  /\ FirstFailure(<< << a1, k1 >>, << a2, k2 >>, << a3, k3 >>, << a4, k4 >>, << a5, k5 >>, << a6, k6 >>, << a7, k7 >> >>) \in 0 .. 4
         /\ FirstFailure(<< << a1, k1 >>, << a2, k2 >>, << a3, k3 >>, << a4, k4 >>, << a5, k5 >>, << a6, k6 >>, << a7, k7 >> >>) = 0 => ~a1 /\ ~a2 /\ ~a3 /\ ~a4 /\ ~a5 /\ ~a6 /\ ~a7
<1> DEFINE c == << << a1, k1 >>, << a2, k2 >>, << a3, k3 >>, << a4, k4 >>, << a5, k5 >>, << a6, k6 >>, << a7, k7 >> >>
<1>1. DOMAIN c = 1 .. 7
  OBVIOUS
<1>2. \A i \in 1 .. 7 : i = 1 \/ i = 2 \/ i = 3 \/ i = 4 \/ i = 5 \/ i = 6 \/ i = 7
  OBVIOUS
<1>3. c[1][2] = k1 /\ c[2][2] = k2 /\ c[3][2] = k3 /\ c[4][2] = k4 /\ c[5][2] = k5 /\ c[6][2] = k6 /\ c[7][2] = k7
  BY Zenon
<1>4. c[1][1] = a1 /\ c[2][1] = a2 /\ c[3][1] = a3 /\ c[4][1] = a4 /\ c[5][1] = a5 /\ c[6][1] = a6 /\ c[7][1] = a7
  BY Zenon
<1>5. 7 \in Nat /\ 1 \in 1 .. 7 /\ 2 \in 1 .. 7 /\ 3 \in 1 .. 7 /\ 4 \in 1 .. 7 /\ 5 \in 1 .. 7 /\ 6 \in 1 .. 7 /\ 7 \in 1 .. 7
  OBVIOUS
<1> HIDE DEF c
<1>6. \A i \in 1 .. 7 : c[i][2] \in 1 .. 4
  BY <1>2, <1>3, Zenon
<1>7. FirstFailure(c) \in 0 .. 4 /\ (FirstFailure(c) = 0 => \A i \in 1 .. 7 : ~c[i][1])
  BY <1>1, <1>5, <1>6, FirstFailureOf, Zenon
<1>8. FirstFailure(c) \in 0 .. 4 /\ (FirstFailure(c) = 0 => ~a1 /\ ~a2 /\ ~a3 /\ ~a4 /\ ~a5 /\ ~a6 /\ ~a7)
  BY <1>4, <1>5, <1>7, Zenon
<1> QED BY <1>8, Zenon DEF c
-----------------------------------------------------------------------------
(* What the handlers answer.                                               *)

\* A complete request.
Request(b) ==
  /\ b \in Seq(WireByte) /\ Code(b) \in Functions /\ Len(b) = RequestEnd(b) + 2
  /\ Len(b) >= 4 + FixedPart(Code(b)) /\ Body(b) \in Bodies

\* The bytes before the checksum are data.
LEMMA BodyBytes ==
  ASSUME NEW b \in Seq(WireByte), Len(b) >= 2, Body(b) \in Bodies
  PROVE  /\ \A i \in 1 .. Len(b) - 2 : b[i] \in DataByte
         /\ \A j, k \in Nat : 1 <= j /\ j <= k + 1 /\ k <= Len(b) - 2 => SubSeq(b, j, k) \in Bodies
<1> DEFINE n == Len(b) - 2
<1>0. n \in Nat /\ n <= Len(b)
  OBVIOUS
<1>1. Len(Body(b)) = n /\ \A i \in 1 .. n : Body(b)[i] = b[i]
  <2>1. Body(b) = SubSeq(b, 1, n)
    BY DEF Body
  <2>2. 1 \in Nat /\ 1 <= 1 /\ 1 <= n + 1 /\ n - 1 + 1 = n /\ \A i \in 1 .. n : 1 + i - 1 = i
    BY <1>0
  <2> HIDE DEF n
  <2>3. /\ Len(SubSeq(b, 1, n)) = n - 1 + 1
        /\ \A i \in 1 .. n - 1 + 1 : SubSeq(b, 1, n)[i] = b[1 + i - 1]
    BY <1>0, <2>2, Piece, Zenon
  <2> QED BY <2>1, <2>2, <2>3
<1>2. \A i \in 1 .. n : b[i] \in DataByte
  <2> TAKE i \in 1 .. n
  <2>1. Body(b)[i] \in DataByte
    BY <1>1 DEF Bodies
  <2> QED BY <1>1, <2>1
<1>3. ASSUME NEW j \in Nat, NEW k \in Nat, 1 <= j, j <= k + 1, k <= n
      PROVE  SubSeq(b, j, k) \in Bodies
  <2> DEFINE s == SubSeq(b, j, k)
             l == k - j + 1
  <2>1. k <= Len(b)
    BY <1>0, <1>3
  <2>2. s \in Seq(WireByte) /\ Len(s) = l /\ \A i \in 1 .. l : s[i] = b[j + i - 1]
    BY <1>3, <2>1, Piece
  <2>3. \A i \in 1 .. l : j + i - 1 \in 1 .. n
    BY <1>0, <1>3
  <2>4. \A i \in 1 .. l : s[i] \in DataByte
    BY <1>2, <2>2, <2>3, Zenon
  <2>5. l \in Nat
    BY <1>3
  <2>6. s = [i \in 1 .. l |-> s[i]]
    <3> HIDE DEF s, l
    <3>1. DOMAIN s = 1 .. l
      BY <2>2, <2>5
    <3> QED BY <2>2, <3>1
  <2> HIDE DEF s, l
  <2>7. s \in Bodies
    BY <2>4, <2>5, <2>6 DEF Bodies
  <2> QED BY <2>7 DEF s
<1> QED BY <1>2, <1>3

\* A field is a number of 16 bits.
LEMMA FieldNat == \A x, y \in WireByte : 256 * num(x) + num(y) \in Nat
<1> SUFFICES ASSUME NEW x \in WireByte, NEW y \in WireByte PROVE 256 * num(x) + num(y) \in Nat
  OBVIOUS
<1> DEFINE u == num(x)
           v == num(y)
<1>1. u \in 0 .. 255 /\ v \in 0 .. 255
  BY NumIn
<1> HIDE DEF u, v
<1>2. 256 * u + v \in Nat
  BY <1>1
<1> QED BY <1>2 DEF u, v

\* The parts of a handler's result.
LEMMA HandlerOf ==
  ASSUME NEW refusal, NEW answer, NEW overheard
  PROVE  /\ Handler(refusal, answer, overheard).refusal = refusal
         /\ Handler(refusal, answer, overheard).answer = IF refusal = 0 THEN answer ELSE <<>>
         /\ Handler(refusal, answer, overheard).overheard = overheard
BY DEF Handler

\* What is sound about a handler's result.
Answers(h) == h.refusal \in 0 .. 4 /\ h.answer \in Bodies /\ Expected(h.overheard) /\ h.overheard.form # "raw"

\* A result is sound if its answer is data whenever the checks pass.
LEMMA AnswersOf ==
  ASSUME NEW refusal \in 0 .. 4, NEW answer, refusal = 0 => answer \in Bodies,
         NEW h, NEW form \in CountedForms \cup {"echo", "objects"}, NEW fixed, NEW room
  PROVE  Answers(Handler(refusal, answer, Res(h, form, fixed, room)))
<1> DEFINE f == Handler(refusal, answer, Res(h, form, fixed, room))
<1>1. f.refusal = refusal /\ f.answer = (IF refusal = 0 THEN answer ELSE <<>>)
  BY HandlerOf
<1>2. f.overheard.form = form
  BY DEF Handler, Res
<1>3. form # "raw"
  BY DEF CountedForms
<1>4. <<>> \in Bodies
  BY DEF Bodies
<1> HIDE DEF f
<1>5. f.answer \in Bodies
  BY <1>1, <1>4, Zenon
<1>6. Answers(f)
  BY <1>1, <1>2, <1>3, <1>5, Zenon DEF Answers, Expected
<1> QED BY <1>6 DEF f

\* Data of n bytes.
LEMMA DataType == \A n \in 0 .. 255 : Data(n, Value) \in Bodies
<1> SUFFICES ASSUME NEW n \in 0 .. 255 PROVE Data(n, Value) \in Bodies
  OBVIOUS
<1>1. << << n >> >> \in Bodies
  BY ByteOf, Short, Zenon
<1>2. [i \in 1 .. n |-> Value] \in Bodies
  BY BusAssumption DEF Bodies
<1> QED BY <1>1, <1>2, Appended, Zenon DEF Data

\* The bytes a handler looks at.
LEMMA RequestBytes ==
  ASSUME NEW b, Request(b)
  PROVE  /\ b[1] \in DataByte /\ b[2] \in DataByte
         /\ Code(b) \notin {20, 21, 43} => SubSeq(b, 3, 6) \in Bodies /\ Field(b, 2) \in Nat
         /\ Code(b) = 43 => b[4] \in DataByte /\ b[5] \in DataByte
<1>1. /\ b \in Seq(WireByte) /\ Code(b) \in Functions /\ Len(b) >= 4 + FixedPart(Code(b))
      /\ Body(b) \in Bodies /\ FixedPart(Code(b)) \in 1 .. 9
  BY Sizes DEF Request
<1>2. Len(b) \in Nat /\ Len(b) >= 5
  BY <1>1
<1>3. /\ \A i \in 1 .. Len(b) - 2 : b[i] \in DataByte
      /\ \A j, k \in Nat : 1 <= j /\ j <= k + 1 /\ k <= Len(b) - 2 => SubSeq(b, j, k) \in Bodies
  BY <1>1, <1>2, BodyBytes
<1>4. b[1] \in DataByte /\ b[2] \in DataByte
  BY <1>2, <1>3
<1>5. ASSUME Code(b) \notin {20, 21, 43}
      PROVE  SubSeq(b, 3, 6) \in Bodies /\ Field(b, 2) \in Nat
  <2>1. FixedPart(Code(b)) >= 4
    <3>1. Code(b) \in 1 .. 6 \/ Code(b) \in {15, 16} \/ Code(b) = 23
      BY <1>1, <1>5 DEF Functions
    <3>2. CASE Code(b) \in 1 .. 6
      <4>1. Code(b) \notin {15, 16} /\ Code(b) \notin {20, 21} /\ Code(b) # 23 /\ Code(b) # 43
        BY <3>2
      <4>2. FixedPart(Code(b)) = 4
        BY <3>2, <4>1, Zenon DEF FixedPart
      <4> QED BY <4>2
    <3>3. CASE Code(b) \in {15, 16} \/ Code(b) = 23
      BY <1>1, <3>3, Sizes
    <3> QED BY <3>1, <3>2, <3>3
  <2>2. 6 <= Len(b) - 2
    BY <1>1, <1>2, <2>1
  <2>3. b[5] \in DataByte /\ b[6] \in DataByte
    BY <1>2, <1>3, <2>2
  <2>4. Field(b, 2) = 256 * num(b[5]) + num(b[6])
    BY DEF Field, get_2
  <2>5. SubSeq(b, 3, 6) \in Bodies
    BY <1>3, <2>2
  <2> QED BY <2>3, <2>4, <2>5, FieldNat DEF WireByte
<1>6. ASSUME Code(b) = 43 PROVE b[4] \in DataByte /\ b[5] \in DataByte
  <2>1. FixedPart(Code(b)) = 3
    BY <1>6 DEF FixedPart
  <2>2. 5 <= Len(b) - 2
    BY <1>1, <1>2, <2>1
  <2> QED BY <1>2, <1>3, <2>2
<1> QED BY <1>4, <1>5, <1>6

\* Reading coils and inputs.
LEMMA AnswerDiscrete ==
  ASSUME NEW b, Request(b), Code(b) \in {1, 2}
  PROVE  Answers(handle_read_discrete(b, Value))
<1>1. Field(b, 2) \in Nat
  <2>1. Code(b) \notin {20, 21, 43}
    OBVIOUS
  <2> QED BY <2>1, RequestBytes
<1> DEFINE q == Field(b, 2)
           a1 == BadQuantity(q, 2000)
           a2 == BadRange(Field(b, 1), q)
           a3 == Code(b) \notin Callbacks
           e == FirstFailure(<< << a1, 3 >>, << a2, 2 >>, << a3, 1 >> >>)
           d == Data(Packed(q), Value)
<1>2. handle_read_discrete(b, Value) = Handler(e, d, Res(From(b), "discrete", <<>>, 0))
  BY DEF handle_read_discrete, NoCallback, recv_read_discrete_res
<1>3. 1 \in 1 .. 4 /\ 2 \in 1 .. 4 /\ 3 \in 1 .. 4
  OBVIOUS
<1>4. ~a1 => Packed(q) \in 0 .. 255
  <2> HIDE DEF q
  <2> QED BY <1>1 DEF BadQuantity, Packed, q
<1>5. ~a1 => d \in Bodies
  <2> HIDE DEF a1, q
  <2> QED BY <1>4, DataType, Zenon
<1> HIDE DEF a1, a2, a3, d
<1>6. e \in 0 .. 4 /\ (e = 0 => ~a1)
  BY <1>3, ThreeChecks, Zenon
<1> HIDE DEF e
<1>7. "discrete" \in CountedForms \cup {"echo", "objects"}
  BY DEF CountedForms
<1> QED BY <1>2, <1>5, <1>6, <1>7, AnswersOf, Zenon

\* Reading registers.
LEMMA AnswerRegisters ==
  ASSUME NEW b, Request(b), Code(b) \in {3, 4}
  PROVE  Answers(handle_read_registers(b, Value))
<1>1. Field(b, 2) \in Nat
  <2>1. Code(b) \notin {20, 21, 43}
    OBVIOUS
  <2> QED BY <2>1, RequestBytes
<1> DEFINE q == Field(b, 2)
           a1 == BadQuantity(q, 125)
           a2 == BadRange(Field(b, 1), q)
           a3 == Code(b) \notin Callbacks
           e == FirstFailure(<< << a1, 3 >>, << a2, 2 >>, << a3, 1 >> >>)
           d == Data(2 * q, Value)
<1>2. handle_read_registers(b, Value) = Handler(e, d, Res(From(b), "registers", << << 2 * q >> >>, 0))
  BY DEF handle_read_registers, NoCallback, recv_read_registers_res
<1>3. 1 \in 1 .. 4 /\ 2 \in 1 .. 4 /\ 3 \in 1 .. 4
  OBVIOUS
<1>4. ~a1 => 2 * q \in 0 .. 255
  <2> HIDE DEF q
  <2> QED BY <1>1 DEF BadQuantity, q
<1>5. ~a1 => d \in Bodies
  <2> HIDE DEF a1, q
  <2> QED BY <1>4, DataType, Zenon
<1> HIDE DEF a1, a2, a3, d
<1>6. e \in 0 .. 4 /\ (e = 0 => ~a1)
  BY <1>3, ThreeChecks, Zenon
<1> HIDE DEF e
<1>7. "registers" \in CountedForms \cup {"echo", "objects"}
  BY DEF CountedForms
<1> QED BY <1>2, <1>5, <1>6, <1>7, AnswersOf, Zenon

\* Writing: the answer repeats four bytes of the request.
LEMMA AnswerWrites ==
  ASSUME NEW b, Request(b), Code(b) \in {5, 6, 15, 16}
  PROVE  /\ Answers(handle_write_single_coil(b)) /\ Answers(handle_write_single_register(b))
         /\ Answers(handle_write_multiple_coils(b)) /\ Answers(handle_write_multiple_registers(b))
<1>1. SubSeq(b, 3, 6) \in Bodies
  <2>1. Code(b) \notin {20, 21, 43}
    OBVIOUS
  <2> QED BY <2>1, RequestBytes
<1>2. "echo" \in CountedForms \cup {"echo", "objects"}
  OBVIOUS
<1>3. ASSUME NEW e \in 0 .. 4 PROVE Answers(Handler(e, SubSeq(b, 3, 6), Res(From(b), "echo", SubSeq(b, 3, 6), 0)))
  BY <1>1, <1>2, AnswersOf, Zenon
<1>4. 1 \in 1 .. 4 /\ 2 \in 1 .. 4 /\ 3 \in 1 .. 4
  OBVIOUS
<1>5. Answers(handle_write_single_coil(b))
  <2> DEFINE a1 == 5 \notin Callbacks
             a2 == Field(b, 2) \notin {0, 65280}
             e == FirstFailure(<< << a1, 1 >>, << a2, 3 >> >>)
  <2>1. handle_write_single_coil(b) = Handler(e, SubSeq(b, 3, 6), Res(From(b), "echo", SubSeq(b, 3, 6), 0))
    BY DEF handle_write_single_coil, NoCallback, recv_write_single_coil_res
  <2> HIDE DEF a1, a2
  <2>2. e \in 0 .. 4
    BY <1>4, TwoChecks, Zenon
  <2> HIDE DEF e
  <2> QED BY <1>3, <2>1, <2>2, Zenon
<1>6. Answers(handle_write_single_register(b))
  <2> DEFINE a1 == 6 \notin Callbacks
             e == FirstFailure(<< << a1, 1 >> >>)
  <2>1. handle_write_single_register(b) = Handler(e, SubSeq(b, 3, 6), Res(From(b), "echo", SubSeq(b, 3, 6), 0))
    BY DEF handle_write_single_register, NoCallback, recv_write_single_register_res
  <2> HIDE DEF a1
  <2>2. e \in 0 .. 4
    BY <1>4, OneCheck, Zenon
  <2> HIDE DEF e
  <2> QED BY <1>3, <2>1, <2>2, Zenon
<1>7. Answers(handle_write_multiple_coils(b))
  <2> DEFINE a1 == BadQuantity(Field(b, 2), 1968)
             a2 == BadRange(Field(b, 1), Field(b, 2))
             a3 == ByteCount(b) # Packed(Field(b, 2))
             a4 == 15 \notin Callbacks
             e == FirstFailure(<< << a1, 3 >>, << a2, 2 >>, << a3, 3 >>, << a4, 1 >> >>)
  <2>1. handle_write_multiple_coils(b) = Handler(e, SubSeq(b, 3, 6), Res(From(b), "echo", SubSeq(b, 3, 6), 0))
    BY DEF handle_write_multiple_coils, NoCallback, recv_write_multiple_coils_res
  <2> HIDE DEF a1, a2, a3, a4
  <2>2. e \in 0 .. 4
    BY <1>4, FourChecks, Zenon
  <2> HIDE DEF e
  <2> QED BY <1>3, <2>1, <2>2, Zenon
<1>8. Answers(handle_write_multiple_registers(b))
  <2> DEFINE a1 == BadQuantity(Field(b, 2), 123)
             a2 == BadRange(Field(b, 1), Field(b, 2))
             a3 == ByteCount(b) # 2 * Field(b, 2)
             a4 == 16 \notin Callbacks
             e == FirstFailure(<< << a1, 3 >>, << a2, 2 >>, << a3, 3 >>, << a4, 1 >> >>)
  <2>1. handle_write_multiple_registers(b) = Handler(e, SubSeq(b, 3, 6), Res(From(b), "echo", SubSeq(b, 3, 6), 0))
    BY DEF handle_write_multiple_registers, NoCallback, recv_write_multiple_registers_res
  <2> HIDE DEF a1, a2, a3, a4
  <2>2. e \in 0 .. 4
    BY <1>4, FourChecks, Zenon
  <2> HIDE DEF e
  <2> QED BY <1>3, <2>1, <2>2, Zenon
<1> QED BY <1>5, <1>6, <1>7, <1>8

\* Writing and reading at once.
LEMMA AnswerReadWrite ==
  ASSUME NEW b, Request(b), Code(b) = 23
  PROVE  Answers(handle_read_write_registers(b, Value))
<1>1. Field(b, 2) \in Nat
  <2>1. Code(b) \notin {20, 21, 43}
    OBVIOUS
  <2> QED BY <2>1, RequestBytes
<1> DEFINE q == Field(b, 2)
           a1 == BadQuantity(q, 125)
           a2 == BadQuantity(Field(b, 4), 123)
           a3 == ByteCount(b) # 2 * Field(b, 4)
           a4 == BadRange(Field(b, 1), q)
           a5 == BadRange(Field(b, 3), Field(b, 4))
           a6 == 16 \notin Callbacks
           a7 == 3 \notin Callbacks
           e == FirstFailure(<< << a1, 3 >>, << a2, 3 >>, << a3, 3 >>, << a4, 2 >>, << a5, 2 >>, << a6, 1 >>, << a7, 1 >> >>)
           d == Data(2 * q, Value)
<1>2. handle_read_write_registers(b, Value) = Handler(e, d, Res(From(b), "echo", SubSeq(b, 7, 10), 0))
  BY DEF handle_read_write_registers, NoCallback, recv_write_multiple_registers_res
<1>3. 1 \in 1 .. 4 /\ 2 \in 1 .. 4 /\ 3 \in 1 .. 4
  OBVIOUS
<1>4. ~a1 => 2 * q \in 0 .. 255
  <2> HIDE DEF q
  <2> QED BY <1>1 DEF BadQuantity, q
<1>5. ~a1 => d \in Bodies
  <2> HIDE DEF a1, q
  <2> QED BY <1>4, DataType, Zenon
<1> HIDE DEF a1, a2, a3, a4, a5, a6, a7, d
<1>6. e \in 0 .. 4 /\ (e = 0 => ~a1)
  BY <1>3, SevenChecks, Zenon
<1> HIDE DEF e
<1>7. "echo" \in CountedForms \cup {"echo", "objects"}
  OBVIOUS
<1> QED BY <1>2, <1>5, <1>6, <1>7, AnswersOf, Zenon

\* Where a request for file records ends.
LEMMA FileRequest ==
  ASSUME NEW b, Request(b), Code(b) \in {20, 21}
  PROVE  /\ b \in Seq(WireByte) /\ ByteCount(b) \in 0 .. 255 /\ Len(b) = 5 + ByteCount(b)
         /\ SubSeq(b, 3, 3 + ByteCount(b)) \in Bodies
<1>1. /\ b \in Seq(WireByte) /\ Len(b) = RequestEnd(b) + 2 /\ Len(b) >= 4 + FixedPart(Code(b))
      /\ Code(b) \in Functions /\ Body(b) \in Bodies
  BY DEF Request
<1>2. FixedPart(Code(b)) = 1 /\ Code(b) \in Counted
  BY <1>1, Sizes DEF Counted
<1>3. Len(b) >= 2 + FixedPart(Code(b)) /\ Len(b) >= 2
  BY <1>1, <1>2
<1>4. ByteCount(b) \in 0 .. 255
  BY <1>1, <1>3, RequestEndType
<1>5. RequestEnd(b) = 3 + ByteCount(b)
  BY <1>2 DEF RequestEnd
<1> DEFINE n == ByteCount(b)
           l == Len(b)
<1>6. l = 5 + n
  <2> DEFINE e == RequestEnd(b)
  <2>1. l = e + 2 /\ e = 3 + n /\ n \in 0 .. 255
    BY <1>1, <1>4, <1>5, Zenon
  <2> HIDE DEF l, n, e
  <2> QED BY <2>1
<1>7. SubSeq(b, 3, 3 + n) \in Bodies
  <2>1. 3 \in Nat /\ 3 + n \in Nat /\ 1 <= 3 /\ 3 <= (3 + n) + 1 /\ 3 + n <= l - 2
    <3>1. n \in 0 .. 255
      BY <1>4
    <3> HIDE DEF n, l
    <3> QED BY <1>6, <3>1
  <2>2. \A j, k \in Nat : 1 <= j /\ j <= k + 1 /\ k <= l - 2 => SubSeq(b, j, k) \in Bodies
    BY <1>1, <1>3, BodyBytes
  <2> QED BY <2>1, <2>2, Zenon
<1> QED BY <1>1, <1>4, <1>6, <1>7

\* Writing file records: the request is repeated.
LEMMA AnswerWriteFile ==
  ASSUME NEW b, Request(b), Code(b) = 21
  PROVE  Answers(handle_write_file_record(b))
<1> DEFINE a1 == WriteRecordFailure(b) = 3
           a2 == WriteRecordFailure(b) = 2
           a3 == 21 \notin Callbacks
           e == FirstFailure(<< << a1, 3 >>, << a2, 2 >>, << a3, 1 >> >>)
           d == SubSeq(b, 3, 3 + ByteCount(b))
<1>1. handle_write_file_record(b) = Handler(e, d, Res(From(b), "write_file", <<>>, 0))
  BY Zenon DEF handle_write_file_record, NoCallback, recv_write_file_record_res
<1>2. 1 \in 1 .. 4 /\ 2 \in 1 .. 4 /\ 3 \in 1 .. 4
  OBVIOUS
<1>3. d \in Bodies
  BY FileRequest
<1> HIDE DEF a1, a2, a3, d
<1>4. e \in 0 .. 4
  BY <1>2, ThreeChecks, Zenon
<1> HIDE DEF e
<1>5. "write_file" \in CountedForms \cup {"echo", "objects"}
  BY DEF CountedForms
<1> QED BY <1>1, <1>3, <1>4, <1>5, AnswersOf, Zenon

\* The length of a record that a request asks for.
LEMMA RecordLength ==
  ASSUME NEW b, Request(b), Code(b) = 20, NEW i \in 1 .. ByteCount(b) \div 7
  PROVE  get_2(b, (7 * i - 3) + 5) \in Nat
<1> DEFINE n == ByteCount(b)
           l == Len(b)
           j == (7 * i - 3) + 5
<1>1. b \in Seq(WireByte) /\ n \in 0 .. 255 /\ l = 5 + n
  BY FileRequest, Zenon
<1>2. j \in 1 .. l /\ j + 1 \in 1 .. l
  <2>1. i \in 1 .. n \div 7
    OBVIOUS
  <2> HIDE DEF n, l
  <2> QED BY <1>1, <2>1
<1>3. b[j] \in WireByte /\ b[j + 1] \in WireByte
  <2> HIDE DEF j
  <2> QED BY <1>1, <1>2
<1> HIDE DEF j
<1>4. get_2(b, j) \in Nat
  BY <1>3, FieldNat, Zenon DEF get_2
<1> QED BY <1>4 DEF j

\* Reading file records.
LEMMA AnswerReadFile ==
  ASSUME NEW b, Request(b), Code(b) = 20
  PROVE  Answers(handle_read_file_record(b, Value))
<1> DEFINE n == ByteCount(b) \div 7
           start(i) == 7 * i - 3
           length(i) == get_2(b, start(i) + 5)
           size(i) == 2 * length(i)
           Record(i) == << << size(i) + 1 >>, << 6 >> >> \o [k \in 1 .. size(i) |-> Value]
           records == [i \in 1 .. n |-> Record(i)]
           all == FlattenSeq(records)
           a1 == ByteCount(b) % 7 # 0 \/ ByteCount(b) < 7
           a2 == \E i \in 1 .. n : BadSubRequest(b, start(i), 124)
           a3 == 20 \notin Callbacks
           e == FirstFailure(<< << a1, 3 >>, << a2, 2 >>, << a3, 1 >> >>)
           d == << << Len(all) % 256 >> >> \o all
<1>1. handle_read_file_record(b, Value) = Handler(e, d, Res(From(b), "read_file", <<>>, -1))
  BY Zenon DEF handle_read_file_record, NoCallback, recv_read_file_record_res
<1>2. 1 \in 1 .. 4 /\ 2 \in 1 .. 4 /\ 3 \in 1 .. 4
  OBVIOUS
<1>3. ASSUME ~a2 PROVE d \in Bodies
  <2>1. \A i \in 1 .. n : Record(i) \in Bodies
    <3> TAKE i \in 1 .. n
    <3>1. length(i) \in Nat
      BY RecordLength
    <3>2. ~(length(i) > 124)
      <4>1. ~BadSubRequest(b, start(i), 124)
        BY <1>3
      <4> QED BY <4>1 DEF BadSubRequest, BadRecord
    <3> DEFINE k == length(i)
               z == 2 * k
    <3>3. k \in Nat /\ ~(k > 124)
      BY <3>1, <3>2
    <3> HIDE DEF k
    <3>4. z \in Nat /\ z + 1 \in 0 .. 255 /\ 6 \in 0 .. 255
      BY <3>3
    <3> HIDE DEF z
    <3>5. << << z + 1 >>, << 6 >> >> \in Bodies
      <4>1. << z + 1 >> \in DataByte /\ << 6 >> \in DataByte
        BY <3>4, ByteOf, Zenon
      <4> QED BY <4>1, Short, Zenon
    <3>6. [m \in 1 .. z |-> Value] \in Bodies
      BY <3>4, BusAssumption DEF Bodies
    <3>7. << << z + 1 >>, << 6 >> >> \o [m \in 1 .. z |-> Value] \in Bodies
      BY <3>5, <3>6, Appended, Zenon
    <3> QED BY <3>7, Zenon DEF z, k
  <2>2. n \in Nat
    <3>1. ByteCount(b) \in 0 .. 255
      BY FileRequest
    <3> QED BY <3>1
  <2>3. records \in Seq(Bodies)
    <3> HIDE DEF Record, n
    <3> QED BY <2>1, <2>2
  <2> HIDE DEF records
  <2>4. all \in Bodies
    BY <2>3, FlattenBodies
  <2> HIDE DEF all
  <2>5. Len(all) % 256 \in 0 .. 255
    <3>1. Len(all) \in Nat
      BY <2>4 DEF Bodies
    <3> DEFINE l == Len(all)
    <3>2. l \in Nat
      BY <3>1
    <3> HIDE DEF l
    <3>3. l % 256 \in 0 .. 255
      BY <3>2
    <3> QED BY <3>3, Zenon DEF l
  <2>6. << << Len(all) % 256 >> >> \in Bodies
    BY <2>5, ByteOf, Short, Zenon
  <2> QED BY <2>4, <2>6, Appended, Zenon
<1> HIDE DEF a1, a2, a3, d
<1>4. e \in 0 .. 4 /\ (e = 0 => ~a2)
  BY <1>2, ThreeChecks, Zenon
<1> HIDE DEF e
<1>5. "read_file" \in CountedForms \cup {"echo", "objects"}
  BY DEF CountedForms
<1> QED BY <1>1, <1>3, <1>4, <1>5, AnswersOf, Zenon

\* What handle_read_device_identification finds in the map.
LEMMA MapFailureOf ==
  ASSUME NEW b
  PROVE  /\ MapFailure(b) \in 0 .. 4
         /\ MapFailure(b) = 0 =>
              /\ num(b[4]) = 4 => num(b[5]) \in DOMAIN Objects
              /\ num(b[4]) = 3 => ~(num(b[5]) < 128)
<1> DEFINE code == num(b[4])
           object == num(b[5])
           a1 == code = 4 /\ object \notin DOMAIN Objects
           a2 == code = 1 /\ object > 2
           a3 == code = 2 /\ object \notin 3 .. 7
           a4 == code = 3 /\ object < 128
           a5 == code = 1 /\ \E id \in object .. 2 :
                   /\ id \notin DOMAIN Objects
                   /\ ObjectBytes({i \in object .. id - 1 : i \in DOMAIN Objects}) <= PageSize
           e == FirstFailure(<< << a1, 2 >>, << a2, 2 >>, << a3, 2 >>, << a4, 2 >>, << a5, 4 >> >>)
<1>1. MapFailure(b) = e
  BY Zenon DEF MapFailure
<1>2. 2 \in 1 .. 4 /\ 4 \in 1 .. 4
  OBVIOUS
<1>3. e \in 0 .. 4 /\ (e = 0 => ~a1 /\ ~a4)
  <2> HIDE DEF a1, a2, a3, a4, a5
  <2> QED BY <1>2, FiveChecks, Zenon
<1> HIDE DEF e
<1> QED BY <1>1, <1>3, Zenon

\* An object in an answer.
LEMMA ObjectBody == \A id \in DOMAIN Objects : Object(id) \in Bodies
<1> SUFFICES ASSUME NEW id \in DOMAIN Objects PROVE Object(id) \in Bodies
  OBVIOUS
<1> DEFINE o == Objects[id]
           l == Len(o)
<1>1. o \in Seq(DataByte) /\ 2 + l <= PageSize /\ PageSize \in 0 .. 246 /\ id \in 0 .. 255
  BY BusAssumption
<1>2. l \in Nat
  BY <1>1
<1>3. Object(id) = << << id >>, << l >> >> \o o
  BY DEF Object
<1> HIDE DEF l, o
<1>4. l \in 0 .. 255
  BY <1>1, <1>2
<1>5. << id >> \in DataByte /\ << l >> \in DataByte
  BY <1>1, <1>4, ByteOf, Zenon
<1>6. << << id >>, << l >> >> \in Bodies /\ o \in Bodies
  BY <1>1, <1>5, Short, Zenon DEF Bodies
<1> QED BY <1>3, <1>6, Appended, Zenon

\* The objects to list are few enough to be counted in a byte.
LEMMA ListedFew ==
  ASSUME NEW b, b[4] \in DataByte, b[5] \in DataByte, num(b[4]) \in 1 .. 3, MapFailure(b) = 0
  PROVE  /\ Listed(b) \subseteq DOMAIN Objects /\ Fitting(b) \subseteq Listed(b)
         /\ IsFiniteSet(Fitting(b)) /\ Cardinality(Fitting(b)) \in 0 .. 128
<1> DEFINE last == CASE b[4] = << 1 >> -> 2 [] b[4] = << 2 >> -> 7 [] OTHER -> 255
           from == num(b[5])
<1>1. Listed(b) = {id \in DOMAIN Objects : from <= id /\ id <= last}
  BY Zenon DEF Listed
<1>2. Fitting(b) \subseteq Listed(b) /\ Listed(b) \subseteq DOMAIN Objects
  BY <1>1 DEF Fitting
<1>3. from \in 0 .. 255
  BY NumIn DEF WireByte
<1>4. last = 2 \/ last = 7 \/ (last = 255 /\ num(b[4]) = 3)
  <2>1. b[4] = << num(b[4]) >>
    BY DEF DataByte, num
  <2>2. num(b[4]) = 1 \/ num(b[4]) = 2 \/ num(b[4]) = 3
    OBVIOUS
  <2>4. CASE b[4] = << 1 >>
    BY <2>4
  <2>5. CASE b[4] # << 1 >> /\ b[4] = << 2 >>
    BY <2>5
  <2>6. CASE b[4] # << 1 >> /\ b[4] # << 2 >>
    <3>1. num(b[4]) = 3
      BY <2>1, <2>2, <2>6, Zenon
    <3> QED BY <2>6, <3>1
  <2> QED BY <2>4, <2>5, <2>6
<1>5. last = 255 => from >= 128
  <2>1. num(b[4]) = 3 => ~(from < 128)
    BY MapFailureOf, Zenon
  <2> HIDE DEF from, last
  <2>2. last = 255 => num(b[4]) = 3
    BY <1>4
  <2> QED BY <1>3, <2>1, <2>2
<1> HIDE DEF last, from
<1>6. \A id \in Listed(b) : id \in 0 .. 255
  BY <1>1, BusAssumption
<1>7. \E lo \in Nat : \A x \in Fitting(b) : x \in lo .. lo + 127
  <2>1. CASE last = 255
    <3> DEFINE lo == 128
    <3>1. \A x \in Fitting(b) : x \in lo .. lo + 127
      BY <1>1, <1>2, <1>3, <1>5, <1>6, <2>1
    <3>2. lo \in Nat
      OBVIOUS
    <3> HIDE DEF lo
    <3> QED BY <3>1, <3>2
  <2>2. CASE last = 2 \/ last = 7
    <3> DEFINE lo == 0
    <3>1. \A x \in Fitting(b) : x \in lo .. lo + 127
      BY <1>1, <1>2, <1>6, <2>2
    <3>2. lo \in Nat
      OBVIOUS
    <3> HIDE DEF lo
    <3> QED BY <3>1, <3>2
  <2> QED BY <1>4, <2>1, <2>2
<1>8. IsFiniteSet(Fitting(b)) /\ Cardinality(Fitting(b)) \in 0 .. 128
  <2> DEFINE T == Fitting(b)
  <2>1. \E lo \in Nat : \A x \in T : x \in lo .. lo + 127
    BY <1>7
  <2> HIDE DEF T
  <2>2. IsFiniteSet(T) /\ Cardinality(T) \in 0 .. 128
    BY <2>1, FewIn
  <2> QED BY <2>2 DEF T
<1> QED BY <1>2, <1>8

\* An answer with identification objects.
LEMMA IdentificationBody ==
  ASSUME NEW b, b[4] \in DataByte, b[5] \in DataByte, num(b[4]) \in 1 .. 4, MapFailure(b) = 0
  PROVE  IdentificationPdu(b) \in Bodies
<1> DEFINE page == Fitting(b)
           rest == Listed(b) \ page
           head == << << 14 >>, b[4], << 131 >> >>
           one == << << 0 >>, << 0 >>, << 1 >> >> \o Object(num(b[5]))
           more == IF rest = {} THEN 0 ELSE 255
           next == IF rest = {} THEN 0 ELSE Min(rest)
           count == Cardinality(page)
           objects == [k \in 1 .. count |-> Object(Nth(page, k))]
           many == << << more >>, << next >>, << count >> >> \o FlattenSeq(objects)
<1>1. IdentificationPdu(b) = head \o (IF b[4] = << 4 >> THEN one ELSE many)
  BY Zenon DEF IdentificationPdu
<1>2. 0 \in 0 .. 255 /\ 1 \in 0 .. 255 /\ 14 \in 0 .. 255 /\ 131 \in 0 .. 255 /\ 255 \in 0 .. 255
  OBVIOUS
<1>3. << 0 >> \in DataByte /\ << 1 >> \in DataByte /\ << 14 >> \in DataByte /\ << 131 >> \in DataByte
  BY <1>2, ByteOf, Zenon
<1>4. head \in Bodies
  BY <1>3, Short, Zenon
<1>5. b[4] = << num(b[4]) >>
  BY DEF DataByte, num
<1>6. CASE b[4] = << 4 >>
  <2>1. num(b[4]) = 4
    BY <1>6 DEF num
  <2>2. Object(num(b[5])) \in Bodies
    BY <2>1, MapFailureOf, ObjectBody, Zenon
  <2>3. << << 0 >>, << 0 >>, << 1 >> >> \in Bodies
    BY <1>3, Short, Zenon
  <2>4. one \in Bodies
    BY <2>2, <2>3, Appended, Zenon
  <2> HIDE DEF one, many, head
  <2> QED BY <1>1, <1>4, <1>6, <2>4, Appended, Zenon
<1>7. CASE b[4] # << 4 >>
  <2>1. num(b[4]) \in 1 .. 3
    <3>1. num(b[4]) # 4
      BY <1>5, <1>7, Zenon
    <3> QED BY <3>1
  <2>2. /\ Listed(b) \subseteq DOMAIN Objects /\ page \subseteq Listed(b)
        /\ IsFiniteSet(page) /\ count \in 0 .. 128
    BY <2>1, ListedFew, Zenon
  <2>3. more \in 0 .. 255 /\ next \in 0 .. 255
    <3>1. more \in 0 .. 255
      BY <1>2, Zenon
    <3>2. rest \subseteq 0 .. 255 /\ rest \in SUBSET Nat
      <4>1. DOMAIN Objects \subseteq 0 .. 255
        BY BusAssumption
      <4>2. rest \subseteq 0 .. 255
        BY <2>2, <4>1
      <4> HIDE DEF rest
      <4> QED BY <4>2
    <3> HIDE DEF rest
    <3>3. next \in 0 .. 255
      BY <1>2, <3>2, MinIn, Zenon
    <3> QED BY <3>1, <3>3
  <2>4. count \in 0 .. 255 /\ count \in Nat
    <3> HIDE DEF count
    <3> QED BY <2>2
  <2>5. << << more >>, << next >>, << count >> >> \in Bodies
    <3> HIDE DEF more, next, count
    <3>1. << more >> \in DataByte /\ << next >> \in DataByte /\ << count >> \in DataByte
      BY <2>3, <2>4, ByteOf, Zenon
    <3> QED BY <3>1, Short, Zenon
  <2>6. page \in SUBSET (0 .. 255)
    BY <2>2, BusAssumption
  <2>7. \A k \in 1 .. count : Object(Nth(page, k)) \in Bodies
    <3> TAKE k \in 1 .. count
    <3> HIDE DEF page
    <3>1. Nth(page, k) \in page
      BY <2>6, NthIn, Zenon
    <3> QED BY <2>2, <3>1, ObjectBody
  <2>8. objects \in Seq(Bodies)
    <3> HIDE DEF count, page
    <3> QED BY <2>4, <2>7
  <2>9. FlattenSeq(objects) \in Bodies
    <3> HIDE DEF objects
    <3> QED BY <2>8, FlattenBodies
  <2>10. many \in Bodies
    <3> HIDE DEF objects, more, next, count
    <3> QED BY <2>5, <2>9, Appended, Zenon
  <2> HIDE DEF one, many, head
  <2> QED BY <1>1, <1>4, <1>7, <2>10, Appended, Zenon
<1> QED BY <1>6, <1>7

\* Device identification.
LEMMA AnswerIdentification ==
  ASSUME NEW b, Request(b), Code(b) = 43
  PROVE  Answers(handle_read_device_identification(b))
<1> DEFINE a1 == 43 \notin Callbacks
           a2 == num(b[3]) # 14
           a3 == num(b[4]) \notin 1 .. 4
           a4 == num(b[5]) \in 7 .. 127
           e == FirstFailure(<< << a1, 1 >>, << a2, 1 >>, << a3, 3 >>, << a4, 2 >> >>)
           d == IF MapFailure(b) = 0 THEN IdentificationPdu(b) ELSE <<>>
<1>1. handle_read_device_identification(b) = Handler(e, d, Res(From(b), "objects", <<>>, 0))
  BY Zenon DEF handle_read_device_identification, NoCallback, recv_read_device_identification_res
<1>2. 1 \in 1 .. 4 /\ 2 \in 1 .. 4 /\ 3 \in 1 .. 4
  OBVIOUS
<1>3. b[4] \in DataByte /\ b[5] \in DataByte
  BY RequestBytes
<1>4. <<>> \in Bodies
  BY DEF Bodies
<1>5. ~a3 => d \in Bodies
  BY <1>3, <1>4, IdentificationBody, Zenon
<1> HIDE DEF a1, a2, a3, a4, d
<1>6. e \in 0 .. 4 /\ (e = 0 => ~a3)
  BY <1>2, FourChecks, Zenon
<1> HIDE DEF e
<1>7. "objects" \in CountedForms \cup {"echo", "objects"}
  OBVIOUS
<1> QED BY <1>1, <1>5, <1>6, <1>7, AnswersOf, Zenon

\* Every handler.
LEMMA HandlerAnswers ==
  ASSUME NEW b, Request(b)
  PROVE  Answers(handle_req_fc(b, Value))
<1> DEFINE c == Code(b)
           h == handle_req_fc(b, Value)
<1>1. c \in Functions
  BY DEF Request
<1>2. h = CASE c \in {1, 2} -> handle_read_discrete(b, Value)
            [] c \in {3, 4} -> handle_read_registers(b, Value)
            [] c = 5        -> handle_write_single_coil(b)
            [] c = 6        -> handle_write_single_register(b)
            [] c = 15       -> handle_write_multiple_coils(b)
            [] c = 16       -> handle_write_multiple_registers(b)
            [] c = 20       -> handle_read_file_record(b, Value)
            [] c = 21       -> handle_write_file_record(b)
            [] c = 23       -> handle_read_write_registers(b, Value)
            [] c = 43       -> handle_read_device_identification(b)
  BY Zenon DEF handle_req_fc
<1> HIDE DEF h
<1>3. CASE c \in {1, 2}
  <2>1. c \notin {3, 4} /\ c # 5 /\ c # 6 /\ c # 15 /\ c # 16 /\ c # 20 /\ c # 21 /\ c # 23 /\ c # 43
    BY <1>3
  <2> HIDE DEF c
  <2>2. h = handle_read_discrete(b, Value)
    BY <1>2, <1>3, <2>1, Zenon
  <2> QED BY <1>3, <2>2, AnswerDiscrete, Zenon DEF h, c
<1>4. CASE c \in {3, 4}
  <2>1. c \notin {1, 2} /\ c # 5 /\ c # 6 /\ c # 15 /\ c # 16 /\ c # 20 /\ c # 21 /\ c # 23 /\ c # 43
    BY <1>4
  <2> HIDE DEF c
  <2>2. h = handle_read_registers(b, Value)
    BY <1>2, <1>4, <2>1, Zenon
  <2> QED BY <1>4, <2>2, AnswerRegisters, Zenon DEF h, c
<1>5. CASE c = 5
  <2>1. c \notin {1, 2} /\ c \notin {3, 4} /\ c # 6 /\ c # 15 /\ c # 16 /\ c # 20 /\ c # 21 /\ c # 23 /\ c # 43
    BY <1>5
  <2>3. c \in {5, 6, 15, 16}
    BY <1>5
  <2> HIDE DEF c
  <2>2. h = handle_write_single_coil(b)
    BY <1>2, <1>5, <2>1, Zenon
  <2> QED BY <2>3, <2>2, AnswerWrites, Zenon DEF h, c
<1>6. CASE c = 6
  <2>1. c \notin {1, 2} /\ c \notin {3, 4} /\ c # 5 /\ c # 15 /\ c # 16 /\ c # 20 /\ c # 21 /\ c # 23 /\ c # 43
    BY <1>6
  <2>3. c \in {5, 6, 15, 16}
    BY <1>6
  <2> HIDE DEF c
  <2>2. h = handle_write_single_register(b)
    BY <1>2, <1>6, <2>1, Zenon
  <2> QED BY <2>3, <2>2, AnswerWrites, Zenon DEF h, c
<1>7. CASE c = 15
  <2>1. c \notin {1, 2} /\ c \notin {3, 4} /\ c # 5 /\ c # 6 /\ c # 16 /\ c # 20 /\ c # 21 /\ c # 23 /\ c # 43
    BY <1>7
  <2>3. c \in {5, 6, 15, 16}
    BY <1>7
  <2> HIDE DEF c
  <2>2. h = handle_write_multiple_coils(b)
    BY <1>2, <1>7, <2>1, Zenon
  <2> QED BY <2>3, <2>2, AnswerWrites, Zenon DEF h, c
<1>8. CASE c = 16
  <2>1. c \notin {1, 2} /\ c \notin {3, 4} /\ c # 5 /\ c # 6 /\ c # 15 /\ c # 20 /\ c # 21 /\ c # 23 /\ c # 43
    BY <1>8
  <2>3. c \in {5, 6, 15, 16}
    BY <1>8
  <2> HIDE DEF c
  <2>2. h = handle_write_multiple_registers(b)
    BY <1>2, <1>8, <2>1, Zenon
  <2> QED BY <2>3, <2>2, AnswerWrites, Zenon DEF h, c
<1>9. CASE c = 20
  <2>1. c \notin {1, 2} /\ c \notin {3, 4} /\ c # 5 /\ c # 6 /\ c # 15 /\ c # 16 /\ c # 21 /\ c # 23 /\ c # 43
    BY <1>9
  <2> HIDE DEF c
  <2>2. h = handle_read_file_record(b, Value)
    BY <1>2, <1>9, <2>1, Zenon
  <2> QED BY <1>9, <2>2, AnswerReadFile, Zenon DEF h, c
<1>10. CASE c = 21
  <2>1. c \notin {1, 2} /\ c \notin {3, 4} /\ c # 5 /\ c # 6 /\ c # 15 /\ c # 16 /\ c # 20 /\ c # 23 /\ c # 43
    BY <1>10
  <2> HIDE DEF c
  <2>2. h = handle_write_file_record(b)
    BY <1>2, <1>10, <2>1, Zenon
  <2> QED BY <1>10, <2>2, AnswerWriteFile, Zenon DEF h, c
<1>11. CASE c = 23
  <2>1. c \notin {1, 2} /\ c \notin {3, 4} /\ c # 5 /\ c # 6 /\ c # 15 /\ c # 16 /\ c # 20 /\ c # 21 /\ c # 43
    BY <1>11
  <2> HIDE DEF c
  <2>2. h = handle_read_write_registers(b, Value)
    BY <1>2, <1>11, <2>1, Zenon
  <2> QED BY <1>11, <2>2, AnswerReadWrite, Zenon DEF h, c
<1>12. CASE c = 43
  <2>1. c \notin {1, 2} /\ c \notin {3, 4} /\ c # 5 /\ c # 6 /\ c # 15 /\ c # 16 /\ c # 20 /\ c # 21 /\ c # 23
    BY <1>12
  <2> HIDE DEF c
  <2>2. h = handle_read_device_identification(b)
    BY <1>2, <1>12, <2>1, Zenon
  <2> QED BY <1>12, <2>2, AnswerIdentification, Zenon DEF h, c
<1> QED BY <1>1, <1>3, <1>4, <1>5, <1>6, <1>7, <1>8, <1>9, <1>10, <1>11, <1>12 DEF Functions, h
-----------------------------------------------------------------------------
(* Frames, and what a receiver takes of them.                              *)

\* A frame carries its header and what follows it.
LEMMA FrameBody ==
  ASSUME NEW unit \in DataByte, NEW fc \in 0 .. 255, NEW pdu \in Bodies
  PROVE  \E q \in Bodies : /\ Frame(unit, fc, pdu) = q \o crc_calc(q)
                           /\ Len(q) >= 2 /\ q[1] = unit
<1> DEFINE h == << unit, << fc >> >>
           q == h \o pdu
<1>1. << fc >> \in DataByte
  BY ByteOf
<1>2. h \in Bodies
  BY <1>1, Short, Zenon
<1>3. Len(h) = 2 /\ h[1] = unit
  OBVIOUS
<1>4. Frame(unit, fc, pdu) = q \o crc_calc(q)
  BY Zenon DEF Frame
<1> HIDE DEF h
<1>5. q \in Bodies /\ Len(q) >= 2 /\ q[1] = unit
  <2>1. h \in Seq(WireByte) /\ pdu \in Seq(WireByte)
    BY <1>2, BodyOnLine, Zenon
  <2>2. Len(pdu) \in Nat /\ 1 \in 1 .. Len(h) /\ Len(h) = 2
    BY <1>3, <2>1
  <2>3. Len(q) = Len(h) + Len(pdu) /\ q[1] = h[1]
    BY <2>1, <2>2, Joined, Zenon
  <2>4. Len(q) >= 2
    BY <2>2, <2>3
  <2> QED BY <1>2, <1>3, <2>3, <2>4, Appended, Zenon
<1> HIDE DEF q
<1> QED BY <1>4, <1>5

\* What a frame and what arrives of it hold.
LEMMA FrameArrives ==
  ASSUME NEW q \in Bodies, NEW f, f = q \o crc_calc(q), NEW h \in Arrivals(f)
  PROVE  /\ f \in Seq(WireByte) /\ Body(f) = q /\ h \in Seq(WireByte)
         /\ \A p : Count(h, p) \in Nat /\ Count(h, p) <= IF p = q THEN 1 ELSE 0
<1>1. f \in Seq(WireByte) /\ Body(f) = q
  BY FrameBytes
<1>2. \A p : Count(f, p) = IF p = q THEN 1 ELSE 0
  BY FrameBytes
<1>3. h \in Seq(WireByte) /\ \A p : Count(h, p) <= Count(f, p)
  BY <1>1, ArrivalBytes
<1>4. \A p : Count(h, p) \in Nat
  BY <1>3, CountType
<1> QED BY <1>1, <1>2, <1>3, <1>4, Zenon

\* A recv takes bytes off the line, and none is taken twice.
LEMMA TakenLeft ==
  ASSUME NEW x, x.buf \in Seq(WireByte), x.rx \in Seq(WireByte),
         NEW t \in Nat, t > Len(x.buf), Enough(x, t)
  PROVE  /\ Taken(x, t) \in Seq(WireByte) /\ Len(Taken(x, t)) = t /\ Extends(Taken(x, t), x.buf)
         /\ Left(x, t) \in Seq(WireByte)
         /\ \A p : Count(Taken(x, t), p) + Count(Left(x, t), p) = Count(x.buf, p) + Count(x.rx, p)
<1> DEFINE b == x.buf
           r == x.rx
           l == Len(b)
           n == Len(r)
           k == t - l
           u == SubSeq(r, 1, k)
           v == SubSeq(r, k + 1, n)
<1>1. b \in Seq(WireByte) /\ r \in Seq(WireByte) /\ l \in Nat /\ n \in Nat
  OBVIOUS
<1>2. k \in Nat /\ k >= 1 /\ k <= n /\ l + k = t
  <2>1. l + n >= t
    BY DEF Enough
  <2>2. t > l
    OBVIOUS
  <2> HIDE DEF l, n
  <2> QED BY <1>1, <2>1, <2>2
<1>3. Taken(x, t) = b \o u /\ Left(x, t) = v
  BY Zenon DEF Taken, Left
<1> HIDE DEF b, r
<1>4. u \in Seq(WireByte) /\ Len(u) = k /\ v \in Seq(WireByte) /\ u \o v = r
  <2> HIDE DEF k
  <2> QED BY <1>1, <1>2, Cut
<1> HIDE DEF u, v, k
<1>5. /\ b \o u \in Seq(WireByte) /\ Len(b \o u) = l + k
      /\ \A i \in 1 .. Len(b) : (b \o u)[i] = b[i]
  BY <1>1, <1>4, Joined
<1>6. Len(b \o u) = t /\ Extends(b \o u, b)
  <2>1. l + k > l
    <3> HIDE DEF l
    <3> QED BY <1>1, <1>2
  <2> QED BY <1>2, <1>5, <2>1, Zenon DEF Extends
<1>7. \A p : Count(b \o u, p) + Count(v, p) = Count(b, p) + Count(r, p)
  <2> TAKE p
  <2>1. Count(b \o u, p) = Count(b, p) + Count(u, p)
    BY <1>1, <1>4, CountConcat
  <2>2. Count(r, p) = Count(u, p) + Count(v, p)
    BY <1>4, CountConcat
  <2>3. Count(b, p) \in Nat /\ Count(u, p) \in Nat /\ Count(v, p) \in Nat
    BY <1>1, <1>4, CountType
  <2> QED BY <2>1, <2>2, <2>3
<1>8. \A p : Count(Taken(x, t), p) + Count(Left(x, t), p) = Count(x.buf, p) + Count(x.rx, p)
  BY <1>3, <1>7, Zenon DEF b, r
<1>9. Extends(Taken(x, t), x.buf)
  BY <1>3, <1>6, Zenon DEF b
<1> QED BY <1>3, <1>4, <1>5, <1>6, <1>8, <1>9, Zenon

\* Whether a function refuses its arguments depends on them alone.
LEMMA SameRefusal ==
  ASSUME NEW r, WellFormed(r), NEW o, NEW n, NEW o2, NEW n2
  PROVE  Function(r, o, n).bad = Function(r, o2, n2).bad
<1>1. CASE r.raw
  BY <1>1, FunctionOf, Zenon
<1>2. CASE ~r.raw /\ r.fc = 43
  <2>1. r.arg[1] = 1 \/ r.arg[1] = 2 \/ r.arg[1] = 3 \/ r.arg[1] = 4
    <3>1. r.arg[1] \in 1 .. 4
      BY <1>2, Arguments, Zenon
    <3> QED BY <3>1
  <2>2. \A bad, object, room : Identification(bad, r, object, room).bad = bad
    BY DEF Identification, Sends
  <2>3. \A m, k :
          /\ r.arg[1] = 1 => Function(r, m, k) = nmbs_read_device_identification_basic(r, m)
          /\ r.arg[1] = 2 => Function(r, m, k) = nmbs_read_device_identification_regular(r, m)
          /\ r.arg[1] = 3 => Function(r, m, k) = nmbs_read_device_identification_extended(r, m, k)
          /\ r.arg[1] = 4 => Function(r, m, k) = nmbs_read_device_identification(r, m)
    BY <1>2, FunctionOf, Zenon
  <2>4. CASE r.arg[1] = 1
    <3>1. Function(r, o, n) = nmbs_read_device_identification_basic(r, o) /\ Function(r, o2, n2) = nmbs_read_device_identification_basic(r, o2)
      BY <2>3, <2>4, Zenon
    <3>2. nmbs_read_device_identification_basic(r, o).bad = (FALSE) /\ nmbs_read_device_identification_basic(r, o2).bad = (FALSE)
      BY <2>2, Zenon DEF nmbs_read_device_identification_basic
    <3> QED BY <3>1, <3>2, Zenon
  <2>5. CASE r.arg[1] = 2
    <3>1. Function(r, o, n) = nmbs_read_device_identification_regular(r, o) /\ Function(r, o2, n2) = nmbs_read_device_identification_regular(r, o2)
      BY <2>3, <2>5, Zenon
    <3>2. nmbs_read_device_identification_regular(r, o).bad = (FALSE) /\ nmbs_read_device_identification_regular(r, o2).bad = (FALSE)
      BY <2>2, Zenon DEF nmbs_read_device_identification_regular
    <3> QED BY <3>1, <3>2, Zenon
  <2>6. CASE r.arg[1] = 3
    <3>1. Function(r, o, n) = nmbs_read_device_identification_extended(r, o, n) /\ Function(r, o2, n2) = nmbs_read_device_identification_extended(r, o2, n2)
      BY <2>3, <2>6, Zenon
    <3> DEFINE bad == r.arg[2] < 128
    <3>2. \A m, k : nmbs_read_device_identification_extended(r, m, k).bad = bad
      <4> TAKE m, k
      <4> DEFINE room == (r.arg[3] - k) % 256
      <4>1. nmbs_read_device_identification_extended(r, m, k) = Identification(bad, r, m, room)
        BY DEF nmbs_read_device_identification_extended
      <4> HIDE DEF bad, room
      <4> QED BY <2>2, <4>1, Zenon
    <3> HIDE DEF bad
    <3> QED BY <3>1, <3>2, Zenon
  <2>7. CASE r.arg[1] = 4
    <3>1. Function(r, o, n) = nmbs_read_device_identification(r, o) /\ Function(r, o2, n2) = nmbs_read_device_identification(r, o2)
      BY <2>3, <2>7, Zenon
    <3>2. nmbs_read_device_identification(r, o).bad = (r.arg[2] \in 7 .. 127) /\ nmbs_read_device_identification(r, o2).bad = (r.arg[2] \in 7 .. 127)
      BY <2>2, Zenon DEF nmbs_read_device_identification
    <3> QED BY <3>1, <3>2, Zenon
  <2> QED BY <2>1, <2>4, <2>5, <2>6, <2>7, Zenon
<1>3. CASE ~r.raw /\ r.fc # 43
  <2>1. \/ r.fc \in {1, 2} \/ r.fc \in {3, 4} \/ r.fc = 5 \/ r.fc = 6 \/ r.fc = 15 \/ r.fc = 16
        \/ r.fc = 20 \/ r.fc = 21 \/ r.fc = 23
    <3>1. r.fc \in Functions
      BY <1>3, Arguments, Zenon
    <3> QED BY <1>3, <3>1 DEF Functions
  <2> QED BY <1>3, <2>1, FunctionOf, Zenon
<1> QED BY <1>1, <1>2, <1>3

\* What a call that is not refused puts on the line, for any object.
LEMMA RequestOnLine ==
  ASSUME NEW r, WellFormed(r), ~Refused(r), NEW o \in 0 .. 255
  PROVE  \E q \in Bodies : /\ RequestFrame(r, o) = q \o crc_calc(q)
                           /\ Len(q) >= 2 /\ q[1] = r.to
<1>1. r.to \in DataByte /\ r.fc \in 0 .. 255
  BY Arguments
<1>2. Function(r, o, 0).pdu \in Bodies
  <2>1. ~Function(r, o, 0).bad
    BY SameRefusal, Zenon DEF Refused
  <2> QED BY <2>1, SoundCall, Zenon DEF Sound
<1> QED BY <1>1, <1>2, FrameBody, Zenon DEF RequestFrame

\* The first object of an identification is a byte.
LEMMA FirstObjectByte ==
  ASSUME NEW r, WellFormed(r)
  PROVE  FirstObject(r) \in 0 .. 255
<1>1. 0 \in 0 .. 255 /\ 3 \in 0 .. 255
  OBVIOUS
<1>2. CASE r.fc # 43 \/ r.raw
  BY <1>1, <1>2, Zenon DEF FirstObject
<1>3. CASE ~(r.fc # 43 \/ r.raw)
  <2>1. r.arg[2] \in 0 .. 255
    BY <1>3, Arguments, Zenon
  <2> QED BY <1>1, <1>3, <2>1, Zenon DEF FirstObject
<1> QED BY <1>2, <1>3

\* An exception is a frame for the one that answers.
LEMMA ExceptionBody ==
  ASSUME NEW m \in Seq(WireByte), Len(m) >= 2, m[1] \in DataByte, NEW e \in 0 .. 255
  PROVE  \E q \in Bodies : /\ send_exception_msg(m, e) = q \o crc_calc(q)
                           /\ Len(q) >= 2 /\ q[1] = m[1]
<1> DEFINE c == Code(m)
           k == (c + 128) % 256
           pdu == << << e >> >>
<1>1. c \in 0 .. 255
  <2>1. m[2] \in WireByte
    OBVIOUS
  <2> QED BY <2>1, NumIn, Zenon DEF Code
<1>2. k \in 0 .. 255
  <2> HIDE DEF c
  <2> QED BY <1>1
<1>3. pdu \in Bodies
  BY ByteOf, Short, Zenon
<1>4. send_exception_msg(m, e) = Frame(m[1], k, pdu)
  BY Zenon DEF send_exception_msg
<1> HIDE DEF k, pdu
<1>5. \E q \in Bodies : Frame(m[1], k, pdu) = q \o crc_calc(q) /\ Len(q) >= 2 /\ q[1] = m[1]
  BY <1>2, <1>3, FrameBody
<1> QED BY <1>4, <1>5

\* A request that passes its check is complete, no longer, and its checksum is right.
LEMMA RequestComplete ==
  ASSUME NEW b \in Seq(WireByte), NEW m \in Seq(WireByte), Extends(m, b), Len(b) >= 2,
         Code(b) \in Functions, Len(m) = RequestTarget(b), RequestCheck(m) = "NONE"
  PROVE  Request(m) /\ Count(m, Body(m)) >= 1
<1>0. Len(b) \in Nat /\ Len(m) \in Nat /\ Len(m) > 2
  BY DEF Extends
<1>1. Code(m) = Code(b)
  BY Same
<1>2. FixedPart(Code(b)) \in 1 .. 9
  BY Sizes
<1>3. RequestTarget(m) = 0 /\ CrcOK(m)
  BY DEF RequestCheck
<1>4. Body(m) \in Bodies /\ Count(m, Body(m)) >= 1
  BY <1>0, <1>3, CrcCounts
<1>5. Len(m) >= 2 + FixedPart(Code(m))
  BY <1>0, <1>1, <1>2, <1>3 DEF RequestTarget
<1>6. RequestEnd(m) \in Nat /\ RequestEnd(m) >= 2 + FixedPart(Code(m))
  BY <1>1, <1>5, RequestEndType
<1>7. Len(m) >= RequestEnd(m) + 2
  BY <1>0, <1>3, <1>5, <1>6 DEF RequestTarget
<1>8. Len(m) = RequestEnd(m) + 2
  <2>1. CASE Len(b) < 2 + FixedPart(Code(b))
    <3>1. Len(m) = 2 + FixedPart(Code(m))
      BY <1>0, <1>1, <2>1 DEF RequestTarget
    <3> QED BY <1>0, <1>1, <1>2, <1>6, <1>7, <3>1
  <2>2. CASE Len(b) >= 2 + FixedPart(Code(b))
    <3>1. RequestEnd(m) = RequestEnd(b)
      BY <2>2, Same
    <3>2. Len(m) \in {RequestEnd(b), RequestEnd(b) + 2, 0}
      BY <1>0, <1>2, <2>2 DEF RequestTarget
    <3> QED BY <1>0, <1>6, <1>7, <3>1, <3>2
  <2> QED BY <1>0, <1>2, <2>1, <2>2
<1>9. Len(m) >= 4 + FixedPart(Code(m))
  BY <1>0, <1>1, <1>2, <1>6, <1>8
<1> QED BY <1>1, <1>4, <1>8, <1>9, Zenon DEF Request

\* The header of a request that the server knows: more is to come.
LEMMA HeaderMore ==
  ASSUME NEW m \in Seq(WireByte), Len(m) = 2, Code(m) \in Functions
  PROVE  Checked(m) /\ Ahead(RequestTarget(m), m)
<1>1. FixedPart(Code(m)) \in 1 .. 9
  BY Sizes
<1> DEFINE l == Len(m)
           n == FixedPart(Code(m))
<1>2. l = 2 /\ ~(l < 2) /\ l < 2 + n /\ ~(l >= 2 + n) /\ 2 + n \in Nat /\ 2 + n > l
  <2>1. l = 2 /\ n \in 1 .. 9
    BY <1>1
  <2> HIDE DEF l, n
  <2> QED BY <2>1
<1>3. RequestTarget(m) = 2 + n
  BY <1>2, Zenon DEF RequestTarget
<1> QED BY <1>2, <1>3, Zenon DEF Checked, Ahead

\* An answer with identification objects that is accepted has its header.
LEMMA PageHeader ==
  ASSUME NEW w, w.form = "objects", NEW b \in Seq(WireByte), AnswerCheck(w, b) = "NONE"
  PROVE  Len(b) >= 8 /\ num(b[7]) \in 0 .. 255
<1>1. AnswerTarget(w, b) = 0 /\ ~IsException(w, b)
  <2>1. CASE AnswerTarget(w, b) # 0
    <3>1. AnswerCheck(w, b) = EarlyVerdict(w, b)
      BY <2>1, Zenon DEF AnswerCheck
    <3>2. EarlyVerdict(w, b) \in {"INVALID_UNIT_ID", "INVALID_RESPONSE", "INVALID_ARGUMENT", "more"}
      BY Zenon DEF EarlyVerdict
    <3> QED BY <3>1, <3>2
  <2>2. CASE AnswerTarget(w, b) = 0 /\ IsException(w, b)
    <3>1. AnswerCheck(w, b) \in {"CRC", "EXCEPTION", "INVALID_RESPONSE"}
      BY <2>2, Zenon DEF AnswerCheck
    <3> QED BY <3>1
  <2> QED BY <2>1, <2>2
<1>2. Len(b) >= 2
  <2>1. Len(b) < 2 => AnswerTarget(w, b) = 2
    BY TargetOf, Zenon
  <2> QED BY <1>1, <2>1
<1>3. Len(b) >= 8
  <2>1. ~(Len(b) < 2)
    BY <1>2
  <2>2. Len(b) < 8 => AnswerTarget(w, b) = 8
    BY <1>1, <2>1, TargetOf, Zenon
  <2> QED BY <1>1, <2>2
<1>4. b[7] \in WireByte
  BY <1>3
<1> QED BY <1>3, <1>4, NumIn, Zenon
-----------------------------------------------------------------------------
(* The bags.                                                               *)

\* A message more in a bag.
LEMMA OneMore ==
  ASSUME NEW B, \A p \in DOMAIN B : B[p] \in Nat \ {0}, NEW x
  PROVE  /\ DOMAIN (B (+) SetToBag({x})) = DOMAIN B \cup {x}
         /\ \A p \in DOMAIN (B (+) SetToBag({x})) : (B (+) SetToBag({x}))[p] \in Nat \ {0}
         /\ \A p : /\ Copies(B, p) \in Nat
                   /\ Copies(B (+) SetToBag({x}), p) = Copies(B, p) + IF p = x THEN 1 ELSE 0
<1> DEFINE C == B (+) SetToBag({x})
           D == SetToBag({x})
<1>1. D = [e \in {x} |-> 1]
  BY DEF SetToBag
<1>2. C = [e \in DOMAIN B \cup {x} |->
             (IF e \in DOMAIN B THEN B[e] ELSE 0) + (IF e \in {x} THEN D[e] ELSE 0)]
  BY <1>1 DEF (+)
<1>3. \A p : Copies(B, p) \in Nat
  BY DEF Copies
<1>4. \A p \in DOMAIN B \cup {x} : C[p] = Copies(B, p) + IF p = x THEN 1 ELSE 0
  <2> TAKE p \in DOMAIN B \cup {x}
  <2>1. C[p] = (IF p \in DOMAIN B THEN B[p] ELSE 0) + (IF p \in {x} THEN D[p] ELSE 0)
    <3> HIDE DEF C, D
    <3> QED BY <1>2
  <2>2. p \in {x} => D[p] = 1
    BY <1>1
  <2> HIDE DEF C, D
  <2> QED BY <2>1, <2>2, Zenon DEF Copies
<1>5. DOMAIN C = DOMAIN B \cup {x}
  <2> HIDE DEF C, D
  <2> QED BY <1>2
<1>6. \A p \in DOMAIN C : C[p] \in Nat \ {0}
  <2> SUFFICES ASSUME NEW p \in DOMAIN C PROVE C[p] \in Nat \ {0}
    OBVIOUS
  <2> HIDE DEF C
  <2>1. C[p] = Copies(B, p) + IF p = x THEN 1 ELSE 0
    BY <1>4, <1>5
  <2>2. p # x => Copies(B, p) # 0
    BY <1>5 DEF Copies
  <2> QED BY <1>3, <2>1, <2>2
<1>7. \A p : Copies(C, p) = Copies(B, p) + IF p = x THEN 1 ELSE 0
  <2> TAKE p
  <2> HIDE DEF C
  <2>1. CASE p \in DOMAIN C
    BY <1>4, <1>5, <2>1 DEF Copies
  <2>2. CASE p \notin DOMAIN C
    BY <1>5, <2>2 DEF Copies
  <2> QED BY <2>1, <2>2
<1> HIDE DEF C
<1>8. /\ DOMAIN C = DOMAIN B \cup {x}
      /\ \A p \in DOMAIN C : C[p] \in Nat \ {0}
      /\ \A p : Copies(B, p) \in Nat /\ Copies(C, p) = Copies(B, p) + IF p = x THEN 1 ELSE 0
  BY <1>3, <1>5, <1>6, <1>7, Zenon
<1> QED BY <1>8, Zenon DEF C

\* The server has no more to read than before.
LEMMA BagsKept ==
  ASSUME NEW s, NEW z, NEW done, NEW all, BagsOK(s, done, all),
         \A p \in ForServer : Pending(s, p) \in Nat /\ Pending(z, p) \in Nat /\ Pending(z, p) <= Pending(s, p)
  PROVE  BagsOK(z, done, all)
<1>1. \A p : Copies(done, p) \in Nat /\ Copies(all, p) \in Nat
  BY DEF BagsOK, Copies
<1>2. \A p \in ForServer : Copies(done, p) + Pending(z, p) <= Copies(all, p)
  <2> TAKE p \in ForServer
  <2>1. Copies(done, p) + Pending(s, p) <= Copies(all, p)
    BY DEF BagsOK
  <2>2. Pending(s, p) \in Nat /\ Pending(z, p) \in Nat /\ Pending(z, p) <= Pending(s, p)
    OBVIOUS
  <2> QED BY <1>1, <2>1, <2>2
<1> QED BY <1>2, Zenon DEF BagsOK

\* The server has executed the message x, which is gone from what it has to read.
LEMMA BagsExecuted ==
  ASSUME NEW s, NEW z, NEW done, NEW all, BagsOK(s, done, all), NEW x \in ForServer,
         \A p \in ForServer : /\ Pending(s, p) \in Nat /\ Pending(z, p) \in Nat
                              /\ Pending(z, p) + (IF p = x THEN 1 ELSE 0) <= Pending(s, p)
  PROVE  BagsOK(z, done (+) SetToBag({x}), all)
<1> DEFINE more == done (+) SetToBag({x})
<1>1. /\ DOMAIN more = DOMAIN done \cup {x}
      /\ \A p \in DOMAIN more : more[p] \in Nat \ {0}
      /\ \A p : Copies(done, p) \in Nat /\ Copies(more, p) = Copies(done, p) + IF p = x THEN 1 ELSE 0
  <2>1. \A p \in DOMAIN done : done[p] \in Nat \ {0}
    BY DEF BagsOK
  <2> QED BY <2>1, OneMore
<1>2. \A p : Copies(all, p) \in Nat
  BY DEF BagsOK, Copies
<1> HIDE DEF more
<1>3. \A p \in ForServer : Copies(more, p) + Pending(z, p) <= Copies(all, p)
  <2> TAKE p \in ForServer
  <2>1. Copies(done, p) + Pending(s, p) <= Copies(all, p)
    BY DEF BagsOK
  <2>2. /\ Pending(s, p) \in Nat /\ Pending(z, p) \in Nat
        /\ Pending(z, p) + (IF p = x THEN 1 ELSE 0) <= Pending(s, p)
    OBVIOUS
  <2>3. Copies(done, p) \in Nat /\ Copies(more, p) = Copies(done, p) + IF p = x THEN 1 ELSE 0
    BY <1>1
  <2> QED BY <1>2, <2>1, <2>2, <2>3
<1>4. DOMAIN more \subseteq ForServer
  BY <1>1 DEF BagsOK
<1>5. BagsOK(z, more, all)
  BY <1>1, <1>3, <1>4, Zenon DEF BagsOK
<1> QED BY <1>5 DEF more

\* The message x has been sent, and the server may have it to read.
LEMMA BagsSent ==
  ASSUME NEW s, NEW z, NEW done, NEW all, BagsOK(s, done, all), NEW x \in Bodies,
         \A p \in ForServer : /\ Pending(s, p) \in Nat /\ Pending(z, p) \in Nat
                              /\ Pending(z, p) <= Pending(s, p) + (IF p = x THEN 1 ELSE 0)
  PROVE  BagsOK(z, done, all (+) SetToBag({x}))
<1> DEFINE more == all (+) SetToBag({x})
<1>1. /\ DOMAIN more = DOMAIN all \cup {x}
      /\ \A p \in DOMAIN more : more[p] \in Nat \ {0}
      /\ \A p : Copies(all, p) \in Nat /\ Copies(more, p) = Copies(all, p) + IF p = x THEN 1 ELSE 0
  <2>1. \A p \in DOMAIN all : all[p] \in Nat \ {0}
    BY DEF BagsOK
  <2> QED BY <2>1, OneMore
<1>2. \A p : Copies(done, p) \in Nat
  BY DEF BagsOK, Copies
<1> HIDE DEF more
<1>3. \A p \in ForServer : Copies(done, p) + Pending(z, p) <= Copies(more, p)
  <2> TAKE p \in ForServer
  <2>1. Copies(done, p) + Pending(s, p) <= Copies(all, p)
    BY DEF BagsOK
  <2>2. /\ Pending(s, p) \in Nat /\ Pending(z, p) \in Nat
        /\ Pending(z, p) <= Pending(s, p) + (IF p = x THEN 1 ELSE 0)
    OBVIOUS
  <2>3. Copies(all, p) \in Nat /\ Copies(more, p) = Copies(all, p) + IF p = x THEN 1 ELSE 0
    BY <1>1
  <2> QED BY <1>2, <2>1, <2>2, <2>3
<1>4. DOMAIN more \subseteq Bodies
  BY <1>1 DEF BagsOK
<1>5. BagsOK(z, done, more)
  BY <1>1, <1>3, <1>4, Zenon DEF BagsOK
<1> QED BY <1>5 DEF more

\* What is pending is a number.
LEMMA PendingType ==
  ASSUME NEW s, s.buf \in Seq(WireByte), s.rx \in Seq(WireByte)
  PROVE  \A p : Pending(s, p) \in Nat
<1>1. \A p : Count(s.buf, p) \in Nat /\ Count(s.rx, p) \in Nat
  BY CountType
<1> QED BY <1>1 DEF Pending
-----------------------------------------------------------------------------
(* The client and the server as they change.                               *)

\* The client hears h.
LEMMA ClientHears ==
  ASSUME NEW c, ClientOK(c), NEW h \in Seq(WireByte)
  PROVE  ClientOK([c EXCEPT !.rx = @ \o h])
<1> DEFINE d == [c EXCEPT !.rx = @ \o h]
<1>1. /\ c = [at |-> c.at, r |-> c.r, rx |-> c.rx, buf |-> c.buf, err |-> c.err, object |-> c.object,
              ids |-> c.ids, fresh |-> c.fresh, early |-> c.early, faults |-> c.faults]
      /\ c.rx \in Seq(WireByte)
  BY DEF ClientOK
<1>2. d = [at |-> c.at, r |-> c.r, rx |-> c.rx \o h, buf |-> c.buf, err |-> c.err, object |-> c.object,
           ids |-> c.ids, fresh |-> c.fresh, early |-> c.early, faults |-> c.faults]
  <2> DEFINE v == c.rx \o h
  <2>1. d = [c EXCEPT !.rx = v]
    OBVIOUS
  <2> HIDE DEF v, d
  <2>2. d = [at |-> c.at, r |-> c.r, rx |-> v, buf |-> c.buf, err |-> c.err, object |-> c.object,
             ids |-> c.ids, fresh |-> c.fresh, early |-> c.early, faults |-> c.faults]
    BY <1>1, <2>1
  <2> QED BY <2>2 DEF v
<1>3. c.rx \o h \in Seq(WireByte)
  BY <1>1
<1> HIDE DEF d
<1>4. /\ d.at = c.at /\ d.r = c.r /\ d.rx = c.rx \o h /\ d.buf = c.buf /\ d.err = c.err
      /\ d.object = c.object /\ d.ids = c.ids /\ d.fresh = c.fresh /\ d.early = c.early
      /\ d.faults = c.faults
  BY <1>2
<1>5. Wants(d) = Wants(c)
  BY <1>4, Zenon DEF Wants
<1>6. ClientOK(d)
  BY <1>2, <1>3, <1>4, <1>5, Zenon DEF ClientOK
<1> QED BY <1>6 DEF d

\* The server hears h.
LEMMA ServerHears ==
  ASSUME NEW s, ServerOK(s), NEW h \in Seq(WireByte)
  PROVE  /\ ServerOK([s EXCEPT !.rx = @ \o h])
         /\ \A p : Pending([s EXCEPT !.rx = @ \o h], p) = Pending(s, p) + Count(h, p)
<1> DEFINE z == [s EXCEPT !.rx = @ \o h]
<1>1. /\ s = [at |-> s.at, rx |-> s.rx, buf |-> s.buf, want |-> s.want]
      /\ s.rx \in Seq(WireByte) /\ s.buf \in Seq(WireByte)
  BY DEF ServerOK
<1>2. z = [at |-> s.at, rx |-> s.rx \o h, buf |-> s.buf, want |-> s.want]
  <2> DEFINE v == s.rx \o h
  <2>1. z = [s EXCEPT !.rx = v]
    OBVIOUS
  <2> HIDE DEF v, z
  <2>2. z = [at |-> s.at, rx |-> v, buf |-> s.buf, want |-> s.want]
    BY <1>1, <2>1
  <2> QED BY <2>2 DEF v
<1>3. s.rx \o h \in Seq(WireByte)
  BY <1>1
<1> HIDE DEF z
<1>4. z.at = s.at /\ z.rx = s.rx \o h /\ z.buf = s.buf /\ z.want = s.want
  BY <1>2
<1>5. NextLength(z) = NextLength(s)
  BY <1>4, Zenon DEF NextLength
<1>6. ServerOK(z)
  BY <1>2, <1>3, <1>4, <1>5, Zenon DEF ServerOK
<1>7. \A p : Pending(z, p) = Pending(s, p) + Count(h, p)
  <2> TAKE p
  <2>1. Count(s.rx \o h, p) = Count(s.rx, p) + Count(h, p)
    BY <1>1, CountConcat
  <2>2. Count(s.rx, p) \in Nat /\ Count(h, p) \in Nat /\ Count(s.buf, p) \in Nat
    BY <1>1, CountType
  <2>3. Pending(z, p) = Count(s.buf, p) + Count(s.rx \o h, p)
    BY <1>4 DEF Pending
  <2> QED BY <2>1, <2>2, <2>3 DEF Pending
<1> QED BY <1>6, <1>7 DEF z

\* A new poll, with q to read.
LEMMA PollOK ==
  ASSUME NEW q \in Seq(WireByte)
  PROVE  /\ ServerOK([Polling EXCEPT !.rx = q])
         /\ \A p : Pending([Polling EXCEPT !.rx = q], p) = Count(q, p)
<1> DEFINE z == [Polling EXCEPT !.rx = q]
<1>1. z = [at |-> "req", rx |-> q, buf |-> <<>>, want |-> NoRes]
  BY DEF Polling
<1> HIDE DEF z
<1>2. z.at = "req" /\ z.rx = q /\ z.buf = <<>> /\ z.want = NoRes
  BY <1>1
<1>3. Len(<<>>) = 0 /\ <<>> \in Seq(WireByte)
  OBVIOUS
<1>4. NextLength(z) = 2
  <2>1. Len(<<>>) < 2
    BY <1>3
  <2> QED BY <1>2, <2>1, Zenon DEF NextLength, RequestTarget
<1>5. Ahead(NextLength(z), z.buf)
  <2>1. 2 \in Nat /\ 2 > 0
    OBVIOUS
  <2> QED BY <1>2, <1>3, <1>4, <2>1, Zenon DEF Ahead
<1>6. z.at # "res"
  BY <1>2
<1>7. z = [at |-> z.at, rx |-> z.rx, buf |-> z.buf, want |-> z.want]
  BY <1>1
<1>8. ServerOK(z)
  BY <1>2, <1>3, <1>5, <1>6, <1>7, Zenon DEF ServerOK
<1>9. \A p : Pending(z, p) = Count(q, p)
  <2> TAKE p
  <2>1. Count(<<>>, p) = 0 /\ Count(q, p) \in Nat
    BY CountEmpty, CountType
  <2> QED BY <1>2, <2>1 DEF Pending
<1> QED BY <1>8, <1>9 DEF z

\* An nmbs_t of the client with these fields, where the call has ended, is to be
\* sent, or is waiting.
ClientState(at, r, rx, buf, err, object, ids, fresh, early, n) ==
  [at |-> at, r |-> r, rx |-> rx, buf |-> buf, err |-> err, object |-> object,
   ids |-> ids, fresh |-> fresh, early |-> early, faults |-> n]

\* No call, or one that is over.
LEMMA ClientRests ==
  ASSUME NEW at \in {"idle", "done"}, NEW r, NEW rx \in Seq(WireByte), NEW buf \in Seq(WireByte),
         NEW err, NEW object \in 0 .. 255, NEW ids, NEW fresh, NEW early, NEW n
  PROVE  ClientOK(ClientState(at, r, rx, buf, err, object, ids, fresh, early, n))
<1> DEFINE c == ClientState(at, r, rx, buf, err, object, ids, fresh, early, n)
<1>1. at \notin {"send", "recv"} /\ at # "send" /\ at # "recv" /\ at \in {"idle", "send", "recv", "done"}
  OBVIOUS
<1>2. /\ c.at = at /\ c.rx = rx /\ c.buf = buf /\ c.object = object
      /\ c = [at |-> c.at, r |-> c.r, rx |-> c.rx, buf |-> c.buf, err |-> c.err, object |-> c.object,
              ids |-> c.ids, fresh |-> c.fresh, early |-> c.early, faults |-> c.faults]
  BY DEF ClientState
<1> HIDE DEF c
<1>3. ClientOK(c)
  BY <1>1, <1>2, Zenon DEF ClientOK
<1> QED BY <1>3 DEF c

\* A request to send.
LEMMA ClientSends ==
  ASSUME NEW r, WellFormed(r), ~Refused(r), NEW rx \in Seq(WireByte),
         NEW err, NEW object \in 0 .. 255, NEW ids, NEW fresh, NEW early, NEW n
  PROVE  ClientOK(ClientState("send", r, rx, <<>>, err, object, ids, fresh, early, n))
<1> DEFINE c == ClientState("send", r, rx, <<>>, err, object, ids, fresh, early, n)
<1>1. <<>> \in Seq(WireByte)
  OBVIOUS
<1>2. /\ c.at = "send" /\ c.r = r /\ c.rx = rx /\ c.buf = <<>> /\ c.object = object
      /\ c = [at |-> c.at, r |-> c.r, rx |-> c.rx, buf |-> c.buf, err |-> c.err, object |-> c.object,
              ids |-> c.ids, fresh |-> c.fresh, early |-> c.early, faults |-> c.faults]
  BY DEF ClientState
<1> HIDE DEF c
<1>3. c.at # "recv"
  BY <1>2
<1>4. ClientOK(c)
  BY <1>1, <1>2, <1>3, Zenon DEF ClientOK
<1> QED BY <1>4 DEF c

\* An answer to wait for.
LEMMA ClientWaits ==
  ASSUME NEW r, WellFormed(r), ~Refused(r), NEW rx \in Seq(WireByte), NEW buf \in Seq(WireByte),
         NEW err, NEW object \in 0 .. 255, NEW ids, NEW fresh, NEW early, NEW n,
         Ahead(AnswerTarget(Function(r, object, Len(ids)).res, buf), buf),
         CheckedAnswer(Function(r, object, Len(ids)).res, buf)
  PROVE  ClientOK(ClientState("recv", r, rx, buf, err, object, ids, fresh, early, n))
<1> DEFINE c == ClientState("recv", r, rx, buf, err, object, ids, fresh, early, n)
<1>1. /\ c.at = "recv" /\ c.r = r /\ c.rx = rx /\ c.buf = buf /\ c.object = object /\ c.ids = ids
      /\ c = [at |-> c.at, r |-> c.r, rx |-> c.rx, buf |-> c.buf, err |-> c.err, object |-> c.object,
              ids |-> c.ids, fresh |-> c.fresh, early |-> c.early, faults |-> c.faults]
  BY DEF ClientState
<1> HIDE DEF c
<1>2. c.at # "send"
  BY <1>1
<1>3. Wants(c) = Function(r, object, Len(ids)).res
  BY <1>1, Zenon DEF Wants
<1>4. ClientOK(c)
  BY <1>1, <1>2, <1>3, Zenon DEF ClientOK
<1> QED BY <1>4 DEF c

\* The client as IInv has it.
LEMMA ClientIs ==
  ASSUME NEW c, ClientOK(c)
  PROVE  /\ c = ClientState(c.at, c.r, c.rx, c.buf, c.err, c.object, c.ids, c.fresh, c.early, c.faults)
         /\ c.rx \in Seq(WireByte) /\ c.buf \in Seq(WireByte) /\ c.object \in 0 .. 255
         /\ c.at \in {"send", "recv"} => WellFormed(c.r) /\ ~Refused(c.r) /\ Expected(Wants(c))
<1>1. /\ c = ClientState(c.at, c.r, c.rx, c.buf, c.err, c.object, c.ids, c.fresh, c.early, c.faults)
      /\ c.rx \in Seq(WireByte) /\ c.buf \in Seq(WireByte) /\ c.object \in 0 .. 255
      /\ c.at \in {"send", "recv"} => WellFormed(c.r) /\ ~Refused(c.r)
  BY Zenon DEF ClientOK, ClientState
<1>2. WellFormed(c.r) => Expected(Wants(c))
  <2> DEFINE o == c.object
  <2>1. o \in 0 .. 255
    BY <1>1
  <2>2. Wants(c) = Function(c.r, o, Len(c.ids)).res
    BY DEF Wants
  <2> HIDE DEF o
  <2> QED BY <2>1, <2>2, SoundCall, Zenon DEF Sound
<1> QED BY <1>1, <1>2

\* A poll that has a message m of a request, or of an answer, and wants more.
LEMMA ServerWaits ==
  ASSUME NEW s, ServerOK(s), NEW m \in Seq(WireByte), NEW q \in Seq(WireByte),
         s.at = "req" => /\ Len(m) >= 2 /\ Code(m) \in Functions /\ Checked(m)
                         /\ Ahead(RequestTarget(m), m),
         s.at = "res" => CheckedAnswer(s.want, m) /\ Ahead(AnswerTarget(s.want, m), m)
  PROVE  /\ ServerOK([s EXCEPT !.buf = m, !.rx = q])
         /\ \A p : Pending([s EXCEPT !.buf = m, !.rx = q], p) = Count(m, p) + Count(q, p)
<1> DEFINE z == [s EXCEPT !.buf = m, !.rx = q]
<1>1. s = [at |-> s.at, rx |-> s.rx, buf |-> s.buf, want |-> s.want] /\ s.at \in {"req", "res"}
  BY DEF ServerOK
<1>0. z = [s EXCEPT !.buf = m, !.rx = q]
  OBVIOUS
<1> HIDE DEF z
<1>2. z = [at |-> s.at, rx |-> q, buf |-> m, want |-> s.want]
  BY <1>0, <1>1
<1>3. z.at = s.at /\ z.rx = q /\ z.buf = m /\ z.want = s.want
  BY <1>2
<1>4. z = [at |-> z.at, rx |-> z.rx, buf |-> z.buf, want |-> z.want]
  BY <1>2, <1>3, Zenon
<1>5. s.at = "req" \/ (s.at = "res" /\ s.at # "req")
  BY <1>1
<1>6. Ahead(NextLength(z), z.buf)
  BY <1>3, <1>5, Zenon DEF NextLength
<1>7. ServerOK(z)
  BY <1>1, <1>3, <1>4, <1>6, Zenon DEF ServerOK
<1>8. \A p : Pending(z, p) = Count(m, p) + Count(q, p)
  BY <1>3, Zenon DEF Pending
<1> QED BY <1>7, <1>8 DEF z

\* A poll that is to receive the answer to another unit's request.
LEMMA ServerListens ==
  ASSUME NEW q \in Seq(WireByte), NEW w, Expected(w), w.form # "raw"
  PROVE  /\ ServerOK([at |-> "res", rx |-> q, buf |-> <<>>, want |-> w])
         /\ \A p : Pending([at |-> "res", rx |-> q, buf |-> <<>>, want |-> w], p) = Count(q, p)
<1> DEFINE z == [at |-> "res", rx |-> q, buf |-> <<>>, want |-> w]
<1>1. /\ z.at = "res" /\ z.rx = q /\ z.buf = <<>> /\ z.want = w
      /\ z = [at |-> z.at, rx |-> z.rx, buf |-> z.buf, want |-> z.want]
  OBVIOUS
<1> HIDE DEF z
<1>2. Len(<<>>) = 0 /\ <<>> \in Seq(WireByte)
  OBVIOUS
<1>3. Len(<<>>) < 2 /\ ~(Len(<<>>) >= 3)
  BY <1>2
<1>4. z.at # "req"
  BY <1>1
<1>5. NextLength(z) = 2
  BY <1>1, <1>3, <1>4, TargetOf, Zenon DEF NextLength
<1>6. Ahead(NextLength(z), z.buf)
  <2>1. 2 \in Nat /\ 2 > 0
    OBVIOUS
  <2> QED BY <1>1, <1>2, <1>5, <2>1, Zenon DEF Ahead
<1>7. CheckedAnswer(z.want, z.buf)
  BY <1>1, <1>3, Zenon DEF CheckedAnswer
<1>8. ServerOK(z)
  BY <1>1, <1>2, <1>4, <1>6, <1>7, Zenon DEF ServerOK
<1>9. \A p : Pending(z, p) = Count(q, p)
  <2> TAKE p
  <2>1. Count(<<>>, p) = 0 /\ Count(q, p) \in Nat
    BY CountEmpty, CountType
  <2> QED BY <1>1, <2>1 DEF Pending
<1> QED BY <1>8, <1>9 DEF z
-----------------------------------------------------------------------------
(* The steps of the client.                                                *)

\* What a step has to establish.
LEMMA Establish ==
  ASSUME IInv, ClientOK(client'), ServerOK(server'), BagsOK(server', executed', sent'),
         other' \in Seq(ForOther), plan' = plan, calls' \in Nat
  PROVE  IInv'
BY Zenon DEF IInv, WorldInv

\* A step of the client that sends nothing.
LEMMA ClientAlone ==
  ASSUME IInv, UNCHANGED <<server, other, sent, executed, plan>>, calls' \in Nat, ClientOK(client')
  PROVE  IInv'
<1>1. server' = server /\ other' = other /\ sent' = sent /\ executed' = executed /\ plan' = plan
  OBVIOUS
<1>2. ServerOK(server) /\ BagsOK(server, executed, sent) /\ other \in Seq(ForOther)
  BY Zenon DEF IInv, WorldInv
<1>3. ServerOK(server') /\ BagsOK(server', executed', sent') /\ other' \in Seq(ForOther)
  BY <1>1, <1>2, Zenon
<1> QED BY <1>1, <1>3, Establish, Zenon

\* The record that MsgStateReq leaves.
LEMMA MsgStateReqState ==
  ASSUME ClientOK(client), NEW r, NEW object, NEW ids, NEW fresh, NEW started,
         MsgStateReq(r, object, ids, fresh, started)
  PROVE  client' = ClientState("send", r, <<>>, <<>>, "NONE", object, ids, fresh /\ BusQuiet, FALSE, started)
<1> DEFINE now == fresh /\ BusQuiet
<1>1. client' = [client EXCEPT !.at = "send", !.r = r, !.rx = <<>>, !.buf = <<>>,
                   !.err = "NONE", !.object = object, !.ids = ids, !.fresh = now,
                   !.early = FALSE, !.faults = started]
  BY Zenon DEF MsgStateReq
<1> HIDE DEF now
<1>2. client = [at |-> client.at, r |-> client.r, rx |-> client.rx, buf |-> client.buf,
                err |-> client.err, object |-> client.object, ids |-> client.ids,
                fresh |-> client.fresh, early |-> client.early, faults |-> client.faults]
  BY Zenon DEF ClientOK
<1>3. client' = ClientState("send", r, <<>>, <<>>, "NONE", object, ids, now, FALSE, started)
  BY <1>1, <1>2 DEF ClientState
<1> QED BY <1>3 DEF now

\* A call begins.
LEMMA CallStep ==
  ASSUME IInv, calls < Len(plan.calls), NEW r \in plan.calls[calls + 1], Call(r)
  PROVE  IInv'
<1>1. ClientOK(client) /\ plan \in Plans /\ calls \in Nat
  BY Zenon DEF IInv, WorldInv
<1>2. WellFormed(r)
  <2>1. Len(plan.calls) \in Nat /\ \A i \in 1 .. Len(plan.calls) : \A x \in plan.calls[i] : WellFormed(x)
    BY <1>1, BusAssumption
  <2> DEFINE n == Len(plan.calls)
  <2>2. n \in Nat /\ calls < n
    BY <2>1
  <2>3. calls + 1 \in 1 .. n
    <3> HIDE DEF n
    <3> QED BY <1>1, <2>2
  <2> QED BY <2>1, <2>3
<1>3. UNCHANGED <<server, other, sent, executed, plan>> /\ calls' \in Nat
  BY <1>1 DEF Call
<1>4. /\ client = ClientState(client.at, client.r, client.rx, client.buf, client.err, client.object,
                              client.ids, client.fresh, client.early, client.faults)
      /\ client.rx \in Seq(WireByte) /\ client.buf \in Seq(WireByte) /\ client.object \in 0 .. 255
  BY <1>1, ClientIs, Zenon
<1>5. CASE Refused(r)
  <2>1. client' = [client EXCEPT !.at = "done", !.r = r, !.err = "INVALID_ARGUMENT"]
    BY <1>5, Zenon DEF Call, Refused
  <2>2. client' = ClientState("done", r, client.rx, client.buf, "INVALID_ARGUMENT", client.object,
                              client.ids, client.fresh, client.early, client.faults)
    BY <1>4, <2>1 DEF ClientState
  <2>3. "done" \in {"idle", "done"}
    OBVIOUS
  <2>4. ClientOK(client')
    BY <1>4, <2>2, <2>3, ClientRests, Zenon
  <2> QED BY <1>3, <2>4, ClientAlone, Zenon
<1>6. CASE ~Refused(r)
  <2>1. MsgStateReq(r, FirstObject(r), <<>>, TRUE, faults)
    BY <1>6, Zenon DEF Call, Refused
  <2>2. PICK now : client' = ClientState("send", r, <<>>, <<>>, "NONE", FirstObject(r), <<>>, now, FALSE, faults)
    BY <1>1, <2>1, MsgStateReqState, Zenon
  <2>3. <<>> \in Seq(WireByte)
    OBVIOUS
  <2>4. ClientOK(client')
    BY <1>2, <1>6, <2>2, <2>3, FirstObjectByte, ClientSends, Zenon
  <2> QED BY <1>3, <2>4, ClientAlone, Zenon
<1> QED BY <1>5, <1>6

\* The call returns.
LEMMA ReturnStep ==
  ASSUME IInv, Return
  PROVE  IInv'
<1>1. ClientOK(client) /\ calls \in Nat
  BY Zenon DEF IInv, WorldInv
<1>2. client' = [Idle EXCEPT !.rx = client.rx]
  BY Zenon DEF Return
<1>3. client' = ClientState("idle", NoCall, client.rx, <<>>, "NONE", 0, <<>>, FALSE, FALSE, 0)
  BY <1>2 DEF Idle, ClientState
<1>4. "idle" \in {"idle", "done"} /\ 0 \in 0 .. 255 /\ <<>> \in Seq(WireByte)
  OBVIOUS
<1>5. client.rx \in Seq(WireByte)
  BY <1>1, ClientIs, Zenon
<1>6. ClientOK(client')
  BY <1>3, <1>4, <1>5, ClientRests, Zenon
<1>7. UNCHANGED <<server, other, sent, executed, plan>> /\ calls' \in Nat
  BY <1>1 DEF Return
<1> QED BY <1>6, <1>7, ClientAlone, Zenon

\* The client gives up.
LEMMA ClientTimeoutStep ==
  ASSUME IInv, ClientTimeout
  PROVE  IInv'
<1>1. ClientOK(client) /\ calls \in Nat
  BY Zenon DEF IInv, WorldInv
<1>2. /\ client = ClientState(client.at, client.r, client.rx, client.buf, client.err, client.object,
                              client.ids, client.fresh, client.early, client.faults)
      /\ client.rx \in Seq(WireByte) /\ client.buf \in Seq(WireByte) /\ client.object \in 0 .. 255
  BY <1>1, ClientIs, Zenon
<1> DEFINE quiet == ~BusQuiet
<1>3. client' = [client EXCEPT !.at = "done", !.err = "TIMEOUT", !.rx = <<>>, !.early = quiet]
  BY Zenon DEF ClientTimeout
<1> HIDE DEF quiet
<1>4. client' = ClientState("done", client.r, <<>>, client.buf, "TIMEOUT", client.object,
                            client.ids, client.fresh, quiet, client.faults)
  BY <1>2, <1>3 DEF ClientState
<1>5. "done" \in {"idle", "done"} /\ <<>> \in Seq(WireByte)
  OBVIOUS
<1>6. ClientOK(client')
  BY <1>2, <1>4, <1>5, ClientRests, Zenon
<1>7. UNCHANGED <<server, other, sent, executed, plan>> /\ calls' \in Nat
  BY <1>1 DEF ClientTimeout
<1> QED BY <1>6, <1>7, ClientAlone, Zenon

\* An answer with identification objects ends the call or leads to the next request.
LEMMA PageOutcome ==
  ASSUME NEW b, NEW q, Page(b, q), num(b[7]) \in 0 .. 255
  PROVE  \E ids :
           \/ \E e : client' = [client EXCEPT !.at = "done", !.err = e, !.buf = b, !.ids = ids, !.rx = q]
           \/ \E next \in 0 .. 255 : MsgStateReq(client.r, next, ids, client.fresh, client.faults)
<1> DEFINE code == client.r.arg[1]
           ids == client.ids \o ObjectIds(b)
           next == IF b[6] = << 0 >> THEN 127 ELSE num(b[7])
           Over(e) == client' = [client EXCEPT !.at = "done", !.err = e, !.buf = b, !.ids = ids, !.rx = q]
           bad == \/ code = 1 /\ Len(ids) > 3
                  \/ code = 2 /\ Len(ids) > 4
                  \/ code \in {1, 2} /\ ObjectIds(b) = <<>>
           again == code < 4 /\ next # 127
<1>1. IF bad THEN Over("INVALID_RESPONSE")
      ELSE IF again THEN MsgStateReq(client.r, next, ids, client.fresh, client.faults)
      ELSE Over("NONE")
  BY Zenon DEF Page
<1>2. next \in 0 .. 255
  <2>1. 127 \in 0 .. 255
    OBVIOUS
  <2> QED BY <2>1, Zenon
<1> HIDE DEF bad, again, next, ids
<1>3. (\E e : Over(e)) \/ \E x \in 0 .. 255 : MsgStateReq(client.r, x, ids, client.fresh, client.faults)
  BY <1>1, <1>2, Zenon
<1> QED BY <1>3, Zenon

\* The client receives what it asked for.
LEMMA ClientRecvStep ==
  ASSUME IInv, ClientRecv
  PROVE  IInv'
<1> DEFINE w == Wants(client)
           t == AnswerTarget(w, client.buf)
           b == Taken(client, t)
           rest == Left(client, t)
<1>1. ClientOK(client) /\ calls \in Nat
  BY Zenon DEF IInv, WorldInv
<1>2. /\ client = ClientState(client.at, client.r, client.rx, client.buf, client.err, client.object,
                              client.ids, client.fresh, client.early, client.faults)
      /\ client.rx \in Seq(WireByte) /\ client.buf \in Seq(WireByte) /\ client.object \in 0 .. 255
      /\ client.at \in {"send", "recv"} => WellFormed(client.r) /\ ~Refused(client.r) /\ Expected(w)
  BY <1>1, ClientIs, Zenon
<1>3. Awaited = w /\ ClientTarget = t
  BY Zenon DEF Awaited, ClientTarget, Wants
<1>4. client.at = "recv" /\ Enough(client, t)
  BY <1>3, Zenon DEF ClientRecv
<1>5. WellFormed(client.r) /\ ~Refused(client.r) /\ Expected(w)
  BY <1>2, <1>4, Zenon
<1>6. Ahead(t, client.buf) /\ CheckedAnswer(w, client.buf)
  BY <1>1, <1>4, Zenon DEF ClientOK
<1>7. /\ \/ /\ AnswerCheck(w, b) = "more"
            /\ client' = [client EXCEPT !.buf = b, !.rx = rest]
         \/ /\ AnswerCheck(w, b) = "NONE" /\ w.form = "objects"
            /\ Page(b, rest)
         \/ client' = [client EXCEPT !.at = "done", !.err = AnswerCheck(w, b), !.buf = b, !.rx = rest]
      /\ UNCHANGED <<server, other, sent, executed, plan>> /\ calls' = calls
  BY <1>3, Zenon DEF ClientRecv
<1> HIDE DEF w
<1>8. b \in Seq(WireByte) /\ Len(b) = t /\ Extends(b, client.buf) /\ rest \in Seq(WireByte)
  <2>1. t \in Nat /\ t > Len(client.buf)
    BY <1>6, Zenon DEF Ahead
  <2> HIDE DEF t
  <2> QED BY <1>2, <1>4, <2>1, TakenLeft, Zenon
<1>9. "done" \in {"idle", "done"} /\ <<>> \in Seq(WireByte)
  OBVIOUS
<1>10. CASE AnswerCheck(w, b) = "more" /\ client' = [client EXCEPT !.buf = b, !.rx = rest]
  <2>1. CheckedAnswer(w, b) /\ Ahead(AnswerTarget(w, b), b)
    <3> HIDE DEF b
    <3> QED BY <1>2, <1>5, <1>6, <1>8, <1>10, AnswerMore
  <2> HIDE DEF b, rest
  <2>2. client' = ClientState("recv", client.r, rest, b, client.err, client.object,
                              client.ids, client.fresh, client.early, client.faults)
    BY <1>2, <1>4, <1>10 DEF ClientState
  <2>3. w = Function(client.r, client.object, Len(client.ids)).res
    BY DEF w, Wants
  <2>4. ClientOK(client')
    BY <1>2, <1>5, <1>8, <2>1, <2>2, <2>3, ClientWaits, Zenon
  <2> QED BY <1>1, <1>7, <2>4, ClientAlone, Zenon
<1>11. CASE AnswerCheck(w, b) = "NONE" /\ w.form = "objects" /\ Page(b, rest)
  <2> HIDE DEF b, rest
  <2>1. num(b[7]) \in 0 .. 255
    BY <1>8, <1>11, PageHeader, Zenon
  <2>2. PICK ids :
           \/ \E e : client' = [client EXCEPT !.at = "done", !.err = e, !.buf = b, !.ids = ids, !.rx = rest]
           \/ \E next \in 0 .. 255 : MsgStateReq(client.r, next, ids, client.fresh, client.faults)
    BY <1>11, <2>1, PageOutcome, Zenon
  <2>3. ASSUME NEW e, client' = [client EXCEPT !.at = "done", !.err = e, !.buf = b, !.ids = ids, !.rx = rest]
        PROVE  ClientOK(client')
    <3>1. client' = ClientState("done", client.r, rest, b, e, client.object,
                                ids, client.fresh, client.early, client.faults)
      BY <1>2, <2>3 DEF ClientState
    <3> QED BY <1>2, <1>8, <1>9, <3>1, ClientRests, Zenon
  <2>4. ASSUME NEW next \in 0 .. 255, MsgStateReq(client.r, next, ids, client.fresh, client.faults)
        PROVE  ClientOK(client')
    <3>1. PICK now : client' = ClientState("send", client.r, <<>>, <<>>, "NONE", next, ids, now, FALSE, client.faults)
      BY <1>1, <2>4, MsgStateReqState, Zenon
    <3> QED BY <1>5, <1>9, <3>1, ClientSends, Zenon
  <2>5. ClientOK(client')
    BY <2>2, <2>3, <2>4, Zenon
  <2> QED BY <1>1, <1>7, <2>5, ClientAlone, Zenon
<1>12. CASE client' = [client EXCEPT !.at = "done", !.err = AnswerCheck(w, b), !.buf = b, !.rx = rest]
  <2> DEFINE v == AnswerCheck(w, b)
  <2>1. client' = [client EXCEPT !.at = "done", !.err = v, !.buf = b, !.rx = rest]
    BY <1>12
  <2> HIDE DEF b, rest, v
  <2>2. client' = ClientState("done", client.r, rest, b, v, client.object,
                              client.ids, client.fresh, client.early, client.faults)
    BY <1>2, <2>1 DEF ClientState
  <2>3. ClientOK(client')
    BY <1>2, <1>8, <1>9, <2>2, ClientRests, Zenon
  <2> QED BY <1>1, <1>7, <2>3, ClientAlone, Zenon
<1> QED BY <1>7, <1>10, <1>11, <1>12, Zenon

\* The client sends its request, or fails to.
LEMMA SendStep ==
  ASSUME IInv, Send
  PROVE  IInv'
<1> DEFINE r == client.r
           f == RequestFrame(r, client.object)
<1>1. /\ ClientOK(client) /\ ServerOK(server) /\ BagsOK(server, executed, sent)
      /\ other \in Seq(ForOther) /\ calls \in Nat
  BY Zenon DEF IInv, WorldInv
<1>2. /\ client = ClientState(client.at, client.r, client.rx, client.buf, client.err, client.object,
                              client.ids, client.fresh, client.early, client.faults)
      /\ client.rx \in Seq(WireByte) /\ client.buf \in Seq(WireByte) /\ client.object \in 0 .. 255
      /\ client.at \in {"send", "recv"} => WellFormed(client.r) /\ ~Refused(client.r) /\ Expected(Wants(client))
  BY <1>1, ClientIs, Zenon
<1>3. client.at = "send"
  BY Zenon DEF Send
<1>4. WellFormed(r) /\ ~Refused(r) /\ client.buf = <<>>
  BY <1>1, <1>2, <1>3, Zenon DEF ClientOK
<1>5. "done" \in {"idle", "done"}
  OBVIOUS
<1>6. UNCHANGED <<executed, plan>> /\ calls' = calls
  BY Zenon DEF Send
<1>7. PICK q \in Bodies : f = q \o crc_calc(q) /\ Len(q) >= 2 /\ q[1] = r.to
  BY <1>2, <1>4, RequestOnLine, Zenon
<1>8. ASSUME NEW h \in Arrivals(f),
             server' = [server EXCEPT !.rx = @ \o h],
             other' = IF h = f /\ r.to = << 2 >> THEN Append(other, f) ELSE other,
             sent' = sent (+) SetToBag({Body(f)}),
             client' = [client EXCEPT !.at = IF AwaitsAnswer(r) THEN "recv" ELSE "done"]
      PROVE  IInv'
  <2>1. /\ f \in Seq(WireByte) /\ Body(f) = q /\ h \in Seq(WireByte)
        /\ \A p : Count(h, p) \in Nat /\ Count(h, p) <= IF p = q THEN 1 ELSE 0
    BY <1>7, FrameArrives, Zenon
  <2>2. ServerOK(server') /\ \A p : Pending(server', p) = Pending(server, p) + Count(h, p)
    BY <1>1, <1>8, <2>1, ServerHears, Zenon
  <2>3. \A p : Pending(server, p) \in Nat
    BY <1>1, PendingType, Zenon DEF ServerOK
  <2>4. \A p \in ForServer : /\ Pending(server, p) \in Nat /\ Pending(server', p) \in Nat
                             /\ Pending(server', p) <= Pending(server, p) + (IF p = q THEN 1 ELSE 0)
    <3> TAKE p \in ForServer
    <3>1. Pending(server, p) \in Nat /\ Count(h, p) \in Nat /\ Count(h, p) <= IF p = q THEN 1 ELSE 0
      BY <2>1, <2>3
    <3>2. Pending(server', p) = Pending(server, p) + Count(h, p)
      BY <2>2
    <3> QED BY <3>1, <3>2
  <2>5. BagsOK(server', executed', sent')
    <3>1. BagsOK(server', executed, sent (+) SetToBag({q}))
      BY <1>1, <2>4, BagsSent
    <3> QED BY <1>6, <1>8, <2>1, <3>1, Zenon
  <2>6. other' \in Seq(ForOther)
    <3>1. CASE r.to = << 2 >>
      <4>1. f \in ForOther
        <5>1. q \in Seq(WireByte) /\ crc_calc(q) \in Seq(WireByte) /\ Len(crc_calc(q)) = 2
          BY BodyOnLine, CrcOnLine
        <5>2. Len(q) \in Nat /\ Len(q) >= 2 /\ 1 \in 1 .. Len(q)
          BY <1>7, <5>1
        <5> HIDE DEF f
        <5>0. Len(q \o crc_calc(q)) = Len(q) + Len(crc_calc(q)) /\ (q \o crc_calc(q))[1] = q[1]
          BY <5>1, <5>2, Joined, Zenon
        <5>3. Len(f) = Len(q) + Len(crc_calc(q)) /\ f[1] = q[1]
          BY <1>7, <5>0, Zenon
        <5>4. Len(f) >= 4
          BY <5>1, <5>2, <5>3
        <5> QED BY <1>7, <2>1, <3>1, <5>3, <5>4, Zenon DEF ForOther
      <4> HIDE DEF f
      <4> QED BY <1>1, <1>8, <4>1
    <3>2. CASE r.to # << 2 >>
      BY <1>1, <1>8, <3>2, Zenon
    <3> QED BY <3>1, <3>2
  <2>7. ClientOK(client')
    <3>1. CASE AwaitsAnswer(r)
      <4>1. client' = [client EXCEPT !.at = "recv"]
        BY <1>8, <3>1, Zenon
      <4>2. client' = ClientState("recv", client.r, client.rx, <<>>, client.err, client.object,
                                  client.ids, client.fresh, client.early, client.faults)
        BY <1>2, <1>4, <4>1 DEF ClientState
      <4> DEFINE w == Function(client.r, client.object, Len(client.ids)).res
      <4>3. Len(<<>>) = 0 /\ <<>> \in Seq(WireByte) /\ Len(<<>>) < 2 /\ ~(Len(<<>>) >= 3) /\ 2 \in Nat /\ 2 > 0
        OBVIOUS
      <4>4. Ahead(AnswerTarget(w, <<>>), <<>>) /\ CheckedAnswer(w, <<>>)
        <5> HIDE DEF w
        <5>1. AnswerTarget(w, <<>>) = 2
          BY <4>3, TargetOf, Zenon
        <5> QED BY <4>3, <5>1, Zenon DEF Ahead, CheckedAnswer
      <4> QED BY <1>2, <1>4, <4>2, <4>3, <4>4, ClientWaits, Zenon
    <3>2. CASE ~AwaitsAnswer(r)
      <4>1. client' = [client EXCEPT !.at = "done"]
        BY <1>8, <3>2, Zenon
      <4>2. client' = ClientState("done", client.r, client.rx, client.buf, client.err, client.object,
                                  client.ids, client.fresh, client.early, client.faults)
        BY <1>2, <4>1 DEF ClientState
      <4> QED BY <1>2, <1>5, <4>2, ClientRests, Zenon
    <3> QED BY <3>1, <3>2
  <2> QED BY <1>1, <1>6, <2>2, <2>5, <2>6, <2>7, Establish
<1>9. ASSUME NEW e, Finish(e), UNCHANGED <<server, other, sent>>
      PROVE  IInv'
  <2>1. client' = [client EXCEPT !.at = "done", !.err = e]
    BY <1>9, Zenon DEF Finish
  <2>2. client' = ClientState("done", client.r, client.rx, client.buf, e, client.object,
                              client.ids, client.fresh, client.early, client.faults)
    BY <1>2, <2>1 DEF ClientState
  <2>3. ClientOK(client')
    BY <1>2, <1>5, <2>2, ClientRests, Zenon
  <2>4. UNCHANGED <<server, other, sent, executed, plan>> /\ calls' \in Nat
    BY <1>1, <1>6, <1>9
  <2> QED BY <2>3, <2>4, ClientAlone, Zenon
<1>10. \/ \E h \in Arrivals(f) :
            /\ server' = [server EXCEPT !.rx = @ \o h]
            /\ other' = IF h = f /\ r.to = << 2 >> THEN Append(other, f) ELSE other
            /\ sent' = sent (+) SetToBag({Body(f)})
            /\ client' = [client EXCEPT !.at = IF AwaitsAnswer(r) THEN "recv" ELSE "done"]
       \/ (\E e \in SendErrors : Finish(e)) /\ UNCHANGED <<server, other, sent>>
  BY Zenon DEF Send
<1> HIDE DEF f
<1> QED BY <1>8, <1>9, <1>10, Zenon
-----------------------------------------------------------------------------
(* The steps of the server.                                                *)

\* What a recv gives the server.
LEMMA ServerTakes ==
  ASSUME ServerOK(server), Enough(server, ServerTarget),
         NEW m, m = Taken(server, ServerTarget), NEW q, q = Left(server, ServerTarget)
  PROVE  /\ m \in Seq(WireByte) /\ Len(m) = ServerTarget /\ Extends(m, server.buf) /\ q \in Seq(WireByte)
         /\ \A p : /\ Count(m, p) \in Nat /\ Count(q, p) \in Nat /\ Pending(server, p) \in Nat
                   /\ Count(m, p) + Count(q, p) = Pending(server, p)
<1>1. server.buf \in Seq(WireByte) /\ server.rx \in Seq(WireByte) /\ Ahead(ServerTarget, server.buf)
  BY Zenon DEF ServerOK, NextLength, ServerTarget
<1> DEFINE t == ServerTarget
<1>2. t \in Nat /\ t > Len(server.buf)
  BY <1>1, Zenon DEF Ahead
<1>3. Enough(server, t) /\ m = Taken(server, t) /\ q = Left(server, t)
  OBVIOUS
<1> HIDE DEF t
<1>4. /\ m \in Seq(WireByte) /\ Len(m) = t /\ Extends(m, server.buf) /\ q \in Seq(WireByte)
      /\ \A p : Count(m, p) + Count(q, p) = Count(server.buf, p) + Count(server.rx, p)
  BY <1>1, <1>2, <1>3, TakenLeft, Zenon
<1>5. \A p : Count(m, p) \in Nat /\ Count(q, p) \in Nat /\ Pending(server, p) \in Nat
  BY <1>1, <1>4, CountType, PendingType
<1> QED BY <1>4, <1>5, Zenon DEF t, Pending

\* A step of the server that says nothing.
LEMMA ServerAlone ==
  ASSUME IInv, UNCHANGED <<client, other, sent, executed, plan, calls>>, ServerOK(server'),
         \A p : /\ Pending(server, p) \in Nat /\ Pending(server', p) \in Nat
                /\ Pending(server', p) <= Pending(server, p)
  PROVE  IInv'
<1>1. /\ ClientOK(client) /\ BagsOK(server, executed, sent) /\ other \in Seq(ForOther) /\ calls \in Nat
  BY Zenon DEF IInv, WorldInv
<1>2. client' = client /\ other' = other /\ sent' = sent /\ executed' = executed /\ plan' = plan /\ calls' = calls
  OBVIOUS
<1>3. BagsOK(server', executed, sent)
  BY <1>1, BagsKept
<1> QED BY <1>1, <1>2, <1>3, Establish, Zenon

\* A poll ends, and q is left to read.
LEMMA PollEnds ==
  ASSUME NEW q \in Seq(WireByte), EndPoll(q)
  PROVE  ServerOK(server') /\ \A p : Pending(server', p) \in Nat /\ Pending(server', p) = Count(q, p)
<1>1. server' = [Polling EXCEPT !.rx = q]
  BY Zenon DEF EndPoll
<1>2. ServerOK(server') /\ \A p : Pending(server', p) = Count(q, p)
  BY <1>1, PollOK, Zenon
<1>3. \A p : Count(q, p) \in Nat
  BY CountType
<1> QED BY <1>2, <1>3, Zenon

\* The server has part of a message.
LEMMA ServerReceivesStep ==
  ASSUME IInv, Enough(server, ServerTarget), NEW m, m = Taken(server, ServerTarget),
         NEW q, q = Left(server, ServerTarget), ServerReceives(m, Verdict(m), q)
  PROVE  IInv'
<1>1. ServerOK(server)
  BY Zenon DEF IInv
<1>2. /\ m \in Seq(WireByte) /\ Len(m) = ServerTarget /\ Extends(m, server.buf) /\ q \in Seq(WireByte)
      /\ \A p : /\ Count(m, p) \in Nat /\ Count(q, p) \in Nat /\ Pending(server, p) \in Nat
                /\ Count(m, p) + Count(q, p) = Pending(server, p)
  BY <1>1, ServerTakes, Zenon
<1>3. /\ Verdict(m) = "more" /\ server' = [server EXCEPT !.buf = m, !.rx = q]
      /\ UNCHANGED <<client, other, sent, executed, plan, calls>>
  BY Zenon DEF ServerReceives
<1>4. server.buf \in Seq(WireByte)
  BY <1>1, Zenon DEF ServerOK
<1>5. ASSUME server.at = "req"
      PROVE  Len(m) >= 2 /\ Code(m) \in Functions /\ Checked(m) /\ Ahead(RequestTarget(m), m)
  <2>1. ServerTarget = RequestTarget(server.buf)
    BY <1>5, Zenon DEF ServerTarget
  <2>2. server.at # "res"
    BY <1>5
  <2>3. CASE server.buf = <<>>
    <3>1. Len(<<>>) < 2
      OBVIOUS
    <3>2. Len(m) = 2
      BY <1>2, <2>1, <2>3, <3>1, Zenon DEF RequestTarget
    <3>3. Code(m) \in Functions
      <4> SUFFICES ASSUME Code(m) \notin Functions PROVE FALSE
        OBVIOUS
      <4>1. Verdict(m) = "unknown"
        BY <2>2, <3>2, Zenon DEF Verdict
      <4> QED BY <1>3, <4>1
    <3>4. Len(m) >= 2
      BY <3>2
    <3> QED BY <1>2, <3>2, <3>3, <3>4, HeaderMore, Zenon
  <2>4. CASE server.buf # <<>>
    <3>1. Len(server.buf) >= 2 /\ Code(server.buf) \in Functions /\ Checked(server.buf)
      BY <1>1, <1>5, <2>4, Zenon DEF ServerOK
    <3>2. Len(m) # 2 /\ ~(Len(m) <= 2) /\ Len(m) >= 2
      BY <1>2, <1>4, <3>1 DEF Extends
    <3>3. RequestCheck(m) = "more"
      BY <1>3, <2>2, <3>2, Zenon DEF Verdict
    <3> QED BY <1>2, <1>4, <2>1, <3>1, <3>2, <3>3, RequestMore, Zenon
  <2> QED BY <2>3, <2>4
<1>6. ASSUME server.at = "res"
      PROVE  CheckedAnswer(server.want, m) /\ Ahead(AnswerTarget(server.want, m), m)
  <2>1. server.at # "req"
    BY <1>6
  <2>2. ServerTarget = AnswerTarget(server.want, server.buf)
    BY <2>1, Zenon DEF ServerTarget
  <2>3. Expected(server.want) /\ CheckedAnswer(server.want, server.buf)
    BY <1>1, <1>6, Zenon DEF ServerOK
  <2>4. AnswerCheck(server.want, m) = "more"
    BY <1>3, <1>6, Zenon DEF Verdict
  <2> QED BY <1>2, <1>4, <2>2, <2>3, <2>4, AnswerMore, Zenon
<1>7. ServerOK(server') /\ \A p : Pending(server', p) = Count(m, p) + Count(q, p)
  <2>1. /\ server.at = "req" => /\ Len(m) >= 2 /\ Code(m) \in Functions /\ Checked(m)
                                /\ Ahead(RequestTarget(m), m)
        /\ server.at = "res" => CheckedAnswer(server.want, m) /\ Ahead(AnswerTarget(server.want, m), m)
    BY <1>5, <1>6, Zenon
  <2>2. /\ ServerOK([server EXCEPT !.buf = m, !.rx = q])
        /\ \A p : Pending([server EXCEPT !.buf = m, !.rx = q], p) = Count(m, p) + Count(q, p)
    BY <1>1, <1>2, <2>1, ServerWaits, Zenon
  <2> QED BY <1>3, <2>2, Zenon
<1>8. \A p : /\ Pending(server, p) \in Nat /\ Pending(server', p) \in Nat
             /\ Pending(server', p) <= Pending(server, p)
  BY <1>2, <1>7
<1> QED BY <1>3, <1>7, <1>8, ServerAlone, Zenon

\* The poll ends without an answer.
LEMMA ServerStops ==
  ASSUME IInv, NEW q \in Seq(WireByte), EndPoll(q),
         UNCHANGED <<client, other, sent, executed, plan, calls>>,
         \A p : Pending(server, p) \in Nat /\ Count(q, p) <= Pending(server, p)
  PROVE  IInv'
<1>1. ServerOK(server') /\ \A p : Pending(server', p) \in Nat /\ Pending(server', p) = Count(q, p)
  BY PollEnds
<1>2. \A p : /\ Pending(server, p) \in Nat /\ Pending(server', p) \in Nat
             /\ Pending(server', p) <= Pending(server, p)
  BY <1>1
<1> QED BY <1>1, <1>2, ServerAlone, Zenon

\* Or with a flush.
LEMMA ServerFlushes ==
  ASSUME IInv, EndPoll(<<>>), UNCHANGED <<client, other, sent, executed, plan, calls>>
  PROVE  IInv'
<1>1. <<>> \in Seq(WireByte)
  OBVIOUS
<1>2. \A p : Pending(server, p) \in Nat
  BY PendingType, Zenon DEF IInv, ServerOK
<1>3. \A p : Count(<<>>, p) <= Pending(server, p)
  BY <1>2, CountEmpty
<1> QED BY <1>1, <1>2, <1>3, ServerStops, Zenon

\* The server answers with a frame that carries body.
LEMMA ServerAnswers ==
  ASSUME IInv, NEW body \in Bodies, NEW f, f = body \o crc_calc(body), NEW b, NEW q \in Seq(WireByte),
         ServerSends(b, f, q)
  PROVE  /\ ClientOK(client') /\ ServerOK(server')
         /\ other' = other /\ sent' = sent /\ plan' = plan /\ calls' = calls
         /\ \A p : Pending(server', p) \in Nat /\ Pending(server', p) <= Count(q, p)
<1>1. ClientOK(client)
  BY Zenon DEF IInv
<1>2. other' = other /\ sent' = sent /\ plan' = plan /\ calls' = calls
  BY DEF ServerSends
<1>3. \A p : Count(q, p) \in Nat
  BY CountType
<1>4. ASSUME NEW x \in Seq(WireByte), EndPoll(x), x = q \/ x = <<>>
      PROVE  ServerOK(server') /\ \A p : Pending(server', p) \in Nat /\ Pending(server', p) <= Count(q, p)
  <2>1. ServerOK(server') /\ \A p : Pending(server', p) \in Nat /\ Pending(server', p) = Count(x, p)
    BY <1>4, PollEnds
  <2>2. \A p : Count(x, p) <= Count(q, p)
    <3>1. CASE x = q
      BY <1>3, <3>1
    <3>2. CASE x = <<>>
      BY <1>3, <3>2, CountEmpty
    <3> QED BY <1>4, <3>1, <3>2
  <2> QED BY <2>1, <2>2, Zenon
<1>5. ASSUME NEW h \in Arrivals(f), client' = [client EXCEPT !.rx = @ \o h] PROVE ClientOK(client')
  <2>1. h \in Seq(WireByte)
    BY FrameArrives, Zenon
  <2> QED BY <1>1, <1>5, <2>1, ClientHears, Zenon
<1>6. <<>> \in Seq(WireByte)
  OBVIOUS
<1>7. \/ (\E h \in Arrivals(f) : client' = [client EXCEPT !.rx = @ \o h]) /\ EndPoll(q)
      \/ (EndPoll(q) \/ EndPoll(<<>>)) /\ client' = client
  BY Zenon DEF ServerSends
<1>8. ClientOK(client')
  BY <1>1, <1>5, <1>7, Zenon
<1>9. ServerOK(server') /\ \A p : Pending(server', p) \in Nat /\ Pending(server', p) <= Count(q, p)
  BY <1>4, <1>6, <1>7, Zenon
<1> QED BY <1>2, <1>8, <1>9

\* A function that the server does not know.
LEMMA ServerDefaultStep ==
  ASSUME IInv, Enough(server, ServerTarget), NEW m, m = Taken(server, ServerTarget),
         ServerDefault(m, Verdict(m))
  PROVE  IInv'
<1>1. /\ ServerOK(server) /\ BagsOK(server, executed, sent) /\ other \in Seq(ForOther) /\ calls \in Nat
  BY Zenon DEF IInv, WorldInv
<1>2. m \in Seq(WireByte) /\ \A p : Pending(server, p) \in Nat
  BY <1>1, ServerTakes, Zenon
<1>3. Verdict(m) = "unknown" /\ executed' = executed
  BY Zenon DEF ServerDefault
<1>4. CASE ignored(m) \/ m[1] = Broadcast
  <2>1. EndPoll(<<>>) /\ UNCHANGED <<client, other, sent, executed, plan, calls>>
    BY <1>3, <1>4 DEF ServerDefault
  <2> QED BY <2>1, ServerFlushes
<1>5. CASE ~(ignored(m) \/ m[1] = Broadcast)
  <2>1. ServerSends(m, send_exception_msg(m, 1), <<>>)
    BY <1>5, Zenon DEF ServerDefault
  <2>2. m[1] = << 1 >>
    BY <1>5, Zenon DEF ignored
  <2>3. 1 \in 0 .. 255 /\ <<>> \in Seq(WireByte)
    OBVIOUS
  <2>4. m[1] \in DataByte
    BY <2>2, <2>3, ByteOf, Zenon
  <2>5. Len(m) >= 2
    <3>1. CASE server.at = "res"
      <4>1. AnswerCheck(server.want, m) = "unknown"
        BY <1>3, <3>1, Zenon DEF Verdict
      <4>2. AnswerCheck(server.want, m) \in {"CRC", "EXCEPTION", "INVALID_RESPONSE", "NONE", "INVALID_UNIT_ID",
                                             "INVALID_ARGUMENT", "more"}
        <5>1. EarlyVerdict(server.want, m) \in {"INVALID_UNIT_ID", "INVALID_RESPONSE", "INVALID_ARGUMENT", "more"}
          BY Zenon DEF EarlyVerdict
        <5> QED BY <5>1 DEF AnswerCheck
      <4> QED BY <4>1, <4>2
    <3>2. CASE server.at # "res"
      <4>1. CASE Len(m) = 2
        BY <4>1
      <4>2. CASE Len(m) # 2
        <5>1. Verdict(m) = IF Len(m) <= 2 THEN "more" ELSE RequestCheck(m)
          BY <3>2, <4>2, Zenon DEF Verdict
        <5>2. RequestCheck(m) \in {"INVALID_REQUEST", "more", "NONE", "CRC"}
          BY Zenon DEF RequestCheck
        <5> QED BY <1>3, <5>1, <5>2
      <4> QED BY <4>1, <4>2
    <3> QED BY <3>1, <3>2
  <2>6. PICK body \in Bodies : send_exception_msg(m, 1) = body \o crc_calc(body)
    BY <1>2, <2>3, <2>4, <2>5, ExceptionBody, Zenon
  <2>7. /\ ClientOK(client') /\ ServerOK(server')
        /\ other' = other /\ sent' = sent /\ plan' = plan /\ calls' = calls
        /\ \A p : Pending(server', p) \in Nat /\ Pending(server', p) <= Count(<<>>, p)
    BY <2>1, <2>3, <2>6, ServerAnswers, Zenon
  <2>8. \A p \in ForServer : /\ Pending(server, p) \in Nat /\ Pending(server', p) \in Nat
                             /\ Pending(server', p) <= Pending(server, p)
    BY <1>2, <2>7, CountEmpty
  <2>9. BagsOK(server', executed, sent)
    BY <1>1, <2>8, BagsKept
  <2> QED BY <1>1, <1>3, <2>7, <2>9, Establish, Zenon
<1> QED BY <1>4, <1>5

\* The server has too few bytes.
LEMMA ServerTimeoutStep ==
  ASSUME IInv, ServerTimeout
  PROVE  IInv'
<1>1. EndPoll(<<>>) /\ UNCHANGED <<client, other, sent, executed, plan, calls>>
  BY DEF ServerTimeout
<1> QED BY <1>1, ServerFlushes

\* A message is rejected.
LEMMA ServerRejectsStep ==
  ASSUME IInv, NEW m, NEW v, NEW q, ServerRejects(m, v, q)
  PROVE  IInv'
<1>1. EndPoll(<<>>) /\ UNCHANGED <<client, other, sent, executed, plan, calls>>
  BY DEF ServerRejects
<1> QED BY <1>1, ServerFlushes

\* The answer to another unit's request is over.
LEMMA ServerOverhearsStep ==
  ASSUME IInv, Enough(server, ServerTarget), NEW m, m = Taken(server, ServerTarget),
         NEW q, q = Left(server, ServerTarget), NEW v, ServerOverhears(m, v, q)
  PROVE  IInv'
<1>1. ServerOK(server)
  BY Zenon DEF IInv
<1>2. /\ q \in Seq(WireByte)
      /\ \A p : /\ Count(m, p) \in Nat /\ Count(q, p) \in Nat /\ Pending(server, p) \in Nat
                /\ Count(m, p) + Count(q, p) = Pending(server, p)
  BY <1>1, ServerTakes, Zenon
<1>3. EndPoll(q) /\ UNCHANGED <<client, other, sent, executed, plan, calls>>
  BY DEF ServerOverhears
<1>4. \A p : Pending(server, p) \in Nat /\ Count(q, p) <= Pending(server, p)
  BY <1>2
<1> QED BY <1>2, <1>3, <1>4, ServerStops, Zenon

\* A request that is the server's is one that can be executed.
LEMMA OwnBody ==
  ASSUME NEW m, Request(m), m[1] \in { << 1 >>, Broadcast }
  PROVE  Body(m) \in ForServer
<1>1. /\ m \in Seq(WireByte) /\ Len(m) >= 4 + FixedPart(Code(m)) /\ Code(m) \in Functions
      /\ Body(m) \in Bodies
  BY Zenon DEF Request
<1>2. FixedPart(Code(m)) \in 1 .. 9
  BY <1>1, Sizes
<1> DEFINE k == Len(m) - 2
<1>3. k \in Nat /\ k >= 1 /\ k <= Len(m) /\ 1 <= k + 1 /\ 1 \in 1 .. k - 1 + 1 /\ 1 + 1 - 1 = 1 /\ 1 \in Nat /\ 1 <= 1 /\ k - 1 + 1 = k
  BY <1>1, <1>2
<1>4. Body(m) = SubSeq(m, 1, k)
  BY DEF Body
<1> HIDE DEF k
<1>5. Len(SubSeq(m, 1, k)) = k - 1 + 1 /\ SubSeq(m, 1, k)[1] = m[1 + 1 - 1]
  BY <1>1, <1>3, Piece, Zenon
<1>6. Body(m)[1] = m[1] /\ Len(Body(m)) = k
  BY <1>3, <1>4, <1>5, Zenon
<1>7. Body(m) # <<>>
  BY <1>3, <1>6
<1> QED BY <1>1, <1>6, <1>7, Zenon DEF ForServer

\* A request that is handled is complete, and its checksum is right.
LEMMA HandledRequest ==
  ASSUME ServerOK(server), Enough(server, ServerTarget), NEW m, m = Taken(server, ServerTarget),
         server.at = "req", Verdict(m) = "NONE"
  PROVE  /\ Request(m) /\ Count(m, Body(m)) >= 1
         /\ m[1] \in DataByte /\ Code(m) \in 0 .. 255 /\ Len(m) >= 2
<1> DEFINE q == Left(server, ServerTarget)
<1>1. ServerOK(server)
  OBVIOUS
<1>2. m \in Seq(WireByte) /\ Len(m) = ServerTarget /\ Extends(m, server.buf)
  BY <1>1, ServerTakes, Zenon
<1>3. Request(m) /\ Count(m, Body(m)) >= 1
  <2>1. ServerTarget = RequestTarget(server.buf) /\ server.at # "res"
    BY DEF ServerTarget
  <2>2. server.buf \in Seq(WireByte)
    BY <1>1, Zenon DEF ServerOK
  <2>3. server.buf # <<>>
    <3> SUFFICES ASSUME server.buf = <<>> PROVE FALSE
      OBVIOUS
    <3>1. Len(<<>>) < 2
      OBVIOUS
    <3>2. Len(m) = 2
      BY <1>2, <2>1, <3>1, Zenon DEF RequestTarget
    <3>3. Len(m) <= 2
      BY <3>2
    <3>4. Verdict(m) \in {"unknown", "more"}
      BY <2>1, <3>2, <3>3, Zenon DEF Verdict
    <3> QED BY <3>4
  <2>4. Len(server.buf) >= 2 /\ Code(server.buf) \in Functions
    BY <1>1, <2>3, Zenon DEF ServerOK
  <2>5. Len(m) # 2 /\ ~(Len(m) <= 2)
    BY <1>2, <2>2, <2>4 DEF Extends
  <2>6. RequestCheck(m) = "NONE"
    BY <2>1, <2>5, Zenon DEF Verdict
  <2> QED BY <1>2, <2>1, <2>2, <2>4, <2>6, RequestComplete, Zenon
<1>4. /\ m[1] \in DataByte /\ Code(m) \in 0 .. 255 /\ Len(m) >= 2
  <2>1. m[1] \in DataByte /\ m[2] \in DataByte
    BY <1>3, RequestBytes, Zenon
  <2>2. Code(m) \in 0 .. 255
    BY <2>1, NumIn, Zenon DEF Code, WireByte
  <2>3. Len(m) >= 2
    BY <1>3, Sizes DEF Request
  <2> QED BY <2>1, <2>2, <2>3
<1> QED BY <1>3, <1>4

\* What the server sends for it is a message.
LEMMA HandlerSends ==
  ASSUME NEW m \in Seq(WireByte), Request(m), m[1] \in DataByte, Code(m) \in 0 .. 255, Len(m) >= 2,
         NEW handler, handler = handle_req_fc(m, Value), NEW q,
         \/ ServerRefuses(m, handler, q) \/ ServerFails(m, handler, q) \/ ServerExecutes(m, handler, q)
  PROVE  \E body \in Bodies :
           /\ ServerSends(Body(m), body \o crc_calc(body), q)
           /\ \/ executed' = executed
              \/ ~ignored(m) /\ executed' = executed (+) SetToBag({Body(m)})
<1> DEFINE x == Body(m)
           Goal == \E body \in Bodies :
                     /\ ServerSends(x, body \o crc_calc(body), q)
                     /\ \/ executed' = executed
                        \/ ~ignored(m) /\ executed' = executed (+) SetToBag({x})
<1> SUFFICES Goal
  OBVIOUS
<1>1. /\ handler.refusal \in 0 .. 4 /\ handler.answer \in Bodies
  BY HandlerAnswers, Zenon DEF Answers
<1> HIDE DEF x
<1>2. ASSUME NEW body \in Bodies, NEW f, f = body \o crc_calc(body), ServerSends(x, f, q),
             \/ executed' = executed
             \/ ~ignored(m) /\ executed' = executed (+) SetToBag({x})
      PROVE  Goal
  BY <1>2, Zenon
<1> HIDE DEF Goal
<1>3. ASSUME NEW e \in 0 .. 255
       PROVE  \E body \in Bodies : send_exception_msg(m, e) = body \o crc_calc(body)
  BY ExceptionBody, Zenon
<1>4. CASE ServerRefuses(m, handler, q)
  <2>1. ServerSends(x, send_exception_msg(m, handler.refusal), q) /\ executed' = executed
    BY <1>4, Zenon DEF ServerRefuses, x
  <2> DEFINE e == handler.refusal
  <2>2. e \in 0 .. 4
    BY <1>1
  <2> HIDE DEF e
  <2>3. e \in 0 .. 255
    BY <2>2
  <2>4. PICK body \in Bodies : send_exception_msg(m, e) = body \o crc_calc(body)
    BY <1>3, <2>3, Zenon
  <2>5. ServerSends(x, send_exception_msg(m, e), q)
    BY <2>1 DEF e
  <2> QED BY <1>2, <2>1, <2>4, <2>5, Zenon
<1>5. CASE ServerFails(m, handler, q)
  <2> DEFINE E == Failures \cup (IF Code(m) = 43 THEN {MapFailure(m)} \ {0} ELSE {})
  <2>1. PICK e \in E : ServerSends(x, send_exception_msg(m, e), q)
    BY <1>5, Zenon DEF ServerFails, x
  <2>2. executed' = executed (+) SetToBag({x}) /\ ~ignored(m)
    BY <1>5, Zenon DEF ServerFails, x
  <2>3. e \in 0 .. 255
    <3>1. e \in Failures \/ e = MapFailure(m)
      <4>1. CASE Code(m) = 43
        BY <4>1, Zenon
      <4>2. CASE Code(m) # 43
        BY <4>2, Zenon
      <4> QED BY <4>1, <4>2
    <3>2. CASE e \in Failures
      BY <3>2, BusAssumption
    <3>3. CASE e = MapFailure(m)
      <4>1. e \in 0 .. 4
        BY <3>3, MapFailureOf, Zenon
      <4> QED BY <4>1
    <3> QED BY <3>1, <3>2, <3>3
  <2>4. PICK body \in Bodies : send_exception_msg(m, e) = body \o crc_calc(body)
    BY <1>3, <2>3, Zenon
  <2> QED BY <1>2, <2>1, <2>2, <2>4, Zenon
<1>6. CASE ServerExecutes(m, handler, q)
  <2>1. ServerSends(x, Frame(m[1], Code(m), handler.answer), q)
    BY <1>6, Zenon DEF ServerExecutes, x
  <2>2. executed' = executed (+) SetToBag({x}) /\ ~ignored(m)
    BY <1>6, Zenon DEF ServerExecutes, x
  <2>3. PICK body \in Bodies : Frame(m[1], Code(m), handler.answer) = body \o crc_calc(body)
    <3> DEFINE c == Code(m)
               a == handler.answer
               u == m[1]
    <3>1. u \in DataByte /\ c \in 0 .. 255 /\ a \in Bodies
      BY <1>1
    <3> HIDE DEF c, a, u
    <3>2. \E body \in Bodies : Frame(u, c, a) = body \o crc_calc(body) /\ Len(body) >= 2 /\ body[1] = u
      BY <3>1, FrameBody
    <3> QED BY <3>2, Zenon DEF c, a, u
  <2> QED BY <1>2, <2>1, <2>2, <2>3, Zenon
<1> QED BY <1>4, <1>5, <1>6

\* A complete request is handled.
LEMMA ServerHandlesStep ==
  ASSUME IInv, Enough(server, ServerTarget), NEW m, m = Taken(server, ServerTarget),
         NEW q, q = Left(server, ServerTarget), server.at = "req", Verdict(m) = "NONE",
         ServerHandles(m, q)
  PROVE  IInv'
<1>1. /\ ServerOK(server) /\ ClientOK(client) /\ BagsOK(server, executed, sent)
      /\ other \in Seq(ForOther) /\ calls \in Nat
  BY Zenon DEF IInv, WorldInv
<1>2. /\ m \in Seq(WireByte) /\ Len(m) = ServerTarget /\ Extends(m, server.buf) /\ q \in Seq(WireByte)
      /\ \A p : /\ Count(m, p) \in Nat /\ Count(q, p) \in Nat /\ Pending(server, p) \in Nat
                /\ Count(m, p) + Count(q, p) = Pending(server, p)
  BY <1>1, ServerTakes, Zenon
<1>3. Request(m) /\ Count(m, Body(m)) >= 1 /\ m[1] \in DataByte /\ Code(m) \in 0 .. 255 /\ Len(m) >= 2
  BY <1>1, HandledRequest, Zenon
<1> DEFINE handler == handle_req_fc(m, Value)
           x == Body(m)
<1>4. /\ handler.refusal \in 0 .. 4 /\ handler.answer \in Bodies
      /\ Expected(handler.overheard) /\ handler.overheard.form # "raw"
  BY <1>3, HandlerAnswers, Zenon DEF Answers
<1>5. \A p : Pending(server, p) \in Nat /\ Count(q, p) \in Nat /\ Count(q, p) <= Pending(server, p)
  BY <1>2
<1>6. \A p : Count(q, p) + (IF p = x THEN 1 ELSE 0) <= Pending(server, p)
  <2> TAKE p
  <2>1. Count(m, p) \in Nat /\ Count(q, p) \in Nat /\ Count(m, p) + Count(q, p) = Pending(server, p)
    BY <1>2
  <2>2. p = x => Count(m, p) >= 1
    BY <1>3
  <2> HIDE DEF x
  <2> QED BY <2>1, <2>2
<1>7. m[1] \in { << 1 >>, Broadcast } => x \in ForServer
  BY <1>3, OwnBody, Zenon
<1> HIDE DEF handler, x
<1>8. ASSUME NEW body \in Bodies, NEW f, f = body \o crc_calc(body), ServerSends(x, f, q),
             \/ executed' = executed
             \/ m[1] \in { << 1 >>, Broadcast } /\ executed' = executed (+) SetToBag({x})
      PROVE  IInv'
  <2>1. /\ ClientOK(client') /\ ServerOK(server')
        /\ other' = other /\ sent' = sent /\ plan' = plan /\ calls' = calls
        /\ \A p : Pending(server', p) \in Nat /\ Pending(server', p) <= Count(q, p)
    BY <1>2, <1>8, ServerAnswers
  <2>2. CASE executed' = executed
    <3>1. \A p \in ForServer : /\ Pending(server, p) \in Nat /\ Pending(server', p) \in Nat
                               /\ Pending(server', p) <= Pending(server, p)
      BY <1>5, <2>1
    <3>2. BagsOK(server', executed, sent)
      BY <1>1, <3>1, BagsKept
    <3> QED BY <1>1, <2>1, <2>2, <3>2, Establish, Zenon
  <2>3. CASE m[1] \in { << 1 >>, Broadcast } /\ executed' = executed (+) SetToBag({x})
    <3>1. x \in ForServer
      BY <1>7, <2>3
    <3>2. \A p \in ForServer : /\ Pending(server, p) \in Nat /\ Pending(server', p) \in Nat
                               /\ Pending(server', p) + (IF p = x THEN 1 ELSE 0) <= Pending(server, p)
      <4> TAKE p \in ForServer
      <4>1. Pending(server', p) \in Nat /\ Pending(server', p) <= Count(q, p)
        BY <2>1
      <4>2. Pending(server, p) \in Nat /\ Count(q, p) \in Nat /\ Count(q, p) + (IF p = x THEN 1 ELSE 0) <= Pending(server, p)
        BY <1>5, <1>6
      <4> QED BY <4>1, <4>2
    <3>3. BagsOK(server', executed (+) SetToBag({x}), sent)
      BY <1>1, <3>1, <3>2, BagsExecuted
    <3> QED BY <1>1, <2>1, <2>3, <3>3, Establish, Zenon
  <2> QED BY <1>8, <2>2, <2>3
<1>9. ~ignored(m) <=> m[1] \in { << 1 >>, Broadcast }
  BY Zenon DEF ignored
<1>10. CASE ServerIgnores(m, handler, q)
  <2>1. /\ server' = [at |-> "res", rx |-> q, buf |-> <<>>, want |-> handler.overheard]
        /\ UNCHANGED <<client, other, sent, executed, plan, calls>>
    BY <1>10 DEF ServerIgnores
  <2>2. ServerOK(server') /\ \A p : Pending(server', p) = Count(q, p)
    BY <1>2, <1>4, <2>1, ServerListens, Zenon
  <2>3. \A p : /\ Pending(server, p) \in Nat /\ Pending(server', p) \in Nat
               /\ Pending(server', p) <= Pending(server, p)
    BY <1>5, <2>2
  <2> QED BY <2>1, <2>2, <2>3, ServerAlone, Zenon
<1>11. CASE ServerRefuses(m, handler, q) \/ ServerFails(m, handler, q) \/ ServerExecutes(m, handler, q)
  <2>1. handler = handle_req_fc(m, Value)
    BY DEF handler
  <2>2. PICK body \in Bodies :
          /\ ServerSends(Body(m), body \o crc_calc(body), q)
          /\ \/ executed' = executed
             \/ ~ignored(m) /\ executed' = executed (+) SetToBag({Body(m)})
    BY <1>2, <1>3, <1>11, <2>1, HandlerSends, Zenon
  <2> QED BY <1>8, <1>9, <2>2, Zenon DEF x
<1>12. CASE ServerBroadcast(m, handler, q)
  <2>1. /\ m[1] = Broadcast /\ EndPoll(q)
        /\ client' = client /\ other' = other /\ sent' = sent /\ plan' = plan /\ calls' = calls
    BY <1>12 DEF ServerBroadcast
  <2>2. executed' = executed \/ executed' = executed (+) SetToBag({x})
    BY <1>12, Zenon DEF ServerBroadcast, x
  <2>3. ServerOK(server') /\ \A p : Pending(server', p) \in Nat /\ Pending(server', p) = Count(q, p)
    BY <1>2, <2>1, PollEnds, Zenon
  <2>4. CASE executed' = executed
    BY <1>2, <1>5, <2>1, <2>4, ServerStops
  <2>5. CASE executed' = executed (+) SetToBag({x})
    <3>1. x \in ForServer
      BY <1>7, <2>1, Zenon
    <3>2. \A p \in ForServer : /\ Pending(server, p) \in Nat /\ Pending(server', p) \in Nat
                               /\ Pending(server', p) + (IF p = x THEN 1 ELSE 0) <= Pending(server, p)
      BY <1>5, <1>6, <2>3
    <3>3. BagsOK(server', executed (+) SetToBag({x}), sent)
      BY <1>1, <3>1, <3>2, BagsExecuted
    <3> QED BY <1>1, <2>1, <2>3, <2>5, <3>3, Establish, Zenon
  <2> QED BY <2>2, <2>4, <2>5
<1> QED BY <1>10, <1>11, <1>12, Zenon DEF ServerHandles, handler

\* A step of the server.
LEMMA ServerStepKeeps ==
  ASSUME IInv, ServerStep
  PROVE  IInv'
<1>1. CASE ServerTimeout
  BY <1>1, ServerTimeoutStep
<1>2. CASE Enough(server, ServerTarget) /\ ~ServerTimeout
  <2> DEFINE m == Taken(server, ServerTarget)
             q == Left(server, ServerTarget)
  <2>1. \/ ServerReceives(m, Verdict(m), q)
        \/ ServerRejects(m, Verdict(m), q)
        \/ ServerOverhears(m, Verdict(m), q)
        \/ ServerDefault(m, Verdict(m))
        \/ server.at = "req" /\ Verdict(m) = "NONE" /\ ServerHandles(m, q)
    BY <1>2, Zenon DEF ServerStep
  <2>2. m = Taken(server, ServerTarget) /\ q = Left(server, ServerTarget)
    OBVIOUS
  <2> HIDE DEF m, q
  <2>3. CASE ServerReceives(m, Verdict(m), q)
    BY <1>2, <2>2, <2>3, ServerReceivesStep, Zenon
  <2>4. CASE ServerRejects(m, Verdict(m), q)
    BY <2>4, ServerRejectsStep, Zenon
  <2>5. CASE ServerOverhears(m, Verdict(m), q)
    BY <1>2, <2>2, <2>5, ServerOverhearsStep, Zenon
  <2>6. CASE ServerDefault(m, Verdict(m))
    BY <1>2, <2>2, <2>6, ServerDefaultStep, Zenon
  <2>7. CASE server.at = "req" /\ Verdict(m) = "NONE" /\ ServerHandles(m, q)
    BY <1>2, <2>2, <2>7, ServerHandlesStep, Zenon
  <2> QED BY <2>1, <2>3, <2>4, <2>5, <2>6, <2>7
<1> QED BY <1>1, <1>2, Zenon DEF ServerStep
-----------------------------------------------------------------------------
(* The other unit, and the bus as a whole.                                 *)

\* What unit 2 answers is not a message for the server.
LEMMA OtherFrame ==
  ASSUME NEW b \in ForOther,
         NEW g, \/ g = send_exception_msg(b, 2)
                \/ /\ Code(b) \in Functions /\ RequestTarget(b) = 0 /\ Len(b) = RequestEnd(b) + 2
                   /\ g = Frame(b[1], Code(b), handle_req_fc(b, Value).answer)
  PROVE  \E body \in Bodies : g = body \o crc_calc(body) /\ Len(body) >= 2 /\ body \notin ForServer
<1>1. b \in Seq(WireByte) /\ Len(b) >= 4 /\ Body(b) \in Bodies /\ b[1] = << 2 >>
  BY Zenon DEF ForOther
<1>2. 2 \in 0 .. 255 /\ Len(b) >= 2
  BY <1>1
<1>3. b[1] \in DataByte
  BY <1>1, <1>2, ByteOf, Zenon
<1>4. \E body \in Bodies : g = body \o crc_calc(body) /\ Len(body) >= 2 /\ body[1] = b[1]
  <2>1. CASE g = send_exception_msg(b, 2)
    BY <1>1, <1>2, <1>3, <2>1, ExceptionBody, Zenon
  <2>2. CASE /\ Code(b) \in Functions /\ RequestTarget(b) = 0 /\ Len(b) = RequestEnd(b) + 2
             /\ g = Frame(b[1], Code(b), handle_req_fc(b, Value).answer)
    <3>1. FixedPart(Code(b)) \in 1 .. 9
      BY <2>2, Sizes
    <3>2. Len(b) >= 2 + FixedPart(Code(b))
      BY <1>1, <2>2, <3>1 DEF RequestTarget
    <3>3. RequestEnd(b) \in Nat /\ RequestEnd(b) >= 2 + FixedPart(Code(b))
      BY <1>1, <2>2, <3>2, RequestEndType
    <3>4. Len(b) >= 4 + FixedPart(Code(b))
      BY <2>2, <3>1, <3>3
    <3>5. Request(b)
      BY <1>1, <2>2, <3>4, Zenon DEF Request
    <3> DEFINE a == handle_req_fc(b, Value).answer
               c == Code(b)
    <3>6. a \in Bodies
      BY <3>5, HandlerAnswers, Zenon DEF Answers
    <3>7. c \in 0 .. 255
      <4>1. b[2] \in WireByte
        BY <1>1
      <4> QED BY <4>1, NumIn, Zenon DEF Code
    <3>8. g = Frame(b[1], c, a)
      BY <2>2
    <3> HIDE DEF a, c
    <3>9. \E body \in Bodies : Frame(b[1], c, a) = body \o crc_calc(body) /\ Len(body) >= 2 /\ body[1] = b[1]
      BY <1>3, <3>6, <3>7, FrameBody
    <3> QED BY <3>8, <3>9, Zenon
  <2> QED BY <2>1, <2>2
<1>5. b[1] \notin { << 1 >>, Broadcast }
  <2>1. << 2 >>[1] = 2 /\ << 1 >>[1] = 1 /\ Broadcast[1] = 0
    BY DEF Broadcast
  <2> QED BY <1>1, <2>1
<1> QED BY <1>4, <1>5, Zenon DEF ForServer

\* Unit 2 answers, or does not.
LEMMA OtherAnswersStep ==
  ASSUME IInv, OtherAnswers
  PROVE  IInv'
<1> DEFINE b == Head(other)
           complete == Code(b) \in Functions /\ RequestTarget(b) = 0 /\ Len(b) = RequestEnd(b) + 2
           answers == IF complete THEN {Frame(b[1], Code(b), handle_req_fc(b, Value).answer)} ELSE {}
<1>1. /\ ServerOK(server) /\ ClientOK(client) /\ BagsOK(server, executed, sent)
      /\ other \in Seq(ForOther) /\ calls \in Nat
  BY Zenon DEF IInv, WorldInv
<1>2. /\ other # <<>> /\ other' = Tail(other)
      /\ sent' = sent /\ executed' = executed /\ plan' = plan /\ calls' = calls
  BY DEF OtherAnswers
<1>3. b \in ForOther /\ other' \in Seq(ForOther)
  BY <1>1, <1>2
<1>4. \/ \E g \in answers \cup {send_exception_msg(b, 2)} : \E h \in Arrivals(g) :
           /\ client' = [client EXCEPT !.rx = @ \o h]
           /\ server' = [server EXCEPT !.rx = @ \o h]
      \/ client' = client /\ server' = server
  BY Zenon DEF OtherAnswers
<1>5. ASSUME NEW g \in answers \cup {send_exception_msg(b, 2)}, NEW h \in Arrivals(g),
             client' = [client EXCEPT !.rx = @ \o h], server' = [server EXCEPT !.rx = @ \o h]
      PROVE  IInv'
  <2>1. \/ g = send_exception_msg(b, 2)
        \/ complete /\ g = Frame(b[1], Code(b), handle_req_fc(b, Value).answer)
    BY <1>5, Zenon
  <2>2. PICK body \in Bodies : g = body \o crc_calc(body) /\ body \notin ForServer
    <3> HIDE DEF b
    <3> QED BY <1>3, <2>1, OtherFrame, Zenon
  <2>3. h \in Seq(WireByte) /\ \A p : Count(h, p) \in Nat /\ Count(h, p) <= IF p = body THEN 1 ELSE 0
    BY <1>5, <2>2, FrameArrives, Zenon
  <2>4. ClientOK(client')
    BY <1>1, <1>5, <2>3, ClientHears, Zenon
  <2>5. ServerOK(server') /\ \A p : Pending(server', p) = Pending(server, p) + Count(h, p)
    BY <1>1, <1>5, <2>3, ServerHears, Zenon
  <2>6. \A p : Pending(server, p) \in Nat
    BY <1>1, PendingType, Zenon DEF ServerOK
  <2>7. \A p \in ForServer : /\ Pending(server, p) \in Nat /\ Pending(server', p) \in Nat
                             /\ Pending(server', p) <= Pending(server, p)
    <3> TAKE p \in ForServer
    <3>1. p # body
      BY <2>2
    <3>2. Count(h, p) \in Nat /\ Count(h, p) <= 0
      BY <2>3, <3>1, Zenon
    <3>3. Pending(server, p) \in Nat /\ Pending(server', p) = Pending(server, p) + Count(h, p)
      BY <2>5, <2>6
    <3> QED BY <3>2, <3>3
  <2>8. BagsOK(server', executed, sent)
    BY <1>1, <2>7, BagsKept
  <2> QED BY <1>1, <1>2, <1>3, <2>4, <2>5, <2>8, Establish, Zenon
<1>6. CASE client' = client /\ server' = server
  BY <1>1, <1>2, <1>3, <1>6, Establish, Zenon
<1> HIDE DEF answers, b
<1> QED BY <1>4, <1>5, <1>6, Zenon

\* Nothing changes.
LEMMA StutterStep ==
  ASSUME IInv, UNCHANGED vars
  PROVE  IInv'
<1>1. /\ client' = client /\ server' = server /\ other' = other /\ sent' = sent
      /\ executed' = executed /\ plan' = plan /\ calls' = calls
  BY DEF vars
<1>2. /\ ServerOK(server) /\ ClientOK(client) /\ BagsOK(server, executed, sent)
      /\ other \in Seq(ForOther) /\ calls \in Nat
  BY Zenon DEF IInv, WorldInv
<1> QED BY <1>1, <1>2, Establish, Zenon

\* The bus as it starts.
LEMMA InitHolds ==
  ASSUME Init
  PROVE  IInv
<1>1. /\ client = Idle /\ server = Polling /\ other = <<>> /\ sent = EmptyBag /\ executed = EmptyBag
      /\ plan \in Plans /\ calls = 0
  BY Zenon DEF Init
<1>2. ClientOK(Idle)
  <2>1. Idle = ClientState("idle", NoCall, <<>>, <<>>, "NONE", 0, <<>>, FALSE, FALSE, 0)
    BY DEF Idle, ClientState
  <2>2. "idle" \in {"idle", "done"} /\ 0 \in 0 .. 255 /\ <<>> \in Seq(WireByte)
    OBVIOUS
  <2> QED BY <2>1, <2>2, ClientRests, Zenon
<1>3. ServerOK(Polling) /\ \A p : Pending(Polling, p) = 0
  <2>1. Polling = [Polling EXCEPT !.rx = <<>>]
    BY DEF Polling
  <2>2. <<>> \in Seq(WireByte)
    OBVIOUS
  <2>3. /\ ServerOK([Polling EXCEPT !.rx = <<>>])
        /\ \A p : Pending([Polling EXCEPT !.rx = <<>>], p) = Count(<<>>, p)
    BY <2>2, PollOK
  <2> QED BY <2>1, <2>3, CountEmpty, Zenon
<1>4. BagsOK(Polling, EmptyBag, EmptyBag)
  <2>1. DOMAIN EmptyBag = {}
    BY DEF EmptyBag, SetToBag
  <2>2. \A p : Copies(EmptyBag, p) = 0
    BY <2>1 DEF Copies
  <2>3. \A p \in ForServer : Copies(EmptyBag, p) + Pending(Polling, p) <= Copies(EmptyBag, p)
    BY <1>3, <2>2
  <2> QED BY <2>1, <2>3 DEF BagsOK
<1>5. other \in Seq(ForOther) /\ calls \in Nat
  BY <1>1
<1> QED BY <1>1, <1>2, <1>3, <1>4, <1>5, Zenon DEF IInv, WorldInv

\* Every step of the bus keeps the invariant.
LEMMA NextKeeps ==
  ASSUME IInv, [Next]_vars
  PROVE  IInv'
<1>1. CASE calls < Len(plan.calls) /\ \E r \in plan.calls[calls + 1] : Call(r)
  <2>1. PICK r \in plan.calls[calls + 1] : Call(r)
    BY <1>1
  <2> QED BY <1>1, <2>1, CallStep, Zenon
<1>2. CASE Send
  BY <1>2, SendStep
<1>3. CASE ClientRecv
  BY <1>3, ClientRecvStep
<1>4. CASE ClientTimeout
  BY <1>4, ClientTimeoutStep
<1>5. CASE Return
  BY <1>5, ReturnStep
<1>6. CASE ServerStep
  BY <1>6, ServerStepKeeps
<1>7. CASE OtherAnswers
  BY <1>7, OtherAnswersStep
<1>8. CASE Terminating
  BY <1>8, StutterStep, Zenon DEF Terminating
<1>9. CASE UNCHANGED vars
  BY <1>9, StutterStep
<1> QED BY <1>1, <1>2, <1>3, <1>4, <1>5, <1>6, <1>7, <1>8, <1>9, Zenon DEF Next, ClientStep

\* The invariant of the bus: both nmbs_t are where the code can be, a byte count
\* that is relied on has been compared with its limit, and every message for the
\* server that is executed or on its way was sent once for each time.
THEOREM Invariance == Spec => []IInv
<1>1. Init => IInv
  BY InitHolds
<1>2. IInv /\ [Next]_vars => IInv'
  BY NextKeeps
<1> QED BY <1>1, <1>2, PTL DEF Spec

\* What recv is asked for fits msg.buf, but for the 2 bytes more of
\* handle_write_multiple_registers and the objects of an identification.
THEOREM ReceivesFit == Spec => []RecvFitsBuffer
<1>1. IInv => RecvFitsBuffer
  <2> SUFFICES ASSUME IInv PROVE RecvFitsBuffer
    OBVIOUS
  <2>1. ServerOK(server) /\ ClientOK(client)
    BY Zenon DEF IInv
  <2>2. ASSUME server.at = "req", Len(server.buf) >= 2
        PROVE  ServerTarget <= IF Code(server.buf) = 16 THEN 262 ELSE 260
    <3>1. server.buf \in Seq(WireByte)
      BY <2>1, Zenon DEF ServerOK
    <3>2. server.buf # <<>>
      BY <2>2
    <3>3. Code(server.buf) \in Functions /\ Checked(server.buf)
      BY <2>1, <2>2, <3>2, Zenon DEF ServerOK
    <3>4. ServerTarget = RequestTarget(server.buf)
      BY <2>2, Zenon DEF ServerTarget
    <3>5. RequestTarget(server.buf) <= IF Code(server.buf) = 16 THEN 262 ELSE 260
      BY <2>2, <3>1, <3>3, RequestFits, Zenon
    <3> QED BY <3>4, <3>5, Zenon
  <2>3. ASSUME server.at = "res", server.want.form # "objects" PROVE ServerTarget <= 260
    <3>1. server.at # "req"
      BY <2>3
    <3>2. server.buf \in Seq(WireByte) /\ Expected(server.want) /\ CheckedAnswer(server.want, server.buf)
      BY <2>1, <2>3, Zenon DEF ServerOK
    <3>3. AnswerTarget(server.want, server.buf) <= 260
      BY <2>3, <3>2, AnswerFits, Zenon
    <3> QED BY <3>1, <3>3, Zenon DEF ServerTarget
  <2>4. ASSUME client.at = "recv", client.r.raw \/ client.r.fc # 43 PROVE ClientTarget <= 260
    <3> DEFINE w == Wants(client)
    <3>1. /\ client.buf \in Seq(WireByte) /\ client.object \in 0 .. 255
          /\ client.at \in {"send", "recv"} => WellFormed(client.r) /\ ~Refused(client.r) /\ Expected(w)
      BY <2>1, ClientIs, Zenon
    <3>2. WellFormed(client.r) /\ Expected(w)
      BY <2>4, <3>1, Zenon
    <3>3. CheckedAnswer(w, client.buf)
      BY <2>1, <2>4, Zenon DEF ClientOK
    <3>4. w.form # "objects"
      <4>1. Sound(Function(client.r, client.object, Len(client.ids)), client.r)
        BY <3>1, <3>2, SoundCall, Zenon
      <4> QED BY <2>4, <4>1, Zenon DEF Sound, Wants
    <3>5. ClientTarget = AnswerTarget(w, client.buf)
      BY Zenon DEF ClientTarget, Awaited, Wants
    <3> HIDE DEF w
    <3>6. AnswerTarget(w, client.buf) <= 260
      BY <3>1, <3>2, <3>3, <3>4, AnswerFits, Zenon
    <3> QED BY <3>5, <3>6, Zenon
  <2> QED BY <2>2, <2>3, <2>4, Zenon DEF RecvFitsBuffer
<1> QED BY <1>1, Invariance, PTL

\* The callbacks of the server are called for requests that were sent to it, and
\* for none more often than it was sent: a message that is lost, garbled, cut or
\* overheard is never executed, nor one executed twice.
THEOREM ExecutedWasSentAlways == Spec => []ExecutedWasSent
<1>1. IInv => ExecutedWasSent
  <2> SUFFICES ASSUME IInv PROVE ExecutedWasSent
    OBVIOUS
  <2>1. BagsOK(server, executed, sent) /\ ServerOK(server)
    BY Zenon DEF IInv
  <2>2. \A p : Pending(server, p) \in Nat
    BY <2>1, PendingType, Zenon DEF ServerOK
  <2>3. \A p \in DOMAIN executed : /\ p \in DOMAIN sent /\ executed[p] <= sent[p]
                                   /\ p[1] \in { << 1 >>, Broadcast }
    <3> SUFFICES ASSUME NEW p \in DOMAIN executed
                 PROVE  p \in DOMAIN sent /\ executed[p] <= sent[p] /\ p[1] \in { << 1 >>, Broadcast }
      OBVIOUS
    <3>1. p \in ForServer /\ executed[p] \in Nat \ {0} /\ Copies(executed, p) = executed[p]
      BY <2>1 DEF BagsOK, Copies
    <3>2. p[1] \in { << 1 >>, Broadcast }
      BY <3>1 DEF ForServer
    <3>3. executed[p] + Pending(server, p) <= Copies(sent, p)
      BY <2>1, <3>1, Zenon DEF BagsOK
    <3>4. Copies(sent, p) \in Nat
      BY <2>1 DEF BagsOK, Copies
    <3>5. Pending(server, p) \in Nat
      BY <2>2
    <3>6. Copies(sent, p) # 0 /\ executed[p] <= Copies(sent, p)
      BY <3>1, <3>3, <3>4, <3>5
    <3>7. p \in DOMAIN sent /\ Copies(sent, p) = sent[p]
      BY <3>6, Zenon DEF Copies
    <3> QED BY <3>2, <3>6, <3>7, Zenon
  <2> QED BY <2>3 DEF ExecutedWasSent, BagToSet, \sqsubseteq
<1> QED BY <1>1, Invariance, PTL
-----------------------------------------------------------------------------
(* Where the messages begin.                                               *)

\* The last byte of a checksum.
IsEnd(x) == x[1] = 257

\* The message p is at the bytes behind n, and a message ends at n.
Message(s, n, p) ==
  /\ Len(p) >= 1 /\ n + Len(p) + 2 <= Len(s)
  /\ \A k \in 1 .. Len(p) : s[n + k] = p[k]
  /\ s[n + Len(p) + 1] = <<256, p>> /\ s[n + Len(p) + 2] = <<257, p>>
  /\ n = 0 \/ IsEnd(s[n])

\* Whole messages, one behind the other.
Whole(s) ==
  /\ \A i \in 1 .. Len(s) : IsEnd(s[i]) =>
       \E n \in Nat, p \in Bodies : i = n + Len(p) + 2 /\ Message(s, n, p)
  /\ s = <<>> \/ IsEnd(s[Len(s)])

\* What the server has read of a message and what it will read.
Stream(s) == s.buf \o s.rx

\* Without faults these are whole messages.
Sync(s, n) == n \in Nat /\ (n = 0 => Whole(Stream(s)))

\* Data and the first byte of a checksum do not end a message.
LEMMA EndBytes ==
  /\ \A x \in DataByte : ~IsEnd(x)
  /\ \A p : ~IsEnd(<<256, p>>) /\ IsEnd(<<257, p>>)
<1>1. \A x \in DataByte : ~IsEnd(x)
  BY DEF DataByte, IsEnd
<1> QED BY <1>1 DEF IsEnd

\* Nothing is whole.
LEMMA WholeEmpty == Whole(<<>>)
BY DEF Whole

\* The bytes of the second part.
LEMMA JoinedAt == \A s, t \in Seq(WireByte) : \A k \in 1 .. Len(t) : (s \o t)[Len(s) + k] = t[k]
OBVIOUS

\* A frame is whole.
LEMMA WholeFrame ==
  ASSUME NEW p \in Bodies, Len(p) >= 1
  PROVE  Whole(p \o crc_calc(p))
<1> DEFINE c == crc_calc(p)
           f == p \o c
           l == Len(p)
<1>1. p \in Seq(WireByte) /\ c \in Seq(WireByte) /\ Len(c) = 2
  BY BodyOnLine, CrcOnLine
<1>2. c[1] = <<256, p>> /\ c[2] = <<257, p>>
  BY DEF crc_calc
<1>3. l \in Nat /\ l >= 1
  BY <1>1
<1> HIDE DEF c
<1>4. Len(f) = l + 2 /\ \A k \in 1 .. l : f[k] = p[k]
  <2>1. Len(f) = Len(p) + Len(c) /\ \A k \in 1 .. Len(p) : f[k] = p[k]
    BY <1>1, Joined, Zenon
  <2> HIDE DEF f
  <2> QED BY <1>1, <2>1
<1>5. f[l + 1] = c[1] /\ f[l + 2] = c[2]
  <2>1. 1 \in 1 .. Len(c) /\ 2 \in 1 .. Len(c)
    BY <1>1
  <2> QED BY <1>1, <2>1, JoinedAt, Zenon
<1>6. \A k \in 1 .. l : p[k] \in DataByte
  BY DEF Bodies
<1> HIDE DEF f, l
<1>7. Message(f, 0, p)
  <2>1. 0 + l + 2 <= Len(f) /\ \A k \in 1 .. l : f[0 + k] = p[k]
    BY <1>3, <1>4
  <2>2. f[0 + l + 1] = <<256, p>> /\ f[0 + l + 2] = <<257, p>>
    BY <1>2, <1>3, <1>5
  <2> QED BY <1>3, <2>1, <2>2 DEF Message, l
<1>8. ASSUME NEW i \in 1 .. Len(f), IsEnd(f[i]) PROVE i = 0 + l + 2
  <2>1. i \in Nat /\ (i \in 1 .. l \/ i = l + 1 \/ i = l + 2)
    BY <1>3, <1>4
  <2>2. i \notin 1 .. l
    BY <1>4, <1>6, <1>8, EndBytes
  <2>3. i # l + 1
    <3>1. ~IsEnd(c[1])
      BY <1>2, EndBytes
    <3> QED BY <1>5, <1>8, <3>1
  <2> QED BY <1>3, <2>1, <2>2, <2>3
<1>9. 0 \in Nat
  OBVIOUS
<1>10. IsEnd(f[Len(f)])
  BY <1>2, <1>4, <1>5, EndBytes
<1> QED BY <1>7, <1>8, <1>9, <1>10, Zenon DEF Whole, f, l, c

\* A message stays where it is when bytes come behind it, and moves when they come
\* before it, if these end with a message.
LEMMA MessageJoined ==
  ASSUME NEW s \in Seq(WireByte), NEW t \in Seq(WireByte), NEW n \in Nat, NEW p \in Bodies
  PROVE  /\ Message(s, n, p) => Message(s \o t, n, p)
         /\ Message(t, n, p) /\ (s = <<>> \/ IsEnd(s[Len(s)])) => Message(s \o t, Len(s) + n, p)
<1> DEFINE l == Len(p)
           a == Len(s)
           b == Len(t)
           u == s \o t
<1>1. l \in Nat /\ a \in Nat /\ b \in Nat
  BY DEF Bodies
<1>2. Len(u) = a + b /\ \A i \in 1 .. a : u[i] = s[i]
  BY Joined, Zenon
<1>3. \A i \in 1 .. b : u[a + i] = t[i]
  BY JoinedAt, Zenon
<1>4. s = <<>> => a = 0
  OBVIOUS
<1> HIDE DEF u, l, a, b
<1>5. ASSUME Message(s, n, p) PROVE Message(u, n, p)
  <2>1. /\ l >= 1 /\ n + l + 2 <= a /\ \A k \in 1 .. l : s[n + k] = p[k]
        /\ s[n + l + 1] = <<256, p>> /\ s[n + l + 2] = <<257, p>> /\ (n = 0 \/ IsEnd(s[n]))
    BY <1>5 DEF Message, l, a
  <2>2. n + l + 2 <= Len(u)
    BY <1>1, <1>2, <2>1
  <2>3. \A k \in 1 .. l : u[n + k] = p[k]
    BY <1>1, <1>2, <2>1
  <2>4. u[n + l + 1] = s[n + l + 1] /\ u[n + l + 2] = s[n + l + 2]
    BY <1>1, <1>2, <2>1
  <2>5. n = 0 \/ IsEnd(u[n])
    BY <1>1, <1>2, <2>1
  <2> QED BY <2>1, <2>2, <2>3, <2>4, <2>5 DEF Message, l
<1>6. ASSUME Message(t, n, p), a = 0 \/ IsEnd(s[a]) PROVE Message(u, a + n, p)
  <2>1. /\ l >= 1 /\ n + l + 2 <= b /\ \A k \in 1 .. l : t[n + k] = p[k]
        /\ t[n + l + 1] = <<256, p>> /\ t[n + l + 2] = <<257, p>> /\ (n = 0 \/ IsEnd(t[n]))
    BY <1>6 DEF Message, l, b
  <2>2. (a + n) + l + 2 <= Len(u)
    BY <1>1, <1>2, <2>1
  <2>3. ASSUME NEW k \in 1 .. l PROVE u[(a + n) + k] = p[k]
    <3>1. n + k \in 1 .. b /\ (a + n) + k = a + (n + k)
      BY <1>1, <2>1
    <3>2. u[a + (n + k)] = t[n + k]
      BY <1>3, <3>1, Zenon
    <3> QED BY <2>1, <3>1, <3>2
  <2>4. u[(a + n) + l + 1] = t[n + l + 1] /\ u[(a + n) + l + 2] = t[n + l + 2]
    <3>1. /\ n + l + 1 \in 1 .. b /\ (a + n) + l + 1 = a + (n + l + 1)
          /\ n + l + 2 \in 1 .. b /\ (a + n) + l + 2 = a + (n + l + 2)
      BY <1>1, <2>1
    <3>2. u[a + (n + l + 1)] = t[n + l + 1] /\ u[a + (n + l + 2)] = t[n + l + 2]
      BY <1>3, <3>1
    <3> QED BY <3>1, <3>2
  <2>5. a + n = 0 \/ IsEnd(u[a + n])
    <3>1. CASE n = 0 /\ a # 0
      BY <1>1, <1>2, <1>6, <3>1
    <3>2. CASE n # 0
      <4>1. n \in 1 .. b
        BY <1>1, <2>1, <3>2
      <4> QED BY <1>3, <2>1, <3>2, <4>1
    <3> QED BY <1>1, <3>1, <3>2
  <2> QED BY <2>1, <2>2, <2>3, <2>4, <2>5 DEF Message, l
<1> QED BY <1>4, <1>5, <1>6 DEF u, a

\* Whole messages behind whole messages.
LEMMA WholeJoined ==
  ASSUME NEW s \in Seq(WireByte), NEW t \in Seq(WireByte), Whole(s), Whole(t)
  PROVE  Whole(s \o t)
<1> DEFINE a == Len(s)
           b == Len(t)
           u == s \o t
<1>1. a \in Nat /\ b \in Nat /\ (s = <<>> <=> a = 0) /\ (t = <<>> <=> b = 0)
  OBVIOUS
<1>2. /\ \A i \in 1 .. a : IsEnd(s[i]) =>
           \E n \in Nat, p \in Bodies : i = n + Len(p) + 2 /\ Message(s, n, p)
      /\ s = <<>> \/ IsEnd(s[a])
  BY Zenon DEF Whole
<1>3. /\ \A i \in 1 .. b : IsEnd(t[i]) =>
           \E n \in Nat, p \in Bodies : i = n + Len(p) + 2 /\ Message(t, n, p)
      /\ t = <<>> \/ IsEnd(t[b])
  BY Zenon DEF Whole
<1>4. Len(u) = a + b /\ \A i \in 1 .. a : u[i] = s[i]
  BY Joined, Zenon
<1>5. \A i \in 1 .. b : u[a + i] = t[i]
  BY JoinedAt, Zenon
<1>6. \A n \in Nat, p \in Bodies : /\ Message(s, n, p) => Message(u, n, p)
                                   /\ Message(t, n, p) => Message(u, a + n, p)
  BY <1>2, MessageJoined, Zenon
<1>7. u = <<>> <=> Len(u) = 0
  <2>1. u \in Seq(WireByte)
    BY Joined, Zenon
  <2> HIDE DEF u
  <2> QED BY <2>1
<1> HIDE DEF a, b, u
<1>8. ASSUME NEW i \in 1 .. Len(u), IsEnd(u[i])
      PROVE  \E n \in Nat, p \in Bodies : i = n + Len(p) + 2 /\ Message(u, n, p)
  <2>1. CASE i \in 1 .. a
    BY <1>2, <1>4, <1>6, <1>8, <2>1
  <2>2. CASE i \notin 1 .. a
    <3> DEFINE j == i - a
    <3>1. j \in 1 .. b /\ i = a + j
      BY <1>1, <1>4, <2>2
    <3> HIDE DEF j
    <3>2. IsEnd(t[j])
      BY <1>5, <1>8, <3>1
    <3>3. PICK n \in Nat, p \in Bodies : j = n + Len(p) + 2 /\ Message(t, n, p)
      BY <1>3, <3>1, <3>2, Zenon
    <3>4. Message(u, a + n, p)
      BY <1>6, <3>3, Zenon
    <3>5. Len(p) \in Nat
      BY DEF Bodies
    <3>6. a + n \in Nat /\ i = (a + n) + Len(p) + 2
      BY <1>1, <3>1, <3>3, <3>5
    <3> QED BY <3>4, <3>6, Zenon
  <2> QED BY <2>1, <2>2
<1>9. u = <<>> \/ IsEnd(u[Len(u)])
  <2>1. CASE b # 0
    <3>1. b \in 1 .. b /\ IsEnd(t[b])
      BY <1>1, <1>3, <2>1
    <3> QED BY <1>4, <1>5, <3>1
  <2>2. CASE b = 0 /\ a # 0
    <3>1. Len(u) = a /\ a \in 1 .. a /\ IsEnd(s[a])
      BY <1>1, <1>2, <1>4, <2>2
    <3> QED BY <1>4, <3>1
  <2>3. CASE b = 0 /\ a = 0
    BY <1>4, <1>7, <2>3
  <2> QED BY <2>1, <2>2, <2>3
<1>10. Whole(u)
  BY <1>8, <1>9, Zenon DEF Whole
<1> QED BY <1>10 DEF u

\* What is left behind the end of a message.
LEMMA WholeRest ==
  ASSUME NEW s \in Seq(WireByte), NEW t \in Seq(WireByte), Whole(s \o t), s # <<>>, IsEnd(s[Len(s)])
  PROVE  Whole(t)
<1> DEFINE a == Len(s)
           b == Len(t)
           u == s \o t
<1>1. a \in Nat /\ a >= 1 /\ b \in Nat /\ (t = <<>> <=> b = 0)
  OBVIOUS
<1>2. \A i \in 1 .. Len(u) : IsEnd(u[i]) =>
        \E n \in Nat, p \in Bodies : i = n + Len(p) + 2 /\ Message(u, n, p)
  BY Zenon DEF Whole
<1>3. u = <<>> \/ IsEnd(u[Len(u)])
  BY Zenon DEF Whole
<1>4. Len(u) = a + b /\ \A i \in 1 .. a : u[i] = s[i]
  BY Joined, Zenon
<1>5. \A i \in 1 .. b : u[a + i] = t[i]
  BY JoinedAt, Zenon
<1>6. IsEnd(s[a])
  OBVIOUS
<1>7. Len(<<>>) = 0
  OBVIOUS
<1> HIDE DEF a, b, u
<1>8. IsEnd(u[a])
  BY <1>1, <1>4, <1>6
<1>9. ASSUME NEW j \in 1 .. b, IsEnd(t[j])
      PROVE  \E n \in Nat, p \in Bodies : j = n + Len(p) + 2 /\ Message(t, n, p)
  <2>1. a + j \in 1 .. Len(u) /\ IsEnd(u[a + j])
    BY <1>1, <1>4, <1>5, <1>9
  <2>2. PICK n \in Nat, p \in Bodies : a + j = n + Len(p) + 2 /\ Message(u, n, p)
    BY <1>2, <2>1, Zenon
  <2> DEFINE l == Len(p)
  <2>3. l \in Nat /\ \A k \in 1 .. l : p[k] \in DataByte
    BY DEF Bodies
  <2>4. /\ l >= 1 /\ n + l + 2 <= Len(u) /\ \A k \in 1 .. l : u[n + k] = p[k]
        /\ u[n + l + 1] = <<256, p>> /\ u[n + l + 2] = <<257, p>> /\ (n = 0 \/ IsEnd(u[n]))
    BY <2>2 DEF Message
  <2> HIDE DEF l
  <2>5. n >= a
    <3> SUFFICES ASSUME n < a PROVE FALSE
      BY <1>1
    <3>1. CASE a - n \in 1 .. l
      <4> DEFINE k == a - n
      <4>1. n + k = a /\ k \in 1 .. l
        BY <1>1, <3>1
      <4> HIDE DEF k
      <4>2. u[n + k] = p[k] /\ p[k] \in DataByte
        BY <2>3, <2>4, <4>1
      <4>3. ~IsEnd(p[k])
        BY <4>2, EndBytes
      <4> QED BY <1>8, <4>1, <4>2, <4>3
    <3>2. CASE a - n \notin 1 .. l
      <4>1. a = n + l + 1
        BY <1>1, <2>2, <2>3, <3>2 DEF l
      <4>2. ~IsEnd(u[n + l + 1])
        BY <2>4, EndBytes
      <4> QED BY <1>8, <4>1, <4>2
    <3> QED BY <3>1, <3>2
  <2> DEFINE o == n - a
  <2>6. o \in Nat /\ n = a + o /\ j = o + l + 2
    BY <1>1, <2>2, <2>3, <2>5 DEF l
  <2> HIDE DEF o
  <2>7. o + l + 2 <= b
    BY <1>1, <1>4, <2>3, <2>4, <2>6
  <2>8. ASSUME NEW k \in 1 .. l PROVE t[o + k] = p[k]
    <3>1. o + k \in 1 .. b /\ n + k = a + (o + k)
      BY <1>1, <2>3, <2>6, <2>7
    <3> QED BY <1>5, <2>4, <3>1
  <2>9. t[o + l + 1] = u[n + l + 1] /\ t[o + l + 2] = u[n + l + 2]
    <3>1. /\ o + l + 1 \in 1 .. b /\ n + l + 1 = a + (o + l + 1)
          /\ o + l + 2 \in 1 .. b /\ n + l + 2 = a + (o + l + 2)
      BY <1>1, <2>3, <2>6, <2>7
    <3> QED BY <1>5, <3>1
  <2>10. o = 0 \/ IsEnd(t[o])
    <3> SUFFICES ASSUME o # 0 PROVE IsEnd(t[o])
      OBVIOUS
    <3>1. o \in 1 .. b /\ n # 0
      BY <1>1, <2>3, <2>6, <2>7
    <3> QED BY <1>5, <2>4, <2>6, <3>1
  <2>11. Message(t, o, p)
    BY <2>4, <2>7, <2>8, <2>9, <2>10 DEF Message, l, b
  <2> QED BY <2>6, <2>11, Zenon DEF l
<1>10. t = <<>> \/ IsEnd(t[b])
  <2> SUFFICES ASSUME b # 0 PROVE IsEnd(t[b])
    BY <1>1
  <2>1. Len(u) = a + b /\ b \in 1 .. b /\ Len(u) # 0
    BY <1>1, <1>4
  <2>2. IsEnd(u[Len(u)])
    BY <1>3, <1>7, <2>1
  <2> QED BY <1>5, <2>1, <2>2
<1> QED BY <1>9, <1>10, Zenon DEF Whole, b
-----------------------------------------------------------------------------
(* The server starts to read where a message begins.                       *)

\* A recv divides what there is to read.
LEMMA StreamDivided ==
  ASSUME NEW x, x.buf \in Seq(WireByte), x.rx \in Seq(WireByte),
         NEW t, Ahead(t, x.buf), Enough(x, t)
  PROVE  /\ Taken(x, t) \in Seq(WireByte) /\ Left(x, t) \in Seq(WireByte)
         /\ Stream(x) = Taken(x, t) \o Left(x, t) /\ Stream(x) # <<>>
<1> DEFINE b == x.buf
           r == x.rx
           k == t - Len(b)
           v == SubSeq(r, 1, k)
           q == SubSeq(r, k + 1, Len(r))
<1>1. b \in Seq(WireByte) /\ r \in Seq(WireByte)
  OBVIOUS
<1>2. k \in Nat /\ k <= Len(r) /\ Len(b) + Len(r) # 0
  <2>1. t \in Nat /\ t > Len(b) /\ Len(b) + Len(r) >= t
    BY Zenon DEF Ahead, Enough
  <2>2. Len(b) \in Nat /\ Len(r) \in Nat
    BY <1>1
  <2> HIDE DEF b, r
  <2> QED BY <2>1, <2>2
<1>3. Taken(x, t) = b \o v /\ Left(x, t) = q
  BY Zenon DEF Taken, Left
<1>4. v \in Seq(WireByte) /\ q \in Seq(WireByte) /\ v \o q = r
  <2> HIDE DEF k, r
  <2> QED BY <1>1, <1>2, Cut
<1>5. b \o v \in Seq(WireByte)
  <2> HIDE DEF b, v
  <2> QED BY <1>1, <1>4, Joined, Zenon
<1>6. (b \o v) \o q = b \o (v \o q)
  <2>1. b \in Seq(WireByte) /\ v \in Seq(WireByte) /\ q \in Seq(WireByte)
    BY <1>1, <1>4, Zenon
  <2> HIDE DEF b, v, q
  <2> QED BY <2>1, ConcatAssociative
<1>7. Stream(x) # <<>>
  <2>1. Len(b \o r) = Len(b) + Len(r)
    BY <1>1, Joined, Zenon
  <2>2. Len(<<>>) = 0
    OBVIOUS
  <2> QED BY <1>2, <2>1, <2>2, Zenon DEF Stream
<1> HIDE DEF v, q
<1> QED BY <1>3, <1>4, <1>5, <1>6, <1>7, Zenon DEF Stream

\* What a recv gives the server, and what is left.
LEMMA TakenStream ==
  ASSUME ServerOK(server), Enough(server, ServerTarget),
         NEW m, m = Taken(server, ServerTarget), NEW q, q = Left(server, ServerTarget)
  PROVE  m \in Seq(WireByte) /\ q \in Seq(WireByte) /\ Stream(server) = m \o q
<1>1. server.buf \in Seq(WireByte) /\ server.rx \in Seq(WireByte) /\ Ahead(ServerTarget, server.buf)
  BY Zenon DEF ServerOK, NextLength, ServerTarget
<1> QED BY <1>1, StreamDivided, Zenon

\* A poll that ends leaves what it has not read.
LEMMA PollStream ==
  ASSUME NEW q \in Seq(WireByte), EndPoll(q)
  PROVE  Stream(server') = q
<1>1. server' = [at |-> "req", rx |-> q, buf |-> <<>>, want |-> NoRes]
  BY DEF EndPoll, Polling
<1>2. server'.rx = q /\ server'.buf = <<>>
  BY <1>1
<1>3. <<>> \o q = q
  BY ConcatEmptySeq
<1> QED BY <1>2, <1>3 DEF Stream

\* What the server hears comes behind what it has.
LEMMA HeardStream ==
  ASSUME ServerOK(server), NEW h \in Seq(WireByte), server' = [server EXCEPT !.rx = @ \o h]
  PROVE  Stream(server') = Stream(server) \o h
<1> DEFINE v == server.rx \o h
<1>1. /\ server = [at |-> server.at, rx |-> server.rx, buf |-> server.buf, want |-> server.want]
      /\ server.rx \in Seq(WireByte) /\ server.buf \in Seq(WireByte)
  BY Zenon DEF ServerOK
<1>2. server' = [server EXCEPT !.rx = v]
  OBVIOUS
<1>3. server'.rx = v /\ server'.buf = server.buf
  <2> HIDE DEF v
  <2>1. server' = [at |-> server.at, rx |-> v, buf |-> server.buf, want |-> server.want]
    BY <1>1, <1>2
  <2> QED BY <2>1
<1>4. (server.buf \o server.rx) \o h = server.buf \o (server.rx \o h)
  BY <1>1, ConcatAssociative
<1> QED BY <1>3, <1>4, Zenon DEF Stream

\* A step after which the server has whole messages if it had before.
LEMMA SyncStream ==
  ASSUME Sync(server, faults), faults' \in {faults, faults + 1},
         Whole(Stream(server)) => Whole(Stream(server'))
  PROVE  Sync(server', faults')
<1>1. faults \in Nat /\ faults' \in Nat /\ (faults' = 0 => faults = 0)
  BY DEF Sync
<1> QED BY <1>1, Zenon DEF Sync

\* A message is sent: the server hears it whole, or there is a fault.
LEMMA SyncHears ==
  ASSUME ServerOK(server), Sync(server, faults),
         NEW p \in Bodies, Len(p) >= 2, NEW f, f = p \o crc_calc(p), NEW h \in Arrivals(f),
         Transmit(f, h), server' = [server EXCEPT !.rx = @ \o h]
  PROVE  Sync(server', faults')
<1>1. f \in Seq(WireByte) /\ h \in Seq(WireByte)
  BY FrameArrives, Zenon
<1>2. Stream(server') = Stream(server) \o h
  BY <1>1, HeardStream, Zenon
<1>3. CASE h = f
  <2>1. faults' \in {faults, faults + 1}
    BY <1>3, Zenon DEF Transmit
  <2>2. Whole(f)
    <3>1. Len(p) >= 1
      BY DEF Bodies
    <3> QED BY <3>1, WholeFrame, Zenon
  <2>3. Stream(server) \in Seq(WireByte)
    BY Joined, Zenon DEF Stream, ServerOK
  <2>4. Whole(Stream(server)) => Whole(Stream(server'))
    BY <1>1, <1>2, <1>3, <2>2, <2>3, WholeJoined, Zenon
  <2> QED BY <2>1, <2>4, SyncStream, Zenon
<1>4. CASE h # f
  <2>1. faults' = faults + 1 /\ faults \in Nat
    BY <1>4, Zenon DEF Transmit, Sync
  <2>2. faults' \in Nat /\ faults' # 0
    BY <2>1
  <2> QED BY <2>2, Zenon DEF Sync
<1> QED BY <1>3, <1>4

\* The receiver accepts nothing without comparing its checksum.
LEMMA AnswerAccepted ==
  ASSUME NEW w, NEW m, AnswerCheck(w, m) \in {"NONE", "EXCEPTION"}
  PROVE  /\ AnswerTarget(w, m) = 0 /\ CrcOK(m) /\ ~(Len(m) < 2)
         /\ AnswerCheck(w, m) = "EXCEPTION" <=> IsException(w, m)
<1>1. EarlyVerdict(w, m) \in {"INVALID_UNIT_ID", "INVALID_RESPONSE", "INVALID_ARGUMENT", "more"}
  BY Zenon DEF EarlyVerdict
<1>2. EarlyVerdict(w, m) # "NONE" /\ EarlyVerdict(w, m) # "EXCEPTION"
  BY <1>1
<1>3. AnswerTarget(w, m) = 0
  BY <1>2, Zenon DEF AnswerCheck
<1>4. CrcOK(m) /\ (AnswerCheck(w, m) = "EXCEPTION" <=> IsException(w, m))
  BY <1>3 DEF AnswerCheck
<1>5. ~(Len(m) < 2)
  <2>1. 2 # 0
    OBVIOUS
  <2> QED BY <1>3, <2>1, TargetOf, Zenon
<1> QED BY <1>3, <1>4, <1>5

\* The checksum of a message that is accepted is right.
LEMMA AcceptedCrc ==
  ASSUME NEW m \in Seq(WireByte), Verdict(m) = "NONE"
  PROVE  Len(m) >= 2 /\ CrcOK(m)
<1>1. CASE server.at = "res"
  <2>1. AnswerCheck(server.want, m) = "NONE"
    BY <1>1, Zenon DEF Verdict
  <2>2. CrcOK(m) /\ ~(Len(m) < 2)
    BY <2>1, AnswerAccepted
  <2> QED BY <2>2
<1>2. CASE server.at # "res"
  <2>1. ~(Len(m) <= 2) /\ RequestCheck(m) = "NONE"
    BY <1>2 DEF Verdict
  <2>2. CrcOK(m)
    BY <2>1 DEF RequestCheck
  <2> QED BY <2>1, <2>2
<1> QED BY <1>1, <1>2

\* A message that is accepted ends with its checksum.
LEMMA AcceptedEnds ==
  ASSUME NEW m \in Seq(WireByte), Verdict(m) = "NONE"
  PROVE  m # <<>> /\ IsEnd(m[Len(m)])
<1>1. Len(m) >= 2 /\ CrcOK(m)
  BY AcceptedCrc, Zenon
<1>2. m[Len(m)] = <<257, Body(m)>>
  <2>1. SubSeq(m, Len(m) - 1, Len(m))[2] = m[Len(m)]
    BY <1>1
  <2>2. crc_calc(Body(m))[2] = <<257, Body(m)>>
    BY DEF crc_calc
  <2> QED BY <1>1, <2>1, <2>2 DEF CrcOK
<1>3. IsEnd(m[Len(m)])
  <2>1. IsEnd(<<257, Body(m)>>)
    BY DEF IsEnd
  <2> QED BY <1>2, <2>1
<1>4. Len(<<>>) = 0
  OBVIOUS
<1> QED BY <1>1, <1>3, <1>4

\* An answer of the server is no message to itself.
LEMMA SendsStream ==
  ASSUME NEW b, NEW f, NEW q \in Seq(WireByte), ServerSends(b, f, q)
  PROVE  Stream(server') \in {q, <<>>} /\ faults' \in {faults, faults + 1}
<1>1. <<>> \in Seq(WireByte)
  OBVIOUS
<1>2. EndPoll(q) \/ EndPoll(<<>>)
  BY Zenon DEF ServerSends
<1>3. Stream(server') \in {q, <<>>}
  BY <1>1, <1>2, PollStream, Zenon
<1>4. faults' \in {faults, faults + 1}
  BY Zenon DEF ServerSends, Transmit, TransmitFails
<1> QED BY <1>3, <1>4

\* A request that is handled is read to its end.
LEMMA HandlesStream ==
  ASSUME NEW m, NEW q \in Seq(WireByte), ServerHandles(m, q)
  PROVE  Stream(server') \in {q, <<>>} /\ faults' \in {faults, faults + 1}
<1> DEFINE handler == handle_req_fc(m, Value)
<1>1. CASE ServerIgnores(m, handler, q)
  <2>1. server' = [at |-> "res", rx |-> q, buf |-> <<>>, want |-> handler.overheard] /\ faults' = faults
    BY <1>1, Zenon DEF ServerIgnores
  <2>2. server'.rx = q /\ server'.buf = <<>>
    BY <2>1
  <2>3. <<>> \o q = q
    BY ConcatEmptySeq
  <2> QED BY <2>1, <2>2, <2>3 DEF Stream
<1>2. CASE ServerRefuses(m, handler, q)
  BY <1>2, SendsStream, Zenon DEF ServerRefuses
<1>3. CASE ServerFails(m, handler, q)
  BY <1>3, SendsStream, Zenon DEF ServerFails
<1>4. CASE ServerExecutes(m, handler, q)
  BY <1>4, SendsStream, Zenon DEF ServerExecutes
<1>5. CASE ServerBroadcast(m, handler, q)
  <2>1. EndPoll(q) /\ faults' = faults
    BY <1>5, Zenon DEF ServerBroadcast
  <2> QED BY <2>1, PollStream, Zenon
<1> QED BY <1>1, <1>2, <1>3, <1>4, <1>5, Zenon DEF ServerHandles

\* A step of the server.
LEMMA SyncServer ==
  ASSUME ServerOK(server), Sync(server, faults), ServerStep
  PROVE  Sync(server', faults')
<1>1. <<>> \in Seq(WireByte) /\ Whole(<<>>)
  BY WholeEmpty
<1>2. ASSUME EndPoll(<<>>), faults' = faults PROVE Sync(server', faults')
  BY <1>1, <1>2, PollStream, SyncStream, Zenon
<1>3. CASE ServerTimeout
  BY <1>2, <1>3, Zenon DEF ServerTimeout
<1>4. CASE Enough(server, ServerTarget) /\ ~ServerTimeout
  <2> DEFINE m == Taken(server, ServerTarget)
             q == Left(server, ServerTarget)
             v == Verdict(m)
  <2>1. \/ ServerReceives(m, v, q) \/ ServerRejects(m, v, q) \/ ServerOverhears(m, v, q)
        \/ ServerDefault(m, v) \/ (v = "NONE" /\ ServerHandles(m, q))
    BY <1>4, Zenon DEF ServerStep
  <2>2. m \in Seq(WireByte) /\ q \in Seq(WireByte) /\ Stream(server) = m \o q
    BY <1>4, TakenStream, Zenon
  <2>3. v = Verdict(m)
    OBVIOUS
  <2> HIDE DEF m, q, v
  <2>4. ASSUME v = "NONE", Stream(server') \in {q, <<>>}, faults' \in {faults, faults + 1}
        PROVE  Sync(server', faults')
    <3>1. m # <<>> /\ IsEnd(m[Len(m)])
      BY <2>2, <2>3, <2>4, AcceptedEnds, Zenon
    <3>2. Whole(Stream(server)) => Whole(q)
      BY <2>2, <3>1, WholeRest, Zenon
    <3>3. Whole(Stream(server)) => Whole(Stream(server'))
      BY <1>1, <2>4, <3>2, Zenon
    <3> QED BY <2>4, <3>3, SyncStream, Zenon
  <2>5. CASE ServerReceives(m, v, q)
    <3>1. server' = [server EXCEPT !.buf = m, !.rx = q] /\ faults' = faults
      BY <2>5, Zenon DEF ServerReceives
    <3>2. server = [at |-> server.at, rx |-> server.rx, buf |-> server.buf, want |-> server.want]
      BY Zenon DEF ServerOK
    <3>3. server'.buf = m /\ server'.rx = q
      BY <3>1, <3>2
    <3>4. Stream(server') = Stream(server)
      BY <2>2, <3>3, Zenon DEF Stream
    <3> QED BY <3>1, <3>4, SyncStream, Zenon
  <2>6. CASE ServerRejects(m, v, q)
    BY <1>2, <2>6, Zenon DEF ServerRejects
  <2>7. CASE ServerOverhears(m, v, q)
    <3>1. v = "NONE" /\ EndPoll(q) /\ faults' = faults
      BY <2>7, Zenon DEF ServerOverhears
    <3>2. Stream(server') = q
      BY <2>2, <3>1, PollStream, Zenon
    <3> QED BY <2>4, <3>1, <3>2
  <2>8. CASE ServerDefault(m, v)
    <3>1. \/ EndPoll(<<>>) /\ faults' = faults
          \/ ServerSends(m, send_exception_msg(m, 1), <<>>)
      BY <2>8, Zenon DEF ServerDefault
    <3>2. ASSUME ServerSends(m, send_exception_msg(m, 1), <<>>) PROVE Sync(server', faults')
      <4>1. Stream(server') \in {<<>>} /\ faults' \in {faults, faults + 1}
        BY <1>1, <3>2, SendsStream, Zenon
      <4> QED BY <1>1, <4>1, SyncStream, Zenon
    <3> QED BY <1>2, <3>1, <3>2
  <2>9. CASE v = "NONE" /\ ServerHandles(m, q)
    BY <2>2, <2>4, <2>9, HandlesStream, Zenon
  <2> QED BY <2>1, <2>5, <2>6, <2>7, <2>8, <2>9
<1> QED BY <1>3, <1>4, Zenon DEF ServerStep

\* The client sends.
LEMMA SyncSend ==
  ASSUME IInv, Sync(server, faults), Send
  PROVE  Sync(server', faults')
<1> DEFINE r == client.r
           f == RequestFrame(r, client.object)
<1>1. ClientOK(client) /\ ServerOK(server) /\ client.at = "send"
  BY Zenon DEF IInv, Send
<1>2. WellFormed(r) /\ ~Refused(r) /\ client.object \in 0 .. 255
  BY <1>1, Zenon DEF ClientOK
<1>3. PICK q \in Bodies : f = q \o crc_calc(q) /\ Len(q) >= 2 /\ q[1] = r.to
  BY <1>2, RequestOnLine, Zenon
<1>4. \/ \E h \in Arrivals(f) : Transmit(f, h) /\ server' = [server EXCEPT !.rx = @ \o h]
      \/ faults' = faults + 1 /\ server' = server
  BY Zenon DEF Send, TransmitFails
<1> HIDE DEF f
<1>5. ASSUME NEW h \in Arrivals(f), Transmit(f, h), server' = [server EXCEPT !.rx = @ \o h]
      PROVE  Sync(server', faults')
  BY <1>1, <1>3, <1>5, SyncHears, Zenon
<1>6. CASE faults' = faults + 1 /\ server' = server
  BY <1>6, SyncStream, Zenon
<1> QED BY <1>4, <1>5, <1>6, Zenon

\* Unit 2 answers, or does not.
LEMMA SyncOther ==
  ASSUME IInv, Sync(server, faults), OtherAnswers
  PROVE  Sync(server', faults')
<1> DEFINE b == Head(other)
           complete == Code(b) \in Functions /\ RequestTarget(b) = 0 /\ Len(b) = RequestEnd(b) + 2
           answers == IF complete THEN {Frame(b[1], Code(b), handle_req_fc(b, Value).answer)} ELSE {}
<1>1. ServerOK(server) /\ other \in Seq(ForOther) /\ other # <<>>
  BY Zenon DEF IInv, WorldInv, OtherAnswers
<1>2. b \in ForOther
  BY <1>1
<1>3. \/ \E g \in answers \cup {send_exception_msg(b, 2)} : \E h \in Arrivals(g) :
           Transmit(g, h) /\ server' = [server EXCEPT !.rx = @ \o h]
      \/ server' = server /\ faults' = faults
  BY Zenon DEF OtherAnswers
<1>4. ASSUME NEW g \in answers \cup {send_exception_msg(b, 2)}, NEW h \in Arrivals(g),
             Transmit(g, h), server' = [server EXCEPT !.rx = @ \o h]
      PROVE  Sync(server', faults')
  <2>1. \/ g = send_exception_msg(b, 2)
        \/ complete /\ g = Frame(b[1], Code(b), handle_req_fc(b, Value).answer)
    BY <1>4, Zenon
  <2>2. PICK body \in Bodies : g = body \o crc_calc(body) /\ Len(body) >= 2 /\ body \notin ForServer
    <3> HIDE DEF b
    <3> QED BY <1>2, <2>1, OtherFrame, Zenon
  <2> QED BY <1>1, <1>4, <2>2, SyncHears, Zenon
<1>5. CASE server' = server /\ faults' = faults
  BY <1>5, Zenon
<1> HIDE DEF answers, b
<1> QED BY <1>3, <1>4, <1>5, Zenon

\* Every step keeps the messages whole that the server is to read.
LEMMA SyncNext ==
  ASSUME IInv, Sync(server, faults), [Next]_vars
  PROVE  Sync(server', faults')
<1>1. ASSUME server' = server, faults' = faults PROVE Sync(server', faults')
  BY <1>1, Zenon
<1>2. CASE calls < Len(plan.calls) /\ \E r \in plan.calls[calls + 1] : Call(r)
  BY <1>1, <1>2, Zenon DEF Call
<1>3. CASE Send
  BY <1>3, SyncSend
<1>4. CASE ClientRecv
  BY <1>1, <1>4, Zenon DEF ClientRecv
<1>5. CASE ClientTimeout
  BY <1>1, <1>5, Zenon DEF ClientTimeout
<1>6. CASE Return
  BY <1>1, <1>6, Zenon DEF Return
<1>7. CASE ServerStep
  BY <1>7, SyncServer, Zenon DEF IInv
<1>8. CASE OtherAnswers
  BY <1>8, SyncOther
<1>9. CASE UNCHANGED vars
  BY <1>1, <1>9 DEF vars
<1> QED BY <1>2, <1>3, <1>4, <1>5, <1>6, <1>7, <1>8, <1>9, Zenon DEF Next, ClientStep, Terminating

\* What begins with a whole message has its first checksum at the end of one.
LEMMA WholeStarts ==
  ASSUME NEW s \in Seq(WireByte), s # <<>>, Whole(s)
  PROVE  LET i == SelectInSeq(s, LAMBDA x : x[1] = 257)
         IN  i > 2 /\ CrcOK(SubSeq(s, 1, i))
<1> DEFINE I == {i \in 1 .. Len(s) : s[i][1] = 257}
           i == Min(I)
<1>1. SelectInSeq(s, LAMBDA x : x[1] = 257) = IF I # {} THEN i ELSE 0
  BY DEF SelectInSeq
<1>2. Len(s) \in Nat /\ Len(s) \in 1 .. Len(s) /\ IsEnd(s[Len(s)])
  BY DEF Whole
<1>3. I \in SUBSET Nat /\ Len(s) \in I
  BY <1>2 DEF IsEnd
<1>4. i \in I /\ \A j \in I : i <= j
  <2> HIDE DEF I
  <2>1. I \in SUBSET Nat /\ I # {}
    BY <1>3
  <2>2. \E d \in I : \A x \in I : d <= x
    BY <2>1, Least, Zenon
  <2> QED BY <2>2 DEF Min
<1> HIDE DEF i
<1>5. i \in 1 .. Len(s) /\ IsEnd(s[i])
  BY <1>4 DEF IsEnd
<1>6. PICK n \in Nat, p \in Bodies : i = n + Len(p) + 2 /\ Message(s, n, p)
  BY <1>5, Zenon DEF Whole
<1> DEFINE l == Len(p)
<1>7. l \in Nat
  BY DEF Bodies
<1>8. /\ l >= 1 /\ n + l + 2 <= Len(s) /\ \A k \in 1 .. l : s[n + k] = p[k]
      /\ s[n + l + 1] = <<256, p>> /\ s[n + l + 2] = <<257, p>> /\ (n = 0 \/ IsEnd(s[n]))
  BY <1>6 DEF Message
<1>9. n = 0
  <2> SUFFICES ASSUME n # 0 PROVE FALSE
    OBVIOUS
  <2>1. n \in 1 .. Len(s) /\ n < i
    BY <1>2, <1>6, <1>7, <1>8
  <2>2. n \in I
    BY <1>8, <2>1 DEF IsEnd
  <2>3. i <= n /\ i \in Nat
    BY <1>4, <1>5, <2>2
  <2> QED BY <2>1, <2>3
<1> DEFINE z == SubSeq(s, 1, i)
<1>10. i \in Nat /\ i = l + 2 /\ i <= Len(s)
  BY <1>5, <1>6, <1>7, <1>9
<1> HIDE DEF l
<1>11. z \in Seq(WireByte) /\ Len(z) = l + 2 /\ \A k \in 1 .. l + 2 : z[k] = s[k]
  BY <1>7, <1>10
<1> HIDE DEF z
<1>12. /\ \A k \in 1 .. l : z[k] = p[k]
       /\ z[l + 1] = <<256, p>> /\ z[l + 2] = <<257, p>>
  BY <1>7, <1>8, <1>9, <1>11
<1>13. Body(z) = p
  <2> DEFINE y == SubSeq(z, 1, l)
  <2>1. Len(z) - 2 = l
    BY <1>7, <1>11
  <2>2. Body(z) = y
    BY <2>1, Zenon DEF Body
  <2>3. y \in Seq(WireByte) /\ Len(y) = l /\ \A k \in 1 .. l : y[k] = z[k]
    BY <1>7, <1>11
  <2>4. p \in Seq(WireByte) /\ Len(p) = l
    BY BodyOnLine DEF l
  <2> HIDE DEF y
  <2>5. \A k \in 1 .. Len(y) : y[k] = p[k]
    BY <1>12, <2>3
  <2>6. y = p
    BY <2>3, <2>4, <2>5, SeqEqual
  <2> QED BY <2>2, <2>6
<1>14. CrcOK(z)
  <2> DEFINE y == SubSeq(z, l + 1, l + 2)
  <2>1. Len(z) - 1 = l + 1 /\ Len(z) = l + 2
    BY <1>7, <1>11
  <2>2. y \in Seq(WireByte) /\ Len(y) = 2 /\ y[1] = z[l + 1] /\ y[2] = z[l + 2]
    BY <1>7, <1>11
  <2> HIDE DEF y
  <2>3. y = crc_calc(p)
    <3> DEFINE c == crc_calc(p)
    <3>1. c[1] = <<256, p>> /\ c[2] = <<257, p>>
      BY DEF crc_calc
    <3>2. c \in Seq(WireByte) /\ Len(c) = 2
      BY CrcOnLine
    <3> HIDE DEF c
    <3>3. y[1] = c[1] /\ y[2] = c[2]
      BY <1>12, <2>2, <3>1
    <3>4. \A k \in 1 .. Len(y) : y[k] = c[k]
      BY <2>2, <3>3
    <3>5. y = c
      BY <2>2, <3>2, <3>4, SeqEqual
    <3> QED BY <3>5 DEF c
  <2>4. SubSeq(z, Len(z) - 1, Len(z)) = y
    BY <2>1, Zenon DEF y
  <2> QED BY <1>13, <2>3, <2>4, Zenon DEF CrcOK
<1>15. i > 2
  BY <1>7, <1>8, <1>10 DEF l
<1>16. SelectInSeq(s, LAMBDA x : x[1] = 257) = i
  BY <1>1, <1>3
<1> QED BY <1>14, <1>15, <1>16 DEF z

\* Without faults of the line the server starts to read at the first byte of a
\* message: every poll ends where a message ends, or with a flush.
THEOREM AlwaysInSync == Spec => []InSync
<1>1. Init => Sync(server, faults)
  <2> SUFFICES ASSUME Init PROVE Sync(server, faults)
    OBVIOUS
  <2>1. server.buf = <<>> /\ server.rx = <<>> /\ faults = 0
    BY DEF Init, Polling
  <2>2. <<>> \o <<>> = <<>>
    OBVIOUS
  <2> QED BY <2>1, <2>2, WholeEmpty DEF Sync, Stream
<1>2. IInv /\ Sync(server, faults) /\ [Next]_vars => Sync(server, faults)'
  BY SyncNext
<1>3. IInv /\ Sync(server, faults) => InSync
  <2> SUFFICES ASSUME IInv, Sync(server, faults), faults = 0, server.at = "req", server.buf = <<>>, server.rx # <<>>
               PROVE  LET i == SelectInSeq(server.rx, LAMBDA x : x[1] = 257)
                      IN  i > 2 /\ CrcOK(SubSeq(server.rx, 1, i))
    BY DEF InSync
  <2>1. server.rx \in Seq(WireByte)
    BY Zenon DEF IInv, ServerOK
  <2>2. Stream(server) = server.rx
    BY <2>1, ConcatEmptySeq DEF Stream
  <2>3. Whole(server.rx)
    BY <2>2, Zenon DEF Sync
  <2> QED BY <2>1, <2>3, WholeStarts
<1> QED BY <1>1, <1>2, <1>3, Invariance, PTL DEF Spec
-----------------------------------------------------------------------------
(* A result is the answer to the request.                                  *)
(*                                                                         *)
(* When nothing was under way at the flush of msg_state_req, one message   *)
(* is on the line: the request until the server has answered or given it   *)
(* up, then the answer.  Follows says so for a call to the server that is  *)
(* not raw; it needs what each side takes of the other's message to be     *)
(* that message, which is what the checksum is for.                        *)

\* The server s has nothing to do, and unit 2 has heard nothing.
Idling(s, o) == s.at = "req" /\ s.buf = <<>> /\ s.rx = <<>> /\ o = <<>>

\* f is the exception for a function the server does not know.
Unknown(f) == \E c \in (0 .. 255) \ Functions : f = Frame(<< 1 >>, (c + 128) % 256, << << 1 >> >>)

\* What the server has sent last is a message, and answers the request f or a
\* header that is not the one sent.
ReplyTo(sv, f) ==
  \E p \in Bodies : /\ sv = [request |-> sv.request, frame |-> p \o crc_calc(p)]
                    /\ sv.request = Body(f) \/ Unknown(sv.frame)

\* The server has, or will read, what arrived of the request f.
Asked(c, s, o, f) ==
  /\ s.at = "req" /\ o = <<>> /\ c.buf = <<>> /\ c.rx = <<>>
  /\ Stream(s) \in Arrivals(f)

\* The client has, or will read, what arrived of the answer, if there is one.
Replied(c, s, o, sv, f) ==
  /\ Idling(s, o)
  /\ Stream(c) = <<>> \/ (Stream(c) \in Arrivals(sv.frame) /\ ReplyTo(sv, f))

Follows(c, s, o, sv) ==
  c.fresh /\ c.r.to = << 1 >> /\ ~c.r.raw =>
    /\ c.at = "send" => Idling(s, o) /\ c.rx = <<>>
    /\ c.at = "recv" => \/ Asked(c, s, o, RequestFrame(c.r, c.object))
                        \/ Replied(c, s, o, sv, RequestFrame(c.r, c.object))
    /\ c.at = "done" /\ c.err \in {"NONE", "EXCEPTION"} =>
         /\ Idling(s, o)
         /\ sv = [request |-> Body(RequestFrame(c.r, c.object)), frame |-> c.buf]

\* No more arrives than was sent.
LEMMA ArrivalLength ==
  ASSUME NEW f \in Seq(WireByte), NEW h \in Arrivals(f)
  PROVE  Len(h) <= Len(f)
<1>1. CASE h = f
  BY <1>1
<1>2. CASE h = <<>>
  BY <1>2
<1>3. ASSUME NEW i \in DOMAIN f, h = RemoveAt(f, i) PROVE Len(h) <= Len(f)
  <2> DEFINE a == SubSeq(f, 1, i - 1)
             b == SubSeq(f, i + 1, Len(f))
             n == Len(f)
  <2>1. i \in Nat /\ 1 <= i /\ i <= n /\ n \in Nat
    OBVIOUS
  <2>2. a \in Seq(WireByte) /\ b \in Seq(WireByte) /\ Len(a) = i - 1 /\ Len(b) = n - i
    OBVIOUS
  <2>3. h = a \o b
    BY <1>3 DEF RemoveAt
  <2> HIDE DEF a, b
  <2>4. Len(h) = Len(a) + Len(b)
    BY <2>2, <2>3, Joined, Zenon
  <2> QED BY <2>1, <2>2, <2>4
<1>4. ASSUME NEW i \in DOMAIN f, NEW n \in Noise, h = ReplaceAt(f, i, n) PROVE Len(h) <= Len(f)
  <2>1. n \in WireByte
    BY BusAssumption DEF WireByte
  <2>2. h \in Seq(WireByte) /\ Len(h) = Len(f)
    BY <1>4, <2>1 DEF ReplaceAt
  <2> QED BY <2>2
<1> QED BY <1>1, <1>2, <1>3, <1>4 DEF Arrivals

\* A message is what its checksum covers and the checksum.
LEMMA CrcSplits ==
  ASSUME NEW m \in Seq(WireByte), Len(m) >= 2, CrcOK(m)
  PROVE  m = Body(m) \o crc_calc(Body(m))
<1> DEFINE n == Len(m)
           k == n - 2
<1>1. n \in Nat /\ n >= 2
  OBVIOUS
<1>2. k \in Nat /\ k <= n /\ k + 1 = n - 1
  <2> HIDE DEF n
  <2> QED BY <1>1
<1>3. SubSeq(m, 1, k) \o SubSeq(m, k + 1, n) = m
  <2> HIDE DEF k
  <2> QED BY <1>2, Cut
<1>4. SubSeq(m, n - 1, n) = crc_calc(Body(m)) /\ Body(m) = SubSeq(m, 1, k)
  BY Zenon DEF CrcOK, Body
<1> HIDE DEF k, n
<1> QED BY <1>2, <1>3, <1>4

\* What is accepted of what arrives is the message that was sent, to its end.
LEMMA ArrivedWhole ==
  ASSUME NEW p \in Bodies, NEW f, f = p \o crc_calc(p), NEW m \in Seq(WireByte), NEW q \in Seq(WireByte),
         m \o q \in Arrivals(f), Len(m) >= 2, CrcOK(m)
  PROVE  m = f /\ q = <<>>
<1> DEFINE h == m \o q
           x == Body(m)
<1>1. h \in Arrivals(f)
  OBVIOUS
<1>2. x \in Bodies /\ Count(m, x) >= 1
  BY CrcCounts
<1>3. Count(h, x) = Count(m, x) + Count(q, x) /\ Len(h) = Len(m) + Len(q)
  BY CountConcat, Joined
<1>4. m = x \o crc_calc(x)
  BY CrcSplits
<1> HIDE DEF h, x
<1>5. f \in Seq(WireByte) /\ (\A y : Count(h, y) \in Nat /\ Count(h, y) <= IF y = p THEN 1 ELSE 0)
  BY <1>1, FrameArrives
<1>6. Count(m, x) \in Nat /\ Count(q, x) \in Nat
  BY CountType
<1>7. x = p
  <2> SUFFICES ASSUME x # p PROVE FALSE
    OBVIOUS
  <2>1. Count(h, x) <= 0
    BY <1>5
  <2> QED BY <1>2, <1>3, <1>6, <2>1
<1>8. m = f
  BY <1>4, <1>7
<1>9. Len(h) <= Len(f)
  BY <1>1, <1>5, ArrivalLength
<1>10. Len(q) = 0
  <2>1. Len(q) \in Nat /\ Len(m) \in Nat
    OBVIOUS
  <2>2. Len(m) + Len(q) <= Len(m)
    BY <1>3, <1>8, <1>9, Zenon
  <2> QED BY <2>1, <2>2
<1>11. q = <<>>
  BY <1>10
<1> QED BY <1>8, <1>11

\* A server with nothing to read does nothing.
LEMMA IdlingRests ==
  ASSUME Idling(server, other)
  PROVE  ~ServerStep /\ ~OtherAnswers
<1>1. Len(<<>>) = 0 /\ Len(<<>>) < 2
  OBVIOUS
<1>2. ServerTarget = 2
  BY <1>1, Zenon DEF ServerTarget, RequestTarget, Idling
<1>3. ~Enough(server, ServerTarget)
  BY <1>1, <1>2 DEF Enough, Idling
<1>4. server.at # "res"
  BY DEF Idling
<1>5. ~ServerTimeout
  BY <1>4, Zenon DEF ServerTimeout, Idling
<1>6. ~OtherAnswers
  BY Zenon DEF OtherAnswers, Idling
<1> QED BY <1>3, <1>5, <1>6, Zenon DEF ServerStep

\* A function waits for an answer with its own code, in a form of its own.
LEMMA WaitsForCode ==
  ASSUME NEW r, WellFormed(r), ~r.raw, NEW o, NEW n
  PROVE  /\ r.fc \in Functions /\ Function(r, o, n).res.fc = r.fc
         /\ Function(r, o, n).res.form \in CountedForms \cup {"echo", "objects"}
<1> DEFINE forms == CountedForms \cup {"echo", "objects"}
           OK(s) == s.res.fc = r.fc /\ s.res.form \in forms
<1>1. r.fc \in Functions
  BY Arguments, Zenon
<1>2. \A bad, pdu, fixed, room : \A form \in forms : OK(Sends(bad, pdu, Res(To(r), form, fixed, room)))
  BY DEF Sends, Res, To
<1>3. "discrete" \in forms /\ "registers" \in forms /\ "read_file" \in forms /\ "write_file" \in forms
      /\ "echo" \in forms /\ "objects" \in forms
  BY DEF CountedForms
<1> HIDE DEF OK, forms
<1>4. OK(Function(r, o, n))
  <2>1. CASE r.fc \in {1, 2}
    <3>1. OK(read_discrete(r))
      <4> DEFINE bad == BadQuantity(r.arg[2], 2000) \/ BadRange(r.arg[1], r.arg[2])
      <4>1. read_discrete(r) = Sends(bad, Fields(r), Res(To(r), "discrete", <<>>, 0))
        BY DEF read_discrete, recv_read_discrete_res
      <4> HIDE DEF bad
      <4> QED BY <1>2, <1>3, <4>1, Zenon
    <3> QED BY <2>1, <3>1, FunctionOf, Zenon
  <2>2. CASE r.fc \in {3, 4}
    <3>1. OK(read_registers(r))
      BY <1>2, <1>3, Zenon DEF read_registers, recv_read_registers_res
    <3> QED BY <2>2, <3>1, FunctionOf, Zenon
  <2>3. CASE r.fc = 5
    <3>1. OK(nmbs_write_single_coil(r))
      <4> DEFINE pdu == put_2(r.arg[1]) \o put_2(IF r.arg[2] = 0 THEN 0 ELSE 65280)
      <4>1. nmbs_write_single_coil(r) = Sends(FALSE, pdu, Res(To(r), "echo", pdu, 0))
        BY DEF nmbs_write_single_coil, recv_write_single_coil_res
      <4> HIDE DEF pdu
      <4> QED BY <1>2, <1>3, <4>1, Zenon
    <3> QED BY <2>3, <3>1, FunctionOf, Zenon
  <2>4. CASE r.fc = 6
    <3>1. OK(nmbs_write_single_register(r))
      BY <1>2, <1>3, Zenon DEF nmbs_write_single_register, recv_write_single_register_res
    <3> QED BY <2>4, <3>1, FunctionOf, Zenon
  <2>5. CASE r.fc = 15
    <3>1. OK(nmbs_write_multiple_coils(r))
      <4> DEFINE bad == BadQuantity(r.arg[2], 1968) \/ BadRange(r.arg[1], r.arg[2])
                 pdu == Fields(r) \o << <<Packed(r.arg[2])>> >> \o r.data
      <4>1. nmbs_write_multiple_coils(r) = Sends(bad, pdu, Res(To(r), "echo", Fields(r), 0))
        BY DEF nmbs_write_multiple_coils, recv_write_multiple_coils_res
      <4> HIDE DEF bad, pdu
      <4> QED BY <1>2, <1>3, <4>1, Zenon
    <3> QED BY <2>5, <3>1, FunctionOf, Zenon
  <2>6. CASE r.fc = 16
    <3>1. OK(nmbs_write_multiple_registers(r))
      BY <1>2, <1>3, Zenon DEF nmbs_write_multiple_registers, recv_write_multiple_registers_res
    <3> QED BY <2>6, <3>1, FunctionOf, Zenon
  <2>7. CASE r.fc = 20
    <3>1. OK(nmbs_read_file_record(r))
      BY <1>2, <1>3, Zenon DEF nmbs_read_file_record, recv_read_file_record_res
    <3> QED BY <2>7, <3>1, FunctionOf, Zenon
  <2>8. CASE r.fc = 21
    <3>1. OK(nmbs_write_file_record(r))
      BY <1>2, <1>3, Zenon DEF nmbs_write_file_record, recv_write_file_record_res
    <3> QED BY <2>8, <3>1, FunctionOf, Zenon
  <2>9. CASE r.fc = 23
    <3>1. OK(nmbs_read_write_registers(r))
      BY <1>2, <1>3, Zenon DEF nmbs_read_write_registers, recv_read_registers_res
    <3> QED BY <2>9, <3>1, FunctionOf, Zenon
  <2>10. CASE r.fc = 43
    <3>1. r.arg[1] = 1 \/ r.arg[1] = 2 \/ r.arg[1] = 3 \/ r.arg[1] = 4
      <4>1. r.arg[1] \in 1 .. 4
        BY <2>10, Arguments, Zenon
      <4> QED BY <4>1
    <3>2. \A bad, room : OK(Identification(bad, r, o, room))
      BY <1>2, <1>3, Zenon DEF Identification, recv_read_device_identification_res
    <3>3. /\ OK(nmbs_read_device_identification_basic(r, o))
          /\ OK(nmbs_read_device_identification_regular(r, o))
          /\ OK(nmbs_read_device_identification(r, o))
      BY <3>2, Zenon DEF nmbs_read_device_identification_basic,
           nmbs_read_device_identification_regular, nmbs_read_device_identification
    <3>4. OK(nmbs_read_device_identification_extended(r, o, n))
      <4> DEFINE bad == r.arg[2] < 128
                 room == (r.arg[3] - n) % 256
      <4>1. nmbs_read_device_identification_extended(r, o, n) = Identification(bad, r, o, room)
        BY DEF nmbs_read_device_identification_extended
      <4> HIDE DEF bad, room
      <4> QED BY <3>2, <4>1, Zenon
    <3>5. /\ r.arg[1] = 1 => Function(r, o, n) = nmbs_read_device_identification_basic(r, o)
          /\ r.arg[1] = 2 => Function(r, o, n) = nmbs_read_device_identification_regular(r, o)
          /\ r.arg[1] = 3 => Function(r, o, n) = nmbs_read_device_identification_extended(r, o, n)
          /\ r.arg[1] = 4 => Function(r, o, n) = nmbs_read_device_identification(r, o)
      BY <2>10, FunctionOf, Zenon
    <3> QED BY <3>1, <3>3, <3>4, <3>5, Zenon
  <2> QED BY <1>1, <2>1, <2>2, <2>3, <2>4, <2>5, <2>6, <2>7, <2>8, <2>9, <2>10 DEF Functions
<1> QED BY <1>1, <1>4, Zenon DEF OK, forms

\* The exception for a function the server does not know has five bytes.
LEMMA UnknownBytes ==
  ASSUME NEW m, Unknown(m)
  PROVE  \E c \in (0 .. 255) \ Functions : /\ Len(m) = 5 /\ Code(m) = (c + 128) % 256
                                           /\ num(m[3]) = 1
<1>1. PICK c \in (0 .. 255) \ Functions : m = Frame(<< 1 >>, (c + 128) % 256, << << 1 >> >>)
  BY Zenon DEF Unknown
<1> DEFINE k == (c + 128) % 256
           p == << << 1 >>, <<k>> >> \o << << 1 >> >>
           e == crc_calc(p)
<1>2. m = p \o e
  BY <1>1, Zenon DEF Frame
<1>3. k \in 0 .. 255
  BY <1>1
<1> HIDE DEF k
<1> DEFINE s == << << 1 >>, <<k>> >>
           t == << << 1 >> >>
<1>4. s \in Bodies /\ t \in Bodies
  <2>1. 1 \in 0 .. 255
    OBVIOUS
  <2>2. << 1 >> \in DataByte /\ <<k>> \in DataByte
    BY <1>3, <2>1, ByteOf, Zenon
  <2> QED BY <2>2, Short, Zenon
<1>5. Len(s) = 2 /\ Len(t) = 1 /\ s[2] = <<k>> /\ t[1] = << 1 >>
  OBVIOUS
<1>6. p \in Bodies /\ Len(p) = 3 /\ p[2] = <<k>> /\ p[3] = << 1 >>
  <2>0. p = s \o t
    OBVIOUS
  <2> HIDE DEF s, t, p
  <2>1. s \in Seq(WireByte) /\ t \in Seq(WireByte)
    BY <1>4, BodyOnLine, Zenon
  <2>2. 2 \in 1 .. Len(s) /\ 1 \in 1 .. Len(t) /\ Len(s) + Len(t) = 3 /\ Len(s) + 1 = 3
    BY <1>5
  <2>3. Len(s \o t) = Len(s) + Len(t) /\ (s \o t)[2] = s[2] /\ (s \o t)[Len(s) + 1] = t[1]
    <3>1. Len(s \o t) = Len(s) + Len(t) /\ (s \o t)[2] = s[2]
      BY <2>1, <2>2, Joined, Zenon
    <3>2. (s \o t)[Len(s) + 1] = t[1]
      BY <2>1, <2>2, JoinedAt, Zenon
    <3> QED BY <3>1, <3>2
  <2> QED BY <1>4, <1>5, <2>0, <2>2, <2>3, Appended, Zenon
<1> HIDE DEF p
<1>7. p \in Seq(WireByte) /\ e \in Seq(WireByte) /\ Len(e) = 2
  BY <1>6, BodyOnLine, CrcOnLine, Zenon
<1> HIDE DEF e
<1>8. Len(m) = 5 /\ m[2] = <<k>> /\ m[3] = << 1 >>
  <2>1. 2 \in 1 .. Len(p) /\ 3 \in 1 .. Len(p) /\ 3 + 2 = 5
    BY <1>6
  <2>2. Len(m) = Len(p) + Len(e) /\ m[2] = p[2] /\ m[3] = p[3]
    BY <1>2, <1>7, <2>1, Joined, Zenon
  <2> QED BY <1>6, <1>7, <2>1, <2>2, Zenon
<1>9. num(<<k>>) = k /\ num(<< 1 >>) = 1
  BY DEF num
<1> QED BY <1>1, <1>8, <1>9 DEF Code, k

\* The client takes no such exception for an answer.
LEMMA UnknownRefused ==
  ASSUME NEW w, w.fc \in Functions, w.form \in CountedForms \cup {"echo", "objects"},
         NEW m, Unknown(m)
  PROVE  AnswerCheck(w, m) \notin {"NONE", "EXCEPTION"}
<1> SUFFICES ASSUME AnswerCheck(w, m) \in {"NONE", "EXCEPTION"} PROVE FALSE
  OBVIOUS
<1>1. PICK c \in (0 .. 255) \ Functions : Len(m) = 5 /\ Code(m) = (c + 128) % 256 /\ num(m[3]) = 1
  BY UnknownBytes
<1>2. AnswerTarget(w, m) = 0
  BY AnswerAccepted
<1>3. ~IsException(w, m)
  <2> SUFFICES ASSUME IsException(w, m) PROVE FALSE
    OBVIOUS
  <2> DEFINE fc == w.fc
  <2>1. (c + 128) % 256 = fc + 128
    BY <1>1 DEF IsException
  <2>2. fc \in 0 .. 43 /\ fc # c
    BY DEF Functions
  <2> HIDE DEF fc
  <2> QED BY <1>1, <2>1, <2>2
<1>4. ~(Len(m) < 2)
  BY <1>1
<1>5. CASE w.form = "echo"
  <2>1. AnswerTarget(w, m) = Parts(Len(m), 6, 0)
    BY <1>3, <1>4, <1>5, TargetOf, Zenon
  <2> QED BY <1>1, <1>2, <2>1 DEF Parts
<1>6. CASE w.form = "objects"
  <2>1. AnswerTarget(w, m) = IF Len(m) < 8 THEN 8 ELSE ObjectTarget(m)
    BY <1>3, <1>4, <1>6, TargetOf, Zenon
  <2> QED BY <1>1, <1>2, <2>1
<1>7. CASE w.form \in CountedForms
  <2>1. AnswerTarget(w, m) = Parts(Len(m), 3, IF Len(m) < 3 THEN 0 ELSE num(m[3]))
    BY <1>3, <1>4, <1>7, TargetOf, Zenon
  <2> QED BY <1>1, <1>2, <2>1 DEF Parts
<1> QED BY <1>5, <1>6, <1>7

\* The call d is the call c, with other bytes to read.
Kept(d, c) == d.at = c.at /\ d.r = c.r /\ d.object = c.object /\ d.fresh = c.fresh /\ d.err = c.err

\* Bytes arrive for the client.
LEMMA ClientKept ==
  ASSUME ClientOK(client), NEW h, client' = [client EXCEPT !.rx = @ \o h]
  PROVE  Kept(client', client) /\ client'.rx = client.rx \o h /\ client'.buf = client.buf
<1> DEFINE v == client.rx \o h
<1>1. client = ClientState(client.at, client.r, client.rx, client.buf, client.err, client.object,
                           client.ids, client.fresh, client.early, client.faults)
  BY ClientIs, Zenon
<1>2. client' = [client EXCEPT !.rx = v]
  OBVIOUS
<1> HIDE DEF v
<1>3. client' = ClientState(client.at, client.r, v, client.buf, client.err, client.object,
                            client.ids, client.fresh, client.early, client.faults)
  BY <1>1, <1>2 DEF ClientState
<1>4. Kept(client', client) /\ client'.rx = v /\ client'.buf = client.buf
  BY <1>3 DEF ClientState, Kept
<1> QED BY <1>4 DEF v

\* The servers do nothing to the call but send bytes.
LEMMA ServersKeepCall ==
  ASSUME ClientOK(client), ServerStep \/ OtherAnswers
  PROVE  Kept(client', client)
<1> DEFINE Hears == client' = client \/ \E h : client' = [client EXCEPT !.rx = @ \o h]
<1>1. Hears => Kept(client', client)
  <2>1. client' = client => Kept(client', client)
    BY Zenon DEF Kept
  <2> QED BY <2>1, ClientKept, Zenon
<1>2. ASSUME NEW b, NEW f, NEW q, ServerSends(b, f, q) PROVE Hears
  BY <1>2, Zenon DEF ServerSends
<1>3. ASSUME NEW m, NEW q, ServerHandles(m, q) PROVE Hears
  <2> DEFINE handler == handle_req_fc(m, Value)
  <2>1. CASE ServerIgnores(m, handler, q)
    BY <2>1, Zenon DEF ServerIgnores
  <2>2. CASE ServerRefuses(m, handler, q)
    <3>1. \E b, f : ServerSends(b, f, q)
      BY <2>2, Zenon DEF ServerRefuses
    <3> HIDE DEF Hears
    <3> QED BY <1>2, <3>1, Zenon
  <2>3. CASE ServerFails(m, handler, q)
    <3>1. \E b, f : ServerSends(b, f, q)
      BY <2>3, Zenon DEF ServerFails
    <3> HIDE DEF Hears
    <3> QED BY <1>2, <3>1, Zenon
  <2>4. CASE ServerExecutes(m, handler, q)
    <3>1. \E b, f : ServerSends(b, f, q)
      BY <2>4, Zenon DEF ServerExecutes
    <3> HIDE DEF Hears
    <3> QED BY <1>2, <3>1, Zenon
  <2>5. CASE ServerBroadcast(m, handler, q)
    BY <2>5, Zenon DEF ServerBroadcast
  <2> QED BY <1>3, <2>1, <2>2, <2>3, <2>4, <2>5, Zenon DEF ServerHandles
<1>4. CASE OtherAnswers
  BY <1>1, <1>4, Zenon DEF OtherAnswers
<1>5. CASE ServerStep
  <2>1. \E m, v, q : \/ ServerReceives(m, v, q) \/ ServerRejects(m, v, q) \/ ServerOverhears(m, v, q)
                     \/ ServerDefault(m, v) \/ ServerHandles(m, q) \/ ServerTimeout
    BY <1>5, Zenon DEF ServerStep
  <2>2. PICK m, v, q : \/ ServerReceives(m, v, q) \/ ServerRejects(m, v, q) \/ ServerOverhears(m, v, q)
                       \/ ServerDefault(m, v) \/ ServerHandles(m, q) \/ ServerTimeout
    BY <2>1
  <2>3. CASE ServerDefault(m, v)
    <3>1. client' = client \/ \E b, f, p : ServerSends(b, f, p)
      BY <2>3, Zenon DEF ServerDefault
    <3>2. Hears
      <4>1. client' = client => Hears
        OBVIOUS
      <4> HIDE DEF Hears
      <4> QED BY <1>2, <3>1, <4>1, Zenon
    <3> QED BY <1>1, <3>2
  <2>4. CASE ServerHandles(m, q)
    BY <1>1, <1>3, <2>4
  <2>5. CASE ServerReceives(m, v, q) \/ ServerRejects(m, v, q) \/ ServerOverhears(m, v, q) \/ ServerTimeout
    <3>1. client' = client
      BY <2>5, Zenon DEF ServerReceives, ServerRejects, ServerOverhears, ServerTimeout
    <3> QED BY <1>1, <3>1
  <2> QED BY <2>2, <2>3, <2>4, <2>5
<1> QED BY <1>4, <1>5

\* The end of a poll with nothing left to read.
LEMMA PollIdles ==
  ASSUME EndPoll(<<>>), other' = <<>>
  PROVE  Idling(server', other')
<1>1. server' = [at |-> "req", rx |-> <<>>, buf |-> <<>>, want |-> NoRes]
  BY DEF EndPoll, Polling
<1> QED BY <1>1 DEF Idling

\* The server has sent f, and is done.
LEMMA SendsReply ==
  ASSUME ClientOK(client), client.buf = <<>>, client.rx = <<>>, other = <<>>,
         NEW p \in Bodies, NEW f, f = p \o crc_calc(p), NEW b, ServerSends(b, f, <<>>)
  PROVE  /\ Idling(server', other')
         /\ \/ Stream(client') = <<>>
            \/ Stream(client') \in Arrivals(f) /\ served' = [request |-> b, frame |-> f]
<1>0. other' = <<>>
  BY Zenon DEF ServerSends
<1>1. EndPoll(<<>>)
  BY Zenon DEF ServerSends
<1>2. Idling(server', other')
  BY <1>0, <1>1, PollIdles
<1>3. ASSUME NEW h \in Arrivals(f), client' = [client EXCEPT !.rx = @ \o h]
      PROVE  Stream(client') = h
  <2>1. h \in Seq(WireByte)
    BY FrameArrives, Zenon
  <2>2. client'.rx = client.rx \o h /\ client'.buf = client.buf
    BY <1>3, ClientKept, Zenon
  <2>3. <<>> \o h = h
    BY <2>1, ConcatEmptySeq
  <2>4. <<>> \o (<<>> \o h) = h
    BY <2>3, Zenon
  <2> QED BY <2>2, <2>4, Zenon DEF Stream
<1>4. \/ \E h \in Arrivals(f) : client' = [client EXCEPT !.rx = @ \o h] /\ served' = [request |-> b, frame |-> f]
      \/ client' = client
  BY Zenon DEF ServerSends
<1>5. client' = client => Stream(client') = <<>>
  <2>1. <<>> \o <<>> = <<>>
    OBVIOUS
  <2> QED BY <2>1, Zenon DEF Stream
<1> QED BY <1>2, <1>3, <1>4, <1>5, Zenon

\* The function code of a header is a byte.
LEMMA HeaderCode ==
  ASSUME NEW m \in Seq(WireByte), Len(m) = 2
  PROVE  Code(m) \in 0 .. 255
<1>1. m[2] \in WireByte
  OBVIOUS
<1> QED BY <1>1, NumIn, Zenon DEF Code

\* The server reads what arrived of a request to it: it goes on, gives the
\* request up, or answers.
LEMMA AskedStep ==
  ASSUME IInv, NEW p \in Bodies, Len(p) >= 2, p[1] = << 1 >>, NEW f, f = p \o crc_calc(p),
         Asked(client, server, other, f), ServerStep
  PROVE  Asked(client', server', other', f) \/ Replied(client', server', other', served', f)
<1>1. ClientOK(client) /\ ServerOK(server)
  BY Zenon DEF IInv
<1>2. /\ server.at = "req" /\ other = <<>> /\ client.buf = <<>> /\ client.rx = <<>>
      /\ Stream(server) \in Arrivals(f)
  BY Zenon DEF Asked
<1>3. server.at # "res"
  BY <1>2
<1>4. ASSUME EndPoll(<<>>), client' = client, other' = other
      PROVE  Replied(client', server', other', served', f)
  <2>1. Idling(server', other')
    BY <1>2, <1>4, PollIdles, Zenon
  <2>2. <<>> \o <<>> = <<>>
    OBVIOUS
  <2>3. Stream(client') = <<>>
    BY <1>2, <1>4, <2>2, Zenon DEF Stream
  <2> QED BY <2>1, <2>3, Zenon DEF Replied
<1>5. ASSUME NEW b, NEW x \in Bodies, ServerSends(b, x \o crc_calc(x), <<>>),
             b = Body(f) \/ Unknown(x \o crc_calc(x))
      PROVE  Replied(client', server', other', served', f)
  <2> DEFINE g == x \o crc_calc(x)
  <2>1. /\ Idling(server', other')
        /\ \/ Stream(client') = <<>>
           \/ Stream(client') \in Arrivals(g) /\ served' = [request |-> b, frame |-> g]
    BY <1>1, <1>2, <1>5, SendsReply, Zenon
  <2>2. ASSUME served' = [request |-> b, frame |-> g] PROVE served'.frame = g /\ ReplyTo(served', f)
    <3> HIDE DEF g
    <3>1. served'.request = b /\ served'.frame = g
      BY <2>2
    <3> QED BY <1>5, <2>2, <3>1, Zenon DEF ReplyTo, g
  <2> HIDE DEF g
  <2> QED BY <2>1, <2>2, Zenon DEF Replied
<1>6. CASE ServerTimeout
  BY <1>4, <1>6, Zenon DEF ServerTimeout
<1>7. CASE Enough(server, ServerTarget) /\ ~ServerTimeout
  <2> DEFINE m == Taken(server, ServerTarget)
             q == Left(server, ServerTarget)
             v == Verdict(m)
  <2>1. \/ ServerReceives(m, v, q) \/ ServerRejects(m, v, q) \/ ServerOverhears(m, v, q)
        \/ ServerDefault(m, v) \/ (v = "NONE" /\ ServerHandles(m, q))
    BY <1>7, Zenon DEF ServerStep
  <2>2. m \in Seq(WireByte) /\ q \in Seq(WireByte) /\ Stream(server) = m \o q
    BY <1>1, <1>7, TakenStream, Zenon
  <2>3. v = Verdict(m) /\ m = Taken(server, ServerTarget)
    OBVIOUS
  <2> HIDE DEF m, q, v
  <2>4. CASE ServerReceives(m, v, q)
    <3>1. server' = [server EXCEPT !.buf = m, !.rx = q] /\ client' = client /\ other' = other
      BY <2>4, Zenon DEF ServerReceives
    <3>2. server = [at |-> server.at, rx |-> server.rx, buf |-> server.buf, want |-> server.want]
      BY <1>1, Zenon DEF ServerOK
    <3>3. server'.at = server.at /\ server'.buf = m /\ server'.rx = q
      BY <3>1, <3>2
    <3>4. Stream(server') = Stream(server)
      BY <2>2, <3>3, Zenon DEF Stream
    <3> QED BY <1>2, <3>1, <3>3, <3>4, Zenon DEF Asked
  <2>5. CASE ServerRejects(m, v, q)
    BY <1>4, <2>5, Zenon DEF ServerRejects
  <2>6. CASE ServerOverhears(m, v, q)
    BY <1>3, <2>6, Zenon DEF ServerOverhears
  <2>7. CASE ServerDefault(m, v)
    <3>1. CASE EndPoll(<<>>) /\ UNCHANGED <<client, other, sent, served, plan, calls, faults>>
      BY <1>4, <3>1
    <3>2. CASE ~(EndPoll(<<>>) /\ UNCHANGED <<client, other, sent, served, plan, calls, faults>>)
      <4>1. /\ v = "unknown" /\ ~ignored(m) /\ m[1] # Broadcast
            /\ ServerSends(m, send_exception_msg(m, 1), <<>>)
        BY <2>7, <3>2, Zenon DEF ServerDefault
      <4>2. m[1] = << 1 >>
        BY <4>1, Zenon DEF ignored
      <4>3. Len(m) = 2 /\ Code(m) \notin Functions
        <5>1. RequestCheck(m) # "unknown"
          BY DEF RequestCheck
        <5>2. "more" # "unknown"
          OBVIOUS
        <5> QED BY <1>3, <2>3, <4>1, <5>1, <5>2, Zenon DEF Verdict
      <4> DEFINE c == Code(m)
                 k == (c + 128) % 256
                 pdu == << << 1 >> >>
      <4>4. c \in (0 .. 255) \ Functions
        <5>1. m \in Seq(WireByte) /\ Len(m) = 2
          BY <2>2, <4>3, Zenon
        <5> QED BY <4>3, <5>1, HeaderCode, Zenon
      <4>5. send_exception_msg(m, 1) = Frame(<< 1 >>, k, pdu)
        BY <4>2, Zenon DEF send_exception_msg
      <4>6. Unknown(send_exception_msg(m, 1))
        <5> HIDE DEF c
        <5> QED BY <4>4, <4>5 DEF Unknown
      <4>7. PICK x \in Bodies : send_exception_msg(m, 1) = x \o crc_calc(x)
        <5>1. 1 \in 0 .. 255 /\ Len(m) >= 2
          BY <4>3
        <5>2. << 1 >> \in DataByte
          BY <5>1, ByteOf, Zenon
        <5> QED BY <2>2, <4>2, <5>1, <5>2, ExceptionBody, Zenon
      <4> QED BY <1>5, <4>1, <4>6, <4>7, Zenon
    <3> QED BY <3>1, <3>2
  <2>8. CASE v = "NONE" /\ ServerHandles(m, q)
    <3>1. Len(m) >= 2 /\ CrcOK(m)
      BY <2>2, <2>3, <2>8, AcceptedCrc, Zenon
    <3>2. m = f /\ q = <<>>
      <4>1. m \o q \in Arrivals(f)
        BY <1>2, <2>2, Zenon
      <4> QED BY <2>2, <3>1, <4>1, ArrivedWhole
    <3>3. m[1] = << 1 >>
      <4>1. p \in Seq(WireByte) /\ crc_calc(p) \in Seq(WireByte)
        BY BodyOnLine, CrcOnLine
      <4>2. 1 \in 1 .. Len(p)
        BY <4>1
      <4>3. (p \o crc_calc(p))[1] = p[1]
        BY <4>1, <4>2, Joined, Zenon
      <4> QED BY <3>2, <4>3, Zenon
    <3>4. ~ignored(m) /\ m[1] # Broadcast
      BY <3>3 DEF ignored, Broadcast
    <3>5. Request(m) /\ m[1] \in DataByte /\ Code(m) \in 0 .. 255
      BY <1>1, <1>2, <1>7, <2>3, <2>8, HandledRequest, Zenon
    <3> DEFINE handler == handle_req_fc(m, Value)
    <3>6. ServerRefuses(m, handler, q) \/ ServerFails(m, handler, q) \/ ServerExecutes(m, handler, q)
      BY <2>8, <3>4, Zenon DEF ServerHandles, ServerIgnores, ServerBroadcast
    <3>7. handler = handle_req_fc(m, Value)
      OBVIOUS
    <3> HIDE DEF handler
    <3>8. PICK x \in Bodies : ServerSends(Body(m), x \o crc_calc(x), q)
      BY <2>2, <3>1, <3>5, <3>6, <3>7, HandlerSends, Zenon
    <3> QED BY <1>5, <3>2, <3>8, Zenon
  <2> QED BY <2>1, <2>4, <2>5, <2>6, <2>7, <2>8
<1> QED BY <1>6, <1>7, Zenon DEF ServerStep

\* msg_state_req leaves nothing to read, and is fresh only if nothing is under way.
LEMMA RequestFollows ==
  ASSUME ClientOK(client), NEW r, NEW object, NEW ids, NEW fresh, NEW started,
         MsgStateReq(r, object, ids, fresh, started), server' = server, other' = other
  PROVE  Follows(client', server', other', served')
<1> DEFINE now == fresh /\ BusQuiet
<1>1. now => Idling(server, other)
  BY Zenon DEF BusQuiet, Idling
<1>2. client' = ClientState("send", r, <<>>, <<>>, "NONE", object, ids, now, FALSE, started)
  BY MsgStateReqState, Zenon
<1> HIDE DEF now
<1>3. client'.at = "send" /\ client'.rx = <<>> /\ client'.fresh = now
  BY <1>2 DEF ClientState
<1>4. client'.at # "recv" /\ client'.at # "done"
  BY <1>3
<1>5. client'.fresh => Idling(server', other')
  BY <1>1, <1>3, Zenon
<1> QED BY <1>3, <1>4, <1>5, Zenon DEF Follows

\* What the client accepts is the answer the server gave to its request.
LEMMA AcceptedAnswer ==
  ASSUME IInv, Follows(client, server, other, served),
         client.fresh, client.r.to = << 1 >>, ~client.r.raw, client.at = "recv",
         NEW w, w = Wants(client), NEW t, t = AnswerTarget(w, client.buf), Enough(client, t),
         AnswerCheck(w, Taken(client, t)) \in {"NONE", "EXCEPTION"}
  PROVE  /\ Idling(server, other)
         /\ served = [request |-> Body(RequestFrame(client.r, client.object)), frame |-> Taken(client, t)]
<1> DEFINE f == RequestFrame(client.r, client.object)
           b == Taken(client, t)
           rest == Left(client, t)
<1>1. /\ ClientOK(client) /\ client.buf \in Seq(WireByte) /\ client.rx \in Seq(WireByte)
      /\ Ahead(t, client.buf) /\ WellFormed(client.r)
  <2>1. ClientOK(client)
    BY Zenon DEF IInv
  <2>2. client.at \in {"send", "recv"}
    OBVIOUS
  <2> QED BY <2>1, <2>2, Zenon DEF ClientOK
<1>2. b \in Seq(WireByte) /\ rest \in Seq(WireByte) /\ Stream(client) = b \o rest /\ Stream(client) # <<>>
  BY <1>1, StreamDivided, Zenon
<1>3. ~Asked(client, server, other, f)
  <2>1. <<>> \o <<>> = <<>>
    OBVIOUS
  <2> QED BY <1>2, <2>1, Zenon DEF Asked, Stream
<1>4. Idling(server, other) /\ Stream(client) \in Arrivals(served.frame) /\ ReplyTo(served, f)
  <2>1. Asked(client, server, other, f) \/ Replied(client, server, other, served, f)
    BY Zenon DEF Follows
  <2> HIDE DEF f
  <2> QED BY <1>2, <1>3, <2>1, Zenon DEF Replied
<1> HIDE DEF f
<1>5. PICK p \in Bodies : /\ served = [request |-> served.request, frame |-> p \o crc_calc(p)]
                          /\ served.request = Body(f) \/ Unknown(served.frame)
  BY <1>4, Zenon DEF ReplyTo
<1> DEFINE g == p \o crc_calc(p)
<1>6. served.frame = g
  <2>1. served = [request |-> served.request, frame |-> g]
    BY <1>5
  <2> HIDE DEF g
  <2> QED BY <2>1
<1>7. CrcOK(b) /\ ~(Len(b) < 2)
  BY AnswerAccepted
<1> HIDE DEF b, rest
<1>8. b = g /\ rest = <<>>
  <2>1. Len(b) >= 2
    BY <1>2, <1>7
  <2>2. b \o rest \in Arrivals(g)
    BY <1>2, <1>4, <1>6, Zenon
  <2> QED BY <1>2, <1>7, <2>1, <2>2, ArrivedWhole
<1>9. ~Unknown(b)
  <2> DEFINE o == client.object
             n == Len(client.ids)
             r == client.r
  <2>1. w = Function(r, o, n).res
    BY Zenon DEF Wants
  <2>2. WellFormed(r) /\ ~r.raw
    BY <1>1
  <2> HIDE DEF o, n, r
  <2>3. w.fc \in Functions /\ w.form \in CountedForms \cup {"echo", "objects"}
    <3>1. /\ r.fc \in Functions /\ Function(r, o, n).res.fc = r.fc
          /\ Function(r, o, n).res.form \in CountedForms \cup {"echo", "objects"}
      BY <2>2, WaitsForCode
    <3> QED BY <2>1, <3>1, Zenon
  <2> QED BY <2>3, UnknownRefused, Zenon DEF b
<1>10. served = [request |-> Body(f), frame |-> b]
  BY <1>5, <1>6, <1>8, <1>9, Zenon
<1> QED BY <1>4, <1>10 DEF f, b

\* The client receives.
LEMMA RecvFollows ==
  ASSUME IInv, Follows(client, server, other, served), ClientRecv
  PROVE  Follows(client', server', other', served')
<1> DEFINE w == Wants(client)
           t == AnswerTarget(w, client.buf)
           b == Taken(client, t)
           rest == Left(client, t)
           f == RequestFrame(client.r, client.object)
           v == AnswerCheck(w, b)
<1>1. ClientOK(client)
  BY Zenon DEF IInv
<1>2. /\ client = ClientState(client.at, client.r, client.rx, client.buf, client.err, client.object,
                              client.ids, client.fresh, client.early, client.faults)
      /\ client.rx \in Seq(WireByte) /\ client.buf \in Seq(WireByte)
  BY <1>1, ClientIs, Zenon
<1>3. Awaited = w /\ ClientTarget = t
  BY Zenon DEF Awaited, ClientTarget, Wants
<1>4. client.at = "recv" /\ Enough(client, t)
  BY <1>3, Zenon DEF ClientRecv
<1>5. Ahead(t, client.buf)
  BY <1>1, <1>4, Zenon DEF ClientOK
<1>6. b \in Seq(WireByte) /\ rest \in Seq(WireByte) /\ Stream(client) = b \o rest /\ Stream(client) # <<>>
  BY <1>2, <1>4, <1>5, StreamDivided, Zenon
<1>7. /\ \/ /\ v = "more"
            /\ client' = [client EXCEPT !.buf = b, !.rx = rest]
         \/ /\ v = "NONE" /\ w.form = "objects"
            /\ Page(b, rest)
         \/ client' = [client EXCEPT !.at = "done", !.err = v, !.buf = b, !.rx = rest]
      /\ server' = server /\ other' = other /\ served' = served
  BY <1>3, Zenon DEF ClientRecv
<1>8. ASSUME v \in {"NONE", "EXCEPTION"}, client.fresh, client.r.to = << 1 >>, ~client.r.raw
      PROVE  Idling(server, other) /\ served = [request |-> Body(f), frame |-> b]
  BY <1>4, <1>8, AcceptedAnswer, Zenon
<1>9. ASSUME NEW ids, NEW e, e \in {"NONE", "EXCEPTION"} => v \in {"NONE", "EXCEPTION"},
             client' = ClientState("done", client.r, rest, b, e, client.object,
                                   ids, client.fresh, client.early, client.faults)
      PROVE  Follows(client', server', other', served')
  <2> HIDE DEF b, rest, v, w, t
  <2>1. /\ client'.at = "done" /\ client'.r = client.r /\ client'.object = client.object
        /\ client'.fresh = client.fresh /\ client'.err = e /\ client'.buf = b
    BY <1>9 DEF ClientState
  <2>2. client'.at # "send" /\ client'.at # "recv"
    BY <2>1
  <2> QED BY <1>7, <1>8, <1>9, <2>1, <2>2, Zenon DEF Follows
<1>10. CASE v = "more" /\ client' = [client EXCEPT !.buf = b, !.rx = rest]
  <2> HIDE DEF b, rest, v, w, t
  <2>1. client' = ClientState("recv", client.r, rest, b, client.err, client.object,
                              client.ids, client.fresh, client.early, client.faults)
    BY <1>2, <1>4, <1>10 DEF ClientState
  <2>2. /\ client'.at = "recv" /\ client'.r = client.r /\ client'.object = client.object
        /\ client'.fresh = client.fresh /\ client'.buf = b /\ client'.rx = rest
    BY <2>1 DEF ClientState
  <2>3. client'.at # "send" /\ client'.at # "done" /\ Stream(client') = Stream(client)
    BY <1>6, <2>2 DEF Stream
  <2>4. <<>> \o <<>> = <<>>
    OBVIOUS
  <2>5. ~Asked(client, server, other, f)
    BY <1>6, <2>4, Zenon DEF Asked, Stream
  <2>6. Replied(client, server, other, served, f) => Replied(client', server', other', served', f)
    BY <1>7, <2>3, Zenon DEF Replied
  <2> QED BY <1>4, <2>2, <2>3, <2>5, <2>6, Zenon DEF Follows
<1>11. CASE v = "NONE" /\ w.form = "objects" /\ Page(b, rest)
  <2>0. AnswerCheck(w, b) = "NONE"
    BY <1>11
  <2> HIDE DEF b, rest, v, w, t
  <2>1. num(b[7]) \in 0 .. 255
    BY <1>6, <1>11, <2>0, PageHeader, Zenon
  <2>2. PICK ids :
           \/ \E e : client' = [client EXCEPT !.at = "done", !.err = e, !.buf = b, !.ids = ids, !.rx = rest]
           \/ \E next \in 0 .. 255 : MsgStateReq(client.r, next, ids, client.fresh, client.faults)
    BY <1>11, <2>1, PageOutcome, ZenonT(30)
  <2>3. ASSUME NEW e, client' = [client EXCEPT !.at = "done", !.err = e, !.buf = b, !.ids = ids, !.rx = rest]
        PROVE  Follows(client', server', other', served')
    <3>1. client' = ClientState("done", client.r, rest, b, e, client.object,
                                ids, client.fresh, client.early, client.faults)
      BY <1>2, <2>3 DEF ClientState
    <3>2. v \in {"NONE", "EXCEPTION"}
      BY <1>11
    <3> QED BY <1>9, <3>1, <3>2, Zenon
  <2>4. ASSUME NEW next \in 0 .. 255, MsgStateReq(client.r, next, ids, client.fresh, client.faults)
        PROVE  Follows(client', server', other', served')
    BY <1>1, <1>7, <2>4, RequestFollows, Zenon
  <2> QED BY <2>2, <2>3, <2>4, Zenon
<1>12. CASE client' = [client EXCEPT !.at = "done", !.err = v, !.buf = b, !.rx = rest]
  <2> HIDE DEF b, rest, v, w, t
  <2>1. client' = ClientState("done", client.r, rest, b, v, client.object,
                              client.ids, client.fresh, client.early, client.faults)
    BY <1>2, <1>12 DEF ClientState
  <2> QED BY <1>9, <2>1, Zenon
<1> HIDE DEF b, rest, v, w, t
<1> QED BY <1>7, <1>10, <1>11, <1>12, Zenon

\* The client sends, and the request is alone on the line.
LEMMA SendFollows ==
  ASSUME IInv, Follows(client, server, other, served), Send
  PROVE  Follows(client', server', other', served')
<1> DEFINE r == client.r
           f == RequestFrame(r, client.object)
<1>1. ClientOK(client) /\ ServerOK(server) /\ client.at = "send"
  BY Zenon DEF IInv, Send
<1>2. /\ client = ClientState(client.at, client.r, client.rx, client.buf, client.err, client.object,
                              client.ids, client.fresh, client.early, client.faults)
      /\ WellFormed(r) /\ ~Refused(r) /\ client.object \in 0 .. 255 /\ client.buf = <<>>
  BY <1>1, ClientIs, Zenon DEF ClientOK
<1>3. PICK p \in Bodies : f = p \o crc_calc(p) /\ Len(p) >= 2 /\ p[1] = r.to
  BY <1>2, RequestOnLine, Zenon
<1>4. \/ \E h \in Arrivals(f) :
           /\ server' = [server EXCEPT !.rx = @ \o h]
           /\ other' = IF h = f /\ r.to = << 2 >> THEN Append(other, f) ELSE other
           /\ client' = [client EXCEPT !.at = IF AwaitsAnswer(r) THEN "recv" ELSE "done"]
      \/ \E e \in SendErrors : client' = [client EXCEPT !.at = "done", !.err = e]
  BY Zenon DEF Send, Finish
<1> HIDE DEF f
<1>5. ASSUME NEW h \in Arrivals(f), server' = [server EXCEPT !.rx = @ \o h],
             other' = IF h = f /\ r.to = << 2 >> THEN Append(other, f) ELSE other,
             client' = [client EXCEPT !.at = IF AwaitsAnswer(r) THEN "recv" ELSE "done"]
      PROVE  Follows(client', server', other', served')
  <2> DEFINE at == IF AwaitsAnswer(r) THEN "recv" ELSE "done"
  <2>1. client' = [client EXCEPT !.at = at]
    BY <1>5
  <2> HIDE DEF at
  <2>2. client' = ClientState(at, client.r, client.rx, client.buf, client.err, client.object,
                              client.ids, client.fresh, client.early, client.faults)
    BY <1>2, <2>1 DEF ClientState
  <2>3. /\ client'.at = at /\ client'.r = r /\ client'.object = client.object
        /\ client'.fresh = client.fresh /\ client'.buf = client.buf /\ client'.rx = client.rx
    BY <2>2 DEF ClientState
  <2> SUFFICES ASSUME client.fresh, r.to = << 1 >>, ~r.raw
               PROVE  at = "recv" /\ Asked(client', server', other', f)
    <3>1. "recv" # "send" /\ "recv" # "done"
      OBVIOUS
    <3> QED BY <2>3, <3>1, Zenon DEF Follows, f
  <2>4. r.to # Broadcast /\ r.to # << 2 >>
    BY DEF Broadcast
  <2>5. at = "recv"
    BY <2>4, Zenon DEF at, AwaitsAnswer
  <2>6. Idling(server, other) /\ client.rx = <<>>
    BY <1>1, Zenon DEF Follows
  <2>7. h \in Seq(WireByte)
    BY <1>3, FrameArrives, Zenon
  <2>8. Stream(server') = h
    <3>1. Stream(server') = Stream(server) \o h
      BY <1>1, <1>5, <2>7, HeardStream, Zenon
    <3>2. <<>> \o <<>> = <<>>
      OBVIOUS
    <3>3. Stream(server) = <<>>
      BY <2>6, <3>2, Zenon DEF Stream, Idling
    <3>4. <<>> \o h = h
      BY <2>7, ConcatEmptySeq
    <3> QED BY <3>1, <3>3, <3>4, Zenon
  <2>9. server'.at = "req"
    <3>1. server.at = "req"
      BY <2>6, Zenon DEF Idling
    <3> DEFINE v == server.rx \o h
    <3>2. server = [at |-> server.at, rx |-> server.rx, buf |-> server.buf, want |-> server.want]
      BY <1>1, Zenon DEF ServerOK
    <3>3. server' = [server EXCEPT !.rx = v]
      BY <1>5
    <3> HIDE DEF v
    <3>4. server' = [at |-> server.at, rx |-> v, buf |-> server.buf, want |-> server.want]
      BY <3>2, <3>3
    <3> QED BY <3>1, <3>4
  <2>10. other' = <<>>
    BY <1>5, <2>4, <2>6, Zenon DEF Idling
  <2>11. Asked(client', server', other', f)
    BY <1>2, <1>5, <2>3, <2>6, <2>8, <2>9, <2>10, Zenon DEF Asked
  <2> QED BY <2>5, <2>11
<1>6. ASSUME NEW e \in SendErrors, client' = [client EXCEPT !.at = "done", !.err = e]
      PROVE  Follows(client', server', other', served')
  <2>1. client' = ClientState("done", client.r, client.rx, client.buf, e, client.object,
                              client.ids, client.fresh, client.early, client.faults)
    BY <1>2, <1>6 DEF ClientState
  <2>2. client'.at = "done" /\ client'.err = e
    BY <2>1 DEF ClientState
  <2>3. client'.at # "send" /\ client'.at # "recv" /\ client'.err \notin {"NONE", "EXCEPTION"}
    BY <2>2 DEF SendErrors
  <2> QED BY <2>3, Zenon DEF Follows
<1> QED BY <1>4, <1>5, <1>6, Zenon

\* A call begins: msg_state_req, or the arguments are refused.
LEMMA CallFollows ==
  ASSUME IInv, NEW r, Call(r)
  PROVE  Follows(client', server', other', served')
<1>1. ClientOK(client) /\ server' = server /\ other' = other
  BY Zenon DEF IInv, Call
<1>2. CASE client' = [client EXCEPT !.at = "done", !.r = r, !.err = "INVALID_ARGUMENT"]
  <2>1. client = ClientState(client.at, client.r, client.rx, client.buf, client.err, client.object,
                             client.ids, client.fresh, client.early, client.faults)
    BY <1>1, ClientIs, Zenon
  <2>2. client' = ClientState("done", r, client.rx, client.buf, "INVALID_ARGUMENT", client.object,
                              client.ids, client.fresh, client.early, client.faults)
    BY <1>2, <2>1 DEF ClientState
  <2>3. client'.at = "done" /\ client'.err = "INVALID_ARGUMENT"
    BY <2>2 DEF ClientState
  <2>4. client'.at # "send" /\ client'.at # "recv" /\ client'.err \notin {"NONE", "EXCEPTION"}
    BY <2>3
  <2> QED BY <2>4, Zenon DEF Follows
<1>3. CASE MsgStateReq(r, FirstObject(r), <<>>, TRUE, faults)
  BY <1>1, <1>3, RequestFollows, Zenon
<1> QED BY <1>2, <1>3, Zenon DEF Call

\* The client gives up, or returns.
LEMMA EndFollows ==
  ASSUME IInv, ClientTimeout \/ Return
  PROVE  Follows(client', server', other', served')
<1>1. ClientOK(client)
  BY Zenon DEF IInv
<1>2. CASE ClientTimeout
  <2> DEFINE early == ~BusQuiet
  <2>1. client = ClientState(client.at, client.r, client.rx, client.buf, client.err, client.object,
                             client.ids, client.fresh, client.early, client.faults)
    BY <1>1, ClientIs, Zenon
  <2>2. client' = [client EXCEPT !.at = "done", !.err = "TIMEOUT", !.rx = <<>>, !.early = early]
    BY <1>2, Zenon DEF ClientTimeout
  <2> HIDE DEF early
  <2>3. client' = ClientState("done", client.r, <<>>, client.buf, "TIMEOUT", client.object,
                              client.ids, client.fresh, early, client.faults)
    BY <2>1, <2>2 DEF ClientState
  <2>4. client'.at = "done" /\ client'.err = "TIMEOUT"
    BY <2>3 DEF ClientState
  <2>5. client'.at # "send" /\ client'.at # "recv" /\ client'.err \notin {"NONE", "EXCEPTION"}
    BY <2>4
  <2> QED BY <2>5, Zenon DEF Follows
<1>3. CASE Return
  <2>1. ~client'.fresh
    BY <1>3 DEF Return, Idle
  <2> QED BY <2>1, Zenon DEF Follows
<1> QED BY <1>2, <1>3

\* The server or unit 2 makes a step.
LEMMA ServersFollow ==
  ASSUME IInv, Follows(client, server, other, served), ServerStep \/ OtherAnswers
  PROVE  Follows(client', server', other', served')
<1> DEFINE f == RequestFrame(client.r, client.object)
<1>1. ClientOK(client)
  BY Zenon DEF IInv
<1>2. Kept(client', client) /\ ~Idling(server, other)
  BY <1>1, ServersKeepCall, IdlingRests, Zenon
<1>3. /\ client'.at = client.at /\ client'.r = client.r /\ client'.object = client.object
      /\ client'.fresh = client.fresh /\ client'.err = client.err
  BY <1>2, Zenon DEF Kept
<1> SUFFICES ASSUME client.fresh, client.r.to = << 1 >>, ~client.r.raw, client.at = "recv"
             PROVE  Asked(client', server', other', f) \/ Replied(client', server', other', served', f)
  <2> DEFINE Goal == client.at = "recv" => Asked(client', server', other', f) \/ Replied(client', server', other', served', f)
  <2>1. client.fresh /\ client.r.to = << 1 >> /\ ~client.r.raw => Goal
    OBVIOUS
  <2>2. client.fresh /\ client.r.to = << 1 >> /\ ~client.r.raw =>
          client.at # "send" /\ ~(client.at = "done" /\ client.err \in {"NONE", "EXCEPTION"})
    BY <1>2, Zenon DEF Follows
  <2> QED BY <1>3, <2>1, <2>2, Zenon DEF Follows
<1>4. Asked(client, server, other, f)
  BY <1>2, Zenon DEF Follows, Replied
<1>5. WellFormed(client.r) /\ ~Refused(client.r) /\ client.object \in 0 .. 255
  <2>1. client.at \in {"send", "recv"}
    OBVIOUS
  <2> QED BY <1>1, <2>1, Zenon DEF ClientOK
<1>6. PICK p \in Bodies : f = p \o crc_calc(p) /\ Len(p) >= 2 /\ p[1] = client.r.to
  BY <1>5, RequestOnLine, Zenon
<1>7. ServerStep
  BY <1>4, Zenon DEF Asked, OtherAnswers
<1> HIDE DEF f
<1> QED BY <1>4, <1>6, <1>7, AskedStep, Zenon

\* Every step.
LEMMA FollowsNext ==
  ASSUME IInv, Follows(client, server, other, served), [Next]_vars
  PROVE  Follows(client', server', other', served')
<1>1. CASE \E r \in plan.calls[calls + 1] : Call(r)
  BY <1>1, CallFollows, Zenon
<1>2. CASE Send
  BY <1>2, SendFollows
<1>3. CASE ClientRecv
  BY <1>3, RecvFollows
<1>4. CASE ClientTimeout \/ Return
  BY <1>4, EndFollows
<1>5. CASE ServerStep \/ OtherAnswers
  BY <1>5, ServersFollow
<1>6. CASE UNCHANGED vars
  <2>1. client' = client /\ server' = server /\ other' = other /\ served' = served
    BY <1>6 DEF vars
  <2> QED BY <2>1, Zenon
<1> QED BY <1>1, <1>2, <1>3, <1>4, <1>5, <1>6, Zenon DEF Next, ClientStep, Terminating

\* The first half of EndToEnd for the functions of the client that are not raw.
\* A result without error, or an exception, that such a function returns after a
\* flush on a quiet bus is the server's: its last answer, given to the request
\* just sent and received as it was sent, whatever the line did.
AnswersRequest ==
  Done({"NONE", "EXCEPTION"}) /\ ToServer /\ client.fresh /\ ~client.r.raw =>
    served = [request |-> Body(RequestFrame(client.r, client.object)), frame |-> client.buf]

\* Every result of such a call is the server's answer to its request, for any
\* calls, callbacks and objects and any number of faults of the line.
THEOREM ResultsAreAnswers == Spec => []AnswersRequest
<1>1. Init => Follows(client, server, other, served)
  <2> SUFFICES ASSUME Init PROVE Follows(client, server, other, served)
    OBVIOUS
  <2>1. ~client.fresh
    BY DEF Init, Idle
  <2> QED BY <2>1, Zenon DEF Follows
<1>2. IInv /\ Follows(client, server, other, served) /\ [Next]_vars => Follows(client, server, other, served)'
  BY FollowsNext
<1>3. Follows(client, server, other, served) => AnswersRequest
  BY Zenon DEF Follows, AnswersRequest, Done, ToServer
<1> QED BY <1>1, <1>2, <1>3, Invariance, PTL DEF Spec
=============================================================================
