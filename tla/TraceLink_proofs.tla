-------------------------- MODULE TraceLink_proofs --------------------------
(***************************************************************************)
(* What TraceLink guarantees for a ring of any size, any events and any    *)
(* number of records: every variable keeps its type, nothing that is not   *)
(* lost in the ring gets lost or changed on the way to the analyzer,       *)
(* whatever was lost before, the latest record of a run is understood, and *)
(* where numbered records are missing a gap is reported.                   *)
(*                                                                         *)
(* Transparency and Resynchronization are about records of at most 255     *)
(* bytes: tzparser_exec() counts the bytes of a frame in a single byte.    *)
(***************************************************************************)
EXTENDS TraceLink, TLAPS, SequenceTheorems, FiniteSetTheorems, WellFoundedInduction

(* Induction over the natural numbers, for a set.                          *)
LEMMA NatSet ==
  ASSUME NEW S, 0 \in S, \A n \in Nat : n \in S => n + 1 \in S
  PROVE  \A n \in Nat : n \in S
<1> DEFINE R == OpToRel(<, Nat)
           T == Nat \ S
<1>1. IsWellFoundedOn(R, Nat)
  BY NatLessThanWellFounded
<1>2. \A n \in Nat : n + 1 \in Nat /\ <<n, n + 1>> \in R
  BY DEF OpToRel
<1> HIDE DEF R
<1> SUFFICES ASSUME T # {} PROVE FALSE
  OBVIOUS
<1>3. PICK x \in T : \A y \in T : ~(<<y, x>> \in R)
  BY <1>1, WFMin
<1>4. x # 0 /\ x - 1 \in Nat /\ x = (x - 1) + 1
  BY <1>3
<1>5. x - 1 \in T
  BY <1>4, <1>3
<1> QED BY <1>2, <1>3, <1>4, <1>5

(* A function may be defined by recursion over the natural numbers.        *)
Iterates(g, S, base, h) ==
  g \in [Nat -> S] /\ g[0] = base /\ \A i \in Nat : g[i + 1] = h[i + 1][g[i]]

LEMMA NatRecursion ==
  ASSUME NEW S, NEW base \in S, NEW h \in [Nat -> [S -> S]]
  PROVE  \E g : Iterates(g, S, base, h)
<1> DEFINE Good(n, f) == /\ f \in [0 .. n -> S] /\ f[0] = base
                         /\ \A i \in 0 .. n - 1 : f[i + 1] = h[i + 1][f[i]]
           D == {n \in Nat : \E u : Good(n, u)}
           U == {n \in Nat : \A m \in Nat : \A f, g : 
                        n <= m /\ Good(n, f) /\ Good(m, g) => f[n] = g[n]}
<1>1. \A n \in Nat : n \in D
  <2>1. 0 \in D
    <3>1. Good(0, [i \in 0 .. 0 |-> base])
      OBVIOUS
    <3> QED BY <3>1
  <2>2. ASSUME NEW n \in Nat, n \in D PROVE n + 1 \in D
    <3>1. PICK f : Good(n, f)
      BY <2>2
    <3> HIDE DEF D, U
    <3>2. h[n + 1][f[n]] \in S
      BY <3>1
    <3> DEFINE e == [i \in 0 .. n + 1 |-> IF i <= n THEN f[i] ELSE h[n + 1][f[n]]]
    <3>3. e \in [0 .. n + 1 -> S] /\ e[0] = base
      BY <3>1, <3>2
    <3>4. \A i \in 0 .. n : e[i + 1] = h[i + 1][e[i]]
      BY <3>1
    <3> HIDE DEF e
    <3>5. Good(n + 1, e)
      BY <3>3, <3>4
    <3> HIDE DEF Good
    <3>6. \E u : Good(n + 1, u)
      BY <3>5, Zenon
    <3> QED BY <3>6 DEF D
  <2> HIDE DEF D
  <2> QED BY <2>1, <2>2, NatSet
<1>2. \A n \in Nat : n \in U
  <2>1. 0 \in U
    OBVIOUS
  <2>2. ASSUME NEW n \in Nat, n \in U PROVE n + 1 \in U
    <3>1. ASSUME NEW m \in Nat, NEW f, NEW g,
                 n + 1 <= m, Good(n + 1, f), Good(m, g)
          PROVE  f[n + 1] = g[n + 1]
      <4> DEFINE e == [i \in 0 .. n |-> f[i]]
      <4>1. Good(n, e)
        BY <3>1
      <4>2. n <= m /\ Good(m, g)
        BY <3>1
      <4>3. e[n] = f[n]
        OBVIOUS
      <4> HIDE DEF e
      <4>4. e[n] = g[n]
        <5> HIDE DEF Good
        <5> QED BY <4>1, <4>2, <2>2
      <4>5. n \in 0 .. n + 1 - 1 /\ n \in 0 .. m - 1
        BY <3>1
      <4>6. f[n + 1] = h[n + 1][f[n]] /\ g[n + 1] = h[n + 1][g[n]]
        BY <3>1, <4>5
      <4> QED BY <4>3, <4>4, <4>6
    <3> HIDE DEF Good
    <3> QED BY <3>1
  <2> HIDE DEF U
  <2> QED BY <2>1, <2>2, NatSet
<1> DEFINE F(n) == CHOOSE f : Good(n, f)
           g == [n \in Nat |-> F(n)[n]]
<1>3. \A n \in Nat : Good(n, F(n))
  BY <1>1
<1> HIDE DEF F, U, D
<1>4. g \in [Nat -> S] /\ g[0] = base
  BY <1>3
<1>5. ASSUME NEW i \in Nat PROVE g[i + 1] = h[i + 1][g[i]]
  <2>1. i \in U /\ Good(i, F(i)) /\ Good(i + 1, F(i + 1)) /\ i <= i + 1 /\ i + 1 \in Nat
    BY <1>2, <1>3
  <2>2. F(i + 1)[i] = F(i)[i]
    <3> HIDE DEF Good
    <3> QED BY <2>1 DEF U
  <2> QED BY <2>1, <2>2
<1> HIDE DEF g
<1> QED BY <1>4, <1>5 DEF Iterates
-----------------------------------------------------------------------------
(* The checksum and the framing.                                           *)

(* A remainder modulo 256 is a byte.                                       *)
LEMMA ModOctet == \A x \in Int : x % 256 \in Octet
BY DEF Octet

(* The sum of two bytes is a number.                                       *)
LEMMA OctetInt == \A x, y \in Octet : x + y \in Int
BY DEF Octet

(* What Closed() appends makes the sum zero.                               *)
LEMMA Complement ==
  ASSUME NEW a \in Octet, NEW c, c = (256 - a) % 256
  PROVE  c \in Octet /\ (a + c) % 256 = 0
<1> USE DEF Octet
<1>1. CASE a = 0
  BY <1>1
<1>2. CASE a # 0
  BY <1>2
<1> QED BY <1>1, <1>2

(* g[i] is the sum of the first i bytes of s.                              *)
PartialSums(g, s) == /\ g \in [Nat -> Octet] /\ g[0] = 0
                     /\ \A i \in 1 .. Len(s) : g[i] = (g[i - 1] + s[i]) % 256

(* SumOf does what it is meant to.                                         *)
LEMMA SumIsSum ==
  ASSUME NEW s \in Seq(Octet)
  PROVE  \E g : PartialSums(g, s) /\ SumOf(s) = g[Len(s)]
<1> DEFINE step(i, x) == IF i \in 1 .. Len(s) THEN (x + s[i]) % 256 ELSE 0
           h == [i \in Nat |-> [x \in Octet |-> step(i, x)]]
           body(q) == [i \in 0 .. Len(s) |-> IF i = 0 THEN 0 ELSE (q[i - 1] + s[i]) % 256]
           sum == CHOOSE q : q = body(q)
<1> HIDE DEF sum, body, h, step
<1>1. Len(s) \in Nat /\ \A i \in 1 .. Len(s) : s[i] \in Octet
  BY LenProperties, ElementOfSeq
<1>2. h \in [Nat -> [Octet -> Octet]]
  <2>1. ASSUME NEW i \in Nat, NEW x \in Octet PROVE step(i, x) \in Octet
    <3>1. CASE i \in 1 .. Len(s)
      <4>1. s[i] \in Octet
        BY <1>1, <3>1
      <4>2. x + s[i] \in Int
        BY <4>1, OctetInt
      <4> QED BY <3>1, <4>2, ModOctet DEF step
    <3>2. CASE i \notin 1 .. Len(s)
      BY <3>2 DEF step, Octet
    <3> QED BY <3>1, <3>2
  <2> QED BY <2>1 DEF h
<1>3. PICK g : Iterates(g, Octet, 0, h)
  <2>1. 0 \in Octet
    BY DEF Octet
  <2> QED BY <2>1, <1>2, NatRecursion, Zenon
<1>4. PartialSums(g, s)
  <2>1. ASSUME NEW i \in 1 .. Len(s) PROVE g[i] = (g[i - 1] + s[i]) % 256
    <3>1. i - 1 \in Nat /\ i = (i - 1) + 1 /\ i \in Nat
      BY <1>1
    <3>2. g[i] = h[i][g[i - 1]] /\ g[i - 1] \in Octet
      BY <1>3, <3>1 DEF Iterates
    <3> QED BY <3>1, <3>2 DEF h, step
  <2> QED BY <1>3, <2>1 DEF PartialSums, Iterates
<1>5. sum = body(sum)
  <2> DEFINE q == [i \in 0 .. Len(s) |-> g[i]]
             e(i) == IF i = 0 THEN 0 ELSE (q[i - 1] + s[i]) % 256
  <2>1. ASSUME NEW i \in 0 .. Len(s) PROVE g[i] = e(i)
    <3>1. CASE i = 0
      BY <3>1, <1>4 DEF PartialSums
    <3>2. CASE i # 0
      <4>1. i \in 1 .. Len(s) /\ i - 1 \in 0 .. Len(s)
        BY <1>1, <3>2
      <4> QED BY <3>2, <4>1, <1>4 DEF PartialSums
    <3> QED BY <3>1, <3>2
  <2> HIDE DEF e
  <2>2. q = [i \in 0 .. Len(s) |-> e(i)]
    BY <2>1
  <2>3. body(q) = [i \in 0 .. Len(s) |-> e(i)]
    BY DEF body, e
  <2> QED BY <2>2, <2>3 DEF sum
<1>6. SumOf(s) = sum[Len(s)]
  BY DEF SumOf, sum, body
<1>7. \A i \in 0 .. Len(s) : sum[i] = IF i = 0 THEN 0 ELSE (sum[i - 1] + s[i]) % 256
  BY <1>5 DEF body
<1> DEFINE S == {i \in Nat : i <= Len(s) => sum[i] = g[i]}
<1>8. \A i \in Nat : i \in S
  <2>1. 0 \in S
    BY <1>1, <1>4, <1>7 DEF PartialSums
  <2>2. ASSUME NEW i \in Nat, i \in S PROVE i + 1 \in S
    <3> SUFFICES ASSUME i + 1 <= Len(s) PROVE sum[i + 1] = g[i + 1]
      OBVIOUS
    <3>1. i + 1 \in 1 .. Len(s) /\ i + 1 \in 0 .. Len(s) /\ i + 1 - 1 = i /\ sum[i] = g[i]
      BY <1>1, <2>2
    <3> QED BY <1>4, <1>7, <3>1 DEF PartialSums
  <2> HIDE DEF S
  <2> QED BY <2>1, <2>2, NatSet
<1> QED BY <1>1, <1>4, <1>6, <1>8

(* The sum of bytes, modulo 256, is a byte.                                *)
LEMMA SumType == ASSUME NEW s \in Seq(Octet) PROVE SumOf(s) \in Octet
BY SumIsSum, LenProperties DEF PartialSums

(* One byte more.                                                          *)
LEMMA SumAppend ==
  ASSUME NEW s \in Seq(Octet), NEW x \in Octet
  PROVE  SumOf(Append(s, x)) = (SumOf(s) + x) % 256
<1> DEFINE t == Append(s, x)
<1>1. /\ t \in Seq(Octet) /\ Len(t) = Len(s) + 1 /\ Len(s) \in Nat
      /\ \A i \in 1 .. Len(s) : t[i] = s[i]
      /\ t[Len(s) + 1] = x
  BY AppendProperties, LenProperties
<1> HIDE DEF t
<1>2. PICK g : PartialSums(g, s) /\ SumOf(s) = g[Len(s)]
  BY SumIsSum
<1>3. PICK f : PartialSums(f, t) /\ SumOf(t) = f[Len(t)]
  BY SumIsSum, <1>1
<1> DEFINE S == {i \in Nat : i <= Len(s) => f[i] = g[i]}
<1>4. \A i \in Nat : i \in S
  <2>1. 0 \in S
    BY <1>2, <1>3 DEF PartialSums
  <2>2. ASSUME NEW i \in Nat, i \in S PROVE i + 1 \in S
    <3> SUFFICES ASSUME i + 1 <= Len(s) PROVE f[i + 1] = g[i + 1]
      OBVIOUS
    <3>1. /\ i + 1 \in 1 .. Len(s) /\ i + 1 \in 1 .. Len(t)
          /\ i + 1 - 1 = i /\ f[i] = g[i]
      BY <1>1, <2>2
    <3> QED BY <1>1, <1>2, <1>3, <3>1 DEF PartialSums
  <2> HIDE DEF S
  <2> QED BY <2>1, <2>2, NatSet
<1>5. f[Len(s)] = g[Len(s)] /\ Len(t) \in 1 .. Len(t) /\ Len(t) - 1 = Len(s)
  BY <1>1, <1>4
<1> QED BY <1>1, <1>2, <1>3, <1>5 DEF PartialSums, t

(* A record with its checksum passes parser_chk().                         *)
LEMMA ClosedPasses ==
  ASSUME NEW body \in Seq(Octet)
  PROVE  /\ Closed(body) \in Seq(Octet) /\ Len(Closed(body)) = Len(body) + 1
         /\ SumOf(Closed(body)) = 0
<1> DEFINE total == SumOf(body)
           c == (256 - total) % 256
<1>1. c = (256 - total) % 256 /\ total \in Octet
  BY SumType
<1> HIDE DEF c
<1>2. Closed(body) = Append(body, c)
  BY DEF Closed, c
<1> HIDE DEF total
<1>3. c \in Octet /\ (total + c) % 256 = 0
  BY <1>1, Complement
<1> QED BY <1>2, <1>3, SumAppend, AppendProperties DEF total

(* f[i] is what lies in the stream after the first i bytes of r.           *)
PartialEncodings(f, r) ==
  /\ f \in [Nat -> Seq(Octet)] /\ f[0] = <<>>
  /\ \A i \in 1 .. Len(r) : f[i] = f[i - 1] \o rkh_trc_u8(r[i])

(* Flip() is its own inverse and makes neither a flag nor an escape of     *)
(* one of them.                                                            *)
LEMMA FlipOctet ==
  /\ RKH_FLG \in Octet /\ RKH_ESC \in Octet /\ RKH_FLG # RKH_ESC
  /\ \A d \in Octet : Flip(d) \in Octet
  /\ \A d \in {RKH_FLG, RKH_ESC} : Flip(d) \notin {RKH_FLG, RKH_ESC} /\ Flip(Flip(d)) = d
BY DEF Octet, Flip, RKH_FLG, RKH_ESC

(* rkh_trc_u8() puts bytes.                                                *)
LEMMA StuffType ==
  ASSUME NEW d \in Octet
  PROVE  rkh_trc_u8(d) \in Seq(Octet) /\ rkh_trc_u8(d) # <<>>
<1>1. RKH_ESC \in Octet /\ Flip(d) \in Octet
  BY FlipOctet
<1> QED BY <1>1 DEF rkh_trc_u8

(* FlattenSeq(), which is defined by recursion, puts together one byte of  *)
(* the record after the other.                                             *)
LEMMA EncodeIsEncoding ==
  ASSUME NEW r \in Seq(Octet), r # <<>>
  PROVE  \E f : PartialEncodings(f, r) /\ Encode(r) = Append(f[Len(r)], RKH_FLG)
<1> DEFINE step(i, x) == IF i \in 1 .. Len(r) THEN x \o rkh_trc_u8(r[i]) ELSE <<>>
           h == [i \in Nat |-> [x \in Seq(Octet) |-> step(i, x)]]
           seqs == [i \in DOMAIN r |-> rkh_trc_u8(r[i])]
           body(q) == [i \in 1 .. Len(seqs) |-> IF i = 1 THEN seqs[i] ELSE q[i - 1] \o seqs[i]]
           flatten == CHOOSE q : q = body(q)
<1> HIDE DEF flatten, body, h, step, seqs
<1>1. Len(r) \in Nat \ {0} /\ DOMAIN r = 1 .. Len(r) /\ \A i \in 1 .. Len(r) : r[i] \in Octet
  BY LenProperties, ElementOfSeq, EmptySeq
<1>2. /\ Len(seqs) = Len(r)
      /\ \A i \in 1 .. Len(r) : seqs[i] = rkh_trc_u8(r[i]) /\ seqs[i] \in Seq(Octet)
  <2>1. \A i \in 1 .. Len(r) : rkh_trc_u8(r[i]) \in Seq(Octet)
    BY <1>1, StuffType
  <2> QED BY <1>1, <2>1 DEF seqs
<1>3. h \in [Nat -> [Seq(Octet) -> Seq(Octet)]]
  <2>1. ASSUME NEW i \in Nat, NEW x \in Seq(Octet) PROVE step(i, x) \in Seq(Octet)
    BY <1>1, <1>2, ConcatProperties DEF step
  <2> QED BY <2>1 DEF h
<1>4. PICK f : Iterates(f, Seq(Octet), <<>>, h)
  <2>1. <<>> \in Seq(Octet)
    OBVIOUS
  <2> QED BY <2>1, <1>3, NatRecursion, Zenon
<1>5. PartialEncodings(f, r)
  <2>1. ASSUME NEW i \in 1 .. Len(r) PROVE f[i] = f[i - 1] \o rkh_trc_u8(r[i])
    <3>1. i - 1 \in Nat /\ i = (i - 1) + 1 /\ i \in Nat
      BY <1>1
    <3>2. f[i] = h[i][f[i - 1]] /\ f[i - 1] \in Seq(Octet)
      BY <1>4, <3>1 DEF Iterates
    <3> QED BY <3>1, <3>2 DEF h, step
  <2> QED BY <1>4, <2>1 DEF PartialEncodings, Iterates
<1>6. f[1] = <<>> \o seqs[1] /\ seqs[1] \in Seq(Octet)
  <2>1. 1 \in 1 .. Len(r) /\ 1 - 1 = 0
    BY <1>1
  <2> QED BY <2>1, <1>2, <1>5 DEF PartialEncodings
<1>7. flatten = body(flatten)
  <2> DEFINE q == [i \in 1 .. Len(seqs) |-> f[i]]
             e(i) == IF i = 1 THEN seqs[i] ELSE q[i - 1] \o seqs[i]
  <2>1. ASSUME NEW i \in 1 .. Len(seqs) PROVE f[i] = e(i)
    <3>1. CASE i = 1
      <4> QED BY <3>1, <1>6, ConcatEmptySeq
    <3>2. CASE i # 1
      <4>1. i \in 1 .. Len(r) /\ i - 1 \in 1 .. Len(seqs)
        BY <1>1, <1>2, <3>2
      <4> QED BY <3>2, <4>1, <1>2, <1>5 DEF PartialEncodings
    <3> QED BY <3>1, <3>2
  <2> HIDE DEF e
  <2>2. q = [i \in 1 .. Len(seqs) |-> e(i)]
    BY <2>1
  <2>3. body(q) = [i \in 1 .. Len(seqs) |-> e(i)]
    BY DEF body, e
  <2> QED BY <2>2, <2>3 DEF flatten
<1>8. FlattenSeq(seqs) = flatten[Len(r)]
  BY <1>1, <1>2 DEF FlattenSeq, flatten, body
<1>9. \A i \in 1 .. Len(r) : flatten[i] = IF i = 1 THEN seqs[i] ELSE flatten[i - 1] \o seqs[i]
  BY <1>7, <1>2 DEF body
<1> DEFINE S == {i \in Nat : i + 1 <= Len(r) => flatten[i + 1] = f[i + 1]}
<1>10. \A i \in Nat : i \in S
  <2>1. 0 \in S
    <3>1. flatten[1] = seqs[1]
      BY <1>1, <1>9
    <3> QED BY <3>1, <1>6, ConcatEmptySeq
  <2>2. ASSUME NEW i \in Nat, i \in S PROVE i + 1 \in S
    <3> SUFFICES ASSUME (i + 1) + 1 <= Len(r) PROVE flatten[(i + 1) + 1] = f[(i + 1) + 1]
      OBVIOUS
    <3>1. /\ (i + 1) + 1 \in 1 .. Len(r) /\ (i + 1) + 1 # 1
          /\ ((i + 1) + 1) - 1 = i + 1 /\ flatten[i + 1] = f[i + 1]
      BY <1>1, <2>2
    <3> DEFINE k == (i + 1) + 1
    <3> HIDE DEF k
    <3>2. k \in 1 .. Len(r) /\ k # 1 /\ k - 1 = i + 1
      BY <3>1 DEF k
    <3>3. flatten[k] = flatten[k - 1] \o seqs[k] /\ seqs[k] = rkh_trc_u8(r[k])
      BY <1>2, <1>9, <3>2
    <3>4. f[k] = f[k - 1] \o rkh_trc_u8(r[k])
      BY <1>5, <3>2 DEF PartialEncodings
    <3> QED BY <3>1, <3>2, <3>3, <3>4, Zenon DEF k
  <2> HIDE DEF S
  <2> QED BY <2>1, <2>2, NatSet
<1>11. flatten[Len(r)] = f[Len(r)]
  <2>1. PICK n \in Nat : n + 1 = Len(r)
    <3>1. \A l \in Nat \ {0} : l - 1 \in Nat /\ (l - 1) + 1 = l
      OBVIOUS
    <3> QED BY <1>1, <3>1, Zenon
  <2>2. n \in S
    BY <1>10
  <2> QED BY <2>1, <2>2
<1>12. Encode(r) = Append(f[Len(r)], RKH_FLG)
  BY <1>8, <1>11 DEF Encode, seqs
<1> QED BY <1>5, <1>12
-----------------------------------------------------------------------------
(* The ring, seen as a queue (what TraceRing_proofs shows of it, for the   *)
(* steps that occur here).                                                 *)

RingInv == Ring!TypeOK /\ Ring!RingShape /\ Ring!BlockInArray

(* TraceRing's assumptions hold of its instance.                           *)
LEMMA RingConstants == N \in Nat \ {0} /\ Requests \subseteq Nat /\ {0, RKH_FLG} \subseteq Octet
BY LinkAssumption DEF Octet, RKH_FLG

(* What the ring holds is a sequence of bytes.                             *)
LEMMA HistorySeq ==
  Ring!TypeOK => /\ Ring!history \in Seq(Octet) /\ Len(Ring!history) = trcqty
                 /\ \A i \in 1 .. trcqty : Ring!history[i] = trcstm[Ring!Wrap(trcout + (i - 1))]
<1> SUFFICES ASSUME Ring!TypeOK
             PROVE  /\ Ring!history \in Seq(Octet) /\ Len(Ring!history) = trcqty
                    /\ \A i \in 1 .. trcqty : Ring!history[i] = trcstm[Ring!Wrap(trcout + (i - 1))]
  OBVIOUS
<1>1. \A i \in 1 .. trcqty : Ring!Cell(trcout, i - 1) \in Octet
  BY RingConstants DEF Ring!TypeOK, Ring!Cell, Ring!Wrap, Ring!Index
<1> QED BY <1>1 DEF Ring!history, Ring!TypeOK, Ring!Cell

(* A fresh stream holds a flag.                                            *)
LEMMA RingInit ==
  Ring!Init => RingInv /\ Ring!history = <<RKH_FLG>> /\ lent = <<>>
<1> SUFFICES ASSUME Ring!Init PROVE RingInv /\ Ring!history = <<RKH_FLG>> /\ lent = <<>>
  OBVIOUS
<1>1. RingInv
  BY RingConstants DEF RingInv, Ring!Init, Ring!TypeOK, Ring!RingShape, Ring!BlockInArray,
                       Ring!Index, Ring!Wrap
<1>2. Ring!history = <<RKH_FLG>>
  BY RingConstants DEF Ring!Init, Ring!history, Ring!Cell, Ring!Wrap, Ring!Index
<1> QED BY <1>1, <1>2 DEF Ring!Init

(* So does a ring opened again, whatever its cells held.                   *)
LEMMA RingFresh ==
  ASSUME NEW stm \in [Ring!Index -> Octet], Ring!Fresh(stm), blk' = 0, nbytes' = 0, lent' = <<>>
  PROVE  RingInv' /\ Ring!history' = <<RKH_FLG>>
<1>1. RingInv'
  BY RingConstants DEF RingInv, Ring!Fresh, Ring!TypeOK, Ring!RingShape, Ring!BlockInArray,
                       Ring!Index, Ring!Wrap
<1>2. Ring!history' = <<RKH_FLG>>
  BY RingConstants DEF Ring!Fresh, Ring!history, Ring!Cell, Ring!Wrap, Ring!Index
<1> QED BY <1>1, <1>2

(* A put keeps the pointers and the counter of the ring in step.           *)
LEMMA RingPutInv ==
  ASSUME RingInv, NEW b \in Octet, Ring!rkh_trc_put(b)
  PROVE  RingInv'
BY RingConstants, SMTT(30) DEF RingInv, Ring!rkh_trc_put, Ring!flusher, Ring!TypeOK, Ring!RingShape,
                               Ring!BlockInArray, Ring!Index, Ring!Wrap

(* A full ring loses its oldest byte.                                      *)
LEMMA RingPut ==
  ASSUME RingInv, NEW b \in Octet, Ring!rkh_trc_put(b)
  PROVE  /\ trcqty = N => Ring!history # <<>> /\ Ring!history' = Append(Tail(Ring!history), b)
         /\ trcqty # N => Ring!history' = Append(Ring!history, b)
         /\ UNCHANGED lent
<1> DEFINE old == Ring!history
           new == Ring!history'
<1>1. Ring!TypeOK /\ Ring!TypeOK'
  BY RingPutInv DEF RingInv
<1>2. /\ old \in Seq(Octet) /\ Len(old) = trcqty
      /\ \A i \in 1 .. trcqty : old[i] = trcstm[Ring!Wrap(trcout + (i - 1))]
  BY <1>1, HistorySeq
<1>3. /\ new \in Seq(Octet) /\ Len(new) = trcqty'
      /\ \A i \in 1 .. trcqty' : new[i] = trcstm'[Ring!Wrap(trcout' + (i - 1))]
  <2>1. (/\ Ring!history \in Seq(Octet) /\ Len(Ring!history) = trcqty
         /\ \A i \in 1 .. trcqty : Ring!history[i] = trcstm[Ring!Wrap(trcout + (i - 1))])'
    BY <1>1, HistorySeq, PTL
  <2> QED BY <2>1
<1> HIDE DEF old, new
<1>4. trcin = Ring!Wrap(trcout + trcqty) /\ trcqty \in 0 .. N /\ UNCHANGED lent
  BY DEF RingInv, Ring!RingShape, Ring!TypeOK, Ring!rkh_trc_put, Ring!flusher
<1>5. CASE trcqty = N
  <2>1. /\ Tail(old) \in Seq(Octet) /\ Len(Tail(old)) = N - 1 /\ old # <<>>
        /\ \A i \in 1 .. N - 1 : Tail(old)[i] = trcstm[Ring!Wrap(trcout + i)]
    <3>1. old # <<>>
      BY <1>2, <1>5, EmptySeq, RingConstants
    <3> QED BY <3>1, <1>2, <1>5, HeadTailProperties, RingConstants
  <2>2. trcin = trcout /\ trcout' = Ring!Wrap(trcout + 1) /\ trcqty' = N
    BY <1>1, <1>4, <1>5, RingConstants DEF Ring!rkh_trc_put, Ring!TypeOK, Ring!Wrap, Ring!Index
  <2>3. \A i \in 1 .. N - 1 : new[i] = Tail(old)[i]
    <3> SUFFICES ASSUME NEW i \in 1 .. N - 1 PROVE new[i] = Tail(old)[i]
      OBVIOUS
    <3>1. Ring!Wrap(trcout' + (i - 1)) = Ring!Wrap(trcout + i)
          /\ Ring!Wrap(trcout + i) \in Ring!Index /\ Ring!Wrap(trcout + i) # trcin
      BY <1>1, <2>2, RingConstants DEF Ring!TypeOK, Ring!Wrap, Ring!Index
    <3> QED BY <1>1, <1>3, <2>1, <2>2, <3>1 DEF Ring!rkh_trc_put, Ring!TypeOK
  <2>4. new[N] = b
    BY <1>1, <1>3, <2>2, RingConstants DEF Ring!rkh_trc_put, Ring!TypeOK, Ring!Wrap, Ring!Index
  <2>5. new = Append(Tail(old), b)
    <3>1. /\ Append(Tail(old), b) \in Seq(Octet) /\ Len(Append(Tail(old), b)) = N
          /\ \A i \in 1 .. N - 1 : Append(Tail(old), b)[i] = Tail(old)[i]
          /\ Append(Tail(old), b)[N] = b
      BY <2>1, RingConstants
    <3>2. \A i \in 1 .. N : new[i] = Append(Tail(old), b)[i]
      BY <2>3, <2>4, <3>1, RingConstants
    <3> QED BY <1>3, <2>2, <3>1, <3>2, SeqEqual
  <2> QED BY <1>4, <1>5, <2>1, <2>5 DEF old, new
<1>6. CASE trcqty # N
  <2>2. trcout' = trcout /\ trcqty' = trcqty + 1
    BY <1>1, <1>4, <1>6, RingConstants DEF Ring!rkh_trc_put, Ring!TypeOK, Ring!Wrap, Ring!Index
  <2>3. \A i \in 1 .. trcqty : new[i] = old[i]
    <3> SUFFICES ASSUME NEW i \in 1 .. trcqty PROVE new[i] = old[i]
      OBVIOUS
    <3>1. Ring!Wrap(trcout + (i - 1)) \in Ring!Index /\ Ring!Wrap(trcout + (i - 1)) # trcin
      BY <1>1, <1>4, <1>6, <2>2, RingConstants DEF Ring!TypeOK, Ring!Wrap, Ring!Index
    <3> QED BY <1>1, <1>2, <1>3, <2>2, <3>1 DEF Ring!rkh_trc_put, Ring!TypeOK
  <2>4. new[trcqty + 1] = b
    BY <1>1, <1>3, <1>4, <2>2, RingConstants
       DEF Ring!rkh_trc_put, Ring!TypeOK, Ring!Wrap, Ring!Index
  <2>5. new = Append(old, b)
    <3>1. /\ Append(old, b) \in Seq(Octet) /\ Len(Append(old, b)) = trcqty + 1
          /\ \A i \in 1 .. trcqty : Append(old, b)[i] = old[i]
          /\ Append(old, b)[trcqty + 1] = b
      BY <1>2, <1>4
    <3>2. \A i \in 1 .. trcqty + 1 : new[i] = Append(old, b)[i]
      BY <1>4, <2>3, <2>4, <3>1
    <3> QED BY <1>3, <2>2, <3>1, <3>2, SeqEqual
  <2> QED BY <1>4, <1>6, <2>5 DEF old, new
<1> QED BY <1>5, <1>6

(* A block is a piece of the front of the queue.                           *)
LEMMA RingTake ==
  ASSUME RingInv, NEW nget \in Requests, Ring!rkh_trc_get_block(nget)
  PROVE  /\ RingInv' /\ lent = <<>>
         /\ lent' \o Ring!history' = Ring!history
         /\ \A i \in 1 .. nbytes' : trcstm'[blk' + i - 1] = lent'[i]
<1> DEFINE n == Ring!BlockSize(nget)
<1>1. n \in 0 .. trcqty /\ n <= N - trcout /\ trcqty \in 0 .. N /\ trcout \in 0 .. N - 1
  BY RingConstants DEF RingInv, Ring!TypeOK, Ring!BlockSize, Ring!Least, Ring!Index,
                       Ring!rkh_trc_get_block
<1>2. nbytes = 0 /\ Ring!HandOut(n)
  BY DEF Ring!rkh_trc_get_block
<1> HIDE DEF n
<1>3. lent = <<>>
  BY <1>2, EmptySeq DEF RingInv, Ring!TypeOK
<1>4. Ring!TypeOK'
  <2>1. \A i \in 1 .. n : Ring!Cell(trcout, i - 1) \in Octet
    BY <1>1, RingConstants DEF RingInv, Ring!TypeOK, Ring!Cell, Ring!Index, Ring!Wrap
  <2>2. lent' \in Seq(Octet) /\ Len(lent') = n
    BY <1>1, <1>2, <2>1 DEF Ring!HandOut
  <2> QED BY <1>1, <1>2, <2>2, RingConstants
             DEF RingInv, Ring!TypeOK, Ring!Index, Ring!Wrap, Ring!HandOut
<1>5. RingInv'
  BY <1>1, <1>2, <1>4, RingConstants
     DEF RingInv, Ring!TypeOK, Ring!RingShape, Ring!BlockInArray, Ring!HandOut, Ring!Index,
         Ring!Wrap
<1>6. \A i \in 1 .. nbytes' : trcstm'[blk' + i - 1] = lent'[i]
  BY <1>1, <1>2, RingConstants DEF Ring!HandOut, Ring!Cell, Ring!Wrap
<1>7. /\ Ring!history \in Seq(Octet) /\ Len(Ring!history) = trcqty
      /\ \A i \in 1 .. trcqty : Ring!history[i] = trcstm[Ring!Wrap(trcout + (i - 1))]
  BY HistorySeq DEF RingInv
<1> DEFINE old == Ring!history
           new == Ring!history'
<1>8. /\ new \in Seq(Octet) /\ Len(new) = trcqty'
      /\ \A i \in 1 .. trcqty' : new[i] = trcstm'[Ring!Wrap(trcout' + (i - 1))]
  <2>1. (/\ Ring!history \in Seq(Octet) /\ Len(Ring!history) = trcqty
         /\ \A i \in 1 .. trcqty : Ring!history[i] = trcstm[Ring!Wrap(trcout + (i - 1))])'
    BY <1>4, HistorySeq, PTL
  <2> QED BY <2>1
<1> HIDE DEF old, new
<1>9. /\ lent' \in Seq(Octet) /\ Len(lent') = n
      /\ \A i \in 1 .. n : lent'[i] = trcstm[Ring!Wrap(trcout + (i - 1))]
  <2>1. lent' \in Seq(Octet) /\ Len(lent') = nbytes'
    BY <1>4 DEF Ring!TypeOK
  <2> QED BY <1>1, <1>2, <2>1 DEF Ring!HandOut, Ring!Cell
<1>10. trcqty' = trcqty - n /\ trcstm' = trcstm
       /\ \A i \in 1 .. trcqty - n : Ring!Wrap(trcout' + (i - 1)) = Ring!Wrap(trcout + (n + i - 1))
  BY <1>1, <1>2, RingConstants DEF Ring!HandOut, Ring!Wrap
<1>11. /\ lent' \o new \in Seq(Octet) /\ Len(lent' \o new) = trcqty
       /\ \A i \in 1 .. trcqty : (lent' \o new)[i] = IF i <= n THEN lent'[i] ELSE new[i - n]
  <2>1. Len(lent') + Len(new) = trcqty
    BY <1>1, <1>8, <1>9, <1>10
  <2> QED BY <2>1, <1>8, <1>9, ConcatProperties
<1>12. \A i \in 1 .. trcqty : (lent' \o new)[i] = Ring!history[i]
  <2> SUFFICES ASSUME NEW i \in 1 .. trcqty PROVE (lent' \o new)[i] = Ring!history[i]
    OBVIOUS
  <2>1. CASE i <= n
    <3>1. i \in 1 .. n
      BY <1>1, <2>1
    <3> QED BY <1>7, <1>9, <1>11, <2>1, <3>1
  <2>2. CASE ~(i <= n)
    <3>1. i - n \in 1 .. trcqty - n /\ n + (i - n) - 1 = i - 1
      BY <1>1, <2>2
    <3> QED BY <1>7, <1>8, <1>10, <1>11, <2>2, <3>1
  <2> QED BY <2>1, <2>2
<1>13. lent' \o new = Ring!history
  BY <1>7, <1>11, <1>12, SeqEqual
<1> QED BY <1>3, <1>5, <1>6, <1>13 DEF new

(* The flush loop takes the first byte of its block.                       *)
LEMMA RingFlush ==
  ASSUME RingInv, Ring!FlushByte
  PROVE  /\ RingInv' /\ lent # <<>> /\ lent' = Tail(lent) /\ UNCHANGED Ring!history
         /\ \A i \in 1 .. nbytes' : lent'[i] = lent[i + 1]
<1>1. lent # <<>> /\ lent \in Seq(Octet) /\ Len(lent) = nbytes
  BY EmptySeq DEF Ring!FlushByte, RingInv, Ring!TypeOK
<1>2. /\ lent' \in Seq(Octet) /\ Len(lent') = nbytes - 1 /\ nbytes' = nbytes - 1
      /\ \A i \in 1 .. nbytes' : lent'[i] = lent[i + 1]
  BY <1>1, HeadTailProperties DEF Ring!FlushByte
<1>3. UNCHANGED Ring!history
  BY DEF Ring!FlushByte, Ring!ring, Ring!history, Ring!Cell
<1>4. RingInv'
  BY <1>2, RingConstants DEF RingInv, Ring!FlushByte, Ring!ring, Ring!TypeOK, Ring!RingShape,
                             Ring!BlockInArray, Ring!Index, Ring!Wrap
<1> QED BY <1>1, <1>2, <1>3, <1>4 DEF Ring!FlushByte
-----------------------------------------------------------------------------
(* Type correctness.                                                       *)

(* What lies in the stream of a record is a sequence of bytes.             *)
LEMMA EncodeType ==
  ASSUME NEW r \in Seq(Octet), r # <<>>
  PROVE  Encode(r) \in Seq(Octet) /\ Encode(r) # <<>>
<1>1. PICK f : PartialEncodings(f, r) /\ Encode(r) = Append(f[Len(r)], RKH_FLG)
  BY EncodeIsEncoding
<1>2. f[Len(r)] \in Seq(Octet) /\ RKH_FLG \in Octet
  BY <1>1, FlipOctet, LenProperties DEF PartialEncodings
<1> QED BY <1>1, <1>2, AppendProperties

Number(event) == IF Numbered(event.eid) THEN <<nseq>> ELSE <<>>

(* The record made of an event.                                            *)
Made(event) == Closed(<<event.eid>> \o Number(event) \o event.args)

(* The record made of an event has at most three bytes more than the       *)
(* event has arguments, and its sum is zero.                               *)
LEMMA RecordMade ==
  ASSUME nseq \in Octet, NEW event \in Events
  PROVE  /\ Made(event) \in Seq(Octet) /\ Made(event) # <<>>
         /\ Len(Made(event)) \in 1 .. Len(event.args) + 3
         /\ SumOf(Made(event)) = 0
         /\ Len(Number(event)) \in 0 .. 1
<1>1. event.eid \in Octet /\ event.args \in Seq(Octet)
  BY LinkAssumption
<1>2. /\ <<event.eid>> \in Seq(Octet) /\ Len(<<event.eid>>) = 1
      /\ Number(event) \in Seq(Octet) /\ Len(Number(event)) \in 0 .. 1
  BY <1>1 DEF Number
<1> DEFINE body == <<event.eid>> \o Number(event) \o event.args
<1>3. /\ body \in Seq(Octet) /\ Len(body) = 1 + Len(Number(event)) + Len(event.args)
      /\ Len(event.args) \in Nat
  BY <1>1, <1>2, ConcatProperties, LenProperties
<1> HIDE DEF body
<1>4. /\ Closed(body) \in Seq(Octet) /\ Len(Closed(body)) = Len(body) + 1
      /\ SumOf(Closed(body)) = 0
  BY <1>3, ClosedPasses
<1>5. Made(event) = Closed(body)
  BY DEF Made, body
<1>6. Len(Closed(body)) \in 1 .. Len(event.args) + 3
  <2>1. \A k \in 0 .. 1, a \in Nat : 1 + k + a + 1 \in 1 .. a + 3
    OBVIOUS
  <2> QED BY <1>2, <1>3, <1>4, <2>1
<1>7. Closed(body) # <<>>
  BY <1>4, <1>6, EmptySeq
<1> QED BY <1>2, <1>4, <1>5, <1>6, <1>7

ParserOK ==
  /\ state \in {"WFLAG", "COLLECT", "ESCAPING"} /\ lastnseq \in Octet
  /\ tr \in Seq(Octet) /\ ptr \in 0 .. Len(tr) /\ trix = ptr % 256
  /\ accepted \in Seq(Seq(Octet)) /\ gaps \subseteq DOMAIN accepted /\ errors \in Nat

(* A byte collected is stored behind those there are.                      *)
LEMMA CollectOK ==
  ASSUME ParserOK, NEW d \in Octet, parser_collect(d)
  PROVE  /\ tr' \in Seq(Octet) /\ ptr' \in 0 .. Len(tr') /\ trix' = ptr' % 256
         /\ ptr' = ptr + 1 /\ tr'[ptr + 1] = d
         /\ \A i \in 1 .. ptr : tr'[i] = tr[i]
<1>1. Len(tr) \in Nat /\ ptr \in 0 .. Len(tr)
  BY LenProperties DEF ParserOK
<1>2. ptr' = ptr + 1 /\ trix' = ptr' % 256
  <2>1. \A p \in Nat : ((p % 256) + 1) % 256 = (p + 1) % 256
    OBVIOUS
  <2> QED BY <1>1, <2>1 DEF ParserOK, parser_collect
<1>3. CASE ptr < Len(tr)
  <2>1. tr' = [tr EXCEPT ![ptr + 1] = d] /\ ptr + 1 \in 1 .. Len(tr)
    BY <1>1, <1>3 DEF parser_collect
  <2>2. /\ tr' \in Seq(Octet) /\ Len(tr') = Len(tr)
        /\ \A j \in 1 .. Len(tr) : tr'[j] = IF j = ptr + 1 THEN d ELSE tr[j]
    BY <2>1, ExceptSeq DEF ParserOK
  <2> QED BY <1>1, <1>2, <1>3, <2>2
<1>4. CASE ~(ptr < Len(tr))
  <2>1. tr' = Append(tr, d) /\ ptr = Len(tr)
    BY <1>1, <1>4 DEF parser_collect
  <2>2. /\ tr' \in Seq(Octet) /\ Len(tr') = Len(tr) + 1
        /\ \A j \in 1 .. Len(tr) : tr'[j] = tr[j]
        /\ tr'[Len(tr) + 1] = d
    BY <2>1, AppendProperties DEF ParserOK
  <2> QED BY <1>1, <1>2, <2>1, <2>2
<1> QED BY <1>3, <1>4

(* The frame is a front of the buffer.                                     *)
LEMMA FrameOK ==
  ASSUME ParserOK
  PROVE  /\ Frame \in Seq(Octet) /\ trix \in 0 .. 255 /\ trix <= ptr /\ Len(Frame) = trix
         /\ \A i \in 1 .. trix : Frame[i] = tr[i]
<1>1. Len(tr) \in Nat /\ ptr \in 0 .. Len(tr) /\ trix = ptr % 256
  BY LenProperties DEF ParserOK
<1>2. trix \in 0 .. 255 /\ trix <= ptr
  <2>1. \A p \in Nat : p % 256 \in 0 .. 255 /\ p % 256 <= p
    OBVIOUS
  <2> QED BY <1>1, <2>1
<1>3. \A i \in 1 .. trix : tr[i] \in Octet
  BY <1>1, <1>2, ElementOfSeq DEF ParserOK
<1> QED BY <1>2, <1>3, SubSeqProperties DEF Frame

(* A frame that ends leaves variables of their types.                      *)
LEMMA CloseOK ==
  ASSUME ParserOK, CloseFrame
  PROVE  /\ lastnseq' \in Octet /\ accepted' \in Seq(Seq(Octet))
         /\ gaps' \subseteq DOMAIN accepted' /\ errors' \in Nat
<1>1. CASE UNCHANGED analyzer
  BY <1>1 DEF ParserOK, analyzer
<1>2. CASE errors' = errors + 1 /\ UNCHANGED <<lastnseq, accepted, gaps>>
  BY <1>2 DEF ParserOK
<1>3. CASE Analyze
  <2>1. /\ accepted' \in Seq(Seq(Octet)) /\ DOMAIN accepted \subseteq DOMAIN accepted'
        /\ Len(accepted) + 1 \in DOMAIN accepted'
    <3>1. accepted' = Append(accepted, Frame) /\ Frame \in Seq(Octet)
      BY <1>3, FrameOK DEF Analyze
    <3>2. /\ accepted' \in Seq(Seq(Octet)) /\ Len(accepted') = Len(accepted) + 1
          /\ accepted \in Seq(Seq(Octet))
      BY <3>1, AppendProperties DEF ParserOK
    <3> QED BY <3>2, LenProperties
  <2>2. get_nseq \in Octet
    <3>1. 0 \in Octet /\ Len(tr) \in Nat
      BY LenProperties DEF Octet, ParserOK
    <3>2. Len(tr) >= 2 => tr[2] \in Octet
      BY <3>1, ElementOfSeq DEF ParserOK
    <3> QED BY <3>1, <3>2 DEF get_nseq
  <2> QED BY <1>3, <2>1, <2>2 DEF Analyze, verify_nseq, ParserOK
<1> QED BY <1>1, <1>2, <1>3 DEF CloseFrame

(* A byte leaves the parser with variables of their types.                 *)
LEMMA ParserStep ==
  ASSUME ParserOK, NEW d \in Octet, tzparser_exec(d)
  PROVE  ParserOK'
<1>0. 0 \in 0 .. Len(tr) /\ 0 % 256 = 0
  BY LenProperties DEF ParserOK
<1>1. CASE Waiting(d)
  BY <1>0, <1>1 DEF Waiting, ParserOK, parser_init, analyzer
<1>2. CASE Escaping(d)
  <2>1. CASE d = RKH_FLG
    BY <1>0, <1>2, <2>1 DEF Escaping, ParserOK, parser_init, analyzer
  <2>2. CASE d # RKH_FLG
    <3>1. Flip(d) \in Octet /\ parser_collect(Flip(d))
      BY <1>2, <2>2, FlipOctet DEF Escaping
    <3> QED BY <1>2, <3>1, CollectOK DEF Escaping, ParserOK, analyzer
  <2> QED BY <2>1, <2>2
<1>3. CASE Collecting(d)
  <2>1. CASE CloseFrame /\ parser_init /\ UNCHANGED <<state, tr>>
    BY <1>0, <2>1, CloseOK DEF ParserOK, parser_init
  <2>2. CASE state' = "ESCAPING" /\ UNCHANGED <<tr, ptr, trix, analyzer>>
    BY <2>2 DEF ParserOK, analyzer
  <2>3. CASE parser_collect(d) /\ UNCHANGED <<state, analyzer>>
    BY <2>3, CollectOK DEF ParserOK, analyzer
  <2> QED BY <1>3, <2>1, <2>2, <2>3 DEF Collecting
<1> QED BY <1>1, <1>2, <1>3 DEF tzparser_exec

RecorderOK ==
  /\ nseq \in Octet /\ pending \in Seq(Octet) /\ sent \in Seq(Seq(Octet))
  /\ starts \subseteq 0 .. Len(sent) /\ dropped \in BOOLEAN /\ lapped \in BOOLEAN

(* The byte the flush loop delivers is one of the ring.                    *)
LEMMA DeliveredByte ==
  ASSUME RingInv, Ring!FlushByte
  PROVE  trcstm[blk] \in Octet
BY RingConstants DEF RingInv, Ring!FlushByte, Ring!TypeOK, Ring!BlockInArray, Ring!Index

(* The type invariant needs to know that a block never runs past the end   *)
(* of the array.                                                           *)
TInv == RingInv /\ RecorderOK /\ ParserOK

(* The type invariant holds at first ...                                   *)
LEMMA InitTInv == Init => TInv
<1> SUFFICES ASSUME Init PROVE TInv
  OBVIOUS
<1>1. RingInv
  BY RingInit DEF Init
<1>2. /\ {0} \subseteq 0 .. Len(<<>>) /\ <<>> \in Seq(Octet) /\ <<>> \in Seq(Seq(Octet))
      /\ {0, 255} \subseteq Octet
  BY EmptySeq DEF Octet
<1>3. RecorderOK
  BY <1>2 DEF Init, RecorderOK
<1>4. ParserOK
  BY <1>2 DEF Init, ParserOK
<1> QED BY <1>1, <1>3, <1>4 DEF TInv

(* ... and after every step: RKH_TRC_BEGIN .. RKH_TRC_END, ...             *)
LEMMA RecordTInv ==
  ASSUME TInv, NEW event \in Events, Record(event)
  PROVE  TInv'
<1>1. /\ pending' = Encode(Made(event)) /\ sent' = Append(sent, Made(event))
      /\ nseq' = (nseq + Len(Number(event))) % 256
      /\ UNCHANGED <<ringvars, parser, analyzer, starts, dropped, lapped>>
  BY DEF Record, Made, Number
<1>2. Made(event) \in Seq(Octet) /\ Made(event) # <<>> /\ Len(Number(event)) \in 0 .. 1
  BY RecordMade DEF TInv, RecorderOK
<1>3. nseq' \in Octet
  <2>1. nseq + Len(Number(event)) \in Int
    BY <1>2 DEF TInv, RecorderOK, Octet
  <2> QED BY <1>1, <2>1, ModOctet
<1>4. pending' \in Seq(Octet)
  BY <1>1, <1>2, EncodeType
<1>5. sent' \in Seq(Seq(Octet)) /\ Len(sent') = Len(sent) + 1 /\ Len(sent) \in Nat
  BY <1>1, <1>2, AppendProperties, LenProperties DEF TInv, RecorderOK
<1>6. RecorderOK'
  BY <1>1, <1>3, <1>4, <1>5 DEF TInv, RecorderOK
<1>7. RingInv' /\ ParserOK'
  BY <1>1 DEF TInv, RingInv, Ring!TypeOK, Ring!RingShape, Ring!BlockInArray, ringvars,
              ParserOK, parser, analyzer
<1> QED BY <1>6, <1>7 DEF TInv

(* ... rkh_trc_put(), ...                                                  *)
LEMMA PutTInv == TInv /\ Put => TInv'
<1> SUFFICES ASSUME TInv, Put PROVE TInv'
  OBVIOUS
<1>1. Head(pending) \in Octet /\ Tail(pending) \in Seq(Octet)
  BY HeadTailProperties DEF TInv, RecorderOK, Put
<1>2. RingInv'
  BY <1>1, RingPutInv DEF TInv, Put
<1>3. RecorderOK' /\ ParserOK'
  BY <1>1 DEF TInv, RecorderOK, ParserOK, Put, parser, analyzer
<1> QED BY <1>2, <1>3 DEF TInv

(* ... rkh_trc_get_block(), ...                                            *)
LEMMA TakeBlockTInv == TInv /\ TakeBlock => TInv'
<1> SUFFICES ASSUME TInv, TakeBlock PROVE TInv'
  OBVIOUS
<1>1. RingInv'
  BY RingTake DEF TInv, TakeBlock
<1>2. RecorderOK' /\ ParserOK'
  BY DEF TInv, RecorderOK, ParserOK, TakeBlock, parser, analyzer, recorder,
         Ring!rkh_trc_get_block
<1> QED BY <1>1, <1>2 DEF TInv

(* ... a byte read and parsed, ...                                         *)
LEMMA DeliverTInv == TInv /\ Deliver => TInv'
<1> SUFFICES ASSUME TInv, Deliver PROVE TInv'
  OBVIOUS
<1>1. RingInv' /\ trcstm[blk] \in Octet
  BY RingFlush, DeliveredByte DEF TInv, Deliver
<1>2. ParserOK'
  BY <1>1, ParserStep DEF TInv, Deliver
<1>3. RecorderOK'
  BY DEF TInv, RecorderOK, Deliver, recorder
<1> QED BY <1>1, <1>2, <1>3 DEF TInv

(* ... a start of the target ...                                           *)
LEMMA RestartTInv == TInv /\ Restart => TInv'
<1> SUFFICES ASSUME TInv, Restart PROVE TInv'
  OBVIOUS
<1>1. [i \in Ring!Index |-> 0] \in [Ring!Index -> Octet]
  BY RingConstants
<1>2. RingInv'
  BY <1>1, RingFresh DEF Restart
<1>3. ParserOK'
  BY DEF TInv, ParserOK, Restart, parser, analyzer
<1>4. Len(sent) \in 0 .. Len(sent) /\ 0 \in Octet /\ <<>> \in Seq(Octet)
  BY LenProperties DEF TInv, RecorderOK, Octet
<1>5. RecorderOK'
  BY <1>4 DEF TInv, RecorderOK, Restart
<1> QED BY <1>2, <1>3, <1>5 DEF TInv

(* ... and a step of something else.                                       *)
LEMMA StutterTInv == TInv /\ UNCHANGED vars => TInv'
BY DEF TInv, RingInv, Ring!TypeOK, Ring!RingShape, Ring!BlockInArray, RecorderOK, ParserOK,
       vars, ringvars, recorder, analyzer, parser

(* A function on the first numbers is a sequence.                          *)
LEMMA FunctionIsSeq ==
  ASSUME NEW n \in Nat, NEW S, NEW f \in [1 .. n -> S]
  PROVE  f \in Seq(S) /\ Len(f) = n
<1>1. \A i \in 1 .. n : f[i] \in S
  OBVIOUS
<1>2. [i \in 1 .. n |-> f[i]] \in Seq(S) /\ Len([i \in 1 .. n |-> f[i]]) = n
  BY <1>1
<1>3. f = [i \in 1 .. n |-> f[i]]
  OBVIOUS
<1> QED BY <1>2, <1>3

(* What is noted of the records the bytes are of.                          *)
GhostsOK ==
  /\ maker \in [Ring!Index -> 0 .. Len(sent)] /\ parts \subseteq 0 .. Len(sent)
  /\ origins \in [DOMAIN accepted -> SUBSET (0 .. Len(sent))]

(* A frame is accepted after the others.                                   *)
LEMMA AcceptsOne ==
  ASSUME ParserOK, NEW d \in Octet, tzparser_exec(d)
  PROVE  \/ accepted' = accepted /\ gaps' = gaps /\ lastnseq' = lastnseq
         \/ /\ Analyze /\ trix > 0 /\ d = RKH_FLG /\ state = "COLLECT"
            /\ accepted' # accepted /\ accepted' \in Seq(Seq(Octet))
            /\ Len(accepted') = Len(accepted) + 1 /\ accepted'[Len(accepted) + 1] = Frame
            /\ \A i \in 1 .. Len(accepted) : accepted'[i] = accepted[i]
            /\ DOMAIN accepted' = DOMAIN accepted \cup {Len(accepted) + 1}
            /\ Len(accepted) + 1 \notin DOMAIN accepted
<1>1. CASE Analyze /\ trix > 0 /\ d = RKH_FLG /\ state = "COLLECT"
  <2>1. accepted' = Append(accepted, Frame) /\ Frame \in Seq(Octet) /\ accepted \in Seq(Seq(Octet))
    BY <1>1, FrameOK DEF Analyze, ParserOK
  <2>2. /\ accepted' \in Seq(Seq(Octet)) /\ Len(accepted') = Len(accepted) + 1
        /\ accepted'[Len(accepted) + 1] = Frame /\ Len(accepted) \in Nat
        /\ \A i \in 1 .. Len(accepted) : accepted'[i] = accepted[i]
    BY <2>1, AppendProperties, LenProperties
  <2>3. DOMAIN accepted = 1 .. Len(accepted) /\ DOMAIN accepted' = 1 .. Len(accepted) + 1
    BY <2>1, <2>2, LenProperties
  <2>4. accepted' # accepted
    BY <2>2
  <2> QED BY <1>1, <2>2, <2>3, <2>4
<1>2. CASE UNCHANGED <<lastnseq, accepted, gaps>>
  BY <1>2
<1> QED BY <1>1, <1>2
        DEF tzparser_exec, Waiting, Escaping, Collecting, CloseFrame, analyzer

(* They are records made.                                                  *)
LEMMA DeliverGhosts ==
  ASSUME TInv, GhostsOK, Deliver
  PROVE  GhostsOK' /\ maker[blk] \in 0 .. Len(sent)
<1> DEFINE seen == parts \cup {maker[blk]}
           l == Len(sent)
<1>1. blk \in Ring!Index /\ trcstm[blk] \in Octet
  BY RingConstants, DeliveredByte
     DEF TInv, RingInv, Deliver, Ring!FlushByte, Ring!TypeOK, Ring!BlockInArray, Ring!Index
<1>2. seen \in SUBSET (0 .. l) /\ maker[blk] \in 0 .. l
  BY <1>1 DEF GhostsOK
<1>3. /\ parts' = (IF trcstm[blk] = RKH_FLG THEN {} ELSE seen) /\ maker' = maker /\ sent' = sent
      /\ origins' = (IF accepted' = accepted THEN origins ELSE Append(origins, seen))
  BY DEF Deliver, Trace, recorder
<1> HIDE DEF seen, l
<1>4. origins' \in [DOMAIN accepted' -> SUBSET (0 .. l)]
  <2>1. CASE accepted' = accepted
    BY <1>3, <2>1 DEF GhostsOK, l
  <2>2. CASE accepted' # accepted
    <3>1. /\ Len(accepted') = Len(accepted) + 1 /\ accepted' \in Seq(Seq(Octet))
          /\ accepted \in Seq(Seq(Octet)) /\ Len(accepted) \in Nat
      BY <1>1, <2>2, AcceptsOne, LenProperties DEF Deliver, TInv, ParserOK
    <3>2. DOMAIN accepted = 1 .. Len(accepted) /\ DOMAIN accepted' = 1 .. Len(accepted) + 1
      BY <3>1, LenProperties
    <3>3. origins \in Seq(SUBSET (0 .. l)) /\ Len(origins) = Len(accepted)
      <4>1. origins \in [1 .. Len(accepted) -> SUBSET (0 .. l)]
        BY <3>2 DEF GhostsOK, l
      <4> QED BY <3>1, <4>1, FunctionIsSeq
    <3>4. origins' \in Seq(SUBSET (0 .. l)) /\ Len(origins') = Len(accepted) + 1
      BY <1>2, <1>3, <2>2, <3>3, AppendProperties
    <3> QED BY <3>2, <3>4, LenProperties
  <2> QED BY <2>1, <2>2
<1>5. parts' \subseteq 0 .. l
  BY <1>2, <1>3
<1> QED BY <1>2, <1>3, <1>4, <1>5 DEF GhostsOK, l

(* So it is after every step, ...                                          *)
LEMMA GhostsStep ==
  ASSUME TInv, GhostsOK, [Next]_vars
  PROVE  GhostsOK'
<1> DEFINE l == Len(sent)
<1>0. l \in Nat
  BY LenProperties DEF TInv, RecorderOK
<1>1. ASSUME NEW event \in Events, Record(event) PROVE GhostsOK'
  <2>1. Len(sent') = l + 1 /\ UNCHANGED <<accepted, ghosts>>
    BY <1>1, RecordMade, AppendProperties DEF TInv, RecorderOK, Record, Made, Number, analyzer
  <2> HIDE DEF l
  <2>2. 0 .. l \subseteq 0 .. l + 1
    BY <1>0
  <2>3. /\ maker \in [Ring!Index -> 0 .. l] /\ parts \subseteq 0 .. l
        /\ origins \in [DOMAIN accepted -> SUBSET (0 .. l)]
    BY DEF GhostsOK, l
  <2>4. maker \in [Ring!Index -> 0 .. l + 1]
    BY <2>2, <2>3
  <2>5. origins \in [DOMAIN accepted -> SUBSET (0 .. l + 1)]
    BY <2>2, <2>3
  <2> QED BY <2>1, <2>2, <2>3, <2>4, <2>5 DEF GhostsOK, ghosts
<1>2. CASE Put
  <2>1. l \in 0 .. l
    BY <1>0
  <2> QED BY <1>2, <2>1 DEF Put, GhostsOK, analyzer
<1>3. CASE TakeBlock
  BY <1>3 DEF TakeBlock, GhostsOK, recorder, analyzer, ghosts
<1>4. CASE Deliver
  BY <1>4, DeliverGhosts
<1>5. CASE Restart
  <2>1. l \in 0 .. l
    BY <1>0
  <2> QED BY <1>5, <2>1 DEF Restart, GhostsOK, analyzer
<1>6. CASE UNCHANGED vars
  BY <1>6 DEF vars, GhostsOK, recorder, analyzer, ghosts
<1> QED BY <1>1, <1>2, <1>3, <1>4, <1>5, <1>6 DEF Next

(* ... and at first.                                                       *)
LEMMA InitGhosts == Init => GhostsOK
<1> SUFFICES ASSUME Init PROVE GhostsOK
  OBVIOUS
<1>1. Len(<<>>) = 0 /\ DOMAIN <<>> = {} /\ 0 \in 0 .. 0
  BY EmptySeq
<1>2. origins \in [DOMAIN accepted -> SUBSET (0 .. Len(sent))]
  BY <1>1 DEF Init
<1> QED BY <1>1, <1>2 DEF Init, GhostsOK

(* Every variable keeps its type: ptr, which wraps nowhere, stays inside   *)
(* of the buffer as far as it was filled, and trix is its last byte.       *)
THEOREM TypeCorrect == Spec => []TypeOK
<1>1. Init => TInv /\ GhostsOK
  BY InitTInv, InitGhosts
<1>2. TInv /\ GhostsOK /\ [Next]_vars => (TInv /\ GhostsOK)'
  <2>1. TInv /\ [Next]_vars => TInv'
    BY RecordTInv, PutTInv, TakeBlockTInv, DeliverTInv, RestartTInv, StutterTInv DEF Next
  <2> QED BY <2>1, GhostsStep
<1>3. TInv /\ GhostsOK => TypeOK
  BY DEF TInv, TypeOK, RingInv, RecorderOK, ParserOK, GhostsOK
<1> QED BY <1>1, <1>2, <1>3, PTL DEF Spec
-----------------------------------------------------------------------------
(* Where in the records a byte of the stream belongs.                      *)

Special(d) == d \in {RKH_FLG, RKH_ESC}

(* A spot in the stream: at byte pos of record rec, at its flag, or, with  *)
(* position 0, at the flag a stream opens with; esc at the second of the   *)
(* two bytes that stand for one.                                           *)
Spot(n, j, e) == [rec |-> n, pos |-> j, esc |-> e]

Valid(s, a) ==
  \/ a.pos = 0
  \/ /\ a.rec \in 1 .. Len(s) /\ a.pos \in 1 .. Len(s[a.rec]) + 1
     /\ a.esc => a.pos <= Len(s[a.rec]) /\ Special(s[a.rec][a.pos])

(* The byte that lies there, if the records s are in the stream, ...       *)
ByteAt(s, a) ==
  IF a.pos = 0 \/ a.pos > Len(s[a.rec]) THEN RKH_FLG
  ELSE IF ~Special(s[a.rec][a.pos]) THEN s[a.rec][a.pos]
  ELSE IF a.esc THEN Flip(s[a.rec][a.pos]) ELSE RKH_ESC

(* ... and the next spot.                                                  *)
After(s, a) ==
  IF a.pos = 0 THEN Spot(a.rec, 1, FALSE)
  ELSE IF a.pos > Len(s[a.rec]) THEN Spot(a.rec + 1, 1, FALSE)
  ELSE IF Special(s[a.rec][a.pos]) /\ ~a.esc THEN Spot(a.rec, a.pos, TRUE)
  ELSE Spot(a.rec, a.pos + 1, FALSE)

(* p[i] is the spot of the i-th of some bytes; they lead from a to b.      *)
IsPath(p, s, bytes, a, b) ==
  /\ p[1] = a /\ p[Len(bytes) + 1] = b
  /\ \A i \in 1 .. Len(bytes) :
       Valid(s, p[i]) /\ bytes[i] = ByteAt(s, p[i]) /\ p[i + 1] = After(s, p[i])

Leads(s, bytes, a, b) == \E p : IsPath(p, s, bytes, a, b)

(* No bytes lead from a spot to itself only.                               *)
LEMMA LeadsNowhere ==
  ASSUME NEW s, NEW a, NEW b
  PROVE  Leads(s, <<>>, a, b) <=> a = b
<1>1. a = b => IsPath([i \in {1} |-> a], s, <<>>, a, b)
  BY DEF IsPath
<1>2. \A p : IsPath(p, s, <<>>, a, b) => a = b
  BY DEF IsPath
<1> QED BY <1>1, <1>2 DEF Leads

(* The first of the bytes is the one at the first spot; the others lead    *)
(* on from the spot after it.                                              *)
LEMMA LeadsOn ==
  ASSUME NEW s, NEW bytes \in Seq(Octet), bytes # <<>>, NEW a, NEW b, Leads(s, bytes, a, b)
  PROVE  /\ Valid(s, a) /\ Head(bytes) = ByteAt(s, a)
         /\ Leads(s, Tail(bytes), After(s, a), b)
<1>1. PICK p : IsPath(p, s, bytes, a, b)
  BY DEF Leads
<1>2. /\ Len(bytes) \in Nat \ {0} /\ Len(Tail(bytes)) = Len(bytes) - 1 /\ Head(bytes) = bytes[1]
      /\ \A i \in 1 .. Len(Tail(bytes)) : Tail(bytes)[i] = bytes[i + 1]
  BY EmptySeq, HeadTailProperties
<1> DEFINE len == Len(bytes)
           rest == Tail(bytes)
           q == [i \in 1 .. len |-> p[i + 1]]
<1>3. len \in Nat \ {0} /\ Len(rest) = len - 1 /\ \A i \in 1 .. len - 1 : rest[i] = bytes[i + 1]
  BY <1>2
<1>4. /\ p[1] = a /\ p[len + 1] = b
      /\ \A i \in 1 .. len :
           Valid(s, p[i]) /\ bytes[i] = ByteAt(s, p[i]) /\ p[i + 1] = After(s, p[i])
  BY <1>1 DEF IsPath
<1> HIDE DEF len, rest
<1>5. /\ q[1] = After(s, a) /\ q[(len - 1) + 1] = b
      /\ \A i \in 1 .. len - 1 :
           Valid(s, q[i]) /\ rest[i] = ByteAt(s, q[i]) /\ q[i + 1] = After(s, q[i])
  BY <1>3, <1>4
<1>6. IsPath(q, s, rest, After(s, a), b)
  <2> HIDE DEF q
  <2> QED BY <1>3, <1>5 DEF IsPath
<1>7. Valid(s, a) /\ bytes[1] = ByteAt(s, a)
  BY <1>3, <1>4
<1> QED BY <1>2, <1>6, <1>7 DEF Leads, rest

(* One byte leads to the next spot.                                        *)
LEMMA LeadsStep ==
  ASSUME NEW s, NEW a, Valid(s, a)
  PROVE  Leads(s, <<ByteAt(s, a)>>, a, After(s, a))
<1> DEFINE p == [i \in {1, 2} |-> IF i = 1 THEN a ELSE After(s, a)]
           bytes == <<ByteAt(s, a)>>
<1>1. Len(bytes) = 1 /\ bytes[1] = ByteAt(s, a) /\ p[1] = a /\ p[2] = After(s, a)
  OBVIOUS
<1> HIDE DEF p, bytes
<1>2. IsPath(p, s, bytes, a, After(s, a))
  BY <1>1 DEF IsPath
<1> QED BY <1>2 DEF Leads, bytes

(* Bytes that lead from a to b and others that lead from b to c lead from  *)
(* a to c.                                                                 *)
LEMMA LeadsFurther ==
  ASSUME NEW s, NEW x \in Seq(Octet), NEW y \in Seq(Octet), NEW a, NEW b, NEW c,
         Leads(s, x, a, b), Leads(s, y, b, c)
  PROVE  Leads(s, x \o y, a, c)
<1>1. PICK p : IsPath(p, s, x, a, b)
  BY DEF Leads
<1>2. PICK q : IsPath(q, s, y, b, c)
  BY DEF Leads
<1> DEFINE k == Len(x)
           l == Len(y)
           z == x \o y
           r == [i \in 1 .. k + l + 1 |-> IF i <= k THEN p[i] ELSE q[i - k]]
<1>3. /\ k \in Nat /\ l \in Nat /\ Len(z) = k + l
      /\ \A i \in 1 .. k + l : z[i] = IF i <= k THEN x[i] ELSE y[i - k]
  BY ConcatProperties, LenProperties
<1>4. /\ p[1] = a /\ p[k + 1] = b
      /\ \A i \in 1 .. k : Valid(s, p[i]) /\ x[i] = ByteAt(s, p[i]) /\ p[i + 1] = After(s, p[i])
  BY <1>1 DEF IsPath
<1>5. /\ q[1] = b /\ q[l + 1] = c
      /\ \A i \in 1 .. l : Valid(s, q[i]) /\ y[i] = ByteAt(s, q[i]) /\ q[i + 1] = After(s, q[i])
  BY <1>2 DEF IsPath
<1> HIDE DEF k, l, z
<1>6. r[1] = a /\ r[k + l + 1] = c
  BY <1>3, <1>4, <1>5
<1>7. ASSUME NEW i \in 1 .. k + l
      PROVE  Valid(s, r[i]) /\ z[i] = ByteAt(s, r[i]) /\ r[i + 1] = After(s, r[i])
  <2>1. CASE i <= k
    <3>1. r[i] = p[i] /\ z[i] = x[i] /\ i \in 1 .. k
      BY <1>3, <2>1
    <3>2. r[i + 1] = p[i + 1]
      BY <1>3, <1>4, <1>5, <2>1
    <3> QED BY <1>4, <3>1, <3>2
  <2>2. CASE ~(i <= k)
    <3>1. r[i] = q[i - k] /\ z[i] = y[i - k] /\ i - k \in 1 .. l /\ r[i + 1] = q[(i - k) + 1]
      BY <1>3, <2>2
    <3> QED BY <1>5, <3>1
  <2> QED BY <2>1, <2>2
<1>8. IsPath(r, s, z, a, c)
  <2> HIDE DEF r
  <2> QED BY <1>3, <1>6, <1>7 DEF IsPath
<1> QED BY <1>8 DEF Leads, z

(* A record more does not move the spots there are.                        *)
LEMMA LeadsStill ==
  ASSUME NEW s \in Seq(Seq(Octet)), NEW r \in Seq(Octet), NEW bytes, NEW a, NEW b,
         Leads(s, bytes, a, b)
  PROVE  Leads(Append(s, r), bytes, a, b)
<1> DEFINE t == Append(s, r)
<1>1. Len(s) \in Nat /\ Len(t) = Len(s) + 1 /\ \A n \in 1 .. Len(s) : t[n] = s[n]
  BY AppendProperties, LenProperties
<1> HIDE DEF t
<1>2. ASSUME NEW c, Valid(s, c)
      PROVE  Valid(t, c) /\ ByteAt(t, c) = ByteAt(s, c) /\ After(t, c) = After(s, c)
  <2>1. CASE c.pos = 0
    BY <2>1 DEF Valid, ByteAt, After
  <2>2. CASE c.pos # 0
    <3>1. c.rec \in 1 .. Len(s) /\ t[c.rec] = s[c.rec] /\ c.rec \in 1 .. Len(t)
      BY <1>1, <1>2, <2>2 DEF Valid
    <3> QED BY <1>2, <2>2, <3>1 DEF Valid, ByteAt, After
  <2> QED BY <2>1, <2>2
<1>3. PICK p : IsPath(p, s, bytes, a, b)
  BY DEF Leads
<1>4. IsPath(p, t, bytes, a, b)
  BY <1>2, <1>3 DEF IsPath
<1> QED BY <1>4 DEF Leads, t

(* What rkh_trc_u8() puts leads from one byte of a record to the next, ... *)
LEMMA LeadsByte ==
  ASSUME NEW s \in Seq(Seq(Octet)), NEW n \in 1 .. Len(s), NEW j \in 1 .. Len(s[n])
  PROVE  Leads(s, rkh_trc_u8(s[n][j]), Spot(n, j, FALSE), Spot(n, j + 1, FALSE))
<1> DEFINE d == s[n][j]
           a == Spot(n, j, FALSE)
           b == Spot(n, j, TRUE)
           c == Spot(n, j + 1, FALSE)
<1>1. Len(s[n]) \in Nat /\ d \in Octet
  BY LenProperties, ElementOfSeq
<1>2. Valid(s, a)
  BY <1>1 DEF Valid, Spot
<1>3. CASE Special(d)
  <2>1. Valid(s, b) /\ ByteAt(s, a) = RKH_ESC /\ ByteAt(s, b) = Flip(d)
        /\ After(s, a) = b /\ After(s, b) = c
    BY <1>1, <1>3 DEF Valid, ByteAt, After, Spot
  <2>2. <<RKH_ESC>> \in Seq(Octet) /\ <<Flip(d)>> \in Seq(Octet)
    BY <1>1, FlipOctet
  <2>3. rkh_trc_u8(d) = <<RKH_ESC>> \o <<Flip(d)>>
    BY <1>3 DEF Special, rkh_trc_u8
  <2> HIDE DEF a, b, c, d
  <2>4. Leads(s, <<RKH_ESC>>, a, b) /\ Leads(s, <<Flip(d)>>, b, c)
    BY <1>2, <2>1, LeadsStep
  <2> QED BY <2>2, <2>3, <2>4, LeadsFurther DEF a, c, d
<1>4. CASE ~Special(d)
  <2>1. ByteAt(s, a) = d /\ After(s, a) = c /\ rkh_trc_u8(d) = <<d>>
    BY <1>1, <1>4 DEF Special, ByteAt, After, Spot, rkh_trc_u8
  <2> HIDE DEF a, c, d
  <2> QED BY <1>2, <2>1, LeadsStep DEF a, c, d
<1> QED BY <1>3, <1>4

(* ... and what lies in the stream of a record leads to the next one.      *)
LEMMA LeadsRecord ==
  ASSUME NEW s \in Seq(Seq(Octet)), NEW n \in 1 .. Len(s), s[n] # <<>>
  PROVE  Leads(s, Encode(s[n]), Spot(n, 1, FALSE), Spot(n + 1, 1, FALSE))
<1> DEFINE r == s[n]
<1>1. r \in Seq(Octet) /\ Len(r) \in Nat /\ r # <<>>
  BY ElementOfSeq, LenProperties
<1>2. PICK f : PartialEncodings(f, r) /\ Encode(r) = Append(f[Len(r)], RKH_FLG)
  BY <1>1, EncodeIsEncoding
<1> DEFINE Reached(i) == Leads(s, f[i], Spot(n, 1, FALSE), Spot(n, i + 1, FALSE))
           I == {i \in Nat : i <= Len(r) => Reached(i)}
<1>3. \A i \in Nat : i \in I
  <2>1. Reached(0)
    <3>1. f[0] = <<>> /\ Spot(n, 0 + 1, FALSE) = Spot(n, 1, FALSE)
      BY <1>2 DEF PartialEncodings, Spot
    <3>2. Leads(s, <<>>, Spot(n, 1, FALSE), Spot(n, 1, FALSE))
      <4> DEFINE a == Spot(n, 1, FALSE)
      <4> HIDE DEF a
      <4>1. Leads(s, <<>>, a, a)
        BY LeadsNowhere
      <4> QED BY <4>1 DEF a
    <3> QED BY <3>1, <3>2
  <2>2. ASSUME NEW i \in Nat, i + 1 <= Len(r), Reached(i) PROVE Reached(i + 1)
    <3>1. i + 1 \in 1 .. Len(r) /\ (i + 1) - 1 = i
      BY <1>1, <2>2
    <3>2. Leads(s, rkh_trc_u8(r[i + 1]), Spot(n, i + 1, FALSE), Spot(n, (i + 1) + 1, FALSE))
      BY <3>1, LeadsByte
    <3>3. f[i] \in Seq(Octet) /\ f[i + 1] = f[i] \o rkh_trc_u8(r[i + 1])
      BY <1>2, <3>1 DEF PartialEncodings
    <3>4. rkh_trc_u8(r[i + 1]) \in Seq(Octet)
      BY <1>1, <3>1, StuffType, ElementOfSeq
    <3> QED BY <2>2, <3>2, <3>3, <3>4, LeadsFurther
  <2> HIDE DEF Reached
  <2>3. 0 \in I
    BY <2>1
  <2>4. ASSUME NEW i \in Nat, i \in I PROVE i + 1 \in I
    BY <1>1, <2>2, <2>4
  <2> HIDE DEF I
  <2> QED BY <2>3, <2>4, NatSet
<1> DEFINE a == Spot(n, Len(r) + 1, FALSE)
<1>4. Valid(s, a) /\ ByteAt(s, a) = RKH_FLG /\ After(s, a) = Spot(n + 1, 1, FALSE)
  BY <1>1 DEF Valid, ByteAt, After, Spot
<1>5. Leads(s, <<RKH_FLG>>, a, Spot(n + 1, 1, FALSE))
  <2> HIDE DEF a
  <2> QED BY <1>4, LeadsStep
<1>6. Leads(s, f[Len(r)], Spot(n, 1, FALSE), a) /\ f[Len(r)] \in Seq(Octet)
  <2>1. Reached(Len(r))
    <3> HIDE DEF Reached
    <3> QED BY <1>1, <1>3
  <2> QED BY <1>1, <1>2, <2>1 DEF PartialEncodings
<1>7. <<RKH_FLG>> \in Seq(Octet) /\ RKH_FLG \in Octet
  BY FlipOctet
<1>8. Encode(r) = f[Len(r)] \o <<RKH_FLG>>
  BY <1>2, <1>6, <1>7, AppendIsConcat
<1> HIDE DEF a
<1>9. Leads(s, f[Len(r)] \o <<RKH_FLG>>, Spot(n, 1, FALSE), Spot(n + 1, 1, FALSE))
  BY <1>5, <1>6, <1>7, LeadsFurther
<1> QED BY <1>8, <1>9

(* So does the flag a stream opens with.                                   *)
LEMMA LeadsOpening ==
  ASSUME NEW s, NEW n
  PROVE  Leads(s, <<RKH_FLG>>, Spot(n, 0, FALSE), Spot(n, 1, FALSE))
<1> DEFINE a == Spot(n, 0, FALSE)
<1>1. Valid(s, a) /\ ByteAt(s, a) = RKH_FLG /\ After(s, a) = Spot(n, 1, FALSE)
  BY DEF Valid, ByteAt, After, Spot
<1> HIDE DEF a
<1>2. Leads(s, <<RKH_FLG>>, a, Spot(n, 1, FALSE))
  BY <1>1, LeadsStep
<1> QED BY <1>2 DEF a
-----------------------------------------------------------------------------
(* The parser, following the records.                                      *)

(* The stream, from the byte to be delivered next to the last one the      *)
(* running recorder has still to put.                                      *)
Rest == (lent \o Ring!history) \o pending

(* Where the parser is, if it collects the n-th record.                    *)
At(n) == Spot(n, ptr + 1, state = "ESCAPING")

Opening(n) == Spot(n, 0, FALSE)

End == Spot(Len(sent) + 1, 1, FALSE)

(* What it has collected is the front of the n-th record.                  *)
Collected(n) ==
  \/ ptr = 0
  \/ /\ n \in 1 .. Len(sent) /\ ptr <= Len(sent[n])
     /\ \A i \in 1 .. ptr : tr[i] = sent[n][i]

(* trix counts the bytes of a frame in a single byte.                      *)
ShortRecords == \A event \in Events : Len(event.args) <= 252

SentOK ==
  \A n \in 1 .. Len(sent) :
    sent[n] # <<>> /\ SumOf(sent[n]) = 0 /\ Len(sent[n]) <= 255

(* A flag ends every frame.                                                *)
LEMMA FlagStep ==
  ASSUME tzparser_exec(RKH_FLG)
  PROVE  state' = "COLLECT" /\ ptr' = 0
<1>1. CASE Waiting(RKH_FLG)
  BY <1>1 DEF Waiting, parser_init
<1>2. CASE Escaping(RKH_FLG)
  BY <1>2 DEF Escaping, parser_init
<1>3. CASE Collecting(RKH_FLG)
  <2>1. CloseFrame /\ parser_init /\ UNCHANGED <<state, tr>>
    BY <1>3, FlipOctet DEF Collecting
  <2> QED BY <1>3, <2>1 DEF Collecting, parser_init
<1> QED BY <1>1, <1>2, <1>3 DEF tzparser_exec

(* An empty frame is nothing.                                              *)
LEMMA EmptyFrame ==
  ASSUME ParserOK, ptr = 0, state \in {"WFLAG", "COLLECT"}, tzparser_exec(RKH_FLG)
  PROVE  UNCHANGED analyzer
<1>1. trix = 0
  BY DEF ParserOK
<1>2. CASE Waiting(RKH_FLG)
  BY <1>2 DEF Waiting
<1>3. CASE Collecting(RKH_FLG)
  <2>1. CloseFrame
    BY <1>3, FlipOctet DEF Collecting
  <2> QED BY <1>1, <2>1 DEF CloseFrame
<1>4. CASE Escaping(RKH_FLG)
  BY <1>4 DEF Escaping
<1> QED BY <1>2, <1>3, <1>4 DEF tzparser_exec

(* What lies at a spot of a record, and what comes after it.               *)
Lies(s, n, r, p, e, a) ==
  /\ Valid(s, a) => p <= Len(r) /\ (e => p < Len(r) /\ Special(r[p + 1]))
  /\ p = Len(r) => ByteAt(s, a) = RKH_FLG /\ After(s, a) = Spot(n + 1, 1, FALSE)
  /\ p < Len(r) /\ ~Special(r[p + 1]) =>
       ByteAt(s, a) = r[p + 1] /\ After(s, a) = Spot(n, p + 2, FALSE)
  /\ p < Len(r) /\ Special(r[p + 1]) /\ ~e =>
       ByteAt(s, a) = RKH_ESC /\ After(s, a) = Spot(n, p + 1, TRUE)
  /\ p < Len(r) /\ Special(r[p + 1]) /\ e =>
       ByteAt(s, a) = Flip(r[p + 1]) /\ After(s, a) = Spot(n, p + 2, FALSE)

(* Why it is this that lies there: the cases of ByteAt() and After().      *)
LEMMA SpotInRecord ==
  ASSUME NEW s, NEW n, NEW r, s[n] = r, Len(r) \in Nat, NEW p \in Nat, NEW e \in BOOLEAN,
         NEW a, a = Spot(n, p + 1, e)
  PROVE  Lies(s, n, r, p, e, a)
<1> DEFINE l == Len(r)
           k == p + 1
<1>1. a.rec = n /\ a.pos = k /\ a.esc = e /\ s[a.rec] = r
  BY DEF Spot
<1>2. /\ k # 0 /\ k + 1 = p + 2
      /\ p = l => k > l
      /\ p < l => ~(k > l)
      /\ k \in 1 .. l + 1 => p <= l
      /\ k <= l => p < l
  OBVIOUS
<1> HIDE DEF l, k
<1>3. Len(s[a.rec]) = l
  BY <1>1 DEF l
<1>4. Valid(s, a) => p <= l /\ (e => p < l /\ Special(r[k]))
  <2>1. Valid(s, a) => k \in 1 .. l + 1 /\ (e => k <= l /\ Special(r[k]))
    BY <1>1, <1>2, <1>3, Zenon DEF Valid
  <2> QED BY <2>1, <1>2
<1>5. p = l => ByteAt(s, a) = RKH_FLG /\ After(s, a) = Spot(n + 1, 1, FALSE)
  BY <1>1, <1>2, <1>3, Zenon DEF ByteAt, After
<1>6. p < l /\ ~Special(r[k]) => ByteAt(s, a) = r[k] /\ After(s, a) = Spot(n, k + 1, FALSE)
  BY <1>1, <1>2, <1>3, Zenon DEF ByteAt, After
<1>7. p < l /\ Special(r[k]) /\ ~e => ByteAt(s, a) = RKH_ESC /\ After(s, a) = Spot(n, k, TRUE)
  BY <1>1, <1>2, <1>3, Zenon DEF ByteAt, After
<1>8. p < l /\ Special(r[k]) /\ e =>
        ByteAt(s, a) = Flip(r[k]) /\ After(s, a) = Spot(n, k + 1, FALSE)
  BY <1>1, <1>2, <1>3, Zenon DEF ByteAt, After
<1>9. k + 1 = p + 2
  BY <1>2
<1> QED BY <1>4, <1>5, <1>6, <1>7, <1>8, <1>9, Zenon DEF Lies, l, k

(* In step with a record, the parser moves to the next spot or has found   *)
(* the record.                                                             *)
LEMMA InStep ==
  ASSUME RecorderOK, SentOK, ParserOK, NEW n \in 1 .. Len(sent), Collected(n),
         state # "WFLAG", Valid(sent, At(n)), tzparser_exec(ByteAt(sent, At(n))),
         UNCHANGED sent
  PROVE  /\ state' # "WFLAG"
         /\ \/ At(n)' = After(sent, At(n)) /\ Collected(n)' /\ UNCHANGED analyzer
            \/ /\ After(sent, At(n)) = Spot(n + 1, 1, FALSE)
               /\ accepted' = Append(accepted, sent[n]) /\ errors' = errors
               /\ ptr' = 0 /\ state' = "COLLECT"
<1> DEFINE r == sent[n]
           a == At(n)
           d == ByteAt(sent, a)
           b == After(sent, a)
           len == Len(r)
           e == state = "ESCAPING"
<1>1. r \in Seq(Octet) /\ len \in 1 .. 255 /\ SumOf(r) = 0
  <2>1. r \in Seq(Octet) /\ r # <<>> /\ SumOf(r) = 0 /\ len <= 255
    BY ElementOfSeq DEF RecorderOK, SentOK
  <2>2. len \in Nat \ {0}
    BY <2>1, EmptySeq
  <2>3. \A l \in Nat \ {0} : l <= 255 => l \in 1 .. 255
    OBVIOUS
  <2> HIDE DEF len, r
  <2> QED BY <2>1, <2>2, <2>3, Zenon
<1>2. ptr \in Nat /\ trix = ptr % 256 /\ state \in {"COLLECT", "ESCAPING"}
  <2>1. Len(tr) \in Nat /\ ptr \in 0 .. Len(tr) /\ trix = ptr % 256
    BY LenProperties DEF ParserOK
  <2>2. state \in {"COLLECT", "ESCAPING"}
    BY DEF ParserOK
  <2> QED BY <2>1, <2>2
<1>3. /\ ptr <= len /\ (e => ptr < len /\ Special(r[ptr + 1]))
      /\ ptr = len => d = RKH_FLG /\ b = Spot(n + 1, 1, FALSE)
      /\ ptr < len /\ ~Special(r[ptr + 1]) => d = r[ptr + 1] /\ b = Spot(n, ptr + 2, FALSE)
      /\ ptr < len /\ Special(r[ptr + 1]) /\ ~e => d = RKH_ESC /\ b = Spot(n, ptr + 1, TRUE)
      /\ ptr < len /\ Special(r[ptr + 1]) /\ e =>
           d = Flip(r[ptr + 1]) /\ b = Spot(n, ptr + 2, FALSE)
  <2>1. len \in Nat /\ e \in BOOLEAN /\ a = Spot(n, ptr + 1, e)
    <3>1. a = Spot(n, ptr + 1, e) /\ e \in BOOLEAN
      BY DEF At
    <3>2. len \in Nat
      BY LenProperties, <1>1
    <3> QED BY <3>1, <3>2
  <2>2. sent[n] = r /\ Valid(sent, a) /\ Len(r) \in Nat
    BY <2>1 DEF r, a
  <2>3. Lies(sent, n, r, ptr, e, a)
    <3> HIDE DEF e, r, a
    <3> QED BY <1>2, <2>1, <2>2, SpotInRecord, Zenon
  <2> HIDE DEF e, r, a
  <2> QED BY <2>2, <2>3, Zenon DEF Lies
<1>4. tzparser_exec(d) /\ sent' = sent
  OBVIOUS
<1>5. \A i \in 1 .. ptr : tr[i] = r[i]
  BY <1>2 DEF Collected
<1>6. CASE ptr = len
  <2>1. d = RKH_FLG /\ state = "COLLECT" /\ b = Spot(n + 1, 1, FALSE)
    <3>1. ~e
      <4>1. (e => ptr < len) /\ ptr \in Nat
        BY <1>2, <1>3
      <4> HIDE DEF e, len
      <4> QED BY <1>6, <4>1
    <3> QED BY <1>2, <1>3, <1>6, <3>1
  <2> HIDE DEF d, b, len
  <2>2. CloseFrame /\ parser_init /\ UNCHANGED <<state, tr>>
    BY <1>4, <2>1, FlipOctet DEF tzparser_exec, Waiting, Escaping, Collecting
  <2>3. trix = len /\ trix > 0 /\ trix = ptr
    <3>1. \A l \in 1 .. 255 : l % 256 = l /\ l > 0
      OBVIOUS
    <3> QED BY <1>1, <1>2, <1>6, <3>1
  <2>4. Frame = r
    <3>1. Frame \in Seq(Octet) /\ Len(Frame) = Len(r) /\ \A i \in 1 .. Len(Frame) : Frame[i] = r[i]
      BY <1>5, <2>3, FrameOK DEF len
    <3> QED BY <1>1, <3>1, SeqEqual
  <2>5. Analyze
    BY <1>1, <2>2, <2>3, <2>4 DEF CloseFrame, parser_chk
  <2>6. accepted' = Append(accepted, r) /\ errors' = errors
    BY <2>4, <2>5 DEF Analyze
  <2> QED BY <2>1, <2>2, <2>6 DEF parser_init, b
<1>7. CASE ptr < len
  <2>1. ptr + 1 \in 1 .. len /\ r[ptr + 1] \in Octet
    <3>1. ptr + 1 \in 1 .. len
      <4> HIDE DEF len
      <4> QED BY <1>1, <1>2, <1>7
    <3> QED BY <1>1, <3>1, ElementOfSeq
  <2>2. ASSUME parser_collect(r[ptr + 1])
        PROVE  ptr' = ptr + 1 /\ Collected(n)'
    <3>1. ptr' = ptr + 1 /\ tr'[ptr + 1] = r[ptr + 1] /\ \A i \in 1 .. ptr : tr'[i] = tr[i]
      BY <2>1, <2>2, CollectOK
    <3>2. \A i \in 1 .. ptr' : tr'[i] = r[i]
      <4> HIDE DEF r
      <4> QED BY <1>2, <1>5, <3>1
    <3>3. ptr' <= len
      <4> HIDE DEF len
      <4> QED BY <1>1, <1>2, <1>7, <3>1
    <3>4. /\ n \in 1 .. Len(sent') /\ ptr' <= Len(sent'[n])
          /\ \A i \in 1 .. ptr' : tr'[i] = sent'[n][i]
      BY <1>4, <3>2, <3>3
    <3> QED BY <3>1, <3>4 DEF Collected
  <2> HIDE DEF d, b, r, len
  <2>3. CASE ~Special(r[ptr + 1])
    <3>1. d = r[ptr + 1] /\ state = "COLLECT" /\ b = Spot(n, ptr + 2, FALSE)
      BY <1>2, <1>3, <1>7, <2>3
    <3>2. parser_collect(d) /\ UNCHANGED <<state, analyzer>>
      BY <1>4, <3>1, <2>3 DEF tzparser_exec, Waiting, Escaping, Collecting, Special
    <3>3. ptr' = ptr + 1 /\ Collected(n)'
      BY <2>2, <3>1, <3>2
    <3>4. At(n)' = b
      <4>1. ptr' + 1 = ptr + 2 /\ (state' = "ESCAPING") = FALSE
        BY <1>2, <3>1, <3>2, <3>3
      <4> QED BY <3>1, <4>1 DEF At
    <3> QED BY <3>1, <3>2, <3>3, <3>4 DEF b
  <2>4. CASE Special(r[ptr + 1]) /\ state = "COLLECT"
    <3>1. d = RKH_ESC /\ b = Spot(n, ptr + 1, TRUE)
      BY <1>2, <1>3, <1>7, <2>4
    <3>2. state' = "ESCAPING" /\ UNCHANGED <<tr, ptr, trix, analyzer>>
      BY <1>4, <2>4, <3>1, FlipOctet DEF tzparser_exec, Waiting, Escaping, Collecting
    <3>3. At(n)' = b
      <4>1. ptr' + 1 = ptr + 1 /\ (state' = "ESCAPING") = TRUE
        BY <3>2
      <4> QED BY <3>1, <4>1 DEF At
    <3>4. Collected(n)'
      BY <1>4, <3>2 DEF Collected
    <3> QED BY <3>2, <3>3, <3>4 DEF b
  <2>5. CASE Special(r[ptr + 1]) /\ state = "ESCAPING"
    <3>1. d = Flip(r[ptr + 1]) /\ b = Spot(n, ptr + 2, FALSE)
      BY <1>3, <1>7, <2>5
    <3>2. d # RKH_FLG /\ Flip(d) = r[ptr + 1]
      BY <2>5, <3>1, FlipOctet DEF Special
    <3>3. state' = "COLLECT" /\ parser_collect(Flip(d)) /\ UNCHANGED analyzer
      BY <1>4, <2>5, <3>2 DEF tzparser_exec, Waiting, Escaping, Collecting
    <3>4. ptr' = ptr + 1 /\ Collected(n)'
      BY <2>2, <3>2, <3>3
    <3>5. At(n)' = b
      <4>1. ptr' + 1 = ptr + 2 /\ (state' = "ESCAPING") = FALSE
        BY <1>2, <3>3, <3>4
      <4> QED BY <3>1, <4>1 DEF At
    <3> QED BY <3>3, <3>4, <3>5 DEF b
  <2> QED BY <1>2, <2>3, <2>4, <2>5
<1>8. ptr = len \/ ptr < len
  <2> HIDE DEF len, d, b, r, e
  <2> QED BY <1>1, <1>2, <1>3
<1> QED BY <1>6, <1>7, <1>8
-----------------------------------------------------------------------------
(* The rest of the stream, step by step.                                   *)

(* The rest of the stream consists of the block, the ring and what is      *)
(* still to be put, and all of them are bytes.                             *)
LEMMA StreamTypes ==
  ASSUME TInv
  PROVE  /\ lent \in Seq(Octet) /\ Ring!history \in Seq(Octet) /\ pending \in Seq(Octet)
         /\ Rest \in Seq(Octet)
         /\ Len(lent) = nbytes /\ Len(Ring!history) = trcqty
         /\ nbytes \in Nat /\ trcqty \in 0 .. N /\ Len(pending) \in Nat
         /\ Len(Rest) = nbytes + trcqty + Len(pending)
<1> DEFINE h == Ring!history
<1>1. h \in Seq(Octet) /\ Len(h) = trcqty
  BY HistorySeq DEF TInv, RingInv
<1>2. /\ lent \in Seq(Octet) /\ Len(lent) = nbytes /\ nbytes \in Nat /\ trcqty \in 0 .. N
      /\ pending \in Seq(Octet) /\ Len(pending) \in Nat
  BY RingConstants, LenProperties DEF TInv, RingInv, Ring!TypeOK, RecorderOK
<1> HIDE DEF h
<1>3. lent \o h \in Seq(Octet) /\ Len(lent \o h) = nbytes + trcqty
  BY <1>1, <1>2, ConcatProperties
<1>4. /\ (lent \o h) \o pending \in Seq(Octet)
      /\ Len((lent \o h) \o pending) = nbytes + trcqty + Len(pending)
  BY <1>2, <1>3, ConcatProperties
<1> QED BY <1>1, <1>2, <1>4 DEF Rest, h

(* Everything has been read when nothing is left of it.                    *)
LEMMA DrainedIsEmpty ==
  ASSUME TInv
  PROVE  Drained <=> Rest = <<>>
<1> DEFINE q == Len(pending)
<1>1. /\ Rest = <<>> <=> Len(Rest) = 0
      /\ pending = <<>> <=> q = 0
      /\ q \in Nat /\ nbytes \in Nat /\ trcqty \in Nat /\ Len(Rest) = nbytes + trcqty + q
  BY StreamTypes, EmptySeq, RingConstants
<1> HIDE DEF q
<1> QED BY <1>1 DEF Drained

(* A record is appended to it.                                             *)
LEMMA RecordRest ==
  ASSUME TInv, NEW event \in Events, Record(event)
  PROVE  /\ Rest' = Rest \o Encode(Made(event))
         /\ sent' = Append(sent, Made(event))
         /\ Made(event) \in Seq(Octet) /\ Made(event) # <<>>
         /\ Encode(Made(event)) \in Seq(Octet) /\ Encode(Made(event)) # <<>>
         /\ UNCHANGED <<ringvars, parser, analyzer, starts, dropped, lapped>>
<1>1. /\ pending = <<>> /\ pending' = Encode(Made(event)) /\ sent' = Append(sent, Made(event))
      /\ UNCHANGED <<ringvars, parser, analyzer, starts, dropped, lapped>>
  BY DEF Record, Made, Number
<1>2. /\ Made(event) \in Seq(Octet) /\ Made(event) # <<>>
      /\ Encode(Made(event)) \in Seq(Octet) /\ Encode(Made(event)) # <<>>
  BY RecordMade, EncodeType DEF TInv, RecorderOK
<1> DEFINE front == lent \o Ring!history
<1>3. front \in Seq(Octet)
  BY StreamTypes, ConcatProperties
<1>4. Rest = front \o <<>> /\ Rest' = front \o Encode(Made(event))
  BY <1>1 DEF Rest, ringvars, Ring!history, Ring!Cell
<1> HIDE DEF front
<1>5. Rest = front
  BY <1>3, <1>4, ConcatEmptySeq
<1> QED BY <1>1, <1>2, <1>4, <1>5

(* Appending is associative.                                               *)
LEMMA Regroup ==
  \A x, y, z \in Seq(Octet) : (x \o y) \o z = x \o (y \o z)
BY ConcatAssociative

(* A sequence that starts with an element is this element and the others.  *)
LEMMA HeadAndTail ==
  ASSUME NEW S, NEW s \in Seq(S), s # <<>>
  PROVE  <<Head(s)>> \in Seq(S) /\ s = <<Head(s)>> \o Tail(s)
<1> DEFINE t == <<Head(s)>> \o Tail(s)
           l == Len(s)
<1>1. /\ l \in Nat \ {0} /\ Head(s) \in S /\ Head(s) = s[1]
      /\ Tail(s) \in Seq(S) /\ Len(Tail(s)) = l - 1
      /\ \A i \in 1 .. l - 1 : Tail(s)[i] = s[i + 1]
  BY EmptySeq, HeadTailProperties
<1> HIDE DEF l
<1>2. <<Head(s)>> \in Seq(S) /\ Len(<<Head(s)>>) = 1 /\ <<Head(s)>>[1] = s[1]
  BY <1>1
<1>3. /\ t \in Seq(S) /\ Len(t) = l
      /\ \A i \in 1 .. l : t[i] = IF i <= 1 THEN <<Head(s)>>[i] ELSE Tail(s)[i - 1]
  <2>1. 1 + (l - 1) = l
    BY <1>1
  <2> QED BY <1>1, <1>2, <2>1, ConcatProperties
<1> HIDE DEF t
<1>4. ASSUME NEW i \in 1 .. l PROVE s[i] = t[i]
  <2>1. CASE i = 1
    BY <1>2, <1>3, <2>1
  <2>2. CASE i # 1
    <3>1. i - 1 \in 1 .. l - 1 /\ (i - 1) + 1 = i /\ ~(i <= 1)
      BY <1>1, <2>2
    <3> QED BY <1>1, <1>3, <3>1
  <2> QED BY <2>1, <2>2
<1>5. s = t
  BY <1>3, <1>4, SeqEqual DEF l
<1> QED BY <1>2, <1>5 DEF t

(* A byte put changes nothing of what there is to read, unless the ring is *)
(* full.                                                                   *)
LEMMA PutRest ==
  ASSUME TInv, Put
  PROVE  /\ trcqty # N => UNCHANGED Rest
         /\ trcqty = N =>
              /\ Ring!history # <<>> /\ pending # <<>>
              /\ \E front \in Seq(Octet), back \in Seq(Octet) :
                   /\ Rest = (lent \o <<Head(Ring!history)>>) \o (front \o back)
                   /\ Rest' = lent \o (front \o back)
                   /\ Len(front) = N - 1 /\ Len(back) = Len(pending)
<1> DEFINE h == Ring!history
           k == Ring!history'
           b == <<Head(pending)>>
<1>1. /\ lent \in Seq(Octet) /\ h \in Seq(Octet) /\ pending \in Seq(Octet) /\ pending # <<>>
      /\ Len(h) = trcqty
  BY StreamTypes DEF Put
<1>2. /\ b \in Seq(Octet) /\ Head(pending) \in Octet /\ Tail(pending) \in Seq(Octet)
      /\ pending = b \o Tail(pending)
  BY <1>1, HeadAndTail, HeadTailProperties
<1>3. /\ trcqty = N => h # <<>> /\ k = Append(Tail(h), Head(pending))
      /\ trcqty # N => k = Append(h, Head(pending))
      /\ lent' = lent /\ pending' = Tail(pending)
  BY <1>2, RingPut DEF TInv, Put
<1>4. Rest = (lent \o h) \o (b \o Tail(pending)) /\ Rest' = (lent \o k) \o Tail(pending)
  <2>1. Rest = (lent \o h) \o pending
    BY DEF Rest
  <2> QED BY <1>2, <1>3, <2>1 DEF Rest
<1> HIDE DEF h, k, b
<1>5. CASE trcqty # N
  <2>1. k = h \o b /\ h \o b \in Seq(Octet) /\ lent \o h \in Seq(Octet)
    BY <1>1, <1>2, <1>3, <1>5, AppendIsConcat, ConcatProperties DEF b
  <2>2. (lent \o (h \o b)) \o Tail(pending) = (lent \o h) \o (b \o Tail(pending))
    <3>1. lent \o (h \o b) = (lent \o h) \o b
      BY <1>1, <1>2, Regroup, Zenon
    <3>2. ((lent \o h) \o b) \o Tail(pending) = (lent \o h) \o (b \o Tail(pending))
      BY <1>2, <2>1, Regroup, Zenon
    <3> QED BY <3>1, <3>2
  <2> QED BY <1>4, <1>5, <2>1, <2>2
<1>6. CASE trcqty = N
  <2> DEFINE x == <<Head(h)>>
             front == Tail(h)
  <2>1. h # <<>> /\ h = x \o front /\ x \in Seq(Octet) /\ front \in Seq(Octet)
        /\ Len(front) = N - 1 /\ k = front \o b
    <3>1. h # <<>> /\ k = Append(front, Head(pending))
      BY <1>3, <1>6
    <3>2. h = x \o front /\ x \in Seq(Octet) /\ front \in Seq(Octet) /\ Len(front) = N - 1
      BY <1>1, <1>6, <3>1, HeadAndTail, HeadTailProperties
    <3>3. k = front \o b
      BY <1>2, <3>1, <3>2, AppendIsConcat DEF b
    <3> QED BY <3>1, <3>2, <3>3
  <2> HIDE DEF x, front
  <2>2. /\ lent \o x \in Seq(Octet) /\ lent \o front \in Seq(Octet)
        /\ front \o b \in Seq(Octet)
        /\ b \o Tail(pending) \in Seq(Octet)
    BY <1>1, <1>2, <2>1, ConcatProperties
  <2>3. Rest = (lent \o x) \o (front \o pending)
    <3>1. lent \o (x \o front) = (lent \o x) \o front
      <4>1. lent \in Seq(Octet) /\ x \in Seq(Octet) /\ front \in Seq(Octet)
        BY <1>1, <2>1
      <4> QED BY <4>1, Regroup, Zenon
    <3>2. ((lent \o x) \o front) \o pending = (lent \o x) \o (front \o pending)
      <4>1. lent \o x \in Seq(Octet) /\ front \in Seq(Octet) /\ pending \in Seq(Octet)
        BY <1>1, <2>1, <2>2
      <4> QED BY <4>1, Regroup, Zenon
    <3> QED BY <1>2, <1>4, <2>1, <3>1, <3>2
  <2>4. Rest' = lent \o (front \o pending)
    <3>1. (lent \o (front \o b)) \o Tail(pending) = lent \o ((front \o b) \o Tail(pending))
      <4>1. lent \in Seq(Octet) /\ front \o b \in Seq(Octet) /\ Tail(pending) \in Seq(Octet)
        BY <1>1, <1>2, <2>2
      <4> QED BY <4>1, Regroup, Zenon
    <3>2. (front \o b) \o Tail(pending) = front \o (b \o Tail(pending))
      BY <1>2, <2>1, Regroup, Zenon
    <3> QED BY <1>2, <1>4, <2>1, <3>1, <3>2
  <2> QED BY <1>1, <1>6, <2>1, <2>3, <2>4 DEF h, x
<1> QED BY <1>5, <1>6

(* Handing out a block moves no byte.                                      *)
LEMMA TakeRest ==
  ASSUME TInv, TakeBlock
  PROVE  UNCHANGED Rest /\ \A i \in 1 .. nbytes' : trcstm'[blk' + i - 1] = lent'[i]
<1>1. /\ lent = <<>> /\ lent' \o Ring!history' = Ring!history
      /\ \A i \in 1 .. nbytes' : trcstm'[blk' + i - 1] = lent'[i]
  BY RingTake DEF TInv, TakeBlock
<1>2. pending' = pending
  BY DEF TakeBlock, recorder
<1>3. <<>> \o Ring!history = Ring!history
  BY StreamTypes, ConcatEmptySeq
<1>4. Rest = Ring!history \o pending
  BY <1>1, <1>3 DEF Rest
<1>5. Rest' = Ring!history \o pending
  BY <1>1, <1>2 DEF Rest
<1> QED BY <1>1, <1>4, <1>5

(* A byte read is the first of them.                                       *)
LEMMA DeliverRest ==
  ASSUME TInv, Deliver
  PROVE  /\ Rest # <<>> /\ Head(Rest) = lent[1] /\ Rest' = Tail(Rest)
         /\ nbytes > 0 /\ UNCHANGED recorder
<1>1. /\ lent # <<>> /\ lent' = Tail(lent) /\ Ring!history' = Ring!history
      /\ nbytes > 0 /\ UNCHANGED recorder
  BY RingFlush DEF TInv, Deliver, Ring!FlushByte
<1> DEFINE h == Ring!history
           x == <<Head(lent)>>
<1>2. lent \in Seq(Octet) /\ h \in Seq(Octet) /\ pending \in Seq(Octet)
  BY StreamTypes
<1>3. x \in Seq(Octet) /\ lent = x \o Tail(lent) /\ Tail(lent) \in Seq(Octet)
      /\ Head(lent) \in Octet
  BY <1>1, <1>2, HeadAndTail, HeadTailProperties
<1>4. Rest = (lent \o h) \o pending /\ Rest' = (Tail(lent) \o h) \o pending
  BY <1>1 DEF Rest, recorder
<1> HIDE DEF h, x
<1> DEFINE t == (Tail(lent) \o h) \o pending
<1>5. t \in Seq(Octet) /\ Tail(lent) \o h \in Seq(Octet)
  BY <1>2, <1>3, ConcatProperties
<1>6. Rest = x \o t
  <2>1. (x \o Tail(lent)) \o h = x \o (Tail(lent) \o h)
    BY <1>2, <1>3, Regroup, Zenon
  <2>2. (x \o (Tail(lent) \o h)) \o pending = x \o t
    <3>1. x \in Seq(Octet) /\ Tail(lent) \o h \in Seq(Octet) /\ pending \in Seq(Octet)
      BY <1>2, <1>3, <1>5
    <3> QED BY <3>1, Regroup, Zenon
  <2> QED BY <1>3, <1>4, <2>1, <2>2
<1> HIDE DEF t
<1>7. x \o t # <<>> /\ Head(x \o t) = lent[1] /\ Tail(x \o t) = t
  <2>1. x = <<lent[1]>> /\ lent[1] \in Octet
    BY <1>1, <1>2, <1>3 DEF x
  <2>2. Len(t) \in Nat /\ Len(x) = 1 /\ x[1] = lent[1]
    BY <1>5, <2>1, LenProperties
  <2>3. /\ x \o t \in Seq(Octet) /\ Len(x \o t) = 1 + Len(t)
        /\ \A i \in 1 .. 1 + Len(t) : (x \o t)[i] = IF i <= 1 THEN x[i] ELSE t[i - 1]
    BY <1>3, <1>5, <2>2, ConcatProperties
  <2> DEFINE l == Len(t)
             z == x \o t
  <2>4. z \in Seq(Octet) /\ Len(z) = 1 + l /\ l \in Nat /\ z[1] = lent[1]
        /\ \A i \in 1 .. l : z[i + 1] = t[i]
    <3> HIDE DEF l
    <3> QED BY <2>2, <2>3 DEF l
  <2> HIDE DEF z, l
  <2>5. z # <<>>
    BY <2>4, EmptySeq
  <2>6. Head(z) = lent[1] /\ Tail(z) \in Seq(Octet) /\ Len(Tail(z)) = l
        /\ \A i \in 1 .. l : Tail(z)[i] = t[i]
    BY <2>4, <2>5, HeadTailProperties
  <2>7. Tail(z) = t
    BY <1>5, <2>6, SeqEqual DEF l
  <2> QED BY <2>5, <2>6, <2>7 DEF z
<1> QED BY <1>1, <1>4, <1>6, <1>7 DEF t

(* After a start there is nothing but the opening flag.                    *)
LEMMA RestartRest ==
  ASSUME TInv, Restart
  PROVE  Rest' = <<RKH_FLG>> /\ UNCHANGED <<sent, lapped, parser, analyzer>>
<1>1. [i \in Ring!Index |-> 0] \in [Ring!Index -> Octet]
  BY DEF Octet
<1>2. Ring!history' = <<RKH_FLG>>
  BY <1>1, RingFresh DEF Restart
<1>3. lent' = <<>> /\ pending' = <<>> /\ UNCHANGED <<sent, lapped, parser, analyzer>>
  BY DEF Restart
<1>4. Rest' = (<<>> \o <<RKH_FLG>>) \o <<>>
  BY <1>2, <1>3 DEF Rest
<1>5. <<RKH_FLG>> \in Seq(Octet)
  BY FlipOctet
<1>6. <<>> \o <<RKH_FLG>> = <<RKH_FLG>>
  BY <1>5, ConcatEmptySeq
<1>7. <<RKH_FLG>> \o <<>> = <<RKH_FLG>>
  BY <1>5, ConcatEmptySeq
<1> QED BY <1>3, <1>4, <1>6, <1>7
-----------------------------------------------------------------------------
(* What the flush loop delivers is what it was handed.                     *)

Intact == ~lapped => \A i \in 1 .. nbytes : trcstm[blk + i - 1] = lent[i]

(* The invariants that the rest builds on.                                 *)
SInv == TInv /\ SentOK /\ Intact

(* The records sent, and the bytes lent, are right at first.               *)
LEMMA InitSInv == Init => SInv
<1> SUFFICES ASSUME Init PROVE SInv
  OBVIOUS
<1>1. TInv
  BY InitTInv
<1>2. Len(<<>>) = 0
  BY EmptySeq
<1>3. SentOK
  BY <1>2 DEF Init, SentOK
<1>4. Intact
  BY DEF Init, Ring!Init, Intact
<1> QED BY <1>1, <1>3, <1>4 DEF SInv

(* A record made has a sum of zero and at most 255 bytes.                  *)
LEMMA SentStep ==
  ASSUME ShortRecords, TInv, SentOK, NEW event \in Events, Record(event)
  PROVE  SentOK'
<1> DEFINE r == Made(event)
           len == Len(r)
           alen == Len(event.args)
<1>1. r # <<>> /\ SumOf(r) = 0 /\ r \in Seq(Octet) /\ len <= 255
  <2>1. /\ r # <<>> /\ SumOf(r) = 0 /\ r \in Seq(Octet) /\ len \in 1 .. alen + 3
        /\ alen \in Nat /\ alen <= 252
    BY RecordMade, LinkAssumption, LenProperties DEF TInv, RecorderOK, ShortRecords
  <2> HIDE DEF r, len, alen
  <2>2. len <= 255
    BY <2>1
  <2> QED BY <2>1, <2>2
<1> HIDE DEF r, len
<1>2. sent' = Append(sent, r) /\ sent \in Seq(Seq(Octet))
  BY RecordRest DEF TInv, RecorderOK, r
<1> DEFINE l == Len(sent)
<1>3. /\ Len(sent') = l + 1 /\ l \in Nat /\ sent'[l + 1] = r
      /\ \A n \in 1 .. l : sent'[n] = sent[n]
  BY <1>1, <1>2, AppendProperties, LenProperties
<1>4. ASSUME NEW n \in 1 .. Len(sent')
      PROVE  sent'[n] # <<>> /\ SumOf(sent'[n]) = 0 /\ Len(sent'[n]) <= 255
  <2>1. n = l + 1 \/ n \in 1 .. l
    <3> HIDE DEF l
    <3> QED BY <1>3
  <2>2. CASE n = l + 1
    BY <1>1, <1>3, <2>2 DEF len
  <2>3. CASE n \in 1 .. l
    BY <1>3, <2>3 DEF SentOK
  <2> QED BY <2>1, <2>2, <2>3
<1> QED BY <1>4 DEF SentOK

(* A put that does not lap the flush loop leaves its block alone.          *)
LEMMA PutIntact ==
  ASSUME TInv, Intact, Put
  PROVE  Intact'
<1> SUFFICES ASSUME ~lapped', NEW i \in 1 .. nbytes' PROVE trcstm'[blk' + i - 1] = lent'[i]
  BY DEF Intact
<1>1. ~lapped /\ ~(trcin \in blk .. blk + nbytes - 1)
  BY DEF Put
<1>2. UNCHANGED <<blk, nbytes, lent>> /\ trcstm' = [trcstm EXCEPT ![trcin] = Head(pending)]
  BY DEF Put, Ring!rkh_trc_put, Ring!flusher
<1>3. /\ blk \in 0 .. N /\ nbytes \in 0 .. N /\ trcstm \in [0 .. N - 1 -> Octet]
      /\ blk + nbytes <= N /\ N \in Nat
  BY RingConstants DEF TInv, RingInv, Ring!TypeOK, Ring!BlockInArray, Ring!Index
<1>4. blk + i - 1 # trcin /\ blk + i - 1 \in 0 .. N - 1
  BY <1>1, <1>2, <1>3
<1>5. trcstm'[blk + i - 1] = trcstm[blk + i - 1]
  BY <1>2, <1>3, <1>4
<1> QED BY <1>1, <1>2, <1>5 DEF Intact

(* So what is parsed is the first of the rest of the stream.               *)
LEMMA DeliverIntact ==
  ASSUME TInv, Intact, Deliver
  PROVE  Intact' /\ (~lapped => trcstm[blk] = Head(Rest))
<1>1. /\ \A i \in 1 .. nbytes' : lent'[i] = lent[i + 1]
      /\ blk' = blk + 1 /\ nbytes' = nbytes - 1 /\ trcstm' = trcstm /\ lapped' = lapped
      /\ blk \in Nat /\ nbytes \in Nat /\ nbytes > 0
  BY RingFlush, RingConstants
     DEF TInv, RingInv, Deliver, Ring!FlushByte, Ring!ring, Ring!TypeOK, recorder
<1>2. ASSUME ~lapped, NEW i \in 1 .. nbytes'
      PROVE  trcstm'[blk' + i - 1] = lent'[i]
  <2>1. i + 1 \in 1 .. nbytes /\ blk' + i - 1 = blk + (i + 1) - 1
    BY <1>1
  <2> QED BY <1>1, <1>2, <2>1 DEF Intact
<1>3. ASSUME ~lapped PROVE trcstm[blk] = Head(Rest)
  <2>1. Head(Rest) = lent[1]
    BY DeliverRest
  <2>2. 1 \in 1 .. nbytes /\ blk + 1 - 1 = blk
    BY <1>1
  <2> QED BY <1>3, <2>1, <2>2 DEF Intact
<1> QED BY <1>1, <1>2, <1>3 DEF Intact

(* They are right after every step.                                        *)
LEMMA SInvStep ==
  ASSUME ShortRecords, SInv, [Next]_vars
  PROVE  SInv'
<1>1. ASSUME NEW event \in Events, Record(event) PROVE SInv'
  <2>1. TInv' /\ SentOK'
    BY <1>1, RecordTInv, SentStep DEF SInv
  <2>2. Intact'
    BY <1>1, RecordRest DEF SInv, Intact, ringvars
  <2> QED BY <2>1, <2>2 DEF SInv
<1>2. CASE Put
  BY <1>2, PutTInv, PutIntact DEF SInv, SentOK, Put
<1>3. CASE TakeBlock
  <2>1. Intact'
    BY <1>3, TakeRest DEF SInv, Intact
  <2> QED BY <1>3, <2>1, TakeBlockTInv DEF SInv, SentOK, TakeBlock, recorder
<1>4. CASE Deliver
  BY <1>4, DeliverTInv, DeliverIntact DEF SInv, SentOK, Deliver, recorder
<1>5. CASE Restart
  <2>1. Intact'
    BY <1>5 DEF Intact, Restart
  <2> QED BY <1>5, <2>1, RestartTInv DEF SInv, SentOK, Restart
<1>6. CASE UNCHANGED vars
  BY <1>6, StutterTInv DEF SInv, SentOK, Intact, vars, ringvars, recorder
<1> QED BY <1>1, <1>2, <1>3, <1>4, <1>5, <1>6 DEF Next
-----------------------------------------------------------------------------
(* Nothing is lost.                                                        *)

(* The next record the analyzer is going to accept.                        *)
Coming == Len(accepted) + 1

(* Inside of a record, or before the flag a stream opens with.             *)
Inside(n) == Leads(sent, Rest, At(n), End) /\ state # "WFLAG" /\ Collected(n)
Before(n) == Leads(sent, Rest, Opening(n), End) /\ state \in {"WFLAG", "COLLECT"} /\ ptr = 0

Lossless ==
  ~dropped /\ ~lapped =>
    /\ errors = 0
    /\ Len(accepted) <= Len(sent)
    /\ \A i \in 1 .. Len(accepted) : accepted[i] = sent[i]
    /\ Inside(Coming) \/ Before(Coming)

(* The analyzer first waits for the opening flag of the stream.            *)
LEMMA InitLossless == Init => Lossless
<1> SUFFICES ASSUME Init PROVE Lossless
  OBVIOUS
<1>1. Len(<<>>) = 0
  BY EmptySeq
<1>2. Ring!history = <<RKH_FLG>>
  BY RingInit DEF Init
<1>3. <<RKH_FLG>> \in Seq(Octet)
  BY FlipOctet
<1>4. Rest = <<RKH_FLG>>
  <2>1. Rest = (<<>> \o <<RKH_FLG>>) \o <<>>
    BY <1>2 DEF Init, Ring!Init, Rest
  <2>2. <<>> \o <<RKH_FLG>> = <<RKH_FLG>>
    BY <1>3, ConcatEmptySeq
  <2>3. <<RKH_FLG>> \o <<>> = <<RKH_FLG>>
    BY <1>3, ConcatEmptySeq
  <2> QED BY <2>1, <2>2, <2>3
<1>5. Coming = 1 /\ End = Spot(1, 1, FALSE)
  BY <1>1 DEF Coming, End, Init
<1>6. Before(Coming)
  BY <1>4, <1>5, LeadsOpening DEF Before, Opening, Init
<1> QED BY <1>1, <1>6 DEF Lossless, Init

(* A record appended leads on from the end there was.                      *)
LEMMA RecordLeads ==
  ASSUME SInv, NEW event \in Events, Record(event), NEW a
  PROVE  /\ Leads(sent, Rest, a, End) => Leads(sent', Rest', a, End')
         /\ Leads(sent', Encode(Made(event)), Spot(Len(sent'), 1, FALSE), End')
         /\ Len(sent') = Len(sent) + 1 /\ sent' \in Seq(Seq(Octet))
         /\ sent'[Len(sent')] = Made(event)
         /\ \A n \in 1 .. Len(sent) : sent'[n] = sent[n]
<1> DEFINE r == Made(event)
           l == Len(sent)
           old == End
           new == End'
<1>1. /\ r \in Seq(Octet) /\ r # <<>> /\ sent' = Append(sent, r) /\ Rest' = Rest \o Encode(r)
      /\ sent \in Seq(Seq(Octet)) /\ Rest \in Seq(Octet) /\ Encode(r) \in Seq(Octet)
  BY RecordRest, StreamTypes DEF SInv, TInv, RecorderOK
<1>2. /\ l \in Nat /\ sent' \in Seq(Seq(Octet)) /\ Len(sent') = l + 1 /\ sent'[l + 1] = r
      /\ \A n \in 1 .. l : sent'[n] = sent[n]
  BY <1>1, AppendProperties, LenProperties
<1>3. old = Spot(l + 1, 1, FALSE) /\ new = Spot((l + 1) + 1, 1, FALSE)
  BY <1>2 DEF End
<1> HIDE DEF l, old, new
<1>4. l + 1 \in 1 .. Len(sent')
  BY <1>2
<1>5. Leads(sent', Encode(r), Spot(l + 1, 1, FALSE), new)
  BY <1>1, <1>2, <1>3, <1>4, LeadsRecord
<1>6. ASSUME Leads(sent, Rest, a, old) PROVE Leads(sent', Rest', a, new)
  <2>1. Leads(sent', Rest, a, old)
    BY <1>1, <1>6, LeadsStill
  <2> QED BY <1>1, <1>3, <1>5, <2>1, LeadsFurther
<1> QED BY <1>2, <1>5, <1>6 DEF l, r, old, new

(* A record made lies ahead of it, after all others.                       *)
LEMMA RecordLossless ==
  ASSUME SInv, Lossless, NEW event \in Events, Record(event)
  PROVE  Lossless'
<1> SUFFICES ASSUME ~dropped', ~lapped'
             PROVE  (/\ errors = 0 /\ Len(accepted) <= Len(sent)
                     /\ \A i \in 1 .. Len(accepted) : accepted[i] = sent[i]
                     /\ Inside(Coming) \/ Before(Coming))'
  BY DEF Lossless
<1>1. UNCHANGED <<parser, analyzer, dropped, lapped>>
  BY RecordRest DEF SInv
<1>2. /\ errors = 0 /\ Len(accepted) <= Len(sent)
      /\ \A i \in 1 .. Len(accepted) : accepted[i] = sent[i]
      /\ Inside(Coming) \/ Before(Coming)
  BY <1>1 DEF Lossless
<1>3. Len(accepted) \in Nat /\ Len(sent) \in Nat
  BY LenProperties DEF SInv, TInv, RecorderOK, ParserOK
<1>4. /\ Len(sent') = Len(sent) + 1
      /\ \A n \in 1 .. Len(sent) : sent'[n] = sent[n]
      /\ \A a : Leads(sent, Rest, a, End) => Leads(sent', Rest', a, End')
  BY RecordLeads
<1>5. /\ errors' = 0 /\ Len(accepted') <= Len(sent')
      /\ \A i \in 1 .. Len(accepted') : accepted'[i] = sent'[i]
  <2>1. accepted' = accepted /\ errors' = errors
    BY <1>1 DEF analyzer
  <2> DEFINE k == Len(accepted)
             l == Len(sent)
  <2>2. k <= l /\ k \in Nat /\ l \in Nat /\ Len(sent') = l + 1 /\ Len(accepted') = k
    BY <1>2, <1>3, <1>4, <2>1
  <2>3. \A i \in 1 .. k : accepted[i] = sent[i]
    BY <1>2
  <2>4. \A i \in 1 .. l : sent'[i] = sent[i]
    BY <1>4
  <2> HIDE DEF k, l
  <2> QED BY <1>2, <2>1, <2>2, <2>3, <2>4
<1>6. \A n : /\ At(n)' = At(n) /\ Opening(n)' = Opening(n)
             /\ UNCHANGED <<state, ptr, tr, Coming>>
  BY <1>1 DEF At, Opening, Coming, parser, analyzer
<1>7. ASSUME NEW n, Collected(n) PROVE Collected(n)'
  <2>1. CASE ptr = 0
    BY <1>6, <2>1 DEF Collected
  <2>2. CASE ptr # 0
    <3>1. /\ n \in 1 .. Len(sent) /\ ptr <= Len(sent[n])
          /\ \A i \in 1 .. ptr : tr[i] = sent[n][i]
      BY <1>7, <2>2 DEF Collected
    <3>2. sent'[n] = sent[n] /\ n \in 1 .. Len(sent')
      BY <1>3, <1>4, <3>1
    <3> QED BY <1>6, <3>1, <3>2 DEF Collected
  <2> QED BY <2>1, <2>2
<1>8. Inside(Coming) => Inside(Coming)'
  BY <1>4, <1>6, <1>7 DEF Inside
<1>9. Before(Coming) => Before(Coming)'
  BY <1>4, <1>6 DEF Before
<1> QED BY <1>2, <1>5, <1>8, <1>9

(* The parser follows the records.                                         *)
LEMMA DeliverInside ==
  ASSUME SInv, Deliver, ~lapped, NEW n, Inside(n)
  PROVE  /\ n \in 1 .. Len(sent) /\ UNCHANGED sent
         /\ \/ Inside(n)' /\ UNCHANGED analyzer
            \/ /\ Leads(sent, Rest', Spot(n + 1, 1, FALSE), End)
               /\ accepted' = Append(accepted, sent[n]) /\ errors' = errors
               /\ ptr' = 0 /\ state' = "COLLECT"
<1> DEFINE a == At(n)
           b == After(sent, At(n))
           z == End
<1>1. /\ Rest # <<>> /\ Rest \in Seq(Octet) /\ Rest' = Tail(Rest) /\ sent' = sent
      /\ trcstm[blk] = Head(Rest)
  BY DeliverRest, StreamTypes, DeliverIntact DEF SInv, recorder
<1>2. Valid(sent, a) /\ Head(Rest) = ByteAt(sent, a) /\ Leads(sent, Rest', b, z)
  BY <1>1, LeadsOn DEF Inside
<1>3. n \in 1 .. Len(sent)
  <2>1. Len(tr) \in Nat /\ ptr \in 0 .. Len(tr)
    BY LenProperties DEF SInv, TInv, ParserOK
  <2>2. a.pos # 0 /\ a.rec = n
    BY <2>1 DEF At, Spot
  <2> HIDE DEF a
  <2> QED BY <1>2, <2>2, Zenon DEF Valid
<1>4. End' = z
  BY <1>1 DEF End
<1>5. tzparser_exec(ByteAt(sent, a))
  BY <1>1, <1>2 DEF Deliver
<1>6. /\ state' # "WFLAG"
      /\ \/ At(n)' = b /\ Collected(n)' /\ UNCHANGED analyzer
         \/ /\ b = Spot(n + 1, 1, FALSE)
            /\ accepted' = Append(accepted, sent[n]) /\ errors' = errors
            /\ ptr' = 0 /\ state' = "COLLECT"
  BY <1>1, <1>2, <1>3, <1>5, InStep DEF SInv, TInv, Inside
<1>7. Leads(sent', Rest', b, End')
  BY <1>1, <1>2, <1>4
<1> HIDE DEF b, z
<1> QED BY <1>1, <1>2, <1>3, <1>6, <1>7 DEF Inside, z

(* The flag a stream opens with takes it to the first byte of a record.    *)
LEMMA DeliverBefore ==
  ASSUME SInv, Deliver, ~lapped, NEW n, Before(n)
  PROVE  Inside(n)' /\ UNCHANGED <<sent, analyzer>>
<1>1. /\ Rest # <<>> /\ Rest \in Seq(Octet) /\ Rest' = Tail(Rest) /\ sent' = sent
      /\ trcstm[blk] = Head(Rest)
  BY DeliverRest, StreamTypes, DeliverIntact DEF SInv, recorder
<1> DEFINE a == Opening(n)
<1>2. ByteAt(sent, a) = RKH_FLG /\ After(sent, a) = Spot(n, 1, FALSE)
  BY DEF Opening, Spot, ByteAt, After
<1>3. Head(Rest) = ByteAt(sent, a) /\ Leads(sent, Rest', After(sent, a), End)
  BY <1>1, LeadsOn DEF Before
<1>4. tzparser_exec(RKH_FLG)
  BY <1>1, <1>2, <1>3 DEF Deliver
<1>5. state' = "COLLECT" /\ ptr' = 0 /\ UNCHANGED analyzer
  BY <1>4, FlagStep, EmptyFrame DEF SInv, TInv, Before
<1>6. At(n)' = Spot(n, 1, FALSE) /\ Collected(n)' /\ End' = End
  <2>1. 0 + 1 = 1 /\ (state' = "ESCAPING") = FALSE
    BY <1>5
  <2> QED BY <1>1, <1>5, <2>1 DEF At, Collected, End
<1> QED BY <1>1, <1>2, <1>3, <1>5, <1>6 DEF Inside

(* Every byte takes it one spot on, the last of a record to the next       *)
(* record.                                                                 *)
LEMMA DeliverLossless ==
  ASSUME SInv, Lossless, Deliver
  PROVE  Lossless'
<1> SUFFICES ASSUME ~dropped', ~lapped'
             PROVE  (/\ errors = 0 /\ Len(accepted) <= Len(sent)
                     /\ \A i \in 1 .. Len(accepted) : accepted[i] = sent[i]
                     /\ Inside(Coming) \/ Before(Coming))'
  BY DEF Lossless
<1>1. ~dropped /\ ~lapped /\ UNCHANGED recorder
  BY DeliverRest DEF SInv, recorder
<1>2. /\ errors = 0 /\ Len(accepted) <= Len(sent)
      /\ \A i \in 1 .. Len(accepted) : accepted[i] = sent[i]
      /\ Inside(Coming) \/ Before(Coming)
  BY <1>1 DEF Lossless
<1>3. ASSUME UNCHANGED <<sent, analyzer>>, Inside(Coming)'
      PROVE  (/\ errors = 0 /\ Len(accepted) <= Len(sent)
              /\ \A i \in 1 .. Len(accepted) : accepted[i] = sent[i]
              /\ Inside(Coming) \/ Before(Coming))'
  BY <1>2, <1>3 DEF analyzer
<1>4. PICK n : n = Coming
  OBVIOUS
<1>5. CASE Before(n)
  <2>1. Inside(n)' /\ UNCHANGED <<sent, analyzer>>
    BY <1>1, <1>5, DeliverBefore
  <2>2. Coming' = n
    BY <1>4, <2>1 DEF Coming, analyzer
  <2> QED BY <1>3, <2>1, <2>2
<1>6. CASE Inside(n)
  <2>1. /\ n \in 1 .. Len(sent) /\ UNCHANGED sent
        /\ \/ Inside(n)' /\ UNCHANGED analyzer
           \/ /\ Leads(sent, Rest', Spot(n + 1, 1, FALSE), End)
              /\ accepted' = Append(accepted, sent[n]) /\ errors' = errors
              /\ ptr' = 0 /\ state' = "COLLECT"
    BY <1>1, <1>6, DeliverInside
  <2>2. CASE Inside(n)' /\ UNCHANGED analyzer
    <3>1. Coming' = n
      BY <1>4, <2>2 DEF Coming, analyzer
    <3> QED BY <1>3, <2>1, <2>2, <3>1
  <2>3. CASE /\ Leads(sent, Rest', Spot(n + 1, 1, FALSE), End)
             /\ accepted' = Append(accepted, sent[n]) /\ errors' = errors
             /\ ptr' = 0 /\ state' = "COLLECT"
    <3> DEFINE l == Len(sent)
               k == Len(accepted)
    <3>1. /\ accepted \in Seq(Seq(Octet)) /\ sent[n] \in Seq(Octet)
          /\ k \in Nat /\ l \in Nat /\ n = k + 1
      BY <1>4, <2>1, LenProperties, ElementOfSeq DEF SInv, TInv, ParserOK, RecorderOK, Coming
    <3>2. /\ Len(accepted') = k + 1 /\ accepted'[k + 1] = sent[n]
          /\ \A i \in 1 .. k : accepted'[i] = accepted[i]
      BY <2>3, <3>1, AppendProperties
    <3>3. k + 1 <= l /\ \A i \in 1 .. k : accepted[i] = sent[i]
      <4>1. n <= l /\ \A i \in 1 .. k : accepted[i] = sent[i]
        BY <1>2, <2>1
      <4> HIDE DEF k, l
      <4> QED BY <3>1, <4>1
    <3>4. /\ errors' = 0 /\ Len(accepted') <= Len(sent')
          /\ \A i \in 1 .. Len(accepted') : accepted'[i] = sent'[i]
      <4>1. errors' = 0 /\ Len(sent') = l /\ sent' = sent
        BY <1>2, <2>1, <2>3
      <4> HIDE DEF k, l
      <4>2. \A i \in 1 .. k + 1 : accepted'[i] = sent[i]
        BY <3>1, <3>2, <3>3
      <4> QED BY <3>2, <3>3, <4>1, <4>2
    <3>5. Inside(n + 1)'
      <4>1. At(n + 1)' = Spot(n + 1, 1, FALSE)
        <5>1. 0 + 1 = 1 /\ (state' = "ESCAPING") = FALSE
          BY <2>3
        <5> QED BY <2>3, <5>1 DEF At
      <4>2. End' = End
        BY <2>1 DEF End
      <4> QED BY <2>1, <2>3, <4>1, <4>2 DEF Inside, Collected
    <3>6. Coming' = n + 1
      BY <3>1, <3>2 DEF Coming
    <3> QED BY <3>4, <3>5, <3>6
  <2> QED BY <2>1, <2>2, <2>3
<1> QED BY <1>2, <1>4, <1>5, <1>6

(* Nothing is left of the stream: all records have been accepted.          *)
LEMMA EmptyRest ==
  ASSUME SInv, Rest = <<>>, NEW n
  PROVE  /\ Inside(n) => n = Len(sent) + 1 /\ ptr = 0 /\ state = "COLLECT"
         /\ ~Before(n)
<1>1. Len(tr) \in Nat /\ ptr \in 0 .. Len(tr) /\ state \in {"WFLAG", "COLLECT", "ESCAPING"}
  BY LenProperties DEF SInv, TInv, ParserOK
<1>2. ASSUME Inside(n) PROVE n = Len(sent) + 1 /\ ptr = 0 /\ state = "COLLECT"
  <2>1. At(n) = End /\ state # "WFLAG"
    BY <1>2, LeadsNowhere DEF Inside
  <2>2. n = Len(sent) + 1 /\ ptr + 1 = 1 /\ (state = "ESCAPING") = FALSE
    <3>1. /\ At(n).rec = n /\ At(n).pos = ptr + 1 /\ At(n).esc = (state = "ESCAPING")
          /\ End.rec = Len(sent) + 1 /\ End.pos = 1 /\ End.esc = FALSE
      BY DEF At, End, Spot
    <3> QED BY <2>1, <3>1
  <2> QED BY <1>1, <2>1, <2>2
<1>3. ASSUME Before(n) PROVE FALSE
  <2>1. Opening(n) = End
    BY <1>3, LeadsNowhere DEF Before
  <2> QED BY <2>1 DEF Opening, End, Spot
<1> QED BY <1>2, <1>3

(* A start after everything has been read takes it to the opening flag.    *)
LEMMA RestartLossless ==
  ASSUME SInv, Lossless, Restart
  PROVE  Lossless'
<1> SUFFICES ASSUME ~dropped', ~lapped'
             PROVE  (/\ errors = 0 /\ Len(accepted) <= Len(sent)
                     /\ \A i \in 1 .. Len(accepted) : accepted[i] = sent[i]
                     /\ Inside(Coming) \/ Before(Coming))'
  BY DEF Lossless
<1>1. /\ ~dropped /\ ~lapped /\ Drained
      /\ Rest' = <<RKH_FLG>> /\ UNCHANGED <<sent, lapped, parser, analyzer>>
  BY RestartRest DEF Restart, SInv
<1>2. /\ errors = 0 /\ Len(accepted) <= Len(sent)
      /\ \A i \in 1 .. Len(accepted) : accepted[i] = sent[i]
      /\ Inside(Coming) \/ Before(Coming)
  BY <1>1 DEF Lossless
<1>3. PICK n : n = Coming
  OBVIOUS
<1>4. Rest = <<>>
  BY <1>1, DrainedIsEmpty DEF SInv
<1>5. n = Len(sent) + 1 /\ ptr = 0 /\ state = "COLLECT"
  BY <1>2, <1>3, <1>4, EmptyRest
<1>6. Coming' = n
  BY <1>1, <1>3 DEF Coming, analyzer
<1>7. Before(n)'
  <2>1. End' = Spot(n, 1, FALSE) /\ Opening(n)' = Spot(n, 0, FALSE)
    BY <1>1, <1>5 DEF End, Opening
  <2>2. state' = "COLLECT" /\ ptr' = 0
    BY <1>1, <1>5 DEF parser
  <2> QED BY <1>1, <2>1, <2>2, LeadsOpening DEF Before
<1>8. (/\ errors = 0 /\ Len(accepted) <= Len(sent)
       /\ \A i \in 1 .. Len(accepted) : accepted[i] = sent[i])'
  BY <1>1, <1>2 DEF analyzer
<1> QED BY <1>6, <1>7, <1>8

(* It is in step with the recorder after every step.                       *)
LEMMA LosslessStep ==
  ASSUME SInv, Lossless, [Next]_vars
  PROVE  Lossless'
<1>1. ASSUME UNCHANGED <<Rest, sent, parser, analyzer>>,
             ~dropped' => ~dropped, ~lapped' => ~lapped
      PROVE  Lossless'
  <2>1. \A n : /\ At(n)' = At(n) /\ Opening(n)' = Opening(n) /\ End' = End
               /\ Collected(n)' = Collected(n)
    BY <1>1 DEF At, Opening, End, Collected, parser
  <2>2. Coming' = Coming /\ state' = state /\ ptr' = ptr
    BY <1>1 DEF Coming, parser, analyzer
  <2>3. \A n : (Inside(n) => Inside(n)') /\ (Before(n) => Before(n)')
    BY <1>1, <2>1, <2>2 DEF Inside, Before
  <2> QED BY <1>1, <2>2, <2>3 DEF Lossless, analyzer
<1>2. ASSUME NEW event \in Events, Record(event) PROVE Lossless'
  BY <1>2, RecordLossless
<1>3. CASE Put
  <2>1. CASE trcqty = N
    BY <1>3, <2>1 DEF Put, Lossless
  <2>2. CASE trcqty # N
    BY <1>1, <1>3, <2>2, PutRest DEF Put, SInv
  <2> QED BY <2>1, <2>2
<1>4. CASE TakeBlock
  BY <1>1, <1>4, TakeRest DEF TakeBlock, SInv, recorder
<1>5. CASE Deliver
  BY <1>5, DeliverLossless
<1>6. CASE Restart
  BY <1>6, RestartLossless
<1>7. CASE UNCHANGED vars
  <2>1. UNCHANGED Rest
    BY <1>7 DEF vars, ringvars, recorder, Rest, Ring!history, Ring!Cell
  <2> QED BY <1>1, <1>7, <2>1 DEF vars, recorder
<1> QED BY <1>2, <1>3, <1>4, <1>5, <1>6, <1>7 DEF Next

(* What has the same elements has the same front.                          *)
LEMMA SameFront ==
  ASSUME NEW S, NEW s, NEW t, NEW k \in Nat, \A i \in 1 .. k : s[i] \in S /\ t[i] = s[i]
  PROVE  SubSeq(s, 1, k) = SubSeq(t, 1, k)
<1>1. k - 1 + 1 = k /\ (\A i \in 1 .. k : 1 + i - 1 = i) /\ (IF 1 <= k THEN k - 1 + 1 ELSE 0) = k
  OBVIOUS
<1> DEFINE x == SubSeq(s, 1, k)
           y == SubSeq(t, 1, k)
<1>2. x \in Seq(S) /\ Len(x) = k /\ \A i \in 1 .. k : x[i] = s[i]
  BY <1>1, SubSeqProperties
<1>3. y \in Seq(S) /\ Len(y) = k /\ \A i \in 1 .. k : y[i] = t[i]
  <2>1. \A i \in 1 .. k : t[i] \in S
    OBVIOUS
  <2> QED BY <1>1, <2>1, SubSeqProperties
<1> HIDE DEF x, y
<1>4. x = y
  BY <1>2, <1>3, SeqEqual
<1> QED BY <1>4 DEF x, y

(* So it has accepted a front of the records, and all of them in the end.  *)
LEMMA LosslessIsTransparent ==
  ASSUME SInv, Lossless
  PROVE  Transparent
<1> SUFFICES ASSUME ~dropped, ~lapped
             PROVE  IsPrefix(accepted, sent) /\ errors = 0 /\ (Drained => accepted = sent)
  BY DEF Transparent
<1>1. /\ errors = 0 /\ Len(accepted) <= Len(sent)
      /\ \A i \in 1 .. Len(accepted) : accepted[i] = sent[i]
      /\ Inside(Coming) \/ Before(Coming)
  BY DEF Lossless
<1>2. /\ accepted \in Seq(Seq(Octet)) /\ sent \in Seq(Seq(Octet))
      /\ Len(accepted) \in Nat /\ Len(sent) \in Nat
  BY LenProperties DEF SInv, TInv, ParserOK, RecorderOK
<1>3. IsPrefix(accepted, sent)
  <2> DEFINE k == Len(accepted)
             l == Len(sent)
  <2>1. \A i \in 1 .. k :
          accepted[i] \in Seq(Octet) /\ sent[i] \in Seq(Octet) /\ sent[i] = accepted[i]
    BY <1>1, <1>2, ElementOfSeq
  <2>2. k \in Nat /\ k <= l
    BY <1>1, <1>2
  <2> HIDE DEF k, l
  <2>3. SubSeq(accepted, 1, k) = SubSeq(sent, 1, k)
    BY <2>1, <2>2, SameFront
  <2> QED BY <2>2, <2>3 DEF IsPrefix, k, l
<1>4. ASSUME Drained PROVE accepted = sent
  <2>1. Rest = <<>>
    BY <1>4, DrainedIsEmpty DEF SInv
  <2>2. PICK n : n = Coming
    OBVIOUS
  <2>3. n = Len(sent) + 1
    BY <1>1, <2>1, <2>2, EmptyRest
  <2>4. Len(accepted) = Len(sent)
    BY <1>2, <2>2, <2>3 DEF Coming
  <2> QED BY <1>1, <1>2, <2>4, SeqEqual
<1> QED BY <1>1, <1>3, <1>4

(* The framing is transparent: as long as the ring loses no byte, and is   *)
(* empty when the target starts again, the analyzer gets every record of   *)
(* at most 255 bytes, complete, in order and without a checksum error.     *)
THEOREM Transparency == ASSUME ShortRecords PROVE Spec => []Transparent
<1>1. Init => SInv /\ Lossless
  BY InitSInv, InitLossless
<1>2. SInv /\ Lossless /\ [Next]_vars => (SInv /\ Lossless)'
  BY SInvStep, LosslessStep
<1>3. SInv /\ Lossless => Transparent
  BY LosslessIsTransparent
<1> QED BY <1>1, <1>2, <1>3, PTL DEF Spec
-----------------------------------------------------------------------------
(* The latest record is understood.                                        *)

(* The last bytes of z are y.                                              *)
EndsWith(z, y) ==
  /\ Len(y) <= Len(z)
  /\ \A i \in 1 .. Len(y) : z[Len(z) - Len(y) + i] = y[i]

(* x \o y ends with y.                                                     *)
LEMMA EndsWithItsEnd ==
  ASSUME NEW x \in Seq(Octet), NEW y \in Seq(Octet)
  PROVE  EndsWith(x \o y, y)
<1> DEFINE z == x \o y
           k == Len(x)
           l == Len(y)
<1>1. /\ k \in Nat /\ l \in Nat /\ Len(z) = k + l
      /\ \A i \in 1 .. k + l : z[i] = IF i <= k THEN x[i] ELSE y[i - k]
  BY ConcatProperties, LenProperties
<1> HIDE DEF z, k, l
<1>2. l <= k + l /\ \A i \in 1 .. l : z[k + l - l + i] = y[i]
  <2> SUFFICES ASSUME NEW i \in 1 .. l PROVE z[k + l - l + i] = y[i]
    BY <1>1
  <2>1. k + l - l + i = k + i /\ k + i \in 1 .. k + l /\ ~(k + i <= k) /\ (k + i) - k = i
    BY <1>1
  <2>2. z[k + i] = y[(k + i) - k]
    BY <1>1, <2>1
  <2> QED BY <2>1, <2>2
<1> QED BY <1>1, <1>2 DEF EndsWith, z, l

(* An end does not depend on what comes before it.                         *)
LEMMA EndsWithAnyway ==
  ASSUME NEW a \in Seq(Octet), NEW b \in Seq(Octet), NEW c \in Seq(Octet), NEW y \in Seq(Octet),
         EndsWith(a \o b, y), Len(y) <= Len(b)
  PROVE  EndsWith(c \o b, y)
<1> DEFINE u == a \o b
           v == c \o b
           k == Len(a)
           l == Len(b)
           m == Len(c)
           n == Len(y)
<1>1. /\ k \in Nat /\ l \in Nat /\ Len(u) = k + l
      /\ \A i \in 1 .. k + l : u[i] = IF i <= k THEN a[i] ELSE b[i - k]
  BY ConcatProperties, LenProperties
<1>2. /\ m \in Nat /\ l \in Nat /\ Len(v) = m + l
      /\ \A i \in 1 .. m + l : v[i] = IF i <= m THEN c[i] ELSE b[i - m]
  BY ConcatProperties, LenProperties
<1>3. n \in Nat /\ n <= l /\ \A i \in 1 .. n : u[Len(u) - n + i] = y[i]
  BY LenProperties DEF EndsWith
<1> HIDE DEF u, v, k, l, m, n
<1>4. ASSUME NEW i \in 1 .. n PROVE v[m + l - n + i] = y[i]
  <2>1. /\ m + l - n + i \in 1 .. m + l /\ ~(m + l - n + i <= m)
        /\ (m + l - n + i) - m = l - n + i
        /\ k + l - n + i \in 1 .. k + l /\ ~(k + l - n + i <= k)
        /\ (k + l - n + i) - k = l - n + i
    BY <1>1, <1>2, <1>3
  <2>2. v[m + l - n + i] = b[l - n + i]
    BY <1>2, <2>1
  <2>3. u[k + l - n + i] = b[l - n + i]
    BY <1>1, <2>1
  <2> QED BY <1>1, <1>3, <2>2, <2>3
<1>5. n <= m + l
  BY <1>2, <1>3
<1> QED BY <1>2, <1>4, <1>5 DEF EndsWith, v, n

(* A byte taken from the front leaves the end as it is.                    *)
LEMMA EndsWithOn ==
  ASSUME NEW z \in Seq(Octet), z # <<>>, NEW y \in Seq(Octet), EndsWith(z, y)
  PROVE  y = z \/ EndsWith(Tail(z), y)
<1> DEFINE l == Len(z)
           n == Len(y)
           t == Tail(z)
<1>1. /\ l \in Nat \ {0} /\ n \in Nat /\ n <= l
      /\ \A i \in 1 .. n : z[l - n + i] = y[i]
  BY EmptySeq, LenProperties DEF EndsWith
<1>2. Len(t) = l - 1 /\ \A i \in 1 .. l - 1 : t[i] = z[i + 1]
  BY HeadTailProperties
<1> HIDE DEF l, n, t
<1>3. CASE n = l
  <2>1. \A i \in 1 .. l : z[i] = y[i]
    <3> SUFFICES ASSUME NEW i \in 1 .. l PROVE z[i] = y[i]
      OBVIOUS
    <3>1. l - n + i = i /\ i \in 1 .. n
      BY <1>1, <1>3
    <3> QED BY <1>1, <3>1
  <2>2. y = z
    BY <1>3, <2>1, SeqEqual DEF l, n
  <2> QED BY <2>2
<1>4. CASE n # l
  <2>1. n <= l - 1
    BY <1>1, <1>4
  <2>2. ASSUME NEW i \in 1 .. n PROVE t[l - 1 - n + i] = y[i]
    <3>1. l - 1 - n + i \in 1 .. l - 1 /\ (l - 1 - n + i) + 1 = l - n + i
      BY <1>1, <2>1
    <3> QED BY <1>1, <1>2, <3>1
  <2> QED BY <1>2, <2>1, <2>2 DEF EndsWith, n, t
<1> QED BY <1>3, <1>4

(* The ring holds any record, whatever its number, and a flag before it.   *)
FitsTheStream ==
  \A event \in Events : \A number \in {<<>>} \cup {<<n>> : n \in Octet} :
    Len(Encode(Closed(<<event.eid>> \o number \o event.args))) < N

(* A flag ends the stream; nothing is open when it is empty.               *)
Boundary ==
  ~lapped =>
    \/ Rest # <<>> /\ EndsWith(Rest, <<RKH_FLG>>)
    \/ Rest = <<>> /\ state = "COLLECT" /\ ptr = 0

(* The latest record lies ahead, is being collected or has been accepted.  *)
Ahead(n) ==
  \E y \in Seq(Octet) : EndsWith(Rest, y) /\ Len(y) <= N /\ Leads(sent, y, Opening(n), End)

Latest ==
  ~lapped /\ (\A k \in starts : k < Len(sent)) =>
    \/ Ahead(Len(sent))
    \/ Inside(Len(sent)) /\ Len(Rest) <= N
    \/ /\ Rest = <<>> /\ accepted # <<>>
       /\ accepted[Len(accepted)] = sent[Len(sent)]

StartsOK == \E m \in starts : \A k \in starts : m >= k

LInv == Boundary /\ Latest /\ StartsOK

FlagOnly == <<RKH_FLG>> \in Seq(Octet) /\ Len(<<RKH_FLG>>) = 1

(* A flag is a sequence of one byte.                                       *)
LEMMA FlagSeq == FlagOnly
BY FlipOctet DEF FlagOnly

(* At first there is only the opening flag.                                *)
LEMMA InitLatest == Init => LInv
<1> SUFFICES ASSUME Init PROVE LInv
  OBVIOUS
<1>1. Ring!history = <<RKH_FLG>> /\ <<RKH_FLG>> \in Seq(Octet)
  BY RingInit, FlagSeq DEF Init, FlagOnly
<1>2. Rest = (<<>> \o <<RKH_FLG>>) \o <<>>
  BY <1>1 DEF Init, Ring!Init, Rest
<1>3. <<>> \o <<RKH_FLG>> = <<RKH_FLG>> /\ <<RKH_FLG>> \o <<>> = <<RKH_FLG>>
  BY <1>1, ConcatEmptySeq
<1>4. Rest = <<>> \o <<RKH_FLG>> /\ Rest # <<>>
  BY <1>2, <1>3, FlagSeq, EmptySeq DEF FlagOnly
<1>5. Boundary
  <2>1. <<>> \in Seq(Octet)
    OBVIOUS
  <2> QED BY <1>1, <1>4, <2>1, EndsWithItsEnd DEF Boundary
<1>6. Latest
  <2>1. 0 \in starts /\ Len(sent) = 0
    BY DEF Init
  <2> QED BY <2>1 DEF Latest
<1>7. StartsOK
  BY DEF Init, StartsOK
<1> QED BY <1>5, <1>6, <1>7 DEF LInv

(* Every record ends with a flag.                                          *)
LEMMA EncodeEnds ==
  ASSUME NEW r \in Seq(Octet), r # <<>>
  PROVE  \E x \in Seq(Octet) : Encode(r) = x \o <<RKH_FLG>>
<1>1. PICK f : PartialEncodings(f, r) /\ Encode(r) = Append(f[Len(r)], RKH_FLG)
  BY EncodeIsEncoding
<1>2. f[Len(r)] \in Seq(Octet) /\ RKH_FLG \in Octet
  BY <1>1, FlipOctet, LenProperties DEF PartialEncodings
<1> QED BY <1>1, <1>2, AppendIsConcat

(* What ends with y is something and y.                                    *)
LEMMA EndIsSplit ==
  ASSUME NEW z \in Seq(Octet), NEW y \in Seq(Octet), EndsWith(z, y)
  PROVE  \E w \in Seq(Octet) : z = w \o y
<1> DEFINE l == Len(z)
           n == Len(y)
           k == l - n
           w == [i \in 1 .. k |-> z[i]]
<1>1. /\ l \in Nat /\ n \in Nat /\ n <= l /\ \A i \in 1 .. n : z[l - n + i] = y[i]
      /\ \A i \in 1 .. l : z[i] \in Octet
  BY LenProperties, ElementOfSeq DEF EndsWith
<1> HIDE DEF l, n
<1>2. k \in Nat /\ k + n = l
  BY <1>1
<1>3. w \in Seq(Octet) /\ Len(w) = k /\ \A i \in 1 .. k : w[i] = z[i]
  <2>1. \A i \in 1 .. k : z[i] \in Octet
    BY <1>1, <1>2
  <2> HIDE DEF k
  <2> QED BY <1>2, <2>1
<1> HIDE DEF w
<1>4. /\ w \o y \in Seq(Octet) /\ Len(w \o y) = l
      /\ \A i \in 1 .. l : (w \o y)[i] = IF i <= k THEN w[i] ELSE y[i - k]
  <2>1. /\ w \o y \in Seq(Octet) /\ Len(w \o y) = Len(w) + Len(y)
        /\ \A i \in 1 .. Len(w) + Len(y) :
             (w \o y)[i] = IF i <= Len(w) THEN w[i] ELSE y[i - Len(w)]
    BY <1>3, ConcatProperties
  <2>2. Len(w) = k /\ Len(w) + Len(y) = l
    BY <1>2, <1>3 DEF n
  <2> QED BY <2>1, <2>2
<1>5. ASSUME NEW i \in 1 .. l PROVE z[i] = (w \o y)[i]
  <2>1. CASE i <= k
    BY <1>2, <1>3, <1>4, <2>1
  <2>2. CASE ~(i <= k)
    <3>1. i - k \in 1 .. n /\ l - n + (i - k) = i
      BY <1>1, <1>2, <2>2
    <3> QED BY <1>1, <1>4, <2>2, <3>1
  <2> QED BY <2>1, <2>2
<1>6. z = w \o y
  BY <1>4, <1>5, SeqEqual DEF l
<1> QED BY <1>3, <1>6

(* A byte put leaves the last N bytes as they are.                         *)
LEMMA PutEnds ==
  ASSUME TInv, Put, NEW y \in Seq(Octet), EndsWith(Rest, y), Len(y) <= N
  PROVE  EndsWith(Rest', y)
<1>1. CASE trcqty # N
  BY <1>1, PutRest
<1>2. CASE trcqty = N
  <2>1. /\ Ring!history # <<>> /\ pending # <<>>
        /\ \E front \in Seq(Octet), back \in Seq(Octet) :
             /\ Rest = (lent \o <<Head(Ring!history)>>) \o (front \o back)
             /\ Rest' = lent \o (front \o back)
             /\ Len(front) = N - 1 /\ Len(back) = Len(pending)
    BY <1>2, PutRest
  <2>2. PICK front \in Seq(Octet), back \in Seq(Octet) :
             /\ Rest = (lent \o <<Head(Ring!history)>>) \o (front \o back)
             /\ Rest' = lent \o (front \o back)
             /\ Len(front) = N - 1 /\ Len(back) = Len(pending)
    BY <2>1
  <2> DEFINE b == front \o back
             a == lent \o <<Head(Ring!history)>>
             l == Len(y)
             q == Len(pending)
  <2>3. b \in Seq(Octet) /\ Len(b) = N - 1 + q /\ q \in Nat \ {0} /\ N \in Nat /\ l <= N
        /\ l \in Nat
    <3>1. q \in Nat \ {0} /\ N \in Nat \ {0} /\ l \in Nat /\ l <= N
      BY <2>1, EmptySeq, StreamTypes, RingConstants, LenProperties
    <3>2. b \in Seq(Octet) /\ Len(b) = Len(front) + Len(back)
      BY <2>2, ConcatProperties
    <3> QED BY <2>2, <3>1, <3>2
  <2>4. lent \in Seq(Octet) /\ a \in Seq(Octet)
    <3>1. <<Head(Ring!history)>> \in Seq(Octet)
      BY <2>1, StreamTypes, HeadAndTail
    <3> QED BY <3>1, StreamTypes, ConcatProperties
  <2>5. Rest = a \o b /\ Rest' = lent \o b
    BY <2>2
  <2>6. l <= Len(b)
    <3> HIDE DEF b, l, q
    <3> QED BY <2>3
  <2> HIDE DEF a, b
  <2> QED BY <2>3, <2>4, <2>5, <2>6, EndsWithAnyway DEF l
<1> QED BY <1>1, <1>2

(* What neither touches the stream nor the parser.                         *)
LEMMA LInvStays ==
  ASSUME LInv, UNCHANGED <<Rest, sent, starts, parser, analyzer>>, ~lapped' => ~lapped
  PROVE  LInv'
<1>1. \A n : /\ At(n)' = At(n) /\ Opening(n)' = Opening(n) /\ End' = End
             /\ Collected(n)' = Collected(n)
  BY DEF At, Opening, End, Collected, parser
<1>2. \A n : (Inside(n) => Inside(n)') /\ (Ahead(n) => Ahead(n)')
  BY <1>1 DEF Inside, Ahead, parser
<1>3. Boundary'
  BY DEF LInv, Boundary, parser
<1>4. Latest'
  <2>1. PICK n : n = Len(sent)
    OBVIOUS
  <2>2. n = Len(sent')
    BY <2>1
  <2> QED BY <1>2, <2>1, <2>2 DEF LInv, Latest, analyzer
<1>5. StartsOK'
  BY DEF LInv, StartsOK
<1> QED BY <1>3, <1>4, <1>5 DEF LInv

(* The record made last is at the end of the stream, with the flag before  *)
(* it, unless the parser has just seen that one.                           *)
LEMMA RecordLatest ==
  ASSUME FitsTheStream, SInv, LInv, NEW event \in Events, Record(event)
  PROVE  LInv'
<1> DEFINE r == Made(event)
           e == Encode(r)
           flag == <<RKH_FLG>>
<1>0. PICK n : n = Len(sent')
  OBVIOUS
<1>1. /\ Rest' = Rest \o e /\ r \in Seq(Octet) /\ r # <<>> /\ e \in Seq(Octet) /\ e # <<>>
      /\ UNCHANGED <<parser, analyzer, starts, dropped, lapped>>
      /\ Rest \in Seq(Octet)
  BY RecordRest, StreamTypes DEF SInv
<1>2. PICK x \in Seq(Octet) : e = x \o flag
  BY <1>1, EncodeEnds
<1>3. flag \in Seq(Octet) /\ Len(flag) = 1
  BY FlagSeq DEF FlagOnly
<1>4. Len(e) < N /\ Len(e) \in Nat /\ N \in Nat
  <2>1. Number(event) \in {<<>>} \cup {<<k>> : k \in Octet}
    BY DEF Number, SInv, TInv, RecorderOK
  <2> QED BY <1>1, <2>1, LenProperties, RingConstants DEF FitsTheStream, Made
<1>5. /\ Leads(sent', e, Spot(n, 1, FALSE), End')
      /\ n = Len(sent) + 1 /\ n \in 1 .. Len(sent') /\ sent' \in Seq(Seq(Octet))
  <2>1. Leads(sent', e, Spot(n, 1, FALSE), End') /\ n = Len(sent) + 1 /\ sent' \in Seq(Seq(Octet))
    BY <1>0, RecordLeads
  <2>2. Len(sent) \in Nat
    BY LenProperties DEF SInv, TInv, RecorderOK
  <2>3. \A l \in Nat : l + 1 \in 1 .. l + 1
    OBVIOUS
  <2>4. n \in 1 .. Len(sent')
    BY <1>0, <2>1, <2>2, <2>3, Zenon
  <2> QED BY <2>1, <2>4
<1>6. StartsOK'
  BY <1>1 DEF LInv, StartsOK
<1> HIDE DEF e, flag
<1>7. ASSUME ~lapped' PROVE Rest' # <<>> /\ EndsWith(Rest', flag)
  <2>1. (Rest \o x) \o flag = Rest \o (x \o flag)
    <3>1. Rest \in Seq(Octet) /\ x \in Seq(Octet) /\ flag \in Seq(Octet)
      BY <1>1, <1>3
    <3> QED BY <3>1, Regroup, Zenon
  <2>2. Rest \o x \in Seq(Octet)
    BY <1>1, <1>2, ConcatProperties
  <2>3. Rest' = (Rest \o x) \o flag
    BY <1>1, <1>2, <2>1
  <2>4. EndsWith(Rest', flag)
    BY <1>3, <2>2, <2>3, EndsWithItsEnd
  <2>5. Rest' # <<>>
    BY <1>1, ConcatEqualIffEmpty
  <2> QED BY <2>4, <2>5
<1>8. Boundary'
  BY <1>7 DEF Boundary, flag
<1>9. ASSUME ~lapped' PROVE Ahead(n)' \/ (Inside(n)' /\ Len(Rest') <= N)
  <2>1. CASE EndsWith(Rest, flag)
    <3> DEFINE y == flag \o e
    <3>1. y \in Seq(Octet) /\ Len(y) = 1 + Len(e)
      <4>1. y \in Seq(Octet) /\ Len(y) = Len(flag) + Len(e)
        BY <1>1, <1>3, ConcatProperties, Zenon
      <4> QED BY <1>3, <4>1
    <3>2. Leads(sent', flag, Opening(n)', Spot(n, 1, FALSE))
      BY LeadsOpening DEF Opening, flag
    <3>3. Leads(sent', y, Opening(n)', End')
      BY <1>1, <1>3, <1>5, <3>2, LeadsFurther
    <3>4. EndsWith(Rest', y)
      <4>1. PICK w \in Seq(Octet) : Rest = w \o flag
        BY <1>1, <1>3, <2>1, EndIsSplit
      <4>2. (w \o flag) \o e = w \o (flag \o e)
        <5>1. w \in Seq(Octet) /\ flag \in Seq(Octet) /\ e \in Seq(Octet)
          BY <1>1, <1>3
        <5> QED BY <5>1, Regroup, Zenon
      <4> HIDE DEF y
      <4> QED BY <1>1, <3>1, <4>1, <4>2, EndsWithItsEnd DEF y
    <3> HIDE DEF y
    <3>5. Len(y) <= N
      BY <1>4, <3>1
    <3> QED BY <3>1, <3>3, <3>4, <3>5 DEF Ahead
  <2>2. CASE Rest = <<>> /\ state = "COLLECT" /\ ptr = 0
    <3>1. Rest' = e
      BY <1>1, <2>2, ConcatEmptySeq
    <3>2. At(n)' = Spot(n, 1, FALSE) /\ state' # "WFLAG" /\ Collected(n)'
      <4>1. 0 + 1 = 1 /\ (state' = "ESCAPING") = FALSE /\ ptr' = 0 /\ state' = "COLLECT"
        BY <1>1, <2>2 DEF parser
      <4> QED BY <4>1 DEF At, Collected
    <3>3. Len(Rest') <= N
      BY <1>4, <3>1
    <3> QED BY <1>5, <3>1, <3>2, <3>3 DEF Inside
  <2>3. ~lapped
    BY <1>1, <1>9
  <2> QED BY <2>1, <2>2, <2>3 DEF LInv, Boundary, flag
<1>10. Latest'
  BY <1>0, <1>9 DEF Latest
<1> QED BY <1>6, <1>8, <1>10 DEF LInv

(* It stays there while bytes are put: the ring does not drop its last N   *)
(* bytes.                                                                  *)
LEMMA PutLatest ==
  ASSUME SInv, LInv, Put
  PROVE  LInv'
<1>1. UNCHANGED <<sent, starts, parser, analyzer>> /\ (~lapped' => ~lapped) /\ pending # <<>>
  BY DEF Put
<1>2. CASE trcqty # N
  BY <1>1, <1>2, LInvStays, PutRest DEF SInv
<1>3. CASE trcqty = N
  <2> DEFINE q == Len(pending)
             flag == <<RKH_FLG>>
  <2>1. Rest # <<>> /\ ~(Len(Rest) <= N)
    <3>1. q \in Nat \ {0} /\ nbytes \in Nat /\ N \in Nat /\ Len(Rest) = nbytes + N + q
      BY <1>1, <1>3, StreamTypes, EmptySeq, RingConstants DEF SInv
    <3> HIDE DEF q
    <3>2. ~(Len(Rest) <= N) /\ Len(Rest) # 0
      BY <3>1
    <3>3. Len(<<>>) = 0
      BY EmptySeq
    <3> QED BY <3>2, <3>3
  <2>2. flag \in Seq(Octet) /\ Len(flag) = 1 /\ 1 <= N
    BY FlagSeq, RingConstants DEF FlagOnly
  <2>3. ASSUME ~lapped' PROVE Rest' # <<>> /\ EndsWith(Rest', flag)
    <3>1. EndsWith(Rest, flag)
      BY <1>1, <2>1, <2>3 DEF LInv, Boundary
    <3>2. EndsWith(Rest', flag)
      BY <2>2, <3>1, PutEnds DEF SInv
    <3>3. Len(<<>>) = 0 /\ ~(1 <= 0)
      BY EmptySeq
    <3> HIDE DEF flag
    <3> QED BY <2>2, <3>2, <3>3 DEF EndsWith
  <2>4. ASSUME NEW n, Ahead(n) PROVE Ahead(n)'
    <3>1. PICK y \in Seq(Octet) :
            EndsWith(Rest, y) /\ Len(y) <= N /\ Leads(sent, y, Opening(n), End)
      BY <2>4 DEF Ahead
    <3>2. EndsWith(Rest', y)
      BY <3>1, PutEnds DEF SInv
    <3>3. Leads(sent', y, Opening(n)', End')
      BY <1>1, <3>1 DEF Opening, End
    <3> QED BY <3>1, <3>2, <3>3 DEF Ahead
  <2>5. Boundary'
    BY <2>3 DEF Boundary
  <2>6. Latest'
    <3>1. PICK n : n = Len(sent)
      OBVIOUS
    <3>2. n = Len(sent')
      BY <1>1, <3>1
    <3>3. Latest => (~lapped' /\ (\A k \in starts' : k < n) => Ahead(n))
      BY <1>1, <2>1, <3>1 DEF Latest
    <3> QED BY <2>4, <3>2, <3>3 DEF LInv, Latest
  <2>7. StartsOK'
    BY <1>1 DEF LInv, StartsOK
  <2> QED BY <2>5, <2>6, <2>7 DEF LInv
<1> QED BY <1>2, <1>3

(* Reading on, the parser meets the flag before it, collects it and        *)
(* accepts it.                                                             *)
LEMMA DeliverLatest ==
  ASSUME SInv, LInv, Deliver
  PROVE  LInv'
<1> DEFINE flag == <<RKH_FLG>>
<1>1. /\ Rest # <<>> /\ Rest \in Seq(Octet) /\ Rest' = Tail(Rest) /\ UNCHANGED recorder
      /\ Len(Rest) \in Nat \ {0} /\ Len(Rest') = Len(Rest) - 1 /\ Rest' \in Seq(Octet)
  BY DeliverRest, StreamTypes, HeadTailProperties, EmptySeq DEF SInv
<1>2. /\ sent' = sent /\ starts' = starts /\ lapped' = lapped /\ End' = End
      /\ \A n : Opening(n)' = Opening(n)
  BY <1>1 DEF recorder, End, Opening
<1>3. flag \in Seq(Octet) /\ Len(flag) = 1 /\ flag # <<>> /\ flag[1] = RKH_FLG
  BY FlagSeq, EmptySeq DEF FlagOnly
<1> HIDE DEF flag
<1>4. ASSUME ~lapped
      PROVE  \/ Rest' # <<>> /\ EndsWith(Rest', flag)
             \/ Rest' = <<>> /\ state' = "COLLECT" /\ ptr' = 0
  <2>1. EndsWith(Rest, flag)
    BY <1>1, <1>4 DEF LInv, Boundary, flag
  <2>2. CASE flag = Rest
    <3>1. Rest' = <<>>
      BY <1>1, <1>3, <2>2, EmptySeq
    <3>2. trcstm[blk] = RKH_FLG
      <4>1. trcstm[blk] = Head(Rest) /\ Head(Rest) = Rest[1]
        BY <1>1, <1>4, DeliverIntact DEF SInv
      <4> QED BY <1>3, <2>2, <4>1
    <3>3. state' = "COLLECT" /\ ptr' = 0
      BY <3>2, FlagStep DEF Deliver
    <3> QED BY <3>1, <3>3
  <2>3. CASE EndsWith(Tail(Rest), flag)
    <3>1. Len(<<>>) = 0 /\ ~(1 <= 0)
      BY EmptySeq
    <3> QED BY <1>1, <1>3, <2>3, <3>1 DEF EndsWith
  <2> QED BY <1>1, <1>3, <2>1, <2>2, <2>3, EndsWithOn
<1>5. Boundary'
  BY <1>2, <1>4 DEF Boundary, flag
<1>6. ASSUME ~lapped, NEW n, Ahead(n)
      PROVE  Ahead(n)' \/ (Inside(n)' /\ Len(Rest') <= N)
  <2>1. PICK y \in Seq(Octet) :
            EndsWith(Rest, y) /\ Len(y) <= N /\ Leads(sent, y, Opening(n), End)
    BY <1>6 DEF Ahead
  <2>2. CASE y = Rest
    <3>1. /\ Head(Rest) = ByteAt(sent, Opening(n))
          /\ Leads(sent, Rest', After(sent, Opening(n)), End)
      BY <1>1, <2>1, <2>2, LeadsOn
    <3>2. ByteAt(sent, Opening(n)) = RKH_FLG /\ After(sent, Opening(n)) = Spot(n, 1, FALSE)
      BY DEF Opening, Spot, ByteAt, After
    <3>3. trcstm[blk] = RKH_FLG
      BY <1>6, <3>1, <3>2, DeliverIntact DEF SInv
    <3>4. state' = "COLLECT" /\ ptr' = 0
      BY <3>3, FlagStep DEF Deliver
    <3>5. At(n)' = Spot(n, 1, FALSE) /\ Collected(n)'
      <4>1. 0 + 1 = 1 /\ (state' = "ESCAPING") = FALSE
        BY <3>4
      <4> QED BY <3>4, <4>1 DEF At, Collected
    <3>6. Len(Rest') <= N
      <4>1. Len(Rest) <= N /\ N \in Nat
        BY <2>1, <2>2, RingConstants
      <4> QED BY <1>1, <4>1
    <3> QED BY <1>2, <3>1, <3>2, <3>4, <3>5, <3>6 DEF Inside
  <2>3. CASE EndsWith(Tail(Rest), y)
    BY <1>1, <1>2, <2>1, <2>3 DEF Ahead
  <2> QED BY <1>1, <2>1, <2>2, <2>3, EndsWithOn
<1>7. ASSUME ~lapped, NEW n, n = Len(sent), Inside(n), Len(Rest) <= N
      PROVE  \/ Inside(n)' /\ Len(Rest') <= N
             \/ Rest' = <<>> /\ accepted' # <<>> /\ accepted'[Len(accepted')] = sent[n]
  <2>1. Len(Rest') <= N
    <3>1. N \in Nat
      BY RingConstants
    <3> QED BY <1>1, <1>7, <3>1
  <2>2. CASE /\ Leads(sent, Rest', Spot(n + 1, 1, FALSE), End)
             /\ accepted' = Append(accepted, sent[n])
    <3>1. End = Spot(n + 1, 1, FALSE)
      BY <1>7 DEF End
    <3>2. Rest' = <<>>
      <4> SUFFICES ASSUME Rest' # <<>> PROVE FALSE
        OBVIOUS
      <4>1. Valid(sent, End)
        BY <1>1, <2>2, <3>1, LeadsOn
      <4>2. Len(sent) \in Nat
        BY LenProperties DEF SInv, TInv, RecorderOK
      <4>3. End.rec = Len(sent) + 1 /\ End.pos = 1
        BY DEF End, Spot
      <4>4. End.rec \in 1 .. Len(sent)
        BY <4>1, <4>3 DEF Valid
      <4> QED BY <4>2, <4>3, <4>4
    <3>3. accepted' # <<>> /\ accepted'[Len(accepted')] = sent[n]
      <4>1. accepted \in Seq(Seq(Octet)) /\ sent[n] \in Seq(Octet)
        <5>1. n \in 1 .. Len(sent)
          BY <1>7, DeliverInside
        <5> QED BY <5>1, ElementOfSeq DEF SInv, TInv, ParserOK, RecorderOK
      <4> QED BY <2>2, <4>1, AppendProperties
    <3> QED BY <3>2, <3>3
  <2> QED BY <1>7, <2>1, <2>2, DeliverInside
<1>8. Latest'
  <2>1. PICK n : n = Len(sent)
    OBVIOUS
  <2>2. n = Len(sent')
    BY <1>2, <2>1
  <2>3. Latest => (~lapped /\ (\A k \in starts : k < n) =>
                     \/ Ahead(n)
                     \/ Inside(n) /\ Len(Rest) <= N)
    BY <1>1, <2>1 DEF Latest
  <2> QED BY <1>2, <1>6, <1>7, <2>1, <2>2, <2>3 DEF LInv, Latest
<1>9. StartsOK'
  BY <1>2 DEF LInv, StartsOK
<1> QED BY <1>5, <1>8, <1>9 DEF LInv

(* A start leaves an opening flag, and no record of the new run.           *)
LEMMA RestartLatest ==
  ASSUME SInv, LInv, Restart
  PROVE  LInv'
<1>1. Rest' = <<RKH_FLG>> /\ UNCHANGED <<sent, lapped, parser, analyzer>>
      /\ starts' = starts \cup {Len(sent)}
  BY RestartRest DEF SInv, Restart
<1>2. Boundary'
  <2>1. <<RKH_FLG>> \in Seq(Octet) /\ <<>> \in Seq(Octet) /\ <<RKH_FLG>> # <<>>
    BY FlagSeq, EmptySeq DEF FlagOnly
  <2>2. <<>> \o <<RKH_FLG>> = <<RKH_FLG>>
    BY <2>1, ConcatEmptySeq
  <2>3. EndsWith(<<>> \o <<RKH_FLG>>, <<RKH_FLG>>)
    BY <2>1, EndsWithItsEnd
  <2> QED BY <1>1, <2>1, <2>2, <2>3 DEF Boundary
<1>3. Len(sent) \in Nat /\ starts \subseteq 0 .. Len(sent)
  BY LenProperties DEF SInv, TInv, RecorderOK
<1>4. Latest'
  <2>1. Len(sent) \in starts' /\ sent' = sent /\ ~(Len(sent) < Len(sent))
    BY <1>1, <1>3
  <2> QED BY <2>1 DEF Latest
<1>5. StartsOK'
  <2>1. Len(sent) \in starts' /\ \A k \in starts' : Len(sent) >= k
    BY <1>1, <1>3
  <2> QED BY <2>1 DEF StartsOK
<1> QED BY <1>2, <1>4, <1>5 DEF LInv

(* This is so after every step.                                            *)
LEMMA LatestStep ==
  ASSUME FitsTheStream, SInv, LInv, [Next]_vars
  PROVE  LInv'
<1>1. ASSUME NEW event \in Events, Record(event) PROVE LInv'
  BY <1>1, RecordLatest
<1>2. CASE TakeBlock
  BY <1>2, TakeRest, LInvStays DEF TakeBlock, SInv, recorder
<1>3. CASE UNCHANGED vars
  <2>1. UNCHANGED Rest
    BY <1>3 DEF vars, ringvars, recorder, Rest, Ring!history, Ring!Cell
  <2> QED BY <1>3, <2>1, LInvStays DEF vars, recorder
<1> QED BY <1>1, <1>2, <1>3, PutLatest, DeliverLatest, RestartLatest DEF Next

(* Once everything has been read, the latest record has been accepted.     *)
LEMMA LatestIsUnderstood ==
  ASSUME SInv, LInv
  PROVE  LatestUnderstood
<1> SUFFICES ASSUME Drained, ~lapped, Len(sent) > Max(starts)
             PROVE  accepted # <<>> /\ Last(accepted) = Last(sent)
  BY DEF LatestUnderstood
<1>1. Rest = <<>>
  BY DrainedIsEmpty DEF SInv
<1>2. Len(sent) \in Nat /\ starts \subseteq 0 .. Len(sent)
  BY LenProperties DEF SInv, TInv, RecorderOK
<1>3. \A k \in starts : Max(starts) >= k
  <2>1. \E m \in starts : \A k \in starts : m >= k
    BY DEF LInv, StartsOK
  <2> QED BY <2>1 DEF Max
<1>4. \A k \in starts : k < Len(sent)
  <2>1. Max(starts) \in starts
    <3>1. \E m \in starts : \A k \in starts : m >= k
      BY DEF LInv, StartsOK
    <3> QED BY <3>1 DEF Max
  <2> DEFINE m == Max(starts)
             l == Len(sent)
  <2>2. l \in Nat /\ m \in 0 .. l /\ l > m /\ \A k \in starts : m >= k /\ k \in 0 .. l
    BY <1>2, <1>3, <2>1
  <2> HIDE DEF m, l
  <2>3. \A k \in starts : k < l
    BY <2>2
  <2> QED BY <2>3 DEF l
<1>5. PICK n : n = Len(sent)
  OBVIOUS
<1>6. ~Inside(n)
  <2>1. n # Len(sent) + 1
    BY <1>2, <1>5
  <2> QED BY <1>1, <2>1, EmptyRest
<1>7. ~Ahead(n)
  <2> SUFFICES ASSUME Ahead(n) PROVE FALSE
    OBVIOUS
  <2>1. PICK y \in Seq(Octet) : EndsWith(Rest, y) /\ Leads(sent, y, Opening(n), End)
    BY DEF Ahead
  <2>2. y = <<>>
    <3>1. Len(y) <= 0 /\ Len(y) \in Nat
      BY <1>1, <2>1, EmptySeq, LenProperties DEF EndsWith
    <3> QED BY <3>1, EmptySeq
  <2>3. Opening(n) = End
    BY <2>1, <2>2, LeadsNowhere
  <2> QED BY <2>3 DEF Opening, End, Spot
<1>8. accepted # <<>> /\ accepted[Len(accepted)] = sent[n]
  BY <1>4, <1>5, <1>6, <1>7 DEF LInv, Latest
<1> QED BY <1>5, <1>8 DEF Last

(* Wherever bytes were lost or a start cut a record off before, the latest *)
(* record of a run is understood, provided the ring holds any record and a *)
(* flag: the one that ends what comes before it must not be overwritten.   *)
THEOREM Resynchronization ==
  ASSUME ShortRecords, FitsTheStream
  PROVE  Spec => []LatestUnderstood
<1>1. Init => SInv /\ LInv
  BY InitSInv, InitLatest
<1>2. SInv /\ LInv /\ [Next]_vars => (SInv /\ LInv)'
  BY SInvStep, LatestStep
<1>3. SInv /\ LInv => LatestUnderstood
  BY LatestIsUnderstood
<1> QED BY <1>1, <1>2, <1>3, PTL DEF Spec
-----------------------------------------------------------------------------
(* The gaps.  Which records the bytes are of that have been put and not    *)
(* read.                                                                   *)

(* The cells of the block and, behind it, of the ring, oldest first.       *)
Queued == nbytes + trcqty
Queue(k) == IF k <= nbytes THEN blk + (k - 1) ELSE Ring!Wrap(trcout + (k - nbytes - 1))

(* They are cells of the ring.                                             *)
LEMMA QueueTypes ==
  ASSUME RingInv
  PROVE  Queued \in Nat /\ \A k \in 1 .. Queued : Queue(k) \in Ring!Index
<1>1. /\ N \in Nat \ {0} /\ trcqty \in 0 .. N /\ trcout \in 0 .. N - 1
      /\ blk \in 0 .. N /\ nbytes \in 0 .. N /\ blk + nbytes <= N
  BY RingConstants DEF RingInv, Ring!TypeOK, Ring!Index, Ring!BlockInArray
<1> QED BY <1>1 DEF Queued, Queue, Ring!Wrap, Ring!Index

(* A byte put is the last one, in a full ring instead of the first behind  *)
(* the block.                                                              *)
Kept(k) == IF trcqty = N /\ k > nbytes THEN k + 1 ELSE k

LEMMA QueuePut ==
  ASSUME RingInv, NEW b, Ring!rkh_trc_put(b), ~(trcin \in blk .. blk + nbytes - 1)
  PROVE  /\ Queued' \in Nat \ {0} /\ Queue(Queued)' = trcin /\ trcin \in Ring!Index
         /\ \A k \in 1 .. Queued' - 1 :
              /\ Kept(k) \in 1 .. Queued /\ Queue(k)' = Queue(Kept(k))
              /\ Queue(Kept(k)) # trcin /\ Queue(Kept(k)) \in Ring!Index
              /\ (k = 1 => Kept(k) = 1 \/ nbytes = 0)
         /\ trcstm' = [trcstm EXCEPT ![trcin] = b] /\ trcstm \in [Ring!Index -> Octet]
         /\ nbytes' = nbytes
<1>1. /\ N \in Nat \ {0} /\ trcqty \in 0 .. N /\ trcout \in 0 .. N - 1 /\ trcin \in 0 .. N - 1
      /\ blk \in 0 .. N /\ nbytes \in 0 .. N /\ blk + nbytes <= N
      /\ trcin = Ring!Wrap(trcout + trcqty)
      /\ trcstm \in [Ring!Index -> Octet]
  BY RingConstants DEF RingInv, Ring!TypeOK, Ring!Index, Ring!BlockInArray, Ring!RingShape
<1>2. blk' = blk /\ nbytes' = nbytes /\ trcstm' = [trcstm EXCEPT ![trcin] = b]
  BY DEF Ring!rkh_trc_put, Ring!flusher
<1>3. CASE trcqty = N
  <2>1. trcqty' = N /\ trcin = trcout /\ trcout' = Ring!Wrap(trcout + 1)
    BY <1>1, <1>3 DEF Ring!rkh_trc_put, Ring!Wrap
  <2>2. Queued' = nbytes + N /\ Queued = nbytes + N
    BY <1>2, <1>3, <2>1 DEF Queued
  <2>3. Queue(Queued)' = trcin
    BY <1>1, <1>2, <2>1, <2>2 DEF Queue, Ring!Wrap
  <2>4. ASSUME NEW k \in 1 .. nbytes + N - 1
        PROVE  /\ Kept(k) \in 1 .. Queued /\ Queue(k)' = Queue(Kept(k))
               /\ Queue(Kept(k)) # trcin /\ Queue(Kept(k)) \in Ring!Index
               /\ (k = 1 => Kept(k) = 1 \/ nbytes = 0)
    <3>1. CASE k <= nbytes
      BY <1>1, <1>2, <2>2, <3>1 DEF Kept, Queue, Ring!Index
    <3>2. CASE k > nbytes
      <4>1. Kept(k) = k + 1 /\ Kept(k) \in 1 .. Queued
        BY <1>1, <1>3, <2>2, <3>2 DEF Kept
      <4>2. /\ Queue(k)' = Ring!Wrap(trcout' + (k - nbytes - 1))
            /\ Queue(k + 1) = Ring!Wrap(trcout + (k + 1 - nbytes - 1))
        BY <1>1, <1>2, <3>2 DEF Queue, Ring!Wrap
      <4>3. /\ Ring!Wrap(Ring!Wrap(trcout + 1) + (k - nbytes - 1))
                 = Ring!Wrap(trcout + (k + 1 - nbytes - 1))
            /\ Ring!Wrap(trcout + (k + 1 - nbytes - 1)) # trcout
            /\ Ring!Wrap(trcout + (k + 1 - nbytes - 1)) \in Ring!Index
        BY <1>1, <3>2 DEF Ring!Wrap, Ring!Index
      <4> QED BY <1>1, <2>1, <3>2, <4>1, <4>2, <4>3
    <3> QED BY <1>1, <3>1, <3>2
  <2> QED BY <1>1, <1>2, <2>2, <2>3, <2>4 DEF Ring!Index
<1>4. CASE trcqty # N
  <2>1. trcqty' = trcqty + 1 /\ trcout' = trcout
    BY <1>1, <1>4 DEF Ring!rkh_trc_put, Ring!Wrap
  <2>2. Queued' = nbytes + trcqty + 1 /\ Queued = nbytes + trcqty
    BY <1>1, <1>2, <2>1 DEF Queued
  <2>3. Queue(Queued)' = trcin
    BY <1>1, <1>2, <2>1, <2>2 DEF Queue, Ring!Wrap
  <2>4. ASSUME NEW k \in 1 .. nbytes + trcqty
        PROVE  /\ Kept(k) \in 1 .. Queued /\ Queue(k)' = Queue(Kept(k))
               /\ Queue(Kept(k)) # trcin /\ Queue(Kept(k)) \in Ring!Index
               /\ (k = 1 => Kept(k) = 1 \/ nbytes = 0)
    <3>1. Kept(k) = k /\ k \in 1 .. Queued
      BY <1>4, <2>2 DEF Kept
    <3>2. Queue(k)' = Queue(k)
      BY <1>2, <2>1 DEF Queue, Ring!Wrap
    <3>3. Queue(k) # trcin
      BY <1>1, <1>4 DEF Queue, Ring!Wrap
    <3> QED BY <3>1, <3>2, <3>3, QueueTypes
  <2> QED BY <1>1, <1>2, <2>2, <2>3, <2>4 DEF Ring!Index
<1> QED BY <1>3, <1>4

(* A block is the first of them.                                           *)
LEMMA QueueTake ==
  ASSUME RingInv, NEW nget \in Requests, Ring!rkh_trc_get_block(nget)
  PROVE  /\ Queued' = Queued /\ trcstm' = trcstm
         /\ \A k \in 1 .. Queued : Queue(k)' = Queue(k)
<1> DEFINE n == Ring!BlockSize(nget)
<1>1. n \in 0 .. trcqty /\ n <= N - trcout /\ trcqty \in 0 .. N /\ trcout \in 0 .. N - 1
      /\ N \in Nat
  BY RingConstants DEF RingInv, Ring!TypeOK, Ring!BlockSize, Ring!Least, Ring!Index,
                       Ring!rkh_trc_get_block
<1>2. nbytes = 0 /\ Ring!HandOut(n)
  BY DEF Ring!rkh_trc_get_block
<1> HIDE DEF n
<1>3. /\ blk' = trcout /\ nbytes' = n /\ trcout' = Ring!Wrap(trcout + n) /\ trcqty' = trcqty - n
      /\ trcstm' = trcstm
  BY <1>2 DEF Ring!HandOut
<1>4. Queued' = Queued
  BY <1>1, <1>2, <1>3 DEF Queued
<1>5. ASSUME NEW k \in 1 .. Queued PROVE Queue(k)' = Queue(k)
  <2>1. k \in 1 .. trcqty /\ Queue(k) = Ring!Wrap(trcout + (k - 1))
    BY <1>1, <1>2 DEF Queued, Queue
  <2>2. CASE k <= n
    BY <1>1, <1>3, <2>1, <2>2 DEF Queue, Ring!Wrap
  <2>3. CASE ~(k <= n)
    <3>1. Queue(k)' = Ring!Wrap(Ring!Wrap(trcout + n) + (k - n - 1))
      BY <1>3, <2>3 DEF Queue, Ring!Wrap
    <3> QED BY <1>1, <2>1, <2>3, <3>1 DEF Ring!Wrap
  <2> QED BY <2>2, <2>3
<1> QED BY <1>3, <1>4, <1>5

(* The first of them is read.                                              *)
LEMMA QueueFlush ==
  ASSUME RingInv, Ring!FlushByte
  PROVE  /\ Queued \in Nat \ {0} /\ Queued' = Queued - 1 /\ Queue(1) = blk /\ trcstm' = trcstm
         /\ \A k \in 1 .. Queued' : Queue(k)' = Queue(k + 1)
<1>1. /\ nbytes \in Nat \ {0} /\ trcqty \in Nat /\ blk \in Nat /\ trcout \in Nat /\ N \in Nat
      /\ blk' = blk + 1 /\ nbytes' = nbytes - 1
      /\ trcstm' = trcstm /\ trcout' = trcout /\ trcqty' = trcqty
  BY RingConstants DEF RingInv, Ring!TypeOK, Ring!FlushByte, Ring!ring, Ring!Index
<1>2. Queued \in Nat \ {0} /\ Queued' = Queued - 1 /\ Queue(1) = blk
  BY <1>1 DEF Queued, Queue
<1>3. ASSUME NEW k \in 1 .. Queued' PROVE Queue(k)' = Queue(k + 1)
  <2>1. k - (nbytes - 1) - 1 = (k + 1) - nbytes - 1 /\ (k <= nbytes - 1 <=> k + 1 <= nbytes)
        /\ (blk + 1) + (k - 1) = blk + ((k + 1) - 1)
    BY <1>1, <1>2
  <2> QED BY <1>1, <2>1 DEF Queue, Ring!Wrap
<1> QED BY <1>1, <1>2, <1>3

(* The record the k-th of these bytes is of, and whether it is a flag.     *)
Of(k) == maker[Queue(k)]
IsFlag(k) == trcstm[Queue(k)] = RKH_FLG

(* The bytes are in the order of the records, each of which ends with the  *)
(* only flag it has; ...                                                   *)
Sorted ==
  \A k \in 1 .. Queued : \A j \in 1 .. k - 1 : Of(j) <= Of(k) /\ (IsFlag(j) => Of(j) < Of(k))

(* ... those of the frame being collected come before them, ...            *)
PartsBefore == \A k \in 1 .. Queued : \A x \in parts : x <= Of(k)

(* ... and those of the frames accepted before both: a new stream opens    *)
(* with a flag of its own, but ends no frame with it.                      *)
FramesBefore ==
  \A i \in DOMAIN origins : \A x \in origins[i] :
    /\ \A y \in parts : x < y
    /\ \A k \in 1 .. Queued : x < Of(k) \/ (x = Of(k) /\ k = 1 /\ parts = {} /\ IsFlag(k))

FramesInOrder ==
  \A j \in DOMAIN origins : \A i \in 1 .. j - 1 : \A x \in origins[i], y \in origins[j] : x < y

(* Of the record being put no flag was put.                                *)
FlagToCome ==
  pending # <<>> =>
    /\ \A i \in DOMAIN origins : Len(sent) \notin origins[i]
    /\ \A k \in 1 .. Queued : IsFlag(k) => Of(k) # Len(sent)

Ordered == ~lapped => Sorted /\ PartsBefore /\ FramesBefore /\ FramesInOrder /\ FlagToCome

(* A record is put up to its flag, and a frame that has bytes has records. *)
OneFlag == \A i \in 1 .. Len(pending) - 1 : pending[i] # RKH_FLG
HasParts == ptr > 0 => parts # {}

OInv == GhostsOK /\ Ordered /\ OneFlag /\ HasParts

(* The records noted are records made.                                     *)
LEMMA OfTypes ==
  ASSUME TInv, GhostsOK
  PROVE  /\ \A k \in 1 .. Queued : Of(k) \in 0 .. Len(sent)
         /\ Len(sent) \in Nat /\ Queued \in Nat
         /\ \A i \in DOMAIN origins : origins[i] \subseteq 0 .. Len(sent)
<1>1. Len(sent) \in Nat
  BY LenProperties DEF TInv, RecorderOK
<1>2. Queued \in Nat /\ \A k \in 1 .. Queued : Queue(k) \in Ring!Index
  BY QueueTypes DEF TInv
<1> QED BY <1>1, <1>2 DEF GhostsOK, Of

(* What is encoded of a record has no flag in it.                          *)
LEMMA EncodeOneFlag ==
  ASSUME NEW r \in Seq(Octet), r # <<>>
  PROVE  \A i \in 1 .. Len(Encode(r)) - 1 : Encode(r)[i] # RKH_FLG
<1>1. PICK f : PartialEncodings(f, r) /\ Encode(r) = Append(f[Len(r)], RKH_FLG)
  BY EncodeIsEncoding
<1> DEFINE n == Len(r)
           Flagless(s) == \A i \in 1 .. Len(s) : s[i] # RKH_FLG
           S == {m \in Nat : m <= n => Flagless(f[m])}
<1>2. n \in Nat /\ \A i \in 1 .. n : r[i] \in Octet
  BY LenProperties, ElementOfSeq
<1>3. f[0] = <<>> /\ \A i \in 0 .. n : f[i] \in Seq(Octet)
  BY <1>1 DEF PartialEncodings
<1>4. \A i \in 1 .. n : f[i] = f[i - 1] \o rkh_trc_u8(r[i])
  BY <1>1 DEF PartialEncodings
<1> HIDE DEF n
<1>5. \A d \in Octet : rkh_trc_u8(d) \in Seq(Octet) /\ Flagless(rkh_trc_u8(d))
  <2> SUFFICES ASSUME NEW d \in Octet
               PROVE  rkh_trc_u8(d) \in Seq(Octet) /\ Flagless(rkh_trc_u8(d))
    OBVIOUS
  <2>1. rkh_trc_u8(d) \in Seq(Octet)
    BY StuffType
  <2>2. CASE d \in {RKH_FLG, RKH_ESC}
    <3>1. rkh_trc_u8(d) = <<RKH_ESC, Flip(d)>> /\ RKH_ESC # RKH_FLG /\ Flip(d) # RKH_FLG
      BY <2>2 DEF rkh_trc_u8, RKH_ESC, RKH_FLG, Flip
    <3> QED BY <2>1, <3>1
  <2>3. CASE d \notin {RKH_FLG, RKH_ESC}
    <3>1. rkh_trc_u8(d) = <<d>>
      BY <2>3 DEF rkh_trc_u8
    <3> QED BY <2>1, <2>3, <3>1
  <2> QED BY <2>2, <2>3
<1>6. 0 \in S
  BY <1>3, EmptySeq
<1>7. ASSUME NEW m \in Nat, m \in S PROVE m + 1 \in S
  <2> SUFFICES ASSUME m + 1 <= n PROVE Flagless(f[m + 1])
    OBVIOUS
  <2>1. m \in 0 .. n /\ m + 1 \in 1 .. n /\ (m + 1) - 1 = m /\ m <= n
    BY <1>2
  <2>2. PICK u : u = rkh_trc_u8(r[m + 1])
    OBVIOUS
  <2>3. PICK g : g = f[m]
    OBVIOUS
  <2>4. u \in Seq(Octet) /\ Flagless(u) /\ g \in Seq(Octet) /\ Flagless(g) /\ f[m + 1] = g \o u
    BY <1>2, <1>3, <1>4, <1>5, <1>7, <2>1, <2>2, <2>3
  <2>5. Flagless(g \o u)
    <3> SUFFICES ASSUME NEW i \in 1 .. Len(g \o u) PROVE (g \o u)[i] # RKH_FLG
      OBVIOUS
    <3>1. /\ Len(g) \in Nat /\ Len(u) \in Nat /\ Len(g \o u) = Len(g) + Len(u)
          /\ (g \o u)[i] = IF i <= Len(g) THEN g[i] ELSE u[i - Len(g)]
      BY <2>4, ConcatProperties, LenProperties
    <3>2. CASE i <= Len(g)
      BY <2>4, <3>1, <3>2
    <3>3. CASE ~(i <= Len(g))
      <4>1. i - Len(g) \in 1 .. Len(u)
        BY <3>1, <3>3
      <4> QED BY <2>4, <3>1, <3>3, <4>1
    <3> QED BY <3>2, <3>3
  <2> QED BY <2>4, <2>5
<1>8. n \in S
  <2> HIDE DEF S
  <2> QED BY <1>2, <1>6, <1>7, NatSet
<1>9. f[n] \in Seq(Octet) /\ Flagless(f[n])
  BY <1>2, <1>3, <1>8
<1>10. PICK g : g = f[n]
  OBVIOUS
<1>11. Encode(r) = Append(g, RKH_FLG)
  BY <1>1, <1>10 DEF n
<1>12. /\ Len(Append(g, RKH_FLG)) = Len(g) + 1 /\ Len(g) \in Nat
       /\ \A i \in 1 .. Len(g) : Append(g, RKH_FLG)[i] = g[i]
  BY <1>9, <1>10, FlipOctet, AppendProperties, LenProperties
<1> QED BY <1>9, <1>10, <1>11, <1>12

(* The order holds at first: the stream is an opening flag.                *)
LEMMA InitOInv == Init => OInv
<1> SUFFICES ASSUME Init PROVE OInv
  OBVIOUS
<1>1. GhostsOK
  BY InitGhosts
<1>2. Queued = 1 /\ parts = {} /\ DOMAIN origins = {} /\ pending = <<>> /\ ptr = 0
  BY EmptySeq DEF Init, Ring!Init, Queued
<1>3. Ordered
  BY <1>2 DEF Ordered, Sorted, PartsBefore, FramesBefore, FramesInOrder, FlagToCome
<1>4. OneFlag /\ HasParts
  BY <1>2, EmptySeq DEF OneFlag, HasParts
<1> QED BY <1>1, <1>3, <1>4 DEF OInv

(* A record to be put is a new one.                                        *)
LEMMA RecordOrdered ==
  ASSUME TInv, OInv, NEW event \in Events, Record(event)
  PROVE  Ordered' /\ OneFlag' /\ HasParts'
<1> DEFINE l == Len(sent)
<1>1. /\ Len(sent') = l + 1 /\ l \in Nat /\ pending' = Encode(Made(event))
      /\ UNCHANGED <<ringvars, parser, analyzer, ghosts, lapped>>
  <2>1. sent' = Append(sent, Made(event)) /\ Made(event) \in Seq(Octet)
    BY RecordRest
  <2>2. sent \in Seq(Seq(Octet))
    BY DEF TInv, RecorderOK
  <2> QED BY <2>1, <2>2, AppendProperties, LenProperties DEF Record, Made, Number
<1>2. OneFlag'
  BY <1>1, EncodeOneFlag, RecordRest DEF OneFlag
<1>3. HasParts'
  BY <1>1 DEF OInv, HasParts, parser, ghosts
<1>4. /\ \A k : Of(k)' = Of(k) /\ IsFlag(k)' = IsFlag(k)
      /\ Queued' = Queued /\ parts' = parts /\ origins' = origins
  BY <1>1 DEF Of, IsFlag, Queue, Queued, ringvars, ghosts, Ring!Wrap
<1>5. /\ \A k \in 1 .. Queued : Of(k) \in 0 .. l
      /\ \A i \in DOMAIN origins : origins[i] \subseteq 0 .. l
  BY OfTypes DEF OInv
<1> HIDE DEF l
<1>6. FlagToCome'
  BY <1>1, <1>4, <1>5 DEF FlagToCome
<1>7. ASSUME ~lapped' PROVE (Sorted /\ PartsBefore /\ FramesBefore /\ FramesInOrder)'
  <2>1. Sorted /\ PartsBefore /\ FramesBefore /\ FramesInOrder
    BY <1>1, <1>7 DEF OInv, Ordered
  <2>2. Sorted'
    BY <1>4, <2>1 DEF Sorted
  <2>3. PartsBefore'
    BY <1>4, <2>1 DEF PartsBefore
  <2>4. FramesBefore'
    BY <1>4, <2>1 DEF FramesBefore
  <2>5. FramesInOrder'
    BY <1>4, <2>1 DEF FramesInOrder
  <2> QED BY <2>2, <2>3, <2>4, <2>5
<1> QED BY <1>2, <1>3, <1>6, <1>7 DEF Ordered

(* A byte put is of the latest record, ...                                 *)
LEMMA PutOf ==
  ASSUME TInv, GhostsOK, Put, ~lapped'
  PROVE  /\ Queued' \in Nat \ {0}
         /\ \A k : k = Queued' => Of(k)' = Len(sent) /\ (IsFlag(k)' <=> Head(pending) = RKH_FLG)
         /\ \A k \in 1 .. Queued' - 1 :
              Kept(k) \in 1 .. Queued /\ Of(k)' = Of(Kept(k)) /\ IsFlag(k)' = IsFlag(Kept(k))
<1>1. Ring!rkh_trc_put(Head(pending)) /\ ~(trcin \in blk .. blk + nbytes - 1) /\ RingInv
  BY DEF Put, TInv
<1>2. maker' = [maker EXCEPT ![trcin] = Len(sent)] /\ maker \in [Ring!Index -> 0 .. Len(sent)]
  BY DEF Put, GhostsOK
<1>3. PICK b : b = Head(pending)
  OBVIOUS
<1>4. /\ Queued' \in Nat \ {0} /\ Queue(Queued)' = trcin /\ trcin \in Ring!Index
      /\ trcstm' = [trcstm EXCEPT ![trcin] = b] /\ trcstm \in [Ring!Index -> Octet]
  BY <1>1, <1>3, QueuePut
<1>5. \A k \in 1 .. Queued' - 1 :
        /\ Kept(k) \in 1 .. Queued /\ Queue(k)' = Queue(Kept(k))
        /\ Queue(Kept(k)) # trcin /\ Queue(Kept(k)) \in Ring!Index
  BY <1>1, <1>3, QueuePut
<1>6. ASSUME NEW k, k = Queued' PROVE Of(k)' = Len(sent) /\ (IsFlag(k)' <=> b = RKH_FLG)
  <2>1. Queue(k)' = trcin
    BY <1>4, <1>6 DEF Queue
  <2> QED BY <1>2, <1>4, <2>1 DEF Of, IsFlag
<1>7. ASSUME NEW k \in 1 .. Queued' - 1
      PROVE  Kept(k) \in 1 .. Queued /\ Of(k)' = Of(Kept(k)) /\ IsFlag(k)' = IsFlag(Kept(k))
  BY <1>2, <1>4, <1>5 DEF Of, IsFlag
<1> QED BY <1>3, <1>4, <1>6, <1>7

(* Counting to q.                                                          *)
LEMMA UpTo ==
  ASSUME NEW q \in Nat \ {0}
  PROVE  \A k \in 1 .. q :
           /\ k = q \/ k \in 1 .. q - 1
           /\ k \in Nat /\ \A j \in 1 .. k - 1 : j \in 1 .. q - 1 /\ j \in Nat /\ j < k
OBVIOUS

(* The bytes kept stay in order.                                           *)
LEMMA KeptOrder ==
  ASSUME TInv, NEW j \in Nat, NEW k \in Nat, j < k
  PROVE  Kept(j) < Kept(k) /\ k <= Kept(k) /\ Kept(k) \in Nat
BY RingConstants DEF Kept, TInv, RingInv, Ring!TypeOK

(* ... which no byte before it follows.                                    *)
LEMMA PutOrdered ==
  ASSUME TInv, OInv, Put
  PROVE  Ordered' /\ OneFlag' /\ HasParts'
<1> DEFINE l == Len(sent)
<1>1. /\ pending # <<>> /\ pending' = Tail(pending) /\ sent' = sent /\ pending \in Seq(Octet)
      /\ UNCHANGED <<parts, origins, ptr>>
  BY DEF Put, TInv, RecorderOK, parser
<1>2. /\ Len(pending) \in Nat \ {0} /\ Tail(pending) \in Seq(Octet)
      /\ Len(Tail(pending)) = Len(pending) - 1 /\ Head(pending) = pending[1]
      /\ \A i \in 1 .. Len(pending) - 1 : Tail(pending)[i] = pending[i + 1]
  BY <1>1, HeadTailProperties, EmptySeq, LenProperties
<1>3. OneFlag'
  <2> SUFFICES ASSUME NEW i \in 1 .. Len(Tail(pending)) - 1 PROVE Tail(pending)[i] # RKH_FLG
    BY <1>1 DEF OneFlag
  <2>1. i + 1 \in 1 .. Len(pending) - 1 /\ i \in 1 .. Len(pending) - 1
    BY <1>2
  <2> QED BY <1>2, <2>1 DEF OInv, OneFlag
<1>4. HasParts'
  BY <1>1 DEF OInv, HasParts
<1>5. Head(pending) = RKH_FLG => pending' = <<>>
  <2>1. Head(pending) = RKH_FLG => ~(1 \in 1 .. Len(pending) - 1)
    BY <1>2 DEF OInv, OneFlag
  <2>2. Head(pending) = RKH_FLG => Len(Tail(pending)) = 0
    BY <1>2, <2>1
  <2> QED BY <1>1, <1>2, <2>2, EmptySeq
<1>6. ASSUME ~lapped' PROVE (Sorted /\ PartsBefore /\ FramesBefore /\ FramesInOrder /\ FlagToCome)'
  <2>1. Sorted /\ PartsBefore /\ FramesBefore /\ FramesInOrder /\ FlagToCome
    BY <1>6 DEF OInv, Ordered, Put
  <2>2. /\ Queued' \in Nat \ {0}
        /\ \A k \in 1 .. Queued' - 1 :
             Kept(k) \in 1 .. Queued /\ Of(k)' = Of(Kept(k)) /\ IsFlag(k)' = IsFlag(Kept(k))
    BY <1>6, PutOf DEF OInv
  <2>3. /\ \A k \in 1 .. Queued : Of(k) \in 0 .. l
        /\ l \in Nat /\ Queued \in Nat /\ parts \subseteq 0 .. l
        /\ \A i \in DOMAIN origins : origins[i] \subseteq 0 .. l
    BY OfTypes DEF OInv, GhostsOK
  <2>4. \A j, k \in Nat : j < k => Kept(j) < Kept(k) /\ k <= Kept(k) /\ Kept(k) \in Nat
    BY KeptOrder
  <2>0. Queued' \in Nat \ {0}
    BY <2>2
  <2>5. \A k \in 1 .. Queued' : k = Queued' \/ k \in 1 .. Queued' - 1
    BY <2>0, UpTo
  <2> HIDE DEF l
  <2>6. \A k : k = Queued' => Of(k)' = l /\ (IsFlag(k)' <=> Head(pending) = RKH_FLG)
    BY <1>6, PutOf DEF OInv, l
  <2>7. \A i \in DOMAIN origins : l \notin origins[i]
    BY <1>1, <2>1 DEF FlagToCome, l
  <2>8. \A k \in 1 .. Queued : IsFlag(k) => Of(k) # l
    BY <1>1, <2>1 DEF FlagToCome, l
  <2>9. Sorted'
    <3> SUFFICES ASSUME NEW k \in 1 .. Queued', NEW j \in 1 .. k - 1
                 PROVE  Of(j)' <= Of(k)' /\ (IsFlag(j)' => Of(j)' < Of(k)')
      BY DEF Sorted
    <3>0. j \in 1 .. Queued' - 1 /\ j \in Nat /\ k \in Nat /\ j < k
      BY <2>0, UpTo
    <3>1. /\ Kept(j) \in 1 .. Queued /\ Of(j)' = Of(Kept(j))
          /\ IsFlag(j)' = IsFlag(Kept(j))
      BY <2>2, <3>0
    <3>2. CASE k = Queued'
      BY <2>3, <2>6, <2>8, <3>1, <3>2
    <3>3. CASE k \in 1 .. Queued' - 1
      <4>1. /\ Kept(k) \in 1 .. Queued /\ Of(k)' = Of(Kept(k))
            /\ Kept(j) \in 1 .. Kept(k) - 1
        <5>1. Kept(j) < Kept(k) /\ Kept(k) \in 1 .. Queued /\ Of(k)' = Of(Kept(k))
          BY <2>2, <2>4, <3>0, <3>3
        <5> QED BY <2>3, <3>1, <5>1
      <4> QED BY <2>1, <3>1, <4>1 DEF Sorted
    <3> QED BY <2>5, <3>2, <3>3
  <2>10. PartsBefore'
    <3> SUFFICES ASSUME NEW k \in 1 .. Queued', NEW x \in parts PROVE x <= Of(k)'
      BY <1>1 DEF PartsBefore
    <3>1. CASE k = Queued'
      BY <2>3, <2>6, <3>1
    <3>2. CASE k \in 1 .. Queued' - 1
      BY <2>1, <2>2, <3>2 DEF PartsBefore
    <3> QED BY <2>5, <3>1, <3>2
  <2>11. FramesBefore'
    <3> SUFFICES ASSUME NEW i \in DOMAIN origins, NEW x \in origins[i]
                 PROVE  /\ \A y \in parts : x < y
                        /\ \A k \in 1 .. Queued' :
                             \/ x < Of(k)'
                             \/ x = Of(k)' /\ k = 1 /\ parts = {} /\ IsFlag(k)'
      BY <1>1 DEF FramesBefore
    <3>1. \A y \in parts : x < y
      BY <2>1 DEF FramesBefore
    <3>2. ASSUME NEW k \in 1 .. Queued'
          PROVE  x < Of(k)' \/ (x = Of(k)' /\ k = 1 /\ parts = {} /\ IsFlag(k)')
      <4>1. CASE k = Queued'
        <5>1. x # l /\ x \in 0 .. l
          BY <2>3, <2>7
        <5> QED BY <2>3, <2>6, <4>1, <5>1
      <4>2. CASE k \in 1 .. Queued' - 1
        <5>1. /\ Kept(k) \in 1 .. Queued /\ Of(k)' = Of(Kept(k)) /\ IsFlag(k)' = IsFlag(Kept(k))
              /\ k <= Kept(k)
          <6>1. k \in Nat /\ k + 1 \in Nat /\ k < k + 1
            BY <4>2
          <6>2. k <= Kept(k)
            BY <2>4, <6>1
          <6> QED BY <2>2, <4>2, <6>2
        <5>2. \/ x < Of(Kept(k))
              \/ x = Of(Kept(k)) /\ Kept(k) = 1 /\ parts = {} /\ IsFlag(Kept(k))
          BY <2>1, <5>1 DEF FramesBefore
        <5>3. Kept(k) = 1 => k = 1
          BY <4>2, <5>1
        <5> QED BY <5>1, <5>2, <5>3
      <4> QED BY <2>5, <4>1, <4>2
    <3> QED BY <3>1, <3>2
  <2>12. FramesInOrder'
    BY <1>1, <2>1 DEF FramesInOrder
  <2>13. FlagToCome'
    <3> SUFFICES ASSUME pending' # <<>>
                 PROVE  /\ \A i \in DOMAIN origins : l \notin origins[i]
                        /\ \A k \in 1 .. Queued' : IsFlag(k)' => Of(k)' # l
      BY <1>1 DEF FlagToCome, l
    <3>1. ASSUME NEW k \in 1 .. Queued', IsFlag(k)' PROVE Of(k)' # l
      BY <1>5, <2>2, <2>5, <2>6, <2>8, <3>1
    <3> QED BY <2>7, <3>1
  <2> QED BY <2>9, <2>10, <2>11, <2>12, <2>13
<1> QED BY <1>3, <1>4, <1>6 DEF Ordered

(* A step that leaves the bytes where they are.                            *)
LEMMA StillOrdered ==
  ASSUME Ordered, \A k \in 1 .. Queued : Of(k)' = Of(k) /\ IsFlag(k)' = IsFlag(k),
         Queued' = Queued, Queued \in Nat,
         UNCHANGED <<parts, origins, pending, sent, lapped>>
  PROVE  Ordered'
<1> SUFFICES ASSUME ~lapped'
             PROVE  (Sorted /\ PartsBefore /\ FramesBefore /\ FramesInOrder /\ FlagToCome)'
  BY DEF Ordered
<1>1. Sorted /\ PartsBefore /\ FramesBefore /\ FramesInOrder /\ FlagToCome
  BY DEF Ordered
<1>2. Sorted'
  <2> SUFFICES ASSUME NEW k \in 1 .. Queued, NEW j \in 1 .. k - 1
               PROVE  Of(j)' <= Of(k)' /\ (IsFlag(j)' => Of(j)' < Of(k)')
    BY DEF Sorted
  <2>1. j \in 1 .. Queued
    OBVIOUS
  <2> QED BY <1>1, <2>1 DEF Sorted
<1>3. PartsBefore'
  BY <1>1 DEF PartsBefore
<1>4. FramesBefore'
  BY <1>1 DEF FramesBefore
<1>5. FramesInOrder'
  BY <1>1 DEF FramesInOrder
<1>6. FlagToCome'
  BY <1>1 DEF FlagToCome
<1> QED BY <1>2, <1>3, <1>4, <1>5, <1>6

(* Handed out, the bytes stay where they are.                              *)
LEMMA TakeBlockOrdered ==
  ASSUME TInv, OInv, TakeBlock
  PROVE  Ordered' /\ OneFlag' /\ HasParts'
<1>1. PICK nget \in Requests : Ring!rkh_trc_get_block(nget)
  BY DEF TakeBlock
<1>2. UNCHANGED <<parts, origins, pending, sent, lapped, maker, ptr>>
  BY DEF TakeBlock, recorder, parser, ghosts
<1>3. Queued' = Queued /\ trcstm' = trcstm /\ \A k \in 1 .. Queued : Queue(k)' = Queue(k)
  BY <1>1, QueueTake DEF TInv
<1>4. \A k \in 1 .. Queued : Of(k)' = Of(k) /\ IsFlag(k)' = IsFlag(k)
  BY <1>2, <1>3 DEF Of, IsFlag
<1>5. Queued \in Nat
  BY QueueTypes DEF TInv
<1>6. Ordered'
  BY <1>2, <1>3, <1>4, <1>5, StillOrdered DEF OInv
<1>7. OneFlag' /\ HasParts'
  BY <1>2 DEF OInv, OneFlag, HasParts
<1> QED BY <1>6, <1>7

(* A restarted stream has its opening flag.                                *)
LEMMA RestartOrdered ==
  ASSUME TInv, OInv, Restart
  PROVE  Ordered' /\ OneFlag' /\ HasParts'
<1> DEFINE l == Len(sent)
<1>1. /\ UNCHANGED <<parts, origins, sent, lapped, ptr>> /\ pending' = <<>>
      /\ maker' = [i \in Ring!Index |-> l] /\ nbytes' = 0 /\ trcout' = 0 /\ trcqty' = 1
      /\ trcstm' = [[i \in Ring!Index |-> 0] EXCEPT ![0] = RKH_FLG]
  BY DEF Restart, parser, Ring!Fresh
<1>2. N \in Nat \ {0} /\ 0 \in Ring!Index
  BY RingConstants DEF Ring!Index
<1>3. Queued' = 1
  BY <1>1 DEF Queued
<1>4. ASSUME NEW k \in 1 .. Queued' PROVE k = 1 /\ Of(k)' = l /\ IsFlag(k)'
  <2>1. k = 1
    BY <1>3
  <2>2. Queue(k)' = 0
    BY <1>1, <1>2, <2>1 DEF Queue, Ring!Wrap
  <2> QED BY <1>1, <1>2, <2>1, <2>2 DEF Of, IsFlag
<1>5. l \in Nat /\ parts \subseteq 0 .. l /\ \A i \in DOMAIN origins : origins[i] \subseteq 0 .. l
  BY OfTypes DEF OInv, GhostsOK
<1> HIDE DEF l
<1>6. OneFlag' /\ HasParts'
  BY <1>1, EmptySeq DEF OInv, OneFlag, HasParts
<1>7. FlagToCome'
  BY <1>1 DEF FlagToCome
<1>8. ASSUME ~lapped' PROVE (Sorted /\ PartsBefore /\ FramesBefore /\ FramesInOrder)'
  <2>1. FramesBefore /\ FramesInOrder
    BY <1>1, <1>8 DEF OInv, Ordered
  <2>2. Sorted'
    <3>1. \A k \in 1 .. Queued' : \A j \in 1 .. k - 1 : FALSE
      BY <1>3
    <3> QED BY <3>1 DEF Sorted
  <2>3. PartsBefore'
    <3>1. \A x \in parts : x <= l
      BY <1>5
    <3> QED BY <1>1, <1>4, <3>1 DEF PartsBefore
  <2>4. FramesBefore'
    <3> SUFFICES ASSUME NEW i \in DOMAIN origins, NEW x \in origins[i]
                 PROVE  /\ \A y \in parts : x < y
                        /\ x < l \/ (x = l /\ parts = {})
      BY <1>1, <1>4 DEF FramesBefore
    <3>1. x \in 0 .. l /\ \A y \in parts : x < y /\ y \in 0 .. l
      BY <1>5, <2>1 DEF FramesBefore
    <3>2. x = l => \A y \in parts : FALSE
      BY <1>5, <3>1
    <3> QED BY <1>5, <3>1, <3>2
  <2>5. FramesInOrder'
    BY <1>1, <2>1 DEF FramesInOrder
  <2> QED BY <2>2, <2>3, <2>4, <2>5
<1> QED BY <1>6, <1>7, <1>8 DEF Ordered

(* A flag leaves the buffer empty.                                         *)
LEMMA FlagEmpties ==
  ASSUME NEW d, tzparser_exec(d), d = RKH_FLG
  PROVE  ptr' = 0
BY DEF tzparser_exec, Waiting, Collecting, Escaping, parser_init, RKH_ESC, RKH_FLG

(* The records that the frame has bytes of, the next byte of the stream    *)
(* included.                                                               *)
Seen == parts \cup {Of(1)}

(* Read, a byte joins its frame, ...                                       *)
LEMMA DeliverSeen ==
  ASSUME TInv, GhostsOK, Deliver
  PROVE  /\ parts' = (IF IsFlag(1) THEN {} ELSE Seen)
         /\ 1 \in 1 .. Queued /\ Queued \in Nat \ {0} /\ Queued' = Queued - 1
         /\ UNCHANGED <<pending, sent, lapped>>
         /\ \A k \in 1 .. Queued - 1 :
              k + 1 \in 2 .. Queued /\ Of(k)' = Of(k + 1) /\ IsFlag(k)' = IsFlag(k + 1)
         /\ IsFlag(1) => ptr' = 0
<1>1. /\ Queued \in Nat \ {0} /\ Queued' = Queued - 1 /\ Queue(1) = blk /\ trcstm' = trcstm
      /\ \A k \in 1 .. Queued' : Queue(k)' = Queue(k + 1)
  BY QueueFlush DEF TInv, Deliver
<1>2. maker' = maker /\ parts' = (IF trcstm[blk] = RKH_FLG THEN {} ELSE parts \cup {maker[blk]})
  BY DEF Deliver, Trace
<1>3. parts' = (IF IsFlag(1) THEN {} ELSE Seen)
  BY <1>1, <1>2 DEF Seen, Of, IsFlag
<1>4. \A k \in 1 .. Queued - 1 :
        k + 1 \in 2 .. Queued /\ Of(k)' = Of(k + 1) /\ IsFlag(k)' = IsFlag(k + 1)
  BY <1>1, <1>2 DEF Of, IsFlag
<1>5. IsFlag(1) => ptr' = 0
  BY <1>1, FlagEmpties DEF Deliver, IsFlag
<1>6. UNCHANGED <<pending, sent, lapped>>
  BY DEF Deliver, recorder
<1> QED BY <1>1, <1>3, <1>4, <1>5, <1>6

(* ... and a flag ends the frame with all its bytes.                       *)
LEMMA DeliverOrigins ==
  ASSUME TInv, OInv, Deliver
  PROVE  \/ origins' = origins
         \/ /\ IsFlag(1) /\ parts # {} /\ origins' = Append(origins, Seen)
            /\ origins \in Seq(SUBSET (0 .. Len(sent))) /\ Len(origins) = Len(accepted)
            /\ DOMAIN origins = 1 .. Len(origins)
            /\ Analyze
            /\ DOMAIN origins' = 1 .. Len(origins) + 1 /\ Len(origins) \in Nat
            /\ \A i \in 1 .. Len(origins) : origins'[i] = origins[i]
            /\ origins'[Len(origins) + 1] = Seen
<1>1. /\ origins' = (IF accepted' = accepted THEN origins ELSE Append(origins, Seen))
      /\ Queue(1) = blk /\ tzparser_exec(trcstm[blk])
  BY QueueFlush DEF TInv, Deliver, Trace, Seen, Of
<1> SUFFICES ASSUME accepted' # accepted
             PROVE  /\ IsFlag(1) /\ parts # {} /\ origins' = Append(origins, Seen)
                    /\ origins \in Seq(SUBSET (0 .. Len(sent))) /\ Len(origins) = Len(accepted)
                    /\ DOMAIN origins = 1 .. Len(origins)
                    /\ Analyze
                    /\ DOMAIN origins' = 1 .. Len(origins) + 1 /\ Len(origins) \in Nat
                    /\ \A i \in 1 .. Len(origins) : origins'[i] = origins[i]
                    /\ origins'[Len(origins) + 1] = Seen
  BY <1>1
<1>2. blk \in Ring!Index /\ trcstm[blk] \in Octet
  BY RingConstants, DeliveredByte
     DEF TInv, RingInv, Deliver, Ring!FlushByte, Ring!TypeOK, Ring!BlockInArray, Ring!Index
<1>3. Analyze /\ trix > 0 /\ trcstm[blk] = RKH_FLG
  BY <1>1, <1>2, AcceptsOne DEF TInv
<1>4. IsFlag(1)
  BY <1>1, <1>3 DEF IsFlag
<1>5. parts # {}
  <2>1. ptr \in Nat /\ trix = ptr % 256 /\ trix > 0
    BY <1>3, LenProperties DEF TInv, ParserOK
  <2>2. ptr > 0
    BY <2>1
  <2> QED BY <2>2 DEF OInv, HasParts
<1>6. /\ origins \in [1 .. Len(accepted) -> SUBSET (0 .. Len(sent))] /\ Len(accepted) \in Nat
      /\ Seen \in SUBSET (0 .. Len(sent))
  <2>1. DOMAIN accepted = 1 .. Len(accepted) /\ Len(accepted) \in Nat
    BY LenProperties DEF TInv, ParserOK
  <2>2. Seen \in SUBSET (0 .. Len(sent))
    <3>1. 1 \in 1 .. Queued
      BY DeliverSeen DEF OInv
    <3> QED BY <3>1, OfTypes DEF OInv, GhostsOK, Seen
  <2> QED BY <2>1, <2>2 DEF OInv, GhostsOK
<1>7. origins \in Seq(SUBSET (0 .. Len(sent))) /\ Len(origins) = Len(accepted)
  <2>1. PICK n : n = Len(accepted)
    OBVIOUS
  <2> QED BY <1>6, <2>1, FunctionIsSeq
<1>8. PICK s : s = Seen
  OBVIOUS
<1>9. /\ Append(origins, s) \in Seq(SUBSET (0 .. Len(sent)))
      /\ Len(Append(origins, s)) = Len(origins) + 1 /\ Len(origins) \in Nat
      /\ \A i \in 1 .. Len(origins) : Append(origins, s)[i] = origins[i]
      /\ Append(origins, s)[Len(origins) + 1] = s
  BY <1>6, <1>7, <1>8, AppendProperties, LenProperties
<1>10. DOMAIN origins = 1 .. Len(origins) /\ DOMAIN Append(origins, s) = 1 .. Len(origins) + 1
  BY <1>7, <1>9, LenProperties
<1> QED BY <1>1, <1>3, <1>4, <1>5, <1>7, <1>8, <1>9, <1>10

(* Every byte that comes later is of a later record then.                  *)
LEMMA DeliverOrdered ==
  ASSUME TInv, OInv, Deliver
  PROVE  Ordered' /\ OneFlag' /\ HasParts'
<1> DEFINE l == Len(sent)
<1>1. /\ parts' = (IF IsFlag(1) THEN {} ELSE Seen)
      /\ 1 \in 1 .. Queued /\ Queued \in Nat \ {0} /\ Queued' = Queued - 1
      /\ UNCHANGED <<pending, sent, lapped>> /\ (IsFlag(1) => ptr' = 0)
  BY DeliverSeen DEF OInv
<1>2. \A k \in 1 .. Queued - 1 :
        k + 1 \in 2 .. Queued /\ Of(k)' = Of(k + 1) /\ IsFlag(k)' = IsFlag(k + 1)
  BY DeliverSeen DEF OInv
<1>3. /\ \A k \in 1 .. Queued : Of(k) \in 0 .. l
      /\ l \in Nat /\ parts \subseteq 0 .. l
      /\ \A i \in DOMAIN origins : origins[i] \subseteq 0 .. l
  BY OfTypes DEF OInv, GhostsOK
<1> HIDE DEF l
<1>4. OneFlag'
  BY <1>1 DEF OInv, OneFlag
<1>5. HasParts'
  <2>1. CASE IsFlag(1)
    BY <1>1, <2>1 DEF HasParts
  <2>2. CASE ~IsFlag(1)
    BY <1>1, <2>2 DEF HasParts, Seen
  <2> QED BY <2>1, <2>2
<1>6. ASSUME ~lapped' PROVE (Sorted /\ PartsBefore /\ FramesBefore /\ FramesInOrder /\ FlagToCome)'
  <2>1. Sorted /\ PartsBefore /\ FramesBefore /\ FramesInOrder /\ FlagToCome
    BY <1>1, <1>6 DEF OInv, Ordered
  <2>2. \A k \in 2 .. Queued : Of(1) <= Of(k) /\ (IsFlag(1) => Of(1) < Of(k))
    <3> SUFFICES ASSUME NEW k \in 2 .. Queued
                 PROVE  Of(1) <= Of(k) /\ (IsFlag(1) => Of(1) < Of(k))
      OBVIOUS
    <3>1. k \in 1 .. Queued /\ 1 \in 1 .. k - 1
      OBVIOUS
    <3> QED BY <2>1, <3>1 DEF Sorted
  <2>3. \A x \in parts : x <= Of(1)
    BY <1>1, <2>1 DEF PartsBefore
  <2>4. Sorted'
    <3> SUFFICES ASSUME NEW k \in 1 .. Queued - 1, NEW j \in 1 .. k - 1
                 PROVE  Of(j)' <= Of(k)' /\ (IsFlag(j)' => Of(j)' < Of(k)')
      BY <1>1 DEF Sorted
    <3>1. j \in 1 .. Queued - 1 /\ j + 1 \in 1 .. (k + 1) - 1 /\ k + 1 \in 1 .. Queued
      BY <1>1
    <3> QED BY <1>2, <2>1, <3>1 DEF Sorted
  <2>5. PartsBefore'
    <3> SUFFICES ASSUME NEW k \in 1 .. Queued - 1, NEW x \in Seen PROVE x <= Of(k)'
      BY <1>1 DEF PartsBefore
    <3>1. k + 1 \in 2 .. Queued /\ k + 1 \in 1 .. Queued /\ Of(k)' = Of(k + 1)
      BY <1>1, <1>2
    <3>2. CASE x \in parts
      BY <2>1, <3>1, <3>2 DEF PartsBefore
    <3>3. CASE x = Of(1)
      BY <2>2, <3>1, <3>3
    <3> QED BY <3>2, <3>3 DEF Seen
  <2>6. \A i \in DOMAIN origins : \A x \in origins[i] :
          /\ \A y \in parts' : x < y
          /\ \A k \in 1 .. Queued - 1 : x < Of(k)'
    <3> SUFFICES ASSUME NEW i \in DOMAIN origins, NEW x \in origins[i]
                 PROVE  /\ \A y \in parts' : x < y
                        /\ \A k \in 1 .. Queued - 1 : x < Of(k)'
      OBVIOUS
    <3>1. ASSUME NEW y \in parts' PROVE x < y
      <4>1. ~IsFlag(1) /\ (y \in parts \/ y = Of(1))
        BY <1>1, <3>1 DEF Seen
      <4>2. CASE y \in parts
        BY <2>1, <4>2 DEF FramesBefore
      <4>3. CASE y = Of(1)
        BY <1>1, <2>1, <4>1, <4>3 DEF FramesBefore
      <4> QED BY <4>1, <4>2, <4>3
    <3>2. ASSUME NEW k \in 1 .. Queued - 1 PROVE x < Of(k)'
      <4>1. k + 1 \in 1 .. Queued /\ k + 1 # 1 /\ Of(k)' = Of(k + 1)
        BY <1>1, <1>2
      <4> QED BY <2>1, <4>1 DEF FramesBefore
    <3> QED BY <3>1, <3>2
  <2>7. IsFlag(1) => \A x \in Seen : /\ \A k \in 1 .. Queued - 1 : x < Of(k)'
                                     /\ pending # <<>> => x # l
    <3> SUFFICES ASSUME IsFlag(1), NEW x \in Seen
                 PROVE  /\ \A k \in 1 .. Queued - 1 : x < Of(k)'
                        /\ pending # <<>> => x # l
      OBVIOUS
    <3>1. x <= Of(1) /\ x \in Int /\ Of(1) \in 0 .. l
      BY <1>1, <1>3, <2>3 DEF Seen
    <3>2. ASSUME NEW k \in 1 .. Queued - 1 PROVE x < Of(k)'
      <4>1. k + 1 \in 2 .. Queued /\ Of(k)' = Of(k + 1) /\ Of(k + 1) \in 0 .. l
        BY <1>1, <1>2, <1>3
      <4>2. Of(1) < Of(k + 1)
        BY <2>2, <4>1
      <4> QED BY <1>3, <3>1, <4>1, <4>2
    <3>3. pending # <<>> => Of(1) # l
      BY <1>1, <2>1 DEF FlagToCome, l
    <3>4. pending # <<>> => x # l
      BY <1>3, <3>1, <3>3
    <3> QED BY <3>2, <3>4
  <2>8. CASE origins' = origins
    <3>1. FramesBefore'
      BY <1>1, <2>6, <2>8 DEF FramesBefore
    <3>2. FramesInOrder'
      BY <2>1, <2>8 DEF FramesInOrder
    <3>3. FlagToCome'
      BY <1>1, <1>2, <2>1, <2>8 DEF FlagToCome
    <3> QED BY <2>4, <2>5, <3>1, <3>2, <3>3
  <2>9. ASSUME origins' # origins
        PROVE  (FramesBefore /\ FramesInOrder /\ FlagToCome)'
    <3>1. /\ IsFlag(1) /\ parts # {}
          /\ DOMAIN origins = 1 .. Len(origins)
          /\ DOMAIN origins' = 1 .. Len(origins) + 1 /\ Len(origins) \in Nat
          /\ \A i \in 1 .. Len(origins) : origins'[i] = origins[i]
          /\ origins'[Len(origins) + 1] = Seen
      BY <2>9, DeliverOrigins
    <3>2. parts' = {}
      BY <1>1, <3>1
    <3>3. PICK n \in Nat : n = Len(origins)
      BY <3>1
    <3>4. \A i \in DOMAIN origins' :
            \/ i \in DOMAIN origins /\ i \in 1 .. n /\ origins'[i] = origins[i]
            \/ i = n + 1 /\ origins'[i] = Seen
      BY <3>1, <3>3
    <3>5. FramesBefore'
      <4> SUFFICES ASSUME NEW i \in DOMAIN origins', NEW x \in origins'[i],
                          NEW k \in 1 .. Queued - 1
                   PROVE  x < Of(k)'
        BY <1>1, <3>2 DEF FramesBefore
      <4>1. CASE i \in DOMAIN origins /\ origins'[i] = origins[i]
        BY <2>6, <4>1
      <4>2. CASE origins'[i] = Seen
        BY <2>7, <3>1, <4>2
      <4> QED BY <3>4, <4>1, <4>2
    <3>6. FramesInOrder'
      <4> SUFFICES ASSUME NEW j \in DOMAIN origins', NEW i \in 1 .. j - 1,
                          NEW x \in origins'[i], NEW y \in origins'[j]
                   PROVE  x < y
        BY DEF FramesInOrder
      <4>1. i \in DOMAIN origins /\ origins'[i] = origins[i]
        <5>1. j \in 1 .. n + 1 /\ i \in 1 .. n
          BY <3>1, <3>3
        <5> QED BY <3>1, <3>3, <5>1
      <4>2. CASE j \in DOMAIN origins /\ origins'[j] = origins[j]
        BY <2>1, <4>1, <4>2 DEF FramesInOrder
      <4>3. CASE origins'[j] = Seen
        <5>1. CASE y \in parts
          BY <2>1, <4>1, <5>1 DEF FramesBefore
        <5>2. CASE y = Of(1)
          BY <1>1, <2>1, <3>1, <4>1, <5>2 DEF FramesBefore
        <5> QED BY <4>3, <5>1, <5>2 DEF Seen
      <4> QED BY <3>4, <4>2, <4>3
    <3>7. FlagToCome'
      <4> SUFFICES ASSUME pending # <<>>
                   PROVE  /\ \A i \in DOMAIN origins' : l \notin origins'[i]
                          /\ \A k \in 1 .. Queued - 1 : IsFlag(k)' => Of(k)' # l
        BY <1>1 DEF FlagToCome, l
      <4>1. ASSUME NEW i \in DOMAIN origins' PROVE l \notin origins'[i]
        <5>1. CASE i \in DOMAIN origins /\ origins'[i] = origins[i]
          BY <2>1, <5>1 DEF FlagToCome, l
        <5>2. CASE origins'[i] = Seen
          BY <2>7, <3>1, <5>2
        <5> QED BY <3>4, <5>1, <5>2
      <4>2. ASSUME NEW k \in 1 .. Queued - 1, IsFlag(k)' PROVE Of(k)' # l
        <5>1. k + 1 \in 1 .. Queued /\ IsFlag(k + 1) /\ Of(k)' = Of(k + 1)
          BY <1>1, <1>2, <4>2
        <5>2. \A j \in 1 .. Queued : IsFlag(j) => Of(j) # l
          BY <1>1, <2>1 DEF FlagToCome, l
        <5> QED BY <5>1, <5>2
      <4> QED BY <4>1, <4>2
    <3> QED BY <3>5, <3>6, <3>7
  <2> QED BY <2>4, <2>5, <2>8, <2>9
<1> QED BY <1>4, <1>5, <1>6 DEF Ordered

(* So the order is kept by every step.                                     *)
LEMMA OInvStep ==
  ASSUME TInv, OInv, [Next]_vars
  PROVE  OInv'
<1>1. GhostsOK'
  BY GhostsStep DEF OInv
<1>2. ASSUME NEW event \in Events, Record(event) PROVE Ordered' /\ OneFlag' /\ HasParts'
  BY <1>2, RecordOrdered
<1>3. ASSUME UNCHANGED vars PROVE Ordered' /\ OneFlag' /\ HasParts'
  <2>1. /\ UNCHANGED <<parts, origins, pending, sent, lapped, ptr>> /\ Queued' = Queued
        /\ \A k \in 1 .. Queued : Of(k)' = Of(k) /\ IsFlag(k)' = IsFlag(k)
    BY <1>3 DEF vars, ringvars, recorder, parser, ghosts, Queued, Of, IsFlag, Queue, Ring!Wrap
  <2>2. Queued \in Nat
    BY QueueTypes DEF TInv
  <2>3. Ordered'
    BY <2>1, <2>2, StillOrdered DEF OInv
  <2> QED BY <2>1, <2>3 DEF OInv, OneFlag, HasParts
<1>4. ASSUME Put PROVE Ordered' /\ OneFlag' /\ HasParts'
  BY <1>4, PutOrdered
<1>5. ASSUME TakeBlock PROVE Ordered' /\ OneFlag' /\ HasParts'
  BY <1>5, TakeBlockOrdered
<1>6. ASSUME Deliver PROVE Ordered' /\ OneFlag' /\ HasParts'
  BY <1>6, DeliverOrdered
<1>7. ASSUME Restart PROVE Ordered' /\ OneFlag' /\ HasParts'
  BY <1>7, RestartOrdered
<1>8. Ordered' /\ OneFlag' /\ HasParts'
  BY <1>2, <1>3, <1>4, <1>5, <1>6, <1>7 DEF Next
<1> QED BY <1>1, <1>8 DEF OInv

(* Some numbers up to n have a greatest one.                               *)
LEMMA MaxOf ==
  ASSUME NEW n \in Nat, NEW S, S \subseteq 0 .. n, S # {}
  PROVE  Max(S) \in S /\ \A y \in S : Max(S) >= y
<1> DEFINE Topped(m) == \A T \in SUBSET (0 .. m) : T # {} => \E x \in T : \A y \in T : x >= y
           D == {m \in Nat : Topped(m)}
<1>1. 0 \in D
  <2> SUFFICES ASSUME NEW T \in SUBSET (0 .. 0), T # {}
               PROVE  \E x \in T : \A y \in T : x >= y
    OBVIOUS
  <2>1. \A y \in T : y = 0
    OBVIOUS
  <2>2. PICK t : t \in T
    OBVIOUS
  <2>3. t = 0 /\ \A y \in T : t = y
    BY <2>1, <2>2
  <2>4. 0 >= 0
    OBVIOUS
  <2> QED BY <2>1, <2>2, <2>3, <2>4
<1>2. ASSUME NEW m \in Nat, m \in D PROVE m + 1 \in D
  <2> SUFFICES ASSUME NEW T \in SUBSET (0 .. m + 1), T # {}
               PROVE  \E x \in T : \A y \in T : x >= y
    OBVIOUS
  <2>1. CASE m + 1 \in T
    BY <2>1
  <2>2. CASE m + 1 \notin T
    <3>1. T \in SUBSET (0 .. m)
      BY <2>2
    <3> QED BY <1>2, <3>1
  <2> QED BY <2>1, <2>2
<1> HIDE DEF D
<1>3. n \in D
  BY <1>1, <1>2, NatSet
<1>4. \E x \in S : \A y \in S : x >= y
  BY <1>3 DEF D
<1> QED BY <1>4 DEF Max

(* A record that takes part in the sequence check has its number behind    *)
(* its identifier.                                                         *)
LEMMA MadeNumber ==
  ASSUME nseq \in Octet, NEW event \in Events
  PROVE  /\ Made(event)[1] = event.eid
         /\ Numbered(event.eid) =>
              Len(Made(event)) >= 3 /\ Made(event)[2] = nseq /\ Len(Number(event)) = 1
         /\ ~Numbered(event.eid) => Len(Number(event)) = 0
<1>1. event.eid \in Octet /\ event.args \in Seq(Octet)
  BY LinkAssumption
<1>2. /\ <<event.eid>> \in Seq(Octet) /\ Len(<<event.eid>>) = 1 /\ <<event.eid>>[1] = event.eid
      /\ Number(event) \in Seq(Octet) /\ Len(Number(event)) \in 0 .. 1
  BY <1>1 DEF Number
<1> DEFINE head == <<event.eid>> \o Number(event)
           body == head \o event.args
<1>3. /\ head \in Seq(Octet) /\ Len(head) = 1 + Len(Number(event)) /\ head[1] = event.eid
      /\ Numbered(event.eid) => head[2] = nseq
  <2>1. PICK u, v : u = <<event.eid>> /\ v = Number(event)
    OBVIOUS
  <2>2. u \in Seq(Octet) /\ v \in Seq(Octet) /\ Len(u) = 1 /\ Len(v) \in 0 .. 1
        /\ u[1] = event.eid /\ (Numbered(event.eid) => Len(v) = 1 /\ v[1] = nseq)
    BY <1>2, <2>1 DEF Number
  <2>3. head = u \o v
    BY <2>1
  <2> HIDE DEF head
  <2>4. /\ head \in Seq(Octet) /\ Len(head) = 1 + Len(v)
        /\ \A i \in 1 .. 1 + Len(v) : head[i] = IF i <= 1 THEN u[i] ELSE v[i - 1]
    <3>1. u \in Seq(Octet) /\ v \in Seq(Octet) /\ Len(u) = 1
      BY <2>2
    <3>2. /\ u \o v \in Seq(Octet) /\ Len(u \o v) = Len(u) + Len(v)
          /\ \A i \in 1 .. Len(u) + Len(v) :
               (u \o v)[i] = IF i <= Len(u) THEN u[i] ELSE v[i - Len(u)]
      BY <3>1, ConcatProperties
    <3> QED BY <2>3, <3>1, <3>2
  <2>5. head[1] = u[1]
    <3>1. \A k \in 0 .. 1 : 1 \in 1 .. 1 + k
      OBVIOUS
    <3>2. Len(v) \in 0 .. 1
      BY <2>2
    <3>3. 1 \in 1 .. 1 + Len(v)
      BY <3>1, <3>2
    <3> QED BY <2>4, <3>3
  <2>6. Len(v) = 1 => head[2] = v[1]
    BY <2>4
  <2> QED BY <2>1, <2>2, <2>4, <2>5, <2>6
<1>4. Len(Number(event)) = IF Numbered(event.eid) THEN 1 ELSE 0
  BY DEF Number
<1> HIDE DEF head
<1>5. /\ body \in Seq(Octet) /\ Len(body) = Len(head) + Len(event.args)
      /\ Len(event.args) \in Nat /\ Len(head) \in 1 .. 2
      /\ \A i \in 1 .. Len(head) : body[i] = head[i]
  <2>1. PICK args : args = event.args
    OBVIOUS
  <2>2. args \in Seq(Octet) /\ head \in Seq(Octet) /\ body = head \o args
    BY <1>1, <1>3, <2>1
  <2>3. Len(args) \in Nat /\ Len(head) \in 1 .. 2
    <3>1. Len(args) \in Nat
      BY <2>2, LenProperties
    <3>2. \A k \in 0 .. 1 : 1 + k \in 1 .. 2
      OBVIOUS
    <3> QED BY <1>2, <1>3, <3>1, <3>2
  <2> HIDE DEF body
  <2>4. /\ body \in Seq(Octet) /\ Len(body) = Len(head) + Len(args)
        /\ \A i \in 1 .. Len(head) : body[i] = head[i]
    BY <2>2, <2>3, ConcatProperties
  <2> QED BY <2>1, <2>3, <2>4
<1> HIDE DEF body
<1>6. PICK x \in Octet : Closed(body) = Append(body, x)
  <2>1. PICK c : c = (256 - SumOf(body)) % 256
    OBVIOUS
  <2>2. c \in Octet
    BY <1>5, <2>1, SumType, Complement
  <2> QED BY <2>1, <2>2 DEF Closed
<1>7. /\ Len(Closed(body)) = Len(body) + 1 /\ \A i \in 1 .. Len(body) : Closed(body)[i] = body[i]
  BY <1>5, <1>6, AppendProperties
<1>8. Made(event) = Closed(body)
  BY DEF Made, body, head
<1>9. Made(event)[1] = event.eid
  <2>0. \A h \in 1 .. 2, a \in Nat : 1 \in 1 .. h /\ 1 \in 1 .. h + a
    OBVIOUS
  <2>1. 1 \in 1 .. Len(head) /\ 1 \in 1 .. Len(body)
    BY <1>5, <2>0
  <2> QED BY <1>3, <1>5, <1>7, <1>8, <2>1
<1>10. Numbered(event.eid) => Len(Made(event)) >= 3 /\ Made(event)[2] = nseq
  <2> SUFFICES ASSUME Numbered(event.eid)
               PROVE  Len(Made(event)) >= 3 /\ Made(event)[2] = nseq
    OBVIOUS
  <2>1. Len(head) = 2 /\ head[2] = nseq
    BY <1>3, <1>4
  <2>2. 2 \in 1 .. Len(head) /\ Len(body) >= 2 /\ Len(body) \in Nat
    BY <1>5, <2>1
  <2>3. 2 \in 1 .. Len(body)
    BY <2>2
  <2>4. Closed(body)[2] = nseq /\ Len(Closed(body)) >= 3
    BY <1>5, <1>7, <2>1, <2>2, <2>3
  <2> QED BY <1>8, <2>4
<1> QED BY <1>4, <1>9, <1>10

(* The numbered records among those from the a-th to the b-th.             *)
CountedIn(a, b) == {m \in a .. b : Counted(m)}

(* Where the run of the n-th record starts.                                *)
RunOf(n) == Max({s \in starts : s < n})

(* Every numbered record has the number that counts those before it in its *)
(* run, modulo 256; nseq is the next one.                                  *)
SerialOK == \A n \in DOMAIN sent : Counted(n) => Len(sent[n]) >= 3 /\ sent[n][2] = Serial(n) % 256
NextSerial == nseq = Cardinality(CountedIn(Max(starts) + 1, Len(sent))) % 256
NInv == 0 \in starts /\ SerialOK /\ NextSerial

(* It starts before that record.                                           *)
LEMMA RunOfType ==
  ASSUME TInv, 0 \in starts, NEW n \in 1 .. Len(sent) + 1
  PROVE  RunOf(n) \in 0 .. n - 1 /\ RunOf(n) \in starts
<1>1. starts \subseteq 0 .. Len(sent) /\ Len(sent) \in Nat
  BY LenProperties DEF TInv, RecorderOK
<1>2. PICK S : S = {s \in starts : s < n}
  OBVIOUS
<1>3. S \subseteq 0 .. Len(sent)
  BY <1>1, <1>2
<1>4. 0 < n
  BY <1>1
<1>5. S # {}
  BY <1>2, <1>4
<1>6. RunOf(n) = Max(S) /\ Max(S) \in S
  <2>1. PICK m \in Nat : m = Len(sent)
    BY <1>1
  <2>2. S \subseteq 0 .. m
    BY <1>3, <2>1
  <2>3. Max(S) \in S
    BY <1>5, <2>2, MaxOf
  <2> QED BY <1>2, <2>3 DEF RunOf
<1>7. RunOf(n) \in starts /\ RunOf(n) < n
  BY <1>2, <1>6
<1>8. RunOf(n) \in Nat
  <2>1. \A s \in starts : s \in Nat
    BY <1>1
  <2> QED BY <1>7, <2>1
<1> QED BY <1>1, <1>7, <1>8

(* The records counted are those of its run so far.                        *)
LEMMA SerialIs ==
  ASSUME NEW n
  PROVE  Serial(n) = Cardinality(CountedIn(RunOf(n) + 1, n - 1))
BY DEF Serial, CountedIn, RunOf

(* There are finitely many of them.                                        *)
LEMMA CountedFinite ==
  ASSUME NEW a \in Int, NEW b \in Int
  PROVE  IsFiniteSet(CountedIn(a, b)) /\ Cardinality(CountedIn(a, b)) \in Nat
<1>1. CountedIn(a, b) \in SUBSET (a .. b)
  BY DEF CountedIn
<1>2. IsFiniteSet(CountedIn(a, b))
  BY <1>1, FS_Interval, FS_Subset
<1> QED BY <1>2, FS_CardinalityType

(* At first nothing has been numbered.                                     *)
LEMMA InitNInv == Init => NInv
<1> SUFFICES ASSUME Init PROVE NInv
  OBVIOUS
<1>1. sent = <<>> /\ starts = {0} /\ nseq = 0 /\ DOMAIN sent = {} /\ Len(sent) = 0
  BY EmptySeq DEF Init
<1>2. Max(starts) = 0
  BY <1>1 DEF Max
<1>3. CountedIn(Max(starts) + 1, Len(sent)) = {}
  BY <1>1, <1>2 DEF CountedIn
<1>4. Cardinality({}) = 0 /\ 0 % 256 = 0
  BY FS_EmptySet
<1> QED BY <1>1, <1>3, <1>4 DEF NInv, SerialOK, NextSerial

(* A new record gets the next number; those of the others do not change.   *)
LEMMA RecordNInv ==
  ASSUME TInv, NInv, NEW event \in Events, Record(event)
  PROVE  NInv'
<1>0. PICK l : l = Len(sent)
  OBVIOUS
<1>1. /\ sent' = Append(sent, Made(event)) /\ starts' = starts /\ sent \in Seq(Seq(Octet))
      /\ nseq' = (nseq + Len(Number(event))) % 256 /\ Made(event) \in Seq(Octet)
  BY RecordRest DEF Record, Number, TInv, RecorderOK
<1>2. PICK rec : rec = Made(event)
  OBVIOUS
<1>3. /\ Len(sent') = l + 1 /\ l \in Nat /\ sent'[l + 1] = rec
      /\ \A n \in 1 .. l : sent'[n] = sent[n]
      /\ DOMAIN sent = 1 .. l /\ DOMAIN sent' = 1 .. l + 1
  <2>1. /\ Len(sent') = l + 1 /\ l \in Nat /\ sent'[l + 1] = rec /\ sent' \in Seq(Seq(Octet))
        /\ \A n \in 1 .. l : sent'[n] = sent[n]
    BY <1>0, <1>1, <1>2, AppendProperties, LenProperties
  <2> QED BY <1>0, <1>1, <2>1, LenProperties
<1>4. /\ rec[1] = event.eid
      /\ Numbered(event.eid) => Len(rec) >= 3 /\ rec[2] = nseq /\ Len(Number(event)) = 1
      /\ ~Numbered(event.eid) => Len(Number(event)) = 0
  BY <1>2, MadeNumber DEF TInv, RecorderOK
<1>5. /\ \A n \in 1 .. l : Counted(n)' <=> Counted(n)
      /\ Counted(l + 1)' <=> Numbered(event.eid)
  <2>1. \A n \in 1 .. l : Counted(n)' <=> Counted(n)
    BY <1>3 DEF Counted
  <2>2. Counted(l + 1)' <=> Numbered(event.eid)
    BY <1>3, <1>4 DEF Counted
  <2> QED BY <2>1, <2>2
<1>6. starts \subseteq 0 .. l /\ 0 \in starts
  BY <1>0 DEF TInv, RecorderOK, NInv
<1>7. \A a \in 1 .. l + 1, b \in 0 .. l : CountedIn(a, b)' = CountedIn(a, b)
  <2>1. \A a \in 1 .. l + 1, b \in 0 .. l : \A m \in a .. b : m \in 1 .. l
    BY <1>3
  <2> QED BY <1>5, <2>1 DEF CountedIn
<1>8. \A n \in 1 .. l + 1 : Serial(n)' = Serial(n)
  <2> SUFFICES ASSUME NEW n \in 1 .. l + 1 PROVE Serial(n)' = Serial(n)
    OBVIOUS
  <2>1. RunOf(n) \in 0 .. n - 1 /\ RunOf(n)' = RunOf(n)
    BY <1>0, <1>1, <1>6, RunOfType DEF RunOf
  <2>2. PICK r \in 0 .. n - 1 : r = RunOf(n)
    BY <2>1
  <2>3. CountedIn(r + 1, n - 1)' = CountedIn(r + 1, n - 1)
    <3>1. r + 1 \in 1 .. l + 1 /\ n - 1 \in 0 .. l
      BY <1>3
    <3> QED BY <1>7, <3>1
  <2>4. Serial(n)' = Cardinality(CountedIn(r + 1, n - 1)')
    BY <2>1, <2>2 DEF Serial, CountedIn, RunOf
  <2>5. Serial(n) = Cardinality(CountedIn(r + 1, n - 1))
    BY <2>2, SerialIs
  <2> QED BY <2>3, <2>4, <2>5
<1>9. PICK x : x = Max(starts)
  OBVIOUS
<1>10. x \in 0 .. l /\ {s \in starts : s < l + 1} = starts
  <2>1. starts # {} /\ starts \subseteq 0 .. l /\ l \in Nat
    BY <1>3, <1>6
  <2>2. Max(starts) \in starts
    BY <2>1, MaxOf
  <2>3. \A s \in starts : s < l + 1
    BY <2>1
  <2> QED BY <1>9, <2>1, <2>2, <2>3
<1>11. Serial(l + 1) = Cardinality(CountedIn(x + 1, l))
  <2>1. RunOf(l + 1) = x
    BY <1>9, <1>10 DEF RunOf
  <2>2. (l + 1) - 1 = l
    BY <1>3
  <2> QED BY <2>1, <2>2, SerialIs
<1>12. nseq = Serial(l + 1) % 256
  BY <1>0, <1>9, <1>11 DEF NInv, NextSerial
<1>13. SerialOK'
  <2> SUFFICES ASSUME NEW n \in 1 .. l + 1, Counted(n)'
               PROVE  Len(sent'[n]) >= 3 /\ sent'[n][2] = Serial(n) % 256
    BY <1>3, <1>8 DEF SerialOK
  <2>1. CASE n = l + 1
    <3>1. Numbered(event.eid)
      BY <1>5, <2>1
    <3>2. Len(rec) >= 3 /\ rec[2] = nseq /\ sent'[n] = rec
      BY <1>3, <1>4, <2>1, <3>1
    <3> QED BY <1>12, <2>1, <3>2
  <2>2. CASE n \in 1 .. l
    BY <1>3, <1>5, <2>2 DEF NInv, SerialOK
  <2> QED BY <1>3, <2>1, <2>2
<1>14. nseq' = Cardinality(CountedIn(x + 1, l + 1)') % 256
  <2>1. PICK C : C = CountedIn(x + 1, l)
    OBVIOUS
  <2>2. CountedIn(x + 1, l + 1)' = IF Numbered(event.eid) THEN C \cup {l + 1} ELSE C
    <3>1. \A m : m \in x + 1 .. l + 1 <=> m \in x + 1 .. l \/ m = l + 1
      BY <1>3, <1>10
    <3>2. \A m \in x + 1 .. l : m \in 1 .. l
      BY <1>3, <1>10
    <3>3. \A m : m \in C <=> m \in x + 1 .. l /\ Counted(m)
      BY <2>1 DEF CountedIn
    <3>4. \A m : m \in CountedIn(x + 1, l + 1)' <=> m \in x + 1 .. l + 1 /\ Counted(m)'
      BY DEF CountedIn
    <3>5. \A m : m \in C <=> m \in x + 1 .. l /\ Counted(m)'
      BY <1>5, <3>2, <3>3
    <3>6. l + 1 \notin x + 1 .. l
      BY <1>3
    <3>7. PICK D : D = CountedIn(x + 1, l + 1)'
      OBVIOUS
    <3>8. \A m : m \in D <=> m \in C \/ (m = l + 1 /\ Numbered(event.eid))
      BY <1>5, <3>1, <3>4, <3>5, <3>6, <3>7
    <3>9. D = IF Numbered(event.eid) THEN C \cup {l + 1} ELSE C
      BY <3>8
    <3> QED BY <3>7, <3>9
  <2>3. l + 1 \notin C /\ IsFiniteSet(C) /\ Cardinality(C) \in Nat
    <3>1. l + 1 \notin C
      BY <1>3, <2>1 DEF CountedIn
    <3>2. x + 1 \in Int /\ l \in Int
      BY <1>3, <1>10
    <3> QED BY <2>1, <3>1, <3>2, CountedFinite
  <2>4. nseq = Cardinality(C) % 256
    BY <1>11, <1>12, <2>1
  <2>5. CASE Numbered(event.eid)
    <3>1. Cardinality(C \cup {l + 1}) = Cardinality(C) + 1
      BY <2>3, FS_AddElement
    <3>2. \A c \in Nat : ((c % 256) + 1) % 256 = (c + 1) % 256
      OBVIOUS
    <3>3. nseq' = (Cardinality(C) + 1) % 256
      BY <1>1, <1>4, <2>3, <2>4, <2>5, <3>2
    <3> QED BY <2>2, <2>5, <3>1, <3>3
  <2>6. CASE ~Numbered(event.eid)
    <3>1. \A c \in Nat : ((c % 256) + 0) % 256 = c % 256
      OBVIOUS
    <3>2. nseq' = Cardinality(C) % 256
      BY <1>1, <1>4, <2>3, <2>4, <2>6, <3>1
    <3> QED BY <2>2, <2>6, <3>2
  <2> QED BY <2>5, <2>6
<1>15. NextSerial'
  <2>1. Max(starts') = x /\ Len(sent') = l + 1
    BY <1>1, <1>3, <1>9
  <2> QED BY <1>14, <2>1 DEF NextSerial, CountedIn
<1> QED BY <1>1, <1>6, <1>13, <1>15 DEF NInv

(* A start begins to count anew, and leaves what was numbered.             *)
LEMMA RestartNInv ==
  ASSUME TInv, NInv, Restart
  PROVE  NInv'
<1>0. PICK l : l = Len(sent)
  OBVIOUS
<1>1. sent' = sent /\ starts' = starts \cup {l} /\ nseq' = 0
  BY <1>0 DEF Restart
<1>2. l \in Nat /\ starts \subseteq 0 .. l /\ 0 \in starts /\ DOMAIN sent = 1 .. l
  BY <1>0, LenProperties DEF TInv, RecorderOK, NInv
<1>3. \A n : Counted(n)' <=> Counted(n)
  BY <1>1 DEF Counted
<1>4. ASSUME NEW n \in 1 .. l PROVE Serial(n)' = Serial(n)
  <2>1. ~(l < n)
    BY <1>2
  <2>2. {s \in starts' : s < n} = {s \in starts : s < n}
    BY <1>1, <2>1
  <2> QED BY <1>3, <2>2 DEF Serial
<1>5. SerialOK'
  BY <1>1, <1>2, <1>3, <1>4 DEF NInv, SerialOK
<1>6. Max(starts') = l
  <2>1. starts' \subseteq 0 .. l /\ starts' # {} /\ l \in starts'
    BY <1>1, <1>2
  <2>2. Max(starts') \in 0 .. l /\ Max(starts') >= l
    BY <1>2, <2>1, MaxOf
  <2> QED BY <1>2, <2>2
<1>7. CountedIn(l + 1, l)' = {}
  <2>1. \A m : m \notin l + 1 .. l
    BY <1>2
  <2> QED BY <2>1 DEF CountedIn
<1>8. NextSerial'
  <2>1. Cardinality({}) % 256 = 0
    <3>1. Cardinality({}) = 0 /\ 0 % 256 = 0
      BY FS_EmptySet
    <3> QED BY <3>1
  <2>2. CountedIn(Max(starts) + 1, Len(sent))' = CountedIn(l + 1, l)'
    BY <1>0, <1>1, <1>6 DEF CountedIn
  <2> QED BY <1>1, <1>7, <2>1, <2>2 DEF NextSerial
<1> QED BY <1>1, <1>2, <1>5, <1>8 DEF NInv

(* So the numbers are those counted after every step.                      *)
LEMMA NInvStep ==
  ASSUME TInv, NInv, [Next]_vars
  PROVE  NInv'
<1>1. ASSUME NEW event \in Events, Record(event) PROVE NInv'
  BY <1>1, RecordNInv
<1>2. CASE UNCHANGED <<sent, starts, nseq>>
  <2>1. /\ \A n : Counted(n)' <=> Counted(n)
        /\ starts' = starts /\ sent' = sent /\ nseq' = nseq
    BY <1>2 DEF Counted
  <2>2. \A n : Serial(n)' = Serial(n)
    BY <2>1 DEF Serial
  <2>3. SerialOK'
    BY <2>1, <2>2 DEF NInv, SerialOK
  <2>4. NextSerial'
    BY <2>1 DEF NInv, NextSerial, CountedIn
  <2> QED BY <2>1, <2>3, <2>4 DEF NInv
<1> QED BY <1>1, <1>2, RestartNInv
        DEF Next, Put, TakeBlock, Deliver, vars, recorder

(* The number of the last record verified before the i-th frame.           *)
VerifiedBefore(i) == {k \in Verified : k < i}
Prev(i) == IF VerifiedBefore(i) = {} THEN 255 ELSE accepted[Max(VerifiedBefore(i))][2]

(* As long as no frame verified is so short that the parser reads the      *)
(* number of an earlier one, a gap is reported where the numbers differ.   *)
Long == \A i \in Verified : Len(accepted[i]) >= 2
NumbersOK ==
  Long => /\ \A i \in Verified : i \in gaps <=> accepted[i][2] # (Prev(i) + 1) % 256
          /\ lastnseq = Prev(Len(accepted) + 1)

(* At first nothing has been verified.                                     *)
LEMMA InitNumbers == Init => NumbersOK
<1> SUFFICES ASSUME Init PROVE NumbersOK
  OBVIOUS
<1>1. accepted = <<>> /\ DOMAIN accepted = {} /\ lastnseq = 255 /\ Len(accepted) = 0
  BY EmptySeq DEF Init
<1>2. Verified = {} /\ VerifiedBefore(Len(accepted) + 1) = {}
  BY <1>1 DEF Verified, VerifiedBefore
<1> QED BY <1>1, <1>2 DEF NumbersOK, Prev

(* Accepted, a frame is the last one, and verified against the one before. *)
LEMMA AnalyzeNumbers ==
  ASSUME TInv, NumbersOK, NEW d \in Octet, tzparser_exec(d), accepted' # accepted
  PROVE  NumbersOK'
<1>0. PICK l : l = Len(accepted)
  OBVIOUS
<1>1. /\ Analyze /\ trix > 0 /\ accepted' \in Seq(Seq(Octet))
      /\ Len(accepted') = l + 1 /\ accepted'[l + 1] = Frame
      /\ \A i \in 1 .. l : accepted'[i] = accepted[i]
  BY <1>0, AcceptsOne DEF TInv
<1>2. /\ l \in Nat /\ DOMAIN accepted = 1 .. l /\ DOMAIN accepted' = 1 .. l + 1
      /\ gaps \subseteq 1 .. l
  <2>1. l \in Nat /\ DOMAIN accepted = 1 .. l /\ gaps \subseteq DOMAIN accepted
    BY <1>0, LenProperties DEF TInv, ParserOK
  <2> QED BY <1>1, <2>1, LenProperties
<1>3. /\ trix \in 1 .. 255 /\ Frame[1] = tr[1] /\ Len(Frame) = trix /\ trix <= Len(tr)
      /\ (Len(Frame) >= 2 => Frame[2] = get_nseq)
  <2>1. /\ Frame \in Seq(Octet) /\ trix \in 0 .. 255 /\ trix <= ptr /\ Len(Frame) = trix
        /\ \A i \in 1 .. trix : Frame[i] = tr[i]
    BY FrameOK DEF TInv
  <2>2. ptr \in 0 .. Len(tr) /\ Len(tr) \in Nat
    BY LenProperties DEF TInv, ParserOK
  <2>3. trix \in 1 .. 255 /\ trix <= Len(tr)
    BY <1>1, <2>1, <2>2
  <2>4. Frame[1] = tr[1]
    <3>1. \A n \in 1 .. 255 : 1 \in 1 .. n
      OBVIOUS
    <3> QED BY <2>1, <2>3, <3>1
  <2>5. Len(Frame) >= 2 => Frame[2] = tr[2] /\ Len(tr) >= 2
    BY <2>1, <2>2, <2>3
  <2> QED BY <2>1, <2>3, <2>4, <2>5 DEF get_nseq
<1>4. /\ \A i \in 1 .. l : i \in Verified' <=> i \in Verified
      /\ l + 1 \in Verified' <=> Known(tr[1]) /\ Numbered(tr[1])
      /\ Verified \subseteq 1 .. l /\ Verified' \subseteq 1 .. l + 1
  <2>1. \A i \in 1 .. l : i \in Verified' <=> i \in Verified
    BY <1>1, <1>2 DEF Verified
  <2>2. l + 1 \in Verified' <=> Known(tr[1]) /\ Numbered(tr[1])
    BY <1>1, <1>2, <1>3 DEF Verified
  <2> QED BY <1>2, <2>1, <2>2 DEF Verified
<1>5. ASSUME NEW i \in 1 .. l + 1 PROVE Prev(i)' = Prev(i)
  <2>1. VerifiedBefore(i)' = VerifiedBefore(i)
    <3>1. \A k \in 1 .. l + 1 : k < i => k \in 1 .. l
      BY <1>2
    <3>2. \A k : k \in VerifiedBefore(i) <=> k \in Verified /\ k < i
      BY DEF VerifiedBefore
    <3>3. \A k : k \in VerifiedBefore(i)' <=> k \in Verified' /\ k < i
      BY DEF VerifiedBefore
    <3>4. \A k : k \in VerifiedBefore(i)' <=> k \in VerifiedBefore(i)
      BY <1>4, <3>1, <3>2, <3>3
    <3>5. PICK A, B : A = VerifiedBefore(i)' /\ B = VerifiedBefore(i)
      OBVIOUS
    <3>6. A = B
      BY <3>4, <3>5
    <3> QED BY <3>5, <3>6
  <2>2. CASE VerifiedBefore(i) = {}
    BY <2>1, <2>2 DEF Prev
  <2>3. CASE VerifiedBefore(i) # {}
    <3>1. VerifiedBefore(i) \subseteq 0 .. l
      <4>1. 1 .. l \subseteq 0 .. l
        BY <1>2
      <4>2. VerifiedBefore(i) \subseteq Verified
        BY DEF VerifiedBefore
      <4> QED BY <1>4, <4>1, <4>2
    <3>2. Max(VerifiedBefore(i)) \in VerifiedBefore(i)
      BY <1>2, <2>3, <3>1, MaxOf
    <3>3. Max(VerifiedBefore(i)) \in 1 .. l
      BY <1>4, <3>2 DEF VerifiedBefore
    <3>4. PICK m \in 1 .. l : m = Max(VerifiedBefore(i))
      BY <3>3
    <3>5. accepted'[m] = accepted[m]
      BY <1>1
    <3> QED BY <2>1, <2>3, <3>4, <3>5 DEF Prev
  <2> QED BY <2>2, <2>3
<1> SUFFICES ASSUME Long'
             PROVE  /\ \A i \in Verified' : i \in gaps' <=> accepted'[i][2] # (Prev(i)' + 1) % 256
                    /\ lastnseq' = Prev(Len(accepted) + 1)'
  BY DEF NumbersOK
<1>6. Long
  <2>1. \A i \in Verified : i \in Verified' /\ accepted'[i] = accepted[i]
    BY <1>1, <1>4
  <2> QED BY <2>1 DEF Long
<1>7. /\ \A i \in Verified : i \in gaps <=> accepted[i][2] # (Prev(i) + 1) % 256
      /\ lastnseq = Prev(l + 1)
  BY <1>0, <1>6 DEF NumbersOK
<1>8. CASE ~(Known(tr[1]) /\ Numbered(tr[1]))
  <2>1. lastnseq' = lastnseq /\ gaps' = gaps
    BY <1>1, <1>8 DEF Analyze
  <2>2. \A i \in Verified' : i \in Verified /\ i \in 1 .. l
    BY <1>2, <1>4, <1>8
  <2>3. \A i \in Verified' : i \in gaps' <=> accepted'[i][2] # (Prev(i)' + 1) % 256
    BY <1>1, <1>2, <1>5, <1>7, <2>1, <2>2
  <2>4. VerifiedBefore(l + 2)' = VerifiedBefore(l + 1)'
    <3>1. \A k \in Verified' : k < l + 2 /\ k < l + 1
      BY <1>2, <2>2
    <3> QED BY <3>1 DEF VerifiedBefore
  <2>5. Prev(l + 2)' = Prev(l + 1)'
    BY <2>4 DEF Prev
  <2>6. \A k : k = l + 2 => Prev(k)' = lastnseq'
    BY <1>2, <1>5, <1>7, <2>1, <2>5
  <2>7. Len(accepted') + 1 = l + 2
    BY <1>1, <1>2
  <2>8. Prev(Len(accepted) + 1)' = Prev(l + 2)'
    BY <2>7 DEF Prev, VerifiedBefore
  <2> QED BY <2>3, <2>5, <2>6, <2>8
<1>9. CASE Known(tr[1]) /\ Numbered(tr[1])
  <2>1. l + 1 \in Verified' /\ Len(accepted'[l + 1]) >= 2
    BY <1>4, <1>9 DEF Long
  <2>2. accepted'[l + 1][2] = get_nseq
    BY <1>1, <1>3, <2>1
  <2>3. /\ lastnseq' = accepted'[l + 1][2]
        /\ gaps' = IF (lastnseq + 1) % 256 = accepted'[l + 1][2] THEN gaps ELSE gaps \cup {l + 1}
    BY <1>0, <1>1, <1>9, <2>2 DEF Analyze, verify_nseq
  <2>4. ASSUME NEW i \in Verified'
        PROVE  i \in gaps' <=> accepted'[i][2] # (Prev(i)' + 1) % 256
    <3>1. CASE i = l + 1
      <4>1. l + 1 \notin gaps /\ Prev(i)' = lastnseq
        BY <1>2, <1>5, <1>7, <3>1
      <4> QED BY <2>3, <3>1, <4>1
    <3>2. CASE i \in 1 .. l
      <4>1. i \in Verified /\ accepted'[i] = accepted[i] /\ Prev(i)' = Prev(i) /\ i # l + 1
        BY <1>1, <1>2, <1>4, <1>5, <3>2
      <4> QED BY <1>7, <2>3, <4>1
    <3> QED BY <1>2, <1>4, <3>1, <3>2
  <2>5. l + 1 \in VerifiedBefore(l + 2)' /\ VerifiedBefore(l + 2)' \subseteq 0 .. l + 1
    <3>1. 1 .. l + 1 \subseteq 0 .. l + 1 /\ l + 1 < l + 2
      BY <1>2
    <3>2. VerifiedBefore(l + 2)' \subseteq Verified'
      BY DEF VerifiedBefore
    <3>3. l + 1 \in VerifiedBefore(l + 2)'
      BY <2>1, <3>1 DEF VerifiedBefore
    <3> QED BY <1>4, <3>1, <3>2, <3>3
  <2>6. PICK B : B = VerifiedBefore(l + 2)'
    OBVIOUS
  <2>7. Max(B) = l + 1
    <3>1. l + 1 \in B /\ B \subseteq 0 .. l + 1 /\ l + 1 \in Nat
      BY <1>2, <2>5, <2>6
    <3>2. Max(B) \in 0 .. l + 1 /\ Max(B) >= l + 1
      BY <3>1, MaxOf
    <3> QED BY <1>2, <3>2
  <2>8. Prev(l + 2)' = accepted'[l + 1][2]
    BY <2>5, <2>6, <2>7 DEF Prev
  <2>9. Len(accepted') + 1 = l + 2
    BY <1>1, <1>2
  <2>10. Prev(Len(accepted) + 1)' = Prev(l + 2)'
    BY <2>9 DEF Prev, VerifiedBefore
  <2> QED BY <2>3, <2>4, <2>8, <2>10
<1> QED BY <1>8, <1>9

(* So this is true of the gaps after every step.                           *)
LEMMA NumbersStep ==
  ASSUME TInv, NumbersOK, [Next]_vars
  PROVE  NumbersOK'
<1>1. CASE UNCHANGED <<accepted, gaps, lastnseq>>
  <2>1. /\ Verified' = Verified /\ (Long' <=> Long)
        /\ accepted' = accepted /\ gaps' = gaps /\ lastnseq' = lastnseq
    BY <1>1 DEF Verified, Long
  <2>2. \A i : VerifiedBefore(i)' = VerifiedBefore(i)
    BY <2>1 DEF VerifiedBefore
  <2>3. \A i : Prev(i)' = Prev(i)
    BY <2>1, <2>2 DEF Prev
  <2>4. Prev(Len(accepted) + 1)' = Prev(Len(accepted) + 1)
    BY <2>1 DEF Prev, VerifiedBefore, Verified
  <2> QED BY <2>1, <2>3, <2>4 DEF NumbersOK
<1>2. CASE Deliver
  <2>1. trcstm[blk] \in Octet /\ tzparser_exec(trcstm[blk])
    BY <1>2, DeliveredByte DEF TInv, Deliver
  <2>2. CASE accepted' # accepted
    BY <2>1, <2>2, AnalyzeNumbers
  <2>3. CASE accepted' = accepted
    <3>1. gaps' = gaps /\ lastnseq' = lastnseq
      BY <2>1, <2>3, AcceptsOne DEF TInv
    <3> QED BY <1>1, <2>3, <3>1
  <2> QED BY <2>2, <2>3
<1>3. CASE Restart \/ Put \/ TakeBlock \/ UNCHANGED vars
  BY <1>1, <1>3 DEF Restart, Put, TakeBlock, vars, analyzer
<1>4. ASSUME NEW event \in Events, Record(event) PROVE NumbersOK'
  BY <1>1, <1>4 DEF Record, analyzer
<1> QED BY <1>2, <1>3, <1>4 DEF Next

(* When no frame is taken for another record, each is taken at a record of *)
(* its own ...                                                             *)
LEMMA PositionIs ==
  ASSUME TInv, OInv, Genuine, NEW k \in DOMAIN accepted
  PROVE  /\ Position(k) \in origins[k] /\ Position(k) \in 1 .. Len(sent)
         /\ accepted[k] = sent[Position(k)] /\ k \in DOMAIN origins
<1>1. Position(k) \in Taken(k)
  BY DEF Genuine, Position
<1>2. DOMAIN sent = 1 .. Len(sent) /\ DOMAIN origins = DOMAIN accepted
  BY LenProperties DEF TInv, RecorderOK, OInv, GhostsOK
<1> QED BY <1>1, <1>2 DEF Taken

(* ... and they come in order.                                             *)
LEMMA PositionsInOrder ==
  ASSUME TInv, OInv, Genuine, ~lapped,
         NEW k \in DOMAIN accepted, NEW m \in DOMAIN accepted, k < m
  PROVE  Position(k) < Position(m)
<1>1. /\ Position(k) \in origins[k] /\ Position(m) \in origins[m]
      /\ k \in DOMAIN origins /\ m \in DOMAIN origins
  BY PositionIs
<1>2. k \in 1 .. m - 1
  <2>1. DOMAIN accepted = 1 .. Len(accepted) /\ Len(accepted) \in Nat
    BY LenProperties DEF TInv, ParserOK
  <2> QED BY <2>1
<1>3. FramesInOrder
  BY DEF OInv, Ordered
<1> QED BY <1>1, <1>2, <1>3 DEF FramesInOrder

(* What is counted is a number.                                            *)
LEMMA SerialType ==
  ASSUME TInv, NInv, NEW n \in 1 .. Len(sent)
  PROVE  Serial(n) \in Nat
<1>1. Len(sent) \in Nat
  BY LenProperties DEF TInv, RecorderOK
<1>2. n \in 1 .. Len(sent) + 1 /\ n - 1 \in Int
  BY <1>1
<1>3. RunOf(n) + 1 \in Int
  BY <1>2, RunOfType DEF NInv
<1> QED BY <1>2, <1>3, SerialIs, CountedFinite

(* A frame verified has the number its record was given.                   *)
LEMMA VerifiedNumber ==
  ASSUME TInv, OInv, NInv, Genuine, NEW k \in Verified
  PROVE  /\ Len(accepted[k]) >= 2 /\ Serial(Position(k)) \in Nat
         /\ accepted[k][2] = Serial(Position(k)) % 256
<1>1. k \in DOMAIN accepted /\ Numbered(accepted[k][1])
  BY DEF Verified
<1>2. PICK n : n = Position(k)
  OBVIOUS
<1>3. n \in 1 .. Len(sent) /\ accepted[k] = sent[n]
  BY <1>1, <1>2, PositionIs
<1>4. Counted(n) /\ n \in DOMAIN sent
  BY <1>1, <1>3, LenProperties DEF Counted, TInv, RecorderOK
<1>5. Len(sent[n]) >= 3 /\ sent[n][2] = Serial(n) % 256
  BY <1>4 DEF NInv, SerialOK
<1>6. Len(sent[n]) \in Nat
  BY <1>3, ElementOfSeq, LenProperties DEF TInv, RecorderOK
<1>7. Len(accepted[k]) >= 2
  BY <1>3, <1>5, <1>6
<1>8. Serial(n) \in Nat
  BY <1>3, SerialType
<1> QED BY <1>2, <1>3, <1>5, <1>7, <1>8

(* Where the numbers differ a numbered record is missing.                  *)
LEMMA NumbersAreSerials ==
  ASSUME TInv, OInv, NInv, NumbersOK
  PROVE  GapsReported
<1> SUFFICES ASSUME ~lapped, Genuine, NEW i \in Verified
             PROVE  LET before == {Position(j) : j \in VerifiedBefore(i)}
                    IN  i \in gaps <=>
                          Serial(Position(i)) % 256
                            # (IF before = {} THEN 0 ELSE Serial(Max(before)) + 1) % 256
  BY DEF GapsReported, VerifiedBefore
<1> DEFINE before == {Position(j) : j \in VerifiedBefore(i)}
<1>1. Long
  BY VerifiedNumber DEF Long
<1>2. i \in gaps <=> Serial(Position(i)) % 256 # (Prev(i) + 1) % 256
  BY <1>1, VerifiedNumber DEF NumbersOK
<1>3. CASE VerifiedBefore(i) = {}
  <2>1. before = {} /\ Prev(i) = 255 /\ (255 + 1) % 256 = 0 /\ 0 % 256 = 0
    BY <1>3 DEF Prev
  <2> HIDE DEF before
  <2>2. i \in gaps <=> Serial(Position(i)) % 256
                         # (IF before = {} THEN 0 ELSE Serial(Max(before)) + 1) % 256
    BY <1>2, <2>1
  <2> QED BY <2>2 DEF before
<1>4. CASE VerifiedBefore(i) # {}
  <2>0. PICK l \in Nat : l = Len(accepted) /\ DOMAIN accepted = 1 .. l
    BY LenProperties DEF TInv, ParserOK
  <2>1. VerifiedBefore(i) \subseteq Verified /\ Verified \subseteq 1 .. l
    BY <2>0 DEF VerifiedBefore, Verified
  <2>2. PICK m : m = Max(VerifiedBefore(i))
    OBVIOUS
  <2>3. m \in VerifiedBefore(i) /\ \A y \in VerifiedBefore(i) : m >= y
    <3>1. 1 .. l \subseteq 0 .. l
      BY <2>0
    <3>2. VerifiedBefore(i) \subseteq 0 .. l
      BY <2>1, <3>1
    <3> QED BY <1>4, <2>2, <3>2, MaxOf
  <2>4. PICK p : p = Position(m)
    OBVIOUS
  <2>5. Prev(i) = Serial(p) % 256 /\ Serial(p) \in Nat
    BY <1>4, <2>1, <2>2, <2>3, <2>4, VerifiedNumber DEF Prev
  <2>6. before # {} /\ before \subseteq 0 .. Len(sent) /\ p \in before /\ Len(sent) \in Nat
    <3>1. \A j \in VerifiedBefore(i) : Position(j) \in 1 .. Len(sent)
      BY <2>0, <2>1, PositionIs
    <3>2. Len(sent) \in Nat
      BY LenProperties DEF TInv, RecorderOK
    <3>3. 1 .. Len(sent) \subseteq 0 .. Len(sent)
      BY <3>2
    <3> QED BY <1>4, <2>3, <2>4, <3>1, <3>2, <3>3
  <2>7. \A y \in before : p >= y
    <3> SUFFICES ASSUME NEW j \in VerifiedBefore(i) PROVE p >= Position(j)
      OBVIOUS
    <3>1. j \in 1 .. l /\ m \in 1 .. l /\ m >= j
      BY <2>1, <2>3
    <3>2. p \in 0 .. Len(sent) /\ Position(j) \in 0 .. Len(sent)
      BY <2>6
    <3>3. CASE j = m
      BY <2>4, <2>6, <3>2, <3>3
    <3>4. CASE j < m
      <4>1. Position(j) < p
        BY <2>0, <2>4, <3>1, <3>4, PositionsInOrder
      <4> QED BY <2>6, <3>2, <4>1
    <3> QED BY <3>1, <3>3, <3>4
  <2> HIDE DEF before
  <2>8. Max(before) = p
    <3>1. Max(before) \in before /\ Max(before) >= p
      BY <2>6, MaxOf
    <3>2. p >= Max(before) /\ p \in 0 .. Len(sent) /\ Max(before) \in 0 .. Len(sent)
      BY <2>6, <2>7, <3>1
    <3> QED BY <2>6, <3>1, <3>2
  <2>9. (Prev(i) + 1) % 256 = (Serial(p) + 1) % 256
    <3>1. \A c \in Nat : ((c % 256) + 1) % 256 = (c + 1) % 256
      OBVIOUS
    <3> QED BY <2>5, <3>1
  <2>10. i \in gaps <=> Serial(Position(i)) % 256
                          # (IF before = {} THEN 0 ELSE Serial(Max(before)) + 1) % 256
    BY <1>2, <2>6, <2>8, <2>9
  <2> QED BY <2>10 DEF before
<1> QED BY <1>3, <1>4

(* "May have lost trace info" is reported exactly at the records before    *)
(* which a numbered record is missing, whatever the ring loses, whenever   *)
(* the target starts again and whatever the records are: it rests on the   *)
(* order of the bytes, on the numbers given and on the numbers remembered. *)
THEOREM GapsAreReported == Spec => []GapsReported
<1>1. Init => TInv /\ OInv /\ NInv /\ NumbersOK
  BY InitTInv, InitOInv, InitNInv, InitNumbers
<1>2. TInv /\ OInv /\ NInv /\ NumbersOK /\ [Next]_vars => (TInv /\ OInv /\ NInv /\ NumbersOK)'
  <2> SUFFICES ASSUME TInv, OInv, NInv, NumbersOK, [Next]_vars
               PROVE  TInv' /\ OInv' /\ NInv' /\ NumbersOK'
    OBVIOUS
  <2>1. TInv'
    BY RecordTInv, PutTInv, TakeBlockTInv, DeliverTInv, RestartTInv, StutterTInv DEF Next
  <2> QED BY <2>1, OInvStep, NInvStep, NumbersStep
<1>3. TInv /\ OInv /\ NInv /\ NumbersOK => GapsReported
  BY NumbersAreSerials
<1> QED BY <1>1, <1>2, <1>3, PTL DEF Spec
=============================================================================
