------------------------ MODULE UtrzSession_proofs ------------------------
(***************************************************************************)
(* What UtrzSession guarantees for any records, any verdicts and a stream  *)
(* of any size: every variable keeps its type, over a socket the test goes *)
(* on with the engine's verdict on the very record it has made             *)
(* (UtrzJudge), and when the hook returns nothing is left of the record,   *)
(* or with the library at most its rest.                                   *)
(*                                                                         *)
(* But for the types this is about records that fit into the stream, of    *)
(* which none begins another one, and about tests that are not killed just *)
(* before the flag of a record is sent.  The library build must ask for    *)
(* the whole stream at once, which it does.                                *)
(***************************************************************************)
EXTENDS UtrzSession, TLAPS, SequenceTheorems
-----------------------------------------------------------------------------
(* Sequences.                                                              *)

(* Appending is associative.                                               *)
LEMMA Regroup ==
  ASSUME NEW S, NEW x \in Seq(S), NEW y \in Seq(S), NEW z \in Seq(S)
  PROVE  (x \o y) \o z = x \o (y \o z)
BY ConcatAssociative

(* The first element, and the others, of two sequences one after the       *)
(* other.                                                                  *)
LEMMA FirstOfBoth ==
  ASSUME NEW S, NEW x \in Seq(S), NEW y \in Seq(S), x # <<>>
  PROVE  x \o y # <<>> /\ Head(x \o y) = Head(x) /\ Tail(x \o y) = Tail(x) \o y
<1> DEFINE z == x \o y
           k == Len(x)
           l == Len(y)
<1>1. k \in Nat \ {0} /\ l \in Nat
  BY EmptySeq, LenProperties
<1>2. /\ z \in Seq(S) /\ Len(z) = k + l
      /\ \A i \in 1 .. k + l : z[i] = IF i <= k THEN x[i] ELSE y[i - k]
  BY ConcatProperties
<1>3. /\ Head(x) = x[1] /\ Tail(x) \in Seq(S) /\ Len(Tail(x)) = k - 1
      /\ \A i \in 1 .. k - 1 : Tail(x)[i] = x[i + 1]
  BY HeadTailProperties
<1> HIDE DEF k, l, z
<1>4. z # <<>>
  BY <1>1, <1>2, EmptySeq
<1>5. /\ Head(z) = z[1] /\ Tail(z) \in Seq(S) /\ Len(Tail(z)) = (k + l) - 1
      /\ \A i \in 1 .. (k + l) - 1 : Tail(z)[i] = z[i + 1]
  BY <1>2, <1>4, HeadTailProperties
<1>6. Head(z) = Head(x)
  <2>1. 1 \in 1 .. k + l /\ 1 <= k
    BY <1>1
  <2> QED BY <1>2, <1>3, <1>5, <2>1
<1> DEFINE w == Tail(x) \o y
<1>7. /\ w \in Seq(S) /\ Len(w) = (k - 1) + l
      /\ \A i \in 1 .. (k - 1) + l : w[i] = IF i <= k - 1 THEN Tail(x)[i] ELSE y[i - (k - 1)]
  BY <1>3, ConcatProperties DEF l
<1> HIDE DEF w
<1>8. ASSUME NEW i \in 1 .. (k - 1) + l PROVE Tail(z)[i] = w[i]
  <2>1. /\ i \in 1 .. (k + l) - 1 /\ i + 1 \in 1 .. k + l
        /\ i + 1 <= k <=> i <= k - 1
        /\ (i + 1) - k = i - (k - 1)
        /\ i <= k - 1 => i \in 1 .. k - 1
    BY <1>1
  <2> QED BY <1>2, <1>3, <1>5, <1>7, <2>1
<1>9. Tail(z) = w
  <2>1. (k + l) - 1 = (k - 1) + l
    BY <1>1
  <2> QED BY <1>5, <1>7, <1>8, <2>1, SeqEqual
<1> QED BY <1>4, <1>6, <1>9 DEF z, w

(* A sequence that starts with an element is this element and the others.  *)
LEMMA HeadAndTail ==
  ASSUME NEW S, NEW s \in Seq(S), s # <<>>
  PROVE  Head(s) \in S /\ Tail(s) \in Seq(S) /\ <<Head(s)>> \in Seq(S) /\ s = <<Head(s)>> \o Tail(s)
<1> DEFINE t == <<Head(s)>> \o Tail(s)
           l == Len(s)
<1>1. /\ l \in Nat \ {0} /\ Head(s) \in S /\ Head(s) = s[1]
      /\ Tail(s) \in Seq(S) /\ Len(Tail(s)) = l - 1
      /\ \A i \in 1 .. l - 1 : Tail(s)[i] = s[i + 1]
  BY EmptySeq, HeadTailProperties
<1> HIDE DEF l
<1>2. <<Head(s)>> \in Seq(S) /\ Len(<<Head(s)>>) = 1 /\ <<Head(s)>>[1] = s[1]
  BY <1>1
<1>3. /\ t \in Seq(S) /\ Len(t) = l
      /\ \A i \in 1 .. l : t[i] = IF i <= 1 THEN <<Head(s)>>[i] ELSE Tail(s)[i - 1]
  <2>1. 1 + (l - 1) = l
    BY <1>1
  <2> QED BY <1>1, <1>2, <2>1, ConcatProperties
<1> HIDE DEF t
<1>4. ASSUME NEW i \in 1 .. l PROVE s[i] = t[i]
  <2>1. CASE i = 1
    BY <1>2, <1>3, <2>1
  <2>2. CASE i # 1
    <3>1. i - 1 \in 1 .. l - 1 /\ (i - 1) + 1 = i /\ ~(i <= 1)
      BY <1>1, <2>2
    <3> QED BY <1>1, <1>3, <3>1
  <2> QED BY <2>1, <2>2
<1>5. s = t
  BY <1>3, <1>4, SeqEqual DEF l
<1> QED BY <1>1, <1>2, <1>5 DEF t

(* An element may be moved from the front of one sequence to the end of    *)
(* the one before it.                                                      *)
LEMMA MoveOver ==
  ASSUME NEW S, NEW x \in Seq(S), NEW y \in Seq(S), y # <<>>
  PROVE  Append(x, Head(y)) \in Seq(S) /\ Append(x, Head(y)) \o Tail(y) = x \o y
<1>1. /\ Head(y) \in S /\ Tail(y) \in Seq(S) /\ <<Head(y)>> \in Seq(S)
      /\ y = <<Head(y)>> \o Tail(y)
  BY HeadAndTail
<1>2. Append(x, Head(y)) = x \o <<Head(y)>> /\ Append(x, Head(y)) \in Seq(S)
  BY <1>1, AppendIsConcat, AppendProperties
<1>3. (x \o <<Head(y)>>) \o Tail(y) = x \o (<<Head(y)>> \o Tail(y))
  <2> DEFINE e == <<Head(y)>>
             t == Tail(y)
  <2>1. e \in Seq(S) /\ t \in Seq(S)
    BY <1>1
  <2> HIDE DEF e, t
  <2>2. (x \o e) \o t = x \o (e \o t)
    BY <2>1, Regroup
  <2> QED BY <2>2 DEF e, t
<1> QED BY <1>1, <1>2, <1>3

(* Nothing, before or behind a sequence.                                   *)
LEMMA NothingMore ==
  ASSUME NEW S, NEW x \in Seq(S)
  PROVE  <<>> \o x = x /\ x \o <<>> = x
BY ConcatEmptySeq

(* Two sequences are empty together only if each is.                       *)
LEMMA BothEmpty ==
  ASSUME NEW S, NEW x \in Seq(S), NEW y \in Seq(S), x \o y = <<>>
  PROVE  x = <<>> /\ y = <<>>
<1> DEFINE k == Len(x)
           l == Len(y)
<1>1. k \in Nat /\ l \in Nat /\ k + l = 0
  <2>1. Len(x \o y) = k + l /\ Len(<<>>) = 0
    BY ConcatProperties, EmptySeq
  <2> QED BY <2>1, LenProperties
<1> HIDE DEF k, l
<1>2. k = 0 /\ l = 0
  BY <1>1
<1> QED BY <1>2, EmptySeq DEF k, l

(* f is none of w.                                                         *)
Without(w, f) == \A i \in 1 .. Len(w) : w[i] # f

(* Within bytes of which only the last is a flag, what is before a flag is *)
(* all of the others.                                                      *)
LEMMA FlagIsLast ==
  ASSUME NEW S, NEW x \in Seq(S), NEW y \in Seq(S), y # <<>>,
         NEW w \in Seq(S), NEW f \in S, Without(w, f),
         x \o y = Append(w, f)
  PROVE  Tail(y) = <<>> <=> Head(y) = f
<1> DEFINE z == Append(w, f)
           k == Len(x)
           l == Len(y)
           m == Len(w)
<1>1. k \in Nat /\ l \in Nat \ {0} /\ m \in Nat
  BY EmptySeq, LenProperties
<1>2. /\ z \in Seq(S) /\ Len(z) = m + 1 /\ z[m + 1] = f /\ \A i \in 1 .. m : z[i] = w[i]
  BY AppendProperties
<1>3. /\ Len(z) = k + l
      /\ \A i \in 1 .. k + l : z[i] = IF i <= k THEN x[i] ELSE y[i - k]
  <2> DEFINE c == x \o y
  <2>1. /\ Len(c) = k + l
        /\ \A i \in 1 .. k + l : c[i] = IF i <= k THEN x[i] ELSE y[i - k]
    BY ConcatProperties
  <2>2. c = z
    OBVIOUS
  <2> HIDE DEF c, z, k, l
  <2> QED BY <2>1, <2>2
<1>4. /\ Head(y) = y[1] /\ Tail(y) \in Seq(S) /\ Len(Tail(y)) = l - 1
  BY HeadTailProperties
<1> HIDE DEF k, l, m, z
<1>5. y[1] = z[k + 1] /\ k + 1 \in 1 .. m + 1 /\ m + 1 = k + l
  <2>1. k + 1 \in 1 .. k + l /\ ~(k + 1 <= k) /\ (k + 1) - k = 1 /\ m + 1 = k + l
    BY <1>1, <1>2, <1>3
  <2> QED BY <1>3, <2>1
<1>6. ASSUME y[1] = f PROVE k = m
  <2>1. CASE k + 1 \in 1 .. m
    <3>1. w[k + 1] = f
      BY <1>2, <1>5, <1>6, <2>1
    <3> QED BY <2>1, <3>1 DEF m, Without
  <2>2. CASE k + 1 \notin 1 .. m
    BY <1>1, <1>5, <2>2
  <2> QED BY <2>1, <2>2
<1>7. ASSUME y[1] = f PROVE Tail(y) = <<>>
  <2>1. l - 1 = 0
    BY <1>1, <1>5, <1>6, <1>7
  <2> QED BY <1>4, <2>1, EmptySeq
<1>8. ASSUME Tail(y) = <<>> PROVE y[1] = f
  <2>1. l - 1 = 0
    BY <1>4, <1>8, EmptySeq
  <2>2. k + 1 = m + 1
    BY <1>1, <1>5, <2>1
  <2> QED BY <1>2, <1>5, <2>2
<1> QED BY <1>4, <1>7, <1>8

LEMMA LastBefore ==
  ASSUME NEW S, NEW x \in Seq(S), NEW w \in Seq(S), NEW e, NEW f,
         Append(x, e) = Append(w, f)
  PROVE  x = w
<1>1. /\ Len(Append(x, e)) = Len(x) + 1 /\ Len(Append(w, f)) = Len(w) + 1
      /\ \A i \in 1 .. Len(x) : Append(x, e)[i] = x[i]
      /\ \A i \in 1 .. Len(w) : Append(w, f)[i] = w[i]
      /\ Len(x) \in Nat /\ Len(w) \in Nat
  BY LenProperties
<1>2. Len(x) = Len(w)
  BY <1>1
<1>3. \A i \in 1 .. Len(x) : x[i] = w[i]
  BY <1>1, <1>2
<1> QED BY <1>2, <1>3, SeqEqual
-----------------------------------------------------------------------------
(* The answers, which are records of four bytes.                           *)

(* Flip() is its own inverse and makes neither a flag nor an escape of     *)
(* one of them.                                                            *)
LEMMA FlipOctet ==
  /\ RKH_FLG \in Octet /\ RKH_ESC \in Octet /\ RKH_FLG # RKH_ESC
  /\ \A d \in Octet : Flip(d) \in Octet
  /\ \A d \in {RKH_FLG, RKH_ESC} : Flip(d) \notin {RKH_FLG, RKH_ESC} /\ Flip(Flip(d)) = d
BY DEF Octet, Flip, RKH_FLG, RKH_ESC

(* Sums of a few bytes.                                                    *)
LEMMA SumOfThree ==
  ASSUME NEW a \in Octet, NEW b \in Octet, NEW c \in Octet
  PROVE  SumOf(<<a, b, c>>) = (((a + b) % 256) + c) % 256
<1> DEFINE s == <<a, b, c>>
           body(q) == [i \in 0 .. Len(s) |-> IF i = 0 THEN 0 ELSE (q[i - 1] + s[i]) % 256]
           sum == CHOOSE q : q = body(q)
           g == [i \in 0 .. 3 |-> IF i = 0 THEN 0
                                  ELSE IF i = 1 THEN (0 + a) % 256
                                  ELSE IF i = 2 THEN (((0 + a) % 256) + b) % 256
                                  ELSE (((((0 + a) % 256) + b) % 256) + c) % 256]
<1>1. Len(s) = 3 /\ s[1] = a /\ s[2] = b /\ s[3] = c
  OBVIOUS
<1> HIDE DEF s, sum
<1>2. g = body(g)
  <2> DEFINE e(i) == IF i = 0 THEN 0 ELSE (g[i - 1] + s[i]) % 256
  <2>1. g[0] = e(0) /\ g[1] = e(1) /\ g[2] = e(2) /\ g[3] = e(3)
    BY <1>1
  <2>2. body(g) = [i \in 0 .. 3 |-> e(i)]
    BY <1>1
  <2>3. \A i \in 0 .. 3 : g[i] = e(i)
    <3>1. \A i \in 0 .. 3 : i = 0 \/ i = 1 \/ i = 2 \/ i = 3
      OBVIOUS
    <3> HIDE DEF g, e
    <3> QED BY <2>1, <3>1
  <2>4. g = [i \in 0 .. 3 |-> g[i]]
    OBVIOUS
  <2> HIDE DEF g, e
  <2> QED BY <2>2, <2>3, <2>4
<1>3. sum = body(sum)
  <2> HIDE DEF body, g
  <2> QED BY <1>2 DEF sum
<1>4. SumOf(s) = sum[Len(s)]
  BY DEF SumOf, sum
<1>5. /\ sum[0] = 0
      /\ sum[1] = (sum[0] + s[1]) % 256
      /\ sum[2] = (sum[1] + s[2]) % 256
      /\ sum[3] = (sum[2] + s[3]) % 256
  BY <1>1, <1>3
<1>6. sum[1] = a
  BY <1>1, <1>5 DEF Octet
<1> QED BY <1>1, <1>4, <1>5, <1>6 DEF s

LEMMA SumOfFour ==
  ASSUME NEW a \in Octet, NEW b \in Octet, NEW c \in Octet, NEW d \in Octet
  PROVE  SumOf(<<a, b, c, d>>) = (((((a + b) % 256) + c) % 256) + d) % 256
<1> DEFINE s == <<a, b, c, d>>
           body(q) == [i \in 0 .. Len(s) |-> IF i = 0 THEN 0 ELSE (q[i - 1] + s[i]) % 256]
           sum == CHOOSE q : q = body(q)
           g == [i \in 0 .. 4 |->
                   IF i = 0 THEN 0
                   ELSE IF i = 1 THEN (0 + a) % 256
                   ELSE IF i = 2 THEN (((0 + a) % 256) + b) % 256
                   ELSE IF i = 3 THEN (((((0 + a) % 256) + b) % 256) + c) % 256
                   ELSE (((((((0 + a) % 256) + b) % 256) + c) % 256) + d) % 256]
<1>1. Len(s) = 4 /\ s[1] = a /\ s[2] = b /\ s[3] = c /\ s[4] = d
  OBVIOUS
<1> HIDE DEF s, sum
<1>2. g = body(g)
  <2> DEFINE e(i) == IF i = 0 THEN 0 ELSE (g[i - 1] + s[i]) % 256
  <2>1. g[0] = e(0) /\ g[1] = e(1) /\ g[2] = e(2) /\ g[3] = e(3) /\ g[4] = e(4)
    BY <1>1
  <2>2. body(g) = [i \in 0 .. 4 |-> e(i)]
    BY <1>1
  <2>3. \A i \in 0 .. 4 : g[i] = e(i)
    <3>1. \A i \in 0 .. 4 : i = 0 \/ i = 1 \/ i = 2 \/ i = 3 \/ i = 4
      OBVIOUS
    <3> HIDE DEF g, e
    <3> QED BY <2>1, <3>1
  <2>4. g = [i \in 0 .. 4 |-> g[i]]
    OBVIOUS
  <2> HIDE DEF g, e
  <2> QED BY <2>2, <2>3, <2>4
<1>3. sum = body(sum)
  <2> HIDE DEF body, g
  <2> QED BY <1>2 DEF sum
<1>4. SumOf(s) = sum[Len(s)]
  BY DEF SumOf, sum
<1>5. /\ sum[0] = 0
      /\ sum[1] = (sum[0] + s[1]) % 256
      /\ sum[2] = (sum[1] + s[2]) % 256
      /\ sum[3] = (sum[2] + s[3]) % 256
      /\ sum[4] = (sum[3] + s[4]) % 256
  BY <1>1, <1>3
<1>6. sum[1] = a
  BY <1>1, <1>5 DEF Octet
<1> QED BY <1>1, <1>4, <1>5, <1>6 DEF s

(* A single byte is its own sum.                                           *)
LEMMA SumOfOne ==
  ASSUME NEW s \in Seq(Octet), Len(s) = 1
  PROVE  SumOf(s) = s[1]
<1> DEFINE body(q) == [i \in 0 .. Len(s) |-> IF i = 0 THEN 0 ELSE (q[i - 1] + s[i]) % 256]
           sum == CHOOSE q : q = body(q)
           g == [i \in 0 .. 1 |-> IF i = 0 THEN 0 ELSE (0 + s[1]) % 256]
<1>1. s[1] \in Octet
  OBVIOUS
<1> HIDE DEF sum
<1>2. g = body(g)
  OBVIOUS
<1>3. sum = body(sum)
  <2> HIDE DEF body, g
  <2> QED BY <1>2 DEF sum
<1>4. SumOf(s) = sum[Len(s)]
  BY DEF SumOf, sum
<1>5. sum[0] = 0 /\ sum[1] = (sum[0] + s[1]) % 256
  BY <1>3
<1>6. sum[1] = s[1] % 256
  <2>1. \A d \in Octet : 0 + d = d
    BY DEF Octet
  <2>2. 0 + s[1] = s[1]
    BY <1>1, <2>1
  <2> HIDE DEF body
  <2> QED BY <1>5, <2>2
<1>7. \A d \in Octet : d % 256 = d
  BY DEF Octet
<1> QED BY <1>1, <1>4, <1>6, <1>7

Answers4 == {r \in Seq(Octet) : Len(r) = 4}

(* The bytes of an answer.                                                 *)
LEMMA FourBytes ==
  ASSUME NEW r \in Answers4
  PROVE  /\ DOMAIN r = 1 .. 4 /\ r \in Seq(Octet) /\ Len(r) = 4
         /\ \A i \in 1 .. 4 : r[i] \in Octet
<1>1. r \in Seq(Octet) /\ Len(r) = 4
  BY DEF Answers4
<1> QED BY <1>1, LenProperties, ElementOfSeq

(* What of a record is still to come after its first i bytes.              *)
Owed(r, i) ==
  LET o4 == <<RKH_FLG>>
      o3 == rkh_trc_u8(r[4]) \o o4
      o2 == rkh_trc_u8(r[3]) \o o3
      o1 == rkh_trc_u8(r[2]) \o o2
  IN  IF i = 4 THEN o4 ELSE IF i = 3 THEN o3 ELSE IF i = 2 THEN o2 ELSE IF i = 1 THEN o1
      ELSE rkh_trc_u8(r[1]) \o o1

(* rkh_trc_u8() puts bytes.                                                *)
LEMMA StuffType ==
  ASSUME NEW d \in Octet
  PROVE  rkh_trc_u8(d) \in Seq(Octet)
<1>1. RKH_ESC \in Octet /\ Flip(d) \in Octet
  BY FlipOctet
<1> QED BY <1>1 DEF rkh_trc_u8

(* Byte by byte.                                                           *)
LEMMA OwedSteps ==
  ASSUME NEW r \in Answers4
  PROVE  /\ Owed(r, 4) = <<RKH_FLG>>
         /\ \A i \in 0 .. 3 : Owed(r, i) = rkh_trc_u8(r[i + 1]) \o Owed(r, i + 1)
         /\ \A i \in 0 .. 4 : Owed(r, i) \in Seq(Octet)
<1>1. Owed(r, 4) = <<RKH_FLG>> /\ <<RKH_FLG>> \in Seq(Octet)
  BY FlipOctet DEF Owed
<1>2. \A i \in 1 .. 4 : rkh_trc_u8(r[i]) \in Seq(Octet)
  BY StuffType, FourBytes
<1>3. /\ Owed(r, 3) = rkh_trc_u8(r[4]) \o Owed(r, 4)
      /\ Owed(r, 2) = rkh_trc_u8(r[3]) \o Owed(r, 3)
      /\ Owed(r, 1) = rkh_trc_u8(r[2]) \o Owed(r, 2)
      /\ Owed(r, 0) = rkh_trc_u8(r[1]) \o Owed(r, 1)
  BY DEF Owed
<1>4. /\ rkh_trc_u8(r[1]) \in Seq(Octet) /\ rkh_trc_u8(r[2]) \in Seq(Octet)
      /\ rkh_trc_u8(r[3]) \in Seq(Octet) /\ rkh_trc_u8(r[4]) \in Seq(Octet)
  BY <1>2
<1> HIDE DEF Owed
<1>0. \A x, y \in Seq(Octet) : x \o y \in Seq(Octet)
  BY ConcatProperties
<1>5. Owed(r, 3) \in Seq(Octet)
  BY <1>0, <1>1, <1>3, <1>4, Zenon
<1>6. Owed(r, 2) \in Seq(Octet)
  BY <1>0, <1>3, <1>4, <1>5, Zenon
<1>7. Owed(r, 1) \in Seq(Octet)
  BY <1>0, <1>3, <1>4, <1>6, Zenon
<1>8. Owed(r, 0) \in Seq(Octet)
  BY <1>0, <1>3, <1>4, <1>7, Zenon
<1>9. \A i \in 0 .. 3 : Owed(r, i) = rkh_trc_u8(r[i + 1]) \o Owed(r, i + 1)
  <2> SUFFICES ASSUME NEW i \in 0 .. 3
               PROVE  Owed(r, i) = rkh_trc_u8(r[i + 1]) \o Owed(r, i + 1)
    OBVIOUS
  <2>1. \/ i = 0 /\ i + 1 = 1
        \/ i = 1 /\ i + 1 = 2
        \/ i = 2 /\ i + 1 = 3
        \/ i = 3 /\ i + 1 = 4
    OBVIOUS
  <2> QED BY <1>3, <2>1
<1>10. \A i \in 0 .. 4 : Owed(r, i) \in Seq(Octet)
  <2>1. \A i \in 0 .. 4 : i = 0 \/ i = 1 \/ i = 2 \/ i = 3 \/ i = 4
    OBVIOUS
  <2> QED BY <1>1, <1>5, <1>6, <1>7, <1>8, <2>1
<1> QED BY <1>1, <1>9, <1>10

(* FlattenSeq() puts four sequences together.                              *)
LEMMA FlattenFour ==
  ASSUME NEW seqs
  PROVE  Len(seqs) = 4 => FlattenSeq(seqs) = ((seqs[1] \o seqs[2]) \o seqs[3]) \o seqs[4]
<1> DEFINE body(q) == [i \in 1 .. Len(seqs) |-> IF i = 1 THEN seqs[i] ELSE q[i - 1] \o seqs[i]]
           flatten == CHOOSE q : q = body(q)
           s1 == seqs[1]
           s2 == s1 \o seqs[2]
           s3 == s2 \o seqs[3]
           s4 == s3 \o seqs[4]
           g == [i \in 1 .. 4 |-> IF i = 1 THEN s1 ELSE IF i = 2 THEN s2
                                  ELSE IF i = 3 THEN s3 ELSE s4]
<1> HIDE DEF flatten
<1>0. FlattenSeq(seqs) = IF Len(seqs) = 0 THEN seqs ELSE flatten[Len(seqs)]
  BY DEF FlattenSeq, flatten
<1> SUFFICES ASSUME Len(seqs) = 4
             PROVE  FlattenSeq(seqs) = ((seqs[1] \o seqs[2]) \o seqs[3]) \o seqs[4]
  OBVIOUS
<1>1. g = body(g)
  <2> DEFINE e(i) == IF i = 1 THEN seqs[i] ELSE g[i - 1] \o seqs[i]
  <2>1. g[1] = s1 /\ g[2] = s2 /\ g[3] = s3 /\ g[4] = s4
    OBVIOUS
  <2>2. body(g) = [i \in 1 .. 4 |-> e(i)]
    OBVIOUS
  <2>3. \A i \in 1 .. 4 : i = 1 \/ (i = 2 /\ i - 1 = 1) \/ (i = 3 /\ i - 1 = 2)
                          \/ (i = 4 /\ i - 1 = 3)
    OBVIOUS
  <2>4. g = [i \in 1 .. 4 |-> g[i]]
    OBVIOUS
  <2> HIDE DEF g
  <2>5. \A i \in 1 .. 4 : g[i] = e(i)
    BY <2>1, <2>3
  <2> HIDE DEF e
  <2> QED BY <2>2, <2>4, <2>5
<1>2. flatten = body(flatten)
  <2> HIDE DEF body, g
  <2> QED BY <1>1 DEF flatten
<1>3. FlattenSeq(seqs) = flatten[4]
  BY <1>0
<1>4. /\ flatten[1] = seqs[1]
      /\ flatten[2] = flatten[1] \o seqs[2]
      /\ flatten[3] = flatten[2] \o seqs[3]
      /\ flatten[4] = flatten[3] \o seqs[4]
  <2>1. \A i \in 1 .. 4 : flatten[i] = IF i = 1 THEN seqs[i] ELSE flatten[i - 1] \o seqs[i]
    BY <1>2, Zenon
  <2>2. /\ 2 - 1 = 1 /\ 3 - 1 = 2 /\ 4 - 1 = 3
        /\ 1 \in 1 .. 4 /\ 2 \in 1 .. 4 /\ 3 \in 1 .. 4 /\ 4 \in 1 .. 4
        /\ 2 # 1 /\ 3 # 1 /\ 4 # 1
    OBVIOUS
  <2> QED BY <2>1, <2>2, Zenon
<1> QED BY <1>3, <1>4

(* The order in which sequences are put together does not matter.          *)
Associates(S) == \A x, y, z \in Seq(S) : (x \o y) \o z = x \o (y \o z)

LEMMA AllAssociate ==
  ASSUME NEW S
  PROVE  Associates(S)
<1> SUFFICES ASSUME NEW x \in Seq(S), NEW y \in Seq(S), NEW z \in Seq(S)
             PROVE  (x \o y) \o z = x \o (y \o z)
  BY DEF Associates
<1> QED BY ConcatAssociative

(* Five sequences, put together from either end.                           *)
LEMMA RegroupFive ==
  ASSUME NEW S, NEW a \in Seq(S), NEW b \in Seq(S), NEW c \in Seq(S), NEW d \in Seq(S),
         NEW e \in Seq(S)
  PROVE  /\ (((a \o b) \o c) \o d) \o e = a \o (b \o (c \o (d \o e)))
         /\ ((a \o b) \o c) \o d \in Seq(S)
<1>1. Associates(S)
  BY AllAssociate
<1>2. \A x, y, z \in Seq(S) : (x \o y) \o z = x \o (y \o z)
  BY <1>1, Zenon DEF Associates
<1>3. \A x, y \in Seq(S) : x \o y \in Seq(S)
  BY ConcatProperties
<1>4. PICK ab : ab \in Seq(S) /\ ab = a \o b
  BY <1>3, Zenon
<1>5. PICK abc : abc \in Seq(S) /\ abc = ab \o c
  BY <1>3, <1>4, Zenon
<1>6. PICK de : de \in Seq(S) /\ de = d \o e
  BY <1>3, Zenon
<1>7. PICK cde : cde \in Seq(S) /\ cde = c \o de
  BY <1>3, <1>6, Zenon
<1>8. ab \in Seq(S) /\ abc \in Seq(S) /\ de \in Seq(S) /\ cde \in Seq(S)
  BY <1>4, <1>5, <1>6, <1>7
<1>9. (abc \o d) \o e = abc \o (d \o e)
  <2>1. \A z \in Seq(S) : (abc \o d) \o z = abc \o (d \o z)
    BY <1>2, <1>8, Zenon
  <2> QED BY <2>1
<1>10. (ab \o c) \o de = ab \o (c \o de)
  <2>1. \A z \in Seq(S) : (ab \o c) \o z = ab \o (c \o z)
    BY <1>2, <1>8, Zenon
  <2> QED BY <1>8, <2>1
<1>11. (a \o b) \o cde = a \o (b \o cde)
  <2>1. \A z \in Seq(S) : (a \o b) \o z = a \o (b \o z)
    BY <1>2, Zenon
  <2> QED BY <1>8, <2>1
<1>12. abc \o d \in Seq(S)
  BY <1>3, <1>5, Zenon
<1> QED BY <1>4, <1>5, <1>6, <1>7, <1>9, <1>10, <1>11, <1>12, Zenon

(* What is sent of a record of four bytes.                                 *)
LEMMA EncodeFour ==
  ASSUME NEW r \in Answers4
  PROVE  Encode(r) = Owed(r, 0)
<1> DEFINE seqs == [i \in DOMAIN r |-> rkh_trc_u8(r[i])]
           a == rkh_trc_u8(r[1])
           b == rkh_trc_u8(r[2])
           c == rkh_trc_u8(r[3])
           d == rkh_trc_u8(r[4])
           f == <<RKH_FLG>>
<1>1. DOMAIN r = 1 .. 4 /\ \A i \in 1 .. 4 : r[i] \in Octet
  BY FourBytes
<1>2. Len(seqs) = 4 /\ seqs[1] = a /\ seqs[2] = b /\ seqs[3] = c /\ seqs[4] = d
  BY <1>1
<1>3. /\ a \in Seq(Octet) /\ b \in Seq(Octet) /\ c \in Seq(Octet) /\ d \in Seq(Octet)
      /\ f \in Seq(Octet)
  BY <1>1, StuffType, FlipOctet
<1>4. FlattenSeq(seqs) = ((a \o b) \o c) \o d
  <2> HIDE DEF seqs, a, b, c, d
  <2> QED BY <1>2, FlattenFour
<1>5. Owed(r, 0) = a \o (b \o (c \o (d \o f)))
  BY DEF Owed
<1>6. Encode(r) = Append(((a \o b) \o c) \o d, RKH_FLG)
  BY <1>4 DEF Encode
<1> HIDE DEF a, b, c, d
<1>7. RKH_FLG \in Octet
  BY FlipOctet
<1> HIDE DEF f
<1>8. /\ (((a \o b) \o c) \o d) \o f = a \o (b \o (c \o (d \o f)))
      /\ ((a \o b) \o c) \o d \in Seq(Octet)
  BY <1>3, RegroupFive
<1>9. Append(((a \o b) \o c) \o d, RKH_FLG) = (((a \o b) \o c) \o d) \o f
  <2> DEFINE x == ((a \o b) \o c) \o d
  <2>1. x \in Seq(Octet)
    BY <1>8
  <2> HIDE DEF x
  <2>2. Append(x, RKH_FLG) = x \o <<RKH_FLG>>
    BY <1>7, <2>1, AppendIsConcat
  <2> QED BY <2>2 DEF f, x
<1> QED BY <1>5, <1>6, <1>8, <1>9

(* A fourth byte.                                                          *)
LEMMA AppendFourth ==
  ASSUME NEW a \in Octet, NEW b \in Octet, NEW c \in Octet, NEW d \in Octet
  PROVE  Append(<<a, b, c>>, d) = <<a, b, c, d>>
<1> DEFINE x == <<a, b, c>>
           y == Append(x, d)
           z == <<a, b, c, d>>
<1>1. x \in Seq(Octet) /\ Len(x) = 3 /\ x[1] = a /\ x[2] = b /\ x[3] = c
  OBVIOUS
<1>2. /\ z \in Seq(Octet) /\ Len(z) = 4
      /\ z[1] = a /\ z[2] = b /\ z[3] = c /\ z[4] = d
  OBVIOUS
<1> HIDE DEF x, z
<1>3. /\ y \in Seq(Octet) /\ Len(y) = 4 /\ y[4] = d
      /\ \A i \in 1 .. 3 : y[i] = x[i]
  <2>1. /\ y \in Seq(Octet) /\ Len(y) = Len(x) + 1 /\ y[Len(x) + 1] = d
        /\ \A i \in 1 .. Len(x) : y[i] = x[i]
    <3>1. x \in Seq(Octet) /\ d \in Octet
      BY <1>1
    <3> QED BY <3>1, AppendProperties
  <2>2. 3 + 1 = 4
    OBVIOUS
  <2> HIDE DEF y
  <2> QED BY <1>1, <2>1, <2>2
<1> HIDE DEF y
<1>4. y[1] = a /\ y[2] = b /\ y[3] = c
  BY <1>1, <1>3
<1>5. \A i \in 1 .. 4 : y[i] = z[i]
  <2>1. \A i \in 1 .. 4 : i = 1 \/ i = 2 \/ i = 3 \/ i = 4
    OBVIOUS
  <2> QED BY <1>2, <1>3, <1>4, <2>1
<1>6. y = z
  BY <1>2, <1>3, <1>5, SeqEqual
<1> QED BY <1>6 DEF x, y, z

(* The record made of an answer: its sum is zero.                          *)
LEMMA AnswerMade ==
  ASSUME NEW v \in [status : {"SUCCESS", "FAIL"}, line : Octet], NEW r, r = AnswerRecord(v)
  PROVE  /\ r \in Answers4 /\ SumOf(r) = 0
         /\ r[1] = IF v.status = "FAIL" THEN RKH_TE_UT_FAIL ELSE RKH_TE_UT_SUCCESS
         /\ r[2] = v.line
<1> DEFINE k == IF v.status = "FAIL" THEN RKH_TE_UT_FAIL ELSE RKH_TE_UT_SUCCESS
           t == (((k + v.line) % 256) + 0) % 256
           c == (256 - t) % 256
<1>1. k \in Octet /\ v.line \in Octet /\ 0 \in Octet
  BY DEF Octet, RKH_TE_UT_FAIL, RKH_TE_UT_SUCCESS
<1>2. SumOf(<<k, v.line, 0>>) = t
  <2> HIDE DEF k
  <2> QED BY <1>1, SumOfThree
<1>3. r = Append(<<k, v.line, 0>>, (256 - SumOf(<<k, v.line, 0>>)) % 256)
  BY DEF AnswerRecord, Closed
<1> HIDE DEF k
<1>0. \A x \in Int : x % 256 \in Octet
  BY DEF Octet
<1>4. t \in Octet
  <2>1. k + v.line \in Int
    BY <1>1 DEF Octet
  <2>2. (k + v.line) % 256 \in Octet
    BY <1>0, <2>1
  <2>3. ((k + v.line) % 256) + 0 \in Int
    BY <2>2 DEF Octet
  <2> QED BY <1>0, <2>3
<1>5. c \in Octet /\ (t + c) % 256 = 0
  <2> HIDE DEF t
  <2> QED BY <1>4 DEF Octet
<1>6. r = <<k, v.line, 0, c>>
  <2>1. r = Append(<<k, v.line, 0>>, c)
    BY <1>2, <1>3
  <2> HIDE DEF c
  <2>2. Append(<<k, v.line, 0>>, c) = <<k, v.line, 0, c>>
    BY <1>1, <1>5, AppendFourth
  <2> QED BY <2>1, <2>2, Zenon
<1>7. SumOf(<<k, v.line, 0, c>>) = (t + c) % 256
  <2> HIDE DEF c
  <2> QED BY <1>1, <1>5, SumOfFour
<1>8. SumOf(r) = 0
  <2> HIDE DEF c, t
  <2> QED BY <1>5, <1>6, <1>7
<1> HIDE DEF c, t
<1>9. r \in Seq(Octet) /\ Len(r) = 4 /\ r[1] = k /\ r[2] = v.line
  BY <1>1, <1>5, <1>6
<1> QED BY <1>8, <1>9 DEF Answers4, k
-----------------------------------------------------------------------------
(* The ring, seen as a queue (what TraceRing_proofs shows of it, for the   *)
(* steps that occur here).                                                 *)

RingInv == Ring!TypeOK /\ Ring!RingShape /\ Ring!BlockInArray

(* TraceRing's assumptions hold of its instance.                           *)
LEMMA RingConstants == N \in Nat \ {0} /\ BlockReq \in Nat /\ {0, RKH_FLG} \subseteq Byte
BY UtrzSessionAssumption DEF Byte

(* What the ring holds is a sequence of bytes.                             *)
LEMMA HistorySeq ==
  Ring!TypeOK => /\ Ring!history \in Seq(Byte) /\ Len(Ring!history) = trcqty
                 /\ \A i \in 1 .. trcqty : Ring!history[i] = trcstm[Ring!Wrap(trcout + (i - 1))]
<1> SUFFICES ASSUME Ring!TypeOK
             PROVE  /\ Ring!history \in Seq(Byte) /\ Len(Ring!history) = trcqty
                    /\ \A i \in 1 .. trcqty : Ring!history[i] = trcstm[Ring!Wrap(trcout + (i - 1))]
  OBVIOUS
<1>1. \A i \in 1 .. trcqty : Ring!Cell(trcout, i - 1) \in Byte
  BY RingConstants DEF Ring!TypeOK, Ring!Cell, Ring!Wrap, Ring!Index
<1> QED BY <1>1 DEF Ring!history, Ring!TypeOK, Ring!Cell

(* A fresh stream holds a flag.                                            *)
LEMMA RingInit ==
  Ring!Init => RingInv /\ Ring!history = <<RKH_FLG>> /\ lent = <<>>
<1> SUFFICES ASSUME Ring!Init PROVE RingInv /\ Ring!history = <<RKH_FLG>> /\ lent = <<>>
  OBVIOUS
<1>1. RingInv
  BY RingConstants DEF RingInv, Ring!Init, Ring!TypeOK, Ring!RingShape, Ring!BlockInArray,
                       Ring!Index, Ring!Wrap
<1>2. Ring!history = <<RKH_FLG>>
  BY RingConstants DEF Ring!Init, Ring!history, Ring!Cell, Ring!Wrap, Ring!Index
<1> QED BY <1>1, <1>2 DEF Ring!Init

(* So does a ring opened again, whatever its cells held.                   *)
LEMMA RingFresh ==
  ASSUME NEW stm \in [Ring!Index -> Byte], Ring!Fresh(stm), blk' \in 0 .. N, nbytes' = 0,
         lent' = <<>>
  PROVE  RingInv' /\ Ring!history' = <<RKH_FLG>>
<1>1. RingInv'
  <2>1. /\ trcstm' \in [Ring!Index -> Byte] /\ trcin' \in Ring!Index /\ trcout' \in Ring!Index
        /\ trcqty' \in 0 .. N /\ trcin' = Ring!Wrap(trcout' + trcqty')
    BY RingConstants DEF Ring!Fresh, Ring!Index, Ring!Wrap
  <2>2. nbytes' \in 0 .. N /\ blk' + nbytes' <= N
    <3>1. \A n \in Nat : \A p \in 0 .. n : 0 \in 0 .. n /\ p + 0 <= n
      OBVIOUS
    <3>2. N \in Nat
      BY RingConstants
    <3> QED BY <3>1, <3>2
  <2>3. lent' \in Seq(Byte) /\ Len(lent') = nbytes'
    BY EmptySeq
  <2> QED BY <2>1, <2>2, <2>3
             DEF RingInv, Ring!TypeOK, Ring!RingShape, Ring!BlockInArray, Ring!Wrap, Ring!Index
<1>2. Ring!history' = <<RKH_FLG>>
  BY RingConstants DEF Ring!Fresh, Ring!history, Ring!Cell, Ring!Wrap, Ring!Index
<1> QED BY <1>1, <1>2

(* A put keeps the pointers and the counter of the ring in step.           *)
LEMMA RingPutInv ==
  ASSUME RingInv, NEW b \in Byte, Ring!rkh_trc_put(b)
  PROVE  RingInv'
<1>1. /\ N \in Nat \ {0} /\ trcqty \in 0 .. N /\ trcout \in 0 .. N - 1 /\ trcin \in 0 .. N - 1
      /\ trcin = Ring!Wrap(trcout + trcqty)
  BY RingConstants DEF RingInv, Ring!TypeOK, Ring!Index, Ring!RingShape
<1>2. trcstm' \in [Ring!Index -> Byte]
  BY DEF RingInv, Ring!TypeOK, Ring!rkh_trc_put
<1>3. /\ Ring!Wrap(trcin + 1) \in 0 .. N - 1
      /\ trcqty + 1 >= N => Ring!Wrap(trcin + 1) = Ring!Wrap(Ring!Wrap(trcin + 1) + N)
      /\ ~(trcqty + 1 >= N) => Ring!Wrap(trcin + 1) = Ring!Wrap(trcout + (trcqty + 1))
  BY <1>1 DEF Ring!Wrap
<1>4. /\ trcin' \in Ring!Index /\ trcout' \in Ring!Index /\ trcqty' \in 0 .. N
      /\ trcin' = Ring!Wrap(trcout' + trcqty')
  <2>1. CASE trcqty + 1 >= N
    BY <1>1, <1>3, <2>1 DEF Ring!rkh_trc_put, Ring!Index
  <2>2. CASE ~(trcqty + 1 >= N)
    <3>1. trcqty + 1 \in 0 .. N
      BY <1>1, <2>2
    <3> QED BY <1>1, <1>3, <2>2, <3>1 DEF Ring!rkh_trc_put, Ring!Index
  <2> QED BY <2>1, <2>2
<1>5. UNCHANGED <<blk, nbytes, lent>>
  BY DEF Ring!rkh_trc_put, Ring!flusher
<1> QED BY <1>2, <1>4, <1>5 DEF RingInv, Ring!TypeOK, Ring!RingShape, Ring!BlockInArray

(* A full ring loses its oldest byte.                                      *)
LEMMA RingPut ==
  ASSUME RingInv, NEW b \in Byte, Ring!rkh_trc_put(b)
  PROVE  /\ trcqty = N => Ring!history # <<>> /\ Ring!history' = Append(Tail(Ring!history), b)
         /\ trcqty # N => Ring!history' = Append(Ring!history, b)
         /\ UNCHANGED lent
<1> DEFINE old == Ring!history
           new == Ring!history'
<1>1. Ring!TypeOK /\ Ring!TypeOK'
  BY RingPutInv DEF RingInv
<1>2. /\ old \in Seq(Byte) /\ Len(old) = trcqty
      /\ \A i \in 1 .. trcqty : old[i] = trcstm[Ring!Wrap(trcout + (i - 1))]
  BY <1>1, HistorySeq
<1>3. /\ new \in Seq(Byte) /\ Len(new) = trcqty'
      /\ \A i \in 1 .. trcqty' : new[i] = trcstm'[Ring!Wrap(trcout' + (i - 1))]
  <2>1. (/\ Ring!history \in Seq(Byte) /\ Len(Ring!history) = trcqty
         /\ \A i \in 1 .. trcqty : Ring!history[i] = trcstm[Ring!Wrap(trcout + (i - 1))])'
    BY <1>1, HistorySeq, PTL
  <2> QED BY <2>1
<1> HIDE DEF old, new
<1>4. trcin = Ring!Wrap(trcout + trcqty) /\ trcqty \in 0 .. N /\ UNCHANGED lent
  BY DEF RingInv, Ring!RingShape, Ring!TypeOK, Ring!rkh_trc_put, Ring!flusher
<1>5. CASE trcqty = N
  <2>1. /\ Tail(old) \in Seq(Byte) /\ Len(Tail(old)) = N - 1 /\ old # <<>>
        /\ \A i \in 1 .. N - 1 : Tail(old)[i] = trcstm[Ring!Wrap(trcout + i)]
    <3>1. old # <<>>
      BY <1>2, <1>5, EmptySeq, RingConstants
    <3> QED BY <3>1, <1>2, <1>5, HeadTailProperties, RingConstants
  <2>2. trcin = trcout /\ trcout' = Ring!Wrap(trcout + 1) /\ trcqty' = N
    BY <1>1, <1>4, <1>5, RingConstants DEF Ring!rkh_trc_put, Ring!TypeOK, Ring!Wrap, Ring!Index
  <2>3. \A i \in 1 .. N - 1 : new[i] = Tail(old)[i]
    <3> SUFFICES ASSUME NEW i \in 1 .. N - 1 PROVE new[i] = Tail(old)[i]
      OBVIOUS
    <3>1. Ring!Wrap(trcout' + (i - 1)) = Ring!Wrap(trcout + i)
          /\ Ring!Wrap(trcout + i) \in Ring!Index /\ Ring!Wrap(trcout + i) # trcin
      BY <1>1, <2>2, RingConstants DEF Ring!TypeOK, Ring!Wrap, Ring!Index
    <3> QED BY <1>1, <1>3, <2>1, <2>2, <3>1 DEF Ring!rkh_trc_put, Ring!TypeOK
  <2>4. new[N] = b
    BY <1>1, <1>3, <2>2, RingConstants DEF Ring!rkh_trc_put, Ring!TypeOK, Ring!Wrap, Ring!Index
  <2>5. new = Append(Tail(old), b)
    <3>1. /\ Append(Tail(old), b) \in Seq(Byte) /\ Len(Append(Tail(old), b)) = N
          /\ \A i \in 1 .. N - 1 : Append(Tail(old), b)[i] = Tail(old)[i]
          /\ Append(Tail(old), b)[N] = b
      BY <2>1, RingConstants
    <3>2. \A i \in 1 .. N : new[i] = Append(Tail(old), b)[i]
      BY <2>3, <2>4, <3>1, RingConstants
    <3> QED BY <1>3, <2>2, <3>1, <3>2, SeqEqual
  <2> QED BY <1>4, <1>5, <2>1, <2>5 DEF old, new
<1>6. CASE trcqty # N
  <2>2. trcout' = trcout /\ trcqty' = trcqty + 1
    BY <1>1, <1>4, <1>6, RingConstants DEF Ring!rkh_trc_put, Ring!TypeOK, Ring!Wrap, Ring!Index
  <2>3. \A i \in 1 .. trcqty : new[i] = old[i]
    <3> SUFFICES ASSUME NEW i \in 1 .. trcqty PROVE new[i] = old[i]
      OBVIOUS
    <3>1. Ring!Wrap(trcout + (i - 1)) \in Ring!Index /\ Ring!Wrap(trcout + (i - 1)) # trcin
      BY <1>1, <1>4, <1>6, <2>2, RingConstants DEF Ring!TypeOK, Ring!Wrap, Ring!Index
    <3> QED BY <1>1, <1>2, <1>3, <2>2, <3>1 DEF Ring!rkh_trc_put, Ring!TypeOK
  <2>4. new[trcqty + 1] = b
    BY <1>1, <1>3, <1>4, <2>2, RingConstants
       DEF Ring!rkh_trc_put, Ring!TypeOK, Ring!Wrap, Ring!Index
  <2>5. new = Append(old, b)
    <3>1. /\ Append(old, b) \in Seq(Byte) /\ Len(Append(old, b)) = trcqty + 1
          /\ \A i \in 1 .. trcqty : Append(old, b)[i] = old[i]
          /\ Append(old, b)[trcqty + 1] = b
      BY <1>2, <1>4
    <3>2. \A i \in 1 .. trcqty + 1 : new[i] = Append(old, b)[i]
      BY <1>4, <2>3, <2>4, <3>1
    <3> QED BY <1>3, <2>2, <3>1, <3>2, SeqEqual
  <2> QED BY <1>4, <1>6, <2>5 DEF old, new
<1> QED BY <1>5, <1>6

(* A block is a piece of the front of the queue.                           *)
LEMMA RingTake ==
  ASSUME RingInv, Ring!rkh_trc_get_block(BlockReq)
  PROVE  /\ RingInv' /\ lent = <<>>
         /\ lent' \o Ring!history' = Ring!history
         /\ \A i \in 1 .. nbytes' : trcstm'[blk' + i - 1] = lent'[i]
<1> DEFINE n == Ring!BlockSize(BlockReq)
<1>1. n \in 0 .. trcqty /\ n <= N - trcout /\ trcqty \in 0 .. N /\ trcout \in 0 .. N - 1
  BY RingConstants DEF RingInv, Ring!TypeOK, Ring!BlockSize, Ring!Least, Ring!Index,
                       Ring!rkh_trc_get_block
<1>2. nbytes = 0 /\ Ring!HandOut(n)
  BY DEF Ring!rkh_trc_get_block
<1> HIDE DEF n
<1>3. lent = <<>>
  BY <1>2, EmptySeq DEF RingInv, Ring!TypeOK
<1>4. Ring!TypeOK'
  <2>1. \A i \in 1 .. n : Ring!Cell(trcout, i - 1) \in Byte
    BY <1>1, RingConstants DEF RingInv, Ring!TypeOK, Ring!Cell, Ring!Index, Ring!Wrap
  <2>2. lent' \in Seq(Byte) /\ Len(lent') = n
    BY <1>1, <1>2, <2>1 DEF Ring!HandOut
  <2> QED BY <1>1, <1>2, <2>2, RingConstants
             DEF RingInv, Ring!TypeOK, Ring!Index, Ring!Wrap, Ring!HandOut
<1>5. RingInv'
  BY <1>1, <1>2, <1>4, RingConstants
     DEF RingInv, Ring!TypeOK, Ring!RingShape, Ring!BlockInArray, Ring!HandOut, Ring!Index,
         Ring!Wrap
<1>6. \A i \in 1 .. nbytes' : trcstm'[blk' + i - 1] = lent'[i]
  BY <1>1, <1>2, RingConstants DEF Ring!HandOut, Ring!Cell, Ring!Wrap
<1>7. /\ Ring!history \in Seq(Byte) /\ Len(Ring!history) = trcqty
      /\ \A i \in 1 .. trcqty : Ring!history[i] = trcstm[Ring!Wrap(trcout + (i - 1))]
  BY HistorySeq DEF RingInv
<1> DEFINE old == Ring!history
           new == Ring!history'
<1>8. /\ new \in Seq(Byte) /\ Len(new) = trcqty'
      /\ \A i \in 1 .. trcqty' : new[i] = trcstm'[Ring!Wrap(trcout' + (i - 1))]
  <2>1. (/\ Ring!history \in Seq(Byte) /\ Len(Ring!history) = trcqty
         /\ \A i \in 1 .. trcqty : Ring!history[i] = trcstm[Ring!Wrap(trcout + (i - 1))])'
    BY <1>4, HistorySeq, PTL
  <2> QED BY <2>1
<1> HIDE DEF old, new
<1>9. /\ lent' \in Seq(Byte) /\ Len(lent') = n
      /\ \A i \in 1 .. n : lent'[i] = trcstm[Ring!Wrap(trcout + (i - 1))]
  <2>1. lent' \in Seq(Byte) /\ Len(lent') = nbytes'
    BY <1>4 DEF Ring!TypeOK
  <2> QED BY <1>1, <1>2, <2>1 DEF Ring!HandOut, Ring!Cell
<1>10. trcqty' = trcqty - n /\ trcstm' = trcstm
       /\ \A i \in 1 .. trcqty - n : Ring!Wrap(trcout' + (i - 1)) = Ring!Wrap(trcout + (n + i - 1))
  BY <1>1, <1>2, RingConstants DEF Ring!HandOut, Ring!Wrap
<1>11. /\ lent' \o new \in Seq(Byte) /\ Len(lent' \o new) = trcqty
       /\ \A i \in 1 .. trcqty : (lent' \o new)[i] = IF i <= n THEN lent'[i] ELSE new[i - n]
  <2>1. Len(lent') + Len(new) = trcqty
    BY <1>1, <1>8, <1>9, <1>10
  <2> QED BY <2>1, <1>8, <1>9, ConcatProperties
<1>12. \A i \in 1 .. trcqty : (lent' \o new)[i] = Ring!history[i]
  <2> SUFFICES ASSUME NEW i \in 1 .. trcqty PROVE (lent' \o new)[i] = Ring!history[i]
    OBVIOUS
  <2>1. CASE i <= n
    <3>1. i \in 1 .. n
      BY <1>1, <2>1
    <3> QED BY <1>7, <1>9, <1>11, <2>1, <3>1
  <2>2. CASE ~(i <= n)
    <3>1. i - n \in 1 .. trcqty - n /\ n + (i - n) - 1 = i - 1
      BY <1>1, <2>2
    <3> QED BY <1>7, <1>8, <1>10, <1>11, <2>2, <3>1
  <2> QED BY <2>1, <2>2
<1>13. lent' \o new = Ring!history
  BY <1>7, <1>11, <1>12, SeqEqual
<1> QED BY <1>3, <1>5, <1>6, <1>13 DEF new

(* The flush loop takes the first byte of its block.                       *)
LEMMA RingFlush ==
  ASSUME RingInv, Ring!FlushByte
  PROVE  /\ RingInv' /\ lent # <<>> /\ lent' = Tail(lent) /\ UNCHANGED Ring!history
         /\ \A i \in 1 .. nbytes' : lent'[i] = lent[i + 1]
<1>1. lent # <<>> /\ lent \in Seq(Byte) /\ Len(lent) = nbytes
  BY EmptySeq DEF Ring!FlushByte, RingInv, Ring!TypeOK
<1>2. /\ lent' \in Seq(Byte) /\ Len(lent') = nbytes - 1 /\ nbytes' = nbytes - 1
      /\ \A i \in 1 .. nbytes' : lent'[i] = lent[i + 1]
  BY <1>1, HeadTailProperties DEF Ring!FlushByte
<1>3. UNCHANGED Ring!history
  BY DEF Ring!FlushByte, Ring!ring, Ring!history, Ring!Cell
<1>4. RingInv'
  BY <1>2, RingConstants DEF RingInv, Ring!FlushByte, Ring!ring, Ring!TypeOK, Ring!RingShape,
                             Ring!BlockInArray, Ring!Index, Ring!Wrap
<1> QED BY <1>1, <1>2, <1>3, <1>4 DEF Ring!FlushByte
-----------------------------------------------------------------------------
(* Type correctness.                                                       *)

(* The bytes of records: none of them is a flag, nor the end of a client.  *)
LEMMA RecordBytes ==
  /\ Byte \subseteq Nat /\ RKH_FLG \in Byte /\ EOF \notin Byte
  /\ \A r \in Records :
       /\ Bytes[r] \in Seq(Byte) /\ Bytes[r] # <<>>
       /\ \A i \in 1 .. Len(Bytes[r]) : Bytes[r][i] # RKH_FLG
       /\ Whole(r) \in Seq(Byte) /\ Whole(r) # <<>>
<1>1. \A r \in Records : /\ Bytes[r] # <<>> /\ Bytes[r] \in Seq(Nat \ {RKH_FLG})
                         /\ Len(Bytes[r]) \in Nat
                         /\ \A i \in 1 .. Len(Bytes[r]) : Bytes[r][i] \in Nat \ {RKH_FLG}
  <2> SUFFICES ASSUME NEW r \in Records
               PROVE  /\ Bytes[r] # <<>> /\ Bytes[r] \in Seq(Nat \ {RKH_FLG})
                      /\ Len(Bytes[r]) \in Nat
                      /\ \A i \in 1 .. Len(Bytes[r]) : Bytes[r][i] \in Nat \ {RKH_FLG}
    OBVIOUS
  <2>1. Bytes[r] # <<>> /\ Bytes[r] \in Seq(Nat \ {RKH_FLG})
    BY UtrzSessionAssumption
  <2> QED BY <2>1, ElementOfSeq, LenProperties
<1>2. Byte \subseteq Nat
  <2> SUFFICES ASSUME NEW b \in Byte PROVE b \in Nat
    OBVIOUS
  <2>1. CASE b \in {0, RKH_FLG}
    BY <2>1 DEF RKH_FLG
  <2>2. CASE b \in UNION {ToSet(Bytes[r]) : r \in Records}
    <3>1. PICK r \in Records : b \in ToSet(Bytes[r])
      BY <2>2
    <3>2. PICK i \in DOMAIN Bytes[r] : b = Bytes[r][i]
      BY <3>1 DEF ToSet
    <3>3. DOMAIN Bytes[r] = 1 .. Len(Bytes[r])
      BY <1>1, LenProperties
    <3> QED BY <1>1, <3>2, <3>3
  <2> QED BY <2>1, <2>2 DEF Byte
<1>3. RKH_FLG \in Byte
  BY DEF Byte
<1>4. ASSUME NEW r \in Records
      PROVE  /\ Bytes[r] \in Seq(Byte) /\ Bytes[r] # <<>>
             /\ \A i \in 1 .. Len(Bytes[r]) : Bytes[r][i] # RKH_FLG
             /\ Whole(r) \in Seq(Byte) /\ Whole(r) # <<>>
  <2> DEFINE s == Bytes[r]
  <2>1. s \in Seq(Nat \ {RKH_FLG}) /\ s # <<>> /\ \A i \in 1 .. Len(s) : s[i] # RKH_FLG
    BY <1>1
  <2>2. DOMAIN s = 1 .. Len(s) /\ Len(s) \in Nat
    BY <2>1, LenProperties
  <2>3. \A i \in 1 .. Len(s) : s[i] \in Byte
    <3>1. \A i \in 1 .. Len(s) : s[i] \in ToSet(s)
      BY <2>2 DEF ToSet
    <3>2. ToSet(s) \subseteq Byte
      BY DEF Byte
    <3> QED BY <3>1, <3>2
  <2>4. s \in Seq(Byte)
    BY <2>1, <2>2, <2>3, SeqDef
  <2>5. Append(s, RKH_FLG) \in Seq(Byte) /\ Append(s, RKH_FLG) # <<>>
    BY <1>3, <2>4, AppendProperties
  <2> QED BY <2>1, <2>4, <2>5 DEF Whole
<1>5. EOF \notin Byte
  BY <1>2, UtrzSessionAssumption
<1> QED BY <1>2, <1>3, <1>4, <1>5

(* Whatever is answered is the verdict on a record just completed, and is  *)
(* sent as four bytes, behind a flag when a test begins.                   *)
LEMMA AnswerSent ==
  ASSUME NEW b
  PROVE  \/ /\ Answers(b) = <<>> /\ Sent(b) = <<>>
            /\ \A r \in Completed(b) : ~utrz_running /\ r # UT_INIT
         \/ \E r \in Completed(b) :
              /\ Answers(b) = <<Verdict[r]>>
              /\ AnswerRecord(Verdict[r]) \in Answers4
              /\ Sent(b) = (IF UT_INIT \in Completed(b) THEN <<RKH_FLG>> ELSE <<>>)
                           \o Owed(AnswerRecord(Verdict[r]), 0)
<1> DEFINE C == Completed(b)
<1>1. CASE \A r \in C : ~utrz_running /\ r # UT_INIT
  <2>1. Answers(b) = <<>>
    BY <1>1 DEF Answers
  <2> QED BY <1>1, <2>1 DEF Sent
<1>2. CASE ~\A r \in C : ~utrz_running /\ r # UT_INIT
  <2>1. PICK r : r = CHOOSE q \in C : TRUE
    OBVIOUS
  <2>2. r \in C
    BY <1>2, <2>1
  <2>3. Answers(b) = <<Verdict[r]>>
    BY <1>2, <2>1 DEF Answers
  <2>4. Verdict[r] \in [status : {"SUCCESS", "FAIL"}, line : Octet]
    BY <2>2, UtrzSessionAssumption DEF Completed
  <2>5. PICK a : a = AnswerRecord(Verdict[r])
    OBVIOUS
  <2>6. a \in Answers4
    BY <2>4, <2>5, AnswerMade
  <2>7. Encode(a) = Owed(a, 0)
    BY <2>6, EncodeFour
  <2>8. Head(Answers(b)) = Verdict[r] /\ Answers(b) # <<>>
    BY <2>3
  <2> HIDE DEF C
  <2>9. Sent(b) = (IF UT_INIT \in C THEN <<RKH_FLG>> ELSE <<>>) \o Owed(a, 0)
    BY <2>5, <2>7, <2>8 DEF Sent, C
  <2> QED BY <2>2, <2>3, <2>5, <2>6, <2>9 DEF C
<1> QED BY <1>1, <1>2

EngineOK ==
  /\ tr \in Seq(Byte) /\ utrz_running \in BOOLEAN /\ utrz_last_resp \in Verdicts

(* tzparser_exec() keeps its variables within their types, and what it     *)
(* sends are bytes.                                                        *)
LEMMA ExecOK ==
  ASSUME EngineOK, NEW b \in Byte, tzparser_exec(b)
  PROVE  EngineOK' /\ Sent(b) \in Seq(Octet)
<1>1. tr' \in Seq(Byte)
  <2>1. Append(tr, b) \in Seq(Byte)
    BY AppendProperties DEF EngineOK
  <2> QED BY <2>1 DEF tzparser_exec
<1>2. utrz_running' \in BOOLEAN
  BY DEF tzparser_exec
<1>3. utrz_last_resp' \in Verdicts /\ Sent(b) \in Seq(Octet)
  <2>1. CASE Answers(b) = <<>> /\ Sent(b) = <<>>
    BY <2>1 DEF tzparser_exec, EngineOK
  <2>2. ASSUME NEW r \in Completed(b),
               Answers(b) = <<Verdict[r]>>, AnswerRecord(Verdict[r]) \in Answers4,
               Sent(b) = (IF UT_INIT \in Completed(b) THEN <<RKH_FLG>> ELSE <<>>)
                         \o Owed(AnswerRecord(Verdict[r]), 0)
        PROVE  utrz_last_resp' \in Verdicts /\ Sent(b) \in Seq(Octet)
    <3>1. Verdict[r] \in Verdicts
      BY UtrzSessionAssumption DEF Completed, Verdicts
    <3>2. utrz_last_resp' = Verdict[r]
      BY <2>2 DEF tzparser_exec
    <3>3. PICK x : x = IF UT_INIT \in Completed(b) THEN <<RKH_FLG>> ELSE <<>>
      OBVIOUS
    <3>4. PICK y : y = Owed(AnswerRecord(Verdict[r]), 0)
      OBVIOUS
    <3>5. x \in Seq(Octet)
      BY <3>3, FlipOctet
    <3>6. y \in Seq(Octet)
      <4>1. 0 \in 0 .. 4
        OBVIOUS
      <4> QED BY <2>2, <3>4, <4>1, OwedSteps
    <3>7. x \o y \in Seq(Octet)
      BY <3>5, <3>6, ConcatProperties
    <3>8. Sent(b) = x \o y
      BY <2>2, <3>3, <3>4
    <3> QED BY <3>1, <3>2, <3>7, <3>8
  <2> QED BY <2>1, <2>2, AnswerSent
<1> QED BY <1>1, <1>2, <1>3 DEF EngineOK
-----------------------------------------------------------------------------
TestOK ==
  /\ build \in Builds
  /\ pc \in {"idle", "putting", "flushing", "last block", "waiting", "dead"}
  /\ current \in Records \cup {None} /\ todo \in Seq(Byte)
  /\ greeted \in BOOLEAN /\ told \in Verdicts
  /\ state \in {"COLLECT", "ESCAPING"} /\ answer \in Seq(Octet)
  /\ sessions \in 1 .. MaxSessions

WiresOK == toEngine \in Seq(Byte \cup {EOF}) /\ toClient \in Seq(Octet) /\ present \in BOOLEAN

(* The bytes of a block stay what they were: no record is made while the   *)
(* stream is flushed.                                                      *)
Intact == \A i \in 1 .. nbytes : trcstm[blk + i - 1] = lent[i]

(* What is going on in each state of the test's thread.                    *)
Turns ==
  /\ todo # <<>> <=> pc = "putting"
  /\ Busy => current \in Records /\ greeted
  /\ nbytes > 0 => pc \in {"flushing", "last block"}
  /\ build = "library" => /\ pc # "dead" /\ present
                          /\ toEngine = <<>> /\ toClient = <<>>
  /\ build = "socket" => /\ pc # "last block"
                         /\ pc = "waiting" \/ (pc = "idle" /\ greeted) => trcqty = 0

TInv == RingInv /\ TestOK /\ WiresOK /\ EngineOK /\ Intact /\ Turns

LEMMA TInvTypes == TInv => TypeOK
BY DEF TInv, RingInv, TestOK, WiresOK, EngineOK, TypeOK

LEMMA InitTInv == Init => TInv
<1> SUFFICES ASSUME Init PROVE TInv
  OBVIOUS
<1>1. RingInv /\ Intact /\ nbytes = 0
  <2>1. Ring!Init /\ nbytes = 0
    BY DEF Init, Ring!Init
  <2> QED BY <2>1, RingInit DEF Intact
<1>2. TestOK
  <2>1. told \in Verdicts
    BY DEF Init, NoVerdict, Verdicts, Octet
  <2>2. sessions \in 1 .. MaxSessions
    BY UtrzSessionAssumption DEF Init
  <2> QED BY <2>1, <2>2, EmptySeq DEF Init, TestOK
<1>3. WiresOK /\ EngineOK
  <2>1. utrz_last_resp \in Verdicts
    BY DEF Init, NoVerdict, Verdicts, Octet
  <2> QED BY <2>1, EmptySeq DEF Init, WiresOK, EngineOK
<1>4. Turns
  BY <1>1 DEF Init, Turns, Busy
<1> QED BY <1>1, <1>2, <1>3, <1>4 DEF TInv

(* What of the state TInv's part on the ring depends on.                   *)
LEMMA RingStays ==
  ASSUME RingInv, Intact, UNCHANGED stream
  PROVE  RingInv' /\ Intact' /\ UNCHANGED Ring!history
BY DEF stream, RingInv, Intact, Ring!TypeOK, Ring!RingShape, Ring!BlockInArray, Ring!Wrap,
       Ring!Index, Ring!history, Ring!Cell

(* A byte the engine reads.                                                *)
LEMMA ReadsTInv == TInv /\ EngineReads => TInv'
<1> SUFFICES ASSUME TInv, EngineReads PROVE TInv'
  OBVIOUS
<1> USE DEF EngineReads, test, parser
<1>1. RingInv' /\ Intact'
  BY RingStays DEF TInv
<1>2. TestOK'
  BY DEF TInv, TestOK
<1>3. toEngine \in Seq(Byte \cup {EOF}) /\ toEngine # <<>> /\ toClient \in Seq(Octet)
  BY DEF TInv, WiresOK
<1>4. Head(toEngine) \in Byte \cup {EOF} /\ toEngine' \in Seq(Byte \cup {EOF})
  BY <1>3, HeadTailProperties
<1>5. EngineOK' /\ toClient' \in Seq(Octet)
  <2>1. CASE Head(toEngine) = EOF
    BY <1>3, <2>1 DEF TInv, EngineOK
  <2>2. CASE Head(toEngine) # EOF
    <3>1. PICK b : b = Head(toEngine) /\ b \in Byte
      BY <1>4, <2>2
    <3>2. tzparser_exec(b)
      BY <2>2, <3>1
    <3>3. EngineOK' /\ Sent(b) \in Seq(Octet)
      BY <3>1, <3>2, ExecOK DEF TInv
    <3>4. toClient' = toClient \o Sent(b) \/ toClient' = toClient
      BY <2>2, <3>1
    <3>5. toClient \o Sent(b) \in Seq(Octet)
      BY <1>3, <3>3, ConcatProperties
    <3> QED BY <1>3, <3>3, <3>4, <3>5
  <2> QED BY <2>1, <2>2
<1>6. WiresOK'
  BY <1>4, <1>5 DEF TInv, WiresOK
<1>7. Turns'
  BY <1>3 DEF TInv, Turns, Busy, stream
<1> QED BY <1>1, <1>2, <1>5, <1>6, <1>7 DEF TInv

(* Somebody presses ESC.                                                   *)
LEMMA EndsTInv == TInv /\ EngineEnds => TInv'
<1> SUFFICES ASSUME TInv, EngineEnds PROVE TInv'
  OBVIOUS
<1> USE DEF EngineEnds, test, parser
<1>1. RingInv' /\ Intact'
  BY RingStays DEF TInv
<1>2. TestOK' /\ EngineOK'
  BY EmptySeq DEF TInv, TestOK, EngineOK
<1>3. toClient' \in Seq(Octet)
  <2>1. PICK n \in 0 .. Len(toClient) : toClient' = SubSeq(toClient, 1, n)
    OBVIOUS
  <2>2. toClient \in Seq(Octet)
    BY DEF TInv, WiresOK
  <2> QED BY <2>1, <2>2
<1>4. WiresOK'
  BY <1>3, EmptySeq DEF TInv, WiresOK
<1>5. Turns'
  BY DEF TInv, Turns, Busy, stream
<1> QED BY <1>1, <1>2, <1>4, <1>5 DEF TInv

(* A record begins.                                                        *)
LEMMA BeginTInv ==
  ASSUME TInv, NEW r \in Records, BeginRecord(r)
  PROVE  TInv'
<1> USE DEF BeginRecord, Begin, parser, wires
<1>1. RingInv' /\ Intact'
  BY RingStays DEF TInv
<1>2. todo' \in Seq(Byte) /\ todo' # <<>>
  BY RecordBytes
<1>3. told' \in Verdicts
  BY DEF TInv, TestOK, NoVerdict, Verdicts, Octet
<1>4. TestOK'
  BY <1>2, <1>3 DEF TInv, TestOK
<1>5. WiresOK' /\ EngineOK'
  BY DEF TInv, WiresOK, EngineOK
<1>6. Turns'
  BY <1>2 DEF TInv, Turns, Busy, stream
<1> QED BY <1>1, <1>4, <1>5, <1>6 DEF TInv

(* A byte is put.                                                          *)
LEMMA PutTInv == TInv /\ PutByte => TInv'
<1> SUFFICES ASSUME TInv, PutByte PROVE TInv'
  OBVIOUS
<1> USE DEF PutByte, parser, wires, engine
<1>1. todo \in Seq(Byte) /\ todo # <<>> /\ nbytes = 0
  BY DEF TInv, TestOK, Turns, RingInv, Ring!TypeOK
<1>2. Head(todo) \in Byte /\ todo' \in Seq(Byte)
  BY <1>1, HeadTailProperties
<1>3. RingInv' /\ nbytes' = 0
  <2>1. RingInv'
    <3>1. PICK b : b = Head(todo)
      OBVIOUS
    <3> QED BY <1>2, <3>1, RingPutInv DEF TInv
  <2> QED BY <1>1, <2>1 DEF Ring!rkh_trc_put, Ring!flusher
<1>4. Intact'
  BY <1>3 DEF Intact
<1>5. TestOK'
  BY <1>2 DEF TInv, TestOK
<1>6. WiresOK' /\ EngineOK'
  BY DEF TInv, WiresOK, EngineOK
<1>7. Turns'
  BY <1>3 DEF TInv, Turns, Busy
<1> QED BY <1>3, <1>4, <1>5, <1>6, <1>7 DEF TInv

(* A block is taken.                                                       *)
LEMMA TakeTInv == TInv /\ FlushBlock => TInv'
<1> SUFFICES ASSUME TInv, FlushBlock PROVE TInv'
  OBVIOUS
<1> USE DEF FlushBlock, parser, wires, engine
<1>1. RingInv' /\ Intact'
  BY RingTake DEF TInv, Intact
<1>2. TestOK'
  BY DEF TInv, TestOK
<1>3. WiresOK' /\ EngineOK'
  BY DEF TInv, WiresOK, EngineOK
<1>4. Turns'
  BY DEF TInv, Turns, Busy
<1> QED BY <1>1, <1>2, <1>3, <1>4 DEF TInv

LEMMA Pointers ==
  TInv => nbytes \in Nat /\ blk \in Nat /\ trcqty \in 0 .. N
BY RingConstants DEF TInv, RingInv, Ring!TypeOK

LEMMA NextPlace ==
  ASSUME NEW n \in Nat, NEW p \in Nat, NEW i \in 1 .. n - 1
  PROVE  i + 1 \in 1 .. n /\ (p + 1) + i - 1 = p + (i + 1) - 1
OBVIOUS

(* The byte of the block that is next is the first of those lent.          *)
LEMMA NextOfBlock ==
  ASSUME TInv, Ring!FlushByte
  PROVE  /\ lent # <<>> /\ trcstm[blk] = Head(lent) /\ trcstm[blk] \in Byte
         /\ lent \in Seq(Byte)
<1>1. /\ nbytes > 0 /\ nbytes \in 0 .. N /\ blk \in 0 .. N /\ blk + nbytes <= N
      /\ lent \in Seq(Byte) /\ Len(lent) = nbytes /\ trcstm \in [0 .. N - 1 -> Byte]
  BY DEF TInv, RingInv, Ring!TypeOK, Ring!BlockInArray, Ring!FlushByte, Ring!Index
<1>2. lent # <<>>
  BY <1>1, EmptySeq
<1>3. blk \in 0 .. N - 1 /\ blk + 1 - 1 = blk /\ 1 \in 1 .. nbytes
  BY <1>1, RingConstants
<1>4. trcstm[blk] = lent[1]
  BY <1>3 DEF TInv, Intact
<1>5. Head(lent) = lent[1]
  BY <1>1, <1>2, HeadTailProperties
<1> QED BY <1>1, <1>2, <1>3, <1>4, <1>5

(* A byte of the block is sent, or parsed.                                 *)
LEMMA FlushTInv == TInv /\ FlushByte => TInv'
<1> SUFFICES ASSUME TInv, FlushByte PROVE TInv'
  OBVIOUS
<1> USE DEF FlushByte, test, parser, engine
<1>1. RingInv' /\ lent # <<>> /\ \A i \in 1 .. nbytes' : lent'[i] = lent[i + 1]
  BY RingFlush DEF TInv
<1>2. Intact'
  <2> SUFFICES ASSUME NEW i \in 1 .. nbytes' PROVE trcstm'[blk' + i - 1] = lent'[i]
    BY DEF Intact
  <2>1. nbytes \in Nat /\ nbytes' = nbytes - 1 /\ blk' = blk + 1 /\ blk \in Nat
    BY Pointers DEF Ring!FlushByte
  <2>2. i + 1 \in 1 .. nbytes /\ blk' + i - 1 = blk + (i + 1) - 1
    BY <2>1, NextPlace
  <2>3. trcstm[blk + (i + 1) - 1] = lent[i + 1]
    BY <2>2 DEF TInv, Intact
  <2> QED BY <1>1, <2>2, <2>3 DEF Ring!FlushByte, Ring!ring
<1>3. trcstm[blk] \in Byte
  BY NextOfBlock
<1>4. EngineOK'
  <2>1. CASE build = "library"
    BY <1>3, <2>1, ExecOK DEF TInv
  <2>2. CASE build # "library"
    BY <2>2 DEF TInv, EngineOK
  <2> QED BY <2>1, <2>2
<1>5. TestOK'
  BY DEF TInv, TestOK
<1>6. WiresOK'
  <2>1. PICK b : b = trcstm[blk]
    OBVIOUS
  <2>2. Append(toEngine, b) \in Seq(Byte \cup {EOF})
    BY <1>3, <2>1, AppendProperties DEF TInv, WiresOK
  <2> QED BY <2>1, <2>2 DEF TInv, WiresOK, SendToEngine
<1>7. Turns'
  <2>1. nbytes' > 0 => nbytes > 0
    BY DEF TInv, RingInv, Ring!TypeOK, Ring!FlushByte
  <2> QED BY <2>1 DEF TInv, Turns, Busy, Ring!FlushByte, Ring!ring
<1> QED BY <1>1, <1>2, <1>4, <1>5, <1>6, <1>7 DEF TInv

(* There is no more to flush.                                              *)
LEMMA FlushedTInv == TInv /\ Flushed => TInv'
<1> SUFFICES ASSUME TInv, Flushed PROVE TInv'
  OBVIOUS
<1>1. RingInv' /\ Intact'
  BY RingStays DEF TInv, Flushed
<1>2. TestOK'
  BY DEF TInv, TestOK, Flushed, parser
<1>3. WiresOK' /\ EngineOK'
  BY DEF TInv, WiresOK, EngineOK, Flushed, wires, engine
<1>4. Turns'
  <2>1. /\ nbytes' = 0 /\ todo' = todo /\ pc' = "waiting" /\ pc # "putting"
        /\ pc \in {"flushing", "last block"} /\ (pc = "last block" \/ trcqty = 0)
        /\ current' = current /\ greeted' = greeted
        /\ build' = build /\ present' = present
        /\ toEngine' = toEngine /\ toClient' = toClient /\ trcqty' = trcqty
    BY DEF Flushed, stream, wires, engine
  <2>2. /\ todo = <<>> /\ current \in Records /\ greeted
        /\ build = "library" => present /\ toEngine = <<>> /\ toClient = <<>>
        /\ build = "socket" => trcqty = 0
    BY <2>1 DEF TInv, Turns, Busy
  <2>3. /\ todo' = <<>> /\ current' \in Records /\ greeted'
        /\ build' = "library" => present' /\ toEngine' = <<>> /\ toClient' = <<>>
        /\ build' = "socket" => trcqty' = 0
    BY <2>1, <2>2, Zenon
  <2>4. ~(nbytes' > 0) /\ pc' = "waiting"
    <3>1. nbytes' = 0 /\ pc' = "waiting"
      BY <2>1, Zenon
    <3>2. ~(0 > 0)
      OBVIOUS
    <3> QED BY <3>1, <3>2, Zenon
  <2>5. (todo' # <<>> <=> pc' = "putting") /\ pc' # "dead" /\ pc' # "last block"
    BY <2>3, <2>4
  <2> QED BY <2>3, <2>4, <2>5, Zenon DEF Turns, Busy
<1> QED BY <1>1, <1>2, <1>3, <1>4 DEF TInv

(* Whatever the hook concludes from an answer is a verdict.                *)
LEMMA JudgedType ==
  ASSUME TestOK, Meaningful
  PROVE  Judged \in Verdicts
<1>1. answer \in Seq(Octet) /\ answer # <<>> /\ told \in Verdicts
  BY DEF TestOK, Meaningful
<1>2. CASE SumOf(answer) # 0
  BY <1>2 DEF Judged, Verdicts, Octet
<1>3. CASE SumOf(answer) = 0 /\ answer[1] = RKH_TE_UT_FAIL
  <2>1. Len(answer) \in Nat \ {0}
    BY <1>1, EmptySeq, LenProperties
  <2>2. Len(answer) # 1
    BY <1>1, <1>3, SumOfOne DEF RKH_TE_UT_FAIL
  <2>3. 2 \in 1 .. Len(answer)
    <3>1. \A k \in Nat \ {0} : k # 1 => 2 \in 1 .. k
      OBVIOUS
    <3> QED BY <2>1, <2>2, <3>1, Zenon
  <2>4. answer[2] \in Octet
    BY <1>1, <2>3, ElementOfSeq
  <2> QED BY <1>3, <2>4 DEF Judged, Verdicts
<1>4. CASE SumOf(answer) = 0 /\ answer[1] # RKH_TE_UT_FAIL
  BY <1>1, <1>4 DEF Judged, Verdicts
<1> QED BY <1>2, <1>3, <1>4

(* A byte of an answer is parsed.                                          *)
LEMMA ReceiveTInv == TInv /\ Receive => TInv'
<1> SUFFICES ASSUME TInv, Receive PROVE TInv'
  OBVIOUS
<1> DEFINE d == Head(toClient)
<1> USE DEF Receive, engine
<1>1. RingInv' /\ Intact'
  BY RingStays DEF TInv
<1>2. d \in Octet /\ toClient' \in Seq(Octet) /\ TestOK /\ answer \in Seq(Octet)
  BY HeadTailProperties DEF TInv, WiresOK, TestOK
<1>3. utrazer_parse(d)
  OBVIOUS
<1> HIDE DEF d
<1>4. answer' \in Seq(Octet) /\ state' \in {"COLLECT", "ESCAPING"}
  <2>1. Append(answer, d) \in Seq(Octet)
    BY <1>2, AppendProperties
  <2>2. Append(answer, Flip(d)) \in Seq(Octet)
    <3>1. Flip(d) \in Octet
      BY <1>2, FlipOctet
    <3> QED BY <1>2, <3>1, AppendProperties
  <2>3. CASE Collecting(d)
    BY <1>2, <2>1, <2>3, EmptySeq DEF Collecting
  <2>4. CASE Escaping(d)
    BY <2>2, <2>4, EmptySeq DEF Escaping
  <2> QED BY <1>3, <2>3, <2>4 DEF utrazer_parse
<1>5. \/ KeepWaiting
      \/ Meaningful /\ Conclude(Judged)
  BY <1>3 DEF utrazer_parse, Collecting, Escaping
<1>6. TestOK'
  <2>1. CASE KeepWaiting
    BY <1>2, <1>4, <2>1 DEF TestOK, KeepWaiting
  <2>2. CASE Meaningful /\ Conclude(Judged)
    <3>1. Judged \in Verdicts
      BY <1>2, <2>2, JudgedType
    <3> QED BY <1>2, <1>4, <2>2, <3>1 DEF TestOK, Conclude
  <2> QED BY <1>5, <2>1, <2>2
<1>7. WiresOK' /\ EngineOK'
  BY <1>2 DEF TInv, WiresOK, EngineOK
<1>8. Turns'
  <2>1. CASE KeepWaiting
    BY <2>1 DEF TInv, Turns, Busy, stream, KeepWaiting
  <2>2. CASE Conclude(Judged)
    BY <2>2 DEF TInv, Turns, Busy, stream, Conclude
  <2> QED BY <1>5, <2>1, <2>2
<1> QED BY <1>1, <1>6, <1>7, <1>8 DEF TInv

(* The hook gives the test up.                                             *)
LEMMA FailsTInv == TInv /\ ReceiveFails => TInv'
<1> SUFFICES ASSUME TInv, ReceiveFails PROVE TInv'
  OBVIOUS
<1> USE DEF ReceiveFails, Conclude, parser, wires, engine
<1>1. RingInv' /\ Intact'
  BY RingStays DEF TInv
<1>2. told' \in Verdicts
  BY DEF TInv, TestOK, Verdicts
<1>3. TestOK'
  BY <1>2 DEF TInv, TestOK
<1>4. WiresOK' /\ EngineOK'
  BY DEF TInv, WiresOK, EngineOK
<1>5. Turns'
  BY DEF TInv, Turns, Busy, stream
<1> QED BY <1>1, <1>3, <1>4, <1>5 DEF TInv

(* The library is asked.                                                   *)
LEMMA LooksTInv == TInv /\ LookAtLastResp => TInv'
<1> SUFFICES ASSUME TInv, LookAtLastResp PROVE TInv'
  OBVIOUS
<1> USE DEF LookAtLastResp, Conclude, parser, wires, engine
<1>1. RingInv' /\ Intact'
  BY RingStays DEF TInv
<1>2. told' \in Verdicts
  BY DEF TInv, EngineOK, Verdicts, Octet
<1>3. TestOK'
  BY <1>2 DEF TInv, TestOK
<1>4. WiresOK' /\ EngineOK'
  BY DEF TInv, WiresOK, EngineOK
<1>5. Turns'
  BY DEF TInv, Turns, Busy, stream
<1> QED BY <1>1, <1>3, <1>4, <1>5 DEF TInv

(* The test is killed.                                                     *)
LEMMA DieTInv == TInv /\ Die => TInv'
<1> SUFFICES ASSUME TInv, Die PROVE TInv'
  OBVIOUS
<1> USE DEF Die, parser, engine
<1>1. RingInv' /\ Intact'
  BY RingStays DEF TInv
<1>2. TestOK' /\ EngineOK'
  BY EmptySeq DEF TInv, TestOK, EngineOK
<1>3. WiresOK'
  <2>1. Append(toEngine, EOF) \in Seq(Byte \cup {EOF})
    BY AppendProperties DEF TInv, WiresOK
  <2> QED BY <2>1, EmptySeq DEF TInv, WiresOK, SendToEngine
<1>4. Turns'
  <2>1. nbytes' = 0 /\ todo' = <<>> /\ pc' = "dead" /\ build' = "socket"
    BY DEF stream
  <2> QED BY <2>1 DEF Turns, Busy
<1> QED BY <1>1, <1>2, <1>3, <1>4 DEF TInv

(* It is started again.                                                    *)
LEMMA StartTInv == TInv /\ Start => TInv'
<1> SUFFICES ASSUME TInv, Start PROVE TInv'
  OBVIOUS
<1> USE DEF Start, wires, engine
<1>0. nbytes = 0 /\ lent = <<>>
  BY EmptySeq DEF TInv, Turns, RingInv, Ring!TypeOK
<1>1. RingInv' /\ Ring!history' = <<RKH_FLG>> /\ nbytes' = 0
  <2>1. PICK stm : stm = [i \in Ring!Index |-> 0]
    OBVIOUS
  <2>2. stm \in [Ring!Index -> Byte]
    BY <2>1, RingConstants
  <2>3. Ring!Fresh(stm)
    BY <2>1 DEF OpenStream
  <2> QED BY <1>0, <2>2, <2>3, RingFresh DEF TInv, RingInv, Ring!TypeOK
<1>2. Intact'
  BY <1>1 DEF Intact
<1>3. TestOK'
  <2>1. told' \in Verdicts
    BY DEF NoVerdict, Verdicts, Octet
  <2>2. sessions' \in 1 .. MaxSessions
    BY UtrzSessionAssumption DEF TInv, TestOK
  <2> QED BY <2>1, <2>2, EmptySeq DEF TInv, TestOK
<1>4. WiresOK' /\ EngineOK'
  BY DEF TInv, WiresOK, EngineOK
<1>5. Turns'
  BY <1>1 DEF TInv, Turns, Busy
<1> QED BY <1>1, <1>2, <1>3, <1>4, <1>5 DEF TInv

LEMMA StutterTInv == TInv /\ UNCHANGED vars => TInv'
<1> SUFFICES ASSUME TInv, UNCHANGED vars PROVE TInv'
  OBVIOUS
<1> USE DEF vars, test, parser, wires, engine
<1>1. RingInv' /\ Intact'
  BY RingStays DEF TInv
<1>2. TestOK' /\ WiresOK' /\ EngineOK'
  BY DEF TInv, TestOK, WiresOK, EngineOK
<1>3. Turns'
  BY DEF TInv, Turns, Busy, stream
<1> QED BY <1>1, <1>2, <1>3 DEF TInv

LEMMA NextTInv == TInv /\ [Next]_vars => TInv'
BY ReadsTInv, EndsTInv, BeginTInv, PutTInv, TakeTInv, FlushTInv, FlushedTInv, ReceiveTInv,
   FailsTInv, LooksTInv, DieTInv, StartTInv, StutterTInv
   DEF Next, Test

LEMMA TInvInvariant == Spec => []TInv
<1>1. Init => TInv
  BY InitTInv
<1>2. TInv /\ [Next]_vars => TInv'
  BY NextTInv
<1> QED BY <1>1, <1>2, PTL DEF Spec

(* Every variable keeps its type: among others, the bytes the test's       *)
(* parser takes the line of a failure from are there, whatever the engine  *)
(* sent, and the flush loop's pointer stays within the stream.             *)
THEOREM TypeCorrect == Spec => []TypeOK
<1>1. TInv => TypeOK
  BY TInvTypes
<1> QED BY <1>1, TInvInvariant, PTL
-----------------------------------------------------------------------------
(* What the engine has still to be told of: the block, the stream and what *)
(* is still to be put.                                                     *)
Coming == (lent \o Ring!history) \o todo

LEMMA RegroupBytes ==
  \A x, y, z \in Seq(Byte) : (x \o y) \o z = x \o (y \o z)
BY ConcatAssociative

LEMMA NoBytes == \A x \in Seq(Byte) : <<>> \o x = x /\ x \o <<>> = x
BY ConcatEmptySeq

LEMMA ComingTypes ==
  ASSUME TInv
  PROVE  /\ lent \in Seq(Byte) /\ Ring!history \in Seq(Byte) /\ todo \in Seq(Byte)
         /\ Coming \in Seq(Byte)
         /\ Len(lent) = nbytes /\ Len(Ring!history) = trcqty
         /\ nbytes \in Nat /\ trcqty \in Nat /\ Len(todo) \in Nat
         /\ Len(Coming) = nbytes + trcqty + Len(todo)
<1> DEFINE h == Ring!history
<1>1. h \in Seq(Byte) /\ Len(h) = trcqty
  BY HistorySeq DEF TInv, RingInv
<1>2. /\ lent \in Seq(Byte) /\ Len(lent) = nbytes /\ nbytes \in Nat /\ trcqty \in Nat
      /\ todo \in Seq(Byte) /\ Len(todo) \in Nat
  <2>1. todo \in Seq(Byte)
    BY DEF TInv, TestOK
  <2>2. lent \in Seq(Byte) /\ Len(lent) = nbytes
    BY DEF TInv, RingInv, Ring!TypeOK
  <2>3. nbytes \in Nat /\ trcqty \in 0 .. N
    BY Pointers
  <2>4. trcqty \in Nat
    BY <2>3, RingConstants
  <2> QED BY <2>1, <2>2, <2>3, <2>4, LenProperties
<1> HIDE DEF h
<1>3. lent \o h \in Seq(Byte) /\ Len(lent \o h) = nbytes + trcqty
  BY <1>1, <1>2, ConcatProperties
<1>4. /\ (lent \o h) \o todo \in Seq(Byte)
      /\ Len((lent \o h) \o todo) = nbytes + trcqty + Len(todo)
  BY <1>2, <1>3, ConcatProperties
<1> QED BY <1>1, <1>2, <1>4 DEF Coming, h

(* There is nothing when there is nothing in any of them.                  *)
LEMMA NothingComing ==
  ASSUME TInv
  PROVE  /\ Coming = <<>> <=> nbytes = 0 /\ trcqty = 0 /\ todo = <<>>
         /\ nbytes = 0 <=> lent = <<>>
         /\ trcqty = 0 <=> Ring!history = <<>>
<1> DEFINE q == Len(todo)
<1>1. /\ Coming = <<>> <=> Len(Coming) = 0
      /\ todo = <<>> <=> q = 0
      /\ q \in Nat /\ nbytes \in Nat /\ trcqty \in Nat /\ Len(Coming) = nbytes + trcqty + q
  BY ComingTypes, EmptySeq
<1>2. /\ nbytes = 0 <=> lent = <<>>
      /\ trcqty = 0 <=> Ring!history = <<>>
  BY ComingTypes, EmptySeq
<1> HIDE DEF q
<1> QED BY <1>1, <1>2

(* It stays if the stream does, and nothing else is to be put.             *)
LEMMA ComingStays ==
  ASSUME UNCHANGED stream, UNCHANGED todo
  PROVE  UNCHANGED Coming
BY DEF stream, Coming, Ring!history, Ring!Cell

(* A record that begins is behind everything else.                         *)
LEMMA BeginComing ==
  ASSUME TInv, NEW r \in Records, BeginRecord(r)
  PROVE  Coming' = Coming \o Whole(r) /\ lent' = <<>> /\ lent = <<>>
<1>1. todo = <<>> /\ nbytes = 0 /\ lent = <<>>
  <2>1. todo = <<>> /\ ~(nbytes > 0)
    BY DEF TInv, Turns, BeginRecord, Begin
  <2>2. nbytes \in Nat /\ (nbytes = 0 <=> lent = <<>>)
    BY ComingTypes, NothingComing
  <2>3. nbytes = 0
    BY <2>1, <2>2
  <2> QED BY <2>1, <2>2, <2>3
<1> DEFINE front == lent \o Ring!history
<1>2. front \in Seq(Byte)
  BY ComingTypes, ConcatProperties
<1>3. lent' = lent /\ Ring!history' = Ring!history /\ todo' = Whole(r)
  BY DEF BeginRecord, Begin, stream, Ring!history, Ring!Cell
<1>4. Coming = front \o <<>> /\ Coming' = front \o Whole(r)
  BY <1>1, <1>3 DEF Coming
<1> HIDE DEF front
<1>5. Coming = front
  BY <1>2, <1>4, NoBytes
<1> QED BY <1>1, <1>3, <1>4, <1>5

(* A byte put changes nothing of it, if there is room.                     *)
LEMMA PutComing ==
  ASSUME TInv, PutByte, Len(Coming) <= N
  PROVE  UNCHANGED <<Coming, lent>>
<1> DEFINE h == Ring!history
           k == Ring!history'
           b == <<Head(todo)>>
<1>1. /\ lent \in Seq(Byte) /\ h \in Seq(Byte) /\ todo \in Seq(Byte) /\ todo # <<>>
      /\ trcqty # N
  <2>1. todo # <<>>
    BY DEF TInv, Turns, PutByte
  <2>2. Len(todo) # 0
    BY <2>1, ComingTypes, EmptySeq
  <2>3. trcqty # N
    BY <2>2, ComingTypes, RingConstants
  <2> QED BY <2>1, <2>3, ComingTypes
<1>2. /\ b \in Seq(Byte) /\ Head(todo) \in Byte /\ Tail(todo) \in Seq(Byte)
      /\ todo = b \o Tail(todo)
  BY <1>1, HeadAndTail
<1>3. k = Append(h, Head(todo)) /\ lent' = lent /\ todo' = Tail(todo)
  <2>1. PICK c : c = Head(todo)
    OBVIOUS
  <2>2. Ring!rkh_trc_put(c) /\ c \in Byte /\ todo' = Tail(todo)
    BY <1>2, <2>1 DEF PutByte
  <2> QED BY <1>1, <2>1, <2>2, RingPut DEF TInv
<1>4. Coming = (lent \o h) \o (b \o Tail(todo)) /\ Coming' = (lent \o k) \o Tail(todo)
  <2>1. Coming = (lent \o h) \o todo
    BY DEF Coming
  <2> QED BY <1>2, <1>3, <2>1 DEF Coming
<1> HIDE DEF h, k, b
<1>5. k = h \o b /\ h \o b \in Seq(Byte) /\ lent \o h \in Seq(Byte)
  BY <1>1, <1>2, <1>3, AppendIsConcat, ConcatProperties DEF b
<1>6. (lent \o (h \o b)) \o Tail(todo) = (lent \o h) \o (b \o Tail(todo))
  <2>1. lent \o (h \o b) = (lent \o h) \o b
    BY <1>1, <1>2, RegroupBytes, Zenon
  <2>2. ((lent \o h) \o b) \o Tail(todo) = (lent \o h) \o (b \o Tail(todo))
    BY <1>2, <1>5, RegroupBytes, Zenon
  <2> QED BY <2>1, <2>2
<1> QED BY <1>3, <1>4, <1>5, <1>6

(* Handing out a block moves no byte.                                      *)
LEMMA TakeComing ==
  ASSUME TInv, FlushBlock
  PROVE  UNCHANGED Coming /\ lent = <<>> /\ Coming # <<>>
<1>1. /\ lent = <<>> /\ lent' \o Ring!history' = Ring!history /\ todo' = todo /\ trcqty # 0
  <2>1. Ring!rkh_trc_get_block(BlockReq) /\ todo' = todo
    BY DEF FlushBlock
  <2>2. lent = <<>> /\ lent' \o Ring!history' = Ring!history
    BY <2>1, RingTake DEF TInv
  <2>3. trcqty # 0
    BY <2>1 DEF Ring!rkh_trc_get_block
  <2> QED BY <2>1, <2>2, <2>3
<1>2. <<>> \o Ring!history = Ring!history
  BY ComingTypes, NoBytes
<1>3. Coming = Ring!history \o todo
  BY <1>1, <1>2 DEF Coming
<1>4. Coming' = Ring!history \o todo
  BY <1>1 DEF Coming
<1> QED BY <1>1, <1>3, <1>4, NothingComing

(* A byte flushed is the first of it.                                      *)
LEMMA FlushComing ==
  ASSUME TInv, FlushByte
  PROVE  /\ Coming # <<>> /\ trcstm[blk] = Head(Coming) /\ Coming' = Tail(Coming)
         /\ trcstm[blk] \in Byte /\ UNCHANGED Ring!history
<1>1. /\ lent # <<>> /\ lent' = Tail(lent) /\ Ring!history' = Ring!history
      /\ todo' = todo /\ trcstm[blk] = Head(lent) /\ trcstm[blk] \in Byte
  BY RingFlush, NextOfBlock DEF TInv, FlushByte, test
<1> DEFINE h == Ring!history
           x == lent \o h
<1>2. lent \in Seq(Byte) /\ h \in Seq(Byte) /\ todo \in Seq(Byte)
  BY ComingTypes
<1>3. Coming = x \o todo /\ Coming' = (Tail(lent) \o h) \o todo
  BY <1>1 DEF Coming
<1> HIDE DEF h
<1>4. /\ x # <<>> /\ Head(x) = Head(lent) /\ Tail(x) = Tail(lent) \o h
      /\ x \in Seq(Byte)
  BY <1>1, <1>2, FirstOfBoth, ConcatProperties
<1> HIDE DEF x
<1>5. x \o todo # <<>> /\ Head(x \o todo) = Head(x) /\ Tail(x \o todo) = Tail(x) \o todo
  BY <1>2, <1>4, FirstOfBoth
<1>6. Head(Coming) = trcstm[blk] /\ Tail(Coming) = Coming' /\ Coming # <<>>
  BY <1>1, <1>3, <1>4, <1>5, Zenon
<1> QED BY <1>1, <1>6
-----------------------------------------------------------------------------
(* What is on its way to the engine.                                       *)

(* What of a frame is collected after byte b, or a client's end, was read. *)
After(t, b) == IF b = EOF THEN t ELSE IF b = RKH_FLG THEN <<>> ELSE Append(t, b)

(* A frame that is no record.                                              *)
Strange(t) == \A r \in Records : t # Bytes[r]

(* How the frames in s are collected, with t collected before.             *)
Reads(h, s, t) ==
  /\ h \in [0 .. Len(s) -> Seq(Byte)] /\ h[0] = t
  /\ \A n \in 1 .. Len(s) : h[n] = After(h[n - 1], s[n])

(* Reading s, with t collected before, the engine answers nothing to the   *)
(* client it serves then: no frame behind the end of an earlier client is  *)
(* a record.  In the end u is collected.                                   *)
Silent(s, t, u) ==
  \E h \in [0 .. Len(s) -> Seq(Byte)], m \in 0 .. Len(s) :
    /\ Reads(h, s, t) /\ h[Len(s)] = u
    /\ m > 0 => s[m] = EOF
    /\ \A n \in m + 1 .. Len(s) : s[n] = RKH_FLG => Strange(h[n - 1])

Wired == Seq(Byte \cup {EOF})

LEMMA AfterType ==
  ASSUME NEW t \in Seq(Byte), NEW b \in Byte \cup {EOF}
  PROVE  After(t, b) \in Seq(Byte)
<1>1. CASE b = EOF \/ b = RKH_FLG
  BY <1>1, EmptySeq DEF After
<1>2. CASE b # EOF /\ b # RKH_FLG
  BY <1>2, AppendProperties DEF After
<1> QED BY <1>1, <1>2

(* Nothing changes nothing.                                                *)
LEMMA SilentNothing ==
  ASSUME NEW t \in Seq(Byte), NEW u
  PROVE  Silent(<<>>, t, u) <=> u = t
<1> DEFINE s == <<>>
<1>1. Len(s) = 0
  BY EmptySeq
<1>2. ASSUME Silent(s, t, u) PROVE u = t
  <2>1. PICK h : Reads(h, s, t) /\ h[Len(s)] = u
    BY <1>2 DEF Silent
  <2> QED BY <1>1, <2>1 DEF Reads
<1>3. ASSUME u = t PROVE Silent(s, t, u)
  <2>1. PICK h : h = [n \in 0 .. 0 |-> t]
    OBVIOUS
  <2>2. h \in [0 .. 0 -> Seq(Byte)] /\ h[0] = t
    BY <2>1
  <2>3. Reads(h, s, t)
    BY <1>1, <2>2 DEF Reads
  <2>4. 0 \in 0 .. 0 /\ ~(0 > 0) /\ 0 + 1 .. 0 = {}
    OBVIOUS
  <2> HIDE DEF s
  <2> QED BY <1>1, <1>3, <2>2, <2>3, <2>4 DEF Silent
<1> QED BY <1>2, <1>3

(* A byte more.                                                            *)
LEMMA ReadsMore ==
  ASSUME NEW s \in Wired, NEW t, NEW h, Reads(h, s, t), NEW b \in Byte \cup {EOF}
  PROVE  \E g : /\ Reads(g, Append(s, b), t) /\ \A n \in 0 .. Len(s) : g[n] = h[n]
                /\ g[Len(s) + 1] = After(h[Len(s)], b)
<1> DEFINE l == Len(s)
           z == Append(s, b)
           x == After(h[l], b)
<1>1. l \in Nat
  BY LenProperties DEF Wired
<1>2. /\ Len(z) = l + 1 /\ z[l + 1] = b /\ \A i \in 1 .. l : z[i] = s[i]
  BY AppendProperties DEF Wired
<1> HIDE DEF l, z
<1>3. /\ h \in [0 .. l -> Seq(Byte)] /\ h[0] = t
      /\ \A n \in 1 .. l : h[n] = After(h[n - 1], s[n])
  BY DEF Reads, l
<1>4. x \in Seq(Byte)
  <2>1. h[l] \in Seq(Byte)
    BY <1>1, <1>3
  <2> QED BY <2>1, AfterType
<1> HIDE DEF x
<1>5. PICK g : g = [n \in 0 .. l + 1 |-> IF n = l + 1 THEN x ELSE h[n]]
  OBVIOUS
<1>6. g[l + 1] = x /\ \A n \in 0 .. l : g[n] = h[n]
  BY <1>1, <1>5
<1>7. g \in [0 .. l + 1 -> Seq(Byte)]
  <2>1. \A n \in 0 .. l + 1 : n = l + 1 \/ n \in 0 .. l
    BY <1>1
  <2>2. \A n \in 0 .. l + 1 : (IF n = l + 1 THEN x ELSE h[n]) \in Seq(Byte)
    BY <1>3, <1>4, <2>1
  <2> QED BY <1>5, <2>2
<1>8. ASSUME NEW n \in 1 .. l + 1 PROVE g[n] = After(g[n - 1], z[n])
  <2>1. CASE n = l + 1
    <3>1. n - 1 = l /\ l \in 0 .. l
      BY <1>1, <2>1
    <3> QED BY <1>2, <1>6, <2>1, <3>1 DEF x
  <2>2. CASE n # l + 1
    <3>1. n \in 1 .. l /\ n \in 0 .. l /\ n - 1 \in 0 .. l
      BY <1>1, <2>2
    <3> QED BY <1>2, <1>3, <1>6, <3>1
  <2> QED BY <2>1, <2>2
<1>9. g[0] = t
  <2>1. 0 \in 0 .. l
    BY <1>1
  <2> QED BY <1>3, <1>6, <2>1
<1>10. Reads(g, z, t)
  BY <1>2, <1>7, <1>8, <1>9 DEF Reads
<1> QED BY <1>6, <1>10 DEF l, z, x

LEMMA SilentMore ==
  ASSUME NEW s \in Wired, NEW t, NEW u, Silent(s, t, u), NEW b \in Byte \cup {EOF},
         b = RKH_FLG => Strange(u)
  PROVE  Silent(Append(s, b), t, After(u, b))
<1> DEFINE l == Len(s)
           z == Append(s, b)
<1>1. l \in Nat
  BY LenProperties DEF Wired
<1>2. /\ Len(z) = l + 1 /\ z[l + 1] = b /\ \A i \in 1 .. l : z[i] = s[i]
  BY AppendProperties DEF Wired
<1>3. PICK h \in [0 .. l -> Seq(Byte)], m \in 0 .. l :
        /\ Reads(h, s, t) /\ h[l] = u
        /\ m > 0 => s[m] = EOF
        /\ \A n \in m + 1 .. l : s[n] = RKH_FLG => Strange(h[n - 1])
  BY DEF Silent
<1>4. PICK g : /\ Reads(g, z, t) /\ \A n \in 0 .. l : g[n] = h[n]
               /\ g[l + 1] = After(u, b)
  BY <1>3, ReadsMore
<1> HIDE DEF l, z
<1>5. m \in 0 .. l + 1 /\ (m > 0 => z[m] = EOF)
  <2>1. m \in 0 .. l + 1 /\ (m > 0 => m \in 1 .. l)
    BY <1>1, <1>3
  <2> QED BY <1>2, <1>3, <2>1
<1>6. ASSUME NEW n \in m + 1 .. l + 1, z[n] = RKH_FLG PROVE Strange(g[n - 1])
  <2>1. CASE n = l + 1
    <3>1. n - 1 = l /\ l \in 0 .. l
      BY <1>1, <2>1
    <3> QED BY <1>2, <1>3, <1>4, <1>6, <2>1, <3>1
  <2>2. CASE n # l + 1
    <3>1. n \in m + 1 .. l /\ n \in 1 .. l /\ n - 1 \in 0 .. l
      BY <1>1, <1>3, <2>2
    <3>2. s[n] = RKH_FLG
      BY <1>2, <1>6, <3>1
    <3> QED BY <1>3, <1>4, <3>1, <3>2
  <2> QED BY <2>1, <2>2
<1>7. g \in [0 .. Len(z) -> Seq(Byte)]
  BY <1>4 DEF Reads
<1> QED BY <1>2, <1>4, <1>5, <1>6, <1>7 DEF Silent, z

(* A client's end: nothing before it matters, whatever it was.             *)
LEMMA SilentEnd ==
  ASSUME NEW s \in Wired, NEW t, NEW u, Silent(s, t, u), NEW b \in Byte
  PROVE  Silent(Append(Append(s, b), EOF), t, After(u, b))
<1> DEFINE l == Len(s)
           y == Append(s, b)
           z == Append(y, EOF)
<1>1. l \in Nat
  BY LenProperties DEF Wired
<1>2. y \in Wired /\ Len(y) = l + 1
  BY AppendProperties DEF Wired
<1>3. Len(z) = (l + 1) + 1 /\ z[(l + 1) + 1] = EOF
  <2> HIDE DEF y
  <2>1. EOF \in Byte \cup {EOF}
    OBVIOUS
  <2> QED BY <1>2, <2>1, AppendProperties DEF Wired
<1>4. PICK h : Reads(h, s, t) /\ h[l] = u
  BY DEF Silent
<1>5. PICK g : Reads(g, y, t) /\ g[l + 1] = After(u, b)
  BY <1>4, ReadsMore
<1>6. PICK f : Reads(f, z, t) /\ f[(l + 1) + 1] = After(After(u, b), EOF)
  <2> HIDE DEF y
  <2>1. EOF \in Byte \cup {EOF}
    OBVIOUS
  <2> QED BY <1>2, <1>5, <2>1, ReadsMore
<1> HIDE DEF l, z
<1>7. f[(l + 1) + 1] = After(u, b)
  BY <1>6 DEF After
<1>8. f \in [0 .. Len(z) -> Seq(Byte)]
  BY <1>6 DEF Reads
<1>9. /\ Len(z) \in 0 .. Len(z) /\ Len(z) + 1 .. Len(z) = {}
  BY <1>1, <1>3
<1>10. Silent(z, t, After(u, b))
  BY <1>3, <1>6, <1>7, <1>8, <1>9 DEF Silent
<1> QED BY <1>10 DEF z

(* A byte is read.                                                         *)
LEMMA SilentRead ==
  ASSUME NEW s \in Wired, s # <<>>, NEW t \in Seq(Byte), NEW u, Silent(s, t, u)
  PROVE  /\ Silent(Tail(s), After(t, Head(s)), u)
         /\ Head(s) = RKH_FLG /\ EOF \notin ToSet(Tail(s)) => Strange(t)
<1> DEFINE l == Len(s)
           z == Tail(s)
           x == After(t, Head(s))
<1>1. l \in Nat \ {0}
  BY EmptySeq DEF Wired
<1>2. /\ Head(s) = s[1] /\ z \in Wired /\ Len(z) = l - 1 /\ \A i \in 1 .. l - 1 : z[i] = s[i + 1]
  BY HeadTailProperties DEF Wired
<1>3. PICK h \in [0 .. l -> Seq(Byte)], m \in 0 .. l :
        /\ Reads(h, s, t) /\ h[l] = u
        /\ m > 0 => s[m] = EOF
        /\ \A n \in m + 1 .. l : s[n] = RKH_FLG => Strange(h[n - 1])
  BY DEF Silent
<1>4. h[0] = t /\ \A n \in 1 .. l : h[n] = After(h[n - 1], s[n])
  BY <1>3 DEF Reads
<1>5. DOMAIN z = 1 .. l - 1
  BY <1>2, LenProperties DEF Wired
<1> HIDE DEF l, z
<1>6. h[1] = x
  <2>1. 1 \in 1 .. l /\ 1 - 1 = 0
    BY <1>1
  <2> QED BY <1>2, <1>4, <2>1
<1> HIDE DEF x
<1>7. PICK g : g = [n \in 0 .. l - 1 |-> h[n + 1]]
  OBVIOUS
<1>8. \A n \in 0 .. l - 1 : g[n] = h[n + 1]
  BY <1>7
<1>9. g \in [0 .. l - 1 -> Seq(Byte)]
  <2>1. \A n \in 0 .. l - 1 : n + 1 \in 0 .. l
    BY <1>1
  <2>2. \A n \in 0 .. l - 1 : h[n + 1] \in Seq(Byte)
    BY <1>3, <2>1
  <2> QED BY <1>7, <2>2
<1>10. g[0] = x /\ g[l - 1] = u
  <2>1. 0 \in 0 .. l - 1 /\ 0 + 1 = 1 /\ l - 1 \in 0 .. l - 1 /\ (l - 1) + 1 = l
    BY <1>1
  <2> QED BY <1>3, <1>6, <1>8, <2>1
<1>11. Reads(g, z, x)
  <2>1. ASSUME NEW n \in 1 .. l - 1 PROVE g[n] = After(g[n - 1], z[n])
    <3>1. n \in 0 .. l - 1 /\ n - 1 \in 0 .. l - 1 /\ (n - 1) + 1 = n /\ n + 1 \in 1 .. l
          /\ (n + 1) - 1 = n
      BY <1>1
    <3>2. g[n] = h[n + 1] /\ g[n - 1] = h[n] /\ z[n] = s[n + 1]
      BY <1>2, <1>8, <3>1
    <3>3. h[n + 1] = After(h[n], s[n + 1])
      BY <1>4, <3>1
    <3> QED BY <3>2, <3>3
  <2> QED BY <1>2, <1>9, <1>10, <2>1 DEF Reads
<1>12. Silent(z, x, u)
  <2>1. CASE m = 0
    <3>1. ASSUME NEW n \in 0 + 1 .. l - 1, z[n] = RKH_FLG PROVE Strange(g[n - 1])
      <4>1. n - 1 \in 0 .. l - 1 /\ (n - 1) + 1 = n /\ n + 1 \in m + 1 .. l
            /\ (n + 1) - 1 = n /\ n \in 1 .. l - 1
        BY <1>1, <2>1
      <4>2. s[n + 1] = RKH_FLG /\ g[n - 1] = h[n]
        BY <1>2, <1>8, <3>1, <4>1
      <4> QED BY <1>3, <4>1, <4>2
    <3>2. 0 \in 0 .. l - 1 /\ ~(0 > 0)
      BY <1>1
    <3> QED BY <1>2, <1>9, <1>10, <1>11, <3>1, <3>2 DEF Silent
  <2>2. CASE m # 0
    <3>1. PICK k : k = m - 1
      OBVIOUS
    <3>2. k \in 0 .. l - 1 /\ m = k + 1 /\ m > 0
      BY <1>1, <1>3, <2>2, <3>1
    <3>3. k > 0 => z[k] = EOF
      <4>1. k > 0 => k \in 1 .. l - 1
        BY <1>1, <3>2
      <4> QED BY <1>2, <1>3, <3>2, <4>1
    <3>4. ASSUME NEW n \in k + 1 .. l - 1, z[n] = RKH_FLG PROVE Strange(g[n - 1])
      <4>1. n - 1 \in 0 .. l - 1 /\ (n - 1) + 1 = n /\ n + 1 \in m + 1 .. l
            /\ (n + 1) - 1 = n /\ n \in 1 .. l - 1
        BY <1>1, <3>2
      <4>2. s[n + 1] = RKH_FLG /\ g[n - 1] = h[n]
        BY <1>2, <1>8, <3>4, <4>1
      <4> QED BY <1>3, <4>1, <4>2
    <3> QED BY <1>2, <1>9, <1>10, <1>11, <3>2, <3>3, <3>4 DEF Silent
  <2> QED BY <2>1, <2>2
<1>13. ASSUME Head(s) = RKH_FLG, EOF \notin ToSet(z) PROVE Strange(t)
  <2>1. ASSUME m > 0 PROVE FALSE
    <3>1. CASE m = 1
      <4>1. RKH_FLG = EOF
        BY <1>2, <1>3, <1>13, <2>1, <3>1
      <4> QED BY <4>1, RecordBytes
    <3>2. CASE m # 1
      <4>1. m - 1 \in 1 .. l - 1 /\ (m - 1) + 1 = m
        BY <1>1, <1>3, <2>1, <3>2
      <4>2. z[m - 1] = EOF
        BY <1>2, <1>3, <2>1, <4>1
      <4> QED BY <1>5, <1>13, <4>1, <4>2 DEF ToSet
    <3> QED BY <3>1, <3>2
  <2>2. 1 \in m + 1 .. l /\ 1 - 1 = 0
    BY <1>1, <1>3, <2>1
  <2>3. s[1] = RKH_FLG
    BY <1>2, <1>13
  <2> QED BY <1>3, <1>4, <2>2, <2>3
<1> QED BY <1>12, <1>13 DEF z, x
-----------------------------------------------------------------------------
(* What is on its way to the test.                                         *)

(* The first of the bytes owed.                                            *)
LEMMA OwedFirst ==
  ASSUME NEW r \in Answers4, NEW i \in 0 .. 3
  PROVE  /\ Owed(r, i) # <<>>
         /\ r[i + 1] \in {RKH_FLG, RKH_ESC} =>
              /\ Head(Owed(r, i)) = RKH_ESC
              /\ Tail(Owed(r, i)) = <<Flip(r[i + 1])>> \o Owed(r, i + 1)
         /\ r[i + 1] \notin {RKH_FLG, RKH_ESC} =>
              Head(Owed(r, i)) = r[i + 1] /\ Tail(Owed(r, i)) = Owed(r, i + 1)
<1> DEFINE d == r[i + 1]
           x == rkh_trc_u8(d)
           y == Owed(r, i + 1)
<1>1. d \in Octet /\ i + 1 \in 0 .. 4
  <2>1. i + 1 \in 1 .. 4
    OBVIOUS
  <2> QED BY <2>1, FourBytes
<1>2. Owed(r, i) = x \o y /\ y \in Seq(Octet)
  BY <1>1, OwedSteps
<1> HIDE DEF d, y
<1>3. /\ x \in Seq(Octet) /\ x # <<>>
      /\ d \in {RKH_FLG, RKH_ESC} => Head(x) = RKH_ESC /\ Tail(x) = <<Flip(d)>>
      /\ d \notin {RKH_FLG, RKH_ESC} => Head(x) = d /\ Tail(x) = <<>>
  <2>1. x \in Seq(Octet)
    BY <1>1, StuffType
  <2>2. CASE d \in {RKH_FLG, RKH_ESC}
    <3>1. x = <<RKH_ESC, Flip(d)>>
      BY <2>2 DEF rkh_trc_u8
    <3> HIDE DEF x
    <3> QED BY <2>1, <2>2, <3>1
  <2>3. CASE d \notin {RKH_FLG, RKH_ESC}
    <3>1. x = <<d>>
      BY <2>3 DEF rkh_trc_u8
    <3> HIDE DEF x
    <3> QED BY <2>1, <2>3, <3>1
  <2> QED BY <2>2, <2>3, <2>1
<1> HIDE DEF x
<1>4. x \o y # <<>> /\ Head(x \o y) = Head(x) /\ Tail(x \o y) = Tail(x) \o y
  BY <1>2, <1>3, FirstOfBoth
<1>5. <<>> \o y = y
  BY <1>2, NothingMore
<1>6. /\ Owed(r, i) # <<>>
      /\ d \in {RKH_FLG, RKH_ESC} =>
           Head(Owed(r, i)) = RKH_ESC /\ Tail(Owed(r, i)) = <<Flip(d)>> \o y
      /\ d \notin {RKH_FLG, RKH_ESC} =>
           Head(Owed(r, i)) = d /\ Tail(Owed(r, i)) = y
  BY <1>2, <1>3, <1>4, <1>5, Zenon
<1> QED BY <1>6 DEF d, y

(* The first i bytes of an answer.                                         *)
Holds(a, r, i) == a \in Seq(Octet) /\ Len(a) = i /\ \A j \in 1 .. i : a[j] = r[j]

LEMMA HoldsMore ==
  ASSUME NEW r \in Answers4, NEW i \in 0 .. 3, NEW a, Holds(a, r, i)
  PROVE  i + 1 \in 0 .. 4 /\ Holds(Append(a, r[i + 1]), r, i + 1)
<1> DEFINE z == Append(a, r[i + 1])
<1>1. i + 1 \in 0 .. 4 /\ i + 1 \in 1 .. 4 /\ r[i + 1] \in Octet
  <2>1. i + 1 \in 1 .. 4 /\ i + 1 \in 0 .. 4
    OBVIOUS
  <2> QED BY <2>1, FourBytes
<1>2. a \in Seq(Octet) /\ Len(a) = i /\ \A j \in 1 .. i : a[j] = r[j]
  BY DEF Holds
<1>3. /\ z \in Seq(Octet) /\ Len(z) = i + 1 /\ z[i + 1] = r[i + 1]
      /\ \A j \in 1 .. i : z[j] = a[j]
  BY <1>1, <1>2, AppendProperties
<1> HIDE DEF z
<1>4. ASSUME NEW j \in 1 .. i + 1 PROVE z[j] = r[j]
  <2>1. j = i + 1 \/ j \in 1 .. i
    OBVIOUS
  <2> QED BY <1>2, <1>3, <2>1
<1>5. Holds(z, r, i + 1)
  BY <1>3, <1>4 DEF Holds
<1> QED BY <1>1, <1>5 DEF z

(* While s comes, an answer arrives: before its first byte a flag may      *)
(* come, and a byte may be half read.                                      *)
Way(a, st, s, r) ==
  \/ a = <<>> /\ st = "COLLECT" /\ s = <<RKH_FLG>> \o Owed(r, 0)
  \/ \E i \in 0 .. 4 : Holds(a, r, i) /\ st = "COLLECT" /\ s = Owed(r, i)
  \/ \E i \in 0 .. 3 : /\ Holds(a, r, i) /\ st = "ESCAPING"
                       /\ r[i + 1] \in {RKH_FLG, RKH_ESC}
                       /\ s = <<Flip(r[i + 1])>> \o Owed(r, i + 1)

(* A new byte of it: another step of the way, or its end.                  *)
LEMMA WayStep ==
  ASSUME NEW r \in Answers4, SumOf(r) = 0, r[1] \in {RKH_TE_UT_FAIL, RKH_TE_UT_SUCCESS},
         NEW s, Way(answer, state, s, r), utrazer_parse(Head(s))
  PROVE  \/ KeepWaiting /\ Way(answer', state', Tail(s), r)
         \/ /\ answer = r /\ Meaningful /\ Conclude(Judged)
            /\ answer' = <<>> /\ state' = "COLLECT" /\ Tail(s) = <<>>
<1>1. CASE answer = <<>> /\ state = "COLLECT" /\ s = <<RKH_FLG>> \o Owed(r, 0)
  <2> DEFINE x == <<RKH_FLG>>
             y == Owed(r, 0)
  <2>1. /\ x \in Seq(Octet) /\ x # <<>> /\ Head(x) = RKH_FLG /\ Tail(x) = <<>>
        /\ y \in Seq(Octet)
    <3>1. 0 \in 0 .. 4
      OBVIOUS
    <3> QED BY <3>1, FlipOctet, OwedSteps
  <2> HIDE DEF x, y
  <2>2. Head(x \o y) = Head(x) /\ Tail(x \o y) = Tail(x) \o y
    BY <2>1, FirstOfBoth
  <2>3. <<>> \o y = y
    BY <2>1, NothingMore
  <2>4. s = x \o y
    BY <1>1 DEF x, y
  <2>5. Head(s) = RKH_FLG /\ Tail(s) = y
    BY <2>1, <2>2, <2>3, <2>4
  <2>6. Collecting(RKH_FLG)
    BY <1>1, <2>5 DEF utrazer_parse, Escaping
  <2>7. KeepWaiting /\ answer' = <<>> /\ state' = "COLLECT"
    BY <1>1, <2>6, FlipOctet DEF Collecting, Meaningful
  <2>8. Holds(answer', r, 0)
    BY <2>7, EmptySeq DEF Holds
  <2>9. 0 \in 0 .. 4
    OBVIOUS
  <2>10. Way(answer', state', Tail(s), r)
    BY <2>5, <2>7, <2>8, <2>9 DEF Way, y
  <2> QED BY <2>7, <2>10
<1>2. ASSUME NEW i \in 0 .. 4, Holds(answer, r, i), state = "COLLECT", s = Owed(r, i)
      PROVE  \/ KeepWaiting /\ Way(answer', state', Tail(s), r)
             \/ /\ answer = r /\ Meaningful /\ Conclude(Judged)
                /\ answer' = <<>> /\ state' = "COLLECT" /\ Tail(s) = <<>>
  <2>1. CASE i = 4
    <3>1. s = <<RKH_FLG>>
      BY <1>2, <2>1, OwedSteps
    <3>2. Head(s) = RKH_FLG /\ Tail(s) = <<>>
      BY <3>1
    <3>3. answer = r
      <4>1. r \in Seq(Octet) /\ Len(r) = 4
        BY FourBytes
      <4>2. answer \in Seq(Octet) /\ Len(answer) = 4 /\ \A j \in 1 .. 4 : answer[j] = r[j]
        BY <1>2, <2>1 DEF Holds
      <4> QED BY <4>1, <4>2, SeqEqual
    <3>4. Meaningful
      <4>1. r # <<>>
        BY FourBytes, EmptySeq
      <4> QED BY <3>3, <4>1 DEF Meaningful
    <3>5. Collecting(RKH_FLG)
      BY <1>2, <3>2 DEF utrazer_parse, Escaping
    <3>6. Conclude(Judged) /\ answer' = <<>> /\ state' = "COLLECT"
      BY <1>2, <3>4, <3>5, FlipOctet DEF Collecting
    <3> QED BY <3>2, <3>3, <3>4, <3>6
  <2>2. CASE i # 4
    <3>1. i \in 0 .. 3
      BY <2>2
    <3>2. PICK d : d = r[i + 1]
      OBVIOUS
    <3>3. i + 1 \in 0 .. 4 /\ Holds(Append(answer, d), r, i + 1)
      BY <1>2, <3>1, <3>2, HoldsMore
    <3>4. CASE d \in {RKH_FLG, RKH_ESC}
      <4>1. Head(s) = RKH_ESC /\ Tail(s) = <<Flip(r[i + 1])>> \o Owed(r, i + 1)
        BY <1>2, <3>1, <3>2, <3>4, OwedFirst
      <4>2. Collecting(RKH_ESC)
        BY <1>2, <4>1 DEF utrazer_parse, Escaping
      <4>3. KeepWaiting /\ answer' = answer /\ state' = "ESCAPING"
        BY <4>2, FlipOctet DEF Collecting
      <4>4. Way(answer', state', Tail(s), r)
        BY <1>2, <3>1, <3>2, <3>4, <4>1, <4>3 DEF Way
      <4> QED BY <4>3, <4>4
    <3>5. CASE d \notin {RKH_FLG, RKH_ESC}
      <4>1. Head(s) = d /\ Tail(s) = Owed(r, i + 1)
        BY <1>2, <3>1, <3>2, <3>5, OwedFirst
      <4>2. Collecting(d)
        BY <1>2, <4>1 DEF utrazer_parse, Escaping
      <4>3. KeepWaiting /\ answer' = Append(answer, d) /\ state' = "COLLECT"
        BY <1>2, <3>5, <4>2 DEF Collecting
      <4>4. Way(answer', state', Tail(s), r)
        BY <3>3, <4>1, <4>3 DEF Way
      <4> QED BY <4>3, <4>4
    <3> QED BY <3>4, <3>5
  <2> QED BY <2>1, <2>2
<1>3. ASSUME NEW i \in 0 .. 3, Holds(answer, r, i), state = "ESCAPING",
             r[i + 1] \in {RKH_FLG, RKH_ESC}, s = <<Flip(r[i + 1])>> \o Owed(r, i + 1)
      PROVE  KeepWaiting /\ Way(answer', state', Tail(s), r)
  <2>1. PICK d : d = r[i + 1]
    OBVIOUS
  <2>2. /\ d \in {RKH_FLG, RKH_ESC} /\ d \in Octet
        /\ i + 1 \in 0 .. 4 /\ Holds(Append(answer, d), r, i + 1)
    BY <1>3, <2>1, HoldsMore, FlipOctet
  <2> DEFINE x == <<Flip(d)>>
             y == Owed(r, i + 1)
  <2>3. /\ x \in Seq(Octet) /\ x # <<>> /\ Head(x) = Flip(d) /\ Tail(x) = <<>>
        /\ y \in Seq(Octet)
    BY <2>2, FlipOctet, OwedSteps
  <2> HIDE DEF x, y
  <2>4. Head(x \o y) = Head(x) /\ Tail(x \o y) = Tail(x) \o y
    BY <2>3, FirstOfBoth
  <2>5. <<>> \o y = y
    BY <2>3, NothingMore
  <2>6. s = x \o y
    BY <1>3, <2>1 DEF x, y
  <2>7. Head(s) = Flip(d) /\ Tail(s) = Owed(r, i + 1)
    BY <2>3, <2>4, <2>5, <2>6 DEF y
  <2>8. Flip(d) # RKH_FLG /\ Flip(Flip(d)) = d
    BY <2>2, FlipOctet
  <2>9. Escaping(Flip(d))
    BY <1>3, <2>7 DEF utrazer_parse, Collecting
  <2>10. KeepWaiting /\ answer' = Append(answer, d) /\ state' = "COLLECT"
    BY <2>8, <2>9 DEF Escaping
  <2>11. Way(answer', state', Tail(s), r)
    BY <2>2, <2>7, <2>10 DEF Way
  <2> QED BY <2>10, <2>11
<1> QED BY <1>1, <1>2, <1>3 DEF Way
-----------------------------------------------------------------------------
(* The session over a socket.                                              *)

(* Nothing of an answer is on its way, nor in the test's parser.           *)
Quiet == toClient = <<>> /\ answer = <<>> /\ state = "COLLECT"

(* The engine will answer the record the test makes.                       *)
Served == current = UT_INIT \/ utrz_running

(* The flag of a new stream is still to be sent.  Whatever piece of a      *)
(* record the engine has of an earlier client, it is none of a record.     *)
Opening ==
  /\ \E u : Silent(toEngine, tr, u) /\ Strange(u)
  /\ Quiet
  /\ \/ pc = "idle" /\ ~greeted /\ Coming = <<RKH_FLG>>
     \/ pc \in {"putting", "flushing"} /\ Served /\ Coming = <<RKH_FLG>> \o Whole(current)

(* A piece of the record is sent.                                          *)
Within ==
  /\ \E u \in Seq(Byte) : /\ Silent(toEngine, tr, u) /\ u \o Coming = Whole(current)
                          /\ pc = "putting" => u = <<>>
  /\ Quiet /\ Served
  /\ pc \in {"putting", "flushing"} /\ Coming # <<>>

(* All of it is sent, and the engine has not read its flag.                *)
SentAll ==
  /\ \E f \in Wired : toEngine = Append(f, RKH_FLG) /\ Silent(f, tr, Bytes[current])
  /\ Quiet /\ Served
  /\ pc \in {"flushing", "waiting"} /\ Coming = <<>>

(* The engine has answered.                                                *)
Answered ==
  /\ Way(answer, state, toClient, AnswerRecord(Verdict[current]))
  /\ toEngine = <<>> /\ tr = <<>> /\ utrz_running
  /\ pc \in {"flushing", "waiting"} /\ Coming = <<>>

Finished ==
  /\ toEngine = <<>> /\ tr = <<>> /\ utrz_running
  /\ Quiet
  /\ pc = "idle" /\ greeted /\ Coming = <<>>

(* The test is dead, and what it has left of a record is none.             *)
Dead ==
  /\ \E u : Silent(toEngine, tr, u) /\ Strange(u)
  /\ pc = "dead" /\ toClient = <<>>

(* Trazer has ended: nothing is left of its answers, or what is left is    *)
(* the beginning of the answer to the record the test has just made.       *)
Deserted ==
  \/ toClient = <<>>
  \/ /\ \E rest \in Seq(Octet) :
          Way(answer, state, toClient \o rest, AnswerRecord(Verdict[current]))
     /\ pc \in {"flushing", "waiting"} /\ Coming = <<>>

SocketInv ==
  build = "socket" =>
    /\ present => Opening \/ Within \/ SentAll \/ Answered \/ Finished \/ Dead
    /\ ~present => Deserted

(* Records and pieces of them.                                             *)
LEMMA StrangePieces ==
  ASSUME NoneBeginsAnother
  PROVE  /\ Strange(<<>>)
         /\ \A r, s \in Records : Bytes[r] = Bytes[s] => r = s
         /\ \A s \in Records : \A u, y \in Seq(Byte) :
              u \o y = Whole(s) /\ Len(y) >= 2 => Strange(u)
<1>1. Strange(<<>>)
  BY RecordBytes DEF Strange
<1>2. \A r, s \in Records : Bytes[r] = Bytes[s] => r = s
  <2> SUFFICES ASSUME NEW r \in Records, NEW s \in Records, Bytes[r] = Bytes[s] PROVE r = s
    OBVIOUS
  <2>1. Len(Bytes[r]) \in Nat
    BY RecordBytes, LenProperties
  <2>2. Len(Bytes[r]) <= Len(Bytes[s])
    BY <2>1
  <2> QED BY <2>2 DEF NoneBeginsAnother
<1>3. ASSUME NEW s \in Records, NEW u \in Seq(Byte), NEW y \in Seq(Byte),
             u \o y = Whole(s), Len(y) >= 2, NEW r \in Records, u = Bytes[r]
      PROVE  FALSE
  <2> DEFINE w == Bytes[s]
             k == Len(u)
             l == Len(y)
             m == Len(w)
  <2>1. w \in Seq(Byte) /\ RKH_FLG \in Byte
    BY RecordBytes
  <2>2. k \in Nat /\ l \in Nat /\ m \in Nat /\ l >= 2
    BY <1>3, <2>1, LenProperties
  <2>3. /\ Len(u \o y) = k + l
        /\ \A i \in 1 .. k + l : (u \o y)[i] = IF i <= k THEN u[i] ELSE y[i - k]
    BY ConcatProperties
  <2>4. /\ Len(Append(w, RKH_FLG)) = m + 1
        /\ \A i \in 1 .. m : Append(w, RKH_FLG)[i] = w[i]
    BY <2>1, AppendProperties
  <2>5. u \o y = Append(w, RKH_FLG)
    BY <1>3 DEF Whole
  <2> HIDE DEF k, l, m, w
  <2>6. k + l = m + 1
    BY <2>3, <2>4, <2>5
  <2>7. k < m
    BY <2>2, <2>6
  <2>8. ASSUME NEW i \in 1 .. k PROVE u[i] = w[i]
    <3>1. i \in 1 .. m /\ i \in 1 .. k + l /\ i <= k
      BY <2>2, <2>7
    <3> QED BY <2>3, <2>4, <2>5, <3>1
  <2>9. r = s
    <3>1. k <= m
      BY <2>2, <2>7
    <3> QED BY <1>3, <2>8, <3>1 DEF NoneBeginsAnother, k, m, w
  <2>10. k = m
    BY <1>3, <2>9 DEF k, m, w
  <2> QED BY <2>2, <2>7, <2>10
<1>4. \A s \in Records : \A u, y \in Seq(Byte) :
        u \o y = Whole(s) /\ Len(y) >= 2 => Strange(u)
  BY <1>3 DEF Strange
<1> QED BY <1>1, <1>2, <1>4

(* The length of a record, and that it fits behind the flag of a stream.   *)
LEMMA WholeFits ==
  ASSUME RecordsFit, NEW r \in Records
  PROVE  /\ Len(Whole(r)) <= N /\ Len(<<RKH_FLG>> \o Whole(r)) <= N
         /\ <<RKH_FLG>> \o Whole(r) \in Seq(Byte) /\ <<RKH_FLG>> \in Seq(Byte)
         /\ <<RKH_FLG>> \o Whole(r) # <<>>
<1> DEFINE l == Len(Bytes[r])
           w == Whole(r)
<1>1. l \in Nat /\ Bytes[r] \in Seq(Byte) /\ RKH_FLG \in Byte
  BY RecordBytes, LenProperties
<1>2. w \in Seq(Byte) /\ Len(w) = l + 1
  BY <1>1, AppendProperties DEF Whole
<1>3. <<RKH_FLG>> \in Seq(Byte) /\ Len(<<RKH_FLG>>) = 1
  BY <1>1
<1> HIDE DEF w
<1>4. <<RKH_FLG>> \o w \in Seq(Byte) /\ Len(<<RKH_FLG>> \o w) = 1 + Len(w)
  BY <1>2, <1>3, ConcatProperties
<1>5. l + l + 2 <= N
  BY DEF RecordsFit
<1>6. l + 1 <= N /\ 1 + (l + 1) <= N
  <2> HIDE DEF l
  <2> QED BY <1>1, <1>5, RingConstants
<1>7. <<RKH_FLG>> \o w # <<>>
  <2>1. 1 + Len(w) # 0
    BY <1>1, <1>2
  <2> QED BY <1>4, <2>1, EmptySeq
<1> QED BY <1>2, <1>3, <1>4, <1>6, <1>7 DEF w

(* At first.                                                               *)
LEMMA InitSocket == NoneBeginsAnother /\ Init => SocketInv
<1> SUFFICES ASSUME NoneBeginsAnother, Init PROVE SocketInv
  OBVIOUS
<1>1. Coming = <<RKH_FLG>>
  <2>1. lent = <<>> /\ Ring!history = <<RKH_FLG>> /\ todo = <<>>
    BY RingInit DEF Init
  <2> QED BY <2>1 DEF Coming
<1>2. Silent(toEngine, tr, <<>>) /\ Strange(<<>>)
  <2>1. toEngine = <<>> /\ tr = <<>> /\ tr \in Seq(Byte)
    BY EmptySeq DEF Init
  <2> QED BY <2>1, SilentNothing, StrangePieces
<1>3. Opening /\ present
  BY <1>1, <1>2 DEF Init, Opening, Quiet
<1> QED BY <1>3 DEF SocketInv

(* What SocketInv depends on.                                              *)
socketvars == <<build, pc, current, greeted, answer, state, toEngine, toClient, tr, utrz_running,
                present>>

LEMMA SocketStays ==
  ASSUME SocketInv, UNCHANGED socketvars, UNCHANGED Coming
  PROVE  SocketInv'
<1> USE DEF socketvars, Quiet, Served
<1>1. Opening => Opening'
  BY DEF Opening
<1>2. Within => Within'
  BY DEF Within
<1>3. SentAll => SentAll'
  BY DEF SentAll
<1>4. (Answered => Answered') /\ (Finished => Finished')
  BY DEF Answered, Finished
<1>5. Dead => Dead'
  BY DEF Dead
<1>6. Deserted => Deserted'
  BY DEF Deserted
<1> QED BY <1>1, <1>2, <1>3, <1>4, <1>5, <1>6 DEF SocketInv

(* A byte of which the engine makes no answer.                             *)
LEMMA ReadQuietly ==
  ASSUME TInv, EngineReads,
         Head(toEngine) = RKH_FLG /\ EOF \notin ToSet(Tail(toEngine)) => Strange(tr)
  PROVE  /\ tr' = After(tr, Head(toEngine)) /\ toEngine' = Tail(toEngine)
         /\ toClient' = toClient /\ (utrz_running => utrz_running')
         /\ UNCHANGED <<build, stream, test, present, Coming>>
<1>1. /\ toEngine' = Tail(toEngine) /\ UNCHANGED <<build, stream, test, present>>
  BY DEF EngineReads
<1>2. UNCHANGED Coming
  BY <1>1, ComingStays DEF test
<1> DEFINE b == Head(toEngine)
<1>3. CASE b = EOF
  BY <1>1, <1>2, <1>3 DEF EngineReads, After
<1>4. CASE b # EOF
  <2>1. /\ tzparser_exec(b)
        /\ toClient' = IF ServesTheTest(toEngine') THEN toClient \o Sent(b) ELSE toClient
    BY <1>4 DEF EngineReads
  <2>2. tr' = After(tr, b) /\ (utrz_running => utrz_running')
    BY <1>4, <2>1 DEF tzparser_exec, After
  <2>3. ASSUME ServesTheTest(toEngine') PROVE Sent(b) = <<>>
    <3>1. b = RKH_FLG => Strange(tr)
      BY <1>1, <2>3 DEF ServesTheTest
    <3>2. Completed(b) = {}
      BY <3>1 DEF Completed, Strange
    <3> QED BY <3>2, AnswerSent
  <2>4. toClient \o <<>> = toClient
    <3>1. toClient \in Seq(Octet)
      BY DEF TInv, WiresOK
    <3> QED BY <3>1, NothingMore
  <2>5. toClient' = toClient
    BY <2>1, <2>3, <2>4
  <2> QED BY <1>1, <1>2, <2>2, <2>5
<1> QED BY <1>1, <1>2, <1>3, <1>4

(* The flag of the record: it is answered.                                 *)
LEMMA ReadFlag ==
  ASSUME TInv, NoneBeginsAnother, EngineReads, toEngine = <<RKH_FLG>>, toClient = <<>>,
         current \in Records, tr = Bytes[current], Served
  PROVE  /\ toEngine' = <<>> /\ tr' = <<>> /\ utrz_running'
         /\ \/ toClient' = <<RKH_FLG>> \o Owed(AnswerRecord(Verdict[current]), 0)
            \/ toClient' = Owed(AnswerRecord(Verdict[current]), 0)
         /\ UNCHANGED <<build, stream, test, present, Coming>>
<1>1. /\ toEngine' = <<>> /\ UNCHANGED <<build, stream, test, present>>
      /\ Head(toEngine) = RKH_FLG /\ RKH_FLG # EOF
  BY RecordBytes DEF EngineReads
<1>2. UNCHANGED Coming
  BY <1>1, ComingStays DEF test
<1>3. /\ tzparser_exec(RKH_FLG)
      /\ toClient' = IF ServesTheTest(toEngine') THEN toClient \o Sent(RKH_FLG) ELSE toClient
  BY <1>1 DEF EngineReads
<1>4. Completed(RKH_FLG) = {current}
  BY StrangePieces DEF Completed
<1>5. tr' = <<>> /\ utrz_running'
  BY <1>3, <1>4 DEF tzparser_exec, Served
<1>6. ServesTheTest(toEngine')
  BY <1>1 DEF ServesTheTest, ToSet
<1>7. toClient' = <<>> \o Sent(RKH_FLG)
  BY <1>3, <1>6
<1> DEFINE a == AnswerRecord(Verdict[current])
<1>8. /\ a \in Answers4
      /\ Sent(RKH_FLG) = (IF UT_INIT \in Completed(RKH_FLG) THEN <<RKH_FLG>> ELSE <<>>)
                         \o Owed(a, 0)
  <2>1. ~(~utrz_running /\ current # UT_INIT)
    BY DEF Served
  <2> QED BY <1>4, <2>1, AnswerSent
<1>9. Owed(a, 0) \in Seq(Octet)
  <2>1. 0 \in 0 .. 4
    OBVIOUS
  <2> HIDE DEF a
  <2> QED BY <1>8, <2>1, OwedSteps
<1> HIDE DEF a
<1>10. <<RKH_FLG>> \o Owed(a, 0) \in Seq(Octet)
  <2>1. <<RKH_FLG>> \in Seq(Octet)
    BY FlipOctet
  <2> QED BY <1>9, <2>1, ConcatProperties
<1>11. CASE UT_INIT \in Completed(RKH_FLG)
  <2>1. Sent(RKH_FLG) = <<RKH_FLG>> \o Owed(a, 0)
    BY <1>8, <1>11
  <2>2. toClient' = <<RKH_FLG>> \o Owed(a, 0)
    BY <1>7, <1>10, <2>1, NothingMore
  <2> QED BY <1>1, <1>2, <1>5, <2>2 DEF a
<1>12. CASE UT_INIT \notin Completed(RKH_FLG)
  <2>1. Sent(RKH_FLG) = <<>> \o Owed(a, 0)
    BY <1>8, <1>12
  <2>2. toClient' = Owed(a, 0)
    BY <1>7, <1>9, <2>1, NothingMore
  <2> QED BY <1>1, <1>2, <1>5, <2>2 DEF a
<1> QED BY <1>11, <1>12

(* Reading what is silent.                                                 *)
LEMMA ReadSilent ==
  ASSUME TInv, EngineReads, NEW u, Silent(toEngine, tr, u)
  PROVE  /\ Silent(toEngine', tr', u)
         /\ toClient' = toClient /\ (utrz_running => utrz_running')
         /\ UNCHANGED <<build, stream, test, present, Coming>>
<1>1. toEngine \in Wired /\ toEngine # <<>> /\ tr \in Seq(Byte)
  BY DEF EngineReads, TInv, WiresOK, EngineOK, Wired
<1>2. /\ Silent(Tail(toEngine), After(tr, Head(toEngine)), u)
      /\ Head(toEngine) = RKH_FLG /\ EOF \notin ToSet(Tail(toEngine)) => Strange(tr)
  BY <1>1, SilentRead
<1> QED BY <1>2, ReadQuietly

LEMMA ReadSocket == TInv /\ NoneBeginsAnother /\ EngineReads /\ SocketInv => SocketInv'
<1> SUFFICES ASSUME TInv, NoneBeginsAnother, EngineReads, SocketInv, build = "socket"
             PROVE  SocketInv'
  BY DEF SocketInv, EngineReads
<1>1. present /\ present' /\ build' = build /\ toEngine # <<>>
  BY DEF EngineReads
<1>2. CASE Opening
  <2>1. PICK u : Silent(toEngine, tr, u) /\ Strange(u)
    BY <1>2 DEF Opening
  <2>2. /\ Silent(toEngine', tr', u)
        /\ toClient' = toClient /\ (utrz_running => utrz_running')
        /\ UNCHANGED <<build, stream, test, present, Coming>>
    BY <2>1, ReadSilent
  <2>3. Opening'
    BY <1>2, <2>1, <2>2 DEF Opening, Quiet, Served, test, parser
  <2> QED BY <1>1, <2>3 DEF SocketInv
<1>3. CASE Within
  <2>1. PICK u \in Seq(Byte) : /\ Silent(toEngine, tr, u) /\ u \o Coming = Whole(current)
                               /\ pc = "putting" => u = <<>>
    BY <1>3 DEF Within
  <2>2. /\ Silent(toEngine', tr', u)
        /\ toClient' = toClient /\ (utrz_running => utrz_running')
        /\ UNCHANGED <<build, stream, test, present, Coming>>
    BY <2>1, ReadSilent
  <2>3. Within'
    BY <1>3, <2>1, <2>2 DEF Within, Quiet, Served, test, parser
  <2> QED BY <1>1, <2>3 DEF SocketInv
<1>4. CASE SentAll
  <2>1. PICK f \in Wired : toEngine = Append(f, RKH_FLG) /\ Silent(f, tr, Bytes[current])
    BY <1>4 DEF SentAll
  <2>2. current \in Records /\ tr \in Seq(Byte)
    BY <1>4 DEF SentAll, TInv, Turns, Busy, EngineOK
  <2>3. CASE f = <<>>
    <3>1. toEngine = <<RKH_FLG>> /\ tr = Bytes[current]
      BY <2>1, <2>2, <2>3, SilentNothing
    <3>2. /\ toEngine' = <<>> /\ tr' = <<>> /\ utrz_running'
          /\ \/ toClient' = <<RKH_FLG>> \o Owed(AnswerRecord(Verdict[current]), 0)
             \/ toClient' = Owed(AnswerRecord(Verdict[current]), 0)
          /\ UNCHANGED <<build, stream, test, present, Coming>>
      BY <1>4, <2>2, <3>1, ReadFlag DEF SentAll, Quiet
    <3>3. Way(answer', state', toClient', AnswerRecord(Verdict[current']))
      <4>1. answer' = <<>> /\ state' = "COLLECT" /\ current' = current
        BY <1>4, <3>2 DEF SentAll, Quiet, test, parser
      <4>2. PICK a : a = AnswerRecord(Verdict[current])
        OBVIOUS
      <4>3. 0 \in 0 .. 4
        OBVIOUS
      <4>4. Holds(<<>>, a, 0)
        BY EmptySeq DEF Holds
      <4>5. Way(answer', state', toClient', a)
        BY <3>2, <4>1, <4>2, <4>3, <4>4 DEF Way
      <4> QED BY <4>1, <4>2, <4>5
    <3>4. Answered'
      BY <1>4, <3>2, <3>3 DEF SentAll, Answered, test
    <3> QED BY <1>1, <3>4 DEF SocketInv
  <2>4. CASE f # <<>>
    <3>1. /\ Head(toEngine) = Head(f) /\ Tail(toEngine) = Append(Tail(f), RKH_FLG)
          /\ Tail(f) \in Wired
      <4>1. f \in Seq(Byte \cup {EOF}) /\ RKH_FLG \in Byte \cup {EOF}
        BY RecordBytes DEF Wired
      <4>2. <<RKH_FLG>> \in Seq(Byte \cup {EOF}) /\ Tail(f) \in Seq(Byte \cup {EOF})
        BY <2>4, <4>1, HeadTailProperties
      <4>3. /\ Append(f, RKH_FLG) = f \o <<RKH_FLG>>
            /\ Append(Tail(f), RKH_FLG) = Tail(f) \o <<RKH_FLG>>
        BY <4>1, <4>2, AppendIsConcat
      <4>4. /\ Head(f \o <<RKH_FLG>>) = Head(f)
            /\ Tail(f \o <<RKH_FLG>>) = Tail(f) \o <<RKH_FLG>>
        BY <2>4, <4>1, <4>2, FirstOfBoth
      <4> QED BY <2>1, <4>2, <4>3, <4>4 DEF Wired
    <3>2. /\ Silent(Tail(f), After(tr, Head(f)), Bytes[current])
          /\ Head(f) = RKH_FLG /\ EOF \notin ToSet(Tail(f)) => Strange(tr)
      BY <2>1, <2>2, <2>4, SilentRead
    <3>3. EOF \in ToSet(Tail(f)) => EOF \in ToSet(Tail(toEngine))
      <4> DEFINE g == Tail(f)
      <4> SUFFICES ASSUME EOF \in ToSet(g) PROVE EOF \in ToSet(Append(g, RKH_FLG))
        BY <3>1
      <4>1. g \in Seq(Byte \cup {EOF}) /\ RKH_FLG \in Byte \cup {EOF} /\ Len(g) \in Nat
        BY <3>1, RecordBytes, LenProperties DEF Wired
      <4>2. /\ DOMAIN g = 1 .. Len(g) /\ DOMAIN Append(g, RKH_FLG) = 1 .. Len(g) + 1
            /\ \A i \in 1 .. Len(g) : Append(g, RKH_FLG)[i] = g[i]
        BY <4>1, AppendProperties, LenProperties
      <4> HIDE DEF g
      <4>3. PICK i \in 1 .. Len(g) : g[i] = EOF
        BY <4>2 DEF ToSet
      <4>4. i \in 1 .. Len(g) + 1
        BY <4>1
      <4> QED BY <4>2, <4>3, <4>4 DEF ToSet
    <3>4. /\ tr' = After(tr, Head(toEngine)) /\ toEngine' = Tail(toEngine)
          /\ toClient' = toClient /\ (utrz_running => utrz_running')
          /\ UNCHANGED <<build, stream, test, present, Coming>>
      BY <3>1, <3>2, <3>3, ReadQuietly
    <3>5. SentAll'
      <4>1. Tail(f) \in Wired /\ toEngine' = Append(Tail(f), RKH_FLG)
        BY <3>1, <3>4
      <4>2. Silent(Tail(f), tr', Bytes[current']) /\ current' = current
        BY <3>1, <3>2, <3>4 DEF test
      <4>3. Quiet' /\ Served' /\ pc' = pc /\ Coming' = Coming
        BY <1>4, <3>4 DEF SentAll, Quiet, Served, test, parser
      <4> QED BY <1>4, <4>1, <4>2, <4>3 DEF SentAll
    <3> QED BY <1>1, <3>5 DEF SocketInv
  <2> QED BY <2>3, <2>4
<1>5. CASE Dead
  <2>1. PICK u : Silent(toEngine, tr, u) /\ Strange(u)
    BY <1>5 DEF Dead
  <2>2. /\ Silent(toEngine', tr', u)
        /\ toClient' = toClient
        /\ UNCHANGED <<build, stream, test, present, Coming>>
    BY <2>1, ReadSilent
  <2>3. Dead'
    BY <1>5, <2>1, <2>2 DEF Dead, test
  <2> QED BY <1>1, <2>3 DEF SocketInv
<1>6. ~Answered /\ ~Finished
  BY <1>1 DEF Answered, Finished
<1> QED BY <1>1, <1>2, <1>3, <1>4, <1>5, <1>6 DEF SocketInv

(* A sequence in two parts.                                                *)
LEMMA TwoParts ==
  ASSUME NEW S, NEW s \in Seq(S), NEW n \in 0 .. Len(s)
  PROVE  /\ SubSeq(s, 1, n) \in Seq(S) /\ SubSeq(s, n + 1, Len(s)) \in Seq(S)
         /\ SubSeq(s, 1, n) \o SubSeq(s, n + 1, Len(s)) = s
<1> DEFINE l == Len(s)
           x == SubSeq(s, 1, n)
           y == SubSeq(s, n + 1, l)
<1>1. l \in Nat /\ \A i \in 1 .. l : s[i] \in S
  BY LenProperties, ElementOfSeq
<1>2. x \in Seq(S) /\ Len(x) = n /\ \A i \in 1 .. n : x[i] = s[i]
  BY <1>1
<1>3. PICK m : m = l - n
  OBVIOUS
<1>4. y \in Seq(S) /\ Len(y) = m /\ \A i \in 1 .. m : y[i] = s[i + n]
  BY <1>1, <1>3
<1>5. n \in Nat /\ m \in Nat /\ n + m = l
  BY <1>1, <1>3
<1> HIDE DEF l, x, y
<1>6. /\ x \o y \in Seq(S) /\ Len(x \o y) = n + m
      /\ \A i \in 1 .. n + m : (x \o y)[i] = IF i <= n THEN x[i] ELSE y[i - n]
  <2>1. x \in Seq(S) /\ y \in Seq(S) /\ Len(x) = n /\ Len(y) = m
    BY <1>2, <1>4
  <2>2. /\ x \o y \in Seq(S) /\ Len(x \o y) = Len(x) + Len(y)
        /\ \A i \in 1 .. Len(x) + Len(y) :
             (x \o y)[i] = IF i <= Len(x) THEN x[i] ELSE y[i - Len(x)]
    BY <2>1, ConcatProperties
  <2> QED BY <2>1, <2>2
<1>7. ASSUME NEW i \in 1 .. l PROVE (x \o y)[i] = s[i]
  <2>1. i <= n => i \in 1 .. n
    BY <1>1, <1>5
  <2>2. ~(i <= n) => i - n \in 1 .. m /\ (i - n) + n = i
    BY <1>1, <1>5
  <2> QED BY <1>2, <1>4, <1>5, <1>6, <2>1, <2>2
<1>8. x \o y = s
  BY <1>5, <1>6, <1>7, SeqEqual DEF l
<1> QED BY <1>2, <1>4, <1>8 DEF x, y, l

(* The flag of a record is its end.                                        *)
LEMMA RecordEnds ==
  ASSUME NEW r \in Records, NEW x \in Seq(Byte), NEW y \in Seq(Byte), y # <<>>,
         x \o y = Whole(r)
  PROVE  /\ Head(y) = RKH_FLG => x = Bytes[r] /\ Tail(y) = <<>>
         /\ Head(y) # RKH_FLG => Tail(y) # <<>>
<1>1. PICK w : w = Bytes[r]
  OBVIOUS
<1>2. PICK f : f = RKH_FLG
  OBVIOUS
<1>3. w \in Seq(Byte) /\ f \in Byte
  BY <1>1, <1>2, RecordBytes
<1>4. Without(w, f)
  BY <1>1, <1>2, RecordBytes DEF Without
<1>5. x \o y = Append(w, f)
  BY <1>1, <1>2 DEF Whole
<1>6. Tail(y) = <<>> <=> Head(y) = f
  BY <1>3, <1>4, <1>5, FlagIsLast
<1>7. ASSUME Head(y) = f PROVE x = w
  <2>1. Append(x, Head(y)) \in Seq(Byte) /\ Append(x, Head(y)) \o Tail(y) = x \o y
    BY MoveOver
  <2>2. Append(x, f) \in Seq(Byte) /\ Append(x, f) \o <<>> = Append(w, f)
    BY <1>5, <1>6, <1>7, <2>1
  <2>3. Append(x, f) = Append(w, f)
    <3>1. PICK z : z = Append(x, f)
      OBVIOUS
    <3>2. z \o <<>> = z
      BY <2>2, <3>1, NoBytes
    <3> QED BY <2>2, <3>1, <3>2
  <2> QED BY <1>3, <2>3, LastBefore
<1> QED BY <1>1, <1>2, <1>6, <1>7

(* Somebody presses ESC: of an answer being sent a piece is left.          *)
LEMMA EndsSocket == TInv /\ EngineEnds /\ SocketInv => SocketInv'
<1> SUFFICES ASSUME TInv, EngineEnds, SocketInv PROVE SocketInv'
  OBVIOUS
<1>1. present /\ ~present' /\ UNCHANGED <<build, stream, test>> /\ build = "socket"
  BY DEF EngineEnds
<1>2. UNCHANGED Coming
  BY <1>1, ComingStays DEF test
<1>3. PICK n \in 0 .. Len(toClient) : toClient' = SubSeq(toClient, 1, n)
  BY DEF EngineEnds
<1>4. CASE toClient = <<>>
  <2>1. Len(toClient) = 0
    BY <1>4, EmptySeq
  <2>2. n = 0
    BY <1>3, <2>1
  <2>3. toClient' = <<>>
    BY <1>3, <2>2
  <2> QED BY <1>1, <2>3 DEF SocketInv, Deserted
<1>5. CASE toClient # <<>>
  <2>1. Answered
    BY <1>1, <1>5 DEF SocketInv, Opening, Within, SentAll, Finished, Dead, Quiet
  <2>2. PICK rest : rest = SubSeq(toClient, n + 1, Len(toClient))
    OBVIOUS
  <2>3. rest \in Seq(Octet) /\ toClient' \o rest = toClient
    <3>1. toClient \in Seq(Octet)
      BY DEF TInv, WiresOK
    <3> QED BY <1>3, <2>2, <3>1, TwoParts
  <2>4. Way(answer', state', toClient' \o rest, AnswerRecord(Verdict[current']))
    <3>1. answer' = answer /\ state' = state /\ current' = current
      BY <1>1 DEF test, parser
    <3> QED BY <2>1, <2>3, <3>1 DEF Answered
  <2>5. Deserted'
    BY <1>1, <1>2, <2>1, <2>3, <2>4 DEF Answered, Deserted, test
  <2> QED BY <1>1, <2>5 DEF SocketInv
<1> QED BY <1>4, <1>5

(* A record begins.                                                        *)
LEMMA BeginSocket ==
  ASSUME TInv, SocketInv, NEW r \in Records, BeginRecord(r)
  PROVE  SocketInv'
<1> SUFFICES ASSUME build = "socket" PROVE SocketInv'
  BY DEF SocketInv, BeginRecord, Begin
<1>1. /\ pc = "idle" /\ pc' = "putting" /\ current' = r /\ utrz_running' = utrz_running
      /\ greeted \/ r = UT_INIT
      /\ UNCHANGED <<build, parser, wires, tr, present>>
  <2>1. utrz_running' = (utrz_running /\ ~FALSE)
    BY DEF BeginRecord, Begin
  <2>2. utrz_running \in BOOLEAN
    BY DEF TInv, EngineOK
  <2> QED BY <2>1, <2>2 DEF BeginRecord, Begin
<1>2. Coming' = Coming \o Whole(r)
  BY BeginComing
<1>3. Whole(r) \in Seq(Byte) /\ Whole(r) # <<>> /\ <<>> \o Whole(r) = Whole(r)
  BY RecordBytes, NoBytes
<1>4. CASE Opening /\ present
  <2>1. PICK u : Silent(toEngine, tr, u) /\ Strange(u)
    BY <1>4 DEF Opening
  <2>2. ~greeted /\ Coming = <<RKH_FLG>> /\ Quiet
    BY <1>1, <1>4 DEF Opening
  <2>3. Opening'
    <3>1. Silent(toEngine', tr', u)
      BY <1>1, <2>1 DEF wires
    <3>2. Quiet'
      BY <1>1, <2>2 DEF Quiet, parser, wires
    <3>3. Served' /\ pc' \in {"putting", "flushing"}
      BY <1>1, <2>2 DEF Served
    <3>4. Coming' = <<RKH_FLG>> \o Whole(current')
      BY <1>1, <1>2, <2>2
    <3> QED BY <2>1, <3>1, <3>2, <3>3, <3>4 DEF Opening
  <2> QED BY <1>1, <1>4, <2>3 DEF SocketInv
<1>5. CASE Finished /\ present
  <2>1. Silent(toEngine', tr', <<>>)
    <3>1. toEngine' = <<>> /\ tr' = <<>> /\ <<>> \in Seq(Byte)
      BY <1>1, <1>5, EmptySeq DEF Finished, wires
    <3> QED BY <3>1, SilentNothing
  <2>2. Coming' = Whole(r) /\ current' = r /\ <<>> \o Coming' = Whole(current')
    BY <1>1, <1>2, <1>3, <1>5 DEF Finished
  <2>3. Quiet' /\ Served' /\ pc' \in {"putting", "flushing"} /\ Coming' # <<>>
    BY <1>1, <1>3, <1>5, <2>2 DEF Finished, Quiet, Served, parser, wires
  <2>4. <<>> \in Seq(Byte)
    BY EmptySeq
  <2>5. Within'
    BY <2>1, <2>2, <2>3, <2>4 DEF Within
  <2> QED BY <1>1, <1>5, <2>5 DEF SocketInv
<1>6. CASE ~present
  <2>1. toClient = <<>>
    BY <1>1, <1>6 DEF SocketInv, Deserted
  <2>2. Deserted'
    BY <1>1, <2>1 DEF Deserted, wires
  <2> QED BY <1>1, <1>6, <2>2 DEF SocketInv
<1>7. ~Within /\ ~SentAll /\ ~Answered /\ ~Dead
  BY <1>1 DEF Within, SentAll, Answered, Dead
<1> QED BY <1>4, <1>5, <1>6, <1>7 DEF SocketInv

(* A byte is put: it finds room, and is the engine's to come as before.    *)
LEMMA PutSocket == TInv /\ RecordsFit /\ PutByte /\ SocketInv => SocketInv'
<1> SUFFICES ASSUME TInv, RecordsFit, PutByte, SocketInv, build = "socket" PROVE SocketInv'
  BY DEF SocketInv, PutByte
<1>1. /\ pc = "putting" /\ pc' \in {"putting", "flushing"}
      /\ UNCHANGED <<build, current, greeted, parser, wires, engine>>
  BY DEF PutByte
<1>2. current \in Records
  BY <1>1 DEF TInv, Turns, Busy
<1>3. ASSUME Len(Coming) <= N PROVE UNCHANGED Coming
  BY <1>3, PutComing
<1>4. CASE Opening /\ present
  <2>1. Coming = <<RKH_FLG>> \o Whole(current)
    BY <1>1, <1>4 DEF Opening
  <2>2. UNCHANGED Coming
    BY <1>2, <1>3, <2>1, WholeFits
  <2>3. PICK u : Silent(toEngine, tr, u) /\ Strange(u)
    BY <1>4 DEF Opening
  <2>4. Silent(toEngine', tr', u)
    BY <1>1, <2>3 DEF wires, engine
  <2>5. Quiet' /\ Served'
    BY <1>1, <1>4 DEF Opening, Quiet, Served, parser, wires, engine
  <2>6. Coming' = <<RKH_FLG>> \o Whole(current')
    BY <1>1, <2>1, <2>2
  <2>7. Opening'
    BY <1>1, <2>3, <2>4, <2>5, <2>6 DEF Opening
  <2> QED BY <1>1, <1>4, <2>7 DEF SocketInv, engine
<1>5. CASE Within /\ present
  <2>1. PICK u \in Seq(Byte) : /\ Silent(toEngine, tr, u) /\ u \o Coming = Whole(current)
                               /\ pc = "putting" => u = <<>>
    BY <1>5 DEF Within
  <2>2. u = <<>> /\ Coming = Whole(current)
    <3>1. u = <<>>
      BY <1>1, <2>1
    <3>2. <<>> \o Coming = Coming
      BY ComingTypes, NoBytes
    <3> QED BY <2>1, <3>1, <3>2
  <2>3. UNCHANGED Coming
    BY <1>2, <1>3, <2>2, WholeFits
  <2>4. Silent(toEngine', tr', u) /\ u \o Coming' = Whole(current')
    BY <1>1, <2>1, <2>3 DEF wires, engine
  <2>5. Quiet' /\ Served' /\ Coming' # <<>>
    BY <1>1, <1>5, <2>3 DEF Within, Quiet, Served, parser, wires, engine
  <2>6. Within'
    BY <1>1, <2>2, <2>4, <2>5 DEF Within
  <2> QED BY <1>1, <1>5, <2>6 DEF SocketInv, engine
<1>6. CASE ~present
  <2>1. toClient = <<>>
    BY <1>1, <1>6 DEF SocketInv, Deserted
  <2>2. Deserted'
    BY <1>1, <2>1 DEF Deserted, wires
  <2> QED BY <1>1, <1>6, <2>2 DEF SocketInv, engine
<1>7. ~SentAll /\ ~Answered /\ ~Finished /\ ~Dead
  BY <1>1 DEF SentAll, Answered, Finished, Dead
<1> QED BY <1>4, <1>5, <1>6, <1>7 DEF SocketInv

(* A block is taken.                                                       *)
LEMMA TakeSocket == TInv /\ FlushBlock /\ SocketInv => SocketInv'
<1> SUFFICES ASSUME TInv, FlushBlock, SocketInv, build = "socket" PROVE SocketInv'
  BY DEF SocketInv, FlushBlock
<1>1. UNCHANGED Coming
  BY TakeComing
<1>2. UNCHANGED socketvars
  BY DEF FlushBlock, socketvars, parser, wires, engine
<1> QED BY <1>1, <1>2, SocketStays

(* A byte is sent.                                                         *)
LEMMA FlushSocket == TInv /\ FlushByte /\ SocketInv => SocketInv'
<1> SUFFICES ASSUME TInv, FlushByte, SocketInv, build = "socket" PROVE SocketInv'
  BY DEF SocketInv, FlushByte
<1>1. /\ Coming # <<>> /\ Coming' = Tail(Coming) /\ Coming \in Seq(Byte)
      /\ Head(Coming) \in Byte
  BY FlushComing, ComingTypes
<1>2. PICK b : b = Head(Coming)
  OBVIOUS
<1>3. /\ pc = "flushing" /\ UNCHANGED <<build, test, toClient, engine>>
      /\ toEngine' = IF present THEN Append(toEngine, b) ELSE toEngine
  BY <1>2, FlushComing DEF FlushByte, SendToEngine, TInv, Turns
<1>4. toEngine \in Wired /\ b \in Byte /\ b \in Byte \cup {EOF} /\ b # EOF
  BY <1>1, <1>2, RecordBytes DEF TInv, WiresOK, Wired
<1>5. current \in Records
  BY <1>3 DEF TInv, Turns, Busy
<1>6. CASE Opening /\ present
  <2>1. PICK u : Silent(toEngine, tr, u) /\ Strange(u)
    BY <1>6 DEF Opening
  <2>2. b = RKH_FLG /\ Coming' = Whole(current)
    <3>1. Coming = <<RKH_FLG>> \o Whole(current)
      BY <1>3, <1>6 DEF Opening
    <3>2. Whole(current) \in Seq(Byte) /\ <<RKH_FLG>> \in Seq(Byte)
      BY <1>5, RecordBytes
    <3> DEFINE w == Whole(current)
               f == <<RKH_FLG>>
    <3>3. f # <<>> /\ Head(f) = RKH_FLG /\ Tail(f) = <<>>
      OBVIOUS
    <3> HIDE DEF w, f
    <3>4. Head(f \o w) = Head(f) /\ Tail(f \o w) = Tail(f) \o w
      BY <3>2, <3>3, FirstOfBoth DEF w, f
    <3>5. <<>> \o w = w
      BY <3>2, NoBytes DEF w
    <3>6. Coming = f \o w
      BY <3>1 DEF w, f
    <3>7. Head(Coming) = RKH_FLG /\ Tail(Coming) = w
      BY <3>3, <3>4, <3>5, <3>6
    <3> QED BY <1>1, <1>2, <3>7 DEF w
  <2>3. Silent(Append(toEngine, b), tr, <<>>)
    <3>1. Silent(Append(toEngine, b), tr, After(u, b))
      BY <1>4, <2>1, SilentMore
    <3>2. After(u, b) = <<>>
      BY <1>4, <2>2 DEF After
    <3> QED BY <3>1, <3>2
  <2>4. <<>> \in Seq(Byte) /\ <<>> \o Whole(current) = Whole(current) /\ Whole(current) # <<>>
    BY <1>5, RecordBytes, NoBytes, EmptySeq
  <2>5. /\ Silent(toEngine', tr', <<>>) /\ <<>> \o Coming' = Whole(current') /\ Coming' # <<>>
        /\ pc' = "flushing"
    BY <1>3, <1>6, <2>2, <2>3, <2>4 DEF test, engine
  <2>6. Quiet' /\ Served'
    BY <1>3, <1>6 DEF Opening, Quiet, Served, test, parser, engine
  <2>7. Within'
    BY <2>4, <2>5, <2>6 DEF Within
  <2> QED BY <1>3, <1>6, <2>7 DEF SocketInv, engine
<1>7. CASE Within /\ present
  <2>1. PICK u \in Seq(Byte) : Silent(toEngine, tr, u) /\ u \o Coming = Whole(current)
    BY <1>7 DEF Within
  <2>2. Quiet' /\ Served' /\ pc' = "flushing"
    BY <1>3, <1>7 DEF Within, Quiet, Served, test, parser, engine
  <2>3. /\ b = RKH_FLG => u = Bytes[current] /\ Tail(Coming) = <<>>
        /\ b # RKH_FLG => Tail(Coming) # <<>>
    <3> QED BY <1>1, <1>2, <1>5, <2>1, RecordEnds
  <2>4. CASE b = RKH_FLG
    <3>1. SentAll'
      BY <1>1, <1>3, <1>4, <1>7, <2>1, <2>2, <2>3, <2>4 DEF SentAll, test, engine
    <3> QED BY <1>3, <1>7, <3>1 DEF SocketInv, engine
  <2>5. CASE b # RKH_FLG
    <3>1. Silent(Append(toEngine, b), tr, Append(u, b))
      <4>1. Silent(Append(toEngine, b), tr, After(u, b))
        BY <1>4, <2>1, <2>5, SilentMore
      <4> QED BY <1>4, <2>5, <4>1 DEF After
    <3>2. Append(u, b) \in Seq(Byte) /\ Append(u, b) \o Tail(Coming) = Whole(current)
      <4>1. /\ Append(u, Head(Coming)) \in Seq(Byte)
            /\ Append(u, Head(Coming)) \o Tail(Coming) = u \o Coming
        BY <1>1, MoveOver
      <4> QED BY <1>2, <2>1, <4>1
    <3>3. /\ Silent(toEngine', tr', Append(u, b)) /\ Append(u, b) \o Coming' = Whole(current')
          /\ Coming' # <<>>
      BY <1>1, <1>3, <1>7, <2>3, <2>5, <3>1, <3>2 DEF test, engine
    <3>4. Within'
      BY <2>2, <3>2, <3>3 DEF Within
    <3> QED BY <1>3, <1>7, <3>4 DEF SocketInv, engine
  <2> QED BY <2>4, <2>5
<1>8. CASE ~present
  <2>1. toClient = <<>>
    BY <1>1, <1>8 DEF SocketInv, Deserted
  <2>2. Deserted'
    BY <1>3, <2>1 DEF Deserted
  <2> QED BY <1>3, <1>8, <2>2 DEF SocketInv, engine
<1>9. ~SentAll /\ ~Answered /\ ~Finished /\ ~Dead
  BY <1>1, <1>3 DEF SentAll, Answered, Finished, Dead
<1> QED BY <1>6, <1>7, <1>8, <1>9 DEF SocketInv

(* There is no more to flush.                                              *)
LEMMA FlushedSocket == TInv /\ Flushed /\ SocketInv => SocketInv'
<1> SUFFICES ASSUME TInv, Flushed, SocketInv, build = "socket" PROVE SocketInv'
  BY DEF SocketInv, Flushed
<1>1. /\ pc = "flushing" /\ pc' = "waiting" /\ nbytes = 0 /\ trcqty = 0
      /\ UNCHANGED <<build, stream, current, todo, greeted, parser, wires, engine>>
  BY DEF Flushed, TInv, Turns
<1>2. Coming = <<>>
  <2>1. todo = <<>>
    BY <1>1 DEF TInv, Turns
  <2> QED BY <1>1, <2>1, NothingComing
<1>3. Coming' = Coming
  BY <1>1, ComingStays
<1>4. ~Opening /\ ~Within /\ ~Finished /\ ~Dead
  <2>1. Coming # <<RKH_FLG>> \o Whole(current)
    <3>1. <<RKH_FLG>> \o Whole(current) # <<>>
      <4>1. Whole(current) \in Seq(Byte) /\ Whole(current) # <<>> /\ <<RKH_FLG>> \in Seq(Byte)
        BY <1>1, RecordBytes DEF TInv, Turns, Busy
      <4> QED BY <4>1, BothEmpty
    <3> QED BY <1>2, <3>1
  <2> QED BY <1>1, <1>2, <2>1 DEF Opening, Within, Finished, Dead
<1>5. SentAll => SentAll'
  BY <1>1, <1>3 DEF SentAll, Quiet, Served, parser, wires, engine
<1>6. Answered => Answered'
  BY <1>1, <1>3 DEF Answered, parser, wires, engine
<1>7. Deserted => Deserted'
  BY <1>1, <1>3 DEF Deserted, parser, wires, engine
<1> QED BY <1>1, <1>4, <1>5, <1>6, <1>7 DEF SocketInv, engine

(* The answers are on their way in the form the parser expects.            *)
LEMMA AnswerForm ==
  ASSUME NEW r \in Records, NEW a, a = AnswerRecord(Verdict[r])
  PROVE  /\ a \in Answers4 /\ SumOf(a) = 0
         /\ a[1] \in {RKH_TE_UT_FAIL, RKH_TE_UT_SUCCESS}
         /\ a[1] = RKH_TE_UT_FAIL <=> Verdict[r].status = "FAIL"
         /\ a[2] = Verdict[r].line
<1>1. PICK v : v = Verdict[r]
  OBVIOUS
<1>2. v \in [status : {"SUCCESS", "FAIL"}, line : Octet]
  BY <1>1, UtrzSessionAssumption
<1>3. a = AnswerRecord(v)
  BY <1>1
<1>4. /\ a \in Answers4 /\ SumOf(a) = 0
      /\ a[1] = IF v.status = "FAIL" THEN RKH_TE_UT_FAIL ELSE RKH_TE_UT_SUCCESS
      /\ a[2] = v.line
  BY <1>2, <1>3, AnswerMade
<1>5. RKH_TE_UT_FAIL # RKH_TE_UT_SUCCESS
  BY DEF RKH_TE_UT_FAIL, RKH_TE_UT_SUCCESS
<1> QED BY <1>1, <1>4, <1>5

(* What is received is the answer to the record just made, or a byte of    *)
(* it; also when Trazer has ended in the meantime.                         *)
LEMMA ReceiveAnswer ==
  ASSUME TInv, SocketInv, Receive
  PROVE  /\ current \in Records
         /\ \/ KeepWaiting
            \/ /\ answer = AnswerRecord(Verdict[current]) /\ Meaningful /\ Conclude(Judged)
               /\ answer' = <<>> /\ state' = "COLLECT" /\ toClient' = <<>>
         /\ SocketInv'
<1>1. /\ build = "socket" /\ pc = "waiting" /\ toClient # <<>> /\ toClient' = Tail(toClient)
      /\ utrazer_parse(Head(toClient))
      /\ UNCHANGED <<build, stream, toEngine, engine>>
  BY DEF Receive
<1>2. current \in Records /\ greeted /\ toClient \in Seq(Octet)
  BY <1>1 DEF TInv, Turns, Busy, WiresOK
<1>3. PICK a : a = AnswerRecord(Verdict[current])
  OBVIOUS
<1>4. a \in Answers4 /\ SumOf(a) = 0 /\ a[1] \in {RKH_TE_UT_FAIL, RKH_TE_UT_SUCCESS}
  BY <1>2, <1>3, AnswerForm
<1>5. toClient' \in Seq(Octet)
  BY <1>1, <1>2, HeadTailProperties
<1>6. CASE present
  <2>1. Answered /\ Way(answer, state, toClient, a)
    <3>1. Answered
      BY <1>1, <1>6 DEF SocketInv, Opening, Within, SentAll, Finished, Dead, Quiet
    <3> QED BY <1>3, <3>1 DEF Answered
  <2>2. \/ KeepWaiting /\ Way(answer', state', toClient', a)
        \/ /\ answer = a /\ Meaningful /\ Conclude(Judged)
           /\ answer' = <<>> /\ state' = "COLLECT" /\ toClient' = <<>>
    BY <1>1, <1>4, <2>1, WayStep
  <2>3. UNCHANGED Coming
    <3>1. UNCHANGED stream /\ UNCHANGED todo
      BY <1>1, <2>2 DEF KeepWaiting, Conclude
    <3> QED BY <3>1, ComingStays
  <2>4. CASE KeepWaiting /\ Way(answer', state', toClient', a)
    <3>1. current' = current /\ pc' = pc
      BY <2>4 DEF KeepWaiting
    <3>2. Answered'
      BY <1>1, <1>3, <2>1, <2>3, <2>4, <3>1 DEF Answered, engine
    <3>3. SocketInv'
      BY <1>1, <1>6, <3>2 DEF SocketInv, engine
    <3> QED BY <1>2, <2>4, <3>3
  <2>5. CASE /\ answer = a /\ Meaningful /\ Conclude(Judged)
             /\ answer' = <<>> /\ state' = "COLLECT" /\ toClient' = <<>>
    <3>1. Finished'
      BY <1>1, <1>2, <2>1, <2>3, <2>5 DEF Answered, Finished, Quiet, Conclude, engine
    <3>2. SocketInv'
      BY <1>1, <1>6, <3>1 DEF SocketInv, engine
    <3> QED BY <1>2, <1>3, <2>5, <3>2
  <2> QED BY <2>2, <2>4, <2>5
<1>7. CASE ~present
  <2>1. PICK rest \in Seq(Octet) : Way(answer, state, toClient \o rest, a)
    BY <1>1, <1>3, <1>7 DEF SocketInv, Deserted
  <2>2. Coming = <<>>
    BY <1>1, <1>7 DEF SocketInv, Deserted
  <2>3. PICK s : s = toClient \o rest
    OBVIOUS
  <2>4. Head(s) = Head(toClient) /\ Tail(s) = toClient' \o rest
    BY <1>1, <1>2, <2>3, FirstOfBoth
  <2>5. Way(answer, state, s, a) /\ utrazer_parse(Head(s))
    BY <1>1, <2>1, <2>3, <2>4
  <2>6. \/ KeepWaiting /\ Way(answer', state', toClient' \o rest, a)
        \/ /\ answer = a /\ Meaningful /\ Conclude(Judged)
           /\ answer' = <<>> /\ state' = "COLLECT" /\ toClient' \o rest = <<>>
    BY <1>4, <2>4, <2>5, WayStep
  <2>7. UNCHANGED Coming
    <3>1. UNCHANGED stream /\ UNCHANGED todo
      BY <1>1, <2>6 DEF KeepWaiting, Conclude
    <3> QED BY <3>1, ComingStays
  <2>8. CASE KeepWaiting /\ Way(answer', state', toClient' \o rest, a)
    <3>1. current' = current /\ pc' = pc
      BY <2>8 DEF KeepWaiting
    <3>2. Deserted'
      BY <1>1, <1>3, <2>2, <2>7, <2>8, <3>1 DEF Deserted
    <3>3. SocketInv'
      BY <1>1, <1>7, <3>2 DEF SocketInv, engine
    <3> QED BY <1>2, <2>8, <3>3
  <2>9. CASE /\ answer = a /\ Meaningful /\ Conclude(Judged)
             /\ answer' = <<>> /\ state' = "COLLECT" /\ toClient' \o rest = <<>>
    <3>1. toClient' = <<>>
      BY <1>5, <2>9, BothEmpty
    <3>2. SocketInv'
      BY <1>1, <1>7, <3>1 DEF SocketInv, Deserted, engine
    <3> QED BY <1>2, <1>3, <2>9, <3>1, <3>2
  <2> QED BY <2>6, <2>8, <2>9
<1> QED BY <1>6, <1>7

(* The hook gives the test up.                                             *)
LEMMA FailsSocket == TInv /\ ReceiveFails /\ SocketInv => SocketInv'
<1> SUFFICES ASSUME TInv, ReceiveFails, SocketInv PROVE SocketInv'
  OBVIOUS
<1>1. ~present' /\ toClient' = <<>>
  BY DEF ReceiveFails, wires, engine
<1> QED BY <1>1 DEF SocketInv, Deserted

(* The test is killed.                                                     *)
LEMMA DieSocket ==
  TInv /\ ~FlagCutOff /\ NoneBeginsAnother /\ Die /\ SocketInv => SocketInv'
<1> SUFFICES ASSUME TInv, ~FlagCutOff, NoneBeginsAnother, Die, SocketInv PROVE SocketInv'
  OBVIOUS
<1>1. /\ build = "socket" /\ pc # "dead" /\ nbytes = 0 /\ ~OnlyFlagLeft
      /\ pc' = "dead" /\ toClient' = <<>>
      /\ toEngine' = IF present THEN Append(toEngine, EOF) ELSE toEngine
      /\ UNCHANGED <<build, stream, current, greeted, told, parser, sessions, engine>>
  BY DEF Die, SendToEngine
<1>2. CASE ~present
  BY <1>1, <1>2 DEF SocketInv, Deserted, engine
<1>3. CASE present
  <2>1. toEngine' = Append(toEngine, EOF) /\ toEngine \in Wired /\ tr \in Seq(Byte)
    BY <1>1, <1>3 DEF TInv, WiresOK, EngineOK, Wired
  <2>2. ASSUME NEW u, Silent(toEngine, tr, u), Strange(u) PROVE SocketInv'
    <3>1. Silent(Append(toEngine, EOF), tr, After(u, EOF))
      BY <2>1, <2>2, SilentMore
    <3>2. Silent(toEngine', tr', u)
      BY <1>1, <2>1, <3>1 DEF After, engine
    <3>3. Dead'
      BY <1>1, <2>2, <3>2 DEF Dead
    <3> QED BY <1>1, <1>3, <3>3 DEF SocketInv, engine
  <2>3. CASE Opening
    BY <2>2, <2>3 DEF Opening
  <2>4. CASE Within
    <3>1. PICK u \in Seq(Byte) : /\ Silent(toEngine, tr, u) /\ u \o Coming = Whole(current)
                                 /\ pc = "putting" => u = <<>>
      BY <2>4 DEF Within
    <3>2. current \in Records /\ Coming \in Seq(Byte) /\ Coming # <<>>
      BY <2>4, ComingTypes DEF Within, TInv, Turns, Busy
    <3>3. CASE pc = "putting"
      BY <2>2, <3>1, <3>3, StrangePieces
    <3>4. CASE pc = "flushing"
      <4>1. trcqty # 1 /\ todo = <<>>
        BY <1>1, <3>4 DEF OnlyFlagLeft, TInv, Turns
      <4>2. Len(Coming) = trcqty
        <5>1. PICK q : q = Len(todo)
          OBVIOUS
        <5>2. q = 0
          BY <4>1, <5>1, EmptySeq
        <5>3. Len(Coming) = nbytes + trcqty + q /\ trcqty \in Nat
          BY <5>1, ComingTypes
        <5> QED BY <1>1, <5>2, <5>3
      <4>3. Len(Coming) \in Nat /\ Len(Coming) # 0
        BY <3>2, EmptySeq, LenProperties
      <4>4. Len(Coming) >= 2
        BY <4>1, <4>2, <4>3
      <4>5. Strange(u)
        BY <3>1, <3>2, <4>4, StrangePieces
      <4> QED BY <2>2, <3>1, <4>5
    <3> QED BY <2>4, <3>3, <3>4 DEF Within
  <2>5. CASE SentAll
    <3>1. PICK f \in Wired : toEngine = Append(f, RKH_FLG) /\ Silent(f, tr, Bytes[current])
      BY <2>5 DEF SentAll
    <3>2. RKH_FLG \in Byte /\ RKH_FLG # EOF
      BY RecordBytes
    <3>3. Silent(Append(Append(f, RKH_FLG), EOF), tr, After(Bytes[current], RKH_FLG))
      BY <3>1, <3>2, SilentEnd
    <3>4. Silent(toEngine', tr', <<>>)
      BY <1>1, <2>1, <3>1, <3>2, <3>3 DEF After, engine
    <3>5. Dead'
      BY <1>1, <3>4, StrangePieces DEF Dead
    <3> QED BY <1>1, <1>3, <3>5 DEF SocketInv, engine
  <2>6. CASE Answered \/ Finished
    <3>1. toEngine = <<>> /\ tr = <<>>
      BY <2>6 DEF Answered, Finished
    <3>2. Silent(toEngine, tr, <<>>)
      BY <2>1, <3>1, SilentNothing
    <3> QED BY <2>2, <3>2, StrangePieces
  <2>7. ~Dead
    BY <1>1 DEF Dead
  <2> QED BY <1>1, <1>3, <2>3, <2>4, <2>5, <2>6, <2>7 DEF SocketInv
<1> QED BY <1>2, <1>3

(* It is started again.                                                    *)
LEMMA StartSocket == TInv /\ Start /\ SocketInv => SocketInv'
<1> SUFFICES ASSUME TInv, Start, SocketInv, build = "socket" PROVE SocketInv'
  BY DEF SocketInv, Start
<1>1. /\ pc = "dead" /\ present /\ pc' = "idle" /\ greeted' = FALSE
      /\ state' = "COLLECT" /\ answer' = <<>>
      /\ UNCHANGED <<build, lent, todo, wires, engine>>
  BY DEF Start
<1>2. Coming' = <<RKH_FLG>>
  <2>1. lent = <<>> /\ todo = <<>>
    <3>1. ~(nbytes > 0) /\ todo = <<>>
      BY <1>1 DEF TInv, Turns
    <3>2. nbytes = 0
      BY <3>1, ComingTypes
    <3> QED BY <3>1, <3>2, NothingComing
  <2>2. Ring!history' = <<RKH_FLG>>
    <3>1. PICK stm : stm = [i \in Ring!Index |-> 0]
      OBVIOUS
    <3>2. stm \in [Ring!Index -> Byte]
      BY <3>1, RingConstants
    <3>3. Ring!Fresh(stm)
      BY <3>1 DEF Start, OpenStream
    <3>4. blk' \in 0 .. N /\ nbytes' = 0 /\ lent' = <<>>
      <4>1. blk' = blk /\ nbytes' = nbytes /\ lent' = lent
        BY DEF Start
      <4>2. blk \in 0 .. N /\ nbytes = 0
        BY <2>1, NothingComing DEF TInv, RingInv, Ring!TypeOK
      <4> QED BY <2>1, <4>1, <4>2
    <3> QED BY <3>2, <3>3, <3>4, RingFresh
  <2>3. <<>> \o <<RKH_FLG>> = <<RKH_FLG>> /\ <<RKH_FLG>> \o <<>> = <<RKH_FLG>>
    OBVIOUS
  <2> QED BY <1>1, <2>1, <2>2, <2>3 DEF Coming
<1>3. Dead
  BY <1>1 DEF SocketInv, Opening, Within, SentAll, Answered, Finished
<1>4. Opening'
  BY <1>1, <1>2, <1>3 DEF Dead, Opening, Quiet, wires, engine
<1> QED BY <1>1, <1>4 DEF SocketInv, engine

LEMMA NextSocket ==
  ASSUME RecordsFit, NoneBeginsAnother, ~FlagCutOff, TInv, SocketInv, [Next]_vars
  PROVE  SocketInv'
<1>1. CASE EngineReads
  BY <1>1, ReadSocket
<1>2. CASE EngineEnds
  BY <1>2, EndsSocket
<1>3. ASSUME NEW r \in Records, BeginRecord(r) PROVE SocketInv'
  BY <1>3, BeginSocket
<1>4. CASE Test
  <2>1. PutByte => SocketInv'
    BY PutSocket
  <2>2. FlushBlock \/ FlushByte \/ Flushed => SocketInv'
    BY TakeSocket, FlushSocket, FlushedSocket
  <2>3. Receive \/ ReceiveFails => SocketInv'
    BY ReceiveAnswer, FailsSocket
  <2>4. LookAtLastResp => SocketInv'
    BY DEF LookAtLastResp, SocketInv
  <2> QED BY <1>4, <2>1, <2>2, <2>3, <2>4 DEF Test
<1>5. CASE Die
  BY <1>5, DieSocket
<1>6. CASE Start
  BY <1>6, StartSocket
<1>7. CASE UNCHANGED vars
  <2>1. UNCHANGED socketvars
    BY <1>7 DEF vars, socketvars, test, parser, wires, engine
  <2>2. UNCHANGED Coming
    BY <1>7, ComingStays DEF vars, test
  <2> QED BY <2>1, <2>2, SocketStays
<1> QED BY <1>1, <1>2, <1>3, <1>4, <1>5, <1>6, <1>7 DEF Next
-----------------------------------------------------------------------------
(* Over a socket the judge's verdicts are on the test's records.           *)

(* What the judge's specification sees of the session.                     *)
Asked == IF build = "socket" /\ Busy THEN current ELSE None
Heard == IF build = "socket" THEN Reported ELSE NoVerdict

(* The hook goes on with the verdict that was sent.                        *)
LEMMA JudgedRight ==
  ASSUME told \in Verdicts, current \in Records, answer = AnswerRecord(Verdict[current]),
         told' = Judged
  PROVE  Reported' = Verdict[current]
<1>1. PICK v : v = Verdict[current]
  OBVIOUS
<1>2. v \in [status : {"SUCCESS", "FAIL"}, line : Octet] /\ (v.status = "SUCCESS" => v.line = 0)
  BY <1>1, UtrzSessionAssumption
<1>3. /\ SumOf(answer) = 0
      /\ answer[1] = RKH_TE_UT_FAIL <=> v.status = "FAIL"
      /\ answer[2] = v.line
  BY <1>1, AnswerForm
<1>4. CASE v.status = "FAIL"
  <2>1. told' = [status |-> "FAIL", line |-> v.line]
    BY <1>3, <1>4 DEF Judged
  <2>2. told' = v
    BY <1>2, <1>4, <2>1
  <2> QED BY <1>1, <1>4, <2>2 DEF Reported
<1>5. CASE v.status = "SUCCESS"
  <2>1. told' = [told EXCEPT !.status = "SUCCESS"]
    BY <1>3, <1>5 DEF Judged
  <2>2. told' \in Verdicts /\ told'.status = "SUCCESS"
    BY <2>1 DEF Verdicts
  <2>3. Reported' = [told' EXCEPT !.line = 0]
    BY <2>2 DEF Reported
  <2>4. Reported' = [status |-> "SUCCESS", line |-> 0]
    BY <2>2, <2>3 DEF Verdicts
  <2>5. v = [status |-> "SUCCESS", line |-> 0]
    BY <1>2, <1>5
  <2> QED BY <1>1, <2>4, <2>5
<1> QED BY <1>2, <1>4, <1>5

LEMMA NothingReported == told = NoVerdict => Reported = NoVerdict
BY DEF NoVerdict, Reported

(* What the judge's specification does not see.                            *)
LEMMA JudgeStutters ==
  ASSUME UNCHANGED build, UNCHANGED <<Asked, Heard, present>>
  PROVE  UNCHANGED Judge!jvars
BY DEF Judge!jvars, Asked, Heard

LEMMA InitJudge == Init => Judge!Init
<1> SUFFICES ASSUME Init PROVE Judge!Init
  OBVIOUS
<1>1. Asked = None /\ Heard = NoVerdict /\ present \in BOOLEAN
  BY NothingReported DEF Init, Asked, Heard, Busy
<1>2. NoVerdict = Judge!NoVerdict
  BY DEF NoVerdict, Judge!NoVerdict
<1> QED BY <1>1, <1>2 DEF Judge!Init, Asked, Heard

(* With the library there is nothing to see at all.                        *)
LEMMA LibraryJudge ==
  ASSUME TInv, [Next]_vars, build = "library"
  PROVE  UNCHANGED Judge!jvars
<1>1. UNCHANGED build /\ UNCHANGED present
  <2>1. ~EngineEnds /\ ~Receive /\ ~Die
    BY DEF EngineEnds, Receive, Die
  <2>2. EngineReads \/ Start => UNCHANGED build /\ UNCHANGED present
    BY DEF EngineReads, Start, engine
  <2>3. ASSUME NEW r \in Records, BeginRecord(r) PROVE UNCHANGED build /\ UNCHANGED present
    BY <2>3 DEF BeginRecord, Begin
  <2>4. PutByte \/ FlushBlock \/ FlushByte \/ Flushed
          => UNCHANGED build /\ UNCHANGED present
    BY DEF PutByte, FlushBlock, FlushByte, Flushed, engine
  <2>5. ReceiveFails \/ LookAtLastResp => UNCHANGED build /\ UNCHANGED present
    BY DEF ReceiveFails, LookAtLastResp, engine
  <2>6. UNCHANGED vars => UNCHANGED build /\ UNCHANGED present
    BY DEF vars, engine
  <2> QED BY <2>1, <2>2, <2>3, <2>4, <2>5, <2>6 DEF Next, Test
<1>2. Asked = None /\ Asked' = None /\ Heard = NoVerdict /\ Heard' = NoVerdict
  BY <1>1 DEF Asked, Heard, NoVerdict
<1> QED BY <1>1, <1>2, JudgeStutters

(* Over a socket every step is one of the judge's, or none that it sees.   *)
LEMMA SocketJudge ==
  ASSUME TInv, SocketInv, Next, build = "socket"
  PROVE  [Judge!Next]_(Judge!jvars)
<1>1. None \notin Records /\ told \in Verdicts
  BY UtrzSessionAssumption DEF TInv, TestOK
<1>2. CASE EngineReads
  <2>1. UNCHANGED build /\ UNCHANGED <<Asked, Heard, present>>
    BY <1>2 DEF EngineReads, test, Asked, Heard, Busy, Reported, NoVerdict
  <2> QED BY <2>1, JudgeStutters
<1>3. CASE EngineEnds
  <2>1. present /\ ~present' /\ present' = FALSE /\ UNCHANGED <<Asked, Heard>>
    BY <1>3 DEF EngineEnds, test, Asked, Heard, Busy, Reported, NoVerdict
  <2>2. Judge!Leave
    BY <2>1 DEF Judge!Leave, Asked, Heard
  <2> QED BY <2>2 DEF Judge!Next
<1>4. ASSUME NEW r \in Records, BeginRecord(r) PROVE Judge!Next
  <2>1. Asked = None /\ Asked' = r /\ UNCHANGED present
    BY <1>4 DEF BeginRecord, Begin, Asked, Busy
  <2>2. told' = told \/ told' = NoVerdict
    BY <1>4 DEF BeginRecord, Begin
  <2>3. Heard' = Heard \/ Heard' = NoVerdict
    <3>1. build' = build
      BY <1>4 DEF BeginRecord, Begin
    <3>2. CASE told' = told
      BY <3>1, <3>2 DEF Heard, Reported, NoVerdict
    <3>3. CASE told' = NoVerdict
      <4>1. Reported' = NoVerdict
        BY <3>3 DEF Reported, NoVerdict
      <4> QED BY <3>1, <4>1 DEF Heard
    <3> QED BY <2>2, <3>2, <3>3
  <2>4. NoVerdict = Judge!NoVerdict
    BY DEF NoVerdict, Judge!NoVerdict
  <2>5. Judge!Ask(r)
    BY <2>1, <2>3, <2>4 DEF Judge!Ask, Asked, Heard
  <2> QED BY <2>5 DEF Judge!Next
<1>5. CASE PutByte \/ FlushBlock \/ Flushed
  <2>1. UNCHANGED <<build, current, told, present>>
    BY <1>5 DEF PutByte, FlushBlock, Flushed, engine
  <2>2. Busy /\ Busy'
    BY <1>5 DEF PutByte, FlushBlock, Flushed, Busy
  <2>3. UNCHANGED <<Asked, Heard, present>>
    BY <2>1, <2>2 DEF Asked, Heard, Reported, NoVerdict
  <2> QED BY <2>1, <2>3, JudgeStutters
<1>6. CASE FlushByte
  <2>1. UNCHANGED <<build, current, told, pc, present>>
    BY <1>6 DEF FlushByte, test, engine
  <2>2. UNCHANGED <<Asked, Heard, present>>
    BY <2>1 DEF Asked, Heard, Busy, Reported, NoVerdict
  <2> QED BY <2>1, <2>2, JudgeStutters
<1>7. CASE Receive
  <2>1. /\ current \in Records
        /\ \/ KeepWaiting
           \/ answer = AnswerRecord(Verdict[current]) /\ Meaningful /\ Conclude(Judged)
    BY <1>7, ReceiveAnswer
  <2>2. UNCHANGED build /\ UNCHANGED present /\ pc = "waiting"
    BY <1>7 DEF Receive, engine
  <2>3. CASE KeepWaiting
    <3>1. UNCHANGED <<Asked, Heard, present>>
      BY <2>2, <2>3 DEF KeepWaiting, Asked, Heard, Busy, Reported, NoVerdict
    <3> QED BY <2>2, <3>1, JudgeStutters
  <2>4. CASE answer = AnswerRecord(Verdict[current]) /\ Meaningful /\ Conclude(Judged)
    <3>1. Asked = current /\ Asked' = None
      BY <2>2, <2>4 DEF Conclude, Asked, Busy
    <3>2. Reported' = Verdict[current]
      BY <1>1, <2>1, <2>4, JudgedRight DEF Conclude
    <3>3. Heard' = Verdict[Asked]
      BY <2>2, <3>1, <3>2 DEF Heard
    <3>4. Judge!Answer
      BY <1>1, <2>1, <2>2, <3>1, <3>3 DEF Judge!Answer, Asked, Heard
    <3> QED BY <3>4 DEF Judge!Next
  <2> QED BY <2>1, <2>3, <2>4
<1>8. CASE ReceiveFails
  <2>1. /\ ~present /\ UNCHANGED build /\ UNCHANGED present /\ pc = "waiting" /\ pc' = "idle"
        /\ told' = [told EXCEPT !.status = "FAIL"]
    BY <1>8 DEF ReceiveFails, Conclude, engine
  <2>2. Heard'.status = "FAIL"
    <3>1. told'.status = "FAIL"
      BY <1>1, <2>1 DEF Verdicts
    <3> QED BY <2>1, <3>1 DEF Heard, Reported
  <2>3. Asked = current /\ current \in Records /\ Asked' = None
    BY <2>1 DEF Asked, Busy, TInv, Turns
  <2>4. Judge!Answer
    BY <1>1, <2>1, <2>2, <2>3 DEF Judge!Answer, Asked, Heard
  <2> QED BY <2>4 DEF Judge!Next
<1>9. CASE Die \/ Start
  <2>1. UNCHANGED build /\ UNCHANGED present /\ pc' \in {"dead", "idle"}
    BY <1>9 DEF Die, Start, engine
  <2>2. told' = told \/ told' = NoVerdict
    BY <1>9 DEF Die, Start
  <2>3. Heard' = Heard \/ Heard' = NoVerdict
    <3>1. CASE told' = told
      BY <2>1, <3>1 DEF Heard, Reported, NoVerdict
    <3>2. CASE told' = NoVerdict
      <4>1. Reported' = NoVerdict
        BY <3>2 DEF Reported, NoVerdict
      <4> QED BY <2>1, <4>1 DEF Heard
    <3> QED BY <2>2, <3>1, <3>2
  <2>4. Asked' = None /\ NoVerdict = Judge!NoVerdict
    BY <2>1 DEF Asked, Busy, NoVerdict, Judge!NoVerdict
  <2>5. Judge!Abandon
    BY <2>1, <2>3, <2>4 DEF Judge!Abandon, Asked, Heard
  <2> QED BY <2>5 DEF Judge!Next
<1>10. ~LookAtLastResp
  BY DEF LookAtLastResp
<1> QED BY <1>2, <1>3, <1>4, <1>5, <1>6, <1>7, <1>8, <1>9, <1>10 DEF Next, Test

LEMMA NextJudge == TInv /\ SocketInv /\ [Next]_vars => [Judge!Next]_(Judge!jvars)
<1> SUFFICES ASSUME TInv, SocketInv, [Next]_vars PROVE [Judge!Next]_(Judge!jvars)
  OBVIOUS
<1>1. CASE build = "library"
  BY <1>1, LibraryJudge
<1>2. CASE build = "socket" /\ Next
  BY <1>2, SocketJudge
<1>3. CASE UNCHANGED vars
  <2>1. UNCHANGED build /\ UNCHANGED <<Asked, Heard, present>>
    BY <1>3 DEF vars, test, engine, Asked, Heard, Busy, Reported, NoVerdict
  <2> QED BY <2>1, JudgeStutters
<1>4. build \in {"socket", "library"}
  BY UtrzSessionAssumption DEF TInv, TestOK
<1> QED BY <1>1, <1>2, <1>3, <1>4

LEMMA SocketInvariant ==
  ASSUME RecordsFit, NoneBeginsAnother, ~FlagCutOff
  PROVE  Spec => [](TInv /\ SocketInv)
<1>1. Init => TInv /\ SocketInv
  BY InitTInv, InitSocket
<1>2. TInv /\ SocketInv /\ [Next]_vars => (TInv /\ SocketInv)'
  BY NextTInv, NextSocket
<1> QED BY <1>1, <1>2, PTL DEF Spec

(* Over a socket, and whichever of both programs is ended and started, the *)
(* test goes on with the verdict on the very record it has made, once, and *)
(* with the line of a failure.                                             *)
THEOREM Refinement ==
  ASSUME RecordsFit, NoneBeginsAnother, ~FlagCutOff
  PROVE  Spec => ImplementsJudge
<1>1. Init => Judge!Init
  BY InitJudge
<1>2. TInv /\ SocketInv /\ [Next]_vars => [Judge!Next]_(Judge!jvars)
  BY NextJudge
<1> QED BY <1>1, <1>2, SocketInvariant, PTL DEF Spec, ImplementsJudge, Judge!Spec

(* A test that goes on after its verification of unmet expectations goes   *)
(* on with a failure.                                                      *)
LEMMA NextReports ==
  ASSUME TInv, SocketInv, Next, build = "socket", pc = "waiting", pc' = "idle",
         current = UnmetVerify
  PROVE  told'.status = "FAIL"
<1>1. CASE Receive
  <2>1. \/ KeepWaiting
        \/ answer = AnswerRecord(Verdict[current]) /\ Meaningful /\ Conclude(Judged)
    BY <1>1, ReceiveAnswer
  <2>2. ~KeepWaiting
    BY DEF KeepWaiting
  <2>3. /\ answer = AnswerRecord(Verdict[current]) /\ Meaningful /\ told' = Judged
    BY <2>1, <2>2 DEF Conclude
  <2>4. current \in Records /\ told \in Verdicts
    BY UtrzSessionAssumption DEF TInv, TestOK
  <2>5. Reported' = Verdict[current]
    BY <2>3, <2>4, JudgedRight
  <2>6. Reported'.status = told'.status
    <3>1. Reported' = told' \/ Reported' = [told' EXCEPT !.line = 0]
      BY DEF Reported
    <3>2. \/ told' = [told EXCEPT !.status = "SUCCESS"]
          \/ told' = [status |-> "FAIL", line |-> 0]
          \/ told' = [status |-> "FAIL", line |-> answer[2]]
      BY <2>3 DEF Judged
    <3> QED BY <2>4, <3>1, <3>2 DEF Verdicts
  <2> QED BY <2>5, <2>6, UtrzSessionAssumption
<1>2. CASE ReceiveFails
  <2>1. told' = [told EXCEPT !.status = "FAIL"] /\ told \in Verdicts
    BY <1>2 DEF ReceiveFails, Conclude, TInv, TestOK
  <2> QED BY <2>1 DEF Verdicts
<1>3. Receive \/ ReceiveFails
  <2>1. ~LookAtLastResp /\ ~Die
    BY DEF LookAtLastResp, Die
  <2>2. ~PutByte /\ ~FlushBlock /\ ~Flushed /\ ~Start
    BY DEF PutByte, FlushBlock, Flushed, Start
  <2>3. ~EngineReads /\ ~EngineEnds /\ ~FlushByte
    BY DEF EngineReads, EngineEnds, FlushByte, test
  <2>4. \A r \in Records : ~BeginRecord(r)
    BY DEF BeginRecord, Begin
  <2> QED BY <2>1, <2>2, <2>3, <2>4 DEF Next, Test
<1> QED BY <1>1, <1>2, <1>3

(* Over a socket the verification of unmet expectations causes the test to *)
(* fail, though Trazer be ended meanwhile (with the library it may not).   *)
THEOREM UnusedAreReported ==
  ASSUME RecordsFit, NoneBeginsAnother, ~FlagCutOff, Builds = {"socket"}
  PROVE  Spec => UnusedReported
<1>1. TInv => build = "socket"
  BY DEF TInv, TestOK
<1>2. TInv /\ SocketInv /\ [Next]_vars
        => [pc = "waiting" /\ pc' = "idle" /\ current = UnmetVerify
              => told'.status = "FAIL"]_vars
  BY <1>1, NextReports
<1> QED BY <1>2, SocketInvariant, PTL DEF Spec, UnusedReported
-----------------------------------------------------------------------------
(* The session with the library.                                           *)

(* Of w, f and rest, what is before the first f is w.                      *)
LEMMA FirstFlag ==
  ASSUME NEW S, NEW x \in Seq(S), NEW y \in Seq(S), y # <<>>, NEW w \in Seq(S),
         NEW rest \in Seq(S), NEW f \in S, Without(x, f), Without(w, f),
         x \o y = Append(w, f) \o rest, Head(y) = f
  PROVE  Tail(y) = rest
<1> DEFINE z == x \o y
           v == Append(w, f)
           k == Len(x)
           l == Len(y)
           m == Len(w)
           n == Len(rest)
           t == Tail(y)
<1>1. k \in Nat /\ l \in Nat \ {0} /\ m \in Nat /\ n \in Nat
  BY EmptySeq, LenProperties
<1>2. /\ Len(z) = k + l
      /\ \A i \in 1 .. k + l : z[i] = IF i <= k THEN x[i] ELSE y[i - k]
  BY ConcatProperties
<1>3. /\ v \in Seq(S) /\ Len(v) = m + 1 /\ v[m + 1] = f /\ \A i \in 1 .. m : v[i] = w[i]
  BY AppendProperties
<1>4. /\ Len(v \o rest) = Len(v) + n
      /\ \A i \in 1 .. Len(v) + n : (v \o rest)[i] = IF i <= Len(v) THEN v[i] ELSE rest[i - Len(v)]
  <2> HIDE DEF v
  <2> QED BY <1>3, ConcatProperties
<1>5. z = v \o rest
  OBVIOUS
<1>6. /\ Head(y) = y[1] /\ t \in Seq(S) /\ Len(t) = l - 1 /\ \A i \in 1 .. l - 1 : t[i] = y[i + 1]
  BY HeadTailProperties
<1>7. y[1] = f
  BY <1>6
<1>8. \A i \in 1 .. k : x[i] # f
  BY DEF Without
<1>9. \A i \in 1 .. m : w[i] # f
  BY DEF Without
<1> HIDE DEF z, v, k, l, m, n, t
<1>10. /\ Len(z) = (m + 1) + n
       /\ \A i \in 1 .. (m + 1) + n : z[i] = IF i <= m + 1 THEN v[i] ELSE rest[i - (m + 1)]
  BY <1>3, <1>4, <1>5
<1>11. k + l = (m + 1) + n
  BY <1>2, <1>10
<1>12. z[k + 1] = f
  <2>1. k + 1 \in 1 .. k + l /\ ~(k + 1 <= k) /\ (k + 1) - k = 1
    BY <1>1
  <2> QED BY <1>2, <1>7, <2>1
<1>13. ~(k < m)
  <2> SUFFICES ASSUME k < m PROVE FALSE
    OBVIOUS
  <2>1. k + 1 \in 1 .. m /\ k + 1 \in 1 .. (m + 1) + n /\ k + 1 <= m + 1
    BY <1>1
  <2>2. z[k + 1] = w[k + 1]
    BY <1>3, <1>10, <2>1
  <2> QED BY <1>9, <1>12, <2>1, <2>2
<1>14. ~(m < k)
  <2> SUFFICES ASSUME m < k PROVE FALSE
    OBVIOUS
  <2>1. m + 1 \in 1 .. k /\ m + 1 \in 1 .. (m + 1) + n /\ m + 1 <= m + 1
        /\ m + 1 \in 1 .. k + l /\ m + 1 <= k
    BY <1>1
  <2>2. x[m + 1] = f
    BY <1>2, <1>3, <1>10, <2>1
  <2> QED BY <1>8, <2>1, <2>2
<1>15. k = m /\ l - 1 = n
  BY <1>1, <1>11, <1>13, <1>14
<1>16. ASSUME NEW i \in 1 .. n PROVE t[i] = rest[i]
  <2>1. PICK j : j = (m + 1) + i
    OBVIOUS
  <2>2. /\ i \in 1 .. l - 1 /\ j \in 1 .. (m + 1) + n /\ ~(j <= m + 1) /\ j - (m + 1) = i
        /\ j \in 1 .. k + l /\ ~(j <= k) /\ j - k = i + 1
    BY <1>1, <1>11, <1>15, <2>1
  <2>3. z[j] = rest[i]
    BY <1>10, <2>2
  <2>4. z[j] = y[i + 1]
    BY <1>2, <2>2
  <2> QED BY <1>6, <2>2, <2>3, <2>4
<1>17. t = rest
  BY <1>6, <1>15, <1>16, SeqEqual DEF n
<1> QED BY <1>17 DEF t

(* A record that is behind something is not without a flag.                *)
LEMMA FlagThere ==
  ASSUME NEW S, NEW x \in Seq(S), NEW w \in Seq(S), NEW f \in S, Without(x \o Append(w, f), f)
  PROVE  FALSE
<1> DEFINE v == Append(w, f)
           z == x \o v
           k == Len(x)
           m == Len(w)
<1>1. v \in Seq(S) /\ Len(v) = m + 1 /\ v[m + 1] = f /\ m \in Nat /\ k \in Nat
  BY AppendProperties, LenProperties
<1> HIDE DEF v
<1>2. /\ Len(z) = k + Len(v)
      /\ \A i \in 1 .. k + Len(v) : z[i] = IF i <= k THEN x[i] ELSE v[i - k]
  BY <1>1, ConcatProperties
<1>3. Without(z, f)
  BY DEF v
<1> HIDE DEF z, k, m
<1>4. PICK j : j = k + (m + 1)
  OBVIOUS
<1>5. j \in 1 .. k + (m + 1) /\ ~(j <= k) /\ j - k = m + 1
  BY <1>1, <1>4
<1>6. z[j] = f /\ j \in 1 .. Len(z)
  BY <1>1, <1>2, <1>5
<1> QED BY <1>3, <1>6 DEF Without

(* A block of the stream is all there is of it, or ends with the array.    *)
LEMMA BlockToEnd ==
  ASSUME RingInv, BlockReq >= N, Ring!rkh_trc_get_block(BlockReq)
  PROVE  \/ trcqty' = 0
         \/ trcout # 0 /\ trcout' = 0
<1>1. N \in Nat \ {0} /\ BlockReq \in Nat /\ trcqty \in 0 .. N /\ trcout \in 0 .. N - 1
  BY RingConstants DEF RingInv, Ring!TypeOK, Ring!Index
<1>2. PICK n : n = Ring!BlockSize(BlockReq)
  OBVIOUS
<1>3. trcout' = Ring!Wrap(trcout + n) /\ trcqty' = trcqty - n
  BY <1>2 DEF Ring!rkh_trc_get_block, Ring!HandOut
<1>4. n = trcqty \/ (n = N - trcout /\ N - trcout <= trcqty)
  BY <1>1, <1>2 DEF Ring!BlockSize, Ring!Least
<1>5. CASE n = trcqty
  BY <1>1, <1>3, <1>5
<1>6. CASE n = N - trcout /\ N - trcout <= trcqty
  <2>1. trcout + n = N
    BY <1>1, <1>6
  <2>2. trcout' = 0
    BY <1>1, <1>3, <2>1 DEF Ring!Wrap
  <2>3. trcout = 0 => trcqty' = 0
    BY <1>1, <1>3, <1>6
  <2> QED BY <2>2, <2>3
<1> QED BY <1>4, <1>5, <1>6

(* A byte put where there is room leaves trcout alone.                     *)
LEMMA PutKeepsOut ==
  ASSUME RingInv, NEW b, Ring!rkh_trc_put(b), trcqty # N
  PROVE  trcout' = trcout
<1>1. /\ N \in Nat \ {0} /\ trcqty \in 0 .. N /\ trcout \in 0 .. N - 1
      /\ trcin = Ring!Wrap(trcout + trcqty)
  BY RingConstants DEF RingInv, Ring!TypeOK, Ring!Index, Ring!RingShape
<1>2. CASE trcqty + 1 >= N
  <2>1. trcout' = Ring!Wrap(trcin + 1)
    BY <1>2 DEF Ring!rkh_trc_put
  <2>2. trcqty = N - 1
    BY <1>1, <1>2
  <2> QED BY <1>1, <2>1, <2>2 DEF Ring!Wrap
<1>3. CASE ~(trcqty + 1 >= N)
  BY <1>3 DEF Ring!rkh_trc_put
<1> QED BY <1>2, <1>3
-----------------------------------------------------------------------------
(* What may be parsed before the record is: nothing, the flag of the       *)
(* stream, or the record before it.                                        *)
Leads == {<<>>, <<RKH_FLG>>} \cup {Whole(r) : r \in Records}

Follows(lead) == tr \o Coming = lead \o Whole(current)

(* Nothing is left, or a piece of the record, and its rest is at the       *)
(* start of the stream's array.                                            *)
Parsed == tr = <<>> /\ Coming = <<>>
Cut    == trcout = 0 /\ tr \o Coming = Whole(current)

Made ==
  /\ pc = "idle" /\ ~greeted
  /\ trcout = 0 /\ tr = <<>> /\ Coming = <<RKH_FLG>>

Recorded ==
  /\ pc \in {"putting", "flushing"}
  /\ \E lead \in Leads : Follows(lead) /\ (lead # <<>> => trcout = 0)

Parsing ==
  /\ pc = "last block"
  /\ Parsed \/ Cut \/ (Ring!history = <<>> /\ \E lead \in Leads : Follows(lead))

Left ==
  /\ pc = "waiting" \/ (pc = "idle" /\ greeted)
  /\ current \in Records
  /\ Parsed \/ Cut

LibraryInv ==
  build = "library" =>
    /\ Without(tr, RKH_FLG)
    /\ pc # "last block" => lent = <<>>
    /\ Made \/ Recorded \/ Parsing \/ Left

LEMMA LeadTypes ==
  /\ <<>> \in Leads
  /\ \A lead \in Leads :
       /\ lead \in Seq(Byte)
       /\ lead # <<>> => \E w \in Seq(Byte) : Without(w, RKH_FLG) /\ lead = Append(w, RKH_FLG)
<1>1. <<>> \in Seq(Byte) /\ <<RKH_FLG>> \in Seq(Byte) /\ Without(<<>>, RKH_FLG)
  BY RecordBytes, EmptySeq DEF Without
<1>2. <<RKH_FLG>> = Append(<<>>, RKH_FLG)
  OBVIOUS
<1>3. \A r \in Records : /\ Whole(r) \in Seq(Byte) /\ Bytes[r] \in Seq(Byte)
                         /\ Without(Bytes[r], RKH_FLG) /\ Whole(r) = Append(Bytes[r], RKH_FLG)
  BY RecordBytes DEF Without, Whole
<1> QED BY <1>1, <1>2, <1>3 DEF Leads

(* There is room for the record and what is before it.                     *)
LEMMA RoomForBoth ==
  ASSUME TInv, RecordsFit, current \in Records, NEW lead \in Leads, Follows(lead)
  PROVE  Len(Coming) <= N
<1>1. /\ tr \in Seq(Byte) /\ Coming \in Seq(Byte) /\ lead \in Seq(Byte)
      /\ Whole(current) \in Seq(Byte)
  BY ComingTypes, LeadTypes, RecordBytes DEF TInv, EngineOK
<1>2. /\ Len(tr \o Coming) = Len(tr) + Len(Coming) /\ Len(tr) \in Nat /\ Len(Coming) \in Nat
      /\ Len(lead \o Whole(current)) = Len(lead) + Len(Whole(current))
  <2> DEFINE w == Whole(current)
  <2> HIDE DEF w
  <2>1. Len(lead \o w) = Len(lead) + Len(w)
    BY <1>1, ConcatProperties DEF w
  <2>2. Len(tr \o Coming) = Len(tr) + Len(Coming)
    BY <1>1, ConcatProperties
  <2> QED BY <1>1, <2>1, <2>2, LenProperties DEF w
<1>3. \A r \in Records : Len(Whole(r)) = Len(Bytes[r]) + 1 /\ Len(Bytes[r]) \in Nat
  BY RecordBytes, AppendProperties, LenProperties DEF Whole
<1>4. PICK k : k = Len(Bytes[current])
  OBVIOUS
<1>5. Len(lead) + (k + 1) <= N
  <2>0. k \in Nat /\ k + k + 2 <= N
    BY <1>3, <1>4 DEF RecordsFit
  <2>1. CASE lead = <<>>
    BY <2>0, <2>1, RingConstants
  <2>2. CASE lead = <<RKH_FLG>>
    <3>1. Len(lead) = 1
      BY <2>2
    <3> QED BY <2>0, <3>1, RingConstants
  <2>3. ASSUME NEW r \in Records, lead = Whole(r) PROVE Len(lead) + (k + 1) <= N
    <3>1. PICK l : l = Len(Bytes[r])
      OBVIOUS
    <3>2. l + k + 2 <= N /\ l \in Nat /\ Len(lead) = l + 1
      BY <1>3, <1>4, <2>3, <3>1 DEF RecordsFit
    <3> QED BY <2>0, <3>2, RingConstants
  <2> QED BY <2>1, <2>2, <2>3 DEF Leads
<1>6. Len(tr) + Len(Coming) = Len(lead) + (k + 1)
  BY <1>2, <1>3, <1>4 DEF Follows
<1> QED BY <1>2, <1>5, <1>6, RingConstants

LEMMA InitLibrary == Init => LibraryInv
<1> SUFFICES ASSUME Init PROVE LibraryInv
  OBVIOUS
<1>1. Coming = <<RKH_FLG>> /\ lent = <<>>
  <2>1. lent = <<>> /\ Ring!history = <<RKH_FLG>> /\ todo = <<>>
    BY RingInit DEF Init
  <2> QED BY <2>1 DEF Coming
<1>2. trcout = 0 /\ tr = <<>> /\ Without(tr, RKH_FLG)
  BY EmptySeq DEF Init, Ring!Init, Without
<1> QED BY <1>1, <1>2 DEF Init, LibraryInv, Made

(* A record begins, behind the rest of the last one.                       *)
LEMMA BeginLibrary ==
  ASSUME TInv, LibraryInv, NEW r \in Records, BeginRecord(r)
  PROVE  LibraryInv'
<1> SUFFICES ASSUME build = "library" PROVE LibraryInv'
  BY DEF LibraryInv, BeginRecord, Begin
<1>1. /\ pc = "idle" /\ pc' = "putting" /\ current' = r
      /\ greeted \/ r = UT_INIT
      /\ UNCHANGED <<build, stream, tr>>
  BY DEF BeginRecord, Begin
<1>2. Coming' = Coming \o Whole(r) /\ lent' = <<>>
  BY BeginComing
<1>3. /\ Whole(r) \in Seq(Byte) /\ tr \in Seq(Byte) /\ Coming \in Seq(Byte)
      /\ trcout' = trcout /\ tr' = tr
  BY <1>1, RecordBytes, ComingTypes DEF TInv, EngineOK, stream
<1>4. tr \o (Coming \o Whole(r)) = (tr \o Coming) \o Whole(r)
  <2> DEFINE w == Whole(r)
  <2> HIDE DEF w
  <2>1. w \in Seq(Byte)
    BY <1>3 DEF w
  <2>2. (tr \o Coming) \o w = tr \o (Coming \o w)
    BY <1>3, <2>1, RegroupBytes, Zenon
  <2> QED BY <2>2 DEF w
<1>5. tr' \o Coming' = (tr \o Coming) \o Whole(current')
  BY <1>1, <1>2, <1>3, <1>4
<1>6. \E lead \in Leads : tr \o Coming = lead /\ (lead # <<>> => trcout = 0)
  <2>1. CASE Made
    <3>1. <<>> \o <<RKH_FLG>> = <<RKH_FLG>>
      OBVIOUS
    <3> QED BY <2>1, <3>1 DEF Made, Leads
  <2>2. CASE Left /\ Parsed
    <3>1. tr \o Coming = <<>>
      BY <2>2 DEF Parsed
    <3> QED BY <3>1, LeadTypes
  <2>3. CASE Left /\ Cut
    BY <2>3 DEF Left, Cut, Leads
  <2> QED BY <1>1, <2>1, <2>2, <2>3 DEF LibraryInv, Recorded, Parsing, Left
<1>7. Recorded'
  BY <1>1, <1>3, <1>5, <1>6 DEF Recorded, Follows
<1>8. Without(tr', RKH_FLG)
  BY <1>3 DEF LibraryInv
<1> QED BY <1>1, <1>2, <1>7, <1>8 DEF LibraryInv

LEMMA PutLibrary == TInv /\ RecordsFit /\ PutByte /\ LibraryInv => LibraryInv'
<1> SUFFICES ASSUME TInv, RecordsFit, PutByte, LibraryInv, build = "library" PROVE LibraryInv'
  BY DEF LibraryInv, PutByte
<1>1. /\ pc = "putting" /\ pc' \in {"putting", "flushing"} /\ current' = current /\ tr' = tr
      /\ Without(tr, RKH_FLG) /\ lent = <<>> /\ build' = build /\ current \in Records
  BY DEF PutByte, engine, LibraryInv, TInv, Turns, Busy
<1>2. PICK lead \in Leads : Follows(lead) /\ (lead # <<>> => trcout = 0)
  BY <1>1 DEF LibraryInv, Made, Recorded, Parsing, Left
<1>3. Len(Coming) <= N
  BY <1>1, <1>2, RoomForBoth
<1>4. Coming' = Coming /\ lent' = lent
  BY <1>3, PutComing
<1>5. trcqty # N
  <2>1. todo # <<>>
    BY <1>1 DEF TInv, Turns
  <2>2. PICK q : q = Len(todo)
    OBVIOUS
  <2>3. q # 0 /\ q \in Nat
    BY <2>1, <2>2, ComingTypes, EmptySeq
  <2>4. Len(Coming) = nbytes + trcqty + q /\ nbytes \in Nat /\ trcqty \in Nat
    BY <2>2, ComingTypes
  <2> QED BY <1>3, <2>3, <2>4, RingConstants
<1>6. trcout' = trcout
  <2>1. PICK b : b = Head(todo)
    OBVIOUS
  <2>2. Ring!rkh_trc_put(b)
    BY <2>1 DEF PutByte
  <2> QED BY <1>5, <2>2, PutKeepsOut DEF TInv
<1>7. Recorded'
  BY <1>1, <1>2, <1>4, <1>6 DEF Recorded, Follows
<1> QED BY <1>1, <1>4, <1>7 DEF LibraryInv

(* The block ends with the record, or with the array.                      *)
LEMMA TakeLibrary ==
  TInv /\ BlockReq >= N /\ FlushBlock /\ LibraryInv => LibraryInv'
<1> SUFFICES ASSUME TInv, BlockReq >= N, FlushBlock, LibraryInv, build = "library"
             PROVE  LibraryInv'
  BY DEF LibraryInv, FlushBlock
<1>1. /\ pc = "flushing" /\ pc' = "last block" /\ current' = current /\ tr' = tr
      /\ Without(tr, RKH_FLG) /\ build' = build
  BY DEF FlushBlock, engine, LibraryInv
<1>2. Coming' = Coming
  BY TakeComing
<1>3. PICK lead \in Leads : Follows(lead) /\ (lead # <<>> => trcout = 0)
  BY <1>1 DEF LibraryInv, Made, Recorded, Parsing, Left
<1>4. trcqty' = 0 \/ (trcout # 0 /\ trcout' = 0)
  BY BlockToEnd DEF FlushBlock, TInv
<1>5. CASE trcqty' = 0
  <2>1. TInv'
    BY TakeTInv
  <2>2. (trcqty = 0 <=> Ring!history = <<>>)'
    BY <2>1, NothingComing, PTL
  <2>3. Ring!history' = <<>>
    BY <1>5, <2>2
  <2>4. Parsing'
    BY <1>1, <1>2, <1>3, <2>3 DEF Parsing, Follows
  <2> QED BY <1>1, <2>4 DEF LibraryInv
<1>6. CASE trcout # 0 /\ trcout' = 0
  <2>1. lead = <<>>
    BY <1>3, <1>6
  <2>2. <<>> \o Whole(current) = Whole(current)
    <3>1. current \in Records
      BY <1>1 DEF TInv, Turns, Busy
    <3> QED BY <3>1, RecordBytes, NoBytes
  <2>3. Cut'
    BY <1>1, <1>2, <1>3, <1>6, <2>1, <2>2 DEF Cut, Follows
  <2> QED BY <1>1, <2>3 DEF LibraryInv, Parsing
<1> QED BY <1>4, <1>5, <1>6

(* What is parsed up to the flag that ends what was there before leaves    *)
(* the rest.                                                               *)
LEMMA LeadEnds ==
  ASSUME NEW x \in Seq(Byte), NEW y \in Seq(Byte), y # <<>>, NEW w \in Seq(Byte),
         NEW rest \in Seq(Byte), Without(x, RKH_FLG), Without(w, RKH_FLG),
         x \o y = Append(w, RKH_FLG) \o rest, Head(y) = RKH_FLG
  PROVE  Tail(y) = rest
<1>1. PICK f : f = RKH_FLG
  OBVIOUS
<1>2. PICK S : S = Byte
  OBVIOUS
<1>3. /\ x \in Seq(S) /\ y \in Seq(S) /\ w \in Seq(S) /\ rest \in Seq(S) /\ f \in S
  BY <1>1, <1>2, RecordBytes
<1>4. Without(x, f) /\ Without(w, f) /\ x \o y = Append(w, f) \o rest /\ Head(y) = f
  BY <1>1
<1> QED BY <1>3, <1>4, FirstFlag

(* A byte is parsed.                                                       *)
LEMMA FlushLibrary == TInv /\ FlushByte /\ LibraryInv => LibraryInv'
<1> SUFFICES ASSUME TInv, FlushByte, LibraryInv, build = "library" PROVE LibraryInv'
  BY DEF LibraryInv, FlushByte
<1>1. /\ Coming # <<>> /\ Coming' = Tail(Coming) /\ Coming \in Seq(Byte)
      /\ Ring!history' = Ring!history
  BY FlushComing, ComingTypes
<1>2. PICK b : b = Head(Coming)
  OBVIOUS
<1>3. /\ pc = "last block"
  <2>1. lent # <<>>
    BY NextOfBlock DEF FlushByte
  <2> QED BY <2>1 DEF LibraryInv
<1>4. /\ UNCHANGED <<build, test>> /\ tzparser_exec(b) /\ trcout' = trcout
  BY <1>2, FlushComing DEF FlushByte, Ring!FlushByte, Ring!ring
<1>5. /\ current \in Records /\ current' = current /\ pc' = "last block" /\ build' = build
  BY <1>3, <1>4 DEF TInv, Turns, Busy, test
<1>6. /\ tr \in Seq(Byte) /\ b \in Byte /\ Without(tr, RKH_FLG) /\ RKH_FLG \in Byte
  BY <1>1, <1>2, HeadAndTail, RecordBytes DEF TInv, EngineOK, LibraryInv
<1>7. ~Parsed /\ (Cut \/ (Ring!history = <<>> /\ \E lead \in Leads : Follows(lead)))
  BY <1>1, <1>3 DEF LibraryInv, Made, Recorded, Parsing, Left, Parsed
<1>8. CASE b # RKH_FLG
  <2>1. tr' = Append(tr, b)
    BY <1>4, <1>8 DEF tzparser_exec
  <2>2. Append(tr, b) \o Tail(Coming) = tr \o Coming
    BY <1>1, <1>2, <1>6, MoveOver
  <2>3. tr' \o Coming' = tr \o Coming
    BY <1>1, <2>1, <2>2
  <2>4. Without(tr', RKH_FLG)
    <3>1. /\ Len(Append(tr, b)) = Len(tr) + 1 /\ Append(tr, b)[Len(tr) + 1] = b
          /\ \A i \in 1 .. Len(tr) : Append(tr, b)[i] = tr[i]
          /\ Len(tr) \in Nat
      BY <1>6, AppendProperties, LenProperties
    <3>2. \A i \in 1 .. Len(tr) + 1 : i \in 1 .. Len(tr) \/ i = Len(tr) + 1
      BY <3>1
    <3> QED BY <1>6, <1>8, <2>1, <3>1, <3>2 DEF Without
  <2>5. Cut => Cut'
    BY <1>4, <1>5, <2>3 DEF Cut
  <2>6. \A lead \in Leads : Follows(lead) => Follows(lead)'
    BY <1>5, <2>3 DEF Follows
  <2>7. Parsing'
    BY <1>1, <1>5, <1>7, <2>5, <2>6 DEF Parsing
  <2> QED BY <1>5, <2>4, <2>7 DEF LibraryInv
<1>9. CASE b = RKH_FLG
  <2>1. tr' = <<>> /\ Without(tr', RKH_FLG)
    BY <1>4, <1>9, EmptySeq DEF tzparser_exec, Without
  <2>2. ASSUME tr \o Coming = Whole(current) PROVE Parsed'
    <3>1. Tail(Coming) = <<>>
      BY <1>1, <1>2, <1>5, <1>6, <1>9, <2>2, RecordEnds
    <3> QED BY <1>1, <2>1, <3>1 DEF Parsed
  <2>3. ASSUME NEW lead \in Leads, Follows(lead), lead # <<>>, Ring!history = <<>> PROVE Parsing'
    <3>1. PICK w \in Seq(Byte) : Without(w, RKH_FLG) /\ lead = Append(w, RKH_FLG)
      BY <2>3, LeadTypes
    <3>2. PICK y : y = Coming
      OBVIOUS
    <3>3. PICK rest : rest = Whole(current)
      OBVIOUS
    <3>4. /\ y \in Seq(Byte) /\ y # <<>> /\ rest \in Seq(Byte) /\ Head(y) = RKH_FLG
          /\ tr \o y = Append(w, RKH_FLG) \o rest
      BY <1>1, <1>2, <1>5, <1>9, <2>3, <3>1, <3>2, <3>3, RecordBytes DEF Follows
    <3>5. Tail(y) = rest
      BY <1>6, <3>1, <3>4, LeadEnds
    <3>6. Coming' = Whole(current)
      BY <1>1, <3>2, <3>3, <3>5
    <3>7. tr' \o Coming' = <<>> \o Whole(current')
      BY <1>5, <2>1, <3>6
    <3>8. Follows(<<>>)'
      BY <3>7 DEF Follows
    <3> QED BY <1>1, <1>5, <2>3, <3>8, LeadTypes DEF Parsing
  <2>4. ASSUME Follows(<<>>) PROVE Parsed'
    <3>1. <<>> \o Whole(current) = Whole(current)
      BY <1>5, RecordBytes, NoBytes
    <3> QED BY <2>2, <2>4, <3>1 DEF Follows
  <2>5. Parsing'
    <3>1. Cut => Parsing'
      BY <1>5, <2>2 DEF Cut, Parsing
    <3>2. ASSUME NEW lead \in Leads, Follows(lead), Ring!history = <<>> PROVE Parsing'
      BY <1>5, <2>3, <2>4, <3>2 DEF Parsing
    <3> QED BY <1>7, <3>1, <3>2
  <2> QED BY <1>5, <2>1, <2>5 DEF LibraryInv
<1> QED BY <1>8, <1>9

(* The block is parsed.                                                    *)
LEMMA FlushedLibrary == TInv /\ Flushed /\ LibraryInv => LibraryInv'
<1> SUFFICES ASSUME TInv, Flushed, LibraryInv, build = "library" PROVE LibraryInv'
  BY DEF LibraryInv, Flushed
<1>1. /\ nbytes = 0 /\ pc' = "waiting" /\ pc \in {"last block", "flushing"}
      /\ pc = "flushing" => trcqty = 0
      /\ UNCHANGED <<build, stream, current, todo, engine>>
  BY DEF Flushed
<1>2. /\ lent = <<>> /\ todo = <<>> /\ current \in Records
      /\ UNCHANGED <<Coming, lent, tr, trcout>>
  BY <1>1, NothingComing, ComingStays DEF TInv, Turns, Busy, engine, stream
<1>3. ASSUME Ring!history = <<>>, NEW lead \in Leads, Follows(lead) PROVE FALSE
  <2>1. Coming = <<>>
    BY <1>2, <1>3 DEF Coming
  <2>2. tr \in Seq(Byte) /\ tr \o <<>> = tr
    BY NoBytes DEF TInv, EngineOK
  <2>3. tr = lead \o Append(Bytes[current], RKH_FLG)
    BY <1>3, <2>1, <2>2 DEF Follows, Whole
  <2>4. Without(lead \o Append(Bytes[current], RKH_FLG), RKH_FLG)
    BY <2>3 DEF LibraryInv
  <2>5. lead \in Seq(Byte) /\ Bytes[current] \in Seq(Byte) /\ RKH_FLG \in Byte
    BY <1>2, LeadTypes, RecordBytes
  <2> QED BY <2>4, <2>5, FlagThere
<1>4. Parsed \/ Cut
  <2>1. CASE pc = "flushing"
    <3>1. PICK lead \in Leads : Follows(lead)
      BY <2>1 DEF LibraryInv, Made, Recorded, Parsing, Left
    <3>2. Ring!history = <<>>
      BY <1>1, <2>1, NothingComing
    <3> QED BY <1>3, <3>1, <3>2
  <2>2. CASE pc = "last block"
    BY <1>3, <2>2 DEF LibraryInv, Made, Recorded, Parsing, Left
  <2> QED BY <1>1, <2>1, <2>2
<1>5. Left'
  BY <1>1, <1>2, <1>4 DEF Left, Parsed, Cut
<1> QED BY <1>1, <1>2, <1>5 DEF LibraryInv

(* What LibraryInv depends on.                                             *)
LEMMA LibraryStays ==
  ASSUME LibraryInv, UNCHANGED <<build, stream, todo, pc, current, greeted, tr>>
  PROVE  LibraryInv'
<1>1. UNCHANGED Coming /\ UNCHANGED lent /\ UNCHANGED trcout /\ UNCHANGED Ring!history
  BY ComingStays DEF stream, Ring!history, Ring!Cell
<1>2. \A lead : Follows(lead) => Follows(lead)'
  BY <1>1 DEF Follows
<1>3. (Parsed => Parsed') /\ (Cut => Cut')
  BY <1>1 DEF Parsed, Cut
<1>4. (Made => Made') /\ (Left => Left')
  BY <1>1, <1>3 DEF Made, Left
<1>5. Recorded => Recorded'
  BY <1>1, <1>2 DEF Recorded
<1>6. Parsing => Parsing'
  BY <1>1, <1>2, <1>3 DEF Parsing
<1> QED BY <1>1, <1>4, <1>5, <1>6 DEF LibraryInv

(* The hook has looked at the answer.                                      *)
LEMMA LooksLibrary == TInv /\ LookAtLastResp /\ LibraryInv => LibraryInv'
<1> SUFFICES ASSUME TInv, LookAtLastResp, LibraryInv PROVE LibraryInv'
  OBVIOUS
<1>1. /\ build = "library" /\ pc = "waiting" /\ pc' = "idle"
      /\ UNCHANGED <<build, stream, current, todo, greeted, tr>>
  BY DEF LookAtLastResp, Conclude, engine
<1>2. UNCHANGED Coming /\ UNCHANGED lent /\ UNCHANGED trcout
  BY <1>1, ComingStays DEF stream
<1>3. greeted /\ Left
  BY <1>1 DEF TInv, Turns, Busy, LibraryInv, Made, Recorded, Parsing
<1>4. Left'
  BY <1>1, <1>2, <1>3 DEF Left, Parsed, Cut
<1> QED BY <1>1, <1>2, <1>4 DEF LibraryInv

LEMMA NextLibrary ==
  ASSUME RecordsFit, BlockReq >= N, TInv, LibraryInv, [Next]_vars
  PROVE  LibraryInv'
<1>1. build' = build
  <2>1. ASSUME NEW r \in Records, BeginRecord(r) PROVE build' = build
    BY <2>1 DEF BeginRecord, Begin
  <2>2. Test => build' = build
    BY DEF Test, PutByte, FlushBlock, FlushByte, Flushed, Receive, ReceiveFails, LookAtLastResp
  <2> QED BY <2>1, <2>2 DEF Next, vars, EngineReads, EngineEnds, Die, Start
<1> SUFFICES ASSUME build = "library" PROVE LibraryInv'
  BY <1>1 DEF LibraryInv
<1>2. ~EngineReads /\ ~EngineEnds /\ ~Receive /\ ~ReceiveFails /\ ~Die /\ ~Start
  BY DEF TInv, Turns, EngineReads, EngineEnds, Receive, ReceiveFails, Die, Start
<1>3. ASSUME NEW r \in Records, BeginRecord(r) PROVE LibraryInv'
  BY <1>3, BeginLibrary
<1>4. PutByte \/ FlushBlock \/ FlushByte \/ Flushed \/ LookAtLastResp => LibraryInv'
  BY PutLibrary, TakeLibrary, FlushLibrary, FlushedLibrary, LooksLibrary
<1>5. UNCHANGED vars => LibraryInv'
  <2> SUFFICES ASSUME UNCHANGED vars PROVE LibraryInv'
    OBVIOUS
  <2> QED BY LibraryStays DEF vars, test, engine
<1> QED BY <1>2, <1>3, <1>4, <1>5 DEF Next, Test

(* What the hook leaves behind.                                            *)
LEMMA WhatIsLeft == TInv /\ SocketInv /\ LibraryInv => NothingLeft
<1> SUFFICES ASSUME TInv, SocketInv, LibraryInv, pc = "idle", greeted
             PROVE  IF build = "socket"
                    THEN /\ trcqty = 0 /\ toClient = <<>>
                         /\ present => /\ toEngine = <<>> /\ tr = <<>>
                                       /\ answer = <<>> /\ state = "COLLECT"
                    ELSE tr \o Ring!history \in {<<>>, Whole(current)}
  BY DEF NothingLeft
<1>1. build \in {"socket", "library"}
  BY UtrzSessionAssumption DEF TInv, TestOK
<1>2. CASE build = "socket"
  <2>1. trcqty = 0
    BY <1>2 DEF TInv, Turns
  <2>2. CASE present
    <3>1. Finished
      BY <1>2, <2>2 DEF SocketInv, Opening, Within, SentAll, Answered, Dead
    <3> QED BY <1>2, <2>1, <3>1 DEF Finished, Quiet
  <2>3. CASE ~present
    <3>1. toClient = <<>>
      BY <1>2, <2>3 DEF SocketInv, Deserted
    <3> QED BY <1>2, <2>1, <2>3, <3>1
  <2> QED BY <2>2, <2>3
<1>3. CASE build = "library"
  <2>1. lent = <<>> /\ (Parsed \/ Cut)
    BY <1>3 DEF LibraryInv, Made, Recorded, Parsing, Left
  <2>2. todo = <<>>
    BY DEF TInv, Turns
  <2>3. Coming = Ring!history
    <3>1. PICK h : h = Ring!history
      OBVIOUS
    <3>2. h \in Seq(Byte)
      BY <3>1, ComingTypes
    <3>3. Coming = (<<>> \o h) \o <<>>
      BY <2>1, <2>2, <3>1 DEF Coming
    <3>4. <<>> \o h = h /\ h \o <<>> = h
      BY <3>2, NoBytes
    <3> QED BY <3>1, <3>3, <3>4
  <2>4. tr \o Coming \in {<<>>, Whole(current)}
    BY <2>1 DEF Parsed, Cut
  <2> QED BY <1>3, <2>3, <2>4
<1> QED BY <1>1, <1>2, <1>3

(* When the hook returns there is nothing left of the record, over a       *)
(* socket neither in the stream, nor on its way, nor in either parser;     *)
(* with the library, which parses a single block, at most the rest of that *)
(* one record.                                                             *)
THEOREM NothingLeftBehind ==
  ASSUME RecordsFit, NoneBeginsAnother, ~FlagCutOff, BlockReq >= N
  PROVE  Spec => []NothingLeft
<1>1. Init => TInv /\ SocketInv /\ LibraryInv
  BY InitTInv, InitSocket, InitLibrary
<1>2. TInv /\ SocketInv /\ LibraryInv /\ [Next]_vars => (TInv /\ SocketInv /\ LibraryInv)'
  BY NextTInv, NextSocket, NextLibrary
<1>3. TInv /\ SocketInv /\ LibraryInv => NothingLeft
  BY WhatIsLeft
<1> QED BY <1>1, <1>2, <1>3, PTL DEF Spec
=============================================================================
