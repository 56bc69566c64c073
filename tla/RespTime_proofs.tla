--------------------------- MODULE RespTime_proofs ---------------------------
(***************************************************************************)
(* That response times are right, for any active objects, signals and      *)
(* sequence numbers, any size of the stream and any number of records and  *)
(* of starts.  It is proved for posts by FIFO alone: rtimtbl.cpp does not  *)
(* follow posts by LIFO.                                                   *)
(***************************************************************************)
EXTENDS RespTime, TLAPS, SequenceTheorems

LEMMA RecordFields ==
  ASSUME NEW r \in Record
  PROVE  /\ r.kind \in {"POST", "GET", "OTHER", "TCFG"} /\ r.boot \in Nat
         /\ r.kind \in {"POST", "GET"} => r.ao \in AO /\ r.ev \in Event
         /\ r.kind # "TCFG" => r.serial \in Nat
BY DEF Record

LEMMA EventFields ==
  ASSUME NEW e \in Event
  PROVE  e.uid \in Nat \ {0} /\ e.sig \in Signal
BY DEF Event

(* What is first in a sequence, and what remains of it.                    *)
LEMMA Shifted ==
  ASSUME NEW S, NEW s \in Seq(S), s # <<>>
  PROVE  /\ Head(s) = s[1] /\ s[1] \in S
         /\ Tail(s) \in Seq(S)
         /\ Len(s) \in Nat \ {0} /\ Len(Tail(s)) = Len(s) - 1
         /\ \A i \in 1 .. Len(s) - 1 : Tail(s)[i] = s[i + 1]
<1>1. Len(s) \in Nat \ {0}
  BY EmptySeq
<1>2. Head(s) = s[1]
  BY <1>1
<1>3. s[1] \in S
  BY <1>1, ElementOfSeq
<1> QED BY <1>1, <1>2, <1>3, HeadTailProperties
-----------------------------------------------------------------------------
LEMMA InitTypeOK == Init => TypeOK
<1> SUFFICES ASSUME Init PROVE TypeOK
  OBVIOUS
<1>1. NoQueues \in [AO -> Seq(Event)] /\ \A ao \in AO : Len(NoQueues[ao]) <= 1
  BY EmptySeq DEF NoQueues
<1>2. [kind |-> "TCFG", boot |-> 1] \in Record
  BY DEF Record
<1>3. stream \in Seq(Record) /\ Len(stream) = 1
  BY <1>2 DEF Init
<1>4. NSEQ - 1 \in 0 .. NSEQ - 1
  BY RespTimeAssumption
<1>5. stream \in Seq(Record) /\ Len(stream) <= Capacity
  BY <1>3, RespTimeAssumption
<1>6. /\ report \in [uid : Nat, stamp : Nat] /\ last \in Nat \X Nat
      /\ rtime_enable = FALSE /\ lost = FALSE /\ unnoticed = FALSE
      /\ {boot, serial, posted, recorded} \subseteq Nat
  BY DEF Init, NoReport
<1>7. queue = NoQueues /\ taken = NoQueues /\ rt_tbl = NoQueues /\ lastnseq = NSEQ - 1
  BY DEF Init
<1> QED BY <1>1, <1>4, <1>5, <1>6, <1>7 DEF TypeOK

LEMMA PutTypeOK ==
  ASSUME TypeOK, NEW r \in Record, Put(r)
  PROVE  /\ stream' \in Seq(Record) /\ Len(stream') <= Capacity
         /\ {boot', serial', recorded'} \subseteq Nat /\ UNCHANGED analyzer
         /\ lost' \in BOOLEAN
<1>1. stream \in Seq(Record) /\ Len(stream) <= Capacity /\ Len(stream) \in Nat
  BY LenProperties DEF TypeOK
<1>2. ASSUME Len(stream) = Capacity
      PROVE  stream' \in Seq(Record) /\ Len(stream') <= Capacity
  <2>1. stream # <<>>
    BY <1>2, RespTimeAssumption, EmptySeq
  <2>2. Tail(stream) \in Seq(Record) /\ Len(Tail(stream)) = Len(stream) - 1
    BY <1>1, <2>1, Shifted
  <2>3. /\ Append(Tail(stream), r) \in Seq(Record)
        /\ Len(Append(Tail(stream), r)) = Len(Tail(stream)) + 1
    BY <2>2, AppendProperties
  <2> QED BY <1>1, <1>2, <2>2, <2>3 DEF Put
<1>3. ASSUME Len(stream) # Capacity
      PROVE  stream' \in Seq(Record) /\ Len(stream') <= Capacity
  <2>1. Len(Append(stream, r)) <= Capacity /\ Append(stream, r) \in Seq(Record)
    BY <1>1, <1>3, AppendProperties, RespTimeAssumption
  <2> QED BY <1>3, <2>1 DEF Put
<1>4. {boot', serial', recorded'} \subseteq Nat /\ UNCHANGED analyzer
  BY SMTT(30) DEF Put, TypeOK
<1>5. lost' \in BOOLEAN
  BY Zenon DEF Put, TypeOK
<1> QED BY <1>2, <1>3, <1>4, <1>5

LEMMA AnalyzeTypeOK == TypeOK /\ Analyze => TypeOK'
<1> SUFFICES ASSUME TypeOK, Analyze PROVE TypeOK'
  OBVIOUS
<1> DEFINE r == Head(stream)
<1>1. /\ r \in Record /\ stream' = Tail(stream) /\ stream' \in Seq(Record)
      /\ Len(stream') <= Capacity /\ UNCHANGED <<target, lost>>
  BY Shifted, RespTimeAssumption, SMTT(20) DEF Analyze, TypeOK
<1>2. \/ r.kind = "TCFG"  /\ proc_tcfg_evt(r)
      \/ r.kind = "POST"  /\ Verify(r) /\ post_fifo_symevt(r)
      \/ r.kind = "GET"   /\ Verify(r) /\ remove_symevt_tstamp(r)
      \/ r.kind = "OTHER" /\ Verify(r) /\ UNCHANGED <<rt_tbl, report>>
  BY DEF Analyze
<1> HIDE DEF r
<1>3. r.boot \in Nat /\ (r.kind # "TCFG" => r.serial \in Nat)
      /\ (r.kind \in {"POST", "GET"} => r.ao \in AO /\ r.ev \in Event)
  BY <1>1, RecordFields
<1>4. ASSUME Verify(r), r.kind # "TCFG"
      PROVE  /\ lastnseq' \in 0 .. NSEQ - 1 /\ rtime_enable' \in BOOLEAN
             /\ last' \in Nat \X Nat /\ unnoticed' \in BOOLEAN
  <2>1. lastnseq' \in 0 .. NSEQ - 1 /\ last' \in Nat \X Nat
    BY <1>3, <1>4, RespTimeAssumption DEF Verify, nseq
  <2>2. rtime_enable' \in BOOLEAN /\ unnoticed' \in BOOLEAN
    BY <1>4, ZenonT(30) DEF Verify, TypeOK
  <2> QED BY <2>1, <2>2
<1>5. CASE r.kind = "TCFG" /\ proc_tcfg_evt(r)
  <2>1. NoQueues \in [AO -> Seq(Event)]
    BY EmptySeq DEF NoQueues
  <2> QED BY <1>1, <1>3, <1>5, <2>1 DEF proc_tcfg_evt, TypeOK, target
<1>6. CASE r.kind = "POST" /\ Verify(r) /\ post_fifo_symevt(r)
  <2>1. rt_tbl' \in [AO -> Seq(Event)] /\ report' = report
    BY <1>3, <1>6, AppendProperties DEF post_fifo_symevt, TypeOK
  <2> QED BY <1>1, <1>4, <1>6, <2>1 DEF TypeOK, target
<1>7. CASE r.kind = "GET" /\ Verify(r) /\ remove_symevt_tstamp(r)
  <2> DEFINE posts == rt_tbl[r.ao]
  <2>1. posts \in Seq(Event) /\ r.ao \in AO /\ r.ev \in Event
    BY <1>3, <1>7 DEF TypeOK
  <2>2. posts # <<>> => Tail(posts) \in Seq(Event) /\ Head(posts) \in Event
    BY <2>1, Shifted
  <2>3. rt_tbl' \in [AO -> Seq(Event)]
    BY <1>7, <2>1, <2>2 DEF remove_symevt_tstamp, TypeOK
  <2>4. report' \in [uid : Nat, stamp : Nat]
    BY <1>7, <2>1, <2>2, EventFields DEF remove_symevt_tstamp
  <2> QED BY <1>1, <1>4, <1>7, <2>3, <2>4 DEF TypeOK, target
<1>8. CASE r.kind = "OTHER" /\ Verify(r) /\ UNCHANGED <<rt_tbl, report>>
  BY <1>1, <1>4, <1>8 DEF TypeOK, target
<1> QED BY <1>2, <1>5, <1>6, <1>7, <1>8

LEMMA NextTypeOK == TypeOK /\ [Next]_vars => TypeOK'
<1> SUFFICES ASSUME TypeOK, [Next]_vars PROVE TypeOK'
  OBVIOUS
<1>1. ASSUME NEW ao \in AO, NEW sig \in Signal, NEW way \in Ways, Post(ao, sig, way)
      PROVE  TypeOK'
  <2> DEFINE ev == [uid |-> posted + 1, sig |-> sig]
             r  == [kind |-> "POST", ao |-> ao, ev |-> ev, boot |-> boot, serial |-> serial]
  <2>1. ev \in Event /\ r \in Record
    BY DEF Event, Record, TypeOK
  <2>2. queue[ao] \in Seq(Event)
    BY DEF TypeOK
  <2>3. Append(queue[ao], ev) \in Seq(Event) /\ <<ev>> \o queue[ao] \in Seq(Event)
    BY <2>1, <2>2, AppendProperties, ConcatProperties
  <2> HIDE DEF ev
  <2>4. queue' \in [AO -> Seq(Event)] /\ posted' = posted + 1 /\ taken' = taken
    BY <1>1, <2>3 DEF Post, TypeOK, ev
  <2>5. Put(r)
    BY <1>1 DEF Post, ev
  <2> HIDE DEF r
  <2>6. /\ stream' \in Seq(Record) /\ Len(stream') <= Capacity
        /\ {boot', serial', recorded'} \subseteq Nat /\ UNCHANGED analyzer
        /\ lost' \in BOOLEAN
    BY <2>1, <2>5, PutTypeOK
  <2>7. posted' \in Nat
    BY <2>4, SMTT(30) DEF TypeOK
  <2> QED BY <2>4, <2>6, <2>7 DEF TypeOK, analyzer
<1>2. ASSUME NEW ao \in AO, Take(ao) PROVE TypeOK'
  <2>1. Head(queue[ao]) \in Event /\ Tail(queue[ao]) \in Seq(Event)
    BY <1>2, Shifted DEF Take, TypeOK
  <2>2. <<Head(queue[ao])>> \in Seq(Event) /\ Len(<<Head(queue[ao])>>) = 1
    BY <2>1
  <2>3. queue' \in [AO -> Seq(Event)] /\ taken' \in [AO -> Seq(Event)]
        /\ \A a \in AO : Len(taken'[a]) <= 1
    BY <1>2, <2>1, <2>2, SMTT(30) DEF Take, TypeOK
  <2> QED BY <1>2, <2>3 DEF Take, TypeOK, analyzer
<1>3. ASSUME NEW ao \in AO, RecordGet(ao) PROVE TypeOK'
  <2> DEFINE r == [kind |-> "GET", ao |-> ao, ev |-> taken[ao][1], boot |-> boot,
                   serial |-> serial]
  <2>1. taken[ao][1] \in Event
    BY <1>3, Shifted DEF RecordGet, TypeOK
  <2>2. r \in Record
    BY <2>1 DEF Record, TypeOK
  <2>3. Put(r) /\ UNCHANGED <<queue, posted>>
    BY <1>3 DEF RecordGet
  <2>4. taken' \in [AO -> Seq(Event)] /\ \A a \in AO : Len(taken'[a]) <= 1
    BY <1>3, EmptySeq, SMTT(30) DEF RecordGet, TypeOK
  <2> HIDE DEF r
  <2> QED BY <2>2, <2>3, <2>4, PutTypeOK DEF TypeOK, analyzer
<1>4. CASE RecordOther
  <2> DEFINE r == [kind |-> "OTHER", boot |-> boot, serial |-> serial]
  <2>1. r \in Record /\ Put(r) /\ UNCHANGED <<queue, taken, posted>>
    BY <1>4 DEF RecordOther, Record, TypeOK
  <2> HIDE DEF r
  <2> QED BY <2>1, PutTypeOK DEF TypeOK, analyzer
<1>5. CASE Restart
  <2>1. NoQueues \in [AO -> Seq(Event)] /\ \A ao \in AO : Len(NoQueues[ao]) <= 1
    BY EmptySeq DEF NoQueues
  <2>2. [kind |-> "TCFG", boot |-> boot + 1] \in Record
    BY DEF Record, TypeOK
  <2>3. stream' \in Seq(Record) /\ Len(stream') = 1
    BY <1>5, <2>2 DEF Restart
  <2>4. lost' \in BOOLEAN
    BY <1>5, Zenon DEF Restart
  <2> QED BY <1>5, <2>1, <2>3, <2>4, RespTimeAssumption, SMTT(30) DEF Restart, TypeOK, analyzer
<1>6. CASE Analyze
  BY <1>6, AnalyzeTypeOK
<1>7. CASE UNCHANGED vars
  BY <1>7 DEF vars, target, analyzer, TypeOK
<1> QED BY <1>1, <1>2, <1>3, <1>4, <1>5, <1>6, <1>7 DEF Next

(* The variables keep their types, with any number of objects, records and *)
(* starts.                                                                 *)
THEOREM TypeCorrect == Spec => []TypeOK
<1> QED BY InitTypeOK, NextTypeOK, PTL DEF Spec
-----------------------------------------------------------------------------
(* The queue kept for an active object and the one it has in the target.   *)
IsIn(e, s)     == \E i \in 1 .. Len(s) : s[i] = e
IsPost(r, ao)  == r.kind = "POST" /\ r.ao = ao
IsGet(r, ao)   == r.kind = "GET" /\ r.ao = ao
Posted(e, s, ao) == \E i \in 1 .. Len(s) : IsPost(s[i], ao) /\ s[i].ev = e
Got(e, s, ao)    == \E i \in 1 .. Len(s) : IsGet(s[i], ao) /\ s[i].ev = e

Rising(s) == \A i, j \in 1 .. Len(s) : i < j => s[i].uid < s[j].uid
Before(s, t) == \A i \in 1 .. Len(s), j \in 1 .. Len(t) : s[i].uid < t[j].uid

(* The queue tbl kept for ao, the records s under way, the event t taken   *)
(* and the queue q: a record is later than what is known, or earlier than  *)
(* what is to come; and no get is recorded before its post.                *)
Fits(r, tbl, t, q, ao) ==
  /\ IsPost(r, ao) => \A k \in 1 .. Len(tbl) : tbl[k].uid < r.ev.uid
  /\ IsGet(r, ao) => /\ \A k \in 1 .. Len(t) : r.ev.uid < t[k].uid
                     /\ \A k \in 1 .. Len(q) : r.ev.uid < q[k].uid

Follows(r, f, ao) ==
  /\ IsPost(r, ao) /\ IsPost(f, ao) => r.ev.uid < f.ev.uid
  /\ IsGet(r, ao) /\ IsGet(f, ao) => r.ev.uid < f.ev.uid
  /\ IsGet(r, ao) /\ IsPost(f, ao) => r.ev # f.ev

(* Known to Trazer, or posted and under way; and not got, as far as it     *)
(* will know.                                                              *)
Known(e, tbl, s, ao)    == IsIn(e, tbl) \/ Posted(e, s, ao)
Waiting(e, s, t, q, ao) == Got(e, s, ao) \/ IsIn(e, t) \/ IsIn(e, q)

(* The events known are those waited for, both in the order of posting; p  *)
(* is the latest post.                                                     *)
Agree(tbl, s, t, q, ao, p) ==
  /\ \A e \in Event : Known(e, tbl, s, ao) <=> Waiting(e, s, t, q, ao)
  /\ \A e \in Event : Known(e, tbl, s, ao) => e.uid <= p
  /\ Rising(tbl) /\ Rising(q) /\ Before(t, q)
  /\ \A i \in 1 .. Len(s) : Fits(s[i], tbl, t, q, ao)
  /\ \A i, j \in 1 .. Len(s) : i < j => Follows(s[i], s[j], ao)

(* The records under way are the last ones of the target's present run.    *)
TcfgFirst(s) == Len(s) > 0 /\ s[1].kind = "TCFG"

Numbered ==
  /\ \A i \in 1 .. Len(stream) :
       /\ stream[i].boot = boot
       /\ stream[i].kind = "TCFG" => i = 1
       /\ stream[i].kind # "TCFG" => stream[i].serial + Len(stream) + 1 = serial + i
  /\ TcfgFirst(stream) => last[1] < boot /\ Len(stream) = serial + 1
  /\ last[1] <= boot
  /\ last[1] = boot => last[2] + Len(stream) <= serial

(* None of this run's records is missing between the last one analyzed and *)
(* those under way; or the analyzer is about to begin with the run.        *)
Followed ==
  \/ TcfgFirst(stream)
  \/ rtime_enable /\ ~unnoticed /\ last[1] = boot /\ last[2] + Len(stream) = serial

Kept(s, ao) == IF TcfgFirst(s) THEN <<>> ELSE rt_tbl[ao]

AllAgree == \A ao \in AO : Agree(Kept(stream, ao), stream, taken[ao], queue[ao], ao, posted)

IInv == TypeOK /\ Numbered /\ (Followed => AllAgree) /\ RightTime
-----------------------------------------------------------------------------
(* What appending an element, or removing the first, does to what is in a  *)
(* sequence and to its order.                                              *)
LEMMA OneMore ==
  ASSUME NEW S, NEW s \in Seq(S), NEW r \in S
  PROVE  /\ Append(s, r) \in Seq(S)
         /\ Len(s) \in Nat /\ Len(Append(s, r)) = Len(s) + 1
         /\ Append(s, r)[Len(s) + 1] = r
         /\ \A i \in 1 .. Len(s) : Append(s, r)[i] = s[i]
BY AppendProperties, LenProperties

LEMMA InOneMore ==
  ASSUME NEW S, NEW s \in Seq(S), NEW r \in S
  PROVE  \A e, ao : /\ IsIn(e, Append(s, r)) <=> IsIn(e, s) \/ e = r
                    /\ Posted(e, Append(s, r), ao) <=>
                         Posted(e, s, ao) \/ (IsPost(r, ao) /\ r.ev = e)
                    /\ Got(e, Append(s, r), ao) <=>
                         Got(e, s, ao) \/ (IsGet(r, ao) /\ r.ev = e)
<1> DEFINE more == Append(s, r)
<1>1. /\ Len(s) \in Nat /\ Len(more) = Len(s) + 1 /\ more[Len(s) + 1] = r
      /\ \A i \in 1 .. Len(s) : more[i] = s[i]
  BY OneMore
<1> HIDE DEF more
<1>2. \A i \in 1 .. Len(more) : i \in 1 .. Len(s) \/ i = Len(s) + 1
  BY <1>1
<1>3. 1 .. Len(s) \subseteq 1 .. Len(more) /\ Len(s) + 1 \in 1 .. Len(more)
  BY <1>1
<1> SUFFICES ASSUME NEW e, NEW ao
             PROVE  /\ IsIn(e, more) <=> IsIn(e, s) \/ e = r
                    /\ Posted(e, more, ao) <=>
                         Posted(e, s, ao) \/ (IsPost(r, ao) /\ r.ev = e)
                    /\ Got(e, more, ao) <=>
                         Got(e, s, ao) \/ (IsGet(r, ao) /\ r.ev = e)
  BY DEF more
<1>4. IsIn(e, more) <=> IsIn(e, s) \/ e = r
  BY <1>1, <1>2, <1>3 DEF IsIn
<1>5. Posted(e, more, ao) <=> Posted(e, s, ao) \/ (IsPost(r, ao) /\ r.ev = e)
  BY <1>1, <1>2, <1>3 DEF Posted
<1>6. Got(e, more, ao) <=> Got(e, s, ao) \/ (IsGet(r, ao) /\ r.ev = e)
  BY <1>1, <1>2, <1>3 DEF Got
<1> QED BY <1>4, <1>5, <1>6

LEMMA InRest ==
  ASSUME NEW S, NEW s \in Seq(S), s # <<>>
  PROVE  \A e, ao : /\ IsIn(e, s) <=> IsIn(e, Tail(s)) \/ e = s[1]
                    /\ Posted(e, s, ao) <=>
                         Posted(e, Tail(s), ao) \/ (IsPost(s[1], ao) /\ s[1].ev = e)
                    /\ Got(e, s, ao) <=>
                         Got(e, Tail(s), ao) \/ (IsGet(s[1], ao) /\ s[1].ev = e)
<1> DEFINE rest == Tail(s)
<1>1. /\ Len(s) \in Nat \ {0} /\ Len(rest) = Len(s) - 1
      /\ \A i \in 1 .. Len(s) - 1 : rest[i] = s[i + 1]
  BY Shifted
<1> HIDE DEF rest
<1>2. \A i \in 1 .. Len(s) : i = 1 \/ (i - 1 \in 1 .. Len(rest) /\ rest[i - 1] = s[i])
  BY <1>1
<1>3. 1 \in 1 .. Len(s) /\ \A i \in 1 .. Len(rest) : i + 1 \in 1 .. Len(s) /\ rest[i] = s[i + 1]
  BY <1>1
<1> SUFFICES ASSUME NEW e, NEW ao
             PROVE  /\ IsIn(e, s) <=> IsIn(e, rest) \/ e = s[1]
                    /\ Posted(e, s, ao) <=>
                         Posted(e, rest, ao) \/ (IsPost(s[1], ao) /\ s[1].ev = e)
                    /\ Got(e, s, ao) <=>
                         Got(e, rest, ao) \/ (IsGet(s[1], ao) /\ s[1].ev = e)
  BY DEF rest
<1>4. IsIn(e, s) <=> IsIn(e, rest) \/ e = s[1]
  BY <1>2, <1>3 DEF IsIn
<1>5. Posted(e, s, ao) <=> Posted(e, rest, ao) \/ (IsPost(s[1], ao) /\ s[1].ev = e)
  BY <1>2, <1>3 DEF Posted
<1>6. Got(e, s, ao) <=> Got(e, rest, ao) \/ (IsGet(s[1], ao) /\ s[1].ev = e)
  BY <1>2, <1>3, ZenonT(30) DEF Got
<1> QED BY <1>4, <1>5, <1>6

LEMMA StillRising ==
  ASSUME NEW s \in Seq(Event), Rising(s)
  PROVE  /\ \A e \in Event : (\A i \in 1 .. Len(s) : s[i].uid < e.uid) => Rising(Append(s, e))
         /\ s # <<>> => Rising(Tail(s)) /\ \A i \in 1 .. Len(Tail(s)) : s[1].uid < Tail(s)[i].uid
<1>1. ASSUME NEW e \in Event, \A i \in 1 .. Len(s) : s[i].uid < e.uid
      PROVE  Rising(Append(s, e))
  <2> DEFINE more == Append(s, e)
  <2>1. /\ Len(s) \in Nat /\ Len(more) = Len(s) + 1 /\ more[Len(s) + 1] = e
        /\ \A i \in 1 .. Len(s) : more[i] = s[i]
    BY OneMore
  <2> HIDE DEF more
  <2>2. \A i, j \in 1 .. Len(more) : i < j => more[i].uid < more[j].uid
    BY <1>1, <2>1 DEF Rising
  <2> QED BY <2>2 DEF Rising, more
<1>2. ASSUME s # <<>>
      PROVE  Rising(Tail(s)) /\ \A i \in 1 .. Len(Tail(s)) : s[1].uid < Tail(s)[i].uid
  <2> DEFINE rest == Tail(s)
  <2>1. /\ Len(s) \in Nat \ {0} /\ Len(rest) = Len(s) - 1
        /\ \A i \in 1 .. Len(s) - 1 : rest[i] = s[i + 1]
    BY <1>2, Shifted
  <2> HIDE DEF rest
  <2>2. \A i, j \in 1 .. Len(rest) : i < j => rest[i].uid < rest[j].uid
    BY <2>1 DEF Rising
  <2>3. \A i \in 1 .. Len(rest) : s[1].uid < rest[i].uid
    BY <2>1 DEF Rising
  <2> QED BY <2>2, <2>3 DEF Rising, rest
<1> QED BY <1>1, <1>2

LEMMA StillFollows ==
  ASSUME NEW s \in Seq(Record), NEW ao, NEW r \in Record,
         \A i, j \in 1 .. Len(s) : i < j => Follows(s[i], s[j], ao),
         \A i \in 1 .. Len(s) : Follows(s[i], r, ao)
  PROVE  \A i, j \in 1 .. Len(Append(s, r)) :
           i < j => Follows(Append(s, r)[i], Append(s, r)[j], ao)
<1> DEFINE more == Append(s, r)
<1>1. /\ Len(s) \in Nat /\ Len(more) = Len(s) + 1 /\ more[Len(s) + 1] = r
      /\ \A i \in 1 .. Len(s) : more[i] = s[i]
  BY OneMore
<1> HIDE DEF more
<1>2. \A i, j \in 1 .. Len(more) : i < j => Follows(more[i], more[j], ao)
  BY <1>1
<1> QED BY <1>2 DEF more

LEMMA RestFollows ==
  ASSUME NEW s \in Seq(Record), NEW ao, s # <<>>,
         \A i, j \in 1 .. Len(s) : i < j => Follows(s[i], s[j], ao)
  PROVE  /\ \A i, j \in 1 .. Len(Tail(s)) : i < j => Follows(Tail(s)[i], Tail(s)[j], ao)
         /\ \A i \in 1 .. Len(Tail(s)) : Follows(s[1], Tail(s)[i], ao)
<1> DEFINE rest == Tail(s)
<1>1. /\ Len(s) \in Nat \ {0} /\ Len(rest) = Len(s) - 1
      /\ \A i \in 1 .. Len(s) - 1 : rest[i] = s[i + 1]
  BY Shifted
<1> HIDE DEF rest
<1>2. \A i, j \in 1 .. Len(rest) : i < j => Follows(rest[i], rest[j], ao)
  BY <1>1
<1>3. \A i \in 1 .. Len(rest) : Follows(s[1], rest[i], ao)
  BY <1>1
<1> QED BY <1>2, <1>3 DEF rest
-----------------------------------------------------------------------------
(* Every step of the target or of the analyzer keeps the two in agreement. *)
LEMMA KnownAreEvents ==
  ASSUME NEW tbl \in Seq(Event), NEW s \in Seq(Record), NEW t \in Seq(Event),
         NEW q \in Seq(Event), NEW ao, NEW p \in Nat, Agree(tbl, s, t, q, ao, p)
  PROVE  /\ \A k \in 1 .. Len(tbl) : tbl[k] \in Event /\ tbl[k].uid \in Nat /\ tbl[k].uid <= p
         /\ \A k \in 1 .. Len(t) : t[k] \in Event /\ t[k].uid \in Nat /\ t[k].uid <= p
         /\ \A k \in 1 .. Len(q) : q[k] \in Event /\ q[k].uid \in Nat /\ q[k].uid <= p
         /\ \A i \in 1 .. Len(s) : IsPost(s[i], ao) \/ IsGet(s[i], ao) =>
              s[i].ev \in Event /\ s[i].ev.uid \in Nat /\ s[i].ev.uid <= p
<1>1. /\ \A k \in 1 .. Len(tbl) : tbl[k] \in Event
      /\ \A k \in 1 .. Len(t) : t[k] \in Event
      /\ \A k \in 1 .. Len(q) : q[k] \in Event
      /\ \A i \in 1 .. Len(s) : s[i] \in Record
  BY ElementOfSeq
<1>2. \A i \in 1 .. Len(s) : IsPost(s[i], ao) \/ IsGet(s[i], ao) => s[i].ev \in Event
  BY <1>1, RecordFields DEF IsPost, IsGet
<1>3. \A e \in Event : Known(e, tbl, s, ao) \/ Waiting(e, s, t, q, ao) =>
                         e.uid \in Nat /\ e.uid <= p
  BY EventFields DEF Agree
<1>4. \A k \in 1 .. Len(tbl) : tbl[k].uid \in Nat /\ tbl[k].uid <= p
  BY <1>1, <1>3 DEF Known, IsIn
<1>5. \A k \in 1 .. Len(t) : t[k].uid \in Nat /\ t[k].uid <= p
  BY <1>1, <1>3 DEF Waiting, IsIn
<1>6. \A k \in 1 .. Len(q) : q[k].uid \in Nat /\ q[k].uid <= p
  BY <1>1, <1>3 DEF Waiting, IsIn
<1>7. \A i \in 1 .. Len(s) : IsPost(s[i], ao) \/ IsGet(s[i], ao) =>
        s[i].ev.uid \in Nat /\ s[i].ev.uid <= p
  BY <1>2, <1>3 DEF Known, Waiting, Posted, Got
<1> QED BY <1>1, <1>2, <1>4, <1>5, <1>6, <1>7

(* A post to ao.                                                           *)
LEMMA PostKeeps ==
  ASSUME NEW tbl \in Seq(Event), NEW s \in Seq(Record), NEW t \in Seq(Event),
         NEW q \in Seq(Event), NEW ao, NEW p \in Nat, Agree(tbl, s, t, q, ao, p),
         NEW r \in Record, IsPost(r, ao), r.ev.uid = p + 1
  PROVE  Agree(tbl, Append(s, r), t, Append(q, r.ev), ao, p + 1)
<1> DEFINE e0 == r.ev
           q2 == Append(q, e0)
           more == Append(s, r)
<1>1. e0 \in Event /\ ~IsGet(r, ao) /\ e0.uid = p + 1
  BY RecordFields DEF IsPost, IsGet
<1>2. \A e : /\ Posted(e, more, ao) <=> Posted(e, s, ao) \/ e = e0
             /\ Got(e, more, ao) <=> Got(e, s, ao)
  BY <1>1, InOneMore
<1>3. \A e : IsIn(e, q2) <=> IsIn(e, q) \/ e = e0
  BY <1>1, InOneMore
<1>4. /\ Len(s) \in Nat /\ Len(more) = Len(s) + 1 /\ more[Len(s) + 1] = r
      /\ \A i \in 1 .. Len(s) : more[i] = s[i]
  BY OneMore
<1>5. /\ Len(q) \in Nat /\ Len(q2) = Len(q) + 1 /\ q2[Len(q) + 1] = e0
      /\ \A i \in 1 .. Len(q) : q2[i] = q[i]
  BY <1>1, OneMore
<1>6. /\ \A k \in 1 .. Len(tbl) : tbl[k].uid < e0.uid
      /\ \A k \in 1 .. Len(t) : t[k].uid < e0.uid
      /\ \A k \in 1 .. Len(q) : q[k].uid < e0.uid
      /\ \A i \in 1 .. Len(s) : IsPost(s[i], ao) \/ IsGet(s[i], ao) => s[i].ev.uid < e0.uid
  <2>1. /\ \A k \in 1 .. Len(tbl) : tbl[k].uid \in Nat /\ tbl[k].uid <= p
        /\ \A k \in 1 .. Len(t) : t[k].uid \in Nat /\ t[k].uid <= p
        /\ \A k \in 1 .. Len(q) : q[k].uid \in Nat /\ q[k].uid <= p
        /\ \A i \in 1 .. Len(s) : IsPost(s[i], ao) \/ IsGet(s[i], ao) =>
             s[i].ev.uid \in Nat /\ s[i].ev.uid <= p
    BY KnownAreEvents
  <2>2. e0.uid = p + 1
    BY <1>1
  <2> HIDE DEF e0
  <2> QED BY <2>1, <2>2
<1>7. Rising(q2)
  BY <1>1, <1>6, StillRising DEF Agree
<1>8. \A i \in 1 .. Len(s) : Follows(s[i], r, ao)
  <2> SUFFICES ASSUME NEW i \in 1 .. Len(s), IsPost(s[i], ao) \/ IsGet(s[i], ao)
               PROVE  s[i].ev.uid < r.ev.uid /\ s[i].ev # r.ev
    BY <1>1 DEF Follows
  <2>1. s[i].ev.uid < e0.uid /\ s[i].ev.uid \in Nat
    BY <1>6, KnownAreEvents
  <2> QED BY <1>1, <2>1
<1>9. \A i, j \in 1 .. Len(more) : i < j => Follows(more[i], more[j], ao)
  BY <1>8, StillFollows DEF Agree
<1> HIDE DEF e0, q2, more
<1>10. \A e \in Event : Known(e, tbl, more, ao) <=> Waiting(e, more, t, q2, ao)
  BY <1>2, <1>3 DEF Agree, Known, Waiting
<1>11. \A e \in Event : Known(e, tbl, more, ao) => e.uid <= p + 1
  BY <1>1, <1>2, EventFields DEF Agree, Known
<1>12. Before(t, q2)
  BY <1>5, <1>6 DEF Agree, Before
<1>13. \A i \in 1 .. Len(s) : Fits(s[i], tbl, t, q2, ao)
  <2> SUFFICES ASSUME NEW i \in 1 .. Len(s) PROVE Fits(s[i], tbl, t, q2, ao)
    OBVIOUS
  <2>1. Fits(s[i], tbl, t, q, ao)
    BY DEF Agree
  <2>2. ASSUME IsGet(s[i], ao), NEW k \in 1 .. Len(q2) PROVE s[i].ev.uid < q2[k].uid
    <3>1. CASE k \in 1 .. Len(q)
      BY <1>5, <2>1, <2>2, <3>1 DEF Fits
    <3>2. CASE k = Len(q) + 1
      BY <1>5, <1>6, <2>2, <3>2
    <3> QED BY <1>5, <3>1, <3>2
  <2> QED BY <2>1, <2>2 DEF Fits
<1>14. Fits(r, tbl, t, q2, ao)
  BY <1>1, <1>6 DEF Fits, e0
<1>15. \A i \in 1 .. Len(more) : Fits(more[i], tbl, t, q2, ao)
  BY <1>4, <1>13, <1>14
<1>16. Agree(tbl, more, t, q2, ao, p + 1)
  BY <1>7, <1>9, <1>10, <1>11, <1>12, <1>15 DEF Agree
<1> QED BY <1>16 DEF more, q2, e0

(* A record that has nothing to do with ao.                                *)
LEMMA OtherKeeps ==
  ASSUME NEW tbl \in Seq(Event), NEW s \in Seq(Record), NEW t \in Seq(Event),
         NEW q \in Seq(Event), NEW ao, NEW p \in Nat, NEW p2 \in Nat, p <= p2,
         Agree(tbl, s, t, q, ao, p),
         NEW r \in Record, ~IsPost(r, ao), ~IsGet(r, ao)
  PROVE  Agree(tbl, Append(s, r), t, q, ao, p2)
<1> DEFINE more == Append(s, r)
<1>1. \A e : /\ Posted(e, more, ao) <=> Posted(e, s, ao)
             /\ Got(e, more, ao) <=> Got(e, s, ao)
  BY InOneMore
<1>2. /\ Len(s) \in Nat /\ Len(more) = Len(s) + 1 /\ more[Len(s) + 1] = r
      /\ \A i \in 1 .. Len(s) : more[i] = s[i]
  BY OneMore
<1>3. \A i, j \in 1 .. Len(more) : i < j => Follows(more[i], more[j], ao)
  <2>1. \A i \in 1 .. Len(s) : Follows(s[i], r, ao)
    BY DEF Follows
  <2> QED BY <2>1, StillFollows DEF Agree
<1> HIDE DEF more
<1>4. \A e \in Event : /\ Known(e, tbl, more, ao) <=> Waiting(e, more, t, q, ao)
                       /\ Known(e, tbl, more, ao) => e.uid <= p2
  BY <1>1, EventFields DEF Agree, Known, Waiting
<1>5. \A i \in 1 .. Len(more) : Fits(more[i], tbl, t, q, ao)
  BY <1>2, SMTT(20) DEF Agree, Fits
<1>6. Agree(tbl, more, t, q, ao, p2)
  BY <1>3, <1>4, <1>5 DEF Agree
<1> QED BY <1>6 DEF more

(* An event is taken from the queue of ao.                                 *)
LEMMA TakeKeeps ==
  ASSUME NEW tbl \in Seq(Event), NEW s \in Seq(Record), NEW q \in Seq(Event), q # <<>>,
         NEW ao, NEW p \in Nat, Agree(tbl, s, <<>>, q, ao, p)
  PROVE  Agree(tbl, s, <<Head(q)>>, Tail(q), ao, p)
<1> DEFINE t    == <<Head(q)>>
           rest == Tail(q)
<1>1. /\ Head(q) = q[1] /\ Len(q) \in Nat \ {0} /\ Len(rest) = Len(q) - 1
      /\ \A i \in 1 .. Len(q) - 1 : rest[i] = q[i + 1]
  BY Shifted
<1>2. Len(t) = 1 /\ t[1] = q[1]
  BY <1>1
<1>3. Rising(rest) /\ \A i \in 1 .. Len(rest) : q[1].uid < rest[i].uid
  BY StillRising DEF Agree
<1>4. \A e : IsIn(e, q) <=> IsIn(e, rest) \/ e = q[1]
  BY InRest
<1> HIDE DEF t, rest
<1>5. \A e : /\ IsIn(e, t) <=> e = q[1]
             /\ ~IsIn(e, <<>>)
  BY <1>2 DEF IsIn
<1>6. \A e \in Event : Known(e, tbl, s, ao) <=> Waiting(e, s, t, rest, ao)
  BY <1>4, <1>5 DEF Agree, Waiting
<1>7. Before(t, rest)
  BY <1>2, <1>3 DEF Before
<1>8. \A i \in 1 .. Len(s) : Fits(s[i], tbl, t, rest, ao)
  <2> SUFFICES ASSUME NEW i \in 1 .. Len(s) PROVE Fits(s[i], tbl, t, rest, ao)
    OBVIOUS
  <2>1. Fits(s[i], tbl, <<>>, q, ao)
    BY DEF Agree
  <2>2. ASSUME IsGet(s[i], ao)
        PROVE  /\ \A k \in 1 .. Len(t) : s[i].ev.uid < t[k].uid
               /\ \A k \in 1 .. Len(rest) : s[i].ev.uid < rest[k].uid
    <3>1. \A k \in 1 .. Len(q) : s[i].ev.uid < q[k].uid
      BY <2>1, <2>2 DEF Fits
    <3>2. /\ \A k \in 1 .. Len(rest) : k + 1 \in 1 .. Len(q) /\ rest[k] = q[k + 1]
          /\ \A k \in 1 .. Len(t) : t[k] = q[1]
          /\ 1 \in 1 .. Len(q)
      BY <1>1, <1>2
    <3> QED BY <3>1, <3>2
  <2> QED BY <2>1, <2>2 DEF Fits
<1>9. Agree(tbl, s, t, rest, ao, p)
  BY <1>3, <1>6, <1>7, <1>8 DEF Agree
<1> QED BY <1>9 DEF t, rest

(* The event taken by ao is recorded.                                      *)
LEMMA GetKeeps ==
  ASSUME NEW tbl \in Seq(Event), NEW s \in Seq(Record), NEW t \in Seq(Event), Len(t) = 1,
         NEW q \in Seq(Event), NEW ao, NEW p \in Nat, Agree(tbl, s, t, q, ao, p),
         NEW r \in Record, IsGet(r, ao), r.ev = t[1]
  PROVE  Agree(tbl, Append(s, r), <<>>, q, ao, p)
<1> DEFINE more == Append(s, r)
<1>1. ~IsPost(r, ao) /\ r.ev \in Event /\ Len(<<>>) = 0
  BY RecordFields DEF IsPost, IsGet
<1>2. \A e : /\ Posted(e, more, ao) <=> Posted(e, s, ao)
             /\ Got(e, more, ao) <=> Got(e, s, ao) \/ e = r.ev
  BY <1>1, InOneMore
<1>3. \A e : (IsIn(e, t) <=> e = r.ev) /\ ~IsIn(e, <<>>)
  BY DEF IsIn
<1>4. /\ Len(s) \in Nat /\ Len(more) = Len(s) + 1 /\ more[Len(s) + 1] = r
      /\ \A i \in 1 .. Len(s) : more[i] = s[i]
  BY OneMore
<1>5. \A i, j \in 1 .. Len(more) : i < j => Follows(more[i], more[j], ao)
  <2>1. \A i \in 1 .. Len(s) : Follows(s[i], r, ao)
    BY <1>1 DEF Follows, Agree, Fits
  <2> QED BY <2>1, StillFollows DEF Agree
<1> HIDE DEF more
<1>6. \A e \in Event : Known(e, tbl, more, ao) <=> Waiting(e, more, <<>>, q, ao)
  BY <1>2, <1>3 DEF Agree, Known, Waiting
<1>7. \A e \in Event : Known(e, tbl, more, ao) => e.uid <= p
  BY <1>2 DEF Agree, Known
<1>8. Before(<<>>, q)
  BY <1>1 DEF Before
<1>9. Fits(r, tbl, <<>>, q, ao)
  BY <1>1 DEF Fits, Agree, Before
<1>10. \A i \in 1 .. Len(s) : Fits(s[i], tbl, <<>>, q, ao)
  BY <1>1 DEF Fits, Agree
<1>11. \A i \in 1 .. Len(more) : Fits(more[i], tbl, <<>>, q, ao)
  BY <1>4, <1>9, <1>10
<1>12. Agree(tbl, more, <<>>, q, ao, p)
  BY <1>5, <1>6, <1>7, <1>8, <1>11 DEF Agree
<1> QED BY <1>12 DEF more

(* The analyzer gets a post to ao.                                         *)
LEMMA KnowsPost ==
  ASSUME NEW tbl \in Seq(Event), NEW s \in Seq(Record), s # <<>>, NEW t \in Seq(Event),
         NEW q \in Seq(Event), NEW ao, NEW p \in Nat, Agree(tbl, s, t, q, ao, p),
         IsPost(s[1], ao)
  PROVE  Agree(Append(tbl, s[1].ev), Tail(s), t, q, ao, p)
<1> DEFINE e0   == s[1].ev
           rest == Tail(s)
           tbl2 == Append(tbl, e0)
<1>1. /\ s[1] \in Record /\ Len(s) \in Nat \ {0} /\ Len(rest) = Len(s) - 1
      /\ \A i \in 1 .. Len(s) - 1 : rest[i] = s[i + 1]
  BY Shifted
<1>2. e0 \in Event /\ ~IsGet(s[1], ao)
  BY <1>1, RecordFields DEF IsPost, IsGet
<1>3. \A e : /\ Posted(e, s, ao) <=> Posted(e, rest, ao) \/ e = e0
             /\ Got(e, s, ao) <=> Got(e, rest, ao)
  BY <1>2, InRest
<1>4. \A e : IsIn(e, tbl2) <=> IsIn(e, tbl) \/ e = e0
  <2> HIDE DEF e0
  <2> QED BY <1>2, InOneMore
<1>5. /\ Len(tbl) \in Nat /\ Len(tbl2) = Len(tbl) + 1 /\ tbl2[Len(tbl) + 1] = e0
      /\ \A i \in 1 .. Len(tbl) : tbl2[i] = tbl[i]
  BY <1>2, OneMore
<1>6. \A k \in 1 .. Len(tbl) : tbl[k].uid < e0.uid
  BY <1>1 DEF Agree, Fits
<1>7. Rising(tbl2)
  BY <1>2, <1>6, StillRising DEF Agree
<1>8. /\ \A i, j \in 1 .. Len(rest) : i < j => Follows(rest[i], rest[j], ao)
      /\ \A i \in 1 .. Len(rest) : Follows(s[1], rest[i], ao)
  BY RestFollows DEF Agree
<1>9. \A i \in 1 .. Len(rest) : IsPost(rest[i], ao) => e0.uid < rest[i].ev.uid
  BY <1>8 DEF Follows
<1>10. \A i \in 1 .. Len(rest) : Fits(rest[i], tbl, t, q, ao)
  BY <1>1 DEF Agree
<1> HIDE DEF e0, rest, tbl2
<1>11. \A e \in Event : /\ Known(e, tbl2, rest, ao) <=> Waiting(e, rest, t, q, ao)
                        /\ Known(e, tbl2, rest, ao) => e.uid <= p
  BY <1>3, <1>4 DEF Agree, Known, Waiting
<1>12. \A i \in 1 .. Len(rest) : Fits(rest[i], tbl2, t, q, ao)
  <2> SUFFICES ASSUME NEW i \in 1 .. Len(rest) PROVE Fits(rest[i], tbl2, t, q, ao)
    OBVIOUS
  <2>1. ASSUME IsPost(rest[i], ao), NEW k \in 1 .. Len(tbl2) PROVE tbl2[k].uid < rest[i].ev.uid
    <3>1. CASE k \in 1 .. Len(tbl)
      BY <1>5, <1>10, <2>1, <3>1 DEF Fits
    <3>2. CASE k = Len(tbl) + 1
      BY <1>5, <1>9, <2>1, <3>2
    <3> QED BY <1>5, <3>1, <3>2
  <2> QED BY <1>10, <2>1 DEF Fits
<1>13. Agree(tbl2, rest, t, q, ao, p)
  BY <1>7, <1>8, <1>11, <1>12 DEF Agree
<1> QED BY <1>13 DEF e0, rest, tbl2

(* The analyzer gets a record of ao taking an event: it is the oldest that *)
(* is known.                                                               *)
LEMMA KnowsGet ==
  ASSUME NEW tbl \in Seq(Event), NEW s \in Seq(Record), s # <<>>, NEW t \in Seq(Event),
         NEW q \in Seq(Event), NEW ao, NEW p \in Nat, Agree(tbl, s, t, q, ao, p),
         IsGet(s[1], ao)
  PROVE  tbl # <<>> /\ tbl[1] = s[1].ev /\ Agree(Tail(tbl), Tail(s), t, q, ao, p)
<1> DEFINE e0   == s[1].ev
           rest == Tail(s)
<1>1. /\ s[1] \in Record /\ Len(s) \in Nat \ {0} /\ Len(rest) = Len(s) - 1
      /\ \A i \in 1 .. Len(s) - 1 : rest[i] = s[i + 1]
  BY Shifted
<1>2. e0 \in Event /\ ~IsPost(s[1], ao)
  BY <1>1, RecordFields DEF IsPost, IsGet
<1>3. \A e : /\ Posted(e, s, ao) <=> Posted(e, rest, ao)
             /\ Got(e, s, ao) <=> Got(e, rest, ao) \/ e = e0
  BY <1>2, InRest
<1>4. /\ \A i, j \in 1 .. Len(rest) : i < j => Follows(rest[i], rest[j], ao)
      /\ \A i \in 1 .. Len(rest) : Follows(s[1], rest[i], ao)
  BY RestFollows DEF Agree
<1>5. \A i \in 1 .. Len(rest) : Fits(rest[i], tbl, t, q, ao)
  BY <1>1 DEF Agree
<1>6. Fits(s[1], tbl, t, q, ao)
  BY <1>1 DEF Agree
<1>7. ~Posted(e0, rest, ao)
  BY <1>4 DEF Follows, Posted
<1>8. IsIn(e0, tbl)
  <2>1. Got(e0, s, ao)
    BY <1>3
  <2> HIDE DEF e0
  <2>2. Known(e0, tbl, s, ao)
    BY <1>2, <2>1 DEF Agree, Waiting
  <2> QED BY <1>3, <1>7, <2>2 DEF Known
<1>9. PICK n \in 1 .. Len(tbl) : tbl[n] = e0
  BY <1>8 DEF IsIn
<1>10. tbl # <<>> /\ 1 \in 1 .. Len(tbl)
  BY <1>9, EmptySeq, LenProperties
(* Every other event waited for is later than the one taken.               *)
<1>11. \A e \in Event : Waiting(e, rest, t, q, ao) => e0.uid < e.uid
  <2>1. \A e : Got(e, rest, ao) => e0.uid < e.uid
    BY <1>4 DEF Got, Follows
  <2>2. \A e : IsIn(e, t) \/ IsIn(e, q) => e0.uid < e.uid
    BY <1>6 DEF Fits, IsIn
  <2> QED BY <2>1, <2>2 DEF Waiting
<1>12. tbl[1] = e0
  <2> SUFFICES ASSUME tbl[1] # e0 PROVE FALSE
    OBVIOUS
  <2>1. tbl[1] \in Event /\ tbl[1].uid \in Nat /\ e0.uid \in Nat
    BY <1>2, <1>10, ElementOfSeq, EventFields
  <2>2. tbl[1].uid < e0.uid
    BY <1>9, <1>10 DEF Agree, Rising
  <2>3. Waiting(tbl[1], s, t, q, ao)
    BY <1>10, <2>1 DEF Agree, Known, IsIn
  <2> HIDE DEF e0
  <2>4. Waiting(tbl[1], rest, t, q, ao)
    BY <1>3, <2>3 DEF Waiting
  <2> QED BY <1>11, <2>1, <2>2, <2>4
<1> DEFINE tbl2 == Tail(tbl)
<1>13. /\ Len(tbl) \in Nat \ {0} /\ Len(tbl2) = Len(tbl) - 1
       /\ \A i \in 1 .. Len(tbl) - 1 : tbl2[i] = tbl[i + 1]
  BY <1>10, Shifted
<1>14. Rising(tbl2) /\ \A i \in 1 .. Len(tbl2) : e0.uid < tbl2[i].uid
  BY <1>10, <1>12, StillRising DEF Agree
<1>15. \A e : IsIn(e, tbl) <=> IsIn(e, tbl2) \/ e = e0
  BY <1>10, <1>12, InRest
<1>16. e0.uid \in Nat /\ ~IsIn(e0, tbl2)
  BY <1>2, <1>14, EventFields DEF IsIn
<1> HIDE DEF e0, rest, tbl2
<1>17. ~Waiting(e0, rest, t, q, ao)
  BY <1>2, <1>11, <1>16
<1>18. \A e \in Event : Known(e, tbl2, rest, ao) <=> Waiting(e, rest, t, q, ao)
  BY <1>3, <1>7, <1>15, <1>16, <1>17 DEF Agree, Known, Waiting
<1>19. \A e \in Event : Known(e, tbl2, rest, ao) => e.uid <= p
  BY <1>3, <1>15 DEF Agree, Known
<1>20. \A i \in 1 .. Len(rest) : Fits(rest[i], tbl2, t, q, ao)
  <2>1. \A i \in 1 .. Len(tbl2) : i + 1 \in 1 .. Len(tbl) /\ tbl2[i] = tbl[i + 1]
    BY <1>13
  <2> QED BY <1>5, <2>1 DEF Fits
<1>21. Agree(tbl2, rest, t, q, ao, p)
  BY <1>4, <1>14, <1>18, <1>19, <1>20 DEF Agree
<1> QED BY <1>10, <1>12, <1>21 DEF e0, rest, tbl2

(* The analyzer gets another record.                                       *)
LEMMA KnowsOther ==
  ASSUME NEW tbl \in Seq(Event), NEW s \in Seq(Record), s # <<>>, NEW t \in Seq(Event),
         NEW q \in Seq(Event), NEW ao, NEW p \in Nat, Agree(tbl, s, t, q, ao, p),
         ~IsPost(s[1], ao), ~IsGet(s[1], ao)
  PROVE  Agree(tbl, Tail(s), t, q, ao, p)
<1> DEFINE rest == Tail(s)
<1>1. /\ Len(s) \in Nat \ {0} /\ Len(rest) = Len(s) - 1
      /\ \A i \in 1 .. Len(s) - 1 : rest[i] = s[i + 1]
  BY Shifted
<1>2. \A e : /\ Posted(e, s, ao) <=> Posted(e, rest, ao)
             /\ Got(e, s, ao) <=> Got(e, rest, ao)
  BY InRest
<1>3. \A i, j \in 1 .. Len(rest) : i < j => Follows(rest[i], rest[j], ao)
  BY RestFollows DEF Agree
<1>4. \A i \in 1 .. Len(rest) : Fits(rest[i], tbl, t, q, ao)
  BY <1>1 DEF Agree
<1> HIDE DEF rest
<1>5. \A e \in Event : /\ Known(e, tbl, rest, ao) <=> Waiting(e, rest, t, q, ao)
                       /\ Known(e, tbl, rest, ao) => e.uid <= p
  BY <1>2 DEF Agree, Known, Waiting
<1>6. Agree(tbl, rest, t, q, ao, p)
  BY <1>3, <1>4, <1>5 DEF Agree
<1> QED BY <1>6 DEF rest
-----------------------------------------------------------------------------
LEMMA InitIInv == Init => IInv
<1> SUFFICES ASSUME Init PROVE IInv
  OBVIOUS
<1> DEFINE r == [kind |-> "TCFG", boot |-> 1]
<1>1. stream = <<r>> /\ Len(stream) = 1 /\ stream[1] = r /\ r.kind = "TCFG" /\ r.boot = 1
  BY DEF Init
<1> HIDE DEF r
<1>2. Numbered
  BY <1>1 DEF Init, Numbered, TcfgFirst
<1>3. RightTime
  BY DEF Init, RightTime, NoReport
<1>4. ASSUME NEW ao \in AO
      PROVE  Agree(Kept(stream, ao), stream, taken[ao], queue[ao], ao, posted)
  <2>1. Kept(stream, ao) = <<>> /\ taken[ao] = <<>> /\ queue[ao] = <<>> /\ Len(<<>>) = 0
    BY <1>1 DEF Init, Kept, TcfgFirst, NoQueues
  <2>2. \A i \in 1 .. Len(stream) : ~IsPost(stream[i], ao) /\ ~IsGet(stream[i], ao)
    BY <1>1 DEF IsPost, IsGet
  <2>3. \A e : /\ ~Known(e, <<>>, stream, ao)
               /\ ~Waiting(e, stream, <<>>, <<>>, ao)
    BY <2>1, <2>2 DEF Known, Waiting, Posted, Got, IsIn
  <2>4. Rising(<<>>) /\ Before(<<>>, <<>>)
    BY <2>1 DEF Rising, Before
  <2>5. Agree(<<>>, stream, <<>>, <<>>, ao, posted)
    BY <2>2, <2>3, <2>4 DEF Agree, Fits, Follows
  <2> QED BY <2>1, <2>5
<1> QED BY <1>2, <1>3, <1>4, InitTypeOK DEF IInv, AllAgree

(* When a record is made, the records under way are one more, unless the   *)
(* stream has dropped one; then those that follow are not Followed.        *)
LEMMA PutNumbered ==
  ASSUME TypeOK, Numbered, NEW r \in Record, Put(r),
         r.kind # "TCFG", r.boot = boot, r.serial = serial
  PROVE  /\ Numbered'
         /\ Followed' => Followed /\ stream' = Append(stream, r)
                           /\ (TcfgFirst(stream') <=> TcfgFirst(stream))
<1>1. stream \in Seq(Record) /\ Len(stream) \in Nat /\ serial \in Nat /\ boot \in Nat
      /\ last[1] \in Nat /\ last[2] \in Nat
  BY LenProperties DEF TypeOK
<1>2. /\ serial' = serial + 1 /\ boot' = boot /\ last' = last
      /\ rtime_enable' = rtime_enable /\ unnoticed' = unnoticed
  BY DEF Put, analyzer
<1>3. CASE Len(stream) # Capacity
  <2> DEFINE more == Append(stream, r)
  <2>1. stream' = more
    BY <1>3 DEF Put
  <2>2. /\ Len(more) = Len(stream) + 1 /\ more[Len(stream) + 1] = r
        /\ \A i \in 1 .. Len(stream) : more[i] = stream[i]
    BY <1>1, OneMore
  <2> HIDE DEF more
  <2>3. TcfgFirst(more) <=> TcfgFirst(stream)
    BY <1>1, <2>2 DEF TcfgFirst
  <2>4. ASSUME NEW i \in 1 .. Len(more)
        PROVE  /\ more[i].boot = boot
               /\ more[i].kind = "TCFG" => i = 1
               /\ more[i].kind # "TCFG" => more[i].serial + Len(more) + 1 = serial + 1 + i
    <3>1. CASE i = Len(stream) + 1
      <4>1. more[i] = r /\ Len(more) = i /\ i \in Nat
        BY <1>1, <2>2, <3>1
      <4>2. serial + i + 1 = serial + 1 + i
        BY <1>1, <4>1
      <4> QED BY <4>1, <4>2
    <3>2. CASE i \in 1 .. Len(stream)
      <4>1. stream[i].kind # "TCFG" => stream[i].serial \in Nat
        BY <1>1, <3>2, ElementOfSeq, RecordFields
      <4> QED BY <1>1, <2>2, <3>2, <4>1, SMTT(20) DEF Numbered
    <3> QED BY <1>1, <2>2, <3>1, <3>2
  <2>5. Numbered'
    BY <1>1, <1>2, <2>1, <2>2, <2>3, <2>4 DEF Numbered
  <2>6. Followed' => Followed
    BY <1>1, <1>2, <2>1, <2>2, <2>3 DEF Followed
  <2> QED BY <2>1, <2>3, <2>5, <2>6 DEF more
<1>4. CASE Len(stream) = Capacity
  <2> DEFINE rest == Tail(stream)
             more == Append(rest, r)
  <2>1. stream' = more
    BY <1>4 DEF Put
  <2>2. stream # <<>>
    BY <1>4, EmptySeq, RespTimeAssumption
  <2>3. /\ rest \in Seq(Record) /\ Len(stream) \in Nat \ {0} /\ Len(rest) = Len(stream) - 1
        /\ \A i \in 1 .. Len(stream) - 1 : rest[i] = stream[i + 1]
    BY <1>1, <2>2, Shifted
  <2> HIDE DEF rest
  <2>4. /\ Len(more) = Len(stream) /\ more[Len(stream)] = r
        /\ \A i \in 1 .. Len(stream) - 1 : more[i] = stream[i + 1]
    BY <2>3, OneMore
  <2> HIDE DEF more
  <2>5. ASSUME NEW i \in 1 .. Len(more)
        PROVE  /\ more[i].boot = boot /\ more[i].kind # "TCFG"
               /\ more[i].serial + Len(more) + 1 = serial + 1 + i
    <3>1. CASE i = Len(stream)
      <4>1. more[i] = r /\ Len(more) = i /\ i \in Nat
        BY <2>3, <2>4, <3>1
      <4> QED BY <1>1, <4>1
    <3>2. CASE i # Len(stream)
      <4>1. i + 1 \in 1 .. Len(stream) /\ more[i] = stream[i + 1]
        BY <2>3, <2>4, <3>2
      <4>2. stream[i + 1].kind # "TCFG" => stream[i + 1].serial \in Nat
        BY <1>1, <4>1, ElementOfSeq, RecordFields
      <4>3. /\ stream[i + 1].boot = boot /\ stream[i + 1].kind # "TCFG"
            /\ stream[i + 1].serial + Len(stream) + 1 = serial + (i + 1)
        BY <4>1 DEF Numbered
      <4> QED BY <1>1, <2>3, <2>4, <4>1, <4>2, <4>3
    <3> QED BY <3>1, <3>2
  <2>6. ~TcfgFirst(more)
    BY <2>3, <2>4, <2>5 DEF TcfgFirst
  <2>7. last[1] = boot => last[2] + Len(stream) < serial + 1
    BY <1>1 DEF Numbered
  <2>8. Numbered'
    BY <1>1, <1>2, <2>1, <2>3, <2>4, <2>5, <2>6, <2>7 DEF Numbered
  <2>9. ~Followed'
    BY <1>1, <1>2, <2>1, <2>4, <2>6, <2>7 DEF Followed
  <2> QED BY <2>8, <2>9
<1> QED BY <1>3, <1>4

LEMMA KeptType ==
  ASSUME TypeOK, NEW s, NEW ao \in AO
  PROVE  Kept(s, ao) \in Seq(Event) /\ taken[ao] \in Seq(Event) /\ queue[ao] \in Seq(Event)
BY EmptySeq DEF Kept, TypeOK

LEMMA PostIInv ==
  ASSUME Ways = {"FIFO"}, IInv, NEW ao \in AO, NEW sig \in Signal, NEW way \in Ways,
         Post(ao, sig, way)
  PROVE  IInv'
<1> DEFINE ev == [uid |-> posted + 1, sig |-> sig]
           r  == [kind |-> "POST", ao |-> ao, ev |-> ev, boot |-> boot, serial |-> serial]
<1>1. TypeOK'
  BY NextTypeOK DEF IInv, Next
<1>2. ev \in Event /\ r \in Record /\ ev.uid = posted + 1 /\ posted \in Nat
  BY DEF Event, Record, IInv, TypeOK
<1>3. r.kind = "POST" /\ r.ao = ao /\ r.ev = ev /\ r.boot = boot /\ r.serial = serial
  OBVIOUS
<1>4. /\ queue' = [queue EXCEPT ![ao] = Append(@, ev)]
      /\ posted' = posted + 1 /\ Put(r) /\ taken' = taken
  BY DEF Post
<1> HIDE DEF ev, r
<1>5. UNCHANGED <<rt_tbl, report, unnoticed>>
  BY <1>4 DEF Put, analyzer
<1>6. /\ Numbered'
      /\ Followed' => Followed /\ stream' = Append(stream, r)
                        /\ (TcfgFirst(stream') <=> TcfgFirst(stream))
  BY <1>2, <1>3, <1>4, PutNumbered DEF IInv
<1>7. ASSUME Followed', NEW a \in AO
      PROVE  Agree(Kept(stream, a), stream, taken[a], queue[a], a, posted)'
  <2>1. Agree(Kept(stream, a), stream, taken[a], queue[a], a, posted)
    BY <1>6, <1>7 DEF IInv, AllAgree
  <2>2. Kept(stream, a)' = Kept(stream, a) /\ taken'[a] = taken[a] /\ stream' = Append(stream, r)
    BY <1>4, <1>5, <1>6, <1>7 DEF Kept
  <2>3. /\ Kept(stream, a) \in Seq(Event) /\ taken[a] \in Seq(Event) /\ queue[a] \in Seq(Event)
        /\ stream \in Seq(Record)
    BY KeptType DEF IInv, TypeOK
  <2>4. CASE a = ao
    <3>1. IsPost(r, a) /\ r.ev.uid = posted + 1
      BY <1>2, <1>3, <2>4 DEF IsPost
    <3>2. queue'[a] = Append(queue[a], r.ev)
      BY <1>3, <1>4, <2>4 DEF IInv, TypeOK
    <3>3. Agree(Kept(stream, a), Append(stream, r), taken[a], Append(queue[a], r.ev), a, posted + 1)
      BY <1>2, <2>1, <2>3, <3>1, PostKeeps
    <3> QED BY <1>4, <2>2, <3>2, <3>3
  <2>5. CASE a # ao
    <3>1. ~IsPost(r, a) /\ ~IsGet(r, a) /\ queue'[a] = queue[a]
      BY <1>3, <1>4, <2>5 DEF IsPost, IsGet, IInv, TypeOK
    <3>2. Agree(Kept(stream, a), Append(stream, r), taken[a], queue[a], a, posted + 1)
      BY <1>2, <2>1, <2>3, <3>1, OtherKeeps
    <3> QED BY <1>4, <2>2, <3>1, <3>2
  <2> QED BY <2>4, <2>5
<1>8. RightTime'
  BY <1>5 DEF IInv, RightTime
<1> QED BY <1>1, <1>6, <1>7, <1>8 DEF IInv, AllAgree

LEMMA TakeIInv == ASSUME IInv, NEW ao \in AO, Take(ao) PROVE IInv'
<1>1. TypeOK'
  BY NextTypeOK DEF IInv, Next
<1>2. /\ queue[ao] # <<>> /\ taken[ao] = <<>>
      /\ taken' = [taken EXCEPT ![ao] = <<Head(queue[ao])>>]
      /\ queue' = [queue EXCEPT ![ao] = Tail(@)]
      /\ UNCHANGED <<boot, serial, posted, stream, rtime_enable, rt_tbl, report, last, unnoticed>>
  BY DEF Take, analyzer
<1>3. Numbered' /\ RightTime' /\ (Followed' <=> Followed)
  BY <1>2 DEF IInv, Numbered, RightTime, Followed
<1>4. ASSUME Followed, NEW a \in AO
      PROVE  Agree(Kept(stream, a), stream, taken[a], queue[a], a, posted)'
  <2>1. Agree(Kept(stream, a), stream, taken[a], queue[a], a, posted)
    BY <1>4 DEF IInv, AllAgree
  <2>2. Kept(stream, a)' = Kept(stream, a)
    BY <1>2 DEF Kept
  <2>3. /\ Kept(stream, a) \in Seq(Event) /\ queue[a] \in Seq(Event)
        /\ stream \in Seq(Record) /\ posted \in Nat
    BY KeptType DEF IInv, TypeOK
  <2>4. CASE a = ao
    <3>1. taken'[a] = <<Head(queue[a])>> /\ queue'[a] = Tail(queue[a])
      BY <1>2, <2>4 DEF IInv, TypeOK
    <3>2. Agree(Kept(stream, a), stream, <<Head(queue[a])>>, Tail(queue[a]), a, posted)
      BY <1>2, <2>1, <2>3, <2>4, TakeKeeps
    <3> QED BY <1>2, <2>2, <3>1, <3>2
  <2>5. CASE a # ao
    <3>1. taken'[a] = taken[a] /\ queue'[a] = queue[a]
      BY <1>2, <2>5 DEF IInv, TypeOK
    <3> QED BY <1>2, <2>1, <2>2, <3>1
  <2> QED BY <2>4, <2>5
<1> QED BY <1>1, <1>3, <1>4 DEF IInv, AllAgree

LEMMA GetIInv == ASSUME IInv, NEW ao \in AO, RecordGet(ao) PROVE IInv'
<1> DEFINE r == [kind |-> "GET", ao |-> ao, ev |-> taken[ao][1], boot |-> boot, serial |-> serial]
<1>1. TypeOK'
  BY NextTypeOK DEF IInv, Next
<1>2. taken[ao] \in Seq(Event) /\ Len(taken[ao]) = 1 /\ taken[ao][1] \in Event
  <2>1. taken[ao] \in Seq(Event) /\ Len(taken[ao]) <= 1 /\ taken[ao] # <<>>
    BY DEF RecordGet, IInv, TypeOK
  <2> DEFINE t == taken[ao]
  <2>2. t \in Seq(Event) /\ Len(t) <= 1 /\ t # <<>>
    BY <2>1
  <2> HIDE DEF t
  <2>3. Len(t) \in Nat \ {0} /\ t[1] \in Event
    BY <2>2, Shifted
  <2>4. t \in Seq(Event) /\ Len(t) = 1 /\ t[1] \in Event
    BY <2>2, <2>3
  <2> QED BY <2>4 DEF t
<1>3. r \in Record /\ posted \in Nat
  BY <1>2 DEF Record, IInv, TypeOK
<1>4. r.kind = "GET" /\ r.ao = ao /\ r.ev = taken[ao][1] /\ r.boot = boot /\ r.serial = serial
  OBVIOUS
<1>5. taken' = [taken EXCEPT ![ao] = <<>>] /\ Put(r) /\ queue' = queue /\ posted' = posted
  BY DEF RecordGet
<1> HIDE DEF r
<1>6. UNCHANGED <<rt_tbl, report, unnoticed>>
  BY <1>5 DEF Put, analyzer
<1>7. /\ Numbered'
      /\ Followed' => Followed /\ stream' = Append(stream, r)
                        /\ (TcfgFirst(stream') <=> TcfgFirst(stream))
  BY <1>3, <1>4, <1>5, PutNumbered DEF IInv
<1>8. ASSUME Followed', NEW a \in AO
      PROVE  Agree(Kept(stream, a), stream, taken[a], queue[a], a, posted)'
  <2>1. Agree(Kept(stream, a), stream, taken[a], queue[a], a, posted)
    BY <1>7, <1>8 DEF IInv, AllAgree
  <2>2. Kept(stream, a)' = Kept(stream, a) /\ stream' = Append(stream, r)
    BY <1>6, <1>7, <1>8 DEF Kept
  <2>3. /\ Kept(stream, a) \in Seq(Event) /\ taken[a] \in Seq(Event) /\ queue[a] \in Seq(Event)
        /\ stream \in Seq(Record)
    BY KeptType DEF IInv, TypeOK
  <2>4. CASE a = ao
    <3>1. taken'[a] = <<>> /\ IsGet(r, a) /\ r.ev = taken[a][1] /\ Len(taken[a]) = 1
      BY <1>2, <1>4, <1>5, <2>4 DEF IsGet, IInv, TypeOK
    <3>2. Agree(Kept(stream, a), Append(stream, r), <<>>, queue[a], a, posted)
      BY <1>3, <2>1, <2>3, <3>1, GetKeeps
    <3> QED BY <1>5, <2>2, <3>1, <3>2
  <2>5. CASE a # ao
    <3>1. taken'[a] = taken[a] /\ ~IsPost(r, a) /\ ~IsGet(r, a)
      BY <1>4, <1>5, <2>5 DEF IsPost, IsGet, IInv, TypeOK
    <3>2. Agree(Kept(stream, a), Append(stream, r), taken[a], queue[a], a, posted)
      BY <1>3, <2>1, <2>3, <3>1, OtherKeeps
    <3> QED BY <1>5, <2>2, <3>1, <3>2
  <2> QED BY <2>4, <2>5
<1>9. RightTime'
  BY <1>6 DEF IInv, RightTime
<1> QED BY <1>1, <1>7, <1>8, <1>9 DEF IInv, AllAgree

LEMMA OtherIInv == ASSUME IInv, RecordOther PROVE IInv'
<1> DEFINE r == [kind |-> "OTHER", boot |-> boot, serial |-> serial]
<1>1. TypeOK'
  BY NextTypeOK DEF IInv, Next
<1>2. /\ r \in Record /\ posted \in Nat /\ r.kind = "OTHER" /\ r.boot = boot
      /\ r.serial = serial /\ Put(r) /\ UNCHANGED <<queue, taken, posted>>
  BY DEF RecordOther, Record, IInv, TypeOK
<1> HIDE DEF r
<1>3. UNCHANGED <<rt_tbl, report, unnoticed>>
  BY <1>2 DEF Put, analyzer
<1>4. /\ Numbered'
      /\ Followed' => Followed /\ stream' = Append(stream, r)
                        /\ (TcfgFirst(stream') <=> TcfgFirst(stream))
  BY <1>2, PutNumbered DEF IInv
<1>5. ASSUME Followed', NEW a \in AO
      PROVE  Agree(Kept(stream, a), stream, taken[a], queue[a], a, posted)'
  <2>1. Agree(Kept(stream, a), stream, taken[a], queue[a], a, posted)
    BY <1>4, <1>5 DEF IInv, AllAgree
  <2>2. Kept(stream, a)' = Kept(stream, a) /\ stream' = Append(stream, r)
    BY <1>3, <1>4, <1>5 DEF Kept
  <2>3. /\ Kept(stream, a) \in Seq(Event) /\ taken[a] \in Seq(Event) /\ queue[a] \in Seq(Event)
        /\ stream \in Seq(Record) /\ ~IsPost(r, a) /\ ~IsGet(r, a)
    BY <1>2, KeptType DEF IInv, TypeOK, IsPost, IsGet
  <2>4. Agree(Kept(stream, a), Append(stream, r), taken[a], queue[a], a, posted)
    BY <1>2, <2>1, <2>3, OtherKeeps
  <2> QED BY <1>2, <2>2, <2>4
<1>6. RightTime'
  BY <1>3 DEF IInv, RightTime
<1> QED BY <1>1, <1>4, <1>5, <1>6 DEF IInv, AllAgree

LEMMA RestartIInv == ASSUME IInv, Restart PROVE IInv'
<1> DEFINE r == [kind |-> "TCFG", boot |-> boot + 1]
<1>1. TypeOK'
  BY NextTypeOK DEF IInv, Next
<1>2. /\ stream' = <<r>> /\ Len(stream') = 1 /\ stream'[1] = r
      /\ r.kind = "TCFG" /\ r.boot = boot + 1
      /\ boot' = boot + 1 /\ serial' = 0 /\ queue' = NoQueues /\ taken' = NoQueues
      /\ UNCHANGED <<posted, rt_tbl, report, last, unnoticed>>
  BY DEF Restart, analyzer
<1> HIDE DEF r
<1>3. Numbered'
  <2>1. boot \in Nat /\ last[1] \in Nat /\ last[1] <= boot
    BY DEF IInv, TypeOK, Numbered
  <2> QED BY <1>2, <2>1 DEF Numbered, TcfgFirst
<1>4. RightTime'
  BY <1>2 DEF IInv, RightTime
<1>5. ASSUME NEW ao \in AO
      PROVE  Agree(Kept(stream, ao), stream, taken[ao], queue[ao], ao, posted)'
  <2>1. Kept(stream, ao)' = <<>> /\ taken'[ao] = <<>> /\ queue'[ao] = <<>> /\ Len(<<>>) = 0
    BY <1>2 DEF Kept, TcfgFirst, NoQueues
  <2>2. \A i \in 1 .. Len(stream') : ~IsPost(stream'[i], ao) /\ ~IsGet(stream'[i], ao)
    BY <1>2 DEF IsPost, IsGet
  <2>3. \A e : /\ ~Known(e, <<>>, stream', ao)
               /\ ~Waiting(e, stream', <<>>, <<>>, ao)
    BY <2>1, <2>2 DEF Known, Waiting, Posted, Got, IsIn
  <2>4. Rising(<<>>) /\ Before(<<>>, <<>>)
    BY <2>1 DEF Rising, Before
  <2>5. Agree(<<>>, stream', <<>>, <<>>, ao, posted')
    BY <2>2, <2>3, <2>4 DEF Agree, Fits, Follows
  <2> QED BY <2>1, <2>5
<1> QED BY <1>1, <1>3, <1>4, <1>5 DEF IInv, AllAgree

(* A record that comes as expected is the next of the run; one that only   *)
(* looks like it leaves a loss unnoticed.                                  *)
LEMMA AnalyzeIInv == ASSUME IInv, Analyze PROVE IInv'
<1> DEFINE r    == Head(stream)
           rest == Tail(stream)
<1>1. TypeOK'
  BY NextTypeOK DEF IInv, Next
<1>2. /\ r = stream[1] /\ r \in Record /\ Len(stream) \in Nat \ {0} /\ Len(rest) = Len(stream) - 1
      /\ \A i \in 1 .. Len(stream) - 1 : rest[i] = stream[i + 1]
      /\ stream \in Seq(Record) /\ stream # <<>> /\ stream' = rest
  BY Shifted DEF Analyze, IInv, TypeOK
<1>3. \/ r.kind = "TCFG"  /\ proc_tcfg_evt(r)
      \/ r.kind = "POST"  /\ Verify(r) /\ post_fifo_symevt(r)
      \/ r.kind = "GET"   /\ Verify(r) /\ remove_symevt_tstamp(r)
      \/ r.kind = "OTHER" /\ Verify(r) /\ UNCHANGED <<rt_tbl, report>>
  BY DEF Analyze
<1>4. UNCHANGED <<queue, taken, boot, serial, posted>>
  BY DEF Analyze, target
<1> HIDE DEF r
<1>5. /\ boot \in Nat /\ serial \in Nat /\ posted \in Nat /\ last \in Nat \X Nat /\ r.boot = boot
      /\ r.kind # "TCFG" => r.serial \in Nat /\ r.serial + Len(stream) = serial
      /\ r.kind = "TCFG" => Len(stream) = serial + 1
  <2>1. boot \in Nat /\ serial \in Nat /\ posted \in Nat /\ last \in Nat \X Nat
    BY DEF IInv, TypeOK
  <2>2. 1 \in 1 .. Len(stream)
    BY <1>2
  <2>3. r.boot = boot /\ (r.kind # "TCFG" => r.serial + Len(stream) + 1 = serial + 1)
    BY <1>2, <2>2 DEF IInv, Numbered
  <2>4. r.kind # "TCFG" => r.serial \in Nat
    BY <1>2, RecordFields
  <2>5. r.kind = "TCFG" => Len(stream) = serial + 1
    BY <1>2 DEF IInv, Numbered, TcfgFirst
  <2> DEFINE k == r.serial
             n == Len(stream)
  <2>6. n \in Nat /\ (r.kind # "TCFG" => k \in Nat /\ k + n + 1 = serial + 1)
    BY <1>2, <2>3, <2>4
  <2> HIDE DEF k, n
  <2>7. r.kind # "TCFG" => k \in Nat /\ k + n = serial
    BY <2>1, <2>6
  <2> QED BY <2>1, <2>3, <2>5, <2>7 DEF k, n
<1>6. ~TcfgFirst(stream')
  BY <1>2 DEF IInv, Numbered, TcfgFirst
<1>7. last' = <<boot, IF r.kind = "TCFG" THEN 0 ELSE r.serial + 1>>
  BY <1>3, <1>5 DEF proc_tcfg_evt, Verify
<1> HIDE DEF rest
<1>8. Numbered'
  <2> DEFINE n == IF r.kind = "TCFG" THEN 0 ELSE r.serial + 1
  <2>0. Len(stream') = Len(stream) - 1 /\ Len(stream') \in Nat /\ serial' = serial /\ boot' = boot
    BY <1>2, <1>4
  <2>1. last'[1] = boot' /\ last'[2] + Len(stream') = serial'
    <3>1. n + Len(stream') = serial
      BY <1>2, <1>5, <2>0, SMTT(30)
    <3>2. last' = <<boot, n>>
      BY <1>7
    <3> HIDE DEF n
    <3> QED BY <2>0, <3>1, <3>2
  <2>2. ASSUME NEW i \in 1 .. Len(stream')
        PROVE  /\ stream'[i].boot = boot' /\ stream'[i].kind # "TCFG"
               /\ stream'[i].serial + Len(stream') + 1 = serial' + i
    <3>1. i + 1 \in 1 .. Len(stream) /\ stream'[i] = stream[i + 1] /\ i # 0
      BY <1>2
    <3>2. stream[i + 1].kind # "TCFG" => stream[i + 1].serial \in Nat
      BY <1>2, <3>1, ElementOfSeq, RecordFields
    <3>3. /\ stream[i + 1].boot = boot /\ stream[i + 1].kind # "TCFG"
          /\ stream[i + 1].serial + Len(stream) + 1 = serial + (i + 1)
      BY <3>1 DEF IInv, Numbered
    <3> DEFINE k == stream[i + 1].serial
    <3>4. k \in Nat /\ k + Len(stream) + 1 = serial + (i + 1)
      BY <3>2, <3>3
    <3> DEFINE len == Len(stream)
               m   == Len(stream')
    <3>5. len \in Nat /\ m = len - 1 /\ i \in Nat /\ serial \in Nat
      BY <1>2, <1>5, <2>0
    <3> HIDE DEF k, len, m
    <3>6. k + m + 1 = serial + i
      BY <3>4, <3>5 DEF len
    <3>7. k + Len(stream') + 1 = serial' + i
      BY <2>0, <3>6 DEF m
    <3> QED BY <2>0, <3>1, <3>3, <3>7 DEF k
  <2> QED BY <1>4, <1>5, <1>6, <2>1, <2>2 DEF Numbered
<1>9. ASSUME r.kind # "TCFG", rtime_enable', ~unnoticed'
      PROVE  Followed /\ ~TcfgFirst(stream) /\ ~unnoticed
  <2>1. Verify(r)
    BY <1>3, <1>9
  <2>2. rtime_enable /\ ~unnoticed /\ last = <<r.boot, r.serial>>
    BY <1>9, <2>1 DEF Verify
  <2> QED BY <1>2, <1>5, <1>9, <2>2 DEF Followed, TcfgFirst
<1>10. ASSUME NEW ao \in AO
       PROVE  /\ Kept(stream, ao) \in Seq(Event) /\ taken[ao] \in Seq(Event)
              /\ queue[ao] \in Seq(Event)
  BY KeptType DEF IInv
<1>11. CASE r.kind = "TCFG" /\ proc_tcfg_evt(r)
  <2>1. RightTime'
    BY <1>11 DEF proc_tcfg_evt, IInv, RightTime
  <2>2. ASSUME NEW ao \in AO
        PROVE  Agree(Kept(stream, ao), stream, taken[ao], queue[ao], ao, posted)'
    <3>1. TcfgFirst(stream) /\ ~IsPost(stream[1], ao) /\ ~IsGet(stream[1], ao)
      BY <1>2, <1>11 DEF TcfgFirst, IsPost, IsGet
    <3>2. Kept(stream, ao) = <<>> /\ Kept(stream, ao)' = <<>>
      BY <1>6, <1>11, <3>1 DEF Kept, proc_tcfg_evt, NoQueues
    <3>3. Agree(Kept(stream, ao), stream, taken[ao], queue[ao], ao, posted)
      BY <3>1 DEF IInv, AllAgree, Followed
    <3>4. Agree(Kept(stream, ao), rest, taken[ao], queue[ao], ao, posted)
      BY <1>2, <1>5, <1>10, <3>1, <3>3, KnowsOther DEF rest
    <3> QED BY <1>2, <1>4, <3>2, <3>4
  <2> QED BY <1>1, <1>8, <2>1, <2>2 DEF IInv, AllAgree
<1>12. ASSUME r.kind # "TCFG", rtime_enable', ~unnoticed', NEW ao \in AO
       PROVE  /\ Agree(rt_tbl[ao], stream, taken[ao], queue[ao], ao, posted)
              /\ rt_tbl[ao] \in Seq(Event) /\ Kept(stream, ao)' = rt_tbl'[ao]
  BY <1>6, <1>9, <1>10, <1>12 DEF IInv, AllAgree, Kept
<1>13. ASSUME Followed' PROVE rtime_enable' /\ ~unnoticed'
  BY <1>6, <1>13 DEF Followed
<1>14. CASE r.kind = "POST" /\ Verify(r) /\ post_fifo_symevt(r)
  <2>1. RightTime'
    BY <1>9, <1>14 DEF post_fifo_symevt, IInv, RightTime, Verify
  <2>2. r.ao \in AO /\ rt_tbl' = [rt_tbl EXCEPT ![r.ao] = Append(@, r.ev)]
    BY <1>2, <1>14, RecordFields DEF post_fifo_symevt
  <2>3. ASSUME Followed', NEW ao \in AO
        PROVE  Agree(Kept(stream, ao), stream, taken[ao], queue[ao], ao, posted)'
    <3>1. /\ Agree(rt_tbl[ao], stream, taken[ao], queue[ao], ao, posted)
          /\ rt_tbl[ao] \in Seq(Event) /\ Kept(stream, ao)' = rt_tbl'[ao]
      BY <1>12, <1>13, <1>14, <2>3
    <3>2. CASE ao = r.ao
      <4>1. IsPost(stream[1], ao) /\ rt_tbl'[ao] = Append(rt_tbl[ao], stream[1].ev)
        BY <1>2, <1>14, <2>2, <3>2 DEF IsPost, IInv, TypeOK
      <4>2. taken[ao] \in Seq(Event) /\ queue[ao] \in Seq(Event)
        BY <1>10
      <4>3. Agree(Append(rt_tbl[ao], stream[1].ev), rest, taken[ao], queue[ao], ao, posted)
        BY <1>2, <1>5, <3>1, <4>1, <4>2, KnowsPost DEF rest
      <4> QED BY <1>2, <1>4, <3>1, <4>1, <4>3
    <3>3. CASE ao # r.ao
      <4>1. ~IsPost(stream[1], ao) /\ ~IsGet(stream[1], ao) /\ rt_tbl'[ao] = rt_tbl[ao]
        BY <1>2, <1>14, <2>2, <3>3 DEF IsPost, IsGet, IInv, TypeOK
      <4>2. Agree(rt_tbl'[ao], rest, taken[ao], queue[ao], ao, posted)
        BY <1>2, <1>5, <1>10, <3>1, <4>1, KnowsOther DEF rest
      <4> QED BY <1>2, <1>4, <3>1, <4>2
    <3> QED BY <3>2, <3>3
  <2> QED BY <1>1, <1>8, <2>1, <2>3 DEF IInv, AllAgree
<1>15. CASE r.kind = "GET" /\ Verify(r) /\ remove_symevt_tstamp(r)
  <2> DEFINE posts == rt_tbl[r.ao]
             found == rtime_enable' /\ posts # <<>>
  <2>1. /\ r.ao \in AO /\ r.ev \in Event
        /\ rt_tbl' = IF found THEN [rt_tbl EXCEPT ![r.ao] = Tail(@)] ELSE rt_tbl
        /\ report' = [uid |-> r.ev.uid,
                      stamp |-> IF found /\ Head(posts).sig = r.ev.sig THEN Head(posts).uid ELSE 0]
    BY <1>2, <1>15, RecordFields DEF remove_symevt_tstamp
  <2>2. IsGet(stream[1], r.ao)
    BY <1>2, <1>15 DEF IsGet
  <2>3. ASSUME rtime_enable', ~unnoticed'
        PROVE  /\ posts # <<>> /\ posts[1] = r.ev
               /\ Agree(Tail(posts), rest, taken[r.ao], queue[r.ao], r.ao, posted)
    <3>1. Agree(posts, stream, taken[r.ao], queue[r.ao], r.ao, posted) /\ posts \in Seq(Event)
      BY <1>12, <1>15, <2>1, <2>3
    <3> HIDE DEF posts
    <3> QED BY <1>2, <1>5, <1>10, <2>1, <2>2, <3>1, KnowsGet DEF rest
  <2>4. RightTime'
    <3>1. CASE found /\ ~unnoticed'
      <4>1. Head(posts) = r.ev
        BY <2>1, <2>3, <3>1, Shifted DEF IInv, TypeOK
      <4> QED BY <2>1, <4>1 DEF RightTime
    <3>2. CASE ~found \/ unnoticed'
      BY <2>1, <3>2 DEF RightTime
    <3> QED BY <3>1, <3>2
  <2>5. ASSUME Followed', NEW ao \in AO
        PROVE  Agree(Kept(stream, ao), stream, taken[ao], queue[ao], ao, posted)'
    <3>1. /\ Agree(rt_tbl[ao], stream, taken[ao], queue[ao], ao, posted)
          /\ rt_tbl[ao] \in Seq(Event) /\ Kept(stream, ao)' = rt_tbl'[ao]
      BY <1>12, <1>13, <1>15, <2>5
    <3>2. found
      BY <1>13, <2>3, <2>5
    <3>3. CASE ao = r.ao
      <4>1. rt_tbl'[ao] = Tail(posts)
        BY <2>1, <3>2, <3>3 DEF IInv, TypeOK
      <4> QED BY <1>2, <1>4, <1>13, <2>3, <2>5, <3>1, <3>3, <4>1
    <3>4. CASE ao # r.ao
      <4>1. ~IsPost(stream[1], ao) /\ ~IsGet(stream[1], ao) /\ rt_tbl'[ao] = rt_tbl[ao]
        BY <1>2, <1>15, <2>1, <3>2, <3>4 DEF IsPost, IsGet, IInv, TypeOK
      <4>2. Agree(rt_tbl'[ao], rest, taken[ao], queue[ao], ao, posted)
        BY <1>2, <1>5, <1>10, <3>1, <4>1, KnowsOther DEF rest
      <4> QED BY <1>2, <1>4, <3>1, <4>2
    <3> QED BY <3>3, <3>4
  <2> QED BY <1>1, <1>8, <2>4, <2>5 DEF IInv, AllAgree
<1>16. CASE r.kind = "OTHER" /\ Verify(r) /\ UNCHANGED <<rt_tbl, report>>
  <2>1. RightTime'
    BY <1>16 DEF IInv, RightTime, Verify
  <2>2. ASSUME Followed', NEW ao \in AO
        PROVE  Agree(Kept(stream, ao), stream, taken[ao], queue[ao], ao, posted)'
    <3>1. /\ Agree(rt_tbl[ao], stream, taken[ao], queue[ao], ao, posted)
          /\ rt_tbl[ao] \in Seq(Event) /\ Kept(stream, ao)' = rt_tbl'[ao]
      BY <1>12, <1>13, <1>16, <2>2
    <3>2. ~IsPost(stream[1], ao) /\ ~IsGet(stream[1], ao) /\ rt_tbl' = rt_tbl
      BY <1>2, <1>16 DEF IsPost, IsGet
    <3>3. Agree(rt_tbl[ao], rest, taken[ao], queue[ao], ao, posted)
      BY <1>2, <1>5, <1>10, <3>1, <3>2, KnowsOther DEF rest
    <3> QED BY <1>2, <1>4, <3>1, <3>2, <3>3
  <2> QED BY <1>1, <1>8, <2>1, <2>2 DEF IInv, AllAgree
<1> QED BY <1>3, <1>11, <1>14, <1>15, <1>16

LEMMA NextIInv == Ways = {"FIFO"} /\ IInv /\ [Next]_vars => IInv'
<1> SUFFICES ASSUME Ways = {"FIFO"}, IInv, [Next]_vars PROVE IInv'
  OBVIOUS
<1>1. ASSUME NEW ao \in AO, NEW sig \in Signal, NEW way \in Ways, Post(ao, sig, way)
      PROVE  IInv'
  BY <1>1, PostIInv
<1>2. ASSUME NEW ao \in AO, Take(ao) PROVE IInv'
  BY <1>2, TakeIInv
<1>3. ASSUME NEW ao \in AO, RecordGet(ao) PROVE IInv'
  BY <1>3, GetIInv
<1>4. CASE RecordOther
  BY <1>4, OtherIInv
<1>5. CASE Restart
  BY <1>5, RestartIInv
<1>6. CASE Analyze
  BY <1>6, AnalyzeIInv
<1>7. CASE UNCHANGED vars
  <2>1. TypeOK'
    BY NextTypeOK DEF IInv
  <2>2. /\ Numbered' <=> Numbered
        /\ Followed' <=> Followed
        /\ RightTime' <=> RightTime
    BY <1>7 DEF vars, target, analyzer, Numbered, Followed, RightTime
  <2>3. AllAgree' <=> AllAgree
    BY <1>7 DEF vars, target, analyzer, AllAgree, Kept
  <2> QED BY <2>1, <2>2, <2>3 DEF IInv
<1> QED BY <1>1, <1>2, <1>3, <1>4, <1>5, <1>6, <1>7 DEF Next

(* The posts known to Trazer follow the queues of the target for as long   *)
(* as it sees every record of a run.                                       *)
THEOREM Invariance == Ways = {"FIFO"} => (Spec => []IInv)
<1> SUFFICES ASSUME Ways = {"FIFO"} PROVE Spec => []IInv
  OBVIOUS
<1>1. IInv /\ [Next]_vars => IInv'
  BY NextIInv
<1> QED BY <1>1, InitIInv, PTL DEF Spec

(* A response time that is shown runs from the post of that very event,    *)
(* whatever was lost and however often the target started, unless the loss *)
(* was such that the next number was the expected one by chance.           *)
THEOREM TimesAreRight == Ways = {"FIFO"} => (Spec => []RightTime)
<1> SUFFICES ASSUME Ways = {"FIFO"} PROVE Spec => []RightTime
  OBVIOUS
<1>1. IInv => RightTime
  BY DEF IInv
<1> QED BY <1>1, Invariance, PTL
-----------------------------------------------------------------------------
(* While nothing is lost, every record of the first run has the number     *)
(* that Trazer expects.                                                    *)
LEMMA NumberAndRest ==
  ASSUME NEW k \in Nat, NEW N \in Nat \ {0}
  PROVE  k = N * (k \div N) + (k % N) /\ (k % N) \in 0 .. N - 1 /\ k \div N \in Nat
OBVIOUS

LEMMA OnlyRest ==
  ASSUME NEW N \in Nat \ {0}, NEW q \in Nat, NEW r \in 0 .. N - 1
  PROVE  ((N * q) + r) % N = r
OBVIOUS

LEMMA NextNumber ==
  ASSUME NEW k \in Nat, NEW N \in Nat \ {0}
  PROVE  ((k % N) + 1) % N = (k + 1) % N
<1> DEFINE q == k \div N
           r == k % N
<1>1. k = N * q + r /\ r \in 0 .. N - 1 /\ q \in Nat
  BY NumberAndRest
<1> HIDE DEF q, r
<1>2. CASE r + 1 < N
  <2>1. k + 1 = N * q + (r + 1)
    BY <1>1
  <2>2. (k + 1) % N = r + 1
    BY <1>1, <1>2, <2>1, OnlyRest
  <2>3. (r + 1) % N = r + 1
    BY <1>1, <1>2
  <2> QED BY <2>2, <2>3 DEF r
<1>3. CASE r + 1 = N
  <2>1. k + 1 = N * (q + 1) + 0
    BY <1>1, <1>3
  <2>2. (k + 1) % N = 0
    BY <1>1, <2>1, OnlyRest
  <2>3. N % N = 0
    <3>1. N * 1 + 0 = N
      OBVIOUS
    <3> QED BY <3>1, OnlyRest
  <2> QED BY <1>3, <2>2, <2>3 DEF r
<1> QED BY <1>1, <1>2, <1>3

(* The first run is yet to be analyzed ...                                 *)
Untouched == rtime_enable = FALSE /\ ~unnoticed /\ lastnseq = NSEQ - 1

(* ... or is, and its next record is the one expected.                     *)
Expected ==
  /\ rtime_enable /\ ~unnoticed
  /\ last[2] + Len(stream) = serial
  /\ (lastnseq + 1) % NSEQ = last[2] % NSEQ

Lossless ==
  /\ boot >= 1
  /\ ~lost =>
       \/ TcfgFirst(stream) /\ (boot = 1 => Untouched)
       \/ ~TcfgFirst(stream) /\ last[1] = boot /\ (boot = 1 => Expected)

LEMMA InitLossless == Init => Lossless /\ AllTimed
<1> SUFFICES ASSUME Init PROVE Lossless /\ AllTimed
  OBVIOUS
<1>1. TcfgFirst(stream) /\ boot = 1
  BY DEF Init, TcfgFirst
<1>2. Untouched
  BY DEF Init, Untouched
<1>3. AllTimed
  BY DEF Init, AllTimed, NoReport
<1> QED BY <1>1, <1>2, <1>3 DEF Lossless

LEMMA PutLossless ==
  ASSUME TypeOK, Lossless, NEW r \in Record, r.kind # "TCFG", Put(r)
  PROVE  Lossless'
<1>1. /\ stream \in Seq(Record) /\ Len(stream) \in Nat
      /\ serial \in Nat /\ boot \in Nat /\ last[2] \in Nat
  BY LenProperties DEF TypeOK
<1>2. /\ serial' = serial + 1 /\ boot' = boot /\ UNCHANGED analyzer
  BY DEF Put
<1>3. ASSUME ~lost' PROVE ~lost /\ stream' = Append(stream, r)
  BY <1>3 DEF Put
<1> DEFINE more == Append(stream, r)
<1>4. /\ Len(more) = Len(stream) + 1 /\ more[Len(stream) + 1] = r
      /\ \A i \in 1 .. Len(stream) : more[i] = stream[i]
  BY <1>1, OneMore
<1> HIDE DEF more
<1>5. TcfgFirst(more) <=> TcfgFirst(stream)
  BY <1>1, <1>4 DEF TcfgFirst
<1>6. ASSUME ~lost'
      PROVE  \/ TcfgFirst(stream') /\ (boot' = 1 => Untouched')
             \/ ~TcfgFirst(stream') /\ last'[1] = boot' /\ (boot' = 1 => Expected')
  <2>1. ~lost /\ stream' = more
    BY <1>3, <1>6 DEF more
  <2>2. Untouched' <=> Untouched
    BY <1>2 DEF Untouched, analyzer
  <2>3. Expected => Expected'
    BY <1>1, <1>2, <1>4, <2>1 DEF Expected, analyzer
  <2> QED BY <1>2, <1>5, <2>1, <2>2, <2>3 DEF Lossless, analyzer
<1> QED BY <1>2, <1>6 DEF Lossless

(* The event that a record tells of is the oldest known.                   *)
LEMMA OldestKnown ==
  ASSUME IInv, stream # <<>>, Followed, ~TcfgFirst(stream),
         NEW ao \in AO, IsGet(stream[1], ao)
  PROVE  rt_tbl[ao] # <<>> /\ Head(rt_tbl[ao]) = stream[1].ev
<1>1. Kept(stream, ao) = rt_tbl[ao] /\ posted \in Nat /\ stream \in Seq(Record)
  BY DEF Kept, IInv, TypeOK
<1>2. /\ rt_tbl[ao] \in Seq(Event) /\ taken[ao] \in Seq(Event) /\ queue[ao] \in Seq(Event)
  BY <1>1, KeptType DEF IInv
<1>3. Agree(rt_tbl[ao], stream, taken[ao], queue[ao], ao, posted)
  BY <1>1 DEF IInv, AllAgree
<1>4. rt_tbl[ao] # <<>> /\ rt_tbl[ao][1] = stream[1].ev
  BY <1>1, <1>2, <1>3, KnowsGet
<1> QED BY <1>2, <1>4, Shifted

LEMMA AnalyzeLossless ==
  ASSUME IInv, Lossless, AllTimed, Analyze
  PROVE  Lossless' /\ AllTimed'
<1> DEFINE r == Head(stream)
<1>1. /\ r = stream[1] /\ r \in Record /\ stream # <<>> /\ stream' = Tail(stream)
      /\ Len(stream) \in Nat \ {0} /\ Len(stream') = Len(stream) - 1
      /\ \A i \in 1 .. Len(stream) - 1 : stream'[i] = stream[i + 1]
  BY Shifted DEF Analyze, IInv, TypeOK
<1>2. \/ r.kind = "TCFG"  /\ proc_tcfg_evt(r)
      \/ r.kind = "POST"  /\ Verify(r) /\ post_fifo_symevt(r)
      \/ r.kind = "GET"   /\ Verify(r) /\ remove_symevt_tstamp(r)
      \/ r.kind = "OTHER" /\ Verify(r) /\ UNCHANGED <<rt_tbl, report>>
  BY DEF Analyze
<1>3. boot' = boot /\ serial' = serial /\ lost' = lost
  BY DEF Analyze, target
<1> HIDE DEF r
<1>4. /\ boot \in Nat /\ serial \in Nat /\ last[1] \in Nat /\ last[2] \in Nat
      /\ 1 \in 1 .. Len(stream) /\ last[1] <= boot /\ last = <<last[1], last[2]>>
  BY <1>1 DEF IInv, Numbered, TypeOK
<1>5. r.boot = boot /\ (r.kind = "TCFG" => Len(stream) = serial + 1)
  BY <1>1, <1>4 DEF IInv, Numbered, TcfgFirst
<1>6. ASSUME r.kind # "TCFG" PROVE r.serial \in Nat /\ r.serial + Len(stream) = serial
  <2>1. r.serial \in Nat
    BY <1>1, <1>6, RecordFields
  <2>2. r.serial + Len(stream) + 1 = serial + 1
    BY <1>1, <1>4, <1>6 DEF IInv, Numbered
  <2> DEFINE k == r.serial
             n == Len(stream)
  <2>3. k \in Nat /\ n \in Nat /\ k + n + 1 = serial + 1
    BY <1>1, <2>1, <2>2
  <2> HIDE DEF k, n
  <2>4. k + n = serial
    BY <1>4, <2>3
  <2> QED BY <2>1, <2>4 DEF k, n
<1>7. ~TcfgFirst(stream') /\ (TcfgFirst(stream) <=> r.kind = "TCFG")
  BY <1>1 DEF IInv, Numbered, TcfgFirst
<1>8. last'[1] = boot
  BY <1>2, <1>5 DEF proc_tcfg_evt, Verify
(* What is expected comes.                                                 *)
<1>9. ASSUME ~lost, boot = 1, r.kind # "TCFG"
      PROVE  Followed /\ rtime_enable' /\ ~unnoticed' /\ Verify(r) /\ last'[2] = r.serial + 1
  <2>1. Expected /\ last[1] = boot
    BY <1>7, <1>9 DEF Lossless
  <2>2. Followed
    BY <2>1 DEF Expected, Followed
  <2>3. r.serial = last[2]
    <3> DEFINE k == r.serial
               n == Len(stream)
    <3>1. k \in Nat /\ n \in Nat /\ k + n = serial /\ last[2] + n = serial
      BY <1>1, <1>6, <1>9, <2>1 DEF Expected
    <3> HIDE DEF k, n
    <3>2. k = last[2]
      BY <1>4, <3>1
    <3> QED BY <3>2 DEF k
  <2>4. verify_nseq(r) /\ last = <<r.boot, r.serial>>
    BY <1>4, <1>5, <2>1, <2>3 DEF Expected, verify_nseq, nseq
  <2>5. Verify(r)
    BY <1>2, <1>9
  <2>6. rtime_enable' /\ ~unnoticed'
    BY <2>1, <2>4, <2>5 DEF Verify, Expected
  <2>7. last'[2] = r.serial + 1
    BY <2>5 DEF Verify
  <2> QED BY <2>2, <2>5, <2>6, <2>7
<1>10. ASSUME ~lost, boot = 1 PROVE Expected'
  <2>1. CASE r.kind = "TCFG"
    <3>1. proc_tcfg_evt(r) /\ Untouched
      BY <1>2, <1>7, <1>10, <2>1 DEF Lossless
    <3>2. rtime_enable' /\ ~unnoticed' /\ last'[2] = 0 /\ lastnseq' + 1 = NSEQ
      BY <3>1, RespTimeAssumption DEF proc_tcfg_evt, Untouched
    <3>3. NSEQ \in Nat \ {0} /\ NSEQ % NSEQ = 0 /\ 0 % NSEQ = 0
      <4>1. NSEQ * 1 + 0 = NSEQ /\ NSEQ * 0 + 0 = 0 /\ NSEQ \in Nat \ {0}
        BY RespTimeAssumption
      <4> QED BY <4>1, OnlyRest
    <3>4. last'[2] + Len(stream') = serial'
      BY <1>1, <1>3, <1>4, <1>5, <2>1, <3>2
    <3> QED BY <3>2, <3>3, <3>4 DEF Expected
  <2>2. CASE r.kind # "TCFG"
    <3>1. rtime_enable' /\ ~unnoticed' /\ Verify(r) /\ last'[2] = r.serial + 1
      BY <1>9, <1>10, <2>2
    <3>2. lastnseq' = r.serial % NSEQ
      BY <3>1 DEF Verify, nseq
    <3>3. r.serial \in Nat /\ r.serial + Len(stream) = serial
      BY <1>6, <2>2
    <3> DEFINE k == r.serial
               n == Len(stream)
               m == Len(stream')
    <3>4. k \in Nat /\ n \in Nat /\ m = n - 1 /\ k + n = serial /\ NSEQ \in Nat \ {0}
      BY <1>1, <3>3, RespTimeAssumption
    <3>5. lastnseq' = k % NSEQ /\ last'[2] = k + 1
      BY <3>1, <3>2
    <3> HIDE DEF k, n, m
    <3>6. k + 1 + m = serial'
      BY <1>3, <1>4, <3>4
    <3>7. (lastnseq' + 1) % NSEQ = last'[2] % NSEQ
      BY <3>4, <3>5, NextNumber
    <3> QED BY <3>1, <3>5, <3>6, <3>7 DEF Expected, m
  <2> QED BY <2>1, <2>2
<1>11. Lossless'
  BY <1>3, <1>7, <1>8, <1>10 DEF Lossless
<1>12. ASSUME ~lost, last'[1] <= 1 PROVE report'.stamp = report'.uid
  <2>1. boot = 1 /\ last[1] <= 1
    BY <1>4, <1>8, <1>12 DEF Lossless
  <2>2. report.stamp = report.uid
    BY <1>12, <2>1 DEF AllTimed
  <2>3. CASE r.kind = "GET"
    <3>1. Followed /\ rtime_enable' /\ remove_symevt_tstamp(r)
      BY <1>2, <1>9, <1>12, <2>1, <2>3
    <3>2. r.ao \in AO /\ r.ev \in Event /\ IsGet(stream[1], r.ao)
      BY <1>1, <2>3, RecordFields DEF IsGet
    <3>3. rt_tbl[r.ao] # <<>> /\ Head(rt_tbl[r.ao]) = r.ev
      BY <1>1, <1>7, <2>3, <3>1, <3>2, OldestKnown
    <3>4. report' = [uid |-> r.ev.uid, stamp |-> r.ev.uid]
      BY <3>1, <3>3 DEF remove_symevt_tstamp
    <3> QED BY <3>4
  <2>4. CASE r.kind # "GET"
    BY <1>2, <2>2, <2>4 DEF proc_tcfg_evt, post_fifo_symevt
  <2> QED BY <2>3, <2>4
<1>13. AllTimed'
  BY <1>3, <1>12 DEF AllTimed
<1> QED BY <1>11, <1>13

LEMMA NextLossless == IInv /\ Lossless /\ AllTimed /\ [Next]_vars => Lossless' /\ AllTimed'
<1> SUFFICES ASSUME IInv, Lossless, AllTimed, [Next]_vars PROVE Lossless' /\ AllTimed'
  OBVIOUS
<1>1. TypeOK
  BY DEF IInv
(* Nothing but an analyzed record changes what is shown.                   *)
<1>2. ASSUME UNCHANGED analyzer, lost => lost' PROVE AllTimed'
  BY <1>2 DEF AllTimed, analyzer
<1>3. ASSUME NEW r, Put(r) PROVE AllTimed'
  BY <1>2, <1>3 DEF Put
<1>4. ASSUME NEW ao \in AO, NEW sig \in Signal, NEW way \in Ways, Post(ao, sig, way)
      PROVE  Lossless' /\ AllTimed'
  <2> DEFINE ev == [uid |-> posted + 1, sig |-> sig]
             r  == [kind |-> "POST", ao |-> ao, ev |-> ev, boot |-> boot, serial |-> serial]
  <2>1. ev \in Event
    BY <1>1 DEF Event, TypeOK
  <2>2. r \in Record /\ r.kind # "TCFG"
    BY <1>1, <2>1 DEF Record, TypeOK
  <2>3. Put(r)
    BY <1>4 DEF Post
  <2> HIDE DEF r
  <2> QED BY <1>1, <1>3, <2>2, <2>3, PutLossless
<1>5. ASSUME NEW ao \in AO, Take(ao) PROVE Lossless' /\ AllTimed'
  <2>1. UNCHANGED <<boot, serial, stream, lost, analyzer>>
    BY <1>5 DEF Take
  <2> QED BY <1>2, <2>1 DEF Lossless, Untouched, Expected, analyzer
<1>6. ASSUME NEW ao \in AO, RecordGet(ao) PROVE Lossless' /\ AllTimed'
  <2> DEFINE r == [kind |-> "GET", ao |-> ao, ev |-> taken[ao][1], boot |-> boot,
                   serial |-> serial]
  <2>1. taken[ao][1] \in Event
    BY <1>1, <1>6, Shifted DEF RecordGet, TypeOK
  <2>2. r \in Record /\ r.kind # "TCFG"
    BY <1>1, <2>1 DEF Record, TypeOK
  <2>3. Put(r)
    BY <1>6 DEF RecordGet
  <2> HIDE DEF r
  <2> QED BY <1>1, <1>3, <2>2, <2>3, PutLossless
<1>7. CASE RecordOther
  <2> DEFINE r == [kind |-> "OTHER", boot |-> boot, serial |-> serial]
  <2>1. r \in Record /\ r.kind # "TCFG"
    BY <1>1 DEF Record, TypeOK
  <2>2. Put(r)
    BY <1>7 DEF RecordOther
  <2> HIDE DEF r
  <2> QED BY <1>1, <1>3, <2>1, <2>2, PutLossless
<1>8. CASE Restart
  <2>1. boot' = boot + 1 /\ boot \in Nat /\ boot >= 1
    BY <1>1, <1>8 DEF Restart, TypeOK, Lossless
  <2>2. TcfgFirst(stream')
    BY <1>8 DEF Restart, TcfgFirst
  <2>3. UNCHANGED analyzer /\ (lost => lost')
    BY <1>8 DEF Restart
  <2> QED BY <1>2, <2>1, <2>2, <2>3 DEF Lossless
<1>9. CASE Analyze
  BY <1>9, AnalyzeLossless
<1>10. CASE UNCHANGED vars
  BY <1>10 DEF vars, target, analyzer, Lossless, AllTimed, Untouched, Expected
<1> QED BY <1>4, <1>5, <1>6, <1>7, <1>8, <1>9, <1>10 DEF Next

(* As long as nothing is lost and the target runs for the first time,      *)
(* there is a response time with every event taken, and it is right.       *)
THEOREM AllAreTimed == Ways = {"FIFO"} => (Spec => []AllTimed)
<1> SUFFICES ASSUME Ways = {"FIFO"} PROVE Spec => []AllTimed
  OBVIOUS
<1>1. Init => Lossless /\ AllTimed
  BY InitLossless
<1>2. IInv /\ Lossless /\ AllTimed /\ [Next]_vars => Lossless' /\ AllTimed'
  BY NextLossless
<1> QED BY <1>1, <1>2, Invariance, PTL DEF Spec
=============================================================================
