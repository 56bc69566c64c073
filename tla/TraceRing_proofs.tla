-------------------------- MODULE TraceRing_proofs --------------------------
(***************************************************************************)
(* What TraceRing guarantees for a ring of any size, any set of bytes and  *)
(* any requested block sizes.                                              *)
(***************************************************************************)
EXTENDS TraceRing, TLAPS, SequenceTheorems

(* The inductive invariant: the type invariant and the safety properties   *)
(* need each other (BlockInArray keeps blk in range, RingShape places the  *)
(* cell a put overwrites, LentBeforeOut places the block).                 *)
IInv == TypeOK /\ RingShape /\ BlockInArray /\ LentIntact /\ LentBeforeOut

(* The block handed out is held and lies within the array.                 *)
LEMMA BlockSizeBounds ==
  ASSUME TypeOK, trcqty > 0, NEW nget \in Requests
  PROVE  /\ BlockSize(nget) \in 0 .. trcqty
         /\ BlockSize(nget) <= N - trcout
BY RingAssumption DEF TypeOK, BlockSize, Least, Index

(* A freshly opened stream satisfies the invariant.                        *)
LEMMA InitIInv == Init => IInv
<1> SUFFICES ASSUME Init PROVE IInv
  OBVIOUS
<1>1. TypeOK
  BY RingAssumption DEF Init, TypeOK, Index, Wrap
<1>2. RingShape /\ BlockInArray /\ LentIntact /\ LentBeforeOut
  BY RingAssumption DEF Init, RingShape, BlockInArray, LentIntact, LentBeforeOut, Wrap
<1> QED BY <1>1, <1>2 DEF IInv

(* So does a stream opened again, whatever its cells still hold.           *)
LEMMA RestartIInv == IInv /\ rkh_trc_init => IInv'
<1> SUFFICES ASSUME IInv, rkh_trc_init PROVE IInv'
  OBVIOUS
<1> USE RingAssumption DEF rkh_trc_init, Fresh, flusher, IInv
<1>1. TypeOK'
  BY DEF TypeOK, Index, Wrap
<1>2. (RingShape /\ BlockInArray /\ LentIntact /\ LentBeforeOut)'
  BY DEF TypeOK, RingShape, BlockInArray, LentIntact, LentBeforeOut, Wrap
<1> QED BY <1>1, <1>2

(* A put keeps it: the cell it overwrites belongs to no byte LentIntact    *)
(* still speaks of.                                                        *)
LEMMA PutIInv ==
  ASSUME IInv, NEW b \in Byte, rkh_trc_put(b)
  PROVE  IInv'
<1> USE RingAssumption DEF rkh_trc_put, flusher
<1>1. TypeOK'
  BY DEF IInv, TypeOK, Index, Wrap
<1>2. RingShape'
  BY DEF IInv, TypeOK, RingShape, Index, Wrap
<1>3. BlockInArray' /\ LentBeforeOut'
  BY DEF IInv, TypeOK, BlockInArray, LentBeforeOut, Index
<1>4. LentIntact'
  <2> SUFFICES ASSUME NEW i \in 1 .. nbytes', i > trcqty' + nbytes' - N
               PROVE  trcstm'[blk' + i - 1] = lent'[i]
    BY DEF LentIntact
  <2>1. trcqty < N /\ trcqty' = trcqty + 1 /\ i > trcqty + 1 + nbytes - N
    BY DEF IInv, TypeOK
  <2>2. trcstm[blk + i - 1] = lent[i] /\ blk + i - 1 \in Index
    BY <2>1 DEF IInv, TypeOK, LentIntact, BlockInArray, Index
  <2>3. trcin # blk + i - 1
    BY <2>1 DEF IInv, TypeOK, RingShape, LentBeforeOut, BlockInArray, Index, Wrap
  <2> QED BY <2>2, <2>3 DEF IInv, TypeOK
<1> QED BY <1>1, <1>2, <1>3, <1>4 DEF IInv

(* Both ways to hand bytes out.                                            *)
LEMMA HandOutIInv ==
  ASSUME IInv, NEW n \in 0 .. trcqty, n <= N - trcout, nbytes = 0, HandOut(n)
  PROVE  IInv'
<1> USE RingAssumption DEF HandOut
<1>1. TypeOK'
  <2>1. \A i \in 1 .. n : Cell(trcout, i - 1) \in Byte
    BY DEF IInv, TypeOK, Cell, Index, Wrap
  <2>2. lent' \in Seq(Byte) /\ Len(lent') = n
    BY <2>1 DEF IInv, TypeOK
  <2> QED BY <2>2 DEF IInv, TypeOK, Index, Wrap
<1>2. RingShape'
  BY DEF IInv, TypeOK, RingShape, Index, Wrap
<1>3. BlockInArray' /\ LentBeforeOut'
  BY DEF IInv, TypeOK, BlockInArray, LentBeforeOut, Index
<1>4. LentIntact'
  BY DEF IInv, TypeOK, LentIntact, Index, Cell, Wrap
<1> QED BY <1>1, <1>2, <1>3, <1>4 DEF IInv

(* Reading a byte of the block keeps it.                                   *)
LEMMA FlushIInv == IInv /\ FlushByte => IInv'
<1> SUFFICES ASSUME IInv, FlushByte PROVE IInv'
  OBVIOUS
<1> USE RingAssumption DEF FlushByte, ring
<1>1. lent' \in Seq(Byte) /\ Len(lent') = nbytes - 1
       /\ \A i \in 1 .. nbytes - 1 : lent'[i] = lent[i + 1]
  BY DEF IInv, TypeOK
<1>2. TypeOK'
  BY <1>1 DEF IInv, TypeOK, BlockInArray
<1>3. RingShape' /\ BlockInArray' /\ LentBeforeOut'
  BY DEF IInv, TypeOK, RingShape, BlockInArray, LentBeforeOut, Index, Wrap
<1>4. LentIntact'
  <2> SUFFICES ASSUME NEW i \in 1 .. nbytes', i > trcqty + nbytes' - N
               PROVE  trcstm[blk' + i - 1] = lent'[i]
    BY DEF LentIntact
  <2> QED BY <1>1 DEF IInv, TypeOK, LentIntact
<1> QED BY <1>2, <1>3, <1>4 DEF IInv

(* The invariant is inductive.                                             *)
LEMMA NextIInv == IInv /\ [Next]_vars => IInv'
<1> SUFFICES ASSUME IInv, [Next]_vars PROVE IInv'
  OBVIOUS
<1>1. CASE rkh_trc_init
  BY <1>1, RestartIInv
<1>2. ASSUME NEW b \in Byte, rkh_trc_put(b) PROVE IInv'
  BY <1>2, PutIInv
<1>3. CASE rkh_trc_get
  BY <1>3, HandOutIInv, RingAssumption DEF rkh_trc_get, IInv, TypeOK, Index
<1>4. ASSUME NEW nget \in Requests, rkh_trc_get_block(nget) PROVE IInv'
  <2>1. /\ BlockSize(nget) \in 0 .. trcqty /\ BlockSize(nget) <= N - trcout
        /\ nbytes = 0 /\ HandOut(BlockSize(nget))
    BY <1>4, BlockSizeBounds DEF rkh_trc_get_block, IInv
  <2> QED BY <2>1, HandOutIInv
<1>5. CASE FlushByte
  BY <1>5, FlushIInv
<1>6. CASE UNCHANGED vars
  BY <1>6 DEF vars, IInv, TypeOK, RingShape, BlockInArray, LentIntact, LentBeforeOut
<1> QED BY <1>1, <1>2, <1>3, <1>4, <1>5, <1>6 DEF Next

(* The invariant holds in every reachable state.                           *)
LEMMA Invariance == Spec => []IInv
BY InitIInv, NextIInv, PTL DEF Spec

(* Every variable keeps its type: no index leaves the array and the        *)
(* counter never goes below zero or above the size of the ring.            *)
THEOREM TypeCorrect == Spec => []TypeOK
BY Invariance, PTL DEF IInv

(* Pointers and counter never disagree.                                    *)
THEOREM RingConsistent == Spec => []RingShape
BY Invariance, PTL DEF IInv

(* The flush loop's plain pointer never leaves the array.                  *)
THEOREM BlockStaysInArray == Spec => []BlockInArray
BY Invariance, PTL DEF IInv

(* Of the block handed out exactly the bytes lapped by newer ones are      *)
(* lost; the flush loop reads the others as they were.                     *)
THEOREM BlockIntactUntilLapped == Spec => []LentIntact
BY Invariance, PTL DEF IInv
-----------------------------------------------------------------------------
(* The refinement.                                                         *)

(* The mapped history is a sequence of recorded bytes.                     *)
LEMMA HistorySeq ==
  TypeOK => /\ history \in Seq(Byte)
            /\ Len(history) = trcqty
            /\ \A i \in 1 .. trcqty : history[i] = Cell(trcout, i - 1)
<1> SUFFICES ASSUME TypeOK
             PROVE  /\ history \in Seq(Byte)
                    /\ Len(history) = trcqty
                    /\ \A i \in 1 .. trcqty : history[i] = Cell(trcout, i - 1)
  OBVIOUS
<1>1. \A i \in 1 .. trcqty : Cell(trcout, i - 1) \in Byte
  BY RingAssumption DEF TypeOK, Cell, Wrap, Index
<1> QED BY <1>1 DEF history, TypeOK

(* A fresh stream holds the flag rkh_trc_init() puts.                      *)
LEMMA InitRefines == Init => Abstract!Init
<1> SUFFICES ASSUME Init PROVE Abstract!Init
  OBVIOUS
<1>1. history = <<FLG>>
  BY RingAssumption DEF Init, history, Cell, Wrap, Index
<1> QED BY <1>1 DEF Init, Abstract!Init

(* Opening the stream again empties the history.                           *)
LEMMA RestartRefines == IInv /\ rkh_trc_init => Abstract!Restart
<1> SUFFICES ASSUME IInv, rkh_trc_init PROVE Abstract!Restart
  OBVIOUS
<1>1. history' = <<FLG>>
  BY RingAssumption DEF IInv, TypeOK, rkh_trc_init, Fresh, history, Cell, Wrap, Index
<1>2. lent = <<>> /\ UNCHANGED lent
  BY EmptySeq DEF IInv, TypeOK, rkh_trc_init, flusher
<1> QED BY <1>1, <1>2 DEF Abstract!Restart

(* A put appends to the history; on a full ring the cell it overwrites is  *)
(* the oldest one and trcout moves to the next.                            *)
LEMMA PutRefines ==
  ASSUME IInv, NEW b \in Byte, rkh_trc_put(b)
  PROVE  Abstract!Record(b)
<1> DEFINE kept == IF Len(history) = N THEN Tail(history) ELSE history
<1>1. TypeOK /\ TypeOK'
  BY PutIInv DEF IInv
<1>2. /\ history' \in Seq(Byte) /\ Len(history') = trcqty'
      /\ \A i \in 1 .. trcqty' : history'[i] = trcstm'[Wrap(trcout' + (i - 1))]
  <2>1. (/\ history \in Seq(Byte) /\ Len(history) = trcqty
         /\ \A i \in 1 .. trcqty : history[i] = Cell(trcout, i - 1))'
    BY <1>1, HistorySeq, PTL
  <2> QED BY <2>1 DEF Cell
<1>5. UNCHANGED lent
  BY DEF rkh_trc_put, flusher
<1>3. CASE trcqty = N
  <2>1. /\ kept \in Seq(Byte) /\ Len(kept) = N - 1
        /\ \A i \in 1 .. N - 1 : kept[i] = trcstm[Wrap(trcout + i)]
    <3>1. history # <<>> /\ kept = Tail(history)
      BY <1>1, <1>3, HistorySeq, EmptySeq, RingAssumption
    <3> QED BY <1>1, <1>3, <3>1, HistorySeq, HeadTailProperties, RingAssumption DEF Cell, TypeOK
  <2>2. trcin = trcout /\ trcout' = Wrap(trcout + 1) /\ trcqty' = N
    BY <1>1, <1>3, RingAssumption DEF rkh_trc_put, IInv, RingShape, TypeOK, Wrap, Index
  <2>3. \A i \in 1 .. N - 1 : history'[i] = kept[i]
    <3> SUFFICES ASSUME NEW i \in 1 .. N - 1 PROVE history'[i] = kept[i]
      OBVIOUS
    <3>1. Wrap(trcout' + (i - 1)) = Wrap(trcout + i)
          /\ Wrap(trcout + i) \in Index /\ Wrap(trcout + i) # trcin
      BY <1>1, <2>2, RingAssumption DEF TypeOK, Wrap, Index
    <3> QED BY <1>1, <1>2, <2>1, <2>2, <3>1 DEF rkh_trc_put, TypeOK
  <2>4. history'[N] = b
    BY <1>1, <1>2, <2>2, RingAssumption DEF rkh_trc_put, TypeOK, Wrap, Index
  <2> QED BY <1>2, <2>1, <2>2, <2>3, <2>4, SeqEqual, <1>5, RingAssumption
           DEF Abstract!Record
<1>4. CASE trcqty < N
  <2>1. /\ kept \in Seq(Byte) /\ Len(kept) = trcqty
        /\ \A i \in 1 .. trcqty : kept[i] = trcstm[Wrap(trcout + (i - 1))]
    BY <1>1, <1>4, HistorySeq DEF Cell, TypeOK
  <2>2. trcout' = trcout /\ trcqty' = trcqty + 1 /\ trcin = Wrap(trcout + trcqty)
    BY <1>1, <1>4, RingAssumption DEF rkh_trc_put, IInv, RingShape, TypeOK, Wrap, Index
  <2>3. \A i \in 1 .. trcqty : history'[i] = kept[i]
    <3> SUFFICES ASSUME NEW i \in 1 .. trcqty PROVE history'[i] = kept[i]
      OBVIOUS
    <3>1. Wrap(trcout + (i - 1)) \in Index /\ Wrap(trcout + (i - 1)) # trcin
      BY <1>1, <1>4, <2>2, RingAssumption DEF TypeOK, Wrap, Index
    <3> QED BY <1>1, <1>2, <2>1, <2>2, <3>1 DEF rkh_trc_put, TypeOK
  <2>4. history'[trcqty + 1] = b
    BY <1>1, <1>2, <2>2, RingAssumption DEF rkh_trc_put, TypeOK, Wrap, Index
  <2>5. history' = Append(kept, b)
    <3>1. /\ Append(kept, b) \in Seq(Byte) /\ Len(Append(kept, b)) = trcqty + 1
          /\ \A i \in 1 .. trcqty : Append(kept, b)[i] = kept[i]
          /\ Append(kept, b)[trcqty + 1] = b
      BY <1>1, <2>1 DEF TypeOK
    <3>2. \A i \in 1 .. trcqty + 1 : history'[i] = Append(kept, b)[i]
      BY <1>1, <2>3, <2>4, <3>1 DEF TypeOK
    <3> QED BY <1>2, <2>2, <3>1, <3>2, SeqEqual
  <2> QED BY <1>5, <2>5 DEF Abstract!Record
<1>6. trcqty = N \/ trcqty < N
  BY <1>1, RingAssumption DEF TypeOK
<1> QED BY <1>3, <1>4, <1>6

(* A block is a prefix of the history even when the ring has wrapped: it   *)
(* ends at the end of the array at the latest.                             *)
LEMMA HandOutRefines ==
  ASSUME IInv, NEW n \in 0 .. trcqty, n <= N - trcout, nbytes = 0, HandOut(n)
  PROVE  n \in 0 .. Len(history) /\ Abstract!Lend(n)
<1>1. TypeOK /\ TypeOK'
  BY HandOutIInv DEF IInv
<1>2. /\ history \in Seq(Byte) /\ Len(history) = trcqty
      /\ \A i \in 1 .. trcqty : history[i] = Cell(trcout, i - 1)
  BY <1>1, HistorySeq
<1>3. lent = <<>>
  BY <1>1, EmptySeq DEF TypeOK
<1>4. lent' = SubSeq(history, 1, n)
  <2>1. \A i \in 1 .. n : history[i] \in Byte
    BY <1>2, ElementOfSeq, <1>1 DEF TypeOK
  <2>2. /\ SubSeq(history, 1, n) \in Seq(Byte) /\ Len(SubSeq(history, 1, n)) = n
        /\ \A i \in 1 .. n : SubSeq(history, 1, n)[i] = history[i]
    BY <2>1, SubSeqProperties, <1>1 DEF TypeOK
  <2>3. /\ lent' \in Seq(Byte) /\ Len(lent') = n
        /\ \A i \in 1 .. n : lent'[i] = history[i]
    BY <1>1, <1>2 DEF HandOut, TypeOK
  <2> QED BY <2>2, <2>3, SeqEqual
<1>5. history' = SubSeq(history, n + 1, Len(history))
  <2>1. \A i \in n + 1 .. trcqty : history[i] \in Byte
    BY <1>2, ElementOfSeq, <1>1 DEF TypeOK
  <2>2. /\ SubSeq(history, n + 1, trcqty) \in Seq(Byte)
        /\ Len(SubSeq(history, n + 1, trcqty)) = trcqty - n
        /\ \A i \in 1 .. trcqty - n :
             SubSeq(history, n + 1, trcqty)[i] = history[n + i]
    <3>1. /\ SubSeq(history, n + 1, trcqty) \in Seq(Byte)
          /\ Len(SubSeq(history, n + 1, trcqty)) =
               IF n + 1 <= trcqty THEN trcqty - (n + 1) + 1 ELSE 0
          /\ \A i \in 1 .. trcqty - (n + 1) + 1 :
               SubSeq(history, n + 1, trcqty)[i] = history[(n + 1) + i - 1]
      BY <2>1, SubSeqProperties, <1>1 DEF TypeOK
    <3> QED BY <3>1, <1>1 DEF TypeOK
  <2>3. /\ history' \in Seq(Byte) /\ Len(history') = trcqty - n
        /\ \A i \in 1 .. trcqty - n : history'[i] = history[n + i]
    <3>1. trcout' = Wrap(trcout + n) /\ trcqty' = trcqty - n /\ trcstm' = trcstm
      BY DEF HandOut
    <3>2. \A i \in 1 .. trcqty - n :
            Wrap(trcout' + (i - 1)) = Wrap(trcout + (n + i - 1))
      BY <1>1, <3>1, RingAssumption DEF TypeOK, Wrap, Index
    <3>3. \A i \in 1 .. trcqty - n :
            trcstm[Wrap(trcout' + (i - 1))] = history[n + i]
      BY <1>1, <1>2, <3>2 DEF TypeOK, Cell
    <3>4. \A i \in 1 .. trcqty - n : history[n + i] \in Byte
      BY <1>2, ElementOfSeq, <1>1 DEF TypeOK
    <3>5. history' = [i \in 1 .. trcqty - n |-> history[n + i]]
      BY <3>1, <3>3 DEF history, Cell
    <3> QED BY <1>1, <3>4, <3>5 DEF TypeOK
  <2> QED BY <1>2, <2>2, <2>3, SeqEqual
<1> QED BY <1>1, <1>2, <1>3, <1>4, <1>5 DEF Abstract!Lend, TypeOK

(* Reading a byte of the block takes it off the bytes lent.                *)
LEMMA FlushRefines == IInv /\ FlushByte => Abstract!Consume
<1> SUFFICES ASSUME IInv, FlushByte PROVE Abstract!Consume
  OBVIOUS
<1>1. lent # <<>>
  BY EmptySeq DEF FlushByte, IInv, TypeOK
<1>2. UNCHANGED history
  BY DEF FlushByte, ring, history, Cell
<1> QED BY <1>1, <1>2 DEF Abstract!Consume, FlushByte

(* Every step of the ring is a step of the stream, or a stutter.           *)
LEMMA NextRefines == IInv /\ [Next]_vars => [Abstract!Next]_(Abstract!hvars)
<1> SUFFICES ASSUME IInv, [Next]_vars PROVE [Abstract!Next]_(Abstract!hvars)
  OBVIOUS
<1>1. CASE rkh_trc_init
  BY <1>1, RestartRefines DEF Abstract!Next
<1>2. ASSUME NEW b \in Byte, rkh_trc_put(b) PROVE Abstract!Next
  BY <1>2, PutRefines DEF Abstract!Next
<1>3. CASE rkh_trc_get
  <2>1. 1 \in 1 .. trcqty /\ 1 <= N - trcout /\ nbytes = 0 /\ HandOut(1)
    BY <1>3, RingAssumption DEF rkh_trc_get, IInv, TypeOK, Index
  <2> QED BY <2>1, HandOutRefines DEF Abstract!Next
<1>4. ASSUME NEW nget \in Requests, rkh_trc_get_block(nget) PROVE Abstract!Next
  <2>1. /\ BlockSize(nget) \in 0 .. trcqty /\ BlockSize(nget) <= N - trcout
        /\ nbytes = 0 /\ HandOut(BlockSize(nget))
    BY <1>4, BlockSizeBounds DEF rkh_trc_get_block, IInv
  <2> QED BY <2>1, HandOutRefines DEF Abstract!Next
<1>5. CASE FlushByte
  BY <1>5, FlushRefines DEF Abstract!Next
<1>6. CASE UNCHANGED vars
  BY <1>6 DEF vars, Abstract!hvars, history, Cell
<1> QED BY <1>1, <1>2, <1>3, <1>4, <1>5, <1>6 DEF Next

(* The ring of rkhtrc.cpp is the queue its documentation promises: it      *)
(* always holds the most recent bytes, and hands them out oldest first.    *)
THEOREM Refinement == Spec => ImplementsRecentHistory
<1>1. Init => Abstract!Init
  BY InitRefines
<1>2. IInv /\ [Next]_vars => [Abstract!Next]_(Abstract!hvars)
  BY NextRefines
<1> QED BY <1>1, <1>2, Invariance, PTL DEF Spec, ImplementsRecentHistory, Abstract!Spec
=============================================================================
