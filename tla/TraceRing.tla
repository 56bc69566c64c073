----------------------------- MODULE TraceRing -----------------------------
(***************************************************************************)
(* The trace stream of source/rkhtrc.cpp, a ring of bytes written by       *)
(* rkh_trc_put() and emptied by rkh_trc_get() and rkh_trc_get_block(),     *)
(* together with the flush loop that empties it (rkh_trc_flush() of        *)
(* prj/shared/bsp.c and arch/linux_gnu/utrzhal.cpp).                       *)
(*                                                                         *)
(* The flush loop takes a block inside a critical section and reads the    *)
(* bytes through the returned pointer after it has left it, while          *)
(* interrupts keep recording: rkh_trc_put() interleaves with every byte    *)
(* the loop reads.  lent is a history variable: the bytes of the block as  *)
(* they were when it was handed out.                                       *)
(***************************************************************************)
EXTENDS Integers, Sequences

CONSTANTS
  N,        \* RKH_CFG_TRC_SIZEOF_STREAM
  Byte,     \* the byte values that are recorded
  FLG,      \* RKH_FLG
  Requests  \* block sizes callers pass to rkh_trc_get_block()

ASSUME RingAssumption ==
  /\ N \in Nat \ {0}
  /\ Requests \subseteq Nat
  /\ {0, FLG} \subseteq Byte

VARIABLES
  trcstm,   \* the ring's cells
  trcin,    \* index of the cell written next
  trcout,   \* index of the oldest byte
  trcqty,   \* number of bytes held
  blk,      \* the flush loop's pointer into the ring
  nbytes,   \* bytes of its block still to be read
  lent      \* those bytes as they were when handed out (history variable)

ring    == <<trcstm, trcin, trcout, trcqty>>
flusher == <<blk, nbytes, lent>>
vars    == <<trcstm, trcin, trcout, trcqty, blk, nbytes, lent>>

Index == 0 .. N - 1

(* A pointer that reaches trcend goes back to trcstm.                      *)
Wrap(i) == IF i >= N THEN i - N ELSE i

(* The i-th byte (from 0) after index p.                                   *)
Cell(p, i) == trcstm[Wrap(p + i)]

Least(a, b) == IF a <= b THEN a ELSE b
-----------------------------------------------------------------------------
(* rkh_trc_init(): the pointers go to the start, then a raw flag is put.   *)
(* The cells keep what they held.                                          *)
Fresh(stm) ==
  /\ trcstm' = [stm EXCEPT ![0] = FLG]
  /\ trcin'  = Wrap(1)
  /\ trcout' = 0
  /\ trcqty' = 1

Init ==
  /\ trcstm = [i \in Index |-> IF i = 0 THEN FLG ELSE 0]
  /\ trcin  = Wrap(1)
  /\ trcout = 0
  /\ trcqty = 1
  /\ blk = 0 /\ nbytes = 0 /\ lent = <<>>

(* The stream is opened again between two flushes: UnitTrazer does so for  *)
(* every test it is told to start.                                         *)
rkh_trc_init == nbytes = 0 /\ Fresh(trcstm) /\ UNCHANGED flusher

(* Faulty variant: a slot is kept free, as rings without a counter do.     *)
PutKeepsSlotFree(b) ==
  /\ trcstm' = [trcstm EXCEPT ![trcin] = b]
  /\ trcin'  = Wrap(trcin + 1)
  /\ IF trcqty + 1 >= N
     THEN trcqty' = N - 1 /\ trcout' = Wrap(trcin' + 1)
     ELSE trcqty' = trcqty + 1 /\ UNCHANGED trcout
  /\ UNCHANGED flusher

(* Faulty variant: the oldest byte is overwritten, trcout stays behind.    *)
PutLeavesOut(b) ==
  /\ trcstm' = [trcstm EXCEPT ![trcin] = b]
  /\ trcin'  = Wrap(trcin + 1)
  /\ trcqty' = Least(trcqty + 1, N)
  /\ UNCHANGED <<trcout, blk, nbytes, lent>>

(* rkh_trc_put(b), called with interrupts disabled by whoever records.     *)
rkh_trc_put(b) ==
  /\ trcstm' = [trcstm EXCEPT ![trcin] = b]
  /\ trcin'  = Wrap(trcin + 1)
  /\ IF trcqty + 1 >= N
     THEN trcqty' = N /\ trcout' = Wrap(trcin + 1)
     ELSE trcqty' = trcqty + 1 /\ UNCHANGED trcout
  /\ UNCHANGED flusher

(* Faulty variant: the pointer is taken after trcout has moved on.         *)
HandOutAfterMove(n) ==
  /\ trcout' = Wrap(trcout + n)
  /\ blk'    = trcout'
  /\ nbytes' = n
  /\ lent'   = [i \in 1 .. n |-> Cell(trcout, i - 1)]
  /\ trcqty' = trcqty - n
  /\ UNCHANGED <<trcstm, trcin>>

(* n bytes from trcout on leave the ring; the caller gets a pointer.       *)
HandOut(n) ==
  /\ blk'    = trcout
  /\ nbytes' = n
  /\ lent'   = [i \in 1 .. n |-> Cell(trcout, i - 1)]
  /\ trcout' = Wrap(trcout + n)
  /\ trcqty' = trcqty - n
  /\ UNCHANGED <<trcstm, trcin>>

(* rkh_trc_get(); a NULL return changes nothing.                           *)
rkh_trc_get == nbytes = 0 /\ trcqty > 0 /\ HandOut(1)

(* Faulty variants: one of the three limits on a block is forgotten or is  *)
(* off by one.                                                             *)
BlockPastQty(nget) == Least(N - trcout, nget)
BlockPastEnd(nget) == Least(trcqty, nget)
BlockShortOfEnd(nget) == Least(Least(N - trcout - 1, trcqty), nget)

(* The size of the block handed out: no more than was asked for, than is   *)
(* held, and than lies before the end of the array.                        *)
BlockSize(nget) == Least(Least(N - trcout, trcqty), nget)

(* rkh_trc_get_block(&nget); a NULL return changes nothing.                *)
rkh_trc_get_block(nget) == nbytes = 0 /\ trcqty > 0 /\ HandOut(BlockSize(nget))

(* One round of the flush loop's inner loop: *blk is sent and parsed.      *)
FlushByte ==
  /\ nbytes > 0
  /\ blk'    = blk + 1
  /\ nbytes' = nbytes - 1
  /\ lent'   = Tail(lent)
  /\ UNCHANGED ring

Next ==
  \/ rkh_trc_init
  \/ \E b \in Byte : rkh_trc_put(b)
  \/ rkh_trc_get
  \/ \E nget \in Requests : rkh_trc_get_block(nget)
  \/ FlushByte

Spec == Init /\ [][Next]_vars

(* The idle hook calls rkh_trc_flush() again and again, and the loop runs  *)
(* until the ring is empty; nothing obliges anyone to record.              *)
FairSpec ==
  /\ Spec
  /\ WF_vars(\E nget \in Requests : rkh_trc_get_block(nget))
  /\ WF_vars(FlushByte)
-----------------------------------------------------------------------------
TypeOK ==
  /\ trcstm \in [Index -> Byte]
  /\ trcin \in Index /\ trcout \in Index
  /\ trcqty \in 0 .. N
  /\ blk \in 0 .. N /\ nbytes \in 0 .. N
  /\ lent \in Seq(Byte) /\ Len(lent) = nbytes

(* The redundant counter agrees with the two pointers, however puts,       *)
(* blocks and restarts follow each other: rkh_trc_put() derives trcout     *)
(* from trcin when it thinks the ring is full.                             *)
RingShape == trcin = Wrap(trcout + trcqty)

(* A block never runs past the end of the array: its reader advances a     *)
(* plain pointer (++blk) and does not wrap it.                             *)
BlockInArray == blk + nbytes <= N

(* The bytes the flush loop still has to read are those it was handed,     *)
(* but for the ones overwritten since: the cells of a block are free for   *)
(* rkh_trc_put() from the moment it is handed out, and once the rest of    *)
(* the ring is full the block is overwritten from its first byte on.       *)
LentIntact ==
  \A i \in 1 .. nbytes :
    i > trcqty + nbytes - N => trcstm[blk + i - 1] = lent[i]

(* What makes LentIntact inductive: until the ring is full of newer bytes  *)
(* the block lies right before the oldest byte held.                       *)
LentBeforeOut == nbytes > 0 /\ trcqty < N => trcout = Wrap(blk + nbytes)

(* The ring implements the abstract stream.                                *)
history == [i \in 1 .. trcqty |-> Cell(trcout, i - 1)]

Abstract == INSTANCE RecentHistory WITH Size <- N

ImplementsRecentHistory == Abstract!Spec

(* Once recording stops, the flush loop empties the stream for good.       *)
Drains ==
  <>[][~rkh_trc_init /\ \A b \in Byte : ~rkh_trc_put(b)]_vars
    => <>[](trcqty = 0 /\ nbytes = 0)
=============================================================================
