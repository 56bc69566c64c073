--------------------------- MODULE RecentHistory ---------------------------
(***************************************************************************)
(* What the trace stream promises its users (source/include/rkh/trkhtrc.h, *)
(* "the recorder always holds the most recent history"): a first-in        *)
(* first-out queue of bounded size in which a new byte pushes out the      *)
(* oldest one, and a reader that borrows a piece of its front.             *)
(*                                                                         *)
(* TraceRing implements this specification; nothing in it comes from the   *)
(* code of the ring.                                                       *)
(***************************************************************************)
EXTENDS Integers, Sequences

CONSTANTS
  Size,     \* bytes the stream holds
  Byte,     \* the bytes that may be recorded
  FLG       \* the flag byte a fresh stream starts with

VARIABLES
  history,  \* the bytes held, oldest first
  lent      \* bytes handed to the reader and not read by it yet

hvars == <<history, lent>>

Init == history = <<FLG>> /\ lent = <<>>

(* A byte is recorded; when the stream is full the oldest one is lost.     *)
Record(b) ==
  /\ history' = Append(IF Len(history) = Size THEN Tail(history) ELSE history, b)
  /\ UNCHANGED lent

(* The reader borrows the n oldest bytes, which leave the stream.          *)
Lend(n) ==
  /\ lent = <<>>
  /\ lent'    = SubSeq(history, 1, n)
  /\ history' = SubSeq(history, n + 1, Len(history))

(* The reader is done with the first byte it borrowed.                     *)
Consume ==
  /\ lent # <<>>
  /\ lent' = Tail(lent)
  /\ UNCHANGED history

(* The stream is emptied and starts again.                                 *)
Restart == lent = <<>> /\ history' = <<FLG>> /\ UNCHANGED lent

Next ==
  \/ \E b \in Byte : Record(b)
  \/ \E n \in 0 .. Len(history) : Lend(n)
  \/ Consume
  \/ Restart

Spec == Init /\ [][Next]_hvars
=============================================================================
