----------------------------- MODULE MCRespTime -----------------------------
(***************************************************************************)
(* RespTime with three sequence numbers instead of 256, so that losses as  *)
(* large as their range occur.                                             *)
(***************************************************************************)
EXTENDS RespTime, TLC

CONSTANTS a1, a2

Objects     == {a1, a2}
ObjectSwaps == Permutations(Objects)

FifoOnly == {"FIFO"}
BothWays == {"FIFO", "LIFO"}
=============================================================================
