---------------------------- MODULE MCTraceRing ----------------------------
(***************************************************************************)
(* TraceRing on a ring of four cells.  Three byte values tell neighbours   *)
(* apart; the requests are one smaller and one larger than the ring (the   *)
(* code asks for 1024 bytes of rings of 256 to 1024).                      *)
(***************************************************************************)
EXTENDS TraceRing

RingSize == 4
Bytes    == {0, 1, 126}
BlockReq == {3, 8}

(* (TRCQTY_T)1024 for streams of less than 255 bytes, where TRCQTY_T is    *)
(* rui8_t.                                                                 *)
SmallStreamReq == {1024 % 256}
=============================================================================
