----------------------------- MODULE TraceCodec -----------------------------
(***************************************************************************)
(* The framing of trace records as the recorder writes it                  *)
(* (source/rkhtrc.cpp and the macros of source/include/rkh/trkhtrc.h).     *)
(*                                                                         *)
(* A record is a sequence of bytes: event id, sequence number, then the    *)
(* timestamp and the arguments, which are not told apart here, and the     *)
(* checksum.                                                               *)
(***************************************************************************)
EXTENDS TraceEvents, Integers, Sequences, SequencesExt

RKH_FLG == 126
RKH_ESC == 125

Octet == 0 .. 255

(* b ^ RKH_XOR: bit 5 is inverted.                                         *)
Flip(b) == IF (b \div 32) % 2 = 1 THEN b - 32 ELSE b + 32

(* The sum of a sequence of bytes, modulo 256.                             *)
SumOf(s) ==
  LET sum[i \in 0 .. Len(s)] == IF i = 0 THEN 0 ELSE (sum[i - 1] + s[i]) % 256
  IN  sum[Len(s)]
-----------------------------------------------------------------------------
(* Faulty variant: the escape byte itself is not escaped.                  *)
StuffFlagOnly(d) == IF d = RKH_FLG THEN <<RKH_ESC, Flip(d)>> ELSE <<d>>

(* What rkh_trc_u8(d) puts into the stream.                                *)
rkh_trc_u8(d) ==
  IF d \in {RKH_FLG, RKH_ESC} THEN <<RKH_ESC, Flip(d)>> ELSE <<d>>

(* The record with its checksum, which makes the sum of its bytes zero.    *)
Closed(body) == Append(body, (256 - SumOf(body)) % 256)

(* What lies in the stream when rkh_trc_end() returns.                     *)
Encode(record) ==
  Append(FlattenSeq([i \in DOMAIN record |-> rkh_trc_u8(record[i])]), RKH_FLG)
=============================================================================
