----------------------------- MODULE TraceLink -----------------------------
(***************************************************************************)
(* A trace record's way from the instrumented program to the analyzer: the *)
(* recorder encodes it (rkh_trc_begin(), rkh_trc_u8(), rkh_trc_end() of    *)
(* source/rkhtrc.cpp), puts its bytes one by one into the ring of          *)
(* TraceRing, the flush loop takes them out, and tzparser_exec() of        *)
(* source/tzparse.cpp puts the frames together again and checks their      *)
(* checksums and sequence numbers.                                         *)
(*                                                                         *)
(* The target may start again at any time; the analyzer goes on.           *)
(*                                                                         *)
(* Recording is done in a critical section, which also excludes            *)
(* rkh_trc_get_block(), but not the reading of the block handed out last.  *)
(* The ring is the only place where bytes are lost.                        *)
(***************************************************************************)
EXTENDS TraceCodec, FiniteSetsExt

CONSTANTS
  N,          \* RKH_CFG_TRC_SIZEOF_STREAM
  Requests,   \* what the flush loop asks rkh_trc_get_block() for
  Events,     \* the records made: [eid, args], args with the timestamp
  MaxRecords  \* bound on the number of records

ASSUME LinkAssumption ==
  /\ N \in Nat \ {0} /\ Requests \subseteq Nat
  /\ Events \subseteq [eid : Octet, args : Seq(Octet)]
  /\ MaxRecords \in Nat

VARIABLES
  trcstm, trcin, trcout, trcqty,  \* the ring
  blk, nbytes, lent,              \* the flush loop
  nseq,       \* the next record's sequence number
  pending,    \* bytes the running recorder has still to put
  state,      \* the parser's state
  tr,         \* its buffer, as far as it was ever filled
  ptr,        \* bytes collected since the last flag
  trix,       \* the same, in a single byte
  lastnseq,   \* the sequence number of the last record verified
  sent,       \* every record made (history variable)
  starts,     \* how many were made before each start (history variable)
  accepted,   \* every frame that passed the checksum (history variable)
  gaps,       \* those reported as "may have lost trace info" (history variable)
  errors,     \* frames reported as checksum errors (history variable)
  maker,      \* the record that the byte in a cell is of (history variable)
  parts,      \* those that the bytes since the last flag are of (history variable)
  origins,    \* those that each frame accepted is made of (history variable)
  dropped,    \* some byte was overwritten in the ring (history variable)
  lapped      \* some byte was overwritten in a block (history variable)

ringvars == <<trcstm, trcin, trcout, trcqty, blk, nbytes, lent>>
recorder == <<nseq, pending, sent, starts, dropped, lapped>>
analyzer == <<lastnseq, accepted, gaps, errors>>
parser   == <<state, tr, ptr, trix>>
ghosts   == <<maker, parts, origins>>
vars     == <<ringvars, recorder, analyzer, parser, ghosts>>

Ring == INSTANCE TraceRing WITH Byte <- Octet, FLG <- RKH_FLG
-----------------------------------------------------------------------------
(* rkh_trc_init() on one side, tzparser_init() on the other.               *)
Init ==
  /\ Ring!Init
  /\ nseq = 0 /\ pending = <<>>
  /\ state = "WFLAG" /\ tr = <<>> /\ ptr = 0 /\ trix = 0
  /\ lastnseq = 255
  /\ sent = <<>> /\ starts = {0} /\ accepted = <<>> /\ gaps = {} /\ errors = 0
  /\ maker = [i \in Ring!Index |-> 0] /\ parts = {} /\ origins = <<>>
  /\ dropped = FALSE /\ lapped = FALSE

(* RKH_TRC_BEGIN .. RKH_TRC_END: the recorder enters the critical section  *)
(* and knows what it is going to put.                                      *)
Record(event) ==
  LET number == IF Numbered(event.eid) THEN <<nseq>> ELSE <<>>
      record == Closed(<<event.eid>> \o number \o event.args)
  IN  /\ pending = <<>> /\ Len(sent) < MaxRecords
      /\ pending' = Encode(record)
      /\ nseq' = (nseq + Len(number)) % 256
      /\ sent' = Append(sent, record)
      /\ UNCHANGED <<ringvars, parser, analyzer, starts, ghosts, dropped, lapped>>

(* One rkh_trc_put() of the running recorder.                              *)
Put ==
  /\ pending # <<>>
  /\ Ring!rkh_trc_put(Head(pending))
  /\ pending' = Tail(pending)
  /\ dropped' = (dropped \/ trcqty = N)
  /\ lapped'  = (lapped \/ trcin \in blk .. blk + nbytes - 1)
  /\ maker'   = [maker EXCEPT ![trcin] = Len(sent)]
  /\ UNCHANGED <<nseq, sent, starts, parser, analyzer, parts, origins>>

(* rkh_trc_flush() takes a block between two records.                      *)
TakeBlock ==
  /\ pending = <<>>
  /\ \E nget \in Requests : Ring!rkh_trc_get_block(nget)
  /\ UNCHANGED <<recorder, parser, analyzer, ghosts>>

(* Everything recorded has been read.                                      *)
Drained == pending = <<>> /\ trcqty = 0 /\ nbytes = 0

(* rkh_trc_init() in a target that starts again, from whatever it was at.  *)
Restart ==
  /\ Ring!Fresh([i \in Ring!Index |-> 0]) /\ blk' = 0 /\ nbytes' = 0 /\ lent' = <<>>
  /\ nseq' = 0 /\ pending' = <<>>
  /\ starts'  = starts \cup {Len(sent)}
  /\ dropped' = (dropped \/ ~Drained)
  /\ maker'   = [i \in Ring!Index |-> Len(sent)]
  /\ UNCHANGED <<sent, lapped, parser, analyzer, parts, origins>>
-----------------------------------------------------------------------------
(* What the parser takes for the current frame.                            *)
Frame == SubSeq(tr, 1, trix)

(* Faulty variant: the count starts again, the buffer position does not.   *)
InitKeepsPtr == trix' = 0 /\ UNCHANGED ptr

parser_init == ptr' = 0 /\ trix' = 0

(* *ptr++ = d. The guard ++trix > PARSER_MAX_SIZE_BUF is never true: trix   *)
(* is an unsigned char and the buffer has 1024 bytes.                      *)
parser_collect(d) ==
  /\ trix' = (trix + 1) % 256
  /\ ptr'  = ptr + 1
  /\ tr'   = IF ptr < Len(tr) THEN [tr EXCEPT ![ptr + 1] = d] ELSE Append(tr, d)

parser_chk == SumOf(Frame) = 0

(* tr[1], which is left from an earlier frame when this one has one byte.  *)
get_nseq == IF Len(tr) >= 2 THEN tr[2] ELSE 0

(* Faulty variant: only the numbers expected are remembered.               *)
VerifyKeepsOld(reported) ==
  IF (lastnseq + 1) % 256 = get_nseq
  THEN lastnseq' = get_nseq /\ UNCHANGED gaps
  ELSE gaps' = reported /\ UNCHANGED lastnseq

(* verify_nseq(): reported is what gaps becomes when the number is not the *)
(* one that follows the last.                                              *)
verify_nseq(reported) ==
  /\ gaps' = IF (lastnseq + 1) % 256 = get_nseq THEN gaps ELSE reported
  /\ lastnseq' = get_nseq

(* parser(): unknown events and the configuration record do not take part  *)
(* in the sequence check.                                                  *)
Analyze ==
  /\ accepted' = Append(accepted, Frame)
  /\ IF Known(tr[1]) /\ Numbered(tr[1])
     THEN verify_nseq(gaps \cup {Len(accepted) + 1})
     ELSE UNCHANGED <<lastnseq, gaps>>
  /\ UNCHANGED errors

(* The flag that ends a frame.                                             *)
CloseFrame ==
  \/ trix = 0 /\ UNCHANGED analyzer
  \/ trix > 0 /\ parser_chk /\ Analyze
  \/ trix > 0 /\ ~parser_chk /\ errors' = errors + 1
       /\ UNCHANGED <<lastnseq, accepted, gaps>>

(* Faulty variant: an escaped byte is data, whatever it is.                *)
FlagEscaped(d) ==
  /\ state = "ESCAPING"
  /\ parser_collect(Flip(d)) /\ state' = "COLLECT" /\ UNCHANGED analyzer

(* A flag is never escaped: a new frame starts.                            *)
Escaping(d) ==
  /\ state = "ESCAPING" /\ state' = "COLLECT"
  /\ IF d = RKH_FLG THEN parser_init /\ UNCHANGED tr ELSE parser_collect(Flip(d))
  /\ UNCHANGED analyzer

(* Bytes before the first flag are skipped.                                *)
Waiting(d) ==
  /\ state = "WFLAG"
  /\ IF d = RKH_FLG THEN state' = "COLLECT" /\ parser_init
                    ELSE UNCHANGED <<state, ptr, trix>>
  /\ UNCHANGED <<tr, analyzer>>

Collecting(d) ==
  /\ state = "COLLECT"
  /\ \/ d = RKH_FLG /\ CloseFrame /\ parser_init /\ UNCHANGED <<state, tr>>
     \/ d = RKH_ESC /\ state' = "ESCAPING" /\ UNCHANGED <<tr, ptr, trix, analyzer>>
     \/ d \notin {RKH_FLG, RKH_ESC} /\ parser_collect(d) /\ UNCHANGED <<state, analyzer>>

tzparser_exec(d) == Waiting(d) \/ Collecting(d) \/ Escaping(d)

(* What the byte read is of is noted for the frame it belongs to or ends.  *)
Trace(d) ==
  LET seen == parts \cup {maker[blk]}
  IN  /\ parts'   = IF d = RKH_FLG THEN {} ELSE seen
      /\ origins' = IF accepted' = accepted THEN origins ELSE Append(origins, seen)
      /\ UNCHANGED maker

(* The flush loop reads a byte of its block and passes it on.              *)
Deliver ==
  /\ Ring!FlushByte
  /\ tzparser_exec(trcstm[blk])
  /\ Trace(trcstm[blk])
  /\ UNCHANGED recorder

Next == (\E event \in Events : Record(event)) \/ Put \/ TakeBlock \/ Deliver \/ Restart

Spec == Init /\ [][Next]_vars
-----------------------------------------------------------------------------
TypeOK ==
  /\ Ring!TypeOK
  /\ nseq \in Octet /\ lastnseq \in Octet
  /\ pending \in Seq(Octet)
  /\ state \in {"WFLAG", "COLLECT", "ESCAPING"}
  /\ tr \in Seq(Octet) /\ ptr \in 0 .. Len(tr) /\ trix = ptr % 256
  /\ starts \subseteq 0 .. Len(sent)
  /\ sent \in Seq(Seq(Octet)) /\ accepted \in Seq(Seq(Octet))
  /\ gaps \subseteq DOMAIN accepted
  /\ errors \in Nat
  /\ maker \in [Ring!Index -> 0 .. Len(sent)] /\ parts \subseteq 0 .. Len(sent)
  /\ origins \in [DOMAIN accepted -> SUBSET (0 .. Len(sent))]
  /\ dropped \in BOOLEAN /\ lapped \in BOOLEAN

(* While the ring loses nothing, and is empty when the target starts       *)
(* again, the analyzer gets every record, complete, in order and without   *)
(* a checksum error: the framing is transparent.                           *)
Transparent ==
  ~dropped /\ ~lapped =>
    /\ IsPrefix(accepted, sent) /\ errors = 0
    /\ Drained => accepted = sent

(* "Instantaneous resynchronization": whatever the ring has lost before    *)
(* it, and wherever a start has cut the last record before, the latest     *)
(* record of a run is understood.                                          *)
LatestUnderstood ==
  Drained /\ ~lapped /\ Len(sent) > Max(starts) =>
    accepted # <<>> /\ Last(accepted) = Last(sent)

Counted(n) == Numbered(sent[n][1])

(* How many numbered records of the same run come before the n-th record.  *)
Serial(n) ==
  Cardinality({m \in Max({s \in starts : s < n}) + 1 .. n - 1 : Counted(m)})

(* The records of which the i-th frame accepted has bytes and to which it  *)
(* is equal.                                                               *)
Taken(i) == {n \in origins[i] \cap DOMAIN sent : accepted[i] = sent[n]}

(* No frame put together from pieces passes the checksum as another        *)
(* record.                                                                 *)
Genuine == \A i \in DOMAIN accepted : Taken(i) # {}

Position(i) == CHOOSE n \in Taken(i) : TRUE

Verified == {i \in DOMAIN accepted : Known(accepted[i][1]) /\ Numbered(accepted[i][1])}

(* Provided no frame is taken for another one, "may have lost trace info"  *)
(* is reported exactly at those records before which a numbered record is  *)
(* missing, be it lost or unknown to the analyzer (but not at those before *)
(* which 256 of them are, or a multiple: the number is a byte).  Across a  *)
(* start, which the analyzer does not reckon with, it is reported unless   *)
(* the number happens to be the next one: also when nothing is missing.    *)
GapsReported ==
  ~lapped /\ Genuine =>
    \A i \in Verified :
      LET before == {Position(j) : j \in {k \in Verified : k < i}}
      IN  i \in gaps <=>
            Serial(Position(i)) % 256
              # (IF before = {} THEN 0 ELSE Serial(Max(before)) + 1) % 256
=============================================================================
