------------------------------ MODULE RespTime ------------------------------
(***************************************************************************)
(* The response times that Trazer shows.  When an active object takes an   *)
(* event from its queue, h_sma_get() of source/tzparse.cpp shows the time  *)
(* since the event was posted.  The record of the post does not say which  *)
(* event it is about: source/rtimtbl.cpp keeps a queue of posts for every  *)
(* active object, meant to follow the one in the target, and a loss of     *)
(* records, noticed by the sequence number, suspends it until the target   *)
(* starts again.                                                           *)
(*                                                                         *)
(* The target's queues are those of the RKH kernel, which is not in the    *)
(* repository; the recorder macros of source/include/rkh/trkhtrc.h say     *)
(* that a post is recorded in the critical section that makes it and a get *)
(* in one of its own, after the event has left the queue.  Records travel  *)
(* whole; the stream keeps the latest ones (TraceLink has the bytes).      *)
(*                                                                         *)
(* An event's uid stands for the timestamp of its post, so that the time   *)
(* shown is right when it was taken from the post of that very event.  The *)
(* number that is shown with it is left out: rtimtbl.cpp gives it to the   *)
(* post and hands it over together with the timestamp.                     *)
(***************************************************************************)
EXTENDS Integers, Sequences

CONSTANTS
  AO,         \* active objects
  Signal,     \* signals of events
  Ways,       \* how events are posted: a subset of {"FIFO", "LIFO"}
  NSEQ,       \* sequence numbers a record can have: 256, those of rui8_t
  Capacity,   \* records the stream holds
  MaxRecords, \* bound on the numbered records of a run
  MaxBoots    \* bound on the starts of the target

ASSUME RespTimeAssumption ==
  /\ Ways \subseteq {"FIFO", "LIFO"}
  /\ {NSEQ, Capacity, MaxRecords, MaxBoots} \subseteq Nat \ {0}

VARIABLES
  \* the target
  queue,        \* queue[ao]: the events posted to ao and not taken
  taken,        \* taken[ao]: the event taken by ao, when not yet recorded
  stream,       \* the records under way, oldest first
  boot,         \* starts of the target (history variable)
  serial,       \* numbered records made since the start
  posted,       \* events posted so far (history variable)
  recorded,     \* numbered records made so far, in all boots
  \* the analyzer
  lastnseq,     \* number of the last record
  rtime_enable, \* response times are shown
  rt_tbl,       \* rt_tbl[ao]: the posts known to it
  report,       \* the last get, and the post its time was taken from
  \* history variables
  lost,         \* the stream has dropped a record
  last,         \* boot and serial of the last record analyzed
  unnoticed     \* a loss of records has gone unnoticed

target   == <<queue, taken, boot, serial, posted, recorded>>
analyzer == <<lastnseq, rtime_enable, rt_tbl, report, last, unnoticed>>
vars     == <<target, stream, lost, analyzer>>

Event  == [uid : Nat \ {0}, sig : Signal]
Record == [kind : {"POST", "GET"}, ao : AO, ev : Event, boot : Nat, serial : Nat]
          \cup [kind : {"OTHER"}, boot : Nat, serial : Nat]
          \cup [kind : {"TCFG"}, boot : Nat]

NoQueues == [ao \in AO |-> <<>>]
NoReport == [uid |-> 0, stamp |-> 0]
-----------------------------------------------------------------------------
(* The configuration record is the first one; it has no number.            *)
Init ==
  /\ queue = NoQueues /\ taken = NoQueues
  /\ stream = <<[kind |-> "TCFG", boot |-> 1]>>
  /\ boot = 1 /\ serial = 0 /\ posted = 0 /\ recorded = 0
  /\ lastnseq = NSEQ - 1 /\ rtime_enable = FALSE
  /\ rt_tbl = NoQueues /\ report = NoReport
  /\ lost = FALSE /\ last = <<0, 0>> /\ unnoticed = FALSE

(* The next numbered record goes into the stream.                          *)
Put(r) ==
  /\ recorded < MaxRecords
  /\ recorded' = recorded + 1 /\ serial' = serial + 1
  /\ stream' = Append(IF Len(stream) = Capacity THEN Tail(stream) ELSE stream, r)
  /\ lost' = (lost \/ Len(stream) = Capacity)
  /\ UNCHANGED <<boot, analyzer>>

(* rkh_sma_post_fifo(), rkh_sma_post_lifo()                                *)
Post(ao, sig, way) ==
  LET ev == [uid |-> posted + 1, sig |-> sig]
  IN  /\ queue' = [queue EXCEPT ![ao] = IF way = "FIFO" THEN Append(@, ev)
                                                        ELSE <<ev>> \o @]
      /\ posted' = posted + 1
      /\ Put([kind |-> "POST", ao |-> ao, ev |-> ev, boot |-> boot, serial |-> serial])
      /\ UNCHANGED taken

(* rkh_sma_get(): the event leaves the queue ...                           *)
Take(ao) ==
  /\ queue[ao] # <<>> /\ taken[ao] = <<>>
  /\ taken' = [taken EXCEPT ![ao] = <<Head(queue[ao])>>]
  /\ queue' = [queue EXCEPT ![ao] = Tail(@)]
  /\ UNCHANGED <<boot, serial, posted, recorded, stream, lost, analyzer>>

(* ... and is recorded afterwards.                                         *)
RecordGet(ao) ==
  /\ taken[ao] # <<>>
  /\ taken' = [taken EXCEPT ![ao] = <<>>]
  /\ Put([kind |-> "GET", ao |-> ao, ev |-> taken[ao][1], boot |-> boot, serial |-> serial])
  /\ UNCHANGED <<queue, posted>>

(* Any other record with a number.                                         *)
RecordOther ==
  /\ Put([kind |-> "OTHER", boot |-> boot, serial |-> serial])
  /\ UNCHANGED <<queue, taken, posted>>

(* The target starts again: rkh_trc_init() empties the stream and sets the *)
(* number to zero, RKH_TRC_SEND_CFG() records the configuration.           *)
Restart ==
  /\ boot < MaxBoots
  /\ boot' = boot + 1 /\ serial' = 0
  /\ queue' = NoQueues /\ taken' = NoQueues
  /\ stream' = <<[kind |-> "TCFG", boot |-> boot + 1]>>
  /\ lost' = (lost \/ stream # <<>>)
  /\ UNCHANGED <<posted, recorded, analyzer>>
-----------------------------------------------------------------------------
(* Faulty variant: the number is not kept in a byte.                       *)
SerialUncut(r) == r.serial

nseq(r) == r.serial % NSEQ

(* What verify_nseq() returns.                                             *)
verify_nseq(r) == (lastnseq + 1) % NSEQ = nseq(r)

(* parser() on a numbered record, before it calls the record's handler:    *)
(* disable_rtime() when the number is not the expected one.                *)
Verify(r) ==
  /\ lastnseq' = nseq(r)
  /\ rtime_enable' = (rtime_enable /\ verify_nseq(r))
  /\ last' = <<r.boot, r.serial + 1>>
  /\ unnoticed' = (unnoticed \/ (verify_nseq(r) /\ last # <<r.boot, r.serial>>))

(* post_fifo_symevt(), called for both ways of posting.                    *)
post_fifo_symevt(r) ==
  /\ rt_tbl' = [rt_tbl EXCEPT ![r.ao] = Append(@, r.ev)]
  /\ UNCHANGED report

(* remove_symevt_tstamp(): the oldest post is used up, also when it is not *)
(* about the same signal; a stamp of 0 stands for rt=-1.                   *)
remove_symevt_tstamp(r) ==
  LET posts == rt_tbl[r.ao]
      found == rtime_enable' /\ posts # <<>>
  IN  /\ rt_tbl' = IF found THEN [rt_tbl EXCEPT ![r.ao] = Tail(@)] ELSE rt_tbl
      /\ report' = [uid |-> r.ev.uid,
                    stamp |-> IF found /\ Head(posts).sig = r.ev.sig
                              THEN Head(posts).uid ELSE 0]

(* Faulty variant: the posts of the last run are not forgotten.            *)
TcfgKeepsTable(r) ==
  /\ rtime_enable' = TRUE
  /\ last' = <<r.boot, 0>>
  /\ UNCHANGED <<rt_tbl, lastnseq, report, unnoticed>>

(* Faulty variant: response times are not shown again.                     *)
TcfgKeepsDisabled(r) ==
  /\ rt_tbl' = NoQueues
  /\ last' = <<r.boot, 0>>
  /\ UNCHANGED <<rtime_enable, lastnseq, report, unnoticed>>

(* proc_tcfg_evt(): clear_rt_tbl(); lastnseq is left alone.                *)
proc_tcfg_evt(r) ==
  /\ rt_tbl' = NoQueues /\ rtime_enable' = TRUE
  /\ last' = <<r.boot, 0>>
  /\ UNCHANGED <<lastnseq, report, unnoticed>>

(* The analyzer gets the oldest record.                                    *)
Analyze ==
  /\ stream # <<>>
  /\ stream' = Tail(stream)
  /\ LET r == Head(stream)
     IN  \/ r.kind = "TCFG"  /\ proc_tcfg_evt(r)
         \/ r.kind = "POST"  /\ Verify(r) /\ post_fifo_symevt(r)
         \/ r.kind = "GET"   /\ Verify(r) /\ remove_symevt_tstamp(r)
         \/ r.kind = "OTHER" /\ Verify(r) /\ UNCHANGED <<rt_tbl, report>>
  /\ UNCHANGED <<target, lost>>

Next ==
  \/ \E ao \in AO :
       \/ \E sig \in Signal, way \in Ways : Post(ao, sig, way)
       \/ Take(ao)
       \/ RecordGet(ao)
  \/ RecordOther
  \/ Restart
  \/ Analyze

Spec == Init /\ [][Next]_vars
-----------------------------------------------------------------------------
TypeOK ==
  /\ queue \in [AO -> Seq(Event)]
  /\ taken \in [AO -> Seq(Event)] /\ \A ao \in AO : Len(taken[ao]) <= 1
  /\ stream \in Seq(Record) /\ Len(stream) <= Capacity
  /\ {boot, serial, posted, recorded} \subseteq Nat
  /\ lastnseq \in 0 .. NSEQ - 1 /\ rtime_enable \in BOOLEAN
  /\ rt_tbl \in [AO -> Seq(Event)]
  /\ report \in [uid : Nat, stamp : Nat]
  /\ last \in Nat \X Nat
  /\ lost \in BOOLEAN /\ unnoticed \in BOOLEAN

(* A time that is shown runs from the post of that very event, whatever    *)
(* the stream has lost and however often the target has started, unless    *)
(* the records lost were a multiple of 256 or were followed by a start, so *)
(* that the next number happened to be the expected one.                   *)
RightTime == ~unnoticed => report.stamp \in {0, report.uid}

(* While nothing is lost and the target has not started again a time is    *)
(* shown for every event.                                                  *)
AllTimed == ~lost /\ last[1] <= 1 => report.stamp = report.uid

(* prj/tests/tzparser/test_rtime.c expects of events that are posted by    *)
(* LIFO what it expects of the others: rt is the time since their post.    *)
RightTimeAnyWay == ~lost => report.stamp \in {0, report.uid}
=============================================================================
