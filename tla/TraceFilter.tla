---------------------------- MODULE TraceFilter ----------------------------
(***************************************************************************)
(* The runtime filters of source/rkhtrc.cpp.  A record is made when the    *)
(* bits of its group, of its event, of its active object and of its signal *)
(* are set; FILTER_OFF sets bits and FILTER_ON clears them.                *)
(*                                                                         *)
(* The events' bits are packed: each group has its bytes in trceftbl, from *)
(* an offset on that trcgmtbl gives, and GETEVT(e) counts bits from there. *)
(***************************************************************************)
EXTENDS TraceEvents, FiniteSets

CONSTANTS
  Offset,     \* RKH_MP_TTBL_OFFSET .. RKH_UT_TTBL_OFFSET
  Range,      \* RKH_MP_TTBL_RANGE .. RKH_UT_TTBL_RANGE, in bytes
  Bytes,      \* RKH_TRC_MAX_EVENTS_IN_BYTES
  Event,      \* the RKH_TE_<group>_<event> identifiers
  Kind,       \* the tables fsma and fsig
  Size,       \* Size[k]: bytes of table k
  GroupArg,   \* groups that the filters are called with
  EventArg,   \* events that they are called with
  SlotArg     \* SlotArg[k]: priorities or signals

ASSUME FilterAssumption ==
  /\ Event \subseteq 0 .. 255 /\ RKH_TE_NEVENT \notin Event
  /\ Offset \in [TraceGroup -> Nat] /\ Range \in [TraceGroup -> Nat] /\ Bytes \in Nat
  /\ Size \in [Kind -> Nat]
  /\ GroupArg \subseteq TraceGroup /\ EventArg \subseteq Event \cup {RKH_TE_NEVENT}
  /\ \A k \in Kind : SlotArg[k] \subseteq 0 .. 8 * Size[k] - 1

(* The layout of trceftbl: the bytes of different groups are disjoint and  *)
(* each group has a bit for each of its events.                            *)
ASSUME LayoutAssumption ==
  /\ \A g \in TraceGroup : Offset[g] + Range[g] <= Bytes
  /\ \A g, h \in TraceGroup : g < h => Offset[g] + Range[g] <= Offset[h]
  /\ \A e \in Event : GETEVT(e) < 8 * Range[GETGRP(e)]

VARIABLES
  trcgfilter,  \* groups whose bit is set
  trceftbl,    \* trceftbl[i]: the bits set in byte i
  simtbl       \* simtbl[k][i]: the bits set in byte i of table k

vars == <<trcgfilter, trceftbl, simtbl>>

Bit == 0 .. 7

Control == {"FILTER_ON", "FILTER_OFF"}

Switched(S, X, ctrl) == IF ctrl = "FILTER_OFF" THEN S \cup X ELSE S \ X

(* 0xFF or 0                                                               *)
Fill(ctrl) == IF ctrl = "FILTER_OFF" THEN Bit ELSE {}
-----------------------------------------------------------------------------
(* Where the bit of event e lies.                                          *)
ByteOf(e) == Offset[GETGRP(e)] + GETEVT(e) \div 8

(* Faulty variant: the number of the event is taken for that of its bit.   *)
UnmaskedBit(e) == GETEVT(e)

BitOf(e) == GETEVT(e) % 8

rkh_trc_isoff_(e) == GETGRP(e) \in trcgfilter /\ BitOf(e) \in trceftbl[ByteOf(e)]

(* rkh_trc_simfil_isoff()                                                  *)
SlotIsOff(k, slot) == slot % 8 \in simtbl[k][slot \div 8]

(* RKH_TRC_BEGIN(e, prio, sig): the record is made.                        *)
Emits(e, slot) == rkh_trc_isoff_(e) /\ \A k \in Kind : SlotIsOff(k, slot[k])

(* The tables are static and nothing initialises them.                     *)
Init ==
  /\ trcgfilter = {}
  /\ trceftbl = [i \in 0 .. Bytes - 1 |-> {}]
  /\ simtbl = [k \in Kind |-> [i \in 0 .. Size[k] - 1 |-> {}]]

(* grp is RKH_TRC_ALL_GROUPS; mode is not looked at.                       *)
AllGroups(ctrl) ==
  trcgfilter' = Switched(trcgfilter, TraceGroup, ctrl) /\ UNCHANGED trceftbl

OneGroup(ctrl, grp, mode) ==
  /\ trcgfilter' = Switched(trcgfilter, {grp}, ctrl)
  /\ trceftbl' =
       [i \in 0 .. Bytes - 1 |->
         IF mode = "ECHANGE" /\ i \in Offset[grp] .. Offset[grp] + Range[grp] - 1
         THEN Fill(ctrl) ELSE trceftbl[i]]

rkh_trc_filter_group_(ctrl, grp, mode) ==
  OneGroup(ctrl, grp, mode) /\ UNCHANGED simtbl

(* evt is RKH_TRC_ALL_EVENTS, which is RKH_TE_NEVENT.                      *)
AllEvents(ctrl) ==
  /\ trceftbl' = [i \in 0 .. Bytes - 1 |-> Fill(ctrl)]
  /\ trcgfilter' = Switched(trcgfilter, TraceGroup, ctrl)

(* Faulty variant: the group's bit is left alone.                          *)
EventAlone(ctrl, evt) ==
  /\ trceftbl' = [trceftbl EXCEPT ![ByteOf(evt)] = Switched(@, {BitOf(evt)}, ctrl)]
  /\ UNCHANGED trcgfilter

OneEvent(ctrl, evt) ==
  /\ trceftbl' = [trceftbl EXCEPT ![ByteOf(evt)] = Switched(@, {BitOf(evt)}, ctrl)]
  /\ trcgfilter' = IF ctrl = "FILTER_OFF" THEN trcgfilter \cup {GETGRP(evt)} ELSE trcgfilter

rkh_trc_filter_event_(ctrl, evt) ==
  /\ IF evt = RKH_TE_NEVENT THEN AllEvents(ctrl) ELSE OneEvent(ctrl, evt)
  /\ UNCHANGED simtbl

(* rkh_trc_simfil() with RKH_TRC_ALL_FILTERS and without.                  *)
AllSlots(ctrl, k) ==
  simtbl' = [simtbl EXCEPT ![k] = [i \in 0 .. Size[k] - 1 |-> Fill(ctrl)]]

OneSlot(ctrl, k, slot) ==
  simtbl' = [simtbl EXCEPT ![k][slot \div 8] = Switched(@, {slot % 8}, ctrl)]

rkh_trc_simfil(ctrl, k) ==
  /\ AllSlots(ctrl, k) \/ \E slot \in SlotArg[k] : OneSlot(ctrl, k, slot)
  /\ UNCHANGED <<trcgfilter, trceftbl>>

Next ==
  \E ctrl \in Control :
    \/ AllGroups(ctrl) /\ UNCHANGED simtbl
    \/ \E grp \in GroupArg, mode \in {"ECHANGE", "EUNCHANGE"} :
         rkh_trc_filter_group_(ctrl, grp, mode)
    \/ \E evt \in EventArg : rkh_trc_filter_event_(ctrl, evt)
    \/ \E k \in Kind : rkh_trc_simfil(ctrl, k)

Spec == Init /\ [][Next]_vars
-----------------------------------------------------------------------------
TypeOK ==
  /\ trcgfilter \subseteq TraceGroup
  /\ trceftbl \in [0 .. Bytes - 1 -> SUBSET Bit]
  /\ DOMAIN simtbl = Kind
  /\ \A k \in Kind : simtbl[k] \in [0 .. Size[k] - 1 -> SUBSET Bit]

(* The sets that the bits stand for.                                       *)
SlotOf   == [k \in Kind |-> 0 .. 8 * Size[k] - 1]
eventset == {e \in Event : BitOf(e) \in trceftbl[ByteOf(e)]}
slotset  == [k \in Kind |-> {s \in SlotOf[k] : SlotIsOff(k, s)}]

Abstract ==
  INSTANCE EventFilter WITH
    Group <- TraceGroup, GroupOf <- [e \in Event |-> GETGRP(e)], Slot <- SlotOf,
    groups <- trcgfilter, events <- eventset, slots <- slotset

(* Packing the filters into bits is invisible in the calls: each switches  *)
(* what it is about and touches the bit of no other event, signal or       *)
(* active object.                                                          *)
SwitchesLikeEventFilter == Abstract!Switching

(* It is as trkhtrc.h describes it from the start on, when nothing is      *)
(* filtered.  Does not hold: the tables are zero, a clear bit suppresses   *)
(* and rkh_trc_init() does not touch them, so that at first everything is. *)
ImplementsEventFilter == Abstract!Spec
=============================================================================
