------------------------ MODULE TraceFilter_proofs ------------------------
(***************************************************************************)
(* The calls of TraceFilter switch like those of EventFilter for every     *)
(* layout of the tables that satisfies LayoutAssumption, every set of      *)
(* events and any calls.  The initial states differ, see TraceFilter.      *)
(*                                                                         *)
(* What carries the proof is that two events never share a bit, and that   *)
(* the bytes of a group hold the bits of its events and of no others.      *)
(***************************************************************************)
EXTENDS TraceFilter, TLAPS

(* TypeOK says nothing of what simtbl is beyond its values: a function.    *)
IInv == TypeOK /\ simtbl = [k \in Kind |-> simtbl[k]]

(* An event is its group and its number in the group.                      *)
LEMMA EventParts ==
  ASSUME NEW e \in Event
  PROVE  /\ e \in 0 .. 255
         /\ GETGRP(e) \in TraceGroup
         /\ GETEVT(e) \in 0 .. 31
         /\ e = 32 * GETGRP(e) + GETEVT(e)
         /\ BitOf(e) \in Bit
BY FilterAssumption DEF GETGRP, GETEVT, TraceGroup, BitOf, Bit

(* The byte of an event lies among those of its group, within the table.   *)
LEMMA ByteInGroup ==
  ASSUME NEW e \in Event
  PROVE  /\ ByteOf(e) \in Offset[GETGRP(e)] .. Offset[GETGRP(e)] + Range[GETGRP(e)] - 1
         /\ ByteOf(e) \in 0 .. Bytes - 1
<1> DEFINE g == GETGRP(e)
           n == GETEVT(e)
<1>1. g \in TraceGroup /\ n \in Nat
  BY EventParts
<1>2. Offset[g] \in Nat /\ Range[g] \in Nat /\ Bytes \in Nat
  BY <1>1, FilterAssumption
<1>3. n < 8 * Range[g] /\ Offset[g] + Range[g] <= Bytes
  BY <1>1, LayoutAssumption
<1> HIDE DEF g, n
<1>4. n \div 8 \in 0 .. Range[g] - 1
  BY <1>1, <1>2, <1>3
<1> QED
  BY <1>2, <1>3, <1>4 DEF ByteOf, g, n

(* The bytes of a group hold no event of another.                          *)
LEMMA GroupOfByte ==
  ASSUME NEW e \in Event, NEW h \in TraceGroup,
         ByteOf(e) \in Offset[h] .. Offset[h] + Range[h] - 1
  PROVE  GETGRP(e) = h
<1> DEFINE g == GETGRP(e)
<1>1. g \in TraceGroup /\ ByteOf(e) \in Offset[g] .. Offset[g] + Range[g] - 1
  BY EventParts, ByteInGroup
<1>2. /\ Offset[g] \in Nat /\ Range[g] \in Nat
      /\ Offset[h] \in Nat /\ Range[h] \in Nat
  BY <1>1, FilterAssumption
<1>3. /\ g < h => Offset[g] + Range[g] <= Offset[h]
      /\ h < g => Offset[h] + Range[h] <= Offset[g]
  BY <1>1, LayoutAssumption
<1> HIDE DEF g
<1>4. ~(g < h) /\ ~(h < g)
  BY <1>1, <1>2, <1>3
<1> QED
  BY <1>1, <1>4 DEF g, TraceGroup

(* No two events share a bit.                                              *)
LEMMA EventsApart ==
  ASSUME NEW e \in Event, NEW f \in Event, ByteOf(e) = ByteOf(f), BitOf(e) = BitOf(f)
  PROVE  e = f
<1>1. GETGRP(e) = GETGRP(f)
  BY EventParts, ByteInGroup, GroupOfByte
<1>2. Offset[GETGRP(e)] \in Nat /\ GETEVT(e) \in Nat /\ GETEVT(f) \in Nat
  BY EventParts, FilterAssumption
<1> DEFINE m == GETEVT(e)
           n == GETEVT(f)
           o == Offset[GETGRP(e)]
<1>3. o + (m \div 8) = o + (n \div 8) /\ m % 8 = n % 8
  BY <1>1 DEF ByteOf, BitOf
<1> HIDE DEF m, n, o
<1>4. m = n
  BY <1>2, <1>3 DEF m, n, o
<1> QED
  BY <1>1, <1>4, EventParts DEF m, n

(* Nor do two slots of a table.                                            *)
LEMMA SlotsApart ==
  ASSUME NEW n \in Nat, NEW s \in 0 .. 8 * n - 1
  PROVE  /\ s \div 8 \in 0 .. n - 1 /\ s % 8 \in Bit
         /\ \A r \in 0 .. 8 * n - 1 : r \div 8 = s \div 8 /\ r % 8 = s % 8 => r = s
BY DEF Bit
-----------------------------------------------------------------------------
(* The invariant.                                                          *)

LEMMA InitIInv == Init => IInv
BY DEF Init, IInv, TypeOK

(* A call about groups or events leaves the tables of the shape they had.  *)
LEMMA TablesIInv ==
  ASSUME IInv, UNCHANGED simtbl,
         trcgfilter' \subseteq TraceGroup, trceftbl' \in [0 .. Bytes - 1 -> SUBSET Bit]
  PROVE  IInv'
BY DEF IInv, TypeOK

LEMMA SimfilIInv ==
  ASSUME IInv, NEW ctrl \in Control, NEW k \in Kind, rkh_trc_simfil(ctrl, k)
  PROVE  IInv'
<1>1. Fill(ctrl) \subseteq Bit /\ Size[k] \in Nat
  BY FilterAssumption DEF Fill
<1>2. ASSUME NEW tbl \in [0 .. Size[k] - 1 -> SUBSET Bit], simtbl' = [simtbl EXCEPT ![k] = tbl]
      PROVE  IInv'
  BY <1>2 DEF IInv, TypeOK, rkh_trc_simfil
<1>3. CASE AllSlots(ctrl, k)
  BY <1>1, <1>2, <1>3 DEF AllSlots
<1>4. ASSUME NEW slot \in SlotArg[k], OneSlot(ctrl, k, slot) PROVE IInv'
  <2>1. slot \div 8 \in 0 .. Size[k] - 1 /\ slot % 8 \in Bit
    BY <1>1, FilterAssumption, SlotsApart
  <2>2. Switched(simtbl[k][slot \div 8], {slot % 8}, ctrl) \in SUBSET Bit
    BY <2>1 DEF IInv, TypeOK, Switched
  <2>3. [simtbl[k] EXCEPT ![slot \div 8] = Switched(@, {slot % 8}, ctrl)]
          \in [0 .. Size[k] - 1 -> SUBSET Bit]
    BY <2>1, <2>2 DEF IInv, TypeOK
  <2>4. simtbl' = [simtbl EXCEPT ![k] =
                     [simtbl[k] EXCEPT ![slot \div 8] = Switched(@, {slot % 8}, ctrl)]]
    BY <1>4 DEF OneSlot
  <2> QED BY <1>2, <2>3, <2>4
<1> QED BY <1>3, <1>4 DEF rkh_trc_simfil

LEMMA NextIInv == IInv /\ [Next]_vars => IInv'
<1> SUFFICES ASSUME IInv, [Next]_vars PROVE IInv'
  OBVIOUS
<1>1. ASSUME NEW ctrl \in Control, AllGroups(ctrl), UNCHANGED simtbl PROVE IInv'
  BY <1>1, TablesIInv DEF AllGroups, Switched, IInv, TypeOK
<1>2. ASSUME NEW ctrl \in Control, NEW grp \in GroupArg, NEW mode \in {"ECHANGE", "EUNCHANGE"},
             rkh_trc_filter_group_(ctrl, grp, mode)
      PROVE  IInv'
  <2>1. trceftbl' \in [0 .. Bytes - 1 -> SUBSET Bit]
    BY <1>2 DEF rkh_trc_filter_group_, OneGroup, Fill, IInv, TypeOK
  <2> QED BY <1>2, <2>1, TablesIInv, FilterAssumption
          DEF rkh_trc_filter_group_, OneGroup, Switched, IInv, TypeOK
<1>3. ASSUME NEW ctrl \in Control, NEW evt \in EventArg, rkh_trc_filter_event_(ctrl, evt)
      PROVE  IInv'
  <2>1. CASE evt = RKH_TE_NEVENT
    <3>1. AllEvents(ctrl) /\ UNCHANGED simtbl
      BY <1>3, <2>1 DEF rkh_trc_filter_event_
    <3> QED BY <3>1, TablesIInv DEF AllEvents, Fill, Switched, IInv, TypeOK
  <2>2. CASE evt # RKH_TE_NEVENT
    <3>1. OneEvent(ctrl, evt) /\ UNCHANGED simtbl
      BY <1>3, <2>2 DEF rkh_trc_filter_event_
    <3>2. BitOf(evt) \in Bit /\ ByteOf(evt) \in 0 .. Bytes - 1 /\ GETGRP(evt) \in TraceGroup
      BY <2>2, EventParts, ByteInGroup, FilterAssumption
    <3>3. Switched(trceftbl[ByteOf(evt)], {BitOf(evt)}, ctrl) \in SUBSET Bit
      BY <3>2 DEF Switched, IInv, TypeOK
    <3>4. trceftbl' \in [0 .. Bytes - 1 -> SUBSET Bit]
      BY <3>1, <3>2, <3>3 DEF OneEvent, IInv, TypeOK
    <3> QED BY <3>1, <3>2, <3>4, TablesIInv DEF OneEvent, IInv, TypeOK
  <2> QED BY <2>1, <2>2
<1>4. ASSUME NEW ctrl \in Control, NEW k \in Kind, rkh_trc_simfil(ctrl, k) PROVE IInv'
  BY <1>4, SimfilIInv
<1>5. CASE UNCHANGED vars
  BY <1>5 DEF vars, IInv, TypeOK
<1> QED BY <1>1, <1>2, <1>3, <1>4, <1>5 DEF Next

THEOREM Invariance == Spec => []IInv
BY InitIInv, NextIInv, PTL DEF Spec

(* No call writes outside the tables, whatever their layout: every byte    *)
(* index stays in range and every byte keeps eight bits.                   *)
THEOREM TypeCorrect == Spec => []TypeOK
BY Invariance, PTL DEF IInv
-----------------------------------------------------------------------------
(* The refinement: off(ctrl) is what EventFilter is told.                  *)

off(ctrl) == ctrl = "FILTER_OFF"

(* As long as simtbl stays, so do the filters of active objects and        *)
(* signals.                                                                *)
LEMMA SlotsKept == UNCHANGED simtbl => UNCHANGED slotset
BY DEF slotset, SlotIsOff

LEMMA AllGroupsRefine ==
  ASSUME IInv, NEW ctrl \in Control, AllGroups(ctrl), UNCHANGED simtbl
  PROVE  Abstract!SwitchGroups(TraceGroup, off(ctrl))
<1>1. UNCHANGED eventset
  BY DEF AllGroups, eventset
<1> QED BY <1>1, SlotsKept DEF AllGroups, Abstract!SwitchGroups, Switched, Abstract!Switched, off

(* The bytes of the group are filled, which hold the bits of its events    *)
(* and of no others.                                                       *)
LEMMA OneGroupRefines ==
  ASSUME IInv, NEW ctrl \in Control, NEW grp \in TraceGroup,
         NEW mode \in {"ECHANGE", "EUNCHANGE"}, rkh_trc_filter_group_(ctrl, grp, mode)
  PROVE  \/ Abstract!SwitchGroups({grp}, off(ctrl))
         \/ Abstract!SwitchGroupEvents(grp, off(ctrl))
<1>1. trcgfilter' = Abstract!Switched(trcgfilter, {grp}, off(ctrl)) /\ UNCHANGED slotset
  BY SlotsKept DEF rkh_trc_filter_group_, OneGroup, Switched, Abstract!Switched, off
<1>2. CASE mode = "EUNCHANGE"
  <2>1. \A e \in Event : trceftbl'[ByteOf(e)] = trceftbl[ByteOf(e)]
    BY <1>2, ByteInGroup DEF rkh_trc_filter_group_, OneGroup
  <2>2. UNCHANGED eventset
    BY <2>1 DEF eventset
  <2> QED BY <1>1, <2>2 DEF Abstract!SwitchGroups
<1>3. CASE mode = "ECHANGE"
  <2>1. \A e \in Event : BitOf(e) \in trceftbl'[ByteOf(e)] <=>
                           IF GETGRP(e) = grp THEN off(ctrl) ELSE BitOf(e) \in trceftbl[ByteOf(e)]
    <3> SUFFICES ASSUME NEW e \in Event
                 PROVE  BitOf(e) \in trceftbl'[ByteOf(e)] <=>
                          IF GETGRP(e) = grp THEN off(ctrl) ELSE BitOf(e) \in trceftbl[ByteOf(e)]
      OBVIOUS
    <3>1. ByteOf(e) \in 0 .. Bytes - 1 /\ BitOf(e) \in Bit
      BY ByteInGroup, EventParts
    <3>2. ByteOf(e) \in Offset[grp] .. Offset[grp] + Range[grp] - 1 <=> GETGRP(e) = grp
      BY ByteInGroup, GroupOfByte
    <3> QED BY <1>3, <3>1, <3>2 DEF rkh_trc_filter_group_, OneGroup, Fill, off
  <2>2. eventset' = Abstract!Switched(eventset, {e \in Event : GETGRP(e) = grp}, off(ctrl))
    BY <2>1 DEF eventset, Abstract!Switched
  <2>3. {e \in Event : [f \in Event |-> GETGRP(f)][e] = grp} = {e \in Event : GETGRP(e) = grp}
    OBVIOUS
  <2> QED BY <1>1, <2>2, <2>3 DEF Abstract!SwitchGroupEvents
<1> QED BY <1>2, <1>3

LEMMA AllEventsRefine ==
  ASSUME IInv, NEW ctrl \in Control, AllEvents(ctrl), UNCHANGED simtbl
  PROVE  Abstract!SwitchAllEvents(off(ctrl))
<1>1. \A e \in Event : BitOf(e) \in trceftbl'[ByteOf(e)] <=> off(ctrl)
  BY ByteInGroup, EventParts DEF AllEvents, Fill, off
<1>2. eventset' = Abstract!Switched(eventset, Event, off(ctrl))
  BY <1>1 DEF eventset, Abstract!Switched
<1> QED BY <1>2, SlotsKept DEF AllEvents, Abstract!SwitchAllEvents, Switched, Abstract!Switched, off

(* One bit is written, which is that of no other event.                    *)
LEMMA OneEventRefines ==
  ASSUME IInv, NEW ctrl \in Control, NEW evt \in Event, OneEvent(ctrl, evt), UNCHANGED simtbl
  PROVE  Abstract!SwitchEvent(evt, off(ctrl))
<1>1. ASSUME NEW e \in Event
      PROVE  BitOf(e) \in trceftbl'[ByteOf(e)] <=>
               IF e = evt THEN off(ctrl) ELSE BitOf(e) \in trceftbl[ByteOf(e)]
  <2>1. ByteOf(e) \in 0 .. Bytes - 1 /\ ByteOf(evt) \in 0 .. Bytes - 1
    BY ByteInGroup
  <2>2. trceftbl'[ByteOf(e)] = IF ByteOf(e) = ByteOf(evt)
                               THEN Switched(trceftbl[ByteOf(e)], {BitOf(evt)}, ctrl)
                               ELSE trceftbl[ByteOf(e)]
    BY <2>1 DEF OneEvent, IInv, TypeOK
  <2>3. ByteOf(e) = ByteOf(evt) /\ BitOf(e) = BitOf(evt) <=> e = evt
    BY EventsApart
  <2> QED BY <2>2, <2>3 DEF Switched, off
<1>2. eventset' = Abstract!Switched(eventset, {evt}, off(ctrl))
  BY <1>1 DEF eventset, Abstract!Switched
<1> QED BY <1>2, SlotsKept DEF OneEvent, Abstract!SwitchEvent, off

(* One table of active objects or signals is written.                      *)
LEMMA SimfilRefines ==
  ASSUME IInv, NEW ctrl \in Control, NEW k \in Kind, NEW S \in SUBSET SlotOf[k],
         UNCHANGED <<trcgfilter, trceftbl>>,
         \A j \in Kind \ {k} : simtbl'[j] = simtbl[j],
         \A s \in SlotOf[k] : SlotIsOff(k, s)' <=>
                                 IF s \in S THEN off(ctrl) ELSE SlotIsOff(k, s)
  PROVE  Abstract!SwitchSlots(k, S, off(ctrl))
<1>1. UNCHANGED eventset
  BY DEF eventset
<1>2. slotset'[k] = Abstract!Switched(slotset[k], S, off(ctrl))
  BY DEF slotset, Abstract!Switched
<1>3. \A j \in Kind \ {k} : slotset'[j] = slotset[j]
  BY DEF slotset, SlotIsOff
<1>4. slotset' = [slotset EXCEPT ![k] = Abstract!Switched(@, S, off(ctrl))]
  BY <1>2, <1>3 DEF slotset
<1> QED BY <1>1, <1>4 DEF Abstract!SwitchSlots

LEMMA AllSlotsRefine ==
  ASSUME IInv, NEW ctrl \in Control, NEW k \in Kind, AllSlots(ctrl, k),
         UNCHANGED <<trcgfilter, trceftbl>>
  PROVE  Abstract!SwitchSlots(k, SlotOf[k], off(ctrl))
<1>1. ASSUME NEW s \in SlotOf[k] PROVE SlotIsOff(k, s)' <=> off(ctrl)
  <2>1. s \div 8 \in 0 .. Size[k] - 1 /\ s % 8 \in Bit
    BY FilterAssumption, SlotsApart DEF SlotOf
  <2> QED BY <2>1 DEF AllSlots, SlotIsOff, IInv, TypeOK, Fill, off
<1>2. \A j \in Kind \ {k} : simtbl'[j] = simtbl[j]
  BY DEF AllSlots, IInv
<1> QED BY <1>1, <1>2, SimfilRefines

LEMMA OneSlotRefines ==
  ASSUME IInv, NEW ctrl \in Control, NEW k \in Kind, NEW slot \in SlotArg[k],
         OneSlot(ctrl, k, slot), UNCHANGED <<trcgfilter, trceftbl>>
  PROVE  slot \in SlotOf[k] /\ Abstract!SwitchSlots(k, {slot}, off(ctrl))
<1>1. Size[k] \in Nat /\ slot \in SlotOf[k]
  BY FilterAssumption DEF SlotOf
<1>2. simtbl'[k] = [simtbl[k] EXCEPT ![slot \div 8] = Switched(@, {slot % 8}, ctrl)]
  BY DEF OneSlot, IInv
<1>3. ASSUME NEW s \in SlotOf[k]
      PROVE  SlotIsOff(k, s)' <=> IF s \in {slot} THEN off(ctrl) ELSE SlotIsOff(k, s)
  <2>1. /\ s \div 8 \in 0 .. Size[k] - 1 /\ slot \div 8 \in 0 .. Size[k] - 1
        /\ s \div 8 = slot \div 8 /\ s % 8 = slot % 8 => s = slot
    BY <1>1, SlotsApart DEF SlotOf
  <2>2. simtbl'[k][s \div 8] = IF s \div 8 = slot \div 8
                               THEN Switched(simtbl[k][s \div 8], {slot % 8}, ctrl)
                               ELSE simtbl[k][s \div 8]
    BY <1>2, <2>1 DEF IInv, TypeOK
  <2> QED BY <2>1, <2>2 DEF SlotIsOff, Switched, off
<1>4. \A j \in Kind \ {k} : simtbl'[j] = simtbl[j]
  BY DEF OneSlot, IInv
<1> QED BY <1>1, <1>3, <1>4, SimfilRefines

(* Every call is one call of the abstract filters, or a stutter.           *)
LEMMA NextRefines == IInv /\ [Next]_vars => [Abstract!Next]_(Abstract!fvars)
<1> SUFFICES ASSUME IInv, [Next]_vars PROVE [Abstract!Next]_(Abstract!fvars)
  OBVIOUS
<1> USE DEF Abstract!Next
<1>1. ASSUME NEW ctrl \in Control, AllGroups(ctrl), UNCHANGED simtbl PROVE Abstract!Next
  <2>1. off(ctrl) \in BOOLEAN /\ Abstract!SwitchGroups(TraceGroup, off(ctrl))
    BY <1>1, AllGroupsRefine DEF off
  <2> QED BY <2>1
<1>2. ASSUME NEW ctrl \in Control, NEW grp \in GroupArg, NEW mode \in {"ECHANGE", "EUNCHANGE"},
             rkh_trc_filter_group_(ctrl, grp, mode)
      PROVE  Abstract!Next
  <2>1. /\ off(ctrl) \in BOOLEAN /\ grp \in TraceGroup
        /\ Abstract!SwitchGroups({grp}, off(ctrl)) \/ Abstract!SwitchGroupEvents(grp, off(ctrl))
    BY <1>2, OneGroupRefines, FilterAssumption DEF off
  <2> QED BY <2>1
<1>3. ASSUME NEW ctrl \in Control, NEW evt \in EventArg, rkh_trc_filter_event_(ctrl, evt)
      PROVE  Abstract!Next
  <2>1. CASE evt = RKH_TE_NEVENT
    <3>1. off(ctrl) \in BOOLEAN /\ Abstract!SwitchAllEvents(off(ctrl))
      BY <1>3, <2>1, AllEventsRefine DEF off, rkh_trc_filter_event_
    <3> QED BY <3>1
  <2>2. CASE evt # RKH_TE_NEVENT
    <3>1. evt \in Event
      BY <2>2, FilterAssumption
    <3>2. off(ctrl) \in BOOLEAN /\ Abstract!SwitchEvent(evt, off(ctrl))
      BY <1>3, <2>2, <3>1, OneEventRefines DEF off, rkh_trc_filter_event_
    <3> QED BY <3>1, <3>2
  <2> QED BY <2>1, <2>2
<1>4. ASSUME NEW ctrl \in Control, NEW k \in Kind, rkh_trc_simfil(ctrl, k) PROVE Abstract!Next
  <2>1. CASE AllSlots(ctrl, k)
    <3>1. off(ctrl) \in BOOLEAN /\ Abstract!SwitchSlots(k, SlotOf[k], off(ctrl))
      BY <1>4, <2>1, AllSlotsRefine DEF off, rkh_trc_simfil
    <3> QED BY <3>1
  <2>2. ASSUME NEW slot \in SlotArg[k], OneSlot(ctrl, k, slot) PROVE Abstract!Next
    <3>1. /\ off(ctrl) \in BOOLEAN /\ slot \in SlotOf[k]
          /\ Abstract!SwitchSlots(k, {slot}, off(ctrl))
      BY <1>4, <2>2, OneSlotRefines DEF off, rkh_trc_simfil
    <3> QED BY <3>1
  <2> QED BY <1>4, <2>1, <2>2 DEF rkh_trc_simfil
<1>5. CASE UNCHANGED vars
  BY <1>5, SlotsKept DEF vars, eventset, Abstract!fvars
<1> QED BY <1>1, <1>2, <1>3, <1>4, <1>5 DEF Next

(* Packing the filters into the bits of tables is invisible: every call    *)
(* switches what it is about and leaves every other event, group, active   *)
(* object and signal as it was.                                            *)
THEOREM Refinement == Spec => SwitchesLikeEventFilter
BY NextRefines, Invariance, PTL DEF Spec, SwitchesLikeEventFilter, Abstract!Switching
=============================================================================
