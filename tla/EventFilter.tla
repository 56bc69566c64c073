---------------------------- MODULE EventFilter ----------------------------
(***************************************************************************)
(* What the runtime filters of the recorder promise, read from what is     *)
(* said of rkh_trc_filter_group_(), rkh_trc_filter_event_() and the        *)
(* RKH_FILTER_... macros in source/include/rkh/trkhtrc.h: "The stream is   *)
(* initially created with an empty filter (that is, without filtering any  *)
(* event type)", and from there on groups, events, active objects and      *)
(* signals are switched on and off one by one or all together, and nothing *)
(* else changes with them.  Nothing in it comes from the tables of the     *)
(* implementation, TraceFilter.                                            *)
(*                                                                         *)
(* "Off" is the state in which records are made: nothing is filtered.      *)
(***************************************************************************)
CONSTANTS
  Group, Event,
  GroupOf,   \* GroupOf[e]: the group of event e
  Kind,      \* the other filters: of active objects and of signals
  Slot       \* Slot[k]: what filter k tells apart

VARIABLES
  groups,    \* groups that are recorded
  events,    \* events that are
  slots      \* slots[k]: active objects or signals that are

fvars == <<groups, events, slots>>

(* The empty filter.  The text speaks of events; active objects and signals*)
(* start alike, or else nothing would be recorded.                         *)
Init == groups = Group /\ events = Event /\ slots = [k \in Kind |-> Slot[k]]

(* Membership of X in S is switched.                                       *)
Switched(S, X, off) == IF off THEN S \cup X ELSE S \ X

(* One event; to record it its group is recorded as well.                  *)
SwitchEvent(e, off) ==
  /\ events' = Switched(events, {e}, off)
  /\ groups' = IF off THEN groups \cup {GroupOf[e]} ELSE groups
  /\ UNCHANGED slots

(* All of them.  With all events suppressed no record can tell whether     *)
(* their groups are as well.                                               *)
SwitchAllEvents(off) ==
  /\ events' = Switched(events, Event, off)
  /\ groups' = Switched(groups, Group, off)
  /\ UNCHANGED slots

(* A set of groups, which leaves the choice among their events as it is.   *)
SwitchGroups(G, off) ==
  groups' = Switched(groups, G, off) /\ UNCHANGED <<events, slots>>

(* One group with all its events.                                          *)
SwitchGroupEvents(g, off) ==
  /\ groups' = Switched(groups, {g}, off)
  /\ events' = Switched(events, {e \in Event : GroupOf[e] = g}, off)
  /\ UNCHANGED slots

(* Active objects or signals.                                              *)
SwitchSlots(k, S, off) ==
  /\ slots' = [slots EXCEPT ![k] = Switched(@, S, off)]
  /\ UNCHANGED <<groups, events>>

Next ==
  \E off \in BOOLEAN :
    \/ \E e \in Event : SwitchEvent(e, off)
    \/ SwitchAllEvents(off)
    \/ SwitchGroups(Group, off)
    \/ \E g \in Group : SwitchGroups({g}, off) \/ SwitchGroupEvents(g, off)
    \/ \E k \in Kind :
         SwitchSlots(k, Slot[k], off) \/ \E s \in Slot[k] : SwitchSlots(k, {s}, off)

(* What the calls do, from whatever state.                                 *)
Switching == [][Next]_fvars

Spec == Init /\ [][Next]_fvars
=============================================================================
