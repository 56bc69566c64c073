--------------------------- MODULE MCTraceFilter ---------------------------
(***************************************************************************)
(* TraceFilter with the layout of trkhtrc.h.  Event holds the last event   *)
(* of each group and events at the edges of bytes.  The calls are about    *)
(* groups 2 and 7, about an event in the second byte of its group and one  *)
(* in the first, about one of eight active objects and one of sixteen      *)
(* signals (the sizes of rkhcfg.h), and about all groups, all events       *)
(* (RKH_TRC_ALL_EVENTS has the value of RKH_TE_NEVENT), all active objects *)
(* and all signals.                                                        *)
(***************************************************************************)
EXTENDS TraceFilter

Offsets == [g \in TraceGroup |-> <<0, 1, 2, 4, 7, 8, 11, 15>>[g + 1]]
Ranges  == [g \in TraceGroup |-> <<1, 1, 2, 3, 1, 3, 4, 2>>[g + 1]]

EventSet == {2, 38, 64, 71, 72, 96, 103, 113, 132, 180, 192, 223, 224, 233}

Kinds     == {"fsma", "fsig"}
TableSize == [k \in Kinds |-> IF k = "fsma" THEN 1 ELSE 2]
Slots     == [k \in Kinds |-> IF k = "fsma" THEN {7} ELSE {8}]

Groups == {2, 7}
Events == {72, 96, RKH_TE_NEVENT}
=============================================================================
