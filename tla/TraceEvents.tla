---------------------------- MODULE TraceEvents ----------------------------
(***************************************************************************)
(* Identifiers of trace events (source/include/rkh/trkhtrc.h): three bits  *)
(* for the group and five for the event in its group; and what the         *)
(* analyzer decides by them (source/evtbl.cpp, source/tzparse.cpp).        *)
(***************************************************************************)
EXTENDS Integers

GETGRP(e) == e \div 32
GETEVT(e) == e % 32

RKH_TG_USR      == 6
RKH_TE_FWK_TCFG == 172

(* RKH_UT_END + 1; the answers of UnitTrazer lie beyond it.                *)
RKH_TE_NEVENT   == 232

RKH_TE_UT_SUCCESS == 232
RKH_TE_UT_FAIL    == 233

TraceGroup == 0 .. 7

(* The number of events tgroups_tbl[] has for each group but the user's.   *)
NumEvents == [g \in TraceGroup |-> <<3, 7, 9, 18, 5, 21, 0, 8>>[g + 1]]

(* find_trevt() finds an entry with a handler, or the group is the user's. *)
Known(e) == GETGRP(e) = RKH_TG_USR \/ GETEVT(e) < NumEvents[GETGRP(e)]

(* RKH_TRC_BEGIN_DFT: the configuration record has no sequence number.     *)
Numbered(e) == e # RKH_TE_FWK_TCFG
=============================================================================
