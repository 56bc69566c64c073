---------------------------- MODULE MCTraceLink ----------------------------
(***************************************************************************)
(* TraceLink on a ring that holds one or two records.  The arguments are   *)
(* the bytes that need escaping; the identifiers are those of a plain      *)
(* event, of the configuration record and of an event the analyzer does    *)
(* not know.                                                               *)
(***************************************************************************)
EXTENDS TraceLink

RingSize == 9
BlockReq == {1024}

Plain   == [eid |-> 66,  args |-> <<>>]
Escaped == [eid |-> 33,  args |-> <<126, 125>>]
Unknown == [eid |-> 31,  args |-> <<1>>]
Config  == [eid |-> RKH_TE_FWK_TCFG, args |-> <<0>>]

Records == {Plain, Escaped, Unknown, Config}
=============================================================================
