--------------------------- MODULE MCTraceRecords ---------------------------
(***************************************************************************)
(* TraceRecords with a build that enables everything and has different     *)
(* sizes wherever the handlers tell them apart, builds that differ from it *)
(* in one option, and the two example applications.                        *)
(***************************************************************************)
EXTENDS TraceRecords

AllOptions == Range(FlagBits) \cup SmOptions \cup {"SM_DCH"}

(* Trazer agrees with this one about all records.                          *)
Base ==
  [SIZEOF_EVT |-> 8, SIZEOF_EVT_SIZE |-> 16, MAX_EVT_POOL |-> 15, SIZEOF_NELEM |-> 8,
   SIZEOF_BSIZE |-> 32, SIZEOF_NBLOCK |-> 32, SIZEOF_NTIMER |-> 32,
   SIZEOF_TSTAMP |-> 16, SIZEOF_PTR |-> 32, SIZEOF_FUN_PTR |-> 32, EN |-> AllOptions]

Without(options) == [Base EXCEPT !.EN = @ \ options]

OtherSizes ==
  {[Base EXCEPT !.SIZEOF_EVT = 16], [Base EXCEPT !.SIZEOF_NELEM = 16],
   [Base EXCEPT !.SIZEOF_BSIZE = 8, !.MAX_EVT_POOL = 100],
   [Base EXCEPT !.SIZEOF_PTR = 16], [Base EXCEPT !.SIZEOF_FUN_PTR = 16]}

OtherOptions ==
  {Without({"NSEQ"}), Without({"CHK"}), Without({"TSTAMP"}), Without({"SMA_TRC_SNDR"}),
   Without({"RQ_GET_LWMARK"}), Without({"MP_GET_LWM"}), Without({"ALL", "FWK"})}

AllBuilds == {Base, ahsm, shared} \cup OtherSizes \cup OtherOptions

(* No file, one that agrees with Base as far as it can, one with a missing *)
(* value and one with an option that is not processed.                     *)
ForBase == <<ConfigLine("sizeof_nblock", 4), ConfigLine("en_sender", 1),
             ConfigLine("sizeof_tstamp", 2), ConfigLine("sizeof_ntimer", 4)>>

AllFiles == {<<>>, ForBase, <<ConfigLine("en_chk", 0)>>, <<ConfigLine("en_nseq", -1)>>}

Item(fmt, n) == [fmt |-> fmt, n |-> n]

(* All formats, a long block at the end, one in the middle, and one after  *)
(* which 127 or 128 bytes follow.                                          *)
AllUsers ==
  {<<Item("I8", 0), Item("UI8", 0), Item("I16", 0), Item("UI16", 0), Item("I32", 0),
     Item("UI32", 0), Item("X32", 0), Item("OBJ", 0), Item("ESIG", 0), Item("STR", 3)>>,
   <<Item("UI8", 0), Item("FUN", 0)>>,
   <<Item("UI8", 0), Item("MEM", 125)>>, <<Item("UI8", 0), Item("MEM", 126)>>,
   <<Item("UI8", 0), Item("MEM", 127)>>, <<Item("MEM", 200), Item("UI8", 0)>>}

SharedBuild == {shared}
=============================================================================
