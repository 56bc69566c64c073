--------------------------- MODULE MCUtrzSession ---------------------------
(***************************************************************************)
(* Three records, of different bytes so that no piece of one and another   *)
(* one make a third, over a stream of six cells: the records (two or three *)
(* bytes with their flags) end and begin in every cell, and cross the end. *)
(***************************************************************************)
EXTENDS UtrzSession

BothBuilds  == {"socket", "library"}
LibraryOnly == {"library"}

TestRecords == {"UT_INIT", "event", "UT_VERIFY"}
BytesOf  == [UT_INIT |-> <<1>>, event |-> <<2, 2>>, UT_VERIFY |-> <<3, 3>>]
(* The line of the failure has to be escaped.                              *)
Passed == [status |-> "SUCCESS", line |-> 0]
VerdictsOf == [UT_INIT |-> Passed, event |-> Passed,
               UT_VERIFY |-> [status |-> "FAIL", line |-> RKH_FLG]]

(* The theorems of UtrzSession_proofs are about this instance as well.     *)
ASSUME TheoremsApply ==
  RecordsFit /\ NoneBeginsAnother /\ ~FlagCutOff /\ BlockReq >= N
=============================================================================
