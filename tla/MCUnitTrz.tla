----------------------------- MODULE MCUnitTrz -----------------------------
(***************************************************************************)
(* UnitTrazer with events of the two shapes, one whose arguments are       *)
(* checked in order and one that starts with the action type, and an event *)
(* of a group that is ignored.                                             *)
(***************************************************************************)
EXTENDS UnitTrz

Events   == {"TRN", "EXE_ACT", "FWK_FUN"}
ArgsOf   == [e \in Events |-> CASE e = "TRN" -> 2 [] e = "EXE_ACT" -> 3 [] OTHER -> 0]
Groups   == {"SM", "FWK"}
GroupMap == [e \in Events |-> IF e = "FWK_FUN" THEN "FWK" ELSE "SM"]
ArgumentsOf ==
  [e \in Events |-> CASE e = "TRN"     -> {<<1, 1>>, <<1, 2>>, <<2, 1>>}
                     [] e = "EXE_ACT" -> {<<1, 1, 1>>, <<1, 1, 2>>, <<2, 1, 1>>}
                     [] OTHER         -> {<<>>}]

(* Arguments that no other one follows, and the action type.               *)
LastArgs == {<<"TRN", 2>>, <<"EXE_ACT", 1>>, <<"EXE_ACT", 3>>}

(* The source state of a transition.                                       *)
SourceState == {<<"TRN", 1>>}
=============================================================================
