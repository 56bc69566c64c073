--------------------------- MODULE MCSymbolTables ---------------------------
(* Two objects, one of which is a timer, one signal, and two names which   *)
(* nothing tells apart.                                                    *)
EXTENDS SymbolTables

CONSTANTS n1, n2

TwoObjects == {1, 2}
OneTimer   == {1}
OneSignal  == {1}
TwoSignals == {1, 2}
OnePool    == {1}

(* User events that are told apart, and two that have the same low bits.   *)
OneEvent   == {1}
TwoEvents  == {1, 9}
TwoNames   == {n1, n2}

AnyNames == Permutations(TwoNames)
=============================================================================
