------------------------ MODULE SymbolTables_proofs ------------------------
(***************************************************************************)
(* For any number of timers, signals, objects and names: that a timeout is *)
(* drawn to the state machine that the timer was started for - the table   *)
(* of timers of source/include/timer.h has an entry for each time a timer  *)
(* was initialised, is searched from the front, and outlives the target -  *)
(* and that names are found, shown and drawn as SymbolTables promises.     *)
(***************************************************************************)
EXTENDS SymbolTables, FiniteSetTheorems, WellFoundedInduction, TLAPS

(* A set of natural numbers that is not empty has a least element.         *)
LEMMA NatWellFounded == IsWellFoundedOn({p \in Nat \X Nat : p[1] < p[2]}, Nat)
BY NatLessThanWellFounded DEF OpToRel

(* Min() of such a set is its least element.                               *)
LEMMA MinIsIn ==
  ASSUME NEW S \in SUBSET Nat, S # {}
  PROVE  Min(S) \in S /\ \A y \in S : Min(S) <= y
<1> DEFINE R == {p \in Nat \X Nat : p[1] < p[2]}
<1>1. IsWellFoundedOn(R, Nat)
  BY NatWellFounded
<1> HIDE DEF R
<1>2. PICK x \in S : \A y \in S : <<y, x>> \notin R
  BY <1>1, WFMin
<1>3. ASSUME NEW y \in S PROVE x <= y
  <2>1. ~(y < x)
    BY <1>2 DEF R
  <2> QED BY <2>1
<1> QED BY <1>3 DEF Min

(* There is only one such element.                                         *)
LEMMA LeastIsMin ==
  ASSUME NEW S \in SUBSET Nat, NEW x \in S, \A y \in S : x <= y
  PROVE  Min(S) = x
<1> DEFINE n == Min(S)
<1>1. n \in S /\ \A y \in S : n <= y
  BY MinIsIn
<1> HIDE DEF n
<1>2. n <= x /\ x <= n /\ n \in Nat /\ x \in Nat
  BY <1>1
<1>3. n = x
  BY <1>2
<1> QED BY <1>3 DEF n
-----------------------------------------------------------------------------
Timed(t) == timer[t].sig # -1

TimerEntry == [tobj : Timers, sobj : Signals, smobj : Objects \cup {0}]
TimerState == [sig : Signals \cup {-1}, same : BOOLEAN, sma : Objects \cup {0}]

TimerTable == tmr_tbl \in Seq(TimerEntry) /\ timer \in [Timers -> TimerState]

(* What the table has of each timer: it is there once the timer has been   *)
(* initialised, all of its entries have its only signal, and all of them   *)
(* have the state machine for which it was started last.                   *)
EntriesRight ==
  \A t \in Timers :
    /\ Timed(t) <=> Entries(t) # {}
    /\ timer[t].same => \A i \in Entries(t) : tmr_tbl[i].sobj = timer[t].sig
    /\ timer[t].sma # 0 =>
         Timed(t) /\ \A i \in Entries(t) : tmr_tbl[i].smobj = timer[t].sma

IInv == TimerTable /\ EntriesRight /\ TimeoutRight

(* The types of a timer's state ...                                        *)
LEMMA StateFields ==
  ASSUME NEW s \in TimerState
  PROVE  s.sig \in Signals \cup {-1} /\ s.same \in BOOLEAN /\ s.sma \in Objects \cup {0}
BY DEF TimerState

(* ... and of an entry of the table of timers.                             *)
LEMMA EntryFields ==
  ASSUME NEW p \in TimerEntry
  PROVE  p.tobj \in Timers /\ p.sobj \in Signals /\ p.smobj \in Objects \cup {0}
BY DEF TimerEntry

(* The entries of the table of timers.                                     *)
LEMMA TableIndices ==
  ASSUME TimerTable
  PROVE  /\ Len(tmr_tbl) \in Nat /\ DOMAIN tmr_tbl = 1 .. Len(tmr_tbl)
         /\ \A i \in DOMAIN tmr_tbl : tmr_tbl[i] \in TimerEntry
BY DEF TimerTable

(* Tables and keys, without the names.                                     *)
Keyed(triples) == {<<s[1], s[2]>> : s \in triples}

Drawable(line) ==
  {<<"symb", line.objs[i]>> : i \in DOMAIN line.objs}
  \cup {<<"sig", line.sigs[i]>> : i \in DOMAIN line.sigs}

(* Triples() has every key.                                                *)
LEMMA KeyedTriples ==
  ASSUME NEW table, NEW keys, NEW names
  PROVE  Keyed(Triples(table, keys, names)) = {<<table, keys[i]>> : i \in DOMAIN keys}
<1>1. ASSUME NEW i \in DOMAIN keys PROVE <<table, keys[i]>> \in Keyed(Triples(table, keys, names))
  <2>1. <<table, keys[i], names[i]>> \in Triples(table, keys, names)
    BY DEF Triples
  <2> QED BY <2>1 DEF Keyed
<1>2. ASSUME NEW s \in Triples(table, keys, names)
      PROVE  \E i \in DOMAIN keys : s[1] = table /\ s[2] = keys[i]
  BY DEF Triples
<1> QED BY <1>1, <1>2 DEF Keyed

(* What is drawn with a record is the line given.                          *)
LEMMA Drawn ==
  ASSUME NEW objs, NEW sigs, NEW pools, NEW copied, NEW line,
         Formatted(objs, sigs, pools, copied, line)
  PROVE  /\ diagram'.timer = line.timer
         /\ Keyed(diagram'.names) = Drawable(line)
<1>1. PICK d, ds : diagram' = Lined(line, d, ds)
  BY DEF Formatted
<1>2. /\ diagram'.timer = line.timer
      /\ diagram'.names = Triples("symb", line.objs, d.names)
                          \cup Triples("sig", line.sigs, ds.names)
  BY <1>1 DEF Lined
<1> DEFINE os  == Triples("symb", line.objs, d.names)
           sgs == Triples("sig", line.sigs, ds.names)
<1>3. Keyed(diagram'.names) = Keyed(os) \cup Keyed(sgs)
  BY <1>2 DEF Keyed
<1> QED BY <1>2, <1>3, KeyedTriples DEF Drawable

(* A step that draws no timeout and leaves the timers alone.               *)
LEMMA NoTimeout ==
  ASSUME IInv, UNCHANGED <<tmr_tbl, timer>>, diagram'.timer = 0
  PROVE  IInv'
BY DEF IInv, TimerTable, EntriesRight, TimeoutRight, Timed, Entries

(* A record that is shown, and a line without a timer.                     *)
LEMMA ShownIInv ==
  ASSUME IInv, NEW objs, NEW sigs, NEW pools, NEW line, line.timer = 0,
         AtOnce(objs, sigs, pools, line) \/ InTurn(objs, sigs, pools, line),
         UNCHANGED <<tmr_tbl, timer>>
  PROVE  IInv'
<1>1. \E copied : Formatted(objs, sigs, pools, copied, line)
  BY Zenon DEF AtOnce, InTurn
<1>2. diagram'.timer = line.timer
  BY <1>1, Drawn, Zenon
<1> QED BY <1>2, NoTimeout

(* The lines of other records have no timer.                               *)
LEMMA LineTimer == NotDrawn.timer = 0 /\ \A objs, sigs : Line(objs, sigs).timer = 0
BY DEF NotDrawn, Line

(* The target starts: the timers forget their state machines, the table    *)
(* does not.                                                               *)
LEMMA ConfiguredIInv == IInv /\ Configured => IInv'
<1> SUFFICES ASSUME IInv, Configured PROVE IInv'
  OBVIOUS
<1>1. /\ diagram' = NoLine /\ tmr_tbl' = tmr_tbl
      /\ timer' = [t \in Timers |-> [timer[t] EXCEPT !.sma = 0]]
  BY DEF Configured
<1>2. ASSUME NEW t \in Timers
      PROVE  /\ timer'[t] \in TimerState /\ timer'[t].sma = 0
             /\ timer'[t].sig = timer[t].sig /\ timer'[t].same = timer[t].same
  <2>1. timer[t] \in TimerState /\ timer'[t] = [timer[t] EXCEPT !.sma = 0]
    BY <1>1 DEF IInv, TimerTable
  <2> QED BY <2>1 DEF TimerState
<1>3. TimerTable'
  BY <1>1, <1>2 DEF IInv, TimerTable
<1>4. EntriesRight'
  BY <1>1, <1>2 DEF IInv, EntriesRight, Timed, Entries
<1>5. TimeoutRight'
  BY <1>1 DEF TimeoutRight, NoLine
<1> QED BY <1>3, <1>4, <1>5 DEF IInv

(* h_tinit(): an entry more for the timer, which may have got another      *)
(* signal.                                                                 *)
LEMMA TimerInitIInv ==
  ASSUME IInv, NEW t \in Timers, NEW e \in Signals, TimerInit(t, e)
  PROVE  IInv'
<1> DEFINE p   == [tobj |-> t, sobj |-> e, smobj |-> 0]
           now == [sig |-> e, same |-> timer[t].same /\ timer[t].sig \in {-1, e}, sma |-> 0]
<1>1. tmr_tbl' = Append(tmr_tbl, p) /\ timer' = [timer EXCEPT ![t] = now]
  BY DEF TimerInit
<1>2. p \in TimerEntry /\ now \in TimerState
  BY DEF TimerEntry, TimerState
<1>3. /\ p.tobj = t /\ p.sobj = e /\ e # -1
      /\ now.sig = e /\ now.sma = 0
  BY TablesAssumption
<1>0. now.same => timer[t].same /\ timer[t].sig \in {-1, e}
  BY Zenon
<1> HIDE DEF p, now
<1>4. /\ tmr_tbl \in Seq(TimerEntry) /\ Len(tmr_tbl) \in Nat
      /\ DOMAIN tmr_tbl = 1 .. Len(tmr_tbl)
  BY TableIndices DEF IInv, TimerTable
<1>5. /\ tmr_tbl' \in Seq(TimerEntry) /\ DOMAIN tmr_tbl' = 1 .. Len(tmr_tbl) + 1
      /\ tmr_tbl'[Len(tmr_tbl) + 1] = p
      /\ \A i \in DOMAIN tmr_tbl : tmr_tbl'[i] = tmr_tbl[i]
  BY <1>1, <1>2, <1>4
<1>6. /\ timer' \in [Timers -> TimerState] /\ timer'[t] = now
      /\ \A u \in Timers \ {t} : timer'[u] = timer[u]
  BY <1>1, <1>2 DEF IInv, TimerTable
<1>7. \A u \in Timers : Entries(u)' = Entries(u) \cup (IF u = t THEN {Len(tmr_tbl) + 1} ELSE {})
  BY <1>3, <1>4, <1>5 DEF Entries
<1>8. EntriesRight'
  <2> SUFFICES ASSUME NEW u \in Timers
               PROVE  (/\ Timed(u) <=> Entries(u) # {}
                       /\ timer[u].same => \A i \in Entries(u) : tmr_tbl[i].sobj = timer[u].sig
                       /\ timer[u].sma # 0 =>
                            Timed(u) /\ \A i \in Entries(u) : tmr_tbl[i].smobj = timer[u].sma)'
    BY DEF EntriesRight
  <2>1. Entries(u) \subseteq DOMAIN tmr_tbl
    BY DEF Entries
  <2>2. CASE u = t
    <3>1. Timed(u)' /\ Entries(u)' # {} /\ timer'[u].sma = 0
      BY <1>3, <1>6, <1>7, <2>2 DEF Timed
    <3>2. ASSUME timer'[u].same, NEW i \in Entries(u)' PROVE tmr_tbl'[i].sobj = timer'[u].sig
      <4>1. timer[t].same /\ timer[t].sig \in {-1, e} /\ timer'[u].sig = e
        BY <1>0, <1>3, <1>6, <2>2, <3>2
      <4>2. CASE i = Len(tmr_tbl) + 1
        BY <1>3, <1>5, <4>1, <4>2
      <4>3. CASE i \in Entries(u)
        <5>1. timer[t].sig # -1
          BY <2>2, <4>3 DEF IInv, EntriesRight, Timed
        <5>2. tmr_tbl[i].sobj = timer[t].sig
          BY <2>2, <4>1, <4>3 DEF IInv, EntriesRight
        <5> QED BY <1>5, <2>1, <4>1, <4>3, <5>1, <5>2
      <4> QED BY <1>7, <2>2, <3>2, <4>2, <4>3
    <3> QED BY <3>1, <3>2
  <2>3. CASE u # t
    <3>1. Entries(u)' = Entries(u) /\ timer'[u] = timer[u]
      BY <1>6, <1>7, <2>3
    <3>2. \A i \in Entries(u) : tmr_tbl'[i] = tmr_tbl[i]
      BY <1>5, <2>1
    <3> QED BY <3>1, <3>2 DEF IInv, EntriesRight, Timed
  <2> QED BY <2>2, <2>3
<1>9. diagram'.timer = 0
  <2>1. Formatted(<<t>>, <<e>>, {}, FALSE, NotDrawn)
    BY DEF TimerInit, AtOnce
  <2>2. diagram'.timer = NotDrawn.timer
    BY <2>1, Drawn, Zenon
  <2> QED BY <2>2 DEF NotDrawn, Line
<1> QED BY <1>5, <1>6, <1>8, <1>9 DEF IInv, TimerTable, TimeoutRight

(* h_tstart(): all entries of the timer get the state machine.             *)
LEMMA TimerStartIInv ==
  ASSUME IInv, NEW t \in Timers, NEW sma \in Objects, TimerStart(t, sma)
  PROVE  IInv'
<1>1. /\ Timed(t) /\ tmr_tbl' = tmrtbl_start(t, sma)
      /\ timer' = [timer EXCEPT ![t].sma = sma]
  BY DEF TimerStart, Timed
<1>2. /\ Len(tmr_tbl) \in Nat /\ DOMAIN tmr_tbl = 1 .. Len(tmr_tbl)
      /\ \A i \in DOMAIN tmr_tbl : tmr_tbl[i] \in TimerEntry
      /\ timer \in [Timers -> TimerState]
  BY TableIndices DEF IInv, TimerTable
<1>3. ASSUME NEW i \in DOMAIN tmr_tbl
      PROVE  /\ tmr_tbl'[i] \in TimerEntry
             /\ tmr_tbl'[i].tobj = tmr_tbl[i].tobj /\ tmr_tbl'[i].sobj = tmr_tbl[i].sobj
             /\ tmr_tbl'[i].smobj = IF i \in Entries(t) THEN sma ELSE tmr_tbl[i].smobj
  <2>1. /\ tmr_tbl[i] \in TimerEntry
        /\ tmr_tbl'[i] = IF i \in Entries(t) THEN [tmr_tbl[i] EXCEPT !.smobj = sma] ELSE tmr_tbl[i]
    BY <1>1, <1>2 DEF tmrtbl_start
  <2> QED BY <2>1 DEF TimerEntry
<1>4. DOMAIN tmr_tbl' = DOMAIN tmr_tbl /\ tmr_tbl' = [i \in 1 .. Len(tmr_tbl) |-> tmr_tbl'[i]]
  BY <1>1, <1>2 DEF tmrtbl_start
<1>5. tmr_tbl' \in Seq(TimerEntry)
  BY <1>2, <1>3, <1>4
<1>6. /\ timer' \in [Timers -> TimerState] /\ \A u \in Timers \ {t} : timer'[u] = timer[u]
      /\ timer'[t].sig = timer[t].sig /\ timer'[t].same = timer[t].same /\ timer'[t].sma = sma
  <2>1. timer[t] \in TimerState /\ timer'[t] = [timer[t] EXCEPT !.sma = sma]
    BY <1>1, <1>2
  <2>2. /\ timer'[t] \in TimerState
        /\ timer'[t].sig = timer[t].sig /\ timer'[t].same = timer[t].same /\ timer'[t].sma = sma
    BY <2>1 DEF TimerState
  <2> QED BY <1>1, <1>2, <2>2
<1>7. \A u \in Timers : Entries(u)' = Entries(u) /\ Entries(u) \subseteq DOMAIN tmr_tbl
  BY <1>3, <1>4 DEF Entries
<1>8. EntriesRight'
  <2> SUFFICES ASSUME NEW u \in Timers
               PROVE  (/\ Timed(u) <=> Entries(u) # {}
                       /\ timer[u].same => \A i \in Entries(u) : tmr_tbl[i].sobj = timer[u].sig
                       /\ timer[u].sma # 0 =>
                            Timed(u) /\ \A i \in Entries(u) : tmr_tbl[i].smobj = timer[u].sma)'
    BY DEF EntriesRight
  <2>1. /\ Timed(u) <=> Entries(u) # {}
        /\ timer[u].same => \A i \in Entries(u) : tmr_tbl[i].sobj = timer[u].sig
        /\ timer[u].sma # 0 => Timed(u) /\ \A i \in Entries(u) : tmr_tbl[i].smobj = timer[u].sma
    BY DEF IInv, EntriesRight
  <2>2. /\ \A i \in Entries(u) : tmr_tbl'[i].sobj = tmr_tbl[i].sobj
        /\ timer'[u].sig = timer[u].sig /\ timer'[u].same = timer[u].same
    BY <1>3, <1>6, <1>7
  <2>3. CASE u = t
    <3>1. timer'[u].sma = sma /\ \A i \in Entries(u) : tmr_tbl'[i].smobj = sma
      BY <1>3, <1>6, <1>7, <2>3
    <3> QED BY <1>1, <1>7, <2>1, <2>2, <2>3, <3>1 DEF Timed
  <2>4. CASE u # t
    <3>1. Entries(u) \cap Entries(t) = {}
      BY <2>4 DEF Entries
    <3>2. timer'[u] = timer[u] /\ \A i \in Entries(u) : tmr_tbl'[i].smobj = tmr_tbl[i].smobj
      BY <1>3, <1>6, <1>7, <2>4, <3>1
    <3> QED BY <1>7, <2>1, <2>2, <3>2 DEF Timed
  <2> QED BY <2>3, <2>4
<1>9. diagram'.timer = 0
  <2>1. Formatted(<<t, sma>>, <<>>, {}, TRUE, NotDrawn)
    BY DEF TimerStart, InTurn
  <2>2. diagram'.timer = NotDrawn.timer
    BY <2>1, Drawn, Zenon
  <2> QED BY <2>2 DEF NotDrawn, Line
<1> QED BY <1>5, <1>6, <1>8, <1>9 DEF IInv, TimerTable, TimeoutRight

(* h_tout(): the line is drawn from the first entry of the timer.          *)
LEMMA TimeoutIInv ==
  ASSUME IInv, NEW t \in Timers, Timeout(t)
  PROVE  IInv'
<1> DEFINE i0 == Min(Entries(t))
           p  == tmr_tbl[i0]
           line == [timer |-> t, objs |-> <<p.smobj, p.smobj>>, sigs |-> <<p.sobj>>]
<1>1. timer[t].sma # 0 /\ UNCHANGED <<tmr_tbl, timer>>
  BY DEF Timeout
<1>2. Entries(t) # {} /\ Entries(t) \subseteq Nat
  BY <1>1, TableIndices DEF IInv, EntriesRight, Entries
<1>3. i0 \in Entries(t)
  BY <1>2, MinIsIn
<1>4. TimeoutLine(t) = line
  BY <1>2 DEF TimeoutLine
<1> HIDE DEF line
<1>5. diagram'.timer = line.timer /\ Keyed(diagram'.names) = Drawable(line)
  <2>1. Formatted(<<t, timer[t].sma>>, <<timer[t].sig>>, {}, TRUE, line)
    BY <1>4 DEF Timeout, InTurn
  <2> QED BY <2>1, Drawn, Zenon
<1> HIDE DEF i0
<1>6. p.smobj = timer[t].sma /\ (timer[t].same => p.sobj = timer[t].sig)
  BY <1>1, <1>3 DEF IInv, EntriesRight
<1> HIDE DEF p
<1>7. /\ diagram'.timer = t
      /\ Keyed(diagram'.names) = {<<"symb", p.smobj>>, <<"sig", p.sobj>>}
  <2>1. /\ line.timer = t /\ DOMAIN line.objs = {1, 2} /\ DOMAIN line.sigs = {1}
        /\ line.objs[1] = p.smobj /\ line.objs[2] = p.smobj /\ line.sigs[1] = p.sobj
    BY DEF line
  <2> QED BY <1>5, <2>1 DEF Drawable
<1>8. TimeoutRight'
  BY <1>1, <1>6, <1>7 DEF TimeoutRight, Keyed
<1>9. TimerTable' /\ EntriesRight'
  BY <1>1 DEF IInv, TimerTable, EntriesRight, Timed, Entries
<1> QED BY <1>8, <1>9 DEF IInv

(* At first there are no timers.                                           *)
LEMMA InitIInv == Init => IInv
<1> SUFFICES ASSUME Init PROVE IInv
  OBVIOUS
<1>1. tmr_tbl = <<>> /\ diagram = NoLine /\ timer = [t \in Timers |-> NotSet]
  BY DEF Init
<1>2. NotSet \in TimerState /\ NotSet.sig = -1 /\ NotSet.sma = 0
  BY DEF NotSet, TimerState
<1>3. TimerTable
  BY <1>1, <1>2 DEF TimerTable
<1>4. \A t \in Timers : Entries(t) = {}
  BY <1>1 DEF Entries
<1>5. EntriesRight
  BY <1>1, <1>2, <1>4 DEF EntriesRight, Timed
<1>6. TimeoutRight
  BY <1>1 DEF TimeoutRight, NoLine
<1> QED BY <1>3, <1>5, <1>6 DEF IInv
-----------------------------------------------------------------------------
(* Telling a name draws nothing.                                           *)
LEMMA TellIInv ==
  ASSUME IInv, NEW table, NEW key, NEW name, Tell(table, key, name)
  PROVE  IInv'
<1>1. UNCHANGED <<tmr_tbl, timer>> /\ diagram'.timer = 0
  BY DEF Tell, NoLine
<1> QED BY <1>1, NoTimeout

(* Records that tell names.                                                *)
LEMMA GiveIInv ==
  ASSUME IInv, NEW name \in Names,
         \/ \E obj \in Objects : GiveObject(obj, name)
         \/ \E ao, obj \in Objects : GiveState(ao, obj, name)
         \/ \E epid \in Pools : GivePool(epid, name)
         \/ \E e \in Signals : GiveSignal(e, name)
         \/ \E ue \in UserEvents : GiveUser(ue, name)
  PROVE  IInv'
<1>1. \E table, key : Tell(table, key, name)
  BY DEF GiveObject, GiveState, GivePool, GiveSignal, GiveUser
<1> QED BY <1>1, TellIInv

(* Records with one object, with two, and with three.                      *)
LEMMA ShowOneIInv ==
  ASSUME IInv, NEW obj, NEW e, NEW pid,
         \/ ShowObject(obj) \/ ShowGet(obj, e, pid) \/ ShowAllocated(e, pid - 1, obj)
  PROVE  IInv'
<1>1. CASE ShowObject(obj)
  BY <1>1, ShownIInv, LineTimer DEF ShowObject
<1>2. CASE ShowGet(obj, e, pid)
  BY <1>2, ShownIInv, LineTimer DEF ShowGet
<1>3. CASE ShowAllocated(e, pid - 1, obj)
  BY <1>3, ShownIInv, LineTimer DEF ShowAllocated
<1> QED BY <1>1, <1>2, <1>3

(* ... with two ...                                                        *)
LEMMA ShowTwoIInv ==
  ASSUME IInv, NEW obj1, NEW obj2, NEW e, NEW pid,
         \/ ShowTwo(obj1, obj2, TRUE) \/ ShowTwo(obj1, obj2, FALSE)
         \/ ShowInTurn(obj1, obj2)
         \/ ShowDispatch(obj1, e, obj2)
         \/ ShowPost(obj1, e, obj2, pid)
  PROVE  IInv'
<1>1. CASE ShowTwo(obj1, obj2, TRUE)
  BY <1>1, ShownIInv, LineTimer DEF ShowTwo
<1>2. CASE ShowTwo(obj1, obj2, FALSE)
  BY <1>2, ShownIInv, LineTimer DEF ShowTwo
<1>3. CASE ShowInTurn(obj1, obj2)
  BY <1>3, ShownIInv, LineTimer DEF ShowInTurn
<1>4. CASE ShowDispatch(obj1, e, obj2)
  BY <1>4, ShownIInv, LineTimer DEF ShowDispatch
<1>5. CASE ShowPost(obj1, e, obj2, pid)
  <2>1. CASE tmrtbl_find_sig(e)
    BY <1>5, <2>1, ShownIInv, LineTimer DEF ShowPost
  <2>2. CASE ~tmrtbl_find_sig(e)
    BY <1>5, <2>2, ShownIInv, LineTimer DEF ShowPost
  <2> QED BY <2>1, <2>2
<1> QED BY <1>1, <1>2, <1>3, <1>4, <1>5

(* ... and with three.                                                     *)
LEMMA ShowThreeIInv ==
  ASSUME IInv, NEW obj1, NEW obj2, NEW obj3,
         \/ ShowTransition(obj1, obj2, obj3)
         \/ ShowSync(obj1, obj2, obj3) \/ ShowAction(obj1, obj2, obj3)
  PROVE  IInv'
<1>1. CASE ShowTransition(obj1, obj2, obj3)
  BY <1>1, ShownIInv, LineTimer DEF ShowTransition
<1>2. CASE ShowSync(obj1, obj2, obj3)
  BY <1>2, ShownIInv, LineTimer DEF ShowSync
<1>3. CASE ShowAction(obj1, obj2, obj3)
  BY <1>3, ShownIInv, LineTimer DEF ShowAction
<1> QED BY <1>1, <1>2, <1>3

(* A user event draws nothing.                                             *)
LEMMA ShowUserIInv == ASSUME IInv, NEW ue, ShowUser(ue) PROVE IInv'
<1>1. UNCHANGED <<tmr_tbl, timer>> /\ diagram'.timer = 0
  BY DEF ShowUser, NoLine
<1> QED BY <1>1, NoTimeout

(* Every step keeps the timers right.                                      *)
LEMMA NextIInv == IInv /\ [Next]_vars => IInv'
<1> SUFFICES ASSUME IInv, [Next]_vars PROVE IInv'
  OBVIOUS
<1>1. CASE Configured
  BY <1>1, ConfiguredIInv
<1>2. ASSUME NEW name \in Names,
             \/ \E obj \in Objects : GiveObject(obj, name)
             \/ \E ao, obj \in Objects : GiveState(ao, obj, name)
             \/ \E epid \in Pools : GivePool(epid, name)
             \/ \E e \in Signals : GiveSignal(e, name)
             \/ \E ue \in UserEvents : GiveUser(ue, name)
      PROVE  IInv'
  BY <1>2, GiveIInv
<1>3. ASSUME NEW obj1 \in Objects,
             \/ ShowObject(obj1)
             \/ \E e \in Signals, pid \in Pools \cup {0} : ShowGet(obj1, e, pid)
             \/ \E e \in Signals, pid \in Pools : ShowAllocated(e, pid - 1, obj1)
      PROVE  IInv'
  BY <1>3, ShowOneIInv
<1>4. ASSUME NEW obj1 \in Objects, NEW obj2 \in Objects,
             \/ \E isState \in BOOLEAN : ShowTwo(obj1, obj2, isState)
             \/ ShowInTurn(obj1, obj2)
             \/ \E e \in Signals :
                  \/ ShowDispatch(obj1, e, obj2)
                  \/ \E pid \in Pools \cup {0} : ShowPost(obj1, e, obj2, pid)
      PROVE  IInv'
  <2>1. ASSUME NEW isState \in BOOLEAN, ShowTwo(obj1, obj2, isState) PROVE IInv'
    <3>1. CASE isState = TRUE
      BY <2>1, <3>1, ShowTwoIInv, Zenon
    <3>2. CASE isState = FALSE
      BY <2>1, <3>2, ShowTwoIInv, Zenon
    <3> QED BY <3>1, <3>2
  <2> QED BY <1>4, <2>1, ShowTwoIInv
<1>5. ASSUME NEW obj1 \in Objects, NEW obj2 \in Objects,
             \/ \E ts \in Objects \cup {0} : ShowTransition(obj1, obj2, ts)
             \/ \E obj3 \in Objects : ShowSync(obj1, obj2, obj3) \/ ShowAction(obj1, obj2, obj3)
      PROVE  IInv'
  BY <1>5, ShowThreeIInv
<1>6. ASSUME NEW ue \in UserEvents, ShowUser(ue) PROVE IInv'
  BY <1>6, ShowUserIInv
<1>7. ASSUME NEW t \in Timers, NEW e \in Signals, TimerInit(t, e) PROVE IInv'
  BY <1>7, TimerInitIInv
<1>8. ASSUME NEW t \in Timers, Timeout(t) PROVE IInv'
  BY <1>8, TimeoutIInv
<1>9. ASSUME NEW t \in Timers, NEW sma \in Objects, TimerStart(t, sma) PROVE IInv'
  BY <1>9, TimerStartIInv
<1>10. CASE UNCHANGED vars
  BY <1>10 DEF vars, IInv, TimerTable, EntriesRight, TimeoutRight, Timed, Entries
<1> QED BY <1>1, <1>2, <1>3, <1>4, <1>5, <1>6, <1>7, <1>8, <1>9, <1>10 DEF Next

(* A timeout is drawn to the state machine for which the timer was last    *)
(* started and with its signal, however often timers were initialised and  *)
(* the target has started in between, unless a timer changes its signal.   *)
THEOREM TimeoutsRight == Spec => []TimeoutRight
<1>1. IInv => TimeoutRight
  BY DEF IInv
<1> QED BY <1>1, InitIInv, NextIInv, PTL DEF Spec
-----------------------------------------------------------------------------
(* Induction over the natural numbers, for a set.                          *)
LEMMA NatSet ==
  ASSUME NEW S, 0 \in S, \A n \in Nat : n \in S => n + 1 \in S
  PROVE  \A n \in Nat : n \in S
<1> DEFINE R == {p \in Nat \X Nat : p[1] < p[2]}
           T == Nat \ S
<1>1. IsWellFoundedOn(R, Nat)
  BY NatWellFounded
<1>2. \A n \in Nat : n + 1 \in Nat /\ <<n, n + 1>> \in R
  OBVIOUS
<1> HIDE DEF R
<1> SUFFICES ASSUME T # {} PROVE FALSE
  OBVIOUS
<1>3. PICK x \in T : \A y \in T : ~(<<y, x>> \in R)
  BY <1>1, WFMin
<1>4. x # 0 /\ x - 1 \in Nat /\ x = (x - 1) + 1
  BY <1>3
<1>5. x - 1 \in T
  BY <1>4, <1>3
<1> QED BY <1>2, <1>3, <1>4, <1>5

(* Indices up to n + 1 without n + 1.                                      *)
LEMMA Below ==
  ASSUME NEW n \in Nat, NEW s \in SUBSET (1 .. n + 1), n + 1 \notin s
  PROVE  s \in SUBSET (1 .. n)
<1>1. ASSUME NEW x \in s PROVE x \in 1 .. n
  <2>1. x \in 1 .. n + 1 /\ x # n + 1
    OBVIOUS
  <2> QED BY <2>1
<1> QED BY <1>1

(* f[i] is the table after the first i keys.                               *)
PartialFolds(f, tbl, keys) ==
  f[0] = tbl /\ \A i \in 1 .. Len(keys) : f[i] = MapTable(f[i - 1], keys[i])

(* FoldLeft(), which is defined by recursion over sets of indices, maps    *)
(* one key after the other.                                                *)
LEMMA FoldIsFold ==
  ASSUME NEW tbl, NEW S, NEW keys \in Seq(S)
  PROVE  \E f : /\ PartialFolds(f, tbl, keys)
                /\ FoldLeft(MapTable, tbl, keys) = f[Len(keys)]
<1> DEFINE last(s) == Max(s)
           next(g, s) == IF s = {} THEN tbl
                         ELSE MapTable(g[s \ {last(s)}], keys[last(s)])
           body(g, n) == [s \in SUBSET (1 .. n) |-> next(g, s)]
           D == {n \in Nat : \E g : g = body(g, n)}
<1>1. ASSUME NEW n \in Nat, NEW s \in SUBSET (1 .. n + 1), n + 1 \in s
      PROVE  last(s) = n + 1 /\ s \ {last(s)} \in SUBSET (1 .. n)
  <2>1. \A y \in s : n + 1 >= y
    OBVIOUS
  <2>2. last(s) \in s /\ \A y \in s : last(s) >= y
    BY <1>1, <2>1 DEF Max
  <2>3. last(s) \in 1 .. n + 1 /\ last(s) >= n + 1
    BY <1>1, <2>2
  <2> HIDE DEF last
  <2>4. last(s) = n + 1
    BY <2>3
  <2>5. s \ {n + 1} \in SUBSET (1 .. n + 1) /\ n + 1 \notin s \ {n + 1}
    OBVIOUS
  <2> QED BY <2>4, <2>5, Below
<1> HIDE DEF last
<1>2. \A n \in Nat : n \in D
  <2>1. 0 \in D
    <3> DEFINE g == [s \in SUBSET (1 .. 0) |-> tbl]
    <3>1. g = body(g, 0)
      <4>1. \A s \in SUBSET (1 .. 0) : s = {}
        OBVIOUS
      <4>2. \A s \in SUBSET (1 .. 0) : next(g, s) = tbl
        BY <4>1, Zenon
      <4> HIDE DEF next
      <4> QED BY <4>2
    <3> QED BY <3>1, Zenon
  <2>2. ASSUME NEW n \in Nat, n \in D PROVE n + 1 \in D
    <3>1. PICK g : g = body(g, n)
      BY <2>2
    <3> DEFINE e(s) == IF n + 1 \in s THEN MapTable(g[s \ {n + 1}], keys[n + 1]) ELSE g[s]
               h == [s \in SUBSET (1 .. n + 1) |-> e(s)]
    <3> HIDE DEF D, h
    <3>2. ASSUME NEW s \in SUBSET (1 .. n) PROVE h[s] = g[s]
      <4>1. s \in SUBSET (1 .. n + 1) /\ n + 1 \notin s
        OBVIOUS
      <4> QED BY <4>1 DEF h
    <3>3. ASSUME NEW s \in SUBSET (1 .. n + 1) PROVE e(s) = next(h, s)
      <4>1. CASE n + 1 \in s
        <5>1. last(s) = n + 1 /\ s \ {n + 1} \in SUBSET (1 .. n) /\ s # {}
          BY <1>1, <4>1
        <5>2. h[s \ {n + 1}] = g[s \ {n + 1}]
          BY <3>2, <5>1
        <5> QED BY <4>1, <5>1, <5>2, Zenon
      <4>2. CASE n + 1 \notin s
        <5>1. s \in SUBSET (1 .. n) /\ s \ {last(s)} \in SUBSET (1 .. n)
          <6>1. s \in SUBSET (1 .. n)
            BY <4>2, Below
          <6> QED BY <6>1
        <5>2. g[s] = next(g, s)
          BY <3>1, <5>1
        <5>3. h[s \ {last(s)}] = g[s \ {last(s)}]
          BY <3>2, <5>1
        <5> QED BY <4>2, <5>2, <5>3, Zenon
      <4> QED BY <4>1, <4>2
    <3> HIDE DEF e, next
    <3>4. h = body(h, n + 1)
      BY <3>3 DEF h
    <3> HIDE DEF body
    <3>5. \E u : u = body(u, n + 1)
      BY <3>4, Zenon
    <3> QED BY <3>5 DEF D
  <2> HIDE DEF D
  <2> QED BY <2>1, <2>2, NatSet
<1> DEFINE n == Len(keys)
           iter == CHOOSE g : g = body(g, n)
<1>3. n \in Nat /\ DOMAIN keys = 1 .. n
  OBVIOUS
<1>4. FoldLeft(MapTable, tbl, keys) = iter[1 .. n]
  BY <1>3 DEF FoldLeft, MapThenFoldSet, last
<1>5. iter = body(iter, n)
  <2> HIDE DEF body, iter, n
  <2>1. \E g : g = body(g, n)
    BY <1>2, <1>3
  <2> QED BY <2>1, Zenon DEF iter
<1> HIDE DEF iter, n, D
<1> DEFINE f == [i \in 0 .. n |-> iter[1 .. i]]
<1>6. f[0] = tbl
  <2>1. 1 .. 0 = {} /\ 1 .. 0 \in SUBSET (1 .. n) /\ 0 \in 0 .. n
    BY <1>3
  <2>2. iter[1 .. 0] = next(iter, 1 .. 0)
    BY <1>5, <2>1
  <2> QED BY <2>1, <2>2
<1>7. ASSUME NEW i \in 1 .. n PROVE f[i] = MapTable(f[i - 1], keys[i])
  <2>1. /\ i - 1 \in Nat /\ (i - 1) + 1 = i /\ i \in 0 .. n /\ i - 1 \in 0 .. n
        /\ i \in 1 .. i /\ 1 .. i \in SUBSET (1 .. n) /\ 1 .. i \in SUBSET (1 .. (i - 1) + 1)
        /\ (1 .. i) \ {i} = 1 .. i - 1
    <3>1. i \in Nat /\ 1 <= i /\ i <= n
      BY <1>3
    <3> HIDE DEF f, next, body
    <3>2. \A j \in 1 .. i : j \in 1 .. n /\ (j # i => j \in 1 .. i - 1)
      BY <1>3, <3>1
    <3>3. \A j \in 1 .. i - 1 : j \in 1 .. i /\ j # i
      BY <3>1
    <3> QED BY <1>3, <3>1, <3>2, <3>3
  <2>2. last(1 .. i) = i /\ 1 .. i # {}
    BY <1>1, <2>1
  <2>3. iter[1 .. i] = next(iter, 1 .. i)
    BY <1>5, <2>1
  <2>4. f[i] = iter[1 .. i] /\ f[i - 1] = iter[1 .. i - 1]
    BY <2>1
  <2> QED BY <2>1, <2>2, <2>3, <2>4, Zenon
<1>8. f[n] = iter[1 .. n]
  BY <1>3
<1> HIDE DEF f
<1>9. PartialFolds(f, tbl, keys)
  BY <1>6, <1>7 DEF PartialFolds, n
<1> QED BY <1>4, <1>8, <1>9, Zenon DEF n
-----------------------------------------------------------------------------
(* The names that may stand with a key: one that was told for it, or the   *)
(* one made from it.                                                       *)
NameOK(key, name, pairs) ==
  name = Raw(key) \/ \E n \in Names : name = Given(n) /\ <<key, n>> \in pairs

Sound(tbl, keys, pairs) ==
  tbl \in TableOf(keys) /\ \A i \in DOMAIN tbl : NameOK(tbl[i].key, tbl[i].name, pairs)

NamedIn(tbl, pairs) ==
  OneToOne(pairs) => \A p \in pairs : Name(tbl, p[1]) = Given(p[2])

(* new are the names told since the target started.                        *)
Right(tbl, keys, pairs, new) == Sound(tbl, keys, pairs) /\ NamedIn(tbl, new)

(* No key of the table is lost, and none gets another name.                *)
Keeps(tbl, after) ==
  \A key : Known(tbl, key) => Known(after, key) /\ Name(after, key) = Name(tbl, key)

At(tbl, key) == {i \in DOMAIN tbl : tbl[i].key = key}

(* The kinds of names are told apart.                                      *)
LEMMA NamesApart ==
  /\ \A n, m : Given(n) = Given(m) => n = m
  /\ \A j, k : Raw(j) = Raw(k) => j = k
  /\ \A n, k : Given(n) # Raw(k)
  /\ \A n : /\ Given(n) \notin {Dangling, Static, NoName}
            /\ Raw(n) \notin {Dangling, Static, NoName}
            /\ Given(n)[1] = "given" /\ Given(n)[2] = n /\ Raw(n)[1] # "given"
  /\ Static \notin {Dangling, NoName} /\ NoName # Dangling
  /\ Static[1] # "given" /\ NoName[1] # "given" /\ Dangling[1] # "given"
BY DEF Given, Raw, Dangling, Static, NoName

(* The entries of a table.                                                 *)
LEMMA TableEntries ==
  ASSUME NEW keys, NEW tbl \in TableOf(keys)
  PROVE  /\ Len(tbl) \in Nat /\ DOMAIN tbl = 1 .. Len(tbl) /\ DOMAIN tbl \in SUBSET Nat
         /\ \A i \in DOMAIN tbl : tbl[i].key \in keys /\ tbl[i].name \in NameSet(keys)
<1> DEFINE E == [key : keys, name : NameSet(keys)]
<1>1. tbl \in Seq(E)
  BY DEF TableOf
<1>2. \A e \in E : e.key \in keys /\ e.name \in NameSet(keys)
  OBVIOUS
<1> HIDE DEF E
<1> QED BY <1>1, <1>2

(* A known key has the name of an entry of the key.                        *)
LEMMA NameIsThere ==
  ASSUME NEW keys, NEW tbl \in TableOf(keys), NEW key, Known(tbl, key)
  PROVE  Name(tbl, key) = tbl[Min(At(tbl, key))].name /\ Min(At(tbl, key)) \in At(tbl, key)
<1>1. At(tbl, key) # {} /\ At(tbl, key) \in SUBSET Nat
  BY TableEntries DEF Known, At
<1>2. Min(At(tbl, key)) \in At(tbl, key)
  BY <1>1, MinIsIn
<1> QED BY <1>2 DEF Name, At

(* Whatever is found was told for the key or made from it.                 *)
LEMMA NameRight ==
  ASSUME NEW keys, NEW tbl, NEW pairs, Sound(tbl, keys, pairs), NEW key, Known(tbl, key)
  PROVE  NameOK(key, Name(tbl, key), pairs)
<1>1. tbl \in TableOf(keys)
  BY DEF Sound
<1> DEFINE i == Min(At(tbl, key))
<1>2. i \in At(tbl, key) /\ Name(tbl, key) = tbl[i].name
  BY <1>1, NameIsThere
<1> HIDE DEF i
<1>3. i \in DOMAIN tbl /\ tbl[i].key = key
  BY <1>2 DEF At
<1> QED BY <1>2, <1>3 DEF Sound

(* What is looked up is a name that was told, one made from the key, or    *)
(* none.                                                                   *)
LEMMA NameOrNone ==
  ASSUME NEW keys, NEW tbl, NEW pairs, Sound(tbl, keys, pairs), NEW key
  PROVE  NameOK(key, Name(tbl, key), pairs) \/ Name(tbl, key) = NoName
BY NameRight DEF Name

(* Such a name has its type ...                                            *)
LEMMA NameInSet ==
  ASSUME NEW keys, NEW key \in keys, NEW name, NEW pairs, NameOK(key, name, pairs)
  PROVE  name \in NameSet(keys)
BY DEF NameOK, NameSet

(* ... and so has an entry with it.                                        *)
LEMMA EntryType ==
  ASSUME NEW keys, NEW key \in keys, NEW name \in NameSet(keys)
  PROVE  /\ [key |-> key, name |-> name] \in [key : keys, name : NameSet(keys)]
         /\ [key |-> key, name |-> name].key = key /\ [key |-> key, name |-> name].name = name
OBVIOUS

(* An entry more.                                                          *)
LEMMA Appended ==
  ASSUME NEW keys, NEW tbl, NEW pairs, Sound(tbl, keys, pairs),
         NEW key \in keys, NEW name, NameOK(key, name, pairs)
  PROVE  LET after == Append(tbl, [key |-> key, name |-> name])
         IN  /\ Sound(after, keys, pairs)
             /\ ~Known(tbl, key) => /\ Known(after, key) /\ Name(after, key) = name
                                    /\ Keeps(tbl, after)
<1> DEFINE entry == [key |-> key, name |-> name]
           after == Append(tbl, entry)
<1>1. /\ entry \in [key : keys, name : NameSet(keys)]
      /\ entry.key = key /\ entry.name = name
  BY NameInSet, EntryType
<1> HIDE DEF entry
<1>2. /\ tbl \in Seq([key : keys, name : NameSet(keys)])
      /\ Len(tbl) \in Nat /\ DOMAIN tbl = 1 .. Len(tbl)
  BY TableEntries DEF Sound, TableOf
<1>3. /\ after \in Seq([key : keys, name : NameSet(keys)])
      /\ DOMAIN after = 1 .. Len(tbl) + 1 /\ after[Len(tbl) + 1] = entry
      /\ \A i \in DOMAIN tbl : i \in DOMAIN after /\ after[i] = tbl[i]
      /\ \A i \in DOMAIN after : i \in DOMAIN tbl \/ i = Len(tbl) + 1
      /\ Len(tbl) + 1 \in DOMAIN after
  BY <1>1, <1>2
<1> HIDE DEF after
<1>4. Sound(after, keys, pairs)
  BY <1>1, <1>3 DEF Sound, TableOf
<1>5. ASSUME ~Known(tbl, key)
      PROVE  Known(after, key) /\ Name(after, key) = name /\ Keeps(tbl, after)
  <2>1. Known(after, key)
    BY <1>1, <1>3 DEF Known
  <2>2. At(after, key) = {Len(tbl) + 1}
    BY <1>1, <1>3, <1>5 DEF Known, At
  <2>3. Min(At(after, key)) = Len(tbl) + 1 /\ after \in TableOf(keys)
    BY <1>3, <1>4, <2>1, <2>2, NameIsThere DEF Sound
  <2>4. Name(after, key) = name
    BY <1>1, <1>3, <2>1, <2>3, NameIsThere
  <2>5. ASSUME NEW k, Known(tbl, k)
        PROVE  Known(after, k) /\ Name(after, k) = Name(tbl, k)
    <3>1. Known(after, k)
      BY <1>3, <2>5 DEF Known
    <3>2. k # key
      BY <1>5, <2>5
    <3>3. At(after, k) = At(tbl, k)
      BY <1>1, <1>3, <3>2 DEF At
    <3>4. /\ Name(tbl, k) = tbl[Min(At(tbl, k))].name /\ Min(At(tbl, k)) \in At(tbl, k)
          /\ Name(after, k) = after[Min(At(after, k))].name
      BY <2>3, <2>5, <3>1, NameIsThere DEF Sound
    <3>5. Min(At(tbl, k)) \in DOMAIN tbl
      BY <3>4 DEF At
    <3> QED BY <1>3, <3>1, <3>3, <3>4, <3>5
  <2> QED BY <2>1, <2>4, <2>5 DEF Keeps
<1> QED BY <1>4, <1>5 DEF after, entry

(* map_obj() and its likes: an unknown key is added with its own name.     *)
LEMMA MapTableAppends ==
  ASSUME NEW keys, NEW tbl, NEW pairs, Sound(tbl, keys, pairs), NEW key \in keys
  PROVE  /\ Sound(MapTable(tbl, key), keys, pairs)
         /\ Keeps(tbl, MapTable(tbl, key)) /\ Known(MapTable(tbl, key), key)
<1>1. CASE Known(tbl, key)
  BY <1>1 DEF MapTable, Keeps
<1>2. CASE ~Known(tbl, key)
  <2>1. \A i \in DOMAIN tbl : tbl[i].key # key /\ tbl[i].name # Raw(key)
    <3> SUFFICES ASSUME NEW i \in DOMAIN tbl PROVE tbl[i].key # key /\ tbl[i].name # Raw(key)
      OBVIOUS
    <3>1. tbl[i].key # key
      BY <1>2 DEF Known
    <3>2. NameOK(tbl[i].key, tbl[i].name, pairs)
      BY DEF Sound
    <3> QED BY <3>1, <3>2, NamesApart DEF NameOK
  <2>2. MapTable(tbl, key) = Append(tbl, [key |-> key, name |-> Raw(key)])
    BY <1>2, <2>1 DEF MapTable, Add
  <2>3. NameOK(key, Raw(key), pairs)
    BY DEF NameOK
  <2> QED BY <1>2, <2>2, <2>3, Appended
<1> QED BY <1>1, <1>2

(* Keeping names is a preorder.                                            *)
LEMMA KeepsAlways ==
  /\ \A t : Keeps(t, t)
  /\ \A t, u, v : Keeps(t, u) /\ Keeps(u, v) => Keeps(t, v)
BY Zenon DEF Keeps

(* Looking up names, of any number of keys.                                *)
LEMMA MapKeysAppends ==
  ASSUME NEW keys, NEW tbl, NEW pairs, Sound(tbl, keys, pairs), NEW ks \in Seq(keys)
  PROVE  /\ Sound(MapKeys(tbl, ks), keys, pairs) /\ Keeps(tbl, MapKeys(tbl, ks))
         /\ \A i \in DOMAIN ks : Known(MapKeys(tbl, ks), ks[i])
<1>1. CASE \A i \in DOMAIN ks : Known(tbl, ks[i])
  BY <1>1, KeepsAlways DEF MapKeys
<1>2. CASE ~ \A i \in DOMAIN ks : Known(tbl, ks[i])
  <2>1. PICK f : PartialFolds(f, tbl, ks) /\ FoldLeft(MapTable, tbl, ks) = f[Len(ks)]
    BY FoldIsFold, Zenon
  <2>2. MapKeys(tbl, ks) = f[Len(ks)]
    BY <1>2, <2>1, Zenon DEF MapKeys
  <2>3. Len(ks) \in Nat /\ DOMAIN ks = 1 .. Len(ks) /\ \A i \in 1 .. Len(ks) : ks[i] \in keys
    OBVIOUS
  <2> DEFINE Done(n) == /\ Sound(f[n], keys, pairs) /\ Keeps(tbl, f[n])
                        /\ \A i \in 1 .. n : Known(f[n], ks[i])
             D == {n \in Nat : n <= Len(ks) => Done(n)}
  <2>4. \A n \in Nat : n \in D
    <3>1. 0 \in D
      <4>1. f[0] = tbl
        BY <2>1 DEF PartialFolds
      <4> QED BY <4>1, KeepsAlways
    <3>2. ASSUME NEW n \in Nat, n \in D PROVE n + 1 \in D
      <4> SUFFICES ASSUME n + 1 <= Len(ks) PROVE Done(n + 1)
        OBVIOUS
      <4>1. Done(n) /\ n + 1 \in 1 .. Len(ks) /\ (n + 1) - 1 = n
        BY <2>3, <3>2
      <4>2. f[n + 1] = MapTable(f[n], ks[n + 1]) /\ ks[n + 1] \in keys
        BY <2>1, <2>3, <4>1 DEF PartialFolds
      <4>3. /\ Sound(f[n + 1], keys, pairs) /\ Keeps(f[n], f[n + 1])
            /\ Known(f[n + 1], ks[n + 1])
        BY <4>1, <4>2, MapTableAppends
      <4>4. Keeps(tbl, f[n + 1])
        BY <4>1, <4>3, KeepsAlways, Zenon
      <4>5. ASSUME NEW i \in 1 .. n + 1 PROVE Known(f[n + 1], ks[i])
        <5>1. CASE i = n + 1
          BY <4>3, <5>1
        <5>2. CASE i # n + 1
          <6>1. i \in 1 .. n
            BY <5>2
          <6>2. Known(f[n], ks[i])
            BY <4>1, <6>1
          <6> QED BY <4>3, <6>2, Zenon DEF Keeps
        <5> QED BY <5>1, <5>2
      <4> QED BY <4>3, <4>4, <4>5
    <3> HIDE DEF D
    <3> QED BY <3>1, <3>2, NatSet
  <2>5. Done(Len(ks))
    BY <2>3, <2>4
  <2> QED BY <2>2, <2>3, <2>5
<1> QED BY <1>1, <1>2
-----------------------------------------------------------------------------
(* What keeps names keeps the names told.                                  *)
LEMMA KeepsNamed ==
  ASSUME NEW tbl, NEW after, NEW pairs, Keeps(tbl, after), NamedIn(tbl, pairs)
  PROVE  NamedIn(after, pairs)
<1> SUFFICES ASSUME OneToOne(pairs), NEW p \in pairs PROVE Name(after, p[1]) = Given(p[2])
  BY DEF NamedIn
<1>1. Name(tbl, p[1]) = Given(p[2])
  BY DEF NamedIn
<1>2. Known(tbl, p[1])
  BY <1>1, NamesApart DEF Name
<1> QED BY <1>1, <1>2, Zenon DEF Keeps

(* A table stays sound when more is told.                                  *)
LEMMA MoreTold ==
  ASSUME NEW keys, NEW tbl, NEW pairs, NEW more, Sound(tbl, keys, pairs)
  PROVE  Sound(tbl, keys, pairs \cup more)
BY DEF Sound, NameOK

(* add_to_symtbl() and its likes, when a name is told: the key gets it,    *)
(* and as long as the names told anew are one-to-one no other key loses    *)
(* its: what is overwritten is an entry of the key or one with the name.   *)
LEMMA AddRight ==
  ASSUME NEW keys, NEW tbl, NEW pairs, NEW new, Right(tbl, keys, pairs, new),
         NEW key \in keys, NEW name \in Names
  PROVE  Right(Add(tbl, key, Given(name)), keys,
               pairs \cup {<<key, name>>}, new \cup {<<key, name>>})
<1> DEFINE given == pairs \cup {<<key, name>>}
           all   == new \cup {<<key, name>>}
           entry == [key |-> key, name |-> Given(name)]
           hits  == {i \in DOMAIN tbl : tbl[i].key = key \/ tbl[i].name = Given(name)}
           after == Add(tbl, key, Given(name))
<1>0. /\ OneToOne(all) => /\ OneToOne(new)
                          /\ \A p \in new : p[1] = key <=> p[2] = name
      /\ all = new \cup {<<key, name>>} /\ <<key, name>>[1] = key /\ <<key, name>>[2] = name
  <2>1. <<key, name>> \in all /\ <<key, name>>[1] = key /\ <<key, name>>[2] = name
    OBVIOUS
  <2>2. \A p \in new : p \in all
    OBVIOUS
  <2> HIDE DEF all
  <2>3. OneToOne(all) => OneToOne(new)
    BY <2>2, Zenon DEF OneToOne
  <2>4. ASSUME OneToOne(all), NEW p \in new PROVE p[1] = key <=> p[2] = name
    <3>1. p[1] = <<key, name>>[1] <=> p[2] = <<key, name>>[2]
      BY <2>1, <2>2, <2>4, Zenon DEF OneToOne
    <3> QED BY <2>1, <3>1
  <2> QED BY <2>1, <2>3, <2>4 DEF all
<1>1. Sound(tbl, keys, given) /\ NamedIn(tbl, new) /\ NameOK(key, Given(name), given)
  BY MoreTold DEF Right, NameOK
<1> HIDE DEF all, given
<1>2. entry.key = key /\ entry.name = Given(name)
      /\ entry \in [key : keys, name : NameSet(keys)]
  BY <1>1, NameInSet
<1>3. /\ tbl \in Seq([key : keys, name : NameSet(keys)]) /\ DOMAIN tbl \in SUBSET Nat
      /\ Len(tbl) \in Nat /\ DOMAIN tbl = 1 .. Len(tbl)
  BY <1>1, TableEntries DEF Sound, TableOf
<1> HIDE DEF entry
<1>4. CASE hits = {}
  <2>1. after = Append(tbl, entry) /\ ~Known(tbl, key)
    BY <1>4 DEF Add, Known, entry
  <2>2. Sound(after, keys, given) /\ Name(after, key) = Given(name) /\ Keeps(tbl, after)
    BY <1>1, <2>1, Appended DEF entry
  <2>3. OneToOne(all) => \A p \in all : Name(after, p[1]) = Given(p[2])
    <3> SUFFICES ASSUME OneToOne(all), NEW p \in all PROVE Name(after, p[1]) = Given(p[2])
      OBVIOUS
    <3>1. NamedIn(after, new)
      BY <1>1, <2>2, KeepsNamed
    <3>2. CASE p \in new
      BY <1>0, <3>1, <3>2, Zenon DEF NamedIn
    <3>3. CASE p = <<key, name>>
      BY <1>0, <2>2, <3>3, Zenon
    <3> QED BY <1>0, <3>2, <3>3, Zenon
  <2> QED BY <2>2, <2>3 DEF Right, NamedIn, all, given
<1>5. CASE hits # {}
  <2> DEFINE m == Min(hits)
  <2>1. m \in hits /\ \A i \in hits : m <= i
    <3>1. hits \in SUBSET Nat
      BY <1>3
    <3> HIDE DEF hits
    <3> QED BY <1>5, <3>1, MinIsIn
  <2>2. after = [tbl EXCEPT ![m] = entry]
    BY <1>5 DEF Add, entry
  <2> HIDE DEF after, m
  <2>3. /\ after \in Seq([key : keys, name : NameSet(keys)])
        /\ DOMAIN after = DOMAIN tbl /\ after[m] = entry /\ m \in DOMAIN tbl
        /\ \A i \in DOMAIN tbl : i # m => after[i] = tbl[i]
    BY <1>2, <1>3, <2>1, <2>2
  <2>4. after \in TableOf(keys)
    BY <2>3 DEF TableOf
  <2>5. Sound(after, keys, given)
    BY <1>1, <1>2, <2>3, <2>4 DEF Sound
  <2>6. OneToOne(all) => \A p \in all : Name(after, p[1]) = Given(p[2])
    <3> SUFFICES ASSUME OneToOne(all) PROVE \A p \in all : Name(after, p[1]) = Given(p[2])
      OBVIOUS
    <3>1. At(after, key) = At(tbl, key) \cup {m}
      BY <1>2, <2>3 DEF At
    <3>2. Min(At(after, key)) = m /\ Known(after, key)
      <4>1. At(tbl, key) \subseteq hits /\ hits \in SUBSET Nat
        BY <1>3 DEF At
      <4> DEFINE S == At(after, key)
      <4>2. m \in S /\ S \in SUBSET Nat /\ \A i \in S : m <= i
        BY <2>1, <3>1, <4>1
      <4> HIDE DEF S
      <4>3. Min(S) = m
        BY <4>2, LeastIsMin
      <4>4. Known(after, key)
        BY <1>2, <2>3 DEF Known
      <4> QED BY <4>3, <4>4 DEF S
    <3>3. Name(after, key) = Given(name)
      <4>1. Name(after, key) = after[Min(At(after, key))].name
        BY <2>4, <3>2, NameIsThere
      <4> QED BY <1>2, <2>3, <3>2, <4>1
    <3>4. ASSUME NEW p \in new, p[1] # key PROVE Name(after, p[1]) = Given(p[2])
      <4> DEFINE k == p[1]
                 j == Min(At(tbl, k))
      <4>1. Name(tbl, k) = Given(p[2])
        BY <1>0, <1>1 DEF NamedIn
      <4>2. Known(tbl, k)
        BY <4>1, NamesApart DEF Name
      <4>3. Name(tbl, k) = tbl[j].name /\ j \in At(tbl, k) /\ \A i \in At(tbl, k) : j <= i
        <5>1. tbl \in TableOf(keys) /\ At(tbl, k) \in SUBSET Nat /\ At(tbl, k) # {}
          BY <1>1, <1>3, <4>2 DEF Sound, At, Known
        <5> HIDE DEF k
        <5> QED BY <4>2, <5>1, NameIsThere, MinIsIn
      <4> HIDE DEF j
      <4>4. j \in DOMAIN tbl /\ tbl[j].key = k /\ tbl[j].name = Given(p[2])
        BY <4>1, <4>3 DEF At
      <4>5. p[2] # name
        BY <1>0, <3>4
      <4>6. j # m
        <5>1. Given(p[2]) # Given(name)
          BY <4>5, NamesApart
        <5> QED BY <2>1, <3>4, <4>4, <5>1
      <4> DEFINE S == At(after, k)
      <4>7. j \in S /\ S \in SUBSET Nat /\ \A i \in S : j <= i
        <5>1. j \in S
          BY <2>3, <4>4, <4>6 DEF At
        <5>2. \A i \in S : i \in At(tbl, k)
          BY <1>2, <2>3, <3>4 DEF At
        <5>3. S \in SUBSET Nat
          BY <1>3, <2>3 DEF At
        <5> QED BY <4>3, <5>1, <5>2, <5>3
      <4>8. Known(after, k)
        BY <4>7 DEF At, Known
      <4>9. Min(S) = j
        <5> HIDE DEF S
        <5> QED BY <4>7, LeastIsMin
      <4>10. Name(after, k) = after[j].name
        BY <2>4, <4>8, <4>9, NameIsThere
      <4> QED BY <2>3, <4>4, <4>6, <4>10
    <3>5. ASSUME NEW p \in all PROVE Name(after, p[1]) = Given(p[2])
      <4>1. CASE p \in new /\ p[1] = key
        <5>1. p[2] = name
          BY <1>0, <4>1
        <5> QED BY <3>3, <4>1, <5>1
      <4>2. CASE p \in new /\ p[1] # key
        BY <3>4, <4>2
      <4>3. CASE p = <<key, name>>
        BY <1>0, <3>3, <4>3, Zenon
      <4> QED BY <1>0, <4>1, <4>2, <4>3
    <3> QED BY <3>5
  <2> QED BY <2>5, <2>6 DEF Right, NamedIn, all, given, after
<1> QED BY <1>4, <1>5

(* Look-ups of keys keep the names told, and know the keys then.           *)
LEMMA MapRight ==
  ASSUME NEW keys, NEW tbl, NEW pairs, NEW new, Right(tbl, keys, pairs, new), NEW ks \in Seq(keys)
  PROVE  /\ Right(MapKeys(tbl, ks), keys, pairs, new) /\ Keeps(tbl, MapKeys(tbl, ks))
         /\ \A i \in DOMAIN ks : Known(MapKeys(tbl, ks), ks[i])
BY MapKeysAppends, KeepsNamed DEF Right
-----------------------------------------------------------------------------
(* What look-ups of keys come to: a table that knows them all, and names   *)
(* of which those at some of the places may be gone.                       *)
Found(r, tbl, keys, ks, pairs, new) ==
  /\ Right(r.tbl, keys, pairs, new) /\ Keeps(tbl, r.tbl)
  /\ \A i \in DOMAIN ks : Known(r.tbl, ks[i])
  /\ \A i \in DOMAIN ks : NameOK(ks[i], r.names[i], pairs) \/ r.names[i] = Dangling

Whole(r, ks, pairs) == \A i \in DOMAIN ks : NameOK(ks[i], r.names[i], pairs)

(* Look-ups one by one lose no name.                                       *)
LEMMA OneByOneFinds ==
  ASSUME NEW keys, NEW tbl, NEW pairs, NEW new, Right(tbl, keys, pairs, new), NEW ks \in Seq(keys),
         NEW r \in MapOneByOne(tbl, ks)
  PROVE  Found(r, tbl, keys, ks, pairs, new) /\ Whole(r, ks, pairs)
<1> DEFINE after == MapKeys(tbl, ks)
<1>1. r.tbl = after /\ \A i \in DOMAIN ks : r.names[i] = Name(after, ks[i])
  BY DEF MapOneByOne
<1>2. /\ Right(after, keys, pairs, new) /\ Keeps(tbl, after)
      /\ \A i \in DOMAIN ks : Known(after, ks[i])
  BY MapRight
<1> HIDE DEF after
<1>3. \A i \in DOMAIN ks : NameOK(ks[i], r.names[i], pairs)
  BY <1>1, <1>2, NameRight DEF Right
<1> QED BY <1>1, <1>2, <1>3, Zenon DEF Found, Whole

(* An order of the indices has all of them.                                *)
LEMMA OrdersAll ==
  ASSUME NEW n \in Nat, NEW order \in [1 .. n -> 1 .. n], IsInjective(order)
  PROVE  \A i \in 1 .. n : \E p \in 1 .. n : order[p] = i
<1>1. IsFiniteSet(1 .. n)
  BY FS_Interval
<1>2. order \in Injection(1 .. n, 1 .. n)
  BY DEF Injection, IsInjective
<1>3. order \in Surjection(1 .. n, 1 .. n)
  BY <1>1, <1>2, FS_Injection, Zenon
<1> QED BY <1>3 DEF Surjection

(* Look-ups in one call, in whatever order: some of the names may be gone. *)
LEMMA LookupsFind ==
  ASSUME NEW keys, NEW tbl, NEW pairs, NEW new, Right(tbl, keys, pairs, new), NEW ks \in Seq(keys),
         NEW order \in [DOMAIN ks -> DOMAIN ks], IsInjective(order), NEW moved
  PROVE  Found(Lookups(tbl, ks, order, moved), tbl, keys, ks, pairs, new)
<1> DEFINE permuted == [p \in DOMAIN ks |-> ks[order[p]]]
           after    == MapKeys(tbl, permuted)
           r        == Lookups(tbl, ks, order, moved)
<1>1. Len(ks) \in Nat /\ DOMAIN ks = 1 .. Len(ks) /\ \A i \in DOMAIN ks : ks[i] \in keys
  OBVIOUS
<1>2. permuted \in Seq(keys) /\ DOMAIN permuted = DOMAIN ks
  <2>1. \A p \in 1 .. Len(ks) : ks[order[p]] \in keys
    BY <1>1
  <2> QED BY <1>1, <2>1
<1>3. r.tbl = after /\ \A i \in DOMAIN ks : r.names[i] \in {Dangling, Name(after, ks[i])}
  BY DEF Lookups
<1> HIDE DEF r
<1>4. /\ Right(after, keys, pairs, new) /\ Keeps(tbl, after)
      /\ \A p \in DOMAIN ks : Known(after, permuted[p])
  <2> HIDE DEF permuted
  <2> QED BY <1>2, MapRight
<1>5. ASSUME NEW i \in DOMAIN ks PROVE Known(after, ks[i])
  <2>0. order \in [1 .. Len(ks) -> 1 .. Len(ks)]
    BY <1>1
  <2>1. PICK p \in DOMAIN ks : order[p] = i
    <3>1. \A k \in 1 .. Len(ks) : \E p \in 1 .. Len(ks) : order[p] = k
      BY <1>1, <2>0, OrdersAll, Zenon
    <3> QED BY <1>1, <3>1
  <2>2. permuted[p] = ks[i]
    BY <2>1
  <2> HIDE DEF after, permuted
  <2> QED BY <1>4, <2>2
<1> HIDE DEF after, permuted
<1>6. \A i \in DOMAIN ks : NameOK(ks[i], Name(after, ks[i]), pairs)
  BY <1>4, <1>5, NameRight DEF Right
<1> QED BY <1>3, <1>4, <1>5, <1>6, Zenon DEF Found, r

(* If no key is new, none of them is.                                      *)
LEMMA ArgumentsFind ==
  ASSUME NEW keys, NEW tbl, NEW pairs, NEW new, Right(tbl, keys, pairs, new), NEW ks \in Seq(keys),
         NEW r \in MapArguments(tbl, ks)
  PROVE  Found(r, tbl, keys, ks, pairs, new) /\ (~Fresh(tbl, ks) => Whole(r, ks, pairs))
<1> DEFINE orders == {f \in [DOMAIN ks -> DOMAIN ks] : IsInjective(f)}
           moves  == SUBSET {i \in DOMAIN ks : ~Known(tbl, ks[i])}
           found  == {Lookups(tbl, ks, order, moved) : order \in orders, moved \in moves}
<1>0. MapArguments(tbl, ks) = IF ~Fresh(tbl, ks) THEN MapOneByOne(tbl, ks) ELSE found
  BY DEF MapArguments
<1> HIDE DEF orders, moves, found
<1>1. CASE ~Fresh(tbl, ks)
  <2>1. r \in MapOneByOne(tbl, ks)
    BY <1>0, <1>1
  <2> QED BY <2>1, OneByOneFinds
<1>2. CASE Fresh(tbl, ks)
  <2>0. r \in found
    BY <1>0, <1>2
  <2>1. PICK order \in orders, moved \in moves : r = Lookups(tbl, ks, order, moved)
    BY <2>0 DEF found
  <2>2. order \in [DOMAIN ks -> DOMAIN ks] /\ IsInjective(order)
    BY <2>1 DEF orders
  <2>3. Found(Lookups(tbl, ks, order, moved), tbl, keys, ks, pairs, new)
    BY <2>2, LookupsFind, Zenon
  <2> QED BY <1>2, <2>1, <2>3, Zenon
<1> QED BY <1>1, <1>2

(* Nor if the names are copied one by one.                                 *)
LEMMA MappedFind ==
  ASSUME NEW keys, NEW tbl, NEW pairs, NEW new, Right(tbl, keys, pairs, new), NEW ks \in Seq(keys),
         NEW copied, NEW r \in Mapped(tbl, ks, copied)
  PROVE  /\ Found(r, tbl, keys, ks, pairs, new)
         /\ copied \/ ~Fresh(tbl, ks) => Whole(r, ks, pairs)
<1>1. r \in MapOneByOne(tbl, ks) \/ (~copied /\ r \in MapArguments(tbl, ks))
  BY Zenon DEF Mapped
<1>2. CASE r \in MapOneByOne(tbl, ks)
  BY <1>2, OneByOneFinds
<1>3. CASE ~copied /\ r \in MapArguments(tbl, ks)
  BY <1>3, ArgumentsFind, Zenon
<1> QED BY <1>1, <1>2, <1>3
-----------------------------------------------------------------------------
(* A name found is neither gone nor missing, and was told if it is a given *)
(* one.                                                                    *)
LEMMA NameOKs ==
  ASSUME NEW key, NEW name, NEW pairs, NameOK(key, name, pairs)
  PROVE  /\ name \notin {Dangling, Static, NoName}
         /\ name[1] = "given" => <<key, name[2]>> \in pairs
BY NamesApart, Zenon DEF NameOK

(* Names that are shown were told for what they are shown for.             *)
Honest(triples, t) ==
  \A s \in triples : s[1] # "uevt" /\ s[3][1] = "given" => <<s[2], s[3][2]>> \in t[s[1]]

(* Names found are honest.                                                 *)
LEMMA TriplesHonest ==
  ASSUME NEW t, NEW table, NEW ks, NEW names,
         \A i \in DOMAIN ks : NameOK(ks[i], names[i], t[table]) \/ names[i] = Dangling
  PROVE  Honest(Triples(table, ks, names), t)
<1> SUFFICES ASSUME NEW s \in Triples(table, ks, names), s[3][1] = "given"
             PROVE  <<s[2], s[3][2]>> \in t[s[1]]
  BY DEF Honest
<1>1. PICK i \in DOMAIN ks : s = <<table, ks[i], names[i]>>
  BY DEF Triples
<1>2. s[1] = table /\ s[2] = ks[i] /\ s[3] = names[i]
  BY <1>1
<1>3. names[i] # Dangling
  BY <1>2, NamesApart, Zenon
<1>4. NameOK(ks[i], names[i], t[table])
  BY <1>3
<1> QED BY <1>2, <1>4, NameOKs

(* Names that are whole.                                                   *)
LEMMA TriplesWhole ==
  ASSUME NEW pairs, NEW table, NEW ks, NEW names,
         \A i \in DOMAIN ks : NameOK(ks[i], names[i], pairs)
  PROVE  \A s \in Triples(table, ks, names) : s[3] \notin {Dangling, NoName}
<1> SUFFICES ASSUME NEW s \in Triples(table, ks, names) PROVE s[3] \notin {Dangling, NoName}
  OBVIOUS
<1>1. PICK i \in DOMAIN ks : s = <<table, ks[i], names[i]>>
  BY DEF Triples
<1>2. s[3] = names[i]
  BY <1>1
<1> QED BY <1>2, NameOKs

(* So are two lists of honest names together.                              *)
LEMMA HonestUnion ==
  ASSUME NEW a, NEW b, NEW t, Honest(a, t), Honest(b, t)
  PROVE  Honest(a \cup b, t)
BY DEF Honest
-----------------------------------------------------------------------------
TablesRight ==
  /\ told \in [Tables -> SUBSET (Nat \X Names)]
  /\ anew \in [Tables -> SUBSET (Nat \X Names)]
  /\ Right(symb_tbl, Objects \cup {0}, told["symb"], anew["symb"])
  /\ Right(epid_tbl, Pools, told["epid"], anew["epid"])
  /\ Right(sig_tbl, Signals, told["sig"], anew["sig"])
  /\ Right(uevt_tbl, UserEvents, told["uevt"], anew["uevt"])

NamesRight == TablesRight /\ NoStrangeNames /\ OnlyFirstSightGarbled /\ DiagramWhole

(* The pools of a record, in a sequence.                                   *)
LEMMA PoolSequence ==
  ASSUME NEW pools \in SUBSET (Pools \cup {0}), IsFiniteSet(pools)
  PROVE  SetToSeq(pools \ {0}) \in Seq(Pools)
<1> DEFINE S == pools \ {0}
           n == Cardinality(S)
<1>1. IsFiniteSet(S) /\ S \in SUBSET Pools
  BY FS_RemoveElement
<1> HIDE DEF S
<1>2. n \in Nat /\ ExistsBijection(1 .. n, S)
  BY <1>1, FS_CardinalityType
<1>3. PICK f : f \in Bijection(1 .. n, S)
  BY <1>2 DEF ExistsBijection
<1> HIDE DEF n
<1>4. f \in [1 .. n -> S] /\ IsInjective(f)
  BY <1>3 DEF Bijection, Injection, IsInjective
<1>5. SetToSeq(S) \in [1 .. n -> S]
  BY <1>4 DEF SetToSeq, n
<1>6. SetToSeq(S) \in Seq(Pools)
  <2> DEFINE q == SetToSeq(S)
  <2> HIDE DEF q
  <2>1. q \in [1 .. n -> Pools]
    BY <1>1, <1>5 DEF q
  <2> QED BY <1>2, <2>1 DEF q
<1> QED BY <1>6 DEF S

(* A record that is formatted, and the line drawn of it from the objects   *)
(* it has.                                                                 *)
LEMMA FormattedRight ==
  ASSUME TablesRight,
         NEW objs \in Seq(Objects \cup {0}), NEW sigs \in Seq(Signals),
         NEW pools \in SUBSET (Pools \cup {0}), IsFiniteSet(pools),
         NEW copied, NEW line,
         line.objs \in Seq(Objects \cup {0}), line.sigs \in Seq(Signals),
         \A i \in DOMAIN line.objs : \E j \in DOMAIN objs : line.objs[i] = objs[j],
         Formatted(objs, sigs, pools, copied, line)
  PROVE  NamesRight'
<1> DEFINE O == Objects \cup {0}
           los == line.objs
           lss == line.sigs
<1>0. PICK o \in Mapped(symb_tbl, objs, copied), s \in MapOneByOne(sig_tbl, sigs) :
           \E d \in MapArguments(o.tbl, line.objs), ds \in MapOneByOne(s.tbl, line.sigs) :
             /\ symb_tbl' = d.tbl
             /\ sig_tbl'  = ds.tbl
             /\ epid_tbl' = map_epid_table(epid_tbl, pools)
             /\ diagram'  = Lined(line, d, ds)
             /\ shown'    = [names  |-> Triples("symb", objs, o.names)
                                \cup Triples("sig", sigs, s.names)
                                \cup {<<"epid", epid, map_epid_name(epid_tbl', epid)>> :
                                        epid \in pools},
                             fresh  |-> Fresh(symb_tbl, objs),
                             copied |-> copied]
             /\ UNCHANGED <<uevt_tbl, told, anew>>
  BY DEF Formatted
<1>1. PICK d \in MapArguments(o.tbl, los), ds \in MapOneByOne(s.tbl, lss) :
             /\ symb_tbl' = d.tbl
             /\ sig_tbl'  = ds.tbl
             /\ epid_tbl' = map_epid_table(epid_tbl, pools)
             /\ diagram'  = Lined(line, d, ds)
             /\ shown'    = [names  |-> Triples("symb", objs, o.names)
                                \cup Triples("sig", sigs, s.names)
                                \cup {<<"epid", epid, map_epid_name(epid_tbl', epid)>> :
                                        epid \in pools},
                             fresh  |-> Fresh(symb_tbl, objs),
                             copied |-> copied]
             /\ UNCHANGED <<uevt_tbl, told, anew>>
  BY <1>0
<1> DEFINE ps == {<<"epid", epid, map_epid_name(epid_tbl', epid)>> : epid \in pools}
           os == Triples("symb", objs, o.names)
           ss == Triples("sig", sigs, s.names)
           dos == Triples("symb", los, d.names)
           dss == Triples("sig", lss, ds.names)
<1>2. /\ shown'.names = os \cup ss \cup ps
      /\ shown'.fresh = Fresh(symb_tbl, objs) /\ shown'.copied = copied
      /\ diagram'.names = dos \cup dss
      /\ told' = told /\ anew' = anew /\ uevt_tbl' = uevt_tbl
  <2> HIDE DEF ps, os, ss, dos, dss
  <2>1. shown' = [names |-> os \cup ss \cup ps, fresh |-> Fresh(symb_tbl, objs),
                  copied |-> copied]
    BY <1>1 DEF ps, os, ss
  <2>2. diagram' = [timer |-> line.timer, names |-> dos \cup dss]
    BY <1>1 DEF Lined, dos, dss
  <2> QED BY <1>1, <2>1, <2>2
<1>3. /\ Right(symb_tbl, O, told["symb"], anew["symb"])
      /\ Right(sig_tbl, Signals, told["sig"], anew["sig"])
      /\ Right(epid_tbl, Pools, told["epid"], anew["epid"])
  BY DEF TablesRight
<1> HIDE DEF O, los, lss
<1>4. /\ los \in Seq(O) /\ lss \in Seq(Signals) /\ objs \in Seq(O)
  BY DEF O, los, lss
<1>5. /\ Found(o, symb_tbl, O, objs, told["symb"], anew["symb"])
      /\ copied \/ ~Fresh(symb_tbl, objs) => Whole(o, objs, told["symb"])
  BY <1>3, <1>4, MappedFind
<1>6. Found(s, sig_tbl, Signals, sigs, told["sig"], anew["sig"]) /\ Whole(s, sigs, told["sig"])
  BY <1>3, OneByOneFinds
<1>7. ~Fresh(o.tbl, los)
  <2>1. \A i \in DOMAIN los : \E j \in DOMAIN objs : los[i] = objs[j]
    BY DEF los
  <2>2. \A j \in DOMAIN objs : Known(o.tbl, objs[j])
    BY <1>5 DEF Found
  <2> QED BY <2>1, <2>2, Zenon DEF Fresh
<1>8. Found(d, o.tbl, O, los, told["symb"], anew["symb"]) /\ Whole(d, los, told["symb"])
  <2>1. Right(o.tbl, O, told["symb"], anew["symb"])
    BY <1>5 DEF Found
  <2> QED BY <1>4, <1>7, <2>1, ArgumentsFind
<1>9. Found(ds, s.tbl, Signals, lss, told["sig"], anew["sig"]) /\ Whole(ds, lss, told["sig"])
  <2>1. Right(s.tbl, Signals, told["sig"], anew["sig"])
    BY <1>6 DEF Found
  <2> QED BY <1>4, <2>1, OneByOneFinds
<1>10. Right(epid_tbl', Pools, told["epid"], anew["epid"])
  <2> DEFINE q == SetToSeq(pools \ {0})
  <2>1. q \in Seq(Pools)
    BY PoolSequence
  <2>2. epid_tbl' = MapKeys(epid_tbl, q)
    BY <1>1 DEF map_epid_table
  <2> HIDE DEF q
  <2> QED BY <1>3, <2>1, <2>2, MapRight
<1>11. TablesRight'
  <2>1. Right(d.tbl, O, told["symb"], anew["symb"])
        /\ Right(ds.tbl, Signals, told["sig"], anew["sig"])
    BY <1>8, <1>9 DEF Found
  <2> QED BY <1>1, <1>2, <1>10, <2>1 DEF TablesRight, O
<1>12. ASSUME NEW x \in ps
       PROVE  x[3] # Dangling /\ (x[3][1] = "given" => <<x[2], x[3][2]>> \in told[x[1]])
  <2>1. PICK epid \in pools : x = <<"epid", epid, map_epid_name(epid_tbl', epid)>>
    OBVIOUS
  <2> DEFINE name == map_epid_name(epid_tbl', epid)
  <2>2. name = Static \/ name = Name(epid_tbl', epid)
    BY DEF map_epid_name
  <2>3. x[1] = "epid" /\ x[2] = epid /\ x[3] = name
    BY <2>1
  <2> HIDE DEF name
  <2>4. name \in {Static, NoName} \/ NameOK(epid, name, told["epid"])
    BY <1>10, <2>2, NameOrNone DEF Right
  <2>5. CASE name \in {Static, NoName}
    <3>1. name # Dangling /\ name[1] # "given"
      BY <2>5, NamesApart
    <3> QED BY <2>3, <3>1
  <2>6. CASE NameOK(epid, name, told["epid"])
    <3>1. name # Dangling /\ (name[1] = "given" => <<epid, name[2]>> \in told["epid"])
      BY <2>6, NameOKs
    <3> QED BY <2>3, <3>1
  <2> QED BY <2>4, <2>5, <2>6
<1> HIDE DEF ps
<1>13. Honest(os, told) /\ Honest(ss, told) /\ Honest(dos, told) /\ Honest(dss, told)
  <2>1. /\ \A i \in DOMAIN objs : NameOK(objs[i], o.names[i], told["symb"]) \/ o.names[i] = Dangling
        /\ \A i \in DOMAIN sigs : NameOK(sigs[i], s.names[i], told["sig"]) \/ s.names[i] = Dangling
        /\ \A i \in DOMAIN los : NameOK(los[i], d.names[i], told["symb"]) \/ d.names[i] = Dangling
        /\ \A i \in DOMAIN lss : NameOK(lss[i], ds.names[i], told["sig"]) \/ ds.names[i] = Dangling
    BY <1>5, <1>6, <1>8, <1>9, Zenon DEF Found
  <2>2. Honest(os, told)
    BY <2>1, TriplesHonest
  <2>3. Honest(ss, told)
    BY <2>1, TriplesHonest
  <2>4. Honest(dos, told)
    BY <2>1, TriplesHonest
  <2>5. Honest(dss, told)
    BY <2>1, TriplesHonest
  <2> QED BY <2>2, <2>3, <2>4, <2>5, Zenon
<1>14. Honest(ps, told)
  BY <1>12 DEF Honest
<1>15. /\ (copied \/ ~Fresh(symb_tbl, objs)) => \A x \in os : x[3] # Dangling
       /\ \A x \in ss : x[3] # Dangling
       /\ \A x \in dos \cup dss : x[3] \notin {Dangling, NoName}
  <2>1. ASSUME copied \/ ~Fresh(symb_tbl, objs), NEW x \in os PROVE x[3] # Dangling
    <3>1. \A y \in Triples("symb", objs, o.names) : y[3] \notin {Dangling, NoName}
      BY <1>5, <2>1, TriplesWhole DEF Whole
    <3> QED BY <3>1
  <2>2. \A y \in ss : y[3] \notin {Dangling, NoName}
    BY <1>6, TriplesWhole DEF Whole
  <2>3. \A y \in dos : y[3] \notin {Dangling, NoName}
    BY <1>8, TriplesWhole DEF Whole
  <2>4. \A y \in dss : y[3] \notin {Dangling, NoName}
    BY <1>9, TriplesWhole DEF Whole
  <2> HIDE DEF os, ss, dos, dss
  <2> QED BY <2>1, <2>2, <2>3, <2>4
<1> HIDE DEF os, ss, dos, dss
<1>16. NoStrangeNames'
  <2>1. Honest(shown'.names \cup diagram'.names, told')
    BY <1>2, <1>13, <1>14, HonestUnion
  <2> QED BY <2>1 DEF NoStrangeNames, Honest
<1>17. OnlyFirstSightGarbled'
  BY <1>2, <1>12, <1>15 DEF OnlyFirstSightGarbled
<1>18. DiagramWhole'
  BY <1>2, <1>15 DEF DiagramWhole
<1> QED BY <1>11, <1>16, <1>17, <1>18 DEF NamesRight
-----------------------------------------------------------------------------
(* An empty table is right when nothing was told.                          *)
LEMMA EmptyRight ==
  ASSUME NEW keys
  PROVE  Right(<<>>, keys, {}, {})
<1>1. <<>> \in TableOf(keys) /\ DOMAIN <<>> = {}
  BY DEF TableOf
<1> QED BY <1>1 DEF Right, Sound, NamedIn

(* What tells a name and shows at most the one of another object.          *)
LEMMA NothingDrawn ==
  ASSUME diagram' = NoLine,
         \/ shown' = Nothing
         \/ \E key : \E name : /\ shown' = [Nothing EXCEPT !.names = {<<"symb", key, name>>}]
                               /\ NameOK(key, name, told'["symb"])
  PROVE  NoStrangeNames' /\ OnlyFirstSightGarbled' /\ DiagramWhole'
<1>1. diagram'.names = {} /\ Nothing.names = {}
  BY DEF NoLine, Nothing
<1>2. DiagramWhole'
  BY <1>1 DEF DiagramWhole
<1>3. CASE shown' = Nothing
  BY <1>1, <1>2, <1>3 DEF NoStrangeNames, OnlyFirstSightGarbled
<1>4. ASSUME NEW key, NEW name, shown' = [Nothing EXCEPT !.names = {<<"symb", key, name>>}],
             NameOK(key, name, told'["symb"])
      PROVE  NoStrangeNames' /\ OnlyFirstSightGarbled'
  <2>1. shown'.names = {<<"symb", key, name>>}
    BY <1>4 DEF Nothing
  <2>2. name # Dangling /\ (name[1] = "given" => <<key, name[2]>> \in told'["symb"])
    BY <1>4, NameOKs
  <2>3. <<"symb", key, name>>[1] = "symb" /\ <<"symb", key, name>>[2] = key
        /\ <<"symb", key, name>>[3] = name
    OBVIOUS
  <2>4. NoStrangeNames'
    BY <1>1, <2>1, <2>2, <2>3 DEF NoStrangeNames
  <2>5. OnlyFirstSightGarbled'
    BY <2>1, <2>2, <2>3 DEF OnlyFirstSightGarbled
  <2> QED BY <2>4, <2>5
<1> QED BY <1>2, <1>3, <1>4

(* Nothing is told at first.                                               *)
LEMMA InitNames == Init => NamesRight
<1> SUFFICES ASSUME Init PROVE NamesRight
  OBVIOUS
<1>1. /\ symb_tbl = <<>> /\ epid_tbl = <<>> /\ sig_tbl = <<>> /\ uevt_tbl = <<>>
      /\ shown = Nothing /\ diagram = NoLine
      /\ told = [t \in Tables |-> {}] /\ anew = [t \in Tables |-> {}]
  BY DEF Init
<1>2. /\ told \in [Tables -> SUBSET (Nat \X Names)] /\ \A t \in Tables : told[t] = {}
      /\ anew \in [Tables -> SUBSET (Nat \X Names)] /\ \A t \in Tables : anew[t] = {}
  BY <1>1
<1>3. TablesRight
  BY <1>1, <1>2, EmptyRight DEF TablesRight, Tables
<1>4. shown.names = {} /\ diagram.names = {}
  BY <1>1 DEF Nothing, NoLine
<1> QED BY <1>3, <1>4 DEF NamesRight, NoStrangeNames, OnlyFirstSightGarbled, DiagramWhole

(* The target starts: the tables of objects and pools are emptied, what    *)
(* was told of them is void, and nothing is told anew as yet.              *)
LEMMA ConfiguredNames ==
  ASSUME NamesRight, Configured
  PROVE  NamesRight'
<1>1. /\ symb_tbl' = <<>> /\ epid_tbl' = <<>> /\ sig_tbl' = sig_tbl /\ uevt_tbl' = uevt_tbl
      /\ shown' = Nothing /\ diagram' = NoLine
      /\ told' = [told EXCEPT !["symb"] = {}, !["epid"] = {}]
      /\ anew' = [t \in Tables |-> {}]
  BY DEF Configured
<1>2. told \in [Tables -> SUBSET (Nat \X Names)]
  BY DEF NamesRight, TablesRight
<1>3. /\ told' \in [Tables -> SUBSET (Nat \X Names)]
      /\ told'["symb"] = {} /\ told'["epid"] = {}
      /\ told'["sig"] = told["sig"] /\ told'["uevt"] = told["uevt"]
  BY <1>1, <1>2 DEF Tables
<1>4. anew' \in [Tables -> SUBSET (Nat \X Names)] /\ \A t \in Tables : anew'[t] = {}
  BY <1>1
<1>5. /\ Right(symb_tbl', Objects \cup {0}, told'["symb"], anew'["symb"])
      /\ Right(epid_tbl', Pools, told'["epid"], anew'["epid"])
  BY <1>1, <1>3, <1>4, EmptyRight DEF Tables
<1>6. /\ Right(sig_tbl', Signals, told'["sig"], anew'["sig"])
      /\ Right(uevt_tbl', UserEvents, told'["uevt"], anew'["uevt"])
  <2>1. Sound(sig_tbl, Signals, told["sig"]) /\ Sound(uevt_tbl, UserEvents, told["uevt"])
    BY DEF NamesRight, TablesRight, Right
  <2>2. anew'["sig"] = {} /\ anew'["uevt"] = {}
    BY <1>4 DEF Tables
  <2>3. NamedIn(sig_tbl, {}) /\ NamedIn(uevt_tbl, {})
    BY DEF NamedIn
  <2> QED BY <1>1, <1>3, <2>1, <2>2, <2>3 DEF Right
<1>7. TablesRight'
  BY <1>3, <1>4, <1>5, <1>6 DEF TablesRight
<1> QED BY <1>1, <1>7, NothingDrawn DEF NamesRight

(* What Tell() notes.                                                      *)
LEMMA Telling ==
  ASSUME TablesRight, NEW table \in Tables, NEW key \in Nat, NEW name \in Names,
         Tell(table, key, name)
  PROVE  /\ told' \in [Tables -> SUBSET (Nat \X Names)]
         /\ told'[table] = told[table] \cup {<<key, name>>}
         /\ \A t \in Tables \ {table} : told'[t] = told[t]
         /\ anew' \in [Tables -> SUBSET (Nat \X Names)]
         /\ anew'[table] = anew[table] \cup {<<key, name>>}
         /\ \A t \in Tables \ {table} : anew'[t] = anew[t]
         /\ diagram' = NoLine
<1>1. /\ told' = [told EXCEPT ![table] = @ \cup {<<key, name>>}] /\ diagram' = NoLine
      /\ anew' = [anew EXCEPT ![table] = @ \cup {<<key, name>>}]
      /\ told \in [Tables -> SUBSET (Nat \X Names)]
      /\ anew \in [Tables -> SUBSET (Nat \X Names)]
  BY DEF Tell, TablesRight
<1> QED BY <1>1

(* h_symobj()                                                              *)
LEMMA GiveObjectNames ==
  ASSUME NamesRight, NEW obj \in Objects, NEW name \in Names, GiveObject(obj, name)
  PROVE  NamesRight'
<1>1. /\ symb_tbl' = Add(symb_tbl, obj, Given(name)) /\ shown' = Nothing
      /\ Tell("symb", obj, name) /\ UNCHANGED <<epid_tbl, sig_tbl, uevt_tbl>>
  BY DEF GiveObject
<1>2. /\ told' \in [Tables -> SUBSET (Nat \X Names)] /\ diagram' = NoLine
      /\ told'["symb"] = told["symb"] \cup {<<obj, name>>}
      /\ told'["epid"] = told["epid"] /\ told'["sig"] = told["sig"]
      /\ told'["uevt"] = told["uevt"]
      /\ anew' \in [Tables -> SUBSET (Nat \X Names)]
      /\ anew'["symb"] = anew["symb"] \cup {<<obj, name>>}
      /\ anew'["epid"] = anew["epid"] /\ anew'["sig"] = anew["sig"]
      /\ anew'["uevt"] = anew["uevt"]
  BY <1>1, Telling, TablesAssumption DEF NamesRight, Tables
<1>3. Right(symb_tbl', Objects \cup {0}, told'["symb"], anew'["symb"])
  BY <1>1, <1>2, AddRight DEF NamesRight, TablesRight
<1> QED BY <1>1, <1>2, <1>3, NothingDrawn DEF NamesRight, TablesRight

(* h_symst(): the table grows by the state machine before the name is told.*)
LEMMA GiveStateNames ==
  ASSUME NamesRight, NEW ao \in Objects, NEW obj \in Objects, NEW name \in Names,
         GiveState(ao, obj, name)
  PROVE  NamesRight'
<1> DEFINE after == MapTable(symb_tbl, ao)
           first == Name(after, ao)
           O == Objects \cup {0}
<1>1. /\ symb_tbl' = Add(after, obj, Given(name))
      /\ shown' = [Nothing EXCEPT !.names = {<<"symb", ao, first>>}]
      /\ Tell("symb", obj, name) /\ UNCHANGED <<epid_tbl, sig_tbl, uevt_tbl>>
  BY DEF GiveState
<1>2. /\ told' \in [Tables -> SUBSET (Nat \X Names)] /\ diagram' = NoLine
      /\ told'["symb"] = told["symb"] \cup {<<obj, name>>}
      /\ told'["epid"] = told["epid"] /\ told'["sig"] = told["sig"]
      /\ told'["uevt"] = told["uevt"]
      /\ anew' \in [Tables -> SUBSET (Nat \X Names)]
      /\ anew'["symb"] = anew["symb"] \cup {<<obj, name>>}
      /\ anew'["epid"] = anew["epid"] /\ anew'["sig"] = anew["sig"]
      /\ anew'["uevt"] = anew["uevt"]
  BY <1>1, Telling, TablesAssumption DEF NamesRight, Tables
<1>3. Right(symb_tbl, O, told["symb"], anew["symb"])
  BY DEF NamesRight, TablesRight
<1>4. Sound(after, O, told["symb"]) /\ Keeps(symb_tbl, after) /\ Known(after, ao)
  BY <1>3, MapTableAppends DEF Right
<1> HIDE DEF after
<1>5. Right(after, O, told["symb"], anew["symb"])
  BY <1>3, <1>4, KeepsNamed DEF Right
<1>6. Right(symb_tbl', O, told'["symb"], anew'["symb"])
  BY <1>1, <1>2, <1>5, AddRight
<1>7. NameOK(ao, first, told'["symb"])
  <2>1. NameOK(ao, first, told["symb"])
    BY <1>4, NameRight
  <2> QED BY <1>2, <2>1 DEF NameOK
<1> HIDE DEF first, O
<1>8. NoStrangeNames' /\ OnlyFirstSightGarbled' /\ DiagramWhole'
  BY <1>1, <1>2, <1>7, NothingDrawn
<1> QED BY <1>1, <1>2, <1>6, <1>8 DEF NamesRight, TablesRight, O

(* h_symepid()                                                             *)
LEMMA GivePoolNames ==
  ASSUME NamesRight, NEW epid \in Pools, NEW name \in Names, GivePool(epid, name)
  PROVE  NamesRight'
<1>1. /\ epid_tbl' = Add(epid_tbl, epid, Given(name)) /\ shown' = Nothing
      /\ Tell("epid", epid, name) /\ UNCHANGED <<symb_tbl, sig_tbl, uevt_tbl>>
  <2>1. epid \in Nat /\ (epid - 1) + 1 = epid
    BY TablesAssumption
  <2> QED BY <2>1 DEF GivePool
<1>2. /\ told' \in [Tables -> SUBSET (Nat \X Names)] /\ diagram' = NoLine
      /\ told'["epid"] = told["epid"] \cup {<<epid, name>>}
      /\ told'["symb"] = told["symb"] /\ told'["sig"] = told["sig"]
      /\ told'["uevt"] = told["uevt"]
      /\ anew' \in [Tables -> SUBSET (Nat \X Names)]
      /\ anew'["epid"] = anew["epid"] \cup {<<epid, name>>}
      /\ anew'["symb"] = anew["symb"] /\ anew'["sig"] = anew["sig"]
      /\ anew'["uevt"] = anew["uevt"]
  BY <1>1, Telling, TablesAssumption DEF NamesRight, Tables
<1>3. Right(epid_tbl', Pools, told'["epid"], anew'["epid"])
  BY <1>1, <1>2, AddRight DEF NamesRight, TablesRight
<1> QED BY <1>1, <1>2, <1>3, NothingDrawn DEF NamesRight, TablesRight

(* h_symsig()                                                              *)
LEMMA GiveSignalNames ==
  ASSUME NamesRight, NEW e \in Signals, NEW name \in Names, GiveSignal(e, name)
  PROVE  NamesRight'
<1>1. /\ sig_tbl' = Add(sig_tbl, e, Given(name)) /\ shown' = Nothing
      /\ Tell("sig", e, name) /\ UNCHANGED <<symb_tbl, epid_tbl, uevt_tbl>>
  BY DEF GiveSignal
<1>2. /\ told' \in [Tables -> SUBSET (Nat \X Names)] /\ diagram' = NoLine
      /\ told'["sig"] = told["sig"] \cup {<<e, name>>}
      /\ told'["symb"] = told["symb"] /\ told'["epid"] = told["epid"]
      /\ told'["uevt"] = told["uevt"]
      /\ anew' \in [Tables -> SUBSET (Nat \X Names)]
      /\ anew'["sig"] = anew["sig"] \cup {<<e, name>>}
      /\ anew'["symb"] = anew["symb"] /\ anew'["epid"] = anew["epid"]
      /\ anew'["uevt"] = anew["uevt"]
  BY <1>1, Telling, TablesAssumption DEF NamesRight, Tables
<1>3. Right(sig_tbl', Signals, told'["sig"], anew'["sig"])
  BY <1>1, <1>2, AddRight DEF NamesRight, TablesRight
<1> QED BY <1>1, <1>2, <1>3, NothingDrawn DEF NamesRight, TablesRight

(* h_symuevt()                                                             *)
LEMMA GiveUserNames ==
  ASSUME NamesRight, NEW ue \in UserEvents, NEW name \in Names, GiveUser(ue, name)
  PROVE  NamesRight'
<1>1. /\ uevt_tbl' = Add(uevt_tbl, ue, Given(name)) /\ shown' = Nothing
      /\ Tell("uevt", ue, name) /\ UNCHANGED <<symb_tbl, epid_tbl, sig_tbl>>
  BY DEF GiveUser
<1>2. /\ told' \in [Tables -> SUBSET (Nat \X Names)] /\ diagram' = NoLine
      /\ told'["uevt"] = told["uevt"] \cup {<<ue, name>>}
      /\ told'["symb"] = told["symb"] /\ told'["epid"] = told["epid"]
      /\ told'["sig"] = told["sig"]
      /\ anew' \in [Tables -> SUBSET (Nat \X Names)]
      /\ anew'["uevt"] = anew["uevt"] \cup {<<ue, name>>}
      /\ anew'["symb"] = anew["symb"] /\ anew'["epid"] = anew["epid"]
      /\ anew'["sig"] = anew["sig"]
  BY <1>1, Telling, TablesAssumption DEF NamesRight, Tables
<1>3. Right(uevt_tbl', UserEvents, told'["uevt"], anew'["uevt"])
  BY <1>1, <1>2, AddRight DEF NamesRight, TablesRight
<1> QED BY <1>1, <1>2, <1>3, NothingDrawn DEF NamesRight, TablesRight
-----------------------------------------------------------------------------
(* The lines that are drawn of records.                                    *)
Drawing(line, objs) ==
  /\ line.objs \in Seq(Objects \cup {0}) /\ line.sigs \in Seq(Signals)
  /\ \A i \in DOMAIN line.objs : \E j \in DOMAIN objs : line.objs[i] = objs[j]

(* A record of which nothing is drawn.                                     *)
LEMMA NotDrawnDrawing == ASSUME NEW objs PROVE Drawing(NotDrawn, objs)
BY DEF Drawing, NotDrawn, Line

(* A line of objects that the record has.                                  *)
LEMMA LineDrawing ==
  ASSUME NEW objs, NEW los \in Seq(Objects \cup {0}), NEW sigs \in Seq(Signals),
         \A i \in DOMAIN los : \E j \in DOMAIN objs : los[i] = objs[j]
  PROVE  Drawing(Line(los, sigs), objs)
<1>1. Line(los, sigs).objs = los /\ Line(los, sigs).sigs = sigs
  BY DEF Line
<1> QED BY <1>1, Zenon DEF Drawing

(* Tuples of two and of three.                                             *)
LEMMA Tuples ==
  ASSUME NEW a, NEW b, NEW c
  PROVE  /\ DOMAIN <<a, b>> = {1, 2} /\ <<a, b>>[1] = a /\ <<a, b>>[2] = b
         /\ DOMAIN <<a, b, c>> = {1, 2, 3}
         /\ <<a, b, c>>[1] = a /\ <<a, b, c>>[2] = b /\ <<a, b, c>>[3] = c
OBVIOUS

(* A record with such a line.                                              *)
LEMMA ShownNames ==
  ASSUME NamesRight,
         NEW objs \in Seq(Objects \cup {0}), NEW sigs \in Seq(Signals),
         NEW pools, pools = {} \/ \E pid \in Pools \cup {0} : pools = {pid},
         NEW line, Drawing(line, objs),
         AtOnce(objs, sigs, pools, line) \/ InTurn(objs, sigs, pools, line)
  PROVE  NamesRight'
<1>1. PICK copied : Formatted(objs, sigs, pools, copied, line)
  BY Zenon DEF AtOnce, InTurn
<1>2. pools \in SUBSET (Pools \cup {0}) /\ IsFiniteSet(pools)
  <2>1. CASE pools = {}
    BY <2>1, FS_EmptySet
  <2>2. ASSUME NEW pid \in Pools \cup {0}, pools = {pid}
        PROVE  pools \in SUBSET (Pools \cup {0}) /\ IsFiniteSet(pools)
    BY <2>2, FS_Singleton
  <2> QED BY <2>1, <2>2
<1>3. TablesRight
  BY DEF NamesRight
<1> QED BY <1>1, <1>2, <1>3, FormattedRight DEF Drawing

(* Records with one object ...                                             *)
LEMMA ShowObjectNames ==
  ASSUME NamesRight, NEW obj \in Objects, ShowObject(obj)
  PROVE  NamesRight'
<1>1. <<obj>> \in Seq(Objects \cup {0}) /\ <<>> \in Seq(Signals) /\ Drawing(NotDrawn, <<obj>>)
  BY NotDrawnDrawing
<1>2. AtOnce(<<obj>>, <<>>, {}, NotDrawn)
  BY DEF ShowObject
<1> QED BY <1>1, <1>2, ShownNames

(* ... and a signal, ...                                                   *)
LEMMA ShowOneNames ==
  ASSUME NamesRight, NEW obj \in Objects, NEW e \in Signals, NEW pid \in Pools \cup {0},
         ShowGet(obj, e, pid) \/ (pid # 0 /\ ShowAllocated(e, pid - 1, obj))
  PROVE  NamesRight'
<1>1. /\ <<obj>> \in Seq(Objects \cup {0}) /\ <<e>> \in Seq(Signals)
      /\ Drawing(NotDrawn, <<obj>>)
  BY NotDrawnDrawing
<1>3. CASE ShowGet(obj, e, pid)
  <2>1. AtOnce(<<obj>>, <<e>>, {pid}, NotDrawn)
    BY <1>3 DEF ShowGet
  <2> QED BY <1>1, <2>1, ShownNames
<1>4. CASE pid # 0 /\ ShowAllocated(e, pid - 1, obj)
  <2>1. (pid - 1) + 1 = pid
    BY <1>4, TablesAssumption
  <2>2. InTurn(<<obj>>, <<e>>, {pid}, NotDrawn)
    BY <1>4, <2>1 DEF ShowAllocated
  <2> QED BY <1>1, <2>2, ShownNames
<1> QED BY <1>3, <1>4

(* ... with two objects ...                                                *)
LEMMA ShowTwoNames ==
  ASSUME NamesRight, NEW obj1 \in Objects, NEW obj2 \in Objects,
         ShowTwo(obj1, obj2, TRUE) \/ ShowTwo(obj1, obj2, FALSE) \/ ShowInTurn(obj1, obj2)
  PROVE  NamesRight'
<1> DEFINE two   == <<obj1, obj2>>
           drawn == <<obj1, obj1, obj2>>
           state == Line(drawn, <<>>)
<1>1. two \in Seq(Objects \cup {0}) /\ <<>> \in Seq(Signals) /\ Drawing(NotDrawn, two)
  BY NotDrawnDrawing
<1>2. Drawing(state, two)
  <2>1. drawn \in Seq(Objects \cup {0})
    OBVIOUS
  <2>2. \A i \in DOMAIN drawn : \E j \in DOMAIN two : drawn[i] = two[j]
    BY Tuples
  <2> QED BY <1>1, <2>1, <2>2, LineDrawing
<1> HIDE DEF state
<1>3. CASE ShowTwo(obj1, obj2, TRUE)
  <2>1. AtOnce(two, <<>>, {}, state)
    BY <1>3 DEF ShowTwo, state
  <2> QED BY <1>1, <1>2, <2>1, ShownNames
<1>4. CASE ShowTwo(obj1, obj2, FALSE)
  <2>1. AtOnce(two, <<>>, {}, NotDrawn)
    BY <1>4 DEF ShowTwo
  <2> QED BY <1>1, <2>1, ShownNames
<1>5. CASE ShowInTurn(obj1, obj2)
  <2>1. InTurn(two, <<>>, {}, NotDrawn)
    BY <1>5 DEF ShowInTurn
  <2> QED BY <1>1, <2>1, ShownNames
<1> QED BY <1>3, <1>4, <1>5

(* ... and a signal, ...                                                   *)
LEMMA ShowEventNames ==
  ASSUME NamesRight, NEW obj1 \in Objects, NEW obj2 \in Objects, NEW e \in Signals,
         NEW pid \in Pools \cup {0},
         ShowDispatch(obj1, e, obj2) \/ ShowPost(obj1, e, obj2, pid)
  PROVE  NamesRight'
<1> DEFINE two  == <<obj1, obj2>>
           post == Line(<<obj2, obj1>>, <<e>>)
           line == IF tmrtbl_find_sig(e) THEN NotDrawn ELSE post
<1>1. /\ two \in Seq(Objects \cup {0}) /\ <<e>> \in Seq(Signals)
      /\ Drawing(NotDrawn, two)
  BY NotDrawnDrawing
<1>2. Drawing(post, two)
  <2>1. <<obj2, obj1>> \in Seq(Objects \cup {0})
    OBVIOUS
  <2>2. \A i \in DOMAIN <<obj2, obj1>> : \E j \in DOMAIN two : <<obj2, obj1>>[i] = two[j]
    BY Tuples
  <2> QED BY <1>1, <2>1, <2>2, LineDrawing
<1> HIDE DEF post
<1>3. Drawing(line, two)
  BY <1>1, <1>2
<1>4. CASE ShowDispatch(obj1, e, obj2)
  <2>1. AtOnce(two, <<e>>, {}, NotDrawn)
    BY <1>4 DEF ShowDispatch
  <2> QED BY <1>1, <2>1, ShownNames
<1>5. CASE ShowPost(obj1, e, obj2, pid)
  <2>1. AtOnce(two, <<e>>, {pid}, line)
    BY <1>5 DEF ShowPost, post
  <2> HIDE DEF line
  <2> QED BY <1>1, <1>3, <2>1, ShownNames
<1> QED BY <1>4, <1>5

(* ... and with three.                                                     *)
LEMMA ShowThreeNames ==
  ASSUME NamesRight, NEW obj1 \in Objects, NEW obj2 \in Objects,
         NEW obj3 \in Objects \cup {0},
         \/ ShowTransition(obj1, obj2, obj3)
         \/ ShowSync(obj1, obj2, obj3) \/ ShowAction(obj1, obj2, obj3)
  PROVE  NamesRight'
<1> DEFINE three == <<obj1, obj2, obj3>>
           sync  == Line(<<obj2, obj3, obj1>>, <<>>)
           act   == Line(<<obj1, obj1, obj3>>, <<>>)
<1>1. three \in Seq(Objects \cup {0}) /\ <<>> \in Seq(Signals)
  OBVIOUS
<1>2. Drawing(sync, three)
  <2>1. <<obj2, obj3, obj1>> \in Seq(Objects \cup {0})
    OBVIOUS
  <2>2. \A i \in DOMAIN <<obj2, obj3, obj1>> :
          \E j \in DOMAIN three : <<obj2, obj3, obj1>>[i] = three[j]
    BY Tuples
  <2> QED BY <1>1, <2>1, <2>2, LineDrawing
<1>3. Drawing(act, three)
  <2>1. <<obj1, obj1, obj3>> \in Seq(Objects \cup {0})
    OBVIOUS
  <2>2. \A i \in DOMAIN <<obj1, obj1, obj3>> :
          \E j \in DOMAIN three : <<obj1, obj1, obj3>>[i] = three[j]
    BY Tuples
  <2> QED BY <1>1, <2>1, <2>2, LineDrawing
<1> HIDE DEF sync, act
<1>4. CASE ShowTransition(obj1, obj2, obj3)
  <2> DEFINE objs == <<obj1, obj2, IF obj3 = 0 THEN obj2 ELSE obj3>>
  <2>1. AtOnce(objs, <<>>, {}, NotDrawn)
    BY <1>4 DEF ShowTransition
  <2>2. objs \in Seq(Objects \cup {0}) /\ Drawing(NotDrawn, objs)
    BY NotDrawnDrawing
  <2> HIDE DEF objs
  <2> QED BY <1>1, <2>1, <2>2, ShownNames
<1>5. CASE ShowSync(obj1, obj2, obj3)
  <2>1. AtOnce(three, <<>>, {}, sync)
    BY <1>5 DEF ShowSync, sync
  <2> QED BY <1>1, <1>2, <2>1, ShownNames
<1>6. CASE ShowAction(obj1, obj2, obj3)
  <2>1. InTurn(three, <<>>, {}, act)
    BY <1>6 DEF ShowAction, act
  <2> QED BY <1>1, <1>3, <2>1, ShownNames
<1> QED BY <1>4, <1>5, <1>6

(* A user event adds no name.                                              *)
LEMMA ShowUserNames ==
  ASSUME NamesRight, NEW ue \in UserEvents, ShowUser(ue)
  PROVE  NamesRight'
<1> DEFINE e == GET_USR_TE(ue)
           name == IF Known(uevt_tbl, e) THEN Name(uevt_tbl, e) ELSE Raw(e)
<1>1. /\ shown' = [Nothing EXCEPT !.names = {<<"uevt", ue, name>>}] /\ diagram' = NoLine
      /\ UNCHANGED <<tables, told, anew>>
  BY DEF ShowUser
<1>2. name # Dangling
  BY NameRight, NameOKs, NamesApart DEF NamesRight, TablesRight, Right
<1> HIDE DEF name
<1>3. shown'.names = {<<"uevt", ue, name>>} /\ diagram'.names = {}
  BY <1>1 DEF Nothing, NoLine
<1>4. <<"uevt", ue, name>>[1] = "uevt" /\ <<"uevt", ue, name>>[3] = name
  OBVIOUS
<1>5. NoStrangeNames' /\ OnlyFirstSightGarbled' /\ DiagramWhole'
  BY <1>2, <1>3, <1>4 DEF NoStrangeNames, OnlyFirstSightGarbled, DiagramWhole
<1> QED BY <1>1, <1>5 DEF NamesRight, TablesRight, tables

(* Records of timers: the line of a timeout names the state machine that   *)
(* the record names, because the table of timers has it right.             *)
LEMMA TimerNames ==
  ASSUME IInv, NamesRight, NEW t \in Timers,
         \/ \E e \in Signals : TimerInit(t, e)
         \/ \E sma \in Objects : TimerStart(t, sma)
         \/ Timeout(t)
  PROVE  NamesRight'
<1>1. t \in Objects \cup {0} /\ <<>> \in Seq(Signals)
  BY TablesAssumption
<1>2. ASSUME NEW e \in Signals, TimerInit(t, e) PROVE NamesRight'
  <2>1. AtOnce(<<t>>, <<e>>, {}, NotDrawn)
    BY <1>2 DEF TimerInit
  <2>2. <<t>> \in Seq(Objects \cup {0}) /\ <<e>> \in Seq(Signals) /\ Drawing(NotDrawn, <<t>>)
    BY <1>1, NotDrawnDrawing
  <2> QED BY <2>1, <2>2, ShownNames
<1>3. ASSUME NEW sma \in Objects, TimerStart(t, sma) PROVE NamesRight'
  <2>1. InTurn(<<t, sma>>, <<>>, {}, NotDrawn)
    BY <1>3 DEF TimerStart
  <2>2. <<t, sma>> \in Seq(Objects \cup {0}) /\ Drawing(NotDrawn, <<t, sma>>)
    BY <1>1, NotDrawnDrawing
  <2> QED BY <1>1, <2>1, <2>2, ShownNames
<1>4. ASSUME Timeout(t) PROVE NamesRight'
  <2> DEFINE i0 == Min(Entries(t))
             p  == tmr_tbl[i0]
             line == [timer |-> t, objs |-> <<p.smobj, p.smobj>>, sigs |-> <<p.sobj>>]
             sma == timer[t].sma
             e   == timer[t].sig
  <2>1. sma # 0 /\ InTurn(<<t, sma>>, <<e>>, {}, TimeoutLine(t))
    BY <1>4 DEF Timeout
  <2>2. Timed(t) /\ Entries(t) # {} /\ Entries(t) \subseteq Nat
    BY <2>1, TableIndices DEF IInv, EntriesRight, Entries
  <2>3. i0 \in Entries(t)
    BY <2>2, MinIsIn
  <2>4. TimeoutLine(t) = line
    BY <2>2 DEF TimeoutLine
  <2> HIDE DEF i0
  <2>5. p.smobj = sma
    BY <2>1, <2>3 DEF IInv, EntriesRight
  <2>6. p \in TimerEntry /\ p.sobj \in Signals
    BY <2>3, TableIndices, EntryFields DEF IInv, Entries
  <2>7. sma \in Objects \cup {0} /\ e \in Signals
    <3>1. timer[t] \in TimerState
      BY DEF IInv, TimerTable
    <3> QED BY <2>2, <3>1, StateFields DEF Timed
  <2> HIDE DEF p, sma, e
  <2>8. Drawing(line, <<t, sma>>)
    <3>1. /\ line.objs = <<sma, sma>> /\ line.sigs = <<p.sobj>>
          /\ DOMAIN <<sma, sma>> = {1, 2} /\ DOMAIN <<t, sma>> = {1, 2} /\ <<t, sma>>[2] = sma
      BY <2>5
    <3> QED BY <2>6, <2>7, <3>1 DEF Drawing
  <2> HIDE DEF line
  <2>9. <<t, sma>> \in Seq(Objects \cup {0}) /\ <<e>> \in Seq(Signals)
    BY <1>1, <2>7
  <2> QED BY <2>1, <2>4, <2>8, <2>9, ShownNames
<1> QED BY <1>2, <1>3, <1>4

(* Every step keeps the tables right.                                      *)
LEMMA NextNames == IInv /\ NamesRight /\ [Next]_vars => NamesRight'
<1> SUFFICES ASSUME IInv, NamesRight, [Next]_vars PROVE NamesRight'
  OBVIOUS
<1>1. CASE Configured
  BY <1>1, ConfiguredNames
<1>2. ASSUME NEW name \in Names,
             \/ \E obj \in Objects : GiveObject(obj, name)
             \/ \E ao, obj \in Objects : GiveState(ao, obj, name)
             \/ \E epid \in Pools : GivePool(epid, name)
             \/ \E e \in Signals : GiveSignal(e, name)
             \/ \E ue \in UserEvents : GiveUser(ue, name)
      PROVE  NamesRight'
  BY <1>2, GiveObjectNames, GiveStateNames, GivePoolNames, GiveSignalNames, GiveUserNames
<1>3. ASSUME NEW obj1 \in Objects, ShowObject(obj1) PROVE NamesRight'
  BY <1>3, ShowObjectNames
<1>4. ASSUME NEW obj1 \in Objects, NEW e \in Signals, NEW pid \in Pools \cup {0},
             ShowGet(obj1, e, pid)
      PROVE  NamesRight'
  BY <1>4, ShowOneNames
<1>5. ASSUME NEW obj1 \in Objects, NEW e \in Signals, NEW pid \in Pools,
             ShowAllocated(e, pid - 1, obj1)
      PROVE  NamesRight'
  <2>1. pid \in Pools \cup {0} /\ pid # 0
    BY TablesAssumption
  <2> QED BY <1>5, <2>1, ShowOneNames
<1>6. ASSUME NEW obj1 \in Objects, NEW obj2 \in Objects, NEW isState \in BOOLEAN,
             ShowTwo(obj1, obj2, isState) \/ ShowInTurn(obj1, obj2)
      PROVE  NamesRight'
  <2>1. CASE isState = TRUE
    BY <1>6, <2>1, ShowTwoNames
  <2>2. CASE isState = FALSE
    BY <1>6, <2>2, ShowTwoNames
  <2> QED BY <2>1, <2>2
<1>7. ASSUME NEW obj1 \in Objects, NEW obj2 \in Objects, NEW e \in Signals,
             \/ ShowDispatch(obj1, e, obj2)
             \/ \E pid \in Pools \cup {0} : ShowPost(obj1, e, obj2, pid)
      PROVE  NamesRight'
  BY <1>7, ShowEventNames
<1>8. ASSUME NEW obj1 \in Objects, NEW obj2 \in Objects,
             \/ \E ts \in Objects \cup {0} : ShowTransition(obj1, obj2, ts)
             \/ \E obj3 \in Objects : ShowSync(obj1, obj2, obj3) \/ ShowAction(obj1, obj2, obj3)
      PROVE  NamesRight'
  BY <1>8, ShowThreeNames
<1>9. ASSUME NEW ue \in UserEvents, ShowUser(ue) PROVE NamesRight'
  BY <1>9, ShowUserNames
<1>10. ASSUME NEW t \in Timers,
              \/ \E e \in Signals : TimerInit(t, e)
              \/ Timeout(t)
              \/ \E sma \in Objects : TimerStart(t, sma)
       PROVE  NamesRight'
  BY <1>10, TimerNames
<1>11. CASE UNCHANGED vars
  BY <1>11 DEF vars, tables, NamesRight, TablesRight, NoStrangeNames, OnlyFirstSightGarbled,
               DiagramWhole
<1> QED BY <1>1, <1>2, <1>3, <1>4, <1>5, <1>6, <1>7, <1>8, <1>9, <1>10, <1>11 DEF Next
-----------------------------------------------------------------------------
(* What this means for the tables.                                         *)
LEMMA RightImplies == IInv /\ NamesRight => TypeOK /\ Named
<1> SUFFICES ASSUME IInv, NamesRight PROVE TypeOK /\ Named
  OBVIOUS
<1>1. TypeOK
  BY DEF IInv, TimerTable, TimerEntry, TimerState, NamesRight, TablesRight, Right, Sound, TypeOK
<1>2. /\ NamedIn(symb_tbl, anew["symb"]) /\ NamedIn(epid_tbl, anew["epid"])
      /\ NamedIn(sig_tbl, anew["sig"]) /\ NamedIn(uevt_tbl, anew["uevt"])
  BY DEF NamesRight, TablesRight, Right
<1>3. /\ TableNamed("symb") = symb_tbl /\ TableNamed("epid") = epid_tbl
      /\ TableNamed("sig") = sig_tbl /\ TableNamed("uevt") = uevt_tbl
  BY DEF TableNamed
<1>4. \A table \in Tables : NamedIn(TableNamed(table), anew[table])
  BY <1>2, <1>3 DEF Tables
<1>5. Named
  BY <1>4, Zenon DEF Named, NamedIn
<1> QED BY <1>1, <1>5

(* The two invariants together are inductive.                              *)
LEMMA AlwaysRight == Spec => [](IInv /\ NamesRight)
<1>1. Init => IInv /\ NamesRight
  BY InitIInv, InitNames
<1>2. IInv /\ NamesRight /\ [Next]_vars => (IInv /\ NamesRight)'
  BY NextIInv, NextNames
<1> QED BY <1>1, <1>2, PTL DEF Spec

(* Every table keeps its type, whatever records tell and show.             *)
THEOREM TypeCorrect == Spec => []TypeOK
BY AlwaysRight, RightImplies, PTL

(* As long as the names that a table was told since the target started are *)
(* one-to-one, each is found under its key, in however many steps the      *)
(* tables were filled, whatever was looked up before it was told and       *)
(* whatever names were kept from before the start.                         *)
THEOREM NamesFound == Spec => []Named
BY AlwaysRight, RightImplies, PTL

(* No object or pool is ever shown under a name that was not told for it   *)
(* since the target started, and no signal under one never told for it.    *)
THEOREM NamesOwn == Spec => []NoStrangeNames
<1>1. NamesRight => NoStrangeNames
  BY DEF NamesRight
<1> QED BY <1>1, AlwaysRight, PTL

(* A name is shown from memory that was given back only in a record with   *)
(* several objects of which one is new, whatever the order in which the    *)
(* compiler evaluates the look-ups and whichever of them moves the table.  *)
THEOREM GarbledAtFirstSight == Spec => []OnlyFirstSightGarbled
<1>1. NamesRight => OnlyFirstSightGarbled
  BY DEF NamesRight
<1> QED BY <1>1, AlwaysRight, PTL

(* A line of the sequence diagram, which is drawn after its record, has    *)
(* every name whole.                                                       *)
THEOREM DiagramNamed == Spec => []DiagramWhole
<1>1. NamesRight => DiagramWhole
  BY DEF NamesRight
<1> QED BY <1>1, AlwaysRight, PTL
=============================================================================
