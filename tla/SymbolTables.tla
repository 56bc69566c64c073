---------------------------- MODULE SymbolTables ----------------------------
(***************************************************************************)
(* The names under which Trazer shows the target's objects, event pools,   *)
(* signals and user events: source/symbtbl.cpp, sigtbl.cpp, uevtbl.cpp,    *)
(* the handlers of source/tzparse.cpp that fill the tables and look names  *)
(* up, and the lines source/seqdiag.cpp adds to the sequence diagram with  *)
(* the help of its table of timers.                                        *)
(*                                                                         *)
(* The tables are vectors of keys and names.  A look-up returns a pointer  *)
(* into the vector, and one of an unknown key adds an entry: the names     *)
(* looked up before, in the same list of arguments and in whatever order   *)
(* the compiler evaluates it, may then be gone.  Such a name is Dangling,  *)
(* whatever the bytes are that it is shown as.                             *)
(*                                                                         *)
(* What is modelled of a record is what it has to do with names.           *)
(***************************************************************************)
EXTENDS Integers, Sequences, SequencesExt, FiniteSetsExt, Functions

CONSTANTS
  Objects,      \* addresses, without 0
  Signals,
  Pools,        \* identifiers of event pools, as records of posts give them
  UserEvents,   \* numbers of user events
  Names,        \* the names that records tell
  Timers,       \* the objects that are timers
  MaxGiven      \* bound on the names told and the timers initialised, together

ASSUME TablesAssumption ==
  /\ Objects \subseteq Nat \ {0} /\ Pools \subseteq Nat \ {0}
  /\ Signals \subseteq Nat /\ UserEvents \subseteq 0 .. 31
  /\ Timers \subseteq Objects /\ MaxGiven \in Nat

VARIABLES
  symb_tbl, epid_tbl, sig_tbl, uevt_tbl,  \* sequences of keys and names
  tmr_tbl,  \* sequence of timers, their signals and state machines
  shown,    \* what Trazer has just shown of a record
  diagram,  \* the line it has just added to the sequence diagram
  told,     \* the pairs records have told a table (history variable)
  anew,     \* those that they have told since the target started, for all
            \* tables (history variable)
  timer     \* every timer's signals and state machine (history variable)

tables == <<symb_tbl, epid_tbl, sig_tbl, uevt_tbl>>
vars   == <<tables, tmr_tbl, shown, diagram, told, anew, timer>>

Tables == {"symb", "epid", "sig", "uevt"}

Given(name) == <<"given", name>>
Raw(key)    == <<"raw", key>>      \* "0X...", a number or "?"
Dangling    == <<"dangling", 0>>
Static      == <<"static", 0>>
NoName      == <<"none", 0>>

(* names are triples of a table, a key and the name shown for it; fresh    *)
(* says that the table was asked for several names in one call, one of     *)
(* which it did not know, copied that they were copied one by one.         *)
Nothing == [names |-> {}, fresh |-> FALSE, copied |-> FALSE]
NoLine  == [timer |-> 0, names |-> {}]
NotSet  == [sig |-> -1, same |-> TRUE, sma |-> 0]
-----------------------------------------------------------------------------
Known(tbl, key) == \E i \in DOMAIN tbl : tbl[i].key = key

(* Faulty variant: a key that is known keeps its name.                     *)
AddNew(tbl, key, name) ==
  IF Known(tbl, key) THEN tbl ELSE Append(tbl, [key |-> key, name |-> name])

(* add_to_symtbl() and its likes: the first entry with the address gets    *)
(* the name, or the first one with the name gets the address, whichever    *)
(* comes first.                                                            *)
Add(tbl, key, name) ==
  LET hits  == {i \in DOMAIN tbl : tbl[i].key = key \/ tbl[i].name = name}
      entry == [key |-> key, name |-> name]
  IN  IF hits = {} THEN Append(tbl, entry) ELSE [tbl EXCEPT ![Min(hits)] = entry]

(* search_in_objtbl(), map_uevt(): the first entry counts.                 *)
Name(tbl, key) ==
  IF Known(tbl, key) THEN tbl[Min({i \in DOMAIN tbl : tbl[i].key = key})].name ELSE NoName

(* map_obj(), map_sig(), map_epid(): an unknown key is added under a name  *)
(* made from it, which no other key has.                                   *)
MapTable(tbl, key) == IF Known(tbl, key) THEN tbl ELSE Add(tbl, key, Raw(key))

MapKeys(tbl, keys) ==
  IF \A i \in DOMAIN keys : Known(tbl, keys[i]) THEN tbl ELSE FoldLeft(MapTable, tbl, keys)

(* Faulty variant: the identifier of static events is entered like others. *)
map_epid_static(tbl, epids) == MapKeys(tbl, SetToSeq(epids))

(* map_epid(), for the pool of a record's event, if it has one: static     *)
(* events belong to no pool.                                               *)
map_epid_table(tbl, epids) == MapKeys(tbl, SetToSeq(epids \ {0}))
map_epid_name(tbl, epid)   == IF epid = 0 THEN Static ELSE Name(tbl, epid)
-----------------------------------------------------------------------------
Fresh(tbl, keys) == Len(keys) > 1 /\ \E i \in DOMAIN keys : ~Known(tbl, keys[i])

(* Look-ups whose names are copied or formatted one by one.                *)
MapOneByOne(tbl, keys) ==
  LET after == MapKeys(tbl, keys)
  IN  {[tbl |-> after, names |-> [i \in DOMAIN keys |-> Name(after, keys[i])]]}

(* Arguments that are looked up in one call, in the order given; moved are *)
(* the arguments for which an entry is added and the vector moves.         *)
Lookups(tbl, keys, order, moved) ==
  LET after    == MapKeys(tbl, [p \in DOMAIN keys |-> keys[order[p]]])
      Adds(p)  == ~Known(tbl, keys[order[p]])
                  /\ \A q \in 1 .. p - 1 : keys[order[q]] # keys[order[p]]
      Gone(i)  == \E p, q \in DOMAIN keys :
                    p < q /\ order[p] = i /\ Adds(q) /\ order[q] \in moved
  IN  [tbl   |-> after,
       names |-> [i \in DOMAIN keys |-> IF Gone(i) THEN Dangling ELSE Name(after, keys[i])]]

(* All that a call with several look-ups can come to.                      *)
MapArguments(tbl, keys) ==
  IF ~Fresh(tbl, keys) THEN MapOneByOne(tbl, keys)
  ELSE {Lookups(tbl, keys, order, moved) :
          order \in {f \in [DOMAIN keys -> DOMAIN keys] : IsInjective(f)},
          moved \in SUBSET {i \in DOMAIN keys : ~Known(tbl, keys[i])}}

(* Faulty variant: names are formatted without being copied.               *)
Uncopied(tbl, keys, copied) == MapArguments(tbl, keys)

Mapped(tbl, keys, copied) ==
  IF copied THEN MapOneByOne(tbl, keys) ELSE MapArguments(tbl, keys)

Triples(table, keys, names) == {<<table, keys[i], names[i]>> : i \in DOMAIN keys}

(* A line for the sequence diagram: the objects and the signals it names.  *)
Line(objs, sigs) == [timer |-> 0, objs |-> objs, sigs |-> sigs]
NotDrawn         == Line(<<>>, <<>>)

Lined(line, objs, sigs) ==
  [timer |-> line.timer,
   names |-> Triples("symb", line.objs, objs.names) \cup Triples("sig", line.sigs, sigs.names)]

(* Faulty variant: the line is drawn first.                                *)
FormattedAfter(objs, sigs, pools, copied, line) ==
  \E d \in MapArguments(symb_tbl, line.objs), ds \in MapOneByOne(sig_tbl, line.sigs) :
    \E o \in Mapped(d.tbl, objs, copied), s \in MapOneByOne(ds.tbl, sigs) :
      /\ symb_tbl' = o.tbl
      /\ sig_tbl'  = s.tbl
      /\ epid_tbl' = map_epid_table(epid_tbl, pools)
      /\ diagram'  = Lined(line, d, ds)
      /\ shown'    = [names  |-> Triples("symb", objs, o.names)
                                \cup Triples("sig", sigs, s.names),
                      fresh  |-> Fresh(symb_tbl, objs), copied |-> copied]
      /\ UNCHANGED <<uevt_tbl, told, anew>>

(* What a record with these objects, signals and pools does to the tables  *)
(* and shows, and the line that is drawn after it: sdiag_async_evt(),      *)
(* sdiag_state(), sdiag_tmrevt(), sdiag_exec_act() or sdiag_sync(), each   *)
(* of which looks its objects up in one call.                              *)
Formatted(objs, sigs, pools, copied, line) ==
  \E o \in Mapped(symb_tbl, objs, copied), s \in MapOneByOne(sig_tbl, sigs) :
    \E d \in MapArguments(o.tbl, line.objs), ds \in MapOneByOne(s.tbl, line.sigs) :
      /\ symb_tbl' = d.tbl
      /\ sig_tbl'  = ds.tbl
      /\ epid_tbl' = map_epid_table(epid_tbl, pools)
      /\ diagram'  = Lined(line, d, ds)
      /\ shown'    = [names  |-> Triples("symb", objs, o.names)
                                \cup Triples("sig", sigs, s.names)
                                \cup {<<"epid", epid, map_epid_name(epid_tbl', epid)>> :
                                        epid \in pools},
                      fresh  |-> Fresh(symb_tbl, objs),
                      copied |-> copied]
      /\ UNCHANGED <<uevt_tbl, told, anew>>

AtOnce(objs, sigs, pools, line) == Formatted(objs, sigs, pools, FALSE, line)
InTurn(objs, sigs, pools, line) == Formatted(objs, sigs, pools, TRUE, line)
-----------------------------------------------------------------------------
Init ==
  /\ symb_tbl = <<>> /\ epid_tbl = <<>> /\ sig_tbl = <<>> /\ uevt_tbl = <<>>
  /\ tmr_tbl = <<>>
  /\ shown = Nothing /\ diagram = NoLine
  /\ told = [t \in Tables |-> {}] /\ anew = [t \in Tables |-> {}]
  /\ timer = [t \in Timers |-> NotSet]

(* Faulty variant: the names of the last run are kept.                     *)
ConfiguredOnly ==
  /\ shown' = Nothing /\ diagram' = NoLine
  /\ told' = [told EXCEPT !["symb"] = {}, !["epid"] = {}]
  /\ anew' = [t \in Tables |-> {}]
  /\ timer' = [t \in Timers |-> [timer[t] EXCEPT !.sma = 0]]
  /\ UNCHANGED <<tables, tmr_tbl>>

(* proc_tcfg_evt() and clear_symtbl(): the target has started.  The tables *)
(* of signals, user events and timers are kept.                            *)
Configured ==
  /\ symb_tbl' = <<>> /\ epid_tbl' = <<>>
  /\ shown' = Nothing /\ diagram' = NoLine
  /\ told' = [told EXCEPT !["symb"] = {}, !["epid"] = {}]
  /\ anew' = [t \in Tables |-> {}]
  /\ timer' = [t \in Timers |-> [timer[t] EXCEPT !.sma = 0]]
  /\ UNCHANGED <<sig_tbl, uevt_tbl, tmr_tbl>>

NumTold(t) == Cardinality(UNION {{table} \X t[table] : table \in Tables})

Tell(table, key, name) ==
  /\ told' = [told EXCEPT ![table] = @ \cup {<<key, name>>}]
  /\ anew' = [anew EXCEPT ![table] = @ \cup {<<key, name>>}]
  /\ NumTold(told') + Len(tmr_tbl) <= MaxGiven
  /\ diagram' = NoLine
  /\ UNCHANGED <<tmr_tbl, timer>>

(* h_symobj()                                                              *)
GiveObject(obj, name) ==
  /\ symb_tbl' = Add(symb_tbl, obj, Given(name))
  /\ shown' = Nothing
  /\ Tell("symb", obj, name)
  /\ UNCHANGED <<epid_tbl, sig_tbl, uevt_tbl>>

(* h_symst(): the state machine's name is looked up and shown first.       *)
GiveState(ao, obj, name) ==
  /\ symb_tbl' = Add(MapTable(symb_tbl, ao), obj, Given(name))
  /\ shown' = [Nothing EXCEPT !.names = {<<"symb", ao, Name(MapTable(symb_tbl, ao), ao)>>}]
  /\ Tell("symb", obj, name)
  /\ UNCHANGED <<epid_tbl, sig_tbl, uevt_tbl>>

(* h_symepid(): the record numbers the pools from 0.                       *)
GivePool(epid, name) ==
  /\ epid_tbl' = Add(epid_tbl, (epid - 1) + 1, Given(name))
  /\ shown' = Nothing
  /\ Tell("epid", epid, name)
  /\ UNCHANGED <<symb_tbl, sig_tbl, uevt_tbl>>

(* h_symsig()                                                              *)
GiveSignal(e, name) ==
  /\ sig_tbl' = Add(sig_tbl, e, Given(name))
  /\ shown' = Nothing
  /\ Tell("sig", e, name)
  /\ UNCHANGED <<symb_tbl, epid_tbl, uevt_tbl>>

(* h_symuevt()                                                             *)
GiveUser(ue, name) ==
  /\ uevt_tbl' = Add(uevt_tbl, ue, Given(name))
  /\ shown' = Nothing
  /\ Tell("uevt", ue, name)
  /\ UNCHANGED <<symb_tbl, epid_tbl, sig_tbl>>
-----------------------------------------------------------------------------
(* h_1sym(), h_symu8(), h_mp_init() and all others with one object.        *)
ShowObject(obj) ==
  /\ AtOnce(<<obj>>, <<>>, {}, NotDrawn)
  /\ UNCHANGED <<tmr_tbl, timer>>

(* h_2sym(), of which only the record of a state is drawn.                 *)
ShowTwo(obj1, obj2, isState) ==
  /\ AtOnce(<<obj1, obj2>>, <<>>, {},
            IF isState THEN Line(<<obj1, obj1, obj2>>, <<>>) ELSE NotDrawn)
  /\ UNCHANGED <<tmr_tbl, timer>>

(* h_symtrn(): an internal transition has no target.                       *)
ShowTransition(smaobj, ssobj, tsobj) ==
  /\ AtOnce(<<smaobj, ssobj, IF tsobj = 0 THEN ssobj ELSE tsobj>>, <<>>, {}, NotDrawn)
  /\ UNCHANGED <<tmr_tbl, timer>>

(* h_sync()                                                                *)
ShowSync(f, snr, dest) ==
  /\ AtOnce(<<f, snr, dest>>, <<>>, {}, Line(<<snr, dest, f>>, <<>>))
  /\ UNCHANGED <<tmr_tbl, timer>>

(* h_2symnused(): the two names are formatted one after the other.         *)
ShowInTurn(obj1, obj2) ==
  /\ InTurn(<<obj1, obj2>>, <<>>, {}, NotDrawn)
  /\ UNCHANGED <<tmr_tbl, timer>>

(* h_sm_dch()                                                              *)
ShowDispatch(obj, e, stobj) ==
  /\ AtOnce(<<obj, stobj>>, <<e>>, {}, NotDrawn)
  /\ UNCHANGED <<tmr_tbl, timer>>

(* h_sma_get(), and h_sma_ffll() without the sender                        *)
ShowGet(ao, e, pid) ==
  /\ AtOnce(<<ao>>, <<e>>, {pid}, NotDrawn)
  /\ UNCHANGED <<tmr_tbl, timer>>

(* tmrtbl_find_sig(): is this the signal of a timer?                       *)
tmrtbl_find_sig(e) == \E i \in DOMAIN tmr_tbl : tmr_tbl[i].sobj = e

(* h_sma_ffll(), with the sender: the signals of timers are not drawn.     *)
ShowPost(tobj, e, sobj, pid) ==
  /\ AtOnce(<<tobj, sobj>>, <<e>>, {pid},
            IF tmrtbl_find_sig(e) THEN NotDrawn ELSE Line(<<sobj, tobj>>, <<e>>))
  /\ UNCHANGED <<tmr_tbl, timer>>

(* h_exact(): the names are copied as they are looked up.                  *)
ShowAction(ao, st, act) ==
  /\ InTurn(<<ao, st, act>>, <<>>, {}, Line(<<ao, ao, act>>, <<>>))
  /\ UNCHANGED <<tmr_tbl, timer>>

(* h_ae(), h_gcr(): the record numbers the pools from 0, and the actor's   *)
(* name is copied.                                                         *)
ShowAllocated(e, pid, actor) ==
  /\ InTurn(<<actor>>, <<e>>, {pid + 1}, NotDrawn)
  /\ UNCHANGED <<tmr_tbl, timer>>

GET_USR_TE(e) == e % 8

(* parser(), for a user event: the group's name and the number are shown   *)
(* for one that has no name.                                               *)
ShowUser(ue) ==
  LET e == GET_USR_TE(ue)
  IN  /\ shown' = [Nothing EXCEPT !.names =
                     {<<"uevt", ue, IF Known(uevt_tbl, e) THEN Name(uevt_tbl, e) ELSE Raw(e)>>}]
      /\ diagram' = NoLine
      /\ UNCHANGED <<tables, tmr_tbl, told, anew, timer>>
-----------------------------------------------------------------------------
(* h_tinit() and tmrtbl_init(): a timer that is known is entered again.    *)
TimerInit(t, e) ==
  /\ NumTold(told) + Len(tmr_tbl) < MaxGiven
  /\ AtOnce(<<t>>, <<e>>, {}, NotDrawn)
  /\ tmr_tbl' = Append(tmr_tbl, [tobj |-> t, sobj |-> e, smobj |-> 0])
  /\ timer' = [timer EXCEPT ![t] =
                 [sig |-> e, same |-> timer[t].same /\ timer[t].sig \in {-1, e}, sma |-> 0]]

Entries(t) == {i \in DOMAIN tmr_tbl : tmr_tbl[i].tobj = t}

(* Faulty variant: the entry made last is taken for the timer's.           *)
tmrtbl_start_last(t, sma) ==
  [i \in DOMAIN tmr_tbl |->
     IF Entries(t) # {} /\ i = Max(Entries(t))
     THEN [tmr_tbl[i] EXCEPT !.smobj = sma] ELSE tmr_tbl[i]]

tmrtbl_start(t, sma) ==
  [i \in DOMAIN tmr_tbl |->
     IF i \in Entries(t) THEN [tmr_tbl[i] EXCEPT !.smobj = sma] ELSE tmr_tbl[i]]

(* h_tstart(), of a timer that has been initialised                        *)
TimerStart(t, sma) ==
  /\ timer[t].sig # -1
  /\ InTurn(<<t, sma>>, <<>>, {}, NotDrawn)
  /\ tmr_tbl' = tmrtbl_start(t, sma)
  /\ timer' = [timer EXCEPT ![t].sma = sma]

(* tmrtbl_find() and sdiag_tmrevt(): the line is drawn with what the table *)
(* says of the timer.                                                      *)
TimeoutLine(t) ==
  IF Entries(t) = {} THEN NotDrawn
  ELSE LET p == tmr_tbl[Min(Entries(t))]
       IN  [timer |-> t, objs |-> <<p.smobj, p.smobj>>, sigs |-> <<p.sobj>>]

(* h_tout(), of a timer that has been started                              *)
Timeout(t) ==
  /\ timer[t].sma # 0
  /\ InTurn(<<t, timer[t].sma>>, <<timer[t].sig>>, {}, TimeoutLine(t))
  /\ UNCHANGED <<tmr_tbl, timer>>

Next ==
  \/ Configured
  \/ \E name \in Names :
       \/ \E obj \in Objects : GiveObject(obj, name)
       \/ \E ao, obj \in Objects : GiveState(ao, obj, name)
       \/ \E epid \in Pools : GivePool(epid, name)
       \/ \E e \in Signals : GiveSignal(e, name)
       \/ \E ue \in UserEvents : GiveUser(ue, name)
  \/ \E obj1 \in Objects :
       \/ ShowObject(obj1)
       \/ \E obj2 \in Objects :
            \/ \E isState \in BOOLEAN : ShowTwo(obj1, obj2, isState)
            \/ ShowInTurn(obj1, obj2)
            \/ \E ts \in Objects \cup {0} : ShowTransition(obj1, obj2, ts)
            \/ \E obj3 \in Objects : ShowSync(obj1, obj2, obj3) \/ ShowAction(obj1, obj2, obj3)
            \/ \E e \in Signals :
                 \/ ShowDispatch(obj1, e, obj2)
                 \/ \E pid \in Pools \cup {0} : ShowPost(obj1, e, obj2, pid)
       \/ \E e \in Signals, pid \in Pools \cup {0} : ShowGet(obj1, e, pid)
       \/ \E e \in Signals, pid \in Pools : ShowAllocated(e, pid - 1, obj1)
  \/ \E ue \in UserEvents : ShowUser(ue)
  \/ \E t \in Timers :
       \/ \E e \in Signals : TimerInit(t, e)
       \/ Timeout(t)
       \/ \E sma \in Objects : TimerStart(t, sma)

Spec == Init /\ [][Next]_vars
-----------------------------------------------------------------------------
NameSet(keys) == {Given(n) : n \in Names} \cup {Raw(k) : k \in keys}
TableOf(keys) == Seq([key : keys, name : NameSet(keys)])

TypeOK ==
  /\ symb_tbl \in TableOf(Objects \cup {0}) /\ epid_tbl \in TableOf(Pools)
  /\ sig_tbl \in TableOf(Signals) /\ uevt_tbl \in TableOf(UserEvents)
  /\ tmr_tbl \in Seq([tobj : Timers, sobj : Signals, smobj : Objects \cup {0}])
  /\ timer \in [Timers -> [sig : Signals \cup {-1}, same : BOOLEAN, sma : Objects \cup {0}]]

TableNamed(table) ==
  CASE table = "symb" -> symb_tbl [] table = "epid" -> epid_tbl
    [] table = "sig"  -> sig_tbl  [] table = "uevt" -> uevt_tbl

OneToOne(pairs) == \A p, q \in pairs : p[1] = q[1] <=> p[2] = q[2]

(* As long as the names that a table was told since the target started    *)
(* are one-to-one, a look-up of each finds its name: also when records     *)
(* named the object before the record that gives it a name, and whatever   *)
(* names of another program's signals and user events were kept.           *)
Named ==
  \A table \in Tables :
    OneToOne(anew[table]) =>
      \A p \in anew[table] : Name(TableNamed(table), p[1]) = Given(p[2])

(* No object or pool is shown under a name that it was given before the    *)
(* target started, or that was given to another: an address that is used   *)
(* again by another program does not inherit the name.  A signal, whose    *)
(* names are kept, is at least not shown under a name never given to it.   *)
NoStrangeNames ==
  \A s \in shown.names \cup diagram.names :
    s[1] # "uevt" /\ s[3][1] = "given" => <<s[2], s[3][2]>> \in told[s[1]]

(* Names only fail when a record with several objects names one of them    *)
(* for the first time, and never those of the records that copy them.      *)
OnlyFirstSightGarbled ==
  (\E s \in shown.names : s[3] = Dangling) => shown.fresh /\ ~shown.copied

(* The sequence diagram, drawn from the same objects with several look-ups *)
(* in one call, has every name whole.                                      *)
DiagramWhole == \A s \in diagram.names : s[3] \notin {Dangling, NoName}

(* A timeout is drawn to the state machine for which the timer was last    *)
(* started and with the signal of the timer, across restarts of the target *)
(* too, unless timers change their signals.                                *)
TimeoutRight ==
  diagram.timer # 0 /\ timer[diagram.timer].same =>
    {<<s[1], s[2]>> : s \in diagram.names} =
      {<<"symb", timer[diagram.timer].sma>>, <<"sig", timer[diagram.timer].sig>>}

(* A user event is shown under a name only if it was told for that event,  *)
(* for all 32 events of a group.  Does not hold: a name is looked up by    *)
(* the low three bits of the number.                                       *)
UserEventsApart ==
  \A s \in shown.names :
    s[1] = "uevt" /\ s[3][1] = "given" => <<s[2], s[3][2]>> \in told["uevt"]
=============================================================================
