-------------------------- MODULE UnitTrz_proofs --------------------------
(***************************************************************************)
(* What UnitTrazer's answers mean, for scripts of any length, any events,  *)
(* arguments and calls.                                                    *)
(*                                                                         *)
(* That the list of expectations is the rest of the script holds always.   *)
(* That failure is answered exactly when the events deviate from the       *)
(* script is proved for tests that only ignore arguments no other follows  *)
(* (TailIgnored); without this it does not hold, as CheckInOrder compares  *)
(* the arguments after an ignored one with the wrong values.               *)
(***************************************************************************)
EXTENDS UnitTrz, TLAPS, SequenceTheorems, FiniteSetTheorems

SeenEvent == [id : Event, values : Seq(Nat)]

(* Expectations have the arguments of their events.                        *)
Shaped(x) == Len(x.args) = NumArgs[x.id]

(* ListIsRest, element by element.                                         *)
Rest ==
  /\ Len(script) = Len(seen) + Len(utrz_expected_lst)
  /\ \A i \in 1 .. Len(utrz_expected_lst) : utrz_expected_lst[i] = script[Len(seen) + i]

IInv == TypeOK /\ Rest /\ \A i \in 1 .. Len(script) : Shaped(script[i])

LEMMA RestIsList == TypeOK /\ Rest => ListIsRest
<1> SUFFICES ASSUME TypeOK, Rest PROVE ListIsRest
  OBVIOUS
<1> DEFINE m == Len(seen)
           n == Len(script)
           s == SubSeq(script, m + 1, n)
<1>1. m \in Nat /\ n \in Nat /\ Len(utrz_expected_lst) \in Nat /\ n = m + Len(utrz_expected_lst)
  BY LenProperties DEF TypeOK, Rest
<1>2. \A i \in m + 1 .. n : script[i] \in Expectation
  BY <1>1, ElementOfSeq DEF TypeOK
<1> HIDE DEF m, n
<1>3. /\ s \in Seq(Expectation) /\ Len(s) = IF m + 1 <= n THEN n - (m + 1) + 1 ELSE 0
      /\ \A i \in 1 .. n - (m + 1) + 1 : s[i] = script[m + 1 + i - 1]
  BY <1>1, <1>2, SubSeqProperties
<1>4. Len(s) = Len(utrz_expected_lst) /\ \A i \in 1 .. Len(s) : s[i] = utrz_expected_lst[i]
  BY <1>1, <1>3 DEF Rest, m
<1>5. s = utrz_expected_lst
  BY <1>3, <1>4, SeqEqual DEF TypeOK
<1> QED BY <1>1, <1>5 DEF ListIsRest, m, n

(* Ignoring an argument of an expectation changes nothing else of it.      *)
LEMMA IgnoringOne ==
  ASSUME NEW x \in Expectation, Shaped(x), NEW ix \in 1 .. NumArgs[x.id]
  PROVE  /\ Ignoring(x, ix) \in Expectation
         /\ Ignoring(x, ix).id = x.id
         /\ Shaped(Ignoring(x, ix))
         /\ Checked(Ignoring(x, ix).args) = Checked(x.args) \ {ix}
<1> DEFINE a == x.args
           y == [ignored |-> TRUE, value |-> a[ix].value]
           b == [a EXCEPT ![ix] = y]
<1>1. a \in Seq(Argument) /\ ix \in 1 .. Len(a) /\ DOMAIN a = 1 .. Len(a) /\ x.id \in Event
  BY LenProperties DEF Expectation, Shaped
<1>2. a[ix] \in Argument
  BY <1>1, ElementOfSeq
<1>3. y \in Argument /\ y.ignored = TRUE
  BY <1>2 DEF Argument
<1>4. /\ b \in Seq(Argument) /\ Len(b) = Len(a)
      /\ \A j \in 1 .. Len(a) : b[j] = IF j = ix THEN y ELSE a[j]
  BY <1>1, <1>3, ExceptSeq
<1>5. DOMAIN b = 1 .. Len(a)
  BY <1>4, LenProperties
<1>6. Ignoring(x, ix) = [id |-> x.id, args |-> b]
  BY DEF Ignoring, Expectation
<1>7. Checked(b) = Checked(a) \ {ix}
  BY <1>1, <1>3, <1>4, <1>5 DEF Checked
<1> HIDE DEF b
<1>8. /\ [id |-> x.id, args |-> b] \in Expectation
      /\ Ignoring(x, ix).args = b /\ Ignoring(x, ix).id = x.id
  BY <1>1, <1>4, <1>6 DEF Expectation
<1> QED BY <1>4, <1>6, <1>7, <1>8 DEF Shaped
-----------------------------------------------------------------------------
(* The invariant.                                                          *)

LEMMA InitIInv == Init => IInv
<1> SUFFICES ASSUME Init PROVE IInv
  OBVIOUS
<1>1. <<>> \in Seq(Expectation) /\ <<>> \in Seq(SeenEvent) /\ Len(<<>>) = 0
  BY EmptySeq
<1>2. TypeOK
  BY <1>1, UnitTrzAssumption DEF Init, TypeOK, Answer, SeenEvent
<1>3. Rest /\ \A i \in 1 .. Len(script) : Shaped(script[i])
  BY <1>1 DEF Init, Rest
<1> QED BY <1>2, <1>3 DEF IInv

(* The beginning of a test.                                                *)
LEMMA NewTestIInv ==
  ASSUME IInv, NewTest, utrz_expected_lst' = <<>>, utrz_running' \in BOOLEAN,
         utrz_ign_group' \subseteq Group, utrz_ign_evt' \subseteq Event, utrz_last_resp' \in Answer
  PROVE  IInv'
BY EmptySeq DEF IInv, TypeOK, NewTest, Rest

(* What has to be seen to of a command that leaves the lists alone.        *)
LEMMA CommandIInv ==
  ASSUME IInv, UNCHANGED <<utrz_expected_lst, testvars>>, utrz_running' \in BOOLEAN,
         utrz_ign_group' \subseteq Group, utrz_ign_evt' \subseteq Event, utrz_last_resp' \in Answer
  PROVE  IInv'
BY DEF IInv, TypeOK, testvars, Rest

LEMMA AnswerIsAnswer ==
  ASSUME TypeOK, NEW answer \in Answer, utrz_resp(answer)
  PROVE  utrz_last_resp' \in Answer
BY DEF TypeOK, utrz_resp

(* An expectation is appended to the list and to the script.               *)
LEMMA AddIInv ==
  ASSUME IInv, NEW e \in Event, NEW args \in Seq(Argument), Len(args) = NumArgs[e],
         AddExpectation(e, args)
  PROVE  IInv'
<1> DEFINE x == [id |-> e, args |-> args]
<1>1. x \in Expectation /\ Shaped(x)
  BY DEF Expectation, Shaped
<1>2. TypeOK /\ utrz_last_resp' \in Answer
  BY AnswerIsAnswer DEF IInv, AddExpectation, Answer
<1>3. script' = Append(script, x) /\ utrz_expected_lst' = Append(utrz_expected_lst, x)
      /\ UNCHANGED <<utrz_running, utrz_ign_group, seen, excess, clean>>
      /\ utrz_ign_evt' \subseteq Event
  BY <1>2 DEF AddExpectation, TypeOK
<1> HIDE DEF x
<1>4. /\ Len(script) \in Nat /\ Len(seen) \in Nat /\ Len(utrz_expected_lst) \in Nat
      /\ script' \in Seq(Expectation) /\ Len(script') = Len(script) + 1
      /\ script'[Len(script) + 1] = x /\ \A i \in 1 .. Len(script) : script'[i] = script[i]
      /\ utrz_expected_lst' \in Seq(Expectation)
      /\ Len(utrz_expected_lst') = Len(utrz_expected_lst) + 1
      /\ utrz_expected_lst'[Len(utrz_expected_lst) + 1] = x
      /\ \A i \in 1 .. Len(utrz_expected_lst) : utrz_expected_lst'[i] = utrz_expected_lst[i]
  BY <1>1, <1>2, <1>3, AppendProperties, LenProperties DEF TypeOK
<1>5. TypeOK'
  BY <1>2, <1>3, <1>4 DEF TypeOK
<1>6. Rest'
  BY <1>3, <1>4 DEF IInv, Rest
<1>7. \A i \in 1 .. Len(script') : Shaped(script'[i])
  BY <1>1, <1>4 DEF IInv
<1> QED BY <1>5, <1>6, <1>7 DEF IInv, Shaped

(* An argument of the last expectation is ignored, in both.                *)
LEMMA IgnoreArgIInv ==
  ASSUME IInv, NEW e \in Event, NEW ix \in 1 .. NumArgs[e], utrz_ignore_arg(e, ix)
  PROVE  /\ IInv'
         /\ \/ UNCHANGED script
            \/ /\ Len(script) > Len(seen) /\ script[Len(script)].id = e
               /\ Len(script') = Len(script)
               /\ \A i \in 1 .. Len(script) :
                    script'[i] = IF i = Len(script) THEN Ignoring(script[i], ix) ELSE script[i]
<1> DEFINE l == utrz_expected_lst
           m == Len(l)
           n == Len(script)
           x == script[n]
<1>1. /\ TypeOK /\ l # <<>> /\ m \in Nat \ {0} /\ n = Len(seen) + m /\ Len(seen) \in Nat
      /\ l[m] = x /\ x \in Expectation /\ Shaped(x) /\ utrz_last_resp' \in Answer
  <2>1. TypeOK /\ l # <<>> /\ m \in Nat \ {0} /\ Len(seen) \in Nat /\ n = Len(seen) + m
    BY EmptySeq, LenProperties DEF IInv, TypeOK, utrz_ignore_arg, Rest
  <2>2. l[m] = x /\ n \in 1 .. Len(script)
    BY <2>1 DEF IInv, Rest
  <2>3. x \in Expectation
    BY <2>2, ElementOfSeq DEF IInv, TypeOK
  <2>4. utrz_last_resp' \in Answer
    BY <2>1, AnswerIsAnswer DEF utrz_ignore_arg, Answer
  <2> QED BY <2>1, <2>2, <2>3, <2>4 DEF IInv
<1>2. CASE l[m].id # e
  <2>1. UNCHANGED <<l, testvars, utrz_running, utrz_ign_group, utrz_ign_evt>>
    BY <1>2 DEF utrz_ignore_arg, testvars
  <2> QED BY <1>1, <2>1, CommandIInv DEF testvars, TypeOK
<1>3. CASE l[m].id = e
  <2> DEFINE y == Ignoring(x, ix)
  <2>1. y \in Expectation /\ Shaped(y)
    BY <1>1, <1>3, IgnoringOne
  <2>2. l' = [l EXCEPT ![m] = y] /\ script' = [script EXCEPT ![n] = y]
        /\ UNCHANGED <<utrz_running, utrz_ign_group, utrz_ign_evt, seen, excess, clean>>
    BY <1>1, <1>3 DEF utrz_ignore_arg, Ignoring
  <2> HIDE DEF y, x
  <2>3. /\ script' \in Seq(Expectation) /\ Len(script') = n
        /\ \A i \in 1 .. n : script'[i] = IF i = n THEN y ELSE script[i]
        /\ l' \in Seq(Expectation) /\ Len(l') = m
        /\ \A i \in 1 .. m : l'[i] = IF i = m THEN y ELSE l[i]
    BY <1>1, <2>1, <2>2, ExceptSeq DEF TypeOK
  <2>4. TypeOK'
    BY <1>1, <2>2, <2>3 DEF TypeOK
  <2>5. Rest'
    <3>1. ASSUME NEW i \in 1 .. m PROVE l'[i] = script'[Len(seen) + i]
      <4>1. l[i] = script[Len(seen) + i]
        BY DEF IInv, Rest
      <4>2. i = m <=> Len(seen) + i = n
        BY <1>1
      <4>3. Len(seen) + i \in 1 .. n
        BY <1>1
      <4> QED BY <2>3, <4>1, <4>2, <4>3
    <3> QED BY <1>1, <2>2, <2>3, <3>1 DEF Rest
  <2>6. \A i \in 1 .. Len(script') : Shaped(script'[i])
    BY <2>1, <2>3 DEF IInv
  <2>7. n > Len(seen) /\ script[n].id = e
    BY <1>1, <1>3 DEF x
  <2> QED BY <2>3, <2>4, <2>5, <2>6, <2>7 DEF IInv, Shaped, x, y
<1> QED BY <1>2, <1>3

(* An event takes the oldest expectation off the list.                     *)
LEMMA CheckIInv ==
  ASSUME IInv, NEW e \in Event, NEW values \in Seq(Nat), CheckAgainstHead(e, values),
         UNCHANGED <<utrz_running, utrz_ign_group, utrz_ign_evt, script>>
  PROVE  /\ IInv'
         /\ Len(seen) + 1 \in 1 .. Len(script)
         /\ Head(utrz_expected_lst) = script[Len(seen) + 1]
         /\ seen' = Append(seen, [id |-> e, values |-> values])
<1> DEFINE l == utrz_expected_lst
           ev == [id |-> e, values |-> values]
<1>1. /\ TypeOK /\ l # <<>> /\ Len(l) \in Nat \ {0} /\ Len(seen) \in Nat
      /\ Len(script) = Len(seen) + Len(l) /\ utrz_last_resp' \in Answer
  <2>1. TypeOK /\ l # <<>> /\ Len(l) \in Nat \ {0} /\ Len(seen) \in Nat
    BY EmptySeq, LenProperties DEF IInv, TypeOK, CheckAgainstHead
  <2>2. utrz_last_resp' \in Answer
    BY <2>1, AnswerIsAnswer DEF CheckAgainstHead, Answer
  <2> QED BY <2>1, <2>2 DEF IInv, Rest
<1>2. l' = Tail(l) /\ seen' = Append(seen, ev) /\ excess' = excess /\ clean' \in BOOLEAN
  BY <1>1 DEF CheckAgainstHead, TypeOK
<1>3. ev \in SeenEvent
  BY DEF SeenEvent
<1> HIDE DEF ev
<1>4. seen' \in Seq(SeenEvent) /\ Len(seen') = Len(seen) + 1
  BY <1>1, <1>2, <1>3, AppendProperties DEF TypeOK, SeenEvent
<1>5. l' \in Seq(Expectation) /\ Len(l') = Len(l) - 1 /\ \A i \in 1 .. Len(l') : l'[i] = l[i + 1]
  BY <1>1, <1>2, HeadTailProperties DEF TypeOK
<1>6. TypeOK'
  BY <1>1, <1>2, <1>4, <1>5 DEF TypeOK, SeenEvent
<1>7. Rest'
  <2>1. ASSUME NEW i \in 1 .. Len(l') PROVE l'[i] = script[Len(seen') + i]
    <3>1. l[i + 1] = script[Len(seen) + (i + 1)]
      BY <1>1, <1>5 DEF IInv, Rest
    <3> QED BY <1>1, <1>4, <1>5, <3>1
  <2> QED BY <1>1, <1>4, <1>5, <2>1 DEF Rest
<1>8. Head(l) = l[1] /\ l[1] = script[Len(seen) + 1]
  BY <1>1 DEF IInv, Rest
<1> QED BY <1>1, <1>2, <1>6, <1>7, <1>8 DEF IInv, ev

(* The arguments that expectations are entered with: all are checked, or   *)
(* none is.                                                                *)
LEMMA FunctionIsSeq ==
  ASSUME NEW n \in Nat, NEW s \in [1 .. n -> Argument]
  PROVE  s \in Seq(Argument) /\ Len(s) = n
<1>1. s \in Seq(Argument)
  BY SeqDef
<1>2. DOMAIN s = 1 .. Len(s) /\ Len(s) \in Nat /\ DOMAIN s = 1 .. n
  BY <1>1, LenProperties
<1>3. Len(s) = n
  BY <1>2
<1> QED BY <1>1, <1>3

LEMMA AllChecked ==
  ASSUME NEW e \in Event, NEW values \in Arguments[e],
         NEW args, args = [i \in 1 .. NumArgs[e] |-> [ignored |-> FALSE, value |-> values[i]]]
  PROVE  args \in Seq(Argument) /\ Len(args) = NumArgs[e] /\ Checked(args) = 1 .. Len(args)
<1>1. values \in Seq(Nat) /\ Len(values) = NumArgs[e] /\ NumArgs[e] \in Nat
  BY UnitTrzAssumption
<1>2. \A i \in 1 .. NumArgs[e] : values[i] \in Nat
  BY <1>1, ElementOfSeq
<1>3. args \in [1 .. NumArgs[e] -> Argument]
  BY <1>2 DEF Argument
<1>4. args \in Seq(Argument) /\ Len(args) = NumArgs[e]
  BY <1>1, <1>3, FunctionIsSeq
<1>5. Checked(args) = 1 .. NumArgs[e]
  BY DEF Checked
<1> QED BY <1>4, <1>5

LEMMA NoneChecked ==
  ASSUME NEW e \in Event,
         NEW args, args = [i \in 1 .. NumArgs[e] |-> [ignored |-> TRUE, value |-> 0]]
  PROVE  args \in Seq(Argument) /\ Len(args) = NumArgs[e] /\ Checked(args) = {}
<1>1. NumArgs[e] \in Nat /\ args \in [1 .. NumArgs[e] -> Argument]
  BY UnitTrzAssumption DEF Argument
<1>2. args \in Seq(Argument) /\ Len(args) = NumArgs[e]
  BY <1>1, FunctionIsSeq
<1>3. Checked(args) = {}
  BY DEF Checked
<1> QED BY <1>2, <1>3

LEMMA NextIInv == IInv /\ [Next]_vars => IInv'
<1> SUFFICES ASSUME IInv, [Next]_vars PROVE IInv'
  OBVIOUS
<1>0. TypeOK /\ "SUCCESS" \in Answer /\ "FAIL" \in Answer
  BY DEF IInv, Answer
<1>1. CASE utrz_init
  BY <1>0, <1>1, NewTestIInv DEF utrz_init, TypeOK
<1>2. CASE utrz_clean
  BY <1>0, <1>2, NewTestIInv, AnswerIsAnswer DEF utrz_clean, TypeOK
<1>3. CASE utrz_verify
  BY <1>0, <1>3, CommandIInv, AnswerIsAnswer DEF utrz_verify, TypeOK
<1>4. ASSUME NEW e \in Event, NEW values \in Arguments[e], utrz_add_expect(e, values) PROVE IInv'
  <2>1. CASE GroupOf[e] = SM
    <3> DEFINE args == [i \in 1 .. NumArgs[e] |-> [ignored |-> FALSE, value |-> values[i]]]
    <3>1. args \in Seq(Argument) /\ Len(args) = NumArgs[e]
      BY AllChecked
    <3>2. AddExpectation(e, args)
      BY <1>4, <2>1 DEF utrz_add_expect
    <3> HIDE DEF args
    <3> QED BY <3>1, <3>2, AddIInv
  <2>2. CASE GroupOf[e] # SM
    BY <1>0, <1>4, <2>2, CommandIInv, AnswerIsAnswer DEF utrz_add_expect, TypeOK, testvars
  <2> QED BY <2>1, <2>2
<1>5. ASSUME NEW e \in Event, utrz_add_expect_any_args(e) PROVE IInv'
  <2> DEFINE args == [i \in 1 .. NumArgs[e] |-> [ignored |-> TRUE, value |-> 0]]
  <2>1. args \in Seq(Argument) /\ Len(args) = NumArgs[e]
    BY NoneChecked
  <2>2. AddExpectation(e, args)
    BY <1>5 DEF utrz_add_expect_any_args
  <2> HIDE DEF args
  <2> QED BY <2>1, <2>2, AddIInv
<1>6. ASSUME NEW e \in Event, utrz_ignore_evt(e) PROVE IInv'
  BY <1>0, <1>6, CommandIInv, AnswerIsAnswer DEF utrz_ignore_evt, TypeOK
<1>7. ASSUME NEW e \in Event, NEW values \in Arguments[e], utrz_chk_expect(e, values) PROVE IInv'
  <2>1. UNCHANGED <<utrz_running, utrz_ign_group, utrz_ign_evt, script>>
    BY <1>7 DEF utrz_chk_expect
  <2>2. CASE utrz_resp("SUCCESS") /\ UNCHANGED <<utrz_expected_lst, seen, excess, clean>>
    BY <1>0, <2>1, <2>2, CommandIInv, AnswerIsAnswer DEF TypeOK, testvars
  <2>3. CASE NothingExpected
    <3>1. utrz_last_resp' \in Answer
      BY <1>0, <2>3, AnswerIsAnswer DEF NothingExpected
    <3>2. clean' \in BOOLEAN /\ UNCHANGED <<utrz_expected_lst, seen>> /\ excess' = excess + 1
      BY <2>3 DEF NothingExpected
    <3>3. TypeOK'
      BY <1>0, <2>1, <3>1, <3>2 DEF TypeOK
    <3> QED BY <2>1, <2>3, <3>3 DEF NothingExpected, IInv, Rest
  <2>4. CASE CheckAgainstHead(e, values)
    BY <2>1, <2>4, CheckIInv, UnitTrzAssumption
  <2> QED BY <1>7, <2>2, <2>3, <2>4 DEF utrz_chk_expect
<1>8. ASSUME NEW arg \in Ignorable, utrz_ignore_arg(arg[1], arg[2]) PROVE IInv'
  BY <1>8, IgnoreArgIInv, UnitTrzAssumption
<1>9. ASSUME NEW g \in Group, utrz_ignore_group(g) PROVE IInv'
  BY <1>0, <1>9, CommandIInv, AnswerIsAnswer DEF utrz_ignore_group, TypeOK
<1>10. CASE UNCHANGED vars
  BY <1>0, <1>10, CommandIInv DEF vars, TypeOK
<1> QED BY <1>1, <1>2, <1>3, <1>4, <1>5, <1>6, <1>7, <1>8, <1>9, <1>10 DEF Next

THEOREM Invariance == Spec => []IInv
BY InitIInv, NextIInv, PTL DEF Spec

(* Whatever is sent, the list and the answer have their types.             *)
THEOREM TypeCorrect == Spec => []TypeOK
BY Invariance, PTL DEF IInv

(* The list of expectations is always what is left of the script once each *)
(* event that counts has used one up, whether it met it or not.            *)
THEOREM ListCorrect == Spec => []ListIsRest
<1>1. IInv => ListIsRest
  BY RestIsList DEF IInv
<1> QED BY <1>1, Invariance, PTL
-----------------------------------------------------------------------------
(* Failure is answered exactly when the events deviate.                    *)

(* An ignored argument is the last one, or the action type, which has a    *)
(* check of its own.                                                       *)
TailIgnored ==
  \A arg \in Ignorable : arg[2] = NumArgs[arg[1]] \/ (arg[1] = ActEvent /\ arg[2] = 1)

(* The first of the arguments that are checked one after the other.        *)
FirstInOrder(e) == IF e = ActEvent THEN 2 ELSE 1

(* None that is ignored comes before one that is checked.                  *)
InOrder(x) ==
  \A i \in Checked(x.args) : \A j \in FirstInOrder(x.id) .. i - 1 : j \in Checked(x.args)

(* Then the values are compared with the arguments they belong to.         *)
LEMMA ComparedInOrder ==
  ASSUME NEW x \in Expectation, InOrder(x), NEW values
  PROVE  CheckInOrder(x.args, values, FirstInOrder(x.id)) <=>
           \A i \in Checked(x.args) : i >= FirstInOrder(x.id) => values[i] = x.args[i].value
<1> DEFINE f == FirstInOrder(x.id)
           C == Checked(x.args)
           Before(i) == {j \in C : f <= j /\ j < i}
<1>1. f \in Nat /\ C \subseteq Nat
  <2>1. x.args \in Seq(Argument)
    BY DEF Expectation
  <2>2. DOMAIN x.args = 1 .. Len(x.args) /\ Len(x.args) \in Nat
    BY <2>1, LenProperties
  <2> QED BY <2>2 DEF FirstInOrder, Checked
<1>2. ASSUME NEW i \in C, i >= f PROVE f + Cardinality(Before(i)) = i
  <2>1. Before(i) = f .. i - 1
    BY <1>1, <1>2 DEF InOrder
  <2>2. f \in Int /\ i - 1 \in Int /\ i >= f
    BY <1>1, <1>2
  <2> HIDE DEF f, C
  <2>3. Cardinality(f .. i - 1) = IF f > i - 1 THEN 0 ELSE (i - 1) - f + 1
    BY <2>2, FS_Interval
  <2>4. f + Cardinality(f .. i - 1) = i
    BY <1>1, <1>2, <2>2, <2>3
  <2> HIDE DEF Before
  <2> QED BY <2>1, <2>4
<1> QED BY <1>2 DEF CheckInOrder

(* So that an event passes if and only if it meets the expectation.        *)
LEMMA PassIsMeet ==
  ASSUME NEW x \in Expectation, Shaped(x), InOrder(x), NEW e \in Event, NEW values
  PROVE  x.id = e /\ ArgumentsPass(e, x.args, values) <=>
           Meets([id |-> e, values |-> values], x)
<1> DEFINE C == Checked(x.args)
<1>1. DOMAIN x.args = 1 .. Len(x.args) /\ Len(x.args) = NumArgs[x.id] /\ NumArgs[x.id] \in Nat
  BY LenProperties, UnitTrzAssumption DEF Expectation, Shaped
<1>2. CASE x.id = ActEvent
  <2>1. 1 \in DOMAIN x.args
    BY <1>1, <1>2, UnitTrzAssumption
  <2>2. 1 \in C <=> ~x.args[1].ignored
    BY <2>1 DEF Checked
  <2>3. \A i \in C : i = 1 \/ i >= 2
    BY <1>1 DEF Checked
  <2>4. (\A i \in C : values[i] = x.args[i].value) <=>
          /\ ~x.args[1].ignored => x.args[1].value = values[1]
          /\ \A i \in C : i >= 2 => values[i] = x.args[i].value
    BY <2>2, <2>3
  <2> QED BY <1>2, <2>4, ComparedInOrder DEF ArgumentsPass, Meets, FirstInOrder
<1>3. CASE x.id # ActEvent
  <2>1. \A i \in C : i >= 1
    BY <1>1 DEF Checked
  <2> QED BY <1>3, <2>1, ComparedInOrder DEF ArgumentsPass, Meets, FirstInOrder
<1> QED BY <1>2, <1>3

(* What is added to the invariant: the answers of the test.                *)
Judged ==
  /\ \A i \in 1 .. Len(script) : InOrder(script[i])
  /\ clean <=> AsExpected

LEMMA InitJudged == Init => Judged
<1> SUFFICES ASSUME Init PROVE Judged
  OBVIOUS
<1>1. Len(script) = 0 /\ DOMAIN seen = {}
  BY EmptySeq DEF Init
<1> QED BY <1>1 DEF Init, Judged, AsExpected

LEMMA NewTestJudged == NewTest => Judged'
<1> SUFFICES ASSUME NewTest PROVE Judged'
  OBVIOUS
<1>1. Len(script') = 0 /\ DOMAIN seen' = {}
  BY EmptySeq DEF NewTest
<1> QED BY <1>1 DEF NewTest, Judged, AsExpected

LEMMA UnchangedJudged == Judged /\ UNCHANGED testvars => Judged'
BY DEF Judged, AsExpected, testvars, Meets, InOrder

(* As long as the events seen and what they were compared with stay.       *)
LEMMA AsExpectedKept ==
  ASSUME IInv, UNCHANGED <<seen, excess>>,
         \A i \in 1 .. Len(seen) : script'[i] = script[i]
  PROVE  AsExpected' <=> AsExpected
<1>1. DOMAIN seen = 1 .. Len(seen)
  BY LenProperties DEF IInv, TypeOK
<1> QED BY <1>1 DEF AsExpected, Meets

LEMMA AddJudged ==
  ASSUME IInv, Judged, NEW e \in Event, NEW args \in Seq(Argument), AddExpectation(e, args),
         Checked(args) = {} \/ Checked(args) = 1 .. Len(args)
  PROVE  Judged'
<1> DEFINE x == [id |-> e, args |-> args]
<1>1. x \in Expectation /\ InOrder(x)
  <2>1. Len(args) \in Nat /\ FirstInOrder(e) \in {1, 2}
    BY LenProperties DEF FirstInOrder
  <2> QED BY <2>1 DEF Expectation, InOrder
<1>2. script' = Append(script, x) /\ UNCHANGED <<seen, excess, clean>>
  BY DEF AddExpectation
<1> HIDE DEF x
<1>3. /\ Len(script) \in Nat /\ Len(script') = Len(script) + 1
      /\ script'[Len(script) + 1] = x /\ \A i \in 1 .. Len(script) : script'[i] = script[i]
  BY <1>1, <1>2, AppendProperties, LenProperties DEF IInv, TypeOK
<1>4. 1 .. Len(seen) \subseteq 1 .. Len(script)
  BY LenProperties DEF IInv, TypeOK, Rest
<1>5. AsExpected' <=> AsExpected
  BY <1>2, <1>3, <1>4, AsExpectedKept
<1>6. \A i \in 1 .. Len(script') : InOrder(script'[i])
  BY <1>1, <1>3 DEF Judged
<1> QED BY <1>2, <1>5, <1>6 DEF Judged, InOrder

LEMMA IgnoreArgJudged ==
  ASSUME TailIgnored, IInv, Judged, NEW arg \in Ignorable, utrz_ignore_arg(arg[1], arg[2])
  PROVE  Judged'
<1> DEFINE e == arg[1]
           ix == arg[2]
           n == Len(script)
           x == script[n]
<1>1. e \in Event /\ ix \in 1 .. NumArgs[e] /\ utrz_ignore_arg(e, ix) /\ NumArgs[e] \in Nat
  BY UnitTrzAssumption
<1>2. UNCHANGED <<seen, excess, clean>> /\ Len(seen) \in Nat /\ n \in Nat
  BY LenProperties DEF utrz_ignore_arg, IInv, TypeOK
<1>3. CASE UNCHANGED script
  BY <1>2, <1>3, UnchangedJudged DEF testvars
<1>4. CASE /\ n > Len(seen) /\ x.id = e /\ Len(script') = n
           /\ \A i \in 1 .. n :
                script'[i] = IF i = n THEN Ignoring(script[i], ix) ELSE script[i]
  <2> DEFINE y == Ignoring(x, ix)
  <2>1. n \in 1 .. n /\ x \in Expectation /\ Shaped(x) /\ InOrder(x)
    <3>1. n \in 1 .. n
      BY <1>2, <1>4
    <3> QED BY <3>1, ElementOfSeq DEF IInv, TypeOK, Judged
  <2>2. y.id = x.id /\ Checked(y.args) = Checked(x.args) \ {ix}
    BY <1>1, <1>4, <2>1, IgnoringOne
  <2>3. InOrder(y)
    <3> SUFFICES ASSUME NEW i \in Checked(x.args), i # ix, NEW j \in FirstInOrder(x.id) .. i - 1
                 PROVE  j \in Checked(x.args) /\ j # ix
      BY <2>2 DEF InOrder
    <3>1. j \in Checked(x.args)
      BY <2>1 DEF InOrder
    <3>2. i \in 1 .. NumArgs[e]
      BY <1>4, <2>1, LenProperties DEF Checked, Expectation, Shaped
    <3>3. ix = NumArgs[e] \/ (x.id = ActEvent /\ ix = 1)
      BY <1>4 DEF TailIgnored
    <3> QED BY <1>1, <3>1, <3>2, <3>3 DEF FirstInOrder
  <2>4. \A i \in 1 .. Len(script') : InOrder(script'[i])
    BY <1>4, <2>3 DEF Judged
  <2>5. \A i \in 1 .. Len(seen) : script'[i] = script[i]
    BY <1>2, <1>4
  <2>6. AsExpected' <=> AsExpected
    BY <1>2, <2>5, AsExpectedKept
  <2> QED BY <1>2, <2>4, <2>6 DEF Judged, InOrder
<1> QED BY <1>1, <1>3, <1>4, IgnoreArgIInv

LEMMA CheckJudged ==
  ASSUME IInv, Judged, NEW e \in Event, NEW values \in Seq(Nat), CheckAgainstHead(e, values),
         UNCHANGED <<utrz_running, utrz_ign_group, utrz_ign_evt, script>>
  PROVE  Judged'
<1> DEFINE x == script[Len(seen) + 1]
           ev == [id |-> e, values |-> values]
           n == Len(seen)
<1>1. n + 1 \in 1 .. Len(script) /\ Head(utrz_expected_lst) = x /\ seen' = Append(seen, ev)
  BY CheckIInv
<1>2. x \in Expectation /\ Shaped(x) /\ InOrder(x)
  BY <1>1, ElementOfSeq DEF IInv, TypeOK, Judged
<1>3. clean' <=> clean /\ Meets(ev, x)
  BY <1>1, <1>2, PassIsMeet DEF CheckAgainstHead
<1>4. ev \in SeenEvent
  BY DEF SeenEvent
<1> HIDE DEF ev, x
<1>5. /\ n \in Nat /\ DOMAIN seen = 1 .. n /\ DOMAIN seen' = 1 .. n + 1
      /\ seen'[n + 1] = ev /\ \A i \in 1 .. n : seen'[i] = seen[i]
  <2>1. seen \in Seq(SeenEvent)
    BY DEF IInv, TypeOK, SeenEvent
  <2>2. /\ seen' \in Seq(SeenEvent) /\ Len(seen') = n + 1
        /\ seen'[n + 1] = ev /\ \A i \in 1 .. n : seen'[i] = seen[i]
    BY <1>1, <1>4, <2>1, AppendProperties
  <2> QED BY <2>1, <2>2, LenProperties
<1>6. excess' = excess
  BY DEF CheckAgainstHead
<1>7. AsExpected' <=> AsExpected /\ Meets(ev, x)
  <2>1. (\A i \in DOMAIN seen' : Meets(seen'[i], script[i])) <=>
          (\A i \in DOMAIN seen : Meets(seen[i], script[i])) /\ Meets(ev, x)
    BY <1>5 DEF x
  <2>2. AsExpected' <=> excess' = 0 /\ \A i \in DOMAIN seen' : Meets(seen'[i], script[i])
    BY DEF AsExpected, Meets
  <2> QED BY <1>6, <2>1, <2>2 DEF AsExpected
<1> QED BY <1>3, <1>7 DEF Judged, InOrder

LEMMA NextJudged ==
  ASSUME TailIgnored, IInv, Judged, [Next]_vars
  PROVE  Judged'
<1>1. CASE utrz_init
  BY <1>1, NewTestJudged DEF utrz_init
<1>2. CASE utrz_clean
  BY <1>2, NewTestJudged DEF utrz_clean
<1>3. CASE utrz_verify
  BY <1>3, UnchangedJudged DEF utrz_verify
<1>4. ASSUME NEW e \in Event, NEW values \in Arguments[e], utrz_add_expect(e, values) PROVE Judged'
  <2>1. CASE GroupOf[e] = SM
    <3> DEFINE args == [i \in 1 .. NumArgs[e] |-> [ignored |-> FALSE, value |-> values[i]]]
    <3>1. args \in Seq(Argument) /\ Checked(args) = 1 .. Len(args)
      BY AllChecked
    <3>2. AddExpectation(e, args)
      BY <1>4, <2>1 DEF utrz_add_expect
    <3> HIDE DEF args
    <3> QED BY <3>1, <3>2, AddJudged
  <2>2. CASE GroupOf[e] # SM
    BY <1>4, <2>2, UnchangedJudged DEF utrz_add_expect
  <2> QED BY <2>1, <2>2
<1>5. ASSUME NEW e \in Event, utrz_add_expect_any_args(e) PROVE Judged'
  <2> DEFINE args == [i \in 1 .. NumArgs[e] |-> [ignored |-> TRUE, value |-> 0]]
  <2>1. args \in Seq(Argument) /\ Checked(args) = {}
    BY NoneChecked
  <2>2. AddExpectation(e, args)
    BY <1>5 DEF utrz_add_expect_any_args
  <2> HIDE DEF args
  <2> QED BY <2>1, <2>2, AddJudged
<1>6. ASSUME NEW e \in Event, utrz_ignore_evt(e) PROVE Judged'
  BY <1>6, UnchangedJudged DEF utrz_ignore_evt
<1>7. ASSUME NEW e \in Event, NEW values \in Arguments[e], utrz_chk_expect(e, values) PROVE Judged'
  <2>1. UNCHANGED <<utrz_running, utrz_ign_group, utrz_ign_evt, script>>
    BY <1>7 DEF utrz_chk_expect
  <2>2. CASE UNCHANGED <<utrz_expected_lst, seen, excess, clean>>
    BY <2>1, <2>2, UnchangedJudged DEF testvars
  <2>3. CASE NothingExpected
    <3>1. excess' # 0 /\ clean' = FALSE
      BY <2>3 DEF NothingExpected, IInv, TypeOK
    <3> QED BY <2>1, <3>1 DEF Judged, AsExpected, InOrder
  <2>4. CASE CheckAgainstHead(e, values)
    BY <2>1, <2>4, CheckJudged, UnitTrzAssumption
  <2> QED BY <1>7, <2>2, <2>3, <2>4 DEF utrz_chk_expect
<1>8. ASSUME NEW arg \in Ignorable, utrz_ignore_arg(arg[1], arg[2]) PROVE Judged'
  BY <1>8, IgnoreArgJudged
<1>9. ASSUME NEW g \in Group, utrz_ignore_group(g) PROVE Judged'
  BY <1>9, UnchangedJudged DEF utrz_ignore_group
<1>10. CASE UNCHANGED vars
  BY <1>10, UnchangedJudged DEF vars
<1> QED BY <1>1, <1>2, <1>3, <1>4, <1>5, <1>6, <1>7, <1>8, <1>9, <1>10 DEF Next

LEMMA JudgedInvariance == TailIgnored => (Spec => []Judged)
<1> SUFFICES ASSUME TailIgnored PROVE Spec => []Judged
  OBVIOUS
<1>1. IInv /\ Judged /\ [Next]_vars => Judged'
  BY NextJudged
<1> QED BY <1>1, InitJudged, Invariance, PTL DEF Spec

(* No event that deviates from the script goes unnoticed, and none that    *)
(* follows it is reported, as long as only arguments are ignored that no   *)
(* other follows.                                                          *)
THEOREM MissesNothing == TailIgnored => (Spec => []NothingMissed)
<1> SUFFICES ASSUME TailIgnored PROVE Spec => []NothingMissed
  OBVIOUS
<1>1. Judged => NothingMissed
  BY DEF Judged, NothingMissed
<1> QED BY <1>1, JudgedInvariance, PTL

THEOREM RaisesNoFalseAlarm == TailIgnored => (Spec => []NoFalseAlarm)
<1> SUFFICES ASSUME TailIgnored PROVE Spec => []NoFalseAlarm
  OBVIOUS
<1>1. Judged => NoFalseAlarm
  BY DEF Judged, NoFalseAlarm
<1> QED BY <1>1, JudgedInvariance, PTL

(* A test answered with success throughout and then verified with success  *)
(* has seen its script, all of it and nothing else.                        *)
THEOREM VerifiedIsMet == TailIgnored => (Spec => VerifiedMeansMet)
<1> SUFFICES ASSUME TailIgnored PROVE Spec => VerifiedMeansMet
  OBVIOUS
<1> DEFINE Verdict == utrz_verify /\ utrz_running /\ utrz_last_resp' = "SUCCESS" /\ clean
                        => AsExpected /\ Len(seen) = Len(script)
<1>1. IInv /\ Judged => Verdict
  <2> SUFFICES ASSUME IInv, Judged, utrz_verify, utrz_running, utrz_last_resp' = "SUCCESS", clean
               PROVE  AsExpected /\ Len(seen) = Len(script)
    OBVIOUS
  <2>1. utrz_expected_lst = <<>>
    BY DEF utrz_verify, utrz_resp
  <2>2. Len(script) = Len(seen) + 0 /\ Len(seen) \in Nat
    BY <2>1, EmptySeq, LenProperties DEF IInv, TypeOK, Rest
  <2> QED BY <2>2 DEF Judged
<1>2. IInv /\ Judged => [Verdict]_vars
  BY <1>1
<1> QED BY <1>2, Invariance, JudgedInvariance, PTL DEF VerifiedMeansMet
=============================================================================
