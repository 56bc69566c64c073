------------------------------ MODULE UnitTrz ------------------------------
(***************************************************************************)
(* UnitTrazer, the part of Trazer that judges unit tests of state machines *)
(* (source/unittrz.cpp, with the argument checks of source/evexptbl.cpp    *)
(* and the commands' handlers of source/tzparse.cpp).  A test sends        *)
(* commands (expect, ignore, verify, ...) and the trace records of the     *)
(* code under test; every one is answered with success or failure.         *)
(*                                                                         *)
(* The sender of an event (its first argument, the active object) is never *)
(* checked and is left out.  Only failures that judge the code under test  *)
(* count for clean; script and seen record the test for the properties.    *)
(***************************************************************************)
EXTENDS Integers, Sequences, FiniteSets

CONSTANTS
  Event,        \* the trace events
  ActEvent,     \* RKH_TE_SM_EXE_ACT, whose first argument has a check of its own
  NumArgs,      \* NumArgs[e]: the arguments of event e that can be checked
  Group,        \* the trace event groups
  GroupOf,      \* GETGRP
  SM,           \* RKH_TG_SM
  Arguments,    \* Arguments[e]: the arguments event e occurs with
  Ignorable,    \* the arguments that tests ask to ignore, <<event, index>>
  MaxScript,    \* bound on the expectations of a test
  MaxSeen       \* bound on its events

ASSUME UnitTrzAssumption ==
  /\ ActEvent \in Event
  /\ NumArgs \in [Event -> Nat] /\ NumArgs[ActEvent] > 0
  /\ Arguments \in [Event -> SUBSET Seq(Nat)]
  /\ \A e \in Event : \A a \in Arguments[e] : Len(a) = NumArgs[e]
  /\ GroupOf \in [Event -> Group] /\ SM \in Group
  /\ \A arg \in Ignorable : arg[1] \in Event /\ arg[2] \in 1 .. NumArgs[arg[1]]

VARIABLES
  utrz_running,       \* a test has begun
  utrz_ign_group,     \* groups that are ignored
  utrz_ign_evt,       \* events that are ignored
  utrz_expected_lst,  \* expectations not met yet, oldest first
  utrz_last_resp,     \* the answer to the last record
  script,             \* all expectations of the test (history variable)
  seen,               \* events checked against them (history variable)
  excess,             \* events nothing was expected for (history variable)
  clean               \* no event was answered with failure (history variable)

testvars == <<script, seen, excess, clean>>
vars == <<utrz_running, utrz_ign_group, utrz_ign_evt, utrz_expected_lst,
          utrz_last_resp, testvars>>

Answer == {"NONE", "SUCCESS", "FAIL"}
-----------------------------------------------------------------------------
(* utrz_resp(): before UT_INIT nothing is answered.                        *)
utrz_resp(answer) ==
  utrz_last_resp' = IF utrz_running THEN answer ELSE utrz_last_resp

is_ignored(e) == GroupOf[e] \in utrz_ign_group \/ e \in utrz_ign_evt

NewTest ==
  script' = <<>> /\ seen' = <<>> /\ excess' = 0 /\ clean' = TRUE

(* unitrazer_init() at the start of the program.                           *)
Init ==
  /\ utrz_running = FALSE
  /\ utrz_ign_group = Group \ {SM} /\ utrz_ign_evt = {}
  /\ utrz_expected_lst = <<>> /\ utrz_last_resp = "NONE"
  /\ script = <<>> /\ seen = <<>> /\ excess = 0 /\ clean = TRUE

(* RKH_TE_UT_INIT                                                          *)
utrz_init ==
  /\ utrz_expected_lst' = <<>>
  /\ utrz_ign_group' = Group \ {SM} /\ utrz_ign_evt' = {}
  /\ utrz_running' = TRUE
  /\ utrz_last_resp' = "SUCCESS"
  /\ NewTest

(* RKH_TE_UT_CLEANUP                                                       *)
utrz_clean ==
  /\ utrz_expected_lst' = <<>>
  /\ utrz_resp("SUCCESS")
  /\ NewTest
  /\ UNCHANGED <<utrz_running, utrz_ign_group, utrz_ign_evt>>

(* Faulty variant: the list is forgotten, so that it can be verified twice.*)
VerifyForgets ==
  /\ utrz_resp(IF utrz_expected_lst = <<>> THEN "SUCCESS" ELSE "FAIL")
  /\ utrz_expected_lst' = <<>>
  /\ UNCHANGED <<utrz_running, utrz_ign_group, utrz_ign_evt, testvars>>

(* Faulty variant: what is still expected is of no account.                *)
VerifySucceeds ==
  /\ utrz_resp("SUCCESS")
  /\ UNCHANGED <<utrz_running, utrz_ign_group, utrz_ign_evt, utrz_expected_lst, testvars>>

(* RKH_TE_UT_VERIFY                                                        *)
utrz_verify ==
  /\ utrz_resp(IF utrz_expected_lst = <<>> THEN "SUCCESS" ELSE "FAIL")
  /\ UNCHANGED <<utrz_running, utrz_ign_group, utrz_ign_evt, utrz_expected_lst, testvars>>
-----------------------------------------------------------------------------
(* An expected argument has a value, and may come to be ignored.           *)
Argument == [ignored : BOOLEAN, value : Nat]

Expectation == [id : Event, args : Seq(Argument)]

(* What both kinds of expectation have in common: e is no longer ignored.  *)
AddExpectation(e, args) ==
  /\ Len(script) < MaxScript
  /\ utrz_ign_evt' = utrz_ign_evt \ {e}
  /\ utrz_expected_lst' = Append(utrz_expected_lst, [id |-> e, args |-> args])
  /\ script' = Append(script, [id |-> e, args |-> args])
  /\ utrz_resp("SUCCESS")
  /\ UNCHANGED <<utrz_running, utrz_ign_group, seen, excess, clean>>

(* RKH_TE_UT_EXPECT; only events of the SM group have an entry in the      *)
(* tables of evexptbl.cpp, any other is refused by h_Expect().             *)
utrz_add_expect(e, values) ==
  IF GroupOf[e] = SM
  THEN AddExpectation(e, [i \in 1 .. NumArgs[e] |->
                            [ignored |-> FALSE, value |-> values[i]]])
  ELSE /\ utrz_resp("FAIL")
       /\ UNCHANGED <<utrz_running, utrz_ign_group, utrz_ign_evt,
                      utrz_expected_lst, testvars>>

(* RKH_TE_UT_EXPECT_ANYARGS, which tests send for SM events only.          *)
utrz_add_expect_any_args(e) ==
  /\ GroupOf[e] = SM
  /\ AddExpectation(e, [i \in 1 .. NumArgs[e] |->
                          [ignored |-> TRUE, value |-> 0]])

(* utrz_ignore_arg(): an argument of an expectation comes to be ignored.   *)
Ignoring(x, ix) ==
  [id |-> x.id, args |-> [x.args EXCEPT ![ix] = [ignored |-> TRUE, value |-> @.value]]]

(* RKH_TE_UT_IGNORE_ARG.  It refers to the last expectation; back() of an  *)
(* empty list is undefined, and tests ask only after an expectation.       *)
utrz_ignore_arg(e, ix) ==
  /\ utrz_expected_lst # <<>>
  /\ LET last == Len(utrz_expected_lst)
     IN  IF utrz_expected_lst[last].id = e
         THEN /\ utrz_expected_lst' =
                   [utrz_expected_lst EXCEPT ![last] = Ignoring(@, ix)]
              /\ script' = [script EXCEPT ![Len(script)] = Ignoring(@, ix)]
              /\ utrz_resp("SUCCESS")
         ELSE UNCHANGED <<utrz_expected_lst, script>> /\ utrz_resp("FAIL")
  /\ UNCHANGED <<utrz_running, utrz_ign_group, utrz_ign_evt, seen, excess, clean>>

(* RKH_TE_UT_IGNORE_GROUP                                                  *)
utrz_ignore_group(g) ==
  /\ utrz_ign_group' = utrz_ign_group \cup {g}
  /\ utrz_resp("SUCCESS")
  /\ UNCHANGED <<utrz_running, utrz_ign_evt, utrz_expected_lst, testvars>>

(* Faulty variant: the event lands in the list of the groups.              *)
IgnoreInGroups(e) ==
  /\ utrz_ign_group' = utrz_ign_group \cup {e}
  /\ utrz_resp("SUCCESS")
  /\ UNCHANGED <<utrz_running, utrz_ign_evt, utrz_expected_lst, testvars>>

(* RKH_TE_UT_IGNORE                                                        *)
utrz_ignore_evt(e) ==
  /\ utrz_ign_evt' = utrz_ign_evt \cup {e}
  /\ utrz_resp("SUCCESS")
  /\ UNCHANGED <<utrz_running, utrz_ign_group, utrz_expected_lst, testvars>>
-----------------------------------------------------------------------------
Checked(args) == {i \in DOMAIN args : ~args[i].ignored}

(* Faulty variant: the first argument that is checked decides.             *)
CheckFirstOnly(args, values, first) ==
  Checked(args) # {} =>
    \E i \in Checked(args) : i >= first /\ values[first] = args[i].value

(* The loop of c_sm_no_ao() and c_sm_no_num_args(), from argument first    *)
(* on: an ignored argument is skipped in the expectation, but va_arg() is  *)
(* not called for it, so that the values of the event fall behind.         *)
CheckInOrder(args, values, first) ==
  \A i \in Checked(args) :
    i >= first =>
      values[first + Cardinality({j \in Checked(args) : first <= j /\ j < i})] = args[i].value

(* find_exp_chk_fun() and the check it finds.  c_sm_exe_act() reads the    *)
(* action type, its first argument, whether it is ignored or not.          *)
ArgumentsPass(e, args, values) ==
  IF e = ActEvent
  THEN /\ ~args[1].ignored => args[1].value = values[1]
       /\ CheckInOrder(args, values, 2)
  ELSE CheckInOrder(args, values, 1)

(* Faulty variant: an unexpected event leaves the expectation in the list. *)
MismatchKeepsExpectation(e, values) ==
  LET x == Head(utrz_expected_lst)
      pass == x.id = e /\ ArgumentsPass(e, x.args, values)
  IN  /\ utrz_expected_lst # <<>>
      /\ utrz_expected_lst' = IF pass THEN Tail(utrz_expected_lst) ELSE utrz_expected_lst
      /\ seen' = Append(seen, [id |-> e, values |-> values])
      /\ clean' = (clean /\ pass)
      /\ utrz_resp(IF pass THEN "SUCCESS" ELSE "FAIL")
      /\ UNCHANGED excess

(* The oldest expectation is taken off the list, met or not.               *)
CheckAgainstHead(e, values) ==
  LET x == Head(utrz_expected_lst)
      pass == x.id = e /\ ArgumentsPass(e, x.args, values)
  IN  /\ utrz_expected_lst # <<>>
      /\ utrz_expected_lst' = Tail(utrz_expected_lst)
      /\ seen' = Append(seen, [id |-> e, values |-> values])
      /\ clean' = (clean /\ pass)
      /\ utrz_resp(IF pass THEN "SUCCESS" ELSE "FAIL")
      /\ UNCHANGED excess

NothingExpected ==
  /\ utrz_expected_lst = <<>>
  /\ excess' = excess + 1 /\ clean' = FALSE
  /\ utrz_resp("FAIL")
  /\ UNCHANGED <<utrz_expected_lst, seen>>

(* A trace record of the code under test.                                  *)
utrz_chk_expect(e, values) ==
  /\ Len(seen) + excess < MaxSeen
  /\ \/ /\ is_ignored(e)
        /\ utrz_resp("SUCCESS")
        /\ UNCHANGED <<utrz_expected_lst, seen, excess, clean>>
     \/ ~is_ignored(e) /\ (NothingExpected \/ CheckAgainstHead(e, values))
  /\ UNCHANGED <<utrz_running, utrz_ign_group, utrz_ign_evt, script>>

Next ==
  \/ utrz_init
  \/ utrz_clean
  \/ utrz_verify
  \/ \E e \in Event :
       \/ \E values \in Arguments[e] : utrz_add_expect(e, values)
       \/ utrz_add_expect_any_args(e)
       \/ utrz_ignore_evt(e)
       \/ \E values \in Arguments[e] : utrz_chk_expect(e, values)
  \/ \E arg \in Ignorable : utrz_ignore_arg(arg[1], arg[2])
  \/ \E g \in Group : utrz_ignore_group(g)

Spec == Init /\ [][Next]_vars
-----------------------------------------------------------------------------
TypeOK ==
  /\ utrz_running \in BOOLEAN
  /\ utrz_ign_group \subseteq Group /\ utrz_ign_evt \subseteq Event
  /\ utrz_expected_lst \in Seq(Expectation)
  /\ utrz_last_resp \in Answer
  /\ script \in Seq(Expectation)
  /\ seen \in Seq([id : Event, values : Seq(Nat)])
  /\ excess \in Nat /\ clean \in BOOLEAN

(* The list is what is left of the test's expectations once each event     *)
(* that counts has used one up.                                            *)
ListIsRest ==
  /\ Len(seen) <= Len(script)
  /\ utrz_expected_lst = SubSeq(script, Len(seen) + 1, Len(script))

(* What a test means: the event is the one expected, and the arguments     *)
(* that are not ignored have the expected values.                          *)
Meets(event, x) ==
  /\ event.id = x.id
  /\ \A i \in Checked(x.args) : event.values[i] = x.args[i].value

AsExpected ==
  excess = 0 /\ \A i \in DOMAIN seen : Meets(seen[i], script[i])

(* No event that deviates from the script goes unnoticed.                  *)
NothingMissed == clean => AsExpected

(* No event that follows the script is reported.                           *)
NoFalseAlarm == AsExpected => clean

(* A test that was answered with success throughout and is then verified   *)
(* with success has seen exactly its script.                               *)
VerifiedMeansMet ==
  [][utrz_verify /\ utrz_running /\ utrz_last_resp' = "SUCCESS" /\ clean
       => AsExpected /\ Len(seen) = Len(script)]_vars
=============================================================================
