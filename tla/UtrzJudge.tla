----------------------------- MODULE UtrzJudge -----------------------------
(***************************************************************************)
(* What a unit test relies on when it is run with UnitTrazer: the test     *)
(* tells the judge one record at a time, and goes on with the verdict on   *)
(* that very record.  Once the judge has left, every record fails.         *)
(*                                                                         *)
(* UtrzSession implements this specification with a trace stream, a socket *)
(* and the two parsers at its ends; nothing in here comes from their code. *)
(***************************************************************************)
CONSTANTS
  Records,  \* what a test can tell the judge
  Verdict,  \* Verdict[r]: a status, "SUCCESS" or "FAIL", and a line
  None

VARIABLES
  asked,    \* the record the test waits for a verdict on, or None
  told,     \* the verdict the test has gone on with, or NoVerdict
  present   \* the judge has not left

jvars == <<asked, told, present>>

NoVerdict == [status |-> "NONE", line |-> 0]

Init == asked = None /\ told = NoVerdict /\ present \in BOOLEAN

(* A test that begins forgets the last one's verdict.                      *)
Ask(r) ==
  /\ asked = None /\ asked' = r
  /\ told' \in {told, NoVerdict} /\ UNCHANGED present

Answer ==
  /\ asked # None
  /\ asked' = None
  /\ \/ told' = Verdict[asked]
     \/ ~present /\ told'.status = "FAIL"
  /\ UNCHANGED present

Leave == present /\ present' = FALSE /\ UNCHANGED <<asked, told>>

(* The test dies, and may be started again.                                *)
Abandon == asked' = None /\ told' \in {told, NoVerdict} /\ UNCHANGED present

Next == (\E r \in Records : Ask(r)) \/ Answer \/ Leave \/ Abandon

Spec == Init /\ [][Next]_jvars
=============================================================================
