---------------------------- MODULE UtrzSession ----------------------------
(***************************************************************************)
(* A unit test and the UnitTrazer engine that judges it, record by record. *)
(* The test records into the trace stream of module TraceRing; the hook at *)
(* the end of every record empties the stream towards the engine and takes *)
(* the answer.  There are two builds of it:                                *)
(*   - over a socket (prj/tests/sm_tcp, prj/tests/utrazer): the engine is  *)
(*     the Trazer program, the hook waits for an answer to come back;      *)
(*   - with the engine as a library (prj/tests/sm): the hook parses the    *)
(*     bytes itself and looks at the engine's last answer.                 *)
(*                                                                         *)
(* The test's process may be killed and started again, Trazer may be ended *)
(* with ESC.  A record is a few bytes and a flag; escapes, checksums and   *)
(* the judgement itself are the subjects of TraceLink and UnitTrz: here a  *)
(* frame that is not exactly a record has a wrong checksum.                *)
(*                                                                         *)
(* Answers come back as frames of the same kind, to a parser of the test's *)
(* own (prj/tests/utils/unitrazer/utzparse.c), and byte by byte.  Of an    *)
(* answer's text nothing is modelled but its terminator, and its line has  *)
(* one byte instead of four.                                               *)
(***************************************************************************)
EXTENDS TraceCodec

CONSTANTS
  N,            \* RKH_CFG_TRC_SIZEOF_STREAM
  BlockReq,     \* the block size the flush loop asks for
  Records,      \* the records a test makes
  UT_INIT,      \* the one that starts a test
  UnmetVerify,  \* RKH_TE_UT_VERIFY while expectations are left
  Bytes,        \* Bytes[r]: the bytes of record r, without its flag
  Verdict,      \* Verdict[r]: the engine's judgement of r, a status and a line
  Builds,       \* the builds considered: "socket", "library"
  FlagCutOff,   \* whether a kill may leave a record without its flag, see Die
  MaxSessions,  \* bound on how often the test is started
  None, EOF

ASSUME UtrzSessionAssumption ==
  /\ {UT_INIT, UnmetVerify} \subseteq Records /\ None \notin Records
  /\ Verdict \in [Records -> [status : {"SUCCESS", "FAIL"}, line : Octet]]
  /\ Verdict[UT_INIT].status = "SUCCESS" /\ Verdict[UnmetVerify].status = "FAIL"
  /\ \A r \in Records : Verdict[r].status = "SUCCESS" => Verdict[r].line = 0
  /\ DOMAIN Bytes = Records
  /\ \A r \in Records : Bytes[r] # <<>> /\ Bytes[r] \in Seq(Nat \ {RKH_FLG})
  /\ EOF \notin Nat
  /\ Builds \subseteq {"socket", "library"} /\ FlagCutOff \in BOOLEAN
  /\ N \in Nat \ {0} /\ BlockReq \in Nat /\ MaxSessions \in Nat \ {0}

VARIABLES
  build,          \* which build this is; never changes
  trcstm, trcin, trcout, trcqty, blk, nbytes, lent,  \* the stream: TraceRing
  pc,             \* what the test's thread is doing
  current, todo,  \* the record it makes, and the bytes not put yet
  greeted,        \* the test has sent UT_INIT
  told,           \* out: the status and the line the hook goes on with
  state, answer,  \* the test's parser: its state, and tr as far as it is filled
  sessions,       \* how often the test was started
  toEngine,       \* bytes on their way to Trazer; EOF where a client hung up
  toClient,       \* bytes on their way to the test
  tr,             \* the frame tzparser_exec() is collecting
  utrz_running,   \* the engine has seen UT_INIT
  utrz_last_resp, \* its last answer
  present         \* Trazer is running

stream == <<trcstm, trcin, trcout, trcqty, blk, nbytes, lent>>
parser == <<state, answer>>
test   == <<pc, current, todo, greeted, told, parser, sessions>>
wires  == <<toEngine, toClient>>
engine == <<tr, utrz_running, utrz_last_resp, present>>
vars   == <<build, stream, test, wires, engine>>

Byte == {0, RKH_FLG} \cup UNION {ToSet(Bytes[r]) : r \in Records}

Ring == INSTANCE TraceRing WITH Requests <- {BlockReq}, FLG <- RKH_FLG

NoVerdict == [status |-> "NONE", line |-> 0]

Init ==
  /\ build \in Builds
  /\ Ring!Init
  /\ pc = "idle" /\ current = None /\ todo = <<>>
  /\ greeted = FALSE /\ told = NoVerdict /\ sessions = 1
  /\ state = "COLLECT" /\ answer = <<>>
  /\ toEngine = <<>> /\ toClient = <<>>
  /\ tr = <<>> /\ utrz_running = FALSE /\ utrz_last_resp = NoVerdict /\ present = TRUE
-----------------------------------------------------------------------------
(* The bytes of a record as they are put and parsed.                       *)
Whole(r) == Append(Bytes[r], RKH_FLG)

(* The engine (tzparser_exec, the handlers of the records and utrz_resp).  *)

(* The record that flag b completes; none if the checksum is wrong.        *)
Completed(b) == {r \in Records : b = RKH_FLG /\ Bytes[r] = tr}

(* Faulty variant: a frame with a wrong checksum is answered as well.      *)
AnswersChecksumError(b) ==
  IF b = RKH_FLG /\ tr # <<>> /\ Completed(b) = {} THEN <<[status |-> "FAIL", line |-> 0]>>
  ELSE IF Completed(b) = {} THEN <<>>
  ELSE <<Verdict[CHOOSE r \in Completed(b) : TRUE]>>

(* The answer to it.  Before UT_INIT nothing is answered.                  *)
Answers(b) ==
  IF \E r \in Completed(b) : utrz_running \/ r = UT_INIT
  THEN <<Verdict[CHOOSE r \in Completed(b) : TRUE]>>
  ELSE <<>>

tzparser_exec(b) ==
  /\ tr' = IF b = RKH_FLG THEN <<>> ELSE Append(tr, b)
  /\ utrz_running' = (utrz_running \/ UT_INIT \in Completed(b))
  /\ utrz_last_resp' = IF Answers(b) = <<>> THEN utrz_last_resp ELSE Head(Answers(b))

(* utrz_resp() makes a record of the answer.                               *)
AnswerRecord(resp) ==
  Closed(<<IF resp.status = "FAIL" THEN RKH_TE_UT_FAIL ELSE RKH_TE_UT_SUCCESS, resp.line, 0>>)

(* What it sends: utrz_init() opens a new stream first.                    *)
Sent(b) ==
  IF Answers(b) = <<>> THEN <<>>
  ELSE (IF UT_INIT \in Completed(b) THEN <<RKH_FLG>> ELSE <<>>)
       \o Encode(AnswerRecord(Head(Answers(b))))

(* The client being served is the one that has not hung up yet: what is    *)
(* sent to an earlier one is lost.                                         *)
ServesTheTest(rest) == EOF \notin ToSet(rest)

(* tcpRead() and the program's main loop: a byte is parsed; at the end of  *)
(* a client the next one is accepted, and the parser stays as it is.       *)
EngineReads ==
  /\ present /\ toEngine # <<>>
  /\ toEngine' = Tail(toEngine)
  /\ LET b == Head(toEngine)
     IN  IF b = EOF
         THEN UNCHANGED <<toClient, tr, utrz_running, utrz_last_resp>>
         ELSE /\ tzparser_exec(b)
              /\ toClient' = IF ServesTheTest(toEngine') THEN toClient \o Sent(b)
                                                         ELSE toClient
  /\ UNCHANGED <<build, stream, test, present>>

(* Somebody presses ESC; what is sent to Trazer from then on is lost, and  *)
(* what was not read of its answers may be lost with the connection.       *)
EngineEnds ==
  /\ build = "socket" /\ present
  /\ present' = FALSE /\ toEngine' = <<>> /\ tr' = <<>>
  /\ \E n \in 0 .. Len(toClient) : toClient' = SubSeq(toClient, 1, n)
  /\ UNCHANGED <<build, stream, test, utrz_running, utrz_last_resp>>
-----------------------------------------------------------------------------
(* The test's thread.                                                      *)

(* unitrazer_start() resets out, and with the library the engine, before   *)
(* the record.                                                             *)
Begin(r) ==
  /\ pc = "idle"
  /\ pc' = "putting" /\ current' = r /\ todo' = Whole(r)
  /\ told' = IF r = UT_INIT THEN NoVerdict ELSE told
  /\ utrz_running' = (utrz_running /\ ~(build = "library" /\ r = UT_INIT))
  /\ UNCHANGED <<build, stream, parser, sessions, wires, tr, utrz_last_resp, present>>

(* Faulty variant: the configuration is sent before UT_INIT.               *)
BeginUngreeted(r) == Begin(r) /\ greeted' = (greeted \/ r = UT_INIT)

(* RKH_TRC_BEGIN; rkh_trc_open() of every build sends UT_INIT first.       *)
BeginRecord(r) == (greeted \/ r = UT_INIT) /\ Begin(r) /\ greeted' = TRUE

(* A byte of the record; the flag ends it and the hook is called.          *)
PutByte ==
  /\ pc = "putting"
  /\ Ring!rkh_trc_put(Head(todo))
  /\ todo' = Tail(todo)
  /\ pc' = IF todo' = <<>> THEN "flushing" ELSE pc
  /\ UNCHANGED <<build, current, greeted, told, parser, sessions, wires, engine>>

(* A block of the stream.  The socket build goes on until there is no more *)
(* (the library build breaks out of the loop after the first one).         *)
FlushBlock ==
  /\ pc = "flushing"
  /\ Ring!rkh_trc_get_block(BlockReq)
  /\ pc' = IF build = "library" THEN "last block" ELSE pc
  /\ UNCHANGED <<build, current, todo, greeted, told, parser, sessions, wires, engine>>

SendToEngine(b) == toEngine' = IF present THEN Append(toEngine, b) ELSE toEngine

(* Its bytes are sent, or parsed on the spot.                              *)
FlushByte ==
  /\ pc \in {"flushing", "last block"}
  /\ Ring!FlushByte
  /\ IF build = "library"
     THEN tzparser_exec(trcstm[blk]) /\ UNCHANGED <<toEngine, present>>
     ELSE SendToEngine(trcstm[blk]) /\ UNCHANGED engine
  /\ UNCHANGED <<build, test, toClient>>

Flushed ==
  /\ nbytes = 0
  /\ pc = "last block" \/ (pc = "flushing" /\ trcqty = 0)
  /\ pc' = "waiting"
  /\ UNCHANGED <<build, stream, current, todo, greeted, told, parser, sessions, wires, engine>>

(* The hook returns, or gives the test up; in either case the test's code  *)
(* or its tear-down goes on.                                               *)
Conclude(out) ==
  /\ pc' = "idle" /\ told' = out
  /\ UNCHANGED <<current, todo, greeted, sessions>>

KeepWaiting == UNCHANGED <<pc, current, todo, greeted, told, sessions>>

(* parser_chk(), and what parser() knows.                                  *)
Meaningful ==
  /\ answer # <<>>
  /\ SumOf(answer) # 0 \/ answer[1] \in {RKH_TE_UT_FAIL, RKH_TE_UT_SUCCESS}

(* What it makes of it; the line of a success stays what it was.           *)
Judged ==
  IF SumOf(answer) # 0 THEN [status |-> "FAIL", line |-> 0]
  ELSE IF answer[1] = RKH_TE_UT_FAIL THEN [status |-> "FAIL", line |-> answer[2]]
  ELSE [told EXCEPT !.status = "SUCCESS"]

(* Faulty variant: an escaped byte is collected as it came.                *)
EscapingRaw(d) ==
  /\ state = "ESCAPING" /\ state' = "COLLECT"
  /\ answer' = Append(answer, d) /\ KeepWaiting

(* A flag is never escaped: a new frame starts.                            *)
Escaping(d) ==
  /\ state = "ESCAPING" /\ state' = "COLLECT"
  /\ answer' = IF d = RKH_FLG THEN <<>> ELSE Append(answer, Flip(d))
  /\ KeepWaiting

Collecting(d) ==
  /\ state = "COLLECT"
  /\ \/ d = RKH_ESC /\ state' = "ESCAPING" /\ UNCHANGED answer /\ KeepWaiting
     \/ d = RKH_FLG /\ UNCHANGED state /\ answer' = <<>>
          /\ IF Meaningful THEN Conclude(Judged) ELSE KeepWaiting
     \/ d \notin {RKH_ESC, RKH_FLG}
          /\ UNCHANGED state /\ answer' = Append(answer, d) /\ KeepWaiting

utrazer_parse(d) == Collecting(d) \/ Escaping(d)

(* utrz_recv() parses until there is an answer, without a timeout.         *)
Receive ==
  /\ build = "socket" /\ pc = "waiting" /\ toClient # <<>>
  /\ toClient' = Tail(toClient)
  /\ utrazer_parse(Head(toClient))
  /\ UNCHANGED <<build, stream, toEngine, engine>>

(* recv() fails once Trazer has closed the socket; out.line stays.         *)
ReceiveFails ==
  /\ pc = "waiting" /\ ~present /\ toClient = <<>>
  /\ Conclude([told EXCEPT !.status = "FAIL"])
  /\ UNCHANGED <<build, stream, parser, wires, engine>>

(* The library build asks for the last answer there is.                    *)
LookAtLastResp ==
  /\ build = "library" /\ pc = "waiting"
  /\ Conclude(IF utrz_last_resp.status = "FAIL" THEN utrz_last_resp
              ELSE [status |-> "SUCCESS", line |-> 0])
  /\ UNCHANGED <<build, stream, parser, wires, engine>>

(* The flag of a record is alone at the start of the stream's array, and   *)
(* the rest has been sent.                                                 *)
OnlyFlagLeft == pc = "flushing" /\ trcqty = 1

(* The process ends or is killed, but not inside of send().  Its socket is *)
(* closed; what it has sent is still delivered.  Only the flag that a new  *)
(* stream starts with tells the next test's records from a piece of record *)
(* that was sent: it must not happen that it completes the piece.          *)
Die ==
  /\ build = "socket" /\ pc # "dead" /\ nbytes = 0
  /\ OnlyFlagLeft => FlagCutOff
  /\ pc' = "dead" /\ todo' = <<>>
  /\ SendToEngine(EOF) /\ toClient' = <<>>
  /\ UNCHANGED <<build, stream, current, greeted, told, parser, sessions, engine>>

(* Faulty variant: the counter of the stream is not reset.                 *)
OpenKeepsQuantity ==
  /\ trcstm' = [i \in Ring!Index |-> IF i = 0 THEN RKH_FLG ELSE 0]
  /\ trcin' = 1 /\ trcout' = 0 /\ trcqty' = trcqty + 1

(* rkh_trc_init() in a new process.                                        *)
OpenStream == Ring!Fresh([i \in Ring!Index |-> 0])

(* It is started again; rkh_trc_open() makes a stream and connects, and    *)
(* utrazer_init() has the parser collect bytes at once.                    *)
Start ==
  /\ pc = "dead" /\ present /\ sessions < MaxSessions
  /\ OpenStream
  /\ pc' = "idle" /\ greeted' = FALSE /\ told' = NoVerdict /\ sessions' = sessions + 1
  /\ state' = "COLLECT" /\ answer' = <<>>
  /\ UNCHANGED <<build, blk, nbytes, lent, current, todo, wires, engine>>

Test ==
  \/ PutByte \/ FlushBlock \/ FlushByte \/ Flushed
  \/ Receive \/ ReceiveFails \/ LookAtLastResp

Next ==
  \/ EngineReads \/ EngineEnds
  \/ \E r \in Records : BeginRecord(r)
  \/ Test \/ Die \/ Start

(* Both programs run as long as they have something to do, and the socket  *)
(* delivers; nobody has to record, to kill, to start or to press ESC.      *)
Spec == Init /\ [][Next]_vars /\ WF_vars(Test) /\ WF_vars(EngineReads)
-----------------------------------------------------------------------------
Verdicts == [status : {"NONE", "SUCCESS", "FAIL"}, line : Octet]

TypeOK ==
  /\ build \in Builds /\ Ring!TypeOK
  /\ pc \in {"idle", "putting", "flushing", "last block", "waiting", "dead"}
  /\ current \in Records \cup {None} /\ todo \in Seq(Byte)
  /\ greeted \in BOOLEAN /\ told \in Verdicts
  /\ state \in {"COLLECT", "ESCAPING"} /\ answer \in Seq(Octet)
  /\ sessions \in 1 .. MaxSessions
  /\ toEngine \in Seq(Byte \cup {EOF}) /\ toClient \in Seq(Octet)
  /\ tr \in Seq(Byte) /\ utrz_running \in BOOLEAN
  /\ utrz_last_resp \in Verdicts /\ present \in BOOLEAN

Busy == pc \in {"putting", "flushing", "last block", "waiting"}

(* A line is looked at only with a failure.                                *)
Reported == IF told.status = "FAIL" THEN told ELSE [told EXCEPT !.line = 0]

(* Over a socket, every verdict the test goes on with is the one on the    *)
(* record it has just made, though answers carry nothing that says what    *)
(* they answer: none may be late, lost or double, also after either side   *)
(* was ended, and a failure comes with the line it was found in.           *)
Judge == INSTANCE UtrzJudge WITH
  asked <- IF build = "socket" /\ Busy THEN current ELSE None,
  told  <- IF build = "socket" THEN Reported ELSE NoVerdict

ImplementsJudge == Judge!Spec

(* What the hook leaves behind of a record.  Over a socket it is nothing,  *)
(* neither in the stream, nor on the way, nor in either parser.  The       *)
(* library has parsed all of it, or it crosses the end of the stream's     *)
(* array and the rest is still to come: never the rest of two records.     *)
NothingLeft ==
  pc = "idle" /\ greeted =>
    IF build = "socket"
    THEN /\ trcqty = 0 /\ toClient = <<>>
         /\ present => toEngine = <<>> /\ tr = <<>> /\ answer = <<>> /\ state = "COLLECT"
    ELSE tr \o Ring!history \in {<<>>, Whole(current)}

(* The conditions of the theorems (UtrzSession_proofs).  A record fits     *)
(* into the stream together with the one before it and the flag of a new   *)
(* stream.                                                                 *)
RecordsFit == \A r, s \in Records : Len(Bytes[r]) + Len(Bytes[s]) + 2 <= N

(* No record is the beginning of another one, so that a piece of a record  *)
(* has a wrong checksum.                                                   *)
NoneBeginsAnother ==
  \A r, s \in Records :
    /\ Len(Bytes[r]) <= Len(Bytes[s])
    /\ \A i \in 1 .. Len(Bytes[r]) : Bytes[r][i] = Bytes[s][i]
    => r = s

(* The test never waits for good, though a single record without an answer *)
(* would block it.                                                         *)
AlwaysAnswered == Busy ~> ~Busy

(* "Makes sure there are no unused expectations, if there are, this        *)
(* function causes the test to fail."                                      *)
UnusedReported ==
  [][pc = "waiting" /\ pc' = "idle" /\ current = UnmetVerify => told'.status = "FAIL"]_vars
=============================================================================
