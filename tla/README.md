# Trazer in TLA+

Trazer shows, on a host, the binary stream of trace records that a program
built on the RKH framework sends while it runs, and, as UnitTrazer, judges unit
tests by these records. This directory holds TLA+ modules of its core, the
configurations with which TLC checks them, and proofs for TLAPS.

    tlc -config MCTraceRing.cfg MCTraceRing
    tlapm TraceRing_proofs.tla

## The system

| Part | Source | State | Operations |
|---|---|---|---|
| Trace ring | `source/rkhtrc.cpp`, flush loops in `prj/shared/bsp.c`, `prj/ahsm/bsp.c`, `arch/linux_gnu/utrzhal.cpp` | `trcstm`, `trcin`, `trcout`, `trcqty`; the flush loop's `blk`, `nbytes` | `rkh_trc_init`, `rkh_trc_put`, `rkh_trc_get`, `rkh_trc_get_block`, `rkh_trc_flush` |
| Runtime filters | `source/rkhtrc.cpp`, `source/include/rkh/trkhtrc.h` | `trcgfilter`, `trceftbl`, tables of `fsma`, `fsig` | `rkh_trc_filter_group_`, `rkh_trc_filter_event_`, `rkh_trc_simfil`, the tests of `RKH_TRC_BEGIN` |
| Record encoder | same | `nseq`, `chk` | `rkh_trc_begin`, `rkh_trc_u8` ..., `rkh_trc_end` |
| Frame parser, sequence check | `source/tzparse.cpp`, `source/evtbl.cpp` | `state`, `tr`, `ptr`, `trix`, `lastnseq` | `tzparser_exec`, `parser`, `verify_nseq`, `proc_tcfg_evt` |
| Response times | `source/rtimtbl.cpp`, `h_sma_get`, `h_sma_ffll` | `rt_tbl`, `rtime_enable` | `post_fifo_symevt`, `remove_symevt_tstamp`, `clear_rt_tbl`, `disable_rtime` |
| UnitTrazer engine | `source/unittrz.cpp`, `source/evexptbl.cpp` | list of expectations, what is ignored, last answer | `utrz_init`, `utrz_clean`, `utrz_verify`, `utrz_add_expect`, `utrz_ignore_...`, `utrz_chk_expect` |
| UnitTrazer client | `prj/tests/utils/unitrazer`, `bsp.c` of `prj/tests/sm_tcp`, `utrazer` and `sm` | the answer waited for | one command or record, one answer |
| Symbol tables | `source/symbtbl.cpp`, `sigtbl.cpp`, `uevtbl.cpp` | `symb_tbl`, `epid_tbl`, `sig_tbl`, `uevt_tbl` | `add_to_...`, `map_...`, `clear_symtbl` |
| Timers, sequence diagrams | `source/include/timer.h`, `seqdiag.cpp` | `tmr_tbl` | `tmrtbl_init`, `tmrtbl_start`, `tmrtbl_find`, a line per event |
| Configuration | `source/config.cpp`, `rkhcfg.h` of the programs, `RKH_TR_FWK_TCFG`, `h_tcfg` | `CONFIG_T`: sizes and options | `read_config_file`, `proc_tcfg_evt` |
| Record handlers | `source/tzparse.cpp`, `source/evtbl.cpp`; the macros `RKH_TR_...` of `trkhtrc.h` | labels of arguments | one macro and one handler per event |
| Stream inputs | `source/trazer.cpp`, `arch/linux_gnu/tcp.cpp`, `serial.cpp` | sockets, thread | bytes to `tzparser_exec` |
| Options, log, messages | `source/options.cpp`, `tzlog.cpp`, `messages.cpp` | | text |

The instrumented program records in critical sections, from tasks and from
interrupts. `rkh_trc_begin` ... `rkh_trc_end` encode a record and put its bytes
into the ring, which gives up its oldest bytes when it is full. The flush loop,
called when the program is idle, takes blocks of bytes from the ring and sends
them over a link, which delivers bytes in order. In Trazer `tzparser_exec` puts
the frames together, checks the sum of their bytes, looks at the sequence number
and calls the event's handler, which prints the record, keeps the tables, and, in
UnitTrazer, compares it with what the test expects.

What is hard here: the flush loop reads its block outside the critical section;
the ring loses bytes in the middle of records, so that Trazer sees pieces; what
was lost is only known from a number of one byte; Trazer rebuilds the event
queues of the target from records that do not all arrive; the target starts again
while Trazer goes on, perhaps as another program; a record does not say how wide
its fields are, so that both sides have to agree on the options the target was
built with; names are looked up in vectors that grow while their entries are in
use; a test is judged by a list that shrinks with every record,
right or wrong; answers do not say what they answer, and a client waits for them
without a timeout. `PROJECT.json` lists these hazards at their lines.

What makes each part correct:

* ring: it holds the most recent bytes in order; the pointers agree with the
  counter; a block is what was handed out for as long as that can be promised;
  the loop ends.
* filters: a call changes what it is about and nothing else.
* encoder and parser: the framing is transparent; after a loss the parser
  understands the next record; gaps are reported where they are.
* response times: a time that is shown is that of the event it is shown with.
* configuration and handlers: every record is decoded with the configuration of
  the program that made it, and shown as it was written.
* symbol tables: an object is shown under the name that was told for it.
* timers: a timeout is drawn to the state machine the timer was started for.
* UnitTrazer: success throughout means that the events followed the script,
  and events that follow it are not reported.
* UnitTrazer client: the verdict it goes on with is the one on its last record,
  and there always is one.

## Modules

`RecentHistory` is what the ring promises: a bounded first-in first-out queue
that loses its oldest byte, and a reader that borrows a piece of its front.
`TraceRing` is the code, with one action per function and one, `FlushByte`, per
byte the flush loop reads; `rkh_trc_put` may come between any two of them. The
pointers are indices; the history variable `lent` keeps the bytes of a block as
they were when it was handed out. Under the refinement mapping `history` is read
off the ring from `trcout` on. `nget` takes the values of the constant
`Requests`. `TraceRing_proofs` has its theorems.

`TraceEvents` has the event identifiers, `TraceCodec` the framing. `TraceLink`
composes them with `TraceRing` (an INSTANCE, whose variables it shares) and the
parser: `Record` enters the critical section and fixes the bytes of a record,
`Put` puts one, `TakeBlock` and `Deliver` are the flush loop, and `Deliver` hands
the byte that then lies in the block to `tzparser_exec`. `Waiting`, `Collecting`
and `Escaping` are the states of the parser. The link itself loses nothing.
`Restart` is `rkh_trc_init` in a target that starts again, at any point of a
record or of a block; what the parser holds of a cut frame stays, and so does
`lastnseq`. The history variables `sent`, `starts`, `accepted`, `gaps` and
`errors` are what the properties compare; `maker`, `parts` and `origins` tell of every
byte in the ring which record it is of, and so of every frame accepted which records
it has bytes of. They are read by no action, only to say what `GapsReported` means by
the record a frame was taken for (`Taken`). Timestamp and arguments of a record are one
sequence of bytes. A byte of `tr` that was never written is 0, as it is in a static
array.

`TraceConfig` is what two programs must agree on. A build is a record of sizes and
enabled options, with the values the two `rkhcfg.h` of the examples declare valid
(`Documented`) and the two examples themselves (`ahsm`, `shared`); it also has
`CONFIG_T` with its defaults, the processing of `trazer.cfg` up to its first
error, and the configuration record from the target's macro to `h_tcfg`, packed
into half bytes. `RecordWriter` has the layout of every record: one operator per
macro of `trkhtrc.h`, a sequence of labelled widths that depends on the build.
`RecordReader` has the handlers and the tables of labels, the same way, depending
on `CONFIG_T`; user records, whose items carry their own formats, are read as
`usr_fmt` does, with its signed count. `TraceRecords` composes the three: builds
are started one after the other, send their configuration record and then any
others, records are lost, and Trazer decodes each with what it knows at the time.
`heard` is the run whose configuration it took over last. `Misread` and
`UserMisread` list the records that the handlers get wrong in a given build;
`RightlyShown` is an equivalence, so that the lists are exact.

`SymbolTables` has the four tables as sequences, as they are vectors in the code:
`Add` replaces the first entry with the same address *or* the same name. A record
with several names is one action that does all its look-ups, first those of the
text, then those of the sequence diagram. Where the code passes several look-ups
as arguments of one call, every order of evaluation is possible, and a name
looked up before an entry was added is `Dangling`, if the vector moved. `told` is
what records have told of what a table may still have, `anew` what they have told
since the target started, and `timer` what they have said of timers.

`RespTime` looks at the same way at the level of records, with the event queues
of the target and of Trazer. The kernel that owns the former is not in the
repository; the model takes from the macros of `trkhtrc.h` that a post is
recorded in its own critical section and a get in a later one. An event's `uid`
stands for the timestamp of its post. `boot`, `serial`, `last` and `unnoticed`
are history variables.

`UnitTrz` is the engine that judges tests, one action per command and
`utrz_chk_expect` for a record of the code under test. `script` and `seen` record
the whole test. The first argument of the events, the active object, is never
compared and is left out.

`EventFilter` says, from the texts of `trkhtrc.h`, what the filters are at the start
(nothing is filtered) and what switching them on and off means in terms of sets;
`TraceFilter` has the packed tables, with the layout (offset and bytes of each
group) as constants whose assumption states what any layout must satisfy.
`RKH_TRC_ALL_EVENTS` has the value of `RKH_TE_NEVENT`, as in the code.

`UtrzJudge` is what a unit test relies on: it tells the judge a record and goes on
with the verdict on this record. `UtrzSession` is how that is done, over a stream
that is an INSTANCE of `TraceRing`. `BeginRecord` and `PutByte` make a record; the
flag calls the hook, `FlushBlock`, `FlushByte` and `Flushed`, which then takes an
answer: `Receive` or `ReceiveFails` over a socket, `LookAtLastResp` when the engine
is a library. Answers are frames as well (`AnswerRecord`, `Sent`); `Receive` takes a
byte of one through the test's own parser (`utrazer_parse`), whose variables are
`state` and `answer`. Trazer is `EngineReads`, a byte at a time; `toEngine` holds the bytes
of successive connections with `EOF` between them, because Trazer accepts a client
only when it has seen the end of the one before, while its parser and
`utrz_running` stay as they are. `Die`, `Start` and `EngineEnds` are what people do
to the processes. Under the mapping `asked` is the record the hook has not
returned for; behaviours of the library build, for which the promise does not
hold, map to stuttering. A frame that is not exactly a record stands for one with
a wrong checksum, and the verdict on a record is a constant of it, whose
computation is the subject of `UnitTrz`.

`MC...` modules give the constants their values. Definitions under "Faulty
variant" are plausible errors; none takes part in a specification. They are there
to show that the properties notice them.

## Runs

| Run | Shows | Bounds |
|---|---|---|
| `MCTraceRing.cfg` | `ImplementsRecentHistory`, `RingShape`, `BlockInArray`, `LentIntact`, `Drains` | ring of 4 cells, 3 byte values, requests of 3 and 8 bytes: smaller and larger than the ring; the state space is finite without further bounds |
| `TraceRingSmallStream.cfg` | `Drains` fails when the request is 0 | same |
| `MCTraceLink.cfg` | `Transparent`, `LatestUnderstood`, `GapsReported` | 3 records of 4 kinds, starts of the target at any time, ring of 9 bytes: one record fits, two long ones overrun it and wrap; bytes that need escaping, an unknown event, the configuration record |
| `MCRespTime.cfg` | `RightTime`, `AllTimed` | 2 active objects (symmetric), 2 signals, 5 numbered records, 2 starts, a stream of 2 records, 3 sequence numbers so that losses as large as their range occur |
| `RespTimeLifo.cfg` | `RightTimeAnyWay` fails | same, posts by LIFO as well |
| `MCUnitTrz.cfg` | `ListIsRest`, `NothingMissed`, `NoFalseAlarm`, `VerifiedMeansMet` | tests of at most 2 expectations and 2 events; an event with two arguments, one with an action type and two more, one of an ignored group; arguments are ignored that no other follows |
| `UnitTrzIgnoreArg.cfg` | `NothingMissed` fails | the first of two arguments is ignored |
| `MCTraceFilter.cfg` | `SwitchesLikeEventFilter`: the calls, from whatever state | the layout of `trkhtrc.h`, 14 events at the edges of groups and bytes, calls about two groups, two events, one active object and one signal, and about all groups, all events (`RKH_TRC_ALL_EVENTS`), all active objects and all signals |
| `MCUtrzSession.cfg` | `NothingLeft`, `ImplementsJudge`, `AlwaysAnswered` | both builds; 3 records of two and three bytes with their flags over a stream of 6, so that records cross its end after every byte; the line of a failure is a byte that has to be escaped; the test is started 3 times |
| `MCTraceRecords.cfg` | `KnowsTheBuild`, `RightlyShown`, `HeardFirst` | 15 builds: one with everything enabled and sizes that differ where handlers tell them apart, those that differ from it in one size or option, the two examples; 4 configuration files, 6 user records with every format and with 127 and 128 bytes after an item, 2 starts, 1 record in flight besides the configuration records |
| `MCSymbolTables.cfg` | `Named`, `NoStrangeNames`, `OnlyFirstSightGarbled`, `DiagramWhole`, `TimeoutRight` | 2 objects, one of them a timer, 1 signal, 1 pool, 1 user event, 2 names (symmetric), together 2 names told and timers initialised; restarts and look-ups without bound; with one signal no timer changes its signal, for which see below |
| `UtrzSessionLibrary.cfg` | `UnusedReported` fails | the library build alone |

Deadlock is not checked in `MCTraceLink.cfg` and `MCRespTime.cfg`, whose runs end
when their number of records is used up, in `MCTraceRecords.cfg`, where Trazer may
have refused its configuration file, and in `MCUtrzSession.cfg`, where both
processes may have ended.

`UtrzSession` assumes weak fairness of what the test's thread does once it has begun
a record and of Trazer's main loop, for `AlwaysAnswered`: both are loops without a
condition other than input. Nobody has to record, kill, start or end anything.

In `TraceRing` fairness is assumed for `Drains`: the idle hook calls
`rkh_trc_flush` again and again and its loop goes on while the ring holds bytes,
hence weak fairness of taking a block and of reading its bytes. Nobody is obliged
to record. `Drains` therefore speaks of behaviours in which recording stops.

### What the failing runs show

* A stream of less than 255 bytes makes `TRCQTY_T` a byte, and the flush loops ask
  for `(TRCQTY_T)1024`, that is 0 bytes. `rkh_trc_get_block` answers with a pointer
  and no bytes, and the loop never ends.
* `h_sma_lf` treats a post by LIFO as one by FIFO; `post_lifo_symevt` has no caller.
  The test `normalLifo` has one event in the queue and cannot tell.
* The checks of `evexptbl.cpp` do not step over the value of an ignored argument,
  so that a wrong last argument is not noticed, or a right one is reported.
* The hook of `prj/tests/sm` parses the first block of the stream only. A record
  that crosses the end of the array is judged with the next record, and what the
  hook looks at is the answer to an earlier one: a test with unused expectations
  passes when it is the verify record that crosses.

`MCUtrzSession.cfg` excludes, by `FlagCutOff = FALSE`, that a test is killed
between the two `send()` calls of a record that crosses the end right before its
flag. With `TRUE` TLC finds `NothingLeft` and `ImplementsJudge` violated: the flag
with which the next test's stream begins completes the record, Trazer answers it
to the next test, and all verdicts of that test are late by one.

`SymbolTablesTwoSignals.cfg` has two signals, between which names move, old ones
stand in the way of new ones and timers change, with the other bounds of
`MCSymbolTables.cfg`. It passes in about five minutes with four workers (175000
states), which is why it is not one of the runs above:

    tlc -workers 4 -config SymbolTablesTwoSignals.cfg MCSymbolTables

Three more configurations fail, as `TraceRecords`, `SymbolTables` and `TraceFilter` say
of their properties, and are kept to show it:

    tlc -config TraceRecordsShared.cfg MCTraceRecords
    tlc -config SymbolTablesUserEvents.cfg MCSymbolTables
    tlc -config TraceFilterInitial.cfg MCTraceFilter

* `AcceptedConfiguration`: Trazer has accepted the configuration of the example
  `prj/shared`, and still shows some of its records under wrong labels. It is
  built without low watermarks, and `h_sma_get`, `h_sma_ffll`, `h_ae` and `h_gcr`
  (`tzparse.cpp:567`, `623`, `772`) leave their values out without skipping their
  labels.
* `UserEventsApart`: the name of a user event is looked up by its number modulo 8
  (`tzparse.cpp:1400`) but entered under the whole number, while groups of user
  events have 32 numbers.
* `ImplementsEventFilter`: `trkhtrc.h:3755` and `3798` say that the stream is created
  "without filtering any event type", and the comments at `rkhtrc.cpp:76` and `114`
  that a clear bit records. The tables are zero, `rkh_trc_init` does not touch them
  and a clear bit suppresses, so that at first nothing is recorded. What the calls do
  from there on is as the texts say (`SwitchesLikeEventFilter`).

### Other places where text and code differ

Framing and stream:

* After an overrun the rest of a record can pass the checksum, most easily that of
  the event with number 0, whose bytes are small; `GapsReported` therefore says
  `Genuine`: every frame accepted has bytes of a record that it is equal to.
  `trkhtrc.h:90` promises that dropouts are detected.
* A sequence number is a byte: a gap of 256 numbered records, or a multiple, is not
  noticed, and `GapsReported` counts modulo 256.
* `trix` is an `unsigned char`: a record of 256 bytes counts as empty, although
  `trkhtrc.h:123` allows any length. The guard against a full buffer is never true.
* The first record after a start is reported as a gap unless the last one before it
  happened to have number 255: `lastnseq` is not reset by the configuration record.
* `trkhtrc.h` says that a block shorter than asked for means the end of the stream,
  but it may be the end of the array.

Configuration and handlers (`Misread`, `UserMisread`, `ProcessLine`, `Packed`):

* Both `rkhcfg.h` define `RKH_CFG_TRC_SMA_DCH_EN`; `trkhtrc.h:2103` asks for
  `RKH_CFG_TRC_SM_DCH_EN`, so that dispatches are not recorded.
* `RKH_CFG_FWK_MAX_EVT_POOL` may be up to 256 (`rkhcfg.h:74`) but is or-ed into four
  bits, above which it spoils the block size beside it.
* Four options that `config[]` accepts (`config.cpp:57`) have no case in
  `process_config` and end Trazer.
* A target without checksums cannot tell: its configuration record has none either,
  and Trazer expects one until it has read that record.
* A build without the records of the framework sends no configuration record.
* Handlers read the block size of a pool with the width of the number of blocks,
  `RKH_TE_FWK_EPREG` with `sizeof(long)`, function pointers with the width of data
  pointers, and some counters with the width of others.
* `usr_fmt` skips a timestamp that may not be there, counts in a signed byte, and
  takes the checksum of an empty user record for a format.
* `assemble` shifts an `int`, which is undefined for pointers of 8 bytes; pointers
  of the modelled builds have 2 or 4.

Names:

* In a record with several objects the first sight of one of them garbles the
  others' names (`OnlyFirstSightGarbled`), except where the code copies them.
* Names of signals, user events and timers survive a start of the target, names of
  objects and pools do not: another program's signal is shown under the old name
  until its own is told (`Named` says that it is shown from then on).

Filters: `RKH_TE_NEVENT`, and with it `RKH_TRC_ALL_EVENTS`, is the number of
`RKH_TE_UT_SUCCESS`, which cannot be switched alone. What the tables are at the
start is shown by `TraceFilterInitial.cfg`.

## Proofs

| Module | Theorem | Assumes |
|---|---|---|
| `TraceRing_proofs` | `TypeCorrect`, `RingConsistent`, `BlockStaysInArray`, `BlockIntactUntilLapped`, `Refinement` | `RingAssumption` |
| `TraceFilter_proofs` | `TypeCorrect`, `Refinement` | `FilterAssumption`, `LayoutAssumption` |
| `TraceLink_proofs` | `TypeCorrect`, `GapsAreReported`; `Transparency` if `ShortRecords`; `Resynchronization` if `ShortRecords` and `FitsTheStream` | `LinkAssumption` |
| `RespTime_proofs` | `TypeCorrect`; `TimesAreRight` and `AllAreTimed` if `Ways = {"FIFO"}` | the module's |
| `UnitTrz_proofs` | `TypeCorrect`, `ListCorrect`; `MissesNothing`, `RaisesNoFalseAlarm`, `VerifiedIsMet` if `TailIgnored` | the module's |
| `TraceRecords_proofs` | `TypeCorrect`, `BuildKnown`, `ConfiguredFirst`; `RecordsShown` if `ShortUsers` | `BuildsAssumption` (builds are as `rkhcfg.h` documents them), `FilesAssumption`, `UsersAssumption`, `BoundsAssumption` |
| `SymbolTables_proofs` | `TypeCorrect`, `NamesFound`, `NamesOwn`, `GarbledAtFirstSight`, `DiagramNamed`, `TimeoutsRight` | `TablesAssumption` |
| `UtrzSession_proofs` | `TypeCorrect`; `Refinement` if `RecordsFit`, `NoneBeginsAnother` and `~FlagCutOff`; `NothingLeftBehind` if `BlockReq >= N` as well; `UnusedAreReported` if `Builds = {"socket"}` as well as for `Refinement` | `UtrzSessionAssumption` |

Each theorem is about the whole specification and every value of the constants: any
ring, any layout of the filters, any number of objects, records, starts,
expectations or builds. The hypotheses of some are conditions without which the
property does not hold of the code:

* `Ways = {"FIFO"}` and `TailIgnored`: TLC finds the counterexamples in
  `RespTimeLifo.cfg` and `UnitTrzIgnoreArg.cfg`;
* `ShortRecords`: no record has more than 255 bytes, which is what `trix` counts;
* `FitsTheStream`: any record, escaped, and the flag before it fit into the ring.
  In `MCTraceLink.cfg`, whose ring has 9 cells, they do for the records it makes,
  whose sequence numbers stay small; a number that is a flag or an escape takes
  one cell more;
* `ShortUsers`: no user record has more than 255 bytes after its header, because the
  parser keeps the count of what is left of a frame in an `unsigned char`
  (`tzparse.cpp:1355`) and cuts longer records. The records of
  `MCTraceRecords.cfg` satisfy it, and those whose count goes wrong in `usr_fmt` for
  its sign (`UserMisread`) are among them;
* `RecordsFit`: a record fits into the stream together with the one before it and a
  flag. The streams of `prj/tests` have 512 bytes (`rkhcfg.h`), a record of a test a
  few dozen;
* `NoneBeginsAnother`: no record is the beginning of another one. If one were, what a
  killed test leaves of a record, ended by the flag of the next test's stream, could be
  a frame that Trazer accepts and answers. In the code only the checksum stands against it:
  a piece of a record does not sum to zero but by chance;
* `~FlagCutOff`: the counterexample with `TRUE` is described above;
* `BlockReq >= N`: the hook of the library build asks for 1024 bytes
  (`prj/tests/sm/platform/80x86/vc/bsp.c:254`) of a stream of 512;
* `Builds = {"socket"}`: TLC finds the counterexample of the library build in
  `UtrzSessionLibrary.cfg`.

`MCUtrzSession` assumes the four before it of its constants, so that TLC checks that its
runs are instances of the theorems.

**The ring.** The inductive invariant `IInv` is the conjunction of the type
invariant, the three safety invariants and `LentBeforeOut`. They need each other:
that a put spares the bytes of which `LentIntact` still speaks follows from where
`trcin` is (`RingShape`) and from the block lying right before the oldest byte held
until the ring is full of newer ones (`LentBeforeOut`). There is one lemma per
action, for the invariant and again for the refinement. In the latter a put is
split into the case of a full ring, where the abstract queue drops its head, and
the other; a block is a prefix of the history because it ends at the end of the
array at the latest.

**Filters.** `Refinement` is about the steps only, from any state the tables may be
in, because the initial states differ. That a call changes what it is about and
nothing else comes down to distinct events having distinct bits. `EventsApart` gets it from the layout
assumption (the bytes of different groups do not overlap), and one lemma per kind of call
maps it to its abstract action.

**Encoder, stream and parser.** `TInv` has the types and the invariant of the ring.
`SInv` adds `SentOK`, that every record sent sums to zero and is not longer than can be
counted, and `Intact`, that a block which was not overwritten has the bytes it was handed
out with. From here the two theorems part. For `Transparency`, `Lossless` relates, byte by byte, what
the parser has taken in to the records put (`Leads`): it has accepted the first of them
and holds a prefix of the next, an escape included. For `Resynchronization`,
whatever the parser may hold, `Latest` says where the last record of the run lies in
what is still to be parsed, and `Boundary` that the byte before it is a flag, which
ends what came before; that the flag is not overwritten is where `FitsTheStream`
is needed. That a record is decoded from its encoding is an induction over its
bytes, as is that the complement makes the sum zero.

`GapsAreReported` needs neither of their hypotheses. It rests on three invariants.
`Ordered`: whatever is overwritten and wherever a start cuts a record, the bytes
that wait in the block and the ring (`Queue`) are in the order of the records
(`Sorted`), each of which ends with the only flag it has, and the bytes of a frame come
before those; hence the records one frame has bytes of come before those the next one
has bytes of (`FramesInOrder`). The flag a stream opens with is counted to the record
made last, which may have ended before, but it then ends no frame (`FramesBefore`).
So two frames that are taken for records are taken for different ones, and in the
order of these.
`NInv`: the number of every record is how many numbered ones its run made before
it, modulo 256, and `nseq` is the next (`SerialOK`, `NextSerial`). `NumbersOK`: as
long as no frame was so short that the parser read the number of an earlier one,
`lastnseq` is the number of the frame verified last, and a gap was reported at those
whose number is not one more. A gap is then a difference between counted numbers.

**Response times.** The records in the stream that Trazer has not seen are those
by which its table and the target's queue differ. `Agree` says: Trazer's events
of an object, the posts in flight among the target's, and the gets in flight fit
together in the order of posting. It holds as long as the records follow each
other without a gap that escapes the sequence check (`Followed`), which `Numbered`
ties to the positions of the records; when a number is missed, the table is
disabled. `RightTime` follows for the head of the queue. For `AllAreTimed`
the invariant `Lossless` adds that in the target's first run, as long as nothing is
lost, the next record always has the number that is expected.

**UnitTrazer.** `Rest` says that the list is the end of the script that begins
after as many expectations as records were judged; `Judged` that while every
answer was success each record agrees with its expectation, and the converse.
`TailIgnored` is needed in one place only, where the walk over the arguments must
compare each with its own value.

**Records.** `HeardFirst` is not inductive, because it speaks of the record shown
only. `InTurn` extends it to the records in flight: as long as nothing is lost
they arrive in the order of the runs, and each run's after its configuration
record. `KnowsTheBuild` is about one step, but needs that two documented sizes
packed into a byte come apart again, for every pair of sizes (`Halves`).
For `RightlyShown`, `Recorded` says that what is in flight is a record of its
build. `AllRight` then goes through the tables of records, group by group: with the
configuration the build has told, the handler of a record yields the layout its
macro wrote unless the record is in `Misread`, and never when it is, for all widths
and options. A user record is a fold over its items on one side and `usr_fmt`, which
counts down, on the other; `RestIs` says what is left of the record at each item, and
`UserRight` that the reading stops early exactly where `UserMisread` says. What
Trazer then prints is the former with the labels of `ToldIsUnderstood`.

**Names and timers.** `TablesRight` says of each table that its names are those told
for their keys or made from them (`Sound`), and that every name told since the target
started is found as long as these names are one-to-one (`NamedIn`). Names that a
table keeps from before may be overwritten, but a name told anew never is: the entry
that `Add` takes has the same key or the same name (`AddRight`). A record
with several names is a sequence of look-ups, each of which may add an entry; one lemma says what a look-up preserves and another, by induction
over the look-ups, what all of them do, and which of the names may lie in memory that was
given back: only those found before an entry was added, which happens in a record in
which some object is new. `EntriesRight` says that every entry of a timer, although it
may have several, has the state machine it was last started for, and its signal unless
that has changed. That the first one is there to be found uses that a set of natural
numbers has a least element.

**The session.** The proof looks at everything the engine has still to be told of as
one sequence: `Coming` is what is left of the block, then the ring, then what is not
put yet. A put and a flushed byte move bytes along it, and as a record fits into the stream,
none is lost. `TInv` has the types, the ring's invariant and which
variables may differ from empty in which state of the thread; among others, what the
test's parser has of an answer is a piece of a frame of four bytes, so that the line
is there when the frame ends. For the socket, `Silent` says of the bytes on the way that reading
them leaves Trazer with a given piece of a frame and that no frame behind the end
of the last client's bytes is a record; those before it may be
anything, since their answers go nowhere. `SocketInv` follows a record through
`Opening` (the flag of a new stream is to be sent, and whatever Trazer has of a
dead test is none of a record when it comes: here `NoneBeginsAnother` is needed), `Within`,
`SentAll`, `Answered` and `Finished`, and says what a dead test and a Trazer that
has ended leave behind (`Dead`, `Deserted`). `Way` leads the answer through the test's
parser byte by byte, escapes included, to the verdict and line. Each of these states
maps to one of `UtrzJudge`, and what `UnusedAreReported` says follows from the answer
it ends with. For the library, `LibraryInv` says that what is in the
parser, the block and the ring is the record, after nothing, the stream's flag or the
whole record before (`Leads`), and that if the latter two, it begins at
the start of the array; hence one block of all the bytes there are, or up to the
end of the array, parses all that came before, and at most the rest of the record
stays (`Parsed`, `Cut`).

What is computed by recursion is written as a recursive function or with the folds
of the community modules, and lemmas about it are proved by induction over the set of
the numbers for which they hold (`NatSet` and the like, from the well-foundedness
of `<`).

Only model-checked are `Drains` and `AlwaysAnswered`: they are liveness properties, of
which this prover shows nothing that depends on fairness.

## Not modelled

The wording and layout of the output, the values of arguments, the command line and
the lexing of `trazer.cfg`, the example applications other than their trace
options and flush loops, and operating system calls. The RKH kernel, the cmock and
unity libraries and the Windows port are not part of the program. `rkh_trc_get` is
a single step, as its callers with a critical section make it; `prj/ahsm/bsp.c`
calls it without one.

## Plan

1. Done: ring, framing with restarts, sequence check, filters, UnitTrazer engine,
   response times, the session of a test with the engine down to the bytes of the
   answers, configuration and the reading of records, symbol tables and timers;
   theorems about all of them.
2. `FlushRace`: `rkh_trc_get` without a critical section (`prj/ahsm/bsp.c:296`);
   `SerialStart`: the receiving thread and its hook (`serial.cpp:166`); the
   difference of two timestamps (`tzparse.cpp:555`).
