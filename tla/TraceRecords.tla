---------------------------- MODULE TraceRecords ----------------------------
(***************************************************************************)
(* Whether Trazer shows what the target has recorded.  The target is       *)
(* started several times, each time perhaps another build of the program;  *)
(* it sends the configuration record first, if it has one                  *)
(* (RKH_TR_FWK_TCFG), then any of the records it is built with             *)
(* (RecordWriter).  Records may be lost.  Trazer begins with the           *)
(* configuration of its file and decodes every record with the             *)
(* configuration it holds at that moment (RecordReader); parser() and      *)
(* proc_tcfg_evt() of source/tzparse.cpp.                                  *)
(*                                                                         *)
(* The frames, their checksums and sequence numbers are those of           *)
(* TraceLink; here a frame that should have no valid checksum has one by   *)
(* chance or not.                                                          *)
(***************************************************************************)
EXTENDS RecordWriter, RecordReader

CONSTANTS
  Builds,   \* the programs there are
  Files,    \* the contents trazer.cfg may have
  Users,    \* items a user record may have
  MaxRuns,  \* bound on the starts of the target
  MaxHeld   \* records in flight when the target records another one

ASSUME BuildsAssumption == \A c \in Builds : Documented(c)

ASSUME FilesAssumption == \A f \in Files : f \in Seq([option : STRING, value : Int])

(* What RKH_TUSR_... can write; a user record has at least one item.   *)
ASSUME UsersAssumption ==
  \A items \in Users :
    items \in Seq([fmt : Formats, n : Nat]) /\ items # <<>>

ASSUME BoundsAssumption == MaxRuns \in Nat /\ MaxHeld \in Nat

VARIABLES
  file,     \* what trazer.cfg contains
  runs,     \* the builds that were started, one after the other
  stream,   \* the records in flight
  trazer,   \* "running", or "refused" because of its configuration file
  configs,  \* CONFIG_T
  heard,    \* the run whose configuration Trazer took over last, 0 if none
  line,     \* what Trazer has just shown of a record, NoLine if nothing
  lost      \* a record was lost (history variable)

vars == <<file, runs, stream, trazer, configs, heard, line, lost>>

NoLine == [run |-> 0, id |-> <<>>, items |-> <<>>, shown |-> <<>>]

(* What every build writes.                                                *)
Layouts == [c \in Builds |-> Writes(c)]

(* Identifiers are pairs of group and event.                               *)
Config == <<"FWK", "TCFG">>
User   == <<"USR", "USER">>

Record(id, items) == [run |-> Len(runs), id |-> id, items |-> items]

Build(record) == runs[record.run]
-----------------------------------------------------------------------------
Init ==
  /\ runs = <<>> /\ stream = <<>> /\ heard = 0 /\ line = NoLine /\ lost = FALSE
  /\ file \in Files
  /\ configs = read_config_file(file).configs
  /\ trazer = IF read_config_file(file).refused THEN "refused" ELSE "running"

(* Faulty variant: only the first start sends the configuration record.    *)
StartSilently(c) ==
  /\ Len(runs) < MaxRuns
  /\ runs' = Append(runs, c)
  /\ stream' = IF Tells(c) /\ runs = <<>>
               THEN Append(stream, [run |-> Len(runs) + 1, id |-> Config, items |-> <<>>])
               ELSE stream
  /\ line' = NoLine
  /\ UNCHANGED <<file, trazer, configs, heard, lost>>

(* The target starts: rkh_trc_open() sends the configuration record, if    *)
(* the framework's records are compiled in.                                *)
Start(c) ==
  /\ Len(runs) < MaxRuns
  /\ runs' = Append(runs, c)
  /\ stream' = IF Tells(c)
               THEN Append(stream, [run |-> Len(runs) + 1, id |-> Config, items |-> <<>>])
               ELSE stream
  /\ line' = NoLine
  /\ UNCHANGED <<file, trazer, configs, heard, lost>>

(* It records an event.                                                    *)
Send(record) ==
  /\ Len(stream) < MaxHeld
  /\ stream' = Append(stream, record)
  /\ line' = NoLine
  /\ UNCHANGED <<file, runs, trazer, configs, heard, lost>>

Trace ==
  /\ runs # <<>>
  /\ \E g \in DOMAIN Layouts[Last(runs)] : \E e \in DOMAIN Layouts[Last(runs)][g] :
       Send(Record(<<g, e>>, <<>>))

TraceUser ==
  /\ runs # <<>> /\ On(Last(runs), "USER_TRACE")
  /\ \E items \in Users : Send(Record(User, items))

(* The oldest record in flight is lost.                                    *)
Lose ==
  /\ stream # <<>>
  /\ stream' = Tail(stream) /\ lost' = TRUE /\ line' = NoLine
  /\ UNCHANGED <<file, runs, trazer, configs, heard>>
-----------------------------------------------------------------------------
(* parser_chk() passes a record without checksum if none is expected, and  *)
(* by chance.                                                              *)
Checked(record) == On(Build(record), "CHK") \/ configs.en_chk = 0

Take(record) ==
  /\ trazer = "running" /\ stream # <<>> /\ record = Head(stream)
  /\ stream' = Tail(stream)
  /\ UNCHANGED <<file, runs, trazer, lost>>

(* proc_tcfg_evt().                                                        *)
Hear(record) ==
  /\ Take(record) /\ record.id = Config
  /\ configs' = Told(Build(record))
  /\ heard' = record.run /\ line' = NoLine

(* parser(): any other record.                                             *)
Show(record) ==
  LET c == Build(record)
      g == record.id[1]
  IN  /\ Take(record) /\ record.id # Config
      /\ line' = [run |-> record.run, id |-> record.id, items |-> record.items,
                  shown |-> IF record.id = User
                            THEN usr_fmt(configs, Bytes(RKH_TRC_HDR(c)), RKH_TUSR(c, record.items),
                                         IF On(c, "CHK") THEN 1 ELSE 0)
                            ELSE Header(configs) \o Reads(configs)[g][record.id[2]]]
      /\ UNCHANGED <<configs, heard>>

Refuse(record) ==
  /\ Take(record) /\ ~Checked(record)
  /\ line' = NoLine
  /\ UNCHANGED <<configs, heard>>

Next ==
  \/ \E c \in Builds : Start(c)
  \/ Trace \/ TraceUser \/ Lose
  \/ stream # <<>> /\ Hear(Head(stream))
  \/ stream # <<>> /\ Show(Head(stream))
  \/ stream # <<>> /\ Refuse(Head(stream))

Spec == Init /\ [][Next]_vars
-----------------------------------------------------------------------------
(* What should be shown of a record: its header and arguments as they were *)
(* written, and what Trazer adds to it.                                    *)
Added(id) ==
  If(id = <<"SMA", "GET">>, Field("rt", Computed.rt))
  \o If(id \in {<<"SMA", "GET">>, <<"SMA", "FIFO">>, <<"SMA", "LIFO">>},
        Field("nseq", Computed.nseq))

Expected(c, id, items) ==
  IF id = User THEN RKH_TUSR(c, items)
  ELSE RKH_TRC_HDR(c) \o Layouts[c][id[1]][id[2]] \o Added(id)

(* The records Trazer cannot show rightly although it knows the build.     *)
Where(condition, ids) == IF condition THEN ids ELSE {}

Misread(c) ==
       Where(c.SIZEOF_BSIZE # c.SIZEOF_NBLOCK, {<<"MP", "INIT">>})
  \cup Where(c.SIZEOF_NELEM # 8, {<<"SMA", "ACT">>})
  \cup Where(SizeofLong # 4, {<<"FWK", "EPREG">>})
  \cup Where(c.SIZEOF_EVT # 8, {<<"FWK", "TUSR">>})
  \cup Where(c.SIZEOF_FUN_PTR # c.SIZEOF_PTR,
             {<<"SM", "EXE_ACT">>, <<"FWK", "EXE_FUN">>, <<"FWK", "SYNC_EVT">>})
  \cup Where(~On(c, "SMA_TRC_SNDR"), {<<"FWK", "SYNC_EVT">>})
  \cup Where(~On(c, "MP_GET_LWM"), {<<"FWK", "AE">>, <<"FWK", "GCR">>})
  \cup Where(~On(c, "RQ_GET_LWMARK"), {<<"SMA", "GET">>, <<"SMA", "FIFO">>, <<"SMA", "LIFO">>})

(* A user record is cut if timestamps are disabled, if it has function     *)
(* pointers of another size, or if more than 127 bytes follow an item.     *)
UserMisread(c, items) ==
  LET written == RKH_TUSR(c, items)
  IN  \/ ~On(c, "TSTAMP")
      \/ c.SIZEOF_FUN_PTR # c.SIZEOF_PTR /\ \E i \in DOMAIN items : items[i].fmt = "FUN"
      \/ \E i \in 1 .. Len(items) - 1 :
           Rest(written, i) + (IF On(c, "CHK") THEN 0 ELSE -1) \in 128 .. 255

Readable(c, id, items) ==
  IF id = User THEN ~UserMisread(c, items) ELSE id \notin Misread(c)
-----------------------------------------------------------------------------
TypeOK ==
  /\ file \in Files
  /\ Len(runs) <= MaxRuns /\ \A i \in DOMAIN runs : runs[i] \in Builds
  /\ Len(stream) <= MaxHeld + MaxRuns /\ \A i \in DOMAIN stream : stream[i].run \in DOMAIN runs
  /\ trazer \in {"running", "refused"}
  /\ configs \in [DOMAIN configs_dft -> Nat]
  /\ heard \in 0 .. Len(runs) /\ line.run \in 0 .. Len(runs)
  /\ lost \in BOOLEAN

(* The configuration record is understood as it was meant: with sizes in   *)
(* bytes, unless there are more pools than fit beside the block size       *)
(* (RKH_TR_FWK_TCFG, h_tcfg()).                                            *)
KnowsTheBuild ==
  heard # 0 =>
    LET c == runs[heard]
        Size(member, bits) == configs[member] = bits \div 8
        Flag(member, option) == (configs[member] = 1) <=> On(c, option)
    IN  /\ Size("sizeof_sig", c.SIZEOF_EVT) /\ Size("sizeof_tstamp", c.SIZEOF_TSTAMP)
        /\ Size("sizeof_pointer", c.SIZEOF_PTR) /\ Size("sizeof_ntimer", c.SIZEOF_NTIMER)
        /\ Size("sizeof_nblock", c.SIZEOF_NBLOCK) /\ Size("sizeof_nelem", c.SIZEOF_NELEM)
        /\ Size("sizeof_esize", c.SIZEOF_EVT_SIZE)
        /\ c.MAX_EVT_POOL < 16 =>
             Size("sizeof_bsize", c.SIZEOF_BSIZE) /\ configs.max_epool = c.MAX_EVT_POOL
        /\ Flag("en_sender", "SMA_TRC_SNDR") /\ Flag("rq_en_get_lwmark", "RQ_GET_LWMARK")
        /\ Flag("mp_en_get_lwm", "MP_GET_LWM") /\ Flag("en_nseq", "NSEQ")
        /\ Flag("en_chk", "CHK") /\ Flag("en_tstamp", "TSTAMP")

(* A record of the run that Trazer has heard of last is shown with every   *)
(* field under its label and with its width, unless it is one of those     *)
(* that the handlers are known to misread in its build - and these are     *)
(* indeed shown wrong.                                                     *)
RightlyShown ==
  line # NoLine /\ line.run = heard =>
    LET c == runs[heard]
    IN  (line.shown = Expected(c, line.id, line.items)) <=> Readable(c, line.id, line.items)

(* A record is decoded with the configuration of another run, or of the    *)
(* file, only if records were lost, if the build sends no configuration,   *)
(* or if it sends it without checksum (parser_chk() expects one until it   *)
(* is told otherwise).                                                     *)
HeardFirst ==
  line # NoLine /\ line.run # heard =>
    lost \/ ~Tells(runs[line.run]) \/ ~On(runs[line.run], "CHK")

(* "Accepted configuration transmited by the target aplication."           *)
(* (README.md): once it has, Trazer shows every record as it was made.     *)
(* The code does not.                                                      *)
AcceptedConfiguration ==
  line # NoLine /\ line.run = heard =>
    line.shown = Expected(runs[heard], line.id, line.items)
=============================================================================
