---------------------------- MODULE RecordWriter ----------------------------
(***************************************************************************)
(* The records of a build, as the macros of source/include/rkh/trkhtrc.h   *)
(* write them.                                                             *)
(*                                                                         *)
(* The order of fields and their widths are the macros'; an argument has   *)
(* the name under which Trazer shows it.  A build has a record if its      *)
(* group, and for state machine records their own option, is enabled.      *)
(***************************************************************************)
EXTENDS TraceConfig, Functions

U8(name)  == Field(name, 1)
U16(name) == Field(name, 2)
U32(name) == Field(name, 4)
RKH_TRC_STR(name) == Field(name, ToNUL)

(* The macros choose by the size in bits; anything else is the default.    *)
Wide(name, bits) ==
  IF bits = 16 THEN U16(name) ELSE IF bits = 32 THEN U32(name) ELSE U8(name)

Address(name, bits) == IF bits = 16 THEN U16(name) ELSE U32(name)

RKH_TRC_SYM(c, name)   == Address(name, c.SIZEOF_PTR)
RKH_TRC_FUN(c, name)   == Address(name, c.SIZEOF_FUN_PTR)
RKH_TRC_SNDR(c, name)  == If(On(c, "SMA_TRC_SNDR"), RKH_TRC_SYM(c, name))
RKH_TRC_NTICK(c, name) == Wide(name, c.SIZEOF_NTIMER)
RKH_TRC_NBLK(c, name)  == Wide(name, c.SIZEOF_NBLOCK)
RKH_TRC_BSIZE(c, name) == Wide(name, c.SIZEOF_BSIZE)
RKH_TRC_NE(c, name)    == Wide(name, c.SIZEOF_NELEM)
RKH_TRC_SIG(c, name)   == Wide(name, c.SIZEOF_EVT)
RKH_TRC_ES(c, name)    == Wide(name, c.SIZEOF_EVT_SIZE)

(* The low watermarks have the size of what they count.                    *)
RKH_TRC_MP_NMIN(c) == If(On(c, "MP_GET_LWM"), RKH_TRC_NBLK(c, "nmin"))
RKH_TRC_RQ_NMIN(c) == If(On(c, "RQ_GET_LWMARK"), RKH_TRC_NE(c, "nmin"))

(* RKH_TRC_HDR after the identifier.                                       *)
RKH_TRC_TSTAMP(c) ==
  If(On(c, "TSTAMP"),
     IF c.SIZEOF_TSTAMP = 8 THEN U8("ts")
     ELSE IF c.SIZEOF_TSTAMP = 32 THEN U32("ts") ELSE U16("ts"))

RKH_TRC_HDR(c) == If(On(c, "NSEQ"), U8("nseq")) \o RKH_TRC_TSTAMP(c)
-----------------------------------------------------------------------------
(* The records of a group by their names, none if it is not compiled in.   *)
Group(c, option, records) ==
  IF On(c, "ALL") \/ On(c, option) THEN records ELSE <<>>

SYM(c, name) == RKH_TRC_SYM(c, name)
AO(c)        == RKH_TRC_SYM(c, "ao")

RKH_TR_MP(c) ==
  Group(c, "MP",
    [INIT |-> SYM(c, "mp") \o RKH_TRC_NBLK(c, "nblock") \o RKH_TRC_BSIZE(c, "bsize"),
     GET  |-> SYM(c, "mp") \o RKH_TRC_NBLK(c, "nfree") \o RKH_TRC_MP_NMIN(c),
     PUT  |-> SYM(c, "mp") \o RKH_TRC_NBLK(c, "nfree")])

RKH_TR_RQ(c) ==
  LET put == SYM(c, "q") \o RKH_TRC_NE(c, "nelem") \o RKH_TRC_RQ_NMIN(c)
  IN  Group(c, "RQ",
        [INIT |-> SYM(c, "q") \o AO(c) \o RKH_TRC_NE(c, "nelem"),
         GET  |-> SYM(c, "q") \o RKH_TRC_NE(c, "nelem"),
         FIFO |-> put, LIFO |-> put,
         FULL |-> SYM(c, "q"), DPT |-> SYM(c, "q"), GET_LAST |-> SYM(c, "q")])

(* What a get and a post say of the queue.                                 *)
Reference(c) ==
  U8("pid") \o U8("refc") \o RKH_TRC_NE(c, "nelem") \o RKH_TRC_RQ_NMIN(c)

RKH_TR_SMA(c) ==
  Group(c, "SMA",
    [ACT  |-> AO(c) \o U8("prio") \o U8("size"),
     TERM |-> AO(c) \o U8("prio"),
     GET  |-> AO(c) \o RKH_TRC_SIG(c, "sig") \o Reference(c)])

RKH_TR_SMA_posts(c) ==
  LET post == AO(c) \o RKH_TRC_SIG(c, "sig") \o RKH_TRC_SNDR(c, "snr") \o Reference(c)
  IN  Group(c, "SMA",
        [FIFO |-> post, LIFO |-> post,
         REG |-> AO(c) \o U8("prio"), UNREG |-> AO(c) \o U8("prio")])

(* Identifiers of the SMA group that are recorded with the framework's.    *)
RKH_TR_FWK_deferred(c) ==
  Group(c, "FWK",
    [DEFER |-> SYM(c, "q") \o RKH_TRC_SIG(c, "sig"),
     RCALL |-> AO(c) \o RKH_TRC_SIG(c, "sig")])
-----------------------------------------------------------------------------
(* State machine records need an option of their own as well.              *)
SmRecord(c, option, records) == IF On(c, option) THEN Group(c, "SM", records) ELSE <<>>

RKH_TR_SM_history(c) ==
     SmRecord(c, "SM_INIT", [INIT |-> AO(c) \o SYM(c, "ist")])
  ++ SmRecord(c, "SM_CLRH", [CLRH |-> AO(c) \o SYM(c, "h")])
  ++ SmRecord(c, "SM_DCH",  [DCH |-> AO(c) \o RKH_TRC_SIG(c, "sig") \o SYM(c, "st")])
  ++ SmRecord(c, "SM_TRN",  [TRN |-> AO(c) \o SYM(c, "sst") \o SYM(c, "tst")])

RKH_TR_SM_states(c) ==
     SmRecord(c, "SM_STATE",    Entry("STATE", AO(c) \o SYM(c, "nxtst")))
  ++ SmRecord(c, "SM_ENSTATE",  [ENSTATE |-> AO(c) \o SYM(c, "st")])
  ++ SmRecord(c, "SM_EXSTATE",  [EXSTATE |-> AO(c) \o SYM(c, "st")])
  ++ SmRecord(c, "SM_NENEX",    [NENEX |-> AO(c) \o U8("nen") \o U8("nex")])
  ++ SmRecord(c, "SM_NTRNACT",  [NTRNACT |-> AO(c) \o U8("nta") \o U8("nts")])
  ++ SmRecord(c, "SM_TS_STATE", [TS_STATE |-> AO(c) \o SYM(c, "st")])

RKH_TR_SM_process(c) ==
  SmRecord(c, "SM_PROCESS",
    [EVT_PROC |-> AO(c), EVT_NFOUND |-> AO(c) \o RKH_TRC_SIG(c, "sig"),
     GRD_FALSE |-> AO(c), CND_NFOUND |-> AO(c), UNKN_STATE |-> AO(c),
     EX_HLEVEL |-> AO(c), EX_TSEG |-> AO(c)])

RKH_TR_SM_actions(c) ==
  SmRecord(c, "SM_EXE_ACT",
    [EXE_ACT |-> U8("aty") \o AO(c) \o SYM(c, "st") \o RKH_TRC_FUN(c, "func")])

RKH_TR_SM(c) ==
     RKH_TR_SM_history(c) ++ RKH_TR_SM_states(c)
  ++ RKH_TR_SM_process(c) ++ RKH_TR_SM_actions(c)
-----------------------------------------------------------------------------
RKH_TR_TMR(c) ==
  LET ticks == RKH_TRC_NTICK(c, "ntick") \o RKH_TRC_NTICK(c, "per")
  IN  Group(c, "TMR",
        [INIT  |-> SYM(c, "t") \o RKH_TRC_SIG(c, "sig"),
         START |-> SYM(c, "t") \o AO(c) \o ticks,
         STOP  |-> SYM(c, "t") \o ticks,
         TOUT  |-> SYM(c, "t") \o RKH_TRC_SIG(c, "sig") \o AO(c),
         REM   |-> SYM(c, "t")])

RKH_TR_FWK_events(c) ==
  LET collected == RKH_TRC_SIG(c, "sig") \o U8("pid") \o U8("refc")
      pool == RKH_TRC_NBLK(c, "nblock") \o RKH_TRC_MP_NMIN(c) \o SYM(c, "actor")
  IN  Group(c, "FWK",
        [EN    |-> <<>>, EX |-> <<>>,
         EPREG |-> U8("ep") \o U32("ss") \o RKH_TRC_ES(c, "es") \o RKH_TRC_NBLK(c, "psize"),
         AE    |-> RKH_TRC_ES(c, "es") \o collected \o pool,
         GC    |-> collected,
         GCR   |-> collected \o pool])

(* The records that give names.  rkh_trc_obj(), rkh_trc_sig(),             *)
(* rkh_trc_ao() and rkh_trc_state() belong to the RKH framework; their     *)
(* records are described at the macros that call them.                     *)
Named(c, name) == SYM(c, name) \o RKH_TRC_STR("nm")

RKH_TR_FWK_objects(c) ==
  Group(c, "FWK",
    [OBJ |-> Named(c, "obj"), FUN |-> Named(c, "func"),
     SIG |-> RKH_TRC_SIG(c, "sig") \o RKH_TRC_STR("nm")])

RKH_TR_FWK_calls(c) ==
  Group(c, "FWK",
    [EXE_FUN  |-> RKH_TRC_FUN(c, "func"),
     SYNC_EVT |-> RKH_TRC_FUN(c, "func") \o RKH_TRC_SNDR(c, "snr") \o RKH_TRC_SNDR(c, "ao"),
     TUSR     |-> U8("usrtrc") \o RKH_TRC_STR("nm")])

RKH_TR_FWK_ASSERT(c) ==
  IF On(c, "ASSERT")
  THEN Group(c, "FWK", [ASSERT |-> RKH_TRC_STR("file") \o U16("line")]) ELSE <<>>

RKH_TR_FWK_states(c) ==
  LET state == AO(c) \o Named(c, "obj")
  IN  Group(c, "FWK", Entry("STATE", state) ++ [AO |-> Named(c, "obj"), PSTATE |-> state])

RKH_TR_FWK_pools(c) ==
  Group(c, "FWK",
    [TIMER |-> Named(c, "obj"), EPOOL |-> U8("ep") \o RKH_TRC_STR("nm"),
     QUEUE |-> Named(c, "obj"), ACTOR |-> Named(c, "obj")])
-----------------------------------------------------------------------------
(* Every record of a build, by the group of its identifier.                *)
Writes(c) ==
  [MP  |-> RKH_TR_MP(c),  RQ |-> RKH_TR_RQ(c),
   SMA |-> RKH_TR_SMA(c) ++ RKH_TR_SMA_posts(c) ++ RKH_TR_FWK_deferred(c),
   SM  |-> RKH_TR_SM(c), TIM |-> RKH_TR_TMR(c),
   FWK |-> RKH_TR_FWK_events(c) ++ RKH_TR_FWK_objects(c) ++ RKH_TR_FWK_calls(c)
             ++ RKH_TR_FWK_ASSERT(c) ++ RKH_TR_FWK_states(c) ++ RKH_TR_FWK_pools(c)]

(* The configuration record comes with the framework's.                    *)
Tells(c) == On(c, "ALL") \/ On(c, "FWK")
-----------------------------------------------------------------------------
(* The formats of a user record's items, RKH_I8_T to RKH_ESIG_T.           *)
Formats ==
  {"I8", "UI8", "I16", "UI16", "I32", "UI32", "X32", "STR", "MEM", "OBJ", "FUN", "ESIG"}

(* RKH_TUSR_...: an item of a user record is a byte for its format and the *)
(* value; what is here is the value's width, with n for what a string or a *)
(* memory block is long.                                                   *)
ItemWidth(c, item) ==
  CASE item.fmt \in {"I8", "UI8"}          -> 1
    [] item.fmt \in {"I16", "UI16"}        -> 2
    [] item.fmt \in {"I32", "UI32", "X32"} -> 4
    [] item.fmt \in {"STR", "MEM"}         -> item.n + 1
    [] item.fmt = "OBJ"  -> RKH_TRC_SYM(c, "obj")[1][2]
    [] item.fmt = "FUN"  -> RKH_TRC_FUN(c, "func")[1][2]
    [] item.fmt = "ESIG" -> RKH_TRC_SIG(c, "event")[1][2]

(* A user record as a sequence of <<format, width>>.                       *)
RKH_TUSR(c, items) == [i \in DOMAIN items |-> <<items[i].fmt, ItemWidth(c, items[i])>>]
=============================================================================
