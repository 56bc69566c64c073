---------------------------- MODULE RecordReader ----------------------------
(***************************************************************************)
(* How Trazer reads the arguments of a record: the handlers of             *)
(* source/tzparse.cpp, with the tables of source/evtbl.cpp that give every *)
(* event its handler and the labels of its arguments.  d is the CONFIG_T,  *)
(* L the labels.                                                           *)
(*                                                                         *)
(* What a handler shows is a sequence of fields in the order it reads      *)
(* them: the label, and how many bytes were read for what stands under it. *)
(* The response time and the number of the post, which are computed, are   *)
(* fields of the pseudo-widths Computed.                                   *)
(***************************************************************************)
EXTENDS TraceConfig, FiniteSetsExt

CONSTANT SizeofLong   \* sizeof(long) of the machine Trazer runs on

ASSUME SizeofLongAssumption == SizeofLong \in {4, 8}

Computed == [rt |-> -1, nseq |-> -2]

sizeof_type(type) == IF type \in {1, 2, 4} THEN type ELSE 1

(* What assemble() is asked for, and the label it is shown under.          *)
Ptr(d, L, i)   == Field(L[i], d.sizeof_pointer)
Char(L, i)     == Field(L[i], 1)
Str(L, i)      == Field(L[i], ToNUL)
Trze(d, L, i)  == Field(L[i], sizeof_type(d.sizeof_sig))
Trznt(d, L, i) == Field(L[i], sizeof_type(d.sizeof_ntimer))
Trznb(d, L, i) == Field(L[i], sizeof_type(d.sizeof_nblock))
Trzne(d, L, i) == Field(L[i], sizeof_type(d.sizeof_nelem))
Trzes(d, L, i) == Field(L[i], sizeof_type(d.sizeof_esize))

(* get_nseq(), get_ts().                                                   *)
Header(d) ==
  If(d.en_nseq = 1, Field("nseq", 1)) \o If(d.en_tstamp = 1, Field("ts", d.sizeof_tstamp))
-----------------------------------------------------------------------------
h_none(d, L)   == <<>>
h_1sym(d, L)   == Ptr(d, L, 1)
h_2sym(d, L)   == Ptr(d, L, 1) \o Ptr(d, L, 2)
h_symtrn(d, L) == Ptr(d, L, 1) \o Ptr(d, L, 2) \o Ptr(d, L, 3)
h_sync(d, L)   == Ptr(d, L, 1) \o Ptr(d, L, 2) \o Ptr(d, L, 3)
h_symu8(d, L)  == Ptr(d, L, 1) \o Char(L, 2)
h_sym2u8(d, L) == Ptr(d, L, 1) \o Char(L, 2) \o Char(L, 3)
h_symevt(d, L) == Ptr(d, L, 1) \o Trze(d, L, 2)
h_sm_dch(d, L) == Ptr(d, L, 1) \o Trze(d, L, 2) \o Ptr(d, L, 3)

h_mp_init(d, L) == Ptr(d, L, 1) \o Trznb(d, L, 2) \o Trznb(d, L, 3)
h_symnblk(d, L) == Ptr(d, L, 1) \o Trznb(d, L, 2)

(* The only size of a counter that is not passed through sizeof_type().    *)
h_mp_get(d, L) ==
     Ptr(d, L, 1) \o Trznb(d, L, 2)
  \o If(d.mp_en_get_lwm = 1, Field(L[3], d.sizeof_nblock))

h_2symnused(d, L) == Ptr(d, L, 1) \o Ptr(d, L, 2) \o Trzne(d, L, 3)
h_symnused(d, L)  == Ptr(d, L, 1) \o Trzne(d, L, 2)
h_rq_ffll(d, L) ==
  Ptr(d, L, 1) \o Trzne(d, L, 2) \o If(d.rq_en_get_lwmark = 1, Trzne(d, L, 3))

h_tinit(d, L)  == Ptr(d, L, 1) \o Trze(d, L, 2)
h_tstart(d, L) == Ptr(d, L, 1) \o Ptr(d, L, 2) \o Trznt(d, L, 3) \o Trznt(d, L, 4)
h_tstop(d, L)  == Ptr(d, L, 1) \o Trznt(d, L, 2) \o Trznt(d, L, 3)
h_tout(d, L)   == Ptr(d, L, 1) \o Trze(d, L, 2) \o Ptr(d, L, 3)
-----------------------------------------------------------------------------
h_sma_act(d, L) == Ptr(d, L, 1) \o Char(L, 2) \o Trzne(d, L, 3)

(* Without a low watermark its label is not skipped.                       *)
h_sma_get(d, L) ==
  LET known == Ptr(d, L, 1) \o Trze(d, L, 2) \o Char(L, 3) \o Char(L, 4) \o Trzne(d, L, 5)
  IN  IF d.rq_en_get_lwmark = 1
      THEN known \o Trzne(d, L, 6) \o Field(L[7], Computed.rt) \o Field(L[8], Computed.nseq)
      ELSE known \o Field(L[6], Computed.rt) \o Field(L[7], Computed.nseq)

(* Faulty variant: the sender is read whatever the target was built for.   *)
h_sma_ffll_Sender(d, L) ==
  LET known == Ptr(d, L, 1) \o Trze(d, L, 2) \o Ptr(d, L, 3)
               \o Char(L, 4) \o Char(L, 5) \o Trzne(d, L, 6)
  IN  IF d.rq_en_get_lwmark = 1
      THEN known \o Trzne(d, L, 7) \o Field(L[8], Computed.nseq)
      ELSE known \o Field(L[7], Computed.nseq)

(* Nor here; but the sender's is.                                          *)
h_sma_ffll(d, L) ==
  LET known == Ptr(d, L, 1) \o Trze(d, L, 2) \o If(d.en_sender = 1, Ptr(d, L, 3))
               \o Char(L, 4) \o Char(L, 5) \o Trzne(d, L, 6)
  IN  IF d.rq_en_get_lwmark = 1
      THEN known \o Trzne(d, L, 7) \o Field(L[8], Computed.nseq)
      ELSE known \o Field(L[7], Computed.nseq)

h_epreg(d, L) ==
  Char(L, 1) \o Field(L[2], SizeofLong) \o Trzes(d, L, 3) \o Trznb(d, L, 4)

(* An allocation, a recycling: the i labels from the signal's on.          *)
Allocated(d, L, i) ==
     Trze(d, L, i) \o Char(L, i + 1) \o Char(L, i + 2) \o Trznb(d, L, i + 3)
  \o (IF d.mp_en_get_lwm = 1
      THEN Trznb(d, L, i + 4) \o Ptr(d, L, i + 5) ELSE Ptr(d, L, i + 4))

h_ae(d, L)  == Trzes(d, L, 1) \o Allocated(d, L, 2)
h_gcr(d, L) == Allocated(d, L, 1)
h_gc(d, L)  == Trze(d, L, 1) \o Char(L, 2) \o Char(L, 3)

h_symobj(d, L)  == Ptr(d, L, 1) \o Str(L, 2)
h_symepid(d, L) == Char(L, 1) \o Str(L, 2)
h_symst(d, L)   == Ptr(d, L, 1) \o Ptr(d, L, 2) \o Str(L, 3)
h_symsig(d, L)  == Trze(d, L, 1) \o Str(L, 2)
h_symuevt(d, L) == Trze(d, L, 1) \o Str(L, 2)

h_exact(d, L) == Char(L, 1) \o Ptr(d, L, 2) \o Ptr(d, L, 3) \o Ptr(d, L, 4)

(* The file comes first and is shown last.                                 *)
h_assert(d, L) == Str(L, 2) \o Field(L[1], 2)
-----------------------------------------------------------------------------
tg_mp_tbl(d) ==
  [INIT |-> h_mp_init(d, <<"mp", "nblock", "bsize">>),
   GET  |-> h_mp_get(d, <<"mp", "nfree", "nmin">>),
   PUT  |-> h_symnblk(d, <<"mp", "nfree">>)]

tg_rq_tbl(d) ==
  [INIT |-> h_2symnused(d, <<"q", "ao", "nelem">>),
   GET  |-> h_symnused(d, <<"q", "nelem">>),
   FIFO |-> h_rq_ffll(d, <<"q", "nelem", "nmin">>),
   LIFO |-> h_rq_ffll(d, <<"q", "nelem", "nmin">>),
   FULL |-> h_1sym(d, <<"q">>), DPT |-> h_1sym(d, <<"q">>), GET_LAST |-> h_1sym(d, <<"q">>)]

tg_sma_tbl(d) ==
  LET post == <<"ao", "sig", "snr", "pid", "refc", "nelem", "nmin", "nseq">>
  IN  [ACT   |-> h_sma_act(d, <<"ao", "prio", "size">>),
       TERM  |-> h_symu8(d, <<"ao", "prio">>),
       GET   |-> h_sma_get(d, <<"ao", "sig", "pid", "refc", "nelem", "nmin", "rt", "nseq">>),
       FIFO  |-> h_sma_ffll(d, post), LIFO |-> h_sma_ffll(d, post),
       REG   |-> h_symu8(d, <<"ao", "prio">>), UNREG |-> h_symu8(d, <<"ao", "prio">>),
       DEFER |-> h_symevt(d, <<"q", "sig">>), RCALL |-> h_symevt(d, <<"ao", "sig">>)]

tg_sm_tbl(d) ==
  LET st == <<"ao", "st">>
      ao == <<"ao">>
  IN  Entry("STATE", h_2sym(d, <<"ao", "nxtst">>)) ++
      [INIT       |-> h_2sym(d, <<"ao", "ist">>),
       CLRH       |-> h_2sym(d, <<"ao", "h">>),
       TRN        |-> h_symtrn(d, <<"ao", "sst", "tst">>),
       ENSTATE    |-> h_2sym(d, st), EXSTATE |-> h_2sym(d, st), TS_STATE |-> h_2sym(d, st),
       NENEX      |-> h_sym2u8(d, <<"ao", "nen", "nex">>),
       NTRNACT    |-> h_sym2u8(d, <<"ao", "nta", "nts">>),
       EVT_PROC   |-> h_1sym(d, ao), GRD_FALSE |-> h_1sym(d, ao), CND_NFOUND |-> h_1sym(d, ao),
       UNKN_STATE |-> h_1sym(d, ao), EX_HLEVEL |-> h_1sym(d, ao), EX_TSEG |-> h_1sym(d, ao),
       EVT_NFOUND |-> h_symevt(d, <<"ao", "sig">>),
       EXE_ACT    |-> h_exact(d, <<"aty", "ao", "st", "func">>),
       DCH        |-> h_sm_dch(d, <<"ao", "sig", "st">>)]

tg_tmr_tbl(d) ==
  [INIT  |-> h_tinit(d, <<"t", "sig">>),
   START |-> h_tstart(d, <<"t", "ao", "ntick", "per">>),
   STOP  |-> h_tstop(d, <<"t", "ntick", "per">>),
   TOUT  |-> h_tout(d, <<"t", "sig", "ao">>),
   REM   |-> h_1sym(d, <<"t">>)]

tg_fwk_tbl(d) ==
  LET named == <<"obj", "nm">>
      state == <<"ao", "obj", "nm">>
  IN  Entry("STATE", h_symst(d, state)) ++
      [EN       |-> h_none(d, <<>>), EX |-> h_none(d, <<>>),
       EPREG    |-> h_epreg(d, <<"ep", "ss", "es", "psize">>),
       AE       |-> h_ae(d, <<"es", "sig", "pid", "refc", "nblock", "nmin", "actor">>),
       GC       |-> h_gc(d, <<"sig", "pid", "refc">>),
       GCR      |-> h_gcr(d, <<"sig", "pid", "refc", "nblock", "nmin", "actor">>),
       OBJ      |-> h_symobj(d, named), SIG |-> h_symsig(d, <<"sig", "nm">>),
       FUN      |-> h_symobj(d, <<"func", "nm">>), EXE_FUN |-> h_1sym(d, <<"func">>),
       SYNC_EVT |-> h_sync(d, <<"func", "snr", "ao">>),
       TUSR     |-> h_symuevt(d, <<"usrtrc", "nm">>),
       ASSERT   |-> h_assert(d, <<"line", "file">>),
       AO       |-> h_symobj(d, named), PSTATE |-> h_symst(d, state),
       TIMER    |-> h_symobj(d, named), EPOOL |-> h_symepid(d, <<"ep", "nm">>),
       QUEUE    |-> h_symobj(d, named), ACTOR |-> h_symobj(d, named)]

(* tgroups_tbl, without user and unit test records.                        *)
Reads(d) ==
  [MP |-> tg_mp_tbl(d), RQ |-> tg_rq_tbl(d), SMA |-> tg_sma_tbl(d), SM |-> tg_sm_tbl(d),
   TIM |-> tg_tmr_tbl(d), FWK |-> tg_fwk_tbl(d)]
-----------------------------------------------------------------------------
(* User records: usr_fmt() goes through the items with the size that is    *)
(* left in a signed byte (ri8_t), and stops when it is not positive.       *)
Ri8(n) == ((n + 128) % 256) - 128

(* usr_tbl: the bytes read for an item's value; strings and memory blocks  *)
(* tell their length themselves.                                           *)
UsrReads(d, fmt, width) ==
  CASE fmt \in {"I8", "UI8"}          -> 1
    [] fmt \in {"I16", "UI16"}        -> 2
    [] fmt \in {"I32", "UI32", "X32"} -> 4
    [] fmt \in {"STR", "MEM"}         -> width
    [] fmt \in {"OBJ", "FUN"}         -> d.sizeof_pointer
    [] fmt = "ESIG"                   -> sizeof_type(d.sizeof_sig)

(* The bytes of the first fields, for every number of them.                *)
BytesUpTo(layout) ==
  LET sum[i \in 0 .. Len(layout)] == IF i = 0 THEN 0 ELSE sum[i - 1] + layout[i][2]
  IN  sum

Bytes(layout) == BytesUpTo(layout)[Len(layout)]

(* The bytes of the items after the i-th, each with its format byte.       *)
Rest(items, i) == Bytes(items) - BytesUpTo(items)[i] + (Len(items) - i)

(* How many of the items are shown, when each is read with the width it    *)
(* was written with: the checksum is taken off the size whether or not     *)
(* the record has one (chk is 1 or 0).                                     *)
NumShown(items, chk) ==
  LET Stops(i) == i = Len(items) \/ Ri8(Rest(items, i) + chk - 1) <= 0
  IN  Min({i \in 1 .. Len(items) : Stops(i)})

(* The items as they are shown, for a record with hdr bytes before them.   *)
(* Timestamps are skipped even if there are none.  When something is read  *)
(* with another width than it was written with, that and what follows is   *)
(* arbitrary and left out.                                                 *)
usr_fmt(d, hdr, items, chk) ==
  LET n     == NumShown(items, chk)
      wrong == {i \in 1 .. n : UsrReads(d, items[i][1], items[i][2]) # items[i][2]}
  IN  IF hdr # d.en_nseq + d.sizeof_tstamp THEN <<>>
      ELSE SubSeq(items, 1, IF wrong = {} THEN n ELSE Min(wrong) - 1)
=============================================================================
