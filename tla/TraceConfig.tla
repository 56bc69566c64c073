----------------------------- MODULE TraceConfig -----------------------------
(***************************************************************************)
(* Two programs have to agree on how trace records look: the instrumented  *)
(* program, by the options it was built with (rkhcfg.h), and Trazer, by    *)
(* the CONFIG_T it has read from trazer.cfg (source/config.cpp) or from    *)
(* the configuration record with which the program starts                  *)
(* (RKH_TR_FWK_TCFG, h_tcfg()).                                            *)
(*                                                                         *)
(* A build is a record: the sizes in bits, and in EN the options that are  *)
(* enabled, named as in rkhcfg.h without RKH_CFG_..._EN.  Sizes of the     *)
(* port (timestamp, pointers) come from rkhport.h, which is not part of    *)
(* the repository.  CONFIG_T's members keep their names without trazer_;   *)
(* its sizes are in bytes.                                                 *)
(***************************************************************************)
EXTENDS Integers, Sequences, SequencesExt

On(c, option) == option \in c.EN

Bits == {8, 16, 32}

(* The layout of a record is a sequence of fields <<name, width>>: the     *)
(* bytes of a value, or ToNUL for a string and its terminator.             *)
ToNUL == 0

Field(name, width) == <<<<name, width>>>>

If(condition, layout) == IF condition THEN layout ELSE <<>>

(* Tables from the names of records; one of one entry, and two as one.     *)
Entry(name, value) == [x \in {name} |-> value]

f ++ g == [x \in DOMAIN f \cup DOMAIN g |-> IF x \in DOMAIN f THEN f[x] ELSE g[x]]
-----------------------------------------------------------------------------
(* The values rkhcfg.h declares valid.                                     *)
Documented_FWK(c) ==
  c.SIZEOF_EVT \in Bits /\ c.SIZEOF_EVT_SIZE \in Bits /\ c.MAX_EVT_POOL \in 0 .. 256

Documented_RQ(c)  == c.SIZEOF_NELEM \in Bits
Documented_MP(c)  == c.SIZEOF_BSIZE \in Bits /\ c.SIZEOF_NBLOCK \in Bits
Documented_TMR(c) == c.SIZEOF_NTIMER \in Bits

Documented_PORT(c) ==
  c.SIZEOF_TSTAMP \in Bits /\ c.SIZEOF_PTR \in {16, 32} /\ c.SIZEOF_FUN_PTR \in {16, 32}

Documented(c) ==
  /\ Documented_FWK(c) /\ Documented_RQ(c) /\ Documented_MP(c) /\ Documented_TMR(c)
  /\ Documented_PORT(c)

(* The trace options of the examples' rkhcfg.h, first those common to      *)
(* both.  The headers enable RKH_CFG_TRC_SMA_DCH, but what the recorder    *)
(* asks for is RKH_CFG_TRC_SM_DCH, so that neither build has "SM_DCH".     *)
SmOptions ==
  {"SM_INIT", "SM_CLRH", "SM_TRN", "SM_STATE", "SM_ENSTATE", "SM_EXSTATE", "SM_NENEX",
   "SM_NTRNACT", "SM_TS_STATE", "SM_PROCESS", "SM_EXE_ACT"}

CommonOptions ==
  {"RTFIL", "RTFIL_SMA", "RTFIL_SIGNAL", "ALL", "FWK", "ASSERT", "NSEQ", "CHK", "TSTAMP"}
  \cup SmOptions

ahsm_TRC   == CommonOptions \cup {"USER_TRACE"}
shared_TRC == CommonOptions \cup {"SM"}

(* The sizes and the remaining options of prj/ahsm/rkhcfg.h and of         *)
(* prj/shared/rkhcfg.h, with the sizes of a 32-bit port.                   *)
ExampleSizes ==
  [SIZEOF_EVT |-> 8, SIZEOF_EVT_SIZE |-> 16, MAX_EVT_POOL |-> 4, SIZEOF_NELEM |-> 8,
   SIZEOF_BSIZE |-> 8, SIZEOF_NBLOCK |-> 8, SIZEOF_NTIMER |-> 16,
   SIZEOF_TSTAMP |-> 32, SIZEOF_PTR |-> 32, SIZEOF_FUN_PTR |-> 32, EN |-> {}]

ahsm   == [ExampleSizes EXCEPT !.EN = ahsm_TRC \cup {"RQ_GET_LWMARK", "MP_GET_LWM"}]
shared == [ExampleSizes EXCEPT !.EN = shared_TRC \cup {"SMA_TRC_SNDR"}]
-----------------------------------------------------------------------------
(* RKH_TR_FWK_TCFG: the flags of the 32-bit word, from bit 0 on, and five  *)
(* bytes of two sizes each.                                                *)
FlagBits ==
  <<"SMA_TRC_SNDR", "RTFIL", "USER_TRACE", "ALL", "MP", "RQ", "SMA", "TMR", "SM", "FWK",
    "ASSERT", "RQ_GET_LWMARK", "MP_GET_LWM", "RTFIL_SMA", "RTFIL_SIGNAL", "NSEQ",
    "TSTAMP", "CHK">>

(* (rui8_t)((hi << 4) | lo), for a power of two hi and any lo.             *)
Packed(hi, lo) ==
  LET over == (lo \div 16) % 16
  IN  16 * (IF (over \div hi) % 2 = 1 THEN over ELSE over + hi) + (lo % 16)

(* Faulty variant: the timestamp's size is or-ed in as bits.               *)
TCFG_InBits(c) ==
  [flags    |-> [i \in DOMAIN FlagBits |-> IF On(c, FlagBits[i]) THEN 1 ELSE 0],
   evt_ts   |-> Packed(c.SIZEOF_EVT \div 8, c.SIZEOF_TSTAMP),
   ptr_nt   |-> Packed(c.SIZEOF_PTR \div 8, c.SIZEOF_NTIMER \div 8),
   nb_ne    |-> Packed(c.SIZEOF_NBLOCK \div 8, c.SIZEOF_NELEM \div 8),
   es       |-> c.SIZEOF_EVT_SIZE \div 8,
   bs_epool |-> Packed(c.SIZEOF_BSIZE \div 8, c.MAX_EVT_POOL)]

RKH_TR_FWK_TCFG(c) ==
  [flags    |-> [i \in DOMAIN FlagBits |-> IF On(c, FlagBits[i]) THEN 1 ELSE 0],
   evt_ts   |-> Packed(c.SIZEOF_EVT \div 8, c.SIZEOF_TSTAMP \div 8),
   ptr_nt   |-> Packed(c.SIZEOF_PTR \div 8, c.SIZEOF_NTIMER \div 8),
   nb_ne    |-> Packed(c.SIZEOF_NBLOCK \div 8, c.SIZEOF_NELEM \div 8),
   es       |-> c.SIZEOF_EVT_SIZE \div 8,
   bs_epool |-> Packed(c.SIZEOF_BSIZE \div 8, c.MAX_EVT_POOL)]
-----------------------------------------------------------------------------
(* h_tcfg(): what Trazer's CONFIG_T holds afterwards.                      *)
HighNibble(b) == (b \div 16) % 16
LowNibble(b)  == b % 16

h_tcfg(r) ==
  [en_sender        |-> r.flags[1],  runtime_filter   |-> r.flags[2],
   en_user_trace    |-> r.flags[3],  all              |-> r.flags[4],
   en_mp            |-> r.flags[5],  en_rq            |-> r.flags[6],
   en_sma           |-> r.flags[7],  en_tim           |-> r.flags[8],
   en_sm            |-> r.flags[9],  en_fwk           |-> r.flags[10],
   en_assert        |-> r.flags[11], rq_en_get_lwmark |-> r.flags[12],
   mp_en_get_lwm    |-> r.flags[13], rtfil_sma_en     |-> r.flags[14],
   rtfil_signal_en  |-> r.flags[15], en_nseq          |-> r.flags[16],
   en_tstamp        |-> r.flags[17], en_chk           |-> r.flags[18],
   sizeof_sig       |-> HighNibble(r.evt_ts),   sizeof_tstamp |-> LowNibble(r.evt_ts),
   sizeof_pointer   |-> HighNibble(r.ptr_nt),   sizeof_ntimer |-> LowNibble(r.ptr_nt),
   sizeof_nblock    |-> HighNibble(r.nb_ne),    sizeof_nelem  |-> LowNibble(r.nb_ne),
   sizeof_esize     |-> LowNibble(r.es),
   sizeof_bsize     |-> HighNibble(r.bs_epool), max_epool     |-> LowNibble(r.bs_epool)]

(* What a build tells Trazer about itself.                                 *)
Told(c) == h_tcfg(RKH_TR_FWK_TCFG(c))
-----------------------------------------------------------------------------
(* configs_dft.                                                            *)
configs_dft ==
  [en_sender |-> 0, runtime_filter |-> 1, en_user_trace |-> 1, all |-> 1, en_mp |-> 0,
   en_rq |-> 0, en_sma |-> 0, en_tim |-> 0, en_sm |-> 0, en_fwk |-> 1, en_assert |-> 1,
   rq_en_get_lwmark |-> 0, mp_en_get_lwm |-> 0, rtfil_sma_en |-> 1, rtfil_signal_en |-> 1,
   en_nseq |-> 1, en_tstamp |-> 1, en_chk |-> 1, sizeof_sig |-> 1, sizeof_tstamp |-> 4,
   sizeof_pointer |-> 4, sizeof_ntimer |-> 2, sizeof_nblock |-> 1, sizeof_nelem |-> 1,
   sizeof_esize |-> 2, sizeof_bsize |-> 1, max_epool |-> 4]

(* config[], "Available commands for trazer.cfg": the members that have an *)
(* option.                                                                 *)
config == DOMAIN configs_dft \ {"rtfil_sma_en", "rtfil_signal_en"}

(* Those process_config() has a case for.                                  *)
Processed ==
  config \ {"rq_en_get_lwmark", "mp_en_get_lwm", "sizeof_bsize", "max_epool"}

(* A line of trazer.cfg is an option and its value; -1 stands for a value  *)
(* that is missing or negative.  Comments and empty lines are left out.    *)
ConfigLine(option, value) == [option |-> option, value |-> value]

(* Faulty variant: the value of an option is not looked at.                *)
ProcessAnyLine(r, line) ==
  IF r.refused \/ line.option \notin Processed THEN [r EXCEPT !.refused = TRUE]
  ELSE [r EXCEPT !.configs[line.option] = line.value]

(* One line; the first one in error ends Trazer.                           *)
ProcessLine(r, line) ==
  IF r.refused \/ line.option \notin Processed \/ line.value < 0
  THEN [r EXCEPT !.refused = TRUE]
  ELSE [r EXCEPT !.configs[line.option] = line.value]

process_config(r, file) == FoldLeft(ProcessLine, r, file)

(* read_config_file(); without a file it is as if the file were empty.     *)
read_config_file(file) ==
  process_config([configs |-> configs_dft, refused |-> FALSE], file)
=============================================================================
