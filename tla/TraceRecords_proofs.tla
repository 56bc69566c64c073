------------------------- MODULE TraceRecords_proofs -------------------------
(***************************************************************************)
(* What Trazer holds of the target's configuration, which records it       *)
(* decodes with it, and what it shows of them: for any documented builds,  *)
(* any files, user records and numbers of starts and of records in flight. *)
(***************************************************************************)
EXTENDS TraceRecords, TLAPS, SequenceTheorems, WellFoundedInduction

(* The sequences are sequences, and the numbers of runs are those of runs  *)
(* there are.                                                              *)
Shape ==
  /\ runs \in Seq(Builds)
  /\ stream \in Seq(Range(stream))
  /\ \A i \in 1 .. Len(stream) : stream[i].run \in 1 .. Len(runs)
  /\ heard \in 0 .. Len(runs)

(* CONFIG_T is what the run heard of last has told.                        *)
AsTold == heard # 0 => configs = Told(runs[heard])

(* The runs HeardFirst makes a promise of.                                 *)
Promised(c) == Tells(c) /\ On(c, "CHK")

(* The configuration of a run is known, or is among the first n records.   *)
Announced(h, records, run, n) ==
  h = run \/ \E j \in 1 .. n : records[j].id = Config /\ records[j].run = run

(* Records arrive in the order of their runs, each after the configuration *)
(* of its run.                                                             *)
InTurn(builds, records, h) ==
  /\ \A i \in 1 .. Len(records) : h <= records[i].run
  /\ \A i, j \in 1 .. Len(records) : i <= j => records[i].run <= records[j].run
  /\ \A i \in 1 .. Len(records) :
       records[i].id # Config /\ Promised(builds[records[i].run])
         => Announced(h, records, records[i].run, i - 1)
  /\ Len(builds) # 0 /\ Promised(builds[Len(builds)])
       => Announced(h, records, Len(builds), Len(records))

IInv == Shape /\ AsTold /\ HeardFirst /\ (~lost => InTurn(runs, stream, heard))
-----------------------------------------------------------------------------
LEMMA OfRange ==
  ASSUME NEW S, NEW s \in Seq(S)
  PROVE  s \in Seq(Range(s))
<1>1. s \in [1 .. Len(s) -> S] /\ DOMAIN s = 1 .. Len(s) /\ Len(s) \in Nat
  BY LenProperties
<1>2. s \in [1 .. Len(s) -> Range(s)]
  BY <1>1 DEF Range
<1> QED BY <1>1, <1>2, SeqDef

LEMMA Appended ==
  ASSUME NEW s, s \in Seq(Range(s)), NEW r
  PROVE  /\ Append(s, r) \in Seq(Range(Append(s, r)))
         /\ Len(s) \in Nat /\ Len(Append(s, r)) = Len(s) + 1
         /\ \A i \in 1 .. Len(s) : Append(s, r)[i] = s[i]
         /\ Append(s, r)[Len(s) + 1] = r
<1> DEFINE S == Range(s) \cup {r}
<1>1. s \in Seq(S)
  BY SeqMonotonic
<1> HIDE DEF S
<1>2. r \in S
  BY DEF S
<1>3. Append(s, r) \in Seq(S)
  BY <1>1, <1>2, AppendProperties
<1>4. Append(s, r) \in Seq(Range(Append(s, r)))
  BY <1>3, OfRange
<1>5. Len(s) \in Nat /\ Len(Append(s, r)) = Len(s) + 1 /\ Append(s, r)[Len(s) + 1] = r
      /\ \A i \in 1 .. Len(s) : Append(s, r)[i] = s[i]
  BY <1>1, <1>2, AppendProperties, LenProperties
<1> QED BY <1>4, <1>5

LEMMA Shifted ==
  ASSUME NEW s, s \in Seq(Range(s)), s # <<>>
  PROVE  /\ Tail(s) \in Seq(Range(Tail(s)))
         /\ Len(s) \in Nat \ {0} /\ Len(Tail(s)) = Len(s) - 1
         /\ Head(s) = s[1]
         /\ \A i \in 1 .. Len(s) - 1 : Tail(s)[i] = s[i + 1]
<1> DEFINE S == Range(s)
<1>1. s \in Seq(S)
  OBVIOUS
<1> HIDE DEF S
<1>2. Tail(s) \in Seq(S) /\ Len(Tail(s)) = Len(s) - 1
      /\ \A i \in 1 .. Len(s) - 1 : Tail(s)[i] = s[i + 1]
  BY <1>1, HeadTailProperties
<1>3. Len(s) \in Nat \ {0}
  BY <1>1, EmptySeq
<1>4. Head(s) = s[1]
  BY <1>1, <1>3
<1>5. Tail(s) \in Seq(Range(Tail(s)))
  BY <1>2, OfRange
<1> QED BY <1>2, <1>3, <1>4, <1>5
-----------------------------------------------------------------------------
(* What the two halves of a byte hold is what was put into them.           *)
LEMMA Halves ==
  ASSUME NEW hi \in {1, 2, 4}, NEW lo \in 0 .. 15
  PROVE  HighNibble(Packed(hi, lo)) = hi /\ LowNibble(Packed(hi, lo)) = lo
<1>1. (lo \div 16) % 16 = 0 /\ lo % 16 = lo
  OBVIOUS
<1>2. (0 \div hi) % 2 = 0
  OBVIOUS
<1>3. Packed(hi, lo) = 16 * hi + lo
  BY <1>1, <1>2 DEF Packed
<1>4. (16 * hi + lo) \div 16 = hi /\ (16 * hi + lo) % 16 = lo
  OBVIOUS
<1> QED BY <1>3, <1>4 DEF HighNibble, LowNibble

LEMMA InBytes ==
  ASSUME NEW bits \in Bits
  PROVE  bits \div 8 \in {1, 2, 4} /\ bits \div 8 \in 0 .. 15
BY DEF Bits

LEMMA KnownIsKnown == Shape /\ AsTold => KnowsTheBuild
<1> SUFFICES ASSUME Shape, AsTold, heard # 0
             PROVE  KnowsTheBuild
  BY DEF KnowsTheBuild
<1> DEFINE c == runs[heard]
           r == RKH_TR_FWK_TCFG(c)
<1>1. c \in Builds /\ Documented(c) /\ configs = h_tcfg(r)
  BY BuildsAssumption, ElementOfSeq, LenProperties DEF Shape, AsTold, Told
<1>2. /\ c.SIZEOF_EVT \in Bits /\ c.SIZEOF_EVT_SIZE \in Bits
      /\ c.SIZEOF_NELEM \in Bits /\ c.SIZEOF_BSIZE \in Bits /\ c.SIZEOF_NBLOCK \in Bits
      /\ c.SIZEOF_NTIMER \in Bits /\ c.SIZEOF_TSTAMP \in Bits /\ c.SIZEOF_PTR \in Bits
      /\ c.MAX_EVT_POOL \in 0 .. 256
  BY <1>1 DEF Documented, Documented_FWK, Documented_RQ, Documented_MP, Documented_TMR,
              Documented_PORT, Bits
<1> HIDE DEF c
<1>3. /\ configs.sizeof_sig = c.SIZEOF_EVT \div 8
      /\ configs.sizeof_tstamp = c.SIZEOF_TSTAMP \div 8
  <2>1. r.evt_ts = Packed(c.SIZEOF_EVT \div 8, c.SIZEOF_TSTAMP \div 8)
    BY DEF RKH_TR_FWK_TCFG
  <2> HIDE DEF r
  <2> QED BY <1>1, <1>2, <2>1, InBytes, Halves DEF h_tcfg
<1>4. /\ configs.sizeof_pointer = c.SIZEOF_PTR \div 8
      /\ configs.sizeof_ntimer = c.SIZEOF_NTIMER \div 8
  <2>1. r.ptr_nt = Packed(c.SIZEOF_PTR \div 8, c.SIZEOF_NTIMER \div 8)
    BY DEF RKH_TR_FWK_TCFG
  <2> HIDE DEF r
  <2> QED BY <1>1, <1>2, <2>1, InBytes, Halves DEF h_tcfg
<1>5. /\ configs.sizeof_nblock = c.SIZEOF_NBLOCK \div 8
      /\ configs.sizeof_nelem = c.SIZEOF_NELEM \div 8
  <2>1. r.nb_ne = Packed(c.SIZEOF_NBLOCK \div 8, c.SIZEOF_NELEM \div 8)
    BY DEF RKH_TR_FWK_TCFG
  <2> HIDE DEF r
  <2> QED BY <1>1, <1>2, <2>1, InBytes, Halves DEF h_tcfg
<1>6. configs.sizeof_esize = c.SIZEOF_EVT_SIZE \div 8
  <2>1. r.es = c.SIZEOF_EVT_SIZE \div 8
    BY DEF RKH_TR_FWK_TCFG
  <2> HIDE DEF r
  <2>2. configs.sizeof_esize = LowNibble(r.es)
    BY <1>1 DEF h_tcfg
  <2> QED BY <1>2, <2>1, <2>2 DEF Bits, LowNibble
<1>7. c.MAX_EVT_POOL < 16 =>
        configs.sizeof_bsize = c.SIZEOF_BSIZE \div 8 /\ configs.max_epool = c.MAX_EVT_POOL
  <2>1. r.bs_epool = Packed(c.SIZEOF_BSIZE \div 8, c.MAX_EVT_POOL)
    BY DEF RKH_TR_FWK_TCFG
  <2> HIDE DEF r
  <2>2. configs.sizeof_bsize = HighNibble(r.bs_epool) /\ configs.max_epool = LowNibble(r.bs_epool)
    BY <1>1 DEF h_tcfg
  <2> QED BY <1>2, <2>1, <2>2, InBytes, Halves
<1>8. \A i \in 1 .. 18 : r.flags[i] = IF On(c, FlagBits[i]) THEN 1 ELSE 0
  BY DEF RKH_TR_FWK_TCFG, FlagBits
<1>9. /\ configs.en_sender = 1 <=> On(c, "SMA_TRC_SNDR")
      /\ configs.rq_en_get_lwmark = 1 <=> On(c, "RQ_GET_LWMARK")
      /\ configs.mp_en_get_lwm = 1 <=> On(c, "MP_GET_LWM")
      /\ configs.en_nseq = 1 <=> On(c, "NSEQ")
      /\ configs.en_chk = 1 <=> On(c, "CHK")
      /\ configs.en_tstamp = 1 <=> On(c, "TSTAMP")
  <2>1. /\ FlagBits[1] = "SMA_TRC_SNDR" /\ FlagBits[12] = "RQ_GET_LWMARK"
        /\ FlagBits[13] = "MP_GET_LWM" /\ FlagBits[16] = "NSEQ"
        /\ FlagBits[17] = "TSTAMP" /\ FlagBits[18] = "CHK"
    BY DEF FlagBits
  <2> HIDE DEF r
  <2>2. /\ configs.en_sender = r.flags[1] /\ configs.rq_en_get_lwmark = r.flags[12]
        /\ configs.mp_en_get_lwm = r.flags[13] /\ configs.en_nseq = r.flags[16]
        /\ configs.en_tstamp = r.flags[17] /\ configs.en_chk = r.flags[18]
    BY <1>1 DEF h_tcfg
  <2> QED BY <1>8, <2>1, <2>2
<1> QED BY <1>3, <1>4, <1>5, <1>6, <1>7, <1>9 DEF KnowsTheBuild, c
-----------------------------------------------------------------------------
(* Initially there is nothing.                                             *)
LEMMA InitIInv == Init => IInv
<1> SUFFICES ASSUME Init PROVE IInv
  OBVIOUS
<1>1. runs = <<>> /\ stream = <<>> /\ heard = 0 /\ line = NoLine
  BY DEF Init
<1>2. \A S : <<>> \in Seq(S) /\ Len(<<>>) = 0
  BY EmptySeq
<1>3. Shape /\ AsTold /\ HeardFirst
  BY <1>1, <1>2 DEF Shape, AsTold, HeardFirst
<1>4. InTurn(runs, stream, heard)
  BY <1>1, <1>2 DEF InTurn
<1> QED BY <1>3, <1>4 DEF IInv

(* A start adds a run, and its configuration if the build has one.         *)
LEMMA StartIInv ==
  ASSUME IInv, NEW c \in Builds, Start(c)
  PROVE  IInv'
<1> DEFINE n    == Len(runs)
           r    == [run |-> n + 1, id |-> Config, items |-> <<>>]
           more == Append(stream, r)
           rs   == Append(runs, c)
<1>1. /\ runs' = rs /\ line' = NoLine
      /\ stream' = IF Tells(c) THEN more ELSE stream
      /\ configs' = configs /\ heard' = heard /\ lost' = lost
  BY DEF Start
<1>2. /\ rs \in Seq(Builds) /\ n \in Nat /\ Len(rs) = n + 1 /\ rs[n + 1] = c
      /\ \A i \in 1 .. n : rs[i] = runs[i]
  BY AppendProperties, LenProperties DEF IInv, Shape
<1>3. /\ more \in Seq(Range(more)) /\ Len(stream) \in Nat /\ Len(more) = Len(stream) + 1
      /\ \A i \in 1 .. Len(stream) : more[i] = stream[i]
      /\ more[Len(stream) + 1] = r
  BY Appended DEF IInv, Shape
<1>4. r.run = n + 1 /\ r.id = Config
  OBVIOUS
<1> HIDE DEF r, more, rs
<1>5. Shape'
  BY <1>1, <1>2, <1>3, <1>4 DEF IInv, Shape
<1>6. AsTold' /\ HeardFirst'
  BY <1>1, <1>2 DEF IInv, Shape, AsTold, HeardFirst
<1>7. ASSUME InTurn(runs, stream, heard) PROVE InTurn(rs, stream', heard)
  <2>1. Shape
    BY DEF IInv
  <2>2. CASE Tells(c)
    <3>1. \A i \in 1 .. Len(more) : heard <= more[i].run
      BY <1>2, <1>3, <1>4, <1>7, <2>1 DEF InTurn, Shape
    <3>2. \A i, j \in 1 .. Len(more) : i <= j => more[i].run <= more[j].run
      BY <1>2, <1>3, <1>4, <1>7, <2>1, SMTT(30) DEF InTurn, Shape
    <3>3. ASSUME NEW i \in 1 .. Len(more), more[i].id # Config, Promised(rs[more[i].run])
          PROVE  Announced(heard, more, more[i].run, i - 1)
      <4>1. i \in 1 .. Len(stream) /\ more[i] = stream[i]
        BY <1>3, <1>4, <3>3
      <4>2. Announced(heard, stream, stream[i].run, i - 1)
        BY <1>2, <1>7, <2>1, <3>3, <4>1 DEF InTurn, Shape
      <4> QED BY <1>3, <4>1, <4>2 DEF Announced
    <3>4. Announced(heard, more, Len(rs), Len(more))
      BY <1>2, <1>3, <1>4 DEF Announced
    <3> QED BY <1>1, <2>2, <3>1, <3>2, <3>3, <3>4 DEF InTurn
  <2>3. CASE ~Tells(c)
    <3>1. stream' = stream /\ ~Promised(rs[Len(rs)])
      BY <1>1, <1>2, <2>3 DEF Promised
    <3> QED BY <1>2, <1>7, <2>1, <3>1 DEF InTurn, Shape
  <2> QED BY <2>2, <2>3
<1> QED BY <1>1, <1>5, <1>6, <1>7 DEF IInv

(* A record is one of the current run.                                     *)
LEMMA SendIInv ==
  ASSUME IInv, runs # <<>>, NEW id, NEW items, Send(Record(id, items))
  PROVE  IInv'
<1> DEFINE n    == Len(runs)
           r    == Record(id, items)
           more == Append(stream, r)
<1>1. /\ stream' = more /\ runs' = runs /\ line' = NoLine
      /\ configs' = configs /\ heard' = heard /\ lost' = lost
  BY DEF Send
<1>2. /\ more \in Seq(Range(more)) /\ Len(stream) \in Nat /\ Len(more) = Len(stream) + 1
      /\ \A i \in 1 .. Len(stream) : more[i] = stream[i]
      /\ more[Len(stream) + 1] = r
  BY Appended DEF IInv, Shape
<1>3. r.run = n /\ n \in Nat \ {0}
  BY EmptySeq DEF Record, IInv, Shape
<1> HIDE DEF r, more
<1>4. Shape'
  BY <1>1, <1>2, <1>3 DEF IInv, Shape
<1>5. AsTold' /\ HeardFirst'
  BY <1>1 DEF IInv, AsTold, HeardFirst
<1>6. ASSUME InTurn(runs, stream, heard) PROVE InTurn(runs, more, heard)
  <2>1. Shape
    BY DEF IInv
  <2>2. \A run : \A k \in 0 .. Len(stream) :
          Announced(heard, stream, run, k) => Announced(heard, more, run, k)
    BY <1>2 DEF Announced
  <2>3. Promised(runs[n]) => Announced(heard, more, n, Len(stream))
    BY <1>2, <1>3, <1>6, <2>2 DEF InTurn
  <2>4. \A i \in 1 .. Len(more) : heard <= more[i].run
    BY <1>2, <1>3, <1>6, <2>1 DEF InTurn, Shape
  <2>5. \A i, j \in 1 .. Len(more) : i <= j => more[i].run <= more[j].run
    BY <1>2, <1>3, <1>6, <2>1, SMTT(30) DEF InTurn, Shape
  <2>6. ASSUME NEW i \in 1 .. Len(more), more[i].id # Config, Promised(runs[more[i].run])
        PROVE  Announced(heard, more, more[i].run, i - 1)
    <3>1. CASE i \in 1 .. Len(stream)
      BY <1>2, <1>6, <2>2, <2>6, <3>1 DEF InTurn
    <3>2. CASE i = Len(stream) + 1
      BY <1>2, <1>3, <2>3, <2>6, <3>2
    <3> QED BY <1>2, <3>1, <3>2
  <2>7. Promised(runs[n]) => Announced(heard, more, n, Len(more))
    BY <1>2, <2>3 DEF Announced
  <2> QED BY <2>4, <2>5, <2>6, <2>7 DEF InTurn
<1> QED BY <1>1, <1>4, <1>5, <1>6 DEF IInv

(* Whether the first record is heard, or a promise is not due to it, those *)
(* that remain are in turn.                                                *)
LEMMA RestInTurn ==
  ASSUME Shape, InTurn(runs, stream, heard), stream # <<>>, NEW h,
         h = heard \/ h = stream[1].run,
         stream[1].id = Config /\ Promised(runs[stream[1].run]) => h = stream[1].run
  PROVE  InTurn(runs, Tail(stream), h)
<1> DEFINE rest == Tail(stream)
           run1 == stream[1].run
<1>1. /\ Len(stream) \in Nat \ {0} /\ Len(rest) = Len(stream) - 1
      /\ \A i \in 1 .. Len(rest) : rest[i] = stream[i + 1]
  BY Shifted DEF Shape
<1> HIDE DEF rest
<1>2. /\ \A i \in 1 .. Len(stream) : stream[i].run \in 1 .. Len(runs) /\ run1 <= stream[i].run
      /\ heard <= run1 /\ heard \in Nat /\ Len(runs) \in Nat /\ run1 \in 1 .. Len(runs)
  BY <1>1, LenProperties DEF Shape, InTurn
<1>3. ASSUME NEW run \in run1 .. Len(runs), Promised(runs[run]), NEW k \in 1 .. Len(stream),
             Announced(heard, stream, run, k)
      PROVE  Announced(h, rest, run, k - 1)
  <2>1. CASE heard = run
    BY <1>2, <1>3, <2>1 DEF Announced
  <2>2. ASSUME NEW j \in 1 .. k, stream[j].id = Config, stream[j].run = run
        PROVE  Announced(h, rest, run, k - 1)
    <3>1. CASE j = 1
      BY <1>3, <2>2, <3>1 DEF Announced
    <3>2. CASE j # 1
      <4>1. j - 1 \in 1 .. k - 1 /\ rest[j - 1] = stream[j]
        BY <1>1, <3>2
      <4> QED BY <2>2, <4>1 DEF Announced
    <3> QED BY <3>1, <3>2
  <2> QED BY <1>3, <2>1, <2>2 DEF Announced
<1>4. \A i \in 1 .. Len(rest) : h <= rest[i].run
  BY <1>1, <1>2
<1>5. \A i, j \in 1 .. Len(rest) : i <= j => rest[i].run <= rest[j].run
  BY <1>1 DEF InTurn
<1>6. ASSUME NEW i \in 1 .. Len(rest), rest[i].id # Config, Promised(runs[rest[i].run])
      PROVE  Announced(h, rest, rest[i].run, i - 1)
  <2>1. i + 1 \in 1 .. Len(stream) /\ rest[i] = stream[i + 1] /\ i \in 1 .. Len(stream)
    BY <1>1
  <2>2. Announced(heard, stream, rest[i].run, i)
    BY <1>6, <2>1 DEF InTurn
  <2>3. rest[i].run \in run1 .. Len(runs)
    BY <1>2, <2>1
  <2> DEFINE run == rest[i].run
  <2> HIDE DEF run, run1
  <2>4. run \in run1 .. Len(runs) /\ Promised(runs[run]) /\ Announced(heard, stream, run, i)
    BY <1>6, <2>2, <2>3 DEF run
  <2>5. Announced(h, rest, run, i - 1)
    BY <1>3, <2>1, <2>4
  <2> QED BY <2>5 DEF run
<1>7. Promised(runs[Len(runs)]) => Announced(h, rest, Len(runs), Len(rest))
  BY <1>1, <1>2, <1>3 DEF InTurn
<1> QED BY <1>4, <1>5, <1>6, <1>7 DEF InTurn, rest

LEMMA RestShape ==
  ASSUME Shape, stream # <<>>, stream' = Tail(stream), runs' = runs,
         heard' = heard \/ heard' = stream[1].run
  PROVE  Shape'
<1>1. /\ Tail(stream) \in Seq(Range(Tail(stream)))
      /\ Len(stream) \in Nat \ {0} /\ Len(Tail(stream)) = Len(stream) - 1
      /\ \A i \in 1 .. Len(stream) - 1 : Tail(stream)[i] = stream[i + 1]
  BY Shifted DEF Shape
<1>2. Len(runs) \in Nat
  BY LenProperties DEF Shape
<1>3. heard' \in 0 .. Len(runs')
  BY <1>1, <1>2 DEF Shape
<1> QED BY <1>1, <1>3 DEF Shape
-----------------------------------------------------------------------------
(* The first record is gone, and with it what was promised.                *)
LEMMA LoseIInv == IInv /\ Lose => IInv'
<1> SUFFICES ASSUME IInv, Lose PROVE IInv'
  OBVIOUS
<1>1. /\ stream # <<>> /\ stream' = Tail(stream) /\ lost' = TRUE /\ line' = NoLine
      /\ runs' = runs /\ heard' = heard /\ configs' = configs
  BY DEF Lose
<1>2. Shape'
  BY <1>1, RestShape DEF IInv
<1> QED BY <1>1, <1>2 DEF IInv, AsTold, HeardFirst

(* The configuration record is heard: it is one of the run it comes from.  *)
LEMMA HearIInv == ASSUME IInv, stream # <<>>, Hear(Head(stream)) PROVE IInv'
<1> DEFINE r == Head(stream)
<1>1. r = stream[1] /\ stream[1].run \in 1 .. Len(runs)
  BY Shifted DEF IInv, Shape
<1> HIDE DEF r
<1>2. /\ stream' = Tail(stream) /\ runs' = runs /\ lost' = lost
      /\ configs' = Told(runs[r.run]) /\ heard' = r.run /\ line' = NoLine
  BY DEF Hear, Take, Build, r
<1>3. Shape'
  BY <1>1, <1>2, RestShape DEF IInv
<1>4. ASSUME InTurn(runs, stream, heard) PROVE InTurn(runs, Tail(stream), r.run)
  BY <1>1, <1>4, RestInTurn DEF IInv
<1> QED BY <1>2, <1>3, <1>4 DEF IInv, AsTold, HeardFirst

(* Any other record is shown: as long as nothing is lost its configuration *)
(* has come before it.                                                     *)
LEMMA ShowIInv == ASSUME IInv, stream # <<>>, Show(Head(stream)) PROVE IInv'
<1> DEFINE r == Head(stream)
<1>1. r = stream[1] /\ Len(stream) \in Nat \ {0} /\ stream[1].run \in 1 .. Len(runs)
  BY Shifted DEF IInv, Shape
<1> HIDE DEF r
<1>2. /\ stream' = Tail(stream) /\ runs' = runs /\ lost' = lost /\ r.id # Config
      /\ configs' = configs /\ heard' = heard /\ line'.run = r.run
  BY DEF Show, Take, r
<1>3. Shape'
  BY <1>1, <1>2, RestShape DEF IInv
<1>4. ASSUME InTurn(runs, stream, heard) PROVE InTurn(runs, Tail(stream), heard)
  BY <1>1, <1>2, <1>4, RestInTurn DEF IInv
<1>5. HeardFirst'
  <2>1. SUFFICES ASSUME r.run # heard, ~lost, Promised(runs[r.run])
                 PROVE  FALSE
    BY <1>2 DEF HeardFirst, Promised
  <2>2. Announced(heard, stream, r.run, 1 - 1)
    BY <1>1, <1>2, <2>1 DEF IInv, InTurn
  <2> QED BY <2>1, <2>2 DEF Announced
<1> QED BY <1>2, <1>3, <1>4, <1>5 DEF IInv, AsTold

(* Only builds without checksum have their configuration refused.          *)
LEMMA RefuseIInv == ASSUME IInv, stream # <<>>, Refuse(Head(stream)) PROVE IInv'
<1> DEFINE r == Head(stream)
<1>1. r = stream[1] /\ stream[1].run \in 1 .. Len(runs)
  BY Shifted DEF IInv, Shape
<1> HIDE DEF r
<1>2. /\ stream' = Tail(stream) /\ runs' = runs /\ lost' = lost
      /\ configs' = configs /\ heard' = heard /\ line' = NoLine
      /\ ~Promised(runs[r.run])
  BY DEF Refuse, Take, Checked, Build, Promised, r
<1>3. Shape'
  BY <1>1, <1>2, RestShape DEF IInv
<1>4. ASSUME InTurn(runs, stream, heard) PROVE InTurn(runs, Tail(stream), heard)
  BY <1>1, <1>2, <1>4, RestInTurn DEF IInv
<1> QED BY <1>2, <1>3, <1>4 DEF IInv, AsTold, HeardFirst

LEMMA NextIInv == IInv /\ [Next]_vars => IInv'
<1> SUFFICES ASSUME IInv, [Next]_vars PROVE IInv'
  OBVIOUS
<1>1. CASE \E c \in Builds : Start(c)
  BY <1>1, StartIInv
<1>2. CASE Trace
  BY <1>2, SendIInv DEF Trace
<1>3. CASE TraceUser
  BY <1>3, SendIInv DEF TraceUser
<1>4. CASE Lose
  BY <1>4, LoseIInv
<1>5. CASE stream # <<>> /\ Hear(Head(stream))
  BY <1>5, HearIInv
<1>6. CASE stream # <<>> /\ Show(Head(stream))
  BY <1>6, ShowIInv
<1>7. CASE stream # <<>> /\ Refuse(Head(stream))
  BY <1>7, RefuseIInv
<1>8. CASE UNCHANGED vars
  BY <1>8 DEF vars, IInv, Shape, AsTold, HeardFirst
<1> QED BY <1>1, <1>2, <1>3, <1>4, <1>5, <1>6, <1>7, <1>8 DEF Next

(* CONFIG_T is what the run heard of last has told, and until a record is  *)
(* lost the configuration of a run comes before its records.               *)
THEOREM Invariance == Spec => []IInv
<1> QED BY InitIInv, NextIInv, PTL DEF Spec

(* Whatever documented sizes and options a build has, h_tcfg() takes from  *)
(* RKH_TR_FWK_TCFG what the build was made with.                           *)
THEOREM BuildKnown == Spec => []KnowsTheBuild
<1>1. IInv => KnowsTheBuild
  BY KnownIsKnown DEF IInv
<1> QED BY <1>1, Invariance, PTL

(* However often the target starts and whichever builds: a record is only  *)
(* decoded with another configuration than its run's after a loss, or when *)
(* the build tells none, or tells it without checksum.                     *)
THEOREM ConfiguredFirst == Spec => []HeardFirst
<1>1. IInv => HeardFirst
  BY DEF IInv
<1> QED BY <1>1, Invariance, PTL
-----------------------------------------------------------------------------
(* The natural numbers are well-founded.                                   *)
LEMMA NatWellFounded == IsWellFoundedOn({p \in Nat \X Nat : p[1] < p[2]}, Nat)
BY NatLessThanWellFounded DEF OpToRel

(* Induction over the natural numbers, for a set.                          *)
LEMMA NatSet ==
  ASSUME NEW S, 0 \in S, \A n \in Nat : n \in S => n + 1 \in S
  PROVE  \A n \in Nat : n \in S
<1> DEFINE R == {p \in Nat \X Nat : p[1] < p[2]}
           T == Nat \ S
<1>1. IsWellFoundedOn(R, Nat)
  BY NatWellFounded
<1>2. \A n \in Nat : n + 1 \in Nat /\ <<n, n + 1>> \in R
  OBVIOUS
<1> HIDE DEF R
<1> SUFFICES ASSUME T # {} PROVE FALSE
  OBVIOUS
<1>3. PICK x \in T : \A y \in T : ~(<<y, x>> \in R)
  BY <1>1, WFMin
<1>4. x # 0 /\ x - 1 \in Nat /\ x = (x - 1) + 1
  BY <1>3
<1>5. x - 1 \in T
  BY <1>4, <1>3
<1> QED BY <1>2, <1>3, <1>4, <1>5

(* Indices up to n + 1 without n + 1.                                      *)
LEMMA Below ==
  ASSUME NEW n \in Nat, NEW s \in SUBSET (1 .. n + 1), n + 1 \notin s
  PROVE  s \in SUBSET (1 .. n)
<1>1. ASSUME NEW x \in s PROVE x \in 1 .. n
  <2>1. x \in 1 .. n + 1 /\ x # n + 1
    OBVIOUS
  <2> QED BY <2>1
<1> QED BY <1>1

(* f[i] is the outcome of the first i lines.                               *)
PartialFolds(f, r, lines) ==
  f[0] = r /\ \A i \in 1 .. Len(lines) : f[i] = ProcessLine(f[i - 1], lines[i])

(* FoldLeft(), which is defined by recursion over sets of indices, takes   *)
(* one line after the other.                                               *)
LEMMA FoldIsFold ==
  ASSUME NEW r, NEW S, NEW lines \in Seq(S)
  PROVE  \E f : /\ PartialFolds(f, r, lines)
                /\ FoldLeft(ProcessLine, r, lines) = f[Len(lines)]
<1> DEFINE last(s) == Max(s)
           next(g, s) == IF s = {} THEN r
                         ELSE ProcessLine(g[s \ {last(s)}], lines[last(s)])
           body(g, n) == [s \in SUBSET (1 .. n) |-> next(g, s)]
           D == {n \in Nat : \E g : g = body(g, n)}
<1>1. ASSUME NEW n \in Nat, NEW s \in SUBSET (1 .. n + 1), n + 1 \in s
      PROVE  last(s) = n + 1 /\ s \ {last(s)} \in SUBSET (1 .. n)
  <2>1. \A y \in s : n + 1 >= y
    OBVIOUS
  <2>2. last(s) \in s /\ \A y \in s : last(s) >= y
    BY <1>1, <2>1 DEF Max
  <2>3. last(s) \in 1 .. n + 1 /\ last(s) >= n + 1
    BY <1>1, <2>2
  <2> HIDE DEF last
  <2>4. last(s) = n + 1
    BY <2>3
  <2>5. s \ {n + 1} \in SUBSET (1 .. n + 1) /\ n + 1 \notin s \ {n + 1}
    OBVIOUS
  <2> QED BY <2>4, <2>5, Below
<1> HIDE DEF last
<1>2. \A n \in Nat : n \in D
  <2>1. 0 \in D
    <3> DEFINE g == [s \in SUBSET (1 .. 0) |-> r]
    <3>1. g = body(g, 0)
      <4>1. \A s \in SUBSET (1 .. 0) : s = {}
        OBVIOUS
      <4>2. \A s \in SUBSET (1 .. 0) : next(g, s) = r
        BY <4>1, Zenon
      <4> HIDE DEF next
      <4> QED BY <4>2
    <3> QED BY <3>1, Zenon
  <2>2. ASSUME NEW n \in Nat, n \in D PROVE n + 1 \in D
    <3>1. PICK g : g = body(g, n)
      BY <2>2
    <3> DEFINE e(s) == IF n + 1 \in s THEN ProcessLine(g[s \ {n + 1}], lines[n + 1]) ELSE g[s]
               h == [s \in SUBSET (1 .. n + 1) |-> e(s)]
    <3> HIDE DEF D, h
    <3>2. ASSUME NEW s \in SUBSET (1 .. n) PROVE h[s] = g[s]
      <4>1. s \in SUBSET (1 .. n + 1) /\ n + 1 \notin s
        OBVIOUS
      <4> QED BY <4>1 DEF h
    <3>3. ASSUME NEW s \in SUBSET (1 .. n + 1) PROVE e(s) = next(h, s)
      <4>1. CASE n + 1 \in s
        <5>1. last(s) = n + 1 /\ s \ {n + 1} \in SUBSET (1 .. n) /\ s # {}
          BY <1>1, <4>1
        <5>2. h[s \ {n + 1}] = g[s \ {n + 1}]
          BY <3>2, <5>1
        <5> QED BY <4>1, <5>1, <5>2, Zenon
      <4>2. CASE n + 1 \notin s
        <5>1. s \in SUBSET (1 .. n) /\ s \ {last(s)} \in SUBSET (1 .. n)
          <6>1. s \in SUBSET (1 .. n)
            BY <4>2, Below
          <6> QED BY <6>1
        <5>2. g[s] = next(g, s)
          BY <3>1, <5>1
        <5>3. h[s \ {last(s)}] = g[s \ {last(s)}]
          BY <3>2, <5>1
        <5> QED BY <4>2, <5>2, <5>3, Zenon
      <4> QED BY <4>1, <4>2
    <3> HIDE DEF e, next
    <3>4. h = body(h, n + 1)
      BY <3>3 DEF h
    <3> HIDE DEF body
    <3>5. \E u : u = body(u, n + 1)
      BY <3>4, Zenon
    <3> QED BY <3>5 DEF D
  <2> HIDE DEF D
  <2> QED BY <2>1, <2>2, NatSet
<1> DEFINE n == Len(lines)
           iter == CHOOSE g : g = body(g, n)
<1>3. n \in Nat /\ DOMAIN lines = 1 .. n
  OBVIOUS
<1>4. FoldLeft(ProcessLine, r, lines) = iter[1 .. n]
  BY <1>3 DEF FoldLeft, MapThenFoldSet, last
<1>5. iter = body(iter, n)
  <2> HIDE DEF body, iter, n
  <2>1. \E g : g = body(g, n)
    BY <1>2, <1>3
  <2> QED BY <2>1, Zenon DEF iter
<1> HIDE DEF iter, n, D
<1> DEFINE f == [i \in 0 .. n |-> iter[1 .. i]]
<1>6. f[0] = r
  <2>1. 1 .. 0 = {} /\ 1 .. 0 \in SUBSET (1 .. n) /\ 0 \in 0 .. n
    BY <1>3
  <2>2. iter[1 .. 0] = next(iter, 1 .. 0)
    BY <1>5, <2>1
  <2> QED BY <2>1, <2>2
<1>7. ASSUME NEW i \in 1 .. n PROVE f[i] = ProcessLine(f[i - 1], lines[i])
  <2>1. /\ i - 1 \in Nat /\ (i - 1) + 1 = i /\ i \in 0 .. n /\ i - 1 \in 0 .. n
        /\ i \in 1 .. i /\ 1 .. i \in SUBSET (1 .. n) /\ 1 .. i \in SUBSET (1 .. (i - 1) + 1)
        /\ (1 .. i) \ {i} = 1 .. i - 1
    <3>1. i \in Nat /\ 1 <= i /\ i <= n
      BY <1>3
    <3> HIDE DEF f, next, body
    <3>2. \A j \in 1 .. i : j \in 1 .. n /\ (j # i => j \in 1 .. i - 1)
      BY <1>3, <3>1
    <3>3. \A j \in 1 .. i - 1 : j \in 1 .. i /\ j # i
      BY <3>1
    <3> QED BY <1>3, <3>1, <3>2, <3>3
  <2>2. last(1 .. i) = i /\ 1 .. i # {}
    BY <1>1, <2>1
  <2>3. iter[1 .. i] = next(iter, 1 .. i)
    BY <1>5, <2>1
  <2>4. f[i] = iter[1 .. i] /\ f[i - 1] = iter[1 .. i - 1]
    BY <2>1
  <2> QED BY <2>1, <2>2, <2>3, <2>4, Zenon
<1>8. f[n] = iter[1 .. n]
  BY <1>3
<1> HIDE DEF f
<1>9. PartialFolds(f, r, lines)
  BY <1>6, <1>7 DEF PartialFolds, n
<1> QED BY <1>4, <1>8, <1>9, Zenon DEF n

(* What a CONFIG_T may hold, and what reading trazer.cfg may leave.        *)
Configs == [DOMAIN configs_dft -> Nat]
Outcome == [configs : Configs, refused : BOOLEAN]

(* A line of trazer.cfg leaves a CONFIG_T of numbers.                      *)
LEMMA LineProcessed ==
  ASSUME NEW r \in Outcome, NEW l \in [option : STRING, value : Int]
  PROVE  ProcessLine(r, l) \in Outcome
<1>1. CASE r.refused \/ l.option \notin Processed \/ l.value < 0
  BY <1>1 DEF ProcessLine, Outcome
<1>2. CASE ~(r.refused \/ l.option \notin Processed \/ l.value < 0)
  <2>1. l.option \in DOMAIN configs_dft /\ l.value \in Nat
    BY <1>2 DEF Processed, config
  <2>2. r.configs \in Configs
    BY DEF Outcome
  <2>3. [r.configs EXCEPT ![l.option] = l.value] \in Configs
    BY <2>1, <2>2 DEF Configs
  <2>4. ProcessLine(r, l) = [r EXCEPT !.configs = [r.configs EXCEPT ![l.option] = l.value]]
    BY <1>2 DEF ProcessLine
  <2> QED BY <2>3, <2>4 DEF Outcome
<1> QED BY <1>1, <1>2

(* So does the whole file.                                                 *)
LEMMA FileRead ==
  ASSUME NEW f \in Files
  PROVE  read_config_file(f) \in Outcome
<1> DEFINE Lines == [option : STRING, value : Int]
           r     == [configs |-> configs_dft, refused |-> FALSE]
<1>1. f \in Seq(Lines) /\ Len(f) \in Nat /\ DOMAIN f = 1 .. Len(f)
  BY FilesAssumption
<1> HIDE DEF Lines
<1>2. PICK g : PartialFolds(g, r, f) /\ FoldLeft(ProcessLine, r, f) = g[Len(f)]
  BY <1>1, FoldIsFold, Zenon
<1>3. r \in Outcome
  BY DEF Outcome, Configs, configs_dft
<1> HIDE DEF r
<1> DEFINE S == {n \in Nat : n <= Len(f) => g[n] \in Outcome}
<1>4. \A n \in Nat : n \in S
  <2>1. 0 \in S
    BY <1>2, <1>3 DEF PartialFolds
  <2>2. ASSUME NEW n \in Nat, n \in S PROVE n + 1 \in S
    <3>1. CASE n + 1 <= Len(f)
      <4>1. n + 1 \in 1 .. Len(f) /\ (n + 1) - 1 = n /\ g[n] \in Outcome /\ f[n + 1] \in Lines
        BY <1>1, <2>2, <3>1
      <4>2. g[n + 1] = ProcessLine(g[n], f[n + 1])
        BY <1>2, <4>1 DEF PartialFolds
      <4>3. g[n + 1] \in Outcome
        BY <4>1, <4>2, LineProcessed DEF Lines
      <4> QED BY <4>3
    <3>2. CASE ~(n + 1 <= Len(f))
      BY <3>2
    <3> QED BY <3>1, <3>2
  <2> HIDE DEF S
  <2> QED BY <2>1, <2>2, NatSet
<1>5. g[Len(f)] \in Outcome
  BY <1>1, <1>4
<1> QED BY <1>2, <1>5 DEF read_config_file, process_config, r

(* Two sizes in one byte, and taken out of it, are numbers.                *)
LEMMA PackedIsByte ==
  ASSUME NEW hi \in {1, 2, 4}, NEW lo \in Nat
  PROVE  Packed(hi, lo) \in Nat
<1> DEFINE over == (lo \div 16) % 16
<1>1. over \in Nat /\ lo % 16 \in Nat
  OBVIOUS
<1>2. Packed(hi, lo) = 16 * (IF (over \div hi) % 2 = 1 THEN over ELSE over + hi) + (lo % 16)
  BY DEF Packed
<1> HIDE DEF over
<1> DEFINE low == lo % 16
           odd == (over \div hi) % 2
<1> HIDE DEF low, odd
<1> QED BY <1>1, <1>2 DEF low, odd

(* Half a byte is a number.                                                *)
LEMMA NibblesAreNumbers ==
  ASSUME NEW b \in Nat
  PROVE  HighNibble(b) \in Nat /\ LowNibble(b) \in Nat
BY DEF HighNibble, LowNibble

(* What a build tells is a CONFIG_T.                                       *)
LEMMA ToldIsConfig ==
  ASSUME NEW c \in Builds
  PROVE  Told(c) \in Configs
<1> DEFINE r == RKH_TR_FWK_TCFG(c)
<1>1. Documented(c)
  BY BuildsAssumption
<1>2. /\ c.SIZEOF_EVT \div 8 \in {1, 2, 4} /\ c.SIZEOF_EVT_SIZE \div 8 \in {1, 2, 4}
      /\ c.SIZEOF_NELEM \div 8 \in {1, 2, 4} /\ c.SIZEOF_BSIZE \div 8 \in {1, 2, 4}
      /\ c.SIZEOF_NBLOCK \div 8 \in {1, 2, 4} /\ c.SIZEOF_NTIMER \div 8 \in {1, 2, 4}
      /\ c.SIZEOF_TSTAMP \div 8 \in {1, 2, 4} /\ c.SIZEOF_PTR \div 8 \in {1, 2, 4}
      /\ c.MAX_EVT_POOL \in Nat
  BY <1>1 DEF Documented, Documented_FWK, Documented_RQ, Documented_MP, Documented_TMR,
              Documented_PORT, Bits
<1>3. /\ r.evt_ts = Packed(c.SIZEOF_EVT \div 8, c.SIZEOF_TSTAMP \div 8)
      /\ r.ptr_nt = Packed(c.SIZEOF_PTR \div 8, c.SIZEOF_NTIMER \div 8)
      /\ r.nb_ne = Packed(c.SIZEOF_NBLOCK \div 8, c.SIZEOF_NELEM \div 8)
      /\ r.es = c.SIZEOF_EVT_SIZE \div 8
      /\ r.bs_epool = Packed(c.SIZEOF_BSIZE \div 8, c.MAX_EVT_POOL)
      /\ \A i \in 1 .. 18 : r.flags[i] \in Nat
  BY DEF RKH_TR_FWK_TCFG, FlagBits
<1> HIDE DEF r
<1>4. /\ r.evt_ts \in Nat /\ r.ptr_nt \in Nat /\ r.nb_ne \in Nat
      /\ r.es \in Nat /\ r.bs_epool \in Nat
  BY <1>2, <1>3, PackedIsByte
<1>5. \A b \in {r.evt_ts, r.ptr_nt, r.nb_ne, r.es, r.bs_epool} :
        HighNibble(b) \in Nat /\ LowNibble(b) \in Nat
  BY <1>4, NibblesAreNumbers
<1>6. h_tcfg(r) \in Configs
  BY <1>3, <1>5 DEF h_tcfg, Configs, configs_dft
<1> QED BY <1>6 DEF Told, r

(* What TypeOK says beyond the rest of the invariant.                      *)
Typed ==
  /\ file \in Files /\ trazer \in {"running", "refused"} /\ lost \in BOOLEAN
  /\ Len(runs) <= MaxRuns /\ Len(stream) <= MaxHeld + Len(runs)
  /\ configs \in Configs /\ line.run \in 0 .. Len(runs)

(* What is there at first is typed.                                        *)
LEMMA InitTyped == Init => Typed
<1> SUFFICES ASSUME Init PROVE Typed
  OBVIOUS
<1>1. read_config_file(file) \in Outcome /\ configs = read_config_file(file).configs
  <2>1. file \in Files /\ configs = read_config_file(file).configs
    BY DEF Init
  <2> QED BY <2>1, FileRead
<1>2. configs \in Configs
  BY <1>1 DEF Outcome
<1>3. Len(runs) = 0 /\ Len(stream) = 0 /\ line.run = 0
  BY EmptySeq DEF Init, NoLine
<1>4. file \in Files /\ trazer \in {"running", "refused"}
  BY DEF Init
<1>5. lost \in BOOLEAN
  BY Zenon DEF Init
<1> QED BY <1>2, <1>3, <1>4, <1>5, BoundsAssumption DEF Typed

(* It stays so.                                                            *)
LEMMA NextTyped == IInv /\ Typed /\ [Next]_vars => Typed'
<1> SUFFICES ASSUME IInv, Typed, [Next]_vars PROVE Typed'
  OBVIOUS
<1> USE BoundsAssumption
<1>1. /\ Len(runs) \in Nat /\ Len(stream) \in Nat /\ line.run \in 0 .. Len(runs)
      /\ Len(runs) <= MaxRuns /\ Len(stream) <= MaxHeld + Len(runs)
      /\ file \in Files /\ trazer \in {"running", "refused"} /\ lost \in BOOLEAN
      /\ configs \in Configs /\ NoLine.run = 0
  BY LenProperties DEF Typed, IInv, Shape, NoLine
<1>2. ASSUME NEW c \in Builds, Start(c) PROVE Typed'
  <2>1. Len(Append(runs, c)) = Len(runs) + 1
    BY AppendProperties DEF IInv, Shape
  <2>2. \A r : Len(Append(stream, r)) = Len(stream) + 1
    BY Appended DEF IInv, Shape
  <2>3. /\ Len(runs) < MaxRuns /\ runs' = Append(runs, c) /\ line' = NoLine
        /\ stream' = stream \/ \E r : stream' = Append(stream, r)
        /\ UNCHANGED <<file, trazer, configs, lost>>
    BY <1>2 DEF Start
  <2> QED BY <1>1, <2>1, <2>2, <2>3 DEF Typed
<1>3. ASSUME NEW r, Send(r) PROVE Typed'
  <2>1. Len(Append(stream, r)) = Len(stream) + 1
    BY Appended DEF IInv, Shape
  <2>2. Len(stream) < MaxHeld /\ stream' = Append(stream, r) /\ line' = NoLine
        /\ UNCHANGED <<file, runs, trazer, configs, lost>>
    BY <1>3 DEF Send
  <2> QED BY <1>1, <2>1, <2>2 DEF Typed
<1>4. ASSUME stream # <<>>, stream' = Tail(stream),
             UNCHANGED <<file, runs, trazer>>, lost' \in BOOLEAN,
             configs' \in Configs, line'.run \in 0 .. Len(runs)
      PROVE  Typed'
  <2>1. Len(Tail(stream)) = Len(stream) - 1
    BY <1>4, Shifted DEF IInv, Shape
  <2> QED BY <1>1, <1>4, <2>1 DEF Typed
<1>5. CASE Lose
  BY <1>1, <1>4, <1>5 DEF Lose
<1>6. CASE stream # <<>>
  <2> DEFINE r == Head(stream)
  <2>1. r.run \in 1 .. Len(runs) /\ Build(r) \in Builds
    <3>1. r = stream[1] /\ 1 \in 1 .. Len(stream)
      BY <1>6, Shifted DEF IInv, Shape
    <3>2. r.run \in 1 .. Len(runs) /\ runs \in Seq(Builds)
      BY <3>1 DEF IInv, Shape
    <3> QED BY <3>2 DEF Build
  <2>2. Told(Build(r)) \in Configs
    BY <2>1, ToldIsConfig
  <2> HIDE DEF r
  <2>3. Take(r) => stream' = Tail(stream) /\ UNCHANGED <<file, runs, trazer, lost>>
    BY DEF Take
  <2>4. ASSUME Hear(r) PROVE Typed'
    BY <1>1, <1>4, <1>6, <2>2, <2>3, <2>4 DEF Hear
  <2>5. ASSUME Show(r) PROVE Typed'
    <3>1. line'.run = r.run /\ Take(r) /\ configs' = configs
      BY <2>5 DEF Show
    <3> QED BY <1>1, <1>4, <1>6, <2>1, <2>3, <3>1
  <2>6. ASSUME Refuse(r) PROVE Typed'
    BY <1>1, <1>4, <1>6, <2>3, <2>6 DEF Refuse
  <2>7. Hear(r) \/ Show(r) \/ Refuse(r) => Typed'
    BY <2>4, <2>5, <2>6
  <2> QED BY <2>7, <1>2, <1>3, <1>5, <1>1 DEF Next, r, Trace, TraceUser, vars, Typed
<1>7. CASE stream = <<>>
  BY <1>7, <1>2, <1>3, <1>5, <1>1 DEF Next, Trace, TraceUser, vars, Typed
<1> QED BY <1>6, <1>7

(* CONFIG_T always holds numbers, those of the file, of a build or the     *)
(* defaults, and what is in flight stays within its bound.                 *)
THEOREM TypeCorrect == Spec => []TypeOK
<1>1. IInv /\ Typed => TypeOK
  <2> SUFFICES ASSUME IInv, Typed PROVE TypeOK
    OBVIOUS
  <2>1. /\ runs \in Seq(Builds) /\ Len(runs) \in Nat /\ DOMAIN runs = 1 .. Len(runs)
        /\ stream \in Seq(Range(stream)) /\ Len(stream) \in Nat
        /\ DOMAIN stream = 1 .. Len(stream)
    BY LenProperties DEF IInv, Shape
  <2>2. \A i \in DOMAIN runs : runs[i] \in Builds
    BY <2>1
  <2> QED BY <2>1, <2>2, BoundsAssumption DEF IInv, Shape, Typed, TypeOK, Configs
<1> QED BY <1>1, Invariance, InitTyped, NextTyped, PTL DEF Spec
-----------------------------------------------------------------------------
(* Layouts are sequences.                                                  *)
IsLayout(s) == s \in Seq(Range(s))

(* Any sequence is one over its own elements.                              *)
LEMMA IsLayoutOf ==
  ASSUME NEW S, NEW s \in Seq(S)
  PROVE  IsLayout(s)
BY OfRange DEF IsLayout

(* A field is a layout.                                                    *)
LEMMA FieldIsLayout == \A name, width : IsLayout(Field(name, width))
<1> SUFFICES ASSUME NEW name, NEW width PROVE IsLayout(Field(name, width))
  OBVIOUS
<1> DEFINE field == <<name, width>>
<1>1. <<field>> \in Seq({field})
  <2> HIDE DEF field
  <2> QED OBVIOUS
<1>2. Field(name, width) = <<field>>
  BY DEF Field
<1> QED BY <1>1, <1>2, IsLayoutOf

(* Fields are told apart by their labels and widths.                       *)
LEMMA FieldsDiffer == \A a, b, v, w : Field(a, v) = Field(b, w) <=> a = b /\ v = w
BY DEF Field

(* Sequences of fields form a free monoid.                                 *)
Three(s, t, u) == IsLayout(s) /\ IsLayout(t) /\ IsLayout(u)

Five(p, w, x, y, z) == Three(p, w, x) /\ IsLayout(y) /\ IsLayout(z)

(* Three layouts are sequences over one set.                               *)
LEMMA InOneSet ==
  ASSUME NEW s, NEW t, NEW u, IsLayout(s), IsLayout(t), IsLayout(u)
  PROVE  \E S : s \in Seq(S) /\ t \in Seq(S) /\ u \in Seq(S)
<1> DEFINE S == Range(s) \cup Range(t) \cup Range(u)
<1>1. s \in Seq(S) /\ t \in Seq(S) /\ u \in Seq(S)
  BY SeqMonotonic DEF IsLayout
<1> QED BY <1>1, Zenon

(* Joining layouts is associative.                                         *)
LEMMA Associates ==
  ASSUME NEW s, NEW t, NEW u, Three(s, t, u)
  PROVE  (s \o t) \o u = s \o (t \o u)
<1>1. PICK S : s \in Seq(S) /\ t \in Seq(S) /\ u \in Seq(S)
  BY InOneSet DEF Three
<1> QED BY <1>1, ConcatAssociative

(* What is joined is a layout, and the empty one changes nothing.          *)
LEMMA Joins ==
  /\ IsLayout(<<>>)
  /\ \A s, t : IsLayout(s) /\ IsLayout(t) => IsLayout(s \o t)
  /\ \A s : IsLayout(s) => s \o <<>> = s /\ <<>> \o s = s
<1>1. IsLayout(<<>>)
  BY EmptySeq, IsLayoutOf
<1>2. ASSUME NEW s, NEW t, IsLayout(s), IsLayout(t) PROVE IsLayout(s \o t)
  <2>1. PICK S : s \in Seq(S) /\ t \in Seq(S)
    BY <1>2, InOneSet, Zenon
  <2>2. s \o t \in Seq(S)
    BY <2>1, ConcatProperties
  <2> QED BY <2>2, IsLayoutOf
<1>3. ASSUME NEW s, IsLayout(s) PROVE s \o <<>> = s /\ <<>> \o s = s
  BY <1>3, ConcatEmptySeq DEF IsLayout
<1> QED BY <1>1, <1>2, <1>3

(* Layouts that begin or end alike differ in the rest.                     *)
LEMMA Cancels ==
  ASSUME NEW s, NEW t, NEW u, Three(s, t, u)
  PROVE  /\ s \o t = s \o u <=> t = u
         /\ s \o u = t \o u <=> s = t
<1>1. PICK S : s \in Seq(S) /\ t \in Seq(S) /\ u \in Seq(S)
  BY InOneSet DEF Three
<1> QED BY <1>1, ConcatSimplifications

(* The number of fields.                                                   *)
LEMMA Lengths ==
  /\ \A s, t : IsLayout(s) /\ IsLayout(t) => Len(s \o t) = Len(s) + Len(t)
  /\ \A s : IsLayout(s) => Len(s) \in Nat
  /\ \A name, width : Len(Field(name, width)) = 1
  /\ Len(<<>>) = 0
<1>1. ASSUME NEW s, NEW t, IsLayout(s), IsLayout(t) PROVE Len(s \o t) = Len(s) + Len(t)
  <2>1. PICK S : s \in Seq(S) /\ t \in Seq(S)
    BY <1>1, InOneSet, Zenon
  <2> QED BY <2>1, ConcatProperties
<1>2. \A name, width : Len(Field(name, width)) = 1
  BY DEF Field
<1> QED BY <1>1, <1>2, LenProperties DEF IsLayout

(* What Trazer holds is what the build is made with.                       *)
Understood(d, c) ==
  /\ d.sizeof_sig = c.SIZEOF_EVT \div 8 /\ d.sizeof_tstamp = c.SIZEOF_TSTAMP \div 8
  /\ d.sizeof_pointer = c.SIZEOF_PTR \div 8 /\ d.sizeof_ntimer = c.SIZEOF_NTIMER \div 8
  /\ d.sizeof_nblock = c.SIZEOF_NBLOCK \div 8 /\ d.sizeof_nelem = c.SIZEOF_NELEM \div 8
  /\ d.sizeof_esize = c.SIZEOF_EVT_SIZE \div 8
  /\ d.en_sender = 1 <=> On(c, "SMA_TRC_SNDR")
  /\ d.rq_en_get_lwmark = 1 <=> On(c, "RQ_GET_LWMARK")
  /\ d.mp_en_get_lwm = 1 <=> On(c, "MP_GET_LWM")
  /\ d.en_nseq = 1 <=> On(c, "NSEQ")
  /\ d.en_tstamp = 1 <=> On(c, "TSTAMP")

(* A size in bits, as the build's macros and Trazer's handlers take it.    *)
LEMMA Sizes ==
  ASSUME NEW bits \in Bits, NEW name
  PROVE  /\ bits \div 8 \in {1, 2, 4}
         /\ Wide(name, bits) = Field(name, bits \div 8)
         /\ sizeof_type(bits \div 8) = bits \div 8
         /\ bits # 8 => Address(name, bits) = Field(name, bits \div 8)
<1> DEFINE bytes == bits \div 8
<1>1. (bits = 8 /\ bytes = 1) \/ (bits = 16 /\ bytes = 2) \/ (bits = 32 /\ bytes = 4)
  BY DEF Bits
<1> HIDE DEF bytes
<1>2. bytes \in {1, 2, 4} /\ sizeof_type(bytes) = bytes
  BY <1>1 DEF sizeof_type
<1>3. Wide(name, bits) = Field(name, bytes)
  BY <1>1 DEF Wide, U8, U16, U32
<1>4. bits # 8 => Address(name, bits) = Field(name, bytes)
  BY <1>1 DEF Address, U16, U32
<1> QED BY <1>2, <1>3, <1>4 DEF bytes

(* What is read under a name is as wide as what was written.               *)
SameWidths(d, c) ==
  \A name :
    /\ RKH_TRC_SYM(c, name) = Field(name, d.sizeof_pointer)
    /\ RKH_TRC_SIG(c, name) = Field(name, sizeof_type(d.sizeof_sig))
    /\ RKH_TRC_NTICK(c, name) = Field(name, sizeof_type(d.sizeof_ntimer))
    /\ RKH_TRC_NBLK(c, name) = Field(name, sizeof_type(d.sizeof_nblock))
    /\ RKH_TRC_NBLK(c, name) = Field(name, d.sizeof_nblock)
    /\ RKH_TRC_NE(c, name) = Field(name, sizeof_type(d.sizeof_nelem))
    /\ RKH_TRC_ES(c, name) = Field(name, sizeof_type(d.sizeof_esize))
    /\ RKH_TRC_BSIZE(c, name) = Field(name, c.SIZEOF_BSIZE \div 8)
    /\ RKH_TRC_FUN(c, name) = Field(name, c.SIZEOF_FUN_PTR \div 8)

(* All of them are layouts.                                                *)
FieldsOf(c) ==
  \A name :
    /\ IsLayout(RKH_TRC_SYM(c, name)) /\ IsLayout(RKH_TRC_SIG(c, name))
    /\ IsLayout(RKH_TRC_NTICK(c, name)) /\ IsLayout(RKH_TRC_NBLK(c, name))
    /\ IsLayout(RKH_TRC_NE(c, name)) /\ IsLayout(RKH_TRC_ES(c, name))
    /\ IsLayout(RKH_TRC_BSIZE(c, name)) /\ IsLayout(RKH_TRC_FUN(c, name))
    /\ \A width : IsLayout(Field(name, width))

(* Trazer takes every size as the build has it.                            *)
LEMMA WidthsAgree ==
  ASSUME NEW c, Documented(c), NEW d, Understood(d, c)
  PROVE  SameWidths(d, c) /\ FieldsOf(c)
<1>1. /\ c.SIZEOF_EVT \in Bits /\ c.SIZEOF_EVT_SIZE \in Bits
      /\ c.SIZEOF_NELEM \in Bits /\ c.SIZEOF_BSIZE \in Bits /\ c.SIZEOF_NBLOCK \in Bits
      /\ c.SIZEOF_NTIMER \in Bits /\ c.SIZEOF_PTR \in Bits /\ c.SIZEOF_FUN_PTR \in Bits
      /\ c.SIZEOF_PTR # 8 /\ c.SIZEOF_FUN_PTR # 8
  BY DEF Documented, Documented_FWK, Documented_RQ, Documented_MP, Documented_TMR,
         Documented_PORT, Bits
<1>2. SameWidths(d, c)
  BY <1>1, Sizes DEF Understood, SameWidths, RKH_TRC_SYM, RKH_TRC_SIG, RKH_TRC_NTICK,
     RKH_TRC_NBLK, RKH_TRC_NE, RKH_TRC_ES, RKH_TRC_BSIZE, RKH_TRC_FUN
<1> QED BY <1>2, FieldIsLayout DEF SameWidths, FieldsOf

(* Fields of different sizes differ.                                       *)
LEMMA SizesDiffer ==
  ASSUME NEW name, NEW x \in Bits, NEW y \in Bits
  PROVE  /\ Wide(name, x) = Wide(name, y) <=> x = y
         /\ x # 8 /\ y # 8 => (Address(name, x) = Address(name, y) <=> x = y)
         /\ Wide(name, x) = U8(name) <=> x = 8
<1>1. x \div 8 = y \div 8 <=> x = y
  BY DEF Bits
<1>2. x \div 8 = 1 <=> x = 8
  BY DEF Bits
<1>3. /\ Wide(name, x) = Field(name, x \div 8) /\ Wide(name, y) = Field(name, y \div 8)
      /\ x # 8 => Address(name, x) = Field(name, x \div 8)
      /\ y # 8 => Address(name, y) = Field(name, y \div 8)
  BY Sizes
<1> QED BY <1>1, <1>2, <1>3, FieldsDiffer DEF U8

(* Fields as they are read, one by one, and as they are written, in        *)
(* groups.                                                                 *)
LEMMA Flattened ==
  ASSUME NEW p, NEW w, NEW x, NEW y, NEW z, Five(p, w, x, y, z)
  PROVE  /\ p \o (w \o x) = p \o w \o x
         /\ p \o (w \o x \o y) = p \o w \o x \o y
         /\ p \o (w \o x \o y \o z) = p \o w \o x \o y \o z
<1>1. (p \o w) \o x = p \o (w \o x)
  <2>1. Three(p, w, x)
    BY DEF Five
  <2> QED BY <2>1, Associates
<1>2. PICK wx : wx = w \o x
  OBVIOUS
<1>3. Three(p, wx, y)
  BY <1>2, Joins DEF Three, Five
<1>4. (p \o wx) \o y = p \o (wx \o y)
  BY <1>3, Associates
<1>5. PICK wxy : wxy = wx \o y
  OBVIOUS
<1>6. Three(p, wxy, z)
  BY <1>3, <1>5, Joins DEF Three, Five
<1>7. (p \o wxy) \o z = p \o (wxy \o z)
  BY <1>6, Associates
<1> QED BY <1>1, <1>2, <1>4, <1>5, <1>7

(* The label that comes first can be seen.                                 *)
StartsWith(all, name, width) == \E s : IsLayout(s) /\ all = Field(name, width) \o s

(* A layout has one first field.                                           *)
LEMMA FirstLabel ==
  ASSUME NEW all, NEW a, NEW b, NEW v, NEW w, StartsWith(all, a, v), StartsWith(all, b, w)
  PROVE  a = b /\ v = w
<1>1. ASSUME NEW name, NEW width, NEW rest, IsLayout(rest)
      PROVE  (Field(name, width) \o rest)[1] = <<name, width>>
  <2> DEFINE f == Field(name, width)
  <2>1. IsLayout(f) /\ Len(f) = 1 /\ f[1] = <<name, width>>
    BY FieldIsLayout, Lengths DEF Field
  <2> HIDE DEF f
  <2>2. PICK S : f \in Seq(S) /\ rest \in Seq(S)
    BY <1>1, <2>1, InOneSet, Zenon
  <2>3. (f \o rest)[1] = f[1]
    <3>1. Len(rest) \in Nat
      BY <2>2, LenProperties
    <3> QED BY <2>1, <2>2, <3>1, ConcatProperties
  <2> QED BY <2>1, <2>3 DEF f
<1>2. all[1] = <<a, v>> /\ all[1] = <<b, w>>
  BY <1>1 DEF StartsWith
<1> QED BY <1>2
-----------------------------------------------------------------------------
(* Which records are misread, and to which something is added.             *)
LEMMA MisreadAre ==
  ASSUME NEW c, NEW g, NEW e
  PROVE  <<g, e>> \in Misread(c) <=>
           \/ g = "MP" /\ e = "INIT" /\ c.SIZEOF_BSIZE # c.SIZEOF_NBLOCK
           \/ g = "SMA" /\ e = "ACT" /\ c.SIZEOF_NELEM # 8
           \/ g = "FWK" /\ e = "EPREG" /\ SizeofLong # 4
           \/ g = "FWK" /\ e = "TUSR" /\ c.SIZEOF_EVT # 8
           \/ /\ (g = "SM" /\ e = "EXE_ACT") \/ (g = "FWK" /\ e \in {"EXE_FUN", "SYNC_EVT"})
              /\ c.SIZEOF_FUN_PTR # c.SIZEOF_PTR
           \/ g = "FWK" /\ e = "SYNC_EVT" /\ ~On(c, "SMA_TRC_SNDR")
           \/ g = "FWK" /\ e \in {"AE", "GCR"} /\ ~On(c, "MP_GET_LWM")
           \/ g = "SMA" /\ e \in {"GET", "FIFO", "LIFO"} /\ ~On(c, "RQ_GET_LWMARK")
<1>1. \A x, y : <<g, e>> = <<x, y>> <=> g = x /\ e = y
  OBVIOUS
<1> DEFINE id == <<g, e>>
<1> HIDE DEF id
<1>2. \A x, y : id = <<x, y>> <=> g = x /\ e = y
  BY <1>1 DEF id
<1>3. \A condition, ids : id \in Where(condition, ids) <=> condition /\ id \in ids
  BY DEF Where
<1>4. id \in Misread(c) <=>
        \/ id \in {<<"MP", "INIT">>} /\ c.SIZEOF_BSIZE # c.SIZEOF_NBLOCK
        \/ id \in {<<"SMA", "ACT">>} /\ c.SIZEOF_NELEM # 8
        \/ id \in {<<"FWK", "EPREG">>} /\ SizeofLong # 4
        \/ id \in {<<"FWK", "TUSR">>} /\ c.SIZEOF_EVT # 8
        \/ /\ id \in {<<"SM", "EXE_ACT">>, <<"FWK", "EXE_FUN">>, <<"FWK", "SYNC_EVT">>}
           /\ c.SIZEOF_FUN_PTR # c.SIZEOF_PTR
        \/ id \in {<<"FWK", "SYNC_EVT">>} /\ ~On(c, "SMA_TRC_SNDR")
        \/ id \in {<<"FWK", "AE">>, <<"FWK", "GCR">>} /\ ~On(c, "MP_GET_LWM")
        \/ /\ id \in {<<"SMA", "GET">>, <<"SMA", "FIFO">>, <<"SMA", "LIFO">>}
           /\ ~On(c, "RQ_GET_LWMARK")
  <2>1. id \in Misread(c) <=>
          \/ id \in Where(c.SIZEOF_BSIZE # c.SIZEOF_NBLOCK, {<<"MP", "INIT">>})
          \/ id \in Where(c.SIZEOF_NELEM # 8, {<<"SMA", "ACT">>})
          \/ id \in Where(SizeofLong # 4, {<<"FWK", "EPREG">>})
          \/ id \in Where(c.SIZEOF_EVT # 8, {<<"FWK", "TUSR">>})
          \/ id \in Where(c.SIZEOF_FUN_PTR # c.SIZEOF_PTR,
                {<<"SM", "EXE_ACT">>, <<"FWK", "EXE_FUN">>, <<"FWK", "SYNC_EVT">>})
          \/ id \in Where(~On(c, "SMA_TRC_SNDR"), {<<"FWK", "SYNC_EVT">>})
          \/ id \in Where(~On(c, "MP_GET_LWM"), {<<"FWK", "AE">>, <<"FWK", "GCR">>})
          \/ id \in Where(~On(c, "RQ_GET_LWMARK"),
                {<<"SMA", "GET">>, <<"SMA", "FIFO">>, <<"SMA", "LIFO">>})
    BY Zenon DEF Misread
  <2> QED BY <1>3, <2>1, Zenon
<1>5. /\ id \in {<<"MP", "INIT">>} <=> g = "MP" /\ e = "INIT"
      /\ id \in {<<"SMA", "ACT">>} <=> g = "SMA" /\ e = "ACT"
      /\ id \in {<<"FWK", "EPREG">>} <=> g = "FWK" /\ e = "EPREG"
      /\ id \in {<<"FWK", "TUSR">>} <=> g = "FWK" /\ e = "TUSR"
      /\ id \in {<<"SM", "EXE_ACT">>, <<"FWK", "EXE_FUN">>, <<"FWK", "SYNC_EVT">>}
           <=> (g = "SM" /\ e = "EXE_ACT") \/ (g = "FWK" /\ e \in {"EXE_FUN", "SYNC_EVT"})
      /\ id \in {<<"FWK", "SYNC_EVT">>} <=> g = "FWK" /\ e = "SYNC_EVT"
      /\ id \in {<<"FWK", "AE">>, <<"FWK", "GCR">>} <=> g = "FWK" /\ e \in {"AE", "GCR"}
      /\ id \in {<<"SMA", "GET">>, <<"SMA", "FIFO">>, <<"SMA", "LIFO">>}
           <=> g = "SMA" /\ e \in {"GET", "FIFO", "LIFO"}
  BY <1>2
<1> QED BY <1>4, <1>5 DEF id

(* Nothing is added but to gets and posts.                                 *)
LEMMA AddedAre ==
  ASSUME NEW g, NEW e
  PROVE  /\ IsLayout(Added(<<g, e>>))
         /\ g # "SMA" \/ e \notin {"GET", "FIFO", "LIFO"} => Added(<<g, e>>) = <<>>
         /\ g = "SMA" /\ e \in {"FIFO", "LIFO"} => Added(<<g, e>>) = Field("nseq", Computed.nseq)
         /\ g = "SMA" /\ e = "GET" =>
              Added(<<g, e>>) = Field("rt", Computed.rt) \o Field("nseq", Computed.nseq)
<1> DEFINE id == <<g, e>>
<1>1. /\ id = <<"SMA", "GET">> <=> g = "SMA" /\ e = "GET"
      /\ id \in {<<"SMA", "GET">>, <<"SMA", "FIFO">>, <<"SMA", "LIFO">>}
           <=> g = "SMA" /\ e \in {"GET", "FIFO", "LIFO"}
  OBVIOUS
<1> HIDE DEF id
<1>3. IsLayout(Field("rt", Computed.rt)) /\ IsLayout(Field("nseq", Computed.nseq))
  BY FieldIsLayout
<1>4. /\ Added(id) = (IF id = <<"SMA", "GET">> THEN Field("rt", Computed.rt) ELSE <<>>)
                     \o (IF id \in {<<"SMA", "GET">>, <<"SMA", "FIFO">>, <<"SMA", "LIFO">>}
                         THEN Field("nseq", Computed.nseq) ELSE <<>>)
  BY Zenon DEF Added, If
<1> DEFINE rt == Field("rt", Computed.rt)
           nseq == Field("nseq", Computed.nseq)
           posts == {<<"SMA", "GET">>, <<"SMA", "FIFO">>, <<"SMA", "LIFO">>}
           get == <<"SMA", "GET">>
<1>5. Added(id) = (IF id = get THEN rt ELSE <<>>) \o (IF id \in posts THEN nseq ELSE <<>>)
  BY <1>4
<1>6. id = get => id \in posts
  OBVIOUS
<1> HIDE DEF rt, nseq, posts, get
<1>7. IsLayout(rt) /\ IsLayout(nseq)
  BY <1>3 DEF rt, nseq
<1>8. /\ id \notin posts => Added(id) = <<>>
      /\ id \in posts /\ id # get => Added(id) = nseq
      /\ id = get => Added(id) = rt \o nseq
  BY <1>5, <1>6, <1>7, Joins
<1>9. IsLayout(Added(id))
  BY <1>6, <1>7, <1>8, Joins
<1>10. /\ id = get <=> g = "SMA" /\ e = "GET"
       /\ id \in posts <=> g = "SMA" /\ e \in {"GET", "FIFO", "LIFO"}
  BY <1>1 DEF posts, get
<1> QED BY <1>8, <1>9, <1>10 DEF id, rt, nseq

(* The record is shown as it was written, unless it is known to be misread. *)
Rightly(d, c, g, e, layout) ==
  /\ IsLayout(layout) /\ IsLayout(Reads(d)[g][e])
  /\ Reads(d)[g][e] = layout \o Added(<<g, e>>) <=> <<g, e>> \notin Misread(c)

(* A record to which nothing is added.                                     *)
LEMMA UnaddedIsRight ==
  ASSUME NEW d, NEW c, NEW g, NEW e, NEW layout, NEW reads,
         IsLayout(layout), IsLayout(reads), Reads(d)[g][e] = reads,
         g # "SMA" \/ e \notin {"GET", "FIFO", "LIFO"},
         reads = layout <=> <<g, e>> \notin Misread(c)
  PROVE  Rightly(d, c, g, e, layout)
<1>1. Added(<<g, e>>) = <<>>
  BY AddedAre
<1>2. layout \o <<>> = layout
  BY Joins
<1> DEFINE id == <<g, e>>
<1> HIDE DEF id
<1>3. layout \o Added(id) = layout
  BY <1>1, <1>2 DEF id
<1> QED BY <1>3, Zenon DEF Rightly, id

(* One that is read with the very fields it was written with.              *)
LEMMA SameIsRight ==
  ASSUME NEW d, NEW c, NEW g, NEW e, NEW layout, IsLayout(layout), Reads(d)[g][e] = layout,
         g # "SMA" \/ e \notin {"GET", "FIFO", "LIFO"}, <<g, e>> \notin Misread(c)
  PROVE  Rightly(d, c, g, e, layout)
BY UnaddedIsRight, Zenon
-----------------------------------------------------------------------------
(* All records of a table are.                                             *)
RightTable(d, c, g, table) == \A e \in DOMAIN table : Rightly(d, c, g, e, table[e])

(* A group that is not compiled in has no records.                         *)
LEMMA EmptyRight == ASSUME NEW d, NEW c, NEW g PROVE RightTable(d, c, g, <<>>)
BY DEF RightTable

(* Options only leave records out.                                         *)
LEMMA GroupRight ==
  ASSUME NEW d, NEW c, NEW g, NEW records, RightTable(d, c, g, records), NEW option
  PROVE  /\ RightTable(d, c, g, Group(c, option, records))
         /\ \A own : RightTable(d, c, g, SmRecord(c, own, records))
<1>1. RightTable(d, c, g, Group(c, option, records)) /\ RightTable(d, c, g, Group(c, "SM", records))
  BY EmptyRight DEF Group
<1> QED BY <1>1, EmptyRight DEF SmRecord

(* Two tables as one.                                                      *)
LEMMA MergedRight ==
  ASSUME NEW d, NEW c, NEW g, NEW t, NEW u, RightTable(d, c, g, t), RightTable(d, c, g, u)
  PROVE  RightTable(d, c, g, t ++ u)
<1>1. ASSUME NEW e \in DOMAIN (t ++ u)
      PROVE  (e \in DOMAIN t /\ (t ++ u)[e] = t[e]) \/ (e \in DOMAIN u /\ (t ++ u)[e] = u[e])
  BY DEF ++
<1> HIDE DEF ++
<1> QED BY <1>1 DEF RightTable

(* If all of them are read as they are written.                            *)
LEMMA SameRight ==
  ASSUME NEW d, NEW c, NEW g, NEW records,
         \A e \in DOMAIN records :
           /\ IsLayout(records[e]) /\ Reads(d)[g][e] = records[e]
           /\ g # "SMA" \/ e \notin {"GET", "FIFO", "LIFO"}
           /\ <<g, e>> \notin Misread(c)
  PROVE  RightTable(d, c, g, records)
BY SameIsRight DEF RightTable

(* The records of the queues.                                              *)
LEMMA ReadsRQ ==
  ASSUME NEW c, NEW d, SameWidths(d, c), FieldsOf(c), Understood(d, c)
  PROVE  RightTable(d, c, "RQ", RKH_TR_RQ(c))
<1> DEFINE q    == SYM(c, "q")
           init == q \o AO(c) \o RKH_TRC_NE(c, "nelem")
           get  == q \o RKH_TRC_NE(c, "nelem")
           put  == q \o RKH_TRC_NE(c, "nelem") \o RKH_TRC_RQ_NMIN(c)
           records == [INIT |-> init, GET  |-> get, FIFO |-> put, LIFO |-> put,
                       FULL |-> q, DPT |-> q, GET_LAST |-> q]
<1>1. tg_rq_tbl(d) = records
  BY DEF SameWidths, Understood, tg_rq_tbl, h_2symnused, h_symnused, h_rq_ffll, h_1sym,
     Ptr, Trzne, SYM, AO, RKH_TRC_RQ_NMIN, If
<1>2. IsLayout(q) /\ IsLayout(init) /\ IsLayout(get) /\ IsLayout(put)
  BY Joins DEF FieldsOf, SYM, AO, RKH_TRC_RQ_NMIN, If
<1>3. Reads(d)["RQ"] = tg_rq_tbl(d)
  BY DEF Reads
<1>4. RKH_TR_RQ(c) = Group(c, "RQ", records)
  BY DEF RKH_TR_RQ
<1> HIDE DEF q, init, get, put
<1>5. \A r \in DOMAIN records : IsLayout(records[r])
  BY <1>2
<1> HIDE DEF records
<1>6. \A e : <<"RQ", e>> \notin Misread(c)
  BY MisreadAre
<1>7. RightTable(d, c, "RQ", records)
  BY <1>1, <1>3, <1>5, <1>6, SameRight
<1> QED BY <1>4, <1>7, GroupRight

(* The records of the timers: the two numbers of ticks are written         *)
(* together.                                                               *)
LEMMA ReadsTMR ==
  ASSUME NEW c, NEW d, SameWidths(d, c), FieldsOf(c), Understood(d, c)
  PROVE  RightTable(d, c, "TIM", RKH_TR_TMR(c))
<1> DEFINE t     == SYM(c, "t")
           ticks == RKH_TRC_NTICK(c, "ntick") \o RKH_TRC_NTICK(c, "per")
           init  == t \o RKH_TRC_SIG(c, "sig")
           start == t \o AO(c) \o ticks
           stop  == t \o ticks
           tout  == t \o RKH_TRC_SIG(c, "sig") \o AO(c)
           records == [INIT |-> init, START |-> start, STOP |-> stop, TOUT |-> tout, REM |-> t]
<1>1. tg_tmr_tbl(d) = records
  <2>1. /\ h_tinit(d, <<"t", "sig">>) = init
        /\ h_tout(d, <<"t", "sig", "ao">>) = tout
        /\ h_1sym(d, <<"t">>) = t
    BY DEF SameWidths, h_tinit, h_tout, h_1sym, Ptr, Trze, SYM, AO
  <2> DEFINE n == RKH_TRC_NTICK(c, "ntick")
             p == RKH_TRC_NTICK(c, "per")
             a == AO(c)
  <2>2. /\ h_tstart(d, <<"t", "ao", "ntick", "per">>) = t \o a \o n \o p
        /\ h_tstop(d, <<"t", "ntick", "per">>) = t \o n \o p
    BY DEF SameWidths, h_tstart, h_tstop, Ptr, Trznt, SYM, AO
  <2>3. IsLayout(t) /\ IsLayout(a) /\ IsLayout(n) /\ IsLayout(p) /\ ticks = n \o p
    BY DEF FieldsOf, SYM, AO
  <2> HIDE DEF t, n, p, a
  <2>4. (t \o a \o n) \o p = (t \o a) \o (n \o p) /\ (t \o n) \o p = t \o (n \o p)
    <3> DEFINE ta == t \o a
    <3>1. IsLayout(ta)
      BY <2>3, Joins
    <3> HIDE DEF ta
    <3>2. (ta \o n) \o p = ta \o (n \o p)
      BY <2>3, <3>1, Associates DEF Three
    <3>3. (t \o n) \o p = t \o (n \o p)
      BY <2>3, Associates DEF Three
    <3> QED BY <3>2, <3>3 DEF ta
  <2>5. /\ h_tstart(d, <<"t", "ao", "ntick", "per">>) = start
        /\ h_tstop(d, <<"t", "ntick", "per">>) = stop
    BY <2>2, <2>3, <2>4 DEF a
  <2> HIDE DEF init, start, stop, tout
  <2> QED BY <2>1, <2>5 DEF tg_tmr_tbl
<1>2. IsLayout(t) /\ IsLayout(init) /\ IsLayout(start) /\ IsLayout(stop) /\ IsLayout(tout)
  BY Joins DEF FieldsOf, SYM, AO
<1>3. Reads(d)["TIM"] = tg_tmr_tbl(d)
  BY DEF Reads
<1>4. RKH_TR_TMR(c) = Group(c, "TMR", records)
  BY DEF RKH_TR_TMR
<1> HIDE DEF t, init, start, stop, tout
<1>5. \A r \in DOMAIN records : IsLayout(records[r])
  BY <1>2
<1> HIDE DEF records
<1>6. \A e : <<"TIM", e>> \notin Misread(c)
  BY MisreadAre
<1>7. RightTable(d, c, "TIM", records)
  BY <1>1, <1>3, <1>5, <1>6, SameRight
<1> QED BY <1>4, <1>7, GroupRight

(* The records of the pools: the size of a block is read with the width of *)
(* their number.                                                           *)
LEMMA ReadsMP ==
  ASSUME NEW c, Documented(c), NEW d, SameWidths(d, c), FieldsOf(c), Understood(d, c)
  PROVE  RightTable(d, c, "MP", RKH_TR_MP(c))
<1> DEFINE first == SYM(c, "mp") \o RKH_TRC_NBLK(c, "nblock")
           x     == RKH_TRC_NBLK(c, "bsize")
           y     == RKH_TRC_BSIZE(c, "bsize")
           init  == first \o y
           get   == SYM(c, "mp") \o RKH_TRC_NBLK(c, "nfree") \o RKH_TRC_MP_NMIN(c)
           put   == SYM(c, "mp") \o RKH_TRC_NBLK(c, "nfree")
           records == [INIT |-> init, GET |-> get, PUT |-> put]
<1>1. /\ Reads(d)["MP"]["INIT"] = first \o x
      /\ Reads(d)["MP"]["GET"] = get
      /\ Reads(d)["MP"]["PUT"] = put
  <2>1. /\ h_mp_init(d, <<"mp", "nblock", "bsize">>) = first \o x
        /\ h_symnblk(d, <<"mp", "nfree">>) = put
    BY DEF SameWidths, h_mp_init, h_symnblk, Ptr, Trznb, SYM
  <2>2. h_mp_get(d, <<"mp", "nfree", "nmin">>) = get
    BY DEF SameWidths, Understood, RKH_TRC_MP_NMIN, h_mp_get, Ptr, Trznb, If, SYM
  <2> HIDE DEF first, x, init, get, put
  <2> QED BY <2>1, <2>2 DEF Reads, tg_mp_tbl
<1>2. /\ IsLayout(first) /\ IsLayout(x) /\ IsLayout(y) /\ IsLayout(get) /\ IsLayout(put)
      /\ IsLayout(init)
  BY Joins DEF FieldsOf, SYM, RKH_TRC_MP_NMIN, If
<1>3. x = y <=> <<"MP", "INIT">> \notin Misread(c)
  <2>1. x = y <=> c.SIZEOF_BSIZE = c.SIZEOF_NBLOCK
    BY SizesDiffer DEF RKH_TRC_NBLK, RKH_TRC_BSIZE, Documented, Documented_MP
  <2> QED BY <2>1, MisreadAre
<1>4. RKH_TR_MP(c) = Group(c, "MP", records)
  BY DEF RKH_TR_MP
<1> HIDE DEF first, x, y, get, put
<1>5. Rightly(d, c, "MP", "INIT", init)
  <2>1. first \o x = first \o y <=> x = y
    BY <1>2, Cancels DEF Three
  <2>2. IsLayout(first \o x)
    BY <1>2, Joins
  <2> HIDE DEF init
  <2>3. init = first \o y
    BY DEF init
  <2> QED BY <1>1, <1>2, <1>3, <2>1, <2>2, <2>3, UnaddedIsRight
<1> HIDE DEF init
<1>6. Rightly(d, c, "MP", "GET", get) /\ Rightly(d, c, "MP", "PUT", put)
  <2>1. <<"MP", "GET">> \notin Misread(c) /\ <<"MP", "PUT">> \notin Misread(c)
    BY MisreadAre
  <2> QED BY <1>1, <1>2, <2>1, SameIsRight
<1>7. RightTable(d, c, "MP", records)
  BY <1>5, <1>6 DEF RightTable
<1> HIDE DEF records
<1> QED BY <1>4, <1>7, GroupRight

(* What a get or a post says of the queue, and its minimum if there is one. *)
LEMMA QueueSaid ==
  ASSUME NEW c, FieldsOf(c), NEW p, IsLayout(p)
  PROVE  /\ p \o Reference(c) =
              p \o U8("pid") \o U8("refc") \o RKH_TRC_NE(c, "nelem") \o RKH_TRC_RQ_NMIN(c)
         /\ IsLayout(p \o U8("pid") \o U8("refc") \o RKH_TRC_NE(c, "nelem"))
         /\ IsLayout(RKH_TRC_RQ_NMIN(c)) /\ IsLayout(p \o Reference(c))
<1>1. PICK w, x, y, z : w = U8("pid") /\ x = U8("refc") /\ y = RKH_TRC_NE(c, "nelem")
                        /\ z = RKH_TRC_RQ_NMIN(c)
  OBVIOUS
<1>2. IsLayout(w) /\ IsLayout(x) /\ IsLayout(y) /\ IsLayout(z)
  BY <1>1, FieldIsLayout, Joins DEF FieldsOf, U8, RKH_TRC_RQ_NMIN, If
<1>3. p \o (w \o x \o y \o z) = p \o w \o x \o y \o z
  <2>1. Five(p, w, x, y, z)
    BY <1>2 DEF Three, Five
  <2> QED BY <2>1, Flattened
<1>4. IsLayout(p \o w \o x \o y) /\ IsLayout(p \o w \o x \o y \o z)
  <2>1. IsLayout(p \o w)
    BY <1>2, Joins
  <2>2. IsLayout(p \o w \o x)
    BY <1>2, <2>1, Joins
  <2>3. IsLayout(p \o w \o x \o y)
    BY <1>2, <2>2, Joins
  <2>4. IsLayout(p \o w \o x \o y \o z)
    BY <1>2, <2>3, Joins
  <2> QED BY <2>3, <2>4
<1>5. Reference(c) = w \o x \o y \o z
  BY <1>1 DEF Reference
<1> QED BY <1>1, <1>2, <1>3, <1>4, <1>5

(* A get: without the minimum the response time is shown in its place, and *)
(* the number of the post under the label of the response time.            *)
LEMMA ReadsGet ==
  ASSUME NEW c, NEW d, SameWidths(d, c), FieldsOf(c), Understood(d, c)
  PROVE  Rightly(d, c, "SMA", "GET", AO(c) \o RKH_TRC_SIG(c, "sig") \o Reference(c))
<1>1. PICK p : p = AO(c) \o RKH_TRC_SIG(c, "sig")
  OBVIOUS
<1>2. PICK known : known = p \o U8("pid") \o U8("refc") \o RKH_TRC_NE(c, "nelem")
  OBVIOUS
<1>3. PICK rt, nseq, nmin : /\ rt = Field("rt", Computed.rt) /\ nseq = Field("nseq", Computed.nseq)
                            /\ nmin = RKH_TRC_RQ_NMIN(c)
  OBVIOUS
<1>4. IsLayout(p)
  BY <1>1, Joins DEF FieldsOf, AO
<1>5. p \o Reference(c) = known \o nmin /\ IsLayout(known) /\ IsLayout(nmin)
  BY <1>2, <1>3, <1>4, QueueSaid
<1>6. IsLayout(rt) /\ IsLayout(nseq)
  BY <1>3, FieldIsLayout
<1>7. Reads(d)["SMA"]["GET"] =
        IF On(c, "RQ_GET_LWMARK") THEN known \o nmin \o rt \o nseq
        ELSE known \o Field("nmin", Computed.rt) \o Field("rt", Computed.nseq)
  <2>1. Reads(d)["SMA"]["GET"] =
          h_sma_get(d, <<"ao", "sig", "pid", "refc", "nelem", "nmin", "rt", "nseq">>)
    BY DEF Reads, tg_sma_tbl
  <2>2. CASE On(c, "RQ_GET_LWMARK")
    BY <1>1, <1>2, <1>3, <2>1, <2>2 DEF SameWidths, Understood, h_sma_get, Ptr, Trze, Char, Trzne,
       AO, U8, RKH_TRC_RQ_NMIN, If
  <2>3. CASE ~On(c, "RQ_GET_LWMARK")
    BY <1>1, <1>2, <1>3, <2>1, <2>3 DEF SameWidths, Understood, h_sma_get, Ptr, Trze, Char, Trzne,
       AO, U8, RKH_TRC_RQ_NMIN, If
  <2> QED BY <2>2, <2>3
<1>8. Added(<<"SMA", "GET">>) = rt \o nseq
  BY <1>3, AddedAre
<1>9. <<"SMA", "GET">> \in Misread(c) <=> ~On(c, "RQ_GET_LWMARK")
  BY MisreadAre
<1>10. PICK layout, reads : layout = p \o Reference(c) /\ reads = Reads(d)["SMA"]["GET"]
  OBVIOUS
<1>11. IsLayout(layout)
  BY <1>5, <1>10, Joins
<1>12. CASE On(c, "RQ_GET_LWMARK")
  <2>1. PICK all : all = known \o nmin
    OBVIOUS
  <2>2. IsLayout(all)
    BY <2>1, <1>5, Joins
  <2>3. (all \o rt) \o nseq = all \o (rt \o nseq)
    BY <2>2, <1>6, Associates DEF Three
  <2>4. IsLayout(all \o rt \o nseq)
    BY <2>2, <1>6, Joins
  <2>5. layout \o Added(<<"SMA", "GET">>) = reads /\ IsLayout(reads)
    BY <1>5, <1>7, <1>8, <1>10, <1>12, <2>1, <2>3, <2>4
  <2> QED BY <1>1, <1>9, <1>10, <1>11, <1>12, <2>5 DEF Rightly
<1>13. CASE ~On(c, "RQ_GET_LWMARK")
  <2>1. PICK x, y : x = Field("nmin", Computed.rt) /\ y = Field("rt", Computed.nseq)
    OBVIOUS
  <2>2. IsLayout(x) /\ IsLayout(y)
    BY <2>1, FieldIsLayout
  <2>3. nmin = <<>> /\ layout = known
    BY <1>3, <1>5, <1>10, <1>13, Joins DEF RKH_TRC_RQ_NMIN, If
  <2>4. (known \o x) \o y = known \o (x \o y)
    BY <1>5, <2>2, Associates DEF Three
  <2>5. PICK xy, added : xy = x \o y /\ added = rt \o nseq
    OBVIOUS
  <2>9. IsLayout(xy) /\ IsLayout(added)
    BY <1>6, <2>2, <2>5, Joins
  <2>10. IsLayout(known \o xy)
    BY <1>5, <2>9, Joins
  <2>6. known \o added = known \o xy <=> added = xy
    <3>1. Three(known, added, xy)
      BY <1>5, <2>9 DEF Three
    <3> QED BY <3>1, Cancels
  <2>7. rt \o nseq # x \o y
    <3> SUFFICES ASSUME rt \o nseq = x \o y PROVE FALSE
      OBVIOUS
    <3>1. StartsWith(x \o y, "rt", Computed.rt) /\ StartsWith(x \o y, "nmin", Computed.rt)
      BY <1>3, <1>6, <2>1, <2>2 DEF StartsWith
    <3>2. "rt" = "nmin"
      BY <3>1, FirstLabel
    <3> QED BY <3>2
  <2>8. layout \o Added(<<"SMA", "GET">>) # reads /\ IsLayout(reads)
    BY <1>7, <1>8, <1>10, <1>13, <2>1, <2>3, <2>4, <2>5, <2>6, <2>7, <2>10
  <2> QED BY <1>1, <1>9, <1>10, <1>11, <1>13, <2>8 DEF Rightly
<1> QED BY <1>12, <1>13

(* A post: without the minimum the number of the post has its label.       *)
LEMMA ReadsPost ==
  ASSUME NEW c, NEW d, SameWidths(d, c), FieldsOf(c), Understood(d, c), NEW e \in {"FIFO", "LIFO"}
  PROVE  Rightly(d, c, "SMA", e,
                 AO(c) \o RKH_TRC_SIG(c, "sig") \o RKH_TRC_SNDR(c, "snr") \o Reference(c))
<1>1. PICK p : p = AO(c) \o RKH_TRC_SIG(c, "sig") \o RKH_TRC_SNDR(c, "snr")
  OBVIOUS
<1>2. PICK known : known = p \o U8("pid") \o U8("refc") \o RKH_TRC_NE(c, "nelem")
  OBVIOUS
<1>3. PICK nseq, nmin : nseq = Field("nseq", Computed.nseq) /\ nmin = RKH_TRC_RQ_NMIN(c)
  OBVIOUS
<1>4. IsLayout(p)
  <2>1. IsLayout(AO(c)) /\ IsLayout(RKH_TRC_SIG(c, "sig")) /\ IsLayout(RKH_TRC_SNDR(c, "snr"))
    BY Joins DEF FieldsOf, AO, RKH_TRC_SNDR, If
  <2>2. IsLayout(AO(c) \o RKH_TRC_SIG(c, "sig"))
    BY <2>1, Joins
  <2> QED BY <1>1, <2>1, <2>2, Joins
<1>5. p \o Reference(c) = known \o nmin /\ IsLayout(known) /\ IsLayout(nmin)
  BY <1>2, <1>3, <1>4, QueueSaid
<1>6. IsLayout(nseq)
  BY <1>3, FieldIsLayout
<1>7. Reads(d)["SMA"][e] =
        IF On(c, "RQ_GET_LWMARK") THEN known \o nmin \o nseq
        ELSE known \o Field("nmin", Computed.nseq)
  <2> DEFINE L == <<"ao", "sig", "snr", "pid", "refc", "nelem", "nmin", "nseq">>
  <2>1. Reads(d)["SMA"][e] = h_sma_ffll(d, L)
    BY DEF Reads, tg_sma_tbl
  <2>2. Ptr(d, L, 1) \o Trze(d, L, 2) \o If(d.en_sender = 1, Ptr(d, L, 3)) = p
    BY <1>1 DEF SameWidths, Understood, Ptr, Trze, AO, RKH_TRC_SNDR, If
  <2>3. /\ p \o Char(L, 4) \o Char(L, 5) \o Trzne(d, L, 6) = known
        /\ Trzne(d, L, 7) = RKH_TRC_NE(c, "nmin")
        /\ L[7] = "nmin" /\ L[8] = "nseq"
    BY <1>2 DEF SameWidths, Char, Trzne, U8
  <2> HIDE DEF L
  <2>4. h_sma_ffll(d, L) =
          IF d.rq_en_get_lwmark = 1
          THEN known \o RKH_TRC_NE(c, "nmin") \o Field("nseq", Computed.nseq)
          ELSE known \o Field("nmin", Computed.nseq)
    BY <2>2, <2>3 DEF h_sma_ffll
  <2> QED BY <1>3, <2>1, <2>4 DEF Understood, RKH_TRC_RQ_NMIN, If
<1>8. Added(<<"SMA", e>>) = nseq
  BY <1>3, AddedAre
<1>9. <<"SMA", e>> \in Misread(c) <=> ~On(c, "RQ_GET_LWMARK")
  BY MisreadAre
<1>10. PICK layout, reads : layout = p \o Reference(c) /\ reads = Reads(d)["SMA"][e]
  OBVIOUS
<1>11. IsLayout(layout)
  BY <1>5, <1>10, Joins
<1>12. CASE On(c, "RQ_GET_LWMARK")
  <2>1. IsLayout(layout \o nseq)
    BY <1>6, <1>11, Joins
  <2>2. layout \o Added(<<"SMA", e>>) = reads /\ IsLayout(reads)
    BY <1>5, <1>7, <1>8, <1>10, <1>12, <2>1
  <2> QED BY <1>1, <1>9, <1>10, <1>11, <1>12, <2>2 DEF Rightly
<1>13. CASE ~On(c, "RQ_GET_LWMARK")
  <2>1. PICK x : x = Field("nmin", Computed.nseq)
    OBVIOUS
  <2>2. IsLayout(x) /\ x # nseq
    BY <1>3, <2>1, FieldIsLayout, FieldsDiffer
  <2>3. nmin = <<>> /\ layout = known
    BY <1>3, <1>5, <1>10, <1>13, Joins DEF RKH_TRC_RQ_NMIN, If
  <2>4. Three(known, nseq, x)
    BY <1>5, <1>6, <2>2 DEF Three
  <2>5. known \o nseq = known \o x <=> nseq = x
    BY <2>4, Cancels
  <2>6. IsLayout(known \o x)
    BY <1>5, <2>2, Joins
  <2>7. layout \o Added(<<"SMA", e>>) # reads /\ IsLayout(reads)
    BY <1>7, <1>8, <1>10, <1>13, <2>1, <2>2, <2>3, <2>5, <2>6
  <2> QED BY <1>1, <1>9, <1>10, <1>11, <1>13, <2>7 DEF Rightly
<1> QED BY <1>12, <1>13

(* The rest of the group.                                                  *)
LEMMA ReadsSMA ==
  ASSUME NEW c, Documented(c), NEW d, SameWidths(d, c), FieldsOf(c), Understood(d, c)
  PROVE  RightTable(d, c, "SMA", Writes(c).SMA)
<1>1. PICK act, prio, get, post, defer, rcall :
        /\ prio = AO(c) \o U8("prio")
        /\ act = AO(c) \o U8("prio") \o U8("size")
        /\ get = AO(c) \o RKH_TRC_SIG(c, "sig") \o Reference(c)
        /\ post = AO(c) \o RKH_TRC_SIG(c, "sig") \o RKH_TRC_SNDR(c, "snr") \o Reference(c)
        /\ defer = SYM(c, "q") \o RKH_TRC_SIG(c, "sig")
        /\ rcall = AO(c) \o RKH_TRC_SIG(c, "sig")
  OBVIOUS
<1>2. /\ Reads(d)["SMA"]["ACT"] = prio \o RKH_TRC_NE(c, "size")
      /\ Reads(d)["SMA"]["TERM"] = prio
      /\ Reads(d)["SMA"]["REG"] = prio /\ Reads(d)["SMA"]["UNREG"] = prio
      /\ Reads(d)["SMA"]["DEFER"] = defer /\ Reads(d)["SMA"]["RCALL"] = rcall
  <2>1. /\ h_sma_act(d, <<"ao", "prio", "size">>) = prio \o RKH_TRC_NE(c, "size")
        /\ h_symu8(d, <<"ao", "prio">>) = prio
        /\ h_symevt(d, <<"q", "sig">>) = defer
        /\ h_symevt(d, <<"ao", "sig">>) = rcall
    BY <1>1 DEF SameWidths, h_sma_act, h_symu8, h_symevt, Ptr, Char, Trzne, Trze, U8, SYM, AO
  <2> QED BY <2>1 DEF Reads, tg_sma_tbl
<1>3. /\ IsLayout(prio) /\ IsLayout(act) /\ IsLayout(prio \o RKH_TRC_NE(c, "size"))
      /\ IsLayout(defer) /\ IsLayout(rcall)
  <2>1. IsLayout(prio) /\ IsLayout(defer) /\ IsLayout(rcall)
    BY <1>1, Joins DEF FieldsOf, AO, SYM, U8
  <2>2. act = prio \o U8("size")
    BY <1>1
  <2> QED BY <2>1, <2>2, Joins DEF FieldsOf, U8
<1>4. /\ \A e \in {"TERM", "REG", "UNREG", "DEFER", "RCALL"} : <<"SMA", e>> \notin Misread(c)
      /\ <<"SMA", "ACT">> \in Misread(c) <=> c.SIZEOF_NELEM # 8
  BY MisreadAre
<1>5. Rightly(d, c, "SMA", "ACT", act)
  <2>1. PICK x, y : x = RKH_TRC_NE(c, "size") /\ y = U8("size")
    OBVIOUS
  <2>2. x = y <=> c.SIZEOF_NELEM = 8
    BY <2>1, SizesDiffer DEF RKH_TRC_NE, Documented, Documented_RQ
  <2>3. Three(prio, x, y)
    BY <1>3, <2>1 DEF Three, FieldsOf, U8
  <2>4. prio \o x = prio \o y <=> x = y
    BY <2>3, Cancels
  <2>5. Reads(d)["SMA"]["ACT"] = prio \o x /\ act = prio \o y /\ IsLayout(prio \o x)
    BY <1>1, <1>2, <1>3, <2>1
  <2> QED BY <1>3, <1>4, <2>2, <2>4, <2>5, UnaddedIsRight
<1>6. /\ Rightly(d, c, "SMA", "TERM", prio) /\ Rightly(d, c, "SMA", "REG", prio)
      /\ Rightly(d, c, "SMA", "UNREG", prio) /\ Rightly(d, c, "SMA", "DEFER", defer)
      /\ Rightly(d, c, "SMA", "RCALL", rcall)
  BY <1>2, <1>3, <1>4, SameIsRight
<1>7. /\ Rightly(d, c, "SMA", "GET", get) /\ Rightly(d, c, "SMA", "FIFO", post)
      /\ Rightly(d, c, "SMA", "LIFO", post)
  BY <1>1, ReadsGet, ReadsPost
<1>8. /\ RightTable(d, c, "SMA", [ACT |-> act, TERM |-> prio, GET |-> get])
      /\ RightTable(d, c, "SMA", [FIFO |-> post, LIFO |-> post, REG |-> prio, UNREG |-> prio])
      /\ RightTable(d, c, "SMA", [DEFER |-> defer, RCALL |-> rcall])
  BY <1>5, <1>6, <1>7 DEF RightTable
<1>9. PICK t1, t2, t3 :
        t1 = RKH_TR_SMA(c) /\ t2 = RKH_TR_SMA_posts(c) /\ t3 = RKH_TR_FWK_deferred(c)
  OBVIOUS
<1>10. /\ t1 = Group(c, "SMA", [ACT |-> act, TERM |-> prio, GET |-> get])
       /\ t2 = Group(c, "SMA", [FIFO |-> post, LIFO |-> post, REG |-> prio, UNREG |-> prio])
       /\ t3 = Group(c, "FWK", [DEFER |-> defer, RCALL |-> rcall])
  BY <1>1, <1>9 DEF RKH_TR_SMA, RKH_TR_SMA_posts, RKH_TR_FWK_deferred
<1>11. RightTable(d, c, "SMA", t1) /\ RightTable(d, c, "SMA", t2) /\ RightTable(d, c, "SMA", t3)
  BY <1>8, <1>10, GroupRight
<1>12. RightTable(d, c, "SMA", t1 ++ t2)
  BY <1>11, MergedRight
<1>13. RightTable(d, c, "SMA", t1 ++ t2 ++ t3)
  BY <1>11, <1>12, MergedRight
<1> QED BY <1>9, <1>13 DEF Writes

(* A table of an entry and others.                                         *)
LEMMA EntryRight ==
  ASSUME NEW d, NEW c, NEW g, NEW e, NEW layout, Rightly(d, c, g, e, layout)
  PROVE  RightTable(d, c, g, Entry(e, layout))
BY DEF RightTable, Entry

(* An entry and a table that does not have it.                             *)
LEMMA WithEntry ==
  ASSUME NEW name, NEW value, NEW table, name \notin DOMAIN table
  PROVE  /\ (Entry(name, value) ++ table)[name] = value
         /\ \A e \in DOMAIN table : (Entry(name, value) ++ table)[e] = table[e]
BY DEF Entry, ++

(* The records of the state machines: pointers to functions are read as    *)
(* pointers to data.                                                       *)
LEMMA ReadsSM ==
  ASSUME NEW c, Documented(c), NEW d, SameWidths(d, c), FieldsOf(c), Understood(d, c)
  PROVE  RightTable(d, c, "SM", RKH_TR_SM(c))
<1>1. PICK ao, ist, h, dch, trn, nxt, st, nenex, nta, sig, exe, func :
        /\ ao = AO(c) /\ ist = AO(c) \o SYM(c, "ist") /\ h = AO(c) \o SYM(c, "h")
        /\ dch = AO(c) \o RKH_TRC_SIG(c, "sig") \o SYM(c, "st")
        /\ trn = AO(c) \o SYM(c, "sst") \o SYM(c, "tst")
        /\ nxt = AO(c) \o SYM(c, "nxtst") /\ st = AO(c) \o SYM(c, "st")
        /\ nenex = AO(c) \o U8("nen") \o U8("nex") /\ nta = AO(c) \o U8("nta") \o U8("nts")
        /\ sig = AO(c) \o RKH_TRC_SIG(c, "sig")
        /\ exe = U8("aty") \o AO(c) \o SYM(c, "st")
        /\ func = exe \o RKH_TRC_FUN(c, "func")
  OBVIOUS
<1>2. /\ Reads(d)["SM"]["STATE"] = nxt
      /\ Reads(d)["SM"]["INIT"] = ist /\ Reads(d)["SM"]["CLRH"] = h
      /\ Reads(d)["SM"]["DCH"] = dch /\ Reads(d)["SM"]["TRN"] = trn
      /\ Reads(d)["SM"]["ENSTATE"] = st /\ Reads(d)["SM"]["EXSTATE"] = st
      /\ Reads(d)["SM"]["TS_STATE"] = st /\ Reads(d)["SM"]["NENEX"] = nenex
      /\ Reads(d)["SM"]["NTRNACT"] = nta /\ Reads(d)["SM"]["EVT_NFOUND"] = sig
      /\ Reads(d)["SM"]["EXE_ACT"] = exe \o RKH_TRC_SYM(c, "func")
      /\ \A e \in {"EVT_PROC", "GRD_FALSE", "CND_NFOUND", "UNKN_STATE", "EX_HLEVEL", "EX_TSEG"} :
           Reads(d)["SM"][e] = ao
  <2>1. /\ h_2sym(d, <<"ao", "nxtst">>) = nxt /\ h_2sym(d, <<"ao", "ist">>) = ist
        /\ h_2sym(d, <<"ao", "h">>) = h /\ h_2sym(d, <<"ao", "st">>) = st
        /\ h_1sym(d, <<"ao">>) = ao
    BY <1>1 DEF SameWidths, h_2sym, h_1sym, Ptr, AO, SYM
  <2>2. /\ h_sm_dch(d, <<"ao", "sig", "st">>) = dch
        /\ h_symtrn(d, <<"ao", "sst", "tst">>) = trn
        /\ h_symevt(d, <<"ao", "sig">>) = sig
    BY <1>1 DEF SameWidths, h_sm_dch, h_symtrn, h_symevt, Ptr, Trze, AO, SYM
  <2>3. /\ h_sym2u8(d, <<"ao", "nen", "nex">>) = nenex
        /\ h_sym2u8(d, <<"ao", "nta", "nts">>) = nta
        /\ h_exact(d, <<"aty", "ao", "st", "func">>) = exe \o RKH_TRC_SYM(c, "func")
    BY <1>1 DEF SameWidths, h_sym2u8, h_exact, Ptr, Char, U8, AO, SYM
  <2>4. PICK table :
          table = [INIT |-> ist, CLRH |-> h, TRN |-> trn, ENSTATE |-> st, EXSTATE |-> st,
                   TS_STATE |-> st, NENEX |-> nenex, NTRNACT |-> nta,
                   EVT_PROC |-> ao, GRD_FALSE |-> ao, CND_NFOUND |-> ao, UNKN_STATE |-> ao,
                   EX_HLEVEL |-> ao, EX_TSEG |-> ao, EVT_NFOUND |-> sig,
                   EXE_ACT |-> exe \o RKH_TRC_SYM(c, "func"), DCH |-> dch]
    OBVIOUS
  <2>5. Reads(d)["SM"] = Entry("STATE", nxt) ++ table
    BY <2>1, <2>2, <2>3, <2>4 DEF Reads, tg_sm_tbl
  <2>6. "STATE" \notin DOMAIN table
    BY <2>4
  <2>7. Reads(d)["SM"]["STATE"] = nxt /\ \A e \in DOMAIN table : Reads(d)["SM"][e] = table[e]
    BY <2>5, <2>6, WithEntry
  <2> QED BY <2>4, <2>7
<1>3. /\ IsLayout(ao) /\ IsLayout(ist) /\ IsLayout(h) /\ IsLayout(nxt) /\ IsLayout(st)
      /\ IsLayout(sig) /\ IsLayout(dch) /\ IsLayout(trn) /\ IsLayout(nenex) /\ IsLayout(nta)
      /\ IsLayout(exe)
  <2>1. /\ IsLayout(ao) /\ IsLayout(ist) /\ IsLayout(h) /\ IsLayout(nxt) /\ IsLayout(st)
        /\ IsLayout(sig)
    BY <1>1, Joins DEF FieldsOf, AO, SYM
  <2>2. dch = sig \o SYM(c, "st") /\ IsLayout(dch)
    BY <1>1, <2>1, Joins DEF FieldsOf, SYM
  <2>3. IsLayout(AO(c) \o SYM(c, "sst")) /\ IsLayout(SYM(c, "tst")) /\ IsLayout(SYM(c, "st"))
    BY Joins DEF FieldsOf, AO, SYM
  <2>4. IsLayout(trn)
    BY <1>1, <2>3, Joins
  <2>5. IsLayout(AO(c) \o U8("nen")) /\ IsLayout(AO(c) \o U8("nta")) /\ IsLayout(U8("aty") \o AO(c))
    BY Joins DEF FieldsOf, AO, U8
  <2>6. IsLayout(U8("nex")) /\ IsLayout(U8("nts"))
    BY DEF FieldsOf, U8
  <2>7. IsLayout(nenex) /\ IsLayout(nta) /\ IsLayout(exe)
    BY <1>1, <2>3, <2>5, <2>6, Joins
  <2> QED BY <2>1, <2>2, <2>4, <2>7
<1>4. \A e : <<"SM", e>> \in Misread(c) <=> e = "EXE_ACT" /\ c.SIZEOF_FUN_PTR # c.SIZEOF_PTR
  BY MisreadAre
<1>5. Rightly(d, c, "SM", "EXE_ACT", func)
  <2>1. PICK x, y : x = RKH_TRC_SYM(c, "func") /\ y = RKH_TRC_FUN(c, "func")
    OBVIOUS
  <2>2. x = y <=> c.SIZEOF_FUN_PTR = c.SIZEOF_PTR
    BY <2>1, SizesDiffer DEF RKH_TRC_SYM, RKH_TRC_FUN, Documented, Documented_PORT, Bits
  <2>3. Three(exe, x, y)
    BY <1>3, <2>1 DEF Three, FieldsOf
  <2>4. exe \o x = exe \o y <=> x = y
    BY <2>3, Cancels
  <2>5. IsLayout(exe \o x) /\ IsLayout(exe \o y)
    BY <2>3, Joins DEF Three
  <2>6. Reads(d)["SM"]["EXE_ACT"] = exe \o x /\ func = exe \o y
    BY <1>1, <1>2, <2>1
  <2> QED BY <1>4, <2>2, <2>4, <2>5, <2>6, UnaddedIsRight
<1>6. /\ Rightly(d, c, "SM", "STATE", nxt) /\ Rightly(d, c, "SM", "INIT", ist)
      /\ Rightly(d, c, "SM", "CLRH", h) /\ Rightly(d, c, "SM", "DCH", dch)
      /\ Rightly(d, c, "SM", "TRN", trn) /\ Rightly(d, c, "SM", "ENSTATE", st)
      /\ Rightly(d, c, "SM", "EXSTATE", st) /\ Rightly(d, c, "SM", "TS_STATE", st)
      /\ Rightly(d, c, "SM", "NENEX", nenex) /\ Rightly(d, c, "SM", "NTRNACT", nta)
  <2>1. \A e : e # "EXE_ACT" => <<"SM", e>> \notin Misread(c)
    BY <1>4, Zenon
  <2>2. Rightly(d, c, "SM", "STATE", nxt) /\ Rightly(d, c, "SM", "INIT", ist)
    BY <1>2, <1>3, <2>1, SameIsRight
  <2>3. Rightly(d, c, "SM", "CLRH", h) /\ Rightly(d, c, "SM", "DCH", dch)
    BY <1>2, <1>3, <2>1, SameIsRight
  <2>4. Rightly(d, c, "SM", "TRN", trn) /\ Rightly(d, c, "SM", "ENSTATE", st)
    BY <1>2, <1>3, <2>1, SameIsRight
  <2>5. Rightly(d, c, "SM", "EXSTATE", st) /\ Rightly(d, c, "SM", "TS_STATE", st)
    BY <1>2, <1>3, <2>1, SameIsRight
  <2>6. Rightly(d, c, "SM", "NENEX", nenex) /\ Rightly(d, c, "SM", "NTRNACT", nta)
    BY <1>2, <1>3, <2>1, SameIsRight
  <2> QED BY <2>2, <2>3, <2>4, <2>5, <2>6
<1>7. /\ \A e \in {"EVT_PROC", "GRD_FALSE", "CND_NFOUND", "UNKN_STATE", "EX_HLEVEL", "EX_TSEG"} :
           Rightly(d, c, "SM", e, ao)
      /\ Rightly(d, c, "SM", "EVT_NFOUND", sig)
  <2>1. \A e : e # "EXE_ACT" => <<"SM", e>> \notin Misread(c)
    BY <1>4, Zenon
  <2>2. ASSUME NEW e \in {"EVT_PROC", "GRD_FALSE", "CND_NFOUND", "UNKN_STATE", "EX_HLEVEL",
                          "EX_TSEG"}
        PROVE  Rightly(d, c, "SM", e, ao)
    <3>1. Reads(d)["SM"][e] = ao
      BY <1>2
    <3>2. <<"SM", e>> \notin Misread(c)
      BY <2>1
    <3> QED BY <1>3, <3>1, <3>2, SameIsRight
  <2>3. Rightly(d, c, "SM", "EVT_NFOUND", sig)
    BY <1>2, <1>3, <2>1, SameIsRight
  <2> QED BY <2>2, <2>3
<1>8. PICK t1, t2, t3, t4 :
        /\ t1 = RKH_TR_SM_history(c) /\ t2 = RKH_TR_SM_states(c)
        /\ t3 = RKH_TR_SM_process(c) /\ t4 = RKH_TR_SM_actions(c)
  OBVIOUS
<1>9. RightTable(d, c, "SM", t1)
  <2>1. PICK a1, a2, a3, a4 :
          /\ a1 = SmRecord(c, "SM_INIT", [INIT |-> ist])
          /\ a2 = SmRecord(c, "SM_CLRH", [CLRH |-> h])
          /\ a3 = SmRecord(c, "SM_DCH", [DCH |-> dch]) /\ a4 = SmRecord(c, "SM_TRN", [TRN |-> trn])
    OBVIOUS
  <2>2. /\ RightTable(d, c, "SM", [INIT |-> ist]) /\ RightTable(d, c, "SM", [CLRH |-> h])
        /\ RightTable(d, c, "SM", [DCH |-> dch]) /\ RightTable(d, c, "SM", [TRN |-> trn])
    BY <1>6 DEF RightTable
  <2>3. /\ RightTable(d, c, "SM", a1) /\ RightTable(d, c, "SM", a2)
        /\ RightTable(d, c, "SM", a3) /\ RightTable(d, c, "SM", a4)
    BY <2>1, <2>2, GroupRight
  <2>4. RightTable(d, c, "SM", a1 ++ a2)
    BY <2>3, MergedRight
  <2>5. RightTable(d, c, "SM", a1 ++ a2 ++ a3)
    BY <2>3, <2>4, MergedRight
  <2>6. RightTable(d, c, "SM", a1 ++ a2 ++ a3 ++ a4)
    BY <2>3, <2>5, MergedRight
  <2> QED BY <1>1, <1>8, <2>1, <2>6 DEF RKH_TR_SM_history
<1>10. RightTable(d, c, "SM", t2)
  <2>1. PICK a1, a2, a3, a4, a5, a6 :
          /\ a1 = SmRecord(c, "SM_STATE", Entry("STATE", nxt))
          /\ a2 = SmRecord(c, "SM_ENSTATE", [ENSTATE |-> st])
          /\ a3 = SmRecord(c, "SM_EXSTATE", [EXSTATE |-> st])
          /\ a4 = SmRecord(c, "SM_NENEX", [NENEX |-> nenex])
          /\ a5 = SmRecord(c, "SM_NTRNACT", [NTRNACT |-> nta])
          /\ a6 = SmRecord(c, "SM_TS_STATE", [TS_STATE |-> st])
    OBVIOUS
  <2>2. /\ RightTable(d, c, "SM", Entry("STATE", nxt)) /\ RightTable(d, c, "SM", [ENSTATE |-> st])
        /\ RightTable(d, c, "SM", [EXSTATE |-> st]) /\ RightTable(d, c, "SM", [NENEX |-> nenex])
        /\ RightTable(d, c, "SM", [NTRNACT |-> nta]) /\ RightTable(d, c, "SM", [TS_STATE |-> st])
    BY <1>6, EntryRight DEF RightTable
  <2>3. /\ RightTable(d, c, "SM", a1) /\ RightTable(d, c, "SM", a2)
        /\ RightTable(d, c, "SM", a3) /\ RightTable(d, c, "SM", a4)
        /\ RightTable(d, c, "SM", a5) /\ RightTable(d, c, "SM", a6)
    BY <2>1, <2>2, GroupRight
  <2>4. RightTable(d, c, "SM", a1 ++ a2)
    BY <2>3, MergedRight
  <2>5. RightTable(d, c, "SM", a1 ++ a2 ++ a3)
    BY <2>3, <2>4, MergedRight
  <2>6. RightTable(d, c, "SM", a1 ++ a2 ++ a3 ++ a4)
    BY <2>3, <2>5, MergedRight
  <2>7. RightTable(d, c, "SM", a1 ++ a2 ++ a3 ++ a4 ++ a5)
    BY <2>3, <2>6, MergedRight
  <2>8. RightTable(d, c, "SM", a1 ++ a2 ++ a3 ++ a4 ++ a5 ++ a6)
    BY <2>3, <2>7, MergedRight
  <2> QED BY <1>1, <1>8, <2>1, <2>8 DEF RKH_TR_SM_states
<1>11. RightTable(d, c, "SM", t3) /\ RightTable(d, c, "SM", t4)
  <2>1. PICK r3, r4 :
          /\ r3 = [EVT_PROC |-> ao, EVT_NFOUND |-> sig, GRD_FALSE |-> ao, CND_NFOUND |-> ao,
                   UNKN_STATE |-> ao, EX_HLEVEL |-> ao, EX_TSEG |-> ao]
          /\ r4 = [EXE_ACT |-> func]
    OBVIOUS
  <2>2. RightTable(d, c, "SM", r3) /\ RightTable(d, c, "SM", r4)
    BY <1>5, <1>7, <2>1 DEF RightTable
  <2>3. t3 = SmRecord(c, "SM_PROCESS", r3) /\ t4 = SmRecord(c, "SM_EXE_ACT", r4)
    BY <1>1, <1>8, <2>1 DEF RKH_TR_SM_process, RKH_TR_SM_actions
  <2> QED BY <2>2, <2>3, GroupRight
<1>12. RightTable(d, c, "SM", t1 ++ t2)
  BY <1>9, <1>10, MergedRight
<1>13. RightTable(d, c, "SM", t1 ++ t2 ++ t3)
  BY <1>11, <1>12, MergedRight
<1>14. RightTable(d, c, "SM", t1 ++ t2 ++ t3 ++ t4)
  BY <1>11, <1>13, MergedRight
<1> QED BY <1>8, <1>14 DEF RKH_TR_SM
-----------------------------------------------------------------------------
(* A record of which the last fields are read otherwise, or the first.     *)
LEMMA LastIsRight ==
  ASSUME NEW d, NEW c, NEW g, NEW e, NEW p, NEW x, NEW y, Three(p, x, y),
         Reads(d)[g][e] = p \o x, g # "SMA", x = y <=> <<g, e>> \notin Misread(c)
  PROVE  Rightly(d, c, g, e, p \o y)
<1>1. p \o x = p \o y <=> x = y
  BY Cancels
<1>2. IsLayout(p \o x) /\ IsLayout(p \o y)
  BY Joins DEF Three
<1>3. PICK reads, layout : reads = p \o x /\ layout = p \o y
  OBVIOUS
<1>4. reads = layout <=> <<g, e>> \notin Misread(c)
  BY <1>1, <1>3
<1>5. Rightly(d, c, g, e, layout)
  BY <1>2, <1>3, <1>4, UnaddedIsRight
<1> QED BY <1>3, <1>5

(* A record of which the first fields are read otherwise.                  *)
LEMMA FirstIsRight ==
  ASSUME NEW d, NEW c, NEW g, NEW e, NEW x, NEW y, NEW s, Three(x, y, s),
         Reads(d)[g][e] = x \o s, g # "SMA", x = y <=> <<g, e>> \notin Misread(c)
  PROVE  Rightly(d, c, g, e, y \o s)
<1>1. x \o s = y \o s <=> x = y
  BY Cancels
<1>2. IsLayout(x \o s) /\ IsLayout(y \o s)
  BY Joins DEF Three
<1>3. PICK reads, layout : reads = x \o s /\ layout = y \o s
  OBVIOUS
<1>4. reads = layout <=> <<g, e>> \notin Misread(c)
  BY <1>1, <1>3
<1>5. Rightly(d, c, g, e, layout)
  BY <1>2, <1>3, <1>4, UnaddedIsRight
<1> QED BY <1>3, <1>5

(* The handlers of the framework's records.                                *)
LEMMA FwkTable ==
  ASSUME NEW d
  PROVE  LET fwk   == Reads(d)["FWK"]
             named == h_symobj(d, <<"obj", "nm">>)
             state == h_symst(d, <<"ao", "obj", "nm">>)
         IN  /\ fwk["EN"] = <<>> /\ fwk["EX"] = <<>>
             /\ fwk["EPREG"] = h_epreg(d, <<"ep", "ss", "es", "psize">>)
             /\ fwk["AE"] = h_ae(d, <<"es", "sig", "pid", "refc", "nblock", "nmin", "actor">>)
             /\ fwk["GC"] = h_gc(d, <<"sig", "pid", "refc">>)
             /\ fwk["GCR"] = h_gcr(d, <<"sig", "pid", "refc", "nblock", "nmin", "actor">>)
             /\ fwk["SIG"] = h_symsig(d, <<"sig", "nm">>)
             /\ fwk["FUN"] = h_symobj(d, <<"func", "nm">>)
             /\ fwk["EXE_FUN"] = h_1sym(d, <<"func">>)
             /\ fwk["SYNC_EVT"] = h_sync(d, <<"func", "snr", "ao">>)
             /\ fwk["TUSR"] = h_symuevt(d, <<"usrtrc", "nm">>)
             /\ fwk["ASSERT"] = h_assert(d, <<"line", "file">>)
             /\ fwk["EPOOL"] = h_symepid(d, <<"ep", "nm">>)
             /\ fwk["OBJ"] = named /\ fwk["AO"] = named /\ fwk["TIMER"] = named
             /\ fwk["QUEUE"] = named /\ fwk["ACTOR"] = named
             /\ fwk["STATE"] = state /\ fwk["PSTATE"] = state
<1>1. PICK epreg, ae, gc, gcr, sig, fun, exe, sync, tusr, assert, epool, named, state :
        /\ epreg = h_epreg(d, <<"ep", "ss", "es", "psize">>)
        /\ ae = h_ae(d, <<"es", "sig", "pid", "refc", "nblock", "nmin", "actor">>)
        /\ gc = h_gc(d, <<"sig", "pid", "refc">>)
        /\ gcr = h_gcr(d, <<"sig", "pid", "refc", "nblock", "nmin", "actor">>)
        /\ sig = h_symsig(d, <<"sig", "nm">>)
        /\ fun = h_symobj(d, <<"func", "nm">>)
        /\ exe = h_1sym(d, <<"func">>)
        /\ sync = h_sync(d, <<"func", "snr", "ao">>)
        /\ tusr = h_symuevt(d, <<"usrtrc", "nm">>)
        /\ assert = h_assert(d, <<"line", "file">>)
        /\ epool = h_symepid(d, <<"ep", "nm">>)
        /\ named = h_symobj(d, <<"obj", "nm">>)
        /\ state = h_symst(d, <<"ao", "obj", "nm">>)
  OBVIOUS
<1>2. PICK table :
        table = [EN |-> <<>>, EX |-> <<>>, EPREG |-> epreg, AE |-> ae, GC |-> gc, GCR |-> gcr,
                 OBJ |-> named, SIG |-> sig, FUN |-> fun, EXE_FUN |-> exe, SYNC_EVT |-> sync,
                 TUSR |-> tusr, ASSERT |-> assert, AO |-> named, PSTATE |-> state,
                 TIMER |-> named, EPOOL |-> epool, QUEUE |-> named, ACTOR |-> named]
  OBVIOUS
<1>3. Reads(d)["FWK"] = Entry("STATE", state) ++ table
  BY <1>1, <1>2 DEF Reads, tg_fwk_tbl, h_none
<1>4. "STATE" \notin DOMAIN table
  BY <1>2
<1>5. Reads(d)["FWK"]["STATE"] = state /\ \A e \in DOMAIN table : Reads(d)["FWK"][e] = table[e]
  BY <1>3, <1>4, WithEntry
<1> QED BY <1>1, <1>2, <1>5

(* The records that are read as they are written.                          *)
LEMMA ReadsNames ==
  ASSUME NEW c, NEW d, SameWidths(d, c), FieldsOf(c), Understood(d, c)
  PROVE  /\ \A e \in {"OBJ", "AO", "TIMER", "QUEUE", "ACTOR"} :
              Rightly(d, c, "FWK", e, Named(c, "obj"))
         /\ \A e \in {"STATE", "PSTATE"} : Rightly(d, c, "FWK", e, AO(c) \o Named(c, "obj"))
         /\ Rightly(d, c, "FWK", "FUN", Named(c, "func"))
         /\ Rightly(d, c, "FWK", "SIG", RKH_TRC_SIG(c, "sig") \o RKH_TRC_STR("nm"))
         /\ Rightly(d, c, "FWK", "EPOOL", U8("ep") \o RKH_TRC_STR("nm"))
         /\ Rightly(d, c, "FWK", "ASSERT", RKH_TRC_STR("file") \o U16("line"))
<1>1. PICK obj, st, fun, sig, ep, as :
        /\ obj = Named(c, "obj") /\ st = AO(c) \o obj /\ fun = Named(c, "func")
        /\ sig = RKH_TRC_SIG(c, "sig") \o RKH_TRC_STR("nm")
        /\ ep = U8("ep") \o RKH_TRC_STR("nm") /\ as = RKH_TRC_STR("file") \o U16("line")
  OBVIOUS
<1>2. /\ IsLayout(obj) /\ IsLayout(fun) /\ IsLayout(sig) /\ IsLayout(ep) /\ IsLayout(as)
      /\ IsLayout(st)
  <2>1. IsLayout(obj) /\ IsLayout(fun) /\ IsLayout(sig)
    BY <1>1, Joins DEF FieldsOf, Named, SYM, RKH_TRC_STR
  <2>2. IsLayout(ep) /\ IsLayout(as)
    BY <1>1, Joins DEF FieldsOf, U8, U16, RKH_TRC_STR
  <2>3. IsLayout(st)
    BY <1>1, <2>1, Joins DEF FieldsOf, AO
  <2> QED BY <2>1, <2>2, <2>3
<1>3. /\ h_symobj(d, <<"obj", "nm">>) = obj /\ h_symobj(d, <<"func", "nm">>) = fun
      /\ h_symsig(d, <<"sig", "nm">>) = sig /\ h_symepid(d, <<"ep", "nm">>) = ep
      /\ h_assert(d, <<"line", "file">>) = as
  BY <1>1 DEF SameWidths, h_symobj, h_symsig, h_symepid, h_assert, Ptr, Str, Trze, Char,
     Named, SYM, U8, U16, RKH_TRC_STR
<1>4. h_symst(d, <<"ao", "obj", "nm">>) = st
  <2>1. PICK a, o, n : a = AO(c) /\ o = SYM(c, "obj") /\ n = RKH_TRC_STR("nm")
    OBVIOUS
  <2>2. Three(a, o, n)
    BY <2>1 DEF Three, FieldsOf, AO, SYM, RKH_TRC_STR
  <2>3. (a \o o) \o n = a \o (o \o n)
    BY <2>2, Associates
  <2>4. h_symst(d, <<"ao", "obj", "nm">>) = a \o o \o n
    BY <2>1 DEF SameWidths, h_symst, Ptr, Str, AO, SYM, RKH_TRC_STR
  <2> QED BY <1>1, <2>1, <2>3, <2>4 DEF Named
<1>5. \A e \in {"OBJ", "AO", "TIMER", "QUEUE", "ACTOR", "STATE", "PSTATE", "FUN", "SIG", "EPOOL",
                "ASSERT"} : <<"FWK", e>> \notin Misread(c)
  BY MisreadAre
<1>6. ASSUME NEW e \in {"OBJ", "AO", "TIMER", "QUEUE", "ACTOR"} PROVE Rightly(d, c, "FWK", e, obj)
  <2>1. Reads(d)["FWK"][e] = obj
    BY <1>3, FwkTable
  <2> QED BY <1>2, <1>5, <2>1, SameIsRight
<1>7. ASSUME NEW e \in {"STATE", "PSTATE"} PROVE Rightly(d, c, "FWK", e, st)
  <2>1. Reads(d)["FWK"][e] = st
    BY <1>4, FwkTable
  <2> QED BY <1>2, <1>5, <2>1, SameIsRight
<1>8. /\ Reads(d)["FWK"]["FUN"] = fun /\ Reads(d)["FWK"]["SIG"] = sig
      /\ Reads(d)["FWK"]["EPOOL"] = ep /\ Reads(d)["FWK"]["ASSERT"] = as
  BY <1>3, FwkTable
<1>9. Rightly(d, c, "FWK", "FUN", fun) /\ Rightly(d, c, "FWK", "SIG", sig)
  BY <1>2, <1>5, <1>8, SameIsRight
<1>10. Rightly(d, c, "FWK", "EPOOL", ep) /\ Rightly(d, c, "FWK", "ASSERT", as)
  BY <1>2, <1>5, <1>8, SameIsRight
<1> QED BY <1>1, <1>6, <1>7, <1>9, <1>10

(* The calls of functions, with pointers to functions as Trazer takes them *)
(* for pointers to data, and the names of user events.                     *)
LEMMA ReadsCalls ==
  ASSUME NEW c, Documented(c), NEW d, SameWidths(d, c), FieldsOf(c), Understood(d, c)
  PROVE  RightTable(d, c, "FWK", RKH_TR_FWK_calls(c))
<1>1. PICK x, y, snr, ao, osnr, oao :
        /\ x = RKH_TRC_SYM(c, "func") /\ y = RKH_TRC_FUN(c, "func")
        /\ snr = RKH_TRC_SYM(c, "snr") /\ ao = RKH_TRC_SYM(c, "ao")
        /\ osnr = RKH_TRC_SNDR(c, "snr") /\ oao = RKH_TRC_SNDR(c, "ao")
  OBVIOUS
<1>2. /\ IsLayout(x) /\ IsLayout(y) /\ IsLayout(snr) /\ IsLayout(ao)
      /\ osnr = If(On(c, "SMA_TRC_SNDR"), snr) /\ oao = If(On(c, "SMA_TRC_SNDR"), ao)
  BY <1>1 DEF FieldsOf, RKH_TRC_SNDR
<1>3. x = y <=> c.SIZEOF_FUN_PTR = c.SIZEOF_PTR
  BY <1>1, SizesDiffer DEF RKH_TRC_SYM, RKH_TRC_FUN, Documented, Documented_PORT, Bits
<1>4. /\ <<"FWK", "EXE_FUN">> \in Misread(c) <=> c.SIZEOF_FUN_PTR # c.SIZEOF_PTR
      /\ <<"FWK", "TUSR">> \in Misread(c) <=> c.SIZEOF_EVT # 8
  BY MisreadAre
<1>5. <<"FWK", "SYNC_EVT">> \in Misread(c)
        <=> c.SIZEOF_FUN_PTR # c.SIZEOF_PTR \/ ~On(c, "SMA_TRC_SNDR")
  BY MisreadAre
<1>6. /\ Reads(d)["FWK"]["EXE_FUN"] = x
      /\ Reads(d)["FWK"]["SYNC_EVT"] = x \o snr \o ao
      /\ Reads(d)["FWK"]["TUSR"] = RKH_TRC_SIG(c, "usrtrc") \o RKH_TRC_STR("nm")
  BY <1>1, FwkTable DEF SameWidths, h_1sym, h_sync, h_symuevt, Ptr, Trze, Str, RKH_TRC_STR
<1>7. Rightly(d, c, "FWK", "EXE_FUN", y)
  BY <1>2, <1>3, <1>4, <1>6, UnaddedIsRight
<1>8. Rightly(d, c, "FWK", "TUSR", U8("usrtrc") \o RKH_TRC_STR("nm"))
  <2>1. PICK v, w, s : v = RKH_TRC_SIG(c, "usrtrc") /\ w = U8("usrtrc") /\ s = RKH_TRC_STR("nm")
    OBVIOUS
  <2>2. v = w <=> c.SIZEOF_EVT = 8
    BY <2>1, SizesDiffer DEF RKH_TRC_SIG, Documented, Documented_FWK
  <2>3. Three(v, w, s)
    BY <2>1 DEF Three, FieldsOf, U8, RKH_TRC_STR
  <2>4. Reads(d)["FWK"]["TUSR"] = v \o s
    BY <1>6, <2>1
  <2>5. Rightly(d, c, "FWK", "TUSR", w \o s)
    BY <1>4, <2>2, <2>3, <2>4, FirstIsRight
  <2> QED BY <2>1, <2>5
<1>9. Rightly(d, c, "FWK", "SYNC_EVT", y \o osnr \o oao)
  <2>1. IsLayout(x \o snr) /\ IsLayout(y \o snr)
    BY <1>2, Joins
  <2>2. CASE On(c, "SMA_TRC_SNDR")
    <3>1. PICK v, w : v = x \o snr /\ w = y \o snr
      OBVIOUS
    <3>2. Three(x, y, snr) /\ Three(v, w, ao)
      BY <1>2, <2>1, <3>1 DEF Three
    <3>3. x \o snr = y \o snr <=> x = y
      BY <3>2, Cancels
    <3>4. v = w <=> <<"FWK", "SYNC_EVT">> \notin Misread(c)
      BY <1>3, <1>5, <2>2, <3>1, <3>3
    <3>5. Reads(d)["FWK"]["SYNC_EVT"] = v \o ao
      BY <1>6, <3>1
    <3>6. Rightly(d, c, "FWK", "SYNC_EVT", w \o ao)
      BY <3>2, <3>4, <3>5, FirstIsRight
    <3> QED BY <1>2, <2>2, <3>1, <3>6 DEF If
  <2>3. CASE ~On(c, "SMA_TRC_SNDR")
    <3>1. osnr = <<>> /\ oao = <<>>
      BY <1>2, <2>3 DEF If
    <3>2. y \o osnr \o oao = y
      BY <1>2, <3>1, Joins
    <3>3. Len(x) = 1 /\ Len(snr) = 1 /\ Len(ao) = 1 /\ Len(y) = 1
      BY <1>1, Lengths DEF SameWidths
    <3>4. PICK both : both = x \o snr
      OBVIOUS
    <3>5. Len(both) = 2 /\ Len(both \o ao) = 3 /\ IsLayout((x \o snr) \o ao)
      <4>1. IsLayout(both) /\ Len(both) = Len(x) + Len(snr)
        BY <1>2, <2>1, <3>4, Lengths, Zenon
      <4>2. Len(both \o ao) = Len(both) + Len(ao) /\ IsLayout(both \o ao)
        BY <1>2, <4>1, Lengths, Joins, Zenon
      <4> QED BY <3>3, <3>4, <4>1, <4>2
    <3>6. PICK reads : reads = (x \o snr) \o ao
      OBVIOUS
    <3>7. reads # y /\ IsLayout(reads) /\ Reads(d)["FWK"]["SYNC_EVT"] = reads
      BY <1>6, <3>3, <3>4, <3>5, <3>6
    <3>8. <<"FWK", "SYNC_EVT">> \in Misread(c)
      BY <1>5, <2>3
    <3>9. Rightly(d, c, "FWK", "SYNC_EVT", y)
      BY <1>2, <3>7, <3>8, UnaddedIsRight
    <3> QED BY <3>2, <3>9
  <2> QED BY <2>2, <2>3
<1>10. PICK sync, tusr : sync = y \o osnr \o oao /\ tusr = U8("usrtrc") \o RKH_TRC_STR("nm")
  OBVIOUS
<1>11. Rightly(d, c, "FWK", "SYNC_EVT", sync) /\ Rightly(d, c, "FWK", "TUSR", tusr)
  BY <1>8, <1>9, <1>10
<1>12. RightTable(d, c, "FWK", [EXE_FUN |-> y, SYNC_EVT |-> sync, TUSR |-> tusr])
  BY <1>7, <1>11 DEF RightTable
<1>13. RKH_TR_FWK_calls(c) = Group(c, "FWK", [EXE_FUN |-> y, SYNC_EVT |-> sync, TUSR |-> tusr])
  BY <1>1, <1>10 DEF RKH_TR_FWK_calls
<1> QED BY <1>12, <1>13, GroupRight

(* What an allocation or a recycling says of the pool: if there is no      *)
(* minimum, the actor is shown under its label.                            *)
LEMMA ReadsPool ==
  ASSUME NEW c, NEW d, SameWidths(d, c), FieldsOf(c), Understood(d, c)
  PROVE  LET collected == RKH_TRC_SIG(c, "sig") \o U8("pid") \o U8("refc")
             pool == RKH_TRC_NBLK(c, "nblock") \o RKH_TRC_MP_NMIN(c) \o SYM(c, "actor")
         IN  \E p, x, y :
               /\ Three(p, x, y)
               /\ collected \o pool = p \o y
               /\ Reads(d)["FWK"]["GCR"] = p \o x
               /\ Reads(d)["FWK"]["AE"] = RKH_TRC_ES(c, "es") \o (p \o x)
               /\ Reads(d)["FWK"]["GC"] = collected
               /\ x = y <=> On(c, "MP_GET_LWM")
               /\ IsLayout(collected) /\ IsLayout(pool)
<1>1. PICK collected, nblock, nmin, min, actor :
        /\ collected = RKH_TRC_SIG(c, "sig") \o U8("pid") \o U8("refc")
        /\ nblock = RKH_TRC_NBLK(c, "nblock") /\ nmin = RKH_TRC_NBLK(c, "nmin")
        /\ min = RKH_TRC_MP_NMIN(c) /\ actor = SYM(c, "actor")
  OBVIOUS
<1>2. PICK x, y : /\ x = IF On(c, "MP_GET_LWM") THEN nmin \o actor ELSE SYM(c, "nmin")
                  /\ y = min \o actor
  OBVIOUS
<1>3. min = If(On(c, "MP_GET_LWM"), nmin)
  BY <1>1 DEF RKH_TRC_MP_NMIN
<1>4. IsLayout(collected) /\ IsLayout(nblock) /\ IsLayout(nmin) /\ IsLayout(min) /\ IsLayout(actor)
  <2>1. IsLayout(nblock) /\ IsLayout(nmin) /\ IsLayout(min) /\ IsLayout(actor)
    BY <1>1, <1>3, Joins DEF FieldsOf, SYM, If
  <2>2. IsLayout(RKH_TRC_SIG(c, "sig") \o U8("pid"))
    BY Joins DEF FieldsOf, U8
  <2> QED BY <1>1, <2>1, <2>2, Joins DEF FieldsOf, U8
<1>5. IsLayout(x) /\ IsLayout(y) /\ IsLayout(collected \o nblock)
  BY <1>2, <1>4, Joins DEF FieldsOf, SYM
<1>6. x = y <=> On(c, "MP_GET_LWM")
  <2>1. CASE On(c, "MP_GET_LWM")
    BY <1>2, <1>3, <2>1 DEF If
  <2>2. CASE ~On(c, "MP_GET_LWM")
    <3>1. x = SYM(c, "nmin") /\ y = actor
      BY <1>2, <1>3, <1>4, <2>2, Joins DEF If
    <3> QED BY <1>1, <2>2, <3>1, FieldsDiffer DEF SameWidths, SYM
  <2> QED BY <2>1, <2>2
<1>7. PICK pool : pool = nblock \o min \o actor
  OBVIOUS
<1>8. collected \o pool = (collected \o nblock) \o y /\ IsLayout(pool)
  <2>1. Three(nblock, min, actor) /\ Three(collected, nblock, y)
    BY <1>4, <1>5 DEF Three
  <2>2. pool = nblock \o y
    BY <1>2, <1>7, <2>1, Associates
  <2>3. (collected \o nblock) \o y = collected \o (nblock \o y)
    BY <2>1, Associates
  <2> QED BY <1>4, <1>5, <2>2, <2>3, Joins
<1>9. \A L : \A i \in {1, 2} :
        (L = <<"sig", "pid", "refc", "nblock", "nmin", "actor">> /\ i = 1) \/
        (L = <<"es", "sig", "pid", "refc", "nblock", "nmin", "actor">> /\ i = 2)
          => Allocated(d, L, i) = (collected \o nblock) \o x
  <2>1. ASSUME NEW L, NEW i \in {1, 2}, L[i] = "sig", L[i + 1] = "pid", L[i + 2] = "refc",
               L[i + 3] = "nblock", L[i + 4] = "nmin", L[i + 5] = "actor"
        PROVE  Allocated(d, L, i) = (collected \o nblock) \o x
    <3>1. /\ Trze(d, L, i) \o Char(L, i + 1) \o Char(L, i + 2) = collected
          /\ Trznb(d, L, i + 3) = nblock /\ Trznb(d, L, i + 4) = nmin
          /\ Ptr(d, L, i + 5) = actor /\ Ptr(d, L, i + 4) = SYM(c, "nmin")
      BY <1>1, <2>1 DEF SameWidths, Trze, Char, Trznb, Ptr, U8, SYM
    <3> QED BY <1>2, <3>1 DEF Allocated, Understood
  <2> QED BY <2>1
<1>10. /\ Reads(d)["FWK"]["GCR"] = (collected \o nblock) \o x
       /\ Reads(d)["FWK"]["AE"] = RKH_TRC_ES(c, "es") \o ((collected \o nblock) \o x)
       /\ Reads(d)["FWK"]["GC"] = collected
  <2>1. PICK L1, L2 : /\ L1 = <<"sig", "pid", "refc", "nblock", "nmin", "actor">>
                      /\ L2 = <<"es", "sig", "pid", "refc", "nblock", "nmin", "actor">>
    OBVIOUS
  <2>2. /\ Reads(d)["FWK"]["GCR"] = Allocated(d, L1, 1)
        /\ Reads(d)["FWK"]["AE"] = Trzes(d, L2, 1) \o Allocated(d, L2, 2)
    BY <2>1, FwkTable DEF h_gcr, h_ae
  <2>3. Trzes(d, L2, 1) = RKH_TRC_ES(c, "es")
    BY <2>1 DEF SameWidths, Trzes
  <2>4. Reads(d)["FWK"]["GC"] = collected
    BY <1>1, FwkTable DEF h_gc, SameWidths, Trze, Char, U8
  <2> QED BY <1>9, <2>1, <2>2, <2>3, <2>4
<1>11. PICK p : p = collected \o nblock
  OBVIOUS
<1>12. Three(p, x, y)
  BY <1>5, <1>11 DEF Three
<1>13. /\ Three(p, x, y) /\ collected \o pool = p \o y
       /\ Reads(d)["FWK"]["GCR"] = p \o x
       /\ Reads(d)["FWK"]["AE"] = RKH_TRC_ES(c, "es") \o (p \o x)
       /\ Reads(d)["FWK"]["GC"] = collected
       /\ x = y <=> On(c, "MP_GET_LWM")
       /\ IsLayout(collected) /\ IsLayout(pool)
  BY <1>4, <1>6, <1>8, <1>10, <1>11, <1>12
<1>14. pool = RKH_TRC_NBLK(c, "nblock") \o RKH_TRC_MP_NMIN(c) \o SYM(c, "actor")
  BY <1>1, <1>7
<1> QED BY <1>1, <1>13, <1>14, Zenon

(* The records of events: the size of an event pool's storage is read as a *)
(* long.                                                                   *)
LEMMA ReadsEvents ==
  ASSUME NEW c, Documented(c), NEW d, SameWidths(d, c), FieldsOf(c), Understood(d, c)
  PROVE  RightTable(d, c, "FWK", RKH_TR_FWK_events(c))
<1>1. PICK collected, pool, es, ep, ss, long, psize :
        /\ collected = RKH_TRC_SIG(c, "sig") \o U8("pid") \o U8("refc")
        /\ pool = RKH_TRC_NBLK(c, "nblock") \o RKH_TRC_MP_NMIN(c) \o SYM(c, "actor")
        /\ es = RKH_TRC_ES(c, "es") /\ ep = U8("ep") /\ ss = U32("ss")
        /\ long = Field("ss", SizeofLong) /\ psize = RKH_TRC_NBLK(c, "psize")
  OBVIOUS
<1>2. PICK p, x, y : /\ Three(p, x, y)
                     /\ collected \o pool = p \o y
                     /\ Reads(d)["FWK"]["GCR"] = p \o x
                     /\ Reads(d)["FWK"]["AE"] = es \o (p \o x)
                     /\ Reads(d)["FWK"]["GC"] = collected
                     /\ x = y <=> On(c, "MP_GET_LWM")
                     /\ IsLayout(collected) /\ IsLayout(pool)
  BY <1>1, ReadsPool
<1>3. IsLayout(es) /\ IsLayout(ep) /\ IsLayout(ss) /\ IsLayout(long) /\ IsLayout(psize)
  BY <1>1 DEF FieldsOf, U8, U32
<1>4. /\ \A e \in {"AE", "GCR"} : <<"FWK", e>> \in Misread(c) <=> ~On(c, "MP_GET_LWM")
      /\ <<"FWK", "EPREG">> \in Misread(c) <=> SizeofLong # 4
      /\ \A e \in {"EN", "EX", "GC"} : <<"FWK", e>> \notin Misread(c)
  BY MisreadAre
<1>5. Rightly(d, c, "FWK", "GCR", collected \o pool)
  <2>1. Rightly(d, c, "FWK", "GCR", p \o y)
    BY <1>2, <1>4, LastIsRight
  <2> QED BY <1>2, <2>1
<1>6. Rightly(d, c, "FWK", "AE", es \o collected \o pool)
  <2>1. PICK px, py : px = p \o x /\ py = p \o y
    OBVIOUS
  <2>2. px = py <=> x = y
    <3>1. Three(p, x, y)
      BY <1>2
    <3>2. p \o x = p \o y <=> x = y
      BY <3>1, Cancels
    <3> QED BY <2>1, <3>2
  <2>3. IsLayout(px) /\ IsLayout(py)
    BY <1>2, <2>1, Joins DEF Three
  <2>4. Three(es, px, py) /\ Three(es, collected, pool)
    BY <1>2, <1>3, <2>3 DEF Three
  <2>5. Reads(d)["FWK"]["AE"] = es \o px
    BY <1>2, <2>1
  <2>6. px = py <=> <<"FWK", "AE">> \notin Misread(c)
    BY <1>2, <1>4, <2>2
  <2>7. Rightly(d, c, "FWK", "AE", es \o py)
    BY <2>4, <2>5, <2>6, LastIsRight
  <2>8. (es \o collected) \o pool = es \o (collected \o pool)
    BY <2>4, Associates
  <2> QED BY <1>2, <2>1, <2>7, <2>8
<1>7. Rightly(d, c, "FWK", "EPREG", ep \o ss \o es \o psize)
  <2>1. Reads(d)["FWK"]["EPREG"] = ep \o long \o es \o psize
    BY <1>1, FwkTable DEF h_epreg, SameWidths, Char, Trzes, Trznb, U8
  <2>2. long = ss <=> SizeofLong = 4
    BY <1>1, FieldsDiffer DEF U32
  <2>3. PICK x1, y1, x2, y2 : /\ x1 = ep \o long /\ y1 = ep \o ss
                              /\ x2 = x1 \o es /\ y2 = y1 \o es
    OBVIOUS
  <2>4. Three(ep, long, ss)
    BY <1>3 DEF Three
  <2>5. x1 = y1 <=> long = ss
    <3>1. ep \o long = ep \o ss <=> long = ss
      BY <2>4, Cancels
    <3> QED BY <2>3, <3>1
  <2>6. Three(x1, y1, es)
    BY <1>3, <2>3, Joins DEF Three
  <2>7. x2 = y2 <=> x1 = y1
    <3>1. x1 \o es = y1 \o es <=> x1 = y1
      BY <2>6, Cancels
    <3> QED BY <2>3, <3>1
  <2>8. Three(x2, y2, psize)
    BY <1>3, <2>3, <2>6, Joins DEF Three
  <2>9. Reads(d)["FWK"]["EPREG"] = x2 \o psize
    BY <2>1, <2>3
  <2>10. x2 = y2 <=> <<"FWK", "EPREG">> \notin Misread(c)
    BY <1>4, <2>2, <2>5, <2>7
  <2>11. Rightly(d, c, "FWK", "EPREG", y2 \o psize)
    BY <2>8, <2>9, <2>10, FirstIsRight
  <2> QED BY <2>3, <2>11
<1>8. Rightly(d, c, "FWK", "EN", <<>>) /\ Rightly(d, c, "FWK", "EX", <<>>)
  <2>1. Reads(d)["FWK"]["EN"] = <<>> /\ Reads(d)["FWK"]["EX"] = <<>>
    BY FwkTable
  <2> QED BY <1>4, <2>1, Joins, SameIsRight
<1>9. Rightly(d, c, "FWK", "GC", collected)
  BY <1>2, <1>4, SameIsRight
<1>10. PICK ae, gcr, epreg : /\ ae = es \o collected \o pool /\ gcr = collected \o pool
                             /\ epreg = ep \o ss \o es \o psize
  OBVIOUS
<1>11. Rightly(d, c, "FWK", "AE", ae) /\ Rightly(d, c, "FWK", "GCR", gcr)
       /\ Rightly(d, c, "FWK", "EPREG", epreg)
  BY <1>5, <1>6, <1>7, <1>10
<1>12. PICK none : none = <<>>
  OBVIOUS
<1>13. Rightly(d, c, "FWK", "EN", none) /\ Rightly(d, c, "FWK", "EX", none)
  BY <1>8, <1>12
<1>14. PICK records : records = [EN |-> none, EX |-> none, EPREG |-> epreg, AE |-> ae,
                                 GC |-> collected, GCR |-> gcr]
  OBVIOUS
<1>15. RightTable(d, c, "FWK", records)
  BY <1>9, <1>11, <1>13, <1>14 DEF RightTable
<1>16. RKH_TR_FWK_events(c) = Group(c, "FWK", records)
  BY <1>1, <1>10, <1>12, <1>14 DEF RKH_TR_FWK_events
<1> QED BY <1>15, <1>16, GroupRight

(* All records of the framework.                                           *)
LEMMA ReadsFWK ==
  ASSUME NEW c, Documented(c), NEW d, SameWidths(d, c), FieldsOf(c), Understood(d, c)
  PROVE  RightTable(d, c, "FWK", Writes(c).FWK)
<1>1. PICK obj, st, fun, sig, ep, as :
        /\ obj = Named(c, "obj") /\ st = AO(c) \o obj /\ fun = Named(c, "func")
        /\ sig = RKH_TRC_SIG(c, "sig") \o RKH_TRC_STR("nm")
        /\ ep = U8("ep") \o RKH_TRC_STR("nm") /\ as = RKH_TRC_STR("file") \o U16("line")
  OBVIOUS
<1>2. /\ \A e \in {"OBJ", "AO", "TIMER", "QUEUE", "ACTOR"} : Rightly(d, c, "FWK", e, obj)
      /\ \A e \in {"STATE", "PSTATE"} : Rightly(d, c, "FWK", e, st)
      /\ Rightly(d, c, "FWK", "FUN", fun) /\ Rightly(d, c, "FWK", "SIG", sig)
      /\ Rightly(d, c, "FWK", "EPOOL", ep) /\ Rightly(d, c, "FWK", "ASSERT", as)
  BY <1>1, ReadsNames
<1>3. PICK objects, named, pools, asserts :
        /\ objects = [OBJ |-> obj, FUN |-> fun, SIG |-> sig]
        /\ named = [AO |-> obj, PSTATE |-> st]
        /\ pools = [TIMER |-> obj, EPOOL |-> ep, QUEUE |-> obj, ACTOR |-> obj]
        /\ asserts = [ASSERT |-> as]
  OBVIOUS
<1>4. /\ RightTable(d, c, "FWK", objects) /\ RightTable(d, c, "FWK", named)
      /\ RightTable(d, c, "FWK", pools) /\ RightTable(d, c, "FWK", asserts)
      /\ RightTable(d, c, "FWK", Entry("STATE", st))
  <2>1. RightTable(d, c, "FWK", Entry("STATE", st))
    BY <1>2, EntryRight
  <2>2. RightTable(d, c, "FWK", objects) /\ RightTable(d, c, "FWK", named)
    BY <1>2, <1>3 DEF RightTable
  <2>3. RightTable(d, c, "FWK", pools)
    <3>1. /\ Rightly(d, c, "FWK", "TIMER", obj) /\ Rightly(d, c, "FWK", "QUEUE", obj)
          /\ Rightly(d, c, "FWK", "ACTOR", obj) /\ Rightly(d, c, "FWK", "EPOOL", ep)
      BY <1>2
    <3> QED BY <1>3, <3>1 DEF RightTable
  <2>4. RightTable(d, c, "FWK", asserts)
    <3>1. Rightly(d, c, "FWK", "ASSERT", as)
      BY <1>2
    <3>2. asserts = [ASSERT |-> as]
      BY <1>3
    <3>3. DOMAIN asserts = {"ASSERT"} /\ asserts["ASSERT"] = as
      BY <3>2
    <3> QED BY <3>1, <3>3, Zenon DEF RightTable
  <2> QED BY <2>1, <2>2, <2>3, <2>4
<1>5. RightTable(d, c, "FWK", Entry("STATE", st) ++ named)
  BY <1>4, MergedRight
<1>6. PICK t1, t2, t3, t4, t5, t6 :
        /\ t1 = RKH_TR_FWK_events(c) /\ t2 = RKH_TR_FWK_objects(c) /\ t3 = RKH_TR_FWK_calls(c)
        /\ t4 = RKH_TR_FWK_ASSERT(c) /\ t5 = RKH_TR_FWK_states(c) /\ t6 = RKH_TR_FWK_pools(c)
  OBVIOUS
<1>7. /\ t2 = Group(c, "FWK", objects)
      /\ t4 = IF On(c, "ASSERT") THEN Group(c, "FWK", asserts) ELSE <<>>
      /\ t5 = Group(c, "FWK", Entry("STATE", st) ++ named)
      /\ t6 = Group(c, "FWK", pools)
  BY <1>1, <1>3, <1>6 DEF RKH_TR_FWK_objects, RKH_TR_FWK_ASSERT, RKH_TR_FWK_states,
     RKH_TR_FWK_pools
<1>8. RightTable(d, c, "FWK", t1) /\ RightTable(d, c, "FWK", t3)
  BY <1>6, ReadsEvents, ReadsCalls
<1>9. RightTable(d, c, "FWK", t2) /\ RightTable(d, c, "FWK", t5) /\ RightTable(d, c, "FWK", t6)
  BY <1>4, <1>5, <1>7, GroupRight
<1>10. RightTable(d, c, "FWK", t4)
  <2>1. RightTable(d, c, "FWK", Group(c, "FWK", asserts)) /\ RightTable(d, c, "FWK", <<>>)
    BY <1>4, GroupRight, EmptyRight
  <2> QED BY <1>7, <2>1
<1>11. RightTable(d, c, "FWK", t1 ++ t2)
  BY <1>8, <1>9, MergedRight
<1>12. RightTable(d, c, "FWK", t1 ++ t2 ++ t3)
  BY <1>8, <1>11, MergedRight
<1>13. RightTable(d, c, "FWK", t1 ++ t2 ++ t3 ++ t4)
  BY <1>10, <1>12, MergedRight
<1>14. RightTable(d, c, "FWK", t1 ++ t2 ++ t3 ++ t4 ++ t5)
  BY <1>9, <1>13, MergedRight
<1>15. RightTable(d, c, "FWK", t1 ++ t2 ++ t3 ++ t4 ++ t5 ++ t6)
  BY <1>9, <1>14, MergedRight
<1> QED BY <1>6, <1>15 DEF Writes

(* Every record of a build that is understood is read as it was written,   *)
(* unless it is known to be misread.                                       *)
LEMMA AllRight ==
  ASSUME NEW c, Documented(c), NEW d, Understood(d, c)
  PROVE  \A g \in DOMAIN Writes(c) : RightTable(d, c, g, Writes(c)[g])
<1>1. SameWidths(d, c) /\ FieldsOf(c)
  BY WidthsAgree
<1>2. /\ RightTable(d, c, "MP", RKH_TR_MP(c)) /\ RightTable(d, c, "RQ", RKH_TR_RQ(c))
      /\ RightTable(d, c, "SM", RKH_TR_SM(c)) /\ RightTable(d, c, "TIM", RKH_TR_TMR(c))
      /\ RightTable(d, c, "SMA", Writes(c).SMA) /\ RightTable(d, c, "FWK", Writes(c).FWK)
  BY <1>1, ReadsMP, ReadsRQ, ReadsSM, ReadsTMR, ReadsSMA, ReadsFWK
<1>3. /\ DOMAIN Writes(c) = {"MP", "RQ", "SMA", "SM", "TIM", "FWK"}
      /\ Writes(c).MP = RKH_TR_MP(c) /\ Writes(c).RQ = RKH_TR_RQ(c)
      /\ Writes(c).SM = RKH_TR_SM(c) /\ Writes(c).TIM = RKH_TR_TMR(c)
  BY DEF Writes
<1> QED BY <1>2, <1>3
-----------------------------------------------------------------------------
(* Numbers of bytes before the records' arguments.                         *)
LEMMA HeadersAgree ==
  ASSUME NEW c, Documented(c), NEW d, Understood(d, c)
  PROVE  /\ Header(d) = RKH_TRC_HDR(c)
         /\ IsLayout(RKH_TRC_HDR(c))
<1>1. PICK nseq, ts, width : /\ nseq = Field("nseq", 1) /\ ts = Field("ts", width)
                             /\ width = c.SIZEOF_TSTAMP \div 8
  BY Zenon
<1>2. RKH_TRC_TSTAMP(c) = If(On(c, "TSTAMP"), ts)
  <2>1. \/ c.SIZEOF_TSTAMP = 8 /\ width = 1
        \/ c.SIZEOF_TSTAMP = 16 /\ width = 2
        \/ c.SIZEOF_TSTAMP = 32 /\ width = 4
    BY <1>1 DEF Documented, Documented_PORT, Bits
  <2> QED BY <1>1, <2>1 DEF RKH_TRC_TSTAMP, U8, U16, U32
<1>3. RKH_TRC_HDR(c) = If(On(c, "NSEQ"), nseq) \o If(On(c, "TSTAMP"), ts)
  BY <1>1, <1>2 DEF RKH_TRC_HDR, U8
<1>4. Header(d) = If(On(c, "NSEQ"), nseq) \o If(On(c, "TSTAMP"), ts)
  BY <1>1 DEF Header, Understood, If
<1>5. IsLayout(If(On(c, "NSEQ"), nseq)) /\ IsLayout(If(On(c, "TSTAMP"), ts))
  BY <1>1, FieldIsLayout, Joins DEF If
<1> QED BY <1>3, <1>4, <1>5, Joins

(* A record is shown as expected, unless it is known to be misread.        *)
LEMMA RecordRight ==
  ASSUME NEW c, Documented(c), NEW d, Understood(d, c),
         NEW g \in DOMAIN Writes(c), NEW e \in DOMAIN Writes(c)[g]
  PROVE  Header(d) \o Reads(d)[g][e] = RKH_TRC_HDR(c) \o Writes(c)[g][e] \o Added(<<g, e>>)
           <=> <<g, e>> \notin Misread(c)
<1>1. PICK h, reads, layout, added :
        /\ h = RKH_TRC_HDR(c) /\ reads = Reads(d)[g][e] /\ layout = Writes(c)[g][e]
        /\ added = Added(<<g, e>>)
  OBVIOUS
<1>2. Header(d) = h /\ IsLayout(h)
  BY <1>1, HeadersAgree
<1>3. Rightly(d, c, g, e, layout)
  BY <1>1, AllRight DEF RightTable
<1>4. /\ IsLayout(layout) /\ IsLayout(reads)
      /\ reads = layout \o added <=> <<g, e>> \notin Misread(c)
  BY <1>1, <1>3 DEF Rightly
<1>5. IsLayout(added)
  BY <1>1, AddedAre
<1>6. Three(h, layout, added)
  BY <1>2, <1>4, <1>5 DEF Three
<1>7. (h \o layout) \o added = h \o (layout \o added)
  BY <1>6, Associates
<1>8. PICK all : all = layout \o added
  OBVIOUS
<1>9. Three(h, reads, all)
  BY <1>2, <1>4, <1>6, <1>8, Joins DEF Three
<1>10. h \o reads = h \o all <=> reads = all
  BY <1>9, Cancels
<1> QED BY <1>1, <1>2, <1>4, <1>7, <1>8, <1>10
-----------------------------------------------------------------------------
(* BytesUpTo() adds the widths.                                            *)
LEMMA BytesAdded ==
  ASSUME NEW layout, Len(layout) \in Nat
  PROVE  /\ BytesUpTo(layout)[0] = 0
         /\ \A i \in 1 .. Len(layout) :
              BytesUpTo(layout)[i] = BytesUpTo(layout)[i - 1] + layout[i][2]
<1> DEFINE next(q, i) == IF i = 0 THEN 0 ELSE q[i - 1] + layout[i][2]
           body(q, n) == [i \in 0 .. n |-> next(q, i)]
           D == {n \in Nat : \E q : q = body(q, n)}
<1>1. \A n \in Nat : n \in D
  <2>1. 0 \in D
    <3> DEFINE q == [i \in 0 .. 0 |-> 0]
    <3>1. \A i \in 0 .. 0 : next(q, i) = 0
      OBVIOUS
    <3> HIDE DEF next
    <3>2. q = body(q, 0)
      BY <3>1
    <3> QED BY <3>2, Zenon
  <2>2. ASSUME NEW n \in Nat, n \in D PROVE n + 1 \in D
    <3>1. PICK q : q = body(q, n)
      BY <2>2
    <3> DEFINE e(i) == IF i = n + 1 THEN q[n] + layout[n + 1][2] ELSE q[i]
               r == [i \in 0 .. n + 1 |-> e(i)]
    <3> HIDE DEF D, r
    <3>2. \A i \in 0 .. n : r[i] = q[i]
      BY DEF r
    <3>3. ASSUME NEW i \in 0 .. n + 1 PROVE e(i) = next(r, i)
      <4>1. CASE i = 0
        <5>1. q[0] = 0
          BY <3>1
        <5> QED BY <4>1, <5>1
      <4>2. CASE i \in 1 .. n
        <5>1. i \in 0 .. n /\ i - 1 \in 0 .. n /\ i # 0 /\ i # n + 1
          BY <4>2
        <5>2. q[i] = q[i - 1] + layout[i][2]
          BY <3>1, <5>1
        <5> QED BY <3>2, <5>1, <5>2
      <4>3. CASE i = n + 1
        <5>1. n \in 0 .. n /\ i - 1 = n /\ i # 0
          BY <4>3
        <5>2. r[n] = q[n]
          BY <3>2, <5>1
        <5> QED BY <4>3, <5>1, <5>2
      <4> QED BY <4>1, <4>2, <4>3
    <3> HIDE DEF e, next
    <3>4. r = body(r, n + 1)
      BY <3>3 DEF r
    <3> HIDE DEF body
    <3>5. \E u : u = body(u, n + 1)
      BY <3>4, Zenon
    <3> QED BY <3>5 DEF D
  <2> HIDE DEF D
  <2> QED BY <2>1, <2>2, NatSet
<1> DEFINE n == Len(layout)
           sum == CHOOSE q : q = body(q, n)
<1>2. BytesUpTo(layout) = sum
  BY DEF BytesUpTo
<1>3. sum = body(sum, n)
  <2> HIDE DEF body, sum, n
  <2>1. \E q : q = body(q, n)
    BY <1>1 DEF n
  <2> QED BY <2>1, Zenon DEF sum
<1> HIDE DEF sum, n, D
<1>4. n \in Nat
  BY DEF n
<1>5. sum[0] = 0
  BY <1>3, <1>4
<1>6. ASSUME NEW i \in 1 .. n PROVE sum[i] = sum[i - 1] + layout[i][2]
  <2>1. i \in 0 .. n /\ i # 0
    BY <1>4
  <2> QED BY <1>3, <2>1
<1> QED BY <1>2, <1>5, <1>6 DEF n

(* Two fields, one after the other.                                        *)
LEMMA TwoJoined ==
  ASSUME NEW a, NEW b
  PROVE  /\ Len(<<a>> \o <<b>>) = 2
         /\ (<<a>> \o <<b>>)[1] = a /\ (<<a>> \o <<b>>)[2] = b
<1>1. PICK s, t : s = <<a>> /\ t = <<b>>
  OBVIOUS
<1>2. s \in Seq({a, b}) /\ t \in Seq({a, b}) /\ Len(s) = 1 /\ Len(t) = 1 /\ s[1] = a /\ t[1] = b
  BY <1>1
<1>3. Len(s \o t) = 2 /\ (s \o t)[1] = s[1] /\ (s \o t)[2] = t[1]
  <2>1. PICK S : s \in Seq(S) /\ t \in Seq(S)
    BY <1>2
  <2>2. /\ Len(s \o t) = Len(s) + Len(t)
        /\ \A i \in 1 .. Len(s) + Len(t) : (s \o t)[i] = IF i <= Len(s) THEN s[i] ELSE t[i - Len(s)]
    BY <2>1, ConcatProperties
  <2> QED BY <1>2, <2>2
<1> QED BY <1>1, <1>2, <1>3

(* A header has as many bytes as Trazer skips, if there are timestamps.    *)
LEMMA HeaderBytes ==
  ASSUME NEW c, Documented(c)
  PROVE  /\ c.SIZEOF_TSTAMP \div 8 \in {1, 2, 4}
         /\ Bytes(RKH_TRC_HDR(c)) = (IF On(c, "NSEQ") THEN 1 ELSE 0)
              + (IF On(c, "TSTAMP") THEN c.SIZEOF_TSTAMP \div 8 ELSE 0)
<1>1. PICK width, h : width = c.SIZEOF_TSTAMP \div 8 /\ h = RKH_TRC_HDR(c)
  BY Zenon
<1>2. \/ c.SIZEOF_TSTAMP = 8 /\ width = 1
      \/ c.SIZEOF_TSTAMP = 16 /\ width = 2
      \/ c.SIZEOF_TSTAMP = 32 /\ width = 4
  BY <1>1 DEF Documented, Documented_PORT, Bits
<1>3. RKH_TRC_TSTAMP(c) = If(On(c, "TSTAMP"), <<<<"ts", width>>>>)
  BY <1>2 DEF RKH_TRC_TSTAMP, U8, U16, U32, Field
<1>4. h = If(On(c, "NSEQ"), <<<<"nseq", 1>>>>) \o If(On(c, "TSTAMP"), <<<<"ts", width>>>>)
  BY <1>1, <1>3 DEF RKH_TRC_HDR, U8, Field
<1>5. CASE On(c, "NSEQ") /\ On(c, "TSTAMP")
  <2>1. h = <<<<"nseq", 1>>>> \o <<<<"ts", width>>>>
    BY <1>4, <1>5 DEF If
  <2>2. Len(h) = 2 /\ h[1][2] = 1 /\ h[2][2] = width
    BY <2>1, TwoJoined
  <2>3. BytesUpTo(h)[0] = 0 /\ BytesUpTo(h)[1] = 1 /\ BytesUpTo(h)[2] = 1 + width
    BY <2>2, BytesAdded
  <2> QED BY <1>1, <1>2, <1>5, <2>2, <2>3 DEF Bytes
<1>6. CASE On(c, "NSEQ") /\ ~On(c, "TSTAMP")
  <2>1. h = <<<<"nseq", 1>>>>
    BY <1>4, <1>6 DEF If
  <2>2. Len(h) = 1 /\ h[1][2] = 1
    BY <2>1
  <2>3. BytesUpTo(h)[0] = 0 /\ BytesUpTo(h)[1] = 1
    BY <2>2, BytesAdded
  <2> QED BY <1>1, <1>2, <1>6, <2>2, <2>3 DEF Bytes
<1>7. CASE ~On(c, "NSEQ") /\ On(c, "TSTAMP")
  <2>1. h = <<<<"ts", width>>>>
    BY <1>4, <1>7 DEF If
  <2>2. Len(h) = 1 /\ h[1][2] = width
    BY <2>1
  <2>3. BytesUpTo(h)[0] = 0 /\ BytesUpTo(h)[1] = width
    BY <1>2, <2>2, BytesAdded
  <2> QED BY <1>1, <1>2, <1>7, <2>2, <2>3 DEF Bytes
<1>8. CASE ~On(c, "NSEQ") /\ ~On(c, "TSTAMP")
  <2>1. h = <<>> /\ Len(h) = 0
    BY <1>4, <1>8 DEF If
  <2>2. BytesUpTo(h)[0] = 0
    BY <2>1, BytesAdded
  <2> QED BY <1>1, <1>2, <1>8, <2>1, <2>2 DEF Bytes
<1> QED BY <1>5, <1>6, <1>7, <1>8
-----------------------------------------------------------------------------
(* The items of a user record, as they are written.                        *)
LEMMA ItemsWritten ==
  ASSUME NEW items \in Users, NEW c, Documented(c)
  PROVE  LET written == RKH_TUSR(c, items)
         IN  /\ Len(items) \in Nat \ {0} /\ Len(written) = Len(items)
             /\ DOMAIN items = 1 .. Len(items)
             /\ written \in Seq(Formats \X Nat)
             /\ \A i \in 1 .. Len(items) :
                  /\ items[i].fmt \in Formats /\ written[i][1] = items[i].fmt
                  /\ written[i][2] = ItemWidth(c, items[i]) /\ written[i][2] \in Nat \ {0}
<1> DEFINE Items == [fmt : Formats, n : Nat]
           w(item) == ItemWidth(c, item)
           pair(item) == <<item.fmt, w(item)>>
<1>1. items \in Seq(Items) /\ items # <<>>
  BY UsersAssumption
<1>2. ASSUME NEW item \in Items PROVE w(item) \in Nat \ {0}
  <2>1. item.fmt \in Formats /\ item.n \in Nat
    OBVIOUS
  <2>2. /\ RKH_TRC_SYM(c, "obj")[1][2] \in {1, 2, 4} /\ RKH_TRC_FUN(c, "func")[1][2] \in {1, 2, 4}
        /\ RKH_TRC_SIG(c, "event")[1][2] \in {1, 2, 4}
    BY DEF RKH_TRC_SYM, RKH_TRC_FUN, RKH_TRC_SIG, Address, Wide, U8, U16, U32, Field
  <2> HIDE DEF Items
  <2> QED BY <2>1, <2>2 DEF ItemWidth, Formats
<1> HIDE DEF Items, w
<1>3. Len(items) \in Nat \ {0} /\ DOMAIN items = 1 .. Len(items)
      /\ \A i \in 1 .. Len(items) : items[i] \in Items
  BY <1>1, LenProperties, ElementOfSeq, EmptySeq
<1>4. \A i \in 1 .. Len(items) : pair(items[i]) \in Formats \X Nat
  <2>1. \A item \in Items : item.fmt \in Formats
    BY DEF Items
  <2> QED BY <1>2, <1>3, <2>1
<1>5. RKH_TUSR(c, items) = [i \in 1 .. Len(items) |-> pair(items[i])]
  BY <1>3 DEF RKH_TUSR, w
<1> HIDE DEF pair
<1> DEFINE written == RKH_TUSR(c, items)
<1>6. written \in Seq(Formats \X Nat) /\ Len(written) = Len(items)
  <2>1. [i \in 1 .. Len(items) |-> pair(items[i])] \in [1 .. Len(items) -> Formats \X Nat]
    BY <1>4
  <2>2. written \in Seq(Formats \X Nat)
    BY <1>3, <1>5, <2>1, IsASeq
  <2>3. DOMAIN written = 1 .. Len(items)
    BY <1>5
  <2> QED BY <1>3, <2>2, <2>3, LenProperties
<1>7. \A i \in 1 .. Len(items) : written[i] = pair(items[i])
  BY <1>5
<1>8. \A item \in Items : item.fmt \in Formats
  BY DEF Items
<1> QED BY <1>2, <1>3, <1>6, <1>7, <1>8 DEF pair, w

(* The size that is left after an item that is not the last one.           *)
LEMMA RestIs ==
  ASSUME NEW items \in Users, NEW c, Documented(c), NEW i \in 1 .. Len(items) - 1,
         Rest(RKH_TUSR(c, items), 0) <= 255
  PROVE  Rest(RKH_TUSR(c, items), i) \in 2 .. 255
<1> DEFINE written == RKH_TUSR(c, items)
           n == Len(items)
           sum == BytesUpTo(written)
<1>1. /\ n \in Nat \ {0} /\ Len(written) = n
      /\ \A k \in 1 .. n : written[k][2] \in Nat \ {0}
  BY ItemsWritten
<1>2. sum[0] = 0 /\ \A k \in 1 .. n : sum[k] = sum[k - 1] + written[k][2]
  BY <1>1, BytesAdded
<1>3. Rest(written, 0) = sum[n] - sum[0] + (n - 0) /\ Rest(written, i) = sum[n] - sum[i] + (n - i)
  BY <1>1 DEF Rest, Bytes
<1> HIDE DEF written, n, sum
<1>4. i \in 1 .. n - 1
  BY DEF n
<1> DEFINE S == {k \in Nat : k <= n => sum[k] \in Nat}
           T == {k \in Nat : i + k <= n => sum[i + k] >= sum[i] + k}
<1>5. \A k \in Nat : k \in S
  <2>1. 0 \in S
    BY <1>2
  <2>2. ASSUME NEW k \in Nat, k \in S PROVE k + 1 \in S
    <3>1. SUFFICES ASSUME k + 1 <= n PROVE sum[k + 1] \in Nat
      OBVIOUS
    <3>2. k + 1 \in 1 .. n /\ (k + 1) - 1 = k /\ sum[k] \in Nat
      BY <1>1, <2>2, <3>1
    <3>3. sum[k + 1] = sum[k] + written[k + 1][2] /\ written[k + 1][2] \in Nat
      BY <1>1, <1>2, <3>2
    <3> QED BY <3>2, <3>3
  <2> HIDE DEF S
  <2> QED BY <2>1, <2>2, NatSet
<1>6. \A k \in 0 .. n : sum[k] \in Nat
  BY <1>1, <1>5
<1> HIDE DEF S
<1>7. \A k \in Nat : k \in T
  <2>1. 0 \in T
    BY <1>1, <1>4, <1>6
  <2>2. ASSUME NEW k \in Nat, k \in T PROVE k + 1 \in T
    <3>1. SUFFICES ASSUME i + (k + 1) <= n PROVE sum[i + (k + 1)] >= sum[i] + (k + 1)
      OBVIOUS
    <3>2. PICK j : j = i + k
      BY <1>4
    <3>3. /\ j \in 0 .. n /\ j + 1 \in 1 .. n /\ (j + 1) - 1 = j /\ i + (k + 1) = j + 1
          /\ i \in 0 .. n
      BY <1>1, <1>4, <3>1, <3>2
    <3>4. sum[j] >= sum[i] + k
      BY <1>1, <1>4, <2>2, <3>2, <3>3
    <3>5. sum[j + 1] = sum[j] + written[j + 1][2] /\ written[j + 1][2] \in Nat \ {0}
      BY <1>1, <1>2, <3>3
    <3>6. sum[j] \in Nat /\ sum[i] \in Nat
      BY <1>6, <3>3
    <3>7. PICK x, y, z, w : x = sum[i] /\ y = sum[j] /\ z = sum[j + 1] /\ w = written[j + 1][2]
      BY Zenon
    <3>8. z >= x + (k + 1)
      BY <3>4, <3>5, <3>6, <3>7
    <3> QED BY <3>3, <3>7, <3>8
  <2> HIDE DEF T
  <2> QED BY <2>1, <2>2, NatSet
<1>8. n - i \in T /\ i + (n - i) = n /\ i \in 0 .. n /\ n \in 0 .. n
  <2>1. n - i \in Nat /\ i + (n - i) = n /\ i \in 0 .. n /\ n \in 0 .. n
    BY <1>1, <1>4
  <2> HIDE DEF T
  <2> QED BY <1>7, <2>1
<1>9. sum[n] >= sum[i] + (n - i) /\ sum[i] \in Nat /\ sum[n] \in Nat
  BY <1>1, <1>6, <1>8
<1>10. sum[i] >= 1
  <2>1. 1 \in 1 .. n /\ i - 1 \in 0 .. n /\ i \in 1 .. n
    BY <1>1, <1>4
  <2>2. sum[i] = sum[i - 1] + written[i][2] /\ sum[i - 1] \in Nat /\ written[i][2] \in Nat \ {0}
    BY <1>1, <1>2, <1>6, <2>1
  <2> QED BY <2>2
<1>11. Rest(written, 0) <= 255
  BY DEF written
<1>12. Rest(written, i) \in 2 .. 255
  <2>1. PICK si, sn : si = sum[i] /\ sn = sum[n]
    BY Zenon
  <2>2. si \in Nat /\ sn \in Nat /\ si >= 1 /\ sn >= si + (n - i)
    BY <1>9, <1>10, <2>1
  <2>3. Rest(written, 0) = sn + n /\ Rest(written, i) = sn - si + (n - i)
    BY <1>1, <1>2, <1>3, <2>1, <2>2
  <2>4. PICK r0, ri, m : r0 = Rest(written, 0) /\ ri = Rest(written, i) /\ m = n
    BY Zenon
  <2>5. m \in Nat /\ i \in Nat /\ i >= 1 /\ i <= m - 1
    BY <1>1, <1>4, <2>4
  <2>6. r0 = sn + m /\ ri = sn - si + (m - i) /\ r0 <= 255 /\ sn >= si + (m - i)
    BY <1>11, <2>2, <2>3, <2>4
  <2>7. ri \in 2 .. 255
    BY <2>2, <2>5, <2>6
  <2> QED BY <2>4, <2>7
<1> QED BY <1>12 DEF written

(* The signed byte is not positive in the upper half only.                 *)
LEMMA Signed ==
  ASSUME NEW m \in 1 .. 255
  PROVE  Ri8(m) <= 0 <=> m \in 128 .. 255
<1>1. CASE m <= 127
  <2>1. (m + 128) % 256 = m + 128
    BY <1>1
  <2> QED BY <1>1, <2>1 DEF Ri8
<1>2. CASE m >= 128
  <2>1. (m + 128) % 256 = m - 128
    BY <1>2
  <2> QED BY <1>2, <2>1 DEF Ri8
<1> QED BY <1>1, <1>2

(* A set of numbers has a least one.                                       *)
LEMMA MinIsLeast ==
  ASSUME NEW S \in SUBSET Nat, S # {}
  PROVE  Min(S) \in S /\ \A y \in S : Min(S) <= y
<1> DEFINE R == {p \in Nat \X Nat : p[1] < p[2]}
<1>1. IsWellFoundedOn(R, Nat)
  BY NatWellFounded
<1> HIDE DEF R
<1>2. PICK x \in S : \A y \in S : <<y, x>> \notin R
  BY <1>1, WFMin
<1>3. ASSUME NEW y \in S PROVE x <= y
  <2>1. ~(y < x)
    BY <1>2 DEF R
  <2> QED BY <2>1
<1> QED BY <1>3 DEF Min

(* An item is read with its width, but for functions of another size.      *)
LEMMA ItemRead ==
  ASSUME NEW items \in Users, NEW c, Documented(c), NEW d, Understood(d, c),
         NEW i \in 1 .. Len(items)
  PROVE  LET item == RKH_TUSR(c, items)[i]
         IN  UsrReads(d, item[1], item[2]) # item[2]
               <=> items[i].fmt = "FUN" /\ c.SIZEOF_FUN_PTR # c.SIZEOF_PTR
<1>1. PICK fmt, width : fmt = items[i].fmt /\ width = ItemWidth(c, items[i])
  OBVIOUS
<1>2. RKH_TUSR(c, items)[i][1] = fmt /\ RKH_TUSR(c, items)[i][2] = width /\ fmt \in Formats
  BY <1>1, ItemsWritten
<1>3. SameWidths(d, c)
  BY WidthsAgree
<1>4. /\ RKH_TRC_SYM(c, "obj")[1][2] = d.sizeof_pointer
      /\ RKH_TRC_SIG(c, "event")[1][2] = sizeof_type(d.sizeof_sig)
      /\ RKH_TRC_FUN(c, "func")[1][2] = c.SIZEOF_FUN_PTR \div 8
  <2>1. \A name, w : Field(name, w)[1][2] = w
    BY DEF Field
  <2> QED BY <1>3, <2>1 DEF SameWidths
<1>5. c.SIZEOF_FUN_PTR \div 8 = d.sizeof_pointer <=> c.SIZEOF_FUN_PTR = c.SIZEOF_PTR
  BY DEF Understood, Documented, Documented_PORT
<1>6. CASE fmt \in {"I8", "UI8", "I16", "UI16", "I32", "UI32", "X32"}
  BY <1>1, <1>2, <1>6 DEF UsrReads, ItemWidth
<1>7. CASE fmt \in {"STR", "MEM"}
  BY <1>1, <1>2, <1>7 DEF UsrReads
<1>8. CASE fmt = "OBJ"
  BY <1>1, <1>2, <1>4, <1>8 DEF UsrReads, ItemWidth
<1>9. CASE fmt = "FUN"
  <2>1. width = c.SIZEOF_FUN_PTR \div 8 /\ UsrReads(d, fmt, width) = d.sizeof_pointer
    BY <1>1, <1>4, <1>9 DEF UsrReads, ItemWidth
  <2> QED BY <1>1, <1>2, <1>5, <1>9, <2>1
<1>10. CASE fmt = "ESIG"
  BY <1>1, <1>2, <1>4, <1>10 DEF UsrReads, ItemWidth
<1> QED BY <1>2, <1>6, <1>7, <1>8, <1>9, <1>10 DEF Formats

(* Which items are cut off, and how many are shown.                        *)
CutAfter(c, items) ==
  {i \in 1 .. Len(items) - 1 :
     Rest(RKH_TUSR(c, items), i) + (IF On(c, "CHK") THEN 0 ELSE -1) \in 128 .. 255}

(* All items are shown if none is cut off.                                 *)
LEMMA ShownAre ==
  ASSUME NEW items \in Users, NEW c, Documented(c), Rest(RKH_TUSR(c, items), 0) <= 255
  PROVE  LET m == NumShown(RKH_TUSR(c, items), IF On(c, "CHK") THEN 1 ELSE 0)
         IN  m \in 1 .. Len(items) /\ (m = Len(items) <=> CutAfter(c, items) = {})
<1>1. PICK written, n, chk : /\ written = RKH_TUSR(c, items) /\ n = Len(items)
                             /\ chk = IF On(c, "CHK") THEN 1 ELSE 0
  OBVIOUS
<1>2. n \in Nat \ {0} /\ Len(written) = n
  BY <1>1, ItemsWritten
<1>3. PICK stops : stops = {i \in 1 .. n : i = n \/ Ri8(Rest(written, i) + chk - 1) <= 0}
  OBVIOUS
<1>4. NumShown(written, chk) = Min(stops)
  BY <1>2, <1>3 DEF NumShown
<1>5. ASSUME NEW i \in 1 .. n - 1 PROVE i \in stops <=> i \in CutAfter(c, items)
  <2>1. PICK rest : rest = Rest(written, i)
    BY Zenon
  <2>2. rest \in 2 .. 255
    BY <1>1, <2>1, RestIs
  <2>3. PICK less : less = IF On(c, "CHK") THEN 0 ELSE -1
    OBVIOUS
  <2>4. rest + chk - 1 = rest + less /\ rest + less \in 1 .. 255
    BY <1>1, <2>2, <2>3
  <2>5. Ri8(rest + less) <= 0 <=> rest + less \in 128 .. 255
    BY <2>4, Signed
  <2>6. i \in stops <=> Ri8(rest + less) <= 0
    BY <1>2, <1>3, <2>1, <2>4
  <2>7. i \in CutAfter(c, items) <=> rest + less \in 128 .. 255
    BY <1>1, <2>1, <2>3 DEF CutAfter
  <2> QED BY <2>5, <2>6, <2>7
<1>6. stops \in SUBSET Nat /\ n \in stops /\ stops \in SUBSET (1 .. n)
  BY <1>2, <1>3
<1>7. Min(stops) \in stops /\ \A y \in stops : Min(stops) <= y
  BY <1>6, MinIsLeast
<1>8. CutAfter(c, items) \in SUBSET (1 .. n - 1)
  BY <1>1 DEF CutAfter
<1>9. PICK m : m = Min(stops)
  OBVIOUS
<1>10. m \in 1 .. n /\ m \in stops /\ \A y \in stops : m <= y
  BY <1>6, <1>7, <1>9
<1>11. m = n <=> CutAfter(c, items) = {}
  <2>1. ASSUME m # n PROVE CutAfter(c, items) # {}
    <3>1. m \in 1 .. n - 1
      BY <1>2, <1>10, <2>1
    <3> QED BY <1>5, <1>10, <3>1
  <2>2. ASSUME CutAfter(c, items) # {} PROVE m # n
    <3>1. PICK y : y \in CutAfter(c, items)
      BY <2>2
    <3>2. y \in 1 .. n - 1 /\ y \in stops
      BY <1>5, <1>8, <3>1
    <3>3. m <= y
      BY <1>10, <3>2
    <3> QED BY <1>2, <1>10, <3>2, <3>3
  <2> QED BY <2>1, <2>2
<1> QED BY <1>1, <1>4, <1>9, <1>10, <1>11

(* Part of a sequence is all of it if it is as long.                       *)
LEMMA PartOrAll ==
  ASSUME NEW S, NEW s \in Seq(S), NEW k \in 0 .. Len(s)
  PROVE  SubSeq(s, 1, k) = s <=> k = Len(s)
<1>1. Len(s) \in Nat /\ k \in Nat
  BY LenProperties
<1>2. Len(SubSeq(s, 1, k)) = k
  BY <1>1, SubSeqProperties
<1>3. SubSeq(s, 1, Len(s)) = s
  BY SubSeqFull
<1> QED BY <1>2, <1>3

(* A user record is shown as it was written, unless it is known to be cut. *)
LEMMA UserRight ==
  ASSUME NEW items \in Users, NEW c, Documented(c), NEW d, Understood(d, c),
         d.en_nseq = IF On(c, "NSEQ") THEN 1 ELSE 0,
         Rest(RKH_TUSR(c, items), 0) <= 255
  PROVE  usr_fmt(d, Bytes(RKH_TRC_HDR(c)), RKH_TUSR(c, items), IF On(c, "CHK") THEN 1 ELSE 0)
           = RKH_TUSR(c, items)
           <=> ~UserMisread(c, items)
<1>1. PICK written, n, chk, hdr :
        /\ written = RKH_TUSR(c, items) /\ n = Len(items)
        /\ chk = (IF On(c, "CHK") THEN 1 ELSE 0) /\ hdr = Bytes(RKH_TRC_HDR(c))
  BY Zenon
<1>2. n \in Nat \ {0} /\ Len(written) = n /\ written \in Seq(Formats \X Nat)
  BY <1>1, ItemsWritten
<1>3. hdr = d.en_nseq + d.sizeof_tstamp <=> On(c, "TSTAMP")
  <2>1. /\ d.sizeof_tstamp \in {1, 2, 4}
        /\ hdr = d.en_nseq + (IF On(c, "TSTAMP") THEN d.sizeof_tstamp ELSE 0)
    BY <1>1, HeaderBytes DEF Understood
  <2> QED BY <2>1
<1>4. PICK m : m = NumShown(written, chk)
  OBVIOUS
<1>5. m \in 1 .. n /\ (m = n <=> CutAfter(c, items) = {})
  BY <1>1, <1>4, ShownAre
<1>6. PICK misfits : misfits = {i \in 1 .. n : items[i].fmt = "FUN"
                                               /\ c.SIZEOF_FUN_PTR # c.SIZEOF_PTR}
  OBVIOUS
<1>7. PICK wrong :
        wrong = {i \in 1 .. m : UsrReads(d, written[i][1], written[i][2]) # written[i][2]}
  OBVIOUS
<1>8. wrong = misfits \cap (1 .. m)
  <2>1. \A i \in 1 .. n : UsrReads(d, written[i][1], written[i][2]) # written[i][2]
                            <=> items[i].fmt = "FUN" /\ c.SIZEOF_FUN_PTR # c.SIZEOF_PTR
    BY <1>1, ItemRead
  <2>2. \A i \in 1 .. m : i \in 1 .. n
    BY <1>2, <1>5
  <2> QED BY <1>6, <1>7, <2>1, <2>2
<1>9. PICK k : k = IF wrong = {} THEN m ELSE Min(wrong) - 1
  OBVIOUS
<1>10. wrong # {} => Min(wrong) \in 1 .. m
  <2>1. wrong \in SUBSET Nat /\ wrong \in SUBSET (1 .. m)
    BY <1>8, <1>5
  <2>2. wrong # {} => Min(wrong) \in wrong
    BY <2>1, MinIsLeast
  <2> QED BY <2>1, <2>2
<1>11. k \in 0 .. n /\ (k = n <=> wrong = {} /\ m = n)
  <2>1. CASE wrong = {}
    BY <1>2, <1>5, <1>9, <2>1
  <2>2. CASE wrong # {}
    <3>1. Min(wrong) \in 1 .. m
      BY <1>10, <2>2
    <3> QED BY <1>2, <1>5, <1>9, <2>2, <3>1
  <2> QED BY <2>1, <2>2
<1>12. k = n <=> misfits = {} /\ CutAfter(c, items) = {}
  <2>1. m = n => wrong = misfits
    BY <1>6, <1>8
  <2>2. misfits = {} => wrong = {}
    BY <1>8
  <2> QED BY <1>5, <1>11, <2>1, <2>2
<1>13. usr_fmt(d, hdr, written, chk) =
         IF ~On(c, "TSTAMP") THEN <<>> ELSE SubSeq(written, 1, k)
  BY <1>3, <1>4, <1>7, <1>9 DEF usr_fmt
<1>14. SubSeq(written, 1, k) = written <=> k = n
  BY <1>2, <1>11, PartOrAll
<1>15. written # <<>>
  BY <1>2, EmptySeq
<1>16. UserMisread(c, items) <=> ~On(c, "TSTAMP") \/ misfits # {} \/ CutAfter(c, items) # {}
  <2>1. DOMAIN items = 1 .. n
    BY <1>1, ItemsWritten
  <2>2. misfits # {} <=> /\ c.SIZEOF_FUN_PTR # c.SIZEOF_PTR
                         /\ \E i \in DOMAIN items : items[i].fmt = "FUN"
    BY <1>6, <2>1
  <2>3. CutAfter(c, items) # {} <=>
          \E i \in 1 .. Len(items) - 1 :
            Rest(RKH_TUSR(c, items), i) + (IF On(c, "CHK") THEN 0 ELSE -1) \in 128 .. 255
    BY Zenon DEF CutAfter
  <2> QED BY <2>2, <2>3, Zenon DEF UserMisread
<1>17. usr_fmt(d, hdr, written, chk) = written <=> ~UserMisread(c, items)
  <2>1. CASE On(c, "TSTAMP")
    BY <1>12, <1>13, <1>14, <1>16, <2>1
  <2>2. CASE ~On(c, "TSTAMP")
    BY <1>13, <1>15, <1>16, <2>2
  <2> QED BY <2>1, <2>2
<1> QED BY <1>1, <1>17, Zenon
-----------------------------------------------------------------------------
(* User records of which Trazer counts all the bytes: it does so in eight  *)
(* bits.                                                                   *)
ShortUsers == \A c \in Builds : \A items \in Users : Rest(RKH_TUSR(c, items), 0) <= 255

(* Identifiers of records a build writes.                                  *)
Writable(c, id, items) ==
  \/ id = Config
  \/ id = User /\ items \in Users
  \/ \E g \in DOMAIN Writes(c) : \E e \in DOMAIN Writes(c)[g] : id = <<g, e>>

(* What is in flight was written by the build of its run.                  *)
Recorded ==
  \A i \in 1 .. Len(stream) : Writable(runs[stream[i].run], stream[i].id, stream[i].items)

(* CONFIG_T once a build has told its options.                             *)
LEMMA ToldIsUnderstood ==
  ASSUME Shape, AsTold, heard # 0
  PROVE  /\ runs[heard] \in Builds /\ Documented(runs[heard])
         /\ Understood(configs, runs[heard])
         /\ configs.en_nseq = IF On(runs[heard], "NSEQ") THEN 1 ELSE 0
<1>1. runs[heard] \in Builds /\ Documented(runs[heard])
  BY BuildsAssumption, ElementOfSeq, LenProperties DEF Shape
<1>2. KnowsTheBuild
  BY KnownIsKnown
<1>3. Understood(configs, runs[heard])
  BY <1>2 DEF KnowsTheBuild, Understood
<1>4. configs.en_nseq = IF On(runs[heard], "NSEQ") THEN 1 ELSE 0
  <2>1. PICK r : r = RKH_TR_FWK_TCFG(runs[heard])
    OBVIOUS
  <2>2. configs = h_tcfg(r)
    BY <2>1 DEF AsTold, Told
  <2>3. r.flags[16] = IF On(runs[heard], FlagBits[16]) THEN 1 ELSE 0
    BY <2>1 DEF RKH_TR_FWK_TCFG, FlagBits
  <2>4. FlagBits[16] = "NSEQ"
    BY DEF FlagBits
  <2>5. configs.en_nseq = r.flags[16]
    BY <2>2 DEF h_tcfg
  <2> QED BY <2>3, <2>4, <2>5
<1> QED BY <1>1, <1>3, <1>4

(* Nothing is in flight at first.                                          *)
LEMMA InitRecorded == Init => Recorded /\ RightlyShown
<1> SUFFICES ASSUME Init PROVE Recorded /\ RightlyShown
  OBVIOUS
<1>1. Len(stream) = 0 /\ line = NoLine
  BY EmptySeq DEF Init
<1> QED BY <1>1 DEF Recorded, RightlyShown

(* Only what a build writes gets into the stream.                          *)
LEMMA NextRecorded == IInv /\ Recorded /\ [Next]_vars => Recorded'
<1> SUFFICES ASSUME IInv, Recorded, [Next]_vars PROVE Recorded'
  OBVIOUS
<1>1. /\ runs \in Seq(Builds) /\ stream \in Seq(Range(stream)) /\ Len(stream) \in Nat
      /\ \A i \in 1 .. Len(stream) : stream[i].run \in 1 .. Len(runs)
      /\ \A i \in 1 .. Len(stream) : Writable(runs[stream[i].run], stream[i].id, stream[i].items)
  BY LenProperties DEF IInv, Shape, Recorded
<1>2. ASSUME NEW c \in Builds, Start(c) PROVE Recorded'
  <2>1. PICK r, rs : /\ r = [run |-> Len(runs) + 1, id |-> Config, items |-> <<>>]
                     /\ rs = Append(runs, c)
    OBVIOUS
  <2>2. \A i \in 1 .. Len(runs) : rs[i] = runs[i]
    BY <1>1, <2>1, AppendProperties
  <2>3. /\ Len(Append(stream, r)) = Len(stream) + 1 /\ Append(stream, r)[Len(stream) + 1] = r
        /\ \A i \in 1 .. Len(stream) : Append(stream, r)[i] = stream[i]
    BY <1>1, Appended
  <2>4. r.id = Config
    BY <2>1
  <2>5. runs' = rs /\ (stream' = stream \/ stream' = Append(stream, r))
    BY <1>2, <2>1 DEF Start
  <2>6. \A i \in 1 .. Len(stream') :
          stream'[i] = r \/ (i \in 1 .. Len(stream) /\ stream'[i] = stream[i])
    BY <1>1, <2>3, <2>5
  <2>7. ASSUME NEW i \in 1 .. Len(stream')
        PROVE  Writable(rs[stream'[i].run], stream'[i].id, stream'[i].items)
    <3>1. CASE stream'[i] = r
      BY <2>4, <3>1 DEF Writable
    <3>2. CASE i \in 1 .. Len(stream) /\ stream'[i] = stream[i]
      BY <1>1, <2>2, <3>2
    <3> QED BY <2>6, <3>1, <3>2
  <2> QED BY <2>5, <2>7 DEF Recorded
<1>3. ASSUME NEW id, NEW items, Send(Record(id, items)), Writable(runs[Len(runs)], id, items)
      PROVE  Recorded'
  <2>1. PICK r : r = Record(id, items)
    OBVIOUS
  <2>2. r.run = Len(runs) /\ r.id = id /\ r.items = items
    BY <2>1 DEF Record
  <2>3. runs' = runs /\ stream' = Append(stream, r)
    BY <1>3, <2>1 DEF Send
  <2>4. /\ Len(Append(stream, r)) = Len(stream) + 1 /\ Append(stream, r)[Len(stream) + 1] = r
        /\ \A i \in 1 .. Len(stream) : Append(stream, r)[i] = stream[i]
    BY <1>1, Appended
  <2>5. ASSUME NEW i \in 1 .. Len(stream')
        PROVE  Writable(runs[stream'[i].run], stream'[i].id, stream'[i].items)
    <3>1. CASE i = Len(stream) + 1
      BY <1>3, <2>2, <2>3, <2>4, <3>1
    <3>2. CASE i \in 1 .. Len(stream)
      BY <1>1, <2>3, <2>4, <3>2
    <3> QED BY <1>1, <2>3, <2>4, <3>1, <3>2
  <2> QED BY <2>3, <2>5 DEF Recorded
<1>4. CASE Trace
  <2>1. runs # <<>> /\ Last(runs) = runs[Len(runs)] /\ Last(runs) \in Builds
    <3>1. runs # <<>>
      BY <1>4 DEF Trace
    <3>2. Len(runs) \in 1 .. Len(runs)
      BY <1>1, <3>1, LenProperties, EmptySeq
    <3> QED BY <1>1, <3>1, <3>2, ElementOfSeq DEF Last
  <2>2. Layouts[Last(runs)] = Writes(Last(runs))
    BY <2>1 DEF Layouts
  <2>3. PICK g, e : /\ g \in DOMAIN Writes(Last(runs)) /\ e \in DOMAIN Writes(Last(runs))[g]
                    /\ Send(Record(<<g, e>>, <<>>))
    BY <1>4, <2>2 DEF Trace
  <2>4. Writable(Last(runs), <<g, e>>, <<>>)
    BY <2>3, Zenon DEF Writable
  <2> QED BY <1>3, <2>1, <2>3, <2>4
<1>5. CASE TraceUser
  <2>1. PICK items \in Users : Send(Record(User, items))
    BY <1>5 DEF TraceUser
  <2>2. Writable(runs[Len(runs)], User, items)
    BY <2>1 DEF Writable
  <2> QED BY <1>3, <2>1, <2>2
<1>6. ASSUME stream # <<>>, stream' = Tail(stream), runs' = runs PROVE Recorded'
  <2>1. /\ Len(stream) \in Nat \ {0} /\ Len(Tail(stream)) = Len(stream) - 1
        /\ \A i \in 1 .. Len(stream) - 1 : Tail(stream)[i] = stream[i + 1]
    BY <1>1, <1>6, Shifted
  <2>2. \A i \in 1 .. Len(stream') : i + 1 \in 1 .. Len(stream) /\ stream'[i] = stream[i + 1]
    BY <1>6, <2>1
  <2> QED BY <1>1, <1>6, <2>2 DEF Recorded
<1>7. CASE Lose
  BY <1>6, <1>7 DEF Lose
<1>8. CASE stream # <<>> /\ (Hear(Head(stream)) \/ Show(Head(stream)) \/ Refuse(Head(stream)))
  <2>1. Take(Head(stream))
    BY <1>8 DEF Hear, Show, Refuse
  <2> QED BY <1>6, <1>8, <2>1 DEF Take
<1>9. CASE UNCHANGED vars
  BY <1>9 DEF vars, Recorded
<1> QED BY <1>2, <1>4, <1>5, <1>7, <1>8, <1>9 DEF Next

(* What is shown of a record is right, if the configuration of its run is  *)
(* held.                                                                   *)
LEMMA ShowRight ==
  ASSUME ShortUsers, IInv, Recorded, stream # <<>>, Show(Head(stream))
  PROVE  RightlyShown'
<1>1. PICK r : r = Head(stream)
  OBVIOUS
<1>2. r = stream[1] /\ 1 \in 1 .. Len(stream) /\ r.run \in 1 .. Len(runs)
  BY <1>1, Shifted DEF IInv, Shape
<1>3. PICK c : c = runs[r.run]
  OBVIOUS
<1>4. PICK shown : shown = IF r.id = User
                           THEN usr_fmt(configs, Bytes(RKH_TRC_HDR(c)), RKH_TUSR(c, r.items),
                                        IF On(c, "CHK") THEN 1 ELSE 0)
                           ELSE Header(configs) \o Reads(configs)[r.id[1]][r.id[2]]
  OBVIOUS
<1>5. /\ r.id # Config /\ runs' = runs /\ heard' = heard
      /\ line' = [run |-> r.run, id |-> r.id, items |-> r.items, shown |-> shown]
  BY <1>1, <1>3, <1>4 DEF Show, Take, Build
<1>6. line'.run = r.run /\ line'.id = r.id /\ line'.items = r.items /\ line'.shown = shown
  BY <1>5
<1>7. SUFFICES ASSUME r.run = heard
               PROVE  shown = Expected(c, r.id, r.items) <=> Readable(c, r.id, r.items)
  BY <1>3, <1>5, <1>6 DEF RightlyShown
<1>8. heard # 0 /\ Shape /\ AsTold
  BY <1>2, <1>7 DEF IInv, Shape
<1>9. /\ c \in Builds /\ Documented(c) /\ Understood(configs, c)
      /\ configs.en_nseq = IF On(c, "NSEQ") THEN 1 ELSE 0
  BY <1>3, <1>7, <1>8, ToldIsUnderstood
<1>10. Writable(c, r.id, r.items)
  BY <1>2, <1>3 DEF Recorded
<1>11. CASE r.id = User /\ r.items \in Users
  <2>1. Rest(RKH_TUSR(c, r.items), 0) <= 255
    BY <1>9, <1>11 DEF ShortUsers
  <2>2. shown = RKH_TUSR(c, r.items) <=> ~UserMisread(c, r.items)
    BY <1>4, <1>9, <1>11, <2>1, UserRight
  <2> QED BY <1>11, <2>2 DEF Expected, Readable
<1>12. ASSUME NEW g \in DOMAIN Writes(c), NEW e \in DOMAIN Writes(c)[g], r.id = <<g, e>>
       PROVE  shown = Expected(c, r.id, r.items) <=> Readable(c, r.id, r.items)
  <2>1. g # "USR"
    BY <1>12 DEF Writes
  <2>2. r.id # User /\ r.id[1] = g /\ r.id[2] = e
    BY <1>12, <2>1 DEF User
  <2>3. Layouts[c] = Writes(c)
    BY <1>9 DEF Layouts
  <2>4. PICK reads, all, added :
          /\ reads = Header(configs) \o Reads(configs)[g][e]
          /\ added = Added(<<g, e>>)
          /\ all = RKH_TRC_HDR(c) \o Writes(c)[g][e] \o Added(<<g, e>>)
    OBVIOUS
  <2>5. reads = all <=> <<g, e>> \notin Misread(c)
    BY <1>9, <1>12, <2>4, RecordRight
  <2>6. shown = reads
    BY <1>4, <2>2, <2>4
  <2>7. Expected(c, r.id, r.items) = all
    BY <1>12, <2>2, <2>3, <2>4 DEF Expected
  <2>8. Readable(c, r.id, r.items) <=> <<g, e>> \notin Misread(c)
    BY <1>12, <2>2 DEF Readable
  <2> QED BY <2>5, <2>6, <2>7, <2>8
<1> QED BY <1>5, <1>10, <1>11, <1>12 DEF Writable

(* A step that shows nothing says nothing wrong.                           *)
LEMMA NextRight ==
  ASSUME ShortUsers
  PROVE  IInv /\ Recorded /\ RightlyShown /\ [Next]_vars => RightlyShown'
<1> SUFFICES ASSUME IInv, Recorded, RightlyShown, [Next]_vars PROVE RightlyShown'
  OBVIOUS
<1>1. CASE stream # <<>> /\ Show(Head(stream))
  BY <1>1, ShowRight
<1>2. ASSUME line' = NoLine PROVE RightlyShown'
  BY <1>2 DEF RightlyShown
<1>3. CASE UNCHANGED vars
  <2>1. runs' = runs /\ heard' = heard /\ line' = line
    BY <1>3 DEF vars
  <2> QED BY <2>1 DEF RightlyShown
<1>4. CASE (\E c \in Builds : Start(c)) \/ Trace \/ TraceUser \/ Lose
  BY <1>2, <1>4 DEF Start, Trace, TraceUser, Send, Lose
<1>5. CASE Hear(Head(stream)) \/ Refuse(Head(stream))
  BY <1>2, <1>5 DEF Hear, Refuse
<1> QED BY <1>1, <1>3, <1>4, <1>5 DEF Next

(* Whatever documented build the target is, once Trazer has heard of it    *)
(* every record but those of Misread is shown with each field under its    *)
(* label and with its width, and those of Misread never are; the records a *)
(* user composes are shown whole, but for those UserMisread describes.     *)
THEOREM RecordsShown == ASSUME ShortUsers PROVE Spec => []RightlyShown
<1>1. Init => IInv /\ Recorded /\ RightlyShown
  BY InitIInv, InitRecorded
<1>2. IInv /\ Recorded /\ RightlyShown /\ [Next]_vars => (IInv /\ Recorded /\ RightlyShown)'
  BY NextIInv, NextRecorded, NextRight
<1> QED BY <1>1, <1>2, PTL DEF Spec
=============================================================================
