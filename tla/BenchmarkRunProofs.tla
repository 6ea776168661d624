-------------------------- MODULE BenchmarkRunProofs --------------------------
(***************************************************************************)
(* Proofs about BenchmarkRun for every number of prints, bytes, samples    *)
(* and stalls, and every choice of options.                                *)
(*                                                                         *)
(* IInv says at each place of main what has been started and not stopped   *)
(* (HelpersInStep), where the prints are (CopyInStep), what the sampler    *)
(* has seen (SamplesGrow) and how far the report has come (ReportInOrder). *)
(***************************************************************************)
EXTENDS BenchmarkRun, SequenceTheorems, TLAPS

\* What runPhase has to stop is a sequence of its helpers.
LEMMA StopOrderType == ASSUME opts \in Options PROVE StopOrder \in Seq(Helpers)
<1>1. opts.progress \in BOOLEAN /\ opts.sampling \in BOOLEAN
  BY DEF Options
<1>2. /\ <<>> \in Seq(Helpers) /\ <<"printer">> \in Seq(Helpers)
      /\ <<"watchdog">> \in Seq(Helpers) /\ <<"sampler">> \in Seq(Helpers)
  BY DEF Helpers
<1>3. /\ (IF opts.progress THEN <<"printer">> ELSE <<>>) \in Seq(Helpers)
      /\ <<"watchdog">> \in Seq(Helpers)
      /\ (IF opts.sampling THEN <<"sampler">> ELSE <<>>) \in Seq(Helpers)
  BY <1>2
<1> QED
  BY <1>3, ConcatProperties DEF StopOrder

\* Something is contained in a sequence if it is its head or in its tail.
LEMMA HeadOrTail ==
  ASSUME NEW S, NEW s \in Seq(S), s # <<>>, NEW e
  PROVE  /\ Head(s) \in S /\ Tail(s) \in Seq(S)
         /\ Contains(s, e) <=> Head(s) = e \/ Contains(Tail(s), e)
<1>1. /\ Tail(s) \in Seq(S) /\ Len(Tail(s)) = Len(s) - 1 /\ Len(s) \in Nat /\ Len(s) > 0
      /\ \A k \in 1 .. Len(Tail(s)) : Tail(s)[k] = s[k + 1]
      /\ Head(s) = s[1] /\ Head(s) \in S
  OBVIOUS
<1>2. \A k \in 2 .. Len(s) : k - 1 \in 1 .. Len(Tail(s)) /\ s[k] = Tail(s)[k - 1]
  BY <1>1
<1>3. ASSUME Contains(s, e) PROVE Head(s) = e \/ Contains(Tail(s), e)
  <2>1. PICK k \in 1 .. Len(s) : s[k] = e
    BY <1>3 DEF Contains
  <2>2. k = 1 \/ k \in 2 .. Len(s)
    BY <1>1
  <2> QED
    BY <1>1, <1>2, <2>1, <2>2 DEF Contains
<1>4. ASSUME Contains(Tail(s), e) PROVE Contains(s, e)
  <2>1. PICK k \in 1 .. Len(Tail(s)) : Tail(s)[k] = e
    BY <1>4 DEF Contains
  <2>2. k + 1 \in 1 .. Len(s) /\ s[k + 1] = e
    BY <1>1, <2>1
  <2> QED
    BY <2>2 DEF Contains
<1>5. ASSUME Head(s) = e PROVE Contains(s, e)
  <2>1. 1 \in 1 .. Len(s)
    BY <1>1
  <2> QED
    BY <1>1, <1>5, <2>1 DEF Contains
<1> QED
  BY <1>1, <1>3, <1>4, <1>5

\* A prefix, element by element; it grows by the next element.
LEMMA PrefixGrows ==
  ASSUME NEW S, NEW s \in Seq(S), NEW t \in Seq(S)
  PROVE  /\ IsPrefix(s, t) <=>
              Len(s) <= Len(t) /\ \A k \in 1 .. Len(s) : s[k] = t[k]
         /\ IsPrefix(s, t) /\ Len(s) < Len(t) =>
              /\ Append(s, t[Len(s) + 1]) \in Seq(S)
              /\ IsPrefix(Append(s, t[Len(s) + 1]), t)
         /\ IsPrefix(s, t) /\ Len(s) = Len(t) => s = t
<1>1. /\ Len(s) \in Nat /\ Len(t) \in Nat
      /\ \A k \in 1 .. Len(t) : t[k] \in S
  BY LenProperties, ElementOfSeq
<1>2. ASSUME NEW r \in Seq(S)
      PROVE  IsPrefix(r, t) <=> Len(r) <= Len(t) /\ \A k \in 1 .. Len(r) : r[k] = t[k]
  <2>1. CASE Len(r) <= Len(t)
    <3>1. /\ SubSeq(r, 1, Len(r)) \in Seq(S) /\ Len(SubSeq(r, 1, Len(r))) = Len(r)
          /\ \A k \in 1 .. Len(r) : SubSeq(r, 1, Len(r))[k] = r[k]
      BY SubSeqProperties
    <3>2. /\ SubSeq(t, 1, Len(r)) \in Seq(S) /\ Len(SubSeq(t, 1, Len(r))) = Len(r)
          /\ \A k \in 1 .. Len(r) : SubSeq(t, 1, Len(r))[k] = t[k]
      BY <2>1, <1>1, SubSeqProperties
    <3>3. SubSeq(r, 1, Len(r)) = SubSeq(t, 1, Len(r)) <=> \A k \in 1 .. Len(r) : r[k] = t[k]
      BY <3>1, <3>2, SeqEqual
    <3> QED
      BY <2>1, <3>3 DEF IsPrefix
  <2>2. CASE ~(Len(r) <= Len(t))
    BY <2>2 DEF IsPrefix
  <2> QED
    BY <2>1, <2>2
<1>3. ASSUME IsPrefix(s, t), Len(s) < Len(t)
      PROVE  /\ Append(s, t[Len(s) + 1]) \in Seq(S)
             /\ IsPrefix(Append(s, t[Len(s) + 1]), t)
  <2>1. Len(s) + 1 \in 1 .. Len(t)
    BY <1>1, <1>3
  <2> DEFINE r == Append(s, t[Len(s) + 1])
  <2>2. r \in Seq(S) /\ Len(r) = Len(s) + 1 /\ r[Len(s) + 1] = t[Len(s) + 1]
        /\ \A k \in 1 .. Len(s) : r[k] = s[k]
    BY <1>1, <2>1, AppendProperties
  <2>3. \A k \in 1 .. Len(r) : k \in 1 .. Len(s) \/ k = Len(s) + 1
    BY <1>1, <2>2
  <2>4. \A k \in 1 .. Len(s) : s[k] = t[k]
    BY <1>2, <1>3
  <2>5. Len(r) <= Len(t) /\ \A k \in 1 .. Len(r) : r[k] = t[k]
    BY <1>1, <2>1, <2>2, <2>3, <2>4
  <2> HIDE DEF r
  <2>6. IsPrefix(r, t)
    BY <1>2, <2>2, <2>5
  <2> QED
    BY <2>2, <2>6 DEF r
<1>4. ASSUME IsPrefix(s, t), Len(s) = Len(t) PROVE s = t
  BY <1>2, <1>4, SeqEqual
<1>5. IsPrefix(s, t) <=> Len(s) <= Len(t) /\ \A k \in 1 .. Len(s) : s[k] = t[k]
  BY <1>2
<1>6. IsPrefix(s, t) /\ Len(s) < Len(t) =>
        /\ Append(s, t[Len(s) + 1]) \in Seq(S)
        /\ IsPrefix(Append(s, t[Len(s) + 1]), t)
  BY <1>3
<1>7. IsPrefix(s, t) /\ Len(s) = Len(t) => s = t
  BY <1>4
<1> QED
  BY <1>5, <1>6, <1>7

\* The files of a report are named apart; its last one is not among the others.
LEMMA FilesAre ==
  ASSUME opts \in Options
  PROVE  /\ Files \in Seq(FileNames) /\ Len(Files) \in {4, 5}
         /\ \A k \in 1 .. Len(Files) : Files[k] = Last(Files) => k = Len(Files)
<1> DEFINE A == <<"config", "env", "sweep", "summary">>
           B == IF opts.plot THEN <<"timeseries">> ELSE <<>>
<1>1. /\ A \in Seq(FileNames) /\ Len(A) = 4 /\ A[1] = "config" /\ A[2] = "env"
      /\ A[3] = "sweep" /\ A[4] = "summary"
  BY DEF FileNames
<1>2. B \in Seq(FileNames) /\ (Len(B) = 0 \/ (Len(B) = 1 /\ B[1] = "timeseries"))
  <2>1. <<"timeseries">> \in Seq(FileNames) /\ <<>> \in Seq(FileNames)
    BY DEF FileNames
  <2>2. CASE opts.plot
    BY <2>1, <2>2
  <2>3. CASE ~opts.plot
    BY <2>1, <2>3
  <2> QED
    BY <2>2, <2>3
<1>3. Files = A \o B
  BY DEF Files
<1> HIDE DEF A, B
<1>4. /\ Files \in Seq(FileNames) /\ Len(Files) = 4 + Len(B)
      /\ \A k \in 1 .. 4 + Len(B) : Files[k] = IF k <= 4 THEN A[k] ELSE B[k - 4]
  <2>1. /\ A \o B \in Seq(FileNames) /\ Len(A \o B) = Len(A) + Len(B)
        /\ \A k \in 1 .. Len(A) + Len(B) :
             (A \o B)[k] = IF k <= Len(A) THEN A[k] ELSE B[k - Len(A)]
    BY <1>1, <1>2, ConcatProperties
  <2> QED
    BY <1>1, <1>2, <1>3, <2>1
<1>5. /\ Files[1] = "config" /\ Files[2] = "env" /\ Files[3] = "sweep" /\ Files[4] = "summary"
      /\ Len(B) = 1 => Files[5] = "timeseries"
  <2>1. /\ 1 \in 1 .. 4 + Len(B) /\ 2 \in 1 .. 4 + Len(B) /\ 3 \in 1 .. 4 + Len(B)
        /\ 4 \in 1 .. 4 + Len(B) /\ (Len(B) = 1 => 5 \in 1 .. 4 + Len(B))
    BY <1>2
  <2> QED
    BY <1>1, <1>2, <1>4, <2>1
<1>6. \A k \in 1 .. Len(Files) : k \in 1 .. 4 \/ (k = 5 /\ Len(B) = 1)
  BY <1>2, <1>4
<1>7. \A k \in 1 .. 4 : k = 1 \/ k = 2 \/ k = 3 \/ k = 4
  OBVIOUS
<1> QED
  BY <1>2, <1>4, <1>5, <1>6, <1>7 DEF Last

\* Nothing is contained in the empty sequence.
LEMMA NotInEmpty == \A e : ~Contains(<<>>, e)
<1>1. Len(<<>>) = 0
  OBVIOUS
<1> QED
  BY <1>1 DEF Contains

\* The invariant holds before the first step.
LEMMA InitEstablishesIInv == Init => IInv
<1> SUFFICES ASSUME Init PROVE IInv
  OBVIOUS
<1> USE BenchmarkAssumption
<1>1. TypeOK
  <2>1. toStop \in Seq(Helpers) /\ samples \in Seq(0 .. MaxBytes) /\ series \in Seq(0 .. MaxBytes)
    BY DEF Init
  <2>2. written \in Seq(FileNames) /\ remote \in Seq(FileNames)
    BY DEF Init
  <2>3. /\ helper \in [Helpers -> {"off", "running", "done"}] /\ stop \subseteq Helpers
        /\ opts \in Options
    BY DEF Init
  <2>4. /\ bytes \in 0 .. MaxBytes /\ stalls \in 0 .. MaxStalls /\ stallsGot \in 0 .. MaxStalls
        /\ printed \in 0 .. Headers /\ inPipe \in 0 .. Headers /\ buf \in 0 .. Headers
        /\ console \in 0 .. Headers
    BY DEF Init
  <2> QED
    BY <2>1, <2>2, <2>3, <2>4 DEF Init, TypeOK
<1>2. HelpersInStep /\ SamplesGrow /\ CopyInStep
  BY DEF Init, HelpersInStep, SamplesGrow, CopyInStep, PhaseOver
<1>3. ReportInOrder
  <2>1. Len(<<>>) = 0 /\ Len(Files) \in Nat
    BY FilesAre DEF Init
  <2>2. IsPrefix(<<>>, Files)
    BY <2>1, SubSeqEmpty DEF IsPrefix
  <2> QED
    BY <2>2 DEF Init, ReportInOrder
<1> QED
  BY <1>1, <1>2, <1>3 DEF IInv

\* Every step keeps the invariant.
LEMMA NextKeepsIInv == IInv /\ [Next]_vars => IInv'
<1> SUFFICES ASSUME IInv, [Next]_vars PROVE IInv'
  OBVIOUS
<1> USE BenchmarkAssumption DEF None, Helpers, phase, threads, text, report
<1>1. TypeOK /\ HelpersInStep /\ SamplesGrow /\ CopyInStep /\ ReportInOrder
  BY DEF IInv
<1>2. TypeOK' /\ HelpersInStep' /\ SamplesGrow' /\ CopyInStep' /\ ReportInOrder' => IInv'
  BY DEF IInv
<1>3. CASE Reject
  <2>1. TypeOK'
    BY <1>1, <1>3 DEF Reject, TypeOK
  <2>2. HelpersInStep'
    BY <1>1, <1>3 DEF Reject, TypeOK, HelpersInStep, PhaseOver
  <2>3. CopyInStep'
    BY <1>1, <1>3 DEF Reject, TypeOK, CopyInStep
  <2>4. ReportInOrder'
    BY <1>1, <1>3 DEF Reject, TypeOK, ReportInOrder, Files
  <2>5. SamplesGrow'
    BY <1>1, <1>3 DEF Reject, TypeOK, SamplesGrow
  <2> QED
    BY <1>2, <2>1, <2>2, <2>3, <2>4, <2>5
<1>4. CASE BeginPhase
  <2>1. StopOrder \in Seq(Helpers)
    BY <1>1, StopOrderType DEF TypeOK
  <2>2. seen = None /\ samples = series /\ stallsGot = stalls
    BY <1>1, <1>4, NotInEmpty DEF BeginPhase, TypeOK, HelpersInStep
  <2>3. TypeOK'
    BY <1>1, <1>4, <2>1 DEF BeginPhase, TypeOK
  <2>4. HelpersInStep'
    BY <1>1, <1>4, <2>2 DEF BeginPhase, TypeOK, HelpersInStep, PhaseOver
  <2>5. CopyInStep'
    BY <1>1, <1>4 DEF BeginPhase, TypeOK, CopyInStep
  <2>6. ReportInOrder'
    BY <1>1, <1>4 DEF BeginPhase, TypeOK, ReportInOrder, Files
  <2>7. SamplesGrow'
    BY <1>1, <1>4 DEF BeginPhase, TypeOK, SamplesGrow
  <2> QED
    BY <1>2, <2>3, <2>4, <2>5, <2>6, <2>7
<1>5. CASE PrintHeader
  <2>1. TypeOK'
    BY <1>1, <1>5 DEF PrintHeader, TypeOK, CopyInStep
  <2>2. CopyInStep'
    BY <1>1, <1>5 DEF PrintHeader, TypeOK, CopyInStep
  <2>3. HelpersInStep' /\ SamplesGrow' /\ ReportInOrder'
    BY <1>1, <1>5
      DEF PrintHeader, TypeOK, HelpersInStep, PhaseOver, SamplesGrow, ReportInOrder, Files
  <2> QED
    BY <1>2, <2>1, <2>2, <2>3
<1>6. CASE MoveBytes
  <2>1. TypeOK'
    BY <1>1, <1>6 DEF MoveBytes, TypeOK
  <2>2. SamplesGrow'
    BY <1>1, <1>6 DEF MoveBytes, TypeOK, SamplesGrow
  <2>3. HelpersInStep' /\ CopyInStep' /\ ReportInOrder'
    BY <1>1, <1>6
      DEF MoveBytes, TypeOK, HelpersInStep, PhaseOver, CopyInStep, ReportInOrder, Files
  <2> QED
    BY <1>2, <2>1, <2>2, <2>3
<1>7. CASE RunnerReturns
  <2>1. TypeOK'
    BY <1>1, <1>7 DEF RunnerReturns, TypeOK
  <2>2. HelpersInStep'
    BY <1>1, <1>7 DEF RunnerReturns, TypeOK, HelpersInStep, PhaseOver
  <2>3. CopyInStep'
    BY <1>1, <1>7 DEF RunnerReturns, TypeOK, CopyInStep
  <2>4. ReportInOrder'
    BY <1>1, <1>7 DEF RunnerReturns, TypeOK, ReportInOrder, Files
  <2>5. SamplesGrow'
    BY <1>1, <1>7 DEF RunnerReturns, TypeOK, SamplesGrow
  <2> QED
    BY <1>2, <2>1, <2>2, <2>3, <2>4, <2>5
<1>8. CASE ClosePipe
  <2>1. TypeOK'
    BY <1>1, <1>8 DEF ClosePipe, TypeOK
  <2>2. HelpersInStep'
    BY <1>1, <1>8 DEF ClosePipe, TypeOK, HelpersInStep, PhaseOver
  <2>3. CopyInStep'
    BY <1>1, <1>8 DEF ClosePipe, TypeOK, CopyInStep
  <2>4. ReportInOrder'
    BY <1>1, <1>8 DEF ClosePipe, TypeOK, ReportInOrder, Files
  <2>5. SamplesGrow'
    BY <1>1, <1>8 DEF ClosePipe, TypeOK, SamplesGrow
  <2> QED
    BY <1>2, <2>1, <2>2, <2>3, <2>4, <2>5
<1>9. CASE JoinCopy
  <2>1. TypeOK'
    BY <1>1, <1>9 DEF JoinCopy, TypeOK
  <2>2. HelpersInStep'
    BY <1>1, <1>9 DEF JoinCopy, TypeOK, HelpersInStep, PhaseOver
  <2>3. CopyInStep'
    BY <1>1, <1>9 DEF JoinCopy, TypeOK, CopyInStep
  <2>4. ReportInOrder'
    BY <1>1, <1>9 DEF JoinCopy, TypeOK, ReportInOrder, Files
  <2>5. SamplesGrow'
    BY <1>1, <1>9 DEF JoinCopy, TypeOK, SamplesGrow
  <2> QED
    BY <1>2, <2>1, <2>2, <2>3, <2>4, <2>5
<1>10. CASE CopyPrint
  <2>1. /\ inPipe - 1 \in 0 .. Headers /\ buf + 1 \in 0 .. Headers
        /\ buf + inPipe = (buf + 1) + (inPipe - 1)
    BY <1>1, <1>10 DEF CopyPrint, TypeOK, CopyInStep
  <2>2. /\ inPipe' \in 0 .. Headers /\ buf' \in 0 .. Headers /\ lost' \in BOOLEAN
        /\ copier' \in {"running", "done"}
    BY <1>1, <1>10, <2>1 DEF CopyPrint, TypeOK
  <2>3. buf' + inPipe' <= printed /\ (captured /\ ~lost' => buf' + inPipe' = printed)
    <3>1. buf + inPipe <= printed /\ (captured /\ ~lost => buf + inPipe = printed)
      BY <1>1 DEF CopyInStep
    <3>2. CASE buf' = buf + 1 /\ lost' = lost
      BY <1>1, <1>10, <2>1, <3>1, <3>2 DEF CopyPrint, TypeOK
    <3>3. CASE lost' = TRUE /\ buf' = buf
      BY <1>1, <1>10, <2>1, <3>1, <3>3 DEF CopyPrint, TypeOK
    <3> QED
      BY <1>1, <1>10, <3>2, <3>3 DEF CopyPrint
  <2>4. TypeOK'
    BY <1>1, <1>10, <2>2 DEF CopyPrint, TypeOK
  <2>5. CopyInStep'
    BY <1>1, <1>10, <2>2, <2>3 DEF CopyPrint, TypeOK, CopyInStep
  <2>6. HelpersInStep' /\ SamplesGrow' /\ ReportInOrder'
    BY <1>1, <1>10
      DEF CopyPrint, TypeOK, HelpersInStep, PhaseOver, SamplesGrow, ReportInOrder, Files
  <2> QED
    BY <1>2, <2>4, <2>5, <2>6
<1>11. CASE CopyEnds
  <2>1. TypeOK'
    BY <1>1, <1>11 DEF CopyEnds, TypeOK
  <2>2. CopyInStep'
    BY <1>1, <1>11 DEF CopyEnds, TypeOK, CopyInStep
  <2>3. HelpersInStep' /\ SamplesGrow' /\ ReportInOrder'
    BY <1>1, <1>11
      DEF CopyEnds, TypeOK, HelpersInStep, PhaseOver, SamplesGrow, ReportInOrder, Files
  <2> QED
    BY <1>2, <2>1, <2>2, <2>3
<1>12. CASE SampleRead
  <2>1. TypeOK'
    BY <1>1, <1>12 DEF SampleRead, TypeOK
  <2>2. HelpersInStep'
    BY <1>1, <1>12 DEF SampleRead, TypeOK, HelpersInStep, PhaseOver
  <2>3. SamplesGrow'
    BY <1>1, <1>12 DEF SampleRead, TypeOK, SamplesGrow
  <2>4. CopyInStep' /\ ReportInOrder'
    BY <1>1, <1>12 DEF SampleRead, TypeOK, CopyInStep, ReportInOrder, Files
  <2> QED
    BY <1>2, <2>1, <2>2, <2>3, <2>4
<1>13. CASE SampleRecord
  <2>1. Contains(toStop, "sampler") /\ main # "begin"
    BY <1>1, <1>13, NotInEmpty DEF SampleRecord, TypeOK, HelpersInStep
  <2>2. /\ samples' \in Seq(0 .. MaxBytes) /\ Len(samples') = Len(samples) + 1
        /\ Len(samples) \in Nat /\ samples'[Len(samples) + 1] = seen
        /\ \A k \in 1 .. Len(samples) : samples'[k] = samples[k]
    BY <1>1, <1>13 DEF SampleRecord, TypeOK
  <2>3. \A k \in 1 .. Len(samples') : k \in 1 .. Len(samples) \/ k = Len(samples) + 1
    BY <2>2
  <2>4. TypeOK'
    BY <1>1, <1>13, <2>2 DEF SampleRecord, TypeOK
  <2>5. HelpersInStep'
    BY <1>1, <1>13, <2>1 DEF SampleRecord, TypeOK, HelpersInStep, PhaseOver
  <2>6. SamplesGrow'
    <3>1. DOMAIN samples = 1 .. Len(samples) /\ DOMAIN samples' = 1 .. Len(samples')
      BY <1>1, <2>2 DEF TypeOK
    <3>2. seen \in Nat /\ seen # None
      BY <1>1, <1>13 DEF SampleRecord, TypeOK
    <3>7. seen <= bytes /\ \A k \in 1 .. Len(samples) : samples[k] <= seen
      BY <1>1, <3>1, <3>2 DEF SamplesGrow
    <3>8. seen' = None /\ bytes' = bytes
      BY <1>1, <1>13 DEF SampleRecord
    <3>3. \A k \in 1 .. Len(samples') : \A j \in 1 .. k : j \in 1 .. Len(samples')
      BY <2>2
    <3>4. \A k \in 1 .. Len(samples) : \A j \in 1 .. k : j \in 1 .. Len(samples)
      BY <2>2
    <3>5. \A k \in 1 .. Len(samples) :
             samples[k] <= bytes /\ \A j \in 1 .. k : samples[j] <= samples[k]
      BY <1>1, <3>1 DEF SamplesGrow
    <3>6. ASSUME NEW k \in 1 .. Len(samples')
          PROVE  samples'[k] <= bytes /\ \A j \in 1 .. k : samples'[j] <= samples'[k]
      <4>1. CASE k \in 1 .. Len(samples)
        BY <2>2, <3>4, <3>5, <4>1
      <4>2. CASE k = Len(samples) + 1
        <5>1. samples'[k] = seen
          BY <2>2, <4>2
        <5>2. ASSUME NEW j \in 1 .. k PROVE samples'[j] <= seen
          BY <2>2, <2>3, <3>2, <3>3, <3>7
        <5> QED
          BY <3>7, <5>1, <5>2
      <4> QED
        BY <2>3, <4>1, <4>2
    <3> QED
      BY <3>1, <3>8, <3>6 DEF SamplesGrow
  <2>7. CopyInStep' /\ ReportInOrder'
    BY <1>1, <1>13 DEF SampleRecord, TypeOK, CopyInStep, ReportInOrder, Files
  <2> QED
    BY <1>2, <2>4, <2>5, <2>6, <2>7
<1>14. CASE Stall
  <2>1. Contains(toStop, "watchdog") /\ main # "begin"
    BY <1>1, <1>14, NotInEmpty DEF Stall, TypeOK, HelpersInStep
  <2>2. TypeOK'
    BY <1>1, <1>14 DEF Stall, TypeOK
  <2>3. HelpersInStep'
    BY <1>1, <1>14, <2>1 DEF Stall, TypeOK, HelpersInStep, PhaseOver
  <2>4. SamplesGrow' /\ CopyInStep' /\ ReportInOrder'
    BY <1>1, <1>14 DEF Stall, TypeOK, SamplesGrow, CopyInStep, ReportInOrder, Files
  <2> QED
    BY <1>2, <2>2, <2>3, <2>4
<1>15. ASSUME NEW g \in Helpers, Leave(g) PROVE IInv'
  <2>1. TypeOK'
    BY <1>1, <1>15 DEF Leave, TypeOK
  <2>2. HelpersInStep'
    BY <1>1, <1>15 DEF Leave, TypeOK, HelpersInStep, PhaseOver
  <2>3. SamplesGrow' /\ CopyInStep' /\ ReportInOrder'
    BY <1>1, <1>15 DEF Leave, TypeOK, SamplesGrow, CopyInStep, ReportInOrder, Files
  <2> QED
    BY <1>2, <2>1, <2>2, <2>3
<1>16. CASE SignalStop
  <2>1. Head(toStop) \in Helpers
    BY <1>1, <1>16, HeadOrTail DEF SignalStop, TypeOK
  <2>2. TypeOK'
    <3>1. stop' \subseteq Helpers
      BY <1>1, <1>16, <2>1 DEF SignalStop, TypeOK
    <3> QED
      BY <1>1, <1>16, <3>1 DEF SignalStop, TypeOK
  <2>3. HelpersInStep'
    BY <1>1, <1>16 DEF SignalStop, TypeOK, HelpersInStep, PhaseOver
  <2>4. CopyInStep'
    BY <1>1, <1>16 DEF SignalStop, TypeOK, CopyInStep
  <2>5. ReportInOrder'
    BY <1>1, <1>16 DEF SignalStop, TypeOK, ReportInOrder, Files
  <2>6. SamplesGrow'
    BY <1>1, <1>16 DEF SignalStop, TypeOK, SamplesGrow
  <2> QED
    BY <1>2, <2>2, <2>3, <2>4, <2>5, <2>6
<1>17. CASE Stopped
  <2>1. toStop # <<>>
    BY <1>1, <1>17 DEF Stopped, HelpersInStep
  <2>2. /\ Head(toStop) \in Helpers /\ Tail(toStop) \in Seq(Helpers)
        /\ \A g : Contains(toStop, g) <=> Head(toStop) = g \/ Contains(Tail(toStop), g)
    BY <1>1, <2>1, HeadOrTail DEF TypeOK
  <2>3. TypeOK'
    BY <1>1, <1>17, <2>2 DEF Stopped, TypeOK
  <2>4. HelpersInStep'
    BY <1>1, <1>17, <2>2 DEF Stopped, TypeOK, HelpersInStep, PhaseOver
  <2>5. CopyInStep'
    BY <1>1, <1>17 DEF Stopped, TypeOK, CopyInStep
  <2>6. ReportInOrder'
    BY <1>1, <1>17 DEF Stopped, TypeOK, ReportInOrder, Files
  <2>7. SamplesGrow'
    BY <1>1, <1>17 DEF Stopped, TypeOK, SamplesGrow
  <2> QED
    BY <1>2, <2>3, <2>4, <2>5, <2>6, <2>7
<1>18. CASE EndPhase
  <2>1. TypeOK'
    BY <1>1, <1>18 DEF EndPhase, TypeOK
  <2>2. HelpersInStep'
    BY <1>1, <1>18 DEF EndPhase, TypeOK, HelpersInStep, PhaseOver
  <2>3. CopyInStep'
    BY <1>1, <1>18 DEF EndPhase, TypeOK, CopyInStep
  <2>4. ReportInOrder'
    BY <1>1, <1>18 DEF EndPhase, TypeOK, ReportInOrder, Files
  <2>5. SamplesGrow'
    BY <1>1, <1>18 DEF EndPhase, TypeOK, SamplesGrow
  <2> QED
    BY <1>2, <2>1, <2>2, <2>3, <2>4, <2>5
<1>19. CASE MakeDir
  <2>1. TypeOK'
    BY <1>1, <1>19 DEF MakeDir, TypeOK
  <2>2. HelpersInStep'
    BY <1>1, <1>19 DEF MakeDir, TypeOK, HelpersInStep, PhaseOver
  <2>3. CopyInStep'
    BY <1>1, <1>19 DEF MakeDir, TypeOK, CopyInStep
  <2>4. ReportInOrder'
    BY <1>1, <1>19 DEF MakeDir, TypeOK, ReportInOrder, Files
  <2>5. SamplesGrow'
    BY <1>1, <1>19 DEF MakeDir, TypeOK, SamplesGrow
  <2> QED
    BY <1>2, <2>1, <2>2, <2>3, <2>4, <2>5
<1>20. CASE WriteFile
  <2>1. Files \in Seq(FileNames) /\ Len(Files) \in Nat
    BY <1>1, FilesAre DEF TypeOK
  <2>2. /\ written \in Seq(FileNames) /\ IsPrefix(written, Files)
    BY <1>1 DEF TypeOK, ReportInOrder
  <2>3. /\ Append(written, Files[Len(written) + 1]) \in Seq(FileNames)
        /\ IsPrefix(Append(written, Files[Len(written) + 1]), Files)
    BY <1>1, <1>20, <2>1, <2>2, PrefixGrows DEF WriteFile
  <2>4. TypeOK'
    <3>1. written' \in Seq(FileNames) /\ main' \in {main, "exit"} /\ failed' \in BOOLEAN
      BY <1>1, <1>20, <2>3 DEF WriteFile, TypeOK
    <3> QED
      BY <1>1, <1>20, <3>1 DEF WriteFile, TypeOK
  <2>5. HelpersInStep'
    BY <1>1, <1>20 DEF WriteFile, TypeOK, HelpersInStep, PhaseOver
  <2>6. CopyInStep'
    BY <1>1, <1>20 DEF WriteFile, TypeOK, CopyInStep
  <2>7. ReportInOrder'
    <3>1. Files' = Files /\ IsPrefix(written', Files)
      BY <1>1, <1>20, <2>2, <2>3 DEF WriteFile, Files
    <3>2. written # Files /\ remote = <<>>
      BY <1>1, <1>20 DEF WriteFile, ReportInOrder
    <3> QED
      BY <1>1, <1>20, <3>1, <3>2 DEF WriteFile, TypeOK, ReportInOrder
  <2>8. SamplesGrow'
    BY <1>1, <1>20 DEF WriteFile, TypeOK, SamplesGrow
  <2> QED
    BY <1>2, <2>4, <2>5, <2>6, <2>7, <2>8
<1>21. CASE AllWritten
  <2>1. TypeOK'
    BY <1>1, <1>21 DEF AllWritten, TypeOK
  <2>2. HelpersInStep'
    BY <1>1, <1>21 DEF AllWritten, TypeOK, HelpersInStep, PhaseOver
  <2>3. CopyInStep'
    BY <1>1, <1>21 DEF AllWritten, TypeOK, CopyInStep
  <2>4. ReportInOrder'
    BY <1>1, <1>21 DEF AllWritten, TypeOK, ReportInOrder, Files
  <2>5. SamplesGrow'
    BY <1>1, <1>21 DEF AllWritten, TypeOK, SamplesGrow
  <2> QED
    BY <1>2, <2>1, <2>2, <2>3, <2>4, <2>5
<1>22. CASE PutFile
  <2>1. Files \in Seq(FileNames) /\ Len(Files) \in Nat /\ written = Files
    BY <1>1, <1>22, FilesAre DEF PutFile, TypeOK, ReportInOrder
  <2>2. /\ remote \in Seq(FileNames) /\ IsPrefix(remote, Files)
    BY <1>1 DEF TypeOK, ReportInOrder
  <2>3. /\ Append(remote, Files[Len(remote) + 1]) \in Seq(FileNames)
        /\ IsPrefix(Append(remote, Files[Len(remote) + 1]), Files)
    BY <1>1, <1>22, <2>1, <2>2, PrefixGrows DEF PutFile
  <2>4. TypeOK'
    <3>1. remote' \in Seq(FileNames) /\ main' \in {main, "exit"} /\ failed' \in BOOLEAN
      BY <1>1, <1>22, <2>1, <2>3 DEF PutFile, TypeOK
    <3> QED
      BY <1>1, <1>22, <3>1 DEF PutFile, TypeOK
  <2>5. HelpersInStep'
    BY <1>1, <1>22 DEF PutFile, TypeOK, HelpersInStep, PhaseOver
  <2>6. CopyInStep'
    BY <1>1, <1>22 DEF PutFile, TypeOK, CopyInStep
  <2>7. ReportInOrder'
    <3>1. Files' = Files /\ IsPrefix(remote', Files) /\ ~uploaded
      BY <1>1, <1>22, <2>1, <2>2, <2>3 DEF PutFile, Files, ReportInOrder
    <3> QED
      BY <1>1, <1>22, <2>1, <3>1 DEF PutFile, TypeOK, ReportInOrder
  <2>8. SamplesGrow'
    BY <1>1, <1>22 DEF PutFile, TypeOK, SamplesGrow
  <2> QED
    BY <1>2, <2>4, <2>5, <2>6, <2>7, <2>8
<1>23. CASE AllPut
  <2>1. TypeOK'
    BY <1>1, <1>23 DEF AllPut, TypeOK
  <2>2. HelpersInStep'
    BY <1>1, <1>23 DEF AllPut, TypeOK, HelpersInStep, PhaseOver
  <2>3. CopyInStep'
    BY <1>1, <1>23 DEF AllPut, TypeOK, CopyInStep
  <2>4. ReportInOrder'
    BY <1>1, <1>23 DEF AllPut, TypeOK, ReportInOrder, Files
  <2>5. SamplesGrow'
    BY <1>1, <1>23 DEF AllPut, TypeOK, SamplesGrow
  <2> QED
    BY <1>2, <2>1, <2>2, <2>3, <2>4, <2>5
<1>24. CASE Cancel
  <2>1. TypeOK'
    BY <1>1, <1>24 DEF Cancel, TypeOK
  <2>2. ReportInOrder'
    BY <1>1, <1>24 DEF Cancel, TypeOK, ReportInOrder, Files
  <2>3. HelpersInStep' /\ SamplesGrow' /\ CopyInStep'
    BY <1>1, <1>24 DEF Cancel, TypeOK, HelpersInStep, PhaseOver, SamplesGrow, CopyInStep
  <2> QED
    BY <1>2, <2>1, <2>2, <2>3
<1>25. CASE Terminated
  <2>1. TypeOK' /\ HelpersInStep' /\ SamplesGrow' /\ CopyInStep' /\ ReportInOrder'
    BY <1>1, <1>25
      DEF Terminated, vars, TypeOK, HelpersInStep, PhaseOver, SamplesGrow, CopyInStep,
          ReportInOrder, Files
  <2> QED
    BY <1>2, <2>1
<1>26. CASE UNCHANGED vars
  <2>1. TypeOK' /\ HelpersInStep' /\ SamplesGrow' /\ CopyInStep'
    BY <1>1, <1>26 DEF vars, TypeOK, HelpersInStep, SamplesGrow, CopyInStep, PhaseOver
  <2>2. ReportInOrder'
    BY <1>1, <1>26 DEF vars, ReportInOrder, Files
  <2> QED
    BY <1>2, <2>1, <2>2
<1> QED
  BY <1>3, <1>4, <1>5, <1>6, <1>7, <1>8, <1>9, <1>10, <1>11, <1>12, <1>13, <1>14, <1>15, <1>16,
     <1>17, <1>18, <1>19, <1>20, <1>21, <1>22, <1>23, <1>24, <1>25, <1>26
    DEF Next, Main

\* The invariant holds in every state of every run of the program.
THEOREM Invariance == Spec => []IInv
<1>1. Init => IInv
  BY InitEstablishesIInv
<1>2. IInv /\ [Next]_vars => IInv'
  BY NextKeepsIInv
<1> QED
  BY <1>1, <1>2, PTL DEF Spec

\* Type correctness of the program's run.
THEOREM TypeCorrect == Spec => []TypeOK
<1>1. IInv => TypeOK
  BY DEF IInv
<1> QED
  BY <1>1, Invariance, PTL

\* When runPhase has returned, on whatever path, every goroutine it started has
\* been waited for and stdout is the real one again: Stop of each helper and the
\* join of the copy come before the runner's error is looked at.
THEOREM NothingIsLeftRunning == Spec => []NothingOutlives
<1>1. IInv => NothingOutlives
  BY NotInEmpty DEF IInv, TypeOK, HelpersInStep, CopyInStep, PhaseOver, NothingOutlives
<1> QED
  BY <1>1, Invariance, PTL

\* The series, the stall count and the captured text are read after the goroutine
\* that makes them has ended, so they are final and complete.
THEOREM HandOverIsFinal == Spec => []HandedOver
<1>1. ASSUME IInv, PhaseOver PROVE HandedOver
  <2>1. series = samples /\ stallsGot = stalls
    BY <1>1, NotInEmpty DEF IInv, HelpersInStep
  <2>2. \A k \in DOMAIN series :
           series[k] <= bytes /\ \A j \in 1 .. k : series[j] <= series[k]
    BY <1>1, <2>1 DEF IInv, SamplesGrow
  <2>3. captured /\ ~lost => console = printed
    <3>1. captured /\ ~lost => copier = "done" /\ console = buf
      BY <1>1 DEF IInv, TypeOK, CopyInStep, PhaseOver
    <3>2. captured /\ ~lost => buf + inPipe = printed /\ inPipe = 0
      BY <1>1, <3>1 DEF IInv, CopyInStep
    <3> QED
      BY <1>1, <3>1, <3>2 DEF IInv, TypeOK
  <2> QED
    BY <2>1, <2>2, <2>3 DEF HandedOver
<1>2. IInv => HandedOver
  BY <1>1 DEF HandedOver
<1> QED
  BY <1>2, Invariance, PTL

\* Nothing of a run that was cancelled before its runner returned is put to S3, and
\* what is there is the beginning of a report: its last file vouches for the rest.
THEOREM MirrorIsSound == Spec => []MirrorSound
<1>1. ASSUME IInv PROVE MirrorSound
  <2>1. /\ opts \in Options /\ remote \in Seq(FileNames) /\ Len(remote) \in Nat
        /\ IsPrefix(remote, Files) /\ (partial => remote = <<>> /\ ~uploaded)
    BY <1>1 DEF IInv, TypeOK, ReportInOrder
  <2>2. ASSUME Contains(remote, Last(Files)) PROVE remote = Files /\ outcome = "result"
    <3>1. PICK k \in 1 .. Len(remote) : remote[k] = Last(Files)
      BY <2>2 DEF Contains
    <3>2. /\ Files \in Seq(FileNames) /\ Len(Files) \in {4, 5}
          /\ \A n \in 1 .. Len(Files) : Files[n] = Last(Files) => n = Len(Files)
      BY <2>1, FilesAre
    <3>3. Len(remote) <= Len(Files) /\ \A n \in 1 .. Len(remote) : remote[n] = Files[n]
      BY <2>1, <3>2, PrefixGrows
    <3>4. k \in 1 .. Len(Files) /\ Files[k] = Last(Files)
      BY <2>1, <3>1, <3>2, <3>3
    <3>5. Len(remote) = Len(Files)
      BY <2>1, <3>1, <3>2, <3>3, <3>4
    <3>6. remote = Files
      BY <2>1, <3>2, <3>5, PrefixGrows
    <3>7. remote # <<>> /\ written = Files /\ written # <<>>
      BY <1>1, <3>1, <3>6 DEF IInv, ReportInOrder
    <3> QED
      BY <1>1, <3>6, <3>7 DEF IInv, ReportInOrder
  <2> QED
    BY <2>1, <2>2 DEF MirrorSound
<1>2. IInv => MirrorSound
  BY <1>1
<1> QED
  BY <1>2, Invariance, PTL

\* An exit without an error means a result, a whole report, and all of it in S3 when
\* that was asked for; after an error of the runner there is no report.
THEOREM StatusIsSound == Spec => []StatusSound
<1>1. IInv => StatusSound
  BY DEF IInv, ReportInOrder, StatusSound
<1> QED
  BY <1>1, Invariance, PTL

===============================================================================
