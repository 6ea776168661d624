------------------------------ MODULE Figures ------------------------------
(***************************************************************************)
(* The figures of a row of the report, from internal/tmbench/tmbench.go:   *)
(* a sample is the bytes and the seconds of a pass; its throughput is      *)
(* bytes / secs, compared without rounding, and 0 for a pass of no time.   *)
(***************************************************************************)
EXTENDS Integers, Sequences, FiniteSets

ZeroSample == [bytes |-> 0, secs |-> 0]

\* sample3 sets the throughput to 0 when no time has passed.
Slower(s, t) == LET bytes(x) == IF x.secs = 0 THEN 0 ELSE x.bytes
                    secs(x)  == IF x.secs = 0 THEN 1 ELSE x.secs
                IN  bytes(s) * secs(t) < bytes(t) * secs(s)

\* faulty: the middle of the samples in the order they were taken.
MedianSamplesFaulty(ss) ==
  IF ss = <<>> THEN {ZeroSample} ELSE {ss[Len(ss) \div 2 + 1]}

\* The samples that can stand in the middle of the sorted copy: sort.Slice is
\* free in the order of equals.
MedianSamples(ss) ==
  IF ss = <<>> THEN {ZeroSample}
  ELSE {ss[m] : m \in {m \in DOMAIN ss :
          /\ Cardinality({k \in DOMAIN ss : Slower(ss[k], ss[m])}) <= Len(ss) \div 2
          /\ Cardinality({k \in DOMAIN ss : ~Slower(ss[m], ss[k])}) > Len(ss) \div 2}}

\* The first of the fastest, unless none is faster than the zero sample.
BestSample(ss) ==
  LET better == {m \in DOMAIN ss :
                   /\ Slower(ZeroSample, ss[m])
                   /\ \A k \in DOMAIN ss : ~Slower(ss[m], ss[k])
                   /\ \A k \in 1..(m - 1) : Slower(ss[k], ss[m])}
  IN  IF better = {} THEN ZeroSample ELSE ss[CHOOSE m \in better : TRUE]
=============================================================================
