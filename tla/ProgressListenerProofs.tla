------------------------ MODULE ProgressListenerProofs ------------------------
(***************************************************************************)
(* Proofs about ProgressListener for every set of objects, every set of    *)
(* delivering threads and every object size.                               *)
(*                                                                         *)
(* The invariant says that last[o] splits the bytes of an object exactly:  *)
(* those up to last[o] are counted, or claimed by one thread between its   *)
(* swap and its add, and no others are (LastCovers, ClaimedOnce).  That    *)
(* the counter is the number of the counted bytes (CountExact) follows     *)
(* because each add is of a stretch disjoint from what is counted.  The    *)
(* refinement of LiveCounter rests on the same disjointness.               *)
(***************************************************************************)
EXTENDS ProgressListener, FiniteSetTheorems, TLAPS

\* A stretch has as many bytes as the difference the listener adds.
LEMMA StretchSize ==
  ASSUME NEW o, NEW a \in Nat, NEW b \in Nat, a <= b
  PROVE  IsFiniteSet(Stretch(o, a, b)) /\ Cardinality(Stretch(o, a, b)) = b - a
<1>1. IsFiniteSet((a + 1) .. b) /\ Cardinality((a + 1) .. b) = b - a
  <2>1. a + 1 \in Int /\ b \in Int
    OBVIOUS
  <2>2. /\ IsFiniteSet((a + 1) .. b)
        /\ Cardinality((a + 1) .. b) = IF a + 1 > b THEN 0 ELSE b - (a + 1) + 1
    BY <2>1, FS_Interval
  <2>3. (IF a + 1 > b THEN 0 ELSE b - (a + 1) + 1) = b - a
    OBVIOUS
  <2> QED
    BY <2>2, <2>3
<1>2. IsFiniteSet({o}) /\ Cardinality({o}) = 1
  BY FS_Singleton
<1>3. /\ IsFiniteSet({o} \X ((a + 1) .. b))
      /\ Cardinality({o} \X ((a + 1) .. b)) = Cardinality({o}) * Cardinality((a + 1) .. b)
  BY <1>1, <1>2, FS_Product
<1>4. 1 * (b - a) = b - a
  OBVIOUS
<1> QED
  BY <1>1, <1>2, <1>3, <1>4 DEF Stretch

\* Adding a disjoint stretch adds its length to the number of bytes.
LEMMA AddStretch ==
  ASSUME NEW S, IsFiniteSet(S), NEW o, NEW a \in Nat, NEW b \in Nat, a <= b,
         Stretch(o, a, b) \cap S = {}
  PROVE  /\ IsFiniteSet(S \cup Stretch(o, a, b))
         /\ Cardinality(S \cup Stretch(o, a, b)) = Cardinality(S) + (b - a)
<1>1. Cardinality(S) \in Nat
  BY FS_CardinalityType
<1>2. IsFiniteSet(Stretch(o, a, b)) /\ Cardinality(Stretch(o, a, b)) = b - a
  BY StretchSize
<1>3. S \cap Stretch(o, a, b) = {} /\ Cardinality({}) = 0
  BY FS_EmptySet
<1>4. /\ IsFiniteSet(S \cup Stretch(o, a, b))
      /\ Cardinality(S \cup Stretch(o, a, b))
           = Cardinality(S) + Cardinality(Stretch(o, a, b)) - Cardinality(S \cap Stretch(o, a, b))
  BY <1>2, FS_Union
<1>5. Cardinality(S \cap Stretch(o, a, b)) = 0
  BY <1>3
<1> QED
  BY <1>1, <1>2, <1>4, <1>5

-----------------------------------------------------------------------------

\* The invariant holds before the first event.
LEMMA InitEstablishesIInv == Init => IInv
<1> SUFFICES ASSUME Init PROVE IInv
  OBVIOUS
<1> USE ListenerAssumption
<1>1. TypeOK
  BY DEF Init, TypeOK, Places
<1>2. EventReal /\ NewsOnly /\ LastReal /\ NewestKnown
  BY DEF Init, EventReal, NewsOnly, LastReal, NewestKnown
<1>3. LastCovers /\ ClaimedOnce
  BY DEF Init, LastCovers, ClaimedOnce, Claimed, Places
<1>4. CountExact
  BY FS_EmptySet DEF Init, CountExact
<1> QED
  BY <1>1, <1>2, <1>3, <1>4 DEF IInv

\* Every step preserves the invariant.
LEMMA NextPreservesIInv == IInv /\ [Next]_vars => IInv'
<1> SUFFICES ASSUME IInv, [Next]_vars PROVE IInv'
  OBVIOUS
<1> USE ListenerAssumption DEF IInv
<1>1. ASSUME NEW t \in Threads, NEW o \in Objects, NEW n \in 0 .. Size, Emit(t, o, n) PROVE IInv'
  <2>1. TypeOK' /\ EventReal' /\ NewsOnly' /\ LastReal'
    BY <1>1 DEF Emit, TypeOK, EventReal, NewsOnly, LastReal
  <2>2. \A u \in Threads : Claimed(u)' = Claimed(u)
    BY <1>1 DEF Emit, TypeOK, Claimed
  <2>3. LastCovers' /\ ClaimedOnce' /\ CountExact'
    BY <1>1, <2>2 DEF Emit, LastCovers, ClaimedOnce, CountExact
  <2>4. NewestKnown'
    \* The thread that takes the new event knows it; the others are as before.
    BY <1>1 DEF Emit, TypeOK, NewestKnown
  <2> QED
    BY <2>1, <2>3, <2>4
<1>2. ASSUME NEW t \in Threads, Load(t) PROVE IInv'
  <2>1. TypeOK' /\ EventReal' /\ NewsOnly' /\ LastReal'
    BY <1>2 DEF Load, TypeOK, EventReal, NewsOnly, LastReal
  <2>2. \A u \in Threads : Claimed(u)' = Claimed(u)
    BY <1>2 DEF Load, TypeOK, Claimed
  <2>3. LastCovers' /\ ClaimedOnce' /\ CountExact'
    BY <1>2, <2>2 DEF Load, LastCovers, ClaimedOnce, CountExact
  <2>4. NewestKnown'
    \* An event is dropped only if last has reached its value already.
    BY <1>2 DEF Load, TypeOK, NewestKnown, LastReal
  <2> QED
    BY <2>1, <2>3, <2>4
<1>3. ASSUME NEW t \in Threads, Swap(t) PROVE IInv'
  <2> DEFINE o == obj[t]
  <2>1. /\ o \in Objects /\ old[t] = last[o] /\ last[o] < val[t] /\ val[t] <= emitted[o]
        /\ val[t] \in 0 .. Size /\ last[o] \in 0 .. Size
    BY <1>3 DEF Swap, TypeOK, EventReal, NewsOnly
  <2>2. TypeOK' /\ EventReal' /\ NewsOnly' /\ LastReal'
    BY <1>3, <2>1 DEF Swap, TypeOK, EventReal, NewsOnly, LastReal
  <2>3. /\ Claimed(t) = {} /\ Claimed(t)' = Stretch(o, last[o], val[t])
        /\ \A u \in Threads : u # t => Claimed(u)' = Claimed(u)
    BY <1>3, <2>1 DEF Swap, TypeOK, Claimed
  <2>4. \A p, k : <<p, k>> \in Claimed(t)' <=> p = o /\ k \in (last[o] + 1) .. val[t]
    BY <2>3 DEF Stretch
  <2>5. LastCovers'
    <3> SUFFICES ASSUME NEW p \in Objects, NEW b \in Places
                 PROVE  b <= last'[p] <=> \/ <<p, b>> \in counted
                                          \/ \E u \in Threads : <<p, b>> \in Claimed(u)'
      BY <1>3 DEF Swap, LastCovers
    <3>1. b <= last[p] <=> \/ <<p, b>> \in counted
                           \/ \E u \in Threads : <<p, b>> \in Claimed(u)
      BY DEF LastCovers
    <3>2. (\E u \in Threads : <<p, b>> \in Claimed(u)') <=>
            \/ \E u \in Threads : <<p, b>> \in Claimed(u)
            \/ p = o /\ b \in (last[o] + 1) .. val[t]
      BY <2>3, <2>4
    <3>3. b <= last'[p] <=> b <= last[p] \/ (p = o /\ b \in (last[o] + 1) .. val[t])
      BY <1>3, <2>1 DEF Swap, TypeOK, Places
    <3> QED
      BY <3>1, <3>2, <3>3
  <2>6. ClaimedOnce'
    \* What is counted or claimed of o lies up to last[o], the new claim above.
    <3>1. \A x \in Claimed(t)' : x \notin counted /\ \A u \in Threads : x \notin Claimed(u)
      <4> SUFFICES ASSUME NEW k \in (last[o] + 1) .. val[t]
                   PROVE  <<o, k>> \notin counted /\ \A u \in Threads : <<o, k>> \notin Claimed(u)
        BY <2>3 DEF Stretch
      <4>1. k \in Places /\ ~(k <= last[o])
        BY <2>1 DEF Places
      <4> QED
        BY <2>1, <4>1 DEF LastCovers
    <3> QED
      BY <1>3, <2>3, <3>1 DEF Swap, ClaimedOnce
  <2>7. NewestKnown'
    \* If t carried the newest event, last has now reached it.
    BY <1>3, <2>1 DEF Swap, TypeOK, NewestKnown
  <2>8. CountExact'
    BY <1>3 DEF Swap, CountExact
  <2> QED
    BY <2>2, <2>5, <2>6, <2>7, <2>8
<1>4. ASSUME NEW t \in Threads, SwapFails(t) PROVE IInv'
  <2>1. TypeOK' /\ EventReal' /\ NewsOnly' /\ LastReal' /\ NewestKnown'
    BY <1>4 DEF SwapFails, TypeOK, EventReal, NewsOnly, LastReal, NewestKnown
  <2>2. \A u \in Threads : Claimed(u)' = Claimed(u)
    BY <1>4 DEF SwapFails, TypeOK, Claimed
  <2>3. LastCovers' /\ ClaimedOnce' /\ CountExact'
    BY <1>4, <2>2 DEF SwapFails, LastCovers, ClaimedOnce, CountExact
  <2> QED
    BY <2>1, <2>3
<1>5. ASSUME NEW t \in Threads, Add(t) PROVE IInv'
  <2>1. /\ Claimed(t) = Stretch(obj[t], old[t], val[t]) /\ Claimed(t)' = {}
        /\ \A u \in Threads : u # t => Claimed(u)' = Claimed(u)
        /\ counted' = counted \cup Claimed(t)
        /\ old[t] \in Nat /\ val[t] \in Nat /\ old[t] < val[t]
    BY <1>5 DEF Add, TypeOK, Claimed, NewsOnly
  <2>2. TypeOK'
    <3>1. Claimed(t) \subseteq Objects \X Places
      BY <2>1 DEF TypeOK, Stretch, Places
    <3> QED
      BY <1>5, <2>1, <3>1 DEF Add, TypeOK
  <2>3. EventReal' /\ NewsOnly' /\ LastReal' /\ NewestKnown'
    BY <1>5 DEF Add, TypeOK, EventReal, NewsOnly, LastReal, NewestKnown
  <2>4. LastCovers'
    BY <1>5, <2>1 DEF Add, LastCovers
  <2>5. ClaimedOnce'
    BY <2>1 DEF ClaimedOnce
  <2>6. CountExact'
    <3>1. Claimed(t) \cap counted = {} /\ IsFiniteSet(counted) /\ bytes = Cardinality(counted)
      BY DEF ClaimedOnce, CountExact
    <3>2. IsFiniteSet(counted') /\ Cardinality(counted') = Cardinality(counted) + (val[t] - old[t])
      BY <2>1, <3>1, AddStretch
    <3> QED
      BY <1>5, <3>1, <3>2 DEF Add, CountExact
  <2> QED
    BY <2>2, <2>3, <2>4, <2>5, <2>6
<1>6. CASE UNCHANGED vars
  <2>1. TypeOK' /\ EventReal' /\ NewsOnly' /\ LastReal' /\ NewestKnown' /\ CountExact'
    BY <1>6 DEF vars, TypeOK, EventReal, NewsOnly, LastReal, NewestKnown, CountExact
  <2>2. \A u \in Threads : Claimed(u)' = Claimed(u)
    BY <1>6 DEF vars, Claimed
  <2> QED
    BY <1>6, <2>1, <2>2 DEF vars, LastCovers, ClaimedOnce
<1> QED
  BY <1>1, <1>2, <1>3, <1>4, <1>5, <1>6 DEF Next, Handler, Terminated

\* IInv is an invariant for every number of objects and threads and every
\* object size: no interleaving of events counts a byte twice.
THEOREM Invariance == Spec => []IInv
  BY InitEstablishesIInv, NextPreservesIInv, PTL DEF Spec

\* Whenever no event is being handled the counter is exactly the number of
\* bytes transferred, in whatever order the events came.
THEOREM ExactWhenIdle == Spec => []CaughtUp
<1>1. IInv => CaughtUp
  <2> SUFFICES ASSUME IInv, \A t \in Threads : pc[t] = "idle"
               PROVE  counted = Transferred /\ bytes = Cardinality(Transferred)
    BY DEF CaughtUp
  <2> USE ListenerAssumption DEF IInv
  <2>1. \A o \in Objects : last[o] = emitted[o]
    BY DEF NewestKnown
  <2>2. \A o \in Objects, b \in Places : b <= emitted[o] <=> <<o, b>> \in counted
    BY <2>1 DEF LastCovers, Claimed
  <2>3. \A x : x \in Transferred <=> \E o \in Objects : \E b \in 1 .. emitted[o] : x = <<o, b>>
    BY DEF Transferred, TypeOK, Stretch
  <2>4. counted = Transferred
    <3>1. counted \subseteq Transferred
      <4> SUFFICES ASSUME NEW x \in counted PROVE x \in Transferred
        OBVIOUS
      <4>1. PICK o \in Objects, b \in Places : x = <<o, b>>
        BY DEF TypeOK
      <4> QED
        BY <2>2, <2>3, <4>1 DEF TypeOK, Places
    <3>2. Transferred \subseteq counted
      BY <2>2, <2>3 DEF TypeOK, Places
    <3> QED
      BY <3>1, <3>2
  <2> QED
    BY <2>4 DEF CountExact
<1> QED
  BY <1>1, Invariance, PTL

-----------------------------------------------------------------------------

\* The instance of LiveCounter counts as this module does.
LEMMA SameCardinality == \A S : LC!Cardinality(S) = Cardinality(S)
  BY DEF LC!Cardinality, Cardinality

\* Only bytes that were transferred are counted.
LEMMA CountedWasTransferred == IInv => counted \subseteq Transferred
<1> SUFFICES ASSUME IInv, NEW x \in counted PROVE x \in Transferred
  OBVIOUS
<1>1. PICK o \in Objects, b \in Places : x = <<o, b>>
  BY DEF IInv, TypeOK
<1>2. b <= last[o] /\ last[o] <= emitted[o]
  BY <1>1 DEF IInv, LastCovers, LastReal
<1>3. b \in 1 .. emitted[o]
  BY <1>1, <1>2, ListenerAssumption DEF IInv, TypeOK, Places
<1> QED
  BY <1>1, <1>3 DEF Transferred, Stretch

\* A step of the listeners is a step of LiveCounter or leaves its variables
\* alone.
LEMMA StepSimulation == IInv /\ [Next]_vars => [LC!Next]_LC!vars
<1> SUFFICES ASSUME IInv, [Next]_vars PROVE [LC!Next]_LC!vars
  OBVIOUS
<1>1. ASSUME NEW t \in Threads, NEW o \in Objects, NEW n \in 0 .. Size, Emit(t, o, n)
      PROVE  LC!Transfer
  <2>1. \A p \in Objects : Stretch(p, 0, emitted[p]) \subseteq Stretch(p, 0, emitted'[p])
    BY <1>1, ListenerAssumption DEF Emit, IInv, TypeOK, Stretch
  <2>2. Transferred \subseteq Transferred'
    BY <2>1 DEF Transferred
  <2> QED
    BY <1>1, <2>2 DEF Emit, LC!Transfer
<1>2. ASSUME NEW t \in Threads, Add(t) PROVE LC!Count
  <2>1. Stretch(obj[t], old[t], val[t]) \cap counted = {}
    BY <1>2 DEF Add, IInv, ClaimedOnce, Claimed
  <2>2. counted' \ counted = Stretch(obj[t], old[t], val[t])
    BY <1>2, <2>1 DEF Add
  <2>3. old[t] \in Nat /\ val[t] \in Nat /\ old[t] <= val[t]
    BY <1>2, ListenerAssumption DEF Add, IInv, TypeOK, NewsOnly
  <2>4. Cardinality(counted' \ counted) = val[t] - old[t]
    BY <2>2, <2>3, StretchSize
  <2>5. counted' \subseteq Transferred
    <3>1. Stretch(obj[t], old[t], val[t]) \subseteq Transferred
      \* A total is claimed only once it has been reached.
      BY <1>2, ListenerAssumption DEF Add, IInv, TypeOK, EventReal, Transferred, Stretch
    <3> QED
      BY <1>2, <3>1, CountedWasTransferred DEF Add
  <2> QED
    BY <1>2, <2>4, <2>5, SameCardinality DEF Add, LC!Count, Transferred
<1>3. ASSUME NEW t \in Threads, Load(t) \/ Swap(t) \/ SwapFails(t) PROVE UNCHANGED LC!vars
  BY <1>3 DEF Load, Swap, SwapFails, LC!vars, Transferred
<1>4. CASE UNCHANGED vars
  BY <1>4 DEF vars, LC!vars, Transferred
<1> QED
  BY <1>1, <1>2, <1>3, <1>4 DEF Next, Handler, Terminated, LC!Next

\* The listeners keep the contract of prog.Bytes: it never goes back and each
\* increment stands for transferred bytes none of which was counted before.
THEOREM Refinement == Spec => ImplementsLiveCounter
<1>1. Init => LC!Init
  BY DEF Init, LC!Init, Transferred, Stretch
<1> QED
  BY <1>1, StepSimulation, Invariance, PTL DEF Spec, ImplementsLiveCounter, LC!Spec
===============================================================================
