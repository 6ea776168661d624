--------------------------- MODULE ObjectPoolProofs ---------------------------
(***************************************************************************)
(* Proofs about ObjectPool for every number of objects and every           *)
(* requested number of workers.                                            *)
(*                                                                         *)
(* IInv ties the location of a worker to the status of the index it holds  *)
(* (HeldStatus, HeldOnce, NoneDropped) and firstErr to the failures seen   *)
(* so far (ErrorPending, StoredIsReal).  It is inductive; the safety       *)
(* properties and the refinement of ParallelRun follow from it.            *)
(***************************************************************************)
EXTENDS ObjectPool, FiniteSetTheorems, TLAPS

\* There is a worker only if there is an index for it to hold.
LEMMA WorkerHasIndex == \A w \in Workers : 0 \in Indices /\ N > 0
  BY PoolAssumption DEF PoolSize, Configured, Workers, Indices

\* The invariant holds before the first step.
LEMMA InitEstablishesIInv == Init => IInv
<1> SUFFICES ASSUME Init PROVE IInv
  OBVIOUS
<1>1. TypeOK
  <2>1. item \in [Workers -> Indices] /\ pc \in [Workers -> Locations]
    BY WorkerHasIndex DEF Init, Locations
  <2>2. status \in [Indices -> Statuses] /\ late \in [Workers -> Nat]
    BY DEF Init, Statuses
  <2>3. disp \in DispLocations /\ next \in 0 .. N
    BY PoolAssumption DEF Init, DispLocations
  <2>4. /\ firstErr \in Indices \cup {NoError}
        /\ cancelled \in BOOLEAN
        /\ ret \in Indices \cup {NoError}
    BY DEF Init
  <2> QED
    BY <2>1, <2>2, <2>3, <2>4 DEF TypeOK
<1>2. Untouched /\ SendInRange /\ HeldStatus /\ HeldOnce
  BY DEF Init, Untouched, SendInRange, HeldStatus, HeldOnce, Holds
<1>3. NoneDropped /\ ErrorPending /\ StoredIsReal /\ SkipHasCause
  BY DEF Init, NoneDropped, ErrorPending, StoredIsReal, SkipHasCause, Failed, Indices
<1>4. ClosedHasCause /\ ExitedAfterClose /\ AtReturn /\ LateSeen
  BY DEF Init, ClosedHasCause, ExitedAfterClose, AtReturn, LateSeen, Closed, Returned
<1> QED
  BY <1>1, <1>2, <1>3, <1>4 DEF IInv

\* Every step preserves the invariant.
LEMMA NextPreservesIInv == IInv /\ [Next]_vars => IInv'
<1> SUFFICES ASSUME IInv, [Next]_vars PROVE IInv'
  OBVIOUS
<1> USE PoolAssumption DEF IInv
<1>1. CASE DispatchNext
  <2>1. TypeOK'
    BY <1>1 DEF DispatchNext, TypeOK, DispLocations
  <2>2. SendInRange' /\ ClosedHasCause' /\ ExitedAfterClose' /\ AtReturn'
    BY <1>1 DEF DispatchNext, SendInRange, ClosedHasCause, ExitedAfterClose, AtReturn, Closed, Returned
  <2> QED
    BY <1>1, <2>1, <2>2 DEF DispatchNext, Untouched, HeldStatus, HeldOnce, NoneDropped, ErrorPending,
       StoredIsReal, SkipHasCause, LateSeen, Holds, Failed, StopSignalled
<1>2. CASE DispatchStop
  <2>1. TypeOK'
    BY <1>2 DEF DispatchStop, TypeOK, DispLocations
  <2>2. SendInRange' /\ ClosedHasCause' /\ ExitedAfterClose' /\ AtReturn'
    BY <1>2 DEF DispatchStop, TypeOK, SendInRange, ClosedHasCause, ExitedAfterClose, AtReturn, Closed, Returned
  <2> QED
    BY <1>2, <2>1, <2>2 DEF DispatchStop, Untouched, HeldStatus, HeldOnce, NoneDropped, ErrorPending,
       StoredIsReal, SkipHasCause, LateSeen, Holds, Failed, StopSignalled
<1>3. ASSUME NEW w \in Workers, Handoff(w) PROVE IInv'
  <2>1. TypeOK' /\ next < N
    BY <1>3 DEF Handoff, TypeOK, DispLocations, Locations, SendInRange, Indices
  <2>2. Untouched' /\ SendInRange'
    BY <1>3, <2>1 DEF Handoff, TypeOK, Untouched, SendInRange, Indices
  <2>3. HeldStatus'
    \* The index handed over is one nobody has touched.
    BY <1>3, <2>1 DEF Handoff, TypeOK, HeldStatus, Holds, Untouched, Indices
  <2>4. HeldOnce'
    \* Every held index is below next, so the new one is held by nobody else.
    BY <1>3 DEF Handoff, TypeOK, HeldOnce, HeldStatus, Holds
  <2>5. NoneDropped'
    <3> SUFFICES ASSUME NEW i \in Indices, i < next', status[i] \in {"pending", "running"}
                 PROVE \E v \in Workers : Holds(v)' /\ item'[v] = i
      BY <1>3 DEF Handoff, NoneDropped
    <3>1. CASE i = next
      BY <1>3, <3>1 DEF Handoff, TypeOK, Holds
    <3>2. CASE i < next
      \* Whoever holds i is not the receiver, which held nothing.
      <4>1. PICK v \in Workers : Holds(v) /\ item[v] = i
        BY <3>2 DEF NoneDropped
      <4> QED
        BY <1>3, <4>1 DEF Handoff, TypeOK, Holds
    <3> QED
      BY <1>3, <3>1, <3>2 DEF Handoff, TypeOK, Indices
  <2>6. ErrorPending' /\ StoredIsReal' /\ SkipHasCause'
    BY <1>3 DEF Handoff, TypeOK, ErrorPending, StoredIsReal, SkipHasCause, Failed, StopSignalled
  <2>7. ClosedHasCause' /\ ExitedAfterClose' /\ AtReturn' /\ LateSeen'
    BY <1>3 DEF Handoff, TypeOK, ClosedHasCause, ExitedAfterClose, AtReturn, LateSeen, Closed, Returned, StopSignalled
  <2> QED
    BY <2>1, <2>2, <2>3, <2>4, <2>5, <2>6, <2>7
<1>4. ASSUME NEW w \in Workers, Skip(w) PROVE IInv'
  <2>1. TypeOK' /\ item[w] \in Indices /\ item[w] < next
    BY <1>4 DEF Skip, TypeOK, Locations, Statuses, HeldStatus, Holds
  <2>2. Untouched' /\ SendInRange'
    BY <1>4, <2>1 DEF Skip, TypeOK, Untouched, SendInRange, Indices
  <2>3. HeldStatus' /\ HeldOnce'
    BY <1>4, <2>1 DEF Skip, TypeOK, HeldStatus, HeldOnce, Holds
  <2>4. NoneDropped'
    BY <1>4, <2>1 DEF Skip, TypeOK, NoneDropped, Holds
  <2>5. ErrorPending' /\ StoredIsReal' /\ SkipHasCause'
    BY <1>4, <2>1 DEF Skip, TypeOK, ErrorPending, StoredIsReal, SkipHasCause, HeldStatus, Failed, StopSignalled
  <2>6. ClosedHasCause' /\ ExitedAfterClose' /\ AtReturn' /\ LateSeen'
    BY <1>4 DEF Skip, TypeOK, ClosedHasCause, ExitedAfterClose, AtReturn, LateSeen, Closed, Returned, StopSignalled
  <2> QED
    BY <2>1, <2>2, <2>3, <2>4, <2>5, <2>6
<1>5. ASSUME NEW w \in Workers, Admit(w) PROVE IInv'
  <2>1. TypeOK' /\ HeldStatus' /\ HeldOnce' /\ NoneDropped'
    BY <1>5 DEF Admit, TypeOK, Locations, HeldStatus, HeldOnce, NoneDropped, Holds
  <2>2. ErrorPending' /\ ExitedAfterClose' /\ AtReturn' /\ LateSeen'
    \* No flag is up, so by LateSeen no worker has begun a late transfer.
    BY <1>5 DEF Admit, TypeOK, ErrorPending, ExitedAfterClose, AtReturn, LateSeen, Failed, Closed, Returned, StopSignalled
  <2> QED
    BY <1>5, <2>1, <2>2 DEF Admit, Untouched, SendInRange, StoredIsReal, SkipHasCause, ClosedHasCause,
       Failed, Closed, StopSignalled
<1>6. ASSUME NEW w \in Workers, StartFn(w) PROVE IInv'
  <2>1. TypeOK' /\ item[w] \in Indices /\ item[w] < next
    BY <1>6 DEF StartFn, TypeOK, Locations, Statuses, HeldStatus, Holds
  <2>2. Untouched' /\ SendInRange'
    BY <1>6, <2>1 DEF StartFn, TypeOK, Untouched, SendInRange, Indices
  <2>3. HeldStatus' /\ HeldOnce' /\ NoneDropped'
    BY <1>6, <2>1 DEF StartFn, TypeOK, HeldStatus, HeldOnce, NoneDropped, Holds
  <2>4. ErrorPending' /\ StoredIsReal' /\ SkipHasCause'
    BY <1>6, <2>1 DEF StartFn, TypeOK, ErrorPending, StoredIsReal, SkipHasCause, HeldStatus, Failed, StopSignalled
  <2>5. ClosedHasCause' /\ ExitedAfterClose' /\ AtReturn' /\ LateSeen'
    BY <1>6 DEF StartFn, TypeOK, ClosedHasCause, ExitedAfterClose, AtReturn, LateSeen, Closed, Returned, StopSignalled
  <2> QED
    BY <2>1, <2>2, <2>3, <2>4, <2>5
<1>7. ASSUME NEW w \in Workers, FnOk(w) PROVE IInv'
  <2>1. TypeOK' /\ item[w] \in Indices /\ item[w] < next
    BY <1>7 DEF FnOk, TypeOK, Locations, Statuses, HeldStatus, Holds
  <2>2. Untouched' /\ SendInRange'
    BY <1>7, <2>1 DEF FnOk, TypeOK, Untouched, SendInRange, Indices
  <2>3. HeldStatus' /\ HeldOnce' /\ NoneDropped'
    BY <1>7, <2>1 DEF FnOk, TypeOK, HeldStatus, HeldOnce, NoneDropped, Holds
  <2>4. ErrorPending' /\ StoredIsReal' /\ SkipHasCause'
    BY <1>7, <2>1 DEF FnOk, TypeOK, ErrorPending, StoredIsReal, SkipHasCause, HeldStatus, Failed, StopSignalled
  <2>5. ClosedHasCause' /\ ExitedAfterClose' /\ AtReturn' /\ LateSeen'
    BY <1>7 DEF FnOk, TypeOK, ClosedHasCause, ExitedAfterClose, AtReturn, LateSeen, Closed, Returned, StopSignalled
  <2> QED
    BY <2>1, <2>2, <2>3, <2>4, <2>5
<1>8. ASSUME NEW w \in Workers, FnFail(w) PROVE IInv'
  <2>1. TypeOK' /\ item[w] \in Indices /\ item[w] < next
    BY <1>8 DEF FnFail, TypeOK, Locations, Statuses, HeldStatus, Holds
  <2>2. Untouched' /\ SendInRange'
    BY <1>8, <2>1 DEF FnFail, TypeOK, Untouched, SendInRange, Indices
  <2>3. HeldStatus' /\ HeldOnce' /\ NoneDropped'
    BY <1>8, <2>1 DEF FnFail, TypeOK, HeldStatus, HeldOnce, NoneDropped, Holds
  <2>4. ErrorPending' /\ StoredIsReal' /\ SkipHasCause'
    \* The worker that saw the failure is the one about to store it.
    BY <1>8, <2>1 DEF FnFail, TypeOK, ErrorPending, StoredIsReal, SkipHasCause, Failed, StopSignalled
  <2>5. ClosedHasCause' /\ ExitedAfterClose' /\ AtReturn' /\ LateSeen'
    BY <1>8 DEF FnFail, TypeOK, ClosedHasCause, ExitedAfterClose, AtReturn, LateSeen, Closed, Returned, StopSignalled
  <2> QED
    BY <2>1, <2>2, <2>3, <2>4, <2>5
<1>9. ASSUME NEW w \in Workers, LoadErr(w) PROVE IInv'
  <2>1. TypeOK' /\ HeldStatus' /\ HeldOnce'
    BY <1>9 DEF LoadErr, TypeOK, Locations, HeldStatus, HeldOnce, Holds
  <2>2. NoneDropped'
    \* The index let go of has failed, so nothing is left to do for it.
    BY <1>9 DEF LoadErr, TypeOK, NoneDropped, HeldStatus, Holds
  <2>3. ErrorPending' /\ ExitedAfterClose' /\ AtReturn' /\ LateSeen'
    \* Either some error is stored already or this worker goes on to store one.
    BY <1>9 DEF LoadErr, TypeOK, ErrorPending, ExitedAfterClose, AtReturn, LateSeen, Failed, Closed, Returned, StopSignalled
  <2> QED
    BY <1>9, <2>1, <2>2, <2>3 DEF LoadErr, Untouched, SendInRange, StoredIsReal, SkipHasCause, ClosedHasCause,
       Failed, Closed, StopSignalled
<1>10. ASSUME NEW w \in Workers, StoreErr(w) PROVE IInv'
  <2>1. TypeOK' /\ HeldStatus' /\ HeldOnce'
    BY <1>10 DEF StoreErr, TypeOK, Locations, HeldStatus, HeldOnce, Holds
  <2>2. NoneDropped'
    BY <1>10 DEF StoreErr, TypeOK, NoneDropped, HeldStatus, Holds
  <2>3. firstErr' # NoError /\ ErrorPending' /\ StoredIsReal'
    BY <1>10 DEF StoreErr, TypeOK, ErrorPending, StoredIsReal, HeldStatus, Failed, Indices
  <2>4. SkipHasCause' /\ ClosedHasCause' /\ ExitedAfterClose' /\ AtReturn' /\ LateSeen'
    BY <1>10, <2>3 DEF StoreErr, TypeOK, SkipHasCause, ClosedHasCause, ExitedAfterClose, AtReturn, LateSeen,
       Closed, Returned, StopSignalled
  <2> QED
    BY <1>10, <2>1, <2>2, <2>3, <2>4 DEF StoreErr, Untouched, SendInRange
<1>11. ASSUME NEW w \in Workers, Exit(w) PROVE IInv'
  <2>1. TypeOK' /\ HeldStatus' /\ HeldOnce' /\ NoneDropped'
    BY <1>11 DEF Exit, TypeOK, Locations, HeldStatus, HeldOnce, NoneDropped, Holds
  <2>2. ErrorPending' /\ ExitedAfterClose' /\ AtReturn' /\ LateSeen'
    BY <1>11 DEF Exit, TypeOK, ErrorPending, ExitedAfterClose, AtReturn, LateSeen, Failed, Closed, Returned, StopSignalled
  <2> QED
    BY <1>11, <2>1, <2>2 DEF Exit, Untouched, SendInRange, StoredIsReal, SkipHasCause, ClosedHasCause,
       Failed, Closed, StopSignalled
<1>12. CASE Return
  <2>1. TypeOK'
    BY <1>12 DEF Return, TypeOK, DispLocations
  <2>2. SendInRange' /\ ClosedHasCause' /\ ExitedAfterClose' /\ AtReturn'
    BY <1>12 DEF Return, SendInRange, ClosedHasCause, ExitedAfterClose, AtReturn, Closed, Returned
  <2> QED
    BY <1>12, <2>1, <2>2 DEF Return, Untouched, HeldStatus, HeldOnce, NoneDropped, ErrorPending,
       StoredIsReal, SkipHasCause, LateSeen, Holds, Failed, StopSignalled
<1>13. CASE Cancel
  <2>1. TypeOK'
    BY <1>13 DEF Cancel, TypeOK
  <2>2. SkipHasCause' /\ LateSeen'
    BY <1>13 DEF Cancel, SkipHasCause, LateSeen, StopSignalled
  <2> QED
    BY <1>13, <2>1, <2>2 DEF Cancel, Untouched, SendInRange, HeldStatus, HeldOnce, NoneDropped, ErrorPending,
       StoredIsReal, ClosedHasCause, ExitedAfterClose, AtReturn, Holds, Failed, Closed, Returned
<1>14. CASE UNCHANGED vars
  BY <1>14 DEF vars, TypeOK, Untouched, SendInRange, HeldStatus, HeldOnce, NoneDropped, ErrorPending,
     StoredIsReal, SkipHasCause, ClosedHasCause, ExitedAfterClose, AtReturn, LateSeen,
     Holds, Failed, Closed, Returned, StopSignalled
<1> QED
  BY <1>1, <1>2, <1>3, <1>4, <1>5, <1>6, <1>7, <1>8, <1>9, <1>10, <1>11, <1>12, <1>13, <1>14
     DEF Next, Dispatcher, Worker, Terminated

\* IInv is an invariant of the pool, for every N and every requested number of
\* workers: no index is held twice, none handed out is dropped, and no failure
\* is lost between the load and the store of firstErr.
THEOREM Invariance == Spec => []IInv
  BY InitEstablishesIInv, NextPreservesIInv, PTL DEF Spec

\* Every variable keeps its type.
THEOREM TypeCorrect == Spec => []TypeOK
<1>1. IInv => TypeOK
  BY DEF IInv
<1> QED
  BY <1>1, Invariance, PTL

-----------------------------------------------------------------------------

\* The invariant is strong enough for what the call returns.
LEMMA IInvImpliesReturnSound == IInv => ReturnSound
<1> SUFFICES ASSUME IInv, Returned PROVE
      /\ ret = NoError <=> Failed = {}
      /\ ret # NoError => ret \in Failed
      /\ \A i \in Indices : status[i] # "running"
      /\ ret = NoError /\ ~cancelled => \A i \in Indices : status[i] = "ok"
  BY DEF ReturnSound
<1> USE PoolAssumption DEF IInv
<1>1. ret = firstErr /\ \A w \in Workers : pc[w] = "exited"
  BY DEF AtReturn
<1>2. ret = NoError <=> Failed = {}
  BY <1>1 DEF ErrorPending, StoredIsReal
<1>3. ret # NoError => ret \in Failed
  BY <1>1 DEF StoredIsReal
<1>4. \A i \in Indices : i < next => status[i] \notin {"pending", "running"}
  BY <1>1 DEF NoneDropped, Holds
<1>5. \A i \in Indices : status[i] # "running"
  BY <1>4 DEF Untouched, TypeOK, Indices
<1>6. ASSUME ret = NoError, ~cancelled, NEW i \in Indices PROVE status[i] = "ok"
  <2>1. i < next
    BY <1>1, <1>6 DEF ClosedHasCause, Closed, Returned, Indices
  <2>2. status[i] # "skipped"
    BY <1>1, <1>6 DEF SkipHasCause, StopSignalled
  <2>3. status[i] # "failed"
    BY <1>2, <1>6 DEF Failed
  <2> QED
    BY <1>4, <2>1, <2>2, <2>3 DEF TypeOK, Statuses
<1> QED
  BY <1>2, <1>3, <1>5, <1>6

\* An error is returned exactly when some callback failed, it is one of the
\* errors the callbacks returned, and without a cancellation nil means that
\* every callback ran and succeeded.
THEOREM ReturnIsSound == Spec => []ReturnSound
  BY Invariance, IInvImpliesReturnSound, PTL

\* After the stop signal a worker begins at most one more transfer.
THEOREM LateStarts == Spec => []LateStartBound
<1>1. Init => LateStartBound
  BY DEF Init, LateStartBound
<1>2. IInv /\ LateStartBound /\ [Next]_vars => LateStartBound'
  <2> SUFFICES ASSUME IInv, LateStartBound, [Next]_vars PROVE LateStartBound'
    OBVIOUS
  <2>1. ASSUME NEW w \in Workers, StartFn(w) PROVE LateStartBound'
    \* By LateSeen the worker has begun no late transfer before this one.
    BY <2>1 DEF StartFn, IInv, TypeOK, LateSeen, LateStartBound
  <2>2. CASE late' = late
    BY <2>2 DEF LateStartBound
  <2> QED
    BY <2>1, <2>2 DEF Next, Dispatcher, Worker, Terminated, vars, DispatchNext, DispatchStop, Handoff,
       Skip, Admit, FnOk, FnFail, LoadErr, StoreErr, Exit, Return, Cancel
<1> QED
  BY <1>1, <1>2, Invariance, PTL DEF Spec

-----------------------------------------------------------------------------

\* The instance of ParallelRun counts as this module does.
LEMMA SameCardinality == \A S : PR!Cardinality(S) = Cardinality(S)
  BY DEF PR!Cardinality, Cardinality

\* There are never more workers than were configured.
LEMMA ConfiguredBounds == PoolSize \in Nat /\ Configured \in Nat /\ PoolSize <= Configured
  BY PoolAssumption DEF PoolSize, Configured

\* A running index is held by a worker, so at most as many as configured are running.
LEMMA AtMostConfiguredRunning == IInv => Cardinality(PR!Running) <= Configured
<1> SUFFICES ASSUME IInv PROVE Cardinality(PR!Running) <= Configured
  OBVIOUS
<1> DEFINE carry == [w \in Workers |-> item[w]]
           Carried == {carry[w] : w \in Workers}
<1>1. PoolSize \in Nat
  BY ConfiguredBounds
<1>2. IsFiniteSet(Workers) /\ Cardinality(Workers) = PoolSize
  BY <1>1, FS_Interval DEF Workers
<1>3. carry \in Surjection(Workers, Carried)
  BY DEF Surjection
<1>4. IsFiniteSet(Carried) /\ Cardinality(Carried) <= Cardinality(Workers)
  <2> HIDE DEF carry, Carried
  <2> QED
    BY <1>2, <1>3, FS_Surjection
<1>5. PR!Running \in SUBSET Carried
  <2> SUFFICES ASSUME NEW i \in PR!Indices, status[i] = "running" PROVE i \in Carried
    BY DEF PR!Running
  <2>1. i < next
    BY DEF IInv, Untouched, TypeOK, Indices, PR!Indices
  <2> QED
    BY <2>1 DEF IInv, NoneDropped, Indices, PR!Indices
<1>6. Cardinality(PR!Running) <= Cardinality(Carried) /\ Cardinality(PR!Running) \in Nat
  <2> HIDE DEF carry, Carried
  <2> QED
    BY <1>4, <1>5, FS_Subset, FS_CardinalityType
<1>7. Cardinality(Carried) \in Nat
  <2> HIDE DEF carry, Carried
  <2> QED
    BY <1>4, FS_CardinalityType
<1> QED
  <2> HIDE DEF carry, Carried
  <2> QED
    BY <1>1, <1>2, <1>4, <1>6, <1>7, ConfiguredBounds

\* A step of the pool is a step of ParallelRun or leaves its variables alone.
LEMMA StepSimulation ==
  IInv /\ (Cardinality(PR!Running) <= Configured)' /\ [Next]_vars => [PR!Next]_PR!vars
<1> SUFFICES ASSUME IInv, (Cardinality(PR!Running) <= Configured)', [Next]_vars
             PROVE [PR!Next]_PR!vars
  OBVIOUS
<1> USE DEF PR!Indices, Indices
<1>0. \A w \in Workers : pc[w] # "exited" => ~Returned
  BY DEF IInv, AtReturn
<1>1. ASSUME NEW w \in Workers, Skip(w) PROVE PR!PassOver(item[w]) /\ item[w] \in Indices
  <2>1. item[w] \in Indices /\ status[item[w]] = "pending" /\ ~Returned
    BY <1>0, <1>1 DEF Skip, IInv, TypeOK, HeldStatus
  <2>2. cancelled \/ Failed # {}
    BY <1>1 DEF Skip, IInv, StopSignalled, StoredIsReal
  <2> QED
    BY <1>1, <2>1, <2>2 DEF Skip, PR!PassOver, PR!Failed, Failed, Returned
<1>2. ASSUME NEW w \in Workers, StartFn(w) PROVE PR!Start(item[w]) /\ item[w] \in Indices
  <2>1. item[w] \in Indices /\ status[item[w]] = "pending" /\ ~Returned
    BY <1>0, <1>2 DEF StartFn, IInv, TypeOK, HeldStatus
  <2>2. PR!Running' = PR!Running \cup {item[w]}
    BY <1>2, <2>1 DEF StartFn, IInv, TypeOK, PR!Running
  <2>3. Cardinality(PR!Running \cup {item[w]}) <= Configured
    BY <2>2
  <2> QED
    BY <1>2, <2>1, <2>3, SameCardinality DEF StartFn, PR!Start, Returned
<1>3. ASSUME NEW w \in Workers, FnOk(w) \/ FnFail(w) PROVE PR!Finish(item[w]) /\ item[w] \in Indices
  BY <1>3 DEF FnOk, FnFail, IInv, TypeOK, HeldStatus, PR!Finish, Returned
<1>4. CASE Return
  <2>1. Returned' /\ ~Returned /\ status' = status /\ cancelled' = cancelled /\ Failed' = Failed
    BY <1>4 DEF Return, Returned, Failed
  <2>2. \A w \in Workers : ~Holds(w)
    BY <1>4 DEF Return, Holds
  <2>3. \A i \in Indices : i < next => status[i] \notin {"pending", "running"}
    BY <2>2 DEF IInv, NoneDropped
  <2>4. \A i \in Indices : status[i] # "running"
    BY <2>3 DEF IInv, Untouched, TypeOK
  <2>5. Failed = {} => \A i \in Indices : status[i] # "pending"
    \* Nothing failed, so firstErr is nil and the loop ran to N.
    <3>1. Failed = {} => next = N
      BY <1>4 DEF Return, IInv, ClosedHasCause, Closed, StoredIsReal
    <3> QED
      BY <2>3, <3>1 DEF IInv, TypeOK
  <2>6. ret' \in IF Failed = {} THEN {NoError} ELSE Failed
    BY <1>4 DEF Return, IInv, StoredIsReal, ErrorPending
  <2> QED
    BY <2>1, <2>4, <2>5, <2>6 DEF PR!Next, PR!Return, PR!Failed, Failed
<1>5. CASE Cancel
  BY <1>5 DEF Cancel, PR!Next, PR!Cancel, Returned
<1>6. CASE DispatchNext \/ DispatchStop \/ UNCHANGED vars
  BY <1>6 DEF DispatchNext, DispatchStop, vars, PR!vars, Returned
<1>7. ASSUME NEW w \in Workers, Handoff(w) \/ Admit(w) \/ LoadErr(w) \/ StoreErr(w) \/ Exit(w)
      PROVE UNCHANGED PR!vars
  BY <1>7 DEF Handoff, Admit, LoadErr, StoreErr, Exit, PR!vars, Returned
<1> QED
  BY <1>1, <1>2, <1>3, <1>4, <1>5, <1>6, <1>7 DEF Next, Dispatcher, Worker, Terminated, PR!Next

\* The pool implements ParallelRun: each object is run at most once, at most as
\* many at a time as were configured (one, if fewer were), an object is passed over
\* only for a cause, and the call returns only what ParallelRun allows.
THEOREM Refinement == Spec => ImplementsParallelRun
<1>1. Init => PR!Init
  BY DEF Init, PR!Init, PR!Indices, Indices, Returned
<1> QED
  BY <1>1, AtMostConfiguredRunning, StepSimulation, Invariance, PTL DEF Spec, ImplementsParallelRun, PR!Spec
===============================================================================
