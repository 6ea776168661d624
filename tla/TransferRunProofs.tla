--------------------------- MODULE TransferRunProofs ---------------------------
(***************************************************************************)
(* Proofs about TransferRun for every number of groups, objects, parallel  *)
(* objects, passes and units.                                              *)
(*                                                                         *)
(* IInv ties the place of a callback to what the pool says of its object   *)
(* (CallbacksInStep), prog.InFlight to the callbacks that have raised it   *)
(* (Counted), and the delivery files to the outcomes (PassHonest,          *)
(* FilesSoFar).  The pool itself is only its contract, ParallelRun, which  *)
(* ObjectPoolProofs shows the code to keep.  BytesInv keeps the accounts   *)
(* of a result: what a pass adds is counted object by object, what the     *)
(* live counter shows unit by unit.                                        *)
(***************************************************************************)
EXTENDS TransferRun, FiniteSetTheorems, TLAPS

\* A set of callbacks is finite and has at most N elements; one more or one fewer
\* callback is one.
LEMMA CountIndices ==
  ASSUME NEW S \in SUBSET Indices
  PROVE  /\ IsFiniteSet(S) /\ Cardinality(S) \in 0 .. N
         /\ \A T \in SUBSET S : IsFiniteSet(T) /\ Cardinality(T) <= Cardinality(S)
         /\ \A i \in Indices \ S : Cardinality(S \cup {i}) = Cardinality(S) + 1
         /\ \A i \in S : Cardinality(S \ {i}) = Cardinality(S) - 1
<1>1. IsFiniteSet(Indices) /\ Cardinality(Indices) = N
  <2>1. 0 \in Int /\ N - 1 \in Int /\ N >= 1
    BY RunAssumption
  <2>2. /\ IsFiniteSet(0 .. (N - 1))
        /\ Cardinality(0 .. (N - 1)) = IF 0 > N - 1 THEN 0 ELSE (N - 1) - 0 + 1
    BY <2>1, FS_Interval
  <2>3. (IF 0 > N - 1 THEN 0 ELSE (N - 1) - 0 + 1) = N
    BY RunAssumption
  <2> QED
    BY <2>2, <2>3 DEF Indices
<1>2. IsFiniteSet(S) /\ Cardinality(S) <= N
  BY <1>1, FS_Subset
<1>3. Cardinality(S) \in Nat
  BY <1>2, FS_CardinalityType
<1>4. \A T \in SUBSET S : IsFiniteSet(T) /\ Cardinality(T) <= Cardinality(S)
  BY <1>2, FS_Subset
<1>5. \A i \in Indices \ S : Cardinality(S \cup {i}) = Cardinality(S) + 1
  BY <1>2, FS_AddElement
<1>6. \A i \in S : Cardinality(S \ {i}) = Cardinality(S) - 1
  BY <1>2, FS_RemoveElement
<1> QED
  BY <1>2, <1>3, <1>4, <1>5, <1>6, RunAssumption

\* Cardinality within the instance of ParallelRun is Cardinality.
LEMMA SameCardinality == \A S : Pool!Cardinality(S) = Cardinality(S)
  BY DEF Pool!Cardinality, Cardinality

\* The invariant holds before the first step.
LEMMA InitEstablishesIInv == Init => IInv
<1> SUFFICES ASSUME Init PROVE IInv
  OBVIOUS
<1> USE RunAssumption
<1>1. TypeOK
  <2>1. group \in 1 .. (Groups + 1) /\ it \in 0 .. (Warmup + Iterations) /\ inFlight \in 0 .. N
    BY DEF Init
  <2>2. /\ at \in [Indices -> Places] /\ moved \in [Indices -> 0 .. Size]
        /\ open \in [Indices -> BOOLEAN] /\ file \in [Keys -> FileStates]
    BY DEF Init, Places, FileStates
  <2>3. Pool!TypeOK
    BY DEF Init, Pool!Init, Pool!TypeOK, Pool!Indices, Pool!Statuses
  <2>4. /\ api \in Apis /\ toFile \in BOOLEAN /\ toClean \subseteq Keys
        /\ stage \in {"setup", "clean", "group", "pass", "returned"} /\ failed \in BOOLEAN
    BY DEF Init, Apis
  <2>5. progBytes \in Nat /\ bytes \in Nat /\ samples \in Seq(Nat) /\ result \in Seq(Seq(Nat))
    BY DEF Init
  <2> QED
    BY <2>1, <2>2, <2>3, <2>4, <2>5 DEF TypeOK
<1>2. CallbacksInStep
  BY DEF Init, CallbacksInStep, Pool!Init, Pool!Indices, Indices
<1>3. Counted
  <2>1. Raised = {} /\ Running = {}
    BY DEF Init, Raised, Running, Pool!Init, Pool!Indices, Indices
  <2> QED
    BY <2>1, FS_EmptySet DEF Init, Counted
<1>4. PassHonest /\ LoopInStep /\ FilesSoFar
  BY DEF Init, PassHonest, LoopInStep, FilesSoFar, Pool!Init, Pool!Indices, Indices, Keys
<1> QED
  BY <1>1, <1>2, <1>3, <1>4 DEF IInv

\* A step inside the callback of one object touches no file but that object's, so
\* it leaves the other files as whole as they were.
LEMMA OneFile ==
  ASSUME IInv, NEW i \in Indices, at[i] # "idle",
         UNCHANGED <<toFile, stage, group, it, cancelled, status>>,
         \A k \in Keys : k # <<group, i>> => file'[k] = file[k],
         \A j \in Indices : j # i => at'[j] = at[j],
         toFile /\ at'[i] \in {"close", "count", "leave"} => file'[<<group, i>>] = "full"
  PROVE  FilesSoFar'
<1>1. stage = "pass" /\ status[i] = "running" /\ <<group, i>> \in Keys
  BY RunAssumption DEF IInv, TypeOK, CallbacksInStep, Counted, Running, LoopInStep, Keys
<1>2. ASSUME toFile, NEW j \in Indices,
             status[j] = "ok" \/ at'[j] \in {"close", "count", "leave"}
      PROVE  file'[<<group, j>>] = "full"
  <2>1. CASE j = i
    BY <1>1, <1>2, <2>1
  <2>2. CASE j # i
    <3>1. <<group, j>> \in Keys /\ <<group, j>> # <<group, i>>
      BY <1>1, <2>2 DEF Keys
    <3> QED
      BY <1>1, <1>2, <2>2, <3>1 DEF IInv, FilesSoFar
  <2> QED
    BY <2>1, <2>2
<1>3. ASSUME toFile, ~cancelled, NEW k \in Keys, k[1] < group PROVE file'[k] = "full"
  <2>1. k # <<group, i>>
    BY <1>3 DEF IInv, TypeOK
  <2> QED
    BY <1>3, <2>1 DEF IInv, FilesSoFar
<1> QED
  BY <1>1, <1>2, <1>3 DEF FilesSoFar

\* Every step preserves the invariant.
LEMMA NextPreservesIInv == IInv /\ [Next]_vars => IInv'
<1> SUFFICES ASSUME IInv, [Next]_vars PROVE IInv'
  OBVIOUS
<1> USE RunAssumption DEF IInv, pool, callback, loop, Pool!TypeOK, Pool!Indices, Pool!Statuses, Indices
<1>1. CASE UNCHANGED vars
  BY <1>1 DEF vars, TypeOK, CallbacksInStep, Counted, Raised, Running, PassHonest, LoopInStep,
     FilesSoFar
<1>2. Raised \subseteq Indices /\ Running \subseteq Indices
  BY DEF Raised, Running
<1>3. Counted' => inFlight' \in 0 .. N
  BY CountIndices DEF Counted, Raised
<1>4. CASE SetupFails
  BY <1>4 DEF SetupFails, TypeOK, CallbacksInStep, Counted, Raised, Running, PassHonest,
     LoopInStep, FilesSoFar
<1>5. CASE SetupDone
  BY <1>5 DEF SetupDone, TypeOK, CallbacksInStep, Counted, Raised, Running, PassHonest,
     LoopInStep, FilesSoFar
<1>6. CASE OptionsFail
  BY <1>6 DEF OptionsFail, TypeOK, CallbacksInStep, Counted, Raised, Running, PassHonest,
     LoopInStep, FilesSoFar
<1>7. CASE CleanDone
  BY <1>7 DEF CleanDone, TypeOK, CallbacksInStep, Counted, Raised, Running, PassHonest,
     LoopInStep, FilesSoFar
<1>8. CASE GroupFails
  BY <1>8 DEF GroupFails, TypeOK, CallbacksInStep, Counted, Raised, Running, PassHonest,
     LoopInStep, FilesSoFar
<1>9. CASE PassFails
  BY <1>9 DEF PassFails, TypeOK, CallbacksInStep, Counted, Raised, Running, PassHonest,
     LoopInStep, FilesSoFar
<1>10. CASE ReturnResult
  BY <1>10 DEF ReturnResult, TypeOK, CallbacksInStep, Counted, Raised, Running, PassHonest,
     LoopInStep, FilesSoFar
<1>11. CASE Terminated
  BY <1>11 DEF Terminated, vars, TypeOK, CallbacksInStep, Counted, Raised, Running, PassHonest,
     LoopInStep, FilesSoFar
<1>12. CASE Cancel
  BY <1>12 DEF Cancel, Pool!Cancel, TypeOK, CallbacksInStep, Counted, Raised, Running,
     PassHonest, LoopInStep, FilesSoFar
<1>13. CASE BeginPass
  <2>1. \A i \in Indices : at[i] = "idle" /\ ~open[i]
    BY <1>13 DEF BeginPass, TypeOK, CallbacksInStep, Counted, Running
  <2>2. TypeOK'
    <3>1. 0 \in 0 .. Size /\ moved' = [i \in Indices |-> 0]
      BY <1>13 DEF BeginPass
    <3>2. status' \in [Indices -> Pool!Statuses] /\ ret' \in Indices \cup {NoError}
      BY <1>13 DEF BeginPass
    <3>3. moved' \in [Indices -> 0 .. Size]
      BY <3>1
    <3> QED
      BY <1>13, <3>2, <3>3 DEF BeginPass, TypeOK
  <2>3. CallbacksInStep'
    BY <1>13, <2>1 DEF BeginPass, TypeOK, CallbacksInStep
  <2>4. Raised' = Raised /\ Running' = {} /\ Running = {}
    BY <1>13 DEF BeginPass, TypeOK, Counted, Raised, Running
  <2>5. Counted'
    BY <1>13, <2>4 DEF BeginPass, Counted
  <2>6. PassHonest' /\ LoopInStep'
    BY <1>13 DEF BeginPass, PassHonest, LoopInStep, TypeOK
  <2>7. FilesSoFar'
    BY <1>13, <2>1 DEF BeginPass, TypeOK, FilesSoFar, Keys
  <2> QED
    BY <2>1, <2>2, <2>3, <2>4, <2>5, <2>6, <2>7
<1>14. CASE EndPass
  <2>1. TypeOK'
    BY <1>14 DEF EndPass, TypeOK, LoopInStep
  <2>2. CallbacksInStep' /\ LoopInStep'
    BY <1>14 DEF EndPass, TypeOK, CallbacksInStep, LoopInStep
  <2>3. Counted'
    BY <1>14 DEF EndPass, TypeOK, Counted, Raised, Running
  <2>4. PassHonest'
    BY <1>14 DEF EndPass, TypeOK, PassHonest
  <2>5. FilesSoFar'
    \* Without a signal the pass ran every callback, so the files of the group are whole.
    <3>1. toFile /\ ~cancelled => \A i \in Indices : file[<<group, i>>] = "full"
      BY <1>14 DEF EndPass, PassHonest, FilesSoFar
    <3>2. \A k \in Keys : k[1] = group => k[2] \in Indices /\ k = <<group, k[2]>>
      BY DEF Keys
    <3> QED
      BY <1>14, <3>1, <3>2 DEF EndPass, TypeOK, FilesSoFar
  <2> QED
    BY <2>1, <2>2, <2>3, <2>4, <2>5
<1>15. CASE EndGroup
  <2>1. TypeOK'
    BY <1>15 DEF EndGroup, TypeOK, LoopInStep
  <2>2. CallbacksInStep' /\ LoopInStep'
    BY <1>15 DEF EndGroup, TypeOK, CallbacksInStep, LoopInStep
  <2>3. Counted'
    BY <1>15 DEF EndGroup, TypeOK, Counted, Raised, Running
  <2>4. PassHonest'
    BY <1>15 DEF EndGroup, TypeOK, PassHonest
  <2>5. FilesSoFar'
    BY <1>15
      DEF EndGroup, TypeOK, CallbacksInStep, Counted, Running, LoopInStep, FilesSoFar, Keys
  <2> QED
    BY <2>1, <2>2, <2>3, <2>4, <2>5
<1>16. CASE PoolStep
  <2>1. TypeOK'
    BY <1>16 DEF PoolStep, Pool!PassOver, Pool!Return, Pool!Failed, TypeOK, LoopInStep
  <2>2. CallbacksInStep' /\ LoopInStep'
    BY <1>16 DEF PoolStep, Pool!PassOver, Pool!Return, Pool!Failed, TypeOK, CallbacksInStep,
       LoopInStep
  <2>3. Raised' = Raised /\ Running' = Running
    BY <1>16 DEF PoolStep, Pool!PassOver, Pool!Return, Pool!Failed, TypeOK, Raised, Running
  <2>4. Counted'
    <3>1. finished' /\ ~finished => Running = {}
      BY <1>16 DEF PoolStep, Pool!PassOver, Pool!Return, Running
    <3>2. stage' = stage /\ inFlight' = inFlight /\ (finished => finished')
      BY <1>16 DEF PoolStep, Pool!PassOver, Pool!Return
    <3> QED
      BY <2>3, <3>1, <3>2 DEF Counted
  <2>5. PassHonest'
    <3>1. ASSUME NEW i \in Indices, Pool!PassOver(i) PROVE PassHonest'
      BY <1>16, <3>1 DEF PoolStep, Pool!PassOver, Pool!Failed, TypeOK, PassHonest
    <3>2. CASE Pool!Return
      BY <1>16, <3>2 DEF PoolStep, Pool!Return, Pool!Failed, TypeOK, PassHonest
    <3> QED
      BY <1>16, <3>1, <3>2 DEF PoolStep
  <2>6. FilesSoFar'
    BY <1>16 DEF PoolStep, Pool!PassOver, Pool!Return, Pool!Failed, TypeOK, CallbacksInStep,
       Counted, Running, LoopInStep, FilesSoFar, Keys
  <2> QED
    BY <2>1, <2>2, <2>3, <2>4, <2>5, <2>6
<1>17. ASSUME NEW k \in Keys, Clean(k) PROVE IInv'
  <2>1. TypeOK'
    BY <1>17 DEF Clean, TypeOK, LoopInStep, FileStates
  <2>2. CallbacksInStep' /\ LoopInStep'
    BY <1>17 DEF Clean, TypeOK, CallbacksInStep, LoopInStep
  <2>3. Counted'
    BY <1>17 DEF Clean, TypeOK, Counted, Raised, Running
  <2>4. PassHonest'
    BY <1>17 DEF Clean, TypeOK, PassHonest
  <2>5. FilesSoFar'
    <3>1. /\ UNCHANGED <<toFile, status, at, group, it, cancelled>>
          /\ stage = "clean" /\ stage' = "clean" /\ k \in toClean
          /\ \A f \in Keys : f # k => file'[f] = file[f]
      BY <1>17 DEF Clean, TypeOK, pool
    <3>2. group = 1
      BY <1>17, <3>1 DEF LoopInStep
    <3> QED
      BY <3>1, <3>2 DEF FilesSoFar, Keys
  <2> QED
    BY <2>1, <2>2, <2>3, <2>4, <2>5
<1>18. ASSUME NEW i \in Indices, Begin(i) PROVE IInv'
  <2>1. /\ Running' = Running \cup {i} /\ Cardinality(Running \cup {i}) <= Limit
        /\ Raised' = Raised \cup {i} /\ i \in Indices \ Raised
    <3>1. Cardinality(Running \cup {i}) <= Limit
      <4>1. Pool!Running = Running
        BY DEF Running, Pool!Running
      <4> QED
        BY <1>18, <4>1, SameCardinality DEF Begin, Pool!Start
    <3>2. status[i] = "pending" /\ status' = [status EXCEPT ![i] = "running"] /\ at[i] = "idle"
      BY <1>18 DEF Begin, Pool!Start, TypeOK, CallbacksInStep
    <3>3. at' = [at EXCEPT ![i] = at'[i]] /\ at'[i] # "idle" /\ (api = "upload" => at'[i] = "transfer")
      BY <1>18 DEF Begin, TypeOK
    <3>4. Running' = Running \cup {i}
      BY <3>2 DEF TypeOK, Running
    <3>5. Raised' = Raised \cup {i} /\ i \notin Raised
      <4>1. i \notin Raised
        BY <3>2 DEF Raised
      <4>2. /\ \A j \in Indices : j # i => at'[j] = at[j]
            /\ at'[i] # "idle" /\ (api = "upload" => at'[i] = "transfer") /\ api' = api
        BY <1>18, <3>3 DEF Begin, TypeOK
      <4> QED
        BY <1>18, <4>1, <4>2 DEF Raised
    <3> QED
      BY <3>1, <3>4, <3>5
  <2>2. Counted'
    BY <1>18, <1>2, <2>1, CountIndices DEF Begin, Pool!Start, Counted
  <2>3. TypeOK'
    BY <1>18, <1>3, <2>2 DEF Begin, Pool!Start, TypeOK, Places
  <2>4. CallbacksInStep' /\ LoopInStep'
    BY <1>18 DEF Begin, Pool!Start, TypeOK, CallbacksInStep, LoopInStep
  <2>5. PassHonest'
    BY <1>18 DEF Begin, Pool!Start, TypeOK, PassHonest
  <2>6. FilesSoFar'
    BY <1>18 DEF Begin, Pool!Start, TypeOK, CallbacksInStep, Counted, Running, LoopInStep,
       FilesSoFar, Keys
  <2> QED
    BY <2>1, <2>2, <2>3, <2>4, <2>5, <2>6
<1>19. ASSUME NEW i \in Indices, Create(i) PROVE IInv'
  <2>1. Raised' = Raised /\ Running' = Running
    BY <1>19 DEF Create, TypeOK, CallbacksInStep, Raised, Running
  <2>2. Counted'
    BY <1>19, <2>1 DEF Create, Counted
  <2>3. TypeOK'
    BY <1>19, <1>3, <2>2 DEF Create, TypeOK, Places, FileStates
  <2>4. CallbacksInStep' /\ LoopInStep'
    BY <1>19 DEF Create, TypeOK, CallbacksInStep, LoopInStep
  <2>5. PassHonest'
    BY <1>19 DEF Create, TypeOK, PassHonest
  <2>6. FilesSoFar'
    BY <1>19, OneFile DEF Create, TypeOK, CallbacksInStep
  <2> QED
    BY <2>1, <2>2, <2>3, <2>4, <2>5, <2>6
<1>20. ASSUME NEW i \in Indices, CreateFails(i) PROVE IInv'
  <2>1. Raised' = Raised /\ Running' = Running
    BY <1>20 DEF CreateFails, TypeOK, CallbacksInStep, Raised, Running
  <2>2. Counted'
    BY <1>20, <2>1 DEF CreateFails, Counted
  <2>3. TypeOK'
    BY <1>20, <1>3, <2>2 DEF CreateFails, TypeOK, Places
  <2>4. CallbacksInStep' /\ LoopInStep'
    BY <1>20 DEF CreateFails, TypeOK, CallbacksInStep, LoopInStep
  <2>5. PassHonest'
    BY <1>20 DEF CreateFails, TypeOK, PassHonest
  <2>6. FilesSoFar'
    BY <1>20, OneFile DEF CreateFails, TypeOK, CallbacksInStep
  <2> QED
    BY <2>1, <2>2, <2>3, <2>4, <2>5, <2>6
<1>21. ASSUME NEW i \in Indices, GetBody(i) PROVE IInv'
  <2>1. Raised' = Raised /\ Running' = Running
    BY <1>21 DEF GetBody, TypeOK, CallbacksInStep, Raised, Running
  <2>2. Counted'
    BY <1>21, <2>1 DEF GetBody, Counted
  <2>3. TypeOK'
    BY <1>21, <1>3, <2>2 DEF GetBody, TypeOK, Places
  <2>4. CallbacksInStep' /\ LoopInStep'
    BY <1>21 DEF GetBody, TypeOK, CallbacksInStep, LoopInStep
  <2>5. PassHonest'
    BY <1>21 DEF GetBody, TypeOK, PassHonest
  <2>6. FilesSoFar'
    BY <1>21, OneFile DEF GetBody, TypeOK, CallbacksInStep
  <2> QED
    BY <2>1, <2>2, <2>3, <2>4, <2>5, <2>6
<1>22. ASSUME NEW i \in Indices, GetFails(i) PROVE IInv'
  <2>1. Raised' = Raised /\ Running' = Running
    BY <1>22 DEF GetFails, TypeOK, CallbacksInStep, Raised, Running
  <2>2. Counted'
    BY <1>22, <2>1 DEF GetFails, Counted
  <2>3. TypeOK'
    BY <1>22, <1>3, <2>2 DEF GetFails, TypeOK, Places
  <2>4. CallbacksInStep' /\ LoopInStep'
    BY <1>22 DEF GetFails, TypeOK, CallbacksInStep, LoopInStep
  <2>5. PassHonest'
    BY <1>22 DEF GetFails, TypeOK, PassHonest
  <2>6. FilesSoFar'
    BY <1>22, OneFile DEF GetFails, TypeOK, CallbacksInStep
  <2> QED
    BY <2>1, <2>2, <2>3, <2>4, <2>5, <2>6
<1>23. ASSUME NEW i \in Indices, MoveUnit(i) PROVE IInv'
  <2>1. Raised' = Raised /\ Running' = Running
    BY <1>23 DEF MoveUnit, TypeOK, CallbacksInStep, Raised, Running
  <2>2. Counted'
    BY <1>23, <2>1 DEF MoveUnit, Counted
  <2>3. TypeOK'
    <3>1. moved' \in [Indices -> 0 .. Size]
      BY <1>23 DEF MoveUnit, TypeOK
    <3>2. file' \in [Keys -> FileStates]
      BY <1>23 DEF MoveUnit, TypeOK, FileStates
    <3> QED
      BY <1>23, <1>3, <2>2, <3>1, <3>2 DEF MoveUnit, TypeOK
  <2>4. CallbacksInStep' /\ LoopInStep'
    BY <1>23 DEF MoveUnit, TypeOK, CallbacksInStep, LoopInStep
  <2>5. PassHonest'
    BY <1>23 DEF MoveUnit, TypeOK, PassHonest
  <2>6. FilesSoFar'
    BY <1>23, OneFile DEF MoveUnit, TypeOK, CallbacksInStep
  <2> QED
    BY <2>1, <2>2, <2>3, <2>4, <2>5, <2>6
<1>24. ASSUME NEW i \in Indices, TransferOk(i) PROVE IInv'
  <2>1. /\ Running' = Running /\ i \in Raised
        /\ Raised' = IF api = "upload" THEN Raised \ {i} ELSE Raised
    BY <1>24 DEF TransferOk, Lowered, TypeOK, CallbacksInStep, Raised, Running
  <2>2. Counted'
    BY <1>24, <1>2, <2>1, CountIndices DEF TransferOk, Lowered, Counted
  <2>3. TypeOK'
    BY <1>24, <1>3, <2>2 DEF TransferOk, Lowered, TypeOK, Places, FileStates
  <2>4. CallbacksInStep' /\ LoopInStep'
    BY <1>24 DEF TransferOk, Lowered, TypeOK, CallbacksInStep, LoopInStep
  <2>5. PassHonest'
    BY <1>24 DEF TransferOk, Lowered, TypeOK, PassHonest
  <2>6. FilesSoFar'
    <3>1. <<group, i>> \in Keys
      BY <1>24
        DEF TransferOk, Lowered, TypeOK, CallbacksInStep, Counted, Running, LoopInStep, Keys
    <3>2. toFile => file' = [file EXCEPT ![<<group, i>>] = "full"]
      BY <1>24 DEF TransferOk, Lowered
    <3>3. /\ \A k \in Keys : k # <<group, i>> => file'[k] = file[k]
          /\ toFile => file'[<<group, i>>] = "full"
      BY <1>24, <3>1, <3>2 DEF TransferOk, Lowered, TypeOK
    <3>4. \A j \in Indices : j # i => at'[j] = at[j]
      BY <1>24 DEF TransferOk, Lowered, TypeOK
    <3> QED
      BY <1>24, <3>3, <3>4, OneFile DEF TransferOk, Lowered
  <2> QED
    BY <2>1, <2>2, <2>3, <2>4, <2>5, <2>6
<1>25. ASSUME NEW i \in Indices, TransferFails(i) PROVE IInv'
  <2>1. /\ Running' = Running /\ i \in Raised
        /\ Raised' = IF api = "upload" THEN Raised \ {i} ELSE Raised
    BY <1>25 DEF TransferFails, Lowered, TypeOK, CallbacksInStep, Raised, Running
  <2>2. Counted'
    BY <1>25, <1>2, <2>1, CountIndices DEF TransferFails, Lowered, Counted
  <2>3. TypeOK'
    BY <1>25, <1>3, <2>2 DEF TransferFails, Lowered, TypeOK, Places
  <2>4. CallbacksInStep' /\ LoopInStep'
    BY <1>25 DEF TransferFails, Lowered, TypeOK, CallbacksInStep, LoopInStep
  <2>5. PassHonest'
    BY <1>25 DEF TransferFails, Lowered, TypeOK, PassHonest
  <2>6. FilesSoFar'
    BY <1>25, OneFile DEF TransferFails, Lowered, TypeOK, CallbacksInStep
  <2> QED
    BY <2>1, <2>2, <2>3, <2>4, <2>5, <2>6
<1>26. ASSUME NEW i \in Indices, Close(i) PROVE IInv'
  <2>1. Raised' = Raised /\ Running' = Running
    BY <1>26 DEF Close, TypeOK, CallbacksInStep, Raised, Running
  <2>2. Counted'
    BY <1>26, <2>1 DEF Close, Counted
  <2>3. TypeOK'
    <3>1. at' \in [Indices -> Places] /\ open' \in [Indices -> BOOLEAN]
      BY <1>26 DEF Close, TypeOK, Places, FileStates
    <3> QED
      BY <1>26, <1>3, <2>2, <3>1 DEF Close, TypeOK
  <2>4. CallbacksInStep' /\ LoopInStep'
    BY <1>26 DEF Close, TypeOK, CallbacksInStep, LoopInStep
  <2>5. PassHonest'
    BY <1>26 DEF Close, TypeOK, PassHonest
  <2>6. FilesSoFar'
    <3>1. toFile /\ stage = "pass" => file[<<group, i>>] = "full"
      BY <1>26 DEF Close, FilesSoFar
    <3>2. stage = "pass" /\ \A j \in Indices : j # i => at'[j] = at[j]
      BY <1>26 DEF Close, TypeOK, CallbacksInStep, Counted, Running
    <3> QED
      BY <1>26, <3>1, <3>2, OneFile DEF Close
  <2> QED
    BY <2>1, <2>2, <2>3, <2>4, <2>5, <2>6
<1>27. ASSUME NEW i \in Indices, AddBytes(i) PROVE IInv'
  <2>1. Raised' = Raised /\ Running' = Running
    BY <1>27 DEF AddBytes, TypeOK, CallbacksInStep, Raised, Running
  <2>2. Counted'
    BY <1>27, <2>1 DEF AddBytes, Counted
  <2>3. TypeOK'
    <3>1. bytes' \in Nat /\ at' \in [Indices -> Places]
      BY <1>27 DEF AddBytes, TypeOK, Places, FileStates
    <3> QED
      BY <1>27, <1>3, <2>2, <3>1 DEF AddBytes, TypeOK
  <2>4. CallbacksInStep' /\ LoopInStep'
    BY <1>27 DEF AddBytes, TypeOK, CallbacksInStep, LoopInStep
  <2>5. PassHonest'
    BY <1>27 DEF AddBytes, TypeOK, PassHonest
  <2>6. FilesSoFar'
    <3>1. toFile /\ stage = "pass" => file[<<group, i>>] = "full"
      BY <1>27 DEF AddBytes, FilesSoFar
    <3>2. stage = "pass" /\ \A j \in Indices : j # i => at'[j] = at[j]
      BY <1>27 DEF AddBytes, TypeOK, CallbacksInStep, Counted, Running
    <3> QED
      BY <1>27, <3>1, <3>2, OneFile DEF AddBytes
  <2> QED
    BY <2>1, <2>2, <2>3, <2>4, <2>5, <2>6
<1>28. ASSUME NEW i \in Indices, Leave(i) PROVE IInv'
  <2>1. /\ Running' = Running \ {i} /\ i \in Running
        /\ Raised' = IF api = "upload" THEN Raised ELSE Raised \ {i}
        /\ i \in Raised \/ api = "upload"
    BY <1>28 DEF Leave, Pool!Finish, TypeOK, CallbacksInStep, Raised, Running
  <2>2. Counted'
    <3>1. inFlight' = Cardinality(Raised')
      BY <1>28, <1>2, <2>1, CountIndices DEF Leave, Counted
    <3>2. Cardinality(Running') <= Limit
      <4>1. Cardinality(Running) \in 0 .. N /\ Cardinality(Running \ {i}) = Cardinality(Running) - 1
        BY <1>2, <2>1, CountIndices
      <4> QED
        BY <2>1, <4>1 DEF Counted
    <3> QED
      BY <1>28, <2>1, <3>1, <3>2 DEF Leave, Pool!Finish, Counted
  <2>3. TypeOK'
    <3>1. at' \in [Indices -> Places] /\ status' \in [Indices -> Pool!Statuses]
      BY <1>28 DEF Leave, Pool!Finish, TypeOK, Places, FileStates
    <3> QED
      BY <1>28, <1>3, <2>2, <3>1 DEF Leave, Pool!Finish, TypeOK
  <2>4. CallbacksInStep' /\ LoopInStep'
    BY <1>28 DEF Leave, Pool!Finish, TypeOK, CallbacksInStep, LoopInStep
  <2>5. PassHonest'
    BY <1>28 DEF Leave, Pool!Finish, TypeOK, PassHonest
  <2>6. FilesSoFar'
    BY <1>28 DEF Leave, Pool!Finish, TypeOK, CallbacksInStep, Counted, Running, LoopInStep,
       FilesSoFar, Keys
  <2> QED
    BY <2>1, <2>2, <2>3, <2>4, <2>5, <2>6
<1> QED
  BY <1>1, <1>4, <1>5, <1>6, <1>7, <1>8, <1>9, <1>10, <1>11, <1>12, <1>13, <1>14, <1>15, <1>16,
     <1>17, <1>18, <1>19, <1>20, <1>21, <1>22, <1>23, <1>24, <1>25, <1>26, <1>27, <1>28
  DEF Next, Runner, ConfigError, Local, Remote

\* The invariant, for runs of every size.
THEOREM Invariance == Spec => []IInv
<1>1. Init => IInv
  BY InitEstablishesIInv
<1>2. IInv /\ [Next]_vars => IInv'
  BY NextPreservesIInv
<1> QED
  BY <1>1, <1>2, PTL DEF Spec

\* Type correctness of the runners.
THEOREM TypeCorrect == Spec => []TypeOK
<1>1. IInv => TypeOK
  BY DEF IInv
<1> QED
  BY <1>1, Invariance, PTL

\* prog.InFlight counts every call that may move bytes, never exceeds the pool and
\* is back at zero when no callback runs, after every mix of errors: what the stall
\* watchdog relies on.
THEOREM InFlightIsSound == Spec => []InFlightSound
<1>1. IInv => InFlightSound
  <2> SUFFICES ASSUME IInv PROVE InFlightSound
    OBVIOUS
  <2>1. /\ Remotely \subseteq Raised /\ Raised \subseteq Running
        /\ Raised \subseteq Indices /\ Running \subseteq Indices
    BY DEF IInv, CallbacksInStep, Remotely, Raised, Running
  <2>2. /\ Cardinality(Remotely) <= Cardinality(Raised)
        /\ Cardinality(Raised) <= Cardinality(Running)
        /\ Cardinality(Raised) \in 0 .. N /\ Cardinality(Running) \in 0 .. N
    BY <2>1, CountIndices
  <2>3. Running = {} => Cardinality(Raised) = 0
    BY <2>1, FS_EmptySet
  <2> QED
    BY <2>2, <2>3, RunAssumption DEF IInv, Counted, InFlightSound
<1> QED
  BY <1>1, Invariance, PTL

\* No path through a callback leaves a file or a body open.
THEOREM NothingIsLeaked == Spec => []NothingLeaked
<1>1. IInv => NothingLeaked
  BY DEF IInv, CallbacksInStep, NothingLeaked
<1> QED
  BY <1>1, Invariance, PTL

\* A result obtained without a cancellation means that every delivery file of every
\* group is whole, whatever an earlier run had left in the directory.
THEOREM FilesAreDelivered == Spec => []FilesDelivered
<1>1. IInv => FilesDelivered
  <2> SUFFICES ASSUME IInv, stage = "returned", ~failed, ~cancelled, toFile, NEW k \in Keys
               PROVE  file[k] = "full"
    BY DEF FilesDelivered
  <2>1. k[1] \in 1 .. Groups /\ group = Groups + 1
    BY DEF Keys, IInv, LoopInStep
  <2> QED
    BY <2>1, RunAssumption DEF IInv, FilesSoFar
<1> QED
  BY <1>1, Invariance, PTL

-----------------------------------------------------------------------------
(* The bytes of the passes, and the samples made of them. *)

\* A set of units is finite, one unit more is one, and all of a pass are Total.
LEMMA CountUnits ==
  /\ \A S \in SUBSET (Indices \X (1 .. Size)) :
       /\ IsFiniteSet(S) /\ Cardinality(S) \in Nat
       /\ \A u \in (Indices \X (1 .. Size)) \ S : Cardinality(S \cup {u}) = Cardinality(S) + 1
  /\ Cardinality(Indices \X (1 .. Size)) = Total
<1>1. IsFiniteSet(Indices) /\ Cardinality(Indices) = N
  <2>1. 0 \in Int /\ N - 1 \in Int /\ (IF 0 > N - 1 THEN 0 ELSE (N - 1) - 0 + 1) = N
    BY RunAssumption
  <2> QED
    BY <2>1, FS_Interval DEF Indices
<1>2. IsFiniteSet(1 .. Size) /\ Cardinality(1 .. Size) = Size
  <2>1. 1 \in Int /\ Size \in Int /\ (IF 1 > Size THEN 0 ELSE Size - 1 + 1) = Size
    BY RunAssumption
  <2> QED
    BY <2>1, FS_Interval
<1>3. /\ IsFiniteSet(Indices \X (1 .. Size))
      /\ Cardinality(Indices \X (1 .. Size)) = Cardinality(Indices) * Cardinality(1 .. Size)
  BY <1>1, <1>2, FS_Product
<1>4. ASSUME NEW S \in SUBSET (Indices \X (1 .. Size))
      PROVE  /\ IsFiniteSet(S) /\ Cardinality(S) \in Nat
             /\ \A u \in (Indices \X (1 .. Size)) \ S :
                  Cardinality(S \cup {u}) = Cardinality(S) + 1
  <2>1. IsFiniteSet(S)
    BY <1>3, FS_Subset
  <2> QED
    BY <2>1, FS_CardinalityType, FS_AddElement
<1> QED
  BY <1>1, <1>2, <1>3, <1>4 DEF Total

\* One more pass is Total more.
LEMMA OnePassMore ==
  ASSUME NEW p \in Nat
  PROVE  /\ Total \in Nat /\ p * Total \in Nat /\ (p + 1) * Total = p * Total + Total
         /\ \A n \in 0 .. N : Size * n <= Total /\ Size * n \in Nat
         /\ Size * N = Total
<1>1. N \in Nat /\ Size \in Nat /\ Total = N * Size
  BY RunAssumption DEF Total
<1>2. Total \in Nat
  BY <1>1
<1>3. p * Total \in Nat /\ (p + 1) * Total = p * Total + Total
  BY <1>2
<1>4. ASSUME NEW n \in 0 .. N PROVE Size * n <= Total /\ Size * n \in Nat
  <2>1. N - n \in Nat /\ n \in Nat /\ n + (N - n) = N
    BY <1>1
  <2>2. Size * n \in Nat /\ Size * (N - n) \in Nat /\ Size * N = Size * n + Size * (N - n)
    BY <1>1, <2>1
  <2> QED
    BY <1>1, <2>2
<1> QED
  BY <1>1, <1>2, <1>3, <1>4

\* The loop variables count the passes done.
LEMMA PassesCounted ==
  ASSUME TypeOK
  PROVE  /\ PassesDone \in Nat
         /\ group' = group /\ it' = it + 1 => PassesDone' = PassesDone + 1
         /\ it = Warmup + Iterations /\ group' = group + 1 /\ it' = 0 =>
              PassesDone' = PassesDone
<1> DEFINE P == Warmup + Iterations
<1>1. P \in Nat /\ group - 1 \in Nat /\ group \in Nat /\ it \in Nat
  BY RunAssumption DEF TypeOK
<1>2. (group - 1) * P \in Nat /\ group * P = (group - 1) * P + P
  BY <1>1
<1>3. PassesDone = (group - 1) * P + it
  BY DEF PassesDone
<1>4. group' = group /\ it' = it + 1 => PassesDone' = (group - 1) * P + (it + 1)
  BY DEF PassesDone
<1>5. group' = group + 1 /\ it' = 0 => PassesDone' = group * P
  <2>1. PassesDone' = (group' - 1) * P + it'
    BY DEF PassesDone
  <2>2. SUFFICES ASSUME group' = group + 1, it' = 0 PROVE PassesDone' = group * P
    OBVIOUS
  <2>3. group' - 1 = group
    BY <1>1, <2>2
  <2>4. group * P \in Nat
    BY <1>1, <1>2
  <2> HIDE DEF P
  <2>5. PassesDone' = group * P + 0
    BY <2>1, <2>2, <2>3
  <2> QED
    BY <2>4, <2>5
<1> HIDE DEF P
<1>6. it = Warmup + Iterations => it = P
  BY DEF P
<1> QED
  BY <1>1, <1>2, <1>3, <1>4, <1>5, <1>6

\* A step that moves no unit and adds no bytes keeps the totals of a pass.
LEMMA SamePass ==
  ASSUME PassSoFar, UNCHANGED <<group, it, moved, bytes, progBytes>>, Added' = Added,
         stage' = "pass" => stage = "pass", cancelled => cancelled',
         \A i \in Indices :
           status'[i] = "ok" \/ at'[i] \in {"close", "count", "leave"} =>
             status[i] = "ok" \/ at[i] \in {"close", "count", "leave"} \/ moved[i] = Size
  PROVE  PassSoFar'
<1>1. Units' = Units /\ PassesDone' = PassesDone
  BY DEF Units, PassesDone
<1> QED
  BY <1>1 DEF PassSoFar

\* A step within a pass, or between passes that moves nothing, keeps the samples.
LEMMA SameSamples ==
  ASSUME SamplesSoFar, UNCHANGED <<group, it, samples, result>>, cancelled => cancelled',
         stage' # "pass" /\ ~(stage' = "returned" /\ failed') =>
           stage # "pass" /\ ~(stage = "returned" /\ failed) /\ progBytes' = progBytes
  PROVE  SamplesSoFar'
BY DEF SamplesSoFar, SampleTrue, PassesDone

\* Every step keeps the accounts.
LEMMA NextPreservesBytesInv ==
  ASSUME IInv, BytesInv, [Next]_vars
  PROVE  BytesInv'
<1>1. PassSoFar /\ SamplesSoFar /\ TypeOK /\ CallbacksInStep /\ Counted /\ PassHonest /\ LoopInStep
  BY DEF IInv, BytesInv
<1>2. /\ status \in [Indices -> Pool!Statuses] /\ at \in [Indices -> Places]
      /\ moved \in [Indices -> 0 .. Size]
      /\ Added \subseteq Indices /\ Units \subseteq Indices \X (1 .. Size)
      /\ bytes \in Nat /\ progBytes \in Nat /\ Size \in Nat
  BY <1>1, RunAssumption DEF TypeOK, Pool!TypeOK, Pool!Indices, Indices, Added, Units
<1>3. \A i \in Indices : at[i] # "idle" => stage = "pass" /\ status[i] = "running"
  BY <1>1 DEF CallbacksInStep, Counted, Running
<1>4. ASSUME UNCHANGED vars PROVE BytesInv'
  <2>1. UNCHANGED <<stage, group, it, moved, bytes, progBytes, status, at, cancelled, samples,
                    result, failed>>
    BY <1>4 DEF vars, pool, callback, loop
  <2>2. Added' = Added
    BY <2>1 DEF Added
  <2> QED
    BY <1>1, <2>1, <2>2, SamePass, SameSamples DEF BytesInv
<1>5. ASSUME SetupFails \/ SetupDone \/ OptionsFail \/ CleanDone \/ GroupFails \/ PassFails
               \/ ReturnResult \/ Cancel \/ \E k \in Keys : Clean(k)
      PROVE  BytesInv'
  <2>1. /\ UNCHANGED <<group, it, moved, bytes, progBytes, status, at, samples, result>>
        /\ stage' = "pass" => stage = "pass"
        /\ stage' # "pass" /\ ~(stage' = "returned" /\ failed') =>
             stage # "pass" /\ ~(stage = "returned" /\ failed)
        /\ cancelled => cancelled'
    BY <1>5 DEF SetupFails, SetupDone, OptionsFail, CleanDone, GroupFails, PassFails,
                ReturnResult, Cancel, Pool!Cancel, Clean, pool, callback, loop
  <2>2. Added' = Added
    BY <2>1 DEF Added
  <2> QED
    BY <1>1, <2>1, <2>2, SamePass, SameSamples DEF BytesInv
<1>6. CASE BeginPass
  <2>1. /\ stage = "group" /\ stage' = "pass" /\ bytes' = 0
        /\ UNCHANGED <<at, progBytes, group, it, samples, result, cancelled>>
        /\ \A i \in Indices : moved'[i] = 0 /\ status'[i] = "pending"
    BY <1>6 DEF BeginPass
  <2>2. \A i \in Indices : at'[i] = "idle"
    BY <1>2, <1>3, <2>1
  <2>3. Added' = {} /\ Units' = {}
    BY <2>1, <2>2 DEF Added, Units
  <2>4. Cardinality({}) = 0 /\ Size * 0 = 0
    BY <1>2, FS_EmptySet
  <2>5. ~cancelled => progBytes = PassesDone * Total
    BY <1>1, <2>1 DEF SamplesSoFar
  <2>6. PassesDone' = PassesDone /\ progBytes + 0 = progBytes
    BY <1>2, <2>1 DEF PassesDone
  <2>7. PassSoFar'
    BY <2>1, <2>2, <2>3, <2>4, <2>5, <2>6 DEF PassSoFar
  <2>8. SamplesSoFar'
    BY <1>1, <2>1, SameSamples
  <2> QED
    BY <2>7, <2>8 DEF BytesInv
<1>7. CASE EndPass
  <2>1. /\ stage = "pass" /\ finished /\ ret = NoError /\ stage' = "group" /\ it' = it + 1
        /\ samples' = IF it >= Warmup THEN Append(samples, bytes) ELSE samples
        /\ UNCHANGED <<progBytes, group, result, cancelled, failed>>
    BY <1>7 DEF EndPass, pool, callback
  <2>2. /\ it \in Nat /\ it < Warmup + Iterations /\ group <= Groups /\ group \in Nat
        /\ samples \in Seq(Nat) /\ Warmup \in Nat /\ Iterations \in Nat /\ PassesDone \in Nat
    BY <1>1, <2>1, PassesCounted, RunAssumption DEF TypeOK, LoopInStep
  <2>3. Cardinality(Added) \in 0 .. N /\ (~cancelled => Cardinality(Added) = N)
    <3>1. ~cancelled => Added = Indices
      BY <1>1, <2>1 DEF PassHonest, Added
    <3>2. Cardinality(Indices) = N
      <4>1. 0 \in Int /\ N - 1 \in Int /\ (IF 0 > N - 1 THEN 0 ELSE (N - 1) - 0 + 1) = N
        BY RunAssumption
      <4> QED
        BY <4>1, FS_Interval DEF Indices
    <3> QED
      BY <1>2, <3>1, <3>2, CountIndices
  <2>4. SampleTrue(bytes)
    BY <1>1, <2>1, <2>2, <2>3, OnePassMore DEF PassSoFar, SampleTrue
  <2>5. ~cancelled => progBytes = PassesDone * Total + Total
    <3>1. ~cancelled => Units = Indices \X (1 .. Size)
      <4>1. ~cancelled => \A i \in Indices : moved[i] = Size
        BY <1>1, <2>1 DEF PassHonest, PassSoFar
      <4> QED
        BY <1>2, <4>1 DEF Units
    <3> QED
      BY <1>1, <2>1, <3>1, CountUnits DEF PassSoFar
  <2>6. PassesDone' = PassesDone + 1
    BY <1>1, <2>1, PassesCounted
  <2>7. ~cancelled => progBytes = PassesDone' * Total
    BY <2>2, <2>5, <2>6, OnePassMore
  <2>8. /\ Len(samples') = IF it + 1 > Warmup THEN it + 1 - Warmup ELSE 0
        /\ \A b \in Entries(samples') : b = bytes \/ b \in Entries(samples)
    <3>1. Len(samples) = IF it > Warmup THEN it - Warmup ELSE 0
      BY <1>1 DEF SamplesSoFar
    <3>2. CASE it >= Warmup
      <4>1. samples' = Append(samples, bytes) /\ Len(samples') = Len(samples) + 1
        BY <1>2, <2>1, <2>2, <3>2
      <4>2. \A k \in DOMAIN samples' : samples'[k] = bytes \/
                                       (k \in DOMAIN samples /\ samples'[k] = samples[k])
        BY <1>2, <2>2, <4>1
      <4> QED
        BY <2>2, <3>1, <3>2, <4>1, <4>2 DEF Entries
    <3>3. CASE ~(it >= Warmup)
      BY <2>1, <2>2, <3>1, <3>3
    <3> QED
      BY <3>2, <3>3
  <2>9. /\ \A b \in Entries(samples') : SampleTrue(b)
        /\ \A s \in Entries(result) : Len(s) = Iterations /\ \A b \in Entries(s) : SampleTrue(b)
    BY <1>1, <2>4, <2>8 DEF SamplesSoFar
  <2>10. group \in Nat /\ Groups \in Nat /\ ~(group > Groups) /\ Len(result) = group - 1
    BY <1>1, <2>2, RunAssumption DEF SamplesSoFar
  <2>11. \A b : SampleTrue(b)' <=> SampleTrue(b)
    BY <2>1 DEF SampleTrue, Total
  <2>12. SamplesSoFar'
    <3>1. Total' = Total
      BY DEF Total
    <3>6. Len(samples') = IF it' > Warmup THEN it' - Warmup ELSE 0
      <4>1. Len(samples') = IF it + 1 > Warmup THEN it + 1 - Warmup ELSE 0
        BY <2>8
      <4>2. it' = it + 1
        BY <2>1
      <4>3. CASE it + 1 > Warmup
        BY <2>2, <4>1, <4>2, <4>3
      <4>4. CASE ~(it + 1 > Warmup)
        BY <2>2, <4>1, <4>2, <4>4
      <4> QED
        BY <4>3, <4>4
    <3>2. group' > Groups => it' = 0
      BY <2>1, <2>10
    <3>3. ~cancelled' => progBytes' = PassesDone' * Total'
      BY <2>1, <2>7, <3>1
    <3>4. \A b \in Entries(samples') : SampleTrue(b)'
      BY <2>1, <2>9, <3>1 DEF SampleTrue
    <3>5. /\ Len(result') = group' - 1
          /\ \A s \in Entries(result') :
               Len(s) = Iterations /\ \A b \in Entries(s) : SampleTrue(b)'
      BY <2>1, <2>9, <2>10, <3>1 DEF SampleTrue
    <3> QED
      BY <3>2, <3>3, <3>4, <3>5, <3>6 DEF SamplesSoFar
  <2> QED
    BY <2>1, <2>12 DEF BytesInv, PassSoFar
<1>8. CASE EndGroup
  <2>1. /\ stage = "group" /\ stage' = "group" /\ it = Warmup + Iterations /\ it' = 0
        /\ group' = group + 1 /\ result' = Append(result, samples) /\ samples' = <<>>
        /\ UNCHANGED <<progBytes, cancelled, failed>>
    BY <1>8 DEF EndGroup, pool, callback
  <2>2. /\ group \in Nat /\ samples \in Seq(Nat) /\ result \in Seq(Seq(Nat))
        /\ Warmup \in Nat /\ Iterations \in Nat \ {0}
    BY <1>1, RunAssumption DEF TypeOK
  <2>3. PassesDone' = PassesDone
    BY <1>1, <2>1, PassesCounted
  <2>4. Len(samples) = Iterations /\ \A b \in Entries(samples) : SampleTrue(b)
    BY <1>1, <2>1, <2>2 DEF SamplesSoFar
  <2>5. /\ Len(result') = Len(result) + 1
        /\ \A s \in Entries(result') : s = samples \/ s \in Entries(result)
    <3>1. Len(result') = Len(result) + 1
      BY <2>1, <2>2
    <3>2. \A k \in DOMAIN result' : result'[k] = samples \/
                                    (k \in DOMAIN result /\ result'[k] = result[k])
      BY <2>1, <2>2
    <3> QED
      BY <3>1, <3>2 DEF Entries
  <2>6. Entries(samples') = {} /\ Len(samples') = 0
    BY <2>1 DEF Entries
  <2>7. \A b : SampleTrue(b)' <=> SampleTrue(b)
    BY <2>1 DEF SampleTrue, Total
  <2>8. ~cancelled => progBytes = PassesDone * Total
    BY <1>1, <2>1 DEF SamplesSoFar
  <2>9. Len(result') = group' - 1 /\ (\A s \in Entries(result') : Len(s) = Iterations)
        /\ \A s \in Entries(result') : \A b \in Entries(s) : SampleTrue(b)
    BY <1>1, <2>1, <2>2, <2>4, <2>5 DEF SamplesSoFar
  <2>10. SamplesSoFar'
    BY <2>1, <2>2, <2>3, <2>6, <2>7, <2>8, <2>9 DEF SamplesSoFar
  <2> QED
    BY <2>1, <2>10 DEF BytesInv, PassSoFar
<1>9. ASSUME NEW i \in Indices,
             Begin(i) \/ Create(i) \/ CreateFails(i) \/ GetBody(i) \/ GetFails(i)
               \/ TransferOk(i) \/ TransferFails(i) \/ Close(i) \/ Leave(i)
      PROVE  BytesInv'
  <2>1. /\ UNCHANGED <<stage, group, it, moved, bytes, progBytes, samples, result, failed, cancelled>>
        /\ stage = "pass"
    BY <1>3, <1>9 DEF Begin, Pool!Start, Create, CreateFails, GetBody, GetFails, TransferOk,
                      TransferFails, Close, Leave, Pool!Finish, loop, pool
  <2>2. \A j \in Indices : j # i => at'[j] = at[j] /\ status'[j] = status[j]
    BY <1>2, <1>9 DEF Begin, Pool!Start, Create, CreateFails, GetBody, GetFails, TransferOk,
                      TransferFails, Close, Leave, Pool!Finish, loop, pool
  <2>3. /\ (status[i] = "ok" \/ at[i] = "leave") <=> (status'[i] = "ok" \/ at'[i] = "leave")
        /\ status'[i] = "ok" \/ at'[i] \in {"close", "count", "leave"} =>
             status[i] = "ok" \/ at[i] \in {"close", "count", "leave"} \/ moved[i] = Size
    BY <1>2, <1>3, <1>9 DEF Begin, Pool!Start, Create, CreateFails, GetBody, GetFails,
                      TransferOk, TransferFails, Close, Leave, Pool!Finish, loop, pool
  <2>4. Added' = Added
    BY <2>2, <2>3 DEF Added
  <2> QED
    BY <1>1, <2>1, <2>2, <2>3, <2>4, SamePass, SameSamples DEF BytesInv
<1>10. ASSUME NEW i \in Indices, MoveUnit(i) PROVE BytesInv'
  <2>1. /\ UNCHANGED <<stage, group, it, bytes, status, at, samples, result, failed, cancelled>>
        /\ stage = "pass" /\ progBytes' = progBytes + 1 /\ at[i] = "transfer"
        /\ moved[i] < Size /\ moved' = [moved EXCEPT ![i] = @ + 1]
    BY <1>3, <1>10 DEF MoveUnit, loop, pool
  <2> DEFINE u == <<i, moved[i] + 1>>
  <2>2. u \in (Indices \X (1 .. Size)) \ Units /\ Units' = Units \cup {u}
    <3>1. moved[i] \in 0 .. Size /\ moved'[i] = moved[i] + 1
          /\ \A j \in Indices : j # i => moved'[j] = moved[j]
      BY <1>2, <2>1
    <3>2. \A v \in Indices \X (1 .. Size) : v[1] \in Indices /\ v[2] \in 1 .. Size /\ v = <<v[1], v[2]>>
      OBVIOUS
    <3>3. \A v \in Indices \X (1 .. Size) : v[2] <= moved'[v[1]] <=> v[2] <= moved[v[1]] \/ v = u
      BY <1>2, <3>1, <3>2
    <3>4. u \in Indices \X (1 .. Size) /\ u \notin Units
      BY <1>2, <2>1, <3>1 DEF Units
    <3> QED
      BY <3>3, <3>4 DEF Units
  <2> HIDE DEF u
  <2>3. Cardinality(Units') = Cardinality(Units) + 1 /\ Cardinality(Units) \in Nat
    BY <1>2, <2>2, CountUnits
  <2>4. Added' = Added /\ PassesDone' = PassesDone /\ PassesDone * Total \in Nat
    BY <1>1, <2>1, PassesCounted, OnePassMore DEF Added, PassesDone
  <2>5. \A j \in Indices : status[j] = "ok" \/ at[j] \in {"close", "count", "leave"} => j # i
    BY <1>3, <2>1
  <2>6. \A j \in Indices : status[j] = "ok" \/ at[j] \in {"close", "count", "leave"} =>
                             moved'[j] = Size
    BY <1>1, <1>2, <2>1, <2>5 DEF PassSoFar
  <2>7. ~cancelled => progBytes' = PassesDone * Total + Cardinality(Units')
    BY <1>1, <1>2, <2>1, <2>3, <2>4 DEF PassSoFar
  <2>8. PassSoFar'
    BY <1>1, <2>1, <2>4, <2>6, <2>7 DEF PassSoFar
  <2>9. SamplesSoFar'
    BY <1>1, <2>1, SameSamples
  <2> QED
    BY <2>8, <2>9 DEF BytesInv
<1>11. ASSUME NEW i \in Indices, AddBytes(i) PROVE BytesInv'
  <2>1. /\ UNCHANGED <<stage, group, it, moved, progBytes, status, samples, result, failed>>
        /\ UNCHANGED cancelled
        /\ stage = "pass" /\ status[i] = "running" /\ at[i] = "count"
        /\ bytes' = bytes + moved[i] /\ at' = [at EXCEPT ![i] = "leave"]
    BY <1>3, <1>11 DEF AddBytes, loop, pool
  <2>2. Added' = Added \cup {i} /\ i \in Indices \ Added
    BY <1>2, <2>1 DEF Added
  <2>3. Cardinality(Added') = Cardinality(Added) + 1 /\ Cardinality(Added) \in 0 .. N
    BY <1>2, <2>2, CountIndices
  <2>4. bytes = Size * Cardinality(Added) /\ moved[i] = Size
    BY <1>1, <2>1 DEF PassSoFar
  <2>5. bytes' = Size * Cardinality(Added')
    <3>1. Cardinality(Added) \in Nat
      BY <2>3, RunAssumption
    <3>2. Size * (Cardinality(Added) + 1) = Size * Cardinality(Added) + Size
      BY <1>2, <3>1
    <3> QED
      BY <2>1, <2>3, <2>4, <3>2
  <2>6. Units' = Units /\ PassesDone' = PassesDone
    BY <2>1 DEF Units, PassesDone
  <2>7. PassSoFar'
    BY <1>1, <1>2, <2>1, <2>4, <2>5, <2>6 DEF PassSoFar
  <2>8. SamplesSoFar'
    BY <1>1, <2>1, SameSamples
  <2> QED
    BY <2>7, <2>8 DEF BytesInv
<1>12. CASE PoolStep
  <2>1. /\ UNCHANGED <<stage, group, it, moved, bytes, progBytes, at, samples, result, failed>>
        /\ UNCHANGED cancelled /\ stage = "pass"
        /\ \A i \in Indices : status'[i] = "ok" <=> status[i] = "ok"
    BY <1>2, <1>12
      DEF PoolStep, Pool!PassOver, Pool!Return, Pool!Indices, Indices, callback, loop
  <2>2. Added' = Added
    BY <2>1 DEF Added
  <2> QED
    BY <1>1, <2>1, <2>2, SamePass, SameSamples DEF BytesInv
<1>13. CASE Terminated
  BY <1>4, <1>13 DEF Terminated
<1> QED
  BY <1>4, <1>5, <1>6, <1>7, <1>8, <1>9, <1>10, <1>11, <1>12, <1>13
  DEF Next, Runner, ConfigError, Local, Remote

\* The accounts are right in every run.
THEOREM Accounts == Spec => []BytesInv
<1>1. Init => BytesInv
  <2> SUFFICES ASSUME Init PROVE BytesInv
    OBVIOUS
  <2>1. /\ stage = "setup" /\ group = 1 /\ it = 0 /\ samples = <<>> /\ result = <<>>
        /\ progBytes = 0
    BY DEF Init
  <2>2. PassesDone = 0
    <3>1. Warmup + Iterations \in Nat
      BY RunAssumption
    <3> QED
      BY <2>1, <3>1 DEF PassesDone
  <2>3. 0 * Total = 0
    BY OnePassMore
  <2>4. Entries(samples) = {} /\ Entries(result) = {} /\ Len(samples) = 0 /\ Len(result) = 0
    BY <2>1 DEF Entries
  <2> QED
    BY <2>1, <2>2, <2>3, <2>4, RunAssumption DEF BytesInv, PassSoFar, SamplesSoFar
<1>2. IInv /\ BytesInv /\ [Next]_vars => BytesInv'
  BY NextPreservesBytesInv
<1> QED
  BY <1>1, <1>2, Invariance, PTL DEF Spec

\* A result has one entry per size group, each with one sample per kept iteration; no
\* sample has more than the bytes of its objects, and without a cancellation every
\* sample, and the live counter, has exactly these.
THEOREM ResultIsSound == Spec => []ResultSound
<1>1. IInv /\ BytesInv => ResultSound
  <2> SUFFICES ASSUME IInv, BytesInv, stage = "returned", ~failed
               PROVE  /\ Len(result) = Groups
                      /\ \A s \in Entries(result) :
                           /\ Len(s) = Iterations
                           /\ \A b \in Entries(s) : b <= N * Size
                           /\ cancelled \/ \A b \in Entries(s) : b = N * Size
                      /\ cancelled \/ progBytes = Groups * (Warmup + Iterations) * N * Size
    BY DEF ResultSound
  <2>1. group = Groups + 1 /\ Groups \in Nat /\ SamplesSoFar
    BY RunAssumption DEF IInv, LoopInStep, BytesInv
  <2>2. it = 0 /\ Len(result) = Groups /\ (~cancelled => progBytes = PassesDone * Total)
    BY <2>1 DEF SamplesSoFar
  <2>3. PassesDone * Total = Groups * (Warmup + Iterations) * N * Size
    <3> DEFINE P == Warmup + Iterations
    <3>1. P \in Nat /\ N \in Nat /\ Size \in Nat
      BY RunAssumption
    <3>2. PassesDone = (Groups + 1 - 1) * P + 0
      BY <2>1, <2>2 DEF PassesDone
    <3> HIDE DEF P
    <3>3. PassesDone = Groups * P /\ Groups * P \in Nat
      BY <2>1, <3>1, <3>2
    <3> DEFINE Q == Groups * P
    <3>4. Q * (N * Size) = Q * N * Size
      <4> HIDE DEF Q
      <4> SUFFICES ASSUME Q \in Nat PROVE Q * (N * Size) = Q * N * Size
        BY <3>3 DEF Q
      <4> QED
        BY <3>1
    <3> QED
      BY <3>3, <3>4 DEF P, Total
  <2>4. \A s \in Entries(result) : Len(s) = Iterations /\ \A b \in Entries(s) : SampleTrue(b)
    BY <2>1 DEF SamplesSoFar
  <2> QED
    BY <2>2, <2>3, <2>4 DEF SampleTrue, Total
<1> QED
  BY <1>1, Invariance, Accounts, PTL

=============================================================================
