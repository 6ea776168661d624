----------------------------- MODULE ParallelRun -----------------------------
(***************************************************************************)
(* What a caller of runObjectsParallel (internal/tmbench/tmbench.go) may   *)
(* rely on, with no worker, channel or program counter in sight.           *)
(*                                                                         *)
(* The call is given N objects.  Each object's callback fn(i) is run at    *)
(* most once, and at most Limit callbacks run at a time.  An object is     *)
(* passed over only because some callback has failed or because the        *)
(* context was cancelled.  The call returns when no callback is running;   *)
(* it returns an error exactly when some callback failed, and that error   *)
(* is one a callback really returned.                                      *)
(***************************************************************************)
EXTENDS Integers, FiniteSets

CONSTANTS
  N,        \* number of objects handed to the call, a natural number
  Limit,    \* number of callbacks that may run at once
  NoError   \* Go's nil error; an error is named by the object it came from

VARIABLES
  status,     \* status[i]: what has become of object i
  cancelled,  \* ctx.Err() != nil
  finished,   \* the call has returned
  ret         \* what it returned

vars == <<status, cancelled, finished, ret>>

Indices == 0 .. (N - 1)
Statuses == {"pending", "skipped", "running", "ok", "failed"}

Failed == {i \in Indices : status[i] = "failed"}
Running == {i \in Indices : status[i] = "running"}

TypeOK ==
  /\ status \in [Indices -> Statuses]
  /\ cancelled \in BOOLEAN
  /\ finished \in BOOLEAN
  /\ ret \in Indices \cup {NoError}

Init ==
  /\ status = [i \in Indices |-> "pending"]
  /\ cancelled = FALSE
  /\ finished = FALSE
  /\ ret = NoError

Start(i) ==
  /\ status[i] = "pending"
  /\ Cardinality(Running \cup {i}) <= Limit
  /\ ~finished
  /\ status' = [status EXCEPT ![i] = "running"]
  /\ UNCHANGED <<cancelled, finished, ret>>

Finish(i) ==
  /\ status[i] = "running"
  /\ \E outcome \in {"ok", "failed"} :
       status' = [status EXCEPT ![i] = outcome]
  /\ UNCHANGED <<cancelled, finished, ret>>

PassOver(i) ==
  /\ status[i] = "pending"
  /\ cancelled \/ Failed # {}
  /\ ~finished
  /\ status' = [status EXCEPT ![i] = "skipped"]
  /\ UNCHANGED <<cancelled, finished, ret>>

Return ==
  /\ ~finished
  /\ \A i \in Indices : status[i] # "running"
  /\ Failed = {} => \A i \in Indices : status[i] # "pending"
  /\ ret' \in IF Failed = {} THEN {NoError} ELSE Failed
  /\ finished' = TRUE
  /\ UNCHANGED <<status, cancelled>>

Cancel ==
  /\ cancelled' = TRUE
  /\ UNCHANGED <<status, finished, ret>>

Next ==
  \/ \E i \in Indices : Start(i) \/ Finish(i) \/ PassOver(i)
  \/ Return
  \/ Cancel

Spec == Init /\ [][Next]_vars

=============================================================================
