------------------------------ MODULE ObjectPool ------------------------------
(***************************************************************************)
(* runObjectsParallel of internal/tmbench/tmbench.go: a dispatcher (the    *)
(* calling goroutine) hands the indices 0..n-1 over the unbuffered channel *)
(* idx to a pool of worker goroutines, each of which runs the callback     *)
(* fn(i), "stopping early on the first error".                             *)
(*                                                                         *)
(* An error is named by the index whose callback returned it.  All errors  *)
(* the four runners return are built by fmt.Errorf with one %w and so have *)
(* one concrete type, hence atomic.Value's Store never panics.             *)
(***************************************************************************)
EXTENDS Integers, FiniteSets

CONSTANTS
  N,          \* n: number of objects in the size group
  Requested,  \* workers: the configured objectConcurrency, before clamping
  NoError     \* the nil error

ASSUME PoolAssumption ==
  /\ N \in Nat
  /\ Requested \in Int
  /\ NoError \notin 0 .. (N - 1)

\* "if workers < 1 { workers = 1 }"
Configured == IF Requested < 1 THEN 1 ELSE Requested

\* "if workers > n { workers = n }"
PoolSize == IF Configured > N THEN N ELSE Configured

Workers == 1 .. PoolSize
Indices == 0 .. (N - 1)

VARIABLES
  disp,       \* program counter of the dispatching goroutine
  next,       \* its loop variable i
  pc,         \* pc[w]: program counter of worker w
  item,       \* item[w]: the index worker w received last
  firstErr,   \* the atomic.Value
  cancelled,  \* ctx.Err() != nil
  ret,        \* what the call returned
  status,     \* history: what has become of each index
  late        \* history: transfers each worker began after the stop signal

vars == <<disp, next, pc, item, firstErr, cancelled, ret, status, late>>

\* Worker locations: blocked on "range idx"; at the test of firstErr and ctx;
\* about to call fn; inside fn; fn failed, about to re-read firstErr; about to
\* store; returned (wg.Done).
Locations == {"recv", "check", "call", "fn", "failed", "store", "exited"}

\* Dispatcher locations: loop head; blocked on "idx <- i"; channel closed and
\* waiting in wg.Wait; returned.
DispLocations == {"loop", "send", "wait", "returned"}

Statuses == {"pending", "skipped", "running", "ok", "failed"}

\* Faulty variants, each named after the definition it stands in for, are kept
\* beside their originals: the runs refute a pool built from any one of them.
ClosedFaulty == disp = "returned"  \* faulty: idx is closed only after wg.Wait

Closed == disp \in {"wait", "returned"}
StopSignalled == firstErr # NoError \/ cancelled

TypeOK ==
  /\ disp \in DispLocations
  /\ next \in 0 .. N
  /\ pc \in [Workers -> Locations]
  /\ item \in [Workers -> Indices]
  /\ firstErr \in Indices \cup {NoError}
  /\ cancelled \in BOOLEAN
  /\ ret \in Indices \cup {NoError}
  /\ status \in [Indices -> Statuses]
  /\ late \in [Workers -> Nat]

-----------------------------------------------------------------------------

Init ==
  /\ disp = "loop"
  /\ next = 0
  /\ pc = [w \in Workers |-> "recv"]
  /\ item = [w \in Workers |-> 0]
  /\ firstErr = NoError
  /\ cancelled = FALSE
  /\ ret = NoError
  /\ status = [i \in Indices |-> "pending"]
  /\ late = [w \in Workers |-> 0]

\* Loop head of the dispatcher: i < n and no error stored yet.  It does not
\* look at the context.
DispatchNext ==
  /\ disp = "loop"
  /\ next < N
  /\ firstErr = NoError
  /\ disp' = "send"
  /\ UNCHANGED <<next, pc, item, firstErr, cancelled, ret, status, late>>

\* Loop exit, by exhaustion or by break, and close(idx).
DispatchStop ==
  /\ disp = "loop"
  /\ next >= N \/ firstErr # NoError
  /\ disp' = "wait"
  /\ UNCHANGED <<next, pc, item, firstErr, cancelled, ret, status, late>>

HandoffFaulty(w) ==  \* faulty: the index is not advanced
  /\ disp = "send"
  /\ pc[w] = "recv"
  /\ item' = [item EXCEPT ![w] = next]
  /\ pc' = [pc EXCEPT ![w] = "check"]
  /\ disp' = "loop"
  /\ UNCHANGED <<next, firstErr, cancelled, ret, status, late>>

\* The rendezvous on the unbuffered channel: "idx <- i" with "range idx".
Handoff(w) ==
  /\ disp = "send"
  /\ pc[w] = "recv"
  /\ item' = [item EXCEPT ![w] = next]
  /\ pc' = [pc EXCEPT ![w] = "check"]
  /\ next' = next + 1
  /\ disp' = "loop"
  /\ UNCHANGED <<firstErr, cancelled, ret, status, late>>

\* "firstErr.Load() != nil || ctx.Err() != nil" with the continue it guards.
\* The two reads are one step here: both flags only ever rise, so the outcome
\* of two reads is that of one atomic test at one of the two moments.
Skip(w) ==
  /\ pc[w] = "check"
  /\ StopSignalled
  /\ pc' = [pc EXCEPT ![w] = "recv"]
  /\ status' = [status EXCEPT ![item[w]] = "skipped"]
  /\ UNCHANGED <<disp, next, item, firstErr, cancelled, ret, late>>

AdmitFaulty(w) ==  \* faulty: the flags are not looked at
  /\ pc[w] = "check"
  /\ pc' = [pc EXCEPT ![w] = "call"]
  /\ UNCHANGED <<disp, next, item, firstErr, cancelled, ret, status, late>>

Admit(w) ==
  /\ pc[w] = "check"
  /\ ~StopSignalled
  /\ pc' = [pc EXCEPT ![w] = "call"]
  /\ UNCHANGED <<disp, next, item, firstErr, cancelled, ret, status, late>>

\* fn(i) begins; the flags may have risen since they were read.
StartFn(w) ==
  /\ pc[w] = "call"
  /\ pc' = [pc EXCEPT ![w] = "fn"]
  /\ status' = [status EXCEPT ![item[w]] = "running"]
  /\ late' = IF StopSignalled THEN [late EXCEPT ![w] = @ + 1] ELSE late
  /\ UNCHANGED <<disp, next, item, firstErr, cancelled, ret>>

FnOk(w) ==
  /\ pc[w] = "fn"
  /\ pc' = [pc EXCEPT ![w] = "recv"]
  /\ status' = [status EXCEPT ![item[w]] = "ok"]
  /\ UNCHANGED <<disp, next, item, firstErr, cancelled, ret, late>>

FnFail(w) ==
  /\ pc[w] = "fn"
  /\ pc' = [pc EXCEPT ![w] = "failed"]
  /\ status' = [status EXCEPT ![item[w]] = "failed"]
  /\ UNCHANGED <<disp, next, item, firstErr, cancelled, ret, late>>

LoadErrFaulty(w) ==  \* faulty: the test is inverted, so no error is stored
  /\ pc[w] = "failed"
  /\ pc' = [pc EXCEPT ![w] = IF firstErr # NoError THEN "store" ELSE "recv"]
  /\ UNCHANGED <<disp, next, item, firstErr, cancelled, ret, status, late>>

\* "err != nil && firstErr.Load() == nil"
LoadErr(w) ==
  /\ pc[w] = "failed"
  /\ pc' = [pc EXCEPT ![w] = IF firstErr = NoError THEN "store" ELSE "recv"]
  /\ UNCHANGED <<disp, next, item, firstErr, cancelled, ret, status, late>>

\* "firstErr.Store(err)": overwrites an error stored since the load.
StoreErr(w) ==
  /\ pc[w] = "store"
  /\ pc' = [pc EXCEPT ![w] = "recv"]
  /\ firstErr' = item[w]
  /\ UNCHANGED <<disp, next, item, cancelled, ret, status, late>>

\* "range idx" ends on the closed channel; the deferred wg.Done.
Exit(w) ==
  /\ pc[w] = "recv"
  /\ Closed
  /\ pc' = [pc EXCEPT ![w] = "exited"]
  /\ UNCHANGED <<disp, next, item, firstErr, cancelled, ret, status, late>>

ReturnFaulty ==  \* faulty: no wg.Wait
  /\ disp = "wait"
  /\ disp' = "returned"
  /\ ret' = firstErr
  /\ UNCHANGED <<next, pc, item, firstErr, cancelled, status, late>>

\* wg.Wait() returns; the last load of firstErr decides the result.
Return ==
  /\ disp = "wait"
  /\ \A w \in Workers : pc[w] = "exited"
  /\ disp' = "returned"
  /\ ret' = firstErr
  /\ UNCHANGED <<next, pc, item, firstErr, cancelled, status, late>>

\* SIGINT or SIGTERM cancels the context at any moment.
Cancel ==
  /\ ~cancelled
  /\ cancelled' = TRUE
  /\ UNCHANGED <<disp, next, pc, item, firstErr, ret, status, late>>

\* The call has returned: nothing is left to do.
Terminated ==
  /\ disp = "returned"
  /\ UNCHANGED vars

Dispatcher == DispatchNext \/ DispatchStop \/ (\E w \in Workers : Handoff(w)) \/ Return

Worker(w) ==
  \/ Skip(w) \/ Admit(w) \/ StartFn(w) \/ FnOk(w) \/ FnFail(w)
  \/ LoadErr(w) \/ StoreErr(w) \/ Exit(w)

Next == Dispatcher \/ (\E w \in Workers : Worker(w)) \/ Cancel \/ Terminated

Spec == Init /\ [][Next]_vars

\* The Go scheduler runs every runnable goroutine.  Nothing is assumed of the
\* transfers: the HTTP client has no overall timeout (internal/s3client), so a
\* callback may never end, and FnOk and FnFail get no fairness.
Fairness ==
  /\ WF_vars(Dispatcher)
  /\ \A w \in Workers :
       WF_vars(Skip(w) \/ Admit(w) \/ StartFn(w) \/ LoadErr(w) \/ StoreErr(w) \/ Exit(w))

FairSpec == Spec /\ Fairness

-----------------------------------------------------------------------------

Returned == disp = "returned"
Failed == {i \in Indices : status[i] = "failed"}

\* A worker is responsible for the index it holds from the receive until it
\* asks for the next one.
Holds(w) == pc[w] \notin {"recv", "exited"}

\* Indices from next on have not been touched.
Untouched == \A i \in Indices : i >= next => status[i] = "pending"

\* While the dispatcher is blocked in the send there is an index to send.
SendInRange == disp = "send" => next < N

\* What the location of a worker says about the index it holds.
HeldStatus ==
  \A w \in Workers :
    /\ Holds(w) => item[w] < next
    /\ pc[w] \in {"check", "call"} => status[item[w]] = "pending"
    /\ pc[w] = "fn" => status[item[w]] = "running"
    /\ pc[w] \in {"failed", "store"} => status[item[w]] = "failed"

\* No index is held by two workers.
HeldOnce ==
  \A v, w \in Workers : Holds(v) /\ Holds(w) /\ item[v] = item[w] => v = w

\* A handed-out index that is not settled has a worker that will settle it.
NoneDropped ==
  \A i \in Indices : i < next /\ status[i] \in {"pending", "running"} =>
    \E w \in Workers : Holds(w) /\ item[w] = i

\* A failure has been stored, or the worker that saw it is about to.
ErrorPending ==
  Failed # {} =>
    \/ firstErr # NoError
    \/ \E w \in Workers : pc[w] \in {"failed", "store"}

\* A stored error is one a callback returned.
StoredIsReal == firstErr # NoError => firstErr \in Failed

SkipHasCause == (\E i \in Indices : status[i] = "skipped") => StopSignalled

ClosedHasCause == Closed => next = N \/ firstErr # NoError

ExitedAfterClose == \A w \in Workers : pc[w] = "exited" => Closed

AtReturn == Returned => ret = firstErr /\ \A w \in Workers : pc[w] = "exited"

\* A worker that began a transfer after the stop signal has not passed the
\* test again.
LateSeen == \A w \in Workers : late[w] > 0 => StopSignalled /\ pc[w] # "call"

\* The inductive invariant behind the theorems of ObjectPoolProofs.
IInv ==
  /\ TypeOK
  /\ Untouched
  /\ SendInRange
  /\ HeldStatus
  /\ HeldOnce
  /\ NoneDropped
  /\ ErrorPending
  /\ StoredIsReal
  /\ SkipHasCause
  /\ ClosedHasCause
  /\ ExitedAfterClose
  /\ AtReturn
  /\ LateSeen

-----------------------------------------------------------------------------

(***************************************************************************)
(* The returned value accounts for every callback: an error is returned    *)
(* exactly when some callback failed, it is an error a callback returned,  *)
(* no callback is still running, and without a cancellation a nil return   *)
(* means that every callback ran and succeeded.  About the lossy pair of   *)
(* load and store on firstErr and the close/wg.Wait handshake.             *)
(***************************************************************************)
ReturnSound ==
  Returned =>
    /\ ret = NoError <=> Failed = {}
    /\ ret # NoError => ret \in Failed
    /\ \A i \in Indices : status[i] # "running"
    /\ ret = NoError /\ ~cancelled => \A i \in Indices : status[i] = "ok"

(***************************************************************************)
(* "Stopping early": after an error is stored or the context is cancelled, *)
(* a worker begins at most one more transfer - the one whose test of the   *)
(* flags it had already passed.                                            *)
(***************************************************************************)
LateStartBound == \A w \in Workers : late[w] <= 1

(***************************************************************************)
(* The pool implements the worker-free specification: every index is run   *)
(* at most once and at most as many at a time as were configured (one, if  *)
(* fewer were), is passed over only for a cause, and the call returns only *)
(* what ParallelRun allows.                                                *)
(***************************************************************************)
PR == INSTANCE ParallelRun WITH finished <- Returned, Limit <- Configured
ImplementsParallelRun == PR!Spec

(***************************************************************************)
(* The pool itself never hangs: if no callback runs for ever, the call     *)
(* returns, whatever fails or is cancelled - neither the unbuffered send   *)
(* nor wg.Wait can block for good.                                         *)
(***************************************************************************)
TransfersEnd == \A w \in Workers : []<>(pc[w] # "fn")
EventuallyReturns == TransfersEnd => <>Returned

(***************************************************************************)
(* The comment on runObjectsParallel: it "runs fn(0..n-1)", "stopping      *)
(* early on the first error".  So a nil return says that every fn ran.     *)
(***************************************************************************)
NilMeansAllRan ==
  Returned /\ ret = NoError => \A i \in Indices : status[i] = "ok"

=============================================================================
