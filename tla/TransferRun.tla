----------------------------- MODULE TransferRun -----------------------------
(***************************************************************************)
(* RunUpload, RunDownload, RunDownloadObject and RunDownloadFile of        *)
(* internal/tmbench/tmbench.go.  Each clears its delivery files if it has  *)
(* any, then runs, for every size group, Warmup + Iterations passes over   *)
(* the objects of the group, and records the bytes of each pass that is    *)
(* not a warmup.  A pass is one call of runObjectsParallel, of which only  *)
(* the contract is used here: the actions of ParallelRun, which ObjectPool *)
(* is proved to implement.                                                 *)
(*                                                                         *)
(* The four share their control; api tells them apart.  A byte count is in *)
(* units of which every object has Size.  The transfer manager is external:*)
(* a call moves units into or out of the sink one at a time, and ends with *)
(* an error at any moment or with success once every unit has moved.  It   *)
(* is assumed to move none twice: the sinks count what is written without  *)
(* a look at the offset, so a part fetched again would be counted again.   *)
(***************************************************************************)
EXTENDS Integers, FiniteSets, Sequences

CONSTANTS
  Groups,      \* number of size groups, len(cfg.Sizes)
  N,           \* number of objects in each of them
  Limit,       \* objects in parallel, after clamping
  Warmup,      \* passes whose sample is thrown away (Seeding has negative ones)
  Iterations,  \* passes whose sample is kept
  Size,        \* units in an object
  NoError

ASSUME RunAssumption ==
  /\ Groups \in Nat /\ N \in Nat \ {0} /\ Limit \in 1 .. N
  /\ Warmup \in Nat /\ Iterations \in Nat \ {0}
  /\ Size \in Nat
  /\ NoError \notin 0 .. (N - 1)

Apis == {"upload", "get", "download-object", "download-file"}
Indices == 0 .. (N - 1)
Keys == (1 .. Groups) \X Indices   \* the objects, and their delivery files

VARIABLES
  api, toFile, \* which runner, and whether it writes delivery files
  stage,       \* where the runner is
  toClean,     \* delivery files the start-of-run cleanup has yet to remove
  group, it,   \* the loop variables spec and it
  at,          \* at[i]: where the callback of object i is
  moved,       \* moved[i]: units it has moved in this pass
  open,        \* open[i]: it holds an open file or an unclosed body
  inFlight,    \* prog.InFlight
  progBytes,   \* prog.Bytes
  bytes,       \* the pass's own total
  samples,     \* samples recorded for this group
  result,      \* result.Groups
  failed,      \* the runner returned an error, hence no result
  file,        \* file[k]: the delivery file of object k
  status, cancelled, finished, ret   \* the pass: variables of ParallelRun

pool == <<status, cancelled, finished, ret>>
callback == <<at, moved, open, inFlight, progBytes, bytes, file>>
loop == <<stage, toClean, group, it, samples, result, failed>>
vars == <<api, toFile, pool, callback, loop>>

Pool == INSTANCE ParallelRun

Places == {"idle", "create", "get", "transfer", "close", "count", "leave", "error"}
FileStates == {"absent", "stale", "partial", "full"}

TypeOK ==
  /\ api \in Apis /\ toFile \in BOOLEAN
  /\ stage \in {"setup", "clean", "group", "pass", "returned"}
  /\ toClean \subseteq Keys
  /\ group \in 1 .. (Groups + 1) /\ it \in 0 .. (Warmup + Iterations)
  /\ at \in [Indices -> Places]
  /\ moved \in [Indices -> 0 .. Size]
  /\ open \in [Indices -> BOOLEAN]
  /\ inFlight \in 0 .. N /\ progBytes \in Nat /\ bytes \in Nat
  /\ samples \in Seq(Nat) /\ result \in Seq(Seq(Nat))
  /\ failed \in BOOLEAN
  /\ file \in [Keys -> FileStates]
  /\ Pool!TypeOK

\* download-file always writes files, download-object when sink is "file".
Init ==
  /\ api \in Apis
  /\ toFile \in CASE api = "download-file" -> {TRUE}
                  [] api = "download-object" -> BOOLEAN
                  [] OTHER -> {FALSE}
  /\ stage = "setup"
  /\ toClean = IF toFile THEN Keys ELSE {}
  /\ group = 1 /\ it = 0
  /\ at = [i \in Indices |-> "idle"]
  /\ moved = [i \in Indices |-> 0]
  /\ open = [i \in Indices |-> FALSE]
  /\ inFlight = 0 /\ progBytes = 0 /\ bytes = 0
  /\ samples = <<>> /\ result = <<>>
  /\ failed = FALSE
  /\ \E before \in {"absent", "stale"} : file = [k \in Keys |-> before]
  /\ Pool!Init

-----------------------------------------------------------------------------

\* Errors before the first transfer: a size that does not parse, a delivery
\* directory that cannot be made.  RunDownload has none of them.
SetupFails ==
  /\ stage = "setup"
  /\ api = "upload" \/ toFile
  /\ stage' = "returned"
  /\ failed' = TRUE
  /\ UNCHANGED <<api, toFile, pool, callback, toClean, group, it, samples, result>>

SetupDone ==
  /\ stage = "setup"
  /\ stage' = "clean"
  /\ UNCHANGED <<api, toFile, pool, callback, toClean, group, it, samples, result, failed>>

\* "_ = os.Remove(...)": the file may still be there afterwards.
Clean(k) ==
  /\ stage = "clean"
  /\ k \in toClean
  /\ toClean' = toClean \ {k}
  /\ \E after \in {"absent", file[k]} : file' = [file EXCEPT ![k] = after]
  /\ UNCHANGED <<api, toFile, pool, at, moved, open, inFlight, progBytes, bytes,
                 stage, group, it, samples, result, failed>>

\* RunDownloadFile parses directIOThreshold and writeChunkSize after cleaning.
OptionsFail ==
  /\ stage = "clean" /\ toClean = {}
  /\ api = "download-file"
  /\ stage' = "returned"
  /\ failed' = TRUE
  /\ UNCHANGED <<api, toFile, pool, callback, toClean, group, it, samples, result>>

CleanDone ==
  /\ stage = "clean" /\ toClean = {}
  /\ stage' = "group"
  /\ UNCHANGED <<api, toFile, pool, callback, toClean, group, it, samples, result, failed>>

\* RunUpload returns on a group size that does not parse; the downloads ignore
\* the error, as they only report that size.
GroupFails ==
  /\ stage = "group" /\ it = 0 /\ group <= Groups
  /\ api = "upload"
  /\ stage' = "returned"
  /\ failed' = TRUE
  /\ UNCHANGED <<api, toFile, pool, callback, toClean, group, it, samples, result>>

\* "for it := 0; it < iters; it++": bytes starts at 0, the pool is called anew.
BeginPass ==
  /\ stage = "group" /\ group <= Groups /\ it < Warmup + Iterations
  /\ stage' = "pass"
  /\ bytes' = 0
  /\ moved' = [i \in Indices |-> 0]
  /\ status' = [i \in Indices |-> "pending"]
  /\ finished' = FALSE
  /\ ret' = NoError
  /\ UNCHANGED <<api, toFile, cancelled, at, open, inFlight, progBytes, file,
                 toClean, group, it, samples, result, failed>>

EndPassFaulty ==  \* faulty: warmups are recorded too
  /\ stage = "pass" /\ finished /\ ret = NoError
  /\ stage' = "group"
  /\ samples' = Append(samples, bytes)
  /\ it' = it + 1
  /\ UNCHANGED <<api, toFile, pool, callback, toClean, group, result, failed>>

EndPassLenient ==  \* faulty: the error of the pass is dropped
  /\ stage = "pass" /\ finished
  /\ stage' = "group"
  /\ samples' = IF it >= Warmup THEN Append(samples, bytes) ELSE samples
  /\ it' = it + 1
  /\ UNCHANGED <<api, toFile, pool, callback, toClean, group, result, failed>>

\* The pass is over: its bytes become a sample unless it was a warmup; an error
\* ends the run.
EndPass ==
  /\ stage = "pass" /\ finished /\ ret = NoError
  /\ stage' = "group"
  /\ samples' = IF it >= Warmup THEN Append(samples, bytes) ELSE samples
  /\ it' = it + 1
  /\ UNCHANGED <<api, toFile, pool, callback, toClean, group, result, failed>>

PassFailsFaulty ==  \* faulty: the pass is tried again, without a limit
  /\ stage = "pass" /\ finished /\ ret # NoError
  /\ stage' = "group"
  /\ UNCHANGED <<api, toFile, pool, callback, toClean, group, it, samples, result, failed>>

PassFails ==
  /\ stage = "pass" /\ finished /\ ret # NoError
  /\ stage' = "returned"
  /\ failed' = TRUE
  /\ UNCHANGED <<api, toFile, pool, callback, toClean, group, it, samples, result>>

\* "result.Groups = append(result.Groups, group(...))", on to the next size.
EndGroup ==
  /\ stage = "group" /\ group <= Groups /\ it = Warmup + Iterations
  /\ result' = Append(result, samples)
  /\ samples' = <<>>
  /\ group' = group + 1
  /\ it' = 0
  /\ UNCHANGED <<api, toFile, pool, callback, stage, toClean, failed>>

ReturnResult ==
  /\ stage = "group" /\ group > Groups
  /\ stage' = "returned"
  /\ UNCHANGED <<api, toFile, pool, callback, toClean, group, it, samples, result, failed>>

-----------------------------------------------------------------------------

\* The pool calls fn(i), which raises prog.InFlight.
Begin(i) ==
  /\ stage = "pass"
  /\ Pool!Start(i)
  /\ inFlight' = inFlight + 1
  /\ at' = [at EXCEPT ![i] = CASE api = "get" -> "get"
                               [] api = "download-object" /\ toFile -> "create"
                               [] OTHER -> "transfer"]
  /\ UNCHANGED <<api, toFile, moved, open, progBytes, bytes, file, loop>>

\* os.Create truncates what is there; on its failure nothing is open.
Create(i) ==
  /\ at[i] = "create"
  /\ at' = [at EXCEPT ![i] = "transfer"]
  /\ open' = [open EXCEPT ![i] = TRUE]
  /\ file' = [file EXCEPT ![<<group, i>>] = "partial"]
  /\ UNCHANGED <<api, toFile, pool, moved, inFlight, progBytes, bytes, loop>>

CreateFails(i) ==
  /\ at[i] = "create"
  /\ at' = [at EXCEPT ![i] = "error"]
  /\ UNCHANGED <<api, toFile, pool, moved, open, inFlight, progBytes, bytes, file, loop>>

\* GetObject returns a body to drain, or an error.
GetBody(i) ==
  /\ at[i] = "get"
  /\ at' = [at EXCEPT ![i] = "transfer"]
  /\ open' = [open EXCEPT ![i] = TRUE]
  /\ UNCHANGED <<api, toFile, pool, moved, inFlight, progBytes, bytes, file, loop>>

GetFails(i) ==
  /\ at[i] = "get"
  /\ at' = [at EXCEPT ![i] = "error"]
  /\ UNCHANGED <<api, toFile, pool, moved, open, inFlight, progBytes, bytes, file, loop>>

\* A unit passes the counting reader or writer, or the progress listener, once.
MoveUnit(i) ==
  /\ at[i] = "transfer"
  /\ moved[i] < Size
  /\ moved' = [moved EXCEPT ![i] = @ + 1]
  /\ progBytes' = progBytes + 1
  /\ file' = IF toFile THEN [file EXCEPT ![<<group, i>>] = "partial"] ELSE file
  /\ UNCHANGED <<api, toFile, pool, at, open, inFlight, bytes, loop>>

\* The transfer, or the drain of the body, ends.  RunUpload lowers prog.InFlight
\* here; what is open is closed before the outcome is looked at.
Lowered == IF api = "upload" THEN inFlight - 1 ELSE inFlight

TransferOk(i) ==
  /\ at[i] = "transfer"
  /\ moved[i] = Size
  /\ at' = [at EXCEPT ![i] = IF open[i] THEN "close" ELSE "count"]
  /\ inFlight' = Lowered
  /\ file' = IF toFile THEN [file EXCEPT ![<<group, i>>] = "full"] ELSE file
  /\ UNCHANGED <<api, toFile, pool, moved, open, progBytes, bytes, loop>>

TransferFailsFaulty(i) ==  \* faulty: returns at once, leaving the file open
  /\ at[i] = "transfer"
  /\ at' = [at EXCEPT ![i] = "error"]
  /\ inFlight' = Lowered
  /\ UNCHANGED <<api, toFile, pool, moved, open, progBytes, bytes, file, loop>>

TransferFails(i) ==
  /\ at[i] = "transfer"
  /\ at' = [at EXCEPT ![i] = "error"]
  /\ open' = [open EXCEPT ![i] = FALSE]
  /\ inFlight' = Lowered
  /\ UNCHANGED <<api, toFile, pool, moved, progBytes, bytes, file, loop>>

\* Closing the file may fail, which fails the callback; the error of closing a
\* body is ignored.
Close(i) ==
  /\ at[i] = "close"
  /\ open' = [open EXCEPT ![i] = FALSE]
  /\ \E next \in IF toFile THEN {"count", "error"} ELSE {"count"} :
       at' = [at EXCEPT ![i] = next]
  /\ UNCHANGED <<api, toFile, pool, moved, inFlight, progBytes, bytes, file, loop>>

\* "atomic.AddInt64(&bytes, ...)" with what the sink counted.
AddBytes(i) ==
  /\ at[i] = "count"
  /\ bytes' = bytes + moved[i]
  /\ at' = [at EXCEPT ![i] = "leave"]
  /\ UNCHANGED <<api, toFile, pool, moved, open, inFlight, progBytes, file, loop>>

LeaveFaulty(i) ==  \* faulty: the decrement is skipped on an error
  /\ at[i] \in {"leave", "error"}
  /\ Pool!Finish(i)
  /\ status'[i] = IF at[i] = "leave" THEN "ok" ELSE "failed"
  /\ inFlight' = IF api = "upload" \/ at[i] = "error" THEN inFlight ELSE inFlight - 1
  /\ at' = [at EXCEPT ![i] = "idle"]
  /\ UNCHANGED <<api, toFile, moved, open, progBytes, bytes, file, loop>>

\* fn(i) returns; the deferred decrement of the downloads runs on every path.
Leave(i) ==
  /\ at[i] \in {"leave", "error"}
  /\ Pool!Finish(i)
  /\ status'[i] = IF at[i] = "leave" THEN "ok" ELSE "failed"
  /\ inFlight' = IF api = "upload" THEN inFlight ELSE inFlight - 1
  /\ at' = [at EXCEPT ![i] = "idle"]
  /\ UNCHANGED <<api, toFile, moved, open, progBytes, bytes, file, loop>>

\* Steps of runObjectsParallel itself, and the signal.
PoolStep ==
  /\ stage = "pass"
  /\ (\E i \in Indices : Pool!PassOver(i)) \/ Pool!Return
  /\ UNCHANGED <<api, toFile, callback, loop>>

Cancel ==
  /\ ~cancelled
  /\ Pool!Cancel
  /\ UNCHANGED <<api, toFile, callback, loop>>

Terminated == stage = "returned" /\ UNCHANGED vars

-----------------------------------------------------------------------------

Runner ==
  \/ SetupDone \/ (\E k \in Keys : Clean(k)) \/ CleanDone
  \/ BeginPass \/ EndPass \/ PassFails \/ EndGroup \/ ReturnResult

ConfigError == SetupFails \/ OptionsFail \/ GroupFails

\* What the code of a callback does between two calls of the transfer manager,
\* and what it may wait for.
Local(i) == Begin(i) \/ Create(i) \/ CreateFails(i) \/ Close(i) \/ AddBytes(i) \/ Leave(i)
Remote(i) == GetBody(i) \/ GetFails(i) \/ MoveUnit(i) \/ TransferOk(i) \/ TransferFails(i)

Next ==
  \/ Runner \/ ConfigError \/ PoolStep \/ Cancel \/ Terminated
  \/ \E i \in Indices : Local(i) \/ Remote(i)

Spec == Init /\ [][Next]_vars

\* The scheduler runs the runner, the pool and the code of the callbacks.  The
\* remote calls get no fairness: none of them has a timeout.
Fairness ==
  /\ WF_vars(Runner)
  /\ WF_vars(PoolStep \/ \E i \in Indices : Begin(i))
  /\ \A i \in Indices :
       WF_vars(Create(i) \/ CreateFails(i) \/ Close(i) \/ AddBytes(i) \/ Leave(i))

FairSpec == Spec /\ Fairness

-----------------------------------------------------------------------------

Running == {i \in Indices : status[i] = "running"}
Remotely == {i \in Indices : at[i] \in {"get", "transfer"}}
Entries(seq) == {seq[k] : k \in DOMAIN seq}

(***************************************************************************)
(* prog.InFlight, which the watchdog needs to tell a stall from idleness:  *)
(* it counts every call that may still move bytes, never exceeds the pool, *)
(* and is back at zero when no callback runs, after every mix of errors.   *)
(***************************************************************************)
InFlightSound ==
  /\ Cardinality(Remotely) <= inFlight /\ inFlight <= Limit
  /\ Running = {} => inFlight = 0

(***************************************************************************)
(* A file or body is open only inside a callback: no error path leaves one *)
(* open.                                                                   *)
(***************************************************************************)
NothingLeaked == \A i \in Indices : open[i] => status[i] = "running"

(***************************************************************************)
(* A result has one entry per size group, each with one sample per kept    *)
(* iteration.  Without a cancellation every sample accounts for every byte *)
(* of every object, and the live counter agrees with the passes made.      *)
(***************************************************************************)
ResultSound ==
  stage = "returned" /\ ~failed =>
    /\ Len(result) = Groups
    /\ \A s \in Entries(result) :
         /\ Len(s) = Iterations
         /\ \A b \in Entries(s) : b <= N * Size
         /\ cancelled \/ \A b \in Entries(s) : b = N * Size
    /\ cancelled \/ progBytes = Groups * (Warmup + Iterations) * N * Size

(***************************************************************************)
(* "Downloaded files ... persist for optional out-of-band CRC32            *)
(* verification": a run that returns a result without being cancelled has  *)
(* delivered every file whole, whatever an earlier run left behind.        *)
(***************************************************************************)
FilesDelivered ==
  stage = "returned" /\ ~failed /\ ~cancelled /\ toFile =>
    \A k \in Keys : file[k] = "full"

(***************************************************************************)
(* The strengthening from which TLAPS proves TypeOK, InFlightSound,        *)
(* NothingLeaked and FilesDelivered for runs of any size.                  *)
(***************************************************************************)
Raised == {i \in Indices : at[i] # "idle" /\ (api = "upload" => at[i] = "transfer")}

\* A callback is somewhere in its code exactly while the pool runs it, and holds
\* something open only in two places.
CallbacksInStep ==
  \A i \in Indices :
    /\ at[i] # "idle" <=> status[i] = "running"
    /\ at[i] \in {"create", "get"} => api # "upload"
    /\ open[i] => at[i] \in {"transfer", "close"}

\* prog.InFlight is the number of callbacks that have raised it, and no more of
\* them run than the pool allows; none outside a pass.
Counted ==
  /\ inFlight = Cardinality(Raised)
  /\ Cardinality(Running) <= Limit
  /\ stage # "pass" \/ finished => Running = {}

\* A pass that returned nil without a cancellation ran every callback.
PassHonest ==
  /\ (\E i \in Indices : status[i] = "skipped") =>
       cancelled \/ \E i \in Indices : status[i] = "failed"
  /\ finished /\ ret = NoError /\ ~cancelled => \A i \in Indices : status[i] = "ok"

\* The loops of the runner.
LoopInStep ==
  /\ stage \in {"setup", "clean"} => group = 1 /\ it = 0
  /\ stage = "pass" => group <= Groups /\ it < Warmup + Iterations
  /\ stage = "returned" /\ ~failed => group = Groups + 1

\* Files are whole from the end of their transfer to the next pass; those of the
\* groups before, and of this one between its passes, unless a signal came.
FilesSoFar ==
  /\ toFile /\ stage = "pass" =>
       \A i \in Indices :
         status[i] = "ok" \/ at[i] \in {"close", "count", "leave"} => file[<<group, i>>] = "full"
  /\ toFile /\ ~cancelled =>
       \A k \in Keys :
         k[1] < group \/ (k[1] = group /\ stage = "group" /\ it > 0) => file[k] = "full"

IInv == TypeOK /\ CallbacksInStep /\ Counted /\ PassHonest /\ LoopInStep /\ FilesSoFar

(***************************************************************************)
(* What ResultSound needs besides.                                         *)
(***************************************************************************)
Added == {i \in Indices : status[i] = "ok" \/ at[i] = "leave"}
Units == {u \in Indices \X (1 .. Size) : u[2] <= moved[u[1]]}
Total == N * Size
PassesDone == (group - 1) * (Warmup + Iterations) + it

\* The total of a pass is that of the objects which have added theirs, each whole; the
\* live counter has every unit moved besides what the passes before have.
PassSoFar ==
  stage = "pass" =>
    /\ \A i \in Indices :
         status[i] = "ok" \/ at[i] \in {"close", "count", "leave"} => moved[i] = Size
    /\ bytes = Size * Cardinality(Added)
    /\ ~cancelled => progBytes = PassesDone * Total + Cardinality(Units)

\* The samples of the groups so far, and the live counter between passes.
SampleTrue(b) == b <= Total /\ (cancelled \/ b = Total)

SamplesSoFar ==
  /\ group > Groups => it = 0
  /\ stage # "pass" /\ ~(stage = "returned" /\ failed) /\ ~cancelled =>
       progBytes = PassesDone * Total
  /\ Len(samples) = IF it > Warmup THEN it - Warmup ELSE 0
  /\ \A b \in Entries(samples) : SampleTrue(b)
  /\ Len(result) = group - 1
  /\ \A s \in Entries(result) :
       Len(s) = Iterations /\ \A b \in Entries(s) : SampleTrue(b)

BytesInv == PassSoFar /\ SamplesSoFar

(***************************************************************************)
(* If every remote call ends, the runner returns, on every path.           *)
(***************************************************************************)
CallsEnd == \A i \in Indices : []<>(i \notin Remotely)
RunReturns == CallsEnd => <>(stage = "returned")

=============================================================================
