----------------------------- MODULE BenchmarkRun -----------------------------
(***************************************************************************)
(* One invocation of the program: run, runPhase and captureStdout of       *)
(* cmd/tmbench/main.go with the sampler, the watchdog and the progress     *)
(* printer they start and stop (internal/metrics), and the report          *)
(* (internal/report/report.go).                                            *)
(*                                                                         *)
(* The runner is a callback that prints its header lines, moves bytes and  *)
(* returns a result or an error (TransferRun).  Text is counted in prints, *)
(* as the pipe of captureStdout keeps their order and has one writer; its  *)
(* 64 KiB are far more than a header, so a print never blocks.             *)
(***************************************************************************)
EXTENDS Integers, Sequences, SequencesExt

CONSTANTS
  Headers,     \* prints of the runner
  MaxBytes,    \* bound on the bytes moved
  MaxSamples,  \* bound on the ticks of the sampler
  MaxStalls    \* bound on the stalls the watchdog sees

ASSUME BenchmarkAssumption ==
  /\ Headers \in Nat /\ MaxBytes \in Nat
  /\ MaxSamples \in Nat /\ MaxStalls \in Nat

Helpers == {"sampler", "watchdog", "printer"}

\* What the configuration and the flags choose.
Options == [sampling : BOOLEAN, progress : BOOLEAN, plot : BOOLEAN, upload : BOOLEAN]

VARIABLES
  opts,
  main,       \* program counter of the main goroutine
  cancelled,  \* ctx.Err() != nil
  outcome,    \* what the runner returned
  partial,    \* history: ctx was cancelled by the time it returned
  bytes,      \* prog.Bytes
  helper,     \* helper[g]: "off", "running" or "done" (its done channel is closed)
  stop,       \* the helpers whose stop channel is closed
  toStop,     \* the helpers runPhase has yet to stop, in order
  seen,       \* the byte count the sampler has read and not yet recorded, or None
  samples,    \* sampler.samples, the BytesCum of each
  series,     \* what sampler.Stop returned
  stalls,     \* the watchdog's count
  stallsGot,  \* what wd.Stop returned
  captured,   \* os.Pipe succeeded
  redirected, \* os.Stdout is the write end of the pipe
  copier,     \* the goroutine in io.Copy: "off", "running" or "done"
  printed,    \* prints of the runner
  inPipe,     \* those in the pipe
  buf,        \* those copied to buf
  lost,       \* a write to the real stdout has failed
  console,    \* what captureStdout returned
  written,    \* art.Files
  remote,     \* the files put to S3
  uploaded,   \* art.Uploaded
  failed      \* run returned an error

phase == <<outcome, partial, bytes>>
threads == <<helper, stop, toStop, seen, samples, series, stalls, stallsGot>>
text == <<captured, redirected, copier, printed, inPipe, buf, lost, console>>
report == <<written, remote, uploaded, failed>>
vars == <<opts, main, cancelled, phase, threads, text, report>>

None == -1

FileNames == {"config", "env", "sweep", "summary", "timeseries"}

Files == <<"config", "env", "sweep", "summary">> \o
         (IF opts.plot THEN <<"timeseries">> ELSE <<>>)

\* What runPhase starts; it stops them in this order.
StopOrder ==
  (IF opts.progress THEN <<"printer">> ELSE <<>>) \o <<"watchdog">>
    \o (IF opts.sampling THEN <<"sampler">> ELSE <<>>)

TypeOK ==
  /\ opts \in Options
  /\ main \in {"begin", "runner", "close", "join", "stop", "wait", "mkdir",
               "write", "mirror", "exit"}
  /\ cancelled \in BOOLEAN /\ partial \in BOOLEAN
  /\ outcome \in {"none", "result", "error"}
  /\ bytes \in 0 .. MaxBytes
  /\ helper \in [Helpers -> {"off", "running", "done"}]
  /\ stop \subseteq Helpers /\ toStop \in Seq(Helpers)
  /\ seen \in 0 .. MaxBytes \cup {None}
  /\ samples \in Seq(0 .. MaxBytes) /\ series \in Seq(0 .. MaxBytes)
  /\ stalls \in 0 .. MaxStalls /\ stallsGot \in 0 .. MaxStalls
  /\ captured \in BOOLEAN /\ redirected \in BOOLEAN /\ lost \in BOOLEAN
  /\ copier \in {"off", "running", "done"}
  /\ printed \in 0 .. Headers /\ inPipe \in 0 .. Headers
  /\ buf \in 0 .. Headers /\ console \in 0 .. Headers
  /\ written \in Seq(FileNames) /\ remote \in Seq(FileNames)
  /\ uploaded \in BOOLEAN /\ failed \in BOOLEAN

Init ==
  /\ opts \in Options
  /\ main = "begin" /\ cancelled = FALSE
  /\ outcome = "none" /\ partial = FALSE /\ bytes = 0
  /\ helper = [g \in Helpers |-> "off"] /\ stop = {} /\ toStop = <<>>
  /\ seen = None /\ samples = <<>> /\ series = <<>> /\ stalls = 0 /\ stallsGot = 0
  /\ captured = FALSE /\ redirected = FALSE /\ copier = "off"
  /\ printed = 0 /\ inPipe = 0 /\ buf = 0 /\ lost = FALSE /\ console = 0
  /\ written = <<>> /\ remote = <<>>
  /\ uploaded = FALSE /\ failed = FALSE

-----------------------------------------------------------------------------

\* A configuration that is not accepted, or no S3 client.
Reject ==
  /\ main = "begin"
  /\ main' = "exit"
  /\ failed' = TRUE
  /\ UNCHANGED <<opts, cancelled, phase, threads, text, written, remote, uploaded>>

\* runPhase starts its helpers and captureStdout its copying goroutine; without
\* a pipe the runner prints to the real stdout.
BeginPhase ==
  /\ main = "begin"
  /\ main' = "runner"
  /\ helper' = [g \in Helpers |-> IF Contains(StopOrder, g) THEN "running" ELSE "off"]
  /\ toStop' = StopOrder
  /\ \E pipe \in BOOLEAN :
       /\ captured' = pipe
       /\ redirected' = pipe
       /\ copier' = IF pipe THEN "running" ELSE "off"
  /\ UNCHANGED <<opts, cancelled, phase, stop, seen, samples, series, stalls,
                 stallsGot, printed, inPipe, buf, lost, console, report>>

PrintHeader ==
  /\ main = "runner" /\ printed < Headers
  /\ printed' = printed + 1
  /\ inPipe' = IF redirected THEN inPipe + 1 ELSE inPipe
  /\ UNCHANGED <<opts, main, cancelled, phase, threads, captured, redirected, copier,
                 buf, lost, console, report>>

MoveBytes ==
  /\ main = "runner" /\ printed = Headers
  /\ bytes < MaxBytes
  /\ bytes' = bytes + 1
  /\ UNCHANGED <<opts, main, cancelled, outcome, partial, threads, text, report>>

RunnerReturnsFaulty ==  \* faulty: an error is returned before anything is stopped
  /\ main = "runner"
  /\ outcome' \in {"error"} \cup (IF printed = Headers THEN {"result"} ELSE {})
  /\ partial' = cancelled
  /\ main' = IF outcome' = "error" THEN "exit" ELSE IF captured THEN "close" ELSE "stop"
  /\ UNCHANGED <<opts, cancelled, bytes, threads, text, report>>

\* An error may come before the header; a result cannot.
RunnerReturns ==
  /\ main = "runner"
  /\ outcome' \in {"error"} \cup (IF printed = Headers THEN {"result"} ELSE {})
  /\ partial' = cancelled
  /\ main' = IF captured THEN "close" ELSE "stop"
  /\ UNCHANGED <<opts, cancelled, bytes, threads, text, report>>

ClosePipeFaulty ==  \* faulty: the pipe is closed only once the copy has ended
  /\ main = "close" /\ copier = "done"
  /\ redirected' = FALSE
  /\ main' = "join"
  /\ UNCHANGED <<opts, cancelled, phase, threads, captured, copier, printed, inPipe,
                 buf, lost, console, report>>

\* "w.Close()", "os.Stdout = orig".
ClosePipe ==
  /\ main = "close"
  /\ redirected' = FALSE
  /\ main' = "join"
  /\ UNCHANGED <<opts, cancelled, phase, threads, captured, copier, printed, inPipe,
                 buf, lost, console, report>>

\* "<-done", then buf is read.
JoinCopy ==
  /\ main = "join" /\ copier = "done"
  /\ console' = buf
  /\ main' = "stop"
  /\ UNCHANGED <<opts, cancelled, phase, threads, captured, redirected, copier,
                 printed, inPipe, buf, lost, report>>

\* io.Copy to the real stdout and buf, in that order; it gives up when a write
\* fails, and ends when the write end is closed and the pipe empty.
CopyPrint ==
  /\ copier = "running" /\ inPipe > 0
  /\ inPipe' = inPipe - 1
  /\ \/ buf' = buf + 1 /\ UNCHANGED <<lost, copier>>
     \/ lost' = TRUE /\ copier' = "done" /\ UNCHANGED buf
  /\ UNCHANGED <<opts, main, cancelled, phase, threads, captured, redirected, printed,
                 console, report>>

CopyEnds ==
  /\ copier = "running" /\ inPipe = 0
  /\ main = "join"
  /\ copier' = "done"
  /\ UNCHANGED <<opts, main, cancelled, phase, threads, captured, redirected, printed,
                 inPipe, buf, lost, console, report>>

-----------------------------------------------------------------------------

\* A tick of the sampler: it reads the counter, and then records it.
SampleRead ==
  /\ helper["sampler"] = "running" /\ seen = None
  /\ Len(samples) < MaxSamples
  /\ seen' = bytes
  /\ UNCHANGED <<opts, main, cancelled, phase, helper, stop, toStop, samples, series,
                 stalls, stallsGot, text, report>>

SampleRecord ==
  /\ seen # None
  /\ samples' = Append(samples, seen)
  /\ seen' = None
  /\ UNCHANGED <<opts, main, cancelled, phase, helper, stop, toStop, series, stalls,
                 stallsGot, text, report>>

\* The watchdog counts a stall; requests are in flight in the runner only, and
\* the count may come after the runner's return.
Stall ==
  /\ helper["watchdog"] = "running"
  /\ stalls < MaxStalls
  /\ stalls' = stalls + 1
  /\ UNCHANGED <<opts, main, cancelled, phase, helper, stop, toStop, seen, samples,
                 series, stallsGot, text, report>>

\* The select of a helper takes the stop channel; the watchdog's also ctx.Done.
Leave(g) ==
  /\ helper[g] = "running"
  /\ g \in stop \/ (g = "watchdog" /\ cancelled)
  /\ g = "sampler" => seen = None
  /\ helper' = [helper EXCEPT ![g] = "done"]
  /\ UNCHANGED <<opts, main, cancelled, phase, stop, toStop, seen, samples, series,
                 stalls, stallsGot, text, report>>

\* Stop of the next helper: "close(stop)" ...
SignalStop ==
  /\ main = "stop" /\ toStop # <<>>
  /\ stop' = stop \cup {Head(toStop)}
  /\ main' = "wait"
  /\ UNCHANGED <<opts, cancelled, phase, helper, toStop, seen, samples, series, stalls,
                 stallsGot, text, report>>

StoppedFaulty ==  \* faulty: Stop does not wait for done
  /\ main = "wait"
  /\ toStop' = Tail(toStop)
  /\ main' = "stop"
  /\ series' = IF Head(toStop) = "sampler" THEN samples ELSE series
  /\ stallsGot' = IF Head(toStop) = "watchdog" THEN stalls ELSE stallsGot
  /\ UNCHANGED <<opts, cancelled, phase, helper, stop, seen, samples, stalls, text, report>>

\* ... and "<-done", then what the helper has collected is read.
Stopped ==
  /\ main = "wait" /\ helper[Head(toStop)] = "done"
  /\ toStop' = Tail(toStop)
  /\ main' = "stop"
  /\ series' = IF Head(toStop) = "sampler" THEN samples ELSE series
  /\ stallsGot' = IF Head(toStop) = "watchdog" THEN stalls ELSE stallsGot
  /\ UNCHANGED <<opts, cancelled, phase, helper, stop, seen, samples, stalls, text, report>>

\* The runner's error ends the run; a result is rendered.
EndPhase ==
  /\ main = "stop" /\ toStop = <<>>
  /\ main' = IF outcome = "error" THEN "exit" ELSE "mkdir"
  /\ failed' = (outcome = "error")
  /\ UNCHANGED <<opts, cancelled, phase, threads, text, written, remote, uploaded>>

-----------------------------------------------------------------------------

MakeDir ==
  /\ main = "mkdir"
  /\ \E ok \in BOOLEAN :
       /\ main' = IF ok THEN "write" ELSE "exit"
       /\ failed' = ~ok
  /\ UNCHANGED <<opts, cancelled, phase, threads, text, written, remote, uploaded>>

WriteFileFaulty ==  \* faulty: a failed write is passed over
  /\ main = "write" /\ Len(written) < Len(Files)
  /\ \/ written' = Append(written, Files[Len(written) + 1]) /\ UNCHANGED <<main, failed>>
     \/ main' = "exit" /\ UNCHANGED <<written, failed>>
  /\ UNCHANGED <<opts, cancelled, phase, threads, text, remote, uploaded>>

\* writeFile: one file after the other; the first failure ends the run.
WriteFile ==
  /\ main = "write" /\ Len(written) < Len(Files)
  /\ \/ written' = Append(written, Files[Len(written) + 1]) /\ UNCHANGED <<main, failed>>
     \/ main' = "exit" /\ failed' = TRUE /\ UNCHANGED written
  /\ UNCHANGED <<opts, cancelled, phase, threads, text, remote, uploaded>>

AllWritten ==
  /\ main = "write" /\ written = Files
  /\ main' = IF opts.upload THEN "mirror" ELSE "exit"
  /\ UNCHANGED <<opts, cancelled, phase, threads, text, report>>

PutInNoOrder ==  \* faulty: the files are put as they come, as by many goroutines
  /\ main = "mirror" /\ Len(remote) < Len(written)
  /\ \/ /\ ~cancelled
        /\ \E name \in Range(written) \ Range(remote) : remote' = Append(remote, name)
        /\ UNCHANGED <<main, failed>>
     \/ main' = "exit" /\ failed' = TRUE /\ UNCHANGED remote
  /\ UNCHANGED <<opts, cancelled, phase, threads, text, written, uploaded>>

\* uploadDir puts the files under ctx: once ctx is cancelled a put fails.
PutFile ==
  /\ main = "mirror" /\ Len(remote) < Len(written)
  /\ \/ ~cancelled /\ remote' = Append(remote, written[Len(remote) + 1]) /\ UNCHANGED <<main, failed>>
     \/ main' = "exit" /\ failed' = TRUE /\ UNCHANGED remote
  /\ UNCHANGED <<opts, cancelled, phase, threads, text, written, uploaded>>

AllPut ==
  /\ main = "mirror" /\ remote = written
  /\ uploaded' = TRUE
  /\ main' = "exit"
  /\ UNCHANGED <<opts, cancelled, phase, threads, text, written, remote, failed>>

Cancel ==
  /\ ~cancelled
  /\ cancelled' = TRUE
  /\ UNCHANGED <<opts, main, phase, threads, text, report>>

Terminated == main = "exit" /\ UNCHANGED vars

-----------------------------------------------------------------------------

Main ==
  \/ BeginPhase \/ PrintHeader \/ ClosePipe \/ JoinCopy \/ SignalStop \/ Stopped \/ EndPhase
  \/ MakeDir \/ WriteFile \/ AllWritten \/ AllPut

Next ==
  \/ Reject \/ Main \/ MoveBytes \/ RunnerReturns \/ PutFile
  \/ CopyPrint \/ CopyEnds
  \/ SampleRead \/ SampleRecord \/ Stall \/ (\E g \in Helpers : Leave(g))
  \/ Cancel \/ Terminated

Spec == Init /\ [][Next]_vars

\* The goroutines are scheduled and writes to disk end; a helper's select takes a
\* ready stop channel in the end, whatever ticks compete with it.  Nothing is
\* assumed of the runner and of S3.
Fairness ==
  /\ WF_vars(Main)
  /\ WF_vars(CopyPrint \/ CopyEnds)
  /\ WF_vars(SampleRecord)
  /\ \A g \in Helpers : SF_vars(Leave(g))

FairSpec == Spec /\ Fairness

-----------------------------------------------------------------------------

PhaseOver == main \in {"mkdir", "write", "mirror", "exit"}

(***************************************************************************)
(* When runPhase has returned, on whatever path, no goroutine it started   *)
(* is running and stdout is the real one again.                            *)
(***************************************************************************)
NothingOutlives ==
  PhaseOver =>
    /\ \A g \in Helpers : helper[g] # "running"
    /\ copier # "running" /\ ~redirected

(***************************************************************************)
(* What the helpers and the copy hand over is final: the series and the    *)
(* stall count do not change once read, and the series is one of growing   *)
(* byte counts none of which exceeds the bytes moved; captureStdout returns*)
(* every print of the runner, unless there was no pipe or the real stdout  *)
(* stopped taking them.                                                    *)
(***************************************************************************)
HandedOver ==
  PhaseOver =>
    /\ series = samples /\ stallsGot = stalls
    /\ \A k \in DOMAIN series :
         series[k] <= bytes /\ \A j \in 1 .. k : series[j] <= series[k]
    /\ captured /\ ~lost => console = printed

(***************************************************************************)
(* What is in S3 can be trusted.  A pass cut short by a signal is recorded *)
(* as a sample (NilMeansAllRan of ObjectPool), but nothing of a run whose  *)
(* context was cancelled before its runner returned is put to S3.  And the *)
(* mirror has no manifest, so a failed upload leaves part of a report      *)
(* there, but the order tells: it is what a report begins with, and the    *)
(* last file, once there, vouches for the others.                          *)
(***************************************************************************)
MirrorSound ==
  /\ partial => remote = <<>> /\ ~uploaded
  /\ IsPrefix(remote, Files)
  /\ Contains(remote, Last(Files)) => remote = Files /\ outcome = "result"

(***************************************************************************)
(* The exit status tells the truth: without an error the runner had a      *)
(* result, every file is written, and all of them are in S3 when that was  *)
(* asked for; after an error of the runner there is no report at all.      *)
(***************************************************************************)
StatusSound ==
  /\ main = "exit" /\ ~failed =>
       /\ outcome = "result" /\ written = Files
       /\ opts.upload => uploaded /\ remote = Files
  /\ written # <<>> => outcome = "result"

(***************************************************************************)
(* The program exits if its runner returns and its puts end: no Stop, join *)
(* or pipe blocks it.                                                      *)
(***************************************************************************)
ProgramExits ==
  []<>(main # "runner") /\ []<>(main # "mirror") => <>(main = "exit")

-----------------------------------------------------------------------------

(***************************************************************************)
(* The strengthening from which BenchmarkRunProofs proves the four         *)
(* invariants: what each place of main says of the rest.                   *)
(***************************************************************************)

\* Only what has yet to be stopped still runs or has something to hand over.
HelpersInStep ==
  /\ \A g \in Helpers : helper[g] = "running" => Contains(toStop, g)
  /\ ~Contains(toStop, "sampler") => series = samples
  /\ ~Contains(toStop, "watchdog") => stallsGot = stalls
  /\ helper["sampler"] # "running" => seen = None
  /\ main = "begin" => samples = <<>> /\ series = <<>> /\ stalls = 0 /\ stallsGot = 0
  /\ main = "wait" => toStop # <<>>
  /\ main = "begin" \/ PhaseOver => toStop = <<>>

\* The byte count only grows, and so do the counts read from it.
SamplesGrow ==
  /\ \A k \in DOMAIN samples :
       samples[k] <= bytes /\ \A j \in 1 .. k : samples[j] <= samples[k]
  /\ seen # None => seen <= bytes /\ \A k \in DOMAIN samples : samples[k] <= seen

\* A print is in the pipe or in buf, until a write to the real stdout fails; the copy
\* does not end before the runner has returned, and main joins it.
CopyInStep ==
  /\ redirected <=> captured /\ main \in {"runner", "close"}
  /\ copier = "running" => captured /\ main \in {"runner", "close", "join"}
  /\ copier = "done" /\ ~lost => inPipe = 0 /\ main \notin {"begin", "runner", "close"}
  /\ captured => copier # "off"
  /\ main \in {"begin", "close", "join"} => captured <=> main # "begin"
  /\ main = "begin" => printed = 0
  /\ buf + inPipe <= printed
  /\ captured /\ ~lost => buf + inPipe = printed
  /\ captured /\ main \in {"stop", "wait", "mkdir", "write", "mirror", "exit"} => console = buf

\* The files are written and put in order, and only after a result.
ReportInOrder ==
  /\ main \in {"begin", "runner"} => outcome = "none"
  /\ outcome = "none" => main \in {"begin", "runner", "exit"}
  /\ main \in {"mkdir", "write", "mirror"} => outcome = "result" /\ ~failed
  /\ partial => cancelled /\ remote = <<>> /\ ~uploaded
  /\ written # <<>> => outcome = "result" /\ main \in {"write", "mirror", "exit"}
  /\ IsPrefix(written, Files)
  /\ remote # <<>> \/ main = "mirror" => written = Files
  /\ IsPrefix(remote, Files)
  /\ uploaded => main = "exit" /\ remote = Files
  /\ main = "exit" /\ ~failed =>
       outcome = "result" /\ written = Files /\ (opts.upload => uploaded)

IInv == TypeOK /\ HelpersInStep /\ SamplesGrow /\ CopyInStep /\ ReportInOrder

=============================================================================
