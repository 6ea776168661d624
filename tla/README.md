# A TLA+ model of s3-benchmark-go

The repository measures S3 throughput: `cmd/tmbench` runs one phase, an upload or
a download of groups of objects through a fork of the AWS SDK's transfer manager,
samples it while it runs, and writes a report. This directory holds TLA+ modules
for the parts of the program that have control worth checking, the TLC runs over
them, and theorems checked by TLAPS.

Line numbers below are of the files in the repository at the commit modelled.

## 1. The system

| component | state | operations | hard part |
|---|---|---|---|
| **Object pool** `runObjectsParallel`, tmbench.go 513-551 | channel `idx`, `firstErr`, wait group | dispatch, receive, test, call, store, return | unbuffered hand-off, lossy test-and-store of the first error, stop signal read before use |
| **Progress listener**, tmbench.go 491-511 | `last` per object, shared `prog.Bytes` | one callback, called by many goroutines | compare-and-swap loop, events out of order |
| **Runners** `RunUpload`, `RunDownload`, `RunDownloadObject`, `RunDownloadFile`, tmbench.go 132-489 | loop variables, `bytes`, samples, `prog.InFlight`, delivery files | setup, cleanup, passes, per-object callback | error paths, what one pass leaves to the next, partial passes |
| **Sinks and source**, tmbench.go 36-126 | counters, position in the block of random bytes | `Read`, `Write`, `WriteAt` | a copy loop that must make progress and end |
| **Stall watchdog**, metrics/watchdog.go | `last`, `lastMove`, `stalls`, ticker | tick, warn, stop | late ticks, stale moments, `select` |
| **Sampler, progress printer**, metrics/sampler.go, progressprinter.go | series, ticker | tick, stop | slice shared across a stop |
| **Phase lifecycle** `run`, `runPhase`, `captureStdout`, cmd/tmbench/main.go | helpers, pipe, `os.Stdout` | start, capture, join, render | order of joins, errors in the middle, signals |
| **Report**, internal/report/report.go | run directory, `art.Files`, S3 prefix | write files, mirror | one of many writes failing, a cancelled context |
| **Configuration**, internal/config, and the resolution in main.go 122-175, 313-345 | none | defaults, `KeysFor`, `ParseSize`, concurrencies, buffer, connections | int64 edges, a value that passes every check and fails hours later, upload and download counting objects by themselves |
| **S3 client and dialer**, internal/s3client | cached addresses, round-robin positions, a mutex | dial | mutex held during a lookup, expired answers, one base dialer for all |
| **Statistics**, tmbench.go 560-625; metrics/stats.go, bench/result.go | samples of a group | median, best, rows | ties, no pass, passes of no time |
| **Network tuning**, scripts/tune-network.sh | kernel settings, boot file, snapshot file | apply, revert | interruption between two commands, reboot, repetition |
| **Multi-NIC routing**, scripts/setup-multinic.sh | policy rules, routing tables | configure | interruption between two commands, repetition, table numbers that depend on which cards had an address |

How they interact. `run` calls `runPhase`, which starts the sampler, the watchdog
and the printer, and calls a runner within `captureStdout`. The runner calls the
pool once per pass; the pool calls the runner's callback per object; the callback
calls the transfer manager, whose part goroutines call the sinks, the source or
the listener. These add to `prog.Bytes`; the callback raises and lowers
`prog.InFlight`; sampler, watchdog and printer read both without a lock. One
context, cancelled by SIGINT or SIGTERM, reaches the pool, the transfer manager,
the watchdog and the upload of the report. Nothing is shared otherwise.

What makes each part correct:

* pool: every object is run at most once, within the limit; the return value
  accounts for every callback; the call always returns;
* listener: no byte counted twice or lost, whatever the order of events;
* runners: `InFlight` bounds the calls outstanding and comes back to zero, nothing
  stays open, a result accounts for every byte unless the run was cancelled;
* watchdog: no false alarm, no long hang missed, warnings apart;
* lifecycle and report: nothing outlives a phase, what is handed over is final,
  exit status and S3 tell the truth;
* configuration and rows: what is wrong is refused or harmless, what a row says is
  what the passes moved, a download finds what the upload before it made;
* dialer: connections spread evenly, no expired address, no dial stuck or repeated
  for nothing behind the mutex;
* tuning script: a revert gives the host its own values back;
* routing script: a rule leads to a complete table of its own card, and stays so.

## 2. Modules

```
ParallelRun <--implements-- ObjectPool          LiveCounter <--implements-- ProgressListener
     |                          |                                                |
     | actions used by     ObjectPoolProofs                           ProgressListenerProofs
     v
TransferRun          Watchdog          BenchmarkRun       NetTuning  Dialer    MultiNIC
     |                   |                   |                   \    /           |
TransferRunProofs  WatchdogProofs  BenchmarkRunProofs        NetworkProofs  MultiNICProofs

Settings ---+
SizedReader +-- EXTENDed by --> Seeding --- SeedingProofs
Figures ----+
```

Each `MC*` module instantiates the module of that name for TLC. Definitions named
`...Faulty` (and `EndPassLenient`) are deliberately wrong variants of the
definition before or after them; no specification uses them. They document, for
each property, a plausible mistake that breaks it: put in place of the original,
the run finds the property violated.

**ParallelRun** is what callers of the pool rely on, without workers or channels.
**ObjectPool** is the code: a program counter for the dispatcher (`loop`, `send`,
`wait`, `returned`) and for each worker (`recv`, `check`, `call`, `fn`, `failed`,
`store`, `exited`). The rendezvous on the unbuffered channel is one action of
both, `Handoff`. The test of `firstErr` and `ctx` is one step, the call of `fn`
another, so that the flags may rise in between; the second test of `firstErr` and
the store are two steps. An error is named by the index it came from. All errors
have one concrete type, so `atomic.Value.Store` does not panic.

**LiveCounter** is what the readers of `prog.Bytes` rely on. **ProgressListener**
is the loop at the granularity of its atomic operations (`Load`, `Swap`,
`SwapFails`, `Add`), with any number of threads delivering events in any order.
Bytes are named, so that double counting is a matter of set membership; the code
has their number only. That events carry totals really reached, each computed in
one step, is how the transfer manager is taken to behave (`Emit`, external).

**TransferRun** is the four runners. They share their loops and differ in the
callback, so one module with a variable `api` has them all; `toFile` says whether
they write delivery files. The pool enters through the actions of `ParallelRun`.
A callback goes through places (`create`, `get`, `transfer`, `close`, `count`,
`leave`, `error`); the transfer manager is external and moves units one by one, or
fails at any moment, before or after the last unit. It is assumed to move no unit
twice: `discardWriterAt` and `countingWriterAt` (tmbench.go 88-118) add what each write
brings without a look at its offset, so a part fetched again would be counted again,
and `ResultSound` would fail. A warmup is not negative here; `Seeding` has those.
Objects of one size group have the same number of units; file names after `sanitize` are taken to be distinct,
which holds unless two groups have the same size label and count.

**Watchdog** keeps moments as ages (time since), so that time is unbounded and the
state finite. A tick carries the moment it fired and may be handled up to `Delay`
units late. `Delay < Half`: ticks are late but not dropped. The configuration
makes the timeout positive, so the early return for a timeout of zero is
unreachable. Requests and movements are the environment, constrained by
`InFlightSound` of TransferRun: bytes move while `InFlight` is positive.

**BenchmarkRun** is one invocation. `main` is the program counter of the main
goroutine from the checks of the configuration (`Reject`, any of them) to the
exit; the helpers are goroutines that leave their `select` when their stop
channel is closed (the watchdog also on `ctx.Done`); `captureStdout` is the pipe,
the copying goroutine, and the order close, restore, join, read. The runner is
reduced to what this level sees: prints, bytes, and a result or an error. The
report is a sequence of writes and puts each of which may fail; a put under a
cancelled context fails. Stalls are counted at any time while the watchdog runs,
which allows more than the watchdog does.

**Settings** is what the program makes of the configuration file: labels as a number
and the letters after it, `ParseSize` with the wrap of int64 and the conversion of
floats beyond it, the keys of a group, the defaults, every check of `run`, and the
concurrencies, read-ahead and connections it resolves. `ConfigFiles` is every file
the program can read, up to the knobs that only the transfer manager looks at; among
the `Words` "other" stands for any text it does not know. **SizedReader** is the body
of an uploaded object, call by call and copy by copy. **Figures** is the summary of
the passes of a group. **Seeding** composes the three: an upload process and, with
the same file and the bucket it left, a download process. Its objects follow one
another; overlap, and what else runs when an object fails, are TransferRun's subject. A
signal may come at any step of the loops (`Signal`). From then on the pool passes over
every object not yet begun (`PassOver`, tmbench.go 530) and returns nil, as do all later
passes, so that the process may end as a success; the object under way may end or fail.
As objects are taken one by one, a signal leaves out those from one on, where the pool
would leave out a subset.

**Dialer** is the dial function of the HTTP transport, called by several
goroutines: the atomic counter over source addresses, the copy of the base dialer,
the mutex, the cached answers as ages, lookups that fail or change. `main.go` never
sets `SpreadConnections`; `spread` is a choice of `Init`, as the package offers it.

**NetTuning** is the script command by command; a value is known by who set it
(the host, the script, the conservative default). An interruption may come
between any two commands and a reboot at any time; both keep the files. What every
module has (`Init`, `Next`, `vars`, ...) carries the prefix `Tuning` here, so that
NetworkProofs can extend it together with Dialer.

**MultiNIC** is the routing script command by command, on a host whose cards come,
go and get addresses, next to a tool that configures cards by itself, with the
addresses that `LocalIPv4s` collects. The kernel's table of rules and routes is
external and modelled by what `ip` does to it. A second address of a card is left
out.

The **map** in PROJECT.json names the lines each definition stands for.

## 3. Runs

| run | instance | shows |
|---|---|---|
| `pool` | 4 objects, 3 workers | invariant, return value, lateness, refinement of ParallelRun, termination |
| `pool_cancel` | 2 objects, 1 worker | *violation*, see section 5 |
| `listener` | 1 object, 3 threads, 3 bytes | invariant, exactness, refinement of LiveCounter, the loop ends |
| `transfer` | 2 groups of 2 objects of 2 units, limit 2, 1 warmup + 2 passes | invariant, `InFlight`, results, delivered files, termination |
| `watchdog` | timeout 6, ticks every 3, delay 1 | no false alarm, warnings apart, no long hang missed, `Stop` returns |
| `program` | all options, 2 prints, 2 bytes, 2 samples, 1 stall | joins, hand-over, capture, report, mirror, exit |
| `settings` | 390 choices of file and mode, int64 of 6 bits | panics, missing objects, rows, figures, resolution, stream of a body, termination, under a signal at any step |
| `dialer` | 2 goroutines, 2 names, 2 sources, 2 answers, 5 dials | spreading, freshness, lookups, no dial stuck |
| `multinic` | 3 secondary cards, 1 of them plugged in or out | rules, egress of every source address, an idle re-run |
| `multinic_rerun` | 2 secondary cards | *violation*, see section 5 |
| `tuning` | 3 keys, 2 with defaults | snapshot and revert under interruption and reboot |
| `tuning_precise` | 2 keys, 1 with a default | *violation*, see section 5 |

Why the bounds are enough:

* pool: two workers can be between test and store of `firstErr` while a third
  takes a new index and a fourth index is still undispatched; with one worker less
  or one object less one of these coincidences is lost. The run's request, 3, is not
  clamped; `pool_cancel` has the request 0. What the clamps do to safety the theorems
  say, which hold for every request (`Refinement`: never more callbacks than configured,
  never more than one if fewer were); that the call returns is checked for 3 only;
* listener: three different totals of one object, one thread per total, give
  every order of three events and a failed swap against each. Objects share
  `prog.Bytes` and nothing else; the theorems hold for any number of them;
* transfer: two units let a transfer fail before, between and after them; two
  groups and three passes let a total, a sample, a file or an index leak into the
  next. The limit equals the number of objects here, as three objects with a limit
  of two take too long: that the limit bounds `InFlight` is what the theorem
  `InFlightIsSound` adds;
* watchdog: a timeout of six units leaves room for a movement before, at and after
  each tick. `Bound`, a timeout and a half plus the delay, is tight: TLC refutes
  `HangWarned` with one unit less. Ages are capped above every compared value;
* program: with two prints the copy lags behind the runner by none, one or two;
  with two samples one can be half made when the stop channel closes. `MaxBytes`,
  `MaxSamples`, `MaxStalls` bound counters that only grow;
* settings: `Kibi` 4, `Kilo` 3 and integers from -32 to 31 keep every order among
  the units (a KB below a KiB, a GiB beyond the largest integer) and let what the
  code adds and multiplies of sizes wrap. `TooBig` is what amd64 makes of such a float. The
  files differ from a plain one in one or two places: every label as size or part
  size, counts from -1, warmups and iterations from -2, concurrencies and buffers
  on both sides of each comparison, every value a check refuses. A block of three
  bytes is read across its end and around it by bodies longer than it. Passes last up to
  `MaxSecs`, 2, so that passes of the same bytes differ, tie, or take no time. The files
  that vary the concurrencies run no pass, as only the plan and the row have these;
* dialer: one goroutine waits for the mutex while the other looks up; five dials are
  two rounds and a half over two addresses, and `TTL` 1 lets an answer be young,
  old and expired. `MaxDials` bounds the calls;
* multinic: three secondary cards give one that is set up, skipped or lost before
  and after another. `MaxPlugs` bounds the cards attached or detached;
* tuning: a loop can be interrupted before, between and after its iterations, with
  keys of both kinds on either side. No counter is bounded.

Deadlock is checked except in `pool`, `program` and `dialer`, where a variant of the
code that blocks is to be found by the liveness property. The first two have an
explicit stuttering step where the code has returned; the dialer's model stops when
`MaxDials` is used up.

The type invariants of ObjectPool, ProgressListener, TransferRun and NetTuning are
the first conjunct of `IInv` (`TuningIInv` in NetTuning), which the runs check. Those
of BenchmarkRun, Watchdog, MultiNIC, Seeding and Dialer are the first conjunct of an
`IInv` that is proved, so the runs check what follows from it instead; `IInv`, and
`PartsInv` and `SignalInv` of Seeding, can be named as the INVARIANT of the same configurations, and
TLC finds them to hold there.

### Fairness

The Go scheduler runs every runnable goroutine: weak fairness of the steps of the
dispatcher, of each worker, of the runner, of each handler, of the main goroutine
and of the copy. Calls into the network get none, as the HTTP client has no overall
timeout; the liveness properties say instead "if every remote call ends".
`select` chooses at random among ready channels, so a ready stop channel is not
passed over for ever: strong fairness of the exits of the watchdog and of the
helpers of BenchmarkRun. Time passes and tickers fire (Watchdog). Writes to the
local disk end (BenchmarkRun). A waiter of a `sync.Mutex` is not overtaken for ever,
as the mutex has a starvation mode: strong fairness of `Acquire` in Dialer; a
connection attempt ends by the dialer's timeout; a lookup gets no fairness. In
Seeding the process goes on; nothing obliges a transfer to fail, a signal to come or a
download to follow. NetTuning and MultiNIC claim no liveness.

## 4. Proofs

All for every value of the constants, under the named `ASSUME`s only:
`PoolAssumption`, `ListenerAssumption`, `RunAssumption`, `TuningAssumption`,
`BenchmarkAssumption`, `WatchdogAssumption`, `MultiNICAssumption`,
`SettingsAssumption`, `ReaderAssumption`, `SeedingAssumption`, `DialerAssumption`. They
give the constants their types, and say besides: an answer of the resolver that the
dialer keeps is not empty and names an address once (Dialer); a tick is handled before the next one fires
(Watchdog); the program's own part sizes are labels, and what a float beyond int64
becomes is its least or largest value (Settings); int64 counts the passes of a run
and its parts in flight, whose sums and products the model does not wrap (Seeding).

**ObjectPoolProofs.** `ReturnSound` is not inductive: it speaks of the moment of
return. `IInv` adds what leads there: indices from `next` on are untouched, an
index is held by one worker at most (`HeldOnce`), a handed-out index that is not
settled has a holder (`NoneDropped`), a failure is stored or its worker is about to
look or store (`ErrorPending`), and what is stored is a real failure. From these:
`Invariance`, `TypeCorrect`, `ReturnIsSound`, `LateStarts`, and `Refinement`, whose
only difficult part is that no more callbacks run than were configured: the running
indices inject into the workers that hold them (`AtMostConfiguredRunning`), and there
are never more of these (`ConfiguredBounds`).

**ProgressListenerProofs.** `IInv` says that `last[o]` is exactly the bytes
counted or claimed by a thread between its swap and its addition (`LastCovers`),
that claims are disjoint from each other and from what is counted (`ClaimedOnce`),
and that the newest total is accepted or still in a loop (`NewestKnown`).
Theorems: `Invariance`, `ExactWhenIdle` (`CaughtUp`), `Refinement`.

**NetworkProofs**, about the dialer. `SpreadEvenly` compares counts of picks, and no
step of the code compares anything: each adds one to a position and takes it modulo
the number of choices. What is inductive is the relation of the counts to the
position: whoever is before it in the round is one pick ahead of the others
(`InTurn`, for sources and for the destinations of each answer), and `NextMod` and
`TurnTaken` are the step from one turn to the next. A connection takes its source
before it picks a destination and is counted when it is sent, so the count that goes
with the position has the attempts under way added, as the cardinality of a set
(`From`, `Taken`); they are none when the property speaks. `LookupsApart` and
`FreshOrPlain` rest on what a goroutine knows at each place (`CallsInStep`): one that
looks a name up holds the mutex, and what made it look still holds when the answer
comes. Theorems: `DialerInvariance`, `SpreadIsEven`, `DestinationsAreFresh`,
`LookupsAreApart`: every safety property of the run `dialer`.

**NetworkProofs**, about the tuning script. `TuningIInv` follows the files: what exists
at each command (`Located`), that nothing changes while the snapshot is made, that a
whole snapshot has every key, and that without a backup the settings are the host's own
(`OwnKnown`). Theorems: `TuningInvariance`, `SnapshotStaysGenuine`, `BootIsRevertible`,
`RevertIsExact`.

**TransferRunProofs.** `InFlightSound` needs to know that `InFlight` is the number of
callbacks that have raised it (`Counted`), which needs to know where a callback is
while the pool runs it (`CallbacksInStep`). `FilesDelivered` follows a file from the
end of its transfer to the end of the run (`FilesSoFar`), and rests on a pass that
returned nil without a signal having run every callback (`PassHonest`), which comes
from the contract ParallelRun alone. `ResultSound` speaks of sums over the objects of a
pass, which have no step of their own in the code: `BytesInv` says them as cardinalities
instead. The total of a pass is `Size` times the number of objects that added theirs
(`Added`), and the live counter is that of the passes before (`PassesDone`) and one for
each unit moved (`Units`), unless a signal came. TLC holds `BytesInv` against
`MCTransferRun`. Theorems: `Invariance`, `TypeCorrect`, `InFlightIsSound`,
`NothingIsLeaked`, `FilesAreDelivered`, `Accounts`, `ResultIsSound`.

**WatchdogProofs.** The watchdog compares against the stamp of the tick that noticed
the last movement, which is neither when the bytes moved nor when it is read. `IInv`
orders these moments: a tick is handled in time (`TicksInTime`), a movement is
noticed by the first tick after it (`MovesNoticed`), and a hang that is not warned of
is bounded at each place of the loop (`HangsTimed`). That makes `Bound` the sum it
is: with one unit less the last step of `HangsAreWarned` fails, as TLC's
counterexample says it must. Theorems: `Invariance`, `TypeCorrect`, `HangsAreWarned`,
`WarningsAreRight`; the last is an action property.

**BenchmarkRunProofs.** The properties speak of what is left when a phase is over or
the program exits. `IInv` says at each place of `main` which helpers run and which
`Stop` is next (`HelpersInStep`), where the prints are between runner, pipe, copy and
console (`CopyInStep`), that the series grows with the bytes (`SamplesGrow`), and how
far the report and its mirror have come (`ReportInOrder`). Theorems: `Invariance`,
`TypeCorrect`, `NothingIsLeftRunning`, `HandOverIsFinal`, `MirrorIsSound`,
`StatusIsSound`: every safety property of the run `program`.

**MultiNICProofs.** `RuleMeansRouted` is not inductive, as the script overwrites a
table without looking at whose it is. It is safe because the table of a card is its
rank among the cards with an address, while these do not change (`TablesOwn`), and
the loop's counter is that rank (`CountedSoFar`); two ranks differ, so no other card's
table is touched. `Place` says what each command of an iteration finds done and
`AllSetUp` what a complete run leaves. Theorems: `Invariance`, `TypeCorrect`,
`RulesAreRouted`, `SourcesLeaveByOwnCard`, and the action property `RerunsAreIdle`.
`RerunSafe`, which drops the condition on the cards, is what TLC refutes.

**SeedingProofs.** A row, a missing object or a panic is the end of a long way through
groups, passes and objects, of two processes. `IInv` follows it: where the loops are
and under which configuration (`Configured`, `InLoops`); what the upload has left in
the bucket up to its group and object, unless a signal came (`Seeded`); that each object there is as long as
*any* label that makes its key says (`BucketTrue`), which holds as no two units that
parse differ in case only (`SameKeySameSize`); and the bytes of the pass so far
(`GroupSoFar`): those of the objects before this one, or after a signal no more than
that. The sums do not wrap if the size of the group does not (`Adding`).
A body's contents are tied to the position of the reader in its block (`InStep`).
About the operators: `PlanIsSound` rests on `GetBuffer` giving each object its share
(`BufferOf`) and on a maximum over the groups; `BestOf` and `MedianOf` on the order of
samples by products of bytes and seconds (`SlowerOrder`) and on cardinalities. Where
these need an induction over a list it is done by hand, as a least counterexample
(`Smallest`, `Largest`, `Fastest`). A second invariant, `PartsInv`, is about the parts
of a row. The program computes them as a product (`nparts`), the transfer manager makes
them by cutting each body; the two meet in the bucket. What was read of a body is in its
full parts, the one being filled and the buffer of the call in progress, which never
reaches beyond that part (`BodyCut`); so an object has the parts it takes and no empty
one (`BucketCut`), and dividing its size, rounded up, gives their number
(`PartsCounted`). All objects of a group are as long (`BucketTrue`) and their keys
differ (`KeysDiffer`), so the pairs of object and part, which is what `PartsTold`
counts, are the product: a sum over a set as a cardinality, as a sum would take an
induction over an operator. A third, `SignalInv`, is about what a signal leaves: a pass
that is not whole comes with a signal, and after it no pass, of this group or a later
one, moved anything (`ShortLastSoFar`); a pass of an upload that is whole has stored
each of its objects (`WholeIsStored`), which is not true of every row once a signal has
come. Each of the three is inductive given the ones before it. Theorems: `Invariance`,
`TypeCorrect`, `ReaderIsSound` and `StreamIsSound`, `PanicsAreZeroParts`,
`NothingIsMissing`, `PartsInvariance`, `SignalInvariance`, `RowsAreTold`,
`FiguresAreSound`, `PlanIsRight`.

Only model-checked: all liveness (`EventuallyReturns`, `HandlersFinish`, `RunReturns`,
`StopReturns`, `ProgramExits`, `Settles`, `DialsProceed`), as liveness under fairness
and ENABLED are beyond the prover; and the three properties that the code violates.

## 5. Where code and comments differ

* `pool_cancel`: after a cancellation the pool returns nil although callbacks never
  ran (tmbench.go 530), while its comment (513-514) knows errors as the only cause to
  stop. The runner then records the partial pass. `MirrorSound` of
  BenchmarkRun shows what becomes of it: it is written to the local run directory
  and nothing of it is put to S3, as the puts use the cancelled context. `RowsTell`
  shows how it looks there: one row with a pass that is short, then passes and rows
  that moved nothing. An upload so cancelled is a success too, with exit status 0 if
  no mirror was asked for, and a later download may miss objects, although "an upload run
  seeds/round-trips the exact objects a later download fetches" (142); `NothingMissing`
  therefore holds of uploads that no signal reached.
* `multinic_rerun`: the table of a card is the number of cards seen so far
  (setup-multinic.sh 46), so a card that has no address in the first run and one in
  the second takes, and flushes, the table of a later card, which keeps its rule and
  from then on leaves by the other card. The header (11) says "Safe to re-run".
* `tuning_precise`: an apply interrupted within the snapshot leaves a partial file
  which the next apply keeps (tune-network.sh 88-99), so a later revert is not
  "precisely what was there" (10-11).

Three more, which no run states:

* the watchdog's comment says a stall is reported "whenever" no bytes move for the
  timeout (watchdog.go 11-12), but a hang of up to one and a half timeouts and the
  handling delay may end unreported, as a movement is stamped with the tick that
  notices it (57). `HangWarned` is what holds;
* the stall warning (main.go 310) is printed after the capture has ended and the
  count handed to the report is not used, while summary.txt is called "the captured
  console output" (report.go 115);
* the report writes the part-time tables only for the mode `download`, while the
  runners set `tm-download`: they are never written.

What some properties leave out, because the code does not keep it or it is not theirs:

* `SnapshotGenuine` and `RevertRestores` exclude keys the tuning script warned of. It
  loses their values: the snapshot is removed (66), and the next apply takes the tuned
  value for the host's;
* the passing properties of MultiNIC hold as long as the cards do not change, a late lease
  of a card that was skipped (36) being a change. `RerunSafe` has the changes, and fails.

## 6. Not modelled

* Contents: object bytes beyond their position in the block, checksums, the text of
  header, tables, plot, views and environment; CPU, memory and throughput figures.
* `metrics/stats.go` and the medians, part records and percentiles of
  `bench/result.go`: no program of the repository calls them. `computeResources` is
  a sum and two maxima over the series.
* The transfer manager, the SDK, the kernel and S3: external, by their effect only.
* Two invocations sharing a run directory (it is named by the second and the label,
  report.go 67) or delivery files.
* A second `--revert` of the tuning script, which finds no snapshot and sets two
  keys to its defaults, as it says; addresses of container bridges, which
  `LocalIPv4s` offers as sources and the routing script passes over.
* `scripts/pull.sh`, `tm-run.sh`, `push.ps1`, `pull-results.ps1`: straight-line
  calls of other programs. `results/` is recorded data.

## 7. Plan

Done, in this order: ParallelRun and ObjectPool with proofs, LiveCounter and
ProgressListener with proofs, TransferRun, Watchdog, BenchmarkRun, NetTuning with
proofs, Dialer, MultiNIC, Settings with SizedReader and Figures composed in Seeding,
and the proofs about TransferRun, BenchmarkRun, Watchdog, MultiNIC, Seeding and Dialer.

Every safety and action property of the passing runs has a theorem. What remains is
out of the prover's reach (liveness) or violated by the code.
