------------------------------- MODULE Watchdog -------------------------------
(***************************************************************************)
(* The stall watchdog of internal/metrics/watchdog.go: on a ticker of half *)
(* the timeout it compares prog.Bytes with the value it saw last, and      *)
(* counts a stall when the value has not changed for a whole timeout and   *)
(* prog.InFlight is positive.                                              *)
(*                                                                         *)
(* Time passes in units.  A moment is represented by its age, the time     *)
(* passed since, which keeps the state finite; ages stop growing at Cap.   *)
(* The tick channel holds one tick (time.Ticker drops a tick the receiver  *)
(* is too slow for), and a tick carries the moment it fired, not the one   *)
(* it is handled at: the watchdog goroutine may be up to Delay units late, *)
(* the scheduling latency of a process that keeps every core busy.         *)
(*                                                                         *)
(* The requests are those of TransferRun: bytes move only while            *)
(* prog.InFlight is positive (InFlightSound there).                        *)
(***************************************************************************)
EXTENDS Integers

CONSTANTS
  Half,    \* check, the ticker's period: the timeout divided by two
  Delay,   \* how late a tick may be handled
  Never    \* no tick in the channel, no warning yet

\* A timeout is a positive number of milliseconds in nanoseconds, so halving
\* it is exact and leaves a positive period.
ASSUME WatchdogAssumption ==
  /\ Half \in Nat \ {0}
  /\ Delay \in Nat /\ Delay < Half
  /\ Never \notin Nat

Timeout == 2 * Half
Bound == Timeout + Half + Delay   \* see HangWarned
Cap == Bound + Half + Delay + 1   \* above every age a guard or property compares

VARIABLES
  pc,         \* "select"; "test": bytes were unchanged; "done"
  sinceFire,  \* age of the ticker's last firing
  tick,       \* age of the tick in the channel, or Never
  stamp,      \* age of the tick being handled: the variable now
  sinceMove,  \* age of lastMove
  changed,    \* prog.Bytes differs from the variable last
  stopping,   \* w.stop is closed
  cancelled,  \* ctx is done
  inFlight,   \* prog.InFlight > 0
  silence,    \* history: age of the last change of prog.Bytes
  hung,       \* history: how long requests have been in flight with no byte moving
  warned,     \* history: a warning was logged during the present hang
  sinceWarn   \* history: age of the last warning, or Never

vars == <<pc, sinceFire, tick, stamp, sinceMove, changed, stopping, cancelled,
          inFlight, silence, hung, warned, sinceWarn>>
watchdog == <<pc, sinceFire, tick, stamp, sinceMove>>
history == <<silence, hung, warned, sinceWarn>>

Ages == 0 .. Cap
Older(age) == IF age = Never THEN Never ELSE IF age < Cap THEN age + 1 ELSE Cap

TypeOK ==
  /\ pc \in {"select", "test", "done"}
  /\ sinceFire \in 0 .. Half
  /\ tick \in Ages \cup {Never} /\ stamp \in Ages /\ sinceMove \in Ages
  /\ changed \in BOOLEAN /\ stopping \in BOOLEAN /\ cancelled \in BOOLEAN
  /\ inFlight \in BOOLEAN
  /\ silence \in Ages /\ hung \in Ages /\ warned \in BOOLEAN
  /\ sinceWarn \in Ages \cup {Never}

\* Start: the goroutine creates the ticker, reads prog.Bytes and stamps lastMove.
Init ==
  /\ pc = "select"
  /\ sinceFire = 0 /\ tick = Never /\ stamp = 0 /\ sinceMove = 0
  /\ changed = FALSE /\ stopping = FALSE /\ cancelled = FALSE
  /\ inFlight \in BOOLEAN
  /\ silence = 0 /\ hung = 0 /\ warned = FALSE /\ sinceWarn = Never

-----------------------------------------------------------------------------

\* A unit of time passes.  The ticker is exact; the goroutine handles a tick at
\* most Delay units after it fired.
Advance ==
  /\ sinceFire < Half
  /\ pc # "done" /\ tick # Never => tick < Delay
  /\ pc = "test" => stamp < Delay
  /\ sinceFire' = sinceFire + 1
  /\ tick' = Older(tick)
  /\ stamp' = Older(stamp)
  /\ sinceMove' = Older(sinceMove)
  /\ silence' = Older(silence)
  /\ hung' = IF inFlight THEN Older(hung) ELSE 0
  /\ sinceWarn' = Older(sinceWarn)
  /\ UNCHANGED <<pc, changed, stopping, cancelled, inFlight, warned>>

\* The runtime's timer: the tick is dropped if the last one is still there.
Fire ==
  /\ sinceFire = Half
  /\ sinceFire' = 0
  /\ tick' = IF tick = Never THEN 0 ELSE tick
  /\ UNCHANGED <<pc, stamp, sinceMove, changed, stopping, cancelled, inFlight, history>>

\* "cur != last": both are set to the present, lastMove to that of the tick.
SeeChange ==
  /\ pc = "select" /\ tick # Never /\ changed
  /\ stamp' = tick
  /\ tick' = Never
  /\ changed' = FALSE
  /\ sinceMove' = tick
  /\ UNCHANGED <<pc, sinceFire, stopping, cancelled, inFlight, history>>

SeeNothingFaulty ==  \* faulty: a tick that sees nothing moves lastMove too
  /\ pc = "select" /\ tick # Never /\ ~changed
  /\ stamp' = tick
  /\ tick' = Never
  /\ pc' = IF sinceMove - tick >= Timeout THEN "test" ELSE "select"
  /\ sinceMove' = tick
  /\ UNCHANGED <<sinceFire, changed, stopping, cancelled, inFlight, history>>

\* Bytes are as they were; prog.InFlight is read only if the timeout is over.
SeeNothing ==
  /\ pc = "select" /\ tick # Never /\ ~changed
  /\ stamp' = tick
  /\ tick' = Never
  /\ pc' = IF sinceMove - tick >= Timeout THEN "test" ELSE "select"
  /\ UNCHANGED <<sinceFire, sinceMove, changed, stopping, cancelled, inFlight, history>>

WarnFaulty ==  \* faulty: lastMove is left alone
  /\ pc = "test" /\ inFlight
  /\ pc' = "select"
  /\ warned' = TRUE
  /\ sinceWarn' = 0
  /\ UNCHANGED <<sinceFire, tick, stamp, sinceMove, changed, stopping, cancelled, inFlight, silence, hung>>

\* "warn at most once per timeout window"
Warn ==
  /\ pc = "test" /\ inFlight
  /\ pc' = "select"
  /\ sinceMove' = stamp
  /\ warned' = TRUE
  /\ sinceWarn' = 0
  /\ UNCHANGED <<sinceFire, tick, stamp, changed, stopping, cancelled, inFlight, silence, hung>>

StayIdle ==
  /\ pc = "test" /\ ~inFlight
  /\ pc' = "select"
  /\ UNCHANGED <<sinceFire, tick, stamp, sinceMove, changed, stopping, cancelled, inFlight, history>>

ExitFaulty ==  \* faulty: the loop looks at ctx only
  /\ pc = "select"
  /\ cancelled
  /\ pc' = "done"
  /\ UNCHANGED <<sinceFire, tick, stamp, sinceMove, changed, stopping, cancelled, inFlight, history>>

\* The select takes whichever channel is ready, stop and ctx.Done among them.
Exit ==
  /\ pc = "select"
  /\ stopping \/ cancelled
  /\ pc' = "done"
  /\ UNCHANGED <<sinceFire, tick, stamp, sinceMove, changed, stopping, cancelled, inFlight, history>>

-----------------------------------------------------------------------------

\* The environment: the callbacks of TransferRun, runPhase and the signal.
BeginRequest ==
  /\ ~inFlight
  /\ inFlight' = TRUE
  /\ hung' = 0
  /\ warned' = FALSE
  /\ UNCHANGED <<watchdog, changed, stopping, cancelled, silence, sinceWarn>>

EndRequest ==
  /\ inFlight
  /\ inFlight' = FALSE
  /\ hung' = 0
  /\ warned' = FALSE
  /\ UNCHANGED <<watchdog, changed, stopping, cancelled, silence, sinceWarn>>

MoveBytes ==
  /\ inFlight
  /\ changed' = TRUE
  /\ silence' = 0
  /\ hung' = 0
  /\ warned' = FALSE
  /\ UNCHANGED <<watchdog, stopping, cancelled, inFlight, sinceWarn>>

Stop ==
  /\ ~stopping
  /\ stopping' = TRUE
  /\ UNCHANGED <<watchdog, changed, cancelled, inFlight, history>>

Cancel ==
  /\ ~cancelled
  /\ cancelled' = TRUE
  /\ UNCHANGED <<watchdog, changed, stopping, inFlight, history>>

Goroutine == SeeChange \/ SeeNothing \/ Warn \/ StayIdle \/ Exit

Next ==
  \/ Advance \/ Fire \/ Goroutine
  \/ BeginRequest \/ EndRequest \/ MoveBytes \/ Stop \/ Cancel

Spec == Init /\ [][Next]_vars

\* Time goes on and the goroutine is scheduled.  Among several ready channels
\* select chooses at random, so a ready stop or ctx.Done is not passed over for
\* ever in favour of ticks: strong fairness of Exit.
FairSpec ==
  Spec /\ WF_vars(Advance) /\ WF_vars(Fire) /\ WF_vars(Goroutine) /\ SF_vars(Exit)

-----------------------------------------------------------------------------

(***************************************************************************)
(* Whatever is warned of is real, and told once: a timeout is judged over  *)
(* only when no byte has moved for the timeout less the delay with which   *)
(* the last movement may have been noticed, and "warn at most once per     *)
(* timeout window": two warnings are a timeout apart, up to the delay of   *)
(* the first.                                                              *)
(***************************************************************************)
WarnedRight ==
  [][/\ pc = "select" /\ pc' = "test" => silence >= Timeout - Delay
     /\ pc = "test" /\ sinceWarn' = 0 =>
          sinceWarn = Never \/ sinceWarn >= Timeout - Delay]_vars

(***************************************************************************)
(* A running watchdog misses no long hang and goes on reporting it: when   *)
(* requests have been in flight for Bound with no byte moving, a warning   *)
(* was logged within the last Bound.  Half a timeout is lost because a     *)
(* movement is stamped with the tick that notices it.                      *)
(***************************************************************************)
HangWarned ==
  hung > Bound /\ ~stopping /\ ~cancelled =>
    sinceWarn # Never /\ sinceWarn <= Bound

(***************************************************************************)
(* Stop's wait for w.done ends.                                            *)
(***************************************************************************)
StopReturns == stopping ~> pc = "done"

-----------------------------------------------------------------------------

(***************************************************************************)
(* The strengthening from which WatchdogProofs proves the two properties:  *)
(* the order among the ages.                                               *)
(***************************************************************************)

\* A tick is handled before the next one fires, and lastMove is the moment of a
\* firing, Start being one: a multiple of the period before the last.
TicksInTime ==
  /\ pc = "done" => stopping \/ cancelled
  /\ pc # "done" /\ tick # Never => tick = sinceFire /\ tick <= Delay
  /\ pc = "test" => tick = Never /\ stamp = sinceFire /\ stamp <= Delay /\ sinceMove >= Timeout
  /\ pc # "done" =>
       sinceMove \in {sinceFire, sinceFire + Half} \/ sinceMove >= sinceFire + Timeout

\* A movement waits for the next tick to be noticed, and lastMove is then up to a
\* period after it, or up to Delay before; until a warning moves lastMove on.
MovesNoticed ==
  /\ pc # "done" /\ changed => silence <= sinceFire + (IF tick = Never THEN 0 ELSE Half)
  /\ ~changed => sinceMove <= silence + Delay
  /\ ~changed => silence <= sinceMove + Half \/ (sinceWarn # Never /\ sinceWarn <= sinceMove)

\* The newest tick handled, if not the one before it, found less than a timeout since
\* lastMove, or warned, or nothing was in flight.
HangsTimed ==
  /\ hung <= silence /\ (~inFlight => hung = 0)
  /\ sinceWarn # Never => sinceMove <= sinceWarn + Delay
  /\ pc # "done" =>
       LET handled == sinceFire + (IF tick # Never \/ pc = "test" THEN Half ELSE 0)
       IN  sinceMove <= handled + Half \/ hung <= handled

IInv == TypeOK /\ TicksInTime /\ MovesNoticed /\ HangsTimed

=============================================================================
