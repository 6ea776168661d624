---------------------------- MODULE WatchdogProofs ----------------------------
(***************************************************************************)
(* Proofs about Watchdog for every timeout and every delay below a period. *)
(*                                                                         *)
(* IInv orders the ages: a tick is handled before the next one fires       *)
(* (TicksInTime), a movement is noticed by the tick after it               *)
(* (MovesNoticed), and a hang is measured against both (HangsTimed).       *)
(***************************************************************************)
EXTENDS Watchdog, TLAPS

\* Ages grow by one, up to Cap, and keep their order.
LEMMA Aging ==
  /\ \A a \in Ages : Older(a) \in Ages /\ Older(a) = IF a < Cap THEN a + 1 ELSE Cap
  /\ Older(Never) = Never
BY WatchdogAssumption DEF Older, Ages, Cap, Bound, Timeout

\* The invariant holds before the first step.
LEMMA InitEstablishesIInv == Init => IInv
<1> SUFFICES ASSUME Init PROVE IInv
  OBVIOUS
<1> USE WatchdogAssumption DEF Cap, Bound, Timeout
<1>1. 0 \in Ages /\ 0 \in 0 .. Half
  BY DEF Ages
<1>2. TypeOK
  BY <1>1 DEF Init, TypeOK
<1>3. TicksInTime /\ MovesNoticed /\ HangsTimed
  BY DEF Init, TicksInTime, MovesNoticed, HangsTimed
<1> QED
  BY <1>2, <1>3 DEF IInv

\* Every step keeps the invariant.
LEMMA NextKeepsIInv == IInv /\ [Next]_vars => IInv'
<1> SUFFICES ASSUME IInv, [Next]_vars PROVE IInv'
  OBVIOUS
<1> USE WatchdogAssumption DEF Cap, Bound, Timeout, watchdog, history
<1>1. TypeOK /\ TicksInTime /\ MovesNoticed /\ HangsTimed
  BY DEF IInv
<1>2. TypeOK' /\ TicksInTime' /\ MovesNoticed' /\ HangsTimed' => IInv'
  BY DEF IInv
<1>3. CASE Advance
  <2>1. /\ sinceFire' = sinceFire + 1 /\ sinceFire' \in 0 .. Half /\ sinceFire \in 0 .. Half
        /\ sinceFire' <= Half /\ sinceFire < Half
    BY <1>1, <1>3 DEF Advance, TypeOK
  <2>2. /\ stamp' = Older(stamp) /\ sinceMove' = Older(sinceMove) /\ silence' = Older(silence)
        /\ tick' = Older(tick) /\ sinceWarn' = Older(sinceWarn)
        /\ hung' = IF inFlight THEN Older(hung) ELSE 0
        /\ UNCHANGED <<pc, changed, stopping, cancelled, inFlight, warned>>
        /\ (pc # "done" /\ tick # Never => tick < Delay) /\ (pc = "test" => stamp < Delay)
    BY <1>3 DEF Advance
  <2>3. /\ stamp \in Ages /\ sinceMove \in Ages /\ silence \in Ages /\ hung \in Ages
        /\ tick \in Ages \cup {Never} /\ sinceWarn \in Ages \cup {Never} /\ Never \notin Ages
    BY <1>1 DEF TypeOK, Ages
  <2>4. /\ stamp' \in Ages /\ stamp' = IF stamp < Cap THEN stamp + 1 ELSE Cap
        /\ sinceMove' \in Ages /\ sinceMove' = IF sinceMove < Cap THEN sinceMove + 1 ELSE Cap
        /\ silence' \in Ages /\ silence' = IF silence < Cap THEN silence + 1 ELSE Cap
    BY <2>2, <2>3, Aging
  <2>5. /\ tick = Never => tick' = Never
        /\ tick # Never =>
             /\ tick \in Ages /\ tick' \in Ages
             /\ tick' = IF tick < Cap THEN tick + 1 ELSE Cap
        /\ sinceWarn = Never => sinceWarn' = Never
        /\ sinceWarn # Never =>
             /\ sinceWarn \in Ages /\ sinceWarn' \in Ages
             /\ sinceWarn' = IF sinceWarn < Cap THEN sinceWarn + 1 ELSE Cap
    BY <2>2, <2>3, Aging
  <2>6. /\ hung' \in Ages /\ (~inFlight => hung' = 0)
        /\ inFlight => hung' = IF hung < Cap THEN hung + 1 ELSE Cap
    <3>1. 0 \in Ages
      BY DEF Ages
    <3> QED
      BY <2>2, <2>3, <3>1, Aging
  <2>7. TypeOK'
    BY <1>1, <2>1, <2>2, <2>4, <2>5, <2>6 DEF TypeOK
  <2>8. TicksInTime'
    BY <1>1, <2>1, <2>2, <2>3, <2>4, <2>5 DEF TicksInTime, Ages
  <2>9. MovesNoticed'
    BY <1>1, <2>1, <2>2, <2>3, <2>4, <2>5 DEF MovesNoticed, Ages
  <2>10. HangsTimed'
    BY <1>1, <2>1, <2>2, <2>3, <2>4, <2>5, <2>6 DEF HangsTimed, Ages
  <2> QED
    BY <1>2, <2>7, <2>8, <2>9, <2>10
<1>4. CASE Fire
  <2>1. TypeOK'
    BY <1>1, <1>4 DEF Fire, TypeOK, Ages
  <2>2. TicksInTime'
    BY <1>1, <1>4 DEF Fire, TypeOK, Ages, TicksInTime
  <2>3. MovesNoticed'
    BY <1>1, <1>4 DEF Fire, TypeOK, Ages, TicksInTime, MovesNoticed
  <2>4. HangsTimed'
    BY <1>1, <1>4 DEF Fire, TypeOK, Ages, TicksInTime, MovesNoticed, HangsTimed
  <2> QED
    BY <1>2, <2>1, <2>2, <2>3, <2>4
<1>5. CASE SeeChange
  <2>1. TypeOK'
    BY <1>1, <1>5 DEF SeeChange, TypeOK, Ages
  <2>2. TicksInTime'
    BY <1>1, <1>5 DEF SeeChange, TypeOK, Ages, TicksInTime
  <2>3. MovesNoticed'
    BY <1>1, <1>5 DEF SeeChange, TypeOK, Ages, TicksInTime, MovesNoticed
  <2>4. HangsTimed'
    BY <1>1, <1>5 DEF SeeChange, TypeOK, Ages, TicksInTime, MovesNoticed, HangsTimed
  <2> QED
    BY <1>2, <2>1, <2>2, <2>3, <2>4
<1>6. CASE SeeNothing
  <2>1. TypeOK'
    BY <1>1, <1>6 DEF SeeNothing, TypeOK, Ages
  <2>2. TicksInTime'
    BY <1>1, <1>6 DEF SeeNothing, TypeOK, Ages, TicksInTime
  <2>3. MovesNoticed'
    BY <1>1, <1>6 DEF SeeNothing, TypeOK, Ages, TicksInTime, MovesNoticed
  <2>4. HangsTimed'
    BY <1>1, <1>6 DEF SeeNothing, TypeOK, Ages, TicksInTime, MovesNoticed, HangsTimed
  <2> QED
    BY <1>2, <2>1, <2>2, <2>3, <2>4
<1>7. CASE Warn
  <2>1. TypeOK'
    BY <1>1, <1>7 DEF Warn, TypeOK, Ages
  <2>2. TicksInTime'
    BY <1>1, <1>7 DEF Warn, TypeOK, Ages, TicksInTime
  <2>3. MovesNoticed'
    BY <1>1, <1>7 DEF Warn, TypeOK, Ages, TicksInTime, MovesNoticed
  <2>4. HangsTimed'
    BY <1>1, <1>7 DEF Warn, TypeOK, Ages, TicksInTime, MovesNoticed, HangsTimed
  <2> QED
    BY <1>2, <2>1, <2>2, <2>3, <2>4
<1>8. CASE StayIdle
  <2>1. TypeOK'
    BY <1>1, <1>8 DEF StayIdle, TypeOK, Ages
  <2>2. TicksInTime'
    BY <1>1, <1>8 DEF StayIdle, TypeOK, Ages, TicksInTime
  <2>3. MovesNoticed'
    BY <1>1, <1>8 DEF StayIdle, TypeOK, Ages, TicksInTime, MovesNoticed
  <2>4. HangsTimed'
    BY <1>1, <1>8 DEF StayIdle, TypeOK, Ages, TicksInTime, MovesNoticed, HangsTimed
  <2> QED
    BY <1>2, <2>1, <2>2, <2>3, <2>4
<1>9. CASE Exit
  <2>1. TypeOK'
    BY <1>1, <1>9 DEF Exit, TypeOK, Ages
  <2>2. TicksInTime'
    BY <1>1, <1>9 DEF Exit, TypeOK, Ages, TicksInTime
  <2>3. MovesNoticed'
    BY <1>1, <1>9 DEF Exit, TypeOK, Ages, TicksInTime, MovesNoticed
  <2>4. HangsTimed'
    BY <1>1, <1>9 DEF Exit, TypeOK, Ages, TicksInTime, MovesNoticed, HangsTimed
  <2> QED
    BY <1>2, <2>1, <2>2, <2>3, <2>4
<1>10. CASE BeginRequest
  <2>1. 0 \in Ages
    BY DEF Ages
  <2>2. TypeOK'
    BY <1>1, <1>10, <2>1 DEF BeginRequest, TypeOK
  <2>3. TicksInTime'
    BY <1>1, <1>10 DEF BeginRequest, TypeOK, Ages, TicksInTime
  <2>4. MovesNoticed'
    BY <1>1, <1>10 DEF BeginRequest, TypeOK, Ages, TicksInTime, MovesNoticed
  <2>5. HangsTimed'
    BY <1>1, <1>10 DEF BeginRequest, TypeOK, Ages, TicksInTime, MovesNoticed, HangsTimed
  <2> QED
    BY <1>2, <2>2, <2>3, <2>4, <2>5
<1>11. CASE EndRequest
  <2>1. 0 \in Ages
    BY DEF Ages
  <2>2. TypeOK'
    BY <1>1, <1>11, <2>1 DEF EndRequest, TypeOK
  <2>3. TicksInTime'
    BY <1>1, <1>11 DEF EndRequest, TypeOK, Ages, TicksInTime
  <2>4. MovesNoticed'
    BY <1>1, <1>11 DEF EndRequest, TypeOK, Ages, TicksInTime, MovesNoticed
  <2>5. HangsTimed'
    BY <1>1, <1>11 DEF EndRequest, TypeOK, Ages, TicksInTime, MovesNoticed, HangsTimed
  <2> QED
    BY <1>2, <2>2, <2>3, <2>4, <2>5
<1>12. CASE MoveBytes
  <2>1. 0 \in Ages
    BY DEF Ages
  <2>2. TypeOK'
    BY <1>1, <1>12, <2>1 DEF MoveBytes, TypeOK
  <2>3. TicksInTime'
    BY <1>1, <1>12 DEF MoveBytes, TypeOK, Ages, TicksInTime
  <2>4. MovesNoticed'
    BY <1>1, <1>12 DEF MoveBytes, TypeOK, Ages, TicksInTime, MovesNoticed
  <2>5. HangsTimed'
    BY <1>1, <1>12 DEF MoveBytes, TypeOK, Ages, TicksInTime, MovesNoticed, HangsTimed
  <2> QED
    BY <1>2, <2>2, <2>3, <2>4, <2>5
<1>13. CASE Stop
  <2>1. TypeOK'
    BY <1>1, <1>13 DEF Stop, TypeOK, Ages
  <2>2. TicksInTime'
    BY <1>1, <1>13 DEF Stop, TypeOK, Ages, TicksInTime
  <2>3. MovesNoticed'
    BY <1>1, <1>13 DEF Stop, TypeOK, Ages, TicksInTime, MovesNoticed
  <2>4. HangsTimed'
    BY <1>1, <1>13 DEF Stop, TypeOK, Ages, TicksInTime, MovesNoticed, HangsTimed
  <2> QED
    BY <1>2, <2>1, <2>2, <2>3, <2>4
<1>14. CASE Cancel
  <2>1. TypeOK'
    BY <1>1, <1>14 DEF Cancel, TypeOK, Ages
  <2>2. TicksInTime'
    BY <1>1, <1>14 DEF Cancel, TypeOK, Ages, TicksInTime
  <2>3. MovesNoticed'
    BY <1>1, <1>14 DEF Cancel, TypeOK, Ages, TicksInTime, MovesNoticed
  <2>4. HangsTimed'
    BY <1>1, <1>14 DEF Cancel, TypeOK, Ages, TicksInTime, MovesNoticed, HangsTimed
  <2> QED
    BY <1>2, <2>1, <2>2, <2>3, <2>4
<1>15. CASE UNCHANGED vars
  BY <1>1, <1>2, <1>15 DEF vars, TypeOK, TicksInTime, MovesNoticed, HangsTimed
<1> QED
  BY <1>3, <1>4, <1>5, <1>6, <1>7, <1>8, <1>9, <1>10, <1>11, <1>12, <1>13, <1>14, <1>15
    DEF Next, Goroutine

\* The invariant holds in every state.
THEOREM Invariance == Spec => []IInv
<1>1. Init => IInv
  BY InitEstablishesIInv
<1>2. IInv /\ [Next]_vars => IInv'
  BY NextKeepsIInv
<1> QED
  BY <1>1, <1>2, PTL DEF Spec

\* Type correctness of the watchdog.
THEOREM TypeCorrect == Spec => []TypeOK
<1>1. IInv => TypeOK
  BY DEF IInv
<1> QED
  BY <1>1, Invariance, PTL

\* No long hang is missed while the watchdog runs: after Bound without a byte, a
\* warning was logged within the last Bound.
THEOREM HangsAreWarned == Spec => []HangWarned
<1>1. ASSUME IInv, hung > Bound, ~stopping, ~cancelled
      PROVE  sinceWarn # Never /\ sinceWarn <= Bound
  <2> USE WatchdogAssumption DEF Cap, Bound, Timeout
  <2> DEFINE handled == sinceFire + (IF tick # Never \/ pc = "test" THEN Half ELSE 0)
  <2>1. /\ TypeOK /\ TicksInTime /\ MovesNoticed /\ HangsTimed
        /\ pc # "done" /\ hung <= silence
    BY <1>1 DEF IInv, TicksInTime, HangsTimed
  <2>2. handled \in Nat /\ handled <= Half + Delay
    BY <2>1 DEF TypeOK, TicksInTime
  \* The last movement has been noticed.
  <2>3. ~changed
    BY <1>1, <2>1 DEF TypeOK, Ages, TicksInTime, MovesNoticed
  <2>4. sinceMove <= handled + Half \/ hung <= handled
    BY <2>1 DEF HangsTimed
  <2>5. sinceMove <= Timeout + Delay
    BY <1>1, <2>1, <2>2, <2>4 DEF TypeOK, Ages
  <2>6. sinceWarn # Never /\ sinceWarn <= sinceMove
    BY <1>1, <2>1, <2>3, <2>5 DEF TypeOK, Ages, MovesNoticed
  <2> QED
    BY <2>1, <2>5, <2>6 DEF TypeOK, Ages
<1>2. IInv => HangWarned
  BY <1>1 DEF HangWarned
<1> QED
  BY <1>2, Invariance, PTL

\* A judgement that the timeout is over, and a warning, are right: no byte moved for
\* the timeout less the delay, and two warnings are as far apart.
THEOREM WarningsAreRight == Spec => WarnedRight
<1> DEFINE Right ==
      /\ pc = "select" /\ pc' = "test" => silence >= Timeout - Delay
      /\ pc = "test" /\ sinceWarn' = 0 => sinceWarn = Never \/ sinceWarn >= Timeout - Delay
<1>1. ASSUME IInv, [Next]_vars PROVE Right \/ UNCHANGED vars
  <2> USE WatchdogAssumption DEF Cap, Bound, Timeout
  <2>1. TypeOK /\ TicksInTime /\ MovesNoticed /\ HangsTimed
    BY <1>1 DEF IInv
  <2>2. ASSUME pc = "select", pc' = "test" PROVE silence >= Timeout - Delay
    <3>1. SeeNothing
      BY <1>1, <2>2
        DEF Next, Goroutine, Advance, Fire, SeeChange, Warn, StayIdle, Exit, BeginRequest,
            EndRequest, MoveBytes, Stop, Cancel, watchdog, vars
    <3>2. ~changed /\ tick # Never /\ sinceMove - tick >= Timeout
      BY <2>2, <3>1 DEF SeeNothing
    <3> QED
      BY <2>1, <3>2 DEF TypeOK, Ages, MovesNoticed
  <2>3. ASSUME pc = "test" PROVE sinceWarn = Never \/ sinceWarn >= Timeout - Delay
    BY <2>1, <2>3 DEF TypeOK, Ages, TicksInTime, HangsTimed
  <2> QED
    BY <2>2, <2>3
<1>2. IInv /\ [Next]_vars => [Right]_vars
  BY <1>1
<1> QED
  BY <1>2, Invariance, PTL DEF Spec, WarnedRight

===============================================================================
