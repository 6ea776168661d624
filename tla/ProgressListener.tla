--------------------------- MODULE ProgressListener ---------------------------
(***************************************************************************)
(* progBytesListener of internal/tmbench/tmbench.go: the transfer manager  *)
(* reports, per object, the cumulative number of bytes transferred; the    *)
(* events of one object are delivered by several part goroutines at once,  *)
(* and in any order.  The listener of the object keeps the largest value   *)
(* seen and adds the difference to the counter prog.Bytes that all objects *)
(* share, with a compare-and-swap loop in place of a lock.                 *)
(*                                                                         *)
(* A byte of an object is named by its place in the object's cumulative    *)
(* count.  The history variable counted holds the bytes a delta stood for; *)
(* the code has only their number, prog.Bytes.                             *)
(***************************************************************************)
EXTENDS Integers, FiniteSets

CONSTANTS
  Objects,   \* objects being downloaded, each with a listener of its own
  Threads,   \* goroutines of the transfer manager that deliver events
  Size       \* ContentLength of an object

ASSUME ListenerAssumption == Size \in Nat

VARIABLES
  emitted,   \* emitted[o]: cumulative bytes in the newest event of object o
  last,      \* last[o]: the listener's atomic maximum
  bytes,     \* prog.Bytes
  pc,        \* pc[t]: where thread t is in OnObjectBytesTransferred
  obj,       \* obj[t]: the object of the event thread t delivers
  val,       \* val[t]: its BytesTransferred
  old,       \* old[t]: the local variable old
  counted    \* history: the bytes added to prog.Bytes so far

vars == <<emitted, last, bytes, pc, obj, val, old, counted>>

Places == 1 .. Size

\* The bytes of object o after place a, up to place b.
Stretch(o, a, b) == {o} \X ((a + 1) .. b)

TypeOK ==
  /\ emitted \in [Objects -> 0 .. Size]
  /\ last \in [Objects -> 0 .. Size]
  /\ bytes \in Nat
  /\ pc \in [Threads -> {"idle", "load", "cas", "add"}]
  /\ obj \in [Threads -> Objects]
  /\ val \in [Threads -> 0 .. Size]
  /\ old \in [Threads -> 0 .. Size]
  /\ counted \subseteq Objects \X Places

Init ==
  /\ emitted = [o \in Objects |-> 0]
  /\ last = [o \in Objects |-> 0]
  /\ bytes = 0
  /\ pc = [t \in Threads |-> "idle"]
  /\ obj \in [Threads -> Objects]
  /\ val = [t \in Threads |-> 0]
  /\ old = [t \in Threads |-> 0]
  /\ counted = {}

\* The transfer manager accounts n more bytes of object o, in one atomic step,
\* and calls the listener with the new total.  An empty part adds nothing.
Emit(t, o, n) ==
  /\ pc[t] = "idle"
  /\ emitted[o] + n <= Size
  /\ emitted' = [emitted EXCEPT ![o] = @ + n]
  /\ pc' = [pc EXCEPT ![t] = "load"]
  /\ obj' = [obj EXCEPT ![t] = o]
  /\ val' = [val EXCEPT ![t] = emitted[o] + n]
  /\ UNCHANGED <<last, bytes, old, counted>>

\* "old := l.last.Load()", and the return when the event is not news.
Load(t) ==
  /\ pc[t] = "load"
  /\ old' = [old EXCEPT ![t] = last[obj[t]]]
  /\ pc' = [pc EXCEPT ![t] = IF val[t] <= last[obj[t]] THEN "idle" ELSE "cas"]
  /\ UNCHANGED <<emitted, last, bytes, obj, val, counted>>

\* Faulty variants, named after what they stand in for; the runs refute a
\* listener built from any one of them.
SwapFaulty(t) ==  \* faulty: a plain Store in place of CompareAndSwap
  /\ pc[t] = "cas"
  /\ last' = [last EXCEPT ![obj[t]] = val[t]]
  /\ pc' = [pc EXCEPT ![t] = "add"]
  /\ UNCHANGED <<emitted, bytes, obj, val, old, counted>>

\* CompareAndSwap succeeds only if nobody moved last since the load.
Swap(t) ==
  /\ pc[t] = "cas"
  /\ last[obj[t]] = old[t]
  /\ last' = [last EXCEPT ![obj[t]] = val[t]]
  /\ pc' = [pc EXCEPT ![t] = "add"]
  /\ UNCHANGED <<emitted, bytes, obj, val, old, counted>>

SwapFailsFaulty(t) ==  \* faulty: gives up instead of trying again
  /\ pc[t] = "cas"
  /\ last[obj[t]] # old[t]
  /\ pc' = [pc EXCEPT ![t] = "idle"]
  /\ UNCHANGED <<emitted, last, bytes, obj, val, old, counted>>

RetryFaulty(t) ==  \* faulty: tries again without loading again
  /\ pc[t] = "cas"
  /\ last[obj[t]] # old[t]
  /\ UNCHANGED vars

SwapFails(t) ==
  /\ pc[t] = "cas"
  /\ last[obj[t]] # old[t]
  /\ pc' = [pc EXCEPT ![t] = "load"]
  /\ UNCHANGED <<emitted, last, bytes, obj, val, old, counted>>

AddFaulty(t) ==  \* faulty: adds the cumulative value, not the difference
  /\ pc[t] = "add"
  /\ bytes' = bytes + val[t]
  /\ counted' = counted \cup Stretch(obj[t], old[t], val[t])
  /\ pc' = [pc EXCEPT ![t] = "idle"]
  /\ UNCHANGED <<emitted, last, obj, val, old>>

\* "atomic.AddInt64(&l.prog.Bytes, e.BytesTransferred-old)"
Add(t) ==
  /\ pc[t] = "add"
  /\ bytes' = bytes + (val[t] - old[t])
  /\ counted' = counted \cup Stretch(obj[t], old[t], val[t])
  /\ pc' = [pc EXCEPT ![t] = "idle"]
  /\ UNCHANGED <<emitted, last, obj, val, old>>

Handler(t) == Load(t) \/ Swap(t) \/ SwapFails(t) \/ Add(t)

\* All bytes are transferred and no event is being handled.
Terminated ==
  /\ \A o \in Objects : emitted[o] = Size
  /\ \A t \in Threads : pc[t] = "idle"
  /\ UNCHANGED vars

Next ==
  \/ \E t \in Threads : Handler(t)
  \/ \E t \in Threads, o \in Objects, n \in 0 .. Size : Emit(t, o, n)
  \/ Terminated

Spec == Init /\ [][Next]_vars

\* A goroutine inside the callback keeps being scheduled; the transfer itself
\* may stall, so Emit gets no fairness.
FairSpec == Spec /\ \A t \in Threads : WF_vars(Handler(t))

-----------------------------------------------------------------------------

\* The bytes transferred so far, and those a thread has claimed by its swap
\* but not yet added.
Transferred == UNION {Stretch(o, 0, emitted[o]) : o \in Objects}
Claimed(t) == IF pc[t] = "add" THEN Stretch(obj[t], old[t], val[t]) ELSE {}

\* An event carries a total that was reached; a swap moved last upwards.
EventReal == \A t \in Threads : pc[t] # "idle" => val[t] <= emitted[obj[t]]
NewsOnly == \A t \in Threads : pc[t] \in {"cas", "add"} => old[t] < val[t]

\* last[o] is exactly the number of bytes of o that are counted or claimed.
LastCovers ==
  \A o \in Objects, b \in Places :
    b <= last[o] <=>
      \/ <<o, b>> \in counted
      \/ \E t \in Threads : <<o, b>> \in Claimed(t)

\* No byte is claimed twice, nor claimed again after it was counted.
ClaimedOnce ==
  /\ \A t \in Threads : Claimed(t) \cap counted = {}
  /\ \A t, u \in Threads : t # u => Claimed(t) \cap Claimed(u) = {}

\* The newest event of an object has been accepted or is still on its way.
NewestKnown ==
  \A o \in Objects :
    \/ last[o] = emitted[o]
    \/ \E t \in Threads :
         pc[t] \in {"load", "cas"} /\ obj[t] = o /\ val[t] = emitted[o]

LastReal == \A o \in Objects : last[o] <= emitted[o]

(***************************************************************************)
(* The counter is the number of bytes its increments stood for: together   *)
(* with ClaimedOnce, no byte is counted twice and none is counted back.    *)
(***************************************************************************)
CountExact == IsFiniteSet(counted) /\ bytes = Cardinality(counted)

\* The inductive invariant behind the theorems of ProgressListenerProofs.
IInv ==
  /\ TypeOK
  /\ EventReal
  /\ NewsOnly
  /\ LastReal
  /\ LastCovers
  /\ ClaimedOnce
  /\ NewestKnown
  /\ CountExact

(***************************************************************************)
(* "concurrent/out-of-order part events never double-count or move         *)
(* backwards" - nor do they lose bytes: whenever no event is being         *)
(* handled, prog.Bytes is the number of bytes transferred.                 *)
(***************************************************************************)
CaughtUp ==
  (\A t \in Threads : pc[t] = "idle") =>
    counted = Transferred /\ bytes = Cardinality(Transferred)

(***************************************************************************)
(* The listeners of all objects together keep the contract of prog.Bytes.  *)
(***************************************************************************)
LC == INSTANCE LiveCounter WITH transferred <- Transferred
ImplementsLiveCounter == LC!Spec

(***************************************************************************)
(* The compare-and-swap loop ends: it can only be sent round again by      *)
(* another event of the same object, and an object has finitely many bytes.*)
(***************************************************************************)
HandlersFinish == \A t \in Threads : pc[t] # "idle" ~> pc[t] = "idle"

=============================================================================
