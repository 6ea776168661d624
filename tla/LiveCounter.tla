----------------------------- MODULE LiveCounter -----------------------------
(***************************************************************************)
(* What the sampler, the watchdog and the progress line may rely on when   *)
(* they read prog.Bytes (internal/metrics/progress.go: "cumulative bytes   *)
(* transferred across the whole run"): it starts at zero, it never goes    *)
(* back, and every increment stands for that many transferred bytes none   *)
(* of which was counted before.                                            *)
(***************************************************************************)
EXTENDS Integers, FiniteSets

VARIABLES
  transferred,  \* the bytes transferred so far, a finite set
  counted,      \* those among them that the counter stands for
  bytes         \* prog.Bytes

vars == <<transferred, counted, bytes>>

Init ==
  /\ transferred = {}
  /\ counted = {}
  /\ bytes = 0

Transfer ==
  /\ transferred \subseteq transferred'
  /\ UNCHANGED <<counted, bytes>>

Count ==
  /\ counted \subseteq counted'
  /\ counted' \subseteq transferred
  /\ bytes' = bytes + Cardinality(counted' \ counted)
  /\ UNCHANGED transferred

Next == Transfer \/ Count

Spec == Init /\ [][Next]_vars

=============================================================================
