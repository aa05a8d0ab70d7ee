---------------------------- MODULE AdaptiveDepth ----------------------------
(***************************************************************************)
(* How deep the engine speculates: SpeculationScheduler::plan_proposal     *)
(* (src/core/fabric.cpp) and AdaptiveDepth (core/policy.hpp,               *)
(* src/core/policy.cpp).  One scheduler serves all requests: a depth is    *)
(* planned when a cycle is admitted, and the acceptance ratio of a cycle   *)
(* is recorded when it settles, after any number of others.                *)
(*                                                                         *)
(* A ratio accepted/length is held in whole units of 1/Units, so that the  *)
(* averages are exact.  The code's doubles differ from them by less than   *)
(* a rounding step, which can matter only where llround is handed a tie:   *)
(* there either neighbour is allowed.  run_cycle plans with no memory      *)
(* headroom (0) and no saturation (0.0), so those two factors are 1.       *)
(***************************************************************************)
EXTENDS Integers, Sequences, FiniteSetsExt

CONSTANTS
    Cycles,             \* the cycles that may be in flight together
    MaxDepth,           \* ProposalPolicy::max_depth
    Window,             \* AdaptiveDepth::window_ (32)
    AdaptiveEnabled,    \* ProposalPolicy::adaptive_depth_enabled
    Interactive,        \* ProposalPolicy::latency_class is Interactive
    Units               \* units per ratio of 1

ASSUME DepthConstants ==
    /\ MaxDepth \in Nat \ {0} /\ Window \in Nat \ {0}
    /\ AdaptiveEnabled \in BOOLEAN /\ Interactive \in BOOLEAN
    /\ Units \in Nat \ {0} /\ \A n \in 1..MaxDepth : Units % n = 0

VARIABLES
    history,            \* AdaptiveDepth::history_
    planned,            \* the depth of each cycle in flight, 0 if none
    streak              \* history: the full acceptances since the last other one

vars == <<history, planned, streak>>

Init ==
    /\ history = <<>>
    /\ planned = [c \in Cycles |-> 0]
    /\ streak = 0
-----------------------------------------------------------------------------
SumOf(h) ==
    LET sum[i \in 0..Len(h)] == IF i = 0 THEN 0 ELSE sum[i - 1] + h[i]
    IN sum[Len(h)]

\* The values llround(x / y) may take.
Rounded(x, y) ==
    {k \in 0..(x \div y + 1) : 2 * k * y - 2 * x <= y /\ 2 * x - 2 * k * y <= y}

Clamped(d) == IF d < 1 THEN 1 ELSE IF d > MaxDepth THEN MaxDepth ELSE d

\* Mutant: the middle segment starts too low.
ScaledLowMiddle(s, n) ==
    LET one == n * Units
    IN IF 5 * s >= 4 * one THEN {MaxDepth}
       ELSE IF 2 * s >= one THEN Rounded(MaxDepth * (4 * s - one), 3 * one)
       ELSE Rounded(MaxDepth * (3 * one + 6 * s), 10 * one)

\* max_depth * f, rounded, for n ratios that sum to s: with r their average,
\* f is 1 from 0.8 on, 0.6 + 0.4 * (r - 0.5) / 0.3 from 0.5 on, and
\* 0.3 + 0.3 * r / 0.5 below.
Scaled(s, n) ==
    LET one == n * Units
    IN IF 5 * s >= 4 * one THEN {MaxDepth}
       ELSE IF 2 * s >= one THEN Rounded(MaxDepth * (20 * s - one), 15 * one)
       ELSE Rounded(MaxDepth * (3 * one + 6 * s), 10 * one)

\* choose_depth
ChooseDepth(h) ==
    IF h = <<>> THEN {MaxDepth} ELSE {Clamped(d) : d \in Scaled(SumOf(h), Len(h))}

\* plan_proposal: the adaptive depth replaces the cap of the Interactive class.
PlanDepth(h) ==
    IF AdaptiveEnabled THEN ChooseDepth(h)
    ELSE {IF Interactive /\ MaxDepth > 2 THEN 2 ELSE MaxDepth}

Plan(c) ==
    /\ planned[c] = 0
    /\ \E d \in PlanDepth(history) : planned' = [planned EXCEPT ![c] = d]
    /\ UNCHANGED <<history, streak>>

\* What run_cycle records: accepted_prefix / candidate_len, 0 for no candidate.
Ratio(acc, len) == IF len = 0 THEN 0 ELSE acc * (Units \div len)

\* Mutant: the oldest ratios kept when the window is full.
PushKeepOldest(h, r) == IF Len(h) = Window THEN h ELSE Append(h, r)

\* record: the oldest ratio leaves a full window.
Push(h, r) ==
    LET g == Append(h, r) IN IF Len(g) > Window THEN Tail(g) ELSE g

\* The cycle settles with acc tokens accepted of a candidate as long as planned,
\* or of none.
Record(c, acc, len) ==
    /\ planned[c] # 0
    /\ acc <= len /\ len \in {0, planned[c]}
    /\ history' = Push(history, Ratio(acc, len))
    /\ streak' = IF acc = len /\ len # 0 THEN IF streak < Window THEN streak + 1 ELSE streak
                 ELSE 0
    /\ planned' = [planned EXCEPT ![c] = 0]

\* The cycle ends without a settlement: an executor's error, a closed request.
Abandon(c) ==
    /\ planned[c] # 0
    /\ planned' = [planned EXCEPT ![c] = 0]
    /\ UNCHANGED <<history, streak>>

Next ==
    \E c \in Cycles :
        \/ Plan(c)
        \/ \E len \in 0..MaxDepth : \E acc \in 0..len : Record(c, acc, len)
        \/ Abandon(c)

Spec == Init /\ [][Next]_vars
-----------------------------------------------------------------------------
(***************************************************************************)
(* Properties                                                              *)
(***************************************************************************)

\* After a whole window of full acceptances the next depth is max_depth again,
\* however bad the history was and whatever cycles overlapped
\* (AdaptiveDepth::record, choose_depth).
RecoversAfterWindow ==
    AdaptiveEnabled /\ streak >= Window => PlanDepth(history) = ChooseDepth(<<>>)

\* A settled cycle moves the depth its own way across the three segments of
\* choose_depth: a full acceptance never makes the next proposal shallower, a
\* total rejection never deeper, although the ratio that leaves the window may
\* have been anything.
DepthFollowsAcceptance ==
    [][history' # history =>
          LET r == history'[Len(history')] IN
          /\ r = Units => Max(PlanDepth(history')) >= Max(PlanDepth(history))
          /\ r = 0     => Min(PlanDepth(history')) <= Min(PlanDepth(history))]_vars
=============================================================================
