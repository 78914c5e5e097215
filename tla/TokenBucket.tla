---------------------------- MODULE TokenBucket ----------------------------
(***************************************************************************)
(* What create-path limiting promises (docs/NAMESPACES.md): every client   *)
(* has a bucket of its own that is full at first, refills with time up to  *)
(* that, and pays for each create; nobody else's creates and no            *)
(* housekeeping of the table show in it.  Levels are counted in units that *)
(* refill one per tick, so a create costs Cost of them.                    *)
(***************************************************************************)
EXTENDS Integers

CONSTANTS Keys, Full, Cost

VARIABLES
  level,     \* [Keys -> 0..Full]
  verdict    \* the last decision

bucket == <<level, verdict>>

After(k, d) == IF level[k] + d < Full THEN level[k] + d ELSE Full

Init == /\ level = [k \in Keys |-> Full]
        /\ verdict = [key |-> "nobody", ok |-> FALSE]

\* d units of time after the last decision, k asks to create a link.
Ask(k, d) ==
  \/ /\ After(k, d) >= Cost
     /\ verdict' = [key |-> k, ok |-> TRUE]
     /\ level' = [j \in Keys |-> IF j = k THEN After(k, d) - Cost ELSE After(j, d)]
  \/ /\ After(k, d) < Cost
     /\ verdict' = [key |-> k, ok |-> FALSE]
     /\ level' = [j \in Keys |-> After(j, d)]

\* After Full units every bucket is full, so no longer pause needs a step.
Next == \E k \in Keys, d \in 0..Full : Ask(k, d)

Spec == Init /\ [][Next]_bucket
=============================================================================
