---------------------------- MODULE RateLimiter ----------------------------
(***************************************************************************)
(* server/src/ratelimit.rs: a token bucket per client address, in a map    *)
(* behind a mutex.  Create handlers on different worker threads call       *)
(* allow at the same time, and allow reads the clock before it takes the   *)
(* lock: the read and the locked section are two steps.                    *)
(*                                                                         *)
(* Tokens are counted in units of 1/Cost, so that one unit comes back per  *)
(* tick: with ticks of a second the code's BURST is 10 and its Cost 6.     *)
(* The arithmetic is exact where the code's is f64.                        *)
(***************************************************************************)
EXTENDS Integers, FiniteSets

CONSTANTS
  Keys,      \* client addresses (the last X-Forwarded-For entry)
  Threads,   \* worker threads of the runtime
  Burst,     \* BURST
  Cost,      \* 1 / REFILL_PER_SEC
  PruneAt,   \* PRUNE_AT
  Horizon    \* bound: the clock stops here

ASSUME LimiterAssumption ==
  /\ Burst \in Nat \ {0} /\ Cost \in Nat \ {0}
  /\ PruneAt \in Nat /\ Horizon \in Nat

VARIABLES
  buckets,   \* the map: a function on the keys it holds
  now,       \* the monotonic clock
  stamp,     \* what a thread inside allow read from it, or Unread
  verdict,   \* the last decision
  clock,     \* history: the latest stamp a decision was made with
  since,     \* history: any one time, the beginning of the window looked at
  spent      \* history: the units each key has paid since then

vars == <<buckets, now, stamp, verdict, clock, since, spent>>

Unread == -1
Full   == Burst * Cost
Times  == 0..Horizon
Bucket == [tokens : 0..Full, last : Times]

\* Instant::duration_since is zero, not negative, for a later instant.
Elapsed(s, last) == IF s > last THEN s - last ELSE 0

\* Mutated: the map is pruned one entry late; a bucket counts as refilled early.
RetainedLate(s) ==
  {k \in DOMAIN buckets : Cardinality(DOMAIN buckets) > PruneAt
                            => Elapsed(s, buckets[k].last) < Full}
RetainedBrief(s) ==
  {k \in DOMAIN buckets : Cardinality(DOMAIN buckets) >= PruneAt
                            => Elapsed(s, buckets[k].last) < Full - Cost}

\* map.retain: at PRUNE_AT entries or more, the fully refilled ones go.
Retained(s) ==
  {k \in DOMAIN buckets : Cardinality(DOMAIN buckets) >= PruneAt
                            => Elapsed(s, buckets[k].last) < Full}

\* map.entry(key).or_insert.
Entry(k, s) == IF k \in Retained(s) THEN buckets[k] ELSE [tokens |-> Full, last |-> s]

\* Mutated: the refill is not capped at the burst.
RefilledUncapped(k, s) == Entry(k, s).tokens + Elapsed(s, Entry(k, s).last)

Refilled(k, s) == LET sum == Entry(k, s).tokens + Elapsed(s, Entry(k, s).last)
                  IN  IF sum < Full THEN sum ELSE Full

Paid(k, s, price) == IF s >= since THEN [spent EXCEPT ![k] = @ + price] ELSE spent

ReadClock(t) ==
  /\ stamp[t] = Unread
  /\ stamp' = [stamp EXCEPT ![t] = now]
  /\ UNCHANGED <<buckets, now, verdict, clock, since, spent>>

\* The section under the lock, with the clock as the thread read it.
Decide(t, k, ok, price) ==
  LET s == stamp[t] IN
  /\ buckets' = [j \in Retained(s) \cup {k} |->
                   IF j = k THEN [tokens |-> Refilled(k, s) - price, last |-> s]
                            ELSE buckets[j]]
  /\ verdict' = [key |-> k, ok |-> ok]
  /\ spent' = Paid(k, s, price)
  /\ clock' = IF s > clock THEN s ELSE clock
  /\ stamp' = [stamp EXCEPT ![t] = Unread]
  /\ UNCHANGED <<now, since>>

Grant(t, k) == /\ stamp[t] # Unread
               /\ Refilled(k, stamp[t]) >= Cost
               /\ Decide(t, k, TRUE, Cost)

\* 429: the bucket keeps what it has, refilled up to the stamp.
Deny(t, k) == /\ stamp[t] # Unread
              /\ Refilled(k, stamp[t]) < Cost
              /\ Decide(t, k, FALSE, 0)

Tick == /\ now < Horizon
        /\ now' = now + 1
        /\ UNCHANGED <<buckets, stamp, verdict, clock, since, spent>>

Init == /\ buckets = [k \in {} |-> [tokens |-> 0, last |-> 0]]
        /\ now = 0
        /\ stamp = [t \in Threads |-> Unread]
        /\ verdict = [key |-> "nobody", ok |-> FALSE]
        /\ clock = 0
        /\ since \in Times
        /\ spent = [k \in Keys |-> 0]

Next == \/ \E t \in Threads : ReadClock(t)
        \/ \E t \in Threads, k \in Keys : Grant(t, k) \/ Deny(t, k)
        \/ Tick

Spec == Init /\ [][Next]_vars
-----------------------------------------------------------------------------
(***************************************************************************)
(* The promise, with what is in the map and what was pruned from it hidden *)
(* behind the level a bucket has by the last decision.                     *)
(***************************************************************************)
LevelOf(k) ==
  IF k \in DOMAIN buckets
    THEN LET sum == buckets[k].tokens + (clock - buckets[k].last)
         IN  IF sum < Full THEN sum ELSE Full
    ELSE Full

Promise == INSTANCE TokenBucket WITH level <- [k \in Keys |-> LevelOf(k)]

(***************************************************************************)
(* Types: the map is a function on some of the keys.                       *)
(***************************************************************************)
TypeOK == /\ DOMAIN buckets \subseteq Keys
          /\ buckets \in [DOMAIN buckets -> Bucket]
          /\ now \in Times
          /\ stamp \in [Threads -> Times \cup {Unread}]
          /\ clock \in Times
          /\ since \in Times
          /\ spent \in [Keys -> Nat]

(***************************************************************************)
(* The rate that ratelimit.rs advertises, over every window: from any time *)
(* to any later decision a client is granted at most BURST creates plus    *)
(* one for each token refilled meanwhile, whatever was pruned.             *)
(***************************************************************************)
WindowBound == \A k \in Keys : clock >= since => spent[k] <= Full + (clock - since)

(***************************************************************************)
(* Memory: the map outgrows PRUNE_AT only by clients that have asked       *)
(* within the last BURST / REFILL_PER_SEC seconds.                         *)
(***************************************************************************)
OnlyActiveBeyondPruneAt ==
  Cardinality(DOMAIN buckets) > PruneAt =>
    \A k \in DOMAIN buckets : clock - buckets[k].last < Full

(***************************************************************************)
(* The limiter with its pruned map behaves as one unpruned bucket per      *)
(* client: keys are independent, a denial costs nothing, and forgetting a  *)
(* bucket is never noticed.                                                *)
(***************************************************************************)
KeepsPromise == Promise!Spec

(***************************************************************************)
(* The inductive invariant: a thread inside allow read the clock no        *)
(* earlier than the last decision (so with one worker thread), no bucket   *)
(* is dated later, and what a client has spent in a window is covered by   *)
(* what its bucket has lost.                                               *)
(***************************************************************************)
InOrder == \A t \in Threads : stamp[t] # Unread => stamp[t] \in clock..now

IInv == /\ TypeOK
        /\ InOrder
        /\ clock <= now
        /\ \A k \in DOMAIN buckets : buckets[k].last <= clock
        /\ \A k \in Keys : IF clock >= since
                             THEN spent[k] + LevelOf(k) <= Full + (clock - since)
                             ELSE spent[k] = 0
=============================================================================
