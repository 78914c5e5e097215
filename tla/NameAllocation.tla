--------------------------- MODULE NameAllocation ---------------------------
(***************************************************************************)
(* How a link gets its name: the allocation policy of core/src/link.rs,    *)
(* the insert loop of server/src/db.rs, and the occupancy counts that the  *)
(* reaper of server/src/main.rs keeps for the policy.                      *)
(*                                                                         *)
(* A name is a pair <<tier, number>>: generate_name only issues names with *)
(* one spelling (module NameDraw), so names of different tiers differ.     *)
(* Several creates run at once, and the occupancy they read is as old as   *)
(* the last sweep, or half a sweep's.                                      *)
(***************************************************************************)
EXTENDS Integers, FiniteSets

CONSTANTS
  Reqs,          \* creates in flight at once
  WordCount,     \* WORD_COUNT
  LimitedWords,  \* LIMITED_WORDS = MAX_PUBLIC_WORDS; also the tiers counted
  GrowAt,        \* COLLISION_GROW_AT
  TTLs,          \* lifetimes asked for, in seconds
  Stock,         \* bound: names a tier can issue
  Budget,        \* bound: creates and restarts in a behaviour
  MaxWords       \* bound: tiers modelled (BudgetAssumption: never left)

Tiers   == 1..MaxWords
Counted == 1..LimitedWords
Names   == Tiers \X (1..Stock)

ASSUME AllocationAssumption ==
  /\ WordCount \in Nat \ {0} /\ LimitedWords \in Nat \ {0} /\ GrowAt \in Nat \ {0}
  /\ TTLs \subseteq Nat
  /\ Stock \in Nat \ {0} /\ Budget \in Nat \ {0} /\ MaxWords \in Nat

\* A tier is only left when somebody holds a name in it.
ASSUME BudgetAssumption == MaxWords >= LimitedWords + Budget - 1

VARIABLES
  held,      \* the links table: what holds each name
  occ,       \* AppState::occupancy, one atomic per tier
  req,       \* the creates in flight
  sweep,     \* the reaper: what it does next, with the counts it read
  begun,     \* bound: creates begun, and restarts
  touched    \* history: the tiers that ever held a link

vars == <<held, occ, req, sweep, begun, touched>>

\* A row is live, dead (spent or withdrawn) until it expires, then reaped.
Holders == {"free", "public", "private", "dead", "expired"}

Idle     == [pc |-> "idle", private |-> FALSE, start |-> 0, words |-> 0, collisions |-> 0]
Sleeping == [pc |-> "sleep", slot |-> 0, counts |-> [w \in Counted |-> 0]]
-----------------------------------------------------------------------------
\* occupancy_ceiling_pct: up to an hour, up to two days, longer.
Ceiling(ttl) == IF ttl <= 3600 THEN 90 ELSE IF ttl <= 172800 THEN 60 ELSE 40

tier_capacity(words) == WordCount ^ words

\* u64 in the code; the provers know no more of a power than that it is a number.
ASSUME CapacityAssumption == \A w \in Counted : tier_capacity(w) >= 0

\* public_words_for: the shortest tier below the ceiling, else the longest.
public_words_for(ttl, live) ==
  LET open == {w \in 1..LimitedWords - 1 : live[w] * 100 < tier_capacity(w) * Ceiling(ttl)}
  IN  IF open = {} THEN LimitedWords ELSE CHOOSE w \in open : \A v \in open : w <= v

\* words_for: a secret or single-use link has a name that cannot be guessed.
words_for(private, ttl, live) == IF private THEN LimitedWords ELSE public_words_for(ttl, live)

\* live_counts_by_words: tombstones and expired rows hold names but do not count.
LiveCounts == [w \in Counted |->
  Cardinality({n \in Names : n[1] = w /\ held[n] \in {"public", "private"}})]
-----------------------------------------------------------------------------
\* store_link up to insert_link's loop: the snapshot and the words it gives.
Begin(q, private, ttl) ==
  /\ req[q].pc = "idle"
  /\ begun < Budget
  /\ begun' = begun + 1
  /\ LET w == words_for(private, ttl, occ)
     IN  req' = [req EXCEPT ![q] = [pc |-> "try", private |-> private, start |-> w,
                                    words |-> w, collisions |-> 0]]
  /\ UNCHANGED <<held, occ, sweep, touched>>

\* Mutated: the valve opens one collision late.
GrownLate(r)  == IF r.collisions > 0 /\ r.collisions % GrowAt = 0 THEN r.words + 1 ELSE r.words

\* The valve: a word more after every GrowAt collisions, this one included.
Grown(r) == IF (r.collisions + 1) % GrowAt = 0 THEN r.words + 1 ELSE r.words

\* One round of the loop, with any name generate_name may draw.
Insert(q, n) ==
  /\ req[q].pc = "try"
  /\ n[1] = req[q].words
  /\ held[n] = "free"
  /\ held' = [held EXCEPT ![n] = IF req[q].private THEN "private" ELSE "public"]
  /\ touched' = touched \cup {n[1]}
  /\ req' = [req EXCEPT ![q] = Idle]
  /\ UNCHANGED <<occ, sweep, begun>>

\* Mutated: the counter starts anew in every round.
CollideAnew(q, n) ==
  /\ req[q].pc = "try"
  /\ n[1] = req[q].words
  /\ held[n] # "free"
  /\ req' = [req EXCEPT ![q].collisions = 0, ![q].words = Grown(req[q])]
  /\ UNCHANGED <<held, occ, sweep, begun, touched>>

Collide(q, n) ==
  /\ req[q].pc = "try"
  /\ n[1] = req[q].words
  /\ held[n] # "free"
  /\ req' = [req EXCEPT ![q].collisions = @ + 1, ![q].words = Grown(req[q])]
  /\ UNCHANGED <<held, occ, sweep, begun, touched>>

\* A failed statement, or a client that hung up: the create is over.
Abandon(q) ==
  /\ req[q].pc = "try"
  /\ req' = [req EXCEPT ![q] = Idle]
  /\ UNCHANGED <<held, occ, sweep, begun, touched>>

\* A use is spent or the creator withdraws; time passes.
Die(n) == /\ held[n] \in {"public", "private"}
          /\ held' = [held EXCEPT ![n] = "dead"]
          /\ UNCHANGED <<occ, req, sweep, begun, touched>>

Expire(n) == /\ held[n] \in {"public", "private", "dead"}
             /\ held' = [held EXCEPT ![n] = "expired"]
             /\ UNCHANGED <<occ, req, sweep, begun, touched>>
-----------------------------------------------------------------------------
\* spawn_reaper: DELETE, then the counts, then one store per tier.  Either
\* statement may fail; a failed count leaves the old occupancy.
Reap ==
  /\ sweep.pc = "sleep"
  /\ held' = [n \in Names |-> IF held[n] = "expired" THEN "free" ELSE held[n]]
  /\ sweep' = [sweep EXCEPT !.pc = "count"]
  /\ UNCHANGED <<occ, req, begun, touched>>

ReapFails ==
  /\ sweep.pc = "sleep"
  /\ sweep' = [sweep EXCEPT !.pc = "count"]
  /\ UNCHANGED <<held, occ, req, begun, touched>>

Count ==
  /\ sweep.pc = "count"
  /\ sweep' = [pc |-> "store", slot |-> 1, counts |-> LiveCounts]
  /\ UNCHANGED <<held, occ, req, begun, touched>>

CountFails ==
  /\ sweep.pc = "count"
  /\ sweep' = Sleeping
  /\ UNCHANGED <<held, occ, req, begun, touched>>

\* Mutated: the last tier is not stored.
AfterStoreShort == IF sweep.slot >= LimitedWords - 1 THEN Sleeping
                   ELSE [sweep EXCEPT !.slot = @ + 1]

AfterStore == IF sweep.slot = LimitedWords THEN Sleeping ELSE [sweep EXCEPT !.slot = @ + 1]

Store ==
  /\ sweep.pc = "store"
  /\ occ' = [occ EXCEPT ![sweep.slot] = sweep.counts[sweep.slot]]
  /\ sweep' = AfterStore
  /\ UNCHANGED <<held, req, begun, touched>>

\* main: seeded once before serving, or zero when the count fails.
Restart ==
  /\ begun < Budget
  /\ begun' = begun + 1
  /\ occ' \in {LiveCounts, [w \in Counted |-> 0]}
  /\ req' = [q \in Reqs |-> Idle]
  /\ sweep' = Sleeping
  /\ UNCHANGED <<held, touched>>
-----------------------------------------------------------------------------
Init == /\ held = [n \in Names |-> "free"]
        /\ occ = [w \in Counted |-> 0]
        /\ req = [q \in Reqs |-> Idle]
        /\ sweep = Sleeping
        /\ begun = 0
        /\ touched = {}

Attempt(q) == \E n \in Names : Insert(q, n) \/ Collide(q, n)

Next == \/ \E q \in Reqs, private \in BOOLEAN, ttl \in TTLs : Begin(q, private, ttl)
        \/ \E q \in Reqs : Attempt(q) \/ Abandon(q)
        \/ \E n \in Names : Die(n) \/ Expire(n)
        \/ Reap \/ ReapFails \/ Count \/ CountFails \/ Store \/ Restart

Spec == Init /\ [][Next]_vars

(***************************************************************************)
(* Fairness: the runtime runs every create; the reaper's loop never ends,  *)
(* and the database errors that spoil a sweep do not go on for ever.       *)
(***************************************************************************)
Fairness == /\ \A q \in Reqs : WF_vars(Attempt(q))
            /\ WF_vars(Reap \/ ReapFails) /\ SF_vars(Reap)
            /\ WF_vars(Count \/ CountFails) /\ SF_vars(Count)
            /\ WF_vars(Store)

FairSpec == Spec /\ Fairness
-----------------------------------------------------------------------------
(***************************************************************************)
(* Types.  `words` staying a tier says that no create outruns the tiers    *)
(* that are in use: a draw from an unused tier cannot collide.             *)
(***************************************************************************)
TypeOK ==
  /\ held \in [Names -> Holders]
  /\ occ \in [Counted -> Nat]
  /\ req \in [Reqs -> [pc : {"idle", "try"}, private : BOOLEAN, start : 0..LimitedWords,
                       words : 0..MaxWords, collisions : Nat]]
  /\ \A q \in Reqs : req[q].pc = "try" => req[q].start \in Counted /\ req[q].words \in Tiers
  /\ sweep \in [pc : {"sleep", "count", "store"}, slot : 0..LimitedWords, counts : [Counted -> Nat]]
  /\ sweep.pc = "store" => sweep.slot \in Counted
  /\ begun \in 0..Budget
  /\ touched \subseteq Tiers

(***************************************************************************)
(* A secret or single-use link is never stored under a name short enough   *)
(* to guess, whatever the occupancy said and however often it collided.    *)
(***************************************************************************)
PrivateStaysLong ==
  \A n \in Names : held[n] = "private" => n[1] >= LimitedWords

(***************************************************************************)
(* docs/NAMESPACES.md: "heavy creation just lengthens everyone's names,    *)
(* never denies one".  However unlucky its draws, a create makes at most   *)
(* GrowAt of them in each tier that ever held a link, and then moves on.   *)
(***************************************************************************)
TriesBounded == \A q \in Reqs : req[q].pc = "try" =>
  LET r == req[q] IN
  /\ r.start..(r.words - 1) \subseteq touched
  /\ r.collisions < GrowAt * (r.words - r.start + 1)
  /\ r.collisions > GrowAt * (r.words - r.start) => r.words \in touched

(***************************************************************************)
(* docs/NAMESPACES.md: shorter-lived links have priority on the short      *)
(* names.  Whatever occupancy a create may find, a longer life never gets  *)
(* a shorter name than a shorter life would.                               *)
(***************************************************************************)
ShortLivedFirst == \A s, t \in TTLs : s <= t => public_words_for(s, occ) <= public_words_for(t, occ)

(***************************************************************************)
(* What holds of the allocation whenever a create looks at it.             *)
(***************************************************************************)
PolicyHolds == TypeOK /\ PrivateStaysLong /\ TriesBounded /\ ShortLivedFirst

(***************************************************************************)
(* Every create ends, with a name or by its client's leaving.              *)
(***************************************************************************)
CreateEnds == \A q \in Reqs : req[q].pc = "try" ~> req[q].pc = "idle"

(***************************************************************************)
(* Once creates and restarts are over, the policy's occupancy becomes what *)
(* the table holds live, and tombstones do not distort it for good.        *)
(***************************************************************************)
OccupancySettles == <>[](occ = LiveCounts)
=============================================================================
