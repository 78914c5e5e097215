----------------------------- MODULE LinkTable -----------------------------
(***************************************************************************)
(* The `links` table of server/src/db.rs, at the level of its SQL          *)
(* statements.  A member of Links is one row over its whole life (the      *)
(* autoincrement id): it is "unused" until an INSERT takes it, "stored"    *)
(* while the row exists and "freed" once the reaper has deleted it, so two *)
(* links that bore the same name at different times stay distinguishable.  *)
(*                                                                         *)
(* Every statement is one atomic step of SQLite; the handlers of           *)
(* LinkService say in which order a request issues them.  `now` is the     *)
(* clock both datetime('now') and now_unix() read, in whole seconds.       *)
(***************************************************************************)
EXTENDS Naturals, FiniteSets

CONSTANTS
  Links,    \* row identities
  Names,    \* the words a link can be called by (case folded: COLLATE NOCASE)
  None      \* SQL NULL, and "nothing" wherever a field may be empty

ASSUME NoneAssumption == None \notin Links \cup Names

VARIABLES
  row,      \* the table: [Links -> Row]
  now       \* the clock

Row == [stage     : {"unused", "stored", "freed"},
        name      : Names \cup {None},
        once      : BOOLEAN,     \* max_uses = 1; otherwise max_uses is NULL
        owned     : BOOLEAN,     \* creator_token_hash is not NULL
        expires   : Nat,         \* expires_at
        uses      : Nat,
        withdrawn : BOOLEAN,
        blank     : BOOLEAN]     \* content = '' (validation refuses it at creation)

Unused == [stage |-> "unused", name |-> None, once |-> FALSE, owned |-> FALSE,
           expires |-> 0, uses |-> 0, withdrawn |-> FALSE, blank |-> FALSE]

TableTypeOK == /\ row \in [Links -> Row]
               /\ now \in Nat

Stored(l)    == row[l].stage = "stored"
Unexpired(l) == Stored(l) /\ row[l].expires > now

\* Mutated: the use limit is not compared.
LiveUnlimited(l) == Unexpired(l) /\ ~ row[l].withdrawn

(***************************************************************************)
(* LIVE_PREDICATE: not past expires_at, not over max_uses, not withdrawn.  *)
(***************************************************************************)
Live(l) == /\ Unexpired(l)
           /\ row[l].once => row[l].uses < 1
           /\ ~ row[l].withdrawn

Called(n) == {l \in Links : Stored(l) /\ row[l].name = n}

(***************************************************************************)
(* SELECT ... WHERE name = ?: the three row sets a read can return.  Each  *)
(* has at most one member, because name is UNIQUE.                         *)
(***************************************************************************)
get_link_live(n) == {l \in Called(n) : Live(l)}
get_link_any(n)  == {l \in Called(n) : Unexpired(l)}
Redactable(n)    == {l \in Called(n) : Unexpired(l) /\ ~ row[l].blank}

\* Mutated: any creator token opens any owned row of the name.
MatchingAnyToken(n, key) == {l \in Called(n) : row[l].owned /\ key # None}

(***************************************************************************)
(* SELECT 1 ... WHERE name = ? AND creator_token_hash = ?.  A creator      *)
(* token is 256 random bits, so it is named by the one link it was made    *)
(* for; a row without a hash matches none.                                 *)
(***************************************************************************)
Matching(n, key) == {l \in Called(n) : row[l].owned /\ l = key}

(***************************************************************************)
(* UPDATE ... SET uses = uses + 1, content = '', withdrawn = 1, and DELETE *)
(* for the rows in S.                                                      *)
(***************************************************************************)
Spend(S)  == [l \in Links |-> IF l \in S THEN [row[l] EXCEPT !.uses = @ + 1] ELSE row[l]]
Redact(S) == [l \in Links |-> IF l \in S THEN [row[l] EXCEPT !.blank = TRUE] ELSE row[l]]
Mark(S)   == [l \in Links |-> IF l \in S THEN [row[l] EXCEPT !.withdrawn = TRUE] ELSE row[l]]
Free(S)   == [l \in Links |-> IF l \in S THEN [row[l] EXCEPT !.stage = "freed"] ELSE row[l]]

\* Mutated: the sweep also takes dead rows early; and it leaves withdrawn ones.
ExpiredOrDead     == {l \in Links : Stored(l) /\ ~ Live(l)}
ExpiredUnwithdrawn == {l \in Links : Stored(l) /\ row[l].expires <= now /\ ~ row[l].withdrawn}

(***************************************************************************)
(* DELETE ... WHERE expires_at <= now: the rows the reaper removes.        *)
(***************************************************************************)
Expired == {l \in Links : Stored(l) /\ row[l].expires <= now}

\* Mutated: a name is taken when no live, or no unexpired, row has it.
InsertableIfNotLive(n) == get_link_live(n) = {}
InsertableIfExpired(n) == get_link_any(n) = {}

(***************************************************************************)
(* INSERT: takes an unused row for a name nobody holds.  insert_link loops *)
(* on a unique violation with a newly drawn name; only the attempt that    *)
(* succeeds changes the table, and NameAllocation follows the others.      *)
(***************************************************************************)
Insertable(n) == Called(n) = {}

Insert(l, n, isOnce, isOwned, ttl) ==
  row' = [row EXCEPT ![l] = [Unused EXCEPT !.stage   = "stored",
                                           !.name    = n,
                                           !.once    = isOnce,
                                           !.owned   = isOwned,
                                           !.expires = now + ttl]]

TableInit == /\ row = [l \in Links |-> Unused]
             /\ now = 0
=============================================================================
