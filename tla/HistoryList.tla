---------------------------- MODULE HistoryList ----------------------------
(***************************************************************************)
(* server/static/app.js: the list of links a browser remembers, its        *)
(* tombstones, and how two copies of the list are merged.                  *)
(*                                                                         *)
(* A list maps every link to its entry, Absent when it has none: entries   *)
(* are keyed by the id addHistory stamps, and their order is that of       *)
(* their creation.  No two entries have the same url.  What a row shows    *)
(* of its link's contents is left out, but for its eye (cover).            *)
(***************************************************************************)
EXTENDS Naturals

CONSTANTS
  Links,       \* the links this browser creates
  Grace,       \* FORGET_GRACE_MS
  ClearedTtl   \* CLEARED_TTL_MS

ASSUME ListAssumption == Grace \in Nat /\ ClearedTtl \in Nat

\* at: of a live entry, when its eye was last clicked (coverAt); of a forgotten
\* one with its token, when the grace ends (until); of a cleared one, clearedAt.
\* Only a live entry, and a forgotten one in its grace, keep the token.
Entry  == {e \in [state : {"none", "live", "forgotten", "gone", "deleted", "cleared"},
                  at : Nat, token : BOOLEAN] : e.token => e.state \in {"live", "forgotten"}}
Absent == [state |-> "none", at |-> 0, token |-> FALSE]
List   == [Links -> Entry]
Empty  == [i \in Links |-> Absent]

Live(tok)         == [state |-> "live", at |-> 0, token |-> tok]

Tombstone(kind)   == [state |-> kind, at |-> 0, token |-> FALSE]
InGrace(until)    == [state |-> "forgotten", at |-> until, token |-> TRUE]
ClearedMarker(s)  == [state |-> "cleared", at |-> s, token |-> FALSE]

Shown(e)   == e.state \notin {"none", "cleared"}
CoverAt(e) == IF e.state = "live" THEN e.at ELSE 0

MergeRank(e) == CASE e.state = "cleared" -> 2
                  [] e.state = "live"    -> 0
                  [] OTHER               -> 1

\* Mutated: the second copy wins ties.
WinsTies(e, prev) == MergeRank(e) >= MergeRank(prev)

\* Whether a second copy of an entry replaces the first.
Wins(e, prev) == \/ MergeRank(e) > MergeRank(prev)
                 \/ MergeRank(e) = MergeRank(prev) /\ CoverAt(e) > CoverAt(prev)

Winner(own, other) ==
  IF other.state = "none" \/ (own.state # "none" /\ ~Wins(other, own)) THEN own ELSE other

\* A certificate that has had its time is dropped.
Spent(e, now) == e.state = "cleared" /\ now > e.at + ClearedTtl
Kept(e, now)  == IF Spent(e, now) THEN Absent ELSE e

\* mergeHistories
Merge(a, b, now) == [i \in Links |-> Kept(Winner(a[i], b[i]), now)]

Lapsed(e, now) == e.state = "forgotten" /\ e.token /\ e.at <= now
Running(e)     == e.state = "forgotten" /\ e.token

\* The purge of tickForgetGrace, and whether it sets its timer again.
Purged(m, now) ==
  [i \in Links |-> IF Lapsed(m[i], now) THEN Tombstone("forgotten") ELSE m[i]]
Ticking(m) == \E i \in Links : Running(m[i])
============================================================================
