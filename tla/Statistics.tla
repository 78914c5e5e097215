----------------------------- MODULE Statistics -----------------------------
(***************************************************************************)
(* The anonymous counters (db.rs) and the page that shows them (web.rs).   *)
(* A handler counts after the fact it counts, one tally at a time; each    *)
(* write takes the day of the database's clock as it runs, may fail alone, *)
(* and is lost with the process.  The page is read in two statements.      *)
(***************************************************************************)
EXTENDS Naturals, Sequences, Functions

CONSTANTS
  Handlers,     \* requests and the reaper, as they run
  RECENT_DAYS,  \* days on the page (7)
  MaxDay,       \* bound: days that pass
  Traffic,      \* bound: the facts that come about, of Facts
  MaxEvents     \* bound: how many of them are counted

VARIABLES
  today,     \* the UTC day
  happened,  \* facts, by the day they came about
  stats,     \* the table: counts by day and metric; no row is a zero
  pend,      \* what each handler has still to count
  lost,      \* counts dropped, by metric
  reading    \* the totals a page has read; sound: read, and no count came since

stat_vars == <<today, happened, stats, pend, lost, reading>>

Types   == {"created_public", "created_secret", "created_once"}
Kinds   == {"created_redirect", "created_text"}
Metrics == Types \cup Kinds \cup {"opened", "previewed", "revealed", "expired"}
Days    == 1..MaxDay

NotReading == [at |-> "none", totals |-> <<>>, sound |-> TRUE]
None == [m \in Metrics |-> 0]
Total(table, m) == SumFunction([d \in DOMAIN table |-> table[d][m]])
-----------------------------------------------------------------------------
(* What the handlers count, in the order of their calls. *)
One(metric) == [metric |-> metric, n |-> 1]

Facts ==
  {<<One(type), One(kind)>> : type \in Types, kind \in Kinds}          \* insert_link
  \cup {<<One("opened")>>, <<One("previewed")>>}                       \* a text view, a preview
  \cup {<<One("opened"), One("revealed")>>}                            \* consume_link, then reveal
  \cup {<<[metric |-> "expired", n |-> n]>> : n \in 1..2}              \* reap_expired

Owed(counts, m) == SumFunction([i \in DOMAIN counts |-> IF counts[i].metric = m THEN counts[i].n ELSE 0])

Happens(h, fact) ==
  /\ pend[h] = <<>>
  /\ SumFunction([m \in Metrics |-> Total(happened, m)]) < MaxEvents
  /\ happened' = [happened EXCEPT ![today] = [m \in Metrics |-> @[m] + Owed(fact, m)]]
  /\ pend' = [pend EXCEPT ![h] = fact]
  /\ UNCHANGED <<today, stats, lost, reading>>

\* Mutated: the day's row is replaced.
replace_by(table, metric, n) == [table EXCEPT ![today][metric] = n]

\* INSERT .. ON CONFLICT DO UPDATE, on the day it runs.
bump_by(table, metric, n) == [table EXCEPT ![today][metric] = @ + n]

\* A failing write is dropped, and the next is tried.
Bump(h) ==
  /\ pend[h] # <<>>
  /\ pend' = [pend EXCEPT ![h] = Tail(@)]
  /\ LET c == Head(pend[h]) IN
     \/ /\ stats' = bump_by(stats, c.metric, c.n)
        /\ reading' = [reading EXCEPT !.sound = reading.at = "none"]
        /\ UNCHANGED lost
     \/ lost' = [lost EXCEPT ![c.metric] = @ + c.n] /\ UNCHANGED <<stats, reading>>
  /\ UNCHANGED <<today, happened>>

Pending(m) == SumFunction([h \in Handlers |-> Owed(pend[h], m)])

Restart ==
  /\ lost' = [m \in Metrics |-> lost[m] + Pending(m)]
  /\ pend' = [h \in Handlers |-> <<>>]
  /\ reading' = NotReading
  /\ pend # pend' \/ reading # reading'
  /\ UNCHANGED <<today, happened, stats>>

Midnight == today < MaxDay /\ today' = today + 1 /\ UNCHANGED <<happened, stats, pend, lost, reading>>
-----------------------------------------------------------------------------
(* The page. *)
stat_totals == [m \in Metrics |-> Total(stats, m)]

Recent(d) == d + RECENT_DAYS > today

stat_recent == {d \in Days : Recent(d) /\ stats[d] # None}

CreatedOf(tallies) == SumFunctionOnSet(tallies, Types)

\* One row a day that has any tally.
Rows == [d \in stat_recent |-> [created |-> CreatedOf(stats[d]), opened |-> stats[d]["opened"]]]

\* A read that fails shows nothing rather than an error.
ReadTotals(ok) ==
  /\ reading.at = "none"
  /\ reading' = [at |-> "totals", totals |-> IF ok THEN stat_totals ELSE None, sound |-> ok]
  /\ UNCHANGED <<today, happened, stats, pend, lost>>

\* The page as it would come out now.
stats_page(ok) == [totals |-> reading.totals, days |-> IF ok THEN Rows ELSE <<>>, sound |-> reading.sound /\ ok]

ShowPage ==
  /\ reading.at = "totals" /\ reading' = NotReading
  /\ UNCHANGED <<today, happened, stats, pend, lost>>
-----------------------------------------------------------------------------
StatInit ==
  /\ today = 1 /\ happened = [d \in Days |-> None] /\ stats = happened
  /\ pend = [h \in Handlers |-> <<>>] /\ lost = None
  /\ reading = NotReading

StatNext ==
  \/ \E h \in Handlers, fact \in Facts \cap Traffic : Happens(h, fact)
  \/ \E h \in Handlers : Bump(h)
  \/ Restart \/ Midnight
  \/ \E ok \in BOOLEAN : ReadTotals(ok)
  \/ ShowPage

StatSpec == StatInit /\ [][StatNext]_stat_vars
-----------------------------------------------------------------------------
Tallied == {m \in Metrics : Total(stats, m) > 0}
UpTo(table, d, m) == SumFunctionOnSet([e \in Days |-> table[e][m]], 1..d)

(***************************************************************************)
(* Every fact is counted once: it is in the table, on its way or was       *)
(* dropped, and it is never on a day before it came about.  A link's type  *)
(* is counted before its kind.                                             *)
(***************************************************************************)
CountedOnce ==
  /\ \A m \in Metrics : Total(stats, m) + Pending(m) + lost[m] = Total(happened, m)
  /\ \A m \in Tallied, d \in Days : UpTo(stats, d, m) <= UpTo(happened, d, m)
  /\ lost = None => SumFunctionOnSet(stat_totals, Kinds) <= CreatedOf(stat_totals)

(***************************************************************************)
(* A page shows each of the last days that has a tally, at most what came  *)
(* about by now; the days are not more than the totals, unless a read      *)
(* failed or a count came between the two.                                 *)
(***************************************************************************)
PageIsTrue ==
  reading.at = "totals" => \A ok \in BOOLEAN :
    LET shown   == stats_page(ok)
        opened  == SumFunction([d \in DOMAIN shown.days |-> shown.days[d].opened])
        created == SumFunction([d \in DOMAIN shown.days |-> shown.days[d].created])
    IN
    /\ DOMAIN shown.days \subseteq {d \in Days : d <= today /\ today - d < RECENT_DAYS}
    /\ \A m \in Metrics : shown.totals[m] <= Total(happened, m)
    /\ \A d \in DOMAIN shown.days : shown.days[d].opened <= UpTo(happened, d, "opened")
    /\ shown.sound => opened <= shown.totals["opened"] /\ created <= CreatedOf(shown.totals)
    /\ shown.sound /\ today <= RECENT_DAYS => opened = shown.totals["opened"] /\ created = CreatedOf(shown.totals)

TalliesAddUp == CountedOnce /\ PageIsTrue
=============================================================================
