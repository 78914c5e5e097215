------------------------------ MODULE History ------------------------------
(***************************************************************************)
(* server/static/app.js: the history of created links, in several tabs of  *)
(* one browser.  Each tab holds a list in memory; while Local History is   *)
(* on the tabs also share one in localStorage, and every write of it sends *)
(* a storage event to the other tabs.  Handlers run to completion; between *)
(* them anything may happen in another tab, an answer to a DELETE may      *)
(* arrive, a grace may lapse.                                              *)
(*                                                                         *)
(* localStorage itself, the delivery of its events, and the server are     *)
(* external.  A tab in Awake is not frozen by the browser: it handles its   *)
(* events before the clock moves on.                                       *)
(***************************************************************************)
EXTENDS HistoryList, Sequences

CONSTANTS
  Tabs,      \* the tabs of one browser
  Awake,     \* those that are never frozen
  None,      \* no link
  Horizon,   \* bound: the clock stops here
  MaxActs,   \* bound: how often the user does something
  MaxFlips   \* bound: how often that is to flip the Local History switch

ASSUME TabAssumption == /\ Awake \subseteq Tabs /\ None \notin Links
                        /\ Horizon \in Nat /\ MaxActs \in Nat /\ MaxFlips \in Nat

VARIABLES
  now,        \* Date.now
  created,    \* the links that were created
  withdrawn,  \* those the server has withdrawn
  expired,    \* those whose time is over
  saved,      \* HISTORY_KEY in localStorage
  flag,       \* PERSIST_KEY in localStorage
  events,     \* per tab: the storage events it has yet to handle
  open,       \* the tabs that are open
  on,         \* per tab: persistEnabled
  mem,        \* per tab: memHistory
  armed,      \* per tab: whether forgetGraceTimer is set
  due,        \* the tabs with a row that has expired since tickTimer last fired
  panel,      \* per tab: the link the result panel offers to delete
  requests,   \* the DELETEs under way
  acts, flips,
  dismissed   \* history: the rows each tab has seen a cleared certificate of

clock  == <<now>>
server == <<created, withdrawn, expired>>
stored == <<saved, flag>>
tabs   == <<open, on, mem, armed, panel>>
bounds == <<acts, flips>>
vars   == <<clock, server, stored, events, tabs, requests, bounds, due, dismissed>>

Nothing  == [there |-> FALSE, list |-> Empty]
Saved(m) == [there |-> TRUE, list |-> m]
Request  == [tab : Tabs, link : Links, from : {"row", "tomb", "panel"}, served : BOOLEAN]
Key      == {"history", "persist"}

\* Local History is on, nothing has been created, and every tab is open.
Init ==
  /\ now = 0
  /\ created = {} /\ withdrawn = {} /\ expired = {}
  /\ saved = Saved(Empty) /\ flag = TRUE
  /\ events = [t \in Tabs |-> <<>>]
  /\ open = Tabs
  /\ on = [t \in Tabs |-> TRUE]
  /\ mem = [t \in Tabs |-> Empty]
  /\ armed = [t \in Tabs |-> FALSE]
  /\ panel = [t \in Tabs |-> None]
  /\ requests = {} /\ due = {}
  /\ acts = 0 /\ flips = 0
  /\ dismissed = {}

-----------------------------------------------------------------------------
(* localStorage: a write that changes a value is announced to the others.  *)

Announced(q, t, keys) == [u \in Tabs |-> IF u \in open \ {t} THEN q[u] \o keys ELSE q[u]]

\* Mutated: nothing is written back; every write is announced, changed or not.
PersistNever(t, q, m, n) == saved' = saved /\ events' = q
PersistBlindly(t, q, m, n) ==
  IF on[t] THEN saved' = Saved(n) /\ events' = Announced(q, t, <<"history">>)
           ELSE saved' = saved /\ events' = q

\* persistNow, run twice in a handler, with m and then with n in memory.
PersistTwice(t, q, m, n) ==
  IF on[t]
  THEN /\ saved' = Saved(n)
       /\ events' = Announced(q, t, (IF saved # Saved(m) THEN <<"history">> ELSE <<>>)
                                    \o (IF m # n THEN <<"history">> ELSE <<>>))
  ELSE saved' = saved /\ events' = q

Persist(t, m) == PersistTwice(t, events, m, m)

-----------------------------------------------------------------------------
(* What the user does in a tab.                                            *)

Acts == acts < MaxActs /\ acts' = acts + 1 /\ UNCHANGED flips

\* The list after a handler has picked up other tabs' changes.
Adopted(t) == IF on[t] THEN Merge(mem[t], saved.list, now) ELSE mem[t]

\* Mutated: a cleared entry is found too.
FoundAny(t, i) == Adopted(t)[i].state # "none"

\* findEntry: whether there is a row to act on.
Found(t, i) == Shown(Adopted(t)[i])

\* An entry is overwritten in the list just adopted, which is then written.
Overwrite(t, i, e) ==
  LET m == [Adopted(t) EXCEPT ![i] = e]
  IN IF Found(t, i)
     THEN mem' = [mem EXCEPT ![t] = m] /\ Persist(t, m)
     ELSE mem' = [mem EXCEPT ![t] = Adopted(t)] /\ UNCHANGED <<saved, events>>

\* The result page records a link without its token; createLink has the token
\* and puts the link on the panel.
AddHistory(t, i, tok) ==
  LET m == [Adopted(t) EXCEPT ![i] = Live(tok)]
  IN /\ t \in open /\ i \notin created /\ Acts
     /\ created' = created \cup {i}
     /\ mem' = [mem EXCEPT ![t] = m]
     /\ Persist(t, m)
     /\ panel' = [panel EXCEPT ![t] = IF tok THEN i ELSE None]
     /\ UNCHANGED <<due, clock, withdrawn, expired, flag, open, on, armed, requests>>

\* The eye of a row: the list is drawn and written again, without a merge.
\* Two clicks never have the same time.
ToggleCover(t, i) ==
  LET m == [mem[t] EXCEPT ![i].at = acts + 1]
  IN /\ t \in open /\ mem[t][i].state = "live" /\ Acts
     /\ mem' = [mem EXCEPT ![t] = m]
     /\ Persist(t, m)
     /\ UNCHANGED <<due, clock, server, flag, open, on, armed, panel, requests>>

\* What forgetLink leaves of an entry.
Forgotten(i, e) ==
  IF i \in expired /\ e.state = "live" THEN Tombstone("gone")
  ELSE IF e.token THEN InGrace(now + Grace)
  ELSE Tombstone("forgotten")

\* Setting the grace's timer also purges the graces that have lapsed.
ForgetLink(t, i) ==
  LET e == Forgotten(i, Adopted(t)[i])
      m == [Adopted(t) EXCEPT ![i] = e]
      n == IF e.token THEN Purged(m, now) ELSE m
  IN /\ t \in open /\ mem[t][i].state = "live" /\ Acts
     /\ IF Found(t, i)
        THEN /\ mem' = [mem EXCEPT ![t] = n]
             /\ armed' = [armed EXCEPT ![t] = IF e.token THEN Ticking(n) ELSE @]
             /\ Persist(t, n)
        ELSE /\ mem' = [mem EXCEPT ![t] = Adopted(t)]
             /\ UNCHANGED <<saved, events, armed>>
     /\ UNCHANGED <<due, clock, server, flag, open, on, panel, requests>>

\* Delete in a row's menu or in the grace of a forgotten row (whose entry may
\* have changed since it was drawn), or on the panel, whose closure keeps the
\* token whatever becomes of the row.
Offered(t, i, from) ==
  CASE from = "row"   -> mem[t][i].state = "live" /\ mem[t][i].token
    [] from = "tomb"  -> Running(mem[t][i])
    [] from = "panel" -> panel[t] = i

ServerDelete(t, i, from) ==
  /\ t \in open /\ Offered(t, i, from) /\ Acts
  /\ \A r \in requests : ~(r.tab = t /\ r.link = i /\ r.from = from)
  /\ requests' = requests \cup {[tab |-> t, link |-> i, from |-> from, served |-> FALSE]}
  /\ UNCHANGED <<due, clock, server, stored, events, tabs>>

\* Clearing a tombstone's row.
ClearTombstone(t, i) ==
  /\ t \in open /\ Shown(mem[t][i]) /\ mem[t][i].state # "live" /\ Acts
  /\ Overwrite(t, i, ClearedMarker(now))
  /\ panel' = [panel EXCEPT ![t] = IF Found(t, i) /\ @ = i THEN None ELSE @]
  /\ UNCHANGED <<due, clock, server, flag, open, on, armed, requests>>

\* Clear All and Clear Expired leave certificates in this tab's list, without
\* a merge; Clear All stamps again those that are there.
ClearRows(t, ids) ==
  LET m == [i \in Links |-> IF i \in ids THEN ClearedMarker(now) ELSE mem[t][i]]
  IN /\ t \in open /\ Acts
     /\ mem' = [mem EXCEPT ![t] = m]
     /\ Persist(t, m)
     /\ panel' = [panel EXCEPT ![t] = IF @ \in ids THEN None ELSE @]
     /\ UNCHANGED <<due, clock, server, flag, open, on, armed, requests>>

ClearAll(t) == ClearRows(t, {i \in Links : mem[t][i].state # "none"})

ClearExpired(t) ==
  LET gone == {i \in expired : mem[t][i].state = "live"}
  IN gone # {} /\ ClearRows(t, gone)

\* setPersist: switched on, the tab's list is merged with what is saved;
\* switched off, what is saved is deleted, and the tab keeps its list.
FlipPersist(t) ==
  LET m == Merge(mem[t], saved.list, now)
  IN /\ t \in open /\ acts < MaxActs /\ flips < MaxFlips
     /\ acts' = acts + 1 /\ flips' = flips + 1
     /\ on' = [on EXCEPT ![t] = ~@]
     /\ IF on[t]
        THEN /\ flag' = FALSE /\ saved' = Nothing
             /\ events' = Announced(events, t, (IF flag THEN <<"persist">> ELSE <<>>)
                                               \o (IF saved.there THEN <<"history">> ELSE <<>>))
             /\ UNCHANGED mem
        ELSE /\ flag' = TRUE /\ saved' = Saved(m)
             /\ mem' = [mem EXCEPT ![t] = m]
             /\ events' = Announced(events, t, (IF flag THEN <<>> ELSE <<"persist">>)
                                               \o (IF saved # Saved(m) THEN <<"history">> ELSE <<>>))
     /\ UNCHANGED <<due, clock, server, open, armed, panel, requests>>

\* A page load: the saved list, if the switch is on, without what has lapsed.
Load(t) ==
  LET m == IF flag THEN Merge(saved.list, Empty, now) ELSE Empty
      n == Purged(m, now)
  IN /\ t \notin open
     /\ open' = open \cup {t}
     /\ on' = [on EXCEPT ![t] = flag]
     /\ mem' = [mem EXCEPT ![t] = n]
     /\ armed' = [armed EXCEPT ![t] = Ticking(n)]
     /\ IF flag
        THEN /\ saved' = Saved(n)
             /\ events' = Announced(events, t, (IF saved # Saved(m) THEN <<"history">> ELSE <<>>)
                                               \o (IF m # n THEN <<"history">> ELSE <<>>))
        ELSE UNCHANGED <<saved, events>>
     /\ UNCHANGED <<due, clock, server, flag, panel, requests, bounds>>

\* A closed tab is as it never was, but for what the server was already told.
CloseTab(t) ==
  /\ t \in open
  /\ open' = open \ {t}
  /\ on' = [on EXCEPT ![t] = FALSE]
  /\ mem' = [mem EXCEPT ![t] = Empty]
  /\ armed' = [armed EXCEPT ![t] = FALSE]
  /\ panel' = [panel EXCEPT ![t] = None]
  /\ events' = [events EXCEPT ![t] = <<>>]
  /\ requests' = {r \in requests : r.tab # t}
  /\ due' = due \ {t}
  /\ UNCHANGED <<clock, server, stored, bounds>>

-----------------------------------------------------------------------------
(* What happens to a tab.                                                  *)

\* Mutated: any answer counts as gone.
AnyAnswer(r) == TRUE

\* serverDelete: 204, or 404 for a link that is no longer there.
Gone(r) == r.served

\* The link is gone: the panel no longer offers it, its entry says deleted.
AnswerGone(r) ==
  /\ r \in requests /\ Gone(r)
  /\ requests' = requests \ {r}
  /\ panel' = [panel EXCEPT ![r.tab] = IF @ = r.link THEN None ELSE @]
  /\ Overwrite(r.tab, r.link, Tombstone("deleted"))
  /\ UNCHANGED <<due, clock, server, flag, open, on, armed, bounds>>

\* An error, or no answer, whatever the server did.  A forgotten row is drawn
\* again, which writes the list.
AnswerFailed(r) ==
  /\ r \in requests
  /\ requests' = requests \ {r}
  /\ IF r.from = "tomb" THEN Persist(r.tab, mem[r.tab]) ELSE UNCHANGED <<saved, events>>
  /\ UNCHANGED <<due, clock, server, flag, tabs, bounds>>

\* Mutated: the listener does not look after the graces it adopts.
HistoryEventUntimed(t, q) ==
  LET m == Merge(mem[t], saved.list, now)
  IN IF on[t]
     THEN /\ mem' = [mem EXCEPT ![t] = m]
          /\ PersistTwice(t, q, m, m)
          /\ UNCHANGED <<flag, on, armed>>
     ELSE events' = q /\ UNCHANGED <<stored, mem, armed, on>>

\* The storage event of HISTORY_KEY: merge, draw (which writes), and purge.
HistoryEvent(t, q) ==
  LET m == Merge(mem[t], saved.list, now)
      n == Purged(m, now)
  IN IF on[t]
     THEN /\ mem' = [mem EXCEPT ![t] = n]
          /\ PersistTwice(t, q, m, n)
          /\ armed' = [armed EXCEPT ![t] = Ticking(n)]
          /\ UNCHANGED <<flag, on>>
     ELSE events' = q /\ UNCHANGED <<stored, mem, armed, on>>

\* The storage event of PERSIST_KEY: read the switch; when on, merge and draw.
PersistEvent(t, q) ==
  LET m == Merge(mem[t], saved.list, now)
  IN /\ on' = [on EXCEPT ![t] = flag]
     /\ IF flag
        THEN /\ mem' = [mem EXCEPT ![t] = m]
             /\ saved' = Saved(m)
             /\ events' = Announced(q, t, IF saved # Saved(m) THEN <<"history">> ELSE <<>>)
        ELSE events' = q /\ UNCHANGED <<saved, mem>>
     /\ UNCHANGED <<flag, armed>>

StorageEvent(t) ==
  LET q == [events EXCEPT ![t] = Tail(@)]
  IN /\ events[t] # <<>>
     /\ IF Head(events[t]) = "history" THEN HistoryEvent(t, q) ELSE PersistEvent(t, q)
     /\ UNCHANGED <<due, clock, server, open, panel, requests, bounds>>

\* The timer of the grace windows, when it has something to purge.
TickForgetGrace(t) ==
  LET n == Purged(mem[t], now)
  IN /\ armed[t] /\ n # mem[t]
     /\ mem' = [mem EXCEPT ![t] = n]
     /\ armed' = [armed EXCEPT ![t] = Ticking(n)]
     /\ Persist(t, n)
     /\ UNCHANGED <<due, clock, server, flag, open, on, panel, requests, bounds>>

\* scheduleTick draws the list again, which writes it, when a row has expired
\* since it was drawn.  (A drawing in between does not cancel it here.)
ScheduleTick(t) ==
  /\ t \in due /\ due' = due \ {t}
  /\ IF \E i \in expired : mem[t][i].state = "live"
     THEN Persist(t, mem[t])
     ELSE UNCHANGED <<saved, events>>
  /\ UNCHANGED <<clock, server, flag, tabs, requests, bounds>>

-----------------------------------------------------------------------------
(* The server, and time.                                                   *)

\* A DELETE is served: it withdraws the link unless that is already gone.
Serve(r) ==
  /\ r \in requests /\ ~r.served
  /\ requests' = (requests \ {r}) \cup {[r EXCEPT !.served = TRUE]}
  /\ withdrawn' = IF r.link \in expired THEN withdrawn ELSE withdrawn \cup {r.link}
  /\ UNCHANGED <<due, clock, created, expired, stored, events, tabs, bounds>>

Expire(i) ==
  /\ i \in created \ expired
  /\ expired' = expired \cup {i}
  /\ due' = due \cup {t \in Tabs : mem[t][i].state = "live"}
  /\ UNCHANGED <<clock, created, withdrawn, stored, events, tabs, requests, bounds>>

\* The tabs agree that a link was removed and not how: each prefers its own.
Tied == \E t, u \in open, i \in Links :
          /\ mem[t][i] # mem[u][i] /\ "none" \notin {mem[t][i].state, mem[u][i].state}
          /\ MergeRank(mem[t][i]) = MergeRank(mem[u][i]) /\ MergeRank(mem[t][i]) > 0

\* And in everything else they have come to agree.
Settled ==
  LET lists == {saved.list} \cup {mem[t] : t \in {u \in open \cap Awake : on[u]}}
  IN \A m, n \in lists, i \in Links :
       \/ Kept(m[i], now) = Kept(n[i], now)
       \/ /\ "none" \notin {m[i].state, n[i].state}
          /\ MergeRank(m[i]) = MergeRank(n[i]) /\ MergeRank(m[i]) > 0

\* A tick is long against the delivery of an event: it finds the tabs that are
\* not frozen at rest, or at an exchange that has no end and left nothing else.
Tick ==
  /\ now < Horizon
  /\ (Tied /\ Settled) \/ \A t \in Awake : events[t] = <<>>
  /\ now' = now + 1
  /\ UNCHANGED <<due, server, stored, events, tabs, requests, bounds>>

-----------------------------------------------------------------------------
Handler ==
  \/ \E t \in Tabs, i \in Links :
       \/ \E tok \in BOOLEAN : AddHistory(t, i, tok)
       \/ ToggleCover(t, i)
       \/ ForgetLink(t, i)
       \/ \E from \in {"row", "tomb", "panel"} : ServerDelete(t, i, from)
       \/ ClearTombstone(t, i)
  \/ \E t \in Tabs :
       \/ ClearAll(t) \/ ClearExpired(t) \/ FlipPersist(t)
       \/ Load(t) \/ CloseTab(t)
       \/ StorageEvent(t) \/ TickForgetGrace(t) \/ ScheduleTick(t)
  \/ \E r \in requests : AnswerGone(r) \/ AnswerFailed(r) \/ Serve(r)
  \/ \E i \in Links : Expire(i)
  \/ Tick

Noted ==
  dismissed' = {p \in Tabs \X Links : /\ p[1] \in open'
                                      /\ \/ p \in dismissed
                                         \/ mem'[p[1]][p[2]].state = "cleared"}

Next == Handler /\ Noted

\* The browser delivers the events of an open tab and fires its timers.
Spec == /\ Init /\ [][Next]_vars
        /\ \A t \in Tabs : /\ WF_vars(StorageEvent(t) /\ Noted)
                           /\ WF_vars(TickForgetGrace(t) /\ Noted)
============================================================================
