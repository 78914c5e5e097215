--------------------------- MODULE HistoryProofs ---------------------------
(***************************************************************************)
(* The history of app.js, for any number of links and tabs, whatever the   *)
(* grace and the life of a certificate.                                    *)
(***************************************************************************)
EXTENDS HistoryRequirements, TLAPS

-----------------------------------------------------------------------------
(* Lists: what a merge and a purge make of two well-formed ones.           *)

(***************************************************************************)
(* Every kind of entry that app.js writes is an entry.                     *)
(***************************************************************************)
LEMMA EntryKinds ==
  /\ Absent \in Entry
  /\ \A tok \in BOOLEAN : Live(tok) \in Entry
  /\ \A k \in {"forgotten", "gone", "deleted"} : Tombstone(k) \in Entry
  /\ \A s \in Nat : InGrace(s) \in Entry /\ ClearedMarker(s) \in Entry
BY DEF Absent, Live, Tombstone, InGrace, ClearedMarker, Entry

(***************************************************************************)
(* mergeHistories makes an entry of one of the two, or drops it.           *)
(***************************************************************************)
LEMMA MergeIsList ==
  ASSUME NEW a \in List, NEW b \in List, NEW s
  PROVE  /\ Merge(a, b, s) \in List
         /\ \A i \in Links : Merge(a, b, s)[i] \in {a[i], b[i], Absent}
BY EntryKinds DEF List, Merge, Kept, Winner

(***************************************************************************)
(* The purge of tickForgetGrace changes nothing but lapsed entries, which  *)
(* lose their token.                                                       *)
(***************************************************************************)
LEMMA PurgedIsList ==
  ASSUME NEW m \in List, NEW s
  PROVE  /\ Purged(m, s) \in List
         /\ \A i \in Links : \/ Purged(m, s)[i] = m[i]
                             \/ /\ m[i].state = "forgotten"
                                /\ Purged(m, s)[i] = Tombstone("forgotten")
BY EntryKinds DEF List, Purged, Lapsed

(***************************************************************************)
(* Every entry that says "deleted" is of a link in gone, every entry is of *)
(* one in made, and no eye was clicked after the last thing the user did.  *)
(***************************************************************************)
Honest(m, gone, made, last) ==
  \A i \in Links : /\ m[i].state = "deleted" => i \in gone
                   /\ m[i].state # "none" => i \in made
                   /\ CoverAt(m[i]) <= last

(***************************************************************************)
(* Two honest lists are merged to an honest list.                          *)
(***************************************************************************)
LEMMA MergeHonest ==
  ASSUME NEW a \in List, NEW b \in List, NEW s, NEW gone, NEW made, NEW last \in Nat,
         Honest(a, gone, made, last), Honest(b, gone, made, last)
  PROVE  Honest(Merge(a, b, s), gone, made, last)
<1>1. Absent.state = "none" /\ CoverAt(Absent) = 0
  BY DEF Absent, CoverAt
<1>2. ASSUME NEW i \in Links
      PROVE  /\ Merge(a, b, s)[i].state = "deleted" => i \in gone
             /\ Merge(a, b, s)[i].state # "none" => i \in made
             /\ CoverAt(Merge(a, b, s)[i]) <= last
  <2>1. Merge(a, b, s)[i] \in {a[i], b[i], Absent}
    BY MergeIsList
  <2> QED BY <1>1, <2>1 DEF Honest
<1> QED BY <1>2 DEF Honest

(***************************************************************************)
(* An honest list stays honest when its lapsed graces are purged.          *)
(***************************************************************************)
LEMMA PurgedHonest ==
  ASSUME NEW m \in List, NEW s, NEW gone, NEW made, NEW last \in Nat, Honest(m, gone, made, last)
  PROVE  Honest(Purged(m, s), gone, made, last)
<1>1. /\ Tombstone("forgotten").state = "forgotten"
      /\ CoverAt(Tombstone("forgotten")) = 0
  BY DEF Tombstone, CoverAt
<1>2. ASSUME NEW i \in Links
      PROVE  /\ Purged(m, s)[i].state = "deleted" => i \in gone
             /\ Purged(m, s)[i].state # "none" => i \in made
             /\ CoverAt(Purged(m, s)[i]) <= last
  <2>1. \/ Purged(m, s)[i] = m[i]
        \/ m[i].state = "forgotten" /\ Purged(m, s)[i] = Tombstone("forgotten")
    BY PurgedIsList
  <2> QED BY <1>1, <2>1 DEF Honest
<1> QED BY <1>2 DEF Honest

(***************************************************************************)
(* An honest list stays honest as links go, links are created and the user *)
(* goes on.                                                                *)
(***************************************************************************)
LEMMA HonestGrows ==
  ASSUME NEW m \in List, NEW gone, NEW made, NEW last \in Nat, Honest(m, gone, made, last),
         NEW more, gone \subseteq more, NEW born, made \subseteq born, NEW later \in Nat, last <= later
  PROVE  Honest(m, more, born, later)
<1>1. ASSUME NEW i \in Links
      PROVE  /\ m[i].state = "deleted" => i \in more
             /\ m[i].state # "none" => i \in born
             /\ CoverAt(m[i]) <= later
  <2>1. CoverAt(m[i]) \in Nat
    BY DEF List, Entry, CoverAt
  <2>2. CoverAt(m[i]) <= last /\ (m[i].state = "deleted" => i \in gone)
        /\ (m[i].state # "none" => i \in made)
    BY DEF Honest
  <2>3. CoverAt(m[i]) <= later
    BY <2>1, <2>2
  <2> QED BY <2>2, <2>3
<1> QED BY <1>1 DEF Honest

-----------------------------------------------------------------------------
(* The invariant.                                                          *)

Gones == withdrawn \cup expired

\* A closed tab holds nothing and is sent nothing.
Closed == \A t \in Tabs \ open : mem[t] = Empty /\ events[t] = <<>>

\* A DELETE belongs to an open tab, and once it was served the link is gone.
RequestsHold == \A r \in requests : r.tab \in open /\ (r.served => r.link \in Gones)

AllHonest == /\ Honest(saved.list, Gones, created, acts)
             /\ \A t \in Tabs : Honest(mem[t], Gones, created, acts)

(***************************************************************************)
(* The inductive invariant: the types, and that every list says "deleted"  *)
(* only of links that are gone, has entries only of links that were        *)
(* created, and no eye clicked after the last thing the user did.  Lists   *)
(* meet in merges, so what one says another may come to say: all are       *)
(* honest, or none need stay so.                                           *)
(***************************************************************************)
IInv == TypeOK /\ Closed /\ RequestsHold /\ AllHonest

Queues(q) == q \in [Tabs -> Seq(Key)] /\ \A u \in Tabs \ open : q[u] = <<>>

\* What a step makes of everything but the lists and the events.
RestTyped ==
  /\ now' \in 0..Horizon
  /\ created' \subseteq Links /\ withdrawn' \subseteq Links /\ expired' \subseteq created'
  /\ flag' \in BOOLEAN
  /\ on' \in [Tabs -> BOOLEAN] /\ armed' \in [Tabs -> BOOLEAN]
  /\ panel' \in [Tabs -> Links \cup {None}]
  /\ requests' \subseteq Request /\ due' \subseteq open'
  /\ acts' \in 0..MaxActs /\ flips' \in 0..MaxFlips
  /\ Gones \subseteq Gones' /\ created \subseteq created' /\ acts <= acts'

(***************************************************************************)
(* An event reaches open tabs only.                                        *)
(***************************************************************************)
LEMMA AnnouncedTyped ==
  ASSUME NEW t, NEW q, Queues(q), NEW keys \in Seq(Key)
  PROVE  Queues(Announced(q, t, keys))
<1>1. \A u \in Tabs : q[u] \o keys \in Seq(Key)
  BY DEF Queues
<1> QED BY <1>1 DEF Queues, Announced

(***************************************************************************)
(* persistNow leaves storage alone or saves the list of the tab.           *)
(***************************************************************************)
LEMMA PersistFact ==
  ASSUME NEW t \in Tabs, NEW q, Queues(q), NEW m, NEW n, PersistTwice(t, q, m, n)
  PROVE  saved' \in {saved, Saved(n)} /\ Queues(events')
<1> DEFINE keys == (IF saved # Saved(m) THEN <<"history">> ELSE <<>>)
                    \o (IF m # n THEN <<"history">> ELSE <<>>)
<1>1. keys \in Seq(Key)
  <2>1. <<>> \in Seq(Key) /\ <<"history">> \in Seq(Key)
    BY DEF Key
  <2>2. \A j, k \in Seq(Key) : j \o k \in Seq(Key)
    OBVIOUS
  <2> QED BY <2>1, <2>2
<1>2. Queues(Announced(q, t, keys))
  BY <1>1, AnnouncedTyped
<1> QED BY <1>2 DEF PersistTwice

(***************************************************************************)
(* What was honest stays so: links go and do not come back.                *)
(***************************************************************************)
LEMMA StaysHonest ==
  ASSUME IInv, RestTyped
  PROVE  /\ Honest(saved.list, Gones', created', acts')
         /\ \A u \in Tabs : Honest(mem[u], Gones', created', acts')
<1>1. /\ acts \in Nat /\ acts' \in Nat /\ acts <= acts'
      /\ Gones \subseteq Gones' /\ created \subseteq created'
  BY TabAssumption DEF IInv, TypeOK, RestTyped
<1>2. /\ saved.list \in List /\ Honest(saved.list, Gones, created, acts)
      /\ \A u \in Tabs : mem[u] \in List /\ Honest(mem[u], Gones, created, acts)
  BY DEF IInv, TypeOK, AllHonest
<1>3. Honest(saved.list, Gones', created', acts')
  BY <1>1, <1>2, HonestGrows
<1>4. ASSUME NEW u \in Tabs PROVE Honest(mem[u], Gones', created', acts')
  BY <1>1, <1>2, HonestGrows
<1> QED BY <1>3, <1>4

(***************************************************************************)
(* A step by which at most one tab's list changes, into an honest list,    *)
(* and at most that list is saved, keeps the invariant, whether the tab    *)
(* was open (TabStep) or has just been opened.                             *)
(***************************************************************************)
LEMMA AnyTabStep ==
  ASSUME IInv, Noted, RestTyped, RequestsHold', Queues(events'),
         NEW t \in Tabs, open' = open \cup {t}, NEW n \in List, Honest(n, Gones', created', acts'),
         mem' \in {mem, [mem EXCEPT ![t] = n]}, saved' \in {saved, Saved(n), Nothing}
  PROVE  IInv'
<1>1. acts \in Nat /\ acts' \in Nat
  BY TabAssumption DEF IInv, TypeOK, RestTyped
<1>2. Empty \in List /\ Honest(Empty, Gones', created', acts')
  BY <1>1, EntryKinds DEF Empty, List, Honest, Absent, CoverAt
<1>3. Honest(saved.list, Gones', created', acts') /\ \A u \in Tabs : Honest(mem[u], Gones', created', acts')
  BY StaysHonest
<1>4. /\ Saved(n) \in [there : BOOLEAN, list : List] /\ Saved(n).list = n
      /\ Nothing \in [there : BOOLEAN, list : List] /\ Nothing.list = Empty
  BY <1>2 DEF Saved, Nothing
<1>5. saved' \in [there : BOOLEAN, list : List] /\ Honest(saved'.list, Gones', created', acts')
  BY <1>2, <1>3, <1>4 DEF IInv, TypeOK
<1>6. /\ mem' \in [Tabs -> List]
      /\ \A u \in Tabs : mem'[u] \in {mem[u], n} /\ (u \notin open' => mem'[u] = mem[u])
  BY DEF IInv, TypeOK
<1>7. \A u \in Tabs : Honest(mem'[u], Gones', created', acts')
  BY <1>3, <1>6
<1>8. dismissed' \subseteq Tabs \X Links
  BY DEF Noted
<1>9. TypeOK'
  BY <1>5, <1>6, <1>8 DEF IInv, TypeOK, RestTyped, Queues
<1>10. Closed'
  BY <1>6 DEF IInv, Closed, Queues
<1> QED BY <1>5, <1>7, <1>9, <1>10 DEF IInv, AllHonest

(***************************************************************************)
(* The same of a tab that was open before the step.                        *)
(***************************************************************************)
LEMMA TabStep ==
  ASSUME IInv, Noted, RestTyped, RequestsHold', open' = open, Queues(events'),
         NEW t \in open, NEW n \in List, Honest(n, Gones', created', acts'),
         mem' \in {mem, [mem EXCEPT ![t] = n]}, saved' \in {saved, Saved(n), Nothing}
  PROVE  IInv'
<1>1. t \in Tabs /\ open' = open \cup {t}
  BY DEF IInv, TypeOK
<1> QED BY <1>1, AnyTabStep

(***************************************************************************)
(* A step that touches no list and no event keeps the invariant.           *)
(***************************************************************************)
LEMMA StillStep ==
  ASSUME IInv, Noted, RestTyped, RequestsHold', UNCHANGED <<open, mem, saved, events>>
  PROVE  IInv'
<1>1. acts \in Nat /\ acts' \in Nat
  BY TabAssumption DEF IInv, TypeOK, RestTyped
<1>2. Honest(saved.list, Gones', created', acts') /\ \A u \in Tabs : Honest(mem[u], Gones', created', acts')
  BY StaysHonest
<1>3. dismissed' \subseteq Tabs \X Links
  BY DEF Noted
<1>4. TypeOK' /\ Closed'
  BY <1>3 DEF IInv, TypeOK, Closed, RestTyped
<1> QED BY <1>2, <1>4 DEF IInv, AllHonest

-----------------------------------------------------------------------------
(* Every action keeps the invariant.                                       *)

(***************************************************************************)
(* The facts about a tab's list that every handler starts from.            *)
(***************************************************************************)
LEMMA Handled ==
  ASSUME IInv, NEW t \in Tabs
  PROVE  /\ mem[t] \in List /\ saved.list \in List /\ acts \in Nat /\ now \in Nat
         /\ Merge(mem[t], saved.list, now) \in List
         /\ Honest(Merge(mem[t], saved.list, now), Gones, created, acts)
         /\ Adopted(t) \in List /\ Honest(Adopted(t), Gones, created, acts)
         /\ Queues(events)
<1>1. mem[t] \in List /\ saved.list \in List /\ acts \in Nat /\ now \in Nat
  BY TabAssumption DEF IInv, TypeOK
<1>2. /\ Merge(mem[t], saved.list, now) \in List
      /\ Honest(Merge(mem[t], saved.list, now), Gones, created, acts)
  BY <1>1, MergeIsList, MergeHonest DEF IInv, AllHonest
<1>3. Adopted(t) \in List /\ Honest(Adopted(t), Gones, created, acts)
  BY <1>1, <1>2 DEF Adopted, IInv, AllHonest
<1>4. Queues(events)
  BY DEF IInv, TypeOK, Closed, Queues
<1> QED BY <1>1, <1>2, <1>3, <1>4

(***************************************************************************)
(* A list with one entry rewritten is honest when the entry is.            *)
(***************************************************************************)
LEMMA RewrittenHonest ==
  ASSUME NEW m \in List, NEW gone, NEW made, NEW last \in Nat, Honest(m, gone, made, last),
         NEW i \in Links, NEW e \in Entry,
         e.state = "deleted" => i \in gone, i \in made, CoverAt(e) <= last
  PROVE  [m EXCEPT ![i] = e] \in List /\ Honest([m EXCEPT ![i] = e], gone, made, last)
BY DEF List, Honest

USE DEF clock, server, stored, tabs, bounds

(***************************************************************************)
(* The grace's timer is set or not.                                        *)
(***************************************************************************)
LEMMA TickingBool ==
  ASSUME NEW m PROVE Ticking(m) \in BOOLEAN
BY DEF Ticking

(***************************************************************************)
(* addHistory keeps the invariant: a new live entry claims nothing of the  *)
(* server.                                                                 *)
(***************************************************************************)
LEMMA AddHistoryKeeps ==
  ASSUME IInv, Noted, NEW t \in Tabs, NEW i \in Links, NEW tok \in BOOLEAN, AddHistory(t, i, tok)
  PROVE  IInv'
<1> DEFINE n == [Adopted(t) EXCEPT ![i] = Live(tok)]
<1>1. RestTyped /\ RequestsHold'
  BY TabAssumption DEF AddHistory, Acts, IInv, TypeOK, RestTyped, Gones, RequestsHold
<1>2. n \in List /\ Honest(n, Gones, created', acts)
  <2>0. i \in created' /\ created \subseteq created'
    BY DEF AddHistory
  <2>1. Live(tok) \in Entry /\ Live(tok).state = "live" /\ CoverAt(Live(tok)) = 0
    BY EntryKinds DEF Live, CoverAt
  <2>2. Honest(Adopted(t), Gones, created', acts)
    BY <2>0, Handled, HonestGrows
  <2> QED BY <2>0, <2>1, <2>2, Handled, RewrittenHonest
<1>3. Honest(n, Gones', created', acts')
  BY <1>1, <1>2, Handled, HonestGrows, TabAssumption DEF RestTyped
<1>4. saved' \in {saved, Saved(n)} /\ Queues(events')
  BY Handled, PersistFact DEF Persist, AddHistory
<1> QED BY <1>1, <1>2, <1>3, <1>4, TabStep DEF AddHistory

(***************************************************************************)
(* A click on an eye keeps it: the click is the last thing the user did.   *)
(***************************************************************************)
LEMMA ToggleCoverKeeps ==
  ASSUME IInv, Noted, NEW t \in Tabs, NEW i \in Links, ToggleCover(t, i)
  PROVE  IInv'
<1> DEFINE e == [mem[t][i] EXCEPT !.at = acts + 1]
           n == [mem[t] EXCEPT ![i] = e]
<1>1. RestTyped /\ RequestsHold'
  BY TabAssumption DEF ToggleCover, Acts, IInv, TypeOK, RestTyped, Gones, RequestsHold
<1>2. acts' = acts + 1 /\ acts \in Nat /\ Gones' = Gones /\ created' = created
  BY Handled DEF ToggleCover, Acts, Gones
<1>3. e \in Entry /\ e.state = "live" /\ CoverAt(e) = acts'
  <2>1. mem[t][i] \in Entry /\ mem[t][i].state = "live"
    BY Handled DEF List, ToggleCover
  <2> QED BY <1>2, <2>1 DEF Entry, CoverAt
<1>4. Honest(mem[t], Gones', created', acts')
  BY <1>1, StaysHonest
<1>5. n \in List /\ Honest(n, Gones', created', acts')
  <2>1. /\ e \in Entry /\ e.state # "deleted" /\ CoverAt(e) <= acts'
        /\ acts' \in Nat /\ mem[t] \in List /\ i \in created'
    BY <1>2, <1>3, <1>4, Handled DEF ToggleCover, Honest
  <2> HIDE DEF e
  <2> QED BY <1>4, <2>1, RewrittenHonest
<1>6. mem' = [mem EXCEPT ![t] = n] /\ Persist(t, n) /\ open' = open /\ t \in open
  <2>1. n = [mem[t] EXCEPT ![i].at = acts + 1]
    OBVIOUS
  <2> QED BY <2>1, Zenon DEF ToggleCover
<1>7. saved' \in {saved, Saved(n)} /\ Queues(events')
  BY <1>6, Handled, PersistFact DEF Persist
<1> QED BY <1>1, <1>5, <1>6, <1>7, TabStep

(***************************************************************************)
(* forgetLink keeps it: it leaves no tombstone that says deleted.          *)
(***************************************************************************)
LEMMA ForgetLinkKeeps ==
  ASSUME IInv, Noted, NEW t \in Tabs, NEW i \in Links, ForgetLink(t, i)
  PROVE  IInv'
<1> DEFINE e == Forgotten(i, Adopted(t)[i])
           m == [Adopted(t) EXCEPT ![i] = e]
           n == IF e.token THEN Purged(m, now) ELSE m
<1>0. armed' \in [Tabs -> BOOLEAN]
  BY TickingBool DEF ForgetLink, IInv, TypeOK
<1>1. RestTyped /\ RequestsHold'
  BY <1>0, TabAssumption DEF ForgetLink, Acts, IInv, TypeOK, RestTyped, Gones, RequestsHold
<1>2. acts' = acts + 1 /\ acts \in Nat /\ acts' \in Nat /\ Gones' = Gones /\ created' = created
  BY Handled DEF ForgetLink, Acts, Gones
<1>3. e \in Entry /\ e.state # "deleted" /\ CoverAt(e) = 0
  BY EntryKinds, Handled, ListAssumption DEF Forgotten, Tombstone, InGrace, CoverAt
<1>4. t \in open /\ open' = open /\ created' = created
  BY DEF ForgetLink
<1>5. CASE Found(t, i)
  <2>1. i \in created
    BY <1>5, Handled DEF Found, Shown, Honest
  <2>2. m \in List /\ Honest(m, Gones, created, acts)
    BY <1>2, <1>3, <2>1, Handled, RewrittenHonest
  <2>3. n \in List /\ Honest(n, Gones, created, acts)
    BY <1>2, <2>2, PurgedIsList, PurgedHonest
  <2>4. Honest(n, Gones', created', acts')
    BY <1>2, <1>4, <2>3, HonestGrows
  <2>5. mem' = [mem EXCEPT ![t] = n] /\ Persist(t, n)
    BY <1>5 DEF ForgetLink
  <2>6. saved' \in {saved, Saved(n)} /\ Queues(events')
    BY <2>5, Handled, PersistFact DEF Persist
  <2> QED BY <1>1, <1>4, <2>3, <2>4, <2>5, <2>6, TabStep
<1>6. CASE ~Found(t, i)
  <2>1. mem' = [mem EXCEPT ![t] = Adopted(t)] /\ UNCHANGED <<saved, events>>
    BY <1>6 DEF ForgetLink
  <2>2. Honest(Adopted(t), Gones', created', acts')
    BY <1>2, <1>4, Handled, HonestGrows
  <2> QED BY <1>1, <1>4, <2>1, <2>2, Handled, TabStep
<1> QED BY <1>5, <1>6

(***************************************************************************)
(* findEntry and what is done with the entry it finds.                     *)
(***************************************************************************)
LEMMA OverwriteKeeps ==
  ASSUME IInv, Noted, RestTyped, RequestsHold', open' = open,
         NEW t \in open, NEW i \in Links, NEW e \in Entry,
         e.state = "deleted" => i \in Gones, CoverAt(e) = 0, Overwrite(t, i, e)
  PROVE  IInv'
<1> DEFINE n == [Adopted(t) EXCEPT ![i] = e]
<1> t \in Tabs
  BY DEF IInv, TypeOK
<1>1. /\ acts \in Nat /\ acts' \in Nat /\ acts <= acts'
      /\ Gones \subseteq Gones' /\ created \subseteq created'
  BY TabAssumption, Handled DEF RestTyped
<1>2. CASE Found(t, i)
  <2>1. i \in created
    BY <1>2, Handled DEF Found, Shown, Honest
  <2>2. n \in List /\ Honest(n, Gones, created, acts)
    BY <1>1, <2>1, Handled, RewrittenHonest
  <2>3. Honest(n, Gones', created', acts')
    BY <1>1, <2>2, HonestGrows
  <2>4. mem' = [mem EXCEPT ![t] = n] /\ Persist(t, n)
    BY <1>2 DEF Overwrite
  <2>5. saved' \in {saved, Saved(n)} /\ Queues(events')
    BY <2>4, Handled, PersistFact DEF Persist
  <2> QED BY <2>2, <2>3, <2>4, <2>5, TabStep
<1>3. CASE ~Found(t, i)
  <2>1. mem' = [mem EXCEPT ![t] = Adopted(t)] /\ UNCHANGED <<saved, events>>
    BY <1>3 DEF Overwrite
  <2>2. Honest(Adopted(t), Gones', created', acts')
    BY <1>1, Handled, HonestGrows
  <2> QED BY <2>1, <2>2, Handled, TabStep
<1> QED BY <1>2, <1>3

(***************************************************************************)
(* Clearing a tombstone keeps it: a certificate claims nothing.            *)
(***************************************************************************)
LEMMA ClearTombstoneKeeps ==
  ASSUME IInv, Noted, NEW t \in Tabs, NEW i \in Links, ClearTombstone(t, i)
  PROVE  IInv'
<1>1. RestTyped /\ RequestsHold' /\ open' = open /\ t \in open
  BY TabAssumption DEF ClearTombstone, Acts, IInv, TypeOK, RestTyped, Gones, RequestsHold
<1>2. /\ ClearedMarker(now) \in Entry /\ CoverAt(ClearedMarker(now)) = 0
      /\ ClearedMarker(now).state # "deleted"
  BY EntryKinds, Handled DEF ClearedMarker, CoverAt
<1> QED BY <1>1, <1>2, OverwriteKeeps DEF ClearTombstone

(***************************************************************************)
(* An answered DELETE keeps it: what it marks deleted was withdrawn or had *)
(* expired when the DELETE was served.                                     *)
(***************************************************************************)
LEMMA AnswerGoneKeeps ==
  ASSUME IInv, Noted, NEW r \in requests, AnswerGone(r)
  PROVE  IInv'
<1>1. r \in Request /\ r.tab \in open /\ r.link \in Gones
  BY DEF AnswerGone, Gone, IInv, TypeOK, RequestsHold
<1>2. RestTyped /\ RequestsHold' /\ open' = open
  BY <1>1, TabAssumption DEF AnswerGone, IInv, TypeOK, RestTyped, Gones, RequestsHold
<1>3. Tombstone("deleted") \in Entry /\ CoverAt(Tombstone("deleted")) = 0
  BY EntryKinds DEF Tombstone, CoverAt
<1> QED BY <1>1, <1>2, <1>3, OverwriteKeeps DEF AnswerGone, Request

(***************************************************************************)
(* Clear All and Clear Expired keep it: they leave certificates of created *)
(* links.                                                                  *)
(***************************************************************************)
LEMMA ClearRowsKeeps ==
  ASSUME IInv, Noted, NEW t \in Tabs, NEW ids, ClearRows(t, ids),
         \A i \in ids \cap Links : mem[t][i].state # "none"
  PROVE  IInv'
<1> DEFINE n == [i \in Links |-> IF i \in ids THEN ClearedMarker(now) ELSE mem[t][i]]
<1>1. RestTyped /\ RequestsHold' /\ open' = open /\ t \in open
  BY TabAssumption DEF ClearRows, Acts, IInv, TypeOK, RestTyped, Gones, RequestsHold
<1>2. acts' = acts + 1 /\ acts \in Nat /\ acts' \in Nat /\ Gones' = Gones /\ created' = created
  BY Handled DEF ClearRows, Acts, Gones
<1>3. /\ ClearedMarker(now) \in Entry /\ CoverAt(ClearedMarker(now)) = 0
      /\ ClearedMarker(now).state # "deleted"
  BY EntryKinds, Handled DEF ClearedMarker, CoverAt
<1>4. n \in List /\ Honest(n, Gones, created, acts)
  BY <1>2, <1>3, Handled DEF List, Honest, IInv, AllHonest
<1>5. Honest(n, Gones', created', acts')
  BY <1>2, <1>4, HonestGrows
<1>6. mem' = [mem EXCEPT ![t] = n] /\ Persist(t, n)
  BY DEF ClearRows
<1>7. saved' \in {saved, Saved(n)} /\ Queues(events')
  BY <1>6, Handled, PersistFact DEF Persist
<1> QED BY <1>1, <1>4, <1>5, <1>6, <1>7, TabStep

(***************************************************************************)
(* Asking for a DELETE keeps it: nothing was served yet.                   *)
(***************************************************************************)
LEMMA ServerDeleteKeeps ==
  ASSUME IInv, Noted, NEW t \in Tabs, NEW i \in Links, NEW from \in {"row", "tomb", "panel"},
         ServerDelete(t, i, from)
  PROVE  IInv'
<1> DEFINE new == [tab |-> t, link |-> i, from |-> from, served |-> FALSE]
<1>1. new \in Request /\ new.tab \in open /\ ~new.served /\ requests' = requests \cup {new}
  BY DEF Request, ServerDelete
<1> HIDE DEF new
<1>2. RestTyped /\ RequestsHold' /\ UNCHANGED <<open, mem, saved, events>>
  BY <1>1, TabAssumption DEF ServerDelete, Acts, IInv, TypeOK, RestTyped, Gones, RequestsHold
<1> QED BY <1>2, StillStep

(***************************************************************************)
(* Serving a DELETE keeps it: the link is gone by then, however it went.   *)
(***************************************************************************)
LEMMA ServeKeeps ==
  ASSUME IInv, Noted, NEW r \in requests, Serve(r)
  PROVE  IInv'
<1> DEFINE new == [r EXCEPT !.served = TRUE]
<1>1. r \in Request /\ r.tab \in open
  BY DEF IInv, TypeOK, RequestsHold
<1>2. /\ new \in Request /\ new.tab \in open /\ new.link = r.link
      /\ requests' = (requests \ {r}) \cup {new}
  BY <1>1 DEF Request, Serve
<1> HIDE DEF new
<1>3. RestTyped /\ UNCHANGED <<open, mem, saved, events>> /\ r.link \in Gones'
  <2>1. r.link \in Links
    BY <1>1 DEF Request
  <2>2. /\ withdrawn' \in {withdrawn, withdrawn \cup {r.link}}
        /\ r.link \in withdrawn' \cup expired
    BY DEF Serve
  <2>3. withdrawn' \subseteq Links /\ Gones \subseteq Gones' /\ r.link \in Gones'
    BY <2>1, <2>2 DEF Serve, IInv, TypeOK, Gones
  <2>4. requests' \subseteq Request
    BY <1>2 DEF IInv, TypeOK
  <2> QED BY <2>3, <2>4, TabAssumption DEF Serve, IInv, TypeOK, RestTyped
<1>4. RequestsHold'
  BY <1>2, <1>3 DEF IInv, RequestsHold, RestTyped
<1> QED BY <1>3, <1>4, StillStep

(***************************************************************************)
(* A link that expires keeps it: links that are gone stay gone.            *)
(***************************************************************************)
LEMMA ExpireKeeps ==
  ASSUME IInv, Noted, NEW i \in Links, Expire(i)
  PROVE  IInv'
<1>1. \A t \in Tabs : mem[t][i].state = "live" => t \in open
  BY DEF IInv, Closed, Empty, Absent
<1>2. RestTyped /\ RequestsHold' /\ UNCHANGED <<open, mem, saved, events>>
  BY <1>1, TabAssumption DEF Expire, IInv, TypeOK, RestTyped, Gones, RequestsHold
<1> QED BY <1>2, StillStep

(***************************************************************************)
(* The clock keeps it: no entry depends on the time.                       *)
(***************************************************************************)
LEMMA TickKeeps ==
  ASSUME IInv, Noted, Tick
  PROVE  IInv'
<1>1. RestTyped /\ RequestsHold' /\ UNCHANGED <<open, mem, saved, events>>
  BY TabAssumption DEF Tick, IInv, TypeOK, RestTyped, Gones, RequestsHold
<1> QED BY <1>1, StillStep

(***************************************************************************)
(* A DELETE that failed keeps it: the entry stays as it is.                *)
(***************************************************************************)
LEMMA AnswerFailedKeeps ==
  ASSUME IInv, Noted, NEW r \in requests, AnswerFailed(r)
  PROVE  IInv'
<1>1. r \in Request /\ r.tab \in open /\ r.tab \in Tabs
  BY DEF IInv, TypeOK, RequestsHold, Request
<1>2. RestTyped /\ RequestsHold' /\ open' = open /\ mem' = mem /\ Gones' = Gones /\ created' = created /\ acts' = acts
  BY TabAssumption DEF AnswerFailed, IInv, TypeOK, RestTyped, Gones, RequestsHold
<1>3. Honest(mem[r.tab], Gones', created', acts')
  BY <1>1, <1>2 DEF IInv, AllHonest
<1>4. saved' \in {saved, Saved(mem[r.tab])} /\ Queues(events')
  BY <1>1, Handled, PersistFact DEF AnswerFailed, Persist
<1> QED BY <1>1, <1>2, <1>3, <1>4, Handled, TabStep

(***************************************************************************)
(* A row found expired keeps it: the list is written as it is.             *)
(***************************************************************************)
LEMMA ScheduleTickKeeps ==
  ASSUME IInv, Noted, NEW t \in Tabs, ScheduleTick(t)
  PROVE  IInv'
<1>1. RestTyped /\ RequestsHold' /\ open' = open /\ mem' = mem /\ Gones' = Gones /\ created' = created /\ acts' = acts
  BY TabAssumption DEF ScheduleTick, IInv, TypeOK, RestTyped, Gones, RequestsHold
<1>2. Honest(mem[t], Gones', created', acts') /\ t \in open
  BY <1>1 DEF ScheduleTick, IInv, TypeOK, AllHonest
<1>3. saved' \in {saved, Saved(mem[t])} /\ Queues(events')
  BY Handled, PersistFact DEF ScheduleTick, Persist
<1> QED BY <1>1, <1>2, <1>3, Handled, TabStep

(***************************************************************************)
(* The timer of the graces keeps it: the purge makes no entry say deleted. *)
(***************************************************************************)
LEMMA TickForgetGraceKeeps ==
  ASSUME IInv, Noted, NEW t \in Tabs, TickForgetGrace(t)
  PROVE  IInv'
<1> DEFINE n == Purged(mem[t], now)
<1>1. t \in open
  <2>1. Purged(Empty, now) = Empty
    BY DEF Purged, Empty, Lapsed, Absent
  <2> QED BY <2>1 DEF TickForgetGrace, IInv, Closed
<1>2. armed' \in [Tabs -> BOOLEAN]
  BY TickingBool DEF TickForgetGrace, IInv, TypeOK
<1>3. RestTyped /\ RequestsHold' /\ open' = open /\ Gones' = Gones /\ created' = created /\ acts' = acts
  BY <1>2, TabAssumption DEF TickForgetGrace, IInv, TypeOK, RestTyped, Gones, RequestsHold
<1>4. n \in List /\ Honest(n, Gones', created', acts')
  BY <1>3, Handled, PurgedIsList, PurgedHonest DEF IInv, AllHonest
<1>5. mem' = [mem EXCEPT ![t] = n] /\ Persist(t, n)
  BY DEF TickForgetGrace
<1>6. saved' \in {saved, Saved(n)} /\ Queues(events')
  BY <1>5, Handled, PersistFact DEF Persist
<1> QED BY <1>1, <1>3, <1>4, <1>5, <1>6, TabStep

(***************************************************************************)
(* setPersist keeps it: it merges two honest lists, or saves none.         *)
(***************************************************************************)
LEMMA FlipPersistKeeps ==
  ASSUME IInv, Noted, NEW t \in Tabs, FlipPersist(t)
  PROVE  IInv'
<1> DEFINE n == Merge(mem[t], saved.list, now)
<1>0. on' \in [Tabs -> BOOLEAN] /\ flag' \in BOOLEAN
  <2>1. on \in [Tabs -> BOOLEAN] /\ on' = [on EXCEPT ![t] = ~on[t]] /\ flag' \in {TRUE, FALSE}
    BY Zenon DEF FlipPersist, IInv, TypeOK
  <2>2. (~on[t]) \in BOOLEAN
    OBVIOUS
  <2> QED BY <2>1, <2>2, Zenon
<1>1. RestTyped /\ RequestsHold' /\ open' = open /\ t \in open
  BY <1>0, TabAssumption DEF FlipPersist, IInv, TypeOK, RestTyped, Gones, RequestsHold
<1>2. n \in List /\ Honest(n, Gones', created', acts')
  <2>1. acts \in Nat /\ acts' \in Nat /\ acts <= acts'
        /\ Gones \subseteq Gones' /\ created \subseteq created'
    BY <1>1, Handled DEF FlipPersist, RestTyped
  <2>2. n \in List /\ Honest(n, Gones, created, acts)
    BY Handled
  <2> HIDE DEF n
  <2> QED BY <2>1, <2>2, HonestGrows
<1>3. mem' \in {mem, [mem EXCEPT ![t] = n]} /\ saved' \in {Saved(n), Nothing}
  BY DEF FlipPersist
<1>4. Queues(events')
  <2>1. \A j, k \in Seq(Key) : j \o k \in Seq(Key)
    OBVIOUS
  <2>2. /\ <<>> \in Seq(Key) /\ <<"persist">> \in Seq(Key) /\ <<"history">> \in Seq(Key)
    BY DEF Key
  <2>3. PICK keys \in Seq(Key) : events' = Announced(events, t, keys)
    BY <2>1, <2>2 DEF FlipPersist
  <2> QED BY <2>3, Handled, AnnouncedTyped
<1> HIDE DEF n
<1> QED BY <1>1, <1>2, <1>3, <1>4, TabStep

(***************************************************************************)
(* The storage listener keeps it: it merges two honest lists.              *)
(***************************************************************************)
LEMMA StorageEventKeeps ==
  ASSUME IInv, Noted, NEW t \in Tabs, StorageEvent(t)
  PROVE  IInv'
<1> DEFINE q == [events EXCEPT ![t] = Tail(@)]
           m == Merge(mem[t], saved.list, now)
           n == Purged(m, now)
<1>1. t \in open /\ Queues(q)
  <2>1. events[t] # <<>> /\ events[t] \in Seq(Key) /\ events \in [Tabs -> Seq(Key)]
    BY DEF StorageEvent, IInv, TypeOK
  <2>2. Tail(events[t]) \in Seq(Key)
    BY <2>1
  <2>3. t \in open
    BY <2>1 DEF IInv, Closed
  <2> QED BY <2>1, <2>2, <2>3 DEF IInv, Closed, Queues
<1>2. m \in List /\ n \in List /\ Honest(m, Gones, created, acts) /\ Honest(n, Gones, created, acts)
  BY Handled, PurgedIsList, PurgedHonest
<1>3. Gones' = Gones /\ created' = created /\ acts' = acts /\ open' = open
  BY DEF StorageEvent, Gones
<1> HIDE DEF q, m, n
<1>4. CASE HistoryEvent(t, q)
  <2>1. armed' \in [Tabs -> BOOLEAN]
    BY <1>4, TickingBool DEF HistoryEvent, IInv, TypeOK
  <2>2. RestTyped /\ RequestsHold'
    BY <1>3, <1>4, <2>1 DEF StorageEvent, HistoryEvent, IInv, TypeOK, RestTyped, RequestsHold
  <2>3. mem' \in {mem, [mem EXCEPT ![t] = n]} /\ saved' \in {saved, Saved(n)}
    BY <1>1, <1>4, PersistFact DEF HistoryEvent, m, n
  <2>4. Queues(events')
    BY <1>1, <1>4, PersistFact DEF HistoryEvent
  <2> QED BY <1>1, <1>2, <1>3, <2>2, <2>3, <2>4, TabStep
<1>5. CASE PersistEvent(t, q)
  <2>1. RestTyped /\ RequestsHold'
    BY <1>3, <1>5 DEF StorageEvent, PersistEvent, IInv, TypeOK, RestTyped, RequestsHold
  <2>2. mem' \in {mem, [mem EXCEPT ![t] = m]} /\ saved' \in {saved, Saved(m)}
    BY <1>5 DEF PersistEvent, m
  <2>3. Queues(events')
    <3>1. <<>> \in Seq(Key) /\ <<"history">> \in Seq(Key)
      BY DEF Key
    <3>2. events' = q \/ \E keys \in Seq(Key) : events' = Announced(q, t, keys)
      BY <1>5, <3>1 DEF PersistEvent
    <3> QED BY <1>1, <3>2, AnnouncedTyped
  <2> QED BY <1>1, <1>2, <1>3, <2>1, <2>2, <2>3, TabStep
<1> QED BY <1>4, <1>5 DEF StorageEvent, q

(***************************************************************************)
(* A page load keeps it: the tab starts from what was saved, which is      *)
(* honest.                                                                 *)
(***************************************************************************)
LEMMA LoadKeeps ==
  ASSUME IInv, Noted, NEW t \in Tabs, Load(t)
  PROVE  IInv'
<1> DEFINE m == IF flag THEN Merge(saved.list, Empty, now) ELSE Empty
           n == Purged(m, now)
<1>1. Gones' = Gones /\ created' = created /\ acts' = acts /\ acts \in Nat /\ open' = open \cup {t}
  BY Handled DEF Load, Gones
<1>2. Empty \in List /\ Honest(Empty, Gones, created, acts)
  BY <1>1, EntryKinds DEF Empty, List, Honest, Absent, CoverAt
<1>3. m \in List /\ Honest(m, Gones, created, acts)
  BY <1>1, <1>2, Handled, MergeIsList, MergeHonest DEF IInv, AllHonest
<1>4. n \in List /\ Honest(n, Gones, created, acts)
  BY <1>1, <1>3, PurgedIsList, PurgedHonest
<1>5. mem' = [mem EXCEPT ![t] = n] /\ saved' \in {saved, Saved(n)}
  BY DEF Load
<1>6. Queues(events')
  <2>1. \A j, k \in Seq(Key) : j \o k \in Seq(Key)
    OBVIOUS
  <2>2. <<>> \in Seq(Key) /\ <<"history">> \in Seq(Key)
    BY DEF Key
  <2>3. events' = events \/ \E keys \in Seq(Key) : events' = Announced(events, t, keys)
    BY <2>1, <2>2 DEF Load
  <2> QED BY <2>3, Handled, AnnouncedTyped
<1> HIDE DEF m, n
<1>7. armed' \in [Tabs -> BOOLEAN] /\ on' \in [Tabs -> BOOLEAN]
  BY TickingBool DEF Load, IInv, TypeOK
<1>8. RestTyped /\ RequestsHold'
  BY <1>1, <1>7 DEF Load, IInv, TypeOK, RestTyped, RequestsHold
<1> QED BY <1>1, <1>4, <1>5, <1>6, <1>8, AnyTabStep

(***************************************************************************)
(* Closing a tab keeps it: what it held is gone, and its requests with it. *)
(***************************************************************************)
LEMMA CloseTabKeeps ==
  ASSUME IInv, Noted, NEW t \in Tabs, CloseTab(t)
  PROVE  IInv'
<1>1. Empty \in List /\ Honest(Empty, Gones, created, acts)
  BY Handled, EntryKinds DEF Empty, List, Honest, Absent, CoverAt
<1>2. mem' = [mem EXCEPT ![t] = Empty] /\ events' = [events EXCEPT ![t] = <<>>]
  BY DEF CloseTab
<1>3. mem' \in [Tabs -> List] /\ events' \in [Tabs -> Seq(Key)]
  BY <1>1, <1>2 DEF IInv, TypeOK
<1>4. TypeOK'
  BY <1>3 DEF CloseTab, Noted, IInv, TypeOK
<1>5. Closed'
  BY <1>2 DEF CloseTab, IInv, TypeOK, Closed
<1>6. RequestsHold'
  BY DEF CloseTab, IInv, TypeOK, RequestsHold, Gones
<1>7. AllHonest'
  <2>1. \A u \in Tabs : mem'[u] \in {mem[u], Empty}
    BY <1>2 DEF IInv, TypeOK
  <2>2. saved' = saved /\ Gones' = Gones /\ created' = created /\ acts' = acts
    BY DEF CloseTab, Gones
  <2> QED BY <1>1, <2>1, <2>2 DEF IInv, AllHonest
<1> QED BY <1>4, <1>5, <1>6, <1>7 DEF IInv

(***************************************************************************)
(* The tabs start with the invariant: every list is empty.                 *)
(***************************************************************************)
LEMMA InitHolds == Init => IInv
<1> SUFFICES ASSUME Init PROVE IInv
  OBVIOUS
<1>1. Empty \in List /\ Honest(Empty, Gones, created, 0)
  BY EntryKinds DEF Empty, List, Honest, Absent, CoverAt
<1>2. Saved(Empty) \in [there : BOOLEAN, list : List] /\ Saved(Empty).list = Empty
  BY <1>1 DEF Saved
<1>3. TypeOK
  BY <1>1, <1>2, TabAssumption DEF Init, TypeOK
<1>4. Closed /\ RequestsHold /\ AllHonest
  BY <1>1, <1>2 DEF Init, Closed, RequestsHold, AllHonest
<1> QED BY <1>3, <1>4 DEF IInv

(***************************************************************************)
(* Every step of the tabs, the server and the clock keeps the invariant.   *)
(***************************************************************************)
LEMMA NextKeeps == IInv /\ [Next]_vars => IInv'
<1> SUFFICES ASSUME IInv, [Next]_vars PROVE IInv'
  OBVIOUS
<1>1. CASE UNCHANGED vars
  BY <1>1 DEF vars, IInv, TypeOK, Closed, RequestsHold, AllHonest, Gones
<1>2. CASE Next
  <2> Noted
    BY <1>2 DEF Next
  <2>1. ASSUME NEW t \in Tabs, NEW i \in Links,
               \/ \E tok \in BOOLEAN : AddHistory(t, i, tok)
               \/ ToggleCover(t, i) \/ ForgetLink(t, i) \/ ClearTombstone(t, i)
               \/ \E from \in {"row", "tomb", "panel"} : ServerDelete(t, i, from)
        PROVE  IInv'
    BY <2>1, AddHistoryKeeps, ToggleCoverKeeps, ForgetLinkKeeps, ClearTombstoneKeeps,
       ServerDeleteKeeps
  <2>2. ASSUME NEW t \in Tabs, ClearAll(t) \/ ClearExpired(t)
        PROVE  IInv'
      <3>1. \A ids : (\A i \in ids \cap Links : mem[t][i].state # "none") /\ ClearRows(t, ids) => IInv'
      BY ClearRowsKeeps
    <3> QED BY <2>2, <3>1 DEF ClearAll, ClearExpired
  <2>3. ASSUME NEW t \in Tabs,
               \/ FlipPersist(t) \/ Load(t) \/ CloseTab(t)
               \/ StorageEvent(t) \/ TickForgetGrace(t) \/ ScheduleTick(t)
        PROVE  IInv'
    BY <2>3, FlipPersistKeeps, LoadKeeps, CloseTabKeeps, StorageEventKeeps,
       TickForgetGraceKeeps, ScheduleTickKeeps
  <2>4. ASSUME NEW r \in requests, AnswerGone(r) \/ AnswerFailed(r) \/ Serve(r)
        PROVE  IInv'
    BY <2>4, AnswerGoneKeeps, AnswerFailedKeeps, ServeKeeps
  <2>5. ASSUME NEW i \in Links, Expire(i)
        PROVE  IInv'
    BY <2>5, ExpireKeeps
  <2>6. CASE Tick
    BY <2>6, TickKeeps
  <2> QED BY <1>2, <2>1, <2>2, <2>3, <2>4, <2>5, <2>6 DEF Next, Handler
<1> QED BY <1>1, <1>2

(***************************************************************************)
(* The invariant holds throughout.                                         *)
(***************************************************************************)
THEOREM HistoryInvariant == Spec => []IInv
<1>1. Init => IInv
  BY InitHolds
<1>2. IInv /\ [Next]_vars => IInv'
  BY NextKeeps
<1> QED BY <1>1, <1>2, PTL DEF Spec

(***************************************************************************)
(* Every variable keeps its type: in particular no tombstone but that of a *)
(* link in its grace holds a token (tombstone in app.js).                  *)
(***************************************************************************)
THEOREM HistoryTypeCorrect == Spec => []TypeOK
<1>1. IInv => TypeOK
  BY DEF IInv
<1> QED BY <1>1, HistoryInvariant, PTL

(***************************************************************************)
(* No tab, and nothing saved, ever says of a link that still works that it *)
(* was deleted from the server (deleteFromServer and tombMessage).         *)
(***************************************************************************)
THEOREM SaysDeletedOfGone == Spec => []DeletedIsTrue
<1>1. IInv => DeletedIsTrue
  <2> SUFFICES ASSUME IInv, NEW i \in Links, SaysDeleted(i) PROVE i \in Gones
    BY DEF DeletedIsTrue, Gones
  <2> QED BY DEF IInv, AllHonest, Honest, SaysDeleted
<1> QED BY <1>1, HistoryInvariant, PTL
-----------------------------------------------------------------------------
(* Entries only move on.                                                   *)

(***************************************************************************)
(* An entry that stays has moved on; the ranks are those of mergeRank.     *)
(***************************************************************************)
LEMMA MovesReflexive ==
  ASSUME NEW e \in Entry, NEW other
  PROVE  MovesOn(e, other, e)
BY DEF MovesOn, Entry, CoverAt, MergeRank

(***************************************************************************)
(* The ranks, and that only a live entry has an eye.                       *)
(***************************************************************************)
LEMMA Ranks ==
  ASSUME NEW e \in Entry
  PROVE  /\ MergeRank(e) \in 0..2 /\ CoverAt(e) \in Nat
         /\ MergeRank(e) > 0 => CoverAt(e) = 0
         /\ Shown(e) => MergeRank(e) < 2
         /\ e.state = "cleared" <=> MergeRank(e) = 2
BY DEF Entry, CoverAt, MergeRank, Shown

(***************************************************************************)
(* What mergeHistories makes of a tab's entry has moved on from it.        *)
(***************************************************************************)
LEMMA MergeMoves ==
  ASSUME NEW a \in List, NEW b \in List, NEW s, NEW i \in Links
  PROVE  MovesOn(a[i], b[i], Merge(a, b, s)[i])
<1> DEFINE w == Winner(a[i], b[i])
<1>1. a[i] \in Entry /\ b[i] \in Entry /\ w \in {a[i], b[i]} /\ w \in Entry
  BY DEF List, Winner
<1>2. MovesOn(a[i], b[i], w)
  <2>1. CASE w = a[i]
    BY <1>1, <2>1, MovesReflexive
  <2>2. CASE w = b[i] /\ w # a[i]
    <3>1. b[i].state # "none" /\ (a[i].state = "none" \/ Wins(b[i], a[i]))
      BY <2>2 DEF Winner
    <3> QED BY <1>1, <2>2, <3>1, Ranks DEF MovesOn, Wins
  <2> QED BY <1>1, <2>1, <2>2
<1>3. Merge(a, b, s)[i] = Kept(w, s)
  BY DEF Merge
<1>4. CASE w.state = "cleared"
  <2>1. Absent.state = "none"
    BY DEF Absent
  <2> QED BY <1>1, <1>2, <1>3, <1>4, <2>1 DEF Kept, MovesOn
<1>5. CASE w.state # "cleared"
  BY <1>2, <1>3, <1>5 DEF Kept, Spent
<1> QED BY <1>4, <1>5

(***************************************************************************)
(* The purge of a grace leaves an entry where it was.                      *)
(***************************************************************************)
LEMMA PurgeMoves ==
  ASSUME NEW m \in List, NEW s, NEW i \in Links, NEW e \in Entry, NEW other,
         MovesOn(e, other, m[i])
  PROVE  MovesOn(e, other, Purged(m, s)[i])
<1>1. CASE Purged(m, s)[i] = m[i]
  BY <1>1
<1>2. CASE m[i].state = "forgotten" /\ Purged(m, s)[i] = Tombstone("forgotten")
  <2>1. /\ Tombstone("forgotten") \in Entry /\ Tombstone("forgotten").state = "forgotten"
        /\ MergeRank(Tombstone("forgotten")) = 1 /\ MergeRank(m[i]) = 1
        /\ CoverAt(Tombstone("forgotten")) = 0 /\ CoverAt(m[i]) = 0
    BY <1>2, EntryKinds DEF Tombstone, MergeRank, CoverAt
  <2> QED BY <1>2, <2>1 DEF MovesOn
<1> QED BY <1>1, <1>2, PurgedIsList

(***************************************************************************)
(* A tombstone or a certificate in the place of a row has moved on.        *)
(***************************************************************************)
LEMMA TombstoneMoves ==
  ASSUME NEW e \in Entry, NEW f \in Entry, NEW g \in Entry, NEW other,
         MovesOn(e, other, f), Shown(f), g.state # "none", MergeRank(g) > 0
  PROVE  MovesOn(e, other, g)
<1>1. /\ MergeRank(f) \in 0..2 /\ MergeRank(f) < 2 /\ MergeRank(g) \in 0..2 /\ MergeRank(e) \in 0..2
      /\ CoverAt(g) = 0 /\ CoverAt(g) \in Nat /\ (MergeRank(e) > 0 => CoverAt(e) = 0)
  BY Ranks
<1>2. f.state # "none"
  BY DEF Shown
<1> QED BY <1>1, <1>2 DEF MovesOn

(***************************************************************************)
(* What a handler adopts, and what may become of a list, tab by tab.       *)
(***************************************************************************)
LEMMA AdoptedMoves ==
  ASSUME IInv, NEW t \in Tabs, NEW i \in Links
  PROVE  MovesOn(mem[t][i], saved.list[i], Adopted(t)[i])
<1>1. mem[t] \in List /\ saved.list \in List /\ mem[t][i] \in Entry
  BY Handled DEF List
<1> QED BY <1>1, MergeMoves, MovesReflexive DEF Adopted

(***************************************************************************)
(* It is enough to look at the one list a step changes.                    *)
(***************************************************************************)
LEMMA OneTabMoves ==
  ASSUME IInv, NEW t \in Tabs, NEW n, mem' \in {mem, [mem EXCEPT ![t] = n]},
         \A i \in Links : MovesOn(mem[t][i], saved.list[i], n[i])
  PROVE  TabsMoveOn
<1> SUFFICES ASSUME NEW u \in Tabs, NEW i \in Links
             PROVE  MovesOn(mem[u][i], saved.list[i], mem'[u][i])
  BY DEF TabsMoveOn, IInv, TypeOK
<1>1. mem[u][i] \in Entry
  BY Handled DEF List
<1>2. mem'[u] = mem[u] \/ (u = t /\ mem'[u] = n)
  BY DEF IInv, TypeOK
<1> QED BY <1>1, <1>2, MovesReflexive

(***************************************************************************)
(* Creating a link: there was no entry of it.                              *)
(***************************************************************************)
LEMMA AddHistoryMoves ==
  ASSUME IInv, NEW t \in Tabs, NEW i \in Links, NEW tok \in BOOLEAN, AddHistory(t, i, tok)
  PROVE  TabsMoveOn
<1> DEFINE n == [Adopted(t) EXCEPT ![i] = Live(tok)]
<1>1. mem' \in {mem, [mem EXCEPT ![t] = n]} /\ i \notin created
  BY DEF AddHistory
<1>2. mem[t][i].state = "none"
  BY <1>1 DEF IInv, AllHonest, Honest
<1>3. ASSUME NEW j \in Links PROVE MovesOn(mem[t][j], saved.list[j], n[j])
  <2>1. j # i => n[j] = Adopted(t)[j]
    BY Handled DEF List
  <2> QED BY <1>2, <2>1, AdoptedMoves DEF MovesOn
<1> HIDE DEF n
<1> QED BY <1>1, <1>3, OneTabMoves

(***************************************************************************)
(* A click on an eye is later than every click before it.                  *)
(***************************************************************************)
LEMMA ToggleCoverMoves ==
  ASSUME IInv, NEW t \in Tabs, NEW i \in Links, ToggleCover(t, i)
  PROVE  TabsMoveOn
<1> DEFINE e == [mem[t][i] EXCEPT !.at = acts + 1]
           n == [mem[t] EXCEPT ![i] = e]
<1>1. mem[t] \in List /\ mem[t][i] \in Entry /\ mem[t][i].state = "live" /\ acts \in Nat
  BY Handled DEF List, ToggleCover
<1>2. e \in Entry /\ e.state = "live" /\ CoverAt(e) = acts + 1 /\ CoverAt(mem[t][i]) <= acts
  BY <1>1 DEF Entry, CoverAt, IInv, AllHonest, Honest
<1>3. MergeRank(e) = MergeRank(mem[t][i]) /\ CoverAt(mem[t][i]) \in Nat
  BY <1>1, <1>2, Ranks DEF MergeRank
<1>4. mem' \in {mem, [mem EXCEPT ![t] = n]}
  <2>1. n = [mem[t] EXCEPT ![i].at = acts + 1]
    OBVIOUS
  <2> QED BY <2>1, Zenon DEF ToggleCover
<1> HIDE DEF e
<1>5. ASSUME NEW j \in Links PROVE MovesOn(mem[t][j], saved.list[j], n[j])
  <2>1. CASE j = i
    <3>1. n[j] = e
      BY <1>1, <2>1 DEF List
    <3> QED BY <1>1, <1>2, <1>3, <2>1, <3>1 DEF MovesOn
  <2>2. CASE j # i
    <3>1. n[j] = mem[t][j] /\ mem[t][j] \in Entry
      BY <1>1, <2>2 DEF List
    <3> QED BY <3>1, MovesReflexive
  <2> QED BY <2>1, <2>2
<1> HIDE DEF n
<1> QED BY <1>4, <1>5, OneTabMoves

(***************************************************************************)
(* A row that was found is replaced by a tombstone or a certificate.       *)
(***************************************************************************)
LEMMA ReplacedMoves ==
  ASSUME IInv, NEW t \in Tabs, NEW i \in Links, Found(t, i),
         NEW e \in Entry, e.state # "none", MergeRank(e) > 0
  PROVE  /\ [Adopted(t) EXCEPT ![i] = e] \in List
         /\ \A j \in Links : MovesOn(mem[t][j], saved.list[j], [Adopted(t) EXCEPT ![i] = e][j])
<1> DEFINE n == [Adopted(t) EXCEPT ![i] = e]
<1>1. Adopted(t) \in List /\ n \in List /\ n[i] = e /\ \A j \in Links \ {i} : n[j] = Adopted(t)[j]
  BY Handled DEF List
<1>2. mem[t][i] \in Entry /\ Adopted(t)[i] \in Entry /\ Shown(Adopted(t)[i])
  BY <1>1, Handled DEF List, Found
<1>3. MovesOn(mem[t][i], saved.list[i], n[i])
  BY <1>1, <1>2, AdoptedMoves, TombstoneMoves
<1> HIDE DEF n
<1>4. ASSUME NEW j \in Links PROVE MovesOn(mem[t][j], saved.list[j], n[j])
  BY <1>1, <1>3, AdoptedMoves
<1> QED BY <1>1, <1>4 DEF n

(***************************************************************************)
(* findEntry and the tombstone put in place of what it finds.              *)
(***************************************************************************)
LEMMA OverwriteMoves ==
  ASSUME IInv, NEW t \in Tabs, NEW i \in Links, NEW e \in Entry, e.state # "none", MergeRank(e) > 0,
         Overwrite(t, i, e)
  PROVE  TabsMoveOn
<1>1. CASE Found(t, i)
  <2> DEFINE n == [Adopted(t) EXCEPT ![i] = e]
  <2>1. mem' \in {mem, [mem EXCEPT ![t] = n]}
    BY <1>1 DEF Overwrite
  <2>2. \A j \in Links : MovesOn(mem[t][j], saved.list[j], n[j])
    BY <1>1, ReplacedMoves
  <2> HIDE DEF n
  <2> QED BY <2>1, <2>2, OneTabMoves
<1>2. CASE ~Found(t, i)
  <2>1. mem' \in {mem, [mem EXCEPT ![t] = Adopted(t)]}
    BY <1>2 DEF Overwrite
  <2> QED BY <2>1, AdoptedMoves, OneTabMoves
<1> QED BY <1>1, <1>2

(***************************************************************************)
(* forgetLink leaves a tombstone of a row it found, and purges.            *)
(***************************************************************************)
LEMMA ForgetLinkMoves ==
  ASSUME IInv, NEW t \in Tabs, NEW i \in Links, ForgetLink(t, i)
  PROVE  TabsMoveOn
<1> DEFINE e == Forgotten(i, Adopted(t)[i])
           m == [Adopted(t) EXCEPT ![i] = e]
           n == IF e.token THEN Purged(m, now) ELSE m
<1>1. e \in Entry /\ e.state # "none" /\ MergeRank(e) > 0
  BY EntryKinds, Handled, ListAssumption DEF Forgotten, Tombstone, InGrace, MergeRank
<1>2. CASE Found(t, i)
  <2>1. mem' \in {mem, [mem EXCEPT ![t] = n]}
    BY <1>2 DEF ForgetLink
  <2> HIDE DEF e
  <2>2. m \in List /\ \A j \in Links : MovesOn(mem[t][j], saved.list[j], m[j])
    BY <1>1, <1>2, ReplacedMoves
  <2>3. \A j \in Links : mem[t][j] \in Entry
    BY Handled DEF List
  <2> HIDE DEF m
  <2>4. ASSUME NEW j \in Links PROVE MovesOn(mem[t][j], saved.list[j], n[j])
    BY <2>2, <2>3, PurgeMoves
  <2> HIDE DEF n
  <2> QED BY <2>1, <2>4, OneTabMoves
<1>3. CASE ~Found(t, i)
  <2>1. mem' \in {mem, [mem EXCEPT ![t] = Adopted(t)]}
    BY <1>3 DEF ForgetLink
  <2> QED BY <2>1, AdoptedMoves, OneTabMoves
<1> QED BY <1>2, <1>3

(***************************************************************************)
(* A certificate moves on from anything, itself included.                  *)
(***************************************************************************)
LEMMA ClearRowsMoves ==
  ASSUME IInv, NEW t \in Tabs, NEW ids, ClearRows(t, ids)
  PROVE  TabsMoveOn
<1> DEFINE n == [i \in Links |-> IF i \in ids THEN ClearedMarker(now) ELSE mem[t][i]]
<1>1. mem' \in {mem, [mem EXCEPT ![t] = n]}
  BY DEF ClearRows
<1>2. ASSUME NEW j \in Links PROVE MovesOn(mem[t][j], saved.list[j], n[j])
  <2>1. mem[t][j] \in Entry
    BY Handled DEF List
  <2>2. CASE j \in ids
    <3>1. /\ n[j] = ClearedMarker(now) /\ ClearedMarker(now) \in Entry
          /\ ClearedMarker(now).state = "cleared"
      BY <2>2, EntryKinds, Handled DEF ClearedMarker
    <3>2. MergeRank(n[j]) = 2 /\ CoverAt(n[j]) = 0 /\ n[j].state # "none"
      BY <3>1, Ranks
    <3> QED BY <2>1, <3>2, Ranks DEF MovesOn
  <2>3. CASE j \notin ids
    BY <2>1, <2>3, MovesReflexive
  <2> QED BY <2>2, <2>3
<1> HIDE DEF n
<1> QED BY <1>1, <1>2, OneTabMoves

(***************************************************************************)
(* What happens to a tab only merges its list, and purges it.              *)
(***************************************************************************)
LEMMA ArrivalMoves ==
  ASSUME IInv, NEW t \in Tabs,
         FlipPersist(t) \/ StorageEvent(t) \/ TickForgetGrace(t)
  PROVE  TabsMoveOn
<1> DEFINE m == Merge(mem[t], saved.list, now)
<1>1. mem[t] \in List /\ saved.list \in List /\ m \in List /\ \A j \in Links : mem[t][j] \in Entry
  BY Handled DEF List
<1>2. ASSUME NEW j \in Links
      PROVE  /\ MovesOn(mem[t][j], saved.list[j], m[j])
             /\ MovesOn(mem[t][j], saved.list[j], Purged(m, now)[j])
             /\ MovesOn(mem[t][j], saved.list[j], Purged(mem[t], now)[j])
  <2>1. MovesOn(mem[t][j], saved.list[j], m[j])
    BY <1>1, MergeMoves
  <2>2. MovesOn(mem[t][j], saved.list[j], mem[t][j])
    BY <1>1, MovesReflexive
  <2> QED BY <1>1, <2>1, <2>2, PurgeMoves
<1> HIDE DEF m
<1>3. \/ mem' \in {mem, [mem EXCEPT ![t] = m]}
      \/ mem' \in {mem, [mem EXCEPT ![t] = Purged(m, now)]}
      \/ mem' \in {mem, [mem EXCEPT ![t] = Purged(mem[t], now)]}
  BY DEF FlipPersist, StorageEvent, HistoryEvent, PersistEvent, TickForgetGrace, m
<1> QED BY <1>2, <1>3, OneTabMoves

(***************************************************************************)
(* The list of a tab that opens or closes is not one that stays open.      *)
(***************************************************************************)
LEMMA OpeningMoves ==
  ASSUME IInv, NEW t \in Tabs, Load(t) \/ CloseTab(t)
  PROVE  TabsMoveOn
<1> SUFFICES ASSUME NEW u \in open \cap open', NEW i \in Links
             PROVE  MovesOn(mem[u][i], saved.list[i], mem'[u][i])
  BY DEF TabsMoveOn
<1>1. u \in Tabs /\ mem[u][i] \in Entry
  BY Handled DEF List, IInv, TypeOK
<1>2. mem'[u] = mem[u]
  BY <1>1 DEF Load, CloseTab, IInv, TypeOK
<1> QED BY <1>1, <1>2, MovesReflexive

(***************************************************************************)
(* Every step moves every entry on.                                        *)
(***************************************************************************)
LEMMA NextMoves == IInv /\ [Next]_vars => [TabsMoveOn]_vars
<1> SUFFICES ASSUME IInv, Next PROVE TabsMoveOn
  OBVIOUS
<1>1. CASE mem' = mem
  <2>1. \A t \in Tabs, i \in Links : mem[t][i] \in Entry
    BY Handled DEF List
  <2> QED BY <1>1, <2>1, MovesReflexive DEF TabsMoveOn, IInv, TypeOK
<1>2. ASSUME NEW t \in Tabs, NEW i \in Links,
             \/ \E tok \in BOOLEAN : AddHistory(t, i, tok)
             \/ ToggleCover(t, i) \/ ForgetLink(t, i) \/ ClearTombstone(t, i)
             \/ \E from \in {"row", "tomb", "panel"} : ServerDelete(t, i, from)
      PROVE  TabsMoveOn
  <2>1. /\ ClearedMarker(now) \in Entry /\ ClearedMarker(now).state # "none"
        /\ MergeRank(ClearedMarker(now)) > 0
    BY EntryKinds, Handled DEF ClearedMarker, MergeRank
  <2>2. ClearTombstone(t, i) => TabsMoveOn
    BY <2>1, OverwriteMoves DEF ClearTombstone
  <2>3. \A from \in {"row", "tomb", "panel"} : ServerDelete(t, i, from) => mem' = mem
    BY DEF ServerDelete
  <2> QED BY <1>1, <1>2, <2>2, <2>3, AddHistoryMoves, ToggleCoverMoves, ForgetLinkMoves
<1>3. ASSUME NEW t \in Tabs, ClearAll(t) \/ ClearExpired(t)
      PROVE  TabsMoveOn
  BY <1>3, ClearRowsMoves DEF ClearAll, ClearExpired
<1>4. ASSUME NEW t \in Tabs,
             \/ FlipPersist(t) \/ Load(t) \/ CloseTab(t)
             \/ StorageEvent(t) \/ TickForgetGrace(t) \/ ScheduleTick(t)
      PROVE  TabsMoveOn
  <2>1. ScheduleTick(t) => mem' = mem
    BY DEF ScheduleTick
  <2> QED BY <1>1, <1>4, <2>1, ArrivalMoves, OpeningMoves
<1>5. ASSUME NEW r \in requests, AnswerGone(r) \/ AnswerFailed(r) \/ Serve(r)
      PROVE  TabsMoveOn
  <2>1. r.tab \in Tabs /\ r.link \in Links
    BY DEF IInv, TypeOK, Request
  <2>2. /\ Tombstone("deleted") \in Entry /\ Tombstone("deleted").state # "none"
        /\ MergeRank(Tombstone("deleted")) > 0
    BY EntryKinds DEF Tombstone, MergeRank
  <2>3. AnswerGone(r) => TabsMoveOn
    BY <2>1, <2>2, OverwriteMoves DEF AnswerGone
  <2>4. AnswerFailed(r) \/ Serve(r) => mem' = mem
    BY DEF AnswerFailed, Serve
  <2> QED BY <1>1, <1>5, <2>3, <2>4
<1>6. (\E i \in Links : Expire(i)) \/ Tick => mem' = mem
  BY DEF Expire, Tick
<1> QED BY <1>1, <1>2, <1>3, <1>4, <1>5, <1>6 DEF Next, Handler

(***************************************************************************)
(* In a tab that stays open an entry only moves on, from live to tombstone *)
(* to certificate, and its eye never goes back to an older choice; it      *)
(* vanishes only by a certificate (mergeHistories, and every handler that  *)
(* overwrites what it finds).                                              *)
(***************************************************************************)
THEOREM EntriesAdvance == Spec => EntriesMoveOn
<1>1. IInv /\ [Next]_vars => [TabsMoveOn]_vars
  BY NextMoves
<1> QED BY <1>1, HistoryInvariant, PTL DEF Spec, EntriesMoveOn
-----------------------------------------------------------------------------
(* The tabs agree when they are at rest.                                   *)

Has(q, k) == \E j \in 1..Len(q) : q[j] = k

\* Two lists that differ in certificates at most that have had their time.
Same(a, b, s) == \A i \in Links : Kept(a[i], s) = Kept(b[i], s)

(***************************************************************************)
(* What a tab knows of the switch and of the list is what is stored, or a  *)
(* storage event is on its way to it.                                      *)
(***************************************************************************)
Told(t) == /\ on[t] = flag \/ Has(events[t], "persist")
           /\ on[t] => Same(mem[t], saved.list, now) \/ events[t] # <<>>

Agree == \A t \in open : Told(t)

(***************************************************************************)
(* A certificate that is dropped is dropped for good: to drop a second     *)
(* time, or later, changes nothing.                                        *)
(***************************************************************************)
LEMMA KeptOnce ==
  ASSUME NEW e \in Entry, NEW s \in Nat
  PROVE  /\ Kept(Kept(e, s), s) = Kept(e, s)
         /\ Kept(Kept(e, s), s + 1) = Kept(e, s + 1)
         /\ Kept(e, s) \in Entry
<1>1. Absent.state = "none" /\ Absent \in Entry
  BY EntryKinds DEF Absent
<1>2. e.at \in Nat /\ ClearedTtl \in Nat
  BY ListAssumption DEF Entry
<1> QED BY <1>1, <1>2 DEF Kept, Spent

(***************************************************************************)
(* Two lists that agree are merged to one that agrees with both, and they  *)
(* still agree when the clock has moved on.                                *)
(***************************************************************************)
LEMMA SameKept ==
  ASSUME NEW a \in List, NEW b \in List, NEW s \in Nat, Same(a, b, s)
  PROVE  Same(Merge(a, b, s), b, s) /\ Same(a, b, s + 1)
<1>1. ASSUME NEW i \in Links
      PROVE  Kept(Merge(a, b, s)[i], s) = Kept(b[i], s) /\ Kept(a[i], s + 1) = Kept(b[i], s + 1)
  <2>1. a[i] \in Entry /\ b[i] \in Entry /\ Kept(a[i], s) = Kept(b[i], s)
    BY DEF List, Same
  <2>2. PICK w \in {a[i], b[i]} : w = Winner(a[i], b[i])
    BY DEF Winner
  <2>3. Merge(a, b, s)[i] = Kept(w, s)
    BY <2>2 DEF Merge
  <2>4. Kept(Kept(w, s), s) = Kept(b[i], s)
    BY <2>1, KeptOnce
  <2>5. /\ Kept(Kept(a[i], s), s + 1) = Kept(a[i], s + 1)
        /\ Kept(Kept(b[i], s), s + 1) = Kept(b[i], s + 1)
    BY <2>1, KeptOnce
  <2> QED BY <2>1, <2>3, <2>4, <2>5
<1> QED BY <1>1 DEF Same

(***************************************************************************)
(* An announcement reaches every other open tab, behind what it has yet to *)
(* handle.                                                                 *)
(***************************************************************************)
LEMMA AnnouncedReaches ==
  ASSUME NEW t, NEW q, Queues(q), NEW keys \in Seq(Key), NEW r, r = Announced(q, t, keys),
         NEW u \in Tabs
  PROVE  /\ Has(q[u], "persist") => Has(r[u], "persist")
         /\ q[u] # <<>> => r[u] # <<>>
         /\ u \in open \ {t} => /\ keys # <<>> => r[u] # <<>>
                                /\ Has(keys, "persist") => Has(r[u], "persist")
         /\ u = t => r[u] = q[u]
<1>1. q[u] \in Seq(Key)
  BY DEF Queues
<1>2. CASE u \in open \ {t}
  <2>1. Announced(q, t, keys)[u] = q[u] \o keys
    BY <1>2 DEF Announced
  <2>2. PICK both : both = q[u] \o keys
    OBVIOUS
  <2>3. /\ both \in Seq(Key) /\ Len(both) = Len(q[u]) + Len(keys)
        /\ \A j \in 1..Len(q[u]) : both[j] = q[u][j]
        /\ \A j \in 1..Len(keys) : both[Len(q[u]) + j] = keys[j]
    BY <1>1, <2>2
  <2>4. \A j \in 1..Len(q[u]) : j \in 1..Len(both)
    BY <1>1, <2>3
  <2>5. \A j \in 1..Len(keys) : Len(q[u]) + j \in 1..Len(both)
    BY <1>1, <2>3
  <2>6. (q[u] # <<>> \/ keys # <<>>) => both # <<>>
    BY <1>1, <2>3
  <2>7. Announced(q, t, keys)[u] = both
    BY <2>1, <2>2
  <2> QED BY <1>2, <2>3, <2>4, <2>5, <2>6, <2>7 DEF Has
<1>3. CASE u \notin open \ {t}
  BY <1>3 DEF Announced
<1> QED BY <1>2, <1>3

(***************************************************************************)
(* A handler in one tab leaves the tabs in agreement if that tab is, and   *)
(* the others are told of what it writes.                                  *)
(***************************************************************************)
LEMMA OneTabAgrees ==
  ASSUME Agree, now' = now, NEW t,
         \A u \in open' \ {t} :
            /\ u \in open /\ mem'[u] = mem[u] /\ on'[u] = on[u]
            /\ Has(events[u], "persist") => Has(events'[u], "persist")
            /\ events[u] # <<>> => events'[u] # <<>>
            /\ saved' = saved \/ events'[u] # <<>>
            /\ flag' = flag \/ Has(events'[u], "persist"),
         t \in open' => Told(t)'
  PROVE  Agree'
<1>1. ASSUME NEW u \in open' \ {t} PROVE Told(u)'
  <2>1. Told(u)
    BY DEF Agree
  <2> QED BY <2>1 DEF Told
<1> QED BY <1>1 DEF Agree

(***************************************************************************)
(* What persistNow writes is told to the others; q: the events when the    *)
(* handler has taken its own.                                              *)
(***************************************************************************)
LEMMA PersistTells ==
  ASSUME IInv, NEW t \in Tabs, NEW q, Queues(q), NEW m, NEW n, PersistTwice(t, q, m, n)
  PROVE  /\ saved' = (IF on[t] THEN Saved(n) ELSE saved)
         /\ events'[t] = q[t]
         /\ \A u \in open \ {t} :
              /\ Has(q[u], "persist") => Has(events'[u], "persist")
              /\ q[u] # <<>> => events'[u] # <<>>
              /\ saved' = saved \/ events'[u] # <<>>
<1> DEFINE keys == (IF saved # Saved(m) THEN <<"history">> ELSE <<>>)
                    \o (IF m # n THEN <<"history">> ELSE <<>>)
<1>0. open \subseteq Tabs
  BY DEF IInv, TypeOK
<1>1. CASE on[t]
  <2>1. keys \in Seq(Key) /\ (saved # Saved(m) \/ m # n => keys # <<>>)
    <3>1. <<>> \in Seq(Key) /\ <<"history">> \in Seq(Key)
      BY DEF Key
    <3>2. \A j, k \in Seq(Key) : j \o k \in Seq(Key) /\ (j # <<>> \/ k # <<>> => j \o k # <<>>)
      OBVIOUS
    <3>3. <<"history">> # <<>>
      OBVIOUS
    <3> QED BY <3>1, <3>2, <3>3
  <2>2. saved' = Saved(n) /\ events' = Announced(q, t, keys)
    BY <1>1 DEF PersistTwice
  <2> HIDE DEF keys
  <2>3. saved' = saved \/ keys # <<>>
    BY <2>1, <2>2
  <2> QED BY <1>0, <1>1, <2>1, <2>2, <2>3, AnnouncedReaches
<1>2. CASE ~on[t]
  BY <1>2 DEF PersistTwice
<1> QED BY <1>1, <1>2

(***************************************************************************)
(* A tab that writes the list it now has agrees with what is saved.        *)
(***************************************************************************)
LEMMA PersistAgrees ==
  ASSUME IInv, Agree, NEW t \in open, NEW q, Queues(q), \A u \in Tabs \ {t} : q[u] = events[u],
         Has(events[t], "persist") => Has(q[t], "persist"),
         NEW m, NEW n, PersistTwice(t, q, m, n), mem' = [mem EXCEPT ![t] = n],
         UNCHANGED <<now, open, on, flag>>
  PROVE  Agree'
<1>0. t \in Tabs /\ open \subseteq Tabs
  BY DEF IInv, TypeOK
<1>1. /\ saved' = (IF on[t] THEN Saved(n) ELSE saved)
      /\ events'[t] = q[t]
      /\ \A u \in open \ {t} :
           /\ Has(q[u], "persist") => Has(events'[u], "persist")
           /\ q[u] # <<>> => events'[u] # <<>>
           /\ saved' = saved \/ events'[u] # <<>>
  BY <1>0, PersistTells
<1>2. mem'[t] = n /\ \A u \in open \ {t} : mem'[u] = mem[u]
  BY <1>0 DEF IInv, TypeOK
<1>3. Told(t)'
  <2>1. on'[t] = flag' \/ Has(events'[t], "persist")
    BY <1>1 DEF Agree, Told
  <2>2. on'[t] => Same(mem'[t], saved'.list, now')
    BY <1>1, <1>2 DEF Same, Saved
  <2> QED BY <2>1, <2>2 DEF Told
<1> QED BY <1>0, <1>1, <1>2, <1>3, OneTabAgrees

(***************************************************************************)
(* A tab that agreed with what is saved still does when it has merged it.  *)
(***************************************************************************)
LEMMA AdoptAgrees ==
  ASSUME IInv, Agree, NEW t \in open, mem' = [mem EXCEPT ![t] = Adopted(t)],
         UNCHANGED <<now, open, on, flag, saved, events>>
  PROVE  Agree'
<1>0. t \in Tabs /\ open \subseteq Tabs /\ mem[t] \in List /\ saved.list \in List /\ now \in Nat
  BY Handled DEF IInv, TypeOK
<1>1. mem'[t] = Adopted(t) /\ \A u \in open \ {t} : mem'[u] = mem[u]
  BY <1>0 DEF IInv, TypeOK
<1>2. Told(t)'
  BY <1>0, <1>1, SameKept DEF Told, Agree, Adopted
<1> QED BY <1>1, <1>2, OneTabAgrees

LEMMA OverwriteAgrees ==
  ASSUME IInv, Agree, NEW t \in open, NEW i, NEW e, Overwrite(t, i, e),
         UNCHANGED <<now, open, on, flag>>
  PROVE  Agree'
<1> DEFINE n == [Adopted(t) EXCEPT ![i] = e]
<1>0. t \in Tabs /\ Queues(events)
  BY Handled DEF IInv, TypeOK
<1>1. CASE Found(t, i)
  <2>1. mem' = [mem EXCEPT ![t] = n] /\ PersistTwice(t, events, n, n)
    BY <1>1 DEF Overwrite, Persist
  <2> HIDE DEF n
  <2> QED BY <1>0, <2>1, PersistAgrees
<1>2. CASE ~Found(t, i)
  BY <1>2, AdoptAgrees DEF Overwrite
<1> QED BY <1>1, <1>2

(***************************************************************************)
(* The handlers of a click, of a timer, and of an answer.                  *)
(***************************************************************************)
LEMMA ClickAgrees ==
  ASSUME IInv, Agree, NEW t \in Tabs, NEW i \in Links,
         \/ \E tok \in BOOLEAN : AddHistory(t, i, tok)
         \/ ToggleCover(t, i) \/ ForgetLink(t, i) \/ ClearTombstone(t, i)
  PROVE  Agree'
<1>0. Queues(events)
  BY Handled
<1>1. ASSUME NEW tok \in BOOLEAN, AddHistory(t, i, tok) PROVE Agree'
  <2>1. PICK n : mem' = [mem EXCEPT ![t] = n] /\ PersistTwice(t, events, n, n)
    BY <1>1 DEF AddHistory, Persist
  <2> QED BY <1>0, <1>1, <2>1, PersistAgrees DEF AddHistory
<1>2. CASE ToggleCover(t, i)
  <2>1. PICK n : n = [mem[t] EXCEPT ![i].at = acts + 1]
    OBVIOUS
  <2>2. mem' = [mem EXCEPT ![t] = n] /\ PersistTwice(t, events, n, n)
    BY <1>2, <2>1, Zenon DEF ToggleCover, Persist
  <2>3. t \in open /\ UNCHANGED <<now, open, on, flag>>
    BY <1>2 DEF ToggleCover
  <2> QED BY <1>0, <2>2, <2>3, PersistAgrees
<1>3. CASE ForgetLink(t, i)
  <2>1. CASE Found(t, i)
    <3>1. PICK n : mem' = [mem EXCEPT ![t] = n] /\ PersistTwice(t, events, n, n)
      BY <1>3, <2>1 DEF ForgetLink, Persist
    <3> QED BY <1>0, <1>3, <3>1, PersistAgrees DEF ForgetLink
  <2>2. CASE ~Found(t, i)
    BY <1>3, <2>2, AdoptAgrees DEF ForgetLink
  <2> QED BY <2>1, <2>2
<1>4. CASE ClearTombstone(t, i)
  BY <1>4, OverwriteAgrees DEF ClearTombstone
<1> QED BY <1>1, <1>2, <1>3, <1>4

LEMMA TabAgrees ==
  ASSUME IInv, Agree, NEW t \in Tabs,
         ClearAll(t) \/ ClearExpired(t) \/ TickForgetGrace(t) \/ ScheduleTick(t)
  PROVE  Agree'
<1>0. Queues(events) /\ mem = [mem EXCEPT ![t] = mem[t]]
  BY Handled DEF IInv, TypeOK
<1>1. ASSUME NEW ids, ClearRows(t, ids) PROVE Agree'
  <2>1. PICK n : mem' = [mem EXCEPT ![t] = n] /\ PersistTwice(t, events, n, n)
    BY <1>1 DEF ClearRows, Persist
  <2> QED BY <1>0, <1>1, <2>1, PersistAgrees DEF ClearRows
<1>2. CASE TickForgetGrace(t)
  <2>1. t \in open
    <3>1. Purged(Empty, now) = Empty
      BY DEF Purged, Empty, Lapsed, Absent
    <3> QED BY <1>2, <3>1 DEF TickForgetGrace, IInv, Closed
  <2>2. PICK n : mem' = [mem EXCEPT ![t] = n] /\ PersistTwice(t, events, n, n)
    BY <1>2 DEF TickForgetGrace, Persist
  <2> QED BY <1>0, <1>2, <2>1, <2>2, PersistAgrees DEF TickForgetGrace
<1>3. CASE ScheduleTick(t)
  <2>1. t \in open
    BY <1>3 DEF ScheduleTick, IInv, TypeOK
  <2>2. CASE PersistTwice(t, events, mem[t], mem[t])
    BY <1>0, <1>3, <2>1, <2>2, PersistAgrees DEF ScheduleTick
  <2>3. CASE UNCHANGED <<saved, events>>
    BY <1>3, <2>3 DEF ScheduleTick, Agree, Told
  <2> QED BY <1>3, <2>2, <2>3 DEF ScheduleTick, Persist
<1> QED BY <1>1, <1>2, <1>3 DEF ClearAll, ClearExpired

LEMMA AnswerAgrees ==
  ASSUME IInv, Agree, NEW r \in requests, AnswerGone(r) \/ AnswerFailed(r) \/ Serve(r)
  PROVE  Agree'
<1>0. r.tab \in open /\ r.tab \in Tabs
  BY DEF IInv, TypeOK, RequestsHold
<1>1. Queues(events) /\ mem = [mem EXCEPT ![r.tab] = mem[r.tab]]
  BY <1>0, Handled DEF IInv, TypeOK
<1>2. CASE AnswerGone(r)
  BY <1>0, <1>2, OverwriteAgrees DEF AnswerGone
<1>3. CASE AnswerFailed(r)
  <2>1. CASE PersistTwice(r.tab, events, mem[r.tab], mem[r.tab])
    BY <1>0, <1>1, <1>3, <2>1, PersistAgrees DEF AnswerFailed
  <2>2. CASE UNCHANGED <<saved, events>>
    BY <1>3, <2>2 DEF AnswerFailed, Agree, Told
  <2> QED BY <1>3, <2>1, <2>2 DEF AnswerFailed, Persist
<1>4. CASE Serve(r)
  BY <1>4 DEF Serve, Agree, Told
<1> QED BY <1>2, <1>3, <1>4

(***************************************************************************)
(* setPersist: who is not told of the list is told of the switch.          *)
(***************************************************************************)
LEMMA FlipAgrees ==
  ASSUME IInv, Agree, NEW t \in Tabs, FlipPersist(t)
  PROVE  Agree'
<1> DEFINE m == Merge(mem[t], saved.list, now)
<1>0. /\ t \in open /\ open' = open /\ open \subseteq Tabs /\ now' = now /\ Queues(events)
      /\ flag \in BOOLEAN /\ \A u \in open \ {t} : on'[u] = on[u] /\ on[u] \in BOOLEAN
  BY Handled DEF FlipPersist, IInv, TypeOK
<1>1. \A j, k \in Seq(Key) : /\ j \o k \in Seq(Key) /\ (j # <<>> \/ k # <<>> => j \o k # <<>>)
                             /\ \A x : Has(j, x) => Has(j \o k, x)
  <2> SUFFICES ASSUME NEW j \in Seq(Key), NEW k \in Seq(Key)
               PROVE  /\ j \o k \in Seq(Key) /\ (j # <<>> \/ k # <<>> => j \o k # <<>>)
                      /\ \A x : Has(j, x) => Has(j \o k, x)
    OBVIOUS
  <2>1. j \o k \in Seq(Key) /\ (j # <<>> \/ k # <<>> => j \o k # <<>>) /\ Len(j \o k) >= Len(j)
        /\ \A x \in 1..Len(j) : (j \o k)[x] = j[x]
    OBVIOUS
  <2>2. \A x \in 1..Len(j) : x \in 1..Len(j \o k)
    BY <2>1
  <2> QED BY <2>1, <2>2 DEF Has
<1>2. /\ <<>> \in Seq(Key) /\ <<"persist">> \in Seq(Key) /\ <<"history">> \in Seq(Key)
      /\ <<"history">> # <<>> /\ <<"persist">> # <<>> /\ Has(<<"persist">>, "persist")
  <2>1. Len(<<"persist">>) = 1 /\ <<"persist">>[1] = "persist"
    OBVIOUS
  <2> QED BY <2>1 DEF Key, Has
<1>3. CASE on[t]
  <2>1. PICK keys \in Seq(Key) :
          /\ events' = Announced(events, t, keys)
          /\ flag => Has(keys, "persist")
    BY <1>1, <1>2, <1>3 DEF FlipPersist
  <2>2. flag' = FALSE /\ mem' = mem /\ on'[t] = FALSE
    BY <1>3 DEF FlipPersist, IInv, TypeOK
  <2>3. ASSUME NEW u \in open \ {t} PROVE Told(u)'
    <3>1. Told(u) /\ u \in Tabs
      BY <1>0 DEF Agree
    <3>2. on'[u] = flag' \/ Has(events'[u], "persist")
      <4>1. Has(events[u], "persist") => Has(events'[u], "persist")
        BY <1>0, <2>1, <3>1, AnnouncedReaches
      <4>2. flag => Has(events'[u], "persist")
        BY <1>0, <2>1, <3>1, AnnouncedReaches
      <4> QED BY <1>0, <2>2, <3>1, <4>1, <4>2 DEF Told
    <3>3. Has(events'[u], "persist") => events'[u] # <<>>
      BY DEF Has
    <3> QED BY <1>0, <2>2, <3>2, <3>3 DEF Told
  <2>4. Told(t)'
    BY <2>2 DEF Told
  <2> QED BY <1>0, <2>3, <2>4 DEF Agree
<1>4. CASE ~on[t]
  <2>1. PICK keys \in Seq(Key) :
          /\ events' = Announced(events, t, keys)
          /\ ~flag => Has(keys, "persist")
          /\ saved # Saved(m) => keys # <<>>
    BY <1>1, <1>2, <1>4 DEF FlipPersist
  <2>2. flag' = TRUE /\ mem' = [mem EXCEPT ![t] = m] /\ saved' = Saved(m) /\ on'[t] = TRUE
    BY <1>4 DEF FlipPersist, IInv, TypeOK
  <2>3. mem'[t] = m /\ \A u \in open \ {t} : mem'[u] = mem[u]
    BY <1>0, <2>2 DEF IInv, TypeOK
  <2> HIDE DEF m
  <2>4. Told(t)'
    BY <2>2, <2>3 DEF Told, Same, Saved
  <2>5. ASSUME NEW u \in open \ {t}
        PROVE  /\ Has(events[u], "persist") => Has(events'[u], "persist")
               /\ events[u] # <<>> => events'[u] # <<>>
               /\ saved' = saved \/ events'[u] # <<>>
               /\ flag' = flag \/ Has(events'[u], "persist")
    <3>1. u \in Tabs
      BY <1>0
    <3>2. /\ Has(events[u], "persist") => Has(events'[u], "persist")
          /\ events[u] # <<>> => events'[u] # <<>>
          /\ keys # <<>> => events'[u] # <<>>
          /\ Has(keys, "persist") => Has(events'[u], "persist")
      BY <1>0, <2>1, <3>1, AnnouncedReaches
    <3>3. saved' = saved \/ events'[u] # <<>>
      BY <2>1, <2>2, <3>2
    <3>4. flag' = flag \/ Has(events'[u], "persist")
      BY <1>0, <2>1, <2>2, <3>2
    <3> QED BY <3>2, <3>3, <3>4
  <2> QED BY <1>0, <2>3, <2>4, <2>5, OneTabAgrees
<1> QED BY <1>3, <1>4

(***************************************************************************)
(* The storage listener: what it was told is now what the tab knows.       *)
(***************************************************************************)
LEMMA EventAgrees ==
  ASSUME IInv, Agree, NEW t \in Tabs, StorageEvent(t)
  PROVE  Agree'
<1> DEFINE q == [events EXCEPT ![t] = Tail(@)]
           m == Merge(mem[t], saved.list, now)
           n == Purged(m, now)
<1>0. /\ events[t] # <<>> /\ events[t] \in Seq(Key) /\ events \in [Tabs -> Seq(Key)]
      /\ open \subseteq Tabs /\ UNCHANGED <<now, open>>
  BY DEF StorageEvent, IInv, TypeOK
<1>1. /\ t \in open /\ Queues(q) /\ q[t] = Tail(events[t])
      /\ \A u \in Tabs \ {t} : q[u] = events[u]
  <2>1. Tail(events[t]) \in Seq(Key)
    BY <1>0
  <2>2. t \in open
    BY <1>0 DEF IInv, Closed
  <2> QED BY <1>0, <2>1, <2>2 DEF IInv, Closed, Queues
<1> HIDE DEF q
<1>2. CASE Head(events[t]) = "history" /\ HistoryEvent(t, q)
  <2>1. Has(events[t], "persist") => Has(q[t], "persist")
    <3> SUFFICES ASSUME NEW j \in 1..Len(events[t]), events[t][j] = "persist"
                 PROVE  Has(Tail(events[t]), "persist")
      BY <1>1 DEF Has
    <3>1. j # 1
      BY <1>0, <1>2
    <3>2. j - 1 \in 1..Len(Tail(events[t])) /\ Tail(events[t])[j - 1] = events[t][j]
      BY <1>0, <3>1
    <3> QED BY <3>2 DEF Has
  <2>2. CASE on[t]
    <3>1. mem' = [mem EXCEPT ![t] = n] /\ PersistTwice(t, q, m, n) /\ UNCHANGED <<flag, on>>
      BY <1>2, <2>2 DEF HistoryEvent
    <3> HIDE DEF m, n
    <3> QED BY <1>0, <1>1, <2>1, <3>1, PersistAgrees
  <2>3. CASE ~on[t]
    <3>1. UNCHANGED <<saved, flag, mem, on>> /\ events' = q
      BY <1>2, <2>3 DEF HistoryEvent
    <3>2. Told(t)'
      BY <1>0, <1>1, <2>1, <2>3, <3>1 DEF Told, Agree
    <3> QED BY <1>0, <1>1, <3>1, <3>2, OneTabAgrees
  <2> QED BY <2>2, <2>3
<1>3. CASE PersistEvent(t, q)
  <2>0. flag' = flag /\ on'[t] = flag /\ \A u \in open \ {t} : on'[u] = on[u]
    BY <1>0, <1>3 DEF PersistEvent, IInv, TypeOK
  <2>1. CASE flag
    <3>1. /\ mem' = [mem EXCEPT ![t] = m] /\ saved' = Saved(m)
          /\ events' = Announced(q, t, IF saved # Saved(m) THEN <<"history">> ELSE <<>>)
      BY <1>3, <2>1 DEF PersistEvent
    <3>2. PICK keys \in Seq(Key) : events' = Announced(q, t, keys) /\ (saved # Saved(m) => keys # <<>>)
      <4>1. <<>> \in Seq(Key) /\ <<"history">> \in Seq(Key) /\ <<"history">> # <<>>
        BY DEF Key
      <4> QED BY <3>1, <4>1
    <3>3. mem'[t] = m /\ \A u \in open \ {t} : mem'[u] = mem[u]
      BY <1>0, <3>1 DEF IInv, TypeOK
    <3> HIDE DEF m
    <3>4. Told(t)'
      BY <2>0, <3>1, <3>3 DEF Told, Same, Saved
    <3>5. ASSUME NEW u \in open \ {t}
          PROVE  /\ Has(events[u], "persist") => Has(events'[u], "persist")
                 /\ events[u] # <<>> => events'[u] # <<>>
                 /\ saved' = saved \/ events'[u] # <<>>
      <4>1. u \in Tabs \ {t} /\ q[u] = events[u]
        BY <1>0, <1>1
      <4> QED BY <1>0, <1>1, <3>1, <3>2, <4>1, AnnouncedReaches
    <3> QED BY <1>0, <2>0, <3>3, <3>4, <3>5, OneTabAgrees
  <2>2. CASE ~flag
    <3>1. UNCHANGED <<saved, mem>> /\ events' = q
      BY <1>3, <2>2 DEF PersistEvent
    <3>2. Told(t)'
      BY <2>0, <2>2 DEF Told
    <3> QED BY <1>0, <1>1, <2>0, <3>1, <3>2, OneTabAgrees
  <2> QED BY <2>1, <2>2
<1> QED BY <1>2, <1>3 DEF StorageEvent, q

(***************************************************************************)
(* A page that loads has what is saved, and one that closes matters not.   *)
(***************************************************************************)
LEMMA OpenAgrees ==
  ASSUME IInv, Agree, NEW t \in Tabs, Load(t) \/ CloseTab(t)
  PROVE  Agree'
<1>0. open \subseteq Tabs /\ now' = now /\ flag' = flag /\ Queues(events)
  BY Handled DEF Load, CloseTab, IInv, TypeOK
<1>1. CASE Load(t)
  <2> DEFINE m == IF flag THEN Merge(saved.list, Empty, now) ELSE Empty
             n == Purged(m, now)
  <2>0. /\ t \notin open /\ open' = open \cup {t} /\ mem' = [mem EXCEPT ![t] = n]
        /\ on' = [on EXCEPT ![t] = flag]
    BY <1>1 DEF Load
  <2>1. mem'[t] = n /\ on'[t] = flag /\ \A u \in open : mem'[u] = mem[u] /\ on'[u] = on[u]
    BY <1>0, <2>0 DEF IInv, TypeOK
  <2>2. CASE flag
    <3>1. /\ saved' = Saved(n)
          /\ events' = Announced(events, t, (IF saved # Saved(m) THEN <<"history">> ELSE <<>>)
                                            \o (IF m # n THEN <<"history">> ELSE <<>>))
      BY <1>1, <2>2 DEF Load
    <3>2. PICK keys \in Seq(Key) : /\ events' = Announced(events, t, keys)
                                   /\ saved # Saved(m) \/ m # n => keys # <<>>
      <4>1. \A j, k \in Seq(Key) : j \o k \in Seq(Key) /\ (j # <<>> \/ k # <<>> => j \o k # <<>>)
        OBVIOUS
      <4>2. <<>> \in Seq(Key) /\ <<"history">> \in Seq(Key) /\ <<"history">> # <<>>
        BY DEF Key
      <4> QED BY <3>1, <4>1, <4>2
    <3> HIDE DEF m, n
    <3>3. Told(t)'
      BY <1>0, <2>1, <3>1 DEF Told, Same, Saved
    <3>4. saved' = saved \/ keys # <<>>
      BY <3>1, <3>2
    <3>5. ASSUME NEW u \in open
          PROVE  /\ Has(events[u], "persist") => Has(events'[u], "persist")
                 /\ events[u] # <<>> => events'[u] # <<>>
                 /\ saved' = saved \/ events'[u] # <<>>
      <4>1. u \in open \ {t} /\ u \in Tabs
        BY <1>0, <2>0
      <4> QED BY <1>0, <3>2, <3>4, <4>1, AnnouncedReaches
    <3> QED BY <1>0, <2>0, <2>1, <3>3, <3>5, OneTabAgrees
  <2>3. CASE ~flag
    <3>1. UNCHANGED <<saved, events>>
      BY <1>1, <2>3 DEF Load
    <3>2. Told(t)'
      BY <1>0, <2>1, <2>3 DEF Told
    <3> QED BY <1>0, <2>0, <2>1, <3>1, <3>2, OneTabAgrees
  <2> QED BY <2>2, <2>3
<1>2. CASE CloseTab(t)
  <2>1. t \notin open' /\ \A u \in open' \ {t} :
          /\ u \in open /\ mem'[u] = mem[u] /\ on'[u] = on[u] /\ events'[u] = events[u]
    BY <1>0, <1>2 DEF CloseTab, IInv, TypeOK
  <2>2. saved' = saved
    BY <1>2 DEF CloseTab
  <2> QED BY <1>0, <2>1, <2>2, OneTabAgrees
<1> QED BY <1>1, <1>2

(***************************************************************************)
(* Time takes the same certificates from all.                              *)
(***************************************************************************)
LEMMA TickAgrees ==
  ASSUME IInv, Agree, Tick
  PROVE  Agree'
<1> SUFFICES ASSUME NEW t \in open PROVE Told(t)'
  BY DEF Tick, Agree
<1>1. t \in Tabs /\ Told(t)
  BY DEF Agree, IInv, TypeOK
<1>2. now' = now + 1 /\ UNCHANGED <<mem, saved, on, flag, events>>
  BY DEF Tick
<1>3. Same(mem[t], saved.list, now) => Same(mem[t], saved.list, now + 1)
  BY <1>1, Handled, SameKept
<1> QED BY <1>1, <1>2, <1>3 DEF Told

LEMMA NextAgrees == IInv /\ Agree /\ [Next]_vars => Agree'
<1> SUFFICES ASSUME IInv, Agree, [Next]_vars PROVE Agree'
  OBVIOUS
<1>1. CASE UNCHANGED <<now, saved, flag, events, open, on, mem>>
  BY <1>1 DEF Agree, Told
<1>2. ASSUME NEW t \in Tabs, NEW i \in Links,
             \/ \E tok \in BOOLEAN : AddHistory(t, i, tok)
             \/ ToggleCover(t, i) \/ ForgetLink(t, i) \/ ClearTombstone(t, i)
             \/ \E from \in {"row", "tomb", "panel"} : ServerDelete(t, i, from)
      PROVE  Agree'
  <2>1. \A from \in {"row", "tomb", "panel"} : ServerDelete(t, i, from) => Agree'
    BY <1>1 DEF ServerDelete
  <2> QED BY <1>2, <2>1, ClickAgrees
<1>3. ASSUME NEW t \in Tabs,
             \/ ClearAll(t) \/ ClearExpired(t) \/ FlipPersist(t) \/ Load(t) \/ CloseTab(t)
             \/ StorageEvent(t) \/ TickForgetGrace(t) \/ ScheduleTick(t)
      PROVE  Agree'
  BY <1>3, TabAgrees, FlipAgrees, OpenAgrees, EventAgrees
<1>4. ASSUME NEW i \in Links, Expire(i) PROVE Agree'
  BY <1>1, <1>4 DEF Expire
<1>5. CASE UNCHANGED vars
  BY <1>1, <1>5 DEF vars
<1> QED BY <1>2, <1>3, <1>4, <1>5, AnswerAgrees, TickAgrees DEF Next, Handler

LEMMA InitAgrees == Init => Agree
BY DEF Init, Agree, Told, Same, Saved

THEOREM AgreeInvariant == Spec => [](IInv /\ Agree)
<1>1. Init => Agree
  BY InitAgrees
<1>2. IInv /\ Agree /\ [Next]_vars => Agree'
  BY NextAgrees
<1> QED BY <1>1, <1>2, HistoryInvariant, PTL DEF Spec

(***************************************************************************)
(* When no storage event is under way, every tab with Local History on     *)
(* holds what is saved, but for certificates that have had their time: any *)
(* number of tabs and links, frozen tabs and a switch flipped at any time  *)
(* included (persistNow and the storage listener).                         *)
(***************************************************************************)
THEOREM TabsAgree == Spec => []AgreeAtRest
<1>1. IInv /\ Agree => AgreeAtRest
  BY DEF IInv, TypeOK, Agree, Told, Same, AgreeAtRest, Quiet
<1> QED BY <1>1, AgreeInvariant, PTL
-----------------------------------------------------------------------------
(* What was cleared does not come back.                                    *)

\* No list shows the link any more.
Buried(i) == ~Shown(saved.list[i]) /\ \A t \in Tabs : ~Shown(mem[t][i])

(***************************************************************************)
(* A list that shows no buried link, and whose certificates are of this    *)
(* tick or of buried links: a certificate may be dropped only when there   *)
(* is nothing left for it to hold back.                                    *)
(***************************************************************************)
Quieter(m) ==
  \A i \in Links :
    /\ i \in created /\ Buried(i) => ~Shown(m[i])
    /\ m[i].state = "cleared" => i \in created /\ (m[i].at = now \/ Buried(i))

\* A list that keeps the certificates of a tab, but for those of buried links.
Lasting(t, m) ==
  \A i \in Links : mem[t][i].state = "cleared" => m[i].state = "cleared" \/ Buried(i)

Laid ==
  /\ flag /\ \A t \in open : on[t]
  /\ Quieter(saved.list) /\ \A t \in Tabs : Quieter(mem[t])
  /\ \A p \in dismissed : /\ p[1] \in open /\ p[2] \in created
                          /\ mem[p[1]][p[2]].state = "cleared" \/ Buried(p[2])

(***************************************************************************)
(* Merges and purges bring nothing back.                                   *)
(***************************************************************************)
LEMMA MergeQuieter ==
  ASSUME NEW a \in List, NEW b \in List, NEW s, Quieter(a), Quieter(b)
  PROVE  Quieter(Merge(a, b, s))
<1>1. Absent.state = "none" /\ ~Shown(Absent)
  BY DEF Absent, Shown
<1>2. \A i \in Links : Merge(a, b, s)[i] \in {a[i], b[i], Absent}
  BY MergeIsList
<1> QED BY <1>1, <1>2 DEF Quieter

LEMMA PurgedQuieter ==
  ASSUME NEW m \in List, NEW s, Quieter(m)
  PROVE  Quieter(Purged(m, s))
<1>1. Tombstone("forgotten").state = "forgotten"
  BY DEF Tombstone
<1>2. \A i \in Links : \/ Purged(m, s)[i] = m[i]
                       \/ m[i].state = "forgotten" /\ Purged(m, s)[i] = Tombstone("forgotten")
  BY PurgedIsList
<1> QED BY <1>1, <1>2 DEF Quieter, Shown

LEMMA EmptyQuieter == Empty \in List /\ Quieter(Empty)
BY EntryKinds DEF Empty, List, Absent, Quieter, Shown

LEMMA PurgedLasting ==
  ASSUME NEW t, NEW m \in List, NEW s, Lasting(t, m)
  PROVE  Lasting(t, Purged(m, s))
<1>1. \A i \in Links : m[i].state = "cleared" => Purged(m, s)[i] = m[i]
  BY PurgedIsList
<1> QED BY <1>1 DEF Lasting

(***************************************************************************)
(* A certificate of this tick survives a merge.                            *)
(***************************************************************************)
LEMMA MergeLasting ==
  ASSUME IInv, Laid, NEW t \in Tabs
  PROVE  Lasting(t, Merge(mem[t], saved.list, now))
<1> SUFFICES ASSUME NEW i \in Links, mem[t][i].state = "cleared", mem[t][i].at = now
             PROVE  Merge(mem[t], saved.list, now)[i] = mem[t][i]
  BY DEF Lasting, Laid, Quieter
<1>1. mem[t][i] \in Entry /\ saved.list[i] \in Entry /\ now \in Nat
  BY Handled DEF List
<1>2. MergeRank(mem[t][i]) = 2 /\ MergeRank(saved.list[i]) \in 0..2 /\ CoverAt(mem[t][i]) = 0
      /\ (MergeRank(saved.list[i]) = 2 => CoverAt(saved.list[i]) = 0)
  BY <1>1, Ranks
<1>3. Winner(mem[t][i], saved.list[i]) = mem[t][i]
  BY <1>2 DEF Winner, Wins
<1>4. ~Spent(mem[t][i], now)
  BY <1>1, ListAssumption DEF Spent
<1> QED BY <1>3, <1>4 DEF Merge, Kept

LEMMA AdoptedQuieter ==
  ASSUME IInv, Laid, NEW t \in Tabs
  PROVE  /\ Quieter(mem[t]) /\ Lasting(t, mem[t])
         /\ Quieter(Merge(mem[t], saved.list, now)) /\ Lasting(t, Merge(mem[t], saved.list, now))
         /\ Quieter(Adopted(t)) /\ Lasting(t, Adopted(t))
<1>1. Quieter(mem[t]) /\ Lasting(t, mem[t])
  BY DEF Laid, Lasting
<1>2. Quieter(Merge(mem[t], saved.list, now)) /\ Lasting(t, Merge(mem[t], saved.list, now))
  BY Handled, MergeQuieter, MergeLasting DEF Laid
<1> QED BY <1>1, <1>2 DEF Adopted

(***************************************************************************)
(* A handler that leaves such a list in one tab, and saves it or not.      *)
(***************************************************************************)
LEMMA OneTabLaid ==
  ASSUME IInv, Laid, Noted, now' = now, flag', \A u \in open' : on'[u], created \subseteq created',
         NEW t \in Tabs, open' \subseteq open \cup {t}, NEW n \in List, Quieter(n),
         t \in open \cap open' => Lasting(t, n),
         mem' \in {mem, [mem EXCEPT ![t] = n]}, saved' \in {saved, Saved(n)}
  PROVE  Laid'
<1>1. /\ mem'[t] \in {mem[t], n} /\ \A u \in Tabs \ {t} : mem'[u] = mem[u]
      /\ \A u \in Tabs : mem'[u] \in {mem[u], n}
      /\ saved'.list \in {saved.list, n}
  BY DEF IInv, TypeOK, Saved
<1>2. ASSUME NEW i \in Links, i \in created, Buried(i) PROVE Buried(i)'
  <2>1. ~Shown(saved.list[i]) /\ ~Shown(n[i]) /\ \A u \in Tabs : ~Shown(mem[u][i])
    BY <1>2 DEF Quieter, Buried
  <2> QED BY <1>1, <2>1 DEF Buried, Shown
<1>3. ASSUME NEW m, Quieter(m), m \in {saved'.list} \cup {mem'[u] : u \in Tabs} PROVE Quieter(m)'
  <2> SUFFICES ASSUME NEW i \in Links
               PROVE  /\ i \in created' /\ Buried(i)' => ~Shown(m[i])
                      /\ m[i].state = "cleared" => i \in created' /\ (m[i].at = now \/ Buried(i)')
    BY DEF Quieter, Shown
  <2>1. Buried(i)' => ~Shown(m[i])
    BY <1>3 DEF Buried, Shown
  <2>2. m[i].state = "cleared" => i \in created /\ (m[i].at = now \/ Buried(i))
    BY <1>3 DEF Quieter
  <2> QED BY <1>2, <2>1, <2>2
<1>4. Quieter(saved.list)' /\ \A u \in Tabs : Quieter(mem[u])'
  <2>1. Quieter(saved.list) /\ \A u \in Tabs : Quieter(mem[u])
    BY DEF Laid
  <2>2. PICK s : s = saved'.list
    OBVIOUS
  <2>3. Quieter(s)'
    BY <1>1, <1>3, <2>1, <2>2
  <2>4. ASSUME NEW u \in Tabs PROVE Quieter(mem[u])'
    <3>1. PICK m : m = mem'[u]
      OBVIOUS
    <3>2. Quieter(m)'
      BY <1>1, <1>3, <2>1, <3>1
    <3> QED BY <3>1, <3>2 DEF Quieter
  <2> QED BY <2>2, <2>3, <2>4 DEF Quieter
<1>5. ASSUME NEW p \in dismissed'
      PROVE  /\ p[1] \in open' /\ p[2] \in created'
             /\ mem'[p[1]][p[2]].state = "cleared" \/ Buried(p[2])'
  <2>1. p[1] \in Tabs /\ p[2] \in Links /\ p[1] \in open'
    BY DEF Noted
  <2>2. CASE mem'[p[1]][p[2]].state = "cleared"
    BY <1>4, <2>1, <2>2 DEF Quieter
  <2>3. CASE p \in dismissed
    <3>1. /\ p[1] \in open /\ p[2] \in created
          /\ mem[p[1]][p[2]].state = "cleared" \/ Buried(p[2])
      BY <2>3 DEF Laid
    <3>2. mem'[p[1]][p[2]].state = "cleared" \/ Buried(p[2])
      <4>1. CASE p[1] = t
        BY <1>1, <2>1, <3>1, <4>1 DEF Lasting
      <4>2. CASE p[1] # t
        BY <1>1, <2>1, <3>1, <4>2
      <4> QED BY <4>1, <4>2
    <3> QED BY <1>2, <2>1, <3>1, <3>2
  <2> QED BY <2>1, <2>2, <2>3 DEF Noted
<1> QED BY <1>4, <1>5 DEF Laid

(***************************************************************************)
(* A handler of an open tab that stays open.                               *)
(***************************************************************************)
LEMMA OpenTabLaid ==
  ASSUME IInv, Laid, Noted, UNCHANGED <<now, flag, open, on>>, created \subseteq created',
         NEW t \in Tabs, NEW n \in List, Quieter(n), Lasting(t, n),
         mem' \in {mem, [mem EXCEPT ![t] = n]}, saved' \in {saved, Saved(n)}
  PROVE  Laid'
<1>1. flag' /\ (\A u \in open' : on'[u]) /\ open' \subseteq open \cup {t}
  BY DEF Laid
<1> QED BY <1>1, OneTabLaid

(***************************************************************************)
(* A step that touches no list.                                            *)
(***************************************************************************)
LEMMA StillLaid ==
  ASSUME IInv, Laid, Noted \/ dismissed' = dismissed,
         UNCHANGED <<now, flag, open, on, created, mem, saved>>
  PROVE  Laid'
<1>1. flag' /\ (\A u \in open' : on'[u])
  BY DEF Laid
<1>2. \A i \in Links : Buried(i)' = Buried(i)
  BY DEF Buried, Shown
<1>3. Quieter(saved.list)' /\ \A u \in Tabs : Quieter(mem[u])'
  BY <1>2 DEF Laid, Quieter, Shown
<1>4. ASSUME NEW p \in dismissed'
      PROVE  /\ p[1] \in open /\ p[2] \in created
             /\ mem[p[1]][p[2]].state = "cleared" \/ Buried(p[2])
  <2>1. CASE p \in dismissed
    BY <2>1 DEF Laid
  <2>2. CASE p \notin dismissed
    <3>1. p[1] \in open /\ p[1] \in Tabs /\ p[2] \in Links /\ mem[p[1]][p[2]].state = "cleared"
      BY <2>2 DEF Noted
    <3> QED BY <3>1 DEF Laid, Quieter
  <2> QED BY <2>1, <2>2
<1>5. \A p \in dismissed' : p[2] \in Links
  BY <1>4 DEF IInv, TypeOK
<1> QED BY <1>1, <1>2, <1>3, <1>4, <1>5 DEF Laid

(***************************************************************************)
(* A row that was found is of no buried link: what replaces it holds       *)
(* nothing back that the row did not.                                      *)
(***************************************************************************)
LEMMA ReplacedLaid ==
  ASSUME IInv, Laid, NEW t \in Tabs, NEW i \in Links, Found(t, i),
         NEW e \in Entry, e.state = "cleared" => e.at = now
  PROVE  /\ [Adopted(t) EXCEPT ![i] = e] \in List
         /\ Quieter([Adopted(t) EXCEPT ![i] = e]) /\ Lasting(t, [Adopted(t) EXCEPT ![i] = e])
<1> DEFINE n == [Adopted(t) EXCEPT ![i] = e]
<1>1. Adopted(t) \in List /\ n \in List /\ n[i] = e /\ \A j \in Links \ {i} : n[j] = Adopted(t)[j]
  BY Handled DEF List
<1>2. Honest(Adopted(t), Gones, created, acts)
  BY Handled
<1>3. i \in created /\ Shown(Adopted(t)[i])
  BY <1>2 DEF Found, Honest, Shown
<1>4. Quieter(Adopted(t)) /\ Lasting(t, Adopted(t))
  BY AdoptedQuieter
<1>5. ~Buried(i) /\ Adopted(t)[i].state # "cleared"
  BY <1>3, <1>4 DEF Quieter, Shown
<1> HIDE DEF n
<1>6. Quieter(n)
  BY <1>1, <1>3, <1>4, <1>5 DEF Quieter
<1>7. Lasting(t, n)
  BY <1>1, <1>4, <1>5 DEF Lasting
<1> QED BY <1>1, <1>6, <1>7 DEF n

LEMMA OverwriteLaid ==
  ASSUME IInv, Laid, Noted, UNCHANGED <<now, flag, open, on, created>>,
         NEW t \in Tabs, NEW i \in Links, NEW e \in Entry, e.state = "cleared" => e.at = now,
         Overwrite(t, i, e)
  PROVE  Laid'
<1>1. CASE Found(t, i)
  <2> DEFINE n == [Adopted(t) EXCEPT ![i] = e]
  <2>1. mem' = [mem EXCEPT ![t] = n] /\ Persist(t, n)
    BY <1>1 DEF Overwrite
  <2>2. n \in List /\ Quieter(n) /\ Lasting(t, n)
    BY <1>1, ReplacedLaid
  <2> HIDE DEF n
  <2>3. saved' \in {saved, Saved(n)}
    BY <2>1 DEF Persist, PersistTwice
  <2> QED BY <2>1, <2>2, <2>3, OpenTabLaid
<1>2. CASE ~Found(t, i)
  <2>1. mem' = [mem EXCEPT ![t] = Adopted(t)] /\ saved' = saved
    BY <1>2 DEF Overwrite
  <2>2. Adopted(t) \in List /\ Quieter(Adopted(t)) /\ Lasting(t, Adopted(t))
    BY Handled, AdoptedQuieter
  <2> QED BY <2>1, <2>2, OpenTabLaid
<1> QED BY <1>1, <1>2

(***************************************************************************)
(* Each thing the user does in a tab.                                      *)
(***************************************************************************)
LEMMA AddHistoryLaid ==
  ASSUME IInv, Laid, Noted, NEW t \in Tabs, NEW i \in Links, NEW tok \in BOOLEAN, AddHistory(t, i, tok)
  PROVE  Laid'
<1> DEFINE n == [Adopted(t) EXCEPT ![i] = Live(tok)]
<1>1. mem' = [mem EXCEPT ![t] = n] /\ Persist(t, n) /\ i \notin created
  BY DEF AddHistory
<1>2. Adopted(t) \in List /\ Live(tok) \in Entry /\ Live(tok).state = "live"
  BY Handled, EntryKinds DEF Live
<1>3. n \in List /\ n[i] = Live(tok) /\ \A j \in Links \ {i} : n[j] = Adopted(t)[j]
  BY <1>2 DEF List
<1>4. mem[t][i].state = "none"
  BY <1>1 DEF IInv, AllHonest, Honest
<1>5. Quieter(Adopted(t)) /\ Lasting(t, Adopted(t))
  BY AdoptedQuieter
<1> HIDE DEF n
<1>6. Quieter(n) /\ Lasting(t, n)
  BY <1>1, <1>2, <1>3, <1>4, <1>5 DEF Quieter, Lasting
<1>7. saved' \in {saved, Saved(n)}
  BY <1>1 DEF Persist, PersistTwice
<1>8. UNCHANGED <<now, flag, open, on>> /\ created \subseteq created'
  BY DEF AddHistory, clock
<1> QED BY <1>1, <1>3, <1>6, <1>7, <1>8, OpenTabLaid

LEMMA ToggleCoverLaid ==
  ASSUME IInv, Laid, Noted, NEW t \in Tabs, NEW i \in Links, ToggleCover(t, i)
  PROVE  Laid'
<1> DEFINE e == [mem[t][i] EXCEPT !.at = acts + 1]
           n == [mem[t] EXCEPT ![i] = e]
<1>1. mem[t] \in List /\ mem[t][i] \in Entry /\ mem[t][i].state = "live" /\ acts \in Nat
  BY Handled DEF List, ToggleCover
<1>2. e \in Entry /\ e.state = "live"
  BY <1>1 DEF Entry
<1>3. mem' = [mem EXCEPT ![t] = n] /\ Persist(t, n)
  <2>1. n = [mem[t] EXCEPT ![i].at = acts + 1]
    OBVIOUS
  <2> QED BY <2>1, Zenon DEF ToggleCover
<1> HIDE DEF e
<1>4. n \in List /\ n[i] = e /\ \A j \in Links \ {i} : n[j] = mem[t][j]
  BY <1>1, <1>2 DEF List
<1> HIDE DEF n
<1>5. ~Buried(i)
  BY <1>1 DEF Buried, Shown
<1>6. Quieter(mem[t])
  BY DEF Laid
<1>7. Quieter(n) /\ Lasting(t, n)
  BY <1>1, <1>2, <1>4, <1>5, <1>6 DEF Quieter, Lasting, Shown
<1>8. saved' \in {saved, Saved(n)}
  BY <1>3 DEF Persist, PersistTwice
<1>9. UNCHANGED <<now, flag, open, on, created>>
  BY DEF ToggleCover, clock, server
<1> QED BY <1>3, <1>4, <1>7, <1>8, <1>9, OpenTabLaid

LEMMA ForgetLinkLaid ==
  ASSUME IInv, Laid, Noted, NEW t \in Tabs, NEW i \in Links, ForgetLink(t, i)
  PROVE  Laid'
<1> DEFINE e == Forgotten(i, Adopted(t)[i])
           m == [Adopted(t) EXCEPT ![i] = e]
           n == IF e.token THEN Purged(m, now) ELSE m
<1>1. e \in Entry /\ e.state # "cleared"
  BY EntryKinds, Handled, ListAssumption DEF Forgotten, Tombstone, InGrace
<1>2. UNCHANGED <<now, flag, open, on, created>>
  BY DEF ForgetLink, clock, server
<1>3. CASE Found(t, i)
  <2>1. mem' = [mem EXCEPT ![t] = n] /\ Persist(t, n)
    BY <1>3 DEF ForgetLink
  <2> HIDE DEF e
  <2>2. m \in List /\ Quieter(m) /\ Lasting(t, m)
    BY <1>1, <1>3, ReplacedLaid
  <2> HIDE DEF m
  <2>3. Purged(m, now) \in List
    BY <2>2, Handled, PurgedIsList
  <2>4. n \in List /\ Quieter(n) /\ Lasting(t, n)
    BY <2>2, <2>3, PurgedQuieter, PurgedLasting
  <2> HIDE DEF n
  <2>5. saved' \in {saved, Saved(n)}
    BY <2>1 DEF Persist, PersistTwice
  <2> QED BY <1>2, <2>1, <2>4, <2>5, OpenTabLaid
<1>4. CASE ~Found(t, i)
  <2>1. mem' = [mem EXCEPT ![t] = Adopted(t)] /\ saved' = saved
    BY <1>4 DEF ForgetLink
  <2>2. Adopted(t) \in List /\ Quieter(Adopted(t)) /\ Lasting(t, Adopted(t))
    BY Handled, AdoptedQuieter
  <2> QED BY <1>2, <2>1, <2>2, OpenTabLaid
<1> QED BY <1>3, <1>4

LEMMA ClearRowsLaid ==
  ASSUME IInv, Laid, Noted, NEW t \in Tabs, NEW ids, ClearRows(t, ids),
         \A i \in Links : i \in ids => mem[t][i].state # "none"
  PROVE  Laid'
<1> DEFINE n == [i \in Links |-> IF i \in ids THEN ClearedMarker(now) ELSE mem[t][i]]
<1>1. mem' = [mem EXCEPT ![t] = n] /\ Persist(t, n)
  BY DEF ClearRows
<1>2. /\ ClearedMarker(now) \in Entry /\ ClearedMarker(now).state = "cleared"
      /\ ClearedMarker(now).at = now
  BY EntryKinds, Handled DEF ClearedMarker
<1>3. n \in List /\ \A i \in Links : n[i] = IF i \in ids THEN ClearedMarker(now) ELSE mem[t][i]
  BY <1>2, Handled DEF List
<1> HIDE DEF n
<1>4. \A i \in Links : i \in ids => i \in created
  BY DEF IInv, AllHonest, Honest
<1>5. Quieter(mem[t])
  BY DEF Laid
<1>6. Quieter(n) /\ Lasting(t, n)
  BY <1>2, <1>3, <1>4, <1>5 DEF Quieter, Lasting, Shown
<1>7. saved' \in {saved, Saved(n)}
  BY <1>1 DEF Persist, PersistTwice
<1>8. UNCHANGED <<now, flag, open, on, created>>
  BY DEF ClearRows, clock, server
<1> QED BY <1>1, <1>3, <1>6, <1>7, <1>8, OpenTabLaid

(***************************************************************************)
(* Each thing that happens to a tab.                                       *)
(***************************************************************************)
LEMMA ArrivalLaid ==
  ASSUME IInv, Laid, Noted, NEW t \in Tabs, StorageEvent(t) \/ TickForgetGrace(t)
  PROVE  Laid'
<1>1. flag /\ flag' /\ now' = now /\ open' = open /\ created' = created
      /\ \A u \in open' : on'[u]
  <2>1. flag /\ \A u \in open : on[u] /\ u \in Tabs
    BY DEF Laid, IInv, TypeOK
  <2>2. flag' = flag /\ now' = now /\ open' = open /\ created' = created
        /\ on' \in {on, [on EXCEPT ![t] = flag]} /\ on \in [Tabs -> BOOLEAN]
    BY DEF StorageEvent, HistoryEvent, PersistEvent, TickForgetGrace, clock, server, stored,
           IInv, TypeOK
  <2>3. \A u \in open : on'[u] = on[u] \/ on'[u] = flag
    BY <2>1, <2>2
  <2> QED BY <2>1, <2>2, <2>3, Zenon
<1> DEFINE m == Merge(mem[t], saved.list, now)
           n == Purged(m, now)
           o == Purged(mem[t], now)
<1>2. /\ mem[t] \in List /\ Quieter(mem[t]) /\ Lasting(t, mem[t])
      /\ m \in List /\ Quieter(m) /\ Lasting(t, m)
  BY Handled, AdoptedQuieter
<1> HIDE DEF m
<1>3. n \in List /\ Quieter(n) /\ Lasting(t, n) /\ o \in List /\ Quieter(o) /\ Lasting(t, o)
  BY <1>2, Handled, PurgedIsList, PurgedQuieter, PurgedLasting
<1>4. \/ mem' = mem /\ saved' = saved
      \/ mem' = [mem EXCEPT ![t] = m] /\ saved' \in {saved, Saved(m)}
      \/ mem' = [mem EXCEPT ![t] = n] /\ saved' \in {saved, Saved(n)}
      \/ mem' = [mem EXCEPT ![t] = o] /\ saved' \in {saved, Saved(o)}
  BY DEF StorageEvent, HistoryEvent, PersistEvent, TickForgetGrace, Persist, PersistTwice, stored, m
<1> HIDE DEF n, o
<1>5. \E k \in List : /\ Quieter(k) /\ Lasting(t, k)
                      /\ mem' \in {mem, [mem EXCEPT ![t] = k]} /\ saved' \in {saved, Saved(k)}
  BY <1>2, <1>3, <1>4
<1> QED BY <1>1, <1>5, OneTabLaid

\* A list that is drawn again is written as it is.
LEMMA RedrawnLaid ==
  ASSUME IInv, Laid, Noted, NEW t \in Tabs, ScheduleTick(t)
  PROVE  Laid'
<1>1. /\ UNCHANGED <<now, flag, open, on>> /\ created \subseteq created'
      /\ mem' = mem /\ saved' \in {saved, Saved(mem[t])}
  BY DEF ScheduleTick, clock, server, tabs, Persist, PersistTwice
<1> QED BY <1>1, Handled, AdoptedQuieter, OpenTabLaid

LEMMA AnswerLaid ==
  ASSUME IInv, Laid, Noted, NEW r \in requests, AnswerGone(r) \/ AnswerFailed(r)
  PROVE  Laid'
<1>1. r.tab \in Tabs /\ r.link \in Links
  BY DEF IInv, TypeOK, Request
<1>2. UNCHANGED <<now, flag, open, on, created>>
  BY DEF AnswerGone, AnswerFailed, clock, server, tabs
<1>3. CASE AnswerGone(r)
  <2>1. Tombstone("deleted") \in Entry /\ Tombstone("deleted").state # "cleared"
    BY EntryKinds DEF Tombstone
  <2> QED BY <1>1, <1>2, <1>3, <2>1, OverwriteLaid DEF AnswerGone
<1>4. CASE AnswerFailed(r)
  <2>1. mem' = mem /\ saved' \in {saved, Saved(mem[r.tab])}
    BY <1>4 DEF AnswerFailed, tabs, Persist, PersistTwice
  <2> QED BY <1>1, <1>2, <2>1, Handled, AdoptedQuieter, OpenTabLaid
<1> QED BY <1>3, <1>4

(***************************************************************************)
(* A tab that opens starts from what is saved, one that closes leaves      *)
(* nothing behind.                                                         *)
(***************************************************************************)
LEMMA OpenLaid ==
  ASSUME IInv, Laid, Noted, NEW t \in Tabs, Load(t)
  PROVE  Laid'
<1> DEFINE m == Merge(saved.list, Empty, now)
           n == Purged(m, now)
<1>1. flag /\ saved.list \in List /\ Quieter(saved.list) /\ Empty \in List /\ Quieter(Empty)
      /\ now \in Nat
  BY Handled, EmptyQuieter DEF Laid
<1>2. m \in List /\ Quieter(m)
  BY <1>1, MergeIsList, MergeQuieter
<1> HIDE DEF m
<1>3. n \in List /\ Quieter(n)
  BY <1>1, <1>2, PurgedIsList, PurgedQuieter
<1>4. /\ t \notin open /\ open' = open \cup {t} /\ on' = [on EXCEPT ![t] = flag]
      /\ now' = now /\ flag' = flag /\ created' = created
      /\ mem' = [mem EXCEPT ![t] = n] /\ saved' = Saved(n)
  BY <1>1 DEF Load, clock, server, m
<1> HIDE DEF n
<1>5. \A u \in open' : on'[u]
  <2>1. \A u \in open : on[u] /\ u \in Tabs
    BY DEF Laid, IInv, TypeOK
  <2>2. on \in [Tabs -> BOOLEAN]
    BY DEF IInv, TypeOK
  <2>3. on'[t] = flag /\ \A u \in open : on'[u] = on[u]
    BY <1>4, <2>1, <2>2
  <2> QED BY <1>1, <1>4, <2>1, <2>3, Zenon
<1> QED BY <1>1, <1>3, <1>4, <1>5, OneTabLaid

LEMMA CloseLaid ==
  ASSUME IInv, Laid, Noted, NEW t \in Tabs, CloseTab(t)
  PROVE  Laid'
<1>1. /\ t \notin open' /\ open' = open \ {t} /\ on' = [on EXCEPT ![t] = FALSE]
      /\ now' = now /\ flag' = flag /\ created' = created
      /\ mem' = [mem EXCEPT ![t] = Empty] /\ saved' = saved
  BY DEF CloseTab, clock, server, stored
<1>2. \A u \in open' : on'[u]
  <2>1. \A u \in open : on[u] /\ u \in Tabs
    BY DEF Laid, IInv, TypeOK
  <2>2. on \in [Tabs -> BOOLEAN]
    BY DEF IInv, TypeOK
  <2>3. \A u \in open' : on'[u] = on[u] /\ u \in open
    BY <1>1, <2>1, <2>2
  <2> QED BY <2>1, <2>3, Zenon
<1>3. flag'
  BY <1>1 DEF Laid
<1> QED BY <1>1, <1>2, <1>3, EmptyQuieter, OneTabLaid

(***************************************************************************)
(* When the clock moves on, a certificate of this tick has reached every   *)
(* list that had the link: at rest the tabs agree, and in an exchange that *)
(* has no end they agree that it was cleared, and not when.                *)
(***************************************************************************)
LEMMA CertificatesArrive ==
  ASSUME IInv, Agree, Laid, Awake = Tabs, Tick,
         NEW m, m = saved.list \/ \E t \in open : m = mem[t],
         NEW i \in Links, m[i].state = "cleared", m[i].at = now
  PROVE  Buried(i)
<1> DEFINE lists == {saved.list} \cup {mem[u] : u \in open}
<1>1. (\A u \in open : on[u] /\ u \in Tabs) /\ \A u \in Tabs \ open : mem[u] = Empty
  BY DEF Laid, IInv, TypeOK, Closed
<1>2. m \in lists /\ \A k \in lists : k \in List
  BY <1>1, Handled DEF IInv, TypeOK
<1>3. m[i] \in Entry /\ now \in Nat
  BY <1>2, TabAssumption DEF List, IInv, TypeOK
<1>4. Kept(m[i], now) = m[i]
  BY <1>3, ListAssumption DEF Kept, Spent
<1>5. MergeRank(m[i]) = 2
  BY <1>3, Ranks
<1>6. ASSUME NEW k \in lists PROVE k[i].state = "cleared"
  <2>1. k[i] \in Entry /\ Absent.state = "none"
    BY <1>2 DEF List, Absent
  <2>2. ASSUME Kept(k[i], now) = m[i] PROVE k[i].state = "cleared"
    BY <2>1, <2>2 DEF Kept
  <2>3. CASE Tied /\ Settled
    <3>1. lists = {saved.list} \cup {mem[u] : u \in {v \in open \cap Awake : on[v]}}
      BY <1>1
    <3>2. Settled = \A a, b \in lists, j \in Links :
                      \/ Kept(a[j], now) = Kept(b[j], now)
                      \/ /\ "none" \notin {a[j].state, b[j].state}
                         /\ MergeRank(a[j]) = MergeRank(b[j]) /\ MergeRank(a[j]) > 0
      BY <3>1 DEF Settled
    <3>3. \/ Kept(m[i], now) = Kept(k[i], now)
          \/ MergeRank(m[i]) = MergeRank(k[i])
      BY <1>2, <2>3, <3>2
    <3>4. MergeRank(k[i]) = 2 => k[i].state = "cleared"
      BY <2>1 DEF Entry, MergeRank
    <3> QED BY <1>4, <1>5, <2>2, <3>3, <3>4
  <2>4. CASE \A t \in Awake : events[t] = <<>>
    <3>1. \A u \in open : Same(mem[u], saved.list, now)
      BY <1>1, <2>4 DEF Agree, Told
    <3>2. \A a \in lists : Kept(a[i], now) = Kept(saved.list[i], now)
      BY <3>1 DEF Same
    <3> QED BY <1>2, <1>4, <2>2, <3>2
  <2> QED BY <2>3, <2>4 DEF Tick
<1>7. \A u \in Tabs \ open : mem[u][i].state = "none"
  BY <1>1 DEF Empty, Absent
<1> QED BY <1>6, <1>7 DEF Buried, Shown

LEMMA TickLaid ==
  ASSUME IInv, Agree, Laid, Noted, Awake = Tabs, Tick
  PROVE  Laid'
<1>1. /\ now' = now + 1
      /\ UNCHANGED <<flag, open, on, created, mem, saved>>
  BY DEF Tick, server, stored, tabs
<1>2. flag' /\ \A u \in open' : on'[u]
  BY <1>1 DEF Laid
<1>3. \A i \in Links : Buried(i)' = Buried(i)
  BY <1>1 DEF Buried, Shown
<1>4. ASSUME NEW m, Quieter(m), NEW i \in Links, m[i].state = "cleared",
             m = saved.list \/ \E t \in open : m = mem[t]
      PROVE  i \in created /\ Buried(i)
  <2>1. i \in created /\ (m[i].at = now \/ Buried(i))
    BY <1>4 DEF Quieter
  <2> QED BY <1>4, <2>1, CertificatesArrive
<1>5. ASSUME NEW m, Quieter(m), m = saved.list \/ \E t \in open : m = mem[t]
      PROVE  Quieter(m)'
  <2> SUFFICES ASSUME NEW i \in Links
               PROVE  /\ i \in created' /\ Buried(i)' => ~Shown(m[i])
                      /\ m[i].state = "cleared" => i \in created' /\ (m[i].at = now' \/ Buried(i)')
    BY DEF Quieter, Shown
  <2>1. i \in created /\ Buried(i) => ~Shown(m[i])
    BY <1>5 DEF Quieter
  <2>2. m[i].state = "cleared" => i \in created /\ Buried(i)
    BY <1>4, <1>5
  <2> QED BY <1>1, <1>3, <2>1, <2>2
<1>6. Quieter(saved.list)'
  <2>1. PICK s : s = saved.list
    OBVIOUS
  <2>2. Quieter(s)'
    BY <1>5, <2>1 DEF Laid
  <2> QED BY <1>1, <2>1, <2>2 DEF Quieter
<1>7. ASSUME NEW t \in Tabs PROVE Quieter(mem[t])'
  <2>1. PICK m : m = mem[t]
    OBVIOUS
  <2>2. Quieter(m)
    BY <2>1 DEF Laid
  <2>3. CASE t \in open
    <3>1. Quieter(m)'
      BY <1>5, <2>1, <2>2, <2>3
    <3> QED BY <1>1, <2>1, <3>1 DEF Quieter
  <2>4. CASE t \notin open
    <3>1. mem[t] = Empty
      BY <2>4 DEF IInv, Closed
    <3>2. \A i \in Links : Empty[i].state = "none"
      BY DEF Empty, Absent
    <3> QED BY <1>1, <3>1, <3>2 DEF Quieter, Shown
  <2> QED BY <2>3, <2>4
<1>8. ASSUME NEW p \in dismissed'
      PROVE  /\ p[1] \in open' /\ p[2] \in created'
             /\ mem'[p[1]][p[2]].state = "cleared" \/ Buried(p[2])'
  <2>1. p[1] \in Tabs /\ p[2] \in Links /\ p[1] \in open
    BY <1>1 DEF Noted
  <2>2. CASE p \in dismissed
    BY <1>1, <1>3, <2>1, <2>2 DEF Laid
  <2>3. CASE mem[p[1]][p[2]].state = "cleared"
    BY <1>1, <2>1, <2>3 DEF Laid, Quieter
  <2> QED BY <1>1, <2>2, <2>3 DEF Noted
<1> QED BY <1>2, <1>6, <1>7, <1>8 DEF Laid

\* While the switch is left alone.
LaidInv == flips = 0 => Laid

LEMMA InitLaid == Init => LaidInv
<1> SUFFICES ASSUME Init PROVE Laid
  BY DEF LaidInv
<1>1. Quieter(saved.list) /\ \A t \in Tabs : Quieter(mem[t])
  BY EmptyQuieter DEF Init, Saved
<1> QED BY <1>1 DEF Init, Laid

LEMMA NextLaid ==
  ASSUME Awake = Tabs
  PROVE  IInv /\ Agree /\ LaidInv /\ [Next]_vars => LaidInv'
<1> SUFFICES ASSUME IInv, Agree, LaidInv, [Next]_vars, flips' = 0 PROVE Laid'
  BY DEF LaidInv
<1>1. flips \in Nat /\ flips' \in {flips, flips + 1}
  <2>1. flips \in Nat
    BY TabAssumption DEF IInv, TypeOK
  <2>2. ASSUME NEW t \in Tabs, NEW i \in Links,
               \/ \E tok \in BOOLEAN : AddHistory(t, i, tok)
               \/ ToggleCover(t, i) \/ ForgetLink(t, i) \/ ClearTombstone(t, i)
               \/ \E from \in {"row", "tomb", "panel"} : ServerDelete(t, i, from)
        PROVE  flips' = flips
    BY <2>2 DEF AddHistory, ToggleCover, ForgetLink, ClearTombstone, ServerDelete, Acts
  <2>3. ASSUME NEW t \in Tabs, ClearAll(t) \/ ClearExpired(t) \/ FlipPersist(t)
        PROVE  flips' \in {flips, flips + 1}
    BY <2>3 DEF ClearAll, ClearExpired, ClearRows, FlipPersist, Acts
  <2>4. ASSUME NEW t \in Tabs, \/ Load(t) \/ CloseTab(t) \/ StorageEvent(t)
                               \/ TickForgetGrace(t) \/ ScheduleTick(t)
        PROVE  flips' = flips
    BY <2>4 DEF Load, CloseTab, StorageEvent, TickForgetGrace, ScheduleTick, bounds
  <2>5. ASSUME NEW r \in requests, AnswerGone(r) \/ AnswerFailed(r) \/ Serve(r)
        PROVE  flips' = flips
    BY <2>5 DEF AnswerGone, AnswerFailed, Serve, bounds
  <2>6. (\E i \in Links : Expire(i)) \/ Tick \/ UNCHANGED vars => flips' = flips
    BY DEF Expire, Tick, vars, bounds
  <2> QED BY <2>1, <2>2, <2>3, <2>4, <2>5, <2>6 DEF Next, Handler
<1>2. Laid
  BY <1>1 DEF LaidInv
<1>3. CASE UNCHANGED vars
  <2>1. /\ dismissed' = dismissed
        /\ UNCHANGED <<now, flag, open, on, created, mem, saved>>
    BY <1>3 DEF vars, clock, server, stored, tabs
  <2> QED BY <1>2, <2>1, StillLaid
<1>4. ASSUME Noted, UNCHANGED <<now, flag, open, on, created, mem, saved>> PROVE Laid'
  BY <1>2, <1>4, StillLaid
<1>5. ASSUME Noted, NEW t \in Tabs, NEW i \in Links,
             \/ \E tok \in BOOLEAN : AddHistory(t, i, tok)
             \/ ToggleCover(t, i) \/ ForgetLink(t, i) \/ ClearTombstone(t, i)
             \/ \E from \in {"row", "tomb", "panel"} : ServerDelete(t, i, from)
      PROVE  Laid'
  <2>1. \A from \in {"row", "tomb", "panel"} : ServerDelete(t, i, from) => Laid'
    BY <1>4, <1>5 DEF ServerDelete, clock, server, stored, tabs
  <2>2. ClearTombstone(t, i) => Laid'
    <3>1. /\ ClearedMarker(now) \in Entry
          /\ ClearedMarker(now).state = "cleared" => ClearedMarker(now).at = now
      BY EntryKinds, Handled DEF ClearedMarker
    <3>2. ClearTombstone(t, i) => /\ UNCHANGED <<now, flag, open, on, created>>
                                  /\ Overwrite(t, i, ClearedMarker(now))
      BY DEF ClearTombstone, clock, server
    <3> QED BY <1>2, <1>5, <3>1, <3>2, OverwriteLaid
  <2> QED BY <1>2, <1>5, <2>1, <2>2, AddHistoryLaid, ToggleCoverLaid, ForgetLinkLaid
<1>6. ASSUME Noted, NEW t \in Tabs,
             \/ ClearAll(t) \/ ClearExpired(t) \/ FlipPersist(t) \/ Load(t) \/ CloseTab(t)
             \/ StorageEvent(t) \/ TickForgetGrace(t) \/ ScheduleTick(t)
      PROVE  Laid'
  <2>1. ~FlipPersist(t)
    BY <1>1 DEF FlipPersist
  <2>2. ClearAll(t) \/ ClearExpired(t) => Laid'
    BY <1>2, <1>6, ClearRowsLaid DEF ClearAll, ClearExpired
  <2> QED BY <1>2, <1>6, <2>1, <2>2, ArrivalLaid, RedrawnLaid, OpenLaid, CloseLaid
<1>7. ASSUME Noted, NEW r \in requests, AnswerGone(r) \/ AnswerFailed(r) \/ Serve(r) PROVE Laid'
  <2>1. Serve(r) => Laid'
    BY <1>4, <1>7 DEF Serve, clock, stored, tabs
  <2> QED BY <1>2, <1>7, <2>1, AnswerLaid
<1>8. ASSUME Noted, NEW i \in Links, Expire(i) PROVE Laid'
  BY <1>4, <1>8 DEF Expire, clock, stored, tabs
<1>9. ASSUME Noted, Tick PROVE Laid'
  BY <1>2, <1>9, TickLaid
<1> QED BY <1>3, <1>5, <1>6, <1>7, <1>8, <1>9 DEF Next, Handler

(***************************************************************************)
(* A row that was cleared does not come back in a tab that has seen it     *)
(* cleared, when no tab is ever frozen and while the switch is left alone: *)
(* the certificate is dropped after CLEARED_TTL_MS, and by then no list    *)
(* has the row (clearedMarker, mergeHistories and findEntry).              *)
(***************************************************************************)
THEOREM ClearedForGood ==
  ASSUME Awake = Tabs
  PROVE  Spec => []ClearedStaysCleared
<1>1. Init => LaidInv
  BY InitLaid
<1>2. IInv /\ Agree /\ LaidInv /\ [Next]_vars => LaidInv'
  BY NextLaid
<1>3. IInv /\ LaidInv => ClearedStaysCleared
  BY DEF IInv, TypeOK, LaidInv, Laid, Buried, Shown, ClearedStaysCleared
<1> QED BY <1>1, <1>2, <1>3, AgreeInvariant, PTL DEF Spec
============================================================================
