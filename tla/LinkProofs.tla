----------------------------- MODULE LinkProofs -----------------------------
(***************************************************************************)
(* What holds of LinkService for any number of links, names, browsers,     *)
(* concurrent requests and restarts.                                       *)
(*                                                                         *)
(* First, IInv is inductive: types are kept, a one-time link is spent and  *)
(* shown once, and no name is repurposed.  Then Held: who may read a link. *)
(* Last, every step is a step of LinkPromise or none.                      *)
(***************************************************************************)
EXTENDS LinkRequirements, TLAPS

(***************************************************************************)
(* A step that gives request q the well-formed record `new`, and may       *)
(* outdate open snapshots, keeps the requests' types and shapes, and       *)
(* changes nothing of another request but its `stale` flag.                *)
(***************************************************************************)
SameButStale(r, s) ==
  /\ s.pc = r.pc /\ s.client = r.client /\ s.name = r.name /\ s.cap = r.cap
  /\ s.key = r.key /\ s.got = r.got /\ s.answer = r.answer

LEMMA OutdateFact ==
  ASSUME NEW rs \in [Reqs -> Request]
  PROVE  /\ Outdate(rs) \in [Reqs -> Request]
         /\ \A p \in Reqs : /\ SameButStale(rs[p], Outdate(rs)[p])
                            /\ rs[p].pc = "redactWrite" => Outdate(rs)[p].stale = TRUE
                            /\ rs[p].pc # "redactWrite" => Outdate(rs)[p] = rs[p]
<1>1. ASSUME NEW p \in Reqs
      PROVE  /\ Outdate(rs)[p] \in Request
             /\ SameButStale(rs[p], Outdate(rs)[p])
             /\ rs[p].pc = "redactWrite" => Outdate(rs)[p].stale = TRUE
             /\ rs[p].pc # "redactWrite" => Outdate(rs)[p] = rs[p]
  BY DEF Outdate, Request, SameButStale
<1> QED  BY <1>1 DEF Outdate

LEMMA ShapeFact ==
  ASSUME NEW r, NEW s, Shape(r), SameButStale(r, s)
  PROVE  Shape(s)
BY DEF Shape, SameButStale

\* Request q becomes `new`; the others keep all but that a snapshot may go stale,
\* and after a commit every other open snapshot is stale.
Steps(q, new) ==
  /\ req' \in [Reqs -> Request]
  /\ req'[q] = new
  /\ \A p \in Reqs : Shape(req'[p])
  /\ \A p \in Reqs \ {q} : /\ SameButStale(req[p], req'[p])
                           /\ req[p].stale = TRUE => req'[p].stale = TRUE

Commits(q, new) ==
  /\ Steps(q, new)
  /\ \A p \in Reqs \ {q} : req[p].pc = "redactWrite" => req'[p].stale = TRUE

LEMMA MoveFact ==
  ASSUME TypeOK, RequestShape, NEW q \in Reqs, NEW new \in Request, Shape(new),
         req' = Move(q, new)
  PROVE  Steps(q, new)
BY DEF Steps, Move, TypeOK, RequestShape, SameButStale

LEMMA CommitFact ==
  ASSUME TypeOK, RequestShape, NEW q \in Reqs, NEW new \in Request, Shape(new),
         new.pc # "redactWrite",
         req' = Outdate(Move(q, new))
  PROVE  Commits(q, new)
<1> DEFINE rs == Move(q, new)
<1>1. rs \in [Reqs -> Request] /\ rs[q] = new /\ \A p \in Reqs \ {q} : rs[p] = req[p]
  BY DEF Move, TypeOK
<1>2. \A p \in Reqs : Shape(rs[p])
  BY <1>1 DEF RequestShape
<1>3. req' = Outdate(rs)
  OBVIOUS
<1> HIDE DEF rs
<1>4. \A p \in Reqs : /\ SameButStale(rs[p], req'[p])
                      /\ rs[p].pc = "redactWrite" => req'[p].stale = TRUE
                      /\ rs[p].pc # "redactWrite" => req'[p] = rs[p]
  BY <1>1, <1>3, OutdateFact
<1>5. req' \in [Reqs -> Request]
  BY <1>1, <1>3, OutdateFact
<1>6. \A p \in Reqs : Shape(req'[p])
  BY <1>2, <1>4, ShapeFact
<1>7. \A p \in Reqs \ {q} : /\ SameButStale(req[p], req'[p])
                            /\ req[p].stale = TRUE => req'[p].stale = TRUE
                            /\ req[p].pc = "redactWrite" => req'[p].stale = TRUE
  BY <1>1, <1>4
<1>8. QED
  BY <1>1, <1>4, <1>5, <1>6, <1>7 DEF Steps, Commits

(***************************************************************************)
(* A step that leaves the table, the lock and the history alone, and does  *)
(* not take q into or out of a transaction's commit or into minting.       *)
(***************************************************************************)
LEMMA QuietStep ==
  ASSUME IInv, NEW q \in Reqs, NEW new \in Request, Steps(q, new),
         ~ At(q, "redactCommit"),
         new.pc \notin {"redactCommit", "mint"},
         new.pc = "redactWrite" =>
           /\ Stored(new.got) /\ row[new.got].name = new.name /\ ~ row[new.got].blank,
         UNCHANGED <<row, writer, minted, rendered>>,
         now' \in Nat, epoch' \in 0..MaxEpoch, handed' \subseteq Links,
         jar' \in [Clients -> [Names -> Cap \cup {None}]]
  PROVE  IInv'
<1>1. TypeOK'
  BY DEF IInv, TypeOK, TableTypeOK, Steps
<1>2. RowShape' /\ NameUnique' /\ RenderedIsBlank' /\ SpentOnce'
  BY DEF IInv, RowShape, NameUnique, RenderedIsBlank, SpentOnce, Stored
<1>3. RequestShape'
  BY DEF Steps, RequestShape
<1>4. LockHeld'
  <2> SUFFICES ASSUME NEW p \in Reqs PROVE writer' = p <=> req'[p].pc = "redactCommit"
    BY DEF LockHeld, At
  <2>1. writer = p <=> req[p].pc = "redactCommit"
    BY DEF IInv, LockHeld, At
  <2>2. CASE p = q
    BY <2>1, <2>2 DEF Steps, At
  <2>3. CASE p # q
    BY <2>1, <2>3 DEF Steps, SameButStale
  <2>4. QED
    BY <2>2, <2>3
<1>5. SnapshotCurrent'
  BY DEF IInv, TypeOK, Request, SnapshotCurrent, At, Steps, SameButStale, Stored
<1>6. OneMint'
  BY DEF IInv, OneMint, At, Steps, SameButStale
<1>7. QED
  BY <1>1, <1>2, <1>3, <1>4, <1>5, <1>6 DEF IInv
LEMMA QuietMove ==
  ASSUME IInv, NEW q \in Reqs, NEW new \in Request, Shape(new), req' = Move(q, new),
         ~ At(q, "redactCommit"),
         new.pc \notin {"redactWrite", "redactCommit", "mint"},
         UNCHANGED <<row, now, writer>>, ServiceUnchanged
  PROVE  IInv'
<1>1. Steps(q, new)
  BY MoveFact DEF IInv
<1>2. QED
  BY <1>1, QuietStep DEF IInv, TypeOK, TableTypeOK, ServiceUnchanged

(***************************************************************************)
(* The responses and the tombstone lookup are well-formed requests.        *)
(***************************************************************************)
LEMMA RespondFact ==
  ASSUME NEW a \in Answers \ {"created"}
  PROVE  /\ Respond(a) \in Request /\ Shape(Respond(a))
         /\ Respond(a).pc = "done"
BY DEF Respond, Idle, Request, Shape, Pcs

LEMMA MissingFact ==
  ASSUME NEW n \in Names
  PROVE  /\ Missing(n) \in Request /\ Shape(Missing(n))
         /\ Missing(n).pc = "tombstone"
BY DEF Missing, Idle, Request, Shape, Pcs, Answers

LEMMA IdleFact == /\ Idle \in Request /\ Shape(Idle)
                  /\ Idle.pc = "idle"
BY DEF Idle, Request, Shape, Pcs, Answers

LEMMA ResolveCookieStep ==
  ASSUME IInv, NEW q \in Reqs, NEW c \in Clients, NEW n \in Names, ResolveCookie(q, c, n)
  PROVE  IInv'
<1> DEFINE new == [Idle EXCEPT !.pc = "redactRead", !.client = c, !.name = n, !.cap = jar[c][n]]
<1>1. jar[c][n] \in Cap
  BY DEF ResolveCookie, Verified, IInv, TypeOK
<1>2. new \in Request /\ Shape(new) /\ new.pc = "redactRead"
  BY <1>1 DEF Idle, Request, Shape, Pcs, Answers
<1>3. req' = Move(q, new) /\ At(q, "idle")
  BY DEF ResolveCookie
<1> HIDE DEF new
<1>4. QED
  BY <1>2, <1>3, QuietMove DEF At, ResolveCookie

LEMMA ResolveStep ==
  ASSUME IInv, NEW q \in Reqs, NEW c \in Clients, NEW n \in Names, Resolve(q, c, n)
  PROVE  IInv'
<1>1. PICK new \in Request : Shape(new) /\ new.pc \in {"bump", "tombstone"} /\ req' = Move(q, new)
  <2>1. ASSUME NEW l \in get_link_live(n),
               req' = Move(q, [Idle EXCEPT !.pc = "bump", !.got = l,
                                           !.answer = IF row[l].once THEN "blind" ELSE "shown"])
        PROVE  \E new \in Request : /\ Shape(new) /\ new.pc \in {"bump", "tombstone"}
                                    /\ req' = Move(q, new)
    <3> DEFINE new == [Idle EXCEPT !.pc = "bump", !.got = l,
                                   !.answer = IF row[l].once THEN "blind" ELSE "shown"]
    <3>1. new \in Request /\ Shape(new) /\ new.pc = "bump"
      BY DEF get_link_live, Called, Idle, Request, Shape, Pcs, Answers
    <3>2. QED
      BY <3>1, <2>1
  <2>2. QED
    BY <2>1, MissingFact DEF Resolve
<1>2. QED
  BY <1>1, QuietMove DEF At, Resolve

LEMMA TombstoneStep ==
  ASSUME IInv, NEW q \in Reqs, Tombstone(q)
  PROVE  IInv'
<1>1. PICK new \in Request : Shape(new) /\ new.pc = "done" /\ req' = Move(q, new)
  <2>1. ASSUME NEW l \in get_link_any(req[q].name),
               req' = Move(q, [Respond("gone") EXCEPT !.got = l])
        PROVE  \E new \in Request : Shape(new) /\ new.pc = "done" /\ req' = Move(q, new)
    <3>1. /\ [Respond("gone") EXCEPT !.got = l] \in Request
          /\ Shape([Respond("gone") EXCEPT !.got = l])
          /\ [Respond("gone") EXCEPT !.got = l].pc = "done"
      BY DEF get_link_any, Called, Respond, Idle, Request, Shape, Pcs, Answers
    <3>2. QED
      BY <3>1, <2>1
  <2>2. QED
    BY <2>1, RespondFact DEF Tombstone, Answers
<1>2. QED
  BY <1>1, QuietMove DEF At, Tombstone

LEMMA RevealStep ==
  ASSUME IInv, NEW q \in Reqs, NEW c \in Clients, NEW n \in Names, Reveal(q, c, n)
  PROVE  IInv'
<1> DEFINE go == [Idle EXCEPT !.pc = "consume", !.client = c, !.name = n]
<1>1. go \in Request /\ Shape(go) /\ go.pc = "consume"
  BY DEF Idle, Request, Shape, Pcs, Answers
<1>2. \/ req' = Move(q, go)
      \/ req' = Move(q, Respond("missing"))
      \/ req' = Move(q, Missing(n))
  BY DEF Reveal
<1> HIDE DEF go
<1>3. PICK new \in Request : /\ Shape(new) /\ new.pc \in {"consume", "done", "tombstone"}
                             /\ req' = Move(q, new)
  BY <1>1, <1>2, RespondFact, MissingFact DEF Answers
<1>4. QED
  BY <1>3, QuietMove DEF At, Reveal

LEMMA CardStep ==
  ASSUME IInv, NEW q \in Reqs, NEW n \in Names, Card(q, n)
  PROVE  IInv'
<1>1. PICK new \in Request : Shape(new) /\ new.pc = "done" /\ req' = Move(q, new)
  <2>1. ASSUME NEW l \in get_link_live(n), NEW a \in {"blind", "shown"},
               req' = Move(q, [Respond(a) EXCEPT !.got = l])
        PROVE  \E new \in Request : Shape(new) /\ new.pc = "done" /\ req' = Move(q, new)
    <3>1. l \in Links
      BY DEF get_link_live, Called
    <3> DEFINE card == [Respond(a) EXCEPT !.got = l]
    <3>2. card \in Request /\ Shape(card) /\ card.pc = "done"
      BY <3>1 DEF Respond, Idle, Request, Shape, Pcs, Answers
    <3> HIDE DEF card
    <3>3. QED
      BY <2>1, <3>2 DEF card
  <2>2. QED
    BY <2>1, RespondFact DEF Card, Answers
<1>2. QED
  BY <1>1, QuietMove DEF At, Card

LEMMA ReadStep ==
  ASSUME IInv, NEW q \in Reqs, NEW n \in Names, NEW key \in handed \cup {None}, Read(q, n, key)
  PROVE  IInv'
<1>1. key \in Links \cup {None}
  BY DEF IInv, TypeOK
<1>2. PICK new \in Request : /\ Shape(new) /\ new.pc \in {"done", "readCreator"}
                             /\ req' = Move(q, new)
  <2>1. ASSUME NEW l \in get_link_live(n),
               \/ req' = Move(q, [Respond("full") EXCEPT !.got = l, !.key = key])
               \/ req' = Move(q, Respond("metadata"))
               \/ req' = Move(q, [Idle EXCEPT !.pc = "readCreator", !.name = n,
                                              !.key = key, !.got = l])
        PROVE  \E new \in Request : /\ Shape(new) /\ new.pc \in {"done", "readCreator"}
                                    /\ req' = Move(q, new)
    <3>0. l \in Links
      BY DEF get_link_live, Called
    <3> DEFINE full == [Respond("full") EXCEPT !.got = l, !.key = key]
               ask  == [Idle EXCEPT !.pc = "readCreator", !.name = n, !.key = key, !.got = l]
    <3>1. full \in Request /\ Shape(full) /\ full.pc = "done"
      BY <1>1, <3>0 DEF Respond, Idle, Request, Shape, Pcs, Answers
    <3>2. ask \in Request /\ Shape(ask) /\ ask.pc = "readCreator"
      BY <1>1, <3>0 DEF Idle, Request, Shape, Pcs, Answers
    <3>3. req' = Move(q, full) \/ req' = Move(q, Respond("metadata")) \/ req' = Move(q, ask)
      BY <2>1
    <3> HIDE DEF full, ask
    <3>4. QED
      BY <3>1, <3>2, <3>3, RespondFact DEF Answers
  <2>2. QED
    BY <2>1, RespondFact DEF Read, Answers
<1>3. QED
  BY <1>2, QuietMove DEF At, Read

LEMMA ReadCreatorStep ==
  ASSUME IInv, NEW q \in Reqs, ReadCreator(q)
  PROVE  IInv'
<1> DEFINE full == Answer(q, "full")
<1>1. full \in Request /\ Shape(full) /\ full.pc = "done"
  BY DEF IInv, TypeOK, RequestShape, ReadCreator, At, Answer, Request, Shape, Pcs, Answers
<1>2. req' = Move(q, full) \/ req' = Move(q, Respond("metadata"))
  BY DEF ReadCreator
<1> HIDE DEF full
<1>3. PICK new \in Request : Shape(new) /\ new.pc = "done" /\ req' = Move(q, new)
  BY <1>1, <1>2, RespondFact DEF Answers
<1>4. QED
  BY <1>3, QuietMove DEF At, ReadCreator

LEMMA RejectStep ==
  ASSUME IInv, NEW q \in Reqs, Reject(q)
  PROVE  IInv'
BY RespondFact, QuietMove DEF At, Reject, Answers

LEMMA BumpStep ==
  ASSUME IInv, NEW q \in Reqs, Bump(q)
  PROVE  IInv'
<1> DEFINE new == Goto(q, "done")
<1>1. new \in Request /\ Shape(new) /\ new.pc = "done"
  BY DEF IInv, TypeOK, RequestShape, Bump, At, Goto, Request, Shape, Pcs, Answers
<1>2. req' = Move(q, new) \/ req' = Outdate(Move(q, new))
  BY DEF Bump, Bumped
<1> HIDE DEF new
<1>3. Steps(q, new)
  BY <1>1, <1>2, MoveFact, CommitFact DEF IInv, Commits
<1>4. QED
  BY <1>1, <1>3, QuietStep DEF At, Bump, IInv, TypeOK, TableTypeOK, ServiceUnchanged

LEMMA RedactReadStep ==
  ASSUME IInv, NEW q \in Reqs, RedactRead(q)
  PROVE  IInv'
<1>1. req[q].name \in Names /\ req[q] \in Request
  BY DEF IInv, TypeOK, RequestShape, Shape, RedactRead, At
<1>2. ASSUME NEW l \in Redactable(req[q].name),
             req' = Move(q, [Goto(q, "redactWrite") EXCEPT !.got = l])
      PROVE  IInv'
  <2> DEFINE new == [Goto(q, "redactWrite") EXCEPT !.got = l]
  <2>1. l \in Links /\ Stored(l) /\ row[l].name = req[q].name /\ ~ row[l].blank
    BY DEF Redactable, Called
  <2>2. /\ new \in Request /\ Shape(new)
        /\ new.pc = "redactWrite" /\ new.got = l /\ new.name = req[q].name
    BY <1>1, <2>1 DEF IInv, RequestShape, RedactRead, At, Goto, Request, Shape, Pcs, Answers
  <2>3. req' = Move(q, new)
    BY <1>2
  <2> HIDE DEF new
  <2>4. Steps(q, new)
    BY <2>2, <2>3, MoveFact DEF IInv
  <2>5. QED
    BY <2>1, <2>2, <2>4, QuietStep DEF At, RedactRead, IInv, TypeOK, TableTypeOK, ServiceUnchanged
<1>3. CASE req' = Move(q, Missing(req[q].name))
  BY <1>1, <1>3, MissingFact, QuietMove DEF At, RedactRead
<1>4. QED
  BY <1>2, <1>3 DEF RedactRead

(***************************************************************************)
(* When the lock is free no transaction is about to commit, so a commit by *)
(* q leaves no current snapshot behind.                                    *)
(***************************************************************************)
LEMMA NobodyCommits ==
  ASSUME IInv, LockFree
  PROVE  \A p \in Reqs : req[p].pc # "redactCommit"
BY ServiceAssumption DEF IInv, LockHeld, LockFree, At

LEMMA CommitStep ==
  ASSUME IInv, LockFree, UNCHANGED writer, NEW q \in Reqs, NEW new \in Request, Commits(q, new),
         new.pc \notin {"redactWrite", "redactCommit"}
  PROVE  RequestShape' /\ LockHeld' /\ SnapshotCurrent'
<1>1. RequestShape'
  BY DEF Commits, Steps, RequestShape
<1>2. \A p \in Reqs : req'[p].pc # "redactCommit"
  BY NobodyCommits DEF Commits, Steps, SameButStale
<1>3. LockHeld'
  BY <1>2, ServiceAssumption DEF LockHeld, LockFree, At
<1>4. \A p \in Reqs : req'[p].pc = "redactWrite" => req'[p].stale = TRUE
  BY DEF Commits, Steps, SameButStale
<1>5. SnapshotCurrent'
  BY <1>2, <1>4 DEF SnapshotCurrent, At
<1>6. QED
  BY <1>1, <1>3, <1>5

LEMMA RedactWriteStep ==
  ASSUME IInv, NEW q \in Reqs, RedactWrite(q)
  PROVE  IInv'
<1>1. CASE ~ Upgradable(q)
  <2>1. req' = Move(q, Respond("conflict")) /\ UNCHANGED writer
    BY <1>1 DEF RedactWrite
  <2>2. QED
    BY <2>1, RespondFact, QuietMove DEF At, RedactWrite, Answers
<1>2. CASE Upgradable(q)
  <2> DEFINE new == Goto(q, "redactCommit")
  <2>1. /\ new \in Request /\ Shape(new) /\ new.pc = "redactCommit"
        /\ new.got = req[q].got /\ new.name = req[q].name
    BY DEF IInv, TypeOK, RequestShape, RedactWrite, At, Goto, Request, Shape, Pcs
  <2>2. req' = Move(q, new) /\ writer' = q
    BY <1>2 DEF RedactWrite
  <2> HIDE DEF new
  <2>3. Steps(q, new)
    BY <2>1, <2>2, MoveFact DEF IInv
  <2>4. UNCHANGED <<row, now, epoch, jar, handed, minted, rendered>>
    BY DEF RedactWrite, ServiceUnchanged
  <2>5. LockFree /\ ~ req[q].stale /\ At(q, "redactWrite")
    BY <1>2 DEF Upgradable, RedactWrite
  <2>6. TypeOK'
    BY <2>2, <2>3, <2>4 DEF IInv, TypeOK, TableTypeOK, Steps
  <2>7. RowShape' /\ NameUnique' /\ RenderedIsBlank' /\ SpentOnce'
    BY <2>4 DEF IInv, RowShape, NameUnique, RenderedIsBlank, SpentOnce, Stored
  <2>8. RequestShape'
    BY <2>3 DEF Steps, RequestShape
  <2>9. LockHeld'
    BY <2>1, <2>2, <2>3, <2>5, NobodyCommits DEF LockHeld, At, Steps, SameButStale
  <2>10. SnapshotCurrent'
    <3>1. /\ Stored(req[q].got) /\ row[req[q].got].name = req[q].name
          /\ ~ row[req[q].got].blank
      BY <2>5 DEF IInv, SnapshotCurrent, At
    <3>2. \A p \in Reqs \ {q} :
            (req'[p].pc = "redactCommit" \/ (req'[p].pc = "redactWrite" /\ ~ req'[p].stale))
              => (req[p].pc = "redactCommit" \/ (req[p].pc = "redactWrite" /\ ~ req[p].stale))
      BY <2>3 DEF IInv, TypeOK, Request, Steps, SameButStale
    <3>3. QED
      BY <2>1, <2>3, <2>4, <3>1, <3>2 DEF IInv, SnapshotCurrent, At, Stored, Steps, SameButStale
  <2>11. OneMint'
    BY <2>1, <2>3, <2>4 DEF IInv, OneMint, At, Steps, SameButStale
  <2>12. QED
    BY <2>6, <2>7, <2>8, <2>9, <2>10, <2>11 DEF IInv
<1>3. QED
  BY <1>1, <1>2

LEMMA RedactCommitStep ==
  ASSUME IInv, NEW q \in Reqs, RedactCommit(q)
  PROVE  IInv'
<1> DEFINE new == Answer(q, "revealed")
           l == req[q].got
<1>1. /\ new \in Request /\ Shape(new) /\ new.pc = "done"
  BY DEF IInv, TypeOK, RequestShape, RedactCommit, At, Answer, Request, Shape, Pcs, Answers
<1>2. req' = Outdate(Move(q, new))
  BY DEF RedactCommit
<1> HIDE DEF new
<1>3. Commits(q, new)
  BY <1>1, <1>2, CommitFact DEF IInv
<1>4. /\ l \in Links /\ Stored(l) /\ row[l].name = req[q].name /\ ~ row[l].blank
  BY DEF IInv, RequestShape, Shape, SnapshotCurrent, RedactCommit, At
<1>5. Called(req[q].name) = {l}
  BY <1>4 DEF IInv, NameUnique, Called
<1>6. row' = [row EXCEPT ![l] = [row[l] EXCEPT !.blank = TRUE]]
  BY <1>5 DEF RedactCommit, Redact, IInv, TypeOK, TableTypeOK
<1>7. /\ rendered' = [rendered EXCEPT ![l] = @ + 1] /\ writer' = None
      /\ UNCHANGED <<now, epoch, jar, handed, minted>>
  BY DEF RedactCommit
<1> HIDE DEF l
<1>8. row[l] \in Row /\ row[l].stage # "unused"
  BY <1>4 DEF IInv, TypeOK, TableTypeOK, Stored
<1>9. /\ row' \in [Links -> Row]
      /\ \A k \in Links : /\ row'[k].stage = row[k].stage /\ row'[k].name = row[k].name
                          /\ row'[k].once = row[k].once /\ row'[k].uses = row[k].uses
                          /\ k # l => row'[k] = row[k]
      /\ row'[l].blank = TRUE
  BY <1>4, <1>6, <1>8 DEF IInv, TypeOK, TableTypeOK, Row
<1>10. TypeOK'
  <2>1. rendered' \in [Links -> Nat]
    BY <1>4, <1>7 DEF IInv, TypeOK
  <2>2. req' \in [Reqs -> Request]
    BY <1>3 DEF Commits, Steps
  <2>3. QED
    BY <1>7, <1>9, <2>1, <2>2 DEF IInv, TypeOK, TableTypeOK
<1>11. RowShape' /\ NameUnique' /\ SpentOnce'
  BY <1>7, <1>8, <1>9 DEF IInv, RowShape, NameUnique, SpentOnce, Stored
<1>12. RequestShape'
  BY <1>3 DEF Commits, Steps, RequestShape
<1>13. \A p \in Reqs : req'[p].pc # "redactCommit"
  <2>1. \A p \in Reqs \ {q} : req[p].pc # "redactCommit"
    BY DEF IInv, LockHeld, RedactCommit, At
  <2>2. QED
    BY <1>1, <1>3, <2>1 DEF Commits, Steps, SameButStale
<1>14. LockHeld'
  BY <1>7, <1>13, ServiceAssumption DEF LockHeld, At
<1>15. \A p \in Reqs : req'[p].pc = "redactWrite" => req'[p].stale = TRUE
  BY <1>1, <1>3 DEF Commits, Steps, SameButStale
<1>16. SnapshotCurrent'
  BY <1>13, <1>15 DEF SnapshotCurrent, At
<1>17. RenderedIsBlank'
  BY <1>4, <1>7, <1>9 DEF IInv, TypeOK, RenderedIsBlank
<1>18. OneMint'
  BY <1>1, <1>3, <1>7, <1>9 DEF IInv, RequestShape, Shape, OneMint, At, Commits, Steps, SameButStale
<1>19. QED
  BY <1>10, <1>11, <1>12, <1>14, <1>16, <1>17, <1>18 DEF IInv

LEMMA ConsumeStep ==
  ASSUME IInv, NEW q \in Reqs, Consume(q)
  PROVE  IInv'
<1>1. LockFree /\ At(q, "consume") /\ UNCHANGED <<now, writer, epoch, jar, handed, minted, rendered>>
  BY DEF Consume, ServiceUnchanged
<1>2. req[q].name \in Names /\ req[q] \in Request
  BY <1>1 DEF IInv, TypeOK, RequestShape, Shape, At
<1>3. CASE req' = Move(q, Missing(req[q].name)) /\ UNCHANGED row
  BY <1>1, <1>2, <1>3, MissingFact, QuietMove DEF At, ServiceUnchanged
<1>4. ASSUME NEW l \in get_link_live(req[q].name),
             row' = Spend(get_link_live(req[q].name)),
             req' = Outdate(Move(q, [Goto(q, "mint") EXCEPT !.got = l]))
      PROVE  IInv'
  <2> DEFINE new == [Goto(q, "mint") EXCEPT !.got = l]
  <2>1. l \in Links /\ Stored(l) /\ row[l].name = req[q].name /\ Live(l)
    BY DEF get_link_live, Called
  <2>2. /\ new \in Request /\ Shape(new)
        /\ new.pc = "mint" /\ new.got = l
    BY <1>1, <1>2, <2>1 DEF IInv, RequestShape, At, Goto, Request, Shape, Pcs, Answers
  <2>3. req' = Outdate(Move(q, new))
    BY <1>4
  <2> HIDE DEF new
  <2>4. Commits(q, new)
    BY <2>2, <2>3, CommitFact DEF IInv
  <2>5. get_link_live(req[q].name) = {l}
    BY <2>1 DEF IInv, NameUnique, get_link_live, Called
  <2>6. row[l] \in Row /\ row[l].stage # "unused"
    BY <2>1 DEF IInv, TypeOK, TableTypeOK, Stored
  <2>7. row' = [row EXCEPT ![l] = [row[l] EXCEPT !.uses = row[l].uses + 1]]
    BY <1>4, <2>5 DEF Spend, IInv, TypeOK, TableTypeOK
  <2>8. /\ row' \in [Links -> Row]
        /\ \A k \in Links : /\ row'[k].stage = row[k].stage /\ row'[k].name = row[k].name
                            /\ row'[k].once = row[k].once /\ row'[k].blank = row[k].blank
                            /\ k # l => row'[k] = row[k]
        /\ row'[l].uses = row[l].uses + 1
    BY <2>1, <2>6, <2>7 DEF IInv, TypeOK, TableTypeOK, Row
  <2>9. row[l].once => row[l].uses = 0 /\ minted[l] = 0
    BY <2>1, <2>6 DEF IInv, TypeOK, SpentOnce, Live, Row
  <2>10. TypeOK'
    BY <1>1, <2>4, <2>8 DEF IInv, TypeOK, TableTypeOK, Commits, Steps
  <2>11. RowShape' /\ NameUnique' /\ RenderedIsBlank'
    BY <1>1, <2>6, <2>8 DEF IInv, RowShape, NameUnique, RenderedIsBlank, Stored
  <2>12. SpentOnce'
    BY <1>1, <2>1, <2>8, <2>9 DEF IInv, SpentOnce
  <2>13. RequestShape' /\ LockHeld' /\ SnapshotCurrent'
    BY <1>1, <2>2, <2>4, CommitStep
  <2>14. OneMint'
    <3>1. \A p \in Reqs \ {q} : /\ req'[p].pc = req[p].pc /\ req'[p].got = req[p].got
                                /\ req[p].pc = "mint" => req[p].got \in Links
      BY <2>4 DEF IInv, RequestShape, Shape, Commits, Steps, SameButStale
    <3>2. req'[q].pc = "mint" /\ req'[q].got = l
      BY <2>2, <2>4 DEF Commits, Steps
    <3>3. \A p \in Reqs \ {q} : req[p].pc = "mint" /\ row[l].once => req[p].got # l
      BY <2>9 DEF IInv, OneMint, At
    <3>4. QED
      BY <1>1, <2>1, <2>6, <2>8, <2>9, <3>1, <3>2, <3>3 DEF IInv, OneMint, At
  <2>15. QED
    BY <2>10, <2>11, <2>12, <2>13, <2>14 DEF IInv
<1>5. QED
  BY <1>3, <1>4 DEF Consume

LEMMA MintStep ==
  ASSUME IInv, NEW q \in Reqs, Mint(q)
  PROVE  IInv'
<1> DEFINE l   == req[q].got
           cap == [name |-> req[q].name, exp |-> now + TokenTTL, epoch |-> epoch, link |-> l]
           new == [Answer(q, "seeOther") EXCEPT !.cap = cap]
<1>1. /\ At(q, "mint") /\ l \in Links /\ req[q].name \in Names /\ req[q] \in Request
      /\ req[q].client \in Clients
  BY DEF Mint, IInv, TypeOK, RequestShape, Shape, At
<1>2. cap \in Cap
  BY <1>1, ServiceAssumption DEF IInv, TypeOK, TableTypeOK, Cap
<1>3. /\ new \in Request /\ Shape(new) /\ new.pc = "done"
  BY <1>1, <1>2 DEF IInv, RequestShape, At, Answer, Request, Shape, Pcs, Answers
<1>4. req' = Move(q, new) \/ req' = Outdate(Move(q, new))
  BY DEF Mint, Bumped
<1> HIDE DEF new, cap
<1>5. Steps(q, new)
  BY <1>3, <1>4, MoveFact, CommitFact DEF IInv, Commits
<1>6. /\ minted' = [minted EXCEPT ![l] = @ + 1]
      /\ UNCHANGED <<row, now, writer, epoch, jar, handed, rendered>>
  BY DEF Mint
<1> HIDE DEF l
<1>7. TypeOK'
  <2>1. minted' \in [Links -> Nat]
    BY <1>1, <1>6 DEF IInv, TypeOK
  <2>2. QED
    BY <1>5, <1>6, <2>1 DEF IInv, TypeOK, TableTypeOK, Steps
<1>8. row[l].stage # "unused" /\ (row[l].once => row[l].uses = 1 /\ minted[l] = 0)
  BY <1>1 DEF IInv, OneMint, l
<1>9. RowShape' /\ NameUnique' /\ RenderedIsBlank'
  BY <1>1, <1>6, <1>8 DEF IInv, TypeOK, RowShape, NameUnique, RenderedIsBlank, Stored
<1>10. SpentOnce'
  BY <1>1, <1>6, <1>8 DEF IInv, TypeOK, SpentOnce
<1>11. RequestShape'
  BY <1>5 DEF Steps, RequestShape
<1>12. LockHeld'
  BY <1>1, <1>3, <1>5, <1>6 DEF IInv, LockHeld, At, Steps, SameButStale
<1>13. SnapshotCurrent'
  BY <1>3, <1>5, <1>6 DEF IInv, TypeOK, Request, SnapshotCurrent, At, Steps, SameButStale, Stored
<1>14. OneMint'
  <2>1. \A p \in Reqs \ {q} : req[p].pc = "mint" /\ row[l].once => req[p].got # l
    BY <1>1 DEF IInv, OneMint, At, l
  <2>2. \A p \in Reqs \ {q} : /\ req'[p].pc = req[p].pc /\ req'[p].got = req[p].got
                              /\ req[p].pc = "mint" => req[p].got \in Links
    BY <1>5 DEF IInv, RequestShape, Shape, Steps, SameButStale
  <2>3. req'[q].pc = "done"
    BY <1>3, <1>5 DEF Steps
  <2>4. QED
    BY <1>1, <1>6, <2>1, <2>2, <2>3 DEF IInv, TypeOK, OneMint, At
<1>15. QED
  BY <1>7, <1>9, <1>10, <1>11, <1>12, <1>13, <1>14 DEF IInv

LEMMA CreateStep ==
  ASSUME IInv, NEW q \in Reqs, NEW l \in Links, NEW n \in Names, NEW ttl \in TTLs,
         NEW isOnce \in BOOLEAN, NEW isOwned \in BOOLEAN,
         Create(q, l, n, isOnce, isOwned, ttl)
  PROVE  IInv'
<1> DEFINE new == [Idle EXCEPT !.pc = "bump", !.name = n, !.got = l, !.answer = "created"]
<1>1. /\ new \in Request /\ Shape(new) /\ new.pc = "bump"
  BY DEF Idle, Request, Shape, Pcs, Answers
<1>2. req' = Outdate(Move(q, new))
  BY DEF Create
<1> HIDE DEF new
<1>3. Commits(q, new)
  BY <1>1, <1>2, CommitFact DEF IInv
<1>4. /\ LockFree /\ row[l].stage = "unused" /\ Called(n) = {}
      /\ UNCHANGED <<now, writer, epoch, jar, handed, minted, rendered>>
  BY DEF Create, Insertable, ServiceUnchanged
<1>5. now + ttl \in Nat
  BY ServiceAssumption DEF IInv, TypeOK, TableTypeOK
<1>6. /\ row' \in [Links -> Row]
      /\ \A k \in Links : k # l => row'[k] = row[k]
      /\ row'[l].stage = "stored" /\ row'[l].name = n /\ row'[l].uses = 0 /\ row'[l].blank = FALSE
  BY <1>5 DEF Create, Insert, Unused, Row, IInv, TypeOK, TableTypeOK
<1>7. row[l] = Unused /\ minted[l] = 0 /\ rendered[l] = 0
  <2>1. row[l] = Unused /\ minted[l] = 0
    BY <1>4 DEF IInv, RowShape
  <2>2. row[l].blank = FALSE
    BY <2>1 DEF Unused
  <2>3. QED
    BY <2>1, <2>2 DEF IInv, RenderedIsBlank
<1>8. TypeOK'
  BY <1>3, <1>4, <1>6 DEF IInv, TypeOK, TableTypeOK, Commits, Steps
<1>9. RowShape'
  BY <1>4, <1>6 DEF IInv, RowShape
<1>10. NameUnique'
  BY <1>4, <1>6 DEF IInv, NameUnique, Stored, Called
<1>11. RenderedIsBlank'
  BY <1>4, <1>6, <1>7 DEF IInv, RenderedIsBlank
<1>12. SpentOnce'
  BY <1>4, <1>6, <1>7 DEF IInv, SpentOnce
<1>13. RequestShape' /\ LockHeld' /\ SnapshotCurrent'
  BY <1>1, <1>3, <1>4, CommitStep
<1>14. OneMint'
  <2>1. \A p \in Reqs : req'[p].pc = "mint" => /\ p # q /\ req[p].pc = "mint"
                                               /\ req'[p].got = req[p].got
                                               /\ req[p].got \in Links \ {l}
    BY <1>1, <1>3, <1>4 DEF IInv, RequestShape, Shape, OneMint, At, Commits, Steps, SameButStale
  <2>2. QED
    BY <1>4, <1>6, <2>1 DEF IInv, OneMint, At
<1>15. QED
  BY <1>8, <1>9, <1>10, <1>11, <1>12, <1>13, <1>14 DEF IInv

LEMMA WithdrawStep ==
  ASSUME IInv, NEW q \in Reqs, NEW n \in Names, NEW key \in handed \cup {None}, Withdraw(q, n, key)
  PROVE  IInv'
<1>1. /\ LockFree /\ At(q, "idle")
      /\ UNCHANGED <<now, writer, epoch, jar, handed, minted, rendered>>
  BY DEF Withdraw, ServiceUnchanged
<1>2. CASE req' = Move(q, Respond("missing")) /\ UNCHANGED row
  BY <1>1, <1>2, RespondFact, QuietMove DEF At, ServiceUnchanged, Answers
<1>3. CASE /\ row' = Mark(Matching(n, key))
           /\ req' = Outdate(Move(q, [Respond("noContent") EXCEPT !.key = key]))
  <2> DEFINE new == [Respond("noContent") EXCEPT !.key = key]
  <2>1. key \in Links \cup {None}
    BY DEF IInv, TypeOK
  <2>2. /\ new \in Request /\ Shape(new) /\ new.pc = "done"
    BY <2>1 DEF Respond, Idle, Request, Shape, Pcs, Answers
  <2>3. req' = Outdate(Move(q, new))
    BY <1>3
  <2> HIDE DEF new
  <2>4. Commits(q, new)
    BY <2>2, <2>3, CommitFact DEF IInv
  <2>5. \A k \in Matching(n, key) : Stored(k)
    BY DEF Matching, Called
  <2>6. /\ row' \in [Links -> Row]
        /\ \A k \in Links : /\ row'[k].stage = row[k].stage /\ row'[k].name = row[k].name
                            /\ row'[k].once = row[k].once /\ row'[k].blank = row[k].blank
                            /\ row'[k].uses = row[k].uses
                            /\ row[k].stage = "unused" => row'[k] = row[k]
    <3>1. ASSUME NEW k \in Links
          PROVE  /\ row'[k] \in Row
                 /\ row'[k].stage = row[k].stage /\ row'[k].name = row[k].name
                 /\ row'[k].once = row[k].once /\ row'[k].blank = row[k].blank
                 /\ row'[k].uses = row[k].uses
                 /\ row[k].stage = "unused" => row'[k] = row[k]
      <4>1. row[k] \in Row
        BY DEF IInv, TypeOK, TableTypeOK
      <4>2. CASE k \in Matching(n, key)
        <5>1. row'[k] = [row[k] EXCEPT !.withdrawn = TRUE]
          BY <1>3, <4>2 DEF Mark
        <5>2. row[k].stage = "stored"
          BY <2>5, <4>2 DEF Stored
        <5>3. QED
          BY <4>1, <5>1, <5>2 DEF Row
      <4>3. CASE k \notin Matching(n, key)
        BY <1>3, <4>1, <4>3 DEF Mark
      <4>4. QED
        BY <4>2, <4>3
    <3>2. DOMAIN row' = Links /\ row' = [k \in Links |-> row'[k]]
      BY <1>3 DEF Mark
    <3>3. QED
      BY <3>1, <3>2
  <2>7. TypeOK'
    BY <1>1, <2>4, <2>6 DEF IInv, TypeOK, TableTypeOK, Commits, Steps
  <2>8. RowShape' /\ NameUnique' /\ RenderedIsBlank' /\ SpentOnce'
    BY <1>1, <2>6 DEF IInv, RowShape, NameUnique, RenderedIsBlank, SpentOnce, Stored
  <2>9. RequestShape' /\ LockHeld' /\ SnapshotCurrent'
    BY <1>1, <2>2, <2>4, CommitStep
  <2>10. OneMint'
    BY <1>1, <2>2, <2>4, <2>6
    DEF IInv, RequestShape, Shape, OneMint, At, Commits, Steps, SameButStale
  <2>11. QED
    BY <2>7, <2>8, <2>9, <2>10 DEF IInv
<1>4. QED
  BY <1>2, <1>3 DEF Withdraw

(***************************************************************************)
(* A request that ends early, in a transaction or not: the lock it held is *)
(* free again and the table is as it was.                                  *)
(***************************************************************************)
LEMMA EndStep ==
  ASSUME IInv, NEW q \in Reqs, NEW new \in Request, Shape(new), req' = Move(q, new),
         new.pc \in {"idle", "done"},
         writer' = IF writer = q THEN None ELSE writer,
         UNCHANGED <<row, now>>, ServiceUnchanged
  PROVE  IInv'
<1>1. Steps(q, new)
  BY MoveFact DEF IInv
<1>2. UNCHANGED <<row, now, epoch, jar, handed, minted, rendered>>
  BY DEF ServiceUnchanged
<1>3. TypeOK'
  BY <1>1, <1>2 DEF IInv, TypeOK, TableTypeOK, Steps
<1>4. RowShape' /\ NameUnique' /\ RenderedIsBlank' /\ SpentOnce'
  BY <1>2 DEF IInv, RowShape, NameUnique, RenderedIsBlank, SpentOnce, Stored
<1>5. RequestShape'
  BY <1>1 DEF Steps, RequestShape
<1>6. LockHeld'
  <2> SUFFICES ASSUME NEW p \in Reqs PROVE writer' = p <=> req'[p].pc = "redactCommit"
    BY DEF LockHeld, At
  <2>1. writer = p <=> req[p].pc = "redactCommit"
    BY DEF IInv, LockHeld, At
  <2>2. CASE p = q
    BY <1>1, <2>2, ServiceAssumption DEF Steps
  <2>3. CASE p # q
    BY <1>1, <2>1, <2>3, ServiceAssumption DEF Steps, SameButStale
  <2>4. QED
    BY <2>2, <2>3
<1>7. SnapshotCurrent'
  BY <1>1, <1>2 DEF IInv, TypeOK, Request, SnapshotCurrent, At, Steps, SameButStale, Stored
<1>8. OneMint'
  BY <1>1, <1>2 DEF IInv, OneMint, At, Steps, SameButStale
<1>9. QED
  BY <1>3, <1>4, <1>5, <1>6, <1>7, <1>8 DEF IInv

LEMMA FailStep ==
  ASSUME IInv, NEW q \in Reqs, Fail(q)
  PROVE  IInv'
BY RespondFact, EndStep DEF Fail, Answers

LEMMA HangUpStep ==
  ASSUME IInv, NEW q \in Reqs, HangUp(q)
  PROVE  IInv'
BY IdleFact, EndStep DEF HangUp

LEMMA DeliverStep ==
  ASSUME IInv, NEW q \in Reqs, Deliver(q)
  PROVE  IInv'
<1>1. req' = Move(q, Idle) /\ At(q, "done") /\ UNCHANGED <<row, now, writer, epoch, minted, rendered>>
  BY DEF Deliver
<1>2. Steps(q, Idle)
  BY <1>1, IdleFact, MoveFact DEF IInv
<1>3. jar' \in [Clients -> [Names -> Cap \cup {None}]]
  <2>1. req[q].cap \in Cap \cup {None} /\ jar \in [Clients -> [Names -> Cap \cup {None}]]
    BY DEF IInv, TypeOK, Request
  <2>2. CASE jar' = [jar EXCEPT ![req[q].client][req[q].name] = req[q].cap]
    BY <2>1, <2>2
  <2>3. CASE jar' = [jar EXCEPT ![req[q].client][req[q].name] = None]
    BY <2>1, <2>3
  <2>4. CASE jar' = jar
    BY <2>1, <2>4
  <2>5. QED
    BY <2>2, <2>3, <2>4 DEF Deliver
<1>4. handed' \subseteq Links
  BY DEF Deliver, IInv, TypeOK, RequestShape, Shape
<1>5. QED
  BY <1>1, <1>2, <1>3, <1>4, IdleFact, QuietStep DEF At, IInv, TypeOK, TableTypeOK

LEMMA ReapStep ==
  ASSUME IInv, Reap
  PROVE  IInv'
<1>1. /\ LockFree /\ row' = Free(Expired) /\ req' = Outdate(req)
      /\ UNCHANGED <<now, writer, epoch, jar, handed, minted, rendered>>
  BY DEF Reap, ServiceUnchanged
<1>2. /\ row' \in [Links -> Row]
      /\ \A k \in Links : /\ row'[k].name = row[k].name /\ row'[k].once = row[k].once
                          /\ row'[k].blank = row[k].blank /\ row'[k].uses = row[k].uses
                          /\ row'[k].stage = "unused" => row'[k] = row[k]
                          /\ row[k].stage # "unused" => row'[k].stage # "unused"
                          /\ row'[k].stage = "stored" => row[k].stage = "stored"
  <2>1. ASSUME NEW k \in Links
        PROVE  /\ row'[k] \in Row
               /\ row'[k].name = row[k].name /\ row'[k].once = row[k].once
               /\ row'[k].blank = row[k].blank /\ row'[k].uses = row[k].uses
               /\ row'[k].stage = "unused" => row'[k] = row[k]
               /\ row[k].stage # "unused" => row'[k].stage # "unused"
               /\ row'[k].stage = "stored" => row[k].stage = "stored"
    <3>1. row[k] \in Row
      BY DEF IInv, TypeOK, TableTypeOK
    <3>2. CASE k \in Expired
      <4>1. row'[k] = [row[k] EXCEPT !.stage = "freed"]
        BY <1>1, <3>2 DEF Free
      <4>2. QED
        BY <3>1, <4>1 DEF Row
    <3>3. CASE k \notin Expired
      BY <1>1, <3>1, <3>3 DEF Free
    <3>4. QED
      BY <3>2, <3>3
  <2>2. row' = [k \in Links |-> row'[k]]
    BY <1>1 DEF Free
  <2>3. QED
    BY <2>1, <2>2
<1>3. /\ req' \in [Reqs -> Request]
      /\ \A p \in Reqs : /\ SameButStale(req[p], req'[p])
                         /\ req[p].pc = "redactWrite" => req'[p].stale = TRUE
  BY <1>1, OutdateFact DEF IInv, TypeOK
<1>4. TypeOK'
  BY <1>1, <1>2, <1>3 DEF IInv, TypeOK, TableTypeOK
<1>5. /\ RowShape' /\ NameUnique' /\ RenderedIsBlank' /\ SpentOnce'
  <2>1. RowShape'
    <3> SUFFICES ASSUME NEW k \in Links
                 PROVE  /\ row'[k].stage = "unused" => row'[k] = Unused /\ minted'[k] = 0
                        /\ row'[k].stage # "unused" => row'[k].name \in Names
      BY DEF RowShape
    <3>1. /\ row[k].stage = "unused" => row[k] = Unused /\ minted[k] = 0
          /\ row[k].stage # "unused" => row[k].name \in Names
      BY DEF IInv, RowShape
    <3>2. CASE row'[k].stage = "unused"
      BY <1>1, <1>2, <3>1, <3>2
    <3>3. CASE row'[k].stage # "unused"
      <4>1. row[k].stage # "unused"
        <5> SUFFICES ASSUME row[k].stage = "unused" PROVE FALSE
          OBVIOUS
        <5>1. k \notin Expired
          BY DEF Expired, Stored
        <5>2. QED
          BY <1>1, <3>3, <5>1 DEF Free
      <4>2. QED
        BY <1>2, <3>1, <3>3, <4>1
    <3>4. QED
      BY <3>2, <3>3
  <2>2. NameUnique'
    BY <1>2 DEF IInv, NameUnique, Stored
  <2>3. RenderedIsBlank'
    BY <1>1, <1>2 DEF IInv, RenderedIsBlank
  <2>4. SpentOnce'
    BY <1>1, <1>2 DEF IInv, SpentOnce
  <2>5. QED
    BY <2>1, <2>2, <2>3, <2>4
<1>6. RequestShape'
  BY <1>3, ShapeFact DEF IInv, RequestShape
<1>7. LockHeld'
  BY <1>1, <1>3 DEF IInv, LockHeld, At, SameButStale
<1>8. SnapshotCurrent'
  BY <1>1, <1>3, NobodyCommits DEF SnapshotCurrent, At, SameButStale
<1>9. OneMint'
  BY <1>1, <1>2, <1>3 DEF IInv, RequestShape, Shape, OneMint, At, SameButStale
<1>10. QED
  BY <1>4, <1>5, <1>6, <1>7, <1>8, <1>9 DEF IInv

LEMMA TickStep ==
  ASSUME IInv, now' \in Nat, UNCHANGED <<row, req, writer, epoch, jar, handed, minted, rendered>>
  PROVE  IInv'
BY DEF IInv, TypeOK, TableTypeOK, RowShape, NameUnique, RequestShape, LockHeld, SnapshotCurrent,
       RenderedIsBlank, OneMint, SpentOnce, Stored, At

LEMMA RestartStep ==
  ASSUME IInv, Restart
  PROVE  IInv'
<1>1. /\ req' = [q \in Reqs |-> Idle] /\ writer' = None
      /\ UNCHANGED <<row, now, jar, handed, minted, rendered>>
  BY DEF Restart
<1>2. epoch' \in 0..MaxEpoch
  BY ServiceAssumption DEF Restart, IInv, TypeOK
<1>3. \A q \in Reqs : req'[q] = Idle /\ req'[q].pc = "idle"
  BY <1>1, IdleFact
<1>4. TypeOK' /\ RequestShape'
  BY <1>1, <1>2, <1>3, IdleFact DEF IInv, TypeOK, TableTypeOK, RequestShape
<1>5. RowShape' /\ NameUnique' /\ RenderedIsBlank' /\ SpentOnce'
  BY <1>1 DEF IInv, RowShape, NameUnique, RenderedIsBlank, SpentOnce, Stored
<1>6. LockHeld' /\ SnapshotCurrent' /\ OneMint'
  BY <1>1, <1>3, ServiceAssumption DEF LockHeld, SnapshotCurrent, OneMint, At
<1>7. QED
  BY <1>4, <1>5, <1>6 DEF IInv

LEMMA InitFact == Init => IInv
<1> SUFFICES ASSUME Init PROVE IInv
  OBVIOUS
<1>1. \A q \in Reqs : req[q] = Idle /\ req[q].pc = "idle"
  BY IdleFact DEF Init
<1>2. \A l \in Links : row[l] = Unused /\ row[l].stage = "unused" /\ row[l].once = FALSE
                       /\ row[l].blank = FALSE
  BY DEF Init, TableInit, Unused
<1>3. row \in [Links -> Row] /\ now \in Nat
  BY DEF Init, TableInit, Unused, Row
<1>4. epoch \in 0..MaxEpoch /\ jar \in [Clients -> [Names -> Cap \cup {None}]]
  BY ServiceAssumption DEF Init
<1>5. TypeOK /\ RequestShape
  BY <1>1, <1>3, <1>4, IdleFact DEF Init, TypeOK, TableTypeOK, RequestShape
<1>6. RowShape /\ NameUnique /\ RenderedIsBlank /\ SpentOnce
  BY <1>2 DEF Init, RowShape, NameUnique, RenderedIsBlank, SpentOnce, Stored
<1>7. LockHeld /\ SnapshotCurrent /\ OneMint
  BY <1>1, ServiceAssumption DEF Init, LockHeld, SnapshotCurrent, OneMint, At
<1>8. QED
  BY <1>5, <1>6, <1>7 DEF IInv

LEMMA NextFact == IInv /\ [Next]_vars => IInv'
<1> SUFFICES ASSUME IInv, [Next]_vars PROVE IInv'
  OBVIOUS
<1>1. ASSUME NEW q \in Reqs, Arrive(q) PROVE IInv'
  BY <1>1, ResolveCookieStep, ResolveStep, CardStep, RevealStep, WithdrawStep, ReadStep, CreateStep,
     RejectStep DEF Arrive
<1>2. ASSUME NEW q \in Reqs, Handle(q) PROVE IInv'
  BY <1>2, TombstoneStep, BumpStep, ReadCreatorStep, RedactReadStep, RedactWriteStep,
     RedactCommitStep, ConsumeStep, MintStep, FailStep DEF Handle
<1>3. ASSUME NEW q \in Reqs, Deliver(q) \/ HangUp(q) PROVE IInv'
  BY <1>3, DeliverStep, HangUpStep
<1>4. CASE Reap
  BY <1>4, ReapStep
<1>5. CASE Tick
  BY <1>5, TickStep DEF Tick, ServiceUnchanged, IInv, TypeOK, TableTypeOK
<1>6. CASE Restart
  BY <1>6, RestartStep
<1>7. CASE UNCHANGED vars
  BY <1>7, TickStep DEF vars, IInv, TypeOK, TableTypeOK
<1>8. QED
  BY <1>1, <1>2, <1>3, <1>4, <1>5, <1>6, <1>7 DEF Next

(***************************************************************************)
(* The inductive invariant holds in every reachable state.                 *)
(***************************************************************************)
THEOREM Invariant == Spec => []IInv
<1>1. QED
  BY InitFact, NextFact, PTL DEF Spec

(***************************************************************************)
(* Type correctness of the service.                                        *)
(***************************************************************************)
THEOREM TypeCorrect == Spec => []TypeOK
<1>1. IInv => TypeOK
  BY DEF IInv
<1>2. QED
  BY <1>1, Invariant, PTL

(***************************************************************************)
(* However many reveals of a one-time link race, at most one use is spent  *)
(* and at most one token minted for it (consume_link, db.rs).              *)
(***************************************************************************)
THEOREM SpendsOnce == Spec => []SpentOnce
<1>1. IInv => SpentOnce
  BY DEF IInv
<1>2. QED
  BY <1>1, Invariant, PTL

(***************************************************************************)
(* However many visits race with the same cookie, and whatever is dropped  *)
(* or restarted in between, a link's content is rendered in at most one    *)
(* revealed view (reveal_and_redact, db.rs).                               *)
(***************************************************************************)
THEOREM ShowsOnce == Spec => []ShownOnce
<1>1. IInv => ShownOnce
  BY DEF IInv, RenderedIsBlank, ShownOnce
<1>2. QED
  BY <1>1, Invariant, PTL
-----------------------------------------------------------------------------
(***************************************************************************)
(* What a step does to a row once INSERT has taken it: its name, use limit *)
(* and expiry are final, uses and the withdrawn mark only accumulate, a    *)
(* deleted row stays deleted, and only expired rows are deleted.           *)
(***************************************************************************)
Ages(r, s) ==
  /\ s.stage # "unused"
  /\ s.stage = "stored" => r.stage = "stored"
  /\ r.stage = "stored" /\ r.expires > now => s.stage = "stored"
  /\ s.name = r.name /\ s.once = r.once /\ s.expires = r.expires
  /\ s.uses >= r.uses
  /\ r.withdrawn => s.withdrawn

RowsAge == /\ now' >= now
           /\ \A l \in Links : row[l].stage # "unused" => Ages(row[l], row'[l])

LEMMA SameAges == ASSUME NEW r \in Row, r.stage # "unused" PROVE Ages(r, r)
BY DEF Ages, Row

LEMMA UnchangedRowsAge ==
  ASSUME TableTypeOK, row' = row, now' \in Nat, now' >= now
  PROVE  RowsAge
BY SameAges DEF RowsAge, TableTypeOK

LEMMA CreateAges ==
  ASSUME TableTypeOK, NEW q \in Reqs, NEW l \in Links, NEW n \in Names,
         NEW isOnce, NEW isOwned, NEW ttl, Create(q, l, n, isOnce, isOwned, ttl)
  PROVE  RowsAge
<1>1. \A k \in Links : row[k].stage # "unused" => row'[k] = row[k]
  BY DEF Create, Insert, TableTypeOK
<1>2. now' = now /\ now \in Nat
  BY DEF Create, TableTypeOK
<1>3. QED
  BY <1>1, <1>2, SameAges DEF RowsAge, TableTypeOK

LEMMA ConsumeAges ==
  ASSUME TableTypeOK, NEW q \in Reqs, Consume(q)
  PROVE  RowsAge
<1>1. now' = now /\ now \in Nat
  BY DEF Consume, TableTypeOK
<1>2. CASE row' = row
  BY <1>1, <1>2, UnchangedRowsAge
<1>3. CASE row' = Spend(get_link_live(req[q].name))
  <2>1. ASSUME NEW k \in Links, row[k].stage # "unused"
        PROVE  Ages(row[k], row'[k])
    <3>1. row[k] \in Row
      BY DEF TableTypeOK
    <3>2. row'[k] = row[k] \/ row'[k] = [row[k] EXCEPT !.uses = @ + 1]
      BY <1>3 DEF Spend
    <3>3. QED
      BY <2>1, <3>1, <3>2 DEF Ages, Row
  <2>2. QED
    BY <1>1, <2>1 DEF RowsAge
<1>4. QED
  BY <1>2, <1>3 DEF Consume

LEMMA RedactCommitAges ==
  ASSUME TableTypeOK, NEW q \in Reqs, RedactCommit(q)
  PROVE  RowsAge
<1>1. now' = now /\ now \in Nat /\ row' = Redact(Called(req[q].name))
  BY DEF RedactCommit, TableTypeOK
<1>2. ASSUME NEW k \in Links, row[k].stage # "unused"
      PROVE  Ages(row[k], row'[k])
  <2>1. row[k] \in Row
    BY DEF TableTypeOK
  <2>2. row'[k] = row[k] \/ row'[k] = [row[k] EXCEPT !.blank = TRUE]
    BY <1>1 DEF Redact
  <2>3. QED
    BY <1>2, <2>1, <2>2 DEF Ages, Row
<1>3. QED
  BY <1>1, <1>2 DEF RowsAge

LEMMA WithdrawAges ==
  ASSUME TableTypeOK, NEW q \in Reqs, NEW n, NEW key, Withdraw(q, n, key)
  PROVE  RowsAge
<1>1. now' = now /\ now \in Nat /\ (row' = row \/ row' = Mark(Matching(n, key)))
  BY DEF Withdraw, TableTypeOK
<1>2. ASSUME NEW k \in Links, row[k].stage # "unused"
      PROVE  Ages(row[k], row'[k])
  <2>1. row[k] \in Row
    BY DEF TableTypeOK
  <2>2. row'[k] = row[k] \/ row'[k] = [row[k] EXCEPT !.withdrawn = TRUE]
    BY <1>1 DEF Mark
  <2>3. QED
    BY <1>2, <2>1, <2>2 DEF Ages, Row
<1>3. QED
  BY <1>1, <1>2 DEF RowsAge

LEMMA ReapAges ==
  ASSUME TableTypeOK, Reap
  PROVE  RowsAge
<1>1. now' = now /\ now \in Nat /\ row' = Free(Expired)
  BY DEF Reap, TableTypeOK
<1>2. ASSUME NEW k \in Links, row[k].stage # "unused"
      PROVE  Ages(row[k], row'[k])
  <2>1. row[k] \in Row
    BY DEF TableTypeOK
  <2>2. CASE k \notin Expired
    BY <1>1, <1>2, <2>1, <2>2, SameAges DEF Free
  <2>3. CASE k \in Expired
    <3>1. row[k].stage = "stored" /\ row[k].expires <= now
      BY <2>3 DEF Expired, Stored
    <3>2. row'[k] = [row[k] EXCEPT !.stage = "freed"]
      BY <1>1, <2>3 DEF Free
    <3>3. QED
      BY <1>1, <2>1, <3>1, <3>2 DEF Ages, Row
  <2>4. QED
    BY <2>2, <2>3
<1>3. QED
  BY <1>1, <1>2 DEF RowsAge

LEMMA NextAges == TypeOK /\ [Next]_vars => RowsAge
<1> SUFFICES ASSUME TypeOK, [Next]_vars PROVE RowsAge
  OBVIOUS
<1>1. TableTypeOK /\ now \in Nat
  BY DEF TypeOK, TableTypeOK
<1>2. ASSUME NEW q \in Reqs, Arrive(q) PROVE RowsAge
  <2>1. ASSUME NEW c \in Clients, NEW n \in Names,
               ResolveCookie(q, c, n) \/ Resolve(q, c, n) \/ Reveal(q, c, n)
        PROVE  RowsAge
    <3>1. row' = row /\ now' = now
      BY <2>1 DEF ResolveCookie, Resolve, Reveal
    <3>2. QED
      BY <1>1, <3>1, UnchangedRowsAge
  <2>2. ASSUME NEW n \in Names, Card(q, n) PROVE RowsAge
    <3>1. row' = row /\ now' = now
      BY <2>2 DEF Card
    <3>2. QED
      BY <1>1, <3>1, UnchangedRowsAge
  <2>3. ASSUME NEW n \in Names, NEW key \in handed \cup {None},
               Withdraw(q, n, key) \/ Read(q, n, key)
        PROVE  RowsAge
    <3>1. CASE Withdraw(q, n, key)
      BY <1>1, <3>1, WithdrawAges
    <3>2. CASE Read(q, n, key)
      <4>1. row' = row /\ now' = now
        BY <3>2 DEF Read
      <4>2. QED
        BY <1>1, <4>1, UnchangedRowsAge
    <3>3. QED
      BY <2>3, <3>1, <3>2
  <2>4. CASE \E l \in Links, n \in Names, ttl \in TTLs, isOnce, isOwned \in BOOLEAN :
               Create(q, l, n, isOnce, isOwned, ttl)
    BY <1>1, <2>4, CreateAges
  <2>5. CASE Reject(q)
    BY <1>1, <2>5, UnchangedRowsAge DEF Reject
  <2>6. QED
    BY <1>2, <2>1, <2>3, <2>4, <2>5, <2>2 DEF Arrive
<1>3. ASSUME NEW q \in Reqs, Handle(q) PROVE RowsAge
  <2>1. CASE Consume(q) \/ RedactCommit(q)
    BY <1>1, <2>1, ConsumeAges, RedactCommitAges
  <2>2. CASE ~ (Consume(q) \/ RedactCommit(q))
    <3>1. row' = row /\ now' = now
      BY <1>3, <2>2 DEF Handle, Tombstone, Bump, ReadCreator, RedactRead, RedactWrite, Mint, Fail
    <3>2. QED
      BY <1>1, <3>1, UnchangedRowsAge
  <2>3. QED
    BY <2>1, <2>2
<1>4. ASSUME NEW q \in Reqs, Deliver(q) \/ HangUp(q) PROVE RowsAge
  BY <1>1, <1>4, UnchangedRowsAge DEF Deliver, HangUp
<1>5. CASE Reap
  BY <1>1, <1>5, ReapAges
<1>6. CASE Tick \/ Restart \/ UNCHANGED vars
  BY <1>1, <1>6, UnchangedRowsAge DEF Tick, Restart, vars
<1>7. QED
  BY <1>2, <1>3, <1>4, <1>5, <1>6 DEF Next

(***************************************************************************)
(* Until it expires a link keeps its name to itself, whatever else is      *)
(* created, spent, withdrawn or reaped meanwhile.                          *)
(***************************************************************************)
THEOREM NamesStayReserved == Spec => NameNeverRepurposed
<1>1. IInv /\ IInv' /\ [Next]_vars =>
        \A l \in Links : Unexpired(l) => Called(row[l].name)' = {l}
  <2> SUFFICES ASSUME IInv, IInv', [Next]_vars, NEW l \in Links, Unexpired(l)
               PROVE  Called(row[l].name)' = {l}
    OBVIOUS
  <2>1. row'[l].stage = "stored"
    BY NextAges DEF IInv, RowsAge, Ages, Unexpired, Stored
  <2>2. NameUnique'
    BY DEF IInv
  <2>3. QED
    BY <2>1, <2>2 DEF NameUnique, Called, Stored
<1>2. QED
  BY <1>1, Invariant, PTL DEF Spec, NameNeverRepurposed

(***************************************************************************)
(* A link that stopped being live is never revived.                        *)
(***************************************************************************)
THEOREM NoRevival == Spec => DeadStaysDead
<1>1. IInv /\ [Next]_vars =>
        \A l \in Links : row[l].stage # "unused" /\ ~ Live(l) => ~ Live(l)'
  <2> SUFFICES ASSUME IInv, IInv', [Next]_vars, NEW l \in Links,
                      row[l].stage # "unused", Live(l)'
               PROVE  Live(l)
    BY NextFact
  <2>1. Ages(row[l], row'[l]) /\ now' >= now
    BY NextAges DEF IInv, RowsAge
  <2>2. row[l] \in Row /\ row'[l] \in Row /\ now \in Nat /\ now' \in Nat
    BY DEF IInv, TypeOK, TableTypeOK
  <2>3. QED
    BY <2>1, <2>2 DEF Ages, Live, Unexpired, Stored, Row
<1>2. QED
  BY <1>1, Invariant, PTL DEF Spec, DeadStaysDead

-----------------------------------------------------------------------------
(***************************************************************************)
(* Who may read a link: a one-time link has one reader, its content goes   *)
(* to that reader or its creator only, and a token opens the link it was   *)
(* minted for, for any number of links, browsers and concurrent requests.  *)
(*                                                                         *)
(* The table alone does not say so: a cookie and a creator token outlive   *)
(* the row they were issued for.  The invariant ties every token in a jar, *)
(* on its way or in a request to the row that paid for it.                 *)
(***************************************************************************)

(***************************************************************************)
(* A token presented or kept under a name was paid for by a use of a link  *)
(* that was published under that name.                                     *)
(***************************************************************************)
Paid(t, l, n) == t[l].stage # "unused" /\ t[l].name = n /\ t[l].uses > 0

Backed(t, cap, n) == cap # None => cap \in Cap /\ Paid(t, cap.link, n)

(***************************************************************************)
(* What a request in flight knows is true of the table t.                  *)
(***************************************************************************)
Silent == {"redactRead", "redactWrite", "redactCommit", "consume", "mint",
           "tombstone", "readCreator"}

Honest(r, t) ==
  /\ r.pc \in Silent => r.answer = "none"
  /\ Backed(t, r.cap, r.name)
  /\ r.pc \in {"redactRead", "redactWrite", "redactCommit"} => r.cap # None
  /\ r.pc = "mint" => Paid(t, r.got, r.name)
  /\ r.got # None => t[r.got].stage # "unused"
  /\ r.pc = "readCreator" =>
       /\ r.key \in Links /\ t[r.key].stage # "unused"
       /\ t[r.key].stage = "stored" /\ t[r.key].name = r.name => r.key = r.got
  /\ r.answer = "seeOther" => r.cap # None /\ r.cap.link = r.got
  /\ r.got # None /\ t[r.got].once =>
       /\ r.answer = "full" => r.key = r.got
       /\ r.answer # "shown"
  /\ r.answer = "revealed" =>
       /\ r.cap # None
       /\ r.got = r.cap.link \/ t[r.cap.link].stage = "freed"

(***************************************************************************)
(* The invariant behind the three properties.                              *)
(***************************************************************************)
RequestsHonest == \A q \in Reqs : Honest(req[q], row)
JarsBacked     == \A c \in Clients, n \in Names : Backed(row, jar[c][n], n)
HandedStored   == \A l \in handed : row[l].stage # "unused"
HoldersPaid    == \A l \in Links : minted[l] = 0 => Holders(l) = {}

RInv == RequestsHonest /\ JarsBacked /\ HandedStored /\ HoldersPaid /\ SoleReader
-----------------------------------------------------------------------------
(***************************************************************************)
(* A row that was taken stays taken, under its name and use limit, and is  *)
(* never stored again, so what a request knows outlives every step.        *)
(***************************************************************************)
Keeps(t, u) == \A l \in Links : t[l].stage # "unused" =>
  /\ u[l].stage # "unused"
  /\ u[l].stage = "stored" => t[l].stage = "stored"
  /\ t[l].stage = "freed" => u[l].stage = "freed"
  /\ u[l].name = t[l].name /\ u[l].once = t[l].once
  /\ t[l].uses > 0 => u[l].uses > 0

LEMMA NextKeeps ==
  ASSUME TypeOK, TypeOK', [Next]_vars
  PROVE  Keeps(row, row')
<1> SUFFICES ASSUME NEW l \in Links, row[l].stage # "unused"
             PROVE  /\ row'[l].stage # "unused"
                    /\ row'[l].stage = "stored" => row[l].stage = "stored"
                    /\ row[l].stage = "freed" => row'[l].stage = "freed"
                    /\ row'[l].name = row[l].name /\ row'[l].once = row[l].once
                    /\ row[l].uses > 0 => row'[l].uses > 0
  BY DEF Keeps
<1>1. Ages(row[l], row'[l])
  BY NextAges DEF RowsAge
<1>2. row[l] \in Row /\ row'[l] \in Row
  BY DEF TypeOK, TableTypeOK
<1>3. QED
  BY <1>1, <1>2 DEF Ages, Row

LEMMA BackedKeeps ==
  ASSUME NEW t, NEW u, Keeps(t, u), NEW cap, NEW n, Backed(t, cap, n)
  PROVE  Backed(u, cap, n)
BY DEF Keeps, Backed, Paid, Cap

LEMMA HonestKeeps ==
  ASSUME NEW t, NEW u, Keeps(t, u), NEW r \in Request, NEW s, SameButStale(r, s), Honest(r, t),
         r.pc = "mint" => r.got \in Links
  PROVE  Honest(s, u)
<1> USE DEF SameButStale
<1>1. r.got # None => r.got \in Links
  BY DEF Request
<1>2. Backed(u, s.cap, s.name)
  BY BackedKeeps DEF Honest
<1>3. s.pc = "mint" => Paid(u, s.got, s.name)
  BY DEF Honest, Paid, Keeps
<1>4. s.got # None => u[s.got].stage # "unused" /\ u[s.got].once = t[s.got].once
  BY <1>1 DEF Honest, Keeps
<1>5. s.pc = "readCreator" =>
       /\ s.key \in Links /\ u[s.key].stage # "unused"
       /\ u[s.key].stage = "stored" /\ u[s.key].name = s.name => s.key = s.got
  BY DEF Honest, Keeps
<1>6. s.answer = "revealed" =>
        /\ s.cap # None
        /\ s.got = s.cap.link \/ u[s.cap.link].stage = "freed"
  BY DEF Honest, Backed, Paid, Keeps, Cap
<1>7. QED
  BY <1>2, <1>3, <1>4, <1>5, <1>6 DEF Honest

(***************************************************************************)
(* How the requests look after q's handler moved on: q is `new`, and the   *)
(* others, like q, differ at most in `stale`.                              *)
(***************************************************************************)
LEMMA TurnFact ==
  ASSUME TypeOK, NEW q \in Reqs, NEW new \in Request,
         req' = Move(q, new) \/ req' = Outdate(Move(q, new))
  PROVE  /\ SameButStale(new, req'[q])
         /\ \A p \in Reqs \ {q} : SameButStale(req[p], req'[p])
<1> DEFINE rs == Move(q, new)
<1>1. rs \in [Reqs -> Request] /\ rs[q] = new /\ \A p \in Reqs \ {q} : rs[p] = req[p]
  BY DEF Move, TypeOK
<1>2. req' = rs \/ req' = Outdate(rs)
  OBVIOUS
<1> HIDE DEF rs
<1>3. \A p \in Reqs : SameButStale(rs[p], Outdate(rs)[p])
  BY <1>1, OutdateFact
<1>4. \A p \in Reqs : SameButStale(rs[p], rs[p])
  BY DEF SameButStale
<1>5. \A p \in Reqs : SameButStale(rs[p], req'[p])
  BY <1>2, <1>3, <1>4
<1>6. QED
  BY <1>1, <1>5

(***************************************************************************)
(* No step but Mint makes a browser a holder, so who held a link's token   *)
(* alone still does.                                                       *)
(***************************************************************************)
LEMMA FewerHolders ==
  ASSUME TypeOK, HoldersPaid, SoleReader, RowShape, Keeps(row, row'), UNCHANGED minted,
         \A l \in Links : Holders(l)' \subseteq Holders(l)
  PROVE  HoldersPaid' /\ SoleReader'
<1>1. HoldersPaid'
  BY DEF HoldersPaid
<1>2. ASSUME NEW l \in Links, row'[l].once, NEW c \in Holders(l)', NEW d \in Holders(l)'
      PROVE  c = d
  <2>1. c \in Holders(l) /\ d \in Holders(l)
    OBVIOUS
  <2>2. row[l].stage # "unused"
    BY <2>1 DEF HoldersPaid, RowShape
  <2>3. row[l].once
    BY <1>2, <2>2 DEF Keeps
  <2>4. QED
    BY <2>1, <2>3 DEF SoleReader
<1>3. QED
  BY <1>1, <1>2 DEF SoleReader

(***************************************************************************)
(* A handler's step that mints nothing and reaches no browser.             *)
(***************************************************************************)
LEMMA TurnStep ==
  ASSUME IInv, RInv, [Next]_vars, NEW q \in Reqs, NEW new \in Request,
         req' = Move(q, new) \/ req' = Outdate(Move(q, new)),
         Honest(new, row'), new.answer # "seeOther" \/ (req[q].answer = "seeOther" /\ new.got = req[q].got
                                                      /\ new.client = req[q].client),
         UNCHANGED <<jar, handed, minted>>
  PROVE  RInv'
<1>1. IInv' /\ Keeps(row, row')
  BY NextFact, NextKeeps DEF IInv
<1>2. /\ SameButStale(new, req'[q])
      /\ \A p \in Reqs \ {q} : SameButStale(req[p], req'[p])
  BY TurnFact DEF IInv
<1>3. RequestsHonest'
  <2> SUFFICES ASSUME NEW p \in Reqs PROVE Honest(req'[p], row')
    BY DEF RequestsHonest
  <2>1. CASE p = q
    BY <1>2, <2>1 DEF Honest, SameButStale
  <2>2. CASE p # q
    <3>1. req[p] \in Request /\ Honest(req[p], row) /\ (req[p].pc = "mint" => req[p].got \in Links)
      BY DEF IInv, TypeOK, RInv, RequestsHonest, RequestShape, Shape
    <3>2. QED
      BY <1>1, <1>2, <2>2, <3>1, HonestKeeps
  <2>3. QED
    BY <2>1, <2>2
<1>4. JarsBacked'
  BY <1>1, BackedKeeps DEF RInv, JarsBacked
<1>5. HandedStored'
  BY <1>1 DEF IInv, TypeOK, RInv, HandedStored, Keeps
<1>6. \A l \in Links : Holders(l)' \subseteq Holders(l)
  BY <1>2 DEF Holders, SameButStale
<1>7. HoldersPaid' /\ SoleReader'
  BY <1>1, <1>6, FewerHolders DEF IInv, RInv
<1>8. QED
  BY <1>3, <1>4, <1>5, <1>7 DEF RInv
-----------------------------------------------------------------------------
(***************************************************************************)
(* The arrivals.  An answer without a link in it is honest of any table.   *)
(***************************************************************************)
LEMMA PlainHonest ==
  /\ \A t, a : a \notin {"seeOther", "revealed"} => Honest(Respond(a), t)
  /\ \A t, n : Honest(Missing(n), t)
  /\ \A t : Honest(Idle, t)
BY DEF Honest, Silent, Backed, Respond, Missing, Idle

LEMMA ResolveCookieReader ==
  ASSUME IInv, RInv, [Next]_vars, NEW q \in Reqs, NEW c \in Clients, NEW n \in Names,
         ResolveCookie(q, c, n)
  PROVE  RInv'
<1> DEFINE new == [Idle EXCEPT !.pc = "redactRead", !.client = c, !.name = n, !.cap = jar[c][n]]
<1>1. jar[c][n] \in Cap /\ jar[c][n] # None /\ Backed(row, jar[c][n], n)
  BY DEF ResolveCookie, Verified, IInv, TypeOK, RInv, JarsBacked
<1>2. new \in Request /\ new.answer # "seeOther" /\ Honest(new, row)
  BY <1>1 DEF Idle, Request, Pcs, Answers, Honest, Silent
<1>3. req' = Move(q, new) /\ row' = row /\ UNCHANGED <<jar, handed, minted>>
  BY DEF ResolveCookie, ServiceUnchanged
<1> HIDE DEF new
<1>4. QED
  BY <1>2, <1>3, TurnStep

LEMMA ResolveReader ==
  ASSUME IInv, RInv, [Next]_vars, NEW q \in Reqs, NEW c \in Clients, NEW n \in Names,
         Resolve(q, c, n)
  PROVE  RInv'
<1>1. row' = row /\ UNCHANGED <<jar, handed, minted>>
  BY DEF Resolve, ServiceUnchanged
<1>2. ASSUME NEW l \in get_link_live(n),
             req' = Move(q, [Idle EXCEPT !.pc = "bump", !.got = l,
                                         !.answer = IF row[l].once THEN "blind" ELSE "shown"])
      PROVE  RInv'
  <2> DEFINE new == [Idle EXCEPT !.pc = "bump", !.got = l,
                                 !.answer = IF row[l].once THEN "blind" ELSE "shown"]
  <2>1. l \in Links /\ row[l].stage # "unused"
    BY DEF get_link_live, Called, Stored
  <2>2. new \in Request /\ new.answer # "seeOther" /\ Honest(new, row)
    BY <2>1 DEF Idle, Request, Pcs, Answers, Honest, Silent, Backed
  <2>3. req' = Move(q, new)
    BY <1>2
  <2> HIDE DEF new
  <2>4. QED
    BY <1>1, <2>2, <2>3, TurnStep
<1>3. CASE req' = Move(q, Missing(n))
  <2>1. Missing(n) \in Request /\ Missing(n).answer = "none"
    BY MissingFact DEF Missing, Idle
  <2>2. QED
    BY <1>1, <1>3, <2>1, PlainHonest, TurnStep
<1>4. QED
  BY <1>2, <1>3 DEF Resolve

LEMMA PlainReader ==
  ASSUME IInv, RInv, [Next]_vars, NEW q \in Reqs, UNCHANGED <<jar, handed, minted>>,
         \/ \E a \in Answers \ {"created", "seeOther", "revealed"} : req' = Move(q, Respond(a))
         \/ \E n \in Names : req' = Move(q, Missing(n))
         \/ req' = Move(q, Idle)
  PROVE  RInv'
<1>1. ASSUME NEW a \in Answers \ {"created", "seeOther", "revealed"}, req' = Move(q, Respond(a))
      PROVE  RInv'
  <2>1. Respond(a) \in Request /\ Respond(a).answer # "seeOther" /\ Honest(Respond(a), row')
    BY RespondFact, PlainHonest DEF Respond, Idle
  <2>2. QED
    BY <1>1, <2>1, TurnStep
<1>2. ASSUME NEW n \in Names, req' = Move(q, Missing(n)) PROVE RInv'
  <2>1. Missing(n) \in Request /\ Missing(n).answer # "seeOther" /\ Honest(Missing(n), row')
    BY MissingFact, PlainHonest DEF Missing, Idle
  <2>2. QED
    BY <1>2, <2>1, TurnStep
<1>3. CASE req' = Move(q, Idle)
  <2>1. Idle \in Request /\ Idle.answer # "seeOther" /\ Honest(Idle, row')
    BY IdleFact, PlainHonest DEF Idle
  <2>2. QED
    BY <1>3, <2>1, TurnStep
<1>4. QED
  BY <1>1, <1>2, <1>3

LEMMA CardReader ==
  ASSUME IInv, RInv, [Next]_vars, NEW q \in Reqs, NEW n \in Names, Card(q, n)
  PROVE  RInv'
<1>1. row' = row /\ UNCHANGED <<jar, handed, minted>>
  BY DEF Card, ServiceUnchanged
<1>2. ASSUME NEW l \in get_link_live(n),
             req' = Move(q, [Respond(IF row[l].once THEN "blind" ELSE "shown") EXCEPT !.got = l])
      PROVE  RInv'
  <2> DEFINE new == [Respond(IF row[l].once THEN "blind" ELSE "shown") EXCEPT !.got = l]
  <2>1. l \in Links /\ row[l].stage # "unused"
    BY DEF get_link_live, Called, Stored
  <2>2. new \in Request /\ new.answer # "seeOther" /\ Honest(new, row)
    BY <2>1 DEF Respond, Idle, Request, Pcs, Answers, Honest, Silent, Backed
  <2>3. req' = Move(q, new)
    BY <1>2
  <2> HIDE DEF new
  <2>4. QED
    BY <1>1, <2>2, <2>3, TurnStep
<1>3. CASE req' = Move(q, Respond("missing"))
  BY <1>1, <1>3, PlainReader DEF Answers
<1>4. QED
  BY <1>2, <1>3 DEF Card

LEMMA RevealReader ==
  ASSUME IInv, RInv, [Next]_vars, NEW q \in Reqs, NEW c \in Clients, NEW n \in Names,
         Reveal(q, c, n)
  PROVE  RInv'
<1>1. row' = row /\ UNCHANGED <<jar, handed, minted>>
  BY DEF Reveal, ServiceUnchanged
<1>2. CASE req' = Move(q, [Idle EXCEPT !.pc = "consume", !.client = c, !.name = n])
  <2> DEFINE new == [Idle EXCEPT !.pc = "consume", !.client = c, !.name = n]
  <2>1. new \in Request /\ new.answer # "seeOther" /\ Honest(new, row)
    BY DEF Idle, Request, Pcs, Answers, Honest, Silent, Backed
  <2>2. req' = Move(q, new)
    BY <1>2
  <2> HIDE DEF new
  <2>3. QED
    BY <1>1, <2>1, <2>2, TurnStep
<1>3. CASE req' = Move(q, Respond("missing")) \/ req' = Move(q, Missing(n))
  BY <1>1, <1>3, PlainReader DEF Answers
<1>4. QED
  BY <1>2, <1>3 DEF Reveal

LEMMA CreateReader ==
  ASSUME IInv, RInv, [Next]_vars, NEW q \in Reqs, NEW l \in Links, NEW n \in Names, NEW ttl \in TTLs,
         NEW isOnce \in BOOLEAN, NEW isOwned \in BOOLEAN,
         Create(q, l, n, isOnce, isOwned, ttl)
  PROVE  RInv'
<1> DEFINE new == [Idle EXCEPT !.pc = "bump", !.name = n, !.got = l, !.answer = "created"]
<1>1. row'[l].stage = "stored"
  BY DEF Create, Insert, Unused, IInv, TypeOK, TableTypeOK
<1>2. new \in Request /\ new.answer # "seeOther" /\ Honest(new, row')
  BY <1>1 DEF Idle, Request, Pcs, Answers, Honest, Silent, Backed
<1>3. req' = Outdate(Move(q, new)) /\ UNCHANGED <<jar, handed, minted>>
  BY DEF Create, ServiceUnchanged
<1> HIDE DEF new
<1>4. QED
  BY <1>2, <1>3, TurnStep

LEMMA WithdrawReader ==
  ASSUME IInv, RInv, [Next]_vars, NEW q \in Reqs, NEW n \in Names, NEW key \in handed \cup {None},
         Withdraw(q, n, key)
  PROVE  RInv'
<1>1. UNCHANGED <<jar, handed, minted>>
  BY DEF Withdraw, ServiceUnchanged
<1>2. CASE req' = Move(q, Respond("missing"))
  BY <1>1, <1>2, PlainReader DEF Answers
<1>3. CASE req' = Outdate(Move(q, [Respond("noContent") EXCEPT !.key = key]))
  <2> DEFINE new == [Respond("noContent") EXCEPT !.key = key]
  <2>1. new \in Request /\ new.answer # "seeOther" /\ Honest(new, row')
    BY DEF Respond, Idle, Request, Pcs, Answers, Honest, Silent, Backed, IInv, TypeOK
  <2>2. req' = Outdate(Move(q, new))
    BY <1>3
  <2> HIDE DEF new
  <2>3. QED
    BY <1>1, <2>1, <2>2, TurnStep
<1>4. QED
  BY <1>2, <1>3 DEF Withdraw

(***************************************************************************)
(* The API's read.  The creator's key, once another row bears the name, no *)
(* longer matches; the row it was made for never comes back.               *)
(***************************************************************************)
LEMMA ReadReader ==
  ASSUME IInv, RInv, [Next]_vars, NEW q \in Reqs, NEW n \in Names, NEW key \in handed \cup {None},
         Read(q, n, key)
  PROVE  RInv'
<1>1. row' = row /\ UNCHANGED <<jar, handed, minted>>
  BY DEF Read, ServiceUnchanged
<1>2. key \in Links \cup {None} /\ (key # None => row[key].stage # "unused")
  BY DEF IInv, TypeOK, RInv, HandedStored
<1>3. ASSUME NEW l \in get_link_live(n), ~ row[l].once,
             req' = Move(q, [Respond("full") EXCEPT !.got = l, !.key = key])
      PROVE  RInv'
  <2> DEFINE new == [Respond("full") EXCEPT !.got = l, !.key = key]
  <2>1. l \in Links /\ row[l].stage # "unused"
    BY DEF get_link_live, Called, Stored
  <2>2. new \in Request /\ new.answer # "seeOther" /\ Honest(new, row)
    BY <1>2, <1>3, <2>1 DEF Respond, Idle, Request, Pcs, Answers, Honest, Silent, Backed
  <2>3. req' = Move(q, new)
    BY <1>3
  <2> HIDE DEF new
  <2>4. QED
    BY <1>1, <2>2, <2>3, TurnStep
<1>4. ASSUME NEW l \in get_link_live(n), key # None,
             req' = Move(q, [Idle EXCEPT !.pc = "readCreator", !.name = n, !.key = key, !.got = l])
      PROVE  RInv'
  <2> DEFINE new == [Idle EXCEPT !.pc = "readCreator", !.name = n, !.key = key, !.got = l]
  <2>1. l \in Links /\ Stored(l) /\ row[l].name = n
    BY DEF get_link_live, Called
  <2>2. Stored(key) /\ row[key].name = n => key = l
    BY <1>2, <1>4, <2>1 DEF IInv, NameUnique
  <2>3. new \in Request /\ new.answer # "seeOther"
    BY <1>2, <2>1 DEF Idle, Request, Pcs, Answers
  <2>4. Honest(new, row)
    BY <1>2, <1>4, <2>1, <2>2 DEF Idle, Honest, Silent, Backed, Stored
  <2>5. req' = Move(q, new)
    BY <1>4
  <2> HIDE DEF new
  <2>6. QED
    BY <1>1, <2>3, <2>4, <2>5, TurnStep
<1>5. CASE req' = Move(q, Respond("metadata")) \/ req' = Move(q, Respond("missing"))
  BY <1>1, <1>5, PlainReader DEF Answers
<1>6. QED
  BY <1>3, <1>4, <1>5 DEF Read
-----------------------------------------------------------------------------
(***************************************************************************)
(* The statements that follow.                                             *)
(***************************************************************************)
LEMMA TombstoneReader ==
  ASSUME IInv, RInv, [Next]_vars, NEW q \in Reqs, Tombstone(q)
  PROVE  RInv'
<1>1. row' = row /\ UNCHANGED <<jar, handed, minted>>
  BY DEF Tombstone, ServiceUnchanged
<1>2. ASSUME NEW l \in get_link_any(req[q].name), req' = Move(q, [Respond("gone") EXCEPT !.got = l])
      PROVE  RInv'
  <2> DEFINE new == [Respond("gone") EXCEPT !.got = l]
  <2>1. l \in Links /\ row[l].stage # "unused"
    BY DEF get_link_any, Called, Stored
  <2>2. new \in Request /\ new.answer # "seeOther" /\ Honest(new, row)
    BY <2>1 DEF Respond, Idle, Request, Pcs, Answers, Honest, Silent, Backed
  <2>3. req' = Move(q, new)
    BY <1>2
  <2> HIDE DEF new
  <2>4. QED
    BY <1>1, <2>2, <2>3, TurnStep
<1>3. CASE req' = Move(q, Respond("missing"))
  BY <1>1, <1>3, PlainReader DEF Answers
<1>4. QED
  BY <1>2, <1>3 DEF Tombstone

LEMMA BumpReader ==
  ASSUME IInv, RInv, [Next]_vars, NEW q \in Reqs, Bump(q)
  PROVE  RInv'
<1> DEFINE new == Goto(q, "done")
<1>1. req[q] \in Request /\ Honest(req[q], row)
  BY DEF IInv, TypeOK, RInv, RequestsHonest
<1>2. /\ new \in Request /\ Honest(new, row)
      /\ new.answer = req[q].answer /\ new.got = req[q].got /\ new.client = req[q].client
  BY <1>1 DEF Goto, Request, Pcs, Honest, Silent
<1>3. req' = Move(q, new) \/ req' = Outdate(Move(q, new))
  BY DEF Bump, Bumped
<1>4. row' = row /\ UNCHANGED <<jar, handed, minted>>
  BY DEF Bump, ServiceUnchanged
<1> HIDE DEF new
<1>5. QED
  BY <1>2, <1>3, <1>4, TurnStep

\* The second query matched, so the bearer's own row still bears the name:
\* it is the row that was read.
LEMMA ReadCreatorReader ==
  ASSUME IInv, RInv, [Next]_vars, NEW q \in Reqs, ReadCreator(q)
  PROVE  RInv'
<1>1. row' = row /\ UNCHANGED <<jar, handed, minted>>
  BY DEF ReadCreator, ServiceUnchanged
<1>2. CASE /\ Matching(req[q].name, req[q].key) # {}
           /\ req' = Move(q, Answer(q, "full"))
  <2> DEFINE new == Answer(q, "full")
  <2>1. req[q] \in Request /\ Honest(req[q], row) /\ req[q].pc = "readCreator"
    BY DEF IInv, TypeOK, RInv, RequestsHonest, ReadCreator, At
  <2>2. Stored(req[q].key) /\ row[req[q].key].name = req[q].name
    BY <1>2 DEF Matching, Called
  <2>3. req[q].key = req[q].got
    BY <2>1, <2>2 DEF Honest, Stored
  <2>4. new \in Request /\ new.answer # "seeOther" /\ Honest(new, row)
    BY <2>1, <2>3 DEF Answer, Request, Pcs, Answers, Honest, Silent
  <2> HIDE DEF new
  <2>5. QED
    BY <1>1, <1>2, <2>4, TurnStep DEF new
<1>3. CASE req' = Move(q, Respond("metadata"))
  BY <1>1, <1>3, PlainReader DEF Answers
<1>4. QED
  BY <1>2, <1>3 DEF ReadCreator

LEMMA RedactReadReader ==
  ASSUME IInv, RInv, [Next]_vars, NEW q \in Reqs, RedactRead(q)
  PROVE  RInv'
<1>1. row' = row /\ UNCHANGED <<jar, handed, minted>>
  BY DEF RedactRead, ServiceUnchanged
<1>2. req[q] \in Request /\ Honest(req[q], row) /\ req[q].pc = "redactRead"
  BY DEF IInv, TypeOK, RInv, RequestsHonest, RedactRead, At
<1>3. ASSUME NEW l \in Redactable(req[q].name),
             req' = Move(q, [Goto(q, "redactWrite") EXCEPT !.got = l])
      PROVE  RInv'
  <2> DEFINE new == [Goto(q, "redactWrite") EXCEPT !.got = l]
  <2>1. l \in Links /\ row[l].stage # "unused"
    BY DEF Redactable, Called, Stored
  <2>2. new \in Request /\ new.answer # "seeOther" /\ Honest(new, row)
    BY <1>2, <2>1 DEF Goto, Request, Pcs, Answers, Honest, Silent, Backed
  <2>3. req' = Move(q, new)
    BY <1>3
  <2> HIDE DEF new
  <2>4. QED
    BY <1>1, <2>2, <2>3, TurnStep
<1>4. CASE req' = Move(q, Missing(req[q].name))
  <2>1. req[q].name \in Names
    BY DEF IInv, RequestShape, Shape, RedactRead, At
  <2>2. QED
    BY <1>1, <1>4, <2>1, PlainReader
<1>5. QED
  BY <1>3, <1>4 DEF RedactRead

LEMMA RedactWriteReader ==
  ASSUME IInv, RInv, [Next]_vars, NEW q \in Reqs, RedactWrite(q)
  PROVE  RInv'
<1>1. row' = row /\ UNCHANGED <<jar, handed, minted>>
  BY DEF RedactWrite, ServiceUnchanged
<1>2. CASE req' = Move(q, Goto(q, "redactCommit"))
  <2> DEFINE new == Goto(q, "redactCommit")
  <2>1. req[q] \in Request /\ Honest(req[q], row) /\ req[q].pc = "redactWrite"
    BY DEF IInv, TypeOK, RInv, RequestsHonest, RedactWrite, At
  <2>2. new \in Request /\ new.answer # "seeOther" /\ Honest(new, row)
    BY <2>1 DEF Goto, Request, Pcs, Honest, Silent
  <2> HIDE DEF new
  <2>3. QED
    BY <1>1, <1>2, <2>2, TurnStep DEF new
<1>3. CASE req' = Move(q, Respond("conflict"))
  BY <1>1, <1>3, PlainReader DEF Answers
<1>4. QED
  BY <1>2, <1>3 DEF RedactWrite

\* The row that is rendered bears the token's name now, the row that paid for
\* the token bore it then: they are one row, or the latter is deleted.
LEMMA RedactCommitReader ==
  ASSUME IInv, RInv, [Next]_vars, NEW q \in Reqs, RedactCommit(q)
  PROVE  RInv'
<1> DEFINE new == Answer(q, "revealed")
           l   == req[q].got
           k   == req[q].cap.link
<1>1. /\ req[q] \in Request /\ Honest(req[q], row) /\ req[q].pc = "redactCommit" /\ l \in Links
      /\ req[q].name \in Names
  BY DEF IInv, TypeOK, RInv, RequestsHonest, RequestShape, Shape, RedactCommit, At
<1>2. Stored(l) /\ row[l].name = req[q].name
  BY DEF IInv, SnapshotCurrent, RedactCommit, At
<1>3. req[q].cap # None /\ k \in Links /\ row[k].stage # "unused" /\ row[k].name = req[q].name
  BY <1>1 DEF Honest, Backed, Paid, Cap
<1>4. k = l \/ row[k].stage = "freed"
  BY <1>1, <1>2, <1>3 DEF IInv, TypeOK, TableTypeOK, Row, NameUnique, Stored
<1>5. Keeps(row, row')
  BY NextFact, NextKeeps DEF IInv
<1>6. Honest(req[q], row')
  <2>1. SameButStale(req[q], req[q])
    BY DEF SameButStale
  <2>2. QED
    BY <1>1, <1>5, <2>1, HonestKeeps
<1>7. /\ new \in Request /\ new.answer = "revealed" /\ new.pc = "done" /\ new.cap = req[q].cap
      /\ new.got = l /\ new.name = req[q].name /\ new.key = req[q].key
  BY <1>1 DEF Answer, Request, Pcs, Answers
<1>8. k # l => row'[k].stage = "freed"
  BY <1>3, <1>4, <1>5 DEF Keeps
<1>9. Honest(new, row')
  BY <1>3, <1>6, <1>7, <1>8 DEF Honest, Silent
<1>10. req' = Outdate(Move(q, new)) /\ UNCHANGED <<jar, handed, minted>>
  BY DEF RedactCommit
<1> HIDE DEF new
<1>11. QED
  BY <1>7, <1>9, <1>10, TurnStep

LEMMA ConsumeReader ==
  ASSUME IInv, RInv, [Next]_vars, NEW q \in Reqs, Consume(q)
  PROVE  RInv'
<1>1. UNCHANGED <<jar, handed, minted>>
  BY DEF Consume, ServiceUnchanged
<1>2. /\ req[q] \in Request /\ Honest(req[q], row) /\ req[q].pc = "consume"
      /\ req[q].name \in Names
  BY DEF IInv, TypeOK, RInv, RequestsHonest, RequestShape, Shape, Consume, At
<1>3. ASSUME NEW l \in get_link_live(req[q].name),
             row' = Spend(get_link_live(req[q].name)),
             req' = Outdate(Move(q, [Goto(q, "mint") EXCEPT !.got = l]))
      PROVE  RInv'
  <2> DEFINE new == [Goto(q, "mint") EXCEPT !.got = l]
  <2>1. l \in Links /\ Stored(l) /\ row[l].name = req[q].name /\ row[l] \in Row
    BY DEF get_link_live, Called, IInv, TypeOK, TableTypeOK
  <2>2. row'[l] = [row[l] EXCEPT !.uses = row[l].uses + 1]
    BY <1>3, <2>1 DEF Spend
  <2>3. Paid(row', l, req[q].name)
    BY <2>1, <2>2 DEF Paid, Row, Stored
  <2>4. Keeps(row, row')
    BY NextFact, NextKeeps DEF IInv
  <2>5. Backed(row', req[q].cap, req[q].name)
    BY <1>2, <2>4, BackedKeeps DEF Honest
  <2>6. new \in Request /\ new.answer # "seeOther" /\ Honest(new, row')
    BY <1>2, <2>1, <2>3, <2>5 DEF Goto, Request, Pcs, Honest, Silent, Paid
  <2>7. req' = Outdate(Move(q, new))
    BY <1>3
  <2> HIDE DEF new
  <2>8. QED
    BY <1>1, <2>6, <2>7, TurnStep
<1>4. CASE req' = Move(q, Missing(req[q].name))
  BY <1>1, <1>2, <1>4, PlainReader
<1>5. QED
  BY <1>3, <1>4 DEF Consume

LEMMA EndReader ==
  ASSUME IInv, RInv, [Next]_vars, NEW q \in Reqs, Reject(q) \/ Fail(q) \/ HangUp(q)
  PROVE  RInv'
<1>1. UNCHANGED <<jar, handed, minted>>
  BY DEF Reject, Fail, HangUp, ServiceUnchanged
<1>2. req' = Move(q, Respond("error")) \/ req' = Move(q, Idle)
  BY DEF Reject, Fail, HangUp
<1>3. QED
  BY <1>1, <1>2, PlainReader DEF Answers
-----------------------------------------------------------------------------
(***************************************************************************)
(* Minting makes a holder: nobody held the link's token before, for none   *)
(* was minted, and its single use pays for no second one.                  *)
(***************************************************************************)
LEMMA MintReader ==
  ASSUME IInv, RInv, [Next]_vars, NEW q \in Reqs, Mint(q)
  PROVE  RInv'
<1>0. PICK l \in Links : l = req[q].got
  BY DEF IInv, RequestShape, Shape, Mint, At
<1> DEFINE cap == [name |-> req[q].name, exp |-> now + TokenTTL, epoch |-> epoch, link |-> l]
           new == [Answer(q, "seeOther") EXCEPT !.cap = cap]
<1>1. /\ req[q] \in Request /\ Honest(req[q], row) /\ req[q].pc = "mint"
      /\ req[q].name \in Names /\ row' = row
  BY DEF IInv, TypeOK, RInv, RequestsHonest, RequestShape, Shape, Mint, At
<1>2. cap \in Cap /\ Paid(row, l, req[q].name)
  BY <1>0, <1>1, ServiceAssumption DEF IInv, TypeOK, TableTypeOK, Cap, Honest
<1>3. /\ new \in Request /\ new.answer = "seeOther" /\ new.pc = "done" /\ new.cap = cap
      /\ new.got = l /\ new.name = req[q].name /\ new.client = req[q].client
  BY <1>0, <1>1, <1>2 DEF Answer, Request, Pcs, Answers
<1>4. req' = Move(q, new) \/ req' = Outdate(Move(q, new))
  BY <1>0 DEF Mint, Bumped
<1>5. cap.link = l
  OBVIOUS
<1>6. UNCHANGED <<jar, handed>> /\ minted' = [minted EXCEPT ![l] = @ + 1]
  BY <1>0 DEF Mint
<1>7. row[l].once => minted[l] = 0
  BY <1>0, <1>1 DEF IInv, OneMint, At
<1> HIDE DEF cap, new
<1>8. /\ SameButStale(new, req'[q])
      /\ \A p \in Reqs \ {q} : SameButStale(req[p], req'[p])
  BY <1>3, <1>4, TurnFact DEF IInv
<1>9. cap # None => Honest(req'[q], row')
  BY <1>1, <1>2, <1>3, <1>5, <1>8 DEF Honest, Silent, Backed, Paid, SameButStale
<1>10. cap # None
  BY <1>2, TokenAssumption
<1>11. RequestsHonest'
  <2> SUFFICES ASSUME NEW p \in Reqs, p # q PROVE Honest(req'[p], row')
    BY <1>9, <1>10 DEF RequestsHonest
  <2>1. Honest(req[p], row)
    BY DEF RInv, RequestsHonest
  <2>2. QED
    BY <1>1, <1>8, <2>1 DEF Honest, SameButStale
<1>12. JarsBacked' /\ HandedStored'
  BY <1>1, <1>6 DEF RInv, JarsBacked, HandedStored
<1>13. \A k \in Links : k # l => Holders(k)' \subseteq Holders(k)
  BY <1>3, <1>6, <1>8 DEF Holders, SameButStale
<1>14. Holders(l)' \subseteq Holders(l) \cup {req[q].client}
  BY <1>3, <1>6, <1>8 DEF Holders, SameButStale
<1>15. HoldersPaid'
  BY <1>1, <1>6, <1>13 DEF IInv, TypeOK, RInv, HoldersPaid
<1>16. SoleReader'
  <2> SUFFICES ASSUME NEW k \in Links, row[k].once, NEW c \in Holders(k)', NEW d \in Holders(k)'
               PROVE  c = d
    BY <1>1 DEF SoleReader
  <2>1. CASE k = l
    <3>1. Holders(l) = {}
      BY <1>1, <1>7, <2>1 DEF RInv, HoldersPaid
    <3>2. QED
      BY <1>14, <2>1, <3>1
  <2>2. CASE k # l
    BY <1>13, <2>2 DEF RInv, SoleReader
  <2>3. QED
    BY <2>1, <2>2
<1>17. QED
  BY <1>11, <1>12, <1>15, <1>16 DEF RInv

(***************************************************************************)
(* Delivery moves a token from the response into the jar of its client.    *)
(***************************************************************************)
LEMMA DeliverReader ==
  ASSUME IInv, RInv, [Next]_vars, NEW q \in Reqs, Deliver(q)
  PROVE  RInv'
<1>1. /\ req' = Move(q, Idle) /\ UNCHANGED <<row, minted>>
      /\ req[q] \in Request /\ Honest(req[q], row)
  BY DEF Deliver, IInv, TypeOK, RInv, RequestsHonest
<1>2. /\ req'[q] = Idle /\ \A p \in Reqs \ {q} : req'[p] = req[p]
  BY <1>1 DEF Move, IInv, TypeOK
<1>3. RequestsHonest'
  BY <1>1, <1>2, PlainHonest DEF RInv, RequestsHonest
<1>4. \A c \in Clients, n \in Names :
        \/ jar'[c][n] = jar[c][n]
        \/ jar'[c][n] = None
        \/ /\ req[q].answer = "seeOther" /\ c = req[q].client /\ n = req[q].name
           /\ jar'[c][n] = req[q].cap
  BY DEF Deliver, IInv, TypeOK
<1>5. JarsBacked'
  BY <1>1, <1>4 DEF RInv, JarsBacked, Honest, Backed
<1>6. HandedStored'
  <2>1. req[q].answer = "created" => req[q].got \in Links
    BY DEF IInv, RequestShape, Shape
  <2>2. \/ handed' = handed
        \/ handed' = handed \cup {req[q].got} /\ req[q].answer = "created"
    BY DEF Deliver
  <2>3. req[q].answer = "created" => row[req[q].got].stage # "unused"
    BY <1>1, <2>1, NoneAssumption DEF Honest
  <2>4. QED
    BY <1>1, <2>2, <2>3 DEF RInv, HandedStored
<1>7. ASSUME NEW l \in Links PROVE Holders(l)' \subseteq Holders(l)
  <2> SUFFICES ASSUME NEW c \in Holders(l)' PROVE c \in Holders(l)
    OBVIOUS
  <2>1. CASE \E p \in Reqs : req'[p].answer = "seeOther" /\ req'[p].got = l /\ req'[p].client = c
    BY <1>2, <2>1 DEF Holders, Idle
  <2>2. CASE c \in Clients /\ \E n \in Names : jar'[c][n] # None /\ jar'[c][n].link = l
    BY <1>1, <1>4, <2>2 DEF Holders, Honest
  <2>3. QED
    BY <2>1, <2>2 DEF Holders
<1>8. Keeps(row, row')
  BY NextFact, NextKeeps DEF IInv
<1>9. HoldersPaid' /\ SoleReader'
  BY <1>1, <1>7, <1>8, FewerHolders DEF IInv, RInv
<1>10. QED
  BY <1>3, <1>5, <1>6, <1>9 DEF RInv

(***************************************************************************)
(* The reaper, the clock, a restart and a stuttering step.                 *)
(***************************************************************************)
LEMMA SurroundingsReader ==
  ASSUME IInv, RInv, [Next]_vars, Reap \/ Tick \/ Restart \/ UNCHANGED vars
  PROVE  RInv'
<1>1. Keeps(row, row')
  BY NextFact, NextKeeps DEF IInv
<1>2. UNCHANGED <<jar, handed, minted>>
  BY DEF Reap, Tick, Restart, vars, ServiceUnchanged
<1>3. \A p \in Reqs : SameButStale(req[p], req'[p]) \/ req'[p] = Idle
  <2>1. CASE req' = req
    BY <2>1 DEF SameButStale
  <2>2. CASE req' = Outdate(req)
    BY <2>2, OutdateFact DEF IInv, TypeOK
  <2>3. CASE req' = [p \in Reqs |-> Idle]
    BY <2>3
  <2>4. QED
    BY <2>1, <2>2, <2>3 DEF Reap, Tick, Restart, vars
<1>4. RequestsHonest'
  <2> SUFFICES ASSUME NEW p \in Reqs PROVE Honest(req'[p], row')
    BY DEF RequestsHonest
  <2>1. req[p] \in Request /\ Honest(req[p], row) /\ (req[p].pc = "mint" => req[p].got \in Links)
    BY DEF IInv, TypeOK, RInv, RequestsHonest, RequestShape, Shape
  <2>2. QED
    BY <1>1, <1>3, <2>1, HonestKeeps, PlainHonest
<1>5. JarsBacked'
  BY <1>1, <1>2, BackedKeeps DEF RInv, JarsBacked
<1>6. HandedStored'
  BY <1>1, <1>2 DEF IInv, TypeOK, RInv, HandedStored, Keeps
<1>7. Idle.answer = "none"
  BY DEF Idle
<1>8. \A l \in Links : Holders(l)' \subseteq Holders(l)
  BY <1>2, <1>3, <1>7 DEF Holders, SameButStale
<1>9. HoldersPaid' /\ SoleReader'
  BY <1>1, <1>2, <1>8, FewerHolders DEF IInv, RInv
<1>10. QED
  BY <1>4, <1>5, <1>6, <1>9 DEF RInv

LEMMA InitReader == Init => RInv
<1> SUFFICES ASSUME Init PROVE RInv
  OBVIOUS
<1>1. \A q \in Reqs : req[q] = Idle /\ Idle.answer = "none"
  BY DEF Init, Idle
<1>2. \A c \in Clients, n \in Names : jar[c][n] = None
  BY DEF Init
<1>3. RequestsHonest
  BY <1>1, PlainHonest DEF RequestsHonest
<1>4. JarsBacked /\ HandedStored
  BY <1>2 DEF Init, JarsBacked, HandedStored, Backed
<1>5. \A l \in Links : Holders(l) = {}
  BY <1>1, <1>2 DEF Holders
<1>6. QED
  BY <1>3, <1>4, <1>5 DEF RInv, HoldersPaid, SoleReader

LEMMA NextReader == IInv /\ RInv /\ [Next]_vars => RInv'
<1> SUFFICES ASSUME IInv, RInv, [Next]_vars PROVE RInv'
  OBVIOUS
<1>1. ASSUME NEW q \in Reqs, Arrive(q) PROVE RInv'
  BY <1>1, ResolveCookieReader, ResolveReader, CardReader, RevealReader, WithdrawReader, ReadReader,
     CreateReader, EndReader DEF Arrive
<1>2. ASSUME NEW q \in Reqs, Handle(q) PROVE RInv'
  BY <1>2, TombstoneReader, BumpReader, ReadCreatorReader, RedactReadReader, RedactWriteReader,
     RedactCommitReader, ConsumeReader, MintReader, EndReader DEF Handle
<1>3. ASSUME NEW q \in Reqs, Deliver(q) \/ HangUp(q) PROVE RInv'
  BY <1>3, DeliverReader, EndReader
<1>4. CASE Reap \/ Tick \/ Restart \/ UNCHANGED vars
  BY <1>4, SurroundingsReader
<1>5. QED
  BY <1>1, <1>2, <1>3, <1>4 DEF Next

THEOREM ReaderInvariant == Spec => [](IInv /\ RInv)
<1>1. Init => IInv /\ RInv
  BY InitFact, InitReader
<1>2. IInv /\ RInv /\ [Next]_vars => (IInv /\ RInv)'
  BY NextFact, NextReader
<1>3. QED
  BY <1>1, <1>2, PTL DEF Spec
-----------------------------------------------------------------------------
(***************************************************************************)
(* Never do two browsers hold the capability to read the same one-time     *)
(* link, however many reveals race and whatever is lost or restarted       *)
(* between spending the use and setting the cookie (consume_link, db.rs;   *)
(* reveal, web.rs).                                                        *)
(***************************************************************************)
THEOREM OneReader == Spec => []SoleReader
<1>1. IInv /\ RInv => SoleReader
  BY DEF RInv
<1>2. QED
  BY <1>1, ReaderInvariant, PTL

(***************************************************************************)
(* A one-time link's content is in an answer only if the bearer is the     *)
(* link's own creator or a token verified, though the API asks about the   *)
(* creator by name in a second query (api_get_link, web.rs).               *)
(***************************************************************************)
THEOREM ContentStaysWithHolders == Spec => []ContentOnlyToHolders
<1>1. IInv /\ RInv => ContentOnlyToHolders
  BY DEF RInv, RequestsHonest, Honest, ContentOnlyToHolders
<1>2. QED
  BY <1>1, ReaderInvariant, PTL

(***************************************************************************)
(* A revealed view shows the link its token was minted for unless that     *)
(* link has been reaped: the token names a name only (token.rs).           *)
(***************************************************************************)
THEOREM TokenOpensItsLink == Spec => []RevealsItsOwnLink
<1>1. IInv /\ RInv => RevealsItsOwnLink
  BY DEF RInv, RequestsHonest, Honest, RevealsItsOwnLink
<1>2. QED
  BY <1>1, ReaderInvariant, PTL

-----------------------------------------------------------------------------
(***************************************************************************)
(* LinkService implements LinkPromise: every statement of db.rs and every  *)
(* handler of web.rs, in any interleaving, is one step of the promise made *)
(* for a link's life or none at all.                                       *)
(***************************************************************************)

(***************************************************************************)
(* The promise's state, as functions of the table t: the directory reads   *)
(* the one stored row of a name.                                           *)
(***************************************************************************)
Bearers(t, n) == {l \in Links : t[l].stage = "stored" /\ t[l].name = n}

Directory(t)   == [n \in Names |-> The(Bearers(t, n))]
Title(t)       == [l \in Links |-> t[l].name]
OneTime(t)     == {l \in Links : t[l].once}
Used(t)        == {l \in Links : t[l].uses > 0}
Withdrawn(t)   == {l \in Links : t[l].withdrawn}
Past(t, clock) == {l \in Links : t[l].stage # "unused" /\ t[l].expires <= clock}
Seen(views)    == {l \in Links : views[l] > 0}

Unique(t) == \A k, l \in Links :
  t[k].stage = "stored" /\ t[l].stage = "stored" /\ t[k].name = t[l].name => k = l

LEMMA TheFact ==
  /\ The({}) = None
  /\ \A l : The({l}) = l
  /\ \A S : S # {} => The(S) \in S
BY DEF The

LEMMA DirectoryFact ==
  ASSUME NEW t, Unique(t), NEW n \in Names
  PROVE  /\ \A l \in Links : Directory(t)[n] = l <=> l \in Bearers(t, n)
         /\ Directory(t)[n] = None <=> Bearers(t, n) = {}
<1>1. CASE Bearers(t, n) = {}
  BY <1>1, TheFact, NoneAssumption DEF Directory
<1>2. CASE Bearers(t, n) # {}
  <2>1. Directory(t)[n] \in Bearers(t, n)
    BY <1>2, TheFact DEF Directory
  <2>2. QED
    BY <1>2, <2>1, NoneAssumption DEF Bearers, Unique
<1>3. QED
  BY <1>1, <1>2

LEMMA DirectorySame ==
  ASSUME NEW t, NEW u, \A l \in Links : u[l].stage = t[l].stage /\ u[l].name = t[l].name
  PROVE  Directory(u) = Directory(t)
<1>1. \A n \in Names : Bearers(u, n) = Bearers(t, n)
  BY DEF Bearers
<1>2. QED
  BY <1>1 DEF Directory

(***************************************************************************)
(* A step of the promise, over those functions.                            *)
(***************************************************************************)
LEMMA PromiseState ==
  /\ [n \in Names |-> The(Called(n))] = Directory(row)
  /\ [n \in Names |-> The(Called(n))]' = Directory(row')
<1>1. \A n \in Names : Called(n) = Bearers(row, n) /\ Called(n)' = Bearers(row', n)
  BY DEF Called, Stored, Bearers
<1>2. QED
  BY <1>1 DEF Directory

LEMMA SameState ==
  ASSUME UNCHANGED <<row, now, rendered>>
  PROVE  UNCHANGED Promise!promise
BY DEF Promise!promise, Called, Stored

LEMMA CreatePromise ==
  ASSUME IInv, IInv', NEW q \in Reqs, NEW l \in Links, NEW n \in Names, NEW ttl \in TTLs,
         NEW isOnce \in BOOLEAN, NEW isOwned \in BOOLEAN,
         Create(q, l, n, isOnce, isOwned, ttl)
  PROVE  Promise!Next
<1>1. /\ row[l].stage = "unused" /\ Bearers(row, n) = {} /\ UNCHANGED <<now, rendered>>
      /\ row' = [row EXCEPT ![l] = [Unused EXCEPT !.stage = "stored", !.name = n, !.once = isOnce,
                                                   !.owned = isOwned, !.expires = now + ttl]]
  <2>1. /\ row[l].stage = "unused" /\ Called(n) = {} /\ UNCHANGED <<now, rendered>>
        /\ Insert(l, n, isOnce, isOwned, ttl)
    BY DEF Create, Insertable, ServiceUnchanged
  <2>2. Bearers(row, n) = {}
    BY <2>1 DEF Called, Stored, Bearers
  <2>3. row' = [row EXCEPT ![l] = [Unused EXCEPT !.stage = "stored", !.name = n, !.once = isOnce,
                                                 !.owned = isOwned, !.expires = now + ttl]]
    BY <2>1 DEF Insert
  <2>4. QED
    BY <2>1, <2>2, <2>3
<1>2. /\ row \in [Links -> Row] /\ row[l] = Unused /\ now \in Nat /\ ttl \in Nat /\ ttl > 0
  BY <1>1, ServiceAssumption DEF IInv, TypeOK, TableTypeOK, RowShape
<1>3. /\ \A k \in Links : k # l => row'[k] = row[k]
      /\ row'[l].stage = "stored" /\ row'[l].name = n /\ row'[l].once = isOnce
      /\ row'[l].uses = 0 /\ row'[l].withdrawn = FALSE /\ row'[l].expires = now + ttl
  BY <1>1, <1>2 DEF Unused
<1>4. /\ row[l].stage = "unused" /\ row[l].name = None /\ row[l].once = FALSE
      /\ row[l].uses = 0 /\ row[l].withdrawn = FALSE
  BY <1>2 DEF Unused
<1>5. Directory(row') = [Directory(row) EXCEPT ![n] = l]
  <2>1. \A m \in Names : m # n => Bearers(row', m) = Bearers(row, m)
    BY <1>3, <1>4 DEF Bearers
  <2>2. Bearers(row', n) = {l}
    BY <1>1, <1>3 DEF Bearers
  <2>3. QED
    BY <2>1, <2>2, TheFact DEF Directory
<1>6. Directory(row)[n] = None
  BY <1>1, TheFact DEF Directory
<1>7. Title(row') = [Title(row) EXCEPT ![l] = n] /\ Title(row)[l] = None
  BY <1>3, <1>4 DEF Title
<1>8. OneTime(row') \in {OneTime(row), OneTime(row) \cup {l}}
  BY <1>3, <1>4 DEF OneTime
<1>9. Used(row') = Used(row) /\ Withdrawn(row') = Withdrawn(row)
  BY <1>3, <1>4 DEF Used, Withdrawn
<1>10. Past(row', now') = Past(row, now)
  BY <1>1, <1>2, <1>3, <1>4 DEF Past
<1>11. Promise!Publish(l, n)
  BY <1>1, <1>5, <1>6, <1>7, <1>8, <1>9, <1>10, PromiseState
     DEF Promise!Publish, Title, OneTime, Used, Withdrawn, Past
<1>12. QED
  BY <1>11 DEF Promise!Next

(***************************************************************************)
(* A step that keeps every row's stage, name, use limit and expiry, and    *)
(* the clock, keeps the directory, the titles and what is past.            *)
(***************************************************************************)
LEMMA SameBut ==
  ASSUME \A l \in Links : /\ row'[l].stage = row[l].stage /\ row'[l].name = row[l].name
                          /\ row'[l].once = row[l].once /\ row'[l].expires = row[l].expires,
         now' = now
  PROVE  /\ Directory(row') = Directory(row)
         /\ Title(row') = Title(row) /\ OneTime(row') = OneTime(row)
         /\ Past(row', now') = Past(row, now)
BY DirectorySame DEF Title, OneTime, Past

LEMMA HeldFact ==
  ASSUME IInv, NEW l \in Links, Stored(l)
  PROVE  Promise!Held(l)
<1>1. row[l].name \in Names /\ l \in Bearers(row, row[l].name)
  BY DEF IInv, RowShape, Stored, Bearers
<1>2. Unique(row)
  BY DEF IInv, NameUnique, Stored, Unique
<1>3. Directory(row)[row[l].name] = l
  BY <1>1, <1>2, DirectoryFact
<1>4. QED
  BY <1>1, <1>3, PromiseState DEF Promise!Held

LEMMA ConsumePromise ==
  ASSUME IInv, NEW q \in Reqs, Consume(q)
  PROVE  Promise!Next \/ UNCHANGED Promise!promise
<1>1. UNCHANGED <<now, rendered>>
  BY DEF Consume, ServiceUnchanged
<1>2. ASSUME NEW l \in get_link_live(req[q].name), row' = Spend(get_link_live(req[q].name))
      PROVE  Promise!Next
  <2>1. l \in Links /\ Stored(l) /\ Live(l) /\ row[l] \in Row
    BY DEF get_link_live, Called, IInv, TypeOK, TableTypeOK
  <2>2. get_link_live(req[q].name) = {l}
    BY <2>1 DEF IInv, NameUnique, get_link_live, Called
  <2>3. row' = [row EXCEPT ![l] = [row[l] EXCEPT !.uses = row[l].uses + 1]]
    BY <1>2, <2>2 DEF Spend, IInv, TypeOK, TableTypeOK
  <2>4. \A k \in Links :
          /\ row'[k].stage = row[k].stage /\ row'[k].name = row[k].name
          /\ row'[k].once = row[k].once /\ row'[k].expires = row[k].expires
          /\ row'[k].withdrawn = row[k].withdrawn
          /\ k # l => row'[k].uses = row[k].uses
          /\ k = l => row'[k].uses > 0
    BY <2>1, <2>3 DEF IInv, TypeOK, TableTypeOK, Row
  <2>5. Used(row') = Used(row) \cup {l} /\ Withdrawn(row') = Withdrawn(row)
    BY <2>1, <2>4 DEF Used, Withdrawn
  <2>6. Promise!Good(l)
    BY <2>1, HeldFact DEF Promise!Good, Live, Unexpired, Row, IInv, TypeOK, TableTypeOK
  <2>7. Promise!Use(l)
    BY <1>1, <2>4, <2>5, <2>6, SameBut, PromiseState
       DEF Promise!Use, Title, OneTime, Used, Withdrawn, Past
  <2>8. QED
    BY <2>1, <2>7 DEF Promise!Next
<1>3. CASE UNCHANGED row
  BY <1>1, <1>3, SameState
<1>4. QED
  BY <1>2, <1>3 DEF Consume

LEMMA RedactCommitPromise ==
  ASSUME IInv, RInv, NEW q \in Reqs, RedactCommit(q)
  PROVE  Promise!Next
<1>1. PICK l \in Links : l = req[q].got
  BY DEF IInv, RequestShape, Shape, RedactCommit, At
<1>2. /\ Stored(l) /\ row[l].name = req[q].name /\ ~ row[l].blank /\ row[l] \in Row
  BY <1>1 DEF IInv, TypeOK, TableTypeOK, SnapshotCurrent, RedactCommit, At
<1>3. Called(req[q].name) = {l}
  BY <1>2 DEF IInv, NameUnique, Called
<1>4. /\ row' = [row EXCEPT ![l] = [row[l] EXCEPT !.blank = TRUE]]
      /\ rendered' = [rendered EXCEPT ![l] = @ + 1] /\ now' = now
  BY <1>1, <1>3 DEF RedactCommit, Redact, IInv, TypeOK, TableTypeOK
<1>5. \A k \in Links :
        /\ row'[k].stage = row[k].stage /\ row'[k].name = row[k].name
        /\ row'[k].once = row[k].once /\ row'[k].expires = row[k].expires
        /\ row'[k].withdrawn = row[k].withdrawn /\ row'[k].uses = row[k].uses
  BY <1>2, <1>4 DEF IInv, TypeOK, TableTypeOK, Row
<1>6. Used(row') = Used(row) /\ Withdrawn(row') = Withdrawn(row)
  BY <1>5 DEF Used, Withdrawn
<1>7. Seen(rendered') = Seen(rendered) \cup {l} /\ l \notin Seen(rendered)
  BY <1>2, <1>4 DEF IInv, TypeOK, RenderedIsBlank, Seen
<1>8. \E k \in Used(row) : Title(row)[k] = Title(row)[l]
  <2>1. Honest(req[q], row) /\ req[q].pc = "redactCommit"
    BY DEF RInv, RequestsHonest, RedactCommit, At
  <2>2. req[q].cap \in Cap /\ Paid(row, req[q].cap.link, req[q].name)
    BY <2>1 DEF Honest, Backed
  <2>3. req[q].cap.link \in Links
    BY <2>2 DEF Cap
  <2>4. QED
    BY <1>2, <2>2, <2>3 DEF Paid, Used, Title
<1>9. Promise!Show(l)
  BY <1>2, <1>4, <1>5, <1>6, <1>7, <1>8, HeldFact, SameBut, PromiseState
     DEF Promise!Show, Title, OneTime, Used, Withdrawn, Past, Seen
<1>10. QED
  BY <1>9 DEF Promise!Next

LEMMA WithdrawPromise ==
  ASSUME IInv, NEW q \in Reqs, NEW n \in Names, NEW key \in handed \cup {None}, Withdraw(q, n, key)
  PROVE  Promise!Next \/ UNCHANGED Promise!promise
<1>1. UNCHANGED <<now, rendered>>
  BY DEF Withdraw, ServiceUnchanged
<1>2. CASE Matching(n, key) # {} /\ row' = Mark(Matching(n, key))
  <2>1. key \in Links /\ Stored(key) /\ Matching(n, key) = {key}
    BY <1>2 DEF Matching, Called
  <2>2. row[key] \in Row
    BY <2>1 DEF IInv, TypeOK, TableTypeOK
  <2>3. row' = [row EXCEPT ![key] = [row[key] EXCEPT !.withdrawn = TRUE]]
    BY <1>2, <2>1 DEF Mark, IInv, TypeOK, TableTypeOK
  <2>4. \A k \in Links :
          /\ row'[k].stage = row[k].stage /\ row'[k].name = row[k].name
          /\ row'[k].once = row[k].once /\ row'[k].expires = row[k].expires
          /\ row'[k].uses = row[k].uses
          /\ k # key => row'[k].withdrawn = row[k].withdrawn
          /\ k = key => row'[k].withdrawn = TRUE
    BY <2>1, <2>2, <2>3 DEF IInv, TypeOK, TableTypeOK, Row
  <2>5. Used(row') = Used(row) /\ Withdrawn(row') = Withdrawn(row) \cup {key}
    BY <2>1, <2>4 DEF Used, Withdrawn
  <2>6. Promise!Withdraw(key)
    BY <1>1, <2>1, <2>4, <2>5, HeldFact, SameBut, PromiseState
       DEF Promise!Withdraw, Title, OneTime, Used, Withdrawn, Past
  <2>7. QED
    BY <2>1, <2>6 DEF Promise!Next
<1>3. CASE UNCHANGED row
  BY <1>1, <1>3, SameState
<1>4. QED
  BY <1>2, <1>3 DEF Withdraw

LEMMA ReapPromise ==
  ASSUME IInv, IInv', Reap
  PROVE  Promise!Next
<1>1. row' = Free(Expired) /\ UNCHANGED <<now, rendered>>
  BY DEF Reap, ServiceUnchanged
<1>2. ASSUME NEW k \in Links
      PROVE  /\ row'[k].name = row[k].name /\ row'[k].once = row[k].once
             /\ row'[k].expires = row[k].expires /\ row'[k].uses = row[k].uses
             /\ row'[k].withdrawn = row[k].withdrawn
             /\ row'[k].stage = IF k \in Expired THEN "freed" ELSE row[k].stage
  <2>1. row[k] \in Row
    BY DEF IInv, TypeOK, TableTypeOK
  <2>2. QED
    BY <1>1, <2>1 DEF Free, Row
<1>3. Title(row') = Title(row) /\ OneTime(row') = OneTime(row) /\ Used(row') = Used(row)
      /\ Withdrawn(row') = Withdrawn(row)
  BY <1>2 DEF Title, OneTime, Used, Withdrawn
<1>4. Past(row', now') = Past(row, now) /\ Expired \subseteq Past(row, now) /\ Expired \subseteq Links
  BY <1>1, <1>2 DEF Past, Expired, Stored
<1>5. Directory(row') = [n \in Names |-> IF Directory(row)[n] \in Expired THEN None
                                         ELSE Directory(row)[n]]
  <2>1. ASSUME NEW n \in Names
        PROVE  Directory(row')[n] = IF Directory(row)[n] \in Expired THEN None ELSE Directory(row)[n]
    <3>1. Unique(row) /\ Unique(row')
      BY DEF IInv, NameUnique, Stored, Unique
    <3>2. Bearers(row', n) = Bearers(row, n) \ Expired
      BY <1>2 DEF Bearers
    <3>3. CASE Bearers(row, n) = {}
      <4>1. Directory(row)[n] = None /\ Directory(row')[n] = None
        BY <3>1, <3>2, <3>3, DirectoryFact
      <4>2. QED
        BY <4>1
    <3>4. ASSUME NEW l \in Bearers(row, n)
          PROVE  Directory(row')[n] = IF Directory(row)[n] \in Expired THEN None
                                      ELSE Directory(row)[n]
      <4>1. l \in Links /\ Directory(row)[n] = l
        BY <3>1, DirectoryFact DEF Bearers
      <4>2. Bearers(row, n) = {l}
        BY <3>1 DEF Bearers, Unique
      <4>3. CASE l \in Expired
        <5>1. Bearers(row', n) = {}
          BY <3>2, <4>2, <4>3
        <5>2. QED
          BY <3>1, <4>1, <4>3, <5>1, DirectoryFact
      <4>4. CASE l \notin Expired
        BY <3>1, <3>2, <4>1, <4>4, DirectoryFact
      <4>5. QED
        BY <4>3, <4>4
    <3>5. QED
      BY <3>3, <3>4
  <2>2. QED
    BY <2>1 DEF Directory
<1>6. Promise!Release(Expired)
  BY <1>1, <1>3, <1>4, <1>5, PromiseState
     DEF Promise!Release, Title, OneTime, Used, Withdrawn, Past
<1>7. QED
  BY <1>4, <1>6 DEF Promise!Next

LEMMA TickPromise ==
  ASSUME IInv, Tick
  PROVE  Promise!Next
<1>1. UNCHANGED <<row, rendered>> /\ now' = now + 1
  BY DEF Tick, ServiceUnchanged
<1>2. PICK S \in SUBSET Links : S = Past(row', now')
  BY DEF Past
<1>3. Past(row', now') = Past(row, now) \cup S
  <2>1. now \in Nat /\ \A l \in Links : row[l].expires \in Nat
    BY DEF IInv, TypeOK, TableTypeOK, Row
  <2>2. Past(row, now) \subseteq Past(row', now')
    BY <1>1, <2>1 DEF Past
  <2>3. QED
    BY <1>2, <2>2
<1>4. \A l \in S : row[l].name # None
  BY <1>1, <1>2, NoneAssumption DEF Past, IInv, RowShape
<1>5. Promise!Expire(S)
  BY <1>1, <1>3, <1>4, PromiseState DEF Promise!Expire, Past
<1>6. QED
  BY <1>2, <1>5 DEF Promise!Next
-----------------------------------------------------------------------------
LEMMA NextPromise == IInv /\ RInv /\ [Next]_vars => [Promise!Next]_(Promise!promise)
<1> SUFFICES ASSUME IInv, RInv, [Next]_vars PROVE Promise!Next \/ UNCHANGED Promise!promise
  OBVIOUS
<1>0. IInv'
  BY NextFact
<1>1. ASSUME NEW q \in Reqs, Arrive(q) PROVE Promise!Next \/ UNCHANGED Promise!promise
  <2>1. ASSUME NEW c \in Clients, NEW n \in Names,
               ResolveCookie(q, c, n) \/ Resolve(q, c, n) \/ Reveal(q, c, n)
        PROVE  UNCHANGED Promise!promise
    BY <2>1, SameState DEF ResolveCookie, Resolve, Reveal, ServiceUnchanged
  <2>2. ASSUME NEW n \in Names, Card(q, n) PROVE UNCHANGED Promise!promise
    BY <2>2, SameState DEF Card, ServiceUnchanged
  <2>3. ASSUME NEW n \in Names, NEW key \in handed \cup {None}, Read(q, n, key)
        PROVE  UNCHANGED Promise!promise
    BY <2>3, SameState DEF Read, ServiceUnchanged
  <2>4. CASE Reject(q)
    BY <2>4, SameState DEF Reject, ServiceUnchanged
  <2>5. QED
    BY <1>0, <1>1, <2>1, <2>2, <2>3, <2>4, WithdrawPromise, CreatePromise DEF Arrive
<1>2. ASSUME NEW q \in Reqs, Handle(q) PROVE Promise!Next \/ UNCHANGED Promise!promise
  <2>1. CASE Consume(q) \/ RedactCommit(q)
    BY <2>1, ConsumePromise, RedactCommitPromise
  <2>2. CASE ~ (Consume(q) \/ RedactCommit(q))
    <3>1. UNCHANGED <<row, now, rendered>>
      BY <1>2, <2>2 DEF Handle, Tombstone, Bump, ReadCreator, RedactRead, RedactWrite, Mint, Fail,
                        ServiceUnchanged
    <3>2. QED
      BY <3>1, SameState
  <2>3. QED
    BY <2>1, <2>2
<1>3. ASSUME NEW q \in Reqs, Deliver(q) \/ HangUp(q) PROVE UNCHANGED Promise!promise
  BY <1>3, SameState DEF Deliver, HangUp, ServiceUnchanged
<1>4. CASE Reap
  BY <1>0, <1>4, ReapPromise
<1>5. CASE Tick
  BY <1>5, TickPromise
<1>6. CASE Restart \/ UNCHANGED vars
  BY <1>6, SameState DEF Restart, vars
<1>7. QED
  BY <1>1, <1>2, <1>3, <1>4, <1>5, <1>6 DEF Next

LEMMA InitPromise == Init => Promise!Init
<1> SUFFICES ASSUME Init PROVE Promise!Init
  OBVIOUS
<1>1. \A l \in Links : /\ row[l].stage = "unused" /\ row[l].name = None /\ row[l].once = FALSE
                       /\ row[l].uses = 0 /\ row[l].withdrawn = FALSE /\ rendered[l] = 0
  BY DEF Init, TableInit, Unused
<1>2. Directory(row) = [n \in Names |-> None]
  <2>1. \A n \in Names : Bearers(row, n) = {}
    BY <1>1 DEF Bearers
  <2>2. QED
    BY <2>1, TheFact DEF Directory
<1>3. QED
  BY <1>1, <1>2, PromiseState DEF Promise!Init

(***************************************************************************)
(* The handlers of web.rs over the statements of db.rs implement the       *)
(* promise: publish once, use while good, show once and only after a use,  *)
(* release on expiry alone, for any number of links, names, browsers,      *)
(* concurrent requests, failures and restarts.                             *)
(***************************************************************************)
THEOREM ServiceRefines == Spec => KeepsPromise
<1>1. Init => Promise!Init
  BY InitPromise
<1>2. IInv /\ RInv /\ [Next]_vars => [Promise!Next]_(Promise!promise)
  BY NextPromise
<1>3. QED
  BY <1>1, <1>2, ReaderInvariant, PTL DEF Spec, KeepsPromise, Promise!Spec
=============================================================================
