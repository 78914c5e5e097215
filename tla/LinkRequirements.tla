-------------------------- MODULE LinkRequirements --------------------------
(***************************************************************************)
(* What LinkService is for, stated over its state: docs/PREVIEW.md and the *)
(* comments of db.rs and web.rs, as formulas.                              *)
(***************************************************************************)
EXTENDS LinkService

\* The one member of S, or None.
The(S) == IF S = {} THEN None ELSE CHOOSE l \in S : TRUE

(***************************************************************************)
(* LinkService seen as a LinkPromise: the clock, the requests, the lock,   *)
(* the cookies and the secret disappear.                                   *)
(***************************************************************************)
Promise == INSTANCE LinkPromise WITH
  holder    <- [n \in Names |-> The(Called(n))],
  called    <- [l \in Links |-> row[l].name],
  oneTime   <- {l \in Links : row[l].once},
  used      <- {l \in Links : row[l].uses > 0},
  withdrawn <- {l \in Links : row[l].withdrawn},
  expired   <- {l \in Links : row[l].stage # "unused" /\ row[l].expires <= now},
  shown     <- {l \in Links : rendered[l] > 0}

(***************************************************************************)
(* Every variable has its type: rows, clock, requests, cookie jars.        *)
(***************************************************************************)
TypeOK ==
  /\ TableTypeOK
  /\ req \in [Reqs -> Request]
  /\ writer \in Reqs \cup {None}
  /\ epoch \in 0..MaxEpoch
  /\ jar \in [Clients -> [Names -> Cap \cup {None}]]
  /\ handed \subseteq Links
  /\ minted \in [Links -> Nat]
  /\ rendered \in [Links -> Nat]

(***************************************************************************)
(* A one-time link is spent at most once however many reveals race, and    *)
(* never more reveal tokens are minted than uses were spent: the promise   *)
(* in consume_link's comment (db.rs).                                      *)
(***************************************************************************)
SpentOnce == \A l \in Links : row[l].once => /\ row[l].uses <= 1
                                             /\ minted[l] <= row[l].uses

(***************************************************************************)
(* A link's content is rendered in at most one revealed view, with any     *)
(* number of tabs presenting the same cookie at the same time, requests    *)
(* dropped between statements, and restarts: reveal_and_redact (db.rs).    *)
(***************************************************************************)
ShownOnce == \A l \in Links : rendered[l] <= 1

(***************************************************************************)
(* The browsers that hold, or are about to receive, the capability of l.   *)
(***************************************************************************)
Holders(l) ==
  {c \in Clients : \E n \in Names : jar[c][n] # None /\ jar[c][n].link = l}
  \cup {req[q].client : q \in {p \in Reqs : req[p].answer = "seeOther" /\ req[p].got = l}}

(***************************************************************************)
(* Tamper evidence: never do two browsers hold the capability to read the  *)
(* same one-time link, so whoever finds 410 knows someone else was first.  *)
(***************************************************************************)
SoleReader == \A l \in Links : row[l].once => \A c, d \in Holders(l) : c = d

(***************************************************************************)
(* A response that carries the content of a one-time link answers either a *)
(* reader whose reveal token verified or the link's own creator; the API   *)
(* decides the latter in a second query, by name, after the read (web.rs   *)
(* api_get_link), with expiry and reuse of the name possible in between.   *)
(***************************************************************************)
ContentOnlyToHolders ==
  \A q \in Reqs :
    /\ req[q].got # None
    /\ row[req[q].got].once
    => /\ req[q].answer = "full" => req[q].key = req[q].got
       /\ req[q].answer = "revealed" => req[q].cap # None
       /\ req[q].answer # "shown"

(***************************************************************************)
(* A revealed view shows the link its token was minted for, unless that    *)
(* link has meanwhile been reaped: the token names a name only (token.rs), *)
(* so this rests on names staying reserved through every tombstone.        *)
(***************************************************************************)
RevealsItsOwnLink ==
  \A q \in Reqs : req[q].answer = "revealed" =>
    \/ req[q].got = req[q].cap.link
    \/ row[req[q].cap.link].stage = "freed"

(***************************************************************************)
(* Until it expires a link, live, spent or withdrawn, keeps its name to    *)
(* itself: no step deletes the row or gives the name to another link.      *)
(***************************************************************************)
NameNeverRepurposed ==
  [][\A l \in Links : Unexpired(l) => Called(row[l].name)' = {l}]_vars

(***************************************************************************)
(* Once a stored link stops being live (expired, spent or withdrawn) no    *)
(* sequence of requests, aborted handlers and restarts revives it.         *)
(***************************************************************************)
DeadStaysDead ==
  [][\A l \in Links : row[l].stage # "unused" /\ ~ Live(l) => ~ Live(l)']_vars

(***************************************************************************)
(* LinkService implements LinkPromise: db.rs and web.rs, with all their    *)
(* interleavings, keep the promise made for a link's life.                 *)
(***************************************************************************)
KeepsPromise == Promise!Spec

(***************************************************************************)
(* Every request is answered or its client goes away: no handler waits for *)
(* ever on the write lock or on another handler.                           *)
(***************************************************************************)
EveryRequestEnds ==
  \A q \in Reqs : ~ At(q, "idle") ~> (At(q, "done") \/ At(q, "idle"))

(***************************************************************************)
(* Every link's row is deleted in the end, so every name comes back: the   *)
(* reaper is not kept out by traffic, tombstones or restarts.              *)
(***************************************************************************)
EveryNameFreed == \A l \in Links : Stored(l) ~> row[l].stage = "freed"
-----------------------------------------------------------------------------
(***************************************************************************)
(* The inductive invariant behind the safety properties.  A row keeps the  *)
(* shape INSERT gave it, UNIQUE holds, a request has the fields its next   *)
(* statement reads, the lock belongs to the one request about to commit, a *)
(* snapshot nobody outdated still shows what the table holds, the render   *)
(* count is the blank flag, and a use of a one-time link pays for a single *)
(* token, already minted or about to be.                                   *)
(***************************************************************************)
RowShape == \A l \in Links :
  /\ row[l].stage = "unused" => row[l] = Unused /\ minted[l] = 0
  /\ row[l].stage # "unused" => row[l].name \in Names

NameUnique == \A k, l \in Links :
  Stored(k) /\ Stored(l) /\ row[k].name = row[l].name => k = l

Shape(r) ==
  /\ r.pc \in {"redactRead", "redactWrite", "redactCommit", "consume", "mint",
               "tombstone", "readCreator"} => r.name \in Names
  /\ r.pc \in {"redactRead", "redactWrite", "redactCommit", "consume", "mint"}
       => r.client \in Clients
  /\ r.pc \in {"redactRead", "redactWrite", "redactCommit"} => r.cap \in Cap
  /\ r.pc \in {"redactWrite", "redactCommit", "mint", "readCreator"} => r.got \in Links
  /\ r.answer = "created" => r.got \in Links

RequestShape == \A q \in Reqs : Shape(req[q])

LockHeld == \A q \in Reqs : writer = q <=> At(q, "redactCommit")

SnapshotCurrent == \A q \in Reqs :
  (At(q, "redactCommit") \/ (At(q, "redactWrite") /\ ~ req[q].stale))
    => /\ Stored(req[q].got)
       /\ row[req[q].got].name = req[q].name
       /\ ~ row[req[q].got].blank

RenderedIsBlank == \A l \in Links : rendered[l] = IF row[l].blank THEN 1 ELSE 0

OneMint ==
  /\ \A q \in Reqs : At(q, "mint") =>
       LET l == req[q].got
       IN  row[l].stage # "unused" /\ (row[l].once => row[l].uses = 1 /\ minted[l] = 0)
  /\ \A p, q \in Reqs :
       /\ At(p, "mint") /\ At(q, "mint") /\ req[p].got = req[q].got
       /\ row[req[p].got].once
       => p = q

IInv == /\ TypeOK /\ RowShape /\ NameUnique /\ RequestShape /\ LockHeld
        /\ SnapshotCurrent /\ RenderedIsBlank /\ OneMint /\ SpentOnce
-----------------------------------------------------------------------------
(***************************************************************************)
(* What the documentation says and the code does not do.                   *)
(***************************************************************************)

(***************************************************************************)
(* docs/PREVIEW.md, section 8: a withdrawn link answers 410, whoever asks. *)
(* The revealed view does not look at `withdrawn`.                         *)
(***************************************************************************)
WithdrawnIsGone ==
  [][\A l \in Links : row[l].withdrawn => rendered'[l] = rendered[l]]_vars
=============================================================================
