---------------------------- MODULE LinkService ----------------------------
(***************************************************************************)
(* The HTTP handlers of server/src/web.rs that read or change a link, run  *)
(* concurrently over the table of LinkTable.                               *)
(*                                                                         *)
(* A request occupies a slot q; req[q].pc names the next database          *)
(* statement its handler will issue.  The handlers are async, so between   *)
(* two statements any other request, the reaper, the clock, a client       *)
(* hanging up or a restart may come first.  A request arrives with its     *)
(* first statement, except where the handler decides something before it   *)
(* (a cookie is verified before the read it authorises).  `done` means the *)
(* response is computed and on its way.                                    *)
(***************************************************************************)
EXTENDS LinkTable

CONSTANTS
  Clients,        \* browsers, each with a cookie jar
  Reqs,           \* request slots: how many requests run at once
  TTLs,           \* lifetimes a creator may ask for
  TokenTTL,       \* token::TTL_SECS
  PinnedSecret,   \* YUIOLINK_SECRET is set, so tokens survive a restart
  DbFaults,       \* a statement may fail (I/O error, pool exhausted)
  Horizon,        \* bound: no link may expire and no clock tick pass it
  MaxEpoch        \* bound: how often a restart draws a new secret

ASSUME ServiceAssumption ==
  /\ TTLs \subseteq Nat \ {0}
  /\ TokenTTL \in Nat /\ Horizon \in Nat /\ MaxEpoch \in Nat
  /\ PinnedSecret \in BOOLEAN /\ DbFaults \in BOOLEAN
  /\ None \notin Clients \cup Reqs

VARIABLES
  req,       \* the requests in flight
  writer,    \* the request whose transaction holds SQLite's write lock
  epoch,     \* which secret the process signs reveal tokens with
  jar,       \* yl_reveal cookies: [Clients -> [Names -> Cap or None]]
  handed,    \* links whose creator token reached whoever created them
  minted,    \* history: reveal tokens minted for a use of each link
  rendered   \* history: revealed views rendered from each link's content

vars == <<row, now, req, writer, epoch, jar, handed, minted, rendered>>

(***************************************************************************)
(* A reveal token says a name and an expiry, signed.  `link`, the link     *)
(* whose use paid for it, is not in the token: the model keeps it to say   *)
(* what the token should have been good for.                               *)
(***************************************************************************)
Cap == [name : Names, exp : Nat, epoch : 0..MaxEpoch, link : Links]

ASSUME TokenAssumption == None \notin Cap

Pcs == {"idle", "redactRead", "redactWrite", "redactCommit", "tombstone",
        "consume", "mint", "bump", "readCreator", "done"}

Answers == {"none", "created", "shown", "blind", "revealed", "gone", "missing",
            "seeOther", "noContent", "metadata", "full", "error", "conflict"}

Request == [pc     : Pcs,
            client : Clients \cup {None},
            name   : Names \cup {None},
            cap    : Cap \cup {None},     \* the cookie presented, or the one set
            key    : Links \cup {None},   \* the creator token presented
            got    : Links \cup {None},   \* the row the last statement returned
            stale  : BOOLEAN,             \* another commit outdated the open snapshot
            answer : Answers]

Idle == [pc |-> "idle", client |-> None, name |-> None, cap |-> None, key |-> None,
         got |-> None, stale |-> FALSE, answer |-> "none"]

(***************************************************************************)
(* How a step leaves the requests: q moves on, and when the step committed *)
(* a write every other transaction with an open snapshot is outdated (it   *)
(* keeps reading its snapshot and can no longer become a writer).          *)
(***************************************************************************)
Move(q, next) == [req EXCEPT ![q] = next]

Outdate(rs) == [p \in Reqs |-> IF rs[p].pc = "redactWrite"
                               THEN [rs[p] EXCEPT !.stale = TRUE]
                               ELSE rs[p]]

At(q, pc)        == req[q].pc = pc
Goto(q, pc)      == [req[q] EXCEPT !.pc = pc]
Answer(q, a)     == [req[q] EXCEPT !.pc = "done", !.answer = a]
Respond(a)       == [Idle EXCEPT !.pc = "done", !.answer = a]   \* nothing of a link in it
Missing(n)       == [Idle EXCEPT !.pc = "tombstone", !.name = n]
LockFree         == writer = None
ServiceUnchanged == UNCHANGED <<epoch, jar, handed, minted, rendered>>
-----------------------------------------------------------------------------
(***************************************************************************)
(* GET /:name.  A cookie that verifies (this secret, not past its expiry)  *)
(* turns the request into the revealed view; nothing else about the link   *)
(* is consulted, and the token says only a name.                           *)
(***************************************************************************)
Verified(c, n) == /\ jar[c][n] # None
                  /\ jar[c][n].epoch = epoch
                  /\ jar[c][n].exp >= now

ResolveCookie(q, c, n) ==
  /\ At(q, "idle")
  /\ Verified(c, n)
  /\ req' = Move(q, [Idle EXCEPT !.pc = "redactRead", !.client = c, !.name = n,
                                 !.cap = jar[c][n]])
  /\ UNCHANGED <<row, now, writer>> /\ ServiceUnchanged

\* Without a cookie unlimited content is shown and a one-time link stays blind.
Resolve(q, c, n) ==
  /\ At(q, "idle")
  /\ ~ Verified(c, n)
  /\ LET live == get_link_live(n) IN
     \/ \E l \in live :
          req' = Move(q, [Idle EXCEPT !.pc = "bump", !.got = l,
                                      !.answer = IF row[l].once THEN "blind" ELSE "shown"])
     \/ live = {} /\ req' = Move(q, Missing(n))
  /\ UNCHANGED <<row, now, writer>> /\ ServiceUnchanged

\* GET /:name/card.png, for redirects only: a one-time link's card is blind.
Card(q, n) ==
  /\ At(q, "idle")
  /\ \/ \E l \in get_link_live(n) :
          req' = Move(q, [Respond(IF row[l].once THEN "blind" ELSE "shown") EXCEPT !.got = l])
     \/ req' = Move(q, Respond("missing"))
  /\ UNCHANGED <<row, now, writer>> /\ ServiceUnchanged

\* tombstone_or_missing: 410 while an unexpired row holds the name, else 404.
Tombstone(q) ==
  /\ At(q, "tombstone")
  /\ LET any == get_link_any(req[q].name) IN
     \/ \E l \in any : req' = Move(q, [Respond("gone") EXCEPT !.got = l])
     \/ any = {} /\ req' = Move(q, Respond("missing"))
  /\ UNCHANGED <<row, now, writer>> /\ ServiceUnchanged

(***************************************************************************)
(* A statistics bump before the response.  It commits on its own; when it  *)
(* fails the failure is dropped.                                           *)
(***************************************************************************)
Bumped(rs) == (IF LockFree THEN {Outdate(rs)} ELSE {})
              \cup (IF DbFaults \/ ~ LockFree THEN {rs} ELSE {})

Bump(q) ==
  /\ At(q, "bump")
  /\ req' \in Bumped(Move(q, Goto(q, "done")))
  /\ UNCHANGED <<row, now, writer>> /\ ServiceUnchanged

(***************************************************************************)
(* The revealed view: reveal_and_redact in a deferred transaction.  BEGIN  *)
(* takes no lock, the SELECT fixes the snapshot, and the UPDATE must then  *)
(* upgrade to the write lock: SQLite refuses at once, without waiting,     *)
(* when another writer holds it or has committed since the snapshot.       *)
(***************************************************************************)
RedactRead(q) ==
  /\ At(q, "redactRead")
  /\ LET hit == Redactable(req[q].name) IN
     \/ \E l \in hit : req' = Move(q, [Goto(q, "redactWrite") EXCEPT !.got = l])
     \/ hit = {} /\ req' = Move(q, Missing(req[q].name))
  /\ UNCHANGED <<row, now, writer>> /\ ServiceUnchanged

\* Mutated: the upgrade ignores what was committed since the snapshot.
UpgradableIfFree(q) == LockFree

Upgradable(q) == LockFree /\ ~ req[q].stale

\* Mutated: a refused upgrade is tried again.
RedactWriteRetried(q) ==
  /\ At(q, "redactWrite")
  /\ Upgradable(q)
  /\ writer' = q
  /\ req' = Move(q, Goto(q, "redactCommit"))
  /\ UNCHANGED <<row, now>> /\ ServiceUnchanged

RedactWrite(q) ==
  /\ At(q, "redactWrite")
  /\ \/ /\ Upgradable(q)
        /\ writer' = q
        /\ req' = Move(q, Goto(q, "redactCommit"))
     \/ /\ ~ Upgradable(q)
        /\ req' = Move(q, Respond("conflict"))
        /\ UNCHANGED writer
  /\ UNCHANGED <<row, now>> /\ ServiceUnchanged

\* COMMIT, after which the handler renders what it read without another await.
RedactCommit(q) ==
  /\ At(q, "redactCommit")
  /\ row' = Redact(Called(req[q].name))
  /\ writer' = None
  /\ rendered' = [rendered EXCEPT ![req[q].got] = @ + 1]
  /\ req' = Outdate(Move(q, Answer(q, "revealed")))
  /\ UNCHANGED <<now, epoch, jar, handed, minted>>
-----------------------------------------------------------------------------
(***************************************************************************)
(* POST /:name/reveal: check, spend the use, count it, mint the token.     *)
(***************************************************************************)
Reveal(q, c, n) ==
  /\ At(q, "idle")
  /\ LET live == get_link_live(n) IN
     \/ /\ \E l \in live : row[l].once
        /\ req' = Move(q, [Idle EXCEPT !.pc = "consume", !.client = c, !.name = n])
     \/ /\ \E l \in live : ~ row[l].once
        /\ req' = Move(q, Respond("missing"))
     \/ /\ live = {}
        /\ req' = Move(q, Missing(n))
  /\ UNCHANGED <<row, now, writer>> /\ ServiceUnchanged

\* consume_link: one UPDATE ... WHERE live RETURNING, by name.
Consume(q) ==
  /\ At(q, "consume")
  /\ LockFree
  /\ LET live == get_link_live(req[q].name) IN
     \/ \E l \in live :
          /\ row' = Spend(live)
          /\ req' = Outdate(Move(q, [Goto(q, "mint") EXCEPT !.got = l]))
     \/ /\ live = {}
        /\ req' = Move(q, Missing(req[q].name))
        /\ UNCHANGED row
  /\ UNCHANGED <<now, writer>> /\ ServiceUnchanged

\* The Opened and Revealed bumps, then the token and the 303 that carries it.
Mint(q) ==
  /\ At(q, "mint")
  /\ LET cap == [name |-> req[q].name, exp |-> now + TokenTTL,
                 epoch |-> epoch, link |-> req[q].got]
     IN  req' \in Bumped(Move(q, [Answer(q, "seeOther") EXCEPT !.cap = cap]))
  /\ minted' = [minted EXCEPT ![req[q].got] = @ + 1]
  /\ UNCHANGED <<row, now, writer, epoch, jar, handed, rendered>>
-----------------------------------------------------------------------------
(***************************************************************************)
(* POST /, /plain and /api/v0/links, from the INSERT on: validation reads  *)
(* and changes no link.  Only the API issues a creator token.              *)
(***************************************************************************)
Create(q, l, n, isOnce, isOwned, ttl) ==
  /\ At(q, "idle")
  /\ LockFree
  /\ row[l].stage = "unused"
  /\ Insertable(n)
  /\ now + ttl <= Horizon
  /\ Insert(l, n, isOnce, isOwned, ttl)
  /\ req' = Outdate(Move(q, [Idle EXCEPT !.pc = "bump", !.name = n, !.got = l,
                                         !.answer = "created"]))
  /\ UNCHANGED <<now, writer>> /\ ServiceUnchanged

(***************************************************************************)
(* DELETE /api/v0/links/:name with Authorization: Bearer key (404 without  *)
(* one).  delete_link marks the row, live or not, expired or not, whose    *)
(* own token this is.                                                      *)
(***************************************************************************)
Withdraw(q, n, key) ==
  /\ At(q, "idle")
  /\ LockFree
  /\ LET mine == Matching(n, key) IN
     \/ /\ mine # {}
        /\ row' = Mark(mine)
        /\ req' = Outdate(Move(q, [Respond("noContent") EXCEPT !.key = key]))
     \/ /\ mine = {}
        /\ req' = Move(q, Respond("missing"))
        /\ UNCHANGED row
  /\ UNCHANGED <<now, writer>> /\ ServiceUnchanged

(***************************************************************************)
(* GET /api/v0/links/:name: a one-time link's content goes to its creator  *)
(* only, and whether the bearer is the creator is a second query, by name. *)
(***************************************************************************)
Read(q, n, key) ==
  /\ At(q, "idle")
  /\ LET live == get_link_live(n) IN
     \/ \E l \in live :
          /\ ~ row[l].once
          /\ req' = Move(q, [Respond("full") EXCEPT !.got = l, !.key = key])
     \/ \E l \in live :
          /\ row[l].once /\ key = None
          /\ req' = Move(q, Respond("metadata"))
     \/ \E l \in live :
          /\ row[l].once /\ key # None
          /\ req' = Move(q, [Idle EXCEPT !.pc = "readCreator", !.name = n,
                                         !.key = key, !.got = l])
     \/ live = {} /\ req' = Move(q, Respond("missing"))
  /\ UNCHANGED <<row, now, writer>> /\ ServiceUnchanged

ReadCreator(q) ==
  /\ At(q, "readCreator")
  /\ req' = Move(q, IF Matching(req[q].name, req[q].key) # {}
                    THEN Answer(q, "full") ELSE Respond("metadata"))
  /\ UNCHANGED <<row, now, writer>> /\ ServiceUnchanged
-----------------------------------------------------------------------------
(***************************************************************************)
(* What the surroundings do.                                               *)
(***************************************************************************)

\* A statement fails, or a writer has waited busy_timeout for the lock: 500.
\* Reject is a request whose very first statement fails that way.
Reject(q) ==
  /\ DbFaults \/ ~ LockFree
  /\ At(q, "idle")
  /\ req' = Move(q, Respond("error"))
  /\ UNCHANGED <<row, now, writer>> /\ ServiceUnchanged

Fail(q) ==
  /\ \/ DbFaults /\ req[q].pc \notin {"idle", "mint", "bump", "done"}
     \/ ~ LockFree /\ At(q, "consume")
  /\ req' = Move(q, Respond("error"))
  /\ writer' = IF writer = q THEN None ELSE writer
  /\ UNCHANGED <<row, now>> /\ ServiceUnchanged

\* The response arrives: the browser stores or drops the cookie, the creator
\* learns the token.
Deliver(q) ==
  /\ At(q, "done")
  /\ req' = Move(q, Idle)
  /\ jar' = CASE req[q].answer = "seeOther" ->
                   [jar EXCEPT ![req[q].client][req[q].name] = req[q].cap]
              [] req[q].answer = "revealed" ->
                   [jar EXCEPT ![req[q].client][req[q].name] = None]
              [] OTHER -> jar
  /\ handed' = IF req[q].answer = "created" /\ row[req[q].got].owned
               THEN handed \cup {req[q].got} ELSE handed
  /\ UNCHANGED <<row, now, writer, epoch, minted, rendered>>

\* The client is gone: axum drops the handler at its await, an open
\* transaction rolls back, and a response on its way is lost.
HangUp(q) ==
  /\ ~ At(q, "idle")
  /\ req' = Move(q, Idle)
  /\ writer' = IF writer = q THEN None ELSE writer
  /\ UNCHANGED <<row, now>> /\ ServiceUnchanged

\* One sweep of spawn_reaper: expired rows go, and their names with them.
Reap ==
  /\ LockFree
  /\ Expired # {}
  /\ row' = Free(Expired)
  /\ req' = Outdate(req)
  /\ UNCHANGED <<now, writer>> /\ ServiceUnchanged

Tick ==
  /\ now < Horizon
  /\ now' = now + 1
  /\ UNCHANGED <<row, req, writer>> /\ ServiceUnchanged

\* The process dies and starts again: requests are lost, WAL keeps what was
\* committed, and a secret that was not configured is drawn anew.
Restart ==
  /\ PinnedSecret \/ epoch < MaxEpoch
  /\ epoch' = IF PinnedSecret THEN epoch ELSE epoch + 1
  /\ req' = [q \in Reqs |-> Idle]
  /\ writer' = None
  /\ UNCHANGED <<row, now, jar, handed, minted, rendered>>
-----------------------------------------------------------------------------
Init ==
  /\ TableInit
  /\ req = [q \in Reqs |-> Idle]
  /\ writer = None
  /\ epoch = 0
  /\ jar = [c \in Clients |-> [n \in Names |-> None]]
  /\ handed = {}
  /\ minted = [l \in Links |-> 0]
  /\ rendered = [l \in Links |-> 0]

Arrive(q) ==
  \/ \E c \in Clients, n \in Names :
        ResolveCookie(q, c, n) \/ Resolve(q, c, n) \/ Reveal(q, c, n)
  \/ \E n \in Names : Card(q, n)
  \/ \E n \in Names, key \in handed \cup {None} : Withdraw(q, n, key) \/ Read(q, n, key)
  \/ \E l \in Links, n \in Names, ttl \in TTLs, isOnce, isOwned \in BOOLEAN :
        Create(q, l, n, isOnce, isOwned, ttl)
  \/ Reject(q)

Handle(q) ==
  \/ Tombstone(q) \/ Bump(q) \/ ReadCreator(q)
  \/ RedactRead(q) \/ RedactWrite(q) \/ RedactCommit(q)
  \/ Consume(q) \/ Mint(q)
  \/ Fail(q)

Next ==
  \/ \E q \in Reqs : Arrive(q) \/ Handle(q) \/ Deliver(q) \/ HangUp(q)
  \/ Reap \/ Tick \/ Restart

Spec == Init /\ [][Next]_vars

(***************************************************************************)
(* Fairness: the runtime polls every task it holds, so a handler that can  *)
(* move does; time passes; and the reaper retries on every tick for as     *)
(* long as the process lives, while the lock is only ever held between two *)
(* statements of one transaction, so a sweep that keeps finding the lock   *)
(* free at times gets it in the end (strong fairness).                     *)
(***************************************************************************)
Fairness == /\ \A q \in Reqs : WF_vars(Handle(q))
            /\ WF_vars(Tick)
            /\ SF_vars(Reap)

FairSpec == Spec /\ Fairness
=============================================================================
