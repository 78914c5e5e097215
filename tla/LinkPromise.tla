---------------------------- MODULE LinkPromise ----------------------------
(***************************************************************************)
(* What the service promises about a link, without clock, requests,        *)
(* transactions or tokens: a name belongs to one link from publication to  *)
(* release, release waits for expiry, a use is spent only while the link   *)
(* is good, at most one revealed view shows its content, and only after a  *)
(* use was spent on a link of that name.                                   *)
(***************************************************************************)
CONSTANTS Links, Names, None

VARIABLES
  holder,      \* the directory: [Names -> Links or None]
  called,      \* the name a link was published under, for good
  oneTime,     \* links published with a single use
  used,        \* links a use was spent on
  withdrawn,   \* links their creator withdrew
  expired,     \* links past their stated life
  shown        \* links whose content a revealed view has shown

promise == <<holder, called, oneTime, used, withdrawn, expired, shown>>

Held(l) == \E n \in Names : holder[n] = l

\* A link that may still be used.
Good(l) == /\ Held(l)
           /\ l \notin expired \cup withdrawn
           /\ ~ (l \in oneTime /\ l \in used)

Init == /\ holder = [n \in Names |-> None]
        /\ called = [l \in Links |-> None]
        /\ oneTime = {} /\ used = {} /\ withdrawn = {} /\ expired = {} /\ shown = {}

Publish(l, n) ==
  /\ called[l] = None
  /\ holder[n] = None
  /\ holder' = [holder EXCEPT ![n] = l]
  /\ called' = [called EXCEPT ![l] = n]
  /\ oneTime' \in {oneTime, oneTime \cup {l}}
  /\ UNCHANGED <<used, withdrawn, expired, shown>>

Use(l) ==
  /\ Good(l)
  /\ used' = used \cup {l}
  /\ UNCHANGED <<holder, called, oneTime, withdrawn, expired, shown>>

Withdraw(l) ==
  /\ Held(l)
  /\ withdrawn' = withdrawn \cup {l}
  /\ UNCHANGED <<holder, called, oneTime, used, expired, shown>>

Show(l) ==
  /\ Held(l)
  /\ l \notin shown
  /\ \E k \in used : called[k] = called[l]
  /\ shown' = shown \cup {l}
  /\ UNCHANGED <<holder, called, oneTime, used, withdrawn, expired>>

Expire(S) ==
  /\ \A l \in S : called[l] # None
  /\ expired' = expired \cup S
  /\ UNCHANGED <<holder, called, oneTime, used, withdrawn, shown>>

\* Expired links leave the directory, and only they do.
Release(S) ==
  /\ S \subseteq expired
  /\ holder' = [n \in Names |-> IF holder[n] \in S THEN None ELSE holder[n]]
  /\ UNCHANGED <<called, oneTime, used, withdrawn, expired, shown>>

Next ==
  \/ \E l \in Links, n \in Names : Publish(l, n)
  \/ \E l \in Links : Use(l) \/ Withdraw(l) \/ Show(l)
  \/ \E S \in SUBSET Links : Expire(S) \/ Release(S)

Spec == Init /\ [][Next]_promise
=============================================================================
