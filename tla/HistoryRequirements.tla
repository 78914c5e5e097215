------------------------ MODULE HistoryRequirements ------------------------
(***************************************************************************)
(* What the history of app.js is for, stated over the state of History.    *)
(***************************************************************************)
EXTENDS History

(***************************************************************************)
(* Every variable has its type: the lists, the events, the DELETEs.        *)
(***************************************************************************)
TypeOK ==
  /\ now \in 0..Horizon
  /\ created \subseteq Links /\ withdrawn \subseteq Links /\ expired \subseteq created
  /\ saved \in [there : BOOLEAN, list : List] /\ flag \in BOOLEAN
  /\ events \in [Tabs -> Seq(Key)]
  /\ open \subseteq Tabs /\ on \in [Tabs -> BOOLEAN]
  /\ mem \in [Tabs -> List]
  /\ armed \in [Tabs -> BOOLEAN]
  /\ panel \in [Tabs -> Links \cup {None}]
  /\ requests \subseteq Request /\ due \subseteq open
  /\ acts \in 0..MaxActs /\ flips \in 0..MaxFlips
  /\ dismissed \subseteq Tabs \X Links

Quiet == \A t \in Tabs : events[t] = <<>>

(***************************************************************************)
(* No entry, in a tab or in storage, says "deleted from the server" of a   *)
(* link that still works: only an answered DELETE writes that tombstone,   *)
(* and a merge may carry it anywhere (deleteFromServer, tombMessage).      *)
(***************************************************************************)
SaysDeleted(i) == \/ saved.list[i].state = "deleted"
                  \/ \E t \in Tabs : mem[t][i].state = "deleted"

DeletedIsTrue == \A i \in Links : SaysDeleted(i) => i \in withdrawn \cup expired

(***************************************************************************)
(* When no storage event is under way, every tab with Local History on     *)
(* holds what is saved, but for certificates that have had their time,     *)
(* whatever was written over what: the merge and the write that follows it *)
(* bring the tabs together (the storage listener of app.js).               *)
(***************************************************************************)
AgreeAtRest ==
  Quiet => \A t \in open : on[t] => \A i \in Links : Kept(mem[t][i], now) = Kept(saved.list[i], now)

(***************************************************************************)
(* In a tab that stays open an entry only moves on: from live to a         *)
(* tombstone to a certificate, and the eye of a live row never goes back   *)
(* to an older choice, even when another tab wrote an older copy over it.  *)
(* It vanishes only by a certificate, its own or one that is saved         *)
(* (mergeHistories).                                                       *)
(***************************************************************************)
MovesOn(e, other, f) ==
  \/ e.state = "none"
  \/ f.state = "none" /\ "cleared" \in {e.state, other.state}
  \/ f.state # "none" /\ MergeRank(f) > MergeRank(e)
  \/ f.state # "none" /\ MergeRank(f) = MergeRank(e) /\ CoverAt(f) >= CoverAt(e)

TabsMoveOn ==
  \A t \in open \cap open', i \in Links : MovesOn(mem[t][i], saved.list[i], mem'[t][i])

EntriesMoveOn == [][TabsMoveOn]_vars

(***************************************************************************)
(* A row that was cleared does not come back in a tab that has seen it     *)
(* cleared, though the certificate is dropped after CLEARED_TTL_MS and     *)
(* other tabs held live copies, DELETEs were unanswered and panels still   *)
(* offered the link: clearedMarker and findEntry.  For tabs that are not   *)
(* frozen, and while the Local History switch is left alone.               *)
(***************************************************************************)
ClearedStaysCleared == flips = 0 => \A p \in dismissed : ~Shown(mem[p[1]][p[2]])

(***************************************************************************)
(* The token of a forgotten link does not stay on the device beyond its    *)
(* grace while a tab is open, in whichever tab it was forgotten: forgetLink*)
(* and tickForgetGrace ("then purge them").  While the switch is left      *)
(* alone.                                                                  *)
(***************************************************************************)
LapsedTokenKept ==
  \E t \in open, i \in Links : on[t] /\ (Lapsed(mem[t][i], now) \/ Lapsed(saved.list[i], now))

TokensArePurged == (LapsedTokenKept /\ flips = 0) ~> (~LapsedTokenKept \/ flips > 0)

(***************************************************************************)
(* The storage events come to an end: the listener's comment says that     *)
(* "persistNow's no-op guard prevents a ping-pong" (app.js).               *)
(***************************************************************************)
TabsComeToRest == <>[]Quiet

(***************************************************************************)
(* What the tabs never settle is one thing only: two removals of the same  *)
(* rank that differ, which each holder prefers to the other's.             *)
(***************************************************************************)
RestUnlessTied == []<>Quiet \/ []<>Tied
============================================================================
