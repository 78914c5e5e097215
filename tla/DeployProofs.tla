---------------------------- MODULE DeployProofs ----------------------------
(***************************************************************************)
(* Theorems about Deploy, for any releases, any number of backups and      *)
(* snapshots and any number of faults.                                     *)
(***************************************************************************)
EXTENDS Deploy, SequenceTheorems, TLAPS

Bak == [rel : Files, age : {"newer", "same", "older"}, mine : BOOLEAN]

\* What the copies of a list keep of it.
LEMMA OlderKeeps ==
  ASSUME NEW list \in Seq(Bak)
  PROVE  /\ Older(list) \in Seq(Bak) /\ Len(Older(list)) = Len(list)
         /\ \A i \in 1..Len(list) : Older(list)[i].rel = list[i].rel /\ Older(list)[i].mine = list[i].mine
<1>0. \A i \in 1..Len(list) : list[i] \in Bak
  OBVIOUS
<1>1. \A i \in 1..Len(list) : [list[i] EXCEPT !.age = "older"] \in Bak
  BY <1>0 DEF Bak
<1>2. /\ Older(list) = [i \in 1..Len(list) |-> [list[i] EXCEPT !.age = "older"]]
      /\ Len(list) \in Nat
  BY DEF Older
<1>3. Older(list) \in Seq(Bak) /\ Len(Older(list)) = Len(list)
  BY <1>1, <1>2
<1> QED
  BY <1>0, <1>2, <1>3 DEF Bak

LEMMA DisownKeeps ==
  ASSUME NEW list \in Seq(Bak)
  PROVE  /\ Disown(list) \in Seq(Bak)
         /\ \A i \in 1..Len(Disown(list)) : ~ Disown(list)[i].mine
<1>0. \A i \in 1..Len(list) : list[i] \in Bak
  OBVIOUS
<1>1. \A i \in 1..Len(list) : [list[i] EXCEPT !.mine = FALSE] \in Bak
  BY <1>0 DEF Bak
<1>2. /\ Disown(list) = [i \in 1..Len(list) |-> [list[i] EXCEPT !.mine = FALSE]]
      /\ Len(list) \in Nat
  BY DEF Disown
<1>3. Disown(list) \in Seq(Bak) /\ Len(Disown(list)) = Len(list)
  BY <1>1, <1>2
<1> QED
  BY <1>0, <1>2, <1>3 DEF Bak

LEMMA NewestKeeps ==
  ASSUME NEW S, NEW list \in Seq(S), NEW n \in Nat
  PROVE  /\ Newest(n, list) \in Seq(S) /\ Len(Newest(n, list)) <= Len(list)
         /\ \A i \in 1..Len(Newest(n, list)) : Newest(n, list)[i] = list[i]
<1>1. CASE Len(list) <= n
  BY <1>1 DEF Newest
<1>2. CASE ~ (Len(list) <= n)
  <2>1. Newest(n, list) = SubSeq(list, 1, n) /\ n \in 0..Len(list)
    BY <1>2 DEF Newest
  <2> QED
    BY <2>1, SubSeqProperties
<1> QED
  BY <1>1, <1>2

Held(list) == {list[i] : i \in 1..Len(list)}

\* Two lists one after the other hold nothing that neither held.
LEMMA ConcatHolds ==
  ASSUME NEW S, NEW a \in Seq(S), NEW b \in Seq(S)
  PROVE  a \o b \in Seq(S) /\ Held(a \o b) \subseteq Held(a) \cup Held(b)
<1>1. /\ a \o b \in Seq(S) /\ Len(a \o b) = Len(a) + Len(b)
      /\ \A i \in 1..Len(a) + Len(b) : (a \o b)[i] = IF i <= Len(a) THEN a[i] ELSE b[i - Len(a)]
  BY ConcatProperties
<1>2. Len(a) \in Nat /\ Len(b) \in Nat
  OBVIOUS
<1>3. ASSUME NEW i \in 1..Len(a) + Len(b) PROVE (a \o b)[i] \in Held(a) \cup Held(b)
  <2>1. CASE i <= Len(a)
    BY <1>1, <1>2, <2>1 DEF Held
  <2>2. CASE ~ (i <= Len(a))
    <3>1. i - Len(a) \in 1..Len(b) /\ (a \o b)[i] = b[i - Len(a)]
      BY <1>1, <1>2, <2>2
    <3> QED
      BY <3>1 DEF Held
  <2> QED
    BY <2>1, <2>2
<1> QED
  BY <1>1, <1>3 DEF Held

\* The parts of a list hold nothing that it did not hold.
LEMMA PartHolds ==
  ASSUME NEW S, NEW list \in Seq(S), NEW k \in 0..Len(list)
  PROVE  /\ SubSeq(list, 1, k) \in Seq(S) /\ SubSeq(list, k + 1, Len(list)) \in Seq(S)
         /\ Held(SubSeq(list, 1, k)) \subseteq Held(list)
         /\ Held(SubSeq(list, k + 1, Len(list))) \subseteq Held(list)
<1>1. /\ SubSeq(list, 1, k) \in Seq(S) /\ Len(SubSeq(list, 1, k)) = k
      /\ \A i \in 1..k : SubSeq(list, 1, k)[i] = list[i]
  BY SubSeqProperties
<1>2. /\ SubSeq(list, k + 1, Len(list)) \in Seq(S)
      /\ Len(SubSeq(list, k + 1, Len(list))) = Len(list) - k
      /\ \A i \in 1..Len(list) - k : SubSeq(list, k + 1, Len(list))[i] = list[k + i]
  OBVIOUS
<1>3. k \in Nat /\ Len(list) \in Nat /\ k <= Len(list)
  OBVIOUS
<1>4. \A i \in 1..k : i \in 1..Len(list)
  BY <1>3
<1>5. \A i \in 1..Len(list) - k : k + i \in 1..Len(list)
  BY <1>3
<1> QED
  BY <1>1, <1>2, <1>4, <1>5 DEF Held

LEMMA InitInv == Init => IInv
<1> SUFFICES ASSUME Init PROVE IInv
  OBVIOUS
<1>1. baks \in Seq(Bak) /\ snaps \in Seq(Nat \cup {Torn})
  BY DEF Init
<1>2. since \in 0..Keep
  BY DeployAssumption DEF Init
<1>3. TypeOK
  BY <1>1, <1>2 DEF Init, TypeOK, Whole, Files, Under, None, Bak
<1> QED
  BY <1>3 DEF Init, IInv, OwnBackup, InPlace, Settled, None

\* The service starts: only running, the schema and what is remembered of it change.
LEMMA StartKeepsTypes ==
  ASSUME TypeOK, NEW d \in Files, Start(d)
  PROVE  running' \in Whole /\ schema' \in Nat /\ since' \in 0..Keep /\ before' \in Nat
         /\ bare' \in BOOLEAN
<1>1. \A r \in Releases : Schema[r] \in Nat
  BY DeployAssumption
<1>2. PICK up \in {d, None}, s \in {schema} \cup (IF d \in Releases THEN {Schema[d]} ELSE {}) :
        /\ running' = up /\ schema' = s
        /\ d \notin Releases => up = None
        /\ IF s = schema THEN UNCHANGED <<since, before, bare>>
           ELSE since' = 0 /\ before' = schema /\ bare' = (bare /\ since = 0)
  BY DEF Start
<1>3. running' \in Whole
  BY <1>2 DEF Whole
<1>4. schema' \in Nat
  BY <1>1, <1>2 DEF TypeOK
<1>5. since' \in 0..Keep /\ before' \in Nat
  BY <1>2, DeployAssumption DEF TypeOK
<1>6. bare' \in BOOLEAN
  BY <1>2 DEF TypeOK
<1> QED
  BY <1>3, <1>4, <1>5, <1>6

LEMMA SnapshotKeepsTypes ==
  ASSUME TypeOK, Snapshot
  PROVE  snaps' \in Seq(Nat \cup {Torn}) /\ since' \in 0..Keep
<1> DEFINE S == Nat \cup {Torn}
<1>1. <<schema>> \o snaps \in Seq(S)
  BY DEF TypeOK
<1>2. Newest(Keep, <<schema>> \o snaps) \in Seq(S)
  BY <1>1, NewestKeeps, DeployAssumption
<1> QED
  BY <1>2, DeployAssumption DEF TypeOK, Snapshot, Counted
-----------------------------------------------------------------------------
(***************************************************************************)
(* The steps that touch the backups.                                       *)
(***************************************************************************)
LEMMA CopyInv == IInv /\ CopyDest => IInv'
<1> SUFFICES ASSUME IInv, CopyDest PROVE IInv'
  OBVIOUS
<1>1. baks' \in Seq(Bak) /\ \A i \in 1..Len(baks') : baks'[i].mine => baks'[i].rel = was
  <2>1. CASE dest = None
    BY <2>1 DEF IInv, TypeOK, CopyDest, OwnBackup, Bak
  <2>2. CASE dest # None
    <3>1. PICK new \in Bak : new = [rel |-> dest, age |-> "same", mine |-> TRUE]
      BY DEF IInv, TypeOK, Bak
    <3>2. PICK k \in 0..Len(baks) :
            baks' = SubSeq(baks, 1, k) \o <<new>> \o SubSeq(baks, k + 1, Len(baks))
      BY <2>2, <3>1 DEF CopyDest, BackUp
    <3>3. baks \in Seq(Bak)
      BY DEF IInv, TypeOK, Bak
    <3>4. <<new>> \in Seq(Bak) /\ Held(<<new>>) = {new}
      BY DEF Held
    <3>5. /\ SubSeq(baks, 1, k) \in Seq(Bak) /\ SubSeq(baks, k + 1, Len(baks)) \in Seq(Bak)
          /\ Held(SubSeq(baks, 1, k)) \subseteq Held(baks)
          /\ Held(SubSeq(baks, k + 1, Len(baks))) \subseteq Held(baks)
      BY <3>3, PartHolds
    <3>6. /\ SubSeq(baks, 1, k) \o <<new>> \in Seq(Bak)
          /\ Held(SubSeq(baks, 1, k) \o <<new>>) \subseteq Held(baks) \cup {new}
      <4>1. /\ SubSeq(baks, 1, k) \o <<new>> \in Seq(Bak)
            /\ Held(SubSeq(baks, 1, k) \o <<new>>) \subseteq Held(SubSeq(baks, 1, k)) \cup Held(<<new>>)
        BY <3>4, <3>5, ConcatHolds, Zenon
      <4> QED
        BY <3>4, <3>5, <4>1, Zenon
    <3>7. baks' \in Seq(Bak) /\ Held(baks') \subseteq Held(baks) \cup {new}
      <4>1. /\ baks' \in Seq(Bak)
            /\ Held(baks') \subseteq Held(SubSeq(baks, 1, k) \o <<new>>) \cup Held(SubSeq(baks, k + 1, Len(baks)))
        BY <3>2, <3>5, <3>6, ConcatHolds, Zenon
      <4> QED
        BY <3>5, <3>6, <4>1, Zenon
    <3>8. was = dest /\ \A j \in 1..Len(baks) : baks[j].mine => baks[j].rel = was
      BY DEF IInv, OwnBackup, CopyDest
    <3> QED
      BY <3>1, <3>7, <3>8 DEF Held
  <2> QED
    BY <2>1, <2>2
<1>2. TypeOK'
  BY <1>1 DEF IInv, TypeOK, CopyDest, ghosts, site, env, Under, Bak
<1> QED
  BY <1>1, <1>2 DEF IInv, OwnBackup, InPlace, Settled, CopyDest, ghosts, site, env, Under

LEMMA PruneInv == IInv /\ PruneBackups => IInv'
<1> SUFFICES ASSUME IInv, PruneBackups PROVE IInv'
  OBVIOUS
<1>0. baks \in Seq(Bak)
  BY DEF IInv, TypeOK, Bak
<1>1. CASE pc' = "install" /\ was' = was /\ baks' = Prune(baks)
  <2>1. /\ baks' \in Seq(Bak) /\ Len(baks') <= Len(baks)
        /\ \A i \in 1..Len(baks') : baks'[i] = baks[i]
    BY <1>0, <1>1, NewestKeeps, DeployAssumption DEF Prune
  <2>2. TypeOK'
    BY <1>1, <2>1 DEF IInv, TypeOK, PruneBackups, site, env, Under, Bak
  <2> QED
    BY <1>0, <1>1, <2>1, <2>2 DEF IInv, OwnBackup, InPlace, Settled, PruneBackups, site, env, Under
<1>2. CASE baks = <<>> /\ baks' = baks /\ ((pc' = "install" /\ was' = was) \/ End)
  <2>1. TypeOK'
    <3>1. /\ crowded' \in BOOLEAN /\ equipped' \in BOOLEAN /\ lost' \in BOOLEAN /\ bare' \in BOOLEAN
          /\ faults' \in Nat /\ stops' \in Nat
          /\ yanked' \in BOOLEAN /\ reworked' \in BOOLEAN /\ slipped' \in BOOLEAN
      BY <1>2 DEF IInv, TypeOK, PruneBackups, site, env
    <3> QED
      BY <1>2, <3>1 DEF IInv, TypeOK, PruneBackups, End, Under, Whole, Files, Bak
  <2> QED
    BY <1>2, <2>1 DEF IInv, OwnBackup, InPlace, Settled, PruneBackups, End, site, env, Under
<1> QED
  BY <1>1, <1>2 DEF PruneBackups

\* A step that puts a file at DEST and leaves the backups where they are.
LEMMA InstallKeeps ==
  ASSUME IInv, NEW d \in Files, Install(d)
  PROVE  /\ baks' \in Seq(Bak) /\ dest' = d
         /\ \A i \in 1..Len(baks') :
              baks'[i].mine => pc \in Under /\ baks'[i].rel = was
<1>0. baks \in Seq(Bak)
  BY DEF IInv, TypeOK, Bak
<1> QED
  BY <1>0, OlderKeeps DEF Install, IInv, OwnBackup

LEMMA InstallInv == IInv /\ InstallTarget => IInv'
<1> SUFFICES ASSUME IInv, InstallTarget PROVE IInv'
  OBVIOUS
<1>1. target \in Files
  BY DEF IInv, TypeOK, Files
<1>2. /\ baks' \in Seq(Bak) /\ dest' = target
      /\ \A i \in 1..Len(baks') : baks'[i].mine => baks'[i].rel = was
  BY <1>1, InstallKeeps DEF InstallTarget
<1>3. TypeOK'
  BY <1>1, <1>2 DEF IInv, TypeOK, InstallTarget, ghosts, site, env, Under, Bak
<1> QED
  BY <1>2, <1>3 DEF IInv, OwnBackup, InPlace, Settled, InstallTarget, ghosts, site, env, Under

LEMMA RollBackInv == IInv /\ RollBack => IInv'
<1> SUFFICES ASSUME IInv, RollBack PROVE IInv'
  OBVIOUS
<1>1. PICK i \in Mine : Install(baks[i].rel)
  BY DEF RollBack
<1>2. baks[i].rel = was /\ was \in Files
  BY DEF IInv, TypeOK, OwnBackup, Mine
<1>3. /\ baks' \in Seq(Bak) /\ dest' = was
      /\ \A j \in 1..Len(baks') : baks'[j].mine => baks'[j].rel = was
  BY <1>1, <1>2, InstallKeeps
<1>4. TypeOK'
  BY <1>2, <1>3 DEF IInv, TypeOK, RollBack, ghosts, site, env, Under, Bak
<1> QED
  BY <1>3, <1>4 DEF IInv, OwnBackup, InPlace, Settled, RollBack, ghosts, site, env, Under
-----------------------------------------------------------------------------
(***************************************************************************)
(* The end of a run, and its being stopped.                                *)
(***************************************************************************)
LEMMA RecordInv == IInv /\ Record => IInv'
<1> SUFFICES ASSUME IInv, Record PROVE IInv'
  OBVIOUS
<1>1. baks' \in Seq(Bak) /\ \A i \in 1..Len(baks') : ~ baks'[i].mine
  BY DisownKeeps DEF IInv, TypeOK, Record, Bak
<1>2. TypeOK'
  BY <1>1 DEF IInv, TypeOK, Record, End, site, env, Under, Bak, Files, Whole
<1> QED
  BY <1>1, <1>2 DEF IInv, OwnBackup, InPlace, Settled, Record, End, site, env, Under

LEMMA CannotInv == IInv /\ CannotRollBack => IInv'
<1> SUFFICES ASSUME IInv, CannotRollBack PROVE IInv'
  OBVIOUS
<1>1. \A i \in 1..Len(baks) : ~ baks[i].mine
  BY DEF IInv, TypeOK, CannotRollBack, Mine
<1>2. TypeOK'
  BY DEF IInv, TypeOK, CannotRollBack, End, box, site, env, Under, Files, Whole
<1> QED
  BY <1>1, <1>2 DEF IInv, OwnBackup, InPlace, Settled, CannotRollBack, End, box, site, env, Under

LEMMA RevertInv == IInv /\ Revert => IInv'
<1> SUFFICES ASSUME IInv, Revert PROVE IInv'
  OBVIOUS
<1>1. baks' \in Seq(Bak) /\ \A i \in 1..Len(baks') : ~ baks'[i].mine
  BY DisownKeeps DEF IInv, TypeOK, Revert, Bak
<1>2. running' \in Whole /\ schema' \in Nat /\ since' \in 0..Keep /\ before' \in Nat /\ bare' \in BOOLEAN
  BY StartKeepsTypes DEF IInv, TypeOK, Revert
<1>3. TypeOK'
  BY <1>1, <1>2 DEF IInv, TypeOK, Revert, End, site, env, Under, Bak, Files, Whole
<1> QED
  BY <1>1, <1>3 DEF IInv, OwnBackup, InPlace, Settled, Revert, End, site, env, Under

\* Wherever it is stopped, what it leaves is what the next run may find.
LEMMA CutInv ==
  ASSUME IInv, Cut,
         running' \in Whole, schema' \in Nat, since' \in 0..Keep, before' \in Nat, bare' \in BOOLEAN
  PROVE  IInv'
<1>0. baks \in Seq(Bak) /\ Older(baks) \in Seq(Bak)
  BY OlderKeeps DEF IInv, TypeOK, Bak
<1>1. baks' \in Seq(Bak) /\ \A i \in 1..Len(baks') : ~ baks'[i].mine
  <2>1. CASE baks' = Disown(baks) \/ baks' = Disown(Older(baks))
    BY <1>0, <2>1, DisownKeeps
  <2>2. CASE pc = "snapshot" /\ baks' = baks
    BY <1>0, <2>2 DEF IInv, OwnBackup, Under
  <2>3. CASE pc = "copy" /\ baks' = <<TornBak>> \o baks
    <3>1. TornBak \in Bak /\ ~ TornBak.mine
      BY DEF TornBak, Bak, Files
    <3>2. \A i \in 1..Len(baks) : ~ baks[i].mine
      BY <2>3 DEF IInv, OwnBackup, Under
    <3>3. /\ baks' \in Seq(Bak) /\ Len(baks') = Len(baks) + 1
          /\ \A i \in 1..Len(baks') : baks'[i] = IF i = 1 THEN TornBak ELSE baks[i - 1]
      BY <1>0, <2>3, <3>1
    <3>4. ASSUME NEW i \in 1..Len(baks') PROVE ~ baks'[i].mine
      <4>1. CASE i = 1
        BY <3>1, <3>3, <4>1
      <4>2. CASE i # 1
        <5>1. i - 1 \in 1..Len(baks) /\ baks'[i] = baks[i - 1]
          BY <1>0, <3>3, <4>2
        <5> QED
          BY <3>2, <5>1
      <4> QED
        BY <4>1, <4>2
    <3> QED
      BY <3>3, <3>4
  <2> QED
    BY <2>1, <2>2, <2>3 DEF Cut
<1>2. snaps' \in Seq(Nat \cup {Torn})
  <2>1. snaps' = snaps \/ snaps' = <<Torn>> \o snaps
    BY DEF Cut
  <2>2. <<Torn>> \in Seq(Nat \cup {Torn}) /\ snaps \in Seq(Nat \cup {Torn})
    BY DEF IInv, TypeOK
  <2> QED
    BY <2>1, <2>2, ConcatProperties
<1>3. dest' \in Files /\ record' \in Whole /\ was' \in Files
  BY DEF IInv, TypeOK, Cut, End, Files, Whole
<1>4. reworked' \in BOOLEAN
  BY DEF IInv, TypeOK, Cut
<1>5. TypeOK'
  BY <1>1, <1>2, <1>3, <1>4 DEF IInv, TypeOK, Cut, End, site, Bak, Under
<1>6. Settled'
  <2>1. record' = record \/ record' = None
    BY DEF Cut
  <2>2. ~ yanked => record' <= latest' /\ target' <= latest'
    BY <2>1 DEF IInv, TypeOK, Settled, Cut, Whole, Releases, None
  <2>3. ASSUME ~ yanked, record' # None, record' = latest', ~ reworked' PROVE FALSE
    BY <2>1, <2>3 DEF IInv, Settled, Cut
  <2> QED
    BY <2>2, <2>3 DEF Settled, Cut
<1> QED
  BY <1>1, <1>5, <1>6 DEF IInv, OwnBackup, InPlace, Cut, End

LEMMA StopInv == IInv /\ Stop => IInv'
<1> SUFFICES ASSUME IInv, Stop PROVE IInv'
  OBVIOUS
<1>1. since' \in 0..Keep
  BY DeployAssumption DEF IInv, TypeOK, Stop, Counted
<1> QED
  BY <1>1, CutInv DEF IInv, TypeOK, Stop

LEMMA RebootInv == IInv /\ Reboot => IInv'
<1> SUFFICES ASSUME IInv, Reboot PROVE IInv'
  OBVIOUS
<1>1. dest' \in Files
  BY DEF IInv, TypeOK, Reboot, Cut, Files
<1> QED
  BY <1>1, StartKeepsTypes, CutInv DEF IInv, Reboot
-----------------------------------------------------------------------------
(***************************************************************************)
(* The other steps.                                                        *)
(***************************************************************************)
LEMMA BeginInv == ASSUME NEW force \in BOOLEAN PROVE IInv /\ Begin(force) => IInv'
<1> SUFFICES ASSUME IInv, Begin(force) PROVE IInv'
  OBVIOUS
<1>1. TypeOK'
  BY DEF IInv, TypeOK, Begin, box, site, env, Under
<1>2. OwnBackup'
  BY DEF IInv, OwnBackup, Begin, box, Under
<1>3. Settled'
  BY DEF IInv, TypeOK, Settled, Begin, box, site, env, Whole, Releases
<1> QED
  BY <1>1, <1>2, <1>3 DEF IInv, InPlace, Begin

LEMMA TakeInv == IInv /\ TakeSnapshot => IInv'
<1> SUFFICES ASSUME IInv, TakeSnapshot PROVE IInv'
  OBVIOUS
<1>1. snaps' \in Seq(Nat \cup {Torn}) /\ since' \in 0..Keep /\ bare' \in BOOLEAN
  <2>1. CASE Snapshot /\ UNCHANGED bare
    BY <2>1, SnapshotKeepsTypes DEF IInv, TypeOK
  <2>2. CASE Warn
    BY <2>2 DEF IInv, TypeOK, Warn
  <2> QED
    BY <2>1, <2>2 DEF TakeSnapshot
<1>2. TypeOK'
  BY <1>1 DEF IInv, TypeOK, TakeSnapshot, site, env, Under
<1> QED
  BY <1>2 DEF IInv, OwnBackup, InPlace, Settled, TakeSnapshot, site, env, Under

LEMMA RestartInv == IInv /\ RestartService => IInv'
<1> SUFFICES ASSUME IInv, RestartService PROVE IInv'
  OBVIOUS
<1>1. running' \in Whole /\ schema' \in Nat /\ since' \in 0..Keep /\ before' \in Nat /\ bare' \in BOOLEAN
  BY StartKeepsTypes DEF IInv, TypeOK, RestartService
<1>2. TypeOK'
  BY <1>1 DEF IInv, TypeOK, RestartService, site, env, Under
<1> QED
  BY <1>2 DEF IInv, OwnBackup, InPlace, Settled, RestartService, site, env, Under

LEMMA CheckInv == IInv /\ HealthCheck => IInv'
<1> SUFFICES ASSUME IInv, HealthCheck PROVE IInv'
  OBVIOUS
<1>1. TypeOK'
  BY DEF IInv, TypeOK, HealthCheck, box, ghosts, site, Under
<1> QED
  BY <1>1 DEF IInv, OwnBackup, InPlace, Settled, HealthCheck, box, ghosts, Under

LEMMA PublishInv == IInv /\ Publish => IInv'
<1> SUFFICES ASSUME IInv, Publish PROVE IInv'
  OBVIOUS
<1>1. TypeOK'
  BY DeployAssumption DEF IInv, TypeOK, Publish, box, ghosts, site, env, Under, Whole, Releases, None
<1>2. Settled'
  BY DEF IInv, TypeOK, Settled, Publish, box, ghosts, site, env, Whole, Releases, None
<1> QED
  BY <1>1, <1>2 DEF IInv, OwnBackup, InPlace, Publish, box, ghosts

LEMMA WithdrawInv == IInv /\ Withdraw => IInv'
<1> SUFFICES ASSUME IInv, Withdraw PROVE IInv'
  OBVIOUS
<1>1. TypeOK'
  BY DeployAssumption DEF IInv, TypeOK, Withdraw, box, ghosts, site, Under, Whole, Releases, None
<1> QED
  BY <1>1 DEF IInv, OwnBackup, InPlace, Settled, Withdraw, box, ghosts

LEMMA RefitInv == IInv /\ Refit => IInv'
<1> SUFFICES ASSUME IInv, Refit PROVE IInv'
  OBVIOUS
<1>1. TypeOK'
  BY DEF IInv, TypeOK, Refit, box, ghosts
<1> QED
  BY <1>1 DEF IInv, OwnBackup, InPlace, Settled, Refit, box, ghosts

LEMMA NightlyInv == IInv /\ Nightly => IInv'
<1> SUFFICES ASSUME IInv, Nightly PROVE IInv'
  OBVIOUS
<1>1. snaps' \in Seq(Nat \cup {Torn}) /\ since' \in 0..Keep
  BY SnapshotKeepsTypes DEF IInv, Nightly
<1>2. TypeOK'
  BY <1>1 DEF IInv, TypeOK, Nightly, site, env
<1> QED
  BY <1>2 DEF IInv, OwnBackup, InPlace, Settled, Nightly, site, env

LEMMA RespawnInv == IInv /\ Respawn => IInv'
<1> SUFFICES ASSUME IInv, Respawn PROVE IInv'
  OBVIOUS
<1>1. running' \in Whole /\ schema' \in Nat /\ since' \in 0..Keep /\ before' \in Nat /\ bare' \in BOOLEAN
  BY StartKeepsTypes DEF IInv, TypeOK, Respawn
<1>2. TypeOK'
  BY <1>1 DEF IInv, TypeOK, Respawn, site, env
<1> QED
  BY <1>2 DEF IInv, OwnBackup, InPlace, Settled, Respawn, site, env
-----------------------------------------------------------------------------
\* The invariant holds in every reachable state.
THEOREM Invariant == Spec => []IInv
<1>1. ASSUME IInv, [Next]_vars PROVE IInv'
  <2>1. CASE UNCHANGED vars
    BY <1>1, <2>1 DEF IInv, TypeOK, OwnBackup, InPlace, Settled, vars, box, ghosts, site, env
  <2>2. CASE Update
    BY <1>1, <2>2, BeginInv, TakeInv, CopyInv, PruneInv, InstallInv, RestartInv, CheckInv,
       RecordInv, RollBackInv, CannotInv, RevertInv DEF Update
  <2>3. CASE Begin(TRUE)
    BY <1>1, <2>3, BeginInv
  <2> QED
    BY <1>1, <2>1, <2>2, <2>3, PublishInv, WithdrawInv, RefitInv, NightlyInv, RespawnInv, StopInv, RebootInv
       DEF Next
<1> QED
  BY <1>1, InitInv, PTL DEF Spec

(***************************************************************************)
(* A run that finds the latest release recorded, and so does nothing, has  *)
(* that release in place: of however many releases, wherever earlier runs  *)
(* were stopped, and whatever the prune left of their backups.             *)
(***************************************************************************)
THEOREM NothingIsSkipped == Spec => []UpToDateIsTrue
<1>1. IInv => UpToDateIsTrue
  BY DEF IInv, Settled, UpToDateIsTrue
<1> QED
  BY <1>1, Invariant, PTL
-----------------------------------------------------------------------------
(***************************************************************************)
(* The backups: the order of their times, and where the run's own is.      *)
(***************************************************************************)
\* k of the list's backups come first and are not older than the binary.
YoungIn(list, k) ==
  k \in 0..Len(list) /\ \A i \in 1..Len(list) : i <= k <=> list[i].age # "older"

Bound == stops + (IF pc \in {"prune", "install"} THEN 1 ELSE 0)

LEMMA InOrderIs == InOrder <=> \E k \in Nat : YoungIn(baks, k) /\ k <= Bound
<1>1. Len(baks) \in Nat => 0..Len(baks) \subseteq Nat
  OBVIOUS
<1>2. InOrder <=> \E k \in 0..Len(baks) : YoungIn(baks, k) /\ k <= Bound
  BY DEF InOrder, Young, YoungIn, Bound
<1>3. ASSUME NEW k \in 0..Len(baks) PROVE k \in Nat
  OBVIOUS
<1> QED
  BY <1>2, <1>3 DEF YoungIn

LEMMA OlderAges ==
  ASSUME NEW list \in Seq(Bak)
  PROVE  YoungIn(Older(list), 0)
<1>0. \A i \in 1..Len(list) : list[i] \in Bak
  OBVIOUS
<1>2. /\ Older(list) = [i \in 1..Len(list) |-> [list[i] EXCEPT !.age = "older"]]
      /\ Len(list) \in Nat /\ Len(Older(list)) = Len(list)
  BY OlderKeeps DEF Older
<1>3. \A i \in 1..Len(list) : Older(list)[i].age = "older"
  BY <1>0, <1>2 DEF Bak
<1> QED
  BY <1>2, <1>3 DEF YoungIn

LEMMA DisownAges ==
  ASSUME NEW list \in Seq(Bak), NEW k, YoungIn(list, k)
  PROVE  YoungIn(Disown(list), k)
<1>0. \A i \in 1..Len(list) : list[i] \in Bak
  OBVIOUS
<1>1. \A i \in 1..Len(list) : [list[i] EXCEPT !.mine = FALSE] \in Bak
  BY <1>0 DEF Bak
<1>2. /\ Disown(list) = [i \in 1..Len(list) |-> [list[i] EXCEPT !.mine = FALSE]]
      /\ Len(list) \in Nat
  BY DEF Disown
<1>3. Disown(list) \in Seq(Bak) /\ Len(Disown(list)) = Len(list)
  BY <1>1, <1>2
<1>4. \A i \in 1..Len(list) : Disown(list)[i].age = list[i].age
  BY <1>0, <1>2 DEF Bak
<1> QED
  BY <1>3, <1>4 DEF YoungIn

\* What a copy behind the first k of a list leaves: the new one at k + 1.
LEMMA BackUpAges ==
  ASSUME NEW list \in Seq(Bak), NEW k, YoungIn(list, k), NEW new \in Bak, new.age # "older"
  PROVE  LET more == SubSeq(list, 1, k) \o <<new>> \o SubSeq(list, k + 1, Len(list)) IN
         YoungIn(more, k + 1) /\ k + 1 \in 1..Len(more) /\ more[k + 1] = new
<1>0. k \in Nat /\ Len(list) \in Nat /\ k <= Len(list) /\ k \in 0..Len(list)
  BY DEF YoungIn
<1>1. PICK a : a = SubSeq(list, 1, k)
  OBVIOUS
<1>2. PICK c : c = SubSeq(list, k + 1, Len(list))
  OBVIOUS
<1>3. a \in Seq(Bak) /\ Len(a) = k /\ \A i \in 1..k : a[i] = list[i]
  BY <1>0, <1>1, SubSeqProperties
<1>4. /\ c \in Seq(Bak) /\ Len(c) = Len(list) - k
      /\ \A i \in 1..Len(list) - k : c[i] = list[k + i]
  BY <1>0, <1>2
<1>5. PICK b : b = a \o <<new>>
  OBVIOUS
<1>6. b \in Seq(Bak) /\ Len(b) = k + 1 /\ b[k + 1] = new /\ \A i \in 1..k : b[i] = a[i]
  <2>1. a \in Seq(Bak) /\ Len(a) = k
    BY <1>3
  <2>2. /\ a \o <<new>> \in Seq(Bak) /\ Len(a \o <<new>>) = Len(a) + 1
        /\ (a \o <<new>>)[Len(a) + 1] = new
        /\ \A i \in 1..Len(a) : (a \o <<new>>)[i] = a[i]
    BY <2>1
  <2> QED
    BY <1>5, <2>1, <2>2, Zenon
<1>7. PICK more : more = b \o c
  OBVIOUS
<1>8. /\ Len(more) = Len(b) + Len(c)
       /\ \A i \in 1..Len(b) + Len(c) : more[i] = IF i <= Len(b) THEN b[i] ELSE c[i - Len(b)]
  <2>1. b \in Seq(Bak) /\ c \in Seq(Bak)
    BY <1>4, <1>6
  <2>2. /\ Len(b \o c) = Len(b) + Len(c)
        /\ \A i \in 1..Len(b) + Len(c) : (b \o c)[i] = IF i <= Len(b) THEN b[i] ELSE c[i - Len(b)]
    BY <2>1, ConcatProperties
  <2> QED
    BY <1>7, <2>2, Zenon
<1>9. /\ Len(more) = k + 1 + Len(c) /\ more[k + 1] = new
      /\ \A i \in 1..k : more[i] = a[i]
      /\ \A i \in 1..Len(c) : more[k + 1 + i] = c[i]
  <2>1. /\ Len(b) = k + 1 /\ b[k + 1] = new /\ \A i \in 1..k : b[i] = a[i]
        /\ Len(more) = Len(b) + Len(c)
        /\ \A i \in 1..Len(b) + Len(c) : more[i] = IF i <= Len(b) THEN b[i] ELSE c[i - Len(b)]
    BY <1>6, <1>8, Zenon
  <2>2. Len(c) \in Nat
    BY <1>0, <1>4
  <2>3. \A i \in 1..k + 1 : more[i] = b[i]
    BY <1>0, <2>1, <2>2
  <2>4. ASSUME NEW i \in 1..Len(c) PROVE more[k + 1 + i] = c[i]
    <3>1. k + 1 + i \in 1..Len(b) + Len(c) /\ ~ (k + 1 + i <= Len(b)) /\ (k + 1 + i) - Len(b) = i
      BY <1>0, <2>1, <2>2
    <3> QED
      BY <2>1, <3>1
  <2> QED
    BY <1>0, <2>1, <2>2, <2>3, <2>4
<1>10. ASSUME NEW i \in 1..Len(more) PROVE i <= k + 1 <=> more[i].age # "older"
  <2>1. CASE i <= k
    <3>1. i \in 1..k /\ i \in 1..Len(list)
      BY <1>0, <2>1
    <3>2. more[i] = list[i]
      BY <1>3, <1>9, <3>1
    <3> QED
      BY <1>0, <2>1, <3>1, <3>2 DEF YoungIn
  <2>2. CASE i = k + 1
    BY <1>0, <1>9, <2>2
  <2>3. CASE i > k + 1
    <3>1. PICK j : j = i - (k + 1)
      OBVIOUS
    <3>2. j \in 1..Len(c) /\ k + 1 + j = i /\ k + j \in 1..Len(list) /\ ~ (k + j <= k)
      BY <1>0, <1>4, <1>9, <2>3, <3>1
    <3>3. more[i] = list[k + j]
      BY <1>4, <1>9, <3>2
    <3> QED
      BY <1>0, <2>3, <3>2, <3>3 DEF YoungIn
  <2> QED
    BY <1>0, <1>4, <1>9, <2>1, <2>2, <2>3
<1>11. YoungIn(more, k + 1) /\ k + 1 \in 1..Len(more) /\ more[k + 1] = new
  BY <1>0, <1>4, <1>9, <1>10 DEF YoungIn
<1> QED
  BY <1>1, <1>2, <1>5, <1>7, <1>11, Zenon

\* The order fixes how many are first.
LEMMA YoungOnce ==
  ASSUME NEW list \in Seq(Bak), NEW j, NEW k, YoungIn(list, j), YoungIn(list, k)
  PROVE  j = k
<1>1. j \in Nat /\ k \in Nat /\ j <= Len(list) /\ k <= Len(list) /\ Len(list) \in Nat
  BY DEF YoungIn
<1>2. CASE j < k
  <2>1. k \in 1..Len(list) /\ ~ (k <= j)
    BY <1>1, <1>2
  <2> QED
    BY <1>1, <2>1 DEF YoungIn
<1>3. CASE k < j
  <2>1. j \in 1..Len(list) /\ ~ (j <= k)
    BY <1>1, <1>3
  <2> QED
    BY <1>1, <2>1 DEF YoungIn
<1> QED
  BY <1>1, <1>2, <1>3

Kept == InOrder /\ OwnKept

\* A step that leaves the backups, and the run where it does not come to need its own.
LEMMA BaksStill ==
  ASSUME TypeOK, Kept, UNCHANGED <<baks, stops>>,
         pc \in {"prune", "install"} => pc' = pc,
         pc' \in Under => was' = was /\ (pc' = pc \/ (pc \in Under \ {"prune"} /\ pc' # "prune"))
  PROVE  Kept'
<1>1. PICK k \in Nat : YoungIn(baks, k) /\ k <= Bound
  BY InOrderIs DEF Kept
<1>2. YoungIn(baks, k)' /\ k <= Bound'
  BY <1>1 DEF Bound, TypeOK
<1>3. InOrder'
  BY <1>2 DEF InOrder, Young, YoungIn, Bound
<1>4. OwnKept'
  BY DEF Kept, OwnKept, Mine, Under
<1> QED
  BY <1>3, <1>4 DEF Kept

LEMMA InitKept == Init => Kept
<1> SUFFICES ASSUME Init PROVE Kept
  OBVIOUS
<1>1. Len(baks) = 0 /\ 0 \in 0..Len(baks) /\ \A i \in 1..Len(baks) : FALSE
  BY DEF Init
<1>2. InOrder
  BY <1>1 DEF InOrder, Young, Init
<1> QED
  BY <1>2 DEF Kept, OwnKept, Init, Under

LEMMA CopyKept == IInv /\ Kept /\ CopyDest => Kept'
<1> SUFFICES ASSUME IInv, Kept, CopyDest PROVE Kept'
  OBVIOUS
<1>0. /\ baks \in Seq(Bak) /\ stops \in Nat /\ stops' = stops /\ was' = was /\ was = dest
      /\ pc = "copy" /\ pc' = "prune"
  BY DEF IInv, TypeOK, Bak, CopyDest, OwnBackup, ghosts, site, env
<1>1. PICK k \in Nat : YoungIn(baks, k) /\ k <= Bound
  BY InOrderIs DEF Kept
<1>2. Bound = stops /\ Bound' = stops + 1
  BY <1>0 DEF Bound
<1>3. CASE dest = None
  <2>1. YoungIn(baks, k)' /\ k <= Bound'
    BY <1>0, <1>1, <1>2, <1>3 DEF CopyDest
  <2>2. InOrder'
    BY <2>1 DEF InOrder, Young, YoungIn, Bound
  <2> QED
    BY <1>0, <1>3, <2>2 DEF Kept, OwnKept
<1>4. CASE dest # None
  <2>1. PICK new \in Bak : new = [rel |-> dest, age |-> "same", mine |-> TRUE]
    BY DEF IInv, TypeOK, Bak
  <2>2. PICK j \in 0..Len(baks) :
          /\ \A i \in 1..Len(baks) : i <= j <=> baks[i].age # "older"
          /\ baks' = SubSeq(baks, 1, j) \o <<new>> \o SubSeq(baks, j + 1, Len(baks))
    BY <1>4, <2>1 DEF CopyDest, BackUp
  <2>3. YoungIn(baks, j) /\ j = k
    BY <1>0, <1>1, <2>2, YoungOnce DEF YoungIn
  <2>4. new.age # "older" /\ new.mine
    BY <2>1
  <2>5. YoungIn(baks', k + 1) /\ k + 1 \in 1..Len(baks') /\ baks'[k + 1] = new
    BY <1>0, <2>2, <2>3, <2>4, BackUpAges, Zenon
  <2>6. k + 1 <= stops + 1
    BY <1>0, <1>1, <1>2
  <2>7. InOrder'
    BY <1>0, <2>5, <2>6 DEF InOrder, Young, YoungIn
  <2>8. \E i \in Mine' : i <= stops + 1
    <3>1. baks' \in Seq(Bak)
      BY CopyInv DEF IInv, TypeOK, Bak
    <3> QED
      BY <2>4, <2>5, <2>6, <3>1 DEF Mine
  <2> QED
    BY <1>0, <2>7, <2>8 DEF Kept, OwnKept
<1> QED
  BY <1>3, <1>4

LEMMA PruneKept == IInv /\ Kept /\ PruneBackups => Kept'
<1> SUFFICES ASSUME IInv, Kept, PruneBackups PROVE Kept'
  OBVIOUS
<1>0. /\ baks \in Seq(Bak) /\ baks' \in Seq(Bak) /\ stops \in Nat /\ stops' = stops
      /\ pc = "prune" /\ KeepBaks \in Nat /\ Len(baks) \in Nat
  BY PruneInv, DeployAssumption DEF IInv, TypeOK, Bak, PruneBackups, site, env
<1>1. PICK k \in Nat : YoungIn(baks, k) /\ k <= Bound
  BY InOrderIs DEF Kept
<1>2. Bound = stops + 1
  BY <1>0 DEF Bound
<1>3. CASE pc' = "install" /\ was' = was /\ baks' = Prune(baks)
  <2>1. \A i \in 1..Len(baks') : baks'[i] = baks[i]
    BY <1>0, <1>3, NewestKeeps DEF Prune
  <2>2. \/ Len(baks) <= KeepBaks /\ Len(baks') = Len(baks)
        \/ KeepBaks < Len(baks) /\ Len(baks') = KeepBaks
    <3>1. CASE Len(baks) <= KeepBaks
      BY <1>3, <3>1 DEF Prune, Newest
    <3>2. CASE ~ (Len(baks) <= KeepBaks)
      <4>1. baks' = SubSeq(baks, 1, KeepBaks) /\ KeepBaks \in 0..Len(baks)
        BY <1>0, <1>3, <3>2 DEF Prune, Newest
      <4> QED
        BY <1>0, <3>2, <4>1, SubSeqProperties
    <3> QED
      BY <3>1, <3>2
  <2>3. InOrder'
    <3>1. CASE k <= Len(baks')
      <4>1. YoungIn(baks', k)
        BY <1>0, <1>1, <2>1, <2>2, <3>1 DEF YoungIn
      <4> QED
        BY <1>0, <1>1, <1>2, <1>3, <4>1 DEF InOrder, Young, YoungIn
    <3>2. CASE ~ (k <= Len(baks'))
      <4>0. Len(baks') \in Nat /\ Len(baks') <= stops + 1 /\ Len(baks') \in 0..Len(baks')
        BY <1>0, <1>1, <1>2, <3>2
      <4>1. ASSUME NEW i \in 1..Len(baks') PROVE i <= Len(baks') /\ baks'[i].age # "older"
        <5>1. i \in 1..Len(baks) /\ i <= k /\ i <= Len(baks')
          BY <1>0, <1>1, <2>2, <3>2
        <5> QED
          BY <1>1, <2>1, <5>1 DEF YoungIn
      <4> QED
        BY <1>0, <1>3, <4>0, <4>1 DEF InOrder, Young
    <3> QED
      BY <3>1, <3>2
  <2>4. ASSUME was # None, stops < KeepBaks PROVE Mine' # {}
    <3>1. PICK i \in Mine : i <= stops + 1
      BY <1>0, <2>4 DEF Kept, OwnKept
    <3>2. i \in 1..Len(baks) /\ baks[i].mine /\ i \in 1..Len(baks')
      BY <1>0, <2>2, <2>4, <3>1 DEF Mine
    <3> QED
      BY <1>0, <2>1, <3>2 DEF Mine
  <2>5. OwnKept'
    BY <1>0, <1>3, <2>4 DEF OwnKept
  <2> QED
    BY <2>3, <2>5 DEF Kept
<1>4. CASE baks = <<>> /\ baks' = baks /\ ((pc' = "install" /\ was' = was) \/ End)
  <2>1. Len(baks') = 0 /\ 0 \in 0..Len(baks') /\ (\A i \in 1..Len(baks') : FALSE) /\ Mine = {}
    BY <1>4 DEF Mine
  <2>2. InOrder'
    BY <1>0, <2>1 DEF InOrder, Young
  <2>3. was = None \/ ~ (stops < KeepBaks)
    BY <1>0, <2>1 DEF Kept, OwnKept
  <2> QED
    BY <1>0, <1>4, <2>2, <2>3 DEF Kept, OwnKept, End, Under
<1> QED
  BY <1>3, <1>4 DEF PruneBackups

\* A file put at DEST makes every backup older, and keeps the run's own.
LEMMA InstallKept ==
  ASSUME IInv, Kept, NEW d \in Files, Install(d), UNCHANGED <<stops, was>>,
         pc \in Under \ {"prune"}, pc' # "prune"
  PROVE  Kept'
<1>0. baks \in Seq(Bak) /\ stops \in Nat /\ baks' = Older(baks)
  BY DEF IInv, TypeOK, Bak, Install
<1>1. YoungIn(baks', 0)
  BY <1>0, OlderAges
<1>2. InOrder'
  BY <1>0, <1>1 DEF InOrder, Young, YoungIn
<1>3. /\ baks' \in Seq(Bak) /\ Len(baks') = Len(baks)
      /\ \A i \in 1..Len(baks) : baks'[i].mine = baks[i].mine
  BY <1>0, OlderKeeps
<1>4. Mine' = Mine
  BY <1>0, <1>3 DEF Mine
<1>5. OwnKept'
  BY <1>4 DEF Kept, OwnKept
<1> QED
  BY <1>2, <1>5 DEF Kept

\* A run that ends by itself with its backups behind it.
LEMMA DisownKept ==
  ASSUME IInv, Kept, baks' = Disown(baks), stops' = stops, pc' = "idle",
         pc \notin {"prune", "install"}
  PROVE  Kept'
<1>0. baks \in Seq(Bak) /\ stops \in Nat
  BY DEF IInv, TypeOK, Bak
<1>1. PICK k \in Nat : YoungIn(baks, k) /\ k <= stops
  BY <1>0, InOrderIs DEF Kept, Bound
<1>2. YoungIn(baks', k)
  BY <1>0, <1>1, DisownAges
<1>3. InOrder'
  BY <1>0, <1>1, <1>2 DEF InOrder, Young, YoungIn
<1> QED
  BY <1>3 DEF Kept, OwnKept, Under

LEMMA CutKept == IInv /\ Kept /\ Cut => Kept'
<1> SUFFICES ASSUME IInv, Kept, Cut PROVE Kept'
  OBVIOUS
<1>0. baks \in Seq(Bak) /\ stops \in Nat /\ stops' = stops + 1 /\ pc' = "idle"
  BY DEF IInv, TypeOK, Bak, Cut, End
<1>1. PICK k \in Nat : YoungIn(baks, k) /\ k <= Bound
  BY InOrderIs DEF Kept
<1>2. k <= stops + 1 /\ (pc \notin {"prune", "install"} => k <= stops)
  BY <1>0, <1>1 DEF Bound
<1>3. \E j \in Nat : YoungIn(baks', j) /\ j <= stops + 1
  <2>1. CASE baks' = Disown(baks)
    BY <1>0, <1>1, <1>2, <2>1, DisownAges
  <2>2. CASE baks' = Disown(Older(baks))
    <3>1. YoungIn(Disown(Older(baks)), 0)
      BY <1>0, OlderAges, OlderKeeps, DisownAges
    <3> QED
      BY <1>0, <2>2, <3>1
  <2>3. CASE baks' = baks
    BY <1>1, <1>2, <2>3
  <2>4. CASE pc = "copy" /\ baks' = <<TornBak>> \o baks
    <3>1. TornBak \in Bak /\ TornBak.age # "older"
      BY DEF TornBak, Bak, Files
    <3>2. /\ Len(baks') = Len(baks) + 1 /\ Len(baks) \in Nat
          /\ \A i \in 1..Len(baks') : baks'[i] = IF i = 1 THEN TornBak ELSE baks[i - 1]
      BY <1>0, <2>4, <3>1
    <3>3. ASSUME NEW i \in 1..Len(baks') PROVE i <= k + 1 <=> baks'[i].age # "older"
      <4>1. CASE i = 1
        BY <3>1, <3>2, <4>1
      <4>2. CASE i # 1
        <5>1. i - 1 \in 1..Len(baks) /\ baks'[i] = baks[i - 1] /\ (i <= k + 1 <=> i - 1 <= k)
          BY <3>2, <4>2
        <5> QED
          BY <1>1, <5>1 DEF YoungIn
      <4> QED
        BY <4>1, <4>2
    <3>4. k <= stops /\ k + 1 <= stops + 1 /\ k + 1 \in 0..Len(baks')
      <4>1. k <= Len(baks)
        BY <1>0, <1>1 DEF YoungIn
      <4>2. k <= stops
        BY <1>2, <2>4
      <4> QED
        BY <1>0, <3>2, <4>1, <4>2
    <3>5. YoungIn(baks', k + 1)
      BY <3>3, <3>4 DEF YoungIn
    <3> QED
      BY <3>4, <3>5
  <2> QED
    BY <2>1, <2>2, <2>3, <2>4 DEF Cut
<1>4. InOrder'
  BY <1>0, <1>3 DEF InOrder, Young, YoungIn
<1> QED
  BY <1>0, <1>4 DEF Kept, OwnKept, Under

LEMMA KeptStep == IInv /\ Kept /\ [Next]_vars => Kept'
<1> SUFFICES ASSUME IInv, Kept, [Next]_vars PROVE Kept'
  OBVIOUS
<1>0. TypeOK
  BY DEF IInv
<1>1. CASE UNCHANGED vars
  BY <1>0, <1>1, BaksStill DEF vars, box, ghosts, site, env
<1>2. ASSUME NEW force \in BOOLEAN, Begin(force) PROVE Kept'
  BY <1>0, <1>2, BaksStill DEF Begin, box, site, env, Under
<1>3. CASE TakeSnapshot
  BY <1>0, <1>3, BaksStill DEF TakeSnapshot, site, env, Under
<1>4. CASE InstallTarget
  <2>1. target \in Files
    BY <1>0 DEF TypeOK, Files
  <2> QED
    BY <1>4, <2>1, InstallKept DEF InstallTarget, ghosts, site, env, Under
<1>5. CASE RestartService
  BY <1>0, <1>5, BaksStill DEF RestartService, site, env, Under
<1>6. CASE HealthCheck
  BY <1>0, <1>6, BaksStill DEF HealthCheck, box, ghosts, Under
<1>7. CASE Record
  BY <1>7, DisownKept DEF Record, End, site, env
<1>8. CASE RollBack
  <2>1. PICK i \in Mine : Install(baks[i].rel)
    BY <1>8 DEF RollBack
  <2>2. baks[i].rel = was /\ was \in Files
    BY <2>1 DEF IInv, TypeOK, OwnBackup, Mine
  <2> QED
    BY <1>8, <2>1, <2>2, InstallKept DEF RollBack, ghosts, site, env, Under
<1>9. CASE CannotRollBack
  BY <1>0, <1>9, BaksStill DEF CannotRollBack, End, box, site, env, Under
<1>10. CASE Revert
  BY <1>10, DisownKept DEF Revert, End, site, env
<1>11. CASE Publish \/ Withdraw \/ Refit
  BY <1>0, <1>11, BaksStill DEF Publish, Withdraw, Refit, box, ghosts, site, env
<1>12. CASE Nightly
  BY <1>0, <1>12, BaksStill DEF Nightly, site, env
<1>13. CASE Respawn
  BY <1>0, <1>13, BaksStill DEF Respawn
<1>14. CASE Stop \/ Reboot
  BY <1>14, CutKept DEF Stop, Reboot
<1>15. CASE Update
  BY <1>2, <1>3, <1>4, <1>5, <1>6, <1>7, <1>8, <1>9, <1>10, <1>15, CopyKept, PruneKept DEF Update
<1> QED
  BY <1>1, <1>2, <1>11, <1>12, <1>13, <1>14, <1>15 DEF Next
-----------------------------------------------------------------------------
(***************************************************************************)
(* What serves, and what the snapshots cover.                              *)
(***************************************************************************)
LEMMA SchemaGrows ==
  /\ \A r \in Releases : Schema[r] \in Nat \ {0}
  /\ \A r, s \in Releases : r <= s => Schema[r] <= Schema[s]
  /\ Torn \notin Releases /\ None \notin Releases /\ None # Torn
BY DeployAssumption DEF Releases, Torn, None

\* What a start of the file d does.
LEMMA StartDoes ==
  ASSUME TypeOK, NEW d \in Files, Start(d)
  PROVE  /\ running' # None => running' = d /\ d \in Releases \ Broken
         /\ \/ schema' = schema /\ since' = since /\ before' = before /\ bare' = bare
            \/ /\ d \in Releases /\ schema < Schema[d] /\ schema' = Schema[d]
               /\ since' = 0 /\ before' = schema /\ bare' = (bare /\ since = 0)
         /\ d \in Releases \ Broken => running' = d \/ schema' > Schema[d]
<1>1. PICK up \in {d, None}, s \in {schema} \cup (IF d \in Releases THEN {Schema[d]} ELSE {}) :
        /\ running' = up /\ schema' = s
        /\ d \notin Releases => up = None
        /\ d \in Releases /\ Schema[d] < schema => up = None /\ s = schema
        /\ d \in Releases /\ Schema[d] >= schema /\ d \notin Broken => up = d /\ s = Schema[d]
        /\ d \in Broken => up = None
        /\ IF s = schema THEN UNCHANGED <<since, before, bare>>
           ELSE since' = 0 /\ before' = schema /\ bare' = (bare /\ since = 0)
  BY DEF Start
<1>2. schema \in Nat /\ (d \in Releases => Schema[d] \in Nat)
  BY SchemaGrows DEF TypeOK
<1>3. running' # None => running' = d /\ d \in Releases \ Broken
  BY <1>1
<1>4. s = schema \/ (d \in Releases /\ s = Schema[d] /\ schema < Schema[d])
  BY <1>1, <1>2
<1>5. d \in Releases \ Broken => running' = d \/ schema' > Schema[d]
  BY <1>1, <1>2
<1> QED
  BY <1>1, <1>3, <1>4, <1>5

\* What a snapshot does: the one taken is first, and the others move back by one.
LEMMA SnapshotDoes ==
  ASSUME TypeOK, Snapshot
  PROVE  \/ schema = 0 /\ snaps' = snaps /\ since' = since
         \/ /\ schema # 0 /\ since' > 0 /\ since' = Counted
            /\ Len(snaps') > 0 /\ snaps'[1] = schema
            /\ \A i \in 1..Len(snaps) : i < Keep => i + 1 <= Len(snaps') /\ snaps'[i + 1] = snaps[i]
<1> DEFINE S == Nat \cup {Torn}
<1>0. snaps \in Seq(S) /\ schema \in S /\ Keep \in Nat /\ Keep > 0 /\ since \in Nat /\ Len(snaps) \in Nat
  BY DeployAssumption DEF TypeOK
<1> HIDE DEF S
<1>1. CASE schema = 0
  BY <1>1 DEF Snapshot
<1>2. CASE schema # 0
  <2>1. PICK all : all = <<schema>> \o snaps
    OBVIOUS
  <2>2. /\ all \in Seq(S) /\ Len(all) = Len(snaps) + 1 /\ all[1] = schema
        /\ \A i \in 1..Len(snaps) : all[i + 1] = snaps[i]
    BY <1>0, <2>1
  <2>3. snaps' = Newest(Keep, all) /\ since' = Counted
    BY <1>2, <2>1 DEF Snapshot
  <2>4. /\ snaps' \in Seq(S) /\ \A i \in 1..Len(snaps') : snaps'[i] = all[i]
    BY <1>0, <2>2, <2>3, NewestKeeps
  <2>5. Len(snaps') = IF Len(all) <= Keep THEN Len(all) ELSE Keep
    <3>1. CASE Len(all) <= Keep
      BY <2>3, <3>1 DEF Newest
    <3>2. CASE ~ (Len(all) <= Keep)
      <4>1. snaps' = SubSeq(all, 1, Keep) /\ Keep \in 0..Len(all)
        BY <1>0, <2>2, <2>3, <3>2 DEF Newest
      <4> QED
        BY <1>0, <2>2, <3>2, <4>1, SubSeqProperties
    <3> QED
      BY <3>1, <3>2
  <2>6. Len(snaps') > 0 /\ snaps'[1] = schema
    BY <1>0, <2>2, <2>4, <2>5
  <2>7. ASSUME NEW i \in 1..Len(snaps), i < Keep PROVE i + 1 <= Len(snaps') /\ snaps'[i + 1] = snaps[i]
    <3>1. i + 1 \in 1..Len(snaps')
      BY <1>0, <2>2, <2>5, <2>7
    <3> QED
      BY <2>2, <2>4, <3>1
  <2>8. since' > 0
    BY <1>0, <2>3 DEF Counted
  <2> QED
    BY <1>2, <2>3, <2>6, <2>7, <2>8
<1> QED
  BY <1>1, <1>2

LEMMA InitServed == Init => Served
BY DEF Init, Served, Whole, None

\* A step that leaves the files and the service.
LEMMA ServedStill ==
  ASSUME IInv, Served, UNCHANGED <<dest, running, record, schema, target, stops>>,
         pc' # pc => pc' # "record",
         pc' \in {"idle", "snapshot", "copy", "prune", "install", "revert"} =>
           pc \in {"idle", "snapshot", "copy", "prune", "install", "revert"},
         pc' \in {"idle", "snapshot", "copy", "prune", "install"} =>
           pc \in {"idle", "snapshot", "copy", "prune", "install"},
         was' \in {was, None} \/ (pc = "idle" /\ was' = dest),
         pc' = "idle" \/ (pc # "idle" /\ was' = was) \/ (pc = "idle" /\ was' = dest)
  PROVE  Served'
<1>1. (running' # None => running' \notin Broken) /\ (pc' = "record" => running' = target')
  BY DEF Served
<1>2. stops' = 0 => dest' \in Whole /\ was' \in Whole
  BY DEF Served, Whole
<1>3. ASSUME stops' = 0, record' # None
      PROVE  /\ record' \notin Broken
             /\ pc' # "idle" => was' = record'
             /\ pc' \in {"idle", "snapshot", "copy", "prune", "install", "revert"} => dest' = record'
             /\ pc' \in {"idle", "snapshot", "copy", "prune", "install"} => Serves(record)'
  BY <1>3 DEF Served, Serves
<1> QED
  BY <1>1, <1>2, <1>3 DEF Served, Serves

\* A start of the binary in place, by the run or by systemd.
LEMMA ServedStarts ==
  ASSUME IInv, Served, Start(dest), UNCHANGED <<dest, record, target, stops>>,
         \/ pc = "restart" /\ pc' = "check" /\ was' = was
         \/ pc = "revert" /\ pc' = "idle" /\ was' = None
         \/ running = None /\ pc' = pc /\ was' = was
  PROVE  Served'
<1>0. TypeOK /\ dest \in Files /\ schema \in Nat
  BY DEF IInv, TypeOK
<1>1. running' # None => running' = dest /\ dest \in Releases \ Broken
  BY <1>0, StartDoes
<1>2. \/ schema' = schema
      \/ dest \in Releases /\ schema < Schema[dest] /\ schema' = Schema[dest]
  BY <1>0, StartDoes
<1>3. dest \in Releases \ Broken => running' = dest \/ schema' > Schema[dest]
  BY <1>0, StartDoes
<1>4. pc' # "record"
  BY <1>0 DEF Served, TypeOK
<1>5. stops' = 0 => dest' \in Whole /\ was' \in Whole
  BY DEF Served, Whole
<1>6. ASSUME stops' = 0, record' # None
      PROVE  /\ record' \notin Broken
             /\ pc' # "idle" => was' = record'
             /\ pc' \in {"idle", "snapshot", "copy", "prune", "install", "revert"} => dest' = record'
             /\ pc' \in {"idle", "snapshot", "copy", "prune", "install"} => Serves(record)'
  <2>1. record \in Releases /\ record \notin Broken
    BY <1>0, <1>6 DEF Served, TypeOK, Whole
  <2>2. pc' # "idle" => was' = record'
    BY <1>6 DEF Served
  <2>3. pc' \in {"idle", "snapshot", "copy", "prune", "install", "revert"} => dest' = record'
    BY <1>6 DEF Served
  <2>4. ASSUME pc' \in {"idle", "snapshot", "copy", "prune", "install"} PROVE running' = record \/ schema' > Schema[record]
    <3>1. dest = record
      BY <1>6, <2>3, <2>4
    <3> QED
      BY <1>3, <2>1, <3>1
  <2> QED
    BY <2>1, <2>2, <2>3, <2>4 DEF Serves
<1> QED
  BY <1>1, <1>4, <1>5, <1>6 DEF Served, Serves

LEMMA ServedStep == IInv /\ Kept /\ Served /\ [Next]_vars => Served'
<1> SUFFICES ASSUME IInv, Kept, Served, [Next]_vars PROVE Served'
  OBVIOUS
<1>0. TypeOK
  BY DEF IInv
<1>1. CASE UNCHANGED vars
  BY <1>1, ServedStill DEF vars, box, ghosts, site, env
<1>2. ASSUME NEW force \in BOOLEAN, Begin(force) PROVE Served'
  BY <1>2, ServedStill DEF Served, Begin, box, site, env, Serves, Whole
<1>3. CASE TakeSnapshot \/ Nightly
  BY <1>3, ServedStill DEF TakeSnapshot, Nightly, site, env
<1>4. CASE CopyDest
  BY <1>4, ServedStill DEF CopyDest, ghosts, site, env
<1>5. CASE PruneBackups
  <2>1. CASE pc' = "install" /\ was' = was
    BY <1>5, <2>1, ServedStill DEF PruneBackups, site, env
  <2>2. CASE baks = <<>> /\ End
    BY <1>5, <2>2, ServedStill DEF PruneBackups, End, site, env
  <2> QED
    BY <1>5, <2>1, <2>2 DEF PruneBackups
<1>6. CASE InstallTarget
  <2>1. dest' = target /\ target \in Whole
    BY <1>0, <1>6 DEF InstallTarget, Install, TypeOK
  <2> QED
    BY <1>6, <2>1 DEF Served, Serves, InstallTarget, ghosts, site, env
<1>7. CASE RestartService
  BY <1>7, ServedStarts DEF RestartService, site, env
<1>8. CASE HealthCheck
  BY <1>8 DEF Served, Serves, HealthCheck, box, ghosts
<1>9. CASE Record
  <2>1. dest = target /\ running = target /\ target # None /\ None \in Whole
    BY <1>9 DEF Record, IInv, InPlace, TypeOK, Served, Whole
  <2> QED
    BY <1>9, <2>1 DEF Served, Serves, Record, End, site, env
<1>10. CASE RollBack
  <2>1. PICK i \in Mine : dest' = baks[i].rel
    BY <1>10 DEF RollBack, Install
  <2>2. dest' = was
    BY <2>1 DEF IInv, TypeOK, OwnBackup, Mine
  <2> QED
    BY <1>10, <2>2 DEF Served, Serves, RollBack, ghosts, site, env
<1>11. CASE CannotRollBack
  <2>1. ASSUME stops = 0 PROVE record = None
    <3>1. stops < KeepBaks
      BY <2>1, DeployAssumption
    <3>2. was = None
      BY <1>11, <3>1 DEF Kept, OwnKept, CannotRollBack, Under
    <3> QED
      BY <1>11, <2>1, <3>2 DEF Served, CannotRollBack
  <2> QED
    BY <1>11, <2>1 DEF Served, CannotRollBack, End, box, site, env, Whole
<1>12. CASE Revert
  BY <1>12, ServedStarts DEF Revert, End, site, env
<1>13. CASE Publish \/ Withdraw \/ Refit
  BY <1>13, ServedStill DEF Publish, Withdraw, Refit, box, ghosts, site, env
<1>14. CASE Respawn
  BY <1>14, ServedStarts DEF Respawn
<1>15. CASE Stop \/ Reboot
  <2>1. stops' # 0 /\ pc' = "idle"
    BY <1>0, <1>15 DEF Stop, Reboot, Cut, End, TypeOK
  <2>2. running' # None => running' \notin Broken
    <3>1. CASE Stop
      BY <3>1 DEF Stop, Served
    <3>2. CASE Reboot
      <4>1. dest' \in Files /\ Start(dest')
        BY <1>0, <3>2 DEF Reboot, Cut, TypeOK, Files
      <4> QED
        BY <1>0, <4>1, StartDoes
    <3> QED
      BY <1>15, <3>1, <3>2
  <2> QED
    BY <2>1, <2>2 DEF Served
<1>16. CASE Update
  BY <1>2, <1>3, <1>4, <1>5, <1>6, <1>7, <1>8, <1>9, <1>10, <1>11, <1>12, <1>16 DEF Update
<1> QED
  BY <1>1, <1>2, <1>3, <1>13, <1>14, <1>15, <1>16 DEF Next

\* The run never goes back to a newer release than the one it installs.
InLine == ~ yanked => dest <= latest /\ (pc # "idle" => was <= target)

LEMMA InLineStep == IInv /\ InLine /\ [Next]_vars => InLine'
<1> SUFFICES ASSUME IInv, InLine, [Next]_vars, ~ yanked', ~ yanked PROVE InLine'
  BY DEF IInv, TypeOK, InLine, Next, Update, vars, box, ghosts, site, env, Begin, TakeSnapshot, CopyDest,
     PruneBackups, InstallTarget, RestartService, HealthCheck, Record, RollBack, CannotRollBack,
     Revert, Publish, Withdraw, Refit, Nightly, Respawn, Stop, Reboot, Cut
<1>0. /\ latest \in Int /\ dest \in Int /\ target \in Int /\ was \in Int
      /\ latest >= 0 /\ target <= latest /\ dest <= latest /\ (pc # "idle" => was <= target)
  BY DeployAssumption DEF IInv, TypeOK, Settled, InLine, Whole, Files, Releases, None, Torn
<1>1. CASE UNCHANGED <<latest, dest, target>> /\ (pc' = "idle" \/ (pc # "idle" /\ was' \in {was}))
  BY <1>0, <1>1 DEF InLine
<1>2. ASSUME NEW force \in BOOLEAN, Begin(force) PROVE InLine'
  BY <1>0, <1>2 DEF InLine, Begin, box
<1>3. CASE InstallTarget
  BY <1>0, <1>3 DEF InLine, InstallTarget, Install, ghosts
<1>4. CASE RollBack
  <2>1. PICK i \in Mine : dest' = baks[i].rel
    BY <1>4 DEF RollBack, Install
  <2>2. dest' = was
    BY <2>1 DEF IInv, TypeOK, OwnBackup, Mine
  <2> QED
    BY <1>0, <1>4, <2>2 DEF InLine, RollBack, ghosts
<1>5. CASE Publish
  BY <1>0, <1>5 DEF InLine, Publish, box, ghosts
<1>6. CASE Cut
  BY <1>0, <1>6 DEF InLine, Cut, End, Torn
<1>7. CASE UNCHANGED <<latest, dest, target, pc, was>>
  BY <1>7 DEF InLine
<1> QED
  BY <1>1, <1>2, <1>3, <1>4, <1>5, <1>6, <1>7
     DEF Next, Update, vars, box, ghosts, site, env, TakeSnapshot, CopyDest, PruneBackups, RestartService,
     HealthCheck, Record, CannotRollBack, Revert, Withdraw, Refit, Nightly, Respawn, Stop, Reboot, End

InSnaps ==
  /\ since > 0 => snaps # <<>> /\ snaps[1] = schema
  /\ ~ bare =>
       /\ schema # 0 /\ dest \in Releases /\ Schema[dest] > schema => since > 0
       /\ schema # 0 /\ pc \in {"copy", "prune", "install"} => since > 0
       /\ before # 0 /\ since < Keep => Len(snaps) > since /\ snaps[since + 1] = before

LEMMA CoveredIs == Covered <=> InLine /\ (stops = 0 /\ ~ yanked /\ ~ slipped => InSnaps)
BY DEF Covered, InLine, InSnaps

LEMMA SnapshotCovers ==
  ASSUME TypeOK, InSnaps, Snapshot, UNCHANGED <<schema, dest, before, bare>>,
         pc' = pc \/ pc' = "copy"
  PROVE  InSnaps'
<1>0. since \in Nat /\ schema \in Nat /\ Keep \in Nat /\ Keep > 0 /\ Len(snaps) \in Nat /\ before \in Nat
      /\ snaps \in Seq(Nat \cup {Torn})
  BY DeployAssumption DEF TypeOK
<1>1. CASE schema = 0 /\ snaps' = snaps /\ since' = since
  BY <1>1 DEF InSnaps
<1>2. CASE /\ schema # 0 /\ since' > 0 /\ since' = Counted
           /\ Len(snaps') > 0 /\ snaps'[1] = schema
           /\ \A i \in 1..Len(snaps) : i < Keep => i + 1 <= Len(snaps') /\ snaps'[i + 1] = snaps[i]
  <2>1. snaps' # <<>>
    BY <1>2
  <2>2. ASSUME ~ bare', before' # 0, since' < Keep PROVE Len(snaps') > since' /\ snaps'[since' + 1] = before'
    <3>1. since' = since + 1 /\ since < Keep /\ since + 1 < Keep
      BY <1>0, <1>2, <2>2 DEF Counted
    <3>2. Len(snaps) > since /\ snaps[since + 1] = before
      BY <2>2, <3>1 DEF InSnaps
    <3>3. PICK j : j = since + 1
      OBVIOUS
    <3>4. j \in 1..Len(snaps) /\ j < Keep
      BY <1>0, <3>1, <3>2, <3>3
    <3>5. j + 1 <= Len(snaps') /\ snaps'[j + 1] = snaps[j]
      BY <1>2, <3>4
    <3>6. Len(snaps') \in Nat
      BY SnapshotKeepsTypes
    <3> QED
      BY <1>0, <2>2, <3>1, <3>2, <3>3, <3>5, <3>6
  <2> QED
    BY <1>2, <2>1, <2>2 DEF InSnaps
<1> QED
  BY <1>1, <1>2, SnapshotDoes

LEMMA WarnCovers ==
  ASSUME TypeOK, InSnaps, Warn, UNCHANGED <<schema, dest, before>>
  PROVE  InSnaps'
<1>1. UNCHANGED <<snaps, since>> /\ (~ bare' => ~ bare /\ (schema # 0 => since # 0))
  BY DEF Warn, TypeOK
<1>2. since # 0 => since > 0
  BY DeployAssumption DEF TypeOK
<1> QED
  BY <1>1, <1>2 DEF InSnaps

LEMMA StartCovers ==
  ASSUME TypeOK, InSnaps, Start(dest), UNCHANGED <<dest, snaps>>,
         pc' \in {"copy", "prune", "install"} => pc' = pc /\ schema' = schema
  PROVE  InSnaps'
<1>0. since \in Nat /\ schema \in Nat /\ dest \in Files /\ snaps \in Seq(Nat \cup {Torn})
  BY DeployAssumption DEF TypeOK
<1>1. CASE schema' = schema /\ since' = since /\ before' = before /\ bare' = bare
  BY <1>1 DEF InSnaps
<1>2. CASE /\ dest \in Releases /\ schema < Schema[dest] /\ schema' = Schema[dest]
           /\ since' = 0 /\ before' = schema /\ bare' = (bare /\ since = 0)
  <2>1. Schema[dest] \in Nat
    BY <1>2, SchemaGrows
  <2>2. ~ bare' /\ schema # 0 => since > 0 /\ snaps # <<>> /\ snaps[1] = schema
    <3>1. ~ bare' => ~ bare \/ since > 0
      <4>1. since = 0 \/ since > 0
        BY <1>0
      <4> QED
        BY <1>2, <4>1, Zenon
    <3> QED
      BY <1>0, <1>2, <2>1, <3>1 DEF InSnaps
  <2>3. ~ bare' /\ before' # 0 => Len(snaps') > since' /\ snaps'[since' + 1] = before'
    BY <1>0, <1>2, <2>2
  <2>4. pc' \notin {"copy", "prune", "install"}
    BY <1>0, <1>2, <2>1
  <2> QED
    BY <1>0, <1>2, <2>1, <2>3, <2>4 DEF InSnaps
<1> QED
  BY <1>0, <1>1, <1>2, StartDoes

LEMMA CoveredStep == IInv /\ Covered /\ [Next]_vars => Covered'
<1> SUFFICES ASSUME IInv, Covered, [Next]_vars PROVE Covered'
  OBVIOUS
<1>0. TypeOK /\ InLine /\ InLine'
  BY InLineStep, CoveredIs DEF IInv
<1> SUFFICES ASSUME stops' = 0, ~ yanked', ~ slipped' PROVE InSnaps'
  BY <1>0 DEF Covered, InLine, InSnaps
<1>1. ~ Stop /\ ~ Reboot
  BY <1>0 DEF Stop, Reboot, Cut, TypeOK
<1>2. stops = 0 /\ ~ yanked /\ ~ slipped
  <2>1. CASE Respawn
    BY <2>1 DEF Respawn
  <2>2. CASE Withdraw
    BY <2>2 DEF Withdraw
  <2>3. CASE UNCHANGED <<stops, yanked, slipped>>
    BY <2>3
  <2> QED
    BY <1>1, <2>1, <2>2, <2>3 DEF Next, Update, vars, site, env, Begin, TakeSnapshot, CopyDest,
       PruneBackups, InstallTarget, RestartService, HealthCheck, Record, RollBack, CannotRollBack,
       Revert, Publish, Refit, Nightly
<1>3. InSnaps
  BY <1>2, CoveredIs
<1>4. CASE /\ UNCHANGED <<dest, schema, snaps, since, before, bare>>
           /\ pc' \in {"copy", "prune", "install"} => pc \in {"copy", "prune", "install"}
  BY <1>3, <1>4 DEF InSnaps
<1>5. ASSUME NEW force \in BOOLEAN, Begin(force) PROVE InSnaps'
  BY <1>4, <1>5 DEF Begin, box
<1>6. CASE TakeSnapshot \/ Nightly
  <2>1. UNCHANGED <<schema, dest, before>> /\ (pc' = pc \/ pc' = "copy")
    BY <1>6 DEF TakeSnapshot, Nightly
  <2>2. (Snapshot /\ UNCHANGED bare) \/ Warn
    BY <1>6 DEF TakeSnapshot, Nightly
  <2> QED
    BY <1>0, <1>3, <2>1, <2>2, SnapshotCovers, WarnCovers
<1>7. CASE InstallTarget
  BY <1>3, <1>7 DEF InSnaps, InstallTarget, ghosts
<1>8. CASE RestartService \/ Revert
  BY <1>0, <1>3, <1>8, StartCovers DEF RestartService, Revert, End
<1>9. CASE Respawn
  <2>1. pc' \in {"copy", "prune", "install"} => schema' = schema
    BY <1>9 DEF Respawn
  <2> QED
    BY <1>0, <1>3, <1>9, <2>1, StartCovers DEF Respawn
<1>10. CASE RollBack
  <2>1. PICK i \in Mine : dest' = baks[i].rel
    BY <1>10 DEF RollBack, Install
  <2>2. dest' = was /\ dest = target /\ was <= target
    BY <1>0, <1>2, <1>10, <2>1 DEF IInv, TypeOK, OwnBackup, InPlace, Mine, RollBack, InLine
  <2>3. ASSUME ~ bare, schema # 0, was \in Releases, Schema[was] > schema PROVE since > 0
    <3>1. target \in Releases
      BY <1>10 DEF IInv, TypeOK, Whole, RollBack
    <3>2. Schema[was] <= Schema[target] /\ Schema[was] \in Nat /\ Schema[target] \in Nat /\ schema \in Nat
      BY <1>0, <2>2, <2>3, <3>1, SchemaGrows DEF TypeOK
    <3> QED
      BY <1>3, <2>2, <2>3, <3>1, <3>2 DEF InSnaps
  <2> QED
    BY <1>3, <1>10, <2>2, <2>3 DEF InSnaps, RollBack, ghosts
<1>11. CASE CopyDest \/ PruneBackups \/ HealthCheck \/ Record \/ CannotRollBack \/ Publish \/ Withdraw \/ Refit
  BY <1>4, <1>11 DEF CopyDest, PruneBackups, HealthCheck, Record, CannotRollBack, Publish, Withdraw, Refit,
     End, box, ghosts, site, env
<1>12. CASE UNCHANGED vars
  BY <1>4, <1>12 DEF vars, box, ghosts, site, env
<1> QED
  BY <1>1, <1>5, <1>6, <1>7, <1>8, <1>9, <1>10, <1>11, <1>12 DEF Next, Update

LEMMA InitCovered == Init => Covered
BY DEF Init, Covered, None

\* What the snapshots and the backups are good for, in every reachable state.
THEOREM RecoverableInvariant == Spec => [](IInv /\ Recoverable)
<1>1. Init => Recoverable
  BY InitKept, InitServed, InitCovered DEF Recoverable, Kept
<1>2. IInv /\ Recoverable /\ [Next]_vars => Recoverable'
  BY KeptStep, ServedStep, CoveredStep DEF Recoverable, Kept
<1> QED
  BY <1>1, <1>2, Invariant, PTL DEF Spec

(***************************************************************************)
(* A failed update finds the binary it replaced as long as fewer than      *)
(* KeepBaks runs were stopped: however many releases and failures there    *)
(* were before, the prune does not reach the run's own copy.               *)
(***************************************************************************)
THEOREM UpdateCanGoBack == Spec => []BackupAtHand
<1>1. IInv /\ Recoverable => BackupAtHand
  BY DEF IInv, TypeOK, OwnBackup, Recoverable, OwnKept, BackupAtHand, Mine, Under
<1> QED
  BY <1>1, RecoverableInvariant, PTL

(***************************************************************************)
(* While no run is stopped, the recorded release serves after every run,   *)
(* failed or not, unless a failed one migrated the database past it.       *)
(***************************************************************************)
THEOREM RecordedServes == Spec => []ServesUnlessMigrated
<1>1. IInv /\ Recoverable => ServesUnlessMigrated
  BY DEF Recoverable, Served, Serves, ServesUnlessMigrated
<1> QED
  BY <1>1, RecoverableInvariant, PTL

(***************************************************************************)
(* While no run is stopped, no release withdrawn and no database made      *)
(* behind a run's back, the snapshot from before the last migration stands *)
(* behind those taken since, for any releases and any order of their       *)
(* migrations that only goes forward.  Where a run found yuiolink-backup   *)
(* missing and had no snapshot of the schema, this is so again from the    *)
(* next migration that has one.                                            *)
(***************************************************************************)
THEOREM MigrationIsCovered == Spec => []SnapshotBeforeMigration
<1>1. IInv /\ Recoverable => SnapshotBeforeMigration
  BY DEF Recoverable, Covered, SnapshotBeforeMigration
<1> QED
  BY <1>1, RecoverableInvariant, PTL
=============================================================================
