----------------------------- MODULE NameProofs -----------------------------
(***************************************************************************)
(* Names: the allocation policy keeps its promises (NameAllocation), and   *)
(* what generate_name issues belongs to one tier (NameDraw).               *)
(*                                                                         *)
(* First, for any ceilings' lifetimes, number of creates at once and       *)
(* however their draws collide: a create moves to a longer tier only when  *)
(* GrowAt draws hit held names, so every tier it left holds a link another *)
(* create put there; and each of those creates was begun.  That ledger     *)
(* bounds the tiers in use.                                                *)
(*                                                                         *)
(* Then, for any alphabet, word list, word length and number of words:     *)
(* spellings are counted exactly, words are drawn evenly, and an issued    *)
(* name is spelled in its own tier only.  A spelling is seen as a chain:   *)
(* the places where its words meet, the ends of the name included.  The    *)
(* chains that end at a letter are those that end earlier, each with one   *)
(* word after it, and no chain is had so in two ways; that is the sum      *)
(* spelling_count makes.                                                   *)
(***************************************************************************)
EXTENDS NameAllocation, NameDraw, DataLemmas

Active == {q \in Reqs : req[q].pc = "try"}

(***************************************************************************)
(* A create has collided between GrowAt * k and GrowAt * (k + 1) times     *)
(* when it has grown k words.                                              *)
(***************************************************************************)
InStep == \A q \in Reqs : req[q].pc = "try" =>
  LET r == req[q] IN
  /\ r.start <= r.words
  /\ GrowAt * (r.words - r.start) <= r.collisions
  /\ r.private => r.start = LimitedWords

HeldTouched == \A n \in Names : held[n] # "free" => n[1] \in touched

\* Every touched tier and every create in flight was begun.
Ledger == /\ IsFiniteSet(Active) /\ IsFiniteSet(touched)
          /\ Cardinality(Active) + Cardinality(touched) <= begun

AInv == TypeOK /\ PrivateStaysLong /\ TriesBounded /\ InStep /\ HeldTouched /\ Ledger
-----------------------------------------------------------------------------
(***************************************************************************)
(* The valve opens on the last collision of a tier's GrowAt, and then only.*)
(***************************************************************************)
LEMMA Valve ==
  ASSUME NEW k \in Nat, NEW c \in Nat, GrowAt * k <= c, c < GrowAt * (k + 1)
  PROVE  /\ (c + 1) % GrowAt = 0 => c + 1 = GrowAt * (k + 1)
         /\ (c + 1) % GrowAt # 0 => c + 1 < GrowAt * (k + 1)
<1>1. GrowAt \in Nat \ {0} /\ GrowAt * (k + 1) = GrowAt * k + GrowAt /\ GrowAt * k \in Nat
  BY AllocationAssumption
<1>2. CASE c + 1 = GrowAt * k + GrowAt
  <2>1. (GrowAt * (k + 1)) % GrowAt = 0
    BY <1>1
  <2>2. QED
    BY <1>1, <1>2, <2>1
<1>3. CASE c + 1 < GrowAt * k + GrowAt
  <2>1. PICK r \in 0..(GrowAt - 1) : c + 1 = GrowAt * k + r /\ r # 0
    <3>1. c + 1 - GrowAt * k \in 0..(GrowAt - 1) /\ c + 1 - GrowAt * k # 0
      BY <1>1, <1>3
    <3>2. c + 1 = GrowAt * k + (c + 1 - GrowAt * k)
      BY <1>1
    <3>3. QED
      BY <3>1, <3>2
  <2>2. (GrowAt * k + r) % GrowAt = r
    BY <1>1
  <2>3. QED
    BY <1>1, <1>3, <2>1, <2>2
<1>4. QED
  BY <1>1, <1>2, <1>3

(***************************************************************************)
(* What the policy answers: a tier it counts, the longest one for a secret *)
(* link, and for a longer life never a shorter tier.                       *)
(***************************************************************************)
Open(ttl, live) == {w \in 1..LimitedWords - 1 : live[w] * 100 < tier_capacity(w) * Ceiling(ttl)}

LEMMA PublicFact ==
  ASSUME NEW ttl, NEW live
  PROVE  /\ public_words_for(ttl, live) \in Counted
         /\ Open(ttl, live) = {} => public_words_for(ttl, live) = LimitedWords
         /\ \A w \in Open(ttl, live) : public_words_for(ttl, live) <= w
         /\ Open(ttl, live) # {} => public_words_for(ttl, live) \in Open(ttl, live)
<1> DEFINE open == Open(ttl, live)
<1>1. public_words_for(ttl, live)
        = IF open = {} THEN LimitedWords ELSE CHOOSE w \in open : \A v \in open : w <= v
  BY DEF public_words_for, Open
<1>2. open \subseteq 1..LimitedWords - 1 /\ open \subseteq Nat /\ LimitedWords \in Nat \ {0}
  BY AllocationAssumption DEF Open
<1> HIDE DEF open
<1>3. CASE open = {}
  BY <1>1, <1>2, <1>3 DEF Counted, open
<1>4. CASE open # {}
  <2>1. \E w \in open : \A v \in open : w <= v
    BY <1>2, <1>4, Least
  <2>2. public_words_for(ttl, live) \in open
        /\ \A v \in open : public_words_for(ttl, live) <= v
    BY <1>1, <1>4, <2>1
  <2>3. QED
    BY <1>2, <1>4, <2>2 DEF Counted, open
<1>5. QED
  BY <1>3, <1>4

LEMMA WordsFact ==
  ASSUME NEW private \in BOOLEAN, NEW ttl, NEW live
  PROVE  /\ words_for(private, ttl, live) \in Counted
         /\ private => words_for(private, ttl, live) = LimitedWords
BY PublicFact, AllocationAssumption DEF words_for, Counted

LEMMA PolicyOrders ==
  ASSUME occ \in [Counted -> Nat]
  PROVE  ShortLivedFirst
<1> SUFFICES ASSUME NEW s \in TTLs, NEW t \in TTLs, s <= t
             PROVE  public_words_for(s, occ) <= public_words_for(t, occ)
  BY DEF ShortLivedFirst
<1>1. Ceiling(t) <= Ceiling(s) /\ Ceiling(s) \in Nat /\ Ceiling(t) \in Nat
  BY AllocationAssumption DEF Ceiling
<1>2. Open(t, occ) \subseteq Open(s, occ)
  <2> SUFFICES ASSUME NEW w \in Open(t, occ) PROVE w \in Open(s, occ)
    OBVIOUS
  <2>1. w \in 1..LimitedWords - 1 /\ w \in Counted /\ occ[w] \in Nat
        /\ occ[w] * 100 < tier_capacity(w) * Ceiling(t)
    BY AllocationAssumption DEF Open, Counted
  <2>2. tier_capacity(w) \in Nat
    BY <2>1, AllocationAssumption, CapacityAssumption DEF tier_capacity, Counted
  <2>3. tier_capacity(w) * Ceiling(t) <= tier_capacity(w) * Ceiling(s)
    BY <1>1, <2>2
  <2>4. occ[w] * 100 < tier_capacity(w) * Ceiling(s)
    BY <1>1, <2>1, <2>2, <2>3
  <2>5. QED
    BY <2>1, <2>4 DEF Open
<1>3. CASE Open(t, occ) = {}
  BY <1>3, PublicFact, AllocationAssumption DEF Counted
<1>4. CASE Open(t, occ) # {}
  BY <1>2, <1>4, PublicFact
<1>5. QED
  BY <1>3, <1>4
-----------------------------------------------------------------------------
(***************************************************************************)
(* A create that left the tiers start..words - 1 and is about to leave     *)
(* `words` has put the ledger on its limit: there is a tier to go to.      *)
(***************************************************************************)
LEMMA RoomToGrow ==
  ASSUME AInv, NEW q \in Reqs, req[q].pc = "try", req[q].words \in touched
  PROVE  req[q].words + 1 \in Tiers
<1> DEFINE w == req[q].words
<1>1. /\ w \in 1..MaxWords /\ req[q].start \in 1..LimitedWords
      /\ req[q].start..(w - 1) \subseteq touched
  BY DEF AInv, TypeOK, Counted, Tiers, TriesBounded
<1>2. LimitedWords..w \subseteq touched
  BY <1>1, AllocationAssumption
<1>3. /\ IsFiniteSet(LimitedWords..w)
      /\ Cardinality(LimitedWords..w) = IF LimitedWords > w THEN 0 ELSE w - LimitedWords + 1
  <2>1. LimitedWords \in Int /\ w \in Int
    BY <1>1, AllocationAssumption
  <2> HIDE DEF w
  <2>2. QED
    BY <2>1, FS_Interval
<1>4. Cardinality(LimitedWords..w) <= Cardinality(touched) /\ Cardinality(touched) \in Nat
  BY <1>2, FS_Subset, FS_CardinalityType DEF AInv, Ledger
<1>5. Cardinality(Active) \in Nat /\ Cardinality(Active) # 0
  BY FS_CardinalityType, FS_EmptySet DEF AInv, Ledger, Active
<1>6. Cardinality(Active) + Cardinality(touched) <= Budget
  <2>1. begun \in 0..Budget /\ Budget \in Nat
    BY AllocationAssumption DEF AInv, TypeOK
  <2>2. Cardinality(Active) + Cardinality(touched) <= begun
    BY DEF AInv, Ledger
  <2>3. QED
    BY <1>4, <1>5, <2>1, <2>2
<1>7. w < MaxWords
  BY <1>1, <1>3, <1>4, <1>5, <1>6, AllocationAssumption, BudgetAssumption
<1>8. QED
  BY <1>1, <1>7, AllocationAssumption DEF Tiers

\* The occupancy is a count.
LEMMA CountsFact == LiveCounts \in [Counted -> Nat]
<1>1. IsFiniteSet(Names)
  <2>1. MaxWords \in Int /\ Stock \in Int /\ 1 \in Int
    BY AllocationAssumption
  <2>2. IsFiniteSet(1..MaxWords) /\ IsFiniteSet(1..Stock)
    BY <2>1, FS_Interval
  <2>3. QED
    BY <2>2, FS_Product DEF Names, Tiers
<1>2. ASSUME NEW w PROVE Cardinality({n \in Names : n[1] = w /\ held[n] \in {"public", "private"}}) \in Nat
  BY <1>1, FS_Subset, FS_CardinalityType
<1>3. QED
  BY <1>2 DEF LiveCounts

\* The ledger when creates end.
LEMMA FewerActive ==
  ASSUME Ledger, NEW T, T \subseteq Active
  PROVE  IsFiniteSet(T) /\ Cardinality(T) <= Cardinality(Active) /\ Cardinality(T) \in Nat
BY FS_Subset, FS_CardinalityType DEF Ledger

LEMMA BeginStep ==
  ASSUME AInv, NEW q \in Reqs, NEW private \in BOOLEAN, NEW ttl \in TTLs, Begin(q, private, ttl)
  PROVE  AInv'
<1> DEFINE w   == words_for(private, ttl, occ)
           new == [pc |-> "try", private |-> private, start |-> w, words |-> w, collisions |-> 0]
<1>1. w \in Counted /\ (private => w = LimitedWords)
  BY WordsFact
<1>2. w \in Tiers /\ w \in 0..MaxWords /\ w \in 0..LimitedWords
  BY <1>1, AllocationAssumption, BudgetAssumption DEF Counted, Tiers
<1>3. /\ req[q].pc = "idle" /\ begun < Budget /\ begun' = begun + 1
      /\ req' = [req EXCEPT ![q] = new] /\ UNCHANGED <<held, occ, sweep, touched>>
  BY DEF Begin
<1>4. /\ new.pc = "try" /\ new.private = private /\ new.start = w /\ new.words = w
      /\ new.collisions = 0
  OBVIOUS
<1>5. new \in [pc : {"idle", "try"}, private : BOOLEAN, start : 0..LimitedWords,
               words : 0..MaxWords, collisions : Nat]
  BY <1>2
<1> HIDE DEF w, new
<1>6. req'[q] = new /\ \A p \in Reqs : p # q => req'[p] = req[p]
  BY <1>3 DEF AInv, TypeOK
<1>7. TypeOK'
  <2>1. req' \in [Reqs -> [pc : {"idle", "try"}, private : BOOLEAN, start : 0..LimitedWords,
                           words : 0..MaxWords, collisions : Nat]]
    BY <1>3, <1>5 DEF AInv, TypeOK
  <2>2. \A p \in Reqs : req'[p].pc = "try" => req'[p].start \in Counted /\ req'[p].words \in Tiers
    BY <1>1, <1>2, <1>4, <1>6 DEF AInv, TypeOK
  <2>3. begun' \in 0..Budget
    BY <1>3, AllocationAssumption DEF AInv, TypeOK
  <2>4. QED
    BY <1>3, <2>1, <2>2, <2>3 DEF AInv, TypeOK
<1>8. PrivateStaysLong' /\ HeldTouched'
  BY <1>3 DEF AInv, PrivateStaysLong, HeldTouched
<1>9. TriesBounded' /\ InStep'
  <2>1. \A p \in Reqs : p # q /\ req'[p].pc = "try" =>
          LET r == req'[p] IN
          /\ r.start..(r.words - 1) \subseteq touched'
          /\ r.collisions < GrowAt * (r.words - r.start + 1)
          /\ r.collisions > GrowAt * (r.words - r.start) => r.words \in touched'
          /\ r.start <= r.words
          /\ GrowAt * (r.words - r.start) <= r.collisions
          /\ r.private => r.start = LimitedWords
    BY <1>3, <1>6 DEF AInv, TriesBounded, InStep
  <2>2. w \in Int /\ w..(w - 1) = {} /\ 0 < GrowAt * (w - w + 1) /\ GrowAt * (w - w) = 0
    BY <1>2, AllocationAssumption DEF Tiers
  <2>3. LET r == req'[q] IN
          /\ r.start..(r.words - 1) \subseteq touched'
          /\ r.collisions < GrowAt * (r.words - r.start + 1)
          /\ r.collisions > GrowAt * (r.words - r.start) => r.words \in touched'
          /\ r.start <= r.words
          /\ GrowAt * (r.words - r.start) <= r.collisions
          /\ r.private => r.start = LimitedWords
    BY <1>1, <1>4, <1>6, <2>2
  <2>4. QED
    BY <2>1, <2>3 DEF TriesBounded, InStep
<1>10. Ledger'
  <2>1. Active' = Active \cup {q} /\ q \notin Active
    BY <1>3, <1>4, <1>6 DEF Active
  <2>2. /\ IsFiniteSet(Active') /\ Cardinality(Active') = Cardinality(Active) + 1
        /\ Cardinality(Active) \in Nat /\ Cardinality(touched) \in Nat
    BY <2>1, FS_AddElement, FS_CardinalityType DEF AInv, Ledger
  <2>3. QED
    BY <1>3, <2>2 DEF AInv, Ledger, TypeOK
<1>11. QED
  BY <1>7, <1>8, <1>9, <1>10 DEF AInv

(***************************************************************************)
(* The creates that end leave the rest as it was.                          *)
(***************************************************************************)
LEMMA EndStep ==
  ASSUME AInv, NEW q \in Reqs, req' = [req EXCEPT ![q] = Idle], req[q].pc = "try",
         UNCHANGED <<occ, sweep, begun>>, touched' \subseteq Tiers, touched \subseteq touched',
         held' \in [Names -> Holders], PrivateStaysLong', HeldTouched',
         touched' = touched \/ \E w : touched' = touched \cup {w}
  PROVE  AInv'
<1>1. /\ Idle.pc = "idle"
      /\ Idle \in [pc : {"idle", "try"}, private : BOOLEAN, start : 0..LimitedWords,
                   words : 0..MaxWords, collisions : Nat]
  BY AllocationAssumption DEF Idle
<1>2. req'[q] = Idle /\ \A p \in Reqs : p # q => req'[p] = req[p]
  BY DEF AInv, TypeOK
<1>3. TypeOK'
  BY <1>1, <1>2 DEF AInv, TypeOK
<1>4. TriesBounded' /\ InStep'
  BY <1>1, <1>2 DEF AInv, TriesBounded, InStep
<1>5. Ledger'
  <2>1. Active' = Active \ {q} /\ q \in Active
    BY <1>1, <1>2 DEF Active
  <2>2. /\ IsFiniteSet(Active') /\ Cardinality(Active') = Cardinality(Active) - 1
        /\ Cardinality(Active) \in Nat /\ Cardinality(touched) \in Nat
    BY <2>1, FS_RemoveElement, FS_CardinalityType DEF AInv, Ledger
  <2>3. IsFiniteSet(touched') /\ Cardinality(touched') <= Cardinality(touched) + 1
        /\ Cardinality(touched') \in Nat
    <3>1. CASE touched' = touched
      BY <2>2, <3>1 DEF AInv, Ledger
    <3>2. ASSUME NEW w, touched' = touched \cup {w}
          PROVE  IsFiniteSet(touched') /\ Cardinality(touched') <= Cardinality(touched) + 1
                 /\ Cardinality(touched') \in Nat
      <4>1. IsFiniteSet(touched)
        BY DEF AInv, Ledger
      <4>2. /\ IsFiniteSet(touched \cup {w})
            /\ Cardinality(touched \cup {w}) = IF w \in touched THEN Cardinality(touched)
                                               ELSE Cardinality(touched) + 1
        BY <4>1, FS_AddElement
      <4>3. QED
        BY <2>2, <3>2, <4>2
    <3>3. QED
      BY <3>1, <3>2
  <2>4. QED
    BY <2>2, <2>3 DEF AInv, Ledger, TypeOK
<1>6. QED
  BY <1>3, <1>4, <1>5 DEF AInv

LEMMA InsertStep ==
  ASSUME AInv, NEW q \in Reqs, NEW n \in Names, Insert(q, n)
  PROVE  AInv'
<1>1. /\ req[q].pc = "try" /\ n[1] = req[q].words /\ held[n] = "free"
      /\ held' = [held EXCEPT ![n] = IF req[q].private THEN "private" ELSE "public"]
      /\ touched' = touched \cup {n[1]} /\ req' = [req EXCEPT ![q] = Idle]
      /\ UNCHANGED <<occ, sweep, begun>>
  BY DEF Insert
<1>2. n[1] \in Tiers
  BY DEF Names
<1>3. held' \in [Names -> Holders]
  BY <1>1 DEF AInv, TypeOK, Holders
<1>4. req[q].private => n[1] >= LimitedWords
  BY <1>1 DEF AInv, TypeOK, InStep
<1>5. PrivateStaysLong'
  BY <1>1, <1>4 DEF AInv, TypeOK, PrivateStaysLong
<1>6. HeldTouched'
  BY <1>1 DEF AInv, TypeOK, HeldTouched
<1>7. QED
  BY <1>1, <1>2, <1>3, <1>5, <1>6, EndStep DEF AInv, TypeOK

LEMMA AbandonStep ==
  ASSUME AInv, NEW q \in Reqs, Abandon(q)
  PROVE  AInv'
BY EndStep DEF Abandon, AInv, TypeOK, PrivateStaysLong, HeldTouched

(***************************************************************************)
(* A collision: the name drawn is held, so its tier was touched; on the    *)
(* GrowAt-th in the tier the create moves to the next one.                 *)
(***************************************************************************)
LEMMA CollideStep ==
  ASSUME AInv, NEW q \in Reqs, NEW n \in Names, Collide(q, n)
  PROVE  AInv'
<1> DEFINE Record == [pc : {"idle", "try"}, private : BOOLEAN, start : 0..LimitedWords,
                      words : 0..MaxWords, collisions : Nat]
<1>1. PICK r \in Record : r = req[q]
  BY DEF AInv, TypeOK
<1>2. /\ r.pc = "try" /\ n[1] = r.words /\ held[n] # "free"
      /\ req' = [req EXCEPT ![q].collisions = @ + 1, ![q].words = Grown(req[q])]
      /\ UNCHANGED <<held, occ, sweep, begun, touched>>
  BY <1>1 DEF Collide
<1>3. r.words \in touched
  BY <1>2 DEF AInv, HeldTouched
<1>4. r.words + 1 \in Tiers /\ r.words \in Tiers /\ r.start \in Counted
  BY <1>1, <1>2, <1>3, RoomToGrow DEF AInv, TypeOK
<1>5. PICK s \in Record : /\ s = req'[q]
                          /\ s.pc = "try" /\ s.private = r.private /\ s.start = r.start
                          /\ s.collisions = r.collisions + 1 /\ s.words = Grown(r)
  <2>1. Grown(r) \in 0..MaxWords
    BY <1>1, <1>4, AllocationAssumption DEF Grown, Tiers
  <2>2. req'[q] = [r EXCEPT !.collisions = r.collisions + 1, !.words = Grown(r)]
    BY <1>1, <1>2 DEF AInv, TypeOK
  <2>3. PICK m \in Record : /\ m = [r EXCEPT !.collisions = r.collisions + 1]
                            /\ m.pc = r.pc /\ m.private = r.private /\ m.start = r.start
                            /\ m.collisions = r.collisions + 1
    <3>1. [r EXCEPT !.collisions = r.collisions + 1] \in Record
      OBVIOUS
    <3>2. QED
      BY <3>1
  <2>4. req'[q] = [m EXCEPT !.words = Grown(r)]
    BY <2>2, <2>3, Zenon
  <2>5. PICK w \in 0..MaxWords : w = Grown(r)
    BY <2>1
  <2>6. req'[q] = [m EXCEPT !.words = w]
    BY <2>4, <2>5, Zenon
  <2>7. PICK z \in Record : /\ z = [m EXCEPT !.words = w]
                            /\ z.pc = m.pc /\ z.private = m.private /\ z.start = m.start
                            /\ z.collisions = m.collisions /\ z.words = w
    <3>1. [m EXCEPT !.words = w] \in Record
      OBVIOUS
    <3>2. QED
      BY <3>1
  <2>8. z = req'[q]
    BY <2>6, <2>7, Zenon
  <2> HIDE DEF Record
  <2>9. QED
    BY <1>2, <2>3, <2>5, <2>7, <2>8
<1>6. \A p \in Reqs : p # q => req'[p] = req[p]
  BY <1>2 DEF AInv, TypeOK
<1>7. /\ r.start \in Int /\ r.words \in Int /\ r.collisions \in Nat /\ r.start <= r.words
      /\ GrowAt * (r.words - r.start) <= r.collisions
      /\ r.collisions < GrowAt * (r.words - r.start + 1)
      /\ r.start..(r.words - 1) \subseteq touched
      /\ r.private => r.start = LimitedWords
  <2>1. r.start \in Int /\ r.words \in Int /\ r.collisions \in Nat
    BY <1>1
  <2>2. QED
    BY <1>1, <1>2, <2>1 DEF AInv, TriesBounded, InStep
<1>8. PICK k \in Nat : k = r.words - r.start
  BY <1>7
<1>9. /\ (r.collisions + 1) % GrowAt = 0 => r.collisions + 1 = GrowAt * (k + 1)
      /\ (r.collisions + 1) % GrowAt # 0 => r.collisions + 1 < GrowAt * (k + 1)
  BY <1>7, <1>8, Valve
<1>10. /\ s.start <= s.words
       /\ GrowAt * (s.words - s.start) <= s.collisions
       /\ s.collisions < GrowAt * (s.words - s.start + 1)
       /\ s.collisions > GrowAt * (s.words - s.start) => s.words \in touched
       /\ s.start..(s.words - 1) \subseteq touched
  <2>1. CASE (r.collisions + 1) % GrowAt = 0
    <3>1. s.words = r.words + 1
      BY <1>5, <2>1 DEF Grown
    <3>2. s.words - s.start = k + 1 /\ s.start <= s.words
      BY <1>5, <1>7, <1>8, <3>1
    <3>3. s.collisions = GrowAt * (k + 1)
      BY <1>5, <1>9, <2>1
    <3>4. GrowAt * (k + 1) < GrowAt * (k + 1 + 1) /\ GrowAt * (k + 1) \in Int
      <4>1. GrowAt \in Nat \ {0} /\ GrowAt * (k + 1 + 1) = GrowAt * (k + 1) + GrowAt
            /\ GrowAt * (k + 1) \in Int
        BY AllocationAssumption
      <4>2. QED
        BY <4>1
    <3>5. s.start..(s.words - 1) \subseteq touched
      BY <1>3, <1>5, <1>7, <3>1
    <3>6. QED
      BY <3>2, <3>3, <3>4, <3>5
  <2>2. CASE (r.collisions + 1) % GrowAt # 0
    <3>1. s.words = r.words
      BY <1>5, <2>2 DEF Grown
    <3>2. s.words - s.start = k
      BY <1>5, <1>8, <3>1
    <3>3. GrowAt * k <= s.collisions /\ s.collisions < GrowAt * (k + 1)
      <4>1. GrowAt * k \in Int
        BY AllocationAssumption
      <4>2. QED
        BY <1>5, <1>7, <1>8, <1>9, <2>2, <4>1
    <3>4. QED
      BY <1>3, <1>5, <1>7, <3>1, <3>2, <3>3
  <2>3. QED
    BY <2>1, <2>2
<1>11. TypeOK'
  <2>1. req' \in [Reqs -> Record]
    BY <1>2, <1>5, <1>6 DEF AInv, TypeOK
  <2>2. s.start \in Counted /\ s.words \in Tiers
    BY <1>4, <1>5 DEF Grown
  <2>3. \A p \in Reqs : req'[p].pc = "try" => req'[p].start \in Counted /\ req'[p].words \in Tiers
    BY <1>5, <1>6, <2>2 DEF AInv, TypeOK
  <2>4. QED
    BY <1>2, <2>1, <2>3 DEF AInv, TypeOK
<1>12. PrivateStaysLong' /\ HeldTouched'
  BY <1>2 DEF AInv, PrivateStaysLong, HeldTouched
<1>13. TriesBounded' /\ InStep'
  <2>1. s.private => s.start = LimitedWords
    BY <1>5, <1>7
  <2> HIDE DEF Record
  <2>2. LET u == req'[q] IN
          /\ u.start..(u.words - 1) \subseteq touched'
          /\ u.collisions < GrowAt * (u.words - u.start + 1)
          /\ u.collisions > GrowAt * (u.words - u.start) => u.words \in touched'
          /\ u.start <= u.words
          /\ GrowAt * (u.words - u.start) <= u.collisions
          /\ u.private => u.start = LimitedWords
    BY <1>2, <1>5, <1>10, <2>1
  <2>3. \A p \in Reqs : p # q /\ req'[p].pc = "try" =>
          LET u == req'[p] IN
          /\ u.start..(u.words - 1) \subseteq touched'
          /\ u.collisions < GrowAt * (u.words - u.start + 1)
          /\ u.collisions > GrowAt * (u.words - u.start) => u.words \in touched'
          /\ u.start <= u.words
          /\ GrowAt * (u.words - u.start) <= u.collisions
          /\ u.private => u.start = LimitedWords
    <3>1. SUFFICES ASSUME NEW p \in Reqs, p # q, req'[p].pc = "try"
                   PROVE  LET u == req[p] IN
                          /\ u.start..(u.words - 1) \subseteq touched
                          /\ u.collisions < GrowAt * (u.words - u.start + 1)
                          /\ u.collisions > GrowAt * (u.words - u.start) => u.words \in touched
                          /\ u.start <= u.words
                          /\ GrowAt * (u.words - u.start) <= u.collisions
                          /\ u.private => u.start = LimitedWords
      <4>1. touched' = touched
        BY <1>2
      <4>2. QED
        BY <1>6, <4>1, Zenon
    <3>2. req[p].pc = "try"
      BY <1>6, <3>1
    <3>3. QED
      BY <3>2 DEF AInv, TriesBounded, InStep
  <2>4. QED
    BY <2>2, <2>3 DEF TriesBounded, InStep
<1>14. Ledger'
  <2>1. Active' = Active
    BY <1>1, <1>2, <1>5, <1>6 DEF Active
  <2>2. QED
    BY <1>2, <2>1 DEF AInv, Ledger
<1>15. QED
  BY <1>11, <1>12, <1>13, <1>14 DEF AInv

(***************************************************************************)
(* What happens to stored links, and what the sweep does, begins no create.*)
(***************************************************************************)
Sweep == [pc : {"sleep", "count", "store"}, slot : 0..LimitedWords, counts : [Counted -> Nat]]

LEMMA TableStep ==
  ASSUME AInv, UNCHANGED <<req, begun, touched>>,
         held' \in [Names -> Holders],
         \A n \in Names : held'[n] # "free" => held[n] # "free",
         \A n \in Names : held'[n] = "private" => held[n] = "private",
         occ' \in [Counted -> Nat], sweep' \in Sweep,
         sweep'.pc = "store" => sweep'.slot \in Counted
  PROVE  AInv'
<1>1. TypeOK'
  BY DEF AInv, TypeOK, Sweep
<1>2. PrivateStaysLong' /\ HeldTouched'
  BY DEF AInv, PrivateStaysLong, HeldTouched
<1>3. TriesBounded' /\ InStep'
  BY DEF AInv, TriesBounded, InStep
<1>4. Ledger'
  BY DEF AInv, Ledger, Active
<1>5. QED
  BY <1>1, <1>2, <1>3, <1>4 DEF AInv

LEMMA SleepingFact == Sleeping \in Sweep /\ Sleeping.pc = "sleep"
BY AllocationAssumption DEF Sleeping, Sweep

LEMMA SweepStep ==
  ASSUME AInv, Reap \/ ReapFails \/ Count \/ CountFails \/ Store
  PROVE  AInv'
<1>1. CASE Reap
  <2>1. /\ held' = [n \in Names |-> IF held[n] = "expired" THEN "free" ELSE held[n]]
        /\ sweep' = [sweep EXCEPT !.pc = "count"] /\ UNCHANGED <<occ, req, begun, touched>>
    BY <1>1 DEF Reap
  <2>2. held' \in [Names -> Holders] /\ \A n \in Names : held'[n] # "free" => held'[n] = held[n]
    BY <2>1 DEF AInv, TypeOK, Holders
  <2>3. sweep' \in Sweep /\ sweep'.pc = "count"
    BY <2>1 DEF AInv, TypeOK, Sweep
  <2>4. QED
    BY <2>1, <2>2, <2>3, TableStep DEF AInv, TypeOK
<1>2. CASE ReapFails
  <2>1. sweep' = [sweep EXCEPT !.pc = "count"] /\ UNCHANGED <<held, occ, req, begun, touched>>
    BY <1>2 DEF ReapFails
  <2>2. sweep' \in Sweep /\ sweep'.pc = "count"
    BY <2>1 DEF AInv, TypeOK, Sweep
  <2>3. QED
    BY <2>1, <2>2, TableStep DEF AInv, TypeOK
<1>3. CASE Count
  <2>1. /\ sweep' = [pc |-> "store", slot |-> 1, counts |-> LiveCounts]
        /\ UNCHANGED <<held, occ, req, begun, touched>>
    BY <1>3 DEF Count
  <2>2. 1 \in Counted /\ 1 \in 0..LimitedWords
    BY AllocationAssumption DEF Counted
  <2>3. sweep' \in Sweep /\ sweep'.slot = 1
    BY <2>1, <2>2, CountsFact DEF Sweep
  <2>4. QED
    BY <2>1, <2>2, <2>3, TableStep DEF AInv, TypeOK
<1>4. CASE CountFails
  BY <1>4, SleepingFact, TableStep DEF CountFails, AInv, TypeOK
<1>5. CASE Store
  <2>1. /\ sweep \in Sweep /\ sweep.pc = "store" /\ sweep.slot \in Counted
        /\ occ' = [occ EXCEPT ![sweep.slot] = sweep.counts[sweep.slot]]
        /\ UNCHANGED <<held, req, begun, touched>> /\ sweep' = AfterStore
    BY <1>5 DEF Store, AInv, TypeOK, Sweep
  <2>2. occ' \in [Counted -> Nat]
    BY <2>1 DEF AInv, TypeOK, Sweep
  <2>3. CASE sweep' = Sleeping
    BY <2>1, <2>2, <2>3, SleepingFact, TableStep DEF AInv, TypeOK
  <2>4. CASE sweep.slot # LimitedWords /\ sweep' = [sweep EXCEPT !.slot = @ + 1]
    <3>1. sweep.slot + 1 \in Counted /\ sweep.slot + 1 \in 0..LimitedWords
      BY <2>1, <2>4, AllocationAssumption DEF Counted
    <3>2. sweep' \in Sweep /\ sweep'.slot = sweep.slot + 1
      BY <2>1, <2>4, <3>1 DEF Sweep
    <3>3. QED
      BY <2>1, <2>2, <3>1, <3>2, TableStep DEF AInv, TypeOK
  <2>5. QED
    BY <2>1, <2>3, <2>4 DEF AfterStore
<1>6. QED
  BY <1>1, <1>2, <1>3, <1>4, <1>5

LEMMA RestartStep ==
  ASSUME AInv, Restart
  PROVE  AInv'
<1>1. /\ begun < Budget /\ begun' = begun + 1 /\ req' = [q \in Reqs |-> Idle]
      /\ sweep' = Sleeping /\ UNCHANGED <<held, touched>>
  BY DEF Restart
<1>2. occ' \in [Counted -> Nat]
  BY CountsFact DEF Restart
<1>3. /\ Idle.pc = "idle"
      /\ Idle \in [pc : {"idle", "try"}, private : BOOLEAN, start : 0..LimitedWords,
                   words : 0..MaxWords, collisions : Nat]
  BY AllocationAssumption DEF Idle
<1>4. begun' \in 0..Budget
  BY <1>1, AllocationAssumption DEF AInv, TypeOK
<1>5. TypeOK'
  BY <1>1, <1>2, <1>3, <1>4, SleepingFact DEF AInv, TypeOK, Sweep
<1>6. PrivateStaysLong' /\ HeldTouched' /\ TriesBounded' /\ InStep'
  BY <1>1, <1>3 DEF AInv, PrivateStaysLong, HeldTouched, TriesBounded, InStep
<1>7. Ledger'
  <2>1. Active' = {}
    BY <1>1, <1>3 DEF Active
  <2>2. /\ Cardinality(Active) \in Nat /\ Cardinality(touched) \in Nat /\ begun \in Nat
        /\ Cardinality(Active) + Cardinality(touched) <= begun /\ IsFiniteSet(touched)
    BY FS_CardinalityType, AllocationAssumption DEF AInv, Ledger, TypeOK
  <2>3. IsFiniteSet({}) /\ Cardinality({}) = 0
    BY FS_EmptySet
  <2>4. QED
    BY <1>1, <2>1, <2>2, <2>3 DEF Ledger
<1>8. QED
  BY <1>5, <1>6, <1>7 DEF AInv

LEMMA InitFact == Init => AInv
<1> SUFFICES ASSUME Init PROVE AInv
  OBVIOUS
<1>1. /\ Idle.pc = "idle"
      /\ Idle \in [pc : {"idle", "try"}, private : BOOLEAN, start : 0..LimitedWords,
                   words : 0..MaxWords, collisions : Nat]
  BY AllocationAssumption DEF Idle
<1>2. TypeOK
  BY <1>1, SleepingFact, AllocationAssumption DEF Init, TypeOK, Holders, Sweep
<1>3. PrivateStaysLong /\ HeldTouched /\ TriesBounded /\ InStep
  BY <1>1 DEF Init, PrivateStaysLong, HeldTouched, TriesBounded, InStep
<1>4. Active = {}
  BY <1>1 DEF Init, Active
<1>5. Ledger
  <2>1. IsFiniteSet({}) /\ Cardinality({}) = 0
    BY FS_EmptySet
  <2>2. QED
    BY <1>4, <2>1 DEF Init, Ledger
<1>6. QED
  BY <1>2, <1>3, <1>5 DEF AInv

LEMMA NextFact == AInv /\ [Next]_vars => AInv'
<1> SUFFICES ASSUME AInv, [Next]_vars PROVE AInv'
  OBVIOUS
<1>1. ASSUME NEW q \in Reqs, NEW private \in BOOLEAN, NEW ttl \in TTLs, Begin(q, private, ttl)
      PROVE  AInv'
  BY <1>1, BeginStep
<1>2. ASSUME NEW q \in Reqs, Attempt(q) \/ Abandon(q) PROVE AInv'
  BY <1>2, InsertStep, CollideStep, AbandonStep DEF Attempt
<1>3. ASSUME NEW n \in Names, Die(n) \/ Expire(n) PROVE AInv'
  BY <1>3, TableStep DEF Die, Expire, AInv, TypeOK, Holders, Sweep
<1>4. CASE Reap \/ ReapFails \/ Count \/ CountFails \/ Store
  BY <1>4, SweepStep
<1>5. CASE Restart
  BY <1>5, RestartStep
<1>6. CASE UNCHANGED vars
  BY <1>6, TableStep DEF vars, AInv, TypeOK, Sweep
<1>7. QED
  BY <1>1, <1>2, <1>3, <1>4, <1>5, <1>6 DEF Next

THEOREM AllocationInvariant == Spec => []AInv
<1>1. QED
  BY InitFact, NextFact, PTL DEF Spec

(***************************************************************************)
(* A secret link never gets a short name, a create makes at most GrowAt    *)
(* draws in each tier that ever held a link, and a longer life never gets  *)
(* a shorter name than a shorter one (store_link and insert_link, db.rs;   *)
(* words_for, link.rs).                                                    *)
(***************************************************************************)
THEOREM PolicyKept == Spec => []PolicyHolds
<1>1. AInv => PolicyHolds
  BY PolicyOrders DEF AInv, TypeOK, PolicyHolds
<1>2. QED
  BY <1>1, AllocationInvariant, PTL
-----------------------------------------------------------------------------
(***************************************************************************)
(* Word lists, and the bounds on word length.                              *)
(***************************************************************************)
LEMMA ListIs ==
  ASSUME list \in Lists
  PROVE  /\ IsFiniteSet(list) /\ Cardinality(list) \in 1..MaxList /\ list # {}
         /\ \A w \in list : w \in Seq(Letters) /\ Len(w) \in 1..MaxLetters
<1>1. IsFiniteSet(list) /\ \E n \in 1..MaxList : list \in SUBSET Words /\ Cardinality(list) = n
  BY DEF Lists, kSubset
<1>2. list # {}
  BY <1>1, FS_EmptySet
<1>3. ASSUME NEW w \in list PROVE w \in Seq(Letters) /\ Len(w) \in 1..MaxLetters
  <2>1. PICK n \in 1..MaxLetters : w \in [1..n -> Letters]
    BY <1>1 DEF Words
  <2>2. n \in Nat
    BY <2>1, DrawAssumption
  <2> QED BY <2>1, <2>2
<1> QED BY <1>1, <1>2, <1>3

LEMMA LengthBounds ==
  ASSUME list \in Lists
  PROVE  /\ min_len \in Nat \ {0} /\ max_len \in Nat
         /\ \A w \in list : min_len <= Len(w) /\ Len(w) <= max_len
<1> DEFINE lens == {Len(w) : w \in list}
<1>1. \A w \in list : Len(w) \in lens
  OBVIOUS
<1>2. lens \subseteq 1..MaxLetters /\ lens # {}
  BY ListIs
<1>3. MaxLetters \in Nat
  BY DrawAssumption
<1>4. lens \subseteq Nat /\ lens \subseteq 0..MaxLetters
  BY <1>2, <1>3
<1>5. min_len = Min(lens) /\ max_len = Max(lens)
  BY DEF min_len, max_len
<1> HIDE DEF lens
<1>6. \E x \in lens : \A y \in lens : x <= y
  BY <1>2, <1>4, Least
<1>7. \E x \in lens : \A y \in lens : y <= x
  BY <1>2, <1>3, <1>4, Greatest
<1>8. min_len \in lens /\ \A y \in lens : min_len <= y
  BY <1>5, <1>6 DEF Min
<1>9. max_len \in lens /\ \A y \in lens : max_len >= y
  <2>1. \E x \in lens : \A y \in lens : x >= y
    BY <1>4, <1>7
  <2> QED BY <1>5, <2>1 DEF Max
<1> QED BY <1>1, <1>2, <1>3, <1>4, <1>8, <1>9

(***************************************************************************)
(* Chains.                                                                 *)
(***************************************************************************)
IsWord(letters, c, d) == SubSeq(letters, c + 1, d) \in list

\* Nothing of C lies between c and d.
Next_(C, c, d) == c < d /\ \A x \in C : x <= c \/ d <= x

Chains(letters, e) ==
  {C \in SUBSET (0..e) : /\ 0 \in C /\ e \in C
                         /\ \A c, d \in C : Next_(C, c, d) => IsWord(letters, c, d)}

\* Where the last word may start.
LastStarts(letters, e) == {s \in 0..(e - 1) : IsWord(letters, s, e)}

LEMMA ChainsFinite ==
  ASSUME NEW letters, NEW e \in Nat
  PROVE  IsFiniteSet(Chains(letters, e)) /\ Cardinality(Chains(letters, e)) \in Nat
<1>1. IsFiniteSet(0..e)
  BY FS_Interval
<1>2. IsFiniteSet(SUBSET (0..e)) /\ Chains(letters, e) \in SUBSET (SUBSET (0..e))
  BY <1>1, FS_SUBSET DEF Chains
<1> QED BY <1>2, FS_Subset, FS_CardinalityType

LEMMA NoChain ==
  ASSUME NEW letters
  PROVE  Cardinality(Chains(letters, 0)) = 1
<1>1. 0..0 = {0}
  OBVIOUS
<1>2. Chains(letters, 0) = {{0}}
  BY <1>1 DEF Chains, Next_
<1> QED BY <1>2, FS_Singleton

\* A chain without its end is a chain to where its last word starts.
LEMMA ChainWithout ==
  ASSUME NEW letters, NEW e \in Nat \ {0}, NEW D \in Chains(letters, e)
  PROVE  \E s \in LastStarts(letters, e) : D \ {e} \in Chains(letters, s)
<1>1. D \subseteq 0..e /\ 0 \in D /\ e \in D
  BY DEF Chains
<1>2. D \ {e} \subseteq 0..e /\ D \ {e} # {}
  BY <1>1
<1>3. PICK s \in D \ {e} : \A y \in D \ {e} : y <= s
  BY <1>2, Greatest
<1>4. s \in 0..(e - 1) /\ Next_(D, s, e)
  BY <1>1, <1>3 DEF Next_
<1>5. s \in LastStarts(letters, e)
  BY <1>1, <1>4 DEF LastStarts, Chains
<1>6. D \ {e} \subseteq 0..s /\ 0 \in D \ {e} /\ s \in D \ {e}
  BY <1>1, <1>3
<1>7. ASSUME NEW c \in D \ {e}, NEW d \in D \ {e}, Next_(D \ {e}, c, d)
      PROVE  IsWord(letters, c, d)
  <2>1. Next_(D, c, d)
    BY <1>1, <1>7 DEF Next_
  <2> QED BY <2>1 DEF Chains
<1>8. D \ {e} \in Chains(letters, s)
  BY <1>6, <1>7 DEF Chains
<1> QED BY <1>5, <1>8

\* A chain and a word make a chain.
LEMMA ChainWith ==
  ASSUME NEW letters, NEW e \in Nat \ {0}, NEW s \in LastStarts(letters, e), NEW C \in Chains(letters, s)
  PROVE  C \cup {e} \in Chains(letters, e) /\ e \notin C
<1>1. C \subseteq 0..s /\ 0 \in C /\ s \in C /\ s \in 0..(e - 1) /\ IsWord(letters, s, e)
  BY DEF Chains, LastStarts
<1>2. C \cup {e} \subseteq 0..e /\ 0 \in C \cup {e} /\ e \in C \cup {e} /\ e \notin C
  BY <1>1
<1>3. ASSUME NEW c \in C \cup {e}, NEW d \in C \cup {e}, Next_(C \cup {e}, c, d)
      PROVE  IsWord(letters, c, d)
  <2>1. c < d /\ c \in 0..e /\ d \in 0..e
    BY <1>2, <1>3 DEF Next_
  <2>2. CASE d = e
    <3>1. s <= c
      BY <1>1, <1>3, <2>2 DEF Next_
    <3>2. c \in C /\ c <= s
      BY <1>1, <2>1, <2>2
    <3>3. c = s
      BY <1>1, <2>1, <3>1, <3>2
    <3> QED BY <1>1, <2>2, <3>3
  <2>3. CASE d # e
    <3>1. c \in C /\ d \in C
      BY <1>1, <1>2, <2>1, <2>3
    <3>2. Next_(C, c, d)
      BY <1>3 DEF Next_
    <3> QED BY <3>1, <3>2 DEF Chains
  <2> QED BY <2>2, <2>3
<1> QED BY <1>2, <1>3 DEF Chains

(***************************************************************************)
(* So there are as many chains to a letter as to all the starts of a last  *)
(* word together.                                                          *)
(***************************************************************************)
Extended(letters, s, e) == {C \cup {e} : C \in Chains(letters, s)}

LEMMA ExtendedCount ==
  ASSUME NEW letters, NEW e \in Nat \ {0}, NEW s \in LastStarts(letters, e)
  PROVE  /\ IsFiniteSet(Extended(letters, s, e))
         /\ Cardinality(Extended(letters, s, e)) = Cardinality(Chains(letters, s))
<1> DEFINE f == [C \in Chains(letters, s) |-> C \cup {e}]
<1>1. s \in Nat
  BY DEF LastStarts
<1>2. f \in [Chains(letters, s) -> Extended(letters, s, e)]
  BY DEF Extended
<1>3. \A A, B \in Chains(letters, s) : f[A] = f[B] => A = B
  <2> SUFFICES ASSUME NEW A \in Chains(letters, s), NEW B \in Chains(letters, s), A \cup {e} = B \cup {e}
               PROVE  A = B
    OBVIOUS
  <2>1. e \notin A /\ e \notin B
    BY ChainWith
  <2> QED BY <2>1
<1>4. \A D \in Extended(letters, s, e) : \E C \in Chains(letters, s) : f[C] = D
  BY DEF Extended
<1>5. f \in Bijection(Chains(letters, s), Extended(letters, s, e))
  <2>1. DOMAIN f = Chains(letters, s)
    OBVIOUS
  <2> HIDE DEF f
  <2> QED BY <1>2, <1>3, <1>4, <2>1 DEF Bijection, Injection, Surjection, IsInjective
<1>6. ExistsBijection(Chains(letters, s), Extended(letters, s, e))
  BY <1>5 DEF ExistsBijection
<1> QED BY <1>1, <1>6, ChainsFinite, FS_Bijection

LEMMA ChainsAdd ==
  ASSUME NEW letters, NEW e \in Nat \ {0}, NEW count,
         \A s \in LastStarts(letters, e) : count[s] = Cardinality(Chains(letters, s))
  PROVE  /\ IsFiniteSet(LastStarts(letters, e))
         /\ Cardinality(Chains(letters, e)) = SumFunctionOnSet(count, LastStarts(letters, e))
<1> DEFINE S == LastStarts(letters, e)
           F == [s \in S |-> Extended(letters, s, e)]
<1>1. IsFiniteSet(S)
  <2>1. S \in SUBSET (0..(e - 1)) /\ IsFiniteSet(0..(e - 1))
    BY FS_Interval DEF LastStarts
  <2> QED BY <2>1, FS_Subset
<1>2. Chains(letters, e) = UNION {F[s] : s \in S}
  <2>1. ASSUME NEW D \in Chains(letters, e) PROVE D \in UNION {F[s] : s \in S}
    <3>1. PICK s \in S : D \ {e} \in Chains(letters, s)
      BY ChainWithout
    <3>2. D = (D \ {e}) \cup {e}
      BY DEF Chains
    <3>3. D \in F[s]
      BY <3>1, <3>2 DEF Extended
    <3> QED BY <3>3
  <2>2. ASSUME NEW s \in S, NEW D \in F[s] PROVE D \in Chains(letters, e)
    <3>1. PICK C \in Chains(letters, s) : D = C \cup {e}
      BY <2>2 DEF Extended
    <3> QED BY <3>1, ChainWith
  <2> QED BY <2>1, <2>2
<1>3. ASSUME NEW s \in S, NEW t \in S, s # t PROVE F[s] \cap F[t] = {}
  <2> SUFFICES ASSUME NEW D \in F[s], D \in F[t] PROVE FALSE
    OBVIOUS
  <2>1. PICK A \in Chains(letters, s) : D = A \cup {e}
    BY DEF Extended
  <2>2. PICK B \in Chains(letters, t) : D = B \cup {e}
    BY DEF Extended
  <2>3. e \notin A /\ e \notin B
    BY ChainWith
  <2>6. A = B
    BY <2>1, <2>2, <2>3
  <2>4. s \in 0..t /\ t \in 0..s
    BY <2>1, <2>2, <2>6 DEF Chains
  <2>5. s \in Nat /\ t \in Nat
    BY DEF LastStarts
  <2> QED BY <1>3, <2>4, <2>5
<1>4. \A s \in S : IsFiniteSet(F[s]) /\ count[s] = Cardinality(F[s])
  BY ExtendedCount
<1> HIDE DEF S, F
<1>5. Cardinality(UNION {F[s] : s \in S}) = SumFunctionOnSet(count, S)
  BY <1>1, <1>3, <1>4, UnionSum
<1> QED BY <1>1, <1>2, <1>5 DEF S

(***************************************************************************)
(* spelling_count tries every start a word of the list could have.         *)
(***************************************************************************)
LEMMA StartsAreAll ==
  ASSUME list \in Lists, NEW letters \in Seq(Letters), NEW e \in 1..Len(letters)
  PROVE  {s \in Starts(e) : SubSeq(letters, s + 1, e) \in list} = LastStarts(letters, e)
<1>1. min_len \in Nat \ {0} /\ max_len \in Nat /\ e \in Nat \ {0} /\ Len(letters) \in Nat
  BY LengthBounds
<1>2. ASSUME NEW s \in Starts(e) PROVE s \in 0..(e - 1)
  BY <1>1 DEF Starts
<1>3. ASSUME NEW s \in 0..(e - 1), SubSeq(letters, s + 1, e) \in list PROVE s \in Starts(e)
  <2>1. \A i \in (s + 1)..e : letters[i] \in Letters
    BY <1>1
  <2>2. Len(SubSeq(letters, s + 1, e)) = e - s
    BY <1>1, <2>1, SubSeqProperties
  <2>3. min_len <= e - s /\ e - s <= max_len
    BY <1>3, <2>2, LengthBounds
  <2> QED BY <1>1, <2>3 DEF Starts
<1> QED BY <1>2, <1>3 DEF LastStarts, IsWord

Counted_(letters, e, limit) == UpToLimit(Cardinality(Chains(letters, e)), limit)

\* The recursion of spelling_count.
Turn(ways, letters, e, limit) ==
  IF e = 0 THEN 1
  ELSE LET last  == {s \in Starts(e) : SubSeq(letters, s + 1, e) \in list}
           total == SumFunction([s \in last |-> ways[s]])
       IN  IF total < limit THEN total ELSE limit

LEMMA TurnIs ==
  ASSUME list \in Lists, NEW letters \in Seq(Letters), NEW e \in 0..Len(letters), NEW limit \in Nat \ {0},
         NEW ways, \A s \in 0..(e - 1) : ways[s] = Counted_(letters, s, limit)
  PROVE  Turn(ways, letters, e, limit) = Counted_(letters, e, limit)
<1>1. CASE e = 0
  BY <1>1, NoChain DEF Turn, Counted_, UpToLimit
<1>2. CASE e # 0
  <2> DEFINE last == {s \in Starts(e) : SubSeq(letters, s + 1, e) \in list}
             some == [s \in last |-> ways[s]]
             all  == [s \in last |-> Cardinality(Chains(letters, s))]
  <2>1. e \in Nat \ {0} /\ e \in 1..Len(letters)
    BY <1>2
  <2>2. last = LastStarts(letters, e)
    BY <2>1, StartsAreAll
  <2>3. last \subseteq 0..(e - 1)
    BY <2>2 DEF LastStarts
  <2>4. DOMAIN some = last /\ \A s \in last : some[s] = ways[s] /\ all[s] = Cardinality(Chains(letters, s))
    OBVIOUS
  <2>5. Turn(ways, letters, e, limit) = UpToLimit(SumFunctionOnSet(some, last), limit)
    BY <1>2, <2>4 DEF Turn, SumFunction, UpToLimit
  <2> HIDE DEF last, some, all
  <2>6. \A s \in last : all[s] \in Nat /\ some[s] = UpToLimit(all[s], limit)
    <3> TAKE s \in last
    <3>1. s \in 0..(e - 1) /\ s \in Nat
      BY <2>1, <2>3
    <3> QED BY <2>4, <3>1, ChainsFinite DEF Counted_
  <2>7. IsFiniteSet(last) /\ Cardinality(Chains(letters, e)) = SumFunctionOnSet(all, last)
    BY <2>1, <2>2, <2>4, ChainsAdd
  <2>8. UpToLimit(SumFunctionOnSet(some, last), limit) = UpToLimit(SumFunctionOnSet(all, last), limit)
    BY <2>6, <2>7, SumLimited
  <2> QED BY <2>5, <2>7, <2>8 DEF Counted_
<1> QED BY <1>1, <1>2

(***************************************************************************)
(* It counts the chains, up to its limit: they solve its recursion, and a  *)
(* first letter at which another solution differs is not to be had.        *)
(***************************************************************************)
LEMMA CountsChains ==
  ASSUME list \in Lists, NEW letters \in Seq(Letters), NEW limit \in Nat \ {0}
  PROVE  spelling_count(letters, limit) = Counted_(letters, Len(letters), limit)
<1> DEFINE Solves(ways) == ways = [e \in 0..Len(letters) |-> Turn(ways, letters, e, limit)]
           count == [e \in 0..Len(letters) |-> Counted_(letters, e, limit)]
           ways  == CHOOSE w : Solves(w)
<1>1. Len(letters) \in Nat
  OBVIOUS
<1>2. Solves(count)
  <2>1. ASSUME NEW e \in 0..Len(letters) PROVE count[e] = Turn(count, letters, e, limit)
    <3>1. \A s \in 0..(e - 1) : count[s] = Counted_(letters, s, limit)
      BY <1>1
    <3> HIDE DEF count
    <3>2. Turn(count, letters, e, limit) = Counted_(letters, e, limit)
      BY <3>1, TurnIs
    <3> QED BY <3>2 DEF count
  <2> QED BY <2>1
<1>3. Solves(ways)
  <2> HIDE DEF count
  <2> QED BY <1>2
<1>4. ASSUME NEW w, Solves(w) PROVE \A e \in 0..Len(letters) : w[e] = Counted_(letters, e, limit)
  <2> DEFINE Off == {e \in 0..Len(letters) : w[e] # Counted_(letters, e, limit)}
  <2> SUFFICES ASSUME Off # {} PROVE FALSE
    OBVIOUS
  <2>1. Off \subseteq Nat
    BY <1>1
  <2>2. PICK e \in Off : \A d \in Off : e <= d
    BY <2>1, Least
  <2>3. e \in 0..Len(letters) /\ w[e] # Counted_(letters, e, limit)
    OBVIOUS
  <2>4. ASSUME NEW s \in 0..(e - 1) PROVE w[s] = Counted_(letters, s, limit)
    <3>1. s \in 0..Len(letters) /\ ~ (e <= s)
      BY <1>1, <2>3
    <3> QED BY <2>2, <3>1
  <2>5. w[e] = Turn(w, letters, e, limit)
    BY <1>4, <2>3
  <2> HIDE DEF Off, Solves
  <2>6. Turn(w, letters, e, limit) = Counted_(letters, e, limit)
    BY <2>3, <2>4, TurnIs
  <2> QED BY <2>3, <2>5, <2>6
<1>5. spelling_count(letters, limit) = ways[Len(letters)]
  BY DEF spelling_count, Turn
<1> HIDE DEF ways, Solves
<1>6. \A e \in 0..Len(letters) : ways[e] = Counted_(letters, e, limit)
  BY <1>3, <1>4
<1> QED BY <1>1, <1>5, <1>6

(***************************************************************************)
(* A spelling with the ends of the name is a chain to its end.             *)
(***************************************************************************)
Ends(letters) == {0, Len(letters)}

LEMMA LastPieceIs ==
  ASSUME NEW letters \in Seq(Letters), letters # <<>>, NEW cuts \in SUBSET (1..Len(letters) - 1), NEW c \in cuts \cup {0}
  PROVE  \E d \in cuts \cup Ends(letters) : /\ Next_(cuts \cup Ends(letters), c, d)
                                            /\ Piece(letters, cuts, c) = SubSeq(letters, c + 1, d)
<1> DEFINE T == {d \in cuts \cup {Len(letters)} : d > c}
<1>1. Len(letters) \in Nat \ {0}
  BY EmptySeq
<1>2. T \subseteq Nat /\ Len(letters) \in T
  <2>1. PICK n \in Nat \ {0} : n = Len(letters)
    BY <1>1
  <2>2. \A d \in cuts \cup {0} : d \in Nat /\ d < n
    BY <2>1
  <2> QED BY <2>1, <2>2
<1>3. \E d \in T : \A x \in T : d <= x
  BY <1>2, Least
<1>4. Piece(letters, cuts, c) = SubSeq(letters, c + 1, Min(T))
  BY DEF Piece
<1>5. Min(T) \in T /\ \A x \in T : Min(T) <= x
  <2> HIDE DEF T
  <2> QED BY <1>3 DEF Min
<1>6. PICK d \in T : d = Min(T)
  BY <1>5
<1>7. ASSUME NEW x \in cuts \cup Ends(letters) PROVE x <= c \/ d <= x
  <2>1. CASE x \in T
    BY <1>5, <1>6, <2>1
  <2>2. CASE x \notin T
    BY <1>1, <2>2 DEF Ends
  <2> QED BY <2>1, <2>2
<1>8. d \in cuts \cup Ends(letters) /\ c < d
  BY <1>1 DEF Ends
<1> QED BY <1>4, <1>6, <1>7, <1>8 DEF Next_

LEMMA SpellingIsChain ==
  ASSUME NEW letters \in Seq(Letters), letters # <<>>, NEW cuts \in SUBSET (1..Len(letters) - 1)
  PROVE  cuts \in Spellings(letters) <=> cuts \cup Ends(letters) \in Chains(letters, Len(letters))
<1> DEFINE C == cuts \cup Ends(letters)
<1>1. Len(letters) \in Nat \ {0}
  BY EmptySeq
<1>2. C \subseteq 0..Len(letters) /\ 0 \in C /\ Len(letters) \in C
  <2>1. PICK n \in Nat \ {0} : n = Len(letters)
    BY <1>1
  <2>2. \A d \in cuts : d \in 0..n
    BY <2>1
  <2>3. \A d \in Ends(letters) : d \in 0..n
    BY <2>1 DEF Ends
  <2>4. 0 \in C /\ n \in C
    BY <2>1 DEF Ends
  <2> QED BY <2>1, <2>2, <2>3, <2>4
<1>3. ASSUME cuts \in Spellings(letters), NEW c \in C, NEW d \in C, Next_(C, c, d)
      PROVE  IsWord(letters, c, d)
  <2>1. c \in cuts \cup {0}
    BY <1>1, <1>2, <1>3 DEF Next_, Ends
  <2>2. PICK x \in C : Next_(C, c, x) /\ Piece(letters, cuts, c) = SubSeq(letters, c + 1, x)
    BY <2>1, LastPieceIs
  <2>3. x = d
    BY <1>1, <1>2, <1>3, <2>2 DEF Next_
  <2> QED BY <1>3, <2>1, <2>2, <2>3 DEF Spellings, IsWord
<1>4. ASSUME C \in Chains(letters, Len(letters)), NEW c \in cuts \cup {0}
      PROVE  Piece(letters, cuts, c) \in list
  <2>1. PICK x \in C : Next_(C, c, x) /\ Piece(letters, cuts, c) = SubSeq(letters, c + 1, x)
    BY LastPieceIs
  <2>2. c \in C
    BY DEF Ends
  <2> QED BY <1>4, <2>1, <2>2 DEF Chains, IsWord
<1> QED BY <1>2, <1>3, <1>4 DEF Chains, Spellings

LEMMA SpellingsCount ==
  ASSUME NEW letters \in Seq(Letters), letters # <<>>
  PROVE  /\ IsFiniteSet(Spellings(letters))
         /\ Cardinality(Spellings(letters)) = Cardinality(Chains(letters, Len(letters)))
<1> DEFINE S == Spellings(letters)
           T == Chains(letters, Len(letters))
           f == [D \in T |-> D \ Ends(letters)]
<1>1. Len(letters) \in Nat \ {0}
  BY EmptySeq
<1>2. \A D \in T : /\ D \ Ends(letters) \in SUBSET (1..Len(letters) - 1)
                   /\ (D \ Ends(letters)) \cup Ends(letters) = D
  <2>1. PICK n \in Nat \ {0} : n = Len(letters)
    BY <1>1
  <2> TAKE D \in T
  <2>2. D \in SUBSET (0..n) /\ 0 \in D /\ n \in D
    BY <2>1 DEF Chains
  <2>3. \A d \in D \ {0, n} : d \in 1..n - 1
    BY <2>1, <2>2
  <2>4. (D \ {0, n}) \cup {0, n} = D
    BY <2>2
  <2> QED BY <2>1, <2>3, <2>4 DEF Ends
<1>3. f \in [T -> S]
  <2>1. ASSUME NEW D \in T PROVE D \ Ends(letters) \in S
    BY <1>2, SpellingIsChain
  <2> QED BY <2>1
<1>4. \A A, B \in T : f[A] = f[B] => A = B
  BY <1>2
<1>5. ASSUME NEW cuts \in S PROVE \E D \in T : f[D] = cuts
  <2>1. cuts \in SUBSET (1..Len(letters) - 1)
    BY DEF Spellings
  <2>2. cuts \cup Ends(letters) \in T
    BY <2>1, SpellingIsChain
  <2>3. (cuts \cup Ends(letters)) \ Ends(letters) = cuts
    BY <1>1, <2>1 DEF Ends
  <2> QED BY <2>2, <2>3
<1>6. f \in Bijection(T, S)
  <2>1. DOMAIN f = T
    OBVIOUS
  <2> HIDE DEF f, S, T
  <2> QED BY <1>3, <1>4, <1>5, <2>1 DEF Bijection, Injection, Surjection, IsInjective
<1>7. ExistsBijection(T, S) /\ IsFiniteSet(T)
  BY <1>1, <1>6, ChainsFinite DEF ExistsBijection
<1> QED BY <1>7, FS_Bijection

LEMMA SpellingCount ==
  ASSUME list \in Lists, NEW letters \in Seq(Letters), letters # <<>>, NEW limit \in Nat \ {0}
  PROVE  spelling_count(letters, limit) = UpToLimit(Cardinality(Spellings(letters)), limit)
BY CountsChains, SpellingsCount DEF Counted_

(***************************************************************************)
(* A draw of n words has a chain of n words.                               *)
(***************************************************************************)
LEMMA DrawnChain ==
  ASSUME list \in Lists, NEW n \in Nat \ {0}, NEW p \in [1..n -> list]
  PROVE  /\ FlattenSeq(p) \in Seq(Letters) /\ FlattenSeq(p) # <<>>
         /\ \E C \in Chains(FlattenSeq(p), Len(FlattenSeq(p))) : IsFiniteSet(C) /\ Cardinality(C) = n + 1
<1>1. PICK F : Joins(F, p, n) /\ FlattenSeq(p) = F[n]
  BY FlattenJoins
<1>2. p \in [1..n -> Pieces(Letters)] /\ n \in 1..n /\ 0 \in 0..n /\ n \in 0..n /\ n # 0
  <2>1. \A w \in list : w \in Seq(Letters) /\ Len(w) # 0
    BY ListIs
  <2>2. \A w \in list : w \in Pieces(Letters)
    BY <2>1, EmptySeq DEF Pieces
  <2> QED BY <2>2
<1> DEFINE C == {End(F, i) : i \in 0..n}
           f == [i \in 0..n |-> End(F, i)]
<1>3. F[n] \in Seq(Letters) /\ End(F, n) = Len(F[n]) /\ End(F, n) \in Nat /\ End(F, 0) = 0
  BY <1>1, <1>2, EndsRise DEF End
<1>4. \A i, j \in 0..n : i < j => End(F, i) < End(F, j)
  BY <1>1, <1>2, EndsRank
<1>5. \A i \in 0..n : End(F, i) \in Nat
  BY <1>1, <1>2, EndsRise
<1>6. Len(F[n]) > 0
  BY <1>2, <1>3, <1>4
<1>7. C \subseteq 0..Len(F[n])
  <2>1. \A i \in 0..n : i < n \/ i = n
    OBVIOUS
  <2>2. \A i \in 0..n : End(F, i) \in 0..Len(F[n])
    BY <1>2, <1>3, <1>4, <1>5, <2>1
  <2> QED BY <2>2
<1>8. 0 \in C /\ Len(F[n]) \in C
  BY <1>2, <1>3
<1>9. ASSUME NEW c \in C, NEW d \in C, Next_(C, c, d) PROVE IsWord(F[n], c, d)
  <2>1. PICK i \in 0..n : c = End(F, i)
    OBVIOUS
  <2>2. PICK j \in 0..n : d = End(F, j)
    OBVIOUS
  <2>3. c < d /\ \A h \in 0..n : End(F, h) <= c \/ d <= End(F, h)
    BY <1>9 DEF Next_
  <2>4. i < j
    <3>1. j < i => End(F, j) < End(F, i)
      BY <1>4
    <3>2. End(F, i) \in Nat /\ End(F, j) \in Nat
      BY <1>5
    <3>3. End(F, i) < End(F, j)
      BY <2>1, <2>2, <2>3
    <3>4. ~ (j < i) /\ j # i
      BY <3>1, <3>2, <3>3
    <3> QED BY <3>4
  <2>5. i + 1 \in 0..n /\ i + 1 \in 1..n /\ (i + 1) - 1 = i
    BY <2>4
  <2>6. End(F, i) < End(F, i + 1)
    <3>1. i < i + 1
      OBVIOUS
    <3> QED BY <1>4, <2>5, <3>1
  <2>7. d <= End(F, i + 1)
    <3>1. End(F, i + 1) \in Nat /\ End(F, i) \in Nat
      BY <1>5, <2>5
    <3> QED BY <2>1, <2>3, <2>5, <2>6, <3>1
  <2>8. j = i + 1
    <3>1. i + 1 < j => End(F, i + 1) < End(F, j)
      BY <1>4, <2>5
    <3>2. End(F, i + 1) \in Nat /\ End(F, j) \in Nat
      BY <1>5, <2>5
    <3>3. ~ (i + 1 < j)
      BY <2>2, <2>7, <3>1, <3>2
    <3> QED BY <2>4, <3>3
  <2>9. SubSeq(F[n], End(F, (i + 1) - 1) + 1, End(F, i + 1)) = p[i + 1]
    BY <1>1, <2>5, <1>2, PieceStays
  <2>10. SubSeq(F[n], c + 1, d) = p[i + 1] /\ p[i + 1] \in list
    BY <2>1, <2>2, <2>5, <2>8, <2>9
  <2> QED BY <2>10 DEF IsWord
<1>10. f \in Bijection(0..n, C)
  <2>1. f \in [0..n -> C] /\ DOMAIN f = 0..n /\ \A c \in C : \E i \in 0..n : f[i] = c
    OBVIOUS
  <2>2. \A i, j \in 0..n : f[i] = f[j] => i = j
    <3> SUFFICES ASSUME NEW i \in 0..n, NEW j \in 0..n, End(F, i) = End(F, j), i # j PROVE FALSE
      OBVIOUS
    <3>1. i < j \/ j < i
      OBVIOUS
    <3>2. End(F, i) \in Nat
      BY <1>5
    <3> QED BY <1>4, <3>1, <3>2
  <2> HIDE DEF f, C
  <2> QED BY <2>1, <2>2 DEF Bijection, Injection, Surjection, IsInjective
<1>11. IsFiniteSet(0..n) /\ Cardinality(0..n) = n + 1
  BY FS_Interval
<1> HIDE DEF f, C
<1>12. IsFiniteSet(C) /\ Cardinality(C) = n + 1
  <2>1. ExistsBijection(0..n, C)
    BY <1>10 DEF ExistsBijection
  <2> QED BY <1>11, <2>1, FS_Bijection
<1>13. C \in Chains(F[n], Len(F[n]))
  BY <1>7, <1>8, <1>9 DEF Chains
<1>14. F[n] # <<>>
  BY <1>6
<1> QED BY <1>1, <1>3, <1>12, <1>13, <1>14

LEMMA DrawnSpelling ==
  ASSUME list \in Lists, NEW n \in Nat \ {0}, NEW p \in [1..n -> list]
  PROVE  \E cuts \in Spellings(FlattenSeq(p)) : Cardinality(cuts) = n - 1
<1> DEFINE letters == FlattenSeq(p)
<1>1. letters \in Seq(Letters) /\ letters # <<>>
  BY DrawnChain
<1>2. PICK C \in Chains(letters, Len(letters)) : IsFiniteSet(C) /\ Cardinality(C) = n + 1
  BY DrawnChain
<1> HIDE DEF letters
<1>3. PICK m \in Nat \ {0} : m = Len(letters)
  BY <1>1, EmptySeq
<1>4. C \in SUBSET (0..m) /\ 0 \in C /\ m \in C
  BY <1>3 DEF Chains
<1>5. IsFiniteSet(C \ {0}) /\ Cardinality(C \ {0}) = n
  BY <1>2, <1>4, FS_RemoveElement
<1>6. Cardinality((C \ {0}) \ {m}) = n - 1
  <2>1. m \in C \ {0}
    BY <1>3, <1>4
  <2> QED BY <1>5, <2>1, FS_RemoveElement
<1>7. (C \ {0}) \ {m} = C \ Ends(letters)
  BY <1>3 DEF Ends
<1>8. \A d \in C \ Ends(letters) : d \in 1..m - 1
  BY <1>3, <1>4 DEF Ends
<1>9. (C \ Ends(letters)) \cup Ends(letters) = C
  BY <1>3, <1>4 DEF Ends
<1>10. C \ Ends(letters) \in Spellings(letters)
  BY <1>1, <1>3, <1>8, <1>9, SpellingIsChain
<1> QED BY <1>6, <1>7, <1>10 DEF letters

(***************************************************************************)
(* pick_index: of the raw values it keeps, as many leave each remainder.   *)
(***************************************************************************)
LEMMA OneQuotient ==
  ASSUME NEW n \in Nat \ {0}, NEW k \in Nat, NEW i \in 0..(n - 1), NEW h \in Nat, NEW j \in 0..(n - 1),
         k * n + i = h * n + j
  PROVE  k = h /\ i = j
<1>1. k * n \in Nat /\ h * n \in Nat
  BY Times
<1>2. ~ (k < h)
  <2>1. k < h => k * n + n <= h * n
    BY Times
  <2> QED BY <1>1, <2>1
<1>3. ~ (h < k)
  <2>1. h < k => h * n + n <= k * n
    BY Times
  <2> QED BY <1>1, <2>1
<1>4. k = h
  BY <1>2, <1>3
<1> QED BY <1>1, <1>4

LEMMA Remainders ==
  ASSUME NEW n \in Nat \ {0}, NEW q \in Nat, NEW i \in 0..(n - 1)
  PROVE  /\ IsFiniteSet({v \in 0..(q * n - 1) : (v % n) = i})
         /\ Cardinality({v \in 0..(q * n - 1) : (v % n) = i}) = q
<1> DEFINE T == {v \in 0..(q * n - 1) : (v % n) = i}
           f == [k \in 0..(q - 1) |-> k * n + i]
<1>1. q * n \in Nat
  BY Times
<1>2. ASSUME NEW k \in 0..(q - 1) PROVE k * n + i \in T
  <2>1. k \in Nat /\ k < q /\ k * n \in Nat
    BY Times
  <2>2. k * n + n <= q * n
    BY <2>1, Times
  <2>3. PICK v \in Nat : v = k * n + i
    BY <2>1
  <2>4. v \in 0..(q * n - 1)
    BY <1>1, <2>1, <2>2, <2>3
  <2>5. PICK h \in Nat, j \in 0..(n - 1) : v = h * n + j /\ j = v % n
    BY Quotient
  <2>6. i = j
    <3>1. k * n + i = h * n + j
      BY <2>3, <2>5
    <3> QED BY <2>1, <3>1, OneQuotient
  <2> QED BY <2>3, <2>4, <2>5, <2>6
<1>3. ASSUME NEW v \in T PROVE \E k \in 0..(q - 1) : k * n + i = v
  <2>1. v \in 0..(q * n - 1) /\ v \in Nat /\ (v % n) = i
    BY <1>1
  <2>2. PICK h \in Nat : v = h * n + i
    BY <2>1, Quotient
  <2>3. ~ (q <= h)
    <3>1. h * n \in Nat
      BY Times
    <3>2. q < h => q * n + n <= h * n
      BY Times
    <3>3. h * n < q * n
      BY <1>1, <2>1, <2>2, <3>1
    <3>4. q # h
      BY <1>1, <3>3
    <3> QED BY <1>1, <3>1, <3>2, <3>3, <3>4
  <2> QED BY <2>2, <2>3
<1>4. \A k, h \in 0..(q - 1) : f[k] = f[h] => k = h
  <2> SUFFICES ASSUME NEW k \in 0..(q - 1), NEW h \in 0..(q - 1), k * n + i = h * n + i PROVE k = h
    OBVIOUS
  <2> QED BY OneQuotient
<1>5. f \in Bijection(0..(q - 1), T)
  <2>1. DOMAIN f = 0..(q - 1) /\ f \in [0..(q - 1) -> T]
    BY <1>2
  <2>2. \A v \in T : \E k \in 0..(q - 1) : f[k] = v
    BY <1>3
  <2> HIDE DEF f, T
  <2> QED BY <1>4, <2>1, <2>2 DEF Bijection, Injection, Surjection, IsInjective
<1>6. IsFiniteSet(0..(q - 1)) /\ Cardinality(0..(q - 1)) = q
  BY FS_Interval
<1> HIDE DEF f, T
<1>7. IsFiniteSet(T) /\ Cardinality(T) = q
  <2>1. ExistsBijection(0..(q - 1), T)
    BY <1>5 DEF ExistsBijection
  <2> QED BY <1>6, <2>1, FS_Bijection
<1> QED BY <1>7 DEF T

\* The words in the order they are numbered.
LEMMA Numbered ==
  ASSUME NEW S, IsFiniteSet(S), NEW words, words = SetToSeq(S)
  PROVE  /\ words \in [1..Cardinality(S) -> S] /\ Len(words) = Cardinality(S)
         /\ \A w \in S : \E j \in 1..Cardinality(S) : words[j] = w
         /\ \A i, j \in 1..Cardinality(S) : words[i] = words[j] => i = j
<1> DEFINE D == 1..Cardinality(S)
<1>1. Cardinality(S) \in Nat /\ ExistsBijection(D, S)
  BY FS_CardinalityType
<1>2. \E f \in [D -> S] : IsInjective(f)
  BY <1>1 DEF ExistsBijection, Bijection, Injection
<1>3. words \in [D -> S] /\ IsInjective(words)
  BY <1>2 DEF SetToSeq
<1>4. words \in Injection(D, S)
  BY <1>3 DEF Injection
<1>5. Cardinality(D) = Cardinality(S)
  BY <1>1, FS_Interval
<1>6. words \in Surjection(D, S)
  BY <1>4, <1>5, FS_Injection
<1>7. Len(words) = Cardinality(S)
  BY <1>1, <1>3
<1> QED BY <1>3, <1>6, <1>7 DEF Surjection, IsInjective

LEMMA PickedEvenly ==
  ASSUME list \in Lists
  PROVE  PickIsUniform
<1> DEFINE words == SetToSeq(list)
           n == Cardinality(list)
           q == Raws \div n
           Hits(w) == {v \in Unbiased(n) : words[Index(v, n) + 1] = w}
<1>1. IsFiniteSet(list) /\ n \in Nat \ {0} /\ n <= MaxList /\ MaxList \in Nat /\ MaxList <= Raws /\ Raws \in Nat
  BY ListIs, DrawAssumption
<1>2. /\ words \in [1..n -> list] /\ Len(words) = n
      /\ \A w \in list : \E j \in 1..n : words[j] = w
      /\ \A i, j \in 1..n : words[i] = words[j] => i = j
  BY <1>1, Numbered
<1> HIDE DEF words, n
<1>3. q \in Nat /\ q * n \in Nat /\ q * n <= Raws /\ q > 0
  <2>1. q \in Nat /\ (Raws % n) \in 0..(n - 1) /\ Raws = q * n + (Raws % n)
    BY <1>1, Quotient
  <2> HIDE DEF q
  <2>2. q * n \in Nat
    BY <1>1, <2>1, Times
  <2>3. q # 0
    BY <1>1, <2>1
  <2>4. PICK r \in 0..(n - 1) : r = Raws % n
    BY <2>1
  <2> QED BY <1>1, <2>1, <2>2, <2>3, <2>4
<1>4. Unbiased(n) = 0..(q * n - 1)
  BY DEF Unbiased
<1> HIDE DEF q
<1>5. Unbiased(n) \subseteq 0..(Raws - 1)
  BY <1>1, <1>3, <1>4
<1>6. ASSUME NEW w \in list PROVE Cardinality(Hits(w)) = q
  <2>1. PICK j \in 1..n : words[j] = w
    BY <1>2
  <2>2. PICK i \in 0..(n - 1) : j = i + 1
    BY <1>1
  <2>3. Hits(w) = {v \in 0..(q * n - 1) : (v % n) = i}
    <3>1. ASSUME NEW v \in 0..(q * n - 1) PROVE words[Index(v, n) + 1] = w <=> (v % n) = i
      <4>1. PICK r \in 0..(n - 1) : r = v % n
        BY <1>1, <1>3, Quotient
      <4>2. r + 1 \in 1..n
        BY <1>1
      <4>3. words[r + 1] = w <=> r + 1 = j
        BY <1>2, <2>1, <4>2
      <4> QED BY <1>1, <2>2, <4>1, <4>3 DEF Index
    <3> QED BY <1>4, <3>1
  <2> QED BY <1>1, <1>3, <2>3, Remainders
<1> HIDE DEF Hits
<1>7. \A v, w \in list : Cardinality(Hits(v)) = Cardinality(Hits(w)) /\ Cardinality(Hits(w)) > 0
  BY <1>3, <1>6
<1> QED BY <1>2, <1>5, <1>7 DEF PickIsUniform, words, Hits
-----------------------------------------------------------------------------
(* The theorems. *)

DrawTypeOK == /\ list \in Lists /\ tier \in Nat \ {0}
              /\ name \in Seq(Letters) /\ issued \in BOOLEAN

\* An issued name was drawn, and passed both tests.
Passed == issued => /\ name # <<>> /\ name \notin reserved
                    /\ is_uniquely_spelled(name)
                    /\ \E cuts \in Spellings(name) : Cardinality(cuts) = tier - 1

DInv == DrawTypeOK /\ Passed

LEMMA DrawInitHolds == DrawInit => DInv
<1> SUFFICES ASSUME DrawInit PROVE DInv
  OBVIOUS
<1>1. tier \in Nat \ {0}
  BY DrawAssumption DEF DrawInit
<1>2. list \in Lists /\ name = <<>> /\ issued = FALSE
  BY DEF DrawInit
<1>3. DrawTypeOK
  BY <1>1, <1>2, EmptySeq DEF DrawTypeOK
<1>4. Passed
  BY <1>2 DEF Passed
<1> QED BY <1>3, <1>4 DEF DInv

LEMMA DrawKeeps == DInv /\ [Draw]_draw_vars => DInv'
<1> SUFFICES ASSUME DInv, [Draw]_draw_vars PROVE DInv'
  OBVIOUS
<1>1. CASE Draw
  <2>1. PICK picked \in [1..tier -> list] :
          /\ name' = FlattenSeq(picked)
          /\ issued' = (~ is_reserved_name(FlattenSeq(picked)) /\ is_uniquely_spelled(FlattenSeq(picked)))
    BY <1>1 DEF Draw
  <2>2. list' = list /\ reserved' = reserved /\ tier' = tier /\ list \in Lists /\ tier \in Nat \ {0}
    BY <1>1 DEF Draw, DInv, DrawTypeOK
  <2> DEFINE letters == FlattenSeq(picked)
  <2>3. letters \in Seq(Letters) /\ letters # <<>> /\ \E cuts \in Spellings(letters) : Cardinality(cuts) = tier - 1
    BY <2>1, <2>2, DrawnChain, DrawnSpelling
  <2>4. name' = letters /\ issued' = (~ is_reserved_name(letters) /\ is_uniquely_spelled(letters))
    BY <2>1
  <2> HIDE DEF letters
  <2>5. DrawTypeOK'
    BY <2>2, <2>3, <2>4 DEF DrawTypeOK
  <2>6. Passed'
    <3> SUFFICES ASSUME issued' PROVE Passed'
      BY DEF Passed
    <3>1. letters \notin reserved /\ is_uniquely_spelled(letters)
      BY <2>4 DEF is_reserved_name
    <3>2. Spellings(name)' = Spellings(letters)
      BY <2>2, <2>4 DEF Spellings, Piece
    <3>3. is_uniquely_spelled(name)'
      BY <2>2, <2>4, <3>1 DEF is_uniquely_spelled, spelling_count, Starts, min_len, max_len
    <3> QED BY <2>2, <2>3, <2>4, <3>1, <3>2, <3>3 DEF Passed
  <2> QED BY <2>5, <2>6 DEF DInv
<1>2. CASE UNCHANGED draw_vars
  BY <1>2 DEF DInv, DrawTypeOK, Passed, draw_vars, is_uniquely_spelled, spelling_count, Starts, min_len, max_len, Spellings, Piece
<1> QED BY <1>1, <1>2

LEMMA DrawInvariant == DrawSpec => []DInv
BY DrawInitHolds, DrawKeeps, PTL DEF DrawSpec

(***************************************************************************)
(* IssuedInItsTierOnly (NameDraw): whatever the word list, a name issued   *)
(* for so many words is spelled with so many and in no other way, so that  *)
(* no shorter tier reaches it, and it is no route of the server.           *)
(***************************************************************************)
THEOREM IssuedInOneTier == DrawSpec => []IssuedInItsTierOnly
<1>1. DInv => IssuedInItsTierOnly
  <2> SUFFICES ASSUME DInv, issued PROVE IssuedInItsTierOnly
    BY DEF IssuedInItsTierOnly
  <2>1. /\ name \in Seq(Letters) /\ name # <<>> /\ list \in Lists /\ name \notin reserved
        /\ spelling_count(name, 2) = 1
    BY DEF DInv, DrawTypeOK, Passed, is_uniquely_spelled
  <2>2. PICK cuts \in Spellings(name) : Cardinality(cuts) = tier - 1
    BY DEF DInv, Passed
  <2>3. IsFiniteSet(Spellings(name)) /\ Cardinality(Spellings(name)) \in Nat
    BY <2>1, SpellingsCount, FS_CardinalityType
  <2>4. UpToLimit(Cardinality(Spellings(name)), 2) = 1
    BY <2>1, SpellingCount
  <2>5. Cardinality(Spellings(name)) = 1
    BY <2>3, <2>4 DEF UpToLimit
  <2>6. \E x : Spellings(name) = {x}
    BY <2>3, <2>5, FS_Singleton
  <2> QED BY <2>1, <2>2, <2>6 DEF IssuedInItsTierOnly
<1> QED BY <1>1, DrawInvariant, PTL

(***************************************************************************)
(* DrawIsExact (NameDraw): spelling_count, with its bounds on word length  *)
(* and its limit, counts the ways a name can be cut into words, for any    *)
(* word list; pick_index draws each word of it equally often.              *)
(***************************************************************************)
THEOREM DrawsAreExact == DrawSpec => []DrawIsExact
<1>1. DInv => DrawIsExact
  <2> SUFFICES ASSUME DInv PROVE DrawIsExact
    OBVIOUS
  <2>1. list \in Lists /\ name \in Seq(Letters)
    BY DEF DInv, DrawTypeOK
  <2>2. ASSUME name # <<>>, NEW stop_at \in 1..3
        PROVE  spelling_count(name, stop_at) = Min({stop_at, Cardinality(Spellings(name))})
    <3>1. PICK n \in Nat : n = Cardinality(Spellings(name))
      BY <2>1, <2>2, SpellingsCount, FS_CardinalityType
    <3>2. Min({stop_at, n}) = UpToLimit(n, stop_at)
      <4>1. UpToLimit(n, stop_at) \in {stop_at, n} /\ \A y \in {stop_at, n} : UpToLimit(n, stop_at) <= y
        BY DEF UpToLimit
      <4>2. \A x \in {stop_at, n} : (\A y \in {stop_at, n} : x <= y) => x = UpToLimit(n, stop_at)
        BY DEF UpToLimit
      <4> QED BY <4>1, <4>2 DEF Min
    <3> QED BY <2>1, <2>2, <3>1, <3>2, SpellingCount
  <2>3. CountIsExact
    BY <2>2 DEF CountIsExact
  <2> QED BY <2>1, <2>3, PickedEvenly DEF DrawIsExact
<1> QED BY <1>1, DrawInvariant, PTL
=============================================================================
