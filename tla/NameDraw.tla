------------------------------ MODULE NameDraw ------------------------------
(***************************************************************************)
(* generate_name of core/src/link.rs: words are drawn, joined and the      *)
(* result refused when a route of the server has that name or when the     *)
(* joined letters can be cut into words in more than one way.  Letters are *)
(* case folded (the alternating case is decoration: names compare NOCASE), *)
(* and the word list is any small one.                                     *)
(***************************************************************************)
EXTENDS Integers, Sequences, FiniteSets, FiniteSetsExt, SequencesExt, Functions

CONSTANTS
  Letters,    \* the alphabet
  MaxLetters, \* bound: letters in a word
  MaxList,    \* bound: words in the list
  MaxTier,    \* bound: words in a name
  Raws        \* raw values pick_index draws from (65536 in the code)

\* Every word can be drawn (the debug_assert of pick_index).
ASSUME DrawAssumption ==
  /\ {MaxLetters, MaxList, MaxTier, Raws} \subseteq Nat
  /\ MaxList <= Raws

VARIABLES
  list,       \* the word list of this run
  reserved,   \* RESERVED_NAMES
  tier,       \* how many words are asked for
  name,       \* the last name drawn
  issued      \* whether it was returned

draw_vars == <<list, reserved, tier, name, issued>>

Words == UNION {[1..n -> Letters] : n \in 1..MaxLetters}
Lists == {l \in UNION {kSubset(n, Words) : n \in 1..MaxList} : IsFiniteSet(l)}

min_len == Min({Len(w) : w \in list})
max_len == Max({Len(w) : w \in list})

\* Mutated: the shortest word is not tried.
StartsShort(end) == (IF end > max_len THEN end - max_len ELSE 0)..(end - min_len - 1)

\* Where a word that ends at `end` may start.
Starts(end) == (IF end > max_len THEN end - max_len ELSE 0)..(end - min_len)

\* spelling_count: ways[i] spellings of the first i letters, counted to stop_at.
spelling_count(letters, stop_at) ==
  LET ways[end \in 0..Len(letters)] ==
        IF end = 0 THEN 1
        ELSE LET last  == {s \in Starts(end) : SubSeq(letters, s + 1, end) \in list}
                 total == SumFunction([s \in last |-> ways[s]])
             IN  IF total < stop_at THEN total ELSE stop_at
  IN  ways[Len(letters)]

\* Mutated: a name that cannot be cut at all, or in several ways, is good enough.
IsSpelled(letters) == spelling_count(letters, 2) >= 1

is_uniquely_spelled(letters) == spelling_count(letters, 2) = 1

\* pick_index: the values it keeps, and the index a kept value gives.
Unbiased(count) == 0..((Raws \div count) * count - 1)
Index(v, count) == v % count

is_reserved_name(letters) == letters \in reserved

Draw ==
  /\ ~ issued
  /\ \E picked \in [1..tier -> list] :
       LET letters == FlattenSeq(picked) IN
       /\ name' = letters
       /\ issued' = (~ is_reserved_name(letters) /\ is_uniquely_spelled(letters))
  /\ UNCHANGED <<list, reserved, tier>>

\* Routes are words' concatenations too: `word` and `list` spell `wordlist`.
DrawInit ==
  /\ list \in Lists
  /\ tier \in 1..MaxTier
  /\ reserved \in {{}} \cup {{v \o w} : v, w \in list} \cup {{w} : w \in list}
  /\ name = <<>>
  /\ issued = FALSE

DrawSpec == DrawInit /\ [][Draw]_draw_vars
-----------------------------------------------------------------------------
(***************************************************************************)
(* The reference: a spelling is a set of cuts whose pieces are all words.  *)
(***************************************************************************)
Piece(letters, cuts, c) ==
  SubSeq(letters, c + 1, Min({d \in cuts \cup {Len(letters)} : d > c}))

Spellings(letters) ==
  {cuts \in SUBSET (1..Len(letters) - 1) :
     \A c \in cuts \cup {0} : Piece(letters, cuts, c) \in list}

(***************************************************************************)
(* The letter-by-letter count with its bounds on word length and its       *)
(* saturation counts exactly the ways a name can be cut into words.        *)
(***************************************************************************)
CountIsExact ==
  name # <<>> =>
    \A stop_at \in 1..3 :
      spelling_count(name, stop_at) = Min({stop_at, Cardinality(Spellings(name))})

(***************************************************************************)
(* A name that was issued for k words can be reached by walking the names  *)
(* of k words only, and never shadows a route of the server.               *)
(***************************************************************************)
IssuedInItsTierOnly ==
  issued => /\ \A cuts \in Spellings(name) : Cardinality(cuts) = tier - 1
            /\ Spellings(name) # {}
            /\ name \notin reserved

(***************************************************************************)
(* pick_index favours no word: the raw values it keeps are all drawable,   *)
(* and equally many of them, at least one, give each word of the list.     *)
(***************************************************************************)
PickIsUniform ==
  LET words   == SetToSeq(list)
      kept    == Unbiased(Len(words))
      hits(w) == Cardinality({v \in kept : words[Index(v, Len(words)) + 1] = w})
  IN  /\ kept \subseteq 0..(Raws - 1)
      /\ \A v, w \in list : hits(v) = hits(w) /\ hits(w) > 0

(***************************************************************************)
(* A draw is what it is taken for: its spellings are counted exactly, and  *)
(* its words are drawn evenly.                                             *)
(***************************************************************************)
DrawIsExact == CountIsExact /\ PickIsUniform
=============================================================================
