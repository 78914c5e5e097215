---------------------------- MODULE CreateProofs ----------------------------
(***************************************************************************)
(* A link is what its creator asked for, and a form is refused for a cause *)
(* only, for texts of any length, any bounds on lifetimes and any number   *)
(* of links, posts and reloads (CreateRequirements).                       *)
(*                                                                         *)
(* A text is seen through the places where it is cut: what comes before    *)
(* the first of some atoms holds none of them, and the rest is empty or    *)
(* begins with one.  From that follows what an address is made of.         *)
(***************************************************************************)
EXTENDS CreateRequirements, DataLemmas

Text_ == Seq(Chars)
Free(atoms) == Seq(Chars \ atoms)

(***************************************************************************)
(* Texts joined from pieces.                                               *)
(***************************************************************************)
LEMMA JoinedIn ==
  ASSUME NEW S, NEW n \in Nat, NEW p \in [1..n -> Seq(S)]
  PROVE  FlattenSeq(p) \in Seq(S)
<1>1. CASE n = 0
  <2>1. Len(p) = 0 /\ p = <<>>
    BY <1>1
  <2> QED BY <2>1 DEF FlattenSeq
<1>2. CASE n # 0
  <2>1. PICK F : Joins(F, p, n) /\ FlattenSeq(p) = F[n]
    BY <1>2, FlattenJoins
  <2>2. \A i \in 1..n : F[i] = IF i = 1 THEN p[i] ELSE F[i - 1] \o p[i]
    BY <2>1 DEF Joins
  <2> DEFINE Failing == {i \in 1..n : F[i] \notin Seq(S)}
  <2> SUFFICES ASSUME Failing # {} PROVE FALSE
    BY <1>2, <2>1
  <2>3. Failing \subseteq Nat
    OBVIOUS
  <2>4. PICK i \in Failing : \A j \in Failing : i <= j
    BY <2>3, Least
  <2>5. i # 1
    BY <2>2, <2>4
  <2>6. i - 1 \in 1..n /\ i - 1 \notin Failing
    BY <2>4, <2>5
  <2>7. F[i - 1] \in Seq(S) /\ p[i] \in Seq(S) /\ F[i] = F[i - 1] \o p[i]
    BY <2>2, <2>4, <2>5, <2>6
  <2>8. F[i - 1] \o p[i] \in Seq(S)
    BY <2>7, ConcatProperties
  <2> QED BY <2>4, <2>7, <2>8
<1> QED BY <1>1, <1>2

LEMMA WithoutIn ==
  ASSUME NEW S, NEW s \in Seq(S), NEW atoms
  PROVE  Without(s, atoms) \in Seq(S \ atoms)
<1> DEFINE p == [i \in DOMAIN s |-> IF s[i] \in atoms THEN <<>> ELSE <<s[i]>>]
<1>1. Len(s) \in Nat /\ DOMAIN s = 1..Len(s) /\ \A i \in 1..Len(s) : s[i] \in S
  OBVIOUS
<1>2. ASSUME NEW i \in 1..Len(s) PROVE p[i] \in Seq(S \ atoms)
  <2>1. CASE s[i] \in atoms
    BY <1>1, <2>1
  <2>2. CASE s[i] \notin atoms
    <3>1. <<s[i]>> \in Seq(S \ atoms)
      BY <1>1, <2>2
    <3> QED BY <1>1, <2>2, <3>1
  <2> QED BY <2>1, <2>2
<1>3. p \in [1..Len(s) -> Seq(S \ atoms)]
  BY <1>1, <1>2
<1> HIDE DEF p
<1>4. FlattenSeq(p) \in Seq(S \ atoms)
  BY <1>1, <1>3, JoinedIn
<1> QED BY <1>4 DEF Without, p

\* A text without the atoms is left as it is.
LEMMA NothingWithout ==
  ASSUME NEW S, NEW s \in Seq(S), NEW atoms, \A i \in 1..Len(s) : s[i] \notin atoms
  PROVE  Without(s, atoms) = s
<1> DEFINE p == [i \in DOMAIN s |-> IF s[i] \in atoms THEN <<>> ELSE <<s[i]>>]
<1>1. Len(s) \in Nat /\ DOMAIN s = 1..Len(s) /\ \A i \in 1..Len(s) : s[i] \in S
  OBVIOUS
<1>2. p \in [1..Len(s) -> Seq(S)] /\ \A i \in 1..Len(s) : p[i] = <<s[i]>>
  BY <1>1
<1>3. FlattenSeq(p) = Without(s, atoms)
  BY DEF Without
<1> HIDE DEF p
<1>4. CASE Len(s) = 0
  <2>1. p = <<>> /\ Len(p) = 0 /\ s = <<>>
    BY <1>1, <1>2, <1>4
  <2> QED BY <1>3, <2>1 DEF FlattenSeq
<1>5. CASE Len(s) # 0
  <2>1. PICK F : Joins(F, p, Len(s)) /\ FlattenSeq(p) = F[Len(s)]
    BY <1>1, <1>2, <1>5, FlattenJoins
  <2>2. \A i \in 1..Len(s) : F[i] = IF i = 1 THEN p[i] ELSE F[i - 1] \o p[i]
    BY <2>1 DEF Joins
  <2> DEFINE Failing == {i \in 1..Len(s) : F[i] # SubSeq(s, 1, i)}
  <2>3. ASSUME Failing # {} PROVE FALSE
    <3>1. Failing \subseteq Nat
      OBVIOUS
    <3>2. PICK i \in Failing : \A j \in Failing : i <= j
      BY <2>3, <3>1, Least
    <3>3. CASE i = 1
      <4>1. F[1] = <<s[1]>>
        BY <1>2, <2>2, <3>2, <3>3
      <4>2. SubSeq(s, 1, 1) = <<s[1]>>
        <5>1. 1 \in 1..Len(s) /\ SubSeq(s, 1 + 1, 1) = <<>>
          BY <1>1, <1>5, SubSeqEmpty
        <5>2. SubSeq(s, 1, 1) = <<s[1]>> \o SubSeq(s, 1 + 1, 1)
          BY <5>1, SubSeqRecursiveFirst
        <5>3. <<s[1]>> \in Seq(S) /\ <<s[1]>> \o <<>> = <<s[1]>>
          BY <1>1, <5>1, ConcatEmptySeq
        <5> QED BY <5>1, <5>2, <5>3
      <4> QED BY <3>2, <3>3, <4>1, <4>2
    <3>4. CASE i # 1
      <4>1. i - 1 \in 1..Len(s) /\ i - 1 \notin Failing
        BY <3>2, <3>4
      <4>2. F[i] = SubSeq(s, 1, i - 1) \o <<s[i]>>
        BY <1>2, <2>2, <3>2, <3>4, <4>1
      <4>3. SubSeq(s, 1, i) = SubSeq(s, 1, i - 1) \o <<s[i]>>
        BY <3>2, <3>4, SubSeqRecursiveSecond
      <4> QED BY <3>2, <4>2, <4>3
    <3> QED BY <3>3, <3>4
  <2>4. F[Len(s)] = SubSeq(s, 1, Len(s))
    BY <1>1, <1>5, <2>3
  <2> QED BY <1>3, <2>1, <2>4, SubSeqFull
<1> QED BY <1>4, <1>5

(***************************************************************************)
(* Texts cut at the first of some atoms.                                   *)
(***************************************************************************)
LEMMA SmallestIs ==
  ASSUME NEW T, T \subseteq Nat, T # {}
  PROVE  Min(T) \in T /\ \A x \in T : Min(T) <= x
<1>1. \E x \in T : \A y \in T : x <= y
  BY Least
<1> QED BY <1>1 DEF Min

LEMMA AtIs ==
  ASSUME NEW S, NEW s \in Seq(S), NEW atoms
  PROVE  /\ At(s, atoms) \in 1..(Len(s) + 1)
         /\ \A i \in 1..(At(s, atoms) - 1) : s[i] \notin atoms
         /\ At(s, atoms) <= Len(s) => s[At(s, atoms)] \in atoms
<1> DEFINE T == {i \in DOMAIN s : s[i] \in atoms} \cup {Len(s) + 1}
<1>1. Len(s) \in Nat /\ DOMAIN s = 1..Len(s)
  OBVIOUS
<1>2. T \subseteq 1..(Len(s) + 1) /\ T \subseteq Nat /\ T # {}
  BY <1>1
<1>3. \A i \in 1..Len(s) : i \in T <=> s[i] \in atoms
  BY <1>1
<1> HIDE DEF T
<1>4. PICK m \in T : m = Min(T) /\ \A i \in T : m <= i
  BY <1>2, SmallestIs
<1>5. At(s, atoms) = m
  BY <1>4 DEF At, T
<1>6. m \in 1..(Len(s) + 1)
  BY <1>2, <1>4
<1>7. ASSUME NEW i \in 1..(m - 1) PROVE s[i] \notin atoms
  <2>1. i \in 1..Len(s) /\ i < m /\ i \notin T
    BY <1>1, <1>4, <1>6
  <2> QED BY <1>3, <2>1
<1>8. m <= Len(s) => s[m] \in atoms
  BY <1>1, <1>3, <1>4, <1>6
<1> QED BY <1>5, <1>6, <1>7, <1>8

LEMMA CutIs ==
  ASSUME NEW S, NEW s \in Seq(S), NEW atoms
  PROVE  /\ Upto(s, atoms) \in Seq(S \ atoms) /\ Upto(s, atoms) \in Seq(S)
         /\ From(s, atoms) \in Seq(S) /\ Past(s, atoms) \in Seq(S)
         /\ s = Upto(s, atoms) \o From(s, atoms)
         /\ From(s, atoms) # <<>> => From(s, atoms)[1] \in atoms
         /\ Has(s, atoms) <=> From(s, atoms) # <<>>
<1>1. PICK a \in 1..(Len(s) + 1) : /\ a = At(s, atoms)
                                   /\ \A i \in 1..(a - 1) : s[i] \notin atoms
                                   /\ a <= Len(s) => s[a] \in atoms
  BY AtIs
<1>2. Len(s) \in Nat /\ DOMAIN s = 1..Len(s) /\ \A i \in 1..Len(s) : s[i] \in S
  OBVIOUS
<1>3. Upto(s, atoms) = SubSeq(s, 1, a - 1) /\ From(s, atoms) = SubSeq(s, a, Len(s))
      /\ Past(s, atoms) = SubSeq(s, a + 1, Len(s))
  BY <1>1 DEF Upto, From, Past
<1>4. SubSeq(s, 1, a - 1) \in Seq(S \ atoms) /\ SubSeq(s, 1, a - 1) \in Seq(S)
  <2>1. \A i \in 1..(a - 1) : s[i] \in S \ atoms /\ s[i] \in S
    BY <1>1, <1>2
  <2> QED BY <2>1, SubSeqProperties
<1>5. /\ SubSeq(s, a, Len(s)) \in Seq(S)
      /\ Len(SubSeq(s, a, Len(s))) = Len(s) - a + 1
      /\ a <= Len(s) => SubSeq(s, a, Len(s))[1] = s[a]
  <2>1. \A i \in a..Len(s) : s[i] \in S
    BY <1>2
  <2>2. /\ SubSeq(s, a, Len(s)) \in Seq(S)
        /\ Len(SubSeq(s, a, Len(s))) = IF a <= Len(s) THEN Len(s) - a + 1 ELSE 0
        /\ \A i \in 1..(Len(s) - a + 1) : SubSeq(s, a, Len(s))[i] = s[a + i - 1]
    BY <1>2, <2>1, SubSeqProperties
  <2> QED BY <1>2, <2>2
<1>6. SubSeq(s, a + 1, Len(s)) \in Seq(S)
  <2>1. \A i \in (a + 1)..Len(s) : s[i] \in S
    BY <1>2
  <2> QED BY <1>2, <2>1, SubSeqProperties
<1>7. s = SubSeq(s, 1, a - 1) \o SubSeq(s, a, Len(s))
  <2>1. a - 1 \in (1 - 1)..Len(s) /\ Len(s) \in (a - 1)..Len(s) /\ 1 \in 1..(Len(s) + 1)
    BY <1>2
  <2>2. SubSeq(s, 1, a - 1) \o SubSeq(s, (a - 1) + 1, Len(s)) = SubSeq(s, 1, Len(s))
    BY <2>1, ConcatAdjacentSubSeq
  <2>3. (a - 1) + 1 = a
    BY <1>2
  <2> QED BY <2>2, <2>3, SubSeqFull
<1>8. SubSeq(s, a, Len(s)) # <<>> <=> a <= Len(s)
  BY <1>2, <1>5
<1>9. Has(s, atoms) <=> a <= Len(s)
  <2>1. ASSUME a <= Len(s) PROVE Has(s, atoms)
    BY <1>1, <1>2, <2>1 DEF Has
  <2>2. ASSUME Has(s, atoms) PROVE a <= Len(s)
    <3>1. PICK i \in 1..Len(s) : s[i] \in atoms
      BY <1>2, <2>2 DEF Has
    <3> QED BY <1>1, <1>2, <3>1
  <2> QED BY <2>1, <2>2
<1> QED BY <1>1, <1>3, <1>4, <1>5, <1>6, <1>7, <1>8, <1>9

LEMMA CutAt ==
  ASSUME NEW S, NEW u \in Seq(S), NEW v \in Seq(S), NEW atoms,
         \A i \in 1..Len(u) : u[i] \notin atoms, v # <<>> => v[1] \in atoms
  PROVE  /\ Upto(u \o v, atoms) = u
         /\ From(u \o v, atoms) = v
         /\ v # <<>> => Past(u \o v, atoms) = Tail(v)
         /\ v = <<>> => Past(u \o v, atoms) = <<>>
<1> DEFINE s == u \o v
<1>1. /\ s \in Seq(S) /\ Len(s) = Len(u) + Len(v) /\ Len(u) \in Nat /\ Len(v) \in Nat
      /\ \A i \in 1..Len(s) : s[i] = IF i <= Len(u) THEN u[i] ELSE v[i - Len(u)]
  BY ConcatProperties
<1>2. /\ At(s, atoms) \in 1..(Len(s) + 1)
      /\ \A i \in 1..(At(s, atoms) - 1) : s[i] \notin atoms
      /\ At(s, atoms) <= Len(s) => s[At(s, atoms)] \in atoms
  BY <1>1, AtIs
<1> HIDE DEF s
<1>3. At(s, atoms) = Len(u) + 1
  <2>1. PICK a \in 1..(Len(s) + 1) : a = At(s, atoms)
    BY <1>2
  <2>2. ~ (a <= Len(u))
    BY <1>1, <1>2, <2>1
  <2>3. ~ (a > Len(u) + 1)
    <3>1. SUFFICES ASSUME a > Len(u) + 1 PROVE FALSE
      OBVIOUS
    <3>2. Len(v) > 0 /\ v # <<>> /\ Len(u) + 1 \in 1..Len(s)
      BY <1>1, <2>1, <3>1
    <3>3. s[Len(u) + 1] = v[1] /\ s[Len(u) + 1] \notin atoms
      BY <1>1, <1>2, <2>1, <3>1, <3>2
    <3> QED BY <3>2, <3>3
  <2> QED BY <1>1, <2>1, <2>2, <2>3
<1>4. SubSeq(s, 1, Len(u)) = u
  <2>1. CASE Len(u) = 0
    BY <2>1, SubSeqEmpty
  <2>2. CASE Len(u) # 0
    <3>1. 1 \in 1..Len(u) /\ Len(u) \in 1..Len(u)
      BY <1>1, <2>2
    <3>2. SubSeq(u \o v, 1, Len(u)) = SubSeq(u, 1, Len(u))
      BY <3>1, SubSeqOfConcat1
    <3> QED BY <3>2, SubSeqFull DEF s
  <2> QED BY <2>1, <2>2
<1>5. SubSeq(s, Len(u) + 1, Len(s)) = v
  <2>1. CASE Len(v) = 0
    <3>1. SubSeq(s, Len(u) + 1, Len(s)) = <<>>
      BY <1>1, <2>1, SubSeqEmpty
    <3>2. v = <<>>
      BY <2>1, EmptySeq
    <3> QED BY <3>1, <3>2
  <2>2. CASE Len(v) # 0
    <3>1. Len(u) + 1 \in (Len(u) + 1)..(Len(u) + Len(v)) /\ Len(u) + Len(v) \in (Len(u) + 1)..(Len(u) + Len(v))
      BY <1>1, <2>2
    <3>2. SubSeq(u \o v, Len(u) + 1, Len(u) + Len(v)) = SubSeq(v, Len(u) + 1 - Len(u), Len(u) + Len(v) - Len(u))
      BY <3>1, SubSeqOfConcat2
    <3>3. Len(u) + 1 - Len(u) = 1 /\ Len(u) + Len(v) - Len(u) = Len(v)
      BY <1>1
    <3> QED BY <1>1, <3>2, <3>3, SubSeqFull DEF s
  <2> QED BY <2>1, <2>2
<1>6. ASSUME v # <<>> PROVE SubSeq(s, Len(u) + 2, Len(s)) = Tail(v)
  <2>1. Len(v) \in Nat \ {0} /\ Tail(v) \in Seq(S) /\ Len(Tail(v)) = Len(v) - 1
        /\ \A i \in 1..Len(Tail(v)) : Tail(v)[i] = v[i + 1]
    BY <1>6, HeadTailProperties
  <2> DEFINE r == SubSeq(s, Len(u) + 2, Len(s))
  <2>2. \A i \in (Len(u) + 2)..Len(s) : s[i] \in S
    BY <1>1
  <2>3. /\ r \in Seq(S)
        /\ Len(r) = IF Len(u) + 2 <= Len(s) THEN Len(s) - (Len(u) + 2) + 1 ELSE 0
        /\ \A i \in 1..(Len(s) - (Len(u) + 2) + 1) : r[i] = s[(Len(u) + 2) + i - 1]
    BY <1>1, <2>2, SubSeqProperties
  <2> HIDE DEF r
  <2>4. Len(r) = Len(Tail(v))
    <3>1. PICK a \in Nat, b \in Nat \ {0} : a = Len(u) /\ b = Len(v) /\ Len(s) = a + b
      BY <1>1, <2>1
    <3>2. Len(r) = IF a + 2 <= a + b THEN a + b - (a + 2) + 1 ELSE 0
      BY <2>3, <3>1
    <3>3. Len(r) = b - 1
      BY <3>1, <3>2
    <3> QED BY <2>1, <3>1, <3>3
  <2>5. ASSUME NEW i \in 1..Len(r) PROVE r[i] = Tail(v)[i]
    <3>1. i \in 1..(Len(s) - (Len(u) + 2) + 1) /\ (Len(u) + 2) + i - 1 = Len(u) + (i + 1)
          /\ Len(u) + (i + 1) \in 1..Len(s) /\ ~ (Len(u) + (i + 1) <= Len(u))
      BY <1>1, <2>1, <2>4
    <3>2. r[i] = s[Len(u) + (i + 1)]
      BY <2>3, <3>1
    <3>3. s[Len(u) + (i + 1)] = v[Len(u) + (i + 1) - Len(u)]
      BY <1>1, <3>1
    <3>4. Len(u) + (i + 1) - Len(u) = i + 1
      BY <1>1
    <3> QED BY <2>1, <2>4, <3>2, <3>3, <3>4
  <2>6. r = Tail(v)
    BY <2>1, <2>3, <2>4, <2>5, SeqEqual
  <2> QED BY <2>6 DEF r
<1>7. ASSUME v = <<>> PROVE SubSeq(s, Len(u) + 2, Len(s)) = <<>>
  <2>1. Len(v) = 0
    BY <1>7
  <2> QED BY <1>1, <2>1, SubSeqEmpty
<1>8. Len(u) + 1 - 1 = Len(u) /\ (Len(u) + 1) + 1 = Len(u) + 2
  BY <1>1
<1>9. Upto(s, atoms) = u /\ From(s, atoms) = v
  BY <1>3, <1>4, <1>5, <1>8 DEF Upto, From
<1>10. Past(s, atoms) = SubSeq(s, Len(u) + 2, Len(s))
  BY <1>3, <1>8 DEF Past
<1> QED BY <1>6, <1>7, <1>9, <1>10 DEF s

LEMMA HasNone ==
  ASSUME NEW S, NEW s \in Seq(S), NEW atoms
  PROVE  /\ ~ Has(s, atoms) <=> \A i \in 1..Len(s) : s[i] \notin atoms
         /\ ~ Has(s, atoms) <=> s \in Seq(S \ atoms)
<1>1. Len(s) \in Nat /\ DOMAIN s = 1..Len(s) /\ \A i \in 1..Len(s) : s[i] \in S
  OBVIOUS
<1>2. ~ Has(s, atoms) <=> \A i \in 1..Len(s) : s[i] \notin atoms
  BY <1>1 DEF Has
<1>3. ASSUME \A i \in 1..Len(s) : s[i] \notin atoms PROVE s \in Seq(S \ atoms)
  <2>1. s \in [1..Len(s) -> S \ atoms]
    BY <1>1, <1>3
  <2> QED BY <1>1, <2>1
<1>4. ASSUME s \in Seq(S \ atoms) PROVE \A i \in 1..Len(s) : s[i] \notin atoms
  BY <1>4, ElementOfSeq
<1> QED BY <1>2, <1>3, <1>4

(***************************************************************************)
(* Escapes.                                                                *)
(***************************************************************************)
Bare == {" ", "nb", "zw"}

LEMMA EscapeIs ==
  ASSUME NEW s \in Text_
  PROVE  /\ Escape(s) \in Text_ /\ Len(Escape(s)) = Len(s)
         /\ \A i \in 1..Len(s) : /\ s[i] \notin Bare => Escape(s)[i] = s[i]
                                 /\ s[i] \in Bare => Escape(s)[i] \in {"%20", "%A0", "%ZW"}
<1>1. Len(s) \in Nat /\ DOMAIN s = 1..Len(s) /\ \A i \in 1..Len(s) : s[i] \in Chars
  BY DEF Text_
<1>2. \A i \in 1..Len(s) : /\ s[i] \notin Bare => Escape(s)[i] = s[i]
                           /\ s[i] \in Bare => Escape(s)[i] \in {"%20", "%A0", "%ZW"}
  BY <1>1 DEF Escape, Bare
<1>3. \A i \in 1..Len(s) : Escape(s)[i] \in Chars
  <2> TAKE i \in 1..Len(s)
  <2>1. CASE s[i] \in Bare
    <3>1. {"%20", "%A0", "%ZW"} \subseteq Chars
      BY DEF Chars
    <3> QED BY <1>2, <2>1, <3>1
  <2>2. CASE s[i] \notin Bare
    BY <1>1, <1>2, <2>2
  <2> QED BY <2>1, <2>2
<1>4. Escape(s) \in [1..Len(s) -> Chars]
  <2>1. DOMAIN Escape(s) = 1..Len(s) /\ Escape(s) = [i \in 1..Len(s) |-> Escape(s)[i]]
    BY <1>1 DEF Escape
  <2> QED BY <1>3, <2>1
<1>5. Escape(s) \in Text_ /\ Len(Escape(s)) = Len(s)
  BY <1>1, <1>4 DEF Text_
<1> QED BY <1>2, <1>5

LEMMA EscapeClean ==
  ASSUME NEW s \in Free({"nl", "cr"})
  PROVE  Escape(s) \in Free(White \cup {"zw"}) /\ s \in Text_
<1>1. s \in Text_ /\ \A i \in 1..Len(s) : s[i] \in Chars \ {"nl", "cr"}
  BY SeqMonotonic DEF Text_, Free
<1>2. ASSUME NEW i \in 1..Len(s) PROVE Escape(s)[i] \notin White \cup {"zw"}
  <2>1. CASE s[i] \in Bare
    BY <1>1, <2>1, EscapeIs DEF White
  <2>2. CASE s[i] \notin Bare
    BY <1>1, <2>2, EscapeIs DEF White, Bare
  <2> QED BY <2>1, <2>2
<1>3. Escape(s) \in Seq(Chars) /\ Len(Escape(s)) = Len(s)
  BY <1>1, EscapeIs DEF Text_
<1> QED BY <1>1, <1>2, <1>3, HasNone DEF Free

LEMMA EscapeNone ==
  ASSUME NEW s \in Text_, \A i \in 1..Len(s) : s[i] \notin Bare
  PROVE  Escape(s) = s
<1>1. Escape(s) \in Seq(Chars) /\ Len(Escape(s)) = Len(s) /\ \A i \in 1..Len(s) : Escape(s)[i] = s[i]
  BY EscapeIs DEF Text_
<1> QED BY <1>1, SeqEqual DEF Text_

\* Escaping leaves the places where it is cut.
LEMMA EscapeCut ==
  ASSUME NEW s \in Text_, NEW atom \in {":", "//"}
  PROVE  /\ Upto(Escape(s), {atom}) = Escape(Upto(s, {atom}))
         /\ Past(Escape(s), {atom}) = Escape(Past(s, {atom}))
         /\ Has(Escape(s), {atom}) <=> Has(s, {atom})
<1> DEFINE e == Escape(s)
<1>1. /\ e \in Seq(Chars) /\ Len(e) = Len(s) /\ Len(s) \in Nat
      /\ DOMAIN e = 1..Len(s) /\ DOMAIN s = 1..Len(s)
      /\ \A i \in 1..Len(s) : s[i] \in Chars
  BY EscapeIs DEF Text_
<1>2. \A i \in 1..Len(s) : e[i] \in {atom} <=> s[i] \in {atom}
  <2> TAKE i \in 1..Len(s)
  <2>1. CASE s[i] \in Bare
    BY <2>1, EscapeIs DEF Bare
  <2>2. CASE s[i] \notin Bare
    BY <2>2, EscapeIs
  <2> QED BY <2>1, <2>2
<1>3. At(e, {atom}) = At(s, {atom})
  <2>1. {i \in DOMAIN e : e[i] \in {atom}} = {i \in DOMAIN s : s[i] \in {atom}}
    BY <1>1, <1>2
  <2> QED BY <1>1, <2>1 DEF At
<1>4. ASSUME NEW m \in 1..(Len(s) + 2), NEW n \in 0..Len(s)
      PROVE  SubSeq(e, m, n) = Escape(SubSeq(s, m, n))
  <2> DEFINE f == SubSeq(e, m, n)   g == SubSeq(s, m, n)
  <2>1. /\ f \in Seq(Chars) /\ Len(f) = (IF m <= n THEN n - m + 1 ELSE 0)
        /\ \A i \in 1..(n - m + 1) : f[i] = e[m + i - 1]
    <3>1. \A i \in m..n : e[i] \in Chars
      BY <1>1
    <3> QED BY <1>1, <3>1, SubSeqProperties
  <2>2. /\ g \in Seq(Chars) /\ Len(g) = (IF m <= n THEN n - m + 1 ELSE 0)
        /\ \A i \in 1..(n - m + 1) : g[i] = s[m + i - 1]
    <3>1. \A i \in m..n : s[i] \in Chars
      BY <1>1
    <3> QED BY <1>1, <3>1, SubSeqProperties
  <2> HIDE DEF f, g, e
  <2>3. Escape(g) \in Seq(Chars) /\ Len(Escape(g)) = Len(g) /\ DOMAIN g = 1..Len(g)
    <3>1. g \in Text_ /\ DOMAIN g = 1..Len(g)
      BY <2>2, LenProperties DEF Text_
    <3> QED BY <3>1, EscapeIs DEF Text_
  <2>4. ASSUME NEW i \in 1..Len(f) PROVE f[i] = Escape(g)[i]
    <3>1. i \in 1..Len(g) /\ i \in 1..(n - m + 1) /\ m + i - 1 \in 1..Len(s)
      BY <1>1, <2>1, <2>2
    <3>2. f[i] = e[m + i - 1] /\ g[i] = s[m + i - 1]
      BY <2>1, <2>2, <3>1
    <3>3. e[m + i - 1] = Escape(g)[i]
      BY <1>1, <2>3, <3>1, <3>2 DEF e, Escape
    <3> QED BY <3>2, <3>3
  <2>5. f = Escape(g)
    BY <2>1, <2>2, <2>3, <2>4, SeqEqual
  <2> QED BY <2>5 DEF f, g
<1>5. PICK a \in 1..(Len(s) + 1) : a = At(s, {atom})
  BY AtIs DEF Text_
<1>6. /\ Upto(e, {atom}) = SubSeq(e, 1, a - 1) /\ Upto(s, {atom}) = SubSeq(s, 1, a - 1)
      /\ Past(e, {atom}) = SubSeq(e, a + 1, Len(s)) /\ Past(s, {atom}) = SubSeq(s, a + 1, Len(s))
  BY <1>1, <1>3, <1>5 DEF Upto, Past
<1>7. Has(e, {atom}) <=> Has(s, {atom})
  BY <1>1, <1>2 DEF Has
<1>8. 1 \in 1..(Len(s) + 2) /\ a - 1 \in 0..Len(s) /\ a + 1 \in 1..(Len(s) + 2) /\ Len(s) \in 0..Len(s)
  BY <1>1
<1> HIDE DEF e
<1>9. /\ SubSeq(e, 1, a - 1) = Escape(SubSeq(s, 1, a - 1))
      /\ SubSeq(e, a + 1, Len(s)) = Escape(SubSeq(s, a + 1, Len(s)))
  BY <1>4, <1>8
<1> QED BY <1>6, <1>7, <1>9 DEF e

(***************************************************************************)
(* Addresses.                                                              *)
(***************************************************************************)
Clean == Free(White \cup {"zw"})

LEMMA JoinIn ==
  ASSUME NEW S, NEW u \in Seq(S), NEW v \in Seq(S)
  PROVE  u \o v \in Seq(S)
BY ConcatProperties

LEMMA FreeIn ==
  ASSUME NEW atoms, NEW s \in Free(atoms)
  PROVE  s \in Text_ /\ Len(s) \in Nat /\ \A i \in 1..Len(s) : s[i] \in Chars /\ s[i] \notin atoms
<1>1. Chars \ atoms \subseteq Chars
  OBVIOUS
<1>2. s \in Seq(Chars)
  BY <1>1, SeqMonotonic DEF Free
<1>3. \A i \in 1..Len(s) : s[i] \in Chars \ atoms
  BY DEF Free
<1> QED BY <1>2, <1>3 DEF Text_

LEMMA FreeOf ==
  ASSUME NEW atoms, NEW s \in Text_, \A i \in 1..Len(s) : s[i] \notin atoms
  PROVE  s \in Free(atoms)
BY HasNone DEF Text_, Free

\* Where the slashes before a host end.
LEMMA AuthorityIs ==
  ASSUME NEW s, Rest(s) \in Text_
  PROVE  Authority(s) = From(Rest(s), Chars \ {"//"})
<1> DEFINE r == Rest(s)
<1>1. Len(r) \in Nat /\ DOMAIN r = 1..Len(r) /\ \A i \in 1..Len(r) : r[i] \in Chars
  BY DEF Text_
<1>2. {i \in DOMAIN r : r[i] # "//"} = {i \in DOMAIN r : r[i] \in Chars \ {"//"}}
  BY <1>1
<1> QED BY <1>2 DEF Authority, From, At

\* What a scheme and what follows its colon are read as.
LEMMA AddressReads ==
  ASSUME NEW x \in LetterAtoms, NEW r \in Text_
  PROVE  LET s == <<x>> \o (<<":">> \o r) IN
         /\ s \in Text_ /\ has_scheme(s)
         /\ Upto(s, {":"}) = <<x>> /\ Past(s, {":"}) = r
<1> DEFINE v == <<":">> \o r
           s == <<x>> \o v
<1>1. <<x>> \in Seq(Chars) /\ <<":">> \in Seq(Chars) /\ r \in Seq(Chars) /\ x # ":"
  BY DEF Text_, Chars, LetterAtoms
<1>2. /\ v \in Seq(Chars) /\ v # <<>> /\ v[1] = ":" /\ Tail(v) = r
      /\ s \in Seq(Chars)
  <2>1. v \in Seq(Chars) /\ Len(v) = 1 + Len(r) /\ Len(r) \in Nat /\ v[1] = ":"
    BY <1>1, ConcatProperties
  <2>2. v # <<>>
    BY <2>1
  <2>3. Tail(v) \in Seq(Chars) /\ Len(Tail(v)) = Len(v) - 1 /\ \A i \in 1..Len(Tail(v)) : Tail(v)[i] = v[i + 1]
    BY <2>1, <2>2, HeadTailProperties
  <2>4. \A i \in 1..Len(r) : v[i + 1] = r[i]
    <3> TAKE i \in 1..Len(r)
    <3>1. i + 1 \in 1..(Len(<<":">>) + Len(r)) /\ Len(<<":">>) = 1 /\ ~ (i + 1 <= 1) /\ (i + 1) - 1 = i
      BY <2>1
    <3>2. v[i + 1] = IF i + 1 <= Len(<<":">>) THEN <<":">>[i + 1] ELSE r[(i + 1) - Len(<<":">>)]
      BY <1>1, <3>1, ConcatProperties
    <3> QED BY <3>1, <3>2
  <2>5. Len(Tail(v)) = Len(r)
    BY <2>1, <2>3
  <2>6. Tail(v) = r
    BY <1>1, <2>3, <2>4, <2>5, SeqEqual
  <2>7. s \in Seq(Chars)
    BY <1>1, <2>1, JoinIn
  <2> QED BY <2>1, <2>2, <2>6, <2>7
<1> HIDE DEF v
<1>3. Upto(s, {":"}) = <<x>> /\ From(s, {":"}) = v /\ Past(s, {":"}) = r
  <2>1. \A i \in 1..Len(<<x>>) : <<x>>[i] \notin {":"}
    BY <1>1
  <2> QED BY <1>1, <1>2, <2>1, CutAt
<1>4. Has(s, {":"})
  BY <1>2, <1>3, CutIs
<1>5. has_scheme(s)
  <2>1. <<x>> # <<>> /\ Head(<<x>>) = x /\ \A i \in DOMAIN <<x>> : <<x>>[i] = x
    OBVIOUS
  <2> HIDE DEF s
  <2> QED BY <1>3, <1>4, <2>1 DEF has_scheme
<1> QED BY <1>2, <1>3, <1>5 DEF Text_, v

\* What has a known scheme, and what it is parsed to.
LEMMA AddressIs ==
  ASSUME NEW t \in Text_, has_scheme(t)
  PROVE  /\ Upto(t, {":"}) \in Text_ /\ Past(t, {":"}) \in Text_
         /\ Rest(t) \in Free({"nl", "cr"}) /\ Rest(t) \in Text_
         /\ Authority(t) \in Free({"nl", "cr"}) /\ Authority(t) \in Text_
         /\ Authority(t) # <<>> => Authority(t)[1] # "//"
<1>1. Upto(t, {":"}) \in Seq(Chars) /\ Past(t, {":"}) \in Seq(Chars)
  BY CutIs DEF Text_
<1>2. Rest(t) \in Seq(Chars \ {"nl", "cr"})
  BY <1>1, WithoutIn DEF Rest
<1>3. Rest(t) \in Text_
  BY <1>2, FreeIn DEF Free
<1>4. /\ From(Rest(t), Chars \ {"//"}) \in Seq(Chars \ {"nl", "cr"})
      /\ From(Rest(t), Chars \ {"//"}) # <<>> => From(Rest(t), Chars \ {"//"})[1] \in Chars \ {"//"}
  BY <1>2, CutIs
<1>5. Authority(t) = From(Rest(t), Chars \ {"//"})
  BY <1>3, AuthorityIs
<1>6. Authority(t) \in Text_
  <2>1. Authority(t) \in Free({"nl", "cr"})
    BY <1>4, <1>5 DEF Free
  <2> QED BY <2>1, FreeIn
<1> QED BY <1>1, <1>2, <1>3, <1>4, <1>5, <1>6 DEF Text_, Free

(***************************************************************************)
(* The parts of a serialized address: host, port, and what comes after.    *)
(***************************************************************************)
Parts(h, p, q) ==
  /\ h \in Free(White \cup {"zw", ":", "//"}) /\ h # <<>>
  /\ p \in Clean /\ \A i \in 1..Len(p) : p[i] = IF i = 1 THEN ":" ELSE "8"
  /\ q \in Clean /\ q # <<>> /\ q[1] = "//"

LEMMA PartsAre ==
  ASSUME NEW h, NEW p, NEW q, Parts(h, p, q)
  PROVE  /\ h \in Clean /\ h \in Text_ /\ p \in Text_ /\ q \in Text_
         /\ h \o p \in Text_ /\ h \o (p \o q) \in Text_ /\ h \o (p \o q) \in Clean
         /\ h \o (p \o q) = (h \o p) \o q
         /\ (h \o (p \o q)) # <<>> /\ (h \o (p \o q))[1] = h[1] /\ h[1] \in Chars \ {"//"}
<1>1. h \in Text_ /\ p \in Text_ /\ q \in Text_ /\ Len(h) \in Nat
      /\ \A i \in 1..Len(h) : h[i] \in Chars /\ h[i] \notin White \cup {"zw", ":", "//"}
  BY FreeIn DEF Parts, Clean
<1>2. h \in Clean
  <2>1. \A i \in 1..Len(h) : h[i] \notin White \cup {"zw"}
    BY <1>1
  <2> QED BY <1>1, <2>1, FreeOf DEF Clean
<1>3. p \o q \in Clean /\ h \o (p \o q) \in Clean
  BY <1>2, JoinIn DEF Parts, Clean, Free
<1>4. p \o q \in Text_ /\ h \o p \in Text_ /\ h \o (p \o q) \in Text_
  BY <1>1, JoinIn DEF Text_
<1>5. h \o (p \o q) = (h \o p) \o q
  BY <1>1, ConcatAssociative DEF Text_
<1>6. Len(h) \in Nat \ {0}
  BY <1>1, EmptySeq DEF Parts, Text_
<1>7. Len(h \o (p \o q)) = Len(h) + Len(p \o q) /\ Len(p \o q) \in Nat
      /\ (h \o (p \o q))[1] = h[1]
  <2>1. Len(p \o q) \in Nat /\ 1 \in 1..(Len(h) + Len(p \o q)) /\ 1 <= Len(h)
    BY <1>4, <1>6 DEF Text_
  <2> QED BY <1>1, <1>4, <2>1, ConcatProperties DEF Text_
<1>8. h \o (p \o q) # <<>>
  <2>1. Len(h \o (p \o q)) # 0
    BY <1>6, <1>7
  <2> QED BY <2>1, EmptySeq
<1>9. h[1] \in Chars \ {"//"}
  BY <1>1, <1>6
<1> QED BY <1>1, <1>2, <1>3, <1>4, <1>5, <1>7, <1>8, <1>9

LEMMA PartsRead ==
  ASSUME NEW h, NEW p, NEW q, Parts(h, p, q)
  PROVE  /\ SpecialParses(h \o (p \o q))
         /\ Serial(h \o (p \o q)) = <<"//">> \o (h \o (p \o q))
<1> DEFINE a == h \o (p \o q)
<1>1. h \in Seq(Chars) /\ p \in Seq(Chars) /\ q \in Seq(Chars) /\ h \o p \in Seq(Chars)
      /\ a \in Seq(Chars) /\ a = (h \o p) \o q /\ a # <<>>
  BY PartsAre DEF Text_
<1>2. /\ \A i \in 1..Len(h) : h[i] \notin White \cup {"zw", ":", "//"}
      /\ \A i \in 1..Len(p) : p[i] \in {":", "8"}
      /\ \A i \in 1..Len(q) : q[i] \notin White \cup {"zw"}
      /\ Len(h) \in Nat /\ Len(p) \in Nat /\ Len(q) \in Nat
  <2>1. \A i \in 1..Len(h) : h[i] \notin White \cup {"zw", ":", "//"}
    BY FreeIn DEF Parts
  <2>2. \A i \in 1..Len(q) : q[i] \notin White \cup {"zw"}
    BY FreeIn DEF Parts, Clean
  <2> QED BY <1>1, <2>1, <2>2 DEF Parts
<1>3. \A i \in 1..Len(h \o p) : (h \o p)[i] \notin {"//"}
  <2> TAKE i \in 1..Len(h \o p)
  <2>1. Len(h \o p) = Len(h) + Len(p) /\ (h \o p)[i] = IF i <= Len(h) THEN h[i] ELSE p[i - Len(h)]
    BY <1>1, ConcatProperties
  <2>2. CASE i <= Len(h)
    BY <1>2, <2>1, <2>2
  <2>3. CASE ~ (i <= Len(h))
    <3>1. i - Len(h) \in 1..Len(p)
      BY <1>2, <2>1, <2>3
    <3> QED BY <1>2, <2>1, <2>3, <3>1
  <2> QED BY <2>2, <2>3
<1> HIDE DEF a
<1>4. Upto(a, {"//"}) = h \o p /\ From(a, {"//"}) = q
  BY <1>1, <1>3, CutAt DEF Parts
<1>5. /\ Host(a) = h /\ From(Upto(a, {"//"}), {":"}) = p
      /\ p # <<>> => Port(a) = Tail(p)
      /\ p = <<>> => Port(a) = <<>>
  <2>1. p # <<>> => p[1] \in {":"}
    <3>1. p # <<>> => 1 \in 1..Len(p)
      BY <1>1, <1>2
    <3> QED BY <3>1 DEF Parts
  <2>2. \A i \in 1..Len(h) : h[i] \notin {":"}
    BY <1>2
  <2>3. /\ Upto(h \o p, {":"}) = h /\ From(h \o p, {":"}) = p
        /\ p # <<>> => Past(h \o p, {":"}) = Tail(p)
        /\ p = <<>> => Past(h \o p, {":"}) = <<>>
    <3>1. h \in Seq(Chars) /\ p \in Seq(Chars)
      BY <1>1
    <3> QED BY <2>1, <2>2, <3>1, CutAt
  <2> QED BY <1>4, <2>3 DEF Host, Port
<1>6. PortOk(a)
  <2>1. CASE p = <<>>
    <3>1. DOMAIN Port(a) = {}
      BY <1>5, <2>1
    <3> QED BY <3>1 DEF PortOk
  <2>2. CASE p # <<>>
    <3>1. Tail(p) \in Seq(Chars) /\ Len(Tail(p)) = Len(p) - 1 /\ \A i \in 1..Len(Tail(p)) : Tail(p)[i] = p[i + 1]
      BY <1>1, <2>2, HeadTailProperties
    <3>2. DOMAIN Tail(p) = 1..(Len(p) - 1)
      BY <3>1, LenProperties
    <3>3. \A i \in 1..(Len(p) - 1) : Tail(p)[i] = "8"
      <4> TAKE i \in 1..(Len(p) - 1)
      <4>1. i + 1 \in 1..Len(p) /\ i + 1 # 1
        BY <1>2
      <4> QED BY <3>1, <4>1 DEF Parts
    <3> QED BY <1>5, <2>2, <3>2, <3>3 DEF PortOk
  <2> QED BY <2>1, <2>2
<1>7. Without(h, {"zw"}) = h
  <2>1. \A i \in 1..Len(h) : h[i] \notin {"zw"}
    BY <1>2
  <2> QED BY <1>1, <2>1, NothingWithout
<1>8. ~ Has(h, White)
  <2>1. \A i \in 1..Len(h) : h[i] \notin White
    BY <1>2
  <2> QED BY <1>1, <2>1, HasNone
<1>9. SpecialParses(a)
  BY <1>5, <1>6, <1>7, <1>8 DEF SpecialParses, Parts
<1>10. Has(a, {"//"})
  BY <1>1, <1>4, CutIs DEF Parts
<1>11. Escape(q) = q
  <2>1. \A i \in 1..Len(q) : q[i] \notin Bare
    BY <1>2 DEF Bare, White
  <2> QED BY <1>1, <2>1, EscapeNone DEF Text_
<1>12. Serial(a) = ((<<"//">> \o h) \o p) \o q
  BY <1>4, <1>5, <1>7, <1>10, <1>11 DEF Serial
<1>13. ((<<"//">> \o h) \o p) \o q = <<"//">> \o a
  <2>1. <<"//">> \in Seq(Chars)
    BY DEF Chars
  <2>2. <<"//">> \o h \in Seq(Chars) /\ p \o q \in Seq(Chars)
    BY <1>1, <2>1, JoinIn
  <2>3. ((<<"//">> \o h) \o p) \o q = (<<"//">> \o h) \o (p \o q)
    BY <1>1, <2>2, ConcatAssociative
  <2>4. (<<"//">> \o h) \o (p \o q) = <<"//">> \o (h \o (p \o q))
    BY <1>1, <2>1, <2>2, ConcatAssociative
  <2> QED BY <2>3, <2>4 DEF a
<1> QED BY <1>9, <1>12, <1>13 DEF a

\* What a host that parses is serialized to.
LEMMA SerialHas ==
  ASSUME NEW a \in Free({"nl", "cr"}), SpecialParses(a)
  PROVE  \E h, p, q : Parts(h, p, q) /\ Serial(a) = <<"//">> \o (h \o (p \o q))
<1> DEFINE u == Upto(a, {"//"})
           h == Without(Host(a), {"zw"})
           p == From(u, {":"})
           b == From(a, {"//"})
           q == IF Has(a, {"//"}) THEN Escape(b) ELSE <<"//">>
<1>1. /\ a \in Seq(Chars) /\ u \in Seq(Chars \ {"//"}) /\ b \in Free({"nl", "cr"})
      /\ b # <<>> => b[1] = "//"
      /\ Has(a, {"//"}) <=> b # <<>>
  <2>1. a \in Seq(Chars \ {"nl", "cr"}) /\ a \in Seq(Chars)
    BY FreeIn DEF Free, Text_
  <2> QED BY <2>1, CutIs DEF Free
<1>2. /\ Host(a) \in Seq((Chars \ {"//"}) \ {":"})
      /\ u = Host(a) \o p /\ p \in Seq(Chars \ {"//"})
      /\ p # <<>> => p[1] = ":"
  BY <1>1, CutIs DEF Host
<1>3. h \in Free(White \cup {"zw", ":", "//"}) /\ h # <<>>
  <2>1. Host(a) \in Seq(((Chars \ {"//"}) \ {":"}) \ White)
    BY <1>2, HasNone DEF SpecialParses
  <2>2. h \in Seq((((Chars \ {"//"}) \ {":"}) \ White) \ {"zw"})
    BY <2>1, WithoutIn
  <2>3. (((Chars \ {"//"}) \ {":"}) \ White) \ {"zw"} = Chars \ (White \cup {"zw", ":", "//"})
    OBVIOUS
  <2>4. h # <<>>
    BY DEF SpecialParses
  <2> HIDE DEF h
  <2> QED BY <2>2, <2>3, <2>4 DEF Free
<1>4. Len(p) \in Nat /\ \A i \in 1..Len(p) : p[i] = IF i = 1 THEN ":" ELSE "8"
  <2>1. Len(p) \in Nat
    BY <1>2
  <2>2. ASSUME NEW i \in 1..Len(p) PROVE p[i] = IF i = 1 THEN ":" ELSE "8"
    <3>1. p # <<>> /\ p[1] = ":"
      BY <1>2, <2>1
    <3>2. CASE i # 1
      <4>1. Port(a) = Tail(p)
        <5>1. Host(a) \in Seq(Chars \ {"//"}) /\ \A j \in 1..Len(Host(a)) : Host(a)[j] \notin {":"}
          <6>1. Host(a) \in Seq(Chars \ {"//"})
            BY <1>2, SeqMonotonic
          <6> QED BY <1>2, <6>1, ElementOfSeq
        <5>2. Past(Host(a) \o p, {":"}) = Tail(p)
          <6> DEFINE k == Host(a)
          <6>1. k \in Seq(Chars \ {"//"}) /\ p \in Seq(Chars \ {"//"}) /\ p # <<>> /\ p[1] \in {":"}
                /\ \A j \in 1..Len(k) : k[j] \notin {":"}
            BY <1>2, <3>1, <5>1
          <6> HIDE DEF k, p
          <6>2. Past(k \o p, {":"}) = Tail(p)
            BY <6>1, CutAt
          <6> QED BY <6>2 DEF k
        <5> QED BY <1>2, <5>2 DEF Port
      <4>2. Tail(p) \in Seq(Chars \ {"//"}) /\ Len(Tail(p)) = Len(p) - 1 /\ \A j \in 1..Len(Tail(p)) : Tail(p)[j] = p[j + 1]
        BY <1>2, <3>1, HeadTailProperties
      <4>3. DOMAIN Tail(p) = 1..(Len(p) - 1)
        BY <4>2, LenProperties
      <4>4. PortOk(a)
        BY DEF SpecialParses
      <4>5. i - 1 \in 1..(Len(p) - 1) /\ (i - 1) + 1 = i
        BY <2>1, <3>2
      <4>6. Tail(p)[i - 1] = "8"
        BY <4>1, <4>3, <4>4, <4>5 DEF PortOk
      <4>7. Tail(p)[i - 1] = p[i]
        BY <4>2, <4>5
      <4> QED BY <3>2, <4>6, <4>7
    <3> QED BY <3>1, <3>2
  <2> QED BY <2>1, <2>2
<1>5. p \in Clean
  <2>1. p \in Text_
    BY <1>2, SeqMonotonic DEF Text_
  <2>2. \A i \in 1..Len(p) : p[i] \notin White \cup {"zw"}
    BY <1>4 DEF White
  <2> QED BY <2>1, <2>2, FreeOf DEF Clean
<1>6. q \in Clean /\ q # <<>> /\ q[1] = "//"
  <2>1. CASE Has(a, {"//"})
    <3>1. b # <<>> /\ b[1] = "//" /\ b \in Text_ /\ Escape(b) \in Clean
      BY <1>1, <2>1, EscapeClean DEF Clean
    <3>2. Len(Escape(b)) = Len(b) /\ 1 \in 1..Len(b)
      BY <3>1, EscapeIs DEF Text_
    <3>3. Escape(b)[1] = "//"
      BY <3>1, <3>2, EscapeIs DEF Bare
    <3>4. Escape(b) # <<>>
      BY <3>2
    <3> QED BY <2>1, <3>1, <3>3, <3>4
  <2>2. CASE ~ Has(a, {"//"})
    <3>1. <<"//">> \in Clean
      <4>1. "//" \in Chars \ (White \cup {"zw"})
        BY DEF Chars, White
      <4> QED BY <4>1 DEF Clean, Free
    <3> QED BY <2>2, <3>1
  <2> QED BY <2>1, <2>2
<1>7. Parts(h, p, q)
  BY <1>3, <1>4, <1>5, <1>6 DEF Parts
<1>8. Serial(a) = ((<<"//">> \o h) \o p) \o q
  BY DEF Serial
<1> HIDE DEF h, p, q
<1>9. Serial(a) = <<"//">> \o (h \o (p \o q))
  <2>1. <<"//">> \in Seq(Chars) /\ h \in Seq(Chars) /\ p \in Seq(Chars) /\ q \in Seq(Chars)
    BY <1>7, PartsAre DEF Chars, Text_
  <2>2. <<"//">> \o h \in Seq(Chars) /\ p \o q \in Seq(Chars)
    BY <2>1, JoinIn
  <2>3. ((<<"//">> \o h) \o p) \o q = (<<"//">> \o h) \o (p \o q)
    BY <2>1, <2>2, ConcatAssociative
  <2>4. (<<"//">> \o h) \o (p \o q) = <<"//">> \o (h \o (p \o q))
    BY <2>1, <2>2, ConcatAssociative
  <2> QED BY <1>8, <2>3, <2>4
<1> QED BY <1>7, <1>9

LEMMA SpecialReads ==
  ASSUME NEW h, NEW p, NEW q, Parts(h, p, q)
  PROVE  LET s == <<"http">> \o (<<":">> \o (<<"//">> \o (h \o (p \o q)))) IN
         /\ s \in Clean /\ validate_redirect(s) /\ Canonical(s) = s
<1> DEFINE a == h \o (p \o q)
           r == <<"//">> \o a
           s == <<"http">> \o (<<":">> \o r)
<1>1. a \in Clean /\ a \in Text_ /\ a # <<>> /\ a[1] \in Chars \ {"//"}
  BY PartsAre
<1>2. <<"//">> \in Clean /\ <<":">> \in Clean /\ <<"http">> \in Clean
  <2>1. {"//", ":", "http"} \subseteq Chars \ (White \cup {"zw"})
    BY DEF Chars, White, LetterAtoms
  <2> QED BY <2>1 DEF Clean, Free
<1> HIDE DEF a
<1>3. r \in Clean /\ r \in Text_ /\ s \in Clean
  <2>1. r \in Clean
    BY <1>1, <1>2, JoinIn DEF Clean, Free
  <2>2. <<":">> \o r \in Clean
    BY <1>2, <2>1, JoinIn DEF Clean, Free
  <2>3. s \in Clean
    BY <1>2, <2>2, JoinIn DEF Clean, Free
  <2> QED BY <2>1, <2>3, FreeIn DEF Clean
<1>4. has_scheme(s) /\ Upto(s, {":"}) = <<"http">> /\ Past(s, {":"}) = r
  <2>1. "http" \in LetterAtoms
    BY DEF LetterAtoms
  <2> QED BY <1>3, <2>1, AddressReads
<1> HIDE DEF s
<1>5. Rest(s) = r
  <2>1. r \in Seq(Chars) /\ \A i \in 1..Len(r) : r[i] \notin {"nl", "cr"}
    BY <1>3, FreeIn DEF Clean, White, Text_
  <2>2. Without(r, {"nl", "cr"}) = r
    BY <2>1, NothingWithout
  <2> QED BY <1>4, <2>2 DEF Rest
<1>6. Authority(s) = a
  <2> DEFINE slashes == <<"//">>   others == Chars \ {"//"}
  <2>1. slashes \in Seq(Chars) /\ a \in Seq(Chars) /\ \A i \in 1..Len(slashes) : slashes[i] \notin others
    BY <1>1 DEF Text_, Chars
  <2>2. a # <<>> => a[1] \in others
    BY <1>1
  <2> HIDE DEF slashes, others
  <2>3. From(slashes \o a, others) = a
    BY <2>1, <2>2, CutAt
  <2>4. From(r, Chars \ {"//"}) = a
    BY <2>3 DEF slashes, others
  <2> QED BY <1>3, <1>5, <2>4, AuthorityIs
<1>7. SpecialParses(a) /\ Serial(a) = r
  BY PartsRead DEF a
<1>8. <<"http">> \in Special /\ <<"http">> \in DEFAULT_ALLOWED_SCHEMES
  BY DEF Special, DEFAULT_ALLOWED_SCHEMES
<1>9. validate_redirect(s)
  BY <1>4, <1>6, <1>7, <1>8 DEF validate_redirect, UrlParses
<1>10. Canonical(s) = s
  <2>1. Canonical(s) = (<<"http">> \o <<":">>) \o r
    BY <1>4, <1>6, <1>7, <1>8 DEF Canonical
  <2>2. (<<"http">> \o <<":">>) \o r = <<"http">> \o (<<":">> \o r)
    <3>1. <<"http">> \in Seq(Chars) /\ <<":">> \in Seq(Chars) /\ r \in Seq(Chars)
      BY <1>3 DEF Text_, Chars, LetterAtoms
    <3> QED BY <3>1, ConcatAssociative
  <2> QED BY <2>1, <2>2 DEF s
<1> QED BY <1>3, <1>9, <1>10 DEF s, r, a

LEMMA SpecialSettles ==
  ASSUME NEW t \in Text_, UrlParses(t), Upto(t, {":"}) = <<"http">>
  PROVE  /\ Canonical(t) \in Clean /\ validate_redirect(Canonical(t))
         /\ Canonical(Canonical(t)) = Canonical(t)
<1>1. <<"http">> \in Special
  BY DEF Special
<1>2. SpecialParses(Authority(t)) /\ Authority(t) \in Free({"nl", "cr"})
  BY <1>1, AddressIs DEF UrlParses
<1>3. PICK h, p, q : Parts(h, p, q) /\ Serial(Authority(t)) = <<"//">> \o (h \o (p \o q))
  BY <1>2, SerialHas
<1>4. Canonical(t) = (<<"http">> \o <<":">>) \o (<<"//">> \o (h \o (p \o q)))
  BY <1>1, <1>3 DEF Canonical
<1>5. Canonical(t) = <<"http">> \o (<<":">> \o (<<"//">> \o (h \o (p \o q))))
  <2>1. h \o (p \o q) \in Seq(Chars) /\ <<"//">> \in Seq(Chars)
    BY <1>3, PartsAre DEF Text_, Chars
  <2>2. <<"http">> \in Seq(Chars) /\ <<":">> \in Seq(Chars) /\ <<"//">> \o (h \o (p \o q)) \in Seq(Chars)
    BY <2>1, JoinIn DEF Chars, LetterAtoms
  <2> QED BY <1>4, <2>2, ConcatAssociative
<1> QED BY <1>3, <1>5, SpecialReads

LEMMA PlainSettles ==
  ASSUME NEW t \in Text_, UrlParses(t), Upto(t, {":"}) = <<"tel">>
  PROVE  /\ Canonical(t) \in Clean /\ validate_redirect(Canonical(t))
         /\ Canonical(Canonical(t)) = Canonical(t)
<1> DEFINE r == Rest(t)
           e == Escape(r)
           s == <<"tel">> \o (<<":">> \o e)
<1>1. <<"tel">> \notin Special /\ <<"tel">> \in DEFAULT_ALLOWED_SCHEMES
  BY DEF Special, DEFAULT_ALLOWED_SCHEMES
<1>2. r \in Free({"nl", "cr"}) /\ r \in Text_ /\ (r # <<>> /\ Head(r) = "//" => PlainParses(Tail(r)))
  BY <1>1, AddressIs DEF UrlParses
<1> HIDE DEF r
<1>3. e \in Clean /\ e \in Text_ /\ Len(e) = Len(r)
  <2>1. e \in Clean
    BY <1>2, EscapeClean DEF Clean
  <2> QED BY <1>2, <2>1, EscapeIs
<1>4. Canonical(t) = s
  <2>1. Canonical(t) = (<<"tel">> \o <<":">>) \o e
    BY <1>1 DEF Canonical, r
  <2>2. <<"tel">> \in Seq(Chars) /\ <<":">> \in Seq(Chars) /\ e \in Seq(Chars)
    BY <1>3 DEF Text_, Chars, LetterAtoms
  <2> QED BY <2>1, <2>2, ConcatAssociative
<1> HIDE DEF e
<1>5. has_scheme(s) /\ Upto(s, {":"}) = <<"tel">> /\ Past(s, {":"}) = e
  <2>1. "tel" \in LetterAtoms
    BY DEF LetterAtoms
  <2> QED BY <1>3, <2>1, AddressReads
<1>6. s \in Clean
  <2>1. <<":">> \in Clean /\ <<"tel">> \in Clean
    <3>1. {":", "tel"} \subseteq Chars \ (White \cup {"zw"})
      BY DEF Chars, White, LetterAtoms
    <3> QED BY <3>1 DEF Clean, Free
  <2>2. <<":">> \o e \in Clean
    BY <1>3, <2>1, JoinIn DEF Clean, Free
  <2> QED BY <2>1, <2>2, JoinIn DEF Clean, Free
<1> HIDE DEF s
<1>7. Rest(s) = e
  <2>1. e \in Seq(Chars) /\ \A i \in 1..Len(e) : e[i] \notin {"nl", "cr"}
    <3>1. \A i \in 1..Len(e) : e[i] \notin White \cup {"zw"}
      BY <1>3, FreeIn DEF Clean
    <3> QED BY <1>3, <3>1 DEF White, Text_
  <2>2. Without(e, {"nl", "cr"}) = e
    BY <2>1, NothingWithout
  <2> QED BY <1>5, <2>2 DEF Rest
<1>8. ASSUME e # <<>>, Head(e) = "//" PROVE PlainParses(Tail(e))
  <2>1. r # <<>> /\ Len(r) \in Nat \ {0} /\ Len(e) \in Nat \ {0} /\ r \in Seq(Chars) /\ e \in Seq(Chars)
    BY <1>2, <1>3, <1>8 DEF Text_
  <2>2. Head(r) = "//"
    <3>1. e[1] = "//" /\ 1 \in 1..Len(r)
      BY <1>8, <2>1
    <3>2. r[1] \notin Bare /\ e[1] = r[1]
      BY <1>2, <3>1, EscapeIs DEF e, Bare
    <3> QED BY <2>1, <3>1, <3>2
  <2> DEFINE a == Tail(r)
  <2>3. a \in Seq(Chars) /\ Len(a) = Len(r) - 1 /\ \A i \in 1..Len(a) : a[i] = r[i + 1]
    BY <2>1, HeadTailProperties
  <2>4. Tail(e) = Escape(a)
    <3>1. Tail(e) \in Seq(Chars) /\ Len(Tail(e)) = Len(e) - 1 /\ \A i \in 1..Len(Tail(e)) : Tail(e)[i] = e[i + 1]
      BY <2>1, HeadTailProperties
    <3>2. Escape(a) \in Seq(Chars) /\ Len(Escape(a)) = Len(a) /\ DOMAIN a = 1..Len(a) /\ DOMAIN r = 1..Len(r)
      BY <2>1, <2>3, EscapeIs, LenProperties DEF Text_
    <3> HIDE DEF a
    <3>3. ASSUME NEW i \in 1..Len(a) PROVE Tail(e)[i] = Escape(a)[i]
      <4>1. i + 1 \in 1..Len(r) /\ i \in 1..Len(Tail(e)) /\ a[i] = r[i + 1]
        BY <1>3, <2>1, <2>3, <3>1
      <4>2. e[i + 1] = Escape(a)[i]
        BY <3>2, <4>1 DEF e, Escape
      <4> QED BY <3>1, <4>1, <4>2
    <3> QED BY <1>3, <2>3, <3>1, <3>2, <3>3, SeqEqual
  <2>5. PlainParses(a)
    BY <1>2, <2>1, <2>2
  <2> HIDE DEF a
  <2> DEFINE u == Upto(a, {"//"})
  <2>6. a \in Text_ /\ u \in Text_
    BY <2>3, CutIs DEF Text_
  <2>7. Upto(Escape(a), {"//"}) = Escape(u)
    BY <2>6, EscapeCut
  <2> HIDE DEF u
  <2>8. /\ Upto(Escape(u), {":"}) = Escape(Upto(u, {":"}))
        /\ Past(Escape(u), {":"}) = Escape(Past(u, {":"}))
        /\ Has(Escape(u), {":"}) <=> Has(u, {":"})
    BY <2>6, EscapeCut
  <2>9. Host(Escape(a)) = Escape(Host(a)) /\ Port(Escape(a)) = Escape(Port(a))
    BY <2>7, <2>8 DEF Host, Port, u
  <2>10. Host(a) \in Text_ /\ Port(a) \in Text_
    BY <2>6, CutIs DEF Host, Port, u, Text_
  <2>11. ~ Has(Host(Escape(a)), {" "})
    <3>1. Escape(Host(a)) \in Seq(Chars) /\ Len(Escape(Host(a))) = Len(Host(a))
      BY <2>10, EscapeIs DEF Text_
    <3>2. ASSUME NEW i \in 1..Len(Host(a)) PROVE Escape(Host(a))[i] \notin {" "}
      <4>1. CASE Host(a)[i] \in Bare
        BY <2>10, <4>1, EscapeIs
      <4>2. CASE Host(a)[i] \notin Bare
        BY <2>10, <4>2, EscapeIs DEF Bare
      <4> QED BY <4>1, <4>2
    <3> DEFINE x == Escape(Host(a))
    <3>3. x \in Seq(Chars) /\ \A i \in 1..Len(x) : x[i] \notin {" "}
      BY <3>1, <3>2
    <3> HIDE DEF x
    <3>4. ~ Has(x, {" "})
      BY <3>3, HasNone
    <3> QED BY <2>9, <3>4 DEF x
  <2>12. PortOk(Escape(a))
    <3>1. DOMAIN Port(a) = 1..Len(Port(a)) /\ DOMAIN Escape(Port(a)) = 1..Len(Port(a))
      BY <2>10, EscapeIs, LenProperties DEF Text_
    <3>2. \A i \in 1..Len(Port(a)) : Port(a)[i] = "8"
      BY <2>5, <3>1 DEF PlainParses, PortOk
    <3>3. \A i \in 1..Len(Port(a)) : Escape(Port(a))[i] = "8"
      BY <2>10, <3>2, EscapeIs DEF Bare
    <3> QED BY <2>9, <3>1, <3>3 DEF PortOk
  <2>13. Has(Upto(Escape(a), {"//"}), {":"}) => Host(Escape(a)) # <<>>
    <3>1. SUFFICES ASSUME Has(Upto(Escape(a), {"//"}), {":"}) PROVE Escape(Host(a)) # <<>>
      BY <2>9
    <3>2. Host(a) # <<>>
      BY <2>5, <2>7, <2>8, <3>1 DEF PlainParses, u
    <3>3. Len(Escape(Host(a))) = Len(Host(a)) /\ Len(Host(a)) # 0
      BY <2>10, <3>2, EscapeIs, EmptySeq DEF Text_
    <3> QED BY <3>3, EmptySeq
  <2> QED BY <2>4, <2>11, <2>12, <2>13 DEF PlainParses
<1>9. validate_redirect(s)
  BY <1>1, <1>5, <1>7, <1>8 DEF validate_redirect, UrlParses
<1>10. Escape(e) = e
  <2>1. \A i \in 1..Len(e) : e[i] \notin Bare
    BY <1>3, FreeIn DEF Clean, White, Bare
  <2> QED BY <1>3, <2>1, EscapeNone
<1>11. Canonical(s) = s
  <2>1. Canonical(s) = (<<"tel">> \o <<":">>) \o e
    BY <1>1, <1>5, <1>7, <1>10 DEF Canonical
  <2>2. <<"tel">> \in Seq(Chars) /\ <<":">> \in Seq(Chars) /\ e \in Seq(Chars)
    BY <1>3 DEF Text_, Chars, LetterAtoms
  <2>3. (<<"tel">> \o <<":">>) \o e = s
    BY <2>2, ConcatAssociative DEF s
  <2> QED BY <2>1, <2>3
<1> QED BY <1>4, <1>6, <1>9, <1>11

\* An address a redirect takes is stored as a redirect takes it, once and for all.
LEMMA CanonicalSettles ==
  ASSUME NEW t \in Text_, validate_redirect(t)
  PROVE  /\ Canonical(t) \in Clean /\ validate_redirect(Canonical(t))
         /\ Canonical(Canonical(t)) = Canonical(t)
         /\ ~ Has(Canonical(t), White \cup {"zw"})
<1>1. UrlParses(t) /\ (Upto(t, {":"}) = <<"http">> \/ Upto(t, {":"}) = <<"tel">>)
  BY DEF validate_redirect, DEFAULT_ALLOWED_SCHEMES, Special
<1>2. /\ Canonical(t) \in Clean /\ validate_redirect(Canonical(t))
      /\ Canonical(Canonical(t)) = Canonical(t)
  BY <1>1, SpecialSettles, PlainSettles
<1>3. Canonical(t) \in Text_
  BY <1>2, FreeIn DEF Clean
<1> QED BY <1>2, <1>3, HasNone DEF Clean, Free, Text_

(***************************************************************************)
(* Line ends: what a browser writes into a post, the server reads back.    *)
(***************************************************************************)

\* Where each atom of a text ends in the post, and what stands there.
Wired(t, w, ends) ==
  /\ ends \in [0..Len(t) -> 0..Len(w)] /\ ends[0] = 0 /\ ends[Len(t)] = Len(w)
  /\ \A i \in 1..Len(t) :
       /\ t[i] = "nl" => /\ ends[i] = ends[i - 1] + 2
                         /\ w[ends[i - 1] + 1] = "cr" /\ w[ends[i - 1] + 2] = "nl"
       /\ t[i] # "nl" => /\ ends[i] = ends[i - 1] + 1
                         /\ w[ends[i - 1] + 1] = t[i]

LEMMA WireIs ==
  ASSUME NEW t \in Text_, t # <<>>
  PROVE  Wire(t) \in Text_ /\ \E ends : Wired(t, Wire(t), ends)
<1> DEFINE n == Len(t)
           p == [i \in DOMAIN t |-> IF t[i] = "nl" THEN <<"cr", "nl">> ELSE <<t[i]>>]
<1>1. n \in Nat \ {0} /\ DOMAIN t = 1..n /\ \A i \in 1..n : t[i] \in Chars
  BY EmptySeq DEF Text_
<1>2. \A i \in 1..n : p[i] = IF t[i] = "nl" THEN <<"cr", "nl">> ELSE <<t[i]>>
  BY <1>1
<1>3. p \in [1..n -> Pieces(Chars)]
  <2>1. ASSUME NEW i \in 1..n PROVE p[i] \in Pieces(Chars)
    <3>1. "cr" \in Chars /\ "nl" \in Chars /\ t[i] \in Chars
      BY <1>1 DEF Chars, White
    <3>2. <<"cr", "nl">> \in Seq(Chars) /\ <<t[i]>> \in Seq(Chars) /\ <<"cr", "nl">> # <<>> /\ <<t[i]>> # <<>>
      BY <3>1
    <3> QED BY <1>2, <3>2 DEF Pieces
  <2> QED BY <1>1, <2>1
<1>4. Wire(t) = FlattenSeq(p)
  BY DEF Wire
<1> HIDE DEF p
<1>5. PICK F : Joins(F, p, n) /\ Wire(t) = F[n]
  BY <1>1, <1>3, <1>4, FlattenJoins
<1> DEFINE ends == [i \in 0..n |-> End(F, i)]
<1>6. F[n] \in Seq(Chars) /\ \A i \in 0..n : End(F, i) \in Nat
  BY <1>1, <1>3, <1>5, EndsRise
<1>7. End(F, 0) = 0 /\ End(F, n) = Len(F[n]) /\ Len(F[n]) \in Nat
  BY <1>1, <1>6 DEF End
<1>8. \A i \in 0..n : End(F, i) \in 0..Len(F[n])
  <2> TAKE i \in 0..n
  <2>1. \A j, k \in 0..n : j < k => End(F, j) < End(F, k)
    BY <1>1, <1>3, <1>5, EndsRank
  <2>2. i < n => End(F, i) < End(F, n)
    BY <1>1, <2>1
  <2> QED BY <1>1, <1>6, <1>7, <2>2
<1>9. ASSUME NEW i \in 1..n
      PROVE  /\ End(F, i) = End(F, i - 1) + Len(p[i])
             /\ \A k \in 1..Len(p[i]) : F[n][End(F, i - 1) + k] = p[i][k]
  <2>1. PICK a \in Nat : a = End(F, i - 1)
    <3>1. i - 1 \in 0..n
      BY <1>1
    <3> QED BY <1>6, <3>1
  <2>2. PICK l \in Nat : l = Len(p[i]) /\ p[i] \in Seq(Chars)
    <3>1. p[i] \in Pieces(Chars)
      BY <1>3
    <3> QED BY <3>1 DEF Pieces
  <2>3. \A k \in 1..n : End(F, k) = End(F, k - 1) + Len(p[k]) /\ End(F, k - 1) < End(F, k)
    BY <1>1, <1>3, <1>5, EndsRise, Zenon
  <2>4. End(F, i) = a + l
    BY <2>1, <2>2, <2>3
  <2>5. SubSeq(F[n], a + 1, a + l) = p[i]
    <3>1. SubSeq(F[n], End(F, i - 1) + 1, End(F, i)) = p[i]
      BY <1>1, <1>3, <1>5, PieceStays
    <3> QED BY <2>1, <2>4, <3>1
  <2>6. a + l <= Len(F[n])
    <3>1. i \in 0..n
      BY <1>1
    <3> QED BY <1>7, <1>8, <2>4, <3>1
  <2>7. ASSUME NEW k \in 1..l PROVE F[n][a + k] = p[i][k]
    <3>1. \A j \in (a + 1)..(a + l) : F[n][j] \in Chars
      BY <1>6, <1>7, <2>6
    <3>2. \A j \in 1..((a + l) - (a + 1) + 1) : SubSeq(F[n], a + 1, a + l)[j] = F[n][(a + 1) + j - 1]
      BY <3>1, SubSeqProperties
    <3>3. k \in 1..((a + l) - (a + 1) + 1) /\ (a + 1) + k - 1 = a + k
      OBVIOUS
    <3> QED BY <2>5, <3>2, <3>3
  <2> QED BY <2>1, <2>2, <2>4, <2>7
<1>10. ASSUME NEW i \in 1..n
       PROVE  /\ t[i] = "nl" => /\ ends[i] = ends[i - 1] + 2
                                /\ F[n][ends[i - 1] + 1] = "cr" /\ F[n][ends[i - 1] + 2] = "nl"
              /\ t[i] # "nl" => /\ ends[i] = ends[i - 1] + 1
                                /\ F[n][ends[i - 1] + 1] = t[i]
  <2>1. ends[i] = End(F, i) /\ ends[i - 1] = End(F, i - 1)
    BY <1>1
  <2>2. CASE t[i] = "nl"
    <3>1. p[i] = <<"cr", "nl">>
      BY <1>2, <2>2
    <3>2. Len(p[i]) = 2 /\ p[i][1] = "cr" /\ p[i][2] = "nl" /\ 1 \in 1..Len(p[i]) /\ 2 \in 1..Len(p[i])
      BY <3>1
    <3> QED BY <1>9, <2>1, <2>2, <3>2
  <2>3. CASE t[i] # "nl"
    <3>1. p[i] = <<t[i]>>
      BY <1>2, <2>3
    <3>2. Len(p[i]) = 1 /\ p[i][1] = t[i] /\ 1 \in 1..Len(p[i])
      BY <3>1
    <3> QED BY <1>9, <2>1, <2>3, <3>2
  <2> QED BY <2>2, <2>3
<1>11. ends \in [0..n -> 0..Len(F[n])] /\ ends[0] = 0 /\ ends[n] = Len(F[n])
  BY <1>1, <1>7, <1>8
<1> HIDE DEF ends
<1>12. Wired(t, F[n], ends)
  BY <1>10, <1>11 DEF Wired
<1> QED BY <1>5, <1>6, <1>12 DEF Text_

LEMMA UnwireWire ==
  ASSUME NEW t \in Text_
  PROVE  Unwire(Wire(t)) = t
<1>1. CASE t = <<>>
  <2>1. Wire(t) = <<>>
    <3>1. [i \in DOMAIN t |-> IF t[i] = "nl" THEN <<"cr", "nl">> ELSE <<t[i]>>] = <<>>
      BY <1>1
    <3> QED BY <3>1 DEF Wire, FlattenSeq
  <2>2. Unwire(<<>>) = <<>>
    <3>1. [i \in DOMAIN <<>> |-> IF <<>>[i] = "cr" /\ i < Len(<<>>) /\ <<>>[i + 1] = "nl" THEN <<>> ELSE <<(<<>>[i])>>] = <<>>
      OBVIOUS
    <3> QED BY <3>1 DEF Unwire, FlattenSeq
  <2> QED BY <1>1, <2>1, <2>2
<1>2. CASE t # <<>>
  <2> DEFINE n == Len(t)
             w == Wire(t)
             m == Len(w)
             q == [j \in DOMAIN w |-> IF w[j] = "cr" /\ j < Len(w) /\ w[j + 1] = "nl" THEN <<>> ELSE <<w[j]>>]
  <2>1. n \in Nat \ {0} /\ \A i \in 1..n : t[i] \in Chars
    BY <1>2, EmptySeq DEF Text_
  <2>2. w \in Seq(Chars) /\ \E ends : Wired(t, w, ends)
    BY <1>2, WireIs DEF Text_
  <2>3. PICK ends : Wired(t, w, ends)
    BY <2>2
  <2> HIDE DEF w
  <2>4. /\ ends \in [0..n -> 0..m] /\ ends[0] = 0 /\ ends[n] = m /\ m \in Nat
        /\ DOMAIN w = 1..m /\ \A j \in 1..m : w[j] \in Chars
    BY <2>2, <2>3, LenProperties DEF Wired
  <2>5. \A i \in 1..n :
          /\ t[i] = "nl" => /\ ends[i] = ends[i - 1] + 2
                            /\ w[ends[i - 1] + 1] = "cr" /\ w[ends[i - 1] + 2] = "nl"
          /\ t[i] # "nl" => /\ ends[i] = ends[i - 1] + 1
                            /\ w[ends[i - 1] + 1] = t[i]
    BY <2>3 DEF Wired
  <2>6. m # 0
    <3>1. ends[n] \in Nat /\ ends[n - 1] \in Nat /\ n \in 1..n
      BY <2>1, <2>4
    <3>2. ends[n] = ends[n - 1] + 2 \/ ends[n] = ends[n - 1] + 1
      BY <2>5, <3>1
    <3> QED BY <2>4, <3>1, <3>2
  <2>7. \A j \in 1..m : q[j] = IF w[j] = "cr" /\ j < m /\ w[j + 1] = "nl" THEN <<>> ELSE <<w[j]>>
    BY <2>4
  <2>8. q \in [1..m -> Seq(Chars)]
    BY <2>4, <2>7
  <2>9. Unwire(w) = FlattenSeq(q)
    BY DEF Unwire
  <2> HIDE DEF q
  <2>10. PICK G : Joins(G, q, m) /\ FlattenSeq(q) = G[m]
    BY <2>4, <2>6, <2>8, FlattenJoins
  <2> DEFINE Got_(j) == IF j = 0 THEN <<>> ELSE G[j]
  <2>11. ASSUME NEW j \in 1..m, Got_(j - 1) \in Seq(Chars) PROVE Got_(j) = Got_(j - 1) \o q[j]
    <3>1. G[j] = IF j = 1 THEN q[j] ELSE G[j - 1] \o q[j]
      BY <2>10 DEF Joins
    <3>2. CASE j = 1
      <4>1. Got_(j) = q[j] /\ Got_(j - 1) = <<>> /\ q[j] \in Seq(Chars)
        BY <2>8, <3>1, <3>2
      <4> QED BY <4>1, ConcatEmptySeq
    <3>3. CASE j # 1
      <4>1. j # 0 /\ j - 1 # 0
        BY <2>4, <3>3
      <4> QED BY <3>1, <3>3, <4>1
    <3> QED BY <3>2, <3>3
  <2> DEFINE Failing == {i \in 0..n : Got_(ends[i]) # SubSeq(t, 1, i)}
  <2>12. ASSUME Failing # {} PROVE FALSE
    <3>1. Failing \subseteq Nat
      OBVIOUS
    <3>2. PICK i \in Failing : \A k \in Failing : i <= k
      BY <2>12, <3>1, Least
    <3>3. i # 0
      BY <2>4, SubSeqEmpty
    <3>4. i \in 1..n /\ i - 1 \in 0..n /\ i - 1 \notin Failing
      BY <2>1, <3>2, <3>3
    <3>5. PICK a \in 0..m : a = ends[i - 1]
      BY <2>4, <3>4
    <3>6. Got_(a) = SubSeq(t, 1, i - 1)
      BY <3>4, <3>5
    <3>7. SubSeq(t, 1, i - 1) \in Seq(Chars)
      <4>1. \A k \in 1..(i - 1) : t[k] \in Chars
        BY <2>1, <3>4
      <4> QED BY <3>4, <4>1, SubSeqProperties
    <3>8. SubSeq(t, 1, i) = SubSeq(t, 1, i - 1) \o <<t[i]>>
      <4>1. 1 \in 1..Len(t) /\ i \in 1..Len(t)
        BY <2>1, <3>4
      <4> QED BY <4>1, SubSeqRecursiveSecond DEF Text_
    <3>9. ends[i] \in 0..m /\ Got_(ends[i]) # SubSeq(t, 1, i)
      BY <2>4, <3>2, <3>4
    <3> HIDE DEF Failing, Got_
    <3>10. CASE t[i] = "nl"
      <4>1. ends[i] = a + 2 /\ w[a + 1] = "cr" /\ w[a + 2] = "nl"
        BY <2>5, <3>4, <3>5, <3>10
      <4>2. a + 1 \in 1..m /\ a + 2 \in 1..m /\ a + 1 < m /\ (a + 1) + 1 = a + 2 /\ (a + 1) - 1 = a /\ (a + 2) - 1 = a + 1
        BY <2>4, <3>5, <3>9, <4>1
      <4>3. q[a + 1] = <<>> /\ q[a + 2] = <<"nl">>
        BY <2>7, <4>1, <4>2
      <4>4. Got_(a + 1) = Got_(a) \o <<>>
        BY <2>11, <3>6, <3>7, <4>2, <4>3
      <4>5. Got_(a + 1) = Got_(a) /\ Got_(a) \in Seq(Chars)
        BY <3>6, <3>7, <4>4, ConcatEmptySeq
      <4>6. Got_(a + 2) = Got_(a) \o <<"nl">>
        BY <2>11, <4>2, <4>3, <4>5
      <4> QED BY <3>6, <3>8, <3>9, <3>10, <4>1, <4>6
    <3>11. CASE t[i] # "nl"
      <4>1. ends[i] = a + 1 /\ w[a + 1] = t[i]
        BY <2>5, <3>4, <3>5, <3>11
      <4>2. a + 1 \in 1..m /\ (a + 1) + 1 = a + 2 /\ (a + 1) - 1 = a
        BY <2>4, <3>5, <3>9, <4>1
      <4>3. a + 1 < m => w[a + 2] # "nl"
        <5>1. SUFFICES ASSUME a + 1 < m PROVE w[a + 2] # "nl"
          OBVIOUS
        <5>2. i # n
          BY <2>4, <4>1, <5>1
        <5>3. i + 1 \in 1..n /\ (i + 1) - 1 = i
          BY <2>1, <3>4, <5>2
        <5>4. t[i + 1] = "nl" => w[ends[i] + 1] = "cr"
          BY <2>5, <5>3
        <5>5. t[i + 1] # "nl" => w[ends[i] + 1] = t[i + 1]
          BY <2>5, <5>3
        <5>6. ends[i] + 1 = a + 2
          BY <4>1
        <5> QED BY <5>4, <5>5, <5>6
      <4>4. q[a + 1] = <<t[i]>>
        BY <2>7, <4>1, <4>2, <4>3
      <4>5. Got_(a + 1) = Got_(a) \o <<t[i]>>
        BY <2>11, <3>6, <3>7, <4>2, <4>4
      <4> QED BY <3>6, <3>8, <3>9, <4>1, <4>5
    <3> QED BY <3>10, <3>11
  <2>13. Got_(m) = SubSeq(t, 1, n)
    <3>1. n \in 0..n
      BY <2>1
    <3> QED BY <2>4, <2>12, <3>1
  <2>14. G[m] = t
    BY <2>6, <2>13, SubSeqFull DEF Text_
  <2> QED BY <2>9, <2>10, <2>14 DEF w
<1> QED BY <1>1, <1>2

(***************************************************************************)
(* What the text of a form comes to.                                       *)
(***************************************************************************)
LEMMA TrimIn ==
  ASSUME NEW s \in Text_
  PROVE  trim(s) \in Text_
<1>1. CASE Edges(s) = {}
  BY <1>1 DEF trim, Text_
<1>2. CASE Edges(s) # {}
  <2>1. Len(s) \in Nat /\ DOMAIN s = 1..Len(s) /\ \A i \in 1..Len(s) : s[i] \in Chars
    BY DEF Text_
  <2>2. Edges(s) \subseteq 1..Len(s)
    BY <2>1 DEF Edges
  <2>3. Min(Edges(s)) \in Edges(s)
    <3>1. Edges(s) \subseteq Nat
      BY <2>2
    <3> QED BY <1>2, <3>1, SmallestIs
  <2>4. Max(Edges(s)) \in Edges(s)
    <3>1. Edges(s) \subseteq 0..Len(s)
      BY <2>1, <2>2
    <3>2. \E x \in Edges(s) : \A y \in Edges(s) : y <= x
      BY <1>2, <2>1, <3>1, Greatest
    <3>3. \E x \in Edges(s) : \A y \in Edges(s) : x >= y
      BY <2>2, <3>2
    <3> QED BY <3>3 DEF Max
  <2>5. PICK a \in 1..Len(s), b \in 1..Len(s) : a = Min(Edges(s)) /\ b = Max(Edges(s))
    BY <2>2, <2>3, <2>4
  <2>6. \A i \in a..b : s[i] \in Chars
    BY <2>1
  <2>7. SubSeq(s, a, b) \in Seq(Chars)
    BY <2>6, SubSeqProperties
  <2> QED BY <1>2, <2>5, <2>7 DEF trim, Text_
<1> QED BY <1>1, <1>2

LEMMA TargetIn ==
  ASSUME NEW s \in Text_
  PROVE  normalize_target(trim(s)) \in Text_
<1>1. trim(s) \in Seq(Chars)
  BY TrimIn DEF Text_
<1>2. <<"http", ":", "//">> \in Seq(Chars)
  BY DEF Chars, LetterAtoms, White
<1>3. <<"http", ":", "//">> \o trim(s) \in Seq(Chars)
  BY <1>1, <1>2, JoinIn
<1> QED BY <1>1, <1>3 DEF normalize_target, Text_

LEMMA CleanedIn ==
  ASSUME NEW s \in Text_
  PROVE  Without(s, {"zw"}) \in Text_
<1>1. Without(s, {"zw"}) \in Seq(Chars \ {"zw"})
  BY WithoutIn DEF Text_
<1> QED BY <1>1, FreeIn DEF Free

\* A host with dots and no colon after it becomes an address that parses.
LEMMA DomainParses ==
  ASSUME NEW t \in Text_, looks_like_domain(t), ~ has_scheme(t), ~ Has(Upto(t, {"//"}), {":"})
  PROVE  validate_redirect(normalize_target(t))
<1> DEFINE h == Upto(t, {"//"})
           r == <<"//">> \o t
           s == <<"http">> \o (<<":">> \o r)
<1>1. t \in Seq(Chars) /\ "//" \in Chars /\ <<"//">> \in Seq(Chars)
  BY DEF Text_, Chars
<1>2. h \in Seq(Chars \ {"//"}) /\ h \in Seq(Chars) /\ From(t, {"//"}) \in Seq(Chars)
  BY <1>1, CutIs
<1>3. t = h \o From(t, {"//"})
  BY <1>1, CutIs
<1>4. Upto(h, {":"}) = h /\ Past(h, {":"}) = <<>>
  <2>1. \A i \in 1..Len(h) : h[i] \notin {":"}
    BY <1>2, HasNone
  <2> DEFINE rest == <<>>
             colon == {":"}
  <2>2. /\ rest \in Seq(Chars)
        /\ rest # <<>> => rest[1] \in colon
        /\ \A i \in 1..Len(h) : h[i] \notin colon
    BY <2>1
  <2>5. rest = <<>>
    OBVIOUS
  <2> HIDE DEF h, rest, colon
  <2>3. Upto(h \o rest, colon) = h /\ (rest = <<>> => Past(h \o rest, colon) = <<>>)
    <3>1. h \in Seq(Chars)
      BY <1>2
    <3> QED BY <2>2, <3>1, CutAt
  <2>4. h \o rest = h
    BY <1>2, <2>5, ConcatEmptySeq
  <2> QED BY <2>3, <2>4, <2>5 DEF colon
<1>5. ~ Has(t, White)
  BY DEF looks_like_domain
<1>6. {i \in DOMAIN h : h[i] = ".ab"} # {} /\ \A i \in DOMAIN h : h[i] \in LetterAtoms \cup {".ab", "8"}
  <2>1. /\ {i \in DOMAIN Upto(h, {":"}) : Upto(h, {":"})[i] = ".ab"} # {}
        /\ \A i \in DOMAIN Upto(h, {":"}) : Upto(h, {":"})[i] \in LetterAtoms \cup {".ab", "8"}
    BY Zenon DEF looks_like_domain
  <2> HIDE DEF h
  <2> QED BY <1>4, <2>1
<1> HIDE DEF h
<1>7. Len(h) \in Nat /\ DOMAIN h = 1..Len(h)
  BY <1>2
<1>8. h # <<>> /\ \A i \in 1..Len(h) : h[i] \in LetterAtoms \cup {".ab", "8"}
  BY <1>6, <1>7
<1>9. Host(t) = h /\ Port(t) = <<>>
  BY <1>4 DEF Host, Port, h
<1>10. SpecialParses(t)
  <2>1. Without(h, {"zw"}) = h
    <3>1. \A i \in 1..Len(h) : h[i] \notin {"zw"}
      BY <1>8 DEF LetterAtoms
    <3> QED BY <1>2, <3>1, NothingWithout
  <2>2. ~ Has(h, White)
    <3>1. \A i \in 1..Len(h) : h[i] \notin White
      BY <1>8 DEF LetterAtoms, White
    <3> QED BY <1>2, <3>1, HasNone
  <2>3. PortOk(t)
    BY <1>9 DEF PortOk
  <2> QED BY <1>8, <1>9, <2>1, <2>2, <2>3 DEF SpecialParses
<1>11. t # <<>> /\ t[1] \in Chars \ {"//"}
  <2>1. Len(h) # 0
    BY <1>2, <1>8, EmptySeq
  <2>2. 1 \in 1..Len(h)
    BY <1>7, <2>1
  <2>3. h[1] \in Chars \ {"//"}
    BY <1>2, <2>2
  <2>4. t[1] = h[1] /\ Len(t) >= Len(h)
    BY <1>2, <1>3, <1>7, <2>2, ConcatProperties
  <2> QED BY <1>7, <2>1, <2>3, <2>4
<1>12. r \in Text_ /\ s \in Text_ /\ has_scheme(s) /\ Upto(s, {":"}) = <<"http">> /\ Past(s, {":"}) = r
  <2>1. r \in Text_
    BY <1>1, JoinIn DEF Text_
  <2>2. "http" \in LetterAtoms
    BY DEF LetterAtoms
  <2> HIDE DEF r
  <2> QED BY <2>1, <2>2, AddressReads
<1>13. Rest(s) = r
  <2>1. \A i \in 1..Len(r) : r[i] \notin {"nl", "cr"}
    <3>1. \A i \in 1..Len(t) : t[i] \notin White
      BY <1>1, <1>5, HasNone
    <3>2. /\ Len(r) = 1 + Len(t) /\ Len(t) \in Nat
          /\ \A i \in 1..Len(r) : r[i] = IF i <= 1 THEN <<"//">>[i] ELSE t[i - 1]
      BY <1>1, ConcatProperties
    <3>3. ASSUME NEW i \in 1..Len(r) PROVE r[i] \notin {"nl", "cr"}
      <4>1. CASE i = 1
        BY <3>2, <4>1
      <4>2. CASE i # 1
        <5>1. i - 1 \in 1..Len(t) /\ r[i] = t[i - 1]
          BY <3>2, <4>2
        <5>2. t[i - 1] \notin White
          BY <3>1, <5>1
        <5> QED BY <5>1, <5>2 DEF White
      <4> QED BY <4>1, <4>2
    <3> QED BY <3>3
  <2> HIDE DEF r, s
  <2>2. r \in Seq(Chars)
    BY <1>12 DEF Text_
  <2>3. Without(r, {"nl", "cr"}) = r
    BY <2>1, <2>2, NothingWithout
  <2> QED BY <1>12, <2>3 DEF Rest
<1>14. Authority(s) = t
  <2>1. Authority(s) = From(r, Chars \ {"//"})
    <3> HIDE DEF r, s
    <3>1. Rest(s) \in Text_
      BY <1>12, <1>13
    <3> QED BY <1>13, <3>1, AuthorityIs
  <2>2. \A i \in 1..Len(<<"//">>) : <<"//">>[i] \notin Chars \ {"//"}
    OBVIOUS
  <2> DEFINE slashes == <<"//">>
             others == Chars \ {"//"}
  <2>3. slashes \in Seq(Chars) /\ (\A i \in 1..Len(slashes) : slashes[i] \notin others) /\ t[1] \in others
    BY <1>1, <1>11, <2>2
  <2> HIDE DEF slashes, others
  <2>4. From(slashes \o t, others) = t
    BY <1>1, <2>3, CutAt
  <2>5. From(r, Chars \ {"//"}) = t
    BY <2>4 DEF slashes, others
  <2> HIDE DEF r, s
  <2> QED BY <2>1, <2>5
<1>15. normalize_target(t) = s
  <2>1. <<"http", ":", "//">> \o t = <<"http">> \o (<<":">> \o (<<"//">> \o t))
    BY <1>1
  <2> QED BY <2>1 DEF normalize_target
<1> HIDE DEF s, r
<1> QED BY <1>10, <1>12, <1>14, <1>15 DEF validate_redirect, UrlParses, Special, DEFAULT_ALLOWED_SCHEMES

\* What is detected as an address is one, or a bare host with a colon after it.
LEMMA DetectFits ==
  ASSUME NEW s \in Text_, detect_kind(s) = "redirect"
  PROVE  \/ validate_redirect(normalize_target(trim(s)))
         \/ looks_like_domain(trim(s)) /\ Has(Upto(trim(s), {"//"}), {":"})
<1> DEFINE t == trim(s)
<1>1. t \in Text_
  BY TrimIn
<1>2. (looks_like_url(t) /\ validate_redirect(t)) \/ looks_like_domain(t)
  BY DEF detect_kind
<1> HIDE DEF t
<1>3. CASE looks_like_url(t) /\ validate_redirect(t)
  <2>1. normalize_target(t) = t
    BY <1>3 DEF looks_like_url, normalize_target
  <2> QED BY <1>3, <2>1 DEF t
<1>4. CASE looks_like_domain(t) /\ ~ has_scheme(t)
  BY <1>1, <1>4, DomainParses DEF t
<1>5. CASE looks_like_domain(t) /\ has_scheme(t)
  <2> DEFINE scheme == Upto(t, {":"})
             u == Upto(t, {"//"})
  <2>1. /\ t \in Seq(Chars) /\ Len(t) \in Nat /\ DOMAIN t = 1..Len(t)
        /\ \A i \in 1..Len(t) : t[i] \in Chars
    BY <1>1 DEF Text_
  <2>2. PICK a \in 1..(Len(t) + 1) : /\ a = At(t, {":"})
                                     /\ \A i \in 1..(a - 1) : t[i] \notin {":"}
                                     /\ a <= Len(t) => t[a] \in {":"}
    BY <2>1, AtIs
  <2>3. PICK b \in 1..(Len(t) + 1) : /\ b = At(t, {"//"})
                                     /\ \A i \in 1..(b - 1) : t[i] \notin {"//"}
                                     /\ b <= Len(t) => t[b] \in {"//"}
    BY <2>1, AtIs
  <2>4. scheme = SubSeq(t, 1, a - 1) /\ u = SubSeq(t, 1, b - 1)
    BY <2>2, <2>3 DEF Upto
  <2>5. /\ Len(scheme) = a - 1
        /\ \A i \in 1..(a - 1) : scheme[i] = t[i]
    <3>1. \A i \in 1..(a - 1) : t[i] \in Chars
      BY <2>1, <2>2
    <3>2. /\ Len(SubSeq(t, 1, a - 1)) = IF 1 <= a - 1 THEN (a - 1) - 1 + 1 ELSE 0
          /\ \A i \in 1..((a - 1) - 1 + 1) : SubSeq(t, 1, a - 1)[i] = t[1 + i - 1]
      BY <2>2, <3>1, SubSeqProperties
    <3> HIDE DEF scheme
    <3> QED BY <2>2, <2>4, <3>2
  <2>6. /\ u \in Seq(Chars) /\ Len(u) = b - 1
        /\ \A i \in 1..(b - 1) : u[i] = t[i]
    <3>1. \A i \in 1..(b - 1) : t[i] \in Chars
      BY <2>1, <2>3
    <3>2. /\ SubSeq(t, 1, b - 1) \in Seq(Chars)
          /\ Len(SubSeq(t, 1, b - 1)) = IF 1 <= b - 1 THEN (b - 1) - 1 + 1 ELSE 0
          /\ \A i \in 1..((b - 1) - 1 + 1) : SubSeq(t, 1, b - 1)[i] = t[1 + i - 1]
      BY <2>3, <3>1, SubSeqProperties
    <3> HIDE DEF u
    <3> QED BY <2>3, <2>4, <3>2
  <2>7. a <= Len(t)
    <3>1. PICK i \in 1..Len(t) : t[i] = ":"
      BY <1>5, <2>1 DEF has_scheme, Has
    <3> QED BY <2>1, <2>2, <3>1
  <2>8. scheme \in Seq(Chars) /\ \A i \in 1..Len(scheme) : scheme[i] \in LetterAtoms \cup {".ab", "8"}
    <3>1. scheme \in Seq(Chars)
      BY <2>1, CutIs
    <3>2. \A i \in DOMAIN scheme : scheme[i] \in LetterAtoms \cup {".ab", "8"}
      BY <1>5 DEF has_scheme
    <3> HIDE DEF scheme
    <3> QED BY <3>1, <3>2
  <2> HIDE DEF scheme, u
  <2>9. a <= b - 1
    <3>1. SUFFICES ASSUME b <= a PROVE FALSE
      BY <2>2, <2>3
    <3>2. t[b] = "//" /\ t[a] = ":"
      BY <2>1, <2>2, <2>3, <2>7, <3>1
    <3>3. b \in 1..(a - 1)
      BY <2>2, <2>3, <3>1, <3>2
    <3>4. t[b] \in LetterAtoms \cup {".ab", "8"}
      BY <2>5, <2>8, <3>3
    <3> QED BY <3>2, <3>4 DEF LetterAtoms
  <2>10. a \in DOMAIN u /\ u[a] \in {":"}
    BY <2>2, <2>3, <2>6, <2>7, <2>9
  <2>11. Has(u, {":"})
    BY <2>10 DEF Has
  <2> QED BY <1>5, <2>11 DEF t, u
<1> QED BY <1>2, <1>3, <1>4, <1>5

(***************************************************************************)
(* Lifetimes: what the form reads is what was asked for, or both lie       *)
(* outside the bounds.                                                     *)
(***************************************************************************)
Fits(ttl, want) ==
  IF ttl.ok /\ check_ttl(ttl.n) THEN want = ttl.n ELSE want \notin MIN_TTL_SECS..max_ttl_secs

LEMMA TypedFits ==
  ASSUME NEW n \in Int, NEW u \in {"m", "h", "d"}
  PROVE  Fits(parse_custom_ttl(Number(n), u), n * Unit(u))
<1>1. PICK m \in Nat \ {0} : m = Unit(u)
  BY InputAssumption DEF Unit
<1>2. PICK low \in Nat \ {0}, high \in Nat, most \in Nat :
        low = MIN_TTL_SECS /\ high = max_ttl_secs /\ most = MaxInt /\ high < most
  BY InputAssumption
<1>3. PICK q \in Nat : q = most \div m /\ q * m <= most /\ most < q * m + m
  <2>1. most \div m \in Nat /\ most % m \in 0..(m - 1) /\ most = (most \div m) * m + (most % m)
    BY Quotient
  <2>2. PICK q \in Nat, r \in 0..(m - 1) : q = most \div m /\ r = most % m /\ most = q * m + r
    BY <2>1
  <2>3. PICK p \in Nat : p = q * m
    BY Times
  <2>4. p <= most /\ most < p + m
    BY <2>2, <2>3
  <2>5. q \in Nat /\ q = most \div m /\ q * m <= most /\ most < q * m + m
    BY <2>2, <2>3, <2>4, Zenon
  <2> QED BY <2>5, Zenon
<1>4. CASE n > q
  <2>1. PICK p \in Nat : p = q * m
    BY Times
  <2>2. q * m + m <= n * m /\ n * m \in Nat
    BY <1>4, Times
  <2>3. PICK v \in Nat : v = n * m
    BY <2>2
  <2>4. v > most
    BY <1>3, <2>1, <2>2, <2>3
  <2>5. n * Unit(u) \notin MIN_TTL_SECS..max_ttl_secs
    BY <1>1, <1>2, <2>3, <2>4
  <2>6. ~ (parse_custom_ttl(Number(n), u).ok /\ check_ttl(parse_custom_ttl(Number(n), u).n))
    <3>1. saturating_mul(n, Unit(u)) = MaxInt
      BY <1>1, <1>2, <1>3, <1>4 DEF saturating_mul
    <3>2. ~ check_ttl(MaxInt)
      BY <1>2 DEF check_ttl
    <3> QED BY <3>1, <3>2 DEF parse_custom_ttl, Number, Field, Got, Bad
  <2> QED BY <2>5, <2>6 DEF Fits
<1>5. CASE n < 0
  <2>1. PICK k \in Nat \ {0} : n = 0 - k
    <3>1. 0 - n \in Nat \ {0} /\ n = 0 - (0 - n)
      BY <1>5
    <3> QED BY <3>1
  <2>2. PICK v \in Nat : v = k * m
    BY Times
  <2>3. n * m = 0 - v
    BY <2>1, <2>2
  <2>4. n * Unit(u) \notin MIN_TTL_SECS..max_ttl_secs
    BY <1>1, <1>2, <2>2, <2>3
  <2>5. ~ (parse_custom_ttl(Number(n), u).ok /\ check_ttl(parse_custom_ttl(Number(n), u).n))
    <3>1. saturating_mul(n, Unit(u)) \in {0 - MaxInt - 1, n * m}
      BY <1>1, <1>2, <1>3, <1>5 DEF saturating_mul
    <3>2. ~ check_ttl(0 - MaxInt - 1) /\ ~ check_ttl(n * m)
      BY <1>2, <2>2, <2>3 DEF check_ttl
    <3> QED BY <3>1, <3>2 DEF parse_custom_ttl, Number, Field, Got, Bad
  <2> QED BY <2>4, <2>5 DEF Fits
<1>6. CASE n \in 0..q
  <2>1. n \in Nat /\ n <= q
    BY <1>6
  <2>2. PICK v \in Nat : v = n * m
    BY <2>1, Times
  <2>3. saturating_mul(n, Unit(u)) = v
    BY <1>1, <1>2, <1>3, <2>1, <2>2 DEF saturating_mul
  <2>4. Parses(Number(n))
    <3>1. q <= most
      <4>1. PICK p \in Nat : p = q * m
        BY Times
      <4>2. q <= p
        <5>1. CASE q = 0
          BY <5>1
        <5>2. CASE q # 0
          <6>1. q * 1 <= q * m
            OBVIOUS
          <6> QED BY <4>1, <6>1
        <5> QED BY <5>1, <5>2
      <4> QED BY <1>3, <4>1, <4>2
    <3> QED BY <1>2, <2>1, <3>1 DEF Parses, Number, Field
  <2>5. parse_custom_ttl(Number(n), u) = Got(v)
    BY <2>3, <2>4 DEF parse_custom_ttl, Number, Field
  <2>6. n * Unit(u) = v
    BY <1>1, <2>2
  <2>7. ~ check_ttl(v) => v \notin MIN_TTL_SECS..max_ttl_secs
    BY <1>2, <2>2 DEF check_ttl
  <2> QED BY <2>5, <2>6, <2>7 DEF Fits, Got
<1> QED BY <1>3, <1>4, <1>5, <1>6

LEMMA FormFits ==
  ASSUME NEW f \in Fields, NEW want \in Int, AsksFor(f, want),
         f.ttl_stop.n \in 0 - MaxInt - 1..MaxInt, f.ttl_seconds.n \in 0 - MaxInt - 1..MaxInt
  PROVE  Fits(form_ttl(f), want)
<1>1. /\ f.ttl_custom \in Field_ /\ f.ttl_stop \in Field_ /\ f.ttl_seconds \in Field_
      /\ f.ttl_unit \in {"m", "h", "d"}
  BY DEF Fields
<1>2. CASE f.ttl_custom.is = "number"
  <2>1. f.ttl_custom = Number(f.ttl_custom.n) /\ f.ttl_custom.n \in Int
    BY <1>1, <1>2 DEF Field_, Number, Field
  <2>2. want = f.ttl_custom.n * Unit(f.ttl_unit)
    BY <1>2 DEF AsksFor
  <2>3. form_ttl(f) = parse_custom_ttl(f.ttl_custom, f.ttl_unit)
    BY <1>2 DEF form_ttl
  <2>4. Fits(parse_custom_ttl(Number(f.ttl_custom.n), f.ttl_unit), f.ttl_custom.n * Unit(f.ttl_unit))
    BY <1>1, <2>1, TypedFits
  <2> QED BY <2>1, <2>2, <2>3, <2>4
<1>3. CASE f.ttl_custom.is # "number" /\ (f.ttl_custom.is = "junk" \/ f.ttl_seconds.is = "custom")
  <2>1. want \notin MIN_TTL_SECS..max_ttl_secs
    BY <1>3 DEF AsksFor
  <2>2. form_ttl(f) = Bad
    BY <1>3 DEF form_ttl, parse_custom_ttl, Parses
  <2> QED BY <2>1, <2>2 DEF Fits, Bad
<1>4. CASE f.ttl_custom.is \notin {"number", "junk"} /\ f.ttl_seconds.is # "custom"
  <2>1. form_ttl(f) = Got(want)
    BY <1>1, <1>4 DEF form_ttl, AsksFor, Parses, Got
  <2>2. ~ check_ttl(want) => want \notin MIN_TTL_SECS..max_ttl_secs
    BY InputAssumption DEF check_ttl
  <2> QED BY <2>1, <2>2 DEF Fits, Got
<1> QED BY <1>2, <1>3, <1>4

(***************************************************************************)
(* What check_link says of a request.                                      *)
(***************************************************************************)
LEMMA KindIs ==
  ASSUME NEW choice, NEW s
  PROVE  chosen_kind(choice, s) \in {"redirect", "text"}
BY DEF chosen_kind, detect_kind

LEMMA ChecksSay ==
  ASSUME NEW choice, NEW content, NEW ttl, NEW uses, NEW c, c = check_link(choice, content, ttl, uses),
         NEW kind, kind = chosen_kind(choice, content), NEW target, target = normalize_target(trim(content))
  PROVE  /\ c.kind = kind /\ c.ttl = ttl.n /\ c.once = (uses = "1")
         /\ c.content = IF kind = "text" THEN content ELSE Canonical(target)
         /\ c.errors = {} =>
              /\ choice \in {"auto", "redirect", "text"} /\ ttl.ok /\ check_ttl(ttl.n)
              /\ kind = "redirect" => validate_redirect(target)
         /\ c.errors # {} =>
              \/ choice \notin {"auto", "redirect", "text"} \/ trim(content) = <<>>
              \/ kind = "redirect" /\ ~ validate_redirect(target)
              \/ Len(c.content) > MAX_CONTENT_BYTES
              \/ ~ (ttl.ok /\ check_ttl(ttl.n)) \/ uses \notin {"none", "1"}
<1> DEFINE stored == IF kind = "text" THEN content ELSE Canonical(target)
<1>1. c = Checked(choice, content, ttl, uses, kind, target, stored)
  BY DEF check_link, CheckedAs
<1> HIDE DEF stored
<1>2. c.kind = kind /\ c.ttl = ttl.n /\ c.once = (uses = "1") /\ c.content = stored
  BY <1>1 DEF Checked
<1> DEFINE e1 == IF choice \notin {"auto", "redirect", "text"} THEN {"kind"} ELSE {}
           e2 == IF \/ trim(content) = <<>>
                    \/ kind = "redirect" /\ ~ validate_redirect(target)
                    \/ Len(stored) > MAX_CONTENT_BYTES THEN {"content"} ELSE {}
           e3 == IF ttl.ok /\ check_ttl(ttl.n) THEN {} ELSE {"ttl_seconds"}
           e4 == IF uses \in {"none", "1"} THEN {} ELSE {"max_uses"}
<1>3. c.errors = ((e1 \cup e2) \cup e3) \cup e4
  BY <1>1 DEF Checked
<1> HIDE DEF e1, e2, e3, e4
<1>4. c.errors = {} <=> e1 = {} /\ e2 = {} /\ e3 = {} /\ e4 = {}
  BY <1>3
<1>5. /\ e1 = {} <=> choice \in {"auto", "redirect", "text"}
      /\ e2 = {} <=> ~ (\/ trim(content) = <<>>
                        \/ kind = "redirect" /\ ~ validate_redirect(target)
                        \/ Len(stored) > MAX_CONTENT_BYTES)
      /\ e3 = {} <=> ttl.ok /\ check_ttl(ttl.n)
      /\ e4 = {} <=> uses \in {"none", "1"}
  BY Zenon DEF e1, e2, e3, e4
<1> QED BY <1>2, <1>4, <1>5 DEF stored

Links_ == [kind : {"redirect", "text"}, content : Text_, ttl : Int, once : BOOLEAN, secret : BOOLEAN, token : BOOLEAN]
Made(c, secret, token) ==
  [kind |-> c.kind, content |-> c.content, ttl |-> c.ttl, once |-> c.once, secret |-> secret, token |-> token]

LEMMA WantedIn ==
  ASSUME NEW w \in Wish
  PROVE  Wanted(w) \in Text_
<1>1. w.content \in Text_
  BY DEF Wish, Text_
<1> QED BY <1>1, CleanedIn DEF Wanted

LEMMA MadeMeets ==
  ASSUME NEW w \in Wish, NEW ttl, NEW uses, NEW secret \in BOOLEAN, NEW token \in BOOLEAN,
         NEW c, c = check_link(w.kind, Wanted(w), ttl, uses), c.errors = {},
         ttl.ok /\ check_ttl(ttl.n) => w.ttl = ttl.n, w.once = (uses = "1"), w.secret = secret,
         w.via = "form" /\ w.answer = "none" => hidden_counts(w.content) = 0
  PROVE  Made(c, secret, token) \in Links_ /\ Meets(Made(c, secret, token), w)
<1> DEFINE text == Wanted(w)
           kind == chosen_kind(w.kind, text)
           target == normalize_target(trim(text))
           l == Made(c, secret, token)
<1>1. text \in Text_ /\ target \in Text_
  BY WantedIn, TargetIn
<1>2. kind \in {"redirect", "text"}
  BY KindIs
<1>3. /\ c.kind = kind /\ c.ttl = w.ttl /\ c.once = w.once
      /\ c.content = IF kind = "text" THEN text ELSE Canonical(target)
      /\ kind = "redirect" => validate_redirect(target)
  BY ChecksSay
<1> HIDE DEF text, kind, target
<1>4. l.kind = kind /\ l.ttl = w.ttl /\ l.once = w.once /\ l.secret = w.secret /\ l.content = c.content
  BY <1>3 DEF Made
<1>5. kind = "redirect" => /\ Canonical(target) \in Text_ /\ validate_redirect(Canonical(target))
                           /\ Canonical(Canonical(target)) = Canonical(target)
                           /\ ~ Has(Canonical(target), White \cup {"zw"})
  <2>1. SUFFICES ASSUME kind = "redirect" PROVE /\ Canonical(target) \in Text_ /\ validate_redirect(Canonical(target))
                                                /\ Canonical(Canonical(target)) = Canonical(target)
                                                /\ ~ Has(Canonical(target), White \cup {"zw"})
    OBVIOUS
  <2>2. validate_redirect(target)
    BY <1>3, <2>1
  <2>3. Canonical(target) \in Clean
    BY <1>1, <2>2, CanonicalSettles
  <2>4. Canonical(target) \in Text_
    BY <2>3, FreeIn DEF Clean
  <2> QED BY <1>1, <2>2, <2>4, CanonicalSettles
<1>6. l \in Links_
  <2>1. c.content \in Text_ /\ c.kind \in {"redirect", "text"}
    BY <1>1, <1>2, <1>3, <1>5
  <2>2. c.ttl \in Int /\ c.once \in BOOLEAN
    BY <1>3 DEF Wish
  <2> QED BY <2>1, <2>2 DEF Links_, Made
<1>7. Meets(l, w)
  <2> HIDE DEF l
  <2> QED BY <1>2, <1>3, <1>4, <1>5 DEF Meets, text, kind, target
<1> QED BY <1>6, <1>7

LEMMA RefusedHasCause ==
  ASSUME NEW w \in Wish, NEW ttl, NEW uses \in {"none", "1"}, Fits(ttl, w.ttl),
         NEW c, c = check_link(w.kind, Wanted(w), ttl, uses), c.errors # {}
  PROVE  Cause(w)
<1> DEFINE text == Wanted(w)
           kind == chosen_kind(w.kind, text)
           target == normalize_target(trim(text))
<1>1. text \in Text_
  BY WantedIn
<1>2. kind \in {"redirect", "text"}
  BY KindIs
<1>3. w.kind \in {"auto", "redirect", "text"}
  BY DEF Wish, Kinds_
<1>4. /\ c.content = IF kind = "text" THEN text ELSE Canonical(target)
      /\ \/ trim(text) = <<>>
         \/ kind = "redirect" /\ ~ validate_redirect(target)
         \/ Len(c.content) > MAX_CONTENT_BYTES
         \/ ~ (ttl.ok /\ check_ttl(ttl.n))
  BY <1>3, ChecksSay
<1>5. CASE trim(text) = <<>>
  BY <1>5 DEF Cause
<1>6. CASE Len(c.content) > MAX_CONTENT_BYTES
  BY <1>4, <1>6 DEF Cause
<1>7. CASE ~ (ttl.ok /\ check_ttl(ttl.n))
  BY <1>7 DEF Cause, Fits
<1>8. CASE kind = "redirect" /\ ~ validate_redirect(target)
  <2>1. CASE w.kind = "redirect"
    BY <1>8, <2>1 DEF Cause
  <2>2. CASE w.kind = "text"
    BY <1>8, <2>2 DEF chosen_kind
  <2>3. CASE w.kind = "auto"
    <3>1. detect_kind(text) = "redirect"
      BY <1>8, <2>3 DEF chosen_kind
    <3>2. looks_like_domain(trim(text)) /\ Has(Upto(trim(text), {"//"}), {":"})
      BY <1>1, <1>8, <3>1, DetectFits
    <3> QED BY <3>2 DEF Cause
  <2> QED BY <1>3, <2>1, <2>2, <2>3
<1> QED BY <1>4, <1>5, <1>6, <1>7, <1>8

(***************************************************************************)
(* The inductive invariant.  What a page would post, and what a reload     *)
(* would post again, says what the person asked for; on the page of a made *)
(* link, what the offer of a text link would post says what it offers.     *)
(***************************************************************************)
Matches(f, w) ==
  /\ f \in Fields /\ w \in Wish
  /\ w.content = f.content /\ w.kind = f.kind /\ w.answer = f.hidden_chars /\ w.via = "form"
  /\ w.once = (f.link_type = "once") /\ w.secret = (f.link_type = "secret")
  /\ Fits(form_ttl(f), w.ttl)

Offered(w, f) == [w EXCEPT !.content = f.content, !.kind = "text", !.answer = "keep"]

PostsWhatIsAsked ==
  /\ page \in {"form", "step"} => Matches(fields, asked)
  /\ page \in {"limited", "broken", "result"} /\ asked.via = "form" => Matches(sent, asked)
  /\ page = "result" /\ asked.via = "form" => Matches(fields, Offered(asked, fields))

EachMeets ==
  /\ links \in Seq(Links_) /\ wishes \in Seq(Wish) /\ Len(wishes) = Len(links)
  /\ \A i \in 1..Len(links) : Meets(links[i], wishes[i])

CreateInvariant == PostsWhatIsAsked /\ EachMeets /\ RefusedForCause

\* A lifetime is read from four fields only.
LEMMA TtlElsewhere ==
  ASSUME NEW f, NEW g, f.ttl_custom = g.ttl_custom, f.ttl_unit = g.ttl_unit,
         f.ttl_seconds = g.ttl_seconds, f.ttl_stop = g.ttl_stop
  PROVE  form_ttl(f) = form_ttl(g)
BY DEF form_ttl

\* The lifetime a page carries in seconds is the one it was made with.
LEMMA CarriedTtl ==
  ASSUME NEW f, NEW n \in Int, check_ttl(n), f.ttl_custom = Absent, f.ttl_stop = Absent, f.ttl_seconds = Number(n)
  PROVE  form_ttl(f) = Got(n) /\ Fits(form_ttl(f), n)
<1>1. Parses(Number(n))
  BY InputAssumption DEF Parses, Number, Field, check_ttl
<1>2. form_ttl(f) = Got(n)
  BY <1>1 DEF form_ttl, Absent, Number, Field, Parses
<1> QED BY <1>2 DEF Fits, Got

LEMMA HiddenCounted ==
  ASSUME NEW t \in Text_
  PROVE  hidden_counts(t) \in Nat
<1>1. DOMAIN t = 1..Len(t) /\ Len(t) \in Nat
  BY DEF Text_
<1>2. IsFiniteSet(1..Len(t))
  BY <1>1, FS_Interval
<1>3. {i \in DOMAIN t : t[i] = "zw"} \subseteq 1..Len(t)
  BY <1>1
<1>4. IsFiniteSet({i \in DOMAIN t : t[i] = "zw"})
  BY <1>2, <1>3, FS_Subset
<1> QED BY <1>4, FS_CardinalityType DEF hidden_counts

LEMMA EachMeetsKept ==
  ASSUME EachMeets, NEW c, NEW secret \in BOOLEAN, NEW token \in BOOLEAN, NEW w \in Wish,
         store_link(c, secret, token, w), Made(c, secret, token) \in Links_, Meets(Made(c, secret, token), w)
  PROVE  EachMeets'
<1> DEFINE l == Made(c, secret, token)
<1>1. links' = Append(links, l) /\ wishes' = Append(wishes, w)
  BY DEF store_link, Made
<1> HIDE DEF l
<1>2. links \in Seq(Links_) /\ wishes \in Seq(Wish) /\ Len(wishes) = Len(links) /\ l \in Links_ /\ Meets(l, w)
      /\ \A i \in 1..Len(links) : Meets(links[i], wishes[i])
  BY DEF EachMeets, l
<1>3. /\ links' \in Seq(Links_) /\ Len(links') = Len(links) + 1 /\ Len(links) \in Nat
      /\ wishes' \in Seq(Wish) /\ Len(wishes') = Len(links) + 1
      /\ links'[Len(links) + 1] = l /\ wishes'[Len(links) + 1] = w
      /\ \A i \in 1..Len(links) : links'[i] = links[i] /\ wishes'[i] = wishes[i]
  BY <1>1, <1>2, AppendProperties
<1>4. ASSUME NEW i \in 1..Len(links') PROVE Meets(links'[i], wishes'[i])
  <2>1. CASE i = Len(links) + 1
    BY <1>2, <1>3, <2>1
  <2>2. CASE i \in 1..Len(links)
    BY <1>2, <1>3, <2>2
  <2> QED BY <1>3, <2>1, <2>2
<1> QED BY <1>2, <1>3, <1>4 DEF EachMeets

\* A form that says what is asked is posted: whatever page answers it says so too.
LEMMA PostKeeps ==
  ASSUME CreateInvariant, NEW f, NEW w, Matches(f, w), Post(f, w)
  PROVE  CreateInvariant'
<1> DEFINE g == [f EXCEPT !.content = Wire(f.content)]
           typed == Unwire(g.content)
           content == IF g.hidden_chars = "remove" THEN without_hidden(typed) ELSE typed
           uses == IF g.link_type = "once" THEN "1" ELSE "none"
           ttl == form_ttl(g)
           c == check_link(g.kind, content, ttl, uses)
<1>1. sent' = f /\ FormAnswer(g, content, c, w)
  BY DEF Post, form_create
<1>2. /\ f \in Fields /\ w \in Wish
      /\ w.content = f.content /\ w.kind = f.kind /\ w.answer = f.hidden_chars /\ w.via = "form"
      /\ w.once = (f.link_type = "once") /\ w.secret = (f.link_type = "secret")
      /\ Fits(form_ttl(f), w.ttl)
  BY DEF Matches
<1>3. f.content \in Text_ /\ f.link_type \in {"public", "secret", "once"}
  BY <1>2 DEF Fields, Text_
<1>4. /\ g.content = Wire(f.content) /\ g.kind = f.kind /\ g.link_type = f.link_type
      /\ g.hidden_chars = f.hidden_chars /\ g.ttl_seconds = f.ttl_seconds /\ g.ttl_custom = f.ttl_custom
      /\ g.ttl_unit = f.ttl_unit /\ g.ttl_stop = f.ttl_stop
  BY <1>2 DEF Fields
<1>5. typed = f.content
  BY <1>3, <1>4, UnwireWire
<1>6. content = Wanted(w)
  BY <1>2, <1>4, <1>5 DEF Wanted, without_hidden
<1>7. Wanted(w) \in Text_
  BY <1>2, WantedIn
<1>8. Fits(ttl, w.ttl)
  BY <1>2, <1>4, TtlElsewhere
<1>9. uses \in {"none", "1"} /\ w.once = (uses = "1")
  BY <1>2, <1>4
<1>10. c = check_link(w.kind, Wanted(w), ttl, uses)
  BY <1>2, <1>4, <1>6
<1>11. c.ttl = ttl.n /\ (c.errors = {} => ttl.ok /\ check_ttl(ttl.n))
  BY <1>10, ChecksSay
<1>12. c.errors = {} => c.ttl = w.ttl /\ check_ttl(c.ttl)
  BY <1>8, <1>11 DEF Fits
<1> HIDE DEF g, typed, content, uses, ttl, c
<1>13. CASE c.errors # {} /\ Answer("error") /\ asked' = w
  <2>1. Cause(w)
    BY <1>2, <1>8, <1>9, <1>10, <1>13, RefusedHasCause
  <2>2. page' = "error" /\ links' = links /\ wishes' = wishes /\ asked' = w
    BY <1>13 DEF Answer
  <2>3. EachMeets'
    BY <2>2 DEF CreateInvariant, EachMeets
  <2>4. PostsWhatIsAsked'
    BY <2>2 DEF PostsWhatIsAsked
  <2>5. RefusedForCause'
    BY <2>1, <2>2 DEF RefusedForCause
  <2> QED BY <2>3, <2>4, <2>5 DEF CreateInvariant
<1>14. CASE /\ c.errors = {} /\ Asks(hidden_counts(content), g)
            /\ Answer("step") /\ fields' = hidden_step_page(g, c) /\ asked' = w
  <2>1. page' = "step" /\ links' = links /\ wishes' = wishes /\ asked' = w
    BY <1>14 DEF Answer
  <2>2. ReadBack(<<"nl">> \o Unwire(g.content)) = f.content
    <3>1. Unwire(g.content) = f.content /\ f.content \in Seq(Chars)
      BY <1>3, <1>5 DEF typed, Text_
    <3>2. "nl" \in Chars
      BY DEF Chars, White
    <3>3. /\ <<"nl">> \o f.content # <<>> /\ Head(<<"nl">> \o f.content) = "nl"
          /\ Tail(<<"nl">> \o f.content) = f.content
      BY <3>1, <3>2
    <3> QED BY <3>1, <3>3 DEF ReadBack
  <2> DEFINE h == hidden_step_page(g, c)
  <2>3. h = [f EXCEPT !.content = f.content, !.ttl_seconds = Number(c.ttl), !.ttl_custom = Absent, !.ttl_stop = Absent]
    BY <1>2, <2>2 DEF hidden_step_page, g, Fields
  <2> HIDE DEF h
  <2>4. /\ h.content = f.content /\ h.kind = f.kind /\ h.link_type = f.link_type /\ h.hidden_chars = f.hidden_chars
        /\ h.ttl_seconds = Number(c.ttl) /\ h.ttl_custom = Absent /\ h.ttl_stop = Absent
    BY <1>2, <2>3 DEF Fields
  <2>5. c.ttl \in Int
    BY <1>2, <1>12, <1>14 DEF Wish
  <2>6. h \in Fields
    <3>1. Number(c.ttl) \in Field_ /\ Absent \in Field_
      BY <2>5 DEF Number, Absent, Field, Field_
    <3> QED BY <1>2, <2>3, <3>1 DEF Fields
  <2>7. Fits(form_ttl(h), w.ttl)
    BY <1>12, <1>14, <2>4, <2>5, CarriedTtl
  <2>8. Matches(h, w)
    BY <1>2, <2>4, <2>6, <2>7 DEF Matches
  <2>9. fields' = h
    BY <1>14 DEF h
  <2>10. PostsWhatIsAsked'
    BY <2>1, <2>8, <2>9 DEF PostsWhatIsAsked
  <2>11. EachMeets'
    BY <2>1 DEF CreateInvariant, EachMeets
  <2>12. RefusedForCause'
    BY <2>1 DEF RefusedForCause
  <2> QED BY <2>10, <2>11, <2>12 DEF CreateInvariant
<1>15. CASE Answer("limited") /\ asked' = w
  <2>1. page' = "limited" /\ links' = links /\ wishes' = wishes /\ asked' = w /\ sent' = f
    BY <1>1, <1>15 DEF Answer
  <2>2. PostsWhatIsAsked'
    BY <2>1 DEF PostsWhatIsAsked
  <2>3. EachMeets'
    BY <2>1 DEF CreateInvariant, EachMeets
  <2>4. RefusedForCause'
    BY <2>1 DEF RefusedForCause
  <2> QED BY <2>2, <2>3, <2>4 DEF CreateInvariant
<1>16. CASE /\ c.errors = {} /\ ~ Asks(hidden_counts(content), g)
            /\ PaidStore(c, g.link_type = "secret", FALSE, w)
            /\ fields' = result_page(g, content, Number(c.ttl)) /\ asked' = w
  <2>1. CASE Answer("broken")
    <3>1. page' = "broken" /\ links' = links /\ wishes' = wishes /\ asked' = w /\ sent' = f
      BY <1>1, <1>16, <2>1 DEF Answer
    <3>2. PostsWhatIsAsked'
      BY <3>1 DEF PostsWhatIsAsked
    <3>3. EachMeets'
      BY <3>1 DEF CreateInvariant, EachMeets
    <3>4. RefusedForCause'
      BY <3>1 DEF RefusedForCause
    <3> QED BY <3>2, <3>3, <3>4 DEF CreateInvariant
  <2>2. CASE store_link(c, g.link_type = "secret", FALSE, w)
    <3> DEFINE r == result_page(g, content, Number(c.ttl))
    <3>1. page' = "result" /\ asked' = w /\ sent' = f /\ fields' = r
      BY <1>1, <1>16, <2>2 DEF store_link
    <3>2. c.ttl \in Int /\ c.ttl = w.ttl /\ check_ttl(c.ttl) /\ content \in Text_
      BY <1>2, <1>6, <1>7, <1>12, <1>16 DEF Wish
    <3>3. r = [f EXCEPT !.content = content, !.kind = "text", !.ttl_seconds = Number(c.ttl),
                        !.ttl_custom = Absent, !.ttl_stop = Absent, !.hidden_chars = "keep"]
      BY <1>2 DEF result_page, g, Fields
    <3> HIDE DEF r
    <3>4. /\ r.content = content /\ r.kind = "text" /\ r.link_type = f.link_type /\ r.hidden_chars = "keep"
          /\ r.ttl_seconds = Number(c.ttl) /\ r.ttl_custom = Absent /\ r.ttl_stop = Absent
      BY <1>2, <3>3 DEF Fields
    <3>5. r \in Fields
      <4>1. Number(c.ttl) \in Field_ /\ Absent \in Field_
        BY <3>2 DEF Number, Absent, Field, Field_
      <4> QED BY <1>2, <3>2, <3>3, <4>1 DEF Fields, Kinds_, Text_
    <3> DEFINE o == Offered(w, r)
    <3>6. /\ o \in Wish
          /\ o.content = content /\ o.kind = "text" /\ o.answer = "keep" /\ o.via = "form"
          /\ o.once = w.once /\ o.secret = w.secret /\ o.ttl = w.ttl
      BY <1>2, <3>2, <3>4 DEF Offered, Wish, Kinds_, Text_
    <3> HIDE DEF o
    <3>7. Fits(form_ttl(r), w.ttl)
      BY <3>2, <3>4, CarriedTtl
    <3>8. Matches(r, o)
      BY <1>2, <3>4, <3>5, <3>6, <3>7 DEF Matches
    <3>9. PostsWhatIsAsked'
      BY <3>1, <3>8 DEF PostsWhatIsAsked, o
    <3>10. EachMeets'
      <4>1. ASSUME w.answer = "none" PROVE hidden_counts(w.content) = 0
        <5>1. w.content = content
          BY <1>6, <4>1 DEF Wanted
        <5>2. hidden_counts(content) \in Nat /\ ~ (hidden_counts(content) > 0)
          BY <1>2, <1>4, <1>16, <3>2, <4>1, HiddenCounted DEF Asks
        <5> QED BY <5>1, <5>2
      <4> DEFINE secret == g.link_type = "secret"
      <4>2. secret \in BOOLEAN /\ w.secret = secret /\ FALSE \in BOOLEAN
        BY <1>2, <1>4
      <4>3. ttl.ok /\ check_ttl(ttl.n) => w.ttl = ttl.n
        BY <1>8 DEF Fits
      <4>4. store_link(c, secret, FALSE, w)
        BY <2>2
      <4> HIDE DEF secret
      <4>5. Made(c, secret, FALSE) \in Links_ /\ Meets(Made(c, secret, FALSE), w)
        BY <1>2, <1>9, <1>10, <1>16, <4>1, <4>2, <4>3, MadeMeets
      <4> QED BY <1>2, <4>2, <4>4, <4>5, EachMeetsKept DEF CreateInvariant
    <3>11. RefusedForCause'
      BY <3>1 DEF RefusedForCause
    <3> QED BY <3>9, <3>10, <3>11 DEF CreateInvariant
  <2> QED BY <1>16, <2>1, <2>2 DEF PaidStore
<1> QED BY <1>1, <1>13, <1>14, <1>15, <1>16 DEF FormAnswer

\* A request without a form, what it says, and how it is answered.
Answered(content, ttl, uses, secret, kind, w, c) ==
  /\ content \in Text_ /\ secret \in BOOLEAN /\ c = check_link(kind, content, ttl, uses)
  /\ w.via \in {"api", "curl"} /\ w.content = content /\ w.kind = kind
  /\ w.once = (uses = "1") /\ w.secret = secret /\ w.answer = "keep"
  /\ kind \in Kinds_ => w \in Wish
  /\ ttl.ok => ttl.n = w.ttl
  /\ asked' = w
  /\ \/ page' \in {"limited", "error", "broken"} /\ UNCHANGED <<links, wishes>>
     \/ c.errors = {} /\ \E token \in BOOLEAN : store_link(c, secret, token, w)

LEMMA ClientKeeps ==
  ASSUME CreateInvariant, NEW content, NEW ttl, NEW uses, NEW secret, NEW kind, NEW w, NEW c,
         Answered(content, ttl, uses, secret, kind, w, c)
  PROVE  CreateInvariant'
<1>1. /\ content \in Text_ /\ secret \in BOOLEAN /\ c = check_link(kind, content, ttl, uses)
      /\ w.via \in {"api", "curl"} /\ w.content = content /\ w.kind = kind
      /\ w.once = (uses = "1") /\ w.secret = secret /\ w.answer = "keep"
      /\ kind \in Kinds_ => w \in Wish
      /\ ttl.ok => ttl.n = w.ttl
      /\ asked' = w
      /\ \/ page' \in {"limited", "error", "broken"} /\ UNCHANGED <<links, wishes>>
         \/ c.errors = {} /\ \E token \in BOOLEAN : store_link(c, secret, token, w)
  BY DEF Answered
<1>2. Wanted(w) = content
  BY <1>1 DEF Wanted
<1>3. PostsWhatIsAsked'
  BY <1>1 DEF PostsWhatIsAsked, store_link
<1>4. RefusedForCause'
  BY <1>1 DEF RefusedForCause, store_link
<1>5. CASE page' \in {"limited", "error", "broken"} /\ UNCHANGED <<links, wishes>>
  BY <1>3, <1>4, <1>5 DEF CreateInvariant, EachMeets
<1>6. ASSUME c.errors = {}, NEW token \in BOOLEAN, store_link(c, secret, token, w)
      PROVE  CreateInvariant'
  <2>1. c = check_link(w.kind, Wanted(w), ttl, uses)
    BY <1>1, <1>2
  <2>2. w.kind \in Kinds_
    BY <1>6, <2>1, ChecksSay DEF Kinds_
  <2>3. w \in Wish
    BY <1>1, <2>2
  <2>4. Made(c, secret, token) \in Links_ /\ Meets(Made(c, secret, token), w)
    BY <1>1, <1>6, <2>1, <2>3, MadeMeets
  <2>5. EachMeets'
    BY <1>1, <1>6, <2>3, <2>4, EachMeetsKept DEF CreateInvariant
  <2> QED BY <1>3, <1>4, <2>5 DEF CreateInvariant
<1> QED BY <1>1, <1>5, <1>6

LEMMA AskKeeps ==
  ASSUME CreateInvariant, NEW r \in Requests, Ask(r)
  PROVE  CreateInvariant'
<1> DEFINE c == check_link(r.kind, r.content, Got(r.ttl), r.max_uses)
           ttl == Got(r.ttl)
           w == r.wish
<1>1. /\ r.content \in Text_ /\ r.ttl \in Int /\ r.secret \in BOOLEAN
      /\ w = [content |-> r.content, kind |-> r.kind, ttl |-> r.ttl, once |-> r.max_uses = "1",
              secret |-> r.secret, answer |-> "keep", via |-> "api"]
  BY RequestAssumption DEF Text_
<1>2. ApiAnswer(r, c, w)
  BY DEF Ask, api_create_link
<1> HIDE DEF c, w
<1>3. /\ w.content = r.content /\ w.kind = r.kind /\ w.ttl = r.ttl /\ w.secret = r.secret
      /\ w.answer = "keep" /\ w.via = "api"
  BY <1>1
<1>4. w.once = (r.max_uses = "1")
  BY <1>1
<1>5. r.kind \in Kinds_ => w \in Wish
  BY <1>1 DEF Wish, Text_
<1>6. ttl.ok => ttl.n = w.ttl
  BY <1>3 DEF Got
<1> HIDE DEF ttl
<1>7. /\ asked' = w
      /\ \/ page' \in {"limited", "error", "broken"} /\ UNCHANGED <<links, wishes>>
         \/ c.errors = {} /\ store_link(c, r.secret, TRUE, w)
  BY <1>2 DEF ApiAnswer, Limited, Answer, PaidStore
<1>8. c = check_link(r.kind, r.content, ttl, r.max_uses)
  BY DEF c, ttl
<1>9. \/ page' \in {"limited", "error", "broken"} /\ UNCHANGED <<links, wishes>>
      \/ c.errors = {} /\ \E token \in BOOLEAN : store_link(c, r.secret, token, w)
  BY <1>7
<1>10. w.via \in {"api", "curl"}
  BY <1>3
<1>11. r.content \in Text_ /\ r.secret \in BOOLEAN /\ asked' = w
  BY <1>1, <1>7
<1>12. Answered(r.content, ttl, r.max_uses, r.secret, r.kind, w, c)
  BY <1>3, <1>4, <1>5, <1>6, <1>8, <1>9, <1>10, <1>11 DEF Answered
<1> QED BY <1>12, ClientKeeps

(***************************************************************************)
(* Decoding.                                                               *)
(***************************************************************************)
Escaped(v, i) == i + 2 <= Len(v) /\ v[i] = "%" /\ {v[i + 1], v[i + 2]} \subseteq Hex
Unread(O, v, i) ==
  IF i > Len(v) THEN <<>>
  ELSE IF Escaped(v, i) THEN <<Byte(v[i + 1], v[i + 2])>> \o O[i + 3] ELSE <<v[i]>> \o O[i + 1]

DecodesFrom(O, v, m) == O = [i \in m..(Len(v) + 3) |-> Unread(O, v, i)]

LEMMA DecodingExists ==
  ASSUME NEW v, Len(v) \in Nat
  PROVE  \E O : DecodesFrom(O, v, 1)
<1> DEFINE L == Len(v)
           Off == {k \in 0..L : ~ \E O : DecodesFrom(O, v, L + 1 - k)}
<1>1. Off = {}
  <2> SUFFICES ASSUME Off # {} PROVE FALSE
    OBVIOUS
  <2>0. Off \subseteq Nat
    OBVIOUS
  <2>1. PICK k \in Off : \A h \in Off : k <= h
    BY <2>0, Least
  <2>2. k \in 0..L /\ ~ \E O : DecodesFrom(O, v, L + 1 - k)
    OBVIOUS
  <2>3. DecodesFrom([i \in (L + 1)..(L + 3) |-> <<>>], v, L + 1)
    BY DEF DecodesFrom, Unread
  <2>4. k # 0
    <3>1. L + 1 - 0 = L + 1
      OBVIOUS
    <3> QED BY <2>2, <2>3, <3>1
  <2>5. k - 1 \in 0..L /\ k - 1 \notin Off
    BY <2>1, <2>2, <2>4
  <2> HIDE DEF Off
  <2>6. PICK m \in 1..L : m = L + 1 - k /\ L + 1 - (k - 1) = m + 1
    BY <2>2, <2>4
  <2>7. PICK O : DecodesFrom(O, v, m + 1)
    BY <2>5, <2>6 DEF Off
  <2>8. \A i \in (m + 1)..(L + 3) : O[i] = Unread(O, v, i)
    BY <2>7 DEF DecodesFrom
  <2> DEFINE G == [i \in m..(L + 3) |-> IF i = m THEN Unread(O, v, m) ELSE O[i]]
  <2>9. \A i \in (m + 1)..(L + 3) : G[i] = O[i]
    BY <2>6
  <2>10. G[m] = Unread(O, v, m)
    BY <2>6
  <2>11. \A i \in m..L : Unread(G, v, i) = Unread(O, v, i)
    <3> HIDE DEF G
    <3> TAKE i \in m..L
    <3>1. i + 1 \in (m + 1)..(L + 3) /\ i + 3 \in (m + 1)..(L + 3)
      BY <2>6
    <3>2. G[i + 1] = O[i + 1] /\ G[i + 3] = O[i + 3]
      BY <2>9, <3>1
    <3> QED BY <3>2 DEF Unread
  <2>12. \A i \in (L + 1)..(L + 3) : Unread(G, v, i) = <<>> /\ Unread(O, v, i) = <<>>
    BY DEF Unread
  <2>13. G = [i \in m..(L + 3) |-> G[i]]
    OBVIOUS
  <2>14. \A i \in m..(L + 3) : G[i] = Unread(G, v, i)
    <3> HIDE DEF G
    <3> TAKE i \in m..(L + 3)
    <3>1. Unread(G, v, i) = Unread(O, v, i)
      <4>1. i \in m..L \/ i \in (L + 1)..(L + 3)
        BY <2>6
      <4> QED BY <2>11, <2>12, <4>1
    <3>2. CASE i = m
      BY <2>10, <3>1, <3>2
    <3>3. CASE i # m
      <4>1. i \in (m + 1)..(L + 3)
        BY <2>6, <3>3
      <4> QED BY <2>8, <2>9, <3>1, <4>1
    <3> QED BY <3>2, <3>3
  <2> HIDE DEF G
  <2>15. DecodesFrom(G, v, m)
    BY <2>13, <2>14 DEF DecodesFrom
  <2> QED BY <2>2, <2>6, <2>15
<1>2. L \in 0..L /\ L + 1 - L = 1
  OBVIOUS
<1>3. L \notin Off
  BY <1>1, <1>2
<1> QED BY <1>2, <1>3

Reading(O, v) == \A i \in 1..(Len(v) + 3) : O[i] = Unread(O, v, i)

LEMMA DecodingIs ==
  ASSUME NEW v, Len(v) \in Nat
  PROVE  \E O : /\ percent_decode(v) = (IF Has(O[1], {"no UTF-8"}) THEN v ELSE O[1])
                /\ Reading(O, v)
<1> USE DEF Reading
<1> DEFINE O == CHOOSE O : DecodesFrom(O, v, 1)
<1>1. DecodesFrom(O, v, 1)
  BY DecodingExists
<1>2. percent_decode(v) = (IF Has(O[1], {"no UTF-8"}) THEN v ELSE O[1])
  BY DEF percent_decode, Decode, DecodesFrom, Unread, Escaped
<1> HIDE DEF O
<1>3. \A i \in 1..(Len(v) + 3) : O[i] = Unread(O, v, i)
  BY <1>1 DEF DecodesFrom
<1> QED BY <1>2, <1>3

\* What curl makes of one byte.
Coded(ch) == CASE ch = "%" -> <<"%", "2", "5">> [] ch = "&" -> <<"%", "2", "6">> [] OTHER -> <<ch>>

LEMMA SomeIn ==
  ASSUME NEW S, NEW a \in S, NEW b \in S, NEW c \in S
  PROVE  /\ <<a>> \in Pieces(S) /\ <<a, b, c>> \in Pieces(S)
         /\ Len(<<a>>) = 1 /\ Len(<<a, b, c>>) = 3
BY DEF Pieces

LEMMA TwoIn ==
  ASSUME NEW S, NEW a \in S, NEW b \in S
  PROVE  /\ <<a, b>> \in Seq(S) /\ Len(<<a, b>>) = 2
         /\ <<a, b>>[1] = a /\ <<a, b>>[2] = b
OBVIOUS

LEMMA CodedIs ==
  ASSUME NEW ch \in Bytes
  PROVE  /\ Coded(ch) \in Pieces(Chars \ {"&"})
         /\ ch \notin {"%", "&"} => Coded(ch) = <<ch>>
         /\ ch = "%" => Coded(ch) = <<"%", "2", "5">>
         /\ ch = "&" => Coded(ch) = <<"%", "2", "6">>
<1>1. CASE ch = "%"
  <2>1. Coded(ch) = <<"%", "2", "5">>
    BY <1>1 DEF Coded
  <2>2. "%" \in Chars \ {"&"} /\ "2" \in Chars \ {"&"} /\ "5" \in Chars \ {"&"}
    BY DEF Chars
  <2>3. <<"%", "2", "5">> \in Pieces(Chars \ {"&"})
    BY <2>2, SomeIn
  <2> QED BY <1>1, <2>1, <2>3
<1>2. CASE ch = "&"
  <2>1. Coded(ch) = <<"%", "2", "6">>
    BY <1>2 DEF Coded
  <2>2. "%" \in Chars \ {"&"} /\ "2" \in Chars \ {"&"} /\ "6" \in Chars \ {"&"}
    BY DEF Chars
  <2>3. <<"%", "2", "6">> \in Pieces(Chars \ {"&"})
    BY <2>2, SomeIn
  <2> QED BY <1>2, <2>1, <2>3
<1>3. CASE ch \notin {"%", "&"}
  <2>1. Coded(ch) = <<ch>>
    BY <1>3 DEF Coded
  <2>2. ch \in Chars \ {"&"}
    BY <1>3 DEF Bytes
  <2>3. <<ch>> \in Pieces(Chars \ {"&"})
    BY <2>2, SomeIn
  <2> QED BY <1>3, <2>1, <2>3
<1> QED BY <1>1, <1>2, <1>3

LEMMA UrlencodedIs ==
  ASSUME NEW c
  PROVE  Urlencoded(c) = FlattenSeq([i \in DOMAIN c |-> Coded(c[i])])
BY DEF Urlencoded, Coded

LEMMA FirstThenRest ==
  ASSUME NEW S, NEW c \in Seq(S), NEW i \in 1..Len(c)
  PROVE  /\ SubSeq(c, i, Len(c)) = <<c[i]>> \o SubSeq(c, i + 1, Len(c))
         /\ SubSeq(c, i + 1, Len(c)) \in Seq(S)
<1>1. PICK n \in Nat : n = Len(c) /\ i \in 1..n /\ \A k \in 1..n : c[k] \in S
  OBVIOUS
<1> DEFINE r == SubSeq(c, i + 1, n)
           s == SubSeq(c, i, n)
<1>2. /\ r \in Seq(S) /\ Len(r) = n - i
      /\ \A k \in 1..(n - i) : r[k] = c[i + k]
  <2>1. /\ r \in Seq(S)
        /\ Len(r) = IF i + 1 <= n THEN n - (i + 1) + 1 ELSE 0
        /\ \A k \in 1..(n - (i + 1) + 1) : r[k] = c[(i + 1) + k - 1]
    BY <1>1, SubSeqProperties
  <2> HIDE DEF r
  <2>2. n - (i + 1) + 1 = n - i /\ (i + 1 <= n \/ n - i = 0)
    BY <1>1
  <2>3. \A k \in 1..(n - i) : (i + 1) + k - 1 = i + k
    BY <1>1
  <2> QED BY <2>1, <2>2, <2>3
<1>3. /\ s \in Seq(S) /\ Len(s) = n - i + 1
      /\ \A k \in 1..(n - i + 1) : s[k] = c[i + k - 1]
  <2>1. /\ s \in Seq(S)
        /\ Len(s) = IF i <= n THEN n - i + 1 ELSE 0
        /\ \A k \in 1..(n - i + 1) : s[k] = c[i + k - 1]
    BY <1>1, SubSeqProperties
  <2> HIDE DEF s
  <2> QED BY <1>1, <2>1
<1> HIDE DEF r, s
<1> DEFINE t == <<c[i]>> \o r
<1>4. /\ t \in Seq(S) /\ Len(t) = 1 + (n - i)
      /\ \A k \in 1..(1 + (n - i)) : t[k] = IF k <= 1 THEN c[i] ELSE r[k - 1]
  <2>1. <<c[i]>> \in Seq(S) /\ Len(<<c[i]>>) = 1 /\ <<c[i]>>[1] = c[i]
    BY <1>1
  <2> DEFINE h == <<c[i]>>
  <2> HIDE DEF h
  <2>2. h \in Seq(S) /\ Len(h) = 1 /\ h[1] = c[i]
    BY <2>1 DEF h
  <2>3. /\ h \o r \in Seq(S) /\ Len(h \o r) = Len(h) + Len(r)
        /\ \A k \in 1..(Len(h) + Len(r)) : (h \o r)[k] = IF k <= Len(h) THEN h[k] ELSE r[k - Len(h)]
    BY <1>2, <2>2, ConcatProperties
  <2>4. /\ h \o r \in Seq(S) /\ Len(h \o r) = 1 + (n - i)
        /\ \A k \in 1..(1 + (n - i)) : (h \o r)[k] = IF k <= 1 THEN h[k] ELSE r[k - 1]
    BY <1>1, <1>2, <2>2, <2>3
  <2>5. \A k \in 1..(1 + (n - i)) : k <= 1 => k = 1
    BY <1>1
  <2> QED BY <2>2, <2>4, <2>5 DEF h
<1> HIDE DEF t
<1>5. Len(s) = Len(t)
  BY <1>1, <1>3, <1>4
<1>6. \A k \in 1..Len(s) : s[k] = t[k]
  <2> TAKE k \in 1..Len(s)
  <2>1. k \in 1..(n - i + 1) /\ k \in 1..(1 + (n - i))
    BY <1>1, <1>3
  <2>2. CASE k = 1
    <3>1. i + k - 1 = i
      BY <1>1, <2>2
    <3> QED BY <1>3, <1>4, <2>1, <2>2, <3>1
  <2>3. CASE k # 1
    <3>1. k - 1 \in 1..(n - i) /\ i + (k - 1) = i + k - 1 /\ ~ (k <= 1)
      BY <1>1, <2>1, <2>3
    <3> QED BY <1>2, <1>3, <1>4, <2>1, <3>1
  <2> QED BY <2>2, <2>3
<1>7. s = t
  BY <1>3, <1>4, <1>5, <1>6, SeqEqual
<1> QED BY <1>1, <1>2, <1>7 DEF r, s, t

\* The pieces of an encoded content, and where each of them is read.
PiecesOf(c, p, F, u) ==
  /\ p = [i \in 1..Len(c) |-> Coded(c[i])] /\ Joins(F, p, Len(c)) /\ u = F[Len(c)]
  /\ u \in Seq(Chars \ {"&"})

LEMMA EncodedIs ==
  ASSUME NEW c \in Seq(Bytes), c # <<>>
  PROVE  \E p, F : PiecesOf(c, p, F, Urlencoded(c))
<1>1. PICK n \in Nat \ {0} : n = Len(c) /\ DOMAIN c = 1..n /\ \A i \in 1..n : c[i] \in Bytes
  <2>1. Len(c) \in Nat /\ Len(c) # 0
    BY EmptySeq
  <2> QED BY <2>1
<1> DEFINE p == [i \in 1..n |-> Coded(c[i])]
<1>2. p \in [1..n -> Pieces(Chars \ {"&"})]
  BY <1>1, CodedIs
<1>3. Urlencoded(c) = FlattenSeq(p)
  BY <1>1, UrlencodedIs
<1> HIDE DEF p
<1>4. PICK F : Joins(F, p, n) /\ FlattenSeq(p) = F[n]
  BY <1>2, FlattenJoins
<1>5. n \in 1..n
  BY <1>1
<1>6. F[n] \in Seq(Chars \ {"&"})
  BY <1>2, <1>4, <1>5, EndsRise
<1>7. p = [i \in 1..Len(c) |-> Coded(c[i])]
  BY <1>1 DEF p
<1> QED BY <1>1, <1>3, <1>4, <1>6, <1>7 DEF PiecesOf

\* Byte i of the content is written from place End(F, i - 1) + 1 on.
LEMMA PieceRead ==
  ASSUME NEW c \in Seq(Bytes), NEW p, NEW F, NEW u, PiecesOf(c, p, F, u), NEW i \in 1..Len(c),
         NEW O, Reading(O, u)
  PROVE  /\ End(F, i - 1) \in Nat /\ End(F, i) \in Nat
         /\ O[End(F, i - 1) + 1] = <<c[i]>> \o O[End(F, i) + 1]
<1>1. PICK n \in Nat \ {0} : n = Len(c) /\ i \in 1..n /\ \A k \in 1..n : c[k] \in Bytes
  OBVIOUS
<1>0. p = [k \in 1..n |-> Coded(c[k])]
  BY <1>1 DEF PiecesOf
<1>2. Joins(F, p, n) /\ u = F[n] /\ u \in Seq(Chars \ {"&"})
  BY <1>1 DEF PiecesOf
<1>3. p \in [1..n -> Pieces(Chars \ {"&"})]
  BY <1>0, <1>1, CodedIs
<1>4. /\ \A k \in 0..n : End(F, k) \in Nat
      /\ End(F, i) = End(F, i - 1) + Len(p[i])
  <2>1. /\ \A k \in 0..n : End(F, k) \in Nat
        /\ \A k \in 1..n : /\ End(F, k) = End(F, k - 1) + Len(p[k])
                          /\ End(F, k - 1) < End(F, k)
    BY <1>2, <1>3, EndsRise
  <2> QED BY <1>1, <2>1
<1>5. SubSeq(u, End(F, i - 1) + 1, End(F, i)) = p[i]
  BY <1>1, <1>2, <1>3, PieceStays
<1>6. End(F, n) = Len(u)
  BY <1>1, <1>2 DEF End
<1>7. i - 1 \in 0..n /\ i \in 0..n /\ n \in 0..n /\ (i < n \/ i = n)
  BY <1>1
<1>8. PICK e \in Nat, f \in Nat, l \in Nat : e = End(F, i - 1) /\ f = End(F, i) /\ l = Len(u)
  BY <1>2, <1>4, <1>7
<1>9. f <= l
  <2>1. \A a, b \in 0..n : a < b => End(F, a) < End(F, b)
    BY <1>2, <1>3, EndsRank
  <2> QED BY <1>1, <1>6, <1>7, <1>8, <2>1
<1>10. p[i] = Coded(c[i]) /\ c[i] \in Bytes
  BY <1>0, <1>1
<1>11. /\ p[i] \in Pieces(Chars \ {"&"}) /\ Len(p[i]) \in Nat \ {0}
  BY <1>1, <1>3, PieceIs
<1>12. f = e + Len(p[i])
  BY <1>4, <1>8
<1>13. \A k \in 1..Len(p[i]) : p[i][k] = u[e + k]
  <2>1. \A k \in (e + 1)..f : u[k] \in Chars \ {"&"}
    BY <1>2, <1>8, <1>9
  <2>2. \A k \in 1..(f - (e + 1) + 1) : SubSeq(u, e + 1, f)[k] = u[(e + 1) + k - 1]
    BY <2>1, SubSeqProperties
  <2> DEFINE q == SubSeq(u, e + 1, f)
  <2>3. q = p[i]
    BY <1>5, <1>8
  <2> HIDE DEF q
  <2>4. \A k \in 1..(f - (e + 1) + 1) : q[k] = u[(e + 1) + k - 1]
    BY <2>2 DEF q
  <2>5. PICK m \in Nat \ {0} : m = Len(p[i])
    BY <1>11
  <2>6. \A k \in 1..m : k \in 1..(f - (e + 1) + 1) /\ (e + 1) + k - 1 = e + k
    BY <1>12, <2>5
  <2> QED BY <2>3, <2>4, <2>5, <2>6
<1>14. O[e + 1] = Unread(O, u, e + 1) /\ ~ (e + 1 > l)
  BY <1>8, <1>9, <1>11, <1>12 DEF Reading
<1>15. CASE c[i] \notin {"%", "&"}
  <2>1. p[i] = <<c[i]>>
    BY <1>10, <1>15, CodedIs
  <2>2. Len(p[i]) = 1 /\ p[i][1] = c[i]
    BY <2>1
  <2>3. u[e + 1] = c[i] /\ f = e + 1
    BY <1>12, <1>13, <2>2
  <2>4. ~ Escaped(u, e + 1)
    BY <1>15, <2>3 DEF Escaped
  <2>5. O[e + 1] = <<u[e + 1]>> \o O[(e + 1) + 1]
    BY <1>8, <1>14, <2>4 DEF Unread
  <2> QED BY <1>8, <2>3, <2>5
<1>16. CASE c[i] \in {"%", "&"}
  <2> DEFINE d == IF c[i] = "%" THEN "5" ELSE "6"
  <2>1. p[i] = <<"%", "2", d>>
    BY <1>10, <1>16, CodedIs
  <2> HIDE DEF d
  <2>2. Len(p[i]) = 3 /\ p[i][1] = "%" /\ p[i][2] = "2" /\ p[i][3] = d
    BY <2>1
  <2>3. u[e + 1] = "%" /\ u[e + 2] = "2" /\ u[e + 3] = d /\ f = e + 3
    BY <1>12, <1>13, <2>2
  <2>4. (e + 1) + 1 = e + 2 /\ (e + 1) + 2 = e + 3 /\ (e + 1) + 3 = f + 1 /\ e + 3 <= l
    BY <1>9, <2>3
  <2>5. d \in Hex /\ "2" \in Hex
    BY DEF d, Hex
  <2>6. Escaped(u, e + 1)
    BY <1>8, <2>3, <2>4, <2>5 DEF Escaped
  <2>7. O[e + 1] = <<Byte(u[(e + 1) + 1], u[(e + 1) + 2])>> \o O[(e + 1) + 3]
    BY <1>8, <1>14, <2>6 DEF Unread
  <2>8. Byte("2", d) = c[i]
    BY <1>16 DEF Byte, d
  <2> QED BY <1>8, <2>3, <2>4, <2>7, <2>8
<1>17. c[i] \in {"%", "&"} \/ c[i] \notin {"%", "&"}
  OBVIOUS
<1>18. O[e + 1] = <<c[i]>> \o O[f + 1]
  BY <1>8, <1>15, <1>16
<1> QED BY <1>8, <1>18

(***************************************************************************)
(* A content that curl encoded is decoded to the letter.                   *)
(***************************************************************************)
LEMMA EncodedReads ==
  ASSUME NEW c \in Seq(Bytes)
  PROVE  percent_decode(Urlencoded(c)) = c /\ Urlencoded(c) \in Seq(Chars \ {"&"})
<1>1. PICK n \in Nat : n = Len(c) /\ DOMAIN c = 1..n /\ \A i \in 1..n : c[i] \in Bytes
  OBVIOUS
<1>2. ~ Has(c, {"no UTF-8"})
  BY <1>1 DEF Has, Bytes, Chars, White, LetterAtoms
<1>3. CASE c = <<>>
  <2>1. Urlencoded(c) = c
    <3>1. [i \in DOMAIN c |-> Coded(c[i])] = <<>> /\ Len(<<>>) = 0
      BY <1>3
    <3>2. FlattenSeq(<<>>) = <<>>
      BY <3>1 DEF FlattenSeq
    <3> QED BY <1>3, <3>1, <3>2, UrlencodedIs
  <2>2. Len(c) = 0 /\ c \in Seq(Chars \ {"&"}) /\ Len(c) \in Nat
    BY <1>3
  <2>3. PICK O : /\ percent_decode(c) = (IF Has(O[1], {"no UTF-8"}) THEN c ELSE O[1])
                 /\ Reading(O, c)
    BY <2>2, DecodingIs
  <2>4. 1 \in 1..(Len(c) + 3) /\ 1 > Len(c)
    BY <2>2
  <2>5. O[1] = c
    BY <1>3, <2>3, <2>4 DEF Unread, Reading
  <2> QED BY <2>1, <2>2, <2>3, <2>5
<1>4. CASE c # <<>>
  <2>1. n # 0
    BY <1>1, <1>4, EmptySeq
  <2> DEFINE u == Urlencoded(c)
  <2>2. PICK p, F : PiecesOf(c, p, F, u)
    BY <1>4, EncodedIs
  <2> HIDE DEF u
  <2>3. u \in Seq(Chars \ {"&"}) /\ u = F[n]
    BY <1>1, <2>2 DEF PiecesOf
  <2>4. PICK l \in Nat : l = Len(u)
    BY <2>3
  <2>5. PICK O : /\ percent_decode(u) = (IF Has(O[1], {"no UTF-8"}) THEN u ELSE O[1])
                 /\ Reading(O, u)
    BY <2>4, DecodingIs
  <2> DEFINE Off == {k \in 0..n : O[End(F, n - k) + 1] # SubSeq(c, n - k + 1, n)}
  <2>6. Off = {}
    <3> SUFFICES ASSUME Off # {} PROVE FALSE
      OBVIOUS
    <3>0. Off \subseteq Nat
      OBVIOUS
    <3>1. PICK k \in Off : \A h \in Off : k <= h
      BY <3>0, Least
    <3>2. k \in 0..n /\ O[End(F, n - k) + 1] # SubSeq(c, n - k + 1, n)
      OBVIOUS
    <3>3. k # 0
      <4>1. SUFFICES ASSUME k = 0 PROVE FALSE
        OBVIOUS
      <4>2. n - k = n /\ n - k + 1 = n + 1
        BY <4>1
      <4>3. SubSeq(c, n + 1, n) = <<>>
        BY SubSeqEmpty
      <4>4. End(F, n) = l
        BY <2>1, <2>3, <2>4 DEF End
      <4>5. O[l + 1] = Unread(O, u, l + 1)
        <5>1. l + 1 \in 1..(Len(u) + 3)
          BY <2>4
        <5> QED BY <2>5, <5>1 DEF Reading
      <4>6. O[l + 1] = <<>>
        BY <2>4, <4>5 DEF Unread
      <4> QED BY <3>2, <4>2, <4>3, <4>4, <4>6
    <3>4. k - 1 \in 0..n /\ k - 1 \notin Off
      <4>1. k - 1 \in 0..n /\ ~ (k <= k - 1)
        BY <3>2, <3>3
      <4> HIDE DEF Off
      <4> QED BY <3>1, <4>1
    <3> DEFINE i == n - k + 1
    <3>5. i \in 1..n /\ n - k = i - 1 /\ n - (k - 1) = i
      BY <3>2, <3>3
    <3> HIDE DEF i
    <3>6. O[End(F, i) + 1] = SubSeq(c, i + 1, n)
      BY <3>4, <3>5
    <3>7. O[End(F, i - 1) + 1] = <<c[i]>> \o O[End(F, i) + 1]
      <4>1. i \in 1..Len(c) /\ Reading(O, u) /\ PiecesOf(c, p, F, u)
        BY <1>1, <2>2, <2>5, <3>5
      <4> HIDE DEF Off
      <4> QED BY <4>1, PieceRead
    <3>8. SubSeq(c, i, n) = <<c[i]>> \o SubSeq(c, i + 1, n)
      BY <1>1, <3>5, FirstThenRest
    <3>9. n - k + 1 = i
      BY DEF i
    <3> QED BY <3>2, <3>5, <3>6, <3>7, <3>8, <3>9
  <2>7. n \in 0..n /\ n - n = 0 /\ n - n + 1 = 1 /\ End(F, 0) = 0
    BY DEF End
  <2>8. O[1] = SubSeq(c, 1, n)
    BY <2>6, <2>7
  <2>9. O[1] = c
    BY <1>1, <2>8, SubSeqFull
  <2> QED BY <1>2, <2>3, <2>5, <2>9 DEF u
<1> QED BY <1>3, <1>4

LEMMA SolidRead ==
  ASSUME NEW u \in Seq(Solid)
  PROVE  percent_decode(u) = u
<1>1. PICK n \in Nat : n = Len(u) /\ DOMAIN u = 1..n /\ \A i \in 1..n : u[i] \in Solid
  OBVIOUS
<1>2. Solid \subseteq Bytes
  BY DEF Solid
<1>3. u \in Seq(Bytes)
  BY <1>2, SeqMonotonic
<1>4. \A i \in DOMAIN u : Coded(u[i]) = <<u[i]>>
  BY <1>1, <1>2, CodedIs DEF Solid
<1>5. [i \in DOMAIN u |-> Coded(u[i])] = [i \in DOMAIN u |-> IF u[i] \in {} THEN <<>> ELSE <<u[i]>>]
  BY <1>4
<1>6. Urlencoded(u) = Without(u, {})
  BY <1>5, UrlencodedIs DEF Without
<1>7. Without(u, {}) = u
  BY NothingWithout
<1> QED BY <1>3, <1>6, <1>7, EncodedReads

(***************************************************************************)
(* Taking the last option.                                                 *)
(***************************************************************************)
LEMMA LargestIs ==
  ASSUME NEW T, T \subseteq Nat, NEW k \in T, \A x \in T : x <= k
  PROVE  Max(T) = k
<1>0. k \in Nat /\ \A x \in T : x \in Nat /\ k >= x
  OBVIOUS
<1>1. PICK m \in T : m = Max(T) /\ \A y \in T : m >= y
  BY <1>0 DEF Max
<1>2. m \in Nat /\ m >= k /\ k >= m
  BY <1>0, <1>1
<1>3. m = k
  BY <1>0, <1>2
<1> QED BY <1>1, <1>3

LEMMA CutOfCut ==
  ASSUME NEW S, NEW s \in Seq(S), NEW k \in 0..Len(s), NEW a \in 1..(k + 2), NEW b \in 0..k
  PROVE  SubSeq(SubSeq(s, 1, k), a, b) = SubSeq(s, a, b)
<1>1. PICK n \in Nat : n = Len(s) /\ k \in 0..n /\ \A i \in 1..n : s[i] \in S
  OBVIOUS
<1> DEFINE t == SubSeq(s, 1, k)
<1>2. t \in Seq(S) /\ Len(t) = k /\ \A i \in 1..k : t[i] = s[i]
  <2>1. \A i \in 1..k : s[i] \in S
    BY <1>1
  <2>2. /\ t \in Seq(S) /\ Len(t) = IF 1 <= k THEN k - 1 + 1 ELSE 0
        /\ \A i \in 1..(k - 1 + 1) : t[i] = s[1 + i - 1]
    BY <1>1, <2>1, SubSeqProperties
  <2> HIDE DEF t
  <2>3. \A i \in 1..k : i \in 1..(k - 1 + 1) /\ 1 + i - 1 = i
    BY <1>1
  <2> QED BY <1>1, <2>2, <2>3
<1> HIDE DEF t
<1> DEFINE u == SubSeq(t, a, b)
           v == SubSeq(s, a, b)
<1>3. \A i \in a..b : t[i] \in S /\ s[i] \in S /\ t[i] = s[i]
  BY <1>1, <1>2
<1>4. /\ u \in Seq(S) /\ Len(u) = IF a <= b THEN b - a + 1 ELSE 0
      /\ \A i \in 1..(b - a + 1) : u[i] = t[a + i - 1]
  BY <1>1, <1>2, <1>3, SubSeqProperties
<1>5. /\ v \in Seq(S) /\ Len(v) = IF a <= b THEN b - a + 1 ELSE 0
      /\ \A i \in 1..(b - a + 1) : v[i] = s[a + i - 1]
  BY <1>1, <1>3, SubSeqProperties
<1> HIDE DEF u, v
<1>6. \A i \in 1..Len(u) : u[i] = v[i]
  <2> TAKE i \in 1..Len(u)
  <2>1. i \in 1..(b - a + 1) /\ a + i - 1 \in a..b
    BY <1>1, <1>4
  <2> QED BY <1>3, <1>4, <1>5, <2>1
<1>7. u = v
  BY <1>4, <1>5, <1>6, SeqEqual
<1> QED BY <1>7 DEF u, v, t

\* Where the text ends without its white space, and the last `&` in it.
Splits(s, k, a) ==
  /\ k \in 0..Len(s) /\ (k # 0 => s[k] \notin White) /\ \A i \in (k + 1)..Len(s) : s[i] \in White
  /\ a \in 0..k /\ (a # 0 => s[a] = "&") /\ \A i \in (a + 1)..k : s[i] # "&"

LEMMA SplitExists ==
  ASSUME NEW S, NEW s \in Seq(S)
  PROVE  \E k, a : Splits(s, k, a)
<1>1. PICK n \in Nat : n = Len(s) /\ DOMAIN s = 1..n
  OBVIOUS
<1> DEFINE K == Edges(s) \cup {0}
<1>2. K \subseteq 0..n /\ K # {}
  BY <1>1 DEF Edges
<1>3. PICK k \in K : \A y \in K : y <= k
  BY <1>2, Greatest
<1>4. k \in 0..n /\ (k # 0 => s[k] \notin White)
  BY <1>2, <1>3 DEF Edges
<1>5. \A i \in (k + 1)..n : s[i] \in White
  <2> SUFFICES ASSUME NEW i \in (k + 1)..n, s[i] \notin White PROVE FALSE
    OBVIOUS
  <2>1. i \in K /\ ~ (i <= k)
    BY <1>1, <1>4 DEF Edges
  <2> HIDE DEF K
  <2> QED BY <1>3, <2>1
<1> HIDE DEF K
<1> DEFINE A == {i \in 0..k : i # 0 => s[i] = "&"}
<1>6. A \subseteq 0..k /\ A # {} /\ k \in Nat
  <2>1. 0 \in A /\ k \in Nat
    BY <1>4
  <2>2. A \subseteq 0..k
    OBVIOUS
  <2> HIDE DEF A
  <2> QED BY <2>1, <2>2
<1>7. PICK a \in A : \A y \in A : y <= a
  BY <1>6, Greatest
<1>8. a \in 0..k /\ (a # 0 => s[a] = "&")
  BY <1>7
<1>9. \A i \in (a + 1)..k : s[i] # "&"
  <2> SUFFICES ASSUME NEW i \in (a + 1)..k, s[i] = "&" PROVE FALSE
    OBVIOUS
  <2>1. i \in A /\ ~ (i <= a)
    BY <1>4, <1>8
  <2> HIDE DEF A
  <2> QED BY <1>7, <2>1
<1>10. Splits(s, k, a)
  BY <1>1, <1>4, <1>5, <1>8, <1>9 DEF Splits
<1> QED BY <1>10

LEMMA OptionIs ==
  ASSUME NEW S, NEW s \in Seq(S), NEW k, NEW a, Splits(s, k, a)
  PROVE  Option(s) = [rest |-> SubSeq(s, 1, a - 1), last |-> SubSeq(s, a + 1, k), found |-> a > 0]
<1>1. PICK n \in Nat : n = Len(s) /\ DOMAIN s = 1..n /\ \A i \in 1..n : s[i] \in S
  OBVIOUS
<1>2. /\ k \in 0..n /\ (k # 0 => s[k] \notin White) /\ \A i \in (k + 1)..n : s[i] \in White
      /\ a \in 0..k /\ (a # 0 => s[a] = "&") /\ \A i \in (a + 1)..k : s[i] # "&"
  BY <1>1 DEF Splits
<1> DEFINE K == Edges(s) \cup {0}
<1>3. Max(K) = k
  <2>1. K \subseteq Nat /\ k \in K
    BY <1>1, <1>2 DEF Edges
  <2>2. \A x \in K : x <= k
    <3> SUFFICES ASSUME NEW x \in K, x > k PROVE FALSE
      BY <1>2, <2>1
    <3>1. x \in (k + 1)..n /\ s[x] \notin White
      BY <1>1, <1>2 DEF Edges
    <3> QED BY <1>2, <3>1
  <2> HIDE DEF K
  <2> QED BY <2>1, <2>2, LargestIs
<1> DEFINE t == SubSeq(s, 1, k)
<1>4. trim_end(s) = t
  BY <1>3 DEF trim_end
<1>5. t \in Seq(S) /\ Len(t) = k /\ \A i \in 1..k : t[i] = s[i]
  <2>1. \A i \in 1..k : s[i] \in S
    BY <1>1, <1>2
  <2>2. /\ t \in Seq(S) /\ Len(t) = IF 1 <= k THEN k - 1 + 1 ELSE 0
        /\ \A i \in 1..(k - 1 + 1) : t[i] = s[1 + i - 1]
    BY <1>2, <2>1, SubSeqProperties
  <2> HIDE DEF t
  <2>3. \A i \in 1..k : i \in 1..(k - 1 + 1) /\ 1 + i - 1 = i
    BY <1>2
  <2> QED BY <1>2, <2>2, <2>3
<1> HIDE DEF t
<1> DEFINE I == {i \in 1..Len(t) : t[i] = "&"}
<1>6. SelectLastInSeq(t, LAMBDA c : c = "&") = a
  <2>1. SelectLastInSeq(t, LAMBDA c : c = "&") = IF I # {} THEN Max(I) ELSE 0
    BY DEF SelectLastInSeq
  <2>2. I \subseteq Nat /\ \A x \in I : x <= a
    BY <1>2, <1>5
  <2>3. CASE a = 0
    <3>1. I = {}
      BY <2>2, <2>3
    <3> QED BY <2>1, <2>3, <3>1
  <2>4. CASE a # 0
    <3>1. a \in I
      BY <1>2, <1>5, <2>4
    <3> HIDE DEF I
    <3>2. Max(I) = a
      BY <2>2, <3>1, LargestIs
    <3> QED BY <2>1, <3>1, <3>2
  <2> QED BY <2>3, <2>4
<1>7. Option(s) = [rest |-> SubSeq(t, 1, a - 1), last |-> SubSeq(t, a + 1, Len(t)), found |-> a > 0]
  BY <1>4, <1>6 DEF Option
<1>8. SubSeq(t, a + 1, k) = SubSeq(s, a + 1, k)
  <2>1. k \in 0..Len(s) /\ a + 1 \in 1..(k + 2) /\ k \in 0..k
    BY <1>1, <1>2
  <2> QED BY <2>1, CutOfCut DEF t
<1>9. SubSeq(t, 1, a - 1) = SubSeq(s, 1, a - 1)
  <2>1. CASE a = 0
    <3>1. a - 1 < 1 /\ a - 1 \in Int
      BY <2>1
    <3> QED BY <1>5, <3>1, SubSeqEmpty
  <2>2. CASE a # 0
    <3>1. k \in 0..Len(s) /\ 1 \in 1..(k + 2) /\ a - 1 \in 0..k
      BY <1>1, <1>2, <2>2
    <3> QED BY <3>1, CutOfCut DEF t
  <2> QED BY <2>1, <2>2
<1> QED BY <1>5, <1>7, <1>8, <1>9

LEMMA SolidTrim ==
  ASSUME NEW u \in Seq(Solid)
  PROVE  trim(u) = u
<1>1. PICK n \in Nat : n = Len(u) /\ DOMAIN u = 1..n /\ \A i \in 1..n : u[i] \in Solid
  OBVIOUS
<1>2. Edges(u) = 1..n
  BY <1>1 DEF Edges, Solid
<1>3. CASE n = 0
  <2>1. Edges(u) = {} /\ u = <<>>
    BY <1>1, <1>2, <1>3, EmptySeq
  <2> QED BY <2>1 DEF trim
<1>4. CASE n # 0
  <2>1. 1..n # {} /\ 1..n \subseteq Nat /\ n \in 1..n /\ 1 \in 1..n /\ \A x \in 1..n : x <= n /\ 1 <= x
    <3>1. n \in 1..n /\ 1 \in 1..n
      BY <1>4
    <3>2. 1..n \subseteq Nat /\ \A x \in 1..n : x <= n /\ 1 <= x
      OBVIOUS
    <3> QED BY <3>1, <3>2
  <2> DEFINE N == 1..n
  <2> HIDE DEF N
  <2>2. N # {} /\ N \subseteq Nat /\ n \in N /\ 1 \in N /\ \A x \in N : x <= n /\ 1 <= x
    BY <2>1 DEF N
  <2>3. Max(N) = n
    BY <2>2, LargestIs
  <2>4. Min(N) = 1
    <3>1. Min(N) \in N /\ \A x \in N : Min(N) <= x
      BY <2>2, SmallestIs
    <3>2. Min(N) \in Nat /\ Min(N) <= 1 /\ 1 <= Min(N)
      BY <2>2, <3>1
    <3> QED BY <3>2
  <2>5. Edges(u) = N
    BY <1>2 DEF N
  <2>6. trim(u) = SubSeq(u, 1, n)
    BY <2>2, <2>3, <2>4, <2>5 DEF trim
  <2> QED BY <1>1, <2>6, SubSeqFull
<1> QED BY <1>3, <1>4

Piece(o) == <<"&", o.name>> \o o.value

LEMMA OptionHas ==
  ASSUME NEW o \in Named
  PROVE  /\ o.name \in {"ttl=", "uses="} /\ o.value \in Seq(Solid) /\ o.value \in Seq(Chars)
         /\ Piece(o) \in Seq(Chars) /\ Len(Piece(o)) = Len(o.value) + 2
         /\ Piece(o)[1] = "&" /\ Piece(o)[2] = o.name
         /\ \A i \in 1..Len(o.value) : Piece(o)[i + 2] = o.value[i]
<1>1. o.name \in {"ttl=", "uses="} /\ o.value \in Seq(Solid)
  BY DEF Named
<1>2. Solid \subseteq Chars /\ "&" \in Chars /\ o.name \in Chars
  BY <1>1 DEF Solid, Bytes, Chars
<1>3. PICK v : v = o.value /\ v \in Seq(Chars) /\ v \in Seq(Solid)
  BY <1>1, <1>2, SeqMonotonic
<1>4. PICK h : h = <<"&", o.name>> /\ h \in Seq(Chars) /\ Len(h) = 2 /\ h[1] = "&" /\ h[2] = o.name
  <2> DEFINE h == <<"&", o.name>>
  <2>1. h \in Seq(Chars) /\ Len(h) = 2 /\ h[1] = "&" /\ h[2] = o.name
    BY <1>2, TwoIn
  <2> QED BY <2>1
<1>5. /\ h \o v \in Seq(Chars) /\ Len(h \o v) = Len(h) + Len(v) /\ Len(v) \in Nat
      /\ \A i \in 1..(Len(h) + Len(v)) : (h \o v)[i] = IF i <= Len(h) THEN h[i] ELSE v[i - Len(h)]
  BY <1>3, <1>4, ConcatProperties
<1>6. PICK q : q = h \o v
  OBVIOUS
<1>7. /\ q \in Seq(Chars) /\ Len(q) = 2 + Len(v)
      /\ \A i \in 1..(2 + Len(v)) : q[i] = IF i <= 2 THEN h[i] ELSE v[i - 2]
  BY <1>4, <1>5, <1>6
<1>8. 1 \in 1..(2 + Len(v)) /\ 2 \in 1..(2 + Len(v))
  BY <1>5
<1>9. \A i \in 1..Len(v) : i + 2 \in 1..(2 + Len(v)) /\ ~ (i + 2 <= 2) /\ (i + 2) - 2 = i
  BY <1>5
<1>10. q[1] = "&" /\ q[2] = o.name
  BY <1>4, <1>7, <1>8
<1>11. \A i \in 1..Len(v) : q[i + 2] = v[i]
  BY <1>7, <1>9
<1>12. Piece(o) = q
  BY <1>3, <1>4, <1>6 DEF Piece
<1> QED BY <1>1, <1>3, <1>5, <1>7, <1>10, <1>11, <1>12

\* A body that ends in an option and white space.
Ends(s, r, o, e, b, m) == s = (r \o Piece(o)) \o e /\ b = Len(r) /\ m = Len(o.value)

LEMMA LastPlaces ==
  ASSUME NEW r \in Seq(Chars), NEW o \in Named, NEW e \in Seq(White),
         NEW b \in Nat, NEW m \in Nat, NEW s, Ends(s, r, o, e, b, m)
  PROVE  /\ s \in Seq(Chars) /\ b + 2 + m \in 0..Len(s)
         /\ \A i \in 1..b : s[i] = r[i]
         /\ s[b + 1] = "&" /\ s[b + 2] = o.name
         /\ \A i \in 1..m : s[b + 2 + i] = o.value[i]
         /\ \A i \in (b + 2 + m + 1)..Len(s) : s[i] \in White
<1>1. /\ Piece(o) \in Seq(Chars) /\ Len(Piece(o)) = m + 2
      /\ Piece(o)[1] = "&" /\ Piece(o)[2] = o.name
      /\ \A i \in 1..m : Piece(o)[i + 2] = o.value[i]
  BY OptionHas DEF Ends
<1>2. PICK q : q = Piece(o)
  OBVIOUS
<1>3. White \subseteq Chars
  BY DEF Chars
<1>4. PICK l \in Nat : e \in Seq(Chars) /\ Len(e) = l /\ \A i \in 1..l : e[i] \in White
  <2>1. e \in Seq(Chars)
    BY <1>3, SeqMonotonic
  <2> QED BY <2>1
<1>5. PICK t : t = r \o q
  OBVIOUS
<1>6. /\ t \in Seq(Chars) /\ Len(t) = b + m + 2
      /\ \A i \in 1..(b + m + 2) : t[i] = IF i <= b THEN r[i] ELSE q[i - b]
  <2>1. q \in Seq(Chars) /\ Len(q) = m + 2
    BY <1>1, <1>2
  <2>2. /\ t \in Seq(Chars) /\ Len(t) = Len(r) + Len(q)
        /\ \A i \in 1..(Len(r) + Len(q)) : t[i] = IF i <= Len(r) THEN r[i] ELSE q[i - Len(r)]
    BY <1>5, <2>1, ConcatProperties
  <2>4. b = Len(r)
    BY DEF Ends
  <2>3. b + (m + 2) = b + m + 2
    OBVIOUS
  <2> QED BY <2>1, <2>2, <2>3, <2>4
<1>7. s = t \o e
  BY <1>2, <1>5 DEF Ends
<1>8. /\ s \in Seq(Chars) /\ Len(s) = (b + m + 2) + l
      /\ \A i \in 1..((b + m + 2) + l) : s[i] = IF i <= b + m + 2 THEN t[i] ELSE e[i - (b + m + 2)]
  <2>1. /\ s \in Seq(Chars) /\ Len(s) = Len(t) + Len(e)
        /\ \A i \in 1..(Len(t) + Len(e)) : s[i] = IF i <= Len(t) THEN t[i] ELSE e[i - Len(t)]
    BY <1>4, <1>6, <1>7, ConcatProperties
  <2> QED BY <1>4, <1>6, <2>1
<1>9. \A i \in 1..(b + m + 2) : s[i] = IF i <= b THEN r[i] ELSE q[i - b]
  <2>1. \A i \in 1..(b + m + 2) : i \in 1..((b + m + 2) + l) /\ i <= b + m + 2
    BY <1>4
  <2> QED BY <1>6, <1>8, <2>1
<1>10. \A i \in 1..b : s[i] = r[i]
  BY <1>9
<1>11. s[b + 1] = "&" /\ s[b + 2] = o.name
  <2>1. /\ b + 1 \in 1..(b + m + 2) /\ b + 2 \in 1..(b + m + 2) /\ ~ (b + 1 <= b) /\ ~ (b + 2 <= b)
        /\ (b + 1) - b = 1 /\ (b + 2) - b = 2
    OBVIOUS
  <2> QED BY <1>1, <1>2, <1>9, <2>1
<1>12. \A i \in 1..m : s[b + 2 + i] = o.value[i]
  <2>1. \A i \in 1..m : b + 2 + i \in 1..(b + m + 2) /\ ~ (b + 2 + i <= b) /\ (b + 2 + i) - b = i + 2
    OBVIOUS
  <2>2. \A i \in 1..m : s[b + 2 + i] = q[i + 2]
    BY <1>9, <2>1
  <2> QED BY <1>1, <1>2, <2>2
<1>13. \A i \in (b + 2 + m + 1)..Len(s) : s[i] \in White
  <2>1. \A i \in (b + 2 + m + 1)..Len(s) :
          /\ i \in 1..((b + m + 2) + l) /\ ~ (i <= b + m + 2)
          /\ i - (b + m + 2) \in 1..l
    BY <1>4, <1>8
  <2> QED BY <1>4, <1>8, <2>1
<1>14. b + 2 + m \in 0..Len(s)
  BY <1>4, <1>8
<1> QED BY <1>8, <1>10, <1>11, <1>12, <1>13, <1>14

LEMMA LastOption ==
  ASSUME NEW r \in Seq(Chars), NEW o \in Named, NEW e \in Seq(White)
  PROVE  Option((r \o Piece(o)) \o e) = [rest |-> r, last |-> <<o.name>> \o o.value, found |-> TRUE]
<1>0. PICK s : s = (r \o Piece(o)) \o e
  OBVIOUS
<1>1. PICK v : v = o.value /\ v \in Seq(Solid) /\ v \in Seq(Chars) /\ o.name \in {"ttl=", "uses="}
  BY OptionHas
<1>2. PICK b \in Nat, m \in Nat : b = Len(r) /\ m = Len(v)
  BY <1>1
<1>3. /\ s \in Seq(Chars) /\ b + 2 + m \in 0..Len(s)
      /\ \A i \in 1..b : s[i] = r[i]
      /\ s[b + 1] = "&" /\ s[b + 2] = o.name
      /\ \A i \in 1..m : s[b + 2 + i] = v[i]
      /\ \A i \in (b + 2 + m + 1)..Len(s) : s[i] \in White
  <2>1. Ends(s, r, o, e, b, m)
    BY <1>0, <1>1, <1>2 DEF Ends
  <2>2. /\ s \in Seq(Chars) /\ b + 2 + m \in 0..Len(s)
        /\ \A i \in 1..b : s[i] = r[i]
        /\ s[b + 1] = "&" /\ s[b + 2] = o.name
        /\ \A i \in 1..m : s[b + 2 + i] = o.value[i]
        /\ \A i \in (b + 2 + m + 1)..Len(s) : s[i] \in White
    BY <2>1, LastPlaces
  <2> QED BY <1>1, <2>2
<1> DEFINE k == b + 2 + m
           a == b + 1
<1>4. \A i \in 1..m : v[i] \notin White /\ v[i] # "&"
  BY <1>1, <1>2 DEF Solid
<1>5. o.name \notin White /\ o.name # "&"
  BY <1>1 DEF White
<1>6. \A i \in (b + 2)..k : s[i] \notin White /\ s[i] # "&"
  <2> TAKE i \in (b + 2)..k
  <2>1. CASE i = b + 2
    BY <1>3, <1>5, <2>1
  <2>2. CASE i # b + 2
    <3>1. i - (b + 2) \in 1..m /\ b + 2 + (i - (b + 2)) = i
      BY <2>2
    <3> QED BY <1>3, <1>4, <3>1
  <2> QED BY <2>1, <2>2
<1>7. k \in (b + 2)..k /\ a + 1 = b + 2 /\ a \in 0..k /\ a > 0 /\ a - 1 = b /\ k \in 0..Len(s)
  BY <1>3
<1>8. Splits(s, k, a)
  BY <1>3, <1>6, <1>7 DEF Splits
<1>9. Option(s) = [rest |-> SubSeq(s, 1, b), last |-> SubSeq(s, b + 2, k), found |-> TRUE]
  <2> HIDE DEF k, a
  <2>1. Option(s) = [rest |-> SubSeq(s, 1, a - 1), last |-> SubSeq(s, a + 1, k), found |-> a > 0]
    BY <1>3, <1>8, OptionIs
  <2> QED BY <1>7, <2>1
<1>10. \A i \in 1..Len(s) : s[i] \in Chars
  BY <1>3
<1>11. SubSeq(s, 1, b) = r
  <2> DEFINE q == SubSeq(s, 1, b)
  <2>1. \A i \in 1..b : s[i] \in Chars
    BY <1>2, <1>3
  <2>2. /\ q \in Seq(Chars) /\ Len(q) = IF 1 <= b THEN b - 1 + 1 ELSE 0
        /\ \A i \in 1..(b - 1 + 1) : q[i] = s[1 + i - 1]
    BY <1>2, <2>1, SubSeqProperties
  <2> HIDE DEF q
  <2>3. Len(q) = Len(r) /\ \A i \in 1..b : i \in 1..(b - 1 + 1) /\ 1 + i - 1 = i
    BY <1>2, <2>2
  <2>4. \A i \in 1..Len(q) : q[i] = r[i]
    BY <1>2, <1>3, <2>2, <2>3
  <2>5. q = r
    BY <2>2, <2>3, <2>4, SeqEqual
  <2> QED BY <2>5 DEF q
<1>12. SubSeq(s, b + 2, k) = <<o.name>> \o v
  <2>1. PICK l \in Nat : l = Len(s) /\ k <= l
    BY <1>3
  <2> DEFINE q == SubSeq(s, b + 2, k)
             w == <<o.name>> \o v
  <2>2. \A i \in (b + 2)..k : s[i] \in Chars
    BY <1>10, <2>1
  <2>3. /\ q \in Seq(Chars) /\ Len(q) = IF b + 2 <= k THEN k - (b + 2) + 1 ELSE 0
        /\ \A i \in 1..(k - (b + 2) + 1) : q[i] = s[(b + 2) + i - 1]
    BY <2>2, SubSeqProperties
  <2>4. <<o.name>> \in Seq(Chars) /\ Len(<<o.name>>) = 1 /\ <<o.name>>[1] = o.name
    BY <1>1 DEF Chars
  <2>5. PICK h : h = <<o.name>> /\ h \in Seq(Chars) /\ Len(h) = 1 /\ h[1] = o.name
    BY <2>4
  <2>6. /\ h \o v \in Seq(Chars) /\ Len(h \o v) = Len(h) + Len(v)
        /\ \A i \in 1..(Len(h) + Len(v)) : (h \o v)[i] = IF i <= Len(h) THEN h[i] ELSE v[i - Len(h)]
    BY <1>1, <2>5, ConcatProperties
  <2>7. w = h \o v
    BY <2>5
  <2> HIDE DEF q, w
  <2>8. /\ w \in Seq(Chars) /\ Len(w) = 1 + m
        /\ \A i \in 1..(1 + m) : w[i] = IF i <= 1 THEN h[i] ELSE v[i - 1]
    BY <1>2, <2>5, <2>6, <2>7
  <2>9. /\ Len(q) = 1 + m /\ \A i \in 1..(1 + m) : q[i] = s[(b + 2) + i - 1]
    <3>1. k - (b + 2) + 1 = 1 + m /\ b + 2 <= k
      OBVIOUS
    <3> QED BY <2>3, <3>1
  <2>10. \A i \in 1..Len(q) : q[i] = w[i]
    <3> TAKE i \in 1..Len(q)
    <3>1. i \in 1..(1 + m)
      BY <2>9
    <3>2. CASE i = 1
      <4>1. (b + 2) + i - 1 = b + 2
        BY <3>2
      <4> QED BY <1>3, <2>5, <2>8, <2>9, <3>1, <3>2, <4>1
    <3>3. CASE i # 1
      <4>1. (b + 2) + i - 1 = b + 2 + (i - 1) /\ i - 1 \in 1..m /\ ~ (i <= 1)
        BY <3>1, <3>3
      <4> QED BY <1>3, <2>8, <2>9, <3>1, <4>1
    <3> QED BY <3>2, <3>3
  <2>11. q = w
    BY <2>3, <2>8, <2>9, <2>10, SeqEqual
  <2> QED BY <2>11 DEF q, w
<1> QED BY <1>0, <1>1, <1>9, <1>11, <1>12

(***************************************************************************)
(* The turns of the loop.                                                  *)
(***************************************************************************)
Turn(rest, ttl, uses, d) == [rest |-> rest, ttl |-> ttl, uses |-> uses, done |-> d = "done"]

LEMMA HeadTailOfOne ==
  ASSUME NEW S, NEW a \in S, NEW v \in Seq(S)
  PROVE  <<a>> \o v # <<>> /\ Head(<<a>> \o v) = a /\ Tail(<<a>> \o v) = v
OBVIOUS

EndsIn(s, r, o, e) == s = (r \o Piece(o)) \o e

LEMMA OptionTaken ==
  ASSUME NEW r \in Seq(Chars), NEW o \in Named, NEW e \in Seq(White), NEW s, EndsIn(s, r, o, e),
         NEW x, NEW y, NEW d, d # "done"
  PROVE  /\ o.name = "ttl=" => TakeOption(Turn(s, x, y, d)) = Turn(r, <<o.value>>, y, d)
         /\ o.name # "ttl=" => TakeOption(Turn(s, x, y, d)) = Turn(r, x, <<o.value>>, d)
<1>1. s = (r \o Piece(o)) \o e
  BY DEF EndsIn
<1>2. PICK v : v = o.value /\ v \in Seq(Solid) /\ o.name \in {"ttl=", "uses="}
  BY OptionHas
<1>3. PICK w : w = <<o.name>> \o v
  OBVIOUS
<1>4. Option(s) = [rest |-> r, last |-> w, found |-> TRUE]
  BY <1>1, <1>2, <1>3, LastOption
<1>5. w # <<>> /\ Head(w) = o.name /\ Tail(w) = v
  <2>1. v \in Seq(Solid \cup {o.name}) /\ o.name \in Solid \cup {o.name}
    <3>1. Solid \subseteq Solid \cup {o.name}
      OBVIOUS
    <3> QED BY <1>2, <3>1, SeqMonotonic
  <2> QED BY <1>3, <2>1, HeadTailOfOne
<1>6. percent_decode(trim(v)) = v
  BY <1>2, SolidTrim, SolidRead
<1>7. PICK p : p = Turn(s, x, y, d)
  OBVIOUS
<1>8. p.rest = s /\ ~ p.done
  BY <1>7 DEF Turn
<1>9. TakeOption(p) = IF o.name = "ttl=" THEN [p EXCEPT !.rest = r, !.ttl = <<v>>]
                                         ELSE [p EXCEPT !.rest = r, !.uses = <<v>>]
  <2>1. PICK t : t = [rest |-> r, last |-> w, found |-> TRUE]
    OBVIOUS
  <2>2. t.found /\ t.last = w /\ t.rest = r
    BY <2>1
  <2>3. TakeOption(p) = Taken(p, t)
    BY <1>4, <1>8, <2>1 DEF TakeOption
  <2> QED BY <1>2, <1>5, <1>6, <1>8, <2>2, <2>3, Zenon DEF Taken
<1>10. /\ [p EXCEPT !.rest = r, !.ttl = <<v>>] = Turn(r, <<v>>, y, d)
       /\ [p EXCEPT !.rest = r, !.uses = <<v>>] = Turn(r, x, <<v>>, d)
  <2>1. PICK z : z = <<v>>
    OBVIOUS
  <2>2. PICK q : q = [p EXCEPT !.rest = r]
    OBVIOUS
  <2>3. q = [rest |-> r, ttl |-> x, uses |-> y, done |-> d = "done"]
    BY <1>7, <2>2 DEF Turn
  <2>4. [q EXCEPT !.ttl = z] = [rest |-> r, ttl |-> z, uses |-> y, done |-> d = "done"]
    BY <2>3
  <2>6. [q EXCEPT !.uses = z] = [rest |-> r, ttl |-> x, uses |-> z, done |-> d = "done"]
    BY <2>3
  <2>5. /\ [p EXCEPT !.rest = r, !.ttl = z] = [q EXCEPT !.ttl = z]
        /\ [p EXCEPT !.rest = r, !.uses = z] = [q EXCEPT !.uses = z]
    BY <2>2
  <2> QED BY <2>1, <2>4, <2>5, <2>6 DEF Turn
<1> QED BY <1>1, <1>2, <1>7, <1>9, <1>10

\* No option ends such a text.
Plain(s) == s \in Seq(Chars) /\ (~ Has(s, {"&"}) \/ ~ Has(s, {"ttl=", "uses="}))

LEMMA NothingTaken ==
  ASSUME NEW s, Plain(s), NEW x, NEW y, NEW d
  PROVE  TakeOption(Turn(s, x, y, d)) = Turn(s, x, y, "done")
<1>1. PICK n \in Nat : s \in Seq(Chars) /\ n = Len(s) /\ DOMAIN s = 1..n
  BY DEF Plain
<1>2. PICK k, a : Splits(s, k, a)
  BY <1>1, SplitExists
<1>3. k \in 0..n /\ a \in 0..k /\ (a # 0 => s[a] = "&")
  BY <1>1, <1>2 DEF Splits
<1> DEFINE w == SubSeq(s, a + 1, k)
           o == [rest |-> SubSeq(s, 1, a - 1), last |-> w, found |-> a > 0]
<1>4. Option(s) = o
  BY <1>1, <1>2, OptionIs
<1>5. ~ (a > 0 /\ w # <<>> /\ Head(w) \in {"ttl=", "uses="})
  <2> SUFFICES ASSUME a > 0, w # <<>>, Head(w) \in {"ttl=", "uses="} PROVE FALSE
    OBVIOUS
  <2>1. \A i \in (a + 1)..k : s[i] \in Chars
    BY <1>1, <1>3
  <2>2. /\ w \in Seq(Chars) /\ Len(w) = IF a + 1 <= k THEN k - (a + 1) + 1 ELSE 0
        /\ \A i \in 1..(k - (a + 1) + 1) : w[i] = s[(a + 1) + i - 1]
    BY <1>1, <1>3, <2>1, SubSeqProperties
  <2>3. a + 1 <= k
    <3> HIDE DEF w
    <3> QED BY <1>3, <2>2, EmptySeq
  <2> HIDE DEF w
  <2>4. 1 \in 1..(k - (a + 1) + 1) /\ (a + 1) + 1 - 1 = a + 1
    BY <1>3, <2>3
  <2>5. Head(w) = w[1]
    BY <2>2
  <2>6. s[a + 1] \in {"ttl=", "uses="} /\ s[a] \in {"&"}
    BY <1>3, <2>2, <2>4, <2>5
  <2>7. a + 1 \in DOMAIN s /\ a \in DOMAIN s
    BY <1>1, <1>3, <2>3
  <2> QED BY <2>6, <2>7 DEF Plain, Has
<1>6. PICK p : p = Turn(s, x, y, d)
  OBVIOUS
<1>7. p.rest = s
  BY <1>6 DEF Turn
<1>8. o.found = (a > 0) /\ o.last = w
  OBVIOUS
<1> HIDE DEF o, w
<1>9. TakeOption(p) = Taken(p, o)
  BY <1>4, <1>7 DEF TakeOption
<1>10. Taken(p, o) = [p EXCEPT !.done = TRUE]
  BY <1>5, <1>8, Zenon DEF Taken
<1> QED BY <1>6, <1>9, <1>10 DEF Turn

Start(body) == [rest |-> body, ttl |-> <<>>, uses |-> <<>>, done |-> FALSE]

TurnsTo(R, body, n) ==
  R = [k \in 0..n |-> IF k = 0 THEN Start(body) ELSE TakeOption(R[k - 1])]

LEMMA TurnsExist ==
  ASSUME NEW body, NEW n \in Nat
  PROVE  \E R : TurnsTo(R, body, n)
<1> DEFINE Off == {m \in Nat : ~ \E R : TurnsTo(R, body, m)}
<1> SUFFICES ASSUME Off # {} PROVE FALSE
  OBVIOUS
<1>1. Off \subseteq Nat
  OBVIOUS
<1>2. PICK m \in Off : \A k \in Off : m <= k
  BY <1>1, Least
<1>3. TurnsTo([k \in 0..0 |-> Start(body)], body, 0)
  BY DEF TurnsTo
<1>4. m \in Nat \ {0} /\ ~ \E R : TurnsTo(R, body, m)
  BY <1>3
<1>5. m - 1 \in Nat /\ m - 1 \notin Off
  BY <1>2, <1>4
<1>6. PICK R : TurnsTo(R, body, m - 1)
  BY <1>5
<1> DEFINE G == [k \in 0..m |-> IF k = 0 THEN Start(body) ELSE TakeOption(R[k - 1])]
<1>7. \A k \in 0..(m - 1) : R[k] = G[k]
  <2>1. \A k \in 0..(m - 1) : R[k] = IF k = 0 THEN Start(body) ELSE TakeOption(R[k - 1])
    BY <1>6 DEF TurnsTo
  <2> QED BY <1>4, <2>1
<1>8. \A k \in 0..m : G[k] = IF k = 0 THEN Start(body) ELSE TakeOption(G[k - 1])
  <2> TAKE k \in 0..m
  <2>1. CASE k = 0
    BY <2>1
  <2>2. CASE k # 0
    <3>1. k - 1 \in 0..(m - 1)
      BY <1>4, <2>2
    <3>2. R[k - 1] = G[k - 1]
      BY <1>7, <3>1
    <3> QED BY <2>2, <3>2
  <2> QED BY <2>1, <2>2
<1>9. TurnsTo(G, body, m)
  BY <1>8 DEF TurnsTo
<1> QED BY <1>4, <1>9

LEMMA ParseTurns ==
  ASSUME NEW body, NEW n \in Nat, n = Len(body)
  PROVE  \E R : /\ parse_plain_body(body) = PlainFields(R[n])
                /\ R[0] = Turn(body, <<>>, <<>>, "open")
                /\ \A k \in 1..n : R[k] = TakeOption(R[k - 1])
<1> DEFINE R == CHOOSE R : TurnsTo(R, body, n)
<1>1. TurnsTo(R, body, n)
  BY TurnsExist
<1>2. parse_plain_body(body) = PlainFields(R[n])
  BY DEF parse_plain_body, TurnsTo, Start
<1> HIDE DEF R
<1>3. \A k \in 0..n : R[k] = IF k = 0 THEN Start(body) ELSE TakeOption(R[k - 1])
  BY <1>1 DEF TurnsTo
<1>4. 0 \in 0..n /\ \A k \in 1..n : k \in 0..n /\ k # 0
  OBVIOUS
<1>5. Start(body) = Turn(body, <<>>, <<>>, "open")
  BY DEF Start, Turn
<1> QED BY <1>2, <1>3, <1>4, <1>5

(***************************************************************************)
(* What is left of the body, and what was taken, after so many turns.      *)
(***************************************************************************)
Pre(options, j) == FlattenSeq([i \in 1..j |-> Piece(options[i])])

LEMMA PreIs ==
  ASSUME NEW options \in Seq(Named), NEW j \in 0..Len(options)
  PROVE  /\ Pre(options, j) \in Seq(Chars)
         /\ j # 0 => /\ Pre(options, j) = Pre(options, j - 1) \o Piece(options[j])
                     /\ Pre(options, j - 1) \in Seq(Chars)
<1>1. \A i \in 1..Len(options) : Piece(options[i]) \in Seq(Chars)
  <2> TAKE i \in 1..Len(options)
  <2>1. options[i] \in Named
    OBVIOUS
  <2> QED BY <2>1, OptionHas
<1>2. PICK m \in Nat : m = Len(options) /\ j \in 0..m
  OBVIOUS
<1>3. \A i \in 0..m : Pre(options, i) \in Seq(Chars)
  <2> TAKE i \in 0..m
  <2> DEFINE q == [k \in 1..i |-> Piece(options[k])]
  <2>1. q \in [1..i -> Seq(Chars)] /\ i \in Nat
    BY <1>1, <1>2
  <2> HIDE DEF q
  <2>2. FlattenSeq(q) \in Seq(Chars)
    BY <2>1, JoinedIn
  <2> QED BY <2>2 DEF Pre, q
<1>4. ASSUME j # 0 PROVE Pre(options, j) = Pre(options, j - 1) \o Piece(options[j])
  <2>1. PICK n \in Nat : j = n + 1 /\ n = j - 1
    BY <1>2, <1>4
  <2> DEFINE q == [k \in 1..(n + 1) |-> Piece(options[k])]
  <2>2. q \in [1..(n + 1) -> Seq(Chars)] /\ q[n + 1] = Piece(options[j])
    BY <1>1, <1>2, <2>1
  <2>3. [k \in 1..n |-> q[k]] = [k \in 1..n |-> Piece(options[k])]
    OBVIOUS
  <2> HIDE DEF q
  <2>4. FlattenSeq(q) = FlattenSeq([k \in 1..n |-> q[k]]) \o q[n + 1]
    BY <2>2, JoinsOne
  <2>5. Pre(options, j) = FlattenSeq(q)
    BY <2>1 DEF Pre, q
  <2>6. Pre(options, j - 1) = FlattenSeq([k \in 1..n |-> q[k]])
    BY <2>1, <2>3 DEF Pre
  <2> QED BY <2>2, <2>4, <2>5, <2>6
<1>5. j # 0 => j - 1 \in 0..m
  BY <1>2
<1> QED BY <1>2, <1>3, <1>4, <1>5

LEMMA PreLength ==
  ASSUME NEW options \in Seq(Named)
  PROVE  Len(Pre(options, Len(options))) >= Len(options)
<1>1. PICK m \in Nat : m = Len(options)
  OBVIOUS
<1> DEFINE Off == {j \in 0..m : ~ (Len(Pre(options, j)) >= j)}
<1>2. Off = {}
  <2> SUFFICES ASSUME Off # {} PROVE FALSE
    OBVIOUS
  <2>1. Off \subseteq Nat
    OBVIOUS
  <2>2. PICK j \in Off : \A k \in Off : j <= k
    BY <2>1, Least
  <2>3. j \in 0..m /\ ~ (Len(Pre(options, j)) >= j)
    OBVIOUS
  <2> HIDE DEF Off
  <2>4. PICK l \in Nat : l = Len(Pre(options, j)) /\ j # 0
    <3>1. Pre(options, j) \in Seq(Chars)
      BY <1>1, <2>3, PreIs
    <3>2. Len(Pre(options, j)) \in Nat
      BY <3>1
    <3> QED BY <2>3, <3>2
  <2>5. PICK k \in Nat : k = Len(Pre(options, j - 1)) /\ k >= j - 1
    <3>1. Pre(options, j - 1) \in Seq(Chars)
      BY <1>1, <2>3, <2>4, PreIs
    <3>2. Len(Pre(options, j - 1)) \in Nat
      BY <3>1
    <3>3. j - 1 \in 0..m /\ ~ (j <= j - 1)
      BY <2>3, <2>4
    <3>4. j - 1 \notin Off
      BY <2>2, <3>3
    <3> QED BY <3>2, <3>3, <3>4 DEF Off
  <2>6. l >= k + 2
    <3>1. Pre(options, j) = Pre(options, j - 1) \o Piece(options[j]) /\ Pre(options, j - 1) \in Seq(Chars)
      BY <1>1, <2>3, <2>4, PreIs
    <3>2. options[j] \in Named
      BY <1>1, <2>3, <2>4
    <3>3. /\ Piece(options[j]) \in Seq(Chars) /\ Len(Piece(options[j])) = Len(options[j].value) + 2
          /\ options[j].value \in Seq(Chars)
      BY <3>2, OptionHas
    <3>4. PICK v \in Nat : v = Len(options[j].value) /\ Len(Piece(options[j])) = v + 2
      BY <3>3
    <3>5. l = k + (v + 2)
      BY <2>4, <2>5, <3>1, <3>3, <3>4, ConcatProperties
    <3> QED BY <3>5
  <2> QED BY <2>3, <2>4, <2>5, <2>6
<1>3. m \in 0..m
  OBVIOUS
<1>4. Len(Pre(options, m)) >= m
  BY <1>2, <1>3
<1> QED BY <1>1, <1>4

\* The first option of a name among those after the j-th.
After(options, j, name) ==
  LET places == {i \in (j + 1)..Len(options) : options[i].name = name}
  IN  IF places = {} THEN <<>> ELSE <<options[Min(places)].value>>

LEMMA AfterIs ==
  ASSUME NEW options, Len(options) \in Nat, NEW name, NEW j \in 1..Len(options)
  PROVE  After(options, j - 1, name) =
           IF options[j].name = name THEN <<options[j].value>> ELSE After(options, j, name)
<1>1. PICK m \in Nat : m = Len(options) /\ j \in 1..m
  OBVIOUS
<1> DEFINE P(k) == {i \in k..m : options[i].name = name}
<1>2. CASE options[j].name = name
  <2>1. j \in P(j) /\ P(j) \subseteq Nat /\ \A x \in P(j) : j <= x
    BY <1>1, <1>2
  <2> DEFINE N == P(j)
  <2> HIDE DEF N
  <2>2. Min(N) = j
    <3>1. j \in N /\ N \subseteq Nat /\ \A x \in N : j <= x
      BY <2>1 DEF N
    <3>2. Min(N) \in N /\ \A x \in N : Min(N) <= x
      BY <3>1, SmallestIs
    <3>3. PICK a \in Nat : a = Min(N) /\ a <= j /\ j <= a
      BY <3>1, <3>2
    <3>4. a = j
      BY <1>1, <3>3
    <3> QED BY <3>3, <3>4
  <2>3. (j - 1) + 1 = j
    BY <1>1
  <2>4. After(options, j - 1, name) = IF N = {} THEN <<>> ELSE <<options[Min(N)].value>>
    BY <1>1, <2>3 DEF After, N
  <2>5. N # {}
    BY <2>1 DEF N
  <2> QED BY <1>2, <2>2, <2>4, <2>5
<1>3. CASE options[j].name # name
  <2>1. P(j) = P(j + 1)
    <3>1. \A i \in j..m : options[i].name = name => i \in (j + 1)..m
      BY <1>1, <1>3
    <3>2. \A i \in (j + 1)..m : i \in j..m
      BY <1>1
    <3> QED BY <3>1, <3>2
  <2>2. (j - 1) + 1 = j
    BY <1>1
  <2>3. After(options, j - 1, name) = After(options, j, name)
    BY <1>1, <2>1, <2>2 DEF After
  <2> QED BY <1>3, <2>3
<1> QED BY <1>2, <1>3

\* How far k turns are in a body of these options.
Turned(R, base, options, end, k) ==
  LET j == Len(options) - k IN
  \E e \in Seq(White) :
    /\ R[k] = Turn((base \o Pre(options, j)) \o e, After(options, j, "ttl="), After(options, j, "uses="), "open")
    /\ e = IF k = 0 THEN end ELSE <<>>

LEMMA TurnTakes ==
  ASSUME NEW base \in Seq(Chars), NEW options \in Seq(Named), NEW end \in Seq(White), NEW R,
         NEW k \in 1..Len(options), R[k] = TakeOption(R[k - 1]), Turned(R, base, options, end, k - 1)
  PROVE  Turned(R, base, options, end, k)
<1>1. PICK m \in Nat : m = Len(options) /\ k \in 1..m
  OBVIOUS
<1>2. PICK j \in 1..m : j = m - (k - 1) /\ m - k = j - 1
  <2>1. m - (k - 1) \in 1..m /\ m - k = (m - (k - 1)) - 1
    BY <1>1
  <2> QED BY <2>1
<1> DEFINE x == After(options, j, "ttl=")
           y == After(options, j, "uses=")
           r == base \o Pre(options, j - 1)
           o == options[j]
<1>3. PICK e \in Seq(White) : R[k - 1] = Turn((base \o Pre(options, j)) \o e, x, y, "open")
  BY <1>1, <1>2 DEF Turned
<1>4. o \in Named /\ j # 0 /\ j \in 0..m
  BY <1>1, <1>2
<1>5. Pre(options, j) = Pre(options, j - 1) \o Piece(o) /\ Pre(options, j - 1) \in Seq(Chars)
  BY <1>1, <1>4, PreIs
<1>6. Piece(o) \in Seq(Chars) /\ o.name \in {"ttl=", "uses="}
  BY <1>4, OptionHas
<1>7. base \o Pre(options, j) = r \o Piece(o) /\ r \in Seq(Chars)
  <2> DEFINE t == Pre(options, j - 1)
             q == Piece(o)
  <2> HIDE DEF t, q, o
  <2>1. t \in Seq(Chars) /\ q \in Seq(Chars)
    BY <1>5, <1>6 DEF t, q
  <2>2. base \o (t \o q) = (base \o t) \o q
    BY <2>1, ConcatAssociative
  <2>3. base \o t \in Seq(Chars)
    BY <2>1, ConcatProperties
  <2> QED BY <1>5, <2>2, <2>3 DEF t, q
<1>8. /\ After(options, j - 1, "ttl=") = IF o.name = "ttl=" THEN <<o.value>> ELSE x
      /\ After(options, j - 1, "uses=") = IF o.name = "uses=" THEN <<o.value>> ELSE y
  <2>1. Len(options) \in Nat /\ j \in 1..Len(options)
    BY <1>1
  <2> QED BY <2>1, AfterIs
<1> HIDE DEF x, y, r, o
<1>9. R[k] = IF o.name = "ttl=" THEN Turn(r, <<o.value>>, y, "open") ELSE Turn(r, x, <<o.value>>, "open")
  <2>1. PICK s : EndsIn(s, r, o, e) /\ R[k - 1] = Turn(s, x, y, "open")
    BY <1>3, <1>7 DEF EndsIn
  <2>2. o \in Named /\ r \in Seq(Chars)
    BY <1>4, <1>7
  <2>3. /\ o.name = "ttl=" => TakeOption(Turn(s, x, y, "open")) = Turn(r, <<o.value>>, y, "open")
        /\ o.name # "ttl=" => TakeOption(Turn(s, x, y, "open")) = Turn(r, x, <<o.value>>, "open")
    BY <2>1, <2>2, OptionTaken
  <2> QED BY <2>1, <2>3
<1>10. R[k] = Turn(r, After(options, j - 1, "ttl="), After(options, j - 1, "uses="), "open")
  <2>1. CASE o.name = "ttl="
    <3>1. o.name # "uses="
      BY <2>1
    <3> QED BY <1>8, <1>9, <2>1, <3>1
  <2>2. CASE o.name # "ttl="
    <3>1. o.name = "uses="
      BY <1>6, <2>2
    <3> QED BY <1>8, <1>9, <2>2, <3>1
  <2> QED BY <2>1, <2>2
<1>11. r = r \o <<>> /\ <<>> \in Seq(White)
  BY <1>7, ConcatEmptySeq
<1>12. R[k] = Turn((base \o Pre(options, j - 1)) \o <<>>, After(options, j - 1, "ttl="), After(options, j - 1, "uses="), "open")
  BY <1>10, <1>11 DEF r
<1>13. Len(options) - k = j - 1 /\ k # 0
  BY <1>1, <1>2
<1> QED BY <1>11, <1>12, <1>13 DEF Turned

Consists(body, base, options, end) == body = (base \o Appended(options)) \o end

LEMMA BodyTurns ==
  ASSUME NEW base, Plain(base), NEW options \in Seq(Named), NEW end \in Seq(White), options = <<>> => end = <<>>,
         NEW body, Consists(body, base, options, end)
  PROVE  \E d : parse_plain_body(body) =
           PlainFields(Turn(base, Counts(options, "ttl="), Counts(options, "uses="), d))
<1>1. PICK m \in Nat : m = Len(options) /\ DOMAIN options = 1..m
  OBVIOUS
<1>2. base \in Seq(Chars)
  BY DEF Plain
<1>3. Appended(options) = Pre(options, m)
  BY <1>1 DEF Appended, Pre, Piece
<1>4. Pre(options, m) \in Seq(Chars) /\ Len(Pre(options, m)) >= m
  <2>1. m \in 0..Len(options)
    BY <1>1
  <2> QED BY <1>1, <2>1, PreIs, PreLength
<1>5. PICK n \in Nat : n = Len(body) /\ m <= n
  <2>1. PICK a \in Nat, b \in Nat, c \in Nat : a = Len(base) /\ b = Len(Pre(options, m)) /\ c = Len(end)
    BY <1>2, <1>4
  <2>2. base \o Pre(options, m) \in Seq(Chars) /\ Len(base \o Pre(options, m)) = a + b
    BY <1>2, <1>4, <2>1, ConcatProperties
  <2>3. end \in Seq(Chars)
    <3>1. White \subseteq Chars
      BY DEF Chars
    <3> QED BY <3>1, SeqMonotonic
  <2>4. Len(body) = a + b + c
    BY <1>3, <2>1, <2>2, <2>3, ConcatProperties DEF Consists
  <2>5. b >= m
    BY <1>4, <2>1
  <2> QED BY <2>4, <2>5
<1>6. PICK R : /\ parse_plain_body(body) = PlainFields(R[n])
               /\ R[0] = Turn(body, <<>>, <<>>, "open")
               /\ \A k \in 1..n : R[k] = TakeOption(R[k - 1])
  BY <1>5, ParseTurns
<1>7. \A k \in 0..m : Turned(R, base, options, end, k)
  <2> DEFINE Off == {k \in 0..m : ~ Turned(R, base, options, end, k)}
  <2> SUFFICES ASSUME Off # {} PROVE FALSE
    OBVIOUS
  <2>1. Off \subseteq Nat
    OBVIOUS
  <2>2. PICK k \in Off : \A h \in Off : k <= h
    BY <2>1, Least
  <2>3. k \in 0..m /\ ~ Turned(R, base, options, end, k)
    OBVIOUS
  <2>4. k # 0
    <3>1. After(options, m, "ttl=") = <<>> /\ After(options, m, "uses=") = <<>>
      <4>1. (m + 1)..m = {}
        OBVIOUS
      <4> QED BY <1>1, <4>1 DEF After
    <3>2. m - 0 = m
      OBVIOUS
    <3>3. R[0] = Turn((base \o Pre(options, m)) \o end, After(options, m, "ttl="), After(options, m, "uses="), "open")
      BY <1>3, <1>6, <3>1 DEF Consists
    <3>4. Turned(R, base, options, end, 0)
      BY <1>1, <3>2, <3>3 DEF Turned
    <3> QED BY <2>3, <3>4
  <2>5. k - 1 \in 0..m /\ ~ (k <= k - 1) /\ k \in 1..n /\ k \in 1..m
    BY <1>5, <2>3, <2>4
  <2> HIDE DEF Off
  <2>6. Turned(R, base, options, end, k - 1)
    BY <2>2, <2>5 DEF Off
  <2>7. R[k] = TakeOption(R[k - 1]) /\ k \in 1..Len(options)
    BY <1>1, <1>6, <2>5
  <2> QED BY <1>2, <2>3, <2>6, <2>7, TurnTakes
<1> DEFINE x == Counts(options, "ttl=")
           y == Counts(options, "uses=")
<1>8. R[m] = Turn(base, x, y, "open")
  <2>1. After(options, 0, "ttl=") = x /\ After(options, 0, "uses=") = y
    BY <1>1 DEF After, Counts
  <2>2. m - m = 0 /\ m \in 0..m
    OBVIOUS
  <2>3. PICK e : /\ R[m] = Turn((base \o Pre(options, 0)) \o e, x, y, "open")
                 /\ e = IF m = 0 THEN end ELSE <<>>
    BY <1>1, <1>7, <2>1, <2>2 DEF Turned
  <2>4. e = <<>>
    <3>1. m = 0 => options = <<>>
      BY <1>1, EmptySeq
    <3> QED BY <2>3, <3>1
  <2>5. Pre(options, 0) = <<>>
    <3>1. [i \in 1..0 |-> Piece(options[i])] = <<>> /\ Len(<<>>) = 0
      OBVIOUS
    <3>2. FlattenSeq(<<>>) = <<>>
      BY <3>1 DEF FlattenSeq
    <3> QED BY <3>1, <3>2 DEF Pre
  <2>6. base \o <<>> = base
    BY <1>2, ConcatEmptySeq
  <2> QED BY <2>3, <2>4, <2>5, <2>6
<1> HIDE DEF x, y
<1>9. \A k \in m..n : \E d : R[k] = Turn(base, x, y, d)
  <2> DEFINE Off == {k \in m..n : ~ \E d : R[k] = Turn(base, x, y, d)}
  <2> SUFFICES ASSUME Off # {} PROVE FALSE
    OBVIOUS
  <2>1. Off \subseteq Nat
    OBVIOUS
  <2>2. PICK k \in Off : \A h \in Off : k <= h
    BY <2>1, Least
  <2>3. k \in m..n /\ ~ \E d : R[k] = Turn(base, x, y, d)
    OBVIOUS
  <2> HIDE DEF Off
  <2>4. k # m
    BY <1>8, <2>3
  <2>5. k - 1 \in m..n /\ ~ (k <= k - 1) /\ k \in 1..n
    BY <2>3, <2>4
  <2>6. PICK d : R[k - 1] = Turn(base, x, y, d)
    BY <2>2, <2>5 DEF Off
  <2>7. R[k] = Turn(base, x, y, "done")
    BY <1>6, <2>5, <2>6, NothingTaken
  <2> QED BY <2>3, <2>7
<1>10. n \in m..n
  BY <1>5
<1>11. PICK d : R[n] = Turn(base, x, y, d)
  BY <1>9, <1>10
<1> QED BY <1>6, <1>11 DEF x, y

(***************************************************************************)
(* A body means what was put into it, whatever white space ends it.        *)
(***************************************************************************)
LEMMA BodyReads ==
  ASSUME NEW g \in [content : Seq(Bytes), options : Seq(Named)], NEW named \in BOOLEAN, NEW end \in Seq(White),
         Clear(g.content, named)
  PROVE  parse_plain_body(Sent(g, named, end)) = Meant(g)
<1>1. PICK c \in Seq(Bytes), options \in Seq(Named) : c = g.content /\ options = g.options
  OBVIOUS
<1> DEFINE base == Base(c, named)
           last == IF options = <<>> THEN <<>> ELSE end
           x == Counts(options, "ttl=")
           y == Counts(options, "uses=")
<1>2. Bytes \subseteq Chars
  BY DEF Bytes
<1>3. c \in Seq(Chars)
  BY <1>2, SeqMonotonic
<1>4. last \in Seq(White) /\ (options = <<>> => last = <<>>)
  <2>1. <<>> \in Seq(White)
    OBVIOUS
  <2> QED BY <2>1
<1>5. Sent(g, named, end) = (base \o Appended(options)) \o last
  BY <1>1 DEF Sent
<1> DEFINE u == Urlencoded(c)
<1>6. percent_decode(u) = c /\ u \in Seq(Chars \ {"&"})
  BY EncodedReads
<1>7. Plain(base)
  <2>1. CASE named
    <3>1. base = <<"url=">> \o u
      BY <2>1 DEF Base
    <3>2. <<"url=">> \in Seq(Chars \ {"&"}) /\ Chars \ {"&"} \subseteq Chars
      <4>1. "url=" \in Chars \ {"&"}
        BY DEF Chars
      <4> QED BY <4>1
    <3> HIDE DEF base, u
    <3>3. base \in Seq(Chars \ {"&"})
      BY <1>6, <3>1, <3>2, JoinIn
    <3>4. base \in Seq(Chars)
      BY <3>2, <3>3, SeqMonotonic
    <3>5. ~ Has(base, {"&"})
      BY <3>3, <3>4, HasNone
    <3> QED BY <3>4, <3>5 DEF Plain
  <2>2. CASE ~ named
    <3>1. base = c
      BY <2>2 DEF Base
    <3>2. ~ Has(c, {"url=", "ttl=", "uses="})
      BY <1>1, <2>2 DEF Clear
    <3>3. ~ Has(c, {"ttl=", "uses="})
      BY <3>2 DEF Has
    <3> QED BY <1>3, <3>1, <3>3 DEF Plain
  <2> QED BY <2>1, <2>2
<1>8. PICK d : parse_plain_body(Sent(g, named, end)) = PlainFields(Turn(base, x, y, d))
  <2> DEFINE s == Sent(g, named, end)
  <2> HIDE DEF base, last
  <2>1. Consists(s, base, options, last)
    BY <1>5 DEF Consists
  <2> HIDE DEF s
  <2>2. \E d : parse_plain_body(s) = PlainFields(Turn(base, Counts(options, "ttl="), Counts(options, "uses="), d))
    BY <1>4, <1>7, <2>1, BodyTurns
  <2> QED BY <2>2 DEF s
<1>9. PlainFields(Turn(base, x, y, d)) = [content |-> c, ttl |-> x, uses |-> y]
  <2>1. CASE named
    <3>1. base = <<"url=">> \o u
      BY <2>1 DEF Base
    <3>2. u \in Seq(Chars) /\ "url=" \in Chars
      <4>1. Chars \ {"&"} \subseteq Chars /\ "url=" \in Chars
        BY DEF Chars
      <4> QED BY <1>6, <4>1, SeqMonotonic
    <3> HIDE DEF u
    <3>3. base # <<>> /\ Head(base) = "url=" /\ Tail(base) = u
      BY <3>1, <3>2, HeadTailOfOne
    <3> HIDE DEF base, x, y
    <3> QED BY <1>6, <3>3 DEF PlainFields, Turn
  <2>2. CASE ~ named
    <3>1. base = c
      BY <2>2 DEF Base
    <3>2. ~ (c # <<>> /\ Head(c) = "url=")
      <4>1. ~ Has(c, {"url=", "ttl=", "uses="})
        BY <1>1, <2>2 DEF Clear
      <4>2. ASSUME c # <<>> PROVE Head(c) = c[1] /\ 1 \in DOMAIN c
        BY <4>2
      <4> QED BY <4>1, <4>2 DEF Has
    <3> HIDE DEF base, x, y
    <3> QED BY <3>1, <3>2 DEF PlainFields, Turn
  <2> QED BY <2>1, <2>2
<1> QED BY <1>1, <1>8, <1>9 DEF Meant

GivenInvariant == given \in [content : Seq(Bytes), options : Seq(Named)]

LEMMA GivenHolds == GivenSpec => []GivenInvariant
<1>1. GivenInit => GivenInvariant
  BY DEF GivenInit, GivenInvariant
<1>2. GivenInvariant /\ [Write \/ Add]_given => GivenInvariant'
  <2> SUFFICES ASSUME GivenInvariant, [Write \/ Add]_given PROVE GivenInvariant'
    OBVIOUS
  <2>1. CASE Write
    <3>1. PICK b \in Written : given' = [given EXCEPT !.content = Append(@, b)]
      BY <2>1 DEF Write
    <3>2. b \in Bytes
      BY SentAssumption
    <3>3. Append(given.content, b) \in Seq(Bytes)
      BY <3>2, AppendProperties DEF GivenInvariant
    <3> QED BY <3>1, <3>3 DEF GivenInvariant
  <2>2. CASE Add
    <3>1. PICK o \in Options : given' = [given EXCEPT !.options = Append(@, o)]
      BY <2>2 DEF Add
    <3>2. o \in Named
      BY SentAssumption
    <3>3. Append(given.options, o) \in Seq(Named)
      BY <3>2, AppendProperties DEF GivenInvariant
    <3> QED BY <3>1, <3>3 DEF GivenInvariant
  <2>3. CASE UNCHANGED given
    BY <2>3 DEF GivenInvariant
  <2> QED BY <2>1, <2>2, <2>3
<1> QED BY <1>1, <1>2, PTL DEF GivenSpec

LEMMA LinesEnd == <<>> \in Seq(White) /\ <<" ", "nl">> \in Seq(White)
<1>0. <<>> \in Seq(White)
  OBVIOUS
<1>1. " " \in White /\ "nl" \in White
  BY DEF White
<1> QED BY <1>0, <1>1, TwoIn

LEMMA BodyIsExact == GivenInvariant => PlainBodyIsExact
<1> SUFFICES ASSUME GivenInvariant, NEW named \in BOOLEAN, NEW end \in {<<>>, <<" ", "nl">>},
                    Clear(given.content, named)
             PROVE  parse_plain_body(Sent(given, named, end)) = Meant(given)
  BY DEF PlainBodyIsExact
<1>1. end \in Seq(White)
  BY LinesEnd
<1>2. given \in [content : Seq(Bytes), options : Seq(Named)]
  BY DEF GivenInvariant
<1> QED BY <1>1, <1>2, BodyReads

LEMMA CurlKeeps ==
  ASSUME CreateInvariant, NEW b \in Bodies, Curl(b)
  PROVE  CreateInvariant'
<1> DEFINE p == parse_plain_body(b.text)
           ttl == PlainTtl(p.ttl)
           uses == PlainUses(p.uses)
           c == check_link("auto", p.content, ttl, uses)
           w == b.wish
<1>1. /\ w \in Wish
      /\ w = [content |-> p.content, kind |-> "auto", ttl |-> w.ttl, once |-> uses = "1",
              secret |-> FALSE, answer |-> "keep", via |-> "curl"]
      /\ ttl.ok => ttl.n = w.ttl
  <2>1. /\ b.given \in [content : Seq(Bytes), options : Seq(Named)] /\ b.named \in BOOLEAN /\ b.end \in Seq(White)
        /\ Clear(b.given.content, b.named) /\ b.text = Sent(b.given, b.named, b.end)
        /\ LET said == PlainTtl(Meant(b.given).ttl) IN said.ok => said.n = w.ttl
        /\ w \in Wish
        /\ w = [content |-> b.given.content, kind |-> "auto", ttl |-> w.ttl,
                once |-> PlainUses(Meant(b.given).uses) = "1", secret |-> FALSE, answer |-> "keep", via |-> "curl"]
    BY BodyAssumption, Zenon
  <2>2. p = Meant(b.given)
    BY <2>1, BodyReads
  <2>3. p.content = b.given.content /\ Meant(b.given).ttl = p.ttl /\ Meant(b.given).uses = p.uses
    BY <2>2 DEF Meant
  <2> HIDE DEF p
  <2> QED BY <2>1, <2>3
<1>2. PlainAnswer(c, w)
  BY DEF Curl, create_plain
<1> DEFINE content == p.content
<1> HIDE DEF p, ttl, uses, c, w
<1>3. /\ w.content = content /\ w.kind = "auto" /\ w.secret = FALSE
      /\ w.answer = "keep" /\ w.via = "curl"
  BY <1>1 DEF content
<1>4. w.once = (uses = "1")
  BY <1>1
<1>5. content \in Text_
  BY <1>1, <1>3 DEF Wish, Text_
<1>6. /\ asked' = w
      /\ \/ page' \in {"limited", "error", "broken"} /\ UNCHANGED <<links, wishes>>
         \/ c.errors = {} /\ store_link(c, FALSE, FALSE, w)
  BY <1>2 DEF PlainAnswer, Limited, Answer, PaidStore
<1>7. c = check_link("auto", content, ttl, uses)
  BY DEF c, content
<1>8. \/ page' \in {"limited", "error", "broken"} /\ UNCHANGED <<links, wishes>>
      \/ c.errors = {} /\ \E token \in BOOLEAN : store_link(c, FALSE, token, w)
  BY <1>6
<1>9. w.via \in {"api", "curl"} /\ FALSE \in BOOLEAN
  BY <1>3
<1>10. asked' = w /\ w \in Wish /\ (ttl.ok => ttl.n = w.ttl)
  BY <1>1, <1>6
<1> HIDE DEF content
<1>11. Answered(content, ttl, uses, FALSE, "auto", w, c)
  BY <1>3, <1>4, <1>5, <1>7, <1>8, <1>9, <1>10 DEF Answered
<1> QED BY <1>11, ClientKeeps

LEMMA CreateStarts == CreateInit => CreateInvariant
<1> SUFFICES ASSUME CreateInit PROVE CreateInvariant
  OBVIOUS
<1>1. EachMeets
  <2>1. links = <<>> /\ wishes = <<>>
    BY DEF CreateInit
  <2> QED BY <2>1 DEF EachMeets
<1>2. page \in {"form", "shell"}
  BY DEF CreateInit
<1>3. RefusedForCause
  BY <1>2 DEF RefusedForCause
<1>4. ASSUME page = "form" PROVE Matches(fields, asked)
  <2>1. PICK f \in Forms : fields = f.fields /\ asked = f.wish
    BY <1>4 DEF CreateInit
  <2> DEFINE g == f.fields
             w == f.wish
  <2>2. /\ g \in Fields /\ w \in Wish /\ g.hidden_chars = "none"
        /\ {g.ttl_stop.n, g.ttl_seconds.n} \subseteq 0 - MaxInt - 1..MaxInt
        /\ AsksFor(g, w.ttl)
        /\ w = [content |-> g.content, kind |-> g.kind, ttl |-> w.ttl, once |-> g.link_type = "once",
                secret |-> g.link_type = "secret", answer |-> "none", via |-> "form"]
    BY FormAssumption, Zenon
  <2> HIDE DEF g, w
  <2>3. /\ w.content = g.content /\ w.kind = g.kind /\ w.once = (g.link_type = "once")
        /\ w.secret = (g.link_type = "secret") /\ w.answer = "none" /\ w.via = "form"
    BY <2>2
  <2>4. g.ttl_stop.n \in 0 - MaxInt - 1..MaxInt /\ g.ttl_seconds.n \in 0 - MaxInt - 1..MaxInt /\ w.ttl \in Int
    BY <2>2 DEF Wish
  <2>5. Fits(form_ttl(g), w.ttl)
    BY <2>2, <2>4, FormFits
  <2> QED BY <2>1, <2>2, <2>3, <2>5 DEF Matches, g, w
<1>5. PostsWhatIsAsked
  BY <1>2, <1>4 DEF PostsWhatIsAsked
<1> QED BY <1>1, <1>3, <1>5 DEF CreateInvariant

\* What the fields of a page become when one answer or the text in them changes.
LEMMA MatchesEdited ==
  ASSUME NEW f, NEW w, Matches(f, w), NEW text \in Text_
  PROVE  Matches([f EXCEPT !.content = text], [w EXCEPT !.content = text])
<1> DEFINE g == [f EXCEPT !.content = text]
           v == [w EXCEPT !.content = text]
<1>1. f \in Fields /\ w \in Wish
  BY DEF Matches
<1>2. g \in Fields /\ v \in Wish
  BY <1>1 DEF Fields, Wish, Text_
<1>3. /\ g.content = text /\ g.kind = f.kind /\ g.link_type = f.link_type /\ g.hidden_chars = f.hidden_chars
      /\ g.ttl_seconds = f.ttl_seconds /\ g.ttl_custom = f.ttl_custom
      /\ g.ttl_unit = f.ttl_unit /\ g.ttl_stop = f.ttl_stop
  BY <1>1 DEF Fields
<1>4. /\ v.content = text /\ v.kind = w.kind /\ v.ttl = w.ttl /\ v.once = w.once /\ v.secret = w.secret
      /\ v.answer = w.answer /\ v.via = w.via
  BY <1>1 DEF Wish
<1> HIDE DEF g, v
<1>5. form_ttl(g) = form_ttl(f)
  BY <1>3, TtlElsewhere
<1>6. Matches(g, v)
  BY <1>2, <1>3, <1>4, <1>5 DEF Matches
<1> QED BY <1>6 DEF g, v

LEMMA MatchesAnswered ==
  ASSUME NEW f, NEW w, Matches(f, w), NEW choice \in {"keep", "remove"}
  PROVE  Matches([f EXCEPT !.hidden_chars = choice], [w EXCEPT !.answer = choice])
<1> DEFINE g == [f EXCEPT !.hidden_chars = choice]
           v == [w EXCEPT !.answer = choice]
<1>1. f \in Fields /\ w \in Wish
  BY DEF Matches
<1>2. g \in Fields /\ v \in Wish
  BY <1>1 DEF Fields, Wish
<1>3. /\ g.content = f.content /\ g.kind = f.kind /\ g.link_type = f.link_type /\ g.hidden_chars = choice
      /\ g.ttl_seconds = f.ttl_seconds /\ g.ttl_custom = f.ttl_custom
      /\ g.ttl_unit = f.ttl_unit /\ g.ttl_stop = f.ttl_stop
  BY <1>1 DEF Fields
<1>4. /\ v.content = w.content /\ v.kind = w.kind /\ v.ttl = w.ttl /\ v.once = w.once /\ v.secret = w.secret
      /\ v.answer = choice /\ v.via = w.via
  BY <1>1 DEF Wish
<1> HIDE DEF g, v
<1>5. form_ttl(g) = form_ttl(f)
  BY <1>3, TtlElsewhere
<1>6. Matches(g, v)
  BY <1>2, <1>3, <1>4, <1>5 DEF Matches
<1> QED BY <1>6 DEF g, v

LEMMA CreateStepKeeps ==
  ASSUME CreateInvariant, [CreateNext]_create_vars
  PROVE  CreateInvariant'
<1>1. CASE UNCHANGED create_vars
  BY <1>1 DEF create_vars, CreateInvariant, PostsWhatIsAsked, EachMeets, RefusedForCause
<1>2. CASE Submit
  <2>1. Matches(fields, asked) /\ Post(fields, asked)
    BY <1>2 DEF Submit, CreateInvariant, PostsWhatIsAsked
  <2> QED BY <2>1, PostKeeps
<1>3. ASSUME NEW text \in Edits, Edit(text) PROVE CreateInvariant'
  <2>1. /\ page = "step" /\ page' = "step" /\ links' = links /\ wishes' = wishes
        /\ fields' = [fields EXCEPT !.content = text] /\ asked' = [asked EXCEPT !.content = text]
    BY <1>3 DEF Edit
  <2>2. Matches(fields, asked)
    BY <2>1 DEF CreateInvariant, PostsWhatIsAsked
  <2>3. text \in Text_
    BY EditAssumption DEF Text_
  <2>4. Matches([fields EXCEPT !.content = text], [asked EXCEPT !.content = text])
    BY <2>2, <2>3, MatchesEdited
  <2>5. PostsWhatIsAsked'
    BY <2>1, <2>4 DEF PostsWhatIsAsked
  <2>6. EachMeets' /\ RefusedForCause'
    BY <2>1 DEF CreateInvariant, EachMeets, RefusedForCause
  <2> QED BY <2>5, <2>6 DEF CreateInvariant
<1>4. ASSUME NEW choice \in {"keep", "remove"}, Reply(choice) PROVE CreateInvariant'
  <2>1. page = "step" /\ Post([fields EXCEPT !.hidden_chars = choice], [asked EXCEPT !.answer = choice])
    BY <1>4 DEF Reply
  <2>2. Matches([fields EXCEPT !.hidden_chars = choice], [asked EXCEPT !.answer = choice])
    BY <2>1, MatchesAnswered DEF CreateInvariant, PostsWhatIsAsked
  <2> QED BY <2>1, <2>2, PostKeeps
<1>5. CASE Redo
  <2>1. page = "result" /\ asked.via = "form" /\ Post(fields, Offered(asked, fields))
    BY <1>5 DEF Redo, Offered
  <2>2. Matches(fields, Offered(asked, fields))
    BY <2>1 DEF CreateInvariant, PostsWhatIsAsked
  <2> QED BY <2>1, <2>2, PostKeeps
<1>6. CASE Reload
  <2>1. Matches(sent, asked) /\ Post(sent, asked)
    BY <1>6 DEF Reload, CreateInvariant, PostsWhatIsAsked
  <2> QED BY <2>1, PostKeeps
<1>7. CASE Refill
  BY <1>7 DEF Refill, CreateInvariant, PostsWhatIsAsked, EachMeets, RefusedForCause
<1> QED BY <1>1, <1>2, <1>3, <1>4, <1>5, <1>6, <1>7, AskKeeps, CurlKeeps DEF CreateNext

THEOREM CreateInvariantHolds == CreateSpec => []CreateInvariant
<1>1. CreateInvariant /\ [CreateNext]_create_vars => CreateInvariant'
  BY CreateStepKeeps
<1> QED BY <1>1, CreateStarts, PTL DEF CreateSpec

(***************************************************************************)
(* Whatever pages lie between, and for texts of any length: a link has the *)
(* content, kind, lifetime, uses and secrecy asked for (Create's           *)
(* store_link against the person's `asked`), with what it keeps of an      *)
(* address valid and settled.                                              *)
(***************************************************************************)
THEOREM LinksAreAsAsked == CreateSpec => []LinkIsAsAsked
<1>1. CreateInvariant => LinkIsAsAsked
  <2> SUFFICES ASSUME CreateInvariant PROVE LinkIsAsAsked
    OBVIOUS
  <2>1. links \in Seq(Links_) /\ \A i \in 1..Len(links) : Meets(links[i], wishes[i])
    BY DEF CreateInvariant, EachMeets
  <2>2. DOMAIN links = 1..Len(links)
    BY <2>1, LenProperties
  <2> QED BY <2>1, <2>2 DEF LinkIsAsAsked
<1> QED BY <1>1, CreateInvariantHolds, PTL

(***************************************************************************)
(* The error page answers a form only for what check_link may hold against *)
(* it: detection by itself leads into no refusal but that of a bare host   *)
(* with a colon after it, and no lifetime within the bounds is refused,    *)
(* however it was typed and whatever its product with the unit saturates   *)
(* to.                                                                     *)
(***************************************************************************)
THEOREM FormsAreRefusedForCause == CreateSpec => []RefusedForCause
<1>1. CreateInvariant => RefusedForCause
  BY DEF CreateInvariant
<1> QED BY <1>1, CreateInvariantHolds, PTL

(***************************************************************************)
(* However long a content is, whatever bytes it has and however many       *)
(* options follow it, the body gives back both (PlainBody).                *)
(***************************************************************************)
THEOREM BodiesAreExact == GivenSpec => []PlainBodyIsExact
<1>1. []GivenInvariant => []PlainBodyIsExact
  BY BodyIsExact, PTL
<1> QED BY <1>1, GivenHolds, PTL
=============================================================================
