----------------------------- MODULE PageProofs -----------------------------
(***************************************************************************)
(* What the public pages may say: the statistics add up for any number of  *)
(* handlers and days (Statistics), no page of a one-time link tells what   *)
(* it holds (LinkPage), what is said of a link's end is so (Expiry), a     *)
(* copy of a marked page is the text that is stored (HiddenText), and a    *)
(* share card draws its domain legibly (ShareCard).                        *)
(***************************************************************************)
EXTENDS Statistics, LinkPage, Expiry, TextRequirements, ShareCard, DataLemmas

-----------------------------------------------------------------------------
(* The statistics.                                                         *)

Sized == IsFiniteSet(Handlers) /\ RECENT_DAYS \in Nat /\ MaxDay \in Nat \ {0}

Row   == [Metrics -> Nat]
Count == [metric : Metrics, n : Nat]

\* What a handler may still have to count: a link's type only before its kind.
Queue ==
  {<<>>} \cup {<<c>> : c \in {d \in Count : d.metric \notin Types}}
  \cup {q \in {<<c, d>> : c \in Count, d \in Count} :
          /\ q[2].metric \notin Types
          /\ q[1].metric \in Types => q[2].metric \in Kinds /\ q[1].n = q[2].n}

Share(c, m) == IF c.metric = m THEN c.n ELSE 0

\* What a queue of up to two counts owes of each metric.
LEMMA OwedIs ==
  ASSUME NEW m
  PROVE  /\ Owed(<<>>, m) = 0
         /\ \A c \in Count : Owed(<<c>>, m) = Share(c, m)
         /\ \A c, d \in Count : Owed(<<c, d>>, m) = Share(c, m) + Share(d, m)
<1>1. Owed(<<>>, m) = 0
  BY SumNone DEF Owed, SumFunction
<1>2. \A c \in Count : Share(c, m) \in Nat
  BY DEF Count, Share
<1>3. ASSUME NEW c \in Count PROVE Owed(<<c>>, m) = Share(c, m)
  <2> DEFINE f == [i \in {1} |-> Share(c, m)]
  <2>1. Owed(<<c>>, m) = SumFunctionOnSet(f, {1})
    <3>1. f = [i \in DOMAIN <<c>> |-> IF <<c>>[i].metric = m THEN <<c>>[i].n ELSE 0]
      BY DEF Share
    <3>2. DOMAIN f = {1}
      OBVIOUS
    <3> QED BY <3>1, <3>2 DEF Owed, SumFunction
  <2>2. IsFiniteSet({1}) /\ {1} \ {1} = {}
    BY FS_Singleton
  <2>3. f[1] = Share(c, m) /\ \A i \in {1} : f[i] \in Nat
    BY <1>2
  <2> HIDE DEF f
  <2>4. SumFunctionOnSet(f, {1}) = f[1] + SumFunctionOnSet(f, {})
    BY <2>2, <2>3, SumTakes
  <2> QED BY <1>2, <2>1, <2>3, <2>4, SumNone
<1>4. ASSUME NEW c \in Count, NEW d \in Count PROVE Owed(<<c, d>>, m) = Share(c, m) + Share(d, m)
  <2> DEFINE f == [i \in {1, 2} |-> IF i = 1 THEN Share(c, m) ELSE Share(d, m)]
  <2>1. Owed(<<c, d>>, m) = SumFunctionOnSet(f, {1, 2})
    <3>1. f = [i \in DOMAIN <<c, d>> |-> IF <<c, d>>[i].metric = m THEN <<c, d>>[i].n ELSE 0]
      BY DEF Share
    <3>2. DOMAIN f = {1, 2}
      OBVIOUS
    <3> QED BY <3>1, <3>2 DEF Owed, SumFunction
  <2>2. /\ IsFiniteSet({1}) /\ {1} \ {1} = {}
        /\ IsFiniteSet({1, 2}) /\ {1, 2} \ {2} = {1}
    <3>1. {1, 2} = {1} \cup {2}
      OBVIOUS
    <3>2. {1} \ {1} = {} /\ {1, 2} \ {2} = {1}
      OBVIOUS
    <3>3. IsFiniteSet({1})
      BY FS_Singleton
    <3>4. IsFiniteSet({1} \cup {2})
      BY <3>3, FS_AddElement
    <3> QED BY <3>1, <3>2, <3>3, <3>4
  <2>3. f[1] = Share(c, m) /\ f[2] = Share(d, m) /\ \A i \in {1, 2} : f[i] \in Nat
    BY <1>2
  <2> HIDE DEF f
  <2>4. SumFunctionOnSet(f, {1, 2}) = f[2] + SumFunctionOnSet(f, {1})
    BY <2>2, <2>3, SumTakes
  <2>5. SumFunctionOnSet(f, {1}) = f[1] + SumFunctionOnSet(f, {})
    BY <2>2, <2>3, SumTakes
  <2> QED BY <1>2, <2>1, <2>3, <2>4, <2>5, SumNone
<1> QED BY <1>1, <1>3, <1>4

\* Links by type, and by kind.
ByType(row) == row["created_public"] + row["created_secret"] + row["created_once"]
ByKind(row) == row["created_redirect"] + row["created_text"]

\* The two sums over a row that the page and the checks take.
LEMMA SumsOfLinks ==
  ASSUME NEW row \in Row
  PROVE  CreatedOf(row) = ByType(row) /\ SumFunctionOnSet(row, Kinds) = ByKind(row)
<1> DEFINE a == "created_public"
           b == "created_secret"
           c == "created_once"
           d == "created_redirect"
           e == "created_text"
<1>1. \A m \in Types \cup Kinds : row[m] \in Nat
  BY DEF Row, Metrics
<1>2. /\ IsFiniteSet({c}) /\ {c} \ {c} = {} /\ IsFiniteSet({e}) /\ {e} \ {e} = {}
      /\ IsFiniteSet({b, c}) /\ {b, c} \ {b} = {c}
      /\ IsFiniteSet({d, e}) /\ {d, e} \ {d} = {e}
      /\ IsFiniteSet({a, b, c}) /\ {a, b, c} \ {a} = {b, c}
  <2>1. IsFiniteSet({c}) /\ IsFiniteSet({e})
    BY FS_Singleton
  <2>2. {b, c} = {c} \cup {b} /\ {d, e} = {e} \cup {d} /\ {a, b, c} = {b, c} \cup {a}
    OBVIOUS
  <2>3. IsFiniteSet({b, c}) /\ IsFiniteSet({d, e})
    BY <2>1, <2>2, FS_AddElement
  <2>4. IsFiniteSet({a, b, c})
    BY <2>2, <2>3, FS_AddElement
  <2> QED BY <2>1, <2>3, <2>4
<1>3. /\ SumFunctionOnSet(row, {c}) = row[c] + SumFunctionOnSet(row, {})
      /\ SumFunctionOnSet(row, {b, c}) = row[b] + SumFunctionOnSet(row, {c})
      /\ SumFunctionOnSet(row, {a, b, c}) = row[a] + SumFunctionOnSet(row, {b, c})
  BY <1>1, <1>2, SumTakes DEF Types
<1>4. /\ SumFunctionOnSet(row, {e}) = row[e] + SumFunctionOnSet(row, {})
      /\ SumFunctionOnSet(row, {d, e}) = row[d] + SumFunctionOnSet(row, {e})
  BY <1>1, <1>2, SumTakes DEF Kinds
<1> QED BY <1>1, <1>3, <1>4, SumNone DEF CreatedOf, ByType, ByKind, Types, Kinds

OwedBy(q) == [m \in Metrics |-> Owed(q, m)]

LEMMA ShareIs ==
  ASSUME NEW c \in Count, NEW m
  PROVE  Share(c, m) \in Nat
BY DEF Share, Count

\* A queue's first count, and the queue it leaves.
Begins(q) == \E c \in Count, r \in Queue :
               /\ Head(q) = c /\ Tail(q) = r
               /\ \A m : Owed(q, m) = Share(c, m) + Owed(r, m)

(***************************************************************************)
(* A queue is its first count and the rest, and owes no type beyond the    *)
(* kinds it owes.                                                          *)
(***************************************************************************)
LEMMA QueueIs ==
  ASSUME NEW q \in Queue
  PROVE  /\ \A m : Owed(q, m) \in Nat
         /\ q # <<>> => Begins(q)
         /\ ByType(OwedBy(q)) <= ByKind(OwedBy(q))
<1>1. CASE q = <<>>
  <2>1. \A m : Owed(q, m) = 0
    BY <1>1, OwedIs
  <2> QED BY <1>1, <2>1 DEF OwedBy, ByType, ByKind, Metrics, Types, Kinds
<1>2. ASSUME NEW c \in Count, c.metric \notin Types, q = <<c>>
      PROVE  /\ \A m : Owed(q, m) \in Nat
             /\ Begins(q)
             /\ ByType(OwedBy(q)) <= ByKind(OwedBy(q))
  <2>1. Head(q) = c /\ Tail(q) = <<>> /\ q # <<>>
    BY <1>2
  <2>2. \A m : Owed(q, m) = Share(c, m) /\ Share(c, m) \in Nat
    BY <1>2, OwedIs, ShareIs
  <2>3. \A m : Owed(<<>>, m) = 0
    BY OwedIs
  <2>4. <<>> \in Queue
    BY DEF Queue
  <2>5. ByType(OwedBy(q)) = 0
    <3>1. \A m \in Types : Share(c, m) = 0
      BY <1>2 DEF Share
    <3> QED BY <2>2, <3>1 DEF OwedBy, ByType, Metrics, Types
  <2>6. ByKind(OwedBy(q)) \in Nat
    BY <2>2 DEF OwedBy, ByKind, Metrics, Kinds
  <2>7. \A m : Owed(q, m) = Share(c, m) + Owed(<<>>, m)
    BY <2>2, <2>3
  <2>8. Begins(q)
    BY <2>1, <2>4, <2>7, Zenon DEF Begins
  <2>9. \A m : Owed(q, m) \in Nat
    BY <2>2
  <2> QED BY <2>5, <2>6, <2>8, <2>9
<1>3. ASSUME NEW c \in Count, NEW d \in Count, q = <<c, d>>, d.metric \notin Types,
             c.metric \in Types => d.metric \in Kinds /\ c.n = d.n
      PROVE  /\ \A m : Owed(q, m) \in Nat
             /\ Begins(q)
             /\ ByType(OwedBy(q)) <= ByKind(OwedBy(q))
  <2>1. Head(q) = c /\ Tail(q) = <<d>> /\ q # <<>>
    BY <1>3
  <2>2. \A m : /\ Owed(q, m) = Share(c, m) + Share(d, m) /\ Share(c, m) \in Nat /\ Share(d, m) \in Nat
               /\ Owed(<<d>>, m) = Share(d, m)
    BY <1>3, OwedIs, ShareIs
  <2>3. <<d>> \in Queue
    BY <1>3 DEF Queue
  <2>4. c.n \in Nat /\ d.n \in Nat
    BY DEF Count
  <2>5. ByType(OwedBy(q)) = IF c.metric \in Types THEN c.n ELSE 0
    BY <1>3, <2>2, <2>4 DEF OwedBy, ByType, Metrics, Types, Share
  <2>6. ByKind(OwedBy(q)) >= IF c.metric \in Types THEN c.n ELSE 0
    BY <1>3, <2>2, <2>4 DEF OwedBy, ByKind, Metrics, Types, Kinds, Share
  <2>7. ByKind(OwedBy(q)) \in Nat
    BY <2>2 DEF OwedBy, ByKind, Metrics, Kinds
  <2>8. \A m : Owed(q, m) = Share(c, m) + Owed(<<d>>, m)
    BY <2>2
  <2>9. Begins(q)
    BY <2>1, <2>3, <2>8, Zenon DEF Begins
  <2>10. \A m : Owed(q, m) \in Nat
    BY <2>2
  <2>11. ByType(OwedBy(q)) <= ByKind(OwedBy(q))
    BY <2>4, <2>5, <2>6, <2>7
  <2> QED BY <2>9, <2>10, <2>11
<1>4. \/ q = <<>>
      \/ \E c \in Count : c.metric \notin Types /\ q = <<c>>
      \/ \E c, d \in Count : /\ q = <<c, d>> /\ d.metric \notin Types
                             /\ c.metric \in Types => d.metric \in Kinds /\ c.n = d.n
  BY DEF Queue
<1> QED BY <1>1, <1>2, <1>3, <1>4

(***************************************************************************)
(* A fact owes as many links by type as by kind.                           *)
(***************************************************************************)
LEMMA FactIs ==
  ASSUME NEW fact \in Facts
  PROVE  fact \in Queue /\ ByType(OwedBy(fact)) = ByKind(OwedBy(fact))
<1>1. \A metric \in Metrics : /\ One(metric) \in Count /\ One(metric).metric = metric
                              /\ One(metric).n = 1
  BY DEF One, Count
<1>2. ASSUME NEW type \in Types, NEW form \in Kinds, fact = <<One(type), One(form)>>
      PROVE  fact \in Queue /\ ByType(OwedBy(fact)) = ByKind(OwedBy(fact))
  <2>1. One(type) \in Count /\ One(form) \in Count /\ form \notin Types
        /\ One(type).metric = type /\ One(form).metric = form /\ One(type).n = 1 /\ One(form).n = 1
    BY <1>1 DEF Metrics, Types, Kinds
  <2>2. fact \in Queue
    BY <1>2, <2>1 DEF Queue
  <2>3. \A m : Owed(fact, m) = Share(One(type), m) + Share(One(form), m)
    BY <1>2, <2>1, OwedIs
  <2>4. ByType(OwedBy(fact)) = 1 /\ ByKind(OwedBy(fact)) = 1
    BY <2>1, <2>3 DEF OwedBy, ByType, ByKind, Metrics, Types, Kinds, Share
  <2> QED BY <2>2, <2>4
<1>3. ASSUME NEW c \in Count, c.metric \notin Types \cup Kinds, fact = <<c>>
      PROVE  fact \in Queue /\ ByType(OwedBy(fact)) = ByKind(OwedBy(fact))
  <2>1. fact \in Queue
    BY <1>3 DEF Queue
  <2>2. \A m : Owed(fact, m) = Share(c, m)
    BY <1>3, OwedIs
  <2>3. ByType(OwedBy(fact)) = 0 /\ ByKind(OwedBy(fact)) = 0
    BY <1>3, <2>2 DEF OwedBy, ByType, ByKind, Metrics, Types, Kinds, Share
  <2> QED BY <2>1, <2>3
<1>4. ASSUME fact = <<One("opened"), One("revealed")>>
      PROVE  fact \in Queue /\ ByType(OwedBy(fact)) = ByKind(OwedBy(fact))
  <2>1. /\ One("opened") \in Count /\ One("revealed") \in Count
        /\ One("opened").metric = "opened" /\ One("revealed").metric = "revealed"
    BY <1>1 DEF Metrics
  <2>2. fact \in Queue
    BY <1>4, <2>1 DEF Queue, Types
  <2>3. \A m : Owed(fact, m) = Share(One("opened"), m) + Share(One("revealed"), m)
    BY <1>4, <2>1, OwedIs
  <2>4. ByType(OwedBy(fact)) = 0 /\ ByKind(OwedBy(fact)) = 0
    BY <2>1, <2>3 DEF OwedBy, ByType, ByKind, Metrics, Types, Kinds, Share
  <2> QED BY <2>2, <2>4
<1>5. \A n \in 1..2 : /\ [metric |-> "expired", n |-> n] \in Count
                      /\ [metric |-> "expired", n |-> n].metric \notin Types \cup Kinds
  BY DEF Count, Metrics, Types, Kinds
<1>6. \A m \in {"opened", "previewed"} : One(m) \in Count /\ One(m).metric \notin Types \cup Kinds
  BY <1>1 DEF Metrics, Types, Kinds
<1>7. \/ \E type \in Types, form \in Kinds : fact = <<One(type), One(form)>>
      \/ \E m \in {"opened", "previewed"} : fact = <<One(m)>>
      \/ fact = <<One("opened"), One("revealed")>>
      \/ \E n \in 1..2 : fact = <<[metric |-> "expired", n |-> n]>>
  BY DEF Facts
<1> QED BY <1>2, <1>3, <1>4, <1>5, <1>6, <1>7

-----------------------------------------------------------------------------
(* The table, by day.                                                      *)

Table == [Days -> Row]
Column(table, m) == [d \in Days |-> table[d][m]]

\* The sums over a table are sums over a column of naturals, and grow with the days taken.
LEMMA ColumnIs ==
  ASSUME Sized, NEW table \in Table, NEW m \in Metrics
  PROVE  /\ Total(table, m) = SumFunctionOnSet(Column(table, m), Days)
         /\ IsFiniteSet(Days) /\ \A d \in Days : Column(table, m)[d] \in Nat
         /\ Total(table, m) \in Nat
         /\ \A d \in Days : /\ UpTo(table, d, m) = SumFunctionOnSet(Column(table, m), 1..d)
                            /\ 1..d \subseteq Days /\ IsFiniteSet(1..d)
                            /\ UpTo(table, d, m) \in Nat /\ UpTo(table, d, m) <= Total(table, m)
                            /\ table[d][m] <= UpTo(table, d, m)
<1>1. IsFiniteSet(Days) /\ \A d \in Days : 1..d \subseteq Days /\ IsFiniteSet(1..d)
  BY FS_Interval DEF Days, Sized
<1>2. \A d \in Days : Column(table, m)[d] \in Nat /\ Column(table, m)[d] = table[d][m]
  BY DEF Table, Row, Column
<1>3. Total(table, m) = SumFunctionOnSet(Column(table, m), Days)
  BY DEF Total, SumFunction, Column, Table
<1>4. Total(table, m) \in Nat
  BY <1>1, <1>2, <1>3, SumTakes
<1>5. ASSUME NEW d \in Days
      PROVE  /\ UpTo(table, d, m) = SumFunctionOnSet(Column(table, m), 1..d)
             /\ UpTo(table, d, m) \in Nat /\ UpTo(table, d, m) <= Total(table, m)
             /\ table[d][m] <= UpTo(table, d, m)
  <2>1. UpTo(table, d, m) = SumFunctionOnSet(Column(table, m), 1..d)
    BY DEF UpTo, Column
  <2>2. \A e \in 1..d : Column(table, m)[e] \in Nat
    BY <1>1, <1>2
  <2>3. UpTo(table, d, m) \in Nat
    BY <1>1, <2>1, <2>2, SumTakes
  <2>4. UpTo(table, d, m) <= Total(table, m)
    BY <1>1, <1>2, <1>3, <2>1, SumWithin
  <2>5. d \in 1..d
    BY DEF Days
  <2>6. PICK rest \in Nat : rest = SumFunctionOnSet(Column(table, m), 1..d \ {d})
    <3>1. PICK s : s = 1..d \ {d}
      OBVIOUS
    <3>2. IsFiniteSet(s) /\ \A e \in s : Column(table, m)[e] \in Nat
      BY <1>1, <2>2, <3>1, FS_RemoveElement
    <3> QED BY <3>1, <3>2, SumTakes
  <2>7. UpTo(table, d, m) = Column(table, m)[d] + rest
    BY <1>1, <2>1, <2>2, <2>5, <2>6, SumTakes
  <2> QED BY <1>2, <2>1, <2>3, <2>4, <2>6, <2>7
<1> QED BY <1>1, <1>2, <1>3, <1>4, <1>5

(***************************************************************************)
(* A day without a row, or after the last, adds nothing.                   *)
(***************************************************************************)
LEMMA UpToIsAll ==
  ASSUME Sized, NEW table \in Table, NEW m \in Metrics, NEW d \in Days,
         \A e \in Days : e > d => table[e] = None
  PROVE  UpTo(table, d, m) = Total(table, m)
<1>1. \A e \in Days \ (1..d) : Column(table, m)[e] = 0
  BY DEF Days, Column, None
<1>2. PICK f : f = Column(table, m)
  OBVIOUS
<1>3. /\ IsFiniteSet(Days) /\ Total(table, m) = SumFunctionOnSet(f, Days)
      /\ UpTo(table, d, m) = SumFunctionOnSet(f, 1..d) /\ 1..d \subseteq Days
      /\ (\A e \in Days : f[e] \in Nat) /\ \A e \in Days \ (1..d) : f[e] = 0
  BY <1>1, <1>2, ColumnIs
<1>4. SumFunctionOnSet(f, 1..d) = SumFunctionOnSet(f, Days)
  BY <1>3, SumWithin
<1> QED BY <1>3, <1>4

\* One tally raised by k raises the sums that reach its day by k, and no other.
LEMMA TableGrows ==
  ASSUME Sized, NEW table \in Table, NEW more \in Table, NEW m \in Metrics, NEW t \in Days, NEW k \in Nat,
         \A d \in Days : d # t => more[d][m] = table[d][m], more[t][m] = table[t][m] + k
  PROVE  /\ Total(more, m) = Total(table, m) + k
         /\ \A d \in Days : /\ UpTo(table, d, m) <= UpTo(more, d, m)
                            /\ d < t => UpTo(more, d, m) = UpTo(table, d, m)
<1>1. PICK f : f = Column(table, m)
  OBVIOUS
<1>2. PICK g : g = Column(more, m)
  OBVIOUS
<1>3. /\ \A d \in Days : f[d] \in Nat /\ g[d] \in Nat /\ f[d] <= g[d] /\ (d # t => f[d] = g[d])
      /\ g[t] = f[t] + k
  BY <1>1, <1>2 DEF Table, Row, Column
<1>4. /\ IsFiniteSet(Days) /\ Total(table, m) = SumFunctionOnSet(f, Days)
      /\ Total(more, m) = SumFunctionOnSet(g, Days)
      /\ Total(table, m) \in Nat /\ Total(more, m) \in Nat
      /\ \A d \in Days : /\ UpTo(table, d, m) = SumFunctionOnSet(f, 1..d)
                         /\ UpTo(more, d, m) = SumFunctionOnSet(g, 1..d)
                         /\ 1..d \subseteq Days /\ IsFiniteSet(1..d)
  BY <1>1, <1>2, ColumnIs
<1>5. SumFunctionOnSet(g, Days) + f[t] = SumFunctionOnSet(f, Days) + g[t]
  BY <1>3, <1>4, SumChanges
<1>6. Total(more, m) = Total(table, m) + k
  <2>1. PICK x \in Nat, y \in Nat : x = f[t] /\ y = g[t] /\ y = x + k
    BY <1>3
  <2>2. PICK a \in Nat, b \in Nat : a = Total(table, m) /\ b = Total(more, m)
    BY <1>4
  <2>3. b + x = a + y
    BY <1>4, <1>5, <2>1, <2>2
  <2>4. b = a + k
    BY <2>1, <2>3
  <2> QED BY <2>2, <2>4
<1>7. ASSUME NEW d \in Days PROVE UpTo(table, d, m) <= UpTo(more, d, m)
  <2>1. IsFiniteSet(1..d) /\ \A e \in 1..d : f[e] \in Nat /\ g[e] \in Nat /\ f[e] <= g[e]
    BY <1>3, <1>4
  <2>2. SumFunctionOnSet(f, 1..d) <= SumFunctionOnSet(g, 1..d)
    BY <2>1, SumMost
  <2> QED BY <1>4, <2>2
<1>8. ASSUME NEW d \in Days, d < t PROVE UpTo(more, d, m) = UpTo(table, d, m)
  <2>1. \A e \in 1..d : f[e] \in Nat /\ f[e] = g[e]
    BY <1>3, <1>4, <1>8 DEF Days
  <2> QED BY <1>4, <2>1, SumSame
<1> QED BY <1>6, <1>7, <1>8

-----------------------------------------------------------------------------
(* What is still to be counted.                                            *)

Queues == [Handlers -> Queue]
OwedIn(p, m) == SumFunctionOnSet([h \in Handlers |-> Owed(p[h], m)], Handlers)

\* The model's sum over the handlers is the one the lemmas speak of,
LEMMA PendingIs ==
  ASSUME NEW p \in Queues, NEW m
  PROVE  SumFunction([h \in Handlers |-> Owed(p[h], m)]) = OwedIn(p, m)
BY DEF SumFunction, OwedIn

\* a natural,
LEMMA OwedInNat ==
  ASSUME Sized, NEW p \in Queues, NEW m
  PROVE  OwedIn(p, m) \in Nat /\ \A h \in Handlers : [x \in Handlers |-> Owed(p[x], m)][h] \in Nat
<1> DEFINE f == [h \in Handlers |-> Owed(p[h], m)]
<1>1. \A h \in Handlers : f[h] \in Nat
  BY QueueIs DEF Queues
<1> HIDE DEF f
<1>2. SumFunctionOnSet(f, Handlers) \in Nat
  BY <1>1, SumTakes DEF Sized
<1> QED BY <1>1, <1>2 DEF OwedIn, f

\* and a handler's new queue changes it by what the two queues owe.
LEMMA OwedInChanges ==
  ASSUME Sized, NEW p \in Queues, NEW h \in Handlers, NEW q \in Queue, NEW m
  PROVE  /\ [p EXCEPT ![h] = q] \in Queues
         /\ OwedIn([p EXCEPT ![h] = q], m) + Owed(p[h], m) = OwedIn(p, m) + Owed(q, m)
<1>1. PICK r \in Queues : r = [p EXCEPT ![h] = q]
  BY DEF Queues
<1> DEFINE f == [x \in Handlers |-> Owed(p[x], m)]
           g == [x \in Handlers |-> Owed(r[x], m)]
<1>2. \A x \in Handlers : f[x] \in Nat /\ g[x] \in Nat
  BY OwedInNat
<1>3. /\ f[h] = Owed(p[h], m) /\ g[h] = Owed(q, m)
      /\ \A x \in Handlers : x # h => f[x] = g[x]
  BY <1>1 DEF Queues
<1> HIDE DEF f, g
<1>4. SumFunctionOnSet(g, Handlers) + f[h] = SumFunctionOnSet(f, Handlers) + g[h]
  BY <1>2, <1>3, SumChanges DEF Sized
<1> QED BY <1>1, <1>3, <1>4 DEF OwedIn, f, g

(***************************************************************************)
(* The queues together owe no type beyond the kinds they owe.              *)
(***************************************************************************)
LEMMA TypesFirst ==
  ASSUME Sized, NEW p \in Queues
  PROVE  ByType([m \in Metrics |-> OwedIn(p, m)]) <= ByKind([m \in Metrics |-> OwedIn(p, m)])
<1> DEFINE f(m) == [h \in Handlers |-> Owed(p[h], m)]
           a == f("created_public")
           b == f("created_secret")
           c == f("created_once")
           d == f("created_redirect")
           e == f("created_text")
           bc == [h \in Handlers |-> b[h] + c[h]]
           abc == [h \in Handlers |-> a[h] + bc[h]]
           de == [h \in Handlers |-> d[h] + e[h]]
<1>1. \A h \in Handlers : /\ a[h] \in Nat /\ b[h] \in Nat /\ c[h] \in Nat /\ d[h] \in Nat /\ e[h] \in Nat
                          /\ a[h] + b[h] + c[h] <= d[h] + e[h]
  <2> SUFFICES ASSUME NEW h \in Handlers
               PROVE  /\ \A m : Owed(p[h], m) \in Nat
                      /\ a[h] + b[h] + c[h] <= d[h] + e[h]
    OBVIOUS
  <2>1. p[h] \in Queue
    BY DEF Queues
  <2>2. (\A m : Owed(p[h], m) \in Nat) /\ ByType(OwedBy(p[h])) <= ByKind(OwedBy(p[h]))
    BY <2>1, QueueIs
  <2> QED BY <2>2 DEF ByType, ByKind, OwedBy, Metrics, Types, Kinds
<1>2. /\ OwedIn(p, "created_public") = SumFunctionOnSet(a, Handlers)
      /\ OwedIn(p, "created_secret") = SumFunctionOnSet(b, Handlers)
      /\ OwedIn(p, "created_once") = SumFunctionOnSet(c, Handlers)
      /\ OwedIn(p, "created_redirect") = SumFunctionOnSet(d, Handlers)
      /\ OwedIn(p, "created_text") = SumFunctionOnSet(e, Handlers)
  BY DEF OwedIn
<1> HIDE DEF a, b, c, d, e
<1>3. \A h \in Handlers : /\ bc[h] \in Nat /\ abc[h] \in Nat /\ de[h] \in Nat
                          /\ bc[h] = b[h] + c[h] /\ abc[h] = a[h] + bc[h] /\ de[h] = d[h] + e[h]
                          /\ abc[h] <= de[h]
  BY <1>1
<1> HIDE DEF bc, abc, de
<1>4. /\ SumFunctionOnSet(bc, Handlers) = SumFunctionOnSet(b, Handlers) + SumFunctionOnSet(c, Handlers)
      /\ SumFunctionOnSet(abc, Handlers) = SumFunctionOnSet(a, Handlers) + SumFunctionOnSet(bc, Handlers)
      /\ SumFunctionOnSet(de, Handlers) = SumFunctionOnSet(d, Handlers) + SumFunctionOnSet(e, Handlers)
  <2>1. IsFiniteSet(Handlers)
    BY DEF Sized
  <2>2. SumFunctionOnSet(bc, Handlers) = SumFunctionOnSet(b, Handlers) + SumFunctionOnSet(c, Handlers)
    BY <1>1, <1>3, <2>1, SumPlus
  <2>3. SumFunctionOnSet(abc, Handlers) = SumFunctionOnSet(a, Handlers) + SumFunctionOnSet(bc, Handlers)
    BY <1>1, <1>3, <2>1, SumPlus
  <2>4. SumFunctionOnSet(de, Handlers) = SumFunctionOnSet(d, Handlers) + SumFunctionOnSet(e, Handlers)
    BY <1>1, <1>3, <2>1, SumPlus
  <2> QED BY <2>2, <2>3, <2>4
<1>5. SumFunctionOnSet(abc, Handlers) <= SumFunctionOnSet(de, Handlers)
  BY <1>3, SumMost DEF Sized
<1>6. /\ SumFunctionOnSet(a, Handlers) \in Nat /\ SumFunctionOnSet(b, Handlers) \in Nat
      /\ SumFunctionOnSet(c, Handlers) \in Nat
  BY <1>1, SumTakes DEF Sized
<1> QED BY <1>2, <1>4, <1>5, <1>6 DEF ByType, ByKind, Metrics, Types, Kinds

-----------------------------------------------------------------------------
(* The invariant.                                                          *)

StatTypeOK ==
  /\ today \in Days /\ happened \in Table /\ stats \in Table
  /\ pend \in Queues /\ lost \in Row
  /\ reading \in [at : {"none", "totals"}, totals : Row \cup {<<>>}, sound : BOOLEAN]

\* Nothing is dated after today.
Unborn == \A d \in Days : d > today => happened[d] = None /\ stats[d] = None

\* What came about is in the table, on its way or lost.
Ledger == \A m \in Metrics : Total(stats, m) + OwedIn(pend, m) + lost[m] = Total(happened, m)

CameAbout == [m \in Metrics |-> Total(happened, m)]

\* Every link has a type and a kind.
Balanced == ByType(CameAbout) = ByKind(CameAbout)

Dated == \A m \in Metrics, d \in Days : UpTo(stats, d, m) <= UpTo(happened, d, m)

\* What a page has read was there, and is if no count came since.
HasRead ==
  reading.at = "totals" =>
    /\ reading.totals \in Row
    /\ \A m \in Metrics : reading.totals[m] <= Total(happened, m)
    /\ reading.sound => reading.totals = stat_totals

SInv == StatTypeOK /\ Unborn /\ Ledger /\ Balanced /\ Dated /\ HasRead

LEMMA NoneIsRow == None \in Row /\ \A m \in Metrics : None[m] = 0
BY DEF None, Row

\* A fact comes about: it is owed in full, by type as by kind.
LEMMA HappensKeeps ==
  ASSUME Sized, SInv, NEW h \in Handlers, NEW fact \in Facts, Happens(h, fact)
  PROVE  SInv'
<1>1. /\ fact \in Queue /\ ByType(OwedBy(fact)) = ByKind(OwedBy(fact))
      /\ \A m : Owed(fact, m) \in Nat
  BY FactIs, QueueIs
<1>2. /\ today' = today /\ stats' = stats /\ lost' = lost /\ reading' = reading
      /\ pend[h] = <<>> /\ pend' = [pend EXCEPT ![h] = fact]
      /\ happened' = [happened EXCEPT ![today] = [m \in Metrics |-> happened[today][m] + Owed(fact, m)]]
  BY DEF Happens
<1>3. today \in Days /\ happened \in Table /\ pend \in Queues /\ stats \in Table /\ lost \in Row
  BY DEF SInv, StatTypeOK
<1>4. /\ happened' \in Table /\ \A d \in Days : d # today => happened'[d] = happened[d]
      /\ \A m \in Metrics : happened'[today][m] = happened[today][m] + Owed(fact, m)
  <2>1. PICK row : row = [m \in Metrics |-> happened[today][m] + Owed(fact, m)]
    OBVIOUS
  <2>2. row \in Row /\ \A m \in Metrics : row[m] = happened[today][m] + Owed(fact, m)
    BY <1>1, <1>3, <2>1 DEF Table, Row
  <2> QED BY <1>2, <1>3, <2>1, <2>2 DEF Table
<1>5. ASSUME NEW m \in Metrics
      PROVE  /\ Total(happened', m) = Total(happened, m) + Owed(fact, m)
             /\ \A d \in Days : UpTo(happened, d, m) <= UpTo(happened', d, m)
  BY <1>1, <1>3, <1>4, TableGrows
<1>6. pend' \in Queues /\ \A m \in Metrics : OwedIn(pend', m) = OwedIn(pend, m) + Owed(fact, m)
  <2>1. \A m : Owed(pend[h], m) = 0 /\ OwedIn(pend, m) \in Nat
    BY <1>2, <1>3, OwedIs, OwedInNat
  <2>2. /\ pend' \in Queues
        /\ \A m : OwedIn(pend', m) + Owed(pend[h], m) = OwedIn(pend, m) + Owed(fact, m)
    BY <1>1, <1>2, <1>3, OwedInChanges
  <2>3. \A m : OwedIn(pend', m) \in Nat
    BY <2>2, OwedInNat
  <2> QED BY <2>1, <2>2, <2>3
<1>7. \A m \in Metrics : /\ Total(happened, m) \in Nat /\ Total(stats, m) \in Nat /\ lost[m] \in Nat
                         /\ OwedIn(pend, m) \in Nat
                         /\ \A d \in Days : /\ UpTo(happened, d, m) \in Nat /\ UpTo(stats, d, m) \in Nat
                                            /\ UpTo(happened', d, m) \in Nat
  BY <1>3, <1>4, ColumnIs, OwedInNat DEF Row
<1>8. Ledger'
  <2> SUFFICES ASSUME NEW m \in Metrics
               PROVE  Total(stats, m) + OwedIn(pend', m) + lost[m] = Total(happened', m)
    BY <1>2 DEF Ledger
  <2>1. Total(stats, m) + OwedIn(pend, m) + lost[m] = Total(happened, m)
    BY DEF SInv, Ledger
  <2> QED BY <1>1, <1>5, <1>6, <1>7, <2>1
<1>9. Balanced'
  <2>1. ByType(CameAbout) = ByKind(CameAbout)
    BY DEF SInv, Balanced
  <2> QED BY <1>1, <1>5, <1>7, <2>1
          DEF Balanced, CameAbout, ByType, ByKind, OwedBy, Metrics, Types, Kinds
<1>10. Dated'
  <2> SUFFICES ASSUME NEW m \in Metrics, NEW d \in Days PROVE UpTo(stats, d, m) <= UpTo(happened', d, m)
    BY <1>2 DEF Dated
  <2>1. UpTo(stats, d, m) <= UpTo(happened, d, m)
    BY DEF SInv, Dated
  <2> QED BY <1>5, <1>7, <2>1
<1>11. HasRead'
  <2>1. stat_totals' = stat_totals
    BY <1>2 DEF stat_totals
  <2>2. reading.at = "totals" => /\ reading.totals \in Row
                                 /\ \A m \in Metrics : reading.totals[m] <= Total(happened, m)
                                 /\ reading.sound => reading.totals = stat_totals
    BY DEF SInv, HasRead
  <2>3. reading.at = "totals" => \A m \in Metrics : reading.totals[m] <= Total(happened', m)
    BY <1>1, <1>5, <1>7, <2>2 DEF Row
  <2> QED BY <1>2, <2>1, <2>2, <2>3 DEF HasRead
<1>12. Unborn' /\ StatTypeOK'
  BY <1>2, <1>3, <1>4, <1>6 DEF SInv, Unborn, StatTypeOK, Days
<1> QED BY <1>8, <1>9, <1>10, <1>11, <1>12 DEF SInv

\* A count leaves its queue for today's row or for the lost.
LEMMA BumpKeeps ==
  ASSUME Sized, SInv, NEW h \in Handlers, Bump(h)
  PROVE  SInv'
<1>1. PICK q \in Queue, c \in Count, r \in Queue :
        /\ q = pend[h] /\ Head(q) = c /\ Tail(q) = r
        /\ \A m : Owed(q, m) = Share(c, m) + Owed(r, m)
  <2>1. pend[h] \in Queue /\ pend[h] # <<>>
    BY DEF SInv, StatTypeOK, Queues, Bump
  <2> QED BY <2>1, QueueIs DEF Begins
<1>2. \A m : Owed(q, m) \in Nat /\ Share(c, m) \in Nat /\ Owed(r, m) \in Nat
  BY QueueIs, ShareIs
<1>3. /\ today \in Days /\ happened \in Table /\ pend \in Queues /\ stats \in Table /\ lost \in Row
      /\ c.metric \in Metrics /\ c.n \in Nat
  BY DEF SInv, StatTypeOK, Count
<1>4. /\ today' = today /\ happened' = happened /\ pend' = [pend EXCEPT ![h] = r]
      /\ \/ /\ stats' = bump_by(stats, c.metric, c.n) /\ lost' = lost
            /\ reading' = [reading EXCEPT !.sound = (reading.at = "none")]
         \/ /\ stats' = stats /\ reading' = reading
            /\ lost' = [lost EXCEPT ![c.metric] = @ + c.n]
  BY <1>1 DEF Bump
<1>5. /\ pend' \in Queues
      /\ \A m : OwedIn(pend, m) = OwedIn(pend', m) + Share(c, m)
  <2>1. /\ pend' \in Queues
        /\ \A m : OwedIn(pend', m) + Owed(q, m) = OwedIn(pend, m) + Owed(r, m)
    <3>1. PICK p : p = [pend EXCEPT ![h] = r]
      OBVIOUS
    <3>2. p \in Queues /\ \A m : OwedIn(p, m) + Owed(pend[h], m) = OwedIn(pend, m) + Owed(r, m)
      BY <1>3, <3>1, OwedInChanges
    <3>3. p = pend' /\ q = pend[h]
      BY <1>1, <1>4, <3>1
    <3> QED BY <3>2, <3>3
  <2>2. \A m : OwedIn(pend', m) \in Nat /\ OwedIn(pend, m) \in Nat
    BY <1>3, <2>1, OwedInNat
  <2>3. ASSUME NEW m PROVE OwedIn(pend, m) = OwedIn(pend', m) + Share(c, m)
    <3>1. Owed(q, m) = Share(c, m) + Owed(r, m)
      BY <1>1
    <3> QED BY <1>2, <2>1, <2>2, <3>1
  <2> QED BY <2>1, <2>3
<1>6. /\ stats' \in Table /\ lost' \in Row
      /\ \A d \in Days : d # today => stats'[d] = stats[d]
      /\ \A m \in Metrics : \/ stats'[today][m] = stats[today][m] + Share(c, m) /\ lost'[m] = lost[m]
                            \/ stats'[today][m] = stats[today][m] /\ lost'[m] = lost[m] + Share(c, m)
  <2>1. CASE stats' = bump_by(stats, c.metric, c.n) /\ lost' = lost
    <3>1. PICK row : row = [stats[today] EXCEPT ![c.metric] = @ + c.n]
      OBVIOUS
    <3>2. stats' = [stats EXCEPT ![today] = row]
      BY <2>1, <3>1 DEF bump_by
    <3>3. row \in Row /\ \A m \in Metrics : row[m] = stats[today][m] + Share(c, m)
      BY <1>3, <3>1 DEF Table, Row, Share
    <3> QED BY <1>3, <2>1, <3>2, <3>3 DEF Table
  <2>2. CASE stats' = stats /\ lost' = [lost EXCEPT ![c.metric] = @ + c.n]
    BY <1>3, <2>2 DEF Row, Share
  <2> QED BY <1>4, <2>1, <2>2
<1>7. ASSUME NEW m \in Metrics
      PROVE  /\ Total(stats', m) + OwedIn(pend', m) + lost'[m] = Total(happened, m)
             /\ \A d \in Days : UpTo(stats', d, m) <= UpTo(happened, d, m)
  <2>1. PICK k \in Nat : /\ stats'[today][m] = stats[today][m] + k
                         /\ k + lost'[m] = Share(c, m) + lost[m]
    <3>1. Share(c, m) \in Nat /\ stats[today][m] \in Nat /\ lost[m] \in Nat
      BY <1>2, <1>3 DEF Table, Row
    <3>2. \/ stats'[today][m] = stats[today][m] + Share(c, m) /\ lost'[m] = lost[m]
          \/ stats'[today][m] = stats[today][m] /\ lost'[m] = lost[m] + Share(c, m)
      BY <1>6
    <3>3. stats[today][m] = stats[today][m] + 0 /\ 0 + (lost[m] + Share(c, m)) = Share(c, m) + lost[m]
      BY <3>1
    <3> QED BY <3>1, <3>2, <3>3
  <2>2. /\ Total(stats', m) = Total(stats, m) + k
        /\ \A d \in Days : d < today => UpTo(stats', d, m) = UpTo(stats, d, m)
    BY <1>3, <1>6, <2>1, TableGrows
  <2>3. /\ Total(happened, m) \in Nat /\ Total(stats, m) \in Nat /\ lost[m] \in Nat /\ lost'[m] \in Nat
        /\ OwedIn(pend, m) \in Nat /\ OwedIn(pend', m) \in Nat /\ Share(c, m) \in Nat
        /\ \A d \in Days : /\ UpTo(happened, d, m) \in Nat /\ UpTo(stats, d, m) \in Nat
                           /\ UpTo(stats', d, m) \in Nat
    BY <1>2, <1>3, <1>5, <1>6, ColumnIs, OwedInNat DEF Row
  <2>4. Total(stats', m) + OwedIn(pend', m) + lost'[m] = Total(happened, m)
    <3>1. Total(stats, m) + OwedIn(pend, m) + lost[m] = Total(happened, m)
      BY DEF SInv, Ledger
    <3>2. OwedIn(pend, m) = OwedIn(pend', m) + Share(c, m)
      BY <1>5
    <3> QED BY <2>1, <2>2, <2>3, <3>1, <3>2
  <2>5. ASSUME NEW d \in Days PROVE UpTo(stats', d, m) <= UpTo(happened, d, m)
    <3>1. CASE d < today
      BY <2>2, <3>1 DEF SInv, Dated
    <3>2. CASE ~ (d < today)
      <4>1. \A e \in Days : e > d => happened[e] = None /\ stats'[e] = None
        BY <1>3, <1>6, <3>2 DEF SInv, Unborn, Days
      <4>2. UpTo(stats', d, m) = Total(stats', m) /\ UpTo(happened, d, m) = Total(happened, m)
        BY <1>3, <1>6, <4>1, UpToIsAll
      <4>3. Total(stats', m) \in Nat
        BY <1>6, ColumnIs
      <4> QED BY <2>3, <2>4, <4>2, <4>3
    <3> QED BY <3>1, <3>2
  <2> QED BY <2>4, <2>5
<1>8. Ledger' /\ Balanced' /\ Dated'
  <2>1. Balanced'
    BY <1>4 DEF SInv, Balanced, CameAbout
  <2> QED BY <1>4, <1>7, <2>1 DEF Ledger, Dated
<1>9. HasRead' /\ StatTypeOK'
  <2>1. reading \in [at : {"none", "totals"}, totals : Row \cup {<<>>}, sound : BOOLEAN]
    BY DEF SInv, StatTypeOK
  <2>2. /\ reading' \in [at : {"none", "totals"}, totals : Row \cup {<<>>}, sound : BOOLEAN]
        /\ reading'.at = reading.at /\ reading'.totals = reading.totals
        /\ reading'.at = "totals" /\ reading'.sound => reading.sound /\ stats' = stats
    BY <1>4, <2>1
  <2>3. stats' = stats => stat_totals' = stat_totals
    BY DEF stat_totals
  <2> QED BY <1>3, <1>4, <1>5, <1>6, <2>2, <2>3 DEF SInv, HasRead, StatTypeOK
<1>10. Unborn'
  BY <1>3, <1>4, <1>6 DEF SInv, Unborn, Days
<1> QED BY <1>8, <1>9, <1>10 DEF SInv

\* What was owed is lost.
LEMMA RestartKeeps ==
  ASSUME Sized, SInv, Restart
  PROVE  SInv'
<1>1. /\ UNCHANGED <<today, happened, stats>> /\ reading' = NotReading
      /\ pend' = [h \in Handlers |-> <<>>]
      /\ lost' = [m \in Metrics |-> lost[m] + Pending(m)]
  BY DEF Restart
<1>2. pend \in Queues /\ pend' \in Queues /\ lost \in Row
  BY <1>1 DEF SInv, StatTypeOK, Queues, Queue
<1>3. \A m \in Metrics : /\ lost'[m] = lost[m] + OwedIn(pend, m)
                         /\ OwedIn(pend, m) \in Nat /\ lost[m] \in Nat
  <2>1. \A m \in Metrics : Pending(m) = OwedIn(pend, m)
    BY <1>2, PendingIs DEF Pending
  <2> QED BY <1>1, <1>2, <2>1, OwedInNat DEF Row
<1>4. ASSUME NEW m PROVE OwedIn(pend', m) = 0
  <2> DEFINE f == [h \in Handlers |-> Owed(pend'[h], m)]
  <2>1. \A h \in Handlers : f[h] = 0
    BY <1>1, OwedIs
  <2> HIDE DEF f
  <2>2. SumFunctionOnSet(f, Handlers) = 0
    BY <2>1, SumZero DEF Sized
  <2> QED BY <2>2 DEF OwedIn, f
<1>5. Ledger'
  <2> SUFFICES ASSUME NEW m \in Metrics
               PROVE  Total(stats, m) + OwedIn(pend', m) + lost'[m] = Total(happened, m)
    BY <1>1 DEF Ledger
  <2>1. Total(stats, m) + OwedIn(pend, m) + lost[m] = Total(happened, m)
    BY DEF SInv, Ledger
  <2>2. Total(stats, m) \in Nat
    BY ColumnIs DEF SInv, StatTypeOK
  <2> QED BY <1>3, <1>4, <2>1, <2>2
<1>6. lost' \in Row
  BY <1>1, <1>2, <1>3 DEF Row
<1>7. reading' \in [at : {"none", "totals"}, totals : Row \cup {<<>>}, sound : BOOLEAN]
      /\ reading'.at = "none"
  BY <1>1 DEF NotReading
<1> QED BY <1>1, <1>2, <1>5, <1>6, <1>7
        DEF SInv, StatTypeOK, Unborn, Balanced, CameAbout, Dated, HasRead

LEMMA TotalsAreRow ==
  ASSUME Sized, SInv
  PROVE  stat_totals \in Row /\ \A m \in Metrics : stat_totals[m] = Total(stats, m)
BY ColumnIs DEF stat_totals, Row, SInv, StatTypeOK

\* The page reads totals that are no more than came about.
LEMMA ReadKeeps ==
  ASSUME Sized, SInv, NEW ok \in BOOLEAN, ReadTotals(ok)
  PROVE  SInv'
<1>1. /\ UNCHANGED <<today, happened, stats, pend, lost>>
      /\ reading' = [at |-> "totals", totals |-> IF ok THEN stat_totals ELSE None, sound |-> ok]
  BY DEF ReadTotals
<1>2. reading'.totals \in Row /\ \A m \in Metrics : reading'.totals[m] <= Total(happened, m)
  <2>1. \A m \in Metrics : /\ Total(happened, m) \in Nat /\ Total(stats, m) \in Nat
                           /\ OwedIn(pend, m) \in Nat /\ lost[m] \in Nat
    BY ColumnIs, OwedInNat DEF SInv, StatTypeOK, Row
  <2>2. \A m \in Metrics : Total(stats, m) <= Total(happened, m)
    <3> SUFFICES ASSUME NEW m \in Metrics PROVE Total(stats, m) <= Total(happened, m)
      OBVIOUS
    <3>1. Total(stats, m) + OwedIn(pend, m) + lost[m] = Total(happened, m)
      BY DEF SInv, Ledger
    <3> QED BY <2>1, <3>1
  <2>3. CASE ok
    BY <1>1, <2>2, <2>3, TotalsAreRow
  <2>4. CASE ~ok
    BY <1>1, <2>1, <2>4, NoneIsRow
  <2> QED BY <2>3, <2>4
<1>3. reading' \in [at : {"none", "totals"}, totals : Row \cup {<<>>}, sound : BOOLEAN]
      /\ (reading'.sound => reading'.totals = stat_totals)
  BY <1>1, <1>2
<1>4. stat_totals' = stat_totals
  BY <1>1 DEF stat_totals
<1> QED BY <1>1, <1>2, <1>3, <1>4
        DEF SInv, StatTypeOK, Unborn, Ledger, Balanced, CameAbout, Dated, HasRead

\* The initial states, and every step.
LEMMA StatInitHolds == Sized /\ StatInit => SInv
<1> SUFFICES ASSUME Sized, StatInit PROVE SInv
  OBVIOUS
<1>1. /\ today = 1 /\ happened = [d \in Days |-> None] /\ stats = happened
      /\ pend = [h \in Handlers |-> <<>>] /\ lost = None /\ reading = NotReading
  BY DEF StatInit
<1>2. StatTypeOK
  BY <1>1, NoneIsRow DEF StatTypeOK, Sized, Days, Table, Queues, Queue, NotReading
<1>3. Unborn /\ HasRead
  BY <1>1 DEF Unborn, HasRead, NotReading
<1>4. \A m \in Metrics : Total(stats, m) = 0
  <2> SUFFICES ASSUME NEW m \in Metrics PROVE Total(stats, m) = 0
    OBVIOUS
  <2>1. \A d \in Days : Column(stats, m)[d] = 0
    BY <1>1, NoneIsRow DEF Column
  <2> QED BY <1>2, <2>1, ColumnIs, SumZero DEF StatTypeOK
<1>5. \A m : OwedIn(pend, m) = 0
  <2> SUFFICES ASSUME NEW m PROVE OwedIn(pend, m) = 0
    OBVIOUS
  <2>1. \A h \in Handlers : [x \in Handlers |-> Owed(pend[x], m)][h] = 0
    BY <1>1, OwedIs
  <2> QED BY <2>1, SumZero DEF OwedIn, Sized
<1>6. Ledger /\ Dated
  <2>1. Ledger
    BY <1>1, <1>4, <1>5, NoneIsRow DEF Ledger
  <2>2. \A m \in Metrics, d \in Days : UpTo(stats, d, m) \in Nat
    BY <1>2, ColumnIs DEF StatTypeOK
  <2> QED BY <1>1, <2>1, <2>2 DEF Dated
<1>7. Balanced
  BY <1>1, <1>4 DEF Balanced, CameAbout, ByType, ByKind, Metrics, Types, Kinds
<1> QED BY <1>2, <1>3, <1>6, <1>7 DEF SInv

LEMMA StatNextKeeps == Sized /\ SInv /\ [StatNext]_stat_vars => SInv'
<1> SUFFICES ASSUME Sized, SInv, [StatNext]_stat_vars PROVE SInv'
  OBVIOUS
<1>1. CASE UNCHANGED <<happened, stats, pend, lost>> /\ today' \in Days /\ today <= today'
           /\ (reading' = reading \/ reading' = NotReading)
  <2>1. reading' \in [at : {"none", "totals"}, totals : Row \cup {<<>>}, sound : BOOLEAN]
        /\ (reading'.at = "totals" => reading' = reading)
    <3>1. reading \in [at : {"none", "totals"}, totals : Row \cup {<<>>}, sound : BOOLEAN]
      BY DEF SInv, StatTypeOK
    <3>2. /\ NotReading \in [at : {"none", "totals"}, totals : Row \cup {<<>>}, sound : BOOLEAN]
          /\ NotReading.at = "none"
      BY DEF NotReading
    <3>3. CASE reading' = reading
      BY <3>1, <3>3
    <3>4. CASE reading' = NotReading
      BY <3>2, <3>4
    <3> QED BY <1>1, <3>3, <3>4
  <2>2. stat_totals' = stat_totals
    BY <1>1 DEF stat_totals
  <2>3. StatTypeOK' /\ Unborn'
    BY <1>1, <2>1 DEF SInv, StatTypeOK, Unborn, Days
  <2> QED BY <1>1, <2>1, <2>2, <2>3 DEF SInv, Ledger, Balanced, CameAbout, Dated, HasRead
<1>2. today \in Days
  BY DEF SInv, StatTypeOK
<1>3. CASE UNCHANGED stat_vars
  BY <1>1, <1>2, <1>3 DEF stat_vars, Days
<1>4. CASE Midnight
  BY <1>1, <1>2, <1>4 DEF Midnight, Days, Sized
<1>5. CASE ShowPage
  BY <1>1, <1>2, <1>5 DEF ShowPage, Days
<1> QED BY <1>3, <1>4, <1>5, HappensKeeps, BumpKeeps, RestartKeeps, ReadKeeps DEF StatNext
-----------------------------------------------------------------------------
(* What the page and the table say.                                        *)

CountsHold(days) ==
  LET opened  == SumFunction([d \in DOMAIN days |-> days[d].opened])
      created == SumFunction([d \in DOMAIN days |-> days[d].created])
  IN
  /\ opened <= stat_totals["opened"] /\ created <= CreatedOf(stat_totals)
  /\ today <= RECENT_DAYS => opened = stat_totals["opened"] /\ created = CreatedOf(stat_totals)

\* The invariant gives the first requirement: a queue that owes a type owes its kind.
LEMMA OnceCounted ==
  ASSUME Sized, SInv
  PROVE  CountedOnce
<1>1. pend \in Queues /\ stats \in Table /\ happened \in Table /\ lost \in Row
  BY DEF SInv, StatTypeOK
<1>2. \A m \in Metrics : /\ Total(stats, m) + OwedIn(pend, m) + lost[m] = Total(happened, m)
                         /\ Total(stats, m) \in Nat /\ OwedIn(pend, m) \in Nat /\ lost[m] \in Nat
                         /\ Total(happened, m) \in Nat
  BY <1>1, ColumnIs, OwedInNat DEF SInv, Ledger, Row
<1>3. \A m \in Metrics : Pending(m) = OwedIn(pend, m)
  BY <1>1, PendingIs DEF Pending
<1>4. ASSUME lost = None PROVE SumFunctionOnSet(stat_totals, Kinds) <= CreatedOf(stat_totals)
  <2>1. PICK owed \in Row : \A m \in Metrics : owed[m] = OwedIn(pend, m)
    <3>1. [m \in Metrics |-> OwedIn(pend, m)] \in Row
      BY <1>2 DEF Row
    <3> QED BY <3>1
  <2>2. ByType(owed) <= ByKind(owed)
    BY <1>1, <2>1, TypesFirst DEF ByType, ByKind, Metrics, Types, Kinds
  <2>3. \A m \in Metrics : stat_totals[m] + owed[m] = Total(happened, m)
    BY <1>2, <1>4, <2>1, NoneIsRow, TotalsAreRow
  <2>4. ByType(CameAbout) = ByKind(CameAbout)
    BY DEF SInv, Balanced
  <2>5. \A m \in Metrics : stat_totals[m] \in Nat /\ owed[m] \in Nat
    BY <1>2, <2>1, TotalsAreRow
  <2>6. ByKind(stat_totals) <= ByType(stat_totals)
    BY <2>2, <2>3, <2>4, <2>5 DEF ByType, ByKind, CameAbout, Metrics, Types, Kinds
  <2> QED BY <2>6, TotalsAreRow, SumsOfLinks
<1> QED BY <1>2, <1>3, <1>4 DEF CountedOnce, Tallied, SInv, Dated

\* The days shown sum to no more than all days, and to as much while none is too old.
LEMMA RecentSum ==
  ASSUME Sized, SInv, NEW k, \A d \in Days : k[d] \in Nat /\ (stats[d] = None => k[d] = 0)
  PROVE  /\ SumFunctionOnSet(k, stat_recent) <= SumFunctionOnSet(k, Days)
         /\ today <= RECENT_DAYS => SumFunctionOnSet(k, stat_recent) = SumFunctionOnSet(k, Days)
<1>1. IsFiniteSet(Days) /\ stat_recent \subseteq Days
  BY FS_Interval DEF Days, Sized, stat_recent
<1>2. SumFunctionOnSet(k, stat_recent) <= SumFunctionOnSet(k, Days)
  BY <1>1, SumWithin
<1>3. ASSUME today <= RECENT_DAYS PROVE SumFunctionOnSet(k, stat_recent) = SumFunctionOnSet(k, Days)
  <2>1. \A d \in Days \ stat_recent : k[d] = 0
    BY <1>3 DEF stat_recent, Recent, Days, Sized, SInv, StatTypeOK
  <2> QED BY <1>1, <2>1, SumWithin
<1> QED BY <1>2, <1>3

LEMMA RowsAddUp ==
  ASSUME Sized, SInv, NEW field \in {"opened", "created"}, NEW k,
         \A d \in Days : k[d] \in Nat /\ (d \in stat_recent => Rows[d][field] = k[d])
  PROVE  SumFunction([d \in DOMAIN Rows |-> Rows[d][field]]) = SumFunctionOnSet(k, stat_recent)
<1>1. IsFiniteSet(stat_recent) /\ stat_recent \subseteq Days /\ DOMAIN Rows = stat_recent
  <2>1. IsFiniteSet(Days)
    BY FS_Interval DEF Days, Sized
  <2>2. stat_recent \subseteq Days
    BY DEF stat_recent
  <2> QED BY <2>1, <2>2, FS_Subset DEF Rows
<1> DEFINE f == [d \in DOMAIN Rows |-> Rows[d][field]]
<1>2. DOMAIN f = stat_recent /\ \A d \in stat_recent : k[d] \in Nat /\ k[d] = f[d]
  BY <1>1
<1> HIDE DEF f
<1>3. SumFunctionOnSet(k, stat_recent) = SumFunctionOnSet(f, stat_recent)
  BY <1>1, <1>2, SumSame
<1> QED BY <1>2, <1>3 DEF f, SumFunction

\* Opened and created, by the days on the page and by its totals.
LEMMA RowsHold ==
  ASSUME Sized, SInv
  PROVE  CountsHold(Rows)
<1> DEFINE a == Column(stats, "created_public")
           b == Column(stats, "created_secret")
           c == Column(stats, "created_once")
           o == Column(stats, "opened")
           bc == [d \in Days |-> b[d] + c[d]]
           abc == [d \in Days |-> a[d] + bc[d]]
<1>1. /\ stats \in Table /\ IsFiniteSet(Days)
      /\ \A d \in Days : /\ a[d] \in Nat /\ b[d] \in Nat /\ c[d] \in Nat /\ o[d] \in Nat
                         /\ o[d] = stats[d]["opened"] /\ ByType(stats[d]) = a[d] + b[d] + c[d]
                         /\ stats[d] = None => a[d] = 0 /\ b[d] = 0 /\ c[d] = 0 /\ o[d] = 0
  <2>1. stats \in Table
    BY DEF SInv, StatTypeOK
  <2>2. IsFiniteSet(Days)
    BY FS_Interval DEF Days, Sized
  <2>3. \A d \in Days, m \in Metrics : stats[d][m] \in Nat /\ (stats[d] = None => stats[d][m] = 0)
    BY <2>1, NoneIsRow DEF Table, Row
  <2> QED BY <2>1, <2>2, <2>3 DEF Column, ByType, Metrics, Types
<1>2. /\ stat_totals["opened"] = SumFunctionOnSet(o, Days)
      /\ stat_totals["created_public"] = SumFunctionOnSet(a, Days)
      /\ stat_totals["created_secret"] = SumFunctionOnSet(b, Days)
      /\ stat_totals["created_once"] = SumFunctionOnSet(c, Days)
  BY <1>1, TotalsAreRow, ColumnIs DEF Metrics, Types
<1> HIDE DEF a, b, c, o
<1>3. \A d \in Days : /\ bc[d] \in Nat /\ abc[d] \in Nat
                      /\ bc[d] = b[d] + c[d] /\ abc[d] = a[d] + bc[d]
                      /\ stats[d] = None => abc[d] = 0
                      /\ abc[d] = ByType(stats[d])
  BY <1>1
<1> HIDE DEF bc, abc
<1>4. SumFunctionOnSet(bc, Days) = SumFunctionOnSet(b, Days) + SumFunctionOnSet(c, Days)
  BY <1>1, <1>3, SumPlus
<1>5. SumFunctionOnSet(abc, Days) = SumFunctionOnSet(a, Days) + SumFunctionOnSet(bc, Days)
  BY <1>1, <1>3, SumPlus
<1>6. CreatedOf(stat_totals) = SumFunctionOnSet(abc, Days)
  <2>1. SumFunctionOnSet(a, Days) \in Nat /\ SumFunctionOnSet(b, Days) \in Nat /\ SumFunctionOnSet(c, Days) \in Nat
    BY <1>1, SumTakes
  <2>2. CreatedOf(stat_totals) = ByType(stat_totals)
    BY TotalsAreRow, SumsOfLinks
  <2> QED BY <1>2, <1>4, <1>5, <2>1, <2>2 DEF ByType
<1>7. \A d \in stat_recent : Rows[d].opened = o[d] /\ Rows[d].created = abc[d]
  <2> SUFFICES ASSUME NEW d \in stat_recent PROVE Rows[d].opened = o[d] /\ Rows[d].created = abc[d]
    OBVIOUS
  <2>1. d \in Days /\ stats[d] \in Row
    BY <1>1 DEF stat_recent, Table
  <2>2. CreatedOf(stats[d]) = ByType(stats[d])
    BY <2>1, SumsOfLinks
  <2> QED BY <1>1, <1>3, <2>1, <2>2 DEF Rows
<1>8. SumFunction([d \in DOMAIN Rows |-> Rows[d].opened]) = SumFunctionOnSet(o, stat_recent)
  BY <1>1, <1>7, RowsAddUp
<1>9. SumFunction([d \in DOMAIN Rows |-> Rows[d].created]) = SumFunctionOnSet(abc, stat_recent)
  BY <1>3, <1>7, RowsAddUp
<1>10. /\ SumFunctionOnSet(o, stat_recent) <= SumFunctionOnSet(o, Days)
       /\ today <= RECENT_DAYS => SumFunctionOnSet(o, stat_recent) = SumFunctionOnSet(o, Days)
  BY <1>1, RecentSum
<1>11. /\ SumFunctionOnSet(abc, stat_recent) <= SumFunctionOnSet(abc, Days)
       /\ today <= RECENT_DAYS => SumFunctionOnSet(abc, stat_recent) = SumFunctionOnSet(abc, Days)
  BY <1>3, RecentSum
<1> QED BY <1>2, <1>6, <1>8, <1>9, <1>10, <1>11 DEF CountsHold

\* The invariant gives the second requirement, for a read that works and one that fails.
LEMMA PageHolds ==
  ASSUME Sized, SInv
  PROVE  PageIsTrue
<1> SUFFICES ASSUME reading.at = "totals", NEW ok \in BOOLEAN, NEW page, page = stats_page(ok)
             PROVE  /\ DOMAIN page.days \subseteq {d \in Days : d <= today /\ today - d < RECENT_DAYS}
                    /\ \A m \in Metrics : page.totals[m] <= Total(happened, m)
                    /\ \A d \in DOMAIN page.days : page.days[d].opened <= UpTo(happened, d, "opened")
                    /\ page.sound => page.totals = stat_totals /\ CountsHold(page.days)
  BY DEF PageIsTrue, CountsHold
<1>1. /\ reading.totals \in Row /\ \A m \in Metrics : reading.totals[m] <= Total(happened, m)
      /\ reading.sound => reading.totals = stat_totals
  BY DEF SInv, HasRead
<1>2. /\ page.totals = reading.totals /\ page.sound = (reading.sound /\ ok)
      /\ page.days = IF ok THEN Rows ELSE <<>>
  BY DEF stats_page
<1>3. ASSUME ok PROVE
        /\ DOMAIN page.days \subseteq {d \in Days : d <= today /\ today - d < RECENT_DAYS}
        /\ \A d \in DOMAIN page.days : page.days[d].opened <= UpTo(happened, d, "opened")
  <2>1. page.days = Rows /\ DOMAIN Rows = stat_recent
    BY <1>2, <1>3 DEF Rows
  <2>2. stat_recent \subseteq {d \in Days : d <= today /\ today - d < RECENT_DAYS}
    BY DEF SInv, Unborn, StatTypeOK, stat_recent, Recent, Days, Sized
  <2>3. ASSUME NEW d \in stat_recent PROVE Rows[d].opened <= UpTo(happened, d, "opened")
    <3>1. d \in Days /\ stats \in Table /\ happened \in Table /\ "opened" \in Metrics
      BY DEF stat_recent, SInv, StatTypeOK, Metrics
    <3>2. /\ stats[d]["opened"] <= UpTo(stats, d, "opened")
          /\ UpTo(stats, d, "opened") <= UpTo(happened, d, "opened")
          /\ stats[d]["opened"] \in Nat
          /\ UpTo(stats, d, "opened") \in Nat /\ UpTo(happened, d, "opened") \in Nat
      BY <3>1, ColumnIs DEF SInv, Dated, Table, Row
    <3>3. Rows[d].opened = stats[d]["opened"]
      BY DEF Rows
    <3> QED BY <3>2, <3>3
  <2> QED BY <2>1, <2>2, <2>3
<1>4. ASSUME ~ok PROVE DOMAIN page.days = {}
  BY <1>2, <1>4
<1>5. page.sound => page.totals = stat_totals /\ CountsHold(page.days)
  BY <1>1, <1>2, RowsHold
<1> QED BY <1>1, <1>2, <1>3, <1>4, <1>5

(***************************************************************************)
(* CountedOnce and PageIsTrue (Statistics): however the handlers' counts,  *)
(* failed writes, restarts and midnights interleave with a page's two      *)
(* reads, every fact is in the table, owed or lost, exactly once and on no *)
(* day before its own, and the page shows no more than came about.  Any    *)
(* number of handlers, days and days on the page.                          *)
(***************************************************************************)
THEOREM TalliesHold ==
  ASSUME Sized
  PROVE  StatSpec => []TalliesAddUp
<1>1. SInv => TalliesAddUp
  BY OnceCounted, PageHolds DEF TalliesAddUp
<1>2. StatInit => SInv
  BY StatInitHolds
<1>3. SInv /\ [StatNext]_stat_vars => SInv'
  BY StatNextKeeps
<1> QED BY <1>1, <1>2, <1>3, PTL DEF StatSpec

-----------------------------------------------------------------------------
(* How a name is read: it falls apart where it was put together.           *)

Letters == {"a", "A", "-"}

\* The words of a name in their case, each of one case and between two letters.
Word(p, k) ==
  LET letter == IF k % 2 = 1 THEN "a" ELSE "A" IN
  /\ p \in Pieces(Letters) /\ Len(p) \in Nat \ {0}
  /\ \A h \in 1..Len(p) : p[h] \in {letter, "-"}
  /\ p[1] = letter /\ p[Len(p)] = letter

LEMMA WordIs ==
  ASSUME NEW w \in NameWords, NEW k \in Nat
  PROVE  Word(IF k % 2 = 1 THEN w ELSE Upper(w), k)
<1>1. w \in Seq({"a", "-"}) /\ w # <<>> /\ w[1] = "a" /\ w[Len(w)] = "a"
  BY NameWordsAssumption
<1>2. Len(w) \in Nat \ {0} /\ DOMAIN w = 1..Len(w) /\ \A h \in 1..Len(w) : w[h] \in {"a", "-"}
  BY <1>1, EmptySeq, LenProperties, ElementOfSeq
<1>3. w \in Seq(Letters)
  BY <1>1, SeqMonotonic DEF Letters
<1>4. CASE k % 2 = 1
  BY <1>1, <1>2, <1>3, <1>4 DEF Word, Pieces
<1>5. CASE k % 2 # 1
  <2>1. Upper(w) = [i \in 1..Len(w) |-> IF w[i] = "a" THEN "A" ELSE w[i]]
    BY <1>2 DEF Upper
  <2>2. PICK u \in [1..Len(w) -> Letters] : u = Upper(w) /\ \A i \in 1..Len(w) : u[i] = IF w[i] = "a" THEN "A" ELSE w[i]
    BY <1>2, <2>1 DEF Letters
  <2>3. u \in Seq(Letters) /\ Len(u) = Len(w) /\ u # <<>>
    BY <1>2, <2>2, EmptySeq
  <2>4. 1 \in 1..Len(w) /\ Len(w) \in 1..Len(w)
    BY <1>2
  <2>5. u[1] = "A" /\ u[Len(u)] = "A" /\ \A h \in 1..Len(u) : u[h] \in {"A", "-"}
    BY <1>1, <1>2, <2>2, <2>3, <2>4
  <2> QED BY <1>2, <1>5, <2>2, <2>3, <2>5 DEF Word, Pieces
<1> QED BY <1>4, <1>5

LEMMA CasedIs ==
  ASSUME NEW words \in Seq(NameWords), words # <<>>
  PROVE  \E n \in Nat \ {0} : /\ n = Len(words)
                              /\ Cased(words) \in [1..n -> Pieces(Letters)] /\ Len(Cased(words)) = n
                              /\ \A k \in 1..n : Word(Cased(words)[k], k)
<1>1. PICK n \in Nat \ {0} : n = Len(words) /\ DOMAIN words = 1..n /\ \A k \in 1..n : words[k] \in NameWords
  <2>1. Len(words) \in Nat \ {0} /\ DOMAIN words = 1..Len(words)
    BY EmptySeq, LenProperties
  <2> QED BY <2>1, ElementOfSeq
<1>2. Cased(words) = [k \in 1..n |-> IF k % 2 = 1 THEN words[k] ELSE Upper(words[k])]
  BY <1>1 DEF Cased
<1>3. \A k \in 1..n : Word(Cased(words)[k], k)
  BY <1>1, <1>2, WordIs
<1>4. \A k \in 1..n : Cased(words)[k] \in Pieces(Letters)
  BY <1>3 DEF Word
<1>5. Cased(words) \in [1..n -> Pieces(Letters)]
  BY <1>2, <1>4
<1> QED BY <1>1, <1>3, <1>5

\* What name_words has read of the first m characters.
ReadsTo(R, s, m) ==
  R = [i \in 0..m |->
        IF i = 0 THEN <<>>
        ELSE LET out == R[i - 1] IN
             IF i > 1 /\ {s[i - 1], s[i]} # {"a", "A"}
             THEN Append(Front(out), Append(Last(out), s[i]))
             ELSE Append(out, <<s[i]>>)]

Further(out, s, i) ==
  IF i > 1 /\ {s[i - 1], s[i]} # {"a", "A"} THEN Append(Front(out), Append(Last(out), s[i]))
  ELSE Append(out, <<s[i]>>)

LEMMA ReadsIs ==
  ASSUME NEW s, NEW m \in Nat, NEW R
  PROVE  ReadsTo(R, s, m) <=> R = [i \in 0..m |-> IF i = 0 THEN <<>> ELSE Further(R[i - 1], s, i)]
BY DEF ReadsTo, Further

LEMMA ReadsExist ==
  ASSUME NEW s, NEW n \in Nat
  PROVE  \E R : ReadsTo(R, s, n)
<1> DEFINE Bad == {m \in Nat : ~ \E R : ReadsTo(R, s, m)}
<1> SUFFICES ASSUME Bad # {} PROVE FALSE
  OBVIOUS
<1>1. Bad \subseteq Nat
  OBVIOUS
<1>2. PICK m \in Bad : \A k \in Bad : m <= k
  BY <1>1, Least
<1>3. ReadsTo([i \in 0..0 |-> <<>>], s, 0)
  BY DEF ReadsTo
<1>4. m \in Nat \ {0} /\ ~ \E R : ReadsTo(R, s, m)
  BY <1>3
<1>5. m - 1 \in Nat /\ m - 1 \notin Bad
  BY <1>2, <1>4
<1>6. PICK R : ReadsTo(R, s, m - 1)
  BY <1>5
<1>7. R = [i \in 0..(m - 1) |-> IF i = 0 THEN <<>> ELSE Further(R[i - 1], s, i)]
  BY <1>5, <1>6, ReadsIs
<1> DEFINE G == [i \in 0..m |-> IF i = 0 THEN <<>> ELSE Further(R[i - 1], s, i)]
<1>8. \A i \in 0..(m - 1) : R[i] = G[i]
  BY <1>4, <1>7
<1>9. \A i \in 0..m : G[i] = IF i = 0 THEN <<>> ELSE Further(G[i - 1], s, i)
  <2> TAKE i \in 0..m
  <2>1. CASE i = 0
    BY <2>1
  <2>2. CASE i # 0
    <3>1. i - 1 \in 0..(m - 1)
      BY <1>4, <2>2
    <3>2. R[i - 1] = G[i - 1]
      BY <1>8, <3>1
    <3> QED BY <2>2, <3>2
  <2> QED BY <2>1, <2>2
<1>10. ReadsTo(G, s, m)
  BY <1>4, <1>9, ReadsIs
<1> QED BY <1>4, <1>10

LEMMA NameIsRead ==
  ASSUME NEW s, Len(s) \in Nat
  PROVE  \E R : /\ name_words(s) = R[Len(s)] /\ R[0] = <<>>
                /\ \A i \in 1..Len(s) : R[i] = Further(R[i - 1], s, i)
<1> DEFINE R == CHOOSE R : ReadsTo(R, s, Len(s))
<1>1. ReadsTo(R, s, Len(s))
  BY ReadsExist
<1>2. name_words(s) = R[Len(s)]
  BY DEF name_words, ReadsTo
<1> HIDE DEF R
<1>3. R = [i \in 0..Len(s) |-> IF i = 0 THEN <<>> ELSE Further(R[i - 1], s, i)]
  BY <1>1, ReadsIs
<1>4. R[0] = <<>> /\ \A i \in 1..Len(s) : R[i] = Further(R[i - 1], s, i)
  BY <1>3
<1> QED BY <1>2, <1>4

\* The words read when h characters of the k-th have been.
ReadSoFar(p, k, h) == [j \in 1..k |-> IF j < k THEN p[j] ELSE SubSeq(p[k], 1, h)]

LEMMA FirstLetter ==
  ASSUME NEW S, NEW w \in Seq(S), Len(w) \in Nat \ {0}
  PROVE  SubSeq(w, 1, 1) = <<w[1]>>
<1>1. SubSeq(w, 1, 1) = [j \in 1..1 |-> w[j]]
  OBVIOUS
<1>2. <<w[1]>> = [j \in 1..1 |-> w[1]]
  OBVIOUS
<1>3. \A j \in 1..1 : w[j] = w[1]
  OBVIOUS
<1> QED BY <1>1, <1>2, <1>3

WordsStart(p, k, R, s, i) ==
  /\ k \in Nat \ {0} /\ i \in Nat \ {0}
  /\ p[k] \in Seq(Letters) /\ Len(p[k]) \in Nat \ {0} /\ s[i] = p[k][1]
  /\ k = 1 => i = 1 /\ R = <<>>
  /\ k # 1 => i > 1 /\ {s[i - 1], s[i]} = {"a", "A"} /\ R = [j \in 1..(k - 1) |-> p[j]]

LEMMA BeginsWord ==
  ASSUME NEW p, NEW k, NEW R, NEW s, NEW i, WordsStart(p, k, R, s, i)
  PROVE  Further(R, s, i) = ReadSoFar(p, k, 1)
<1>0. /\ k \in Nat \ {0} /\ i \in Nat \ {0}
      /\ p[k] \in Seq(Letters) /\ Len(p[k]) \in Nat \ {0} /\ s[i] = p[k][1]
      /\ k = 1 => i = 1 /\ R = <<>>
      /\ k # 1 => i > 1 /\ {s[i - 1], s[i]} = {"a", "A"} /\ R = [j \in 1..(k - 1) |-> p[j]]
  BY DEF WordsStart
<1>1. SubSeq(p[k], 1, 1) = <<s[i]>>
  BY <1>0, FirstLetter
<1>2. Further(R, s, i) = Append(R, <<s[i]>>)
  <2>1. k = 1 => ~ (i > 1)
    BY <1>0
  <2>2. ~ (i > 1 /\ {s[i - 1], s[i]} # {"a", "A"})
    BY <1>0, <2>1, Zenon
  <2> QED BY <2>2, Zenon DEF Further
<1>3. CASE k = 1
  BY <1>0, <1>1, <1>2, <1>3 DEF ReadSoFar
<1>4. CASE k # 1
  BY <1>0, <1>1, <1>2, <1>4 DEF ReadSoFar
<1> QED BY <1>3, <1>4

GoesOn(p, k, s, i, h) ==
  /\ k \in Nat \ {0} /\ i \in Nat \ {0} /\ h \in Nat \ {0}
  /\ p[k] \in Seq(Letters) /\ h < Len(p[k]) /\ s[i] = p[k][h + 1]
  /\ i > 1 /\ {s[i - 1], s[i]} # {"a", "A"}

LEMMA GoesOnWord ==
  ASSUME NEW p, NEW k, NEW s, NEW i, NEW h, GoesOn(p, k, s, i, h)
  PROVE  Further(ReadSoFar(p, k, h), s, i) = ReadSoFar(p, k, h + 1)
<1>0. /\ k \in Nat \ {0} /\ i \in Nat \ {0} /\ h \in Nat \ {0}
      /\ p[k] \in Seq(Letters) /\ h < Len(p[k]) /\ s[i] = p[k][h + 1]
      /\ i > 1 /\ {s[i - 1], s[i]} # {"a", "A"}
  BY DEF GoesOn
<1> DEFINE T == ReadSoFar(p, k, h)
<1>1. Further(T, s, i) = Append(Front(T), Append(Last(T), s[i]))
  BY <1>0 DEF Further
<1>2. Len(T) = k /\ Last(T) = SubSeq(p[k], 1, h)
  BY <1>0 DEF ReadSoFar, Last
<1>3. Append(SubSeq(p[k], 1, h), s[i]) = SubSeq(p[k], 1, h + 1)
  BY <1>0, SMT
<1>4. Front(T) = [j \in 1..(k - 1) |-> p[j]]
  BY <1>0, <1>2, SMT DEF ReadSoFar, Front
<1>5. Append([j \in 1..(k - 1) |-> p[j]], SubSeq(p[k], 1, h + 1)) = ReadSoFar(p, k, h + 1)
  BY <1>0, SMT DEF ReadSoFar
<1> QED BY <1>1, <1>2, <1>3, <1>4, <1>5

\* Where a word begins and ends in the name.
LEMMA EndsAre ==
  ASSUME NEW S, NEW n \in Nat \ {0}, NEW p \in [1..n -> Pieces(S)], NEW F, Joins(F, p, n)
  PROVE  /\ F[n] \in Seq(S) /\ Len(F[n]) \in Nat /\ End(F, n) = Len(F[n]) /\ End(F, 0) = 0
         /\ \A j \in 1..n : /\ End(F, j) \in Nat /\ End(F, j - 1) \in Nat
                           /\ End(F, j) = End(F, j - 1) + Len(p[j]) /\ End(F, j) <= Len(F[n])
<1>1. /\ \A i \in 1..n : F[i] \in Seq(S)
      /\ \A i \in 0..n : End(F, i) \in Nat
      /\ \A i \in 1..n : /\ End(F, i) = End(F, i - 1) + Len(p[i])
                        /\ End(F, i - 1) < End(F, i)
  BY EndsRise, Zenon
<1>2. \A i, j \in 0..n : i < j => End(F, i) < End(F, j)
  BY EndsRank, Zenon
<1>3. n \in 1..n /\ n \in 0..n /\ n # 0 /\ \A j \in 1..n : j \in 0..n /\ j - 1 \in 0..n
  OBVIOUS
<1>4. F[n] \in Seq(S) /\ Len(F[n]) \in Nat /\ End(F, n) = Len(F[n]) /\ End(F, 0) = 0
  BY <1>1, <1>3, LenProperties DEF End
<1>5. ASSUME NEW j \in 1..n PROVE End(F, j) <= Len(F[n])
  <2>1. PICK l \in Nat : l = Len(F[n]) /\ End(F, n) = l
    BY <1>4
  <2>2. PICK e \in Nat : e = End(F, j)
    BY <1>1, <1>3
  <2>3. j < n => e < l
    BY <1>2, <1>3, <2>1, <2>2
  <2>4. j = n => e = l
    BY <2>1, <2>2
  <2>5. e <= l
    BY <2>3, <2>4
  <2> QED BY <2>1, <2>2, <2>5
<1> QED BY <1>1, <1>3, <1>4, <1>5

\* Where a character of a word comes in the name.
LEMMA CharsStay ==
  ASSUME NEW n \in Nat \ {0}, NEW p \in [1..n -> Pieces(Letters)], NEW F, Joins(F, p, n)
  PROVE  \A k \in 1..n, h \in Nat : 1 <= h /\ h <= Len(p[k]) => F[n][End(F, k - 1) + h] = p[k][h]
<1> SUFFICES ASSUME NEW k \in 1..n, NEW h \in Nat, 1 <= h, h <= Len(p[k])
             PROVE  F[n][End(F, k - 1) + h] = p[k][h]
  OBVIOUS
<1>0. /\ F[n] \in Seq(Letters) /\ Len(F[n]) \in Nat /\ End(F, n) = Len(F[n]) /\ End(F, 0) = 0
      /\ \A j \in 1..n : /\ End(F, j) \in Nat /\ End(F, j - 1) \in Nat
                        /\ End(F, j) = End(F, j - 1) + Len(p[j]) /\ End(F, j) <= Len(F[n])
  BY EndsAre, Zenon
<1>1. PICK a \in Nat : a = End(F, k - 1)
  BY <1>0
<1>2. PICK b \in Nat : b = End(F, k) /\ b = a + Len(p[k])
  BY <1>0, <1>1
<1>3. F[n] \in Seq(Letters) /\ p[k] \in Seq(Letters) /\ Len(p[k]) \in Nat
  <2>1. p[k] \in Pieces(Letters)
    OBVIOUS
  <2> QED BY <1>0, <2>1, PieceIs
<1>4. b <= Len(F[n]) /\ Len(F[n]) \in Nat
  BY <1>0, <1>2
<1>5. \A j \in (a + 1)..b : F[n][j] \in Letters
  BY <1>3, <1>4, ElementOfSeq
<1>6. \A j \in 1..b - (a + 1) + 1 : SubSeq(F[n], a + 1, b)[j] = F[n][(a + 1) + j - 1]
  BY <1>5, SubSeqProperties
<1>7. SubSeq(F[n], a + 1, b) = p[k]
  <2>1. SubSeq(F[n], End(F, k - 1) + 1, End(F, k)) = p[k]
    BY PieceStays, Zenon
  <2> QED BY <1>1, <1>2, <2>1
<1>8. h \in 1..b - (a + 1) + 1 /\ (a + 1) + h - 1 = a + h
  BY <1>2, <1>3
<1> QED BY <1>1, <1>6, <1>7, <1>8

LEMMA WordsAreRead ==
  ASSUME NEW n \in Nat \ {0}, NEW p \in [1..n -> Pieces(Letters)], NEW F, Joins(F, p, n),
         \A k \in 1..n : Word(p[k], k),
         NEW R, R[0] = <<>>, \A i \in 1..Len(F[n]) : R[i] = Further(R[i - 1], F[n], i)
  PROVE  \A k \in 1..n, h \in Nat : 1 <= h /\ h <= Len(p[k]) => R[End(F, k - 1) + h] = ReadSoFar(p, k, h)
<1> DEFINE s == F[n]
           Off == {i \in Nat : \E k \in 1..n, h \in Nat : /\ 1 <= h /\ h <= Len(p[k]) /\ i = End(F, k - 1) + h
                                                       /\ R[i] # ReadSoFar(p, k, h)}
<1>0. /\ s \in Seq(Letters) /\ Len(s) \in Nat /\ End(F, n) = Len(s) /\ End(F, 0) = 0
      /\ \A j \in 1..n : /\ End(F, j) \in Nat /\ End(F, j - 1) \in Nat
                        /\ End(F, j) = End(F, j - 1) + Len(p[j]) /\ End(F, j) <= Len(s)
  BY EndsAre, Zenon
<1>16. \A m \in 1..n, g \in Nat : 1 <= g /\ g <= Len(p[m]) => s[End(F, m - 1) + g] = p[m][g]
  BY CharsStay
<1>17. \A i \in 1..Len(s) : R[i] = Further(R[i - 1], s, i)
  OBVIOUS
<1> HIDE DEF s
<1> SUFFICES ASSUME Off # {} PROVE FALSE
  <2>1. \A k \in 1..n, h \in Nat : 1 <= h /\ h <= Len(p[k]) => End(F, k - 1) + h \in Nat
    BY <1>0
  <2> QED BY <2>1
<1>1. Off \subseteq Nat
  OBVIOUS
<1>2. PICK i \in Off : \A j \in Off : i <= j
  BY <1>1, Least
<1>3. PICK k \in 1..n, h \in Nat : 1 <= h /\ h <= Len(p[k]) /\ i = End(F, k - 1) + h /\ R[i] # ReadSoFar(p, k, h)
  OBVIOUS
<1>4. \A j \in Nat : j < i => j \notin Off
  BY <1>2
<1>5. \A j \in Nat, m \in 1..n, g \in Nat :
        j < i /\ 1 <= g /\ g <= Len(p[m]) /\ j = End(F, m - 1) + g => R[j] = ReadSoFar(p, m, g)
  BY <1>4
<1> HIDE DEF Off
<1>6. PICK a \in Nat : a = End(F, k - 1)
  BY <1>0
<1>7. i = a + h /\ i \in Nat \ {0}
  BY <1>3, <1>6
<1>8. /\ p[k] \in Seq(Letters) /\ Len(p[k]) \in Nat \ {0}
      /\ Word(p[k], k) /\ \A g \in 1..Len(p[k]) : p[k][g] \in {IF k % 2 = 1 THEN "a" ELSE "A", "-"}
  <2>1. p[k] \in Pieces(Letters)
    OBVIOUS
  <2> QED BY <2>1, PieceIs DEF Word
<1>10. s[i] = p[k][h]
  BY <1>3, <1>16
<1>11. i \in 1..Len(s)
  <2>1. PICK l \in Nat : l = Len(s)
    BY <1>0
  <2>2. PICK b \in Nat : b = End(F, k) /\ b = a + Len(p[k]) /\ b <= l
    BY <1>0, <1>6, <2>1
  <2>3. h <= b - a
    BY <1>3, <1>8, <2>2
  <2> QED BY <1>3, <1>7, <2>1, <2>2, <2>3
<1>12. R[i] = Further(R[i - 1], s, i)
  BY <1>11, <1>17
<1>13. CASE h = 1 /\ k = 1
  <2>1. a = 0 /\ i = 1
    BY <1>6, <1>7, <1>13 DEF End
  <2>2. R[i - 1] = <<>>
    BY <2>1
  <2>3. Further(R[i - 1], s, i) = ReadSoFar(p, k, 1)
    <3>1. WordsStart(p, k, R[i - 1], s, i)
      BY <1>7, <1>8, <1>10, <1>13, <2>1, <2>2 DEF WordsStart
    <3> QED BY <3>1, BeginsWord
  <2> QED BY <1>3, <1>12, <1>13, <2>3
<1>14. CASE h = 1 /\ k # 1
  <2>1. PICK m \in 1..n : m = k - 1 /\ m + 1 = k
    BY <1>14
  <2>2. Word(p[m], m) /\ Len(p[m]) \in Nat \ {0} /\ p[m] \in Seq(Letters)
    <3>1. p[m] \in Pieces(Letters)
      OBVIOUS
    <3> QED BY <3>1, PieceIs
  <2>3. PICK l \in Nat \ {0} : l = Len(p[m])
    BY <2>2
  <2>4. a = End(F, m - 1) + l
    BY <1>0, <1>6, <2>1, <2>3
  <2>5. i - 1 = a /\ a < i /\ a > 0
    <3>1. PICK c \in Nat : c = End(F, m - 1)
      BY <1>0
    <3>2. a = c + l
      BY <2>4, <3>1
    <3> QED BY <1>7, <1>14, <3>2
  <2>6. R[a] = ReadSoFar(p, m, l)
    BY <1>5, <2>3, <2>4, <2>5
  <2>7. s[a] = p[m][l]
    BY <1>16, <2>3, <2>4
  <2>8. {s[i - 1], s[i]} = {"a", "A"}
    <3>1. p[m][l] = (IF m % 2 = 1 THEN "a" ELSE "A") /\ p[k][1] = (IF k % 2 = 1 THEN "a" ELSE "A")
      BY <1>8, <2>2, <2>3 DEF Word
    <3>2. m % 2 = 1 <=> k % 2 # 1
      BY <2>1
    <3>3. s[i - 1] = p[m][l] /\ s[i] = p[k][1]
      BY <1>10, <1>14, <2>5, <2>7
    <3> QED BY <3>1, <3>2, <3>3
  <2>9. ReadSoFar(p, m, l) = [j \in 1..(k - 1) |-> p[j]]
    <3>1. SubSeq(p[m], 1, l) = p[m]
      BY <2>2, <2>3
    <3>2. ReadSoFar(p, m, l) = [j \in 1..m |-> IF j < m THEN p[j] ELSE p[m]]
      BY <3>1, Zenon DEF ReadSoFar
    <3>3. \A j \in 1..m : (IF j < m THEN p[j] ELSE p[m]) = p[j]
      OBVIOUS
    <3>4. ReadSoFar(p, m, l) = [j \in 1..m |-> p[j]]
      BY <3>2, <3>3, Zenon
    <3>5. k - 1 = m
      BY <2>1
    <3> QED BY <3>4, <3>5, Zenon
  <2>10. i > 1
    BY <2>5, <1>7
  <2>11. Further(R[i - 1], s, i) = ReadSoFar(p, k, 1)
    <3>1. R[i - 1] = [j \in 1..(k - 1) |-> p[j]]
      BY <2>5, <2>6, <2>9
    <3>2. k \in Nat \ {0} /\ i \in Nat \ {0}
      BY <1>7
    <3>3. p[k] \in Seq(Letters) /\ Len(p[k]) \in Nat \ {0} /\ s[i] = p[k][1]
      BY <1>8, <1>10, <1>14
    <3>4. k = 1 => i = 1 /\ R[i - 1] = <<>>
      BY <1>14
    <3>5. k # 1 => i > 1 /\ {s[i - 1], s[i]} = {"a", "A"} /\ R[i - 1] = [j \in 1..(k - 1) |-> p[j]]
      BY <2>8, <2>10, <3>1
    <3>6. WordsStart(p, k, R[i - 1], s, i)
      BY <3>2, <3>3, <3>4, <3>5, Zenon DEF WordsStart
    <3> QED BY <3>6, BeginsWord
  <2> QED BY <1>3, <1>12, <1>14, <2>11
<1>15. CASE h # 1
  <2>1. PICK g \in Nat \ {0} : h = g + 1 /\ g < Len(p[k])
    BY <1>3, <1>8, <1>15
  <2>2. i - 1 = a + g /\ a + g < i /\ i > 1 /\ a + g \in Nat
    BY <1>7, <2>1
  <2>3. R[i - 1] = ReadSoFar(p, k, g) /\ s[i - 1] = p[k][g]
    BY <1>5, <1>6, <1>8, <1>16, <2>1, <2>2
  <2>4. {s[i - 1], s[i]} # {"a", "A"}
    <3>1. g \in 1..Len(p[k]) /\ h \in 1..Len(p[k])
      BY <1>3, <1>8, <2>1
    <3>2. PICK letter \in {"a", "A"} : p[k][g] \in {letter, "-"} /\ p[k][h] \in {letter, "-"}
      BY <1>8, <3>1
    <3> QED BY <1>10, <2>3, <3>2
  <2>5. Further(ReadSoFar(p, k, g), s, i) = ReadSoFar(p, k, g + 1)
    <3>1. k \in Nat \ {0} /\ i \in Nat \ {0}
      BY <1>7
    <3>2. p[k] \in Seq(Letters) /\ s[i] = p[k][g + 1]
      BY <1>8, <1>10, <2>1
    <3>3. g \in Nat \ {0} /\ g < Len(p[k]) /\ i > 1
      BY <2>1, <2>2
    <3>4. GoesOn(p, k, s, i, g)
      BY <2>4, <3>1, <3>2, <3>3, Zenon DEF GoesOn
    <3> QED BY <3>4, GoesOnWord
  <2> QED BY <1>3, <1>12, <2>1, <2>3, <2>5
<1> QED BY <1>13, <1>14, <1>15

\* A name gives back its words, one by one.
LEMMA NameReads ==
  ASSUME NEW words \in Seq(NameWords), words # <<>>
  PROVE  /\ name_words(alternating_case(words)) = Cased(words)
         /\ is_plausible_name(alternating_case(words))
<1>1. PICK n \in Nat \ {0} : /\ n = Len(words)
                           /\ Cased(words) \in [1..n -> Pieces(Letters)] /\ Len(Cased(words)) = n
                           /\ \A k \in 1..n : Word(Cased(words)[k], k)
  BY CasedIs
<1>2. PICK p \in [1..n -> Pieces(Letters)] : p = Cased(words) /\ \A k \in 1..n : Word(p[k], k)
  BY <1>1
<1>3. PICK F : Joins(F, p, n) /\ FlattenSeq(p) = F[n]
  BY FlattenJoins
<1>4. alternating_case(words) = F[n]
  BY <1>2, <1>3 DEF alternating_case
<1>5. /\ F[n] \in Seq(Letters) /\ Len(F[n]) \in Nat /\ End(F, n) = Len(F[n]) /\ End(F, 0) = 0
      /\ \A j \in 1..n : /\ End(F, j) \in Nat /\ End(F, j - 1) \in Nat
                        /\ End(F, j) = End(F, j - 1) + Len(p[j]) /\ End(F, j) <= Len(F[n])
  BY <1>3, EndsAre, Zenon
<1>6. PICK R : /\ name_words(F[n]) = R[Len(F[n])] /\ R[0] = <<>>
               /\ \A i \in 1..Len(F[n]) : R[i] = Further(R[i - 1], F[n], i)
  BY <1>5, NameIsRead
<1>7. \A k \in 1..n, h \in Nat : 1 <= h /\ h <= Len(p[k]) => R[End(F, k - 1) + h] = ReadSoFar(p, k, h)
  BY <1>2, <1>3, <1>6, WordsAreRead
<1>8. \A k \in 1..n, h \in Nat : 1 <= h /\ h <= Len(p[k]) => F[n][End(F, k - 1) + h] = p[k][h]
  BY <1>3, CharsStay
<1>9. PICK l \in Nat \ {0} : /\ l = Len(p[n]) /\ Len(F[n]) = End(F, n - 1) + l /\ p[n] \in Seq(Letters)
                            /\ p[n][l] \in {"a", "A"}
  <2>1. n \in 1..n /\ p[n] \in Pieces(Letters) /\ Word(p[n], n)
    BY <1>2
  <2>2. p[n] \in Seq(Letters) /\ Len(p[n]) \in Nat \ {0} /\ p[n][Len(p[n])] \in {"a", "A"}
    BY <2>1, PieceIs DEF Word
  <2> QED BY <1>5, <2>1, <2>2
<1>10. name_words(F[n]) = ReadSoFar(p, n, l)
  BY <1>6, <1>7, <1>9
<1>11. ReadSoFar(p, n, l) = p
  <2>1. SubSeq(p[n], 1, l) = p[n]
    BY <1>9
  <2> QED BY <2>1 DEF ReadSoFar
<1>12. F[n][Len(F[n])] = p[n][l]
  BY <1>8, <1>9
<1>13. F[n][1] = "a"
  <2>1. 1 \in 1..n /\ 1 - 1 = 0 /\ End(F, 0) = 0 /\ 1 % 2 = 1
    BY DEF End
  <2>2. Word(p[1], 1) /\ p[1][1] = "a" /\ 1 <= Len(p[1])
    BY <1>2, <2>1 DEF Word
  <2> QED BY <1>8, <2>1, <2>2
<1>14. is_plausible_name(F[n])
  <2>1. F[n] # <<>>
    <3>3. Len(F[n]) # 0
      BY <1>5, <1>9
    <3> QED BY <3>3, EmptySeq
  <2> QED BY <1>9, <1>12, <1>13, <2>1 DEF is_plausible_name, Last
<1> QED BY <1>2, <1>4, <1>10, <1>11, <1>14

\* A sequence is its two halves.
Split(all, first, rest, h, c, V) ==
  /\ all \in [1..h + c -> V]
  /\ first \in [1..h -> V] /\ \A i \in 1..h : first[i] = all[i]
  /\ rest \in [1..c -> V] /\ \A i \in 1..c : rest[i] = all[h + i]

LEMMA SplitJoins ==
  ASSUME NEW V, NEW h \in Nat, NEW c \in Nat, NEW all, NEW first, NEW rest, Split(all, first, rest, h, c, V)
  PROVE  first \o rest = all
<1>0. /\ all \in [1..h + c -> V]
      /\ first \in [1..h -> V] /\ \A i \in 1..h : first[i] = all[i]
      /\ rest \in [1..c -> V] /\ \A i \in 1..c : rest[i] = all[h + i]
  BY DEF Split
<1>1. first \in Seq(V) /\ Len(first) = h /\ rest \in Seq(V) /\ Len(rest) = c /\ all \in Seq(V) /\ Len(all) = h + c
  BY <1>0
<1>2. /\ first \o rest \in Seq(V) /\ Len(first \o rest) = h + c
      /\ \A i \in 1..h + c : (first \o rest)[i] = IF i <= h THEN first[i] ELSE rest[i - h]
  BY <1>1, ConcatProperties
<1>3. ASSUME NEW i \in 1..h + c PROVE (first \o rest)[i] = all[i]
  <2>1. CASE i <= h
    BY <1>0, <1>2, <2>1
  <2>2. CASE ~ (i <= h)
    <3>1. i - h \in 1..c /\ h + (i - h) = i
      BY <2>2
    <3> QED BY <1>0, <1>2, <2>2, <3>1
  <2> QED BY <2>1, <2>2
<1> QED BY <1>1, <1>2, <1>3, SeqEqual

LEMMA HalvesAre ==
  ASSUME NEW n \in Nat \ {0}, NEW p, NEW chars, Len(p) = n, name_words(chars) = p
  PROVE  /\ Len(highlight_name(chars)[1]) \in {Len(highlight_name(chars)[2]), Len(highlight_name(chars)[2]) + 1}
         /\ highlight_name(chars)[1] \o highlight_name(chars)[2]
              = [k \in 1..n |-> [word |-> p[k], colour |-> (k - 1) % 2]]
<1>1. PICK h \in Nat, c \in Nat : h = (n + 1) \div 2 /\ n = h + c /\ n - h = c /\ (h = c \/ h = c + 1)
  <2>1. PICK h \in Nat : h = (n + 1) \div 2
    OBVIOUS
  <2>2. n - h \in Nat /\ n = h + (n - h) /\ (h = n - h \/ h = (n - h) + 1)
    BY <2>1
  <2> QED BY <2>1, <2>2
<1> DEFINE all   == [k \in 1..h + c |-> [word |-> p[k], colour |-> (k - 1) % 2]]
           first == [i \in 1..h |-> [word |-> p[i], colour |-> (i - 1) % 2]]
           rest  == [i \in 1..c |-> [word |-> p[h + i], colour |-> (h + i - 1) % 2]]
           V     == {all[k] : k \in 1..h + c}
<1>2. highlight_name(chars) = <<first, rest>>
  BY <1>1, Zenon DEF highlight_name
<1>3. (\A i \in 1..h : i \in 1..h + c) /\ \A i \in 1..c : h + i \in 1..h + c
  OBVIOUS
<1>4. (\A i \in 1..h : first[i] = all[i]) /\ \A i \in 1..c : rest[i] = all[h + i]
  <2>1. ASSUME NEW i \in 1..h PROVE first[i] = all[i]
    BY <1>3
  <2>2. ASSUME NEW i \in 1..c PROVE rest[i] = all[h + i]
    <3>1. PICK k \in 1..h + c : k = h + i
      BY <1>3
    <3>2. all[k] = [word |-> p[k], colour |-> (k - 1) % 2]
      BY <3>1
    <3>3. rest[i] = [word |-> p[k], colour |-> (k - 1) % 2]
      BY <3>1
    <3> HIDE DEF all, rest, first, V
    <3> QED BY <3>1, <3>2, <3>3
  <2> HIDE DEF all, rest, first
  <2> QED BY <2>1, <2>2, Zenon
<1>5. \A k \in 1..h + c : all[k] \in V
  OBVIOUS
<1>6. all \in [1..h + c -> V] /\ first \in [1..h -> V] /\ rest \in [1..c -> V]
  BY <1>3, <1>4, <1>5, Zenon
<1>7. Len(first) = h /\ Len(rest) = c
  OBVIOUS
<1> HIDE DEF V, first, rest
<1>8. first \o rest = all
  <2> HIDE DEF all
  <2>1. Split(all, first, rest, h, c, V)
    BY <1>4, <1>6, Zenon DEF Split
  <2>2. \A X, a, f, r : Split(a, f, r, h, c, X) => f \o r = a
    BY SplitJoins
  <2> QED BY <2>1, <2>2, Zenon
<1> QED BY <1>1, <1>2, <1>7, <1>8

LEMMA NamesReadBack ==
  ASSUME NEW words \in Seq(NameWords), words # <<>>
  PROVE  NameReadsBack(words)
<1>1. PICK n \in Nat \ {0} : /\ n = Len(words)
                           /\ Cased(words) \in [1..n -> Pieces(Letters)] /\ Len(Cased(words)) = n
  BY CasedIs
<1> DEFINE spelt  == alternating_case(words)
           halves == highlight_name(spelt)
           shown  == halves[1] \o halves[2]
<1>2. PICK p \in [1..n -> Pieces(Letters)] : p = Cased(words) /\ Len(p) = n /\ p = [k \in 1..n |-> p[k]]
  BY <1>1
<1>3. name_words(spelt) = p /\ is_plausible_name(spelt) /\ spelt = FlattenSeq(p)
  BY <1>2, NameReads DEF alternating_case
<1> HIDE DEF spelt
<1>4. /\ Len(halves[1]) \in {Len(halves[2]), Len(halves[2]) + 1}
      /\ shown = [k \in 1..n |-> [word |-> p[k], colour |-> (k - 1) % 2]]
  BY <1>2, <1>3, HalvesAre, Zenon
<1> HIDE DEF halves, shown
<1>5. DOMAIN shown = 1..n /\ Len(shown) = n /\ \A k \in 1..n : shown[k].word = p[k] /\ shown[k].colour = (k - 1) % 2
  BY <1>4
<1>6. [k \in DOMAIN shown |-> shown[k].word] = p
  BY <1>2, <1>5
<1>7. \A k \in 2..Len(shown) : shown[k].colour # shown[k - 1].colour
  <2>1. \A k \in 2..n : k \in 1..n /\ k - 1 \in 1..n /\ (k - 1) % 2 # ((k - 1) - 1) % 2
    OBVIOUS
  <2> QED BY <1>5, <2>1
<1> QED BY <1>2, <1>3, <1>4, <1>6, <1>7 DEF NameReadsBack, spelt, halves, shown

\* Whatever the link: what its title decides by are the words of its name.
LEMMA PagesAreBlind ==
  ASSUME NEW words \in Seq(NameWords), words # <<>>, NEW l \in LinksNamed(words)
  PROVE  TellsNothingEarly(l)
<1>0. Len(words) \in Nat /\ LIMITED_WORDS \in Nat
  BY NameWordsAssumption, LenProperties
<1>1. /\ l.kind \in {"redirect", "text"} /\ l.words = Len(words) /\ l.name = alternating_case(words)
      /\ l.once \in BOOLEAN /\ l.secret \in BOOLEAN /\ l.linkable \in BOOLEAN
      /\ l.once \/ l.secret => l.words >= LIMITED_WORDS
  BY DEF LinksNamed
<1>2. Len(name_words(l.name)) = l.words
  BY <1>1, CasedIs, NameReads
<1>3. link_title(l) = IF l.kind = "redirect" /\ l.words < LIMITED_WORDS THEN "domain" ELSE "kind"
  BY <1>2 DEF link_title
<1>4. CASE l.once
  BY <1>0, <1>1, <1>3, <1>4 DEF TellsNothingEarly, resolve, interstitial_page, blind_reveal_block, text_view_page,
     revealed_page, redirect_card, interstitial_head, card_image, card_content
<1>5. CASE ~ l.once
  BY <1>0, <1>1, <1>3, <1>5 DEF TellsNothingEarly, resolve, interstitial_page, blind_reveal_block, text_view_page,
     revealed_page, redirect_card, interstitial_head, card_image, card_content
<1> QED BY <1>4, <1>5

(***************************************************************************)
(* OneTimeIsBlind (LinkPage): a name of any words and of any number of     *)
(* them is read back as these words by the hero and the title; no title,   *)
(* tag, card or page names the domain of a one-time link before its use is *)
(* spent, no title that of a secret one, and no surface but the page tells *)
(* a text.  That a private name has LIMITED_WORDS words is PrivateStaysLong *)
(* (NameProofs).                                                           *)
(***************************************************************************)
THEOREM LinksAreBlind == PickSpec => []OneTimeIsBlind
<1> DEFINE Inv == picked \in Seq(NameWords)
<1>1. PickInit => Inv
  BY EmptySeq DEF PickInit
<1>2. Inv /\ [Pick]_picked => Inv'
  BY AppendProperties DEF Pick
<1>3. Inv => OneTimeIsBlind
  BY NamesReadBack, PagesAreBlind DEF OneTimeIsBlind
<1> QED BY <1>1, <1>2, <1>3, PTL DEF PickSpec
-----------------------------------------------------------------------------
(* When a link ends.                                                       *)

\* What Said puts together.
LEMMA Said_ ==
  ASSUME NEW n, NEW unit
  PROVE  Said(n, unit).n = n /\ Said(n, unit).unit = unit /\ Length(Said(n, unit)) = n * unit
BY SMT DEF Said, Length

\* What is told of the seconds left.
LEMMA ToldIs ==
  ASSUME NEW secs \in Int
  PROVE  /\ secs < 0 => humanize_expires_in(secs) = Said(0, 60)
         /\ secs >= 0 /\ secs < 3600 => humanize_expires_in(secs) = Said(secs \div 60, 60)
         /\ secs >= 3600 /\ secs < 86400 => humanize_expires_in(secs) = Said(secs \div 3600, 3600)
         /\ secs >= 86400 => humanize_expires_in(secs) = Said((secs + 43200) \div 86400, 86400)
BY SMT DEF humanize_expires_in

\* A ceiling of whole minutes is told exactly.
LEMMA CeilingIs ==
  ASSUME NEW secs \in Nat, secs % 60 = 0
  PROVE  /\ Length(humanize_duration(secs)) = secs
         /\ secs % 86400 = 0 => humanize_duration(secs) = Said(secs \div 86400, 86400)
<1>1. CASE secs % 86400 = 0
  <2>1. humanize_duration(secs) = Said(secs \div 86400, 86400)
    BY <1>1, SMT DEF humanize_duration
  <2>2. (secs \div 86400) * 86400 = secs
    BY <1>1, SMT
  <2> QED BY <2>1, <2>2, Said_, SMT
<1>2. CASE secs % 86400 # 0 /\ secs % 3600 = 0
  <2>1. humanize_duration(secs) = Said(secs \div 3600, 3600)
    BY <1>2, SMT DEF humanize_duration
  <2>2. (secs \div 3600) * 3600 = secs
    BY <1>2, SMT
  <2> QED BY <1>2, <2>1, <2>2, Said_, SMT
<1>3. CASE secs % 86400 # 0 /\ secs % 3600 # 0
  <2>1. humanize_duration(secs) = Said(secs \div 60, 60)
    BY <1>3, SMT DEF humanize_duration
  <2>2. (secs \div 60) * 60 = secs
    BY SMT
  <2> QED BY <1>3, <2>1, <2>2, Said_, SMT
<1> QED BY <1>1, <1>2, <1>3, SMT

\* What SpanIsTrue says of two tellings a second apart.
Tells(secs, n, unit, k, more) ==
  /\ n * unit <= k * more
  /\ secs < 0 => n * unit = 0
  /\ secs >= 0 /\ secs < 86400 => n * unit <= secs /\ secs < n * unit + unit
  /\ secs >= 86400 => n * unit - secs <= 43200 /\ secs - n * unit < 43200
  /\ secs < 0 \/ n < 60 \/ unit = 86400

LEMMA TellsTrue ==
  ASSUME NEW secs \in Int
  PROVE  \E n \in Int, unit \in Int, k \in Int, more \in Int :
           /\ humanize_expires_in(secs) = Said(n, unit) /\ humanize_expires_in(secs + 1) = Said(k, more)
           /\ Tells(secs, n, unit, k, more)
<1>1. PICK n \in Int, m \in Int, h \in Int, d \in Int :
        n = secs + 1 /\ m = secs \div 60 /\ h = secs \div 3600 /\ d = (secs + 43200) \div 86400
  BY SMT
<1>2. PICK k \in Int, g \in Int, e \in Int :
        k = n \div 60 /\ g = n \div 3600 /\ e = (n + 43200) \div 86400
  BY SMT
<1>3. /\ m * 60 <= secs /\ secs < m * 60 + 60 /\ k * 60 <= n /\ n < k * 60 + 60
      /\ h * 3600 <= secs /\ secs < h * 3600 + 3600 /\ g * 3600 <= n /\ n < g * 3600 + 3600
      /\ d * 86400 <= secs + 43200 /\ secs + 43200 < d * 86400 + 86400
      /\ e * 86400 <= n + 43200 /\ n + 43200 < e * 86400 + 86400
  BY <1>1, <1>2, SMT
<1>4. CASE secs < 0 - 1
  <2>1. humanize_expires_in(secs) = Said(0, 60) /\ humanize_expires_in(secs + 1) = Said(0, 60)
    BY <1>1, <1>2, <1>4, ToldIs, SMT
  <2>2. Tells(secs, 0, 60, 0, 60)
    BY <1>1, <1>3, <1>4, SMT DEF Tells
  <2>3. 0 \in Int /\ 60 \in Int /\ 0 \in Int /\ 60 \in Int
    BY SMT
  <2> QED BY <2>1, <2>2, <2>3, SMT
<1>5. CASE secs = 0 - 1
  <2>1. humanize_expires_in(secs) = Said(0, 60) /\ humanize_expires_in(secs + 1) = Said(k, 60)
    BY <1>1, <1>2, <1>5, ToldIs, SMT
  <2>2. Tells(secs, 0, 60, k, 60)
    BY <1>1, <1>3, <1>5, SMT DEF Tells
  <2>3. 0 \in Int /\ 60 \in Int /\ k \in Int /\ 60 \in Int
    BY SMT
  <2> QED BY <2>1, <2>2, <2>3, SMT
<1>6. CASE secs >= 0 /\ secs < 3599
  <2>1. humanize_expires_in(secs) = Said(m, 60) /\ humanize_expires_in(secs + 1) = Said(k, 60)
    BY <1>1, <1>2, <1>6, ToldIs, SMT
  <2>2. Tells(secs, m, 60, k, 60)
    BY <1>1, <1>3, <1>6, SMT DEF Tells
  <2>3. m \in Int /\ 60 \in Int /\ k \in Int /\ 60 \in Int
    BY SMT
  <2> QED BY <2>1, <2>2, <2>3, SMT
<1>7. CASE secs = 3599
  <2>1. humanize_expires_in(secs) = Said(m, 60) /\ humanize_expires_in(secs + 1) = Said(g, 3600)
    BY <1>1, <1>2, <1>7, ToldIs, SMT
  <2>2. Tells(secs, m, 60, g, 3600)
    BY <1>1, <1>3, <1>7, SMT DEF Tells
  <2>3. m \in Int /\ 60 \in Int /\ g \in Int /\ 3600 \in Int
    BY SMT
  <2> QED BY <2>1, <2>2, <2>3, SMT
<1>8. CASE secs >= 3600 /\ secs < 86399
  <2>1. humanize_expires_in(secs) = Said(h, 3600) /\ humanize_expires_in(secs + 1) = Said(g, 3600)
    BY <1>1, <1>2, <1>8, ToldIs, SMT
  <2>2. Tells(secs, h, 3600, g, 3600)
    BY <1>1, <1>3, <1>8, SMT DEF Tells
  <2>3. h \in Int /\ 3600 \in Int /\ g \in Int /\ 3600 \in Int
    BY SMT
  <2> QED BY <2>1, <2>2, <2>3, SMT
<1>9. CASE secs = 86399
  <2>1. humanize_expires_in(secs) = Said(h, 3600) /\ humanize_expires_in(secs + 1) = Said(e, 86400)
    BY <1>1, <1>2, <1>9, ToldIs, SMT
  <2>2. Tells(secs, h, 3600, e, 86400)
    BY <1>1, <1>3, <1>9, SMT DEF Tells
  <2>3. h \in Int /\ 3600 \in Int /\ e \in Int /\ 86400 \in Int
    BY SMT
  <2> QED BY <2>1, <2>2, <2>3, SMT
<1>10. CASE secs >= 86400
  <2>1. humanize_expires_in(secs) = Said(d, 86400) /\ humanize_expires_in(secs + 1) = Said(e, 86400)
    BY <1>1, <1>2, <1>10, ToldIs, SMT
  <2>2. Tells(secs, d, 86400, e, 86400)
    BY <1>1, <1>3, <1>10, SMT DEF Tells
  <2>3. d \in Int /\ 86400 \in Int /\ e \in Int /\ 86400 \in Int
    BY SMT
  <2> QED BY <2>1, <2>2, <2>3, SMT
<1> QED BY <1>4, <1>5, <1>6, <1>7, <1>8, <1>9, <1>10, SMT

LEMMA SpansAreTrue ==
  ASSUME NEW secs \in Int
  PROVE  SpanIsTrue(secs)
<1>1. PICK n \in Int, unit \in Int, k \in Int, more \in Int :
        /\ humanize_expires_in(secs) = Said(n, unit) /\ humanize_expires_in(secs + 1) = Said(k, more)
        /\ Tells(secs, n, unit, k, more)
  BY TellsTrue, Zenon
<1> DEFINE said == humanize_expires_in(secs)
<1>2. said.n = n /\ said.unit = unit /\ Length(said) = n * unit /\ Length(humanize_expires_in(secs + 1)) = k * more
  BY <1>1, Said_, SMT
<1>3. CeilingIsExact(secs)
  <2>1. SUFFICES ASSUME secs > 0, secs % 60 = 0
                 PROVE  /\ Length(humanize_duration(secs)) = secs
                        /\ secs % 86400 = 0 => said = humanize_duration(secs)
    BY SMT DEF CeilingIsExact
  <2>2. secs \in Nat
    BY <2>1, SMT
  <2>3. ASSUME secs % 86400 = 0 PROVE said = Said(secs \div 86400, 86400)
    <3>1. secs >= 86400
      BY <2>1, <2>3, SMT
    <3>2. (secs + 43200) \div 86400 = secs \div 86400
      BY <2>3, SMT
    <3> QED BY <3>1, <3>2, ToldIs, SMT
  <2> HIDE DEF said
  <2> QED BY <2>1, <2>2, <2>3, CeilingIs, SMT
<1> HIDE DEF said
<1>4. /\ Length(said) <= Length(humanize_expires_in(secs + 1))
      /\ secs < 0 => Length(said) = 0
      /\ 0 <= secs /\ secs < 86400 => Length(said) <= secs /\ secs < Length(said) + said.unit
      /\ secs >= 86400 => Length(said) - secs <= 43200 /\ secs - Length(said) < 43200
      /\ secs < 0 \/ said.n < 60 \/ said.unit = 86400
  BY <1>1, <1>2, SMT DEF Tells
<1>5. ToldTruly(secs, said)
  BY <1>4, SMT DEF ToldTruly
<1> QED BY <1>3, <1>5, SMT DEF SpanIsTrue, said

\* The days before a month, by the formula of parse_sqlite_utc.
Era(y) == (y \div 400) * 146097 + (y % 400) * 365 + (y % 400) \div 4 - (y % 400) \div 100
MarchYear(y, m) == IF m <= 2 THEN y - 1 ELSE y
MarchDay(m) == (153 * ((m + 9) % 12) + 2) \div 5
Before(y, m) == Era(MarchYear(y, m)) + MarchDay(m) - 719468

LEMMA EraGrows ==
  ASSUME NEW y \in Nat \ {0}
  PROVE  Era(y) = Era(y - 1) + (IF Leap(y) THEN 366 ELSE 365)
<1>1. PICK e \in Nat, r \in 0..399 : y = 400 * e + r /\ y \div 400 = e /\ y % 400 = r
  OBVIOUS
<1>2. Leap(y) <=> r % 4 = 0 /\ (r % 100 # 0 \/ r = 0)
  BY <1>1, SMT DEF Leap
<1>3. CASE r = 0
  <2>1. (y - 1) \div 400 = e - 1 /\ (y - 1) % 400 = 399
    BY <1>1, <1>3, SMT
  <2> QED BY <1>1, <1>2, <1>3, <2>1, SMT DEF Era
<1>4. CASE r # 0
  <2>1. (y - 1) \div 400 = e /\ (y - 1) % 400 = r - 1
    BY <1>1, <1>4, SMT
  <2>2. r \div 4 - r \div 100 - ((r - 1) \div 4 - (r - 1) \div 100) = IF r % 4 = 0 /\ r % 100 # 0 THEN 1 ELSE 0
    BY <1>4, SMT
  <2> QED BY <1>1, <1>2, <1>4, <2>1, <2>2, SMT DEF Era
<1> QED BY <1>3, <1>4, SMT

\* Days of the year, from March, before each month.
LEMMA MarchDays ==
  /\ MarchDay(1) = 306 /\ MarchDay(2) = 337 /\ MarchDay(3) = 0 /\ MarchDay(4) = 31
  /\ MarchDay(5) = 61 /\ MarchDay(6) = 92 /\ MarchDay(7) = 122 /\ MarchDay(8) = 153
  /\ MarchDay(9) = 184 /\ MarchDay(10) = 214 /\ MarchDay(11) = 245 /\ MarchDay(12) = 275
<1>1. MarchDay(1) = 306
  BY SMT DEF MarchDay
<1>2. MarchDay(2) = 337
  BY SMT DEF MarchDay
<1>3. MarchDay(3) = 0
  BY SMT DEF MarchDay
<1>4. MarchDay(4) = 31
  BY SMT DEF MarchDay
<1>5. MarchDay(5) = 61
  BY SMT DEF MarchDay
<1>6. MarchDay(6) = 92
  BY SMT DEF MarchDay
<1>7. MarchDay(7) = 122
  BY SMT DEF MarchDay
<1>8. MarchDay(8) = 153
  BY SMT DEF MarchDay
<1>9. MarchDay(9) = 184
  BY SMT DEF MarchDay
<1>10. MarchDay(10) = 214
  BY SMT DEF MarchDay
<1>11. MarchDay(11) = 245
  BY SMT DEF MarchDay
<1>12. MarchDay(12) = 275
  BY SMT DEF MarchDay
<1> QED BY <1>1, <1>2, <1>3, <1>4, <1>5, <1>6, <1>7, <1>8, <1>9, <1>10, <1>11, <1>12, SMT

\* A month starts as many days after the one before it as that one has.
LEMMA MonthAdds ==
  ASSUME NEW y \in Nat \ {0}, NEW m \in 1..12
  PROVE  Before(y, m) + MonthDays(y, m) = IF m = 12 THEN Before(y + 1, 1) ELSE Before(y, m + 1)
<1>1. Era(y) \in Int /\ Era(y - 1) \in Int
  BY SMT DEF Era
<1>2. Era(y) = Era(y - 1) + (IF Leap(y) THEN 366 ELSE 365)
  BY EraGrows, SMT
<1>3. /\ MarchYear(y, 1) = y - 1 /\ MarchYear(y, 2) = y - 1 /\ MarchYear(y + 1, 1) = y
      /\ \A k \in 3..12 : MarchYear(y, k) = y
  BY SMT DEF MarchYear
<1>4. PICK this \in Int, last \in Int : this = Era(y) /\ last = Era(y - 1)
  BY <1>1, Zenon
<1>5. CASE m = 1
  <2>1. Before(y, 1) = last + 306 - 719468 /\ Before(y, 2) = last + 337 - 719468
    BY <1>3, <1>4, MarchDays, SMT DEF Before
  <2>2. MonthDays(y, 1) = 31
    BY SMT DEF MonthDays
  <2> QED BY <1>2, <1>4, <1>5, <2>1, <2>2, SMT
<1>6. CASE m = 2
  <2>1. Before(y, 2) = last + 337 - 719468 /\ Before(y, 3) = this + 0 - 719468
    BY <1>3, <1>4, MarchDays, SMT DEF Before
  <2>2. MonthDays(y, 2) = (IF Leap(y) THEN 29 ELSE 28)
    BY SMT DEF MonthDays
  <2> QED BY <1>2, <1>4, <1>6, <2>1, <2>2, SMT
<1>7. CASE m = 3
  <2>1. Before(y, 3) = this + 0 - 719468 /\ Before(y, 4) = this + 31 - 719468
    BY <1>3, <1>4, MarchDays, SMT DEF Before
  <2>2. MonthDays(y, 3) = 31
    BY SMT DEF MonthDays
  <2> QED BY <1>2, <1>4, <1>7, <2>1, <2>2, SMT
<1>8. CASE m = 4
  <2>1. Before(y, 4) = this + 31 - 719468 /\ Before(y, 5) = this + 61 - 719468
    BY <1>3, <1>4, MarchDays, SMT DEF Before
  <2>2. MonthDays(y, 4) = 30
    BY SMT DEF MonthDays
  <2> QED BY <1>2, <1>4, <1>8, <2>1, <2>2, SMT
<1>9. CASE m = 5
  <2>1. Before(y, 5) = this + 61 - 719468 /\ Before(y, 6) = this + 92 - 719468
    BY <1>3, <1>4, MarchDays, SMT DEF Before
  <2>2. MonthDays(y, 5) = 31
    BY SMT DEF MonthDays
  <2> QED BY <1>2, <1>4, <1>9, <2>1, <2>2, SMT
<1>10. CASE m = 6
  <2>1. Before(y, 6) = this + 92 - 719468 /\ Before(y, 7) = this + 122 - 719468
    BY <1>3, <1>4, MarchDays, SMT DEF Before
  <2>2. MonthDays(y, 6) = 30
    BY SMT DEF MonthDays
  <2> QED BY <1>2, <1>4, <1>10, <2>1, <2>2, SMT
<1>11. CASE m = 7
  <2>1. Before(y, 7) = this + 122 - 719468 /\ Before(y, 8) = this + 153 - 719468
    BY <1>3, <1>4, MarchDays, SMT DEF Before
  <2>2. MonthDays(y, 7) = 31
    BY SMT DEF MonthDays
  <2> QED BY <1>2, <1>4, <1>11, <2>1, <2>2, SMT
<1>12. CASE m = 8
  <2>1. Before(y, 8) = this + 153 - 719468 /\ Before(y, 9) = this + 184 - 719468
    BY <1>3, <1>4, MarchDays, SMT DEF Before
  <2>2. MonthDays(y, 8) = 31
    BY SMT DEF MonthDays
  <2> QED BY <1>2, <1>4, <1>12, <2>1, <2>2, SMT
<1>13. CASE m = 9
  <2>1. Before(y, 9) = this + 184 - 719468 /\ Before(y, 10) = this + 214 - 719468
    BY <1>3, <1>4, MarchDays, SMT DEF Before
  <2>2. MonthDays(y, 9) = 30
    BY SMT DEF MonthDays
  <2> QED BY <1>2, <1>4, <1>13, <2>1, <2>2, SMT
<1>14. CASE m = 10
  <2>1. Before(y, 10) = this + 214 - 719468 /\ Before(y, 11) = this + 245 - 719468
    BY <1>3, <1>4, MarchDays, SMT DEF Before
  <2>2. MonthDays(y, 10) = 31
    BY SMT DEF MonthDays
  <2> QED BY <1>2, <1>4, <1>14, <2>1, <2>2, SMT
<1>15. CASE m = 11
  <2>1. Before(y, 11) = this + 245 - 719468 /\ Before(y, 12) = this + 275 - 719468
    BY <1>3, <1>4, MarchDays, SMT DEF Before
  <2>2. MonthDays(y, 11) = 30
    BY SMT DEF MonthDays
  <2> QED BY <1>2, <1>4, <1>15, <2>1, <2>2, SMT
<1>16. CASE m = 12
  <2>1. Before(y, 12) = this + 275 - 719468 /\ Before(y + 1, 1) = this + 306 - 719468
    BY <1>3, <1>4, MarchDays, SMT DEF Before
  <2>2. MonthDays(y, 12) = 31
    BY SMT DEF MonthDays
  <2> QED BY <1>2, <1>4, <1>16, <2>1, <2>2, SMT
<1> QED BY <1>5, <1>6, <1>7, <1>8, <1>9, <1>10, <1>11, <1>12, <1>13, <1>14, <1>15, <1>16, SMT

\* A date is read as the day it is counted to be, and a clock as its seconds.
LEMMA DatesCounted ==
  ASSUME NEW month, month.year \in Nat \ {0}, month.month \in 1..12,
         month.days = Before(month.year, month.month)
  PROVE  DatesAreRead(month)
<1> SUFFICES ASSUME NEW day \in 1..MonthDays(month.year, month.month),
                    NEW clock \in {<<0, 0, 0>>, <<23, 59, 59>>}
             PROVE  LET at == [year |-> month.year, month |-> month.month, day |-> day,
                               hour |-> clock[1], minute |-> clock[2], second |-> clock[3]]
                    IN  seconds_until(at, Instant(month.days + day - 1, 0)) = clock[1] * 3600 + clock[2] * 60 + clock[3]
  BY Zenon DEF DatesAreRead
<1> DEFINE at == [year |-> month.year, month |-> month.month, day |-> day,
                  hour |-> clock[1], minute |-> clock[2], second |-> clock[3]]
<1>1. PICK clocked \in Int : clocked = clock[1] * 3600 + clock[2] * 60 + clock[3]
  BY SMT
<1>2. day \in Int
  BY SMT DEF MonthDays
<1>3. PICK era \in Int, march \in Int :
        era = Era(MarchYear(month.year, month.month)) /\ march = MarchDay(month.month)
  BY SMT DEF Era, MarchYear, MarchDay
<1>4. month.days = era + march - 719468
  BY <1>3, SMT DEF Before
<1>5. parse_sqlite_utc(at) = Instant(era + march + day - 1 - 719468, clocked)
  <2>1. /\ at.year = month.year /\ at.month = month.month /\ at.day = day
        /\ at.hour * 3600 + at.minute * 60 + at.second = clocked
    BY <1>1, SMT
  <2> HIDE DEF at
  <2>2. PICK y \in Int : y = MarchYear(month.year, month.month)
    BY SMT DEF MarchYear
  <2>3. PICK e \in Int, yoe \in Int, q \in Int, c \in Int :
          e = y \div 400 /\ yoe = y % 400 /\ q = yoe \div 4 /\ c = yoe \div 100
    BY SMT
  <2>4. era = e * 146097 + yoe * 365 + q - c
    BY <1>3, <2>2, <2>3, SMT DEF Era
  <2>5. y = IF at.month <= 2 THEN at.year - 1 ELSE at.year
    BY <2>1, <2>2, SMT DEF MarchYear
  <2>6. march = (153 * ((at.month + 9) % 12) + 2) \div 5
    BY <1>3, <2>1, SMT DEF MarchDay
  <2>7. parse_sqlite_utc(at) = Instant(e * 146097 + (yoe * 365 + q - c + (march + day - 1)) - 719468, clocked)
    BY <2>1, <2>3, <2>5, <2>6, SMT DEF parse_sqlite_utc
  <2>8. e * 146097 + (yoe * 365 + q - c + (march + day - 1)) - 719468 = era + march + day - 1 - 719468
    BY <1>2, <1>3, <2>4, SMT
  <2> QED BY <2>7, <2>8, SMT
<1>6. seconds_until(at, Instant(month.days + day - 1, 0)) = clocked
  BY <1>1, <1>2, <1>4, <1>5, SMT DEF seconds_until, Instant
<1>7. seconds_until(at, Instant(month.days + day - 1, 0)) = clock[1] * 3600 + clock[2] * 60 + clock[3]
  BY <1>1, <1>6, SMT
<1> QED BY <1>7, SMT DEF at

\* What keeps the dates read: the days counted are those of the formula.
CalendarCounts ==
  /\ calendar = [year |-> calendar.year, month |-> calendar.month, days |-> calendar.days]
  /\ calendar.year \in Nat \ {0} /\ calendar.month \in 1..12
  /\ calendar.days = Before(calendar.year, calendar.month)
  /\ left \in Int

LEMMA CalendarStarts == TimeInit => CalendarCounts
<1> SUFFICES ASSUME TimeInit PROVE CalendarCounts
  OBVIOUS
<1>1. calendar.year = 1970 /\ calendar.month = 1 /\ calendar.days = 0 /\ left = 0
  BY SMT DEF TimeInit
<1>2. Era(1969) = 719162
  BY SMT DEF Era
<1>3. Before(1970, 1) = 0
  BY <1>2, MarchDays, SMT DEF Before, MarchYear
<1> QED BY <1>1, <1>3, SMT DEF CalendarCounts, TimeInit

LEMMA CalendarGoesOn == CalendarCounts /\ [NewMonth \/ Opened]_time_vars => CalendarCounts'
<1> SUFFICES ASSUME CalendarCounts, [NewMonth \/ Opened]_time_vars PROVE CalendarCounts'
  OBVIOUS
<1>1. CASE NewMonth
  <2> DEFINE y == calendar.year
             m == calendar.month
  <2>1. y \in Nat \ {0} /\ m \in 1..12 /\ calendar.days = Before(y, m) /\ left' = left /\ left \in Int
    BY <1>1, SMT DEF NewMonth, CalendarCounts
  <2>2. /\ calendar'.year = IF m = 12 THEN y + 1 ELSE y
        /\ calendar'.month = IF m = 12 THEN 1 ELSE m + 1
        /\ calendar'.days = calendar.days + MonthDays(y, m)
        /\ calendar' = [year |-> calendar'.year, month |-> calendar'.month, days |-> calendar'.days]
    BY <1>1, SMT DEF NewMonth
  <2> HIDE DEF y, m
  <2>3. calendar'.days = IF m = 12 THEN Before(y + 1, 1) ELSE Before(y, m + 1)
    BY <2>1, <2>2, MonthAdds, SMT
  <2>4. calendar'.days = Before(calendar'.year, calendar'.month)
    BY <2>2, <2>3, SMT
  <2>5. calendar'.year \in Nat \ {0} /\ calendar'.month \in 1..12
    BY <2>1, <2>2, SMT
  <2> QED BY <2>1, <2>2, <2>4, <2>5, SMT DEF CalendarCounts
<1>2. CASE Opened
  BY <1>2, SecondsAssumption, SMT DEF Opened, CalendarCounts
<1>3. CASE UNCHANGED time_vars
  BY <1>3, SMT DEF time_vars, CalendarCounts
<1> QED BY <1>1, <1>2, <1>3, SMT

(***************************************************************************)
(* Whatever the month, from 1970 on, and whatever is left of a link, the   *)
(* pages read its expiry as the instant it was written for, and tell the   *)
(* time left truly (views.rs).                                             *)
(***************************************************************************)
THEOREM TimesTold == TimeSpec => []TimesAreTrue
<1>1. CalendarCounts => TimesAreTrue
  BY DatesCounted, SpansAreTrue, Zenon DEF CalendarCounts, TimesAreTrue
<1> QED BY <1>1, CalendarStarts, CalendarGoesOn, PTL DEF TimeSpec

-----------------------------------------------------------------------------
(***************************************************************************)
(* The characters of a text, visited one after another.                    *)
(***************************************************************************)
Visited(h, t, n, r, words) ==
  h = [s \in SUBSET (1..n) |-> IF s = {} THEN Opening ELSE Visit(h[s \ {Max(s)}], t, Max(s), r, words)]

LEMMA MaxIs ==
  ASSUME NEW s \in SUBSET Nat, NEW m \in s, \A x \in s : x <= m
  PROVE  Max(s) = m
<1>1. \A x \in s : m >= x
  OBVIOUS
<1>2. Max(s) \in s /\ \A x \in s : Max(s) >= x
  BY <1>1 DEF Max
<1>3. Max(s) <= m /\ Max(s) >= m /\ Max(s) \in Nat
  BY <1>2
<1> QED BY <1>3

LEMMA VisitedExists ==
  ASSUME NEW t, NEW r, NEW words, NEW n \in Nat
  PROVE  \E h : Visited(h, t, n, r, words)
<1> DEFINE Bad == {m \in Nat : ~ \E h : Visited(h, t, m, r, words)}
<1> SUFFICES ASSUME Bad # {} PROVE FALSE
  OBVIOUS
<1>1. Bad \subseteq Nat
  OBVIOUS
<1>2. PICK m \in Bad : \A k \in Bad : m <= k
  BY <1>1, Least
<1>3. Visited([s \in SUBSET (1..0) |-> Opening], t, 0, r, words)
  <2>1. \A s \in SUBSET (1..0) : s = {}
    OBVIOUS
  <2> QED BY <2>1 DEF Visited
<1>4. m \in Nat \ {0} /\ ~ \E h : Visited(h, t, m, r, words)
  BY <1>3
<1>5. m - 1 \in Nat /\ m - 1 \notin Bad
  BY <1>2, <1>4
<1>6. PICK g : Visited(g, t, m - 1, r, words)
  BY <1>5
<1> DEFINE Turn(s) == Visit(g[s \ {Max(s)}], t, Max(s), r, words)
           h == [s \in SUBSET (1..m) |-> IF s = {} THEN Opening ELSE Turn(s)]
<1>7. \A s \in SUBSET (1..(m - 1)) : h[s] = g[s]
  <2>1. \A s \in SUBSET (1..(m - 1)) : s \in SUBSET (1..m)
    BY <1>4
  <2>2. \A s \in SUBSET (1..(m - 1)) : g[s] = IF s = {} THEN Opening ELSE Turn(s)
    BY <1>6 DEF Visited
  <2> QED BY <2>1, <2>2
<1>8. \A s \in SUBSET (1..m) : s # {} => s \ {Max(s)} \in SUBSET (1..(m - 1))
  <2> SUFFICES ASSUME NEW s \in SUBSET (1..m), s # {} PROVE s \ {Max(s)} \in SUBSET (1..(m - 1))
    OBVIOUS
  <2>0. s \in SUBSET (1..m) /\ s # {}
    OBVIOUS
  <2>1. PICK x \in s : \A y \in s : y <= x
    <3>1. s \subseteq 0..m /\ s # {}
      BY <1>4, <2>0
    <3> QED BY <1>4, <3>1, Greatest
  <2>2. Max(s) = x
    BY <2>1, MaxIs
  <2> QED BY <2>1, <2>2
<1>9. \A s \in SUBSET (1..m) : h[s] = IF s = {} THEN Opening ELSE Visit(h[s \ {Max(s)}], t, Max(s), r, words)
  BY <1>7, <1>8
<1>10. Visited(h, t, m, r, words)
  BY <1>9 DEF Visited
<1> QED BY <1>4, <1>10

\* So the page is what the visits of the text's places, in their order, leave.
LEMMA PageOfVisits ==
  ASSUME NEW A, NEW t \in Seq(A), NEW r, NEW words
  PROVE  \E F : /\ F[0] = Opening
                /\ \A k \in 1..Len(t) : F[k] = Visit(F[k - 1], t, k, r, words)
                /\ marked_text(t, r, words) = Closed(F[Len(t)], t)
<1>0. PICK n \in Nat : n = Len(t) /\ DOMAIN t = 1..n
  OBVIOUS
<1> DEFINE seq == [i \in DOMAIN t |-> i]
           Folds_(h) == h = [s \in SUBSET DOMAIN seq |->
                               IF s = {} THEN Opening
                               ELSE LET x == Max(s) IN Visit(h[s \ {x}], t, seq[x], r, words)]
           h == CHOOSE h : Folds_(h)
<1>1. \E g : Folds_(g)
  <2>1. PICK g : Visited(g, t, n, r, words)
    BY VisitedExists
  <2>2. \A s \in SUBSET (1..n) : s # {} => seq[Max(s)] = Max(s)
    <3> SUFFICES ASSUME NEW s \in SUBSET (1..n), s # {} PROVE Max(s) \in 1..n
      BY <1>0
    <3>1. PICK x \in s : \A y \in s : y <= x
      <4>1. s \subseteq 0..n /\ s # {}
        OBVIOUS
      <4> QED BY <4>1, Greatest
    <3> QED BY <3>1, MaxIs
  <2>3. Folds_(g)
    BY <1>0, <2>1, <2>2 DEF Visited
  <2> QED BY <2>3
<1>2. Folds_(h)
  BY <1>1
<1>3. marked_text(t, r, words) = Closed(h[DOMAIN seq], t)
  BY DEF marked_text, FoldLeftDomain, FoldLeft, MapThenFoldSet
<1> HIDE DEF h
<1> DEFINE F == [k \in 0..n |-> h[1..k]]
<1>4. F[0] = Opening
  <2>1. 1..0 = {} /\ {} \in SUBSET DOMAIN seq
    OBVIOUS
  <2> QED BY <1>2, <2>1
<1>5. \A k \in 1..n : F[k] = Visit(F[k - 1], t, k, r, words)
  <2> TAKE k \in 1..n
  <2> DEFINE s == 1..k
  <2>0. k \in Nat /\ 1 <= k /\ k <= n
    OBVIOUS
  <2>1. s \in SUBSET (1..n) /\ s # {} /\ s \in SUBSET Nat /\ k \in s
    <3>1. \A x \in s : x \in 1..n /\ x \in Nat
      BY <2>0
    <3>2. k \in s
      BY <2>0
    <3> HIDE DEF s
    <3> QED BY <3>1, <3>2
  <2>2. \A x \in s : x <= k
    BY <2>0
  <2>3. Max(s) = k
    BY <2>1, <2>2, MaxIs
  <2>4. s \ {k} = 1..(k - 1) /\ seq[k] = k /\ k - 1 \in 0..n /\ k \in 0..n
    BY <1>0, <2>1
  <2>5. h[s] = Visit(h[s \ {k}], t, k, r, words)
    BY <1>0, <1>2, <2>1, <2>3, <2>4
  <2> QED BY <2>1, <2>4, <2>5
<1>6. F[n] = h[DOMAIN seq]
  BY <1>0
<1> HIDE DEF F
<1>7. marked_text(t, r, words) = Closed(F[n], t)
  BY <1>3, <1>6
<1> QED BY <1>0, <1>4, <1>5, <1>7

(***************************************************************************)
(* What a piece reads back as, and pieces one after another.               *)
(***************************************************************************)
ReadBack(p) == Restored([p EXCEPT !.text = Parsed(@)])
Lost == {"cr", "nul"}

\* The pieces read back as the text `u`.
Reads(out, A, u) == /\ \E T : out \in Seq(T)
                    /\ \A k \in DOMAIN out : ReadBack(out[k]) \in Seq(A)
                    /\ Copied(out) = u

LEMMA CopiedIs ==
  ASSUME NEW T, NEW out \in Seq(T)
  PROVE  Copied(out) = FlattenSeq([k \in 1..Len(out) |-> ReadBack(out[k])])
<1> DEFINE html == [k \in DOMAIN out |-> [out[k] EXCEPT !.text = Parsed(@)]]
<1>1. DOMAIN out = 1..Len(out) /\ DOMAIN html = DOMAIN out
  OBVIOUS
<1>2. \A k \in DOMAIN html : html[k] = [out[k] EXCEPT !.text = Parsed(@)]
  OBVIOUS
<1>3. Copied(out) = FlattenSeq([k \in DOMAIN html |-> Restored(html[k])])
  BY DEF Copied, Spelling
<1> HIDE DEF html
<1>4. [k \in DOMAIN html |-> Restored(html[k])] = [k \in 1..Len(out) |-> ReadBack(out[k])]
  BY <1>1, <1>2 DEF ReadBack
<1> QED BY <1>3, <1>4

LEMMA NothingReads ==
  ASSUME NEW A
  PROVE  Reads(<<>>, A, <<>>)
<1>1. <<>> \in Seq({}) /\ Len(<<>>) = 0
  OBVIOUS
<1>2. Copied(<<>>) = FlattenSeq([k \in 1..0 |-> ReadBack(<<>>[k])])
  BY <1>1, CopiedIs
<1>3. [k \in 1..0 |-> ReadBack(<<>>[k])] = <<>>
  OBVIOUS
<1>4. FlattenSeq(<<>>) = <<>>
  BY <1>1 DEF FlattenSeq
<1> QED BY <1>1, <1>2, <1>3, <1>4 DEF Reads

LEMMA OneMoreReads ==
  ASSUME NEW A, NEW out, NEW u, Reads(out, A, u), NEW p, ReadBack(p) \in Seq(A)
  PROVE  Reads(out \o <<p>>, A, u \o ReadBack(p))
<1>1. PICK T : out \in Seq(T)
  BY DEF Reads
<1>2. PICK n \in Nat : n = Len(out) /\ DOMAIN out = 1..n
  BY <1>1
<1> DEFINE U == T \cup {p}
           q == [k \in 1..(n + 1) |-> ReadBack((out \o <<p>>)[k])]
<1>3. out \o <<p>> \in Seq(U) /\ Len(out \o <<p>>) = n + 1
  <2>1. out \in Seq(U) /\ <<p>> \in Seq(U)
    BY <1>1
  <2> QED BY <1>2, <2>1
<1>4. (\A k \in 1..n : (out \o <<p>>)[k] = out[k]) /\ (out \o <<p>>)[n + 1] = p
  BY <1>1, <1>2
<1>5. \A k \in 1..(n + 1) : ReadBack((out \o <<p>>)[k]) \in Seq(A)
  <2>1. \A k \in 1..n : ReadBack(out[k]) \in Seq(A)
    BY <1>2 DEF Reads
  <2>2. \A k \in 1..(n + 1) : k \in 1..n \/ k = n + 1
    OBVIOUS
  <2> QED BY <1>4, <2>1, <2>2
<1>6. q \in [1..(n + 1) -> Seq(A)]
  BY <1>5
<1>7. FlattenSeq(q) = FlattenSeq([k \in 1..n |-> q[k]]) \o q[n + 1]
  BY <1>6, JoinsOne
<1>8. [k \in 1..n |-> q[k]] = [k \in 1..n |-> ReadBack(out[k])] /\ q[n + 1] = ReadBack(p)
  <2> DEFINE r == out \o <<p>>
  <2>1. \A k \in 1..(n + 1) : q[k] = ReadBack(r[k])
    OBVIOUS
  <2>2. (\A k \in 1..n : r[k] = out[k]) /\ r[n + 1] = p
    BY <1>4
  <2> HIDE DEF q, r
  <2>3. \A k \in 1..n : q[k] = ReadBack(out[k])
    BY <2>1, <2>2
  <2>4. q[n + 1] = ReadBack(p)
    BY <2>1, <2>2
  <2> QED BY <2>3, <2>4
<1>9. Copied(out) = FlattenSeq([k \in 1..n |-> ReadBack(out[k])]) /\ Copied(out) = u
  BY <1>1, <1>2, CopiedIs DEF Reads
<1>10. Copied(out \o <<p>>) = FlattenSeq(q)
  BY <1>3, CopiedIs
<1>11. Copied(out \o <<p>>) = u \o ReadBack(p)
  BY <1>7, <1>8, <1>9, <1>10
<1>12. DOMAIN (out \o <<p>>) = 1..(n + 1)
  BY <1>3
<1> QED BY <1>3, <1>5, <1>11, <1>12 DEF Reads

\* A stretch without what a parser loses, and a carriage return alone, come back as they are.
Stretch(t, from, to) == /\ from \in 1..Len(t) /\ to \in (from + 1)..(Len(t) + 1)
                        /\ \/ \A j \in from..(to - 1) : t[j] \notin Lost
                           \/ to = from + 1 /\ t[from] = "cr"

LEMMA StretchIs ==
  ASSUME NEW A, NEW t \in Seq(A), NEW from, NEW to, Stretch(t, from, to)
  PROVE  /\ SubSeq(t, from, to - 1) \in Seq(A)
         /\ SubSeq(t, 1, from - 1) \o SubSeq(t, from, to - 1) = SubSeq(t, 1, to - 1)
         /\ Parsed(SubSeq(t, from, to - 1)) = SubSeq(t, from, to - 1)
<1>1. PICK n \in Nat : n = Len(t) /\ DOMAIN t = 1..n /\ \A j \in 1..n : t[j] \in A
  OBVIOUS
<1>2. from \in 1..n /\ to \in (from + 1)..(n + 1)
  BY <1>1 DEF Stretch
<1> DEFINE m == to - from
           u == SubSeq(t, from, to - 1)
<1>3. m \in Nat /\ u \in Seq(A) /\ Len(u) = m /\ \A j \in 1..m : u[j] = t[from + j - 1]
  BY <1>1, <1>2
<1>4. SubSeq(t, 1, from - 1) \o u = SubSeq(t, 1, to - 1)
  <2>1. from - 1 \in (1 - 1)..Len(t) /\ to - 1 \in (from - 1)..Len(t) /\ 1 \in 1..(Len(t) + 1) /\ (from - 1) + 1 = from
    BY <1>1, <1>2
  <2>2. SubSeq(t, 1, from - 1) \o SubSeq(t, (from - 1) + 1, to - 1) = SubSeq(t, 1, to - 1)
    BY <2>1, ConcatAdjacentSubSeq
  <2> QED BY <2>1, <2>2
<1>5. Parsed(u) = u
  <2>1. CASE to = from + 1 /\ t[from] = "cr"
    <3>1. m = 1 /\ u[1] = "cr"
      BY <1>2, <1>3, <2>1
    <3> HIDE DEF u, m
    <3>2. u = <<"cr">>
      BY <1>3, <3>1
    <3> QED BY <3>2 DEF Parsed
  <2>2. CASE \A j \in from..(to - 1) : t[j] \notin Lost
    <3>1. \A j \in 1..m : u[j] # "cr" /\ u[j] # "nul"
      <4> TAKE j \in 1..m
      <4>1. from + j - 1 \in from..(to - 1)
        BY <1>2
      <4> QED BY <1>3, <2>2, <4>1 DEF Lost
    <3>2. DOMAIN u = 1..m
      BY <1>3
    <3> HIDE DEF u
    <3>3. [i \in DOMAIN u |-> CASE u[i] = "cr" -> "nl" [] u[i] = "nul" -> "fffd" [] OTHER -> u[i]]
          = [i \in 1..m |-> u[i]]
      BY <3>1, <3>2
    <3>4. u = [i \in 1..m |-> u[i]]
      BY <1>3, <3>2
    <3> QED BY <3>3, <3>4 DEF Parsed
  <2> QED BY <2>1, <2>2 DEF Stretch
<1> QED BY <1>3, <1>4, <1>5

LEMMA PieceReads ==
  ASSUME NEW A, NEW t \in Seq(A), NEW from, NEW to, Stretch(t, from, to), NEW dress, NEW tell
  PROVE  /\ ReadBack([dress |-> dress, text |-> SubSeq(t, from, to - 1)]) = SubSeq(t, from, to - 1)
         /\ ReadBack([dress |-> dress, text |-> SubSeq(t, from, to - 1), tell |-> tell]) = SubSeq(t, from, to - 1)
<1> DEFINE u == SubSeq(t, from, to - 1)
<1>1. Parsed(u) = u
  BY StretchIs
<1> HIDE DEF u
<1>2. ReadBack([dress |-> dress, text |-> u]) = u
  BY <1>1 DEF ReadBack, Restored
<1>3. ReadBack([dress |-> dress, text |-> u, tell |-> tell]) = u
  BY <1>1 DEF ReadBack, Restored
<1> QED BY <1>2, <1>3 DEF u

\* A mark is one piece; a NUL's is empty and names it.
LEMMA MarkReads ==
  ASSUME NEW A, NEW t \in Seq(A), NEW from \in 1..Len(t), NEW to \in Nat, NEW dress, NEW ids, NEW first,
         Stretch(t, from, to) \/ Unsent(t, from, to)
  PROVE  \E p : Labelled(dress, t, from, to, ids, first) = <<p>> /\ ReadBack(p) = SubSeq(t, from, to - 1)
<1> DEFINE u == SubSeq(t, from, to - 1)
           tell == LET red == SelectSeq(ids, LAMBDA id : id[1] = "u") IN IF red # <<>> THEN red[1] ELSE ids[1]
           nul == Unsent(t, from, to)
           p == [dress |-> dress, text |-> IF nul THEN <<>> ELSE u, inner |-> ids, tell |-> tell, label |-> first, cp |-> nul]
<1>1. Labelled(dress, t, from, to, ids, first) = <<p>>
  BY DEF Labelled
<1>2. CASE nul
  <2>1. to = from + 1 /\ t[from] = "nul" /\ from \in 1..Len(t)
    BY <1>2 DEF Unsent, Stretch
  <2>2. u \in Seq(A) /\ Len(u) = 1 /\ u[1] = "nul"
    BY <2>1
  <2> HIDE DEF tell, nul, u
  <2>3. DOMAIN p = {"dress", "text", "inner", "tell", "label", "cp"} /\ p.cp = nul
    OBVIOUS
  <2> HIDE DEF p
  <2>4. "cp" \in DOMAIN [p EXCEPT !.text = Parsed(@)] /\ [p EXCEPT !.text = Parsed(@)].cp
    BY <1>2, <2>3
  <2>5. ReadBack(p) = <<"nul">>
    BY <2>4 DEF ReadBack, Restored
  <2>6. u = <<"nul">>
    BY <2>2
  <2> QED BY <1>1, <2>5, <2>6 DEF u
<1>3. CASE ~ nul
  <2>1. Parsed(u) = u
    BY <1>3, StretchIs
  <2> HIDE DEF tell, nul, u
  <2>2. DOMAIN p = {"dress", "text", "inner", "tell", "label", "cp"} /\ p.cp = nul /\ p.text = u
    BY <1>3
  <2> HIDE DEF p
  <2>3. [p EXCEPT !.text = Parsed(@)].cp = nul /\ [p EXCEPT !.text = Parsed(@)].text = Parsed(p.text)
    BY <2>2
  <2>4. ReadBack(p) = u
    BY <1>3, <2>1, <2>2, <2>3 DEF ReadBack, Restored
  <2> QED BY <1>1, <2>4 DEF u
<1> QED BY <1>2, <1>3

\* What is pending is sent as it is.
Unlost(t, from, to) == \A j \in from..(to - 1) : t[j] \notin Lost

LEMMA RawReads ==
  ASSUME NEW A, NEW t \in Seq(A), NEW from \in 1..(Len(t) + 1), NEW to \in from..(Len(t) + 1), Unlost(t, from, to),
         NEW out, Reads(out, A, SubSeq(t, 1, from - 1))
  PROVE  Reads(out \o Raw(t, from, to), A, SubSeq(t, 1, to - 1))
<1>1. PICK n \in Nat : n = Len(t)
  OBVIOUS
<1>2. CASE from = to
  <2>1. Raw(t, from, to) = <<>>
    BY <1>2 DEF Raw
  <2>2. PICK T : out \in Seq(T)
    BY DEF Reads
  <2>3. out \o <<>> = out
    BY <2>2
  <2> QED BY <1>2, <2>1, <2>3
<1>3. CASE from < to
  <2>1. Stretch(t, from, to)
    <3>1. from \in 1..n /\ to \in (from + 1)..(n + 1)
      BY <1>1, <1>3
    <3> QED BY <1>1, <3>1 DEF Stretch, Unlost
  <2> DEFINE p == [dress |-> "none", text |-> SubSeq(t, from, to - 1)]
  <2>2. Raw(t, from, to) = <<p>>
    BY <1>3 DEF Raw
  <2>3. ReadBack(p) = SubSeq(t, from, to - 1)
    BY <2>1, PieceReads
  <2> HIDE DEF p
  <2>4. ReadBack(p) \in Seq(A)
    BY <2>1, <2>3, StretchIs
  <2>5. Reads(out \o <<p>>, A, SubSeq(t, 1, from - 1) \o ReadBack(p))
    BY <2>4, OneMoreReads
  <2> QED BY <2>1, <2>2, <2>3, <2>5, StretchIs
<1> QED BY <1>1, <1>2, <1>3

\* What is pending, and then a piece.
LEMMA EmitReads ==
  ASSUME NEW A, NEW t \in Seq(A), NEW from \in 1..(Len(t) + 1), NEW at \in from..Len(t), Unlost(t, from, at),
         NEW to \in (at + 1)..(Len(t) + 1),
         NEW out, Reads(out, A, SubSeq(t, 1, from - 1)), NEW p, ReadBack(p) = SubSeq(t, at, to - 1)
  PROVE  Reads(out \o Raw(t, from, at) \o <<p>>, A, SubSeq(t, 1, to - 1))
<1>1. PICK n \in Nat : n = Len(t)
  OBVIOUS
<1>2. at \in from..(n + 1) /\ at \in 1..n
  BY <1>1
<1>3. Reads(out \o Raw(t, from, at), A, SubSeq(t, 1, at - 1))
  BY <1>1, <1>2, RawReads
<1>4. ReadBack(p) \in Seq(A) /\ SubSeq(t, 1, at - 1) \o SubSeq(t, at, to - 1) = SubSeq(t, 1, to - 1)
  <2>1. SubSeq(t, at, to - 1) \in Seq(A)
    BY <1>1, <1>2
  <2>2. at - 1 \in (1 - 1)..Len(t) /\ to - 1 \in (at - 1)..Len(t) /\ 1 \in 1..(Len(t) + 1) /\ (at - 1) + 1 = at
    BY <1>1, <1>2
  <2>3. SubSeq(t, 1, at - 1) \o SubSeq(t, (at - 1) + 1, to - 1) = SubSeq(t, 1, to - 1)
    BY <2>2, ConcatAdjacentSubSeq
  <2> QED BY <2>1, <2>2, <2>3
<1>5. Reads((out \o Raw(t, from, at)) \o <<p>>, A, SubSeq(t, 1, at - 1) \o ReadBack(p))
  BY <1>3, <1>4, OneMoreReads
<1> QED BY <1>4, <1>5

(***************************************************************************)
(* Which characters are never pending: a NUL is marked, and a cluster has  *)
(* neither of the two.                                                     *)
(***************************************************************************)
LEMMA NulIsMarked ==
  ASSUME NEW t, NEW i, NEW r, t[i] = "nul"
  PROVE  text_mark(t, i, r) /\ ~ spelled(t, i, r)
<1>1. ~ in_emoji(t, i)
  BY DEF in_emoji
<1>2. ~ completes(Prev(t, i), t[i])
  BY DEF completes
<1> QED BY <1>1, <1>2 DEF text_mark, spelled, spells, Invisible

LEMMA ClusterHas ==
  ASSUME NEW A, NEW t \in Seq(A), NEW r, NEW g \in mark_clusters(t, r)
  PROVE  /\ g.from \in 1..Len(t) /\ g.to \in (g.from + 2)..(Len(t) + 1)
         /\ Unlost(t, g.from, g.to)
<1>1. PICK n \in Nat : n = Len(t) /\ DOMAIN t = 1..n
  OBVIOUS
<1>2. PICK i \in Starts(t) : g = [from |-> i, to |-> Min({j \in Starts(t) : j > i} \cup {Len(t) + 1})]
  BY DEF mark_clusters, Graphemes
<1> DEFINE U == {j \in Starts(t) : j > i} \cup {n + 1}
<1>3. i \in 1..n /\ g.from = i /\ g.to = Min(U)
  BY <1>1, <1>2 DEF Starts
<1>4. U \subseteq 1..(n + 1) /\ n + 1 \in U /\ \A u \in U : u > i
  BY <1>1, <1>3 DEF Starts
<1>5. PICK m \in U : \A u \in U : m <= u
  <2>1. U \subseteq Nat /\ U # {}
    BY <1>4
  <2> QED BY <2>1, Least
<1>6. g.to = m
  <2>1. Min(U) \in U /\ \A u \in U : Min(U) <= u
    BY <1>5 DEF Min
  <2>2. Min(U) <= m /\ m <= Min(U) /\ Min(U) \in Nat /\ m \in Nat
    BY <1>4, <1>5, <2>1
  <2> QED BY <1>3, <2>2
<1>7. m \in (i + 1)..(n + 1) /\ \A j \in (i + 1)..(m - 1) : j \notin Starts(t)
  <2>1. m \in 1..(n + 1) /\ m > i
    BY <1>4, <1>5
  <2>2. \A j \in (i + 1)..(m - 1) : j \notin U
    BY <1>3, <1>5, <2>1
  <2> QED BY <1>3, <2>1, <2>2
<1> HIDE DEF U
<1>8. \A j \in (i + 1)..(m - 1) : Holds(t, j)
  <2>1. \A j \in (i + 1)..(m - 1) : j \in 1..n
    BY <1>3, <1>7
  <2> QED BY <1>1, <1>7, <2>1 DEF Starts
<1> DEFINE marks == {k \in i..(m - 1) : text_mark(t, k, r)}
<1>9. marks # {} /\ Max(marks) < m - 1 /\ \A k \in i..(m - 1) : t[k] # "cr"
  BY <1>3, <1>6 DEF mark_clusters
<1>10. m >= i + 2
  <2>1. marks \subseteq 0..n
    BY <1>3, <1>7
  <2>2. PICK k \in marks : \A j \in marks : j <= k
    BY <1>9, <2>1, Greatest
  <2>3. Max(marks) = k
    BY <2>1, <2>2, MaxIs
  <2>4. k \in i..(m - 1) /\ k < m - 1
    BY <1>9, <2>2, <2>3
  <2> QED BY <1>3, <1>7, <2>4
<1> HIDE DEF marks
<1>11. \A j \in (i + 1)..(m - 1) : t[j] # "nul"
  <2> SUFFICES ASSUME NEW j \in (i + 1)..(m - 1), t[j] = "nul" PROVE FALSE
    OBVIOUS
  <2> QED BY <1>8 DEF Holds, Extend, Pictographic
<1>12. t[i] # "nul"
  <2> SUFFICES ASSUME t[i] = "nul" PROVE FALSE
    OBVIOUS
  <2>1. i + 1 \in (i + 1)..(m - 1) /\ (i + 1) - 1 = i
    BY <1>3, <1>7, <1>10
  <2>2. Holds(t, i + 1)
    BY <1>8, <2>1
  <2> DEFINE skip == {"vi", "zj", "tm", "st", "vs", "tag", "ct"}
             at == {j \in 1..((i + 1) - 1) : t[j] \notin skip}
  <2>3. Back(t, i + 1, skip) = "ka"
    BY <2>1, <2>2 DEF Holds, Control
  <2>4. at \in SUBSET Nat /\ i \in at /\ \A x \in at : x <= i
    BY <1>3, <2>1
  <2>5. Max(at) = i /\ at # {}
    BY <2>4, MaxIs
  <2>6. Back(t, i + 1, skip) = t[Max(at)]
    BY <2>5 DEF Back
  <2> QED BY <2>3, <2>5, <2>6
<1>13. \A j \in i..(m - 1) : t[j] \notin Lost
  <2>1. \A j \in i..(m - 1) : j = i \/ j \in (i + 1)..(m - 1)
    BY <1>3, <1>7
  <2> QED BY <1>9, <1>11, <1>12, <2>1 DEF Lost
<1> QED BY <1>1, <1>3, <1>6, <1>7, <1>10, <1>13 DEF Unlost

(***************************************************************************)
(* The invariant of the visits: what is out reads back as the text before  *)
(* `start`, and what is pending can be sent as it is.  Inside a cluster it *)
(* is pending up to the cluster's end.                                     *)
(***************************************************************************)
Stands(out, start, prev, run_end, skip, listed) ==
  [out |-> out, start |-> start, prev |-> prev, run_end |-> run_end, skip |-> skip, listed |-> listed]

LEMMA EmitStands ==
  ASSUME NEW out, NEW start, NEW prev, NEW run_end, NEW skip, NEW listed,
         NEW st, st = Stands(out, start, prev, run_end, skip, listed), NEW t, NEW upto, NEW piece, NEW next
  PROVE  Emit(st, t, upto, piece, next) = Stands(out \o Raw(t, start, upto) \o piece, next, prev, run_end, skip, listed)
<1>1. PICK o : o = out \o Raw(t, start, upto) \o piece
  OBVIOUS
<1>2. PICK s : s = [st EXCEPT !.out = o]
  OBVIOUS
<1>3. st.out = out /\ st.start = start /\ s = Stands(o, start, prev, run_end, skip, listed)
  BY <1>2 DEF Stands
<1>4. [s EXCEPT !.start = next] = Stands(o, next, prev, run_end, skip, listed)
  BY <1>3 DEF Stands
<1>5. Emit(st, t, upto, piece, next) = [st EXCEPT !.out = o, !.start = next]
  BY <1>1, <1>3 DEF Emit
<1>6. [st EXCEPT !.out = o, !.start = next] = [s EXCEPT !.start = next]
  BY <1>2
<1> QED BY <1>1, <1>4, <1>5, <1>6

Done(st, to) == [st EXCEPT !.skip = to, !.prev = 0, !.run_end = 0]

LEMMA DoneStands ==
  ASSUME NEW out, NEW start, NEW prev, NEW run_end, NEW skip, NEW listed,
         NEW st, st = Stands(out, start, prev, run_end, skip, listed), NEW to
  PROVE  Done(st, to) = Stands(out, start, 0, 0, to, listed)
<1>1. PICK s : s = [st EXCEPT !.skip = to]
  OBVIOUS
<1>2. PICK u : u = [s EXCEPT !.prev = 0]
  OBVIOUS
<1>3. s = Stands(out, start, prev, run_end, to, listed)
  BY <1>1 DEF Stands
<1>4. u = Stands(out, start, 0, run_end, to, listed)
  BY <1>2, <1>3 DEF Stands
<1>5. [u EXCEPT !.run_end = 0] = Stands(out, start, 0, 0, to, listed)
  BY <1>4 DEF Stands
<1>6. Done(st, to) = [u EXCEPT !.run_end = 0]
  BY <1>1, <1>2 DEF Done
<1> QED BY <1>5, <1>6

LEMMA ListingStands ==
  ASSUME NEW out, NEW start, NEW prev, NEW run_end, NEW skip, NEW listed,
         NEW st, st = Stands(out, start, prev, run_end, skip, listed), NEW t, NEW from, NEW to, NEW id
  PROVE  \E l : Listing(st, t, from, to, id) = Stands(out, start, prev, 0, skip, l)
<1>1. PICK l : l = Append(st.listed, [from |-> Dom(t, from), to |-> Dom(t, to), id |-> id])
  OBVIOUS
<1>2. PICK s : s = [st EXCEPT !.listed = l]
  OBVIOUS
<1>3. s = Stands(out, start, prev, run_end, skip, l)
  BY <1>2 DEF Stands
<1>4. [s EXCEPT !.run_end = 0] = Stands(out, start, prev, 0, skip, l)
  BY <1>3 DEF Stands
<1>5. Listing(st, t, from, to, id) = [st EXCEPT !.listed = l, !.run_end = 0]
  BY <1>1 DEF Listing
<1>6. [st EXCEPT !.listed = l, !.run_end = 0] = [s EXCEPT !.run_end = 0]
  BY <1>2
<1> QED BY <1>4, <1>5, <1>6

\* The loop's invariant before place `i`: what is written reads back as the text before `start`,
\* and what is not yet, up to `i` or the end of the cluster passed over, may travel raw.
Late(skip, i) == IF i <= skip THEN skip ELSE i

Unwritten(t, A, i, out, start, prev, skip) ==
  /\ skip \in 0..(Len(t) + 1) /\ start \in 1..Late(skip, i) /\ prev \in 0..(i - 1)
  /\ Unlost(t, start, Late(skip, i))
  /\ Reads(out, A, SubSeq(t, 1, start - 1))

Kept(st, t, A, i) == \E out, start, prev, run_end, skip, listed :
  st = Stands(out, start, prev, run_end, skip, listed) /\ Unwritten(t, A, i, out, start, prev, skip)

LEMMA OpeningKept ==
  ASSUME NEW A, NEW t \in Seq(A)
  PROVE  Kept(Opening, t, A, 1)
<1>1. Opening = Stands(<<>>, 1, 0, 0, 0, <<>>)
  BY DEF Opening, Stands
<1>2. SubSeq(t, 1, 1 - 1) = <<>>
  OBVIOUS
<1>3. Reads(<<>>, A, SubSeq(t, 1, 1 - 1))
  BY <1>2, NothingReads
<1>4. Late(0, 1) = 1
  BY DEF Late
<1>5. Unwritten(t, A, 1, <<>>, 1, 0, 0)
  BY <1>3, <1>4 DEF Unwritten, Unlost
<1> QED BY <1>1, <1>5 DEF Kept

LEMMA ClusterKept ==
  ASSUME NEW A, NEW t \in Seq(A), NEW i \in 1..Len(t), NEW r, NEW words, NEW g \in mark_clusters(t, r), g.from = i,
         NEW out, NEW start, NEW prev, NEW run_end, NEW skip, NEW listed, skip <= i,
         Unwritten(t, A, i, out, start, prev, skip)
  PROVE  Kept(Cluster(Stands(out, start, prev, run_end, skip, listed), t, g, r, words), t, A, i + 1)
<1>1. PICK n \in Nat : n = Len(t)
  OBVIOUS
<1>2. i \in 1..n /\ g.to \in (i + 2)..(n + 1) /\ Unlost(t, i, g.to)
  BY <1>1, ClusterHas
<1>3. PICK to \in (i + 2)..(n + 1) : to = g.to
  BY <1>2
<1>4. start \in 1..i /\ Unlost(t, start, i) /\ Reads(out, A, SubSeq(t, 1, start - 1))
  <2>1. skip \in 0..(n + 1)
    BY <1>1 DEF Unwritten
  <2>2. Late(skip, i) = i
    BY <1>2, <2>1 DEF Late
  <2> QED BY <2>2 DEF Unwritten
<1>5. Late(to, i + 1) = to
  BY <1>2, <1>3 DEF Late
<1>13. PICK st : st = Stands(out, start, prev, run_end, skip, listed)
  OBVIOUS
<1>14. PICK done : done = Done(st, to)
  OBVIOUS
<1>6. done = Stands(out, start, 0, 0, to, listed)
  BY <1>13, <1>14, DoneStands
<1>7. ASSUME NEW quiet, NEW span, NEW p, span = <<p>>, ReadBack(p) = SubSeq(t, i, to - 1)
      PROVE  Kept(VisitCluster(st, t, g, quiet, words, span), t, A, i + 1)
  <2>1. CASE quiet /\ words = "Listed"
    <3>1. VisitCluster(st, t, g, quiet, words, span) = Listing(done, t, g.from, g.to, span[1].tell)
      BY <1>3, <1>14, <2>1 DEF VisitCluster, Done
    <3>3. PICK l : Listing(done, t, g.from, g.to, span[1].tell) = Stands(out, start, 0, 0, to, l)
      BY <1>6, ListingStands
    <3>4. Unlost(t, start, to)
      <4>1. \A j \in start..(to - 1) : j \in start..(i - 1) \/ j \in i..(to - 1)
        BY <1>2, <1>3, <1>4
      <4> QED BY <1>2, <1>3, <1>4, <4>1 DEF Unlost
    <3>5. Unwritten(t, A, i + 1, out, start, 0, to)
      BY <1>1, <1>2, <1>3, <1>4, <1>5, <3>4 DEF Unwritten
    <3> QED BY <3>1, <3>3, <3>5 DEF Kept
  <2>2. CASE ~ (quiet /\ words = "Listed")
    <3>1. VisitCluster(st, t, g, quiet, words, span) = Emit(done, t, g.from, span, g.to)
      BY <1>3, <1>14, <2>2 DEF VisitCluster, Done
    <3>2. PICK o : o = out \o Raw(t, start, i) \o span
      OBVIOUS
    <3>3. Emit(done, t, g.from, span, g.to) = Stands(o, to, 0, 0, to, listed)
      BY <1>3, <1>6, <3>2, EmitStands
    <3>4. Reads(o, A, SubSeq(t, 1, to - 1))
      <4>1. start \in 1..(Len(t) + 1) /\ i \in start..Len(t) /\ to \in (i + 1)..(Len(t) + 1)
        BY <1>1, <1>2, <1>3, <1>4
      <4>2. Reads(out \o Raw(t, start, i) \o <<p>>, A, SubSeq(t, 1, to - 1))
        BY <1>4, <1>7, <4>1, EmitReads
      <4> QED BY <1>7, <3>2, <4>2
    <3>5. Unwritten(t, A, i + 1, o, to, 0, to)
      BY <1>1, <1>2, <1>3, <1>5, <3>4 DEF Unwritten, Unlost
    <3> QED BY <3>1, <3>3, <3>5 DEF Kept
  <2> QED BY <2>1, <2>2
<1>8. Stretch(t, i, to)
  BY <1>1, <1>2, <1>3 DEF Stretch, Unlost
<1>9. ASSUME NEW dress, NEW first
      PROVE  \E p : Span(dress, t, i, to, r, first) = <<p>> /\ ReadBack(p) = SubSeq(t, i, to - 1)
  <2>1. PICK ids : Span(dress, t, i, to, r, first) = Labelled(dress, t, i, to, ids, first)
    BY DEF Span
  <2>2. Stretch(t, i, to) \/ Unsent(t, i, to)
    BY <1>8
  <2>3. \E p : Labelled(dress, t, i, to, ids, first) = <<p>> /\ ReadBack(p) = SubSeq(t, i, to - 1)
    BY <1>3, <2>2, MarkReads
  <2> QED BY <2>1, <2>3
<1>10. PICK quiet : quiet = \A j \in g.from..(g.to - 1) : text_mark(t, j, r) => spelled(t, j, r)
  OBVIOUS
<1>11. PICK span, p : /\ span = Span(IF quiet THEN "cluster word" ELSE "cluster", t, g.from, g.to, r, TRUE)
                      /\ span = <<p>> /\ ReadBack(p) = SubSeq(t, i, to - 1)
  BY <1>3, <1>9
<1>12. Cluster(st, t, g, r, words) = VisitCluster(st, t, g, quiet, words, span)
  BY <1>10, <1>11 DEF Cluster
<1> QED BY <1>7, <1>11, <1>12, <1>13

\* One place, emitted with what is pending; the rest of the record is carried along.
LEMMA EmitKept ==
  ASSUME NEW A, NEW t \in Seq(A), NEW i \in 1..Len(t), NEW out, NEW start, NEW at \in start..i,
         start \in 1..i, Unlost(t, start, at), Reads(out, A, SubSeq(t, 1, start - 1)),
         NEW p, ReadBack(p) = SubSeq(t, at, (i + 1) - 1),
         NEW prev \in 0..i, NEW run_end, NEW skip \in 0..i, NEW listed
  PROVE  Kept(Stands(out \o Raw(t, start, at) \o <<p>>, i + 1, prev, run_end, skip, listed), t, A, i + 1)
<1>1. PICK n \in Nat : n = Len(t) /\ i \in 1..n
  OBVIOUS
<1>2. PICK o : o = out \o Raw(t, start, at) \o <<p>>
  OBVIOUS
<1>3. Reads(o, A, SubSeq(t, 1, (i + 1) - 1))
  <2>1. start \in 1..(Len(t) + 1) /\ at \in start..Len(t) /\ i + 1 \in (at + 1)..(Len(t) + 1)
    BY <1>1
  <2> QED BY <1>2, <2>1, EmitReads
<1>4. Late(skip, i + 1) = i + 1
  BY <1>1 DEF Late
<1>5. Unwritten(t, A, i + 1, o, i + 1, prev, skip)
  BY <1>1, <1>3, <1>4 DEF Unwritten, Unlost
<1> QED BY <1>2, <1>5 DEF Kept

\* Nothing is emitted, and the place is pending.
LEMMA PassKept ==
  ASSUME NEW A, NEW t \in Seq(A), NEW i \in 1..Len(t), NEW out, NEW start \in 1..i,
         Unlost(t, start, i), t[i] \notin Lost, Reads(out, A, SubSeq(t, 1, start - 1)),
         NEW run_end, NEW skip \in 0..i, NEW listed
  PROVE  Kept(Stands(out, start, i, run_end, skip, listed), t, A, i + 1)
<1>1. PICK n \in Nat : n = Len(t) /\ i \in 1..n
  OBVIOUS
<1>2. Late(skip, i + 1) = i + 1
  BY <1>1 DEF Late
<1>3. Unlost(t, start, i + 1)
  <2>1. \A j \in start..((i + 1) - 1) : j = i \/ j \in start..(i - 1)
    BY <1>1
  <2> QED BY <2>1 DEF Unlost
<1>4. Unwritten(t, A, i + 1, out, start, i, skip)
  BY <1>1, <1>2, <1>3 DEF Unwritten
<1> QED BY <1>4 DEF Kept

LEMMA VisitKept ==
  ASSUME NEW A, NEW t \in Seq(A), NEW i \in 1..Len(t), NEW r, NEW words, NEW state, Kept(state, t, A, i)
  PROVE  Kept(Visit(state, t, i, r, words), t, A, i + 1)
<1>1. PICK n \in Nat : n = Len(t) /\ i \in 1..n
  OBVIOUS
<1>2. PICK out, start, prev, run_end, skip, listed :
        state = Stands(out, start, prev, run_end, skip, listed) /\ Unwritten(t, A, i, out, start, prev, skip)
  BY DEF Kept
<1>3. skip \in 0..(n + 1) /\ prev \in 0..(i - 1) /\ Reads(out, A, SubSeq(t, 1, start - 1))
  BY <1>1, <1>2 DEF Unwritten
<1>4. state.out = out /\ state.start = start /\ state.prev = prev /\ state.run_end = run_end /\ state.skip = skip
  BY <1>2 DEF Stands
<1>5. PICK clusters : clusters = {g \in mark_clusters(t, r) : g.from = i}
  OBVIOUS
<1>6. Visit(state, t, i, r, words) = VisitAt(state, t, i, r, words, clusters)
  BY <1>5 DEF Visit
<1>7. CASE i < skip
  <2>1. Visit(state, t, i, r, words) = state
    BY <1>4, <1>6, <1>7 DEF VisitAt
  <2>2. Late(skip, i) = skip /\ Late(skip, i + 1) = skip
    BY <1>1, <1>3, <1>7 DEF Late
  <2>3. Unwritten(t, A, i + 1, out, start, prev, skip)
    BY <1>1, <1>2, <1>3, <2>2 DEF Unwritten
  <2> QED BY <1>2, <2>1, <2>3 DEF Kept
<1>8. CASE ~ (i < skip)
  <2>1. skip \in 0..i /\ start \in 1..i /\ Unlost(t, start, i)
    <3>1. Late(skip, i) = i /\ skip \in 0..i
      BY <1>1, <1>3, <1>8 DEF Late
    <3> QED BY <1>2, <3>1 DEF Unwritten
  <2>2. PICK seen : seen = [state EXCEPT !.prev = i]
    OBVIOUS
  <2>3. seen = Stands(out, start, i, run_end, skip, listed)
    BY <1>2, <2>2 DEF Stands
  <2>4. CASE clusters # {}
    <3>1. PICK g : g = CHOOSE c \in clusters : TRUE
      OBVIOUS
    <3>2. g \in mark_clusters(t, r) /\ g.from = i
      BY <1>5, <2>4, <3>1
    <3>3. Visit(state, t, i, r, words) = Cluster(state, t, g, r, words)
      BY <1>4, <1>6, <1>8, <2>4, <3>1 DEF VisitAt
    <3>4. skip <= i
      BY <1>1, <2>1
    <3>5. Kept(Cluster(Stands(out, start, prev, run_end, skip, listed), t, g, r, words), t, A, i + 1)
      BY <1>2, <3>2, <3>4, ClusterKept
    <3> QED BY <1>2, <3>3, <3>5
  <2>5. CASE clusters = {} /\ prev >= start /\ prev > 0 /\ completes(t[prev], t[i])
    <3> DEFINE p == [dress |-> "var", text |-> SubSeq(t, prev, i), tell |-> VariantId(t[prev], t[i])]
    <3>1. Visit(state, t, i, r, words) = [Emit(state, t, prev, <<p>>, i + 1) EXCEPT !.prev = 0]
      BY <1>4, <1>6, <1>8, <2>5 DEF VisitAt
    <3>2. Stretch(t, prev, i + 1)
      <4>1. prev \in 1..n /\ i + 1 \in (prev + 1)..(n + 1)
        BY <1>1, <1>3, <2>5
      <4>2. t[i] = "vs"
        BY <2>5 DEF completes
      <4>3. \A j \in prev..((i + 1) - 1) : j = i \/ j \in start..(i - 1)
        BY <1>1, <1>3, <2>1, <2>5
      <4> QED BY <1>1, <2>1, <4>1, <4>2, <4>3 DEF Stretch, Unlost, Lost
    <3>3. ReadBack(p) = SubSeq(t, prev, (i + 1) - 1)
      <4>1. (i + 1) - 1 = i
        BY <1>1
      <4>2. ReadBack([dress |-> "var", text |-> SubSeq(t, prev, (i + 1) - 1), tell |-> VariantId(t[prev], t[i])])
            = SubSeq(t, prev, (i + 1) - 1)
        BY <3>2, PieceReads
      <4> QED BY <4>1, <4>2
    <3> HIDE DEF p
    <3>4. PICK o : o = out \o Raw(t, start, prev) \o <<p>>
      OBVIOUS
    <3>5. PICK s : s = Emit(state, t, prev, <<p>>, i + 1)
      OBVIOUS
    <3>6. s = Stands(o, i + 1, prev, run_end, skip, listed)
      BY <1>2, <3>4, <3>5, EmitStands
    <3>7. [s EXCEPT !.prev = 0] = Stands(o, i + 1, 0, run_end, skip, listed)
      BY <3>6 DEF Stands
    <3>8. Kept(Stands(o, i + 1, 0, run_end, skip, listed), t, A, i + 1)
      <4>1. prev \in start..i /\ 0 \in 0..i /\ Unlost(t, start, prev)
        <5>1. prev \in start..i
          BY <1>1, <1>3, <2>1, <2>5
        <5> QED BY <1>1, <1>3, <2>1, <5>1 DEF Unlost
      <4> QED BY <1>3, <2>1, <3>3, <3>4, <4>1, EmitKept
    <3> QED BY <3>1, <3>5, <3>7, <3>8
  <2>6. ASSUME clusters = {}, ~ (prev >= start /\ prev > 0 /\ completes(t[prev], t[i]))
        PROVE  Kept(Visit(state, t, i, r, words), t, A, i + 1)
    <3> DEFINE word == spelled(t, i, r)
               marked == text_mark(t, i, r)
               span == Span(IF word THEN "word" ELSE "mark", t, i, i + 1, r, word \/ i # state.run_end)
    <3>1. Visit(state, t, i, r, words) =
            IF ~ marked THEN IF t[i] = "cr" THEN Emit(seen, t, i, Raw(t, i, i + 1), i + 1) ELSE seen
            ELSE IF word /\ words = "Listed" THEN Listing(seen, t, i, i + 1, Id(t, i, r))
            ELSE [Emit(seen, t, i, span, i + 1) EXCEPT !.run_end = IF word THEN 0 ELSE i + 1]
      BY <1>4, <1>6, <1>8, <2>2, <2>6 DEF VisitAt
    <3>2. t[i] = "nul" => marked /\ ~ word
      BY NulIsMarked
    <3>3. word => t[i] \notin Lost
      BY DEF spelled, spells, Lost
    <3>4. ASSUME t[i] # "nul" PROVE Stretch(t, i, i + 1)
      <4>1. \A j \in i..((i + 1) - 1) : j = i
        BY <1>1
      <4> QED BY <1>1, <3>4, <4>1 DEF Stretch, Lost
    <3>5. i \in start..i /\ i \in 0..i
      BY <1>1, <2>1
    <3>6. ASSUME NEW p, ReadBack(p) = SubSeq(t, i, (i + 1) - 1), NEW after
          PROVE  Kept(Stands(out \o Raw(t, start, i) \o <<p>>, i + 1, i, after, skip, listed), t, A, i + 1)
      BY <1>3, <2>1, <3>5, <3>6, EmitKept
    <3>7. CASE ~ marked /\ t[i] = "cr"
      <4> DEFINE p == [dress |-> "none", text |-> SubSeq(t, i, (i + 1) - 1)]
      <4>1. Raw(t, i, i + 1) = <<p>>
        <5>1. i < i + 1
          BY <1>1
        <5> HIDE DEF span, word, marked
        <5> QED BY <5>1, Zenon DEF Raw
      <4>2. ReadBack(p) = SubSeq(t, i, (i + 1) - 1)
        <5>1. Stretch(t, i, i + 1)
          BY <3>4, <3>7
        <5> QED BY <5>1, PieceReads
      <4> HIDE DEF p
      <4>3. Emit(seen, t, i, <<p>>, i + 1) = Stands(out \o Raw(t, start, i) \o <<p>>, i + 1, i, run_end, skip, listed)
        BY <2>3, EmitStands
      <4>4. Visit(state, t, i, r, words) = Emit(seen, t, i, <<p>>, i + 1)
        BY <3>1, <3>7, <4>1
      <4> QED BY <3>6, <4>2, <4>3, <4>4
    <3>8. CASE ~ marked /\ t[i] # "cr"
      <4>1. Visit(state, t, i, r, words) = seen
        BY <3>1, <3>8
      <4>2. t[i] \notin Lost
        BY <3>2, <3>8 DEF Lost
      <4>3. Kept(Stands(out, start, i, run_end, skip, listed), t, A, i + 1)
        BY <1>3, <2>1, <4>2, PassKept
      <4> QED BY <2>3, <4>1, <4>3
    <3>9. CASE marked /\ word /\ words = "Listed"
      <4>1. Visit(state, t, i, r, words) = Listing(seen, t, i, i + 1, Id(t, i, r))
        BY <3>1, <3>9
      <4>2. PICK l : Listing(seen, t, i, i + 1, Id(t, i, r)) = Stands(out, start, i, 0, skip, l)
        BY <2>3, ListingStands
      <4>3. t[i] \notin Lost
        BY <3>3, <3>9
      <4>4. Kept(Stands(out, start, i, 0, skip, l), t, A, i + 1)
        BY <1>3, <2>1, <4>3, PassKept
      <4> QED BY <4>1, <4>2, <4>4
    <3>10. CASE marked /\ ~ (word /\ words = "Listed")
      <4>1. PICK after : after = IF word THEN 0 ELSE i + 1
        OBVIOUS
      <4>2. PICK dress, first : dress = (IF word THEN "word" ELSE "mark") /\ first = (word \/ i # state.run_end)
        OBVIOUS
      <4>3. PICK ids : Span(dress, t, i, i + 1, r, first) = Labelled(dress, t, i, i + 1, ids, first)
        BY DEF Span
      <4>4. PICK p : Labelled(dress, t, i, i + 1, ids, first) = <<p>> /\ ReadBack(p) = SubSeq(t, i, (i + 1) - 1)
        <5>1. Stretch(t, i, i + 1) \/ Unsent(t, i, i + 1)
          BY <3>4 DEF Unsent
        <5>2. i + 1 \in Nat
          BY <1>1
        <5> QED BY <5>1, <5>2, MarkReads
      <4>5. span = <<p>>
        BY <4>2, <4>3, <4>4
      <4> HIDE DEF span, word, marked
      <4>6. PICK s : s = Emit(seen, t, i, <<p>>, i + 1)
        OBVIOUS
      <4>10. PICK o : o = out \o Raw(t, start, i) \o <<p>>
        OBVIOUS
      <4>7. s = Stands(o, i + 1, i, run_end, skip, listed)
        BY <2>3, <4>6, <4>10, EmitStands
      <4>8. [s EXCEPT !.run_end = after] = Stands(o, i + 1, i, after, skip, listed)
        BY <4>7 DEF Stands
      <4>9. Visit(state, t, i, r, words) = [s EXCEPT !.run_end = after]
        BY <3>1, <3>10, <4>1, <4>5, <4>6
      <4>11. Kept(Stands(o, i + 1, i, after, skip, listed), t, A, i + 1)
        BY <3>6, <4>4, <4>10
      <4> QED BY <4>8, <4>9, <4>11
    <3> QED BY <3>7, <3>8, <3>9, <3>10
  <2> QED BY <2>4, <2>5, <2>6
<1> QED BY <1>7, <1>8

(***************************************************************************)
(* A copy of a marked page is the text that is stored, whatever it holds   *)
(* and however it is read (marked_text): no character is lost, doubled or  *)
(* moved, a NUL comes back from its mark, and a carriage return never      *)
(* goes out raw, where a parser would make a line feed of it.              *)
(***************************************************************************)
THEOREM CopyIsStored ==
  ASSUME NEW A, NEW t \in Seq(A), NEW r, NEW words
  PROVE  Copied(marked_text(t, r, words).html) = t
<1>1. PICK n \in Nat : n = Len(t) /\ DOMAIN t = 1..n
  OBVIOUS
<1>2. PICK F : /\ F[0] = Opening
               /\ \A k \in 1..Len(t) : F[k] = Visit(F[k - 1], t, k, r, words)
               /\ marked_text(t, r, words) = Closed(F[Len(t)], t)
  BY PageOfVisits
<1>3. \A k \in 0..n : Kept(F[k], t, A, k + 1)
  <2> DEFINE Off == {k \in 0..n : ~ Kept(F[k], t, A, k + 1)}
  <2> SUFFICES ASSUME Off # {} PROVE FALSE
    OBVIOUS
  <2>1. Off \subseteq Nat
    OBVIOUS
  <2>2. PICK k \in Off : \A j \in Off : k <= j
    BY <2>1, Least
  <2>3. k \in 0..n /\ ~ Kept(F[k], t, A, k + 1)
    OBVIOUS
  <2>4. 0 + 1 = 1 /\ Kept(F[0], t, A, 1)
    BY <1>2, OpeningKept
  <2>5. k # 0
    BY <2>3, <2>4
  <2>6. k - 1 \in 0..n /\ k \in 1..n /\ (k - 1) + 1 = k /\ k - 1 \notin Off
    BY <2>2, <2>3, <2>5
  <2>7. Kept(F[k - 1], t, A, k)
    BY <2>6
  <2> HIDE DEF Off
  <2>8. Kept(Visit(F[k - 1], t, k, r, words), t, A, k + 1)
    BY <1>1, <2>6, <2>7, VisitKept
  <2> QED BY <1>1, <1>2, <2>3, <2>6, <2>8
<1>4. Kept(F[n], t, A, n + 1)
  BY <1>3
<1>5. PICK out, start, prev, run_end, skip, listed :
        F[n] = Stands(out, start, prev, run_end, skip, listed) /\ Unwritten(t, A, n + 1, out, start, prev, skip)
  BY <1>4 DEF Kept
<1>6. start \in 1..(n + 1) /\ Unlost(t, start, n + 1) /\ Reads(out, A, SubSeq(t, 1, start - 1))
  <2>1. Late(skip, n + 1) = n + 1
    BY <1>1, <1>5 DEF Unwritten, Late
  <2> QED BY <1>5, <2>1 DEF Unwritten
<1>7. Reads(out \o Raw(t, start, n + 1), A, SubSeq(t, 1, (n + 1) - 1))
  <2>1. start \in 1..(Len(t) + 1) /\ n + 1 \in start..(Len(t) + 1)
    BY <1>1, <1>6
  <2> QED BY <1>6, <2>1, RawReads
<1>8. marked_text(t, r, words).html = out \o Raw(t, start, n + 1)
  <2>1. F[n].out = out /\ F[n].start = start
    BY <1>5 DEF Stands
  <2> QED BY <1>1, <1>2, <2>1 DEF Closed
<1>9. SubSeq(t, 1, (n + 1) - 1) = t
  BY <1>1, SubSeqFull
<1> QED BY <1>7, <1>8, <1>9 DEF Reads

-----------------------------------------------------------------------------
(***************************************************************************)
(* The faces.                                                              *)
(***************************************************************************)
LEMMA MinOf ==
  ASSUME NEW s \in SUBSET Nat, s # {}
  PROVE  Min(s) \in s
<1>1. \E x \in s : \A y \in s : x <= y
  BY Least
<1> QED BY <1>1 DEF Min

LEMMA MaxOf ==
  ASSUME NEW n \in Nat, NEW s \in SUBSET (1..n), s # {}
  PROVE  Max(s) \in s /\ \A y \in s : y <= Max(s)
<1>1. s \subseteq 0..n
  OBVIOUS
<1>2. \E x \in s : \A y \in s : y <= x
  BY <1>1, Greatest
<1>3. \E x \in s : \A y \in s : x >= y
  BY <1>2
<1> QED BY <1>3 DEF Max

\* The first face of several that covers a stretch, and that has a character.
LEMMA FirstCovers ==
  ASSUME NEW T, NEW faces \in Seq(T), NEW text, NEW group,
         NEW f, f = FirstCovering(faces, text, group)
  PROVE  \/ f = Lacking /\ \A k \in DOMAIN faces : ~ Covers(faces[k], text, group)
         \/ \E k \in DOMAIN faces : f = faces[k] /\ Covers(f, text, group)
<1> DEFINE at == {k \in 1..Len(faces) : Covers(faces[k], text, group)}
           n == IF at # {} THEN Min(at) ELSE 0
<1>1. f = IF n = 0 THEN Lacking ELSE faces[n]
  BY DEF FirstCovering, FirstOf, SelectInSeq
<1>2. DOMAIN faces = 1..Len(faces) /\ at \in SUBSET Nat
  OBVIOUS
<1>3. at # {} => n \in at
  BY <1>2, MinOf
<1>4. at # {} => n \in DOMAIN faces /\ n # 0 /\ Covers(faces[n], text, group)
  BY <1>2, <1>3
<1>5. at = {} => n = 0 /\ \A k \in DOMAIN faces : ~ Covers(faces[k], text, group)
  BY <1>2
<1> HIDE DEF n, at
<1> QED BY <1>1, <1>4, <1>5

LEMMA FirstHas ==
  ASSUME NEW T, NEW faces \in Seq(T), NEW c,
         NEW f, f = FirstHaving(faces, c)
  PROVE  \/ f = Lacking /\ \A k \in DOMAIN faces : ~ has(faces[k], c)
         \/ \E k \in DOMAIN faces : f = faces[k] /\ has(f, c)
<1> DEFINE at == {k \in 1..Len(faces) : has(faces[k], c)}
           n == IF at # {} THEN Min(at) ELSE 0
<1>1. f = IF n = 0 THEN Lacking ELSE faces[n]
  BY DEF FirstHaving, FirstOf, SelectInSeq
<1>2. DOMAIN faces = 1..Len(faces) /\ at \in SUBSET Nat
  OBVIOUS
<1>3. at # {} => n \in at
  BY <1>2, MinOf
<1>4. at # {} => n \in DOMAIN faces /\ n # 0 /\ has(faces[n], c)
  BY <1>2, <1>3
<1>5. at = {} => n = 0 /\ \A k \in DOMAIN faces : ~ has(faces[k], c)
  BY <1>2
<1> HIDE DEF n, at
<1> QED BY <1>1, <1>4, <1>5

\* The glyphs, face by face.
Cjks == {"cjk JP", "cjk SC"}
Faces == {"mono", "mono_wide", "noto_sans", "emoji", "Thai", "Lao"} \cup Cjks

LEMMA GlyphsAre ==
  /\ Glyphs("mono") = {"a", "jp", ".", "-", "...", "st", "ac"}
  /\ Glyphs("mono_wide") = {"a", "w", "jp", ".", "-", "...", "ac"}
  /\ Glyphs("noto_sans") = {"a", "w", "jp", ".", "-", "...", "ac"}
  /\ Glyphs("emoji") = {"em", "st"}
  /\ Glyphs("Thai") = {"th"} /\ Glyphs("Lao") = {"lo", "."}
  /\ \A f \in Cjks : Glyphs(f) = {"han", "ka", "a", "jp", ".", "..."}
BY DEF Glyphs, Cjks

LEMMA BundledAre == Bundled = {"mono", "mono_wide", "noto_sans", "emoji", "cjk SC", "Thai", "Lao"}
<1>1. ToSet(scripts) = {"Thai", "Lao"}
  BY DEF ToSet, scripts
<1>2. Cjk("SC") = "cjk SC"
  BY DEF Cjk
<1> QED BY <1>1, <1>2 DEF Bundled

Given == {"a", "w", "jp", "han", "ka", "th", "lo", "em", "st", "ac", "zj", ".", "-", "..."}

LEMMA HasFaceIs ==
  ASSUME NEW c
  PROVE  /\ HasFace(c) <=> c \in Given
         /\ \A f \in Faces : Drawn(f, c) => HasFace(c)
<1>1. HasFace(c) <=> c \in Given
  BY BundledAre, GlyphsAre DEF HasFace, has, Ignorable, Given, Cjks
<1>2. ASSUME NEW f \in Faces, Drawn(f, c) PROVE HasFace(c)
  BY <1>1, <1>2, GlyphsAre DEF Drawn, has, Faces, Given, Ignorable, Cjks
<1> QED BY <1>1, <1>2

LEMMA ScriptIs ==
  /\ \A c \in {"a", "w", "jp"} : script(c) = "Latin"
  /\ script("han") = "Han" /\ script("ka") = "Kana" /\ script("th") = "Thai" /\ script("lo") = "Lao"
  /\ \A c \in {"em", "st", ".", "-", "..."} : script(c) = "Common"
  /\ \A c \in {"ac", "zj"} : script(c) = "Inherited"
BY DEF script, Scripts

Own == {"Lgc", "Cjk", "Emoji", "Thai", "Lao"}
Of(k) == CASE k = "Lgc" -> {"a", "w", "jp"} [] k = "Cjk" -> {"han", "ka"} [] k = "Emoji" -> {"em"}
           [] k = "Thai" -> {"th"} [] OTHER -> {"lo"}

LEMMA KindIs ==
  ASSUME NEW c \in Given
  PROVE  \/ kind(c) \in Own /\ c \in Of(kind(c)) /\ kind(c) # Neutral
         \/ kind(c) = Neutral /\ (c \in Ignorable \/ has("mono", c))
<1>1. CASE c = "em"
  BY <1>1, GlyphsAre DEF kind, has, ExtendedPictographic, Own, Of, Neutral
<1>2. CASE c \in {"a", "w", "jp"}
  BY <1>2, ScriptIs DEF kind, ExtendedPictographic, Own, Of, Neutral
<1>3. CASE c \in {"han", "ka"}
  BY <1>3, ScriptIs DEF kind, ExtendedPictographic, Own, Of, Neutral
<1>4. CASE c \in {"th", "lo"}
  BY <1>4, ScriptIs DEF kind, ExtendedPictographic, Own, Of, Neutral
<1>5. CASE c \in {"st", "ac", "zj", ".", "-", "..."}
  <2>1. c # "em" /\ script(c) \in {"Common", "Inherited"} /\ (c = "st" => has("mono", c))
    BY <1>5, ScriptIs, GlyphsAre DEF has
  <2>2. kind(c) = Neutral
    BY <2>1 DEF kind, ExtendedPictographic
  <2>3. c \in Ignorable \/ has("mono", c)
    BY <1>5, GlyphsAre DEF has, Ignorable
  <2> QED BY <2>2, <2>3
<1> QED BY <1>1, <1>2, <1>3, <1>4, <1>5 DEF Given

\* A face of each kind draws all letters of it.
LEMMA CandidatesAre ==
  ASSUME NEW k, NEW region
  PROVE  /\ Candidates(k, region) \in Seq(Faces)
         /\ k \in Own => \E n \in DOMAIN Candidates(k, region) : \A c \in Of(k) : Drawn(Candidates(k, region)[n], c)
<1>1. Cjk(region) \in Cjks
  BY DEF Cjk, Cjks
<1>2. CASE k = "Lgc"
  <2> DEFINE s == <<"mono", "mono_wide">>
  <2>1. Candidates(k, region) = s
    BY <1>2 DEF Candidates
  <2>2. s \in Seq(Faces) /\ DOMAIN s = 1..2 /\ s[2] = "mono_wide"
    BY DEF Faces
  <2> HIDE DEF s
  <2>3. \A c \in Of(k) : Drawn("mono_wide", c)
    BY <1>2, GlyphsAre DEF Of, Drawn, has
  <2> QED BY <2>1, <2>2, <2>3
<1>3. CASE k = "Cjk"
  <2> DEFINE s == <<Cjk(region)>>
  <2>1. Candidates(k, region) = s
    BY <1>3 DEF Candidates
  <2>2. s \in Seq(Faces) /\ DOMAIN s = 1..1 /\ s[1] = Cjk(region)
    BY <1>1 DEF Faces
  <2> HIDE DEF s
  <2>3. \A c \in Of(k) : Drawn(Cjk(region), c)
    BY <1>1, <1>3, GlyphsAre DEF Of, Drawn, has
  <2> QED BY <2>1, <2>2, <2>3
<1>4. CASE k = "Emoji"
  <2> DEFINE s == <<"emoji">>
  <2>1. Candidates(k, region) = s
    BY <1>4 DEF Candidates
  <2>2. s \in Seq(Faces) /\ DOMAIN s = 1..1 /\ s[1] = "emoji"
    BY DEF Faces
  <2> HIDE DEF s
  <2>3. \A c \in Of(k) : Drawn("emoji", c)
    BY <1>4, GlyphsAre DEF Of, Drawn, has
  <2> QED BY <2>1, <2>2, <2>3
<1>5. CASE k \notin {"Lgc", "Cjk", "Emoji"}
  <2> DEFINE s == <<"Thai", "Lao">>
  <2>1. Candidates(k, region) = s
    BY <1>5 DEF Candidates, scripts
  <2>2. s \in Seq(Faces) /\ DOMAIN s = 1..2 /\ s[1] = "Thai" /\ s[2] = "Lao"
    BY DEF Faces
  <2> HIDE DEF s
  <2>3. k = "Thai" => \A c \in Of(k) : Drawn("Thai", c)
    BY GlyphsAre DEF Of, Drawn, has
  <2>4. k = "Lao" => \A c \in Of(k) : Drawn("Lao", c)
    BY GlyphsAre DEF Of, Drawn, has
  <2>5. k \in Own => k = "Thai" \/ k = "Lao"
    BY <1>5 DEF Own
  <2> QED BY <2>1, <2>2, <2>3, <2>4, <2>5
<1> QED BY <1>2, <1>3, <1>4, <1>5

\* Every place goes with a letter of the text, its own if it is one.
LEMMA ResolvedIs ==
  ASSUME NEW T, NEW text \in Seq(T), NEW i \in DOMAIN text
  PROVE  /\ DOMAIN Resolved(text) = DOMAIN text
         /\ kind(text[i]) # Neutral => Resolved(text)[i] = kind(text[i])
         /\ \/ Resolved(text)[i] = "Lgc"
            \/ \E j \in DOMAIN text : kind(text[j]) # Neutral /\ Resolved(text)[i] = kind(text[j])
<1>1. PICK n \in Nat : n = Len(text) /\ DOMAIN text = 1..n
  OBVIOUS
<1>2. PICK own : own = {j \in DOMAIN text : kind(text[j]) # Neutral}
  OBVIOUS
<1>3. PICK at : at = own \cap 1..i
  OBVIOUS
<1>4. /\ DOMAIN Resolved(text) = DOMAIN text
      /\ Resolved(text)[i] = IF own = {} THEN "Lgc" ELSE kind(text[IF at = {} THEN Min(own) ELSE Max(at)])
  BY <1>2, <1>3 DEF Resolved
<1>5. own \in SUBSET Nat /\ own \subseteq DOMAIN text /\ at \in SUBSET (1..n) /\ at \subseteq own
  BY <1>1, <1>2, <1>3
<1>6. own # {} => Min(own) \in own
  BY <1>5, MinOf
<1>7. at # {} => Max(at) \in at /\ \A y \in at : y <= Max(at)
  BY <1>5, MaxOf
<1>8. kind(text[i]) # Neutral => i \in at /\ own # {}
  BY <1>1, <1>2, <1>3
<1>9. \A y \in at : y \in Nat /\ y <= i
  BY <1>1, <1>3, <1>5
<1>10. kind(text[i]) # Neutral => Max(at) = i
  BY <1>1, <1>7, <1>8, <1>9
<1>11. kind(text[i]) # Neutral => Resolved(text)[i] = kind(text[i])
  BY <1>4, <1>8, <1>10
<1>12. own # {} => \E j \in own : Resolved(text)[i] = kind(text[j])
  BY <1>4, <1>5, <1>6, <1>7
<1> QED BY <1>2, <1>4, <1>11, <1>12

LEMMA GroupHas ==
  ASSUME NEW n \in Nat, NEW kinds, DOMAIN kinds = 1..n, NEW i \in 1..n
  PROVE  /\ i \in Group(kinds, i)
         /\ \A j \in Group(kinds, i) : j \in 1..n /\ kinds[j] = kinds[i] /\ Group(kinds, j) = Group(kinds, i)
<1>1. i \in Group(kinds, i)
  <2>1. \A k \in 1..n : (i <= k /\ k <= i) => k = i
    OBVIOUS
  <2> QED BY <2>1 DEF Group
<1>2. ASSUME NEW j \in Group(kinds, i) PROVE j \in 1..n /\ kinds[j] = kinds[i] /\ i \in Group(kinds, j)
  <2>1. j \in 1..n /\ \A k \in 1..n : (i <= k /\ k <= j) \/ (j <= k /\ k <= i) => kinds[k] = kinds[i]
    BY <1>2 DEF Group
  <2>2. kinds[j] = kinds[i]
    BY <2>1
  <2> QED BY <2>1, <2>2 DEF Group
<1>3. ASSUME NEW a \in 1..n, NEW b \in Group(kinds, a), NEW c \in Group(kinds, b) PROVE c \in Group(kinds, a)
  <2>1. b \in 1..n /\ c \in 1..n
    BY <1>3 DEF Group
  <2>2. \A k \in 1..n : (a <= k /\ k <= b) \/ (b <= k /\ k <= a) => kinds[k] = kinds[a]
    BY <1>3 DEF Group
  <2>3. \A k \in 1..n : (b <= k /\ k <= c) \/ (c <= k /\ k <= b) => kinds[k] = kinds[b]
    BY <1>3 DEF Group
  <2>4. kinds[b] = kinds[a]
    BY <2>1, <2>2
  <2>5. \A k \in 1..n : (a <= k /\ k <= c) \/ (c <= k /\ k <= a) => kinds[k] = kinds[a]
    BY <2>1, <2>2, <2>3, <2>4
  <2> QED BY <2>1, <2>5 DEF Group
<1>4. \A j \in Group(kinds, i) : j \in 1..n /\ i \in Group(kinds, j)
  BY <1>2
<1>5. \A j \in Group(kinds, i) : Group(kinds, j) = Group(kinds, i)
  BY <1>3, <1>4
<1> QED BY <1>1, <1>2, <1>5

(***************************************************************************)
(* A text with a face for each character, and one without.                 *)
(***************************************************************************)
LEMMA FaceFound ==
  ASSUME NEW T, NEW text \in Seq(T), \A i \in DOMAIN text : HasFace(text[i]), NEW i \in DOMAIN text
  PROVE  FaceAt(text, Resolved(text), i) \in Faces /\ Drawn(FaceAt(text, Resolved(text), i), text[i])
<1>1. PICK n \in Nat : n = Len(text) /\ DOMAIN text = 1..n
  OBVIOUS
<1>2. PICK kinds : kinds = Resolved(text)
  OBVIOUS
<1>3. \A j \in 1..n : text[j] \in Given
  BY <1>1, HasFaceIs
<1>4. DOMAIN kinds = 1..n /\ \A j \in 1..n : kind(text[j]) # Neutral => kinds[j] = kind(text[j])
  BY <1>1, <1>2, ResolvedIs
<1>5. kinds[i] \in Own
  <2>1. kinds[i] = "Lgc" \/ \E j \in 1..n : kind(text[j]) # Neutral /\ kinds[i] = kind(text[j])
    BY <1>1, <1>2, ResolvedIs
  <2> QED BY <1>3, <2>1, KindIs DEF Own
<1>6. PICK group : group = Group(kinds, i)
  OBVIOUS
<1>7. i \in group /\ \A j \in group : j \in 1..n /\ kinds[j] = kinds[i]
  BY <1>1, <1>4, <1>6, GroupHas
<1>8. PICK faces : faces = Candidates(kinds[i], RegionOf(text))
  OBVIOUS
<1>9. faces \in Seq(Faces) /\ \E k \in DOMAIN faces : \A c \in Of(kinds[i]) : Drawn(faces[k], c)
  BY <1>5, <1>8, CandidatesAre
<1>10. \E k \in DOMAIN faces : Covers(faces[k], text, group)
  <2>1. \A j \in group : kind(text[j]) = Neutral \/ text[j] \in Of(kinds[i])
    BY <1>3, <1>4, <1>7, KindIs
  <2> QED BY <1>9, <2>1 DEF Covers
<1>11. PICK f : f = FirstCovering(faces, text, group)
  OBVIOUS
<1>12. f \in Faces /\ Covers(f, text, group)
  <2>1. \/ f = Lacking /\ \A k \in DOMAIN faces : ~ Covers(faces[k], text, group)
        \/ \E k \in DOMAIN faces : f = faces[k] /\ Covers(f, text, group)
    BY <1>9, <1>11, FirstCovers
  <2>2. \A k \in DOMAIN faces : faces[k] \in Faces
    BY <1>9
  <2> QED BY <1>10, <2>1, <2>2
<1>13. FaceAt(text, kinds, i) = StepAside(text[i], kinds[i], f)
  BY <1>6, <1>8, <1>11 DEF FaceAt
<1>14. f # Lacking
  BY <1>12 DEF Faces, Cjks, Lacking
<1>15. CASE Drawn(f, text[i])
  BY <1>2, <1>12, <1>13, <1>15 DEF StepAside
<1>16. CASE ~ Drawn(f, text[i])
  <2>1. kind(text[i]) = Neutral
    BY <1>7, <1>12, <1>16 DEF Covers
  <2>2. has("mono", text[i])
    BY <1>1, <1>3, <1>16, <2>1, KindIs DEF Drawn
  <2>3. PICK beside : beside = Beside(kinds[i])
    OBVIOUS
  <2>4. beside = <<"mono">> \/ beside = <<"noto_sans", "mono">>
    BY <2>3 DEF Beside
  <2>5. beside \in Seq(Faces) /\ \E k \in DOMAIN beside : beside[k] = "mono"
    <3>1. <<"mono">> \in Seq(Faces) /\ 1 \in DOMAIN <<"mono">> /\ <<"mono">>[1] = "mono"
      BY DEF Faces
    <3>2. <<"noto_sans", "mono">> \in Seq(Faces) /\ 2 \in DOMAIN <<"noto_sans", "mono">> /\ <<"noto_sans", "mono">>[2] = "mono"
      BY DEF Faces
    <3> QED BY <2>4, <3>1, <3>2
  <2>6. PICK g : g = FirstHaving(beside, text[i])
    OBVIOUS
  <2>7. \/ g = Lacking /\ \A k \in DOMAIN beside : ~ has(beside[k], text[i])
        \/ \E k \in DOMAIN beside : g = beside[k] /\ has(g, text[i])
    BY <2>5, <2>6, FirstHas
  <2>8. g \in Faces /\ Drawn(g, text[i])
    BY <2>2, <2>5, <2>7 DEF Drawn
  <2>9. StepAside(text[i], kinds[i], f) = g
    BY <1>14, <1>16, <2>1, <2>3, <2>6 DEF StepAside
  <2> QED BY <1>2, <1>13, <2>8, <2>9
<1> QED BY <1>15, <1>16

\* What has a face is drawn with faces, and only that.
LEMMA RunsAre ==
  ASSUME NEW T, NEW text \in Seq(T), text # <<>>
  PROVE  /\ hero_runs(text) # <<>> <=> \A i \in DOMAIN text : HasFace(text[i])
         /\ hero_runs(text) # <<>> =>
              /\ hero_runs(text) = FacesOf(text, Resolved(text))
              /\ \A i \in DOMAIN text : hero_runs(text)[i] \in Faces /\ Drawn(hero_runs(text)[i], text[i])
<1>1. PICK n \in Nat \ {0} : n = Len(text) /\ DOMAIN text = 1..n
  <2>1. Len(text) # 0
    OBVIOUS
  <2> QED BY <2>1
<1>2. PICK faces : faces = FacesOf(text, Resolved(text))
  OBVIOUS
<1>3. DOMAIN faces = 1..n /\ \A i \in 1..n : faces[i] = FaceAt(text, Resolved(text), i)
  BY <1>1, <1>2 DEF FacesOf
<1>4. hero_runs(text) = IF \E i \in 1..n : faces[i] = Lacking THEN <<>> ELSE faces
  BY <1>2, <1>3 DEF hero_runs, Runs
<1>5. faces # <<>>
  <2>1. 1 \in DOMAIN faces /\ DOMAIN <<>> = {}
    BY <1>1, <1>3
  <2> QED BY <2>1
<1>6. Lacking \notin Faces
  BY DEF Lacking, Faces, Cjks
<1>7. CASE \A i \in DOMAIN text : HasFace(text[i])
  <2>1. \A i \in 1..n : faces[i] \in Faces /\ Drawn(faces[i], text[i])
    BY <1>1, <1>3, <1>7, FaceFound
  <2>2. hero_runs(text) = faces
    BY <1>4, <1>6, <2>1
  <2> QED BY <1>1, <1>2, <1>5, <1>7, <2>1, <2>2
<1>8. ASSUME NEW i \in 1..n, ~ HasFace(text[i]) PROVE faces[i] = Lacking
  <2>1. PICK f : f = FirstCovering(Candidates(Resolved(text)[i], RegionOf(text)), text, Group(Resolved(text), i))
    OBVIOUS
  <2>2. faces[i] = StepAside(text[i], Resolved(text)[i], f)
    BY <1>3, <2>1 DEF FaceAt
  <2>3. PICK all : all = Candidates(Resolved(text)[i], RegionOf(text)) /\ all \in Seq(Faces)
    BY CandidatesAre
  <2>4. f = Lacking \/ f \in Faces
    <3>1. f = Lacking \/ \E k \in DOMAIN all : f = all[k]
      BY <2>1, <2>3, FirstCovers
    <3> QED BY <2>3, <3>1
  <2>5. f \in Faces => ~ Drawn(f, text[i])
    BY <1>8, HasFaceIs
  <2>6. PICK beside : beside = Beside(Resolved(text)[i])
    OBVIOUS
  <2>7. beside \in Seq(Faces)
    <3>1. beside = <<"mono">> \/ beside = <<"noto_sans", "mono">>
      BY <2>6 DEF Beside
    <3>2. <<"mono">> \in Seq(Faces) /\ <<"noto_sans", "mono">> \in Seq(Faces)
      BY DEF Faces
    <3> QED BY <3>1, <3>2
  <2>8. PICK g : g = FirstHaving(beside, text[i])
    OBVIOUS
  <2>9. g = Lacking \/ (g \in Faces /\ has(g, text[i]))
    <3>1. g = Lacking \/ \E k \in DOMAIN beside : g = beside[k] /\ has(g, text[i])
      BY <2>7, <2>8, FirstHas
    <3> QED BY <2>7, <3>1
  <2>10. g = Lacking
    BY <1>8, <2>9, HasFaceIs DEF Drawn
  <2>11. StepAside(text[i], Resolved(text)[i], f) = Lacking
    BY <2>4, <2>5, <2>6, <2>8, <2>10 DEF StepAside
  <2> QED BY <2>2, <2>11
<1>9. CASE \E i \in DOMAIN text : ~ HasFace(text[i])
  BY <1>1, <1>4, <1>8, <1>9
<1> QED BY <1>7, <1>9

\* Letters of one kind side by side have one face.
LEMMA OneFace ==
  ASSUME NEW T, NEW text \in Seq(T), NEW faces, faces = FacesOf(text, Resolved(text)),
         \A i \in DOMAIN text : faces[i] \in Faces,
         NEW i \in DOMAIN text, NEW j \in DOMAIN text,
         kind(text[i]) = kind(text[j]), kind(text[i]) # Neutral, j \in Group(Resolved(text), i)
  PROVE  faces[i] = faces[j]
<1>1. PICK n \in Nat : n = Len(text) /\ DOMAIN text = 1..n
  OBVIOUS
<1>2. PICK kinds : kinds = Resolved(text) /\ DOMAIN kinds = 1..n
  BY <1>1, ResolvedIs
<1>3. kinds[j] = kinds[i] /\ Group(kinds, j) = Group(kinds, i)
  BY <1>1, <1>2, GroupHas
<1>4. PICK f : f = FirstCovering(Candidates(kinds[i], RegionOf(text)), text, Group(kinds, i))
  OBVIOUS
<1>5. f = FirstCovering(Candidates(kinds[j], RegionOf(text)), text, Group(kinds, j))
  BY <1>3, <1>4
<1>6. faces[i] = StepAside(text[i], kinds[i], f) /\ faces[j] = StepAside(text[j], kinds[j], f)
  BY <1>1, <1>2, <1>4, <1>5 DEF FacesOf, FaceAt
<1>7. Lacking \notin Faces
  BY DEF Lacking, Faces, Cjks
<1>8. \A c, k : kind(c) # Neutral => StepAside(c, k, f) = f \/ StepAside(c, k, f) = Lacking
  BY DEF StepAside
<1> QED BY <1>6, <1>7, <1>8

(***************************************************************************)
(* The size, and the loop that cuts.                                       *)
(***************************************************************************)
LEMMA WidthIs ==
  ASSUME NEW T, NEW text \in Seq(T), NEW faces
  PROVE  hero_width(text, faces) \in Nat
<1> DEFINE f == [i \in DOMAIN text |-> Advance(faces[i], text[i])]
<1>1. \A i \in DOMAIN text : f[i] \in Nat
  BY DEF Advance
<1>2. PICK n \in Nat : DOMAIN text = 1..n
  OBVIOUS
<1>3. IsFiniteSet(1..n)
  BY FS_Interval
<1>4. DOMAIN f = DOMAIN text
  OBVIOUS
<1> HIDE DEF f
<1>5. SumFunctionOnSet(f, DOMAIN text) \in Nat
  BY <1>1, <1>2, <1>3, SumTakes
<1>6. hero_width(text, faces) = SumFunctionOnSet(f, DOMAIN f)
  BY DEF hero_width, SumFunction, f
<1> QED BY <1>4, <1>5, <1>6

LEMMA CutIs ==
  ASSUME NEW T, NEW text \in Seq(T), NEW n \in 1..Len(text)
  PROVE  /\ Cut(text, n) \in Seq(T \cup {"..."})
         /\ Len(Cut(text, n)) = IF n = Len(text) THEN n ELSE n + 1
         /\ \A i \in 1..n : Cut(text, n)[i] = text[i]
         /\ n # Len(text) => Cut(text, n)[n + 1] = "..."
<1>1. CASE n = Len(text)
  <2>1. text \in Seq(T \cup {"..."})
    OBVIOUS
  <2> QED BY <1>1, <2>1 DEF Cut
<1>2. CASE n # Len(text)
  <2>1. PICK u : u = SubSeq(text, 1, n)
    OBVIOUS
  <2>2. u \in Seq(T \cup {"..."}) /\ Len(u) = n /\ \A i \in 1..n : u[i] = text[i]
    BY <2>1
  <2>3. Cut(text, n) = Append(u, "...")
    BY <1>2, <2>1 DEF Cut
  <2> QED BY <1>2, <2>2, <2>3
<1> QED BY <1>1, <1>2

LEMMA FitsIs ==
  ASSUME NEW width \in Nat, NEW blind \in BOOLEAN
  PROVE  /\ Fits(width, full_size(blind)) => FitsAtSize(width, MIN_SIZE)
         /\ ~ Fits(width, full_size(blind)) => width > 0 /\ (~ FitsAtSize(width, MIN_SIZE) \/ width \in Over)
         /\ FitsAtSize(width, MIN_SIZE) /\ width \notin Over => Fits(width, full_size(blind))
<1>1. full_size(blind) \in {72, 92} /\ AVAIL \in Nat
  BY CardAssumption DEF full_size
<1>2. FitsAtSize(width, full_size(blind)) => FitsAtSize(width, MIN_SIZE)
  BY <1>1 DEF FitsAtSize, MIN_SIZE
<1>3. ~ FitsAtSize(width, full_size(blind)) => width > 0
  BY <1>1 DEF FitsAtSize
<1>4. Fits(width, full_size(blind)) <=>
        \/ FitsAtSize(width, full_size(blind))
        \/ FitsAtSize(width, MIN_SIZE) /\ width \notin Over
  BY <1>2 DEF Fits, Size
<1> QED BY <1>2, <1>3, <1>4

Width(start, n, blind) == hero_width(Cut(start, n), FacesFor(Cut(start, n), blind))

\* The line at a length: drawn, or a shorter one to try.
LEMMA LineIs ==
  ASSUME NEW T, NEW start \in Seq(T), NEW n \in 1..Len(start), NEW blind \in BOOLEAN,
         FacesFor(Cut(start, n), blind) # <<>>
  PROVE  /\ Width(start, n, blind) \in Nat
         /\ \/ /\ Line(start, n, blind).next = 0 /\ Line(start, n, blind).drawn
               /\ Line(start, n, blind).text = Cut(start, n)
               /\ Line(start, n, blind).faces = FacesFor(Cut(start, n), blind)
               /\ Fits(Width(start, n, blind), full_size(blind)) \/ n <= 1
            \/ Line(start, n, blind).next \in 1..(n - 1) /\ ~ Fits(Width(start, n, blind), full_size(blind))
<1>1. PICK text, faces, width : text = Cut(start, n) /\ faces = FacesFor(text, blind) /\ width = hero_width(text, faces)
  OBVIOUS
<1>2. width = Width(start, n, blind) /\ faces # <<>>
  BY <1>1 DEF Width
<1>3. width \in Nat
  BY <1>1, CutIs, WidthIs
<1>4. PICK size, keep : size = Size(width, full_size(blind)) /\ keep = (n * AVAIL * 100) \div (width * MIN_SIZE)
  OBVIOUS
<1>5. PICK fits \in BOOLEAN : fits <=> Fits(width, full_size(blind))
  BY DEF Fits
<1>6. Line(start, n, blind) =
        IF Fits(width, full_size(blind)) \/ n <= 1
        THEN [next |-> 0, drawn |-> TRUE, text |-> text, faces |-> faces, size |-> size]
        ELSE [next |-> Max({Min({keep, n - 1}), 1})]
  BY <1>1, <1>2, <1>4 DEF Line, Fitted
<1>7. CASE fits \/ n <= 1
  <2>1. Line(start, n, blind) = [next |-> 0, drawn |-> TRUE, text |-> text, faces |-> faces, size |-> size]
    BY <1>5, <1>6, <1>7
  <2> QED BY <1>1, <1>2, <1>3, <1>5, <1>7, <2>1
<1>8. CASE ~ (fits \/ n <= 1)
  <2>1. PICK next : next = Max({Min({keep, n - 1}), 1})
    OBVIOUS
  <2>2. Line(start, n, blind) = [next |-> next]
    BY <1>5, <1>6, <1>8, <2>1
  <2>3. width * MIN_SIZE > 0 /\ width * MIN_SIZE \in Nat
    BY <1>3, <1>5, <1>8, FitsIs DEF MIN_SIZE
  <2>4. n * AVAIL * 100 \in Nat
    <3>1. n \in Nat /\ AVAIL \in Nat /\ \A a, b \in Nat : a * b \in Nat
      BY CardAssumption
    <3> QED BY <3>1
  <2>5. keep \in Int
    BY <1>4, <2>3, <2>4
  <2>6. n - 1 \in Int /\ n - 1 >= 1
    BY <1>8
  <2>7. PICK m : m = Min({keep, n - 1})
    OBVIOUS
  <2>8. m \in Int /\ m <= n - 1
    <3>1. \E x \in {keep, n - 1} : \A y \in {keep, n - 1} : x <= y
      BY <2>5, <2>6
    <3>2. m \in {keep, n - 1} /\ \A y \in {keep, n - 1} : m <= y
      BY <2>7, <3>1 DEF Min
    <3> QED BY <2>5, <2>6, <3>2
  <2>9. next \in 1..(n - 1)
    <3>1. \E x \in {m, 1} : \A y \in {m, 1} : x >= y
      BY <2>8
    <3>2. next \in {m, 1} /\ \A y \in {m, 1} : next >= y
      BY <2>1, <2>7, <3>1 DEF Max
    <3> QED BY <2>6, <2>8, <3>2
  <2> QED BY <1>2, <1>3, <1>5, <1>8, <2>2, <2>9
<1> QED BY <1>7, <1>8

\* The loop ends, at a length where it draws.
Steps(fit, start, blind, k) ==
  fit = [n \in 1..k |-> IF Line(start, n, blind).next = 0 THEN Line(start, n, blind) ELSE fit[Line(start, n, blind).next]]

LEMMA StepsExist ==
  ASSUME NEW start, NEW blind, NEW len \in Nat,
         \A n \in 1..len : Line(start, n, blind).next = 0 \/ Line(start, n, blind).next \in 1..(n - 1)
  PROVE  \E fit : Steps(fit, start, blind, len)
<1> DEFINE Bad == {k \in 0..len : ~ \E fit : Steps(fit, start, blind, k)}
<1>0. len \in 0..len
  OBVIOUS
<1> SUFFICES ASSUME Bad # {} PROVE FALSE
  BY <1>0
<1>1. Bad \subseteq Nat
  OBVIOUS
<1>2. PICK k \in Bad : \A j \in Bad : k <= j
  BY <1>1, Least
<1>3. k # 0
  <2>1. 1..0 = {}
    OBVIOUS
  <2>2. Steps([n \in 1..0 |-> 0], start, blind, 0)
    BY <2>1 DEF Steps
  <2> QED BY <2>2
<1>4. PICK j \in Nat : k = j + 1 /\ j \in 0..len /\ k \in 1..len
  <2>1. k - 1 \in Nat /\ k = (k - 1) + 1 /\ k - 1 \in 0..len /\ k \in 1..len
    BY <1>3
  <2> QED BY <2>1
<1>5. j \notin Bad
  BY <1>1, <1>2, <1>4
<1>6. PICK g : Steps(g, start, blind, j)
  BY <1>4, <1>5
<1> DEFINE To(n) == Line(start, n, blind).next
           h == [n \in 1..k |-> IF n = k THEN (IF To(k) = 0 THEN Line(start, k, blind) ELSE g[To(k)]) ELSE g[n]]
<1>7. \A n \in 1..j : g[n] = IF To(n) = 0 THEN Line(start, n, blind) ELSE g[To(n)]
  BY <1>6 DEF Steps
<1>8. \A n \in 1..k : To(n) = 0 \/ To(n) \in 1..(n - 1)
  BY <1>4
<1> HIDE DEF Bad, To
<1>9. h = [n \in 1..k |-> IF To(n) = 0 THEN Line(start, n, blind) ELSE h[To(n)]]
  <2>1. \A n \in 1..k : h[n] = IF To(n) = 0 THEN Line(start, n, blind) ELSE h[To(n)]
    <3> TAKE n \in 1..k
    <3>1. CASE n = k
      <4>1. h[k] = IF To(k) = 0 THEN Line(start, k, blind) ELSE g[To(k)]
        BY <1>4
      <4>2. To(k) # 0 => To(k) \in 1..k /\ To(k) # k
        BY <1>4, <1>8
      <4>3. To(k) # 0 => h[To(k)] = g[To(k)]
        BY <4>2
      <4> QED BY <3>1, <4>1, <4>3
    <3>2. CASE n # k
      <4>1. n \in 1..j /\ h[n] = g[n]
        BY <1>4, <3>2
      <4>2. To(n) # 0 => To(n) \in 1..k /\ To(n) # k
        BY <1>4, <1>8, <4>1
      <4>3. To(n) # 0 => h[To(n)] = g[To(n)]
        BY <4>2
      <4> QED BY <1>7, <4>1, <4>3
    <3> QED BY <3>1, <3>2
  <2>2. h = [n \in 1..k |-> h[n]]
    OBVIOUS
  <2> HIDE DEF h
  <2> QED BY <2>1, <2>2
<1> HIDE DEF h
<1>10. Steps(h, start, blind, k)
  BY <1>9 DEF Steps, To
<1> QED BY <1>2, <1>10 DEF Bad

LEMMA LoopEnds ==
  ASSUME NEW T, NEW start \in Seq(T), start # <<>>, NEW blind \in BOOLEAN,
         \A n \in 1..Len(start) : FacesFor(Cut(start, n), blind) # <<>>
  PROVE  \E n \in 1..Len(start) :
           /\ FitFrom(start, blind) = Line(start, n, blind) /\ Line(start, n, blind).next = 0
           /\ n # Len(start) => Line(start, Len(start), blind).next # 0
<1>1. PICK len \in Nat \ {0} : len = Len(start)
  <2>1. Len(start) # 0
    OBVIOUS
  <2> QED BY <2>1
<1> DEFINE To(n) == Line(start, n, blind).next
           fit == CHOOSE fit : Steps(fit, start, blind, len)
<1>2. \A n \in 1..len : To(n) = 0 \/ To(n) \in 1..(n - 1)
  BY <1>1, LineIs
<1>3. \E f : Steps(f, start, blind, len)
  BY <1>2, StepsExist
<1>4. Steps(fit, start, blind, len)
  BY <1>3
<1>5. FitFrom(start, blind) = fit[len]
  BY <1>1 DEF FitFrom, Steps
<1> HIDE DEF fit
<1>6. \A n \in 1..len : fit[n] = IF To(n) = 0 THEN Line(start, n, blind) ELSE fit[To(n)]
  BY <1>4 DEF Steps
<1> DEFINE Ends(n) == \E m \in 1..len : fit[n] = Line(start, m, blind) /\ To(m) = 0 /\ (m = n \/ To(n) # 0)
           Bad == {n \in 1..len : ~ Ends(n)}
<1>7. Bad = {}
  <2> SUFFICES ASSUME Bad # {} PROVE FALSE
    OBVIOUS
  <2>1. Bad \subseteq Nat
    OBVIOUS
  <2>2. PICK n \in Bad : \A j \in Bad : n <= j
    BY <2>1, Least
  <2>3. n \in 1..len /\ ~ Ends(n)
    OBVIOUS
  <2>4. To(n) # 0
    BY <1>6, <2>3
  <2>5. To(n) \in 1..(n - 1) /\ fit[n] = fit[To(n)]
    BY <1>2, <1>6, <2>3, <2>4
  <2>6. To(n) \in 1..len /\ To(n) < n /\ To(n) \in Nat
    BY <2>3, <2>5
  <2>7. To(n) \notin Bad
    BY <2>1, <2>2, <2>6
  <2>8. Ends(To(n))
    BY <2>6, <2>7
  <2> QED BY <2>3, <2>4, <2>5, <2>8
<1>8. Ends(len)
  BY <1>7
<1> QED BY <1>1, <1>5, <1>8

\* Punycode has letters, digits and hyphens only, and is not empty.
LEMMA AsciiIs ==
  ASSUME NEW T, NEW domain \in Seq(T), domain # <<>>
  PROVE  Ascii(domain) \in Seq({"a", "jp", ".", "-"}) /\ Ascii(domain) # <<>>
<1> DEFINE S == {"a", "jp", ".", "-"}
           p == [i \in DOMAIN domain |-> IF domain[i] \in S THEN <<domain[i]>> ELSE <<"a", "-", "a">>]
<1>1. PICK n \in Nat \ {0} : n = Len(domain) /\ DOMAIN domain = 1..n
  <2>1. Len(domain) # 0
    OBVIOUS
  <2> QED BY <2>1
<1>2. \A i \in 1..n : p[i] \in Pieces(S)
  <2>1. \A c \in S : <<c>> \in Seq(S) /\ Len(<<c>>) = 1
    OBVIOUS
  <2>2. <<"a", "-", "a">> \in Seq(S) /\ Len(<<"a", "-", "a">>) = 3
    OBVIOUS
  <2>3. Len(<<>>) = 0
    OBVIOUS
  <2>4. (\A c \in S : <<c>> \in Pieces(S)) /\ <<"a", "-", "a">> \in Pieces(S)
    BY <2>1, <2>2, <2>3 DEF Pieces
  <2> HIDE DEF S
  <2> QED BY <1>1, <2>4
<1>3. p \in [1..n -> Pieces(S)]
  BY <1>1, <1>2
<1>4. Ascii(domain) = FlattenSeq(p)
  BY DEF Ascii
<1> HIDE DEF p, S
<1>5. PICK F : Joins(F, p, n) /\ FlattenSeq(p) = F[n]
  BY <1>3, FlattenJoins
<1>6. F[n] \in Seq(S) /\ End(F, n - 1) < End(F, n) /\ End(F, n - 1) \in Nat
  BY <1>1, <1>3, <1>5, EndsRise
<1>7. Len(F[n]) # 0
  BY <1>6 DEF End
<1> QED BY <1>4, <1>5, <1>6, <1>7 DEF S

LEMMA CapIs ==
  ASSUME NEW T, NEW whole \in Seq(T), whole # <<>>, NEW start, start = cap_chars(whole)
  PROVE  /\ start \in Seq(T \cup {"..."}) /\ start # <<>> /\ Len(start) <= MAX
         /\ start = whole \/ Len(whole) > MAX
<1>1. MAX \in Nat /\ MAX > 1
  BY CardAssumption
<1>2. PICK len \in Nat \ {0} : len = Len(whole)
  <2>1. Len(whole) # 0
    OBVIOUS
  <2> QED BY <2>1
<1>3. CASE ~ (len > MAX)
  <2>1. start = whole
    BY <1>2, <1>3 DEF cap_chars
  <2>2. whole \in Seq(T \cup {"..."})
    OBVIOUS
  <2> QED BY <1>1, <1>2, <1>3, <2>1, <2>2
<1>4. CASE len > MAX
  <2>1. PICK u : u = SubSeq(whole, 1, MAX - 1)
    OBVIOUS
  <2>2. start = Append(u, "...")
    BY <1>2, <1>4, <2>1 DEF cap_chars
  <2>3. u \in Seq(T) /\ Len(u) = MAX - 1 /\ \A i \in 1..(MAX - 1) : u[i] = whole[i]
    BY <1>1, <1>2, <1>4, <2>1
  <2>4. start \in Seq(T \cup {"..."}) /\ Len(start) = MAX /\ \A i \in 1..(MAX - 1) : start[i] = whole[i]
    <3>1. u \in Seq(T \cup {"..."})
      BY <2>3
    <3> QED BY <1>1, <2>2, <2>3, <3>1
  <2> QED BY <1>1, <1>2, <1>4, <2>4
<1> QED BY <1>3, <1>4

\* What a capped line is cut to is what the whole one is.
LEMMA CapCuts ==
  ASSUME NEW T, NEW whole \in Seq(T), whole # <<>>, NEW n \in 1..Len(cap_chars(whole))
  PROVE  \E m \in 1..Len(whole) : Cut(cap_chars(whole), n) = Cut(whole, m)
<1>1. MAX \in Nat /\ MAX > 1
  BY CardAssumption
<1>2. PICK len \in Nat \ {0} : len = Len(whole)
  <2>1. Len(whole) # 0
    OBVIOUS
  <2> QED BY <2>1
<1>3. PICK start : start = cap_chars(whole) /\ n \in 1..Len(start)
  OBVIOUS
<1>4. CASE len > MAX
  <2>1. PICK u : u = SubSeq(whole, 1, MAX - 1)
    OBVIOUS
  <2>2. start = Append(u, "...")
    BY <1>2, <1>3, <1>4, <2>1 DEF cap_chars
  <2>3. u \in Seq(T) /\ Len(u) = MAX - 1 /\ \A i \in 1..(MAX - 1) : u[i] = whole[i]
    BY <1>1, <1>2, <1>4, <2>1
  <2>4. start \in Seq(T \cup {"..."}) /\ Len(start) = MAX /\ \A i \in 1..(MAX - 1) : start[i] = whole[i]
    <3>1. u \in Seq(T \cup {"..."})
      BY <2>3
    <3> QED BY <1>1, <2>2, <2>3, <3>1
  <2>5. start = Cut(whole, MAX - 1)
    BY <1>1, <1>2, <1>4, <2>1, <2>2 DEF Cut
  <2>6. \E m \in 1..Len(whole) : Cut(start, n) = Cut(whole, m)
    <3>1. CASE n = Len(start)
      <4>1. Cut(start, n) = Cut(whole, MAX - 1)
        BY <2>5, <3>1 DEF Cut
      <4>2. MAX - 1 \in 1..Len(whole)
        BY <1>1, <1>2, <1>4
      <4> QED BY <4>1, <4>2
    <3>2. CASE n # Len(start)
      <4>1. n \in 1..(MAX - 1) /\ n \in 1..Len(whole) /\ n # Len(whole)
        BY <1>1, <1>2, <1>3, <1>4, <2>4, <3>2
      <4>2. SubSeq(start, 1, n) = SubSeq(whole, 1, n)
        <5>1. PICK a, b : a = SubSeq(start, 1, n) /\ b = SubSeq(whole, 1, n)
          OBVIOUS
        <5>2. a \in Seq(T \cup {"..."}) /\ Len(a) = n /\ \A i \in 1..n : a[i] = start[i]
          BY <2>4, <4>1, <5>1
        <5>3. b \in Seq(T) /\ Len(b) = n /\ \A i \in 1..n : b[i] = whole[i]
          BY <4>1, <5>1
        <5>4. b \in Seq(T \cup {"..."})
          BY <5>3
        <5>5. \A i \in 1..n : a[i] = b[i]
          BY <2>4, <4>1, <5>2, <5>3
        <5> QED BY <5>1, <5>2, <5>3, <5>4, <5>5
      <4>3. Cut(start, n) = Cut(whole, n)
        BY <3>2, <4>1, <4>2 DEF Cut
      <4> QED BY <4>1, <4>3
    <3> QED BY <3>1, <3>2
  <2> QED BY <1>3, <2>6
<1>5. CASE ~ (len > MAX)
  <2>1. start = whole /\ n \in 1..Len(whole)
    BY <1>2, <1>3, <1>5 DEF cap_chars
  <2> QED BY <1>3, <2>1
<1> QED BY <1>4, <1>5

\* A line that has a face for each character it starts with has one at every length.
LEMMA LinesHaveFaces ==
  ASSUME NEW T, NEW start \in Seq(T), \A i \in DOMAIN start : HasFace(start[i]), NEW n \in 1..Len(start)
  PROVE  /\ Cut(start, n) \in Seq(T \cup {"..."}) /\ Cut(start, n) # <<>>
         /\ \A i \in DOMAIN Cut(start, n) : HasFace(Cut(start, n)[i])
<1>1. PICK text : text = Cut(start, n)
  OBVIOUS
<1>2. /\ text \in Seq(T \cup {"..."}) /\ Len(text) = IF n = Len(start) THEN n ELSE n + 1
      /\ \A i \in 1..n : text[i] = start[i]
      /\ n # Len(start) => text[n + 1] = "..."
  BY <1>1, CutIs
<1>3. HasFace("...")
  BY HasFaceIs DEF Given
<1>4. DOMAIN text = 1..Len(text) /\ \A i \in 1..Len(text) : i \in 1..n \/ (i = n + 1 /\ n # Len(start))
  BY <1>2
<1>5. \A i \in 1..n : HasFace(start[i])
  OBVIOUS
<1>6. \A i \in DOMAIN text : HasFace(text[i])
  BY <1>2, <1>3, <1>4, <1>5
<1>7. text # <<>>
  <2>1. Len(text) >= 1 /\ Len(<<>>) = 0
    BY <1>2
  <2> QED BY <2>1
<1> QED BY <1>1, <1>2, <1>6, <1>7

\* What is drawn of a text that has faces.
LEMMA DrawnLegibly ==
  ASSUME NEW T, NEW whole \in Seq(T), whole # <<>>, NEW start, start = cap_chars(whole),
         \A i \in DOMAIN start : HasFace(start[i])
  PROVE  Legible(whole, [line |-> FitFrom(start, FALSE), arrow |-> TRUE])
<1>0. PICK U : U = T \cup {"..."}
  OBVIOUS
<1>1. /\ start \in Seq(U) /\ start # <<>> /\ Len(start) <= MAX
      /\ start = whole \/ Len(whole) > MAX
      /\ \A n \in 1..Len(start) : \E m \in 1..Len(whole) : Cut(start, n) = Cut(whole, m)
  <2>1. PICK capped : capped = cap_chars(whole)
    OBVIOUS
  <2>2. /\ capped \in Seq(T \cup {"..."}) /\ capped # <<>> /\ Len(capped) <= MAX
        /\ capped = whole \/ Len(whole) > MAX
        /\ \A n \in 1..Len(capped) : \E m \in 1..Len(whole) : Cut(capped, n) = Cut(whole, m)
    <3>1. /\ capped \in Seq(T \cup {"..."}) /\ capped # <<>> /\ Len(capped) <= MAX
          /\ capped = whole \/ Len(whole) > MAX
      BY <2>1, CapIs
    <3>2. \A n \in 1..Len(capped) : \E m \in 1..Len(whole) : Cut(capped, n) = Cut(whole, m)
      <4> TAKE n \in 1..Len(capped)
      <4>1. n \in 1..Len(cap_chars(whole))
        BY <2>1
      <4> QED BY <2>1, <4>1, CapCuts
    <3> QED BY <3>1, <3>2
  <2>3. start = capped
    BY <2>1
  <2> QED BY <1>0, <2>2, <2>3
<1>2. PICK len \in Nat \ {0} : len = Len(start) /\ len <= MAX
  <2>1. Len(start) # 0
    BY <1>1
  <2> QED BY <1>1, <2>1
<1>3. \A n \in 1..len : FacesFor(Cut(start, n), FALSE) = hero_runs(Cut(start, n))
  BY DEF FacesFor
<1>4. \A n \in 1..len : hero_runs(Cut(start, n)) # <<>>
  <2> TAKE n \in 1..len
  <2>1. /\ Cut(start, n) \in Seq(U \cup {"..."}) /\ Cut(start, n) # <<>>
        /\ \A i \in DOMAIN Cut(start, n) : HasFace(Cut(start, n)[i])
    BY <1>1, <1>2, LinesHaveFaces
  <2> QED BY <2>1, RunsAre
<1>5. PICK n \in 1..len :
        /\ FitFrom(start, FALSE) = Line(start, n, FALSE) /\ Line(start, n, FALSE).next = 0
        /\ n # len => Line(start, len, FALSE).next # 0
  BY <1>1, <1>2, <1>3, <1>4, LoopEnds
<1>6. PICK line, text, faces : line = Line(start, n, FALSE) /\ text = Cut(start, n) /\ faces = hero_runs(text)
  OBVIOUS
<1>7. /\ line.drawn /\ line.text = text /\ line.faces = faces
      /\ Fits(hero_width(text, faces), full_size(FALSE)) \/ n <= 1
  <2>1. /\ Width(start, n, FALSE) = hero_width(text, faces)
        /\ FacesFor(Cut(start, n), FALSE) # <<>>
    BY <1>3, <1>4, <1>6 DEF Width
  <2>2. \/ /\ line.next = 0 /\ line.drawn /\ line.text = Cut(start, n) /\ line.faces = FacesFor(Cut(start, n), FALSE)
           /\ Fits(Width(start, n, FALSE), full_size(FALSE)) \/ n <= 1
        \/ line.next \in 1..(n - 1)
    BY <1>1, <1>2, <1>6, <2>1, LineIs
  <2>3. line.next = 0
    BY <1>5, <1>6
  <2>4. ~ (line.next \in 1..(n - 1))
    BY <2>3
  <2>5. FacesFor(Cut(start, n), FALSE) = faces
    BY <1>3, <1>6
  <2>6. /\ line.drawn /\ line.text = Cut(start, n) /\ line.faces = FacesFor(Cut(start, n), FALSE)
        /\ Fits(Width(start, n, FALSE), full_size(FALSE)) \/ n <= 1
    BY <2>2, <2>4, Zenon
  <2> QED BY <1>6, <2>1, <2>5, <2>6, Zenon
<1>8. text \in Seq(U) /\ text # <<>> /\ Len(text) = (IF n = len THEN n ELSE n + 1) /\ Len(text) <= MAX
  <2>1. U \cup {"..."} = U
    BY <1>0
  <2>2. text \in Seq(U) /\ Len(text) = (IF n = len THEN n ELSE n + 1)
    BY <1>1, <1>2, <1>6, <2>1, CutIs
  <2>3. text # <<>>
    BY <1>1, <1>2, <1>6, LinesHaveFaces
  <2>4. Len(text) <= MAX
    <3>1. CASE n = len
      BY <1>2, <2>2, <3>1
    <3>2. CASE n # len
      BY <1>2, <2>2, <3>2, CardAssumption
    <3> QED BY <3>1, <3>2
  <2> QED BY <2>2, <2>3, <2>4
<1>9. /\ faces = FacesOf(text, Resolved(text))
      /\ \A i \in DOMAIN text : faces[i] \in Faces /\ Drawn(faces[i], text[i])
  BY <1>4, <1>6, <1>8, RunsAre
<1>10. \A i, j \in DOMAIN text :
         kind(text[i]) = kind(text[j]) /\ kind(text[i]) # Neutral /\ j \in Group(Resolved(text), i) => faces[i] = faces[j]
  BY <1>8, <1>9, OneFace
<1>11. \E m \in 1..Len(whole) : text = Cut(whole, m)
  BY <1>1, <1>2, <1>6
<1>12. Len(text) > 2 => FitsAtSize(hero_width(text, faces), MIN_SIZE)
  <2>1. hero_width(text, faces) \in Nat
    BY <1>8, WidthIs
  <2>2. Len(text) > 2 => ~ (n <= 1)
    BY <1>8
  <2> QED BY <1>7, <2>1, <2>2, FitsIs
<1>13. ASSUME text # whole, ~ (Len(whole) > MAX)
       PROVE  LET width == hero_width(whole, hero_runs(whole)) IN ~ FitsAtSize(width, MIN_SIZE) \/ width \in Over
  <2>1. start = whole
    BY <1>1, <1>13
  <2>2. n # len
    BY <1>2, <1>6, <1>13, <2>1 DEF Cut
  <2>3. len \in 1..len /\ Cut(start, len) = whole
    BY <1>2, <2>1 DEF Cut
  <2>4. Width(start, len, FALSE) = hero_width(whole, hero_runs(whole)) /\ FacesFor(Cut(start, len), FALSE) # <<>>
    BY <1>3, <1>4, <2>3 DEF Width
  <2>5. ~ Fits(Width(start, len, FALSE), full_size(FALSE)) /\ Width(start, len, FALSE) \in Nat
    BY <1>1, <1>2, <1>5, <2>2, <2>3, <2>4, LineIs
  <2> QED BY <2>4, <2>5, FitsIs
<1>14. PICK card : card = [line |-> FitFrom(start, FALSE), arrow |-> TRUE]
  OBVIOUS
<1>15. card.arrow /\ card.line = line
  BY <1>5, <1>6, <1>14
<1>16. Legible(whole, card)
  BY <1>7, <1>8, <1>9, <1>10, <1>11, <1>12, <1>13, <1>15 DEF Legible
<1> QED BY <1>14, <1>16

\* A sentence, in one face, is cut only if it does not fit.
LEMMA SentenceWhole ==
  ASSUME NEW T, NEW sentence \in Seq(T), sentence # <<>>
  PROVE  WholeOn(build_svg(sentence, TRUE), sentence)
<1>1. PICK len \in Nat \ {0} : len = Len(sentence)
  <2>1. Len(sentence) # 0
    OBVIOUS
  <2> QED BY <2>1
<1>2. \A n \in 1..len : FacesFor(Cut(sentence, n), TRUE) # <<>>
  <2> TAKE n \in 1..len
  <2>1. PICK text : text = Cut(sentence, n) /\ Len(text) >= 1 /\ text \in Seq(T \cup {"..."})
    BY <1>1, CutIs
  <2>2. FacesFor(text, TRUE) = [i \in DOMAIN text |-> "sans"]
    BY DEF FacesFor
  <2>3. 1 \in DOMAIN text /\ DOMAIN <<>> = {}
    BY <2>1
  <2>4. DOMAIN FacesFor(text, TRUE) = DOMAIN text
    BY <2>2
  <2> QED BY <2>1, <2>3, <2>4
<1>3. PICK line : line = Line(sentence, len, TRUE)
  OBVIOUS
<1>4. PICK width : width = hero_width(sentence, [i \in DOMAIN sentence |-> "sans"])
  OBVIOUS
<1>5. len \in 1..len /\ Cut(sentence, len) = sentence /\ Width(sentence, len, TRUE) = width
  BY <1>1, <1>4 DEF Cut, Width, FacesFor
<1>6. PICK n \in 1..len :
        /\ FitFrom(sentence, TRUE) = Line(sentence, n, TRUE)
        /\ n # len => line.next # 0
  BY <1>1, <1>2, <1>3, LoopEnds
<1>7. width \in Nat
  BY <1>4, WidthIs
<1>8. ASSUME FitsAtSize(width, MIN_SIZE) /\ width \notin Over PROVE FitFrom(sentence, TRUE).text = sentence
  <2>1. Fits(width, full_size(TRUE))
    BY <1>7, <1>8, FitsIs
  <2>2. line.next = 0 /\ line.text = sentence
    BY <1>1, <1>2, <1>3, <1>5, <2>1, LineIs
  <2> QED BY <1>3, <1>6, <2>2
<1>9. build_svg(sentence, TRUE) = [line |-> FitFrom(sentence, TRUE), arrow |-> FALSE]
  BY DEF build_svg, fit_hero
<1>10. PICK card : card = [line |-> FitFrom(sentence, TRUE), arrow |-> FALSE]
  OBVIOUS
<1>11. ~ card.arrow /\ card.line = FitFrom(sentence, TRUE)
  BY <1>10
<1>12. WholeOn(card, sentence)
  BY <1>4, <1>8, <1>11 DEF WholeOn
<1> QED BY <1>9, <1>10, <1>12

(***************************************************************************)
(* Whatever a domain is written with, and however wide the card is, its    *)
(* card draws it legibly: no box, one face for the letters of a script,    *)
(* within the card, and cut only for a cause; a sentence in its place is   *)
(* whole where it fits (card.rs).                                          *)
(***************************************************************************)
THEOREM CardLegible == HeroSpec => []CardIsLegible
<1> DEFINE Written == hero \in Seq(Alphabet)
<1>1. HeroInit => Written
  <2>1. <<>> \in Seq(Alphabet)
    OBVIOUS
  <2> QED BY <2>1 DEF HeroInit
<1>2. Written /\ [Letter]_hero => Written'
  BY DEF Letter
<1>3. Written => CardIsLegible
  <2> SUFFICES ASSUME hero \in Seq(Alphabet), hero # <<>>
               PROVE  Legible(Shown(hero), build_svg(hero, FALSE)) /\ WholeOn(build_svg(hero, TRUE), hero)
    BY DEF CardIsLegible
  <2>1. PICK capped : capped = cap_chars(hero)
    OBVIOUS
  <2>2. capped \in Seq(Alphabet \cup {"..."}) /\ capped # <<>>
    BY <2>1, CapIs
  <2>3. hero_runs(capped) # <<>> <=> \A i \in DOMAIN capped : HasFace(capped[i])
    BY <2>2, RunsAre
  <2>4. build_svg(hero, FALSE) = [line |-> fit_hero(hero, FALSE), arrow |-> TRUE]
    BY DEF build_svg
  <2>5. fit_hero(hero, FALSE) = FitFrom(IF hero_runs(capped) # <<>> THEN capped ELSE cap_chars(Ascii(hero)), FALSE)
    BY <2>1 DEF fit_hero
  <2>6. CASE hero_runs(capped) # <<>>
    <3>1. Shown(hero) = hero /\ fit_hero(hero, FALSE) = FitFrom(capped, FALSE)
      BY <2>1, <2>3, <2>5, <2>6 DEF Shown
    <3>2. Legible(hero, [line |-> FitFrom(capped, FALSE), arrow |-> TRUE])
      BY <2>1, <2>3, <2>6, DrawnLegibly
    <3> QED BY <2>4, <3>1, <3>2, SentenceWhole
  <2>7. CASE hero_runs(capped) = <<>>
    <3>1. PICK ascii, short : ascii = Ascii(hero) /\ short = cap_chars(ascii)
      OBVIOUS
    <3>2. Shown(hero) = ascii /\ fit_hero(hero, FALSE) = FitFrom(short, FALSE)
      BY <2>1, <2>3, <2>5, <2>7, <3>1 DEF Shown
    <3>3. ascii \in Seq({"a", "jp", ".", "-"}) /\ ascii # <<>>
      BY <3>1, AsciiIs
    <3>4. short \in Seq({"a", "jp", ".", "-"} \cup {"..."})
      BY <3>1, <3>3, CapIs
    <3>5. \A i \in DOMAIN short : HasFace(short[i])
      <4>1. \A i \in DOMAIN short : short[i] \in {"a", "jp", ".", "-", "..."}
        BY <3>4
      <4> QED BY <4>1, HasFaceIs DEF Given
    <3>6. Legible(ascii, [line |-> FitFrom(short, FALSE), arrow |-> TRUE])
      BY <3>1, <3>3, <3>5, DrawnLegibly
    <3> QED BY <2>4, <3>2, <3>6, SentenceWhole
  <2> QED BY <2>6, <2>7
<1> QED BY <1>1, <1>2, <1>3, PTL DEF HeroSpec
=============================================================================
