---- MODULE FeedProofs ----
(***************************************************************************)
(* Proofs about Feed, for any items, scores, index answers, trending lists *)
(* and sizes: the operators (Ordered sorts, a stretch of a sequence keeps  *)
(* its order, the cap keeps a list of one category), then the stages, each *)
(* by what it leaves of the candidates, then the three properties.         *)
(***************************************************************************)
EXTENDS Feed, FiniteSetTheorems, TLAPS

-----------------------------------------------------------------------------
(* Sorting *)

\* R puts the members of S in one order.
StrictOrder(R, S) ==
    /\ \A x \in S : <<x, x>> \notin R
    /\ \A x, y \in S : x # y => <<x, y>> \in R \/ <<y, x>> \in R
    /\ \A x, y, z \in S : <<x, y>> \in R /\ <<y, z>> \in R => <<x, z>> \in R

Below(S, R, x) == {y \in S : <<y, x>> \in R}
Place(S, R, x) == Cardinality(Below(S, R, x))

\* A member has fewer members below it than one above it has.
LEMMA PlacesGrow ==
  ASSUME NEW S, IsFiniteSet(S), NEW R, StrictOrder(R, S), NEW x \in S
  PROVE  /\ Place(S, R, x) \in Nat /\ Place(S, R, x) < Cardinality(S)
         /\ \A y \in S : <<x, y>> \in R => Place(S, R, x) < Place(S, R, y)
<1>1. /\ x \notin Below(S, R, x)
      /\ \A y \in S : Below(S, R, y) \in SUBSET S
  BY DEF StrictOrder, Below
<1>2. \A y \in S : IsFiniteSet(Below(S, R, y)) /\ Cardinality(Below(S, R, y)) \in Nat
  BY <1>1, FS_Subset, FS_CardinalityType
<1>3. ASSUME NEW T, IsFiniteSet(T), Below(S, R, x) \subseteq T, x \in T
      PROVE  Cardinality(Below(S, R, x)) < Cardinality(T)
  <2>1. /\ Cardinality(Below(S, R, x)) <= Cardinality(T)
        /\ Cardinality(T) = Cardinality(Below(S, R, x)) => T = Below(S, R, x)
    BY <1>3, FS_Subset
  <2>2. Cardinality(T) \in Nat
    BY <1>3, FS_CardinalityType
  <2> QED BY <1>1, <1>2, <1>3, <2>1, <2>2
<1>4. Cardinality(Below(S, R, x)) < Cardinality(S)
  BY <1>1, <1>3
<1>5. ASSUME NEW y \in S, <<x, y>> \in R
      PROVE  Cardinality(Below(S, R, x)) < Cardinality(Below(S, R, y))
  <2>1. Below(S, R, x) \subseteq Below(S, R, y) /\ x \in Below(S, R, y)
    BY <1>5 DEF StrictOrder, Below
  <2> QED BY <1>2, <1>3, <2>1
<1> QED BY <1>2, <1>4, <1>5 DEF Place

\* Every place is taken.
LEMMA PlacesTaken ==
  ASSUME NEW S, IsFiniteSet(S), NEW R, StrictOrder(R, S), NEW k \in 1..Cardinality(S)
  PROVE  \E x \in S : Place(S, R, x) = k - 1
<1> SUFFICES ASSUME \A x \in S : Place(S, R, x) # k - 1 PROVE FALSE
  OBVIOUS
<1> DEFINE c == Cardinality(S)
           T == 0..(c - 1)
           f == [x \in S |-> Place(S, R, x)]
<1>1. c \in Nat
  BY FS_CardinalityType
<1>2. IsFiniteSet(T) /\ Cardinality(T) = c
  <2>1. 0 \in Int /\ c - 1 \in Int
    BY <1>1
  <2>2. IsFiniteSet(0..(c - 1)) /\ Cardinality(0..(c - 1)) = IF 0 > c - 1 THEN 0 ELSE c - 1 - 0 + 1
    BY <2>1, FS_Interval
  <2> QED BY <1>1, <2>2
<1>3. k - 1 \in T
  BY <1>1
<1>4. IsFiniteSet(T \ {k - 1}) /\ Cardinality(T \ {k - 1}) = c - 1
  <2> HIDE DEF T
  <2>1. IsFiniteSet(T \ {k - 1}) /\ Cardinality(T \ {k - 1}) = Cardinality(T) - 1
    BY <1>2, <1>3, FS_RemoveElement
  <2> QED BY <1>2, <2>1
<1>5. \A x \in S : Place(S, R, x) \in Nat /\ Place(S, R, x) < c
  BY PlacesGrow
<1>6. f \in [S -> T \ {k - 1}]
  <2>1. ASSUME NEW x \in S PROVE Place(S, R, x) \in T \ {k - 1}
    BY <1>1, <1>5
  <2> HIDE DEF T
  <2> QED BY <2>1
<1>7. c - 1 < c
  BY <1>1
<1> HIDE DEF f, T
<1>8. PICK x \in S, y \in S : x # y /\ f[x] = f[y]
  BY <1>4, <1>6, <1>7, FS_PigeonHole
<1>9. Place(S, R, x) = Place(S, R, y)
  BY <1>8 DEF f
<1>10. Place(S, R, x) < Place(S, R, y) \/ Place(S, R, y) < Place(S, R, x)
  BY <1>8, PlacesGrow DEF StrictOrder
<1> QED BY <1>5, <1>9, <1>10

\* Ordered lists every member once, in the order of R.
LEMMA OrderedSorts ==
  ASSUME NEW S, IsFiniteSet(S), NEW R, StrictOrder(R, S)
  PROVE  /\ Ordered(S, R) \in [1..Cardinality(S) -> S]
         /\ \A i, j \in 1..Cardinality(S) : i < j => <<Ordered(S, R)[i], Ordered(S, R)[j]>> \in R
         /\ \A x \in S : \E i \in 1..Cardinality(S) : Ordered(S, R)[i] = x
<1> DEFINE c == Cardinality(S)
           o == Ordered(S, R)
<1>1. c \in Nat
  BY FS_CardinalityType
<1>2. o = [k \in 1..c |-> CHOOSE x \in S : Place(S, R, x) = k - 1]
  BY DEF Ordered, Place, Below
<1> HIDE DEF o
<1>3. ASSUME NEW k \in 1..c PROVE o[k] \in S /\ Place(S, R, o[k]) = k - 1
  <2>1. o[k] = CHOOSE x \in S : Place(S, R, x) = k - 1
    BY <1>2
  <2>2. \E x \in S : Place(S, R, x) = k - 1
    BY PlacesTaken
  <2> QED BY <2>1, <2>2
<1>4. o \in [1..c -> S]
  BY <1>2, <1>3
<1>5. ASSUME NEW i \in 1..c, NEW j \in 1..c, i < j PROVE <<o[i], o[j]>> \in R
  <2>1. /\ o[i] \in S /\ o[j] \in S
        /\ Place(S, R, o[i]) = i - 1 /\ Place(S, R, o[j]) = j - 1
    BY <1>3
  <2>2. o[i] # o[j] /\ ~(Place(S, R, o[j]) < Place(S, R, o[i]))
    BY <1>1, <1>5, <2>1
  <2>3. <<o[i], o[j]>> \in R \/ <<o[j], o[i]>> \in R
    BY <2>1, <2>2 DEF StrictOrder
  <2>4. <<o[j], o[i]>> \in R => Place(S, R, o[j]) < Place(S, R, o[i])
    BY <2>1, PlacesGrow
  <2> QED BY <2>2, <2>3, <2>4
<1>6. ASSUME NEW x \in S PROVE \E i \in 1..c : o[i] = x
  <2>1. Place(S, R, x) \in Nat /\ Place(S, R, x) < c
    BY PlacesGrow
  <2>2. PICK i \in 1..c : i = Place(S, R, x) + 1
    BY <1>1, <2>1
  <2>3. o[i] \in S /\ Place(S, R, o[i]) = Place(S, R, x)
    BY <1>3, <2>1, <2>2
  <2>4. x # o[i] => Place(S, R, x) < Place(S, R, o[i]) \/ Place(S, R, o[i]) < Place(S, R, x)
    BY <2>3, PlacesGrow DEF StrictOrder
  <2> QED BY <2>1, <2>3, <2>4
<1> QED BY <1>4, <1>5, <1>6 DEF o

-----------------------------------------------------------------------------
(* Sequences *)

Upward(places) == {x \in places \X places : x[1] < x[2]}

LEMMA UpwardOrder ==
  ASSUME NEW places, places \subseteq Int
  PROVE  StrictOrder(Upward(places), places)
  BY DEF StrictOrder, Upward

\* A part of a sequence, taken at some places, has what is at these places, once each.
LEMMA AtEntries ==
  ASSUME NEW s \in Seq(Items), NEW places \in SUBSET (DOMAIN s)
  PROVE  /\ At(s, places) \in Seq(Items)
         /\ Len(At(s, places)) = Cardinality(places)
         /\ \A k \in DOMAIN At(s, places) : \E p \in places : At(s, places)[k] = s[p]
         /\ \A p \in places : \E k \in DOMAIN At(s, places) : At(s, places)[k] = s[p]
         /\ IsInjective(s) => IsInjective(At(s, places))
<1> DEFINE c == Cardinality(places)
           o == Ordered(places, Upward(places))
           t == At(s, places)
<1>1. DOMAIN s = 1..Len(s) /\ Len(s) \in Nat
  OBVIOUS
<1>2. IsFiniteSet(places) /\ places \subseteq Int
  <2>1. IsFiniteSet(1..Len(s))
    BY <1>1, FS_Interval
  <2> QED BY <1>1, <2>1, FS_Subset
<1>3. c \in Nat
  BY <1>2, FS_CardinalityType
<1>4. /\ o \in [1..c -> places]
      /\ \A i, j \in 1..c : i < j => <<o[i], o[j]>> \in Upward(places)
      /\ \A x \in places : \E i \in 1..c : o[i] = x
  BY <1>2, UpwardOrder, OrderedSorts
<1>5. t = [k \in 1..c |-> s[o[k]]]
  BY DEF At, Upward
<1> HIDE DEF o, t, c
<1>6. \A k \in 1..c : s[o[k]] \in Items
  BY <1>1, <1>4
<1>7. t \in Seq(Items) /\ Len(t) = c /\ DOMAIN t = 1..c
  BY <1>3, <1>5, <1>6
<1>8. ASSUME NEW i \in 1..c, NEW j \in 1..c, i < j PROVE o[i] # o[j]
  <2>1. <<o[i], o[j]>> \in Upward(places) /\ o[i] \in Int /\ o[j] \in Int
    BY <1>2, <1>4, <1>8
  <2>2. o[i] < o[j]
    BY <2>1 DEF Upward
  <2> QED BY <2>1, <2>2
<1>9. ASSUME IsInjective(s) PROVE IsInjective(t)
  <2> SUFFICES ASSUME NEW i \in 1..c, NEW j \in 1..c, t[i] = t[j] PROVE i = j
    BY <1>7 DEF IsInjective
  <2>1. o[i] = o[j]
    BY <1>4, <1>5, <1>9 DEF IsInjective
  <2> QED BY <1>3, <1>8, <2>1
<1>10. \A k \in 1..c : t[k] = s[o[k]] /\ o[k] \in places
  BY <1>4, <1>5
<1>11. \A k \in DOMAIN t : \E p \in places : t[k] = s[p]
  BY <1>7, <1>10
<1>12. ASSUME NEW p \in places PROVE \E k \in DOMAIN t : t[k] = s[p]
  <2>1. PICK k \in 1..c : o[k] = p
    BY <1>4
  <2> QED BY <1>7, <1>10, <2>1
<1> QED BY <1>7, <1>9, <1>11, <1>12 DEF t, c

\* A stretch of a sequence keeps its order.
LEMMA AtStretch ==
  ASSUME NEW s \in Seq(Items), NEW b \in 0..Len(s), NEW a \in 1..(b + 1)
  PROVE  At(s, a..b) = [k \in 1..(b - a + 1) |-> s[a + k - 1]]
<1> DEFINE R == Upward(a..b)
           o == Ordered(a..b, R)
<1>1. Cardinality(a..b) = b - a + 1 /\ b - a + 1 \in Nat
  <2>1. a \in Int /\ b \in Int
    OBVIOUS
  <2>2. Cardinality(a..b) = IF a > b THEN 0 ELSE b - a + 1
    BY <2>1, FS_Interval
  <2> QED BY <2>2
<1>2. ASSUME NEW x \in a..b PROVE Cardinality({y \in a..b : <<y, x>> \in R}) = x - a
  <2>1. {y \in a..b : <<y, x>> \in R} = a..(x - 1)
    BY DEF Upward
  <2>2. Cardinality(a..(x - 1)) = x - a
    BY FS_Interval
  <2> QED BY <2>1, <2>2
<1>3. ASSUME NEW k \in 1..(b - a + 1) PROVE o[k] = a + k - 1
  <2>1. o[k] = CHOOSE x \in a..b : Cardinality({y \in a..b : <<y, x>> \in R}) = k - 1
    BY <1>1 DEF Ordered
  <2> HIDE DEF R, o
  <2>2. a + k - 1 \in a..b /\ Cardinality({y \in a..b : <<y, a + k - 1>> \in R}) = k - 1
    BY <1>1, <1>2
  <2>3. ASSUME NEW x \in a..b, Cardinality({y \in a..b : <<y, x>> \in R}) = k - 1
        PROVE  x = a + k - 1
    <3>1. x - a = k - 1
      BY <1>2, <2>3
    <3> QED BY <3>1
  <2> QED BY <2>1, <2>2, <2>3
<1>4. At(s, a..b) = [k \in 1..(b - a + 1) |-> s[o[k]]]
  BY <1>1 DEF At, Upward
<1> HIDE DEF o
<1> QED BY <1>3, <1>4

-----------------------------------------------------------------------------
(* What the stages of get_feed do to the items *)

\* The first entries of s.
Prefix(s, m) == [k \in 1..m |-> s[k]]

LEMMA RetrievedItems ==
  ASSUME NEW found \in Seq(Items), NEW trending \in Seq(Items),
         IsInjective(found), IsInjective(trending)
  PROVE  Retrieved(found, trending) \in Seq(Items) /\ IsInjective(Retrieved(found, trending))
<1> DEFINE places == {k \in DOMAIN trending : trending[k] \notin ToSet(found)}
           t == At(trending, places)
           s == Retrieved(found, trending)
<1>1. places \in SUBSET (DOMAIN trending)
  OBVIOUS
<1>2. /\ t \in Seq(Items) /\ IsInjective(t)
      /\ \A k \in DOMAIN t : \E p \in places : t[k] = trending[p]
  BY <1>1, AtEntries
<1>3. \A k \in DOMAIN t : t[k] \notin ToSet(found)
  BY <1>2
<1>4. s = found \o t
  BY DEF Retrieved
<1> HIDE DEF s, t
<1>5. /\ s \in Seq(Items) /\ DOMAIN s = 1..(Len(found) + Len(t))
      /\ Len(found) \in Nat /\ Len(t) \in Nat
      /\ \A k \in 1..Len(found) : s[k] = found[k]
      /\ \A k \in 1..(Len(found) + Len(t)) : k > Len(found) =>
           k - Len(found) \in 1..Len(t) /\ s[k] = t[k - Len(found)]
  BY <1>2, <1>4
<1>6. ASSUME NEW i \in DOMAIN s, NEW j \in DOMAIN s, s[i] = s[j] PROVE i = j
  <2>1. CASE i <= Len(found) /\ j <= Len(found)
    <3>1. i \in DOMAIN found /\ j \in DOMAIN found /\ found[i] = found[j]
      BY <1>5, <1>6, <2>1
    <3> QED BY <3>1 DEF IsInjective
  <2>2. CASE i > Len(found) /\ j > Len(found)
    <3>1. /\ i - Len(found) \in DOMAIN t /\ j - Len(found) \in DOMAIN t
          /\ t[i - Len(found)] = t[j - Len(found)]
      BY <1>2, <1>5, <1>6, <2>2
    <3>2. i - Len(found) = j - Len(found)
      BY <1>2, <3>1 DEF IsInjective
    <3> QED BY <1>5, <3>2
  <2>3. ASSUME NEW k \in DOMAIN s, NEW m \in DOMAIN s, k <= Len(found), m > Len(found)
        PROVE  s[k] # s[m]
    <3>1. k \in DOMAIN found /\ s[k] = found[k]
      BY <1>5, <2>3
    <3>2. m - Len(found) \in DOMAIN t /\ s[m] = t[m - Len(found)]
      BY <1>2, <1>5, <2>3
    <3> QED BY <1>3, <3>1, <3>2 DEF ToSet
  <2> QED BY <1>5, <1>6, <2>1, <2>2, <2>3
<1> QED BY <1>5, <1>6 DEF IsInjective, s

\* sorted(..., reverse=True) permutes its argument and leaves no item above a better one.
LEMMA DescendingItems ==
  ASSUME NEW s \in Seq(Items), NEW key \in [Items -> Int]
  PROVE  /\ Descending(s, key) \in Seq(Items)
         /\ Len(Descending(s, key)) = Len(s)
         /\ ToSet(Descending(s, key)) = ToSet(s)
         /\ IsInjective(s) => IsInjective(Descending(s, key))
         /\ \A i, j \in 1..Len(s) :
              i < j => key[Descending(s, key)[i]] >= key[Descending(s, key)[j]]
<1> DEFINE D == DOMAIN s
           R == Above(s, key)
           o == Ordered(D, R)
           d == Descending(s, key)
<1>1. D = 1..Len(s) /\ Len(s) \in Nat /\ \A k \in D : s[k] \in Items /\ key[s[k]] \in Int
  OBVIOUS
<1>2. IsFiniteSet(D) /\ Cardinality(D) = Len(s)
  <2>1. 1 \in Int /\ Len(s) \in Int
    BY <1>1
  <2>2. IsFiniteSet(1..Len(s)) /\ Cardinality(1..Len(s)) = IF 1 > Len(s) THEN 0 ELSE Len(s) - 1 + 1
    BY <2>1, FS_Interval
  <2> QED BY <1>1, <2>2
<1>3. \A x, y \in D : <<x, y>> \in R <=> \/ key[s[x]] > key[s[y]]
                                         \/ key[s[x]] = key[s[y]] /\ x < y
  BY DEF Above
<1> HIDE DEF R
<1>4. StrictOrder(R, D)
  <2>1. \A x \in D : <<x, x>> \notin R
    BY <1>1, <1>3
  <2>2. ASSUME NEW x \in D, NEW y \in D, x # y PROVE <<x, y>> \in R \/ <<y, x>> \in R
    <3>1. x \in Int /\ y \in Int /\ key[s[x]] \in Int /\ key[s[y]] \in Int
      BY <1>1
    <3>2. x < y \/ y < x
      BY <2>2, <3>1
    <3>3. key[s[x]] > key[s[y]] \/ key[s[y]] > key[s[x]] \/ key[s[x]] = key[s[y]]
      BY <3>1
    <3> QED BY <1>3, <3>2, <3>3
  <2>3. ASSUME NEW x \in D, NEW y \in D, NEW z \in D, <<x, y>> \in R, <<y, z>> \in R
        PROVE  <<x, z>> \in R
    <3>1. /\ key[s[x]] > key[s[y]] \/ (key[s[x]] = key[s[y]] /\ x < y)
          /\ key[s[y]] > key[s[z]] \/ (key[s[y]] = key[s[z]] /\ y < z)
      BY <1>3, <2>3
    <3>2. x \in Int /\ y \in Int /\ z \in Int
      BY <1>1
    <3>3. key[s[x]] \in Int /\ key[s[y]] \in Int /\ key[s[z]] \in Int
      BY <1>1
    <3>4. key[s[x]] > key[s[z]] \/ (key[s[x]] = key[s[z]] /\ x < z)
      BY <3>1, <3>2, <3>3
    <3> QED BY <1>3, <3>4
  <2> QED BY <2>1, <2>2, <2>3 DEF StrictOrder
<1>5. /\ o \in [1..Len(s) -> D]
      /\ \A i, j \in 1..Len(s) : i < j => <<o[i], o[j]>> \in R
      /\ \A x \in D : \E i \in 1..Len(s) : o[i] = x
  <2> HIDE DEF D
  <2>1. /\ o \in [1..Cardinality(D) -> D]
        /\ \A i, j \in 1..Cardinality(D) : i < j => <<o[i], o[j]>> \in R
        /\ \A x \in D : \E i \in 1..Cardinality(D) : o[i] = x
    BY <1>2, <1>4, OrderedSorts
  <2> QED BY <1>2, <2>1
<1>6. d = [k \in 1..Len(s) |-> s[o[k]]]
  BY <1>1 DEF Descending, R
<1> HIDE DEF o, d
<1>7. \A k \in 1..Len(s) : d[k] = s[o[k]] /\ o[k] \in D
  BY <1>5, <1>6
<1>8. d \in Seq(Items) /\ Len(d) = Len(s) /\ DOMAIN d = 1..Len(s)
  <2>1. \A k \in 1..Len(s) : s[o[k]] \in Items
    BY <1>1, <1>7
  <2> QED BY <1>1, <1>6, <2>1
<1>9. ToSet(d) = ToSet(s)
  <2>1. ToSet(d) = {d[i] : i \in 1..Len(s)} /\ ToSet(s) = {s[k] : k \in D}
    BY <1>8 DEF ToSet
  <2>2. ASSUME NEW k \in D PROVE s[k] \in ToSet(d)
    <3>1. PICK i \in 1..Len(s) : o[i] = k
      BY <1>5
    <3> QED BY <1>7, <2>1, <3>1
  <2>3. ASSUME NEW i \in 1..Len(s) PROVE d[i] \in ToSet(s)
    BY <1>7, <2>1
  <2> QED BY <2>1, <2>2, <2>3
<1>10. ASSUME NEW i \in 1..Len(s), NEW j \in 1..Len(s), i < j
       PROVE  o[i] # o[j] /\ key[d[i]] >= key[d[j]]
  <2>1. o[i] \in D /\ o[j] \in D /\ <<o[i], o[j]>> \in R
    BY <1>5, <1>10
  <2>2. o[i] # o[j]
    BY <2>1, <1>4 DEF StrictOrder
  <2>3. key[s[o[i]]] > key[s[o[j]]] \/ key[s[o[i]]] = key[s[o[j]]]
    BY <1>3, <2>1
  <2>4. key[s[o[i]]] \in Int /\ key[s[o[j]]] \in Int
    BY <1>1, <2>1
  <2> QED BY <1>7, <2>2, <2>3, <2>4
<1>11. ASSUME IsInjective(s) PROVE IsInjective(d)
  <2> SUFFICES ASSUME NEW i \in 1..Len(s), NEW j \in 1..Len(s), d[i] = d[j] PROVE i = j
    BY <1>8 DEF IsInjective
  <2>1. o[i] = o[j]
    BY <1>7, <1>11 DEF IsInjective
  <2> QED BY <1>1, <1>10, <2>1
<1> QED BY <1>8, <1>9, <1>10, <1>11 DEF d

\* All items are of one category: what the cap moves to the end is the end, in its order.
LEMMA CappedKeeps ==
  ASSUME NEW s \in Seq(Items)
  PROVE  Capped(s) = s
<1> DEFINE L == Len(s)
           most == Largest(1, (Len(s) * CapPercent) \div 100)
           m == IF most < L THEN most ELSE L
           within == {k \in DOMAIN s : Cardinality(1..(k - 1)) < most}
<1>1. L \in Nat /\ DOMAIN s = 1..L
  OBVIOUS
<1>2. most \in Nat \ {0}
  <2>1. CapPercent \in Nat
    BY FeedAssumption
  <2>2. L * CapPercent \in Nat
    BY <1>1, <2>1
  <2>3. (L * CapPercent) \div 100 \in Nat
    BY <2>2
  <2> QED BY <2>3 DEF Largest
<1> HIDE DEF most
<1>3. m \in 0..L
  BY <1>1, <1>2
<1>4. within = 1..m
  <2>1. \A k \in 1..L : Cardinality(1..(k - 1)) = k - 1
    <3> SUFFICES ASSUME NEW k \in 1..L PROVE Cardinality(1..(k - 1)) = k - 1
      OBVIOUS
    <3>1. 1 \in Int /\ k - 1 \in Int
      BY <1>1
    <3>2. Cardinality(1..(k - 1)) = IF 1 > k - 1 THEN 0 ELSE k - 1 - 1 + 1
      BY <3>1, FS_Interval
    <3> QED BY <1>1, <3>2
  <2> QED BY <1>1, <1>2, <2>1
<1>5. Capped(s) = At(s, within) \o At(s, DOMAIN s \ within)
  BY DEF Capped, Category, most
<1>6. DOMAIN s \ within = (m + 1)..L
  BY <1>1, <1>3, <1>4
<1> HIDE DEF m, within
<1>7. At(s, 1..m) = [k \in 1..m |-> s[k]]
  <2>1. At(s, 1..m) = [k \in 1..(m - 1 + 1) |-> s[1 + k - 1]]
    BY <1>1, <1>3, AtStretch
  <2>2. m - 1 + 1 = m /\ \A k \in 1..m : 1 + k - 1 = k
    BY <1>1, <1>3
  <2> QED BY <2>1, <2>2
<1>8. At(s, (m + 1)..L) = [k \in 1..(L - m) |-> s[m + k]]
  <2>1. L \in 0..Len(s) /\ m + 1 \in 1..(L + 1)
    BY <1>1, <1>3
  <2>2. PICK a \in 1..(L + 1) : a = m + 1
    BY <2>1
  <2>3. At(s, a..L) = [k \in 1..(L - a + 1) |-> s[a + k - 1]]
    BY <2>1, AtStretch
  <2>4. L - a + 1 = L - m /\ \A k \in 1..(L - m) : a + k - 1 = m + k
    BY <1>1, <1>3, <2>2
  <2> QED BY <2>2, <2>3, <2>4
<1>9. [k \in 1..m |-> s[k]] \o [k \in 1..(L - m) |-> s[m + k]] = s
  <2> DEFINE u == [k \in 1..m |-> s[k]]
             v == [k \in 1..(L - m) |-> s[m + k]]
  <2>1. u \in Seq(Items) /\ v \in Seq(Items) /\ Len(u) = m /\ Len(v) = L - m
    BY <1>1, <1>3
  <2>2. u \o v \in Seq(Items) /\ Len(u \o v) = L
    BY <1>1, <1>3, <2>1
  <2>3. ASSUME NEW k \in 1..L PROVE (u \o v)[k] = s[k]
    <3>1. CASE k <= m
      <4>1. (u \o v)[k] = u[k]
        BY <1>1, <1>3, <2>1, <3>1
      <4> QED BY <1>1, <1>3, <3>1, <4>1
    <3>2. CASE k > m
      <4>1. (u \o v)[k] = v[k - m] /\ k - m \in 1..(L - m)
        BY <1>1, <1>3, <2>1, <3>2
      <4> QED BY <1>1, <1>3, <4>1
    <3> QED BY <1>1, <1>3, <3>1, <3>2
  <2> HIDE DEF u, v
  <2>4. \A x \in Seq(Items) : x = [k \in 1..Len(x) |-> x[k]]
    OBVIOUS
  <2>5. u \o v = [k \in 1..L |-> (u \o v)[k]]
    BY <2>2, <2>4
  <2>6. s = [k \in 1..L |-> s[k]]
    BY <2>4
  <2>7. u \o v = s
    BY <2>3, <2>5, <2>6
  <2> QED BY <2>7 DEF u, v
<1> QED BY <1>4, <1>5, <1>6, <1>7, <1>8, <1>9

\* A slice from the front; s[:n] for n >= 0 has n items if there are so many.
LEMMA CutIsPrefix ==
  ASSUME NEW s \in Seq(Items), NEW m \in Int
  PROVE  \E c \in 0..Len(s) :
           /\ Cut(s, m) = Prefix(s, c)
           /\ m >= 0 => c = IF m < Len(s) THEN m ELSE Len(s)
<1> DEFINE c == IF m >= 0 THEN (IF m < Len(s) THEN m ELSE Len(s))
                ELSE IF Len(s) + m >= 0 THEN Len(s) + m ELSE 0
           last == IF m >= 0 THEN c ELSE Len(s) + m
<1>1. Len(s) \in Nat /\ c \in 0..Len(s) /\ last \in Int
  OBVIOUS
<1>2. Cut(s, m) = SubSeq(s, 1, last)
  BY DEF Cut
<1>3. SubSeq(s, 1, last) = [k \in 1..c |-> s[k]]
  <2>1. 1..last = 1..c
    BY <1>1
  <2>2. SubSeq(s, 1, last) = [k \in 1..(last - 1 + 1) |-> s[k + 1 - 1]]
    BY <1>1
  <2>3. last - 1 + 1 = last /\ \A k \in 1..last : k + 1 - 1 = k
    BY <1>1
  <2> QED BY <2>1, <2>2, <2>3
<1> QED BY <1>1, <1>2, <1>3 DEF Prefix

-----------------------------------------------------------------------------
(* The invariant *)

\* By key, s shows the best items of the pool, best first.
Best(s, pool, key) ==
    /\ IsInjective(s)
    /\ ToSet(s) \subseteq pool
    /\ \A k \in DOMAIN s : \A m \in 1..k : key[s[m]] >= key[s[k]]
    /\ \A i \in pool \ ToSet(s) : \A k \in DOMAIN s : key[s[k]] >= key[i]

\* The stages in their order.
Before == [retrieve |-> 0, rank |-> 1, rerank |-> 2, inject |-> 3, explore |-> 4, respond |-> 5,
           done |-> 6, failed |-> 0]

FeedTypes ==
    /\ stage \in DOMAIN Before
    /\ n \in Int /\ score \in [Items -> Int]
    /\ candidates \in Seq(Items) /\ IsInjective(candidates)
    /\ ranked \in Seq(Items) /\ final \in Seq(Items)
    /\ result \in Seq(Items) /\ served \in Seq(Items)
    /\ draws \in Nat

\* The ranking permutes the candidates, the re-ranking takes the best of them.
RankedInv ==
    Before[stage] = 2 => /\ IsInjective(ranked)
                         /\ ToSet(ranked) = ToSet(candidates)
                         /\ Len(ranked) = Len(candidates)

FinalInv ==
    Before[stage] >= 3 =>
        /\ Best(final, ToSet(candidates), Adjusted(seen))
        /\ n >= 0 => Len(final) = IF n < Len(candidates) THEN n ELSE Len(candidates)

\* Exploration replaces the last item only, by one that is not in the feed.
ResultInv ==
    Before[stage] \in {4, 5} =>
        /\ Len(result) = Len(final)
        /\ \A k \in 1..(Len(final) - 1) : result[k] = final[k]
        /\ Len(final) > 0 =>
             result[Len(final)] = final[Len(final)] \/ result[Len(final)] \notin ToSet(final)
        /\ Before[stage] = 4 /\ draws > 0 => Len(final) > 0

DrawsInv ==
    /\ IsFiniteSet(available) /\ available \subseteq Items
    /\ draws <= Cardinality(available)
    /\ Before[stage] = 4 => available \cap ToSet(final) = {}

ServedInv ==
    stage = "done" => \/ served = final
                      \/ Len(final) > 0 /\ served = Prefix(final, Len(final) - 1)

FeedInv == FeedTypes /\ RankedInv /\ FinalInv /\ ResultInv /\ DrawsInv /\ ServedInv

LEMMA AdjustedType ==
  ASSUME score \in [Items -> Int], NEW items
  PROVE  Adjusted(items) \in [Items -> Int]
  BY DEF Adjusted

LEMMA PrefixItems ==
  ASSUME NEW s \in Seq(Items), NEW c \in 0..Len(s)
  PROVE  /\ Prefix(s, c) \in Seq(Items) /\ Len(Prefix(s, c)) = c /\ DOMAIN Prefix(s, c) = 1..c
         /\ \A k \in 1..c : Prefix(s, c)[k] = s[k]
         /\ IsInjective(s) => IsInjective(Prefix(s, c))
<1>1. Len(s) \in Nat /\ DOMAIN s = 1..Len(s) /\ 1..c \subseteq 1..Len(s) /\ c \in Nat
  OBVIOUS
<1>2. Prefix(s, c) \in Seq(Items) /\ Len(Prefix(s, c)) = c /\ DOMAIN Prefix(s, c) = 1..c
  BY <1>1 DEF Prefix
<1>3. \A k \in 1..c : Prefix(s, c)[k] = s[k]
  BY DEF Prefix
<1>4. IsInjective(s) => IsInjective(Prefix(s, c))
  BY <1>1, <1>2, <1>3 DEF IsInjective
<1> QED BY <1>2, <1>3, <1>4

\* Every prefix of a list that shows the best shows the best.
LEMMA PrefixOfBest ==
  ASSUME NEW s \in Seq(Items), NEW pool \in SUBSET Items, NEW key \in [Items -> Int],
         Best(s, pool, key), NEW c \in 0..Len(s)
  PROVE  Best(Prefix(s, c), pool, key)
<1> DEFINE t == Prefix(s, c)
<1>1. Len(s) \in Nat /\ c \in Nat /\ DOMAIN s = 1..Len(s) /\ 1..c \subseteq 1..Len(s)
  OBVIOUS
<1>2. IsInjective(t) /\ DOMAIN t = 1..c /\ \A k \in 1..c : t[k] = s[k]
  BY PrefixItems DEF Best
<1> HIDE DEF t
<1>3. ToSet(t) \subseteq ToSet(s)
  <2>1. \A k \in 1..c : t[k] \in ToSet(s)
    BY <1>1, <1>2 DEF ToSet
  <2> QED BY <1>2, <2>1 DEF ToSet
<1>4. ASSUME NEW k \in 1..c, NEW m \in 1..k PROVE key[t[m]] >= key[t[k]]
  <2>1. m \in 1..c /\ k \in DOMAIN s
    BY <1>1
  <2> QED BY <1>2, <2>1 DEF Best
<1>5. ASSUME NEW i \in pool \ ToSet(t), NEW k \in 1..c PROVE key[t[k]] >= key[i]
  <2>1. CASE i \notin ToSet(s)
    BY <1>1, <1>2, <2>1 DEF Best
  <2>2. CASE i \in ToSet(s)
    <3>1. PICK m \in 1..Len(s) : s[m] = i
      BY <1>1, <2>2 DEF ToSet
    <3>2. m \notin 1..c
      BY <1>2, <1>5, <3>1 DEF ToSet
    <3>3. k \in 1..m /\ m \in DOMAIN s
      BY <1>1, <3>1, <3>2
    <3>4. key[s[k]] >= key[s[m]]
      BY <3>3 DEF Best
    <3> QED BY <1>2, <3>1, <3>4
  <2> QED BY <2>1, <2>2
<1>6. Best(t, pool, key)
  BY <1>2, <1>3, <1>4, <1>5 DEF Best
<1> QED BY <1>6 DEF t

\* What Reranker.apply returns: sorted by the adjusted score and cut to n.
LEMMA RerankedItems ==
  ASSUME NEW s \in Seq(Items), IsInjective(s), NEW key \in [Items -> Int], NEW m \in Int
  PROVE  LET f == Cut(Capped(Descending(s, key)), m)
         IN  /\ f \in Seq(Items) /\ Best(f, ToSet(s), key)
             /\ m >= 0 => Len(f) = IF m < Len(s) THEN m ELSE Len(s)
<1> DEFINE d == Descending(s, key)
<1>1. /\ d \in Seq(Items) /\ Len(d) = Len(s) /\ ToSet(d) = ToSet(s) /\ IsInjective(d)
      /\ \A i, j \in 1..Len(s) : i < j => key[d[i]] >= key[d[j]]
  BY DescendingItems
<1> HIDE DEF d
<1>2. Len(d) \in Nat /\ DOMAIN d = 1..Len(d) /\ \A k \in 1..Len(d) : d[k] \in Items
  BY <1>1
<1>3. Best(d, ToSet(s), key)
  <2>1. ASSUME NEW k \in DOMAIN d, NEW j \in 1..k PROVE key[d[j]] >= key[d[k]]
    <3>1. CASE j = k
      <4>1. key[d[k]] \in Int
        BY <1>2
      <4> QED BY <3>1, <4>1
    <3>2. CASE j # k
      <4>1. j \in 1..Len(s) /\ k \in 1..Len(s) /\ j < k
        BY <1>1, <1>2, <3>2
      <4> QED BY <1>1, <4>1
    <3> QED BY <3>1, <3>2
  <2> QED BY <1>1, <2>1 DEF Best
<1>4. Capped(d) = d
  BY <1>1, CappedKeeps
<1>5. PICK c \in 0..Len(d) : /\ Cut(d, m) = Prefix(d, c)
                             /\ m >= 0 => c = IF m < Len(d) THEN m ELSE Len(d)
  BY <1>1, CutIsPrefix
<1>6. Prefix(d, c) \in Seq(Items) /\ Len(Prefix(d, c)) = c
  BY <1>1, PrefixItems
<1>7. ToSet(s) \in SUBSET Items
  BY DEF ToSet
<1>8. Best(Prefix(d, c), ToSet(s), key)
  BY <1>1, <1>3, <1>7, PrefixOfBest
<1> QED BY <1>1, <1>4, <1>5, <1>6, <1>8 DEF d

-----------------------------------------------------------------------------
(* The steps and the theorems *)

LEMMA FeedInit == Init => FeedInv
<1> SUFFICES ASSUME Init PROVE FeedInv
  OBVIOUS
<1>1. FeedTypes
  <2>1. n \in Int /\ score \in [Items -> Int]
    BY FeedAssumption DEF Init
  <2>2. <<>> \in Seq(Items) /\ IsInjective(<<>>)
    BY DEF IsInjective
  <2>3. stage \in DOMAIN Before
    BY DEF Init, Before
  <2> QED BY <2>1, <2>2, <2>3 DEF Init, FeedTypes
<1>2. DrawsInv
  BY FS_EmptySet DEF Init, DrawsInv, Before
<1> QED BY <1>1, <1>2 DEF Init, FeedInv, RankedInv, FinalInv, ResultInv, ServedInv, Before

LEMMA RetrieveStep == FeedInv /\ Retrieve => FeedInv'
<1> SUFFICES ASSUME FeedInv, Retrieve PROVE FeedInv'
  OBVIOUS
<1>1. /\ stage' = "rank" /\ UNCHANGED <<request, ranked, seen, final, exploring, served>>
      /\ candidates' \in Seq(Items) /\ IsInjective(candidates')
  <2>1. PICK found \in AnnResults, trending \in TrendingLists :
           candidates' = Retrieved(found, trending)
    BY DEF Retrieve
  <2>2. /\ found \in Seq(Items) /\ trending \in Seq(Items)
        /\ IsInjective(found) /\ IsInjective(trending)
    BY FeedAssumption
  <2> QED BY <2>1, <2>2, RetrievedItems DEF Retrieve, Step
<1>2. FeedTypes'
  BY <1>1 DEF FeedInv, FeedTypes, request, exploring, Before
<1> QED BY <1>1, <1>2
        DEF FeedInv, RankedInv, FinalInv, ResultInv, DrawsInv, ServedInv, Before, exploring

LEMMA RankStep == FeedInv /\ Rank => FeedInv'
<1> SUFFICES ASSUME FeedInv, Rank PROVE FeedInv'
  OBVIOUS
<1>1. stage' = "rerank" /\ UNCHANGED <<request, candidates, seen, final, exploring, served>>
      /\ ranked' \in {Descending(candidates, score), candidates}
  BY DEF Rank, Step
<1>2. candidates \in Seq(Items) /\ IsInjective(candidates) /\ score \in [Items -> Int]
  BY DEF FeedInv, FeedTypes
<1>3. /\ ranked' \in Seq(Items) /\ IsInjective(ranked')
      /\ ToSet(ranked') = ToSet(candidates) /\ Len(ranked') = Len(candidates)
  BY <1>1, <1>2, DescendingItems
<1>4. FeedTypes'
  BY <1>1, <1>3 DEF FeedInv, FeedTypes, request, exploring, Before
<1>5. RankedInv'
  BY <1>1, <1>3 DEF RankedInv
<1> QED BY <1>1, <1>4, <1>5 DEF FeedInv, FinalInv, ResultInv, DrawsInv, ServedInv, Before, exploring

LEMMA RerankStep == FeedInv /\ Rerank => FeedInv'
<1> SUFFICES ASSUME FeedInv, Rerank PROVE FeedInv'
  OBVIOUS
<1>1. stage = "rerank" /\ stage' = "inject"
      /\ UNCHANGED <<request, candidates, ranked, exploring, served>>
  BY DEF Rerank, Step
<1>2. PICK items \in SUBSET Items :
        seen' = items /\ final' = Cut(Capped(Descending(ranked, Adjusted(items))), n)
  BY DEF Rerank
<1>3. /\ ranked \in Seq(Items) /\ IsInjective(ranked) /\ ToSet(ranked) = ToSet(candidates)
      /\ Len(ranked) = Len(candidates) /\ n \in Int /\ score \in [Items -> Int]
  BY <1>1 DEF FeedInv, FeedTypes, RankedInv, Before
<1>4. Adjusted(items) \in [Items -> Int]
  BY <1>3, AdjustedType
<1>5. /\ final' \in Seq(Items) /\ Best(final', ToSet(candidates), Adjusted(items))
      /\ n >= 0 => Len(final') = IF n < Len(candidates) THEN n ELSE Len(candidates)
  BY <1>2, <1>3, <1>4, RerankedItems
<1>6. Adjusted(seen)' = Adjusted(items)
  BY <1>1, <1>2 DEF Adjusted, request
<1>7. FinalInv'
  BY <1>1, <1>5, <1>6 DEF FinalInv, request
<1>8. FeedTypes'
  BY <1>1, <1>5 DEF FeedInv, FeedTypes, request, exploring, Before
<1> QED BY <1>1, <1>7, <1>8 DEF FeedInv, RankedInv, ResultInv, DrawsInv, ServedInv, Before, exploring

\* The feed that is being served is not touched.
LEMMA FinalStays ==
  ASSUME FinalInv, Before[stage] >= 3, UNCHANGED <<request, candidates, seen, final>>
  PROVE  FinalInv'
  BY DEF FinalInv, Adjusted, request

LEMMA InjectStep == FeedInv /\ Inject => FeedInv'
<1> SUFFICES ASSUME FeedInv, Inject PROVE FeedInv'
  OBVIOUS
<1> DEFINE pool == ToSet(candidates) \ ToSet(final)
           slots == Slots(Len(final))
<1>1. /\ stage = "inject" /\ stage' = "explore" /\ result' = final /\ available' = pool
      /\ draws' = IF slots < Cardinality(pool) THEN slots ELSE Cardinality(pool)
      /\ UNCHANGED <<request, candidates, ranked, seen, final, served>>
  BY DEF Inject, Step
<1>2. /\ Len(final) \in Nat /\ Len(candidates) \in Nat
      /\ DOMAIN candidates = 1..Len(candidates) /\ DOMAIN final = 1..Len(final)
      /\ candidates \in Seq(Items) /\ final \in Seq(Items)
  BY DEF FeedInv, FeedTypes
<1>3. slots \in Nat /\ (slots > 0 => Len(final) > 0)
  <2>1. Len(final) * SlotPercent \in Nat
    BY <1>2, FeedAssumption
  <2>2. (Len(final) * SlotPercent) \div 100 \in Nat
    BY <2>1
  <2> QED BY <1>2, <2>2 DEF Slots, Largest
<1>4. IsFiniteSet(pool) /\ pool \subseteq Items /\ Cardinality(pool) \in Nat
  <2>1. IsFiniteSet(ToSet(candidates))
    <3>1. IsFiniteSet(DOMAIN candidates)
      BY <1>2, FS_Interval
    <3>2. candidates \in Surjection(DOMAIN candidates, ToSet(candidates))
      BY <1>2 DEF Surjection, ToSet
    <3> QED BY <3>1, <3>2, FS_Surjection
  <2>2. pool \in SUBSET ToSet(candidates) /\ ToSet(candidates) \subseteq Items
    BY <1>2 DEF ToSet
  <2> QED BY <2>1, <2>2, FS_Subset, FS_CardinalityType
<1> HIDE DEF slots
<1>5. DrawsInv'
  BY <1>1, <1>3, <1>4 DEF DrawsInv
<1>6. FinalInv'
  BY <1>1, FinalStays DEF FeedInv, Before
<1>7. ResultInv'
  BY <1>1, <1>2, <1>3, <1>4 DEF ResultInv
<1> HIDE DEF pool
<1>8. FeedTypes'
  BY <1>1, <1>3, <1>4 DEF FeedInv, FeedTypes, request, Before
<1> QED BY <1>1, <1>5, <1>6, <1>7, <1>8 DEF FeedInv, RankedInv, ServedInv, Before

LEMMA ExploreStep == FeedInv /\ Explore => FeedInv'
<1> SUFFICES ASSUME FeedInv, Explore PROVE FeedInv'
  OBVIOUS
<1>1. /\ stage = "explore" /\ draws > 0 /\ draws' = draws - 1
      /\ UNCHANGED <<stage, request, candidates, ranked, seen, final, served>>
  BY DEF Explore
<1>2. PICK slot \in available :
        /\ result' = [result EXCEPT ![Len(result)] = slot]
        /\ available' = available \ {slot}
  BY DEF Explore
<1>3. /\ Len(result) = Len(final) /\ Len(final) > 0 /\ Len(final) \in Nat
      /\ \A k \in 1..(Len(final) - 1) : result[k] = final[k]
      /\ result \in Seq(Items) /\ slot \in Items /\ slot \notin ToSet(final)
      /\ draws \in Nat
  BY <1>1, <1>2 DEF FeedInv, FeedTypes, ResultInv, DrawsInv, Before
<1>4. result' \in Seq(Items) /\ Len(result') = Len(final) /\ result'[Len(final)] = slot
      /\ \A k \in 1..(Len(final) - 1) : result'[k] = final[k]
  BY <1>2, <1>3
<1>5. DrawsInv'
  <2>1. Cardinality(available') = Cardinality(available) - 1 /\ IsFiniteSet(available')
    BY <1>2, FS_RemoveElement DEF FeedInv, DrawsInv
  <2>2. Cardinality(available) \in Nat
    BY FS_CardinalityType DEF FeedInv, DrawsInv
  <2> QED BY <1>1, <1>2, <1>3, <2>1, <2>2 DEF FeedInv, DrawsInv
<1>6. FinalInv'
  BY <1>1, FinalStays DEF FeedInv, Before
<1>7. ResultInv'
  BY <1>1, <1>3, <1>4 DEF ResultInv
<1>8. FeedTypes'
  BY <1>1, <1>3, <1>4 DEF FeedInv, FeedTypes, request
<1> QED BY <1>1, <1>5, <1>6, <1>7, <1>8 DEF FeedInv, RankedInv, ServedInv, Before

LEMMA ExploredStep == FeedInv /\ Explored => FeedInv'
<1> SUFFICES ASSUME FeedInv, Explored PROVE FeedInv'
  OBVIOUS
<1>1. /\ stage = "explore" /\ stage' = "respond"
      /\ UNCHANGED <<request, candidates, ranked, seen, final, exploring, served>>
  BY DEF Explored, Step
<1>2. FinalInv'
  BY <1>1, FinalStays DEF FeedInv, Before
<1>3. FeedTypes'
  BY <1>1 DEF FeedInv, FeedTypes, request, exploring, Before
<1> QED BY <1>1, <1>2, <1>3
        DEF FeedInv, RankedInv, ResultInv, DrawsInv, ServedInv, exploring, Before

\* by_id lets through what is still in its place, which is all but perhaps the last item.
LEMMA RespondStep == FeedInv /\ Respond => FeedInv'
<1> SUFFICES ASSUME FeedInv, Respond PROVE FeedInv'
  OBVIOUS
<1> DEFINE L == Len(final)
           places == {k \in DOMAIN result : result[k] \in ToSet(final)}
<1>1. /\ stage = "respond" /\ stage' = "done" /\ served' = At(result, places)
      /\ UNCHANGED <<request, candidates, ranked, seen, final, exploring>>
  BY DEF Respond, Step
<1>2. /\ L \in Nat /\ DOMAIN result = 1..L /\ Len(result) = L
      /\ final \in Seq(Items) /\ result \in Seq(Items) /\ DOMAIN final = 1..L
      /\ \A k \in 1..(L - 1) : result[k] = final[k]
      /\ L > 0 => result[L] = final[L] \/ result[L] \notin ToSet(final)
  BY <1>1 DEF FeedInv, FeedTypes, ResultInv, Before
<1>3. \A k \in 1..L : final[k] \in ToSet(final)
  BY <1>2 DEF ToSet
<1> HIDE DEF L
<1>4. \A b \in 0..L : At(result, 1..b) = [k \in 1..b |-> result[k]]
  <2> SUFFICES ASSUME NEW b \in 0..L PROVE At(result, 1..b) = [k \in 1..b |-> result[k]]
    OBVIOUS
  <2>1. b \in 0..Len(result) /\ 1 \in 1..(b + 1)
    BY <1>2
  <2>2. At(result, 1..b) = [k \in 1..(b - 1 + 1) |-> result[1 + k - 1]]
    BY <1>2, <2>1, AtStretch
  <2>3. b - 1 + 1 = b /\ \A k \in 1..b : 1 + k - 1 = k
    BY <1>2
  <2> QED BY <2>2, <2>3
<1>5. ASSUME L = 0 \/ result[L] = final[L] PROVE served' \in Seq(Items) /\ ServedInv'
  <2>1. \A k \in 1..L : result[k] = final[k]
    BY <1>2, <1>5
  <2>2. places = 1..L
    BY <1>2, <1>3, <2>1
  <2> HIDE DEF places
  <2>3. served' = [k \in 1..L |-> result[k]] /\ L \in 0..L
    BY <1>1, <1>2, <1>4, <2>2
  <2>4. final = [k \in 1..L |-> final[k]]
    BY <1>2
  <2>5. served' = final
    BY <2>1, <2>3, <2>4
  <2>6. served' \in Seq(Items) /\ ServedInv'
    BY <1>1, <1>2, <2>5 DEF ServedInv
  <2> QED BY <2>6
<1>6. ASSUME L > 0, result[L] # final[L] PROVE served' \in Seq(Items) /\ ServedInv'
  <2>1. L - 1 \in 0..L /\ 1..(L - 1) = (1..L) \ {L}
    BY <1>2, <1>6
  <2>2. places = 1..(L - 1)
    BY <1>2, <1>3, <1>6, <2>1
  <2> HIDE DEF places
  <2>3. served' = [k \in 1..(L - 1) |-> result[k]]
    BY <1>1, <1>4, <2>1, <2>2
  <2>4. served' = Prefix(final, L - 1)
    BY <1>2, <2>3 DEF Prefix
  <2>5. served' \in Seq(Items)
    BY <1>2, <2>1, <2>4, PrefixItems DEF L
  <2>6. ServedInv'
    BY <1>1, <1>2, <1>6, <2>4 DEF ServedInv, L
  <2> QED BY <2>5, <2>6
<1>7. served' \in Seq(Items) /\ ServedInv'
  BY <1>2, <1>5, <1>6
<1>8. FinalInv'
  BY <1>1, FinalStays DEF FeedInv, Before
<1>9. FeedTypes'
  BY <1>1, <1>7 DEF FeedInv, FeedTypes, request, exploring, Before
<1> HIDE DEF places
<1> QED BY <1>1, <1>7, <1>8, <1>9 DEF FeedInv, RankedInv, ResultInv, DrawsInv, exploring, Before

LEMMA FeedStep == FeedInv /\ [Next]_vars => FeedInv'
<1> SUFFICES ASSUME FeedInv, [Next]_vars PROVE FeedInv'
  OBVIOUS
<1>1. CASE UNCHANGED vars
  BY <1>1 DEF vars, request, exploring, FeedInv, FeedTypes, RankedInv, FinalInv, ResultInv,
              DrawsInv, ServedInv, Adjusted
<1>2. CASE Fail
  <2>1. /\ stage' = "failed"
        /\ UNCHANGED <<request, candidates, ranked, seen, final, exploring, served>>
    BY <1>2 DEF Fail
  <2>2. FeedTypes'
    BY <2>1 DEF FeedInv, FeedTypes, request, exploring, Before
  <2> QED BY <2>1, <2>2
          DEF exploring, FeedInv, RankedInv, FinalInv, ResultInv, DrawsInv, ServedInv, Before
<1> QED BY <1>1, <1>2, RetrieveStep, RankStep, RerankStep, InjectStep, ExploreStep, ExploredStep,
           RespondStep DEF Next

\* What each stage of get_feed has done to the candidates, in every reachable state.
THEOREM FeedInvariant == Spec => []FeedInv
  BY FeedInit, FeedStep, PTL DEF Spec

\* The items served are those of the re-ranking, perhaps without the last one.
LEMMA ServedIsBest ==
  ASSUME FeedInv, Done
  PROVE  /\ Best(served, ToSet(candidates), Adjusted(seen))
         /\ Len(served) \in {Len(final), Len(final) - 1} /\ Len(served) \in Nat
<1>1. /\ Best(final, ToSet(candidates), Adjusted(seen)) /\ final \in Seq(Items)
      /\ served = final \/ (Len(final) > 0 /\ served = Prefix(final, Len(final) - 1))
  BY DEF FeedInv, FeedTypes, FinalInv, ServedInv, Done, Before
<1>2. Adjusted(seen) \in [Items -> Int] /\ ToSet(candidates) \in SUBSET Items /\ Len(final) \in Nat
  BY AdjustedType DEF FeedInv, FeedTypes, ToSet
<1>3. CASE served = final
  BY <1>1, <1>2, <1>3
<1>4. CASE Len(final) > 0 /\ served = Prefix(final, Len(final) - 1)
  <2>1. Len(final) - 1 \in 0..Len(final)
    BY <1>2, <1>4
  <2>2. Len(Prefix(final, Len(final) - 1)) = Len(final) - 1
    BY <1>1, <2>1, PrefixItems
  <2>3. Best(Prefix(final, Len(final) - 1), ToSet(candidates), Adjusted(seen))
    BY <1>1, <1>2, <2>1, PrefixOfBest
  <2> QED BY <1>2, <1>4, <2>2, <2>3
<1> QED BY <1>1, <1>3, <1>4

\* The feed shows the best candidates, each once, best first.
THEOREM FeedServesTheBest == Spec => []ServesTheBest
<1>1. FeedInv => ServesTheBest
  BY ServedIsBest DEF ServesTheBest, Best
<1> QED BY <1>1, FeedInvariant, PTL

\* Exploration costs the feed one item at most.
THEOREM FeedStaysAlmostFull == Spec => []FeedAlmostFull
<1>1. FeedInv => FeedAlmostFull
  <2> SUFFICES ASSUME FeedInv PROVE FeedAlmostFull
    OBVIOUS
  <2>1. draws <= Cardinality(available)
    BY DEF FeedInv, DrawsInv
  <2>2. ASSUME Done, n >= 0
        PROVE  Len(served) \in {(IF n < Len(candidates) THEN n ELSE Len(candidates)) - 1,
                                IF n < Len(candidates) THEN n ELSE Len(candidates)}
    <3>1. Len(final) = IF n < Len(candidates) THEN n ELSE Len(candidates)
      BY <2>2 DEF FeedInv, FinalInv, Done, Before
    <3> QED BY <2>2, <3>1, ServedIsBest
  <2> QED BY <2>1, <2>2 DEF FeedAlmostFull
<1> QED BY <1>1, FeedInvariant, PTL

\* Unless its score is negative, the penalty puts a seen item below every unseen candidate
\* that scores higher, or the same and not zero; other items may score what they like.
THEOREM SeenStaysBelow == Spec => []SeenNeverLifted
<1>1. FeedInv => SeenNeverLifted
  <2> SUFFICES ASSUME FeedInv, Done,
                      NEW k \in DOMAIN served, served[k] \in seen, score[served[k]] >= 0,
                      NEW i \in ToSet(candidates) \ seen,
                      \/ score[i] > score[served[k]]
                      \/ score[i] = score[served[k]] /\ score[i] > 0
               PROVE  \E m \in 1..k : served[m] = i
    BY DEF SeenNeverLifted
  <2> DEFINE key == Adjusted(seen)
  <2>1. /\ score \in [Items -> Int] /\ served \in Seq(Items) /\ candidates \in Seq(Items)
        /\ served[k] \in Items
    BY DEF FeedInv, FeedTypes
  <2>2. i \in Items /\ DOMAIN served = 1..Len(served) /\ Len(served) \in Nat
    BY <2>1 DEF ToSet
  <2>3. key[i] = 2 * score[i] /\ key[served[k]] = score[served[k]]
    BY <2>1, <2>2 DEF Adjusted
  <2>4. score[i] \in Int /\ score[i] > 0 /\ score[i] >= score[served[k]] /\ score[served[k]] \in Int
    BY <2>1, <2>2
  <2>5. ~(key[served[k]] >= key[i])
    BY <2>3, <2>4
  <2>6. Best(served, ToSet(candidates), key)
    BY ServedIsBest
  <2> HIDE DEF key
  <2>7. i \in ToSet(served)
    BY <2>5, <2>6 DEF Best
  <2>8. PICK m \in DOMAIN served : served[m] = i
    BY <2>7 DEF ToSet
  <2>9. ~(k \in 1..m)
    BY <2>5, <2>6, <2>8 DEF Best
  <2>10. m \in 1..k
    BY <2>2, <2>8, <2>9
  <2> QED BY <2>8, <2>10
<1> QED BY <1>1, FeedInvariant, PTL
====
