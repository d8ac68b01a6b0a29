----------------------------- MODULE LineProofs -----------------------------
(***************************************************************************)
(* What a line is, for any finite set in a strict total order: every place *)
(* is taken, and by one only.  It stands for the sorts and filters of the  *)
(* code in the proofs about them.                                          *)
(***************************************************************************)
EXTENDS Lines, Sequences, FiniteSetTheorems, TLAPS

Orders(before, set) ==
    \A x, y \in set :
        /\ <<x, x>> \notin before
        /\ x # y => <<x, y>> \in before \/ <<y, x>> \in before
        /\ \A z \in set : <<x, y>> \in before /\ <<y, z>> \in before => <<x, z>> \in before
Preceding(x, set, before) == {y \in set : <<y, x>> \in before}

LEMMA PrecedingIsFinite ==
    ASSUME NEW set, IsFiniteSet(set), NEW before, NEW x \in set, <<x, x>> \notin before
    PROVE  /\ IsFiniteSet(Preceding(x, set, before))
           /\ Cardinality(Preceding(x, set, before)) \in Nat
           /\ Cardinality(set) \in Nat
           /\ Cardinality(Preceding(x, set, before)) < Cardinality(set)
<1> DEFINE P == Preceding(x, set, before)
<1>1. P \in SUBSET set /\ x \notin P
  BY DEF Preceding
<1>2. IsFiniteSet(P) /\ Cardinality(P) <= Cardinality(set)
      /\ (Cardinality(set) = Cardinality(P) => set = P)
  BY <1>1, FS_Subset
<1>3. Cardinality(set) \in Nat /\ Cardinality(P) \in Nat
  BY <1>2, FS_CardinalityType
<1> QED BY <1>1, <1>2, <1>3

\* A set in an order has a line: every place is taken, and by one only.
LEMMA ALineIsThere ==
    ASSUME NEW set, IsFiniteSet(set), NEW before, Orders(before, set),
           NEW line, line = InLine(set, before)
    PROVE  /\ Cardinality(set) \in Nat /\ line \in Seq(set) /\ Len(line) = Cardinality(set)
           /\ \A n \in 1..Len(line) :
                 line[n] \in set /\ Cardinality(Preceding(line[n], set, before)) = n - 1
           /\ \A x \in set :
                 /\ Cardinality(Preceding(x, set, before)) + 1 \in 1..Len(line)
                 /\ line[Cardinality(Preceding(x, set, before)) + 1] = x
<1> DEFINE places == 1..Cardinality(set)
           count(x) == Cardinality(Preceding(x, set, before))
           f == [x \in set |-> count(x) + 1]
<1>1. Cardinality(set) \in Nat
  BY FS_CardinalityType
<1>2. ASSUME NEW x \in set
      PROVE  /\ IsFiniteSet(Preceding(x, set, before)) /\ count(x) \in Nat
             /\ count(x) + 1 \in places
  <2>1. <<x, x>> \notin before
    BY DEF Orders
  <2>2. /\ IsFiniteSet(Preceding(x, set, before)) /\ count(x) \in Nat
        /\ count(x) < Cardinality(set)
    BY <2>1, PrecedingIsFinite
  <2> QED BY <1>1, <2>2
<1>3. ASSUME NEW x \in set, NEW y \in set, <<x, y>> \in before PROVE count(x) < count(y)
  <2>1. Preceding(x, set, before) \in SUBSET Preceding(y, set, before)
    BY <1>3 DEF Preceding, Orders
  <2>2. x \in Preceding(y, set, before) /\ x \notin Preceding(x, set, before)
    BY <1>3 DEF Preceding, Orders
  <2>3. /\ Cardinality(Preceding(x, set, before)) <= Cardinality(Preceding(y, set, before))
        /\ Cardinality(Preceding(y, set, before)) = Cardinality(Preceding(x, set, before))
             => Preceding(y, set, before) = Preceding(x, set, before)
    BY <1>2, <2>1, FS_Subset
  <2> QED BY <1>2, <2>2, <2>3
<1>4. \A x, y \in set : count(x) = count(y) => x = y
  <2> SUFFICES ASSUME NEW x \in set, NEW y \in set, count(x) = count(y), x # y PROVE FALSE
    OBVIOUS
  <2>1. <<x, y>> \in before \/ <<y, x>> \in before
    BY DEF Orders
  <2> QED BY <1>2, <1>3, <2>1
<1>5. IsFiniteSet(places) /\ Cardinality(places) = Cardinality(set)
  <2>1. /\ IsFiniteSet(1..Cardinality(set))
        /\ Cardinality(1..Cardinality(set)) =
              IF 1 > Cardinality(set) THEN 0 ELSE Cardinality(set) - 1 + 1
    BY <1>1, FS_Interval
  <2> QED BY <1>1, <2>1
<1>6. f \in Injection(set, places)
  <2>1. \A x \in set : f[x] \in places
    BY <1>2
  <2>2. \A x, y \in set : f[x] = f[y] => x = y
    <3> SUFFICES ASSUME NEW x \in set, NEW y \in set, f[x] = f[y] PROVE x = y
      OBVIOUS
    <3>1. count(x) + 1 = count(y) + 1
      OBVIOUS
    <3>2. count(x) = count(y)
      BY <1>2, <3>1
    <3> QED BY <1>4, <3>2
  <2> QED BY <2>1, <2>2 DEF Injection, IsInjective
<1>7. f \in Surjection(set, places)
  BY <1>5, <1>6, FS_Injection
<1>8. \A n \in places : \E x \in set : f[x] = n
  BY <1>7 DEF Surjection
<1>9. \A n \in places : \E x \in set : count(x) = n - 1
  <2> SUFFICES ASSUME NEW n \in places PROVE \E x \in set : count(x) = n - 1
    OBVIOUS
  <2>1. PICK x \in set : f[x] = n
    BY <1>8
  <2>2. count(x) + 1 = n
    BY <2>1
  <2>3. count(x) = n - 1
    BY <1>2, <2>2
  <2> QED BY <2>3
<1>10. line = [n \in places |-> CHOOSE x \in set : count(x) = n - 1]
  BY DEF InLine, Preceding
<1> HIDE DEF count, f
<1>11. \A n \in places : line[n] \in set /\ count(line[n]) = n - 1
  BY <1>9, <1>10
<1>12. line \in Seq(set) /\ Len(line) = Cardinality(set)
  <2>1. line \in [1..Cardinality(set) -> set]
    BY <1>10, <1>11
  <2> QED BY <1>1, <2>1
<1>13. \A x \in set : count(x) + 1 \in places /\ line[count(x) + 1] = x
  <2> SUFFICES ASSUME NEW x \in set
               PROVE  count(x) + 1 \in places /\ line[count(x) + 1] = x
    OBVIOUS
  <2>1. count(x) \in Nat /\ count(x) + 1 \in places
    BY <1>2
  <2>2. line[count(x) + 1] \in set /\ count(line[count(x) + 1]) = count(x) + 1 - 1
    BY <1>11, <2>1
  <2>3. count(line[count(x) + 1]) = count(x)
    BY <2>1, <2>2
  <2> QED BY <1>4, <2>1, <2>2, <2>3
<1> QED BY <1>1, <1>11, <1>12, <1>13 DEF count

\* Places ascend.
LEMMA PlacesAscend ==
    ASSUME NEW n \in Nat, NEW set \in SUBSET (1..n)
    PROVE  /\ IsFiniteSet(set)
           /\ Orders({ij \in set \X set : ij[1] < ij[2]}, set)
<1> DEFINE before == {ij \in set \X set : ij[1] < ij[2]}
<1>1. IsFiniteSet(set)
  <2>1. IsFiniteSet(1..n)
    BY FS_Interval
  <2> QED BY <2>1, FS_Subset
<1>2. \A i, j \in set : <<i, j>> \in before <=> i < j
  OBVIOUS
<1> HIDE DEF before
<1>3. \A i \in set : i \in Int
  OBVIOUS
<1>4. ASSUME NEW i \in set, NEW j \in set
      PROVE  /\ <<i, i>> \notin before
             /\ i # j => <<i, j>> \in before \/ <<j, i>> \in before
             /\ \A k \in set : <<i, j>> \in before /\ <<j, k>> \in before => <<i, k>> \in before
  <2>1. <<i, i>> \notin before
    BY <1>2, <1>3
  <2>2. i # j => <<i, j>> \in before \/ <<j, i>> \in before
    BY <1>2, <1>3
  <2>3. ASSUME NEW k \in set, <<i, j>> \in before, <<j, k>> \in before PROVE <<i, k>> \in before
    BY <1>2, <1>3, <2>3
  <2> QED BY <2>1, <2>2, <2>3
<1>5. Orders(before, set)
  BY <1>4 DEF Orders
<1> QED BY <1>1, <1>5 DEF before

LEMMA AscendingPlaces ==
    ASSUME NEW n \in Nat, NEW set \in SUBSET (1..n)
    PROVE  LET line == Ascending(set)
           IN  /\ line \in Seq(set) /\ Len(line) = Cardinality(set) /\ Len(line) <= n
               /\ \A k, m \in 1..Len(line) : line[k] = line[m] => k = m
               /\ \A i \in set : \E k \in 1..Len(line) : line[k] = i
               /\ set # {} => Len(line) # 0 /\ \A j \in set : line[1] <= j
<1> DEFINE before == {ij \in set \X set : ij[1] < ij[2]}
           line == Ascending(set)
<1>1. IsFiniteSet(set) /\ Orders(before, set)
  BY PlacesAscend
<1>2. line = InLine(set, before)
  BY DEF Ascending
<1>3. \A i, j \in set : <<i, j>> \in before <=> i < j
  OBVIOUS
<1> HIDE DEF before, line
<1>4. /\ Cardinality(set) \in Nat /\ line \in Seq(set) /\ Len(line) = Cardinality(set)
      /\ \A k \in 1..Len(line) :
            line[k] \in set /\ Cardinality(Preceding(line[k], set, before)) = k - 1
      /\ \A i \in set :
            /\ Cardinality(Preceding(i, set, before)) + 1 \in 1..Len(line)
            /\ line[Cardinality(Preceding(i, set, before)) + 1] = i
  BY <1>1, <1>2, ALineIsThere
<1>5. Len(line) <= n
  <2>1. IsFiniteSet(1..n) /\ Cardinality(1..n) = n
    <3>1. Cardinality(1..n) = IF 1 > n THEN 0 ELSE n - 1 + 1
      BY FS_Interval
    <3> QED BY <3>1, FS_Interval
  <2>2. Cardinality(set) <= Cardinality(1..n)
    BY <2>1, FS_Subset
  <2> QED BY <1>4, <2>1, <2>2
<1>6. ASSUME NEW k \in 1..Len(line), NEW m \in 1..Len(line), line[k] = line[m] PROVE k = m
  <2>1. k - 1 = m - 1
    BY <1>4, <1>6
  <2> QED BY <1>4, <2>1
<1>7. ASSUME NEW i \in set PROVE \E k \in 1..Len(line) : line[k] = i
  BY <1>4
<1>8. ASSUME set # {} PROVE Len(line) # 0 /\ \A j \in set : line[1] <= j
  <2>1. Cardinality(set) # 0
    BY <1>1, <1>8, FS_EmptySet
  <2>2. 1 \in 1..Len(line) /\ 1 - 1 = 0
    BY <1>4, <2>1
  <2>3. line[1] \in set /\ Cardinality(Preceding(line[1], set, before)) = 0
    BY <1>4, <2>2
  <2>4. Preceding(line[1], set, before) = {}
    <3>1. IsFiniteSet(Preceding(line[1], set, before))
      BY <1>1, FS_Subset DEF Preceding
    <3> QED BY <2>3, <3>1, FS_EmptySet
  <2>5. \A j \in set : ~(j < line[1])
    BY <1>3, <2>3, <2>4 DEF Preceding
  <2> DEFINE least == line[1]
  <2>6. \A j \in set : j \in Int
    OBVIOUS
  <2>7. least \in set /\ \A j \in set : ~(j < least)
    BY <2>3, <2>5
  <2> HIDE DEF least
  <2>8. \A j \in set : least <= j
    BY <2>6, <2>7
  <2> QED BY <1>4, <2>1, <2>8 DEF least
<1> QED BY <1>4, <1>5, <1>6, <1>7, <1>8 DEF line

\* A set of places has a first.
LEMMA ThereIsAFirst ==
    ASSUME NEW n \in Nat, NEW set \in SUBSET (1..n), set # {},
           NEW first, first = CHOOSE i \in set : \A j \in set : i <= j
    PROVE  first \in set
<1> DEFINE line == Ascending(set)
<1>1. line \in Seq(set) /\ Len(line) # 0 /\ \A j \in set : line[1] <= j
  BY AscendingPlaces
<1> HIDE DEF line
<1>2. line[1] \in set
  BY <1>1
<1> QED BY <1>1, <1>2

\* The kept rows of a list are a list of those rows.
LEMMA RowsAreKept ==
    ASSUME NEW S, NEW list \in Seq(S), NEW places \in SUBSET DOMAIN list
    PROVE  LET kept == Kept(list, places)
               at == Ascending(places)
           IN  /\ kept \in Seq(S) /\ Len(kept) = Cardinality(places) /\ Len(kept) <= Len(list)
               /\ DOMAIN kept = DOMAIN at
               /\ \A k \in DOMAIN kept : at[k] \in places /\ kept[k] = list[at[k]]
               /\ \A k, m \in DOMAIN kept : at[k] = at[m] => k = m
               /\ \A i \in places : \E k \in DOMAIN kept : at[k] = i
<1> DEFINE kept == Kept(list, places)
           at == Ascending(places)
<1>1. Len(list) \in Nat /\ DOMAIN list = 1..Len(list) /\ \A i \in 1..Len(list) : list[i] \in S
  OBVIOUS
<1>2. /\ at \in Seq(places) /\ Len(at) = Cardinality(places) /\ Len(at) <= Len(list)
      /\ \A k, m \in 1..Len(at) : at[k] = at[m] => k = m
      /\ \A i \in places : \E k \in 1..Len(at) : at[k] = i
  <2>1. Len(list) \in Nat /\ places \in SUBSET (1..Len(list))
    BY <1>1
  <2> QED BY <2>1, AscendingPlaces
<1> HIDE DEF at
<1>3. kept = [k \in DOMAIN at |-> list[at[k]]]
  BY DEF Kept, at
<1>4. DOMAIN at = 1..Len(at) /\ Len(at) \in Nat /\ \A k \in 1..Len(at) : at[k] \in places
  BY <1>2
<1>5. \A k \in 1..Len(at) : list[at[k]] \in S
  BY <1>1, <1>4
<1> HIDE DEF kept
<1>6. kept \in [1..Len(at) -> S]
  BY <1>3, <1>4, <1>5
<1>7. kept \in Seq(S) /\ Len(kept) = Len(at) /\ DOMAIN kept = 1..Len(at)
  BY <1>4, <1>6
<1> QED BY <1>2, <1>3, <1>4, <1>7 DEF kept, at

\* What is different in every place is as many as the places.
Values(f, n) == {f[i] : i \in 1..n}
LEMMA EachCountsOnce ==
    ASSUME NEW n \in Nat, NEW f, \A i, j \in 1..n : f[i] = f[j] => i = j
    PROVE  IsFiniteSet(Values(f, n)) /\ Cardinality(Values(f, n)) = n
<1> DEFINE all == Values(f, n)
           g == [i \in 1..n |-> f[i]]
<1>1. g \in Injection(1..n, all)
  BY DEF Injection, IsInjective, Values
<1>2. g \in Surjection(1..n, all)
  BY DEF Surjection, Values
<1>3. IsFiniteSet(1..n) /\ Cardinality(1..n) = n
  <2>1. Cardinality(1..n) = IF 1 > n THEN 0 ELSE n - 1 + 1
    BY FS_Interval
  <2> QED BY <2>1, FS_Interval
<1>4. ExistsBijection(1..n, all)
  BY <1>1, <1>2 DEF ExistsBijection, Bijection
<1> HIDE DEF all
<1> QED BY <1>3, <1>4, FS_Bijection DEF all
=============================================================================
