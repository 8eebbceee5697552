-------------------------- MODULE StorefrontProofs --------------------------
(***************************************************************************)
(* What Storefront's pages guarantee for tables, orders of their rows,     *)
(* pages, caps and searches of any size.  The pages are functions of the   *)
(* tables, so each property follows from the types of the tables; the work *)
(* is in what sorting, filtering and cutting a list keep of it.  What a    *)
(* property leaves out (specials beyond the cap, say) is in its own        *)
(* hypotheses.                                                             *)
(***************************************************************************)
EXTENDS Storefront, SequenceTheorems, FiniteSetTheorems, WellFoundedInduction, TLAPS

\* A relation that puts the elements of a set in one order.
Orders(before, set) ==
    /\ \A x \in set : <<x, x>> \notin before
    /\ \A x, y, z \in set :
          <<x, y>> \in before /\ <<y, z>> \in before => <<x, z>> \in before
    /\ \A x, y \in set : x = y \/ <<x, y>> \in before \/ <<y, x>> \in before

\* InOrder lists the set, once each, in that order.
LEMMA InOrderSorts ==
    ASSUME NEW set, IsFiniteSet(set), NEW before, Orders(before, set)
    PROVE  /\ Cardinality(set) \in Nat
           /\ InOrder(set, before) \in Bijection(1 .. Cardinality(set), set)
           /\ \A i, j \in 1 .. Cardinality(set) :
                 i < j => <<InOrder(set, before)[i], InOrder(set, before)[j]>> \in before
<1> DEFINE n == Cardinality(set)
           Lower(x) == {y \in set : <<y, x>> \in before}
           rank == [x \in set |-> Cardinality(Lower(x)) + 1]
           s == InOrder(set, before)
<1>1. n \in Nat
  BY FS_CardinalityType
<1>2. \A x \in set : /\ IsFiniteSet(Lower(x))
                      /\ Cardinality(Lower(x)) \in 0 .. n - 1
                      /\ rank[x] = Cardinality(Lower(x)) + 1
  <2> SUFFICES ASSUME NEW x \in set
               PROVE  IsFiniteSet(Lower(x)) /\ Cardinality(Lower(x)) \in 0 .. n - 1
    BY Zenon
  <2>1. Lower(x) \in SUBSET set /\ Lower(x) # set
    BY DEF Orders
  <2>2. /\ IsFiniteSet(Lower(x)) /\ Cardinality(Lower(x)) <= n
        /\ Cardinality(Lower(x)) # n
    BY <2>1, FS_Subset
  <2>3. Cardinality(Lower(x)) \in Nat
    BY <2>2, FS_CardinalityType
  <2> HIDE DEF Lower
  <2> QED BY <1>1, <2>2, <2>3
<1>3. \A x, y \in set : <<x, y>> \in before => Cardinality(Lower(x)) < Cardinality(Lower(y))
  <2> SUFFICES ASSUME NEW x \in set, NEW y \in set, <<x, y>> \in before
               PROVE  Cardinality(Lower(x)) < Cardinality(Lower(y))
    OBVIOUS
  <2>1. Lower(x) \in SUBSET Lower(y) /\ x \in Lower(y) /\ x \notin Lower(x)
    BY DEF Orders
  <2>2. /\ Cardinality(Lower(x)) <= Cardinality(Lower(y))
        /\ Cardinality(Lower(x)) # Cardinality(Lower(y))
    BY <1>2, <2>1, FS_Subset
  <2>3. Cardinality(Lower(x)) \in Nat /\ Cardinality(Lower(y)) \in Nat
    BY <1>2, FS_CardinalityType
  <2> HIDE DEF Lower
  <2> QED BY <2>2, <2>3
<1>4. \A i \in 1 .. n : s[i] = CHOOSE x \in set : Cardinality(Lower(x)) = i - 1
  BY DEF InOrder
<1>5. s = [i \in 1 .. n |-> s[i]]
  <2> DEFINE element(i) == CHOOSE x \in set : Cardinality(Lower(x)) = i - 1
  <2>1. s = [i \in 1 .. n |-> element(i)]
    BY DEF InOrder
  <2> HIDE DEF element, s
  <2> QED BY <2>1
<1>6. rank = [x \in set |-> rank[x]]
  OBVIOUS
<1> HIDE DEF Lower, rank, s
<1>7. rank \in Injection(set, 1 .. n)
  <2>1. rank \in [set -> 1 .. n]
    BY <1>1, <1>2, <1>6
  <2>2. ASSUME NEW x \in set, NEW y \in set, rank[x] = rank[y] PROVE x = y
    <3>1. Cardinality(Lower(x)) = Cardinality(Lower(y))
      BY <1>1, <1>2, <2>2
    <3>2. <<x, y>> \notin before /\ <<y, x>> \notin before
      BY <1>1, <1>2, <1>3, <3>1
    <3> QED BY <3>2 DEF Orders
  <2> QED BY <2>1, <2>2 DEF Injection, IsInjective
<1>8. rank \in Surjection(set, 1 .. n)
  <2>1. IsFiniteSet(1 .. n) /\ Cardinality(1 .. n) = n
    BY <1>1, FS_Interval
  <2> QED BY <1>7, <2>1, FS_Injection DEF n
<1>9. \A i \in 1 .. n : s[i] \in set /\ rank[s[i]] = i
  <2> SUFFICES ASSUME NEW i \in 1 .. n PROVE s[i] \in set /\ rank[s[i]] = i
    OBVIOUS
  <2>1. PICK x \in set : rank[x] = i
    BY <1>8 DEF Surjection
  <2>2. \E y \in set : Cardinality(Lower(y)) = i - 1
    BY <1>1, <1>2, <2>1
  <2>3. s[i] \in set /\ Cardinality(Lower(s[i])) = i - 1
    BY <1>4, <2>2, Zenon
  <2> QED BY <1>1, <1>2, <2>3
<1>10. s \in Injection(1 .. n, set)
  BY <1>1, <1>5, <1>9 DEF Injection, IsInjective
<1>11. s \in Surjection(1 .. n, set)
  <2>1. ASSUME NEW x \in set PROVE \E i \in 1 .. n : s[i] = x
    <3>1. rank[x] \in 1 .. n
      BY <1>7 DEF Injection
    <3>2. s[rank[x]] \in set /\ rank[s[rank[x]]] = rank[x]
      BY <1>9, <3>1
    <3>3. s[rank[x]] = x
      BY <1>7, <3>2 DEF Injection, IsInjective
    <3> QED BY <3>1, <3>3
  <2> QED BY <1>5, <1>9, <2>1 DEF Surjection
<1>12. ASSUME NEW i \in 1 .. n, NEW j \in 1 .. n, i < j PROVE <<s[i], s[j]>> \in before
  <2>1. s[i] \in set /\ s[j] \in set /\ rank[s[i]] = i /\ rank[s[j]] = j
    BY <1>9
  <2>2. s[i] # s[j] /\ <<s[j], s[i]>> \notin before
    BY <1>1, <1>2, <1>3, <1>12, <2>1
  <2> QED BY <2>1, <2>2 DEF Orders
<1> QED BY <1>1, <1>10, <1>11, <1>12 DEF s, Bijection
-----------------------------------------------------------------------------
\* Numbers in ascending order.
LEMMA AscendingSorts ==
    ASSUME NEW set \in SUBSET Nat, IsFiniteSet(set)
    PROVE  /\ Cardinality(set) \in Nat
           /\ Ascending(set) \in Bijection(1 .. Cardinality(set), set)
           /\ \A i, j \in 1 .. Cardinality(set) :
                 i < j => Ascending(set)[i] < Ascending(set)[j]
<1> DEFINE before == {p \in set \X set : p[1] < p[2]}
<1>1. \A x, y \in set : <<x, y>> \in before <=> x < y
  OBVIOUS
<1>2. Orders(before, set)
  <2> HIDE DEF before
  <2>1. \A x \in set : x \in Nat
    OBVIOUS
  <2> QED BY <1>1, <2>1 DEF Orders
<1>3. Ascending(set) = InOrder(set, before)
  BY DEF Ascending
<1> HIDE DEF before
<1>4. /\ Cardinality(set) \in Nat
      /\ Ascending(set) \in Bijection(1 .. Cardinality(set), set)
      /\ \A i, j \in 1 .. Cardinality(set) :
            i < j => <<Ascending(set)[i], Ascending(set)[j]>> \in before
  BY <1>2, <1>3, InOrderSorts
<1> QED BY <1>1, <1>4 DEF Bijection, Injection

\* The numbers up to n are in ascending order as they stand.
LEMMA AscendingAll ==
    ASSUME NEW n \in Nat
    PROVE  \A i \in 1 .. n : Ascending(1 .. n)[i] = i
<1> DEFINE before == {p \in (1 .. n) \X (1 .. n) : p[1] < p[2]}
           s == Ascending(1 .. n)
<1>1. Cardinality(1 .. n) = n /\ IsFiniteSet(1 .. n)
  BY FS_Interval
<1>2. \A x \in 1 .. n : Cardinality({y \in 1 .. n : <<y, x>> \in before}) = x - 1
  <2> SUFFICES ASSUME NEW x \in 1 .. n
               PROVE  Cardinality({y \in 1 .. n : <<y, x>> \in before}) = x - 1
    OBVIOUS
  <2>1. {y \in 1 .. n : <<y, x>> \in before} = 1 .. x - 1
    OBVIOUS
  <2>2. Cardinality(1 .. x - 1) = x - 1
    BY FS_Interval
  <2> QED BY <2>1, <2>2
<1> SUFFICES ASSUME NEW i \in 1 .. n PROVE s[i] = i
  OBVIOUS
<1>3. s[i] = CHOOSE x \in 1 .. n :
                Cardinality({y \in 1 .. n : <<y, x>> \in before}) = i - 1
  BY <1>1 DEF Ascending, InOrder
<1>4. s[i] \in 1 .. n /\ Cardinality({y \in 1 .. n : <<y, s[i]>> \in before}) = i - 1
  BY <1>2, <1>3, Zenon
<1> HIDE DEF s, before
<1> QED BY <1>2, <1>4
-----------------------------------------------------------------------------
\* What a sequence has at some places, in the order of the places.
LEMMA AtPicks ==
    ASSUME NEW X, NEW s \in Seq(X), NEW P \in SUBSET (1 .. Len(s))
    PROVE  /\ Cardinality(P) \in Nat /\ Cardinality(P) <= Len(s)
           /\ Ascending(P) \in Bijection(1 .. Cardinality(P), P)
           /\ At(s, P) \in Seq(X)
           /\ Len(At(s, P)) = Cardinality(P)
           /\ \A i \in 1 .. Cardinality(P) : At(s, P)[i] = s[Ascending(P)[i]]
<1> DEFINE n == Cardinality(P)
           place == Ascending(P)
<1>1. IsFiniteSet(1 .. Len(s)) /\ Cardinality(1 .. Len(s)) = Len(s)
  BY LenProperties, FS_Interval
<1>2. IsFiniteSet(P) /\ n <= Len(s)
  BY <1>1, FS_Subset
<1>3. P \in SUBSET Nat
  OBVIOUS
<1>4. n \in Nat /\ place \in Bijection(1 .. n, P)
  BY <1>2, <1>3, AscendingSorts
<1>5. At(s, P) = [i \in 1 .. n |-> s[place[i]]]
  BY DEF At
<1> HIDE DEF n, place
<1>6. \A i \in 1 .. n : place[i] \in 1 .. Len(s)
  BY <1>4 DEF Bijection, Injection
<1>7. At(s, P) \in [1 .. n -> X]
  BY <1>5, <1>6, ElementOfSeq
<1>8. At(s, P) \in Seq(X) /\ Len(At(s, P)) = n
  BY <1>4, <1>7
<1> QED BY <1>2, <1>4, <1>5, <1>8 DEF n, place

\* All of it, where the places are all there are.
LEMMA AtAll ==
    ASSUME NEW X, NEW s \in Seq(X)
    PROVE  At(s, 1 .. Len(s)) = s
<1> DEFINE t == At(s, 1 .. Len(s))
<1>1. Len(s) \in Nat /\ Cardinality(1 .. Len(s)) = Len(s)
  BY LenProperties, FS_Interval
<1>2. /\ t \in Seq(X) /\ Len(t) = Len(s)
      /\ \A i \in 1 .. Len(s) : t[i] = s[Ascending(1 .. Len(s))[i]]
  BY <1>1, AtPicks
<1>3. \A i \in 1 .. Len(s) : t[i] = s[i]
  BY <1>1, <1>2, AscendingAll
<1> HIDE DEF t
<1>4. t = s
  BY <1>2, <1>3, SeqEqual
<1> QED BY <1>4 DEF t

\* What is at the places, and nothing else; once, if it was there once.
LEMMA AtKeeps ==
    ASSUME NEW X, NEW s \in Seq(X), NEW P \in SUBSET (1 .. Len(s))
    PROVE  /\ Range(At(s, P)) = {s[i] : i \in P}
           /\ IsInjective(s) => IsInjective(At(s, P))
<1> DEFINE n == Cardinality(P)
           place == Ascending(P)
           t == At(s, P)
<1>1. /\ n \in Nat /\ place \in Bijection(1 .. n, P)
      /\ t \in Seq(X) /\ Len(t) = n /\ \A i \in 1 .. n : t[i] = s[place[i]]
  BY AtPicks
<1> HIDE DEF n, place, t
<1>2. DOMAIN t = 1 .. n /\ DOMAIN s = 1 .. Len(s)
  BY <1>1, LenProperties
<1>3. Range(t) = {s[i] : i \in P}
  <2>1. ASSUME NEW i \in 1 .. n PROVE t[i] \in {s[j] : j \in P}
    BY <1>1 DEF Bijection, Injection
  <2>2. ASSUME NEW j \in P PROVE \E i \in 1 .. n : t[i] = s[j]
    BY <1>1 DEF Bijection, Surjection
  <2> QED BY <1>2, <2>1, <2>2 DEF Range
<1>4. ASSUME IsInjective(s) PROVE IsInjective(t)
  <2>1. \A i \in 1 .. n : place[i] \in 1 .. Len(s)
    BY <1>1 DEF Bijection, Injection
  <2>2. \A i, j \in 1 .. n : place[i] = place[j] => i = j
    BY <1>1 DEF Bijection, Injection, IsInjective
  <2> QED BY <1>1, <1>2, <1>4, <2>1, <2>2 DEF IsInjective
<1> QED BY <1>3, <1>4 DEF t
-----------------------------------------------------------------------------
\* The lesser of two numbers.
LEMMA MinOfTwo ==
    ASSUME NEW a \in Nat, NEW b \in Nat
    PROVE  Min({a, b}) = IF a <= b THEN a ELSE b
<1> DEFINE least == IF a <= b THEN a ELSE b
<1>1. least \in {a, b} /\ \A y \in {a, b} : least <= y
  OBVIOUS
<1>2. Min({a, b}) \in {a, b} /\ \A y \in {a, b} : Min({a, b}) <= y
  BY <1>1, Zenon DEF Min
<1> QED BY <1>2

\* What Slice cuts out.
LEMMA SliceOf ==
    ASSUME NEW X, NEW s \in Seq(X), NEW from \in Nat, NEW n \in Nat
    PROVE  /\ Slice(s, from, n) \in Seq(X)
           /\ Len(Slice(s, from, n)) = IF from + n <= Len(s) THEN n
                                       ELSE IF from <= Len(s) THEN Len(s) - from ELSE 0
           /\ \A i \in 1 .. Len(Slice(s, from, n)) : Slice(s, from, n)[i] = s[from + i]
<1> DEFINE end == Min({from + n, Len(s)})
<1>1. Len(s) \in Nat
  BY LenProperties
<1>2. end = IF from + n <= Len(s) THEN from + n ELSE Len(s)
  BY <1>1, MinOfTwo
<1> HIDE DEF end
<1>3. from + 1 \in Int /\ end \in Int
  BY <1>1, <1>2
<1>4. \A i \in from + 1 .. end : s[i] \in X
  BY <1>1, <1>2, ElementOfSeq
<1> DEFINE cut == SubSeq(s, from + 1, end)
<1>5. /\ cut \in Seq(X)
      /\ Len(cut) = IF from + 1 <= end THEN end - (from + 1) + 1 ELSE 0
      /\ \A i \in 1 .. end - (from + 1) + 1 : cut[i] = s[from + 1 + i - 1]
  BY <1>3, <1>4, SubSeqProperties
<1>6. Slice(s, from, n) = cut
  BY DEF Slice, end
<1> HIDE DEF cut
<1>7. Len(cut) = IF from + n <= Len(s) THEN n
                 ELSE IF from <= Len(s) THEN Len(s) - from ELSE 0
  <2> DEFINE len == Len(s)
             size == Len(cut)
  <2>1. len \in Nat /\ end = IF from + n <= len THEN from + n ELSE len
    BY <1>1, <1>2
  <2>2. size = IF from + 1 <= end THEN end - (from + 1) + 1 ELSE 0
    BY <1>5
  <2> HIDE DEF len, size
  <2>3. size = IF from + n <= len THEN n ELSE IF from <= len THEN len - from ELSE 0
    BY <2>1, <2>2
  <2> QED BY <2>3 DEF len, size
<1>8. \A i \in 1 .. Len(cut) : i \in 1 .. end - (from + 1) + 1 /\ from + 1 + i - 1 = from + i
  BY <1>3, <1>5
<1> QED BY <1>5, <1>6, <1>7, <1>8

\* The beginning of a sequence has as much of it as there is room for.
LEMMA SliceFirst ==
    ASSUME NEW X, NEW s \in Seq(X), NEW n \in Nat
    PROVE  /\ Slice(s, 0, n) \in Seq(X)
           /\ Len(Slice(s, 0, n)) = IF n <= Len(s) THEN n ELSE Len(s)
<1> DEFINE size == Len(Slice(s, 0, n))
           len == Len(s)
<1>1. len \in Nat /\ 0 \in Nat
  BY LenProperties
<1>2. /\ Slice(s, 0, n) \in Seq(X)
      /\ size = IF 0 + n <= len THEN n ELSE IF 0 <= len THEN len - 0 ELSE 0
  BY <1>1, SliceOf, Zenon
<1> HIDE DEF size, len
<1>3. size = IF n <= len THEN n ELSE len
  BY <1>1, <1>2
<1> QED BY <1>2, <1>3 DEF size, len

\* A sequence is not cut where there is room for it.
LEMMA SliceWhole ==
    ASSUME NEW X, NEW s \in Seq(X), NEW n \in Nat, Len(s) <= n
    PROVE  Slice(s, 0, n) = s
<1>1. Len(s) \in Nat
  BY LenProperties
<1> DEFINE t == Slice(s, 0, n)
<1>2. 0 \in Nat
  OBVIOUS
<1>3. /\ t \in Seq(X)
      /\ Len(t) = IF 0 + n <= Len(s) THEN n ELSE IF 0 <= Len(s) THEN Len(s) - 0 ELSE 0
      /\ \A i \in 1 .. Len(t) : t[i] = s[0 + i]
  BY <1>2, SliceOf, Zenon
<1> HIDE DEF t
<1>4. Len(t) = Len(s)
  BY <1>1, <1>3
<1>5. \A i \in 1 .. Len(s) : t[i] = s[i]
  <2>1. \A i \in 1 .. Len(s) : 0 + i = i
    BY <1>1
  <2> QED BY <1>3, <1>4, <2>1
<1>6. t = s
  BY <1>3, <1>4, <1>5, SeqEqual
<1> QED BY <1>6 DEF t

\* The beginning of a cut is a shorter cut.
LEMMA SliceTwice ==
    ASSUME NEW X, NEW s \in Seq(X), NEW from \in Nat, NEW m \in Nat, NEW n \in Nat,
           n <= m
    PROVE  Slice(Slice(s, from, m), 0, n) = Slice(s, from, n)
<1> DEFINE t == Slice(s, from, m)
           u == Slice(t, 0, n)
           v == Slice(s, from, n)
<1>1. Len(s) \in Nat
  BY LenProperties
<1>2. /\ t \in Seq(X)
      /\ Len(t) = IF from + m <= Len(s) THEN m
                  ELSE IF from <= Len(s) THEN Len(s) - from ELSE 0
      /\ \A i \in 1 .. Len(t) : t[i] = s[from + i]
  BY SliceOf
<1>3. /\ v \in Seq(X)
      /\ Len(v) = IF from + n <= Len(s) THEN n
                  ELSE IF from <= Len(s) THEN Len(s) - from ELSE 0
      /\ \A i \in 1 .. Len(v) : v[i] = s[from + i]
  BY SliceOf
<1> HIDE DEF t, v
<1>4. /\ u \in Seq(X)
      /\ Len(u) = IF 0 + n <= Len(t) THEN n ELSE IF 0 <= Len(t) THEN Len(t) - 0 ELSE 0
      /\ \A i \in 1 .. Len(u) : u[i] = t[0 + i]
  <2>1. 0 \in Nat /\ t \in Seq(X)
    BY <1>2
  <2> QED BY <2>1, SliceOf, Zenon
<1> HIDE DEF u
<1>5. Len(u) = Len(v)
  BY <1>1, <1>2, <1>3, <1>4
<1>6. \A i \in 1 .. Len(u) : i \in 1 .. Len(t) /\ 0 + i = i
  BY <1>1, <1>2, <1>4
<1>7. \A i \in 1 .. Len(u) : u[i] = v[i]
  BY <1>2, <1>3, <1>4, <1>5, <1>6
<1>8. u = v
  BY <1>3, <1>4, <1>5, <1>7, SeqEqual
<1> QED BY <1>8 DEF u, v, t

\* A sequence that repeats nothing is as long as the set of what is in it.
LEMMA InjectiveCount ==
    ASSUME NEW X, NEW s \in Seq(X), IsInjective(s)
    PROVE  IsFiniteSet(Range(s)) /\ Cardinality(Range(s)) = Len(s)
<1>1. Len(s) \in Nat /\ DOMAIN s = 1 .. Len(s) /\ s \in [1 .. Len(s) -> X]
  BY LenProperties
<1>2. s \in [1 .. Len(s) -> Range(s)] /\ \A x \in Range(s) : \E i \in 1 .. Len(s) : s[i] = x
  BY <1>1 DEF Range
<1>3. s \in Bijection(1 .. Len(s), Range(s))
  BY <1>2 DEF Bijection, Injection, Surjection
<1>4. IsFiniteSet(1 .. Len(s)) /\ Cardinality(1 .. Len(s)) = Len(s)
  BY <1>1, FS_Interval
<1>5. ExistsBijection(1 .. Len(s), Range(s))
  BY <1>3 DEF ExistsBijection
<1> QED BY <1>4, <1>5, FS_Bijection
-----------------------------------------------------------------------------
\* A set of natural numbers that is not empty has a least element.
LEMMA LeastOfNats ==
    ASSUME NEW S \in SUBSET Nat, S # {}
    PROVE  Min(S) \in S /\ \A m \in S : Min(S) <= m
<1>1. PICK n \in S : \A m \in S : <<m, n>> \notin OpToRel(<, Nat)
  BY NatLessThanWellFounded, WFMin, Zenon
<1>2. \A m \in S : ~(m < n)
  BY <1>1 DEF OpToRel
<1>3. \A m \in S : n <= m
  BY <1>2
<1> QED BY <1>3, Zenon DEF Min

\* A page of a sequence holds its share of it.
LEMMA PageHolds ==
    ASSUME NEW X, NEW s \in Seq(X), NEW page \in Nat \ {0}
    PROVE  Len(Slice(s, (page - 1) * PageSize, PageSize)) = OnPage(Len(s), page)
<1> DEFINE before == (page - 1) * PageSize
           len == Len(s)
           size == Len(Slice(s, before, PageSize))
<1>1. len \in Nat /\ before \in Nat /\ PageSize \in Nat
  BY LenProperties, TablesAllowed
<1>2. size = IF before + PageSize <= len THEN PageSize
             ELSE IF before <= len THEN len - before ELSE 0
  BY <1>1, SliceOf
<1>3. OnPage(len, page) = IF len <= before THEN 0 ELSE Min({PageSize, len - before})
  BY DEF OnPage
<1> HIDE DEF before, len, size
<1>4. ASSUME len <= before PROVE size = OnPage(len, page)
  BY <1>1, <1>2, <1>3, <1>4
<1>5. ASSUME ~(len <= before) PROVE size = OnPage(len, page)
  <2>1. len - before \in Nat
    BY <1>1, <1>5
  <2>2. Min({PageSize, len - before}) = IF PageSize <= len - before THEN PageSize ELSE len - before
    BY <1>1, <2>1, MinOfTwo
  <2> QED BY <1>1, <1>2, <1>3, <1>5, <2>2
<1>6. size = OnPage(len, page)
  BY <1>4, <1>5
<1> QED BY <1>6 DEF size, len, before

\* The share of more is no less, and no share is more than a page.
LEMMA ShareGrows ==
    ASSUME NEW m \in Nat, NEW n \in Nat, m <= n, NEW page \in Nat \ {0}
    PROVE  /\ OnPage(m, page) \in Nat /\ OnPage(n, page) \in Nat
           /\ OnPage(m, page) <= OnPage(n, page) /\ OnPage(n, page) <= PageSize
           /\ page = 1 => OnPage(n, page) = IF PageSize <= n THEN PageSize ELSE n
<1> DEFINE before == (page - 1) * PageSize
           Share(k) == IF k <= before THEN 0
                       ELSE IF PageSize <= k - before THEN PageSize ELSE k - before
<1>1. before \in Nat /\ PageSize \in Nat /\ PageSize > 0
  BY TablesAllowed
<1>2. ASSUME NEW k \in Nat PROVE OnPage(k, page) = Share(k)
  <2> HIDE DEF before
  <2>1. OnPage(k, page) = IF k <= before THEN 0 ELSE Min({PageSize, k - before})
    BY DEF OnPage, before
  <2>2. ~(k <= before) => k - before \in Nat
    BY <1>1
  <2>3. ~(k <= before) =>
           Min({PageSize, k - before}) = IF PageSize <= k - before THEN PageSize ELSE k - before
    BY <1>1, <2>2, MinOfTwo
  <2> QED BY <2>1, <2>3
<1>3. page = 1 => before = 0
  BY <1>1
<1> HIDE DEF before
<1> QED BY <1>1, <1>2, <1>3

\* The pages of a total are counted.
LEMMA PagesCounted ==
    ASSUME NEW total \in Nat
    PROVE  Pages(total) \in Nat
<1>1. PageSize \in Nat /\ PageSize > 0
  BY TablesAllowed
<1> DEFINE x == total + PageSize - 1
<1>2. x \in Nat
  BY <1>1
<1> QED BY <1>1, <1>2 DEF Pages
-----------------------------------------------------------------------------
\* Of finitely many things one has the greatest number.
LEMMA Greatest ==
    ASSUME NEW S, IsFiniteSet(S), S # {}, NEW f, \A x \in S : f[x] \in Nat
    PROVE  \E x \in S : \A y \in S : f[x] >= f[y]
<1> DEFINE Above(x) == {y \in S : f[y] > f[x]}
           Counts == {Cardinality(Above(x)) : x \in S}
<1>1. \A x \in S : IsFiniteSet(Above(x)) /\ Cardinality(Above(x)) \in Nat
  <2> SUFFICES ASSUME NEW x \in S
               PROVE  IsFiniteSet(Above(x)) /\ Cardinality(Above(x)) \in Nat
    OBVIOUS
  <2>1. Above(x) \in SUBSET S
    OBVIOUS
  <2> HIDE DEF Above
  <2> QED BY <2>1, FS_Subset, FS_CardinalityType
<1>2. Min(Counts) \in Counts /\ \A c \in Counts : Min(Counts) <= c
  <2>1. Counts \in SUBSET Nat /\ Counts # {}
    BY <1>1
  <2> QED BY <2>1, LeastOfNats
<1>3. PICK x \in S : Cardinality(Above(x)) = Min(Counts)
  BY <1>2
<1>4. ASSUME NEW y \in S, f[y] > f[x] PROVE FALSE
  <2>1. Above(y) \in SUBSET Above(x)
    BY <1>4
  <2>2. y \in Above(x) /\ y \notin Above(y)
    BY <1>4
  <2>3. Cardinality(Above(y)) <= Cardinality(Above(x)) /\ Cardinality(Above(y)) # Cardinality(Above(x))
    BY <1>1, <2>1, <2>2, FS_Subset
  <2>4. Cardinality(Above(x)) <= Cardinality(Above(y))
    BY <1>2, <1>3
  <2>5. Cardinality(Above(x)) \in Nat /\ Cardinality(Above(y)) \in Nat
    BY <1>1
  <2> HIDE DEF Above
  <2> QED BY <2>3, <2>4, <2>5
<1> QED BY <1>4

\* The best of some rows is one of them.
LEMMA BestIsOne ==
    ASSUME NEW rows \in SUBSET Row, IsFiniteSet(rows), rows # {}
    PROVE  Best(rows) \in rows
<1> DEFINE first == IF \E r \in rows : r.active THEN {r \in rows : r.active} ELSE rows
           seen == [r \in first |-> r.seen]
<1>1. \A r \in rows : r.seen \in Nat /\ r.active \in BOOLEAN
  BY DEF Row
<1>2. first \in SUBSET rows /\ first # {}
  OBVIOUS
<1>3. IsFiniteSet(first)
  BY <1>2, FS_Subset
<1>4. \A r \in first : seen[r] = r.seen /\ seen[r] \in Nat
  BY <1>1, <1>2
<1>5. PICK r \in first : \A s \in first : seen[r] >= seen[s]
  <2> HIDE DEF first, seen
  <2> QED BY <1>2, <1>3, <1>4, Greatest
<1>6. \A s \in first : r.seen >= s.seen
  BY <1>4, <1>5
<1>7. \A s \in rows : Better(r, s)
  <2> SUFFICES ASSUME NEW s \in rows PROVE Better(r, s)
    OBVIOUS
  <2>1. r.active # s.active => r.active
    BY <1>1, <1>2
  <2>2. r.active = s.active => s \in first
    BY <1>1, <1>2
  <2> HIDE DEF first
  <2> QED BY <1>6, <2>1, <2>2 DEF Better
<1>8. \E x \in rows : \A s \in rows : Better(x, s)
  BY <1>2, <1>7
<1> QED BY <1>8, Zenon DEF Best

\* The row that stands for a VIN is one of its rows, and passes; there is one,
\* if any of them does.
LEMMA BestRowIs ==
    ASSUME TypeOK, NEW v, NEW q
    PROVE  /\ BestRow(v, q) # NoRow => /\ BestRow(v, q) \in listings
                                       /\ BestRow(v, q) \in Row
                                       /\ BestRow(v, q).vin = v
                                       /\ Passes(BestRow(v, q), q)
           /\ \A r \in listings : r.vin = v /\ Passes(r, q) => BestRow(v, q) # NoRow
<1> DEFINE rows == {r \in listings : r.vin = v /\ Passes(r, q)}
<1>1. listings \in SUBSET Rows /\ listings \in SUBSET Row /\ IsFiniteSet(Rows)
  BY TablesAllowed DEF TypeOK
<1>2. rows \in SUBSET Rows /\ rows \in SUBSET Row
  BY <1>1
<1>3. IsFiniteSet(rows)
  BY <1>1, <1>2, FS_Subset
<1>4. BestRow(v, q) = Best(rows)
  BY DEF BestRow
<1>5. CASE rows = {}
  <2>1. Best(rows) = NoRow
    BY <1>5 DEF Best
  <2> QED BY <1>4, <1>5, <2>1
<1>6. CASE rows # {}
  <2>1. Best(rows) \in rows
    <3> HIDE DEF rows
    <3> QED BY <1>2, <1>3, <1>6, BestIsOne
  <2>2. Best(rows).vin # 0
    BY <1>1, <2>1, TablesAllowed DEF Row
  <2>3. Best(rows) # NoRow
    BY <2>2 DEF NoRow
  <2>4. Best(rows) \in listings /\ Best(rows).vin = v /\ Passes(Best(rows), q)
    BY <2>1
  <2> HIDE DEF rows
  <2> QED BY <1>1, <1>4, <2>3, <2>4
<1> QED BY <1>5, <1>6

\* The best of some vehicles' offers is one of them.
LEMMA BestOfferIs ==
    ASSUME TypeOK, NEW vins \in SUBSET Vins, vins # {}
    PROVE  \E v \in vins : BestOffer(vins) = offers[v]
<1> DEFINE priority == [v \in vins |-> Priority(offers[v])]
<1>1. IsFiniteSet(vins)
  BY TablesAllowed, FS_Subset
<1>2. \A v \in vins : Priority(offers[v]) \in Nat
  BY DEF Priority
<1>3. \A v \in vins : priority[v] = Priority(offers[v]) /\ priority[v] \in Nat
  BY <1>2
<1>4. PICK v \in vins : \A u \in vins : priority[v] >= priority[u]
  <2> HIDE DEF priority
  <2> QED BY <1>1, <1>3, Greatest
<1>5. \E x \in vins : \A u \in vins : Priority(offers[x]) >= Priority(offers[u])
  <2>1. \A u \in vins : Priority(offers[v]) >= Priority(offers[u])
    BY <1>3, <1>4
  <2> QED BY <2>1
<1> QED BY <1>5, Zenon DEF BestOffer

\* What stands for a line is an offer of a vehicle of that line, if anything.
LEMMA LineOfferIs ==
    ASSUME TypeOK, NEW line
    PROVE  \/ LineOffer(line) = NoOffer
           \/ /\ line # 0
              /\ \E v \in Vins : /\ offers[v] # NoOffer /\ LineOffer(line) = offers[v]
                                 /\ OfferedLine(v, Listing(v)) = line
<1> DEFINE vins == {v \in Vins : offers[v] # NoOffer /\ OfferedLine(v, Listing(v)) = line}
<1>1. CASE line = 0 \/ vins = {}
  BY <1>1 DEF LineOffer, BestOffer
<1>2. CASE line # 0 /\ vins # {}
  <2>1. LineOffer(line) = BestOffer(vins)
    BY <1>2 DEF LineOffer
  <2>2. PICK v \in vins : BestOffer(vins) = offers[v]
    <3>1. vins \in SUBSET Vins
      OBVIOUS
    <3> HIDE DEF vins
    <3> QED BY <1>2, <3>1, BestOfferIs
  <2> QED BY <1>2, <2>1, <2>2
<1> QED BY <1>1, <1>2
-----------------------------------------------------------------------------
\* A bijection from 1 .. n is a sequence without repetitions.
LEMMA BijectionList ==
    ASSUME NEW set, NEW n \in Nat, NEW s \in Bijection(1 .. n, set)
    PROVE  s \in Seq(set) /\ Len(s) = n /\ IsInjective(s) /\ Range(s) = set
<1>1. s \in [1 .. n -> set] /\ DOMAIN s = 1 .. n
  BY DEF Bijection, Injection
<1>2. s \in Seq(set) /\ Len(s) = n
  BY <1>1
<1>3. IsInjective(s)
  BY DEF Bijection, Injection
<1>4. Range(s) = set
  BY <1>1 DEF Bijection, Surjection, Range
<1> QED BY <1>2, <1>3, <1>4

\* The orders of a finite set list it, each element once.
LEMMA OrderLists ==
    ASSUME NEW set, IsFiniteSet(set), NEW s \in SetToSeqs(set)
    PROVE  /\ s \in Seq(set)
           /\ Cardinality(set) \in Nat /\ Len(s) = Cardinality(set)
           /\ IsInjective(s) /\ Range(s) = set
<1> DEFINE n == Cardinality(set)
<1>1. n \in Nat
  BY FS_CardinalityType
<1>2. s \in [1 .. n -> set] /\ \A i, j \in 1 .. n : i # j => s[i] # s[j]
  BY DEF SetToSeqs
<1>3. s \in Injection(1 .. n, set)
  BY <1>2 DEF Injection, IsInjective
<1>4. IsFiniteSet(1 .. n) /\ Cardinality(1 .. n) = n
  BY <1>1, FS_Interval
<1>5. s \in Surjection(1 .. n, set)
  BY <1>3, <1>4, FS_Injection
<1>6. s \in Bijection(1 .. n, set)
  BY <1>3, <1>5 DEF Bijection
<1> QED BY <1>1, <1>6, BijectionList

\* What is in a row of a table.
LEMMA Numbers ==
    /\ Vins \in SUBSET Nat /\ 0 \notin Vins
    /\ Price \in SUBSET Nat /\ Line \in SUBSET Nat
    /\ PageSize \in Nat /\ PageSize > 0 /\ Limit \in Nat
BY TablesAllowed DEF Price, Line

\* What the columns of a listing are, and that it is none of the missing ones.
LEMMA RowTypes ==
    ASSUME NEW r \in Row
    PROVE  /\ r.vin \in Vins /\ r.line \in Nat /\ r.msrp \in Nat /\ r.listed \in Nat
           /\ r.feed \in BOOLEAN /\ r.active \in BOOLEAN /\ r # NoRow
<1>1. /\ r.vin \in Vins /\ r.line \in Line /\ r.msrp \in Price /\ r.listed \in Price
      /\ r.feed \in BOOLEAN /\ r.active \in BOOLEAN
  BY DEF Row
<1>2. r.vin # NoRow.vin
  BY <1>1, Numbers DEF NoRow
<1> QED BY <1>1, <1>2, Numbers

\* What the columns of an offer are, one that is not there among them.
LEMMA OfferTypes ==
    ASSUME NEW o \in Offer \cup {NoOffer}
    PROVE  o.monthly \in BOOLEAN /\ o.discounted \in Nat
<1>1. CASE o \in Offer
  BY <1>1, Numbers DEF Offer
<1>2. CASE o = NoOffer
  BY <1>2 DEF NoOffer
<1> QED BY <1>1, <1>2

\* What the columns of a manual vehicle are.
LEMMA ManualTypes ==
    ASSUME NEW m \in Manual
    PROVE  m.line \in Nat /\ m.msrp \in Nat /\ m.listed \in Nat
BY Numbers DEF Manual

\* The VINs that a search may show, by the row that stands for them.
Found(q) == {v \in Vins : BestRow(v, q) # NoRow}

\* The specials in the order of their lines, then of their VINs, each once.
LEMMA BroadList ==
    ASSUME TypeOK, NEW q, Wanted(q) \in SUBSET Found(q)
    PROVE  /\ BroadOrder(q) \in Seq(Wanted(q))
           /\ Cardinality(Wanted(q)) \in Nat
           /\ Len(BroadOrder(q)) = Cardinality(Wanted(q))
           /\ IsInjective(BroadOrder(q)) /\ Range(BroadOrder(q)) = Wanted(q)
<1> DEFINE vins == Wanted(q)
           line == [v \in vins |-> BestRow(v, q).line]
           before == {p \in vins \X vins : \/ line[p[1]] < line[p[2]]
                                           \/ line[p[1]] = line[p[2]] /\ p[1] < p[2]}
<1>1. IsFiniteSet(vins) /\ vins \in SUBSET Nat
  BY TablesAllowed, FS_Subset DEF Found
<1>2. \A v \in vins : line[v] \in Nat
  <2> SUFFICES ASSUME NEW v \in vins PROVE BestRow(v, q).line \in Nat
    OBVIOUS
  <2>1. BestRow(v, q) \in Row
    BY BestRowIs DEF Found
  <2> QED BY <2>1, RowTypes
<1>3. BroadOrder(q) = InOrder(vins, before)
  BY DEF BroadOrder
<1>4. \A x, y \in vins :
         <<x, y>> \in before <=> line[x] < line[y] \/ (line[x] = line[y] /\ x < y)
  OBVIOUS
<1>5. \A x \in vins : x \in Nat
  BY <1>1
<1> HIDE DEF before, line, vins
<1>6. Orders(before, vins)
  BY <1>2, <1>4, <1>5 DEF Orders
<1>7. /\ Cardinality(vins) \in Nat
      /\ BroadOrder(q) \in Bijection(1 .. Cardinality(vins), vins)
  BY <1>1, <1>3, <1>6, InOrderSorts
<1> QED BY <1>7, BijectionList DEF vins
-----------------------------------------------------------------------------
\* An entry of a page.
Item == [vin : Vins, monthly : Nat, special : BOOLEAN]

\* The VINs of a page, place by place.
LEMMA VinsOfItems ==
    ASSUME NEW items \in Seq(Item)
    PROVE  /\ VinsOf(items) \in Seq(Vins)
           /\ Len(VinsOf(items)) = Len(items)
           /\ \A i \in 1 .. Len(items) : VinsOf(items)[i] = items[i].vin
<1>1. Len(items) \in Nat /\ \A i \in 1 .. Len(items) : items[i] \in Item
  BY LenProperties, ElementOfSeq
<1>2. VinsOf(items) = [i \in 1 .. Len(items) |-> items[i].vin]
  BY DEF VinsOf, Each
<1>3. \A i \in 1 .. Len(items) : items[i].vin \in Vins
  BY <1>1 DEF Item
<1>4. VinsOf(items) \in [1 .. Len(items) -> Vins]
  BY <1>2, <1>3
<1> QED BY <1>1, <1>2, <1>4

\* Filtering items and cutting them filters and cuts their VINs.
LEMMA VinsOfAt ==
    ASSUME NEW items \in Seq(Item), NEW P \in SUBSET (1 .. Len(items))
    PROVE  At(items, P) \in Seq(Item) /\ VinsOf(At(items, P)) = At(VinsOf(items), P)
<1> DEFINE vins == VinsOf(items)
           some == At(items, P)
<1>1. vins \in Seq(Vins) /\ Len(vins) = Len(items) /\ \A i \in 1 .. Len(items) : vins[i] = items[i].vin
  BY VinsOfItems
<1>2. /\ Cardinality(P) \in Nat /\ Ascending(P) \in Bijection(1 .. Cardinality(P), P)
      /\ some \in Seq(Item) /\ Len(some) = Cardinality(P)
      /\ \A i \in 1 .. Cardinality(P) : some[i] = items[Ascending(P)[i]]
  BY AtPicks
<1>3. /\ VinsOf(some) \in Seq(Vins) /\ Len(VinsOf(some)) = Cardinality(P)
      /\ \A i \in 1 .. Cardinality(P) : VinsOf(some)[i] = some[i].vin
  BY <1>2, VinsOfItems
<1> HIDE DEF vins, some
<1>4. /\ At(vins, P) \in Seq(Vins) /\ Len(At(vins, P)) = Cardinality(P)
      /\ \A i \in 1 .. Cardinality(P) : At(vins, P)[i] = vins[Ascending(P)[i]]
  <2>1. P \in SUBSET (1 .. Len(vins))
    BY <1>1
  <2> QED BY <1>1, <2>1, AtPicks
<1>5. \A i \in 1 .. Cardinality(P) : Ascending(P)[i] \in 1 .. Len(items)
  BY <1>2 DEF Bijection, Injection
<1>6. \A i \in 1 .. Cardinality(P) : VinsOf(some)[i] = At(vins, P)[i]
  <2> SUFFICES ASSUME NEW i \in 1 .. Cardinality(P)
               PROVE  VinsOf(some)[i] = At(vins, P)[i]
    OBVIOUS
  <2> DEFINE k == Ascending(P)[i]
  <2>1. k \in 1 .. Len(items) /\ some[i] = items[k] /\ At(vins, P)[i] = vins[k]
    BY <1>2, <1>4, <1>5
  <2>2. VinsOf(some)[i] = some[i].vin
    BY <1>3
  <2> HIDE DEF k
  <2> QED BY <1>1, <2>1, <2>2
<1>7. VinsOf(some) = At(vins, P)
  BY <1>3, <1>4, <1>6, SeqEqual
<1> QED BY <1>2, <1>7 DEF vins, some

\* Cutting a page cuts its VINs.
LEMMA VinsOfSlice ==
    ASSUME NEW items \in Seq(Item), NEW from \in Nat, NEW n \in Nat
    PROVE  /\ Slice(items, from, n) \in Seq(Item)
           /\ VinsOf(Slice(items, from, n)) = Slice(VinsOf(items), from, n)
<1> DEFINE vins == VinsOf(items)
           cut == Slice(items, from, n)
           other == Slice(vins, from, n)
<1>1. vins \in Seq(Vins) /\ Len(vins) = Len(items) /\ \A i \in 1 .. Len(items) : vins[i] = items[i].vin
  BY VinsOfItems
<1>2. /\ cut \in Seq(Item)
      /\ Len(cut) = IF from + n <= Len(items) THEN n
                    ELSE IF from <= Len(items) THEN Len(items) - from ELSE 0
      /\ \A i \in 1 .. Len(cut) : cut[i] = items[from + i]
  BY SliceOf
<1> HIDE DEF vins
<1>3. /\ other \in Seq(Vins)
      /\ Len(other) = IF from + n <= Len(vins) THEN n
                      ELSE IF from <= Len(vins) THEN Len(vins) - from ELSE 0
      /\ \A i \in 1 .. Len(other) : other[i] = vins[from + i]
  BY <1>1, SliceOf
<1> HIDE DEF cut, other
<1>4. /\ VinsOf(cut) \in Seq(Vins) /\ Len(VinsOf(cut)) = Len(cut)
      /\ \A i \in 1 .. Len(cut) : VinsOf(cut)[i] = cut[i].vin
  BY <1>2, VinsOfItems
<1>5. Len(other) = Len(cut)
  BY <1>1, <1>2, <1>3
<1>6. \A i \in 1 .. Len(cut) : from + i \in 1 .. Len(items)
  <2>1. Len(items) \in Nat
    BY LenProperties
  <2> QED BY <1>2, <2>1
<1>7. \A i \in 1 .. Len(cut) : VinsOf(cut)[i] = other[i]
  BY <1>1, <1>2, <1>3, <1>4, <1>5, <1>6
<1>8. VinsOf(cut) = other
  BY <1>3, <1>4, <1>5, <1>7, SeqEqual
<1> QED BY <1>2, <1>8 DEF vins, cut, other

\* Two lists without repetitions that share nothing make one.
LEMMA ConcatInjective ==
    ASSUME NEW X, NEW s \in Seq(X), NEW t \in Seq(X), IsInjective(s), IsInjective(t),
           \A i \in 1 .. Len(s), j \in 1 .. Len(t) : s[i] # t[j]
    PROVE  IsInjective(s \o t)
<1> DEFINE u == s \o t
           m == Len(s)
           n == Len(t)
<1>1. m \in Nat /\ n \in Nat /\ DOMAIN s = 1 .. m /\ DOMAIN t = 1 .. n
  BY LenProperties
<1>2. u \in Seq(X) /\ Len(u) = m + n /\ \A i \in 1 .. m + n : u[i] = IF i <= m THEN s[i] ELSE t[i - m]
  BY ConcatProperties
<1>3. DOMAIN u = 1 .. m + n
  BY <1>2, LenProperties
<1>4. \A i, j \in 1 .. m : s[i] = s[j] => i = j
  BY <1>1 DEF IsInjective
<1>5. \A i, j \in 1 .. n : t[i] = t[j] => i = j
  BY <1>1 DEF IsInjective
<1>6. \A i \in 1 .. m, j \in 1 .. n : s[i] # t[j]
  OBVIOUS
<1> HIDE DEF u, m, n
<1>7. ASSUME NEW i \in 1 .. m + n, NEW j \in 1 .. m + n, u[i] = u[j] PROVE i = j
  <2>1. CASE i <= m /\ j <= m
    BY <1>1, <1>2, <1>4, <1>7, <2>1
  <2>2. CASE ~(i <= m) /\ ~(j <= m)
    <3>1. i - m \in 1 .. n /\ j - m \in 1 .. n
      BY <1>1, <2>2
    <3>2. t[i - m] = t[j - m]
      BY <1>2, <1>7, <2>2
    <3>3. i - m = j - m
      BY <1>5, <3>1, <3>2
    <3> QED BY <1>1, <3>3
  <2>3. CASE i <= m /\ ~(j <= m)
    <3>1. i \in 1 .. m /\ j - m \in 1 .. n
      BY <1>1, <2>3
    <3>2. u[i] = s[i] /\ u[j] = t[j - m]
      BY <1>2, <2>3
    <3> QED BY <1>6, <1>7, <3>1, <3>2
  <2>4. CASE ~(i <= m) /\ j <= m
    <3>1. j \in 1 .. m /\ i - m \in 1 .. n
      BY <1>1, <2>4
    <3>2. u[j] = s[j] /\ u[i] = t[i - m]
      BY <1>2, <2>4
    <3> QED BY <1>6, <1>7, <3>1, <3>2
  <2> QED BY <2>1, <2>2, <2>3, <2>4
<1> QED BY <1>3, <1>7 DEF IsInjective, u
-----------------------------------------------------------------------------
\* The offer a vehicle is shown with is one of the table, or none.
LEMMA ResolvedTyped ==
    ASSUME TypeOK, NEW v \in Vins, NEW line, NEW own, NEW fallback
    PROVE  Resolved(v, line, own, fallback) \in Offer \cup {NoOffer}
<1>1. \A u \in Vins : offers[u] \in Offer \cup {NoOffer}
  BY DEF TypeOK
<1>2. LineOffer(line) \in Offer \cup {NoOffer}
  BY <1>1, LineOfferIs
<1> QED BY <1>1, <1>2 DEF Resolved

\* A monthly estimate is a number.
LEMMA EstimateTyped ==
    ASSUME NEW type, NEW msrp \in Nat, NEW discounted \in Nat, NEW listed \in Nat
    PROVE  Estimate(type, msrp, discounted, listed) \in Nat
BY DEF Estimate, Coalesce

\* So is a listing's.
LEMMA RowEstimateTyped ==
    ASSUME NEW r \in Row, NEW o \in Offer \cup {NoOffer}
    PROVE  RowEstimate(r, o) \in Nat
BY RowTypes, OfferTypes, EstimateTyped DEF RowEstimate

\* The listings of a search are items, one for each of their VINs.
ItemsOf(s, q) == Each(s, LAMBDA v : ItemOf(v, BestRow(v, q), q))

\* A VIN that is found makes an item.
LEMMA ItemTyped ==
    ASSUME TypeOK, NEW q, NEW v \in Found(q)
    PROVE  /\ ItemOf(v, BestRow(v, q), q) \in Item
           /\ ItemOf(v, BestRow(v, q), q).vin = v
<1> DEFINE row == BestRow(v, q)
           offer == Resolved(v, row.line, TRUE, q.line # 0)
<1>1. row \in Row /\ v \in Vins
  BY BestRowIs DEF Found
<1>2. offer \in Offer \cup {NoOffer}
  BY <1>1, ResolvedTyped
<1> HIDE DEF row, offer
<1>3. RowEstimate(row, offer) \in Nat
  BY <1>1, <1>2, RowEstimateTyped
<1>4. VisibleSpecial(row, offer, RowEstimate(row, offer)) \in BOOLEAN
  BY <1>2, OfferTypes DEF VisibleSpecial, Visible
<1>5. ItemOf(v, row, q) = [vin |-> v, monthly |-> RowEstimate(row, offer),
                           special |-> VisibleSpecial(row, offer, RowEstimate(row, offer))]
  BY DEF ItemOf, Priced, offer
<1>6. ItemOf(v, row, q) \in Item /\ ItemOf(v, row, q).vin = v
  BY <1>1, <1>3, <1>4, <1>5 DEF Item
<1> QED BY <1>6 DEF row

\* The VINs found make as many items, in their order.
LEMMA ItemsOfTyped ==
    ASSUME TypeOK, NEW q, NEW s \in Seq(Found(q))
    PROVE  /\ ItemsOf(s, q) \in Seq(Item) /\ Len(ItemsOf(s, q)) = Len(s)
           /\ \A i \in 1 .. Len(s) : ItemsOf(s, q)[i] = ItemOf(s[i], BestRow(s[i], q), q)
           /\ VinsOf(ItemsOf(s, q)) = s
<1> DEFINE items == ItemsOf(s, q)
           item == [v \in Found(q) |-> ItemOf(v, BestRow(v, q), q)]
<1>1. Len(s) \in Nat /\ \A i \in 1 .. Len(s) : s[i] \in Found(q)
  BY LenProperties, ElementOfSeq
<1>2. \A v \in Found(q) : item[v] \in Item /\ item[v].vin = v
  BY ItemTyped
<1>3. items = [i \in 1 .. Len(s) |-> ItemOf(s[i], BestRow(s[i], q), q)]
  BY DEF ItemsOf, Each
<1>4. \A i \in 1 .. Len(s) : items[i] = item[s[i]]
  BY <1>1, <1>3
<1>5. items = [i \in 1 .. Len(s) |-> items[i]]
  <2> DEFINE e(i) == ItemOf(s[i], BestRow(s[i], q), q)
  <2>1. items = [i \in 1 .. Len(s) |-> e(i)]
    BY <1>3
  <2> HIDE DEF e, items
  <2> QED BY <2>1
<1>6. \A i \in 1 .. Len(s) : items[i] = ItemOf(s[i], BestRow(s[i], q), q)
  BY <1>3
<1> HIDE DEF item, items
<1>7. items \in [1 .. Len(s) -> Item]
  BY <1>1, <1>2, <1>4, <1>5
<1>8. items \in Seq(Item) /\ Len(items) = Len(s)
  BY <1>1, <1>7
<1>9. /\ VinsOf(items) \in Seq(Vins) /\ Len(VinsOf(items)) = Len(s)
      /\ \A i \in 1 .. Len(s) : VinsOf(items)[i] = s[i]
  BY <1>1, <1>2, <1>4, <1>8, VinsOfItems
<1>10. s \in Seq(Vins)
  BY <1>1 DEF Found
<1>11. VinsOf(items) = s
  BY <1>9, <1>10, SeqEqual
<1> QED BY <1>6, <1>8, <1>11 DEF items

\* What a search shows of the listings that were fetched for it: all of them,
\* or the specials among them.
LEMMA ListingItemsAre ==
    ASSUME TypeOK, NEW q \in Query, NEW page, NEW rows,
           Window(rows, q, page) \in Seq(Found(q)), IsInjective(Window(rows, q, page))
    PROVE  /\ ListingItems(q, page, rows) \in Seq(Item)
           /\ IsInjective(VinsOf(ListingItems(q, page, rows)))
           /\ Len(ListingItems(q, page, rows)) <= Len(Window(rows, q, page))
           /\ ~q.offersOnly =>
                 ListingItems(q, page, rows) = ItemsOf(Window(rows, q, page), q)
           /\ q.offersOnly =>
                 Range(VinsOf(ListingItems(q, page, rows))) =
                    {v \in Range(Window(rows, q, page)) : ItemOf(v, BestRow(v, q), q).special}
<1> DEFINE s == Window(rows, q, page)
           items == ItemsOf(s, q)
           P == {i \in 1 .. Len(items) : q.offersOnly => items[i].special}
           special == [v \in Found(q) |-> ItemOf(v, BestRow(v, q), q).special]
<1>1. ListingItems(q, page, rows) = At(items, P)
  BY DEF ListingItems, ItemsOf, Where
<1>2. /\ items \in Seq(Item) /\ Len(items) = Len(s) /\ VinsOf(items) = s
      /\ \A i \in 1 .. Len(s) : items[i] = ItemOf(s[i], BestRow(s[i], q), q)
  BY ItemsOfTyped
<1>3. Len(s) \in Nat /\ DOMAIN s = 1 .. Len(s) /\ \A i \in 1 .. Len(s) : s[i] \in Found(q)
  BY LenProperties, ElementOfSeq
<1>4. P \in SUBSET (1 .. Len(items)) /\ P \in SUBSET (1 .. Len(s))
  BY <1>2
<1>5. \A i \in 1 .. Len(s) : i \in P <=> (q.offersOnly => special[s[i]])
  BY <1>2, <1>3
<1>6. \A v \in Found(q) : special[v] = ItemOf(v, BestRow(v, q), q).special
  OBVIOUS
<1> HIDE DEF items, P, special
<1>7. At(items, P) \in Seq(Item) /\ VinsOf(At(items, P)) = At(s, P)
  BY <1>2, <1>4, VinsOfAt
<1> HIDE DEF s
<1>8. s \in Seq(Found(q)) /\ IsInjective(s)
  BY DEF s
<1>9. Range(At(s, P)) = {s[i] : i \in P} /\ IsInjective(At(s, P))
  BY <1>4, <1>8, AtKeeps
<1>10. ASSUME ~q.offersOnly PROVE At(items, P) = items
  <2>1. P = 1 .. Len(items)
    BY <1>2, <1>4, <1>5, <1>10
  <2> QED BY <1>2, <2>1, AtAll
<1>11. ASSUME q.offersOnly
       PROVE  Range(At(s, P)) = {v \in Range(s) : special[v]}
  <2>1. \A i \in P : i \in 1 .. Len(s) /\ special[s[i]]
    BY <1>4, <1>5, <1>11
  <2>2. \A i \in 1 .. Len(s) : special[s[i]] => i \in P
    BY <1>5
  <2>3. Range(s) = {s[i] : i \in 1 .. Len(s)}
    BY <1>3 DEF Range
  <2> QED BY <1>9, <2>1, <2>2, <2>3
<1>12. Range(s) \in SUBSET Found(q)
  BY <1>3 DEF Range
<1>13. {v \in Range(s) : special[v]} = {v \in Range(s) : ItemOf(v, BestRow(v, q), q).special}
  BY <1>6, <1>12
<1>14. Len(At(items, P)) <= Len(s)
  BY <1>2, <1>4, AtPicks
<1> QED BY <1>1, <1>7, <1>9, <1>10, <1>11, <1>13, <1>14 DEF s, items

\* A manual vehicle makes an item.
LEMMA ManualItemTyped ==
    ASSUME TypeOK, NEW q, NEW v \in ManualMatching(q)
    PROVE  v \in Vins /\ ManualItem(v, q) \in Item /\ ManualItem(v, q).vin = v
<1> DEFINE discounted == Resolved(v, manual[v].line, TRUE, q.line # 0).discounted
           estimate == Estimate(manual[v].type, manual[v].msrp, discounted, manual[v].listed)
<1>1. v \in Vins /\ manual[v] \in Manual
  BY DEF ManualMatching, ManualMatches, HasManual, TypeOK
<1>2. manual[v].msrp \in Nat /\ manual[v].listed \in Nat
  BY <1>1, ManualTypes
<1>3. discounted \in Nat
  BY <1>1, ResolvedTyped, OfferTypes
<1> HIDE DEF discounted
<1>4. estimate \in Nat
  BY <1>2, <1>3, EstimateTyped
<1>5. ManualItem(v, q) = [vin |-> v, special |-> FALSE, monthly |-> estimate]
  BY DEF ManualItem, discounted
<1> HIDE DEF estimate
<1> QED BY <1>1, <1>4, <1>5 DEF Item

\* Manual items: one for each manual vehicle that matches, in their order.
LEMMA ManualItemsAre ==
    ASSUME TypeOK, NEW q, NEW entered \in Seq(ManualMatching(q)), IsInjective(entered)
    PROVE  /\ ManualItems(q, entered) \in Seq(Item)
           /\ Len(ManualItems(q, entered)) = Len(entered)
           /\ \A i \in 1 .. Len(entered) :
                 ManualItems(q, entered)[i] = ManualItem(entered[i], q)
           /\ VinsOf(ManualItems(q, entered)) = entered
<1> DEFINE vins == ManualMatching(q)
           s == entered
           item == [v \in vins |-> ManualItem(v, q)]
           items == ManualItems(q, entered)
<1>1. \A v \in vins : v \in Vins /\ item[v] \in Item /\ item[v].vin = v
  BY ManualItemTyped
<1>2. items = [i \in 1 .. Len(s) |-> ManualItem(s[i], q)]
  BY DEF ManualItems, Each
<1>3. Len(s) \in Nat /\ \A i \in 1 .. Len(s) : s[i] \in vins
  BY LenProperties, ElementOfSeq
<1>4. \A v \in vins : item[v] = ManualItem(v, q)
  OBVIOUS
<1> HIDE DEF vins, items, item
<1>5. items = [i \in 1 .. Len(s) |-> item[s[i]]]
  BY <1>2, <1>3, <1>4
<1>6. items \in [1 .. Len(s) -> Item] /\ \A i \in 1 .. Len(s) : items[i] = item[s[i]]
  BY <1>1, <1>3, <1>5
<1>7. items \in Seq(Item) /\ Len(items) = Len(s)
  BY <1>3, <1>6
<1>8. /\ VinsOf(items) \in Seq(Vins) /\ Len(VinsOf(items)) = Len(s)
      /\ \A i \in 1 .. Len(s) : VinsOf(items)[i] = s[i]
  BY <1>1, <1>3, <1>6, <1>7, VinsOfItems
<1>9. s \in Seq(Vins)
  <2>1. s \in Seq(vins)
    BY DEF vins
  <2>2. vins \subseteq Vins
    BY <1>1
  <2> QED BY <2>1, <2>2, SeqMonotonic
<1>10. VinsOf(items) = s
  BY <1>8, <1>9, SeqEqual
<1> QED BY <1>3, <1>4, <1>6, <1>7, <1>10 DEF items
-----------------------------------------------------------------------------
\* The limit on the payment keeps the items within it, without repetitions.
LEMMA AffordableKeeps ==
    ASSUME NEW items \in Seq(Item), IsInjective(VinsOf(items)), NEW q
    PROVE  /\ Affordable(items, q) \in Seq(Item)
           /\ IsInjective(VinsOf(Affordable(items, q)))
           /\ Range(VinsOf(Affordable(items, q))) =
                 {VinsOf(items)[i] : i \in {j \in 1 .. Len(items) : Within(items[j], q)}}
<1> DEFINE P == {i \in 1 .. Len(items) : Within(items[i], q)}
<1>1. Affordable(items, q) = At(items, P)
  BY DEF Affordable, Where
<1>2. P \in SUBSET (1 .. Len(items))
  OBVIOUS
<1> HIDE DEF P
<1>3. At(items, P) \in Seq(Item) /\ VinsOf(At(items, P)) = At(VinsOf(items), P)
  BY <1>2, VinsOfAt
<1>4. VinsOf(items) \in Seq(Vins) /\ P \in SUBSET (1 .. Len(VinsOf(items)))
  BY <1>2, VinsOfItems
<1>5. /\ IsInjective(At(VinsOf(items), P))
      /\ Range(At(VinsOf(items), P)) = {VinsOf(items)[i] : i \in P}
  BY <1>4, AtKeeps
<1> QED BY <1>1, <1>3, <1>5 DEF P

\* No VIN is shown twice where manual items replace the listings of their VINs.
LEMMA InFrontKeeps ==
    ASSUME NEW front \in Seq(Item), NEW rest \in Seq(Item),
           IsInjective(VinsOf(front)), IsInjective(VinsOf(rest))
    PROVE  /\ InFront(front, rest) \in Seq(Item)
           /\ IsInjective(VinsOf(InFront(front, rest)))
           /\ Range(VinsOf(InFront(front, rest))) = Range(VinsOf(front)) \cup Range(VinsOf(rest))
           /\ Len(InFront(front, rest)) <= Len(front) + Len(rest)
           /\ front = <<>> => InFront(front, rest) = rest
<1> DEFINE P == {i \in 1 .. Len(rest) : \A j \in 1 .. Len(front) : front[j].vin # rest[i].vin}
           others == At(rest, P)
           all == front \o others
<1>1. InFront(front, rest) = all
  BY DEF InFront, Where
<1>2. P \in SUBSET (1 .. Len(rest))
  OBVIOUS
<1>3. \A i \in P, j \in 1 .. Len(front) : front[j].vin # rest[i].vin
  OBVIOUS
<1>4. \A i \in 1 .. Len(rest) : i \in P \/ \E j \in 1 .. Len(front) : front[j].vin = rest[i].vin
  OBVIOUS
<1>5. front = <<>> => P = 1 .. Len(rest)
  BY EmptySeq
<1> HIDE DEF P
<1>6. others \in Seq(Item) /\ VinsOf(others) = At(VinsOf(rest), P)
  BY <1>2, VinsOfAt
<1>7. Len(others) <= Len(rest)
  BY <1>2, AtPicks
<1>8. /\ VinsOf(rest) \in Seq(Vins) /\ P \in SUBSET (1 .. Len(VinsOf(rest)))
      /\ \A i \in 1 .. Len(rest) : VinsOf(rest)[i] = rest[i].vin
  BY <1>2, VinsOfItems
<1>9. IsInjective(VinsOf(others)) /\ Range(VinsOf(others)) = {VinsOf(rest)[i] : i \in P}
  BY <1>6, <1>8, AtKeeps
<1> HIDE DEF others
<1>10. /\ VinsOf(others) \in Seq(Vins) /\ Len(VinsOf(others)) = Len(others)
      /\ \A i \in 1 .. Len(others) : VinsOf(others)[i] = others[i].vin
  BY <1>6, VinsOfItems
<1>11. /\ VinsOf(front) \in Seq(Vins) /\ Len(VinsOf(front)) = Len(front)
      /\ \A i \in 1 .. Len(front) : VinsOf(front)[i] = front[i].vin
  BY VinsOfItems
<1>12. \A i \in 1 .. Len(VinsOf(front)), j \in 1 .. Len(VinsOf(others)) :
          VinsOf(front)[i] # VinsOf(others)[j]
  <2> SUFFICES ASSUME NEW i \in 1 .. Len(front), NEW j \in 1 .. Len(others)
               PROVE  VinsOf(front)[i] # VinsOf(others)[j]
    BY <1>10, <1>11
  <2>1. VinsOf(others)[j] \in Range(VinsOf(others))
    BY <1>10, LenProperties DEF Range
  <2>2. PICK k \in P : VinsOf(others)[j] = VinsOf(rest)[k]
    BY <1>9, <2>1
  <2>3. VinsOf(rest)[k] = rest[k].vin /\ rest[k].vin # front[i].vin
    BY <1>2, <1>3, <1>8, <2>2
  <2> QED BY <1>11, <2>2, <2>3
<1>13. IsInjective(VinsOf(front) \o VinsOf(others))
  BY <1>9, <1>10, <1>11, <1>12, ConcatInjective
<1>14. /\ all \in Seq(Item) /\ Len(all) = Len(front) + Len(others)
       /\ \A i \in 1 .. Len(front) + Len(others) :
             all[i] = IF i <= Len(front) THEN front[i] ELSE others[i - Len(front)]
  BY <1>6, ConcatProperties
<1>15. VinsOf(all) = VinsOf(front) \o VinsOf(others)
  <2> DEFINE m == Len(front)
             n == Len(others)
             both == VinsOf(front) \o VinsOf(others)
             a == VinsOf(all)
  <2>1. m \in Nat /\ n \in Nat
    BY <1>6, LenProperties
  <2>2. /\ both \in Seq(Vins) /\ Len(both) = m + n
        /\ \A i \in 1 .. m + n :
              both[i] = IF i <= m THEN VinsOf(front)[i] ELSE VinsOf(others)[i - m]
    <3> DEFINE s == VinsOf(front)
               t == VinsOf(others)
    <3>1. s \in Seq(Vins) /\ t \in Seq(Vins) /\ Len(s) = m /\ Len(t) = n
      BY <1>10, <1>11
    <3> HIDE DEF s, t, m, n
    <3>2. /\ s \o t \in Seq(Vins) /\ Len(s \o t) = Len(s) + Len(t)
          /\ \A i \in 1 .. Len(s) + Len(t) :
                (s \o t)[i] = IF i <= Len(s) THEN s[i] ELSE t[i - Len(s)]
      BY <3>1, ConcatProperties
    <3> QED BY <3>1, <3>2 DEF s, t
  <2>3. a \in Seq(Vins) /\ Len(a) = m + n /\ \A i \in 1 .. m + n : a[i] = all[i].vin
    BY <1>14, VinsOfItems
  <2> HIDE DEF a, both, m, n, all
  <2>4. ASSUME NEW i \in 1 .. m + n PROVE a[i] = both[i]
    <3>1. CASE i <= m
      <4>1. i \in 1 .. Len(front) /\ all[i] = front[i]
        BY <1>14, <2>1, <3>1 DEF m, n
      <4> QED BY <1>11, <2>2, <2>3, <3>1, <4>1
    <3>2. CASE ~(i <= m)
      <4>1. i - m \in 1 .. n
        BY <2>1, <3>2
      <4>2. all[i] = others[i - m]
        BY <1>14, <3>2 DEF m, n
      <4>3. VinsOf(others)[i - m] = others[i - m].vin
        BY <1>10, <4>1 DEF n
      <4> QED BY <2>2, <2>3, <3>2, <4>2, <4>3
    <3> QED BY <3>1, <3>2
  <2>5. a = both
    BY <2>2, <2>3, <2>4, SeqEqual
  <2> QED BY <2>5 DEF a, both
<1>16. front = <<>> => all = rest
  <2> SUFFICES ASSUME front = <<>> PROVE all = rest
    OBVIOUS
  <2>1. others = rest
    BY <1>5, AtAll DEF others
  <2> QED BY <2>1, ConcatEmptySeq
<1>17. Range(VinsOf(all)) = Range(VinsOf(front)) \cup Range(VinsOf(rest))
  <2>1. Range(VinsOf(all)) = Range(VinsOf(front)) \cup {VinsOf(rest)[i] : i \in P}
    BY <1>9, <1>10, <1>11, <1>15, RangeConcatenation
  <2>2. /\ Range(VinsOf(rest)) = {VinsOf(rest)[i] : i \in 1 .. Len(rest)}
        /\ Range(VinsOf(front)) = {VinsOf(front)[j] : j \in 1 .. Len(front)}
    <3>1. Len(VinsOf(rest)) = Len(rest)
      BY VinsOfItems
    <3> QED BY <1>8, <1>11, <3>1, RangeEquality
  <2>3. \A i \in 1 .. Len(rest) :
           i \in P \/ \E j \in 1 .. Len(front) : VinsOf(front)[j] = VinsOf(rest)[i]
    BY <1>4, <1>8, <1>11
  <2> QED BY <1>2, <2>1, <2>2, <2>3
<1>18. Len(all) <= Len(front) + Len(rest)
  <2>1. Len(front) \in Nat /\ Len(others) \in Nat /\ Len(rest) \in Nat
    BY <1>6, LenProperties
  <2> QED BY <1>14, <1>7, <2>1
<1> QED BY <1>1, <1>13, <1>14, <1>15, <1>16, <1>17, <1>18
-----------------------------------------------------------------------------
\* So does cutting.
LEMMA SliceKeeps ==
    ASSUME NEW X, NEW s \in Seq(X), IsInjective(s), NEW from \in Nat, NEW n \in Nat
    PROVE  IsInjective(Slice(s, from, n))
<1> DEFINE t == Slice(s, from, n)
<1>1. /\ t \in Seq(X)
      /\ Len(t) = IF from + n <= Len(s) THEN n
                  ELSE IF from <= Len(s) THEN Len(s) - from ELSE 0
      /\ \A i \in 1 .. Len(t) : t[i] = s[from + i]
  BY SliceOf
<1>2. Len(s) \in Nat /\ DOMAIN s = 1 .. Len(s)
  BY LenProperties
<1> HIDE DEF t
<1>3. DOMAIN t = 1 .. Len(t) /\ \A i \in 1 .. Len(t) : from + i \in 1 .. Len(s)
  <2>1. DOMAIN t = 1 .. Len(t) /\ Len(t) \in Nat
    BY <1>1, LenProperties
  <2>2. Len(t) # 0 => from + Len(t) <= Len(s)
    <3> DEFINE len == Len(s)
               size == Len(t)
    <3>1. /\ len \in Nat
          /\ size = IF from + n <= len THEN n ELSE IF from <= len THEN len - from ELSE 0
      BY <1>1, <1>2
    <3> HIDE DEF len, size
    <3>2. size # 0 => from + size <= len
      BY <3>1
    <3> QED BY <3>2 DEF len, size
  <2> QED BY <1>2, <2>1, <2>2
<1>4. ASSUME NEW i \in 1 .. Len(t), NEW j \in 1 .. Len(t), t[i] = t[j] PROVE i = j
  <2>1. s[from + i] = s[from + j]
    BY <1>1, <1>4
  <2>2. from + i = from + j
    BY <1>2, <1>3, <2>1 DEF IsInjective
  <2> QED BY <2>2
<1>5. IsInjective(t)
  BY <1>3, <1>4 DEF IsInjective
<1> QED BY <1>5 DEF t

\* What matches is found; without a line, all that is found matches.
LEMMA MatchingIs ==
    ASSUME NEW q
    PROVE  /\ Matching(q) \in SUBSET Found(q) /\ Found(q) \in SUBSET Vins
           /\ q.line = 0 => Matching(q) = Found(q)
BY DEF Matching, OnLine, Found

\* The candidates for specials are counted.
LEMMA LeaseVinsFinite ==
    ASSUME TypeOK
    PROVE  LeaseVins \in SUBSET Vins /\ IsFiniteSet(LeaseVins) /\ Cardinality(LeaseVins) \in Nat
<1>1. \A r \in listings : r.vin \in Vins
  BY TablesAllowed, RowTypes DEF TypeOK
<1>2. LeaseVins \in SUBSET Vins
  BY <1>1 DEF LeaseVins, FeedNew
<1>3. IsFiniteSet(Vins)
  BY TablesAllowed
<1> QED BY <1>2, <1>3, FS_Subset, FS_CardinalityType

\* What is fetched for a search that is not for specials: all that matches, as
\* far as it is fetched at all, or the share of a page.
LEMMA WindowPlain ==
    ASSUME TypeOK, NEW q \in Query, ~q.offersOnly, NEW page \in Nat \ {0},
           NEW rows \in RowOrders(q)
    PROVE  /\ Window(rows, q, page) \in Seq(Matching(q)) /\ IsInjective(Window(rows, q, page))
           /\ Window(rows, q, page) \in Seq(Found(q))
           /\ Cardinality(Matching(q)) \in Nat
           /\ (q.maxPayment # 0 /\ Cardinality(Matching(q)) <= FetchSize(q)) =>
                 Range(Window(rows, q, page)) = Matching(q)
           /\ q.maxPayment = 0 =>
                 Len(Window(rows, q, page)) = OnPage(Cardinality(Matching(q)), page)
<1> DEFINE from == IF CutLater(q) THEN 0 ELSE (page - 1) * PageSize
<1>1. Wanted(q) = Matching(q) /\ ~Broad(q) /\ (CutLater(q) <=> q.maxPayment # 0)
  BY DEF Wanted, Broad, CutLater
<1>2. Matching(q) \in SUBSET Found(q) /\ IsFiniteSet(Matching(q))
  BY MatchingIs, TablesAllowed, FS_Subset
<1>3. rows \in SetToSeqs(Matching(q))
  BY <1>1 DEF RowOrders
<1>4. /\ rows \in Seq(Matching(q)) /\ IsInjective(rows) /\ Range(rows) = Matching(q)
      /\ Cardinality(Matching(q)) \in Nat /\ Len(rows) = Cardinality(Matching(q))
  BY <1>2, <1>3, OrderLists
<1>5. FetchSize(q) \in Nat /\ (q.maxPayment = 0 => FetchSize(q) = PageSize)
  BY <1>1, TablesAllowed DEF FetchSize, CapSet
<1>6. from \in Nat /\ (q.maxPayment # 0 => from = 0)
      /\ (q.maxPayment = 0 => from = (page - 1) * PageSize)
  BY <1>1, TablesAllowed
<1>7. Window(rows, q, page) = Slice(rows, from, FetchSize(q))
  BY DEF Window
<1> HIDE DEF from
<1>8. /\ Window(rows, q, page) \in Seq(Matching(q))
      /\ IsInjective(Window(rows, q, page))
  BY <1>4, <1>5, <1>6, <1>7, SliceOf, SliceKeeps
<1>9. Window(rows, q, page) \in Seq(Found(q))
  BY <1>2, <1>8, SeqMonotonic
<1>10. ASSUME q.maxPayment # 0, Cardinality(Matching(q)) <= FetchSize(q)
       PROVE  Range(Window(rows, q, page)) = Matching(q)
  <2>1. Slice(rows, 0, FetchSize(q)) = rows
    BY <1>4, <1>5, <1>10, SliceWhole
  <2> QED BY <1>4, <1>6, <1>7, <1>10, <2>1
<1>11. ASSUME q.maxPayment = 0
       PROVE  Len(Window(rows, q, page)) = OnPage(Cardinality(Matching(q)), page)
  <2>1. Window(rows, q, page) = Slice(rows, (page - 1) * PageSize, PageSize)
    BY <1>5, <1>6, <1>7, <1>11
  <2> QED BY <1>4, <2>1, PageHolds
<1> QED BY <1>4, <1>8, <1>9, <1>10, <1>11

\* What is fetched for all specials: candidates that match; all of them, unless
\* they are too many.
LEMMA WindowBroad ==
    ASSUME TypeOK, NEW q \in Query, q.offersOnly, q.line = 0
    PROVE  LET rows == Window(BroadOrder(q), q, 1)
           IN /\ rows \in Seq(Found(q)) /\ IsInjective(rows)
              /\ FetchSize(q) \in Nat /\ Len(rows) <= FetchSize(q)
              /\ Range(rows) \subseteq Found(q) \cap LeaseVins
              /\ Cardinality(LeaseVins) <= Caps.broad =>
                    Range(rows) = Found(q) \cap LeaseVins
<1> DEFINE s == BroadOrder(q)
           rows == Window(s, q, 1)
           n == Cardinality(LeaseVins)
           size == FetchSize(q)
<1>1. Wanted(q) = Found(q) \cap LeaseVins /\ Broad(q) /\ ~CutLater(q)
  BY MatchingIs DEF Wanted, Broad, CutLater
<1>2. /\ s \in Seq(Wanted(q)) /\ Cardinality(Wanted(q)) \in Nat
      /\ Len(s) = Cardinality(Wanted(q)) /\ IsInjective(s) /\ Range(s) = Wanted(q)
  BY <1>1, BroadList
<1>3. n \in Nat /\ IsFiniteSet(LeaseVins)
  BY LeaseVinsFinite
<1>4. Cardinality(Wanted(q)) <= n
  BY <1>1, <1>3, FS_Subset
<1>5. Caps.broad \in Nat
  BY TablesAllowed DEF CapSet
<1>6. size = IF Caps.broad <= n THEN Caps.broad ELSE n
  <2>1. size = Min({Caps.broad, n})
    BY <1>1 DEF FetchSize
  <2> HIDE DEF n, size
  <2> QED BY <1>3, <1>5, <2>1, MinOfTwo
<1>7. rows = Slice(s, (1 - 1) * PageSize, size)
  BY <1>1 DEF Window
<1>8. (1 - 1) * PageSize = 0
  BY Numbers
<1> HIDE DEF s, n, size, rows
<1>9. size \in Nat /\ (n <= Caps.broad => size = n)
  BY <1>3, <1>5, <1>6
<1>10. /\ rows \in Seq(Wanted(q)) /\ IsInjective(rows)
       /\ Len(rows) = IF size <= Len(s) THEN size ELSE Len(s)
  <2>1. rows = Slice(s, 0, size)
    BY <1>7, <1>8
  <2>2. IsInjective(Slice(s, 0, size))
    BY <1>2, <1>9, SliceKeeps
  <2> QED BY <1>2, <1>9, <2>1, <2>2, SliceFirst
<1>11. Len(rows) <= size
  BY <1>2, <1>9, <1>10
<1>12. Range(rows) \subseteq Found(q) \cap LeaseVins
  BY <1>1, <1>10, RangeEquality, ElementOfSeq
<1>13. rows \in Seq(Found(q))
  BY <1>1, <1>10, SeqMonotonic
<1>14. ASSUME n <= Caps.broad PROVE Range(rows) = Found(q) \cap LeaseVins
  <2>1. Slice(s, 0, size) = s
    BY <1>2, <1>4, <1>9, <1>14, SliceWhole
  <2> QED BY <1>1, <1>2, <1>7, <1>8, <2>1
<1> QED BY <1>9, <1>10, <1>11, <1>12, <1>13, <1>14 DEF s, rows, n, size

\* The specials that are shown, without a limit on the payment: of the candidates
\* that match those that are one, each once; all of them, unless there are more
\* candidates than are fetched.
LEMMA SpecialsAre ==
    ASSUME TypeOK, NEW q \in Query, q.offersOnly, q.line = 0, q.maxPayment = 0
    PROVE  LET shown == VinsOf(Specials(q).items)
               specials == {v \in Found(q) \cap LeaseVins :
                              ItemOf(v, BestRow(v, q), q).special}
           IN /\ shown \in Seq(Vins) /\ IsInjective(shown)
              /\ Range(shown) \subseteq specials
              /\ Cardinality(LeaseVins) <= Caps.broad => Range(shown) = specials
<1> DEFINE s == BroadOrder(q)
           rows == Window(s, q, 1)
           items == ListingItems(q, 1, s)
           specials == {v \in Found(q) \cap LeaseVins : ItemOf(v, BestRow(v, q), q).special}
           n == FetchSize(q)
<1>1. /\ rows \in Seq(Found(q)) /\ IsInjective(rows) /\ n \in Nat /\ Len(rows) <= n
      /\ Range(rows) \subseteq Found(q) \cap LeaseVins
      /\ Cardinality(LeaseVins) <= Caps.broad => Range(rows) = Found(q) \cap LeaseVins
  BY WindowBroad
<1>2. /\ items \in Seq(Item) /\ IsInjective(VinsOf(items)) /\ Len(items) <= Len(rows)
      /\ Range(VinsOf(items)) = {v \in Range(rows) : ItemOf(v, BestRow(v, q), q).special}
  BY <1>1, ListingItemsAre
<1>3. ManualItems(q, <<>>) \in Seq(Item) /\ ManualItems(q, <<>>) = <<>>
      /\ VinsOf(ManualItems(q, <<>>)) = <<>> /\ IsInjective(<<>>)
  <2>1. <<>> \in Seq(ManualMatching(q)) /\ IsInjective(<<>>) /\ Len(<<>>) = 0
    BY EmptySeq DEF IsInjective
  <2>2. /\ ManualItems(q, <<>>) \in Seq(Item) /\ Len(ManualItems(q, <<>>)) = 0
        /\ VinsOf(ManualItems(q, <<>>)) = <<>>
    BY <2>1, ManualItemsAre
  <2> QED BY <2>1, <2>2, EmptySeq
<1>4. InFront(IF 1 = 1 THEN ManualItems(q, <<>>) ELSE <<>>, items) = items
  BY <1>2, <1>3, InFrontKeeps
<1>5. Specials(q).items = Slice(items, 0, n)
  BY <1>4 DEF Specials, Search, PlainAnswer, ShownSize, Broad
<1>6. Range(VinsOf(items)) \subseteq specials
      /\ (Cardinality(LeaseVins) <= Caps.broad => Range(VinsOf(items)) = specials)
  BY <1>1, <1>2
<1> HIDE DEF items, specials, n, rows
<1>7. VinsOf(items) \in Seq(Vins)
  BY <1>2, VinsOfItems
<1>8. Len(items) <= n
  BY <1>1, <1>2, LenProperties
<1>9. Slice(items, 0, n) = items
  BY <1>1, <1>2, <1>8, SliceWhole
<1> QED BY <1>2, <1>5, <1>6, <1>7, <1>9 DEF specials
-----------------------------------------------------------------------------
\* The manual vehicles that match a search are counted.
LEMMA ManualMatchingFinite ==
    ASSUME NEW q
    PROVE  IsFiniteSet(ManualMatching(q)) /\ Cardinality(ManualMatching(q)) \in Nat
<1>1. ManualMatching(q) \in SUBSET Vins
  BY DEF ManualMatching
<1> QED BY <1>1, TablesAllowed, FS_Subset, FS_CardinalityType

\* As are the listed vehicles, which the total never undercounts.
LEMMA Counted ==
    ASSUME NEW q
    PROVE  /\ Count(q) \in Nat /\ Cardinality(Matching(q)) \in Nat
           /\ Cardinality(Matching(q)) <= Count(q)
           /\ q.line = 0 => Cardinality(Matching(q)) = Count(q)
<1>1. Count(q) = Cardinality(Found(q))
  BY DEF Count, Found
<1>2. IsFiniteSet(Found(q)) /\ Matching(q) \in SUBSET Found(q)
  BY MatchingIs, TablesAllowed, FS_Subset
<1> QED BY <1>1, <1>2, MatchingIs, FS_Subset, FS_CardinalityType

\* With a limit on the payment: the answer is a page of all vehicles within it,
\* where no more match than are fetched.
LEMMA PaidHolds ==
    ASSUME TypeOK, NEW q \in Query, ~q.offersOnly, q.maxPayment # 0,
           NEW page \in Nat \ {0}, NEW rows \in RowOrders(q),
           NEW entered \in SetToSeqs(ManualMatching(q))
    PROVE  LET answer == Search(q, page, rows, entered)
           IN /\ IsInjective(VinsOf(answer.items))
              /\ Cardinality(Matching(q)) <= FetchSize(q) =>
                    /\ answer.total = Cardinality(AffordableVins(q))
                    /\ Len(answer.items) = OnPage(answer.total, page)
<1> DEFINE listed == ListingItems(q, page, rows)
           fetched == Window(rows, q, page)
           front == Affordable(ManualItems(q, entered), q)
           rest == Affordable(listed, q)
           all == InFront(front, rest)
           from == (page - 1) * PageSize
           cut == Slice(all, from, PageSize)
           row == [v \in Found(q) |-> ItemOf(v, BestRow(v, q), q)]
           own == [v \in ManualMatching(q) |-> ManualItem(v, q)]
           answer == Search(q, page, rows, entered)
<1>1. /\ fetched \in Seq(Found(q)) /\ IsInjective(fetched)
      /\ Cardinality(Matching(q)) <= FetchSize(q) => Range(fetched) = Matching(q)
  BY WindowPlain
<1>2. /\ listed \in Seq(Item) /\ Len(listed) = Len(fetched) /\ VinsOf(listed) = fetched
      /\ \A i \in 1 .. Len(fetched) : listed[i] = row[fetched[i]]
  <2>1. listed = ItemsOf(fetched, q)
    BY <1>1, ListingItemsAre
  <2>2. \A i \in 1 .. Len(fetched) : fetched[i] \in Found(q)
    BY <1>1, ElementOfSeq
  <2> HIDE DEF listed, fetched
  <2> QED BY <1>1, <2>1, <2>2, ItemsOfTyped
<1>3. /\ entered \in Seq(ManualMatching(q)) /\ IsInjective(entered)
      /\ Range(entered) = ManualMatching(q)
  BY ManualMatchingFinite, OrderLists
<1>4. /\ ManualItems(q, entered) \in Seq(Item)
      /\ Len(ManualItems(q, entered)) = Len(entered)
      /\ VinsOf(ManualItems(q, entered)) = entered
      /\ \A i \in 1 .. Len(entered) : ManualItems(q, entered)[i] = own[entered[i]]
  <2>1. \A i \in 1 .. Len(entered) : entered[i] \in ManualMatching(q)
    BY <1>3, ElementOfSeq
  <2> QED BY <1>3, <2>1, ManualItemsAre
<1>5. answer = [total |-> Len(all), items |-> cut]
  <2>1. ShownSize(q) = PageSize
    BY DEF ShownSize, Broad
  <2>2. answer = PaidPage(all, q, page)
    BY DEF Search, PaidAnswer
  <2> HIDE DEF all
  <2> QED BY <2>1, <2>2 DEF PaidPage
<1>6. \A v \in Found(q) : row[v] = ItemOf(v, BestRow(v, q), q)
  OBVIOUS
<1>7. \A v \in ManualMatching(q) : own[v] = ManualItem(v, q)
  OBVIOUS
<1> HIDE DEF listed, fetched, row, own, answer
<1>8. /\ rest \in Seq(Item) /\ IsInjective(VinsOf(rest))
      /\ Range(VinsOf(rest)) = {v \in Range(fetched) : Within(row[v], q)}
  <2>1. DOMAIN fetched = 1 .. Len(fetched)
    BY <1>1, LenProperties
  <2>2. /\ rest \in Seq(Item) /\ IsInjective(VinsOf(rest))
        /\ Range(VinsOf(rest)) =
              {fetched[i] : i \in {j \in 1 .. Len(fetched) : Within(listed[j], q)}}
    BY <1>1, <1>2, AffordableKeeps
  <2>3. {fetched[i] : i \in {j \in 1 .. Len(fetched) : Within(listed[j], q)}}
           = {v \in Range(fetched) : Within(row[v], q)}
    BY <1>2, <2>1 DEF Range
  <2> QED BY <2>2, <2>3
<1>9. /\ front \in Seq(Item) /\ IsInjective(VinsOf(front))
      /\ Range(VinsOf(front)) = {v \in ManualMatching(q) : Within(own[v], q)}
  <2> DEFINE items == ManualItems(q, entered)
  <2>1. /\ items \in Seq(Item) /\ Len(items) = Len(entered) /\ VinsOf(items) = entered
        /\ \A i \in 1 .. Len(entered) : items[i] = own[entered[i]]
    BY <1>4
  <2>2. front = Affordable(items, q)
    OBVIOUS
  <2> HIDE DEF items, front
  <2>3. DOMAIN entered = 1 .. Len(entered)
    BY <1>3, LenProperties
  <2>4. /\ front \in Seq(Item) /\ IsInjective(VinsOf(front))
        /\ Range(VinsOf(front)) =
              {entered[i] : i \in {j \in 1 .. Len(entered) : Within(items[j], q)}}
    BY <1>3, <2>1, <2>2, AffordableKeeps
  <2>5. {entered[i] : i \in {j \in 1 .. Len(entered) : Within(items[j], q)}}
           = {v \in Range(entered) : Within(own[v], q)}
    BY <2>1, <2>3 DEF Range
  <2> QED BY <1>3, <2>4, <2>5
<1> HIDE DEF rest, front
<1>10. /\ all \in Seq(Item) /\ IsInjective(VinsOf(all))
       /\ Range(VinsOf(all)) = Range(VinsOf(front)) \cup Range(VinsOf(rest))
  BY <1>8, <1>9, InFrontKeeps
<1> HIDE DEF all
<1>11. VinsOf(all) \in Seq(Vins) /\ Len(VinsOf(all)) = Len(all)
  BY <1>10, VinsOfItems
<1>12. Cardinality(Range(VinsOf(all))) = Len(all)
  BY <1>10, <1>11, InjectiveCount
<1>13. from \in Nat /\ PageSize \in Nat
  BY Numbers
<1>14. IsInjective(VinsOf(cut))
  <2> HIDE DEF from
  <2>1. VinsOf(cut) = Slice(VinsOf(all), from, PageSize)
    BY <1>10, <1>13, VinsOfSlice
  <2> HIDE DEF cut
  <2> QED BY <1>10, <1>11, <1>13, <2>1, SliceKeeps
<1>15. Len(cut) = OnPage(Len(all), page)
  BY <1>10, PageHolds
<1> HIDE DEF cut, from
<1>16. ASSUME Cardinality(Matching(q)) <= FetchSize(q)
       PROVE  Range(VinsOf(all)) = AffordableVins(q)
  <2>1. Matching(q) \subseteq Found(q)
    BY MatchingIs
  <2>2. Range(VinsOf(rest)) = {v \in Matching(q) : Within(ItemOf(v, BestRow(v, q), q), q)}
    BY <1>1, <1>6, <1>8, <1>16, <2>1
  <2>3. Range(VinsOf(front)) = {v \in ManualMatching(q) : Within(ManualItem(v, q), q)}
    BY <1>7, <1>9
  <2> QED BY <1>10, <2>2, <2>3 DEF AffordableVins
<1>17. answer.items = cut /\ answer.total = Len(all)
  BY <1>5
<1> QED BY <1>12, <1>14, <1>15, <1>16, <1>17 DEF answer

\* Without one the answer holds the page's share of the listed vehicles, and on
\* the first page the manual ones before them, as far as they fit.
LEMMA PlainHolds ==
    ASSUME TypeOK, NEW q \in Query, ~q.offersOnly, q.maxPayment = 0,
           NEW page \in Nat \ {0}, NEW rows \in RowOrders(q),
           NEW entered \in SetToSeqs(ManualMatching(q))
    PROVE  LET answer == Search(q, page, rows, entered)
               listed == Cardinality(Matching(q))
           IN /\ IsInjective(VinsOf(answer.items))
              /\ listed <= answer.total
              /\ OnPage(listed, page) <= Len(answer.items)
              /\ Len(answer.items) <= OnPage(answer.total, page)
<1> DEFINE fetched == Window(rows, q, page)
           rest == ListingItems(q, page, rows)
           front == IF page = 1 THEN ManualItems(q, entered) ELSE <<>>
           all == InFront(front, rest)
           cut == Slice(all, 0, PageSize)
           listed == Cardinality(Matching(q))
           more == Cardinality(ManualMatching(q))
           total == Count(q) + more
           answer == Search(q, page, rows, entered)
<1>1. /\ fetched \in Seq(Found(q)) /\ IsInjective(fetched)
      /\ Len(fetched) = OnPage(listed, page)
  BY WindowPlain
<1>2. rest \in Seq(Item) /\ Len(rest) = OnPage(listed, page) /\ VinsOf(rest) = fetched
  <2>1. rest = ItemsOf(fetched, q)
    BY <1>1, ListingItemsAre
  <2> HIDE DEF rest, fetched
  <2> QED BY <1>1, <2>1, ItemsOfTyped
<1>3. listed \in Nat /\ more \in Nat /\ Count(q) \in Nat /\ listed <= Count(q)
  BY Counted, ManualMatchingFinite
<1>4. /\ entered \in Seq(ManualMatching(q)) /\ IsInjective(entered) /\ Len(entered) = more
  BY ManualMatchingFinite, OrderLists
<1>5. answer = [total |-> total, items |-> cut]
  <2>1. ShownSize(q) = PageSize
    BY DEF ShownSize, Broad
  <2> QED BY <2>1 DEF Search, PlainAnswer
<1>6. /\ front \in Seq(Item) /\ IsInjective(VinsOf(front)) /\ Len(front) \in Nat
      /\ Len(front) <= more /\ (page # 1 => Len(front) = 0)
  <2>1. CASE page = 1
    <3>1. /\ ManualItems(q, entered) \in Seq(Item)
          /\ Len(ManualItems(q, entered)) = more
          /\ VinsOf(ManualItems(q, entered)) = entered
      BY <1>4, ManualItemsAre
    <3> QED BY <1>3, <1>4, <2>1, <3>1
  <2>2. CASE page # 1
    <3>1. <<>> \in Seq(Item) /\ Len(<<>>) = 0
      BY EmptySeq
    <3>2. VinsOf(<<>>) \in Seq(Vins) /\ Len(VinsOf(<<>>)) = 0
      BY <3>1, VinsOfItems
    <3>3. IsInjective(VinsOf(<<>>))
      BY <3>2, EmptySeq DEF IsInjective
    <3> QED BY <1>3, <2>2, <3>1, <3>3
  <2> QED BY <2>1, <2>2
<1> HIDE DEF front, rest, fetched, answer
<1>7. /\ all \in Seq(Item) /\ IsInjective(VinsOf(all))
      /\ Range(VinsOf(all)) = Range(VinsOf(front)) \cup Range(VinsOf(rest))
      /\ Len(all) <= Len(front) + Len(rest)
  BY <1>1, <1>2, <1>6, InFrontKeeps
<1> HIDE DEF all
<1>8. VinsOf(all) \in Seq(Vins) /\ Len(VinsOf(all)) = Len(all) /\ Len(all) \in Nat
  BY <1>7, VinsOfItems, LenProperties
<1>9. OnPage(listed, page) <= Len(all)
  <2>1. /\ IsFiniteSet(Range(VinsOf(all))) /\ Cardinality(Range(VinsOf(all))) = Len(all)
        /\ Cardinality(Range(fetched)) = Len(fetched)
    BY <1>1, <1>7, <1>8, InjectiveCount
  <2>2. Range(fetched) \in SUBSET Range(VinsOf(all))
    BY <1>2, <1>7
  <2>3. Cardinality(Range(fetched)) <= Cardinality(Range(VinsOf(all)))
    BY <2>1, <2>2, FS_Subset
  <2> QED BY <1>1, <2>1, <2>3
<1>10. 0 \in Nat /\ PageSize \in Nat
  BY Numbers
<1>11. IsInjective(VinsOf(cut))
  <2>1. VinsOf(cut) = Slice(VinsOf(all), 0, PageSize)
    BY <1>7, <1>10, VinsOfSlice
  <2> HIDE DEF cut
  <2> QED BY <1>7, <1>8, <1>10, <2>1, SliceKeeps
<1>12. Len(cut) = IF PageSize <= Len(all) THEN PageSize ELSE Len(all)
  BY <1>7, <1>10, SliceFirst
<1>13. total \in Nat /\ listed <= total /\ listed + more <= total
  BY <1>3
<1>14. /\ OnPage(listed, page) \in Nat /\ OnPage(total, page) \in Nat
       /\ OnPage(listed, page) <= OnPage(total, page)
       /\ OnPage(total, page) <= PageSize
       /\ page = 1 => OnPage(total, page) = IF PageSize <= total THEN PageSize ELSE total
  BY <1>3, <1>13, ShareGrows
<1>15. OnPage(listed, page) <= listed
  <2>1. page = 1 => OnPage(listed, page) = IF PageSize <= listed THEN PageSize ELSE listed
    BY <1>3, ShareGrows
  <2>2. Len(fetched) <= listed
    <3>1. fetched \in Seq(Matching(q))
      BY WindowPlain DEF fetched
    <3>2. Range(fetched) \in SUBSET Matching(q) /\ IsFiniteSet(Matching(q))
      BY <3>1, RangeEquality, ElementOfSeq, MatchingIs, TablesAllowed, FS_Subset
    <3>3. Cardinality(Range(fetched)) = Len(fetched)
      BY <1>1, InjectiveCount
    <3> QED BY <3>2, <3>3, FS_Subset
  <2> QED BY <1>1, <2>2
<1> DEFINE share == OnPage(listed, page)
           most == OnPage(total, page)
           n == Len(all)
           m == Len(front)
           k == Len(cut)
<1>16. /\ n \in Nat /\ m \in Nat /\ share \in Nat /\ most \in Nat
       /\ share <= n /\ n <= m + share /\ m <= more /\ share <= listed
       /\ page # 1 => m = 0
       /\ k = IF PageSize <= n THEN PageSize ELSE n
       /\ share <= most /\ most <= PageSize
       /\ page = 1 => most = IF PageSize <= total THEN PageSize ELSE total
  BY <1>2, <1>6, <1>7, <1>8, <1>9, <1>12, <1>14, <1>15
<1> HIDE DEF share, most, n, m, k, listed, more, total
<1>17. share <= k /\ k <= most
  BY <1>3, <1>10, <1>13, <1>16
<1>18. answer.items = cut /\ answer.total = total
  BY <1>5
<1> HIDE DEF cut
<1> QED BY <1>11, <1>13, <1>17, <1>18 DEF share, most, k, listed, answer

\* A page of a dealer's list, by the number of rows behind it.
LEMMA DealerPageIs ==
    ASSUME NEW X, NEW rows \in Seq(X), NEW page \in Nat \ {0}
    PROVE  /\ DealerPage(page, rows).items = Slice(rows, (page - 1) * PageSize, PageSize)
           /\ DealerPage(page, rows).more <=> page * PageSize < Len(rows)
           /\ Len(DealerPage(page, rows).items) =
                 IF page * PageSize <= Len(rows) THEN PageSize
                 ELSE IF (page - 1) * PageSize <= Len(rows)
                      THEN Len(rows) - (page - 1) * PageSize ELSE 0
<1> DEFINE from == (page - 1) * PageSize
           cut == Slice(rows, from, PageSize + 1)
           shown == Slice(rows, from, PageSize)
           len == Len(rows)
           size == Len(cut)
           over == size > PageSize
<1>1. PageSize \in Nat /\ PageSize > 0 /\ PageSize + 1 \in Nat /\ len \in Nat
  BY Numbers, LenProperties
<1>2. from \in Nat /\ page * PageSize = from + PageSize
  BY <1>1
<1>3. DealerPage(page, rows) = [items |-> Slice(cut, 0, PageSize), more |-> over]
  BY DEF DealerPage, CutPage
<1> HIDE DEF from
<1>4. Slice(cut, 0, PageSize) = shown
  BY <1>1, <1>2, SliceTwice
<1>5. size = IF from + (PageSize + 1) <= len THEN PageSize + 1
             ELSE IF from <= len THEN len - from ELSE 0
  BY <1>1, <1>2, SliceOf
<1>6. Len(shown) = IF from + PageSize <= len THEN PageSize
                   ELSE IF from <= len THEN len - from ELSE 0
  BY <1>1, <1>2, SliceOf
<1> HIDE DEF size, len, cut, shown
<1>7. over <=> page * PageSize < len
  BY <1>1, <1>2, <1>5
<1> HIDE DEF over
<1>8. DealerPage(page, rows).items = shown /\ DealerPage(page, rows).more = over
  BY <1>3, <1>4
<1> QED BY <1>2, <1>6, <1>7, <1>8 DEF shown, len, from

\* A dealer's list announces the next page exactly when it is not empty, and ends
\* where the total does.
LEMMA DealerHolds ==
    ASSUME TypeOK
    PROVE  DealerPagesEnd
<1> DEFINE n == Count(All)
<1>1. /\ n \in Nat /\ Cardinality(Matching(All)) = n
  BY Counted DEF All
<1>2. IsFiniteSet(Matching(All)) /\ Matching(All) \subseteq Vins
  BY MatchingIs, TablesAllowed, FS_Subset
<1> SUFFICES ASSUME NEW page \in 1 .. 1 + Pages(n),
                    NEW rows \in SetToSeqs(Matching(All)),
                    NEW later \in SetToSeqs(Matching(All))
             PROVE  LET shown == DealerPage(page, rows)
                    IN /\ IsInjective(shown.items)
                       /\ shown.more <=> DealerPage(page + 1, later).items # <<>>
                       /\ shown.more => Len(shown.items) = PageSize
                       /\ (~shown.more /\ (page = 1 \/ shown.items # <<>>)) =>
                             (page - 1) * PageSize + Len(shown.items) = n
  BY DEF DealerPagesEnd
<1> HIDE DEF n
<1>3. page \in Nat \ {0} /\ page + 1 \in Nat \ {0}
  BY <1>1, PagesCounted
<1>4. /\ rows \in Seq(Matching(All)) /\ Len(rows) = n /\ IsInjective(rows)
      /\ later \in Seq(Matching(All)) /\ Len(later) = n
  BY <1>1, <1>2, OrderLists
<1> DEFINE from == (page - 1) * PageSize
           shown == DealerPage(page, rows)
           next == DealerPage(page + 1, later)
<1>5. /\ from \in Nat /\ PageSize \in Nat /\ PageSize > 0
      /\ page * PageSize = from + PageSize /\ (page + 1 - 1) * PageSize = from + PageSize
      /\ (page + 1) * PageSize = from + PageSize + PageSize
      /\ page = 1 => from = 0
  BY <1>3, Numbers
<1>6. /\ shown.items = Slice(rows, from, PageSize)
      /\ shown.more <=> from + PageSize < n
      /\ Len(shown.items) = IF from + PageSize <= n THEN PageSize
                            ELSE IF from <= n THEN n - from ELSE 0
  BY <1>3, <1>4, <1>5, DealerPageIs
<1>7. /\ next.items = Slice(later, from + PageSize, PageSize)
      /\ Len(next.items) = IF from + PageSize + PageSize <= n THEN PageSize
                           ELSE IF from + PageSize <= n THEN n - (from + PageSize) ELSE 0
  BY <1>3, <1>4, <1>5, DealerPageIs
<1>8. IsInjective(shown.items) /\ shown.items \in Seq(Matching(All))
      /\ next.items \in Seq(Matching(All))
  <2> HIDE DEF from, shown, next
  <2>1. from + PageSize \in Nat
    BY <1>5
  <2> QED BY <1>4, <1>5, <1>6, <1>7, <2>1, SliceOf, SliceKeeps
<1> HIDE DEF shown, next
<1>9. /\ next.items # <<>> <=> Len(next.items) # 0
      /\ shown.items # <<>> <=> Len(shown.items) # 0
  BY <1>8, EmptySeq
<1> HIDE DEF from
<1>10. next.items # <<>> <=> from + PageSize < n
  BY <1>1, <1>5, <1>7, <1>9
<1>11. shown.more => Len(shown.items) = PageSize
  BY <1>1, <1>5, <1>6
<1>12. ASSUME ~shown.more, page = 1 \/ shown.items # <<>>
       PROVE  from + Len(shown.items) = n
  BY <1>1, <1>5, <1>6, <1>9, <1>12
<1> QED BY <1>6, <1>8, <1>10, <1>11, <1>12 DEF from, shown, next
-----------------------------------------------------------------------------
\* A list of VINs without repetitions is what Distinct leaves of any.
LEMMA DistinctIs ==
    ASSUME NEW vins \in Seq(Vins)
    PROVE  Distinct(vins) \in Seq(Vins) /\ IsInjective(Distinct(vins))
<1> DEFINE P == {i \in 1 .. Len(vins) : \A j \in 1 .. i - 1 : vins[j] # vins[i]}
           t == Distinct(vins)
           n == Cardinality(P)
<1>1. P \in SUBSET (1 .. Len(vins)) /\ Len(vins) \in Nat
  BY LenProperties
<1>2. \A i, j \in P : j < i => vins[j] # vins[i]
  BY <1>1
<1>3. t = At(vins, P)
  BY DEF Distinct
<1> HIDE DEF P, n, t
<1>4. /\ n \in Nat /\ Ascending(P) \in Bijection(1 .. n, P)
      /\ t \in Seq(Vins) /\ Len(t) = n /\ \A i \in 1 .. n : t[i] = vins[Ascending(P)[i]]
  BY <1>1, <1>3, AtPicks DEF n
<1>5. \A i, j \in 1 .. n : i # j => t[i] # t[j]
  <2> SUFFICES ASSUME NEW i \in 1 .. n, NEW j \in 1 .. n, i # j PROVE t[i] # t[j]
    OBVIOUS
  <2> DEFINE a == Ascending(P)[i]
             b == Ascending(P)[j]
  <2>1. a \in P /\ b \in P /\ a # b
    BY <1>4 DEF Bijection, Injection, IsInjective
  <2>2. t[i] = vins[a] /\ t[j] = vins[b]
    BY <1>4
  <2> HIDE DEF a, b
  <2>3. a \in Nat /\ b \in Nat
    BY <1>1, <2>1
  <2> QED BY <1>2, <2>1, <2>2, <2>3
<1>6. DOMAIN t = 1 .. n
  BY <1>4, LenProperties
<1>7. IsInjective(t)
  BY <1>5, <1>6 DEF IsInjective
<1> QED BY <1>4, <1>7 DEF t
-----------------------------------------------------------------------------
\* The initial tables have their types.
LEMMA InitTypes == Init => TypeOK
<1> SUFFICES ASSUME Init PROVE TypeOK
  OBVIOUS
<1>1. PICK list \in Older : featured = [vins |-> list, cards |-> FALSE]
  BY DEF Init
<1>2. list \in Seq(Vins) /\ IsInjective(list) /\ Len(list) <= Limit
  BY TablesAllowed
<1>4. /\ featured \in [vins : Seq(Vins), cards : BOOLEAN]
      /\ IsInjective(featured.vins) /\ Len(featured.vins) <= Limit
  BY <1>1, <1>2
<1>3. /\ manual \in [Vins -> Manual \cup {NoManual}]
      /\ offers \in [Vins -> Offer \cup {NoOffer}]
      /\ \A v \in Vins : manual[v] = NoManual
  BY DEF Init
<1> QED BY <1>2, <1>3, <1>4 DEF Init, TypeOK

\* Terms that are given to offers make offers.
LEMMA OffersTyped ==
    ASSUME TypeOK, NEW vins \in SUBSET Vins, NEW terms \in Offer, NEW given,
           SetOffers(vins, terms, given)
    PROVE  TypeOK'
<1> DEFINE new(v) == [monthly |-> IF "monthly" \in given THEN terms.monthly
                                  ELSE offers[v].monthly,
                      discounted |-> IF "discounted" \in given THEN terms.discounted
                                     ELSE offers[v].discounted]
<1>1. \A v \in Vins : offers[v] \in Offer \cup {NoOffer}
  BY DEF TypeOK
<1>2. ASSUME NEW v \in Vins PROVE new(v) \in Offer
  <2>1. /\ offers[v].monthly \in BOOLEAN /\ offers[v].discounted \in Price
        /\ terms.monthly \in BOOLEAN /\ terms.discounted \in Price
    <3>1. CASE offers[v] \in Offer
      BY <3>1 DEF Offer
    <3>2. CASE offers[v] = NoOffer
      BY <3>2 DEF Offer, NoOffer, Price
    <3> QED BY <1>1, <3>1, <3>2
  <2> QED BY <2>1 DEF Offer
<1>3. offers' = [v \in Vins |-> IF v \notin vins THEN offers[v] ELSE new(v)]
  BY DEF SetOffers
<1> HIDE DEF new
<1>4. offers' \in [Vins -> Offer \cup {NoOffer}]
  BY <1>1, <1>2, <1>3
<1> QED BY <1>4 DEF TypeOK, SetOffers

\* Every request keeps the types of the tables.
LEMMA NextTypes == TypeOK /\ [Next]_vars => TypeOK'
<1> SUFFICES ASSUME TypeOK, [Next]_vars PROVE TypeOK'
  OBVIOUS
<1>1. ASSUME NEW rows \in SUBSET Rows, Scrape(rows) PROVE TypeOK'
  BY <1>1 DEF TypeOK, Scrape
<1>2. ASSUME NEW m \in ManualRows, NEW t \in Terms \cup {NoOffer}, PutManual(m[1], m[2], t)
      PROVE  TypeOK'
  <2>1. m[1] \in Vins /\ m[2] \in Manual /\ <<m[1], m[2]>> \in ManualRows
    BY TablesAllowed
  <2>2. t \in Offer \cup {NoOffer}
    BY TablesAllowed
  <2>3. offers' \in [Vins -> Offer \cup {NoOffer}]
    BY <1>2, <2>1, <2>2 DEF PutManual, TypeOK
  <2>4. /\ manual' \in [Vins -> Manual \cup {NoManual}]
        /\ \A v \in Vins : manual'[v] = IF v = m[1] THEN m[2] ELSE manual[v]
    BY <1>2, <2>1 DEF PutManual, TypeOK
  <2>5. \A v \in Vins : manual'[v] # NoManual => <<v, manual'[v]>> \in ManualRows
    BY <2>1, <2>4 DEF TypeOK
  <2> QED BY <1>2, <2>3, <2>4, <2>5 DEF TypeOK, PutManual
<1>3. ASSUME NEW vins \in SUBSET Vins, DeleteManual(vins) PROVE TypeOK'
  <2>1. /\ manual' \in [Vins -> Manual \cup {NoManual}]
        /\ \A v \in Vins : manual'[v] = NoManual \/ manual'[v] = manual[v]
    BY <1>3 DEF TypeOK, DeleteManual
  <2>2. \A v \in Vins : manual'[v] # NoManual => <<v, manual'[v]>> \in ManualRows
    BY <2>1 DEF TypeOK
  <2> QED BY <1>3, <2>1, <2>2 DEF TypeOK, DeleteManual
<1>4. ASSUME NEW v \in Vins, DropOffer(v) PROVE TypeOK'
  BY <1>4 DEF TypeOK, DropOffer
<1>5. ASSUME NEW v \in Vins, NEW t \in Terms, PutOffer(v, t) PROVE TypeOK'
  <2>1. t \in Offer
    BY TablesAllowed
  <2> QED BY <1>5, <2>1, OffersTyped DEF PutOffer
<1>6. ASSUME NEW v \in Vins, NEW t \in Terms, NEW given, DealerOffer(v, t, given)
      PROVE  TypeOK'
  <2>1. t \in Offer
    BY TablesAllowed
  <2> QED BY <1>6, <2>1, OffersTyped DEF DealerOffer
<1>7. ASSUME NEW l, NEW k, PutLineOffer(l, k) PROVE TypeOK'
  <2> DEFINE vins == Matching([All EXCEPT !.line = l, !.type = k])
  <2>1. PICK t \in Terms, given \in SUBSET Everything : SetOffers(vins, t, given)
    BY <1>7 DEF PutLineOffer
  <2>2. vins \in SUBSET Vins /\ t \in Offer
    BY TablesAllowed DEF Matching
  <2> HIDE DEF vins
  <2> QED BY <2>1, <2>2, OffersTyped
<1>8. ASSUME NEW given \in Lists, SetFeatured(given) PROVE TypeOK'
  <2>1. given \in Seq(Vins)
    BY TablesAllowed
  <2> DEFINE vins == Distinct(given)
  <2>2. vins \in Seq(Vins) /\ IsInjective(vins)
    BY <2>1, DistinctIs
  <2>3. featured' = [vins |-> vins, cards |-> vins # <<>>] /\ Len(vins) <= Limit
    BY <1>8 DEF SetFeatured
  <2> HIDE DEF vins
  <2>4. /\ featured' \in [vins : Seq(Vins), cards : BOOLEAN]
        /\ IsInjective(featured'.vins) /\ Len(featured'.vins) <= Limit
    BY <2>2, <2>3
  <2> QED BY <1>8, <2>4 DEF TypeOK, SetFeatured
<1>9. CASE UNCHANGED vars
  BY <1>9 DEF vars, TypeOK
<1> QED BY <1>1, <1>2, <1>3, <1>4, <1>5, <1>6, <1>7, <1>8, <1>9 DEF Next

\* The tables hold what they are declared to hold.
THEOREM TypeCorrect == Spec => []TypeOK
BY InitTypes, NextTypes, PTL DEF Spec

\* search_inventory: whatever order the rows come in, no page repeats a vehicle
\* and each holds what the total promises, within TotalsHold's hypotheses: the
\* rows fit what is fetched, or only the listed vehicles are promised.
THEOREM TotalsAreTrue == Spec => []TotalsHold
<1>1. TypeOK => TotalsHold
  <2> SUFFICES ASSUME TypeOK, NEW q \in Queries, ~q.offersOnly,
                      NEW page \in 1 .. 1 + Pages(Count(q) + Cardinality(ManualMatching(q))),
                      NEW answer \in Answers(q, page)
               PROVE  LET listed == Cardinality(Matching(q))
                          cards == Len(answer.items)
                      IN /\ IsInjective(VinsOf(answer.items))
                         /\ (q.maxPayment # 0 /\ listed <= FetchSize(q)) =>
                               /\ answer.total = Cardinality(AffordableVins(q))
                               /\ cards = OnPage(answer.total, page)
                         /\ q.maxPayment = 0 =>
                               /\ listed <= answer.total
                               /\ OnPage(listed, page) <= cards
                               /\ cards <= OnPage(answer.total, page)
    BY DEF TotalsHold
  <2>1. q \in Query
    BY TablesAllowed
  <2>2. page \in Nat \ {0}
    <3>1. Count(q) + Cardinality(ManualMatching(q)) \in Nat
      BY Counted, ManualMatchingFinite
    <3> QED BY <3>1, PagesCounted
  <2>3. PICK rows \in RowOrders(q), entered \in SetToSeqs(ManualMatching(q)) :
           answer = Search(q, page, rows, entered)
    BY DEF Answers
  <2> QED BY <2>1, <2>2, <2>3, PaidHolds, PlainHolds
<1> QED BY <1>1, TypeCorrect, PTL

\* dealer_inventory: whatever order the rows come in, a dealer is told of more
\* exactly when the next page is not empty, and where that ends he has been
\* shown as many cards as there are listed vehicles.
THEOREM DealerPagesAre == Spec => []DealerPagesEnd
BY DealerHolds, TypeCorrect, PTL
-----------------------------------------------------------------------------
\* The search for the specials of a type, as filters and pages make it.
OffersOnly(type) == [All EXCEPT !.type = type, !.offersOnly = TRUE]

\* It is a search without a line and without limits.
LEMMA SpecialsQuery ==
    ASSUME NEW type \in {"all", "new", "used"}
    PROVE  /\ OffersOnly(type) \in Query /\ OffersOnly(type).type = type
           /\ OffersOnly(type).offersOnly /\ OffersOnly(type).line = 0
           /\ OffersOnly(type).maxPrice = 0 /\ OffersOnly(type).maxPayment = 0
BY DEF OffersOnly, All, Query, Line

\* Two names of the same set.
LEMMA ToSetIsRange == ASSUME NEW s PROVE ToSet(s) = Range(s)
BY DEF ToSet, Range

\* Without a line, the search goes by the vehicle's own offer.
LEMMA OwnSpecial ==
    ASSUME TypeOK, NEW q, q.line = 0, NEW v \in Found(q)
    PROVE  ItemOf(v, BestRow(v, q), q).special
              <=> \/ offers[v].monthly
                  \/ BestRow(v, q).feed /\ RowEstimate(BestRow(v, q), offers[v]) # 0
<1> DEFINE row == BestRow(v, q)
<1>1. Resolved(v, row.line, TRUE, q.line # 0) = offers[v]
  BY DEF Resolved
<1>2. ItemOf(v, row, q).special
         = (offers[v].monthly \/ (row.feed /\ RowEstimate(row, offers[v]) # 0))
  <2> DEFINE special == offers[v].monthly \/ (row.feed /\ RowEstimate(row, offers[v]) # 0)
  <2>1. ItemOf(v, row, q) = [vin |-> v, monthly |-> RowEstimate(row, offers[v]),
                             special |-> special]
    BY <1>1 DEF ItemOf, Priced, VisibleSpecial, Visible
  <2> HIDE DEF special, row
  <2>2. ItemOf(v, row, q).special = special
    BY <2>1
  <2> QED BY <2>2 DEF special
<1> QED BY <1>2, Zenon

\* A new car has an estimate if anything names a price.
LEMMA NewEstimate ==
    ASSUME NEW r \in Row, EffectiveType(r) = "new", NEW o \in Offer \cup {NoOffer}
    PROVE  RowEstimate(r, o) # 0 <=> o.discounted # 0 \/ r.msrp # 0 \/ r.listed # 0
<1>1. r.msrp \in Nat /\ r.listed \in Nat /\ o.discounted \in Nat
  BY RowTypes, OfferTypes
<1> QED BY <1>1 DEF RowEstimate, Estimate, Coalesce

\* The lines of the filters, one by one.
LEMMA FilterLinesAre ==
    ASSUME NEW type, NEW l
    PROVE  l \in FilterLines(type) <=>
              \E v \in Vins :
                 \/ /\ ShownListing(v, BestRow(v, OffersOnly(type)))
                    /\ l = BestRow(v, OffersOnly(type)).line
                 \/ /\ ShownManual(v, BestRow(v, OffersOnly(type)), type)
                    /\ l = manual[v].line
<1> DEFINE row == [v \in Vins |-> BestRow(v, OffersOnly(type))]
<1>1. FilterLines(type) =
         {row[v].line : v \in {u \in Vins : ShownListing(u, row[u])}}
         \cup {manual[v].line : v \in {u \in Vins : ShownManual(u, row[u], type)}}
  BY DEF FilterLines, OffersOnly
<1>2. \A v \in Vins : row[v] = BestRow(v, OffersOnly(type))
  OBVIOUS
<1> HIDE DEF row
<1>3. l \in FilterLines(type) <=>
         \E v \in Vins : \/ ShownListing(v, row[v]) /\ l = row[v].line
                         \/ ShownManual(v, row[v], type) /\ l = manual[v].line
  BY <1>1
<1> QED BY <1>2, <1>3

\* What the search shows as a special of a type, by its lines: all of it, unless
\* there are more candidates than are fetched.
LEMMA LinesAre ==
    ASSUME TypeOK, NEW type \in {"all", "new", "used"}, NEW l, l # 0
    PROVE  LET shown == \E v \in Found(OffersOnly(type)) \cap LeaseVins :
                    /\ l = BestRow(v, OffersOnly(type)).line
                    /\ \/ offers[v].monthly
                       \/ /\ BestRow(v, OffersOnly(type)).feed
                          /\ RowEstimate(BestRow(v, OffersOnly(type)), offers[v]) # 0
           IN /\ l \in LinesOfSpecials(type) => shown
              /\ Cardinality(LeaseVins) <= Caps.broad => (shown => l \in LinesOfSpecials(type))
<1> DEFINE q == OffersOnly(type)
           vins == ToSet(VinsOf(Specials(q).items))
           Shown(v) == \/ offers[v].monthly
                       \/ BestRow(v, q).feed /\ RowEstimate(BestRow(v, q), offers[v]) # 0
           few == Cardinality(LeaseVins) <= Caps.broad
<1>1. q \in Query /\ q.offersOnly /\ q.line = 0 /\ q.maxPayment = 0
  BY SpecialsQuery
<1>2. LinesOfSpecials(type) = {BestRow(v, q).line : v \in vins} \ {0}
  BY DEF LinesOfSpecials, OffersOnly
<1> HIDE DEF q
<1>3. /\ vins \subseteq {v \in Found(q) \cap LeaseVins : ItemOf(v, BestRow(v, q), q).special}
      /\ few => vins = {v \in Found(q) \cap LeaseVins : ItemOf(v, BestRow(v, q), q).special}
  BY <1>1, SpecialsAre, ToSetIsRange
<1>4. \A v \in Found(q) : ItemOf(v, BestRow(v, q), q).special <=> Shown(v)
  BY <1>1, OwnSpecial
<1> HIDE DEF vins, few
<1>5. /\ \A v \in vins : v \in Found(q) \cap LeaseVins /\ Shown(v)
      /\ few => \A v \in Found(q) \cap LeaseVins : Shown(v) => v \in vins
  BY <1>3, <1>4
<1>6. /\ l \in LinesOfSpecials(type) =>
            \E v \in Found(q) \cap LeaseVins : l = BestRow(v, q).line /\ Shown(v)
      /\ few => ((\E v \in Found(q) \cap LeaseVins : l = BestRow(v, q).line /\ Shown(v))
                    => l \in LinesOfSpecials(type))
  <2> HIDE DEF Shown
  <2> QED BY <1>2, <1>5
<1> QED BY <1>6 DEF q, few

\* Every line of a new special is among the filters, if it names a model.
LEMMA FiltersComplete ==
    ASSUME TypeOK
    PROVE  LinesOfSpecials("new") \cap Named \subseteq FilterLines("new")
<1> SUFFICES ASSUME NEW l \in LinesOfSpecials("new"), l \in Named
             PROVE  l \in FilterLines("new")
  OBVIOUS
<1> DEFINE q == OffersOnly("new")
<1>1. l # 0
  BY TablesAllowed
<1>2. PICK v \in Found(q) \cap LeaseVins :
         /\ l = BestRow(v, q).line
         /\ \/ offers[v].monthly
            \/ BestRow(v, q).feed /\ RowEstimate(BestRow(v, q), offers[v]) # 0
  BY <1>1, LinesAre
<1> DEFINE row == BestRow(v, q)
           o == Resolved(v, row.line, TRUE, TRUE)
<1>3. row # NoRow /\ row \in Row /\ v \in Vins /\ EffectiveType(row) = "new"
  BY BestRowIs, SpecialsQuery DEF Found, Passes
<1>4. o \in Offer \cup {NoOffer} /\ offers[v] \in Offer \cup {NoOffer}
  BY <1>3, ResolvedTyped DEF TypeOK
<1>5. o = IF offers[v] # NoOffer THEN offers[v] ELSE LineOffer(row.line)
  BY DEF Resolved
<1> HIDE DEF o
<1>6. o.monthly \/ (row.feed /\ RowEstimate(row, o) # 0)
  <2>1. CASE offers[v] # NoOffer
    BY <1>2, <1>5, <2>1
  <2>2. CASE offers[v] = NoOffer
    <3>1. ~offers[v].monthly /\ offers[v].discounted = 0
      BY <2>2 DEF NoOffer
    <3>2. row.feed /\ RowEstimate(row, offers[v]) # 0
      BY <1>2, <3>1
    <3>3. row.msrp # 0 \/ row.listed # 0
      BY <1>3, <1>4, <3>1, <3>2, NewEstimate
    <3>4. RowEstimate(row, o) # 0
      BY <1>3, <1>4, <3>3, NewEstimate
    <3> QED BY <3>2, <3>4
  <2> QED BY <2>1, <2>2
<1>7. ShownListing(v, row)
  BY <1>2, <1>3, <1>6 DEF ShownListing, FilteredSpecial, VisibleSpecial, Visible, o
<1> HIDE DEF q
<1>8. ShownListing(v, row) /\ l = row.line
  BY <1>2, <1>7
<1> QED BY <1>3, <1>8, FilterLinesAre DEF q

\* Without manual vehicles, with listings that are for sale and priced, and with
\* no more candidates than are fetched, each line among the filters has a special.
LEMMA FiltersSound ==
    ASSUME TypeOK, \A v \in Vins : ~HasManual(v),
           \A r \in listings : r.active /\ (r.feed => r.msrp # 0 \/ r.listed # 0),
           Cardinality(LeaseVins) <= Caps.broad
    PROVE  FilterLines("all") \subseteq LinesOfSpecials("all")
<1> SUFFICES ASSUME NEW l \in FilterLines("all") PROVE l \in LinesOfSpecials("all")
  OBVIOUS
<1> DEFINE q == OffersOnly("all")
<1>1. \A v : BestRow(v, q) = Listing(v)
  <2>1. \A r : Passes(r, q) /\ Passes(r, All)
    BY SpecialsQuery DEF Passes, All
  <2> HIDE DEF q
  <2> QED BY <2>1 DEF BestRow, Listing
<1>2. PICK v \in Vins : ShownListing(v, BestRow(v, q)) /\ l = BestRow(v, q).line
  BY FilterLinesAre DEF ShownManual
<1>3. ShownListing(v, BestRow(v, q)) /\ l = BestRow(v, q).line /\ l # 0
  BY <1>2, TablesAllowed DEF ShownListing
<1> DEFINE row == BestRow(v, q)
           o == Resolved(v, row.line, TRUE, TRUE)
<1>4. /\ row # NoRow
      /\ o.monthly \/ /\ row.feed
                      /\ (IF EffectiveType(row) = "new" THEN RowEstimate(row, o) ELSE 0) # 0
  BY <1>3 DEF ShownListing, FilteredSpecial, VisibleSpecial, Visible
<1>5. row \in listings /\ row \in Row /\ row.vin = v /\ v \in Found(q)
  BY <1>4, BestRowIs DEF Found
<1>6. o = IF offers[v] # NoOffer THEN offers[v] ELSE LineOffer(row.line)
  BY DEF Resolved
<1>7. offers[v] \in Offer \cup {NoOffer}
  BY DEF TypeOK
<1> HIDE DEF o, q
<1> SUFFICES \E u \in Found(q) \cap LeaseVins :
                /\ l = BestRow(u, q).line
                /\ \/ offers[u].monthly
                   \/ BestRow(u, q).feed /\ RowEstimate(BestRow(u, q), offers[u]) # 0
  BY <1>3, LinesAre DEF q
<1>8. CASE o.monthly
  <2>1. CASE offers[v] # NoOffer
    <3>1. offers[v].monthly
      BY <1>6, <1>8, <2>1
    <3>2. v \in LeaseVins
      BY <3>1 DEF LeaseVins
    <3> QED BY <1>3, <1>5, <3>1, <3>2
  <2>2. CASE offers[v] = NoOffer
    <3>1. o = LineOffer(row.line) /\ LineOffer(row.line) # NoOffer
      <4>1. ~NoOffer.monthly
        BY DEF NoOffer
      <4> QED BY <1>6, <1>8, <2>2, <4>1
    <3>2. PICK u \in Vins : LineOffer(row.line) = offers[u] /\ OfferedLine(u, Listing(u)) = row.line
      BY <3>1, LineOfferIs
    <3>3. Listing(u) # NoRow /\ Listing(u).line = row.line
      BY <1>3, <3>2 DEF OfferedLine
    <3>4. u \in Found(q) /\ BestRow(u, q).line = l
      BY <1>1, <1>3, <3>3 DEF Found
    <3>5. offers[u].monthly /\ u \in LeaseVins
      BY <1>8, <3>1, <3>2 DEF LeaseVins
    <3> QED BY <3>4, <3>5
  <2> QED BY <2>1, <2>2
<1>9. CASE ~o.monthly
  <2>1. row.feed /\ EffectiveType(row) = "new" /\ RowEstimate(row, o) # 0
    BY <1>4, <1>9
  <2>2. row.active /\ (row.msrp # 0 \/ row.listed # 0)
    BY <1>5, <2>1
  <2>3. v \in LeaseVins
    BY <1>5, <2>1, <2>2 DEF LeaseVins, FeedNew
  <2>4. RowEstimate(row, offers[v]) # 0
    BY <1>5, <1>7, <2>1, <2>2, NewEstimate
  <2> QED BY <1>3, <1>5, <2>1, <2>3, <2>4
<1> QED BY <1>8, <1>9

\* inventory_filters and search_inventory, which decide each on its own what a
\* special is, agree on its line: every line of a new special that names a model
\* is among the filters and, within FiltersMatchSpecials' hypotheses, each line
\* among them has a special.
THEOREM FiltersMatch == Spec => []FiltersMatchSpecials
<1>1. TypeOK => FiltersMatchSpecials
  BY FiltersComplete, FiltersSound DEF FiltersMatchSpecials
<1> QED BY <1>1, TypeCorrect, PTL
-----------------------------------------------------------------------------
\* The list that the homepage reads.
LEMMA FeaturedAre ==
    ASSUME TypeOK
    PROVE  /\ FeaturedVins \in Seq(Vins) /\ IsInjective(FeaturedVins)
           /\ Len(FeaturedVins) <= Limit
BY TablesAllowed DEF FeaturedVins, TypeOK

\* The featured vehicles that are shown: all that have a page, or all.
LEMMA FeaturedShownAre ==
    ASSUME TypeOK
    PROVE  /\ FeaturedShown \in Seq(Vins) /\ IsInjective(FeaturedShown)
           /\ Range(FeaturedShown) = {v \in Range(FeaturedVins) : FeaturedCards \/ HasPage(v)}
<1> DEFINE s == FeaturedVins
           P == {i \in 1 .. Len(s) : FeaturedCards \/ HasPage(s[i])}
           t == At(s, P)
<1>1. s \in Seq(Vins) /\ IsInjective(s) /\ Len(s) <= Limit
  BY FeaturedAre
<1>2. FeaturedShown = Slice(t, 0, Limit)
  BY DEF FeaturedShown, Where
<1>3. P \in SUBSET (1 .. Len(s)) /\ \A i \in 1 .. Len(s) : i \in P <=> FeaturedCards \/ HasPage(s[i])
  OBVIOUS
<1>4. DOMAIN s = 1 .. Len(s) /\ Len(s) \in Nat
  BY <1>1, LenProperties
<1> HIDE DEF s, P
<1>5. t \in Seq(Vins) /\ Len(t) <= Len(s) /\ Range(t) = {s[i] : i \in P} /\ IsInjective(t)
  BY <1>1, <1>3, AtPicks, AtKeeps
<1>6. Range(t) = {v \in Range(s) : FeaturedCards \/ HasPage(v)}
  BY <1>3, <1>4, <1>5 DEF Range
<1> HIDE DEF t
<1>7. Len(t) <= Limit /\ Limit \in Nat
  BY <1>1, <1>4, <1>5, LenProperties, Numbers
<1>8. FeaturedShown = t
  BY <1>2, <1>5, <1>7, SliceWhole
<1> QED BY <1>5, <1>6, <1>8 DEF s

\* The specials that fill the homepage up are listed vehicles, each once.
LEMMA SpecialVinsAre ==
    ASSUME TypeOK
    PROVE  /\ SpecialVins \in Seq(Vins) /\ IsInjective(SpecialVins)
           /\ \A v \in Range(SpecialVins) : HasPage(v)
<1>1. HomeQuery = OffersOnly("new") /\ HomeQuery \in Query /\ HomeQuery.offersOnly
      /\ HomeQuery.line = 0 /\ HomeQuery.maxPayment = 0
  BY SpecialsQuery DEF HomeQuery, OffersOnly
<1>2. /\ SpecialVins \in Seq(Vins) /\ IsInjective(SpecialVins)
      /\ Range(SpecialVins) \in SUBSET Found(HomeQuery)
  BY <1>1, SpecialsAre DEF SpecialVins
<1>3. ASSUME NEW v \in Found(HomeQuery) PROVE HasPage(v)
  <2>1. BestRow(v, HomeQuery) \in listings /\ BestRow(v, HomeQuery).vin = v
    BY BestRowIs DEF Found
  <2>2. Passes(BestRow(v, HomeQuery), All)
    BY DEF Passes, All
  <2>3. BestRow(v, All) # NoRow
    BY <2>1, <2>2, BestRowIs
  <2> QED BY <2>3 DEF HasPage, Listed, Listing
<1> QED BY <1>2, <1>3

\* The homepage repeats nothing, shows what has a page, and is full.
LEMMA HomepageIs ==
    ASSUME TypeOK
    PROVE  HomepageIsFull
<1> DEFINE front == FeaturedShown
           s == SpecialVins
           P == {i \in 1 .. Len(s) : s[i] \notin ToSet(front)}
           more == At(s, P)
           rest == IF FeaturedCards THEN <<>> ELSE more
           all == front \o rest
<1>1. /\ front \in Seq(Vins) /\ IsInjective(front)
      /\ Range(front) = {v \in Range(FeaturedVins) : FeaturedCards \/ HasPage(v)}
  BY FeaturedShownAre
<1>2. s \in Seq(Vins) /\ IsInjective(s) /\ \A v \in Range(s) : HasPage(v)
  BY SpecialVinsAre
<1>3. Homepage = Slice(all, 0, Limit)
  BY DEF Homepage, Where
<1>4. P \in SUBSET (1 .. Len(s)) /\ \A i \in 1 .. Len(s) : i \in P <=> s[i] \notin Range(front)
  BY ToSetIsRange
<1>5. DOMAIN s = 1 .. Len(s) /\ DOMAIN front = 1 .. Len(front)
  BY <1>1, <1>2, LenProperties
<1> HIDE DEF front, s, P
<1>6. more \in Seq(Vins) /\ Range(more) = {s[i] : i \in P} /\ IsInjective(more)
  <2>1. s \in Seq(Vins) /\ IsInjective(s) /\ P \in SUBSET (1 .. Len(s))
    BY <1>2, <1>4
  <2>2. more \in Seq(Vins)
    BY <2>1, AtPicks
  <2>3. Range(more) = {s[i] : i \in P} /\ IsInjective(more)
    BY <2>1, AtKeeps
  <2> QED BY <2>2, <2>3
<1>7. Range(more) = Range(s) \ Range(front)
  BY <1>4, <1>5, <1>6 DEF Range
<1> HIDE DEF more
<1>8. /\ rest \in Seq(Vins) /\ IsInjective(rest)
      /\ Range(rest) = IF FeaturedCards THEN {} ELSE Range(s) \ Range(front)
  <2>1. <<>> \in Seq(Vins) /\ IsInjective(<<>>) /\ Range(<<>>) = {}
    BY EmptySeq DEF IsInjective, Range
  <2> QED BY <1>6, <1>7, <2>1
<1> HIDE DEF rest
<1>9. \A i \in 1 .. Len(front), j \in 1 .. Len(rest) : front[i] # rest[j]
  <2>1. DOMAIN rest = 1 .. Len(rest)
    BY <1>8, LenProperties
  <2>2. \A i \in 1 .. Len(front) : front[i] \in Range(front)
    BY <1>5 DEF Range
  <2>3. \A j \in 1 .. Len(rest) : rest[j] \in Range(rest)
    BY <2>1 DEF Range
  <2> QED BY <1>8, <2>2, <2>3
<1>10. all \in Seq(Vins) /\ IsInjective(all) /\ Range(all) = Range(front) \cup Range(rest)
  BY <1>1, <1>8, <1>9, ConcatInjective, ConcatProperties, RangeConcatenation
<1> HIDE DEF all
<1>11. /\ Homepage \in Seq(Vins) /\ IsInjective(Homepage)
       /\ Len(Homepage) = IF 0 + Limit <= Len(all) THEN Limit
                          ELSE IF 0 <= Len(all) THEN Len(all) - 0 ELSE 0
       /\ \A i \in 1 .. Len(Homepage) : Homepage[i] = all[0 + i]
  <2>1. 0 \in Nat /\ Limit \in Nat
    BY Numbers
  <2>2. IsInjective(Slice(all, 0, Limit))
    BY <1>10, <2>1, SliceKeeps
  <2>3. /\ Slice(all, 0, Limit) \in Seq(Vins)
        /\ Len(Slice(all, 0, Limit)) = IF 0 + Limit <= Len(all) THEN Limit
                                       ELSE IF 0 <= Len(all) THEN Len(all) - 0 ELSE 0
        /\ \A i \in 1 .. Len(Slice(all, 0, Limit)) : Slice(all, 0, Limit)[i] = all[0 + i]
    BY <1>10, <2>1, SliceOf, Zenon
  <2> QED BY <1>3, <2>2, <2>3
<1>12. Len(all) \in Nat /\ Limit \in Nat /\ DOMAIN all = 1 .. Len(all)
       /\ DOMAIN Homepage = 1 .. Len(Homepage)
  BY <1>10, <1>11, LenProperties, Numbers
<1>13. Len(Homepage) = Min({Limit, Len(all)})
  <2> DEFINE len == Len(all)
             size == Len(Homepage)
  <2>1. /\ len \in Nat /\ Limit \in Nat
        /\ size = IF 0 + Limit <= len THEN Limit ELSE IF 0 <= len THEN len - 0 ELSE 0
    BY <1>11, <1>12
  <2> HIDE DEF len, size
  <2>2. Min({Limit, len}) = IF Limit <= len THEN Limit ELSE len
    BY <2>1, MinOfTwo
  <2>3. size = Min({Limit, len})
    BY <2>1, <2>2
  <2> QED BY <2>3 DEF len, size
<1>14. \A v \in ToSet(Homepage) : FeaturedCards \/ HasPage(v)
  <2>1. \A i \in 1 .. Len(Homepage) : i \in 1 .. Len(all) /\ 0 + i = i
    <3> DEFINE len == Len(all)
               size == Len(Homepage)
    <3>1. /\ len \in Nat /\ Limit \in Nat
          /\ size = IF 0 + Limit <= len THEN Limit ELSE IF 0 <= len THEN len - 0 ELSE 0
      BY <1>11, <1>12
    <3> HIDE DEF len, size
    <3>2. \A i \in 1 .. size : i \in 1 .. len /\ 0 + i = i
      BY <3>1
    <3> QED BY <3>2 DEF len, size
  <2>2. \A v \in ToSet(Homepage) : v \in Range(all)
    BY <1>11, <1>12, <2>1 DEF ToSet, Range
  <2>3. \A v \in Range(all) : FeaturedCards \/ HasPage(v)
    BY <1>1, <1>2, <1>8, <1>10
  <2> QED BY <2>2, <2>3
<1>15. ASSUME ~FeaturedCards
       PROVE  Len(all) = Cardinality({v \in ToSet(FeaturedVins) : HasPage(v)}
                                     \cup ToSet(SpecialVins))
  <2>1. Range(all) = {v \in ToSet(FeaturedVins) : HasPage(v)} \cup ToSet(SpecialVins)
    <3>1. Range(front) = {v \in Range(FeaturedVins) : HasPage(v)}
      BY <1>1, <1>15
    <3>2. Range(all) = Range(front) \cup Range(s)
      BY <1>8, <1>10, <1>15
    <3> QED BY <3>1, <3>2, ToSetIsRange DEF s
  <2>2. Cardinality(Range(all)) = Len(all)
    BY <1>10, InjectiveCount
  <2> QED BY <2>1, <2>2
<1> QED BY <1>11, <1>13, <1>14, <1>15 DEF HomepageIsFull

\* The homepage shows no vehicle twice, none without a page unless its card is
\* stored, and as many as there are up to its limit.
THEOREM HomepageFull == Spec => []HomepageIsFull
BY HomepageIs, TypeCorrect, PTL
=============================================================================
