----------------------------- MODULE QueueLemmas -----------------------------
(***************************************************************************)
(* What the list operations of libs/common/include/list.h do to the        *)
(* contents of a list, for lists that hold every element at most once.     *)
(***************************************************************************)
EXTENDS Lists, SequenceTheorems, WellFoundedInduction, TLAPS

\* list_push_back of an element that is not in the list.
LEMMA AppendRange ==
    ASSUME NEW T, NEW q \in Seq(T), NEW x \in T, IsInjective(q), x \notin Range(q)
    PROVE  /\ Append(q, x) \in Seq(T)
           /\ IsInjective(Append(q, x))
           /\ Range(Append(q, x)) = Range(q) \cup {x}
<1> DEFINE a == Append(q, x)
<1>1. /\ a \in Seq(T) /\ Len(a) = Len(q) + 1 /\ Len(q) \in Nat
      /\ DOMAIN q = 1..Len(q) /\ DOMAIN a = 1..(Len(q) + 1)
      /\ \A i \in 1..Len(q) : a[i] = q[i]
      /\ a[Len(q) + 1] = x
  OBVIOUS
<1>2. \A i \in DOMAIN q : q[i] # x
  BY DEF Range
<1>3. IsInjective(a)
  BY <1>1, <1>2 DEF IsInjective
<1>4. Range(a) = Range(q) \cup {x}
  BY <1>1 DEF Range
<1> QED BY <1>1, <1>3, <1>4

\* list_pop_front of a list that is not empty.
LEMMA TailRange ==
    ASSUME NEW T, NEW q \in Seq(T), q # <<>>, IsInjective(q)
    PROVE  /\ Tail(q) \in Seq(T)
           /\ IsInjective(Tail(q))
           /\ Head(q) \in Range(q)
           /\ Range(Tail(q)) = Range(q) \ {Head(q)}
<1> DEFINE a == Tail(q)
<1>1. /\ a \in Seq(T) /\ Len(q) \in Nat \ {0} /\ Len(a) = Len(q) - 1
      /\ DOMAIN q = 1..Len(q) /\ DOMAIN a = 1..(Len(q) - 1)
      /\ \A i \in 1..(Len(q) - 1) : a[i] = q[i + 1]
      /\ Head(q) = q[1]
  OBVIOUS
<1>2. IsInjective(a)
  BY <1>1 DEF IsInjective
<1>3. Head(q) \in Range(q)
  BY <1>1 DEF Range
<1>4. Range(a) = Range(q) \ {Head(q)}
  <2>1. ASSUME NEW y \in Range(a) PROVE y \in Range(q) /\ y # Head(q)
    BY <1>1 DEF Range, IsInjective
  <2>2. ASSUME NEW y \in Range(q), y # Head(q) PROVE y \in Range(a)
    <3>1. PICK i \in 1..Len(q) : q[i] = y
      BY <1>1 DEF Range
    <3>2. i - 1 \in 1..(Len(q) - 1) /\ a[i - 1] = y
      BY <3>1, <2>2, <1>1
    <3> QED BY ZenonT(30), <3>2, <1>1 DEF Range
  <2> QED BY <2>1, <2>2
<1> QED BY <1>1, <1>2, <1>3, <1>4

LEMMA RangeTyped ==
    ASSUME NEW T, NEW q \in Seq(T)
    PROVE  Range(q) \subseteq T
BY DEF Range

LEMMA EmptyRange ==
    ASSUME NEW T, NEW q \in Seq(T), Range(q) = {}
    PROVE  q = <<>>
<1>1. CASE q # <<>>
  <2>1. Head(q) \in Range(q)
    <3>1. 1 \in DOMAIN q /\ Head(q) = q[1]
      BY <1>1
    <3> QED BY <3>1 DEF Range
  <2> QED BY <2>1
<1> QED BY <1>1

\* Appending a list that shares no element with the first.
LEMMA ConcatRange ==
    ASSUME NEW T, NEW q \in Seq(T), NEW r \in Seq(T), IsInjective(q), IsInjective(r),
           Range(q) \cap Range(r) = {}
    PROVE  /\ q \o r \in Seq(T)
           /\ IsInjective(q \o r)
           /\ Range(q \o r) = Range(q) \cup Range(r)
<1> DEFINE a == q \o r
<1>1. /\ a \in Seq(T) /\ Len(q) \in Nat /\ Len(r) \in Nat
      /\ DOMAIN q = 1..Len(q) /\ DOMAIN r = 1..Len(r)
      /\ DOMAIN a = 1..(Len(q) + Len(r))
      /\ \A i \in 1..(Len(q) + Len(r)) :
           a[i] = IF i <= Len(q) THEN q[i] ELSE r[i - Len(q)]
  BY ConcatProperties
<1> HIDE DEF a
<1>2. ASSUME NEW i \in DOMAIN a
      PROVE  \/ i \in DOMAIN q /\ a[i] = q[i]
             \/ i - Len(q) \in DOMAIN r /\ a[i] = r[i - Len(q)]
  BY <1>1
<1>3. \A i \in DOMAIN q, j \in DOMAIN r : q[i] # r[j]
  BY DEF Range
<1>4. IsInjective(a)
  <2> SUFFICES ASSUME NEW i \in DOMAIN a, NEW j \in DOMAIN a, a[i] = a[j]
               PROVE  i = j
    BY DEF IsInjective
  <2>1. i \in Int /\ j \in Int
    BY <1>1
  <2>2. \A u, v \in DOMAIN q : q[u] = q[v] => u = v
    BY DEF IsInjective
  <2>3. \A u, v \in DOMAIN r : r[u] = r[v] => u = v
    BY DEF IsInjective
  <2>4. CASE i \in DOMAIN q /\ a[i] = q[i]
    BY ZenonT(30), <2>4, <2>2, <1>2, <1>3
  <2>5. CASE i - Len(q) \in DOMAIN r /\ a[i] = r[i - Len(q)]
    <3>1. j - Len(q) \in DOMAIN r /\ a[j] = r[j - Len(q)]
      BY ZenonT(30), <2>5, <1>2, <1>3
    <3>2. i - Len(q) = j - Len(q)
      BY ZenonT(30), <2>5, <3>1, <2>3
    <3> QED BY <3>2, <2>1, <1>1
  <2> QED BY <2>4, <2>5, <1>2
<1>5. Range(a) = Range(q) \cup Range(r)
  <2>1. ASSUME NEW y \in Range(a) PROVE y \in Range(q) \cup Range(r)
    BY <1>2 DEF Range
  <2>2. ASSUME NEW y \in Range(q) PROVE y \in Range(a)
    BY <1>1 DEF Range
  <2>3. ASSUME NEW y \in Range(r) PROVE y \in Range(a)
    <3>1. PICK j \in 1..Len(r) : r[j] = y
      BY <1>1 DEF Range
    <3>2. Len(q) + j \in 1..(Len(q) + Len(r)) /\ a[Len(q) + j] = y
      BY <3>1, <1>1
    <3> QED BY <3>2, <1>1 DEF Range
  <2> QED BY <2>1, <2>2, <2>3
<1> QED BY <1>1, <1>4, <1>5 DEF a

\* A non-empty set of natural numbers has a least element.
LEMMA MinProperties ==
    ASSUME NEW S \in SUBSET Nat, S # {}
    PROVE  Min(S) \in S /\ \A y \in S : Min(S) <= y
<1>1. PICK x \in S : \A y \in S : <<y, x>> \notin OpToRel(<, Nat)
  BY ZenonT(30), NatLessThanWellFounded, WFMin
<1>2. \A y \in S : ~(y < x)
  BY ZenonT(30), <1>1 DEF OpToRel
<1>3. \A y \in S : x <= y
  BY <1>2
<1> QED BY ZenonT(30), <1>3 DEF Min

\* Unlinking an element shifts the ones behind it.
LEMMA UnlinkElements ==
    ASSUME NEW T, NEW q \in Seq(T), NEW i \in DOMAIN q
    PROVE  /\ Unlink(q, i) \in Seq(T) /\ Len(Unlink(q, i)) = Len(q) - 1
           /\ \A j \in 1..(Len(q) - 1) : Unlink(q, i)[j] = IF j < i THEN q[j] ELSE q[j + 1]
<1> DEFINE l == SubSeq(q, 1, i - 1)
           r == SubSeq(q, i + 1, Len(q))
<1>1. i \in 1..Len(q) /\ Len(q) \in Nat /\ i \in Nat
  OBVIOUS
<1>2. l \in Seq(T) /\ Len(l) = i - 1 /\ \A j \in 1..(i - 1) : l[j] = q[j]
  BY <1>1
<1>3. r \in Seq(T) /\ Len(r) = Len(q) - i /\ \A j \in 1..(Len(q) - i) : r[j] = q[i + j]
  BY <1>1
<1> HIDE DEF l, r
<1>4. /\ l \o r \in Seq(T) /\ Len(l \o r) = Len(l) + Len(r)
      /\ \A j \in 1..(Len(l) + Len(r)) :
           (l \o r)[j] = IF j <= Len(l) THEN l[j] ELSE r[j - Len(l)]
  BY <1>2, <1>3, ConcatProperties
<1>5. Len(l \o r) = Len(q) - 1
  BY <1>1, <1>2, <1>3, <1>4
<1>6. ASSUME NEW j \in 1..(Len(q) - 1)
      PROVE  (l \o r)[j] = IF j < i THEN q[j] ELSE q[j + 1]
  <2>1. (l \o r)[j] = IF j <= i - 1 THEN l[j] ELSE r[j - (i - 1)]
    <3>1. j \in 1..(Len(l) + Len(r)) /\ Len(l) = i - 1
      BY <1>1, <1>2, <1>3
    <3> QED BY <3>1, <1>4
  <2>2. CASE j < i
    <3>1. j \in 1..(i - 1)
      BY <1>1, <2>2
    <3> QED BY <1>2, <2>1, <3>1
  <2>3. CASE ~(j < i)
    <3>1. j - (i - 1) \in 1..(Len(q) - i) /\ i + (j - (i - 1)) = j + 1
      BY <1>1, <2>3
    <3> QED BY <1>1, <1>3, <2>1, <2>3, <3>1
  <2> QED BY <2>2, <2>3
<1> QED BY <1>4, <1>5, <1>6 DEF Unlink, l, r

\* list_remove, whatever is in the list.
LEMMA RemoveCases ==
    ASSUME NEW T, NEW q \in Seq(T), NEW x
    PROVE  \/ list_remove(q, x) = q /\ x \notin Range(q)
           \/ \E i \in DOMAIN q : q[i] = x /\ list_remove(q, x) = Unlink(q, i)
<1> DEFINE at == {i \in 1..Len(q) : q[i] = x}
<1>1. CASE at = {}
  BY <1>1 DEF list_remove, Range
<1>2. CASE at # {}
  <2>1. at \in SUBSET Nat
    OBVIOUS
  <2>2. Min(at) \in at
    BY ZenonT(30), <1>2, <2>1, MinProperties
  <2>3. list_remove(q, x) = Unlink(q, Min(at))
    BY <1>2 DEF list_remove
  <2> DEFINE i == Min(at)
  <2>4. i \in DOMAIN q /\ q[i] = x
    <3> HIDE DEF i
    <3> QED BY <2>2 DEF i
  <2> HIDE DEF i
  <2> QED BY <2>3, <2>4 DEF i
<1> QED BY <1>1, <1>2

LEMMA RemoveTyped ==
    ASSUME NEW T, NEW q \in Seq(T), NEW x
    PROVE  list_remove(q, x) \in Seq(T)
BY RemoveCases, UnlinkElements

\* list_remove of a list without duplicates.
LEMMA RemoveRange ==
    ASSUME NEW T, NEW q \in Seq(T), NEW x, IsInjective(q)
    PROVE  /\ list_remove(q, x) \in Seq(T)
           /\ IsInjective(list_remove(q, x))
           /\ Range(list_remove(q, x)) = Range(q) \ {x}
<1>1. CASE list_remove(q, x) = q /\ x \notin Range(q)
  BY <1>1
<1>2. ASSUME NEW i \in DOMAIN q, q[i] = x, list_remove(q, x) = Unlink(q, i)
      PROVE  /\ list_remove(q, x) \in Seq(T)
             /\ IsInjective(list_remove(q, x))
             /\ Range(list_remove(q, x)) = Range(q) \ {x}
  <2> DEFINE a == Unlink(q, i)
  <2>1. /\ Len(q) \in Nat /\ DOMAIN q = 1..Len(q) /\ i \in 1..Len(q)
        /\ a \in Seq(T) /\ Len(a) = Len(q) - 1 /\ DOMAIN a = 1..(Len(q) - 1)
        /\ \A j \in 1..(Len(q) - 1) : a[j] = IF j < i THEN q[j] ELSE q[j + 1]
    BY UnlinkElements
  <2> HIDE DEF a
  <2>2. \A u, v \in 1..Len(q) : q[u] = q[v] => u = v
    BY <2>1 DEF IsInjective
  <2>3. IsInjective(a)
    <3> SUFFICES ASSUME NEW j \in DOMAIN a, NEW k \in DOMAIN a, a[j] = a[k]
                 PROVE  j = k
      BY DEF IsInjective
    <3>1. /\ j \in 1..(Len(q) - 1) /\ k \in 1..(Len(q) - 1)
          /\ j + 1 \in 1..Len(q) /\ k + 1 \in 1..Len(q)
          /\ j \in 1..Len(q) /\ k \in 1..Len(q)
      BY <2>1
    <3> QED BY <2>1, <2>2, <3>1
  <2>4. ASSUME NEW y \in Range(a) PROVE y \in Range(q) /\ y # x
    <3>1. PICK j \in 1..(Len(q) - 1) : a[j] = y
      BY <2>1 DEF Range
    <3>2. j \in 1..Len(q) /\ j + 1 \in 1..Len(q)
      BY <2>1
    <3>3. CASE j < i
      BY <1>2, <2>1, <2>2, <3>1, <3>2, <3>3 DEF Range
    <3>4. CASE ~(j < i)
      BY <1>2, <2>1, <2>2, <3>1, <3>2, <3>4 DEF Range
    <3> QED BY <3>3, <3>4
  <2>5. ASSUME NEW y \in Range(q), y # x PROVE y \in Range(a)
    <3>1. PICK j \in 1..Len(q) : q[j] = y
      BY <2>1 DEF Range
    <3>2. CASE j < i
      BY <2>1, <3>1, <3>2 DEF Range
    <3>3. CASE j > i
      <4>1. j - 1 \in 1..(Len(q) - 1) /\ a[j - 1] = y
        BY <2>1, <3>1, <3>3
      <4> QED BY <2>1, <4>1 DEF Range
    <3> QED BY <1>2, <2>1, <2>5, <3>1, <3>2, <3>3
  <2> QED BY <1>2, <2>1, <2>3, <2>4, <2>5 DEF a
<1> QED BY <1>1, <1>2, RemoveCases

\* Quotient and remainder.
LEMMA DivMod ==
    ASSUME NEW a \in Nat, NEW n \in Nat \ {0}
    PROVE  a \div n \in Nat /\ a % n \in 0..(n - 1) /\ a = n * (a \div n) + (a % n)
OBVIOUS
=============================================================================
