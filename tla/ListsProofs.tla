------------------------------ MODULE ListsProofs ------------------------------
(***************************************************************************)
(* What the operations of Lists, and appending to a list, return for lists *)
(* of any length.                                                          *)
(*                                                                         *)
(* Without is a recursive function of the list's prefixes, and the library *)
(* states induction with an operator parameter; SetInduction states it for *)
(* the set of numbers for which a fact holds, which is all it takes.       *)
(***************************************************************************)
EXTENDS Lists, SequenceTheorems, WellFoundedInduction, NaturalsInduction, TLAPS

(* Without, item by item *)

\* A set of numbers with 0 and the successor of each has all natural numbers: otherwise
\* the least one it lacks has a predecessor that it lacks as well.
LEMMA SetInduction ==
    ASSUME NEW T, 0 \in T, \A n \in Nat : n \in T => n + 1 \in T
    PROVE  Nat \subseteq T
<1> SUFFICES ASSUME Nat \ T # {} PROVE FALSE
  OBVIOUS
<1>1. PICK R : R = OpToRel(<, Nat)
  OBVIOUS
<1>2. IsWellFoundedOn(R, Nat)
  BY <1>1, NatLessThanWellFounded
<1>3. PICK x \in Nat \ T : \A y \in Nat \ T : ~(<<y, x>> \in R)
  BY <1>2, WFMin
<1>4. x - 1 \in Nat \ T
  BY <1>3
<1>5. <<x - 1, x>> \in R
  BY <1>1, <1>4 DEF OpToRel
<1>6. QED
  BY <1>3, <1>4, <1>5

\* f has what is kept of the prefixes of up to m items: of none nothing, and of each more
\* what was kept before, with the item unless it is the one to leave out.
Keeps(f, S, list, item, m) ==
    /\ f \in [0..m -> Seq(S)]
    /\ f[0] = <<>>
    /\ \A n \in 1..m : f[n] = IF list[n] = item THEN f[n - 1] ELSE Append(f[n - 1], list[n])

\* If the first n items can be gone through, so can the first n + 1.
LEMMA KeepsOneMore ==
    ASSUME NEW S, NEW list \in Seq(S), NEW item, NEW m \in Nat, m + 1 <= Len(list),
           NEW f, Keeps(f, S, list, item, m)
    PROVE  \E g : Keeps(g, S, list, item, m + 1)
<1> DEFINE next == IF list[m + 1] = item THEN f[m] ELSE Append(f[m], list[m + 1])
           g == [n \in 0..(m + 1) |-> IF n = m + 1 THEN next ELSE f[n]]
<1>1. f[m] \in Seq(S) /\ list[m + 1] \in S
  BY DEF Keeps
<1>2. next \in Seq(S)
  BY <1>1
<1>3. \A n \in 0..m : g[n] = f[n] /\ f[n] \in Seq(S)
  BY DEF Keeps
<1>4. g[m + 1] = next
  OBVIOUS
<1>5. g \in [0..(m + 1) -> Seq(S)]
  <2>1. \A n \in 0..(m + 1) : g[n] \in Seq(S)
    <3> HIDE DEF g, next
    <3>1. QED
      BY <1>2, <1>3, <1>4
  <2> HIDE DEF next
  <2>2. QED
    BY <2>1
<1>6. ASSUME NEW n \in 1..(m + 1)
      PROVE  g[n] = IF list[n] = item THEN g[n - 1] ELSE Append(g[n - 1], list[n])
  <2>1. CASE n = m + 1
    <3>1. g[n - 1] = f[m]
      BY <1>3, <2>1
    <3> HIDE DEF g
    <3>2. QED
      BY <1>4, <2>1, <3>1
  <2>2. CASE n \in 1..m
    <3>1. g[n] = f[n] /\ g[n - 1] = f[n - 1]
      BY <1>3, <2>2
    <3> HIDE DEF g
    <3>2. QED
      BY <2>2, <3>1 DEF Keeps
  <2>3. QED
    BY <2>1, <2>2
<1>7. g[0] = <<>>
  BY <1>3 DEF Keeps
<1> HIDE DEF g
<1>8. QED
  BY <1>5, <1>6, <1>7 DEF Keeps

\* Hence a list of any length can be gone through.
LEMMA KeepsExists ==
    ASSUME NEW S, NEW list \in Seq(S), NEW item
    PROVE  \E f : Keeps(f, S, list, item, Len(list))
<1> DEFINE T == {m \in Nat : m <= Len(list) => \E f : Keeps(f, S, list, item, m)}
<1>1. 0 \in T
  <2>1. Keeps([n \in {0} |-> <<>>], S, list, item, 0)
    BY DEF Keeps
  <2>2. QED
    BY <2>1
<1>2. ASSUME NEW m \in Nat, m \in T PROVE m + 1 \in T
  <2>1. CASE m + 1 <= Len(list)
    BY <1>2, <2>1, KeepsOneMore
  <2>2. CASE ~(m + 1 <= Len(list))
    BY <2>2
  <2>3. QED
    BY <2>1, <2>2
<1> HIDE DEF T
<1>3. Len(list) \in T
  BY <1>1, <1>2, SetInduction
<1>4. QED
  BY <1>3 DEF T

\* Without is the last of these lists.
LEMMA WithoutByPrefix ==
    ASSUME NEW S, NEW list \in Seq(S), NEW item
    PROVE  \E kept : Keeps(kept, S, list, item, Len(list)) /\ Without(list, item) = kept[Len(list)]
<1> DEFINE Step(f) == [n \in 0..Len(list) |->
                          IF n = 0 THEN <<>>
                          ELSE IF list[n] = item THEN f[n - 1]
                          ELSE Append(f[n - 1], list[n])]
           Kept[n \in 0..Len(list)] ==
               IF n = 0 THEN <<>>
               ELSE IF list[n] = item THEN Kept[n - 1]
               ELSE Append(Kept[n - 1], list[n])
<1>1. Without(list, item) = Kept[Len(list)]
  BY DEF Without
<1>2. PICK f : Keeps(f, S, list, item, Len(list))
  BY KeepsExists
<1>3. f = Step(f)
  <2>1. f = [n \in 0..Len(list) |-> f[n]]
    BY <1>2 DEF Keeps
  <2>2. \A n \in 0..Len(list) : f[n] = IF n = 0 THEN <<>>
                                       ELSE IF list[n] = item THEN f[n - 1]
                                       ELSE Append(f[n - 1], list[n])
    <3> TAKE n \in 0..Len(list)
    <3>1. n = 0 \/ n \in 1..Len(list)
      OBVIOUS
    <3>2. QED
      BY <1>2, <3>1 DEF Keeps
  <2>3. QED
    BY <2>1, <2>2
<1>4. Kept = Step(Kept)
  BY <1>3
<1> HIDE DEF Kept
<1>5. /\ DOMAIN Kept = 0..Len(list) /\ Kept[0] = <<>>
      /\ Kept = [n \in 0..Len(list) |-> Kept[n]]
      /\ \A n \in 1..Len(list) :
            Kept[n] = IF list[n] = item THEN Kept[n - 1] ELSE Append(Kept[n - 1], list[n])
  <2>1. /\ DOMAIN Kept = 0..Len(list)
        /\ Kept = [n \in 0..Len(list) |-> Kept[n]]
    BY <1>4
  <2>2. \A n \in 0..Len(list) :
            Kept[n] = IF n = 0 THEN <<>>
                      ELSE IF list[n] = item THEN Kept[n - 1] ELSE Append(Kept[n - 1], list[n])
    BY <1>4
  <2>3. QED
    BY <2>1, <2>2
<1>6. \A n \in 0..Len(list) : Kept[n] \in Seq(S)
  <2> DEFINE P == {n \in Nat : n <= Len(list) => Kept[n] \in Seq(S)}
  <2>1. 0 \in P
    BY <1>5
  <2>2. ASSUME NEW n \in Nat, n \in P PROVE n + 1 \in P
    <3> SUFFICES ASSUME n + 1 <= Len(list) PROVE Kept[n + 1] \in Seq(S)
      OBVIOUS
    <3>1. Kept[n] \in Seq(S) /\ list[n + 1] \in S
      BY <2>2
    <3>2. Kept[n + 1] = IF list[n + 1] = item THEN Kept[n] ELSE Append(Kept[n], list[n + 1])
      BY <1>5
    <3>3. QED
      BY <3>1, <3>2
  <2> HIDE DEF P
  <2>3. Nat \subseteq P
    BY <2>1, <2>2, SetInduction
  <2>4. QED
    BY <2>3 DEF P
<1>7. Keeps(Kept, S, list, item, Len(list))
  BY <1>5, <1>6 DEF Keeps
<1>8. QED
  BY <1>1, <1>7

\* An item that is appended is the only one that is new.
LEMMA AppendSound ==
    ASSUME NEW S, NEW k \in Seq(S), NEW x \in S
    PROVE  /\ Append(k, x) \in Seq(S) /\ Len(Append(k, x)) = Len(k) + 1
           /\ Range(Append(k, x)) = Range(k) \union {x}
           /\ IsInjective(k) /\ x \notin Range(k) => IsInjective(Append(k, x))
<1> DEFINE l == Append(k, x)
<1>1. /\ l \in Seq(S) /\ Len(l) = Len(k) + 1 /\ Len(k) \in Nat /\ l[Len(k) + 1] = x
      /\ \A i \in 1..Len(k) : l[i] = k[i]
  OBVIOUS
<1>2. DOMAIN l = DOMAIN k \union {Len(k) + 1} /\ DOMAIN k = 1..Len(k)
  BY <1>1
<1> HIDE DEF l
<1>3. Range(l) = Range(k) \union {x}
  BY <1>1, <1>2 DEF Range
<1>4. ASSUME IsInjective(k), x \notin Range(k) PROVE IsInjective(l)
  BY <1>1, <1>2, <1>4 DEF IsInjective, Range
<1>5. QED
  BY <1>1, <1>3, <1>4 DEF l

\* What is left has the items of the list but the one left out, and none twice unless the
\* list has it twice.
LEMMA WithoutSound ==
    ASSUME NEW S, NEW list \in Seq(S), NEW item
    PROVE  /\ Without(list, item) \in Seq(S)
           /\ Range(Without(list, item)) = Range(list) \ {item}
           /\ IsInjective(list) => IsInjective(Without(list, item))
<1>1. PICK kept : Keeps(kept, S, list, item, Len(list)) /\ Without(list, item) = kept[Len(list)]
  BY WithoutByPrefix
<1> DEFINE First(n) == {list[i] : i \in 1..n}
           Good(n) == /\ Range(kept[n]) = First(n) \ {item}
                      /\ IsInjective(list) => IsInjective(kept[n])
           T == {n \in Nat : n <= Len(list) => Good(n)}
<1>2. 0 \in T
  BY <1>1 DEF Range, IsInjective, Keeps
<1>3. ASSUME NEW n \in Nat, n \in T, n + 1 <= Len(list) PROVE Good(n + 1)
  <2>1. Good(n)
    BY <1>3
  <2>2. First(n + 1) = First(n) \union {list[n + 1]}
    OBVIOUS
  <2>3. /\ kept[n] \in Seq(S) /\ list[n + 1] \in S
        /\ kept[n + 1] = IF list[n + 1] = item THEN kept[n] ELSE Append(kept[n], list[n + 1])
    BY <1>1, <1>3 DEF Keeps
  <2>4. CASE list[n + 1] = item
    BY <2>1, <2>2, <2>3, <2>4
  <2>5. CASE list[n + 1] # item
    <3>1. Range(kept[n + 1]) = Range(kept[n]) \union {list[n + 1]}
      BY <2>3, <2>5, AppendSound
    <3>2. ASSUME IsInjective(list) PROVE IsInjective(kept[n + 1])
      <4>1. list[n + 1] \notin First(n)
        BY <1>3, <3>2 DEF IsInjective
      <4>2. QED
        BY <2>1, <2>3, <2>5, <3>2, <4>1, AppendSound
    <3>3. QED
      BY <2>1, <2>2, <2>5, <3>1, <3>2
  <2>6. QED
    BY <2>4, <2>5
<1>4. ASSUME NEW n \in Nat, n \in T PROVE n + 1 \in T
  <2>1. n + 1 <= Len(list) => Good(n + 1)
    BY <1>3, <1>4
  <2> HIDE DEF Good
  <2>2. QED
    BY <2>1
<1>5. Len(list) \in T
  <2> HIDE DEF T
  <2>1. QED
    BY <1>2, <1>4, SetInduction
<1>6. First(Len(list)) = Range(list)
  BY DEF Range
<1>7. Without(list, item) \in Seq(S)
  BY <1>1 DEF Keeps
<1>8. QED
  BY <1>1, <1>5, <1>6, <1>7

-------------------------------------------------------------------------------
(* One item less or more *)

\* No item is in the list twice.
OneEach(l) == \A i, j \in DOMAIN l : l[i] = l[j] => i = j

\* Past the first list a concatenation is the second.
LEMMA ConcatSecond ==
    ASSUME NEW S, NEW u \in Seq(S), NEW v \in Seq(S), NEW j \in Nat,
           j > Len(u), j <= Len(u) + Len(v)
    PROVE  (u \o v)[j] = v[j - Len(u)]
BY ConcatProperties

\* Where the j-th of those left was, and where the h-th is now.
Old(i, j) == IF j < i THEN j ELSE j + 1
New(i, h) == IF h < i THEN h ELSE h - 1

\* Taking out the i-th item shortens the list by one and moves what is behind it.
LEMMA RemoveAtIs ==
    ASSUME NEW S, NEW l \in Seq(S), NEW i \in DOMAIN l
    PROVE  /\ RemoveAt(l, i) \in Seq(S)
           /\ DOMAIN RemoveAt(l, i) = 1..(Len(l) - 1)
           /\ \A j \in 1..(Len(l) - 1) : RemoveAt(l, i)[j] = l[Old(i, j)]
<1> DEFINE d == RemoveAt(l, i)
           before == SubSeq(l, 1, i - 1)
           after  == SubSeq(l, i + 1, Len(l))
<1>1. i \in 1..Len(l) /\ DOMAIN l = 1..Len(l) /\ Len(l) \in Nat
  OBVIOUS
<1>2. /\ before \in Seq(S) /\ Len(before) = i - 1
      /\ \A j \in 1..(i - 1) : before[j] = l[j]
  BY <1>1
<1>3. /\ after \in Seq(S) /\ Len(after) = Len(l) - i
      /\ \A j \in 1..(Len(l) - i) : after[j] = l[j + i]
  BY <1>1
<1>4. d = before \o after
  BY DEF RemoveAt
<1>5. d \in Seq(S) /\ Len(d) = Len(l) - 1
  <2> HIDE DEF d, before, after
  <2>1. d \in Seq(S) /\ Len(d) = Len(before) + Len(after)
    BY <1>2, <1>3, <1>4, ConcatProperties
  <2>2. QED
    BY <1>1, <1>2, <1>3, <2>1
<1>6. ASSUME NEW j \in 1..(Len(l) - 1) PROVE d[j] = l[Old(i, j)]
  <2>1. CASE j < i
    BY <1>1, <1>2, <1>3, <1>4, <2>1 DEF Old
  <2>2. CASE j >= i
    <3>1. j - (i - 1) \in 1..(Len(l) - i) /\ (j - (i - 1)) + i = j + 1
      BY <1>1, <2>2
    <3>2. (before \o after)[j] = after[j - Len(before)]
      <4>1. j \in Nat /\ j > Len(before) /\ j <= Len(before) + Len(after)
        BY <1>1, <1>2, <1>3, <2>2
      <4> HIDE DEF before, after
      <4>2. QED
        BY <1>2, <1>3, <4>1, ConcatSecond
    <3>3. after[j - (i - 1)] = l[j + 1]
      BY <1>3, <3>1
    <3>4. Old(i, j) = j + 1
      BY <1>1, <2>2 DEF Old
    <3> HIDE DEF d, before, after
    <3>5. QED
      BY <1>2, <1>4, <3>2, <3>3, <3>4
  <2>3. QED
    BY <1>1, <2>1, <2>2
<1>7. DOMAIN d = 1..(Len(l) - 1)
  BY <1>1, <1>5
<1>8. QED
  BY <1>5, <1>6, <1>7

\* The others are all there, in the order they were in.
LEMMA OthersStay ==
    ASSUME NEW S, NEW l \in Seq(S), NEW i \in DOMAIN l
    PROVE  /\ RemoveAt(l, i) \in Seq(S)
           /\ \A j \in DOMAIN RemoveAt(l, i) :
                 /\ Old(i, j) \in DOMAIN l /\ Old(i, j) # i
                 /\ RemoveAt(l, i)[j] = l[Old(i, j)]
           /\ \A j, k \in DOMAIN RemoveAt(l, i) :
                 /\ Old(i, j) = Old(i, k) => j = k
                 /\ Old(i, j) < Old(i, k) => j < k
           /\ \A h \in DOMAIN l : h # i =>
                 /\ New(i, h) \in DOMAIN RemoveAt(l, i) /\ Old(i, New(i, h)) = h
                 /\ RemoveAt(l, i)[New(i, h)] = l[h]
<1> DEFINE d == RemoveAt(l, i)
<1>1. /\ d \in Seq(S) /\ DOMAIN d = 1..(Len(l) - 1) /\ i \in 1..Len(l) /\ DOMAIN l = 1..Len(l)
      /\ Len(l) \in Nat /\ \A j \in 1..(Len(l) - 1) : d[j] = l[Old(i, j)]
  BY RemoveAtIs
<1> HIDE DEF d
<1>2. \A j \in DOMAIN d : Old(i, j) \in DOMAIN l /\ Old(i, j) # i /\ d[j] = l[Old(i, j)]
  BY <1>1 DEF Old
<1>3. \A j, k \in DOMAIN d : /\ Old(i, j) = Old(i, k) => j = k
                             /\ Old(i, j) < Old(i, k) => j < k
  BY <1>1 DEF Old
<1>4. ASSUME NEW h \in DOMAIN l, h # i
      PROVE  New(i, h) \in DOMAIN d /\ Old(i, New(i, h)) = h /\ d[New(i, h)] = l[h]
  <2>1. New(i, h) \in DOMAIN d /\ Old(i, New(i, h)) = h
    BY <1>1, <1>4 DEF Old, New
  <2>2. QED
    BY <1>1, <2>1
<1>5. QED
  BY <1>1, <1>2, <1>3, <1>4 DEF d

\* list.remove takes one item out of a list without duplicates, and only that one.
LEMMA RemovedIs ==
    ASSUME NEW S, NEW l \in Seq(S), OneEach(l), NEW s \in Range(l)
    PROVE  /\ Removed(l, s) \in Seq(S) /\ OneEach(Removed(l, s))
           /\ Range(Removed(l, s)) = Range(l) \ {s}
           /\ Len(Removed(l, s)) = Len(l) - 1
<1>1. PICK i \in DOMAIN l : l[i] = s /\ Removed(l, s) = RemoveAt(l, i)
  BY DEF Removed, Range
<1> DEFINE d == RemoveAt(l, i)
<1>2. /\ d \in Seq(S)
      /\ \A j \in DOMAIN d : Old(i, j) \in DOMAIN l /\ Old(i, j) # i /\ d[j] = l[Old(i, j)]
      /\ \A j, k \in DOMAIN d : Old(i, j) = Old(i, k) => j = k
      /\ \A h \in DOMAIN l : h # i => New(i, h) \in DOMAIN d /\ d[New(i, h)] = l[h]
  BY OthersStay
<1> HIDE DEF d
<1>3. OneEach(d)
  BY <1>2 DEF OneEach
<1>4. \A j \in DOMAIN d : d[j] \in Range(l) \ {s}
  BY <1>1, <1>2 DEF OneEach, Range
<1>5. \A x \in Range(l) \ {s} : x \in Range(d)
  BY <1>1, <1>2 DEF Range
<1>6. Range(d) = Range(l) \ {s}
  <2>1. \A x : x \in Range(d) => x \in Range(l) \ {s}
    BY <1>4 DEF Range
  <2>2. QED
    BY <1>5, <2>1
<1>7. Removed(l, s) = d
  BY <1>1 DEF d
<1>8. Len(d) = Len(l) - 1
  <2>1. DOMAIN d = 1..(Len(l) - 1) /\ Len(l) - 1 \in Nat
    BY RemoveAtIs DEF d
  <2>2. QED
    BY <1>2, <2>1, LenProperties
<1>9. QED
  BY <1>2, <1>3, <1>6, <1>7, <1>8

\* A list with one more item at its end.
LEMMA ListWithOneMore ==
    ASSUME NEW S, NEW l \in Seq(S), NEW x \in S
    PROVE  /\ Append(l, x) \in Seq(S) /\ Append(l, x) # <<>>
           /\ Len(Append(l, x)) = Len(l) + 1 /\ Len(l) \in Nat
           /\ DOMAIN Append(l, x) = DOMAIN l \union {Len(l) + 1} /\ Len(l) + 1 \notin DOMAIN l
           /\ \A i \in DOMAIN l : i \in Nat /\ i < Len(l) + 1 /\ Append(l, x)[i] = l[i]
           /\ Append(l, x)[Len(l) + 1] = x
           /\ Range(Append(l, x)) = Range(l) \union {x}
           /\ OneEach(l) /\ x \notin Range(l) => OneEach(Append(l, x))
<1> DEFINE a == Append(l, x)
           n == Len(l) + 1
<1>1. /\ a \in Seq(S) /\ a # <<>> /\ Len(a) = n /\ Len(l) \in Nat /\ DOMAIN l = 1..Len(l)
      /\ DOMAIN a = 1..n /\ a[n] = x /\ \A i \in 1..Len(l) : a[i] = l[i]
  BY AppendProperties
<1> HIDE DEF a
<1>2. DOMAIN a = DOMAIN l \union {n} /\ n \notin DOMAIN l
  BY <1>1
<1>3. \A i \in DOMAIN l : i \in Nat /\ i < n /\ a[i] = l[i]
  BY <1>1
<1> HIDE DEF n
<1>4. Range(a) = Range(l) \union {x}
  <2>1. \A i \in DOMAIN a : a[i] \in Range(l) \union {x}
    BY <1>1, <1>2, <1>3 DEF Range
  <2>2. \A i \in DOMAIN l : i \in DOMAIN a /\ a[i] = l[i]
    BY <1>2, <1>3
  <2>3. n \in DOMAIN a /\ a[n] = x
    BY <1>1, <1>2
  <2>4. QED
    BY <2>1, <2>2, <2>3 DEF Range
<1>5. OneEach(l) /\ x \notin Range(l) => OneEach(a)
  BY <1>1, <1>2, <1>3 DEF Range, OneEach
<1>6. QED
  BY <1>1, <1>2, <1>3, <1>4, <1>5 DEF a, n

\* The head of a list without duplicates is not in its tail, which is no longer.
LEMMA TailIs ==
    ASSUME NEW S, NEW l \in Seq(S), l # <<>>, OneEach(l)
    PROVE  /\ Tail(l) \in Seq(S) /\ OneEach(Tail(l)) /\ Head(l) \in S
           /\ Head(l) \in Range(l) /\ Range(Tail(l)) = Range(l) \ {Head(l)}
<1>1. /\ Len(l) \in Nat \ {0} /\ DOMAIN l = 1..Len(l) /\ DOMAIN Tail(l) = 1..(Len(l) - 1)
      /\ Head(l) = l[1] /\ \A i \in 1..(Len(l) - 1) : Tail(l)[i] = l[i + 1]
      /\ Tail(l) \in Seq(S) /\ Head(l) \in S
  OBVIOUS
<1> DEFINE t == Tail(l)
<1> HIDE DEF t
<1>2. \A i \in DOMAIN t : i + 1 \in DOMAIN l /\ i + 1 # 1 /\ t[i] = l[i + 1]
  BY <1>1 DEF t
<1>3. Head(l) \in Range(l)
  BY <1>1 DEF Range
<1>4. ASSUME NEW i \in DOMAIN t, NEW j \in DOMAIN t, t[i] = t[j] PROVE i = j
  <2>1. i + 1 = j + 1
    BY <1>2, <1>4 DEF OneEach
  <2>2. QED
    BY <1>1, <2>1 DEF t
<1>5. ASSUME NEW x \in Range(t) PROVE x \in Range(l) \ {Head(l)}
  <2>1. PICK i \in DOMAIN t : t[i] = x
    BY DEF Range
  <2>2. 1 \in DOMAIN l
    BY <1>1
  <2>3. QED
    BY <1>1, <1>2, <2>1, <2>2 DEF Range, OneEach
<1>6. ASSUME NEW x \in Range(l), x # Head(l) PROVE x \in Range(t)
  <2>1. PICK i \in DOMAIN l : l[i] = x
    BY DEF Range
  <2>2. i # 1
    BY <1>1, <1>6, <2>1
  <2>3. i - 1 \in DOMAIN t /\ t[i - 1] = x
    BY <1>1, <2>1, <2>2 DEF t
  <2>4. QED
    BY <2>3 DEF Range
<1>7. QED
  BY <1>1, <1>3, <1>4, <1>5, <1>6 DEF t, OneEach
===============================================================================
