---------------------------- MODULE Advice_proofs ----------------------------
(***************************************************************************)
(* What users are answered, proved for any number of requests and any      *)
(* data: that the caches are sorted lists which hold the maps and sets of  *)
(* ServerCache, that an answer computed from them is the best there is,    *)
(* and that requests share locks, game states and cached answers as they   *)
(* should.                                                                 *)
(***************************************************************************)
EXTENDS Advice, DeltaVarint_proofs

-----------------------------------------------------------------------------
(* Binary searches *)

Rising(keys) == \A i, j \in DOMAIN keys : i < j => keys[i] <= keys[j]

(* Where a binary search among rising keys lands: nothing before is        *)
(* greater and nothing from there on is less; at the end if all are less.  *)
LEMMA Landing ==
  ASSUME NEW n \in Nat, NEW keys \in [1..n -> Int], Rising(keys), NEW k \in Int,
         NEW pos \in Landings(keys, k)
  PROVE  /\ pos \in 1..n + 1
         /\ \A j \in 1..n : j < pos => keys[j] <= k
         /\ \A j \in 1..n : j >= pos => keys[j] >= k
         /\ (\E j \in 1..n : keys[j] = k) => pos \in 1..n /\ keys[pos] = k
         /\ (\A j \in 1..n : keys[j] # k) => \A j \in 1..n : j < pos <=> keys[j] < k
         /\ pos = n + 1 => \A j \in 1..n : keys[j] < k
<1> DEFINE equal == {j \in 1..n : keys[j] = k}
           less == {j \in 1..n : keys[j] < k}
<1>1. pos \in IF equal # {} THEN equal ELSE {1 + Cardinality(less)}
  BY DEF Landings
<1>2. CASE equal # {}
  BY <1>1, <1>2 DEF Rising
<1>3. CASE equal = {}
  <2>1. \A j \in less, i \in 1..n : i < j => i \in less
    BY DEF Rising
  <2>2. less \subseteq 1..n
    OBVIOUS
  <2>3. Cardinality(less) \in 0..n /\ less = 1..Cardinality(less)
    <3> HIDE DEF less
    <3> QED
      BY <2>1, <2>2, Segment
  <2>4. pos = 1 + Cardinality(less)
    BY <1>1, <1>3
  <2>5. PICK c \in 0..n : c = Cardinality(less)
    BY <2>3
  <2>6. pos = 1 + c /\ \A j \in 1..n : j < pos <=> keys[j] < k
    <3>1. \A j \in 1..n : keys[j] < k <=> j \in 1..c
      BY <2>3, <2>5
    <3> QED
      BY <2>4, <2>5, <3>1
  <2>7. pos \in 1..n + 1
    BY <2>6
  <2>8. \A j \in 1..n : ~(j < pos) => keys[j] >= k
    BY <2>6
  <2>9. pos = n + 1 => \A j \in 1..n : j < pos
    OBVIOUS
  <2> QED
    BY <1>3, <2>6, <2>7, <2>8, <2>9
<1> QED
  BY <1>2, <1>3

(* ... and it lands somewhere. *)
LEMMA LandsSomewhere ==
  ASSUME NEW keys, NEW k
  PROVE  Landings(keys, k) # {}
BY DEF Landings

-----------------------------------------------------------------------------
(* The lists of the scrapbook cache *)

SortedList(l) == l \in Seq(Nat) /\ IsList(l) /\ \A k \in 1..Len(l) : l[k] < Width

LEMMA SortedIsRising ==
  ASSUME NEW l, SortedList(l)
  PROVE  /\ Len(l) \in Nat /\ l \in [1..Len(l) -> Int] /\ DOMAIN l = 1..Len(l)
         /\ \A i, j \in 1..Len(l) : i < j => l[i] < l[j]
         /\ \A i \in 1..Len(l) : l[i] \in Nat /\ l[i] < Width
         /\ Rising(l)
<1>1. Len(l) \in Nat /\ l \in [1..Len(l) -> Nat] /\ DOMAIN l = 1..Len(l)
  BY LenProperties DEF SortedList
<1>2. \A i \in 1..Len(l) : l[i] \in Nat /\ l[i] < Width
  BY <1>1 DEF SortedList
<1>3. \A i, j \in 1..Len(l) : i < j => l[i] < l[j]
  BY <1>1 DEF SortedList, IsList
<1>4. Rising(l)
  BY <1>1, <1>2, <1>3 DEF Rising
<1>5. l \in [1..Len(l) -> Int]
  BY <1>1
<1> QED
  BY <1>1, <1>2, <1>3, <1>4, <1>5

Member(p, owns) == IF owns THEN {p} ELSE {}

(* A correction keeps a list sorted and does what it says. *)
LEMMA CorrectedList ==
  ASSUME NEW l, SortedList(l), NEW p \in Nat, p < Width, NEW owns \in BOOLEAN
  PROVE  /\ SortedList(Corrected(l, p, owns))
         /\ ToSet(Corrected(l, p, owns)) = (ToSet(l) \ {p}) \cup Member(p, owns)
<1> DEFINE n == Len(l)
           at == CHOOSE k \in Landings(l, p) : TRUE
           present == at \in DOMAIN l /\ l[at] = p
<1>1. /\ n \in Nat /\ l \in [1..n -> Int] /\ DOMAIN l = 1..n
      /\ \A i, j \in 1..n : i < j => l[i] < l[j]
      /\ \A i \in 1..n : l[i] \in Nat /\ l[i] < Width
      /\ Rising(l) /\ l \in Seq(Nat)
  BY SortedIsRising DEF SortedList
<1>2. at \in Landings(l, p)
  BY LandsSomewhere
<1>3. Corrected(l, p, owns) =
        IF owns THEN IF present THEN l ELSE InsertAt(l, at, p)
        ELSE IF present THEN RemoveAt(l, at) ELSE l
  BY DEF Corrected
<1> HIDE DEF at, n
<1>4. /\ at \in 1..n + 1
      /\ (\E j \in 1..n : l[j] = p) => at \in 1..n /\ l[at] = p
      /\ (\A j \in 1..n : l[j] # p) => \A j \in 1..n : j < at <=> l[j] < p
  <2>1. p \in Int
    OBVIOUS
  <2> QED
    BY <1>1, <1>2, <2>1, Landing
<1>5. present <=> \E j \in 1..n : l[j] = p
  BY <1>1, <1>4
<1>6. ToSet(l) = {l[j] : j \in 1..n}
  BY <1>1 DEF ToSet
<1>7. CASE owns /\ present
  BY <1>1, <1>3, <1>5, <1>6, <1>7 DEF Member
<1>8. CASE ~owns /\ ~present
  BY <1>1, <1>3, <1>5, <1>6, <1>8 DEF Member
<1>9. CASE owns /\ ~present
  <2> DEFINE t == InsertAt(l, at, p)
  <2>1. /\ t \in Seq(Nat) /\ Len(t) = n + 1
        /\ \A j \in 1..n + 1 : t[j] = IF j < at THEN l[j] ELSE IF j = at THEN p ELSE l[j - 1]
    <3>1. l \in Seq(Nat) /\ at \in 1..Len(l) + 1
      BY <1>1, <1>4 DEF n
    <3>2. t \in Seq(Nat) /\ With(t, l, at, p)
      BY <3>1, InsertAtProperties
    <3> QED
      BY <3>2 DEF n, With
  <2>2. Corrected(l, p, owns) = t
    BY <1>3, <1>9
  <2> HIDE DEF t, present
  <2>3. \A j \in 1..n : l[j] # p /\ (j < at => l[j] < p) /\ (j >= at => l[j] > p)
    <3>1. \A j \in 1..n : l[j] # p
      BY <1>5, <1>9
    <3>2. \A j \in 1..n : j < at <=> l[j] < p
      BY <1>4, <3>1
    <3> QED
      BY <1>1, <1>4, <3>1, <3>2
  <2>4. \A i, j \in 1..n + 1 : i < j => t[i] < t[j]
    <3> SUFFICES ASSUME NEW i \in 1..n + 1, NEW j \in 1..n + 1, i < j PROVE t[i] < t[j]
      OBVIOUS
    <3>1. CASE j < at
      <4>1. i \in 1..n /\ j \in 1..n /\ i < at
        BY <1>1, <1>4, <3>1
      <4> QED
        BY <1>1, <2>1, <3>1, <4>1
    <3>2. CASE j = at
      <4>1. i \in 1..n /\ i < at
        BY <1>1, <1>4, <3>2
      <4>2. t[i] = l[i] /\ t[j] = p
        BY <2>1, <3>2, <4>1
      <4> QED
        BY <2>3, <4>1, <4>2
    <3>3. CASE j > at
      <4>1. j - 1 \in 1..n /\ j - 1 >= at /\ t[j] = l[j - 1]
        BY <1>1, <1>4, <2>1, <3>3
      <4>2. CASE i < at
        <5>1. i \in 1..n /\ t[i] = l[i] /\ i < j - 1
          BY <1>1, <1>4, <2>1, <4>1, <4>2
        <5> QED
          BY <1>1, <4>1, <5>1
      <4>3. CASE i = at
        <5>1. t[i] = p
          BY <2>1, <4>3
        <5> QED
          BY <2>3, <4>1, <5>1
      <4>4. CASE i > at
        <5>1. i - 1 \in 1..n /\ t[i] = l[i - 1] /\ i - 1 < j - 1
          BY <1>1, <1>4, <2>1, <4>4
        <5> QED
          BY <1>1, <4>1, <5>1
      <4> QED
        BY <1>4, <4>2, <4>3, <4>4
    <3> QED
      BY <1>4, <3>1, <3>2, <3>3
  <2>5. \A j \in 1..n + 1 : t[j] < Width
    <3> SUFFICES ASSUME NEW j \in 1..n + 1 PROVE t[j] < Width
      OBVIOUS
    <3>1. j < at => j \in 1..n
      BY <1>1, <1>4
    <3>2. j > at => j - 1 \in 1..n
      BY <1>1, <1>4
    <3>3. j < at \/ j = at \/ j > at
      BY <1>4
    <3> QED
      BY <1>1, <2>1, <3>1, <3>2, <3>3
  <2>6. DOMAIN t = 1..n + 1
    BY <2>1, LenProperties
  <2>7. ToSet(t) = ToSet(l) \cup {p}
    <3>1. ASSUME NEW j \in 1..n + 1 PROVE t[j] \in ToSet(l) \cup {p}
      <4>1. j < at => j \in 1..n
        BY <1>1, <1>4
      <4>2. j > at => j - 1 \in 1..n
        BY <1>1, <1>4
      <4>3. j < at \/ j = at \/ j > at
        BY <1>4
      <4> QED
        BY <1>6, <2>1, <4>1, <4>2, <4>3
    <3>2. p \in ToSet(t)
      BY <1>4, <2>1, <2>6 DEF ToSet
    <3>3. ASSUME NEW j \in 1..n PROVE l[j] \in ToSet(t)
      <4>1. CASE j < at
        <5>1. j \in 1..n + 1 /\ t[j] = l[j]
          BY <1>1, <2>1, <4>1
        <5> QED
          BY <2>6, <5>1 DEF ToSet
      <4>2. CASE ~(j < at)
        <5>1. j + 1 \in 1..n + 1 /\ ~(j + 1 < at) /\ j + 1 # at /\ (j + 1) - 1 = j
          BY <1>1, <1>4, <4>2
        <5>2. t[j + 1] = l[j]
          BY <2>1, <5>1
        <5> QED
          BY <2>6, <5>1, <5>2 DEF ToSet
      <4> QED
        BY <4>1, <4>2
    <3> QED
      BY <1>6, <2>6, <3>1, <3>2, <3>3 DEF ToSet
  <2>8. p \notin ToSet(l)
    BY <1>6, <2>3
  <2>9. SortedList(t)
    BY <2>1, <2>4, <2>5, <2>6 DEF SortedList, IsList
  <2> QED
    BY <1>9, <2>2, <2>7, <2>8, <2>9 DEF Member
<1>10. CASE ~owns /\ present
  <2> DEFINE t == RemoveAt(l, at)
  <2>0. at \in 1..n /\ l[at] = p
    BY <1>1, <1>10
  <2>1. /\ t \in Seq(Nat) /\ Len(t) = n - 1
        /\ \A j \in 1..n - 1 : t[j] = IF j < at THEN l[j] ELSE l[j + 1]
    <3>1. l \in Seq(Nat) /\ at \in 1..Len(l)
      BY <1>1, <2>0 DEF n
    <3> HIDE DEF t
    <3>2. /\ t \in Seq(Nat) /\ Len(t) = Len(l) - 1
          /\ \A j \in 1..Len(l) - 1 : t[j] = IF j < at THEN l[j] ELSE l[j + 1]
      BY <3>1, RemoveAtProperties DEF t
    <3> QED
      BY <3>2 DEF n
  <2>2. Corrected(l, p, owns) = t
    BY <1>3, <1>10
  <2> HIDE DEF t, present
  <2>3. \A i, j \in 1..n - 1 : i < j => t[i] < t[j]
    <3> SUFFICES ASSUME NEW i \in 1..n - 1, NEW j \in 1..n - 1, i < j PROVE t[i] < t[j]
      OBVIOUS
    <3>1. /\ i \in 1..n /\ j \in 1..n /\ i + 1 \in 1..n /\ j + 1 \in 1..n
          /\ i < j + 1 /\ i + 1 < j + 1
      BY <1>1
    <3>2. j < at => i < at
      BY <2>0
    <3> QED
      BY <1>1, <2>1, <3>1, <3>2
  <2>4. \A j \in 1..n - 1 : t[j] < Width
    <3>1. \A j \in 1..n - 1 : j \in 1..n /\ j + 1 \in 1..n
      BY <1>1
    <3> QED
      BY <1>1, <2>1, <3>1
  <2>5. DOMAIN t = 1..n - 1
    BY <2>1, LenProperties
  <2>6. ToSet(t) = ToSet(l) \ {p}
    <3>1. ASSUME NEW j \in 1..n - 1 PROVE t[j] \in ToSet(l) \ {p}
      <4>1. j \in 1..n /\ j + 1 \in 1..n /\ (~(j < at) => at < j + 1)
        BY <1>1, <2>0
      <4>2. j < at => l[j] < l[at]
        BY <1>1, <2>0, <4>1
      <4>3. ~(j < at) => l[at] < l[j + 1]
        BY <1>1, <2>0, <4>1
      <4>4. t[j] \in ToSet(l)
        BY <1>6, <2>1, <4>1
      <4>5. t[j] # p
        <5>1. CASE j < at
          <6>1. t[j] = l[j] /\ l[j] \in Nat
            BY <1>1, <2>1, <4>1, <5>1
          <6> QED
            BY <2>0, <4>2, <5>1, <6>1
        <5>2. CASE ~(j < at)
          <6>1. t[j] = l[j + 1] /\ l[j + 1] \in Nat
            BY <1>1, <2>1, <4>1, <5>2
          <6> QED
            BY <2>0, <4>3, <5>2, <6>1
        <5> QED
          BY <5>1, <5>2
      <4> QED
        BY <4>4, <4>5
    <3>2. ASSUME NEW j \in 1..n, l[j] # p PROVE l[j] \in ToSet(t)
      <4>1. CASE j < at
        <5>1. j \in 1..n - 1 /\ t[j] = l[j]
          BY <1>1, <2>0, <2>1, <4>1
        <5> QED
          BY <2>5, <5>1 DEF ToSet
      <4>2. CASE j > at
        <5>1. j - 1 \in 1..n - 1 /\ ~(j - 1 < at) /\ (j - 1) + 1 = j
          BY <1>1, <2>0, <4>2
        <5>2. t[j - 1] = l[j]
          BY <2>1, <5>1
        <5> QED
          BY <2>5, <5>1, <5>2 DEF ToSet
      <4> QED
        BY <2>0, <3>2, <4>1, <4>2
    <3> QED
      BY <1>6, <2>5, <3>1, <3>2 DEF ToSet
  <2>7. SortedList(t)
    BY <2>1, <2>3, <2>4, <2>5 DEF SortedList, IsList
  <2> QED
    BY <1>10, <2>2, <2>6, <2>7 DEF Member
<1> QED
  BY <1>7, <1>8, <1>9, <1>10

(* What is stored is read back. *)
LEMMA StoredList ==
  ASSUME NEW l, SortedList(l)
  PROVE  to_vec(from_sorted(l)) = l /\ iter(from_sorted(l)) = l
BY ListsAreReadBack DEF SortedList

LEMMA BatchData ==
  ASSUME NEW b \in Batches
  PROVE  /\ IsFiniteSet(DOMAIN b)
         /\ \A p \in DOMAIN b : p \in Nat /\ p < Width /\ b[p] \in Contents
<1>1. /\ IsFiniteSet(DOMAIN b) /\ DOMAIN b \subseteq 0..Width - 1
      /\ \A p \in DOMAIN b : b[p] \in Contents
  BY AdviceAssumption
<1>2. \A p \in 0..Width - 1 : p \in Nat /\ p < Width
  BY VarintConstants
<1> QED
  BY <1>1, <1>2

LEMMA PushedLists ==
  ASSUME NEW b \in Batches, NEW order \in SetToSeqs(DOMAIN b)
  PROVE  /\ DOMAIN Pushed(b, order) = UNION {Items(b[p]) : p \in DOMAIN b}
         /\ \A i \in DOMAIN Pushed(b, order) :
              /\ SortedList(Pushed(b, order)[i])
              /\ ToSet(Pushed(b, order)[i]) = Owners(b, i)
<1>1. ToSet(order) = DOMAIN b
  BY BatchData, SetSequence
<1>2. DOMAIN Pushed(b, order) = UNION {Items(b[p]) : p \in DOMAIN b}
  BY DEF Pushed
<1>3. ASSUME NEW i \in DOMAIN Pushed(b, order)
      PROVE  /\ SortedList(Pushed(b, order)[i])
             /\ ToSet(Pushed(b, order)[i]) = Owners(b, i)
  <2> DEFINE O == {p \in ToSet(order) : i \in Items(b[p])}
             Ordered == {s \in SetToSeqs(O) : \A j \in 1..Len(s) - 1 : s[j] < s[j + 1]}
             s == CHOOSE t \in Ordered : TRUE
  <2>1. O = Owners(b, i)
    BY <1>1 DEF Owners
  <2>2. Pushed(b, order)[i] = s
    BY <1>2, <1>3 DEF Pushed, Sortings
  <2>3. O \subseteq Nat /\ IsFiniteSet(O) /\ \A p \in O : p < Width
    <3>1. O \subseteq DOMAIN b
      BY <1>1
    <3> HIDE DEF O
    <3> QED
      BY <3>1, BatchData, FS_Subset
  <2>4. \E t \in Ordered : TRUE
    <3> HIDE DEF O
    <3>1. \E t \in SetToSeqs(O) : \A j \in 1..Len(t) - 1 : t[j] < t[j + 1]
      BY <2>3, SortingExists
    <3> QED
      BY <3>1
  <2>5. s \in SetToSeqs(O) /\ \A j \in 1..Len(s) - 1 : s[j] < s[j + 1]
    <3>1. s \in Ordered
      BY <2>4
    <3> QED
      BY <3>1
  <2> HIDE DEF s, O, Ordered
  <2>6. /\ s \in Seq(O) /\ Len(s) \in Nat /\ DOMAIN s = 1..Len(s) /\ ToSet(s) = O
        /\ \A j \in 1..Len(s) : s[j] \in O
    BY <2>3, <2>5, SetSequence
  <2>7. s \in Seq(Nat) /\ \A j \in 1..Len(s) : s[j] \in Nat /\ s[j] < Width
    BY <2>3, <2>6, SeqMonotonic
  <2>8. \A j, k \in 1..Len(s) : j < k => s[j] < s[k]
    <3> DEFINE R == {jk \in (1..Len(s)) \X (1..Len(s)) : s[jk[1]] < s[jk[2]]}
               n == Len(s)
    <3>1. \A j, k, l \in 1..n : <<j, k>> \in R /\ <<k, l>> \in R => <<j, l>> \in R
      BY <2>7
    <3>2. \A j \in 1..n - 1 : <<j, j + 1>> \in R
      BY <2>5, <2>6
    <3>3. n \in Nat
      BY <2>6
    <3> HIDE DEF R, n
    <3>4. \A j, k \in 1..n : j < k => <<j, k>> \in R
      BY <3>1, <3>2, <3>3, Neighbours
    <3> QED
      BY <3>4 DEF R, n
  <2>9. SortedList(s)
    BY <2>6, <2>7, <2>8 DEF SortedList, IsList
  <2> QED
    BY <2>1, <2>2, <2>6, <2>9
<1> QED
  BY <1>2, <1>3

Lists == {l \in Seq(Nat) : SortedList(l)}

(* Item by item and player by player, lists are corrected for a batch. *)
LEMMA PatchedLists ==
  ASSUME NEW b \in Batches, NEW order \in SetToSeqs(DOMAIN b),
         NEW equipment, \A i \in DOMAIN equipment : SortedList(to_vec(equipment[i]))
  PROVE  /\ DOMAIN Patched(equipment, b, order) = DOMAIN equipment
         /\ \A i \in DOMAIN equipment :
              /\ SortedList(Patched(equipment, b, order)[i])
              /\ ToSet(Patched(equipment, b, order)[i])
                   = (ToSet(to_vec(equipment[i])) \ DOMAIN b) \cup Owners(b, i)
<1> DEFINE D == DOMAIN equipment
           n == Len(order)
           V == [D -> Lists]
           a == [i \in D |-> to_vec(equipment[i])]
           owns(k, i) == i \in Items(b[order[k]])
           Next2(k, v) == [i \in D |-> Corrected(v[i], order[k], owns(k, i))]
           step == [t \in (1..n) \X V |-> Next2(t[1], t[2])]
           Equation(h) == h = [k \in 0..n |->
             IF k = 0 THEN [i \in DOMAIN equipment |-> to_vec(equipment[i])]
             ELSE [i \in DOMAIN equipment |->
                     Corrected(h[k - 1][i], order[k], i \in Items(b[order[k]]))]]
           lists == CHOOSE h : Equation(h)
<1>1. /\ n \in Nat /\ ToSet(order) = DOMAIN b /\ DOMAIN order = 1..n
      /\ \A k \in 1..n : order[k] \in DOMAIN b
  BY BatchData, SetSequence
<1>2. \A k \in 1..n : order[k] \in Nat /\ order[k] < Width
  BY <1>1, BatchData
<1>3. Patched(equipment, b, order) = lists[n]
  BY DEF Patched
<1>4. a \in V
  BY DEF Lists, SortedList
<1> HIDE DEF n
<1>5. \A k \in 1..n, v \in V : \A i \in D :
        /\ SortedList(Corrected(v[i], order[k], owns(k, i)))
        /\ ToSet(Corrected(v[i], order[k], owns(k, i)))
             = (ToSet(v[i]) \ {order[k]}) \cup Member(order[k], owns(k, i))
  <2> SUFFICES ASSUME NEW k \in 1..n, NEW v \in V, NEW i \in D
               PROVE  /\ SortedList(Corrected(v[i], order[k], owns(k, i)))
                      /\ ToSet(Corrected(v[i], order[k], owns(k, i)))
                           = (ToSet(v[i]) \ {order[k]}) \cup Member(order[k], owns(k, i))
    OBVIOUS
  <2>1. SortedList(v[i]) /\ owns(k, i) \in BOOLEAN
    BY DEF Lists
  <2> HIDE DEF owns
  <2> QED
    BY <1>2, <2>1, CorrectedList
<1>6. \A k \in 1..n, v \in V : Next2(k, v) \in V
  <2> SUFFICES ASSUME NEW k \in 1..n, NEW v \in V, NEW i \in D
               PROVE  Corrected(v[i], order[k], owns(k, i)) \in Lists
    OBVIOUS
  <2> HIDE DEF owns
  <2> QED
    BY <1>5 DEF Lists, SortedList
<1>7. step \in [(1..n) \X V -> V]
  <2> HIDE DEF V, Next2
  <2> QED
    BY <1>6
<1>8. PICK f : Loops(f, V, n, a, step)
  <2>1. n \in Nat
    BY <1>1
  <2> HIDE DEF V, a, step
  <2> QED
    BY <1>4, <1>7, <2>1, Iteration
<1>9. \A k \in 1..n : k - 1 \in 0..n /\ f[k - 1] \in V /\ f[k] = Next2(k, f[k - 1])
  <2> SUFFICES ASSUME NEW k \in 1..n
               PROVE  k - 1 \in 0..n /\ f[k - 1] \in V /\ f[k] = Next2(k, f[k - 1])
    OBVIOUS
  <2>1. k - 1 \in 0..n
    BY <1>1
  <2> HIDE DEF V, Next2
  <2>2. f[k - 1] \in V
    BY <1>8, <2>1 DEF Loops
  <2>3. step[<<k, f[k - 1]>>] = Next2(k, f[k - 1])
    BY <2>2
  <2> QED
    BY <1>8, <2>1, <2>2, <2>3 DEF Loops
<1>10. Equation(f)
  <2>1. \A k \in 0..n : k # 0 => k \in 1..n
    BY <1>1
  <2>2. f = [k \in 0..n |-> IF k = 0 THEN a ELSE Next2(k, f[k - 1])]
    <3> HIDE DEF V, a, Next2
    <3> QED
      BY <1>8, <1>9, <2>1 DEF Loops
  <2> QED
    BY <2>2
<1>11. Equation(lists)
  <2> HIDE DEF Equation
  <2> QED
    BY <1>10
<1> HIDE DEF lists
<1>12. /\ lists[0] = a
       /\ \A k \in 1..n : lists[k] = Next2(k, lists[k - 1])
  <2>1. 0 \in 0..n /\ \A k \in 1..n : k \in 0..n /\ k # 0
    BY <1>1
  <2>2. lists = [k \in 0..n |-> IF k = 0 THEN a ELSE Next2(k, lists[k - 1])]
    BY <1>11
  <2> HIDE DEF a, Next2, Equation
  <2> QED
    BY <2>1, <2>2
<1> HIDE DEF Equation
<1> DEFINE Done(k) == {order[j] : j \in 1..k}
           Owned(k, i) == {order[j] : j \in {l \in 1..k : owns(l, i)}}
           Good(k) == /\ lists[k] \in V
                      /\ \A i \in D : ToSet(lists[k][i]) = (ToSet(a[i]) \ Done(k)) \cup Owned(k, i)
           T == {k \in Nat : k <= n => Good(k)}
<1>13. 0 \in T
  <2>1. 1..0 = {}
    OBVIOUS
  <2>2. Done(0) = {} /\ \A i \in D : Owned(0, i) = {}
    BY <2>1
  <2>3. lists[0] = a
    BY <1>12
  <2> HIDE DEF Done, Owned, a, V
  <2>4. Good(0)
    BY <1>4, <2>2, <2>3
  <2> QED
    BY <2>4
<1>14. ASSUME NEW k \in Nat, k \in T PROVE k + 1 \in T
  <2> SUFFICES ASSUME k + 1 <= n PROVE Good(k + 1)
    <3>1. k + 1 \in Nat
      OBVIOUS
    <3> HIDE DEF Good
    <3> QED
      BY <3>1
  <2>1. Good(k) /\ k + 1 \in 1..n /\ (k + 1) - 1 = k
    <3>1. k <= n /\ k + 1 \in 1..n /\ (k + 1) - 1 = k
      BY <1>1
    <3> HIDE DEF Good
    <3> QED
      BY <1>14, <3>1
  <2>2. lists[k + 1] = Next2(k + 1, lists[k])
    BY <1>12, <2>1
  <2>3. lists[k + 1] \in V
    BY <1>6, <2>1, <2>2
  <2>4. ASSUME NEW i \in D
        PROVE  ToSet(lists[k + 1][i]) = (ToSet(a[i]) \ Done(k + 1)) \cup Owned(k + 1, i)
    <3>1. lists[k + 1][i] = Corrected(lists[k][i], order[k + 1], owns(k + 1, i))
      BY <2>2
    <3>2. ToSet(lists[k + 1][i])
            = (ToSet(lists[k][i]) \ {order[k + 1]}) \cup Member(order[k + 1], owns(k + 1, i))
      BY <1>5, <2>1, <3>1
    <3>3. ToSet(lists[k][i]) = (ToSet(a[i]) \ Done(k)) \cup Owned(k, i)
      BY <2>1
    <3>4. Done(k + 1) = Done(k) \cup {order[k + 1]}
      <4>1. 1..k + 1 = (1..k) \cup {k + 1}
        OBVIOUS
      <4> QED
        BY <4>1
    <3>5. Owned(k + 1, i) = Owned(k, i) \cup Member(order[k + 1], owns(k + 1, i))
      <4>1. 1..k + 1 = (1..k) \cup {k + 1}
        OBVIOUS
      <4> HIDE DEF owns
      <4> QED
        BY <4>1 DEF Member
    <3>6. order[k + 1] \notin Owned(k, i)
      <4>1. \A j \in 1..k : j \in 1..n /\ j # k + 1
        BY <2>1, <1>1
      <4>2. \A j, l \in 1..n : j # l => order[j] # order[l]
        BY BatchData, SetSequence DEF n
      <4> QED
        BY <2>1, <4>1, <4>2
    <3> HIDE DEF Done, Owned, a, owns
    <3> QED
      BY <3>2, <3>3, <3>4, <3>5, <3>6
  <2> QED
    BY <2>3, <2>4
<1>15. Good(n)
  <2>1. \A k \in Nat : k \in T
    <3> HIDE DEF T
    <3> QED
      BY <1>13, <1>14, Induction
  <2>2. n \in T /\ n <= n
    <3> HIDE DEF T
    <3> QED
      BY <1>1, <2>1
  <2> HIDE DEF Good
  <2> QED
    BY <2>2
<1>16. Done(n) = DOMAIN b
  BY <1>1 DEF ToSet
<1>17. \A i \in D : Owned(n, i) = Owners(b, i)
  <2> SUFFICES ASSUME NEW i \in D PROVE Owned(n, i) = Owners(b, i)
    OBVIOUS
  <2>1. \A p \in DOMAIN b : \E j \in 1..n : order[j] = p
    BY <1>1 DEF ToSet
  <2> QED
    BY <1>1, <2>1 DEF Owners
<1>18. DOMAIN lists[n] = D /\ \A i \in D : SortedList(lists[n][i])
  BY <1>15 DEF Lists
<1>19. \A i \in D : ToSet(lists[n][i]) = (ToSet(to_vec(equipment[i])) \ DOMAIN b) \cup Owners(b, i)
  <2> HIDE DEF Done, Owned, V
  <2> QED
    BY <1>15, <1>16, <1>17
<1> HIDE DEF D
<1> QED
  BY <1>3, <1>18, <1>19 DEF D

-----------------------------------------------------------------------------
(* The scrapbook cache *)

(* Both ways of reading an array give one and the same list. *)
Array(arr) == SortedList(to_vec(arr)) /\ iter(arr) = to_vec(arr)

Index(equipment) == [i \in DOMAIN equipment |-> ToSet(to_vec(equipment[i]))]

(* Whatever the order of the map, a batch does to the arrays what it does  *)
(* to sets.                                                                *)
LEMMA UpdatedCache ==
  ASSUME NEW b \in Batches, NEW order \in SetToSeqs(DOMAIN b),
         NEW old, \A i \in DOMAIN old.equipment : Array(old.equipment[i])
  PROVE  LET new == update_scrapbook_cache(old, b, order)
         IN  /\ new.info = InfoAfter(old.info, b)
             /\ Index(new.equipment) = IndexAfter(Index(old.equipment), b)
             /\ \A i \in DOMAIN new.equipment : Array(new.equipment[i])
<1> DEFINE new == update_scrapbook_cache(old, b, order)
           lists == IF DOMAIN old.equipment = {} THEN Pushed(b, order)
                    ELSE Patched(old.equipment, b, order)
           after == IndexAfter(Index(old.equipment), b)
<1>1. new = [cached |-> TRUE, info |-> InfoAfter(old.info, b),
             equipment |-> [i \in DOMAIN lists |-> from_sorted(lists[i])]]
  BY DEF update_scrapbook_cache
<1>2. DOMAIN lists = DOMAIN after /\ \A i \in DOMAIN lists :
        SortedList(lists[i]) /\ ToSet(lists[i]) = after[i]
  <2>1. CASE DOMAIN old.equipment = {}
    <3>1. lists = Pushed(b, order)
      BY <2>1
    <3>2. after = [i \in UNION {Items(b[p]) : p \in DOMAIN b} |-> Owners(b, i)]
      BY <2>1 DEF IndexAfter, Index
    <3> HIDE DEF lists, after
    <3> QED
      BY <3>1, <3>2, PushedLists
  <2>2. CASE DOMAIN old.equipment # {}
    <3>1. lists = Patched(old.equipment, b, order)
      BY <2>2
    <3>2. after = [i \in DOMAIN old.equipment |->
                     (ToSet(to_vec(old.equipment[i])) \ DOMAIN b) \cup Owners(b, i)]
      BY <2>2 DEF IndexAfter, Index
    <3>3. \A i \in DOMAIN old.equipment : SortedList(to_vec(old.equipment[i]))
      BY DEF Array
    <3> DEFINE equipment == old.equipment
    <3> HIDE DEF lists, after, equipment
    <3>4. /\ DOMAIN Patched(equipment, b, order) = DOMAIN equipment
          /\ \A i \in DOMAIN equipment :
               /\ SortedList(Patched(equipment, b, order)[i])
               /\ ToSet(Patched(equipment, b, order)[i])
                    = (ToSet(to_vec(equipment[i])) \ DOMAIN b) \cup Owners(b, i)
      <4>1. \A i \in DOMAIN equipment : SortedList(to_vec(equipment[i]))
        BY <3>3 DEF equipment
      <4> QED
        BY <4>1, PatchedLists
    <3> QED
      BY <3>1, <3>2, <3>4 DEF equipment
  <2> QED
    BY <2>1, <2>2
<1> HIDE DEF lists
<1>3. DOMAIN new.equipment = DOMAIN lists
      /\ \A i \in DOMAIN lists : new.equipment[i] = from_sorted(lists[i])
  BY <1>1
<1>4. \A i \in DOMAIN lists : /\ to_vec(new.equipment[i]) = lists[i]
                              /\ Array(new.equipment[i])
  BY <1>2, <1>3, StoredList DEF Array
<1>5. new.info = InfoAfter(old.info, b)
  BY <1>1
<1> HIDE DEF new
<1>6. Index(new.equipment) = after
  <2>1. Index(new.equipment) = [i \in DOMAIN lists |-> after[i]]
    BY <1>2, <1>3, <1>4 DEF Index
  <2>2. after = [i \in DOMAIN after |-> after[i]]
    BY DEF IndexAfter
  <2> QED
    BY <1>2, <2>1, <2>2
<1> QED
  BY <1>3, <1>4, <1>5, <1>6 DEF new

(* The info of every player in the cache is an update, and whoever is in   *)
(* the list of an item has it.                                             *)
Consistent(info, index) ==
  /\ IsFiniteSet(DOMAIN info)
  /\ \A p \in DOMAIN info : info[p] \in Contents
  /\ \A i \in DOMAIN index : \A p \in index[i] : p \in DOMAIN info /\ i \in Items(info[p])

LEMMA StaysConsistent ==
  ASSUME NEW b \in Batches, NEW info, NEW index, Consistent(info, index)
  PROVE  Consistent(InfoAfter(info, b), IndexAfter(index, b))
<1> DEFINE new == InfoAfter(info, b)
           after == IndexAfter(index, b)
<1>1. /\ DOMAIN new = DOMAIN info \cup DOMAIN b
      /\ \A p \in DOMAIN new : new[p] = IF p \in DOMAIN b THEN b[p] ELSE info[p]
  BY DEF InfoAfter
<1>2. IsFiniteSet(DOMAIN new)
  <2>1. IsFiniteSet(DOMAIN info) /\ IsFiniteSet(DOMAIN b)
    BY BatchData DEF Consistent
  <2>2. IsFiniteSet(DOMAIN info \cup DOMAIN b)
    BY <2>1, FS_Union
  <2> QED
    BY <1>1, <2>2
<1>3. \A p \in DOMAIN new : new[p] \in Contents
  BY <1>1, BatchData DEF Consistent
<1>4. ASSUME NEW i \in DOMAIN after, NEW p \in after[i]
      PROVE  p \in DOMAIN new /\ i \in Items(new[p])
  <2>1. p \in Owners(b, i) \/ (i \in DOMAIN index /\ p \in index[i] /\ p \notin DOMAIN b)
    BY DEF IndexAfter
  <2>2. CASE p \in Owners(b, i)
    BY <1>1, <2>2 DEF Owners
  <2>3. CASE i \in DOMAIN index /\ p \in index[i] /\ p \notin DOMAIN b
    BY <1>1, <2>3 DEF Consistent
  <2> QED
    BY <2>1, <2>2, <2>3
<1> QED
  BY <1>2, <1>3, <1>4 DEF Consistent

-----------------------------------------------------------------------------
(* Leaving out whom the database does not know *)

(* Which elements are left, when k of the list were looked at, and in      *)
(* which order.                                                            *)
Keeps(t, best, unnamed, k) ==
  /\ \A j \in 1..Len(t) : \E i \in 1..k : t[j] = best[i] /\ best[i].player \notin unnamed
  /\ \A i \in 1..k : best[i].player \notin unnamed => \E j \in 1..Len(t) : t[j] = best[i]
  /\ \A j, l \in 1..Len(t) : j < l =>
       \E i, m \in 1..k : i < m /\ t[j] = best[i] /\ t[l] = best[m]

LEMMA KeepsNext ==
  ASSUME NEW T, NEW best \in Seq(T), NEW unnamed, NEW k \in 0..Len(best), k + 1 <= Len(best),
         NEW t \in Seq(T), Keeps(t, best, unnamed, k)
  PROVE  /\ best[k + 1].player \in unnamed => Keeps(t, best, unnamed, k + 1)
         /\ best[k + 1].player \notin unnamed =>
              Keeps(Append(t, best[k + 1]), best, unnamed, k + 1)
<1> DEFINE n == Len(best)
           e == best[k + 1]
           a == Append(t, e)
<1>1. /\ n \in Nat /\ k \in Nat /\ k + 1 \in 1..n /\ e \in T
      /\ \A i \in 1..k + 1 : i \in 1..k \/ i = k + 1
      /\ \A i \in 1..k : i \in 1..k + 1 /\ i < k + 1
  BY LenProperties, ElementOfSeq
<1>2. CASE e.player \in unnamed
  <2> HIDE DEF e, n
  <2>1. Keeps(t, best, unnamed, k + 1)
    BY <1>1, <1>2 DEF Keeps, e
  <2> QED
    BY <1>2, <2>1 DEF e
<1>3. CASE e.player \notin unnamed
  <2>1. /\ Len(t) \in Nat /\ Len(a) = Len(t) + 1 /\ a[Len(t) + 1] = e
        /\ \A j \in 1..Len(t) : a[j] = t[j]
    BY <1>1, AppendProperties, LenProperties
  <2> HIDE DEF a
  <2>2. /\ \A j \in 1..Len(a) : j \in 1..Len(t) \/ j = Len(t) + 1
        /\ \A j \in 1..Len(t) : j \in 1..Len(a)
        /\ Len(t) + 1 \in 1..Len(a)
        /\ \A j, l \in 1..Len(a) : j < l => j \in 1..Len(t)
    BY <2>1
  <2> HIDE DEF e, n
  <2>3. ASSUME NEW j \in 1..Len(a)
        PROVE  \E i \in 1..k + 1 : a[j] = best[i] /\ best[i].player \notin unnamed
    <3>1. CASE j \in 1..Len(t)
      <4>1. PICK i \in 1..k : t[j] = best[i] /\ best[i].player \notin unnamed
        BY <3>1 DEF Keeps
      <4> QED
        BY <1>1, <2>1, <3>1, <4>1
    <3>2. CASE j = Len(t) + 1
      <4>1. a[j] = best[k + 1] /\ k + 1 \in 1..k + 1 /\ best[k + 1].player \notin unnamed
        BY <1>1, <1>3, <2>1, <3>2 DEF e
      <4> QED
        BY <4>1
    <3> QED
      BY <2>2, <3>1, <3>2
  <2>4. \A i \in 1..k + 1 : best[i].player \notin unnamed => \E j \in 1..Len(a) : a[j] = best[i]
    BY <1>1, <2>1, <2>2 DEF Keeps, e
  <2>5. ASSUME NEW j \in 1..Len(a), NEW l \in 1..Len(a), j < l
        PROVE  \E i, m \in 1..k + 1 : i < m /\ a[j] = best[i] /\ a[l] = best[m]
    <3>1. j \in 1..Len(t) /\ a[j] = t[j]
      BY <2>1, <2>2, <2>5
    <3>2. CASE l \in 1..Len(t)
      <4>1. PICK i \in 1..k, m \in 1..k : i < m /\ t[j] = best[i] /\ t[l] = best[m]
        BY <2>5, <3>1, <3>2 DEF Keeps
      <4> QED
        BY <1>1, <2>1, <3>1, <3>2, <4>1
    <3>3. CASE l = Len(t) + 1
      <4>1. PICK i \in 1..k : t[j] = best[i]
        BY <3>1 DEF Keeps
      <4>2. a[l] = best[k + 1] /\ k + 1 \in 1..k + 1 /\ i \in 1..k + 1 /\ i < k + 1
        BY <1>1, <2>1, <3>3 DEF e
      <4> QED
        BY <3>1, <4>1, <4>2
    <3> QED
      BY <2>2, <3>2, <3>3
  <2>6. Keeps(a, best, unnamed, k + 1)
    BY <2>3, <2>4, <2>5 DEF Keeps
  <2> QED
    BY <1>3, <2>6 DEF a, e
<1> QED
  BY <1>2, <1>3

LEMMA NamedAre ==
  ASSUME NEW T, NEW best \in Seq(T), NEW unnamed
  PROVE  Named(best, unnamed) \in Seq(T) /\ Keeps(Named(best, unnamed), best, unnamed, Len(best))
<1> DEFINE n == Len(best)
           V == Seq(T)
           Next2(k, t) == IF best[k].player \in unnamed THEN t ELSE Append(t, best[k])
           step == [x \in (1..n) \X V |-> Next2(x[1], x[2])]
           a == <<>>
           Equation(h) == h = [k \in 0..Len(best) |->
             IF k = 0 THEN <<>>
             ELSE IF best[k].player \in unnamed THEN h[k - 1]
             ELSE Append(h[k - 1], best[k])]
           named == CHOOSE h : Equation(h)
<1>1. n \in Nat /\ \A k \in 1..n : best[k] \in T
  BY LenProperties, ElementOfSeq
<1>2. Named(best, unnamed) = named[n]
  BY DEF Named
<1>3. a \in V
  OBVIOUS
<1>4. \A k \in 1..n, t \in V : Next2(k, t) \in V
  BY <1>1, AppendProperties
<1> HIDE DEF n
<1>5. step \in [(1..n) \X V -> V]
  <2> HIDE DEF V, Next2
  <2> QED
    BY <1>4
<1>6. PICK f : Loops(f, V, n, a, step)
  <2>1. n \in Nat
    BY <1>1
  <2> HIDE DEF V, a, step
  <2> QED
    BY <1>3, <1>5, <2>1, Iteration
<1>7. \A k \in 1..n : k - 1 \in 0..n /\ f[k - 1] \in V /\ f[k] = Next2(k, f[k - 1])
  <2> SUFFICES ASSUME NEW k \in 1..n
               PROVE  k - 1 \in 0..n /\ f[k - 1] \in V /\ f[k] = Next2(k, f[k - 1])
    OBVIOUS
  <2>1. k - 1 \in 0..n
    BY <1>1
  <2> HIDE DEF V, Next2
  <2>2. f[k - 1] \in V
    BY <1>6, <2>1 DEF Loops
  <2>3. step[<<k, f[k - 1]>>] = Next2(k, f[k - 1])
    BY <2>2
  <2> QED
    BY <1>6, <2>1, <2>2, <2>3 DEF Loops
<1>8. Equation(f)
  <2>1. \A k \in 0..n : f[k] = IF k = 0 THEN <<>> ELSE Next2(k, f[k - 1])
    <3> SUFFICES ASSUME NEW k \in 0..n PROVE f[k] = IF k = 0 THEN <<>> ELSE Next2(k, f[k - 1])
      OBVIOUS
    <3>1. k = 0 \/ k \in 1..n
      BY <1>1
    <3>2. CASE k = 0
      BY <1>6, <3>2 DEF Loops
    <3>3. CASE k \in 1..n
      <4> HIDE DEF Next2
      <4> QED
        BY <1>7, <3>3
    <3> QED
      BY <3>1, <3>2, <3>3
  <2>2. f = [k \in 0..n |-> IF k = 0 THEN <<>> ELSE Next2(k, f[k - 1])]
    <3> HIDE DEF V, a, Next2
    <3> QED
      BY <1>6, <2>1 DEF Loops
  <2> QED
    BY <2>2 DEF n
<1>9. Equation(named)
  <2> HIDE DEF Equation
  <2> QED
    BY <1>8
<1> HIDE DEF named
<1>10. /\ named[0] = <<>>
       /\ \A k \in 1..n : named[k] = Next2(k, named[k - 1])
  <2>1. named = [k \in 0..n |-> IF k = 0 THEN <<>> ELSE Next2(k, named[k - 1])]
    BY <1>9 DEF n
  <2>2. 0 \in 0..n /\ \A k \in 1..n : k \in 0..n /\ k # 0
    BY <1>1
  <2> HIDE DEF Next2, Equation
  <2> QED
    BY <2>1, <2>2
<1> HIDE DEF Equation
<1> DEFINE Good(k) == named[k] \in V /\ Keeps(named[k], best, unnamed, k)
           U == {k \in Nat : k <= n => Good(k)}
<1>11. Good(0)
  <2>1. named[0] = <<>> /\ <<>> \in V /\ Len(<<>>) = 0
    BY <1>10
  <2> QED
    BY <2>1 DEF Keeps
<1>12. 0 \in U
  <2> HIDE DEF Good
  <2> QED
    BY <1>11
<1>13. ASSUME NEW k \in Nat, k \in U PROVE k + 1 \in U
  <2> SUFFICES ASSUME k + 1 <= n PROVE Good(k + 1)
    <3>1. k + 1 \in Nat
      OBVIOUS
    <3> HIDE DEF Good
    <3> QED
      BY <3>1
  <2>1. k \in 0..n /\ k + 1 \in 1..n /\ k <= n /\ (k + 1) - 1 = k
    BY <1>1
  <2>2. Good(k)
    <3> HIDE DEF Good
    <3> QED
      BY <1>13, <2>1
  <2>3. named[k + 1] = Next2(k + 1, named[k])
    <3> HIDE DEF Next2
    <3> QED
      BY <1>10, <2>1
  <2>4. named[k + 1] \in V
    <3> HIDE DEF Next2, V
    <3> QED
      BY <1>4, <2>1, <2>2, <2>3
  <2>5. Keeps(named[k + 1], best, unnamed, k + 1)
    <3>1. /\ best[k + 1].player \in unnamed => Keeps(named[k], best, unnamed, k + 1)
          /\ best[k + 1].player \notin unnamed =>
               Keeps(Append(named[k], best[k + 1]), best, unnamed, k + 1)
      BY <2>1, <2>2, KeepsNext DEF n
    <3> QED
      BY <2>3, <3>1
  <2> QED
    BY <2>4, <2>5
<1> HIDE DEF Good
<1>14. \A k \in Nat : k \in U
  <2> HIDE DEF U
  <2> QED
    BY <1>12, <1>13, Induction
<1>15. Good(n)
  BY <1>1, <1>14
<1> QED
  BY <1>2, <1>15 DEF Good, n

(* As many players as places: the players of the places are distinct. *)
LEMMA PlayersOfPlaces ==
  ASSUME NEW T, NEW s \in Seq(T)
  PROVE  /\ IsFiniteSet(PlayersIn(s))
         /\ Cardinality(PlayersIn(s)) = Len(s) <=>
              \A i, j \in 1..Len(s) : i < j => s[i].player # s[j].player
<1> DEFINE n == Len(s)
           S == PlayersIn(s)
           f == [j \in 1..n |-> s[j].player]
<1>1. n \in Nat /\ DOMAIN s = 1..n
  BY LenProperties
<1>2. S = {s[j].player : j \in 1..n}
  BY <1>1 DEF PlayersIn
<1>3. f \in [1..n -> S] /\ \A y \in S : \E j \in 1..n : f[j] = y
  BY <1>2
<1>4. \A j \in 1..n : f[j] = s[j].player
  OBVIOUS
<1> HIDE DEF S, f, n
<1>5. f \in Surjection(1..n, S)
  BY <1>3 DEF Surjection
<1>6. IsFiniteSet(1..n) /\ Cardinality(1..n) = n
  BY <1>1, FS_Interval
<1>7. IsFiniteSet(S) /\ (Cardinality(S) = Cardinality(1..n) <=> f \in Injection(1..n, S))
  BY <1>5, <1>6, FS_Surjection
<1>8. f \in Injection(1..n, S) <=> \A i, j \in 1..n : f[i] = f[j] => i = j
  BY <1>3 DEF Injection, IsInjective
<1>9. (\A i, j \in 1..n : f[i] = f[j] => i = j)
        <=> (\A i, j \in 1..n : i < j => f[i] # f[j])
  <2>1. \A i, j \in 1..n : i < j \/ j < i \/ i = j
    BY <1>1
  <2>2. \A i, j \in 1..n : i < j => i # j
    BY <1>1
  <2> QED
    BY <2>1, <2>2
<1> QED
  BY <1>4, <1>6, <1>7, <1>8, <1>9 DEF n, S

(* What a list keeps when some of its players are left out. *)
LeftOut(T, t, best, unnamed) ==
  /\ t \in Seq(T) /\ PlayersIn(t) = PlayersIn(best) \ unnamed
  /\ DOMAIN t = 1..Len(t) /\ DOMAIN best = 1..Len(best)
  /\ Cardinality(PlayersIn(t)) = Len(t)
  /\ Len(t) \in Nat /\ Len(t) + Cardinality(unnamed) = Len(best)
  /\ \A j \in DOMAIN t : \E i \in DOMAIN best : t[j] = best[i]
  /\ \A j, l \in DOMAIN t : j < l =>
       \E i, m \in DOMAIN best : i < m /\ t[j] = best[i] /\ t[l] = best[m]

LEMMA LeavingOut ==
  ASSUME NEW T, NEW best \in Seq(T), Cardinality(PlayersIn(best)) = Len(best),
         NEW unnamed \in SUBSET PlayersIn(best)
  PROVE  LeftOut(T, Named(best, unnamed), best, unnamed)
<1> DEFINE t == Named(best, unnamed)
           n == Len(best)
           len == Len(t)
<1>1. n \in Nat /\ DOMAIN best = 1..n
  BY LenProperties
<1>2. t \in Seq(T) /\ Keeps(t, best, unnamed, n)
  BY NamedAre
<1> HIDE DEF t
<1>3. len \in Nat /\ DOMAIN t = 1..len
  BY <1>2, LenProperties
<1>4. /\ \A j \in 1..len : \E i \in 1..n : t[j] = best[i] /\ best[i].player \notin unnamed
      /\ \A i \in 1..n : best[i].player \notin unnamed => \E j \in 1..len : t[j] = best[i]
      /\ \A j, l \in 1..len : j < l =>
           \E i, o \in 1..n : i < o /\ t[j] = best[i] /\ t[l] = best[o]
  BY <1>2 DEF Keeps
<1>5. /\ IsFiniteSet(PlayersIn(best))
      /\ \A i, j \in 1..n : i < j => best[i].player # best[j].player
  BY PlayersOfPlaces
<1> HIDE DEF n, len
<1>6. PlayersIn(t) = PlayersIn(best) \ unnamed
  <2>1. /\ PlayersIn(best) = {best[i].player : i \in 1..n}
        /\ PlayersIn(t) = {t[i].player : i \in 1..len}
    BY <1>1, <1>3 DEF PlayersIn
  <2>2. ASSUME NEW p \in PlayersIn(t) PROVE p \in PlayersIn(best) \ unnamed
    <3>1. PICK j \in 1..len : p = t[j].player
      BY <2>1
    <3>2. PICK i \in 1..n : t[j] = best[i] /\ best[i].player \notin unnamed
      BY <1>4
    <3> QED
      BY <2>1, <3>1, <3>2
  <2>3. ASSUME NEW p \in PlayersIn(best) \ unnamed PROVE p \in PlayersIn(t)
    <3>1. PICK i \in 1..n : p = best[i].player
      BY <2>1
    <3>2. PICK j \in 1..len : t[j] = best[i]
      BY <1>4, <3>1
    <3> QED
      BY <2>1, <3>1, <3>2
  <2> QED
    BY <2>2, <2>3
<1>7. Cardinality(PlayersIn(t)) = len
  <2>1. ASSUME NEW j \in 1..len, NEW l \in 1..len, j < l PROVE t[j].player # t[l].player
    BY <1>4, <1>5, <2>1
  <2> QED
    BY <1>2, <2>1, PlayersOfPlaces DEF len
<1>8. len + Cardinality(unnamed) = n
  <2>1. IsFiniteSet(unnamed) /\ unnamed \subseteq PlayersIn(best)
    BY <1>5, FS_Subset
  <2>2. /\ Cardinality(PlayersIn(best) \ unnamed) =
             Cardinality(PlayersIn(best)) - Cardinality(PlayersIn(best) \cap unnamed)
    BY <1>5, FS_Difference
  <2>3. PlayersIn(best) \cap unnamed = unnamed
    BY <2>1
  <2>4. Cardinality(unnamed) \in Nat
    BY <2>1, FS_CardinalityType
  <2>5. len = n - Cardinality(unnamed)
    BY <1>6, <1>7, <2>2, <2>3 DEF n
  <2> QED
    BY <1>1, <2>4, <2>5
<1>9. \A j \in DOMAIN t : \E i \in DOMAIN best : t[j] = best[i]
  BY <1>1, <1>3, <1>4
<1>10. \A j, l \in DOMAIN t : j < l =>
         \E i, o \in DOMAIN best : i < o /\ t[j] = best[i] /\ t[l] = best[o]
  <2> SUFFICES ASSUME NEW j \in DOMAIN t, NEW l \in DOMAIN t, j < l
               PROVE  \E i, o \in DOMAIN best : i < o /\ t[j] = best[i] /\ t[l] = best[o]
    OBVIOUS
  <2>1. j \in 1..len /\ l \in 1..len
    BY <1>3
  <2>2. PICK i \in 1..n, o \in 1..n : i < o /\ t[j] = best[i] /\ t[l] = best[o]
    BY <1>4, <2>1
  <2>3. i \in DOMAIN best /\ o \in DOMAIN best
    BY <1>1
  <2> QED
    BY <2>2, <2>3
<1>11. LeftOut(T, t, best, unnamed)
  BY <1>1, <1>2, <1>3, <1>6, <1>7, <1>8, <1>9, <1>10 DEF LeftOut, n, len
<1> QED
  BY <1>11 DEF t

(* An answer stays right when players are left out of it. *)
LEMMA TargetsWithNames ==
  ASSUME NEW q, NEW data, NEW T, NEW best \in Seq(T), Right(q, best, {}, data),
         NEW unnamed \in SUBSET PlayersIn(best)
  PROVE  Right(q, Named(best, unnamed), unnamed, data)
<1> DEFINE t == Named(best, unnamed)
           found == Candidates(data, q)
<1>1. /\ PlayersIn(best) \subseteq found /\ Cardinality(PlayersIn(best)) = Len(best)
      /\ Len(best) + Cardinality({}) = Least(Limit, Cardinality(found))
      /\ \A p \in PlayersIn(best) : \A o \in found : Beats(data, q, o, p) => o \in PlayersIn(best)
      /\ \A k \in DOMAIN best :
           /\ best[k].count = Cardinality(NewItems(data, q, best[k].player))
           /\ \A j \in DOMAIN best : Beats(data, q, best[j].player, best[k].player) => j < k
  <2>1. PlayersIn(best) \cup {} = PlayersIn(best)
    OBVIOUS
  <2> HIDE DEF found
  <2> QED
    BY <2>1 DEF Right, found
<1> HIDE DEF t, found
<1>2. /\ t \in Seq(T) /\ PlayersIn(t) = PlayersIn(best) \ unnamed
      /\ DOMAIN t = 1..Len(t) /\ DOMAIN best = 1..Len(best)
      /\ Cardinality(PlayersIn(t)) = Len(t)
      /\ Len(t) \in Nat /\ Len(t) + Cardinality(unnamed) = Len(best)
      /\ \A j \in DOMAIN t : \E i \in DOMAIN best : t[j] = best[i]
      /\ \A j, l \in DOMAIN t : j < l =>
           \E i, m \in DOMAIN best : i < m /\ t[j] = best[i] /\ t[l] = best[m]
  <2>1. LeftOut(T, t, best, unnamed)
    BY <1>1, LeavingOut DEF t
  <2> QED
    BY <2>1 DEF LeftOut
<1>3. Len(best) \in Nat /\ Cardinality({}) = 0
  BY LenProperties, FS_EmptySet
<1>4. PlayersIn(t) \cup unnamed = PlayersIn(best) /\ PlayersIn(t) \cap unnamed = {}
  BY <1>2
<1>5. Len(t) + Cardinality(unnamed) = Least(Limit, Cardinality(found))
  BY <1>1, <1>2, <1>3
<1>6. ASSUME NEW k \in DOMAIN t
      PROVE  /\ t[k].count = Cardinality(NewItems(data, q, t[k].player))
             /\ \A j \in DOMAIN t : Beats(data, q, t[j].player, t[k].player) => j < k
  <2>1. PICK i \in DOMAIN best : t[k] = best[i]
    BY <1>2
  <2>2. ASSUME NEW j \in DOMAIN t, Beats(data, q, t[j].player, t[k].player), ~(j < k) PROVE FALSE
    <3>1. j = k \/ k < j
      BY <1>2, <2>2
    <3>2. CASE j = k
      BY <1>1, <1>2, <2>1, <2>2, <3>2
    <3>3. CASE k < j
      <4>1. PICK l \in DOMAIN best, m \in DOMAIN best : l < m /\ t[k] = best[l] /\ t[j] = best[m]
        BY <1>2, <3>3
      <4>2. m < l
        BY <1>1, <2>2, <4>1
      <4> QED
        BY <1>2, <1>3, <4>1, <4>2
    <3> QED
      BY <3>1, <3>2, <3>3
  <2> QED
    BY <1>1, <2>1, <2>2
<1>7. \A p \in PlayersIn(t) \cup unnamed : \A o \in found :
        Beats(data, q, o, p) => o \in PlayersIn(t) \cup unnamed
  BY <1>1, <1>4
<1> QED
  BY <1>1, <1>2, <1>4, <1>5, <1>6, <1>7 DEF Right, t, found

LEMMA NudesWithNames ==
  ASSUME NEW data, NEW max, NEW T, NEW best \in Seq(T), NudeRight(best, {}, data, max),
         NEW unnamed \in SUBSET PlayersIn(best)
  PROVE  NudeRight(Named(best, unnamed), unnamed, data, max)
<1> DEFINE t == Named(best, unnamed)
           chosen == {e \in ToSet(data) : e.player \in PlayersIn(best)}
           below == {e \in ToSet(data) : Stats(e.as) < max}
<1>1. /\ Len(best) + Cardinality({}) <= Size
      /\ Cardinality(PlayersIn(best)) = Len(best) /\ ToSet(best) \subseteq ToSet(data)
      /\ \A e \in chosen : Stats(e.as) <= max
      /\ \A j, k \in DOMAIN best : j < k => Level(best[j].as) >= Level(best[k].as)
      /\ \A e \in below \ chosen : /\ Len(best) + Cardinality({}) = Size
                                   /\ \A o \in chosen : Level(e.as) <= Level(o.as)
  <2>1. PlayersIn(best) \cup {} = PlayersIn(best)
    OBVIOUS
  <2> HIDE DEF below
  <2> QED
    BY <2>1 DEF NudeRight, below
<1> HIDE DEF t, chosen, below
<1>2. /\ t \in Seq(T) /\ PlayersIn(t) = PlayersIn(best) \ unnamed
      /\ DOMAIN t = 1..Len(t) /\ DOMAIN best = 1..Len(best)
      /\ Cardinality(PlayersIn(t)) = Len(t)
      /\ Len(t) \in Nat /\ Len(t) + Cardinality(unnamed) = Len(best)
      /\ \A j \in DOMAIN t : \E i \in DOMAIN best : t[j] = best[i]
      /\ \A j, l \in DOMAIN t : j < l =>
           \E i, m \in DOMAIN best : i < m /\ t[j] = best[i] /\ t[l] = best[m]
  <2>1. LeftOut(T, t, best, unnamed)
    BY <1>1, LeavingOut DEF t
  <2> QED
    BY <2>1 DEF LeftOut
<1>3. Len(best) \in Nat /\ Cardinality({}) = 0
  BY LenProperties, FS_EmptySet
<1>4. PlayersIn(t) \cup unnamed = PlayersIn(best) /\ PlayersIn(t) \cap unnamed = {}
  BY <1>2
<1>5. /\ Len(t) + Cardinality(unnamed) <= Size
      /\ \A e \in below \ chosen : Len(t) + Cardinality(unnamed) = Size
  BY <1>1, <1>2, <1>3
<1>6. ToSet(t) \subseteq ToSet(data)
  <2>1. ToSet(t) \subseteq ToSet(best)
    BY <1>2 DEF ToSet
  <2> QED
    BY <1>1, <2>1
<1>7. unnamed \subseteq {e.player : e \in ToSet(data)}
  <2> SUFFICES ASSUME NEW p \in unnamed PROVE p \in {e.player : e \in ToSet(data)}
    OBVIOUS
  <2>1. PICK k \in DOMAIN best : p = best[k].player
    BY DEF PlayersIn
  <2>2. best[k] \in ToSet(data)
    BY <1>1 DEF ToSet
  <2> QED
    BY <2>1, <2>2
<1>8. \A j, k \in DOMAIN t : j < k => Level(t[j].as) >= Level(t[k].as)
  BY <1>1, <1>2
<1>9. chosen = {e \in ToSet(data) : e.player \in PlayersIn(t) \cup unnamed}
  BY <1>4 DEF chosen
<1> QED
  BY <1>1, <1>2, <1>4, <1>5, <1>6, <1>7, <1>8, <1>9 DEF NudeRight, t, below

-----------------------------------------------------------------------------
(* The list of nude players *)

LEMMA StatsAreNumbers ==
  \A u \in Contents : Stats(u) \in Nat /\ Level(u) \in Nat
BY AdviceAssumption DEF Contents, Stats, Level

Entries == [player : Nat, as : Contents]

ByStats(s) ==
  /\ s \in Seq(Entries)
  /\ \A i, j \in 1..Len(s) : i < j => /\ s[i].player # s[j].player
                                      /\ Stats(s[i].as) >= Stats(s[j].as)

MapOf(s) == [p \in {s[k].player : k \in DOMAIN s} |->
               (CHOOSE e \in ToSet(s) : e.player = p).as]

(* A list that is sorted by stats holds just the players of the map. *)
LEMMA SortedNudes ==
  ASSUME NEW after, IsFiniteSet(DOMAIN after), after = [p \in DOMAIN after |-> after[p]],
         \A p \in DOMAIN after : p \in Nat /\ after[p] \in Contents,
         NEW s \in SetToSeqs({[player |-> p, as |-> after[p]] : p \in DOMAIN after}),
         \A j \in 1..Len(s) - 1 : Stats(s[j].as) >= Stats(s[j + 1].as)
  PROVE  ByStats(s) /\ MapOf(s) = after
<1> DEFINE D == DOMAIN after
           S == {[player |-> p, as |-> after[p]] : p \in D}
           n == Len(s)
<1>1. IsFiniteSet(S)
  <2> DEFINE f == [p \in D |-> [player |-> p, as |-> after[p]]]
  <2>1. f \in Surjection(D, S)
    BY DEF Surjection
  <2> HIDE DEF f, S
  <2> QED
    BY <2>1, FS_Surjection
<1>2. S \subseteq Entries /\ \A e \in S : e.player \in D /\ e.as = after[e.player]
  BY DEF Entries
<1>3. \A d, e \in S : d.player = e.player => d = e
  OBVIOUS
<1>4. \A p \in D : \E e \in S : e.player = p
  <2> TAKE p \in D
  <2> DEFINE e == [player |-> p, as |-> after[p]]
  <2>1. e \in S /\ e.player = p
    OBVIOUS
  <2> HIDE DEF e, S
  <2> QED
    BY <2>1
<1>5. /\ s \in Seq(S) /\ n \in Nat /\ DOMAIN s = 1..n /\ ToSet(s) = S
      /\ \A i, j \in 1..n : i # j => s[i] # s[j]
      /\ \A i \in 1..n : s[i] \in S
  <2>1. s \in SetToSeqs(S)
    OBVIOUS
  <2> HIDE DEF S
  <2> QED
    BY <1>1, <2>1, SetSequence
<1> HIDE DEF S
<1>6. s \in Seq(Entries)
  BY <1>2, <1>5, SeqMonotonic
<1>7. \A i, j \in 1..n : i < j => Stats(s[i].as) >= Stats(s[j].as)
  <2> DEFINE R == {jk \in (1..n) \X (1..n) : Stats(s[jk[1]].as) >= Stats(s[jk[2]].as)}
  <2>1. \A j \in 1..n : Stats(s[j].as) \in Nat
    BY <1>2, <1>5, StatsAreNumbers
  <2>2. \A j, k, l \in 1..n : <<j, k>> \in R /\ <<k, l>> \in R => <<j, l>> \in R
    BY <2>1
  <2>3. \A j \in 1..n - 1 : <<j, j + 1>> \in R
    BY <1>5
  <2>4. n \in Nat
    BY <1>5
  <2> HIDE DEF R, n
  <2>5. \A j, k \in 1..n : j < k => <<j, k>> \in R
    BY <2>2, <2>3, <2>4, Neighbours
  <2> QED
    BY <2>5 DEF R, n
<1>8. \A i, j \in 1..n : i < j => s[i].player # s[j].player
  <2> SUFFICES ASSUME NEW i \in 1..n, NEW j \in 1..n, i < j PROVE s[i].player # s[j].player
    OBVIOUS
  <2>1. s[i] \in S /\ s[j] \in S /\ s[i] # s[j]
    BY <1>5
  <2> QED
    BY <1>3, <2>1
<1>9. MapOf(s) = after
  <2>1. {s[k].player : k \in DOMAIN s} = D
    <3>1. \A k \in 1..n : s[k].player \in D
      BY <1>2, <1>5
    <3>2. \A p \in D : \E k \in 1..n : s[k].player = p
      BY <1>4, <1>5 DEF ToSet
    <3>3. DOMAIN s = 1..n
      BY <1>5
    <3> HIDE DEF D
    <3> QED
      BY <3>1, <3>2, <3>3
  <2>2. ASSUME NEW p \in D PROVE (CHOOSE e \in ToSet(s) : e.player = p).as = after[p]
    <3> DEFINE c == CHOOSE e \in ToSet(s) : e.player = p
    <3>1. c \in S /\ c.player = p
      BY <1>4, <1>5
    <3> HIDE DEF c
    <3>2. c.as = after[p]
      BY <1>2, <3>1
    <3> QED
      BY <3>2 DEF c
  <2> QED
    BY <2>1, <2>2 DEF MapOf
<1> QED
  BY <1>6, <1>7, <1>8, <1>9 DEF ByStats

(* The players in such a list are finitely many, and their contents too.   *)
LEMMA NudesMap ==
  ASSUME NEW s, ByStats(s)
  PROVE  /\ IsFiniteSet(DOMAIN MapOf(s))
         /\ \A p \in DOMAIN MapOf(s) : p \in Nat /\ MapOf(s)[p] \in Contents
<1> DEFINE n == Len(s)
           P == {s[k].player : k \in 1..n}
<1>1. n \in Nat /\ DOMAIN s = 1..n /\ \A k \in 1..n : s[k] \in Entries
  BY LenProperties, ElementOfSeq DEF ByStats
<1>2. DOMAIN MapOf(s) = P
  BY <1>1 DEF MapOf
<1>3. IsFiniteSet(P)
  <2> DEFINE f == [k \in 1..n |-> s[k].player]
  <2>1. f \in Surjection(1..n, P)
    BY DEF Surjection
  <2>2. IsFiniteSet(1..n)
    BY <1>1, FS_Interval
  <2> HIDE DEF f, P, n
  <2> QED
    BY <2>1, <2>2, FS_Surjection
<1>4. ASSUME NEW p \in P PROVE p \in Nat /\ MapOf(s)[p] \in Contents
  <2>1. \E e \in ToSet(s) : e.player = p
    BY <1>1 DEF ToSet
  <2> DEFINE c == CHOOSE e \in ToSet(s) : e.player = p
  <2>2. c \in ToSet(s) /\ c.player = p
    BY <2>1
  <2>3. MapOf(s)[p] = c.as
    BY <1>2, <1>4 DEF MapOf
  <2> HIDE DEF c
  <2>4. c \in Entries
    BY <1>1, <2>2 DEF ToSet
  <2> QED
    BY <2>2, <2>3, <2>4 DEF Entries
<1> QED
  BY <1>2, <1>3, <1>4

(* What the rules make of such a map is one. *)
LEMMA NudesAfter ==
  ASSUME NEW b \in Batches, NEW old, IsFiniteSet(DOMAIN old),
         \A p \in DOMAIN old : p \in Nat /\ old[p] \in Contents
  PROVE  /\ IsFiniteSet(DOMAIN NudeAfter(old, b))
         /\ NudeAfter(old, b) = [p \in DOMAIN NudeAfter(old, b) |-> NudeAfter(old, b)[p]]
         /\ \A p \in DOMAIN NudeAfter(old, b) : p \in Nat /\ NudeAfter(old, b)[p] \in Contents
<1> DEFINE after == NudeAfter(old, b)
           listed == {p \in DOMAIN b : b[p] # Gone /\ KindOf[b[p]] = "nude"}
           low    == {p \in DOMAIN b : b[p] # Gone /\ KindOf[b[p]] = "low"}
           D == listed \cup (DOMAIN old \ (DOMAIN b \ low))
<1>1. after = [p \in D |-> IF p \in listed THEN b[p] ELSE old[p]]
  BY DEF NudeAfter
<1>2. D \subseteq DOMAIN old \cup DOMAIN b
  OBVIOUS
<1>3. IsFiniteSet(D)
  <2>1. IsFiniteSet(DOMAIN old \cup DOMAIN b)
    BY BatchData, FS_Union
  <2> HIDE DEF D
  <2> QED
    BY <1>2, <2>1, FS_Subset
<1>4. \A p \in D : p \in Nat /\ after[p] \in Contents
  BY <1>1, BatchData
<1> HIDE DEF D, after
<1>5. DOMAIN after = D /\ after = [p \in DOMAIN after |-> after[p]]
  BY <1>1
<1> QED
  BY <1>3, <1>4, <1>5 DEF after

-----------------------------------------------------------------------------
(* The best nude players *)

LEMMA Sizes ==
  /\ Size \in Nat /\ Size >= 1 /\ Limit \in Nat /\ Limit >= 2
BY AdviceAssumption

ByLevel(best) == \A i, j \in 1..Len(best) : i < j => Level(best[i].as) >= Level(best[j].as)

Bests == {best \in Seq(Entries) : Len(best) <= Size /\ ByLevel(best)}

(* Either the list stays, as all in it have higher levels, or the newcomer *)
(* takes its place and a full list loses its last.                         *)
Puts(t, best, e) ==
  \/ /\ t = best /\ Len(best) = Size
     /\ \A j \in 1..Len(best) : Level(best[j].as) > Level(e.as)
  \/ \E i \in 1..Size, m \in 0..Len(best) :
       /\ m = IF Len(best) = Size THEN Size - 1 ELSE Len(best)
       /\ i <= m + 1 /\ Len(t) = m + 1
       /\ \A j \in 1..m + 1 : t[j] = IF j < i THEN best[j] ELSE IF j = i THEN e ELSE best[j - 1]
       /\ \A j \in 1..Len(best) : j < i => Level(best[j].as) >= Level(e.as)
       /\ \A j \in 1..Len(best) : j >= i => Level(best[j].as) <= Level(e.as)

LEMMA Levels ==
  ASSUME NEW best \in Bests
  PROVE  /\ Len(best) \in Nat /\ Len(best) <= Size /\ DOMAIN best = 1..Len(best)
         /\ best \in Seq(Entries)
         /\ \A j \in 1..Len(best) : best[j] \in Entries /\ Level(best[j].as) \in Nat
         /\ \A i, j \in 1..Len(best) : i < j => Level(best[i].as) >= Level(best[j].as)
<1>1. best \in Seq(Entries) /\ Len(best) <= Size
  BY DEF Bests
<1>2. Len(best) \in Nat /\ DOMAIN best = 1..Len(best) /\ \A j \in 1..Len(best) : best[j] \in Entries
  BY <1>1, LenProperties, ElementOfSeq
<1>3. \A j \in 1..Len(best) : Level(best[j].as) \in Nat
  BY <1>2, StatsAreNumbers DEF Entries
<1> QED
  BY <1>1, <1>2, <1>3 DEF Bests, ByLevel

LEMMA InsertedIs ==
  ASSUME NEW best \in Bests, NEW e \in Entries, NEW t \in Inserted(best, e)
  PROVE  t \in Seq(Entries) /\ Puts(t, best, e)
<1> DEFINE n == Len(best)
           levels == [k \in DOMAIN best |-> -Level(best[k].as)]
           kept == IF n = Size THEN Front(best) ELSE best
           m == IF n = Size THEN Size - 1 ELSE n
           k == -Level(e.as)
<1>1. /\ n \in Nat /\ n <= Size /\ DOMAIN best = 1..n /\ best \in Seq(Entries)
      /\ \A j \in 1..n : Level(best[j].as) \in Nat
      /\ \A i, j \in 1..n : i < j => Level(best[i].as) >= Level(best[j].as)
  BY Levels
<1>2. Level(e.as) \in Nat
  BY StatsAreNumbers DEF Entries
<1>3. PICK pos \in Landings(levels, k) :
        t = IF pos > Size THEN best ELSE InsertAt(kept, pos, e)
  BY DEF Inserted
<1>4. levels \in [1..n -> Int] /\ k \in Int /\ \A j \in 1..n : levels[j] = -Level(best[j].as)
  BY <1>1, <1>2
<1>5. Rising(levels)
  <2>1. DOMAIN levels = 1..n
    BY <1>1
  <2> HIDE DEF levels
  <2> QED
    BY <1>1, <1>4, <2>1 DEF Rising
<1>6. /\ pos \in 1..n + 1
      /\ \A j \in 1..n : j < pos => levels[j] <= k
      /\ \A j \in 1..n : j >= pos => levels[j] >= k
      /\ pos = n + 1 => \A j \in 1..n : levels[j] < k
  <2> HIDE DEF levels, k, n
  <2> QED
    BY <1>1, <1>3, <1>4, <1>5, Landing
<1>7. /\ \A j \in 1..n : j < pos => Level(best[j].as) >= Level(e.as)
      /\ \A j \in 1..n : j >= pos => Level(best[j].as) <= Level(e.as)
      /\ pos = n + 1 => \A j \in 1..n : Level(best[j].as) > Level(e.as)
  <2> HIDE DEF levels
  <2> QED
    BY <1>1, <1>2, <1>4, <1>6
<1>0. /\ n \in Nat /\ n <= Size /\ pos \in 1..n + 1 /\ pos \in Int
      /\ Size \in Nat /\ Size >= 1
  BY <1>1, <1>6, Sizes
<1> HIDE DEF levels, k, n
<1>8. CASE pos > Size
  <2>1. t = best
    BY <1>3, <1>8
  <2>2. n = Size /\ pos = n + 1
    BY <1>0, <1>8
  <2> QED
    BY <1>1, <1>7, <2>1, <2>2 DEF Puts, n
<1>9. CASE ~(pos > Size)
  <2>1. t = InsertAt(kept, pos, e)
    BY <1>3, <1>9
  <2>2. pos \in 1..Size /\ m \in 0..n /\ pos <= m + 1 /\ m \in Nat
    BY <1>0, <1>9
  <2>3. /\ kept \in Seq(Entries) /\ Len(kept) = m
        /\ \A j \in 1..m : kept[j] = best[j]
    <3>1. CASE n = Size
      <4>1. kept = SubSeq(best, 1, m) /\ m \in 0..Len(best)
        BY <1>1, <2>2, <3>1 DEF Front, n
      <4> HIDE DEF kept, m
      <4> QED
        BY <1>1, <4>1, Prefix
    <3>2. CASE n # Size
      BY <1>1, <3>2
    <3> QED
      BY <3>1, <3>2
  <2> HIDE DEF kept
  <2>4. t \in Seq(Entries) /\ With(t, kept, pos, e)
    <3>1. pos \in 1..Len(kept) + 1
      BY <2>2, <2>3
    <3> QED
      BY <2>1, <2>3, <3>1, InsertAtProperties
  <2>5. Len(t) = m + 1
    BY <2>3, <2>4 DEF With
  <2>6. \A j \in 1..m + 1 : t[j] = IF j < pos THEN best[j] ELSE IF j = pos THEN e ELSE best[j - 1]
    <3> SUFFICES ASSUME NEW j \in 1..m + 1
                 PROVE  t[j] = IF j < pos THEN best[j] ELSE IF j = pos THEN e ELSE best[j - 1]
      OBVIOUS
    <3>1. t[j] = IF j < pos THEN kept[j] ELSE IF j = pos THEN e ELSE kept[j - 1]
      BY <2>3, <2>4 DEF With
    <3> HIDE DEF m
    <3>2. (j < pos => j \in 1..m) /\ (j > pos => j - 1 \in 1..m)
      BY <2>2
    <3>3. j < pos \/ j = pos \/ j > pos
      BY <2>2
    <3> QED
      BY <2>3, <3>1, <3>2, <3>3
  <2> QED
    BY <1>7, <2>2, <2>4, <2>5, <2>6 DEF Puts, n
<1> QED
  BY <1>8, <1>9

LEMMA PutsKeeps ==
  ASSUME NEW best \in Bests, NEW e \in Entries, NEW t \in Seq(Entries), Puts(t, best, e)
  PROVE  t \in Bests
<1> DEFINE n == Len(best)
<1>1. /\ n \in Nat /\ n <= Size /\ Size \in Nat
      /\ \A j \in 1..n : Level(best[j].as) \in Nat
      /\ \A i, j \in 1..n : i < j => Level(best[i].as) >= Level(best[j].as)
  BY Levels, Sizes
<1>2. Level(e.as) \in Nat
  BY StatsAreNumbers DEF Entries
<1> HIDE DEF n
<1>3. CASE t = best
  BY <1>3
<1>4. CASE t # best
  <2>1. PICK i \in 1..Size, m \in 0..n :
          /\ m = IF n = Size THEN Size - 1 ELSE n
          /\ i <= m + 1 /\ Len(t) = m + 1
          /\ \A j \in 1..m + 1 :
               t[j] = IF j < i THEN best[j] ELSE IF j = i THEN e ELSE best[j - 1]
          /\ \A j \in 1..n : j < i => Level(best[j].as) >= Level(e.as)
          /\ \A j \in 1..n : j >= i => Level(best[j].as) <= Level(e.as)
    BY <1>4 DEF Puts, n
  <2>2. m \in Nat /\ m + 1 <= Size
    BY <1>1, <2>1
  <2>3. ASSUME NEW j \in 1..m + 1, NEW k \in 1..m + 1, j < k
        PROVE  Level(t[j].as) >= Level(t[k].as)
    <3>1. CASE k < i
      <4>1. j \in 1..n /\ k \in 1..n /\ j < i
        BY <1>1, <2>1, <2>2, <2>3, <3>1
      <4>2. t[j] = best[j] /\ t[k] = best[k]
        BY <2>1, <3>1, <4>1
      <4> QED
        BY <1>1, <2>3, <4>1, <4>2
    <3>2. CASE k = i
      <4>1. j \in 1..n /\ j < i
        BY <1>1, <2>1, <2>2, <2>3, <3>2
      <4>2. t[j] = best[j] /\ t[k] = e
        BY <2>1, <3>2, <4>1
      <4> QED
        BY <2>1, <4>1, <4>2
    <3>3. CASE k > i
      <4>1. k - 1 \in 1..n /\ k - 1 >= i
        BY <1>1, <2>1, <2>2, <2>3, <3>3
      <4>2. t[k] = best[k - 1]
        BY <2>1, <3>3
      <4>3. CASE j < i
        <5>1. j \in 1..n /\ j < k - 1
          BY <1>1, <2>1, <2>2, <4>1, <4>3
        <5>2. t[j] = best[j]
          BY <2>1, <4>3
        <5> QED
          BY <1>1, <4>1, <4>2, <5>1, <5>2
      <4>4. CASE j = i
        <5>1. t[j] = e
          BY <2>1, <4>4
        <5> QED
          BY <2>1, <4>1, <4>2, <5>1
      <4>5. CASE j > i
        <5>1. j - 1 \in 1..n /\ j - 1 < k - 1
          BY <1>1, <2>2, <2>3, <4>1, <4>5
        <5>2. t[j] = best[j - 1]
          BY <2>1, <4>5
        <5> QED
          BY <1>1, <4>1, <4>2, <5>1, <5>2
      <4> QED
        BY <4>3, <4>4, <4>5
    <3> QED
      BY <3>1, <3>2, <3>3
  <2> QED
    BY <2>1, <2>2, <2>3 DEF Bests, ByLevel
<1> QED
  BY <1>3, <1>4

(* What is kept of the players from lo to hi: the rest have lower levels,  *)
(* or the same.                                                            *)
Drawn(best, s, lo, hi) ==
  /\ best \in Bests
  /\ \A i, j \in 1..Len(best) : i < j => best[i] # best[j]
  /\ \A i \in 1..Len(best) : \E m \in lo..hi : best[i] = s[m]
  /\ \A m \in lo..hi : \/ \E i \in 1..Len(best) : best[i] = s[m]
                       \/ Len(best) = Size /\ Level(s[m].as) <= Level(best[Size].as)

LEMMA DrawnNext ==
  ASSUME NEW s, ByStats(s), NEW lo \in Nat, lo >= 1, NEW hi \in Nat, lo <= hi,
         hi <= Len(s), NEW best, Drawn(best, s, lo, hi - 1),
         NEW t, t \in Inserted(best, s[hi])
  PROVE  Drawn(t, s, lo, hi)
<1> DEFINE n == Len(best)
           e == s[hi]
<1>0. /\ Len(s) \in Nat /\ \A j \in 1..Len(s) : s[j] \in Entries
      /\ \A i, j \in 1..Len(s) : i < j => s[i].player # s[j].player
  BY LenProperties, ElementOfSeq DEF ByStats
<1>1. hi \in 1..Len(s) /\ e \in Entries /\ best \in Bests
  BY <1>0 DEF Drawn
<1>2. t \in Seq(Entries) /\ Puts(t, best, e)
  BY <1>1, InsertedIs
<1>3. t \in Bests
  BY <1>1, <1>2, PutsKeeps
<1>4. /\ n \in Nat /\ n <= Size /\ Size \in Nat /\ Size >= 1
      /\ \A j \in 1..n : Level(best[j].as) \in Nat
      /\ \A i, j \in 1..n : i < j => Level(best[i].as) >= Level(best[j].as)
  BY <1>1, Levels, Sizes
<1>5. Level(e.as) \in Nat /\ \A m \in lo..hi : Level(s[m].as) \in Nat
  <2>1. \A m \in lo..hi : m \in 1..Len(s)
    BY <1>0
  <2> QED
    BY <1>0, <1>1, <2>1, StatsAreNumbers DEF Entries
<1>6. \A j \in 1..n : best[j] # e
  <2> SUFFICES ASSUME NEW j \in 1..n PROVE best[j] # e
    OBVIOUS
  <2>1. PICK m \in lo..hi - 1 : best[j] = s[m]
    BY DEF Drawn
  <2>2. m \in 1..Len(s) /\ m < hi
    BY <1>0
  <2> QED
    BY <1>0, <1>1, <2>1, <2>2
<1>7. \A m \in lo..hi : m \in lo..hi - 1 \/ m = hi
  OBVIOUS
<1>8. hi \in lo..hi /\ \A m \in lo..hi - 1 : m \in lo..hi
  OBVIOUS
<1> HIDE DEF n, e
<1>9. CASE t = best
  <2>1. n = Size /\ \A j \in 1..n : Level(best[j].as) >= Level(e.as)
    <3>1. CASE n = Size /\ \A j \in 1..n : Level(best[j].as) > Level(e.as)
      BY <1>4, <1>5, <3>1
    <3>2. CASE ~(n = Size /\ \A j \in 1..n : Level(best[j].as) > Level(e.as))
      <4>1. PICK i \in 1..Size, m \in 0..n :
              /\ i <= m + 1 /\ Len(t) = m + 1
              /\ \A j \in 1..m + 1 :
                   t[j] = IF j < i THEN best[j] ELSE IF j = i THEN e ELSE best[j - 1]
        BY <1>2, <3>2 DEF Puts, n
      <4>2. i \in 1..m + 1 /\ i \in 1..n
        BY <1>4, <1>9, <4>1 DEF n
      <4> QED
        BY <1>6, <1>9, <4>1, <4>2
    <3> QED
      BY <3>1, <3>2
  <2>2. Level(e.as) <= Level(best[Size].as)
    BY <1>4, <2>1
  <2>3. \A i \in 1..n : \E m \in lo..hi : best[i] = s[m]
    BY <1>8 DEF Drawn, n
  <2>4. \A m \in lo..hi : \/ \E i \in 1..n : best[i] = s[m]
                          \/ n = Size /\ Level(s[m].as) <= Level(best[Size].as)
    BY <1>7, <2>1, <2>2 DEF Drawn, n, e
  <2> QED
    BY <1>3, <1>9, <2>3, <2>4 DEF Drawn, n
<1>10. CASE t # best
  <2>1. PICK i \in 1..Size, m \in 0..n :
          /\ m = IF n = Size THEN Size - 1 ELSE n
          /\ i <= m + 1 /\ Len(t) = m + 1
          /\ \A j \in 1..m + 1 :
               t[j] = IF j < i THEN best[j] ELSE IF j = i THEN e ELSE best[j - 1]
          /\ \A j \in 1..n : j < i => Level(best[j].as) >= Level(e.as)
          /\ \A j \in 1..n : j >= i => Level(best[j].as) <= Level(e.as)
    BY <1>2, <1>10 DEF Puts, n
  <2>2. m \in Nat /\ m + 1 <= Size /\ i \in 1..m + 1
    BY <1>4, <2>1
  <2>3. \A j \in 1..m + 1 :
          /\ j < i => j \in 1..n /\ t[j] = best[j]
          /\ j = i => t[j] = e
          /\ j > i => j - 1 \in 1..n /\ t[j] = best[j - 1]
    BY <1>4, <2>1, <2>2
  <2>4. \A j, k \in 1..m + 1 : j < k => t[j] # t[k]
    <3> SUFFICES ASSUME NEW j \in 1..m + 1, NEW k \in 1..m + 1, j < k PROVE t[j] # t[k]
      OBVIOUS
    <3>1. \A a, c \in 1..n : a < c => best[a] # best[c]
      BY DEF Drawn, n
    <3>2. CASE k < i
      BY <2>3, <3>1, <3>2
    <3>3. CASE k = i
      BY <1>6, <2>3, <3>3
    <3>4. CASE k > i
      <4>1. k - 1 \in 1..n /\ t[k] = best[k - 1]
        BY <2>3, <3>4
      <4>2. CASE j < i
        <5>1. j < k - 1 /\ j \in 1..n /\ t[j] = best[j]
          BY <2>3, <3>4, <4>2
        <5> QED
          BY <3>1, <4>1, <5>1
      <4>3. CASE j = i
        BY <1>6, <2>3, <4>1, <4>3
      <4>4. CASE j > i
        <5>1. j - 1 < k - 1 /\ j - 1 \in 1..n /\ t[j] = best[j - 1]
          BY <2>3, <4>4
        <5> QED
          BY <3>1, <4>1, <5>1
      <4> QED
        BY <4>2, <4>3, <4>4
    <3> QED
      BY <3>2, <3>3, <3>4
  <2>5. \A j \in 1..m + 1 : \E l \in lo..hi : t[j] = s[l]
    <3> SUFFICES ASSUME NEW j \in 1..m + 1 PROVE \E l \in lo..hi : t[j] = s[l]
      OBVIOUS
    <3>1. \A a \in 1..n : \E l \in lo..hi : best[a] = s[l]
      BY <1>8 DEF Drawn, n
    <3>2. CASE j = i
      BY <1>8, <2>3, <3>2 DEF e
    <3>3. CASE j # i
      <4>1. \E a \in 1..n : t[j] = best[a]
        BY <2>3, <3>3
      <4> QED
        BY <3>1, <4>1
    <3> QED
      BY <3>2, <3>3
  <2>6. ASSUME NEW a \in 1..n
        PROVE  \/ \E j \in 1..m + 1 : t[j] = best[a]
               \/ a = n /\ n = Size /\ m + 1 = Size /\ i <= Size
    <3>1. CASE a < i
      <4>1. a \in 1..m + 1
        BY <2>2, <3>1
      <4> QED
        BY <2>3, <3>1, <4>1
    <3>2. CASE a >= i /\ a + 1 <= m + 1
      <4>1. a + 1 \in 1..m + 1 /\ a + 1 > i /\ (a + 1) - 1 = a
        BY <2>2, <3>2
      <4> QED
        BY <2>3, <4>1
    <3>3. CASE a >= i /\ ~(a + 1 <= m + 1)
      BY <1>4, <2>1, <2>2, <3>3
    <3> QED
      BY <2>2, <3>1, <3>2, <3>3
  <2>7. n = Size => /\ m + 1 = Size
                    /\ Level(best[Size].as) <= Level(t[Size].as)
    <3> SUFFICES ASSUME n = Size PROVE m + 1 = Size /\ Level(best[Size].as) <= Level(t[Size].as)
      OBVIOUS
    <3>1. m + 1 = Size /\ Size \in 1..m + 1 /\ Size \in 1..n
      BY <1>4, <2>1
    <3>2. CASE i = Size
      BY <2>1, <2>3, <3>1, <3>2
    <3>3. CASE i < Size
      <4>1. Size - 1 \in 1..n /\ t[Size] = best[Size - 1] /\ Size - 1 < Size
        BY <1>4, <2>3, <3>1, <3>3
      <4> QED
        BY <1>4, <3>1, <4>1
    <3> QED
      BY <1>4, <3>2, <3>3
  <2>8. ASSUME NEW l \in lo..hi
        PROVE  \/ \E j \in 1..m + 1 : t[j] = s[l]
               \/ m + 1 = Size /\ Level(s[l].as) <= Level(t[Size].as)
    <3>1. CASE l = hi
      BY <2>2, <2>3, <3>1 DEF e
    <3>2. CASE l # hi
      <4>1. l \in lo..hi - 1
        BY <1>7, <3>2
      <4>2. \/ \E a \in 1..n : best[a] = s[l]
            \/ n = Size /\ Level(s[l].as) <= Level(best[Size].as)
        BY <4>1 DEF Drawn, n
      <4>3. \/ \E j \in 1..m + 1 : t[j] = s[l]
            \/ n = Size /\ Level(s[l].as) <= Level(best[Size].as)
        <5>1. CASE n = Size /\ Level(s[l].as) <= Level(best[Size].as)
          BY <5>1
        <5>2. ASSUME NEW a \in 1..n, best[a] = s[l]
              PROVE  \/ \E j \in 1..m + 1 : t[j] = s[l]
                     \/ n = Size /\ Level(s[l].as) <= Level(best[Size].as)
          <6>1. CASE \E j \in 1..m + 1 : t[j] = best[a]
            BY <5>2, <6>1
          <6>2. CASE a = n /\ n = Size
            BY <1>5, <5>2, <6>2
          <6> QED
            BY <2>6, <6>1, <6>2
        <5> QED
          BY <4>2, <5>1, <5>2
      <4>4. n = Size => Level(best[Size].as) \in Nat /\ Level(t[Size].as) \in Nat
        <5> SUFFICES ASSUME n = Size
                     PROVE  Level(best[Size].as) \in Nat /\ Level(t[Size].as) \in Nat
          OBVIOUS
        <5>1. Size \in 1..n /\ Size \in 1..Len(t)
          BY <1>4, <2>1, <2>7
        <5> QED
          BY <1>3, <1>4, <5>1, Levels
      <4> QED
        BY <1>5, <2>7, <4>3, <4>4
    <3> QED
      BY <3>1, <3>2
  <2> QED
    BY <1>3, <2>1, <2>4, <2>5, <2>8 DEF Drawn
<1> QED
  BY <1>9, <1>10

LEMMA NoneDrawn ==
  ASSUME NEW s, NEW lo \in Nat, NEW hi, hi = lo - 1
  PROVE  <<>> \in Bests /\ Drawn(<<>>, s, lo, hi)
<1>1. <<>> \in Seq(Entries) /\ Len(<<>>) = 0
  BY EmptySeq
<1>2. 1..0 = {} /\ lo..hi = {}
  OBVIOUS
<1>3. <<>> \in Bests
  BY <1>1, <1>2, Sizes DEF Bests, ByLevel
<1> QED
  BY <1>1, <1>2, <1>3 DEF Drawn

LEMMA KeptAre ==
  ASSUME NEW s, ByStats(s), NEW pos \in 1..Len(s) + 1, NEW best \in Kept(s, pos)
  PROVE  Drawn(best, s, pos, Len(s))
<1> DEFINE n == Len(s)
           V == SUBSET Bests
           Next2(k, B) == IF k < pos THEN {<<>>}
                          ELSE UNION {Inserted(b, s[k]) : b \in B}
           step == [t \in (1..n) \X V |-> Next2(t[1], t[2])]
           a == {<<>>}
           Equation(h) == h = [k \in 0..Len(s) |->
             IF k < pos THEN {<<>>}
             ELSE UNION {Inserted(b, s[k]) : b \in h[k - 1]}]
           bests == CHOOSE h : Equation(h)
<1>1. n \in Nat /\ \A k \in 1..n : s[k] \in Entries
  BY LenProperties, ElementOfSeq DEF ByStats
<1>2. Kept(s, pos) = bests[n]
  BY DEF Kept
<1>3. a \in V
  BY NoneDrawn
<1>4. \A k \in 1..n, B \in V : Next2(k, B) \in V
  <2> SUFFICES ASSUME NEW k \in 1..n, NEW B \in V, NEW b \in B, NEW t \in Inserted(b, s[k])
               PROVE  t \in Bests
    BY <1>3
  <2>1. b \in Bests /\ s[k] \in Entries
    BY <1>1
  <2>2. t \in Seq(Entries) /\ Puts(t, b, s[k])
    BY <2>1, InsertedIs
  <2> QED
    BY <2>1, <2>2, PutsKeeps
<1> HIDE DEF n
<1>5. step \in [(1..n) \X V -> V]
  <2> HIDE DEF V, Next2
  <2> QED
    BY <1>4
<1>6. PICK f : Loops(f, V, n, a, step)
  <2>1. n \in Nat
    BY <1>1
  <2> HIDE DEF V, a, step
  <2> QED
    BY <1>3, <1>5, <2>1, Iteration
<1>7. \A k \in 1..n : k - 1 \in 0..n /\ f[k - 1] \in V /\ f[k] = Next2(k, f[k - 1])
  <2> SUFFICES ASSUME NEW k \in 1..n
               PROVE  k - 1 \in 0..n /\ f[k - 1] \in V /\ f[k] = Next2(k, f[k - 1])
    OBVIOUS
  <2>1. k - 1 \in 0..n
    BY <1>1
  <2> HIDE DEF V, Next2
  <2>2. f[k - 1] \in V
    BY <1>6, <2>1 DEF Loops
  <2>3. step[<<k, f[k - 1]>>] = Next2(k, f[k - 1])
    BY <2>2
  <2> QED
    BY <1>6, <2>1, <2>2, <2>3 DEF Loops
<1>8. Equation(f)
  <2>1. \A k \in 0..n : /\ k # 0 => k \in 1..n
                        /\ k = 0 => k < pos
    BY <1>1 DEF n
  <2>2. \A k \in 0..n : f[k] = Next2(k, f[k - 1])
    <3> SUFFICES ASSUME NEW k \in 0..n PROVE f[k] = Next2(k, f[k - 1])
      OBVIOUS
    <3>1. CASE k = 0
      <4>1. f[k] = a /\ k < pos
        BY <1>6, <2>1, <3>1 DEF Loops
      <4> QED
        BY <4>1
    <3>2. CASE k # 0
      <4> HIDE DEF Next2
      <4> QED
        BY <1>7, <2>1, <3>2
    <3> QED
      BY <3>1, <3>2
  <2>3. f = [k \in 0..n |-> Next2(k, f[k - 1])]
    <3> HIDE DEF V, a, Next2
    <3> QED
      BY <1>6, <2>2 DEF Loops
  <2> QED
    BY <2>3 DEF n
<1>9. Equation(bests)
  <2> HIDE DEF Equation
  <2> QED
    BY <1>8
<1> HIDE DEF bests
<1>10. \A k \in 0..n : bests[k] = Next2(k, bests[k - 1])
  <2>1. bests = [k \in 0..n |-> Next2(k, bests[k - 1])]
    BY <1>9 DEF n
  <2> HIDE DEF Next2, Equation
  <2> QED
    BY <2>1
<1> HIDE DEF Equation
<1> DEFINE Good(k) == \A b \in bests[k] : Drawn(b, s, pos, IF k < pos THEN pos - 1 ELSE k)
           T == {k \in Nat : k <= n => Good(k)}
<1>11. pos \in Nat /\ pos >= 1 /\ pos <= n + 1
  BY <1>1 DEF n
<1>12. ASSUME NEW k \in 0..n, k < pos PROVE Good(k)
  <2>1. bests[k] = {<<>>}
    BY <1>10, <1>12
  <2>2. Drawn(<<>>, s, pos, pos - 1)
    BY <1>11, NoneDrawn
  <2> QED
    BY <1>12, <2>1, <2>2
<1>13. 0 \in T
  BY <1>11, <1>12, <1>1
<1>14. ASSUME NEW k \in Nat, k \in T PROVE k + 1 \in T
  <2> SUFFICES ASSUME k + 1 <= n PROVE Good(k + 1)
    <3>1. k + 1 \in Nat
      OBVIOUS
    <3> HIDE DEF Good
    <3> QED
      BY <3>1
  <2>1. k \in 0..n /\ k + 1 \in 0..n /\ k <= n /\ (k + 1) - 1 = k
    BY <1>1
  <2>2. Good(k)
    <3> HIDE DEF Good
    <3> QED
      BY <1>14, <2>1
  <2>3. CASE k + 1 < pos
    <3> HIDE DEF Good
    <3> QED
      BY <1>12, <2>1, <2>3
  <2>4. CASE ~(k + 1 < pos)
    <3>1. ASSUME NEW t \in bests[k + 1] PROVE Drawn(t, s, pos, k + 1)
      <4>1. bests[k + 1] = UNION {Inserted(b, s[k + 1]) : b \in bests[k]}
        BY <1>10, <2>1, <2>4
      <4>2. PICK b \in bests[k] : t \in Inserted(b, s[k + 1])
        BY <3>1, <4>1
      <4>3. (IF k < pos THEN pos - 1 ELSE k) = (k + 1) - 1
        BY <1>11, <2>4
      <4>4. Drawn(b, s, pos, (k + 1) - 1)
        BY <2>2, <4>3
      <4>5. k + 1 \in Nat /\ pos <= k + 1 /\ k + 1 <= Len(s)
        BY <1>11, <2>4 DEF n
      <4> QED
        BY <1>11, <4>2, <4>4, <4>5, DrawnNext
    <3> QED
      BY <2>4, <3>1
  <2> QED
    BY <2>3, <2>4
<1>15. Good(n)
  <2>1. \A k \in Nat : k \in T
    <3> HIDE DEF T
    <3> QED
      BY <1>13, <1>14, Induction
  <2>2. n \in T /\ n <= n
    <3> HIDE DEF T
    <3> QED
      BY <1>1, <2>1
  <2> HIDE DEF Good
  <2> QED
    BY <2>2
<1>16. (IF n < pos THEN pos - 1 ELSE n) = n
  BY <1>1, <1>11
<1> QED
  BY <1>2, <1>15, <1>16 DEF n

LEMMA BestNudesAreRight ==
  ASSUME NEW s, ByStats(s), NEW max \in Nat, NEW best \in BestNude(s, max)
  PROVE  best \in Seq(Entries) /\ NudeRight(best, {}, s, max)
<1> DEFINE n == Len(s)
           keys == [k \in DOMAIN s |-> -Stats(s[k].as)]
<1>1. /\ n \in Nat /\ DOMAIN s = 1..n /\ \A k \in 1..n : s[k] \in Entries
      /\ \A i, j \in 1..n : i < j => Stats(s[i].as) >= Stats(s[j].as)
  BY LenProperties, ElementOfSeq DEF ByStats
<1>2. \A k \in 1..n : Stats(s[k].as) \in Nat
  BY <1>1, StatsAreNumbers DEF Entries
<1>3. PICK pos \in Landings(keys, -max) : best \in Kept(s, pos)
  BY DEF BestNude
<1>4. keys \in [1..n -> Int] /\ DOMAIN keys = 1..n /\ \A k \in 1..n : keys[k] = -Stats(s[k].as)
  BY <1>1, <1>2
<1> HIDE DEF n, keys
<1>5. Rising(keys)
  BY <1>1, <1>2, <1>4 DEF Rising
<1>6. /\ pos \in 1..n + 1
      /\ \A j \in 1..n : j < pos => keys[j] <= -max
      /\ \A j \in 1..n : j >= pos => keys[j] >= -max
  <2>1. -max \in Int
    OBVIOUS
  <2> DEFINE k == -max
  <2> HIDE DEF k
  <2>2. /\ pos \in 1..n + 1
        /\ \A j \in 1..n : j < pos => keys[j] <= k
        /\ \A j \in 1..n : j >= pos => keys[j] >= k
    BY <1>1, <1>3, <1>4, <1>5, <2>1, Landing DEF k
  <2> QED
    BY <2>2 DEF k
<1>7. /\ \A j \in 1..n : j < pos => Stats(s[j].as) >= max
      /\ \A j \in 1..n : j >= pos => Stats(s[j].as) <= max
  BY <1>2, <1>4, <1>6
<1>8. Drawn(best, s, pos, n)
  BY <1>3, <1>6, KeptAre DEF n
<1>9. /\ best \in Seq(Entries) /\ Len(best) \in Nat /\ Len(best) <= Size
      /\ DOMAIN best = 1..Len(best) /\ best \in Bests
      /\ \A i, j \in 1..Len(best) : i < j => Level(best[i].as) >= Level(best[j].as)
  BY <1>8, Levels DEF Drawn
<1>10. ToSet(s) = {s[j] : j \in 1..n} /\ ToSet(best) = {best[j] : j \in 1..Len(best)}
  BY <1>1, <1>9 DEF ToSet
<1>11. /\ \A k \in 1..Len(best) : \E m \in pos..n : best[k] = s[m]
       /\ \A i, j \in 1..Len(best) : i < j => best[i] # best[j]
       /\ \A m \in pos..n : s[m] \in ToSet(best) \/
            (Len(best) = Size /\ \A k \in 1..Len(best) : Level(best[k].as) >= Level(s[m].as))
  <2>1. ASSUME NEW m \in pos..n, s[m] \notin ToSet(best), NEW k \in 1..Len(best)
        PROVE  Len(best) = Size /\ Level(best[k].as) >= Level(s[m].as)
    <3>1. Len(best) = Size /\ Level(s[m].as) <= Level(best[Size].as)
      BY <1>8, <1>10, <2>1 DEF Drawn
    <3>2. /\ Size \in 1..Len(best) /\ best[k] \in Entries /\ best[Size] \in Entries
          /\ m \in 1..n /\ s[m] \in Entries
      BY <1>1, <1>6, <1>9, <3>1, Sizes, ElementOfSeq
    <3>3. /\ Level(best[k].as) \in Nat /\ Level(best[Size].as) \in Nat
          /\ Level(s[m].as) \in Nat
      BY <3>2, StatsAreNumbers DEF Entries
    <3>4. k = Size \/ Level(best[k].as) >= Level(best[Size].as)
      BY <1>9, <3>1, <3>2
    <3> QED
      BY <3>1, <3>3, <3>4
  <2>2. ASSUME NEW m \in pos..n, s[m] \notin ToSet(best) PROVE Len(best) = Size
    BY <1>8, <1>10, <2>2 DEF Drawn
  <2> QED
    BY <1>8, <1>9, <2>1, <2>2 DEF Drawn
<1>12. /\ \A k \in 1..Len(best) : best[k] \in ToSet(s) /\ Stats(best[k].as) <= max
       /\ ToSet(best) \subseteq ToSet(s)
  <2>1. \A m \in pos..n : m \in 1..n /\ m >= pos
    BY <1>1, <1>6
  <2>2. ASSUME NEW k \in 1..Len(best) PROVE best[k] \in ToSet(s) /\ Stats(best[k].as) <= max
    BY <1>7, <1>10, <1>11, <2>1
  <2> QED
    BY <1>10, <2>2
<1>13. \A i, j \in 1..n : s[i].player = s[j].player => i = j
  <2>1. \A i, j \in 1..n : i < j => s[i].player # s[j].player
    BY <1>1 DEF ByStats
  <2>2. \A i, j \in 1..n : i < j \/ j < i \/ i = j
    BY <1>1
  <2> QED
    BY <2>1, <2>2
<1>14. PlayersIn(best) = {best[k].player : k \in 1..Len(best)}
  BY <1>9 DEF PlayersIn
<1>15. {e \in ToSet(s) : e.player \in PlayersIn(best)} = ToSet(best)
  <2>1. ASSUME NEW e \in ToSet(s), NEW k \in 1..Len(best), e.player = best[k].player
        PROVE  e \in ToSet(best)
    <3>1. PICK i \in 1..n, j \in 1..n : e = s[i] /\ best[k] = s[j]
      BY <1>10, <1>12
    <3>2. e = best[k]
      BY <1>13, <2>1, <3>1
    <3> QED
      BY <1>10, <3>2
  <2> QED
    BY <1>10, <1>12, <1>14, <2>1
<1>16. Cardinality(PlayersIn(best)) = Len(best)
  <2>1. ASSUME NEW i \in 1..Len(best), NEW j \in 1..Len(best), i < j
        PROVE  best[i].player # best[j].player
    <3>1. best[i] # best[j] /\ best[i] \in ToSet(s) /\ best[j] \in ToSet(s)
      BY <1>11, <1>12, <2>1
    <3> QED
      BY <1>10, <1>13, <3>1
  <2> QED
    BY <1>9, <2>1, PlayersOfPlaces
<1>17. ASSUME NEW e \in ToSet(s), Stats(e.as) < max, e \notin ToSet(best)
       PROVE  Len(best) = Size /\ \A o \in ToSet(best) : Level(e.as) <= Level(o.as)
  <2>1. PICK m \in 1..n : e = s[m]
    BY <1>10
  <2>2. m \in pos..n
    BY <1>1, <1>2, <1>6, <1>7, <1>17, <2>1
  <2>3. /\ Len(best) = Size
        /\ \A k \in 1..Len(best) : Level(best[k].as) >= Level(e.as)
    BY <1>11, <1>17, <2>1, <2>2
  <2>4. ASSUME NEW k \in 1..Len(best) PROVE Level(e.as) <= Level(best[k].as)
    <3>1. e \in Entries /\ best[k] \in Entries
      BY <1>1, <1>9, <2>1, ElementOfSeq
    <3>2. Level(e.as) \in Nat /\ Level(best[k].as) \in Nat
      BY <3>1, StatsAreNumbers DEF Entries
    <3> QED
      BY <2>3, <3>2
  <2> QED
    BY <1>10, <2>3, <2>4
<1>18. Len(best) + Cardinality({}) = Len(best)
  BY <1>9, FS_EmptySet
<1> DEFINE chosen == {e \in ToSet(s) : e.player \in PlayersIn(best) \cup {}}
           below == {e \in ToSet(s) : Stats(e.as) < max}
<1>19. chosen = ToSet(best)
  BY <1>15
<1>20. \A e \in ToSet(best) : Stats(e.as) <= max
  BY <1>10, <1>12
<1>21. \A e \in below \ ToSet(best) :
         Len(best) = Size /\ \A o \in ToSet(best) : Level(e.as) <= Level(o.as)
  BY <1>17
<1>22. \A j, k \in DOMAIN best : j < k => Level(best[j].as) >= Level(best[k].as)
  BY <1>9
<1> HIDE DEF chosen
<1>23. /\ Len(best) + Cardinality({}) <= Size /\ PlayersIn(best) \cap {} = {}
       /\ Cardinality(PlayersIn(best)) = Len(best) /\ ToSet(best) \subseteq ToSet(s)
       /\ {} \subseteq {e.player : e \in ToSet(s)}
       /\ \A e \in chosen : Stats(e.as) <= max
       /\ \A e \in below \ chosen :
            /\ Len(best) + Cardinality({}) = Size
            /\ \A o \in chosen : Level(e.as) <= Level(o.as)
  BY <1>9, <1>12, <1>16, <1>18, <1>19, <1>20, <1>21
<1> QED
  BY <1>9, <1>22, <1>23 DEF NudeRight, chosen

-----------------------------------------------------------------------------
(* The best targets *)

(* The cache that an answer is computed from: arrays that are lists, and   *)
(* whose players are known and have the items.                             *)
Data(data) ==
  /\ \A i \in DOMAIN data.equipment : Array(data.equipment[i])
  /\ Consistent(data.info, Index(data.equipment))

LEMMA NewItemsAreFew ==
  ASSUME NEW data, Data(data), NEW q, NEW p \in DOMAIN data.info
  PROVE  /\ IsFiniteSet(NewItems(data, q, p))
         /\ Cardinality(NewItems(data, q, p)) \in 0..MaxEquip
         /\ NewItems(data, q, p) # {} <=> Cardinality(NewItems(data, q, p)) > 0
         /\ Stats(data.info[p]) \in Nat
<1> DEFINE N == NewItems(data, q, p)
           I == Items(data.info[p])
<1>1. data.info[p] \in Contents
  BY DEF Data, Consistent
<1>2. IsFiniteSet(I) /\ Cardinality(I) <= MaxEquip
  <2>1. CASE data.info[p] = Gone
    BY <2>1, FS_EmptySet DEF Items, MaxEquip
  <2>2. CASE data.info[p] # Gone
    BY <1>1, <2>2, AdviceAssumption DEF Items, Contents
  <2> QED
    BY <2>1, <2>2
<1>3. N \subseteq I
  BY DEF NewItems, Data, Consistent, Index
<1> HIDE DEF N, I
<1>4. IsFiniteSet(N) /\ Cardinality(N) <= Cardinality(I)
  BY <1>2, <1>3, FS_Subset
<1>5. Cardinality(N) \in Nat /\ Cardinality(I) \in Nat
  BY <1>2, <1>4, FS_CardinalityType
<1>6. Cardinality(N) = 0 <=> N = {}
  BY <1>4, FS_EmptySet
<1>7. Cardinality(N) \in 0..MaxEquip
  BY <1>2, <1>4, <1>5 DEF MaxEquip
<1>8. Stats(data.info[p]) \in Nat
  BY <1>1, StatsAreNumbers
<1> QED
  BY <1>4, <1>5, <1>6, <1>7, <1>8 DEF N

(* Hits in the lists are counted, and that counts new items. *)
LEMMA CountsAreNewItems ==
  ASSUME NEW data, Data(data), NEW q \in Questions
  PROVE  LET counts == calc_per_player_count(data, Book(q), MaxOf[q])
         IN  /\ DOMAIN counts = Candidates(data, q)
             /\ \A p \in DOMAIN counts : counts[p] = Cardinality(NewItems(data, q, p))
<1> DEFINE book == Book(q)
           lists == [i \in DOMAIN data.equipment \ book |-> iter(data.equipment[i])]
           hits == UNION {{<<i, k>> : k \in DOMAIN lists[i]} : i \in DOMAIN lists}
           fit == {p \in DOMAIN data.info : Stats(data.info[p]) <= MaxOf[q]}
           of(p) == {h \in hits : lists[h[1]][h[2]] = p}
           count == [p \in fit |-> Cardinality(of(p))]
           counts == calc_per_player_count(data, Book(q), MaxOf[q])
<1>1. counts = [p \in {r \in fit : count[r] > 0} |-> count[p]]
  BY DEF calc_per_player_count
<1>2. ASSUME NEW p \in fit PROVE Cardinality(of(p)) = Cardinality(NewItems(data, q, p))
  <2> DEFINE N == NewItems(data, q, p)
             at(i) == CHOOSE k \in DOMAIN lists[i] : lists[i][k] = p
             g == [i \in N |-> <<i, at(i)>>]
  <2>1. \A i \in DOMAIN lists : lists[i] = to_vec(data.equipment[i]) /\ SortedList(lists[i])
    BY DEF Data, Array
  <2>2. N = {i \in DOMAIN lists : \E k \in DOMAIN lists[i] : lists[i][k] = p}
    <3>1. \A i \in DOMAIN lists : p \in ToSet(to_vec(data.equipment[i]))
                                    <=> \E k \in DOMAIN lists[i] : lists[i][k] = p
      BY <2>1 DEF ToSet
    <3>2. DOMAIN lists = DOMAIN data.equipment \ book
      OBVIOUS
    <3> HIDE DEF lists, book
    <3> QED
      BY <3>1, <3>2 DEF NewItems, book
  <2>3. \A i \in DOMAIN lists : \A j, k \in DOMAIN lists[i] :
          lists[i][j] = lists[i][k] => j = k
    <3> SUFFICES ASSUME NEW i \in DOMAIN lists, NEW j \in DOMAIN lists[i],
                        NEW k \in DOMAIN lists[i], j # k
                 PROVE  lists[i][j] # lists[i][k]
      OBVIOUS
    <3> DEFINE l == lists[i]
    <3>1. SortedList(l)
      BY <2>1
    <3> HIDE DEF l, lists
    <3>2. /\ Len(l) \in Nat /\ DOMAIN l = 1..Len(l)
          /\ \A x, y \in 1..Len(l) : x < y => l[x] < l[y]
          /\ \A x \in 1..Len(l) : l[x] \in Nat
      BY <3>1, SortedIsRising
    <3>3. j \in 1..Len(l) /\ k \in 1..Len(l)
      BY <3>2 DEF l
    <3>4. j < k \/ k < j
      BY <3>2, <3>3
    <3>5. l[j] < l[k] \/ l[k] < l[j]
      BY <3>2, <3>3, <3>4
    <3> QED
      BY <3>2, <3>3, <3>5 DEF l
  <2> HIDE DEF lists, N
  <2>4. \A h \in hits : h = <<h[1], h[2]>> /\ h[1] \in DOMAIN lists /\ h[2] \in DOMAIN lists[h[1]]
    OBVIOUS
  <2>5. \A i \in N : at(i) \in DOMAIN lists[i] /\ lists[i][at(i)] = p /\ i \in DOMAIN lists
    BY <2>2
  <2> HIDE DEF at
  <2>6. \A i \in N : <<i, at(i)>> \in of(p)
    BY <2>5
  <2>7. \A h \in of(p) : h[1] \in N /\ h = <<h[1], at(h[1])>>
    <3> SUFFICES ASSUME NEW h \in of(p) PROVE h[1] \in N /\ h = <<h[1], at(h[1])>>
      OBVIOUS
    <3>1. /\ h = <<h[1], h[2]>> /\ h[1] \in DOMAIN lists /\ h[2] \in DOMAIN lists[h[1]]
          /\ lists[h[1]][h[2]] = p
      BY <2>4
    <3>2. h[1] \in N
      BY <2>2, <3>1
    <3>3. h[2] = at(h[1])
      BY <2>3, <2>5, <3>1, <3>2
    <3> QED
      BY <3>1, <3>2, <3>3
  <2> DEFINE H == of(p)
  <2> HIDE DEF H
  <2>8. g \in Surjection(N, H)
    <3>1. g \in [N -> H]
      BY <2>6 DEF H
    <3>2. \A h \in H : \E i \in N : g[i] = h
      <4> SUFFICES ASSUME NEW h \in H PROVE \E i \in N : g[i] = h
        OBVIOUS
      <4>1. h[1] \in N /\ h = <<h[1], at(h[1])>>
        BY <2>7 DEF H
      <4>2. g[h[1]] = h
        BY <4>1
      <4> HIDE DEF g
      <4> QED
        BY <4>1, <4>2
    <3> HIDE DEF g
    <3> QED
      BY <3>1, <3>2 DEF Surjection
  <2>9. g \in Injection(N, H)
    <3>1. g \in [N -> H]
      BY <2>8 DEF Surjection
    <3>2. \A i, j \in N : g[i] = g[j] => i = j
      OBVIOUS
    <3> HIDE DEF g
    <3> QED
      BY <3>1, <3>2 DEF Injection, IsInjective
  <2>10. IsFiniteSet(N)
    BY NewItemsAreFew DEF N
  <2> HIDE DEF g
  <2>11. Cardinality(H) = Cardinality(N)
    BY <2>8, <2>9, <2>10, FS_Surjection
  <2> QED
    BY <2>11 DEF H, N
<1> HIDE DEF of, hits, lists
<1>3. \A p \in fit : count[p] = Cardinality(NewItems(data, q, p))
  BY <1>2
<1>4. \A p \in fit : count[p] > 0 <=> NewItems(data, q, p) # {}
  BY <1>3, NewItemsAreFew
<1> HIDE DEF count, counts
<1>5. DOMAIN counts = Candidates(data, q)
  BY <1>1, <1>4 DEF Candidates
<1>6. \A p \in DOMAIN counts : counts[p] = Cardinality(NewItems(data, q, p))
  BY <1>1, <1>3
<1> QED
  BY <1>5, <1>6 DEF counts

(* Counts of up to ten: some slot is the last one looked at. *)
LEMMA StopExists ==
  ASSUME NEW T, T \subseteq 1..MaxEquip, 1 \in T
  PROVE  \E n \in T : \A m \in n + 1..MaxEquip : m \notin T
<1> DEFINE U == {d \in 0..MaxEquip - 1 : MaxEquip - d \in T}
<1>1. PICK d \in U : \A y \in U : ~(y < d)
  <2>1. MaxEquip - 1 \in U /\ U \subseteq Nat
    BY DEF MaxEquip
  <2> HIDE DEF U
  <2> QED
    BY <2>1, Smallest
<1>2. MaxEquip - d \in T
  OBVIOUS
<1>3. ASSUME NEW m \in MaxEquip - d + 1..MaxEquip PROVE m \notin T
  <2>1. MaxEquip - m \in 0..MaxEquip - 1 /\ MaxEquip - m < d /\ MaxEquip - (MaxEquip - m) = m
    BY DEF MaxEquip
  <2> QED
    BY <1>1, <2>1
<1> QED
  BY <1>2, <1>3

(* What Right says, for targets that were found with these counts. *)
LEMMA BestAreRight ==
  ASSUME NEW data, Data(data), NEW q \in Questions,
         NEW best \in find_best(calc_per_player_count(data, Book(q), MaxOf[q]), data)
  PROVE  best \in Seq(ToSet(best)) /\ Right(q, best, {}, data)
<1> DEFINE found == Candidates(data, q)
           n(p) == Cardinality(NewItems(data, q, p))
           st(p) == Stats(data.info[p])
           target(p) == [player |-> p, count |-> n(p), stats |-> st(p)]
           counts == calc_per_player_count(data, Book(q), MaxOf[q])
           All == {target(p) : p \in found}
           raw == Raw(counts, data)
           from(m) == {e \in raw : e.count >= m}
           T == {m \in 1..MaxEquip : m = 1 \/ Cardinality(from(m)) >= Limit}
           Stops(m) == /\ m = 1 \/ Cardinality(from(m)) >= Limit
                       /\ \A l \in m + 1..MaxEquip : Cardinality(from(l)) < Limit
           stop == CHOOSE m \in 1..MaxEquip : Stops(m)
<1>1. DOMAIN counts = found /\ \A p \in found : counts[p] = n(p)
  BY CountsAreNewItems
<1>2. IsFiniteSet(found) /\ \A p \in found : n(p) \in 1..MaxEquip /\ st(p) \in Nat
  <2>1. \A p \in found : p \in DOMAIN data.info /\ NewItems(data, q, p) # {}
    BY DEF Candidates
  <2>2. found \subseteq DOMAIN data.info /\ IsFiniteSet(DOMAIN data.info)
    BY <2>1 DEF Data, Consistent
  <2>3. IsFiniteSet(found)
    BY <2>2, FS_Subset
  <2>4. ASSUME NEW p \in found PROVE n(p) \in 1..MaxEquip /\ st(p) \in Nat
    <3>1. n(p) \in 0..MaxEquip /\ n(p) > 0 /\ st(p) \in Nat
      BY <2>1, NewItemsAreFew
    <3> QED
      BY <3>1 DEF MaxEquip
  <2> QED
    BY <2>3, <2>4
<1> HIDE DEF found, n, st, counts
<1>3. raw = All
  <2>1. \A p \in found : Least(counts[p], MaxEquip) = n(p)
    BY <1>1, <1>2 DEF Least, MaxEquip
  <2>2. raw = {[player |-> p, count |-> Least(counts[p], MaxEquip),
                stats |-> Stats(data.info[p])] : p \in DOMAIN counts}
    BY DEF Raw
  <2> QED
    BY <1>1, <2>1, <2>2 DEF st
<1>4. /\ \A e \in raw : /\ e.player \in found /\ e.count = n(e.player)
                        /\ e.stats = st(e.player) /\ e = target(e.player)
                        /\ e.count \in 1..MaxEquip /\ e.stats \in Nat
      /\ \A p \in found : target(p) \in raw /\ target(p).player = p
  BY <1>2, <1>3
<1>5. \A d, e \in raw : d.player = e.player => d = e
  <2> HIDE DEF raw
  <2> QED
    BY <1>4
<1>6. IsFiniteSet(raw) /\ Cardinality(raw) = Cardinality(found)
  <2> DEFINE f == [p \in found |-> target(p)]
  <2> HIDE DEF raw, target
  <2>1. f \in [found -> raw]
    BY <1>4
  <2>2. \A e \in raw : \E p \in found : f[p] = e
    BY <1>4
  <2>3. \A p, r \in found : f[p] = f[r] => p = r
    BY <1>4
  <2> HIDE DEF f
  <2>4. f \in Surjection(found, raw) /\ f \in Injection(found, raw)
    BY <2>1, <2>2, <2>3 DEF Surjection, Injection, IsInjective
  <2> QED
    BY <1>2, <2>4, FS_Surjection
<1>7. find_best(counts, data) = {Truncated(s, Limit) : s \in Sortings(from(stop), Better)}
  BY DEF find_best
<1> HIDE DEF raw, target
<1>8. stop \in 1..MaxEquip /\ Stops(stop)
  <2>1. T \subseteq 1..MaxEquip /\ 1 \in T
    BY DEF MaxEquip
  <2> HIDE DEF from
  <2>2. \A m \in 1..MaxEquip : IsFiniteSet(from(m)) /\ Cardinality(from(m)) \in Nat
    <3> SUFFICES ASSUME NEW m \in 1..MaxEquip
                 PROVE  IsFiniteSet(from(m)) /\ Cardinality(from(m)) \in Nat
      OBVIOUS
    <3>1. from(m) \subseteq raw
      BY DEF from
    <3>2. IsFiniteSet(from(m))
      BY <1>6, <3>1, FS_Subset
    <3> QED
      BY <3>2, FS_CardinalityType
  <2>3. PICK m \in T : \A l \in m + 1..MaxEquip : l \notin T
    <3> HIDE DEF T
    <3> QED
      BY <2>1, StopExists
  <2>4. \A l \in m + 1..MaxEquip : Cardinality(from(l)) < Limit
    <3> SUFFICES ASSUME NEW l \in m + 1..MaxEquip PROVE Cardinality(from(l)) < Limit
      OBVIOUS
    <3>1. l \in 1..MaxEquip
      BY DEF MaxEquip
    <3> QED
      BY <2>2, <2>3, <3>1, Sizes
  <2>5. m \in 1..MaxEquip /\ Stops(m)
    BY <2>3, <2>4
  <2> HIDE DEF Stops
  <2> QED
    BY <2>5
<1> HIDE DEF stop
<1> DEFINE F == from(stop)
<1>9. /\ F \subseteq raw /\ IsFiniteSet(F) /\ Cardinality(F) \in Nat
      /\ Cardinality(F) <= Cardinality(raw)
      /\ F = {e \in raw : e.count >= stop}
  <2>1. F \subseteq raw /\ F = {e \in raw : e.count >= stop}
    OBVIOUS
  <2> HIDE DEF F
  <2> QED
    BY <1>6, <2>1, FS_Subset, FS_CardinalityType
<1>10. Cardinality(F) >= Limit \/ F = raw
  <2>1. CASE Cardinality(F) >= Limit
    BY <2>1
  <2>2. CASE stop = 1
    <3>1. \A e \in raw : e.count >= stop
      BY <1>4, <2>2
    <3> QED
      BY <3>1
  <2> QED
    BY <1>8, <2>1, <2>2
<1> HIDE DEF F, from, Stops, T
<1>11. PICK s \in SetToSeqs(F) : /\ \A j \in 1..Len(s) - 1 : Better(s[j], s[j + 1])
                                 /\ best = SubSeq(s, 1, Least(Limit, Len(s)))
  <2>1. PICK s \in Sortings(F, Better) : best = Truncated(s, Limit)
    BY <1>7 DEF F, counts
  <2> QED
    BY <2>1 DEF Sortings, Truncated
<1> DEFINE len == Len(s)
           b == Least(Limit, len)
<1>12. /\ s \in Seq(F) /\ len = Cardinality(F) /\ len \in Nat /\ DOMAIN s = 1..len
       /\ ToSet(s) = F /\ \A i, j \in 1..len : i # j => s[i] # s[j]
       /\ \A i \in 1..len : s[i] \in F
  BY <1>9, <1>11, SetSequence
<1>13. b \in 0..len /\ b \in Nat /\ b <= Limit
  BY <1>12, Sizes DEF Least
<1>14. /\ best \in Seq(F) /\ Len(best) = b /\ DOMAIN best = 1..b
       /\ \A j \in 1..b : best[j] = s[j] /\ j \in 1..len
  <2>1. /\ SubSeq(s, 1, b) \in Seq(F) /\ Len(SubSeq(s, 1, b)) = b
        /\ \A j \in 1..b : SubSeq(s, 1, b)[j] = s[j]
    BY <1>12, <1>13, Prefix
  <2> HIDE DEF b, len
  <2>2. \A j \in 1..b : j \in 1..len
    BY <1>12, <1>13
  <2> QED
    BY <1>11, <2>1, <2>2, LenProperties DEF b, len
<1>15. \A i, j \in 1..len : i < j => Better(s[i], s[j])
  <2> DEFINE R == {jk \in (1..len) \X (1..len) : Better(s[jk[1]], s[jk[2]])}
  <2>1. \A i \in 1..len : s[i].count \in Nat /\ s[i].stats \in Nat
    BY <1>4, <1>9, <1>12 DEF MaxEquip
  <2> HIDE DEF len
  <2>2. \A i, j, k \in 1..len : <<i, j>> \in R /\ <<j, k>> \in R => <<i, k>> \in R
    BY <2>1 DEF Better
  <2>3. \A j \in 1..len - 1 : <<j, j + 1>> \in R
    BY <1>11, <1>12 DEF len
  <2> HIDE DEF R
  <2>4. \A i, j \in 1..len : i < j => <<i, j>> \in R
    BY <1>12, <2>2, <2>3, Neighbours
  <2> QED
    BY <2>4 DEF R
<1> HIDE DEF len, b
<1> DEFINE named == {best[k].player : k \in DOMAIN best}
           players == [k \in 1..b |-> best[k].player]
<1>16. named \subseteq found
  BY <1>4, <1>9, <1>12, <1>14
<1>17. Cardinality(named) = Len(best)
  <2>1. players \in Seq(found) /\ Len(players) = b /\ DOMAIN players = 1..b
    <3>1. players \in [1..b -> found]
      BY <1>16, <1>14
    <3> HIDE DEF players
    <3>2. players \in Seq(found)
      BY <1>13, <3>1, IsASeq
    <3> QED
      BY <1>13, <3>1, <3>2, LenProperties
  <2>2. \A i, j \in 1..Len(players) : i < j => players[i] # players[j]
    <3> SUFFICES ASSUME NEW i \in 1..b, NEW j \in 1..b, i < j PROVE best[i].player # best[j].player
      BY <2>1
    <3>1. s[i] # s[j] /\ s[i] \in raw /\ s[j] \in raw /\ best[i] = s[i] /\ best[j] = s[j]
      BY <1>9, <1>12, <1>13, <1>14
    <3> QED
      BY <1>5, <3>1
  <2>3. ToSet(players) = named
    BY <1>14, <2>1 DEF ToSet
  <2> HIDE DEF players, named
  <2> QED
    BY <1>14, <2>1, <2>2, <2>3, Distinct
<1>18. Len(best) = Least(Limit, Cardinality(found))
  <2>1. Cardinality(found) \in Nat /\ Cardinality(F) <= Cardinality(found)
    BY <1>2, <1>6, <1>9, FS_CardinalityType
  <2>2. Cardinality(F) >= Limit \/ Cardinality(F) = Cardinality(found)
    BY <1>6, <1>10
  <2>3. b = IF Limit < Cardinality(F) THEN Limit ELSE Cardinality(F)
    BY <1>12 DEF b, Least
  <2>4. b = IF Limit < Cardinality(found) THEN Limit ELSE Cardinality(found)
    BY <1>9, <2>1, <2>2, <2>3, Sizes
  <2> QED
    BY <1>14, <2>4 DEF Least
<1>19. ASSUME NEW k \in DOMAIN best
       PROVE  /\ best[k].count = n(best[k].player)
              /\ \A o \in found : Beats(data, q, o, best[k].player) =>
                   \E j \in 1..k - 1 : best[j].player = o
  <2>1. k \in 1..b /\ k \in 1..len /\ best[k] = s[k] /\ s[k] \in F /\ s[k] \in raw
    BY <1>9, <1>12, <1>14
  <2>2. /\ s[k].count = n(s[k].player) /\ s[k].stats = st(s[k].player)
        /\ s[k].count \in Nat /\ s[k].stats \in Nat
    BY <1>4, <2>1 DEF MaxEquip
  <2>3. ASSUME NEW o \in found, Beats(data, q, o, best[k].player)
        PROVE  \E j \in 1..k - 1 : best[j].player = o
    <3> DEFINE e == target(o)
    <3>1. /\ e \in raw /\ e.player = o /\ e.count = n(o) /\ e.stats = st(o)
          /\ e.count \in Nat /\ e.stats \in Nat
      BY <1>4 DEF MaxEquip
    <3> HIDE DEF e
    <3>2. e.count > s[k].count \/ (e.count = s[k].count /\ e.stats < s[k].stats)
      BY <2>1, <2>2, <2>3, <3>1 DEF Beats, n, st
    <3>3. s[k].count >= stop
      BY <1>9, <2>1
    <3>4. e.count >= stop
      BY <1>8, <2>2, <3>1, <3>2, <3>3 DEF MaxEquip
    <3>5. e \in F
      BY <1>9, <3>1, <3>4
    <3>6. PICK j \in 1..len : s[j] = e
      BY <1>12, <3>5 DEF ToSet
    <3>7. ~(k < j)
      <4>1. ~Better(s[k], s[j])
        BY <2>2, <3>1, <3>2, <3>6 DEF Better
      <4> QED
        BY <1>15, <2>1, <4>1
    <3>8. j # k
      BY <2>2, <3>1, <3>2, <3>6
    <3>9. j \in 1..k - 1 /\ j \in 1..b
      BY <1>12, <1>13, <2>1, <3>7, <3>8
    <3> QED
      BY <1>14, <3>1, <3>6, <3>9
  <2> QED
    BY <2>1, <2>2, <2>3
<1>20. \A i, j \in 1..b : best[i].player = best[j].player => i = j
  <2>1. best \in Seq(F)
    BY <1>14
  <2>2. \A i, j \in 1..b : i < j => best[i].player # best[j].player
    <3>1. Cardinality(PlayersIn(best)) = Len(best)
      BY <1>17 DEF PlayersIn
    <3> HIDE DEF named
    <3> QED
      BY <1>14, <2>1, <3>1, PlayersOfPlaces
  <2>3. \A i, j \in 1..b : i < j \/ j < i \/ i = j
    BY <1>13
  <2> QED
    BY <2>2, <2>3
<1>21. \A p \in named : \A o \in found : Beats(data, q, o, p) => o \in named
  <2>1. \A k \in 1..b : \A j \in 1..k - 1 : j \in 1..b
    BY <1>13
  <2> QED
    BY <1>14, <1>19, <2>1
<1>22. ASSUME NEW k \in DOMAIN best, NEW j \in DOMAIN best,
              Beats(data, q, best[j].player, best[k].player)
       PROVE  j < k
  <2>1. best[j].player \in found
    BY <1>16
  <2>2. PICK i \in 1..k - 1 : best[i].player = best[j].player
    BY <1>19, <1>22, <2>1
  <2>3. i \in 1..b /\ j \in 1..b /\ k \in 1..b /\ i < k
    BY <1>13, <1>14
  <2> QED
    BY <1>20, <2>2, <2>3
<1>23. best \in Seq(ToSet(best))
  <2>1. best \in [1..b -> ToSet(best)]
    <3>1. best \in [1..b -> F]
      BY <1>14
    <3> QED
      BY <1>14, <3>1 DEF ToSet
  <2> QED
    BY <1>13, <2>1, IsASeq
<1>24. Len(best) + Cardinality({}) = Len(best)
  BY <1>13, <1>14, FS_EmptySet
<1> HIDE DEF named
<1>25. named \cup {} = named /\ named \cap {} = {}
  OBVIOUS
<1>26. /\ named \cup {} \subseteq found /\ named \cap {} = {}
       /\ Cardinality(named) = Len(best)
       /\ Len(best) + Cardinality({}) = Least(Limit, Cardinality(found))
       /\ \A p \in named \cup {} : \A o \in found : Beats(data, q, o, p) => o \in named \cup {}
  BY <1>16, <1>17, <1>18, <1>21, <1>24, <1>25
<1>27. PlayersIn(best) = named
  BY DEF PlayersIn, named
<1>28. Right(q, best, {}, data)
  BY <1>19, <1>22, <1>26, <1>27 DEF Right, found, n
<1> QED
  BY <1>23, <1>28

-----------------------------------------------------------------------------
(* What requests share *)

(* The ages are numbers, handlers are finitely many and None is not one. *)
LEMMA Constants ==
  /\ IsFiniteSet(Handlers) /\ None \notin Handlers
  /\ ResultAge \in Nat /\ ServersAge \in Nat /\ MaxWork \in Nat
  /\ BookKind \in [Questions -> {"good", "absent", "refused", "unparsable"}]
  /\ \A q \in Questions : Book(q) # None
BY AdviceAssumption DEF Book

USE Constants

-----------------------------------------------------------------------------
(* The inductive invariant *)

ReqFields == {"at", "kind", "about", "data", "best", "unnamed", "version", "crossed",
              "stored", "asked"}
Labels == {"idle", "done", "lookup", "lock", "insert", "load", "names", "store", "slot",
           "count"}
Active(r) == req[r].at \notin {"idle", "done"}

Shape ==
  /\ DOMAIN req = Handlers
  /\ \A r \in Handlers :
       /\ DOMAIN req[r] = ReqFields /\ req[r].at \in Labels /\ req[r].crossed \in BOOLEAN
       /\ req[r].version \in Nat /\ req[r].version <= version
       /\ req[r].kind = "targets" /\ Active(r) => req[r].about \in Questions

(* Time and batches only go up, and nothing comes from later ones. *)
Numbers ==
  /\ now \in Nat /\ version \in Nat
  /\ servers # None => servers \in Nat
  /\ \A q \in Questions : results[q] # None =>
       /\ results[q].stored \in Nat
       /\ results[q].version \in Nat /\ results[q].version <= version

(* Who waits for the cache of answers has read the time before. *)
Stamped ==
  \A r \in Handlers : req[r].at = "store" =>
    req[r].kind = "targets" /\ req[r].stored \in Nat /\ req[r].stored <= now

(* Whoever has a lock has it for what is still missing. *)
Locks ==
  \A r \in Handlers :
    /\ req[r].at = "insert" => writer = r /\ ~known
    /\ req[r].at = "count" => /\ counter = r
                              /\ servers # None => servers + ServersAge <= now

(* As long as no other request stored an answer to the same question, what *)
(* was stored before is old, and of no later data.                         *)
Uncrossed ==
  \A r \in Handlers :
    Active(r) /\ req[r].kind = "targets" /\ ~req[r].crossed
      /\ results[req[r].about] # None =>
        /\ results[req[r].about].stored + ResultAge <= now
        /\ req[r].at \in {"names", "store"} =>
             results[req[r].about].version <= req[r].version

Books == {None} \cup {Book(q) : q \in Questions}
Slot == [by : Handlers \cup {None}, book : Books]
Naming(r) == req[r].at = "names" /\ req[r].kind = "targets"

(* Exactly who waits for the names of targets holds a state, and one. *)
Held ==
  /\ \A j, k \in DOMAIN pool : pool[j].by = pool[k].by /\ pool[j].by # None => j = k
  /\ \A k \in DOMAIN pool : pool[k].by # None => Naming(pool[k].by)
  /\ \A r \in Handlers : Naming(r) => \E k \in DOMAIN pool : pool[k].by = r

Pool ==
  /\ pool \in Seq(Slot)
  /\ Len(pool) <= Cardinality(Handlers)
  /\ Held

IInv == Shape /\ Numbers /\ Stamped /\ Locks /\ Uncrossed /\ Pool

-----------------------------------------------------------------------------
(* What the actions do to the requests *)

Others(r) == DOMAIN req' = Handlers /\ \A h \in Handlers : h # r => req'[h] = req[h]

Went(r, at) ==
  /\ Others(r)
  /\ DOMAIN req'[r] = ReqFields
  /\ req'[r].at = at /\ req'[r].kind = req[r].kind /\ req'[r].about = req[r].about
  /\ req'[r].crossed = req[r].crossed

Ended(r) == Others(r) /\ req'[r] = Idle

Began(r, kind, about, at) ==
  /\ Others(r)
  /\ DOMAIN req'[r] = ReqFields
  /\ req'[r].at = at /\ req'[r].kind = kind /\ req'[r].about = about
  /\ req'[r].crossed = FALSE /\ req'[r].version = 0

LEMMA IdleFields ==
  /\ DOMAIN Idle = ReqFields /\ Idle.at = "idle" /\ Idle.crossed = FALSE /\ Idle.version = 0
BY DEF Idle, ReqFields

(* A request that ends. *)
LEMMA Ends ==
  ASSUME Shape, NEW r \in Handlers, req' = [req EXCEPT ![r] = Idle]
  PROVE  Ended(r)
BY DEF Shape, Ended, Others

(* A request that goes on to its next step. *)
LEMMA Goes ==
  ASSUME Shape, NEW r \in Handlers, NEW at, req' = [req EXCEPT ![r].at = at]
  PROVE  Went(r, at) /\ req'[r].version = req[r].version
BY DEF Shape, Went, Others, ReqFields

LEMMA Starts ==
  ASSUME Shape, NEW r \in Handlers, NEW kind, NEW about, NEW at,
         Start(r, kind, about, at)
  PROVE  Began(r, kind, about, at)
BY DEF Shape, Start, Began, Others, ReqFields, Idle

LEMMA AnswersFromCache ==
  ASSUME Shape, NEW r \in Handlers, NEW q \in Questions, AnswerFromCache(r, q)
  PROVE  Began(r, "targets", q, "done")
BY DEF Shape, AnswerFromCache, Began, Others, ReqFields, Idle

(* What CalcTargets does. *)
Got(r, u) ==
  IF u.book = None
  THEN pool' = PoolWith(Taken, None, u.left) /\ Went(r, "store") /\ req'[r].version = version
       /\ req'[r].stored = now
  ELSE pool' = PoolWith(Taken, r, u.left) /\ Went(r, "names") /\ req'[r].version = version

LEMMA FindsBest ==
  ASSUME Shape, Numbers, NEW r \in Handlers, NEW best, NEW data,
         req' = WithBest(r, best, data)
  PROVE  Went(r, "names") /\ req'[r].version = version
BY DEF Shape, WithBest, Went, Others, ReqFields

LEMMA FindsNothing ==
  ASSUME Shape, Numbers, NEW r \in Handlers, req' = WithNothing(r)
  PROVE  Went(r, "store") /\ req'[r].version = version /\ req'[r].stored = now
BY DEF Shape, WithNothing, Went, Others, ReqFields

LEMMA FindsNames ==
  ASSUME Shape, NEW r \in Handlers, NEW at, NEW unnamed, req' = WithNames(r, at, unnamed)
  PROVE  Went(r, at) /\ req'[r].version = req[r].version /\ req'[r].stored = now
BY DEF Shape, WithNames, Went, Others, ReqFields

LEMMA Targets ==
  ASSUME Shape, Numbers, NEW r \in Handlers, CalcTargets(r)
  PROVE  \/ pool' = pool /\ Ended(r)
         \/ \E u \in Updated(req[r].about, Left(Taken)) : Got(r, u)
<1>1. CASE ~scrap.cached
  BY <1>1, Ends DEF CalcTargets
<1>2. CASE scrap.cached
  <2>1. PICK u \in Updated(req[r].about, Left(Taken)) :
          IF u.book = None
          THEN /\ pool' = PoolWith(Taken, None, u.left)
               /\ req' = WithNothing(r)
          ELSE /\ pool' = PoolWith(Taken, r, u.left)
               /\ \E best \in find_best(calc_per_player_count(scrap, u.book,
                                          MaxOf[req[r].about]), scrap) :
                    req' = WithBest(r, best, scrap)
    BY <1>2, Zenon DEF CalcTargets
  <2>2. ASSUME u.book = None PROVE Got(r, u)
    <3>1. req' = WithNothing(r) /\ pool' = PoolWith(Taken, None, u.left)
      BY <2>1, <2>2
    <3> QED
      BY <2>2, <3>1, FindsNothing DEF Got
  <2>3. ASSUME u.book # None PROVE Got(r, u)
    <3>1. PICK best : req' = WithBest(r, best, scrap)
      BY <2>1, <2>3
    <3>2. Went(r, "names") /\ req'[r].version = version
      BY <3>1, FindsBest
    <3>3. pool' = PoolWith(Taken, r, u.left)
      BY <2>1, <2>3
    <3> QED
      BY <2>3, <3>2, <3>3 DEF Got
  <2>4. Got(r, u)
    BY <2>2, <2>3
  <2> QED
    BY <2>4
<1> QED
  BY <1>1, <1>2

LEMMA Nudes ==
  ASSUME Shape, Numbers, NEW r \in Handlers, CalcNude(r)
  PROVE  \/ Ended(r)
         \/ Went(r, "names") /\ req'[r].version = version
<1>1. CASE nudes = None
  BY <1>1, Ends DEF CalcNude
<1>2. CASE nudes # None
  <2>1. PICK best : req' = WithBest(r, best, nudes)
    BY <1>2 DEF CalcNude
  <2> QED
    BY <2>1, FindsBest
<1> QED
  BY <1>1, <1>2

(* The others are told that an answer to their question was stored. *)
Told(r) ==
  /\ DOMAIN req' = Handlers
  /\ req'[r] = Idle
  /\ \A h \in Handlers : h # r =>
       /\ DOMAIN req'[h] = ReqFields
       /\ req'[h].at = req[h].at /\ req'[h].kind = req[h].kind
       /\ req'[h].about = req[h].about /\ req'[h].version = req[h].version
       /\ req'[h].stored = req[h].stored
       /\ req'[h].crossed = (req[h].crossed \/ (req[h].at # "done"
                                                /\ req[h].about = req[r].about))

LEMMA Tells ==
  ASSUME Shape, NEW r \in Handlers, StoreTargets(r)
  PROVE  Told(r)
BY DEF Shape, StoreTargets, Told, ReqFields

-----------------------------------------------------------------------------
(* Steps of one request preserve the invariant *)

(* Steps in the background: time passes, a batch is applied, the           *)
(* connection is made.                                                     *)
LEMMA Background ==
  ASSUME IInv, UNCHANGED <<known, writer, pool, results, roster, req>>,
         now' \in Nat, now' >= now, version' \in Nat, version' >= version
  PROVE  IInv'
<1>1. UNCHANGED <<servers, counter>>
  BY DEF roster
<1>2. Shape'
  BY DEF IInv, Shape, Numbers, Active
<1>3. Numbers'
  BY <1>1 DEF IInv, Numbers
<1>4. Locks'
  BY <1>1 DEF IInv, Locks, Numbers
<1>5. Uncrossed'
  BY DEF IInv, Uncrossed, Numbers, Shape, Active
<1>6. Pool'
  BY DEF IInv, Pool, Held, Naming
<1>7. Stamped'
  BY DEF IInv, Stamped, Numbers
<1> QED
  BY <1>2, <1>3, <1>4, <1>5, <1>6, <1>7 DEF IInv

(* A step of one request, which reads the time if it goes to the cache. *)
LEMMA StampedKeeps ==
  ASSUME IInv, NEW r \in Handlers, Others(r), now' = now,
         req'[r].at = "store" => req'[r].kind = "targets" /\ req'[r].stored = now
  PROVE  Stamped'
<1> SUFFICES ASSUME NEW h \in Handlers, req'[h].at = "store"
             PROVE  req'[h].kind = "targets" /\ req'[h].stored \in Nat /\ req'[h].stored <= now'
  BY DEF Stamped
<1>1. CASE h = r
  BY <1>1 DEF IInv, Numbers
<1>2. CASE h # r
  BY <1>2 DEF IInv, Stamped, Others
<1> QED
  BY <1>1, <1>2

LEMMA Slots ==
  ASSUME Pool
  PROVE  /\ Len(pool) \in Nat /\ DOMAIN pool = 1..Len(pool)
         /\ \A k \in DOMAIN pool : pool[k] \in Slot /\ pool[k].by \in Handlers \cup {None}
<1>1. pool \in Seq(Slot)
  BY DEF Pool
<1>2. Len(pool) \in Nat /\ DOMAIN pool = 1..Len(pool)
  BY <1>1, LenProperties
<1>3. \A k \in DOMAIN pool : pool[k] \in Slot
  BY <1>1, <1>2, ElementOfSeq
<1> QED
  BY <1>2, <1>3 DEF Slot

(* A step in which nobody gets a state or gives it back. *)
LEMMA KeptPool ==
  ASSUME IInv, pool' = pool, \A h \in Handlers : Naming(h)' <=> Naming(h)
  PROVE  Pool'
<1>1. \A k \in DOMAIN pool : pool[k].by \in Handlers \cup {None}
  BY Slots DEF IInv
<1>2. Held'
  BY <1>1 DEF IInv, Pool, Held
<1> QED
  BY <1>2 DEF IInv, Pool

LEMMA SamePool ==
  ASSUME IInv, NEW r \in Handlers, Others(r), pool' = pool, ~Naming(r), ~Naming(r)'
  PROVE  Pool'
<1>1. \A h \in Handlers : Naming(h)' <=> Naming(h)
  BY DEF Others, Naming
<1> QED
  BY <1>1, KeptPool

(* A step in which only one request's clause of Uncrossed can change. *)
LEMMA SameResults ==
  ASSUME IInv, NEW r \in Handlers, Others(r), results' = results, now' = now,
         version' = version, servers' # None => servers' \in Nat,
         Active(r)' /\ req'[r].kind = "targets" /\ ~req'[r].crossed
           /\ results[req'[r].about] # None =>
             /\ results[req'[r].about].stored + ResultAge <= now
             /\ req'[r].at \in {"names", "store"} =>
                  results[req'[r].about].version <= req'[r].version
  PROVE  Numbers' /\ Uncrossed'
<1>1. Numbers'
  BY DEF IInv, Numbers
<1>2. Uncrossed'
  <2> SUFFICES ASSUME NEW h \in Handlers, h # r,
                      Active(h)', req'[h].kind = "targets", ~req'[h].crossed,
                      results'[req'[h].about] # None
               PROVE  /\ results'[req'[h].about].stored + ResultAge <= now'
                      /\ req'[h].at \in {"names", "store"} =>
                           results'[req'[h].about].version <= req'[h].version
    BY DEF Uncrossed
  <2>1. req'[h] = req[h]
    BY DEF Others
  <2> QED
    BY <2>1 DEF IInv, Uncrossed, Active
<1> QED
  BY <1>1, <1>2

(* A request is asked, or answered from the cache. *)
LEMMA Beginning ==
  ASSUME IInv, NEW r \in Handlers, NEW kind, NEW about, NEW at \in {"lookup", "slot", "done"},
         Began(r, kind, about, at), req[r].at \in {"idle", "done"},
         UNCHANGED <<store, ids, pool, results, roster, now>>,
         kind = "targets" => about \in Questions,
         kind = "targets" /\ at # "done" => ~Fresh(about)
  PROVE  IInv'
<1> USE DEF store, ids, roster
<1>1. Shape'
  <2> SUFFICES ASSUME NEW h \in Handlers
               PROVE  /\ DOMAIN req'[h] = ReqFields /\ req'[h].at \in Labels
                      /\ req'[h].crossed \in BOOLEAN
                      /\ req'[h].version \in Nat /\ req'[h].version <= version'
                      /\ req'[h].kind = "targets" /\ Active(h)' => req'[h].about \in Questions
    BY DEF Shape, Began, Others
  <2>1. CASE h = r
    <3>1. DOMAIN req'[h] = ReqFields /\ req'[h].at \in Labels
      BY <2>1 DEF Began, Labels
    <3>2. req'[h].crossed \in BOOLEAN
      BY <2>1 DEF Began
    <3>3. req'[h].version \in Nat /\ req'[h].version <= version'
      BY <2>1 DEF Began, IInv, Numbers
    <3>4. req'[h].kind = "targets" => req'[h].about \in Questions
      BY <2>1 DEF Began
    <3> QED
      BY <3>1, <3>2, <3>3, <3>4
  <2>2. CASE h # r
    BY <2>2 DEF IInv, Shape, Began, Others, Active
  <2> QED
    BY <2>1, <2>2
<1>2. Locks'
  BY DEF IInv, Locks, Began, Others
<1>3. Pool'
  BY SamePool DEF Began, Naming
<1>4. Active(r)' /\ req'[r].kind = "targets" /\ results[req'[r].about] # None =>
        results[req'[r].about].stored + ResultAge <= now
  BY DEF Began, Active, Fresh, IInv, Numbers
<1>5. Numbers' /\ Uncrossed'
  BY <1>4, SameResults DEF Began, IInv, Numbers
<1>6. Stamped'
  BY StampedKeeps DEF Began
<1> QED
  BY <1>1, <1>2, <1>3, <1>5, <1>6 DEF IInv

(* A request goes on without a state and without an answer. *)
LEMMA Going ==
  ASSUME IInv, NEW r \in Handlers, NEW at \in Labels \ {"idle", "done", "names", "store"},
         Went(r, at), req'[r].version = req[r].version,
         req[r].at \in Labels \ {"idle", "done", "names", "store"},
         UNCHANGED <<store, pool, results, servers, now>>,
         Locks'
  PROVE  IInv'
<1> USE DEF store
<1>1. Shape'
  BY DEF IInv, Shape, Numbers, Went, Others, Active
<1>2. Pool'
  BY SamePool DEF Went, Naming
<1>3. Numbers' /\ Uncrossed'
  BY SameResults DEF Went, IInv, Numbers, Uncrossed, Active
<1>4. Stamped'
  BY StampedKeeps DEF Went
<1> QED
  BY <1>1, <1>2, <1>3, <1>4 DEF IInv

(* A request that is over, and had no state or gave it back. *)
LEMMA Ending ==
  ASSUME IInv, NEW r \in Handlers, Ended(r), Locks', Pool',
         UNCHANGED <<store, results, now>>, servers' # None => servers' \in Nat
  PROVE  IInv'
<1> USE DEF store
<1>1. Shape'
  <2> SUFFICES ASSUME NEW h \in Handlers
               PROVE  /\ DOMAIN req'[h] = ReqFields /\ req'[h].at \in Labels
                      /\ req'[h].crossed \in BOOLEAN
                      /\ req'[h].version \in Nat /\ req'[h].version <= version'
                      /\ req'[h].kind = "targets" /\ Active(h)' => req'[h].about \in Questions
    BY DEF Shape, Ended, Others
  <2>1. CASE h = r
    <3>1. req'[h] = Idle
      BY <2>1 DEF Ended
    <3> QED
      <4>1. DOMAIN req'[h] = ReqFields /\ req'[h].at = "idle"
        BY <3>1, IdleFields
      <4>2. req'[h].crossed \in BOOLEAN
        BY <3>1, IdleFields
      <4>3. req'[h].version \in Nat /\ req'[h].version <= version'
        BY <3>1, IdleFields DEF IInv, Numbers
      <4> QED
        BY <4>1, <4>2, <4>3 DEF Labels, Active
  <2>2. CASE h # r
    BY <2>2 DEF IInv, Shape, Ended, Others, Active
  <2> QED
    BY <2>1, <2>2
<1>2. Numbers' /\ Uncrossed'
  BY SameResults, IdleFields DEF Ended, Active
<1>3. Stamped'
  BY StampedKeeps, IdleFields DEF Ended
<1> QED
  BY <1>1, <1>2, <1>3 DEF IInv

-----------------------------------------------------------------------------
(* The pool of game states *)

LEMMA SlotsMakePool ==
  ASSUME NEW n \in Nat, NEW f, DOMAIN f = 1..n, f = [k \in 1..n |-> f[k]],
         \A k \in 1..n : f[k] \in Slot
  PROVE  f \in Seq(Slot) /\ Len(f) = n
<1>1. f \in [1..n -> Slot]
  OBVIOUS
<1>2. f \in Seq(Slot)
  BY <1>1, SeqDef
<1> QED
  BY <1>2, LenProperties

(* get_gamestate finds a state nobody holds, or makes one. *)
LEMMA TakenIsFree ==
  ASSUME Pool
  PROVE  \/ Taken \in DOMAIN pool /\ pool[Taken].by = None
         \/ Taken = Len(pool) + 1 /\ \A k \in DOMAIN pool : pool[k].by # None
<1>1. CASE \E k \in DOMAIN pool : Free(k)
  <2> DEFINE T == {k \in DOMAIN pool : Free(k)}
  <2>1. DOMAIN pool = 1..Len(pool) /\ Len(pool) \in Nat
    BY Slots
  <2>2. PICK x \in T : \A y \in T : ~(y < x)
    <3>1. T \subseteq Nat /\ T # {}
      BY <1>1, <2>1
    <3> HIDE DEF T
    <3> QED
      BY <3>1, Smallest
  <2>3. \A j \in 1..x - 1 : j \in DOMAIN pool /\ j < x
    BY <2>1, <2>2
  <2>4. x \in DOMAIN pool /\ Free(x) /\ \A j \in 1..x - 1 : ~Free(j)
    BY <2>2, <2>3
  <2>5. Taken = CHOOSE k \in DOMAIN pool : Free(k) /\ \A j \in 1..k - 1 : ~Free(j)
    BY <1>1 DEF Taken
  <2>6. Taken \in DOMAIN pool /\ Free(Taken)
    BY <2>4, <2>5, Zenon
  <2> QED
    BY <2>6 DEF Free
<1>2. CASE ~\E k \in DOMAIN pool : Free(k)
  BY <1>2 DEF Taken, Free
<1> QED
  BY <1>1, <1>2

(* When all states are held, someone who holds none is one more. *)
LEMMA AllHeld ==
  ASSUME Pool, NEW r \in Handlers, ~Naming(r), \A k \in DOMAIN pool : pool[k].by # None
  PROVE  Len(pool) + 1 <= Cardinality(Handlers)
<1> DEFINE H == Handlers \ {r}
           f == [k \in 1..Len(pool) |-> pool[k].by]
<1>1. Len(pool) \in Nat /\ DOMAIN pool = 1..Len(pool)
  BY Slots
<1>2. \A k \in 1..Len(pool) : pool[k].by \in H
  BY <1>1, Slots DEF Pool, Held
<1>3. \A j, k \in 1..Len(pool) : pool[j].by = pool[k].by => j = k
  BY <1>1 DEF Pool, Held
<1>4. f \in Injection(1..Len(pool), H)
  BY <1>2, <1>3 DEF Injection, IsInjective
<1>5. IsFiniteSet(H) /\ Cardinality(H) = Cardinality(Handlers) - 1
  BY FS_RemoveElement
<1>6. Cardinality(1..Len(pool)) <= Cardinality(H)
  <2> HIDE DEF H, f
  <2> QED
    BY <1>4, <1>5, FS_Injection
<1>7. Cardinality(1..Len(pool)) = Len(pool)
  BY <1>1, FS_Interval
<1>8. Cardinality(Handlers) \in Nat
  BY FS_CardinalityType
<1> QED
  BY <1>1, <1>5, <1>6, <1>7, <1>8

(* The state taken is held by the request, or already free again. *)
LEMMA Takes ==
  ASSUME IInv, NEW r \in Handlers, ~Naming(r), Others(r), NEW by \in {r, None},
         NEW book \in Books, pool' = PoolWith(Taken, by, book),
         Naming(r)' <=> by = r
  PROVE  Pool'
<1> DEFINE n == IF Taken \in DOMAIN pool THEN Len(pool) ELSE Len(pool) + 1
<1>1. Len(pool) \in Nat /\ DOMAIN pool = 1..Len(pool)
  BY Slots DEF IInv
<1>2. /\ Taken \in 1..n /\ n \in Nat /\ DOMAIN pool \cup {Taken} = 1..n
      /\ n <= Cardinality(Handlers)
      /\ Taken \in DOMAIN pool => pool[Taken].by = None
  <2>1. CASE Taken \in DOMAIN pool /\ pool[Taken].by = None
    BY <1>1, <2>1 DEF IInv, Pool
  <2>2. CASE Taken = Len(pool) + 1 /\ \A k \in DOMAIN pool : pool[k].by # None
    BY <1>1, <2>2, AllHeld DEF IInv
  <2> QED
    BY <2>1, <2>2, TakenIsFree DEF IInv
<1> HIDE DEF n
<1>3. pool' = [j \in 1..n |-> IF j = Taken THEN [by |-> by, book |-> book] ELSE pool[j]]
  BY <1>2 DEF PoolWith
<1>4. /\ DOMAIN pool' = 1..n
      /\ pool'[Taken] = [by |-> by, book |-> book]
      /\ \A k \in 1..n : k # Taken => k \in DOMAIN pool /\ pool'[k] = pool[k]
  BY <1>2, <1>3
<1>5. \A k \in 1..n : pool'[k] \in Slot
  BY <1>4, Slots DEF IInv, Slot
<1>6. pool' \in Seq(Slot) /\ Len(pool') = n
  BY <1>2, <1>3, <1>4, <1>5, SlotsMakePool
<1>7. Held'
  <2>1. \A h \in Handlers : h # r => (Naming(h)' <=> Naming(h))
    BY DEF Others, Naming
  <2>2. \A k \in DOMAIN pool : pool[k].by # r
    BY DEF IInv, Pool, Held
  <2>3. pool'[Taken].by = by
    BY <1>4
  <2>4. \A k \in DOMAIN pool : pool[k].by \in Handlers \cup {None}
    BY Slots DEF IInv
  <2>5. ASSUME NEW j \in DOMAIN pool', NEW k \in DOMAIN pool',
               pool'[j].by = pool'[k].by, pool'[j].by # None
        PROVE  j = k
    BY <1>4, <2>2, <2>3, <2>5 DEF IInv, Pool, Held
  <2>6. ASSUME NEW k \in DOMAIN pool', NEW v, v = pool'[k].by, v # None
        PROVE  Naming(v)'
    <3>1. CASE k = Taken
      BY <2>3, <2>6, <3>1
    <3>2. CASE k # Taken
      BY <1>4, <2>1, <2>2, <2>4, <2>6, <3>2 DEF IInv, Pool, Held
    <3> QED
      BY <3>1, <3>2
  <2>7. ASSUME NEW h \in Handlers, Naming(h)'
        PROVE  \E k \in DOMAIN pool' : pool'[k].by = h
    <3>1. CASE h = r
      BY <1>2, <1>4, <2>3, <2>7, <3>1
    <3>2. CASE h # r
      <4>1. PICK k \in DOMAIN pool : pool[k].by = h
        BY <2>1, <2>7, <3>2 DEF IInv, Pool, Held
      <4>2. k # Taken /\ k \in 1..n
        BY <1>2, <4>1
      <4> QED
        BY <1>4, <4>1, <4>2
    <3> QED
      BY <3>1, <3>2
  <2> QED
    BY <2>5, <2>6, <2>7 DEF Held, Naming
<1> QED
  BY <1>2, <1>6, <1>7 DEF Pool

(* A guard is dropped, by one who waits for names or who waits no more. *)
LEMMA Releases ==
  ASSUME IInv, NEW r \in Handlers, pool' = Released(r), ~Naming(r)',
         \A h \in Handlers : h # r => (Naming(h)' <=> Naming(h))
  PROVE  Pool'
<1>1. Len(pool) \in Nat /\ DOMAIN pool = 1..Len(pool)
  BY Slots DEF IInv
<1>2. \A k \in DOMAIN pool : pool[k] \in Slot /\ pool[k].by \in Handlers \cup {None}
  BY Slots DEF IInv
<1>3. DOMAIN pool' = DOMAIN pool /\ pool' = [k \in 1..Len(pool) |-> pool'[k]]
  BY <1>1 DEF Released
<1>4. \A k \in DOMAIN pool :
        /\ pool'[k] \in Slot
        /\ pool'[k].by = IF pool[k].by = r THEN None ELSE pool[k].by
  BY <1>2 DEF Released, Slot
<1>5. pool' \in Seq(Slot) /\ Len(pool') = Len(pool)
  BY <1>1, <1>3, <1>4, SlotsMakePool
<1>6. Held'
  BY <1>2, <1>3, <1>4 DEF IInv, Pool, Held
<1> QED
  BY <1>5, <1>6 DEF IInv, Pool

(* Whatever a question leaves in a state is a scrapbook or nothing. *)
LEMMA LeavesABook ==
  ASSUME Pool, NEW q \in Questions, NEW u \in Updated(q, Left(Taken))
  PROVE  u.left \in Books
<1>1. Left(Taken) \in Books
  BY Slots DEF Left, Books, Slot
<1>2. BookKind[q] \in {"good", "absent", "refused", "unparsable"}
  OBVIOUS
<1>3. Book(q) \in Books /\ None \in Books
  BY DEF Books
<1>4. CASE BookKind[q] = "unparsable"
  BY <1>1, <1>4 DEF Updated
<1>5. CASE BookKind[q] = "refused"
  BY <1>3, <1>5 DEF Updated, Reset
<1>6. CASE BookKind[q] = "absent"
  BY <1>3, <1>6 DEF Updated
<1>7. CASE BookKind[q] = "good"
  BY <1>3, <1>7 DEF Updated
<1> QED
  BY <1>2, <1>4, <1>5, <1>6, <1>7

-----------------------------------------------------------------------------
(* Every action preserves the invariant *)

LEMMA AskKeeps ==
  ASSUME IInv, NEW r \in Handlers, Request(r)
  PROVE  IInv'
<1>1. ASSUME NEW kind, NEW about, NEW at \in {"lookup", "slot"}, Start(r, kind, about, at),
             kind = "targets" => about \in Questions /\ ~Fresh(about)
      PROVE  IInv'
  <2>1. Began(r, kind, about, at)
    BY <1>1, Starts DEF IInv
  <2>2. /\ UNCHANGED <<store, ids, pool, results, roster, now>>
        /\ req[r].at \in {"idle", "done"}
    BY <1>1 DEF Start
  <2> QED
    BY <1>1, <2>1, <2>2, Beginning
<1>2. ASSUME NEW q \in Questions, AnswerFromCache(r, q) PROVE IInv'
  <2>1. Began(r, "targets", q, "done")
    BY <1>2, AnswersFromCache DEF IInv
  <2>2. /\ UNCHANGED <<store, ids, pool, results, roster, now>>
        /\ req[r].at \in {"idle", "done"}
    BY <1>2 DEF AnswerFromCache
  <2> QED
    BY <2>1, <2>2, Beginning
<1>3. ASSUME NEW q \in Questions, Ask(r, q) PROVE IInv'
  BY <1>1, <1>3 DEF Ask
<1>4. ASSUME NEW m \in Strengths, AskNude(r, m) PROVE IInv'
  BY <1>1, <1>4 DEF AskNude
<1>5. ASSUME AskServers(r) PROVE IInv'
  BY <1>1, <1>5 DEF AskServers
<1> QED
  BY <1>2, <1>3, <1>4, <1>5 DEF Request

LEMMA FailKeeps ==
  ASSUME IInv, NEW r \in Handlers, Fail(r)
  PROVE  IInv'
<1>1. Ended(r)
  BY Ends DEF Fail, IInv
<1>2. Locks'
  BY <1>1, IdleFields DEF Fail, IInv, Locks, Ended, Others, clock
<1>3. Pool'
  BY <1>1, IdleFields, Releases DEF Fail, Ended, Others, Naming
<1>4. UNCHANGED <<store, results, now>> /\ (servers' # None => servers' \in Nat)
  BY DEF Fail, IInv, Numbers, clock
<1> QED
  BY <1>1, <1>2, <1>3, <1>4, Ending

(* The lookup of the server's id, with its lock. *)
LEMMA LookupKeeps ==
  ASSUME IInv, NEW r \in Handlers, ReadLookup(r) \/ WriteLookup(r) \/ InsertServer(r)
  PROVE  IInv'
<1> USE DEF ids, roster, clock
<1>1. CASE ReadLookup(r)
  <2> DEFINE at == IF known THEN "load" ELSE "lock"
  <2>1. Went(r, at) /\ req'[r].version = req[r].version
    BY <1>1, Goes DEF ReadLookup, IInv
  <2>2. Locks'
    BY <1>1, <2>1 DEF ReadLookup, IInv, Locks, Went, Others
  <2> QED
    BY <1>1, <2>1, <2>2, Going DEF ReadLookup, Labels
<1>2. CASE WriteLookup(r)
  <2> DEFINE at == IF known THEN "load" ELSE "insert"
  <2>1. Went(r, at) /\ req'[r].version = req[r].version
    BY <1>2, Goes DEF WriteLookup, IInv
  <2>2. \A h \in Handlers : req[h].at # "insert"
    BY <1>2 DEF WriteLookup, IInv, Locks
  <2>3. Locks'
    BY <1>2, <2>1, <2>2 DEF WriteLookup, IInv, Locks, Went, Others
  <2> QED
    BY <1>2, <2>1, <2>3, Going DEF WriteLookup, Labels
<1>3. CASE InsertServer(r)
  <2>1. Went(r, "load") /\ req'[r].version = req[r].version
    BY <1>3, Goes DEF InsertServer, IInv
  <2>2. \A h \in Handlers : h # r => req[h].at # "insert"
    BY <1>3 DEF InsertServer, IInv, Locks
  <2>3. Locks'
    BY <1>3, <2>1, <2>2 DEF InsertServer, IInv, Locks, Went, Others
  <2> QED
    BY <1>3, <2>1, <2>3, Going DEF InsertServer, Labels
<1> QED
  BY <1>1, <1>2, <1>3

(* Steps that leave the locks and what they protect alone. *)
LEMMA NoLocks ==
  ASSUME IInv, NEW r \in Handlers, UNCHANGED <<ids, roster, clock>>,
         req'[r].at \notin {"insert", "count"},
         \A h \in Handlers : h # r => req'[h].at = req[h].at
  PROVE  Locks'
BY DEF IInv, Locks, ids, roster, clock

(* A request gets its answer: the best, their names, or nothing. *)
LEMMA Answering ==
  ASSUME IInv, NEW r \in Handlers, NEW at \in {"names", "store", "done"}, Went(r, at),
         Active(r), at = "store" => req[r].kind = "targets" /\ req'[r].stored = now,
         \/ req'[r].version = version
         \/ req[r].at = "names" /\ req'[r].version = req[r].version,
         UNCHANGED <<store, ids, results, roster, clock>>, Pool'
  PROVE  IInv'
<1> USE DEF store, ids, roster, clock
<1>1. Others(r)
  BY DEF Went
<1>2. Locks'
  BY NoLocks DEF Went, Others
<1>3. Shape'
  <2> SUFFICES ASSUME NEW h \in Handlers
               PROVE  /\ DOMAIN req'[h] = ReqFields /\ req'[h].at \in Labels
                      /\ req'[h].crossed \in BOOLEAN
                      /\ req'[h].version \in Nat /\ req'[h].version <= version'
                      /\ req'[h].kind = "targets" /\ Active(h)' => req'[h].about \in Questions
    BY <1>1 DEF Shape, Others
  <2>1. CASE h = r
    <3>1. req'[h].version \in Nat /\ req'[h].version <= version'
      BY <2>1 DEF IInv, Shape, Numbers
    <3>2. /\ DOMAIN req'[h] = ReqFields /\ req'[h].at \in Labels /\ req'[h].crossed \in BOOLEAN
          /\ req'[h].kind = "targets" => req'[h].about \in Questions
      BY <2>1 DEF IInv, Shape, Went, Labels
    <3> QED
      BY <3>1, <3>2
  <2>2. CASE h # r
    BY <1>1, <2>2 DEF IInv, Shape, Others, Active
  <2> QED
    BY <2>1, <2>2
<1>4. Stamped'
  BY <1>1, StampedKeeps DEF Went
<1>5. Numbers' /\ Uncrossed'
  <2>1. Active(r)' /\ req'[r].kind = "targets" /\ ~req'[r].crossed
          /\ results[req'[r].about] # None =>
            /\ results[req'[r].about].stored + ResultAge <= now
            /\ results[req'[r].about].version <= req'[r].version
    BY DEF IInv, Shape, Uncrossed, Numbers, Went
  <2>2. servers' # None => servers' \in Nat
    BY DEF IInv, Numbers
  <2> QED
    BY <1>1, <2>1, <2>2, SameResults
<1> QED
  BY <1>2, <1>3, <1>4, <1>5 DEF IInv

LEMMA CalcTargetsKeeps ==
  ASSUME IInv, NEW r \in Handlers, CalcTargets(r)
  PROVE  IInv'
<1>1. UNCHANGED <<store, ids, results, roster, clock, servers, now, version>>
  BY DEF CalcTargets, roster, clock, store
<1>2. /\ req[r].at = "load" /\ req[r].kind = "targets" /\ req[r].about \in Questions
      /\ ~Naming(r) /\ Active(r)
  BY DEF CalcTargets, IInv, Shape, Naming, Active
<1>3. servers' # None => servers' \in Nat
  BY <1>1 DEF IInv, Numbers
<1>4. ASSUME Ended(r), Pool' PROVE IInv'
  <2>1. Locks'
    BY <1>1, <1>4, NoLocks, IdleFields DEF Ended, Others
  <2> QED
    BY <1>1, <1>3, <1>4, <2>1, Ending
<1>5. CASE pool' = pool /\ Ended(r)
  <2>1. Pool'
    BY <1>2, <1>5, SamePool, IdleFields DEF Ended, Naming
  <2> QED
    BY <1>4, <1>5, <2>1
<1>6. ASSUME NEW u \in Updated(req[r].about, Left(Taken)), Got(r, u) PROVE IInv'
  <2>1. u.left \in Books
    BY <1>2, LeavesABook DEF IInv
  <2>2. CASE u.book = None
    <3>1. /\ Went(r, "store") /\ req'[r].version = version /\ req'[r].stored = now
          /\ pool' = PoolWith(Taken, None, u.left)
      BY <1>6, <2>2 DEF Got
    <3>2. ~Naming(r)' /\ Others(r) /\ None # r
      BY <3>1 DEF Went, Naming
    <3>3. Pool'
      BY <1>2, <2>1, <3>1, <3>2, Takes
    <3> QED
      BY <1>1, <1>2, <3>1, <3>3, Answering
  <2>3. CASE u.book # None
    <3>1. Went(r, "names") /\ req'[r].version = version /\ pool' = PoolWith(Taken, r, u.left)
      BY <1>6, <2>3 DEF Got
    <3>2. Naming(r)' /\ Others(r)
      BY <1>2, <3>1 DEF Went, Naming
    <3>3. Pool'
      BY <1>2, <2>1, <3>1, <3>2, Takes
    <3> QED
      BY <1>1, <1>2, <3>1, <3>3, Answering
  <2> QED
    BY <2>2, <2>3
<1> QED
  BY <1>5, <1>6, Targets DEF IInv

(* The names are there and the state is given back. *)
LEMMA AnswerTargetsKeeps ==
  ASSUME IInv, NEW r \in Handlers, AnswerTargets(r)
  PROVE  IInv'
<1>1. /\ UNCHANGED <<store, ids, results, roster, clock>> /\ pool' = Released(r)
      /\ req[r].at = "names" /\ req[r].kind = "targets" /\ Active(r)
  BY DEF AnswerTargets, Active
<1>2. PICK unnamed : req' = WithNames(r, "store", unnamed)
  BY DEF AnswerTargets
<1>3. Went(r, "store") /\ req'[r].version = req[r].version /\ req'[r].stored = now
  BY <1>2, FindsNames DEF IInv
<1>4. Pool'
  BY <1>1, <1>3, Releases DEF Went, Others, Naming
<1> QED
  BY <1>1, <1>3, <1>4, Answering

(* The answer is stored, and those who ask the same are told. *)
LEMMA StoreTargetsKeeps ==
  ASSUME IInv, NEW r \in Handlers, StoreTargets(r)
  PROVE  IInv'
<1>1. UNCHANGED <<store, ids, pool, roster, clock, servers, now, version>>
  BY DEF StoreTargets, roster, clock, store
<1>2. /\ req[r].at = "store" /\ req[r].kind = "targets" /\ req[r].about \in Questions
      /\ req[r].stored \in Nat /\ req[r].stored <= now
  BY DEF StoreTargets, IInv, Shape, Stamped, Active
<1>3. Told(r)
  BY Tells DEF IInv
<1>4. req'[r].at = "idle" /\ \A h \in Handlers : h # r => req'[h].at = req[h].at
  BY <1>3, IdleFields DEF Told
<1>5. ASSUME NEW q \in Questions
      PROVE  \/ /\ q = req[r].about /\ results'[q].stored = req[r].stored
                /\ results'[q].version = req[r].version
             \/ q # req[r].about /\ results'[q] \in {None, results[q]}
  BY DEF StoreTargets
<1>6. Shape'
  <2> SUFFICES ASSUME NEW h \in Handlers
               PROVE  /\ DOMAIN req'[h] = ReqFields /\ req'[h].at \in Labels
                      /\ req'[h].crossed \in BOOLEAN
                      /\ req'[h].version \in Nat /\ req'[h].version <= version'
                      /\ req'[h].kind = "targets" /\ Active(h)' => req'[h].about \in Questions
    BY <1>3 DEF Shape, Told
  <2>1. CASE h = r
    <3>1. req'[h] = Idle
      BY <1>3, <2>1 DEF Told
    <3>2. DOMAIN req'[h] = ReqFields /\ req'[h].at = "idle"
      BY <3>1, IdleFields
    <3>3. req'[h].crossed \in BOOLEAN
      BY <3>1, IdleFields
    <3>4. req'[h].version \in Nat /\ req'[h].version <= version'
      BY <1>1, <3>1, IdleFields DEF IInv, Numbers
    <3> QED
      BY <3>2, <3>3, <3>4 DEF Labels, Active
  <2>2. CASE h # r
    BY <1>1, <1>3, <2>2 DEF IInv, Shape, Told, Active
  <2> QED
    BY <2>1, <2>2
<1>7. Numbers'
  BY <1>1, <1>2, <1>5 DEF IInv, Numbers, Shape
<1>8. Locks'
  BY <1>1, <1>4, NoLocks
<1>9. Uncrossed'
  <2> SUFFICES ASSUME NEW h \in Handlers, Active(h)', req'[h].kind = "targets",
                      ~req'[h].crossed, results'[req'[h].about] # None
               PROVE  /\ results'[req'[h].about].stored + ResultAge <= now'
                      /\ req'[h].at \in {"names", "store"} =>
                           results'[req'[h].about].version <= req'[h].version
    BY DEF Uncrossed
  <2>1. h # r
    BY <1>4 DEF Active
  <2>2. /\ Active(h) /\ req[h].kind = "targets" /\ ~req[h].crossed
        /\ req[h].about # req[r].about /\ req[h].about \in Questions
    BY <1>3, <2>1 DEF Told, Active, IInv, Shape
  <2>3. results'[req[h].about] = results[req[h].about] /\ req'[h].about = req[h].about
    BY <1>3, <1>5, <2>1, <2>2 DEF Told
  <2> QED
    BY <1>1, <1>3, <2>1, <2>2, <2>3 DEF IInv, Uncrossed, Told
<1>10. Pool'
  BY <1>1, <1>2, <1>3, <1>4, KeptPool DEF Naming, Told
<1>11. Stamped'
  <2> SUFFICES ASSUME NEW h \in Handlers, req'[h].at = "store"
               PROVE  req'[h].kind = "targets" /\ req'[h].stored \in Nat /\ req'[h].stored <= now'
    BY DEF Stamped
  <2>1. h # r
    BY <1>4
  <2> QED
    BY <1>1, <1>3, <2>1 DEF IInv, Stamped, Told
<1> QED
  BY <1>6, <1>7, <1>8, <1>9, <1>10, <1>11 DEF IInv

LEMMA NudeKeeps ==
  ASSUME IInv, NEW r \in Handlers, CalcNude(r) \/ AnswerNude(r)
  PROVE  IInv'
<1>1. /\ UNCHANGED <<store, ids, pool, results, roster, clock, servers, now, version>>
      /\ req[r].kind = "nude" /\ ~Naming(r) /\ Active(r)
  BY DEF CalcNude, AnswerNude, roster, clock, store, Naming, Active
<1>2. servers' # None => servers' \in Nat
  BY <1>1 DEF IInv, Numbers
<1>3. ASSUME Ended(r) PROVE IInv'
  <2>1. Locks'
    BY <1>1, <1>3, NoLocks, IdleFields DEF Ended, Others
  <2>2. Pool'
    BY <1>1, <1>3, SamePool, IdleFields DEF Ended, Naming
  <2> QED
    BY <1>1, <1>2, <1>3, <2>1, <2>2, Ending
<1>4. ASSUME NEW at \in {"names", "done"}, Went(r, at),
             \/ req'[r].version = version
             \/ req[r].at = "names" /\ req'[r].version = req[r].version
      PROVE  IInv'
  <2>1. Others(r) /\ ~Naming(r)'
    BY <1>1, <1>4 DEF Went, Naming
  <2>2. Pool'
    BY <1>1, <2>1, SamePool
  <2> QED
    BY <1>1, <1>4, <2>2, Answering
<1>5. CASE AnswerNude(r)
  <2>1. PICK unnamed : req' = WithNames(r, "done", unnamed)
    BY <1>5 DEF AnswerNude
  <2>2. req[r].at = "names" /\ Went(r, "done") /\ req'[r].version = req[r].version
    BY <1>5, <2>1, FindsNames DEF AnswerNude, IInv
  <2> QED
    BY <1>4, <2>2
<1> QED
  BY <1>3, <1>4, <1>5, Nudes DEF IInv

(* The list of servers, with its mutex. *)
LEMMA ServersKeep ==
  ASSUME IInv, NEW r \in Handlers, LockServers(r) \/ CountServers(r)
  PROVE  IInv'
<1> USE DEF clock
<1>1. CASE LockServers(r)
  <2>1. UNCHANGED <<store, ids, pool, results, servers, clock, now>> /\ ~Naming(r)
    BY <1>1 DEF LockServers, Naming
  <2>2. \A h \in Handlers : req[h].at # "count"
    BY <1>1 DEF LockServers, IInv, Locks
  <2>3. CASE servers # None /\ servers + ServersAge > now
    <3>1. Ended(r)
      BY <1>1, <2>3, Ends DEF LockServers, IInv
    <3>2. Locks'
      BY <2>1, <2>2, <3>1, IdleFields DEF IInv, Locks, Ended, Others, ids
    <3>3. Pool'
      BY <2>1, <3>1, SamePool, IdleFields DEF Ended, Naming
    <3> QED
      BY <2>1, <3>1, <3>2, <3>3, Ending DEF IInv, Numbers
  <2>4. CASE ~(servers # None /\ servers + ServersAge > now)
    <3>1. counter' = r /\ Went(r, "count") /\ req'[r].version = req[r].version
      BY <1>1, <2>4, Goes DEF LockServers, IInv
    <3>2. servers # None => servers + ServersAge <= now
      BY <2>4 DEF IInv, Numbers
    <3>3. Locks'
      BY <2>1, <2>2, <3>1, <3>2 DEF IInv, Locks, Went, Others, ids
    <3> QED
      BY <1>1, <2>1, <3>1, <3>3, Going DEF LockServers, Labels
  <2> QED
    BY <2>3, <2>4
<1>2. CASE CountServers(r)
  <2>1. UNCHANGED <<store, ids, pool, results, clock, now>> /\ ~Naming(r) /\ Ended(r)
    BY <1>2, Ends DEF CountServers, Naming, IInv
  <2>2. \A h \in Handlers : h # r => req[h].at # "count"
    BY <1>2 DEF CountServers, IInv, Locks
  <2>3. Locks'
    BY <1>2, <2>1, <2>2, IdleFields DEF CountServers, IInv, Locks, Ended, Others, ids
  <2>4. Pool'
    BY <2>1, SamePool, IdleFields DEF Ended, Naming
  <2>5. servers' \in Nat
    BY <1>2 DEF CountServers, IInv, Numbers
  <2> QED
    BY <2>1, <2>3, <2>4, <2>5, Ending
<1> QED
  BY <1>1, <1>2

LEMMA InitIInv == Init => IInv
<1> SUFFICES ASSUME Init PROVE IInv
  OBVIOUS
<1>1. \A r \in Handlers : req[r] = Idle
  BY DEF Init
<1>2. Shape
  <2>1. DOMAIN req = Handlers
    BY DEF Init
  <2>2. ASSUME NEW r \in Handlers
        PROVE  /\ DOMAIN req[r] = ReqFields /\ req[r].at = "idle" /\ req[r].crossed \in BOOLEAN
               /\ req[r].version \in Nat /\ req[r].version <= version
    <3>1. req[r] = Idle /\ version = 0
      BY <1>1 DEF Init
    <3>2. DOMAIN req[r] = ReqFields /\ req[r].at = "idle"
      BY <3>1, IdleFields
    <3>3. req[r].crossed \in BOOLEAN
      BY <3>1, IdleFields
    <3>4. req[r].version \in Nat /\ req[r].version <= version
      BY <3>1, IdleFields
    <3> QED
      BY <3>2, <3>3, <3>4
  <2> QED
    BY <2>1, <2>2 DEF Shape, Labels, Active
<1>3. Numbers /\ Stamped /\ Locks /\ Uncrossed
  BY <1>1, IdleFields DEF Init, Numbers, Stamped, Locks, Uncrossed, Active
<1>4. pool \in Seq(Slot) /\ Len(pool) = 0 /\ DOMAIN pool = {}
  BY EmptySeq DEF Init
<1>5. Cardinality(Handlers) \in Nat
  BY FS_CardinalityType
<1>6. Held
  BY <1>1, <1>4, IdleFields DEF Held, Naming
<1>7. Pool
  BY <1>4, <1>5, <1>6 DEF Pool
<1> QED
  BY <1>2, <1>3, <1>7 DEF IInv

LEMMA StepIInv ==
  ASSUME IInv, [Next]_vars
  PROVE  IInv'
<1> USE DEF store, ids, roster, clock
<1> now \in Nat /\ version \in Nat
  BY DEF IInv, Numbers
<1>1. ASSUME NEW b \in Batches, UpdateUnderworld(b) PROVE IInv'
  <2>1. UNCHANGED <<scrap, version, ids, pool, results, roster, req, now>>
    BY <1>1, Zenon DEF UpdateUnderworld
  <2> QED
    BY <2>1, Background
<1>2. ASSUME UpdateScrapbook PROVE IInv'
  BY <1>2, Background DEF UpdateScrapbook
<1>3. ASSUME NEW r \in Handlers, Connect(r) PROVE IInv'
  BY <1>3, Background DEF Connect
<1>4. ASSUME Tick PROVE IInv'
  BY <1>4, Background DEF Tick
<1>5. ASSUME UNCHANGED vars PROVE IInv'
  BY <1>5, Background DEF vars
<1>6. ASSUME NEW r \in Handlers, Work(r) PROVE IInv'
  BY <1>3, <1>6, FailKeeps, LookupKeeps, CalcTargetsKeeps, AnswerTargetsKeeps,
     StoreTargetsKeeps, NudeKeeps, ServersKeep DEF Work
<1> QED
  BY <1>1, <1>2, <1>4, <1>5, <1>6, AskKeeps DEF Next, Quiet

THEOREM InvariantHolds == Spec => []IInv
<1>1. Init => IInv
  BY InitIInv
<1>2. IInv /\ [Next]_vars => IInv'
  BY StepIInv
<1> QED
  BY <1>1, <1>2, PTL DEF Spec

-----------------------------------------------------------------------------
(* What users and the database are promised *)

(* However many requests find a server unknown or the list of servers old, *)
(* one asks the database, and nobody asks for what has been answered.      *)
THEOREM TheDatabaseIsAskedOnce == Spec => []AskedOnce
<1>1. IInv => AskedOnce
  BY DEF IInv, Locks, AskedOnce
<1> QED
  BY <1>1, InvariantHolds, PTL

(* Whoever waits for names has one game state and shares it with nobody,   *)
(* and there are never more states than handlers of requests.              *)
THEOREM GameStatesAreReused == Spec => []StatesAreReused
<1>1. IInv => StatesAreReused
  <2> SUFFICES ASSUME IInv PROVE StatesAreReused
    OBVIOUS
  <2>1. ASSUME NEW r \in Handlers, req[r].kind = "targets"
        PROVE  Cardinality({k \in DOMAIN pool : pool[k].by = r}) =
                 IF req[r].at = "names" THEN 1 ELSE 0
    <3> DEFINE Own == {k \in DOMAIN pool : pool[k].by = r}
    <3>1. CASE req[r].at = "names"
      <4>1. PICK k \in DOMAIN pool : pool[k].by = r
        BY <2>1, <3>1 DEF IInv, Pool, Held, Naming
      <4>2. Own = {k}
        BY <4>1 DEF IInv, Pool, Held
      <4> QED
        BY <3>1, <4>2, FS_Singleton
    <3>2. CASE req[r].at # "names"
      <4>1. Own = {}
        BY <3>2 DEF IInv, Pool, Held, Naming
      <4> QED
        BY <3>2, <4>1, FS_EmptySet
    <3> QED
      BY <3>1, <3>2
  <2> QED
    BY <2>1 DEF IInv, Pool, StatesAreReused
<1> QED
  BY <1>1, InvariantHolds, PTL

(* What RenewedOnlyByOverlap says of one question. *)
Replaced(q) ==
  results[q] # None /\ results'[q] # results[q] =>
    \/ /\ results[q].stored + ResultAge <= now
       /\ results'[q] # None => results'[q].version >= results[q].version
    \/ \E r \in Handlers : /\ req[r].at = "store" /\ req[r].about = q /\ req[r].crossed
                            /\ req'[r].at = "idle"

LEMMA OnlyStoringChangesResults ==
  ASSUME [Next]_vars, \A r \in Handlers : ~StoreTargets(r)
  PROVE  results' = results
<1>1. ASSUME NEW b \in Batches, UpdateUnderworld(b) PROVE results' = results
  BY <1>1, Zenon DEF UpdateUnderworld
<1>2. UpdateScrapbook \/ Tick \/ UNCHANGED vars => results' = results
  BY DEF UpdateScrapbook, Tick, vars
<1>3. ASSUME NEW h \in Handlers, Request(h) PROVE results' = results
  <2>1. ASSUME NEW kind, NEW about, NEW at, Start(h, kind, about, at)
        PROVE  results' = results
    BY <2>1 DEF Start
  <2>2. ASSUME NEW p \in Questions, Ask(h, p) \/ AnswerFromCache(h, p)
        PROVE  results' = results
    BY <2>1, <2>2 DEF Ask, AnswerFromCache
  <2>3. ASSUME NEW m \in Strengths, AskNude(h, m) PROVE results' = results
    BY <2>1, <2>3 DEF AskNude
  <2> QED
    BY <1>3, <2>1, <2>2, <2>3 DEF Request, AskServers
<1>4. ASSUME NEW h \in Handlers, CalcTargets(h) PROVE results' = results
  BY <1>4, Zenon DEF CalcTargets
<1>5. ASSUME NEW h \in Handlers, CalcNude(h) PROVE results' = results
  BY <1>5, Zenon DEF CalcNude
<1>6. ASSUME NEW h \in Handlers, Work(h) PROVE results' = results
  BY <1>4, <1>5, <1>6 DEF Work, Connect, Fail, ReadLookup, WriteLookup, InsertServer,
     AnswerTargets, AnswerNude, LockServers, CountServers, clock
<1> QED
  BY <1>1, <1>2, <1>3, <1>6 DEF Next, Quiet

(* An answer of the last hour, or one of later data, gives way only to a   *)
(* request that was under way when it was stored; this holds of every      *)
(* change to the cache, the empty answers to unusable scrapbooks and what  *)
(* is thrown away included.                                                *)
THEOREM AnswersAreRenewedByOverlap == Spec => RenewedOnlyByOverlap
<1>1. ASSUME IInv, [Next]_vars, NEW q \in Questions PROVE Replaced(q)
  <2> SUFFICES ASSUME results[q] # None, results'[q] # results[q]
               PROVE  \/ /\ results[q].stored + ResultAge <= now
                         /\ results'[q] # None => results'[q].version >= results[q].version
                      \/ \E r \in Handlers : /\ req[r].at = "store" /\ req[r].about = q
                                              /\ req[r].crossed /\ req'[r].at = "idle"
    BY DEF Replaced
  <2>1. PICK h \in Handlers : StoreTargets(h)
    BY <1>1, OnlyStoringChangesResults
  <2>2. Told(h) /\ req'[h].at = "idle"
    BY <1>1, <2>1, Tells, IdleFields DEF IInv, Told
  <2>3. /\ req[h].at = "store" /\ req[h].kind = "targets" /\ Active(h)
        /\ req[h].stored \in Nat /\ req[h].stored <= now /\ req[h].crossed \in BOOLEAN
        /\ now \in Nat
    BY <1>1, <2>1 DEF StoreTargets, IInv, Shape, Stamped, Numbers, Active
  <2>4. /\ results[q].stored \in Nat /\ results[q].version \in Nat
        /\ req[h].version \in Nat
    BY <1>1 DEF IInv, Numbers, Shape
  <2>5. CASE q = req[h].about
    <3>1. results'[q].version = req[h].version
      BY <2>1, <2>5 DEF StoreTargets
    <3>2. CASE req[h].crossed
      BY <2>2, <2>3, <2>5, <3>2
    <3>3. CASE ~req[h].crossed
      <4>1. /\ results[q].stored + ResultAge <= now
            /\ results[q].version <= req[h].version
        BY <1>1, <2>3, <2>5, <3>3 DEF IInv, Uncrossed
      <4> QED
        BY <2>4, <3>1, <4>1
    <3> QED
      BY <3>2, <3>3
  <2>6. CASE q # req[h].about
    <3>1. results'[q] = None /\ Old(q, req[h].stored)
      BY <2>1, <2>6 DEF StoreTargets
    <3>2. results[q].stored + ResultAge <= req[h].stored
      BY <3>1 DEF Old
    <3>3. results[q].stored + ResultAge <= now
      BY <2>3, <2>4, <3>2
    <3> QED
      BY <3>1, <3>3
  <2> QED
    BY <2>5, <2>6
<1>2. IInv /\ [Next]_vars => \A q \in Questions : Replaced(q)
  BY <1>1
<1>3. Spec => [][\A q \in Questions : Replaced(q)]_vars
  BY <1>2, InvariantHolds, PTL DEF Spec
<1> QED
  BY <1>3, PTL DEF RenewedOnlyByOverlap, Replaced

-----------------------------------------------------------------------------
(* The inductive invariant of the caches and the answers *)

(* The caches hold sorted lists of the players of batches. *)
Caches ==
  /\ Data(scrap)
  /\ nudes # None => ByStats(nudes)
  /\ applying \in Batches \cup {None}

Types ==
  /\ connected \in BOOLEAN /\ known \in BOOLEAN
  /\ writer \in Handlers \cup {None} /\ counter \in Handlers \cup {None}
  /\ now \in Nat /\ work \in Nat /\ now <= work /\ work <= MaxWork
  /\ servers \in 0..now \cup {None}

(* A request whose answer, once found, is the right one; before it is      *)
(* found nobody is proposed, and before the names are there nobody is left *)
(* out.  Only scrapbooks the game understands get as far as the names.     *)
Correct(x) ==
  /\ x.at \notin {"names", "store", "done"} => x.best = <<>> /\ x.unnamed = {}
  /\ x.at = "names" => x.unnamed = {} /\ \E T : x.best \in Seq(T)
  /\ x.kind = "nude" /\ x.at # "idle" => x.about \in Strengths
  /\ x.kind = "nude" /\ x.at \in {"names", "done"} =>
       NudeRight(x.best, x.unnamed, x.data, x.about)
  /\ x.kind = "targets" /\ x.at \in {"names", "store", "done"} => Answer(x, x.about)
  /\ x.kind = "targets" /\ x.at = "names" => BookKind[x.about] = "good"
  /\ x.kind = "targets" /\ x.at = "done" => x.asked < x.stored + ResultAge

Answers ==
  /\ \A r \in Handlers : Correct(req[r])
  /\ \A q \in Questions : results[q] # None => Answer(results[q], q)

AnswersInv == IInv /\ Caches /\ Types /\ Answers

-----------------------------------------------------------------------------
(* The caches *)

LEMMA NudeMapIs ==
  ASSUME Caches
  PROVE  /\ IsFiniteSet(DOMAIN NudeMap)
         /\ \A p \in DOMAIN NudeMap : p \in Nat /\ NudeMap[p] \in Contents
<1>1. CASE nudes = None
  <2>1. NudeMap = [p \in {} |-> None]
    BY <1>1 DEF NudeMap, NoMap
  <2>2. DOMAIN NudeMap = {}
    BY <2>1
  <2> QED
    BY <2>2, FS_EmptySet
<1>2. CASE nudes # None
  <2>1. NudeMap = MapOf(nudes)
    BY <1>2 DEF NudeMap, MapOf
  <2>2. ByStats(nudes)
    BY <1>2 DEF Caches
  <2> QED
    BY <2>1, <2>2, NudesMap
<1> QED
  BY <1>1, <1>2

(* A batch reaches the list of nude players. *)
LEMMA ListsNudes ==
  ASSUME Caches, NEW b \in Batches, UpdateUnderworld(b)
  PROVE  /\ ByStats(nudes') /\ NudeMap' = NudeAfter(NudeMap, b)
         /\ applying' = b /\ scrap' = scrap
<1> DEFINE after == NudeAfter(NudeMap, b)
           S == {[player |-> p, as |-> after[p]] : p \in DOMAIN after}
<1>1. PICK s \in SetToSeqs(S) : /\ \A j \in 1..Len(s) - 1 : Stats(s[j].as) >= Stats(s[j + 1].as)
                                /\ nudes' = s
  <2>1. \E s \in Sortings(S, LAMBDA d, e : Stats(d.as) >= Stats(e.as)) : nudes' = s
    BY Zenon DEF UpdateUnderworld
  <2> QED
    BY <2>1, Zenon DEF Sortings
<1>2. applying' = b /\ scrap' = scrap
  BY Zenon DEF UpdateUnderworld
<1>3. /\ IsFiniteSet(DOMAIN NudeMap)
      /\ \A p \in DOMAIN NudeMap : p \in Nat /\ NudeMap[p] \in Contents
  BY NudeMapIs
<1> DEFINE old == NudeMap
<1>4. /\ IsFiniteSet(DOMAIN after) /\ after = [p \in DOMAIN after |-> after[p]]
      /\ \A p \in DOMAIN after : p \in Nat /\ after[p] \in Contents
  <2>1. IsFiniteSet(DOMAIN old) /\ \A p \in DOMAIN old : p \in Nat /\ old[p] \in Contents
    BY <1>3
  <2> HIDE DEF old
  <2>2. /\ IsFiniteSet(DOMAIN NudeAfter(old, b))
        /\ NudeAfter(old, b) = [p \in DOMAIN NudeAfter(old, b) |-> NudeAfter(old, b)[p]]
        /\ \A p \in DOMAIN NudeAfter(old, b) : p \in Nat /\ NudeAfter(old, b)[p] \in Contents
    BY <2>1, NudesAfter
  <2> QED
    BY <2>2 DEF old
<1> HIDE DEF after
<1>5. ByStats(s) /\ MapOf(s) = after
  BY <1>1, <1>4, SortedNudes
<1>6. nudes' # None
  <2>1. nudes' \in Seq([player : Nat, as : Contents])
    BY <1>1, <1>5 DEF ByStats, Entries
  <2> QED
    BY <2>1, AdviceAssumption
<1>7. NudeMap' = MapOf(nudes')
  BY <1>6 DEF NudeMap, MapOf
<1> QED
  BY <1>1, <1>2, <1>5, <1>7 DEF after

(* ... and then the scrapbook cache. *)
LEMMA FillsScrapbook ==
  ASSUME Caches, UpdateScrapbook
  PROVE  /\ applying \in Batches /\ applying' = None /\ nudes' = nudes
         /\ scrap'.info = InfoAfter(scrap.info, applying)
         /\ Index(scrap'.equipment) = IndexAfter(Index(scrap.equipment), applying)
         /\ Data(scrap)'
<1>1. applying \in Batches
  BY DEF UpdateScrapbook, Caches
<1>2. PICK order \in SetToSeqs(DOMAIN applying) :
        scrap' = update_scrapbook_cache(scrap, applying, order)
  BY DEF UpdateScrapbook
<1> DEFINE new == update_scrapbook_cache(scrap, applying, order)
<1>3. /\ new.info = InfoAfter(scrap.info, applying)
      /\ Index(new.equipment) = IndexAfter(Index(scrap.equipment), applying)
      /\ \A i \in DOMAIN new.equipment : Array(new.equipment[i])
  <2>1. \A i \in DOMAIN scrap.equipment : Array(scrap.equipment[i])
    BY DEF Caches, Data
  <2> QED
    BY <1>1, <2>1, UpdatedCache
<1>4. Consistent(new.info, Index(new.equipment))
  <2> DEFINE info == scrap.info
             index == Index(scrap.equipment)
  <2>1. Consistent(info, index)
    BY DEF Caches, Data
  <2> HIDE DEF info, index
  <2>2. Consistent(InfoAfter(info, applying), IndexAfter(index, applying))
    BY <1>1, <2>1, StaysConsistent
  <2> QED
    BY <1>3, <2>2 DEF info, index
<1>5. Data(new)
  BY <1>3, <1>4 DEF Data
<1>6. applying' = None /\ nudes' = nudes
  BY DEF UpdateScrapbook
<1>7. scrap' = new
  BY <1>2
<1> HIDE DEF new
<1>8. Data(scrap)'
  BY <1>5, <1>7
<1> QED
  BY <1>1, <1>3, <1>6, <1>7, <1>8

(* Requests and the clock leave the caches alone. *)
LEMMA StoreStays ==
  ASSUME [Next]_vars, \A b \in Batches : ~UpdateUnderworld(b), ~UpdateScrapbook
  PROVE  UNCHANGED <<scrap, nudes, applying>>
<1>1. UNCHANGED vars \/ Tick \/ Quiet => UNCHANGED <<scrap, nudes, applying>>
  BY DEF vars, store, Tick, Quiet
<1>2. ASSUME NEW r \in Handlers, Request(r) PROVE UNCHANGED <<scrap, nudes, applying>>
  <2>1. ASSUME NEW kind, NEW about, NEW at, Start(r, kind, about, at)
        PROVE  UNCHANGED <<scrap, nudes, applying>>
    BY <2>1 DEF Start, store
  <2>2. ASSUME NEW q \in Questions, Ask(r, q) \/ AnswerFromCache(r, q)
        PROVE  UNCHANGED <<scrap, nudes, applying>>
    BY <2>1, <2>2 DEF Ask, AnswerFromCache, store
  <2> QED
    BY <1>2, <2>1, <2>2 DEF Request, AskNude, AskServers
<1>3. ASSUME NEW r \in Handlers, CalcTargets(r) PROVE UNCHANGED store
  BY <1>3, Zenon DEF CalcTargets
<1>4. ASSUME NEW r \in Handlers, CalcNude(r) PROVE UNCHANGED store
  BY <1>4, Zenon DEF CalcNude
<1>5. ASSUME NEW r \in Handlers, Work(r) PROVE UNCHANGED <<scrap, nudes, applying>>
  BY <1>3, <1>4, <1>5 DEF Work, Connect, Fail, ReadLookup, WriteLookup, InsertServer,
     AnswerTargets, StoreTargets, AnswerNude, LockServers, CountServers, store
<1> QED
  BY <1>1, <1>2, <1>5 DEF Next

LEMMA CachesKeep ==
  ASSUME Caches, [Next]_vars
  PROVE  Caches'
<1>1. ASSUME NEW b \in Batches, UpdateUnderworld(b) PROVE Caches'
  BY <1>1, ListsNudes DEF Caches
<1>2. ASSUME UpdateScrapbook PROVE Caches'
  BY <1>2, FillsScrapbook DEF Caches
<1>3. CASE UNCHANGED <<scrap, nudes, applying>>
  BY <1>3 DEF Caches
<1> QED
  BY <1>1, <1>2, <1>3, StoreStays

LEMMA InitCaches == Init => Caches
<1> SUFFICES ASSUME Init PROVE Caches
  OBVIOUS
<1> DEFINE none == [p \in {} |-> None]
<1>1. scrap.info = none /\ scrap.equipment = none
  BY DEF Init, NoMap
<1>2. DOMAIN none = {}
  OBVIOUS
<1> HIDE DEF none
<1>3. DOMAIN Index(scrap.equipment) = {}
  BY <1>1, <1>2 DEF Index
<1>4. IsFiniteSet(DOMAIN scrap.info)
  BY <1>1, <1>2, FS_EmptySet
<1>5. Data(scrap)
  BY <1>1, <1>2, <1>3, <1>4 DEF Data, Consistent
<1> QED
  BY <1>5 DEF Init, Caches

-----------------------------------------------------------------------------
(* Types *)

LEMMA InitTypes == Init => Types
<1> SUFFICES ASSUME Init PROVE Types
  OBVIOUS
<1>1. /\ connected = FALSE /\ known = FALSE
      /\ writer = None /\ counter = None /\ servers = None
  BY DEF Init
<1>2. now = 0 /\ work = 0 /\ MaxWork \in Nat
  BY Constants DEF Init
<1>3. now \in Nat /\ work \in Nat /\ now <= work /\ work <= MaxWork
  BY <1>2
<1> QED
  BY <1>1, <1>3 DEF Types

LEMMA TypesKeep ==
  ASSUME Types, [Next]_vars
  PROVE  Types'
<1> USE Constants DEF ids, roster, clock
<1>1. ASSUME UNCHANGED <<ids, roster, now>>, work' \in {work, work + 1}, work' <= MaxWork
      PROVE  Types'
  BY <1>1 DEF Types
<1>2. work + 1 \in Nat /\ (work < MaxWork => work + 1 <= MaxWork)
  BY DEF Types
<1>3. ASSUME NEW b \in Batches, UpdateUnderworld(b) PROVE Types'
  <2>1. UNCHANGED <<ids, roster, now>> /\ work' = work + 1 /\ work < MaxWork
    BY <1>3, Zenon DEF UpdateUnderworld
  <2> QED
    BY <1>1, <1>2, <2>1
<1>4. ASSUME UNCHANGED <<ids, roster, clock>> PROVE Types'
  BY <1>1, <1>4 DEF Types
<1>5. CASE UpdateScrapbook
  BY <1>4, <1>5 DEF UpdateScrapbook
<1>6. CASE Tick
  <2>1. now' = now + 1 /\ work' = work + 1 /\ work < MaxWork /\ UNCHANGED <<ids, roster>>
    BY <1>6 DEF Tick
  <2> QED
    BY <2>1 DEF Types
<1>7. CASE UNCHANGED vars \/ Quiet
  BY <1>4, <1>7 DEF vars, Quiet
<1>8. ASSUME NEW r \in Handlers, Request(r) PROVE Types'
  <2>1. ASSUME NEW kind, NEW about, NEW at, Start(r, kind, about, at) PROVE Types'
    BY <1>1, <1>2, <2>1 DEF Start
  <2>2. ASSUME NEW q \in Questions, Ask(r, q) PROVE Types'
    BY <2>1, <2>2 DEF Ask
  <2>3. ASSUME NEW q \in Questions, AnswerFromCache(r, q) PROVE Types'
    BY <1>1, <1>2, <2>3 DEF AnswerFromCache
  <2> QED
    BY <1>8, <2>1, <2>2, <2>3 DEF Request, AskNude, AskServers
<1>9. ASSUME NEW r \in Handlers, Work(r) PROVE Types'
  <2>1. CASE CalcTargets(r)
    <3>1. UNCHANGED <<ids, roster, clock>>
      BY <2>1, Zenon DEF CalcTargets
    <3> QED
      BY <1>4, <3>1
  <2>2. CASE CalcNude(r)
    <3>1. UNCHANGED <<ids, roster, clock>>
      BY <2>2, Zenon DEF CalcNude
    <3> QED
      BY <1>4, <3>1
  <2>3. CASE AnswerTargets(r) \/ AnswerNude(r) \/ StoreTargets(r)
    BY <1>4, <2>3 DEF AnswerTargets, AnswerNude, StoreTargets
  <2>4. CASE Connect(r) \/ Fail(r)
    BY <2>4 DEF Connect, Fail, Types
  <2>5. CASE ReadLookup(r) \/ WriteLookup(r) \/ InsertServer(r)
    BY <2>5 DEF ReadLookup, WriteLookup, InsertServer, Types
  <2>6. CASE LockServers(r)
    BY <2>6 DEF LockServers, Types
  <2>7. CASE CountServers(r)
    <3>1. servers' = now /\ counter' = None /\ UNCHANGED <<ids, clock>>
      BY <2>7 DEF CountServers
    <3> QED
      BY <3>1 DEF Types
  <2> QED
    BY <1>9, <2>1, <2>2, <2>3, <2>4, <2>5, <2>6, <2>7 DEF Work
<1> QED
  BY <1>3, <1>5, <1>6, <1>7, <1>8, <1>9 DEF Next

-----------------------------------------------------------------------------
(* Answers *)

LEMMA IdleIsCorrect == Correct(Idle)
BY DEF Idle, Correct

(* A step that leaves the results alone and is right about one request. *)
LEMMA OneAnswer ==
  ASSUME Answers, IInv, NEW r \in Handlers, Others(r), results' = results, Correct(req'[r])
  PROVE  Answers'
<1>1. ASSUME NEW h \in Handlers PROVE Correct(req'[h])
  <2>1. CASE h = r
    BY <2>1
  <2>2. CASE h # r
    BY <2>2 DEF Others, Answers
  <2> QED
    BY <2>1, <2>2
<1>2. ASSUME NEW q \in Questions, results'[q] # None
      PROVE  Answer(results'[q], q)
  BY <1>2 DEF Answers
<1> QED
  BY <1>1, <1>2 DEF Answers

(* A request that goes on, or is over, has no answer yet. *)
LEMMA StillToAnswer ==
  ASSUME Answers, IInv, NEW r \in Handlers, results' = results,
         \/ req' = [req EXCEPT ![r] = Idle]
         \/ \E at \in Labels \ {"idle", "done", "names", "store"} :
              /\ req' = [req EXCEPT ![r].at = at]
              /\ req[r].at \notin {"idle", "done", "names", "store"}
  PROVE  Answers'
<1>1. Shape
  BY DEF IInv
<1>2. CASE req' = [req EXCEPT ![r] = Idle]
  <2>1. Ended(r)
    BY <1>1, <1>2, Ends
  <2> QED
    BY <2>1, IdleIsCorrect, OneAnswer DEF Ended
<1>3. ASSUME NEW at \in Labels \ {"idle", "done", "names", "store"},
             req' = [req EXCEPT ![r].at = at],
             req[r].at \notin {"idle", "done", "names", "store"}
      PROVE  Answers'
  <2>1. Went(r, at)
    BY <1>1, <1>3, Goes
  <2>2. Correct(req'[r])
    <3>1. Correct(req[r])
      BY DEF Answers
    <3>2. req'[r].best = req[r].best /\ req'[r].unnamed = req[r].unnamed
      BY <1>1, <1>3 DEF Shape, ReqFields
    <3> QED
      BY <1>3, <2>1, <3>1, <3>2 DEF Went, Correct
  <2> QED
    BY <2>1, <2>2, OneAnswer DEF Went
<1> QED
  BY <1>2, <1>3

LEMMA AskedAnswers ==
  ASSUME Answers, IInv, NEW r \in Handlers, Request(r)
  PROVE  Answers'
<1>0. Shape
  BY DEF IInv
<1>1. ASSUME NEW kind, NEW about, NEW at \in {"lookup", "slot"}, Start(r, kind, about, at),
             kind = "nude" => about \in Strengths
      PROVE  Answers'
  <2>1. Began(r, kind, about, at) /\ results' = results
    BY <1>0, <1>1, Starts DEF Start
  <2>2. req'[r].best = <<>> /\ req'[r].unnamed = {}
    BY <1>0, <1>1 DEF Start, Shape, Idle
  <2>3. Correct(req'[r])
    BY <1>1, <2>1, <2>2 DEF Began, Correct
  <2> QED
    BY <2>1, <2>3, OneAnswer DEF Began
<1>2. ASSUME NEW q \in Questions, Ask(r, q) PROVE Answers'
  BY <1>1, <1>2 DEF Ask
<1>3. ASSUME NEW q \in Questions, AnswerFromCache(r, q) PROVE Answers'
  <2>1. Began(r, "targets", q, "done") /\ results' = results
    BY <1>0, <1>3, AnswersFromCache DEF AnswerFromCache
  <2>2. /\ req'[r].asked = now /\ req'[r].stored = results[q].stored
        /\ req'[r].best = results[q].best /\ req'[r].unnamed = results[q].unnamed
        /\ req'[r].data = results[q].data
    BY <1>0, <1>3 DEF AnswerFromCache, Shape, Idle
  <2>3. results[q] # None /\ results[q].stored + ResultAge > now
    BY <1>3 DEF AnswerFromCache, Fresh
  <2>4. now < results[q].stored + ResultAge
    BY <2>3, Constants DEF IInv, Numbers
  <2>5. Answer(req'[r], q)
    <3>1. Answer(results[q], q)
      BY <2>3 DEF Answers
    <3> QED
      BY <2>2, <3>1 DEF Answer
  <2>6. Correct(req'[r])
    BY <2>1, <2>2, <2>4, <2>5 DEF Began, Correct
  <2> QED
    BY <2>1, <2>6, OneAnswer DEF Began
<1>4. ASSUME NEW m \in Strengths, AskNude(r, m) PROVE Answers'
  BY <1>1, <1>4 DEF AskNude
<1>5. ASSUME AskServers(r) PROVE Answers'
  BY <1>1, <1>5 DEF AskServers
<1> QED
  BY <1>2, <1>3, <1>4, <1>5 DEF Request

(* A scrapbook that was left behind is never taken for that of a question. *)
LEMMA OwnBook ==
  ASSUME NEW q \in Questions, NEW left, NEW u \in Updated(q, left), u.book # None
  PROVE  u.book = Book(q) /\ BookKind[q] = "good"
<1>1. BookKind[q] \in {"good", "absent", "refused", "unparsable"}
  BY Constants
<1> QED
  BY <1>1 DEF Updated, Reset

(* Where there is no scrapbook, the question has none the game understands. *)
LEMMA NoBook ==
  ASSUME NEW q \in Questions, NEW left, NEW u \in Updated(q, left), u.book = None
  PROVE  BookKind[q] # "good"
BY Constants DEF Updated

LEMMA FoundFields ==
  ASSUME Shape, NEW r \in Handlers, NEW best, NEW data, req' = WithBest(r, best, data)
  PROVE  /\ Others(r)
         /\ req'[r].at = "names" /\ req'[r].kind = req[r].kind
         /\ req'[r].about = req[r].about /\ req'[r].best = best /\ req'[r].data = data
        /\ req'[r].unnamed = req[r].unnamed
BY DEF Shape, WithBest, Others, ReqFields

LEMMA NothingFields ==
  ASSUME Shape, NEW r \in Handlers, req' = WithNothing(r)
  PROVE  /\ Others(r)
         /\ req'[r].at = "store" /\ req'[r].kind = req[r].kind
         /\ req'[r].about = req[r].about /\ req'[r].best = req[r].best
BY DEF Shape, WithNothing, Others, ReqFields

LEMMA NamesFields ==
  ASSUME Shape, NEW r \in Handlers, NEW at, NEW unnamed, req' = WithNames(r, at, unnamed)
  PROVE  /\ Others(r)
         /\ req'[r].at = at /\ req'[r].kind = req[r].kind
         /\ req'[r].about = req[r].about /\ req'[r].data = req[r].data
         /\ req'[r].best = Named(req[r].best, unnamed) /\ req'[r].unnamed = unnamed
<1> DEFINE named == Named(req[r].best, unnamed)
<1>1. req' = [req EXCEPT ![r] = [@ EXCEPT !.at = at, !.best = named, !.unnamed = unnamed,
                                          !.stored = now]]
  BY Zenon DEF WithNames
<1> HIDE DEF named
<1>2. /\ Others(r)
      /\ req'[r].at = at /\ req'[r].kind = req[r].kind
      /\ req'[r].about = req[r].about /\ req'[r].data = req[r].data
      /\ req'[r].best = named /\ req'[r].unnamed = unnamed
  BY <1>1 DEF Shape, Others, ReqFields
<1> QED
  BY <1>2 DEF named

LEMMA CalcTargetsAnswers ==
  ASSUME Answers, IInv, Caches, NEW r \in Handlers, CalcTargets(r)
  PROVE  Answers'
<1>1. results' = results /\ req[r].at = "load" /\ req[r].kind = "targets"
  BY Zenon DEF CalcTargets
<1>2. req[r].about \in Questions
  BY <1>1 DEF IInv, Shape, Active
<1>3. CASE req' = [req EXCEPT ![r] = Idle]
  BY <1>1, <1>3, StillToAnswer
<1> DEFINE q == req[r].about
<1>4. ASSUME NEW u \in Updated(q, Left(Taken)), u.book = None, req' = WithNothing(r)
      PROVE  Answers'
  <2>1. BookKind[q] # "good"
    BY <1>2, <1>4, NoBook
  <2>2. /\ Others(r) /\ req'[r].at = "store" /\ req'[r].kind = "targets"
        /\ req'[r].about = q /\ req'[r].best = req[r].best
    BY <1>1, <1>4, NothingFields DEF IInv
  <2>3. req[r].best = <<>>
    BY <1>1 DEF Answers, Correct
  <2>4. Answer(req'[r], q)
    BY <2>1, <2>2, <2>3 DEF Answer
  <2>5. Correct(req'[r])
    BY <2>2, <2>4 DEF Correct
  <2> QED
    BY <1>1, <2>2, <2>5, OneAnswer
<1>5. ASSUME NEW u \in Updated(q, Left(Taken)), u.book # None,
             NEW best \in find_best(calc_per_player_count(scrap, u.book, MaxOf[q]), scrap),
             req' = WithBest(r, best, scrap)
      PROVE  Answers'
  <2>1. u.book = Book(q) /\ BookKind[q] = "good"
    BY <1>2, <1>5, OwnBook
  <2>2. Data(scrap)
    BY DEF Caches
  <2>3. best \in Seq(ToSet(best)) /\ Right(q, best, {}, scrap)
    <3> HIDE DEF q
    <3>1. q \in Questions
      BY <1>2 DEF q
    <3>2. best \in find_best(calc_per_player_count(scrap, Book(q), MaxOf[q]), scrap)
      BY <1>5, <2>1
    <3> QED
      BY <2>2, <3>1, <3>2, BestAreRight
  <2>4. /\ Others(r) /\ req'[r].at = "names" /\ req'[r].kind = "targets"
        /\ req'[r].about = q /\ req'[r].best = best /\ req'[r].data = scrap
        /\ req'[r].unnamed = req[r].unnamed
    BY <1>1, <1>5, FoundFields DEF IInv
  <2>5. req[r].unnamed = {}
    BY <1>1 DEF Answers, Correct
  <2>6. Answer(req'[r], q)
    BY <2>1, <2>3, <2>4, <2>5 DEF Answer
  <2>7. \E T : req'[r].best \in Seq(T)
    BY <2>3, <2>4
  <2>8. Correct(req'[r])
    BY <2>1, <2>4, <2>5, <2>6, <2>7 DEF Correct
  <2> QED
    BY <1>1, <2>4, <2>8, OneAnswer
<1>6. CASE scrap.cached
  <2>1. PICK u \in Updated(q, Left(Taken)) :
          IF u.book = None
          THEN /\ pool' = PoolWith(Taken, None, u.left)
               /\ req' = WithNothing(r)
          ELSE /\ pool' = PoolWith(Taken, r, u.left)
               /\ \E best \in find_best(calc_per_player_count(scrap, u.book, MaxOf[q]), scrap) :
                    req' = WithBest(r, best, scrap)
    BY <1>6, Zenon DEF CalcTargets
  <2>2. CASE u.book = None
    BY <1>4, <2>1, <2>2
  <2>3. CASE u.book # None
    <3>1. PICK best \in find_best(calc_per_player_count(scrap, u.book, MaxOf[q]), scrap) :
            req' = WithBest(r, best, scrap)
      BY <2>1, <2>3
    <3> QED
      BY <1>5, <2>3, <3>1
  <2> QED
    BY <2>2, <2>3
<1>7. CASE ~scrap.cached
  BY <1>3, <1>7, Zenon DEF CalcTargets
<1> QED
  BY <1>6, <1>7

LEMMA CalcNudeAnswers ==
  ASSUME Answers, IInv, Caches, NEW r \in Handlers, CalcNude(r)
  PROVE  Answers'
<1>1. results' = results /\ req[r].at = "load" /\ req[r].kind = "nude"
  BY Zenon DEF CalcNude
<1>2. CASE nudes = None
  BY <1>1, <1>2, StillToAnswer DEF CalcNude
<1>3. CASE nudes # None
  <2>1. PICK best \in BestNude(nudes, req[r].about) : req' = WithBest(r, best, nudes)
    BY <1>3, Zenon DEF CalcNude
  <2>2. req[r].about \in Strengths /\ req[r].about \in Nat
    BY <1>1, AdviceAssumption DEF Answers, Correct
  <2>3. ByStats(nudes)
    BY <1>3 DEF Caches
  <2>4. best \in Seq(Entries) /\ NudeRight(best, {}, nudes, req[r].about)
    BY <2>1, <2>2, <2>3, BestNudesAreRight
  <2>5. Shape
    BY DEF IInv
  <2>6. /\ Others(r) /\ req'[r].at = "names" /\ req'[r].kind = "nude"
        /\ req'[r].about = req[r].about /\ req'[r].best = best /\ req'[r].data = nudes
        /\ req'[r].unnamed = {}
    BY <1>1, <2>1, <2>5, FoundFields DEF Answers, Correct
  <2>7. Correct(req'[r])
    BY <2>2, <2>4, <2>6 DEF Correct
  <2> QED
    BY <1>1, <2>6, <2>7, OneAnswer
<1> QED
  BY <1>2, <1>3

(* Names are left out, and the rest is as right as before. *)
LEMMA AnswerTargetsAnswers ==
  ASSUME Answers, IInv, NEW r \in Handlers, AnswerTargets(r)
  PROVE  Answers'
<1>1. results' = results /\ req[r].at = "names" /\ req[r].kind = "targets"
  BY DEF AnswerTargets
<1>2. PICK unnamed \in SUBSET PlayersIn(req[r].best) : req' = WithNames(r, "store", unnamed)
  BY DEF AnswerTargets
<1> DEFINE best == req[r].best
           q == req[r].about
<1>3. /\ Others(r) /\ req'[r].at = "store" /\ req'[r].kind = "targets"
      /\ req'[r].about = q /\ req'[r].data = req[r].data
      /\ req'[r].best = Named(best, unnamed) /\ req'[r].unnamed = unnamed
  BY <1>1, <1>2, NamesFields DEF IInv
<1>4. Correct(req[r])
  BY DEF Answers
<1>5. PICK T : best \in Seq(T)
  BY <1>1, <1>4 DEF Correct
<1>6. BookKind[q] = "good" /\ Right(q, best, {}, req[r].data)
  BY <1>1, <1>4 DEF Correct, Answer
<1>7. Right(q, Named(best, unnamed), unnamed, req[r].data)
  <2> HIDE DEF best, q
  <2>1. unnamed \in SUBSET PlayersIn(best)
    BY DEF best
  <2> QED
    BY <1>5, <1>6, <2>1, TargetsWithNames
<1>8. Answer(req'[r], q)
  BY <1>3, <1>6, <1>7 DEF Answer
<1>9. Correct(req'[r])
  BY <1>3, <1>8 DEF Correct
<1> QED
  BY <1>1, <1>3, <1>9, OneAnswer

LEMMA AnswerNudeAnswers ==
  ASSUME Answers, IInv, NEW r \in Handlers, AnswerNude(r)
  PROVE  Answers'
<1>1. results' = results /\ req[r].at = "names" /\ req[r].kind = "nude"
  BY DEF AnswerNude
<1>2. PICK unnamed \in SUBSET PlayersIn(req[r].best) : req' = WithNames(r, "done", unnamed)
  BY DEF AnswerNude
<1> DEFINE best == req[r].best
           max == req[r].about
<1>3. /\ Others(r) /\ req'[r].at = "done" /\ req'[r].kind = "nude"
      /\ req'[r].about = max /\ req'[r].data = req[r].data
      /\ req'[r].best = Named(best, unnamed) /\ req'[r].unnamed = unnamed
  BY <1>1, <1>2, NamesFields DEF IInv
<1>4. Correct(req[r])
  BY DEF Answers
<1>5. PICK T : best \in Seq(T)
  BY <1>1, <1>4 DEF Correct
<1>6. max \in Strengths /\ NudeRight(best, {}, req[r].data, max)
  BY <1>1, <1>4 DEF Correct
<1>7. NudeRight(Named(best, unnamed), unnamed, req[r].data, max)
  <2> HIDE DEF best, max
  <2>1. unnamed \in SUBSET PlayersIn(best)
    BY DEF best
  <2> QED
    BY <1>5, <1>6, <2>1, NudesWithNames
<1>8. Correct(req'[r])
  BY <1>3, <1>6, <1>7 DEF Correct
<1> QED
  BY <1>1, <1>3, <1>8, OneAnswer

(* What was found goes to the cache; all else there stays or is thrown away. *)
LEMMA StoreTargetsAnswers ==
  ASSUME Answers, IInv, NEW r \in Handlers, StoreTargets(r)
  PROVE  Answers'
<1>0. Shape
  BY DEF IInv
<1>1. Told(r)
  BY <1>0, Tells
<1>2. \A h \in Handlers : h # r =>
        /\ req'[h].best = req[h].best /\ req'[h].data = req[h].data
        /\ req'[h].unnamed = req[h].unnamed
        /\ req'[h].asked = req[h].asked /\ req'[h].stored = req[h].stored
  BY <1>0 DEF StoreTargets, Shape, ReqFields
<1>3. ASSUME NEW h \in Handlers PROVE Correct(req'[h])
  <2>1. CASE h = r
    BY <1>1, <2>1, IdleIsCorrect DEF Told
  <2>2. CASE h # r
    <3>1. Correct(req[h])
      BY DEF Answers
    <3>2. /\ req'[h].at = req[h].at /\ req'[h].kind = req[h].kind
          /\ req'[h].about = req[h].about
      BY <1>1, <2>2 DEF Told
    <3> QED
      BY <1>2, <2>2, <3>1, <3>2 DEF Correct, Answer
  <2> QED
    BY <2>1, <2>2
<1>4. req[r].at = "store" /\ req[r].kind = "targets"
  BY DEF StoreTargets, IInv, Stamped
<1>5. ASSUME NEW q \in Questions, results'[q] # None
      PROVE  Answer(results'[q], q)
  <2>1. CASE q = req[r].about
    <3>1. /\ results'[q].best = req[r].best /\ results'[q].data = req[r].data
          /\ results'[q].unnamed = req[r].unnamed
      BY <2>1 DEF StoreTargets
    <3>2. Answer(req[r], req[r].about)
      BY <1>4 DEF Answers, Correct
    <3> QED
      BY <2>1, <3>1, <3>2 DEF Answer
  <2>2. CASE q # req[r].about
    <3>1. results'[q] = results[q]
      BY <1>5, <2>2 DEF StoreTargets
    <3> QED
      BY <1>5, <3>1 DEF Answers
  <2> QED
    BY <2>1, <2>2
<1> QED
  BY <1>3, <1>5 DEF Answers

LEMMA InitAnswers == Init => Answers
<1> SUFFICES ASSUME Init PROVE Answers
  OBVIOUS
<1>1. \A r \in Handlers : req[r] = Idle
  BY DEF Init
<1>2. \A q \in Questions : results[q] = None
  BY DEF Init
<1> QED
  BY <1>1, <1>2, IdleIsCorrect DEF Answers

LEMMA AnswersKeep ==
  ASSUME Answers, IInv, Caches, [Next]_vars
  PROVE  Answers'
<1>1. ASSUME UNCHANGED <<req, results>> PROVE Answers'
  BY <1>1 DEF Answers
<1>2. ASSUME NEW b \in Batches, UpdateUnderworld(b) PROVE Answers'
  <2>1. UNCHANGED <<req, results>>
    BY <1>2, Zenon DEF UpdateUnderworld
  <2> QED
    BY <1>1, <2>1
<1>3. CASE UpdateScrapbook \/ Tick \/ Quiet \/ UNCHANGED vars
  BY <1>1, <1>3 DEF UpdateScrapbook, Tick, Quiet, vars
<1>4. ASSUME NEW r \in Handlers, Work(r) PROVE Answers'
  <2>1. CASE Connect(r)
    BY <1>1, <2>1 DEF Connect
  <2>2. CASE Fail(r) \/ CountServers(r)
    BY <2>2, StillToAnswer DEF Fail, CountServers
  <2>3. CASE ReadLookup(r)
    BY <2>3, StillToAnswer DEF ReadLookup, Labels
  <2>4. CASE WriteLookup(r)
    BY <2>4, StillToAnswer DEF WriteLookup, Labels
  <2>5. CASE InsertServer(r)
    BY <2>5, StillToAnswer DEF InsertServer, Labels
  <2>6. CASE LockServers(r)
    BY <2>6, StillToAnswer DEF LockServers, Labels
  <2> QED
    BY <1>4, <2>1, <2>2, <2>3, <2>4, <2>5, <2>6, CalcTargetsAnswers, CalcNudeAnswers,
       AnswerTargetsAnswers, AnswerNudeAnswers, StoreTargetsAnswers DEF Work
<1> QED
  BY <1>2, <1>3, <1>4, AskedAnswers DEF Next

LEMMA AnswersInvHolds == Spec => []AnswersInv
<1>1. Init => AnswersInv
  BY InitIInv, InitCaches, InitTypes, InitAnswers DEF AnswersInv
<1>2. AnswersInv /\ [Next]_vars => AnswersInv'
  BY StepIInv, CachesKeep, TypesKeep, AnswersKeep DEF AnswersInv
<1> QED
  BY <1>1, <1>2, PTL DEF Spec

-----------------------------------------------------------------------------
(* What an answer is worth *)

(* Every variable keeps its shape; the lists of the caches stay sorted and *)
(* without repetitions through all corrections and the encoding.           *)
THEOREM TypesHold == Spec => []TypeOK
<1>1. AnswersInv => TypeOK
  <2> SUFFICES ASSUME AnswersInv PROVE TypeOK
    OBVIOUS
  <2>1. \A p \in DOMAIN scrap.info : scrap.info[p] \in Contents
    BY DEF AnswersInv, Caches, Data, Consistent
  <2>2. \A i \in DOMAIN scrap.equipment :
          /\ IsList(to_vec(scrap.equipment[i]))
          /\ iter(scrap.equipment[i]) = to_vec(scrap.equipment[i])
    BY DEF AnswersInv, Caches, Data, Array, SortedList
  <2>3. nudes # None => \A j, k \in DOMAIN nudes :
          j < k => /\ nudes[j].player # nudes[k].player
                   /\ Stats(nudes[j].as) >= Stats(nudes[k].as)
    <3> SUFFICES ASSUME nudes # None
                 PROVE  \A j, k \in DOMAIN nudes :
                          j < k => /\ nudes[j].player # nudes[k].player
                                   /\ Stats(nudes[j].as) >= Stats(nudes[k].as)
      OBVIOUS
    <3>1. ByStats(nudes)
      BY DEF AnswersInv, Caches
    <3>2. DOMAIN nudes = 1..Len(nudes)
      BY <3>1, LenProperties DEF ByStats
    <3> QED
      BY <3>1, <3>2 DEF ByStats
  <2>4. \A k \in DOMAIN pool : pool[k].by \in Handlers \cup {None}
    BY Slots DEF AnswersInv, IInv
  <2>5. \A r \in Handlers : req[r].at \in
          {"idle", "done", "lookup", "lock", "insert", "load", "names", "store", "slot",
           "count"}
    BY DEF AnswersInv, IInv, Shape, Labels
  <2>6. now \in 0..MaxWork /\ work \in 0..MaxWork
    BY Constants DEF AnswersInv, Types
  <2> QED
    BY <2>1, <2>2, <2>3, <2>4, <2>5, <2>6 DEF TypeOK, AnswersInv, Caches, Types
<1> QED
  BY <1>1, AnswersInvHolds, PTL

(* Whatever is answered, at once or later from the cache, is what a plain  *)
(* search of the server's players gives for that scrapbook and strength,   *)
(* less those who had no row when the names were asked for; it is empty    *)
(* for a scrapbook the game does not understand, which is cached as well;  *)
(* and it is given from the cache for an hour at most.                     *)
THEOREM TheBestTargetsAreFound == Spec => []TargetsAreBest
<1>1. AnswersInv => TargetsAreBest
  BY DEF AnswersInv, Answers, Correct, TargetsAreBest
<1> QED
  BY <1>1, AnswersInvHolds, PTL

(* The nude players proposed have at most the stats asked for, come by     *)
(* level, and nobody who has fewer is passed over for a lower level; who   *)
(* has no row when the names are asked for is left out.                    *)
THEOREM TheBestNudesAreFound == Spec => []NudesAreBest
<1>1. AnswersInv => NudesAreBest
  BY DEF AnswersInv, Answers, Correct, NudesAreBest
<1> QED
  BY <1>1, AnswersInvHolds, PTL

(* Sorted lists, binary searches, deltas and varints implement the maps    *)
(* and sets that the two caches stand for, batch by batch.                 *)
THEOREM ListsImplementSets == Spec => CacheHoldsSets
<1>1. Init => Cache!Init
  <2> SUFFICES ASSUME Init PROVE Cache!Init
    OBVIOUS
  <2>1. NudeMap = NoMap /\ scrap.info = NoMap /\ scrap.equipment = NoMap
    BY DEF Init, NudeMap
  <2> DEFINE none == [p \in {} |-> None]
  <2>2. none = NoMap /\ DOMAIN none = {}
    BY DEF NoMap
  <2>3. [i \in DOMAIN scrap.equipment |-> ToSet(to_vec(scrap.equipment[i]))] = none
    BY <2>1, <2>2
  <2> QED
    BY <2>1, <2>2, <2>3 DEF Cache!Init, Cache!NoMap
<1>2. AnswersInv /\ [Next]_vars => [Cache!Next]_(Cache!cvars)
  <2> SUFFICES ASSUME AnswersInv, [Next]_vars
               PROVE  Cache!Next \/ UNCHANGED Cache!cvars
    OBVIOUS
  <2>0. Caches
    BY DEF AnswersInv
  <2>1. ASSUME NEW b \in Batches, UpdateUnderworld(b) PROVE Cache!Next
    <3>1. NudeMap' = NudeAfter(NudeMap, b) /\ scrap' = scrap
      BY <2>0, <2>1, ListsNudes
    <3>2. Cache!ListNude(b)
      BY <3>1 DEF Cache!ListNude, Cache!NudeAfter, NudeAfter
    <3> QED
      BY <3>2 DEF Cache!Next
  <2>2. ASSUME UpdateScrapbook PROVE Cache!Next
    <3>1. /\ applying \in Batches /\ nudes' = nudes
          /\ scrap'.info = InfoAfter(scrap.info, applying)
          /\ Index(scrap'.equipment) = IndexAfter(Index(scrap.equipment), applying)
      BY <2>0, <2>2, FillsScrapbook
    <3>2. Cache!Record(applying)
      <4>1. scrap'.info = Cache!InfoAfter(scrap.info, applying)
        BY <3>1 DEF Cache!InfoAfter, InfoAfter
      <4>2. Index(scrap'.equipment) = Cache!IndexAfter(Index(scrap.equipment), applying)
        BY <3>1 DEF Cache!IndexAfter, IndexAfter, Cache!Items, Items, Cache!Owners, Owners
      <4>3. NudeMap' = NudeMap
        BY <3>1 DEF NudeMap
      <4> QED
        BY <4>1, <4>2, <4>3 DEF Cache!Record, Index
    <3> QED
      BY <3>1, <3>2 DEF Cache!Next
  <2>3. CASE UNCHANGED <<scrap, nudes, applying>>
    BY <2>3 DEF Cache!cvars, NudeMap
  <2> QED
    BY <2>1, <2>2, <2>3, StoreStays
<1> QED
  BY <1>1, <1>2, AnswersInvHolds, PTL DEF Spec, CacheHoldsSets, Cache!Spec
=============================================================================
