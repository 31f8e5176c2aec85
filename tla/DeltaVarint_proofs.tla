------------------------- MODULE DeltaVarint_proofs -------------------------
(***************************************************************************)
(* Whatever list of player ids is encoded, both ways of reading it give it *)
(* back, for any base and width; and what Advice_proofs needs to know of   *)
(* loops and sequences.                                                    *)
(*                                                                         *)
(* The principles of induction and recursion are stated about sets and     *)
(* functions, not about operators, so that the provers can instantiate     *)
(* them; they rest on the well-foundedness of the naturals.                *)
(***************************************************************************)
EXTENDS DeltaVarint, FiniteSetTheorems, SequenceTheorems, WellFoundedInduction, TLAPS

-----------------------------------------------------------------------------
(* Induction *)

(* A set of numbers has a least one. *)
LEMMA Smallest ==
  ASSUME NEW T, T \subseteq Nat, T # {}
  PROVE  \E x \in T : \A y \in T : ~(y < x)
<1> DEFINE R == {p \in Nat \X Nat : p[1] < p[2]}
<1>1. IsWellFoundedOn(R, Nat)
  BY NatLessThanWellFounded DEF OpToRel
<1>2. \E x \in T : \A y \in T : <<y, x>> \notin R
  BY <1>1, WFMin
<1> QED
  BY <1>2

(* A set that has 0 and the successor of each of its numbers has all. *)
LEMMA Induction ==
  ASSUME NEW T, 0 \in T, \A n \in Nat : n \in T => n + 1 \in T
  PROVE  \A n \in Nat : n \in T
<1> SUFFICES ASSUME ~\A n \in Nat : n \in T PROVE FALSE
  OBVIOUS
<1> DEFINE U == {n \in Nat : n \notin T}
<1>1. PICK x \in U : \A y \in U : ~(y < x)
  <2>1. U \subseteq Nat /\ U # {}
    OBVIOUS
  <2> HIDE DEF U
  <2> QED
    BY <2>1, Smallest
<1>2. x \in Nat \ {0} /\ x - 1 \in Nat /\ x - 1 < x
  BY <1>1
<1>3. x - 1 \in T
  BY <1>1, <1>2
<1>4. (x - 1) + 1 \in T
  BY <1>2, <1>3
<1>5. (x - 1) + 1 = x
  BY <1>2
<1> QED
  BY <1>1, <1>4, <1>5

(* The same, with all smaller numbers given. *)
LEMMA StrongInduction ==
  ASSUME NEW T, \A n \in Nat : (\A k \in Nat : k < n => k \in T) => n \in T
  PROVE  \A n \in Nat : n \in T
<1> SUFFICES ASSUME ~\A n \in Nat : n \in T PROVE FALSE
  OBVIOUS
<1> DEFINE U == {n \in Nat : n \notin T}
<1>1. PICK x \in U : \A y \in U : ~(y < x)
  <2>1. U \subseteq Nat /\ U # {}
    OBVIOUS
  <2> HIDE DEF U
  <2> QED
    BY <2>1, Smallest
<1> QED
  BY <1>1

-----------------------------------------------------------------------------
(* Recursion: a function may be defined by what it is at some arguments,   *)
(* and at the others by its value at one that comes before.                *)

Below(S, m, n) == {x \in S : m[x] <= n}

(* b at the arguments in B, g of the value at p[x] at the others. *)
Recursive(S, V, m, B, b, p, g) ==
  /\ m \in [S -> Nat] /\ B \in SUBSET S
  /\ b \in [B -> V] /\ p \in [S \ B -> S] /\ g \in [(S \ B) \X V -> V]
  /\ \A x \in S \ B : m[p[x]] < m[x]

(* h obeys the equation for arguments up to n. *)
Obeys(h, S, V, m, B, b, p, g, n) ==
  /\ n \in Nat
  /\ h \in [Below(S, m, n) -> V]
  /\ \A x \in Below(S, m, n) : h[x] = IF x \in B THEN b[x] ELSE g[<<x, h[p[x]]>>]

(* f is a solution. *)
Solves(f, S, V, B, b, p, g) ==
  f \in [S -> V] /\ \A x \in S : f[x] = IF x \in B THEN b[x] ELSE g[<<x, f[p[x]]>>]

LEMMA RecursionStep ==
  ASSUME NEW S, NEW V, NEW m, NEW B, NEW b, NEW p, NEW g, Recursive(S, V, m, B, b, p, g),
         NEW n, NEW h, Obeys(h, S, V, m, B, b, p, g, n)
  PROVE  \E f : Obeys(f, S, V, m, B, b, p, g, n + 1)
<1> USE DEF Recursive
<1> DEFINE D == Below(S, m, n)
           E == Below(S, m, n + 1)
           f == [x \in E |-> IF x \in B THEN b[x] ELSE g[<<x, h[p[x]]>>]]
<1>1. \A x \in E : x \in S /\ (x \notin B => p[x] \in D /\ p[x] \in E)
  BY DEF Below, Obeys
<1>2. \A x \in D : h[x] \in V
  BY DEF Obeys
<1>3. \A x \in E : x \notin B => g[<<x, h[p[x]]>>] \in V
  <2> SUFFICES ASSUME NEW x \in E, x \notin B PROVE g[<<x, h[p[x]]>>] \in V
    OBVIOUS
  <2>1. <<x, h[p[x]]>> \in (S \ B) \X V
    BY <1>1, <1>2
  <2> QED
    BY <2>1
<1>4. f \in [E -> V]
  BY <1>1, <1>3
<1>5. \A x \in D : x \in E /\ f[x] = h[x]
  BY DEF Obeys, Below
<1>6. \A x \in E : f[x] = IF x \in B THEN b[x] ELSE g[<<x, f[p[x]]>>]
  BY <1>1, <1>5
<1> HIDE DEF f
<1>7. Obeys(f, S, V, m, B, b, p, g, n + 1)
  BY <1>4, <1>6 DEF Obeys
<1> QED
  BY <1>7

LEMMA RecursionUnique ==
  ASSUME NEW S, NEW V, NEW m, NEW B, NEW b, NEW p, NEW g, Recursive(S, V, m, B, b, p, g),
         NEW i, NEW h, Obeys(h, S, V, m, B, b, p, g, i),
         NEW j, NEW f, Obeys(f, S, V, m, B, b, p, g, j)
  PROVE  \A x \in Below(S, m, i) \cap Below(S, m, j) : h[x] = f[x]
<1> USE DEF Recursive
<1> DEFINE T == {n \in Nat : \A x \in Below(S, m, i) \cap Below(S, m, j) :
                               m[x] = n => h[x] = f[x]}
<1>1. ASSUME NEW n \in Nat, \A k \in Nat : k < n => k \in T
      PROVE  n \in T
  <2> SUFFICES ASSUME NEW x \in Below(S, m, i) \cap Below(S, m, j), m[x] = n
               PROVE  h[x] = f[x]
    OBVIOUS
  <2>1. CASE x \in B
    BY <2>1 DEF Obeys
  <2>2. CASE x \notin B
    <3>1. /\ p[x] \in Below(S, m, i) \cap Below(S, m, j)
          /\ m[p[x]] \in Nat /\ m[p[x]] < n
      BY <2>2 DEF Below, Obeys
    <3>2. h[p[x]] = f[p[x]]
      BY <1>1, <3>1
    <3> QED
      BY <2>2, <3>2 DEF Obeys
  <2> QED
    BY <2>1, <2>2
<1>2. \A n \in Nat : n \in T
  <2> HIDE DEF T
  <2> QED
    BY <1>1, StrongInduction
<1> QED
  BY <1>2 DEF Below

LEMMA Recursion ==
  ASSUME NEW S, NEW V, NEW m, NEW B, NEW b, NEW p, NEW g, Recursive(S, V, m, B, b, p, g)
  PROVE  \E f : Solves(f, S, V, B, b, p, g)
<1> DEFINE O(h, n) == Obeys(h, S, V, m, B, b, p, g, n)
           T == {n \in Nat : \E h : O(h, n)}
<1>1. 0 \in T
  <2> DEFINE h == [x \in Below(S, m, 0) |-> b[x]]
  <2>1. \A x \in Below(S, m, 0) : x \in B
    BY DEF Below, Recursive
  <2>2. O(h, 0)
    BY <2>1 DEF Obeys, Recursive
  <2> QED
    BY <2>2
<1>2. \A n \in Nat : n \in T => n + 1 \in T
  <2> SUFFICES ASSUME NEW n \in Nat, NEW h, O(h, n) PROVE \E f : O(f, n + 1)
    OBVIOUS
  <2> QED
    BY RecursionStep
<1>3. \A n \in Nat : \E h : O(h, n)
  <2>1. \A n \in Nat : n \in T
    <3> HIDE DEF T
    <3> QED
      BY <1>1, <1>2, Induction
  <2> QED
    BY <2>1
<1> DEFINE H(n) == CHOOSE h : O(h, n)
           f == [x \in S |-> H(m[x])[x]]
<1>4. \A n \in Nat : O(H(n), n)
  BY <1>3
<1> HIDE DEF H
<1>5. \A n \in Nat : \A x \in S : m[x] <= n => f[x] = H(n)[x]
  <2> SUFFICES ASSUME NEW n \in Nat, NEW x \in S, m[x] <= n PROVE f[x] = H(n)[x]
    OBVIOUS
  <2>1. x \in Below(S, m, m[x]) \cap Below(S, m, n)
    BY DEF Below, Recursive
  <2>2. O(H(m[x]), m[x]) /\ O(H(n), n) /\ m[x] \in Nat
    BY <1>4 DEF Recursive
  <2>3. H(m[x])[x] = H(n)[x]
    BY <2>1, <2>2, RecursionUnique
  <2> QED
    BY <2>3
<1>6. \A x \in S : f[x] \in V
  <2> SUFFICES ASSUME NEW x \in S PROVE H(m[x])[x] \in V
    OBVIOUS
  <2>1. x \in Below(S, m, m[x]) /\ O(H(m[x]), m[x])
    BY <1>4 DEF Below, Recursive
  <2> QED
    BY <2>1 DEF Obeys
<1>7. \A x \in S : f[x] = IF x \in B THEN b[x] ELSE g[<<x, f[p[x]]>>]
  <2> SUFFICES ASSUME NEW x \in S
               PROVE  f[x] = IF x \in B THEN b[x] ELSE g[<<x, f[p[x]]>>]
    OBVIOUS
  <2>1. f[x] = H(m[x])[x]
    OBVIOUS
  <2>2. x \in Below(S, m, m[x]) /\ O(H(m[x]), m[x])
    BY <1>4 DEF Below, Recursive
  <2>3. H(m[x])[x] = IF x \in B THEN b[x] ELSE g[<<x, H(m[x])[p[x]]>>]
    BY <2>2 DEF Obeys
  <2>4. x \notin B => p[x] \in S /\ m[p[x]] <= m[x] /\ f[p[x]] = H(m[x])[p[x]]
    BY <1>5 DEF Recursive
  <2> HIDE DEF f
  <2> QED
    BY <2>1, <2>3, <2>4
<1>8. f \in [S -> V]
  BY <1>6
<1> HIDE DEF f
<1>9. Solves(f, S, V, B, b, p, g)
  BY <1>7, <1>8 DEF Solves
<1> QED
  BY <1>9

(* Whatever obeys the equation where its value is known has values in V. *)
Follows(f, S, V, B, b, p, g) ==
  \A x \in S : /\ x \in B => f[x] = b[x]
               /\ x \notin B /\ f[p[x]] \in V => f[x] = g[<<x, f[p[x]]>>]

LEMMA RecursionRange ==
  ASSUME NEW S, NEW V, NEW m, NEW B, NEW b, NEW p, NEW g, Recursive(S, V, m, B, b, p, g),
         NEW f, Follows(f, S, V, B, b, p, g)
  PROVE  \A x \in S : f[x] \in V
<1> DEFINE T == {n \in Nat : \A x \in S : m[x] = n => f[x] \in V}
<1>1. ASSUME NEW n \in Nat, \A k \in Nat : k < n => k \in T
      PROVE  n \in T
  <2> SUFFICES ASSUME NEW x \in S, m[x] = n PROVE f[x] \in V
    OBVIOUS
  <2>1. CASE x \in B
    BY <2>1 DEF Recursive, Follows
  <2>2. CASE x \notin B
    <3>1. p[x] \in S /\ m[p[x]] \in Nat /\ m[p[x]] < n
      BY <2>2 DEF Recursive
    <3>2. f[p[x]] \in V
      BY <1>1, <3>1
    <3>3. f[x] = g[<<x, f[p[x]]>>] /\ <<x, f[p[x]]>> \in (S \ B) \X V
      BY <2>2, <3>2 DEF Follows
    <3> QED
      BY <3>3 DEF Recursive
  <2> QED
    BY <2>1, <2>2
<1>2. \A n \in Nat : n \in T
  <2> HIDE DEF T
  <2> QED
    BY <1>1, StrongInduction
<1> QED
  BY <1>2 DEF Recursive

-----------------------------------------------------------------------------
(* Sequences *)

LEMMA ConsProperties ==
  ASSUME NEW S, NEW x \in S, NEW s \in Seq(S)
  PROVE  /\ <<x>> \o s \in Seq(S) /\ <<x>> \o s # <<>>
         /\ Len(<<x>> \o s) = Len(s) + 1
         /\ Head(<<x>> \o s) = x /\ Tail(<<x>> \o s) = s
         /\ (<<x>> \o s)[1] = x /\ \A k \in 1..Len(s) : (<<x>> \o s)[k + 1] = s[k]
<1> DEFINE t == <<x>> \o s
<1>1. <<x>> \in Seq(S) /\ Len(<<x>>) = 1 /\ Len(s) \in Nat
  BY LenProperties
<1>2. t \in Seq(S) /\ Len(t) = 1 + Len(s)
      /\ \A i \in 1..1 + Len(s) : t[i] = IF i <= 1 THEN <<x>>[i] ELSE s[i - 1]
  BY <1>1, ConcatProperties
<1>3. t[1] = x /\ \A k \in 1..Len(s) : t[k + 1] = s[k]
  BY <1>1, <1>2
<1>4. t # <<>>
  BY <1>1, <1>2, EmptySeq
<1> HIDE DEF t
<1>5. Tail(t) \in Seq(S) /\ Len(Tail(t)) = Len(s) /\ \A k \in 1..Len(s) : Tail(t)[k] = t[k + 1]
  BY <1>1, <1>2, <1>4, HeadTailProperties
<1>6. Tail(t) = s
  BY <1>3, <1>5, SeqEqual
<1>7. Head(t) = x
  BY <1>1, <1>2, <1>3
<1> QED
  BY <1>1, <1>2, <1>3, <1>4, <1>6, <1>7 DEF t

(* What is left behind the first k elements. *)
LEMMA Rest ==
  ASSUME NEW S, NEW s \in Seq(S), NEW k \in Nat
  PROVE  /\ SubSeq(s, k + 1, Len(s)) \in Seq(S)
         /\ k > 0 /\ s # <<>> => Len(SubSeq(s, k + 1, Len(s))) < Len(s)
<1>1. Len(s) \in Nat /\ (s # <<>> => Len(s) > 0)
  BY EmptySeq, LenProperties
<1>2. \A i \in k + 1..Len(s) : s[i] \in S
  BY <1>1, ElementOfSeq
<1> QED
  BY <1>1, <1>2, SubSeqProperties

LEMMA RestOfConcat ==
  ASSUME NEW S, NEW s \in Seq(S), NEW t \in Seq(S)
  PROVE  SubSeq(s \o t, Len(s) + 1, Len(s \o t)) = t
<1>1. /\ Len(s) \in Nat /\ Len(t) \in Nat
      /\ s \o t \in Seq(S) /\ Len(s \o t) = Len(s) + Len(t)
  BY LenProperties, ConcatProperties
<1>2. \A i \in 1..Len(t) : (s \o t)[Len(s) + i] = t[i]
  BY <1>1, ConcatProperties
<1> DEFINE u == SubSeq(s \o t, Len(s) + 1, Len(s \o t))
<1>3. \A i \in Len(s) + 1..Len(s \o t) : (s \o t)[i] \in S
  BY <1>1, ElementOfSeq
<1>4. /\ u \in Seq(S) /\ Len(u) = Len(t)
      /\ \A i \in 1..Len(t) : u[i] = (s \o t)[Len(s) + i]
  <2>1. /\ u \in Seq(S)
        /\ Len(u) = IF Len(s) + 1 <= Len(s \o t) THEN Len(s \o t) - (Len(s) + 1) + 1 ELSE 0
        /\ \A i \in 1..Len(s \o t) - (Len(s) + 1) + 1 : u[i] = (s \o t)[Len(s) + 1 + i - 1]
    BY <1>1, <1>3, SubSeqProperties
  <2> HIDE DEF u
  <2>2. Len(s \o t) - (Len(s) + 1) + 1 = Len(t)
    BY <1>1
  <2>3. \A i \in 1..Len(t) : Len(s) + 1 + i - 1 = Len(s) + i
    BY <1>1
  <2>4. Len(u) = Len(t)
    BY <1>1, <2>1, <2>2
  <2> QED
    BY <2>1, <2>2, <2>3, <2>4
<1> HIDE DEF u
<1>5. u = t
  BY <1>2, <1>4, SeqEqual
<1> QED
  BY <1>5 DEF u

-----------------------------------------------------------------------------
(* Numbers in bytes *)

LEMMA VarintConstants ==
  Base \in Nat /\ Base > 1 /\ Width \in Nat /\ Width > Base
BY VarintAssumption

LEMMA Digits ==
  ASSUME NEW v \in Nat, v >= Base
  PROVE  /\ v \div Base \in Nat /\ v \div Base < v
         /\ (v % Base) + Base \in Nat /\ (v % Base) + Base >= Base
         /\ ((v % Base) + Base - Base) + (Base * (v \div Base)) = v
<1>1. v \div Base \in Nat /\ v % Base \in 0..Base - 1
  BY VarintConstants
<1>2. v \div Base < v
  BY VarintConstants
<1>3. v = (v % Base) + (Base * (v \div Base))
  BY VarintConstants
<1>4. Base * (v \div Base) \in Nat
  BY <1>1, VarintConstants
<1> QED
  BY <1>1, <1>2, <1>3, <1>4, VarintConstants

(* The equation of encode_varint. *)
LEMMA EncodeVarint ==
  /\ encode_varint \in [Nat -> Seq(Nat)]
  /\ \A v \in Nat : v < Base => encode_varint[v] = <<v>>
  /\ \A v \in Nat : v >= Base =>
       encode_varint[v] = <<(v % Base) + Base>> \o encode_varint[v \div Base]
<1> DEFINE m == [x \in Nat |-> x]
           B == {x \in Nat : x < Base}
           b == [x \in B |-> <<x>>]
           p == [x \in Nat \ B |-> x \div Base]
           g == [t \in (Nat \ B) \X Seq(Nat) |-> <<(t[1] % Base) + Base>> \o t[2]]
           Equation(h) == h = [x \in Nat |-> IF x < Base THEN <<x>>
                                  ELSE <<(x % Base) + Base>> \o h[x \div Base]]
<1>1. \A x \in Nat \ B : x >= Base /\ ~(x < Base) /\ x \div Base \in Nat
  BY VarintConstants, Digits
<1>2. \A t \in (Nat \ B) \X Seq(Nat) : <<(t[1] % Base) + Base>> \o t[2] \in Seq(Nat)
  BY <1>1, Digits, ConsProperties
<1>3. Recursive(Nat, Seq(Nat), m, B, b, p, g)
  <2>1. m \in [Nat -> Nat] /\ B \in SUBSET Nat /\ b \in [B -> Seq(Nat)]
    OBVIOUS
  <2>2. p \in [Nat \ B -> Nat] /\ \A x \in Nat \ B : m[p[x]] < m[x]
    BY <1>1, Digits
  <2>3. g \in [(Nat \ B) \X Seq(Nat) -> Seq(Nat)]
    BY <1>2
  <2> HIDE DEF m, B, b, p, g
  <2> QED
    BY <2>1, <2>2, <2>3 DEF Recursive
<1>4. PICK f : Solves(f, Nat, Seq(Nat), B, b, p, g)
  <2> HIDE DEF m, B, b, p, g
  <2> QED
    BY <1>3, Recursion
<1>5. \A x \in Nat : f[x] = IF x < Base THEN <<x>>
                             ELSE <<(x % Base) + Base>> \o f[x \div Base]
  BY <1>1, <1>4 DEF Solves
<1>6. Equation(f)
  BY <1>4, <1>5 DEF Solves
<1>7. encode_varint = CHOOSE h : Equation(h)
  BY DEF encode_varint
<1>8. Equation(encode_varint)
  <2> HIDE DEF Equation
  <2> QED
    BY <1>6, <1>7
<1>9. \A x \in Nat : encode_varint[x] = IF x < Base THEN <<x>>
                             ELSE <<(x % Base) + Base>> \o encode_varint[x \div Base]
  BY <1>8
<1>10. Follows(encode_varint, Nat, Seq(Nat), B, b, p, g)
  <2> SUFFICES ASSUME NEW x \in Nat
               PROVE  /\ x \in B => encode_varint[x] = b[x]
                      /\ x \notin B /\ encode_varint[p[x]] \in Seq(Nat) =>
                           encode_varint[x] = g[<<x, encode_varint[p[x]]>>]
    BY DEF Follows
  <2>1. x \in B => encode_varint[x] = b[x]
    BY <1>9
  <2>2. x \notin B =>
          encode_varint[x] = <<(x % Base) + Base>> \o encode_varint[x \div Base]
    BY <1>1, <1>9
  <2>3. x \notin B => p[x] = x \div Base
    OBVIOUS
  <2>4. \A t \in Seq(Nat) : x \notin B => g[<<x, t>>] = <<(x % Base) + Base>> \o t
    OBVIOUS
  <2> HIDE DEF B, b, p, g, Equation
  <2> QED
    BY <2>1, <2>2, <2>3, <2>4
<1>11. \A x \in Nat : encode_varint[x] \in Seq(Nat)
  <2> HIDE DEF m, B, b, p, g, Equation
  <2> QED
    BY <1>3, <1>10, RecursionRange
<1>12. encode_varint \in [Nat -> Seq(Nat)]
  BY <1>8, <1>11
<1>13. \A x \in Nat : x < Base => encode_varint[x] = <<x>>
  BY <1>9
<1>14. \A x \in Nat : x >= Base =>
         encode_varint[x] = <<(x % Base) + Base>> \o encode_varint[x \div Base]
  <2>1. \A x \in Nat : x >= Base => ~(x < Base)
    BY VarintConstants
  <2> DEFINE More(x) == <<(x % Base) + Base>> \o encode_varint[x \div Base]
  <2>2. \A x \in Nat : encode_varint[x] = IF x < Base THEN <<x>> ELSE More(x)
    BY <1>9
  <2> HIDE DEF More
  <2>3. \A x \in Nat : x >= Base => encode_varint[x] = More(x)
    BY <2>1, <2>2
  <2> QED
    BY <2>3 DEF More
<1> QED
  BY <1>12, <1>13, <1>14

(* The equation of decode_varint, which takes a byte at least if there is one. *)
LEMMA DecodeVarint ==
  /\ decode_varint \in [Seq(Nat) -> Nat \X Nat]
  /\ \A s \in Seq(Nat) : s # <<>> =>
       decode_varint[s] = IF Head(s) < Base THEN <<Head(s), 1>>
                          ELSE <<(Head(s) - Base) + (Base * decode_varint[Tail(s)][1]),
                                 1 + decode_varint[Tail(s)][2]>>
  /\ \A s \in Seq(Nat) : s # <<>> => decode_varint[s][2] > 0
<1> DEFINE S == Seq(Nat)
           V == Nat \X Nat
           m == [s \in S |-> Len(s)]
           B == {s \in S : s = <<>> \/ Head(s) < Base}
           b == [s \in B |-> IF s = <<>> THEN <<0, 0>> ELSE <<Head(s), 1>>]
           p == [s \in S \ B |-> Tail(s)]
           Read(s, t) == <<(Head(s) - Base) + (Base * t[1]), 1 + t[2]>>
           g == [t \in (S \ B) \X V |-> Read(t[1], t[2])]
           Equation(h) == h = [s \in Seq(Nat) |->
                                 IF s = <<>> THEN <<0, 0>>
                                 ELSE IF Head(s) < Base THEN <<Head(s), 1>>
                                 ELSE <<(Head(s) - Base) + (Base * h[Tail(s)][1]),
                                        1 + h[Tail(s)][2]>>]
<1>1. \A s \in S : s # <<>> => /\ Head(s) \in Nat /\ Tail(s) \in S
                               /\ Len(Tail(s)) = Len(s) - 1 /\ Len(s) \in Nat \ {0}
  BY HeadTailProperties, EmptySeq
<1>2. \A s \in S \ B, t \in V : Read(s, t) \in V
  <2> SUFFICES ASSUME NEW s \in S \ B, NEW t \in V PROVE Read(s, t) \in V
    OBVIOUS
  <2>1. Head(s) \in Nat /\ Head(s) >= Base
    <3>1. s \in S /\ s # <<>> /\ ~(Head(s) < Base)
      OBVIOUS
    <3>2. Head(s) \in Nat
      BY <1>1, <3>1
    <3> QED
      BY <3>1, <3>2, VarintConstants
  <2>2. Base * t[1] \in Nat /\ t[2] \in Nat
    BY VarintConstants
  <2>3. (Head(s) - Base) + (Base * t[1]) \in Nat /\ 1 + t[2] \in Nat
    BY <2>1, <2>2, VarintConstants
  <2> QED
    BY <2>3
<1>3. Recursive(S, V, m, B, b, p, g)
  <2>1. m \in [S -> Nat] /\ B \in SUBSET S
    BY LenProperties
  <2>2. b \in [B -> V]
    BY <1>1
  <2>3. p \in [S \ B -> S] /\ \A s \in S \ B : m[p[s]] < m[s]
    BY <1>1
  <2>4. g \in [(S \ B) \X V -> V]
    <3> HIDE DEF S, B, V, Read
    <3> QED
      BY <1>2
  <2> HIDE DEF S, V, m, B, b, p, g
  <2> QED
    BY <2>1, <2>2, <2>3, <2>4 DEF Recursive
<1>4. PICK f : Solves(f, S, V, B, b, p, g)
  <2> HIDE DEF S, V, m, B, b, p, g
  <2> QED
    BY <1>3, Recursion
<1>5. \A s \in S : f[s] = IF s = <<>> THEN <<0, 0>>
                          ELSE IF Head(s) < Base THEN <<Head(s), 1>>
                          ELSE <<(Head(s) - Base) + (Base * f[Tail(s)][1]),
                                 1 + f[Tail(s)][2]>>
  <2> SUFFICES ASSUME NEW s \in S
               PROVE  f[s] = IF s = <<>> THEN <<0, 0>>
                             ELSE IF Head(s) < Base THEN <<Head(s), 1>>
                             ELSE <<(Head(s) - Base) + (Base * f[Tail(s)][1]),
                                    1 + f[Tail(s)][2]>>
    OBVIOUS
  <2>1. CASE s \in B
    BY <1>4, <2>1 DEF Solves
  <2>2. CASE s \notin B
    <3>1. f[s] = g[<<s, f[Tail(s)]>>] /\ f[Tail(s)] \in V
      BY <1>1, <1>4, <2>2 DEF Solves
    <3>2. f[s] = Read(s, f[Tail(s)])
      BY <2>2, <3>1
    <3>3. s # <<>> /\ ~(Head(s) < Base)
      BY <2>2
    <3> QED
      BY <3>2, <3>3
  <2> QED
    BY <2>1, <2>2
<1>6. Equation(f)
  BY <1>4, <1>5 DEF Solves
<1>7. decode_varint = CHOOSE h : Equation(h)
  BY DEF decode_varint
<1>8. Equation(decode_varint)
  <2> HIDE DEF Equation
  <2> QED
    BY <1>6, <1>7
<1>9. \A s \in S : decode_varint[s] =
                    IF s = <<>> THEN <<0, 0>>
                    ELSE IF Head(s) < Base THEN <<Head(s), 1>>
                    ELSE <<(Head(s) - Base) + (Base * decode_varint[Tail(s)][1]),
                           1 + decode_varint[Tail(s)][2]>>
  BY <1>8
<1>10. Follows(decode_varint, S, V, B, b, p, g)
  <2> SUFFICES ASSUME NEW s \in S
               PROVE  /\ s \in B => decode_varint[s] = b[s]
                      /\ s \notin B /\ decode_varint[p[s]] \in V =>
                           decode_varint[s] = g[<<s, decode_varint[p[s]]>>]
    BY DEF Follows
  <2>1. s \in B => decode_varint[s] = b[s]
    BY <1>9
  <2>2. s \notin B => decode_varint[s] = Read(s, decode_varint[Tail(s)])
    <3>1. s \notin B => s # <<>> /\ ~(Head(s) < Base)
      OBVIOUS
    <3> HIDE DEF B
    <3> QED
      BY <1>9, <3>1
  <2>3. s \notin B => p[s] = Tail(s)
    OBVIOUS
  <2>4. \A t \in V : s \notin B => g[<<s, t>>] = Read(s, t)
    OBVIOUS
  <2> HIDE DEF S, B, V, b, p, g, Read, Equation
  <2> QED
    BY <2>1, <2>2, <2>3, <2>4
<1>11. \A s \in S : decode_varint[s] \in V
  <2> HIDE DEF S, V, m, B, b, p, g, Equation
  <2> QED
    BY <1>3, <1>10, RecursionRange
<1>12. decode_varint \in [Seq(Nat) -> Nat \X Nat]
  BY <1>8, <1>11
<1>13. \A s \in S : s # <<>> => decode_varint[s][2] > 0
  <2> SUFFICES ASSUME NEW s \in S, s # <<>> PROVE decode_varint[s][2] > 0
    OBVIOUS
  <2>1. CASE Head(s) < Base
    <3>1. decode_varint[s] = <<Head(s), 1>>
      BY <1>9, <2>1
    <3>2. <<Head(s), 1>>[2] = 1
      OBVIOUS
    <3> QED
      BY <3>1, <3>2
  <2>2. CASE ~(Head(s) < Base)
    <3>1. decode_varint[Tail(s)][2] \in Nat
      BY <1>1, <1>11
    <3> DEFINE n == 1 + decode_varint[Tail(s)][2]
               k == (Head(s) - Base) + (Base * decode_varint[Tail(s)][1])
    <3>2. decode_varint[s] = <<k, n>>
      BY <1>9, <2>2
    <3>3. n > 0
      BY <3>1
    <3> HIDE DEF n, k
    <3> QED
      BY <3>2, <3>3
  <2> QED
    BY <2>1, <2>2
<1> QED
  BY <1>9, <1>12, <1>13

(* Reading bytes gives the number that was written, whatever follows. *)
LEMMA VarintIsReadBack ==
  ASSUME NEW c \in Seq(Nat)
  PROVE  \A v \in Nat : /\ encode_varint[v] \in Seq(Nat)
                        /\ decode_varint[encode_varint[v] \o c] = <<v, Len(encode_varint[v])>>
<1> DEFINE T == {v \in Nat : decode_varint[encode_varint[v] \o c]
                               = <<v, Len(encode_varint[v])>>}
<1>1. ASSUME NEW v \in Nat, \A k \in Nat : k < v => k \in T
      PROVE  v \in T
  <2>1. CASE v < Base
    <3>1. encode_varint[v] = <<v>> /\ Len(<<v>>) = 1
      BY <2>1, EncodeVarint
    <3>2. <<v>> \o c \in Seq(Nat) /\ <<v>> \o c # <<>> /\ Head(<<v>> \o c) = v
      BY ConsProperties
    <3>3. decode_varint[<<v>> \o c] = <<v, 1>>
      BY <2>1, <3>2, DecodeVarint
    <3> QED
      BY <3>1, <3>3
  <2>2. CASE v >= Base
    <3> DEFINE w == v \div Base
               x == (v % Base) + Base
               e == encode_varint[w]
    <3>1. /\ w \in Nat /\ w < v /\ x \in Nat /\ ~(x < Base)
          /\ (x - Base) + (Base * w) = v
      BY <2>2, Digits, VarintConstants
    <3>2. e \in Seq(Nat) /\ encode_varint[v] = <<x>> \o e
      BY <2>2, <3>1, EncodeVarint
    <3>3. decode_varint[e \o c] = <<w, Len(e)>>
      BY <1>1, <3>1
    <3> HIDE DEF w, x, e
    <3>4. e \o c \in Seq(Nat) /\ Len(e) \in Nat
      BY <3>2, ConcatProperties, LenProperties
    <3>5. Len(<<x>> \o e) = Len(e) + 1
      BY <3>1, <3>2, ConsProperties
    <3>6. (<<x>> \o e) \o c = <<x>> \o (e \o c)
      <4>1. <<x>> \in Seq(Nat)
        BY <3>1
      <4> QED
        BY <3>2, <4>1, ConcatAssociative
    <3> DEFINE s == <<x>> \o (e \o c)
    <3>7. s \in Seq(Nat) /\ s # <<>> /\ Head(s) = x /\ Tail(s) = e \o c
      <4> DEFINE d == e \o c
      <4>1. d \in Seq(Nat) /\ x \in Nat
        BY <3>1, <3>4
      <4> HIDE DEF d
      <4>2. <<x>> \o d \in Seq(Nat) /\ <<x>> \o d # <<>>
            /\ Head(<<x>> \o d) = x /\ Tail(<<x>> \o d) = d
        BY <4>1, ConsProperties
      <4> QED
        BY <4>2 DEF d
    <3> HIDE DEF s
    <3>8. decode_varint[s] = <<(x - Base) + (Base * decode_varint[e \o c][1]),
                               1 + decode_varint[e \o c][2]>>
      BY <3>1, <3>7, DecodeVarint
    <3>9. decode_varint[e \o c][1] = w /\ decode_varint[e \o c][2] = Len(e)
      BY <3>3
    <3>10. 1 + Len(e) = Len(e) + 1
      BY <3>4
    <3>11. decode_varint[s] = <<v, Len(e) + 1>>
      BY <3>1, <3>8, <3>9, <3>10
    <3> QED
      BY <3>2, <3>5, <3>6, <3>11 DEF s
  <2> QED
    BY <2>1, <2>2, VarintConstants
<1>2. \A v \in Nat : v \in T
  <2> HIDE DEF T
  <2> QED
    BY <1>1, StrongInduction
<1> QED
  BY <1>2, EncodeVarint

-----------------------------------------------------------------------------
(* Lists *)

LEMMA SumsAreBelowWidth ==
  \A x, y \in Nat : (x + y) % Width \in Nat /\ (x + y) % Width < Width
BY VarintConstants

LEMMA DeltasAreNumbers ==
  \A x, y \in Nat : (x - y) % Width \in Nat
BY VarintConstants

(* A difference modulo Width takes the one value to the other, whichever   *)
(* is greater.                                                             *)
LEMMA Wraps ==
  ASSUME NEW x \in Nat, NEW y \in Nat, x < Width, y < Width
  PROVE  (x + ((y - x) % Width)) % Width = y
<1>1. CASE x <= y
  <2>1. (y - x) % Width = y - x
    BY <1>1, VarintConstants
  <2>2. x + (y - x) = y /\ y % Width = y
    BY VarintConstants
  <2> QED
    BY <2>1, <2>2
<1>2. CASE y < x
  <2>1. (y - x) % Width = (y - x) + Width
    BY <1>2, VarintConstants
  <2>2. x + ((y - x) + Width) = y + Width
    BY VarintConstants
  <2>3. (y + Width) % Width = y
    BY VarintConstants
  <2> QED
    BY <2>1, <2>2, <2>3
<1> QED
  BY <1>1, <1>2

Written(s) == encode_varint[(s[2] - s[1]) % Width]

LEMMA WrittenBytes ==
  ASSUME NEW s \in Seq(Nat), Len(s) >= 2
  PROVE  /\ s[1] \in Nat /\ s[2] \in Nat
         /\ (s[2] - s[1]) % Width \in Nat
         /\ Written(s) \in Seq(Nat)
<1>1. s[1] \in Nat /\ s[2] \in Nat
  BY ElementOfSeq, LenProperties
<1>2. (s[2] - s[1]) % Width \in Nat
  BY <1>1, DeltasAreNumbers
<1> QED
  BY <1>1, <1>2, EncodeVarint DEF Written

(* The equation of Encoded. *)
LEMMA EncodedValues ==
  /\ Encoded \in [Seq(Nat) -> Seq(Nat)]
  /\ \A s \in Seq(Nat) : Len(s) < 2 => Encoded[s] = <<>>
  /\ \A s \in Seq(Nat) : Len(s) >= 2 => Encoded[s] = Written(s) \o Encoded[Tail(s)]
<1> DEFINE S == Seq(Nat)
           m == [s \in S |-> Len(s)]
           B == {s \in S : Len(s) < 2}
           b == [s \in B |-> <<>>]
           p == [s \in S \ B |-> Tail(s)]
           g == [t \in (S \ B) \X S |-> Written(t[1]) \o t[2]]
           Equation(h) == h = [s \in Seq(Nat) |->
             IF Len(s) < 2 THEN <<>>
             ELSE encode_varint[(s[2] - s[1]) % Width] \o h[Tail(s)]]
<1>1. \A s \in S : /\ Len(s) \in Nat
                   /\ s \notin B => /\ Len(s) >= 2 /\ ~(Len(s) < 2)
                                    /\ Tail(s) \in S /\ Len(Tail(s)) < Len(s)
  <2> SUFFICES ASSUME NEW s \in S
               PROVE  /\ Len(s) \in Nat
                      /\ s \notin B => /\ Len(s) >= 2 /\ ~(Len(s) < 2)
                                       /\ Tail(s) \in S /\ Len(Tail(s)) < Len(s)
    OBVIOUS
  <2>1. Len(s) \in Nat
    BY LenProperties
  <2>2. s \notin B => Len(s) >= 2 /\ ~(Len(s) < 2) /\ s # <<>>
    BY <2>1, EmptySeq
  <2>3. s # <<>> => Tail(s) \in S /\ Len(Tail(s)) = Len(s) - 1
    BY HeadTailProperties
  <2> QED
    BY <2>1, <2>2, <2>3
<1>2. \A t \in (S \ B) \X S : Written(t[1]) \o t[2] \in S
  <2> SUFFICES ASSUME NEW s \in S \ B, NEW u \in S PROVE Written(s) \o u \in S
    OBVIOUS
  <2>1. Written(s) \in Seq(Nat)
    BY <1>1, WrittenBytes
  <2> QED
    BY <2>1, ConcatProperties
<1>3. Recursive(S, S, m, B, b, p, g)
  <2>1. m \in [S -> Nat] /\ B \in SUBSET S
    BY <1>1
  <2>2. b \in [B -> S]
    <3>1. <<>> \in S
      BY EmptySeq
    <3> QED
      BY <3>1
  <2>3. p \in [S \ B -> S] /\ \A s \in S \ B : m[p[s]] < m[s]
    BY <1>1
  <2>4. g \in [(S \ B) \X S -> S]
    BY <1>2
  <2> HIDE DEF S, m, B, b, p, g
  <2> QED
    BY <2>1, <2>2, <2>3, <2>4 DEF Recursive
<1>4. PICK f : Solves(f, S, S, B, b, p, g)
  <2> HIDE DEF S, m, B, b, p, g
  <2> QED
    BY <1>3, Recursion
<1>5. \A s \in S : f[s] = IF Len(s) < 2 THEN <<>> ELSE Written(s) \o f[Tail(s)]
  <2> SUFFICES ASSUME NEW s \in S
               PROVE  f[s] = IF Len(s) < 2 THEN <<>> ELSE Written(s) \o f[Tail(s)]
    OBVIOUS
  <2>1. CASE s \in B
    <3>1. f[s] = b[s]
      BY <1>4, <2>1 DEF Solves
    <3> QED
      BY <2>1, <3>1
  <2>2. CASE s \notin B
    <3>1. f[s] = g[<<s, f[p[s]]>>] /\ f[p[s]] \in S
      <4>1. p[s] \in S
        BY <1>3, <2>2 DEF Recursive
      <4> HIDE DEF S, B, p, g
      <4> QED
        BY <1>4, <2>2, <4>1 DEF Solves
    <3>2. p[s] = Tail(s) /\ ~(Len(s) < 2)
      BY <2>2
    <3>3. \A u \in S : g[<<s, u>>] = Written(s) \o u
      BY <2>2
    <3>4. f[s] = Written(s) \o f[Tail(s)]
      <4> HIDE DEF S, B, p, g
      <4> QED
        BY <3>1, <3>2, <3>3
    <3> HIDE DEF S, B, p, g
    <3> QED
      BY <3>2, <3>4
  <2> QED
    BY <2>1, <2>2
<1>6. Equation(f)
  <2>1. f = [s \in S |-> IF Len(s) < 2 THEN <<>> ELSE Written(s) \o f[Tail(s)]]
    BY <1>4, <1>5 DEF Solves
  <2> QED
    BY <2>1 DEF Written
<1>7. Encoded = CHOOSE h : Equation(h)
  BY DEF Encoded
<1>8. Equation(Encoded)
  <2> HIDE DEF Equation
  <2> QED
    BY <1>6, <1>7
<1>9. Encoded = [s \in S |-> IF Len(s) < 2 THEN <<>> ELSE Written(s) \o Encoded[Tail(s)]]
  BY <1>8 DEF Written
<1>10. \A s \in S : Encoded[s] = IF Len(s) < 2 THEN <<>> ELSE Written(s) \o Encoded[Tail(s)]
  BY <1>9
<1>11. Follows(Encoded, S, S, B, b, p, g)
  BY <1>1, <1>10 DEF Follows
<1>12. \A s \in S : Encoded[s] \in S
  <2> HIDE DEF S, m, B, b, p, g, Equation
  <2> QED
    BY <1>3, <1>11, RecursionRange
<1>13. Encoded \in [S -> S]
  BY <1>9, <1>12
<1>14. \A s \in S : Len(s) >= 2 => ~(Len(s) < 2)
  BY <1>1
<1> QED
  BY <1>10, <1>13, <1>14

(* The next value and the bytes behind it. *)
Next1(x, d) == (x + decode_varint[d][1]) % Width
Behind(d) == SubSeq(d, decode_varint[d][2] + 1, Len(d))

LEMMA ReadOne ==
  ASSUME NEW x \in Nat, NEW d \in Seq(Nat)
  PROVE  /\ Next1(x, d) \in Nat /\ Behind(d) \in Seq(Nat)
         /\ d # <<>> => Len(Behind(d)) < Len(d)
<1>1. decode_varint[d][1] \in Nat /\ decode_varint[d][2] \in Nat
  BY DecodeVarint
<1>2. d # <<>> => decode_varint[d][2] > 0
  BY DecodeVarint
<1>3. Next1(x, d) \in Nat
  BY <1>1, SumsAreBelowWidth DEF Next1
<1> QED
  BY <1>1, <1>2, <1>3, Rest DEF Behind

(* The equation of Decoded. *)
LEMMA DecodedValues ==
  /\ Decoded \in [Nat \X Seq(Nat) -> Seq(Nat)]
  /\ \A x \in Nat : Decoded[<<x, <<>>>>] = <<>>
  /\ \A x \in Nat, d \in Seq(Nat) : d # <<>> =>
       Decoded[<<x, d>>] = <<Next1(x, d)>> \o Decoded[<<Next1(x, d), Behind(d)>>]
<1> DEFINE S == Nat \X Seq(Nat)
           V == Seq(Nat)
           m == [s \in S |-> Len(s[2])]
           B == {s \in S : s[2] = <<>>}
           b == [s \in B |-> <<>>]
           p == [s \in S \ B |-> <<Next1(s[1], s[2]), Behind(s[2])>>]
           g == [t \in (S \ B) \X V |-> <<Next1(t[1][1], t[1][2])>> \o t[2]]
           Equation(h) == h = [s \in Nat \X Seq(Nat) |->
             IF s[2] = <<>> THEN <<>>
             ELSE <<(s[1] + decode_varint[s[2]][1]) % Width>>
                    \o h[<<(s[1] + decode_varint[s[2]][1]) % Width,
                           SubSeq(s[2], decode_varint[s[2]][2] + 1, Len(s[2]))>>]]
<1>1. \A s \in S : /\ Len(s[2]) \in Nat
                   /\ Next1(s[1], s[2]) \in Nat /\ Behind(s[2]) \in Seq(Nat)
                   /\ s \notin B => s[2] # <<>> /\ Len(Behind(s[2])) < Len(s[2])
  <2> SUFFICES ASSUME NEW x \in Nat, NEW d \in Seq(Nat)
               PROVE  /\ Len(d) \in Nat
                      /\ Next1(x, d) \in Nat /\ Behind(d) \in Seq(Nat)
                      /\ <<x, d>> \notin B => d # <<>> /\ Len(Behind(d)) < Len(d)
    OBVIOUS
  <2>1. <<x, d>> \notin B => d # <<>>
    OBVIOUS
  <2> HIDE DEF B
  <2> QED
    BY <2>1, ReadOne, LenProperties
<1>2. \A t \in (S \ B) \X V : <<Next1(t[1][1], t[1][2])>> \o t[2] \in V
  <2> SUFFICES ASSUME NEW s \in S \ B, NEW u \in V PROVE <<Next1(s[1], s[2])>> \o u \in V
    OBVIOUS
  <2>1. Next1(s[1], s[2]) \in Nat
    BY <1>1
  <2> QED
    BY <2>1, ConsProperties
<1>3. Recursive(S, V, m, B, b, p, g)
  <2>1. m \in [S -> Nat] /\ B \in SUBSET S
    <3>1. \A s \in S : Len(s[2]) \in Nat
      BY <1>1
    <3> HIDE DEF S
    <3> QED
      BY <3>1
  <2>2. b \in [B -> V]
    <3>1. <<>> \in V
      BY EmptySeq
    <3> QED
      BY <3>1
  <2>3. p \in [S \ B -> S] /\ \A s \in S \ B : m[p[s]] < m[s]
    <3>1. \A s \in S \ B : /\ <<Next1(s[1], s[2]), Behind(s[2])>> \in S
                           /\ Len(<<Next1(s[1], s[2]), Behind(s[2])>>[2]) < Len(s[2])
      <4> SUFFICES ASSUME NEW s \in S \ B
                   PROVE  /\ <<Next1(s[1], s[2]), Behind(s[2])>> \in S
                          /\ Len(Behind(s[2])) < Len(s[2])
        OBVIOUS
      <4>1. /\ Next1(s[1], s[2]) \in Nat /\ Behind(s[2]) \in Seq(Nat)
            /\ Len(Behind(s[2])) < Len(s[2])
        <5> HIDE DEF S, B
        <5> QED
          BY <1>1
      <4> QED
        BY <4>1
    <3> HIDE DEF S, B
    <3> QED
      BY <3>1
  <2>4. g \in [(S \ B) \X V -> V]
    <3> HIDE DEF S, B, V
    <3> QED
      BY <1>2
  <2> HIDE DEF S, V, m, B, b, p, g
  <2> QED
    BY <2>1, <2>2, <2>3, <2>4 DEF Recursive
<1>4. PICK f : Solves(f, S, V, B, b, p, g)
  <2> HIDE DEF S, V, m, B, b, p, g
  <2> QED
    BY <1>3, Recursion
<1>5. \A s \in S : f[s] = IF s[2] = <<>> THEN <<>>
                          ELSE <<Next1(s[1], s[2])>> \o f[<<Next1(s[1], s[2]), Behind(s[2])>>]
  <2> SUFFICES ASSUME NEW s \in S
               PROVE  f[s] = IF s[2] = <<>> THEN <<>>
                             ELSE <<Next1(s[1], s[2])>> \o f[<<Next1(s[1], s[2]), Behind(s[2])>>]
    OBVIOUS
  <2>1. CASE s \in B
    <3>1. f[s] = b[s]
      BY <1>4, <2>1 DEF Solves
    <3> QED
      BY <2>1, <3>1
  <2>2. CASE s \notin B
    <3>1. f[s] = g[<<s, f[p[s]]>>] /\ f[p[s]] \in V
      <4>1. p[s] \in S
        BY <1>3, <2>2 DEF Recursive
      <4> HIDE DEF S, V, B, p, g
      <4> QED
        BY <1>4, <2>2, <4>1 DEF Solves
    <3>2. p[s] = <<Next1(s[1], s[2]), Behind(s[2])>> /\ s[2] # <<>>
      BY <2>2
    <3>3. \A u \in V : g[<<s, u>>] = <<Next1(s[1], s[2])>> \o u
      BY <2>2
    <3>4. f[s] = <<Next1(s[1], s[2])>> \o f[<<Next1(s[1], s[2]), Behind(s[2])>>]
      <4> HIDE DEF S, V, B, p, g
      <4> QED
        BY <3>1, <3>2, <3>3
    <3> HIDE DEF S, B, p, g
    <3> QED
      BY <3>2, <3>4
  <2> QED
    BY <2>1, <2>2
<1>6. Equation(f)
  <2>1. f = [s \in S |-> IF s[2] = <<>> THEN <<>>
                ELSE <<Next1(s[1], s[2])>> \o f[<<Next1(s[1], s[2]), Behind(s[2])>>]]
    BY <1>4, <1>5 DEF Solves
  <2> QED
    BY <2>1 DEF Next1, Behind
<1>7. Decoded = CHOOSE h : Equation(h)
  BY DEF Decoded
<1>8. Equation(Decoded)
  <2> HIDE DEF Equation
  <2> QED
    BY <1>6, <1>7
<1>9. Decoded = [s \in S |-> IF s[2] = <<>> THEN <<>>
                  ELSE <<Next1(s[1], s[2])>> \o Decoded[<<Next1(s[1], s[2]), Behind(s[2])>>]]
  BY <1>8 DEF Next1, Behind
<1>10. \A s \in S : Decoded[s] =
         IF s[2] = <<>> THEN <<>>
         ELSE <<Next1(s[1], s[2])>> \o Decoded[<<Next1(s[1], s[2]), Behind(s[2])>>]
  BY <1>9
<1>11. Follows(Decoded, S, V, B, b, p, g)
  BY <1>1, <1>10 DEF Follows
<1>12. \A s \in S : Decoded[s] \in V
  <2> HIDE DEF S, V, m, B, b, p, g, Equation
  <2> QED
    BY <1>3, <1>11, RecursionRange
<1>13. Decoded \in [S -> V]
  BY <1>9, <1>12
<1>14. \A x \in Nat : Decoded[<<x, <<>>>>] = <<>>
  <2>1. <<>> \in Seq(Nat)
    BY EmptySeq
  <2>2. \A x \in Nat : <<x, <<>>>> \in S /\ <<x, <<>>>>[2] = <<>>
    BY <2>1
  <2> QED
    BY <1>10, <2>2
<1>15. \A x \in Nat, d \in Seq(Nat) : d # <<>> =>
         Decoded[<<x, d>>] = <<Next1(x, d)>> \o Decoded[<<Next1(x, d), Behind(d)>>]
  <2> SUFFICES ASSUME NEW x \in Nat, NEW d \in Seq(Nat), d # <<>>
               PROVE  Decoded[<<x, d>>] = <<Next1(x, d)>> \o Decoded[<<Next1(x, d), Behind(d)>>]
    OBVIOUS
  <2>1. <<x, d>> \in S /\ <<x, d>>[1] = x /\ <<x, d>>[2] = d
    OBVIOUS
  <2> QED
    BY <1>10, <2>1
<1> QED
  BY <1>13, <1>14, <1>15

(* The equation of Iterated. *)
LEMMA IteratedValues ==
  /\ Iterated \in [Nat \X Nat \X Seq(Nat) -> Seq(Nat)]
  /\ \A x \in Nat, d \in Seq(Nat) : /\ Iterated[<<0, x, d>>] = <<>>
                                    /\ Iterated[<<1, x, d>>] = <<x>>
  /\ \A n \in Nat \ {0, 1}, x \in Nat, d \in Seq(Nat) :
       Iterated[<<n, x, d>>] = <<x>> \o Iterated[<<n - 1, Next1(x, d), Behind(d)>>]
<1> DEFINE S == Nat \X Nat \X Seq(Nat)
           V == Seq(Nat)
           m == [s \in S |-> s[1]]
           B == {s \in S : s[1] \in {0, 1}}
           b == [s \in B |-> IF s[1] = 0 THEN <<>> ELSE <<s[2]>>]
           p == [s \in S \ B |-> <<s[1] - 1, Next1(s[2], s[3]), Behind(s[3])>>]
           g == [t \in (S \ B) \X V |-> <<t[1][2]>> \o t[2]]
           Equation(h) == h = [s \in Nat \X Nat \X Seq(Nat) |->
             IF s[1] = 0 THEN <<>>
             ELSE IF s[1] = 1 THEN <<s[2]>>
             ELSE <<s[2]>> \o h[<<s[1] - 1, (s[2] + decode_varint[s[3]][1]) % Width,
                                  SubSeq(s[3], decode_varint[s[3]][2] + 1, Len(s[3]))>>]]
<1>1. \A s \in S : /\ s[1] \in Nat /\ s[2] \in Nat
                   /\ Next1(s[2], s[3]) \in Nat /\ Behind(s[3]) \in Seq(Nat)
                   /\ s \notin B => s[1] # 0 /\ s[1] # 1 /\ s[1] - 1 \in Nat /\ s[1] - 1 < s[1]
  <2> SUFFICES ASSUME NEW n \in Nat, NEW x \in Nat, NEW d \in Seq(Nat)
               PROVE  /\ Next1(x, d) \in Nat /\ Behind(d) \in Seq(Nat)
                      /\ <<n, x, d>> \notin B =>
                           n # 0 /\ n # 1 /\ n - 1 \in Nat /\ n - 1 < n
    OBVIOUS
  <2>1. <<n, x, d>> \notin B => n # 0 /\ n # 1
    OBVIOUS
  <2> HIDE DEF B
  <2> QED
    BY <2>1, ReadOne
<1>2. \A t \in (S \ B) \X V : <<t[1][2]>> \o t[2] \in V
  <2> SUFFICES ASSUME NEW s \in S \ B, NEW u \in V PROVE <<s[2]>> \o u \in V
    OBVIOUS
  <2>1. s[2] \in Nat
    BY <1>1
  <2> QED
    BY <2>1, ConsProperties
<1>3. Recursive(S, V, m, B, b, p, g)
  <2>1. m \in [S -> Nat] /\ B \in SUBSET S
    OBVIOUS
  <2>2. b \in [B -> V]
    <3>1. <<>> \in V /\ \A x \in Nat : <<x>> \in V
      BY EmptySeq
    <3>2. \A s \in B : s[2] \in Nat
      BY <1>1
    <3> QED
      BY <3>1, <3>2
  <2>3. p \in [S \ B -> S] /\ \A s \in S \ B : m[p[s]] < m[s]
    <3>1. \A s \in S \ B : /\ <<s[1] - 1, Next1(s[2], s[3]), Behind(s[3])>> \in S
                           /\ <<s[1] - 1, Next1(s[2], s[3]), Behind(s[3])>>[1] < s[1]
      <4> SUFFICES ASSUME NEW s \in S \ B
                   PROVE  /\ <<s[1] - 1, Next1(s[2], s[3]), Behind(s[3])>> \in S
                          /\ s[1] - 1 < s[1]
        OBVIOUS
      <4>1. /\ s[1] - 1 \in Nat /\ s[1] - 1 < s[1]
            /\ Next1(s[2], s[3]) \in Nat /\ Behind(s[3]) \in Seq(Nat)
        <5> HIDE DEF S, B
        <5> QED
          BY <1>1
      <4> QED
        BY <4>1
    <3> HIDE DEF S, B
    <3> QED
      BY <3>1
  <2>4. g \in [(S \ B) \X V -> V]
    <3> HIDE DEF S, B, V
    <3> QED
      BY <1>2
  <2> HIDE DEF S, V, m, B, b, p, g
  <2> QED
    BY <2>1, <2>2, <2>3, <2>4 DEF Recursive
<1>4. PICK f : Solves(f, S, V, B, b, p, g)
  <2> HIDE DEF S, V, m, B, b, p, g
  <2> QED
    BY <1>3, Recursion
<1> DEFINE N(s) == <<s[1] - 1, Next1(s[2], s[3]), Behind(s[3])>>
<1>5. \A s \in S : f[s] = IF s[1] = 0 THEN <<>>
                          ELSE IF s[1] = 1 THEN <<s[2]>> ELSE <<s[2]>> \o f[N(s)]
  <2> SUFFICES ASSUME NEW s \in S
               PROVE  f[s] = IF s[1] = 0 THEN <<>>
                             ELSE IF s[1] = 1 THEN <<s[2]>> ELSE <<s[2]>> \o f[N(s)]
    OBVIOUS
  <2>1. CASE s \in B
    <3>1. f[s] = b[s]
      BY <1>4, <2>1 DEF Solves
    <3> QED
      BY <2>1, <3>1
  <2>2. CASE s \notin B
    <3>1. f[s] = g[<<s, f[p[s]]>>] /\ f[p[s]] \in V
      <4>1. p[s] \in S
        BY <1>3, <2>2 DEF Recursive
      <4> HIDE DEF S, V, B, p, g
      <4> QED
        BY <1>4, <2>2, <4>1 DEF Solves
    <3>2. p[s] = N(s) /\ s[1] # 0 /\ s[1] # 1
      BY <2>2
    <3>3. \A u \in V : g[<<s, u>>] = <<s[2]>> \o u
      BY <2>2
    <3>4. f[s] = <<s[2]>> \o f[N(s)]
      <4> HIDE DEF S, V, B, p, g
      <4> QED
        BY <3>1, <3>2, <3>3
    <3> HIDE DEF S, B, p, g
    <3> QED
      BY <3>2, <3>4
  <2> QED
    BY <2>1, <2>2
<1>6. Equation(f)
  <2>1. f = [s \in S |-> IF s[1] = 0 THEN <<>>
                         ELSE IF s[1] = 1 THEN <<s[2]>> ELSE <<s[2]>> \o f[N(s)]]
    <3> HIDE DEF N, S
    <3> QED
      BY <1>4, <1>5 DEF Solves
  <2> QED
    BY <2>1 DEF Next1, Behind
<1>7. Iterated = CHOOSE h : Equation(h)
  BY DEF Iterated
<1>8. Equation(Iterated)
  <2> HIDE DEF Equation
  <2> QED
    BY <1>6, <1>7
<1>9. Iterated = [s \in S |-> IF s[1] = 0 THEN <<>>
                              ELSE IF s[1] = 1 THEN <<s[2]>> ELSE <<s[2]>> \o Iterated[N(s)]]
  BY <1>8 DEF Next1, Behind
<1>10. \A s \in S : Iterated[s] = IF s[1] = 0 THEN <<>>
                                  ELSE IF s[1] = 1 THEN <<s[2]>>
                                  ELSE <<s[2]>> \o Iterated[N(s)]
  <2> HIDE DEF N, S
  <2> QED
    BY <1>9
<1>11. Follows(Iterated, S, V, B, b, p, g)
  BY <1>1, <1>10 DEF Follows
<1>12. \A s \in S : Iterated[s] \in V
  <2> HIDE DEF S, V, m, B, b, p, g, Equation
  <2> QED
    BY <1>3, <1>11, RecursionRange
<1>13. Iterated \in [S -> V]
  <2> HIDE DEF N
  <2> QED
    BY <1>9, <1>12
<1>14. ASSUME NEW n \in Nat, NEW x \in Nat, NEW d \in Seq(Nat)
       PROVE  /\ n = 0 => Iterated[<<n, x, d>>] = <<>>
              /\ n = 1 => Iterated[<<n, x, d>>] = <<x>>
              /\ n \notin {0, 1} => Iterated[<<n, x, d>>]
                                  = <<x>> \o Iterated[<<n - 1, Next1(x, d), Behind(d)>>]
  <2>1. /\ <<n, x, d>> \in S /\ <<n, x, d>>[1] = n /\ <<n, x, d>>[2] = x
        /\ N(<<n, x, d>>) = <<n - 1, Next1(x, d), Behind(d)>>
    OBVIOUS
  <2>2. Iterated[<<n, x, d>>] =
                IF n = 0 THEN <<>>
                ELSE IF n = 1 THEN <<x>>
                ELSE <<x>> \o Iterated[<<n - 1, Next1(x, d), Behind(d)>>]
    <3> DEFINE s == <<n, x, d>>
    <3>1. s \in S
      BY <2>1
    <3> HIDE DEF s, S, N
    <3>2. Iterated[s] = IF s[1] = 0 THEN <<>>
                         ELSE IF s[1] = 1 THEN <<s[2]>> ELSE <<s[2]>> \o Iterated[N(s)]
      BY <1>10, <3>1
    <3>3. s[1] = n /\ s[2] = x /\ N(s) = <<n - 1, Next1(x, d), Behind(d)>>
      BY <2>1 DEF s
    <3>4. Iterated[s] = IF n = 0 THEN <<>>
                         ELSE IF n = 1 THEN <<x>>
                         ELSE <<x>> \o Iterated[<<n - 1, Next1(x, d), Behind(d)>>]
      BY <3>2, <3>3
    <3> QED
      BY <3>4 DEF s
  <2> QED
    BY <2>2
<1>15. \A x \in Nat, d \in Seq(Nat) : /\ Iterated[<<0, x, d>>] = <<>>
                                      /\ Iterated[<<1, x, d>>] = <<x>>
  BY <1>14
<1>16. \A n \in Nat \ {0, 1}, x \in Nat, d \in Seq(Nat) :
         Iterated[<<n, x, d>>] = <<x>> \o Iterated[<<n - 1, Next1(x, d), Behind(d)>>]
  <2> SUFFICES ASSUME NEW n \in Nat \ {0, 1}, NEW x \in Nat, NEW d \in Seq(Nat)
               PROVE  Iterated[<<n, x, d>>]
                        = <<x>> \o Iterated[<<n - 1, Next1(x, d), Behind(d)>>]
    OBVIOUS
  <2>1. n \in Nat /\ n \notin {0, 1}
    OBVIOUS
  <2> QED
    BY <1>14, <2>1
<1> QED
  BY <1>13, <1>15, <1>16

-----------------------------------------------------------------------------
(* Reading a list *)

Ids == 0..Width - 1

LEMMA OneValue ==
  ASSUME NEW s \in Seq(Nat), Len(s) = 1
  PROVE  s = <<s[1]>> /\ Tail(s) = <<>> /\ s # <<>>
<1>1. s # <<>> /\ s[1] \in Nat
  BY EmptySeq, ElementOfSeq
<1>2. Tail(s) \in Seq(Nat) /\ Len(Tail(s)) = 0
  BY <1>1, HeadTailProperties
<1>3. Tail(s) = <<>>
  BY <1>2, EmptySeq
<1>4. s = <<s[1]>>
  <2>1. <<s[1]>> \in Seq(Nat) /\ Len(<<s[1]>>) = 1 /\ <<s[1]>>[1] = s[1]
    BY <1>1
  <2>2. \A i \in 1..Len(s) : s[i] = <<s[1]>>[i]
    BY <2>1
  <2> QED
    BY <2>1, <2>2, SeqEqual
<1> QED
  BY <1>1, <1>3, <1>4

LEMMA TailOfList ==
  ASSUME NEW s \in Seq(Nat), Len(s) >= 2
  PROVE  /\ Tail(s) \in Seq(Nat) /\ Len(Tail(s)) = Len(s) - 1
         /\ Tail(s)[1] = s[2] /\ s = <<s[1]>> \o Tail(s) /\ Len(s) \in Nat /\ s # <<>>
         /\ \A k \in 1..Len(s) - 1 : Tail(s)[k] = s[k + 1]
<1>1. Len(s) \in Nat /\ s # <<>> /\ s[1] \in Nat
  BY EmptySeq, LenProperties, ElementOfSeq
<1>2. /\ Tail(s) \in Seq(Nat) /\ Len(Tail(s)) = Len(s) - 1
      /\ \A k \in 1..Len(s) - 1 : Tail(s)[k] = s[k + 1]
  BY <1>1, HeadTailProperties
<1> DEFINE u == <<s[1]>> \o Tail(s)
<1>3. /\ u \in Seq(Nat) /\ Len(u) = Len(Tail(s)) + 1 /\ u[1] = s[1]
      /\ \A k \in 1..Len(Tail(s)) : u[k + 1] = Tail(s)[k]
  BY <1>1, <1>2, ConsProperties
<1> HIDE DEF u
<1>4. Len(u) = Len(s)
  BY <1>1, <1>2, <1>3
<1>5. \A i \in 1..Len(s) : s[i] = u[i]
  <2> SUFFICES ASSUME NEW i \in 1..Len(s) PROVE s[i] = u[i]
    OBVIOUS
  <2>1. CASE i = 1
    BY <1>3, <2>1
  <2>2. CASE i # 1
    <3>1. i - 1 \in 1..Len(s) - 1 /\ i - 1 \in 1..Len(Tail(s)) /\ (i - 1) + 1 = i
      BY <1>1, <1>2, <2>2
    <3>2. u[(i - 1) + 1] = Tail(s)[i - 1] /\ Tail(s)[i - 1] = s[(i - 1) + 1]
      BY <1>2, <1>3, <3>1
    <3> QED
      BY <3>1, <3>2
  <2> QED
    BY <2>1, <2>2
<1>6. s = u
  BY <1>3, <1>4, <1>5, SeqEqual
<1>7. Tail(s)[1] = s[2]
  BY <1>1, <1>2
<1> QED
  BY <1>1, <1>2, <1>6, <1>7 DEF u

(* What the first step of reading finds: the second value, and the bytes   *)
(* of the rest.                                                            *)
LEMMA FirstStep ==
  ASSUME NEW s \in Seq(Nat), Len(s) >= 2, \A k \in 1..Len(s) : s[k] \in Ids
  PROVE  /\ Encoded[s] \in Seq(Nat) /\ Encoded[s] # <<>>
         /\ Next1(s[1], Encoded[s]) = s[2]
         /\ Behind(Encoded[s]) = Encoded[Tail(s)]
<1> DEFINE v == (s[2] - s[1]) % Width
           w == Written(s)
           c == Encoded[Tail(s)]
           d == Encoded[s]
<1>1. /\ s[1] \in Nat /\ s[2] \in Nat /\ v \in Nat /\ w \in Seq(Nat) /\ w = encode_varint[v]
  BY WrittenBytes DEF Written
<1>2. c \in Seq(Nat) /\ d \in Seq(Nat) /\ d = w \o c
  BY TailOfList, EncodedValues
<1>3. s[1] < Width /\ s[2] < Width
  <2>1. 1 \in 1..Len(s) /\ 2 \in 1..Len(s)
    BY LenProperties
  <2>2. s[1] \in Ids /\ s[2] \in Ids
    BY <2>1
  <2> QED
    BY <2>2, VarintConstants DEF Ids
<1>4. (s[1] + v) % Width = s[2]
  BY <1>1, <1>3, Wraps
<1> HIDE DEF v, w, c, d
<1>5. decode_varint[d] = <<v, Len(w)>>
  BY <1>1, <1>2, VarintIsReadBack
<1>6. decode_varint[d][1] = v /\ decode_varint[d][2] = Len(w)
  BY <1>5
<1>7. d # <<>>
  <2> SUFFICES ASSUME d = <<>> PROVE FALSE
    OBVIOUS
  <2>1. w = <<>>
    <3>1. Len(d) = Len(w) + Len(c) /\ Len(w) \in Nat /\ Len(c) \in Nat
      BY <1>1, <1>2, ConcatProperties, LenProperties
    <3>2. Len(d) = 0
      BY EmptySeq
    <3>3. Len(w) = 0
      BY <3>1, <3>2
    <3> QED
      BY <1>1, <3>3, EmptySeq
  <2>2. v < Base => encode_varint[v] = <<v>>
    BY <1>1, EncodeVarint
  <2>3. v >= Base => encode_varint[v] # <<>>
    <3> SUFFICES ASSUME v >= Base PROVE encode_varint[v] # <<>>
      OBVIOUS
    <3>1. /\ (v % Base) + Base \in Nat /\ encode_varint[v \div Base] \in Seq(Nat)
          /\ encode_varint[v] = <<(v % Base) + Base>> \o encode_varint[v \div Base]
      BY <1>1, Digits, EncodeVarint
    <3> QED
      BY <3>1, ConsProperties
  <2>4. v < Base \/ v >= Base
    BY <1>1, VarintConstants
  <2> QED
    BY <1>1, <2>1, <2>2, <2>3, <2>4
<1>8. Next1(s[1], d) = s[2]
  BY <1>4, <1>6 DEF Next1
<1>9. Behind(d) = c
  <2>1. SubSeq(w \o c, Len(w) + 1, Len(w \o c)) = c
    BY <1>1, <1>2, RestOfConcat
  <2> QED
    BY <1>2, <1>6, <2>1 DEF Behind
<1> QED
  BY <1>2, <1>7, <1>8, <1>9 DEF c, d

LEMMA ListIsReadBack ==
  \A n \in Nat : \A s \in Seq(Nat) :
    Len(s) = n + 1 /\ (\A k \in 1..Len(s) : s[k] \in Ids) =>
      /\ Decoded[<<s[1], Encoded[s]>>] = Tail(s)
      /\ Iterated[<<Len(s), s[1], Encoded[s]>>] = s
<1> DEFINE Back(s) == /\ Decoded[<<s[1], Encoded[s]>>] = Tail(s)
                      /\ Iterated[<<Len(s), s[1], Encoded[s]>>] = s
           T == {n \in Nat : \A s \in Seq(Nat) :
                   Len(s) = n + 1 /\ (\A k \in 1..Len(s) : s[k] \in Ids) => Back(s)}
<1>1. 0 \in T
  <2> SUFFICES ASSUME NEW s \in Seq(Nat), Len(s) = 1 PROVE Back(s)
    <3> HIDE DEF Back
    <3> QED
      OBVIOUS
  <2>1. s = <<s[1]>> /\ Tail(s) = <<>> /\ s[1] \in Nat
    BY OneValue, ElementOfSeq
  <2>2. Encoded[s] = <<>>
    <3>1. Len(s) < 2
      OBVIOUS
    <3> QED
      BY <3>1, EncodedValues
  <2>3. Decoded[<<s[1], <<>>>>] = <<>>
    BY <2>1, DecodedValues
  <2>4. Iterated[<<1, s[1], <<>>>>] = <<s[1]>>
    <3>1. <<>> \in Seq(Nat)
      BY EmptySeq
    <3> QED
      BY <2>1, <3>1, IteratedValues
  <2> QED
    BY <2>1, <2>2, <2>3, <2>4
<1>2. ASSUME NEW n \in Nat, n \in T
      PROVE  n + 1 \in T
  <2> SUFFICES ASSUME NEW s \in Seq(Nat), Len(s) = (n + 1) + 1,
                      \A k \in 1..Len(s) : s[k] \in Ids
               PROVE  Back(s)
    <3>1. n + 1 \in Nat
      OBVIOUS
    <3> HIDE DEF Back
    <3> QED
      BY <3>1
  <2> DEFINE u == Tail(s)
             d == Encoded[s]
  <2>1. /\ u \in Seq(Nat) /\ Len(u) = n + 1 /\ u[1] = s[2] /\ s = <<s[1]>> \o u
        /\ \A k \in 1..Len(s) - 1 : u[k] = s[k + 1]
    BY TailOfList
  <2>2. \A k \in 1..Len(u) : u[k] \in Ids
    <3> SUFFICES ASSUME NEW k \in 1..Len(u) PROVE u[k] \in Ids
      OBVIOUS
    <3>1. k \in 1..Len(s) - 1 /\ k + 1 \in 1..Len(s)
      BY <2>1
    <3> QED
      BY <2>1, <3>1
  <2>3. Back(u)
    BY <1>2, <2>1, <2>2
  <2>4. s[1] \in Nat /\ s[2] \in Nat /\ d \in Seq(Nat) /\ d # <<>>
        /\ Next1(s[1], d) = s[2] /\ Behind(d) = Encoded[u]
    BY FirstStep, WrittenBytes
  <2> HIDE DEF u, d
  <2>5. Decoded[<<s[1], d>>] = <<s[2]>> \o Decoded[<<s[2], Encoded[u]>>]
    BY <2>4, DecodedValues
  <2>6. Decoded[<<s[1], d>>] = <<s[2]>> \o Tail(u)
    BY <2>1, <2>3, <2>5
  <2>7. <<u[1]>> \o Tail(u) = u
    <3>1. CASE Len(u) >= 2
      BY <2>1, <3>1, TailOfList
    <3>2. CASE Len(u) = 1
      <4>1. u = <<u[1]>> /\ Tail(u) = <<>> /\ u[1] \in Nat
        BY <2>1, <3>2, OneValue, ElementOfSeq
      <4>2. <<u[1]>> \in Seq(Nat)
        BY <4>1
      <4>3. <<u[1]>> \o <<>> = <<u[1]>>
        BY <4>2, ConcatEmptySeq
      <4> QED
        BY <4>1, <4>3
    <3> QED
      BY <2>1, <3>1, <3>2
  <2>8. Decoded[<<s[1], d>>] = u
    BY <2>1, <2>6, <2>7
  <2>9. Iterated[<<Len(s), s[1], d>>] = <<s[1]>> \o Iterated[<<Len(s) - 1, s[2], Encoded[u]>>]
    <3> DEFINE l == Len(s)
    <3>1. l \in Nat \ {0, 1}
      OBVIOUS
    <3> HIDE DEF l
    <3>2. Iterated[<<l, s[1], d>>] = <<s[1]>> \o Iterated[<<l - 1, Next1(s[1], d), Behind(d)>>]
      BY <2>4, <3>1, IteratedValues
    <3> QED
      BY <2>4, <3>2 DEF l
  <2>10. Len(s) - 1 = Len(u)
    BY <2>1
  <2>11. Iterated[<<Len(u), s[2], Encoded[u]>>] = u
    BY <2>1, <2>3
  <2>12. Iterated[<<Len(s), s[1], d>>] = s
    BY <2>1, <2>9, <2>10, <2>11
  <2> QED
    BY <2>8, <2>12 DEF u, d
<1>3. \A n \in Nat : n \in T
  <2> HIDE DEF T
  <2> QED
    BY <1>1, <1>2, Induction
<1> QED
  BY <1>3

(* Whatever list of ids is stored, to_vec and the iterator both give it    *)
(* back, although the one reads to the end of the bytes and the other      *)
(* counts; the list need not even be sorted, as differences wrap.          *)
THEOREM ListsAreReadBack ==
  ASSUME NEW values \in Seq(Nat), \A k \in 1..Len(values) : values[k] < Width
  PROVE  /\ to_vec(from_sorted(values)) = values
         /\ iter(from_sorted(values)) = values
<1>1. CASE values = <<>>
  <2>1. from_sorted(values) = [first |-> 0, data |-> <<>>, len |-> 0]
    BY <1>1 DEF from_sorted
  <2>2. Iterated[<<0, 0, <<>>>>] = <<>>
    <3>1. <<>> \in Seq(Nat)
      BY EmptySeq
    <3> QED
      BY <3>1, IteratedValues
  <2> QED
    BY <1>1, <2>1, <2>2 DEF to_vec, iter
<1>2. CASE values # <<>>
  <2> DEFINE a == from_sorted(values)
             d == Encoded[values]
  <2>1. Len(values) \in Nat \ {0}
    BY <1>2, EmptySeq
  <2>2. a.first = values[1] /\ a.data = d /\ a.len = Len(values)
    BY <1>2 DEF from_sorted
  <2>3. \A k \in 1..Len(values) : values[k] \in Ids
    <3>1. \A k \in 1..Len(values) : values[k] \in Nat
      BY ElementOfSeq
    <3> QED
      BY <3>1, VarintConstants DEF Ids
  <2>4. PICK n \in Nat : Len(values) = n + 1
    <3>1. Len(values) - 1 \in Nat /\ Len(values) = (Len(values) - 1) + 1
      BY <2>1
    <3> QED
      BY <3>1
  <2>5. /\ Decoded[<<values[1], d>>] = Tail(values)
        /\ Iterated[<<Len(values), values[1], d>>] = values
    BY <2>3, <2>4, ListIsReadBack
  <2>6. <<values[1]>> \o Tail(values) = values
    <3>1. CASE Len(values) >= 2
      BY <3>1, TailOfList
    <3>2. CASE Len(values) = 1
      <4>1. values = <<values[1]>> /\ Tail(values) = <<>> /\ values[1] \in Nat
        BY <3>2, OneValue, ElementOfSeq
      <4>2. <<values[1]>> \in Seq(Nat)
        BY <4>1
      <4>3. <<values[1]>> \o <<>> = <<values[1]>>
        BY <4>2, ConcatEmptySeq
      <4> QED
        BY <4>1, <4>3
    <3> QED
      BY <2>1, <3>1, <3>2
  <2> HIDE DEF a, d
  <2>7. to_vec(a) = <<values[1]>> \o Tail(values)
    <3>1. a.len # 0
      BY <2>1, <2>2
    <3> QED
      BY <2>2, <2>5, <3>1 DEF to_vec
  <2>8. iter(a) = values
    BY <2>2, <2>5 DEF iter
  <2> QED
    BY <2>6, <2>7, <2>8 DEF a
<1> QED
  BY <1>1, <1>2

-----------------------------------------------------------------------------
(* Loops and sequences *)

(* A loop over 1..n has values in V before and after each step. *)
Loops(f, V, n, a, step) ==
  f \in [0..n -> V] /\ f[0] = a /\ \A k \in 1..n : f[k] = step[<<k, f[k - 1]>>]

LEMMA Iteration ==
  ASSUME NEW V, NEW n \in Nat, NEW a \in V, NEW step \in [(1..n) \X V -> V]
  PROVE  \E f : Loops(f, V, n, a, step)
<1> DEFINE S == 0..n
           m == [k \in S |-> k]
           B == {0}
           b == [k \in B |-> a]
           p == [k \in S \ B |-> k - 1]
<1>1. S \ B = 1..n
  OBVIOUS
<1>2. Recursive(S, V, m, B, b, p, step)
  <2>1. m \in [S -> Nat] /\ B \in SUBSET S /\ b \in [B -> V]
    OBVIOUS
  <2>2. p \in [S \ B -> S] /\ \A k \in S \ B : m[p[k]] < m[k]
    OBVIOUS
  <2>3. step \in [(S \ B) \X V -> V]
    BY <1>1
  <2> HIDE DEF S, m, B, b, p
  <2> QED
    BY <2>1, <2>2, <2>3 DEF Recursive
<1>3. PICK f : Solves(f, S, V, B, b, p, step)
  <2> HIDE DEF S, m, B, b, p
  <2> QED
    BY <1>2, Recursion
<1>4. f \in [0..n -> V] /\ f[0] = a
  <2>1. f \in [S -> V] /\ \A k \in S : f[k] = IF k \in B THEN b[k] ELSE step[<<k, f[p[k]]>>]
    BY <1>3 DEF Solves
  <2>2. 0 \in S /\ 0 \in B /\ b[0] = a
    OBVIOUS
  <2> HIDE DEF B, b, p
  <2> QED
    BY <2>1, <2>2
<1>5. \A k \in 1..n : f[k] = step[<<k, f[k - 1]>>]
  <2> SUFFICES ASSUME NEW k \in 1..n PROVE f[k] = step[<<k, f[k - 1]>>]
    OBVIOUS
  <2>1. k \in S /\ k \notin B /\ p[k] = k - 1
    OBVIOUS
  <2> HIDE DEF S, B, p
  <2> QED
    BY <1>3, <2>1 DEF Solves
<1> QED
  BY <1>4, <1>5 DEF Loops

(* Ranges of numbers have an end. *)
LEMMA Segment ==
  ASSUME NEW n \in Nat, NEW T, T \subseteq 1..n,
         \A j \in T, i \in 1..n : i < j => i \in T
  PROVE  /\ IsFiniteSet(T) /\ Cardinality(T) \in 0..n
         /\ T = 1..Cardinality(T)
<1> DEFINE U == {j \in 1..n + 1 : j \notin T}
<1>1. PICK x \in U : \A y \in U : ~(y < x)
  <2>1. U \subseteq Nat /\ U # {}
    <3>1. n + 1 \in U
      OBVIOUS
    <3> QED
      BY <3>1
  <2> HIDE DEF U
  <2> QED
    BY <2>1, Smallest
<1>2. x \in Nat /\ x >= 1 /\ x - 1 \in 0..n
  BY <1>1
<1>3. T = 1..x - 1
  <2>1. ASSUME NEW i \in 1..x - 1 PROVE i \in T
    BY <1>1, <1>2
  <2>2. ASSUME NEW i \in T PROVE i \in 1..x - 1
    BY <1>1, <1>2
  <2> QED
    BY <2>1, <2>2
<1>4. IsFiniteSet(1..x - 1) /\ Cardinality(1..x - 1) = x - 1
  <2>1. 1 \in Int /\ x - 1 \in Int
    BY <1>2
  <2>2. /\ IsFiniteSet(1..x - 1)
        /\ Cardinality(1..x - 1) = IF 1 > x - 1 THEN 0 ELSE (x - 1) - 1 + 1
    BY <2>1, FS_Interval
  <2> QED
    BY <1>2, <2>2
<1> QED
  BY <1>2, <1>3, <1>4

(* t is s with e put before the i-th element. *)
With(t, s, i, e) ==
  /\ Len(t) = Len(s) + 1
  /\ \A j \in 1..Len(s) + 1 : t[j] = IF j < i THEN s[j] ELSE IF j = i THEN e ELSE s[j - 1]

LEMMA InsertAtProperties ==
  ASSUME NEW S, NEW s \in Seq(S), NEW i \in 1..Len(s) + 1, NEW e \in S
  PROVE  InsertAt(s, i, e) \in Seq(S) /\ With(InsertAt(s, i, e), s, i, e)
<1> DEFINE a == SubSeq(s, 1, i - 1)
           c == SubSeq(s, i, Len(s))
           n == Len(s)
<1>1. n \in Nat /\ i \in Int /\ i - 1 \in Int /\ \A j \in 1..n : s[j] \in S
  BY LenProperties, ElementOfSeq
<1>2. a \in Seq(S) /\ Len(a) = i - 1 /\ \A j \in 1..i - 1 : a[j] = s[j]
  <2>1. \A j \in 1..i - 1 : s[j] \in S
    BY <1>1
  <2>2. /\ a \in Seq(S) /\ Len(a) = IF 1 <= i - 1 THEN (i - 1) - 1 + 1 ELSE 0
        /\ \A j \in 1..(i - 1) - 1 + 1 : a[j] = s[1 + j - 1]
    BY <1>1, <2>1, SubSeqProperties
  <2> HIDE DEF a
  <2>3. \A j \in 1..i - 1 : j \in 1..(i - 1) - 1 + 1 /\ 1 + j - 1 = j
    BY <1>1
  <2>4. Len(a) = i - 1
    BY <1>1, <2>2
  <2>5. \A j \in 1..i - 1 : a[j] = s[j]
    BY <2>2, <2>3
  <2> QED
    BY <2>2, <2>4, <2>5
<1>3. c \in Seq(S) /\ Len(c) = n + 1 - i /\ \A j \in 1..n + 1 - i : c[j] = s[i + j - 1]
  <2>1. \A j \in i..n : s[j] \in S
    BY <1>1
  <2>2. /\ c \in Seq(S) /\ Len(c) = IF i <= n THEN n - i + 1 ELSE 0
        /\ \A j \in 1..n - i + 1 : c[j] = s[i + j - 1]
    BY <1>1, <2>1, SubSeqProperties
  <2> HIDE DEF c
  <2>3. Len(c) = n + 1 - i /\ n - i + 1 = n + 1 - i
    BY <1>1, <2>2
  <2> QED
    BY <2>2, <2>3
<1> HIDE DEF a, c
<1>4. <<e>> \in Seq(S) /\ Len(<<e>>) = 1 /\ <<e>>[1] = e
  OBVIOUS
<1>5. /\ a \o <<e>> \in Seq(S) /\ Len(a \o <<e>>) = i
      /\ \A j \in 1..i : (a \o <<e>>)[j] = IF j < i THEN s[j] ELSE e
  <2>1. /\ a \o <<e>> \in Seq(S) /\ Len(a \o <<e>>) = Len(a) + Len(<<e>>)
        /\ \A j \in 1..Len(a) + Len(<<e>>) :
             (a \o <<e>>)[j] = IF j <= Len(a) THEN a[j] ELSE <<e>>[j - Len(a)]
    BY <1>2, <1>4, ConcatProperties
  <2>2. Len(a) + Len(<<e>>) = i
    BY <1>1, <1>2, <1>4
  <2>3. \A j \in 1..i : (j <= Len(a) <=> j < i) /\ (~(j < i) => j - Len(a) = 1)
    BY <1>1, <1>2
  <2>4. \A j \in 1..i : j < i => j \in 1..i - 1
    BY <1>1
  <2> QED
    BY <1>2, <1>4, <2>1, <2>2, <2>3, <2>4
<1> DEFINE d == a \o <<e>>
           t == d \o c
<1>6. InsertAt(s, i, e) = t
  BY DEF InsertAt, a, c
<1>6a. d \in Seq(S) /\ Len(d) = i
  BY <1>5
<1> HIDE DEF d
<1>7. /\ t \in Seq(S) /\ Len(t) = Len(d) + Len(c)
      /\ \A j \in 1..Len(d) + Len(c) : t[j] = IF j <= Len(d) THEN d[j] ELSE c[j - Len(d)]
  BY <1>3, <1>6a, ConcatProperties
<1> HIDE DEF t
<1>8. Len(d) = i /\ Len(d) + Len(c) = n + 1
  BY <1>1, <1>3, <1>6a
<1>9. \A j \in 1..n + 1 : t[j] = IF j < i THEN s[j] ELSE IF j = i THEN e ELSE s[j - 1]
  <2> SUFFICES ASSUME NEW j \in 1..n + 1
               PROVE  t[j] = IF j < i THEN s[j] ELSE IF j = i THEN e ELSE s[j - 1]
    OBVIOUS
  <2>1. CASE j <= i
    <3>1. t[j] = d[j] /\ j \in 1..i
      BY <1>1, <1>7, <1>8, <2>1
    <3>2. d[j] = IF j < i THEN s[j] ELSE e
      BY <1>5, <3>1 DEF d
    <3> QED
      BY <1>1, <2>1, <3>1, <3>2
  <2>2. CASE j > i
    <3>1. t[j] = c[j - i] /\ j - i \in 1..n + 1 - i /\ i + (j - i) - 1 = j - 1
      BY <1>1, <1>7, <1>8, <2>2
    <3>2. c[j - i] = s[i + (j - i) - 1]
      BY <1>3, <3>1
    <3>3. ~(j < i) /\ j # i
      BY <1>1, <2>2
    <3> QED
      BY <3>1, <3>2, <3>3
  <2> QED
    BY <1>1, <2>1, <2>2
<1>10. Len(t) = n + 1
  BY <1>7, <1>8
<1> QED
  BY <1>6, <1>7, <1>9, <1>10 DEF With

LEMMA RemoveAtProperties ==
  ASSUME NEW S, NEW s \in Seq(S), NEW i \in 1..Len(s)
  PROVE  /\ RemoveAt(s, i) \in Seq(S) /\ Len(RemoveAt(s, i)) = Len(s) - 1
         /\ \A j \in 1..Len(s) - 1 : RemoveAt(s, i)[j] = IF j < i THEN s[j] ELSE s[j + 1]
<1> DEFINE a == SubSeq(s, 1, i - 1)
           c == SubSeq(s, i + 1, Len(s))
           n == Len(s)
<1>1. n \in Nat /\ i \in Int /\ i - 1 \in Int /\ i + 1 \in Int /\ \A j \in 1..n : s[j] \in S
  BY LenProperties, ElementOfSeq
<1>2. a \in Seq(S) /\ Len(a) = i - 1 /\ \A j \in 1..i - 1 : a[j] = s[j]
  <2>1. \A j \in 1..i - 1 : s[j] \in S
    BY <1>1
  <2>2. /\ a \in Seq(S) /\ Len(a) = IF 1 <= i - 1 THEN (i - 1) - 1 + 1 ELSE 0
        /\ \A j \in 1..(i - 1) - 1 + 1 : a[j] = s[1 + j - 1]
    BY <1>1, <2>1, SubSeqProperties
  <2> HIDE DEF a
  <2>3. \A j \in 1..i - 1 : j \in 1..(i - 1) - 1 + 1 /\ 1 + j - 1 = j
    BY <1>1
  <2>4. Len(a) = i - 1
    BY <1>1, <2>2
  <2>5. \A j \in 1..i - 1 : a[j] = s[j]
    BY <2>2, <2>3
  <2> QED
    BY <2>2, <2>4, <2>5
<1>3. c \in Seq(S) /\ Len(c) = n - i /\ \A j \in 1..n - i : c[j] = s[i + j]
  <2>1. \A j \in i + 1..n : s[j] \in S
    BY <1>1
  <2>2. /\ c \in Seq(S) /\ Len(c) = IF i + 1 <= n THEN n - (i + 1) + 1 ELSE 0
        /\ \A j \in 1..n - (i + 1) + 1 : c[j] = s[i + 1 + j - 1]
    BY <1>1, <2>1, SubSeqProperties
  <2> HIDE DEF c
  <2>3. Len(c) = n - i /\ n - (i + 1) + 1 = n - i
    BY <1>1, <2>2
  <2>4. \A j \in 1..n - i : i + 1 + j - 1 = i + j
    BY <1>1
  <2> QED
    BY <2>2, <2>3, <2>4
<1> HIDE DEF a, c
<1> DEFINE t == a \o c
<1>4. RemoveAt(s, i) = t
  BY DEF RemoveAt, a, c
<1>5. /\ t \in Seq(S) /\ Len(t) = Len(a) + Len(c)
      /\ \A j \in 1..Len(a) + Len(c) : t[j] = IF j <= Len(a) THEN a[j] ELSE c[j - Len(a)]
  BY <1>2, <1>3, ConcatProperties
<1> HIDE DEF t
<1>6. Len(a) + Len(c) = n - 1
  BY <1>1, <1>2, <1>3
<1>7. \A j \in 1..n - 1 : t[j] = IF j < i THEN s[j] ELSE s[j + 1]
  <2> SUFFICES ASSUME NEW j \in 1..n - 1
               PROVE  t[j] = IF j < i THEN s[j] ELSE s[j + 1]
    OBVIOUS
  <2>1. CASE j < i
    <3>1. t[j] = a[j] /\ j \in 1..i - 1
      BY <1>1, <1>2, <1>5, <1>6, <2>1
    <3> QED
      BY <1>2, <2>1, <3>1
  <2>2. CASE ~(j < i)
    <3>1. /\ t[j] = c[j - (i - 1)] /\ j - (i - 1) \in 1..n - i
          /\ i + (j - (i - 1)) = j + 1
      BY <1>1, <1>2, <1>5, <1>6, <2>2
    <3> QED
      BY <1>3, <2>2, <3>1
  <2> QED
    BY <2>1, <2>2
<1> QED
  BY <1>4, <1>5, <1>6, <1>7

(* The first elements of a sequence. *)
LEMMA Prefix ==
  ASSUME NEW S, NEW s \in Seq(S), NEW m \in 0..Len(s)
  PROVE  /\ SubSeq(s, 1, m) \in Seq(S) /\ Len(SubSeq(s, 1, m)) = m
         /\ \A j \in 1..m : SubSeq(s, 1, m)[j] = s[j]
<1> DEFINE t == SubSeq(s, 1, m)
<1>1. Len(s) \in Nat /\ m \in Int /\ 1 \in Int /\ \A j \in 1..m : s[j] \in S
  BY LenProperties, ElementOfSeq
<1>2. /\ t \in Seq(S) /\ Len(t) = IF 1 <= m THEN m - 1 + 1 ELSE 0
      /\ \A j \in 1..m - 1 + 1 : t[j] = s[1 + j - 1]
  BY <1>1, SubSeqProperties
<1> HIDE DEF t
<1>3. m - 1 + 1 = m /\ \A j \in 1..m : 1 + j - 1 = j
  BY <1>1
<1>4. Len(t) = m
  BY <1>1, <1>2, <1>3
<1>5. \A j \in 1..m : t[j] = s[j]
  BY <1>2, <1>3
<1> QED
  BY <1>2, <1>4, <1>5 DEF t

(* A sequence without repetitions has as many elements as it is long. *)
LEMMA Distinct ==
  ASSUME NEW S, NEW s \in Seq(S), \A i, j \in 1..Len(s) : i < j => s[i] # s[j]
  PROVE  IsFiniteSet(ToSet(s)) /\ Cardinality(ToSet(s)) = Len(s)
<1> DEFINE n == Len(s)
           f == [j \in 1..n |-> s[j]]
<1>1. n \in Nat /\ DOMAIN s = 1..n
  BY LenProperties
<1>2. ToSet(s) = {s[j] : j \in 1..n}
  BY <1>1 DEF ToSet
<1>3. f \in Surjection(1..n, ToSet(s))
  BY <1>2 DEF Surjection
<1>4. f \in Injection(1..n, ToSet(s))
  <2>1. f \in [1..n -> ToSet(s)]
    BY <1>2
  <2>2. \A i, j \in 1..n : f[i] = f[j] => i = j
    <3> SUFFICES ASSUME NEW i \in 1..n, NEW j \in 1..n, i # j PROVE f[i] # f[j]
      OBVIOUS
    <3>1. i < j \/ j < i
      BY <1>1
    <3> QED
      BY <3>1
  <2> HIDE DEF f
  <2> QED
    BY <2>1, <2>2 DEF Injection, IsInjective
<1>5. IsFiniteSet(1..n) /\ Cardinality(1..n) = n
  <2>1. 1 \in Int /\ n \in Int
    BY <1>1
  <2>2. /\ IsFiniteSet(1..n) /\ Cardinality(1..n) = IF 1 > n THEN 0 ELSE n - 1 + 1
    BY <2>1, FS_Interval
  <2> QED
    BY <1>1, <2>2
<1> HIDE DEF f
<1> QED
  BY <1>3, <1>4, <1>5, FS_Surjection

(* All that a sequence of a set of sequences of a finite set has. *)

LEMMA SetSequence ==
  ASSUME NEW S, IsFiniteSet(S), NEW s \in SetToSeqs(S)
  PROVE  /\ s \in Seq(S) /\ Len(s) = Cardinality(S) /\ Len(s) \in Nat
         /\ s \in [1..Len(s) -> S] /\ DOMAIN s = 1..Len(s)
         /\ \A i, j \in 1..Len(s) : i # j => s[i] # s[j]
         /\ ToSet(s) = S
<1> DEFINE n == Cardinality(S)
           D == 1..n
<1>1. n \in Nat
  BY FS_CardinalityType
<1>2. s \in [D -> S] /\ \A i, j \in D : i # j => s[i] # s[j]
  BY DEF SetToSeqs
<1>3. s \in Seq(S) /\ Len(s) = n
  <2> HIDE DEF n
  <2>1. s \in Seq(S)
    BY <1>1, <1>2, IsASeq
  <2> QED
    BY <1>1, <1>2, <2>1, LenProperties
<1>4. s \in Injection(D, S)
  BY <1>2 DEF Injection, IsInjective
<1>5. IsFiniteSet(D) /\ Cardinality(D) = n
  <2> HIDE DEF n
  <2> QED
    BY <1>1, FS_Interval
<1>6. s \in Surjection(D, S)
  BY <1>4, <1>5, FS_Injection
<1>7. ToSet(s) = S
  BY <1>2, <1>6 DEF Surjection, ToSet
<1>8. /\ s \in [1..Len(s) -> S] /\ DOMAIN s = 1..Len(s)
      /\ \A i, j \in 1..Len(s) : i # j => s[i] # s[j]
  <2>1. D = 1..Len(s)
    BY <1>3
  <2> HIDE DEF D
  <2> QED
    BY <1>2, <2>1
<1> QED
  BY <1>1, <1>3, <1>7, <1>8

(* What holds between neighbours and is transitive holds between all. *)
LEMMA Neighbours ==
  ASSUME NEW n \in Nat, NEW R,
         \A i, j, k \in 1..n : <<i, j>> \in R /\ <<j, k>> \in R => <<i, k>> \in R,
         \A j \in 1..n - 1 : <<j, j + 1>> \in R
  PROVE  \A i, j \in 1..n : i < j => <<i, j>> \in R
<1> DEFINE T == {d \in Nat : \A i, j \in 1..n : j = i + d + 1 => <<i, j>> \in R}
<1>1. 0 \in T
  OBVIOUS
<1>2. ASSUME NEW d \in Nat, d \in T PROVE d + 1 \in T
  <2> SUFFICES ASSUME NEW i \in 1..n, NEW j \in 1..n, j = i + (d + 1) + 1
               PROVE  <<i, j>> \in R
    OBVIOUS
  <2>1. j - 1 \in 1..n /\ j - 1 \in 1..n - 1 /\ j - 1 = i + d + 1 /\ (j - 1) + 1 = j
    OBVIOUS
  <2>2. <<i, j - 1>> \in R
    BY <1>2, <2>1
  <2>3. <<j - 1, (j - 1) + 1>> \in R
    BY <2>1
  <2> QED
    BY <2>1, <2>2, <2>3
<1>3. \A d \in Nat : d \in T
  <2> HIDE DEF T
  <2> QED
    BY <1>1, <1>2, Induction
<1>4. ASSUME NEW i \in 1..n, NEW j \in 1..n, i < j PROVE <<i, j>> \in R
  <2>1. j - i - 1 \in Nat /\ j = i + (j - i - 1) + 1
    BY <1>4
  <2> QED
    BY <1>3, <2>1
<1> QED
  BY <1>4

(* A finite set of numbers can be put in order. *)
LEMMA SortingExists ==
  ASSUME NEW S, S \subseteq Nat, IsFiniteSet(S)
  PROVE  \E s \in SetToSeqs(S) : \A j \in 1..Len(s) - 1 : s[j] < s[j + 1]
<1> DEFINE Sorted(s, X) == /\ s \in Seq(X) /\ Len(s) = Cardinality(X)
                           /\ \A i, j \in 1..Len(s) : i < j => s[i] < s[j]
           T == {n \in Nat : \A X \in SUBSET S : IsFiniteSet(X) /\ Cardinality(X) = n =>
                                \E s : Sorted(s, X)}
<1>1. 0 \in T
  <2> SUFFICES ASSUME NEW X \in SUBSET S, IsFiniteSet(X), Cardinality(X) = 0
               PROVE  Sorted(<<>>, X)
    OBVIOUS
  <2>1. <<>> \in Seq(X) /\ Len(<<>>) = 0
    BY EmptySeq
  <2> QED
    BY <2>1
<1>2. ASSUME NEW n \in Nat, n \in T PROVE n + 1 \in T
  <2> SUFFICES ASSUME NEW X \in SUBSET S, IsFiniteSet(X), Cardinality(X) = n + 1
               PROVE  \E s : Sorted(s, X)
    <3> HIDE DEF Sorted
    <3> QED
      OBVIOUS
  <2>1. X \subseteq Nat /\ X # {}
    BY FS_EmptySet
  <2>2. PICK x \in X : \A y \in X : ~(y < x)
    BY <2>1, Smallest
  <2> DEFINE Y == X \ {x}
  <2>3. IsFiniteSet(Y) /\ Cardinality(Y) = n /\ Y \in SUBSET S
    <3>1. IsFiniteSet(Y) /\ Cardinality(Y) = Cardinality(X) - 1
      BY <2>2, FS_RemoveElement
    <3> QED
      BY <3>1
  <2>4. PICK t : Sorted(t, Y)
    <3> HIDE DEF Y, Sorted
    <3> QED
      BY <1>2, <2>3
  <2>5. t \in Seq(X) /\ Len(t) = n /\ \A j \in 1..Len(t) : t[j] \in Y
    <3>1. t \in Seq(Y) /\ Y \subseteq X
      BY <2>4
    <3>2. t \in Seq(X)
      BY <3>1, SeqMonotonic
    <3> HIDE DEF Y
    <3> QED
      BY <2>3, <2>4, <3>1, <3>2, ElementOfSeq
  <2> DEFINE s == <<x>> \o t
  <2>6. /\ s \in Seq(X) /\ Len(s) = n + 1 /\ s[1] = x
        /\ \A k \in 1..n : s[k + 1] = t[k]
    <3>1. t \in Seq(X) /\ x \in X /\ Len(t) = n
      BY <2>5
    <3>2. /\ s \in Seq(X) /\ Len(s) = Len(t) + 1 /\ s[1] = x
          /\ \A k \in 1..Len(t) : s[k + 1] = t[k]
      BY <3>1, ConsProperties
    <3> QED
      BY <3>1, <3>2
  <2> HIDE DEF s
  <2>7. \A i, j \in 1..n + 1 : i < j => s[i] < s[j]
    <3> SUFFICES ASSUME NEW i \in 1..n + 1, NEW j \in 1..n + 1, i < j PROVE s[i] < s[j]
      OBVIOUS
    <3>1. j - 1 \in 1..n /\ (j - 1) + 1 = j
      OBVIOUS
    <3>2. s[j] = t[j - 1] /\ t[j - 1] \in Y
      BY <2>5, <2>6, <3>1
    <3>3. CASE i = 1
      <4>1. s[j] \in Nat /\ s[j] # x /\ ~(s[j] < x) /\ x \in Nat
        BY <2>1, <2>2, <3>2
      <4> QED
        BY <2>6, <3>3, <4>1
    <3>4. CASE i # 1
      <4>1. i - 1 \in 1..n /\ (i - 1) + 1 = i /\ i - 1 < j - 1
        BY <3>4
      <4>2. s[i] = t[i - 1]
        BY <2>6, <4>1
      <4>3. t[i - 1] < t[j - 1]
        BY <2>4, <2>5, <3>1, <4>1
      <4> QED
        BY <3>2, <4>2, <4>3
    <3> QED
      BY <3>3, <3>4
  <2>8. Sorted(s, X)
    BY <2>6, <2>7
  <2> QED
    BY <2>8
<1>3. \A n \in Nat : n \in T
  <2> HIDE DEF T
  <2> QED
    BY <1>1, <1>2, Induction
<1>4. Cardinality(S) \in Nat
  BY FS_CardinalityType
<1>5. PICK s : Sorted(s, S)
  <2> HIDE DEF Sorted
  <2> QED
    BY <1>3, <1>4
<1>6. s \in SetToSeqs(S)
  <2>1. s \in [1..Cardinality(S) -> S]
    BY <1>4, <1>5, LenProperties
  <2>2. \A i, j \in 1..Cardinality(S) : i # j => s[i] # s[j]
    <3> SUFFICES ASSUME NEW i \in 1..Cardinality(S), NEW j \in 1..Cardinality(S), i # j
                 PROVE  s[i] # s[j]
      OBVIOUS
    <3>1. s[i] \in Nat /\ s[j] \in Nat
      BY <2>1
    <3>2. i < j \/ j < i
      BY <1>4
    <3>3. s[i] < s[j] \/ s[j] < s[i]
      BY <1>4, <1>5, <3>2
    <3> QED
      BY <3>1, <3>3
  <2> QED
    BY <2>1, <2>2 DEF SetToSeqs
<1>7. \A j \in 1..Len(s) - 1 : s[j] < s[j + 1]
  <2>1. \A j \in 1..Len(s) - 1 : j \in 1..Len(s) /\ j + 1 \in 1..Len(s) /\ j < j + 1
    BY <1>4, <1>5
  <2> QED
    BY <1>5, <2>1
<1> QED
  BY <1>6, <1>7
=============================================================================
