--------------------------- MODULE SelectionProofs ---------------------------
(***************************************************************************)
(* What a selection from a sequence is, for every sequence and set: the    *)
(* recursion of Selections has a solution, and its elements stand in the   *)
(* sequence at increasing places.  The other proofs use LeastNat,          *)
(* SelectedElements, SelectedHead, SelectedOrder and SelectedOnce.         *)
(***************************************************************************)
EXTENDS Selections, SequenceTheorems, NaturalsInduction, WellFoundedInduction, TLAPS

-----------------------------------------------------------------------------
(* A nonempty set of numbers has a least one.  Taken as the least number   *)
(* without a property, it stands in for induction.                         *)
LEMMA LeastNat ==
  ASSUME NEW T \in SUBSET Nat, T # {}
  PROVE  \E x \in T : \A y \in T : x <= y
<1> DEFINE R == OpToRel(<, Nat)
<1>1. IsWellFoundedOn(R, Nat)
  BY NatLessThanWellFounded
<1>2. R = {ss \in Nat \X Nat : ss[1] < ss[2]}
  BY DEF OpToRel
<1> HIDE DEF R
<1>3. PICK x \in T : \A y \in T : ~(<<y, x>> \in R)
  BY <1>1, WFMin
<1>4. ASSUME NEW y \in T PROVE x <= y
  <2>1. x \in Nat /\ y \in Nat
    OBVIOUS
  <2>2. <<y, x>> \in Nat \X Nat
    BY <2>1
  <2>3. ~(y < x)
    BY <2>2, <1>2, <1>3
  <2> QED BY <2>1, <2>3
<1> QED BY <1>4

(* What the recursion says of a function on 0 .. n. *)
Follows(f, s, S, n) ==
  f = [i \in 0 .. n |->
         IF i = 0 THEN <<>>
         ELSE IF s[i] \in S THEN Append(f[i - 1], s[i]) ELSE f[i - 1]]

(* The recursion has a solution: none is missing at a least n. *)
LEMMA SelectionExists ==
  ASSUME NEW s, NEW S, NEW n \in Nat
  PROVE  \E f : Follows(f, s, S, n)
<1> DEFINE Missing == {k \in Nat : ~ \E f : Follows(f, s, S, k)}
<1> SUFFICES ASSUME Missing # {} PROVE FALSE
  OBVIOUS
<1>1. PICK k \in Missing : \A y \in Missing : k <= y
  BY LeastNat
<1>2. CASE k = 0
  <2> DEFINE f == [i \in 0 .. 0 |-> <<>>]
  <2>1. Follows(f, s, S, 0)
    BY DEF Follows
  <2> QED BY <2>1, <1>2
<1>3. CASE k # 0
  <2>1. k - 1 \in Nat /\ k - 1 \notin Missing
    BY <1>1, <1>3
  <2>2. PICK f : Follows(f, s, S, k - 1)
    BY <2>1
  <2> DEFINE g == [i \in 0 .. k |->
                     IF i < k THEN f[i]
                     ELSE IF s[k] \in S THEN Append(f[k - 1], s[k]) ELSE f[k - 1]]
  <2>3. Follows(g, s, S, k)
    <3>1. \A i \in 0 .. k - 1 :
            f[i] = IF i = 0 THEN <<>>
                   ELSE IF s[i] \in S THEN Append(f[i - 1], s[i]) ELSE f[i - 1]
      BY <2>2 DEF Follows
    <3>2. \A i \in 0 .. k :
            g[i] = IF i = 0 THEN <<>>
                   ELSE IF s[i] \in S THEN Append(g[i - 1], s[i]) ELSE g[i - 1]
      BY <3>1, <1>3, <2>1
    <3> HIDE DEF g
    <3>3. g = [i \in 0 .. k |-> g[i]]
      BY DEF g
    <3> QED BY <3>2, <3>3 DEF Follows
  <2> QED BY <2>3
<1> QED BY <1>2, <1>3

(* So it is what SelectedUpTo follows. *)
LEMMA SelectionFollows ==
  ASSUME NEW s, NEW S, Len(s) \in Nat
  PROVE  LET f == SelectedUpTo(s, S) IN
         /\ f[0] = <<>>
         /\ \A i \in 1 .. Len(s) :
              f[i] = IF s[i] \in S THEN Append(f[i - 1], s[i]) ELSE f[i - 1]
<1> DEFINE P(f) == f = [i \in 0 .. Len(s) |->
                          IF i = 0 THEN <<>>
                          ELSE IF s[i] \in S THEN Append(f[i - 1], s[i]) ELSE f[i - 1]]
<1>1. \E f : Follows(f, s, S, Len(s))
  BY SelectionExists
<1>2. \E f : P(f)
  BY <1>1 DEF Follows
<1>3. P(CHOOSE f : P(f))
  BY <1>2
<1>4. SelectedUpTo(s, S) = CHOOSE f : P(f)
  BY DEF SelectedUpTo
<1>5. P(SelectedUpTo(s, S))
  BY <1>3, <1>4
<1> DEFINE f == SelectedUpTo(s, S)
<1> HIDE DEF f
<1>6. P(f)
  BY <1>5 DEF f
<1>7. /\ f[0] = <<>>
      /\ \A i \in 1 .. Len(s) :
           f[i] = IF s[i] \in S THEN Append(f[i - 1], s[i]) ELSE f[i - 1]
  <2>1. 0 \in 0 .. Len(s) /\ \A i \in 1 .. Len(s) : i \in 0 .. Len(s) /\ i # 0
    OBVIOUS
  <2> QED BY <1>6, <2>1
<1> QED BY <1>7 DEF f

(* h says where each element of a selection of the first n elements comes  *)
(* from.                                                                   *)
Places(h, r, s, S, n) ==
  /\ h \in [1 .. Len(r) -> 1 .. n]
  /\ \A k \in 1 .. Len(r) : r[k] = s[h[k]] /\ s[h[k]] \in S
  /\ \A k, l \in 1 .. Len(r) : k < l => h[k] < h[l]
  /\ \A i \in 1 .. n : s[i] \in S => \E k \in 1 .. Len(r) : h[k] = i

LEMMA NextPlaces ==
  ASSUME NEW T, NEW s \in Seq(T), NEW S, NEW n \in 1 .. Len(s),
         NEW r \in Seq(T), NEW h, Places(h, r, s, S, n - 1),
         NEW q, s[n] \in S => q = Append(r, s[n]), s[n] \notin S => q = r
  PROVE  q \in Seq(T) /\ \E g : Places(g, q, s, S, n)
<1>1. s[n] \in T /\ n \in Nat /\ Len(r) \in Nat
  OBVIOUS
<1>2. CASE s[n] \in S
  <2>0. q = Append(r, s[n])
    BY <1>2
  <2> DEFINE g == [k \in 1 .. Len(r) + 1 |-> IF k = Len(r) + 1 THEN n ELSE h[k]]
  <2>1. /\ q \in Seq(T) /\ Len(q) = Len(r) + 1
        /\ \A k \in 1 .. Len(r) : q[k] = r[k]
        /\ q[Len(r) + 1] = s[n]
    BY <1>1, <2>0, AppendProperties
  <2>2. \A k \in 1 .. Len(r) : h[k] \in 1 .. n - 1
    BY DEF Places
  <2>3. g \in [1 .. Len(q) -> 1 .. n]
    BY <2>1, <2>2, <1>1
  <2>4. \A k \in 1 .. Len(q) : q[k] = s[g[k]] /\ s[g[k]] \in S
    BY <2>1, <1>1, <1>2 DEF Places
  <2>5. \A k, l \in 1 .. Len(q) : k < l => g[k] < g[l]
    <3> SUFFICES ASSUME NEW k \in 1 .. Len(r) + 1, NEW l \in 1 .. Len(r) + 1, k < l
                 PROVE  g[k] < g[l]
      BY <2>1
    <3>1. k \in 1 .. Len(r) /\ h[k] < n
      BY <2>2, <1>1
    <3>2. CASE l = Len(r) + 1
      BY <3>1, <3>2, <1>1
    <3>3. CASE l # Len(r) + 1
      <4>1. l \in 1 .. Len(r)
        BY <3>3, <1>1
      <4> QED BY <3>1, <4>1, <1>1 DEF Places
    <3> QED BY <3>2, <3>3
  <2>6. ASSUME NEW i \in 1 .. n, s[i] \in S
        PROVE  \E k \in 1 .. Len(q) : g[k] = i
    <3>1. CASE i = n
      BY <3>1, <2>1, <1>1
    <3>2. CASE i # n
      <4>1. i \in 1 .. n - 1
        BY <3>2, <1>1
      <4>2. PICK k \in 1 .. Len(r) : h[k] = i
        BY <4>1, <2>6 DEF Places
      <4>3. k \in 1 .. Len(q) /\ g[k] = i
        BY <4>2, <2>1, <1>1
      <4> QED BY <4>3
    <3> QED BY <3>1, <3>2
  <2> HIDE DEF g
  <2>7. Places(g, q, s, S, n)
    BY <2>3, <2>4, <2>5, <2>6 DEF Places
  <2> QED BY <2>1, <2>7
<1>3. CASE s[n] \notin S
  <2>1. h \in [1 .. Len(r) -> 1 .. n]
    BY <1>1 DEF Places
  <2>2. \A i \in 1 .. n : s[i] \in S => \E k \in 1 .. Len(r) : h[k] = i
    BY <1>1, <1>3 DEF Places
  <2>3. Places(h, r, s, S, n)
    BY <2>1, <2>2 DEF Places
  <2> QED BY <2>3, <1>3
<1> QED BY <1>2, <1>3

(* What a selection is: the elements of s at some places, in their order,  *)
(* and all those of S.                                                     *)
LEMMA SelectedPlaces ==
  ASSUME NEW T, NEW s \in Seq(T), NEW S
  PROVE  /\ Selected(s, S) \in Seq(T)
         /\ \E h : Places(h, Selected(s, S), s, S, Len(s))
<1> DEFINE f == SelectedUpTo(s, S)
           Good(n) == f[n] \in Seq(T) /\ \E h : Places(h, f[n], s, S, n)
           Bad == {n \in Nat : n <= Len(s) /\ ~Good(n)}
<1>1. Len(s) \in Nat
  OBVIOUS
<1>2. /\ f[0] = <<>>
      /\ \A i \in 1 .. Len(s) :
           f[i] = IF s[i] \in S THEN Append(f[i - 1], s[i]) ELSE f[i - 1]
  BY <1>1, SelectionFollows
<1> HIDE DEF f
<1>3. Good(0)
  <2> DEFINE h == [i \in 1 .. 0 |-> 1]
  <2>1. Places(h, <<>>, s, S, 0)
    BY DEF Places
  <2> QED BY <2>1, <1>2
<1>4. ASSUME NEW n \in Nat, n # 0, n <= Len(s), Good(n - 1)
      PROVE  Good(n)
  <2>1. n \in 1 .. Len(s)
    BY <1>1, <1>4
  <2>2. PICK h : Places(h, f[n - 1], s, S, n - 1)
    BY <1>4
  <2>3. /\ s[n] \in S => f[n] = Append(f[n - 1], s[n])
        /\ s[n] \notin S => f[n] = f[n - 1]
    BY <1>2, <2>1
  <2>4. f[n - 1] \in Seq(T)
    BY <1>4
  <2> DEFINE r == f[n - 1]
             q == f[n]
  <2>5. /\ s[n] \in S => q = Append(r, s[n])
        /\ s[n] \notin S => q = r
        /\ r \in Seq(T) /\ Places(h, r, s, S, n - 1)
    BY <2>2, <2>3, <2>4
  <2> HIDE DEF r, q
  <2>6. q \in Seq(T) /\ \E g : Places(g, q, s, S, n)
    BY <2>1, <2>5, NextPlaces
  <2> QED BY <2>6 DEF q
<1> HIDE DEF Good
<1>5. Bad = {}
  <2> SUFFICES ASSUME Bad # {} PROVE FALSE
    OBVIOUS
  <2>1. PICK n \in Bad : \A y \in Bad : n <= y
    BY LeastNat
  <2>2. n # 0
    BY <1>3
  <2>3. n - 1 \in Nat /\ n - 1 <= Len(s) /\ n - 1 \notin Bad
    BY <2>1, <2>2, <1>1
  <2> QED BY <2>1, <2>2, <2>3, <1>4
<1>6. Good(Len(s))
  BY <1>1, <1>5
<1> QED BY <1>6 DEF Good, f, Selected

(* Its elements are those of s that are in S. *)
LEMMA SelectedElements ==
  ASSUME NEW T, NEW s \in Seq(T), NEW S
  PROVE  /\ Selected(s, S) \in Seq(T)
         /\ \A k \in 1 .. Len(Selected(s, S)) :
              \E i \in 1 .. Len(s) : Selected(s, S)[k] = s[i] /\ s[i] \in S
         /\ \A i \in 1 .. Len(s) : s[i] \in S =>
              \E k \in 1 .. Len(Selected(s, S)) : Selected(s, S)[k] = s[i]
<1>1. PICK h : Places(h, Selected(s, S), s, S, Len(s))
  BY SelectedPlaces
<1>2. \A k \in 1 .. Len(Selected(s, S)) :
        h[k] \in 1 .. Len(s) /\ Selected(s, S)[k] = s[h[k]] /\ s[h[k]] \in S
  BY <1>1 DEF Places
<1>3. \A i \in 1 .. Len(s) : s[i] \in S =>
        \E k \in 1 .. Len(Selected(s, S)) : Selected(s, S)[k] = s[i]
  BY SMTT(30), <1>1 DEF Places
<1> QED BY <1>2, <1>3, SelectedPlaces

(* The first selected element is in S, and nothing before it is. *)
LEMMA SelectedHead ==
  ASSUME NEW T, NEW s \in Seq(T), NEW S, Selected(s, S) # <<>>
  PROVE  \E i \in 1 .. Len(s) : /\ Head(Selected(s, S)) = s[i] /\ s[i] \in S
                                /\ \A j \in 1 .. Len(s) : j < i => s[j] \notin S
<1> DEFINE r == Selected(s, S)
<1>1. r \in Seq(T)
  BY SelectedPlaces
<1>2. PICK h : Places(h, r, s, S, Len(s))
  BY SelectedPlaces
<1> HIDE DEF r
<1>3. r # <<>>
  BY DEF r
<1>4. Len(r) \in Nat /\ Len(r) # 0 /\ Head(r) = r[1]
  BY <1>1, <1>3, EmptySeq
<1>5. 1 \in 1 .. Len(r)
  BY <1>4
<1>6. h[1] \in 1 .. Len(s) /\ r[1] = s[h[1]] /\ s[h[1]] \in S
  BY <1>2, <1>5 DEF Places
<1>7. ASSUME NEW j \in 1 .. Len(s), j < h[1], s[j] \in S PROVE FALSE
  <2>1. PICK k \in 1 .. Len(r) : h[k] = j
    BY <1>2, <1>7 DEF Places
  <2>2. k = 1 \/ 1 < k
    BY <1>4
  <2>3. h[1] <= h[k]
    BY <2>2, <1>2, <1>5, <1>6, <2>1 DEF Places
  <2> QED BY <2>1, <2>3, <1>7, <1>6
<1> QED BY <1>4, <1>6, <1>7 DEF r

(* Selected elements stand in the order of s. *)
LEMMA SelectedOrder ==
  ASSUME NEW T, NEW s \in Seq(T), NEW S,
         NEW k \in 1 .. Len(Selected(s, S)), NEW l \in 1 .. Len(Selected(s, S)), k < l
  PROVE  \E i, j \in 1 .. Len(s) : /\ i < j
                                  /\ Selected(s, S)[k] = s[i] /\ Selected(s, S)[l] = s[j]
<1> DEFINE r == Selected(s, S)
<1>1. PICK h : Places(h, r, s, S, Len(s))
  BY SelectedPlaces
<1> HIDE DEF r
<1>2. k \in 1 .. Len(r) /\ l \in 1 .. Len(r)
  BY DEF r
<1>3. h[k] \in 1 .. Len(s) /\ h[l] \in 1 .. Len(s) /\ h[k] < h[l]
  BY <1>1, <1>2 DEF Places
<1>4. r[k] = s[h[k]] /\ r[l] = s[h[l]]
  BY <1>1, <1>2 DEF Places
<1> QED BY <1>3, <1>4 DEF r

(* A selection repeats nothing if s does not. *)
LEMMA SelectedOnce ==
  ASSUME NEW T, NEW s \in Seq(T), NEW S,
         \A i, j \in 1 .. Len(s) : s[i] = s[j] => i = j
  PROVE  \A k, l \in 1 .. Len(Selected(s, S)) : Selected(s, S)[k] = Selected(s, S)[l] => k = l
<1> DEFINE r == Selected(s, S)
<1>1. PICK h : Places(h, r, s, S, Len(s))
  BY SelectedPlaces
<1>2. r \in Seq(T)
  BY SelectedPlaces
<1> HIDE DEF r
<1>3. ASSUME NEW k \in 1 .. Len(r), NEW l \in 1 .. Len(r), r[k] = r[l] PROVE k = l
  <2>1. /\ h[k] \in 1 .. Len(s) /\ h[l] \in 1 .. Len(s)
        /\ r[k] = s[h[k]] /\ r[l] = s[h[l]]
    BY <1>1 DEF Places
  <2>2. h[k] = h[l]
    BY <2>1, <1>3
  <2>3. ~(k < l) /\ ~(l < k)
    BY <1>1, <2>1, <2>2 DEF Places
  <2>4. Len(r) \in Nat
    BY <1>2
  <2> QED BY <2>3, <2>4
<1> QED BY <1>3 DEF r
=============================================================================
