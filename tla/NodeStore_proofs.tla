-------------------------- MODULE NodeStore_proofs --------------------------
(***************************************************************************)
(* What is reachable, in any finite graph.  NodeStore computes it round by *)
(* round, as many as there are nodes; here it is shown to be the least set *)
(* of nodes that is closed under references (ReachStarts, ReachCloses,     *)
(* ReachLeast), which is what the proofs about its users need.             *)
(***************************************************************************)
EXTENDS NodeStore, WellFoundedInduction, FiniteSetTheorems, TLAPS

(***************************************************************************)
(* Induction and recursion over numbers in a first-order form.  A loop is  *)
(* a recursive function in the models: what it leaves after i rounds from  *)
(* what it left after i - 1.  That there is such a function has to be      *)
(* shown before anything can be said of it.                                *)
(***************************************************************************)

LEMMA LeastNumber ==
    ASSUME NEW S \in SUBSET Nat, S # {}
    PROVE  \E n \in S : \A m \in S : n <= m
<1> DEFINE R == OpToRel(<, Nat)
<1>1. IsWellFoundedOn(R, Nat)
  BY NatLessThanWellFounded
<1>2. PICK n \in S : \A m \in S : ~ (<<m, n>> \in R)
  BY <1>1, WFMin, Zenon
<1>3. \A m \in S : ~ (m < n)
  BY <1>2 DEF OpToRel
<1> QED BY <1>3

(* Induction: the property is given as the set of numbers that have it.    *)
LEMMA SetInduction ==
    ASSUME NEW S, 0 \in S, \A n \in Nat : n \in S => n + 1 \in S
    PROVE  \A n \in Nat : n \in S
<1> SUFFICES ASSUME NEW n \in Nat, n \notin S PROVE FALSE
  OBVIOUS
<1> DEFINE Bad == {m \in Nat : m \notin S}
<1>1. PICK m \in Bad : \A k \in Bad : m <= k
  BY LeastNumber
<1>2. m # 0 /\ m - 1 \in Nat /\ m - 1 \notin Bad
  BY <1>1
<1> QED BY <1>1, <1>2

(* The recursion of a loop that starts with x and goes from one number to  *)
(* the next by F.                                                          *)
Loop(f, D, x, F) == f = [i \in D |-> IF i = 0 THEN x ELSE F[i][f[i - 1]]]

Rounds(h, D, n, x, F) == \A i \in D : i <= n => h[i] = IF i = 0 THEN x ELSE F[i][h[i - 1]]

Downward(D) == D \in SUBSET Nat /\ \A i \in D : i > 0 => i - 1 \in D

LEMMA RoundsExist ==
    ASSUME NEW D, Downward(D), NEW X, NEW x \in X, NEW F \in [D -> [X -> X]], NEW n \in D
    PROVE  \E h \in [D -> X] : Rounds(h, D, n, x, F)
<1> DEFINE Bad == {m \in D : ~ \E h \in [D -> X] : Rounds(h, D, m, x, F)}
<1> SUFFICES ASSUME Bad # {} PROVE FALSE
  OBVIOUS
<1>1. PICK m \in Bad : \A k \in Bad : m <= k
  BY LeastNumber DEF Downward
<1>2. m \in D /\ m \in Nat /\ ~ \E h \in [D -> X] : Rounds(h, D, m, x, F)
  BY <1>1 DEF Downward
<1> HIDE DEF Bad
<1>3. CASE m = 0
  <2>1. [i \in D |-> x] \in [D -> X] /\ Rounds([i \in D |-> x], D, m, x, F)
    BY <1>3 DEF Rounds, Downward
  <2> QED BY <2>1, <1>2
<1>4. CASE m > 0
  <2>1. m - 1 \in D /\ m - 1 \notin Bad
    BY <1>1, <1>2, <1>4 DEF Downward
  <2>2. PICK h \in [D -> X] : Rounds(h, D, m - 1, x, F)
    BY <2>1 DEF Bad
  <2> DEFINE g == [h EXCEPT ![m] = F[m][h[m - 1]]]
  <2>3. h[m - 1] \in X /\ F[m][h[m - 1]] \in X
    BY <1>2, <2>1
  <2>4. g \in [D -> X]
    BY <2>3
  <2>5. \A i \in D : g[i] = IF i = m THEN F[m][h[m - 1]] ELSE h[i]
    OBVIOUS
  <2> HIDE DEF g
  <2>6. ASSUME NEW i \in D, i <= m PROVE g[i] = IF i = 0 THEN x ELSE F[i][g[i - 1]]
    <3>1. i \in Nat /\ (i > 0 => i - 1 \in D /\ i - 1 # m)
      BY <1>2, <2>6 DEF Downward
    <3>2. CASE i = m
      BY <1>4, <2>5, <3>1, <3>2
    <3>3. CASE i # m
      <4>1. i <= m - 1
        BY <1>2, <2>6, <3>1, <3>3
      <4> QED BY <4>1, <2>2, <2>5, <3>1, <3>3 DEF Rounds
    <3> QED BY <3>2, <3>3
  <2>7. Rounds(g, D, m, x, F)
    BY <2>6 DEF Rounds
  <2> QED BY <2>4, <2>7, <1>2
<1> QED BY <1>2, <1>3, <1>4

LEMMA RoundsAgree ==
    ASSUME NEW D, Downward(D), NEW x, NEW F, NEW n \in D, NEW m \in D, n <= m,
           NEW g, Rounds(g, D, n, x, F), NEW h, Rounds(h, D, m, x, F)
    PROVE  g[n] = h[n]
<1> DEFINE Bad == {i \in D : i <= n /\ g[i] # h[i]}
<1> SUFFICES ASSUME Bad # {} PROVE FALSE
  BY DEF Downward
<1>1. PICK i \in Bad : \A k \in Bad : i <= k
  BY LeastNumber DEF Downward
<1>2. i \in D /\ i \in Nat /\ i <= n /\ g[i] # h[i] /\ n \in Nat /\ m \in Nat
  BY <1>1 DEF Downward
<1>3. g[i] = (IF i = 0 THEN x ELSE F[i][g[i - 1]]) /\ h[i] = (IF i = 0 THEN x ELSE F[i][h[i - 1]])
  BY <1>2 DEF Rounds
<1>4. i > 0 => i - 1 \in D /\ i - 1 \notin Bad
  BY <1>1, <1>2 DEF Downward
<1>5. i > 0 => g[i - 1] = h[i - 1]
  BY <1>2, <1>4
<1> QED BY <1>2, <1>3, <1>5

LEMMA LoopExists ==
    ASSUME NEW D, Downward(D), NEW X, NEW x \in X, NEW F \in [D -> [X -> X]]
    PROVE  \E f \in [D -> X] : Loop(f, D, x, F)
<1> DEFINE upto(i) == CHOOSE h \in [D -> X] : Rounds(h, D, i, x, F)
           f == [i \in D |-> upto(i)[i]]
<1>1. \A i \in D : upto(i) \in [D -> X] /\ Rounds(upto(i), D, i, x, F)
  BY RoundsExist
<1> HIDE DEF upto
<1>2. f \in [D -> X]
  BY <1>1
<1>3. ASSUME NEW i \in D PROVE upto(i)[i] = IF i = 0 THEN x ELSE F[i][f[i - 1]]
  <2>1. i \in Nat /\ (i > 0 => i - 1 \in D /\ i - 1 <= i)
    BY DEF Downward
  <2>2. upto(i)[i] = IF i = 0 THEN x ELSE F[i][upto(i)[i - 1]]
    BY <1>1, <2>1 DEF Rounds
  <2>3. i > 0 => upto(i - 1)[i - 1] = upto(i)[i - 1]
    BY <1>1, <2>1, RoundsAgree
  <2> QED BY <2>1, <2>2, <2>3
<1>4. f = [i \in D |-> IF i = 0 THEN x ELSE F[i][f[i - 1]]]
  BY <1>3
<1> QED BY <1>2, <1>4 DEF Loop

(***************************************************************************)
(* Values and the operations on graphs.                                    *)
(***************************************************************************)
LEMMA NoneFacts ==
    ~ NonNull(None) /\ Is(None, "none") /\ ~ Is(None, "ref") /\ ~ Is(None, "sym") /\ ~ Is(None, "int")
BY DEF None, Is, NonNull

LEMMA PutFacts ==
    ASSUME NEW g, NEW n \in DOMAIN g, NEW k, NEW val
    PROVE  /\ DOMAIN Put(g, n, k, val) = DOMAIN g
           /\ \A m \in DOMAIN g : m # n => Put(g, n, k, val)[m] = g[m]
           /\ DOMAIN Put(g, n, k, val)[n] = DOMAIN g[n] \cup {k}
           /\ \A j \in DOMAIN g[n] \cup {k} :
                Put(g, n, k, val)[n][j] = IF j = k THEN val ELSE g[n][j]
BY DEF Put

LEMMA DelFacts ==
    ASSUME NEW g, NEW n \in DOMAIN g, NEW k
    PROVE  /\ DOMAIN Del(g, n, k) = DOMAIN g
           /\ \A m \in DOMAIN g : m # n => Del(g, n, k)[m] = g[m]
           /\ DOMAIN Del(g, n, k)[n] = DOMAIN g[n] \ {k}
           /\ \A j \in DOMAIN g[n] \ {k} : Del(g, n, k)[n][j] = g[n][j]
BY DEF Del

(***************************************************************************)
(* Reachability.                                                           *)
(***************************************************************************)
(* One round, and what the rounds have found.                              *)
Spread(g, T) == T \cup UNION {Children(g, n) : n \in T \cap DOMAIN g}

Within(g, S) == CHOOSE f : f = [i \in Nat |->
    IF i = 0 THEN S
    ELSE f[i - 1] \cup UNION {Children(g, n) : n \in f[i - 1] \cap DOMAIN g}]

LEMMA ReachIsWithin ==
    ASSUME NEW g, NEW S
    PROVE  Reach(g, S) = Within(g, S)[Cardinality(DOMAIN g)] \cap DOMAIN g
BY Zenon DEF Reach, Within

LEMMA WithinRounds ==
    ASSUME NEW g, NEW S
    PROVE  /\ Within(g, S)[0] = S
           /\ \A i \in Nat : Within(g, S)[i + 1] = Spread(g, Within(g, S)[i])
<1> DEFINE all  == S \cup UNION {Children(g, n) : n \in DOMAIN g}
           next == [T \in SUBSET all |-> Spread(g, T)]
           F    == [i \in Nat |-> next]
<1>1. Downward(Nat)
  BY DEF Downward
<1>2. \A T \in SUBSET all : Spread(g, T) \in SUBSET all
  BY DEF Spread
<1> HIDE DEF all
<1>3. next \in [SUBSET all -> SUBSET all]
  BY <1>2
<1> HIDE DEF next
<1>4. F \in [Nat -> [SUBSET all -> SUBSET all]]
  BY <1>3
<1>5. S \in SUBSET all
  BY DEF all
<1> HIDE DEF F
<1>6. PICK f \in [Nat -> SUBSET all] : Loop(f, Nat, S, F)
  BY <1>1, <1>4, <1>5, LoopExists
<1>7. \A i \in Nat \ {0} : i - 1 \in Nat /\ F[i][f[i - 1]] = Spread(g, f[i - 1])
  BY <1>6 DEF F, next
<1>8. f = [i \in Nat |-> IF i = 0 THEN S ELSE Spread(g, f[i - 1])]
  BY <1>6, <1>7 DEF Loop
<1>9. Within(g, S) = [i \in Nat |-> IF i = 0 THEN S ELSE Spread(g, Within(g, S)[i - 1])]
  BY <1>8 DEF Within, Spread
<1> HIDE DEF Within
<1> QED BY <1>9

(* The rounds stop spreading after as many of them as there are nodes.     *)
LEMMA SpreadStops ==
    ASSUME NEW g, IsFiniteSet(DOMAIN g), NEW S
    PROVE  LET T == Within(g, S)[Cardinality(DOMAIN g)] \cap DOMAIN g
           IN  \A n \in T : Children(g, n) \cap DOMAIN g \subseteq T
<1> DEFINE found(i)  == Within(g, S)[i] \cap DOMAIN g
           Closed(i) == \A n \in found(i) : Children(g, n) \cap DOMAIN g \subseteq found(i)
           Good      == {i \in Nat : Closed(i) \/ i <= Cardinality(found(i))}
<1>1. \A i \in Nat : /\ IsFiniteSet(found(i))
                     /\ Cardinality(found(i)) \in Nat
                     /\ Cardinality(found(i)) <= Cardinality(DOMAIN g)
                     /\ Cardinality(DOMAIN g) = Cardinality(found(i)) => found(i) = DOMAIN g
  BY FS_Subset, FS_CardinalityType
<1>2. \A i \in Nat : found(i + 1) = found(i) \cup
                        {c \in DOMAIN g : \E n \in found(i) : c \in Children(g, n)}
  BY WithinRounds DEF Spread
<1>3. Cardinality(DOMAIN g) \in Nat
  BY FS_CardinalityType
<1> HIDE DEF found
<1>4. 0 \in Good
  BY <1>1
<1>5. ASSUME NEW i \in Nat, i \in Good PROVE i + 1 \in Good
  <2>1. CASE Closed(i)
    <3>1. found(i + 1) = found(i)
      BY <1>2, <2>1
    <3> QED BY <2>1, <3>1
  <2>2. CASE ~ Closed(i)
    <3>1. i <= Cardinality(found(i)) /\ found(i) # found(i + 1)
      BY <1>2, <1>5, <2>2
    <3>2. found(i) \in SUBSET found(i + 1) /\ i + 1 \in Nat
      BY <1>2
    <3>3. Cardinality(found(i)) <= Cardinality(found(i + 1))
          /\ Cardinality(found(i + 1)) # Cardinality(found(i))
      BY <1>1, <3>1, <3>2, FS_Subset
    <3>4. i + 1 <= Cardinality(found(i + 1))
      BY <1>1, <3>1, <3>2, <3>3
    <3> QED BY <3>2, <3>4
  <2> QED BY <2>1, <2>2
<1> HIDE DEF Good
<1>6. \A i \in Nat : i \in Good
  BY <1>4, <1>5, SetInduction
<1>7. PICK n : n = Cardinality(DOMAIN g)
  OBVIOUS
<1>8. Closed(n)
  <2>1. n \in Good
    BY <1>3, <1>6, <1>7
  <2>2. CASE n <= Cardinality(found(n))
    <3>1. found(n) = DOMAIN g
      BY <1>1, <1>3, <1>7, <2>2
    <3> QED BY <3>1
  <2> QED BY <2>1, <2>2 DEF Good
<1> QED BY <1>7, <1>8 DEF found

(* T is closed under the references of g.                                  *)
ClosedIn(g, T) == \A n \in T \cap DOMAIN g : Children(g, n) \cap DOMAIN g \subseteq T

LEMMA ReachStarts ==
    ASSUME NEW g, IsFiniteSet(DOMAIN g), NEW S
    PROVE  S \cap DOMAIN g \subseteq Reach(g, S) /\ Reach(g, S) \subseteq DOMAIN g
<1> DEFINE Good == {i \in Nat : S \subseteq Within(g, S)[i]}
<1>a. \A T : T \subseteq Spread(g, T)
  BY DEF Spread
<1>1. 0 \in Good /\ \A i \in Nat : i \in Good => i + 1 \in Good
  BY <1>a, WithinRounds
<1> HIDE DEF Good
<1>2. \A i \in Nat : i \in Good
  BY <1>1, SetInduction
<1> QED BY <1>2, ReachIsWithin, FS_CardinalityType DEF Good

LEMMA ReachCloses ==
    ASSUME NEW g, IsFiniteSet(DOMAIN g), NEW S
    PROVE  ClosedIn(g, Reach(g, S))
BY SpreadStops, ReachIsWithin DEF ClosedIn

LEMMA ReachLeast ==
    ASSUME NEW g, IsFiniteSet(DOMAIN g), NEW S, NEW T, S \cap DOMAIN g \subseteq T, ClosedIn(g, T)
    PROVE  Reach(g, S) \subseteq T
<1> DEFINE Good == {i \in Nat : Within(g, S)[i] \cap DOMAIN g \subseteq T}
<1>1. 0 \in Good /\ \A i \in Nat : i \in Good => i + 1 \in Good
  BY WithinRounds DEF Spread, ClosedIn
<1> HIDE DEF Good
<1>2. \A i \in Nat : i \in Good
  BY <1>1, SetInduction
<1> QED BY <1>2, ReachIsWithin, FS_CardinalityType DEF Good
=============================================================================
