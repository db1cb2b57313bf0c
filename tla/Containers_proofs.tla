------------------------- MODULE Containers_proofs -------------------------
(***************************************************************************)
(* The containers of container/ and the table of opcodes, for every        *)
(* capacity, key and value, and every order of calls; and the file of a    *)
(* graph, for every pool, guess and size of buffer.                        *)
(***************************************************************************)
EXTENDS TableUse, Vector, Slab, OpcodeTable, SavedFile, FiniteSetTheorems, TLAPS

(* For its induction and recursion over numbers.                           *)
N == INSTANCE NodeStore_proofs

(***************************************************************************)
(* The tables of opcodes.                                                  *)
(***************************************************************************)
(* Runtimes may begin and end in any order, and anyone may look something  *)
(* up at any time: as long as one of them lives the tables are there, and  *)
(* the count says how many live.                                           *)
THEOREM OpcodesHeld == OpcodesInit /\ [][OpcodesNext]_opcodes => []TablesHeld
<1> DEFINE Inv == IsFiniteSet(living) /\ TablesHeld
<1>1. OpcodesInit => Inv
  BY FS_EmptySet DEF OpcodesInit, TablesHeld
<1>2. Inv /\ [OpcodesNext]_opcodes => Inv'
  <2> SUFFICES ASSUME Inv, [OpcodesNext]_opcodes
               PROVE  Inv'
    OBVIOUS
  <2>1. Cardinality(living) \in Nat /\ (Cardinality(living) = 0 <=> living = {})
    BY FS_CardinalityType, FS_EmptySet
  <2>2. ASSUME NEW r \in Runtimes, BeginRuntime(r) PROVE Inv'
    <3>1. IsFiniteSet(living') /\ Cardinality(living') = Cardinality(living) + 1 /\ living' # {}
      BY <2>2, FS_AddElement DEF BeginRuntime
    <3>2. refs' = Cardinality(living') /\ made'
      BY <2>1, <2>2, <3>1, FS_EmptySet DEF BeginRuntime, OneMore, TablesHeld
    <3> QED BY <3>1, <3>2 DEF TablesHeld
  <2>3. ASSUME NEW r \in Runtimes, EndRuntime(r) PROVE Inv'
    <3>1. living # {} /\ made /\ refs = Cardinality(living)
      BY <2>3 DEF EndRuntime, TablesHeld
    <3>2. IsFiniteSet(living') /\ Cardinality(living') = Cardinality(living) - 1
      BY <2>3, FS_RemoveElement DEF EndRuntime
    <3>3. Cardinality(living') \in Nat /\ (Cardinality(living') = 0 <=> living' = {})
      BY <3>2, FS_CardinalityType, FS_EmptySet
    <3>4. refs' = IF refs - 1 <= 0 THEN -1 ELSE refs - 1
      BY <2>3 DEF EndRuntime
    <3>5. refs - 1 > 0 => made'
      BY <2>3, <3>1 DEF EndRuntime
    <3>6. refs - 1 = Cardinality(living')
      BY <2>1, <3>1, <3>2
    <3>7. CASE living' = {}
      BY <3>2, <3>3, <3>4, <3>6, <3>7 DEF TablesHeld
    <3>8. CASE living' # {}
      <4>1. refs' = Cardinality(living') /\ refs - 1 > 0
        BY <3>3, <3>4, <3>6, <3>8
      <4> QED BY <3>2, <3>5, <3>8, <4>1, Zenon DEF TablesHeld
    <3> QED BY <3>7, <3>8
  <2>4. Lookup => Inv'
    BY DEF Lookup, TablesHeld
  <2>5. UNCHANGED opcodes => Inv'
    BY DEF opcodes, TablesHeld
  <2> QED BY <2>2, <2>3, <2>4, <2>5 DEF OpcodesNext
<1> QED BY <1>1, <1>2, PTL

-----------------------------------------------------------------------------
(***************************************************************************)
(* Probing.  From any home the probes go once through all buckets.         *)
(***************************************************************************)
LEMMA Modulo ==
    ASSUME NEW a \in Int, NEW c \in Nat, c > 0
    PROVE  a % c \in 0 .. c - 1 /\ a = c * (a \div c) + (a % c) /\ a \div c \in Int
BY SMT

LEMMA SameRest ==
    ASSUME NEW c \in Nat, c > 0, NEW q \in Int, NEW r \in Int, NEW i \in 0 .. c - 1, NEW j \in 0 .. c - 1,
           c * q + i = c * r + j
    PROVE  i = j
<1>1. CASE q = r
  BY <1>1
<1>2. CASE q < r
  <2>1. c * (r - q) >= c
    BY <1>2, SMT
  <2> QED BY <2>1, SMT
<1>3. CASE q > r
  <2>1. c * (q - r) >= c
    BY <1>3, SMT
  <2> QED BY <2>1, SMT
<1> QED BY <1>1, <1>2, <1>3

LEMMA ProbeFacts ==
    ASSUME NEW t, t.cap \in Nat, t.cap > 0, NEW k \in Nat
    PROVE  /\ \A i \in Nat : Probe(t, k, i) \in 0 .. t.cap - 1
           /\ \A i, j \in 0 .. t.cap - 1 : Probe(t, k, i) = Probe(t, k, j) => i = j
           /\ \A b \in 0 .. t.cap - 1 : \E i \in 0 .. t.cap - 1 : Probe(t, k, i) = b
<1>1. PICK c, h : c = t.cap /\ h = 3 * k
  OBVIOUS
<1>2. c \in Nat /\ c > 0 /\ h \in Nat
  BY <1>1
<1>3. \A i : Probe(t, k, i) = (h + i) % c
  BY <1>1 DEF Probe
<1> HIDE DEF Probe
<1>4. ASSUME NEW i \in Nat PROVE Probe(t, k, i) \in 0 .. c - 1
  BY <1>2, <1>3, Modulo
<1>5. ASSUME NEW i \in 0 .. c - 1, NEW j \in 0 .. c - 1, (h + i) % c = (h + j) % c PROVE i = j
  <2>0. h + i \in Int /\ h + j \in Int
    BY <1>2
  <2>1. PICK q \in Int, r \in Int : h + i = c * q + ((h + i) % c) /\ h + j = c * r + ((h + j) % c)
    <3>1. (h + i) \div c \in Int /\ h + i = c * ((h + i) \div c) + ((h + i) % c)
      BY <1>2, <2>0, Modulo
    <3>2. (h + j) \div c \in Int /\ h + j = c * ((h + j) \div c) + ((h + j) % c)
      BY <1>2, <2>0, Modulo
    <3> QED BY <3>1, <3>2
  <2>2. PICK m \in Int : m = (h + i) % c
    BY <1>2, <2>0, Modulo
  <2>3. h + i = c * q + m /\ h + j = c * r + m
    BY <1>5, <2>1, <2>2
  <2>4. c * r + i = c * q + j
    BY <1>2, <2>3
  <2> QED BY <1>2, <2>4, SameRest
<1>6. ASSUME NEW b \in 0 .. c - 1 PROVE \E i \in 0 .. c - 1 : (h + i) % c = b
  <2>1. PICK i \in 0 .. c - 1, q \in Int : b - h = c * q + i
    <3>1. b - h \in Int
      BY <1>2
    <3>2. (b - h) % c \in 0 .. c - 1 /\ (b - h) \div c \in Int
          /\ b - h = c * ((b - h) \div c) + ((b - h) % c)
      BY <1>2, <3>1, Modulo
    <3> QED BY <3>2
  <2>2. PICK m \in 0 .. c - 1, r \in Int : m = (h + i) % c /\ h + i = c * r + m
    <3>1. h + i \in Int
      BY <1>2
    <3>2. /\ (h + i) % c \in 0 .. c - 1 /\ (h + i) \div c \in Int
          /\ h + i = c * ((h + i) \div c) + ((h + i) % c)
      BY <1>2, <3>1, Modulo
    <3> QED BY <3>2
  <2>3. c * (0 - q) + b = c * r + m
    BY <1>2, <2>1, <2>2, SMT
  <2>4. b = m
    BY <1>2, <2>3, SameRest
  <2> QED BY <2>2, <2>4
<1> QED BY <1>1, <1>3, <1>4, <1>5, <1>6

(***************************************************************************)
(* Tables, and where a key is found.                                       *)
(***************************************************************************)
Bucket == {Unused, Deleted} \cup {Used(k, v) : k \in Keys, v \in Vals}

UsedIn(t) == {b \in 0 .. t.cap - 1 : t.bucket[b].marker = 1}

IsTable(t) ==
    /\ t = [cap |-> t.cap, size |-> t.size, bucket |-> t.bucket]
    /\ t.cap \in Nat /\ t.cap > 0
    /\ t.bucket \in [0 .. t.cap - 1 -> Bucket]
    /\ t.size = Cardinality(UsedIn(t))

(* The probes before the i-th go on, and the i-th finds k.                 *)
Path(t, k, i)   == \A j \in 0 .. i - 1 : ~ Ends(t, k, j)
Placed(t, k, i) == i \in 0 .. t.cap - 1 /\ Holds(At(t, k, i), k) /\ Path(t, k, i)

(* Every pair is where get finds it.                                       *)
Sound(t) ==
    /\ IsTable(t)
    /\ \A b \in UsedIn(t) :
          \E i \in Nat : Placed(t, t.bucket[b].key, i) /\ Probe(t, t.bucket[b].key, i) = b

LEMMA BucketFacts ==
    ASSUME NEW x \in Bucket
    PROVE  /\ x.marker \in {-1, 0, 1}
           /\ x.marker = 1 => x.key \in Keys /\ x.val \in Vals /\ x = Used(x.key, x.val)
BY DEF Bucket, Unused, Deleted, Used

LEMMA UsedFacts ==
    ASSUME NEW k, NEW v
    PROVE  Used(k, v).marker = 1 /\ Used(k, v).key = k /\ Used(k, v).val = v
           /\ Deleted.marker = -1 /\ Unused.marker = 0
BY DEF Used, Deleted, Unused

LEMMA TableFacts ==
    ASSUME NEW t, IsTable(t)
    PROVE  /\ IsFiniteSet(UsedIn(t)) /\ t.size \in 0 .. t.cap
           /\ \A b \in 0 .. t.cap - 1 : t.bucket[b] \in Bucket
           /\ \A b \in UsedIn(t) : t.bucket[b].key \in Keys /\ t.bucket[b].key \in Nat
<1>1. IsFiniteSet(0 .. t.cap - 1) /\ Cardinality(0 .. t.cap - 1) = t.cap
  BY FS_Interval DEF IsTable
<1>2. IsFiniteSet(UsedIn(t)) /\ Cardinality(UsedIn(t)) <= Cardinality(0 .. t.cap - 1)
  BY <1>1, FS_Subset DEF UsedIn
<1>3. Cardinality(UsedIn(t)) \in Nat
  BY <1>2, FS_CardinalityType
<1>4. \A b \in 0 .. t.cap - 1 : t.bucket[b] \in Bucket
  BY DEF IsTable
<1> QED BY <1>1, <1>2, <1>3, <1>4, BucketFacts, HashAssumption DEF IsTable, UsedIn

LEMMA EndFacts ==
    ASSUME NEW t, t.cap \in Nat, NEW k
    PROVE  /\ End(t, k) \in 0 .. t.cap /\ (End(t, k) = t.cap \/ Ends(t, k, End(t, k)))
           /\ Path(t, k, End(t, k))
           /\ \A i \in 0 .. t.cap : (i = t.cap \/ Ends(t, k, i)) /\ Path(t, k, i) => i = End(t, k)
<1> DEFINE Stops == {i \in 0 .. t.cap : i = t.cap \/ Ends(t, k, i)}
<1>1. t.cap \in Stops /\ Stops \in SUBSET Nat
  OBVIOUS
<1>2. PICK i \in Stops : \A j \in Stops : i <= j
  BY <1>1, N!LeastNumber
<1>3. \A j \in 0 .. i - 1 : j \in 0 .. t.cap /\ j \notin Stops
  BY <1>1, <1>2
<1>4. \E e \in 0 .. t.cap : (e = t.cap \/ Ends(t, k, e)) /\ \A j \in 0 .. e - 1 : ~ Ends(t, k, j)
  BY <1>3
<1>5. PICK e : e = End(t, k)
  OBVIOUS
<1>6. e \in 0 .. t.cap /\ (e = t.cap \/ Ends(t, k, e)) /\ \A j \in 0 .. e - 1 : ~ Ends(t, k, j)
  BY <1>4, <1>5 DEF End
<1>7. ASSUME NEW n \in 0 .. t.cap, n = t.cap \/ Ends(t, k, n), Path(t, k, n) PROVE n = e
  <2>1. ~ (n < e)
    BY <1>6, <1>7
  <2>2. ~ (e < n)
    BY <1>6, <1>7 DEF Path
  <2> QED BY <1>6, <2>1, <2>2
<1> QED BY <1>5, <1>6, <1>7 DEF Path

LEMMA PlacedFacts ==
    ASSUME NEW t, t.cap \in Nat, NEW k
    PROVE  /\ Found(t, k) <=> Placed(t, k, End(t, k))
           /\ \A i : Placed(t, k, i) => Found(t, k) /\ i = End(t, k)
           /\ Find(t, k) = Probe(t, k, End(t, k))
<1>1. Found(t, k) <=> Placed(t, k, End(t, k))
  BY EndFacts DEF Found, Placed
<1>2. ASSUME NEW i, Placed(t, k, i) PROVE Found(t, k) /\ i = End(t, k)
  <2>1. i \in 0 .. t.cap /\ Ends(t, k, i) /\ Path(t, k, i)
    BY <1>2 DEF Placed, Ends
  <2> QED BY <1>1, <1>2, <2>1, EndFacts
<1> QED BY <1>1, <1>2 DEF Find

(* What get finds, in a sound table.                                       *)
LEMMA FoundFacts ==
    ASSUME NEW t, Sound(t), NEW k \in Keys
    PROVE  /\ \A b \in UsedIn(t) : t.bucket[b].key = k => Found(t, k) /\ b = Find(t, k)
           /\ Found(t, k) => Find(t, k) \in UsedIn(t) /\ t.bucket[Find(t, k)].key = k
<1>1. t.cap \in Nat /\ t.cap > 0 /\ k \in Nat
  BY HashAssumption DEF Sound, IsTable
<1>2. ASSUME NEW b \in UsedIn(t), t.bucket[b].key = k
      PROVE  Found(t, k) /\ b = Find(t, k)
  <2>1. PICK i \in Nat : Placed(t, k, i) /\ Probe(t, k, i) = b
    BY <1>2 DEF Sound
  <2> QED BY <1>1, <2>1, PlacedFacts
<1>3. ASSUME Found(t, k)
      PROVE  Find(t, k) \in UsedIn(t) /\ t.bucket[Find(t, k)].key = k
  <2>1. PICK i : i = End(t, k)
    OBVIOUS
  <2>2. Placed(t, k, i) /\ Find(t, k) = Probe(t, k, i)
    BY <1>1, <1>3, <2>1, PlacedFacts
  <2>3. i \in 0 .. t.cap - 1 /\ i \in Nat
    BY <1>1, <2>2 DEF Placed
  <2>4. Probe(t, k, i) \in 0 .. t.cap - 1
    BY <1>1, <2>3, ProbeFacts
  <2>5. t.bucket[Probe(t, k, i)].marker = 1 /\ t.bucket[Probe(t, k, i)].key = k
    BY <2>2 DEF Placed, Holds, At
  <2> QED BY <2>2, <2>4, <2>5 DEF UsedIn
<1> QED BY <1>2, <1>3

LEMMA FindUsed ==
    ASSUME NEW t, IsTable(t), NEW k \in Keys, Found(t, k)
    PROVE  /\ Find(t, k) \in UsedIn(t) /\ Find(t, k) \in 0 .. t.cap - 1
           /\ Holds(t.bucket[Find(t, k)], k)
<1>1. t.cap \in Nat /\ t.cap > 0 /\ k \in Nat
  BY HashAssumption DEF IsTable
<1>2. PICK i : i = End(t, k)
  OBVIOUS
<1>3. Placed(t, k, i) /\ Find(t, k) = Probe(t, k, i)
  BY <1>1, <1>2, PlacedFacts
<1>4. Probe(t, k, i) \in 0 .. t.cap - 1
  BY <1>1, <1>3, ProbeFacts DEF Placed
<1> QED BY <1>3, <1>4 DEF Placed, Holds, At, UsedIn

(***************************************************************************)
(* One bucket changes.                                                     *)
(***************************************************************************)
(* s is t with x in bucket b, and a count that fits.                       *)
Altered(t, s, b, x, n) ==
    /\ s = [t EXCEPT !.bucket[b] = x, !.size = n]
    /\ \/ x.marker = 1 /\ t.bucket[b].marker = 1 /\ n = t.size
       \/ x.marker = 1 /\ t.bucket[b].marker # 1 /\ n = t.size + 1
       \/ x.marker # 1 /\ t.bucket[b].marker = 1 /\ n = t.size - 1

LEMMA BucketChanged ==
    ASSUME NEW t, IsTable(t), NEW b \in 0 .. t.cap - 1, NEW x \in Bucket, NEW n,
           NEW s, Altered(t, s, b, x, n)
    PROVE  /\ IsTable(s) /\ s.cap = t.cap /\ s.size = n
           /\ \A c \in 0 .. t.cap - 1 : s.bucket[c] = IF c = b THEN x ELSE t.bucket[c]
           /\ UsedIn(s) = IF x.marker = 1 THEN UsedIn(t) \cup {b} ELSE UsedIn(t) \ {b}
<1>1. s.cap = t.cap /\ s.size = n /\ s.bucket = [t.bucket EXCEPT ![b] = x]
      /\ s = [cap |-> s.cap, size |-> s.size, bucket |-> s.bucket]
  BY DEF IsTable, Altered
<1>2. s.bucket \in [0 .. t.cap - 1 -> Bucket]
  BY <1>1 DEF IsTable
<1>3. \A c \in 0 .. t.cap - 1 : s.bucket[c] = IF c = b THEN x ELSE t.bucket[c]
  BY <1>1 DEF IsTable
<1>4. UsedIn(s) = IF x.marker = 1 THEN UsedIn(t) \cup {b} ELSE UsedIn(t) \ {b}
  BY <1>1, <1>3 DEF UsedIn
<1>5. IsFiniteSet(UsedIn(t)) /\ t.size = Cardinality(UsedIn(t)) /\ t.size \in Nat
  BY TableFacts DEF IsTable
<1>6. b \in UsedIn(t) <=> t.bucket[b].marker = 1
  BY DEF UsedIn
<1>7. n = Cardinality(UsedIn(s))
  <2>1. CASE x.marker = 1 /\ t.bucket[b].marker = 1 /\ n = t.size
    <3>1. UsedIn(s) = UsedIn(t)
      BY <1>4, <1>6, <2>1
    <3> QED BY <1>5, <2>1, <3>1
  <2>2. CASE x.marker = 1 /\ t.bucket[b].marker # 1 /\ n = t.size + 1
    <3>1. UsedIn(s) = UsedIn(t) \cup {b} /\ b \notin UsedIn(t)
      BY <1>4, <1>6, <2>2
    <3>2. Cardinality(UsedIn(t) \cup {b}) = Cardinality(UsedIn(t)) + 1
      BY <1>5, <3>1, FS_AddElement
    <3> QED BY <1>5, <2>2, <3>1, <3>2
  <2>3. CASE x.marker # 1 /\ t.bucket[b].marker = 1 /\ n = t.size - 1
    <3>1. UsedIn(s) = UsedIn(t) \ {b} /\ b \in UsedIn(t)
      BY <1>4, <1>6, <2>3
    <3>2. Cardinality(UsedIn(t) \ {b}) = Cardinality(UsedIn(t)) - 1
      BY <1>5, <3>1, FS_RemoveElement
    <3> QED BY <1>5, <2>3, <3>1, <3>2
  <2>4. \/ x.marker = 1 /\ t.bucket[b].marker = 1 /\ n = t.size
        \/ x.marker = 1 /\ t.bucket[b].marker # 1 /\ n = t.size + 1
        \/ x.marker # 1 /\ t.bucket[b].marker = 1 /\ n = t.size - 1
    BY Zenon DEF Altered
  <2> QED BY <2>1, <2>2, <2>3, <2>4
<1> QED BY <1>1, <1>2, <1>3, <1>4, <1>7 DEF IsTable

LEMMA PathKept ==
    ASSUME NEW t, NEW s, t.cap \in Nat, t.cap > 0, s.cap = t.cap, NEW k \in Nat, NEW i \in 0 .. t.cap,
           Path(t, k, i),
           \A c \in 0 .. t.cap - 1 : /\ t.bucket[c].marker # 0 => s.bucket[c].marker # 0
                                     /\ Holds(s.bucket[c], k) => Holds(t.bucket[c], k)
    PROVE  Path(s, k, i)
<1> SUFFICES ASSUME NEW j \in 0 .. i - 1 PROVE ~ Ends(s, k, j)
  BY DEF Path
<1>1. ~ Ends(t, k, j) /\ j \in Nat
  BY DEF Path
<1>2. PICK c \in 0 .. t.cap - 1 : c = Probe(t, k, j)
  BY <1>1, ProbeFacts
<1>3. Probe(s, k, j) = c
  BY <1>2 DEF Probe
<1> QED BY <1>1, <1>2, <1>3 DEF Ends, At

(***************************************************************************)
(* put.                                                                    *)
(***************************************************************************)
(* The bucket put takes, the i-th it looks at.                             *)
Takes(t, k, b, i) ==
    /\ i \in 0 .. t.cap - 1 /\ b \in 0 .. t.cap - 1 /\ b = Probe(t, k, i)
    /\ t.bucket[b].marker # 1 \/ Holds(t.bucket[b], k)
    /\ \A j \in 0 .. i - 1 : At(t, k, j).marker = 1 /\ ~ Holds(At(t, k, j), k)

LEMMA RoomLeft ==
    ASSUME NEW t, IsTable(t), t.size < t.cap
    PROVE  \E b \in 0 .. t.cap - 1 : t.bucket[b].marker # 1
<1> SUFFICES ASSUME \A b \in 0 .. t.cap - 1 : t.bucket[b].marker = 1 PROVE FALSE
  OBVIOUS
<1>1. UsedIn(t) = 0 .. t.cap - 1
  BY DEF UsedIn
<1>2. t.cap \in Nat /\ t.size \in Nat
  BY TableFacts DEF IsTable
<1>3. Cardinality(0 .. t.cap - 1) = t.cap
  BY <1>2, FS_Interval
<1> QED BY <1>1, <1>2, <1>3 DEF IsTable

LEMMA InsertTakes ==
    ASSUME NEW t, IsTable(t), t.size < t.cap, NEW k \in Keys, NEW v
    PROVE  \E b, i : /\ Takes(t, k, b, i)
                     /\ Insert(t, k, v) =
                          [t EXCEPT !.bucket[b] = Used(k, v),
                                    !.size = IF t.bucket[b].marker = 1 THEN @ ELSE @ + 1]
<1>0. t.cap \in Nat /\ t.cap > 0 /\ k \in Nat
  BY HashAssumption DEF IsTable
<1> DEFINE stops == {i \in 0 .. t.cap - 1 : At(t, k, i).marker # 1 \/ Holds(At(t, k, i), k)}
<1>1. PICK c \in 0 .. t.cap - 1 : t.bucket[c].marker # 1
  BY RoomLeft
<1>2. PICK j \in 0 .. t.cap - 1 : Probe(t, k, j) = c
  BY <1>0, ProbeFacts
<1>3. j \in stops /\ stops \in SUBSET Nat
  BY <1>1, <1>2 DEF At
<1>4. \E i \in stops : \A m \in stops : i <= m
  BY <1>3, N!LeastNumber
<1>5. PICK i : i = First(stops)
  OBVIOUS
<1>6. i \in stops /\ \A m \in stops : i <= m
  BY <1>4, <1>5 DEF First
<1>7. PICK b : b = Probe(t, k, i)
  OBVIOUS
<1>8. i \in 0 .. t.cap - 1 /\ b \in 0 .. t.cap - 1
  BY <1>0, <1>6, <1>7, ProbeFacts
<1>9. t.bucket[b].marker # 1 \/ Holds(t.bucket[b], k)
  BY <1>6, <1>7 DEF At
<1>10. ASSUME NEW m \in 0 .. i - 1 PROVE At(t, k, m).marker = 1 /\ ~ Holds(At(t, k, m), k)
  <2>1. m \in 0 .. t.cap - 1 /\ ~ (i <= m)
    BY <1>0, <1>8
  <2>2. m \notin stops
    BY <1>6, <2>1, Zenon
  <2> QED BY <2>1, <2>2
<1>11. Takes(t, k, b, i)
  BY <1>7, <1>8, <1>9, <1>10 DEF Takes
<1>12. Insert(t, k, v) = [t EXCEPT !.bucket[b] = Used(k, v),
                                   !.size = IF t.bucket[b].marker = 1 THEN @ ELSE @ + 1]
  <2>1. ~ (t.size = t.cap \/ stops = {})
    BY <1>0, <1>3, TableFacts
  <2> QED BY <1>5, <1>7, <2>1, Zenon DEF Insert
<1> QED BY <1>11, <1>12

LEMMA InsertIs ==
    ASSUME NEW t, IsTable(t), t.size < t.cap, NEW k \in Keys, NEW v \in Vals,
           NEW s, s = Insert(t, k, v)
    PROVE  \E b, i : /\ Takes(t, k, b, i)
                     /\ IsTable(s) /\ s.cap = t.cap
                     /\ s.size = IF t.bucket[b].marker = 1 THEN t.size ELSE t.size + 1
                     /\ UsedIn(s) = UsedIn(t) \cup {b}
                     /\ \A c \in 0 .. t.cap - 1 :
                          s.bucket[c] = IF c = b THEN Used(k, v) ELSE t.bucket[c]
<1>1. PICK b, i : /\ Takes(t, k, b, i)
                  /\ Insert(t, k, v) =
                       [t EXCEPT !.bucket[b] = Used(k, v),
                                 !.size = IF t.bucket[b].marker = 1 THEN @ ELSE @ + 1]
  BY InsertTakes
<1>2. PICK x, n : x = Used(k, v) /\ n = IF t.bucket[b].marker = 1 THEN t.size ELSE t.size + 1
  OBVIOUS
<1>3. x \in Bucket /\ x.marker = 1 /\ b \in 0 .. t.cap - 1
  BY <1>1, <1>2, UsedFacts DEF Bucket, Takes
<1>4. s = [t EXCEPT !.bucket[b] = x, !.size = n]
  BY <1>1, <1>2, Zenon
<1>5. Altered(t, s, b, x, n)
  BY <1>2, <1>3, <1>4 DEF Altered
<1>6. /\ IsTable(s) /\ s.cap = t.cap /\ s.size = n
      /\ \A c \in 0 .. t.cap - 1 : s.bucket[c] = IF c = b THEN x ELSE t.bucket[c]
      /\ UsedIn(s) = IF x.marker = 1 THEN UsedIn(t) \cup {b} ELSE UsedIn(t) \ {b}
  BY <1>3, <1>5, BucketChanged
<1> QED BY <1>1, <1>2, <1>3, <1>6

(* The pairs of a table.                                                   *)
Has(t, k, v) == \E b \in UsedIn(t) : t.bucket[b] = Used(k, v)

(* In a sound table a put of a key that is not hidden takes the bucket     *)
(* that has the key, or a free one if there is none.                       *)
LEMMA TakesFacts ==
    ASSUME NEW t, Sound(t), NEW k \in Keys, ~ Hidden(t, k), NEW b, NEW i, Takes(t, k, b, i)
    PROVE  /\ Found(t, k) => b = Find(t, k)
           /\ ~ Found(t, k) => b \notin UsedIn(t)
<1>1. t.cap \in Nat /\ t.cap > 0 /\ IsTable(t) /\ i \in 0 .. t.cap - 1
  BY DEF Sound, IsTable, Takes
<1>2. b \in UsedIn(t) => Found(t, k)
  BY FoundFacts DEF Takes, Holds, UsedIn
<1>3. ASSUME Found(t, k) PROVE b = Find(t, k)
  <2>1. PICK e : e = End(t, k)
    OBVIOUS
  <2>2. Placed(t, k, e) /\ Find(t, k) = Probe(t, k, e)
    BY <1>1, <1>3, <2>1, PlacedFacts
  <2>3. e \in 0 .. t.cap - 1 /\ ~ (e < i)
    BY <1>1, <2>2 DEF Placed, Takes
  <2>4. ASSUME i < e PROVE FALSE
    <3>1. ~ Ends(t, k, i) /\ i \in 0 .. e - 1
      BY <1>1, <2>2, <2>3, <2>4 DEF Placed, Path
    <3>2. At(t, k, i) = t.bucket[b] /\ t.bucket[b] \in Bucket
      BY <1>1, TableFacts DEF Takes, At
    <3>3. At(t, k, i).marker = -1
      BY <3>1, <3>2, BucketFacts DEF Ends, Takes
    <3> QED BY <1>3, <2>1, <3>1, <3>3 DEF Hidden
  <2>5. e = i
    BY <1>1, <2>3, <2>4
  <2> QED BY <2>2, <2>5 DEF Takes
<1> QED BY <1>2, <1>3

LEMMA InsertSound ==
    ASSUME NEW t, Sound(t), t.size < t.cap, NEW k \in Keys, NEW v \in Vals, ~ Hidden(t, k),
           NEW s, s = Insert(t, k, v)
    PROVE  /\ Sound(s) /\ s.cap = t.cap
           /\ \E b \in 0 .. t.cap - 1 :
                /\ IF Found(t, k) THEN b = Find(t, k) ELSE b \notin UsedIn(t)
                /\ s.size = IF Found(t, k) THEN t.size ELSE t.size + 1
                /\ UsedIn(s) = UsedIn(t) \cup {b}
                /\ \A c \in 0 .. t.cap - 1 :
                     s.bucket[c] = IF c = b THEN Used(k, v) ELSE t.bucket[c]
<1>1. t.cap \in Nat /\ t.cap > 0 /\ IsTable(t) /\ k \in Nat
  BY HashAssumption DEF Sound, IsTable
<1>2. PICK b, i : /\ Takes(t, k, b, i)
                  /\ IsTable(s) /\ s.cap = t.cap
                  /\ s.size = IF t.bucket[b].marker = 1 THEN t.size ELSE t.size + 1
                  /\ UsedIn(s) = UsedIn(t) \cup {b}
                  /\ \A c \in 0 .. t.cap - 1 :
                       s.bucket[c] = IF c = b THEN Used(k, v) ELSE t.bucket[c]
  BY <1>1, InsertIs
<1>3. /\ Found(t, k) => b = Find(t, k)
      /\ ~ Found(t, k) => b \notin UsedIn(t)
  BY <1>2, TakesFacts
<1>4. b \in 0 .. t.cap - 1 /\ i \in 0 .. t.cap - 1 /\ b = Probe(t, k, i)
  BY <1>2 DEF Takes
<1>5. s.size = IF Found(t, k) THEN t.size ELSE t.size + 1
  BY <1>1, <1>2, <1>3, <1>4, FindUsed DEF UsedIn
<1>6. ASSUME NEW c \in UsedIn(s)
      PROVE  \E n \in Nat : Placed(s, s.bucket[c].key, n) /\ Probe(s, s.bucket[c].key, n) = c
  <2>1. CASE c = b
    <3>1. Holds(s.bucket[b], k) /\ s.bucket[c].key = k
      BY <1>2, <1>4, <2>1, UsedFacts DEF Holds
    <3>2. ASSUME NEW j \in 0 .. i - 1 PROVE ~ Ends(s, k, j)
      <4>1. j \in 0 .. t.cap - 1 /\ j # i /\ j \in Nat
        BY <1>1, <1>4
      <4>2. Probe(t, k, j) # b /\ Probe(t, k, j) \in 0 .. t.cap - 1
        BY <1>1, <1>4, <4>1, ProbeFacts
      <4>3. At(s, k, j) = At(t, k, j)
        BY <1>2, <4>2 DEF At, Probe
      <4>4. At(t, k, j).marker = 1 /\ ~ Holds(At(t, k, j), k)
        BY <1>2 DEF Takes
      <4> QED BY <4>3, <4>4 DEF Ends
    <3>3. Probe(s, k, i) = b
      BY <1>2, <1>4 DEF Probe
    <3>4. Placed(s, k, i)
      BY <1>2, <1>4, <3>1, <3>2, <3>3 DEF Placed, Path, At
    <3> QED BY <1>4, <2>1, <3>1, <3>3, <3>4
  <2>2. CASE c # b
    <3>1. c \in UsedIn(t) /\ c \in 0 .. t.cap - 1 /\ s.bucket[c] = t.bucket[c]
      BY <1>2, <2>2 DEF UsedIn
    <3>2. PICK key : key = t.bucket[c].key
      OBVIOUS
    <3>3. key \in Keys /\ key \in Nat
      BY <1>1, <3>1, <3>2, TableFacts
    <3>4. key # k
      BY <1>3, <2>2, <3>1, <3>2, FoundFacts
    <3>5. PICK n \in Nat : Placed(t, key, n) /\ Probe(t, key, n) = c
      BY <3>1, <3>2 DEF Sound
    <3>6. n \in 0 .. t.cap - 1 /\ Path(t, key, n)
      BY <3>5 DEF Placed
    <3>7. Path(s, key, n)
      <4>1. n \in 0 .. t.cap
        BY <1>1, <3>6
      <4>2. \A d \in 0 .. t.cap - 1 : /\ t.bucket[d].marker # 0 => s.bucket[d].marker # 0
                                      /\ Holds(s.bucket[d], key) => Holds(t.bucket[d], key)
        BY <1>2, <3>4, UsedFacts DEF Holds
      <4> QED BY <1>1, <1>2, <3>3, <3>6, <4>1, <4>2, PathKept
    <3>8. Probe(s, key, n) = c
      BY <1>2, <3>5 DEF Probe
    <3>9. Placed(s, key, n)
      BY <1>2, <3>1, <3>5, <3>6, <3>7, <3>8 DEF Placed, At
    <3> QED BY <3>1, <3>2, <3>8, <3>9
  <2> QED BY <2>1, <2>2
<1> QED BY <1>2, <1>3, <1>4, <1>5, <1>6 DEF Sound

(* The pairs a put leaves.                                                 *)
LEMMA InsertHas ==
    ASSUME NEW t, Sound(t), t.size < t.cap, NEW k \in Keys, NEW v \in Vals, ~ Hidden(t, k),
           NEW s, s = Insert(t, k, v), NEW key, NEW val
    PROVE  Has(s, key, val) <=> IF key = k THEN val = v ELSE Has(t, key, val)
<1>1. PICK b \in 0 .. t.cap - 1 :
        /\ IF Found(t, k) THEN b = Find(t, k) ELSE b \notin UsedIn(t)
        /\ UsedIn(s) = UsedIn(t) \cup {b}
        /\ \A c \in 0 .. t.cap - 1 : s.bucket[c] = IF c = b THEN Used(k, v) ELSE t.bucket[c]
  BY InsertSound
<1>2. IsTable(t) /\ UsedIn(t) \subseteq 0 .. t.cap - 1
  BY DEF Sound, UsedIn
<1>3. \A c \in UsedIn(t) : t.bucket[c].key = k <=> c = b
  BY <1>1, <1>2, FoundFacts
<1>4. \A c \in UsedIn(t) : c # b => s.bucket[c] = t.bucket[c]
  BY <1>1, <1>2
<1>5. s.bucket[b] = Used(k, v) /\ b \in UsedIn(s)
  BY <1>1
<1>6. CASE key = k
  <2>1. \A c \in UsedIn(s) : s.bucket[c].key = k => c = b
    BY <1>1, <1>3, <1>4
  <2> QED BY <1>5, <1>6, <2>1, UsedFacts DEF Has
<1>7. CASE key # k
  <2>1. ASSUME Has(s, key, val) PROVE Has(t, key, val)
    <3>1. PICK c \in UsedIn(s) : s.bucket[c] = Used(key, val)
      BY <2>1 DEF Has
    <3>2. c # b /\ c \in UsedIn(t)
      BY <1>1, <1>5, <1>7, <3>1, UsedFacts
    <3> QED BY <1>4, <3>1, <3>2 DEF Has
  <2>2. ASSUME Has(t, key, val) PROVE Has(s, key, val)
    <3>1. PICK c \in UsedIn(t) : t.bucket[c] = Used(key, val)
      BY <2>2 DEF Has
    <3>2. c # b
      BY <1>3, <1>7, <3>1, UsedFacts
    <3> QED BY <1>1, <1>4, <3>1, <3>2 DEF Has
  <2> QED BY <1>7, <2>1, <2>2
<1> QED BY <1>6, <1>7

(***************************************************************************)
(* del.                                                                    *)
(***************************************************************************)
LEMMA DeleteIs ==
    ASSUME NEW t, IsTable(t), NEW k \in Keys, Found(t, k), NEW s, s = Delete(t, k)
    PROVE  /\ IsTable(s) /\ s.cap = t.cap /\ s.size = t.size - 1
           /\ UsedIn(s) = UsedIn(t) \ {Find(t, k)}
           /\ \A c \in 0 .. t.cap - 1 :
                s.bucket[c] = IF c = Find(t, k) THEN Deleted ELSE t.bucket[c]
<1>1. PICK b, n, x : b = Find(t, k) /\ n = t.size - 1 /\ x = Deleted
  OBVIOUS
<1>2. b \in 0 .. t.cap - 1 /\ t.bucket[b].marker = 1
  BY <1>1, FindUsed DEF UsedIn
<1>3. x \in Bucket /\ x.marker = -1
  BY <1>1, UsedFacts DEF Bucket
<1>4. s = [t EXCEPT !.bucket[b] = x, !.size = n]
  BY <1>1, Zenon DEF Delete
<1>5. Altered(t, s, b, x, n)
  BY <1>1, <1>2, <1>3, <1>4 DEF Altered
<1>6. /\ IsTable(s) /\ s.cap = t.cap /\ s.size = n
      /\ \A c \in 0 .. t.cap - 1 : s.bucket[c] = IF c = b THEN x ELSE t.bucket[c]
      /\ UsedIn(s) = IF x.marker = 1 THEN UsedIn(t) \cup {b} ELSE UsedIn(t) \ {b}
  BY <1>2, <1>3, <1>5, BucketChanged
<1> QED BY <1>1, <1>3, <1>6

LEMMA DeleteSound ==
    ASSUME NEW t, Sound(t), NEW k \in Keys, Found(t, k), NEW s, s = Delete(t, k)
    PROVE  /\ Sound(s)
           /\ \A key, val : Has(s, key, val) <=> key # k /\ Has(t, key, val)
<1>1. t.cap \in Nat /\ t.cap > 0 /\ IsTable(t) /\ UsedIn(t) \subseteq 0 .. t.cap - 1
  BY DEF Sound, IsTable, UsedIn
<1>2. PICK b : b = Find(t, k)
  OBVIOUS
<1>3. /\ IsTable(s) /\ s.cap = t.cap /\ UsedIn(s) = UsedIn(t) \ {b}
      /\ \A c \in 0 .. t.cap - 1 : s.bucket[c] = IF c = b THEN Deleted ELSE t.bucket[c]
  BY <1>1, <1>2, DeleteIs
<1>4. \A c \in UsedIn(t) : t.bucket[c].key = k <=> c = b
  BY <1>2, FoundFacts
<1>5. \A c \in UsedIn(s) : s.bucket[c] = t.bucket[c]
  BY <1>1, <1>3
<1>6. ASSUME NEW c \in UsedIn(s)
      PROVE  \E n \in Nat : Placed(s, s.bucket[c].key, n) /\ Probe(s, s.bucket[c].key, n) = c
  <2>1. PICK key : key = t.bucket[c].key
    OBVIOUS
  <2>2. c \in UsedIn(t) /\ key \in Nat /\ s.bucket[c] = t.bucket[c]
    BY <1>1, <1>3, <1>5, <2>1, TableFacts
  <2>3. PICK n \in Nat : Placed(t, key, n) /\ Probe(t, key, n) = c
    BY <2>1, <2>2 DEF Sound
  <2>4. Path(s, key, n)
    <3>1. n \in 0 .. t.cap /\ Path(t, key, n)
      BY <1>1, <2>3 DEF Placed
    <3>2. \A d \in 0 .. t.cap - 1 : /\ t.bucket[d].marker # 0 => s.bucket[d].marker # 0
                                    /\ Holds(s.bucket[d], key) => Holds(t.bucket[d], key)
      BY <1>3, UsedFacts DEF Holds
    <3> QED BY <1>1, <1>3, <2>2, <3>1, <3>2, PathKept
  <2>5. Probe(s, key, n) = c
    BY <1>3, <2>3 DEF Probe
  <2>6. Placed(s, key, n)
    BY <1>3, <2>2, <2>3, <2>4, <2>5 DEF Placed, At
  <2> QED BY <2>1, <2>2, <2>5, <2>6
<1>7. ASSUME NEW key, NEW val PROVE Has(s, key, val) <=> key # k /\ Has(t, key, val)
  <2>1. \A c \in UsedIn(t) : t.bucket[c] = Used(key, val) => (c = b <=> key = k)
    BY <1>4, UsedFacts
  <2> QED BY <1>3, <1>5, <2>1 DEF Has
<1> QED BY <1>3, <1>6, <1>7 DEF Sound

(***************************************************************************)
(* Resizing: a copy into a new table.                                      *)
(***************************************************************************)
Carried(t, i, s) ==
    IF t.bucket[i - 1].marker = 1 THEN Insert(s, t.bucket[i - 1].key, t.bucket[i - 1].val) ELSE s

Copying(t, cap) == CHOOSE f : f = [i \in 0 .. t.cap |->
    IF i = 0 THEN Created(cap)
    ELSE LET b == t.bucket[i - 1] IN
         IF b.marker = 1 THEN Insert(f[i - 1], b.key, b.val) ELSE f[i - 1]]

LEMMA CopiedIsCopying ==
    ASSUME NEW t, NEW cap
    PROVE  Copied(t, cap) = Copying(t, cap)[t.cap]
BY Zenon DEF Copied, Copying

LEMMA CopyRounds ==
    ASSUME NEW t, IsTable(t), NEW cap \in Nat, cap > 0
    PROVE  /\ Copying(t, cap)[0] = Created(cap)
           /\ \A i \in 1 .. t.cap : Copying(t, cap)[i] = Carried(t, i, Copying(t, cap)[i - 1])
<1> DEFINE D    == 0 .. t.cap
           all  == [cap : {cap}, size : Nat, bucket : [0 .. cap - 1 -> Bucket]]
           F    == [i \in D |-> [s \in all |-> IF i = 0 THEN s ELSE Carried(t, i, s)]]
<1>1. N!Downward(D)
  BY DEF N!Downward, IsTable
<1>2. ASSUME NEW s \in all, NEW k \in Keys, NEW v \in Vals PROVE Insert(s, k, v) \in all
  <2>1. PICK b : Insert(s, k, v) \in {s, [s EXCEPT !.bucket[b] = Used(k, v),
                                                   !.size = IF s.bucket[b].marker = 1 THEN @ ELSE @ + 1]}
    BY Zenon DEF Insert
  <2>2. PICK x, n : x = Used(k, v) /\ n = IF s.bucket[b].marker = 1 THEN s.size ELSE s.size + 1
    OBVIOUS
  <2>3. x \in Bucket /\ n \in Nat
    BY <2>2 DEF Bucket
  <2>4. [s EXCEPT !.bucket[b] = x, !.size = n] \in all
    BY <2>3
  <2> HIDE DEF all
  <2> QED BY <2>1, <2>2, <2>4, Zenon
<1>3. \A i \in D \ {0} : i - 1 \in 0 .. t.cap - 1 /\ t.bucket[i - 1] \in Bucket
  BY DEF IsTable
<1>4. Created(cap) \in all
  BY DEF Created, Bucket
<1> HIDE DEF all
<1>5. \A i \in D \ {0} : \A s \in all : Carried(t, i, s) \in all
  BY <1>2, <1>3, BucketFacts DEF Carried
<1>6. F \in [D -> [all -> all]]
  BY <1>5
<1> HIDE DEF F
<1>7. PICK f \in [D -> all] : N!Loop(f, D, Created(cap), F)
  BY <1>1, <1>4, <1>6, N!LoopExists
<1>8. \A i \in D \ {0} : F[i][f[i - 1]] = Carried(t, i, f[i - 1])
  BY <1>1, <1>7 DEF F, N!Downward
<1>9. f = [i \in D |-> IF i = 0 THEN Created(cap) ELSE Carried(t, i, f[i - 1])]
  BY <1>7, <1>8 DEF N!Loop
<1>10. Copying(t, cap) =
         [i \in D |-> IF i = 0 THEN Created(cap) ELSE Carried(t, i, Copying(t, cap)[i - 1])]
  BY <1>9, Zenon DEF Copying, Carried
<1> HIDE DEF Copying
<1>11. t.cap \in Nat
  BY DEF IsTable
<1> QED BY <1>10, <1>11

(* What the copy of the first i buckets of t is.                           *)
Below(t, i) == {b \in UsedIn(t) : b < i}

CopyOf(t, cap, i, s) ==
    /\ IsTable(s) /\ s.cap = cap /\ s.size <= Cardinality(Below(t, i))
    /\ Sound(t) =>
         /\ Sound(s) /\ s.size = Cardinality(Below(t, i))
         /\ \A key, val : Has(s, key, val) <=> \E b \in Below(t, i) : t.bucket[b] = Used(key, val)

LEMMA CreatedFacts ==
    ASSUME NEW cap \in Nat, cap > 0
    PROVE  /\ Sound(Created(cap)) /\ Created(cap).cap = cap /\ Created(cap).size = 0
           /\ UsedIn(Created(cap)) = {}
<1>1. PICK s : s = Created(cap)
  OBVIOUS
<1>2. /\ s.cap = cap /\ s.size = 0 /\ s = [cap |-> s.cap, size |-> s.size, bucket |-> s.bucket]
      /\ s.bucket = [b \in 0 .. cap - 1 |-> Unused]
  BY <1>1 DEF Created
<1>3. UsedIn(s) = {}
  BY <1>2, UsedFacts DEF UsedIn
<1>4. IsTable(s)
  BY <1>2, <1>3, FS_EmptySet DEF IsTable, Bucket
<1> QED BY <1>1, <1>2, <1>3, <1>4 DEF Sound

LEMMA BelowFacts ==
    ASSUME NEW t, IsTable(t), NEW i \in 0 .. t.cap - 1
    PROVE  /\ IsFiniteSet(Below(t, i)) /\ Cardinality(Below(t, i)) \in Nat
           /\ i \notin UsedIn(t) => Below(t, i + 1) = Below(t, i)
           /\ i \in UsedIn(t) => /\ Below(t, i + 1) = Below(t, i) \cup {i}
                                 /\ Cardinality(Below(t, i + 1)) = Cardinality(Below(t, i)) + 1
                                 /\ Cardinality(Below(t, i)) < t.size
<1>1. IsFiniteSet(UsedIn(t)) /\ UsedIn(t) \subseteq 0 .. t.cap - 1 /\ t.size = Cardinality(UsedIn(t))
      /\ t.cap \in Nat
  BY TableFacts DEF UsedIn, IsTable
<1>2. \A n \in Int : IsFiniteSet(Below(t, n)) /\ Cardinality(Below(t, n)) \in Nat
                     /\ Cardinality(Below(t, n)) <= t.size
  <2> TAKE n \in Int
  <2>1. Below(t, n) \subseteq UsedIn(t)
    BY DEF Below
  <2> QED BY <1>1, <2>1, FS_Subset, FS_CardinalityType
<1>3. i \notin UsedIn(t) => Below(t, i + 1) = Below(t, i)
  BY <1>1 DEF Below
<1>4. ASSUME i \in UsedIn(t)
      PROVE  Below(t, i + 1) = Below(t, i) \cup {i} /\ i \notin Below(t, i)
  BY <1>1, <1>4 DEF Below
<1>5. i \in Int /\ i + 1 \in Int
  BY <1>1
<1>6. ASSUME i \in UsedIn(t)
      PROVE  /\ Cardinality(Below(t, i + 1)) = Cardinality(Below(t, i)) + 1
             /\ Cardinality(Below(t, i)) < t.size
  <2>1. IsFiniteSet(Below(t, i)) /\ i \notin Below(t, i) /\ Below(t, i + 1) = Below(t, i) \cup {i}
    BY <1>2, <1>4, <1>5, <1>6
  <2>2. Cardinality(Below(t, i) \cup {i}) = Cardinality(Below(t, i)) + 1
    BY <2>1, FS_AddElement
  <2>3. Cardinality(Below(t, i + 1)) <= t.size /\ Cardinality(Below(t, i)) \in Nat /\ t.size \in Nat
    BY <1>2, <1>5, TableFacts
  <2> QED BY <2>1, <2>2, <2>3
<1> QED BY <1>2, <1>3, <1>4, <1>5, <1>6

LEMMA CopyStep ==
    ASSUME NEW t, IsTable(t), NEW cap \in Nat, t.size < cap,
           NEW i \in 0 .. t.cap - 1, NEW s, CopyOf(t, cap, i, s)
    PROVE  CopyOf(t, cap, i + 1, Carried(t, i + 1, s))
<1>1. PICK r : r = Carried(t, i + 1, s)
  OBVIOUS
<1>2. t.bucket[i] \in Bucket /\ i + 1 - 1 = i /\ t.cap \in Nat /\ i \in Nat
  BY DEF IsTable
<1>3. r = IF t.bucket[i].marker = 1 THEN Insert(s, t.bucket[i].key, t.bucket[i].val) ELSE s
  BY <1>1, <1>2 DEF Carried
<1>4. i \in UsedIn(t) <=> t.bucket[i].marker = 1
  BY DEF UsedIn
<1>5. IsTable(s) /\ s.cap = cap /\ s.size <= Cardinality(Below(t, i)) /\ s.size \in Nat
  BY TableFacts DEF CopyOf
<1>6. CASE i \notin UsedIn(t)
  <2>1. r = s /\ Below(t, i + 1) = Below(t, i)
    BY <1>3, <1>4, <1>6, BelowFacts
  <2> QED BY <1>1, <2>1 DEF CopyOf
<1>7. CASE i \in UsedIn(t)
  <2>1. PICK k \in Keys, v \in Vals : t.bucket[i] = Used(k, v) /\ t.bucket[i].key = k /\ t.bucket[i].val = v
    BY <1>2, <1>4, <1>7, BucketFacts
  <2>2. r = Insert(s, k, v)
    BY <1>3, <1>4, <1>7, <2>1
  <2>3. /\ Below(t, i + 1) = Below(t, i) \cup {i} /\ Cardinality(Below(t, i)) \in Nat
        /\ Cardinality(Below(t, i + 1)) = Cardinality(Below(t, i)) + 1
        /\ Cardinality(Below(t, i)) < t.size
    BY <1>7, BelowFacts
  <2>4. t.size \in Nat
    BY TableFacts
  <2>5. s.size < s.cap
    BY <1>5, <2>3, <2>4
  <2>6. IsTable(r) /\ r.cap = cap /\ (r.size = s.size \/ r.size = s.size + 1)
    BY <1>5, <2>2, <2>5, InsertIs
  <2>7. r.size <= Cardinality(Below(t, i + 1))
    BY <1>5, <2>3, <2>6
  <2>8. ASSUME Sound(t)
        PROVE  /\ Sound(r) /\ r.size = Cardinality(Below(t, i + 1))
               /\ \A key, val : Has(r, key, val) <=>
                                   \E b \in Below(t, i + 1) : t.bucket[b] = Used(key, val)
    <3>1. /\ Sound(s) /\ s.size = Cardinality(Below(t, i))
          /\ \A key, val : Has(s, key, val) <=> \E b \in Below(t, i) : t.bucket[b] = Used(key, val)
      BY <2>8 DEF CopyOf
    <3>2. \A b \in Below(t, i) : t.bucket[b].key # k
      <4>1. \A b \in Below(t, i) : b \in UsedIn(t) /\ b # i
        BY <1>2 DEF Below, UsedIn
      <4>2. i = Find(t, k)
        BY <1>7, <2>1, <2>8, FoundFacts
      <4>3. \A b \in UsedIn(t) : t.bucket[b].key = k => b = Find(t, k)
        BY <2>8, FoundFacts
      <4> QED BY <4>1, <4>2, <4>3, Zenon
    <3>3. ~ Found(s, k)
      <4> SUFFICES ASSUME Found(s, k) PROVE FALSE
        OBVIOUS
      <4>1. PICK c : c = Find(s, k)
        OBVIOUS
      <4>2. c \in UsedIn(s) /\ s.bucket[c].key = k
        BY <3>1, <4>1, FoundFacts
      <4>3. s.bucket[c] \in Bucket /\ s.bucket[c].marker = 1
        BY <1>5, <4>2, TableFacts DEF UsedIn
      <4>4. PICK val : s.bucket[c] = Used(k, val)
        BY <4>2, <4>3, BucketFacts
      <4>5. Has(s, k, val)
        BY <4>2, <4>4 DEF Has
      <4> QED BY <3>1, <3>2, <4>5, UsedFacts
    <3>4. ~ Hidden(s, k)
      BY <3>3 DEF Hidden
    <3>5. Sound(r) /\ r.size = s.size + 1
      BY <2>2, <2>5, <3>1, <3>3, <3>4, InsertSound
    <3>6. ASSUME NEW key, NEW val
          PROVE  Has(r, key, val) <=> \E b \in Below(t, i + 1) : t.bucket[b] = Used(key, val)
      <4>1. Has(r, key, val) <=> IF key = k THEN val = v ELSE Has(s, key, val)
        BY <2>2, <2>5, <3>1, <3>4, InsertHas
      <4>2. t.bucket[i] = Used(key, val) <=> key = k /\ val = v
        BY <2>1, UsedFacts
      <4>3. \A b \in Below(t, i) : t.bucket[b] = Used(key, val) => key # k
        BY <3>2, UsedFacts
      <4> QED BY <2>3, <3>1, <4>1, <4>2, <4>3
    <3> QED BY <2>3, <3>1, <3>5, <3>6
  <2> QED BY <1>1, <2>6, <2>7, <2>8 DEF CopyOf
<1> QED BY <1>6, <1>7

(* A copy has room for the pairs, and every one of them once.              *)
LEMMA CopiedFacts ==
    ASSUME NEW t, IsTable(t), NEW cap \in Nat, t.size < cap, NEW s, s = Copied(t, cap)
    PROVE  /\ IsTable(s) /\ s.cap = cap /\ s.size <= t.size
           /\ Sound(t) => /\ Sound(s) /\ s.size = t.size
                          /\ \A key, val : Has(s, key, val) <=> Has(t, key, val)
<1>1. PICK f : f = Copying(t, cap)
  OBVIOUS
<1>2. t.size \in Nat /\ t.cap \in Nat /\ cap > 0
  BY TableFacts DEF IsTable
<1>3. f[0] = Created(cap) /\ \A i \in 1 .. t.cap : f[i] = Carried(t, i, f[i - 1])
  BY <1>1, <1>2, CopyRounds
<1> DEFINE Good == {i \in Nat : i <= t.cap => CopyOf(t, cap, i, f[i])}
<1>4. 0 \in Good
  <2>1. Below(t, 0) = {} /\ Cardinality({}) = 0
    BY FS_EmptySet DEF Below, UsedIn
  <2>2. PICK c : c = f[0]
    OBVIOUS
  <2>3. Sound(c) /\ c.cap = cap /\ c.size = 0 /\ UsedIn(c) = {}
    BY <1>2, <1>3, <2>2, CreatedFacts
  <2>4. \A key, val : ~ Has(c, key, val)
    BY <2>3 DEF Has
  <2>5. CopyOf(t, cap, 0, c)
    BY <2>1, <2>3, <2>4 DEF CopyOf, Sound
  <2> QED BY <2>2, <2>5
<1>5. ASSUME NEW i \in Nat, i \in Good PROVE i + 1 \in Good
  <2> SUFFICES ASSUME i + 1 <= t.cap PROVE CopyOf(t, cap, i + 1, f[i + 1])
    OBVIOUS
  <2>1. i \in 0 .. t.cap - 1 /\ i + 1 \in 1 .. t.cap /\ i + 1 - 1 = i
    BY <1>2
  <2>2. CopyOf(t, cap, i, f[i]) /\ f[i + 1] = Carried(t, i + 1, f[i])
    BY <1>2, <1>3, <1>5, <2>1
  <2> QED BY <2>1, <2>2, CopyStep
<1> HIDE DEF Good
<1>6. t.cap \in Good
  BY <1>2, <1>4, <1>5, N!SetInduction
<1>7. CopyOf(t, cap, t.cap, s)
  BY <1>1, <1>2, <1>6, CopiedIsCopying DEF Good
<1>8. Below(t, t.cap) = UsedIn(t)
  BY <1>2 DEF Below, UsedIn
<1> QED BY <1>7, <1>8 DEF CopyOf, IsTable, Has

(***************************************************************************)
(* rehashtable.c: put grows a table that is three quarters full before it  *)
(* inserts, and del shrinks one that is less than three sixteenths full.   *)
(***************************************************************************)
LEMMA GrownFacts ==
    ASSUME NEW t, IsTable(t), NEW g, g = Grown(t)
    PROVE  /\ IsTable(g) /\ g.size < g.cap
           /\ IF Grows(t) THEN g.cap = t.cap * 2 ELSE g = t
           /\ Sound(t) => /\ Sound(g)
                          /\ \A key, val : Has(g, key, val) <=> Has(t, key, val)
<1>1. t.size \in 0 .. t.cap /\ t.cap \in Nat /\ t.cap > 0
  BY TableFacts DEF IsTable
<1>2. CASE Grows(t)
  <2>1. g = Copied(t, t.cap * 2)
    BY <1>2 DEF Grown
  <2>2. PICK cap \in Nat : cap = t.cap * 2 /\ t.size < cap
    BY <1>1
  <2>3. /\ IsTable(g) /\ g.cap = cap /\ g.size <= t.size
        /\ Sound(t) => /\ Sound(g)
                       /\ \A key, val : Has(g, key, val) <=> Has(t, key, val)
    BY <2>1, <2>2, CopiedFacts
  <2>4. g.size \in Nat
    BY <2>3, TableFacts
  <2> QED BY <1>1, <1>2, <2>2, <2>3, <2>4
<1>3. CASE ~ Grows(t)
  <2>1. g = t /\ t.size < t.cap
    BY <1>1, <1>3 DEF Grown, Grows
  <2> QED BY <1>3, <2>1
<1> QED BY <1>2, <1>3

LEMMA ShrunkFacts ==
    ASSUME NEW t, IsTable(t), t.cap >= MinSize, NEW s, s = Shrunk(t)
    PROVE  /\ IsTable(s) /\ s.cap \in MinSize .. t.cap
           /\ IF Shrinks(t) THEN s.cap # t.cap ELSE s = t
           /\ Sound(t) => /\ Sound(s)
                          /\ \A key, val : Has(s, key, val) <=> Has(t, key, val)
<1>1. t.size \in 0 .. t.cap /\ t.cap \in Nat /\ t.cap > 0 /\ MinSize \in Nat /\ MinSize > 0
  BY TableFacts, HashAssumption DEF IsTable
<1>2. CASE Shrinks(t)
  <2>1. s = Copied(t, t.cap \div 2)
    BY <1>2 DEF Shrunk
  <2>2. PICK cap \in Nat : cap = t.cap \div 2 /\ cap >= MinSize /\ t.size < cap /\ cap < t.cap
    <3>1. PICK cap, n \in Nat, m \in Nat : cap = t.cap \div 2 /\ n = t.cap /\ m = t.size
      BY <1>1
    <3>2. cap \in Int /\ (n = 2 * cap \/ n = 2 * cap + 1)
      BY <3>1
    <3>3. cap >= MinSize /\ m * 16 <= n * 3
      BY <1>2, <3>1 DEF Shrinks
    <3> QED BY <1>1, <3>1, <3>2, <3>3
  <2>3. /\ IsTable(s) /\ s.cap = cap
        /\ Sound(t) => /\ Sound(s)
                       /\ \A key, val : Has(s, key, val) <=> Has(t, key, val)
    BY <2>1, <2>2, CopiedFacts
  <2> QED BY <1>1, <1>2, <2>2, <2>3
<1>3. CASE ~ Shrinks(t)
  <2>1. s = t
    BY <1>3 DEF Shrunk
  <2> QED BY <1>1, <1>3, <2>1
<1> QED BY <1>2, <1>3

Fits(t) == IsTable(t) /\ t.cap \in MinSize .. MaxCap

LEMMA PutFacts ==
    ASSUME Fits(table), NEW k \in Keys, NEW v \in Vals, Put(k, v)
    PROVE  /\ Fits(table')
           /\ table'.cap = table.cap => /\ table' = Insert(table, k, v) /\ table.size < table.cap
                                        /\ Overwrites \/ ~ Hidden(table, k)
           /\ ~ Overwrites /\ Sound(table) =>
                /\ Sound(table')
                /\ \A key, val : Has(table', key, val) <=>
                                    IF key = k THEN val = v ELSE Has(table, key, val)
<1>1. PICK t, g, s : t = table /\ g = Grown(table) /\ s = table'
  OBVIOUS
<1>2. /\ IsTable(g) /\ g.size < g.cap
      /\ IF Grows(t) THEN g.cap = t.cap * 2 ELSE g = t
      /\ Sound(t) => Sound(g) /\ \A key, val : Has(g, key, val) <=> Has(t, key, val)
  <2>1. IsTable(t) /\ g = Grown(t)
    BY <1>1 DEF Fits
  <2> QED BY <2>1, GrownFacts
<1>3. Overwrites \/ ~ Hidden(g, k)
  BY <1>1, Zenon DEF Put
<1>4. Grows(t) => t.cap * 2 <= MaxCap
  BY <1>1, Zenon DEF Put
<1>5. s = Insert(g, k, v)
  BY <1>1, Zenon DEF Put
<1>6. IsTable(s) /\ s.cap = g.cap
  BY <1>2, <1>5, InsertIs
<1>7. t.cap \in MinSize .. MaxCap /\ MaxCap \in Nat /\ MinSize \in Nat /\ t.cap > 0
  BY <1>1, HashAssumption DEF Fits
<1>8. g.cap \in MinSize .. MaxCap /\ (g.cap = t.cap => g = t)
  BY <1>2, <1>4, <1>7
<1>9. ASSUME ~ Overwrites, Sound(t)
      PROVE  /\ Sound(s)
             /\ \A key, val : Has(s, key, val) <=> IF key = k THEN val = v ELSE Has(t, key, val)
  <2>1. Sound(s)
    BY <1>2, <1>3, <1>5, <1>9, InsertSound
  <2>2. ASSUME NEW key, NEW val
        PROVE  Has(s, key, val) <=> IF key = k THEN val = v ELSE Has(t, key, val)
    <3>1. Has(s, key, val) <=> IF key = k THEN val = v ELSE Has(g, key, val)
      BY <1>2, <1>3, <1>5, <1>9, InsertHas
    <3> QED BY <1>2, <1>9, <3>1
  <2> QED BY <2>1, <2>2
<1>10. Fits(s)
  BY <1>6, <1>8 DEF Fits
<1>11. s.cap = t.cap => /\ s = Insert(t, k, v) /\ t.size < t.cap
                        /\ Overwrites \/ ~ Hidden(t, k)
  BY <1>2, <1>3, <1>5, <1>6, <1>8
<1> QED BY <1>1, <1>9, <1>10, <1>11

LEMMA DelFacts ==
    ASSUME Fits(table), NEW k \in Keys, Del(k)
    PROVE  /\ Fits(table') /\ Found(table, k)
           /\ table'.cap = table.cap => table' = Delete(table, k)
           /\ Sound(table) =>
                /\ Sound(table')
                /\ \A key, val : Has(table', key, val) <=> key # k /\ Has(table, key, val)
<1>1. PICK t, d, s : t = table /\ d = Delete(table, k) /\ s = table'
  OBVIOUS
<1>2. Found(t, k) /\ s = Shrunk(d)
  BY <1>1, Zenon DEF Del
<1>3. IsTable(t) /\ t.cap \in MinSize .. MaxCap /\ MaxCap \in Nat /\ MinSize \in Nat
  BY <1>1, HashAssumption DEF Fits
<1>4. IsTable(d) /\ d.cap = t.cap
  BY <1>1, <1>2, <1>3, DeleteIs
<1>5. d.cap >= MinSize
  BY <1>3, <1>4
<1>6. /\ IsTable(s) /\ s.cap \in MinSize .. d.cap
      /\ IF Shrinks(d) THEN s.cap # d.cap ELSE s = d
      /\ Sound(d) => Sound(s) /\ \A key, val : Has(s, key, val) <=> Has(d, key, val)
  BY <1>2, <1>4, <1>5, ShrunkFacts
<1>7. Sound(t) => Sound(d) /\ \A key, val : Has(d, key, val) <=> key # k /\ Has(t, key, val)
  <2>1. d = Delete(t, k)
    BY <1>1
  <2> QED BY <1>2, <2>1, DeleteSound
<1>8. Fits(s)
  BY <1>3, <1>4, <1>6 DEF Fits
<1>9. s.cap = t.cap => s = d
  BY <1>4, <1>6
<1> QED BY <1>1, <1>2, <1>6, <1>7, <1>8, <1>9

-----------------------------------------------------------------------------
(***************************************************************************)
(* Pointers into the table.                                                *)
(***************************************************************************)
Walker(u) == \E at, seen, fresh :
                u = [by |-> "walk", at |-> at, seen |-> seen, fresh |-> fresh]
Holder(u) == \E at, key, val, fresh :
                u = [by |-> "holder", at |-> at, key |-> key, val |-> val, fresh |-> fresh]

Stale(u, x)      == x = [u EXCEPT !.fresh = FALSE]
Stays(u, x, f)   == x = [u EXCEPT !.fresh = f]
Revalues(u, x, v) == x = [u EXCEPT !.val = v]

LEMMA NobodyFacts == Nobody.by = "nobody"
BY DEF Nobody

LEMMA WalkerFacts ==
    ASSUME NEW at, NEW seen
    PROVE  /\ Walker(Walk(at, seen)) /\ Walk(at, seen).by = "walk"
           /\ Walk(at, seen).at = at /\ Walk(at, seen).seen = seen /\ Walk(at, seen).fresh
<1>1. Walker(Walk(at, seen))
  BY Zenon DEF Walk, Walker
<1> QED BY <1>1 DEF Walk

LEMMA StaleWalker ==
    ASSUME NEW u, Walker(u), NEW x, Stale(u, x)
    PROVE  Walker(x) /\ x.fresh = FALSE
<1>1. PICK at, seen, fresh : u = [by |-> "walk", at |-> at, seen |-> seen, fresh |-> fresh]
  BY DEF Walker
<1>2. x = [by |-> "walk", at |-> at, seen |-> seen, fresh |-> FALSE]
  BY <1>1 DEF Stale
<1> QED BY <1>2 DEF Walker

LEMMA HolderStays ==
    ASSUME NEW u, Holder(u), NEW x, NEW f, Stays(u, x, f)
    PROVE  Holder(x) /\ x.at = u.at /\ x.key = u.key /\ x.val = u.val /\ x.fresh = f
<1>1. PICK at, key, val, fresh :
        u = [by |-> "holder", at |-> at, key |-> key, val |-> val, fresh |-> fresh]
  BY DEF Holder
<1>2. x = [by |-> "holder", at |-> at, key |-> key, val |-> val, fresh |-> f]
  BY <1>1 DEF Stays
<1>3. Holder(x)
  BY <1>2, Zenon DEF Holder
<1> QED BY <1>1, <1>2, <1>3

LEMMA HolderRevalues ==
    ASSUME NEW u, Holder(u), NEW x, NEW v, Revalues(u, x, v)
    PROVE  Holder(x) /\ x.at = u.at /\ x.key = u.key /\ x.val = v
<1>1. PICK at, key, val, fresh :
        u = [by |-> "holder", at |-> at, key |-> key, val |-> val, fresh |-> fresh]
  BY DEF Holder
<1>2. x = [by |-> "holder", at |-> at, key |-> key, val |-> v, fresh |-> fresh]
  BY <1>1 DEF Revalues
<1>3. Holder(x)
  BY <1>2, Zenon DEF Holder
<1> QED BY <1>1, <1>2, <1>3

LEMMA Kinds == ASSUME NEW u
               PROVE  /\ Walker(u) => u.by = "walk"
                      /\ Holder(u) => u.by = "holder"
BY DEF Walker, Holder

(* The bucket of a key that is not found is free: those that were probed   *)
(* before it do not end get's search.                                      *)
LEMMA TakesFree ==
    ASSUME NEW t, IsTable(t), NEW k, ~ Found(t, k), NEW b, NEW i, Takes(t, k, b, i)
    PROVE  b \notin UsedIn(t)
<1>1. t.cap \in Nat /\ i \in 0 .. t.cap - 1
  BY DEF IsTable, Takes
<1>2. ASSUME Holds(t.bucket[b], k) PROVE FALSE
  <2>1. Path(t, k, i)
    BY DEF Takes, Path, Ends
  <2>2. Placed(t, k, i)
    BY <1>1, <1>2, <2>1 DEF Placed, Takes, At
  <2> QED BY <1>1, <2>2, PlacedFacts
<1> QED BY <1>2 DEF Takes, UsedIn

(* A write through a pointer to a pair.                                    *)
Revalued(t, s, b, v) == s = [t EXCEPT !.bucket[b].val = v]

LEMMA WriteFacts ==
    ASSUME NEW t, IsTable(t), NEW b \in UsedIn(t), NEW k, k = t.bucket[b].key, NEW v \in Vals,
           NEW s, Revalued(t, s, b, v)
    PROVE  /\ IsTable(s) /\ s.cap = t.cap /\ UsedIn(s) = UsedIn(t)
           /\ \A c \in 0 .. t.cap - 1 : s.bucket[c] = IF c = b THEN Used(k, v) ELSE t.bucket[c]
           /\ Sound(t) =>
                /\ Sound(s)
                /\ \A key, val : Has(s, key, val) <=> IF key = k THEN val = v ELSE Has(t, key, val)
<1>1. b \in 0 .. t.cap - 1 /\ t.bucket[b].marker = 1 /\ t.bucket[b] \in Bucket
  BY TableFacts DEF UsedIn
<1>2. PICK x, n : x = Used(k, v) /\ n = t.size
  OBVIOUS
<1>3. k \in Keys /\ x \in Bucket /\ x.marker = 1
  BY <1>1, <1>2, BucketFacts, UsedFacts DEF Bucket
<1>4. s = [t EXCEPT !.bucket[b] = x, !.size = n]
  <2>1. PICK y : y = t.bucket[b]
    OBVIOUS
  <2>2. [y EXCEPT !.val = v] = x
    BY <1>1, <1>2, <2>1, BucketFacts DEF Used
  <2>3. s = [t EXCEPT !.bucket[b] = x]
    BY <2>1, <2>2 DEF Revalued
  <2> QED BY <1>2, <2>3 DEF IsTable
<1>5. Altered(t, s, b, x, n)
  BY <1>1, <1>2, <1>3, <1>4 DEF Altered
<1>6. /\ IsTable(s) /\ s.cap = t.cap
      /\ \A c \in 0 .. t.cap - 1 : s.bucket[c] = IF c = b THEN x ELSE t.bucket[c]
      /\ UsedIn(s) = IF x.marker = 1 THEN UsedIn(t) \cup {b} ELSE UsedIn(t) \ {b}
  BY <1>1, <1>3, <1>5, BucketChanged
<1>7. UsedIn(s) = UsedIn(t) /\ UsedIn(t) \subseteq 0 .. t.cap - 1
  BY <1>3, <1>6 DEF UsedIn
<1>8. \A c \in 0 .. t.cap - 1 : /\ s.bucket[c].marker = t.bucket[c].marker
                                /\ s.bucket[c].marker = 1 => s.bucket[c].key = t.bucket[c].key
  BY <1>1, <1>2, <1>6, UsedFacts
<1>9. ASSUME Sound(t)
      PROVE  /\ Sound(s)
             /\ \A key, val : Has(s, key, val) <=> IF key = k THEN val = v ELSE Has(t, key, val)
  <2>1. ASSUME NEW c \in UsedIn(s)
        PROVE  \E i \in Nat : Placed(s, s.bucket[c].key, i) /\ Probe(s, s.bucket[c].key, i) = c
    <3>1. PICK key : key = t.bucket[c].key
      OBVIOUS
    <3>2. c \in UsedIn(t) /\ c \in 0 .. t.cap - 1 /\ key \in Nat /\ s.bucket[c].key = key
          /\ s.bucket[c].marker = 1
      BY <1>7, <1>8, <2>1, <3>1, TableFacts DEF UsedIn
    <3>3. PICK i \in Nat : Placed(t, key, i) /\ Probe(t, key, i) = c
      BY <1>9, <3>1, <3>2 DEF Sound
    <3>4. Path(s, key, i)
      <4>1. i \in 0 .. t.cap /\ Path(t, key, i) /\ t.cap \in Nat /\ t.cap > 0
        BY <3>3 DEF Placed, IsTable
      <4>2. \A d \in 0 .. t.cap - 1 : /\ t.bucket[d].marker # 0 => s.bucket[d].marker # 0
                                      /\ Holds(s.bucket[d], key) => Holds(t.bucket[d], key)
        BY <1>8 DEF Holds
      <4> QED BY <1>6, <3>2, <4>1, <4>2, PathKept
    <3>5. Probe(s, key, i) = c
      BY <1>6, <3>3 DEF Probe
    <3>6. Placed(s, key, i)
      BY <1>6, <3>2, <3>3, <3>4, <3>5 DEF Placed, At, Holds
    <3> QED BY <3>2, <3>5, <3>6
  <2>2. \A c \in UsedIn(t) : t.bucket[c].key = k <=> c = b
    BY <1>3, <1>9, FoundFacts
  <2>3. ASSUME NEW key, NEW val
        PROVE  Has(s, key, val) <=> IF key = k THEN val = v ELSE Has(t, key, val)
    <3>1. \A c \in UsedIn(t) : s.bucket[c] = IF c = b THEN Used(k, v) ELSE t.bucket[c]
      BY <1>2, <1>6, <1>7
    <3>2. \A c \in UsedIn(t) : t.bucket[c] = Used(key, val) => (c = b <=> key = k)
      BY <2>2, UsedFacts
    <3>3. Used(k, v) = Used(key, val) <=> key = k /\ val = v
      BY UsedFacts
    <3> QED BY <1>7, <3>1, <3>2, <3>3 DEF Has
  <2> QED BY <1>6, <2>1, <2>3 DEF Sound
<1> QED BY <1>2, <1>6, <1>7, <1>9

(* A held pair: its bucket is used, and has the pair.                      *)
HeldIn(t, u) ==
    u.by = "holder" /\ u.fresh =>
        u.at \in UsedIn(t) /\ u.key \in Keys /\ t.bucket[u.at] = Used(u.key, u.val)

UseInv ==
    /\ Fits(table)
    /\ use = Nobody \/ Walker(use) \/ Holder(use)
    /\ HeldIn(table, use)

LEMMA InitFits ==
    ASSUME Init
    PROVE  Fits(table) /\ Sound(table) /\ UsedIn(table) = {}
<1>1. MinSize \in Nat /\ MinSize > 0 /\ MinSize \in MinSize .. MaxCap
  BY HashAssumption
<1>2. PICK t : t = table
  OBVIOUS
<1>3. t = Created(MinSize)
  BY <1>2 DEF Init
<1>4. Sound(t) /\ t.cap = MinSize /\ UsedIn(t) = {}
  BY <1>1, <1>3, CreatedFacts
<1>5. Fits(t)
  BY <1>1, <1>4 DEF Fits, Sound
<1> QED BY <1>2, <1>4, <1>5

(* A put of a new key leaves a held pair where it is, unless the table is  *)
(* resized.                                                                *)
LEMMA HeldKept ==
    ASSUME NEW t, IsTable(t), t.size < t.cap, NEW k \in Keys, NEW v \in Vals, ~ Found(t, k),
           NEW s, s = Insert(t, k, v), NEW c \in UsedIn(t)
    PROVE  c \in UsedIn(s) /\ s.bucket[c] = t.bucket[c]
<1>1. PICK b, i : /\ Takes(t, k, b, i)
                  /\ UsedIn(s) = UsedIn(t) \cup {b}
                  /\ \A d \in 0 .. t.cap - 1 :
                       s.bucket[d] = IF d = b THEN Used(k, v) ELSE t.bucket[d]
  BY InsertIs
<1>2. b \notin UsedIn(t)
  BY <1>1, TakesFree
<1> QED BY <1>1, <1>2 DEF UsedIn

LEMMA NextFits ==
    ASSUME Fits(table), Next
    PROVE  Fits(table') /\ (~ Overwrites /\ Sound(table) => Sound(table'))
<1>1. PICK k \in Keys : Del(k) \/ \E v \in Vals : Put(k, v)
  BY DEF Next
<1> QED BY <1>1, PutFacts, DelFacts

LEMMA UseStep ==
    ASSUME UseInv, [UseNext]_<<table, use>>
    PROVE  UseInv'
<1> PICK t, u, s, x : t = table /\ u = use /\ s = table' /\ x = use'
  OBVIOUS
<1> DEFINE Good(ta, ua) == /\ Fits(ta)
                           /\ ua = Nobody \/ Walker(ua) \/ Holder(ua)
                           /\ HeldIn(ta, ua)
<1>1. Fits(t) /\ (u = Nobody \/ Walker(u) \/ Holder(u)) /\ HeldIn(t, u)
  BY DEF UseInv
<1>2. SUFFICES Good(s, x)
  BY Zenon DEF UseInv
<1>3. CASE x.by # "holder" /\ Fits(s) /\ (x = Nobody \/ Walker(x) \/ Holder(x))
  BY <1>3 DEF HeldIn
<1>4. ASSUME Operate PROVE Good(s, x)
  <2>1. Next /\ x = Nobody
    BY <1>4 DEF Operate
  <2> QED BY <1>1, <1>3, <2>1, NextFits, NobodyFacts
<1>5. ASSUME StartWalk PROVE Good(s, x)
  <2>1. PICK at, seen : x = Walk(at, seen) /\ s = t
    BY <1>5 DEF StartWalk
  <2>2. Walker(x) /\ x.by = "walk"
    BY <2>1, WalkerFacts
  <2> QED BY <1>1, <1>3, <2>1, <2>2
<1>6. ASSUME Visit PROVE Good(s, x)
  <2>1. Fits(s)
    <3>1. \/ s = t
          \/ \E k \in Keys : Del(k) \/ \E v \in Vals : Put(k, v)
      BY <1>6 DEF Visit
    <3> QED BY <1>1, <3>1, NextFits DEF Next
  <2>2. u.by = "walk"
    BY <1>6 DEF Visit, Walking
  <2>3. Walker(u)
    BY <1>1, <2>2, NobodyFacts, Kinds
  <2>4. Walker(x)
    <3>1. PICK at, seen : x = Walk(at, seen) \/ Stale(u, x)
      BY <1>6, Zenon DEF Visit, Stale
    <3>2. Walker(Walk(at, seen))
      BY WalkerFacts
    <3>3. Stale(u, x) => Walker(x)
      BY <2>3, StaleWalker
    <3> QED BY <3>1, <3>2, <3>3
  <2>5. x.by = "walk"
    BY <2>4, Kinds
  <2> QED BY <1>3, <2>1, <2>4, <2>5
<1>7. ASSUME EndWalk \/ Release PROVE Good(s, x)
  <2>1. x = Nobody /\ s = t
    BY <1>7 DEF EndWalk, Release
  <2> QED BY <1>1, <1>3, <2>1, NobodyFacts
<1>8. ASSUME NEW k \in Keys, Hold(k) PROVE Good(s, x)
  <2>1. Found(t, k) /\ s = t
    BY <1>8 DEF Hold
  <2>2. PICK b, v : b = Find(t, k) /\ v = Get(t, k)
    OBVIOUS
  <2>3. x = [by |-> "holder", at |-> b, key |-> k, val |-> v, fresh |-> TRUE]
    BY <1>8, <2>2 DEF Hold
  <2>4. Holder(x)
    BY <2>3, Zenon DEF Holder
  <2>5. x.at = b /\ x.key = k /\ x.val = v
    BY <2>3
  <2>6. b \in UsedIn(t) /\ t.bucket[b] \in Bucket /\ t.bucket[b].key = k /\ t.bucket[b].marker = 1
        /\ t.bucket[b].val = v
    BY <1>1, <2>1, <2>2, FindUsed, TableFacts DEF Fits, Holds, Get
  <2>7. t.bucket[b] = Used(k, v)
    BY <2>6, BucketFacts
  <2> QED BY <1>1, <2>1, <2>4, <2>5, <2>6, <2>7 DEF HeldIn
<1>9. ASSUME NEW k \in Keys, NEW v \in Vals, PutNew(k, v) PROVE Good(s, x)
  <2>1. u.by = "holder" /\ u.fresh /\ ~ Found(t, k) /\ Put(k, v)
    BY <1>9 DEF PutNew, Holding
  <2>2. Holder(u)
    BY <1>1, <2>1, NobodyFacts, Kinds
  <2>3. PICK f : f = (s.cap = t.cap) /\ Stays(u, x, f)
    BY <1>9 DEF PutNew, Stays
  <2>4. Holder(x) /\ x.at = u.at /\ x.key = u.key /\ x.val = u.val /\ x.fresh = f
    BY <2>2, <2>3, HolderStays
  <2>5. Fits(s) /\ (s.cap = t.cap => s = Insert(t, k, v) /\ t.size < t.cap)
    BY <1>1, <2>1, PutFacts
  <2>6. u.at \in UsedIn(t) /\ u.key \in Keys /\ t.bucket[u.at] = Used(u.key, u.val)
    BY <1>1, <2>1 DEF HeldIn
  <2>7. s.cap = t.cap => u.at \in UsedIn(s) /\ s.bucket[u.at] = t.bucket[u.at]
    BY <1>1, <2>1, <2>5, <2>6, HeldKept DEF Fits
  <2>8. HeldIn(s, x)
    BY <2>3, <2>4, <2>6, <2>7 DEF HeldIn
  <2> QED BY <2>4, <2>5, <2>8
<1>10. ASSUME NEW v \in Vals, Write(v) PROVE Good(s, x)
  <2>1. u.by = "holder" /\ u.fresh
    BY <1>10 DEF Write, Holding
  <2>2. Holder(u)
    BY <1>1, <2>1, NobodyFacts, Kinds
  <2>3. PICK b, k : b = u.at /\ k = u.key
    OBVIOUS
  <2>4. Revalued(t, s, b, v) /\ Revalues(u, x, v)
    BY <1>10, <2>3 DEF Write, Revalued, Revalues
  <2>5. Holder(x) /\ x.at = b /\ x.key = k /\ x.val = v
    BY <2>2, <2>3, <2>4, HolderRevalues
  <2>6. b \in UsedIn(t) /\ k \in Keys /\ k = t.bucket[b].key
    BY <1>1, <2>1, <2>3, UsedFacts DEF HeldIn
  <2>8. /\ IsTable(s) /\ s.cap = t.cap /\ UsedIn(s) = UsedIn(t)
        /\ \A c \in 0 .. t.cap - 1 : s.bucket[c] = IF c = b THEN Used(k, v) ELSE t.bucket[c]
    BY <1>1, <2>4, <2>6, WriteFacts DEF Fits
  <2>9. Fits(s)
    BY <1>1, <2>8 DEF Fits
  <2>10. HeldIn(s, x)
    BY <2>5, <2>6, <2>8 DEF HeldIn, UsedIn
  <2> QED BY <2>5, <2>9, <2>10
<1>11. ASSUME UNCHANGED <<table, use>> PROVE Good(s, x)
  BY <1>1, <1>11
<1> QED BY <1>4, <1>5, <1>6, <1>7, <1>8, <1>9, <1>10, <1>11 DEF UseNext

LEMMA UseHeld == UseSpec => []UseInv
<1>1. UseInit => UseInv
  <2> SUFFICES ASSUME UseInit PROVE UseInv
    OBVIOUS
  <2>1. Init /\ use = Nobody
    BY DEF UseInit
  <2> QED BY <2>1, InitFits, NobodyFacts DEF UseInv, HeldIn
<1>2. UseInv /\ [UseNext]_<<table, use>> => UseInv'
  BY UseStep
<1> QED BY <1>1, <1>2, PTL DEF UseSpec

(* Whatever clients do, and whether or not they put hidden keys: a table   *)
(* is as many buckets as it says, within its bounds.                       *)
THEOREM TableTyped == UseSpec => []TypeOK
<1>1. UseInv => TypeOK
  <2> SUFFICES ASSUME UseInv PROVE TypeOK
    OBVIOUS
  <2>1. IsTable(table) /\ table.cap \in MinSize .. MaxCap
    BY DEF UseInv, Fits
  <2>2. table.size \in 0 .. table.cap
    BY <2>1, TableFacts
  <2>3. table.bucket \in [0 .. table.cap - 1 -> Bucket]
    BY <2>1 DEF IsTable
  <2> QED BY <2>1, <2>2, <2>3 DEF TypeOK, Bucket
<1> QED BY <1>1, UseHeld, PTL

(* Whatever clients do, the pairs are counted, and put always finds a      *)
(* bucket: a table that put did not grow has one that is not used.         *)
THEOREM TableCounted == UseSpec => []Counted
<1>1. UseInv => Counted
  <2> SUFFICES ASSUME UseInv PROVE Counted
    OBVIOUS
  <2>1. IsTable(table)
    BY DEF UseInv, Fits
  <2>2. PICK g : g = Grown(table)
    OBVIOUS
  <2>3. g.size < g.cap
    BY <2>1, <2>2, GrownFacts
  <2> QED BY <2>1, <2>2, <2>3 DEF Counted, IsTable, UsedIn
<1> QED BY <1>1, UseHeld, PTL

(* Whatever clients put while a pair is held, until the table is resized   *)
(* the pointer leads to that pair.                                         *)
THEOREM TableHeld == UseSpec => []HeldInPlace
<1>1. UseInv => HeldInPlace
  BY DEF UseInv, HeldIn, HeldInPlace
<1> QED BY <1>1, UseHeld, PTL

-----------------------------------------------------------------------------
(***************************************************************************)
(* Clients that put no hidden key.                                         *)
(***************************************************************************)
LEMMA AheadIs ==
    ASSUME NEW t, NEW b \in Nat, NEW k
    PROVE  k \in Ahead(t, b) <=> \E c \in UsedIn(t) : c >= b /\ t.bucket[c].key = k
BY DEF Ahead, UsedIn

LEMMA PresentIs ==
    ASSUME NEW t, Sound(t), NEW k
    PROVE  k \in Present(t) <=> \E c \in UsedIn(t) : t.bucket[c].key = k
<1>1. ASSUME NEW c \in UsedIn(t), t.bucket[c].key = k PROVE k \in Present(t)
  <2>1. k \in Keys
    BY <1>1, TableFacts DEF Sound
  <2> QED BY <1>1, <2>1, FoundFacts DEF Present
<1>2. ASSUME k \in Present(t) PROVE \E c \in UsedIn(t) : t.bucket[c].key = k
  <2>1. k \in Keys /\ Found(t, k)
    BY <1>2 DEF Present
  <2> QED BY <2>1, FoundFacts
<1> QED BY <1>1, <1>2

LEMMA ScanFacts ==
    ASSUME NEW t, IsTable(t), NEW b \in 0 .. t.cap, NEW n, n = Scan(t, b)
    PROVE  /\ n \in 0 .. t.cap /\ (n < t.cap => n \in UsedIn(t))
           /\ \A c \in UsedIn(t) : c >= b <=> c >= n
<1> DEFINE used == {c \in b .. t.cap - 1 : t.bucket[c].marker = 1}
<1>1. t.cap \in Nat /\ used \in SUBSET Nat /\ used \subseteq b .. t.cap - 1
  BY DEF IsTable
<1>2. \A c : c \in used <=> c \in UsedIn(t) /\ c >= b
  BY <1>1 DEF UsedIn
<1>3. n = IF used = {} THEN t.cap ELSE First(used)
  BY DEF Scan
<1> HIDE DEF used
<1>4. CASE used = {}
  <2>1. n = t.cap
    BY <1>3, <1>4
  <2> QED BY <1>1, <1>2, <1>4, <2>1 DEF UsedIn
<1>5. CASE used # {}
  <2>1. \E i \in used : \A m \in used : i <= m
    BY <1>1, <1>5, N!LeastNumber
  <2>2. n \in used /\ \A m \in used : n <= m
    BY <1>3, <1>5, <2>1 DEF First
  <2>3. n \in b .. t.cap - 1 /\ n \in UsedIn(t)
    BY <1>1, <1>2, <2>2
  <2>4. ASSUME NEW c \in UsedIn(t) PROVE c >= b <=> c >= n
    <3>1. c \in Nat
      BY DEF UsedIn
    <3>2. c >= b => n <= c
      BY <1>2, <2>2
    <3> QED BY <2>3, <3>1, <3>2
  <2> QED BY <1>1, <2>3, <2>4
<1> QED BY <1>4, <1>5

(* Where a walk is: at a pair or at the end, with every pair seen or       *)
(* ahead, and none both.                                                   *)
WalkAt(t, at, seen) ==
    /\ at \in 0 .. t.cap /\ (at < t.cap => at \in UsedIn(t))
    /\ Present(t) \subseteq seen \cup Ahead(t, at)
    /\ seen \cap Ahead(t, at) = {}

(* Some pairs of t may have gone, and no others came.                      *)
Kept(t, s) ==
    /\ s.cap = t.cap /\ UsedIn(s) \subseteq UsedIn(t)
    /\ \A c \in UsedIn(s) : s.bucket[c].key = t.bucket[c].key

LEMMA WalkBegins ==
    ASSUME NEW t, Sound(t), NEW none, none = {}
    PROVE  WalkAt(t, PairsHead(t), none)
<1>1. IsTable(t) /\ 0 \in 0 .. t.cap
  BY DEF Sound, IsTable
<1>2. PICK n : n = PairsHead(t)
  OBVIOUS
<1>3. n = Scan(t, 0)
  BY <1>2 DEF PairsHead
<1>4. /\ n \in 0 .. t.cap /\ (n < t.cap => n \in UsedIn(t))
      /\ \A c \in UsedIn(t) : c >= 0 <=> c >= n
  BY <1>1, <1>3, ScanFacts
<1>5. ASSUME NEW k \in Present(t) PROVE k \in Ahead(t, n)
  <2>1. PICK c \in UsedIn(t) : t.bucket[c].key = k
    BY PresentIs
  <2>2. c >= n
    BY <1>4, <2>1 DEF UsedIn
  <2> QED BY <1>4, <2>1, <2>2, AheadIs
<1> QED BY <1>2, <1>4, <1>5 DEF WalkAt

LEMMA WalkGoesOn ==
    ASSUME NEW t, Sound(t), NEW s, Sound(s), Kept(t, s), NEW at, NEW seen,
           WalkAt(t, at, seen), at < t.cap
    PROVE  WalkAt(s, PairsNext(s, at), seen \cup {t.bucket[at].key})
<1>1. IsTable(s) /\ at \in UsedIn(t) /\ at \in Nat /\ at + 1 \in 0 .. s.cap /\ s.cap = t.cap
      /\ t.cap \in Nat
  BY DEF WalkAt, Kept, Sound, IsTable
<1>2. PICK n, b : n = PairsNext(s, at) /\ b = at + 1
  OBVIOUS
<1>3. b \in 0 .. s.cap /\ n = Scan(s, b)
  BY <1>1, <1>2 DEF PairsNext
<1>4. /\ n \in 0 .. s.cap /\ (n < s.cap => n \in UsedIn(s))
      /\ \A c \in UsedIn(s) : c >= b <=> c >= n
  BY <1>1, <1>3, ScanFacts
<1>5. PICK key : key = t.bucket[at].key
  OBVIOUS
<1>6. key \in Keys /\ key \in Ahead(t, at)
  BY <1>1, <1>5, TableFacts, AheadIs DEF Sound
<1>7. \A c \in UsedIn(t) : t.bucket[c].key = key => c = at
  <2>1. \A c \in UsedIn(t) : t.bucket[c].key = key => c = Find(t, key)
    BY <1>6, FoundFacts
  <2> QED BY <1>1, <1>5, <2>1
<1>8. \A k : k \in Ahead(s, n) <=> \E c \in UsedIn(s) : c >= n /\ s.bucket[c].key = k
  BY <1>4, AheadIs
<1>9. ASSUME NEW k \in Present(s) PROVE k \in seen \cup {key} \cup Ahead(s, n)
  <2>1. PICK c \in UsedIn(s) : s.bucket[c].key = k
    BY PresentIs
  <2>2. c \in UsedIn(t) /\ t.bucket[c].key = k /\ k \in Keys
    BY <2>1, TableFacts DEF Kept, Sound
  <2>3. k \in seen \/ k \in Ahead(t, at)
    BY <2>2, PresentIs DEF WalkAt
  <2>4. ASSUME k \in Ahead(t, at), k # key PROVE c >= n
    <3>1. PICK d \in UsedIn(t) : d >= at /\ t.bucket[d].key = k
      BY <1>1, <2>4, AheadIs
    <3>2. d = c
      <4>1. d = Find(t, k) /\ c = Find(t, k)
        BY <2>2, <3>1, FoundFacts
      <4> QED BY <4>1
    <3>3. c # at
      BY <1>5, <2>2, <2>4
    <3>4. c >= b
      BY <1>1, <1>2, <3>1, <3>2, <3>3 DEF UsedIn
    <3> QED BY <1>4, <3>4
  <2> QED BY <1>8, <2>1, <2>3, <2>4
<1>10. ASSUME NEW k \in Ahead(s, n) PROVE k \in Ahead(t, at) /\ k # key
  <2>1. PICK c \in UsedIn(s) : c >= n /\ s.bucket[c].key = k
    BY <1>8
  <2>2. c \in UsedIn(t) /\ t.bucket[c].key = k /\ c >= b
    BY <1>4, <2>1 DEF Kept
  <2>3. c >= at /\ c # at
    BY <1>1, <1>2, <2>2 DEF UsedIn
  <2> QED BY <1>1, <1>7, <2>2, <2>3, AheadIs
<1>11. (seen \cup {key}) \cap Ahead(s, n) = {}
  BY <1>10 DEF WalkAt
<1> QED BY <1>2, <1>4, <1>5, <1>9, <1>11 DEF WalkAt

(* The map a table is.                                                     *)
MapOf(t)          == [k \in {j \in Keys : Found(t, j)} |-> Get(t, k)]
WithPut(m, k, v)  == [j \in DOMAIN m \cup {k} |-> IF j = k THEN v ELSE m[j]]
HasPut(t, s, k, v) ==
    \A key, val : Has(s, key, val) <=> IF key = k THEN val = v ELSE Has(t, key, val)
HasDel(t, s, k)   == \A key, val : Has(s, key, val) <=> key # k /\ Has(t, key, val)

LEMMA MapFacts ==
    ASSUME NEW t, Sound(t), NEW k \in Keys
    PROVE  /\ Found(t, k) => Has(t, k, Get(t, k))
           /\ \A v : Has(t, k, v) => Found(t, k) /\ Get(t, k) = v
<1>1. ASSUME Found(t, k) PROVE Has(t, k, Get(t, k))
  <2>1. PICK b : b = Find(t, k)
    OBVIOUS
  <2>2. b \in UsedIn(t) /\ t.bucket[b].key = k
    BY <1>1, <2>1, FoundFacts
  <2>3. t.bucket[b] = Used(k, t.bucket[b].val)
    BY <2>2, TableFacts, BucketFacts DEF Sound, UsedIn
  <2>4. Get(t, k) = t.bucket[b].val
    BY <2>1 DEF Get
  <2> QED BY <2>2, <2>3, <2>4 DEF Has
<1>2. ASSUME NEW v, Has(t, k, v) PROVE Found(t, k) /\ Get(t, k) = v
  <2>1. PICK b \in UsedIn(t) : t.bucket[b] = Used(k, v)
    BY <1>2 DEF Has
  <2>2. t.bucket[b].key = k /\ t.bucket[b].val = v
    BY <2>1, UsedFacts
  <2>3. Found(t, k) /\ b = Find(t, k)
    BY <2>2, FoundFacts
  <2> QED BY <2>2, <2>3 DEF Get
<1> QED BY <1>1, <1>2

LEMMA MapPut ==
    ASSUME NEW t, Sound(t), NEW s, Sound(s), NEW k \in Keys, NEW v \in Vals, HasPut(t, s, k, v)
    PROVE  MapOf(s) = WithPut(MapOf(t), k, v)
<1>1. ASSUME NEW j \in Keys
      PROVE  /\ Found(s, j) <=> j = k \/ Found(t, j)
             /\ j = k => Get(s, j) = v
             /\ j # k /\ Found(t, j) => Get(s, j) = Get(t, j)
  <2>1. \A val : Has(s, j, val) <=> IF j = k THEN val = v ELSE Has(t, j, val)
    BY DEF HasPut
  <2>2. j = k => Found(s, j) /\ Get(s, j) = v
    BY <2>1, MapFacts
  <2>3. j # k /\ Found(t, j) => Found(s, j) /\ Get(s, j) = Get(t, j)
    BY <2>1, MapFacts
  <2>4. j # k /\ Found(s, j) => Found(t, j)
    BY <2>1, MapFacts
  <2> QED BY <2>2, <2>3, <2>4
<1>2. {j \in Keys : Found(s, j)} = {j \in Keys : Found(t, j)} \cup {k}
  BY <1>1
<1>3. DOMAIN MapOf(t) = {j \in Keys : Found(t, j)}
      /\ \A j \in {i \in Keys : Found(t, i)} : MapOf(t)[j] = Get(t, j)
  BY DEF MapOf
<1>4. \A j \in {i \in Keys : Found(s, i)} : Get(s, j) = IF j = k THEN v ELSE MapOf(t)[j]
  BY <1>1, <1>2, <1>3
<1>5. MapOf(s) = [j \in {i \in Keys : Found(s, i)} |-> IF j = k THEN v ELSE MapOf(t)[j]]
  BY <1>4 DEF MapOf
<1> QED BY <1>2, <1>3, <1>5, Zenon DEF WithPut

LEMMA MapDel ==
    ASSUME NEW t, Sound(t), NEW s, Sound(s), NEW k \in Keys, HasDel(t, s, k)
    PROVE  MapOf(s) = [j \in DOMAIN MapOf(t) \ {k} |-> MapOf(t)[j]]
<1>1. ASSUME NEW j \in Keys
      PROVE  /\ Found(s, j) <=> j # k /\ Found(t, j)
             /\ j # k /\ Found(t, j) => Get(s, j) = Get(t, j)
  <2>1. \A val : Has(s, j, val) <=> j # k /\ Has(t, j, val)
    BY DEF HasDel
  <2>2. j # k /\ Found(t, j) => Found(s, j) /\ Get(s, j) = Get(t, j)
    BY <2>1, MapFacts
  <2>3. Found(s, j) => j # k /\ Found(t, j)
    BY <2>1, MapFacts
  <2> QED BY <2>2, <2>3
<1>2. {j \in Keys : Found(s, j)} = {j \in Keys : Found(t, j)} \ {k}
  BY <1>1
<1>3. DOMAIN MapOf(t) = {j \in Keys : Found(t, j)}
      /\ \A j \in {i \in Keys : Found(t, i)} : MapOf(t)[j] = Get(t, j)
  BY DEF MapOf
<1>4. \A j \in {i \in Keys : Found(s, i)} : Get(s, j) = MapOf(t)[j]
  BY <1>1, <1>2, <1>3
<1>5. MapOf(s) = [j \in {i \in Keys : Found(s, i)} |-> MapOf(t)[j]]
  BY <1>4 DEF MapOf
<1> QED BY <1>2, <1>3, <1>5

(* What an operation does to the pairs.                                    *)
MapStep(t, s) == \/ s = t
                 \/ \E k \in Keys : HasDel(t, s, k) \/ \E v \in Vals : HasPut(t, s, k, v)

LEMMA NextMaps ==
    ASSUME ~ Overwrites, Fits(table), Sound(table), Next
    PROVE  Sound(table') /\ MapStep(table, table')
<1>1. PICK k \in Keys : Del(k) \/ \E v \in Vals : Put(k, v)
  BY DEF Next
<1>2. Del(k) => Sound(table') /\ HasDel(table, table', k)
  BY DelFacts DEF HasDel
<1>3. \A v \in Vals : Put(k, v) => Sound(table') /\ HasPut(table, table', k, v)
  BY PutFacts DEF HasPut
<1> QED BY <1>1, <1>2, <1>3 DEF MapStep

(* The body of a walk keeps the keys, unless the table is resized.         *)
LEMMA VisitKeeps ==
    ASSUME ~ Overwrites, Fits(table), Sound(table), NEW k \in Keys,
           Del(k) \/ \E v \in Vals : Found(table, k) /\ Put(k, v),
           table'.cap = table.cap
    PROVE  Kept(table, table')
<1>1. PICK t, s : t = table /\ s = table'
  OBVIOUS
<1>2. IsTable(t) /\ Sound(t) /\ s.cap = t.cap
  BY <1>1 DEF Fits
<1>3. CASE Del(k)
  <2>1. Found(t, k) /\ s = Delete(t, k)
    BY <1>1, <1>3, DelFacts
  <2>2. /\ UsedIn(s) = UsedIn(t) \ {Find(t, k)}
        /\ \A c \in 0 .. t.cap - 1 : s.bucket[c] = IF c = Find(t, k) THEN Deleted ELSE t.bucket[c]
    BY <1>2, <2>1, DeleteIs
  <2>3. Kept(t, s)
    BY <1>2, <2>2 DEF Kept, UsedIn
  <2> QED BY <1>1, <2>3
<1>4. ASSUME NEW v \in Vals, Found(table, k), Put(k, v) PROVE Kept(table, table')
  <2>1. s = Insert(t, k, v) /\ t.size < t.cap /\ ~ Hidden(t, k) /\ Found(t, k)
    BY <1>1, <1>4, PutFacts
  <2>2. PICK b \in 0 .. t.cap - 1 :
          /\ IF Found(t, k) THEN b = Find(t, k) ELSE b \notin UsedIn(t)
          /\ UsedIn(s) = UsedIn(t) \cup {b}
          /\ \A c \in 0 .. t.cap - 1 : s.bucket[c] = IF c = b THEN Used(k, v) ELSE t.bucket[c]
    BY <1>2, <2>1, InsertSound
  <2>3. b \in UsedIn(t) /\ t.bucket[b].key = k
    BY <1>2, <2>1, <2>2, FoundFacts
  <2>4. UsedIn(s) = UsedIn(t) /\ \A c \in UsedIn(s) : s.bucket[c].key = t.bucket[c].key
    BY <2>2, <2>3, UsedFacts DEF UsedIn
  <2>5. Kept(t, s)
    BY <1>2, <2>4 DEF Kept
  <2> QED BY <1>1, <2>5
<1> QED BY <1>3, <1>4

WalkIn(t, u) == u.by = "walk" /\ u.fresh => WalkAt(t, u.at, u.seen)

SoundInv == UseInv /\ Sound(table) /\ WalkIn(table, use)

LEMMA SoundStep ==
    ASSUME ~ Overwrites, SoundInv, [UseNext]_<<table, use>>
    PROVE  SoundInv' /\ MapStep(table, table')
<1> PICK t, u, s, x : t = table /\ u = use /\ s = table' /\ x = use'
  OBVIOUS
<1>1. /\ Fits(t) /\ (u = Nobody \/ Walker(u) \/ Holder(u)) /\ HeldIn(t, u)
      /\ Sound(t) /\ WalkIn(t, u)
  BY DEF SoundInv, UseInv
<1> DEFINE Good == Sound(s) /\ WalkIn(s, x) /\ MapStep(t, s)
<1>2. SUFFICES Good
  <2>1. UseInv'
    BY UseStep DEF SoundInv
  <2> QED BY <2>1 DEF SoundInv
<1>3. s = t => Sound(s) /\ MapStep(t, s)
  BY <1>1 DEF MapStep
<1>4. x.by # "walk" => WalkIn(s, x)
  BY DEF WalkIn
<1>5. ASSUME Operate PROVE Good
  <2>1. Next /\ x.by # "walk"
    BY <1>5, NobodyFacts DEF Operate
  <2> QED BY <1>1, <1>4, <2>1, NextMaps
<1>6. ASSUME StartWalk PROVE Good
  <2>1. PICK at, none : at = PairsHead(t) /\ none = {}
    OBVIOUS
  <2>2. x = Walk(at, none) /\ s = t
    BY <1>6, <2>1 DEF StartWalk
  <2>3. WalkAt(t, at, none)
    BY <1>1, <2>1, WalkBegins
  <2>4. x.at = at /\ x.seen = none
    BY <2>2, WalkerFacts
  <2> QED BY <1>3, <2>2, <2>3, <2>4 DEF WalkIn
<1>7. ASSUME Visit PROVE Good
  <2>1. u.by = "walk" /\ u.fresh /\ u.at < t.cap
    BY <1>7 DEF Visit, Walking
  <2>2. \/ s = t
        \/ \E k \in Keys : Del(k) \/ \E v \in Vals : Found(table, k) /\ Put(k, v)
    BY <1>7 DEF Visit
  <2>3. Sound(s) /\ MapStep(t, s)
    BY <1>1, <1>3, <2>2, NextMaps DEF Next
  <2>4. CASE s.cap = t.cap
    <3>1. Kept(t, s)
      <4>1. s = t => Kept(t, s)
        BY DEF Kept
      <4> QED BY <1>1, <2>2, <2>4, <4>1, VisitKeeps
    <3>2. PICK at, seen : at = u.at /\ seen = u.seen
      OBVIOUS
    <3>3. WalkAt(t, at, seen) /\ at < t.cap
      BY <1>1, <2>1, <3>2 DEF WalkIn
    <3>4. PICK n, new : n = PairsNext(s, at) /\ new = seen \cup {t.bucket[at].key}
      OBVIOUS
    <3>5. WalkAt(s, n, new)
      BY <1>1, <2>3, <3>1, <3>3, <3>4, WalkGoesOn
    <3>6. x = Walk(n, new)
      BY <1>7, <2>4, <3>2, <3>4 DEF Visit
    <3>7. x.at = n /\ x.seen = new
      BY <3>6, WalkerFacts
    <3> QED BY <2>3, <3>5, <3>7 DEF WalkIn
  <2>5. CASE s.cap # t.cap
    <3>1. Stale(u, x)
      BY <1>7, <2>5 DEF Visit, Stale
    <3>2. Walker(u)
      BY <1>1, <2>1, NobodyFacts, Kinds
    <3>3. x.fresh = FALSE
      BY <3>1, <3>2, StaleWalker
    <3> QED BY <2>3, <3>3 DEF WalkIn
  <2> QED BY <2>4, <2>5
<1>8. ASSUME EndWalk \/ Release PROVE Good
  <2>1. x.by # "walk" /\ s = t
    BY <1>8, NobodyFacts DEF EndWalk, Release
  <2> QED BY <1>3, <1>4, <2>1
<1>9. ASSUME NEW k \in Keys, Hold(k) PROVE Good
  <2>1. x.by # "walk" /\ s = t
    BY <1>9 DEF Hold
  <2> QED BY <1>3, <1>4, <2>1
<1>10. ASSUME NEW k \in Keys, NEW v \in Vals, PutNew(k, v) PROVE Good
  <2>1. u.by = "holder" /\ Next
    BY <1>10 DEF PutNew, Holding, Next
  <2>2. Holder(u)
    BY <1>1, <2>1, NobodyFacts, Kinds
  <2>3. PICK f : Stays(u, x, f)
    BY <1>10 DEF PutNew, Stays
  <2>4. x.by # "walk"
    BY <2>2, <2>3, HolderStays, Kinds
  <2> QED BY <1>1, <1>4, <2>1, <2>4, NextMaps
<1>11. ASSUME NEW v \in Vals, Write(v) PROVE Good
  <2>1. u.by = "holder" /\ u.fresh
    BY <1>11 DEF Write, Holding
  <2>2. Holder(u)
    BY <1>1, <2>1, NobodyFacts, Kinds
  <2>3. PICK b, k : b = u.at /\ k = u.key
    OBVIOUS
  <2>4. Revalued(t, s, b, v) /\ Revalues(u, x, v)
    BY <1>11, <2>3 DEF Write, Revalued, Revalues
  <2>5. x.by # "walk"
    BY <2>2, <2>4, HolderRevalues, Kinds
  <2>6. b \in UsedIn(t) /\ k \in Keys /\ k = t.bucket[b].key
    BY <1>1, <2>1, <2>3, UsedFacts DEF HeldIn
  <2>7. Sound(s) /\ \A key, val : Has(s, key, val) <=> IF key = k THEN val = v ELSE Has(t, key, val)
    BY <1>1, <2>4, <2>6, WriteFacts DEF Fits
  <2>8. HasPut(t, s, k, v)
    BY <2>7 DEF HasPut
  <2> QED BY <1>4, <2>5, <2>6, <2>7, <2>8 DEF MapStep
<1>12. ASSUME UNCHANGED <<table, use>> PROVE Good
  BY <1>1, <1>3, <1>12
<1> QED BY <1>5, <1>6, <1>7, <1>8, <1>9, <1>10, <1>11, <1>12 DEF UseNext

LEMMA UseSound == ASSUME ~ Overwrites PROVE UseSpec => []SoundInv
<1>1. UseInit => SoundInv
  <2> SUFFICES ASSUME UseInit PROVE SoundInv
    OBVIOUS
  <2>1. Init /\ use = Nobody
    BY DEF UseInit
  <2> QED BY <2>1, InitFits, NobodyFacts DEF SoundInv, UseInv, HeldIn, WalkIn
<1>2. SoundInv /\ [UseNext]_<<table, use>> => SoundInv'
  BY SoundStep
<1> QED BY <1>1, <1>2, PTL DEF UseSpec

(* If no client puts a hidden key, every pair is where get looks for its   *)
(* key, whatever was deleted, and however the table grew and shrank.       *)
THEOREM TableReachable == ASSUME ~ Overwrites PROVE UseSpec => []Reachable
<1>1. SoundInv => Reachable
  <2> SUFFICES ASSUME SoundInv, NEW b \in UsedIn(table)
               PROVE  /\ Found(table, table.bucket[b].key)
                      /\ Find(table, table.bucket[b].key) = b
    BY DEF Reachable, UsedIn
  <2>1. Sound(table) /\ table.bucket[b].key \in Keys
    BY TableFacts DEF SoundInv, Sound
  <2> QED BY <2>1, FoundFacts
<1> QED BY <1>1, UseSound, PTL

(* If no client puts a hidden key, a walk over a table that is not resized *)
(* comes to every pair once, whatever pairs it deletes or overwrites.      *)
THEOREM WalkCovers == ASSUME ~ Overwrites PROVE UseSpec => []SweepCovers
<1>1. SoundInv => SweepCovers
  BY DEF SoundInv, WalkIn, WalkAt, SweepCovers
<1> QED BY <1>1, UseSound, PTL

(* If no client puts a hidden key, the table implements the map that its   *)
(* header promises: every step is a put or a delete of one pair, or leaves *)
(* the pairs as they are.                                                  *)
THEOREM TableIsMap == ASSUME ~ Overwrites PROVE UseSpec => IsMap
<1>1. UseInit => Map!Init
  <2> SUFFICES ASSUME UseInit PROVE Map!Init
    OBVIOUS
  <2>1. Sound(table) /\ UsedIn(table) = {}
    BY InitFits DEF UseInit
  <2>2. {j \in Keys : Found(table, j)} = {}
    BY <2>1, FoundFacts
  <2> QED BY <2>2 DEF Map!Init
<1>2. SoundInv /\ SoundInv' /\ [UseNext]_<<table, use>> => [table' = table \/ Map!Next]_table
  <2> SUFFICES ASSUME SoundInv, SoundInv', [UseNext]_<<table, use>>
               PROVE  table' = table \/ Map!Next
    OBVIOUS
  <2>1. PICK t, s : t = table /\ s = table'
    OBVIOUS
  <2>2. Sound(t) /\ Sound(s) /\ MapStep(t, s)
    BY <2>1, SoundStep DEF SoundInv
  <2>3. ASSUME NEW k \in Keys, HasDel(t, s, k) PROVE Map!Del(k)
    <3>1. MapOf(s) = [j \in DOMAIN MapOf(t) \ {k} |-> MapOf(t)[j]]
      BY <2>2, <2>3, MapDel
    <3> QED BY <2>1, <3>1, Zenon DEF Map!Del, MapOf
  <2>4. ASSUME NEW k \in Keys, NEW v \in Vals, HasPut(t, s, k, v) PROVE Map!Put(k, v)
    <3>1. MapOf(s) = WithPut(MapOf(t), k, v)
      BY <2>2, <2>4, MapPut
    <3> QED BY <2>1, <3>1, Zenon DEF Map!Put, MapOf, WithPut
  <2> QED BY <2>1, <2>2, <2>3, <2>4 DEF MapStep, Map!Next
<1> QED BY <1>1, <1>2, UseSound, PTL DEF UseSpec, IsMap

-----------------------------------------------------------------------------
(***************************************************************************)
(* The slab.  The list of free items is given with its order: order[0] is  *)
(* the head, and the m-th and last of it is the end.                       *)
(***************************************************************************)
Order(s, g, m, order) ==
    /\ order \in [0 .. m -> 0 .. Size(s)]
    /\ order[0] = s.head /\ order[m] = Size(s)
    /\ \A a, b \in 0 .. m : order[a] = order[b] => a = b
    /\ \A a \in 0 .. m - 1 : s.next[order[a]] = order[a + 1]
    /\ \A i \in 0 .. Size(s) : i \notin g <=> \E a \in 0 .. m : order[a] = i

SlabShape(s, g) ==
    /\ s = [blocks |-> s.blocks, next |-> s.next, head |-> s.head, count |-> s.count]
    /\ s.blocks \in Nat /\ Size(s) \in Nat
    /\ s.next \in [0 .. Size(s) - 1 -> Int]
    /\ g \subseteq 0 .. Size(s) - 1 /\ IsFiniteSet(g) /\ s.count = Cardinality(g)
    /\ \A i \in 0 .. Size(s) - 1 : s.next[i] = NullIndex <=> i \in g

SlabOK(s, g) ==
    /\ SlabShape(s, g)
    /\ \E m \in Nat : m + s.count = Size(s) /\ \E order : Order(s, g, m, order)

(* The steps, on a slab that is given.                                     *)
Taken(s)       == [s EXCEPT !.head = s.next[s.head], !.next[s.head] = NullIndex, !.count = @ + 1]
Returned(s, i) == [s EXCEPT !.next[i] = s.head, !.head = i, !.count = @ - 1]

LEMMA EmptySlab ==
    ASSUME SlabInit
    PROVE  SlabOK(slab, given)
<1>1. PICK s, g : s = slab /\ g = given
  OBVIOUS
<1>2. g = {} /\ s.blocks = 0 /\ s.head = 0 /\ s.count = 0 /\ s.next = [i \in {} |-> 0]
      /\ s = [blocks |-> s.blocks, next |-> s.next, head |-> s.head, count |-> s.count]
  BY <1>1 DEF SlabInit
<1>3. Size(s) = 0
  BY <1>2, SlabAssumption DEF Size
<1>4. IsFiniteSet(g) /\ Cardinality(g) = 0
  BY <1>2, FS_EmptySet
<1>5. SlabShape(s, g)
  BY <1>2, <1>3, <1>4 DEF SlabShape
<1>6. PICK order : order = [n \in 0 .. 0 |-> 0]
  OBVIOUS
<1>7. Order(s, g, 0, order)
  BY <1>2, <1>3, <1>6 DEF Order
<1>8. 0 \in Nat /\ 0 + s.count = Size(s)
  BY <1>2, <1>3
<1>9. SlabOK(s, g)
  BY <1>5, <1>7, <1>8 DEF SlabOK
<1> QED BY <1>1, <1>9

LEMMA EndAtHead ==
    ASSUME NEW s, NEW g, NEW m \in Nat, Size(s) \in Nat, NEW order, Order(s, g, m, order)
    PROVE  s.head = Size(s) <=> m = 0
BY DEF Order

(* A new block, when there is no free item left.                           *)
LEMMA BlockAddedOK ==
    ASSUME NEW s, NEW g, SlabOK(s, g), s.head = Size(s), NEW r, r = BlockAdded(s)
    PROVE  SlabOK(r, g) /\ r.head # Size(r)
<1>1. SlabShape(s, g)
  BY DEF SlabOK
<1>2. PICK m \in Nat : m + s.count = Size(s) /\ \E order : Order(s, g, m, order)
  BY DEF SlabOK
<1>3. PICK order : Order(s, g, m, order)
  BY <1>2
<1>4. m = 0
  BY <1>1, <1>3, EndAtHead DEF SlabShape
<1>5. PICK n \in Nat, b \in Nat : n = Size(s) /\ b = BlockSize /\ b > 0
  BY <1>1, SlabAssumption DEF SlabShape
<1>6. /\ r.blocks = s.blocks + 1 /\ r.head = n /\ r.count = s.count
      /\ r.next = [i \in 0 .. n + b - 1 |-> IF i < n THEN s.next[i] ELSE i + 1]
      /\ r = [blocks |-> r.blocks, next |-> r.next, head |-> r.head, count |-> r.count]
  BY <1>1, <1>5 DEF BlockAdded, SlabShape
<1>7. Size(r) = n + b
  <2>1. PICK c \in Nat : c = s.blocks
    BY <1>1 DEF SlabShape
  <2>2. (c + 1) * b = c * b + b
    BY <1>5, SMT
  <2> QED BY <1>5, <1>6, <2>1, <2>2 DEF Size
<1>8. SlabShape(r, g)
  <2>1. r.next \in [0 .. n + b - 1 -> Int]
    BY <1>1, <1>5, <1>6 DEF SlabShape
  <2>2. g \subseteq 0 .. n - 1 /\ IsFiniteSet(g) /\ r.count = Cardinality(g)
    BY <1>1, <1>5, <1>6 DEF SlabShape
  <2>3. \A i \in 0 .. n + b - 1 : r.next[i] = NullIndex <=> i \in g
    BY <1>1, <1>5, <1>6, <2>2 DEF SlabShape, NullIndex
  <2>4. r.blocks \in Nat
    BY <1>1, <1>6 DEF SlabShape
  <2>5. g \subseteq 0 .. n + b - 1
    BY <2>2
  <2> QED BY <1>6, <1>7, <2>1, <2>2, <2>3, <2>4, <2>5 DEF SlabShape
<1>9. PICK new : new = [a \in 0 .. b |-> n + a]
  OBVIOUS
<1>10. Order(r, g, b, new)
  <2>1. \A i \in 0 .. n : i \notin g <=> i = n
    BY <1>3, <1>4, <1>5 DEF Order
  <2>2. \A i \in 0 .. n + b : i \notin g <=> i >= n
    BY <1>1, <1>5, <2>1 DEF SlabShape
  <2>3. \A i \in 0 .. n + b : i >= n <=> \E a \in 0 .. b : new[a] = i
    <3> TAKE i \in 0 .. n + b
    <3>1. i >= n => i - n \in 0 .. b /\ new[i - n] = i
      BY <1>9
    <3>2. \A a \in 0 .. b : new[a] = i => i >= n
      BY <1>9
    <3> QED BY <3>1, <3>2
  <2>4. \A a \in 0 .. b - 1 : r.next[new[a]] = new[a + 1]
    BY <1>5, <1>6, <1>9
  <2>5. new \in [0 .. b -> 0 .. n + b] /\ new[0] = n /\ new[b] = n + b
        /\ \A a, c \in 0 .. b : new[a] = new[c] => a = c
    BY <1>5, <1>9
  <2> QED BY <1>6, <1>7, <2>2, <2>3, <2>4, <2>5 DEF Order
<1>11. b + r.count = Size(r)
  <2>1. s.count \in Nat
    BY <1>1, FS_CardinalityType DEF SlabShape
  <2>2. s.count = n
    BY <1>2, <1>4, <1>5, <2>1
  <2> QED BY <1>5, <1>6, <1>7, <2>2
<1>12. r.head # Size(r)
  BY <1>5, <1>6, <1>7
<1> QED BY <1>5, <1>8, <1>10, <1>11, <1>12 DEF SlabOK

(* The first free item is given.                                           *)
LEMMA TakenOK ==
    ASSUME NEW s, NEW g, SlabOK(s, g), s.head # Size(s), NEW r, r = Taken(s)
    PROVE  SlabOK(r, g \cup {s.head})
<1>1. SlabShape(s, g)
  BY DEF SlabOK
<1>2. PICK m \in Nat : m + s.count = Size(s) /\ \E order : Order(s, g, m, order)
  BY DEF SlabOK
<1>3. PICK order : Order(s, g, m, order)
  BY <1>2
<1>4. m > 0
  BY <1>1, <1>2, <1>3, EndAtHead DEF SlabShape
<1>5. PICK n \in Nat, h \in Nat, x \in Nat :
        h < n /\ x <= n /\ n = Size(s) /\ h = s.head /\ x = s.next[h] /\ h = order[0] /\ x = order[1]
  <2>1. Size(s) \in Nat /\ 0 \in 0 .. m /\ 1 \in 0 .. m /\ 0 \in 0 .. m - 1 /\ 0 + 1 = 1
    BY <1>1, <1>4 DEF SlabShape
  <2>2. order[0] \in 0 .. Size(s) /\ order[1] \in 0 .. Size(s) /\ order[0] = s.head
        /\ s.next[order[0]] = order[1]
    BY <1>3, <2>1 DEF Order
  <2>3. order[0] < Size(s) /\ order[0] \in Nat /\ order[1] \in Nat /\ order[1] <= Size(s)
    BY <2>1, <2>2
  <2> QED BY <2>1, <2>2, <2>3
<1>6. /\ r.blocks = s.blocks /\ r.head = x /\ r.count = s.count + 1
      /\ r.next = [s.next EXCEPT ![h] = NullIndex]
      /\ r = [blocks |-> r.blocks, next |-> r.next, head |-> r.head, count |-> r.count]
  BY <1>1, <1>5 DEF Taken, SlabShape
<1>7. Size(r) = n
  BY <1>5, <1>6 DEF Size
<1>8. h \notin g
  BY <1>3, <1>4, <1>5 DEF Order
<1>9. PICK f : f = g \cup {h}
  OBVIOUS
<1>10. SlabShape(r, f)
  <2>1. r.next \in [0 .. n - 1 -> Int]
        /\ \A i \in 0 .. n - 1 : r.next[i] = IF i = h THEN NullIndex ELSE s.next[i]
    BY <1>1, <1>5, <1>6 DEF SlabShape, NullIndex
  <2>2. IsFiniteSet(g) /\ s.count = Cardinality(g) /\ g \subseteq 0 .. n - 1
    BY <1>1, <1>5 DEF SlabShape
  <2>3. IsFiniteSet(g \cup {h}) /\ Cardinality(g \cup {h}) = Cardinality(g) + 1
    BY <1>8, <2>2, FS_AddElement
  <2>4. f \subseteq 0 .. n - 1 /\ IsFiniteSet(f) /\ r.count = Cardinality(f)
    BY <1>5, <1>6, <1>9, <2>2, <2>3
  <2>5. \A i \in 0 .. n - 1 : r.next[i] = NullIndex <=> i \in f
    BY <1>1, <1>5, <1>9, <2>1 DEF SlabShape
  <2>6. r.blocks \in Nat
    BY <1>1, <1>6 DEF SlabShape
  <2> QED BY <1>6, <1>7, <2>1, <2>4, <2>5, <2>6 DEF SlabShape
<1>11. PICK new : new = [a \in 0 .. m - 1 |-> order[a + 1]]
  OBVIOUS
<1>12. Order(r, f, m - 1, new)
  <2>1. \A a \in 0 .. m - 1 : a + 1 \in 0 .. m /\ new[a] = order[a + 1]
    BY <1>11
  <2>2. /\ order \in [0 .. m -> 0 .. n] /\ order[m] = n
        /\ \A a, b \in 0 .. m : order[a] = order[b] => a = b
        /\ \A a \in 0 .. m - 1 : s.next[order[a]] = order[a + 1]
        /\ \A i \in 0 .. n : i \notin g <=> \E a \in 0 .. m : order[a] = i
    BY <1>3, <1>5 DEF Order
  <2>3. new \in [0 .. m - 1 -> 0 .. n] /\ new[0] = x /\ new[m - 1] = n
    BY <1>4, <1>5, <1>11, <2>1, <2>2
  <2>4. \A a, b \in 0 .. m - 1 : new[a] = new[b] => a = b
    <3> SUFFICES ASSUME NEW a \in 0 .. m - 1, NEW b \in 0 .. m - 1, new[a] = new[b] PROVE a = b
      OBVIOUS
    <3>1. a + 1 = b + 1
      BY <2>1, <2>2
    <3> QED BY <3>1
  <2>5. ASSUME NEW a \in 0 .. m - 1 - 1 PROVE r.next[new[a]] = new[a + 1]
    <3>1. a + 1 \in 0 .. m - 1 /\ a + 1 # 0 /\ a \in 0 .. m - 1 /\ 0 \in 0 .. m /\ a + 1 \in 0 .. m
      BY <1>4
    <3>2. order[a + 1] # h /\ order[a + 1] # n
      <4>1. m \in 0 .. m /\ a + 1 # m
        BY <1>4
      <4> QED BY <1>5, <2>2, <3>1, <4>1
    <3>3. r.next[order[a + 1]] = s.next[order[a + 1]]
      BY <1>1, <1>5, <1>6, <2>2, <3>1, <3>2 DEF SlabShape
    <3>4. s.next[order[a + 1]] = order[a + 1 + 1]
      BY <2>2, <3>1
    <3>5. new[a] = order[a + 1] /\ new[a + 1] = order[a + 1 + 1]
      BY <2>1, <3>1
    <3> QED BY <3>3, <3>4, <3>5, Zenon
  <2>6. ASSUME NEW i \in 0 .. n PROVE i \notin f <=> \E a \in 0 .. m - 1 : new[a] = i
    <3>1. ASSUME i \notin f PROVE \E a \in 0 .. m - 1 : new[a] = i
      <4>1. PICK a \in 0 .. m : order[a] = i
        BY <1>9, <2>2, <3>1
      <4>2. a # 0
        BY <1>5, <1>9, <3>1, <4>1
      <4>3. a - 1 \in 0 .. m - 1 /\ new[a - 1] = i
        BY <1>11, <4>1, <4>2
      <4> QED BY <4>3
    <3>2. ASSUME NEW a \in 0 .. m - 1, new[a] = i PROVE i \notin f
      <4>1. order[a + 1] = i /\ a + 1 \in 0 .. m /\ a + 1 # 0 /\ 0 \in 0 .. m
        BY <2>1, <3>2
      <4>2. i # h
        BY <1>5, <2>2, <4>1
      <4> QED BY <1>9, <2>2, <4>1, <4>2
    <3> QED BY <3>1, <3>2
  <2> QED BY <1>6, <1>7, <2>3, <2>4, <2>5, <2>6 DEF Order
<1>13. m - 1 \in Nat /\ m - 1 + r.count = Size(r)
  <2>1. s.count \in Nat
    BY <1>1, FS_CardinalityType DEF SlabShape
  <2> QED BY <1>2, <1>4, <1>5, <1>6, <1>7, <2>1
<1>14. SlabOK(r, f)
  BY <1>10, <1>12, <1>13 DEF SlabOK
<1> QED BY <1>5, <1>9, <1>14

(* An item that was given becomes the first free one.                      *)
LEMMA ReturnedOK ==
    ASSUME NEW s, NEW g, SlabOK(s, g), NEW h \in g, NEW r, r = Returned(s, h)
    PROVE  SlabOK(r, g \ {h})
<1>1. SlabShape(s, g)
  BY DEF SlabOK
<1>2. PICK m \in Nat : m + s.count = Size(s) /\ \E order : Order(s, g, m, order)
  BY DEF SlabOK
<1>3. PICK order : Order(s, g, m, order)
  BY <1>2
<1>5. PICK n \in Nat, x \in Nat : x <= n /\ n = Size(s) /\ x = s.head /\ x = order[0]
  <2>1. Size(s) \in Nat /\ 0 \in 0 .. m
    BY <1>1 DEF SlabShape
  <2>2. order[0] \in 0 .. Size(s) /\ order[0] = s.head
    BY <1>3, <2>1 DEF Order
  <2> QED BY <2>1, <2>2
<1>4. h \in 0 .. n - 1 /\ h \in Nat
  BY <1>1, <1>5 DEF SlabShape
<1>6. /\ r.blocks = s.blocks /\ r.head = h /\ r.count = s.count - 1
      /\ r.next = [s.next EXCEPT ![h] = x]
      /\ r = [blocks |-> r.blocks, next |-> r.next, head |-> r.head, count |-> r.count]
  BY <1>1, <1>5 DEF Returned, SlabShape
<1>7. Size(r) = n
  BY <1>5, <1>6 DEF Size
<1>9. PICK f : f = g \ {h}
  OBVIOUS
<1>10. SlabShape(r, f)
  <2>1. r.next \in [0 .. n - 1 -> Int]
        /\ \A i \in 0 .. n - 1 : r.next[i] = IF i = h THEN x ELSE s.next[i]
    BY <1>1, <1>4, <1>5, <1>6 DEF SlabShape
  <2>2. IsFiniteSet(g) /\ s.count = Cardinality(g) /\ g \subseteq 0 .. n - 1
    BY <1>1, <1>5 DEF SlabShape
  <2>3. IsFiniteSet(g \ {h}) /\ Cardinality(g \ {h}) = Cardinality(g) - 1
    BY <2>2, FS_RemoveElement
  <2>4. f \subseteq 0 .. n - 1 /\ IsFiniteSet(f) /\ r.count = Cardinality(f)
    BY <1>5, <1>6, <1>9, <2>2, <2>3
  <2>5. \A i \in 0 .. n - 1 : r.next[i] = NullIndex <=> i \in f
    BY <1>1, <1>5, <1>9, <2>1 DEF SlabShape, NullIndex
  <2>6. r.blocks \in Nat
    BY <1>1, <1>6 DEF SlabShape
  <2> QED BY <1>6, <1>7, <2>1, <2>4, <2>5, <2>6 DEF SlabShape
<1>11. PICK new : new = [a \in 0 .. m + 1 |-> IF a = 0 THEN h ELSE order[a - 1]]
  OBVIOUS
<1>12. Order(r, f, m + 1, new)
  <2>1. new[0] = h /\ \A a \in 0 .. m : new[a + 1] = order[a]
    BY <1>11
  <2>2. /\ order \in [0 .. m -> 0 .. n] /\ order[m] = n
        /\ \A a, b \in 0 .. m : order[a] = order[b] => a = b
        /\ \A a \in 0 .. m - 1 : s.next[order[a]] = order[a + 1]
        /\ \A i \in 0 .. n : i \notin g <=> \E a \in 0 .. m : order[a] = i
    BY <1>3, <1>5 DEF Order
  <2>3. \A a \in 0 .. m : order[a] # h
    BY <1>4, <2>2
  <2>4. new \in [0 .. m + 1 -> 0 .. n] /\ new[m + 1] = n
    BY <1>4, <1>5, <1>11, <2>1, <2>2
  <2>5. \A a, b \in 0 .. m + 1 : new[a] = new[b] => a = b
    <3> SUFFICES ASSUME NEW a \in 0 .. m + 1, NEW b \in 0 .. m + 1, new[a] = new[b] PROVE a = b
      OBVIOUS
    <3>1. CASE a = 0 \/ b = 0
      BY <1>11, <2>3, <3>1
    <3>2. CASE a # 0 /\ b # 0
      <4>1. a - 1 \in 0 .. m /\ b - 1 \in 0 .. m /\ order[a - 1] = order[b - 1]
        BY <1>11, <3>2
      <4>2. a - 1 = b - 1
        BY <2>2, <4>1
      <4> QED BY <4>2
    <3> QED BY <3>1, <3>2
  <2>6. ASSUME NEW a \in 0 .. m + 1 - 1 PROVE r.next[new[a]] = new[a + 1]
    <3>1. CASE a = 0
      <4>1. r.next[h] = x
        BY <1>1, <1>4, <1>5, <1>6 DEF SlabShape
      <4>2. new[a] = h /\ new[a + 1] = order[0]
        BY <2>1, <3>1
      <4> QED BY <1>5, <4>1, <4>2
    <3>2. CASE a # 0
      <4>1. a - 1 \in 0 .. m - 1 /\ a - 1 \in 0 .. m /\ a - 1 + 1 = a /\ a \in 0 .. m /\ m \in 0 .. m
            /\ a - 1 # m
        BY <3>2
      <4>2. new[a] = order[a - 1] /\ new[a + 1] = order[a]
        BY <2>1, <4>1
      <4>3. order[a - 1] # h /\ order[a - 1] # n /\ order[a - 1] \in 0 .. n
        BY <2>2, <2>3, <4>1
      <4>4. r.next[order[a - 1]] = s.next[order[a - 1]]
        BY <1>1, <1>4, <1>5, <1>6, <4>3 DEF SlabShape
      <4>5. s.next[order[a - 1]] = order[a]
        BY <2>2, <4>1
      <4> QED BY <4>2, <4>4, <4>5, Zenon
    <3> QED BY <3>1, <3>2
  <2>7. ASSUME NEW i \in 0 .. n PROVE i \notin f <=> \E a \in 0 .. m + 1 : new[a] = i
    <3>1. ASSUME i \notin f PROVE \E a \in 0 .. m + 1 : new[a] = i
      <4>1. CASE i = h
        BY <2>1, <4>1
      <4>2. CASE i # h
        <5>1. PICK a \in 0 .. m : order[a] = i
          BY <1>9, <2>2, <3>1, <4>2
        <5>2. a + 1 \in 0 .. m + 1 /\ new[a + 1] = i
          BY <2>1, <5>1
        <5> QED BY <5>2
      <4> QED BY <4>1, <4>2
    <3>2. ASSUME NEW a \in 0 .. m + 1, new[a] = i PROVE i \notin f
      <4>1. CASE a = 0
        BY <1>9, <2>1, <3>2, <4>1
      <4>2. CASE a # 0
        <5>1. a - 1 \in 0 .. m /\ order[a - 1] = i
          BY <1>11, <3>2, <4>2
        <5> QED BY <1>9, <2>2, <5>1
      <4> QED BY <4>1, <4>2
    <3> QED BY <3>1, <3>2
  <2> QED BY <1>6, <1>7, <2>1, <2>4, <2>5, <2>6, <2>7 DEF Order
<1>13. m + 1 \in Nat /\ m + 1 + r.count = Size(r)
  <2>1. s.count \in Nat
    BY <1>1, FS_CardinalityType DEF SlabShape
  <2> QED BY <1>2, <1>5, <1>6, <1>7, <2>1
<1>14. SlabOK(r, f)
  BY <1>10, <1>12, <1>13 DEF SlabOK
<1> QED BY <1>9, <1>14

LEMMA SlabStep ==
    ASSUME SlabOK(slab, given), [SlabNext]_<<slab, given>>
    PROVE  SlabOK(slab', given')
<1> PICK s, g, r, f : s = slab /\ g = given /\ r = slab' /\ f = given'
  OBVIOUS
<1>1. SlabOK(s, g)
  OBVIOUS
<1>2. ASSUME Alloc PROVE SlabOK(r, f)
  <2>1. PICK q : q = Roomy(s)
    OBVIOUS
  <2>2. r = Taken(q) /\ f = g \cup {q.head}
    BY <1>2, <2>1, Zenon DEF Alloc, Taken
  <2>3. SlabOK(q, g) /\ q.head # Size(q)
    <3>1. CASE s.head = Size(s)
      <4>1. q = BlockAdded(s)
        BY <2>1, <3>1 DEF Roomy
      <4> QED BY <1>1, <3>1, <4>1, BlockAddedOK
    <3>2. CASE s.head # Size(s)
      <4>1. q = s
        BY <2>1, <3>2 DEF Roomy
      <4> QED BY <1>1, <3>2, <4>1
    <3> QED BY <3>1, <3>2
  <2>4. SlabOK(r, g \cup {q.head})
    BY <2>2, <2>3, TakenOK
  <2> QED BY <2>2, <2>4
<1>3. ASSUME NEW i \in given, Free(i) PROVE SlabOK(r, f)
  <2>1. r = Returned(s, i) /\ f = g \ {i} /\ i \in g
    BY <1>3, Zenon DEF Free, Returned
  <2>2. SlabOK(r, g \ {i})
    BY <1>1, <2>1, ReturnedOK
  <2> QED BY <2>1, <2>2
<1>4. ASSUME UNCHANGED <<slab, given>> PROVE SlabOK(r, f)
  BY <1>1, <1>4
<1> QED BY <1>2, <1>3, <1>4 DEF SlabNext

(***************************************************************************)
(* The list of free items, followed from its head.                         *)
(***************************************************************************)
Linking(s) == CHOOSE f : f = [n \in 0 .. Size(s) |->
    IF n = 0 THEN s.head
    ELSE IF f[n - 1] \in DOMAIN s.next THEN s.next[f[n - 1]]
    ELSE f[n - 1]]

LEMMA LinkingFacts ==
    ASSUME NEW s, NEW g, SlabOK(s, g)
    PROVE  {Linking(s)[n] : n \in 0 .. Size(s)} = (0 .. Size(s)) \ g
<1>1. SlabShape(s, g)
  BY DEF SlabOK
<1>2. PICK m \in Nat : m + s.count = Size(s) /\ \E order : Order(s, g, m, order)
  BY DEF SlabOK
<1>3. PICK order : Order(s, g, m, order)
  BY <1>2
<1>4. PICK size \in Nat : size = Size(s) /\ m <= size
  <2>1. s.count \in Nat /\ Size(s) \in Nat
    BY <1>1, FS_CardinalityType DEF SlabShape
  <2> QED BY <1>2, <2>1
<1>5. /\ order \in [0 .. m -> 0 .. size] /\ order[0] = s.head /\ order[m] = size
      /\ \A a, b \in 0 .. m : order[a] = order[b] => a = b
      /\ \A a \in 0 .. m - 1 : s.next[order[a]] = order[a + 1]
      /\ \A i \in 0 .. size : i \notin g <=> \E a \in 0 .. m : order[a] = i
  BY <1>3, <1>4 DEF Order
<1>6. DOMAIN s.next = 0 .. size - 1
  BY <1>1, <1>4 DEF SlabShape
<1> DEFINE Follow(x) == IF x \in DOMAIN s.next THEN s.next[x] ELSE x
<1>7. PICK w : w = [n \in 0 .. size |-> order[IF n <= m THEN n ELSE m]]
  OBVIOUS
<1>8. w[0] = s.head /\ \A n \in 1 .. size : w[n] = Follow(w[n - 1])
  <2>1. w[0] = s.head
    BY <1>4, <1>5, <1>7
  <2>2. ASSUME NEW n \in 1 .. size, n <= m PROVE w[n] = Follow(w[n - 1])
    <3>1. n - 1 \in 0 .. m - 1 /\ n - 1 \in 0 .. m /\ n - 1 + 1 = n /\ m \in 0 .. m /\ n - 1 # m
          /\ n \in 0 .. size /\ n - 1 \in 0 .. size /\ n - 1 <= m
      BY <1>4, <2>2
    <3>2. w[n] = order[n] /\ w[n - 1] = order[n - 1]
      BY <1>7, <2>2, <3>1
    <3>3. order[n - 1] # size /\ order[n - 1] \in 0 .. size
      BY <1>5, <3>1
    <3>4. order[n - 1] \in DOMAIN s.next
      BY <1>6, <3>3
    <3>5. s.next[order[n - 1]] = order[n]
      BY <1>5, <3>1
    <3> QED BY <3>2, <3>4, <3>5
  <2>3. ASSUME NEW n \in 1 .. size, n > m PROVE w[n] = Follow(w[n - 1])
    <3>1. n \in 0 .. size /\ n - 1 \in 0 .. size /\ ~ (n <= m) /\ (n - 1 <= m => n - 1 = m)
      BY <1>4, <2>3
    <3>2. w[n] = size /\ w[n - 1] = size
      BY <1>5, <1>7, <3>1
    <3>3. size \notin DOMAIN s.next
      BY <1>6
    <3> QED BY <3>2, <3>3
  <2> QED BY <2>1, <2>2, <2>3
<1>9. w = [n \in 0 .. size |-> IF n = 0 THEN s.head ELSE Follow(w[n - 1])]
  <2>1. \A n \in 0 .. size : n # 0 => n \in 1 .. size
    OBVIOUS
  <2>2. \A n \in 0 .. size : w[n] = IF n = 0 THEN s.head ELSE Follow(w[n - 1])
    BY <1>8, <2>1
  <2>3. w = [n \in 0 .. size |-> w[n]]
    BY <1>7
  <2> HIDE DEF Follow
  <2> QED BY <2>2, <2>3
<1>10. PICK f : f = Linking(s)
  OBVIOUS
<1>11. f = [n \in 0 .. size |-> IF n = 0 THEN s.head ELSE Follow(f[n - 1])]
  BY <1>4, <1>9, <1>10, Zenon DEF Linking
<1> HIDE DEF Follow
<1> DEFINE Good == {n \in Nat : n <= size => f[n] = w[n]}
<1>12. 0 \in Good
  BY <1>8, <1>11
<1>13. ASSUME NEW n \in Nat, n \in Good PROVE n + 1 \in Good
  BY <1>8, <1>11, <1>13
<1> HIDE DEF Good
<1>14. \A n \in Nat : n \in Good
  BY <1>12, <1>13, N!SetInduction
<1>15. \A n \in 0 .. size : f[n] = order[IF n <= m THEN n ELSE m]
  BY <1>7, <1>14 DEF Good
<1>16. ASSUME NEW i \in (0 .. size) \ g PROVE \E n \in 0 .. size : f[n] = i
  <2>1. PICK a \in 0 .. m : order[a] = i
    BY <1>5
  <2>2. a \in 0 .. size /\ a <= m
    BY <1>4
  <2> QED BY <1>15, <2>1, <2>2
<1>17. ASSUME NEW n \in 0 .. size PROVE f[n] \in (0 .. size) \ g
  <2>1. PICK a \in 0 .. m : f[n] = order[a]
    BY <1>15
  <2>2. order[a] \in 0 .. size
    BY <1>5
  <2> QED BY <1>5, <2>1, <2>2
<1>18. {f[n] : n \in 0 .. size} = (0 .. size) \ g
  BY <1>16, <1>17
<1> QED BY <1>4, <1>10, <1>18

(***************************************************************************)
(* The walk over the slab.                                                 *)
(***************************************************************************)
Further(s, x) == IF x = NullIndex THEN NullIndex ELSE SlabScan(s, x + 1)

Visiting(s) == CHOOSE f : f = [n \in 1 .. Size(s) |->
    IF n = 1 THEN SlabScan(s, 0)
    ELSE IF f[n - 1] = NullIndex THEN NullIndex
    ELSE SlabScan(s, f[n - 1] + 1)]

LEMMA VisitedIs ==
    ASSUME NEW s
    PROVE  Visited(s) = {Visiting(s)[n] : n \in 1 .. Size(s)} \ {NullIndex}
BY Zenon DEF Visited, Visiting

LEMMA SlabScanFacts ==
    ASSUME NEW s, NEW g, SlabShape(s, g), NEW b \in Nat, NEW x, x = SlabScan(s, b)
    PROVE  \/ x = NullIndex /\ \A i \in g : i < b
           \/ x \in g /\ x >= b /\ \A i \in g : i >= b => x <= i
<1> DEFINE marked == {i \in b .. Size(s) - 1 : s.next[i] = NullIndex}
<1>1. Size(s) \in Nat /\ marked \in SUBSET Nat
  BY DEF SlabShape
<1>2. \A i : i \in marked <=> i \in g /\ i >= b
  BY <1>1 DEF SlabShape
<1>3. x = IF marked = {} THEN NullIndex ELSE Min(marked)
  BY DEF SlabScan
<1> HIDE DEF marked
<1>4. CASE marked = {}
  <2>1. \A i \in g : i \in Nat
    BY <1>1 DEF SlabShape
  <2> QED BY <1>2, <1>3, <1>4, <2>1
<1>5. CASE marked # {}
  <2>1. \E i \in marked : \A j \in marked : i <= j
    BY <1>1, <1>5, N!LeastNumber
  <2>2. x \in marked /\ \A j \in marked : x <= j
    BY <1>3, <1>5, <2>1 DEF Min
  <2> QED BY <1>2, <2>2
<1> QED BY <1>4, <1>5

LEMMA VisitingRounds ==
    ASSUME NEW s, NEW g, SlabShape(s, g), NEW f, f = Visiting(s)
    PROVE  \A n \in 1 .. Size(s) : f[n] = IF n = 1 THEN SlabScan(s, 0) ELSE Further(s, f[n - 1])
<1>1. PICK size \in Nat : size = Size(s)
  BY DEF SlabShape
<1> DEFINE D == 0 .. size - 1
           X == {NullIndex} \cup g
           F == [i \in D |-> [x \in X |-> Further(s, x)]]
<1>2. g \subseteq Nat
  BY DEF SlabShape
<1>3. SlabScan(s, 0) \in X
  BY SlabScanFacts
<1>4. ASSUME NEW x \in X PROVE Further(s, x) \in X
  <2>0. x # NullIndex => x \in Nat
    BY <1>2, <1>4
  <2>1. x # NullIndex => x + 1 \in Nat
    BY <2>0
  <2>2. x # NullIndex => SlabScan(s, x + 1) \in X
    BY <2>1, SlabScanFacts
  <2> QED BY <2>2 DEF Further
<1>5. F \in [D -> [X -> X]]
  BY <1>4
<1>6. N!Downward(D)
  BY DEF N!Downward
<1> HIDE DEF F, X
<1>7. PICK h \in [D -> X] : N!Loop(h, D, SlabScan(s, 0), F)
  BY <1>3, <1>5, <1>6, N!LoopExists
<1>8. \A i \in D : h[i] = IF i = 0 THEN SlabScan(s, 0) ELSE Further(s, h[i - 1])
  <2> TAKE i \in D
  <2>1. h[i] = IF i = 0 THEN SlabScan(s, 0) ELSE F[i][h[i - 1]]
    BY <1>7 DEF N!Loop
  <2>2. i # 0 => i - 1 \in D /\ h[i - 1] \in X
    BY <1>7
  <2>3. i # 0 => F[i][h[i - 1]] = Further(s, h[i - 1])
    BY <2>2 DEF F
  <2> QED BY <2>1, <2>3
<1>9. PICK w : w = [n \in 1 .. size |-> h[n - 1]]
  OBVIOUS
<1>10. w = [n \in 1 .. size |-> IF n = 1 THEN SlabScan(s, 0) ELSE Further(s, w[n - 1])]
  <2>1. ASSUME NEW n \in 1 .. size PROVE w[n] = IF n = 1 THEN SlabScan(s, 0) ELSE Further(s, w[n - 1])
    <3>1. n - 1 \in D /\ w[n] = h[n - 1] /\ (n - 1 = 0 <=> n = 1)
      BY <1>9
    <3>2. n # 1 => n - 1 \in 1 .. size
      OBVIOUS
    <3>3. n # 1 => w[n - 1] = h[n - 1 - 1]
      BY <1>9, <3>2
    <3> QED BY <1>8, <3>1, <3>3
  <2>2. w = [n \in 1 .. size |-> w[n]]
    BY <1>9
  <2> QED BY <2>1, <2>2
<1>11. f = [n \in 1 .. size |-> IF n = 1 THEN SlabScan(s, 0) ELSE Further(s, f[n - 1])]
  BY <1>1, <1>10, Zenon DEF Visiting, Further
<1> QED BY <1>1, <1>11

(* The walk comes to every item that was given, in rising order, and to    *)
(* nothing else.                                                           *)
LEMMA VisitedFacts ==
    ASSUME NEW s, NEW g, SlabShape(s, g)
    PROVE  Visited(s) = g
<1>1. PICK size \in Nat : size = Size(s)
  BY DEF SlabShape
<1>2. PICK f : f = Visiting(s)
  OBVIOUS
<1>3. \A n \in 1 .. size : f[n] = IF n = 1 THEN SlabScan(s, 0) ELSE Further(s, f[n - 1])
  BY <1>1, <1>2, VisitingRounds
<1>4. g \subseteq Nat /\ \A i \in g : i <= size - 1
  BY <1>1 DEF SlabShape
<1> DEFINE Come(i, n) == \E j \in 1 .. n : f[j] = i
           Far(n) == \/ f[n] = NullIndex /\ \A i \in g : Come(i, n)
                     \/ f[n] \in g /\ f[n] >= n - 1 /\ \A i \in g : i <= f[n] => Come(i, n)
           Good == {n \in Nat : n + 1 <= size => Far(n + 1)}
<1>5. 0 \in Good
  <2> SUFFICES ASSUME 1 <= size PROVE Far(1)
    OBVIOUS
  <2>1. f[1] = SlabScan(s, 0)
    BY <1>3
  <2>2. \/ f[1] = NullIndex /\ \A i \in g : i < 0
        \/ f[1] \in g /\ f[1] >= 0 /\ \A i \in g : i >= 0 => f[1] <= i
    BY <2>1, SlabScanFacts
  <2>3. PICK x : x = f[1]
    OBVIOUS
  <2>4. \A i \in g : x \in g /\ x <= i /\ i <= x => i = x
    <3>1. \A i \in g : i \in Nat
      BY <1>4
    <3> QED BY <3>1
  <2> QED BY <1>4, <2>2, <2>3, <2>4
<1>6. ASSUME NEW n \in Nat, n \in Good PROVE n + 1 \in Good
  <2> SUFFICES ASSUME n + 1 + 1 <= size PROVE Far(n + 1 + 1)
    OBVIOUS
  <2>1. PICK c, p : c = f[n + 1] /\ p = f[n + 1 + 1]
    OBVIOUS
  <2>2. n + 1 + 1 \in 1 .. size /\ n + 1 + 1 - 1 = n + 1 /\ n + 1 + 1 # 1
    OBVIOUS
  <2>3. p = Further(s, c)
    BY <1>3, <2>1, <2>2
  <2>4. Far(n + 1)
    BY <1>6
  <2>5. \A i : Come(i, n + 1 + 1) <=> Come(i, n + 1) \/ i = p
    <3>1. \A j : j \in 1 .. n + 1 + 1 <=> j \in 1 .. n + 1 \/ j = n + 1 + 1
      OBVIOUS
    <3> QED BY <2>1, <3>1
  <2>6. \/ c = NullIndex /\ \A i \in g : Come(i, n + 1)
        \/ c \in g /\ c >= n /\ \A i \in g : i <= c => Come(i, n + 1)
    BY <2>1, <2>4
  <2> HIDE DEF Come
  <2>7. CASE c = NullIndex /\ \A i \in g : Come(i, n + 1)
    <3>1. p = NullIndex
      BY <2>3, <2>7 DEF Further
    <3> QED BY <2>1, <2>5, <2>7, <3>1
  <2>8. CASE c \in g /\ c >= n /\ \A i \in g : i <= c => Come(i, n + 1)
    <3>1. c \in Nat /\ c # NullIndex /\ c + 1 \in Nat
      BY <1>4, <2>8 DEF NullIndex
    <3>2. p = SlabScan(s, c + 1)
      BY <2>3, <3>1 DEF Further
    <3>3. \/ p = NullIndex /\ \A i \in g : i < c + 1
          \/ p \in g /\ p >= c + 1 /\ \A i \in g : i >= c + 1 => p <= i
      BY <3>1, <3>2, SlabScanFacts
    <3>4. CASE p = NullIndex /\ \A i \in g : i < c + 1
      <4>1. \A i \in g : i <= c
        BY <1>4, <3>1, <3>4
      <4> QED BY <2>1, <2>5, <2>8, <3>4, <4>1
    <3>5. CASE p \in g /\ p >= c + 1 /\ \A i \in g : i >= c + 1 => p <= i
      <4>1. p \in Nat /\ p >= n + 1
        BY <1>4, <2>8, <3>1, <3>5
      <4>2. ASSUME NEW i \in g, i <= p PROVE i <= c \/ i = p
        BY <1>4, <3>1, <3>5, <4>1, <4>2
      <4>3. \A i \in g : i <= p => Come(i, n + 1 + 1)
        BY <2>5, <2>8, <4>2
      <4>4. p >= n + 1 + 1 - 1
        BY <4>1
      <4> QED BY <2>1, <3>5, <4>3, <4>4
    <3> QED BY <3>3, <3>4, <3>5
  <2> QED BY <2>6, <2>7, <2>8
<1>7. \A n \in Nat : n \in Good
  <2> HIDE DEF Good
  <2> QED BY <1>5, <1>6, N!SetInduction
<1>8. \A n \in 1 .. size : Far(n)
  <2> TAKE n \in 1 .. size
  <2>1. n - 1 \in Nat /\ n - 1 + 1 = n
    OBVIOUS
  <2>2. n - 1 \in Good
    BY <1>7, <2>1
  <2> HIDE DEF Far
  <2> QED BY <2>1, <2>2
<1>9. \A n \in 1 .. size : f[n] = NullIndex \/ f[n] \in g
  BY <1>8
<1>10. ASSUME NEW i \in g PROVE Come(i, size)
  <2>1. size \in 1 .. size /\ i <= size - 1 /\ i \in Nat
    BY <1>4
  <2>2. Far(size)
    BY <1>8, <2>1
  <2>3. \/ \A j \in g : Come(j, size)
        \/ f[size] \in g /\ f[size] >= size - 1 /\ \A j \in g : j <= f[size] => Come(j, size)
    BY <2>2
  <2> HIDE DEF Come
  <2>4. f[size] \in g /\ f[size] >= size - 1 => i <= f[size]
    <3>1. PICK x : x = f[size]
      OBVIOUS
    <3>2. x \in g => x \in Nat
      BY <1>4
    <3>3. x \in Nat /\ x >= size - 1 => i <= x
      BY <2>1
    <3> QED BY <3>1, <3>2, <3>3
  <2> QED BY <2>3, <2>4
<1>11. NullIndex \notin g
  BY <1>4 DEF NullIndex
<1>12. {f[n] : n \in 1 .. size} \ {NullIndex} = g
  BY <1>9, <1>10, <1>11
<1> QED BY <1>1, <1>2, <1>12, VisitedIs

(* Whatever is allocated and freed, in any order: the free list goes once  *)
(* through the items that no client has, a walk comes to those that        *)
(* clients have, and the count is theirs.                                  *)
THEOREM SlabExact == SlabSpec => []ItemsExact
<1>1. SlabInit => SlabOK(slab, given)
  BY EmptySlab
<1>2. SlabOK(slab, given) /\ [SlabNext]_<<slab, given>> => SlabOK(slab, given)'
  BY SlabStep
<1>3. SlabOK(slab, given) => ItemsExact
  <2> SUFFICES ASSUME SlabOK(slab, given) PROVE ItemsExact
    OBVIOUS
  <2>1. {Linking(slab)[n] : n \in 0 .. Size(slab)} = (0 .. Size(slab)) \ given
    BY LinkingFacts
  <2>2. Visited(slab) = given /\ slab.count = Cardinality(given)
    BY VisitedFacts DEF SlabOK, SlabShape
  <2> QED BY <2>1, <2>2, Zenon DEF ItemsExact, Linking
<1> QED BY <1>1, <1>2, <1>3, PTL DEF SlabSpec

-----------------------------------------------------------------------------
(***************************************************************************)
(* The vector.  Bytes are counted in elements: byte b is of the element    *)
(* b \div width.                                                           *)
(***************************************************************************)
LEMMA Quotient ==
    ASSUME NEW w \in Nat, w > 0, NEW b \in Nat
    PROVE  /\ b \div w \in Nat
           /\ \A i \in Nat : b < i * w <=> b \div w < i
           /\ \A i \in Nat : (b + i * w) \div w = (b \div w) + i
<1>1. PICK q, r : q = b \div w /\ r = b % w
  OBVIOUS
<1>2. q \in Int /\ r \in 0 .. w - 1 /\ b = w * q + r
  BY <1>1, SMT
<1>3. q >= 0
  <2> SUFFICES ASSUME q <= -1 PROVE FALSE
    BY <1>2
  <2>1. w * q <= 0 - w
    BY <1>2, SMT
  <2> QED BY <1>2, <2>1, SMT
<1>4. ASSUME NEW i \in Nat PROVE b < i * w <=> q < i
  <2>1. CASE q < i
    <3>1. w * (q + 1) <= w * i
      BY <1>2, <2>1, SMT
    <3>2. w * (q + 1) = w * q + w /\ w * i = i * w
      BY <1>2, SMT
    <3> QED BY <1>2, <2>1, <3>1, <3>2, SMT
  <2>2. CASE q >= i
    <3>1. w * q >= w * i /\ w * i = i * w
      BY <1>2, <2>2, SMT
    <3> QED BY <1>2, <2>2, <3>1, SMT
  <2> QED BY <1>2, <2>1, <2>2
<1>5. ASSUME NEW i \in Nat PROVE (b + i * w) \div w = q + i
  <2>1. PICK c, p, s : c = b + i * w /\ p = c \div w /\ s = c % w
    OBVIOUS
  <2>2. c \in Int
    BY <1>2, <2>1, SMT
  <2>3. p \in Int /\ s \in 0 .. w - 1 /\ c = w * p + s
    BY <2>1, <2>2, SMT
  <2>4. w * p + s = w * (q + i) + r
    <3>1. w * (q + i) = w * q + i * w
      BY <1>2, SMT
    <3> QED BY <1>2, <2>1, <2>3, <3>1, SMT
  <2>5. p = q + i
    <3>1. CASE p < q + i
      <4>1. w * (q + i - p) >= w
        BY <1>2, <2>3, <3>1, SMT
      <4>2. w * (q + i - p) = w * (q + i) - w * p
        BY <1>2, <2>3, SMT
      <4> QED BY <1>2, <2>3, <2>4, <4>1, <4>2, SMT
    <3>2. CASE p > q + i
      <4>1. w * (p - (q + i)) >= w
        BY <1>2, <2>3, <3>2, SMT
      <4>2. w * (p - (q + i)) = w * p - w * (q + i)
        BY <1>2, <2>3, SMT
      <4> QED BY <1>2, <2>3, <2>4, <4>1, <4>2, SMT
    <3> QED BY <1>2, <2>3, <3>1, <3>2
  <2> QED BY <2>1, <2>5
<1> QED BY <1>1, <1>2, <1>3, <1>4, <1>5

(* Lists, and what a byte of them is.                                      *)
Lists == Seq({0, 1})

(* t is l with the elements after the first i and up to the j-th replaced  *)
(* by s.                                                                   *)
Spliced(t, l, i, j, s) ==
    /\ Len(t) = i + Len(s) + Len(l) - j
    /\ \A e \in 1 .. Len(t) : t[e] = IF e <= i THEN l[e]
                                     ELSE IF e <= i + Len(s) THEN s[e - i]
                                     ELSE l[e - (i + Len(s)) + j]

(* The same of bytes.                                                      *)
Shuffled(x, y, w, n, i, j, m, s) ==
    \A b \in 0 .. n * w - 1 :
        x[b] = IF b < i * w THEN y[b]
               ELSE IF b < (i + m) * w THEN s[(b \div w) - i + 1]
               ELSE y[b - (i + m) * w + j * w]

Whole(x, w, l) == \A b \in 0 .. Len(l) * w - 1 : x[b] = l[(b \div w) + 1]

LEMMA Products ==
    ASSUME NEW w \in Nat, NEW a \in Nat, NEW b \in Nat
    PROVE  (a + b) * w = a * w + b * w /\ a * w \in Nat
BY SMT

LEMMA ShuffledWhole ==
    ASSUME NEW w \in Nat, w > 0, NEW l \in Lists, NEW s \in Lists, NEW t \in Lists,
           NEW j \in 0 .. Len(l), NEW i \in 0 .. j, Spliced(t, l, i, j, s),
           NEW x, NEW y, Whole(y, w, l), Shuffled(x, y, w, Len(t), i, j, Len(s), s)
    PROVE  Whole(x, w, t)
<1>1. PICK n \in Nat, m \in Nat, k \in Nat : n = Len(t) /\ m = Len(s) /\ k = Len(l) /\ i \in Nat /\ j \in Nat
  OBVIOUS
<1>2. ASSUME NEW b \in 0 .. n * w - 1 PROVE x[b] = t[(b \div w) + 1]
  <2>1. n * w \in Nat /\ b \in Nat /\ b < n * w
    BY <1>1, Products, SMT
  <2>2. PICK q \in Nat : q = b \div w /\ \A c \in Nat : b < c * w <=> q < c
    BY <2>1, Quotient
  <2>3. q < n /\ q + 1 \in 1 .. n /\ i + m \in Nat
    BY <1>1, <2>1, <2>2
  <2>4. x[b] = IF q < i THEN y[b] ELSE IF q < i + m THEN s[q - i + 1] ELSE y[b - (i + m) * w + j * w]
    BY <1>1, <1>2, <2>2, <2>3 DEF Shuffled
  <2>5. t[q + 1] = IF q + 1 <= i THEN l[q + 1]
                   ELSE IF q + 1 <= i + m THEN s[q + 1 - i] ELSE l[q + 1 - (i + m) + j]
    BY <1>1, <2>3 DEF Spliced
  <2>6. n = i + m + k - j /\ j <= k /\ i <= j
    <3>1. Len(t) = i + Len(s) + Len(l) - j
      BY DEF Spliced
    <3> QED BY <1>1, <3>1
  <2>7. k * w \in Nat /\ \A c \in Nat : c < k * w => y[c] = l[(c \div w) + 1]
    <3>1. k * w \in Nat
      BY <1>1, Products
    <3>2. \A c \in Nat : c < k * w => c \in 0 .. k * w - 1
      BY <3>1
    <3> QED BY <1>1, <3>1, <3>2 DEF Whole
  <2>8. CASE q < i
    <3>1. b < k * w
      BY <1>1, <2>2, <2>6, <2>8
    <3> QED BY <1>1, <2>1, <2>2, <2>4, <2>5, <2>7, <2>8, <3>1
  <2>9. CASE q >= i /\ q < i + m
    BY <1>1, <2>2, <2>4, <2>5, <2>9
  <2>10. CASE q >= i + m
    <3>1. PICK c : c = b - (i + m) * w
      OBVIOUS
    <3>0. PICK u \in Nat : u = i + m
      BY <1>1
    <3>2. (i + m) * w \in Nat /\ ~ (b < (i + m) * w)
      <4>1. u * w \in Nat
        BY Products
      <4>2. b < u * w <=> q < u
        BY <2>2
      <4> QED BY <2>10, <3>0, <4>1, <4>2
    <3>3. c \in Nat /\ c + (i + m) * w = b
      BY <2>1, <3>1, <3>2
    <3>4. PICK p \in Nat : p = c \div w /\ (c + (i + m) * w) \div w = p + (i + m)
                           /\ (c + j * w) \div w = p + j
      <4>1. c \div w \in Nat /\ (c + u * w) \div w = (c \div w) + u /\ (c + j * w) \div w = (c \div w) + j
        BY <1>1, <3>3, Quotient
      <4> QED BY <3>0, <4>1
    <3>5. q = p + (i + m)
      BY <2>2, <3>3, <3>4
    <3>6. PICK d : d = c + j * w
      OBVIOUS
    <3>7. d \in Nat /\ d \div w = p + j
      BY <1>1, <3>3, <3>4, <3>6, Products
    <3>8. d < k * w
      <4>1. p + j < k
        BY <1>1, <2>3, <2>6, <3>5
      <4>2. d < k * w <=> p + j < k
        <5>1. d < k * w <=> d \div w < k
          BY <1>1, <3>7, Quotient
        <5> QED BY <3>7, <5>1
      <4> QED BY <4>1, <4>2
    <3>9. y[d] = l[p + j + 1]
      BY <2>7, <3>7, <3>8
    <3>10. x[b] = y[d]
      BY <1>1, <2>3, <2>4, <2>10, <3>1, <3>6
    <3>11. t[q + 1] = l[q + 1 - (i + m) + j]
      BY <1>1, <2>5, <2>10
    <3>12. q + 1 - (i + m) + j = p + j + 1
      BY <1>1, <2>3, <3>5
    <3> QED BY <2>2, <3>9, <3>10, <3>11, <3>12
  <2> QED BY <1>1, <2>3, <2>8, <2>9, <2>10
<1> QED BY <1>1, <1>2 DEF Whole

(* Lists are spliced as the operations say.                                *)
Starts(x, l, i) == Len(x) = i /\ \A e \in 1 .. i : x[e] = l[e]
Closes(y, l, i) == Len(y) = Len(l) - i /\ \A e \in 1 .. Len(l) - i : y[e] = l[e + i]

LEMMA PartFacts ==
    ASSUME NEW l \in Lists, NEW n \in Nat, Len(l) = n, NEW i \in Nat, i <= n
    PROVE  /\ Before(l, i) \in Lists /\ Starts(Before(l, i), l, i)
           /\ After(l, i) \in Lists /\ Closes(After(l, i), l, i)
<1>2. Before(l, i) \in Lists /\ Len(Before(l, i)) = i /\ \A e \in 1 .. i : Before(l, i)[e] = l[e]
  BY DEF Before, Lists
<1>3. After(l, i) \in Lists /\ Len(After(l, i)) = n - i /\ \A e \in 1 .. n - i : After(l, i)[e] = l[e + i]
  BY DEF After, Lists
<1> QED BY <1>2, <1>3 DEF Starts, Closes

(* The sequence z is x, of a elements, and then y, of b.                   *)
Joins(z, x, y, a, b) ==
    Len(z) = a + b /\ \A e \in 1 .. a + b : z[e] = IF e <= a THEN x[e] ELSE y[e - a]

LEMMA Joined ==
    ASSUME NEW x \in Lists, NEW y \in Lists
    PROVE  x \o y \in Lists /\ Joins(x \o y, x, y, Len(x), Len(y))
BY DEF Lists, Joins

LEMMA ListFacts ==
    /\ \A l \in Lists : Len(l) \in Nat
    /\ <<>> \in Lists /\ Len(<<>>) = 0
    /\ \A x \in {0, 1} : <<x>> \in Lists /\ Len(<<x>>) = 1 /\ <<x>>[1] = x
BY DEF Lists

LEMMA PutTogether ==
    ASSUME NEW l, NEW n \in Nat, Len(l) = n, NEW i \in Nat, NEW j \in Nat, j <= n,
           NEW s, NEW m \in Nat, Len(s) = m, NEW x, NEW y, NEW z, NEW t,
           Starts(x, l, i), Closes(y, l, j), Joins(z, x, s, i, m), Joins(t, z, y, i + m, n - j)
    PROVE  Spliced(t, l, i, j, s)
<1>1. Len(t) = i + m + n - j
  BY DEF Joins
<1>2. ASSUME NEW e \in 1 .. i + m + n - j
      PROVE  t[e] = IF e <= i THEN l[e] ELSE IF e <= i + m THEN s[e - i] ELSE l[e - (i + m) + j]
  <2>1. e \in Nat /\ e >= 1 /\ e \in 1 .. i + m + (n - j)
    OBVIOUS
  <2>2. t[e] = IF e <= i + m THEN z[e] ELSE y[e - (i + m)]
    BY <2>1 DEF Joins
  <2>3. CASE e <= i
    <3>1. e \in 1 .. i /\ e \in 1 .. i + m /\ e <= i + m
      BY <2>1, <2>3
    <3>2. z[e] = x[e] /\ x[e] = l[e]
      BY <2>3, <3>1 DEF Joins, Starts
    <3> QED BY <2>2, <2>3, <3>1, <3>2
  <2>4. CASE ~ (e <= i) /\ e <= i + m
    <3>1. e \in 1 .. i + m
      BY <2>1, <2>4
    <3>2. z[e] = s[e - i]
      BY <2>4, <3>1 DEF Joins
    <3> QED BY <2>2, <2>4, <3>2
  <2>5. CASE ~ (e <= i) /\ ~ (e <= i + m)
    <3>1. PICK d : d = e - (i + m)
      OBVIOUS
    <3>2. d \in 1 .. n - j
      BY <2>1, <2>5, <3>1
    <3>3. y[d] = l[d + j]
      BY <3>2 DEF Closes
    <3> QED BY <2>2, <2>5, <3>1, <3>3
  <2>6. ~ (e <= i + m) => ~ (e <= i)
    BY <2>1
  <2> QED BY <2>3, <2>4, <2>5, <2>6
<1> QED BY <1>1, <1>2 DEF Spliced

LEMMA InsertSplices ==
    ASSUME NEW l \in Lists, NEW n \in Nat, Len(l) = n, NEW i \in Nat, i <= n, NEW s \in Lists,
           NEW t, t = Before(l, i) \o s \o After(l, i)
    PROVE  t \in Lists /\ Spliced(t, l, i, i, s)
<1>1. PICK m \in Nat : Len(s) = m
  BY ListFacts
<1>2. PICK x \in Lists : x = Before(l, i) /\ Starts(x, l, i)
  BY PartFacts
<1>3. PICK y \in Lists : y = After(l, i) /\ Closes(y, l, i)
  BY PartFacts
<1>4. Len(x) = i /\ Len(y) = n - i
  BY <1>2, <1>3 DEF Starts, Closes
<1>5. PICK z \in Lists : z = x \o s /\ Joins(z, x, s, i, m)
  BY <1>1, <1>4, Joined, Zenon
<1>6. Len(z) = i + m
  BY <1>5 DEF Joins
<1>7. t = z \o y
  BY <1>2, <1>3, <1>5, Zenon
<1>8. t \in Lists /\ Joins(t, z, y, i + m, n - i)
  BY <1>4, <1>6, <1>7, Joined, Zenon
<1> QED BY <1>1, <1>2, <1>3, <1>5, <1>8, PutTogether, Zenon

LEMMA DeleteSplices ==
    ASSUME NEW l \in Lists, NEW n \in Nat, Len(l) = n, NEW j \in Nat, j <= n, NEW i \in Nat, i <= j,
           NEW t, t = Before(l, i) \o After(l, j)
    PROVE  t \in Lists /\ Spliced(t, l, i, j, <<>>)
<1>1. i <= n
  OBVIOUS
<1>2. PICK x \in Lists : x = Before(l, i) /\ Starts(x, l, i)
  BY <1>1, PartFacts
<1>3. PICK y \in Lists : y = After(l, j) /\ Closes(y, l, j)
  BY PartFacts
<1>4. Len(x) = i /\ Len(y) = n - j
  BY <1>2, <1>3 DEF Starts, Closes
<1>5. PICK s \in Lists : s = <<>> /\ Len(s) = 0
  BY ListFacts
<1>6. Joins(x, x, s, i, 0)
  BY <1>4 DEF Joins
<1>7. t \in Lists /\ Joins(t, x, y, i, n - j)
  BY <1>2, <1>3, <1>4, Joined, Zenon
<1>8. i + 0 = i /\ 0 \in Nat
  OBVIOUS
<1>9. Joins(t, x, y, i + 0, n - j)
  BY <1>7, <1>8, Zenon
<1>10. Spliced(t, l, i, j, s)
  BY <1>2, <1>3, <1>5, <1>6, <1>8, <1>9, PutTogether, Zenon
<1> QED BY <1>5, <1>7, <1>10

LEMMA PushSplices ==
    ASSUME NEW l \in Lists, NEW x \in {0, 1}, NEW t, t = Append(l, x)
    PROVE  t \in Lists /\ Spliced(t, l, Len(l), Len(l), <<x>>)
<1>1. PICK n \in Nat : n = Len(l)
  BY ListFacts
<1>2. t \in Lists /\ Len(t) = n + 1 /\ \A e \in 1 .. n + 1 : t[e] = IF e <= n THEN l[e] ELSE x
  BY <1>1 DEF Lists
<1>3. ASSUME NEW e \in 1 .. n + 1
      PROVE  t[e] = IF e <= n THEN l[e] ELSE IF e <= n + 1 THEN <<x>>[e - n] ELSE l[e - (n + 1) + n]
  <2>1. e <= n \/ e - n = 1
    BY <1>1
  <2> QED BY <1>2, <2>1, ListFacts
<1>4. Len(t) = n + Len(<<x>>) + Len(l) - n
  BY <1>1, <1>2, ListFacts
<1>5. Len(<<x>>) = 1
  BY ListFacts
<1> QED BY <1>1, <1>2, <1>3, <1>4, <1>5 DEF Spliced

LEMMA PopSplices ==
    ASSUME NEW l \in Lists, Len(l) > 0, NEW t, t = Before(l, Len(l) - 1)
    PROVE  t \in Lists /\ Spliced(t, l, Len(l) - 1, Len(l), <<>>)
<1>1. PICK n \in Nat : n = Len(l) /\ n > 0
  BY ListFacts
<1>2. t \in Lists /\ Len(t) = n - 1 /\ \A e \in 1 .. n - 1 : t[e] = l[e]
  <2>1. n - 1 \in 0 .. Len(l)
    BY <1>1
  <2>2. t \in Lists /\ Starts(t, l, n - 1)
    BY <1>1, <2>1, PartFacts
  <2> QED BY <2>2 DEF Starts
<1>3. n - 1 + Len(<<>>) = n - 1
  BY <1>1, ListFacts
<1>4. Len(t) = n - 1 + Len(<<>>) + Len(l) - n
  BY <1>1, <1>2, <1>3
<1>5. ASSUME NEW e \in 1 .. Len(t)
      PROVE  t[e] = IF e <= n - 1 THEN l[e] ELSE IF e <= n - 1 + Len(<<>>) THEN <<>>[e - (n - 1)]
                    ELSE l[e - (n - 1 + Len(<<>>)) + n]
  BY <1>1, <1>2
<1> QED BY <1>1, <1>2, <1>4, <1>5 DEF Spliced

(***************************************************************************)
(* The operations.  A vector is good if its bytes are those of its list.   *)
(***************************************************************************)
IsVector(v) ==
    /\ v = [width |-> v.width, count |-> v.count, cap |-> v.cap, room |-> v.room,
            data |-> v.data, list |-> v.list, intact |-> v.intact]
    /\ v.width \in Nat /\ v.width > 0 /\ v.cap \in Nat
    /\ v.count \in Nat /\ v.count <= v.cap

Good(v) == IsVector(v) /\ v.list \in Lists /\ Len(v.list) = v.count /\ Whole(v.data, v.width, v.list)

(* All but the bytes is as in v.                                           *)
Resized(u, v, n) ==
    IsVector(u) /\ u.width = v.width /\ u.count = n /\ u.list = v.list

(* Twice as often as it takes is at least as much as is needed.            *)
Twice(c, d) == CHOOSE f : f = [k \in 0 .. d |-> IF k = 0 THEN Max({c * 2, 4}) ELSE 2 * f[k - 1]]

LEMMA TwiceFacts ==
    ASSUME NEW c \in Nat, NEW d \in Nat, NEW f, f = Twice(c, d)
    PROVE  \A k \in 0 .. d : f[k] \in Nat /\ f[k] >= c * 2 + k
<1>1. PICK m \in Nat : m = Max({c * 2, 4}) /\ m >= c * 2 /\ m >= 4
  <2>1. PICK m \in {c * 2, 4} : \A n \in {c * 2, 4} : m >= n
    OBVIOUS
  <2>2. Max({c * 2, 4}) \in {c * 2, 4} /\ \A n \in {c * 2, 4} : Max({c * 2, 4}) >= n
    BY <2>1, Zenon DEF Max
  <2> QED BY <2>2
<1> DEFINE D == 0 .. d
           F == [i \in D |-> [x \in Nat |-> 2 * x]]
<1>2. F \in [D -> [Nat -> Nat]] /\ N!Downward(D)
  BY DEF N!Downward
<1> HIDE DEF F
<1>3. PICK g \in [D -> Nat] : N!Loop(g, D, m, F)
  BY <1>2, N!LoopExists
<1>4. g = [k \in D |-> IF k = 0 THEN m ELSE 2 * g[k - 1]]
  <2>1. ASSUME NEW k \in D PROVE g[k] = IF k = 0 THEN m ELSE 2 * g[k - 1]
    <3>1. g[k] = IF k = 0 THEN m ELSE F[k][g[k - 1]]
      BY <1>3 DEF N!Loop
    <3>2. k # 0 => g[k - 1] \in Nat
      <4>1. k # 0 => k - 1 \in D
        OBVIOUS
      <4> QED BY <1>3, <4>1
    <3>3. k # 0 => F[k][g[k - 1]] = 2 * g[k - 1]
      BY <3>2 DEF F
    <3> QED BY <3>1, <3>3
  <2> QED BY <1>3, <2>1
<1>5. f = [k \in D |-> IF k = 0 THEN m ELSE 2 * f[k - 1]]
  BY <1>1, <1>4, Zenon DEF Twice
<1> DEFINE P == {k \in Nat : k <= d => f[k] \in Nat /\ f[k] >= c * 2 + k /\ f[k] >= 4}
<1>6. 0 \in P
  BY <1>1, <1>5
<1>7. ASSUME NEW k \in Nat, k \in P PROVE k + 1 \in P
  <2> SUFFICES ASSUME k + 1 <= d
               PROVE  f[k + 1] \in Nat /\ f[k + 1] >= c * 2 + (k + 1) /\ f[k + 1] >= 4
    OBVIOUS
  <2>1. f[k] \in Nat /\ f[k] >= c * 2 + k /\ f[k] >= 4
    BY <1>7
  <2>2. f[k + 1] = 2 * f[k]
    <3>1. PICK j \in D : j = k + 1 /\ j # 0 /\ j - 1 = k
      OBVIOUS
    <3>2. f[j] = IF j = 0 THEN m ELSE 2 * f[j - 1]
      BY <1>5, Zenon
    <3> QED BY <3>1, <3>2
  <2> QED BY <2>1, <2>2
<1> HIDE DEF P
<1>8. \A k \in Nat : k \in P
  BY <1>6, <1>7, N!SetInduction
<1> QED BY <1>8 DEF P

LEMMA RoomFacts ==
    ASSUME NEW v, IsVector(v), NEW d \in Nat, NEW u, u = Room(v, d)
    PROVE  /\ Resized(u, v, v.count) /\ v.count + d <= u.cap
           /\ u.data = v.data /\ u.intact = v.intact
<1>1. CASE v.count + d <= v.cap
  BY <1>1 DEF Room, IsVector, Resized
<1>2. CASE ~ (v.count + d <= v.cap)
  <2>1. PICK f : f = Twice(v.cap, d)
    OBVIOUS
  <2>2. \A k \in 0 .. d : f[k] \in Nat /\ f[k] >= v.cap * 2 + k
    BY <2>1, TwiceFacts DEF IsVector
  <2>3. PICK S : S = {k \in 0 .. d : f[k] >= v.cap + d}
    OBVIOUS
  <2>4. d \in S /\ S \in SUBSET Nat
    BY <2>2, <2>3 DEF IsVector
  <2>5. \E k \in S : \A n \in S : k <= n
    BY <2>4, N!LeastNumber
  <2>6. Min(S) \in S
    BY <2>5, Zenon DEF Min
  <2>7. PICK c \in Nat : c = f[Min(S)] /\ c >= v.cap + d
    BY <2>2, <2>3, <2>6
  <2>8. u = [v EXCEPT !.cap = c, !.room = c * v.width]
    BY <1>2, <2>1, <2>3, <2>7, Zenon DEF Room, Twice
  <2>9. /\ u.width = v.width /\ u.count = v.count /\ u.list = v.list /\ u.cap = c
        /\ u.data = v.data /\ u.intact = v.intact
        /\ u = [width |-> u.width, count |-> u.count, cap |-> u.cap, room |-> u.room,
                data |-> u.data, list |-> u.list, intact |-> u.intact]
    BY <2>8 DEF IsVector
  <2> QED BY <2>7, <2>9 DEF IsVector, Resized
<1> QED BY <1>1, <1>2

Refilled(u, r, n, bytes) == u = [r EXCEPT !.count = n, !.data = bytes]

LEMMA ResizeFacts ==
    ASSUME NEW v, IsVector(v), NEW r, Resized(r, v, v.count), NEW n \in Nat, n <= r.cap, NEW bytes,
           NEW u, Refilled(u, r, n, bytes)
    PROVE  Resized(u, v, n) /\ u.data = bytes /\ u.intact = r.intact
<1>1. /\ u.width = r.width /\ u.count = n /\ u.list = r.list /\ u.cap = r.cap /\ u.data = bytes
      /\ u.intact = r.intact
      /\ u = [width |-> u.width, count |-> u.count, cap |-> u.cap, room |-> u.room,
              data |-> u.data, list |-> u.list, intact |-> u.intact]
  BY DEF Resized, IsVector, Refilled
<1> QED BY <1>1 DEF Resized, IsVector

LEMMA MoreFacts ==
    ASSUME NEW v, IsVector(v), NEW d \in Nat, NEW u, u = More(v, d)
    PROVE  /\ Resized(u, v, v.count + d) /\ u.intact = v.intact
           /\ u.data = Bytes(v, v.count + d)
<1>1. PICK r : r = Room(v, d)
  OBVIOUS
<1>2. Resized(r, v, v.count) /\ v.count + d <= r.cap /\ r.intact = v.intact
  BY <1>1, RoomFacts
<1>3. u = [r EXCEPT !.count = v.count + d, !.data = Bytes(v, v.count + d)]
  BY <1>1 DEF More
<1>0. PICK n \in Nat : n = v.count + d
  BY DEF IsVector
<1>4. PICK bytes : bytes = Bytes(v, n)
  OBVIOUS
<1>5. Refilled(u, r, n, bytes) /\ n <= r.cap
  BY <1>0, <1>2, <1>3, <1>4 DEF Refilled
<1>6. Resized(u, v, n) /\ u.data = bytes /\ u.intact = r.intact
  BY <1>2, <1>5, ResizeFacts
<1> QED BY <1>0, <1>2, <1>4, <1>6

LEMMA LessFacts ==
    ASSUME NEW v, IsVector(v), NEW d \in Nat, d > 0, d <= v.count, NEW u, u = Less(v, d)
    PROVE  Resized(u, v, v.count - d) /\ u.data = Bytes(v, v.count - d)
<1>1. PICK c, bytes : c = Cut(v, d) /\ bytes = Bytes(v, v.count - d)
  OBVIOUS
<1>2. PICK n \in Nat : n = v.count - d
  BY DEF IsVector
<1>3. Refilled(u, c, n, bytes)
  BY <1>1, <1>2 DEF Less, Refilled
<1>4. Resized(c, v, v.count) /\ n <= c.cap
  <2>1. CASE v.count + d >= v.cap \div 4
    <3>1. c = v
      BY <1>1, <2>1 DEF Cut
    <3> QED BY <1>2, <3>1 DEF Resized, IsVector
  <2>2. CASE ~ (v.count + d >= v.cap \div 4)
    <3>1. PICK q \in Nat : q = v.cap \div 4 /\ n <= q /\ v.count <= q
      BY <1>2, <2>2 DEF IsVector
    <3>2. c = [v EXCEPT !.cap = q, !.room = q, !.intact = v.width = 1]
      BY <1>1, <2>2, <3>1 DEF Cut
    <3>3. /\ c.width = v.width /\ c.count = v.count /\ c.list = v.list /\ c.cap = q
          /\ c = [width |-> c.width, count |-> c.count, cap |-> c.cap, room |-> c.room,
                  data |-> c.data, list |-> c.list, intact |-> c.intact]
      BY <3>2 DEF IsVector
    <3> QED BY <3>1, <3>3 DEF Resized, IsVector
  <2> QED BY <2>1, <2>2
<1>5. Resized(u, v, n) /\ u.data = bytes
  BY <1>3, <1>4, ResizeFacts
<1> QED BY <1>1, <1>2, <1>5

(* What the bytes z are after a change of size, a move, a write.           *)
Cropped(z, y, P, Q) ==
    DOMAIN z = 0 .. P - 1 /\ \A b \in 0 .. P - 1 : b < Q => z[b] = y[b]

MovedTo(z, y, P, dst, src, n) ==
    DOMAIN z = 0 .. P - 1
    /\ \A b \in 0 .. P - 1 : z[b] = IF b >= dst /\ b < dst + n THEN y[src + b - dst] ELSE y[b]

WrittenTo(z, y, P, w, i, s) ==
    DOMAIN z = 0 .. P - 1
    /\ \A b \in 0 .. P - 1 : z[b] = IF (b \div w) - i + 1 \in DOMAIN s THEN s[(b \div w) - i + 1] ELSE y[b]

LEMMA InsertBytes ==
    ASSUME NEW w \in Nat, w > 0, NEW n \in Nat, NEW m \in Nat, NEW i \in Nat, i <= n,
           NEW s, DOMAIN s = 1 .. m, NEW size, size = (n - i) * w, NEW y, NEW z0, NEW z1, NEW z2,
           Cropped(z0, y, (n + m) * w, n * w), MovedTo(z1, z0, (n + m) * w, (i + m) * w, i * w, size),
           WrittenTo(z2, z1, (n + m) * w, w, i, s)
    PROVE  Shuffled(z2, y, w, n + m, i, i, m, s)
<1>1. PICK P \in Nat, Q \in Nat, I \in Nat, T \in Nat :
         /\ P = (n + m) * w /\ Q = n * w /\ I = i * w /\ T = (i + m) * w
         /\ T + size = P /\ I + size = Q /\ I <= T /\ Q <= P /\ size \in Nat
  <2>1. /\ i * w \in Nat /\ m * w \in Nat /\ n * w \in Nat
        /\ (i + m) * w = i * w + m * w /\ (n + m) * w = n * w + m * w
    BY Products
  <2>2. PICK k \in Nat : k = n - i /\ n = k + i
    OBVIOUS
  <2>3. k * w \in Nat /\ (k + i) * w = k * w + i * w
    BY Products
  <2> QED BY <2>1, <2>2, <2>3
<1>2. ASSUME NEW b \in 0 .. P - 1
      PROVE  z2[b] = IF b < I THEN y[b] ELSE IF b < T THEN s[(b \div w) - i + 1] ELSE y[b - T + I]
  <2>1. PICK q \in Nat : q = b \div w /\ (b < I <=> q < i) /\ (b < T <=> q < i + m)
    <3>1. b \in Nat /\ i + m \in Nat
      BY <1>1
    <3> QED BY <1>1, <3>1, Quotient
  <2>2. q - i + 1 \in DOMAIN s <=> q >= i /\ q < i + m
    BY <1>1
  <2>3. z2[b] = IF q - i + 1 \in DOMAIN s THEN s[q - i + 1] ELSE z1[b]
    BY <1>1, <2>1 DEF WrittenTo
  <2>4. z1[b] = IF b >= T /\ b < T + size THEN z0[I + b - T] ELSE z0[b]
    BY <1>1 DEF MovedTo
  <2>5. \A c \in 0 .. P - 1 : c < Q => z0[c] = y[c]
    BY <1>1 DEF Cropped
  <2>6. CASE b < I
    <3>1. ~ (q >= i) /\ ~ (b >= T /\ b < T + size) /\ b < Q
      BY <1>1, <2>1, <2>6
    <3> QED BY <2>2, <2>3, <2>4, <2>5, <2>6, <3>1
  <2>7. CASE ~ (b < I) /\ b < T
    <3>1. q >= i /\ q < i + m
      BY <2>1, <2>7
    <3> QED BY <2>1, <2>2, <2>3, <2>7, <3>1
  <2>8. CASE ~ (b < I) /\ ~ (b < T)
    <3>1. ~ (q < i + m) /\ b >= T /\ b < T + size
      BY <1>1, <2>1, <2>8
    <3>2. PICK c : c = I + b - T /\ c = b - T + I
      BY <1>1
    <3>3. c \in 0 .. P - 1 /\ c < Q
      BY <1>1, <2>8, <3>2
    <3> QED BY <2>2, <2>3, <2>4, <2>5, <2>8, <3>1, <3>2, <3>3
  <2> QED BY <2>6, <2>7, <2>8
<1> QED BY <1>1, <1>2 DEF Shuffled

LEMMA DeleteBytes ==
    ASSUME NEW w \in Nat, w > 0, NEW c \in Nat, NEW i \in Nat, NEW n \in Nat, i + n <= c,
           NEW size, size = (c - i - n) * w, NEW y, NEW z1, NEW z2,
           MovedTo(z1, y, c * w, i * w, (i + n) * w, size), Cropped(z2, z1, (c - n) * w, c * w)
    PROVE  Shuffled(z2, y, w, c - n, i, i + n, 0, <<>>)
<1>1. PICK r \in Nat : r = c - n
  OBVIOUS
<1>2. PICK P \in Nat, R \in Nat, I \in Nat, J \in Nat :
         /\ P = c * w /\ R = r * w /\ I = i * w /\ J = (i + n) * w /\ size \in Nat
         /\ R <= P /\ I + size = R /\ J + size = P
  <2>1. i * w \in Nat /\ n * w \in Nat /\ (i + n) * w = i * w + n * w
        /\ r * w \in Nat /\ c * w \in Nat /\ (r + n) * w = r * w + n * w /\ r + n = c
    BY <1>1, Products
  <2>2. PICK k \in Nat : k = c - i - n /\ r = k + i
    BY <1>1
  <2>3. k * w \in Nat /\ (k + i) * w = k * w + i * w
    BY <2>2, Products
  <2> QED BY <1>1, <2>1, <2>2, <2>3
<1>3. ASSUME NEW b \in 0 .. R - 1
      PROVE  z2[b] = IF b < I THEN y[b] ELSE y[b - I + J]
  <2>1. b \in 0 .. P - 1 /\ b < P
    BY <1>2
  <2>2. z2[b] = z1[b]
    BY <1>1, <1>2, <2>1 DEF Cropped
  <2>3. z1[b] = IF b >= I /\ b < I + size THEN y[J + b - I] ELSE y[b]
    BY <1>2, <2>1 DEF MovedTo
  <2>4. b >= I /\ b < I + size <=> ~ (b < I)
    BY <1>2
  <2>5. J + b - I = b - I + J
    BY <1>2
  <2> QED BY <2>2, <2>3, <2>4, <2>5, Zenon
<1>4. i + 0 = i
  OBVIOUS
<1> QED BY <1>1, <1>2, <1>3, <1>4 DEF Shuffled

Bytewise(v) == DOMAIN v.data = 0 .. v.count * v.width - 1

Held(v) == Good(v) /\ Bytewise(v)

LEMMA MoreBytes ==
    ASSUME NEW v, Held(v), NEW d \in Nat, NEW u, u = More(v, d), NEW w \in Nat, w = v.width,
           NEW n \in Nat, n = v.count
    PROVE  /\ Resized(u, v, n + d) /\ u.intact = v.intact
           /\ Cropped(u.data, v.data, (n + d) * w, n * w)
<1>1. IsVector(v) /\ DOMAIN v.data = 0 .. n * w - 1
  BY DEF Held, Good, Bytewise
<1>2. PICK y, z : y = v.data /\ z = u.data
  OBVIOUS
<1>3. Resized(u, v, n + d) /\ u.intact = v.intact /\ z = Bytes(v, n + d)
  BY <1>1, <1>2, MoreFacts
<1>4. PICK P \in Nat, Q \in Nat : P = (n + d) * w /\ Q = n * w
  BY Products
<1>5. z = [b \in 0 .. P - 1 |-> IF b \in 0 .. Q - 1 THEN y[b] ELSE Junk]
  BY <1>1, <1>2, <1>3, <1>4 DEF Bytes
<1>6. Cropped(z, y, P, Q)
  BY <1>5 DEF Cropped
<1> QED BY <1>2, <1>3, <1>4, <1>6

LEMMA LessBytes ==
    ASSUME NEW v, IsVector(v), Bytewise(v), NEW d \in Nat, NEW u, u = Less(v, d),
           NEW w \in Nat, w = v.width, NEW n \in Nat, n = v.count, d <= n
    PROVE  Resized(u, v, n - d) /\ Cropped(u.data, v.data, (n - d) * w, n * w)
<1>1. DOMAIN v.data = 0 .. n * w - 1
  BY DEF Bytewise
<1>2. PICK y, z : y = v.data /\ z = u.data
  OBVIOUS
<1>3. PICK r \in Nat : r = n - d
  OBVIOUS
<1>4. PICK P \in Nat, Q \in Nat : P = r * w /\ Q = n * w
  BY Products
<1>5. CASE d = 0
  <2>1. u = v /\ r = n /\ z = y /\ P = Q
    BY <1>2, <1>3, <1>4, <1>5 DEF Less
  <2>2. Cropped(z, y, P, Q)
    BY <1>1, <1>2, <1>4, <2>1 DEF Cropped
  <2>3. Resized(u, v, r)
    BY <2>1 DEF Resized
  <2> QED BY <1>2, <1>3, <1>4, <2>2, <2>3
<1>6. CASE d > 0
  <2>1. Resized(u, v, r) /\ z = Bytes(v, r)
    BY <1>2, <1>3, <1>6, LessFacts
  <2>2. z = [b \in 0 .. P - 1 |-> IF b \in 0 .. Q - 1 THEN y[b] ELSE Junk]
    BY <1>1, <1>2, <1>4, <2>1 DEF Bytes
  <2>3. Cropped(z, y, P, Q)
    BY <1>4, <2>2 DEF Cropped
  <2> QED BY <1>2, <1>3, <1>4, <2>1, <2>3
<1> QED BY <1>5, <1>6

(* Nothing but the bytes is replaced.                                      *)
Rewritten(u, v, bytes) == u = [v EXCEPT !.data = bytes]

LEMMA RewrittenFacts ==
    ASSUME NEW v, IsVector(v), NEW bytes, NEW u, Rewritten(u, v, bytes)
    PROVE  Resized(u, v, v.count) /\ u.intact = v.intact /\ u.data = bytes
<1>1. /\ u.width = v.width /\ u.count = v.count /\ u.list = v.list /\ u.cap = v.cap
      /\ u.data = bytes /\ u.intact = v.intact
      /\ u = [width |-> u.width, count |-> u.count, cap |-> u.cap, room |-> u.room,
              data |-> u.data, list |-> u.list, intact |-> u.intact]
  BY DEF IsVector, Rewritten
<1> QED BY <1>1 DEF IsVector, Resized

LEMMA MovedBytes ==
    ASSUME NEW v, IsVector(v), NEW P \in Nat, DOMAIN v.data = 0 .. P - 1,
           NEW dst \in Nat, NEW src \in Nat, NEW n \in Nat, NEW u, u = Moved(v, dst, src, n)
    PROVE  /\ Resized(u, v, v.count) /\ u.intact = v.intact
           /\ MovedTo(u.data, v.data, P, dst, src, n)
<1>1. PICK y : y = v.data
  OBVIOUS
<1>2. PICK z : z = [b \in 0 .. P - 1 |-> IF b \in dst .. dst + n - 1 THEN y[src + b - dst] ELSE y[b]]
  OBVIOUS
<1>3. Rewritten(u, v, z)
  BY <1>1, <1>2 DEF Moved, Rewritten
<1>4. MovedTo(z, y, P, dst, src, n)
  <2>1. \A b \in 0 .. P - 1 : b \in dst .. dst + n - 1 <=> b >= dst /\ b < dst + n
    OBVIOUS
  <2> QED BY <1>2, <2>1 DEF MovedTo
<1> QED BY <1>1, <1>3, <1>4, RewrittenFacts

LEMMA WrittenBytes ==
    ASSUME NEW v, IsVector(v), NEW P \in Nat, DOMAIN v.data = 0 .. P - 1, NEW w, w = v.width,
           NEW i, NEW s, NEW u, u = Written(v, i, s)
    PROVE  /\ Resized(u, v, v.count) /\ u.intact = v.intact
           /\ WrittenTo(u.data, v.data, P, w, i, s)
<1>1. PICK y : y = v.data
  OBVIOUS
<1>2. PICK z : z = [b \in 0 .. P - 1 |-> IF (b \div w) - i + 1 \in DOMAIN s THEN s[(b \div w) - i + 1]
                                         ELSE y[b]]
  OBVIOUS
<1>3. Rewritten(u, v, z)
  BY <1>1, <1>2 DEF Written, Rewritten
<1>4. WrittenTo(z, y, P, w, i, s)
  BY <1>2 DEF WrittenTo
<1> QED BY <1>1, <1>3, <1>4, RewrittenFacts

LEMMA Onwards ==
    ASSUME NEW v, NEW r, NEW n, Resized(r, v, n), NEW u, NEW m, Resized(u, r, m)
    PROVE  Resized(u, v, m)
BY DEF Resized

(* k is v with room opened at i for m elements.                            *)
Opened(k, v, i, m) ==
    /\ Resized(k, More(v, m), v.count + m)
    /\ MovedTo(k.data, More(v, m).data, (v.count + m) * v.width, (i + m) * v.width, i * v.width,
               (v.count - i) * v.width)

(* The vector u is v with s put in at i, and with n elements less from i.  *)
LEMMA OpenedInserts ==
    ASSUME NEW v, Held(v), NEW i \in Nat, i <= v.count, NEW s, NEW m \in Nat, s \in [1 .. m -> {0, 1}],
           NEW k, Opened(k, v, i, m), NEW u, u = Written(k, i, s)
    PROVE  /\ Resized(u, v, v.count + m) /\ Bytewise(u)
           /\ Shuffled(u.data, v.data, v.width, v.count + m, i, i, m, s)
<1>0. PICK w \in Nat, n \in Nat : w = v.width /\ n = v.count /\ w > 0 /\ i <= n
  BY DEF Held, Good, IsVector
<1>1. PICK g : g = More(v, m)
  OBVIOUS
<1>2. PICK P \in Nat : P = (n + m) * w
  BY Products
<1>3. Resized(g, v, n + m) /\ Cropped(g.data, v.data, P, n * w)
  BY <1>0, <1>1, <1>2, MoreBytes
<1>4. Resized(k, g, n + m) /\ MovedTo(k.data, g.data, P, (i + m) * w, i * w, (n - i) * w)
  BY <1>0, <1>1, <1>2, Zenon DEF Opened
<1>5. IsVector(k) /\ k.width = w /\ k.count = n + m /\ DOMAIN k.data = 0 .. P - 1
  BY <1>0, <1>3, <1>4 DEF Resized, MovedTo
<1>6. Resized(u, k, n + m) /\ WrittenTo(u.data, k.data, P, w, i, s)
  BY <1>5, WrittenBytes
<1>7. Resized(u, v, n + m)
  BY <1>3, <1>4, <1>6, Onwards
<1>8. Bytewise(u)
  BY <1>0, <1>2, <1>6, <1>7 DEF Bytewise, Resized, WrittenTo
<1>9. DOMAIN s = 1 .. m
  OBVIOUS
<1>10. PICK y, z0, z1, z2 : y = v.data /\ z0 = g.data /\ z1 = k.data /\ z2 = u.data
  OBVIOUS
<1>11. Shuffled(z2, y, w, n + m, i, i, m, s)
  BY <1>0, <1>2, <1>3, <1>4, <1>6, <1>9, <1>10, InsertBytes
<1> QED BY <1>0, <1>7, <1>8, <1>10, <1>11

(* k is v with the elements behind n from i moved over those.              *)
Shut(k, v, i, n) ==
    /\ Resized(k, v, v.count)
    /\ MovedTo(k.data, v.data, v.count * v.width, i * v.width, (i + n) * v.width,
               (v.count - i - n) * v.width)

LEMMA ShutDeletes ==
    ASSUME NEW v, Held(v), NEW i \in Nat, NEW n \in Nat, i + n <= v.count, NEW k, Shut(k, v, i, n),
           NEW u, u = Less(k, n)
    PROVE  /\ Resized(u, v, v.count - n) /\ Bytewise(u)
           /\ Shuffled(u.data, v.data, v.width, v.count - n, i, i + n, 0, <<>>)
<1>0. PICK w \in Nat, c \in Nat : w = v.width /\ c = v.count /\ w > 0 /\ i + n <= c /\ n <= c
  BY DEF Held, Good, IsVector
<1>1. Resized(k, v, c) /\ MovedTo(k.data, v.data, c * w, i * w, (i + n) * w, (c - i - n) * w)
  BY <1>0, Zenon DEF Shut
<1>2. IsVector(k) /\ k.width = w /\ k.count = c /\ Bytewise(k)
  BY <1>0, <1>1 DEF Resized, MovedTo, Bytewise
<1>3. Resized(u, k, c - n) /\ Cropped(u.data, k.data, (c - n) * w, c * w)
  BY <1>0, <1>2, LessBytes
<1>4. Resized(u, v, c - n)
  BY <1>1, <1>3, Onwards
<1>5. Bytewise(u)
  BY <1>0, <1>3, <1>4 DEF Bytewise, Resized, Cropped
<1>6. PICK y, z1, z2 : y = v.data /\ z1 = k.data /\ z2 = u.data
  OBVIOUS
<1>7. Shuffled(z2, y, w, c - n, i, i + n, 0, <<>>)
  BY <1>0, <1>1, <1>3, <1>6, DeleteBytes
<1> QED BY <1>0, <1>4, <1>5, <1>6, <1>7

(* What the list becomes is what the bytes became.                         *)
Relisted(u, x, t) == u = [x EXCEPT !.list = t]

LEMMA NowVector ==
    ASSUME NEW x, IsVector(x), NEW t, NEW u, Relisted(u, x, t)
    PROVE  /\ IsVector(u) /\ u.list = t /\ u.intact = x.intact
           /\ u.width = x.width /\ u.count = x.count /\ u.data = x.data
<1>1. /\ u.width = x.width /\ u.count = x.count /\ u.list = t /\ u.cap = x.cap
      /\ u.data = x.data /\ u.intact = x.intact
      /\ u = [width |-> u.width, count |-> u.count, cap |-> u.cap, room |-> u.room,
              data |-> u.data, list |-> u.list, intact |-> u.intact]
  BY DEF IsVector, Relisted
<1> QED BY <1>1 DEF IsVector

LEMMA NowHeld ==
    ASSUME NEW v, Held(v), NEW w, w = v.width, NEW n \in Nat, NEW x, Resized(x, v, n), Bytewise(x),
           NEW i \in Nat, NEW j \in Nat, i <= j, j <= v.count, NEW s \in Lists, NEW m, m = Len(s),
           n = i + m + v.count - j, Shuffled(x.data, v.data, w, n, i, j, m, s),
           NEW t \in Lists, Spliced(t, v.list, i, j, s), NEW u, Relisted(u, x, t)
    PROVE  Held(u)
<1>0. PICK y, z : y = v.data /\ z = x.data
  OBVIOUS
<1>1. PICK l \in Lists : l = v.list /\ Len(l) = v.count
  BY DEF Held, Good
<1>2. IsVector(u) /\ u.list = t /\ u.width = w /\ u.count = n /\ u.data = z
  BY <1>0, NowVector DEF Resized
<1>3. Len(t) = n
  BY <1>1 DEF Spliced
<1>4. w \in Nat /\ w > 0 /\ Whole(y, w, l)
  BY <1>0, <1>1 DEF Held, Good, IsVector
<1>5. j \in 0 .. Len(l) /\ i \in 0 .. j
  BY <1>1
<1>6. Whole(z, w, t)
  <2>1. Shuffled(z, y, w, Len(t), i, j, Len(s), s) /\ Spliced(t, l, i, j, s)
    BY <1>0, <1>1, <1>3, Zenon
  <2> QED BY <1>4, <1>5, <2>1, ShuffledWhole, Zenon
<1>7. DOMAIN z = 0 .. n * w - 1
  BY <1>0 DEF Bytewise, Resized
<1> QED BY <1>2, <1>3, <1>6, <1>7 DEF Held, Good, Bytewise

LEMMA MovingOpens ==
    ASSUME NEW v, Held(v), NEW i \in Nat, i <= v.count, NEW m \in Nat, NEW g, g = More(v, m),
           NEW dst, dst = (i + m) * v.width, NEW src, src = i * v.width,
           NEW size, size = (v.count - i) * v.width, NEW k, k = Moved(g, dst, src, size)
    PROVE  Opened(k, v, i, m)
<1>1. PICK w \in Nat, n \in Nat : w = v.width /\ n = v.count
  BY DEF Held, Good, IsVector
<1>2. PICK h \in Nat : h = n - i
  BY <1>1
<1>3. PICK P \in Nat : P = (n + m) * w
  BY Products
<1>4. dst \in Nat /\ src \in Nat /\ size \in Nat
  BY <1>1, <1>2, Products
<1>5. Resized(g, v, n + m) /\ Cropped(g.data, v.data, (n + m) * w, n * w)
  BY <1>1, MoreBytes
<1>6. IsVector(g) /\ g.count = n + m /\ DOMAIN g.data = 0 .. P - 1
  BY <1>3, <1>5 DEF Resized, Cropped
<1>7. Resized(k, g, g.count) /\ MovedTo(k.data, g.data, P, dst, src, size)
  BY <1>4, <1>6, MovedBytes
<1>8. Resized(k, g, n + m)
  BY <1>6, <1>7
<1> QED BY <1>1, <1>3, <1>7, <1>8, Zenon DEF Opened

LEMMA MovingShuts ==
    ASSUME NEW v, Held(v), NEW i \in Nat, NEW n \in Nat, i + n <= v.count,
           NEW dst, dst = i * v.width, NEW src, src = (i + n) * v.width,
           NEW size, size = (v.count - i - n) * v.width, NEW k, k = Moved(v, dst, src, size)
    PROVE  Shut(k, v, i, n)
<1>1. PICK w \in Nat, c \in Nat : w = v.width /\ c = v.count
  BY DEF Held, Good, IsVector
<1>2. PICK h \in Nat : h = c - i - n
  BY <1>1
<1>3. PICK P \in Nat : P = c * w
  BY Products
<1>4. dst \in Nat /\ src \in Nat /\ size \in Nat
  BY <1>1, <1>2, Products
<1>5. IsVector(v) /\ DOMAIN v.data = 0 .. P - 1
  BY <1>1, <1>3 DEF Held, Good, Bytewise
<1>6. Resized(k, v, v.count) /\ MovedTo(k.data, v.data, P, dst, src, size)
  BY <1>4, <1>5, MovedBytes
<1> QED BY <1>1, <1>3, <1>6, Zenon DEF Shut

(* From the bytes back to the vector.                                      *)
LEMMA InsertedHolds ==
    ASSUME NEW v, Held(v), NEW i \in Nat, i <= v.count, NEW s \in Lists, NEW m \in Nat, m = Len(s),
           NEW k, Opened(k, v, i, m), NEW p, p = Written(k, i, s),
           NEW t \in Lists, Spliced(t, v.list, i, i, s), NEW u, Relisted(u, p, t)
    PROVE  Held(u)
<1>1. PICK n \in Nat, c \in Nat : c = v.count /\ n = c + m /\ n = i + m + c - i
  BY DEF Held, Good, IsVector
<1>2. s \in [1 .. m -> {0, 1}]
  BY DEF Lists
<1>3. /\ Resized(p, v, v.count + m) /\ Bytewise(p)
      /\ Shuffled(p.data, v.data, v.width, v.count + m, i, i, m, s)
  BY <1>2, OpenedInserts, Zenon
<1>4. Resized(p, v, n) /\ Shuffled(p.data, v.data, v.width, n, i, i, m, s) /\ i <= i
      /\ n = i + m + v.count - i
  BY <1>1, <1>3
<1> QED BY <1>3, <1>4, NowHeld, Zenon

LEMMA DeletedHolds ==
    ASSUME NEW v, Held(v), NEW i \in Nat, NEW n \in Nat, i + n <= v.count, NEW k, Shut(k, v, i, n),
           NEW p, p = Less(k, n), NEW t \in Lists, Spliced(t, v.list, i, i + n, <<>>),
           NEW u, Relisted(u, p, t)
    PROVE  Held(u)
<1>1. PICK r \in Nat, j \in Nat, c \in Nat, m \in Nat :
         /\ c = v.count /\ r = c - n /\ j = i + n /\ r = i + m + c - j
         /\ i <= j /\ j <= c /\ m = 0
  BY DEF Held, Good, IsVector
<1>2. /\ Resized(p, v, v.count - n) /\ Bytewise(p)
      /\ Shuffled(p.data, v.data, v.width, v.count - n, i, i + n, 0, <<>>)
  BY ShutDeletes
<1>3. PICK s \in Lists : s = <<>> /\ Len(s) = 0
  BY ListFacts
<1>4. Resized(p, v, r) /\ Shuffled(p.data, v.data, v.width, r, i, j, m, s) /\ Spliced(t, v.list, i, j, s)
      /\ m = Len(s) /\ r = i + m + v.count - j /\ j <= v.count
  BY <1>1, <1>2, <1>3
<1> QED BY <1>1, <1>2, <1>4, NowHeld, Zenon

LEMMA PushHolds ==
    ASSUME NEW v, Held(v), NEW x \in {0, 1}, NEW u, Relisted(u, Push(v, x), Append(v.list, x))
    PROVE  Held(u)
<1>0. PICK w \in Nat, n \in Nat : w = v.width /\ n = v.count
  BY DEF Held, Good, IsVector
<1>1. PICK l \in Lists : l = v.list /\ Len(l) = n
  BY <1>0 DEF Held, Good
<1>2. PICK g, s, t, p : g = More(v, 1) /\ s = <<x>> /\ t = Append(l, x) /\ p = Push(v, x)
  OBVIOUS
<1>3. s \in Lists /\ Len(s) = 1
  BY <1>2, ListFacts
<1>4. t \in Lists /\ Spliced(t, l, n, n, s)
  BY <1>1, <1>2, PushSplices
<1>5. PICK P \in Nat, I \in Nat : P = (n + 1) * w /\ I = n * w
  BY <1>0, Products
<1>6. Resized(g, v, n + 1) /\ Cropped(g.data, v.data, P, I)
  BY <1>0, <1>2, <1>5, MoreBytes
<1>7. Opened(g, v, n, 1)
  <2>1. (n - n) * w = 0
    BY SMT
  <2>2. MovedTo(g.data, g.data, P, P, I, 0)
    BY <1>5, <1>6 DEF Cropped, MovedTo
  <2>3. Resized(g, g, n + 1)
    BY <1>6 DEF Resized
  <2> QED BY <1>0, <1>2, <1>5, <2>1, <2>2, <2>3, Zenon DEF Opened
<1>8. p = Written(g, n, s)
  BY <1>0, <1>2, Zenon DEF Push
<1>9. n <= v.count
  BY <1>0
<1>10. Relisted(u, p, t)
  BY <1>1, <1>2
<1> QED BY <1>1, <1>3, <1>4, <1>7, <1>8, <1>9, <1>10, InsertedHolds, Zenon

LEMMA PopHolds ==
    ASSUME NEW v, Held(v), v.count > 0, NEW u, Relisted(u, Pop(v), Before(v.list, v.count - 1))
    PROVE  Held(u)
<1>0. PICK w \in Nat, c \in Nat, i \in Nat : w = v.width /\ c = v.count /\ i = c - 1 /\ i + 1 = c
  BY DEF Held, Good, IsVector
<1>1. PICK l \in Lists : l = v.list /\ Len(l) = c
  BY <1>0 DEF Held, Good
<1>2. PICK t, p : t = Before(l, i) /\ p = Pop(v)
  OBVIOUS
<1>3. t \in Lists /\ Spliced(t, l, i, i + 1, <<>>)
  BY <1>0, <1>1, <1>2, PopSplices
<1>4. Resized(v, v, c) /\ DOMAIN v.data = 0 .. c * w - 1
  BY <1>0 DEF Held, Good, Bytewise, Resized
<1>5. PICK P \in Nat, I \in Nat, J \in Nat : P = c * w /\ I = i * w /\ J = (i + 1) * w
  BY <1>0, Products
<1>6. Shut(v, v, i, 1)
  <2>1. c - i - 1 = 0
    BY <1>0
  <2>2. 0 * w = 0
    BY SMT
  <2>3. MovedTo(v.data, v.data, P, I, J, 0)
    BY <1>4, <1>5 DEF MovedTo
  <2> QED BY <1>0, <1>4, <1>5, <2>1, <2>2, <2>3, Zenon DEF Shut
<1>7. p = Less(v, 1) /\ i + 1 <= v.count
  BY <1>0, <1>2 DEF Pop
<1>8. Relisted(u, p, t)
  BY <1>0, <1>1, <1>2
<1> QED BY <1>1, <1>3, <1>6, <1>7, <1>8, DeletedHolds

LEMMA InsertRangeHolds ==
    ASSUME NEW v, Held(v), NEW i \in Nat, i <= v.count, NEW s \in Lists,
           NEW t \in Lists, Spliced(t, v.list, i, i, s), NEW u, Relisted(u, InsertRange(v, i, s), t)
    PROVE  Held(u)
<1>1. PICK n \in Nat, m \in Nat : n = v.count /\ m = Len(s)
  BY ListFacts DEF Held, Good, IsVector
<1>2. PICK g, p : g = More(v, m) /\ p = InsertRange(v, i, s)
  OBVIOUS
<1>3. g.count = n + m
  BY <1>1, <1>2, MoreFacts DEF Held, Good, Resized
<1>4. PICK dst, src, size : /\ dst = (i + m) * v.width /\ src = i * v.width
                            /\ size = (v.count - i) * v.width
  OBVIOUS
<1>5. g.count - i - m = v.count - i
  BY <1>1, <1>3
<1>6. PICK k : k = Moved(g, dst, src, size)
  OBVIOUS
<1>7. p = Written(k, i, s)
  BY <1>1, <1>2, <1>4, <1>5, <1>6, Zenon DEF InsertRange
<1>8. Opened(k, v, i, m)
  BY <1>2, <1>4, <1>6, MovingOpens, Zenon
<1> QED BY <1>1, <1>2, <1>7, <1>8, InsertedHolds, Zenon

LEMMA DeleteRangeHolds ==
    ASSUME NEW v, Held(v), NEW i \in Nat, NEW n \in Nat, i + n <= v.count,
           NEW t \in Lists, Spliced(t, v.list, i, i + n, <<>>), NEW u, Relisted(u, DeleteRange(v, i, n), t)
    PROVE  Held(u)
<1>1. PICK k, p : k = Moved(v, i * v.width, (i + n) * v.width, (v.count - i - n) * v.width)
                  /\ p = DeleteRange(v, i, n)
  OBVIOUS
<1>2. p = Less(k, n)
  BY <1>1, Zenon DEF DeleteRange
<1>3. Shut(k, v, i, n)
  BY <1>1, MovingShuts, Zenon
<1> QED BY <1>1, <1>2, <1>3, DeletedHolds, Zenon

(* Single elements: what is torn is marked.                                *)
Judged(q, p, e) == q = [p EXCEPT !.intact = e]

LEMMA JudgedFacts ==
    ASSUME NEW p, IsVector(p), NEW e, NEW q, Judged(q, p, e)
    PROVE  /\ IsVector(q) /\ q.intact = e /\ q.width = p.width /\ q.count = p.count
           /\ q.list = p.list /\ q.data = p.data
<1>1. /\ q.width = p.width /\ q.count = p.count /\ q.list = p.list /\ q.cap = p.cap
      /\ q.data = p.data /\ q.intact = e
      /\ q = [width |-> q.width, count |-> q.count, cap |-> q.cap, room |-> q.room,
              data |-> q.data, list |-> q.list, intact |-> q.intact]
  BY DEF IsVector, Judged
<1> QED BY <1>1 DEF IsVector

LEMMA JudgedHolds ==
    ASSUME NEW p, IsVector(p), NEW e, NEW q, Judged(q, p, e), NEW t, NEW u, Relisted(u, q, t),
           e => \A x : Relisted(x, p, t) => Held(x)
    PROVE  IsVector(u) /\ (u.intact => Held(u))
<1>1. PICK x : Relisted(x, p, t)
  BY DEF Relisted
<1>2. IsVector(u) /\ u.intact = e /\ u.width = p.width /\ u.count = p.count /\ u.list = t /\ u.data = p.data
  <2>1. IsVector(q) /\ q.intact = e /\ q.width = p.width /\ q.count = p.count /\ q.data = p.data
    BY JudgedFacts
  <2> QED BY <2>1, NowVector
<1>3. x.width = p.width /\ x.count = p.count /\ x.list = t /\ x.data = p.data
  BY <1>1, NowVector
<1>4. ASSUME Held(x) PROVE Held(u)
  BY <1>2, <1>3, <1>4 DEF Held, Good, Bytewise
<1>5. u.intact => e
  BY <1>2, Zenon
<1> QED BY <1>1, <1>2, <1>4, <1>5, Zenon

LEMMA InsertOneHolds ==
    ASSUME NEW v, Held(v), NEW i \in Nat, i <= v.count, NEW x, NEW s \in Lists, s = <<x>>, Len(s) = 1,
           NEW t \in Lists, Spliced(t, v.list, i, i, s), NEW u, Relisted(u, InsertOne(v, i, x), t)
    PROVE  IsVector(u) /\ (u.intact => Held(u))
<1>1. PICK w \in Nat, n \in Nat, d \in Nat : w = v.width /\ w > 0 /\ n = v.count /\ d = n - i
  BY DEF Held, Good, IsVector
<1>2. PICK g, q : g = More(v, 1) /\ q = InsertOne(v, i, x)
  OBVIOUS
<1>3. Resized(g, v, n + 1) /\ Cropped(g.data, v.data, (n + 1) * w, n * w)
  BY <1>1, <1>2, MoreBytes
<1>4. PICK P \in Nat, dst \in Nat, src \in Nat : P = (n + 1) * w /\ dst = (i + 1) * w /\ src = i * w
  BY <1>1, Products
<1>5. IsVector(g) /\ g.count = n + 1 /\ g.width = w /\ DOMAIN g.data = 0 .. P - 1
  BY <1>1, <1>3, <1>4 DEF Resized, Cropped
<1>6. PICK k, p : k = Moved(g, dst, src, d) /\ p = Written(k, i, s)
  OBVIOUS
<1>7. IsVector(k) /\ k.width = w /\ DOMAIN k.data = 0 .. P - 1
  <2>1. Resized(k, g, g.count) /\ MovedTo(k.data, g.data, P, dst, src, d)
    BY <1>4, <1>5, <1>6, MovedBytes
  <2> QED BY <1>5, <2>1 DEF Resized, MovedTo
<1>8. IsVector(p)
  <2>1. Resized(p, k, k.count)
    BY <1>4, <1>6, <1>7, WrittenBytes
  <2> QED BY <2>1 DEF Resized
<1>9. g.count - i - 1 = d
  BY <1>1, <1>5
<1>10. PICK e : e = (p.intact /\ ~ Tears(v, d)) /\ Judged(q, p, e)
  BY <1>1, <1>2, <1>4, <1>6, <1>9, Zenon DEF InsertOne, Judged
<1>11. ASSUME e PROVE \A y : Relisted(y, p, t) => Held(y)
  <2>1. ~ Tears(v, d)
    BY <1>10, <1>11, Zenon
  <2>2. d = (v.count - i) * v.width
    <3>1. w = 1 \/ d = 0
      BY <1>1, <2>1 DEF Tears
    <3>2. d * 1 = d /\ 0 * w = 0
      BY SMT
    <3> QED BY <1>1, <3>1, <3>2
  <2>3. Opened(k, v, i, 1)
    <3>1. dst = (i + 1) * v.width /\ src = i * v.width /\ 1 \in Nat
      BY <1>1, <1>4
    <3> QED BY <1>2, <1>6, <2>2, <3>1, MovingOpens, Zenon
  <2> QED BY <1>6, <2>3, InsertedHolds, Zenon
<1> QED BY <1>2, <1>8, <1>10, <1>11, JudgedHolds, Zenon

LEMMA DeleteOneHolds ==
    ASSUME NEW v, Held(v), NEW i \in Nat, i < v.count,
           NEW t \in Lists, Spliced(t, v.list, i, i + 1, <<>>), NEW u, Relisted(u, DeleteOne(v, i), t)
    PROVE  IsVector(u) /\ (u.intact => Held(u))
<1>1. PICK w \in Nat, n \in Nat, d \in Nat : /\ w = v.width /\ w > 0 /\ n = v.count /\ d = n - i - 1
                                            /\ i + 1 <= n
  BY DEF Held, Good, IsVector
<1>2. PICK q : q = DeleteOne(v, i)
  OBVIOUS
<1>3. PICK P \in Nat, dst \in Nat, src \in Nat : P = n * w /\ dst = i * w /\ src = (i + 1) * w
  <2>1. i + 1 \in Nat
    OBVIOUS
  <2> QED BY <1>1, <2>1, Products
<1>4. IsVector(v) /\ DOMAIN v.data = 0 .. P - 1
  BY <1>1, <1>3 DEF Held, Good, Bytewise
<1>5. PICK k, p : k = Moved(v, dst, src, d) /\ p = Less(k, 1)
  OBVIOUS
<1>6. IsVector(k) /\ k.width = w /\ k.count = n /\ Bytewise(k)
  <2>1. Resized(k, v, v.count) /\ MovedTo(k.data, v.data, P, dst, src, d)
    BY <1>3, <1>4, <1>5, MovedBytes
  <2> QED BY <1>1, <1>3, <2>1 DEF Resized, MovedTo, Bytewise
<1>7. IsVector(p)
  <2>1. Resized(p, k, n - 1)
    <3>1. 1 \in Nat /\ 1 <= n
      BY <1>1
    <3> QED BY <1>5, <1>6, <3>1, LessBytes, Zenon
  <2> QED BY <2>1 DEF Resized
<1>8. PICK e : e = (p.intact /\ ~ Tears(v, d)) /\ Judged(q, p, e)
  BY <1>1, <1>2, <1>3, <1>5, Zenon DEF DeleteOne, Judged
<1>9. ASSUME e PROVE \A y : Relisted(y, p, t) => Held(y)
  <2>1. ~ Tears(v, d)
    BY <1>8, <1>9, Zenon
  <2>2. d = (v.count - i - 1) * v.width
    <3>1. w = 1 \/ d = 0
      BY <1>1, <2>1 DEF Tears
    <3>2. d * 1 = d /\ 0 * w = 0
      BY SMT
    <3> QED BY <1>1, <3>1, <3>2
  <2>3. Shut(k, v, i, 1)
    <3>1. dst = i * v.width /\ src = (i + 1) * v.width /\ 1 \in Nat /\ i + 1 <= v.count
      BY <1>1, <1>3
    <3> QED BY <1>5, <2>2, <3>1, MovingShuts, Zenon
  <2>4. 1 \in Nat /\ i + 1 <= v.count
    BY <1>1
  <2> QED BY <1>5, <2>3, <2>4, DeletedHolds, Zenon
<1> QED BY <1>2, <1>7, <1>8, <1>9, JudgedHolds, Zenon

(* Before ndl_vector_minit there is nothing.                               *)
Blank(v) ==
    v = [width |-> 0, count |-> 0, cap |-> 0, room |-> 0,
         data |-> [b \in {} |-> Junk], list |-> <<>>, intact |-> TRUE]

VecInv == Blank(vec) \/ (IsVector(vec) /\ (vec.intact => Held(vec)))

LEMMA CreateHolds ==
    ASSUME NEW v, Blank(v), NEW w \in Nat, w > 0, NEW u, u = [v EXCEPT !.width = w]
    PROVE  IsVector(u) /\ Held(u)
<1>1. PICK x, l : x = [b \in {} |-> Junk] /\ l = <<>>
  OBVIOUS
<1>2. u = [width |-> w, count |-> 0, cap |-> 0, room |-> 0, data |-> x, list |-> l, intact |-> TRUE]
  BY <1>1 DEF Blank
<1>3. /\ u.width = w /\ u.count = 0 /\ u.cap = 0 /\ u.room = 0 /\ u.data = x /\ u.list = l
      /\ u.intact = TRUE
  BY <1>2
<1>4. IsVector(u)
  <2>1. u = [width |-> u.width, count |-> u.count, cap |-> u.cap, room |-> u.room,
             data |-> u.data, list |-> u.list, intact |-> u.intact]
    BY <1>2, <1>3
  <2>2. u.width \in Nat /\ u.width > 0 /\ u.cap \in Nat /\ u.count \in Nat /\ u.count <= u.cap
    BY <1>3
  <2> QED BY <2>1, <2>2 DEF IsVector
<1>5. 0 .. 0 * w - 1 = {} /\ DOMAIN x = {}
  BY <1>1, SMT
<1>6. l \in Lists /\ Len(l) = 0
  BY <1>1, ListFacts
<1>7. Whole(x, w, l)
  BY <1>5, <1>6, Zenon DEF Whole
<1> QED BY <1>3, <1>4, <1>5, <1>6, <1>7 DEF Held, Good, Bytewise

LEMMA OperationHolds ==
    ASSUME VecInv, vec.width > 0, vec.intact, Operation
    PROVE  IsVector(vec') /\ (vec'.intact => Held(vec'))
<1>1. PICK v, l, u : v = vec /\ l = v.list /\ u = vec'
  OBVIOUS
<1>2. Held(v)
  <2>1. ASSUME Blank(vec) PROVE FALSE
    <3>1. vec.width = 0
      BY <2>1 DEF Blank
    <3> QED BY <3>1
  <2> QED BY <1>1, <2>1 DEF VecInv
<1>3. PICK n \in Nat : n = v.count /\ l \in Lists /\ Len(l) = n
  BY <1>1, <1>2 DEF Held, Good, IsVector
<1>4. ASSUME NEW y PROVE Held(y) => IsVector(y)
  BY DEF Held, Good
<1>5. SUFFICES IsVector(u) /\ (u.intact => Held(u))
  BY <1>1, Zenon
<1>6. ASSUME NEW p, NEW t, Becomes(p, t) PROVE Relisted(u, p, t)
  BY <1>1, <1>6, Zenon DEF Becomes, Relisted
<1>7. ASSUME NEW x \in {0, 1}, Becomes(Push(vec, x), Append(vec.list, x)) PROVE Held(u)
  <2>1. Relisted(u, Push(v, x), Append(v.list, x))
    BY <1>1, <1>6, <1>7, Zenon
  <2> QED BY <1>2, <2>1, PushHolds, Zenon
<1>8. ASSUME vec.count > 0, Becomes(Pop(vec), Before(vec.list, vec.count - 1)) PROVE Held(u)
  <2>1. Relisted(u, Pop(v), Before(v.list, v.count - 1)) /\ v.count > 0
    BY <1>1, <1>6, <1>8, Zenon
  <2> QED BY <1>2, <2>1, PopHolds, Zenon
<1>9. ASSUME NEW i \in 0 .. vec.count, NEW x \in {0, 1},
             Becomes(InsertOne(vec, i, x), Before(vec.list, i) \o <<x>> \o After(vec.list, i))
      PROVE  IsVector(u) /\ (u.intact => Held(u))
  <2>0. i \in Nat /\ i <= n
    BY <1>1, <1>3
  <2>1. PICK s, t : s = <<x>> /\ t = Before(l, i) \o s \o After(l, i)
    OBVIOUS
  <2>2. s \in Lists /\ Len(s) = 1
    BY <2>1, ListFacts
  <2>3. t \in Lists /\ Spliced(t, l, i, i, s)
    BY <1>3, <2>0, <2>1, <2>2, InsertSplices, Zenon
  <2>4. Relisted(u, InsertOne(v, i, x), t)
    BY <1>1, <1>6, <1>9, <2>1, Zenon
  <2> QED BY <1>1, <1>2, <1>3, <2>0, <2>1, <2>2, <2>3, <2>4, InsertOneHolds, Zenon
<1>10. ASSUME NEW i \in 0 .. vec.count - 1,
              Becomes(DeleteOne(vec, i), Before(vec.list, i) \o After(vec.list, i + 1))
       PROVE  IsVector(u) /\ (u.intact => Held(u))
  <2>0. i \in Nat /\ i < v.count /\ i + 1 \in Nat /\ i + 1 <= n /\ i <= i + 1
    BY <1>1, <1>3
  <2>1. PICK t : t = Before(l, i) \o After(l, i + 1)
    OBVIOUS
  <2>2. t \in Lists /\ Spliced(t, l, i, i + 1, <<>>)
    BY <1>3, <2>0, <2>1, DeleteSplices, Zenon
  <2>3. Relisted(u, DeleteOne(v, i), t)
    BY <1>1, <1>6, <1>10, <2>1, Zenon
  <2> QED BY <1>1, <1>2, <2>0, <2>2, <2>3, DeleteOneHolds, Zenon
<1>11. ASSUME NEW i \in 0 .. vec.count, NEW s \in Pieces,
              Becomes(InsertRange(vec, i, s), Before(vec.list, i) \o s \o After(vec.list, i))
       PROVE  Held(u)
  <2>0. i \in Nat /\ i <= n
    BY <1>1, <1>3
  <2>1. PICK t : t = Before(l, i) \o s \o After(l, i)
    OBVIOUS
  <2>2. s \in Lists
    <3>1. PICK m \in Lengths : s \in [1 .. m -> {0, 1}]
      BY DEF Pieces
    <3> QED BY <3>1, VectorAssumption DEF Lists
  <2>3. t \in Lists /\ Spliced(t, l, i, i, s)
    BY <1>3, <2>0, <2>1, <2>2, InsertSplices, Zenon
  <2>4. Relisted(u, InsertRange(v, i, s), t)
    BY <1>1, <1>6, <1>11, <2>1, Zenon
  <2> QED BY <1>1, <1>2, <1>3, <2>0, <2>2, <2>3, <2>4, InsertRangeHolds, Zenon
<1>12. ASSUME NEW i \in 0 .. vec.count, NEW d \in 0 .. vec.count - i,
              Becomes(DeleteRange(vec, i, d), Before(vec.list, i) \o After(vec.list, i + d))
       PROVE  Held(u)
  <2>0. i \in Nat /\ d \in Nat /\ i + d \in Nat /\ i + d <= v.count /\ i + d <= n /\ i <= i + d
    BY <1>1, <1>3
  <2>1. PICK t : t = Before(l, i) \o After(l, i + d)
    OBVIOUS
  <2>2. t \in Lists /\ Spliced(t, l, i, i + d, <<>>)
    BY <1>3, <2>0, <2>1, DeleteSplices, Zenon
  <2>3. Relisted(u, DeleteRange(v, i, d), t)
    BY <1>1, <1>6, <1>12, <2>1, Zenon
  <2> QED BY <1>1, <1>2, <2>0, <2>2, <2>3, DeleteRangeHolds, Zenon
<1> QED BY <1>4, <1>7, <1>8, <1>9, <1>10, <1>11, <1>12, Zenon DEF Operation

(* However elements are pushed, popped, inserted and deleted, of whatever  *)
(* width, one by one or in ranges: until a single insertion or deletion    *)
(* tears elements wider than a byte, or the storage is cut under them, the *)
(* bytes are those of the list that vector.h promises.                     *)
THEOREM VectorListLike == VecSpec => []ListLike
<1>1. VecInit => VecInv
  BY DEF VecInit, VecInv, Blank
<1>2. VecInv /\ [VecNext]_vec => VecInv'
  <2> SUFFICES ASSUME VecInv, [VecNext]_vec PROVE VecInv'
    OBVIOUS
  <2>1. ASSUME NEW w \in Widths, Create(w) PROVE VecInv'
    <3>1. w \in Nat /\ w > 0
      BY VectorAssumption
    <3>2. Blank(vec)
      BY <2>1 DEF Create, VecInv, IsVector
    <3>3. IsVector(vec') /\ Held(vec')
      BY <2>1, <3>1, <3>2, CreateHolds DEF Create
    <3> QED BY <3>3 DEF VecInv
  <2>2. ASSUME vec.width > 0, vec.intact, Operation PROVE VecInv'
    BY <2>2, OperationHolds DEF VecInv
  <2>3. ASSUME UNCHANGED vec PROVE VecInv'
    BY <2>3 DEF VecInv, Blank, IsVector, Held, Good, Bytewise
  <2> QED BY <2>1, <2>2, <2>3 DEF VecNext
<1>3. VecInv => ListLike
  <2> SUFFICES ASSUME VecInv, vec.intact
               PROVE  /\ vec.count = Len(vec.list) /\ vec.count <= vec.cap
                      /\ \A b \in 0 .. vec.count * vec.width - 1 :
                              vec.data[b] = vec.list[b \div vec.width + 1]
    BY DEF ListLike
  <2>1. CASE Blank(vec)
    <3>1. vec.count = 0 /\ vec.cap = 0 /\ vec.width = 0 /\ vec.list = <<>>
      BY <2>1 DEF Blank
    <3>2. Len(<<>>) = 0
      OBVIOUS
    <3>3. 0 .. 0 * 0 - 1 = {}
      BY SMT
    <3> QED BY <3>1, <3>2, <3>3
  <2>2. CASE Held(vec)
    BY <2>2 DEF Held, Good, IsVector, Whole
  <2> QED BY <2>1, <2>2 DEF VecInv
<1> QED BY <1>1, <1>2, <1>3, PTL DEF VecSpec

-----------------------------------------------------------------------------
(***************************************************************************)
(* The file.                                                               *)
(***************************************************************************)
(* A number of a width is at a position, as far as the memory goes.        *)
Spells(mem, p, v, width) == \A b \in 1 .. width : mem[p + b] = Digit(v, width, b)

HeldAt(f, p, v, width) == p + width <= f.size => Spells(f.mem, p, v, width)

PairCount(pool, i) == Len(pool[i].pairs)

NodeHeld(f, i) ==
    LET start == EndOf(f.pool)[i - 1]
    IN  HeldAt(f, start, f.pool[i].id, 4) /\ HeldAt(f, start + 4, PairCount(f.pool, i), 2)

PairStart(pool, i, j) == EndOf(pool)[i] - PairSize * (PairCount(pool, i) - j + 1)

PairHeld(f, i, j) ==
    LET start == PairStart(f.pool, i, j)
        pair  == f.pool[i].pairs[j]
    IN  /\ HeldAt(f, start, pair.key, 8)
        /\ HeldAt(f, start + 8, pair.type, 1) /\ HeldAt(f, start + 9, pair.val, 8)

(* Where writer and reader are: they have been past some nodes, and past   *)
(* the first pairs of the last of them.                                    *)
Begun(f) == Len(f.pool) - f.nodes

Cursor(f) ==
    /\ f.nodes \in 0 .. Len(f.pool) /\ f.pairs \in Nat
    /\ IF Begun(f) = 0 THEN f.pairs = 0 ELSE f.pairs <= PairCount(f.pool, Begun(f))
    /\ f.pos = EndOf(f.pool)[Begun(f)] - PairSize * f.pairs

Past(f, i, j) == i < Begun(f) \/ (i = Begun(f) /\ j <= PairCount(f.pool, i) - f.pairs)

WrittenSoFar(f) ==
    /\ HeldAt(f, 0, Len(f.pool), 4)
    /\ \A i \in 1 .. Begun(f) : NodeHeld(f, i)
    /\ \A i \in 1 .. Begun(f) : \A j \in 1 .. PairCount(f.pool, i) : Past(f, i, j) => PairHeld(f, i, j)

AllHeld(f) ==
    /\ HeldAt(f, 0, Len(f.pool), 4)
    /\ \A i \in 1 .. Len(f.pool) : NodeHeld(f, i)
    /\ \A i \in 1 .. Len(f.pool) : \A j \in 1 .. PairCount(f.pool, i) : PairHeld(f, i, j)

(* What was read is the node with the pairs that were passed.              *)
Passed(f, i) == {j \in 1 .. PairCount(f.pool, i) : Past(f, i, j)}

PairsRead(got, l, S) ==
    /\ got = [k \in DOMAIN got |-> got[k]]
    /\ DOMAIN got = {l[j].key : j \in S}
    /\ \A j \in S : got[l[j].key] = [type |-> l[j].type, val |-> l[j].val]

NodeRead(f, i) == PairsRead(f.read[f.pool[i].id], f.pool[i].pairs, Passed(f, i))

Ids(pool, n) == {pool[i].id : i \in 1 .. n}

TakenIn(f) ==
    /\ f.read = [id \in DOMAIN f.read |-> f.read[id]]
    /\ DOMAIN f.read = Ids(f.pool, Begun(f))
    /\ \A i \in 1 .. Begun(f) : NodeRead(f, i)
    /\ Begun(f) > 0 => f.node = f.pool[Begun(f)].id

IsDisk(f) ==
    f = [at |-> f.at, pool |-> f.pool, add |-> f.add, size |-> f.size, mem |-> f.mem,
         pos |-> f.pos, nodes |-> f.nodes, pairs |-> f.pairs, node |-> f.node, read |-> f.read]

Ats == {"none", "try", "write", "file", "load", "good", "bad"}

RoomFor(f) == /\ f.add \in Nat /\ f.size = 2 * f.add - MemEst(f.pool)
           /\ f.size < 2 * FileSize(f.pool) + MemEst(f.pool)

DiskInv(f) ==
    /\ IsDisk(f) /\ f.at \in Ats
    /\ f.size \in Nat /\ f.pos \in Nat /\ f.pos <= f.size
    /\ f.at # "none" => f.pool \in Pools
    /\ f.at = "none" => f.pool = <<>>
    /\ f.at \in {"none", "try", "write", "file"} => f.read = [n \in {} |-> n]
    /\ f.at \in {"none", "try", "file"} => f.pos = 0
    /\ f.at = "file" => f.pairs = 0
    /\ f.at \in {"try", "write"} => RoomFor(f)
    /\ f.at = "write" => Cursor(f) /\ WrittenSoFar(f)
    /\ f.at = "file"  => AllHeld(f)
    /\ f.at = "load" /\ FitsFile(f.pool) => Cursor(f) /\ AllHeld(f) /\ TakenIn(f)
    /\ f.at = "good" /\ FitsFile(f.pool) => f.read = Contents(f.pool)
    /\ f.at = "bad"  /\ FitsFile(f.pool) => f.size < FileSize(f.pool)

LEMMA ByteFacts == Byte \in Nat /\ Byte > 1
BY SavedFileAssumption

LEMMA PowerFacts ==
    /\ Power[0] = 1
    /\ \A i \in Nat : Power[i + 1] = Byte * Power[i]
    /\ \A i \in Nat : Power[i] \in Nat /\ Power[i] > 0
<1> DEFINE F == [i \in Nat |-> [x \in Nat |-> Byte * x]]
<1>1. F \in [Nat -> [Nat -> Nat]] /\ N!Downward(Nat)
  BY ByteFacts DEF N!Downward
<1>2. PICK g \in [Nat -> Nat] : N!Loop(g, Nat, 1, F)
  BY <1>1, N!LoopExists
<1>3. \A i \in Nat \ {0} : F[i][g[i - 1]] = Byte * g[i - 1]
  BY <1>2
<1> HIDE DEF F
<1>4. g = [i \in Nat |-> IF i = 0 THEN 1 ELSE Byte * g[i - 1]]
  BY <1>2, <1>3 DEF N!Loop
<1>5. Power = [i \in Nat |-> IF i = 0 THEN 1 ELSE Byte * Power[i - 1]]
  BY <1>4, Zenon DEF Power
<1> HIDE DEF Power
<1>6. Power[0] = 1 /\ \A i \in Nat : Power[i + 1] = Byte * Power[i]
  <2>1. \A i \in Nat : i + 1 \in Nat /\ i + 1 # 0 /\ (i + 1) - 1 = i
    OBVIOUS
  <2>2. ASSUME NEW i \in Nat PROVE Power[i] = IF i = 0 THEN 1 ELSE Byte * Power[i - 1]
    BY <1>5
  <2> HIDE DEF Power
  <2> QED BY <2>1, <2>2
<1> DEFINE P == {i \in Nat : Power[i] \in Nat /\ Power[i] > 0}
<1>7. 0 \in P
  BY <1>6
<1>8. ASSUME NEW i \in Nat, i \in P PROVE i + 1 \in P
  <2>1. PICK x \in Nat : x = Power[i] /\ x > 0
    BY <1>8
  <2>2. PICK y \in Nat : y = Byte /\ y > 1
    BY ByteFacts
  <2>3. y * x \in Nat /\ y * x > 0
    BY <2>1, <2>2, SMT
  <2> QED BY <1>6, <2>1, <2>2, <2>3
<1> HIDE DEF P
<1>9. \A i \in Nat : i \in P
  BY <1>7, <1>8, N!SetInduction
<1> QED BY <1>6, <1>9 DEF P

LEMMA ThreeFactors ==
    ASSUME NEW a \in Nat, NEW b \in Nat, NEW c \in Nat
    PROVE  a * (b * c) = (a * b) * c /\ b * c \in Nat /\ a * b \in Nat
BY SMT

LEMMA NestedQuotient ==
    ASSUME NEW v \in Nat, NEW w \in Nat, w > 0, NEW b \in Nat, b > 0
    PROVE  v \div (b * w) = (v \div w) \div b
<1>0. PICK z \in Nat : z = b * w /\ z > 0
  BY SMT
<1>1. PICK x \in Nat : x = v \div w /\ \A i \in Nat : v < i * w <=> x < i
  BY Quotient
<1>2. PICK y \in Nat : y = v \div z /\ \A i \in Nat : v < i * z <=> y < i
  BY <1>0, Quotient
<1>3. PICK q \in Nat : q = x \div b /\ \A i \in Nat : x < i * b <=> q < i
  BY Quotient
<1>4. ASSUME NEW i \in Nat PROVE y < i <=> q < i
  <2>1. i * z = (i * b) * w /\ i * b \in Nat
    BY <1>0, ThreeFactors
  <2> QED BY <1>1, <1>2, <1>3, <2>1, Zenon
<1>5. y = q
  <2>1. y + 1 \in Nat /\ q + 1 \in Nat
    OBVIOUS
  <2>2. (y < y + 1 <=> q < y + 1) /\ (y < q + 1 <=> q < q + 1)
    BY <1>4, <2>1
  <2> QED BY <2>2
<1> QED BY <1>0, <1>1, <1>2, <1>3, <1>5, Zenon

(* A quotient by the next power, and what is left of it.                   *)
LEMMA DigitFacts ==
    ASSUME NEW v \in Nat, NEW k \in Nat, NEW x, x = v \div Power[k], NEW y, y = v \div Power[k + 1]
    PROVE  x \in Nat /\ y \in Nat /\ x = Byte * y + (x % Byte)
<1>1. PICK w \in Nat, z \in Nat : w = Power[k] /\ w > 0 /\ z = Power[k + 1] /\ z > 0
  BY PowerFacts
<1>2. PICK b \in Nat : b = Byte /\ b > 0
  BY ByteFacts
<1>3. z = b * w
  BY <1>1, <1>2, PowerFacts
<1>4. x \in Nat /\ y \in Nat /\ y = x \div b
  <2>1. v \div w \in Nat /\ v \div z \in Nat
    BY <1>1, Quotient
  <2>2. v \div (b * w) = (v \div w) \div b
    BY <1>1, <1>2, NestedQuotient
  <2> QED BY <1>1, <1>3, <2>1, <2>2, Zenon
<1>5. x = b * (x \div b) + (x % b)
  BY <1>2, <1>4, SMT
<1> QED BY <1>2, <1>4, <1>5

(* A number that fits its width is read as it was written.                 *)
LEMMA NumberFacts ==
    ASSUME NEW mem, NEW p \in Nat, NEW w \in Nat, NEW v \in Nat, v < Power[w],
           Spells(mem, p, v, w)
    PROVE  Number(mem, p, w) = v
<1> DEFINE D == 0 .. w
           G == [i \in D |-> [x \in Nat |-> Byte * x + Digit(v, w, i)]]
           value(i) == v \div Power[w - i]
           g == [i \in D |-> value(i)]
<1>1. ASSUME NEW i \in D PROVE g[i] = IF i = 0 THEN 0 ELSE Byte * g[i - 1] + mem[p + i]
  <2>1. CASE i = 0
    <3>1. PICK z \in Nat : z = Power[w] /\ z > 0
      BY PowerFacts
    <3>2. v \div z < 1
      BY <3>1, Quotient, 1 * z = z, SMT
    <3>3. v \div z = 0
      BY <3>1, <3>2, Quotient
    <3> QED BY <2>1, <3>1, <3>3
  <2>2. CASE i # 0
    <3>1. PICK k \in Nat : k = w - i /\ k + 1 = w - (i - 1) /\ i \in 1 .. w /\ i - 1 \in D
      BY <2>2
    <3>2. PICK x, y : x = v \div Power[k] /\ y = v \div Power[k + 1]
      OBVIOUS
    <3>3. x = Byte * y + (x % Byte)
      BY <3>2, DigitFacts
    <3>4. mem[p + i] = x % Byte
      BY <3>1, <3>2 DEF Digit, Spells
    <3>5. g[i] = x /\ g[i - 1] = y
      BY <3>1, <3>2
    <3> QED BY <2>2, <3>3, <3>4, <3>5
  <2> QED BY <2>1, <2>2
<1>2. g = [i \in D |-> IF i = 0 THEN 0 ELSE Byte * g[i - 1] + mem[p + i]]
  <2> HIDE DEF value
  <2> QED BY <1>1, Zenon
<1>3. PICK h : h = CHOOSE f : f = [i \in D |-> IF i = 0 THEN 0 ELSE Byte * f[i - 1] + mem[p + i]]
  OBVIOUS
<1>4. h = [i \in D |-> IF i = 0 THEN 0 ELSE Byte * h[i - 1] + mem[p + i]]
  <2> HIDE DEF g
  <2> QED BY <1>2, <1>3, Zenon
<1> HIDE DEF g
<1> DEFINE P == {i \in Nat : i <= w => h[i] = g[i]}
<1>5. 0 \in P
  BY <1>1, <1>4
<1>6. ASSUME NEW i \in Nat, i \in P PROVE i + 1 \in P
  <2> SUFFICES ASSUME i + 1 <= w PROVE h[i + 1] = g[i + 1]
    OBVIOUS
  <2>1. PICK j \in D : j = i + 1 /\ j # 0 /\ j - 1 = i
    OBVIOUS
  <2>2. h[i] = g[i]
    BY <1>6
  <2>3. h[j] = Byte * h[j - 1] + mem[p + j]
    BY <1>4, <2>1
  <2>4. g[j] = Byte * g[j - 1] + mem[p + j]
    BY <1>1, <2>1
  <2> QED BY <2>1, <2>2, <2>3, <2>4
<1> HIDE DEF P
<1>7. \A i \in Nat : i \in P
  BY <1>5, <1>6, N!SetInduction
<1>8. h[w] = g[w]
  BY <1>7 DEF P
<1>9. g[w] = v
  <2>1. v \div 1 = v
    OBVIOUS
  <2> QED BY <2>1, PowerFacts DEF g
<1> QED BY <1>3, <1>8, <1>9, Zenon DEF Number

(* What is known of a pool that is saved.                                  *)
LEMMA PoolFacts ==
    ASSUME NEW pool \in Pools
    PROVE  /\ Len(pool) \in Nat /\ DOMAIN pool = 1 .. Len(pool)
           /\ \A i \in 1 .. Len(pool) :
                /\ pool[i].id \in Nat
                /\ PairCount(pool, i) \in Nat /\ DOMAIN pool[i].pairs = 1 .. PairCount(pool, i)
                /\ \A j \in 1 .. PairCount(pool, i) : LET pair == pool[i].pairs[j] IN
                    /\ pair.key \in Nat /\ pair.key < Power[8]
                    /\ pair.type \in Nat /\ pair.type < Power[1]
                    /\ pair.val \in Nat /\ pair.val < Power[8]
           /\ \A i, j \in 1 .. Len(pool) : pool[i].id = pool[j].id => i = j
           /\ \A i \in 1 .. Len(pool) : \A m, n \in 1 .. PairCount(pool, i) :
                pool[i].pairs[m].key = pool[i].pairs[n].key => m = n
<1> DEFINE Pair == [key : 0 .. Power[8] - 1, type : 0 .. Byte - 1, val : 0 .. Power[8] - 1]
           Node == [id : Nat, pairs : Seq(Pair)]
<1>1. pool \in Seq(Node)
  BY SavedFileAssumption
<1>2. /\ \A i, j \in DOMAIN pool : pool[i].id = pool[j].id => i = j
      /\ \A i \in DOMAIN pool : \A m, n \in DOMAIN pool[i].pairs :
            pool[i].pairs[m].key = pool[i].pairs[n].key => m = n
  BY SavedFileAssumption
<1>3. PICK P : P = Pair
  OBVIOUS
<1>4. ASSUME NEW i \in DOMAIN pool PROVE pool[i].id \in Nat /\ pool[i].pairs \in Seq(P)
  <2>1. PICK S, Q : S = Seq(P) /\ Q = [id : Nat, pairs : S]
    OBVIOUS
  <2>2. pool \in Seq(Q)
    BY <1>1, <1>3, <2>1, Zenon
  <2>3. pool[i] \in Q
    BY <2>2
  <2>4. pool[i].id \in Nat /\ pool[i].pairs \in S
    BY <2>1, <2>3
  <2> QED BY <2>1, <2>4
<1>5. Len(pool) \in Nat /\ DOMAIN pool = 1 .. Len(pool)
  <2> HIDE DEF Node
  <2> QED BY <1>1
<1>6. \A i \in DOMAIN pool : /\ Len(pool[i].pairs) \in Nat
                             /\ DOMAIN pool[i].pairs = 1 .. Len(pool[i].pairs)
                             /\ \A j \in DOMAIN pool[i].pairs : pool[i].pairs[j] \in P
  BY <1>4
<1>7. PICK z \in Nat, y \in Nat : z = Power[8] /\ y = Byte /\ y = Power[1]
  <2>1. Power[0 + 1] = Byte * Power[0]
    BY PowerFacts
  <2>2. 0 + 1 = 1 /\ Power[0] = 1 /\ Power[8] \in Nat
    BY PowerFacts
  <2> QED BY ByteFacts, <2>1, <2>2
<1>8. \A p \in P : /\ p.key \in Nat /\ p.key < z /\ p.type \in Nat /\ p.type < y
                   /\ p.val \in Nat /\ p.val < z
  <2>1. P = [key : 0 .. z - 1, type : 0 .. y - 1, val : 0 .. z - 1]
    BY <1>3, <1>7, Zenon
  <2> QED BY <2>1
<1>9. \A i \in DOMAIN pool : \A j \in DOMAIN pool[i].pairs : LET pair == pool[i].pairs[j] IN
        /\ pair.key \in Nat /\ pair.key < Power[8]
        /\ pair.type \in Nat /\ pair.type < Power[1]
        /\ pair.val \in Nat /\ pair.val < Power[8]
  BY <1>6, <1>7, <1>8, Zenon
<1>10. \A i \in 1 .. Len(pool) :
        /\ pool[i].id \in Nat
        /\ PairCount(pool, i) \in Nat /\ DOMAIN pool[i].pairs = 1 .. PairCount(pool, i)
  BY <1>4, <1>5, <1>6, Zenon DEF PairCount
<1> HIDE DEF Pair, Node
<1>11. ASSUME NEW i \in 1 .. Len(pool), NEW j \in 1 .. PairCount(pool, i)
       PROVE  LET pair == pool[i].pairs[j] IN
                /\ pair.key \in Nat /\ pair.key < Power[8]
                /\ pair.type \in Nat /\ pair.type < Power[1]
                /\ pair.val \in Nat /\ pair.val < Power[8]
  BY <1>5, <1>9, <1>10, Zenon
<1>12. \A i \in 1 .. Len(pool) : \A m, n \in 1 .. PairCount(pool, i) :
                pool[i].pairs[m].key = pool[i].pairs[n].key => m = n
  BY <1>2, <1>5, <1>10, Zenon
<1>13. \A i, j \in 1 .. Len(pool) : pool[i].id = pool[j].id => i = j
  BY <1>2, <1>5, Zenon
<1> QED BY <1>5, <1>10, <1>11, <1>12, <1>13, Zenon

Distinct(l, n)     == \A a, b \in 1 .. n : l[a].id = l[b].id => a = b
DistinctKeys(l, n) == \A a, b \in 1 .. n : l[a].key = l[b].key => a = b

LEMMA AllDistinct ==
    ASSUME NEW pool \in Pools
    PROVE  /\ Distinct(pool, Len(pool))
           /\ \A i \in 1 .. Len(pool) : DistinctKeys(pool[i].pairs, PairCount(pool, i))
BY PoolFacts DEF Distinct, DistinctKeys

LEMMA PairTypes ==
    ASSUME NEW pool \in Pools, NEW i \in 1 .. Len(pool), NEW j \in 1 .. PairCount(pool, i),
           NEW p, p = pool[i].pairs[j]
    PROVE  /\ p.key \in Nat /\ p.key < Power[8]
           /\ p.type \in Nat /\ p.type < Power[1]
           /\ p.val \in Nat /\ p.val < Power[8]
BY PoolFacts

(* Where the nodes end.                                                    *)
LEMMA EndSteps ==
    ASSUME NEW pool \in Pools
    PROVE  LET E == EndOf(pool) IN
           /\ E[0] = 4
           /\ \A i \in 1 .. Len(pool) : E[i] = E[i - 1] + NodeSize + PairSize * PairCount(pool, i)
           /\ \A i \in 0 .. Len(pool) : E[i] \in Nat
<1> DEFINE D == 0 .. Len(pool)
           F == [i \in D |-> [x \in Nat |->
                    IF i = 0 THEN x ELSE x + NodeSize + PairSize * PairCount(pool, i)]]
<1>1. Len(pool) \in Nat /\ \A i \in 1 .. Len(pool) : PairCount(pool, i) \in Nat
  BY PoolFacts
<1>2. F \in [D -> [Nat -> Nat]] /\ N!Downward(D)
  <2>1. ASSUME NEW i \in D, i # 0 PROVE PairSize * PairCount(pool, i) \in Nat
    BY <1>1, <2>1 DEF PairSize
  <2>2. \A i \in D, x \in Nat : i # 0 => x + NodeSize + PairSize * PairCount(pool, i) \in Nat
    BY <2>1 DEF NodeSize
  <2>3. N!Downward(D)
    BY <1>1 DEF N!Downward
  <2> QED BY <2>2, <2>3
<1>3. PICK g \in [D -> Nat] : N!Loop(g, D, 4, F)
  BY <1>2, N!LoopExists
<1>4. ASSUME NEW i \in D \ {0}
      PROVE  i - 1 \in D /\ F[i][g[i - 1]] = g[i - 1] + NodeSize + PairSize * PairCount(pool, i)
  <2>1. i - 1 \in D
    BY <1>1
  <2>2. PICK x \in Nat : x = g[i - 1]
    BY <1>3, <2>1
  <2>3. F[i][x] = x + NodeSize + PairSize * PairCount(pool, i)
    OBVIOUS
  <2> QED BY <2>1, <2>2, <2>3
<1> HIDE DEF F
<1>5. g = [i \in D |-> IF i = 0 THEN 4 ELSE g[i - 1] + NodeSize + PairSize * PairCount(pool, i)]
  BY <1>3, <1>4 DEF N!Loop
<1>6. PICK E : E = EndOf(pool)
  OBVIOUS
<1>7. E = CHOOSE f : f = [i \in D |-> IF i = 0 THEN 4
                                      ELSE f[i - 1] + NodeSize + PairSize * PairCount(pool, i)]
  BY <1>6, Zenon DEF EndOf, PairCount
<1>8. E = [i \in D |-> IF i = 0 THEN 4 ELSE E[i - 1] + NodeSize + PairSize * PairCount(pool, i)]
  BY <1>5, <1>7, Zenon
<1>9. E[0] = 4 /\ \A i \in 1 .. Len(pool) : E[i] = E[i - 1] + NodeSize + PairSize * PairCount(pool, i)
  <2>1. \A i \in D : E[i] = IF i = 0 THEN 4 ELSE E[i - 1] + NodeSize + PairSize * PairCount(pool, i)
    BY <1>8, Zenon
  <2>2. 0 \in D /\ \A i \in 1 .. Len(pool) : i \in D /\ i # 0
    BY <1>1
  <2> QED BY <2>1, <2>2, Zenon
<1> DEFINE P == {i \in Nat : i <= Len(pool) => E[i] \in Nat}
<1>10. 0 \in P
  BY <1>9
<1>11. ASSUME NEW i \in Nat, i \in P PROVE i + 1 \in P
  <2> SUFFICES ASSUME i + 1 <= Len(pool) PROVE E[i + 1] \in Nat
    OBVIOUS
  <2>1. PICK j \in 1 .. Len(pool) : j = i + 1 /\ j - 1 = i
    BY <1>1
  <2>2. PICK x \in Nat, c \in Nat : x = E[j - 1] /\ c = PairCount(pool, j)
    BY <1>1, <1>11, <2>1
  <2>3. E[j] = x + NodeSize + PairSize * c
    BY <1>9, <2>2
  <2> QED BY <2>1, <2>3 DEF NodeSize, PairSize
<1> HIDE DEF P
<1>12. \A i \in Nat : i \in P
  BY <1>10, <1>11, N!SetInduction
<1>13. \A i \in D : E[i] \in Nat
  BY <1>1, <1>12 DEF P
<1> QED BY <1>6, <1>9, <1>13

(* Later nodes end later.                                                  *)
LEMMA EndsGrow ==
    ASSUME NEW pool \in Pools, NEW i \in 0 .. Len(pool), NEW j \in 0 .. Len(pool), i <= j
    PROVE  EndOf(pool)[i] <= EndOf(pool)[j]
<1>1. PICK E, n : E = EndOf(pool) /\ n = Len(pool)
  OBVIOUS
<1>2. n \in Nat /\ \A k \in 0 .. n : E[k] \in Nat
  BY <1>1, PoolFacts, EndSteps
<1>3. ASSUME NEW k \in 1 .. n PROVE E[k - 1] <= E[k]
  <2>1. PICK x \in Nat, c \in Nat : x = E[k - 1] /\ c = PairCount(pool, k)
    BY <1>1, <1>2, PoolFacts
  <2>2. E[k] = x + NodeSize + PairSize * c
    BY <1>1, <2>1, EndSteps
  <2> QED BY <2>1, <2>2 DEF NodeSize, PairSize
<1> DEFINE P == {k \in Nat : i + k <= n => E[i] <= E[i + k]}
<1>4. 0 \in P
  BY <1>1, <1>2
<1>5. ASSUME NEW k \in Nat, k \in P PROVE k + 1 \in P
  <2> SUFFICES ASSUME i + (k + 1) <= n PROVE E[i] <= E[i + (k + 1)]
    OBVIOUS
  <2>1. PICK m \in 1 .. n : m = i + (k + 1) /\ m - 1 = i + k /\ m - 1 \in 0 .. n
    BY <1>1, <1>2
  <2>2. E[i] <= E[m - 1]
    BY <1>1, <1>2, <1>5, <2>1
  <2>3. E[m - 1] <= E[m] /\ E[i] \in Nat /\ E[m - 1] \in Nat /\ E[m] \in Nat
    BY <1>1, <1>2, <1>3, <2>1
  <2> QED BY <2>1, <2>2, <2>3
<1> HIDE DEF P
<1>6. \A k \in Nat : k \in P
  BY <1>4, <1>5, N!SetInduction
<1>7. j - i \in Nat /\ i + (j - i) = j
  BY <1>1, <1>2
<1> QED BY <1>1, <1>6, <1>7 DEF P

Alike(f, g) == /\ g.at = f.at /\ g.pool = f.pool /\ g.add = f.add /\ g.nodes = f.nodes
               /\ g.pairs = f.pairs /\ g.node = f.node /\ g.read = f.read

(* MEMPUSH: the number is there, and what is before it is left alone.      *)
IsPushed(f, g, v, w) ==
    /\ IsDisk(g) /\ Alike(f, g) /\ g.size = f.size /\ g.pos = f.pos + w
    /\ HeldAt(g, f.pos, v, w)
    /\ \A p \in Nat, x, z \in Nat : p + z <= f.pos /\ HeldAt(f, p, x, z) => HeldAt(g, p, x, z)

LEMMA PushedFacts ==
    ASSUME NEW f, IsDisk(f), f.size \in Nat, f.pos \in Nat, NEW v, NEW w \in Nat, NEW g, g = Pushed(f, v, w)
    PROVE  IsPushed(f, g, v, w)
<1>1. /\ IsDisk(g)
      /\ g.at = f.at /\ g.pool = f.pool /\ g.add = f.add /\ g.size = f.size /\ g.pos = f.pos + w
      /\ g.nodes = f.nodes /\ g.pairs = f.pairs /\ g.node = f.node /\ g.read = f.read
      /\ g.mem = [b \in 1 .. f.size |-> IF b \in f.pos + 1 .. f.pos + w
                                        THEN Digit(v, w, b - f.pos) ELSE f.mem[b]]
  BY DEF Pushed, IsDisk
<1>2. PICK s, q, m, n : s \in Nat /\ q \in Nat /\ s = f.size /\ q = f.pos /\ m = f.mem /\ n = g.mem
  OBVIOUS
<1>3. \A b \in 1 .. s : n[b] = IF b \in q + 1 .. q + w THEN Digit(v, w, b - q) ELSE m[b]
  BY <1>1, <1>2
<1>4. HeldAt(g, q, v, w)
  <2> SUFFICES ASSUME q + w <= s, NEW b \in 1 .. w PROVE n[q + b] = Digit(v, w, b)
    BY <1>1, <1>2 DEF HeldAt, Spells
  <2>1. PICK c \in 1 .. s : c = q + b /\ c - q = b /\ c \in q + 1 .. q + w
    BY <1>2
  <2> QED BY <1>3, <2>1
<1>5. ASSUME NEW p \in Nat, NEW x, NEW z \in Nat, p + z <= q, HeldAt(f, p, x, z) PROVE HeldAt(g, p, x, z)
  <2> SUFFICES ASSUME p + z <= s, NEW b \in 1 .. z PROVE n[p + b] = Digit(x, z, b)
    BY <1>1, <1>2 DEF HeldAt, Spells
  <2>1. m[p + b] = Digit(x, z, b)
    BY <1>2, <1>5 DEF HeldAt, Spells
  <2>2. PICK c \in 1 .. s : c = p + b /\ c \notin q + 1 .. q + w
    BY <1>2, <1>5
  <2> QED BY <1>3, <2>1, <2>2
<1> QED BY <1>1, <1>2, <1>4, <1>5 DEF IsPushed, Alike

(* The vector is made longer or shorter: what fits is left alone.          *)
IsSized(f, g, n) ==
    /\ IsDisk(g) /\ Alike(f, g) /\ g.size = n /\ g.pos = f.pos
    /\ n <= f.size => \A p \in Nat, x, z \in Nat : HeldAt(f, p, x, z) => HeldAt(g, p, x, z)

LEMMA SizedFacts ==
    ASSUME NEW f, IsDisk(f), f.size \in Nat, NEW n \in Nat, NEW g, g = Sized(f, n)
    PROVE  IsSized(f, g, n)
<1>1. /\ IsDisk(g)
      /\ g.at = f.at /\ g.pool = f.pool /\ g.add = f.add /\ g.size = n /\ g.pos = f.pos
      /\ g.nodes = f.nodes /\ g.pairs = f.pairs /\ g.node = f.node /\ g.read = f.read
      /\ g.mem = [b \in 1 .. n |-> IF b <= f.size THEN f.mem[b] ELSE 0]
  BY DEF Sized, IsDisk
<1>2. PICK s, m, l : s \in Nat /\ s = f.size /\ m = f.mem /\ l = g.mem
  OBVIOUS
<1>3. \A b \in 1 .. n : l[b] = IF b <= s THEN m[b] ELSE 0
  BY <1>1, <1>2
<1>4. ASSUME n <= s, NEW p \in Nat, NEW x, NEW z \in Nat, HeldAt(f, p, x, z) PROVE HeldAt(g, p, x, z)
  <2> SUFFICES ASSUME p + z <= n, NEW b \in 1 .. z PROVE l[p + b] = Digit(x, z, b)
    BY <1>1, <1>2 DEF HeldAt, Spells
  <2>1. m[p + b] = Digit(x, z, b)
    BY <1>2, <1>4 DEF HeldAt, Spells
  <2>2. PICK c \in 1 .. n : c = p + b /\ c <= s
    BY <1>2, <1>4
  <2> QED BY <1>3, <2>1, <2>2
<1> QED BY <1>1, <1>2, <1>4 DEF IsSized, Alike

(* MEMPOP: a number that is there is read.                                 *)
LEMMA PoppedFacts ==
    ASSUME NEW f, f.size \in Nat, f.pos \in Nat, NEW at \in Nat, NEW w \in Nat, f.pos + at + w <= f.size,
           NEW v \in Nat, v < Power[w], HeldAt(f, f.pos + at, v, w)
    PROVE  Popped(f, at, w) = v
<1>1. PICK p, m : p \in Nat /\ p = f.pos + at /\ m = f.mem
  OBVIOUS
<1>2. Spells(m, p, v, w)
  BY <1>1 DEF HeldAt
<1>3. Number(m, p, w) = v
  BY <1>1, <1>2, NumberFacts, Zenon
<1> QED BY <1>1, <1>3 DEF Popped

(* Where a pair is.                                                        *)
LEMMA PairPlace ==
    ASSUME NEW pool \in Pools, NEW i \in 1 .. Len(pool), NEW j \in 1 .. PairCount(pool, i)
    PROVE  /\ PairStart(pool, i, j) \in Nat
           /\ EndOf(pool)[i - 1] + NodeSize <= PairStart(pool, i, j)
           /\ PairStart(pool, i, j) + PairSize <= EndOf(pool)[i]
<1>1. PICK c \in Nat, x \in Nat, y \in Nat :
          c = PairCount(pool, i) /\ x = EndOf(pool)[i - 1] /\ y = EndOf(pool)[i]
  BY PoolFacts, EndSteps
<1>2. y = x + NodeSize + PairSize * c
  BY <1>1, EndSteps
<1>3. PairStart(pool, i, j) = y - PairSize * (c - j + 1)
  BY <1>1 DEF PairStart
<1>4. PICK d \in 1 .. c : d = c - j + 1
  BY <1>1
<1>5. PICK z : z = PairStart(pool, i, j) /\ z = y - PairSize * d
  BY <1>3, <1>4
<1>6. z \in Nat /\ x + NodeSize <= z /\ z + PairSize <= y
  BY <1>2, <1>4, <1>5 DEF NodeSize, PairSize
<1> QED BY <1>1, <1>5, <1>6

LEMMA EndPlace ==
    ASSUME NEW pool \in Pools, NEW i \in 0 .. Len(pool)
    PROVE  EndOf(pool)[i] \in Nat /\ EndOf(pool)[i] <= FileSize(pool) /\ FileSize(pool) \in Nat
           /\ 4 <= EndOf(pool)[i]
<1>1. Len(pool) \in Nat /\ Len(pool) \in 0 .. Len(pool) /\ 0 \in 0 .. Len(pool) /\ i <= Len(pool) /\ 0 <= i
  BY PoolFacts
<1>2. EndOf(pool)[i] \in Nat /\ EndOf(pool)[Len(pool)] \in Nat /\ EndOf(pool)[0] = 4
  BY <1>1, EndSteps
<1>3. EndOf(pool)[i] <= EndOf(pool)[Len(pool)] /\ EndOf(pool)[0] <= EndOf(pool)[i]
  BY <1>1, EndsGrow
<1> QED BY <1>2, <1>3 DEF FileSize

(* Where a writer or reader is, in terms of the nodes.                     *)
AtNode(f, i) == i \in 1 .. Len(f.pool) /\ Begun(f) = i - 1 /\ f.nodes > 0

AtPair(f, i, j) == /\ i \in 1 .. Len(f.pool) /\ j \in 1 .. PairCount(f.pool, i)
                   /\ Begun(f) = i /\ f.pairs = PairCount(f.pool, i) - j + 1

LEMMA CursorNode ==
    ASSUME NEW f, f.pool \in Pools, Cursor(f), f.pairs = 0, f.nodes > 0
    PROVE  \E i : AtNode(f, i) /\ f.pos = EndOf(f.pool)[i - 1] /\ f.pos + NodeSize <= FileSize(f.pool)
<1>1. PICK n, m, i : n \in Nat /\ n = Len(f.pool) /\ m \in 1 .. n /\ m = f.nodes /\ i = n - m + 1
                     /\ i \in 1 .. n
  BY PoolFacts DEF Cursor
<1>2. Begun(f) = i - 1 /\ i - 1 \in 0 .. n /\ i \in 0 .. n
  BY <1>1 DEF Begun
<1>3. PICK x \in Nat, y \in Nat, c \in Nat :
          x = EndOf(f.pool)[i - 1] /\ y = EndOf(f.pool)[i] /\ c = PairCount(f.pool, i)
          /\ y <= FileSize(f.pool)
  BY <1>1, <1>2, PoolFacts, EndPlace
<1>4. f.pos = x
  BY <1>2, <1>3 DEF Cursor, PairSize
<1>5. y = x + NodeSize + PairSize * c
  BY <1>1, <1>3, EndSteps
<1>6. FileSize(f.pool) \in Nat
  BY <1>1, <1>2, EndPlace
<1>7. x + NodeSize <= FileSize(f.pool)
  BY <1>3, <1>5, <1>6 DEF NodeSize, PairSize
<1> QED BY <1>1, <1>2, <1>3, <1>4, <1>7 DEF AtNode

LEMMA CursorPair ==
    ASSUME NEW f, f.pool \in Pools, Cursor(f), f.pairs > 0
    PROVE  \E i, j : /\ AtPair(f, i, j)
                     /\ f.pos = PairStart(f.pool, i, j) /\ f.pos + PairSize <= FileSize(f.pool)
<1>1. PICK n, i : n \in Nat /\ n = Len(f.pool) /\ i = Begun(f) /\ i \in 0 .. n
  BY PoolFacts DEF Cursor, Begun
<1>2. i \in 1 .. n /\ f.pairs <= PairCount(f.pool, i) /\ f.pairs \in Nat
      /\ f.pos = EndOf(f.pool)[i] - PairSize * f.pairs
  BY <1>1 DEF Cursor
<1>3. PICK c, p, j : c \in Nat /\ c = PairCount(f.pool, i) /\ p \in 1 .. c /\ p = f.pairs /\ j = c - p + 1
                     /\ j \in 1 .. c /\ p = c - j + 1
  <2>1. PICK c \in Nat, p \in Nat : c = PairCount(f.pool, i) /\ p = f.pairs /\ p > 0 /\ p <= c
    BY <1>1, <1>2, PoolFacts
  <2>2. c - p + 1 \in 1 .. c /\ p = c - (c - p + 1) + 1
    BY <2>1
  <2> QED BY <2>1, <2>2
<1>4. AtPair(f, i, j)
  BY <1>1, <1>2, <1>3 DEF AtPair
<1>5. PairStart(f.pool, i, j) = f.pos
  BY <1>2, <1>3, Zenon DEF PairStart
<1>6. /\ PairStart(f.pool, i, j) \in Nat /\ PairStart(f.pool, i, j) + PairSize <= EndOf(f.pool)[i]
      /\ EndOf(f.pool)[i] \in Nat /\ EndOf(f.pool)[i] <= FileSize(f.pool) /\ FileSize(f.pool) \in Nat
  BY <1>1, <1>2, <1>3, PairPlace, EndPlace
<1>7. f.pos + PairSize <= FileSize(f.pool)
  BY <1>5, <1>6 DEF PairSize
<1> QED BY <1>4, <1>5, <1>7

LEMMA CursorEnd ==
    ASSUME NEW f, f.pool \in Pools, Cursor(f), f.pairs = 0, f.nodes = 0
    PROVE  Begun(f) = Len(f.pool) /\ f.pos = FileSize(f.pool)
<1>1. Begun(f) = Len(f.pool)
  BY PoolFacts DEF Begun
<1>2. f.pos = EndOf(f.pool)[Len(f.pool)] - PairSize * 0
  BY <1>1 DEF Cursor
<1>3. EndOf(f.pool)[Len(f.pool)] \in Nat
  BY PoolFacts, EndSteps
<1>4. PairSize * 0 = 0
  BY DEF PairSize
<1> QED BY <1>1, <1>2, <1>3, <1>4 DEF FileSize

(* What has been passed lies before the place that was reached.            *)
LEMMA CursorPast ==
    ASSUME NEW f, f.pool \in Pools, f.pos \in Nat, Cursor(f)
    PROVE  /\ 4 <= f.pos
           /\ \A i \in 1 .. Begun(f) :
                /\ EndOf(f.pool)[i - 1] + NodeSize <= f.pos
                /\ \A j \in 1 .. PairCount(f.pool, i) :
                      Past(f, i, j) => PairStart(f.pool, i, j) + PairSize <= f.pos
<1>1. PICK n, a : n \in Nat /\ n = Len(f.pool) /\ a = Begun(f) /\ a \in 0 .. n
  BY PoolFacts DEF Cursor, Begun
<1>2. PICK q, m : q \in Nat /\ m \in Nat /\ q = f.pos /\ m = f.pairs
  BY DEF Cursor
<1>3. PICK E, P : E = EndOf(f.pool) /\ P = f.pool
  OBVIOUS
<1>4. q = E[a] - PairSize * m /\ (a = 0 => m = 0) /\ (a > 0 => m <= PairCount(P, a))
  BY <1>1, <1>2, <1>3 DEF Cursor
<1>5. ASSUME a > 0 PROVE E[a - 1] + NodeSize <= q /\ E[a - 1] \in Nat /\ a - 1 \in 0 .. n
  <2>1. a \in 1 .. n /\ a - 1 \in 0 .. n
    BY <1>1, <1>5
  <2>2. PICK c \in Nat, x \in Nat, y \in Nat : c = PairCount(P, a) /\ x = E[a - 1] /\ y = E[a]
    BY <1>1, <1>3, <2>1, PoolFacts, EndSteps
  <2>3. y = x + NodeSize + PairSize * c
    BY <1>1, <1>3, <2>1, <2>2, EndSteps
  <2>4. m <= c /\ q = y - PairSize * m
    BY <1>4, <1>5, <2>2
  <2> QED BY <1>2, <2>1, <2>2, <2>3, <2>4 DEF NodeSize, PairSize
<1>6. 4 <= q
  <2>1. CASE a = 0
    <3>1. E[0] = 4 /\ m = 0
      BY <1>3, <1>4, <2>1, EndSteps
    <3> QED BY <1>4, <2>1, <3>1 DEF PairSize
  <2>2. CASE a > 0
    <3>1. 4 <= E[a - 1]
      BY <1>1, <1>3, <1>5, <2>2, EndPlace
    <3> QED BY <1>2, <1>5, <2>2, <3>1 DEF NodeSize
  <2> QED BY <1>1, <2>1, <2>2
<1>7. ASSUME NEW i \in 1 .. a, i < a
      PROVE  E[i] \in Nat /\ E[i - 1] \in Nat /\ E[i] <= q /\ E[i - 1] + NodeSize <= E[i] /\ i \in 1 .. n
  <2>1. i \in 1 .. n /\ i \in 0 .. n /\ i - 1 \in 0 .. n /\ a - 1 \in 0 .. n /\ i <= a - 1 /\ a > 0
    BY <1>1, <1>7
  <2>2. E[i] <= E[a - 1]
    BY <1>1, <1>3, <2>1, EndsGrow
  <2>3. PICK c \in Nat, x \in Nat, y \in Nat : c = PairCount(P, i) /\ x = E[i - 1] /\ y = E[i]
    BY <1>1, <1>3, <2>1, PoolFacts, EndSteps
  <2>4. y = x + NodeSize + PairSize * c
    BY <1>1, <1>3, <2>1, <2>3, EndSteps
  <2>5. y <= q
    BY <1>2, <1>5, <2>1, <2>2, <2>3 DEF NodeSize
  <2> QED BY <2>1, <2>3, <2>4, <2>5 DEF NodeSize, PairSize
<1>8. ASSUME NEW i \in 1 .. a PROVE E[i - 1] + NodeSize <= q
  <2>1. CASE i < a
    BY <1>2, <1>7, <2>1 DEF NodeSize
  <2>2. CASE i = a
    BY <1>1, <1>5, <2>2
  <2> QED BY <1>1, <2>1, <2>2
<1>9. ASSUME NEW i \in 1 .. a, NEW j \in 1 .. PairCount(P, i), Past(f, i, j)
      PROVE  PairStart(P, i, j) + PairSize <= q
  <2>1. i \in 1 .. n
    BY <1>1
  <2>2. PairStart(P, i, j) \in Nat /\ PairStart(P, i, j) + PairSize <= E[i] /\ E[i] \in Nat
    BY <1>1, <1>3, <2>1, PairPlace, EndSteps
  <2>3. CASE i < a
    BY <1>2, <1>7, <2>2, <2>3 DEF PairSize
  <2>4. CASE i = a
    <3>1. PICK c \in Nat, y \in Nat : c = PairCount(P, i) /\ y = E[i]
      BY <1>1, <1>3, <2>1, <2>2, PoolFacts
    <3>2. j <= c - m /\ j \in 1 .. c
      BY <1>1, <1>2, <1>3, <1>9, <2>4, <3>1 DEF Past
    <3>3. q = y - PairSize * m
      BY <1>4, <2>4, <3>1
    <3>4. PairStart(P, i, j) = y - PairSize * (c - j + 1)
      BY <1>3, <3>1 DEF PairStart
    <3> QED BY <1>2, <3>1, <3>2, <3>3, <3>4 DEF PairSize
  <2> QED BY <1>1, <2>3, <2>4
<1> QED BY <1>1, <1>2, <1>3, <1>6, <1>8, <1>9

(* What ends before a place is still there.                                *)
KeptBelow(f, g, q) ==
    /\ g.pool = f.pool
    /\ \A p \in Nat, v, z \in Nat : p + z <= q /\ HeldAt(f, p, v, z) => HeldAt(g, p, v, z)

LEMMA NodeKept ==
    ASSUME NEW f, f.pool \in Pools, NEW g, NEW q \in Nat, KeptBelow(f, g, q),
           NEW i \in 1 .. Len(f.pool), EndOf(f.pool)[i - 1] + NodeSize <= q, NodeHeld(f, i)
    PROVE  NodeHeld(g, i)
<1>1. PICK x, c, id : x \in Nat /\ c \in Nat /\ id \in Nat /\ x = EndOf(f.pool)[i - 1]
                      /\ c = PairCount(f.pool, i) /\ id = f.pool[i].id
  BY PoolFacts, EndSteps
<1>2. x + 4 \in Nat /\ x + 4 <= q /\ (x + 4) + 2 <= q /\ 4 \in Nat /\ 2 \in Nat
  BY <1>1 DEF NodeSize
<1>3. HeldAt(f, x, id, 4) /\ HeldAt(f, x + 4, c, 2)
  BY <1>1 DEF NodeHeld
<1>4. HeldAt(g, x, id, 4) /\ HeldAt(g, x + 4, c, 2)
  BY <1>1, <1>2, <1>3, Zenon DEF KeptBelow
<1> QED BY <1>1, <1>4 DEF NodeHeld, KeptBelow

LEMMA PairKept ==
    ASSUME NEW f, f.pool \in Pools, NEW g, NEW q \in Nat, KeptBelow(f, g, q),
           NEW i \in 1 .. Len(f.pool), NEW j \in 1 .. PairCount(f.pool, i),
           PairStart(f.pool, i, j) + PairSize <= q, PairHeld(f, i, j)
    PROVE  PairHeld(g, i, j)
<1>1. PICK x, k, t, v : x = PairStart(f.pool, i, j) /\ k = f.pool[i].pairs[j].key
                        /\ t = f.pool[i].pairs[j].type /\ v = f.pool[i].pairs[j].val
  OBVIOUS
<1>2. x \in Nat /\ k \in Nat /\ t \in Nat /\ v \in Nat
  BY <1>1, PoolFacts, PairPlace
<1>3. /\ x + 8 \in Nat /\ x + 8 <= q /\ x + 9 \in Nat /\ (x + 8) + 1 <= q /\ (x + 9) + 8 <= q
      /\ 8 \in Nat /\ 1 \in Nat
  <2>1. x + PairSize <= q
    BY <1>1, Zenon
  <2> QED BY <1>2, <2>1 DEF PairSize
<1>4. HeldAt(f, x, k, 8) /\ HeldAt(f, x + 8, t, 1) /\ HeldAt(f, x + 9, v, 8)
  BY <1>1 DEF PairHeld
<1>5. HeldAt(g, x, k, 8) /\ HeldAt(g, x + 8, t, 1) /\ HeldAt(g, x + 9, v, 8)
  BY <1>2, <1>3, <1>4, Zenon DEF KeptBelow
<1> QED BY <1>1, <1>5 DEF PairHeld, KeptBelow

LEMMA WrittenKept ==
    ASSUME NEW f, f.pool \in Pools, f.pos \in Nat, Cursor(f), WrittenSoFar(f), NEW g, KeptBelow(f, g, f.pos)
    PROVE  /\ HeldAt(g, 0, Len(f.pool), 4)
           /\ \A i \in 1 .. Begun(f) : NodeHeld(g, i)
           /\ \A i \in 1 .. Begun(f) : \A j \in 1 .. PairCount(f.pool, i) :
                Past(f, i, j) => PairHeld(g, i, j)
<1>1. PICK q : q \in Nat /\ q = f.pos
  OBVIOUS
<1>2. Begun(f) \in 0 .. Len(f.pool) /\ Len(f.pool) \in Nat
  BY PoolFacts DEF Begun, Cursor
<1>3. \A i \in 1 .. Begun(f) : i \in 1 .. Len(f.pool)
  BY <1>2
<1>4. HeldAt(g, 0, Len(f.pool), 4)
  <2>1. 0 + 4 <= q /\ 0 \in Nat /\ 4 \in Nat
    BY <1>1, CursorPast
  <2> QED BY <1>1, <1>2, <2>1, Zenon DEF KeptBelow, WrittenSoFar
<1>5. ASSUME NEW i \in 1 .. Begun(f) PROVE NodeHeld(g, i)
  BY <1>1, <1>3, CursorPast, NodeKept DEF WrittenSoFar
<1>6. ASSUME NEW i \in 1 .. Begun(f), NEW j \in 1 .. PairCount(f.pool, i), Past(f, i, j)
      PROVE  PairHeld(g, i, j)
  <2>1. PairHeld(f, i, j)
    BY <1>6 DEF WrittenSoFar
  <2>2. PairStart(f.pool, i, j) + PairSize <= q
    BY <1>1, <1>6, CursorPast
  <2> QED BY <1>1, <1>3, <2>1, <2>2, PairKept
<1> QED BY <1>4, <1>5, <1>6

(* A file is cut off.                                                      *)
LEMMA AllKept ==
    ASSUME NEW f, f.pool \in Pools, AllHeld(f), NEW g, g.pool = f.pool,
           \A p \in Nat, v, z \in Nat : HeldAt(f, p, v, z) => HeldAt(g, p, v, z)
    PROVE  AllHeld(g)
<1>1. PICK q : q \in Nat /\ q = FileSize(f.pool) /\ KeptBelow(f, g, q) /\ KeptBelow(f, g, 4)
  <2>1. Len(f.pool) \in 0 .. Len(f.pool)
    BY PoolFacts
  <2>2. FileSize(f.pool) \in Nat
    BY <2>1, EndPlace
  <2> QED BY <2>2 DEF KeptBelow
<1>2. HeldAt(g, 0, Len(f.pool), 4)
  <2>1. Len(f.pool) \in Nat /\ 0 \in Nat /\ 4 \in Nat
    BY PoolFacts
  <2> QED BY <2>1, Zenon DEF AllHeld
<1>3. ASSUME NEW i \in 1 .. Len(f.pool)
      PROVE  /\ i \in 0 .. Len(f.pool) /\ EndOf(f.pool)[i] \in Nat /\ EndOf(f.pool)[i] <= q
             /\ EndOf(f.pool)[i - 1] + NodeSize <= q
  <2>1. Len(f.pool) \in Nat
    BY PoolFacts
  <2>2. i \in 0 .. Len(f.pool)
    BY <2>1
  <2>3. PICK x, y, c : x \in Nat /\ y \in Nat /\ c \in Nat /\ x = EndOf(f.pool)[i - 1]
                       /\ y = EndOf(f.pool)[i] /\ c = PairCount(f.pool, i)
    <3>1. i - 1 \in 0 .. Len(f.pool)
      BY <2>1
    <3>2. EndOf(f.pool)[i] \in Nat /\ EndOf(f.pool)[i - 1] \in Nat
      BY <2>2, <3>1, EndSteps
    <3>3. PairCount(f.pool, i) \in Nat
      BY PoolFacts
    <3> QED BY <3>2, <3>3
  <2>4. y <= q /\ y = x + NodeSize + PairSize * c
    <3>1. y <= q
      BY <1>1, <2>2, <2>3, EndPlace
    <3>2. y = x + NodeSize + PairSize * c
      BY <2>3, EndSteps
    <3> QED BY <3>1, <3>2
  <2>5. x + NodeSize <= q
    <3>1. q \in Nat /\ x \in Nat /\ c \in Nat /\ y \in Nat
      BY <1>1, <2>3
    <3> QED BY <2>4, <3>1 DEF NodeSize, PairSize
  <2> QED BY <2>2, <2>3, <2>4, <2>5
<1>4. ASSUME NEW i \in 1 .. Len(f.pool) PROVE NodeHeld(g, i)
  BY <1>1, <1>3, NodeKept DEF AllHeld
<1>5. ASSUME NEW i \in 1 .. Len(f.pool), NEW j \in 1 .. PairCount(f.pool, i) PROVE PairHeld(g, i, j)
  <2>1. PairHeld(f, i, j)
    BY DEF AllHeld
  <2>2. PairStart(f.pool, i, j) \in Nat /\ PairStart(f.pool, i, j) + PairSize <= EndOf(f.pool)[i]
    BY PairPlace
  <2>3. PairStart(f.pool, i, j) + PairSize <= q
    BY <1>1, <1>3, <2>2 DEF PairSize
  <2> QED BY <1>1, <2>1, <2>3, PairKept
<1> QED BY <1>2, <1>4, <1>5 DEF AllHeld

(***************************************************************************)
(* The steps of the writer.                                                *)
(***************************************************************************)
LEMMA EstFacts ==
    ASSUME NEW pool \in Pools
    PROVE  MemEst(pool) \in Nat /\ FileSize(pool) \in Nat /\ FileSize(pool) >= 4
<1>1. PICK n, g, z : n \in Nat /\ n = Len(pool) /\ g \in Nat /\ g = Guess /\ z = MemEst(pool)
  BY PoolFacts, SavedFileAssumption
<1>2. z = 4 + NodeSize * n + PairSize * g * n
  BY <1>1 DEF MemEst
<1>3. PairSize * g * n \in Nat
  <2>1. PICK h \in Nat : h = 17 * g
    BY <1>1
  <2>2. h * n \in Nat
    BY <1>1, <2>1, SMT
  <2> QED BY <2>1, <2>2 DEF PairSize
<1>4. z \in Nat
  BY <1>1, <1>2, <1>3 DEF NodeSize
<1>5. 0 \in 0 .. Len(pool)
  BY <1>1
<1>6. FileSize(pool) \in Nat /\ EndOf(pool)[0] <= FileSize(pool) /\ EndOf(pool)[0] = 4
  BY <1>5, EndPlace, EndSteps
<1> QED BY <1>1, <1>4, <1>6

LEMMA SaveStep ==
    ASSUME NEW f, DiskInv(f), f.at = "none", NEW pool \in Pools, NEW g,
           g = Sized([f EXCEPT !.at = "try", !.pool = pool, !.add = MemEst(pool)], MemEst(pool))
    PROVE  DiskInv(g)
<1>1. PICK n, h : /\ n \in Nat /\ n = MemEst(pool)
                  /\ h = [f EXCEPT !.at = "try", !.pool = pool, !.add = n] /\ g = Sized(h, n)
  BY EstFacts
<1>2. /\ IsDisk(h) /\ h.at = "try" /\ h.pool = pool /\ h.add = n /\ h.size = f.size /\ h.pos = 0
      /\ h.read = [x \in {} |-> x] /\ h.size \in Nat
  BY <1>1 DEF DiskInv, IsDisk
<1>3. /\ IsDisk(g) /\ g.at = "try" /\ g.pool = pool /\ g.add = n /\ g.size = n /\ g.pos = 0
      /\ g.read = [x \in {} |-> x]
  <2>1. IsSized(h, g, n)
    BY <1>1, <1>2, SizedFacts
  <2> QED BY <1>2, <2>1 DEF IsSized, Alike
<1>4. RoomFor(g)
  <2>1. PICK z \in Nat : z = FileSize(pool) /\ z >= 4
    BY EstFacts
  <2> QED BY <1>1, <1>3, <2>1 DEF RoomFor
<1> QED BY <1>1, <1>3, <1>4 DEF DiskInv, Ats

AgainOf(f) == Sized([f EXCEPT !.at = "try", !.add = 2 * @, !.pos = 0], f.size + 2 * f.add)

(* A try without enough room.                                              *)
LEMMA AgainStep ==
    ASSUME NEW f, DiskInv(f), f.at \in {"try", "write"}, NEW g, g = AgainOf(f), NEW z \in Nat,
           f.pos + z <= FileSize(f.pool), ~ Enough(f, z)
    PROVE  DiskInv(g)
<1>1. PICK s, a, e, t, pool, p :
          /\ s \in Nat /\ s = f.size /\ a \in Nat /\ a = f.add /\ pool = f.pool
          /\ p \in Nat /\ p = f.pos
          /\ e \in Nat /\ e = MemEst(pool) /\ t \in Nat /\ t = FileSize(pool)
  BY EstFacts DEF DiskInv, RoomFor
<1>2. pool \in Pools /\ s = 2 * a - e /\ s < 2 * t + e
  BY <1>1 DEF DiskInv, RoomFor
<1>3. s < t
  <2>1. p + z <= t /\ ~ (s - p >= z)
    BY <1>1, Zenon DEF Enough
  <2> QED BY <1>1, <2>1
<1>4. PICK n, b, h : /\ n \in Nat /\ n = s + 2 * a /\ b \in Nat /\ b = 2 * a
                     /\ h = [f EXCEPT !.at = "try", !.add = b, !.pos = 0] /\ g = Sized(h, n)
  <2>1. s + 2 * a \in Nat /\ 2 * a \in Nat
    BY <1>1
  <2> QED BY <1>1, <2>1 DEF AgainOf
<1>5. /\ IsDisk(h) /\ h.at = "try" /\ h.pool = pool /\ h.add = b /\ h.size \in Nat /\ h.pos = 0
      /\ h.read = [x \in {} |-> x]
  BY <1>1, <1>4 DEF DiskInv, IsDisk
<1>6. /\ IsDisk(g) /\ g.at = "try" /\ g.pool = pool /\ g.add = b /\ g.size = n /\ g.pos = 0
      /\ g.read = [x \in {} |-> x]
  <2>1. IsSized(h, g, n)
    BY <1>4, <1>5, SizedFacts
  <2> QED BY <1>5, <2>1 DEF IsSized, Alike
<1>7. RoomFor(g)
  <2>1. n = 2 * b - e /\ n < 2 * t + e
    BY <1>1, <1>2, <1>3, <1>4
  <2> QED BY <1>1, <1>4, <1>6, <2>1 DEF RoomFor
<1> QED BY <1>2, <1>4, <1>6, <1>7 DEF DiskInv, Ats

(* A step of a try that has room.                                          *)
LEMMA WriteInv ==
    ASSUME NEW f, DiskInv(f), f.at \in {"try", "write"}, NEW g, IsDisk(g), g.at = "write",
           g.pool = f.pool, g.add = f.add, g.size = f.size, g.read = f.read,
           g.pos \in Nat, g.pos <= f.size, Cursor(g), WrittenSoFar(g)
    PROVE  DiskInv(g)
<1>1. /\ RoomFor(g) /\ g.size \in Nat /\ g.pool \in Pools /\ g.read = [n \in {} |-> n]
  BY DEF DiskInv, RoomFor
<1> QED BY <1>1 DEF DiskInv, Ats

LEMMA CountStep ==
    ASSUME NEW f, DiskInv(f), f.at = "try", Enough(f, 4), NEW g,
           g = [Pushed(f, Len(f.pool), 4) EXCEPT !.at = "write", !.nodes = Len(f.pool), !.pairs = 0]
    PROVE  DiskInv(g)
<1>1. PICK n, h : n \in Nat /\ n = Len(f.pool) /\ h = Pushed(f, n, 4)
  BY PoolFacts DEF DiskInv
<1>2. IsDisk(f) /\ f.size \in Nat /\ f.pos = 0 /\ f.pool \in Pools /\ 4 \in Nat /\ 0 \in Nat
  BY DEF DiskInv
<1>3. /\ IsDisk(h) /\ h.pool = f.pool /\ h.add = f.add /\ h.size = f.size /\ h.pos = f.pos + 4
      /\ h.read = f.read /\ HeldAt(h, f.pos, n, 4)
  <2>1. IsPushed(f, h, n, 4)
    BY <1>1, <1>2, PushedFacts
  <2> QED BY <2>1 DEF IsPushed, Alike
<1>4. g = [h EXCEPT !.at = "write", !.nodes = n, !.pairs = 0]
  BY <1>1, Zenon
<1>5. /\ IsDisk(g) /\ g.at = "write" /\ g.pool = f.pool /\ g.add = f.add /\ g.size = f.size
      /\ g.pos = 4 /\ g.read = f.read /\ g.mem = h.mem /\ g.nodes = n /\ g.pairs = 0
  <2>1. /\ IsDisk(g) /\ g.at = "write" /\ g.pool = h.pool /\ g.add = h.add /\ g.size = h.size
        /\ g.pos = h.pos /\ g.read = h.read /\ g.mem = h.mem /\ g.nodes = n /\ g.pairs = 0
    BY <1>3, <1>4 DEF IsDisk
  <2>2. f.pos + 4 = 4
    BY <1>2
  <2> QED BY <1>3, <2>1, <2>2
<1>6. g.pos <= f.size
  BY <1>2, <1>5 DEF Enough
<1>7. Begun(g) = 0
  BY <1>1, <1>5 DEF Begun
<1>8. Cursor(g)
  <2>1. EndOf(f.pool)[0] = 4
    BY <1>2, EndSteps
  <2> QED BY <1>1, <1>5, <1>7, <2>1 DEF Cursor, PairSize
<1>9. WrittenSoFar(g)
  <2>1. HeldAt(g, 0, n, 4)
    BY <1>2, <1>3, <1>5 DEF HeldAt
  <2> QED BY <1>1, <1>5, <1>7, <2>1 DEF WrittenSoFar
<1>10. g.pos \in Nat /\ f.at \in {"try", "write"}
  BY <1>5
<1> QED BY <1>5, <1>6, <1>8, <1>9, <1>10, WriteInv

(* What the steps do, of any memory.                                       *)
NodePut(f, g) ==
    LET node == f.pool[Len(f.pool) - f.nodes + 1]
    IN  g = [Pushed(Pushed(f, node.id, 4), Len(node.pairs), 2) EXCEPT
                !.nodes = @ - 1, !.pairs = Len(node.pairs)]

PairPut(f, g) ==
    LET pairs == f.pool[Len(f.pool) - f.nodes].pairs
        pair  == pairs[Len(pairs) - f.pairs + 1]
    IN  g = [Pushed(Pushed(Pushed(f, pair.key, 8), pair.type, 1), pair.val, 8) EXCEPT !.pairs = @ - 1]

LEMMA NodeStep ==
    ASSUME NEW f, DiskInv(f), f.at = "write", f.pairs = 0, f.nodes > 0, Enough(f, NodeSize),
           NEW g, NodePut(f, g)
    PROVE  DiskInv(g)
<1>1. /\ IsDisk(f) /\ f.size \in Nat /\ f.pos \in Nat /\ f.pool \in Pools /\ Cursor(f) /\ WrittenSoFar(f)
      /\ 4 \in Nat /\ 2 \in Nat /\ f.nodes \in Nat
  BY DEF DiskInv, Cursor
<1>2. PICK i : AtNode(f, i) /\ f.pos = EndOf(f.pool)[i - 1]
  BY <1>1, CursorNode
<1>3. PICK n, m, q, P : /\ n \in Nat /\ n = Len(f.pool) /\ m \in Nat /\ m = f.nodes /\ q \in Nat /\ q = f.pos
                        /\ P = f.pool /\ P \in Pools /\ m > 0
                        /\ i \in 1 .. n /\ n - m = i - 1 /\ i = n - m + 1 /\ m <= n
  BY <1>1, <1>2, PoolFacts DEF AtNode, Begun, Cursor
<1>0. /\ n \in Nat /\ m \in Nat /\ q \in Nat /\ i \in 1 .. n /\ n - m = i - 1 /\ i = n - m + 1
      /\ m <= n /\ m > 0
  BY <1>3, Zenon
<1>4. PICK id, c : id \in Nat /\ id = P[i].id /\ c \in Nat /\ c = PairCount(P, i)
  BY <1>3, PoolFacts
<1>5. PICK h : h = Pushed(f, id, 4) /\ IsPushed(f, h, id, 4)
  BY <1>1, PushedFacts
<1>6. PICK u : u = Pushed(h, c, 2) /\ IsPushed(h, u, c, 2)
  <2>1. IsDisk(h) /\ h.size \in Nat /\ h.pos \in Nat
    BY <1>1, <1>5 DEF IsPushed
  <2> QED BY <1>1, <2>1, PushedFacts
<1>7. g = [u EXCEPT !.nodes = @ - 1, !.pairs = c]
  <2>1. PICK nd : nd = f.pool[Len(f.pool) - f.nodes + 1] /\ nd = P[i]
    BY <1>3, Zenon
  <2>2. nd.id = id /\ Len(nd.pairs) = c
    BY <1>4, <2>1, Zenon DEF PairCount
  <2> QED BY <1>5, <1>6, <2>1, <2>2, Zenon DEF NodePut
<1>8. /\ IsDisk(g) /\ g.at = u.at /\ g.pool = u.pool /\ g.add = u.add /\ g.size = u.size
      /\ g.pos = u.pos /\ g.read = u.read /\ g.mem = u.mem /\ g.nodes = u.nodes - 1 /\ g.pairs = c
  <2>1. IsDisk(u)
    BY <1>6 DEF IsPushed
  <2> QED BY <1>7, <2>1 DEF IsDisk
<1>9. /\ g.at = "write" /\ g.pool = f.pool /\ g.add = f.add /\ g.size = f.size /\ g.read = f.read
      /\ g.nodes = m - 1 /\ g.pairs = c /\ g.pos = (q + 4) + 2 /\ h.pos = q + 4 /\ h.size = f.size
      /\ h.pool = f.pool
  BY <1>3, <1>5, <1>6, <1>8 DEF IsPushed, Alike
<1>10. g.pos = q + NodeSize /\ g.pos \in Nat /\ g.pos <= f.size
  <2>1. PICK z \in Nat : z = f.size /\ z - q >= 6
    BY <1>1, <1>3 DEF Enough, NodeSize
  <2>2. q + 6 = (q + 4) + 2 /\ q + 6 \in Nat /\ q + 6 <= z
    BY <1>0, <2>1
  <2> QED BY <1>9, <2>1, <2>2 DEF NodeSize
<1>11. Begun(g) = i
  BY <1>3, <1>9 DEF Begun
<1>12. Cursor(g)
  <2>1. PICK y : y \in Nat /\ y = EndOf(P)[i]
    BY <1>3, PoolFacts, EndSteps
  <2>2. y = q + NodeSize + PairSize * c
    BY <1>2, <1>3, <1>4, <2>1, EndSteps
  <2>3. q + NodeSize = y - PairSize * c
    BY <1>0, <1>4, <2>1, <2>2 DEF NodeSize, PairSize
  <2>4. m - 1 \in 0 .. n
    BY <1>0
  <2>5. i # 0 /\ c <= c
    BY <1>0, <1>4
  <2> QED BY <1>3, <1>4, <1>9, <1>10, <1>11, <2>1, <2>3, <2>4, <2>5, Zenon DEF Cursor
<1>13. KeptBelow(f, g, q)
  <2>1. ASSUME NEW p \in Nat, NEW v \in Nat, NEW z \in Nat, p + z <= q, HeldAt(f, p, v, z)
        PROVE HeldAt(g, p, v, z)
    <3>1. HeldAt(h, p, v, z)
      BY <1>3, <1>5, <2>1 DEF IsPushed
    <3>2. p + z <= h.pos
      BY <1>0, <1>9, <2>1
    <3>3. HeldAt(u, p, v, z)
      BY <1>6, <3>1, <3>2 DEF IsPushed
    <3> QED BY <1>8, <3>3 DEF HeldAt
  <2> QED BY <1>9, <2>1 DEF KeptBelow
<1>14. HeldAt(g, q, id, 4) /\ HeldAt(g, q + 4, c, 2)
  <2>1. HeldAt(h, q, id, 4) /\ HeldAt(u, q + 4, c, 2)
    BY <1>3, <1>5, <1>6, <1>9 DEF IsPushed
  <2>2. q + 4 <= h.pos
    BY <1>0, <1>9
  <2>3. HeldAt(u, q, id, 4)
    BY <1>1, <1>3, <1>4, <1>6, <2>1, <2>2 DEF IsPushed
  <2> QED BY <1>8, <2>1, <2>3 DEF HeldAt
<1>15. NodeHeld(g, i)
  BY <1>2, <1>3, <1>4, <1>9, <1>14 DEF NodeHeld
<1>16. WrittenSoFar(g)
  <2>1. /\ HeldAt(g, 0, Len(P), 4)
        /\ \A k \in 1 .. Begun(f) : NodeHeld(g, k)
        /\ \A k \in 1 .. Begun(f) : \A j \in 1 .. PairCount(P, k) : Past(f, k, j) => PairHeld(g, k, j)
    BY <1>1, <1>3, <1>13, WrittenKept
  <2>2. Begun(f) = i - 1
    BY <1>2 DEF AtNode
  <2>3. \A k \in 1 .. i : NodeHeld(g, k)
    BY <1>3, <1>15, <2>1, <2>2
  <2>4. ASSUME NEW k \in 1 .. i, NEW j \in 1 .. PairCount(P, k), Past(g, k, j) PROVE PairHeld(g, k, j)
    <3>1. k # i
      <4>1. j <= c - c \/ k < i
        BY <1>3, <1>4, <1>9, <1>11, <2>4 DEF Past
      <4> QED BY <1>4, <4>1
    <3>2. k \in 1 .. (i - 1) /\ k \in 1 .. n
      BY <1>3, <3>1
    <3>3. PairCount(P, k) \in Nat
      BY <1>3, <3>2, PoolFacts
    <3>4. Past(f, k, j)
      BY <1>3, <2>2, <3>2, <3>3 DEF Past
    <3> QED BY <2>1, <2>2, <3>2, <3>4
  <2> QED BY <1>3, <1>9, <1>11, <2>1, <2>3, <2>4 DEF WrittenSoFar
<1> QED BY <1>8, <1>9, <1>10, <1>12, <1>16, WriteInv

LEMMA PairStep ==
    ASSUME NEW f, DiskInv(f), f.at = "write", f.pairs > 0, Enough(f, PairSize), NEW g, PairPut(f, g)
    PROVE  DiskInv(g)
<1>1. /\ IsDisk(f) /\ f.size \in Nat /\ f.pos \in Nat /\ f.pool \in Pools /\ Cursor(f) /\ WrittenSoFar(f)
      /\ 8 \in Nat /\ 1 \in Nat /\ f.pairs \in Nat
  BY DEF DiskInv, Cursor
<1>2. PICK i, j : AtPair(f, i, j) /\ f.pos = PairStart(f.pool, i, j)
  BY <1>1, CursorPair
<1>3. PICK n, c, m, q, P : /\ n \in Nat /\ n = Len(f.pool) /\ q \in Nat /\ q = f.pos /\ P = f.pool
                           /\ P \in Pools
                           /\ c \in Nat /\ c = PairCount(P, i) /\ m \in Nat /\ m = f.pairs /\ m > 0
                           /\ i \in 1 .. n /\ Begun(f) = i /\ j \in 1 .. c /\ m = c - j + 1 /\ j = c - m + 1
  <2>1. PICK n, c, m : /\ n = Len(f.pool) /\ c = PairCount(f.pool, i) /\ m = f.pairs /\ n \in Nat /\ c \in Nat
                       /\ m \in Nat /\ m > 0 /\ i \in 1 .. n /\ j \in 1 .. c /\ m = c - j + 1 /\ Begun(f) = i
    BY <1>1, <1>2, PoolFacts DEF AtPair
  <2>2. j = c - m + 1
    BY <2>1
  <2> QED BY <1>1, <2>1, <2>2
<1>0. /\ n \in Nat /\ c \in Nat /\ m \in Nat /\ q \in Nat /\ m > 0 /\ i \in 1 .. n /\ j \in 1 .. c
      /\ m = c - j + 1 /\ j = c - m + 1
  BY <1>3, Zenon
<1>4. PICK k, t, v : /\ k \in Nat /\ t \in Nat /\ v \in Nat /\ k = P[i].pairs[j].key
                     /\ t = P[i].pairs[j].type /\ v = P[i].pairs[j].val
  BY <1>3, PoolFacts
<1>5. PICK h : h = Pushed(f, k, 8) /\ IsPushed(f, h, k, 8)
  BY <1>1, PushedFacts
<1>6. PICK u : u = Pushed(h, t, 1) /\ IsPushed(h, u, t, 1)
  <2>1. IsDisk(h) /\ h.size \in Nat /\ h.pos \in Nat
    BY <1>1, <1>5 DEF IsPushed
  <2> QED BY <1>1, <2>1, PushedFacts
<1>7. PICK w : w = Pushed(u, v, 8) /\ IsPushed(u, w, v, 8)
  <2>1. IsDisk(u) /\ u.size \in Nat /\ u.pos \in Nat
    BY <1>1, <1>5, <1>6 DEF IsPushed
  <2> QED BY <1>1, <2>1, PushedFacts
<1>8. g = [w EXCEPT !.pairs = @ - 1]
  <2>1. PICK l : l = f.pool[Len(f.pool) - f.nodes].pairs /\ l = P[i].pairs /\ Len(l) = c
    BY <1>3, Zenon DEF Begun, PairCount
  <2>2. PICK e : e = l[Len(l) - f.pairs + 1] /\ e = P[i].pairs[j]
    BY <1>3, <2>1, Zenon
  <2>3. e.key = k /\ e.type = t /\ e.val = v
    BY <1>4, <2>2, Zenon
  <2> QED BY <1>5, <1>6, <1>7, <2>1, <2>2, <2>3, Zenon DEF PairPut
<1>9. /\ IsDisk(g) /\ g.at = w.at /\ g.pool = w.pool /\ g.add = w.add /\ g.size = w.size
      /\ g.pos = w.pos /\ g.read = w.read /\ g.mem = w.mem /\ g.nodes = w.nodes /\ g.pairs = w.pairs - 1
  <2>1. IsDisk(w)
    BY <1>7 DEF IsPushed
  <2> QED BY <1>8, <2>1 DEF IsDisk
<1>10. /\ g.at = "write" /\ g.pool = f.pool /\ g.add = f.add /\ g.size = f.size /\ g.read = f.read
       /\ g.nodes = f.nodes /\ g.pairs = m - 1 /\ h.pos = q + 8 /\ u.pos = (q + 8) + 1
       /\ g.pos = ((q + 8) + 1) + 8
       /\ h.pool = f.pool /\ u.pool = f.pool /\ h.size = f.size /\ u.size = f.size
  <2>1. /\ Alike(f, h) /\ h.size = f.size /\ h.pos = f.pos + 8
        /\ Alike(h, u) /\ u.size = h.size /\ u.pos = h.pos + 1
        /\ Alike(u, w) /\ w.size = u.size /\ w.pos = u.pos + 8
    BY <1>5, <1>6, <1>7, Zenon DEF IsPushed
  <2>2. w.at = f.at /\ w.pool = f.pool /\ w.add = f.add /\ w.read = f.read /\ w.nodes = f.nodes
        /\ w.pairs = f.pairs
    BY <2>1, Zenon DEF Alike
  <2>3. h.pos = q + 8 /\ u.pos = (q + 8) + 1 /\ w.pos = ((q + 8) + 1) + 8
    BY <1>3, <2>1, Zenon
  <2>4. h.pool = f.pool /\ u.pool = f.pool
    BY <2>1, Zenon DEF Alike
  <2> QED BY <1>3, <1>9, <2>1, <2>2, <2>3, <2>4, Zenon
<1>11. u.pos = q + 9
  BY <1>0, <1>10
<1>12. g.pos = q + PairSize /\ g.pos \in Nat /\ g.pos <= f.size
  <2>1. PICK z \in Nat : z = f.size /\ z - q >= 17
    BY <1>1, <1>3 DEF Enough, PairSize
  <2>2. q + 17 = ((q + 8) + 1) + 8 /\ q + 17 \in Nat /\ q + 17 <= z
    BY <1>0, <2>1
  <2> QED BY <1>10, <2>1, <2>2 DEF PairSize
<1>13. Begun(g) = i
  BY <1>3, <1>10 DEF Begun
<1>14. Cursor(g)
  <2>1. PICK y : y \in Nat /\ y = EndOf(P)[i]
    <3>1. i \in 0 .. n
      BY <1>0
    <3> QED BY <1>3, <3>1, EndSteps
  <2>2. q = y - PairSize * m
    BY <1>1, <1>3, <2>1 DEF Cursor
  <2>3. q + PairSize = y - PairSize * (m - 1) /\ m - 1 \in Nat /\ m - 1 <= c /\ i # 0
    BY <1>0, <2>1, <2>2 DEF PairSize
  <2>4. g.nodes \in 0 .. Len(g.pool)
    BY <1>1, <1>10 DEF Cursor
  <2> QED BY <1>3, <1>10, <1>12, <1>13, <2>1, <2>3, <2>4 DEF Cursor
<1>15. KeptBelow(f, g, q)
  <2>1. ASSUME NEW p \in Nat, NEW x \in Nat, NEW z \in Nat, p + z <= q, HeldAt(f, p, x, z)
        PROVE HeldAt(g, p, x, z)
    <3>1. HeldAt(h, p, x, z)
      BY <1>3, <1>5, <2>1 DEF IsPushed
    <3>2. p + z <= h.pos /\ p + z <= u.pos
      BY <1>0, <1>10, <1>11, <2>1
    <3>3. HeldAt(u, p, x, z)
      BY <1>6, <3>1, <3>2 DEF IsPushed
    <3>4. HeldAt(w, p, x, z)
      BY <1>7, <3>2, <3>3 DEF IsPushed
    <3> QED BY <1>9, <3>4 DEF HeldAt
  <2> QED BY <1>10, <2>1 DEF KeptBelow
<1>16. HeldAt(g, q, k, 8) /\ HeldAt(g, q + 8, t, 1) /\ HeldAt(g, q + 9, v, 8)
  <2>1. HeldAt(h, q, k, 8) /\ HeldAt(u, q + 8, t, 1) /\ HeldAt(w, q + 9, v, 8)
    BY <1>3, <1>5, <1>6, <1>7, <1>10, <1>11 DEF IsPushed
  <2>2. q + 8 <= h.pos /\ q + 8 <= u.pos /\ (q + 8) + 1 <= u.pos /\ q + 8 \in Nat
    BY <1>0, <1>10, <1>11
  <2>3. HeldAt(u, q, k, 8)
    BY <1>1, <1>3, <1>4, <1>6, <2>1, <2>2 DEF IsPushed
  <2>4. HeldAt(w, q, k, 8) /\ HeldAt(w, q + 8, t, 1)
    BY <1>1, <1>3, <1>4, <1>7, <2>1, <2>2, <2>3 DEF IsPushed
  <2> QED BY <1>9, <2>1, <2>4 DEF HeldAt
<1>17. PairHeld(g, i, j)
  BY <1>2, <1>3, <1>4, <1>10, <1>16 DEF PairHeld
<1>18. WrittenSoFar(g)
  <2>1. /\ HeldAt(g, 0, Len(P), 4)
        /\ \A x \in 1 .. Begun(f) : NodeHeld(g, x)
        /\ \A x \in 1 .. Begun(f) : \A y \in 1 .. PairCount(P, x) : Past(f, x, y) => PairHeld(g, x, y)
    BY <1>1, <1>3, <1>15, WrittenKept
  <2>2. ASSUME NEW x \in 1 .. i, NEW y \in 1 .. PairCount(P, x), Past(g, x, y), ~ Past(f, x, y)
        PROVE  x = i /\ y = j
    <3>1. x = i
      BY <1>3, <1>13, <2>2 DEF Past
    <3>2. y \in 1 .. c /\ y <= c - (m - 1) /\ ~ (y <= c - m)
      BY <1>3, <1>10, <1>13, <2>2, <3>1 DEF Past
    <3> QED BY <1>0, <3>1, <3>2
  <2>3. ASSUME NEW x \in 1 .. i, NEW y \in 1 .. PairCount(P, x), Past(g, x, y) PROVE PairHeld(g, x, y)
    BY <1>3, <1>17, <2>1, <2>2, <2>3
  <2> QED BY <1>3, <1>10, <1>13, <2>1, <2>3 DEF WrittenSoFar
<1> QED BY <1>9, <1>10, <1>12, <1>14, <1>18, WriteInv

LEMMA EndStep ==
    ASSUME NEW f, DiskInv(f), f.at = "write", f.pairs = 0, f.nodes = 0, NEW g,
           g = [Sized(f, f.pos) EXCEPT !.at = "file", !.pos = 0]
    PROVE  DiskInv(g)
<1>1. /\ IsDisk(f) /\ f.size \in Nat /\ f.pos \in Nat /\ f.pos <= f.size /\ f.pool \in Pools
      /\ Cursor(f) /\ WrittenSoFar(f) /\ f.read = [n \in {} |-> n]
  BY DEF DiskInv
<1>2. PICK h : h = Sized(f, f.pos) /\ IsSized(f, h, f.pos)
  BY <1>1, SizedFacts
<1>3. g = [h EXCEPT !.at = "file", !.pos = 0]
  BY <1>2, Zenon
<1>4. /\ IsDisk(g) /\ g.at = "file" /\ g.pool = h.pool /\ g.size = h.size /\ g.pos = 0
      /\ g.read = h.read /\ g.mem = h.mem /\ g.pairs = h.pairs
  <2>1. IsDisk(h)
    BY <1>2 DEF IsSized
  <2> QED BY <1>3, <2>1 DEF IsDisk
<1>5. g.pool = f.pool /\ g.size = f.pos /\ g.read = f.read /\ g.pairs = 0
  BY <1>2, <1>4 DEF IsSized, Alike
<1>6. AllHeld(f)
  <2>1. Begun(f) = Len(f.pool)
    BY <1>1, CursorEnd
  <2>2. ASSUME NEW i \in 1 .. Len(f.pool), NEW j \in 1 .. PairCount(f.pool, i) PROVE Past(f, i, j)
    <3>1. PICK c, n : c \in Nat /\ c = PairCount(f.pool, i) /\ n \in Nat /\ n = Len(f.pool)
      BY <1>1, PoolFacts
    <3> QED BY <2>1, <3>1 DEF Past
  <2> QED BY <1>1, <2>1, <2>2 DEF WrittenSoFar, AllHeld
<1>7. ASSUME NEW p \in Nat, NEW v \in Nat, NEW z \in Nat, HeldAt(f, p, v, z) PROVE HeldAt(g, p, v, z)
  <2>1. HeldAt(h, p, v, z)
    BY <1>1, <1>2, <1>7 DEF IsSized
  <2> QED BY <1>4, <2>1 DEF HeldAt
<1>8. AllHeld(g)
  BY <1>1, <1>5, <1>6, <1>7, AllKept
<1> QED BY <1>1, <1>4, <1>5, <1>8 DEF DiskInv, Ats

(***************************************************************************)
(* The steps of the reader.                                                *)
(***************************************************************************)
FileOpened(f, n, g) ==
    LET h == Sized([f EXCEPT !.at = "load"], n)
    IN  g = IF Enough(h, 4) THEN [h EXCEPT !.nodes = Popped(h, 0, 4), !.pos = 4]
            ELSE [h EXCEPT !.at = "bad"]

LEMMA OpenStep ==
    ASSUME NEW f, DiskInv(f), f.at = "file", NEW n \in Nat, n <= f.size, NEW g, FileOpened(f, n, g)
    PROVE  DiskInv(g)
<1>1. /\ IsDisk(f) /\ f.size \in Nat /\ f.pos = 0 /\ f.pairs = 0 /\ f.pool \in Pools /\ AllHeld(f)
      /\ f.read = [x \in {} |-> x]
  BY DEF DiskInv
<1>2. PICK e : e = [f EXCEPT !.at = "load"]
  OBVIOUS
<1>3. /\ IsDisk(e) /\ e.at = "load" /\ e.size = f.size /\ e.pos = 0 /\ e.pairs = 0 /\ e.pool = f.pool
      /\ e.read = f.read /\ e.mem = f.mem
  BY <1>1, <1>2 DEF IsDisk
<1>4. PICK h : h = Sized(e, n) /\ IsSized(e, h, n)
  BY <1>1, <1>3, SizedFacts
<1>5. /\ IsDisk(h) /\ h.at = "load" /\ h.size = n /\ h.pos = 0 /\ h.pairs = 0 /\ h.pool = f.pool
      /\ h.read = [x \in {} |-> x]
  BY <1>1, <1>3, <1>4, Zenon DEF IsSized, Alike
<1>6. AllHeld(h)
  <2>1. ASSUME NEW p \in Nat, NEW v \in Nat, NEW z \in Nat, HeldAt(f, p, v, z) PROVE HeldAt(h, p, v, z)
    <3>1. HeldAt(e, p, v, z)
      BY <1>3, <2>1 DEF HeldAt
    <3> QED BY <1>3, <1>4, <3>1 DEF IsSized
  <2> QED BY <1>1, <1>5, <2>1, AllKept
<1>7. CASE Enough(h, 4)
  <2>1. PICK m : m = Popped(h, 0, 4) /\ g = [h EXCEPT !.nodes = m, !.pos = 4]
    BY <1>2, <1>4, <1>7, Zenon DEF FileOpened
  <2>2. /\ IsDisk(g) /\ g.at = "load" /\ g.size = n /\ g.pos = 4 /\ g.pairs = 0 /\ g.pool = f.pool
        /\ g.read = [x \in {} |-> x] /\ g.nodes = m /\ g.mem = h.mem
    BY <1>5, <2>1 DEF IsDisk
  <2>3. 4 <= n
    BY <1>5, <1>7 DEF Enough
  <2>4. AllHeld(g)
    <3>1. ASSUME NEW p \in Nat, NEW v \in Nat, NEW z \in Nat, HeldAt(h, p, v, z) PROVE HeldAt(g, p, v, z)
      BY <1>5, <2>2, <3>1 DEF HeldAt
    <3> QED BY <1>1, <1>5, <1>6, <2>2, <3>1, AllKept
  <2>5. ASSUME FitsFile(f.pool) PROVE Cursor(g) /\ TakenIn(g)
    <3>1. PICK c : c \in Nat /\ c = Len(f.pool) /\ c < Power[4] /\ EndOf(f.pool)[0] = 4 /\ 0 \in 0 .. c
      BY <1>1, <2>5, PoolFacts, EndSteps DEF FitsFile
    <3>2. HeldAt(h, 0, c, 4)
      BY <1>5, <1>6, <3>1 DEF AllHeld
    <3>3. h.pos + 0 = 0 /\ (h.pos + 0) + 4 <= h.size /\ h.size \in Nat /\ h.pos \in Nat /\ 0 \in Nat
          /\ 4 \in Nat
      BY <1>5, <2>3
    <3>4. m = c
      BY <2>1, <3>1, <3>2, <3>3, PoppedFacts
    <3>5. Begun(g) = 0
      BY <2>2, <3>1, <3>4 DEF Begun
    <3>6. Cursor(g)
      BY <2>2, <3>1, <3>4, <3>5 DEF Cursor, PairSize
    <3>7. TakenIn(g)
      BY <2>2, <3>5 DEF TakenIn, Ids
    <3> QED BY <3>6, <3>7
  <2> QED BY <1>1, <2>2, <2>3, <2>4, <2>5 DEF DiskInv, Ats
<1>8. CASE ~ Enough(h, 4)
  <2>1. g = [h EXCEPT !.at = "bad"]
    BY <1>2, <1>4, <1>8, Zenon DEF FileOpened
  <2>2. IsDisk(g) /\ g.at = "bad" /\ g.size = n /\ g.pos = 0 /\ g.pool = f.pool
    BY <1>5, <2>1 DEF IsDisk
  <2>3. n < FileSize(f.pool)
    <3>1. ~ (n - 0 >= 4)
      BY <1>5, <1>8 DEF Enough
    <3>2. PICK t \in Nat : t = FileSize(f.pool) /\ t >= 4
      BY <1>1, EstFacts
    <3> QED BY <3>1, <3>2
  <2> QED BY <1>1, <2>2, <2>3 DEF DiskInv, Ats
<1> QED BY <1>7, <1>8

(* The next node and its pairs.                                            *)
NodeTaken(f, g) ==
    g = [f EXCEPT !.nodes = @ - 1, !.pos = @ + NodeSize,
                  !.node = Popped(f, 0, 4), !.pairs = Popped(f, 4, 2),
                  !.read = With(@, Popped(f, 0, 4), [k \in {} |-> k])]

IsWith(s, r, x, y) ==
    /\ s = [z \in DOMAIN s |-> s[z]] /\ DOMAIN s = DOMAIN r \cup {x} /\ s[x] = y
    /\ \A z \in DOMAIN r : z # x => s[z] = r[z]

LEMMA WithFacts ==
    ASSUME NEW r, NEW x, NEW y, NEW s, s = With(r, x, y)
    PROVE  IsWith(s, r, x, y)
BY DEF With, IsWith

LEMMA TakeNode ==
    ASSUME NEW f, f.at = "load", f.size \in Nat, f.pos \in Nat, IsDisk(f), f.pool \in Pools, FitsFile(f.pool),
           Cursor(f), AllHeld(f), TakenIn(f), f.pairs = 0, f.nodes > 0, Enough(f, NodeSize)
    PROVE  /\ Popped(f, 0, 4) \notin DOMAIN f.read
           /\ \A g : NodeTaken(f, g) => Cursor(g) /\ AllHeld(g) /\ TakenIn(g)
<1>1. PICK i : AtNode(f, i) /\ f.pos = EndOf(f.pool)[i - 1]
  BY CursorNode
<1>2. PICK n, m, q, P : /\ n \in Nat /\ n = Len(f.pool) /\ m \in Nat /\ m = f.nodes /\ q \in Nat /\ q = f.pos
                        /\ P = f.pool /\ P \in Pools /\ m > 0
                        /\ i \in 1 .. n /\ n - m = i - 1 /\ i = n - m + 1 /\ m <= n /\ Begun(f) = i - 1
  BY <1>1, PoolFacts DEF AtNode, Begun, Cursor
<1>3. /\ n \in Nat /\ m \in Nat /\ q \in Nat /\ i \in 1 .. n /\ n - m = i - 1 /\ i = n - m + 1
      /\ m <= n /\ m > 0
  BY <1>2, Zenon
<1>4. PICK id, c : /\ id \in Nat /\ id = P[i].id /\ c \in Nat /\ c = PairCount(P, i)
                   /\ id < Power[4] /\ c < Power[2]
  <2>1. DOMAIN P = 1 .. n
    BY <1>2, PoolFacts
  <2>2. P[i].id < Power[4] /\ Len(P[i].pairs) < Power[2]
    BY <1>2, <2>1, Zenon DEF FitsFile
  <2>3. P[i].id \in Nat /\ PairCount(P, i) \in Nat
    BY <1>2, PoolFacts
  <2> QED BY <2>2, <2>3 DEF PairCount
<1>5. HeldAt(f, q, id, 4) /\ HeldAt(f, q + 4, c, 2)
  BY <1>1, <1>2, <1>4 DEF AllHeld, NodeHeld
<1>6. PICK s \in Nat : s = f.size /\ s - q >= 6
  BY <1>2 DEF Enough, NodeSize
<1>7. Popped(f, 0, 4) = id
  <2>1. q + 0 = q /\ (q + 0) + 4 <= s /\ 0 \in Nat /\ 4 \in Nat
    BY <1>3, <1>6
  <2>2. HeldAt(f, f.pos + 0, id, 4) /\ (f.pos + 0) + 4 <= f.size
    BY <1>2, <1>5, <1>6, <2>1, Zenon
  <2> QED BY <1>4, <2>1, <2>2, PoppedFacts
<1>8. Popped(f, 4, 2) = c
  <2>1. (q + 4) + 2 <= s /\ 2 \in Nat /\ 4 \in Nat
    BY <1>3, <1>6
  <2> QED BY <1>2, <1>4, <1>5, <1>6, <2>1, PoppedFacts
<1>9. ASSUME NEW k \in 1 .. (i - 1) PROVE k \in 1 .. n /\ k # i /\ P[k].id # id
  <2>1. k \in 1 .. n /\ k # i
    BY <1>3
  <2>2. Distinct(P, n)
    BY <1>2, AllDistinct
  <2> QED BY <1>2, <1>4, <2>1, <2>2 DEF Distinct
<1>10. DOMAIN f.read = Ids(P, i - 1)
  BY <1>2 DEF TakenIn
<1>11. id \notin DOMAIN f.read
  BY <1>9, <1>10 DEF Ids
<1>12. ASSUME NEW g, NodeTaken(f, g) PROVE Cursor(g) /\ AllHeld(g) /\ TakenIn(g)
  <2>1. PICK e : e = [k \in {} |-> k]
    OBVIOUS
  <2>2. g = [f EXCEPT !.nodes = m - 1, !.pos = q + NodeSize, !.node = id, !.pairs = c,
                      !.read = With(f.read, id, e)]
    BY <1>2, <1>7, <1>8, <1>12, <2>1, Zenon DEF NodeTaken
  <2>3. /\ IsDisk(g) /\ g.pool = P /\ g.nodes = m - 1 /\ g.pos = q + NodeSize /\ g.node = id /\ g.pairs = c
        /\ g.read = With(f.read, id, e) /\ g.mem = f.mem /\ g.size = f.size
    BY <1>2, <2>2 DEF IsDisk
  <2>4. Begun(g) = i
    BY <1>2, <2>3 DEF Begun
  <2>5. Cursor(g)
    <3>1. PICK y : y \in Nat /\ y = EndOf(P)[i]
      BY <1>2, PoolFacts, EndSteps
    <3>2. y = q + NodeSize + PairSize * c
      BY <1>1, <1>2, <1>4, <3>1, EndSteps
    <3>3. q + NodeSize = y - PairSize * c
      BY <1>3, <1>4, <3>1, <3>2 DEF NodeSize, PairSize
    <3>4. m - 1 \in 0 .. n /\ i # 0 /\ c <= c
      BY <1>3, <1>4
    <3> QED BY <1>2, <1>4, <2>3, <2>4, <3>1, <3>3, <3>4, Zenon DEF Cursor
  <2>6. AllHeld(g)
    <3>1. ASSUME NEW p \in Nat, NEW v \in Nat, NEW z \in Nat, HeldAt(f, p, v, z) PROVE HeldAt(g, p, v, z)
      BY <2>3, <3>1 DEF HeldAt
    <3> QED BY <1>2, <2>3, <3>1, AllKept
  <2>7. TakenIn(g)
    <3>1. PICK r : r = g.read /\ r = With(f.read, id, e)
      BY <2>3
    <3>2. IsWith(r, f.read, id, e)
      BY <3>1, WithFacts
    <3>3. DOMAIN r = Ids(P, i) /\ r = [z \in DOMAIN r |-> r[z]]
      <4>1. Ids(P, i) = Ids(P, i - 1) \cup {id}
        BY <1>3, <1>4 DEF Ids
      <4> QED BY <1>10, <3>2, <4>1 DEF IsWith
    <3>4. ASSUME NEW k \in 1 .. (i - 1) PROVE NodeRead(g, k)
      <4>1. k \in 1 .. n /\ r[P[k].id] = f.read[P[k].id]
        BY <1>9, <1>10, <3>2 DEF IsWith, Ids
      <4>2. PICK d : d \in Nat /\ d = PairCount(P, k)
        BY <1>2, <4>1, PoolFacts
      <4>3. \A j \in 1 .. d : Past(f, k, j) /\ Past(g, k, j)
        <5>1. f.pairs = 0 /\ (k < i - 1 \/ k = i - 1) /\ k < i
          BY <1>3
        <5>2. \A j \in 1 .. d : j <= d - 0
          BY <4>2
        <5> QED BY <1>2, <2>4, <4>2, <5>1, <5>2 DEF Past
      <4>4. Passed(f, k) = Passed(g, k)
        BY <1>2, <2>3, <4>2, <4>3 DEF Passed
      <4>5. NodeRead(f, k)
        BY <1>2 DEF TakenIn
      <4> QED BY <1>2, <2>3, <3>1, <4>1, <4>4, <4>5, Zenon DEF NodeRead
    <3>5. NodeRead(g, i)
      <4>0. \A j \in 1 .. c : ~ (i < i) /\ ~ (j <= c - c)
        BY <1>3, <1>4
      <4>1. \A j \in 1 .. c : ~ Past(g, i, j)
        BY <1>4, <2>3, <2>4, <4>0, Zenon DEF Past
      <4>2. Passed(g, i) = {}
        BY <1>4, <2>3, <4>1 DEF Passed
      <4>3. g.read[P[i].id] = e
        BY <1>4, <3>1, <3>2 DEF IsWith
      <4>4. PairsRead(e, P[i].pairs, {})
        BY <2>1 DEF PairsRead
      <4> QED BY <2>3, <4>2, <4>3, <4>4, Zenon DEF NodeRead
    <3>6. \A k \in 1 .. i : NodeRead(g, k)
      BY <1>3, <3>4, <3>5
    <3>7. g.node = P[i].id
      BY <1>4, <2>3
    <3> QED BY <2>3, <2>4, <3>1, <3>3, <3>6, <3>7, Zenon DEF TakenIn
  <2> QED BY <2>5, <2>6, <2>7
<1> QED BY <1>7, <1>11, <1>12

(* The next pair of the node.                                              *)
PairTaken(f, g) ==
    LET pair == [type |-> Popped(f, 8, 1), val |-> Popped(f, 9, 8)]
    IN  g = [f EXCEPT !.pairs = @ - 1, !.pos = @ + PairSize,
                      !.read[f.node] = With(@, Popped(f, 0, 8), pair)]

LEMMA TakePair ==
    ASSUME NEW f, f.at = "load", f.size \in Nat, f.pos \in Nat, IsDisk(f), f.pool \in Pools, FitsFile(f.pool),
           Cursor(f), AllHeld(f), TakenIn(f), f.pairs > 0, Enough(f, PairSize), NEW g, PairTaken(f, g)
    PROVE  Cursor(g) /\ AllHeld(g) /\ TakenIn(g)
<1>1. PICK i, j : AtPair(f, i, j) /\ f.pos = PairStart(f.pool, i, j)
  BY CursorPair
<1>2. PICK n, c, m, q, P : /\ n \in Nat /\ n = Len(f.pool) /\ q \in Nat /\ q = f.pos /\ P = f.pool
                           /\ P \in Pools
                           /\ c \in Nat /\ c = PairCount(P, i) /\ m \in Nat /\ m = f.pairs /\ m > 0
                           /\ i \in 1 .. n /\ Begun(f) = i /\ j \in 1 .. c /\ m = c - j + 1 /\ j = c - m + 1
  <2>1. PICK n, c, m : /\ n = Len(f.pool) /\ c = PairCount(f.pool, i) /\ m = f.pairs /\ n \in Nat /\ c \in Nat
                       /\ m \in Nat /\ m > 0 /\ i \in 1 .. n /\ j \in 1 .. c /\ m = c - j + 1 /\ Begun(f) = i
    BY <1>1, PoolFacts DEF AtPair, Cursor
  <2>2. j = c - m + 1
    BY <2>1
  <2> QED BY <2>1, <2>2
<1>3. /\ n \in Nat /\ c \in Nat /\ m \in Nat /\ q \in Nat /\ m > 0 /\ i \in 1 .. n /\ j \in 1 .. c
      /\ m = c - j + 1 /\ j = c - m + 1
  BY <1>2, Zenon
<1>4. PICK l, k, t, v : /\ l = P[i].pairs /\ k \in Nat /\ t \in Nat /\ v \in Nat /\ k = l[j].key
                        /\ t = l[j].type /\ v = l[j].val
                        /\ k < Power[8] /\ t < Power[1] /\ v < Power[8]
  <2>1. PICK p : p = P[i].pairs[j]
    OBVIOUS
  <2>2. /\ p.key \in Nat /\ p.key < Power[8] /\ p.type \in Nat /\ p.type < Power[1]
        /\ p.val \in Nat /\ p.val < Power[8]
    BY <1>2, <2>1, PairTypes
  <2> QED BY <2>1, <2>2, Zenon
<1>5. HeldAt(f, q, k, 8) /\ HeldAt(f, q + 8, t, 1) /\ HeldAt(f, q + 9, v, 8)
  BY <1>1, <1>2, <1>4 DEF AllHeld, PairHeld
<1>6. PICK s \in Nat : s = f.size /\ s - q >= 17
  BY <1>2 DEF Enough, PairSize
<1>7. /\ q + 0 = q /\ (q + 0) + 8 <= s /\ (q + 8) + 1 <= s /\ (q + 9) + 8 <= s
      /\ 0 \in Nat /\ 1 \in Nat /\ 8 \in Nat /\ 9 \in Nat
  BY <1>3, <1>6
<1>8. Popped(f, 0, 8) = k
  <2>1. HeldAt(f, f.pos + 0, k, 8) /\ (f.pos + 0) + 8 <= f.size
    BY <1>2, <1>5, <1>6, <1>7, Zenon
  <2> QED BY <1>4, <1>7, <2>1, PoppedFacts
<1>9. Popped(f, 8, 1) = t
  <2>1. HeldAt(f, f.pos + 8, t, 1) /\ (f.pos + 8) + 1 <= f.size
    BY <1>2, <1>5, <1>6, <1>7, Zenon
  <2> QED BY <1>4, <1>7, <2>1, PoppedFacts
<1>10. Popped(f, 9, 8) = v
  <2>1. HeldAt(f, f.pos + 9, v, 8) /\ (f.pos + 9) + 8 <= f.size
    BY <1>2, <1>5, <1>6, <1>7, Zenon
  <2> QED BY <1>4, <1>7, <2>1, PoppedFacts
<1>11. PICK r, id, o, p, x : /\ r = f.read /\ id = f.node /\ o = r[id] /\ p = [type |-> t, val |-> v]
                             /\ x = With(o, k, p)
  OBVIOUS
<1>12. g = [f EXCEPT !.pairs = m - 1, !.pos = q + PairSize, !.read[id] = x]
  BY <1>2, <1>8, <1>9, <1>10, <1>11, Zenon DEF PairTaken
<1>13. /\ IsDisk(g) /\ g.pool = P /\ g.nodes = f.nodes /\ g.pos = q + PairSize /\ g.node = id
       /\ g.pairs = m - 1
       /\ g.read = [r EXCEPT ![id] = x] /\ g.mem = f.mem /\ g.size = f.size
  BY <1>2, <1>11, <1>12 DEF IsDisk
<1>14. Begun(g) = i
  BY <1>2, <1>13 DEF Begun
<1>15. Cursor(g)
  <2>1. PICK y : y \in Nat /\ y = EndOf(P)[i]
    <3>1. i \in 0 .. n
      BY <1>3
    <3> QED BY <1>2, <3>1, EndSteps
  <2>2. q = y - PairSize * m
    BY <1>2, <2>1 DEF Cursor
  <2>3. q + PairSize = y - PairSize * (m - 1) /\ m - 1 \in Nat /\ m - 1 <= c /\ i # 0
    BY <1>3, <2>1, <2>2 DEF PairSize
  <2>4. g.nodes \in 0 .. Len(g.pool)
    BY <1>2, <1>13 DEF Cursor
  <2> QED BY <1>2, <1>13, <1>14, <2>1, <2>3, <2>4 DEF Cursor
<1>16. AllHeld(g)
  <2>1. ASSUME NEW y \in Nat, NEW w \in Nat, NEW z \in Nat, HeldAt(f, y, w, z) PROVE HeldAt(g, y, w, z)
    BY <1>13, <2>1 DEF HeldAt
  <2> QED BY <1>2, <1>13, <2>1, AllKept
<1>17. /\ r = [z \in DOMAIN r |-> r[z]] /\ DOMAIN r = Ids(P, i) /\ id = P[i].id
       /\ \A y \in 1 .. i : NodeRead(f, y)
  <2>1. i > 0
    BY <1>3
  <2> QED BY <1>2, <1>11, <2>1 DEF TakenIn
<1>18. id \in DOMAIN r
  BY <1>3, <1>17 DEF Ids
<1>19. PICK u : /\ u = g.read /\ u = [z \in DOMAIN u |-> u[z]] /\ DOMAIN u = DOMAIN r /\ u[id] = x
                /\ \A z \in DOMAIN r : z # id => u[z] = r[z]
  <2>1. PICK u : u = g.read /\ u = [r EXCEPT ![id] = x]
    BY <1>13
  <2>2. /\ u = [z \in DOMAIN u |-> u[z]] /\ DOMAIN u = DOMAIN r /\ u[id] = x
        /\ \A z \in DOMAIN r : z # id => u[z] = r[z]
    BY <1>18, <2>1
  <2> QED BY <2>1, <2>2
<1>20. Passed(g, i) = Passed(f, i) \cup {j}
  <2>1. Passed(f, i) = {y \in 1 .. c : y <= c - m}
    BY <1>2, <1>3 DEF Passed, Past
  <2>2. Passed(g, i) = {y \in 1 .. c : y <= c - (m - 1)}
    <3>1. PairCount(g.pool, i) = c /\ g.pairs = m - 1 /\ ~ (i < i)
      BY <1>2, <1>3, <1>13
    <3> QED BY <1>14, <3>1 DEF Passed, Past
  <2>3. \A y \in 1 .. c : y <= c - (m - 1) <=> y <= c - m \/ y = j
    BY <1>3
  <2> QED BY <1>3, <2>1, <2>2, <2>3
<1>21. NodeRead(g, i)
  <2>1. PairsRead(o, l, Passed(f, i))
    <3>1. NodeRead(f, i)
      BY <1>3, <1>17
    <3> QED BY <1>2, <1>4, <1>11, <1>17, <3>1, Zenon DEF NodeRead
  <2>2. IsWith(x, o, k, p)
    BY <1>11, WithFacts
  <2>3. \A a, b \in 1 .. c : l[a].key = l[b].key => a = b
    <3>1. DistinctKeys(l, c)
      BY <1>2, <1>4, AllDistinct
    <3> QED BY <3>1 DEF DistinctKeys
  <2>4. PICK S : S = Passed(f, i) /\ S \in SUBSET (1 .. c)
    BY <1>2 DEF Passed
  <2>5. j \notin S
    <3>1. ~ (i < i) /\ ~ (j <= c - m)
      BY <1>3
    <3> QED BY <1>2, <2>4, <3>1, Zenon DEF Passed, Past
  <2>6. PairsRead(x, l, S \cup {j})
    <3>1. /\ DOMAIN o = {l[y].key : y \in S}
          /\ \A y \in S : o[l[y].key] = [type |-> l[y].type, val |-> l[y].val]
      BY <2>1, <2>4 DEF PairsRead
    <3>2. /\ x = [z \in DOMAIN x |-> x[z]] /\ DOMAIN x = DOMAIN o \cup {k} /\ x[k] = p
          /\ \A z \in DOMAIN o : z # k => x[z] = o[z]
      BY <2>2 DEF IsWith
    <3>3. DOMAIN x = {l[y].key : y \in S \cup {j}}
      BY <1>4, <3>1, <3>2
    <3>4. ASSUME NEW y \in S PROVE x[l[y].key] = [type |-> l[y].type, val |-> l[y].val]
      <4>1. l[y].key # k /\ l[y].key \in DOMAIN o
        BY <1>3, <1>4, <2>3, <2>4, <2>5, <3>1
      <4> QED BY <3>1, <3>2, <4>1
    <3>5. x[l[j].key] = [type |-> l[j].type, val |-> l[j].val]
      BY <1>4, <1>11, <3>2
    <3> QED BY <3>2, <3>3, <3>4, <3>5 DEF PairsRead
  <2> QED BY <1>4, <1>13, <1>17, <1>19, <1>20, <2>4, <2>6, Zenon DEF NodeRead
<1>22. ASSUME NEW y \in 1 .. i, y # i PROVE NodeRead(g, y)
  <2>1. y \in 1 .. n /\ y < i
    BY <1>3, <1>22
  <2>2. P[y].id # id /\ P[y].id \in DOMAIN r
    <3>1. Distinct(P, n)
      BY <1>2, AllDistinct
    <3> QED BY <1>3, <1>17, <1>22, <2>1, <3>1 DEF Ids, Distinct
  <2>3. u[P[y].id] = r[P[y].id]
    BY <1>19, <2>2
  <2>4. Passed(g, y) = Passed(f, y)
    BY <1>2, <1>13, <1>14, <2>1 DEF Passed, Past
  <2>5. NodeRead(f, y)
    BY <1>17
  <2> QED BY <1>2, <1>11, <1>13, <1>19, <2>3, <2>4, <2>5, Zenon DEF NodeRead
<1>23. TakenIn(g)
  <2>1. \A y \in 1 .. i : NodeRead(g, y)
    BY <1>21, <1>22
  <2>2. g.read = [z \in DOMAIN g.read |-> g.read[z]] /\ DOMAIN g.read = Ids(g.pool, i)
    BY <1>13, <1>17, <1>19, Zenon
  <2>3. g.node = g.pool[i].id
    BY <1>13, <1>17, Zenon
  <2> QED BY <1>14, <2>1, <2>2, <2>3, Zenon DEF TakenIn
<1> QED BY <1>15, <1>16, <1>23

(* What was read when all is read.                                         *)
LEMMA TakenAll ==
    ASSUME NEW f, f.pool \in Pools, Cursor(f), TakenIn(f), f.pairs = 0, f.nodes = 0
    PROVE  f.read = Contents(f.pool)
<1>1. PICK n, P, r : n \in Nat /\ n = Len(f.pool) /\ P = f.pool /\ P \in Pools /\ r = f.read
                     /\ Begun(f) = n /\ DOMAIN P = 1 .. n
  BY PoolFacts, CursorEnd
<1>2. r = [z \in DOMAIN r |-> r[z]] /\ DOMAIN r = Ids(P, n) /\ \A i \in 1 .. n : NodeRead(f, i)
  BY <1>1 DEF TakenIn
<1>3. \A a, b \in 1 .. n : P[a].id = P[b].id => a = b
  BY <1>1, AllDistinct DEF Distinct
<1>4. ASSUME NEW i \in 1 .. n PROVE r[P[i].id] = PairsOf(P[i].pairs)
  <2>1. PICK l, c, o : l = P[i].pairs /\ c \in Nat /\ c = PairCount(P, i) /\ o = r[P[i].id]
                       /\ DOMAIN l = 1 .. c
    BY <1>1, PoolFacts
  <2>2. Passed(f, i) = 1 .. c
    <3>1. \A j \in 1 .. c : j <= c - 0 /\ (i < n \/ i = n)
      BY <1>1, <2>1
    <3> QED BY <1>1, <2>1, <3>1 DEF Passed, Past
  <2>3. PairsRead(o, l, 1 .. c)
    BY <1>1, <1>2, <2>1, <2>2 DEF NodeRead
  <2>4. \A a, b \in 1 .. c : l[a].key = l[b].key => a = b
    BY <1>1, <2>1, AllDistinct DEF DistinctKeys
  <2>5. ASSUME NEW k \in DOMAIN o
        PROVE  o[k] = LET pair == l[CHOOSE j \in DOMAIN l : l[j].key = k]
                      IN  [type |-> pair.type, val |-> pair.val]
    <3>1. PICK j \in 1 .. c : k = l[j].key
      BY <2>3 DEF PairsRead
    <3>2. PICK m : m = CHOOSE y \in DOMAIN l : l[y].key = k
      OBVIOUS
    <3>3. m \in 1 .. c /\ l[m].key = k
      BY <2>1, <3>1, <3>2
    <3>4. m = j
      BY <2>4, <3>1, <3>3
    <3>5. o[l[j].key] = [type |-> l[j].type, val |-> l[j].val]
      BY <2>3 DEF PairsRead
    <3> QED BY <3>1, <3>2, <3>4, <3>5, Zenon
  <2>6. o = [k \in DOMAIN o |-> o[k]] /\ DOMAIN o = {l[j].key : j \in DOMAIN l}
    BY <2>1, <2>3 DEF PairsRead
  <2>7. o = PairsOf(l)
    <3>1. [k \in DOMAIN o |-> o[k]]
          = [k \in DOMAIN o |-> LET pair == l[CHOOSE j \in DOMAIN l : l[j].key = k]
                                IN  [type |-> pair.type, val |-> pair.val]]
      BY <2>5, Zenon
    <3> QED BY <2>6, <3>1, Zenon DEF PairsOf
  <2> QED BY <2>1, <2>7
<1>5. ASSUME NEW x \in DOMAIN r PROVE r[x] = PairsOf(P[CHOOSE i \in DOMAIN P : P[i].id = x].pairs)
  <2>1. PICK i \in 1 .. n : x = P[i].id
    BY <1>2 DEF Ids
  <2>2. PICK m : m = CHOOSE y \in DOMAIN P : P[y].id = x
    OBVIOUS
  <2>3. m \in 1 .. n /\ P[m].id = x
    BY <1>1, <2>1, <2>2
  <2>4. m = i
    BY <1>3, <2>1, <2>3
  <2> QED BY <1>4, <2>1, <2>2, <2>4, Zenon
<1>6. DOMAIN r = {P[i].id : i \in DOMAIN P}
  BY <1>1, <1>2 DEF Ids
<1>7. [x \in DOMAIN r |-> r[x]]
      = [x \in DOMAIN r |-> PairsOf(P[CHOOSE i \in DOMAIN P : P[i].id = x].pairs)]
  BY <1>5, Zenon
<1>8. r = [x \in DOMAIN r |-> PairsOf(P[CHOOSE i \in DOMAIN P : P[i].id = x].pairs)]
  BY <1>2, <1>7, Zenon
<1>9. r = [x \in {P[i].id : i \in DOMAIN P} |-> PairsOf(P[CHOOSE i \in DOMAIN P : P[i].id = x].pairs)]
  BY <1>6, <1>8, Zenon
<1>10. r = Contents(P)
  BY <1>9, Zenon DEF Contents
<1> QED BY <1>1, <1>10, Zenon

(* The step of a node, and of a pair: without room the file is refused.    *)
NodeLoaded(f, g) ==
    IF Enough(f, NodeSize) /\ Popped(f, 0, 4) \notin DOMAIN f.read THEN NodeTaken(f, g)
    ELSE g = [f EXCEPT !.at = "bad"]

PairLoaded(f, g) ==
    IF Enough(f, PairSize) THEN PairTaken(f, g) ELSE g = [f EXCEPT !.at = "bad"]

LEMMA Refused ==
    ASSUME NEW f, DiskInv(f), f.at = "load", NEW g, g = [f EXCEPT !.at = "bad"],
           FitsFile(f.pool) => f.size < FileSize(f.pool)
    PROVE  DiskInv(g)
<1>1. /\ IsDisk(f) /\ f.size \in Nat /\ f.pos \in Nat /\ f.pos <= f.size /\ f.pool \in Pools
  BY DEF DiskInv
<1>2. IsDisk(g) /\ g.at = "bad" /\ g.size = f.size /\ g.pos = f.pos /\ g.pool = f.pool
  BY <1>1 DEF IsDisk
<1> QED BY <1>1, <1>2 DEF DiskInv, Ats

LEMMA LoadInv ==
    ASSUME NEW f, DiskInv(f), f.at = "load", NEW g, IsDisk(g), g.at = "load",
           g.pool = f.pool, g.size = f.size, g.pos \in Nat, g.pos <= f.size,
           FitsFile(f.pool) => Cursor(g) /\ AllHeld(g) /\ TakenIn(g)
    PROVE  DiskInv(g)
<1>1. f.size \in Nat /\ f.pool \in Pools
  BY DEF DiskInv
<1> QED BY <1>1 DEF DiskInv, Ats

LEMMA NodeLoad ==
    ASSUME NEW f, DiskInv(f), f.at = "load", f.pairs = 0, f.nodes > 0, NEW g, NodeLoaded(f, g)
    PROVE  DiskInv(g)
<1>1. /\ IsDisk(f) /\ f.size \in Nat /\ f.pos \in Nat /\ f.pos <= f.size /\ f.pool \in Pools
      /\ FitsFile(f.pool) => Cursor(f) /\ AllHeld(f) /\ TakenIn(f)
  BY DEF DiskInv
<1>2. CASE Enough(f, NodeSize) /\ Popped(f, 0, 4) \notin DOMAIN f.read
  <2>1. NodeTaken(f, g)
    BY <1>2 DEF NodeLoaded
  <2>2. PICK a, b, c, r : g = [f EXCEPT !.nodes = a, !.pos = @ + NodeSize, !.node = b, !.pairs = c,
                                        !.read = r]
    BY <2>1, Zenon DEF NodeTaken
  <2>3. IsDisk(g) /\ g.at = "load" /\ g.pool = f.pool /\ g.size = f.size /\ g.pos = f.pos + NodeSize
    BY <1>1, <2>2 DEF IsDisk
  <2>4. g.pos \in Nat /\ g.pos <= f.size
    BY <1>1, <1>2, <2>3 DEF Enough, NodeSize
  <2>5. FitsFile(f.pool) => Cursor(g) /\ AllHeld(g) /\ TakenIn(g)
    BY <1>1, <1>2, <2>1, TakeNode
  <2> QED BY <2>3, <2>4, <2>5, LoadInv
<1>3. CASE ~ (Enough(f, NodeSize) /\ Popped(f, 0, 4) \notin DOMAIN f.read)
  <2>1. g = [f EXCEPT !.at = "bad"]
    BY <1>3 DEF NodeLoaded
  <2>2. ASSUME FitsFile(f.pool) PROVE f.size < FileSize(f.pool)
    <3>1. ~ Enough(f, NodeSize)
      BY <1>1, <1>3, <2>2, TakeNode
    <3>2. f.pos + NodeSize <= FileSize(f.pool) /\ FileSize(f.pool) \in Nat
      BY <1>1, <2>2, CursorNode, EstFacts
    <3> QED BY <1>1, <3>1, <3>2 DEF Enough, NodeSize
  <2> QED BY <2>1, <2>2, Refused
<1> QED BY <1>2, <1>3

LEMMA PairLoad ==
    ASSUME NEW f, DiskInv(f), f.at = "load", f.pairs > 0, NEW g, PairLoaded(f, g)
    PROVE  DiskInv(g)
<1>1. /\ IsDisk(f) /\ f.size \in Nat /\ f.pos \in Nat /\ f.pos <= f.size /\ f.pool \in Pools
      /\ FitsFile(f.pool) => Cursor(f) /\ AllHeld(f) /\ TakenIn(f)
  BY DEF DiskInv
<1>2. CASE Enough(f, PairSize)
  <2>1. PairTaken(f, g)
    BY <1>2 DEF PairLoaded
  <2>2. PICK r : g = [f EXCEPT !.pairs = @ - 1, !.pos = @ + PairSize, !.read[f.node] = r]
    BY <2>1, Zenon DEF PairTaken
  <2>3. IsDisk(g) /\ g.at = "load" /\ g.pool = f.pool /\ g.size = f.size /\ g.pos = f.pos + PairSize
    BY <1>1, <2>2 DEF IsDisk
  <2>4. g.pos \in Nat /\ g.pos <= f.size
    BY <1>1, <1>2, <2>3 DEF Enough, PairSize
  <2>5. FitsFile(f.pool) => Cursor(g) /\ AllHeld(g) /\ TakenIn(g)
    BY <1>1, <1>2, <2>1, TakePair
  <2> QED BY <2>3, <2>4, <2>5, LoadInv
<1>3. CASE ~ Enough(f, PairSize)
  <2>1. g = [f EXCEPT !.at = "bad"]
    BY <1>3 DEF PairLoaded
  <2>2. ASSUME FitsFile(f.pool) PROVE f.size < FileSize(f.pool)
    <3>1. f.pos + PairSize <= FileSize(f.pool) /\ FileSize(f.pool) \in Nat
      BY <1>1, <2>2, CursorPair, EstFacts
    <3> QED BY <1>1, <1>3, <3>1 DEF Enough, PairSize
  <2> QED BY <2>1, <2>2, Refused
<1> QED BY <1>2, <1>3

LEMMA LoadedAll ==
    ASSUME NEW f, DiskInv(f), f.at = "load", f.pairs = 0, f.nodes = 0, NEW g, g = [f EXCEPT !.at = "good"]
    PROVE  DiskInv(g)
<1>1. /\ IsDisk(f) /\ f.size \in Nat /\ f.pos \in Nat /\ f.pos <= f.size /\ f.pool \in Pools
      /\ FitsFile(f.pool) => Cursor(f) /\ TakenIn(f)
  BY DEF DiskInv
<1>2. /\ IsDisk(g) /\ g.at = "good" /\ g.size = f.size /\ g.pos = f.pos /\ g.pool = f.pool
      /\ g.read = f.read
  BY <1>1 DEF IsDisk
<1>3. FitsFile(f.pool) => f.read = Contents(f.pool)
  BY <1>1, TakenAll
<1> QED BY <1>1, <1>2, <1>3 DEF DiskInv, Ats

(* The invariant holds at first, and the steps keep it.                    *)
LEMMA FileInit == SavedInit => DiskInv(disk)
<1> SUFFICES ASSUME SavedInit PROVE DiskInv(disk)
  OBVIOUS
<1>1. /\ disk.at = "none" /\ disk.pool = <<>> /\ disk.size = 0 /\ disk.pos = 0 /\ disk.read = [n \in {} |-> n]
      /\ IsDisk(disk)
  BY DEF SavedInit, IsDisk
<1> QED BY <1>1 DEF DiskInv, Ats

LEMMA FileStep ==
    ASSUME DiskInv(disk), SavedNext
    PROVE  DiskInv(disk')
<1>1. PICK f, g : f = disk /\ g = disk' /\ DiskInv(f)
  OBVIOUS
<1>2. /\ f.size \in Nat /\ f.pos \in Nat
      /\ f.at # "none" => f.pool \in Pools
      /\ f.at = "try" => f.pos = 0
      /\ f.at = "write" => Cursor(f)
  BY <1>1 DEF DiskInv
<1>3. ASSUME NEW pool \in Pools, Save(pool) PROVE DiskInv(g)
  BY <1>1, <1>3, SaveStep DEF Save
<1>4. CASE WriteCount
  <2>1. CASE Enough(f, 4)
    BY <1>1, <1>4, <2>1, CountStep DEF WriteCount
  <2>2. CASE ~ Enough(f, 4)
    <3>1. f.at = "try" /\ g = AgainOf(f)
      BY <1>1, <1>4, <2>2 DEF WriteCount, Again, AgainOf
    <3>2. 0 + 4 <= FileSize(f.pool) /\ f.pos = 0
      BY <1>2, <3>1, EstFacts
    <3> QED BY <1>1, <2>2, <3>1, <3>2, AgainStep
  <2> QED BY <2>1, <2>2
<1>5. CASE WriteNode
  <2>0. f.at = "write" /\ f.pairs = 0 /\ f.nodes > 0
    BY <1>1, <1>5 DEF WriteNode
  <2>1. CASE Enough(f, NodeSize)
    <3>1. NodePut(f, g)
      BY <1>1, <1>5, <2>1 DEF WriteNode, NodePut
    <3> QED BY <1>1, <2>0, <2>1, <3>1, NodeStep
  <2>2. CASE ~ Enough(f, NodeSize)
    <3>1. g = AgainOf(f)
      BY <1>1, <1>5, <2>2 DEF WriteNode, Again, AgainOf
    <3>2. f.pos + NodeSize <= FileSize(f.pool) /\ NodeSize \in Nat
      BY <1>2, <2>0, CursorNode DEF NodeSize
    <3> QED BY <1>1, <2>0, <2>2, <3>1, <3>2, AgainStep
  <2> QED BY <2>1, <2>2
<1>6. CASE WritePair
  <2>0. f.at = "write" /\ f.pairs > 0
    BY <1>1, <1>6 DEF WritePair
  <2>1. CASE Enough(f, PairSize)
    <3>1. PairPut(f, g)
      BY <1>1, <1>6, <2>1 DEF WritePair, PairPut
    <3> QED BY <1>1, <2>0, <2>1, <3>1, PairStep
  <2>2. CASE ~ Enough(f, PairSize)
    <3>1. g = AgainOf(f)
      BY <1>1, <1>6, <2>2 DEF WritePair, Again, AgainOf
    <3>2. f.pos + PairSize <= FileSize(f.pool) /\ PairSize \in Nat
      BY <1>2, <2>0, CursorPair DEF PairSize
    <3> QED BY <1>1, <2>0, <2>2, <3>1, <3>2, AgainStep
  <2> QED BY <2>1, <2>2
<1>7. CASE WriteEnd
  BY <1>1, <1>7, EndStep DEF WriteEnd
<1>8. ASSUME NEW n \in Nat, n <= f.size, FromMem(n) PROVE DiskInv(g)
  <2>1. f.at = "file" /\ FileOpened(f, n, g)
    BY <1>1, <1>8 DEF FromMem, FileOpened
  <2> QED BY <1>1, <1>8, <2>1, OpenStep
<1>9. CASE DumpLoads
  BY <1>1, <1>2, <1>8, <1>9 DEF DumpLoads
<1>10. ASSUME NEW buffer \in Buffers, RunLoads(buffer) PROVE DiskInv(g)
  <2>1. PICK n : n \in Nat /\ n <= f.size /\ n = IF disk.size < buffer THEN disk.size ELSE buffer
    <3>1. buffer \in Nat
      BY SavedFileAssumption
    <3> QED BY <1>1, <1>2, <3>1
  <2> QED BY <1>8, <1>10, <2>1 DEF RunLoads
<1>11. CASE LoadNode
  <2>1. f.at = "load" /\ f.pairs = 0 /\ f.nodes > 0
    BY <1>1, <1>11 DEF LoadNode
  <2>2. NodeLoaded(f, g)
    BY <1>1, <1>11, Zenon DEF LoadNode, NodeLoaded, NodeTaken
  <2> QED BY <1>1, <2>1, <2>2, NodeLoad
<1>12. CASE LoadPair
  <2>1. f.at = "load" /\ f.pairs > 0
    BY <1>1, <1>12 DEF LoadPair
  <2>2. PairLoaded(f, g)
    BY <1>1, <1>12, Zenon DEF LoadPair, PairLoaded, PairTaken
  <2> QED BY <1>1, <2>1, <2>2, PairLoad
<1>13. CASE LoadEnd
  BY <1>1, <1>13, LoadedAll DEF LoadEnd
<1> QED BY <1>1, <1>3, <1>4, <1>5, <1>6, <1>7, <1>9, <1>10, <1>11, <1>12, <1>13, Zenon DEF SavedNext

LEMMA FileInvKeeps == DiskInv(disk) => FileKeepsGraph
<1> SUFFICES ASSUME DiskInv(disk) PROVE FileKeepsGraph
  OBVIOUS
<1> QED BY DEF DiskInv, FileKeepsGraph, RoomFor

(* A file that is read as a whole gives back the graph that was saved, one *)
(* that is cut off anywhere is refused, the writer comes to an end with    *)
(* room to spare and nobody leaves the memory: of every pool, whatever the *)
(* guess of nodelasm and the buffer of nodelrun.                           *)
THEOREM FileKept == SavedInit /\ [][SavedNext]_disk => []FileKeepsGraph
<1>1. DiskInv(disk) /\ [SavedNext]_disk => DiskInv(disk)'
  BY FileStep
<1> QED BY <1>1, FileInit, FileInvKeeps, PTL
=============================================================================
