---------------------------- MODULE ClaimsProofs ----------------------------
(***************************************************************************)
(* Proofs about Claims, for trees of any number of leaves, whatever order  *)
(* their hashes are in, any number of withdrawals, outputs and users, and  *)
(* pages of any size.                                                      *)
(***************************************************************************)
EXTENDS Claims, DataInduction, FiniteSetTheorems, SequenceTheorems

-----------------------------------------------------------------------------
(* Rank numbers a finite set from 1 on, in the order of key.               *)

LEMMA RankNumbers ==
  ASSUME NEW S, IsFiniteSet(S), NEW key, \A x \in S : key[x] \in Int,
         \A x, y \in S : key[x] = key[y] => x = y
  PROVE  /\ Cardinality(S) \in Nat
         /\ \A x \in S : Rank(S, key, x) \in 1 .. Cardinality(S)
         /\ \A x, y \in S : Rank(S, key, x) = Rank(S, key, y) => x = y
         /\ \A n \in 1 .. Cardinality(S) : \E x \in S : Rank(S, key, x) = n
<1> DEFINE Below(x) == {y \in S : key[y] < key[x]}
<1>1. Cardinality(S) \in Nat
  BY FS_CardinalityType
<1>2. \A x \in S : IsFiniteSet(Below(x)) /\ Cardinality(Below(x)) \in Nat
  BY FS_Subset, FS_CardinalityType
<1>3. ASSUME NEW x \in S
      PROVE  Cardinality(Below(x)) < Cardinality(S)
  <2>1. Below(x) \in SUBSET S /\ x \notin Below(x)
    OBVIOUS
  <2>2. Cardinality(Below(x)) <= Cardinality(S) /\ Cardinality(Below(x)) # Cardinality(S)
    <3> HIDE DEF Below
    <3> QED
      BY <2>1, FS_Subset
  <2>3. Cardinality(Below(x)) \in Nat
    BY <1>2
  <2> HIDE DEF Below
  <2> QED
    BY <1>1, <2>2, <2>3
<1>4. ASSUME NEW x \in S, NEW y \in S, key[x] < key[y]
      PROVE  Cardinality(Below(x)) < Cardinality(Below(y))
  <2>1. Below(x) \in SUBSET Below(y) /\ x \in Below(y) /\ x \notin Below(x)
    BY <1>4
  <2>2. /\ Cardinality(Below(x)) <= Cardinality(Below(y))
        /\ Cardinality(Below(x)) # Cardinality(Below(y))
    <3> HIDE DEF Below
    <3> QED
      BY <1>2, <2>1, FS_Subset
  <2>3. Cardinality(Below(x)) \in Nat /\ Cardinality(Below(y)) \in Nat
    BY <1>2
  <2> HIDE DEF Below
  <2> QED
    BY <2>2, <2>3
<1>5. \A x \in S : Rank(S, key, x) = Cardinality(Below(x)) + 1
  BY DEF Rank
<1>6. \A x \in S : Rank(S, key, x) \in 1 .. Cardinality(S)
  <2> HIDE DEF Below
  <2> QED
    BY <1>1, <1>2, <1>3, <1>5
<1>7. \A x, y \in S : Rank(S, key, x) = Rank(S, key, y) => x = y
  <2> SUFFICES ASSUME NEW x \in S, NEW y \in S, Rank(S, key, x) = Rank(S, key, y),
                      key[x] # key[y]
               PROVE  FALSE
    OBVIOUS
  <2>1. Cardinality(Below(x)) = Cardinality(Below(y))
    <3> HIDE DEF Below
    <3> QED
      BY <1>2, <1>5
  <2>2. key[x] < key[y] \/ key[y] < key[x]
    OBVIOUS
  <2> HIDE DEF Below
  <2> QED
    BY <1>2, <1>4, <2>1, <2>2
<1>8. \A n \in 1 .. Cardinality(S) : \E x \in S : Rank(S, key, x) = n
  <2> DEFINE r == [x \in S |-> Rank(S, key, x)]
  <2>1. r \in Injection(S, 1 .. Cardinality(S))
    BY <1>6, <1>7 DEF Injection, IsInjective
  <2>2. /\ IsFiniteSet(1 .. Cardinality(S))
        /\ Cardinality(1 .. Cardinality(S)) = Cardinality(S)
    BY <1>1, FS_Interval
  <2>3. r \in Surjection(S, 1 .. Cardinality(S))
    <3> HIDE DEF r
    <3> QED
      BY <2>1, <2>2, FS_Injection
  <2> QED
    BY <2>3 DEF Surjection
<1> QED
  BY <1>1, <1>6, <1>7, <1>8

-----------------------------------------------------------------------------
(* The recursive definitions do define what they say: for each bound a     *)
(* function with the equation exists, by induction on the bound.           *)

LEMMA LayersDef ==
  ASSUME NEW leaves, Len(leaves) \in Nat
  PROVE  Layers(leaves) =
           [n \in 0 .. Len(leaves) |->
              IF n = 0 THEN leaves ELSE Above(Layers(leaves)[n - 1])]
<1> DEFINE Def(f, m) == [n \in 0 .. m |-> IF n = 0 THEN leaves ELSE Above(f[n - 1])]
           Good == {m \in Nat : \E f : f = Def(f, m)}
<1>1. 0 \in Good
  <2>1. [n \in 0 .. 0 |-> leaves] = Def([n \in 0 .. 0 |-> leaves], 0)
    OBVIOUS
  <2> HIDE DEF Def
  <2> QED
    BY <2>1
<1>2. ASSUME NEW m \in Good
      PROVE  m + 1 \in Good
  <2>1. PICK f : f = Def(f, m)
    OBVIOUS
  <2> DEFINE g == [n \in 0 .. m + 1 |-> IF n <= m THEN f[n] ELSE Above(f[n - 1])]
  <2>2. \A n \in 0 .. m + 1 : g[n] = IF n = 0 THEN leaves ELSE Above(g[n - 1])
    BY <2>1
  <2>3. g = Def(g, m + 1)
    BY <2>2
  <2> HIDE DEF Def, g
  <2> QED
    BY <2>3
<1>3. Good = Nat
  <2>1. Good \in SUBSET Nat
    OBVIOUS
  <2> HIDE DEF Good
  <2> QED
    BY <1>1, <1>2, <2>1, NatSetInduction
<1>4. \E f : f = Def(f, Len(leaves))
  BY <1>3
<1> QED
  BY <1>4 DEF Layers

LEMMA PlacesDef ==
  ASSUME NEW S, NEW seq, Cardinality(S) \in Nat
  PROVE  Places(S, seq) =
           [n \in 0 .. Cardinality(S) |->
              IF n = 0 THEN Rank(S, Digest, seq) ELSE Parent(Places(S, seq)[n - 1])]
<1> DEFINE Def(f, m) == [n \in 0 .. m |-> IF n = 0 THEN Rank(S, Digest, seq) ELSE Parent(f[n - 1])]
           Good == {m \in Nat : \E f : f = Def(f, m)}
<1>1. 0 \in Good
  <2>1. [n \in 0 .. 0 |-> Rank(S, Digest, seq)] = Def([n \in 0 .. 0 |-> Rank(S, Digest, seq)], 0)
    OBVIOUS
  <2> HIDE DEF Def
  <2> QED
    BY <2>1
<1>2. ASSUME NEW m \in Good
      PROVE  m + 1 \in Good
  <2>1. PICK f : f = Def(f, m)
    OBVIOUS
  <2> DEFINE g == [n \in 0 .. m + 1 |-> IF n <= m THEN f[n] ELSE Parent(f[n - 1])]
  <2>2. \A n \in 0 .. m + 1 : g[n] = IF n = 0 THEN Rank(S, Digest, seq) ELSE Parent(g[n - 1])
    BY <2>1
  <2>3. g = Def(g, m + 1)
    BY <2>2
  <2> HIDE DEF Def, g
  <2> QED
    BY <2>3
<1>3. Good = Nat
  <2>1. Good \in SUBSET Nat
    OBVIOUS
  <2> HIDE DEF Good
  <2> QED
    BY <1>1, <1>2, <2>1, NatSetInduction
<1>4. \E f : f = Def(f, Cardinality(S))
  BY <1>3
<1> QED
  BY <1>4 DEF Places

LEMMA SiblingsDef ==
  ASSUME NEW S, NEW seq, Cardinality(S) \in Nat
  PROVE  /\ Siblings(S, seq)[0] = <<>>
         /\ \A n \in 1 .. Cardinality(S) :
              Siblings(S, seq)[n] =
                IF Sibling(Places(S, seq)[n - 1]) \in DOMAIN Tree(S)[n - 1]
                THEN Append(Siblings(S, seq)[n - 1],
                            Tree(S)[n - 1][Sibling(Places(S, seq)[n - 1])])
                ELSE Siblings(S, seq)[n - 1]
<1> DEFINE Longer(path, n) ==
             IF Sibling(Places(S, seq)[n - 1]) \in DOMAIN Tree(S)[n - 1]
             THEN Append(path, Tree(S)[n - 1][Sibling(Places(S, seq)[n - 1])])
             ELSE path
           Def(f, m) == [n \in 0 .. m |-> IF n = 0 THEN <<>> ELSE Longer(f[n - 1], n)]
           Good == {m \in Nat : \E f : f = Def(f, m)}
<1>1. 0 \in Good
  <2>1. [n \in 0 .. 0 |-> <<>>] = Def([n \in 0 .. 0 |-> <<>>], 0)
    <3> HIDE DEF Longer
    <3> QED
      OBVIOUS
  <2> HIDE DEF Def
  <2> QED
    BY <2>1
<1>2. ASSUME NEW m \in Good
      PROVE  m + 1 \in Good
  <2> HIDE DEF Longer
  <2>1. PICK f : f = Def(f, m)
    OBVIOUS
  <2> DEFINE g == [n \in 0 .. m + 1 |-> IF n <= m THEN f[n] ELSE Longer(f[n - 1], n)]
  <2>2. \A n \in 0 .. m + 1 : g[n] = IF n = 0 THEN <<>> ELSE Longer(g[n - 1], n)
    BY <2>1
  <2>3. g = Def(g, m + 1)
    BY <2>2
  <2> HIDE DEF Def, g
  <2> QED
    BY <2>3
<1>3. Good = Nat
  <2>1. Good \in SUBSET Nat
    OBVIOUS
  <2> HIDE DEF Good
  <2> QED
    BY <1>1, <1>2, <2>1, NatSetInduction
<1>4. \E f : f = Def(f, Cardinality(S))
  BY <1>3
<1>5. Siblings(S, seq) = Def(Siblings(S, seq), Cardinality(S))
  BY <1>4 DEF Siblings
<1>6. /\ Siblings(S, seq)[0] = <<>>
      /\ \A n \in 1 .. Cardinality(S) :
           Siblings(S, seq)[n] = Longer(Siblings(S, seq)[n - 1], n)
  <2> HIDE DEF Longer
  <2> QED
    BY <1>5
<1> QED
  BY <1>6

LEMMA ClimbDef ==
  ASSUME NEW hash, NEW proof, Len(proof) \in Nat
  PROVE  \E node : /\ node = [n \in 0 .. Len(proof) |->
                              IF n = 0 THEN hash ELSE Pair(node[n - 1], proof[n])]
                   /\ Climb(hash, proof) = node[Len(proof)]
<1> DEFINE Def(f, m) == [n \in 0 .. m |-> IF n = 0 THEN hash ELSE Pair(f[n - 1], proof[n])]
           Good == {m \in Nat : \E f : f = Def(f, m)}
<1>1. 0 \in Good
  <2>1. [n \in 0 .. 0 |-> hash] = Def([n \in 0 .. 0 |-> hash], 0)
    OBVIOUS
  <2> HIDE DEF Def
  <2> QED
    BY <2>1
<1>2. ASSUME NEW m \in Good
      PROVE  m + 1 \in Good
  <2>1. PICK f : f = Def(f, m)
    OBVIOUS
  <2> DEFINE g == [n \in 0 .. m + 1 |-> IF n <= m THEN f[n] ELSE Pair(f[n - 1], proof[n])]
  <2>2. \A n \in 0 .. m + 1 : g[n] = IF n = 0 THEN hash ELSE Pair(g[n - 1], proof[n])
    BY <2>1
  <2>3. g = Def(g, m + 1)
    BY <2>2
  <2> HIDE DEF Def, g
  <2> QED
    BY <2>3
<1>3. Good = Nat
  <2>1. Good \in SUBSET Nat
    OBVIOUS
  <2> HIDE DEF Good
  <2> QED
    BY <1>1, <1>2, <2>1, NatSetInduction
<1>4. \E f : f = Def(f, Len(proof))
  BY <1>3
<1> QED
  BY <1>4 DEF Climb

-----------------------------------------------------------------------------
(* What a proof leads to: the nodes on the way up, hashed one after the    *)
(* other; two ways that end in one node began in one.                      *)

LEMMA ClimbEmpty ==
  ASSUME NEW hash
  PROVE  Climb(hash, <<>>) = hash
<1>1. Len(<<>>) = 0
  OBVIOUS
<1>2. PICK node : /\ node = [n \in 0 .. Len(<<>>) |->
                          IF n = 0 THEN hash ELSE Pair(node[n - 1], <<>>[n])]
                  /\ Climb(hash, <<>>) = node[Len(<<>>)]
  BY <1>1, ClimbDef
<1> QED
  BY <1>1, <1>2

LEMMA ClimbAppend ==
  ASSUME NEW hash, NEW T, NEW proof \in Seq(T), NEW x
  PROVE  /\ \E U : Append(proof, x) \in Seq(U)
         /\ Climb(hash, Append(proof, x)) = Pair(Climb(hash, proof), x)
<1> DEFINE longer == Append(proof, x)
<1>1. /\ longer \in Seq(T \cup {x}) /\ Len(proof) \in Nat
      /\ Len(longer) = Len(proof) + 1
      /\ \A n \in 1 .. Len(proof) : longer[n] = proof[n]
      /\ longer[Len(proof) + 1] = x
  <2>1. proof \in Seq(T \cup {x})
    BY SeqMonotonic
  <2> QED
    BY <2>1, AppendProperties
<1> HIDE DEF longer
<1>2. PICK f : /\ f = [n \in 0 .. Len(proof) |->
                       IF n = 0 THEN hash ELSE Pair(f[n - 1], proof[n])]
               /\ Climb(hash, proof) = f[Len(proof)]
  BY <1>1, ClimbDef
<1>3. PICK g : /\ g = [n \in 0 .. Len(longer) |->
                       IF n = 0 THEN hash ELSE Pair(g[n - 1], longer[n])]
               /\ Climb(hash, longer) = g[Len(longer)]
  <2>1. Len(longer) \in Nat
    BY <1>1
  <2> QED
    BY <2>1, ClimbDef
<1> DEFINE Same == {n \in Nat : n <= Len(proof) => g[n] = f[n]}
<1>4. 0 \in Same
  BY <1>1, <1>2, <1>3
<1>5. ASSUME NEW n \in Same
      PROVE  n + 1 \in Same
  <2> SUFFICES ASSUME n + 1 <= Len(proof)
               PROVE  g[n + 1] = f[n + 1]
    OBVIOUS
  <2>1. g[n] = f[n] /\ longer[n + 1] = proof[n + 1]
    BY <1>1
  <2>2. g[n + 1] = Pair(g[n], longer[n + 1])
    BY <1>1, <1>3
  <2>3. f[n + 1] = Pair(f[n], proof[n + 1])
    BY <1>1, <1>2
  <2> QED
    BY <2>1, <2>2, <2>3
<1>6. Same = Nat
  <2>1. Same \in SUBSET Nat
    OBVIOUS
  <2> HIDE DEF Same
  <2> QED
    BY <1>4, <1>5, <2>1, NatSetInduction
<1>7. g[Len(proof)] = f[Len(proof)]
  BY <1>1, <1>6
<1>8. g[Len(longer)] = Pair(g[Len(proof)], x)
  BY <1>1, <1>3
<1> QED
  BY <1>1, <1>2, <1>3, <1>7, <1>8 DEF longer

LEMMA PairInjective ==
  ASSUME NEW x, NEW y, NEW z, Pair(x, z) = Pair(y, z)
  PROVE  x = y
<1>1. {x, z} = {y, z}
  BY DEF Pair
<1> QED
  BY <1>1

LEMMA ClimbInjective ==
  ASSUME NEW a, NEW b, NEW T, NEW proof \in Seq(T),
         Climb(a, proof) = Climb(b, proof)
  PROVE  a = b
<1>1. Len(proof) \in Nat
  OBVIOUS
<1>2. PICK f : /\ f = [n \in 0 .. Len(proof) |->
                       IF n = 0 THEN a ELSE Pair(f[n - 1], proof[n])]
               /\ Climb(a, proof) = f[Len(proof)]
  BY <1>1, ClimbDef
<1>3. PICK g : /\ g = [n \in 0 .. Len(proof) |->
                       IF n = 0 THEN b ELSE Pair(g[n - 1], proof[n])]
               /\ Climb(b, proof) = g[Len(proof)]
  BY <1>1, ClimbDef
<1> DEFINE Good == {n \in Nat : n <= Len(proof) /\ f[n] = g[n] => a = b}
<1>4. 0 \in Good
  BY <1>1, <1>2, <1>3
<1>5. ASSUME NEW n \in Good
      PROVE  n + 1 \in Good
  <2> SUFFICES ASSUME n + 1 <= Len(proof), f[n + 1] = g[n + 1]
               PROVE  a = b
    OBVIOUS
  <2>1. f[n + 1] = Pair(f[n], proof[n + 1])
    BY <1>1, <1>2
  <2>2. g[n + 1] = Pair(g[n], proof[n + 1])
    BY <1>1, <1>3
  <2>3. f[n] = g[n]
    BY <2>1, <2>2, PairInjective
  <2> QED
    BY <1>1, <2>3
<1>6. Good = Nat
  <2>1. Good \in SUBSET Nat
    OBVIOUS
  <2> HIDE DEF Good
  <2> QED
    BY <1>4, <1>5, <2>1, NatSetInduction
<1>7. Len(proof) \in Good
  BY <1>1, <1>6
<1> QED
  BY <1>1, <1>2, <1>3, <1>7

-----------------------------------------------------------------------------
(* Trees: every layer has a node above each node of the layer below, made  *)
(* of it and its sibling, and the layers narrow down to the root.          *)

LEMMA Halves ==
  ASSUME NEW w \in Nat \ {0}
  PROVE  /\ Parent(w) \in 1 .. w
         /\ w # 1 => Parent(w) < w
         /\ \A i \in 1 .. w : Parent(i) \in 1 .. Parent(w)
         /\ \A i \in 1 .. Parent(w) : 2 * i - 1 \in 1 .. w /\ Parent(2 * i - 1) = i
  BY DEF Parent

LEMMA SiblingsMeet ==
  ASSUME NEW i \in Nat \ {0}
  PROVE  \/ Sibling(i) = i + 1 /\ i = 2 * Parent(i) - 1
         \/ Sibling(i) = i - 1 /\ i = 2 * Parent(i) /\ i > 1
  BY DEF Parent, Sibling

LEMMA AboveShape ==
  ASSUME NEW w \in Nat \ {0}, NEW layer, DOMAIN layer = 1 .. w
  PROVE  /\ DOMAIN Above(layer) = 1 .. Parent(w)
         /\ \A i \in 1 .. w :
              Above(layer)[Parent(i)] = IF Sibling(i) \in 1 .. w
                                        THEN Pair(layer[i], layer[Sibling(i)])
                                        ELSE layer[i]
<1>1. {Parent(j) : j \in 1 .. w} = 1 .. Parent(w)
  <2>1. \A i \in 1 .. Parent(w) : \E j \in 1 .. w : i = Parent(j)
    BY Halves
  <2> QED
    BY <2>1, Halves
<1>2. Above(layer) = [i \in 1 .. Parent(w) |->
                        IF 2 * i \in 1 .. w THEN Pair(layer[2 * i - 1], layer[2 * i])
                        ELSE layer[2 * i - 1]]
  BY <1>1 DEF Above
<1>3. ASSUME NEW i \in 1 .. w
      PROVE  Above(layer)[Parent(i)] = IF Sibling(i) \in 1 .. w
                                       THEN Pair(layer[i], layer[Sibling(i)])
                                       ELSE layer[i]
  <2>1. Parent(i) \in 1 .. Parent(w)
    BY Halves
  <2>2. Above(layer)[Parent(i)] =
          IF 2 * Parent(i) \in 1 .. w
          THEN Pair(layer[2 * Parent(i) - 1], layer[2 * Parent(i)])
          ELSE layer[2 * Parent(i) - 1]
    BY <1>2, <2>1
  <2>3. CASE Sibling(i) = i + 1 /\ i = 2 * Parent(i) - 1
    <3>1. 2 * Parent(i) = i + 1
      BY <2>3 DEF Parent
    <3> QED
      BY <2>2, <2>3, <3>1
  <2>4. CASE Sibling(i) = i - 1 /\ i = 2 * Parent(i) /\ i > 1
    <3>1. 2 * Parent(i) - 1 = i - 1 /\ i \in 1 .. w /\ i - 1 \in 1 .. w
      BY <2>1, <2>4
    <3>2. Pair(layer[i - 1], layer[i]) = Pair(layer[i], layer[i - 1])
      BY DEF Pair
    <3> QED
      BY <2>2, <2>4, <3>1, <3>2
  <2> QED
    BY <2>3, <2>4, SiblingsMeet
<1> QED
  BY <1>1, <1>2, <1>3

(* Which sets of withdrawals have a tree.                                  *)
Leaves(S) == S \subseteq 1 .. MaxRows /\ S # {}

LEMMA RanksOfLeaves ==
  ASSUME NEW S, Leaves(S)
  PROVE  /\ IsFiniteSet(S) /\ Cardinality(S) \in Nat \ {0}
         /\ \A s \in S : Rank(S, Digest, s) \in 1 .. Cardinality(S)
         /\ \A s, t \in S : Rank(S, Digest, s) = Rank(S, Digest, t) => s = t
<1>1. IsFiniteSet(S)
  <2>1. IsFiniteSet(1 .. MaxRows)
    BY ClaimsAssumption, FS_Interval
  <2> QED
    BY <2>1, FS_Subset DEF Leaves
<1>2. /\ \A s \in S : Digest[s] \in Int
      /\ \A s, t \in S : Digest[s] = Digest[t] => s = t
  BY ClaimsAssumption DEF Leaves
<1>3. /\ Cardinality(S) \in Nat
      /\ \A s \in S : Rank(S, Digest, s) \in 1 .. Cardinality(S)
      /\ \A s, t \in S : Rank(S, Digest, s) = Rank(S, Digest, t) => s = t
  BY <1>1, <1>2, RankNumbers
<1>4. Cardinality(S) # 0
  BY <1>1, FS_EmptySet DEF Leaves
<1> QED
  BY <1>1, <1>3, <1>4

(* The lowest layer: each leaf is at its rank.                             *)
LEMMA LeavesInOrder ==
  ASSUME NEW S, Leaves(S)
  PROVE  /\ Tree(S) = [n \in 0 .. Cardinality(S) |->
                         IF n = 0 THEN Tree(S)[0] ELSE Above(Tree(S)[n - 1])]
         /\ DOMAIN Tree(S)[0] = 1 .. Cardinality(S)
         /\ \A s \in S : Tree(S)[0][Rank(S, Digest, s)] = Leaf(s)
<1> DEFINE leaves == [n \in 1 .. Cardinality(S) |-> Leaf(Sorted(S)[n])]
<1>1. Cardinality(S) \in Nat
  BY RanksOfLeaves
<1>2. Len(leaves) = Cardinality(S)
  <2>1. leaves \in Seq({Leaf(Sorted(S)[n]) : n \in 1 .. Cardinality(S)})
    BY <1>1
  <2>2. DOMAIN leaves = 1 .. Cardinality(S)
    OBVIOUS
  <2> HIDE DEF leaves
  <2> QED
    BY <1>1, <2>1, <2>2
<1>3. /\ Tree(S) = Layers(leaves)
      /\ DOMAIN leaves = 1 .. Cardinality(S)
      /\ \A n \in 1 .. Cardinality(S) : leaves[n] = Leaf(Sorted(S)[n])
  BY DEF Tree
<1> HIDE DEF leaves
<1>4. Tree(S) = [n \in 0 .. Cardinality(S) |->
                   IF n = 0 THEN leaves ELSE Above(Tree(S)[n - 1])]
  BY <1>1, <1>2, <1>3, LayersDef
<1>5. Tree(S)[0] = leaves
  BY <1>1, <1>4
<1>6. ASSUME NEW s \in S
      PROVE  leaves[Rank(S, Digest, s)] = Leaf(s)
  <2>1. Rank(S, Digest, s) \in 1 .. Cardinality(S)
    BY RanksOfLeaves
  <2>2. Sorted(S)[Rank(S, Digest, s)] =
          CHOOSE t \in S : Rank(S, Digest, t) = Rank(S, Digest, s)
    BY <2>1 DEF Sorted
  <2>3. (CHOOSE t \in S : Rank(S, Digest, t) = Rank(S, Digest, s)) = s
    BY RanksOfLeaves
  <2> QED
    BY <1>3, <2>1, <2>2, <2>3
<1> QED
  BY <1>3, <1>4, <1>5, <1>6

(* The inductive invariant of the way up: in each layer, which narrows by  *)
(* a node at least until one is left, the siblings so far lead from the    *)
(* leaf to the node above it.                                              *)
LEMMA WayUp ==
  ASSUME NEW S, Leaves(S), NEW seq \in S
  PROVE  \A n \in 0 .. Cardinality(S) :
           /\ \E w \in Nat \ {0} : /\ w <= Cardinality(S) - n \/ w = 1
                                   /\ DOMAIN Tree(S)[n] = 1 .. w
                                   /\ Places(S, seq)[n] \in 1 .. w
           /\ \E T : Siblings(S, seq)[n] \in Seq(T)
           /\ Climb(Leaf(seq), Siblings(S, seq)[n]) = Tree(S)[n][Places(S, seq)[n]]
<1> DEFINE N == Cardinality(S)
           tree == Tree(S)
           place == Places(S, seq)
           path == Siblings(S, seq)
           Wide(n, w) == /\ w <= N - n \/ w = 1
                         /\ DOMAIN tree[n] = 1 .. w
                         /\ place[n] \in 1 .. w
           Up(n) == /\ \E w \in Nat \ {0} : Wide(n, w)
                    /\ \E T : path[n] \in Seq(T)
                    /\ Climb(Leaf(seq), path[n]) = tree[n][place[n]]
           Good == {n \in Nat : n <= N => Up(n)}
<1>1. N \in Nat \ {0}
  BY RanksOfLeaves
<1>2. /\ tree = [n \in 0 .. N |-> IF n = 0 THEN tree[0] ELSE Above(tree[n - 1])]
      /\ DOMAIN tree[0] = 1 .. N
      /\ tree[0][Rank(S, Digest, seq)] = Leaf(seq)
  BY LeavesInOrder
<1>3. place = [n \in 0 .. N |-> IF n = 0 THEN Rank(S, Digest, seq)
                                ELSE Parent(place[n - 1])]
  BY <1>1, PlacesDef
<1>4. /\ path[0] = <<>>
      /\ \A n \in 1 .. N :
           path[n] = IF Sibling(place[n - 1]) \in DOMAIN tree[n - 1]
                     THEN Append(path[n - 1], tree[n - 1][Sibling(place[n - 1])])
                     ELSE path[n - 1]
  BY <1>1, SiblingsDef
<1> HIDE DEF N, tree, place, path
<1>5. 0 \in Good
  <2>1. /\ place[0] = Rank(S, Digest, seq) /\ path[0] = <<>>
        /\ Rank(S, Digest, seq) \in 1 .. N
    BY <1>1, <1>3, <1>4, RanksOfLeaves DEF N
  <2>2. Wide(0, N)
    BY <1>1, <1>2, <2>1
  <2>3. path[0] \in Seq({})
    BY <2>1
  <2>4. Climb(Leaf(seq), path[0]) = tree[0][place[0]]
    BY <1>2, <2>1, ClimbEmpty
  <2> QED
    BY <1>1, <2>2, <2>3, <2>4
<1>6. ASSUME NEW n \in Good
      PROVE  n + 1 \in Good
  <2> SUFFICES ASSUME n + 1 <= N
               PROVE  Up(n + 1)
    OBVIOUS
  <2>1. n \in Nat /\ n \in 0 .. N /\ n + 1 \in 0 .. N /\ n + 1 # 0 /\ n + 1 - 1 = n
    BY <1>1
  <2>2. Up(n)
    BY <2>1
  <2>3. PICK w \in Nat \ {0} : Wide(n, w)
    BY <2>2
  <2>4. PICK T : path[n] \in Seq(T)
    BY <2>2
  <2>5. /\ tree[n + 1] = Above(tree[n]) /\ place[n + 1] = Parent(place[n])
        /\ path[n + 1] = IF Sibling(place[n]) \in DOMAIN tree[n]
                         THEN Append(path[n], tree[n][Sibling(place[n])])
                         ELSE path[n]
    <3> HIDE DEF Wide, Up, Good
    <3>1. tree[n + 1] = Above(tree[n])
      BY <1>2, <2>1
    <3>2. place[n + 1] = Parent(place[n])
      BY <1>3, <2>1
    <3>3. path[n + 1] = IF Sibling(place[n]) \in DOMAIN tree[n]
                        THEN Append(path[n], tree[n][Sibling(place[n])])
                        ELSE path[n]
      <4>1. n + 1 \in 1 .. N
        BY <1>1, <2>1
      <4> QED
        BY <1>4, <2>1, <4>1
    <3> QED
      BY <3>1, <3>2, <3>3
  <2>6. /\ Parent(w) \in Nat \ {0}
        /\ Parent(w) <= N - (n + 1) \/ Parent(w) = 1
        /\ Parent(place[n]) \in 1 .. Parent(w)
    <3>1. /\ w <= N - n \/ w = 1
          /\ place[n] \in 1 .. w
      BY <2>3
    <3>2. /\ Parent(w) \in 1 .. w
          /\ w # 1 => Parent(w) < w
          /\ Parent(place[n]) \in 1 .. Parent(w)
      BY <3>1, Halves
    <3>3. Parent(w) \in Nat \ {0} /\ Parent(w) <= w
      BY <3>2
    <3>4. CASE w = 1
      BY <3>2, <3>3, <3>4
    <3>5. CASE w # 1
      <4>1. w <= N - n /\ Parent(w) < w
        BY <3>1, <3>2, <3>5
      <4>2. Parent(w) <= N - (n + 1)
        BY <1>1, <2>1, <3>3, <4>1
      <4> QED
        BY <3>2, <3>3, <4>2
    <3> QED
      BY <3>4, <3>5
  <2>7. /\ DOMAIN tree[n + 1] = 1 .. Parent(w)
        /\ tree[n + 1][place[n + 1]] =
             IF Sibling(place[n]) \in 1 .. w
             THEN Pair(tree[n][place[n]], tree[n][Sibling(place[n])])
             ELSE tree[n][place[n]]
    BY <2>3, <2>5, AboveShape
  <2>8. Wide(n + 1, Parent(w))
    BY <2>5, <2>6, <2>7
  <2>9. /\ \E U : path[n + 1] \in Seq(U)
        /\ Climb(Leaf(seq), path[n + 1]) = tree[n + 1][place[n + 1]]
    <3>1. CASE Sibling(place[n]) \in 1 .. w
      <4>1. path[n + 1] = Append(path[n], tree[n][Sibling(place[n])])
        BY <2>3, <2>5, <3>1
      <4>2. Climb(Leaf(seq), path[n + 1])
              = Pair(Climb(Leaf(seq), path[n]), tree[n][Sibling(place[n])])
        BY <2>4, <4>1, ClimbAppend
      <4>3. \E U : path[n + 1] \in Seq(U)
        <5>1. \E U : Append(path[n], tree[n][Sibling(place[n])]) \in Seq(U)
          BY <2>4, ClimbAppend
        <5> QED
          BY <4>1, <5>1, Zenon
      <4> QED
        BY <2>2, <2>7, <3>1, <4>2, <4>3
    <3>2. CASE Sibling(place[n]) \notin 1 .. w
      <4>1. path[n + 1] = path[n]
        BY <2>3, <2>5, <3>2
      <4> QED
        BY <2>2, <2>7, <3>2, <4>1
    <3> QED
      BY <3>1, <3>2
  <2> QED
    BY <2>6, <2>8, <2>9
<1>7. Good = Nat
  <2>1. Good \in SUBSET Nat
    OBVIOUS
  <2> HIDE DEF Good
  <2> QED
    BY <1>5, <1>6, <2>1, NatSetInduction
<1>8. \A n \in 0 .. N : Up(n)
  BY <1>1, <1>7
<1> QED
  BY <1>8 DEF N, tree, place, path

(* A proof leads from its withdrawal, and from no other, to the root.      *)
LEMMA ProofBinds ==
  ASSUME NEW S, Leaves(S), NEW seq \in S, NEW i
  PROVE  verify(getMerkleRoot(S), getMerkleProof(S, seq), i) <=> i = seq
<1> DEFINE N == Cardinality(S)
<1>1. N \in Nat \ {0} /\ N \in 0 .. N
  BY RanksOfLeaves
<1>2. PICK w \in Nat \ {0} : /\ w <= N - N \/ w = 1
                             /\ Places(S, seq)[N] \in 1 .. w
  BY <1>1, WayUp
<1>3. Places(S, seq)[N] = 1
  BY <1>1, <1>2
<1>4. PICK T : getMerkleProof(S, seq) \in Seq(T)
  BY <1>1, WayUp DEF getMerkleProof
<1>5. Climb(Leaf(seq), getMerkleProof(S, seq)) = getMerkleRoot(S)
  <2>1. Climb(Leaf(seq), Siblings(S, seq)[N]) = Tree(S)[N][Places(S, seq)[N]]
    BY <1>1, WayUp
  <2>2. getMerkleRoot(S) = Tree(S)[N][1]
    BY DEF getMerkleRoot, Leaves
  <2> HIDE DEF N
  <2> QED
    BY <1>3, <2>1, <2>2 DEF getMerkleProof, N
<1>6. Leaf(i) = Leaf(seq) <=> i = seq
  <2>1. Leaf(i) = Leaf(seq) => {i} = {seq}
    BY DEF Leaf
  <2> QED
    BY <2>1
<1> QED
  BY <1>4, <1>5, <1>6, ClimbInjective DEF verify

-----------------------------------------------------------------------------
(* The inductive invariant *)

OutputTyped(k, entity) ==
  /\ DOMAIN entity = {"outputIndex", "merkleRoot", "outputRoot"}
  /\ entity.outputIndex = k

LeavesOf(k) == getWithdrawalTxs(rows, k)

(* An output has the root of the withdrawals under it, and each of those   *)
(* has this root and its own proof; a withdrawal whose output is still to  *)
(* come has none.                                                          *)
RootsOK ==
  /\ \A k \in DOMAIN outputs :
       outputs[k].outputRoot = [version |-> k, merkleRoot |-> getMerkleRoot(LeavesOf(k))]
  /\ \A i \in DOMAIN rows :
       IF rows[i].outputIndex \in DOMAIN outputs
       THEN /\ rows[i].merkleRoot = getMerkleRoot(LeavesOf(rows[i].outputIndex))
            /\ rows[i].merkleProof = getMerkleProof(LeavesOf(rows[i].outputIndex), i)
       ELSE rows[i].merkleRoot = NoHash

(* A withdrawal that a client got with a root is as it was.                *)
GotOK ==
  \A q \in Queries : query = <<q>> /\ q.list = "withdrawal" =>
    \A r \in got : r.merkleRoot # NoHash => r \in Range(rows)

(* What was there when a client began and what it has not read yet is on a *)
(* page it has still to read.                                              *)
PagesOK ==
  /\ query = <<>> => before = {} /\ got = {} /\ offset = 0
  /\ \A q \in Queries : query = <<q>> =>
       /\ before \subseteq Listed(q)
       /\ \A k \in before :
            \/ k \in {Key(q, row) : row \in got}
            \/ ~done /\ Rank(Listed(q), Order(q), k) > offset * LIMIT

(* The types of the tables, of the query and of the page; those of what    *)
(* was read are ReadOK.                                                    *)
Typed ==
  /\ up \in BOOLEAN
  /\ rows \in Seq(Range(rows)) /\ Len(rows) <= MaxRows
  /\ \A i \in DOMAIN rows :
       /\ DOMAIN rows[i] = {"sequence", "receiver", "outputIndex", "merkleRoot",
                            "merkleProof"}
       /\ rows[i].sequence = i /\ rows[i].receiver \in Users
       /\ rows[i].outputIndex \in 2 .. Len(outputs) + 1
  /\ outputs \in Seq(Range(outputs)) /\ Len(outputs) <= MaxOutputs
  /\ \A k \in DOMAIN outputs : OutputTyped(k, outputs[k])
  /\ query \in {<<>>} \cup {<<q>> : q \in Queries}
  /\ offset \in Nat /\ done \in BOOLEAN /\ (done => query # <<>>)
  /\ before \subseteq Nat
  /\ waiting \subseteq page
  /\ page # {} => query = <<>>

IInv == Typed /\ RootsOK /\ GotOK /\ PagesOK

LEMMA InitIInv == Init => IInv
<1> SUFFICES ASSUME Init
             PROVE  IInv
  OBVIOUS
<1>1. rows \in Seq(Range(rows)) /\ outputs \in Seq(Range(outputs))
  BY DEF Init
<1>2. /\ DOMAIN rows = {} /\ DOMAIN outputs = {}
      /\ Len(rows) = 0 /\ Len(outputs) = 0
  BY DEF Init
<1>3. Typed
  <2>1. 0 <= MaxRows /\ 0 <= MaxOutputs
    BY ClaimsAssumption
  <2>2. /\ query = <<>> /\ offset \in Nat /\ done = FALSE /\ before = {}
        /\ waiting = {} /\ page = {} /\ up = TRUE
    BY DEF Init
  <2> QED
    BY <1>1, <1>2, <2>1, <2>2 DEF Typed
<1>4. RootsOK
  BY <1>2 DEF RootsOK
<1>5. GotOK /\ PagesOK
  BY DEF Init, GotOK, PagesOK
<1> QED
  BY <1>3, <1>4, <1>5 DEF IInv

-----------------------------------------------------------------------------
(* The database *)

LEMMA IsSequence ==
  ASSUME NEW n \in Nat, NEW T, NEW s \in [1 .. n -> T]
  PROVE  s \in Seq(Range(s)) /\ Len(s) = n
<1>1. s \in [1 .. n -> Range(s)]
  BY DEF Range
<1>2. s \in Seq(Range(s))
  BY <1>1, SeqDef
<1> QED
  BY <1>2, LenProperties

LEMMA Appended ==
  ASSUME NEW s, s \in Seq(Range(s)), NEW x
  PROVE  /\ Append(s, x) \in Seq(Range(Append(s, x)))
         /\ Len(s) \in Nat /\ DOMAIN s = 1 .. Len(s)
         /\ Len(Append(s, x)) = Len(s) + 1
         /\ DOMAIN Append(s, x) = 1 .. Len(s) + 1
         /\ \A i \in 1 .. Len(s) : Append(s, x)[i] = s[i]
         /\ Append(s, x)[Len(s) + 1] = x
<1> DEFINE T == Range(s) \cup {x}
           t == Append(s, x)
<1>1. s \in Seq(T) /\ x \in T
  BY SeqMonotonic
<1>2. /\ t \in Seq(T) /\ Len(t) = Len(s) + 1
      /\ \A i \in 1 .. Len(s) : t[i] = s[i]
      /\ t[Len(s) + 1] = x
  <2> HIDE DEF T
  <2> QED
    BY <1>1, AppendProperties
<1>3. /\ Len(s) \in Nat /\ DOMAIN s = 1 .. Len(s)
  BY LenProperties
<1>4. t \in [1 .. Len(s) + 1 -> T] /\ DOMAIN t = 1 .. Len(s) + 1
  <2> HIDE DEF T, t
  <2> QED
    BY <1>2, <1>3, LenProperties
<1>5. t \in Seq(Range(t))
  <2> DEFINE m == Len(s) + 1
  <2>1. m \in Nat /\ t \in [1 .. m -> T]
    BY <1>3, <1>4
  <2> HIDE DEF T, t, m
  <2> QED
    BY <2>1, IsSequence
<1> HIDE DEF T, t
<1> QED
  BY <1>2, <1>3, <1>4, <1>5 DEF t

(* Row i of a database with n outputs.                                     *)
RowTyped(i, r, n) ==
  /\ DOMAIN r = {"sequence", "receiver", "outputIndex", "merkleRoot",
                 "merkleProof"}
  /\ r.sequence = i /\ r.receiver \in Users
  /\ r.outputIndex \in 2 .. n + 1

(* A block's withdrawal, if it has one, is a row after the others, for the *)
(* next output, which is not the first.                                    *)
LEMMA NewRow ==
  ASSUME Typed, NEW table \in {rows} \cup {Received(user) : user \in Users}
  PROVE  /\ table \in Seq(Range(table)) /\ DOMAIN table = 1 .. Len(table)
         /\ Len(table) \in Nat
         /\ Len(rows) \in Nat /\ DOMAIN rows = 1 .. Len(rows)
         /\ Len(table) \in {Len(rows), Len(rows) + 1}
         /\ \A i \in DOMAIN rows : i \in DOMAIN table /\ table[i] = rows[i]
         /\ \A i \in DOMAIN table : i \notin DOMAIN rows =>
              /\ Len(outputs) \in Nat \ {0}
              /\ RowTyped(i, table[i], Len(outputs))
              /\ table[i].outputIndex = Len(outputs) + 1
              /\ table[i].merkleRoot = NoHash
<1>1. /\ rows \in Seq(Range(rows)) /\ outputs \in Seq(Range(outputs))
  BY DEF Typed
<1>2. /\ Len(rows) \in Nat /\ DOMAIN rows = 1 .. Len(rows)
      /\ Len(outputs) \in Nat
  BY <1>1, LenProperties
<1>3. CASE table = rows
  BY <1>1, <1>2, <1>3
<1>4. ASSUME NEW user \in Users, table = Received(user), table # rows
      PROVE  /\ table \in Seq(Range(table)) /\ DOMAIN table = 1 .. Len(table)
             /\ Len(table) \in Nat
             /\ Len(table) = Len(rows) + 1
             /\ \A i \in DOMAIN rows : i \in DOMAIN table /\ table[i] = rows[i]
             /\ \A i \in DOMAIN table : i \notin DOMAIN rows =>
                  /\ Len(outputs) \in Nat \ {0}
                  /\ RowTyped(i, table[i], Len(outputs))
                  /\ table[i].outputIndex = Len(outputs) + 1
                  /\ table[i].merkleRoot = NoHash
  <2> DEFINE row == [sequence |-> Len(rows) + 1, receiver |-> user,
                     outputIndex |-> Len(outputs) + 1,
                     merkleRoot |-> NoHash, merkleProof |-> <<>>]
  <2>1. table = Append(rows, row) /\ outputs # <<>>
    BY <1>4 DEF Received
  <2>2. Len(outputs) # 0
    BY <1>1, <2>1, EmptySeq
  <2> HIDE DEF row
  <2>3. /\ table \in Seq(Range(table))
        /\ Len(table) = Len(rows) + 1
        /\ DOMAIN table = 1 .. Len(rows) + 1
        /\ \A i \in 1 .. Len(rows) : table[i] = rows[i]
        /\ table[Len(rows) + 1] = row
    BY <1>1, <2>1, Appended
  <2>4. \A i \in DOMAIN table : i \notin DOMAIN rows => i = Len(rows) + 1
    BY <1>2, <2>3
  <2>5. /\ row.outputIndex = Len(outputs) + 1 /\ row.merkleRoot = NoHash
        /\ RowTyped(Len(rows) + 1, row, Len(outputs))
    BY <1>2, <2>2 DEF row, RowTyped
  <2> QED
    BY <1>2, <2>2, <2>3, <2>4, <2>5
<1> QED
  BY <1>3, <1>4

(* The rows under an output get its root and their proofs, and are as they *)
(* were in all else.                                                       *)
LEMMA WithProof ==
  ASSUME NEW r, NEW x, NEW y,
         DOMAIN r = {"sequence", "receiver", "outputIndex", "merkleRoot",
                     "merkleProof"}
  PROVE  LET s == [r EXCEPT !.merkleRoot = x, !.merkleProof = y]
         IN  /\ DOMAIN s = DOMAIN r
             /\ s.sequence = r.sequence /\ s.receiver = r.receiver
             /\ s.outputIndex = r.outputIndex
             /\ s.merkleRoot = x /\ s.merkleProof = y
  OBVIOUS

(* What the database is after a block: its rows and outputs are those it   *)
(* had, but for the proofs of the rows under a new output.                 *)
DBTyped ==
  /\ rows \in Seq(Range(rows)) /\ Len(rows) <= MaxRows
  /\ \A i \in DOMAIN rows : RowTyped(i, rows[i], Len(outputs))
  /\ outputs \in Seq(Range(outputs)) /\ Len(outputs) <= MaxOutputs
  /\ \A k \in DOMAIN outputs : OutputTyped(k, outputs[k])

DBGrows ==
  /\ \A i \in DOMAIN rows :
       /\ i \in DOMAIN rows'
       /\ rows'[i].sequence = rows[i].sequence
       /\ rows'[i].receiver = rows[i].receiver
       /\ rows'[i].outputIndex = rows[i].outputIndex
       /\ rows[i].outputIndex \in DOMAIN outputs => rows'[i] = rows[i]
  /\ \A k \in DOMAIN outputs : k \in DOMAIN outputs' /\ outputs'[k] = outputs[k]

LEMMA TypedIsDBTyped == Typed => DBTyped
  BY DEF Typed, DBTyped, RowTyped

(* A block without an output.                                              *)
LEMMA StoreWithdrawal ==
  ASSUME Typed, RootsOK,
         NEW table \in {rows} \cup {Received(user) : user \in Users},
         Len(table) <= MaxRows, rows' = table, outputs' = outputs
  PROVE  DBTyped' /\ RootsOK' /\ DBGrows
<1>1. /\ table \in Seq(Range(table)) /\ DOMAIN table = 1 .. Len(table)
      /\ Len(table) \in Nat
      /\ Len(rows) \in Nat /\ DOMAIN rows = 1 .. Len(rows)
      /\ Len(table) \in {Len(rows), Len(rows) + 1}
      /\ \A i \in DOMAIN rows : i \in DOMAIN table /\ table[i] = rows[i]
      /\ \A i \in DOMAIN table : i \notin DOMAIN rows =>
           /\ Len(outputs) \in Nat \ {0}
           /\ RowTyped(i, table[i], Len(outputs))
           /\ table[i].outputIndex = Len(outputs) + 1
           /\ table[i].merkleRoot = NoHash
  BY NewRow
<1>2. DBTyped
  BY TypedIsDBTyped
<1>3. Len(outputs) \in Nat /\ DOMAIN outputs = 1 .. Len(outputs)
  BY <1>2, LenProperties DEF DBTyped
<1>4. DBGrows
  BY <1>1, <1>3 DEF DBGrows
<1>5. \A i \in DOMAIN table : RowTyped(i, table[i], Len(outputs))
  BY <1>1, <1>2 DEF DBTyped
<1>6. DBTyped'
  BY <1>1, <1>2, <1>5 DEF DBTyped
<1>7. \A i \in DOMAIN table :
        i \notin DOMAIN rows => /\ table[i].outputIndex \notin DOMAIN outputs
                                /\ table[i].merkleRoot = NoHash
  <2>1. Len(outputs) + 1 \notin DOMAIN outputs
    BY <1>3
  <2> QED
    BY <1>1, <2>1
<1>8. \A k \in DOMAIN outputs : getWithdrawalTxs(table, k) = getWithdrawalTxs(rows, k)
  <2>1. \A k \in DOMAIN outputs, i \in DOMAIN table :
          table[i].outputIndex = k => i \in DOMAIN rows /\ rows[i].outputIndex = k
    BY <1>1, <1>7
  <2>2. \A k \in DOMAIN outputs, i \in DOMAIN rows :
          rows[i].outputIndex = k => i \in DOMAIN table /\ table[i].outputIndex = k
    BY <1>1
  <2> QED
    BY <2>1, <2>2 DEF getWithdrawalTxs
<1>9. RootsOK'
  <2> SUFFICES
      /\ \A k \in DOMAIN outputs :
           outputs[k].outputRoot =
             [version |-> k, merkleRoot |-> getMerkleRoot(getWithdrawalTxs(table, k))]
      /\ \A i \in DOMAIN table :
           IF table[i].outputIndex \in DOMAIN outputs
           THEN /\ table[i].merkleRoot =
                     getMerkleRoot(getWithdrawalTxs(table, table[i].outputIndex))
                /\ table[i].merkleProof =
                     getMerkleProof(getWithdrawalTxs(table, table[i].outputIndex), i)
           ELSE table[i].merkleRoot = NoHash
    BY DEF RootsOK, LeavesOf
  <2> QED
    BY <1>1, <1>7, <1>8 DEF RootsOK, LeavesOf
<1> QED
  BY <1>4, <1>6, <1>9

(* A block with an output.                                                 *)
LEMMA StoreOutput ==
  ASSUME Typed, RootsOK,
         NEW table \in {rows} \cup {Received(user) : user \in Users},
         Len(table) <= MaxRows,
         NEW index, index = Len(outputs) + 1, index <= MaxOutputs,
         NEW S, S = getWithdrawalTxs(table, index),
         rows' = saveMerkleRootAndProof(table, S),
         outputs' = Append(outputs, calculateOutputEntity(index, getMerkleRoot(S)))
  PROVE  DBTyped' /\ RootsOK' /\ DBGrows
<1> DEFINE entity == calculateOutputEntity(index, getMerkleRoot(S))
<1>1. /\ table \in Seq(Range(table)) /\ DOMAIN table = 1 .. Len(table)
      /\ Len(table) \in Nat
      /\ Len(rows) \in Nat /\ DOMAIN rows = 1 .. Len(rows)
      /\ Len(table) \in {Len(rows), Len(rows) + 1}
      /\ \A i \in DOMAIN rows : i \in DOMAIN table /\ table[i] = rows[i]
      /\ \A i \in DOMAIN table : i \notin DOMAIN rows =>
           /\ Len(outputs) \in Nat \ {0}
           /\ RowTyped(i, table[i], Len(outputs))
           /\ table[i].outputIndex = Len(outputs) + 1
           /\ table[i].merkleRoot = NoHash
  BY NewRow
<1>kept. \A i \in DOMAIN rows : i \in DOMAIN table /\ table[i] = rows[i]
  BY <1>1, Zenon
<1>2. DBTyped
  BY TypedIsDBTyped
<1>3. /\ Len(outputs) \in Nat /\ DOMAIN outputs = 1 .. Len(outputs)
      /\ outputs' \in Seq(Range(outputs'))
      /\ Len(outputs') = index /\ DOMAIN outputs' = 1 .. index
      /\ \A k \in DOMAIN outputs : outputs'[k] = outputs[k]
      /\ outputs'[index] = entity
  <2>1. outputs \in Seq(Range(outputs))
    BY <1>2 DEF DBTyped
  <2> HIDE DEF entity
  <2>2. outputs' = Append(outputs, entity)
    BY DEF entity
  <2> QED
    BY <2>1, <2>2, Appended
<1>4. /\ DOMAIN rows' = DOMAIN table
      /\ \A i \in DOMAIN table : i \notin S => rows'[i] = table[i]
      /\ \A i \in S : rows'[i] = [table[i] EXCEPT !.merkleRoot = getMerkleRoot(S),
                                                  !.merkleProof = getMerkleProof(S, i)]
  BY DEF saveMerkleRootAndProof, getWithdrawalTxs
<1>5. S \subseteq DOMAIN table /\ \A i \in DOMAIN table : i \in S <=> table[i].outputIndex = index
  BY DEF getWithdrawalTxs
<1>6. /\ \A i \in DOMAIN table : RowTyped(i, table[i], Len(outputs))
      /\ \A i \in DOMAIN table : i \notin S => i \in DOMAIN rows
      /\ \A i \in DOMAIN table : i \notin S => table[i].outputIndex \in DOMAIN outputs
  <2>1. \A i \in DOMAIN table : RowTyped(i, table[i], Len(outputs))
    BY <1>1, <1>2 DEF DBTyped
  <2>2. \A i \in DOMAIN table : i \notin S => i \in DOMAIN rows
    BY <1>1, <1>5
  <2>3. \A x \in 2 .. Len(outputs) + 1 : x # index => x \in DOMAIN outputs
    BY <1>3
  <2>4. \A i \in DOMAIN table : table[i].outputIndex \in 2 .. Len(outputs) + 1
    BY <2>1 DEF RowTyped
  <2> QED
    BY <1>5, <2>1, <2>2, <2>3, <2>4
<1>7. ASSUME NEW i \in S
      PROVE  /\ DOMAIN rows'[i] = DOMAIN table[i]
             /\ rows'[i].sequence = table[i].sequence
             /\ rows'[i].receiver = table[i].receiver
             /\ rows'[i].outputIndex = table[i].outputIndex
             /\ rows'[i].merkleRoot = getMerkleRoot(S)
             /\ rows'[i].merkleProof = getMerkleProof(S, i)
  <2> DEFINE r == table[i]
             x == getMerkleRoot(S)
             y == getMerkleProof(S, i)
  <2>1. rows'[i] = [r EXCEPT !.merkleRoot = x, !.merkleProof = y]
    BY <1>4
  <2>2. DOMAIN r = {"sequence", "receiver", "outputIndex", "merkleRoot",
                    "merkleProof"}
    BY <1>5, <1>6 DEF RowTyped
  <2> HIDE DEF r, x, y
  <2>3. /\ DOMAIN rows'[i] = DOMAIN r
        /\ rows'[i].sequence = r.sequence
        /\ rows'[i].receiver = r.receiver
        /\ rows'[i].outputIndex = r.outputIndex
        /\ rows'[i].merkleRoot = x
        /\ rows'[i].merkleProof = y
    BY <2>1, <2>2, WithProof
  <2> QED
    BY <2>3 DEF r, x, y
<1>8. \A i \in DOMAIN table : /\ DOMAIN rows'[i] = DOMAIN table[i]
                              /\ rows'[i].sequence = table[i].sequence
                              /\ rows'[i].receiver = table[i].receiver
                              /\ rows'[i].outputIndex = table[i].outputIndex
  BY <1>4, <1>7
<1>9. rows' \in Seq(Range(rows')) /\ Len(rows') = Len(table)
  <2>1. rows' \in [1 .. Len(table) -> Range(rows')]
    BY <1>1, <1>4 DEF Range, saveMerkleRootAndProof
  <2> QED
    BY <1>1, <2>1, IsSequence
<1>10. DBGrows
  <2>1. ASSUME NEW i \in DOMAIN rows
        PROVE  /\ i \in DOMAIN rows'
               /\ rows'[i].sequence = rows[i].sequence
               /\ rows'[i].receiver = rows[i].receiver
               /\ rows'[i].outputIndex = rows[i].outputIndex
    <3>1. i \in DOMAIN table /\ table[i] = rows[i]
      BY <1>kept
    <3>2. i \in DOMAIN rows'
      BY <1>4, <3>1
    <3> QED
      BY <1>8, <3>1, <3>2
  <2>2. ASSUME NEW i \in DOMAIN rows, rows[i].outputIndex \in DOMAIN outputs
        PROVE  rows'[i] = rows[i]
    <3>1. i \in DOMAIN table /\ table[i] = rows[i] /\ index \notin DOMAIN outputs
      BY <1>kept, <1>3
    <3>2. i \notin S
      BY <1>5, <2>2, <3>1
    <3> QED
      BY <1>4, <3>1, <3>2
  <2>3. \A k \in DOMAIN outputs : k \in DOMAIN outputs'
    BY <1>3
  <2> QED
    BY <1>3, <2>1, <2>2, <2>3 DEF DBGrows
<1>11. \A i \in DOMAIN rows' : RowTyped(i, rows'[i], Len(outputs'))
  <2>1. 2 .. Len(outputs) + 1 \subseteq 2 .. Len(outputs') + 1
    BY <1>3
  <2>2. ASSUME NEW i \in DOMAIN table
        PROVE  RowTyped(i, rows'[i], Len(outputs'))
    BY <1>6, <1>8, <2>1 DEF RowTyped
  <2> QED
    BY <1>4, <2>2
<1>12. DBTyped'
  <2>1. \A k \in DOMAIN outputs' : OutputTyped(k, outputs'[k])
    <3>1. \A k \in DOMAIN outputs' : k = index \/ k \in DOMAIN outputs
      BY <1>3
    <3>2. OutputTyped(index, entity)
      BY DEF calculateOutputEntity, OutputTyped
    <3> HIDE DEF entity
    <3> QED
      BY <1>2, <1>3, <3>1, <3>2 DEF DBTyped
  <2> QED
    BY <1>3, <1>9, <1>11, <2>1 DEF DBTyped
<1>13. getWithdrawalTxs(rows', index) = S
  BY <1>4, <1>5, <1>8 DEF getWithdrawalTxs
<1>14. \A k \in DOMAIN outputs : getWithdrawalTxs(rows', k) = getWithdrawalTxs(rows, k)
  <2>1. \A i \in DOMAIN rows' : rows'[i].outputIndex = table[i].outputIndex
    BY <1>4, <1>8
  <2>2. \A k \in DOMAIN outputs : k # index
    BY <1>3
  <2>3. \A k \in DOMAIN outputs, i \in DOMAIN rows' :
          rows'[i].outputIndex = k => i \in DOMAIN rows /\ rows[i].outputIndex = k
    <3>1. \A i \in DOMAIN table : i \notin S => i \in DOMAIN rows /\ rows[i] = table[i]
      BY <1>kept, <1>6
    <3>2. \A i \in DOMAIN table : i \in S => table[i].outputIndex = index
      BY <1>5
    <3>3. DOMAIN rows' = DOMAIN table
      BY <1>4
    <3> SUFFICES ASSUME NEW k \in DOMAIN outputs, NEW i \in DOMAIN rows',
                        rows'[i].outputIndex = k
                 PROVE  i \in DOMAIN rows /\ rows[i].outputIndex = k
      OBVIOUS
    <3>4. i \in DOMAIN table /\ table[i].outputIndex = k
      BY <2>1, <3>3
    <3>5. i \notin S
      BY <2>2, <3>2, <3>4
    <3> QED
      BY <3>1, <3>4, <3>5
  <2>4. \A k \in DOMAIN outputs, i \in DOMAIN rows :
          rows[i].outputIndex = k => i \in DOMAIN rows' /\ rows'[i].outputIndex = k
    BY <1>kept, <1>4, <2>1
  <2> QED
    BY <2>3, <2>4 DEF getWithdrawalTxs
<1>15. RootsOK'
  <2>1. ASSUME NEW k \in DOMAIN outputs'
        PROVE  outputs'[k].outputRoot =
                 [version |-> k,
                  merkleRoot |-> getMerkleRoot(getWithdrawalTxs(rows', k))]
    <3>1. CASE k = index
      BY <1>3, <1>13, <3>1 DEF calculateOutputEntity
    <3>2. CASE k # index
      <4>1. k \in DOMAIN outputs /\ outputs'[k] = outputs[k]
        BY <1>3, <3>2
      <4> QED
        BY <1>14, <4>1 DEF RootsOK, LeavesOf
    <3> QED
      BY <3>1, <3>2
  <2>2. ASSUME NEW i \in DOMAIN rows'
        PROVE  /\ rows'[i].outputIndex \in DOMAIN outputs'
               /\ rows'[i].merkleRoot =
                    getMerkleRoot(getWithdrawalTxs(rows', rows'[i].outputIndex))
               /\ rows'[i].merkleProof =
                    getMerkleProof(getWithdrawalTxs(rows', rows'[i].outputIndex), i)
    <3>1. CASE i \in S
      <4>1. rows'[i].outputIndex = index
        BY <1>4, <1>5, <1>8, <3>1
      <4>2. index \in DOMAIN outputs'
        BY <1>3
      <4>3. /\ rows'[i].merkleRoot = getMerkleRoot(S)
            /\ rows'[i].merkleProof = getMerkleProof(S, i)
        BY <1>7, <3>1
      <4> QED
        BY <1>13, <4>1, <4>2, <4>3
    <3>2. CASE i \notin S
      <4>1. /\ i \in DOMAIN rows /\ rows[i] = table[i] /\ rows'[i] = rows[i]
            /\ rows[i].outputIndex \in DOMAIN outputs
        BY <1>1, <1>4, <1>6, <3>2
      <4>2. rows[i].outputIndex \in DOMAIN outputs'
        BY <1>3, <4>1
      <4> QED
        BY <1>14, <4>1, <4>2 DEF RootsOK, LeavesOf
    <3> QED
      BY <3>1, <3>2
  <2> QED
    BY <2>1, <2>2 DEF RootsOK, LeavesOf
<1> QED
  BY <1>10, <1>12, <1>15

-----------------------------------------------------------------------------
(* The lists and their pages *)

LEMMA RankGrows ==
  ASSUME NEW T, IsFiniteSet(T), NEW S \in SUBSET T, NEW key, NEW longer,
         \A y \in S : longer[y] = key[y], NEW x \in S
  PROVE  /\ Rank(S, key, x) \in Nat /\ Rank(T, longer, x) \in Nat
         /\ Rank(S, key, x) <= Rank(T, longer, x)
<1> DEFINE A == {y \in S : key[y] < key[x]}
           B == {y \in T : longer[y] < longer[x]}
<1>1. A \in SUBSET B /\ B \in SUBSET T
  OBVIOUS
<1>2. Rank(S, key, x) = Cardinality(A) + 1 /\ Rank(T, longer, x) = Cardinality(B) + 1
  BY DEF Rank
<1> HIDE DEF A, B
<1>3. IsFiniteSet(B) /\ IsFiniteSet(A) /\ Cardinality(A) <= Cardinality(B)
  BY <1>1, FS_Subset
<1>4. Cardinality(A) \in Nat /\ Cardinality(B) \in Nat
  BY <1>3, FS_CardinalityType
<1> QED
  BY <1>2, <1>3, <1>4

(* If something is left after a page, the page is full.                    *)
LEMMA PageFull ==
  ASSUME NEW S, IsFiniteSet(S), NEW key, \A x \in S : key[x] \in Int,
         \A x, y \in S : key[x] = key[y] => x = y,
         NEW a \in Nat, NEW x \in S, Rank(S, key, x) > a + LIMIT
  PROVE  Cardinality({k \in S : Rank(S, key, k) \in a + 1 .. a + LIMIT}) = LIMIT
<1> DEFINE P == {k \in S : Rank(S, key, k) \in a + 1 .. a + LIMIT}
           I == a + 1 .. a + LIMIT
           r == [k \in P |-> Rank(S, key, k)]
<1>1. /\ Cardinality(S) \in Nat
      /\ \A y \in S : Rank(S, key, y) \in 1 .. Cardinality(S)
      /\ \A y, z \in S : Rank(S, key, y) = Rank(S, key, z) => y = z
      /\ \A n \in 1 .. Cardinality(S) : \E y \in S : Rank(S, key, y) = n
  BY RankNumbers
<1>2. LIMIT \in Nat \ {0}
  BY ClaimsAssumption
<1>3. r \in Injection(P, I)
  BY <1>1 DEF Injection, IsInjective
<1>4. r \in Surjection(P, I)
  <2>1. ASSUME NEW n \in I
        PROVE  \E y \in P : r[y] = n
    <3>1. n \in 1 .. Cardinality(S)
      BY <1>1, <1>2
    <3>2. PICK y \in S : Rank(S, key, y) = n
      BY <1>1, <3>1
    <3> QED
      BY <3>2
  <2>2. r \in [P -> I]
    OBVIOUS
  <2> QED
    BY <2>1, <2>2 DEF Surjection
<1>5. IsFiniteSet(I) /\ Cardinality(I) = LIMIT
  <2>1. a + 1 \in Int /\ a + LIMIT \in Int /\ ~ (a + 1 > a + LIMIT)
        /\ (a + LIMIT) - (a + 1) + 1 = LIMIT
    BY <1>2
  <2> QED
    BY <2>1, FS_Interval
<1>6. Cardinality(P) = Cardinality(I)
  <2> HIDE DEF P, I, r
  <2> QED
    BY <1>3, <1>4, <1>5, FS_Injection
<1> QED
  BY <1>5, <1>6

(* The rows of a list are numbers, each the key of its row.                *)
LEMMA ListOrder ==
  ASSUME DBTyped, NEW q \in Queries
  PROVE  /\ IsFiniteSet(Listed(q)) /\ Listed(q) \subseteq Nat
         /\ \A k \in Listed(q) : Order(q)[k] \in Int
         /\ \A k, l \in Listed(q) : Order(q)[k] = Order(q)[l] => k = l
         /\ \A k \in Listed(q) : k \in DOMAIN Table(q) /\ Key(q, Table(q)[k]) = k
<1>1. /\ Len(rows) \in Nat /\ DOMAIN rows = 1 .. Len(rows)
      /\ Len(outputs) \in Nat /\ DOMAIN outputs = 1 .. Len(outputs)
  BY LenProperties DEF DBTyped
<1>2. IsFiniteSet(DOMAIN rows) /\ IsFiniteSet(DOMAIN outputs)
  BY <1>1, FS_Interval
<1>3. DOMAIN rows \subseteq Nat /\ DOMAIN outputs \subseteq Nat
  BY <1>1
<1>4. IsFiniteSet(Listed(q)) /\ Listed(q) \subseteq Nat
  <2>1. Listed(q) \subseteq DOMAIN rows \/ Listed(q) \subseteq DOMAIN outputs
    BY DEF Listed, outputList, withdrawalTxList
  <2> QED
    BY <1>2, <1>3, <2>1, FS_Subset
<1>5. \A k \in Listed(q) : Order(q)[k] = IF q.descending THEN -k ELSE k
  BY DEF Order
<1>6. \A k \in Listed(q) : Order(q)[k] \in Int
  BY <1>4, <1>5
<1>7. \A k, l \in Listed(q) : Order(q)[k] = Order(q)[l] => k = l
  BY <1>4, <1>5
<1>8. \A k \in Listed(q) : k \in DOMAIN Table(q) /\ Key(q, Table(q)[k]) = k
  BY DEF Listed, outputList, withdrawalTxList, Table, Key, DBTyped, RowTyped,
         OutputTyped
<1> QED
  BY <1>4, <1>6, <1>7, <1>8

(* As the database grows nothing leaves a list, nor comes nearer to its    *)
(* beginning.                                                              *)
LEMMA ListGrows ==
  ASSUME DBTyped, DBTyped', DBGrows, NEW q \in Queries
  PROVE  /\ Listed(q) \subseteq Listed(q)'
         /\ \A k \in Listed(q) :
              /\ Rank(Listed(q), Order(q), k) \in Nat
              /\ Rank(Listed(q)', Order(q)', k) \in Nat
              /\ Rank(Listed(q), Order(q), k) <= Rank(Listed(q)', Order(q)', k)
<1>1. Listed(q) \subseteq Listed(q)'
  BY DEF Listed, outputList, withdrawalTxList, DBGrows
<1>2. IsFiniteSet(Listed(q)')
  <2>1. Len(rows') \in Nat /\ Len(outputs') \in Nat
    BY LenProperties DEF DBTyped
  <2>2. DOMAIN rows' = 1 .. Len(rows') /\ DOMAIN outputs' = 1 .. Len(outputs')
    BY LenProperties DEF DBTyped
  <2>3. IsFiniteSet(DOMAIN rows') /\ IsFiniteSet(DOMAIN outputs')
    BY <2>1, <2>2, FS_Interval
  <2>4. Listed(q)' \subseteq DOMAIN rows' \/ Listed(q)' \subseteq DOMAIN outputs'
    BY DEF Listed, outputList, withdrawalTxList
  <2> QED
    BY <2>3, <2>4, FS_Subset
<1>3. \A k \in Listed(q) : Order(q)'[k] = Order(q)[k]
  BY <1>1 DEF Order
<1> QED
  BY <1>1, <1>2, <1>3, RankGrows

-----------------------------------------------------------------------------
(* Every step keeps the invariant. *)

(* A block: what a client has, and has still to read, stays where it can   *)
(* be proved, and can be read.                                             *)
LEMMA KeptByBlock ==
  ASSUME IInv, DBTyped', RootsOK', DBGrows, UNCHANGED <<up, client, claim>>
  PROVE  IInv'
<1>1. DBTyped
  BY TypedIsDBTyped DEF IInv
<1>2. Typed'
  <2>1. /\ query \in {<<>>} \cup {<<q>> : q \in Queries}
        /\ offset \in Nat /\ done \in BOOLEAN /\ (done => query # <<>>)
        /\ before \subseteq Nat /\ waiting \subseteq page
        /\ page # {} => query = <<>>
        /\ up \in BOOLEAN
    BY DEF IInv, Typed
  <2>2. Queries' = Queries
    BY DEF Queries
  <2> QED
    BY <2>1, <2>2 DEF client, claim, Typed, DBTyped, RowTyped
<1>3. ASSUME NEW r \in Range(rows), r.merkleRoot # NoHash
      PROVE  r \in Range(rows')
  <2>1. PICK i \in DOMAIN rows : r = rows[i]
    BY DEF Range
  <2>2. rows[i].outputIndex \in DOMAIN outputs
    BY <1>3, <2>1 DEF IInv, RootsOK
  <2>3. i \in DOMAIN rows' /\ rows'[i] = rows[i]
    BY <2>2 DEF DBGrows
  <2> QED
    BY <2>1, <2>3 DEF Range
<1>4. GotOK'
  <2> SUFFICES ASSUME NEW q \in Queries, query = <<q>>, q.list = "withdrawal",
                      NEW r \in got, r.merkleRoot # NoHash
               PROVE  r \in Range(rows')
    BY DEF client, GotOK
  <2>1. r \in Range(rows)
    BY DEF IInv, GotOK
  <2> QED
    BY <1>3, <2>1
<1>5. PagesOK'
  <2>1. query' = <<>> => before' = {} /\ got' = {} /\ offset' = 0
    BY DEF client, IInv, PagesOK
  <2>2. ASSUME NEW q \in Queries, query' = <<q>>
        PROVE  /\ before' \subseteq Listed(q)'
               /\ \A k \in before' :
                    \/ k \in {Key(q, row) : row \in got'}
                    \/ ~done' /\ Rank(Listed(q)', Order(q)', k) > offset' * LIMIT
    <3>1. /\ before \subseteq Listed(q)
          /\ \A k \in before :
               \/ k \in {Key(q, row) : row \in got}
               \/ ~done /\ Rank(Listed(q), Order(q), k) > offset * LIMIT
      BY <2>2 DEF client, IInv, PagesOK
    <3>2. /\ Listed(q) \subseteq Listed(q)'
          /\ \A k \in Listed(q) :
               /\ Rank(Listed(q), Order(q), k) \in Nat
               /\ Rank(Listed(q)', Order(q)', k) \in Nat
               /\ Rank(Listed(q), Order(q), k) <= Rank(Listed(q)', Order(q)', k)
      BY <1>1, ListGrows
    <3>3. offset * LIMIT \in Nat
      BY ClaimsAssumption DEF IInv, Typed
    <3>4. before' = before /\ got' = got /\ done' = done /\ offset' = offset
      BY DEF client
    <3> QED
      BY <3>1, <3>2, <3>3, <3>4
  <2> QED
    BY <2>1, <2>2 DEF PagesOK
<1> QED
  BY <1>2, <1>4, <1>5 DEF IInv

LEMMA StoreBlockDB ==
  ASSUME IInv, StoreBlock
  PROVE  DBTyped' /\ RootsOK' /\ DBGrows
<1>1. Typed /\ RootsOK
  BY DEF IInv
<1>2. PICK table \in {rows} \cup {Received(user) : user \in Users} :
        /\ Len(table) <= MaxRows
        /\ \/ rows' = table /\ rows' # rows /\ UNCHANGED outputs
           \/ LET index == Len(outputs) + 1
                  S     == getWithdrawalTxs(table, index)
              IN  /\ index <= MaxOutputs
                  /\ rows' = saveMerkleRootAndProof(table, S)
                  /\ outputs' = Append(outputs,
                       calculateOutputEntity(index, getMerkleRoot(S)))
  BY DEF StoreBlock
<1>3. CASE rows' = table /\ outputs' = outputs
  BY <1>1, <1>2, <1>3, StoreWithdrawal
<1>4. CASE LET index == Len(outputs) + 1
               S     == getWithdrawalTxs(table, index)
           IN  /\ index <= MaxOutputs
               /\ rows' = saveMerkleRootAndProof(table, S)
               /\ outputs' = Append(outputs,
                    calculateOutputEntity(index, getMerkleRoot(S)))
  <2> DEFINE index == Len(outputs) + 1
             S == getWithdrawalTxs(table, index)
  <2>1. /\ index <= MaxOutputs
        /\ rows' = saveMerkleRootAndProof(table, S)
        /\ outputs' = Append(outputs, calculateOutputEntity(index, getMerkleRoot(S)))
    BY <1>4
  <2>2. index = Len(outputs) + 1 /\ S = getWithdrawalTxs(table, index)
    OBVIOUS
  <2> HIDE DEF S, index
  <2> QED
    BY <1>1, <1>2, <2>1, <2>2, StoreOutput
<1> QED
  BY <1>2, <1>3, <1>4

LEMMA StoreBlockIInv == IInv /\ StoreBlock => IInv'
BY StoreBlockDB, KeptByBlock DEF StoreBlock

(* What leaves the database alone keeps what is said of it.                *)
LEMMA SameRoots ==
  ASSUME RootsOK, UNCHANGED db
  PROVE  RootsOK'
  BY DEF RootsOK, LeavesOf, db

(* ... and what leaves the reading client alone too what is said of that.  *)
LEMMA SameClient ==
  ASSUME IInv, UNCHANGED <<db, client>>
  PROVE  GotOK' /\ PagesOK'
<1>1. \A q \in Queries : Listed(q)' = Listed(q) /\ Order(q)' = Order(q)
  BY DEF Listed, Order, outputList, withdrawalTxList, db
<1>2. GotOK'
  BY DEF IInv, GotOK, db, client
<1>3. PagesOK'
  BY <1>1 DEF IInv, PagesOK, client
<1> QED
  BY <1>2, <1>3

LEMMA StartReadingIInv == IInv /\ StartReading => IInv'
<1> SUFFICES ASSUME IInv, StartReading
             PROVE  IInv'
  OBVIOUS
<1>1. PICK q \in Queries : query' = <<q>> /\ before' = Listed(q)
  BY DEF StartReading
<1>2. DBTyped
  BY TypedIsDBTyped DEF IInv
<1>3. /\ IsFiniteSet(Listed(q)) /\ Listed(q) \subseteq Nat
      /\ \A k \in Listed(q) : Order(q)[k] \in Int
      /\ \A k, l \in Listed(q) : Order(q)[k] = Order(q)[l] => k = l
  BY <1>2, ListOrder
<1>4. query = <<>> /\ page = {} /\ got = {} /\ offset = 0 /\ ~done
  BY DEF StartReading, IInv, PagesOK, Typed
<1>5. UNCHANGED <<up, rows, outputs, offset, done, got, page, waiting>>
  BY DEF StartReading, db, claim
<1>6. Typed'
  <2>1. query' # <<>> /\ query' \in {<<p>> : p \in Queries}
    BY <1>1
  <2> QED
    BY <1>1, <1>3, <1>4, <1>5, <2>1 DEF IInv, Typed
<1>7. RootsOK'
  BY SameRoots DEF StartReading, IInv
<1>8. GotOK'
  BY <1>4, <1>5 DEF GotOK
<1>9. PagesOK'
  <2>1. Listed(q)' = Listed(q) /\ Order(q)' = Order(q)
    BY <1>5 DEF Listed, Order, outputList, withdrawalTxList
  <2>2. \A k \in Listed(q) : Rank(Listed(q), Order(q), k) \in 1 .. Cardinality(Listed(q))
    BY <1>3, RankNumbers
  <2>3. offset * LIMIT = 0
    BY <1>4, ClaimsAssumption
  <2>4. \A k \in Listed(q) : Rank(Listed(q), Order(q), k) > 0
    BY <2>2
  <2>5. \A p \in Queries : query' = <<p>> => p = q
    BY <1>1
  <2>6. query' # <<>>
    BY <1>1
  <2> QED
    BY <1>1, <1>4, <1>5, <2>1, <2>3, <2>4, <2>5, <2>6 DEF PagesOK
<1> QED
  BY <1>6, <1>7, <1>8, <1>9 DEF IInv

LEMMA EndReadingIInv == IInv /\ EndReading => IInv'
<1> SUFFICES ASSUME IInv, EndReading
             PROVE  IInv'
  OBVIOUS
<1>1. /\ query' = <<>> /\ offset' = 0 /\ before' = {} /\ got' = {}
      /\ done' = FALSE
      /\ UNCHANGED <<up, rows, outputs, page, waiting>>
  BY DEF EndReading, db, claim
<1>2. Typed'
  BY <1>1 DEF IInv, Typed
<1>3. RootsOK'
  BY SameRoots DEF EndReading, IInv
<1>4. GotOK' /\ PagesOK'
  BY <1>1 DEF GotOK, PagesOK
<1> QED
  BY <1>2, <1>3, <1>4 DEF IInv

(* The lookups of /tx/claim, and a restart, touch neither.                 *)
LEMMA ClaimIInv ==
  IInv /\ (FindClaims \/ Respond \/ Lookup \/ LookupThrow \/ ClaimsDone \/ Restart)
    => IInv'
<1> SUFFICES ASSUME IInv,
                    FindClaims \/ Respond \/ Lookup \/ LookupThrow \/ ClaimsDone \/ Restart
             PROVE  IInv'
  OBVIOUS
<1>1. UNCHANGED <<db, client>>
  BY DEF FindClaims, Respond, Lookup, LookupThrow, ClaimsDone, Restart
<1>2. /\ up' \in BOOLEAN /\ waiting' \subseteq page'
      /\ page' # {} => query' = <<>>
  BY DEF FindClaims, Respond, Lookup, LookupThrow, ClaimsDone, Restart,
         client, claim, IInv, Typed
<1>3. Typed'
  BY <1>1, <1>2 DEF IInv, Typed, db, client
<1> QED
  BY <1>1, <1>3, SameRoots, SameClient DEF IInv

(* A page: a row that was there when the client began is on it, or comes   *)
(* after it, and then the page is full and the client reads on.            *)
LEMMA ReadPageIInv == IInv /\ ReadPage => IInv'
<1> SUFFICES ASSUME IInv, ReadPage
             PROVE  IInv'
  OBVIOUS
<1>1. PICK q \in Queries : query = <<q>>
  BY DEF ReadPage, IInv, Typed
<1> DEFINE list == find(q, offset)
           S    == Listed(q)
           rank == [k \in S |-> Rank(S, Order(q), k)]
<1>2. /\ got' = got \cup {Table(q)[k] : k \in list}
      /\ \/ offset' = offset + 1 /\ done' = done
         \/ Cardinality(list) # LIMIT /\ offset' = offset /\ done' = TRUE
      /\ ~done
      /\ UNCHANGED <<up, rows, outputs, query, before, page, waiting>>
  BY <1>1 DEF ReadPage, db, claim
<1>3. DBTyped
  BY TypedIsDBTyped DEF IInv
<1>4. /\ IsFiniteSet(S) /\ S \subseteq Nat
      /\ \A k \in S : Order(q)[k] \in Int
      /\ \A k, l \in S : Order(q)[k] = Order(q)[l] => k = l
      /\ \A k \in S : k \in DOMAIN Table(q) /\ Key(q, Table(q)[k]) = k
  BY <1>3, ListOrder
<1>5. offset \in Nat /\ done \in BOOLEAN /\ LIMIT \in Nat \ {0}
  BY ClaimsAssumption DEF IInv, Typed
<1>6. Typed'
  <2>1. offset' \in Nat /\ done' \in BOOLEAN /\ query' # <<>>
    <3>1. \/ offset' = offset + 1 /\ done' = done
          \/ offset' = offset /\ done' = TRUE
      BY <1>2
    <3>2. query' # <<>>
      BY <1>1, <1>2
    <3>3. offset' \in Nat
      BY <1>5, <3>1
    <3>4. done' \in BOOLEAN
      BY <1>5, <3>1, Zenon
    <3> QED
      BY <3>2, <3>3, <3>4
  <2>2. UNCHANGED <<up, rows, outputs, query, before, page, waiting>>
    BY <1>2
  <2> HIDE DEF list, S, rank
  <2> QED
    BY <2>1, <2>2 DEF IInv, Typed
<1>7. RootsOK'
  BY SameRoots DEF ReadPage, IInv
<1>8. GotOK'
  <2> SUFFICES ASSUME q.list = "withdrawal",
                      NEW r \in got', r.merkleRoot # NoHash
               PROVE  r \in Range(rows)
    BY <1>1, <1>2 DEF GotOK
  <2>1. CASE r \in got
    BY <1>1, <2>1 DEF IInv, GotOK
  <2>2. CASE r \in {Table(q)[k] : k \in list}
    <3>1. PICK k \in list : r = Table(q)[k]
      BY <2>2
    <3>2. Table(q) = rows /\ k \in DOMAIN rows
      BY DEF Table, find, Listed, withdrawalTxList
    <3> QED
      BY <3>1, <3>2 DEF Range
  <2> QED
    BY <1>2, <2>1, <2>2
<1>9. PagesOK'
  <2>1. Listed(q)' = S /\ Order(q)' = Order(q)
    BY <1>2 DEF Listed, Order, outputList, withdrawalTxList
  <2>2. /\ before \subseteq S
        /\ \A k \in before : \/ k \in {Key(q, row) : row \in got}
                             \/ rank[k] > offset * LIMIT
    BY <1>1 DEF IInv, PagesOK
  <2>3. \A k \in list : k \in {Key(q, row) : row \in got'}
    BY <1>2, <1>4 DEF find
  <2>4. \A k \in before : k \in {Key(q, row) : row \in got} =>
                          k \in {Key(q, row) : row \in got'}
    BY <1>2
  <2>5. ASSUME NEW k \in before, k \notin {Key(q, row) : row \in got'}
        PROVE  ~done' /\ rank[k] > offset' * LIMIT
    <3>1. k \in S /\ rank[k] > offset * LIMIT /\ k \notin list
      BY <2>2, <2>3, <2>4, <2>5
    <3>2. rank[k] \in Nat
      BY <1>4, <3>1, RankNumbers
    <3>3. offset * LIMIT \in Nat /\ (offset + 1) * LIMIT = offset * LIMIT + LIMIT
      BY <1>5
    <3>4. rank[k] \notin offset * LIMIT + 1 .. offset * LIMIT + LIMIT
      BY <3>1 DEF find, skip
    <3>5. rank[k] > offset * LIMIT + LIMIT
      <4> HIDE DEF rank, S, list
      <4> QED
        BY <1>5, <3>1, <3>2, <3>3, <3>4
    <3>6. Cardinality(list) = LIMIT
      <4>1. list = {l \in S : Rank(S, Order(q), l) \in
                                offset * LIMIT + 1 .. offset * LIMIT + LIMIT}
        BY DEF find, skip
      <4>2. Rank(S, Order(q), k) > offset * LIMIT + LIMIT
        BY <3>1, <3>5
      <4> DEFINE a == offset * LIMIT
                 key == Order(q)
      <4>3. /\ a \in Nat /\ Rank(S, key, k) > a + LIMIT
            /\ list = {l \in S : Rank(S, key, l) \in a + 1 .. a + LIMIT}
            /\ \A l \in S : key[l] \in Int
            /\ \A l, m \in S : key[l] = key[m] => l = m
        BY <1>4, <3>3, <4>1, <4>2
      <4>4. IsFiniteSet(S) /\ k \in S
        BY <1>4, <3>1
      <4> HIDE DEF S, list, a, key
      <4> QED
        BY <4>3, <4>4, PageFull
    <3> HIDE DEF rank, S, list
    <3> QED
      BY <1>2, <3>3, <3>5, <3>6
  <2>6. \A k \in before : rank[k] = Rank(S, Order(q), k)
    BY <2>2
  <2>7. \A p \in Queries : query' = <<p>> => p = q
    BY <1>1, <1>2
  <2>8. query' # <<>> /\ before' = before
    BY <1>1, <1>2
  <2>9. \A k \in before : \/ k \in {Key(q, row) : row \in got'}
                          \/ ~done' /\ Rank(S, Order(q), k) > offset' * LIMIT
    BY <2>5, <2>6
  <2> HIDE DEF rank, S, list
  <2> QED
    BY <2>1, <2>2, <2>7, <2>8, <2>9 DEF PagesOK
<1> QED
  BY <1>6, <1>7, <1>8, <1>9 DEF IInv

LEMMA StutterIInv == IInv /\ UNCHANGED vars => IInv'
<1> SUFFICES ASSUME IInv, UNCHANGED vars
             PROVE  IInv'
  OBVIOUS
<1>1. Typed'
  BY DEF vars, IInv, Typed
<1> QED
  BY <1>1, SameRoots, SameClient DEF vars, db, client, IInv

LEMMA NextIInv == IInv /\ [Next]_vars => IInv'
BY StoreBlockIInv, StartReadingIInv, ReadPageIInv, EndReadingIInv, ClaimIInv,
   StutterIInv DEF Next

LEMMA IInvInvariant == Spec => []IInv
BY InitIInv, NextIInv, PTL DEF Spec

-----------------------------------------------------------------------------
(* What was read *)

ReadOK ==
  /\ got # {} => query # <<>>
  /\ \A q \in Queries : query = <<q>> =>
       \A r \in got : IF q.list = "output" THEN r \in Range(outputs)
                                           ELSE IsWithdrawal(r)
  /\ IsFiniteSet(page) /\ \A r \in page : IsWithdrawal(r)
  /\ \A c \in claimTxList : IsClaim(c)
  /\ response # <<>> => page # {} /\ IsResponse(response)

LEMMA RowIsWithdrawal ==
  ASSUME Typed, NEW k \in DOMAIN rows
  PROVE  IsWithdrawal(rows[k])
BY DEF Typed, IsWithdrawal

(* A later block changes nothing in a row but its root and its proof.      *)
LEMMA BlockKeepsRead ==
  ASSUME ReadOK, DBGrows, UNCHANGED <<client, claim>>
  PROVE  ReadOK'
<1>1. \A r : IsWithdrawal(r) => IsWithdrawal(r)'
  BY DEF DBGrows, IsWithdrawal
<1>2. \A c : IsClaim(c) => IsClaim(c)'
  <2> SUFFICES ASSUME NEW c, IsClaim(c)
               PROVE  IsClaim(c)'
    OBVIOUS
  <2>1. c.sequence \in DOMAIN rows /\ c.outputIndex \in DOMAIN outputs
    BY DEF IsClaim
  <2>2. /\ c.sequence \in DOMAIN rows' /\ c.outputIndex \in DOMAIN outputs'
        /\ rows'[c.sequence].outputIndex = rows[c.sequence].outputIndex
    BY <2>1 DEF DBGrows
  <2> QED
    BY <2>2 DEF IsClaim
<1>3. \A r \in Range(outputs) : r \in Range(outputs')
  BY DEF DBGrows, Range
<1>4. /\ page' = page /\ claimTxList' = claimTxList /\ response' = response
      /\ got' = got /\ query' = query
  BY DEF client, claim
<1>5. IsResponse(response) => IsResponse(response)'
  BY <1>4 DEF IsResponse
<1> QED
  BY <1>1, <1>2, <1>3, <1>4, <1>5 DEF ReadOK

(* What leaves the database alone and reads nothing.                       *)
LEMMA SameRead ==
  ASSUME UNCHANGED db
  PROVE  /\ Range(outputs') = Range(outputs)
         /\ \A r : IsWithdrawal(r)' <=> IsWithdrawal(r)
         /\ \A c : IsClaim(c)' <=> IsClaim(c)
BY DEF db, IsWithdrawal, IsClaim

LEMMA ReadPageRead ==
  ASSUME Typed, ReadOK, ReadPage
  PROVE  ReadOK'
<1>1. PICK q \in Queries : query = <<q>>
  BY DEF ReadPage, Typed
<1>2. /\ got' = got \cup {Table(q)[k] : k \in find(q, offset)}
      /\ query' = query /\ UNCHANGED db /\ UNCHANGED claim
  BY <1>1 DEF ReadPage
<1>3. ASSUME NEW k \in find(q, offset)
      PROVE  IF q.list = "output" THEN Table(q)[k] \in Range(outputs)
                                  ELSE IsWithdrawal(Table(q)[k])
  <2>1. k \in Listed(q)
    BY DEF find
  <2>2. CASE q.list = "output"
    BY <2>1, <2>2 DEF Listed, outputList, Table, Range
  <2>3. CASE q.list # "output"
    <3>1. k \in DOMAIN rows /\ Table(q) = rows
      BY <2>1, <2>3 DEF Listed, withdrawalTxList, Table
    <3> QED
      BY <2>3, <3>1, RowIsWithdrawal
  <2> QED
    BY <2>2, <2>3
<1>4. \A r \in got' : IF q.list = "output" THEN r \in Range(outputs)
                                            ELSE IsWithdrawal(r)
  BY <1>1, <1>2, <1>3 DEF ReadOK
<1>5. query' # <<>> /\ \A p \in Queries : query' = <<p>> => p = q
  BY <1>1, <1>2
<1>6. /\ page' = page /\ claimTxList' = claimTxList /\ response' = response
  BY <1>2 DEF claim
<1>7. IsResponse(response) => IsResponse(response)'
  BY <1>6 DEF IsResponse
<1> QED
  BY <1>2, <1>4, <1>5, <1>6, <1>7, SameRead DEF ReadOK

LEMMA ImageFinite ==
  ASSUME NEW S, IsFiniteSet(S), NEW f
  PROVE  IsFiniteSet({f[k] : k \in S})
<1> DEFINE T == {f[k] : k \in S}
           g == [k \in S |-> f[k]]
<1>1. g \in Surjection(S, T)
  BY DEF Surjection
<1> QED
  BY <1>1, FS_Surjection

LEMMA FindClaimsRead ==
  ASSUME Typed, ReadOK, FindClaims
  PROVE  ReadOK'
<1>1. PICK q \in Queries : /\ q.list = "withdrawal"
                           /\ page' = {rows[k] : k \in find(q, 0)}
  BY DEF FindClaims
<1>2. /\ UNCHANGED db /\ query' = query /\ got' = got
      /\ claimTxList' = claimTxList /\ response' = response
  BY DEF FindClaims, client
<1>3. find(q, 0) \subseteq DOMAIN rows
  BY <1>1 DEF find, Listed, withdrawalTxList
<1>4. IsFiniteSet(page')
  <2>1. IsFiniteSet(DOMAIN rows)
    <3>1. Len(rows) \in Nat /\ DOMAIN rows = 1 .. Len(rows)
      BY LenProperties DEF Typed
    <3> QED
      BY <3>1, FS_Interval
  <2>2. IsFiniteSet(find(q, 0))
    BY <1>3, <2>1, FS_Subset
  <2> QED
    BY <1>1, <2>2, ImageFinite
<1>5. \A r \in page' : IsWithdrawal(r)
  BY <1>1, <1>3, RowIsWithdrawal
<1>6. response = <<>>
  BY DEF FindClaims, ReadOK
<1> QED
  BY <1>2, <1>4, <1>5, <1>6, SameRead DEF ReadOK

LEMMA RespondRead ==
  ASSUME ReadOK, Respond
  PROVE  ReadOK'
<1>1. /\ UNCHANGED db /\ query' = query /\ got' = got
      /\ page' = page /\ claimTxList' = claimTxList
  BY DEF Respond, client
<1>2. page' # {} /\ IsResponse(response)'
  BY <1>1 DEF Respond, IsResponse
<1> QED
  BY <1>1, <1>2, SameRead DEF ReadOK

LEMMA LookupRead ==
  ASSUME Typed, ReadOK, Lookup
  PROVE  ReadOK'
<1>1. PICK r \in waiting : /\ r.outputIndex \in DOMAIN outputs
                           /\ claimTxList' = claimTxList \cup {ClaimOf(r)}
  BY DEF Lookup
<1>2. /\ UNCHANGED db /\ query' = query /\ got' = got
      /\ page' = page /\ response' = response
  BY DEF Lookup, client
<1>3. IsClaim(ClaimOf(r))
  <2>1. IsWithdrawal(r)
    BY DEF Typed, ReadOK
  <2> QED
    BY <1>1, <2>1 DEF IsWithdrawal, IsClaim, ClaimOf
<1>4. \A c \in claimTxList' : IsClaim(c)
  BY <1>1, <1>3 DEF ReadOK
<1>5. IsResponse(response) => IsResponse(response)'
  BY <1>1, <1>2 DEF IsResponse
<1> QED
  BY <1>2, <1>4, <1>5, SameRead DEF ReadOK

(* Nothing is left of what was read, or all of it.                         *)
LEMMA OthersRead ==
  ASSUME ReadOK, Typed, PagesOK,
         \/ Restart \/ StartReading \/ EndReading \/ LookupThrow \/ ClaimsDone
         \/ UNCHANGED vars
  PROVE  ReadOK'
<1>1. UNCHANGED db
  BY DEF Restart, StartReading, EndReading, LookupThrow, ClaimsDone, vars, db
<1>2. \/ page' = {} /\ claimTxList' = {} /\ response' = <<>>
      \/ page' = page /\ claimTxList' = claimTxList /\ response' = response
  BY DEF Restart, StartReading, EndReading, LookupThrow, ClaimsDone, vars, claim
<1>3. got' = {} \/ (got' = got /\ query' = query)
  BY DEF Restart, StartReading, EndReading, LookupThrow, ClaimsDone, vars, client,
         PagesOK
<1>4. IsFiniteSet({})
  BY FS_EmptySet
<1>5. /\ IsFiniteSet(page') /\ \A r \in page' : IsWithdrawal(r)
      /\ \A c \in claimTxList' : IsClaim(c)
  BY <1>2, <1>4 DEF ReadOK
<1>6. response' # <<>> => page' # {} /\ IsResponse(response)'
  <2>1. CASE page' = {} /\ claimTxList' = {} /\ response' = <<>>
    BY <2>1
  <2>2. CASE page' = page /\ claimTxList' = claimTxList /\ response' = response
    BY <2>2 DEF ReadOK, IsResponse
  <2> QED
    BY <1>2, <2>1, <2>2
<1> QED
  BY <1>1, <1>3, <1>5, <1>6, SameRead DEF ReadOK

LEMMA ReadInvariant == Spec => [](IInv /\ ReadOK)
<1>1. Init => IInv /\ ReadOK
  <2> SUFFICES ASSUME Init
               PROVE  ReadOK
    BY InitIInv
  <2>1. /\ got = {} /\ query = <<>> /\ page = {} /\ claimTxList = {}
        /\ response = <<>>
    BY DEF Init
  <2>2. IsFiniteSet(page)
    BY <2>1, FS_EmptySet
  <2> QED
    BY <2>1, <2>2 DEF ReadOK
<1>2. IInv /\ ReadOK /\ [Next]_vars => IInv' /\ ReadOK'
  <2> SUFFICES ASSUME IInv, ReadOK, [Next]_vars
               PROVE  ReadOK'
    BY NextIInv
  <2>1. Typed /\ PagesOK
    BY DEF IInv
  <2>2. CASE StoreBlock
    BY <2>2, StoreBlockDB, BlockKeepsRead DEF StoreBlock
  <2> QED
    BY <2>1, <2>2, ReadPageRead, FindClaimsRead, RespondRead, LookupRead, OthersRead
       DEF Next
<1> QED
  BY <1>1, <1>2, PTL DEF Spec

-----------------------------------------------------------------------------
(* What it is for *)

(* Every variable has its type in every reachable state: a withdrawal is   *)
(* never under the first output, nor under one that is not the next or     *)
(* stored; what a client read, page or claim, is of rows and outputs there *)
(* still, with the fields it read them with.                               *)
THEOREM TypeCorrect == Spec => []TypeOK
<1>1. IInv /\ ReadOK => TypeOK
  BY DEF IInv, ReadOK, Typed, OutputTyped, TypeOK
<1> QED
  BY <1>1, ReadInvariant, PTL

(* A withdrawal of a stored output can be proved on L1.                    *)
LEMMA RowProvable ==
  ASSUME IInv, NEW i \in DOMAIN rows, rows[i].outputIndex \in DOMAIN outputs
  PROVE  Provable(rows[i])
<1> DEFINE k == rows[i].outputIndex
           S == LeavesOf(k)
<1>1. DBTyped
  BY TypedIsDBTyped DEF IInv
<1>2. Len(rows) \in Nat /\ DOMAIN rows = 1 .. Len(rows) /\ Len(rows) <= MaxRows
  BY <1>1, LenProperties DEF DBTyped
<1>3. S \subseteq 1 .. MaxRows /\ i \in S
  BY <1>2, ClaimsAssumption DEF LeavesOf, getWithdrawalTxs
<1>4. Leaves(S)
  BY <1>3 DEF Leaves
<1>5. /\ rows[i].merkleRoot = getMerkleRoot(S)
      /\ rows[i].merkleProof = getMerkleProof(S, i)
      /\ outputs[k].outputRoot = [version |-> k, merkleRoot |-> getMerkleRoot(S)]
  BY DEF IInv, RootsOK
<1>6. rows[i].sequence = i
  BY <1>1 DEF DBTyped, RowTyped
<1> HIDE DEF S
<1>7. \A j \in DOMAIN rows :
        verify(rows[i].merkleRoot, rows[i].merkleProof, j) <=> j = rows[i].sequence
  BY <1>3, <1>4, <1>5, <1>6, ProofBinds
<1> QED
  BY <1>5, <1>7 DEF Provable

(* ProofsVerify holds in every reachable state: whatever shape the tree of *)
(* an output has and whatever order its leaves are in, the proof stored    *)
(* with a withdrawal leads to the root in its output, from it and from no  *)
(* other withdrawal, and a proof that a client once got stays good.        *)
THEOREM WithdrawalsProvable == Spec => []ProofsVerify
<1>1. IInv => ProofsVerify
  <2> SUFFICES ASSUME IInv
               PROVE  ProofsVerify
    OBVIOUS
  <2>1. ASSUME query # <<>>, query[1].list = "withdrawal",
               NEW r \in got, r.merkleRoot # NoHash
        PROVE  Provable(r)
    <3>1. PICK q \in Queries : query = <<q>>
      BY <2>1 DEF IInv, Typed
    <3>2. r \in Range(rows)
      BY <2>1, <3>1 DEF IInv, GotOK
    <3>3. PICK i \in DOMAIN rows : r = rows[i]
      BY <3>2 DEF Range
    <3>4. rows[i].outputIndex \in DOMAIN outputs
      BY <2>1, <3>3 DEF IInv, RootsOK
    <3> QED
      BY <3>3, <3>4, RowProvable
  <2> QED
    BY <2>1, RowProvable DEF ProofsVerify
<1> QED
  BY <1>1, IInvInvariant, PTL

(* PagesMissNothing holds in every reachable state: the pages of a list,   *)
(* of any size and in either order, have between them every row that was   *)
(* there when the client asked for the first, whatever is stored between   *)
(* its requests.                                                           *)
THEOREM PagesComplete == Spec => []PagesMissNothing
<1>1. IInv => PagesMissNothing
  <2> SUFFICES ASSUME IInv, done
               PROVE  before \subseteq {Key(query[1], row) : row \in got}
    BY DEF PagesMissNothing
  <2>1. PICK q \in Queries : query = <<q>>
    BY DEF IInv, Typed
  <2> QED
    BY <2>1 DEF IInv, PagesOK
<1> QED
  BY <1>1, IInvInvariant, PTL
=============================================================================
