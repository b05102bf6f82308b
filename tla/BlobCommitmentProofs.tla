------------------------ MODULE BlobCommitmentProofs ------------------------
(***************************************************************************)
(* Proofs about BlobCommitment, for every set of lengths up to maxBytes:   *)
(* what the shares hold, that the gas limit covers them, that the trees    *)
(* are a Merkle mountain range, and what the commitment binds.             *)
(***************************************************************************)
EXTENDS BlobCommitment, DataInduction, SequenceTheorems

(* Bytes in the first k shares when all of them are full.                  *)
Filled(k) == IF k = 0 THEN 0 ELSE 478 + 482 * (k - 1)

(* The i-th share of the blob.                                             *)
ShareAt(i) ==
  [header |-> IF i = 1 THEN 34 ELSE 30,
   from   |-> Filled(i - 1),
   data   |-> IF length <= Filled(i) THEN length - Filled(i - 1)
              ELSE IF i = 1 THEN 478 ELSE 482,
   pad    |-> IF length <= Filled(i) THEN Filled(i) - length ELSE 0]

Taken == IF sizes = <<>> THEN 0
         ELSE sizes[Len(sizes)].at + sizes[Len(sizes)].size

SharesOK ==
  /\ \A i \in 1 .. Len(shares) : shares[i] = ShareAt(i)
  /\ pc = "idle" => shares = <<>>
  /\ pc # "idle" => 0 < length /\ length <= 500000
  /\ pc = "write" => /\ Filled(Len(shares)) < length
                     /\ left = length - Filled(Len(shares))
  /\ Split => /\ 1 <= Len(shares) /\ Len(shares) <= 1038
              /\ Filled(Len(shares) - 1) < length
              /\ length <= Filled(Len(shares))

(* What is left to plan is less than the last tree unless that was of the  *)
(* full width.                                                             *)
TreesOK ==
  /\ pc \in {"idle", "write"} => sizes = <<>>
  /\ pc = "sizes" =>
       /\ Taken + total = Len(shares)
       /\ sizes # <<>> => LET p == sizes[Len(sizes)].size IN
            /\ p <= subTreeWidth(Len(shares))
            /\ p = subTreeWidth(Len(shares)) \/ total < p
  /\ pc \in {"trees", "done"} => sizes # <<>> /\ Taken = Len(shares)
  /\ \A k \in 1 .. Len(sizes) :
       /\ sizes[k].at % sizes[k].size = 0
       /\ k = 1 => sizes[k].at = 0
       /\ k > 1 => /\ sizes[k].size <= sizes[k - 1].size
                   /\ sizes[k].at = sizes[k - 1].at + sizes[k - 1].size

(* The types of what is there before a tree is hashed.  Those of the roots *)
(* and of the commitment follow from what they are roots of.               *)
PlanTyped ==
  /\ pc \in {"idle", "write", "sizes", "trees", "done"}
  /\ length \in 0 .. maxBytes
  /\ left \in Nat
  /\ shares \in Seq(Shares)
  /\ total \in Nat
  /\ sizes \in Seq(Trees)

IInv == PlanTyped /\ SharesOK /\ TreesOK

-----------------------------------------------------------------------------
(* Powers of two *)

LEMMA PowersFact ==
  /\ \A p \in Powers : p \in Nat /\ 0 < p
  /\ \A p \in Powers : p = 1 \/ p \div 2 \in Powers
BY DEF Powers

(* roundUpPowerOfTwo returns a power, and no smaller one would do.         *)
LEMMA RoundUp ==
  ASSUME NEW n \in Nat, 1 <= n, n <= 2048
  PROVE  /\ roundUpPowerOfTwo(n) \in Powers
         /\ n <= roundUpPowerOfTwo(n)
         /\ roundUpPowerOfTwo(n) = 1 \/ roundUpPowerOfTwo(n) \div 2 < n
<1>1. \E p \in Powers : n <= p /\ (p = 1 \/ p \div 2 < n)
  BY DEF Powers
<1> QED
  BY <1>1 DEF roundUpPowerOfTwo

(* roundDownPowerOfTwo returns a power, and less than half is left.        *)
LEMMA RoundDown ==
  ASSUME NEW n \in Nat, 1 <= n, n <= 2048
  PROVE  /\ roundDownPowerOfTwo(n) \in Powers
         /\ roundDownPowerOfTwo(n) <= n
         /\ n - roundDownPowerOfTwo(n) < roundDownPowerOfTwo(n)
<1> DEFINE up == roundUpPowerOfTwo(n)
<1>1. up \in Powers /\ n <= up /\ (up = 1 \/ up \div 2 < n)
  BY RoundUp
<1>2. roundDownPowerOfTwo(n) = IF up = n THEN up ELSE up \div 2
  BY DEF roundDownPowerOfTwo
<1> HIDE DEF up
<1>3. CASE up = n
  BY <1>1, <1>2, <1>3, PowersFact
<1>4. CASE up # n
  <2>1. up \div 2 \in Powers /\ up = 2 * (up \div 2)
    BY <1>1, <1>4 DEF Powers
  <2> QED
    BY <1>1, <1>2, <1>4, <2>1, PowersFact
<1> QED
  BY <1>3, <1>4

(* The larger of two powers is a multiple of the smaller.                  *)
LEMMA PowersDivide ==
  ASSUME NEW p \in Powers, NEW q \in Powers, q <= p,
         NEW m \in Nat, m % p = 0
  PROVE  m % q = 0 /\ (m + q) % q = 0
<1>1. CASE q = 1
  BY <1>1
<1>2. CASE q = 2
  BY <1>2 DEF Powers
<1>3. CASE q = 4
  BY <1>3 DEF Powers
<1>4. CASE q = 8
  BY <1>4 DEF Powers
<1>5. CASE q = 16
  BY <1>5 DEF Powers
<1>6. CASE q = 32
  BY <1>6 DEF Powers
<1>7. CASE q = 64
  BY <1>7 DEF Powers
<1>8. CASE q = 128
  BY <1>8 DEF Powers
<1>9. CASE q = 256
  BY <1>9 DEF Powers
<1>10. CASE q = 512
  BY <1>10 DEF Powers
<1>11. CASE q = 1024
  BY <1>11 DEF Powers
<1>12. CASE q = 2048
  BY <1>12 DEF Powers
<1> QED
  BY <1>1, <1>2, <1>3, <1>4, <1>5, <1>6, <1>7, <1>8, <1>9, <1>10, <1>11,
     <1>12 DEF Powers

(* So is what follows a multiple of the larger by its size.                *)
LEMMA MultipleOf ==
  ASSUME NEW p \in Powers, NEW q \in Powers, q <= p,
         NEW m \in Nat, m % p = 0
  PROVE  (m + p) % q = 0
<1>1. m + p \in Nat /\ (m + p) % p = 0
  <2>1. p \in Nat /\ p <= p
    BY PowersFact
  <2> QED
    <3>1. (m + p) % p = 0
      BY <2>1, PowersDivide, Zenon
    <3> QED
      BY <2>1, <3>1
<1> QED
  BY <1>1, PowersDivide

LEMMA WidthIsPower ==
  ASSUME NEW n \in Nat, 1 <= n, n <= 1038
  PROVE  subTreeWidth(n) \in Powers
<1> DEFINE s == (n + 64 - 1) \div 64
<1>1. s \in Nat /\ 1 <= s /\ s <= 2048
  OBVIOUS
<1>2. roundUpPowerOfTwo(s) \in Powers
  <2> HIDE DEF s
  <2> QED
    BY <1>1, RoundUp
<1>3. \E p \in Powers : n <= p * p /\ (p = 1 \/ (p \div 2) * (p \div 2) < n)
  BY DEF Powers
<1>4. blobMinSquareSize(n) \in Powers
  BY <1>3 DEF blobMinSquareSize
<1> QED
  BY <1>2, <1>4 DEF subTreeWidth, MinOf, SubtreeRootThreshold

-----------------------------------------------------------------------------
(* The shares *)

LEMMA Sizes ==
  /\ shareSize = 512 /\ namespaceSize = 29 /\ shareInfoBytes = 1
  /\ sequenceLenBytes = 4 /\ maxBytes \in Nat /\ maxBytes <= 500000
  /\ firstSparseShareContentSize = 478
  /\ continuationSparseShareContentSize = 482
BY DEF shareSize, namespaceSize, shareInfoBytes, sequenceLenBytes, maxBytes,
       firstSparseShareContentSize, continuationSparseShareContentSize

LEMMA FilledFact ==
  ASSUME NEW k \in Nat
  PROVE  /\ Filled(k) \in Nat
         /\ Filled(k + 1) = Filled(k) + (IF k = 0 THEN 478 ELSE 482)
BY DEF Filled

(* One turn of the loop writes the share that belongs there.               *)
LEMMA WriteShareStep ==
  ASSUME PlanTyped, SharesOK, WriteShare
  PROVE  PlanTyped' /\ SharesOK'
<1> DEFINE k == Len(shares)
           full == Filled(k + 1)
           header == Header(shares = <<>>)
           room == shareSize - header
           data == MinOf(left, room)
           pad == zeroPadIfNecessary(header + data)
           new == [header |-> header, from |-> length - left,
                   data |-> data, pad |-> pad]
<1>1. /\ pc = "write" /\ k \in Nat /\ length \in Nat
      /\ 0 < length /\ length <= 500000
      /\ Filled(k) \in Nat /\ Filled(k) < length
      /\ left = length - Filled(k)
  BY FilledFact, Sizes DEF PlanTyped, SharesOK, WriteShare
<1>2. full = Filled(k) + (IF k = 0 THEN 478 ELSE 482)
  <2>1. k \in Nat
    BY DEF PlanTyped
  <2> HIDE DEF k
  <2> QED
    BY <2>1, FilledFact
<1>3. header = IF k = 0 THEN 34 ELSE 30
  BY Sizes DEF PlanTyped, Header
<1>4. room = IF k = 0 THEN 478 ELSE 482
  BY <1>3, Sizes
<1>5. data = IF left <= room THEN left ELSE room
  BY DEF MinOf
<1>6. /\ shares' = Append(shares, new)
      /\ left' = left - data
      /\ IF left <= room THEN pc' = "sizes" /\ total' = Len(shares')
                         ELSE pc' = pc /\ total' = total
      /\ length' = length /\ sizes' = sizes
  BY DEF WriteShare, Fits
<1>7. new = [header |-> header, from |-> length - left, data |-> data, pad |-> pad]
  OBVIOUS
<1>a. pad = IF header + data < 512 THEN 512 - (header + data) ELSE 0
  BY Sizes DEF zeroPadIfNecessary
<1> HIDE DEF new, pad, data, room, header, full
<1>b. pad = room - data
  BY <1>1, <1>3, <1>4, <1>5, <1>a
<1>8. new = ShareAt(k + 1)
  <2>1. (k + 1) - 1 = k /\ (k + 1 = 1 <=> k = 0)
    BY <1>1
  <2>2. ShareAt(k + 1) =
          [header |-> IF k = 0 THEN 34 ELSE 30, from |-> Filled(k),
           data |-> IF length <= full THEN length - Filled(k)
                    ELSE IF k = 0 THEN 478 ELSE 482,
           pad |-> IF length <= full THEN full - length ELSE 0]
    BY <2>1 DEF ShareAt, full
  <2>3. length - left = Filled(k)
    BY <1>1
  <2>4. length <= full <=> left <= room
    BY <1>1, <1>2, <1>4
  <2>5. /\ data = IF length <= full THEN length - Filled(k)
                  ELSE IF k = 0 THEN 478 ELSE 482
        /\ room - data = IF length <= full THEN full - length ELSE 0
    BY <1>1, <1>2, <1>4, <1>5, <2>4
  <2>6. /\ header = IF k = 0 THEN 34 ELSE 30
        /\ pad = IF length <= full THEN full - length ELSE 0
    BY <1>3, <1>b, <2>5
  <2>7. data = IF length <= full THEN length - Filled(k)
               ELSE IF k = 0 THEN 478 ELSE 482
    BY <2>5
  <2> QED
    BY <1>7, <2>2, <2>3, <2>6, <2>7, SMT
<1>9. header \in Nat /\ data \in Nat /\ room - data \in Nat /\ length - left \in Nat
  BY <1>1, <1>3, <1>4, <1>5
<1>10. new \in Shares
  BY <1>7, <1>9, <1>b DEF Shares
<1>11. /\ shares' \in Seq(Shares) /\ Len(shares') = k + 1
       /\ \A i \in 1 .. k + 1 :
            shares'[i] = IF i = k + 1 THEN new ELSE shares[i]
  BY <1>6, <1>10 DEF PlanTyped
<1>12. left' \in Nat /\ (~(left <= room) => left' = length - full /\ full < length)
  <2>1. left \in Nat /\ room \in Nat /\ full = Filled(k) + room
    BY <1>1, <1>2, <1>4
  <2>2. CASE left <= room
    <3>1. left' = left - left
      BY <1>5, <1>6, <2>2
    <3> QED
      BY <2>1, <2>2, <3>1
  <2>3. CASE ~(left <= room)
    <3>1. left' = left - room
      BY <1>5, <1>6, <2>3
    <3>2. left = length - Filled(k) /\ length \in Nat /\ Filled(k) \in Nat
      BY <1>1
    <3> QED
      BY <2>1, <2>3, <3>1, <3>2
  <2> QED
    BY <2>2, <2>3
<1>13. PlanTyped'
  BY <1>1, <1>6, <1>11, <1>12, Sizes DEF PlanTyped
<1>14. \A i \in 1 .. Len(shares') : shares'[i] = ShareAt(i)'
  <2>1. \A i \in Nat : ShareAt(i)' = ShareAt(i)
    BY <1>6 DEF ShareAt
  <2> QED
    BY <1>1, <1>8, <1>11, <2>1 DEF SharesOK
<1>15. left <= room => /\ 1 <= k + 1 /\ k + 1 <= 1038 /\ length <= full
                       /\ Filled((k + 1) - 1) < length
  BY <1>1, <1>2, <1>4 DEF Filled
<1>16. full = Filled(Len(shares')) /\ Filled((k + 1) - 1) = Filled(Len(shares') - 1)
  BY <1>11 DEF full
<1> QED
  BY <1>1, <1>6, <1>11, <1>12, <1>13, <1>14, <1>15, <1>16, Sizes
  DEF SharesOK, Split

-----------------------------------------------------------------------------
(* The trees *)

LEMMA WriteShareTrees ==
  ASSUME PlanTyped, SharesOK, SharesOK', TreesOK, WriteShare
  PROVE  TreesOK'
<1>1. pc = "write" /\ sizes = <<>> /\ sizes' = <<>> /\ pc' \in {"write", "sizes"}
  BY DEF WriteShare, TreesOK
<1>2. pc' = "sizes" => total' = Len(shares') /\ Len(shares') \in Nat
  BY <1>1 DEF WriteShare, SharesOK, Split
<1> QED
  BY <1>1, <1>2 DEF TreesOK, Taken

(* The next tree starts where the last one ends, which is a multiple of    *)
(* its size because sizes are powers of two that never grow.               *)
LEMMA PlanTreeStep ==
  ASSUME PlanTyped, SharesOK, TreesOK, PlanTree
  PROVE  PlanTyped' /\ TreesOK'
<1> DEFINE n == Len(shares)
           width == subTreeWidth(n)
           size == TreeSize(total, width)
           new == [at |-> n - total, size |-> size]
           k == Len(sizes)
           last == sizes[k]
<1>1. /\ pc = "sizes" /\ pc' = "sizes" /\ total # 0
      /\ total' = total - size /\ sizes' = Append(sizes, new)
      /\ UNCHANGED <<length, left, shares>>
  BY DEF PlanTree
<1>a. size = IF width <= total THEN width ELSE roundDownPowerOfTwo(total)
  BY DEF TreeSize
<1>b. pc = "sizes"
  BY <1>1
<1>c. new.at = n - total /\ new.size = size /\ new = [at |-> n - total, size |-> size]
  OBVIOUS
<1> HIDE DEF size, new
<1>2. n \in Nat /\ 1 <= n /\ n <= 1038
  BY <1>b DEF SharesOK, Split
<1>3. width \in Powers
  BY <1>2, WidthIsPower
<1>4. k # 0 => /\ Taken = last.at + last.size
               /\ last.at % last.size = 0
               /\ last.size <= width
               /\ last.size = width \/ total < last.size
  BY <1>b DEF PlanTyped, TreesOK, Taken
<1>d. total \in Nat /\ k \in Nat /\ (k # 0 => last \in Trees)
  BY DEF PlanTyped
<1>e. Taken + total = n
  BY <1>b DEF TreesOK
<1> HIDE DEF width, n
<1>5. k = 0 => Taken = 0
  BY DEF Taken, PlanTyped
<1> HIDE DEF k, last
<1>6. Taken \in Nat
  BY <1>4, <1>5, <1>d, PowersFact DEF Trees
<1>7. 1 <= total /\ total <= 2048
  BY <1>1, <1>2, <1>6, <1>d, <1>e
<1>8. /\ size \in Powers /\ size <= total /\ size <= width
      /\ size = width \/ total - size < size
  <2>1. CASE width <= total
    BY <1>a, <1>3, <1>d, <2>1, PowersFact
  <2>2. CASE ~(width <= total)
    <3>1. size \in Powers /\ size <= total /\ total - size < size
      BY <1>a, <1>d, <1>7, <2>2, RoundDown
    <3> QED
      BY <1>d, <1>3, <2>2, <3>1, PowersFact
  <2> QED
    BY <2>1, <2>2
<1>9. new.at = Taken
  BY <1>c, <1>d, <1>e, <1>6
<1>10. k # 0 => size <= last.size
  BY <1>3, <1>4, <1>8, <1>d, PowersFact DEF Trees
<1>11. Taken % size = 0
  <2>1. CASE k = 0
    BY <1>5, <1>8, <2>1, PowersFact
  <2>2. CASE k # 0
    <3>1. last.size \in Powers /\ last.at \in Nat /\ last.at % last.size = 0
      BY <1>4, <1>d, <2>2 DEF Trees
    <3>2. (last.at + last.size) % size = 0
      BY <1>8, <1>10, <2>2, <3>1, MultipleOf
    <3> QED
      BY <1>4, <2>2, <3>2
  <2> QED
    BY <2>1, <2>2
<1>12. new \in Trees /\ new.at = Taken /\ new.size = size
  <2>1. new = [at |-> Taken, size |-> size]
    BY <1>c, <1>9
  <2> QED
    BY <1>6, <1>8, <2>1 DEF Trees
<1>13. /\ sizes' \in Seq(Trees) /\ Len(sizes') = k + 1 /\ sizes' # <<>>
       /\ sizes'[Len(sizes')] = new
       /\ \A i \in 1 .. k + 1 :
            sizes'[i] = IF i = k + 1 THEN new ELSE sizes[i]
  <2>1. sizes \in Seq(Trees) /\ sizes' = Append(sizes, new) /\ k = Len(sizes)
    BY <1>1 DEF PlanTyped, k
  <2>2. sizes' \in Seq(Trees) /\ Len(sizes') = k + 1
    BY <1>12, <2>1
  <2>3. \A i \in 1 .. k + 1 : sizes'[i] = IF i = k + 1 THEN new ELSE sizes[i]
    BY <1>12, <2>1
  <2>4. sizes' # <<>> /\ sizes'[k + 1] = new
    BY <1>d, <2>2, <2>3
  <2> QED
    BY <2>2, <2>3, <2>4
<1>14. total' \in Nat /\ Taken' = Taken + size /\ Taken' + total' = n
  <2>1. Taken' = Taken + size
    BY <1>12, <1>13 DEF Taken
  <2> QED
    BY <1>1, <1>d, <1>e, <1>6, <1>8, <2>1, PowersFact
<1>15. PlanTyped'
  BY <1>1, <1>13, <1>14 DEF PlanTyped
<1>16. n' = n /\ subTreeWidth(n)' = width
  BY <1>1 DEF n, width
<1>17. /\ size <= width
       /\ size = width \/ total' < size
  BY <1>1, <1>8
<1>18. \A i \in 1 .. Len(sizes') :
         /\ sizes'[i].at % sizes'[i].size = 0
         /\ i = 1 => sizes'[i].at = 0
         /\ i > 1 => /\ sizes'[i].size <= sizes'[i - 1].size
                     /\ sizes'[i].at = sizes'[i - 1].at + sizes'[i - 1].size
  <2> TAKE i \in 1 .. Len(sizes')
  <2>1. CASE i = k + 1
    <3>1. sizes'[i].at = Taken /\ sizes'[i].size = size
      BY <1>12, <1>13, <2>1
    <3>2. i > 1 => sizes'[i - 1] = last /\ k # 0
      BY <1>d, <1>13, <2>1 DEF last
    <3>3. i = 1 => k = 0
      BY <1>d, <2>1
    <3> QED
      BY <1>4, <1>5, <1>10, <1>11, <3>1, <3>2, <3>3
  <2>2. CASE i # k + 1
    <3>1. i \in 1 .. k /\ sizes'[i] = sizes[i]
      BY <1>d, <1>13, <2>2
    <3>2. i > 1 => sizes'[i - 1] = sizes[i - 1]
      BY <1>d, <1>13, <3>1
    <3> QED
      BY <3>1, <3>2 DEF TreesOK, k
  <2> QED
    BY <2>1, <2>2
<1> QED
  BY <1>1, <1>12, <1>13, <1>14, <1>15, <1>16, <1>17, <1>18 DEF TreesOK, n, width

-----------------------------------------------------------------------------
(* The trees over the shares, and the tree over those. *)

(* More leaves than a tree has; the largest of Powers.                     *)
MaxLeaves == 2048

(* A tree of n > 1 leaves is split into two that are not empty; a perfect  *)
(* one into halves.                                                        *)
LEMMA Split2 ==
  ASSUME NEW n \in Nat, 2 <= n, n <= MaxLeaves
  PROVE  /\ SplitPoint(n) \in 1 .. n - 1 /\ n - SplitPoint(n) \in 1 .. n - 1
         /\ n \in Powers => /\ SplitPoint(n) \in Powers
                            /\ n - SplitPoint(n) = SplitPoint(n)
<1> DEFINE up == roundUpPowerOfTwo(n)
<1>1. up \in Powers /\ n <= up /\ (up = 1 \/ up \div 2 < n)
  BY RoundUp DEF MaxLeaves
<1>2. SplitPoint(n) = up \div 2
  BY DEF SplitPoint
<1> HIDE DEF up
<1>3. up # 1
  BY <1>1
<1>4. up \div 2 \in 1 .. n - 1
  BY <1>1, <1>3 DEF Powers
<1>5. n \in Powers => n = up
  BY <1>1 DEF Powers
<1>6. up \div 2 \in Powers /\ up - (up \div 2) = up \div 2
  BY <1>1, <1>3 DEF Powers
<1> QED
  BY <1>2, <1>4, <1>5, <1>6

(* The recursive definitions do define what they say: for trees of up to m *)
(* leaves a function with the equation exists, by induction on m.          *)
RootRow(f, first, last, n) ==
  [i \in first .. last - n |->
     IF n = 1 THEN push(i + 1)
     ELSE LET k == SplitPoint(n) IN HashNode(f[k][i], f[n - k][i + k])]

ListRow(f, items, all, n) ==
  [i \in 0 .. all - n |->
     IF n = 1 THEN Deeper(items[i + 1].hash)
     ELSE LET k == SplitPoint(n) IN Deeper(f[k][i]) \o Deeper(f[n - k][i + k])]

LEMMA RootDef ==
  ASSUME NEW first \in Nat, NEW last \in Nat,
         NEW N \in Nat, N = last - first, 1 <= N, N <= MaxLeaves
  PROVE  \E f : /\ f = [n \in 1 .. N |-> RootRow(f, first, last, n)]
                /\ Root(first, last) = f[N][first]
<1> DEFINE Def(f, m) == [n \in 1 .. m |-> RootRow(f, first, last, n)]
           Good == {m \in Nat : m <= N => \E f : f = Def(f, m)}
<1>1. 0 \in Good
  <2>1. <<>> = Def(<<>>, 0)
    OBVIOUS
  <2> HIDE DEF Def
  <2> QED
    BY <2>1
<1>2. ASSUME NEW m \in Good
      PROVE  m + 1 \in Good
  <2> SUFFICES ASSUME m + 1 <= N
               PROVE  \E f : f = Def(f, m + 1)
    OBVIOUS
  <2>1. m \in Nat /\ N \in Nat /\ MaxLeaves \in Nat /\ m <= N /\ N <= MaxLeaves
    BY DEF MaxLeaves
  <2>2. PICK f : f = Def(f, m)
    BY <2>1
  <2> DEFINE g == [n \in 1 .. m + 1 |->
                     IF n <= m THEN f[n] ELSE RootRow(f, first, last, n)]
  <2>3. \A n \in 1 .. m : g[n] = f[n]
    BY <2>1
  <2>4. \A n \in 1 .. m : f[n] = RootRow(f, first, last, n)
    BY <2>2
  <2>5. \A n \in 1 .. m + 1 : n <= m \/ g[n] = RootRow(f, first, last, n)
    OBVIOUS
  <2>6. g = [n \in 1 .. m + 1 |-> g[n]]
    OBVIOUS
  <2> HIDE DEF g, Def, Good
  <2>7. ASSUME NEW n \in 1 .. m + 1
        PROVE  RootRow(g, first, last, n) = RootRow(f, first, last, n)
    <3>1. CASE n = 1
      BY <3>1 DEF RootRow
    <3>2. CASE n # 1
      <4>1. n \in Nat /\ 2 <= n /\ n <= MaxLeaves
        BY <2>1, <3>2
      <4>2. SplitPoint(n) \in 1 .. n - 1 /\ n - SplitPoint(n) \in 1 .. n - 1
        BY <4>1, Split2
      <4>3. SplitPoint(n) \in 1 .. m /\ n - SplitPoint(n) \in 1 .. m
        BY <2>1, <4>1, <4>2
      <4>4. /\ g[SplitPoint(n)] = f[SplitPoint(n)]
            /\ g[n - SplitPoint(n)] = f[n - SplitPoint(n)]
        BY <2>3, <4>3
      <4> QED
        BY <4>4 DEF RootRow
    <3> QED
      BY <3>1, <3>2
  <2>8. \A n \in 1 .. m + 1 : g[n] = RootRow(g, first, last, n)
    BY <2>1, <2>3, <2>4, <2>5, <2>7
  <2>9. g = Def(g, m + 1)
    BY <2>6, <2>8 DEF Def
  <2> QED
    BY <2>9
<1>3. Good \in SUBSET Nat
  OBVIOUS
<1>4. N \in Nat
  OBVIOUS
<1>5. N \in Good => \E f : f = Def(f, N)
  BY <1>4
<1>6. Good = Nat
  <2> HIDE DEF Good
  <2> QED
    BY <1>1, <1>2, <1>3, NatSetInduction
<1>7. \E f : f = Def(f, N)
  <2> HIDE DEF Good, Def
  <2> QED
    BY <1>4, <1>5, <1>6
<1> QED
  <2> DEFINE c == CHOOSE f : f = [n \in 1 .. last - first |-> RootRow(f, first, last, n)]
  <2>1. \E f : f = [n \in 1 .. last - first |-> RootRow(f, first, last, n)]
    BY <1>7
  <2>2. c = [n \in 1 .. last - first |-> RootRow(c, first, last, n)]
    BY <2>1, Zenon
  <2>3. Root(first, last) = c[last - first][first]
    BY DEF Root, RootRow
  <2> HIDE DEF c, Def, Good
  <2> QED
    BY <2>2, <2>3

LEMMA ListExists ==
  ASSUME NEW items, NEW N \in Nat, 1 <= N, N <= MaxLeaves
  PROVE  \E f : f = [n \in 1 .. N |-> ListRow(f, items, N, n)]
<1> DEFINE Def(f, m) == [n \in 1 .. m |-> ListRow(f, items, N, n)]
           Good == {m \in Nat : m <= N => \E f : f = Def(f, m)}
<1>1. 0 \in Good
  <2>1. <<>> = Def(<<>>, 0)
    OBVIOUS
  <2> HIDE DEF Def
  <2> QED
    BY <2>1
<1>2. ASSUME NEW m \in Good
      PROVE  m + 1 \in Good
  <2> SUFFICES ASSUME m + 1 <= N
               PROVE  \E f : f = Def(f, m + 1)
    OBVIOUS
  <2>1. m \in Nat /\ N \in Nat /\ MaxLeaves \in Nat /\ m <= N /\ N <= MaxLeaves
    BY DEF MaxLeaves
  <2>2. PICK f : f = Def(f, m)
    BY <2>1
  <2> DEFINE g == [n \in 1 .. m + 1 |->
                     IF n <= m THEN f[n] ELSE ListRow(f, items, N, n)]
  <2>3. \A n \in 1 .. m : g[n] = f[n]
    BY <2>1
  <2>4. \A n \in 1 .. m : f[n] = ListRow(f, items, N, n)
    <3>1. f = [n \in 1 .. m |-> ListRow(f, items, N, n)]
      BY <2>2
    <3> HIDE DEF Def, Good, g
    <3> QED
      BY <2>1, <3>1
  <2>5. \A n \in 1 .. m + 1 : n <= m \/ g[n] = ListRow(f, items, N, n)
    OBVIOUS
  <2>6. g = [n \in 1 .. m + 1 |-> g[n]]
    OBVIOUS
  <2> HIDE DEF g, Def, Good
  <2>7. ASSUME NEW n \in 1 .. m + 1
        PROVE  ListRow(g, items, N, n) = ListRow(f, items, N, n)
    <3>1. CASE n = 1
      BY <3>1 DEF ListRow
    <3>2. CASE n # 1
      <4>1. n \in Nat /\ 2 <= n /\ n <= MaxLeaves
        BY <2>1, <3>2
      <4>2. SplitPoint(n) \in 1 .. n - 1 /\ n - SplitPoint(n) \in 1 .. n - 1
        BY <4>1, Split2
      <4>3. SplitPoint(n) \in 1 .. m /\ n - SplitPoint(n) \in 1 .. m
        BY <2>1, <4>1, <4>2
      <4>4. /\ g[SplitPoint(n)] = f[SplitPoint(n)]
            /\ g[n - SplitPoint(n)] = f[n - SplitPoint(n)]
        BY <2>3, <4>3
      <4> QED
        BY <4>4 DEF ListRow
    <3> QED
      BY <3>1, <3>2
  <2>8. \A n \in 1 .. m + 1 : g[n] = ListRow(g, items, N, n)
    BY <2>1, <2>3, <2>4, <2>5, <2>7
  <2>9. g = Def(g, m + 1)
    BY <2>6, <2>8 DEF Def
  <2> QED
    BY <2>9
<1>3. Good \in SUBSET Nat
  OBVIOUS
<1>4. N \in Nat
  OBVIOUS
<1>5. N \in Good => \E f : f = Def(f, N)
  BY <1>4
<1>6. Good = Nat
  <2> HIDE DEF Good
  <2> QED
    BY <1>1, <1>2, <1>3, NatSetInduction
<1>7. \E f : f = Def(f, N)
  <2> HIDE DEF Good, Def
  <2> QED
    BY <1>4, <1>5, <1>6
<1> QED
  BY <1>7

LEMMA ListDef ==
  ASSUME NEW items, NEW N \in Nat, 1 <= N, N <= MaxLeaves
  PROVE  N = Len(items) =>
           \E f : /\ f = [n \in 1 .. N |-> ListRow(f, items, N, n)]
                  /\ hashFromByteSlices(items) = f[N][0]
<1>1. \E f : f = [n \in 1 .. N |-> ListRow(f, items, N, n)]
  BY ListExists
<1> SUFFICES ASSUME N = Len(items)
             PROVE  \E f : /\ f = [n \in 1 .. N |-> ListRow(f, items, N, n)]
                           /\ hashFromByteSlices(items) = f[N][0]
  BY Zenon
<1>2. \E f : f = [n \in 1 .. Len(items) |-> ListRow(f, items, Len(items), n)]
  BY <1>1
<1> DEFINE c == CHOOSE f : f = [n \in 1 .. Len(items) |->
                                  ListRow(f, items, Len(items), n)]
<1>3. c = [n \in 1 .. Len(items) |-> ListRow(c, items, Len(items), n)]
  BY <1>2, Zenon
<1>4. hashFromByteSlices(items) = c[Len(items)][0]
  BY DEF hashFromByteSlices, ListRow
<1> HIDE DEF c
<1> QED
  BY <1>3, <1>4

(* A digest one layer further down.                                        *)
LEMMA Deepened ==
  ASSUME NEW d \in Seq(Nat \X Nat)
  PROVE  /\ Deeper(d) \in Seq(Nat \X Nat) /\ Len(Deeper(d)) = Len(d)
         /\ Len(d) \in Nat
         /\ \A j \in 1 .. Len(d) : /\ Deeper(d)[j][1] = d[j][1] + 1
                                   /\ Deeper(d)[j][2] = d[j][2]
                                   /\ d[j][1] \in Nat /\ d[j][2] \in Nat
<1>1. Len(d) \in Nat /\ \A j \in 1 .. Len(d) : d[j] \in Nat \X Nat
  BY LenProperties, ElementOfSeq
<1>2. \A j \in 1 .. Len(d) : <<d[j][1] + 1, d[j][2]>> \in Nat \X Nat
  BY <1>1
<1>3. Deeper(d) = [i \in 1 .. Len(d) |-> <<d[i][1] + 1, d[i][2]>>]
  BY DEF Deeper
<1> DEFINE T == Nat \X Nat
           n == Len(d)
<1>4. Deeper(d) \in [1 .. n -> T]
  BY <1>2, <1>3
<1>5. Deeper(d) \in Seq(T) /\ Len(Deeper(d)) = n
  <2>1. n \in Nat
    BY <1>1
  <2> HIDE DEF T, n
  <2>2. Deeper(d) \in Seq(T)
    BY <1>4, <2>1, SeqDef
  <2> QED
    BY <1>4, <2>1, <2>2, LenProperties
<1>6. \A j \in 1 .. Len(d) : Deeper(d)[j] = <<d[j][1] + 1, d[j][2]>>
  BY <1>3
<1>7. \A j \in 1 .. Len(d) : d[j][1] \in Nat /\ d[j][2] \in Nat
  BY <1>1
<1>8. \A j \in 1 .. Len(d) : /\ Deeper(d)[j][1] = d[j][1] + 1
                            /\ Deeper(d)[j][2] = d[j][2]
  BY <1>6
<1>9. Len(d) \in Nat
  BY <1>1
<1> QED
  BY <1>5, <1>7, <1>8, <1>9, Zenon

(* Two digests side by side, one layer further down.                       *)
Joined(a, b, c) ==
  /\ c \in Seq(Nat \X Nat) /\ Len(c) = Len(a) + Len(b)
  /\ Len(a) \in Nat /\ Len(b) \in Nat
  /\ \A j \in 1 .. Len(a) : c[j][1] = a[j][1] + 1 /\ c[j][2] = a[j][2]
  /\ \A j \in Len(a) + 1 .. Len(a) + Len(b) :
       /\ j - Len(a) \in 1 .. Len(b)
       /\ c[j][1] = b[j - Len(a)][1] + 1 /\ c[j][2] = b[j - Len(a)][2]

LEMMA Join ==
  ASSUME NEW a \in Seq(Nat \X Nat), NEW b \in Seq(Nat \X Nat)
  PROVE  Joined(a, b, Deeper(a) \o Deeper(b))
<1> DEFINE x == Deeper(a)
           y == Deeper(b)
           T == Nat \X Nat
           c == x \o y
<1>1. /\ x \in Seq(T) /\ y \in Seq(T) /\ Len(x) = Len(a) /\ Len(y) = Len(b)
      /\ Len(a) \in Nat /\ Len(b) \in Nat
      /\ \A j \in 1 .. Len(a) : x[j][1] = a[j][1] + 1 /\ x[j][2] = a[j][2]
      /\ \A j \in 1 .. Len(b) : y[j][1] = b[j][1] + 1 /\ y[j][2] = b[j][2]
  BY Deepened
<1>2. c = x \o y
  OBVIOUS
<1> HIDE DEF c, x, y, T
<1>3. /\ c \in Seq(T) /\ Len(c) = Len(x) + Len(y)
      /\ \A i \in 1 .. Len(x) + Len(y) :
           c[i] = IF i <= Len(x) THEN x[i] ELSE y[i - Len(x)]
  <2>1. x \in Seq(T) /\ y \in Seq(T)
    BY <1>1
  <2>2. /\ x \o y \in Seq(T) /\ Len(x \o y) = Len(x) + Len(y)
        /\ \A i \in 1 .. Len(x) + Len(y) :
             (x \o y)[i] = IF i <= Len(x) THEN x[i] ELSE y[i - Len(x)]
    BY <2>1, ConcatProperties, Zenon
  <2> QED
    BY <1>2, <2>2, Zenon
<1>4. ASSUME NEW j \in 1 .. Len(a)
      PROVE  c[j] = x[j]
  BY <1>1, <1>3
<1>5. ASSUME NEW j \in Len(a) + 1 .. Len(a) + Len(b)
      PROVE  c[j] = y[j - Len(a)] /\ j - Len(a) \in 1 .. Len(b)
  BY <1>1, <1>3
<1>6. c \in Seq(Nat \X Nat)
  BY <1>3 DEF T
<1>7. Joined(a, b, c)
  <2>1. Len(c) = Len(a) + Len(b) /\ Len(a) \in Nat /\ Len(b) \in Nat
    BY <1>1, <1>3
  <2>2. ASSUME NEW j \in 1 .. Len(a)
        PROVE  c[j][1] = a[j][1] + 1 /\ c[j][2] = a[j][2]
    <3>1. c[j] = x[j]
      BY <1>4
    <3>2. x[j][1] = a[j][1] + 1 /\ x[j][2] = a[j][2]
      BY <1>1
    <3> QED
      BY <3>1, <3>2
  <2>3. ASSUME NEW j \in Len(a) + 1 .. Len(a) + Len(b)
        PROVE  /\ j - Len(a) \in 1 .. Len(b)
               /\ c[j][1] = b[j - Len(a)][1] + 1 /\ c[j][2] = b[j - Len(a)][2]
    <3>1. c[j] = y[j - Len(a)] /\ j - Len(a) \in 1 .. Len(b)
      BY <1>5
    <3>2. /\ y[j - Len(a)][1] = b[j - Len(a)][1] + 1
          /\ y[j - Len(a)][2] = b[j - Len(a)][2]
      BY <1>1, <3>1
    <3> QED
      BY <3>1, <3>2
  <2> QED
    BY <1>6, <2>1, <2>2, <2>3, Zenon DEF Joined
<1> QED
  BY <1>7 DEF c, x, y

(* The height of a perfect tree.                                           *)
Height(p) ==
  IF p = 1 THEN 0
  ELSE IF p = 2 THEN 1
  ELSE IF p = 4 THEN 2
  ELSE IF p = 8 THEN 3
  ELSE IF p = 16 THEN 4
  ELSE IF p = 32 THEN 5
  ELSE IF p = 64 THEN 6
  ELSE IF p = 128 THEN 7
  ELSE IF p = 256 THEN 8
  ELSE IF p = 512 THEN 9
  ELSE IF p = 1024 THEN 10 ELSE 11

LEMMA HeightIsLog ==
  ASSUME NEW p \in Powers
  PROVE  2 ^ Height(p) = p
<1>1. CASE p = 1
  <2>1. Height(p) = 0
    BY <1>1 DEF Height
  <2>2. 2 ^ Height(p) = 2 ^ 0
    BY <2>1, Zenon
  <2> QED
    BY <1>1, <2>2
<1>2. CASE p = 2
  <2>1. Height(p) = 1
    BY <1>2 DEF Height
  <2>2. 2 ^ Height(p) = 2 ^ 1
    BY <2>1, Zenon
  <2> QED
    BY <1>2, <2>2
<1>3. CASE p = 4
  <2>1. Height(p) = 2
    BY <1>3 DEF Height
  <2>2. 2 ^ Height(p) = 2 ^ 2
    BY <2>1, Zenon
  <2> QED
    BY <1>3, <2>2
<1>4. CASE p = 8
  <2>1. Height(p) = 3
    BY <1>4 DEF Height
  <2>2. 2 ^ Height(p) = 2 ^ 3
    BY <2>1, Zenon
  <2> QED
    BY <1>4, <2>2
<1>5. CASE p = 16
  <2>1. Height(p) = 4
    BY <1>5 DEF Height
  <2>2. 2 ^ Height(p) = 2 ^ 4
    BY <2>1, Zenon
  <2> QED
    BY <1>5, <2>2
<1>6. CASE p = 32
  <2>1. Height(p) = 5
    BY <1>6 DEF Height
  <2>2. 2 ^ Height(p) = 2 ^ 5
    BY <2>1, Zenon
  <2> QED
    BY <1>6, <2>2
<1>7. CASE p = 64
  <2>1. Height(p) = 6
    BY <1>7 DEF Height
  <2>2. 2 ^ Height(p) = 2 ^ 6
    BY <2>1, Zenon
  <2> QED
    BY <1>7, <2>2
<1>8. CASE p = 128
  <2>1. Height(p) = 7
    BY <1>8 DEF Height
  <2>2. 2 ^ Height(p) = 2 ^ 7
    BY <2>1, Zenon
  <2> QED
    BY <1>8, <2>2
<1>9. CASE p = 256
  <2>1. Height(p) = 8
    BY <1>9 DEF Height
  <2>2. 2 ^ Height(p) = 2 ^ 8
    BY <2>1, Zenon
  <2> QED
    BY <1>9, <2>2
<1>10. CASE p = 512
  <2>1. Height(p) = 9
    BY <1>10 DEF Height
  <2>2. 2 ^ Height(p) = 2 ^ 9
    BY <2>1, Zenon
  <2> QED
    BY <1>10, <2>2
<1>11. CASE p = 1024
  <2>1. Height(p) = 10
    BY <1>11 DEF Height
  <2>2. 2 ^ Height(p) = 2 ^ 10
    BY <2>1, Zenon
  <2> QED
    BY <1>11, <2>2
<1>12. CASE p = 2048
  <2>1. Height(p) = 11
    BY <1>12 DEF Height
  <2>2. 2 ^ Height(p) = 2 ^ 11
    BY <2>1, Zenon
  <2> QED
    BY <1>12, <2>2
<1> QED
  BY <1>1, <1>2, <1>3, <1>4, <1>5, <1>6, <1>7, <1>8, <1>9, <1>10, <1>11, <1>12 DEF Powers

LEMMA HeightOfHalves ==
  ASSUME NEW p \in Powers
  PROVE  /\ Height(p) \in Nat
         /\ p = 1 => Height(p) = 0
         /\ p # 1 => Height(p) = Height(p \div 2) + 1
BY DEF Powers, Height

(* What the root of a tree over the n shares after the first i is.         *)
Subtree(r, i, n) ==
  /\ r \in Roots /\ r.min = Namespace /\ r.max = Namespace
  /\ r.hash \in Seq(Nat \X Nat) /\ Len(r.hash) = n
  /\ \A j \in 1 .. n : r.hash[j][2] = i + j
  /\ n \in Powers => \A j \in 1 .. n : r.hash[j][1] = Height(n)

LEMMA NamespaceFact == Namespace \in 0 .. MaxNamespace
BY BlobAssumption DEF MaxNamespace

LEMMA OneLeaf ==
  ASSUME NEW i \in Nat
  PROVE  Subtree(push(i + 1), i, 1)
<1> DEFINE h == <<<<0, i + 1>>>>
<1>1. push(i + 1) = [min |-> Namespace, max |-> Namespace, hash |-> h]
  BY DEF push, HashLeaf
<1>2. h \in Seq(Nat \X Nat) /\ Len(h) = 1 /\ h[1] = <<0, i + 1>>
  OBVIOUS
<1>3. h[1][1] = 0 /\ h[1][2] = i + 1
  BY <1>2
<1>4. Height(1) = 0
  BY DEF Height
<1> DEFINE r == push(i + 1)
<1>5. r.min = Namespace /\ r.max = Namespace /\ r.hash = h
  BY <1>1
<1>6. \A j \in 1 .. 1 : j = 1
  OBVIOUS
<1>7. r \in Roots
  <2>1. h \in Digests
    BY <1>2 DEF Digests
  <2> HIDE DEF h
  <2> QED
    BY <1>1, <2>1, NamespaceFact DEF Roots
<1> HIDE DEF h, r
<1>8. Subtree(r, i, 1)
  BY <1>2, <1>3, <1>4, <1>5, <1>6, <1>7 DEF Subtree
<1> QED
  BY <1>8 DEF r

LEMMA TwoSubtrees ==
  ASSUME NEW i \in Nat, NEW k \in Nat \ {0}, NEW m \in Nat \ {0}, NEW l, NEW r,
         Subtree(l, i, k), Subtree(r, i + k, m),
         k + m \in Powers => k \in Powers /\ m = k
  PROVE  Subtree(HashNode(l, r), i, k + m)
<1> DEFINE c == Deeper(l.hash) \o Deeper(r.hash)
           t == HashNode(l, r)
<1>1. Namespace \in Nat /\ Namespace # MaxNamespace
  BY BlobAssumption DEF MaxNamespace
<1>2. /\ l.min = Namespace /\ l.max = Namespace /\ r.min = Namespace
      /\ r.max = Namespace
      /\ l.hash \in Seq(Nat \X Nat) /\ Len(l.hash) = k
      /\ r.hash \in Seq(Nat \X Nat) /\ Len(r.hash) = m
  BY DEF Subtree
<1>3. t = [min |-> l.min, max |-> r.max, hash |-> c]
  BY <1>1, <1>2 DEF HashNode, siblingsInOrder, rangeMax
<1>4. t.min = Namespace /\ t.max = Namespace /\ t.hash = c
  <2>1. t.min = l.min /\ t.max = r.max /\ t.hash = c
    <3> HIDE DEF c, t
    <3> QED
      BY <1>3
  <2> QED
    BY <1>2, <2>1
<1> DEFINE a == l.hash
           b == r.hash
<1>5. a \in Seq(Nat \X Nat) /\ b \in Seq(Nat \X Nat) /\ Len(a) = k /\ Len(b) = m
      /\ c = Deeper(a) \o Deeper(b)
  BY <1>2
<1>6. /\ \A j \in 1 .. k : a[j][2] = i + j
      /\ \A j \in 1 .. m : b[j][2] = i + k + j
      /\ k \in Powers => \A j \in 1 .. k : a[j][1] = Height(k)
      /\ m \in Powers => \A j \in 1 .. m : b[j][1] = Height(m)
  BY DEF Subtree
<1> HIDE DEF a, b, c, t
<1>7. /\ c \in Seq(Nat \X Nat) /\ Len(c) = k + m
      /\ \A j \in 1 .. k : c[j][1] = a[j][1] + 1 /\ c[j][2] = a[j][2]
      /\ \A j \in k + 1 .. k + m :
           /\ j - k \in 1 .. m
           /\ c[j][1] = b[j - k][1] + 1 /\ c[j][2] = b[j - k][2]
  <2>1. Joined(a, b, c)
    BY <1>5, Join
  <2>2. Len(a) = k /\ Len(b) = m
    BY <1>5
  <2> QED
    BY <2>1, <2>2, Zenon DEF Joined
<1>8. \A j \in 1 .. k + m : j \in 1 .. k \/ j \in k + 1 .. k + m
  OBVIOUS
<1>9. ASSUME NEW j \in 1 .. k + m
      PROVE  c[j][2] = i + j
  <2>1. CASE j \in 1 .. k
    BY <1>6, <1>7, <2>1
  <2>2. CASE j \in k + 1 .. k + m
    <3>1. j - k \in 1 .. m /\ c[j][2] = b[j - k][2]
      BY <1>7, <2>2
    <3>2. b[j - k][2] = i + k + (j - k)
      BY <1>6, <3>1
    <3> QED
      BY <2>2, <3>1, <3>2
  <2> QED
    BY <1>8, <2>1, <2>2
<1>10. ASSUME k + m \in Powers, NEW j \in 1 .. k + m
       PROVE  c[j][1] = Height(k + m)
  <2>1. k \in Powers /\ m = k
    BY <1>10
  <2>2. Height(k + m) = Height(k) + 1
    <3>1. k + m # 1 /\ (k + m) \div 2 = k
      BY <2>1
    <3> QED
      BY <1>10, <3>1, HeightOfHalves
  <2>3. CASE j \in 1 .. k
    BY <1>6, <1>7, <2>1, <2>2, <2>3
  <2>4. CASE j \in k + 1 .. k + m
    <3>1. j - k \in 1 .. m /\ c[j][1] = b[j - k][1] + 1
      BY <1>7, <2>4
    <3>2. b[j - k][1] = Height(k)
      BY <1>6, <2>1, <3>1
    <3> QED
      BY <2>2, <3>1, <3>2
  <2> QED
    BY <1>8, <2>3, <2>4
<1>11. t \in Roots
  BY <1>2, <1>3, <1>7, NamespaceFact DEF Roots, Digests
<1>12. Subtree(t, i, k + m)
  BY <1>4, <1>7, <1>9, <1>10, <1>11 DEF Subtree
<1> QED
  BY <1>12 DEF t

(* The tree over any row of shares lists them in order, and is perfect     *)
(* when their number is a power of two: by induction on the number.        *)
LEMMA RootBinds ==
  ASSUME NEW first \in Nat, NEW last \in Nat,
         NEW N \in Nat, N = last - first, 1 <= N, N <= MaxLeaves
  PROVE  Subtree(Root(first, last), first, N)
<1>1. PICK f : /\ f = [n \in 1 .. N |-> RootRow(f, first, last, n)]
               /\ Root(first, last) = f[N][first]
  BY RootDef
<1>2. \A n \in 1 .. N : f[n] = RootRow(f, first, last, n)
  BY <1>1
<1>3. ASSUME NEW n \in 1 .. N, NEW i \in first .. last - n
      PROVE  f[n][i] = IF n = 1 THEN push(i + 1)
                       ELSE HashNode(f[SplitPoint(n)][i],
                                     f[n - SplitPoint(n)][i + SplitPoint(n)])
  <2>1. RootRow(f, first, last, n)[i] =
          IF n = 1 THEN push(i + 1)
          ELSE HashNode(f[SplitPoint(n)][i],
                        f[n - SplitPoint(n)][i + SplitPoint(n)])
    BY DEF RootRow
  <2>2. f[n] = RootRow(f, first, last, n)
    BY <1>2
  <2> QED
    BY <2>1, <2>2, Zenon
<1> DEFINE Good == {m \in Nat : \A n \in 1 .. N : n <= m =>
                      \A i \in first .. last - n : Subtree(f[n][i], i, n)}
<1>4. 0 \in Good
  OBVIOUS
<1>5. ASSUME NEW m \in Good
      PROVE  m + 1 \in Good
  <2>1. \A n \in 1 .. N : n <= m =>
          \A i \in first .. last - n : Subtree(f[n][i], i, n)
    OBVIOUS
  <2>2. m \in Nat
    OBVIOUS
  <2>3. ASSUME NEW n \in 1 .. N, n <= m + 1, NEW i \in first .. last - n
        PROVE  Subtree(f[n][i], i, n)
    <3>1. n \in Nat /\ i \in Nat
      OBVIOUS
    <3>2. CASE n = 1
      <4>1. f[n][i] = push(i + 1)
        BY <1>3, <3>2
      <4> QED
        BY <3>1, <3>2, <4>1, OneLeaf
    <3>3. CASE n # 1
      <4> DEFINE k == SplitPoint(n)
                 l == n - k
      <4>1. 2 <= n /\ n <= MaxLeaves /\ n \in Nat
        BY <3>1, <3>3 DEF MaxLeaves
      <4>2. /\ k \in 1 .. n - 1 /\ l \in 1 .. n - 1
            /\ n \in Powers => k \in Powers /\ l = k
        BY <4>1, Split2
      <4>3. f[n][i] = HashNode(f[k][i], f[l][i + k])
        BY <1>3, <3>3
      <4>4. n = k + l
        BY <4>1, <4>2
      <4> HIDE DEF k, l
      <4>5. /\ k \in 1 .. N /\ l \in 1 .. N /\ k <= m /\ l <= m
            /\ i \in first .. last - k /\ i + k \in first .. last - l
            /\ k \in Nat \ {0} /\ l \in Nat \ {0}
        BY <2>2, <2>3, <3>1, <4>2, <4>4
      <4>6. Subtree(f[k][i], i, k) /\ Subtree(f[l][i + k], i + k, l)
        BY <2>1, <4>5
      <4>7. Subtree(HashNode(f[k][i], f[l][i + k]), i, k + l)
        BY <3>1, <4>2, <4>4, <4>5, <4>6, TwoSubtrees
      <4> QED
        BY <4>3, <4>4, <4>7
    <3> QED
      BY <3>2, <3>3
  <2> QED
    BY <2>2, <2>3
<1>6. Good = Nat
  <2>1. Good \in SUBSET Nat
    OBVIOUS
  <2> HIDE DEF Good
  <2> QED
    BY <1>4, <1>5, <2>1, NatSetInduction
<1>7. \A i \in first .. last - N : Subtree(f[N][i], i, N)
  BY <1>6
<1>8. first \in first .. last - N
  OBVIOUS
<1> QED
  BY <1>1, <1>7, <1>8, Zenon

(* The leaves under n of the roots after the first i.                      *)
InOrder(h, from, to) ==
  /\ h \in Seq(Nat \X Nat) /\ Len(h) = to - from
  /\ \A j \in 1 .. to - from : h[j][2] = from + j

LEMMA TwoInOrder ==
  ASSUME NEW from \in Nat, NEW mid \in Nat, NEW to \in Nat, NEW a, NEW b,
         InOrder(a, from, mid), InOrder(b, mid, to)
  PROVE  InOrder(Deeper(a) \o Deeper(b), from, to)
<1> DEFINE c == Deeper(a) \o Deeper(b)
<1>1. Joined(a, b, c)
  BY Join DEF InOrder
<1> HIDE DEF c
<1> DEFINE k == Len(a)
           m == Len(b)
<1>2. /\ k = mid - from /\ m = to - mid /\ k \in Nat /\ m \in Nat
      /\ c \in Seq(Nat \X Nat) /\ Len(c) = k + m
      /\ \A j \in 1 .. k : c[j][2] = a[j][2] /\ a[j][2] = from + j
      /\ \A j \in k + 1 .. k + m : j - k \in 1 .. m /\ c[j][2] = b[j - k][2]
      /\ \A j \in 1 .. m : b[j][2] = mid + j
  BY <1>1 DEF Joined, InOrder
<1> HIDE DEF k, m
<1>3. k + m = to - from
  BY <1>2
<1>4. ASSUME NEW j \in 1 .. to - from
      PROVE  c[j][2] = from + j
  <2>1. j \in 1 .. k \/ j \in k + 1 .. k + m
    BY <1>2, <1>3
  <2>2. CASE j \in 1 .. k
    BY <1>2, <2>2
  <2>3. CASE j \in k + 1 .. k + m
    <3>1. j - k \in 1 .. m /\ c[j][2] = b[j - k][2]
      BY <1>2, <2>3
    <3>2. b[j - k][2] = mid + (j - k)
      BY <1>2, <3>1
    <3> QED
      BY <1>2, <2>3, <3>1, <3>2
  <2> QED
    BY <2>1, <2>2, <2>3
<1>5. InOrder(c, from, to)
  BY <1>2, <1>3, <1>4 DEF InOrder
<1> QED
  BY <1>5 DEF c

LEMMA OneInOrder ==
  ASSUME NEW from \in Nat, NEW to \in Nat, NEW h, InOrder(h, from, to)
  PROVE  InOrder(Deeper(h), from, to)
<1>1. h \in Seq(Nat \X Nat) /\ Len(h) = to - from
  BY DEF InOrder
<1>2. /\ Deeper(h) \in Seq(Nat \X Nat) /\ Len(Deeper(h)) = Len(h)
      /\ \A j \in 1 .. Len(h) : Deeper(h)[j][2] = h[j][2]
  BY <1>1, Deepened
<1> QED
  BY <1>1, <1>2 DEF InOrder

(* The tree over the roots lists the leaves of them all, in order.         *)
LEMMA ListBinds ==
  ASSUME NEW items, NEW N \in Nat, N = Len(items), 1 <= N, N <= MaxLeaves,
         NEW end \in [0 .. N -> Nat],
         \A i \in 1 .. N : InOrder(items[i].hash, end[i - 1], end[i])
  PROVE  InOrder(hashFromByteSlices(items), end[0], end[N])
<1>1. PICK f : /\ f = [n \in 1 .. N |-> ListRow(f, items, N, n)]
               /\ hashFromByteSlices(items) = f[N][0]
  BY ListDef
<1>2. \A n \in 1 .. N : f[n] = ListRow(f, items, N, n)
  BY <1>1
<1>3. ASSUME NEW n \in 1 .. N, NEW i \in 0 .. N - n
      PROVE  f[n][i] = IF n = 1 THEN Deeper(items[i + 1].hash)
                       ELSE Deeper(f[SplitPoint(n)][i])
                              \o Deeper(f[n - SplitPoint(n)][i + SplitPoint(n)])
  <2>1. ListRow(f, items, N, n)[i] =
          IF n = 1 THEN Deeper(items[i + 1].hash)
          ELSE Deeper(f[SplitPoint(n)][i])
                 \o Deeper(f[n - SplitPoint(n)][i + SplitPoint(n)])
    BY DEF ListRow
  <2>2. f[n] = ListRow(f, items, N, n)
    BY <1>2
  <2> QED
    BY <2>1, <2>2, Zenon
<1> DEFINE Good == {m \in Nat : \A n \in 1 .. N : n <= m =>
                      \A i \in 0 .. N - n : InOrder(f[n][i], end[i], end[i + n])}
<1>4. 0 \in Good
  OBVIOUS
<1>5. ASSUME NEW m \in Good
      PROVE  m + 1 \in Good
  <2>1. \A n \in 1 .. N : n <= m =>
          \A i \in 0 .. N - n : InOrder(f[n][i], end[i], end[i + n])
    OBVIOUS
  <2>2. m \in Nat
    OBVIOUS
  <2>3. ASSUME NEW n \in 1 .. N, n <= m + 1, NEW i \in 0 .. N - n
        PROVE  InOrder(f[n][i], end[i], end[i + n])
    <3>1. /\ n \in Nat /\ i \in Nat
          /\ i \in 0 .. N /\ i + n \in 0 .. N
      OBVIOUS
    <3>2. end[i] \in Nat /\ end[i + n] \in Nat
      BY <3>1
    <3>3. CASE n = 1
      <4>1. f[n][i] = Deeper(items[i + 1].hash)
        BY <1>3, <3>3
      <4>2. i + 1 \in 1 .. N /\ (i + 1) - 1 = i /\ i + n = i + 1
        BY <3>1, <3>3
      <4>3. InOrder(items[i + 1].hash, end[i], end[i + 1])
        BY <4>2
      <4> QED
        BY <3>2, <4>1, <4>2, <4>3, OneInOrder
    <3>4. CASE n # 1
      <4> DEFINE k == SplitPoint(n)
                 l == n - k
      <4>1. 2 <= n /\ n <= MaxLeaves /\ n \in Nat
        BY <3>1, <3>4 DEF MaxLeaves
      <4>2. k \in 1 .. n - 1 /\ l \in 1 .. n - 1
        BY <4>1, Split2
      <4>3. f[n][i] = Deeper(f[k][i]) \o Deeper(f[l][i + k])
        BY <1>3, <3>4
      <4>4. n = k + l
        BY <4>1, <4>2
      <4> HIDE DEF k, l
      <4>5. /\ k \in 1 .. N /\ l \in 1 .. N /\ k <= m /\ l <= m
            /\ i \in 0 .. N - k /\ i + k \in 0 .. N - l
            /\ i + k \in 0 .. N /\ (i + k) + l = i + n
        BY <2>2, <2>3, <3>1, <4>2, <4>4
      <4>6. InOrder(f[k][i], end[i], end[i + k])
        BY <2>1, <4>5
      <4>7. InOrder(f[l][i + k], end[i + k], end[(i + k) + l])
        BY <2>1, <4>5
      <4>8. InOrder(f[l][i + k], end[i + k], end[i + n]) /\ end[i + k] \in Nat
        BY <4>5, <4>7
      <4>9. InOrder(Deeper(f[k][i]) \o Deeper(f[l][i + k]), end[i], end[i + n])
        BY <3>2, <4>6, <4>8, TwoInOrder
      <4> QED
        BY <4>3, <4>9
    <3> QED
      BY <3>3, <3>4
  <2> QED
    BY <2>2, <2>3
<1>6. Good = Nat
  <2>1. Good \in SUBSET Nat
    OBVIOUS
  <2> HIDE DEF Good
  <2> QED
    BY <1>4, <1>5, <2>1, NatSetInduction
<1>7. \A i \in 0 .. N - N : InOrder(f[N][i], end[i], end[i + N])
  BY <1>6
<1>8. InOrder(f[N][0], end[0], end[0 + N]) /\ 0 + N = N
  BY <1>7
<1> QED
  BY <1>1, <1>8, Zenon

-----------------------------------------------------------------------------
(* The invariant *)

LEMMA InitOK ==
  ASSUME Init
  PROVE  IInv
<1>1. /\ pc = "idle" /\ length = 0 /\ left = 0 /\ shares = <<>>
      /\ total = 0 /\ sizes = <<>>
  BY DEF Init
<1>2. PlanTyped
  BY <1>1, Sizes DEF PlanTyped
<1>3. SharesOK
  BY <1>1 DEF SharesOK, Split
<1>4. TreesOK
  BY <1>1 DEF TreesOK
<1> QED
  BY <1>2, <1>3, <1>4 DEF IInv

LEMMA StartStep ==
  ASSUME IInv, Start
  PROVE  IInv'
<1>1. /\ shares = <<>> /\ shares' = <<>> /\ sizes = <<>> /\ sizes' = <<>>
      /\ pc' = "write" /\ left' = length' /\ total' = total
  BY DEF IInv, SharesOK, TreesOK, Start
<1>2. length' \in 1 .. maxBytes
  BY BlobAssumption DEF Start
<1>3. length' \in Nat /\ 0 < length' /\ length' <= 500000
  BY <1>2, Sizes
<1>4. PlanTyped'
  BY <1>1, <1>2, Sizes DEF IInv, PlanTyped
<1>5. SharesOK'
  <2>1. Len(shares') = 0 /\ Filled(Len(shares')) = 0
    BY <1>1 DEF Filled
  <2> QED
    BY <1>1, <1>3, <2>1 DEF SharesOK, Split
<1>6. TreesOK'
  BY <1>1 DEF TreesOK
<1> QED
  BY <1>4, <1>5, <1>6 DEF IInv

LEMMA PlannedStep ==
  ASSUME IInv, Planned
  PROVE  IInv'
<1>1. /\ pc = "sizes" /\ pc' = "trees" /\ total = 0
      /\ UNCHANGED <<length, left, shares, total, sizes>>
  BY DEF Planned
<1>2. Len(shares) # 0 /\ Taken = Len(shares)
  <2>1. Taken + total = Len(shares) /\ 1 <= Len(shares) /\ Len(shares) \in Nat
    BY <1>1 DEF IInv, PlanTyped, SharesOK, TreesOK, Split
  <2>2. Taken \in Nat
    <3>1. sizes # <<>> => sizes[Len(sizes)] \in Trees
      BY DEF IInv, PlanTyped
    <3>2. sizes # <<>> => /\ sizes[Len(sizes)].at \in Nat
                          /\ sizes[Len(sizes)].size \in Nat
      BY <3>1, PowersFact DEF Trees
    <3> QED
      BY <3>2 DEF Taken
  <2> QED
    BY <1>1, <2>1, <2>2
<1>3. sizes # <<>> /\ Taken' = Len(shares')
  BY <1>1, <1>2 DEF Taken
<1>4. PlanTyped'
  BY <1>1 DEF IInv, PlanTyped
<1>5. SharesOK'
  BY <1>1 DEF IInv, SharesOK, Split, ShareAt
<1>6. TreesOK'
  BY <1>1, <1>3 DEF IInv, TreesOK
<1> QED
  BY <1>4, <1>5, <1>6 DEF IInv

(* Hashing leaves what was cut and planned alone.                          *)
LEMMA HashStep ==
  ASSUME IInv,
         \/ pc \in {"trees", "done"} /\ pc' \in {"trees", "done"}
         \/ pc' = pc,
         UNCHANGED <<length, left, shares, total, sizes>>
  PROVE  IInv'
<1>1. PlanTyped'
  BY DEF IInv, PlanTyped
<1>2. SharesOK'
  BY DEF IInv, SharesOK, Split, ShareAt
<1>3. TreesOK'
  BY DEF IInv, TreesOK, Taken
<1> QED
  BY <1>1, <1>2, <1>3 DEF IInv

LEMMA SubmitStep ==
  ASSUME IInv, Submit
  PROVE  IInv'
<1>1. /\ pc' = "idle" /\ length' = 0 /\ left' = 0 /\ shares' = <<>>
      /\ total' = 0 /\ sizes' = <<>>
  BY DEF Submit
<1> QED
  BY <1>1, Sizes DEF IInv, PlanTyped, SharesOK, TreesOK, Split

LEMMA StepOK ==
  ASSUME IInv, [Next]_vars
  PROVE  IInv'
<1>1. CASE Start
  BY <1>1, StartStep
<1>2. CASE WriteShare
  <2>1. PlanTyped' /\ SharesOK'
    BY <1>2, WriteShareStep DEF IInv
  <2> QED
    BY <1>2, <2>1, WriteShareTrees DEF IInv
<1>3. CASE PlanTree
  <2>1. PlanTyped' /\ TreesOK'
    BY <1>3, PlanTreeStep DEF IInv
  <2>2. SharesOK'
    BY <1>3 DEF IInv, PlanTree, SharesOK, Split, ShareAt
  <2> QED
    BY <2>1, <2>2 DEF IInv
<1>4. CASE Planned
  BY <1>4, PlannedStep
<1>5. CASE HashTree
  BY <1>5, HashStep DEF HashTree
<1>6. CASE Commit
  BY <1>6, HashStep DEF Commit
<1>7. CASE Submit
  BY <1>7, SubmitStep
<1>8. CASE UNCHANGED vars
  BY <1>8, HashStep DEF vars
<1> QED
  BY <1>1, <1>2, <1>3, <1>4, <1>5, <1>6, <1>7, <1>8 DEF Next

LEMMA Invariant == Spec => []IInv
<1>1. Init => IInv
  BY InitOK
<1>2. IInv /\ [Next]_vars => IInv'
  BY StepOK
<1> QED
  BY <1>1, <1>2, PTL DEF Spec

-----------------------------------------------------------------------------
(* What follows from it *)

LEMMA HoldFromInv ==
  ASSUME IInv
  PROVE  SharesHoldBlob
<1> SUFFICES ASSUME Split
             PROVE  SharesHoldBlob
  BY DEF SharesHoldBlob
<1> DEFINE n == Len(shares)
<1>1. /\ n \in Nat /\ 1 <= n /\ length \in Nat
      /\ Filled(n - 1) < length /\ length <= Filled(n)
      /\ \A i \in 1 .. n : shares[i] = ShareAt(i)
  BY Sizes DEF IInv, PlanTyped, SharesOK
<1>2. shares # <<>>
  BY <1>1
<1> HIDE DEF n
<1>3. shares[1].from = 0
  <2>1. shares[1] = ShareAt(1)
    BY <1>1
  <2> QED
    BY <2>1 DEF ShareAt, Filled
<1>4. shares[n].from + shares[n].data = length
  <2>1. shares[n].from = Filled(n - 1) /\ shares[n].data = length - Filled(n - 1)
    <3>1. shares[n] = ShareAt(n)
      BY <1>1
    <3> QED
      BY <1>1, <3>1 DEF ShareAt
  <2>2. Filled(n - 1) \in Nat
    BY <1>1 DEF Filled
  <2> QED
    BY <1>1, <2>1, <2>2
<1>5. ASSUME NEW i \in 1 .. n
      PROVE  /\ shares[i].header + shares[i].data + shares[i].pad = 512
             /\ shares[i].header = 30 + (IF i = 1 THEN 4 ELSE 0)
             /\ shares[i].data > 0
             /\ i < n => /\ shares[i].pad = 0
                         /\ shares[i].from + shares[i].data = shares[i + 1].from
  <2>1. /\ shares[i] = ShareAt(i) /\ i \in Nat /\ 1 <= i /\ i <= n
        /\ i < n => shares[i + 1] = ShareAt(i + 1)
    BY <1>1
  <2>2. i < n => Filled(i) < length /\ (i + 1) - 1 = i
    BY <1>1, <2>1 DEF Filled
  <2>3. i = n => Filled(i - 1) < length /\ length <= Filled(i)
    BY <1>1
  <2>4. /\ Filled(i) \in Nat /\ Filled(i - 1) \in Nat
        /\ Filled(i) = Filled(i - 1) + (IF i = 1 THEN 478 ELSE 482)
    BY <2>1 DEF Filled
  <2>5. CASE i = n
    BY <1>1, <2>1, <2>3, <2>4, <2>5 DEF ShareAt
  <2>6. CASE i < n
    BY <1>1, <2>1, <2>2, <2>4, <2>6 DEF ShareAt
  <2> QED
    BY <1>1, <2>1, <2>5, <2>6
<1> QED
  BY <1>2, <1>3, <1>4, <1>5, Sizes DEF SharesHoldBlob, n

LEMMA GasFromInv ==
  ASSUME IInv
  PROVE  GasCoversBlob
<1> SUFFICES ASSUME Split
             PROVE  GasCoversBlob
  BY DEF GasCoversBlob
<1> DEFINE n == Len(shares)
           estimate == sparseSharesNeeded(length)
<1>1. /\ n \in Nat /\ 1 <= n /\ length \in Nat /\ 0 < length
      /\ Filled(n - 1) < length
  BY Sizes DEF IInv, PlanTyped, SharesOK, Split
<1>2. estimate = IF length < 478 THEN 1 ELSE 1 + (length - 478) \div 482
  BY <1>1, Sizes DEF sparseSharesNeeded
<1> HIDE DEF n, estimate
<1>3. estimate \in Nat /\ 1 <= estimate /\ n <= estimate + 1
  BY <1>1, <1>2 DEF Filled
<1>4. /\ Gas(n) = 4096 * n + 75700
      /\ Gas(estimate) = 4096 * estimate + 75700
  BY <1>1, <1>3, Sizes DEF Gas
<1>5. Gas(n) <= (Gas(estimate) * 12) \div 10
  BY <1>1, <1>3, <1>4
<1> QED
  BY <1>5 DEF GasCoversBlob, getCelestiaFeeGasLimit, n, estimate

LEMMA AlignedFromInv ==
  ASSUME IInv
  PROVE  SubtreesAligned
BY DEF IInv, PlanTyped, TreesOK, Taken, SubtreesAligned

(* The shares of a blob hold its data, once and in order, for every length *)
(* publishBatch can ask for: SparseShareSplitter.write loses no byte where *)
(* the data ends in a share, at its end or one byte after it.              *)
THEOREM BlobIsKept == Spec => []SharesHoldBlob
<1>1. IInv => SharesHoldBlob
  BY HoldFromInv
<1> QED
  BY <1>1, Invariant, PTL

(* The gas limit covers the shares though sparseSharesNeeded counts one    *)
(* too few for most lengths.                                               *)
THEOREM GasSuffices == Spec => []GasCoversBlob
<1>1. IInv => GasCoversBlob
  BY GasFromInv
<1> QED
  BY <1>1, Invariant, PTL

(* merkleMountainRangeSizes cuts the shares into aligned trees.            *)
THEOREM RangeIsAligned == Spec => []SubtreesAligned
<1>1. IInv => SubtreesAligned
  BY AlignedFromInv
<1> QED
  BY <1>1, Invariant, PTL

-----------------------------------------------------------------------------
(* The commitment *)

EndOf(k) == IF k = 0 THEN 0 ELSE sizes[k].at + sizes[k].size

(* Each root is of the tree planned for it; there are no more trees than   *)
(* shares in them.                                                         *)
HashesOK ==
  /\ Len(sizes) <= Taken
  /\ pc \in {"idle", "write", "sizes"} => roots = <<>> /\ cursor = 0
  /\ pc \in {"trees", "done"} =>
       /\ \E T : roots \in Seq(T)
       /\ Len(roots) <= Len(sizes)
       /\ cursor = EndOf(Len(roots))
       /\ \A k \in 1 .. Len(roots) : roots[k] = Root(EndOf(k - 1), EndOf(k))
  /\ pc # "done" => commitment = <<>>
  /\ pc = "done" => /\ Len(roots) = Len(sizes)
                    /\ commitment = hashFromByteSlices(roots)

(* Where the trees end.                                                    *)
LEMMA EndsFollow ==
  ASSUME IInv, HashesOK, pc \in {"trees", "done"}
  PROVE  /\ Len(sizes) \in Nat /\ 1 <= Len(sizes) /\ Len(sizes) <= MaxLeaves
         /\ EndOf(0) = 0 /\ EndOf(Len(sizes)) = Len(shares)
         /\ \A k \in 0 .. Len(sizes) : EndOf(k) \in Nat
         /\ \A k \in 1 .. Len(sizes) :
              /\ sizes[k].size \in Powers
              /\ EndOf(k) = EndOf(k - 1) + sizes[k].size
<1> DEFINE n == Len(sizes)
<1>1. /\ n \in Nat /\ \A k \in 1 .. n : sizes[k] \in Trees
  BY LenProperties, ElementOfSeq DEF IInv, PlanTyped
<1>2. \A k \in 1 .. n : /\ sizes[k].size \in Powers /\ sizes[k].at \in Nat
                        /\ sizes[k].size \in Nat
  BY <1>1, PowersFact DEF Trees
<1>3. 1 <= n
  <2>1. sizes # <<>> /\ sizes \in Seq(Trees)
    BY DEF IInv, PlanTyped, TreesOK
  <2>2. n # 0
    BY <2>1, EmptySeq
  <2> QED
    BY <1>1, <2>2
<1>4. Taken = Len(shares) /\ n <= Taken /\ Len(shares) <= 1038 /\ Len(shares) \in Nat
  BY DEF IInv, PlanTyped, TreesOK, SharesOK, Split, HashesOK
<1>5. EndOf(n) = Len(shares)
  <2>1. sizes # <<>>
    BY DEF IInv, TreesOK
  <2> QED
    BY <1>3, <1>4, <2>1 DEF EndOf, Taken
<1>6. \A k \in 0 .. n : EndOf(k) \in Nat
  BY <1>1, <1>2 DEF EndOf
<1>7. ASSUME NEW k \in 1 .. n
      PROVE  EndOf(k) = EndOf(k - 1) + sizes[k].size
  <2>1. /\ k = 1 => sizes[k].at = 0
        /\ k > 1 => sizes[k].at = sizes[k - 1].at + sizes[k - 1].size
    BY DEF IInv, TreesOK
  <2>2. k = 1 \/ k > 1
    BY <1>1
  <2> QED
    BY <1>1, <1>2, <2>1, <2>2 DEF EndOf
<1>8. n <= MaxLeaves
  BY <1>1, <1>4 DEF MaxLeaves
<1>9. EndOf(0) = 0
  BY DEF EndOf
<1> QED
  BY <1>1, <1>2, <1>3, <1>5, <1>6, <1>7, <1>8, <1>9

(* One more tree is hashed: the one over the shares where the last ended.  *)
LEMMA HashTreeHashes ==
  ASSUME IInv, HashesOK, HashTree
  PROVE  HashesOK'
<1> DEFINE n == Len(roots)
           x == Root(cursor, cursor + sizes[n + 1].size)
<1>1. /\ pc = "trees" /\ pc' = "trees" /\ n < Len(sizes)
      /\ roots' = Append(roots, x)
      /\ cursor' = cursor + sizes[n + 1].size
      /\ sizes' = sizes /\ commitment' = commitment
  BY DEF HashTree
<1>2. PICK T : roots \in Seq(T)
  BY <1>1 DEF HashesOK
<1>3. n \in Nat
  BY <1>2, LenProperties
<1>4. /\ Len(sizes) \in Nat
      /\ \A k \in 0 .. Len(sizes) : EndOf(k) \in Nat
      /\ \A k \in 1 .. Len(sizes) : EndOf(k) = EndOf(k - 1) + sizes[k].size
  BY <1>1, EndsFollow
<1>5. /\ cursor = EndOf(n)
      /\ \A k \in 1 .. n : roots[k] = Root(EndOf(k - 1), EndOf(k))
  BY <1>1 DEF HashesOK
<1>6. cursor + sizes[n + 1].size = EndOf(n + 1)
  <2>1. n + 1 \in 1 .. Len(sizes) /\ (n + 1) - 1 = n
    BY <1>1, <1>3, <1>4
  <2> QED
    BY <1>4, <1>5, <2>1
<1>7. x = Root(EndOf(n), EndOf(n + 1))
  BY <1>5, <1>6
<1> DEFINE U == T \cup {x}
<1>8. /\ roots' \in Seq(U) /\ Len(roots') = n + 1
      /\ \A k \in 1 .. n : roots'[k] = roots[k]
      /\ roots'[n + 1] = x
  <2>1. roots \in Seq(U) /\ x \in U
    BY <1>2, SeqMonotonic
  <2> HIDE DEF x, U
  <2> QED
    BY <1>1, <2>1, AppendProperties
<1> HIDE DEF x, U
<1>9. \A k : EndOf(k)' = EndOf(k)
  BY <1>1 DEF EndOf
<1>10. ASSUME NEW k \in 1 .. Len(roots')
       PROVE  roots'[k] = Root(EndOf(k - 1), EndOf(k))
  <2>1. k \in 1 .. n \/ k = n + 1
    BY <1>3, <1>8
  <2>2. CASE k \in 1 .. n
    BY <1>5, <1>8, <2>2
  <2>3. CASE k = n + 1
    <3>1. k - 1 = n
      BY <1>3, <2>3
    <3> QED
      BY <1>7, <1>8, <2>3, <3>1
  <2> QED
    BY <2>1, <2>2, <2>3
<1>11. Len(sizes') <= Taken'
  BY <1>1 DEF HashesOK, Taken
<1>12. Len(roots') <= Len(sizes')
  BY <1>1, <1>3, <1>4, <1>8
<1>13. cursor' = EndOf(Len(roots))'
  <2>1. cursor' = EndOf(n + 1)
    BY <1>1, <1>6
  <2> HIDE DEF n
  <2>2. EndOf(Len(roots))' = EndOf(Len(roots'))
    BY <1>1 DEF EndOf
  <2> QED
    BY <1>8, <2>1, <2>2
<1>14. \A k \in 1 .. Len(roots') : roots'[k] = Root(EndOf(k - 1)', EndOf(k)')
  BY <1>9, <1>10
<1>15. (\E S : roots \in Seq(S))'
  BY <1>8
<1>16. pc' # "done" /\ pc' \notin {"idle", "write", "sizes"} /\ commitment' = <<>>
  BY <1>1 DEF HashesOK
<1> HIDE DEF n
<1> QED
  BY <1>11, <1>12, <1>13, <1>14, <1>15, <1>16 DEF HashesOK

(* Planning a tree takes a share at least.                                 *)
LEMMA PlanTreeHashes ==
  ASSUME IInv, HashesOK, PlanTree
  PROVE  HashesOK'
<1> DEFINE size == TreeSize(total, subTreeWidth(Len(shares)))
           t    == [at |-> Len(shares) - total, size |-> size]
<1>1. /\ pc = "sizes" /\ pc' = "sizes" /\ total # 0
      /\ sizes' = Append(sizes, t)
      /\ roots' = roots /\ cursor' = cursor /\ commitment' = commitment
  BY DEF PlanTree
<1>2. /\ total \in Nat /\ Len(shares) \in Nat /\ 1 <= Len(shares)
      /\ Len(shares) <= 1038 /\ Taken + total = Len(shares)
      /\ sizes \in Seq(Trees)
  BY <1>1 DEF IInv, PlanTyped, SharesOK, TreesOK, Split
<1>3. Taken \in Nat
  <2>1. sizes # <<>> => sizes[Len(sizes)] \in Trees
    BY DEF IInv, PlanTyped
  <2>2. sizes # <<>> => /\ sizes[Len(sizes)].at \in Nat
                        /\ sizes[Len(sizes)].size \in Nat
    BY <2>1, PowersFact DEF Trees
  <2> QED
    BY <2>2 DEF Taken
<1>4. size \in Powers /\ size \in Nat /\ 1 <= size
  <2>1. subTreeWidth(Len(shares)) \in Powers
    BY <1>2, WidthIsPower
  <2>2. 1 <= total /\ total <= 2048
    BY <1>1, <1>2, <1>3
  <2>3. roundDownPowerOfTwo(total) \in Powers
    BY <1>2, <2>2, RoundDown
  <2>4. size \in Powers
    BY <2>1, <2>3 DEF TreeSize
  <2> HIDE DEF size
  <2> QED
    BY <2>4, PowersFact
<1>5. t.at = Len(shares) - total /\ t.size = size
  OBVIOUS
<1> HIDE DEF t, size
<1>6. t \in Trees
  <2>1. Len(shares) - total \in Nat
    BY <1>2, <1>3
  <2> QED
    BY <1>4, <2>1 DEF t, Trees
<1>7. /\ Len(sizes) \in Nat /\ Len(sizes') = Len(sizes) + 1
      /\ sizes'[Len(sizes')] = t /\ sizes' # <<>>
  <2>1. /\ sizes' \in Seq(Trees) /\ Len(sizes') = Len(sizes) + 1
        /\ sizes'[Len(sizes) + 1] = t
    BY <1>1, <1>2, <1>6, AppendProperties
  <2>2. Len(sizes) \in Nat
    BY <1>2, LenProperties
  <2>3. Len(sizes') # 0
    BY <2>1, <2>2
  <2>4. sizes' # <<>>
    BY <2>1, <2>3, EmptySeq
  <2> QED
    BY <2>1, <2>2, <2>4
<1>8. Taken' = Taken + size
  BY <1>2, <1>3, <1>4, <1>5, <1>7 DEF Taken
<1>9. Len(sizes') <= Taken'
  BY <1>3, <1>4, <1>7, <1>8 DEF HashesOK
<1> QED
  BY <1>1, <1>9 DEF HashesOK

LEMMA HashesStep ==
  ASSUME IInv, HashesOK, [Next]_vars
  PROVE  HashesOK'
<1>1. ASSUME UNCHANGED <<sizes, cursor, roots>>
      PROVE  /\ Taken' = Taken
             /\ \A k : EndOf(k)' = EndOf(k)
  BY <1>1 DEF Taken, EndOf
<1>2. CASE Start
  BY <1>1, <1>2 DEF Start, HashesOK
<1>3. CASE WriteShare
  BY <1>1, <1>3 DEF WriteShare, HashesOK
<1>4. CASE PlanTree
  BY <1>4, PlanTreeHashes
<1>5. CASE Planned
  <2>1. /\ pc = "sizes" /\ pc' = "trees"
        /\ UNCHANGED <<sizes, cursor, roots, commitment>>
    BY <1>5 DEF Planned
  <2>2. roots = <<>> /\ cursor = 0 /\ Len(sizes) <= Taken
        /\ commitment = <<>>
    BY <2>1 DEF HashesOK
  <2>3. roots' \in Seq({}) /\ Len(roots') = 0
    BY <2>1, <2>2
  <2>4. Len(sizes) \in Nat
    BY LenProperties DEF IInv, PlanTyped
  <2>5. EndOf(0)' = 0
    BY DEF EndOf
  <2> QED
    BY <1>1, <2>1, <2>2, <2>3, <2>4, <2>5 DEF HashesOK
<1>6. CASE HashTree
  BY <1>6, HashTreeHashes
<1>7. CASE Commit
  <2>1. /\ pc = "trees" /\ pc' = "done" /\ Len(roots) = Len(sizes)
        /\ commitment' = hashFromByteSlices(roots)
        /\ UNCHANGED <<sizes, cursor, roots>>
    BY <1>7 DEF Commit
  <2> QED
    BY <1>1, <2>1 DEF HashesOK
<1>8. CASE Submit
  <2>1. pc' = "idle" /\ sizes' = <<>> /\ roots' = <<>> /\ cursor' = 0
        /\ commitment' = <<>>
    BY <1>8 DEF Submit
  <2>2. Len(sizes') = 0 /\ Taken' = 0
    BY <2>1 DEF Taken
  <2> QED
    BY <2>1, <2>2 DEF HashesOK
<1>9. CASE UNCHANGED vars
  BY <1>1, <1>9 DEF vars, HashesOK
<1> QED
  BY <1>2, <1>3, <1>4, <1>5, <1>6, <1>7, <1>8, <1>9 DEF Next

LEMMA HashesInvariant == Spec => [](IInv /\ HashesOK)
<1>1. Init => IInv /\ HashesOK
  <2> SUFFICES ASSUME Init
               PROVE  IInv /\ HashesOK
    OBVIOUS
  <2>1. Len(sizes) = 0 /\ Taken = 0 /\ pc = "idle" /\ roots = <<>> /\ cursor = 0
      /\ commitment = <<>>
    BY DEF Init, Taken
  <2> QED
    BY <2>1, InitOK DEF HashesOK
<1>2. IInv /\ HashesOK /\ [Next]_vars => IInv' /\ HashesOK'
  BY StepOK, HashesStep
<1> QED
  BY <1>1, <1>2, PTL DEF Spec

(* Each root is of a tree of the size planned, over the shares after those *)
(* of the trees before it.                                                 *)
LEMMA RootsBind ==
  ASSUME IInv, HashesOK, pc \in {"trees", "done"}, NEW k \in 1 .. Len(roots)
  PROVE  Subtree(roots[k], EndOf(k - 1), sizes[k].size)
<1> DEFINE N == Len(sizes)
<1>1. /\ N \in Nat
      /\ \A j \in 0 .. N : EndOf(j) \in Nat
      /\ \A j \in 1 .. N : /\ sizes[j].size \in Powers
                           /\ EndOf(j) = EndOf(j - 1) + sizes[j].size
  BY EndsFollow
<1>2. k \in 1 .. N /\ roots[k] = Root(EndOf(k - 1), EndOf(k))
  <2>1. /\ Len(roots) <= N
        /\ \A j \in 1 .. Len(roots) : roots[j] = Root(EndOf(j - 1), EndOf(j))
    BY DEF HashesOK
  <2>2. Len(roots) \in Nat
    BY LenProperties DEF HashesOK
  <2> HIDE DEF N
  <2> QED
    BY <1>1, <2>1, <2>2
<1> HIDE DEF N
<1>3. /\ EndOf(k - 1) \in Nat /\ EndOf(k) \in Nat
      /\ EndOf(k) = EndOf(k - 1) + sizes[k].size
  BY <1>1, <1>2
<1>4. sizes[k].size \in Nat /\ 1 <= sizes[k].size /\ sizes[k].size <= MaxLeaves
  <2>1. \A p \in Powers : p \in Nat /\ 1 <= p /\ p <= MaxLeaves
    BY DEF Powers, MaxLeaves
  <2> QED
    BY <1>1, <1>2, <2>1
<1>5. sizes[k].size = EndOf(k) - EndOf(k - 1)
  BY <1>3, <1>4
<1> QED
  BY <1>2, <1>3, <1>4, <1>5, RootBinds

(* The commitment lists the leaves of all shares, in order.                *)
LEMMA BindsInOrder ==
  ASSUME IInv, HashesOK, pc = "done"
  PROVE  InOrder(commitment, 0, Len(shares))
<1> DEFINE N == Len(sizes)
           end == [k \in 0 .. N |-> EndOf(k)]
<1>1. /\ N \in Nat /\ 1 <= N /\ N <= MaxLeaves
      /\ EndOf(0) = 0 /\ EndOf(N) = Len(shares)
      /\ \A k \in 0 .. N : EndOf(k) \in Nat
      /\ \A k \in 1 .. N : /\ sizes[k].size \in Powers
                           /\ EndOf(k) = EndOf(k - 1) + sizes[k].size
  BY EndsFollow
<1>2. /\ Len(roots) = N /\ commitment = hashFromByteSlices(roots)
      /\ \A k \in 1 .. N : roots[k] = Root(EndOf(k - 1), EndOf(k))
  BY DEF HashesOK
<1> HIDE DEF N
<1>3. \A k \in 1 .. N : Subtree(roots[k], EndOf(k - 1), sizes[k].size)
  BY <1>2, RootsBind
<1>4. ASSUME NEW k \in 1 .. N
      PROVE  InOrder(roots[k].hash, end[k - 1], end[k])
  <2>1. k - 1 \in 0 .. N /\ k \in 0 .. N
    BY <1>1
  <2>2. end[k - 1] = EndOf(k - 1) /\ end[k] = EndOf(k)
    BY <2>1
  <2>3. sizes[k].size = EndOf(k) - EndOf(k - 1)
    <3>1. sizes[k].size \in Nat
      BY <1>1, PowersFact
    <3> QED
      BY <1>1, <2>1, <3>1
  <2> HIDE DEF end
  <2> QED
    BY <1>3, <2>2, <2>3 DEF Subtree, InOrder
<1>5. end \in [0 .. N -> Nat] /\ end[0] = 0 /\ end[N] = Len(shares)
  BY <1>1
<1> HIDE DEF end
<1>6. InOrder(hashFromByteSlices(roots), end[0], end[N])
  BY <1>1, <1>2, <1>4, <1>5, ListBinds
<1> QED
  BY <1>2, <1>5, <1>6

LEMMA BindsFromInv ==
  ASSUME IInv, HashesOK
  PROVE  CommitmentBinds
<1> SUFFICES ASSUME pc = "done"
             PROVE  CommitmentBinds
  BY DEF CommitmentBinds
<1> DEFINE N == Len(sizes)
<1>1. N \in Nat /\ Len(roots) = N /\ \A k \in 1 .. N : sizes[k].size \in Powers
  BY EndsFollow DEF HashesOK
<1> HIDE DEF N
<1>2. /\ Len(commitment) = Len(shares)
      /\ \A i \in 1 .. Len(commitment) : commitment[i][2] = i
  <2>1. Len(shares) \in Nat
    BY DEF IInv, PlanTyped
  <2> QED
    BY <2>1, BindsInOrder DEF InOrder
<1>3. \A k \in 1 .. N : Subtree(roots[k], EndOf(k - 1), sizes[k].size)
  BY <1>1, RootsBind
<1>4. ASSUME NEW k \in 1 .. N
      PROVE  /\ roots[k].min = Namespace /\ roots[k].max = Namespace
             /\ Len(roots[k].hash) = sizes[k].size
             /\ \A i \in 1 .. sizes[k].size :
                  2 ^ (roots[k].hash[i][1]) = sizes[k].size
  <2>1. sizes[k].size \in Powers
    BY <1>1
  <2>2. \A i \in 1 .. sizes[k].size : roots[k].hash[i][1] = Height(sizes[k].size)
    BY <1>3, <2>1 DEF Subtree
  <2>3. 2 ^ Height(sizes[k].size) = sizes[k].size
    BY <2>1, HeightIsLog
  <2> QED
    BY <1>3, <2>2, <2>3 DEF Subtree
<1> QED
  BY <1>1, <1>2, <1>4 DEF CommitmentBinds

(* The commitment of a blob binds every share to its place, for a blob of  *)
(* any length publishBatch can ask for: the trees that getSplitPoint makes *)
(* leave no share out, take none twice and swap none; and each subtree is  *)
(* perfect and of the blob's namespace alone.                              *)
THEOREM CommitmentIsBinding == Spec => []CommitmentBinds
<1>1. IInv /\ HashesOK => CommitmentBinds
  BY BindsFromInv
<1> QED
  BY <1>1, HashesInvariant, PTL

(* A row of anything is a sequence of what all its elements are.           *)
LEMMA SeqOfRoots ==
  ASSUME NEW T, NEW s \in Seq(T), \A k \in 1 .. Len(s) : s[k] \in Roots
  PROVE  s \in Seq(Roots)
<1>1. Len(s) \in Nat /\ DOMAIN s = 1 .. Len(s) /\ s \in [1 .. Len(s) -> T]
  BY LenProperties
<1>2. s \in [1 .. Len(s) -> Roots]
  BY <1>1
<1> QED
  BY <1>1, <1>2, IsASeq

LEMMA TypesFromInv ==
  ASSUME IInv, HashesOK
  PROVE  TypeOK
<1>1. cursor \in Nat /\ roots \in Seq(Roots)
  <2>1. CASE pc \in {"idle", "write", "sizes"}
    <3>1. roots = <<>> /\ cursor = 0
      BY <2>1 DEF HashesOK
    <3> QED
      BY <3>1
  <2>2. CASE pc \in {"trees", "done"}
    <3>1. PICK T : roots \in Seq(T)
      BY <2>2 DEF HashesOK
    <3>2. \A k \in 1 .. Len(roots) : roots[k] \in Roots
      BY <2>2, RootsBind DEF Subtree
    <3>3. roots \in Seq(Roots)
      BY <3>1, <3>2, SeqOfRoots
    <3>4. /\ Len(roots) \in Nat /\ Len(roots) <= Len(sizes)
          /\ cursor = EndOf(Len(roots))
      BY <2>2, <3>3, LenProperties DEF HashesOK
    <3>5. Len(sizes) \in Nat /\ \A k \in 0 .. Len(sizes) : EndOf(k) \in Nat
      BY <2>2, EndsFollow
    <3>6. cursor \in Nat
      BY <3>4, <3>5
    <3> QED
      BY <3>3, <3>6
  <2> QED
    BY <2>1, <2>2 DEF IInv, PlanTyped
<1>2. commitment \in Digests
  <2>1. CASE pc = "done"
    BY <2>1, BindsInOrder DEF InOrder, Digests
  <2>2. CASE pc # "done"
    <3>1. commitment = <<>>
      BY <2>2 DEF HashesOK
    <3> QED
      BY <3>1 DEF Digests
  <2> QED
    BY <2>1, <2>2
<1> QED
  BY <1>1, <1>2 DEF IInv, PlanTyped, TypeOK

(* Every variable has its type in every reachable state, the roots and the *)
(* commitment too: no tree hashes a leaf that is not there, and siblings   *)
(* are never out of order, for which the code would throw.                 *)
THEOREM TypeCorrect == Spec => []TypeOK
<1>1. IInv /\ HashesOK => TypeOK
  BY TypesFromInv
<1> QED
  BY <1>1, HashesInvariant, PTL
=============================================================================
