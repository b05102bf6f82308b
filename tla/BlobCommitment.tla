--------------------------- MODULE BlobCommitment ---------------------------
(***************************************************************************)
(* How a slice of batch data becomes a Celestia blob (src/celestia): the   *)
(* data is cut into shares of 512 bytes, the shares are put under a row of *)
(* namespaced Merkle trees, the roots of the trees under one more tree,    *)
(* and the root of that is the commitment the transaction pays for.  The   *)
(* gas limit of the transaction is estimated from the length of the data.  *)
(*                                                                         *)
(* The data is its positions 0 .. length - 1.  Hashing is injective: a     *)
(* digest is the list of <<depth, leaf>> of the tree below it, from left   *)
(* to right, which determines the tree.  A namespace is a number, and all  *)
(* the shares of a blob have one: config.CELESTIA_NAMESPACE_ID.            *)
(***************************************************************************)
EXTENDS Integers, Sequences

CONSTANTS
  Lengths,       \* lengths of the slices publishBatch makes
  Namespace

maxBytes == 500000

MaxNamespace == 255

ASSUME BlobAssumption ==
  /\ Lengths \subseteq 1 .. maxBytes
  /\ Namespace \in 0 .. MaxNamespace - 1

VARIABLES
  pc, length,    \* createBlob: where it is, and the length of its data
  left, shares,  \* SparseShareSplitter.write: data left, shares built
  total, sizes,  \* merkleMountainRangeSizes: shares left, trees planned
  cursor, roots, \* createCommitment: shares hashed, roots of their trees
  commitment

vars == <<pc, length, left, shares, total, sizes, cursor, roots, commitment>>

shareSize          == 512
namespaceSize      == 29
shareInfoBytes     == 1
sequenceLenBytes   == 4
SubtreeRootThreshold == 64

MinOf(a, b) == IF a <= b THEN a ELSE b

-----------------------------------------------------------------------------
(* utils.ts: powers of two and gas *)

Powers == {1, 2, 4, 8, 16, 32, 64, 128, 256, 512, 1024, 2048}

roundUpPowerOfTwo(n) ==
  CHOOSE p \in Powers : n <= p /\ (p = 1 \/ p \div 2 < n)

roundDownPowerOfTwo(n) ==
  LET up == roundUpPowerOfTwo(n) IN IF up = n THEN up ELSE up \div 2

firstSparseShareContentSize ==
  shareSize - namespaceSize - shareInfoBytes - sequenceLenBytes
continuationSparseShareContentSize ==
  shareSize - namespaceSize - shareInfoBytes

(* A variant with a mistake has the mistake in its name.  No action uses   *)
(* these; they show which property notices.                                *)
sparseSharesNeeded_Wide(len) ==
  IF len = 0 THEN 0 ELSE 1 + (len - 1) \div (2 * shareSize)

sparseSharesNeeded(len) ==
  IF len = 0 THEN 0
  ELSE IF len < firstSparseShareContentSize THEN 1
  ELSE 1 + (len - firstSparseShareContentSize)
             \div continuationSparseShareContentSize

(* 8 per byte of the shares, 10 per byte of 70 bytes of blob info, and a   *)
(* fixed cost.                                                             *)
Gas(count) == count * shareSize * 8 + 10 * 70 + 75000

(* A fifth more than the estimate; the fraction is dropped.                *)
getCelestiaFeeGasLimit(len) == (Gas(sparseSharesNeeded(len)) * 12) \div 10

-----------------------------------------------------------------------------
(* Trees *)

(* getSplitPoint: the largest power of two below n.                        *)
SplitPoint_Early(n) == IF n = 2 THEN 1 ELSE roundUpPowerOfTwo(n) \div 4
SplitPoint(n)       == roundUpPowerOfTwo(n) \div 2

Deeper(digest) == [i \in 1 .. Len(digest) |-> <<digest[i][1] + 1, digest[i][2]>>]

(* A digest of a namespaced tree starts with the range of its namespaces.  *)
HashLeaf(ns, leaf) == [min |-> ns, max |-> ns, hash |-> <<<<0, leaf>>>>]

(* The right child's largest namespace is what is compared.                *)
siblingsInOrder(l, r) == l.max <= r.max

(* A right child of parity shares, of the largest namespace, is ignored.   *)
rangeMax(l, r) == IF r.min = MaxNamespace THEN l.max ELSE r.max

(* Siblings out of order throw; the blob is not built.                     *)
HashNode(l, r) ==
  IF siblingsInOrder(l, r)
  THEN [min  |-> l.min, max |-> rangeMax(l, r),
        hash |-> Deeper(l.hash) \o Deeper(r.hash)]
  ELSE [min |-> 0, max |-> 0, hash |-> <<>>]

(* NamespaceMerkleTree.push: the j-th leaf.                                *)
push(j) == HashLeaf(Namespace, j)

(* NamespaceMerkleTree: over n shares, the first of them after i others.   *)
Root(first, last) ==
  LET computeRoot[n \in 1 .. last - first] ==
        [i \in first .. last - n |->
           IF n = 1 THEN push(i + 1)
           ELSE LET k == SplitPoint(n)
                IN  HashNode(computeRoot[k][i], computeRoot[n - k][i + k])]
  IN  computeRoot[last - first][first]

(* The tree over the roots of the subtrees, in the same way.               *)
hashFromByteSlices(items) ==
  LET hash[n \in 1 .. Len(items)] ==
        [i \in 0 .. Len(items) - n |->
           IF n = 1 THEN Deeper(items[i + 1].hash)
           ELSE LET k == SplitPoint(n)
                IN  Deeper(hash[k][i]) \o Deeper(hash[n - k][i + k])]
  IN  hash[Len(items)][0]

-----------------------------------------------------------------------------
(* A share: its first bytes, the data in it and where it comes from, and   *)
(* zeroes.  A tree over shares: its size, and the shares before it.  Its   *)
(* root: the range of the namespaces and the digest.                       *)
Shares  == [header : Nat, from : Nat, data : Nat, pad : Nat]
Trees   == [at : Nat, size : Powers]
Digests == Seq(Nat \X Nat)
Roots   == [min : 0 .. MaxNamespace, max : 0 .. MaxNamespace, hash : Digests]

TypeOK ==
  /\ pc \in {"idle", "write", "sizes", "trees", "done"}
  /\ length \in 0 .. maxBytes
  /\ left \in Nat
  /\ shares \in Seq(Shares)
  /\ total \in Nat
  /\ sizes \in Seq(Trees)
  /\ cursor \in Nat
  /\ roots \in Seq(Roots)
  /\ commitment \in Digests

Init ==
  /\ pc = "idle" /\ length = 0 /\ left = 0 /\ shares = <<>>
  /\ total = 0 /\ sizes = <<>> /\ cursor = 0 /\ roots = <<>>
  /\ commitment = <<>>

(* createBlob                                                              *)
Start ==
  /\ pc = "idle" /\ pc' = "write"
  /\ length' \in Lengths /\ left' = length'
  /\ UNCHANGED <<shares, total, sizes, cursor, roots, commitment>>

(* Builder.init and writeSequenceLen: what a share starts with.            *)
Header(first) ==
  namespaceSize + shareInfoBytes + (IF first THEN sequenceLenBytes ELSE 0)

(* Builder.addData: the data ends in this share when it fits.              *)
Fits_Strictly(len, room) == len < room
Fits(len, room)          == len <= room

zeroPadIfNecessary(len) == IF len < shareSize THEN shareSize - len ELSE 0

(* One turn of the loop of SparseShareSplitter.write.                      *)
WriteShare ==
  LET header == Header(shares = <<>>)
      room   == shareSize - header
      data   == MinOf(left, room)
  IN  /\ pc = "write"
      /\ shares' = Append(shares, [header |-> header, from |-> length - left,
                                   data |-> data,
                                   pad |-> zeroPadIfNecessary(header + data)])
      /\ left' = left - data
      /\ IF Fits(left, room) THEN pc' = "sizes" /\ total' = Len(shares')
                             ELSE UNCHANGED <<pc, total>>
      /\ UNCHANGED <<length, sizes, cursor, roots, commitment>>

(* blobMinSquareSize: the side of the smallest square for n shares.        *)
blobMinSquareSize(n) ==
  CHOOSE p \in Powers : n <= p * p /\ (p = 1 \/ (p \div 2) * (p \div 2) < n)

subTreeWidth(n) ==
  MinOf(roundUpPowerOfTwo((n + SubtreeRootThreshold - 1)
                            \div SubtreeRootThreshold),
        blobMinSquareSize(n))

(* One turn of the loop of merkleMountainRangeSizes.                       *)
TreeSize_NoRounding(n, width) == MinOf(n, width)
TreeSize(n, width) == IF width <= n THEN width ELSE roundDownPowerOfTwo(n)

PlanTree ==
  LET size == TreeSize(total, subTreeWidth(Len(shares)))
  IN  /\ pc = "sizes" /\ total # 0
      /\ sizes' = Append(sizes, [at |-> Len(shares) - total, size |-> size])
      /\ total' = total - size
      /\ UNCHANGED <<pc, length, left, shares, cursor, roots, commitment>>

Planned ==
  /\ pc = "sizes" /\ total = 0 /\ pc' = "trees"
  /\ UNCHANGED <<length, left, shares, total, sizes, cursor, roots, commitment>>

(* createCommitment: the tree of the next size over the next shares.       *)
HashTree ==
  LET size == sizes[Len(roots) + 1].size
  IN  /\ pc = "trees" /\ Len(roots) < Len(sizes)
      /\ roots' = Append(roots, Root(cursor, cursor + size))
      /\ cursor' = cursor + size
      /\ UNCHANGED <<pc, length, left, shares, total, sizes, commitment>>

Commit ==
  /\ pc = "trees" /\ Len(roots) = Len(sizes) /\ pc' = "done"
  /\ commitment' = hashFromByteSlices(roots)
  /\ UNCHANGED <<length, left, shares, total, sizes, cursor, roots>>

(* The blob is submitted; publishBatch goes on to the next slice.          *)
Submit ==
  /\ pc = "done" /\ pc' = "idle"
  /\ length' = 0 /\ left' = 0 /\ shares' = <<>> /\ total' = 0
  /\ sizes' = <<>> /\ cursor' = 0 /\ roots' = <<>> /\ commitment' = <<>>

Next == Start \/ WriteShare \/ PlanTree \/ Planned \/ HashTree \/ Commit \/ Submit

Spec == Init /\ [][Next]_vars

-----------------------------------------------------------------------------
(* Properties *)

Split == pc \in {"sizes", "trees", "done"}

(* The shares are the data and nothing else: each is of 512 bytes, they    *)
(* follow one another, only the first carries the length, only the last is *)
(* padded, and none is empty, whether the data ends in the middle of a     *)
(* share, at its end, or one byte after it.                                *)
SharesHoldBlob ==
  Split =>
    /\ shares # <<>> /\ shares[1].from = 0
    /\ LET last == shares[Len(shares)] IN last.from + last.data = length
    /\ \A i \in 1 .. Len(shares) : LET s == shares[i] IN
         /\ s.header + s.data + s.pad = shareSize
         /\ s.header = namespaceSize + shareInfoBytes
                         + (IF i = 1 THEN sequenceLenBytes ELSE 0)
         /\ s.data > 0
         /\ i < Len(shares) => s.pad = 0 /\ s.from + s.data = shares[i + 1].from

(* The gas limit is computed from the length, before and apart from the    *)
(* cutting: the estimate may miss the last share, and the fifth added to   *)
(* it pays for the shares there are.                                       *)
GasCoversBlob ==
  Split => Gas(Len(shares)) <= getCelestiaFeeGasLimit(length)

(* The trees are a Merkle mountain range: their sizes are powers of two    *)
(* that never grow, each starts at a multiple of its size, and together    *)
(* they take every share once.  A square can then hold the blob with the   *)
(* same subtrees, which is what makes the commitment independent of where  *)
(* the blob is put.                                                        *)
SubtreesAligned ==
  /\ \A k \in 1 .. Len(sizes) :
       /\ sizes[k].at % sizes[k].size = 0
       /\ k = 1 => sizes[k].at = 0
       /\ k > 1 => /\ sizes[k].size <= sizes[k - 1].size
                   /\ sizes[k].at = sizes[k - 1].at + sizes[k - 1].size
  /\ pc \in {"trees", "done"} =>
       LET last == sizes[Len(sizes)] IN last.at + last.size = Len(shares)

(* The commitment is to all shares, in order: each is a leaf once, each    *)
(* subtree is perfect and of the blob's namespace, so the root binds every *)
(* share to its place.                                                     *)
CommitmentBinds ==
  pc = "done" =>
    /\ Len(commitment) = Len(shares)
    /\ \A i \in 1 .. Len(commitment) : commitment[i][2] = i
    /\ \A k \in 1 .. Len(roots) :
         /\ roots[k].min = Namespace /\ roots[k].max = Namespace
         /\ Len(roots[k].hash) = sizes[k].size
         /\ \A i \in 1 .. sizes[k].size :
              2 ^ (roots[k].hash[i][1]) = sizes[k].size
=============================================================================
