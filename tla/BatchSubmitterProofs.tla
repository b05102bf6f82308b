------------------------ MODULE BatchSubmitterProofs ------------------------
(***************************************************************************)
(* Proofs, for every size of bulks, transactions and outputs and every     *)
(* number of faults, of the safety properties of BatchSubmitter.           *)
(***************************************************************************)
EXTENDS BatchSubmitter, SequenceTheorems, FiniteSetTheorems, TLAPS

-----------------------------------------------------------------------------
(* What a chain d holds                                                    *)

HoldsIn(d, hashes, start, end) ==
  /\ hashes # <<>>
  /\ \A k \in 1 .. Len(hashes) : hashes[k] \in DOMAIN d
  /\ d[hashes[1]].start = start
  /\ d[hashes[Len(hashes)]].end = end
  /\ \A k \in 2 .. Len(hashes) :
       d[hashes[k]].start = d[hashes[k - 1]].end + 1

(* Data that ends with block n is there.                                   *)
Reached(d, n) == n > 0 => \E p \in 1 .. Len(d) : d[p].end = n

Available(d, first, last) ==
  \A b \in first .. last :
    \E p \in 1 .. Len(d) : d[p].start <= b /\ b <= d[p].end

Copies(d, s) == Cardinality({q \in 1 .. Len(d) : d[q] = s})

-----------------------------------------------------------------------------
(* The inductive invariant, by topic *)

OutputsOK ==
  \A i \in 1 .. Len(outputs) :
    /\ outputs[i].start = (IF i = 1 THEN 1 ELSE outputs[i - 1].end + 1)
    /\ outputs[i].start <= outputs[i].end

(* Every record can be followed, and every block of its output is there,   *)
(* also those of the bulks whose record was written over.                  *)
RecordsOK ==
  /\ Len(records) <= Len(outputs)
  /\ \A i \in 1 .. Len(records) :
       /\ records[i].batchIndex = i
       /\ records[i].end = outputs[i].end
       /\ HoldsIn(da, records[i].batchInfo, records[i].start, records[i].end)
       /\ Available(da, outputs[i].start, outputs[i].end)

(* The end of the last output with a record.                               *)
Recorded == IF records = <<>> THEN 0 ELSE outputs[Len(records)].end

Working == pc \in {"fetch", "publish", "save", "commit"}

(* The first block that is not published in this life of the process.      *)
Frontier == IF pc = "fetch" THEN bulk.start
            ELSE IF pc = "publish" THEN batch.start
            ELSE IF pc \in {"save", "commit"} THEN bulk.end + 1
            ELSE Recorded + 1

(* The open transaction: the committed records, and one more once a bulk   *)
(* is saved, which is the output's when all bulks are.                     *)
SavedOK ==
  \/ myRecords = records /\ pc # "commit"
  \/ \E r \in Records :
       /\ myRecords = Append(records, r)
       /\ pc = "commit" =>
            /\ r.batchIndex = batchIndex
            /\ r.end = outputs[batchIndex].end
            /\ HoldsIn(da, r.batchInfo, r.start, r.end)

(* The output at work is the next one; what lies before the frontier is on *)
(* the chain.                                                              *)
OutputOK ==
  /\ batchIndex = Len(records) + 1 /\ batchIndex <= Len(outputs)
  /\ outputs[batchIndex].start <= bulk.start /\ bulk.start <= bulk.end
  /\ bulk.end = BulkFrom(bulk.start, outputs[batchIndex].end).end
  /\ Reached(da, Frontier - 1)
  /\ Available(da, outputs[batchIndex].start, Frontier - 1)
  /\ SavedOK

BatchOK ==
  /\ bulk.start <= batch.start /\ batch.start <= bulk.end + 1
  /\ batch.end = bulk.end
  /\ IF batchInfo = <<>> THEN batch.start = bulk.start
     ELSE HoldsIn(da, batchInfo, bulk.start, batch.start - 1)

WorkOK ==
  /\ Working => OutputOK
  /\ ~Working => myRecords = records
  /\ pc = "publish" => BatchOK
  /\ pc = "save" => HoldsIn(da, batchInfo, bulk.start, bulk.end)
  /\ pc = "commit" => bulk.end = outputs[batchIndex].end
  /\ call = "sent" => pc = "publish" /\ ~Empty(batch) /\ tx = SubData

TxOK ==
  /\ PublishedInOrder
  /\ txStatus = "pending" => Reached(da, tx.start - 1)
  /\ txStatus = "ok" => da # <<>> /\ da[Len(da)] = tx

(* How often a slice is on the chain or will be.                           *)
Paid(s) == Copies(da, s) + (IF txStatus = "pending" /\ tx = s THEN 1 ELSE 0)

(* A slice has a copy for each fault, and one more only if it was          *)
(* published in this life, all of which a next life may repeat: it has     *)
(* none more once a transaction is lost, and a life that finds another's   *)
(* transaction in its way has published nothing.                           *)
PaidOK ==
  /\ \A s \in Blocks : Paid(s) <= 1 + faults
  /\ \A s \in Blocks :
       s.start >= Frontier /\ (call = "idle" \/ s # tx) => Paid(s) <= faults
  /\ call = "sent" /\ txStatus = "none" => \A s \in Blocks : Paid(s) <= faults
  /\ call = "idle" /\ txStatus = "pending" => Frontier = Recorded + 1

IInv == TypeOK /\ OutputsOK /\ RecordsOK /\ WorkOK /\ TxOK /\ PaidOK

-----------------------------------------------------------------------------
(* Lemmas about the chain *)

Hashes == Seq(Nat \ {0})

LEMMA Appended ==
  ASSUME NEW S, NEW s \in Seq(S), NEW e \in S
  PROVE  /\ Append(s, e) \in Seq(S)
         /\ Len(s) \in Nat
         /\ Len(Append(s, e)) = Len(s) + 1
         /\ \A i \in 1 .. Len(s) : Append(s, e)[i] = s[i]
         /\ Append(s, e)[Len(s) + 1] = e
         /\ DOMAIN s = 1 .. Len(s)
         /\ DOMAIN Append(s, e) = 1 .. Len(s) + 1
  BY LenProperties

LEMMA NotEmpty ==
  ASSUME NEW S, NEW s \in Seq(S)
  PROVE  /\ Len(s) \in Nat
         /\ s # <<>> <=> Len(s) > 0
         /\ s # <<>> => 1 \in 1 .. Len(s) /\ Len(s) \in 1 .. Len(s)
  BY EmptySeq, LenProperties

LEMMA BlockFields ==
  ASSUME NEW d \in Seq(Blocks)
  PROVE  \A p \in 1 .. Len(d) :
           d[p] \in Blocks /\ d[p].start \in Nat /\ d[p].end \in Nat
<1> SUFFICES ASSUME NEW p \in 1 .. Len(d)
             PROVE  d[p] \in Blocks /\ d[p].start \in Nat /\ d[p].end \in Nat
  OBVIOUS
<1>1. d[p] \in Blocks
  BY ElementOfSeq
<1> QED
  BY <1>1 DEF Blocks

(* What is on the chain stays there.                                       *)
LEMMA Later ==
  ASSUME NEW d \in Seq(Blocks), NEW b \in Blocks
  PROVE  /\ \A h \in Hashes, s, e \in Nat :
              HoldsIn(d, h, s, e) => HoldsIn(Append(d, b), h, s, e)
         /\ \A n \in Int : Reached(d, n) => Reached(Append(d, b), n)
         /\ \A m, n \in Int :
              Available(d, m, n) => Available(Append(d, b), m, n)
<1> DEFINE a == Append(d, b)
<1>1. /\ Len(d) \in Nat /\ Len(a) = Len(d) + 1
      /\ \A i \in 1 .. Len(d) : a[i] = d[i]
      /\ DOMAIN d = 1 .. Len(d) /\ DOMAIN a = 1 .. Len(a)
  BY Appended
<1> HIDE DEF a
<1>2. ASSUME NEW h \in Hashes, NEW s \in Nat, NEW e \in Nat,
             HoldsIn(d, h, s, e)
      PROVE  HoldsIn(a, h, s, e)
  <2>1. /\ Len(h) \in Nat
        /\ 1 \in 1 .. Len(h) /\ Len(h) \in 1 .. Len(h)
    BY <1>2, NotEmpty DEF HoldsIn, Hashes
  <2>2. \A k \in 1 .. Len(h) : h[k] \in 1 .. Len(d)
    BY <1>1, <1>2 DEF HoldsIn
  <2>3. \A k \in 1 .. Len(h) : h[k] \in DOMAIN a /\ a[h[k]] = d[h[k]]
    BY <1>1, <2>2
  <2> QED
    BY <1>2, <2>1, <2>3 DEF HoldsIn
<1>3. \A n \in Int : Reached(d, n) => Reached(a, n)
  BY <1>1 DEF Reached
<1>4. \A m, n \in Int : Available(d, m, n) => Available(a, m, n)
  BY <1>1 DEF Available
<1> QED
  BY <1>2, <1>3, <1>4 DEF a

LEMMA CopiesFinite ==
  ASSUME NEW d \in Seq(Blocks), NEW s
  PROVE  /\ IsFiniteSet({q \in 1 .. Len(d) : d[q] = s})
         /\ Copies(d, s) \in Nat
<1>1. IsFiniteSet(1 .. Len(d))
  BY LenProperties, FS_Interval
<1>2. IsFiniteSet({q \in 1 .. Len(d) : d[q] = s})
  BY <1>1, FS_Subset
<1> QED
  BY <1>2, FS_CardinalityType DEF Copies

LEMMA CopiesLater ==
  ASSUME NEW d \in Seq(Blocks), NEW b \in Blocks, NEW s
  PROVE  Copies(Append(d, b), s) = Copies(d, s) + (IF b = s THEN 1 ELSE 0)
<1> DEFINE a == Append(d, b)
           C == {q \in 1 .. Len(d) : d[q] = s}
           D == {q \in 1 .. Len(a) : a[q] = s}
<1>1. /\ Len(d) \in Nat /\ Len(a) = Len(d) + 1
      /\ \A i \in 1 .. Len(d) : a[i] = d[i]
      /\ a[Len(d) + 1] = b
  BY Appended
<1>2. IsFiniteSet(C) /\ Copies(d, s) \in Nat
  BY CopiesFinite
<1>3. Copies(d, s) = Cardinality(C) /\ Copies(a, s) = Cardinality(D)
  BY DEF Copies
<1>4. Len(d) + 1 \notin C
  BY <1>1
<1> HIDE DEF a, C, D
<1> SUFFICES Copies(a, s) = Copies(d, s) + (IF b = s THEN 1 ELSE 0)
  BY DEF a
<1>5. CASE b = s
  <2>1. D = C \cup {Len(d) + 1}
    BY <1>1, <1>5 DEF C, D
  <2>2. Cardinality(C \cup {Len(d) + 1}) = Cardinality(C) + 1
    BY <1>2, <1>4, FS_AddElement
  <2> QED
    BY <1>2, <1>3, <1>5, <2>1, <2>2
<1>6. CASE b # s
  <2>1. D = C
    BY <1>1, <1>6 DEF C, D
  <2> QED
    BY <1>2, <1>3, <1>6, <2>1
<1> QED
  BY <1>5, <1>6

(* One more hash, of data that follows.                                    *)
LEMMA HoldsMore ==
  ASSUME NEW d \in Seq(Blocks), NEW h \in Hashes, NEW s \in Nat,
         d # <<>>,
         IF h = <<>> THEN d[Len(d)].start = s
         ELSE HoldsIn(d, h, s, d[Len(d)].start - 1)
  PROVE  /\ Append(h, Len(d)) \in Hashes
         /\ HoldsIn(d, Append(h, Len(d)), s, d[Len(d)].end)
<1> DEFINE g == Append(h, Len(d))
<1>1. Len(d) \in Nat \ {0} /\ Len(d) \in DOMAIN d
  BY EmptySeq, LenProperties
<1>2. /\ g \in Hashes /\ Len(h) \in Nat /\ Len(g) = Len(h) + 1
      /\ \A i \in 1 .. Len(h) : g[i] = h[i]
      /\ g[Len(h) + 1] = Len(d)
  BY <1>1, Appended DEF Hashes
<1>3. g # <<>> /\ (h # <<>> <=> Len(h) > 0)
  BY <1>2, NotEmpty DEF Hashes
<1>4. d[Len(d)].start \in Nat
  BY <1>1, BlockFields
<1> HIDE DEF g
<1>5. CASE h = <<>>
  <2>1. Len(g) = 1 /\ g[1] = Len(d) /\ g[Len(g)] = Len(d)
    BY <1>2, <1>3, <1>5
  <2> QED
    BY <1>1, <1>2, <1>3, <1>5, <2>1 DEF HoldsIn, g
<1>6. CASE h # <<>>
  <2>1. HoldsIn(d, h, s, d[Len(d)].start - 1)
    BY <1>6
  <2>2. ASSUME NEW k \in 1 .. Len(g)
        PROVE  g[k] \in DOMAIN d
    <3>1. CASE k \in 1 .. Len(h)
      BY <1>2, <2>1, <3>1 DEF HoldsIn
    <3>2. CASE k \notin 1 .. Len(h)
      <4>1. k = Len(h) + 1
        BY <1>2, <3>2
      <4> QED
        BY <1>1, <1>2, <4>1
    <3> QED
      BY <3>1, <3>2
  <2>3. g[1] = h[1] /\ d[g[1]].start = s /\ g[Len(g)] = Len(d)
    BY <1>2, <1>3, <1>6, <2>1 DEF HoldsIn
  <2>4. ASSUME NEW k \in 2 .. Len(g)
        PROVE  d[g[k]].start = d[g[k - 1]].end + 1
    <3>1. CASE k = Len(g)
      <4>1. g[k] = Len(d) /\ g[k - 1] = h[Len(h)]
        BY <1>2, <1>3, <1>6, <3>1
      <4>2. d[h[Len(h)]].end = d[Len(d)].start - 1
        BY <2>1 DEF HoldsIn
      <4> QED
        BY <1>4, <4>1, <4>2
    <3>2. CASE k # Len(g)
      <4>1. k \in 2 .. Len(h) /\ g[k] = h[k] /\ g[k - 1] = h[k - 1]
        BY <1>2, <2>4, <3>2
      <4> QED
        BY <2>1, <4>1 DEF HoldsIn
    <3> QED
      BY <3>1, <3>2
  <2> QED
    BY <1>2, <1>3, <2>2, <2>3, <2>4 DEF HoldsIn, g
<1> QED
  BY <1>5, <1>6

LEMMA HoldsReached ==
  ASSUME NEW d \in Seq(Blocks), NEW h \in Hashes, NEW s, NEW e,
         HoldsIn(d, h, s, e)
  PROVE  Reached(d, e)
<1>1. Len(h) \in 1 .. Len(h) /\ DOMAIN d = 1 .. Len(d)
  BY NotEmpty, LenProperties DEF HoldsIn, Hashes
<1> QED
  BY <1>1 DEF HoldsIn, Reached

-----------------------------------------------------------------------------
(* What the invariant says of types                                        *)

LEMMA RecordFields ==
  ASSUME NEW t \in Seq(Records)
  PROVE  \A i \in 1 .. Len(t) :
           /\ t[i] \in Records /\ t[i].batchInfo \in Hashes
           /\ t[i].batchIndex \in Nat /\ t[i].start \in Nat /\ t[i].end \in Nat
<1> SUFFICES ASSUME NEW i \in 1 .. Len(t)
             PROVE  /\ t[i] \in Records /\ t[i].batchInfo \in Hashes
                    /\ t[i].batchIndex \in Nat
                    /\ t[i].start \in Nat /\ t[i].end \in Nat
  OBVIOUS
<1>1. t[i] \in Records
  BY ElementOfSeq
<1> QED
  BY <1>1 DEF Records, Hashes

LEMMA Facts ==
  ASSUME IInv
  PROVE  /\ Len(outputs) \in Nat /\ Len(records) \in Nat /\ Len(da) \in Nat
         /\ bulk \in Blocks /\ bulk.start \in Nat /\ bulk.end \in Nat
         /\ batch \in Blocks /\ batch.start \in Nat /\ batch.end \in Nat
         /\ tx \in Blocks /\ tx.start \in Nat /\ tx.end \in Nat
         /\ maxBulkSize \in Nat \ {0} /\ maxBytes \in Nat \ {0}
         /\ records = <<>> <=> Len(records) = 0
<1>1. bulk \in Blocks /\ batch \in Blocks /\ tx \in Blocks
  BY DEF IInv, TypeOK
<1>2. Len(outputs) \in Nat /\ Len(records) \in Nat /\ Len(da) \in Nat
  BY LenProperties DEF IInv, TypeOK
<1>3. records = <<>> <=> Len(records) = 0
  BY NotEmpty DEF IInv, TypeOK
<1> QED
  BY <1>1, <1>2, <1>3, BatchAssumption DEF Blocks

(* The next output starts after the last one recorded.                     *)
LEMMA RecordedFacts ==
  ASSUME IInv
  PROVE  /\ Recorded \in Nat
         /\ Frontier \in Nat
         /\ Reached(da, Recorded)
         /\ Len(records) + 1 <= Len(outputs) =>
              LET o == outputs[Len(records) + 1]
              IN  o.start = Recorded + 1 /\ o.start <= o.end /\ o.end \in Nat
<1>1. \A i \in 1 .. Len(outputs) : outputs[i].start \in Nat /\ outputs[i].end \in Nat
  BY BlockFields DEF IInv, TypeOK
<1>2. Recorded \in Nat /\ Reached(da, Recorded)
  <2>1. CASE records = <<>>
    BY <2>1 DEF Recorded, Reached
  <2>2. CASE records # <<>>
    <3>1. Len(records) \in 1 .. Len(records) /\ Len(records) \in 1 .. Len(outputs)
      BY <2>2, Facts DEF IInv, RecordsOK
    <3>2. records[Len(records)].batchInfo \in Hashes
      BY <3>1, RecordFields DEF IInv, TypeOK
    <3>3. LET r == records[Len(records)] IN
            r.end = Recorded /\ HoldsIn(da, r.batchInfo, r.start, r.end)
      BY <2>2, <3>1 DEF IInv, RecordsOK, Recorded
    <3>4. da \in Seq(Blocks)
      BY DEF IInv, TypeOK
    <3> QED
      BY <1>1, <2>2, <3>1, <3>2, <3>3, <3>4, HoldsReached DEF Recorded
  <2> QED
    BY <2>1, <2>2
<1>3. Frontier \in Nat
  BY <1>2, Facts DEF Frontier
<1>4. ASSUME Len(records) + 1 <= Len(outputs)
      PROVE  LET o == outputs[Len(records) + 1]
             IN  o.start = Recorded + 1 /\ o.start <= o.end /\ o.end \in Nat
  <2>1. Len(records) + 1 \in 1 .. Len(outputs)
    BY <1>4, Facts
  <2> QED
    BY <1>1, <2>1, Facts DEF IInv, OutputsOK, Recorded
<1> QED
  BY <1>2, <1>3, <1>4

LEMMA InitOK == Init => IInv
<1> SUFFICES ASSUME Init PROVE IInv
  OBVIOUS
<1>1. TypeOK
  BY EmptySeq DEF Init, TypeOK, Blocks, Nothing
<1>2. Len(outputs) = 0 /\ Len(records) = 0 /\ Len(da) = 0
  BY EmptySeq DEF Init
<1>3. OutputsOK /\ RecordsOK
  BY <1>2 DEF OutputsOK, RecordsOK
<1>4. WorkOK
  BY DEF Init, WorkOK, Working
<1>5. TxOK
  BY <1>2 DEF Init, TxOK, PublishedInOrder
<1>6. PaidOK
  <2>1. \A s \in Blocks : Paid(s) = 0
    <3> SUFFICES ASSUME NEW s \in Blocks PROVE Paid(s) = 0
      OBVIOUS
    <3>1. {q \in 1 .. Len(da) : da[q] = s} = {}
      BY <1>2
    <3> QED
      BY <3>1, FS_EmptySet DEF Init, Paid, Copies
  <2> QED
    BY <2>1 DEF Init, PaidOK
<1> QED
  BY <1>1, <1>3, <1>4, <1>5, <1>6 DEF IInv

-----------------------------------------------------------------------------
(* Steps that leave the chain and the tables alone                         *)

LEMMA QuietStep ==
  ASSUME IInv, TypeOK', WorkOK',
         UNCHANGED <<outputs, records, chain, call, faults>>,
         Frontier' = Frontier
  PROVE  IInv'
<1>1. OutputsOK' /\ RecordsOK'
  BY DEF IInv, OutputsOK, RecordsOK, chain
<1>2. TxOK'
  BY DEF IInv, TxOK, PublishedInOrder, chain
<1>3. Recorded' = Recorded /\ \A s \in Blocks : Paid(s)' = Paid(s)
  BY DEF Recorded, Paid, chain
<1>4. PaidOK'
  BY <1>3 DEF IInv, PaidOK, chain
<1> QED
  BY <1>1, <1>2, <1>4 DEF IInv

LEMMA StutterStep ==
  ASSUME IInv, UNCHANGED vars
  PROVE  IInv'
<1>1. TypeOK'
  BY DEF IInv, TypeOK, vars
<1>2. Frontier' = Frontier
  BY DEF Frontier, Recorded, vars
<1>3. WorkOK'
  BY <1>2 DEF IInv, WorkOK, Working, OutputOK, SavedOK, BatchOK, BulkFrom,
              Empty, SubData, vars
<1> QED
  BY <1>1, <1>2, <1>3, QuietStep DEF vars, chain

LEMMA StartStep ==
  ASSUME IInv, Start
  PROVE  IInv'
<1> USE DEF Start, work, chain
<1>1. TypeOK'
  BY DEF IInv, TypeOK
<1>2. Frontier' = Frontier
  BY DEF Frontier, Recorded
<1>3. WorkOK'
  BY DEF IInv, WorkOK, Working
<1> QED
  BY <1>1, <1>2, <1>3, QuietStep

LEMMA MinFact ==
  ASSUME NEW a \in Int, NEW b \in Int
  PROVE  /\ MinOf(a, b) \in Int /\ MinOf(a, b) <= a /\ MinOf(a, b) <= b
         /\ MinOf(a, b) = a \/ MinOf(a, b) = b
  BY DEF MinOf

(* A bulk cut from the blocks first .. last.                               *)
LEMMA BulkFacts ==
  ASSUME NEW first \in Nat, NEW last \in Nat, first <= last
  PROVE  /\ BulkFrom(first, last) \in Blocks
         /\ BulkFrom(first, last).start = first
         /\ first <= BulkFrom(first, last).end
         /\ BulkFrom(first, last).end <= last
         /\ first + maxBulkSize <= last =>
              BulkFrom(first, last).end + 1 = first + maxBulkSize
         /\ ~(first + maxBulkSize <= last) => BulkFrom(first, last).end = last
  BY BatchAssumption DEF BulkFrom, MinOf, Blocks

LEMMA BulkEnd ==
  ASSUME NEW first \in Nat, NEW last \in Nat, NEW end \in Nat, first <= end,
         end = BulkFrom(first, last).end
  PROVE  /\ end <= last
         /\ first + maxBulkSize <= last => end + 1 = first + maxBulkSize
         /\ ~(first + maxBulkSize <= last) => end = last
<1>1. end = MinOf(first + maxBulkSize - 1, last)
  BY DEF BulkFrom
<1> QED
  BY <1>1, BatchAssumption DEF MinOf

LEMMA NextIndex ==
  ASSUME IInv, pc = "read"
  PROVE  NextBatchIndex = Len(records) + 1
<1>1. CASE records = <<>>
  BY <1>1, Facts DEF NextBatchIndex
<1>2. CASE records # <<>>
  <2>1. Len(records) \in 1 .. Len(records)
    BY <1>2, Facts
  <2> QED
    BY <1>2, <2>1 DEF IInv, RecordsOK, NextBatchIndex
<1> QED
  BY <1>1, <1>2

LEMMA ReadOutputStep ==
  ASSUME IInv, ReadOutput
  PROVE  IInv'
<1> DEFINE n == Len(records) + 1
           o == outputs[n]
<1>1. /\ batchIndex' = n /\ n \in 1 .. Len(outputs) /\ n \in Nat
      /\ bulk' = BulkFrom(o.start, o.end)
      /\ pc = "read" /\ pc' = "fetch"
      /\ UNCHANGED <<outputs, records, myRecords, chain, call, batch, batchInfo,
                     faults>>
  BY SMTT(20), NextIndex, Facts, LenProperties DEF ReadOutput, IInv, TypeOK
<1>2. o.start = Recorded + 1 /\ o.start <= o.end /\ o.end \in Nat /\ Recorded \in Nat
      /\ Reached(da, Recorded)
  BY <1>1, RecordedFacts, Facts
<1> HIDE DEF n, o
<1>3. /\ bulk' \in Blocks /\ bulk'.start = o.start /\ bulk'.start <= bulk'.end
  BY <1>1, <1>2, BulkFacts
<1>4. TypeOK'
  BY <1>1, <1>3 DEF IInv, TypeOK, chain
<1>5. Frontier' = Frontier /\ Frontier' = o.start
  BY <1>1, <1>2, <1>3 DEF Frontier
<1>6. outputs'[batchIndex'] = o
  BY <1>1 DEF o
<1>7. myRecords' = records'
  BY <1>1 DEF IInv, WorkOK, Working
<1>8. Len(records)' + 1 = n /\ call' = "idle"
  BY <1>1 DEF n, IInv, WorkOK, TypeOK
<1>9. Available(da, o.start, o.start - 1)
  BY <1>2 DEF Available
<1>10. OutputOK'
  <2>1. Reached(da, Frontier - 1)' /\ Available(da, outputs[batchIndex].start, Frontier - 1)'
    BY <1>1, <1>2, <1>5, <1>6, <1>9 DEF chain
  <2>2. SavedOK'
    BY <1>1, <1>7 DEF SavedOK
  <2>3. (batchIndex = Len(records) + 1 /\ batchIndex <= Len(outputs))'
    BY <1>1, <1>8, Facts
  <2>4. (outputs[batchIndex].start <= bulk.start /\ bulk.start <= bulk.end)'
    BY <1>2, <1>3, <1>6
  <2>5. (bulk.end = BulkFrom(bulk.start, outputs[batchIndex].end).end)'
    BY <1>1, <1>3, <1>6
  <2> QED
    BY <2>1, <2>2, <2>3, <2>4, <2>5 DEF OutputOK
<1>11. WorkOK'
  BY <1>1, <1>8, <1>10 DEF WorkOK, Working
<1> QED
  BY <1>1, <1>4, <1>5, <1>11, QuietStep

LEMMA GetBatchStep ==
  ASSUME IInv, GetBatch
  PROVE  IInv'
<1> USE DEF GetBatch, chain
<1>1. TypeOK'
  BY EmptySeq DEF IInv, TypeOK
<1>2. Frontier' = Frontier
  BY DEF Frontier
<1>3. OutputOK'
  BY <1>2 DEF IInv, WorkOK, Working, OutputOK, SavedOK, BulkFrom
<1>4. BatchOK' /\ call' = "idle"
  BY SMTT(20), Facts DEF IInv, TypeOK, WorkOK, Working, OutputOK, BatchOK
<1>5. WorkOK'
  BY <1>3, <1>4 DEF WorkOK, Working
<1> QED
  BY <1>1, <1>2, <1>5, QuietStep

LEMMA PublishDoneStep ==
  ASSUME IInv, PublishDone
  PROVE  IInv'
<1> USE DEF PublishDone, chain, work
<1>1. TypeOK'
  BY DEF IInv, TypeOK
<1>2. OutputOK /\ BatchOK /\ batch.start = bulk.end + 1
  BY Facts DEF IInv, WorkOK, Working, BatchOK, Empty
<1>3. Frontier' = Frontier
  BY <1>2, Facts DEF Frontier
<1>4. OutputOK'
  BY <1>2, <1>3 DEF OutputOK, SavedOK, BulkFrom
<1>5. batchInfo # <<>>
  BY <1>2, Facts DEF OutputOK, BatchOK
<1>6. HoldsIn(da, batchInfo, bulk.start, bulk.end)
  BY <1>2, <1>5, Facts DEF BatchOK
<1>7. WorkOK'
  BY <1>4, <1>6 DEF WorkOK, Working
<1> QED
  BY <1>1, <1>3, <1>7, QuietStep

(* The bulks of an output share one record.                                *)
LEMMA SaveIsAppend ==
  ASSUME IInv, pc = "save", NEW r \in Records, r.batchIndex = batchIndex
  PROVE  SaveRecord(myRecords, r) = Append(records, r)
<1>1. SavedOK /\ batchIndex = Len(records) + 1
  BY DEF IInv, WorkOK, Working, OutputOK
<1>2. records \in Seq(Records) /\ Len(records) \in Nat
  BY Facts DEF IInv, TypeOK
<1>3. CASE myRecords = records
  <2>1. r.batchIndex \notin DOMAIN myRecords
    BY <1>1, <1>2, <1>3, LenProperties
  <2> QED
    BY <1>3, <2>1 DEF SaveRecord
<1>4. ASSUME NEW q \in Records, myRecords = Append(records, q)
      PROVE  SaveRecord(myRecords, r) = Append(records, r)
  <2> DEFINE n == Len(records) + 1
             s == [myRecords EXCEPT ![n] = r]
             t == Append(records, r)
  <2>1. /\ myRecords \in Seq(Records) /\ Len(myRecords) = n
        /\ \A i \in 1 .. Len(records) : myRecords[i] = records[i]
        /\ DOMAIN myRecords = 1 .. n /\ n \in 1 .. n
    BY <1>2, <1>4, Appended
  <2>2. /\ t \in Seq(Records) /\ Len(t) = n
        /\ \A i \in 1 .. Len(records) : t[i] = records[i]
        /\ t[n] = r
    BY <1>2, Appended
  <2>3. /\ s \in Seq(Records) /\ Len(s) = n
        /\ \A i \in 1 .. n : s[i] = IF i = n THEN r ELSE myRecords[i]
    BY <2>1, ExceptSeq
  <2> HIDE DEF s, t
  <2>4. \A i \in 1 .. n : s[i] = t[i]
    BY <1>2, <2>1, <2>2, <2>3
  <2>5. s = t
    BY <2>2, <2>3, <2>4, SeqEqual
  <2>6. SaveRecord(myRecords, r) = s
    BY <1>1, <2>1 DEF SaveRecord, s
  <2> QED
    BY <2>5, <2>6 DEF t
<1> QED
  BY <1>1, <1>3, <1>4 DEF SavedOK

LEMMA SaveStep ==
  ASSUME IInv, Save
  PROVE  IInv'
<1> DEFINE r == [batchIndex |-> batchIndex, start |-> bulk.start,
                 end |-> bulk.end, batchInfo |-> batchInfo]
           end == outputs[batchIndex].end
           next == bulk.start + maxBulkSize
<1>1. /\ pc = "save" /\ myRecords' = SaveRecord(myRecords, r)
      /\ UNCHANGED <<outputs, records, chain, call, batchIndex, batch, batchInfo,
                     faults>>
      /\ \/ next <= end /\ pc' = "fetch" /\ bulk' = BulkFrom(next, end)
         \/ ~(next <= end) /\ pc' = "commit" /\ bulk' = bulk
  BY DEF Save, SaveToDB
<1>2. r \in Records /\ r.batchIndex = batchIndex
  BY <1>1, Facts DEF IInv, TypeOK, Records
<1>3. myRecords' = Append(records, r) /\ myRecords' \in Seq(Records)
  <2>1. myRecords' = Append(records, r)
    BY <1>1, <1>2, SaveIsAppend
  <2> QED
    BY <1>2, <2>1, Appended DEF IInv, TypeOK
<1>4. /\ OutputOK /\ HoldsIn(da, batchInfo, bulk.start, bulk.end)
      /\ call = "idle"
  BY <1>1 DEF IInv, WorkOK, Working, TypeOK
<1>5. /\ batchIndex = Len(records) + 1 /\ batchIndex <= Len(outputs)
      /\ outputs[batchIndex].start <= bulk.start /\ bulk.start <= bulk.end
      /\ bulk.end = BulkFrom(bulk.start, end).end /\ end \in Nat
      /\ outputs[batchIndex].start \in Nat
  BY <1>4, RecordedFacts DEF OutputOK
<1> HIDE DEF end
<1>6. bulk.start <= end
  BY <1>5, BulkEnd, Facts
<1>7. /\ next <= end => bulk.end + 1 = next
      /\ ~(next <= end) => bulk.end = end
  BY SMTT(20), <1>5, BulkEnd, Facts
<1>8. next \in Nat
  BY Facts
<1> HIDE DEF next
<1>9. bulk' \in Blocks
  BY <1>1, <1>5, <1>8, BulkFacts, Facts
<1>10. TypeOK'
  BY <1>1, <1>3, <1>9 DEF IInv, TypeOK, chain
<1>11. Frontier' = Frontier
  <2>1. CASE next <= end
    <3>1. bulk'.start = next /\ pc' = "fetch"
      BY <1>1, <1>5, <1>8, <2>1, BulkFacts
    <3> QED
      BY <1>1, <1>7, <2>1, <3>1 DEF Frontier
  <2>2. CASE ~(next <= end)
    BY <1>1, <2>2 DEF Frontier
  <2> QED
    BY <2>1, <2>2
<1>12. OutputOK'
  <2>1. SavedOK'
    <3>1. pc' = "commit" =>
            /\ r.batchIndex = batchIndex'
            /\ r.end = outputs'[batchIndex'].end
            /\ HoldsIn(da', r.batchInfo, r.start, r.end)
      BY <1>1, <1>4, <1>7 DEF end, chain
    <3> QED
      BY <1>1, <1>2, <1>3, <3>1 DEF SavedOK
  <2>2. (bulk.end = BulkFrom(bulk.start, outputs[batchIndex].end).end)'
    <3>1. CASE next <= end
      BY <1>1, <1>5, <1>8, <3>1, BulkFacts DEF end
    <3>2. CASE ~(next <= end)
      BY <1>1, <1>5, <3>2 DEF end
    <3> QED
      BY <3>1, <3>2
  <2>3. bulk'.start <= bulk'.end /\ outputs[batchIndex].start <= bulk'.start
    <3>1. CASE next <= end
      <4>1. bulk'.start = next /\ next <= bulk'.end
        BY <1>1, <1>5, <1>8, <3>1, BulkFacts
      <4>2. bulk.start <= next
        BY Facts DEF next
      <4> QED
        BY SMTT(20), <1>5, <1>8, <4>1, <4>2, Facts
    <3>2. CASE ~(next <= end)
      BY <1>1, <1>5, <3>2
    <3> QED
      BY <3>1, <3>2
  <2>4. (batchIndex = Len(records) + 1 /\ batchIndex <= Len(outputs))'
    BY <1>1, <1>5
  <2>5. (Reached(da, Frontier - 1)
           /\ Available(da, outputs[batchIndex].start, Frontier - 1))'
    BY <1>1, <1>4, <1>11 DEF OutputOK, chain
  <2> QED
    BY <1>1, <2>1, <2>2, <2>3, <2>4, <2>5 DEF OutputOK
<1>13. WorkOK'
  BY <1>1, <1>4, <1>7, <1>12 DEF WorkOK, Working, end
<1> QED
  BY <1>1, <1>10, <1>11, <1>13, QuietStep

-----------------------------------------------------------------------------
(* Steps of the tables                                                     *)

LEMMA NewOutputStep ==
  ASSUME IInv, NewOutput
  PROVE  IInv'
<1> DEFINE last == IF outputs = <<>> THEN 0 ELSE outputs[Len(outputs)].end
<1>1. PICK n \in 1 .. MaxOutputSize :
        outputs' = Append(outputs, [start |-> last + 1, end |-> last + n])
  BY DEF NewOutput
<1>2. UNCHANGED <<records, myRecords, chain, pc, call, work, faults>>
  BY DEF NewOutput
<1>3. n \in Nat /\ n > 0
  BY BatchAssumption
<1>4. outputs \in Seq(Blocks) /\ Len(outputs) \in Nat
      /\ (outputs = <<>> <=> Len(outputs) = 0)
  BY NotEmpty DEF IInv, TypeOK
<1>5. last \in Nat /\ (outputs # <<>> => last = outputs[Len(outputs)].end)
  BY <1>4, BlockFields
<1> HIDE DEF last
<1>6. /\ outputs' \in Seq(Blocks) /\ Len(outputs') = Len(outputs) + 1
      /\ \A i \in 1 .. Len(outputs) : outputs'[i] = outputs[i]
      /\ outputs'[Len(outputs) + 1] = [start |-> last + 1, end |-> last + n]
  <2>1. [start |-> last + 1, end |-> last + n] \in Blocks
    BY <1>3, <1>5 DEF Blocks
  <2> QED
    BY <1>1, <1>4, <2>1, Appended
<1>7. TypeOK'
  BY <1>2, <1>6 DEF IInv, TypeOK, chain, work
<1>8. OutputsOK'
  <2> SUFFICES ASSUME NEW i \in 1 .. Len(outputs')
               PROVE  /\ outputs'[i].start
                           = (IF i = 1 THEN 1 ELSE outputs'[i - 1].end + 1)
                      /\ outputs'[i].start <= outputs'[i].end
    BY DEF OutputsOK
  <2>1. CASE i \in 1 .. Len(outputs)
    <3>1. outputs'[i] = outputs[i] /\ (i # 1 => outputs'[i - 1] = outputs[i - 1])
      BY <1>4, <1>6, <2>1
    <3> QED
      BY <2>1, <3>1 DEF IInv, OutputsOK
  <2>2. CASE i \notin 1 .. Len(outputs)
    <3>1. i = Len(outputs) + 1
      BY <1>4, <1>6, <2>2
    <3>2. i = 1 => last = 0
      BY <1>4, <3>1 DEF last
    <3>3. i # 1 => outputs'[i - 1].end = last
      BY <1>4, <1>5, <1>6, <3>1
    <3> QED
      BY <1>3, <1>5, <1>6, <3>1, <3>2, <3>3
  <2> QED
    BY <2>1, <2>2
<1>9. Len(records) <= Len(outputs)
  BY DEF IInv, RecordsOK
<1>10. RecordsOK'
  BY SMTT(20), <1>2, <1>4, <1>6, <1>9, Facts DEF IInv, RecordsOK, chain
<1>11. Recorded' = Recorded
  BY <1>2, <1>4, <1>6, <1>9, Facts DEF Recorded
<1>12. Frontier' = Frontier
  BY <1>2, <1>11 DEF Frontier, work
<1>13. WorkOK'
  <2>1. CASE Working
    <3>1. OutputOK /\ batchIndex \in 1 .. Len(outputs)
      BY <2>1, Facts DEF IInv, WorkOK, OutputOK
    <3>2. outputs'[batchIndex'] = outputs[batchIndex]
      BY <1>2, <1>6, <3>1 DEF work
    <3>3. SavedOK'
      BY <1>2, <3>1, <3>2 DEF OutputOK, SavedOK, chain, work
    <3>4. OutputOK'
      BY <1>2, <1>4, <1>6, <1>12, <3>1, <3>2, <3>3 DEF OutputOK, chain, work, BulkFrom
    <3>5. BatchOK => BatchOK'
      BY <1>2 DEF BatchOK, chain, work
    <3>6. SubData' = SubData /\ Empty(batch)' = Empty(batch)
      BY <1>2 DEF SubData, Empty, work
    <3> QED
      BY <1>2, <2>1, <3>2, <3>4, <3>5, <3>6 DEF IInv, WorkOK, Working, chain, work
  <2>2. CASE ~Working
    BY <1>2, <2>2 DEF IInv, WorkOK, Working
  <2> QED
    BY <2>1, <2>2
<1>14. TxOK'
  BY <1>2 DEF IInv, TxOK, PublishedInOrder, chain
<1>15. \A s \in Blocks : Paid(s)' = Paid(s)
  BY <1>2 DEF Paid, chain
<1>16. PaidOK'
  BY <1>2, <1>11, <1>12, <1>15 DEF IInv, PaidOK, chain
<1> QED
  BY <1>7, <1>8, <1>10, <1>13, <1>14, <1>16 DEF IInv

LEMMA CommitStep ==
  ASSUME IInv, Commit
  PROVE  IInv'
<1>1. /\ pc = "commit" /\ pc' = "read" /\ records' = myRecords
      /\ UNCHANGED <<outputs, myRecords, chain, call, work, faults>>
  BY DEF Commit
<1>2. OutputOK /\ bulk.end = outputs[batchIndex].end /\ call = "idle"
  BY <1>1 DEF IInv, WorkOK, Working, TypeOK
<1>3. PICK r \in Records :
        /\ records' = Append(records, r)
        /\ r.batchIndex = batchIndex
        /\ r.end = outputs[batchIndex].end
        /\ HoldsIn(da, r.batchInfo, r.start, r.end)
  BY <1>1, <1>2 DEF OutputOK, SavedOK
<1>4. batchIndex = Len(records) + 1 /\ batchIndex <= Len(outputs)
      /\ Len(records) \in Nat
  BY <1>2, Facts DEF OutputOK
<1>5. /\ Len(records') = batchIndex /\ records'[batchIndex] = r
      /\ \A i \in 1 .. Len(records) : records'[i] = records[i]
      /\ records' \in Seq(Records)
  BY <1>3, <1>4, Appended DEF IInv, TypeOK
<1>6. TypeOK'
  BY <1>1, <1>5 DEF IInv, TypeOK, chain, work
<1>7. Available(da, outputs[batchIndex].start, outputs[batchIndex].end)
  <2>1. Frontier - 1 = outputs[batchIndex].end
    BY <1>1, <1>2, Facts DEF Frontier
  <2> QED
    BY <1>2, <2>1 DEF OutputOK
<1>8. RecordsOK'
  <2>1. ASSUME NEW i \in 1 .. Len(records')
        PROVE  /\ records'[i].batchIndex = i
               /\ records'[i].end = outputs[i].end
               /\ HoldsIn(da, records'[i].batchInfo, records'[i].start, records'[i].end)
               /\ Available(da, outputs[i].start, outputs[i].end)
    <3>1. CASE i \in 1 .. Len(records)
      BY <1>5, <3>1 DEF IInv, RecordsOK
    <3>2. CASE i \notin 1 .. Len(records)
      <4>1. i = batchIndex
        BY <1>4, <1>5, <3>2
      <4> QED
        BY <1>3, <1>5, <1>7, <4>1
    <3> QED
      BY <3>1, <3>2
  <2> QED
    BY <1>1, <1>4, <1>5, <2>1 DEF RecordsOK, chain
<1>9. OutputsOK' /\ TxOK'
  BY <1>1 DEF IInv, OutputsOK, TxOK, PublishedInOrder, chain
<1>10. WorkOK'
  BY <1>1, <1>2 DEF WorkOK, Working
<1>11. Recorded' = outputs[batchIndex].end
  <2>1. records' # <<>>
    BY <1>4, <1>5, NotEmpty
  <2> QED
    BY <1>1, <1>5, <2>1 DEF Recorded
<1>12. Frontier' = Frontier /\ Frontier' = Recorded' + 1
  BY <1>1, <1>2, <1>11 DEF Frontier
<1>13. \A s \in Blocks : Paid(s)' = Paid(s)
  BY <1>1 DEF Paid, chain
<1>14. PaidOK'
  BY <1>1, <1>12, <1>13 DEF IInv, PaidOK, chain
<1> QED
  BY <1>6, <1>8, <1>9, <1>10, <1>14 DEF IInv

-----------------------------------------------------------------------------
(* Steps of the chain                                                      *)

LEMMA HashTypes ==
  ASSUME IInv
  PROVE  da \in Seq(Blocks) /\ batchInfo \in Hashes
  BY DEF IInv, TypeOK, Hashes

LEMMA DeliverStep ==
  ASSUME IInv, Deliver
  PROVE  IInv'
<1>1. /\ txStatus = "pending" /\ txStatus' = "ok" /\ da' = Append(da, tx)
      /\ UNCHANGED <<outputs, records, myRecords, tx, pc, call, work, faults>>
  BY DEF Deliver
<1>2. tx \in Blocks /\ da \in Seq(Blocks)
  BY Facts DEF IInv, TypeOK
<1>3. /\ da' \in Seq(Blocks) /\ Len(da) \in Nat /\ Len(da') = Len(da) + 1
      /\ \A p \in 1 .. Len(da) : da'[p] = da[p]
      /\ da'[Len(da) + 1] = tx
  BY <1>1, <1>2, Appended
<1>4. /\ \A h \in Hashes, s, e \in Nat :
            HoldsIn(da, h, s, e) => HoldsIn(da', h, s, e)
      /\ \A n \in Int : Reached(da, n) => Reached(da', n)
      /\ \A m, n \in Int : Available(da, m, n) => Available(da', m, n)
  BY <1>1, <1>2, Later
<1>5. TypeOK'
  BY <1>1, <1>3 DEF IInv, TypeOK, work
<1>6. OutputsOK'
  BY <1>1 DEF IInv, OutputsOK
<1>7. RecordsOK'
  <2>1. ASSUME NEW i \in 1 .. Len(records)
        PROVE  /\ records[i].batchIndex = i
               /\ records[i].end = outputs[i].end
               /\ HoldsIn(da', records[i].batchInfo, records[i].start, records[i].end)
               /\ Available(da', outputs[i].start, outputs[i].end)
    <3>1. /\ records[i].batchInfo \in Hashes
          /\ records[i].start \in Nat /\ records[i].end \in Nat
      BY RecordFields DEF IInv, TypeOK
    <3>2. i \in 1 .. Len(outputs)
      BY Facts DEF IInv, RecordsOK
    <3>3. outputs[i].start \in Int /\ outputs[i].end \in Int
      BY <3>2, BlockFields DEF IInv, TypeOK
    <3> QED
      BY <1>4, <3>1, <3>3 DEF IInv, RecordsOK
  <2> QED
    BY <1>1, <2>1 DEF IInv, RecordsOK
<1>8. Frontier' = Frontier /\ Recorded' = Recorded
  BY <1>1 DEF Frontier, Recorded, work
<1>9. OutputOK => OutputOK'
  <2> SUFFICES ASSUME OutputOK PROVE OutputOK'
    OBVIOUS
  <2>1. /\ batchIndex = Len(records) + 1 /\ batchIndex <= Len(outputs)
        /\ Reached(da, Frontier - 1)
        /\ Available(da, outputs[batchIndex].start, Frontier - 1)
        /\ SavedOK
    BY DEF OutputOK
  <2>2. Frontier \in Nat /\ outputs[batchIndex].start \in Nat
    BY <2>1, RecordedFacts
  <2>3. Reached(da', Frontier - 1) /\ Available(da', outputs[batchIndex].start, Frontier - 1)
    BY <1>4, <2>1, <2>2
  <2>4. SavedOK'
    <3>1. CASE myRecords = records /\ pc # "commit"
      BY <1>1, <3>1 DEF SavedOK
    <3>2. ASSUME NEW r \in Records,
                 myRecords = Append(records, r),
                 pc = "commit" =>
                   /\ r.batchIndex = batchIndex
                   /\ r.end = outputs[batchIndex].end
                   /\ HoldsIn(da, r.batchInfo, r.start, r.end)
          PROVE  SavedOK'
      <4>1. r.batchInfo \in Hashes /\ r.start \in Nat /\ r.end \in Nat
        BY DEF Records, Hashes
      <4>2. HoldsIn(da, r.batchInfo, r.start, r.end)
              => HoldsIn(da', r.batchInfo, r.start, r.end)
        BY <1>4, <4>1
      <4> QED
        BY <1>1, <3>2, <4>2 DEF SavedOK, work
    <3> QED
      BY <2>1, <3>1, <3>2 DEF SavedOK
  <2> QED
    BY <1>1, <1>8, <2>3, <2>4 DEF OutputOK, BulkFrom, work
<1>10. BatchOK => BatchOK'
  <2> SUFFICES ASSUME BatchOK, batchInfo # <<>>
               PROVE  HoldsIn(da', batchInfo, bulk.start, batch.start - 1)
    BY <1>1 DEF BatchOK, work
  <2>1. HoldsIn(da, batchInfo, bulk.start, batch.start - 1)
    BY DEF BatchOK
  <2>2. batch.start - 1 \in Nat
    <3>1. Len(batchInfo) \in 1 .. Len(batchInfo)
      BY HashTypes, NotEmpty DEF Hashes
    <3>2. batchInfo[Len(batchInfo)] \in 1 .. Len(da)
      BY <1>2, <2>1, <3>1, LenProperties DEF HoldsIn
    <3>3. da[batchInfo[Len(batchInfo)]].end \in Nat
      BY <1>2, <3>2, BlockFields
    <3> QED
      BY <2>1, <3>3 DEF HoldsIn
  <2> QED
    BY <1>4, <2>1, <2>2, HashTypes, Facts
<1>11. HoldsIn(da, batchInfo, bulk.start, bulk.end)
         => HoldsIn(da', batchInfo, bulk.start, bulk.end)
  BY <1>4, HashTypes, Facts
<1>12. SubData' = SubData /\ Empty(batch)' = Empty(batch)
  BY <1>1 DEF SubData, Empty, work
<1>13. WorkOK'
  BY <1>1, <1>9, <1>10, <1>11, <1>12 DEF IInv, WorkOK, Working, work
<1>14. TxOK'
  <2>1. ASSUME NEW p \in 1 .. Len(da'), da'[p].start > 1
        PROVE  \E q \in 1 .. p - 1 : da'[q].end = da'[p].start - 1
    <3>1. CASE p \in 1 .. Len(da)
      <4>1. PICK q \in 1 .. p - 1 : da[q].end = da[p].start - 1
        BY <1>3, <2>1, <3>1 DEF IInv, TxOK, PublishedInOrder
      <4> QED
        BY <1>3, <3>1, <4>1
    <3>2. CASE p \notin 1 .. Len(da)
      <4>1. p = Len(da) + 1 /\ da'[p] = tx
        BY <1>3, <3>2
      <4>2. PICK q \in 1 .. Len(da) : da[q].end = tx.start - 1
        BY <1>1, <2>1, <4>1, Facts DEF IInv, TxOK, Reached
      <4> QED
        BY <1>3, <4>1, <4>2
    <3> QED
      BY <3>1, <3>2
  <2>2. da' # <<>> /\ da'[Len(da')] = tx'
    BY <1>1, <1>3, NotEmpty
  <2> QED
    BY <1>1, <2>1, <2>2 DEF TxOK, PublishedInOrder
<1>15. ASSUME NEW s \in Blocks
       PROVE  Paid(s)' = Paid(s)
  <2>1. Copies(da', s) = Copies(da, s) + (IF tx = s THEN 1 ELSE 0)
    BY <1>1, <1>2, CopiesLater
  <2>2. Copies(da, s) \in Nat
    BY <1>2, CopiesFinite
  <2> QED
    BY <1>1, <2>1, <2>2 DEF Paid
<1>16. PaidOK'
  BY <1>1, <1>8, <1>15 DEF IInv, PaidOK
<1> QED
  BY <1>5, <1>6, <1>7, <1>13, <1>14, <1>16 DEF IInv

LEMMA PaidType ==
  ASSUME IInv, NEW s
  PROVE  Paid(s) \in Nat /\ Copies(da, s) \in Nat /\ Copies(da, s) <= Paid(s)
<1>1. Copies(da, s) \in Nat
  BY HashTypes, CopiesFinite
<1> QED
  BY <1>1 DEF Paid

LEMMA DropStep ==
  ASSUME IInv, Drop
  PROVE  IInv'
<1>1. /\ txStatus = "pending" /\ txStatus' = "none"
      /\ faults' = faults + 1 /\ faults \in Nat
      /\ UNCHANGED <<outputs, records, myRecords, da, tx, pc, call, work>>
  BY DEF Drop, Fault, IInv, TypeOK
<1>2. TypeOK'
  BY <1>1 DEF IInv, TypeOK, work
<1>3. OutputsOK' /\ RecordsOK'
  BY <1>1 DEF IInv, OutputsOK, RecordsOK
<1>4. Frontier' = Frontier /\ Recorded' = Recorded
  BY <1>1 DEF Frontier, Recorded, work
<1>5. WorkOK'
  <2>1. (OutputOK => OutputOK') /\ (BatchOK => BatchOK')
    BY <1>1, <1>4 DEF OutputOK, SavedOK, BatchOK, BulkFrom, work
  <2>2. SubData' = SubData /\ Empty(batch)' = Empty(batch)
    BY <1>1 DEF SubData, Empty, work
  <2> QED
    BY <1>1, <2>1, <2>2 DEF IInv, WorkOK, Working, work
<1>6. TxOK'
  BY <1>1 DEF IInv, TxOK, PublishedInOrder
<1>7. ASSUME NEW s \in Blocks
      PROVE  Paid(s)' <= faults' /\ Paid(s)' \in Nat
  <2>1. Paid(s)' = Copies(da, s)
    BY <1>1, PaidType DEF Paid
  <2>2. Paid(s) <= 1 + faults
    BY DEF IInv, PaidOK
  <2> QED
    BY <1>1, <2>1, <2>2, PaidType
<1>8. PaidOK'
  BY <1>1, <1>7 DEF PaidOK
<1> QED
  BY <1>2, <1>3, <1>5, <1>6, <1>8 DEF IInv

LEMMA DieStep ==
  ASSUME IInv, Crash \/ PublishThrow
  PROVE  IInv'
<1>1. /\ pc' = "down" /\ call' = "idle" /\ myRecords' = records
      /\ batchIndex' = 0 /\ bulk' = Nothing /\ batch' = Nothing /\ batchInfo' = <<>>
      /\ UNCHANGED <<outputs, records, da, tx, txStatus>>
      /\ faults' \in Nat /\ faults \in Nat
  BY DEF Crash, PublishThrow, Fault, Die, chain, IInv, TypeOK
<1>2. TypeOK'
  BY <1>1, EmptySeq DEF IInv, TypeOK, Blocks, Nothing
<1>3. OutputsOK' /\ RecordsOK' /\ TxOK'
  BY <1>1 DEF IInv, OutputsOK, RecordsOK, TxOK, PublishedInOrder
<1>4. WorkOK'
  BY <1>1 DEF WorkOK, Working
<1>5. Recorded' = Recorded /\ Frontier' = Recorded + 1
  BY <1>1 DEF Recorded, Frontier
<1>6. \A s \in Blocks : Paid(s)' = Paid(s) /\ Paid(s) \in Nat
  BY <1>1, PaidType DEF Paid
<1>7. \A s \in Blocks : Paid(s) <= 1 + faults' /\ (s.start >= Recorded + 1 => Paid(s) <= faults')
  <2>1. CASE Crash
    <3>1. faults' = faults + 1
      BY <2>1 DEF Crash, Fault
    <3>2. \A s \in Blocks : Paid(s) <= 1 + faults
      BY DEF IInv, PaidOK
    <3> QED
      BY <1>1, <1>6, <3>1, <3>2
  <2>2. CASE faults' = faults /\ call = "idle" /\ txStatus = "pending"
    BY <2>2 DEF IInv, PaidOK
  <2>3. CASE faults' = faults /\ call = "sent" /\ txStatus = "none"
    BY <2>3 DEF IInv, PaidOK
  <2> QED
    BY <2>1, <2>2, <2>3 DEF PublishThrow
<1>8. PaidOK'
  BY <1>1, <1>5, <1>6, <1>7 DEF PaidOK
<1> QED
  BY <1>2, <1>3, <1>4, <1>8 DEF IInv

-----------------------------------------------------------------------------
(* Steps of publishBatch                                                   *)

LEMMA SubDataFacts ==
  ASSUME IInv, ~Empty(batch)
  PROVE  /\ SubData \in Blocks /\ SubData.start = batch.start
         /\ batch.start <= SubData.end /\ SubData.end <= batch.end
  BY Facts DEF SubData, MinOf, Empty, Blocks

LEMMA PublishStep ==
  ASSUME IInv, Publish
  PROVE  IInv'
<1>1. /\ pc = "publish" /\ call = "idle" /\ ~Empty(batch) /\ txStatus # "pending"
      /\ call' = "sent" /\ tx' = SubData /\ txStatus' = "pending"
      /\ UNCHANGED <<outputs, records, myRecords, da, pc, batchIndex, bulk, batch,
                     batchInfo, faults>>
  BY DEF Publish, work
<1>2. tx' \in Blocks /\ tx'.start = batch.start
  BY <1>1, SubDataFacts
<1>3. TypeOK'
  BY <1>1, <1>2 DEF IInv, TypeOK
<1>4. OutputsOK' /\ RecordsOK'
  BY <1>1 DEF IInv, OutputsOK, RecordsOK
<1>5. Frontier' = Frontier /\ Recorded' = Recorded /\ Frontier = batch.start
  BY <1>1 DEF Frontier, Recorded
<1>6. OutputOK /\ BatchOK
  BY <1>1 DEF IInv, WorkOK, Working
<1>7. OutputOK' /\ BatchOK'
  BY <1>1, <1>5, <1>6 DEF OutputOK, SavedOK, BatchOK, BulkFrom
<1>8. SubData' = SubData /\ Empty(batch)' = Empty(batch)
  BY <1>1 DEF SubData, Empty
<1>9. WorkOK'
  BY <1>1, <1>7, <1>8 DEF WorkOK, Working
<1>10. Reached(da, tx'.start - 1)
  BY <1>2, <1>5, <1>6 DEF OutputOK
<1>11. TxOK'
  BY <1>1, <1>10 DEF IInv, TxOK, PublishedInOrder
<1>12. ASSUME NEW s \in Blocks
       PROVE  /\ Paid(s)' <= 1 + faults
              /\ s # tx' => Paid(s)' = Paid(s)
  <2>1. CASE s = tx'
    <3>1. Paid(s)' = Copies(da, s) + 1 /\ Paid(s) = Copies(da, s)
      BY <1>1, <2>1, PaidType DEF Paid
    <3>2. Paid(s) <= faults
      BY <1>1, <1>2, <1>5, <2>1, Facts DEF IInv, PaidOK
    <3> QED
      BY <2>1, <3>1, <3>2, PaidType DEF IInv, TypeOK
  <2>2. CASE s # tx'
    <3>1. Paid(s)' = Paid(s)
      BY <1>1, <2>2, PaidType DEF Paid
    <3> QED
      BY <2>2, <3>1 DEF IInv, PaidOK
  <2> QED
    BY <2>1, <2>2
<1>13. PaidOK'
  BY <1>1, <1>5, <1>12 DEF IInv, PaidOK
<1> QED
  BY <1>3, <1>4, <1>9, <1>11, <1>13 DEF IInv

LEMMA PublishedStep ==
  ASSUME IInv, Published
  PROVE  IInv'
<1>1. /\ pc = "publish" /\ call = "sent" /\ txStatus = "ok"
      /\ call' = "idle" /\ batchInfo' = Append(batchInfo, Len(da))
      /\ batch' = Rest
      /\ UNCHANGED <<outputs, records, myRecords, da, tx, txStatus, pc, batchIndex,
                     bulk, faults>>
  BY DEF Published, Included, chain
<1>2. OutputOK /\ BatchOK /\ ~Empty(batch) /\ tx = SubData
  BY <1>1 DEF IInv, WorkOK, Working
<1>3. da # <<>> /\ da[Len(da)] = tx /\ Len(da) \in 1 .. Len(da)
  BY <1>1, HashTypes, NotEmpty DEF IInv, TxOK
<1>4. /\ tx.start = batch.start /\ tx.start <= tx.end /\ tx.end <= bulk.end
      /\ tx.start \in Nat /\ tx.end \in Nat
  BY <1>2, SubDataFacts, Facts DEF BatchOK
<1>5. batch' \in Blocks /\ batch'.start = tx.end + 1 /\ batch'.end = bulk.end
  <2>1. batch' = [batch EXCEPT !.start = tx.end + 1] /\ batch \in Blocks
    BY <1>1, <1>2, Facts DEF Rest
  <2>2. batch.end = bulk.end
    BY <1>2 DEF BatchOK
  <2> QED
    BY <1>4, <2>1, <2>2 DEF Blocks
<1>6. batchInfo' \in Hashes /\ HoldsIn(da, batchInfo', bulk.start, tx.end)
  <2>1. IF batchInfo = <<>> THEN da[Len(da)].start = bulk.start
        ELSE HoldsIn(da, batchInfo, bulk.start, da[Len(da)].start - 1)
    BY <1>2, <1>3, <1>4 DEF BatchOK
  <2> QED
    BY <1>1, <1>3, <2>1, HashTypes, HoldsMore, Facts
<1>7. TypeOK'
  BY <1>1, <1>5, <1>6 DEF IInv, TypeOK, Hashes
<1>8. OutputsOK' /\ RecordsOK' /\ TxOK'
  BY <1>1 DEF IInv, OutputsOK, RecordsOK, TxOK, PublishedInOrder
<1>9. Frontier = tx.start /\ Frontier' = tx.end + 1
  BY <1>1, <1>4, <1>5 DEF Frontier
<1>10. Reached(da, tx.end)
  BY <1>3 DEF Reached
<1>11. Available(da, outputs[batchIndex].start, tx.end)
  <2>1. outputs[batchIndex].start \in Nat
    BY <1>2, RecordedFacts DEF OutputOK
  <2>2. Available(da, outputs[batchIndex].start, tx.start - 1)
    BY <1>2, <1>9 DEF OutputOK
  <2> QED
    BY <1>3, <1>4, <2>1, <2>2 DEF Available
<1>12. OutputOK'
  <2>1. SavedOK'
    BY <1>1, <1>2 DEF OutputOK, SavedOK
  <2>2. (Reached(da, Frontier - 1)
           /\ Available(da, outputs[batchIndex].start, Frontier - 1))'
    BY <1>1, <1>4, <1>9, <1>10, <1>11
  <2> QED
    BY <1>1, <1>2, <2>1, <2>2 DEF OutputOK, BulkFrom
<1>13. BatchOK'
  <2>1. bulk.start <= batch'.start /\ batch'.start <= bulk.end + 1
    BY SMTT(20), <1>2, <1>4, <1>5, Facts DEF BatchOK
  <2>2. batch'.start - 1 = tx.end /\ batchInfo' # <<>>
    BY <1>4, <1>5, <1>6 DEF HoldsIn
  <2> QED
    BY <1>1, <1>5, <1>6, <2>1, <2>2 DEF BatchOK
<1>14. WorkOK'
  BY <1>1, <1>12, <1>13 DEF WorkOK, Working
<1>15. PaidOK'
  <2>1. \A s \in Blocks : Paid(s)' = Paid(s)
    BY <1>1 DEF Paid
  <2>2. ASSUME NEW s \in Blocks, s.start >= tx.end + 1
        PROVE  Paid(s) <= faults
    <3>1. s.start >= tx.start /\ s # tx
      BY <1>4, <2>2 DEF Blocks
    <3> QED
      BY <1>9, <3>1 DEF IInv, PaidOK
  <2> QED
    BY <1>1, <1>9, <2>1, <2>2 DEF IInv, PaidOK
<1> QED
  BY <1>7, <1>8, <1>14, <1>15 DEF IInv

-----------------------------------------------------------------------------
(* The theorems                                                            *)

LEMMA NextOK ==
  ASSUME IInv, [Next]_vars
  PROVE  IInv'
<1>1. CASE NewOutput
  BY <1>1, NewOutputStep
<1>2. CASE Deliver
  BY <1>2, DeliverStep
<1>3. CASE Drop
  BY <1>3, DropStep
<1>4. CASE Crash \/ PublishThrow
  BY <1>4, DieStep
<1>5. CASE Start
  BY <1>5, StartStep
<1>6. CASE ReadOutput
  BY <1>6, ReadOutputStep
<1>7. CASE ReadNothing \/ UNCHANGED vars
  BY <1>7, StutterStep DEF ReadNothing
<1>8. CASE GetBatch
  BY <1>8, GetBatchStep
<1>9. CASE Publish
  BY <1>9, PublishStep
<1>10. CASE Published
  BY <1>10, PublishedStep
<1>11. CASE PublishDone
  BY <1>11, PublishDoneStep
<1>12. CASE Save
  BY <1>12, SaveStep
<1>13. CASE Commit
  BY <1>13, CommitStep
<1> QED
  BY <1>1, <1>2, <1>3, <1>4, <1>5, <1>6, <1>7, <1>8, <1>9, <1>10, <1>11, <1>12,
     <1>13 DEF Next, Submitter

LEMMA Invariance == Spec => []IInv
<1>1. Init => IInv
  BY InitOK
<1>2. IInv /\ [Next]_vars => IInv'
  BY NextOK
<1> QED
  BY <1>1, <1>2, PTL DEF Spec

(* The variables keep their types, for every size of bulks, transactions   *)
(* and outputs and every number of faults.                                 *)
THEOREM TypeCorrect == Spec => []TypeOK
<1>1. IInv => TypeOK
  BY DEF IInv
<1> QED
  BY <1>1, Invariance, PTL

(* processBatch commits one record for each output, in order.              *)
THEOREM OneRecordEach == Spec => []RecordPerOutput
<1>1. IInv => RecordPerOutput
  BY DEF IInv, RecordsOK, RecordPerOutput
<1> QED
  BY <1>1, Invariance, PTL

(* What a committed record names is on the chain and is its blocks.        *)
THEOREM RecordsSound == Spec => []RecordsPointToData
<1>1. IInv => RecordsPointToData
  BY DEF IInv, RecordsOK, RecordsPointToData, Holds, HoldsIn
<1> QED
  BY <1>1, Invariance, PTL

(* Every block of an output with a record is on the chain, also those of   *)
(* bulks whose record was written over.                                    *)
THEOREM AllIsPublished == Spec => []RecordedIsAvailable
<1>1. IInv => RecordedIsAvailable
  BY DEF IInv, RecordsOK, RecordedIsAvailable, Available
<1> QED
  BY <1>1, Invariance, PTL

(* Data is published after the data of the blocks before it, whatever is   *)
(* published again or executed late.                                       *)
THEOREM OrderKept == Spec => []PublishedInOrder
<1>1. IInv => PublishedInOrder
  BY DEF IInv, TxOK
<1> QED
  BY <1>1, Invariance, PTL

(* Data is paid for once, and once more for each failure at most.          *)
THEOREM PaidAsNeeded == Spec => []PaidOncePerFault
<1>1. ASSUME IInv
      PROVE  PaidOncePerFault
  <2> SUFFICES ASSUME NEW p \in 1 .. Len(da)
               PROVE  Copies(da, da[p]) <= 1 + faults
    BY DEF PaidOncePerFault, Copies
  <2>1. da[p] \in Blocks
    BY <1>1, HashTypes, BlockFields
  <2>2. Paid(da[p]) <= 1 + faults /\ faults \in Nat
    BY <1>1, <2>1 DEF IInv, PaidOK, TypeOK
  <2> QED
    BY <1>1, <2>2, PaidType
<1> QED
  BY <1>1, Invariance, PTL

(* A record, once committed, is never changed or removed.                  *)
THEOREM RecordsForGood == Spec => RecordedForGood
<1> DEFINE Kept == \A i \in 1 .. Len(records) :
                     i <= Len(records') /\ records'[i] = records[i]
<1>1. ASSUME IInv, [Next]_vars
      PROVE  [Kept]_vars
  <2>1. CASE Commit
    <3>1. SavedOK /\ records' = myRecords /\ records \in Seq(Records) /\ pc = "commit"
      BY <1>1, <2>1 DEF Commit, IInv, WorkOK, Working, OutputOK, TypeOK
    <3>2. PICK r \in Records : records' = Append(records, r)
      BY <3>1 DEF SavedOK
    <3> QED
      BY <3>1, <3>2, Appended
  <2>2. CASE UNCHANGED records
    BY <1>1, <2>2, Facts
  <2>3. UNCHANGED records \/ Commit
    BY <1>1 DEF Next, Submitter, vars, NewOutput, Deliver, Drop, Crash, Die, Start,
                ReadOutput, ReadNothing, GetBatch, Publish, Published, PublishDone,
                PublishThrow, Save, SaveToDB
  <2> QED
    BY <2>1, <2>2, <2>3
<1> QED
  BY <1>1, Invariance, PTL DEF Spec, RecordedForGood
=============================================================================
