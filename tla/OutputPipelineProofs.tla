------------------------ MODULE OutputPipelineProofs ------------------------
(***************************************************************************)
(* Proofs, for every set of withdrawals, every limit and every number of   *)
(* faults and deletions, of the safety properties of OutputPipeline, and   *)
(* that it implements OutputLog as long as no output is deleted.           *)
(***************************************************************************)
EXTENDS OutputPipeline, SequenceTheorems, TLAPS

-----------------------------------------------------------------------------
(* The inductive invariant, by topic *)

(* Table t of outputs, with the indexes ix given to withdrawals, is what   *)
(* the blocks up to height h leave: its outputs partition the blocks up to *)
(* the last one's end, and each withdrawal stored is under the root of its *)
(* output or waits for the next one.                                       *)
Partition(t, h) ==
  /\ \A i \in 1 .. Len(t) :
       /\ t[i].index = i
       /\ t[i].start = (IF i = 1 THEN 1 ELSE t[i - 1].end + 1)
       /\ t[i].start <= t[i].end
       /\ t[i].end <= h
  /\ \A i, j \in 1 .. Len(t) : i < j => t[i].end < t[j].end

Stamped(t, ix, h) ==
  \A w \in Withdrawals : ix[w] # 0 =>
    /\ madeAt[w] # 0 /\ madeAt[w] <= h
    /\ ix[w] <= Len(t) + 1
    /\ ix[w] = Len(t) + 1 => EndOf(t) < madeAt[w]

Rooted(t, ix) ==
  \A w \in Withdrawals, i \in 1 .. Len(t) :
    /\ ix[w] = i => /\ w \in t[i].leaves
                    /\ t[i].start <= madeAt[w]
                    /\ madeAt[w] <= t[i].end
    /\ w \in t[i].leaves => ix[w] = i

TablesOK(t, ix, h) == Partition(t, h) /\ Stamped(t, ix, h) /\ Rooted(t, ix)

Prefix(s, t) == Len(s) <= Len(t) /\ \A i \in 1 .. Len(s) : t[i] = s[i]

(* The executor's open transaction extends the committed tables.           *)
ExecutorOK ==
  /\ TablesOK(outputs, indexOf, dbSynced)
  /\ Prefix(outputs, myOutputs)
  /\ epc # "down" => /\ TablesOK(myOutputs, myIndexOf, syncedHeight)
                     /\ dbSynced <= syncedHeight
  /\ epc \in {"down", "poll"} => myOutputs = outputs /\ myIndexOf = indexOf
  /\ epc = "block" => syncedHeight <= maxHeight

(* A run of consecutive committed outputs.                                 *)
Piece(s) ==
  \A k \in 1 .. Len(s) :
    /\ s[k].index \in 1 .. Len(outputs)
    /\ s[k] = outputs[s[k].index]
    /\ s[k].index = s[1].index + k - 1

(* What the submitter holds, sends and has sent are committed outputs; L1  *)
(* has some of them, in order, so none before its own place in the table.  *)
SubmitterOK ==
  /\ Piece(queue)
  /\ Piece(tx)
  /\ spc = "propose" => queue # <<>>
  /\ txStatus = "pending" => tx # <<>>

OracleOK ==
  /\ \A i \in 1 .. Len(oracle) : LET n == oracle[i].index IN
       i <= n /\ n <= Len(outputs) /\ oracle[i] = outputs[n]
  /\ \A i, j \in 1 .. Len(oracle) :
       i < j => oracle[i].index < oracle[j].index

(* Until the first deletion, L1 has all outputs but at most the last.      *)
LockstepOK ==
  deletes = 0 => /\ \A i \in 1 .. Len(oracle) : oracle[i].index = i
                 /\ Len(myOutputs) <= Len(oracle) + 1

IInv == TypeOK /\ ExecutorOK /\ SubmitterOK /\ OracleOK /\ LockstepOK

-----------------------------------------------------------------------------
(* Sequences of outputs *)

(* A part of a sequence, by its length and its elements.                   *)
LEMMA Part ==
  ASSUME NEW s \in Seq(Outputs), NEW m \in Nat \ {0}, NEW n \in Nat,
         n <= Len(s)
  PROVE  /\ SubSeq(s, m, n) \in Seq(Outputs)
         /\ Len(SubSeq(s, m, n)) = IF m <= n THEN n - m + 1 ELSE 0
         /\ \A k \in 1 .. Len(SubSeq(s, m, n)) :
              SubSeq(s, m, n)[k] = s[m + k - 1] /\ m + k - 1 \in 1 .. Len(s)
<1>1. \A i \in m .. n : s[i] \in Outputs
  <2> TAKE i \in m .. n
  <2>1. i \in 1 .. Len(s)
    OBVIOUS
  <2> QED
    BY <2>1, ElementOfSeq
<1> QED
  BY <1>1, SubSeqProperties

LEMMA OutputFields ==
  ASSUME NEW s \in Seq(Outputs)
  PROVE  \A i \in 1 .. Len(s) :
           s[i] \in Outputs /\ s[i].index \in Nat /\ s[i].end \in Nat
<1> SUFFICES ASSUME NEW i \in 1 .. Len(s)
             PROVE  s[i] \in Outputs /\ s[i].index \in Nat /\ s[i].end \in Nat
  OBVIOUS
<1>1. s[i] \in Outputs
  BY ElementOfSeq
<1> QED
  BY <1>1 DEF Outputs

LEMMA LastEnd ==
  ASSUME NEW s \in Seq(Outputs)
  PROVE  /\ EndOf(s) \in Nat
         /\ Len(s) \in Nat
         /\ s = <<>> <=> Len(s) = 0
<1>1. Len(s) \in Nat /\ (s = <<>> <=> Len(s) = 0)
  BY EmptySeq
<1>2. CASE s = <<>>
  BY <1>1, <1>2 DEF EndOf
<1>3. CASE s # <<>>
  <2>1. Len(s) \in 1 .. Len(s)
    BY <1>1, <1>3
  <2>2. s[Len(s)] \in Outputs
    BY <2>1, ElementOfSeq
  <2> QED
    BY <1>1, <1>3, <2>2 DEF EndOf, Outputs
<1> QED
  BY <1>2, <1>3

(* The chunk that is proposed, and what is left of the queue after it.     *)
LEMMA ChunkSizes ==
  ASSUME TypeOK
  PROVE  /\ ChunkSize \in Nat
         /\ ChunkSize <= Len(queue)
         /\ queue # <<>> => ChunkSize # 0
<1>1. Len(queue) \in Nat /\ (queue # <<>> => Len(queue) # 0)
  BY EmptySeq DEF TypeOK
<1> QED
  BY <1>1, PipelineAssumption DEF ChunkSize

LEMMA SavedType ==
  ASSUME NEW s \in Seq(Outputs), NEW o \in Outputs
  PROVE  SaveOutput(s, o) \in Seq(Outputs)
<1>1. CASE o.index \in DOMAIN s
  <2>1. o.index \in 1 .. Len(s)
    BY <1>1
  <2>2. [s EXCEPT ![o.index] = o] \in Seq(Outputs)
    BY <2>1, ExceptSeq
  <2> QED
    BY <1>1, <2>2 DEF SaveOutput
<1>2. CASE o.index \notin DOMAIN s
  BY <1>2, AppendProperties DEF SaveOutput
<1> QED
  BY <1>1, <1>2

LEMMA NewOutputType ==
  ASSUME TypeOK, NEW ix \in [Withdrawals -> Nat]
  PROVE  NewOutput(ix) \in Outputs
<1>1. Len(oracle) \in Nat /\ Len(oracle) + 1 \in Nat
  BY DEF TypeOK
<1>2. EndOf(oracle) \in Nat
  BY LastEnd DEF TypeOK
<1> QED
  BY <1>1, <1>2 DEF NewOutput, Outputs, currentHeight, TypeOK

-----------------------------------------------------------------------------
(* Every variable keeps its type.                                          *)
LEMMA TypeStep == TypeOK /\ [Next]_vars => TypeOK'
<1> SUFFICES ASSUME TypeOK, [Next]_vars PROVE TypeOK'
  OBVIOUS
<1> USE DEF TypeOK, vars, l2vars, l1vars, db, view, exec, subm
<1>1. CASE NewL2Block
  BY <1>1 DEF NewL2Block
<1>2. CASE L1Deliver
  <2>1. oracle \o tx \in Seq(Outputs)
    BY ConcatProperties
  <2> QED
    BY <1>2, <2>1 DEF L1Deliver
<1>3. CASE L1Drop
  BY <1>3 DEF L1Drop, Fault
<1>4. CASE DeleteOutput
  <2>1. PICK i \in 1 .. Len(oracle) : oracle' = SubSeq(oracle, 1, i - 1)
    BY <1>4 DEF DeleteOutput
  <2>2. oracle' \in Seq(Outputs)
    BY <2>1, Part
  <2> QED
    BY <1>4, <2>2 DEF DeleteOutput
<1>5. CASE ExecutorCrash
  BY <1>5 DEF ExecutorCrash, Fault
<1>6. CASE ExecutorStart
  BY <1>6 DEF ExecutorStart, ResumeHeight
<1>7. CASE Poll
  BY <1>7, PipelineAssumption DEF Poll
<1>8. CASE PollNothing
  BY <1>8 DEF PollNothing
<1>9. CASE HandleBlock
  <2>1. myIndexOf' \in [Withdrawals -> Nat]
    <3>1. PICK saved \in SUBSET Stored : myIndexOf' = [w \in Withdrawals |->
            IF w \in saved THEN WithdrawalIndex ELSE myIndexOf[w]]
      BY <1>9 DEF HandleBlock
    <3>2. myOutputs # <<>> => WithdrawalIndex \in Nat
      <4>1. myOutputs # <<>> => Len(myOutputs) \in 1 .. Len(myOutputs)
        BY LastEnd
      <4>2. myOutputs # <<>> => myOutputs[Len(myOutputs)] \in Outputs
        BY <4>1, ElementOfSeq
      <4> QED
        BY <4>2 DEF WithdrawalIndex, Outputs
    <3> QED
      BY <3>1, <3>2 DEF Stored
  <2>2. myOutputs' \in Seq(Outputs)
    <3>1. NewOutput(myIndexOf') \in Outputs
      BY <2>1, NewOutputType
    <3>2. SaveOutput(myOutputs, NewOutput(myIndexOf')) \in Seq(Outputs)
      BY <3>1, SavedType
    <3> QED
      BY <1>9, <3>2 DEF HandleBlock, HandleOutput
  <2>3. faults' \in Nat
    BY <1>9 DEF HandleBlock, Fault, NoFault
  <2> QED
    BY <1>9, <2>1, <2>2, <2>3 DEF HandleBlock, currentHeight
<1>10. CASE BlockBreak
  BY <1>10 DEF BlockBreak, Fault
<1>11. CASE BlocksDone
  BY <1>11 DEF BlocksDone
<1>12. CASE Commit
  BY <1>12 DEF Commit
<1>13. ASSUME SubmitterDie, faults' \in Nat PROVE TypeOK'
  BY <1>13, EmptySeq DEF SubmitterDie
<1>14. CASE SubmitterCrash
  BY <1>13, <1>14 DEF SubmitterCrash, Fault
<1>15. CASE SubmitterStart
  BY <1>15 DEF SubmitterStart
<1>16. CASE ReadL1
  BY <1>16, LastEnd DEF ReadL1, NextIndex
<1>17. CASE ReadDB
  <2>1. queue' \in Seq(Outputs)
    <3>1. Len(outputs) \in Nat
      BY LastEnd
    <3> QED
      BY <1>17, <3>1, Part DEF ReadDB, Visible
  <2> QED
    BY <1>17, <2>1 DEF ReadDB
<1>18. CASE Propose
  <2>1. Chunk \in Seq(Outputs)
    BY ChunkSizes, Part DEF Chunk
  <2> QED
    BY <1>18, <2>1 DEF Propose
<1>19. CASE Proposed
  <2>1. SubSeq(queue, ChunkSize + 1, Len(queue)) \in Seq(Outputs)
    BY ChunkSizes, Part
  <2> QED
    BY <1>19, <2>1 DEF Proposed
<1>20. CASE ProposeThrow
  BY <1>13, <1>20 DEF ProposeThrow, NoFault
<1> QED
  BY <1>1, <1>2, <1>3, <1>4, <1>5, <1>6, <1>7, <1>8, <1>9, <1>10, <1>11,
     <1>12, <1>14, <1>15, <1>16, <1>17, <1>18, <1>19, <1>20
     DEF Next, Executor, Submitter

-----------------------------------------------------------------------------
(* The executor's tables *)

LEMMA EmptyTables ==
  ASSUME NEW ix \in [Withdrawals -> Nat], NEW h \in Nat,
         \A w \in Withdrawals : ix[w] = 0
  PROVE  TablesOK(<<>>, ix, h)
BY EmptySeq DEF TablesOK, Partition, Stamped, Rooted

(* Every output ends by the end of the last one.                           *)
LEMMA EndsBelow ==
  ASSUME NEW t \in Seq(Outputs), NEW h \in Nat, Partition(t, h)
  PROVE  /\ EndOf(t) <= h
         /\ \A i \in 1 .. Len(t) : t[i] \in Outputs /\ t[i].end <= EndOf(t)
<1>1. Len(t) \in Nat /\ (t = <<>> <=> Len(t) = 0)
  BY LastEnd
<1>2. \A i \in 1 .. Len(t) : t[i] \in Outputs
  BY ElementOfSeq
<1>3. CASE t = <<>>
  BY <1>1, <1>3 DEF EndOf
<1>4. CASE t # <<>>
  <2>1. Len(t) \in 1 .. Len(t)
    BY <1>1, <1>4
  <2>2. EndOf(t) = t[Len(t)].end
    BY <1>4 DEF EndOf
  <2>3. EndOf(t) <= h
    BY <2>1, <2>2 DEF Partition
  <2>4. ASSUME NEW i \in 1 .. Len(t) PROVE t[i].end <= EndOf(t)
    <3>1. t[i].end \in Nat
      BY <1>2 DEF Outputs
    <3>2. i = Len(t) \/ i < Len(t)
      BY <1>1
    <3>3. CASE i < Len(t)
      <4>1. t[i].end < t[Len(t)].end
        BY <2>1, <3>3 DEF Partition
      <4>2. t[Len(t)].end \in Nat
        BY <1>2, <2>1 DEF Outputs
      <4> QED
        BY <2>2, <3>1, <4>1, <4>2
    <3> QED
      BY <2>2, <3>1, <3>2, <3>3
  <2> QED
    BY <1>2, <2>3, <2>4
<1> QED
  BY <1>3, <1>4

(* A new output that starts after the last one and has the waiting         *)
(* withdrawals under its root keeps the tables in order.                   *)
LEMMA Extension ==
  ASSUME NEW t \in Seq(Outputs), NEW ix \in [Withdrawals -> Nat],
         NEW h \in Nat, NEW o \in Outputs,
         madeAt \in [Withdrawals -> Nat],
         TablesOK(t, ix, h), EndOf(t) < h,
         o.index = Len(t) + 1, o.start = EndOf(t) + 1, o.end = h,
         o.leaves = {w \in Withdrawals : ix[w] = Len(t) + 1}
  PROVE  TablesOK(Append(t, o), ix, h)
<1> DEFINE u == Append(t, o)
           n == Len(t)
<1>1. /\ n \in Nat
      /\ Len(u) = n + 1
      /\ \A i \in 1 .. n : u[i] = t[i]
      /\ u[n + 1] = o
      /\ u # <<>>
  BY AppendProperties, LastEnd
<1>2. EndOf(t) \in Nat /\ (t = <<>> <=> n = 0)
  BY LastEnd
<1>3. EndOf(u) = h
  BY <1>1 DEF EndOf
<1>4. \A i \in 1 .. n : t[i] \in Outputs /\ t[i].end <= EndOf(t)
  BY EndsBelow DEF TablesOK
<1> HIDE DEF u, n
<1>5. Partition(u, h)
  <2>1. ASSUME NEW i \in 1 .. n + 1
        PROVE  /\ u[i].index = i
               /\ u[i].start = (IF i = 1 THEN 1 ELSE u[i - 1].end + 1)
               /\ u[i].start <= u[i].end
               /\ u[i].end <= h
    <3>1. CASE i \in 1 .. n
      <4>1. i # 1 => i - 1 \in 1 .. n
        BY <1>1, <3>1
      <4> QED
        BY <1>1, <3>1, <4>1 DEF TablesOK, Partition, n
    <3>2. CASE i = n + 1
      <4>1. o.start = (IF i = 1 THEN 1 ELSE u[i - 1].end + 1)
        <5>1. CASE n = 0
          BY <1>2, <3>2, <5>1 DEF EndOf
        <5>2. CASE n # 0
          <6>1. n \in 1 .. n /\ i - 1 = n /\ i # 1
            BY <1>1, <3>2, <5>2
          <6> QED
            BY <1>1, <1>2, <5>2, <6>1 DEF EndOf, n
        <5> QED
          BY <5>1, <5>2
      <4> QED
        BY <1>1, <1>2, <3>2, <4>1 DEF n
    <3> QED
      BY <1>1, <3>1, <3>2
  <2>2. ASSUME NEW i \in 1 .. n + 1, NEW j \in 1 .. n + 1, i < j
        PROVE  u[i].end < u[j].end
    <3>1. i \in 1 .. n
      BY <1>1, <2>2
    <3>2. CASE j \in 1 .. n
      BY <1>1, <2>2, <3>1, <3>2 DEF TablesOK, Partition, n
    <3>3. CASE j = n + 1
      <4>1. t[i].end \in Nat /\ t[i].end <= EndOf(t)
        BY <1>4, <3>1 DEF Outputs
      <4> QED
        BY <1>1, <1>2, <3>1, <3>3, <4>1
    <3> QED
      BY <1>1, <3>2, <3>3
  <2> QED
    BY <1>1, <2>1, <2>2 DEF Partition
<1>6. Stamped(u, ix, h)
  BY <1>1 DEF TablesOK, Stamped, n
<1>7. Rooted(u, ix)
  <2> SUFFICES ASSUME NEW w \in Withdrawals, NEW i \in 1 .. n + 1
               PROVE  /\ ix[w] = i => /\ w \in u[i].leaves
                                      /\ u[i].start <= madeAt[w]
                                      /\ madeAt[w] <= u[i].end
                      /\ w \in u[i].leaves => ix[w] = i
    BY <1>1 DEF Rooted
  <2>1. CASE i \in 1 .. n
    BY <1>1, <2>1 DEF TablesOK, Rooted, n
  <2>2. CASE i = n + 1
    <3>1. ix[w] = i => EndOf(t) < madeAt[w] /\ madeAt[w] <= h
      BY <1>1, <2>2 DEF TablesOK, Stamped, n
    <3>2. madeAt[w] \in Nat
      OBVIOUS
    <3> QED
      BY <1>1, <1>2, <2>2, <3>1, <3>2 DEF n
  <2> QED
    BY <1>1, <2>1, <2>2
<1> QED
  BY <1>5, <1>6, <1>7 DEF TablesOK, u

(* checkSubmissionInterval lets an output through only when L1 has all     *)
(* outputs of the executor's table, so the next one follows the last one.  *)
LEMMA DueMeansPublished ==
  ASSUME IInv, epc # "down", SubmissionDue
  PROVE  Len(oracle) = Len(myOutputs) /\ EndOf(oracle) = EndOf(myOutputs)
<1> DEFINE n == Len(oracle)
           m == Len(outputs)
           k == Len(myOutputs)
<1>1. /\ n \in Nat /\ m \in Nat /\ k \in Nat
      /\ oracle = <<>> <=> n = 0
      /\ myOutputs = <<>> <=> k = 0
  BY LastEnd DEF IInv, TypeOK
<1>2. m <= k /\ \A i \in 1 .. m : myOutputs[i] = outputs[i]
  BY DEF IInv, ExecutorOK, Prefix
<1>3. \A i \in 1 .. n : /\ i <= oracle[i].index /\ oracle[i].index <= m
                        /\ oracle[i] = outputs[oracle[i].index]
  BY DEF IInv, OracleOK
<1>4. \A i \in 1 .. n : oracle[i].index \in Nat
  BY OutputFields DEF IInv, TypeOK
<1>5. CASE k = 0
  <2>1. n = 0
    <3> SUFFICES ASSUME n # 0 PROVE FALSE
      OBVIOUS
    <3>1. n \in 1 .. n
      BY <1>1
    <3> QED
      BY <1>1, <1>2, <1>3, <1>4, <1>5, <3>1
  <2> QED
    BY <1>1, <1>5, <2>1 DEF EndOf
<1>6. CASE k # 0
  <2>1. k \in 1 .. k
    BY <1>1, <1>6
  <2>2. myOutputs[k].index = k
    BY <2>1 DEF IInv, ExecutorOK, TablesOK, Partition
  <2>3. n # 0 /\ n >= k
    BY <1>1, <1>6, <2>2 DEF SubmissionDue
  <2>4. n \in 1 .. n
    BY <1>1, <2>3
  <2>5. n = k /\ n = m /\ oracle[n].index = n
    BY <1>1, <1>2, <1>3, <1>4, <2>3, <2>4
  <2>6. oracle[n] = myOutputs[k]
    BY <1>2, <1>3, <2>4, <2>5
  <2> QED
    BY <1>1, <1>6, <2>3, <2>5, <2>6 DEF EndOf
<1> QED
  BY <1>5, <1>6

(* The withdrawals of the block keep the tables in order, one block higher.*)
LEMMA StampedBlock ==
  ASSUME IInv, HandleBlock
  PROVE  TablesOK(myOutputs, myIndexOf', syncedHeight + 1)
<1> USE DEF IInv, TypeOK
<1>1. PICK saved \in SUBSET Stored : myIndexOf' = [w \in Withdrawals |->
        IF w \in saved THEN WithdrawalIndex ELSE myIndexOf[w]]
  BY DEF HandleBlock
<1>2. TablesOK(myOutputs, myIndexOf, syncedHeight)
  BY DEF ExecutorOK, HandleBlock, InBlock
<1>3. Len(myOutputs) \in Nat /\ (myOutputs = <<>> <=> Len(myOutputs) = 0)
  BY LastEnd
<1>4. EndOf(myOutputs) \in Nat /\ EndOf(myOutputs) <= syncedHeight
  BY <1>2, EndsBelow, LastEnd DEF TablesOK
<1>5. ASSUME NEW w \in saved
      PROVE  /\ w \in Withdrawals
             /\ myIndexOf'[w] = Len(myOutputs) + 1
             /\ myIndexOf[w] = 0
             /\ madeAt[w] = syncedHeight + 1
  <2>1. /\ w \in Withdrawals /\ madeAt[w] = syncedHeight + 1
        /\ myOutputs # <<>>
    BY <1>1 DEF Stored, WithdrawalsAt, currentHeight
  <2>2. Len(myOutputs) \in 1 .. Len(myOutputs)
    BY <1>3, <2>1
  <2>3. WithdrawalIndex = Len(myOutputs) + 1
    BY <1>2, <2>2 DEF TablesOK, Partition, WithdrawalIndex
  <2>4. myIndexOf[w] = 0
    BY <1>2, <2>1 DEF TablesOK, Stamped
  <2> QED
    BY <1>1, <2>1, <2>3, <2>4
<1>6. \A w \in Withdrawals \ saved : myIndexOf'[w] = myIndexOf[w]
  BY <1>1
<1>7. Partition(myOutputs, syncedHeight + 1)
  <2>1. \A i \in 1 .. Len(myOutputs) : myOutputs[i].end \in Nat
    BY OutputFields
  <2> QED
    BY <1>2, <2>1 DEF TablesOK, Partition
<1>8. Stamped(myOutputs, myIndexOf', syncedHeight + 1)
  <2> SUFFICES ASSUME NEW w \in Withdrawals, myIndexOf'[w] # 0
      PROVE  /\ madeAt[w] # 0 /\ madeAt[w] <= syncedHeight + 1
             /\ myIndexOf'[w] <= Len(myOutputs) + 1
             /\ myIndexOf'[w] = Len(myOutputs) + 1 =>
                  EndOf(myOutputs) < madeAt[w]
    BY DEF Stamped
  <2>1. CASE w \in saved
    BY <1>3, <1>4, <1>5, <2>1
  <2>2. CASE w \notin saved
    <3>1. madeAt[w] \in Nat
      OBVIOUS
    <3> QED
      BY <1>2, <1>6, <2>2, <3>1 DEF TablesOK, Stamped
  <2> QED
    BY <2>1, <2>2
<1>9. Rooted(myOutputs, myIndexOf')
  <2> SUFFICES ASSUME NEW w \in Withdrawals, NEW i \in 1 .. Len(myOutputs)
      PROVE  /\ myIndexOf'[w] = i => /\ w \in myOutputs[i].leaves
                                     /\ myOutputs[i].start <= madeAt[w]
                                     /\ madeAt[w] <= myOutputs[i].end
             /\ w \in myOutputs[i].leaves => myIndexOf'[w] = i
    BY DEF Rooted
  <2>1. CASE w \in saved
    BY <1>2, <1>3, <1>5, <2>1 DEF TablesOK, Rooted
  <2>2. CASE w \notin saved
    BY <1>2, <1>6, <2>2 DEF TablesOK, Rooted
  <2> QED
    BY <2>1, <2>2
<1> QED
  BY <1>7, <1>8, <1>9 DEF TablesOK

(* What HandleBlock does to the table of outputs: nothing, or one more.    *)
LEMMA BlockOutput ==
  ASSUME IInv, HandleBlock
  PROVE  \/ myOutputs' = myOutputs
         \/ /\ myOutputs' = Append(myOutputs, NewOutput(myIndexOf'))
            /\ NewOutput(myIndexOf') \in Outputs
            /\ Len(oracle) = Len(myOutputs)
            /\ EndOf(oracle) = EndOf(myOutputs)
            /\ EndOf(oracle) < currentHeight
<1> SUFFICES ASSUME myOutputs' # myOutputs
             PROVE  /\ myOutputs' = Append(myOutputs, NewOutput(myIndexOf'))
                    /\ NewOutput(myIndexOf') \in Outputs
                    /\ Len(oracle) = Len(myOutputs)
                    /\ EndOf(oracle) = EndOf(myOutputs)
                    /\ EndOf(oracle) < currentHeight
  OBVIOUS
<1>1. /\ SubmissionDue /\ EndOf(oracle) < currentHeight
      /\ myOutputs' = SaveOutput(myOutputs, NewOutput(myIndexOf'))
  BY DEF HandleBlock, HandleOutput
<1>2. Len(oracle) = Len(myOutputs) /\ EndOf(oracle) = EndOf(myOutputs)
  BY <1>1, DueMeansPublished DEF HandleBlock, InBlock
<1>3. myIndexOf' \in [Withdrawals -> Nat]
  BY TypeStep DEF Next, Executor, IInv, TypeOK
<1>4. NewOutput(myIndexOf') \in Outputs
  BY <1>3, NewOutputType DEF IInv
<1>5. DOMAIN myOutputs = 1 .. Len(myOutputs) /\ Len(myOutputs) \in Nat
  BY DEF IInv, TypeOK
<1>6. NewOutput(myIndexOf').index \notin DOMAIN myOutputs
  BY <1>2, <1>5 DEF NewOutput
<1> QED
  BY <1>1, <1>2, <1>4, <1>6 DEF SaveOutput

(* The executor keeps its tables in order, and leaves the committed ones   *)
(* alone until it commits.                                                 *)
LEMMA ExecutorStep == IInv /\ [Next]_vars => ExecutorOK'
<1> SUFFICES ASSUME IInv, [Next]_vars PROVE ExecutorOK'
  OBVIOUS
<1> USE DEF IInv, ExecutorOK, vars, l2vars, l1vars, db, view, exec, subm
<1>0. TypeOK'
  BY TypeStep
<1>1. CASE NewL2Block
  <2>1. \A w \in Withdrawals : madeAt[w] # 0 => madeAt'[w] = madeAt[w]
    BY <1>1 DEF NewL2Block, TypeOK
  <2>2. /\ UNCHANGED <<outputs, indexOf, dbSynced>>
        /\ UNCHANGED <<myOutputs, myIndexOf, syncedHeight, epc, maxHeight>>
    BY <1>1 DEF NewL2Block
  <2>3. TablesOK(outputs, indexOf, dbSynced)'
    <3>1. Partition(outputs, dbSynced)'
      BY <2>2 DEF TablesOK, Partition
    <3>2. Stamped(outputs, indexOf, dbSynced)'
      BY <2>1, <2>2 DEF TablesOK, Stamped, EndOf
    <3>3. Rooted(outputs, indexOf)'
      <4> SUFFICES ASSUME NEW w \in Withdrawals, NEW i \in 1 .. Len(outputs)
            PROVE  /\ indexOf[w] = i => /\ w \in outputs[i].leaves
                                        /\ outputs[i].start <= madeAt'[w]
                                        /\ madeAt'[w] <= outputs[i].end
                   /\ w \in outputs[i].leaves => indexOf[w] = i
        BY <2>2 DEF Rooted
      <4>1. indexOf[w] = i => madeAt'[w] = madeAt[w]
        BY <2>1 DEF TablesOK, Stamped
      <4> QED
        BY <4>1 DEF TablesOK, Rooted
    <3> QED
      BY <3>1, <3>2, <3>3 DEF TablesOK
  <2>4. ASSUME epc # "down"
        PROVE  TablesOK(myOutputs, myIndexOf, syncedHeight)'
    <3>1. Partition(myOutputs, syncedHeight)'
      BY <2>2, <2>4 DEF TablesOK, Partition
    <3>2. Stamped(myOutputs, myIndexOf, syncedHeight)'
      BY <2>1, <2>2, <2>4 DEF TablesOK, Stamped, EndOf
    <3>3. Rooted(myOutputs, myIndexOf)'
      <4> SUFFICES ASSUME NEW w \in Withdrawals, NEW i \in 1 .. Len(myOutputs)
            PROVE  /\ myIndexOf[w] = i => /\ w \in myOutputs[i].leaves
                                          /\ myOutputs[i].start <= madeAt'[w]
                                          /\ madeAt'[w] <= myOutputs[i].end
                   /\ w \in myOutputs[i].leaves => myIndexOf[w] = i
        BY <2>2 DEF Rooted
      <4>1. myIndexOf[w] = i => madeAt'[w] = madeAt[w]
        BY <2>1, <2>4 DEF TablesOK, Stamped
      <4> QED
        BY <2>4, <4>1 DEF TablesOK, Rooted
    <3> QED
      BY <3>1, <3>2, <3>3 DEF TablesOK
  <2> QED
    BY <2>2, <2>3, <2>4 DEF Prefix
<1> DEFINE Same == UNCHANGED <<madeAt, outputs, indexOf, dbSynced>>
<1>2. ASSUME Same PROVE TablesOK(outputs, indexOf, dbSynced)'
  BY <1>2 DEF TablesOK, Partition, Stamped, Rooted, EndOf
<1>3. ASSUME UNCHANGED <<madeAt, myOutputs, myIndexOf, syncedHeight, epc>>
      PROVE  epc' # "down" => TablesOK(myOutputs, myIndexOf, syncedHeight)'
  BY <1>3 DEF TablesOK, Partition, Stamped, Rooted, EndOf
<1>4. CASE ExecutorCrash
  BY <1>2, <1>4 DEF ExecutorCrash, Prefix, TypeOK
<1>5. CASE ExecutorStart
  <2>1. TablesOK(outputs, indexOf, dbSynced)'
    BY <1>2, <1>5 DEF ExecutorStart
  <2>2. TablesOK(myOutputs, myIndexOf, syncedHeight)'
    BY <1>5, <2>1
       DEF ExecutorStart, ResumeHeight, TablesOK, Partition, Stamped, Rooted,
           EndOf
  <2> QED
    BY <1>5, <2>1, <2>2 DEF ExecutorStart, ResumeHeight, Prefix, TypeOK
<1>6. CASE Poll
  <2>1. TablesOK(outputs, indexOf, dbSynced)'
    BY <1>2, <1>6 DEF Poll
  <2>2. TablesOK(myOutputs, myIndexOf, syncedHeight)'
    BY <1>6 DEF Poll, TablesOK, Partition, Stamped, Rooted, EndOf
  <2>3. syncedHeight <= maxHeight'
    BY <1>6, PipelineAssumption DEF Poll, TypeOK
  <2> QED
    BY <1>6, <2>1, <2>2, <2>3 DEF Poll, Prefix
<1>7. CASE HandleBlock
  <2>1. TablesOK(outputs, indexOf, dbSynced)'
    BY <1>2, <1>7 DEF HandleBlock
  <2>2. TablesOK(myOutputs, myIndexOf', syncedHeight + 1)
    BY <1>7, StampedBlock
  <2>3. madeAt' = madeAt /\ syncedHeight' = syncedHeight + 1
    BY <1>7 DEF HandleBlock, currentHeight
  <2>4. CASE myOutputs' = myOutputs
    <3>1. TablesOK(myOutputs, myIndexOf, syncedHeight)'
      BY <2>2, <2>3, <2>4 DEF TablesOK, Partition, Stamped, Rooted, EndOf
    <3> QED
      BY <1>7, <2>1, <2>4, <3>1
         DEF HandleBlock, InBlock, Prefix, currentHeight, TypeOK
  <2>5. CASE myOutputs' # myOutputs
    <3> DEFINE o == NewOutput(myIndexOf')
    <3>1. /\ myOutputs' = Append(myOutputs, o)
          /\ o \in Outputs
          /\ Len(oracle) = Len(myOutputs)
          /\ EndOf(oracle) = EndOf(myOutputs)
          /\ EndOf(oracle) < syncedHeight + 1
      BY <1>7, <2>5, BlockOutput DEF currentHeight
    <3>2. /\ o.index = Len(myOutputs) + 1 /\ o.start = EndOf(myOutputs) + 1
          /\ o.end = syncedHeight + 1
          /\ o.leaves = {w \in Withdrawals :
                           myIndexOf'[w] = Len(myOutputs) + 1}
      BY <3>1 DEF NewOutput, currentHeight
    <3>3. /\ myOutputs \in Seq(Outputs) /\ myIndexOf' \in [Withdrawals -> Nat]
          /\ syncedHeight + 1 \in Nat /\ madeAt \in [Withdrawals -> Nat]
      <4>1. myIndexOf' \in [Withdrawals -> Nat]
        BY <1>0 DEF TypeOK
      <4> QED
        BY <4>1 DEF TypeOK
    <3> HIDE DEF o
    <3>4. TablesOK(Append(myOutputs, o), myIndexOf', syncedHeight + 1)
      BY <2>2, <3>1, <3>2, <3>3, Extension
    <3>5. TablesOK(myOutputs, myIndexOf, syncedHeight)'
      BY <2>3, <3>1, <3>4 DEF TablesOK, Partition, Stamped, Rooted, EndOf
    <3>6. Prefix(outputs, myOutputs)'
      <4>1. /\ Len(myOutputs') = Len(myOutputs) + 1
            /\ \A i \in 1 .. Len(myOutputs) : myOutputs'[i] = myOutputs[i]
        BY <3>1, <3>3, AppendProperties
      <4>2. outputs' = outputs
        BY <1>7 DEF HandleBlock
      <4>3. Len(outputs) \in Nat /\ Len(myOutputs) \in Nat
        BY DEF TypeOK
      <4> QED
        BY <4>1, <4>2, <4>3 DEF Prefix
    <3> QED
      BY <1>7, <2>1, <3>5, <3>6
         DEF HandleBlock, InBlock, currentHeight, TypeOK
  <2> QED
    BY <2>4, <2>5
<1>8. CASE BlockBreak \/ BlocksDone
  <2>1. UNCHANGED <<madeAt, outputs, indexOf, dbSynced, myOutputs, myIndexOf,
                    syncedHeight>>
    BY <1>8 DEF BlockBreak, BlocksDone
  <2>2. TablesOK(outputs, indexOf, dbSynced)'
    BY <1>2, <2>1
  <2>3. epc = "block" /\ epc' = "commit"
    BY <1>8 DEF BlockBreak, BlocksDone, InBlock
  <2>4. TablesOK(myOutputs, myIndexOf, syncedHeight)'
    BY <2>1, <2>3 DEF TablesOK, Partition, Stamped, Rooted, EndOf
  <2> QED
    BY <2>1, <2>2, <2>3, <2>4 DEF Prefix
<1>9. CASE Commit
  <2>1. TablesOK(outputs, indexOf, dbSynced)'
    BY <1>9 DEF Commit, TablesOK, Partition, Stamped, Rooted, EndOf
  <2>2. TablesOK(myOutputs, myIndexOf, syncedHeight)'
    BY <1>9 DEF Commit, TablesOK, Partition, Stamped, Rooted, EndOf
  <2> QED
    BY <1>9, <2>1, <2>2 DEF Commit, Prefix, TypeOK
<1>10. CASE UNCHANGED <<l2vars, db, exec>>
  BY <1>2, <1>3, <1>10 DEF Prefix
<1> QED
  BY <1>1, <1>4, <1>5, <1>6, <1>7, <1>8, <1>9, <1>10
     DEF Next, Executor, Submitter, L1Deliver, L1Drop, DeleteOutput,
         PollNothing, SubmitterCrash, SubmitterDie, SubmitterStart, ReadL1,
         ReadDB, Propose, Proposed, ProposeThrow

-----------------------------------------------------------------------------
(* The table only grows, by outputs after those it has.                    *)
LEMMA TableStep ==
  IInv /\ [Next]_vars =>
    /\ Len(outputs) <= Len(outputs')
    /\ \A i \in 1 .. Len(outputs) : outputs'[i] = outputs[i]
<1> SUFFICES ASSUME IInv, [Next]_vars
             PROVE  /\ Len(outputs) <= Len(outputs')
                    /\ \A i \in 1 .. Len(outputs) : outputs'[i] = outputs[i]
  OBVIOUS
<1>1. CASE Commit
  BY <1>1 DEF Commit, IInv, ExecutorOK, Prefix
<1>2. CASE outputs' = outputs
  BY <1>2, LastEnd DEF IInv, TypeOK
<1> QED
  BY <1>1, <1>2
     DEF Next, Executor, Submitter, NewL2Block, L1Deliver, L1Drop,
         DeleteOutput, ExecutorCrash, ExecutorStart, Poll, PollNothing,
         HandleBlock, BlockBreak, BlocksDone, SubmitterCrash, SubmitterDie,
         SubmitterStart, ReadL1, ReadDB, Propose, Proposed, ProposeThrow,
         vars, db

-----------------------------------------------------------------------------
(* The submitter holds and sends runs of committed outputs.                *)
LEMMA SubmitterStep == IInv /\ [Next]_vars => SubmitterOK'
<1> SUFFICES ASSUME IInv, [Next]_vars PROVE SubmitterOK'
  OBVIOUS
<1> USE DEF IInv, SubmitterOK, l2vars, l1vars, db, view, exec, subm
<1>0. /\ Len(outputs) \in Nat /\ Len(outputs') \in Nat
      /\ Len(queue) \in Nat /\ Len(tx) \in Nat
  BY TypeStep, LastEnd DEF TypeOK
<1>1. ASSUME queue' = queue PROVE Piece(queue)'
  BY <1>0, <1>1, TableStep DEF Piece
<1>2. ASSUME tx' = tx PROVE Piece(tx)'
  BY <1>0, <1>2, TableStep DEF Piece
<1>3. ASSUME SubmitterDie, UNCHANGED <<tx, txStatus>> PROVE SubmitterOK'
  <2>1. Piece(queue)'
    BY <1>3, EmptySeq DEF SubmitterDie, Piece
  <2> QED
    BY <1>2, <1>3, <2>1 DEF SubmitterDie
<1>4. CASE ReadDB
  <2>1. /\ Len(queue') = IF syncedIndex <= Len(outputs)
                         THEN Len(outputs) - syncedIndex + 1 ELSE 0
        /\ \A k \in 1 .. Len(queue') :
             /\ queue'[k] = outputs[syncedIndex + k - 1]
             /\ syncedIndex + k - 1 \in 1 .. Len(outputs)
    BY <1>0, <1>4, Part DEF ReadDB, Visible, TypeOK
  <2>2. \A k \in 1 .. Len(queue') : queue'[k].index = syncedIndex + k - 1
    BY <2>1 DEF ExecutorOK, TablesOK, Partition
  <2>3. Len(queue') \in Nat /\ syncedIndex \in Nat
    BY <1>0, <2>1 DEF TypeOK
  <2>4. \A k \in 1 .. Len(queue') : 1 \in 1 .. Len(queue')
    BY <2>3
  <2>5. outputs' = outputs /\ tx' = tx /\ txStatus' = txStatus
    BY <1>4 DEF ReadDB
  <2>6. Piece(queue)'
    <3> SUFFICES ASSUME NEW k \in 1 .. Len(queue')
                 PROVE  /\ queue'[k].index \in 1 .. Len(outputs)
                        /\ queue'[k] = outputs[queue'[k].index]
                        /\ queue'[k].index = queue'[1].index + k - 1
      BY <2>5 DEF Piece
    <3>1. queue'[k].index = syncedIndex + k - 1
      BY <2>2
    <3>2. queue'[1].index = syncedIndex + 1 - 1
      BY <2>2, <2>4
    <3> QED
      BY <2>1, <2>3, <3>1, <3>2
  <2>7. spc' = "propose" => queue' # <<>>
    BY <1>4 DEF ReadDB
  <2> QED
    BY <1>2, <2>5, <2>6, <2>7
<1>5. CASE Propose
  <2>1. /\ ChunkSize \in Nat /\ ChunkSize <= Len(queue) /\ ChunkSize # 0
    BY <1>5, ChunkSizes DEF Propose
  <2>2. /\ Len(tx') = ChunkSize
        /\ \A k \in 1 .. ChunkSize : tx'[k] = queue[k] /\ k \in 1 .. Len(queue)
    <3>1. 1 \in Nat \ {0} /\ queue \in Seq(Outputs)
      BY DEF TypeOK
    <3>2. tx' = SubSeq(queue, 1, ChunkSize)
      BY <1>5 DEF Propose, Chunk
    <3>3. Len(tx') = ChunkSize
      BY <2>1, <3>1, <3>2, Part
    <3> QED
      BY <2>1, <3>1, <3>2, <3>3, Part
  <2>3. 1 \in 1 .. ChunkSize
    BY <2>1
  <2>4. outputs' = outputs /\ queue' = queue /\ spc' = spc
    BY <1>5 DEF Propose
  <2>5. Piece(tx)'
    BY <2>2, <2>3, <2>4 DEF Piece
  <2>6. tx' # <<>>
    BY <2>1, <2>2, EmptySeq
  <2> QED
    BY <1>1, <2>4, <2>5, <2>6
<1>6. CASE Proposed
  <2>1. ChunkSize \in Nat /\ ChunkSize <= Len(queue)
    BY ChunkSizes
  <2>2. /\ Len(queue') \in Nat
        /\ \A k \in 1 .. Len(queue') : /\ queue'[k] = queue[ChunkSize + k]
                                       /\ ChunkSize + k \in 1 .. Len(queue)
    <3>1. /\ ChunkSize + 1 \in Nat \ {0} /\ queue \in Seq(Outputs)
          /\ Len(queue) \in Nat
      BY <1>0, <2>1 DEF TypeOK
    <3>2. queue' = SubSeq(queue, ChunkSize + 1, Len(queue))
      BY <1>6 DEF Proposed
    <3>3. \A k \in 1 .. Len(queue') :
            /\ queue'[k] = queue[ChunkSize + 1 + k - 1]
            /\ ChunkSize + 1 + k - 1 \in 1 .. Len(queue)
      BY <3>1, <3>2, Part
    <3>4. Len(queue') \in Nat
      BY TypeStep, LastEnd DEF TypeOK
    <3> QED
      BY <2>1, <3>3, <3>4
  <2>3. \A k \in 1 .. Len(queue') : 1 \in 1 .. Len(queue')
    BY <2>2
  <2>4. outputs' = outputs /\ tx' = tx /\ txStatus' = txStatus
    BY <1>6 DEF Proposed
  <2>5. Piece(queue)'
    <3> SUFFICES ASSUME NEW k \in 1 .. Len(queue')
                 PROVE  /\ queue'[k].index \in 1 .. Len(outputs)
                        /\ queue'[k] = outputs[queue'[k].index]
                        /\ queue'[k].index = queue'[1].index + k - 1
      BY <2>4 DEF Piece
    <3> DEFINE j == ChunkSize + k
    <3>1. 1 \in 1 .. Len(queue') /\ 1 \in 1 .. Len(queue)
      BY <1>0, <2>1, <2>2, <2>3
    <3>2. /\ j \in 1 .. Len(queue) /\ queue'[k] = queue[j]
          /\ ChunkSize + 1 \in 1 .. Len(queue)
          /\ queue'[1] = queue[ChunkSize + 1]
      BY <2>2, <3>1
    <3>3. /\ queue[j].index \in 1 .. Len(outputs)
          /\ queue[j] = outputs[queue[j].index]
          /\ queue[j].index = queue[1].index + j - 1
      BY <3>2 DEF Piece
    <3>4. queue[ChunkSize + 1].index = queue[1].index + (ChunkSize + 1) - 1
      BY <3>2 DEF Piece
    <3>5. queue[1].index \in Nat
      BY <1>0, <3>1 DEF Piece
    <3> QED
      BY <2>1, <3>2, <3>3, <3>4, <3>5
  <2>6. spc' = "propose" => queue' # <<>>
    BY <1>6 DEF Proposed
  <2> QED
    BY <1>2, <2>4, <2>5, <2>6
<1>7. CASE ReadL1 \/ SubmitterStart
  BY <1>1, <1>2, <1>7 DEF ReadL1, SubmitterStart
<1>8. CASE L1Deliver \/ L1Drop
  BY <1>1, <1>2, <1>8 DEF L1Deliver, L1Drop
<1>9. CASE UNCHANGED <<tx, txStatus, spc, queue>>
  BY <1>1, <1>2, <1>9
<1> QED
  BY <1>3, <1>4, <1>5, <1>6, <1>7, <1>8, <1>9
     DEF Next, Executor, Submitter, NewL2Block, DeleteOutput,
         ExecutorCrash, ExecutorStart, Poll, PollNothing, HandleBlock,
         BlockBreak, BlocksDone, Commit, SubmitterCrash, SubmitterDie,
         ProposeThrow, vars

-----------------------------------------------------------------------------
(* What L1's rule on end blocks implies: a transaction that L1 accepts     *)
(* proposes outputs after all those L1 has.                                *)
LEMMA AcceptedIsNext ==
  ASSUME IInv, Accepts(oracle, tx)
  PROVE  \A k \in 1 .. Len(tx) :
           /\ Len(oracle) + k <= tx[k].index
           /\ \A i \in 1 .. Len(oracle) : oracle[i].index < tx[k].index
<1> SUFFICES ASSUME NEW k \in 1 .. Len(tx)
             PROVE  /\ Len(oracle) + k <= tx[k].index
                    /\ \A i \in 1 .. Len(oracle) :
                         oracle[i].index < tx[k].index
  OBVIOUS
<1> DEFINE n == Len(oracle)
<1> USE DEF IInv
<1>1. /\ n \in Nat /\ Len(tx) \in Nat /\ Len(outputs) \in Nat
      /\ oracle = <<>> <=> n = 0
  BY LastEnd DEF TypeOK
<1>2. 1 \in 1 .. Len(tx)
  BY <1>1
<1>3. /\ tx[1].index \in 1 .. Len(outputs)
      /\ tx[1] = outputs[tx[1].index]
      /\ tx[k].index = tx[1].index + k - 1
  BY <1>2 DEF SubmitterOK, Piece
<1>4. \A i \in 1 .. n : oracle[i].index \in Nat
  BY OutputFields DEF TypeOK
<1>5. CASE n = 0
  BY <1>1, <1>3, <1>5
<1>6. CASE n # 0
  <2>1. n \in 1 .. n
    BY <1>1, <1>6
  <2> DEFINE q == oracle[n].index
  <2>2. n <= q /\ q <= Len(outputs) /\ oracle[n] = outputs[q]
    BY <2>1 DEF OracleOK
  <2>3. q \in 1 .. Len(outputs)
    BY <1>1, <1>4, <1>6, <2>1, <2>2
  <2>4. tx[1].end > EndOf(oracle)
    BY <1>2 DEF Accepts
  <2>5. outputs[tx[1].index].end > outputs[q].end
    BY <1>1, <1>3, <1>6, <2>2, <2>4 DEF EndOf
  <2>6. q < tx[1].index
    <3> SUFFICES ASSUME tx[1].index <= q PROVE FALSE
      BY <1>3, <2>3
    <3>1. \A i \in 1 .. Len(outputs) : outputs[i].end \in Nat
      BY OutputFields DEF TypeOK
    <3>2. CASE tx[1].index = q
      BY <1>3, <2>3, <2>5, <3>1, <3>2
    <3>3. CASE tx[1].index # q
      <4>1. tx[1].index < q
        BY <1>3, <2>3, <3>3
      <4>2. outputs[tx[1].index].end < outputs[q].end
        BY <1>3, <2>3, <4>1 DEF ExecutorOK, TablesOK, Partition
      <4> QED
        BY <1>3, <2>3, <2>5, <3>1, <4>2
    <3> QED
      BY <3>2, <3>3
  <2>7. ASSUME NEW i \in 1 .. n PROVE oracle[i].index <= q
    <3>1. i < n \/ i = n
      BY <1>1
    <3>2. i < n => oracle[i].index < q
      BY <2>1 DEF OracleOK
    <3> QED
      BY <1>4, <2>1, <3>1, <3>2
  <2> QED
    BY <1>1, <1>3, <1>4, <2>2, <2>3, <2>6, <2>7
<1> QED
  BY <1>5, <1>6

(* How L1's log changes.                                                   *)
LEMMA DeliverStep ==
  ASSUME IInv, L1Deliver, oracle' # oracle
  PROVE  /\ Accepts(oracle, tx)
         /\ Len(oracle) \in Nat /\ Len(tx) \in Nat
         /\ Len(oracle') = Len(oracle) + Len(tx)
         /\ \A i \in 1 .. Len(oracle') :
              oracle'[i] = IF i <= Len(oracle) THEN oracle[i]
                           ELSE tx[i - Len(oracle)]
<1>1. Accepts(oracle, tx) /\ oracle' = oracle \o tx
  BY DEF L1Deliver
<1> QED
  BY <1>1, ConcatProperties, LastEnd DEF IInv, TypeOK

LEMMA DeleteStep ==
  ASSUME IInv, DeleteOutput
  PROVE  /\ Len(oracle') \in Nat /\ Len(oracle') <= Len(oracle)
         /\ \A i \in 1 .. Len(oracle') : oracle'[i] = oracle[i]
<1>1. PICK i \in 1 .. Len(oracle) : oracle' = SubSeq(oracle, 1, i - 1)
  BY DEF DeleteOutput
<1>2. oracle \in Seq(Outputs) /\ Len(oracle) \in Nat
  BY LastEnd DEF IInv, TypeOK
<1>3. i - 1 \in Nat /\ i - 1 <= Len(oracle) /\ 1 \in Nat \ {0}
  BY <1>2
<1>4. Len(oracle') = IF 1 <= i - 1 THEN (i - 1) - 1 + 1 ELSE 0
  BY <1>1, <1>2, <1>3, Part
<1>5. \A k \in 1 .. Len(oracle') : oracle'[k] = oracle[1 + k - 1]
  BY <1>1, <1>2, <1>3, Part
<1>6. Len(oracle') \in Nat /\ Len(oracle') <= Len(oracle)
  BY <1>2, <1>3, <1>4
<1> QED
  BY <1>5, <1>6

(* L1 has committed outputs only, in the order of the table.               *)
LEMMA OracleStep == IInv /\ [Next]_vars => OracleOK'
<1> SUFFICES ASSUME IInv, [Next]_vars PROVE OracleOK'
  OBVIOUS
<1> USE DEF OracleOK
<1>0. /\ Len(oracle) \in Nat /\ Len(outputs) \in Nat /\ Len(outputs') \in Nat
      /\ Len(outputs) <= Len(outputs')
      /\ \A i \in 1 .. Len(outputs) : outputs'[i] = outputs[i]
  BY TableStep, TypeStep, LastEnd DEF IInv, TypeOK
<1>1. \A i \in 1 .. Len(oracle) :
        /\ oracle[i].index \in Nat /\ i <= oracle[i].index
        /\ oracle[i].index <= Len(outputs)
        /\ oracle[i] = outputs[oracle[i].index]
  BY OutputFields DEF IInv, TypeOK
<1>2. \A i \in 1 .. Len(oracle) :
        /\ oracle[i].index <= Len(outputs')
        /\ oracle[i] = outputs'[oracle[i].index]
  BY <1>0, <1>1
<1>3. CASE oracle' = oracle
  BY <1>2, <1>3 DEF IInv
<1>4. CASE L1Deliver /\ oracle' # oracle
  <2>1. outputs' = outputs
    BY <1>4 DEF L1Deliver, db
  <2>2. \A k \in 1 .. Len(tx) :
          /\ Len(oracle) + k <= tx[k].index
          /\ tx[k].index \in 1 .. Len(outputs)
          /\ tx[k] = outputs[tx[k].index]
          /\ tx[k].index = tx[1].index + k - 1
          /\ \A i \in 1 .. Len(oracle) : oracle[i].index < tx[k].index
    BY <1>4, AcceptedIsNext, DeliverStep DEF IInv, SubmitterOK, Piece
  <2>3. /\ Len(tx) \in Nat /\ Len(oracle') = Len(oracle) + Len(tx)
        /\ \A i \in 1 .. Len(oracle') :
             oracle'[i] = IF i <= Len(oracle) THEN oracle[i]
                          ELSE tx[i - Len(oracle)]
    BY <1>4, DeliverStep
  <2>4. ASSUME NEW i \in 1 .. Len(oracle')
        PROVE  \/ i \in 1 .. Len(oracle) /\ oracle'[i] = oracle[i]
               \/ /\ i - Len(oracle) \in 1 .. Len(tx)
                  /\ i > Len(oracle)
                  /\ oracle'[i] = tx[i - Len(oracle)]
    BY <1>0, <2>3
  <2>5. ASSUME NEW i \in 1 .. Len(oracle')
        PROVE  /\ i <= oracle'[i].index /\ oracle'[i].index <= Len(outputs)
               /\ oracle'[i] = outputs[oracle'[i].index]
    <3>1. CASE i \in 1 .. Len(oracle) /\ oracle'[i] = oracle[i]
      BY <1>1, <3>1
    <3>2. CASE /\ i - Len(oracle) \in 1 .. Len(tx)
               /\ oracle'[i] = tx[i - Len(oracle)]
      <4> DEFINE k == i - Len(oracle)
      <4>1. /\ Len(oracle) + k <= tx[k].index
            /\ tx[k].index \in 1 .. Len(outputs)
            /\ tx[k] = outputs[tx[k].index]
        BY <2>2, <3>2
      <4>2. Len(oracle) + k = i
        BY <1>0, <2>3
      <4> QED
        BY <1>0, <3>2, <4>1, <4>2
    <3> QED
      BY <2>4, <3>1, <3>2
  <2>6. ASSUME NEW i \in 1 .. Len(oracle'), NEW j \in 1 .. Len(oracle'), i < j
        PROVE  oracle'[i].index < oracle'[j].index
    <3>1. CASE j \in 1 .. Len(oracle)
      <4>1. i \in 1 .. Len(oracle)
        BY <1>0, <2>6, <3>1
      <4> QED
        BY <1>0, <2>3, <2>6, <3>1, <4>1 DEF IInv
    <3>2. CASE j > Len(oracle) /\ i \in 1 .. Len(oracle)
      <4>1. oracle'[i] = oracle[i]
        BY <1>0, <2>4, <3>2
      <4>2. /\ j - Len(oracle) \in 1 .. Len(tx)
            /\ oracle'[j] = tx[j - Len(oracle)]
        BY <1>0, <2>4, <3>2
      <4>3. oracle[i].index < tx[j - Len(oracle)].index
        BY <2>2, <3>2, <4>2
      <4> QED
        BY <4>1, <4>2, <4>3
    <3>3. CASE j > Len(oracle) /\ i > Len(oracle)
      <4> DEFINE a == i - Len(oracle)
                 b == j - Len(oracle)
      <4>1. /\ a \in 1 .. Len(tx) /\ b \in 1 .. Len(tx) /\ a < b
            /\ 1 \in 1 .. Len(tx)
            /\ oracle'[i] = tx[a] /\ oracle'[j] = tx[b]
        BY <1>0, <2>3, <2>6, <3>3
      <4>2. /\ tx[a].index = tx[1].index + a - 1
            /\ tx[b].index = tx[1].index + b - 1
            /\ tx[1].index \in Nat
        BY <1>0, <2>2, <4>1
      <4> HIDE DEF a, b
      <4> QED
        BY <4>1, <4>2
    <3> QED
      BY <1>0, <2>3, <3>1, <3>2, <3>3
  <2> QED
    BY <2>1, <2>5, <2>6
<1>5. CASE DeleteOutput
  BY <1>0, <1>2, <1>5, DeleteStep DEF IInv
<1> QED
  BY <1>3, <1>4, <1>5
     DEF Next, Executor, Submitter, NewL2Block, L1Drop, ExecutorCrash,
         ExecutorStart, Poll, PollNothing, HandleBlock, BlockBreak,
         BlocksDone, Commit, SubmitterCrash, SubmitterDie, SubmitterStart,
         ReadL1, ReadDB, Propose, Proposed, ProposeThrow, vars, l1vars

-----------------------------------------------------------------------------
(* Until the first deletion, output i on L1 is the executor's output i and *)
(* the executor is at most one output ahead.                               *)
LEMMA LockstepStep == IInv /\ [Next]_vars => LockstepOK'
<1> SUFFICES ASSUME IInv, [Next]_vars, deletes' = 0
             PROVE  /\ \A i \in 1 .. Len(oracle') : oracle'[i].index = i
                    /\ Len(myOutputs') <= Len(oracle') + 1
  BY DEF LockstepOK
<1>1. deletes = 0 /\ ~DeleteOutput
  BY DEF IInv, TypeOK, Next, DeleteOutput, Executor, Submitter, NewL2Block,
         L1Deliver, L1Drop, ExecutorCrash, ExecutorStart, Poll, PollNothing,
         HandleBlock, BlockBreak, BlocksDone, Commit, SubmitterCrash,
         SubmitterDie, SubmitterStart, ReadL1, ReadDB, Propose, Proposed,
         ProposeThrow, vars, l1vars
<1>2. /\ \A i \in 1 .. Len(oracle) : oracle[i].index = i
      /\ Len(myOutputs) <= Len(oracle) + 1
  BY <1>1 DEF IInv, LockstepOK
<1>3. /\ Len(oracle) \in Nat /\ Len(outputs) \in Nat
      /\ Len(myOutputs) \in Nat /\ Len(outputs) <= Len(myOutputs)
  BY LastEnd DEF IInv, TypeOK, ExecutorOK, Prefix
<1>4. CASE L1Deliver /\ oracle' # oracle
  <2>1. /\ Accepts(oracle, tx)
        /\ Len(tx) \in Nat /\ Len(oracle') = Len(oracle) + Len(tx)
        /\ \A i \in 1 .. Len(oracle') :
             oracle'[i] = IF i <= Len(oracle) THEN oracle[i]
                          ELSE tx[i - Len(oracle)]
    BY <1>4, DeliverStep
  <2>2. \A k \in 1 .. Len(tx) : /\ Len(oracle) + k <= tx[k].index
                                /\ tx[k].index \in 1 .. Len(outputs)
    BY <2>1, AcceptedIsNext DEF IInv, SubmitterOK, Piece
  <2>3. ASSUME NEW i \in 1 .. Len(oracle') PROVE oracle'[i].index = i
    <3>1. CASE i \in 1 .. Len(oracle)
      BY <1>2, <1>3, <2>1, <3>1
    <3>2. CASE i \notin 1 .. Len(oracle)
      <4> DEFINE k == i - Len(oracle)
      <4>1. k \in 1 .. Len(tx) /\ oracle'[i] = tx[k] /\ Len(oracle) + k = i
        BY <1>3, <2>1, <3>2
      <4>2. i <= tx[k].index /\ tx[k].index \in 1 .. Len(outputs)
        BY <2>2, <4>1
      <4>3. tx[k].index <= Len(oracle) + 1 /\ i >= Len(oracle) + 1
        BY <1>2, <1>3, <2>1, <3>2, <4>2
      <4> HIDE DEF k
      <4> QED
        BY <1>3, <2>1, <4>1, <4>2, <4>3
    <3> QED
      BY <3>1, <3>2
  <2>4. myOutputs' = myOutputs
    BY <1>4 DEF L1Deliver, exec, view
  <2> QED
    BY <1>2, <1>3, <2>1, <2>3, <2>4
<1>5. CASE HandleBlock
  <2>1. oracle' = oracle
    BY <1>5 DEF HandleBlock, l1vars
  <2>2. CASE myOutputs' = myOutputs
    BY <1>2, <2>1, <2>2
  <2>3. CASE myOutputs' # myOutputs
    <3>1. /\ myOutputs' = Append(myOutputs, NewOutput(myIndexOf'))
          /\ NewOutput(myIndexOf') \in Outputs
          /\ Len(oracle) = Len(myOutputs)
      BY <1>5, <2>3, BlockOutput
    <3>2. Len(myOutputs') = Len(myOutputs) + 1
      BY <3>1, AppendProperties DEF IInv, TypeOK
    <3> QED
      BY <1>2, <1>3, <2>1, <3>1, <3>2
  <2> QED
    BY <2>2, <2>3
<1>6. CASE ExecutorCrash
  BY <1>2, <1>3, <1>6 DEF ExecutorCrash, l1vars
<1>7. CASE UNCHANGED <<oracle, myOutputs>>
  BY <1>2, <1>7
<1> QED
  BY <1>1, <1>4, <1>5, <1>6, <1>7
     DEF Next, Executor, Submitter, NewL2Block, L1Deliver, L1Drop,
         ExecutorStart, Poll, PollNothing, BlockBreak, BlocksDone, Commit,
         SubmitterCrash, SubmitterDie, SubmitterStart, ReadL1, ReadDB,
         Propose, Proposed, ProposeThrow, vars, l1vars, exec, view

-----------------------------------------------------------------------------
(* The invariant holds of every behaviour.                                 *)

LEMMA InvInit == Init => IInv
<1> SUFFICES ASSUME Init PROVE IInv
  OBVIOUS
<1> USE DEF Init
<1>1. TypeOK
  BY PipelineAssumption, EmptySeq DEF TypeOK
<1>2. ExecutorOK
  <2>1. TablesOK(outputs, indexOf, dbSynced)
    BY <1>1, EmptyTables DEF TypeOK
  <2> QED
    BY <2>1, EmptySeq DEF ExecutorOK, Prefix
<1>3. SubmitterOK
  BY EmptySeq DEF SubmitterOK, Piece
<1>4. OracleOK /\ LockstepOK
  BY EmptySeq DEF OracleOK, LockstepOK
<1> QED
  BY <1>1, <1>2, <1>3, <1>4 DEF IInv

LEMMA InvStep == IInv /\ [Next]_vars => IInv'
BY TypeStep, ExecutorStep, SubmitterStep, OracleStep, LockstepStep DEF IInv

LEMMA Invariance == Spec => []IInv
BY InvInit, InvStep, PTL DEF Spec

-----------------------------------------------------------------------------
(* The theorems *)

(* Every variable has its type in every reachable state.                   *)
THEOREM TypeCorrect == Spec => []TypeOK
<1>1. IInv => TypeOK
  BY DEF IInv
<1> QED
  BY <1>1, Invariance, PTL

(* The outputs partition the L2 blocks: handleOutput computes the range of *)
(* a new output from what L1 stores, and it follows the last one of the    *)
(* database (l2.ts, helper.ts).                                            *)
THEOREM RangesContiguous == Spec => []OutputsContiguous
<1>1. IInv => OutputsContiguous
  BY DEF IInv, ExecutorOK, TablesOK, Partition, OutputsContiguous
<1> QED
  BY <1>1, Invariance, PTL

(* A stored withdrawal is under the root of the output it was assigned to  *)
(* before that output existed (l2.ts).                                     *)
THEOREM StoredAreProvable == Spec => []WithdrawalsProvable
<1>1. IInv => WithdrawalsProvable
  BY DEF IInv, ExecutorOK, TablesOK, Rooted, WithdrawalsProvable
<1> QED
  BY <1>1, Invariance, PTL

(* L1 holds committed outputs only, each once and in order, whatever the   *)
(* submitter proposes again (outputSubmitter.ts).                          *)
THEOREM ProposedOnce == Spec => []OnL1OnceInOrder
<1>1. IInv => OnL1OnceInOrder
  <2> SUFFICES ASSUME IInv, NEW i \in 1 .. Len(oracle)
        PROVE  /\ \E j \in 1 .. Len(outputs) : oracle[i] = outputs[j]
               /\ i > 1 => oracle[i - 1].index < oracle[i].index
    BY DEF OnL1OnceInOrder
  <2>1. oracle[i].index \in Nat /\ Len(oracle) \in Nat
    BY OutputFields, LastEnd DEF IInv, TypeOK
  <2>2. /\ oracle[i].index \in 1 .. Len(outputs)
        /\ oracle[i] = outputs[oracle[i].index]
    BY <2>1, LastEnd DEF IInv, OracleOK, TypeOK
  <2>3. i > 1 => i - 1 \in 1 .. Len(oracle) /\ i - 1 < i
    BY <2>1
  <2> QED
    BY <2>2, <2>3 DEF IInv, OracleOK
<1> QED
  BY <1>1, Invariance, PTL

(* saveEntity never overwrites an output (helper.ts).                      *)
THEOREM OutputsForGood == Spec => NeverRewritten
<1>1. IInv /\ [Next]_vars =>
        [/\ Len(outputs) <= Len(outputs')
         /\ \A i \in 1 .. Len(outputs) : outputs'[i] = outputs[i]]_vars
  BY TableStep
<1> QED
  BY <1>1, Invariance, PTL DEF Spec, NeverRewritten

-----------------------------------------------------------------------------
(* Refinement *)

Range2 == Nat \X Nat

LEMMA RangesSeq ==
  ASSUME NEW s \in Seq(Outputs)
  PROVE  /\ Ranges(s) \in Seq(Range2)
         /\ Len(Ranges(s)) = Len(s)
         /\ \A i \in 1 .. Len(s) : Ranges(s)[i] = <<s[i].start, s[i].end>>
<1>1. Len(s) \in Nat
  BY LastEnd
<1>2. \A i \in 1 .. Len(s) : <<s[i].start, s[i].end>> \in Range2
  <2> TAKE i \in 1 .. Len(s)
  <2>1. s[i] \in Outputs
    BY ElementOfSeq
  <2> QED
    BY <2>1 DEF Outputs, Range2
<1>3. Ranges(s) \in [1 .. Len(s) -> Range2]
  BY <1>2 DEF Ranges
<1>4. Ranges(s) \in Seq(Range2)
  BY <1>1, <1>3, SeqDef
<1>5. Len(Ranges(s)) = Len(s)
  BY <1>1, <1>3, <1>4, LenProperties
<1> QED
  BY <1>4, <1>5 DEF Ranges

LEMMA RangesEqual ==
  ASSUME NEW s \in Seq(Outputs), NEW t \in Seq(Outputs), Len(s) = Len(t),
         \A i \in 1 .. Len(s) : s[i] = t[i]
  PROVE  Ranges(s) = Ranges(t)
BY DEF Ranges

(* Until the first deletion L1 has all outputs but at most the last.       *)
LEMMA InLockstep ==
  ASSUME IInv, deletes = 0
  PROVE  /\ Len(oracle) \in Nat /\ Len(outputs) \in Nat
         /\ Len(myOutputs) \in Nat
         /\ Len(oracle) <= Len(outputs) /\ Len(outputs) <= Len(myOutputs)
         /\ Len(myOutputs) <= Len(oracle) + 1
         /\ \A i \in 1 .. Len(oracle) : oracle[i] = outputs[i]
<1>1. /\ Len(oracle) \in Nat /\ Len(outputs) \in Nat
      /\ Len(myOutputs) \in Nat
  BY LastEnd DEF IInv, TypeOK
<1>2. /\ Len(outputs) <= Len(myOutputs) /\ Len(myOutputs) <= Len(oracle) + 1
      /\ \A i \in 1 .. Len(oracle) : oracle[i].index = i
  BY DEF IInv, ExecutorOK, Prefix, LockstepOK
<1>3. \A i \in 1 .. Len(oracle) : i <= Len(outputs) /\ oracle[i] = outputs[i]
  BY <1>2 DEF IInv, OracleOK
<1>4. Len(oracle) <= Len(outputs)
  BY <1>1, <1>3
<1> QED
  BY <1>1, <1>2, <1>3, <1>4

LEMMA DeletesStep ==
  ASSUME TypeOK, [Next]_vars
  PROVE  IF DeleteOutput THEN deletes' > 0 ELSE deletes' = deletes
BY DEF TypeOK, Next, Executor, Submitter, NewL2Block, L1Deliver,
       L1Drop, DeleteOutput, ExecutorCrash, ExecutorStart, Poll, PollNothing,
       HandleBlock, BlockBreak, BlocksDone, Commit, SubmitterCrash,
       SubmitterDie, SubmitterStart, ReadL1, ReadDB, Propose, Proposed,
       ProposeThrow, vars, l1vars

LEMMA LogStep ==
  ASSUME IInv, deletes = 0, [Next]_vars, ~DeleteOutput
  PROVE  [Log!LNext]_(Log!lvars)
<1> DEFINE m == Len(outputs)
<1>4. /\ Len(oracle) \in Nat /\ m \in Nat /\ Len(myOutputs) \in Nat
      /\ Len(oracle) <= m /\ m <= Len(myOutputs)
      /\ Len(myOutputs) <= Len(oracle) + 1
      /\ \A i \in 1 .. Len(oracle) : oracle[i] = outputs[i]
  BY InLockstep
<1> USE <1>4
<1>5. (deletes > 0)' = (deletes > 0)
  BY DeletesStep DEF IInv
<1>0. outputs \in Seq(Outputs) /\ oracle \in Seq(Outputs)
      /\ myOutputs \in Seq(Outputs)
      /\ outputs' \in Seq(Outputs) /\ oracle' \in Seq(Outputs)
  BY TypeStep DEF IInv, TypeOK
<1>1. CASE L1Deliver /\ oracle' # oracle
  <2>1. /\ Accepts(oracle, tx)
        /\ Len(tx) \in Nat /\ Len(oracle') = Len(oracle) + Len(tx)
        /\ \A i \in 1 .. Len(oracle') :
             oracle'[i] = IF i <= Len(oracle) THEN oracle[i]
                          ELSE tx[i - Len(oracle)]
    BY <1>1, DeliverStep
  <2>2. \A k \in 1 .. Len(tx) : /\ Len(oracle) + k <= tx[k].index
                                /\ tx[k].index \in 1 .. m
                                /\ tx[k] = outputs[tx[k].index]
    BY <2>1, AcceptedIsNext DEF IInv, SubmitterOK, Piece
  <2>3. Len(tx) # 0
    BY <1>1, LastEnd DEF IInv, TypeOK, SubmitterOK, L1Deliver
  <2>4. 1 \in 1 .. Len(tx) /\ Len(tx) \in 1 .. Len(tx)
    BY <2>1, <2>3
  <2>5. Len(tx) = 1 /\ m = Len(oracle) + 1 /\ tx[1] = outputs[m]
    <3>1. Len(oracle) + Len(tx) <= m
      BY <2>1, <2>2, <2>4
    <3>2. Len(tx) = 1 /\ m = Len(oracle) + 1
      <4>1. Len(tx) \in Nat \ {0}
        BY <2>1, <2>3
      <4>2. Len(oracle) \in Nat /\ m \in Nat /\ m <= Len(oracle) + 1
        OBVIOUS
      <4>3. \A a, b \in Nat, c \in Nat \ {0} :
              a + c <= b /\ b <= a + 1 => c = 1 /\ b = a + 1
        OBVIOUS
      <4> QED
        BY <3>1, <4>1, <4>2, <4>3
    <3>3. tx[1].index = m
      BY <2>2, <2>4, <3>2
    <3> QED
      BY <2>2, <2>4, <3>2, <3>3
  <2>6. Ranges(oracle') = Ranges(outputs)
    <3>1. Len(oracle') = m
      BY <2>1, <2>5
    <3>2. \A i \in 1 .. m : oracle'[i] = outputs[i]
      BY <2>1, <2>5, <3>1
    <3> QED
      BY <1>0, <3>1, <3>2, RangesEqual
  <2>7. Ranges(oracle) # Ranges(outputs)
    BY <1>0, <2>5, RangesSeq
  <2>8. outputs' = outputs
    BY <1>1 DEF L1Deliver, db
  <2> QED
    BY <1>5, <2>6, <2>7, <2>8 DEF Log!LNext, Log!Publish, Ranges
<1>2. CASE Commit
  <2>1. outputs' = myOutputs /\ oracle' = oracle
    BY <1>2 DEF Commit, l1vars
  <2>2. \A i \in 1 .. m : myOutputs[i] = outputs[i]
    BY DEF IInv, ExecutorOK, Prefix
  <2>3. CASE Len(myOutputs) = m
    <3>1. Ranges(outputs') = Ranges(outputs)
      BY <1>0, <2>1, <2>2, <2>3, RangesEqual
    <3>2. Ranges(oracle') = Ranges(oracle)
      BY <2>1
    <3> QED
      BY <1>5, <3>1, <3>2 DEF Log!lvars, Ranges
  <2>4. CASE Len(myOutputs) # m
    <3> DEFINE o == myOutputs[m + 1]
    <3>1. Len(myOutputs) = m + 1 /\ Len(oracle) = m
      BY <2>4
    <3>2. Ranges(oracle) = Ranges(outputs)
      BY <1>0, <3>1, RangesEqual
    <3>3. epc # "down"
      BY <1>2 DEF Commit
    <3>4. /\ o.start = IF m = 0 THEN 1 ELSE outputs[m].end + 1
          /\ o.start <= o.end
      <4>1. m + 1 \in 1 .. Len(myOutputs) /\ (m # 0 => m \in 1 .. m)
        BY <3>1
      <4>2. /\ o.start = (IF m + 1 = 1 THEN 1 ELSE myOutputs[m + 1 - 1].end + 1)
            /\ o.start <= o.end
        BY <3>3, <4>1 DEF IInv, ExecutorOK, TablesOK, Partition
      <4> QED
        BY <2>2, <4>1, <4>2
    <3>5. o.start \in Nat /\ o.end \in Nat
      <4>1. m + 1 \in 1 .. Len(myOutputs)
        BY <3>1
      <4>2. o \in Outputs
        BY <1>0, <4>1, ElementOfSeq
      <4> QED
        BY <4>2 DEF Outputs
    <3>6. Log!LastBlock = IF m = 0 THEN 0 ELSE outputs[m].end
      <4>1. /\ Len(Ranges(outputs)) = m /\ (Ranges(outputs) = <<>> <=> m = 0)
            /\ m # 0 => Ranges(outputs)[m] = <<outputs[m].start, outputs[m].end>>
        BY <1>0, RangesSeq, EmptySeq
      <4> QED
        BY <4>1 DEF Log!LastBlock
    <3>7. o.start = Log!LastBlock + 1 /\ o.end > Log!LastBlock
      <4>1. m # 0 => outputs[m].end \in Nat
        BY <1>0, OutputFields
      <4> QED
        BY <3>4, <3>5, <3>6, <4>1
    <3> DEFINE r == <<Log!LastBlock + 1, o.end>>
    <3>8. Ranges(myOutputs) = Append(Ranges(outputs), r)
      <4>1. /\ Ranges(myOutputs) \in Seq(Range2)
            /\ Ranges(outputs) \in Seq(Range2)
            /\ Len(Ranges(myOutputs)) = m + 1 /\ Len(Ranges(outputs)) = m
        BY <1>0, <3>1, RangesSeq
      <4>2. r \in Range2
        BY <3>5, <3>7 DEF Range2
      <4>3. /\ Append(Ranges(outputs), r) \in Seq(Range2)
            /\ Len(Append(Ranges(outputs), r)) = m + 1
            /\ \A i \in 1 .. m : Append(Ranges(outputs), r)[i] = Ranges(outputs)[i]
            /\ Append(Ranges(outputs), r)[m + 1] = r
        BY <4>1, <4>2, AppendProperties
      <4>4. \A i \in 1 .. m : Ranges(myOutputs)[i] = Ranges(outputs)[i]
        <5> TAKE i \in 1 .. m
        <5>1. i \in 1 .. Len(myOutputs)
          BY <3>1
        <5>2. Ranges(myOutputs)[i] = <<myOutputs[i].start, myOutputs[i].end>>
          BY <1>0, <5>1, RangesSeq
        <5>3. Ranges(outputs)[i] = <<outputs[i].start, outputs[i].end>>
          BY <1>0, RangesSeq
        <5> QED
          BY <2>2, <5>2, <5>3
      <4>5. Ranges(myOutputs)[m + 1] = r
        BY <1>0, <3>1, <3>7, RangesSeq
      <4>6. \A i \in 1 .. m + 1 :
              Ranges(myOutputs)[i] = Append(Ranges(outputs), r)[i]
        BY <4>3, <4>4, <4>5
      <4> QED
        BY <4>1, <4>3, <4>6, SeqEqual
    <3>9. /\ Len(Ranges(myOutputs)) = Len(Ranges(outputs)) + 1
          /\ Ranges(myOutputs)[Len(Ranges(outputs)) + 1][2] = o.end
      <4>1. /\ Len(Ranges(myOutputs)) = m + 1 /\ Len(Ranges(outputs)) = m
            /\ m + 1 \in 1 .. Len(myOutputs)
        BY <1>0, <3>1, RangesSeq
      <4>2. Ranges(myOutputs)[m + 1] = <<o.start, o.end>>
        BY <1>0, <4>1, RangesSeq
      <4> QED
        BY <4>1, <4>2
    <3> QED
      BY <1>5, <2>1, <3>2, <3>5, <3>7, <3>8, <3>9
         DEF Log!LNext, Log!Extend, Log!LastBlock, Ranges
  <2> QED
    BY <2>3, <2>4
<1>3. CASE UNCHANGED <<outputs, oracle>>
  BY <1>3, <1>5 DEF Log!lvars, Ranges
<1> QED
  BY <1>1, <1>2, <1>3
     DEF Next, Executor, Submitter, NewL2Block, L1Deliver, L1Drop,
         ExecutorCrash, ExecutorStart, Poll, PollNothing, HandleBlock,
         BlockBreak, BlocksDone, SubmitterCrash, SubmitterDie, SubmitterStart,
         ReadL1, ReadDB, Propose, Proposed, ProposeThrow, vars, l1vars, db

(* After a deletion the log promises nothing, and none is ever taken back. *)
LEMMA DeletedStep ==
  ASSUME TypeOK, [Next]_vars, deletes # 0 \/ DeleteOutput
  PROVE  Log!LNext
<1>1. (deletes > 0)' = TRUE
  BY DeletesStep DEF TypeOK
<1> QED
  BY <1>1 DEF Log!LNext, Log!Deleted

(* Until outputs are deleted, executor and submitter together publish one  *)
(* log of outputs (l2.ts, outputSubmitter.ts).                             *)
THEOREM LogKept == Spec => KeepsLog
<1>1. Init => Log!LInit
  BY EmptySeq DEF Init, Log!LInit, Ranges
<1>2. IInv /\ [Next]_vars => [Log!LNext]_(Log!lvars)
  <2> SUFFICES ASSUME IInv, [Next]_vars
               PROVE  [Log!LNext]_(Log!lvars)
    OBVIOUS
  <2>1. CASE deletes # 0 \/ DeleteOutput
    BY <2>1, DeletedStep DEF IInv
  <2>2. CASE deletes = 0 /\ ~DeleteOutput
    BY <2>2, LogStep
  <2> QED
    BY <2>1, <2>2
<1> QED
  BY <1>1, <1>2, Invariance, PTL DEF Spec, KeepsLog, Log!LSpec
=============================================================================
