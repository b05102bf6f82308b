--------------------------- MODULE BatchSubmitter ---------------------------
(***************************************************************************)
(* The batch submitter (src/worker/batchSubmitter/batchSubmitter.ts): for  *)
(* every output the executor stores, the L2 blocks of its range are cut    *)
(* into bulks, each bulk is compressed and cut again into transactions for *)
(* the data-availability chain (L1 or Celestia), and a record of the       *)
(* transactions is stored.                                                 *)
(*                                                                         *)
(* The records of one output are saved in one database transaction, while  *)
(* the data is published from within it: a crash rolls the record back but *)
(* not the chain, and the output is published again.  A transaction hash   *)
(* is the place of the transaction on the chain; the size of compressed    *)
(* data is counted in blocks.                                              *)
(***************************************************************************)
EXTENDS Integers, Sequences, FiniteSets

CONSTANTS
  maxBulkSize,    \* blocks in one bulk (1000 in the code)
  maxBytes,       \* data in one transaction (500 kB in the code), in blocks
  MaxOutputSize,  \* bound: blocks of one output
  MaxHeight,      \* bound: L2 blocks under an output
  MaxFaults       \* bound: crashes, lost transactions and node failures

ASSUME BatchAssumption ==
  /\ maxBulkSize \in Nat \ {0}
  /\ maxBytes \in Nat \ {0}
  /\ MaxOutputSize \in Nat \ {0}
  /\ MaxHeight \in Nat
  /\ MaxFaults \in Nat

VARIABLES
  outputs,                     \* the executor's output table, as committed
  records, myRecords,          \* the record table, as committed and as seen
                               \*   inside the open transaction
  da, tx, txStatus,            \* the chain with the data, the submitter's
                               \*   last transaction and where it is
  pc, call, batchIndex,        \* the submitter: the output it works on, its
  bulk, batch, batchInfo,      \*   bulk, the data left of it and the hashes
  faults

vars == <<outputs, records, myRecords, da, tx, txStatus,
          pc, call, batchIndex, bulk, batch, batchInfo, faults>>

chain == <<da, tx, txStatus>>
work  == <<batchIndex, bulk, batch, batchInfo>>

(* L2 blocks from start to end; none when end < start.                     *)
Blocks == [start : Nat, end : Nat]
Nothing == [start |-> 1, end |-> 0]
Empty(b) == b.end < b.start

Records == [batchIndex : Nat, start : Nat, end : Nat, 
            batchInfo : Seq(Nat \ {0})]

TypeOK ==
  /\ outputs \in Seq(Blocks)
  /\ records \in Seq(Records)
  /\ myRecords \in Seq(Records)
  /\ da \in Seq(Blocks)
  /\ tx \in Blocks
  /\ txStatus \in {"none", "pending", "ok"}
  /\ pc \in {"down", "read", "fetch", "publish", "save", "commit"}
  /\ call \in {"idle", "sent"}
  /\ batchIndex \in Nat
  /\ bulk \in Blocks
  /\ batch \in Blocks
  /\ batchInfo \in Seq(Nat \ {0})
  /\ faults \in Nat

Init ==
  /\ outputs = <<>> /\ records = <<>> /\ myRecords = <<>>
  /\ da = <<>> /\ tx = Nothing /\ txStatus = "none"
  /\ pc = "down" /\ call = "idle" /\ batchIndex = 0
  /\ bulk = Nothing /\ batch = Nothing /\ batchInfo = <<>>
  /\ faults = 0

Fault == faults < MaxFaults /\ faults' = faults + 1

MinOf(a, b) == IF a <= b THEN a ELSE b

-----------------------------------------------------------------------------
(* Around the submitter *)

(* The executor commits an output: OutputPipeline shows that the ranges    *)
(* follow one another and that a stored output is never changed.           *)
NewOutput ==
  /\ \E n \in 1 .. MaxOutputSize :
       LET last == IF outputs = <<>> THEN 0 ELSE outputs[Len(outputs)].end
       IN  /\ last + n <= MaxHeight
           /\ outputs' = Append(outputs, [start |-> last + 1, end |-> last + n])
  /\ UNCHANGED <<records, myRecords, chain, pc, call, work, faults>>

Deliver ==
  /\ txStatus = "pending"
  /\ txStatus' = "ok" /\ da' = Append(da, tx)
  /\ UNCHANGED <<outputs, records, myRecords, tx, pc, call, work, faults>>

(* The mempool loses the transaction.                                      *)
Drop ==
  /\ txStatus = "pending" /\ Fault
  /\ txStatus' = "none"
  /\ UNCHANGED <<outputs, records, myRecords, da, tx, pc, call, work>>

-----------------------------------------------------------------------------
(* Any error leaves processBatch, rolls its transaction back and ends the  *)
(* process; pm2 starts it again.                                           *)
Die ==
  /\ pc' = "down" /\ call' = "idle"
  /\ batchIndex' = 0 /\ bulk' = Nothing /\ batch' = Nothing /\ batchInfo' = <<>>
  /\ myRecords' = records
  /\ UNCHANGED <<outputs, records, chain>>

(* A crash, a node that does not answer, no answer in ten minutes.         *)
Crash == pc # "down" /\ Fault /\ Die

Start ==
  /\ pc = "down" /\ pc' = "read"
  /\ UNCHANGED <<outputs, records, myRecords, chain, call, work, faults>>

-----------------------------------------------------------------------------
(* processBatch *)

(* A variant with a mistake has the mistake in its name.  No action uses   *)
(* these; they show which property notices.                                *)
NextBatchIndex_FromTwo == IF records = <<>> THEN 2
                          ELSE records[Len(records)].batchIndex + 1

NextBatchIndex == IF records = <<>> THEN 1
                  ELSE records[Len(records)].batchIndex + 1

BulkFrom_NoClamp(start, end) == [start |-> start,
                                 end   |-> start + maxBulkSize - 1]

BulkFrom(start, end) == [start |-> start,
                         end   |-> MinOf(start + maxBulkSize - 1, end)]

(* The output after the last record, if the executor has stored it.        *)
ReadOutput ==
  /\ pc = "read" /\ NextBatchIndex \in DOMAIN outputs
  /\ batchIndex' = NextBatchIndex
  /\ bulk' = BulkFrom(outputs[batchIndex'].start, outputs[batchIndex'].end)
  /\ pc' = "fetch"
  /\ UNCHANGED <<outputs, records, myRecords, chain, call, batch, batchInfo,
                 faults>>

(* No such output yet: ask again after INTERVAL_BATCH.                     *)
ReadNothing ==
  /\ pc = "read" /\ NextBatchIndex \notin DOMAIN outputs
  /\ UNCHANGED vars

(* getBatch: the blocks of the bulk and the commit of the last.            *)
GetBatch ==
  /\ pc = "fetch" /\ pc' = "publish"
  /\ batch' = bulk /\ batchInfo' = <<>>
  /\ UNCHANGED <<outputs, records, myRecords, chain, call, batchIndex, bulk,
                 faults>>

-----------------------------------------------------------------------------
(* publishBatch: one transaction after the other *)

SubData == [start |-> batch.start,
            end   |-> MinOf(batch.start + maxBytes - 1, batch.end)]

Rest_Dropped == Nothing

Rest == [batch EXCEPT !.start = SubData.end + 1]

(* Signed with the sequence number the node reports, broadcast, awaited.   *)
Publish ==
  /\ pc = "publish" /\ call = "idle" /\ ~Empty(batch) /\ txStatus # "pending"
  /\ call' = "sent" /\ tx' = SubData /\ txStatus' = "pending"
  /\ UNCHANGED <<outputs, records, myRecords, da, pc, work, faults>>

Included_Accepted == txStatus \in {"ok", "pending"}

Included == txStatus = "ok"

Published ==
  /\ pc = "publish" /\ call = "sent" /\ Included
  /\ call' = "idle"
  /\ batchInfo' = Append(batchInfo, Len(da))
  /\ batch' = Rest
  /\ UNCHANGED <<outputs, records, myRecords, chain, pc, batchIndex, bulk,
                 faults>>

PublishDone ==
  /\ pc = "publish" /\ call = "idle" /\ Empty(batch) /\ pc' = "save"
  /\ UNCHANGED <<outputs, records, myRecords, chain, call, work, faults>>

(* The sequence number is taken by a transaction of an earlier life that   *)
(* is still in the mempool, or the transaction is lost.                    *)
PublishThrow ==
  /\ pc = "publish" /\ UNCHANGED faults
  /\ \/ call = "idle" /\ ~Empty(batch) /\ txStatus = "pending"
     \/ call = "sent" /\ txStatus = "none"
  /\ Die

-----------------------------------------------------------------------------
(* saveBatchToDB: the table is keyed by the batch index.                   *)
SaveRecord(table, r) ==
  IF r.batchIndex \in DOMAIN table THEN [table EXCEPT ![r.batchIndex] = r]
  ELSE Append(table, r)

SaveToDB(r) == /\ myRecords' = SaveRecord(myRecords, r)
               /\ UNCHANGED records

Save ==
  /\ pc = "save"
  /\ SaveToDB([batchIndex |-> batchIndex, start |-> bulk.start,
               end |-> bulk.end, batchInfo |-> batchInfo])
  /\ LET end == outputs[batchIndex].end
         next == bulk.start + maxBulkSize
     IN  IF next <= end THEN pc' = "fetch" /\ bulk' = BulkFrom(next, end)
         ELSE pc' = "commit" /\ UNCHANGED bulk
  /\ UNCHANGED <<outputs, chain, call, batchIndex, batch, batchInfo, faults>>

Commit ==
  /\ pc = "commit" /\ pc' = "read"
  /\ records' = myRecords
  /\ UNCHANGED <<outputs, myRecords, chain, call, work, faults>>

-----------------------------------------------------------------------------
Submitter == \/ Start \/ ReadOutput \/ ReadNothing \/ GetBatch
             \/ Publish \/ Published \/ PublishDone \/ PublishThrow
             \/ Save \/ Commit

Next == NewOutput \/ Deliver \/ Drop \/ Crash \/ Submitter

Spec == Init /\ [][Next]_vars

(* The chain executes what its mempool keeps, pm2 restarts the process and *)
(* its event loop runs.  The executor owes nobody an output.               *)
FairSpec == Spec /\ WF_vars(Deliver) /\ WF_vars(Submitter)

-----------------------------------------------------------------------------
(* Properties *)

(* The blocks from start to end can be read from the transactions named.   *)
Holds(hashes, start, end) ==
  /\ hashes # <<>>
  /\ \A k \in 1 .. Len(hashes) : hashes[k] \in DOMAIN da
  /\ da[hashes[1]].start = start
  /\ da[hashes[Len(hashes)]].end = end
  /\ \A k \in 2 .. Len(hashes) :
       da[hashes[k]].start = da[hashes[k - 1]].end + 1

(* A record can be followed: the transactions it names are on the chain    *)
(* and hold its blocks, in order and nothing else, though an earlier life  *)
(* of the process may have published the same blocks, or half of them, and *)
(* its last transaction may have been included after its death.            *)
RecordsPointToData ==
  \A i \in 1 .. Len(records) :
    Holds(records[i].batchInfo, records[i].start, records[i].end)

(* Records and outputs keep pace, one for one: record i is of output i and *)
(* ends where it ends, so no output is skipped and none recorded twice.    *)
RecordPerOutput ==
  /\ Len(records) <= Len(outputs)
  /\ \A i \in 1 .. Len(records) :
       /\ records[i].batchIndex = i
       /\ records[i].end = outputs[i].end

(* Every block of a recorded output is on the chain, also those of the     *)
(* bulks whose record was written over by the next bulk's.                 *)
RecordedIsAvailable ==
  \A i \in 1 .. Len(records) : \A b \in outputs[i].start .. outputs[i].end :
    \E p \in 1 .. Len(da) : da[p].start <= b /\ b <= da[p].end

(* The chain can be read in one pass: data appears only after the data of  *)
(* the blocks before it, whatever is published again and however late.     *)
PublishedInOrder ==
  \A p \in 1 .. Len(da) :
    da[p].start > 1 => \E q \in 1 .. p - 1 : da[q].end = da[p].start - 1

(* Data is paid for once, and once more for each failure at most.          *)
PaidOncePerFault ==
  \A p \in 1 .. Len(da) :
    Cardinality({q \in 1 .. Len(da) : da[q] = da[p]}) <= 1 + faults

(* A record, once others can read it, is never changed.                    *)
RecordedForGood ==
  [][\A i \in 1 .. Len(records) :
       i <= Len(records') /\ records'[i] = records[i]]_vars

(* Once failures stop, every output the executor stores gets its record.   *)
EveryOutputRecorded ==
  \A i \in 1 .. MaxHeight : Len(outputs) >= i ~> Len(records) >= i

-----------------------------------------------------------------------------
(* A statement of the program's log that the code does not keep: the       *)
(* "batch (start, end) is successfully saved" for the whole output         *)
(* (batchSubmitter.ts:92-94).                                              *)
RecordsCoverOutput ==
  \A i \in 1 .. Len(records) :
    /\ records[i].start = outputs[i].start
    /\ records[i].end = outputs[i].end
=============================================================================
