--------------------------- MODULE OutputPipeline ---------------------------
(***************************************************************************)
(* From L2 blocks to outputs on L1: the executor's L2Monitor, which stores *)
(* withdrawals and creates outputs (bridgeExecutor/monitor/{monitor,l2}.ts)*)
(* the OutputSubmitter, which proposes them (outputSubmitter.ts), the      *)
(* database they share, and L1's output oracle.                            *)
(*                                                                         *)
(* The executor reads the last output of L1, and the last one of its own   *)
(* database, before it creates the next: the two tell it what to do.  The  *)
(* submitter proposes the outputs from the index after L1's last one; a    *)
(* proposal carries no index, L1 gives it the next one.  Both run while    *)
(* the other does, either may die at any step, and the challenger may      *)
(* delete the outputs from some index on.                                  *)
(***************************************************************************)
EXTENDS Integers, Sequences, FiniteSets

CONSTANTS
  Withdrawals,          \* token withdrawals users make on L2
  NoPair,               \* those of a denom without a token pair on L1
  START_HEIGHT,         \* config.EXECUTOR_L2_MONITOR_HEIGHT
  MAX_BLOCKS,           \* blocks in one iteration (20 in the code)
  MAX_OUTPUT_PROPOSAL,  \* proposals in one transaction (50 in the code)
  MaxHeight,            \* bound: L2 blocks in a behaviour
  MaxFaults,            \* bound: crashes, timeouts and node failures
  MaxDeletes            \* bound: deletions by the challenger

ASSUME PipelineAssumption ==
  /\ NoPair \subseteq Withdrawals
  /\ START_HEIGHT \in Nat
  /\ MAX_BLOCKS \in Nat \ {0}
  /\ MAX_OUTPUT_PROPOSAL \in Nat \ {0}
  /\ MaxHeight \in Nat
  /\ MaxFaults \in Nat
  /\ MaxDeletes \in Nat

VARIABLES
  l2Height, madeAt,               \* L2: its height, the block of a withdrawal
  oracle, tx, txStatus,           \* L1: outputs, the submitter's transaction
  dbSynced, outputs, indexOf,     \* the database, as committed
  epc, syncedHeight, maxHeight,   \* the executor and its open transaction's
  myOutputs, myIndexOf,           \*   view of the tables
  spc, call, syncedIndex, queue,  \* the submitter
  faults, deletes

l2vars == <<l2Height, madeAt>>
l1vars == <<oracle, tx, txStatus, deletes>>
db     == <<dbSynced, outputs, indexOf>>
view   == <<myOutputs, myIndexOf>>
exec   == <<epc, syncedHeight, maxHeight, view>>
subm   == <<spc, call, syncedIndex, queue>>
vars   == <<l2vars, l1vars, db, exec, subm, faults>>

(* An output: its index, its range of L2 blocks and the withdrawals under  *)
(* its Merkle root; the output root depends on all of them.                *)
Outputs == [index : Nat, start : Nat, end : Nat, leaves : SUBSET Withdrawals]

TypeOK ==
  /\ l2Height \in Nat
  /\ madeAt \in [Withdrawals -> Nat]
  /\ oracle \in Seq(Outputs)
  /\ tx \in Seq(Outputs)
  /\ txStatus \in {"none", "pending", "ok", "failed"}
  /\ dbSynced \in Nat
  /\ outputs \in Seq(Outputs)
  /\ indexOf \in [Withdrawals -> Nat]
  /\ epc \in {"down", "poll", "block", "commit"}
  /\ syncedHeight \in Nat
  /\ maxHeight \in Nat
  /\ myOutputs \in Seq(Outputs)
  /\ myIndexOf \in [Withdrawals -> Nat]
  /\ spc \in {"down", "readL1", "readDB", "propose"}
  /\ call \in {"idle", "sent"}
  /\ syncedIndex \in Nat \ {0}
  /\ queue \in Seq(Outputs)
  /\ faults \in Nat
  /\ deletes \in Nat

Init ==
  /\ l2Height = 0 /\ madeAt = [w \in Withdrawals |-> 0]
  /\ oracle = <<>> /\ tx = <<>> /\ txStatus = "none"
  /\ dbSynced = START_HEIGHT
  /\ outputs = <<>> /\ indexOf = [w \in Withdrawals |-> 0]
  /\ epc = "down" /\ syncedHeight = 0 /\ maxHeight = 0
  /\ myOutputs = <<>> /\ myIndexOf = [w \in Withdrawals |-> 0]
  /\ spc = "down" /\ call = "idle" /\ syncedIndex = 1 /\ queue = <<>>
  /\ faults = 0 /\ deletes = 0

Fault   == faults < MaxFaults /\ faults' = faults + 1
NoFault == UNCHANGED faults

EndOf(log) == IF log = <<>> THEN 0 ELSE log[Len(log)].end

-----------------------------------------------------------------------------
(* L2 *)

NewL2Block ==
  /\ l2Height < MaxHeight
  /\ l2Height' = l2Height + 1
  /\ \E S \in SUBSET {w \in Withdrawals : madeAt[w] = 0} :
       madeAt' = [w \in Withdrawals |-> IF w \in S THEN l2Height + 1
                                        ELSE madeAt[w]]
  /\ UNCHANGED <<l1vars, db, exec, subm, faults>>

-----------------------------------------------------------------------------
(* L1's output oracle: a proposal gets the next index, and its L2 block    *)
(* must be above the last one's.                                           *)

Accepts(log, proposals) ==
  \A i \in 1 .. Len(proposals) :
    proposals[i].end > (IF i = 1 THEN EndOf(log) ELSE proposals[i - 1].end)

L1Deliver ==
  /\ txStatus = "pending"
  /\ IF Accepts(oracle, tx)
     THEN oracle' = oracle \o tx /\ txStatus' = "ok"
     ELSE UNCHANGED oracle /\ txStatus' = "failed"
  /\ UNCHANGED <<l2vars, tx, deletes, db, exec, subm, faults>>

L1Drop ==
  /\ txStatus = "pending" /\ Fault
  /\ txStatus' = "none"
  /\ UNCHANGED <<l2vars, oracle, tx, deletes, db, exec, subm>>

(* The challenger deletes an output, and with it all later ones.           *)
DeleteOutput ==
  /\ deletes < MaxDeletes /\ deletes' = deletes + 1
  /\ \E i \in 1 .. Len(oracle) : oracle' = SubSeq(oracle, 1, i - 1)
  /\ UNCHANGED <<l2vars, tx, txStatus, db, exec, subm, faults>>

-----------------------------------------------------------------------------
(* The executor's L2Monitor *)

ExecutorCrash ==
  /\ epc # "down" /\ Fault
  /\ epc' = "down" /\ syncedHeight' = 0 /\ maxHeight' = 0
  /\ myOutputs' = outputs /\ myIndexOf' = indexOf
  /\ UNCHANGED <<l2vars, l1vars, db, subm>>

ResumeHeight_OneBack == dbSynced - 1
ResumeHeight         == dbSynced

ExecutorStart ==
  /\ epc = "down" /\ epc' = "poll"
  /\ syncedHeight' = ResumeHeight
  /\ UNCHANGED <<l2vars, l1vars, db, maxHeight, view, subm, faults>>

(* A node that lags may report an old height.                              *)
Poll ==
  /\ epc = "poll" /\ epc' = "block"
  /\ \E h \in 1 .. l2Height :
       /\ h > syncedHeight
       /\ maxHeight' = IF h <= syncedHeight + MAX_BLOCKS THEN h
                       ELSE syncedHeight + MAX_BLOCKS
  /\ UNCHANGED <<l2vars, l1vars, db, syncedHeight, view, subm, faults>>

PollNothing == epc = "poll" /\ UNCHANGED vars

currentHeight == syncedHeight + 1
WithdrawalsAt(h) == {w \in Withdrawals : madeAt[w] = h}

(* A variant with a mistake has the mistake in its name.  No action uses   *)
(* these; they show which property notices.                                *)
WithdrawalIndex_FromL1 == Len(oracle) + 1

SubmissionDue_NoWait   == TRUE
SubmissionDue_OneAhead ==
  \/ myOutputs = <<>>
  \/ oracle # <<>> /\ Len(oracle) + 1 >= myOutputs[Len(myOutputs)].index

(* handleInitiateTokenWithdrawalEvent: nothing is stored before the first  *)
(* output, nor without a token pair; a failed lookup counts as no pair.    *)
Stored == IF myOutputs = <<>> THEN {} ELSE WithdrawalsAt(currentHeight) \ NoPair

WithdrawalIndex == myOutputs[Len(myOutputs)].index + 1

(* checkSubmissionInterval, with what it reads of L1 and of the database.  *)
(* Whether the interval has passed is up to the clock.                     *)
SubmissionDue ==
  \/ myOutputs = <<>>
  \/ oracle # <<>> /\ Len(oracle) >= myOutputs[Len(myOutputs)].index

NewOutput_FromSynced(newIndexOf) ==
  [index  |-> Len(oracle) + 1,
   start  |-> dbSynced + 1,
   end    |-> currentHeight,
   leaves |-> {w \in Withdrawals : newIndexOf[w] = Len(oracle) + 1}]

(* A new output takes the index and the block after L1's last output.      *)
NewOutput(newIndexOf) ==
  [index  |-> Len(oracle) + 1,
   start  |-> EndOf(oracle) + 1,
   end    |-> currentHeight,
   leaves |-> {w \in Withdrawals : newIndexOf[w] = Len(oracle) + 1}]

(* The table is keyed by the index.                                        *)
SaveOutput(table, o) ==
  IF o.index \in DOMAIN table THEN [table EXCEPT ![o.index] = o]
  ELSE Append(table, o)

(* handleOutput                                                            *)
HandleOutput(newIndexOf) ==
  \/ UNCHANGED myOutputs
     /\ ~(myOutputs = <<>> /\ EndOf(oracle) < currentHeight)
  \/ /\ SubmissionDue /\ EndOf(oracle) < currentHeight
     /\ myOutputs' = SaveOutput(myOutputs, NewOutput(newIndexOf))

InBlock == epc = "block" /\ syncedHeight < maxHeight

(* The withdrawals of the block, then its output.                          *)
HandleBlock ==
  /\ InBlock
  /\ \E saved \in SUBSET Stored :
       /\ IF saved = Stored THEN NoFault ELSE Fault
       /\ myIndexOf' = [w \in Withdrawals |->
            IF w \in saved THEN WithdrawalIndex ELSE myIndexOf[w]]
  /\ HandleOutput(myIndexOf')
  /\ syncedHeight' = currentHeight
  /\ UNCHANGED <<l2vars, l1vars, db, epc, maxHeight, subm>>

(* Block results are not indexed yet: commit what the iteration has.       *)
BlockBreak ==
  /\ InBlock /\ Fault /\ epc' = "commit"
  /\ UNCHANGED <<l2vars, l1vars, db, syncedHeight, maxHeight, view, subm>>

BlocksDone ==
  /\ epc = "block" /\ syncedHeight = maxHeight /\ epc' = "commit"
  /\ UNCHANGED <<l2vars, l1vars, db, syncedHeight, maxHeight, view, subm,
                 faults>>

Commit ==
  /\ epc = "commit" /\ epc' = "poll"
  /\ dbSynced' = syncedHeight
  /\ outputs' = myOutputs /\ indexOf' = myIndexOf
  /\ UNCHANGED <<l2vars, l1vars, syncedHeight, maxHeight, view, subm, faults>>

-----------------------------------------------------------------------------
(* The output submitter *)

SubmitterDie ==
  /\ spc' = "down" /\ call' = "idle" /\ syncedIndex' = 1 /\ queue' = <<>>
  /\ UNCHANGED <<l2vars, l1vars, db, exec>>

SubmitterCrash == spc # "down" /\ Fault /\ SubmitterDie

SubmitterStart ==
  /\ spc = "down" /\ spc' = "readL1"
  /\ UNCHANGED <<l2vars, l1vars, db, exec, call, syncedIndex, queue, faults>>

NextIndex_Never == syncedIndex

(* getOutputs: the index after L1's last output, if L1 has one.            *)
NextIndex == IF oracle = <<>> THEN syncedIndex ELSE Len(oracle) + 1

ReadL1 ==
  /\ spc = "readL1" /\ spc' = "readDB"
  /\ syncedIndex' = NextIndex
  /\ UNCHANGED <<l2vars, l1vars, db, exec, call, queue, faults>>

Visible_Uncommitted == myOutputs
Visible             == outputs

(* getAllOutput: the table from that index on, in order.                   *)
ReadDB ==
  /\ spc = "readDB"
  /\ queue' = SubSeq(Visible, syncedIndex, Len(Visible))
  /\ spc' = IF queue' = <<>> THEN "readL1" ELSE "propose"
  /\ UNCHANGED <<l2vars, l1vars, db, exec, call, syncedIndex, faults>>

ChunkSize == IF Len(queue) < MAX_OUTPUT_PROPOSAL THEN Len(queue)
             ELSE MAX_OUTPUT_PROPOSAL
Chunk == SubSeq(queue, 1, ChunkSize)

(* TxWalletL1.transaction, whose simulation runs on L1's current state.    *)
Propose ==
  /\ spc = "propose" /\ call = "idle"
  /\ txStatus # "pending" /\ Accepts(oracle, Chunk)
  /\ call' = "sent" /\ tx' = Chunk /\ txStatus' = "pending"
  /\ UNCHANGED <<l2vars, oracle, deletes, db, exec, spc, syncedIndex, queue,
                 faults>>

Proposed ==
  /\ spc = "propose" /\ call = "sent" /\ txStatus = "ok"
  /\ call' = "idle"
  /\ queue' = SubSeq(queue, ChunkSize + 1, Len(queue))
  /\ spc' = IF queue' = <<>> THEN "readL1" ELSE "propose"
  /\ UNCHANGED <<l2vars, l1vars, db, exec, syncedIndex, faults>>

(* Refused by L1, or a sequence number taken by a transaction still in the *)
(* mempool, or lost: the error ends the process.  So do a node failure and *)
(* a timeout, which are among the crashes above.                           *)
ProposeThrow ==
  /\ spc = "propose"
  /\ \/ call = "idle" /\ ~Accepts(oracle, Chunk) /\ NoFault
     \/ call = "idle" /\ txStatus = "pending" /\ NoFault
     \/ call = "sent" /\ txStatus \in {"none", "failed"} /\ NoFault
  /\ SubmitterDie

-----------------------------------------------------------------------------
Executor  == \/ ExecutorStart \/ Poll \/ PollNothing \/ HandleBlock
             \/ BlockBreak \/ BlocksDone \/ Commit
Submitter == \/ SubmitterStart \/ ReadL1 \/ ReadDB \/ Propose \/ Proposed
             \/ ProposeThrow

Next == \/ NewL2Block \/ L1Deliver \/ L1Drop \/ DeleteOutput
        \/ ExecutorCrash \/ SubmitterCrash
        \/ Executor \/ Submitter

Spec == Init /\ [][Next]_vars

(* L2 makes blocks, L1 executes what its mempool keeps, pm2 restarts the   *)
(* processes and their event loops run.                                    *)
Fairness == /\ WF_vars(NewL2Block) /\ WF_vars(L1Deliver)
            /\ WF_vars(Executor) /\ WF_vars(Submitter)

FairSpec == Spec /\ Fairness

-----------------------------------------------------------------------------
(* Properties that hold whatever the challenger deletes                    *)

(* The outputs stored partition the L2 blocks: each starts after the one   *)
(* before it and none ends beyond the height committed with it, though the *)
(* range of a new output is computed from L1's last output, read from      *)
(* another process's progress and inside a transaction that may roll back. *)
OutputsContiguous ==
  \A i \in 1 .. Len(outputs) :
    /\ outputs[i].index = i
    /\ outputs[i].start = (IF i = 1 THEN 1 ELSE outputs[i - 1].end + 1)
    /\ outputs[i].start <= outputs[i].end
    /\ outputs[i].end <= dbSynced

(* A stored withdrawal can be proved on L1: the output whose index it was  *)
(* given when it was seen, before that output existed, covers its block    *)
(* and has it under its Merkle root; it is under no other root.            *)
WithdrawalsProvable ==
  \A w \in Withdrawals, i \in 1 .. Len(outputs) :
    /\ indexOf[w] = i => /\ w \in outputs[i].leaves
                         /\ outputs[i].start <= madeAt[w]
                         /\ madeAt[w] <= outputs[i].end
    /\ w \in outputs[i].leaves => indexOf[w] = i

(* L1 holds only outputs that the executor committed, each at most once    *)
(* and in order, whatever is proposed again after a crash or a lost answer.*)
OnL1OnceInOrder ==
  \A i \in 1 .. Len(oracle) :
    /\ \E j \in 1 .. Len(outputs) : oracle[i] = outputs[j]
    /\ i > 1 => oracle[i - 1].index < oracle[i].index

(* An output once stored is never changed nor removed, though the table is *)
(* keyed by an index computed from L1, which may go back.                  *)
NeverRewritten ==
  [][/\ Len(outputs) <= Len(outputs')
     /\ \A i \in 1 .. Len(outputs) : outputs'[i] = outputs[i]]_vars

-----------------------------------------------------------------------------
(* Properties until the first deletion                                     *)

Ranges(log) == [i \in 1 .. Len(log) |-> <<log[i].start, log[i].end>>]

Log == INSTANCE OutputLog WITH log <- Ranges(outputs),
                               published <- Ranges(oracle),
                               deleted <- deletes > 0

(* Executor and submitter in lockstep: L1 stores the executor's outputs,   *)
(* index by index, and the executor is at most one output ahead.           *)
KeepsLog == Log!LSpec

(* Every output reaches L1 once crashes and node failures stop.            *)
OutputsReachL1 == [](deletes = 0) => []<>(oracle = outputs)

-----------------------------------------------------------------------------
(* Statements of the documentation that the code does not keep             *)

(* "Output submitter will get the L2 output results from executor and      *)
(* submit it to L1" (README.md:174): output i of the executor is output i  *)
(* of L1.                                                                  *)
SubmittedAsStored == \A i \in 1 .. Len(oracle) : oracle[i].index = i

(* "To transfer assets between L1 and L2, you should run executor and      *)
(* output submitter at least" (README.md:46): a withdrawal after the start *)
(* height, of a denom with a token pair, is stored once its block is.      *)
WithdrawalsStored ==
  \A w \in Withdrawals \ NoPair :
    START_HEIGHT < madeAt[w] /\ madeAt[w] <= dbSynced => indexOf[w] # 0
=============================================================================
