---------------------------- MODULE DepositRelay ----------------------------
(***************************************************************************)
(* The deposit half of the bridge executor: the executor's L1Monitor with  *)
(* its Resurrector, its wallet on L2 and its database                      *)
(* (src/worker/bridgeExecutor/monitor/{monitor,l1,resurrector}.ts,         *)
(* src/lib/walletL2.ts).                                                   *)
(*                                                                         *)
(* The monitor reads L1 blocks in order.  For a block with deposits it     *)
(* sends one L2 transaction that finalizes all of them; if that fails, the *)
(* deposits are stored as unconfirmed rows.  The blocks of one iteration   *)
(* are handled inside one database transaction, while the L2 transactions  *)
(* are sent from within it: a crash rolls the database back but not L2.    *)
(* Before the blocks of an iteration the Resurrector resends every         *)
(* unconfirmed row, and commits each "processed" mark on its own.          *)
(*                                                                         *)
(* A step of the process is what happens between two awaits that others    *)
(* can observe.  The process may die at any step; pm2 starts it again.     *)
(***************************************************************************)
EXTENDS Integers, FiniteSets

CONSTANTS
  Deposits,            \* the deposits made on L1, one L1 sequence each
  Blocked,             \* L2: "not allowed to receive funds"
  Failing,             \* L2 refuses them with an error the code does not know
  START_HEIGHT,        \* config.EXECUTOR_L1_MONITOR_HEIGHT
  MAX_BLOCKS,          \* blocks fetched in one iteration (20 in the code)
  MAX_RESURRECT_SIZE,  \* unconfirmed rows in one transaction (100 in the code)
  ENABLE_ORACLE,       \* config.ENABLE_ORACLE
  HAS_CLIENT_ID,       \* config.L1_CLIENT_ID is set
  MaxHeight,           \* bound: L1 blocks in a behaviour
  MaxFaults            \* bound: crashes, timeouts and node failures

ASSUME DepositsAssumption ==
  /\ Blocked \subseteq Deposits
  /\ Failing \subseteq Deposits \ Blocked
ASSUME LimitsAssumption ==
  /\ START_HEIGHT \in Nat
  /\ MAX_BLOCKS \in Nat \ {0}
  /\ MAX_RESURRECT_SIZE \in Nat \ {0}
  /\ MaxHeight \in Nat
  /\ MaxFaults \in Nat
  /\ ENABLE_ORACLE \in BOOLEAN
  /\ HAS_CLIENT_ID \in BOOLEAN

VARIABLES
  \* L1
  l1Height, depositHeight,
  \* L2: how often each deposit was minted, oracle heights accepted, bridge
  \* info; the last transaction of the executor's account and where it is
  mints, l2Oracle, bridgeInfo, tx, txStatus,
  \* the executor's database, as committed
  dbSynced, dbOracle, dbDeposits, pending, processed,
  \* the monitor process and its memory
  pc, call, syncedHeight, latestHeight, maxHeight, oracleHeight,
  todo, chunk, left, marks, bufDeposits, bufPending,
  \* faults so far
  faults

l1      == <<l1Height, depositHeight>>
l2      == <<mints, l2Oracle, bridgeInfo>>
chains  == <<l1, l2, tx, txStatus>>
rows    == <<dbDeposits, pending, processed>>
db      == <<dbSynced, dbOracle, rows>>
heights == <<syncedHeight, latestHeight, maxHeight, oracleHeight>>
work    == <<todo, chunk, left, marks>>
buffer  == <<bufDeposits, bufPending>>
process == <<pc, call, heights, work, buffer>>
vars    == <<chains, db, process, faults>>

-----------------------------------------------------------------------------
(* Types *)

(* The deposits L2 has finalized.                                          *)
finalized == {d \in Deposits : mints[d] # 0}

NoState == -1   \* the monitor's StateEntity row does not exist yet

PCs == {"down", "prepare", "poll", "resurrect", "batch", "mark", "split",
        "splitmark", "oracle", "block", "commit"}

Msgs == [kind     : {"deposit", "oracle", "noClient", "client"},
         deposits : SUBSET Deposits,
         height   : Nat]

TypeOK ==
  /\ l1Height \in Nat
  /\ depositHeight \in [Deposits -> Nat]
  /\ mints \in [Deposits -> Nat]
  /\ l2Oracle \subseteq Nat
  /\ bridgeInfo \in {"unset", "noClient", "client"}
  /\ tx \in Msgs
  /\ txStatus \in {"none", "pending", "ok"}
  /\ dbSynced \in Nat \cup {NoState}
  /\ dbOracle \in Nat
  /\ dbDeposits \subseteq Deposits
  /\ pending \subseteq Deposits
  /\ processed \subseteq Deposits
  /\ pc \in PCs
  /\ call \in {"idle", "sent"}
  /\ syncedHeight \in Nat
  /\ latestHeight \in Nat
  /\ maxHeight \in Nat
  /\ oracleHeight \in Nat
  /\ todo \subseteq Deposits
  /\ chunk \subseteq Deposits
  /\ left \subseteq Deposits
  /\ marks \subseteq Deposits
  /\ bufDeposits \subseteq Deposits
  /\ bufPending \subseteq Deposits
  /\ faults \in Nat

-----------------------------------------------------------------------------
(* Messages of the executor *)

DepositMsg(S) == [kind |-> "deposit", deposits |-> S, height |-> 0]
OracleMsg(h)  == [kind |-> "oracle", deposits |-> {}, height |-> h]
BridgeMsg(k)  == [kind |-> k, deposits |-> {}, height |-> 0]

(* L2's answer to a message, as the code relies on it: a transaction is    *)
(* atomic, a deposit is finalized once, in any order, and a receiver may   *)
(* be blocked.                                                             *)
L2Accepts(m) ==
  CASE m.kind = "deposit" ->
         m.deposits \cap (finalized \cup Blocked \cup Failing) = {}
    [] m.kind = "oracle"  -> bridgeInfo = "client"
    [] OTHER              -> TRUE

-----------------------------------------------------------------------------
Init ==
  /\ l1Height = 0
  /\ depositHeight = [d \in Deposits |-> 0]
  /\ mints = [d \in Deposits |-> 0] /\ l2Oracle = {} /\ bridgeInfo = "unset"
  /\ tx = BridgeMsg("noClient") /\ txStatus = "none"
  /\ dbSynced = NoState /\ dbOracle = 0
  /\ dbDeposits = {} /\ pending = {} /\ processed = {}
  /\ pc = "down" /\ call = "idle"
  /\ syncedHeight = 0 /\ latestHeight = 0 /\ maxHeight = 0 /\ oracleHeight = 0
  /\ todo = {} /\ chunk = {} /\ left = {} /\ marks = {}
  /\ bufDeposits = {} /\ bufPending = {}
  /\ faults = 0

-----------------------------------------------------------------------------
(* Faults: every failure of a node, of the database or of the process      *)
(* itself takes one unit of MaxFaults.                                     *)

Fault   == faults < MaxFaults /\ faults' = faults + 1
NoFault == UNCHANGED faults

(* The process is gone: its memory, and the open database transaction.     *)
Die ==
  /\ pc' = "down" /\ call' = "idle"
  /\ syncedHeight' = 0 /\ latestHeight' = 0 /\ maxHeight' = 0
  /\ oracleHeight' = 0
  /\ todo' = {} /\ chunk' = {} /\ left' = {} /\ marks' = {}
  /\ bufDeposits' = {} /\ bufPending' = {}
  /\ UNCHANGED <<chains, db>>

Crash == pc # "down" /\ Fault /\ Die

-----------------------------------------------------------------------------
(* The chains *)

(* L1 makes a block; users may have made deposits in it.                   *)
NewL1Block ==
  /\ l1Height < MaxHeight
  /\ l1Height' = l1Height + 1
  /\ \E S \in SUBSET {d \in Deposits : depositHeight[d] = 0} :
       depositHeight' = [d \in Deposits |-> IF d \in S THEN l1Height + 1
                                            ELSE depositHeight[d]]
  /\ UNCHANGED <<l2, tx, txStatus, db, process, faults>>

(* L2 executes the executor's transaction from its mempool, atomically:    *)
(* the tokens of each of its deposits are minted.                          *)
L2Deliver ==
  /\ txStatus = "pending"
  /\ txStatus' = "ok"
  /\ mints' = [d \in Deposits |->
                 IF tx.kind = "deposit" /\ d \in tx.deposits
                 THEN mints[d] + 1 ELSE mints[d]]
  /\ l2Oracle' = IF tx.kind = "oracle" THEN l2Oracle \cup {tx.height}
                 ELSE l2Oracle
  /\ bridgeInfo' = IF tx.kind \in {"noClient", "client"} THEN tx.kind
                   ELSE bridgeInfo
  /\ UNCHANGED <<l1, tx, db, process, faults>>

(* The mempool loses the transaction.                                      *)
L2Drop ==
  /\ txStatus = "pending" /\ Fault
  /\ txStatus' = "none"
  /\ UNCHANGED <<l1, l2, tx, db, process>>

-----------------------------------------------------------------------------
(* TxWalletL2.transaction: simulate, sign with the account's next sequence *)
(* number, broadcast, and wait up to 30 seconds for the transaction to be  *)
(* included.  Each operator says how one call goes on; it leaves txStatus, *)
(* tx and the chains alone unless it is Broadcast.                         *)

Broadcast(m) ==
  /\ call = "idle" /\ txStatus # "pending" /\ L2Accepts(m)
  /\ call' = "sent" /\ tx' = m /\ txStatus' = "pending"
  /\ UNCHANGED <<l1, l2, db, pc, heights, work, buffer, faults>>

(* The transaction was included.                                           *)
Confirmed == call = "sent" /\ txStatus = "ok" /\ call' = "idle"

(* L2's simulation refuses the messages, with the reason.                  *)
Refused(m) == call = "idle" /\ ~L2Accepts(m) /\ UNCHANGED <<call, faults>>

(* The node does not answer, or the sequence number is taken by an earlier *)
(* transaction that is still in the mempool.                               *)
Unsent(m) == /\ call = "idle" /\ L2Accepts(m) /\ UNCHANGED call
             /\ (txStatus = "pending" /\ NoFault) \/ Fault

(* No answer in time: the transaction may have been lost, may still be in  *)
(* the mempool, or may even have been included.                            *)
TimedOut == /\ call = "sent" /\ call' = "idle"
            /\ (txStatus = "none" /\ NoFault) \/ Fault

SendError(m) == Refused(m) \/ Unsent(m) \/ TimedOut

-----------------------------------------------------------------------------
(* Monitor.run and L1Monitor.prepareMonitor *)

(* A variant with a mistake has the mistake in its name.  No action uses   *)
(* these; they show which property notices.                                *)
ResumeHeight_NoConfig == dbSynced

ResumeHeight == IF dbSynced = NoState THEN START_HEIGHT ELSE dbSynced

(* pm2 starts the process; it loads the heights to resume from.            *)
Start ==
  /\ pc = "down" /\ pc' = "prepare"
  /\ syncedHeight' = ResumeHeight /\ dbSynced' = ResumeHeight
  /\ oracleHeight' = dbOracle
  /\ UNCHANGED <<chains, dbOracle, rows, call, latestHeight, maxHeight, work,
                 buffer, faults>>

NeedsBridgeInfo ==
  \/ bridgeInfo = "unset"
  \/ ENABLE_ORACLE /\ HAS_CLIENT_ID /\ bridgeInfo = "noClient"

SetBridgeInfo == BridgeMsg(IF bridgeInfo = "unset" THEN "noClient"
                           ELSE "client")

PrepareSend == pc = "prepare" /\ NeedsBridgeInfo /\ Broadcast(SetBridgeInfo)

PrepareDone ==
  /\ pc = "prepare" /\ pc' = "poll"
  /\ Confirmed \/ (call = "idle" /\ ~NeedsBridgeInfo /\ UNCHANGED call)
  /\ UNCHANGED <<chains, db, heights, work, buffer, faults>>

PrepareThrow ==
  /\ pc = "prepare" /\ (NeedsBridgeInfo \/ call = "sent")
  /\ SendError(SetBridgeInfo)
  /\ Die

-----------------------------------------------------------------------------
(* Monitor.monitor: one iteration of the loop *)

(* The node reports a height (an old one, if the node lags); there is work *)
(* when it is above the synced height.  resurrect reads the rows to resend.*)
Poll ==
  /\ pc = "poll" /\ pc' = "resurrect"
  /\ \E h \in 1 .. l1Height :
       /\ h > syncedHeight
       /\ latestHeight' = h
       /\ maxHeight' = IF h <= syncedHeight + MAX_BLOCKS THEN h
                       ELSE syncedHeight + MAX_BLOCKS
  /\ todo' = pending
  /\ UNCHANGED <<chains, db, call, syncedHeight, oracleHeight, chunk, left,
                 marks, buffer, faults>>

(* No new block: ask again after INTERVAL_MONITOR.                         *)
PollNothing == pc = "poll" /\ UNCHANGED vars

-----------------------------------------------------------------------------
(* Resurrector *)

RowsAfter_None(c) == {}
RowsAfter(c)      == todo \ c

(* The next MAX_RESURRECT_SIZE rows, in the order the database returns     *)
(* them, which the query leaves open.                                      *)
NextChunk ==
  /\ pc = "resurrect" /\ todo # {} /\ pc' = "batch"
  /\ \E c \in SUBSET todo :
       /\ \/ Cardinality(c) = MAX_RESURRECT_SIZE
          \/ c = todo /\ Cardinality(todo) < MAX_RESURRECT_SIZE
       /\ chunk' = c
       /\ todo' = RowsAfter(c)
  /\ UNCHANGED <<chains, db, call, heights, left, marks, buffer, faults>>

ResurrectDone ==
  /\ pc = "resurrect" /\ todo = {} /\ pc' = "oracle"
  /\ UNCHANGED <<chains, db, call, heights, work, buffer, faults>>

BatchSend == pc = "batch" /\ Broadcast(DepositMsg(chunk))

BatchDone ==
  /\ pc = "batch" /\ Confirmed /\ pc' = "mark"
  /\ marks' = chunk
  /\ UNCHANGED <<chains, db, heights, todo, chunk, left, buffer, faults>>

(* Any error of the batch: its rows are sent one by one.                   *)
BatchError ==
  /\ pc = "batch" /\ SendError(DepositMsg(chunk)) /\ pc' = "split"
  /\ left' = chunk
  /\ UNCHANGED <<chains, db, heights, todo, chunk, marks, buffer>>

UpdateProcessed_WholeChunk(d) ==
  /\ pending' = pending \ chunk
  /\ processed' = processed \cup (chunk \cap pending)

(* A committed statement of its own.                                       *)
UpdateProcessed(d) ==
  /\ pending' = pending \ {d}
  /\ processed' = processed \cup ({d} \cap pending)

Mark ==
  /\ pc \in {"mark", "splitmark"}
  /\ \E d \in marks : UpdateProcessed(d) /\ marks' = marks \ {d}
  /\ UNCHANGED <<chains, dbSynced, dbOracle, dbDeposits, pc, call, heights,
                 todo, chunk, left, buffer, faults>>

MarkDone ==
  /\ pc \in {"mark", "splitmark"} /\ marks = {}
  /\ pc' = IF left = {} THEN "resurrect" ELSE "split"
  /\ chunk' = IF left = {} THEN {} ELSE chunk
  /\ UNCHANGED <<chains, db, call, heights, todo, left, marks, buffer,
                 faults>>

(* An update or the notification fails after the batch went through: the   *)
(* same catch sends its rows again, one by one.                            *)
MarkError ==
  /\ pc = "mark" /\ Fault /\ pc' = "split"
  /\ left' = chunk /\ marks' = {}
  /\ UNCHANGED <<chains, db, call, heights, todo, chunk, buffer>>

SplitSend == pc = "split" /\ \E d \in left : Broadcast(DepositMsg({d}))

KnownError_Any(d)           == TRUE
KnownError_BlockedOnly(d)   == d \in Blocked
KnownError_FinalizedOnly(d) == d \in finalized

(* "deposit already finalized" or "not allowed to receive funds"           *)
KnownError(d) == d \in finalized \cup Blocked

SplitDone ==
  /\ pc = "split" /\ pc' = "splitmark"
  /\ \E d \in left :
       /\ \/ Confirmed /\ tx.deposits = {d}
          \/ Refused(DepositMsg({d})) /\ KnownError(d)
       /\ left' = left \ {d}
       /\ marks' = {d}
  /\ UNCHANGED <<chains, db, heights, todo, chunk, buffer, faults>>

(* Any other error is thrown, and ends the process.                        *)
SplitThrow ==
  /\ pc = "split"
  /\ \/ TimedOut
     \/ \E d \in left : \/ Refused(DepositMsg({d})) /\ ~KnownError(d)
                        \/ Unsent(DepositMsg({d}))
  /\ Die

-----------------------------------------------------------------------------
(* L1Monitor.handleNewBlock after the Resurrector: the oracle update.      *)
(* Its errors are logged only.                                             *)

OracleDue == ENABLE_ORACLE /\ oracleHeight # latestHeight

OracleSend == /\ pc = "oracle" /\ OracleDue
              /\ Broadcast(OracleMsg(latestHeight))

OracleHeight_ReadAgain == l1Height
OracleHeight           == latestHeight

(* The memory is updated first, then the row; saving it may fail.          *)
OracleDone ==
  /\ pc = "oracle" /\ Confirmed /\ pc' = "block"
  /\ oracleHeight' = OracleHeight
  /\ \/ dbOracle' = OracleHeight /\ NoFault
     \/ dbOracle' = dbOracle /\ Fault
  /\ UNCHANGED <<chains, dbSynced, rows, syncedHeight, latestHeight,
                 maxHeight, work, buffer>>

(* Nothing to update, no transaction in the latest block, or an error.     *)
OracleSkip ==
  /\ pc = "oracle" /\ pc' = "block"
  /\ \/ call = "idle" /\ UNCHANGED <<call, faults>>
     \/ OracleDue /\ SendError(OracleMsg(latestHeight))
  /\ UNCHANGED <<chains, db, heights, work, buffer>>

-----------------------------------------------------------------------------
(* The database transaction over the blocks of the iteration *)

currentHeight == syncedHeight + 1

DepositsAt(h) == {d \in Deposits : depositHeight[d] = h}

InBlock == pc = "block" /\ syncedHeight < maxHeight

BlockSend ==
  /\ InBlock /\ DepositsAt(currentHeight) # {}
  /\ Broadcast(DepositMsg(DepositsAt(currentHeight)))

SaveUnconfirmed_Never(failed)     == UNCHANGED <<bufPending, pending>>
SaveUnconfirmed_OutsideTx(failed) == /\ pending' = pending \cup failed
                                     /\ UNCHANGED bufPending

SaveUnconfirmed(failed) == /\ bufPending' = bufPending \cup failed
                           /\ UNCHANGED pending

(* processMsgs stored the deposits of the block and, if the call failed,   *)
(* their unconfirmed rows; then handleBlockWithStateUpdate.                *)
BlockHandled(failed) ==
  /\ bufDeposits' = bufDeposits \cup DepositsAt(currentHeight)
  /\ SaveUnconfirmed(failed)
  /\ syncedHeight' = syncedHeight + 1
  /\ UNCHANGED <<chains, dbSynced, dbOracle, dbDeposits, processed, pc,
                 latestHeight, maxHeight, oracleHeight, work>>

BlockDone ==
  /\ InBlock /\ BlockHandled({}) /\ NoFault
  /\ \/ Confirmed
     \/ call = "idle" /\ DepositsAt(currentHeight) = {} /\ UNCHANGED call

BlockError ==
  /\ InBlock /\ DepositsAt(currentHeight) # {}
  /\ SendError(DepositMsg(DepositsAt(currentHeight)))
  /\ BlockHandled(DepositsAt(currentHeight))

(* The block has transactions but their results are not indexed yet: the   *)
(* iteration ends here and commits what it has.                            *)
BlockBreak ==
  /\ InBlock /\ call = "idle" /\ Fault /\ pc' = "commit"
  /\ UNCHANGED <<chains, db, call, heights, work, buffer>>

BlocksDone ==
  /\ pc = "block" /\ syncedHeight = maxHeight /\ pc' = "commit"
  /\ UNCHANGED <<chains, db, call, heights, work, buffer, faults>>

Commit ==
  /\ pc = "commit" /\ pc' = "poll"
  /\ dbSynced' = syncedHeight
  /\ dbDeposits' = dbDeposits \cup bufDeposits
  /\ pending' = pending \cup bufPending
  /\ processed' = processed \ bufPending
  /\ bufDeposits' = {} /\ bufPending' = {}
  /\ UNCHANGED <<chains, dbOracle, call, heights, work, faults>>

-----------------------------------------------------------------------------
Prepare   == PrepareSend \/ PrepareDone \/ PrepareThrow
Resurrect == \/ NextChunk \/ ResurrectDone
             \/ BatchSend \/ BatchDone \/ BatchError
             \/ Mark \/ MarkDone \/ MarkError
             \/ SplitSend \/ SplitDone \/ SplitThrow
Oracle    == OracleSend \/ OracleDone \/ OracleSkip
Blocks    == BlockSend \/ BlockDone \/ BlockError \/ BlockBreak \/ BlocksDone
             \/ Commit

Bot == Start \/ Prepare \/ Poll \/ PollNothing \/ Resurrect \/ Oracle \/ Blocks

Next == NewL1Block \/ L2Deliver \/ L2Drop \/ Crash \/ Bot

Spec == Init /\ [][Next]_vars

(* L1 keeps making blocks, L2 executes what its mempool keeps, pm2         *)
(* restarts the process and the event loop runs it.                        *)
Fairness == WF_vars(NewL1Block) /\ WF_vars(L2Deliver) /\ WF_vars(Bot)

FairSpec == Spec /\ Fairness

-----------------------------------------------------------------------------
(* Properties *)

(* The deposits the executor is in charge of: those after its first height.*)
InCharge(d) == depositHeight[d] > START_HEIGHT
Committed(d) == InCharge(d) /\ depositHeight[d] <= dbSynced

(* A deposit needs nothing more from the executor.                         *)
Settled(d) == d \in finalized \/ d \in processed

(* The height the executor resumes from never passes a deposit that is     *)
(* neither on L2 nor waiting in the unconfirmed table nor refused by L2:   *)
(* whatever crashes, timeouts and rollbacks happen between the L2          *)
(* transactions and the commit, no deposit is skipped.                     *)
NothingLost ==
  \A d \in Deposits :
    Committed(d) => d \in finalized \cup pending \cup (processed \cap Blocked)

(* A row is marked processed only when its deposit is on L2 or can never   *)
(* be: the Resurrector never gives a deposit up because of a timeout, a    *)
(* batch-mate's error, or an error that happened to somebody else.         *)
ProcessedIsSettled == processed \subseteq finalized \cup Blocked

(* The deposit table, the unconfirmed table and the synced height move     *)
(* together, though the marks and the oracle height are committed by       *)
(* statements of their own: the deposits stored are exactly those up to    *)
(* the synced height, every unconfirmed row has its deposit row, and no    *)
(* row is both waiting and processed.                                      *)
RowsMatchHeight ==
  /\ dbDeposits = {d \in Deposits : Committed(d)}
  /\ pending \cup processed \subseteq dbDeposits
  /\ pending \cap processed = {}

(* The oracle height stored has been accepted by L2, so a restart never    *)
(* skips an update on the word of a transaction that failed.               *)
OracleHeightRelayed == dbOracle # 0 => dbOracle \in l2Oracle

(* The synced height advances only when every deposit committed before is  *)
(* settled: a waiting row is resent before the next blocks are committed,  *)
(* so at most one iteration's deposits wait at any time.                   *)
SettleBeforeAdvance ==
  [][dbSynced' > dbSynced =>
       \A d \in Deposits : Committed(d) => Settled(d)]_vars

(* A processed row stays processed, though blocks are handled again after  *)
(* a crash and store their unconfirmed rows anew.                          *)
NeverReopened == [][processed \subseteq processed']_vars

(* An L2 error the code does not know ends the process at every attempt;   *)
(* the two properties below are of behaviours in which none is met.        *)
NoneFails == \A d \in Failing : depositHeight[d] = 0

(* Once nodes and process stop failing, the executor reaches L1's height.  *)
CatchesUp == []NoneFails => <>(dbSynced = MaxHeight)

(* A deposit whose block is committed is settled as soon as L1 makes one   *)
(* more block: neither a failed batch-mate nor a crash loop nor a late     *)
(* transaction in the mempool keeps it waiting.                            *)
EventuallySettled ==
  []NoneFails =>
    \A d \in Deposits : Committed(d) /\ dbSynced < MaxHeight ~> Settled(d)

-----------------------------------------------------------------------------
(* What users see: deposits made, minted, or given up.                     *)
Promise == INSTANCE BridgePromise WITH
  made     <- {d \in Deposits : depositHeight[d] # 0},
  minted   <- mints,
  rejected <- processed \ finalized

(* The executor implements the promise: no deposit is minted that was not  *)
(* made, none is minted a second time though it is resent after timeouts,  *)
(* rollbacks and failed batches, none after it was given up, and none is   *)
(* given up that L2 would take.                                            *)
KeepsPromise == Promise!PSpec
=============================================================================
