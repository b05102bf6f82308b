------------------------- MODULE DepositRelayProofs -------------------------
(***************************************************************************)
(* Proofs, for every set of deposits, every limit and every number of      *)
(* faults, of the safety properties of DepositRelay.                       *)
(***************************************************************************)
EXTENDS DepositRelay, TLAPS

-----------------------------------------------------------------------------
(* The inductive invariant, by topic *)

Made == {d \in Deposits : depositHeight[d] # 0}

(* The process is in one iteration of the monitor's loop.                  *)
Resurrecting == pc \in {"resurrect", "batch", "mark", "split", "splitmark"}
Iterating    == Resurrecting \/ pc \in {"oracle", "block"}

(* Heights never run ahead of L1, except that the first one is configured. *)
HeightsOK ==
  /\ \A d \in Deposits : depositHeight[d] <= l1Height
  /\ dbSynced <= START_HEIGHT \/ dbSynced <= l1Height
  /\ dbSynced = NoState \/ START_HEIGHT <= dbSynced
  /\ pc # "down" => dbSynced # NoState /\ dbSynced <= syncedHeight
  /\ pc # "down" => syncedHeight <= START_HEIGHT \/ syncedHeight <= l1Height
  /\ pc \notin {"down", "block", "commit"} => syncedHeight = dbSynced
  /\ Iterating => maxHeight <= l1Height

(* What L2 knows of the account's last transaction, and what the process   *)
(* knows of the one it waits for.                                          *)
WalletOK ==
  /\ tx.kind = "deposit" => tx.deposits \subseteq Made
  /\ txStatus = "pending" /\ tx.kind = "deposit" =>
       tx.deposits \cap (finalized \cup Blocked) = {}
  /\ txStatus = "ok" /\ tx.kind = "deposit" => tx.deposits \subseteq finalized
  /\ txStatus = "ok" /\ tx.kind = "oracle" => tx.height \in l2Oracle
  /\ call = "sent" =>
       /\ pc \in {"prepare", "batch", "split", "oracle", "block"}
       /\ pc = "batch"  => tx = DepositMsg(chunk)
       /\ pc = "split"  => tx.kind = "deposit"
       /\ pc = "oracle" => tx = OracleMsg(latestHeight)
       /\ pc = "block"  => /\ syncedHeight < maxHeight
                           /\ tx = DepositMsg(DepositsAt(currentHeight))

(* Every waiting row is still to be handled by the Resurrector's pass, and *)
(* after the pass none is left.                                            *)
ResurrectOK ==
  /\ todo \cup chunk \cup left \cup marks \subseteq Made
  /\ pc \notin {"split", "splitmark"} => left = {}
  /\ pc = "resurrect" => pending \subseteq todo
  /\ pc = "batch"     => pending \subseteq todo \cup chunk
  /\ pc = "mark"      => marks \subseteq chunk /\ pending \subseteq todo \cup marks
  /\ pc = "split"     => pending \subseteq todo \cup left
  /\ pc = "splitmark" => pending \subseteq todo \cup left \cup marks
  /\ pc \in {"mark", "splitmark"} => marks \subseteq finalized \cup Blocked
  /\ pc \in {"oracle", "block", "commit"} => pending = {}

(* The buffer of the open transaction holds the deposits between the       *)
(* committed and the current height, and each is on L2 or in the buffer.   *)
BufferOK ==
  /\ pc \notin {"block", "commit"} => bufDeposits = {} /\ bufPending = {}
  /\ bufPending \subseteq bufDeposits
  /\ bufDeposits \subseteq finalized \cup bufPending
  /\ pc \in {"block", "commit"} =>
       bufDeposits = {d \in Deposits : /\ InCharge(d)
                                       /\ dbSynced < depositHeight[d]
                                       /\ depositHeight[d] <= syncedHeight}

IInv == /\ TypeOK
        /\ HeightsOK
        /\ WalletOK
        /\ ResurrectOK
        /\ BufferOK
        /\ NothingLost
        /\ ProcessedIsSettled
        /\ RowsMatchHeight
        /\ OracleHeightRelayed

-----------------------------------------------------------------------------
(* The deposits finalized, when nothing is minted and when L2 executes the *)
(* pending transaction.                                                    *)
LEMMA MintsKept == UNCHANGED mints => finalized' = finalized
BY DEF finalized

LEMMA Delivered ==
  ASSUME TypeOK, L2Deliver
  PROVE  finalized' = IF tx.kind = "deposit" THEN finalized \cup tx.deposits
                      ELSE finalized
<1>1. /\ mints \in [Deposits -> Nat]
      /\ tx.kind = "deposit" => tx.deposits \subseteq Deposits
  BY DEF TypeOK, Msgs
<1>2. mints' = [d \in Deposits |->
                 IF tx.kind = "deposit" /\ d \in tx.deposits
                 THEN mints[d] + 1 ELSE mints[d]]
  BY DEF L2Deliver
<1> QED
  BY <1>1, <1>2 DEF finalized

LEMMA FinalizedType == finalized \subseteq Deposits
BY DEF finalized

(* Every variable keeps its type.                                          *)
LEMMA TypeStep == TypeOK /\ [Next]_vars => TypeOK'
<1> SUFFICES ASSUME TypeOK, [Next]_vars PROVE TypeOK'
  OBVIOUS
<1> USE LimitsAssumption DEF TypeOK, PCs, vars, chains, l1, l2, db, rows,
                             process, heights, work, buffer
<1>1. CASE NewL1Block
  BY <1>1 DEF NewL1Block
<1>2. CASE L2Deliver
  <2>1. mints' \in [Deposits -> Nat]
    BY <1>2 DEF L2Deliver
  <2>2. l2Oracle' \subseteq Nat /\ bridgeInfo' \in {"unset", "noClient", "client"}
    BY <1>2 DEF L2Deliver, Msgs
  <2> QED
    BY <1>2, <2>1, <2>2 DEF L2Deliver
<1>3. CASE L2Drop
  BY <1>3 DEF L2Drop, Fault
<1>4. CASE Crash
  BY <1>4 DEF Crash, Fault, Die
<1>5. CASE Start
  BY <1>5 DEF Start, ResumeHeight, NoState
<1>6. CASE PrepareSend
  BY <1>6 DEF PrepareSend, Broadcast, SetBridgeInfo, BridgeMsg, Msgs
<1>7. CASE PrepareDone
  BY <1>7 DEF PrepareDone, Confirmed
<1>8. CASE PrepareThrow
  BY <1>8 DEF PrepareThrow, SendError, Refused, Unsent, TimedOut, Fault,
    NoFault, Die
<1>9. CASE Poll
  BY <1>9 DEF Poll
<1>10. CASE PollNothing
  BY <1>10 DEF PollNothing
<1>11. CASE NextChunk
  BY <1>11 DEF NextChunk, RowsAfter
<1>12. CASE ResurrectDone
  BY <1>12 DEF ResurrectDone
<1>13. CASE BatchSend
  BY <1>13 DEF BatchSend, Broadcast, DepositMsg, Msgs
<1>14. CASE BatchDone
  BY <1>14 DEF BatchDone, Confirmed
<1>15. CASE BatchError
  BY <1>15 DEF BatchError, SendError, Refused, Unsent, TimedOut, Fault,
    NoFault
<1>16. CASE Mark
  BY <1>16 DEF Mark, UpdateProcessed
<1>17. CASE MarkDone
  BY <1>17 DEF MarkDone
<1>18. CASE MarkError
  BY <1>18 DEF MarkError, Fault
<1>19. CASE SplitSend
  BY <1>19 DEF SplitSend, Broadcast, DepositMsg, Msgs
<1>20. CASE SplitDone
  BY <1>20 DEF SplitDone, Confirmed, Refused
<1>21. CASE SplitThrow
  <2>1. Die
    BY <1>21 DEF SplitThrow
  <2>2. ASSUME NEW m, Refused(m) \/ Unsent(m) PROVE faults' \in Nat
    BY <2>2 DEF Refused, Unsent, Fault, NoFault
  <2>3. ASSUME TimedOut PROVE faults' \in Nat
    BY <2>3 DEF TimedOut, Fault, NoFault
  <2>4. faults' \in Nat
    BY <1>21, <2>2, <2>3 DEF SplitThrow
  <2> QED
    BY <2>1, <2>4 DEF Die
<1>22. CASE OracleSend
  BY <1>22 DEF OracleSend, Broadcast, OracleMsg, Msgs
<1>23. CASE OracleDone
  BY <1>23 DEF OracleDone, Confirmed, OracleHeight, Fault, NoFault
<1>24. CASE OracleSkip
  BY <1>24 DEF OracleSkip, SendError, Refused, Unsent, TimedOut, Fault,
    NoFault
<1>25. CASE BlockSend
  BY <1>25 DEF BlockSend, Broadcast, DepositMsg, DepositsAt, Msgs
<1>26. CASE BlockDone
  BY <1>26 DEF BlockDone, InBlock, BlockHandled, SaveUnconfirmed,
    DepositsAt, Confirmed, NoFault
<1>27. CASE BlockError
  BY <1>27 DEF BlockError, InBlock, BlockHandled, SaveUnconfirmed,
    DepositsAt, SendError, Refused, Unsent, TimedOut, Fault, NoFault
<1>28. CASE BlockBreak
  BY <1>28 DEF BlockBreak, InBlock, Fault
<1>29. CASE BlocksDone
  BY <1>29 DEF BlocksDone
<1>30. CASE Commit
  BY <1>30 DEF Commit
<1>31. CASE UNCHANGED vars
  BY <1>31
<1> QED
  BY <1>1, <1>2, <1>3, <1>4, <1>5, <1>6, <1>7, <1>8, <1>9, <1>10, <1>11,
     <1>12, <1>13, <1>14, <1>15, <1>16, <1>17, <1>18, <1>19, <1>20, <1>21,
     <1>22, <1>23, <1>24, <1>25, <1>26, <1>27, <1>28, <1>29, <1>30, <1>31 DEF
     Next, Bot, Prepare, Resurrect, Oracle, Blocks

-----------------------------------------------------------------------------
(* The steps that end the process all do Die and nothing else to the state *)
(* but count faults.                                                       *)
LEMMA DyingSteps == Crash \/ PrepareThrow \/ SplitThrow => Die
BY DEF Crash, PrepareThrow, SplitThrow

(* The heights stay in order: blocks are handled up to maxHeight, which L1 *)
(* had reached when it was read.                                           *)
LEMMA HeightsStep == TypeOK /\ HeightsOK /\ WalletOK /\ [Next]_vars => HeightsOK'
<1> SUFFICES ASSUME TypeOK, HeightsOK, WalletOK, [Next]_vars PROVE HeightsOK'
  OBVIOUS
<1> USE LimitsAssumption DEF TypeOK, HeightsOK, NoState, Iterating,
          Resurrecting, vars, chains, l1, l2, db, rows, process, heights
<1>1. CASE NewL1Block
  BY <1>1 DEF NewL1Block
<1>2. CASE L2Deliver \/ L2Drop \/ PollNothing \/ UNCHANGED vars
  BY <1>2 DEF L2Deliver, L2Drop, PollNothing
<1>3. CASE Die
  BY <1>3 DEF Die
<1>4. CASE Start
  BY <1>4 DEF Start, ResumeHeight
<1>5. CASE Poll
  BY <1>5 DEF Poll
<1>6. CASE PrepareSend \/ BatchSend \/ SplitSend \/ OracleSend \/ BlockSend
  BY <1>6 DEF PrepareSend, BatchSend, SplitSend, OracleSend, BlockSend,
              Broadcast
<1>7. CASE PrepareDone \/ NextChunk \/ ResurrectDone \/ BatchDone \/ BatchError
  BY <1>7 DEF PrepareDone, NextChunk, ResurrectDone, BatchDone, BatchError
<1>8. CASE Mark \/ MarkDone \/ MarkError \/ SplitDone
  BY <1>8 DEF Mark, MarkDone, MarkError, SplitDone
<1>9. CASE OracleDone \/ OracleSkip \/ BlockBreak \/ BlocksDone
  BY <1>9 DEF OracleDone, OracleSkip, BlockBreak, BlocksDone, InBlock
<1>10. CASE BlockDone \/ BlockError
  BY <1>10 DEF BlockDone, BlockError, BlockHandled, InBlock
<1>11. CASE Commit
  BY <1>11 DEF Commit
<1> QED
  BY <1>1, <1>2, <1>3, <1>4, <1>5, <1>6, <1>7, <1>8, <1>9, <1>10, <1>11,
     DyingSteps DEF Next, Bot, Prepare, Resurrect, Oracle, Blocks

(* The process waits only for a transaction that says what its step says,  *)
(* and L2 has executed what it confirmed.                                  *)
LEMMA WalletStep ==
  TypeOK /\ HeightsOK /\ WalletOK /\ ResurrectOK /\ [Next]_vars => WalletOK'
<1> SUFFICES ASSUME TypeOK, HeightsOK, WalletOK, ResurrectOK, [Next]_vars
             PROVE  WalletOK'
  OBVIOUS
<1> USE LimitsAssumption, MintsKept, Delivered, FinalizedType
<1> USE DEF TypeOK, WalletOK, Made, DepositsAt,
          currentHeight, DepositMsg, OracleMsg, vars, chains, l1, l2, db, rows,
          process, heights, work
<1>1. CASE NewL1Block
  <2>1. \A d \in Deposits :
           depositHeight[d] # 0 => depositHeight'[d] = depositHeight[d]
    BY <1>1 DEF NewL1Block
  <2>2. ASSUME NEW h \in Nat, 0 < h, h <= l1Height
        PROVE  DepositsAt(h)' = DepositsAt(h)
    BY <1>1, <2>2 DEF NewL1Block
  <2>3. call = "sent" /\ pc = "block" => currentHeight <= l1Height
    BY DEF HeightsOK, Iterating
  <2> QED
    BY <1>1, <2>1, <2>2, <2>3 DEF NewL1Block
<1>2. CASE L2Deliver
  BY <1>2 DEF L2Deliver
<1>3. CASE L2Drop \/ PollNothing \/ UNCHANGED vars
  BY <1>3 DEF L2Drop, PollNothing
<1>4. CASE Die
  BY <1>4 DEF Die
<1>5. CASE PrepareSend
  BY <1>5 DEF PrepareSend, Broadcast, SetBridgeInfo, BridgeMsg
<1>6. CASE BatchSend
  BY <1>6 DEF BatchSend, Broadcast, L2Accepts, ResurrectOK
<1>7. CASE SplitSend
  BY <1>7 DEF SplitSend, Broadcast, L2Accepts, ResurrectOK
<1>8. CASE OracleSend
  BY <1>8 DEF OracleSend, Broadcast
<1>9. CASE BlockSend
  BY <1>9 DEF BlockSend, InBlock, Broadcast, L2Accepts
<1>10. CASE Start \/ Poll \/ NextChunk \/ ResurrectDone
  BY <1>10 DEF Start, Poll, NextChunk, ResurrectDone
<1>11. CASE Mark \/ MarkDone \/ MarkError \/ BlockBreak \/ BlocksDone \/ Commit
  BY <1>11 DEF Mark, MarkDone, MarkError, BlockBreak, BlocksDone, Commit
<1>12. CASE PrepareDone \/ BatchDone \/ SplitDone \/ OracleDone \/ BlockDone
  BY <1>12 DEF PrepareDone, BatchDone, SplitDone, OracleDone, BlockDone,
               BlockHandled, Confirmed, Refused
<1>13. CASE BatchError \/ OracleSkip \/ BlockError
  BY <1>13 DEF BatchError, OracleSkip, BlockError, BlockHandled, SendError,
               Refused, Unsent, TimedOut
<1> QED
  BY <1>1, <1>2, <1>3, <1>4, <1>5, <1>6, <1>7, <1>8, <1>9, <1>10, <1>11,
     <1>12, <1>13, DyingSteps DEF Next, Bot, Prepare, Resurrect, Oracle, Blocks

(* Every waiting row is handled in the Resurrector's pass.                 *)
LEMMA ResurrectStep ==
  /\ TypeOK /\ HeightsOK /\ WalletOK /\ ResurrectOK /\ RowsMatchHeight
  /\ [Next]_vars
  => ResurrectOK'
<1> SUFFICES ASSUME TypeOK, HeightsOK, WalletOK, ResurrectOK, RowsMatchHeight,
                    [Next]_vars
             PROVE  ResurrectOK'
  OBVIOUS
<1> USE LimitsAssumption, MintsKept, Delivered, FinalizedType
<1> USE DEF TypeOK, ResurrectOK, vars, chains, l1, l2, db,
          rows, process, work
<1>1. Made \subseteq Made'
  <2>1. CASE NewL1Block
    BY <2>1 DEF NewL1Block, Made
  <2>2. CASE UNCHANGED depositHeight
    BY <2>2 DEF Made
  <2> QED
    BY <2>1, <2>2, DyingSteps
       DEF Next, Bot, Prepare, Resurrect, Oracle, Blocks, L2Deliver, L2Drop,
           Die, Start, PrepareSend, PrepareDone, Poll, PollNothing, NextChunk,
           ResurrectDone, BatchSend, BatchDone, BatchError, Mark, MarkDone,
           MarkError, SplitSend, SplitDone, OracleSend, OracleDone,
           OracleSkip, BlockSend, BlockDone, BlockError, BlockHandled,
           BlockBreak, BlocksDone, Commit, Broadcast
<1>2. CASE NewL1Block \/ L2Deliver \/ L2Drop \/ PollNothing \/ UNCHANGED vars
  BY <1>1, <1>2 DEF NewL1Block, L2Deliver, L2Drop, PollNothing
<1>3. CASE Die
  BY <1>1, <1>3 DEF Die
<1>4. CASE PrepareSend \/ BatchSend \/ SplitSend \/ OracleSend \/ BlockSend
  BY <1>1, <1>4 DEF PrepareSend, BatchSend, SplitSend, OracleSend, BlockSend,
                    Broadcast
<1>5. CASE Start \/ PrepareDone
  BY <1>1, <1>5 DEF Start, PrepareDone
<1>6. CASE Poll
  <2>1. pending \subseteq Made
    BY DEF RowsMatchHeight, Committed, InCharge, Made
  <2> QED
    BY <1>1, <1>6, <2>1 DEF Poll
<1>7. CASE NextChunk
  BY <1>1, <1>7 DEF NextChunk, RowsAfter
<1>8. CASE ResurrectDone
  BY <1>1, <1>8 DEF ResurrectDone
<1>9. CASE BatchDone
  BY <1>1, <1>9 DEF BatchDone, Confirmed, WalletOK, DepositMsg
<1>10. CASE BatchError
  BY <1>1, <1>10 DEF BatchError
<1>11. CASE Mark
  BY <1>1, <1>11 DEF Mark, UpdateProcessed
<1>12. CASE MarkDone \/ MarkError
  BY <1>1, <1>12 DEF MarkDone, MarkError
<1>13. CASE SplitDone
  <2>1. PICK d \in left : /\ \/ Confirmed /\ tx.deposits = {d}
                             \/ KnownError(d)
                          /\ left' = left \ {d}
                          /\ marks' = {d}
    BY <1>13 DEF SplitDone
  <2>2. pc = "split" /\ pc' = "splitmark"
    BY <1>13 DEF SplitDone
  <2>3. UNCHANGED <<pending, finalized, todo, chunk>>
    BY <1>13 DEF SplitDone
  <2>4. d \in finalized \cup Blocked
    BY <2>1, <2>2 DEF Confirmed, KnownError, WalletOK
  <2> QED
    BY <1>1, <2>1, <2>2, <2>3, <2>4
<1>14. CASE OracleDone \/ OracleSkip \/ BlockBreak \/ BlocksDone \/ Commit
  BY <1>1, <1>14 DEF OracleDone, OracleSkip, BlockBreak, InBlock, BlocksDone,
                     Commit
<1>15. CASE BlockDone \/ BlockError
  BY <1>1, <1>15 DEF BlockDone, BlockError, BlockHandled, SaveUnconfirmed,
                     InBlock
<1> QED
  BY <1>2, <1>3, <1>4, <1>5, <1>6, <1>7, <1>8, <1>9, <1>10, <1>11, <1>12,
     <1>13, <1>14, <1>15, DyingSteps
     DEF Next, Bot, Prepare, Resurrect, Oracle, Blocks

(* The open transaction's buffer follows the blocks handled.               *)
LEMMA BufferStep ==
  TypeOK /\ HeightsOK /\ WalletOK /\ BufferOK /\ [Next]_vars => BufferOK'
<1> SUFFICES ASSUME TypeOK, HeightsOK, WalletOK, BufferOK, [Next]_vars
             PROVE  BufferOK'
  OBVIOUS
<1> USE LimitsAssumption, MintsKept, Delivered, FinalizedType
<1> USE DEF TypeOK, BufferOK, vars, chains, l1, l2, db, rows,
          process, buffer, heights
<1>1. CASE NewL1Block
  <2>1. {d \in Deposits : InCharge(d)' /\ dbSynced < depositHeight'[d]
                                       /\ depositHeight'[d] <= syncedHeight}
        = {d \in Deposits : InCharge(d) /\ dbSynced < depositHeight[d]
                                        /\ depositHeight[d] <= syncedHeight}
        \/ pc = "down"
    BY <1>1 DEF NewL1Block, HeightsOK, InCharge
  <2> QED
    BY <1>1, <2>1 DEF NewL1Block
<1>2. CASE L2Deliver \/ L2Drop \/ PollNothing \/ UNCHANGED vars
  BY <1>2 DEF L2Deliver, L2Drop, PollNothing, InCharge
<1>3. CASE Die
  BY <1>3 DEF Die
<1>4. CASE PrepareSend \/ BatchSend \/ SplitSend \/ OracleSend \/ BlockSend
  BY <1>4 DEF PrepareSend, BatchSend, SplitSend, OracleSend, BlockSend,
              Broadcast, InCharge
<1>5. CASE Start \/ PrepareDone \/ Poll
  BY <1>5 DEF Start, PrepareDone, Poll
<1>6. CASE NextChunk \/ ResurrectDone \/ BatchDone \/ BatchError
  BY <1>6 DEF NextChunk, ResurrectDone, BatchDone, BatchError
<1>7. CASE Mark \/ MarkDone \/ MarkError \/ SplitDone
  BY <1>7 DEF Mark, MarkDone, MarkError, SplitDone
<1>8. CASE OracleDone \/ OracleSkip
  BY <1>8 DEF OracleDone, OracleSkip, HeightsOK
<1>9. CASE BlockBreak \/ BlocksDone
  BY <1>9 DEF BlockBreak, InBlock, BlocksDone, InCharge
<1>10. CASE BlockDone \/ BlockError
  <2>1. /\ pc = "block" /\ pc' = "block"
        /\ syncedHeight' = currentHeight
        /\ bufDeposits' = bufDeposits \cup DepositsAt(currentHeight)
        /\ UNCHANGED <<depositHeight, dbSynced, finalized>>
    BY <1>10 DEF BlockDone, BlockError, BlockHandled, InBlock, currentHeight
  <2>2. DepositsAt(currentHeight) \subseteq finalized \cup bufPending'
    BY <1>10 DEF BlockDone, BlockError, BlockHandled, SaveUnconfirmed, InBlock,
                 Confirmed, WalletOK, DepositMsg
  <2>3. bufPending \subseteq bufPending' /\ bufPending' \subseteq bufDeposits'
    BY <1>10 DEF BlockDone, BlockError, BlockHandled, SaveUnconfirmed
  <2>4. bufDeposits' = {d \in Deposits : /\ InCharge(d)
                                         /\ dbSynced < depositHeight[d]
                                         /\ depositHeight[d] <= currentHeight}
    BY <2>1 DEF HeightsOK, InCharge, DepositsAt, currentHeight
  <2> QED
    BY <2>1, <2>2, <2>3, <2>4 DEF InCharge
<1>11. CASE Commit
  BY <1>11 DEF Commit
<1> QED
  BY <1>1, <1>2, <1>3, <1>4, <1>5, <1>6, <1>7, <1>8, <1>9, <1>10, <1>11,
     DyingSteps DEF Next, Bot, Prepare, Resurrect, Oracle, Blocks

-----------------------------------------------------------------------------
(* The checked invariants, as consequences of the invariant's parts        *)

LEMMA RowsStep ==
  TypeOK /\ HeightsOK /\ BufferOK /\ RowsMatchHeight /\ [Next]_vars
  => RowsMatchHeight'
<1> SUFFICES ASSUME TypeOK, HeightsOK, BufferOK, RowsMatchHeight, [Next]_vars
             PROVE  RowsMatchHeight'
  OBVIOUS
<1> USE LimitsAssumption DEF TypeOK, RowsMatchHeight, vars, chains, l1, l2,
          db, rows, Committed
<1>1. CASE NewL1Block
  <2>1. ASSUME NEW d \in Deposits PROVE Committed(d)' <=> Committed(d)
    BY <1>1 DEF NewL1Block, HeightsOK, InCharge, NoState
  <2> QED
    BY <1>1, <2>1 DEF NewL1Block
<1>2. CASE L2Deliver \/ L2Drop \/ PollNothing \/ Die \/ UNCHANGED vars
  BY <1>2 DEF L2Deliver, L2Drop, PollNothing, Die, InCharge
<1>3. CASE Start
  BY <1>3 DEF Start, ResumeHeight, InCharge, NoState
<1>4. CASE PrepareSend \/ BatchSend \/ SplitSend \/ OracleSend \/ BlockSend
  BY <1>4 DEF PrepareSend, BatchSend, SplitSend, OracleSend, BlockSend,
              Broadcast, InCharge
<1>5. CASE PrepareDone \/ Poll \/ NextChunk \/ ResurrectDone \/ BatchDone
  BY <1>5 DEF PrepareDone, Poll, NextChunk, ResurrectDone, BatchDone, InCharge
<1>6. CASE BatchError \/ MarkDone \/ MarkError \/ SplitDone
  BY <1>6 DEF BatchError, MarkDone, MarkError, SplitDone, InCharge
<1>7. CASE Mark
  BY <1>7 DEF Mark, UpdateProcessed, InCharge
<1>8. CASE OracleDone \/ OracleSkip \/ BlockBreak \/ BlocksDone
  BY <1>8 DEF OracleDone, OracleSkip, BlockBreak, BlocksDone, InCharge
<1>9. CASE BlockDone \/ BlockError
  BY <1>9 DEF BlockDone, BlockError, BlockHandled, SaveUnconfirmed, InCharge
<1>10. CASE Commit
  BY <1>10 DEF Commit, BufferOK, HeightsOK, InCharge
<1> QED
  BY <1>1, <1>2, <1>3, <1>4, <1>5, <1>6, <1>7, <1>8, <1>9, <1>10, DyingSteps
     DEF Next, Bot, Prepare, Resurrect, Oracle, Blocks

(* What the steps do to the two tables of unconfirmed rows and to L2.      *)
LEMMA TablesStep ==
  TypeOK /\ WalletOK /\ ResurrectOK /\ BufferOK /\ RowsMatchHeight
  /\ [Next]_vars
  => /\ finalized \subseteq finalized'
     /\ processed' \subseteq processed \cup ((finalized \cup Blocked) \cap pending)
     /\ processed \subseteq processed'
     /\ pending \subseteq pending' \cup processed'
<1> SUFFICES ASSUME TypeOK, WalletOK, ResurrectOK, BufferOK, RowsMatchHeight,
                    [Next]_vars
             PROVE  /\ finalized \subseteq finalized'
                    /\ processed' \subseteq
                         processed \cup ((finalized \cup Blocked) \cap pending)
                    /\ processed \subseteq processed'
                    /\ pending \subseteq pending' \cup processed'
  OBVIOUS
<1> USE DEF TypeOK, vars, chains, l1, l2, db, rows
<1>1. CASE UNCHANGED <<mints, pending, processed>>
  BY <1>1, MintsKept
<1>2. CASE L2Deliver
  BY <1>2, Delivered DEF L2Deliver
<1>3. CASE Mark
  BY <1>3, MintsKept DEF Mark, UpdateProcessed, ResurrectOK
<1>4. CASE Commit
  BY <1>4, LimitsAssumption, MintsKept
     DEF Commit, BufferOK, RowsMatchHeight, Committed, InCharge
<1> QED
  BY <1>1, <1>2, <1>3, <1>4, DyingSteps
     DEF Next, Bot, Prepare, Resurrect, Oracle, Blocks, NewL1Block, L2Drop,
         Die, Start, PrepareSend, PrepareDone, Poll, PollNothing, NextChunk,
         ResurrectDone, BatchSend, BatchDone, BatchError, MarkDone, MarkError,
         SplitSend, SplitDone, OracleSend, OracleDone, OracleSkip, BlockSend,
         BlockDone, BlockError, BlockHandled, SaveUnconfirmed, BlockBreak,
         BlocksDone, Broadcast

LEMMA ProcessedStep ==
  IInv /\ [Next]_vars => ProcessedIsSettled'
BY TablesStep DEF IInv, ProcessedIsSettled

LEMMA OracleStep ==
  IInv /\ [Next]_vars => OracleHeightRelayed'
<1> SUFFICES ASSUME IInv, [Next]_vars PROVE OracleHeightRelayed'
  OBVIOUS
<1> USE DEF IInv, TypeOK, OracleHeightRelayed, vars, chains, l1, l2, db, rows
<1>1. CASE UNCHANGED <<dbOracle, l2Oracle>>
  BY <1>1
<1>2. CASE L2Deliver
  BY <1>2 DEF L2Deliver
<1>3. CASE OracleDone
  BY <1>3 DEF OracleDone, Confirmed, OracleHeight, WalletOK, OracleMsg
<1> QED
  BY <1>1, <1>2, <1>3, DyingSteps
     DEF Next, Bot, Prepare, Resurrect, Oracle, Blocks, NewL1Block, L2Drop,
         Die, Start, PrepareSend, PrepareDone, Poll, PollNothing, NextChunk,
         ResurrectDone, BatchSend, BatchDone, BatchError, Mark, MarkDone,
         MarkError, SplitSend, SplitDone, OracleSend, OracleSkip, BlockSend,
         BlockDone, BlockError, BlockHandled, BlockBreak, BlocksDone, Commit,
         Broadcast

(* Only Start and Commit write the synced height; at a commit no row is    *)
(* left waiting from before.                                               *)
LEMMA SyncedStep ==
  ASSUME IInv, [Next]_vars
  PROVE  \/ dbSynced' = dbSynced
         \/ dbSynced = NoState
         \/ Commit /\ pending = {}
<1>1. CASE UNCHANGED dbSynced
  BY <1>1
<1>2. CASE Start
  BY <1>2 DEF Start, ResumeHeight
<1>3. CASE Commit
  BY <1>3 DEF Commit, IInv, ResurrectOK
<1> QED
  BY <1>1, <1>2, <1>3, DyingSteps
     DEF Next, Bot, Prepare, Resurrect, Oracle, Blocks, NewL1Block, L2Drop,
         L2Deliver, Die, PrepareSend, PrepareDone, Poll, PollNothing,
         NextChunk, ResurrectDone, BatchSend, BatchDone, BatchError, Mark,
         MarkDone, MarkError, SplitSend, SplitDone, OracleSend, OracleDone,
         OracleSkip, BlockSend, BlockDone, BlockError, BlockHandled,
         BlockBreak, BlocksDone, Broadcast, vars, db

LEMMA NothingLostStep == IInv /\ [Next]_vars => NothingLost'
<1> SUFFICES ASSUME IInv, [Next]_vars, NEW d \in Deposits, Committed(d)'
             PROVE  d \in finalized' \cup pending' \cup (processed' \cap Blocked)
  BY DEF NothingLost
<1>1. RowsMatchHeight'
  BY RowsStep DEF IInv
<1>2. /\ finalized \subseteq finalized'
      /\ processed' \subseteq processed \cup ((finalized \cup Blocked) \cap pending)
      /\ processed \subseteq processed'
      /\ pending \subseteq pending' \cup processed'
  BY TablesStep DEF IInv
<1>3. d \in dbDeposits'
  BY <1>1 DEF RowsMatchHeight
<1>4. CASE d \in dbDeposits
  <2>1. d \in finalized \cup pending \cup (processed \cap Blocked)
    BY <1>4 DEF IInv, RowsMatchHeight, NothingLost
  <2> QED
    BY <1>2, <2>1 DEF IInv, RowsMatchHeight
<1>5. CASE d \notin dbDeposits
  <2>1. Commit
    BY <1>3, <1>5, DyingSteps
       DEF Next, Bot, Prepare, Resurrect, Oracle, Blocks, NewL1Block, L2Drop,
           L2Deliver, Die, Start, PrepareSend, PrepareDone, Poll, PollNothing,
           NextChunk, ResurrectDone, BatchSend, BatchDone, BatchError, Mark,
           MarkDone, MarkError, SplitSend, SplitDone, OracleSend, OracleDone,
           OracleSkip, BlockSend, BlockDone, BlockError, BlockHandled,
           BlockBreak, BlocksDone, Broadcast, vars, db, rows
  <2>2. d \in bufDeposits
    BY <1>3, <1>5, <2>1 DEF Commit
  <2> QED
    BY <1>2, <2>1, <2>2 DEF Commit, IInv, BufferOK
<1> QED
  BY <1>4, <1>5

-----------------------------------------------------------------------------
LEMMA InvInit == Init => IInv
<1> SUFFICES ASSUME Init PROVE IInv
  OBVIOUS
<1>1. TypeOK
  BY LimitsAssumption DEF Init, TypeOK, PCs, Msgs, BridgeMsg, NoState
<1>2. HeightsOK /\ WalletOK /\ ResurrectOK /\ BufferOK
  BY LimitsAssumption DEF Init, HeightsOK, WalletOK, ResurrectOK, BufferOK,
        finalized, BridgeMsg, NoState, Iterating, Resurrecting
<1>3. NothingLost /\ ProcessedIsSettled /\ RowsMatchHeight
      /\ OracleHeightRelayed
  BY LimitsAssumption DEF Init, NothingLost, ProcessedIsSettled,
        RowsMatchHeight, OracleHeightRelayed, Committed, InCharge, NoState
<1> QED
  BY <1>1, <1>2, <1>3 DEF IInv

LEMMA InvStep == IInv /\ [Next]_vars => IInv'
<1> SUFFICES ASSUME IInv, [Next]_vars PROVE IInv'
  OBVIOUS
<1>1. TypeOK' /\ HeightsOK' /\ WalletOK' /\ ResurrectOK' /\ BufferOK'
  BY TypeStep, HeightsStep, WalletStep, ResurrectStep, BufferStep DEF IInv
<1>2. RowsMatchHeight'
  BY RowsStep DEF IInv
<1> QED
  BY <1>1, <1>2, NothingLostStep, ProcessedStep, OracleStep DEF IInv

LEMMA Invariance == Spec => []IInv
BY InvInit, InvStep, PTL DEF Spec

(* Every variable keeps its type.                                          *)
THEOREM TypeCorrect == Spec => []TypeOK
BY Invariance, PTL DEF IInv

(* No deposit below the executor's committed height is lost: it is on L2,  *)
(* waiting as an unconfirmed row, or refused by L2 (monitor.ts, l1.ts).    *)
THEOREM DepositsNotLost == Spec => []NothingLost
<1>1. IInv => NothingLost
  BY DEF IInv
<1> QED
  BY <1>1, Invariance, PTL

(* The Resurrector marks a row processed only when the deposit is on L2 or *)
(* its receiver is blocked (resurrector.ts).                               *)
THEOREM MarksAreSound == Spec => []ProcessedIsSettled
<1>1. IInv => ProcessedIsSettled
  BY DEF IInv
<1> QED
  BY <1>1, Invariance, PTL

(* The tables agree with the height committed with them (monitor.ts).      *)
THEOREM TablesAgree == Spec => []RowsMatchHeight
<1>1. IInv => RowsMatchHeight
  BY DEF IInv
<1> QED
  BY <1>1, Invariance, PTL

(* The oracle height stored was accepted by L2 (l1.ts).                    *)
THEOREM OracleHeightSound == Spec => []OracleHeightRelayed
<1>1. IInv => OracleHeightRelayed
  BY DEF IInv
<1> QED
  BY <1>1, Invariance, PTL

(* The height advances only over settled deposits: the Resurrector's pass  *)
(* at the head of an iteration leaves no row waiting (monitor.ts).         *)
THEOREM AdvanceOverSettled == Spec => SettleBeforeAdvance
<1>1. IInv /\ [Next]_vars =>
        [dbSynced' > dbSynced =>
           \A d \in Deposits : Committed(d) => Settled(d)]_vars
  <2> SUFFICES ASSUME IInv, [Next]_vars, dbSynced' > dbSynced,
                      NEW d \in Deposits, Committed(d)
               PROVE  Settled(d)
    OBVIOUS
  <2>1. dbSynced \in Int /\ dbSynced' \in Int
    BY InvStep DEF IInv, TypeOK, NoState
  <2>2. dbSynced # NoState
    BY LimitsAssumption DEF IInv, TypeOK, Committed, InCharge, NoState
  <2>3. pending = {}
    BY <2>1, <2>2, SyncedStep
  <2> QED
    BY <2>3 DEF IInv, NothingLost, Settled
<1> QED
  BY <1>1, Invariance, PTL DEF Spec, SettleBeforeAdvance

(* Blocks handled again after a crash never reopen a processed row.        *)
THEOREM ProcessedForGood == Spec => NeverReopened
<1>1. IInv /\ [Next]_vars => [processed \subseteq processed']_vars
  BY TablesStep DEF IInv
<1> QED
  BY <1>1, Invariance, PTL DEF Spec, NeverReopened

-----------------------------------------------------------------------------
(* Refinement *)

LEMMA PromiseInit == Init => Promise!PInit
BY DEF Init, Promise!PInit, finalized

LEMMA PromiseStep == IInv /\ [Next]_vars => [Promise!PNext]_(Promise!pvars)
<1> SUFFICES ASSUME IInv, [Next]_vars
             PROVE  Promise!PNext \/ UNCHANGED Promise!pvars
  OBVIOUS
<1> DEFINE Rejected == processed \ finalized
<1> USE DEF IInv, TypeOK
<1> Promise!Minted = finalized
  BY DEF Promise!Minted, finalized
<1>1. CASE NewL1Block
  <2>1. PICK S \in SUBSET {d \in Deposits : depositHeight[d] = 0} :
          depositHeight' = [d \in Deposits |-> IF d \in S THEN l1Height + 1
                                               ELSE depositHeight[d]]
    BY <1>1 DEF NewL1Block
  <2>2. Made' = Made \cup S
    BY <2>1 DEF Made
  <2>3. S \cap Made = {}
    BY <2>1 DEF Made
  <2>4. UNCHANGED <<mints, finalized, processed>>
    BY <1>1, MintsKept DEF NewL1Block, l2, db, rows
  <2>5. Promise!Make(S)
    BY <2>2, <2>3, <2>4 DEF Promise!Make, Made
  <2> QED
    BY <2>1, <2>5 DEF Promise!PNext
<1>2. CASE L2Deliver
  <2>1. UNCHANGED <<depositHeight, processed>>
    BY <1>2 DEF L2Deliver, l1, db, rows
  <2>2. CASE tx.kind = "deposit"
    <3>1. /\ tx.deposits \subseteq Made
          /\ tx.deposits \cap (finalized \cup Blocked) = {}
      BY <1>2, <2>2 DEF L2Deliver, WalletOK
    <3>2. tx.deposits \cap Rejected = {}
      BY <3>1 DEF ProcessedIsSettled
    <3>3. /\ finalized' = finalized \cup tx.deposits
          /\ mints' = [d \in Deposits |-> IF d \in tx.deposits
                                          THEN mints[d] + 1 ELSE mints[d]]
      BY <1>2, <2>2, Delivered DEF L2Deliver
    <3>4. Rejected' = Rejected
      BY <2>1, <3>2, <3>3
    <3>5. Promise!Mint(tx.deposits)
      BY <2>1, <3>1, <3>2, <3>3, <3>4 DEF Promise!Mint, Made
    <3>6. tx.deposits \in SUBSET Deposits
      BY DEF Msgs
    <3> QED
      BY <3>5, <3>6 DEF Promise!PNext
  <2>3. CASE tx.kind # "deposit"
    <3>1. mints' = mints
      BY <1>2, <2>3 DEF L2Deliver
    <3> QED
      BY <2>1, <3>1, MintsKept DEF Promise!pvars
  <2> QED
    BY <2>2, <2>3
<1>3. CASE Mark
  <2>1. PICK d \in marks : UpdateProcessed(d)
    BY <1>3 DEF Mark
  <2>2. UNCHANGED <<depositHeight, mints, finalized>>
    BY <1>3, MintsKept DEF Mark, chains, l1, l2
  <2>3. d \in finalized \cup Blocked
    BY <1>3, <2>1 DEF Mark, ResurrectOK
  <2>4. CASE d \in pending \ finalized
    <3>1. d \in Made
      BY <2>4, LimitsAssumption
         DEF RowsMatchHeight, Committed, InCharge, Made
    <3>2. Promise!Reject(d)
      BY <2>1, <2>2, <2>3, <2>4, <3>1
         DEF Promise!Reject, UpdateProcessed, Made
    <3> QED
      BY <3>2, <2>4 DEF Promise!PNext
  <2>5. CASE d \notin pending \ finalized
    BY <2>1, <2>2, <2>5 DEF UpdateProcessed, Promise!pvars
  <2> QED
    BY <2>4, <2>5
<1>4. CASE Commit
  <2>1. processed' = processed
    BY <1>4, LimitsAssumption
       DEF Commit, BufferOK, RowsMatchHeight, Committed, InCharge
  <2> QED
    BY <1>4, <2>1, MintsKept DEF Commit, chains, l1, l2, Promise!pvars
<1>5. CASE UNCHANGED <<depositHeight, mints, processed>>
  BY <1>5, MintsKept DEF Promise!pvars
<1> QED
  BY <1>1, <1>2, <1>3, <1>4, <1>5, DyingSteps
     DEF Next, Bot, Prepare, Resurrect, Oracle, Blocks, L2Drop, Die, Start,
         PrepareSend, PrepareDone, Poll, PollNothing, NextChunk,
         ResurrectDone, BatchSend, BatchDone, BatchError, MarkDone, MarkError,
         SplitSend, SplitDone, OracleSend, OracleDone, OracleSkip, BlockSend,
         BlockDone, BlockError, BlockHandled, BlockBreak, BlocksDone,
         Broadcast, vars, chains, l1, l2, db, rows

(* The executor keeps the bridge's promise: each deposit is minted at most *)
(* once (mints counts them) and only if made, and given up only if L2 can  *)
(* never take it.                                                          *)
THEOREM PromiseKept == Spec => KeepsPromise
BY PromiseInit, PromiseStep, Invariance, PTL
   DEF Spec, KeepsPromise, Promise!PSpec
=============================================================================
