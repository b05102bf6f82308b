# OPinit bots in TLA+

TLA+ models of the bots in this repository that keep an OPinit rollup (L2) connected to its
settlement chain (L1), with the TLC runs that check them on small instances and the TLAPS proofs
that hold for every instance. Paths below are relative to the repository; `executor/monitor` stands
for `src/src/worker/bridgeExecutor/monitor`, `challenger` for `src/src/worker/challenger`.

## 1. The system

Four processes share one Postgres database (the challenger has its own). Each is started again by pm2
when it ends (`src/pm2.json:8,16,24,31`), and most error handling in the code relies on that: an error
that nobody catches ends the process (the loops are started without being awaited, so a rejected
promise is unhandled), a database transaction that was open is rolled back, and the process resumes
from its committed rows. The chains are not rolled back. Nearly every hard question here is about the
two kinds of memory drifting apart.

| part | state it keeps | operations | talks to |
|---|---|---|---|
| executor, L1 monitor (`executor/monitor/l1.ts`, `monitor.ts`) | `StateEntity` height, oracle height, deposit rows | poll, set bridge info, update oracle, relay the deposits of a block, commit | L1 (reads), L2 (one transaction per block), database |
| resurrector (`executor/monitor/resurrector.ts`) | `processed` mark of unconfirmed rows | resend rows in batches, then one by one | L2, database, notifications |
| executor, L2 monitor (`executor/monitor/l2.ts`) | height, withdrawal rows, output rows | store withdrawals, decide that an output is due, compute and store it | L2 (reads), L1's oracle (reads), database |
| output submitter (`src/src/worker/outputSubmitter`) | none but memory | read L1's last index, read the table, propose in chunks | L1, executor's tables |
| batch submitter (`src/src/worker/batchSubmitter`) | record rows | cut outputs into bulks and transactions, publish, record | L2 (reads), L1 or Celestia, executor's tables |
| challenger (`src/src/worker/challenger`) | deposit, finalized deposit, withdrawal, output rows, index to check | two monitors, and a loop that compares deposits and output roots and deletes a wrong output | L1, L2, its database |
| wallets (`src/src/lib/walletL1.ts`, `walletL2.ts`) | cached account number and sequence | simulate, sign, broadcast, await | nodes |
| block feed, RPC client (`helper.ts`, `src/src/lib/rpc.ts`) | current node | fetch blocks, retry, rotate | nodes |
| Merkle storage, Celestia blobs (`src/src/lib/storage.ts`, `src/src/celestia`) | none | trees, proofs, shares, commitments | - |
| query API (`src/src/service`, `src/src/controller`) | none | read-only queries, claim data | database |

What is hard, and what must be right:

* **Executor, L1 side.** A block's deposits go to L2 from *inside* the database transaction. The
  process may die between the two; a broadcast may time out while the transaction is still in the
  mempool; one bad deposit fails its whole batch. Must be right: no deposit is skipped, minted twice, or
  given up while L2 would take it; tables and heights agree; the executor catches up.
* **Executor, L2 side, and submitter.** Each decides from what the other wrote and from L1, which the
  challenger changes too. A withdrawal is given the index of an output that does not exist yet. Must be
  right: ranges follow one another, every stored withdrawal is under the root of its output, outputs are
  proposed once and in order, and neither waits for the other for ever.
* **Batch submitter.** Publishes many transactions in one database transaction and starts over after any
  error. Must be right: records point to data, cover every output, and data is not paid for again and
  again.
* **Block feed.** Every monitor asks one node of a list at a time, and three layers retry, each in its own
  way: what is a miss for one is an error for the next. Must be right: no change of node, retry or restart
  makes a monitor skip, repeat or reorder blocks, and the feed goes on while the nodes serve.
* **Merkle trees, blobs, API.** A withdrawal's proof is stored with its output and read by clients while
  more is stored; the shares of a blob are counted by one function and cut by another. Must be right: every
  proof verifies for its withdrawal only, the commitment and the gas are of the shares that are sent, and a
  client that pages through a list misses nothing.
* **Challenger.** Three loops interleave in one process, each with its own transaction; the process ends
  itself after each challenge. Must be right: an invalid output is deleted, a valid one is not, and the
  index to check moves only over outputs that were compared.

`PROJECT.json` lists every hazard at its line, with the properties that cover it.

## 2. The modules

| module | models | abstract specification | proofs |
|---|---|---|---|
| `DepositRelay` | executor: L1 monitor, resurrector, L2 wallet | `BridgePromise` | `DepositRelayProofs` |
| `OutputPipeline` | executor: L2 monitor; output submitter; L1's output oracle | `OutputLog` | `OutputPipelineProofs` |
| `BatchSubmitter` | batch submitter and the data-availability chain | - | `BatchSubmitterProofs` |
| `Challenger` | challenger: both monitors and the loop; L1's output oracle | `ChallengePromise` | `ChallengerProofs` |
| `BlockFeed` | the loop of a monitor from a start to a commit, the requests it makes, the RPC client; the nodes | `FeedPromise` | `BlockFeedProofs` |
| `BlobCommitment` | shares, subtrees, commitment and gas estimate of a Celestia blob | - | `BlobCommitmentProofs` |
| `Claims` | Merkle roots and proofs of withdrawals; the paged lists and `/tx/claim` of the query API | - | `ClaimsProofs` |

`MCDepositRelay`, `MCOutputPipeline`, `MCChallenger`, `MCBlockFeed`, `MCBlobCommitment` and `MCClaims` give
the constants their small values; `BatchSubmitter` has numbers only and needs none. `DataInduction` holds the
induction that the proofs about trees and hashes use (section 4).

How they compose: `OutputPipeline` composes the L2 monitor, the submitter and the oracle through the
tables and the chain they share. `BatchSubmitter` and `Challenger` take from it what it proves: outputs
are appended with contiguous ranges and never changed (`OutputsContiguous`, `NeverRewritten`), and an
honest output has the withdrawals of its range as leaves (`WithdrawalsProvable`); they use these facts as
the behaviour of their environment (`NewOutput`, `ProposedOutput`). `DepositRelay` and `OutputPipeline`
are two halves of one executor process that share nothing but the process: a crash of one half is a
crash of the other, and since either may crash at any step in its own model, their composition adds no
behaviour to either. `BlockFeed` is below both, and below the challenger's monitors: what it shows
(`KeepsFeed`: each block once, in order, with its events) is what their `HandleBlock` takes for granted.
`Claims` is beside `OutputPipeline`: there a root is the set of its leaves, here it is a tree, and a
withdrawal's proof is a path in it. `BlobCommitment` is inside one `Publish` of `BatchSubmitter`.

### 2.1 Conventions

* An action is what a process does between two awaits at which others can observe or disturb it. A
  handler that only touches its own memory and its own open transaction is one action.
* Committed tables and the process's view inside its open transaction are different variables
  (`outputs` and `myOutputs`; `dbDeposits` and `bufDeposits`). `Commit` copies, `Die` throws away.
* A transaction's life is `tx`, `txStatus` (where the chain has it) and `call` (whether the process still
  waits). A timeout ends the wait and leaves the transaction where it is; the chain may execute it later.
* A chain is external code: `L2Accepts`, `L2Deliver`, `Accepts`, `L1Deliver`, `DeleteOutput` model it
  from what the bots rely on (atomic transactions, a deposit is finalized once, proposals get the next
  index and must end above the last block), and are marked external in the map.
* Hashes and Merkle roots are the data they are computed from: an output is its index, its range and the
  set of its leaves, and two roots are equal when those are.
* A definition with a mistake has the mistake in its name (`Rest_Dropped`, `RowsAfter_None`). No action
  uses one. Each is a bug that could have been made, and shows which property notices it.

### 2.2 DepositRelay

`Start` is `Monitor.run` (load or create the state row), `Prepare*` is `prepareMonitor`, `Poll` to `Commit`
one turn of `Monitor.monitor` (`monitor.ts:93-170`). `NextChunk`, `Batch*`, `Mark*`, `Split*` are the
resurrector: a batch of at most `MAX_RESURRECT_SIZE` rows, marks committed one by one, and after any
error in the batch's `try` block (also one after the batch went through: `MarkError`) each row again by
itself. `Oracle*` is the oracle update of `handleNewBlock`, whose errors are swallowed. `Block*` handles one
block of the open transaction: send its deposits, or store them as unconfirmed. `Broadcast`, `Confirmed`,
`Refused`, `Unsent`, `TimedOut` are the ways a call of `TxWalletL2.transaction` goes on. Deposits in `Blocked`
are those L2 refuses with "not allowed to receive funds"; those in `Failing` with an error the code does
not know.

L2 counts how often it has minted each deposit (`mints`), and so does the promise (`minted`); `finalized` are
those with a count above zero. That a deposit is minted at most once is therefore a clause that can be
broken: in the promise `Mint` excludes what was minted before, while `L2Deliver` adds one for each deposit of a
transaction. L2's refusal of a deposit it has finalized (`L2Accepts`) and one transaction at a time are what
keep it: without the refusal in `L2Accepts`, TLC reports `KeepsPromise` as violated.

### 2.3 OutputPipeline

`HandleBlock` is one L2 block: its withdrawals, then `handleOutput`. `SubmissionDue` and `NewOutput`
read L1's oracle as it is at that moment. Whether the submission interval has passed is left to the
clock (both choices are allowed). `ReadL1`, `ReadDB`, `Propose`, `Proposed`, `ProposeThrow` are the
submitter's loop; between any two of them the executor may commit, L1 may execute a transaction of an
earlier life of the submitter, and the challenger may delete.

### 2.4 BatchSubmitter

`ReadOutput` finds the output after the last record; `GetBatch` takes a bulk of it; `Publish`,
`Published` send the slices one after the other; `Save` writes the bulk's record into the open
transaction; `Commit` makes them visible. A transaction hash is the place of the transaction on the chain.
The size of compressed data is counted in blocks: the control only asks whether something is left.

### 2.5 Challenger

`NextDeposit`, `ReadLastOutput`, `CompareDeposit` are `challengeDepositTx`; `ReadContract`, `ReadRange`,
`CompareOutput` are `challengeOutputRoot`, which reads L1 several times; `SendDelete`, `Exit` are
`handleChallengedOutputProposal`, which ends the process. The L2 monitor handles the events of a block one
after another: `HandleWithdrawal` is one withdrawal event, which reads the loop's last committed output for
itself to give the withdrawal its index (`WithdrawalIndex`), and between two of them the loop may take any step,
a commit included; `handled` is the last withdrawal handled in the block, `Unhandled` those still to come, in the
order of their `l2_sequence`, which is how `Withdrawals` are numbered. `HandleBlock` stores the finalized
deposits of the block, which are read by nobody in between, and ends it. So two withdrawals of one block may get
different indexes, or the first may be dropped and the second not, as in the code. An iteration of the L1 monitor is one step,
because it reads nothing that the others write. `Propose` is the honest executor or, at most `MaxForged`
times, someone with a false root.

`Undisturbed` names the condition of `PassedIsOnL1`: every deletion was awaited (`MaxTimeouts` counts
those that were not), and no deposit was finalized with other contents. Without it the property is not
true of the code: a deletion sent by an earlier life of the process may be executed late, when a valid
output has taken the place of the false one and was passed.

`ChallengePromise` is what a user sees of all this: outputs appear on L1, the next one is passed, or it is
deleted with all after it. Its `disturbed` is `~Undisturbed`: from then on L1 may lose outputs that were passed,
and what stays promised is that the outputs passed are neither forgotten nor changed.

### 2.6 BlockFeed

A node is its height, the height up to which it has indexed results, its first block, and whether it is
up or broken; it may fall behind, stop, drop blocks, or answer an error with status 200, which the client
takes for a null (`Quiet`). `Latest`, `GetBlockchain` and `FeedBlock` are the requests of `Monitor.monitor`,
each with what the code does on an error (`...Throw`) and on a null (`...Null`): `getBlockchain` takes the
next node and asks again, `MAX_RETRY` times; `feedBlock` and `feedBlockResults` give up after three errors
but ask again at once, and without end, after a null (`FeedNull`); missing results are a `Miss`, and after
`ROTATE` misses in a row the monitor takes the next node. `handled` is what the monitor has committed.

### 2.7 BlobCommitment

`WriteShare` is one turn of the loop that cuts the data, `PlanTree` one turn of
`merkleMountainRangeSizes`, `HashTree` one subtree, `Commit` the tree over their roots. The data is the range of its positions;
a digest is the list of the leaves below it, each with its depth, so two digests are equal only for equal
trees. `getCelestiaFeeGasLimit` is the estimate made from the length alone. The recursion of the two tree
algorithms is over the number of leaves, and covers all trees of that size at once: the tree of n leaves after
the first i.

### 2.8 Claims

`StoreBlock` is a block of the L2 monitor: a withdrawal, if it has one, then an output, if one is due, whose
root and proofs are written into the rows. `ReadPage` is a request for a page of a list; `FindClaims`,
`Respond`, `Lookup`, `LookupThrow` are the steps of `getClaimTxList`, in the order in which the event loop
takes them. `LookupThrow` is the rejection that nobody handles: it ends the executor.

## 3. The runs

| run | module | what it asks | result |
|---|---|---|---|
| `deposit` | DepositRelay | three deposits, one blocked, one failing for an unknown reason, two faults: nothing lost or given up wrongly, tables agree, implements `BridgePromise`; and, when no unknown error is met, reaches L1's height and settles every committed deposit | holds |
| `output` | OutputPipeline | a withdrawal, two faults, one deletion: contiguous ranges, provable withdrawals, proposed once and in order, implements `OutputLog`; without a deletion every output reaches L1 | holds |
| `output_withdrawals` | OutputPipeline | is every withdrawal after the start height stored? | **no** |
| `batch` | BatchSubmitter | outputs of up to two bulks and several transactions, two faults: records follow outputs and point to their data, data is published in order and not paid for without need, every output is recorded | holds |
| `batch_record` | BatchSubmitter | does the record of an output name all of its data? | **no** |
| `challenger_safety` | Challenger | two withdrawals, in one block or in two, a corrupted deposit, a crash, an unawaited deletion: tables, counters and L1 agree; implements `ChallengePromise` | holds |
| `challenger_empty` | Challenger | nobody withdraws, an output is false: deletes exactly the false one, answers every output, checks every deposit | holds |
| `challenger_withdrawals` | Challenger | with a withdrawal, are only invalid outputs deleted? | **no** |
| `blob` | BlobCommitment | lengths at the ends of shares and rows, and the longest: shares hold the data, gas covers them, subtrees are aligned, the commitment binds each share to its place | holds |
| `feed` | BlockFeed | two nodes, one of them quiet about its errors, two failures: implements `FeedPromise`; goes on when the nodes serve | holds |
| `claims` | Claims | trees of one to five leaves, clients that read while rows are added: proofs verify, pages miss nothing | holds |
| `claims_list` | Claims | does a response of `/tx/claim` have a claim for each withdrawal it counts? | **no** |

Each property of a passing run has a mutant in `PROJECT.json`: the mapped definition that is replaced,
and the variant under which TLC reports this property as violated.

### 3.1 Where code and documentation disagree

1. **Withdrawals before the first output are dropped** (`output_withdrawals`).
   `handleInitiateTokenWithdrawalEvent` returns when there is no output yet (`l2.ts:56-61`), before its own
   fallback for that case (line 86), so the withdrawals of every block of the first output are never stored. `output` starts from this fact: a *stored* withdrawal is provable.
2. **The record of an output of more than 1000 blocks names its last bulk only** (`batch_record`). One
   record per bulk, all with the same primary key (`batchSubmitter.ts:80-89, 229`). The data itself is on
   the chain, which is proved (`RecordedIsAvailable`).
3. **The challenger can delete a valid output** (`challenger_withdrawals`). Its L2 monitor labels a
   withdrawal by how far the challenge loop has come (`monitor/l2.ts:37-40, 67`), but the monitor follows
   L2's head while the loop follows L1. A withdrawal read early is put under an earlier output, or dropped,
   and the challenger's root for the right output differs. No failure is needed.
4. **`/tx/claim` lists no claim** (`claims_list`). The lookups are started by a `map` that nobody awaits
   (`ClaimTxService.ts:67-90`): the response is written before the first is back. A lookup of an output that
   is still to come throws (line 73) where no handler is left, and ends the executor's process.

Two more observations have no run of their own; each is a property of its module:

* After a deletion the submitter may propose a later output in the deleted one's place. Proposals carry
  no index (`outputSubmitter.ts:105-112`); the submitter reads L1's last index (line 51) and proposes
  later. `SubmittedAsStored` of `OutputPipeline` does not hold under the constants of `output`.
* A challenged deposit makes the challenger miss a false output. The challenge deletes the *last* output
  on L1 (`challenger.ts:164-174`), which may have been passed; the index to check never goes back.
  `FalseNeverPassed` does not hold with `Corrupted = {1}`; the theorem `NoFalsePassed` has the condition.

### 3.2 Bounds

Every bound is a constant with a name.

* `MaxFaults` counts crashes, lost transactions, node failures and timeouts together. Two are
  enough for the interesting combinations: a timeout or a crash between the L2 transaction and the
  commit, then a failure in the recovery from it.
* `MaxHeight` with `MAX_BLOCKS = 2` gives more than one iteration of a monitor, iterations of one and of
  two blocks, and blocks that are read again. `START_HEIGHT = 1` in `deposit` and `output_withdrawals` puts
  blocks before the first one the monitor reads.
* Three deposits (one of each kind) with `MAX_RESURRECT_SIZE = 2` give a full chunk, a partial chunk and a
  second chunk. In `output`, `MAX_OUTPUT_PROPOSAL = 2`, five blocks and one deletion give chunks of one and
  of two outputs; a full first chunk followed by a second needs more deletions and is left to the proof,
  which is for every limit.
* `maxBulkSize = 2`, `maxBytes = 1`, outputs of one to three blocks: exactly one bulk, a bulk and a rest,
  bulks of one and of several transactions.
* `MaxForged`, `MaxTimeouts`, `MaxDeletes`, `MaxDeposits` say how often others do what the bots must cope
  with. `challenger_safety` and `challenger_empty` split the combinations: withdrawals and late deletions
  in one, false outputs and liveness in the other. The split is one of time: with `MaxForged = 1` as well
  the first has eight million states. `ChallengeKept` is for all combinations.
* `feed`: two nodes so that there is a next one, three blocks of which two have transactions,
  `MAX_RETRY = 3` (more than there are nodes), `ROTATE = 2` (less than the misses that can happen). One node
  is quiet and one is not, since the code treats them differently everywhere.
* `blob`: every length that is one byte short of, at, and one byte over the end of the first, second, third
  and seventh share and of shares at the thresholds where the subtree width or the number of rows changes
  (63 to 65, 127, 128, 191), one share count that gives many subtrees, and the largest slice.
* `claims`: trees of one to five leaves have every shape that matters: one leaf, even and odd layers, an
  odd last node that goes up twice. `LIMIT = 2` with five rows gives full pages, a partial page and an empty one.
  A block holds at most one withdrawal, and one client reads at a time: clients share nothing, so two at a
  time add no behaviour to one.
* `MaxWithdrawals = 2` in `challenger_safety` and `challenger_withdrawals`: two is the least for an order among
  withdrawals, and for a commit of the loop between two events of one block. `challenger_empty` has none.
* Symmetry is used over users in `claims` and `claims_list`, who differ in nothing but their name; no liveness
  property is checked there. Withdrawals are numbered by the order they are made in and have no symmetry.

Deadlock is checked in all runs. A process with nothing to do polls again (`PollNothing`, `ReadNothing`).

### 3.3 Fairness

* The chains: L1 and L2 make blocks (`NewL1Block`, `NewL2Block`, where a property speaks of reaching a
  height) and execute what their mempool keeps (`L2Deliver`, `L1Deliver`, `Deliver`). A transaction that is
  lost is a fault.
* The processes: pm2 restarts them (`autorestart`), the event loop runs every task that is ready. Where a
  process is one sequential loop it has one weak-fairness condition; in the challenger each of the three
  loops has its own, since a pending await of one does not hold up the others.
* Nothing is assumed of users, of whoever proposes outputs, or of the executor when the batch submitter
  waits for it. Faults are bounded, so "once failures stop" is part of each behaviour.
* `CatchesUp` and `EventuallySettled` are of behaviours with `[]NoneFails`: an L2 error the resurrector does
  not know is thrown, ends the process and is met again after each restart. `OutputsReachL1` is of behaviours
  without a deletion, and `KeepsLog` promises nothing after the first. `FeedGoesOn` is of behaviours in which
  from some point on the nodes are `Serving`: each node of the list is reached, follows the chain and has
  the blocks that are due, at least one indexes results, and none that does not index is quiet about it. Each
  condition is needed: a process always starts at the first node, a node that has nothing new is never
  left, and a null is asked for again for ever. `EveryDepositChecked` speaks of deposits that are all finalized
  above the start height: a deposit that the executor gave up holds up the challenger's check for good.
* A withdrawal whose token pair cannot be looked up is stored by neither monitor; this is a fault.

## 4. The proofs

TLAPS proves, for every value of the constants, from the named assumptions on them only
(`DepositsAssumption`, `LimitsAssumption`, `PipelineAssumption`, `ChallengerAssumption`, `FeedAssumption`,
`BlobAssumption`, `BatchAssumption`, `ClaimsAssumption`):

* **DepositRelayProofs**: `TypeOK`, `NothingLost`, `ProcessedIsSettled`, `RowsMatchHeight`,
  `OracleHeightRelayed`, `SettleBeforeAdvance`, `NeverReopened` (a processed row stays processed; no run
  checks it), and `KeepsPromise`: the executor implements `BridgePromise`.
* **OutputPipelineProofs**: `TypeOK`, `OutputsContiguous`, `WithdrawalsProvable`, `OnL1OnceInOrder`,
  `NeverRewritten`, and `KeepsLog`: executor and submitter implement `OutputLog`.
* **BatchSubmitterProofs**: `TypeOK`, `RecordPerOutput`, `RecordsPointToData`, `PublishedInOrder`,
  `PaidOncePerFault`, and two that no run checks: `RecordedIsAvailable` and `RecordedForGood`.
* **ChallengerProofs**: `TypeOK`, `PassedIsOnL1`, `OutputsMatchIndex`, `IndexesInOrder`,
  `Undisturbed => FalseNeverPassed`, `CheckedIsFinalized` (no run checks it), and, assuming that there are no
  withdrawals, no corrupted deposits and no unawaited deletions, `DeletesOnlyInvalid`. And `KeepsChallenge`:
  the challenger implements `ChallengePromise`, under no condition.
* **BlockFeedProofs**: `TypeOK` and `KeepsFeed`: the feed implements `FeedPromise`.
* **BlobCommitmentProofs**: `SharesHoldBlob`, `GasCoversBlob`, `SubtreesAligned`, `CommitmentBinds`, for every
  length up to `maxBytes`; and `TypeOK`, which no run checks, of every variable: the roots and the commitment, too.
* **ClaimsProofs**: `ProofsVerify`, and `PagesMissNothing` (no row that was there is missing; a row may come twice
  in a descending list), for every number of withdrawals, every order of their hashes and every page size; and
  `TypeOK`, which no run checks, of every variable: what was read from the tables has their types and is in them
  still.

`DataInduction` holds no result about the bots, only the lemma the proofs about trees use: a set of natural
numbers that holds 0, and with every number the next, holds all.

**Deposit relay.** `NothingLost` alone is not inductive: a commit moves the height over deposits whose fate
is known only from the process's memory. The inductive invariant is the conjunction of `TypeOK`, the four
state invariants, and four parts:
`HeightsOK` (heights in memory, in the database and on L1 are ordered), `WalletOK` (what a pending or
executed transaction contains, and that a call being awaited is the one its program point sent),
`ResurrectOK` (at each point of the resurrector every waiting row is still in one of `todo`, `chunk`,
`left`, `marks`, so that none is left when it is done), and `BufferOK` (inside the open transaction every
deposit between the committed and the current height is on L2 or in the buffer of unconfirmed rows).
`ResurrectOK` at its end gives `SettleBeforeAdvance`, and `BufferOK` gives `NothingLost` at the commit. The
step that needs care is a late transaction: `WalletOK` says that a pending one contains only deposits that
were neither finalized nor blocked when it was sent, and since one transaction is pending at a time,
executing it late mints no deposit twice: every deposit of a transaction that L2 executes has a count of zero
before, and one after. The refinement maps `L2Deliver` to `Mint`, marks
of blocked deposits to `Reject`, new blocks to `Make`, and all else to stutters.

**Output pipeline.** The invariant says of a table, a map from withdrawals to indexes and a height what the
blocks up to that height leave in them (`TablesOK`: `Partition`, `Stamped`, `Rooted`), and holds of the
committed tables and of those in the open transaction, the first being a prefix of the second
(`ExecutorOK`). `Stamped` is the strengthening that makes `WithdrawalsProvable` inductive: a stored
withdrawal that is under no output yet has the next index and is above the last output's end. What the
submitter has read, sends, or has in the mempool from an earlier life is a run of consecutive committed
outputs (`SubmitterOK`), and L1 holds committed outputs in order, each at or before its own place
(`OracleOK`). The two meet in `DueMeansPublished`: when the executor finds an output due, L1's
last output is the last one of the table, even after deletions, so the index and the range computed from
L1 are those that follow in the table. `LockstepOK` (without deletions L1 has all outputs but at most
one) gives the refinement.

**Batch submitter.** The key notion is the *frontier*, the first block not yet published in this life of the
process: it is read off the program counter and the batch at work. The invariant says that every block of
the output at work below the frontier is available and that some data on the chain ends right before it
(`OutputOK`, `TxOK`), which gives the order and, at the commit, the records. `PaidOncePerFault` needs more
than its own statement: a slice at or above the frontier has as many copies as there were faults, and one
below it at most one more (`PaidOK`). Each life ends by a fault, which pays for the copies the next life
makes; a life that finds an earlier life's transaction in its way has published nothing.

**Challenger.** `LoopOK` relates the loop's open transaction to the committed tables at each program
point, since the row of an output is written before its comparison and the process may end between the
two. `CalmOK` is what holds while `Undisturbed`: L1 still has what was passed (`Matches`), a deletion in the
mempool is of the output at the index to check and the loop is waiting for it, so it removes nothing that
was passed, and what the loop has read of L1 in one check is still true at the next read, because nobody else
deletes. `MonitorOK` orders the labels of withdrawals by their sequence, in the table and in the open transaction
(`Labelled`): the withdrawals labelled are those up to a point of the L2 chain (`Reached`: blocks up to a height,
and of the next block the withdrawals up to the one handled last), labels never fall along that order, and none
is above the next output. Since the loop's committed outputs only grow, an event handled later never gets a
lower index, whether it is of the same block or of another; a block repeated after a crash is above every
committed label. `FalseOK` adds that, with no
leaves to differ, an output that differs from the computed one has a false root.

The refinement maps `passed` to the rows below the index to check. Only `Propose`, `Deliver` and `CommitLoop` are
seen; the first disturbance is `Disturb`, and all else is a stutter. `CalmOK` makes `Deliver` a `Delete`: the
transaction is of the output at the index to check, and L1 has below it what was passed, so what is left is
exactly `passed`. A commit needs one more invariant, `PassOK`: the loop is about to commit the index it had
or the next one, and the rows below are as they are. That part holds when disturbed, too, and gives
`LatePass`.

**Block feed.** What is committed and what is pending together are the blocks from `START` on up to the
height in memory, each with its events; the headers waiting are consecutive; a header is handled only if it is
the one that is due. The refinement maps `Commit` to a step of `FeedPromise` and all else to stutters.

**Blob.** What has been cut so far is a prefix of the shares; the number of full shares and the rest follow
from the length by division. `GasCoversBlob` compares that with the estimate: it may be one share short
when the data ends at a share's boundary, and the fifth added to it covers one share, because a fifth of
the fixed cost alone is more than three. The subtree widths are powers of two up to 2048, and the argument
that sizes never grow and stay aligned goes by the divisibility of the rest of the range.

**Induction over data.** The library's induction theorems take a formula as a parameter, which the installed
provers cannot instantiate. `DataInduction` states induction for a set of numbers instead, and proves it from
the library's theorem that well-founded relations have minimal elements. Each recursive function of the
models (`Layers`, `Places`, `Siblings`, `Climb`, `Root`, `hashFromByteSlices`) is used in two steps. First, the
numbers up to which a function with its equation exists are all numbers; so the `CHOOSE` that TLA+ means by a
recursive function has such a function, and the equation may be used (`LayersDef`, `ClimbDef`, `RootDef`,
`ListDef` and the others). Second, the numbers at which the function has the value claimed are all numbers.

**Blob commitment.** `RootBinds`: the tree over n shares after the first i is a digest with the leaves i + 1 to
i + n in order; and when n is a power of two each of them is as deep as its logarithm, because the split point
halves it (`HeightOfHalves`). `ListBinds` says the same of the tree over a list of roots: it keeps the leaves of the
roots in order, whatever the number of roots. `HashesOK` is the invariant that joins them: the roots so far are
the trees between the ends of the planned sizes, the cursor is where the last one ended, and there are never
more trees than shares. The types of the roots and of the commitment follow from it (`RootsBind`,
`BindsInOrder`): a root is what `Subtree` says, never the value of siblings out of order. `SubtreesAligned` makes the ends follow one another up to the last share.

**Claims.** `WayUp` is the induction up the layers of a withdrawal's tree. In layer n the node above the leaf is in
its place, the proof so far climbs from the leaf to that node, and the layer has become smaller; so after as
many layers as there are leaves one node is left, the root. `ProofBinds` adds that no other leaf climbs to the
root: a step of the climb is injective, because a pair of hashes with one in common is the same pair only
if the other is, too. The invariant is `RootsOK` (an output has the root of the withdrawals that name it, each
of which has this root and its own proof, and one whose output is still to come has none), `GotOK` (a row that
a client got with a root is as it was) and `PagesOK` (what was there when the client began, and is not among what
it got, has a place after the pages it has read). `RootsOK` is inductive because a withdrawal is stored under the
output that is next, never under one that is stored: the leaves below a stored root stay what they are.
`PagesOK` is, because rows are only added, which moves a row to a later place in a descending list and never to an
earlier one (`RankGrows`); a page that is not full is the last (`PageFull`). `ReadOK` is the rest of `TypeOK`: what a
client read is of rows and outputs that are stored. A later block changes nothing in a row but its root and its
proof (`BlockKeepsRead`), and a lookup finds the output that the row names (`LookupRead`).

The proofs cover safety: every invariant, action property and refinement that a passing run checks is proved,
with two conditions. `FalseNeverPassed` is proved while `Undisturbed`, and `DeletesOnlyInvalid` for a challenger
without withdrawals, corrupted deposits and unawaited deletions; both hold in the run because its constants
give that condition. Not proved, and only model-checked, is liveness (`CatchesUp`, `EventuallySettled`,
`OutputsReachL1`, `EveryOutputRecorded`, `EveryOutputAnswered`, `EveryDepositChecked`, `FeedGoesOn`), which is out of
TLAPS's reach.

## 5. What the models leave out

* **Contents.** Amounts, addresses, denoms and hashes; a corrupted deposit or a false root is one that
  differs. Metadata, metrics, logs and the text of notifications; that sending one may fail is kept.
* **The start.** The oracle on L1 and the databases are empty when a behaviour begins. A database lost
  while L1 has outputs (the hazard at `l2.ts:131`) is not modelled.
* **Deposits of the challenger** are numbered from 1 and start after its start height, except where
  `mintedAt` is at or below `START_HEIGHT`.
* **Wallet.** The cached account number and sequence (`walletL1.ts:144`) are reduced to their effect: a
  number taken by a transaction still in the mempool makes the next call fail. That sequence 0 counts as not
  known is only one more query. The wallet's balance check is left out.
* **Nodes.** `BlockFeed` has the nodes, the retries and the rotation; in the other modules a lagging node,
  results that are not indexed yet and failures are choices of the monitors.
* **RPC web sockets and `lookupInvalidBlock`** (`src/src/lib/rpc.ts`): nothing in the repository uses them.
* **API.** The list of deposits is the code of the other lists on another table (`DepositTxService.ts`).
  `/batch/{batch_index}` reads one record and splits its paths: for Celestia it expects
  `height::commitment` (`BatchService.ts`, and the comment in `RecordEntity.ts`), while `publishBatch` stores
  transaction hashes for both targets; the model of the batch submitter follows `publishBatch`. A claim
  looked up after its row was read but before the row got its proof would have none; the
  response is gone by then, so nobody sees it.
* **Configuration, metrics, notifications, start-up, servers, set-up and integration scripts.** Wiring, I/O,
  or run by hand. The settings that change behaviour are constants.

## 6. Plan

Done, checked and proved: `DepositRelay` with `BridgePromise`, `OutputPipeline` with `OutputLog`,
`BatchSubmitter`, `Challenger` with `ChallengePromise`, `BlockFeed` with `FeedPromise`, `BlobCommitment`, `Claims`.

What is left, in order:

1. A lost executor database: `OutputPipeline` from a state in which L1 has outputs and the table is empty.
2. The wallet of L1 by itself: cache of account number and sequence, refresh, a call that times out.
3. The path of a Celestia record, from what `publishBatch` stores to what `/batch/{batch_index}` reads.
