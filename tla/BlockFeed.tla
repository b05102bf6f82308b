----------------------------- MODULE BlockFeed ------------------------------
(***************************************************************************)
(* How a Monitor (bridgeExecutor/monitor/monitor.ts) gets its blocks from  *)
(* the RPC nodes of its list (lib/rpc.ts): it asks one node at a time for  *)
(* the latest height, for the headers of up to MAX_BLOCKS blocks and for   *)
(* the results of each block with transactions, and goes on to the next    *)
(* node of the list in two cases only.  Any error it does not catch ends   *)
(* the process, which starts again at the first node of the list.          *)
(*                                                                         *)
(* The nodes are external.  A node has blocks base .. height, the results  *)
(* of blocks base .. indexed, and may be down, stop getting blocks or stop *)
(* indexing.  What it cannot answer is an error, or a null from a node     *)
(* behind a proxy that answers errors with status 200 (Quiet).  What the   *)
(* monitors do with a block is left to DepositRelay and OutputPipeline.    *)
(***************************************************************************)
EXTENDS Integers, Sequences

CONSTANTS
  NODES,             \* length of the list of RPC URIs
  Quiet,             \* nodes that answer errors with status 200
  START,             \* height the monitor is configured to start after
  Txs,               \* blocks with transactions
  MAX_BLOCKS,        \* headers asked for at once: 20
  MAX_RETRY,         \* requests of getBlockchain: 10
  ROTATE,            \* MAX_RETRY_INTERVAL / INTERVAL_MONITOR: 300
  MaxHeight,         \* bound: blocks of the chain
  MaxFaults          \* bound: failures of nodes and crashes

ASSUME FeedAssumption ==
  /\ NODES \in Nat \ {0} /\ Quiet \subseteq 1 .. NODES
  /\ START \in Nat /\ MaxHeight \in Nat /\ MaxFaults \in Nat
  /\ MAX_BLOCKS \in Nat \ {0} /\ MAX_RETRY \in Nat \ {0} /\ ROTATE \in Nat \ {0}

VARIABLES
  nodes,             \* the nodes
  faults,            \* failures so far
  dbHeight,          \* database: height of the monitor's state row
  handled,           \* database: the blocks committed
  pc,                \* the monitor: where it is
  node,              \* RPCClient.curRPCUrlIndex, from 1
  syncedHeight, latestHeight, retryNum,
  retry,             \* attempts of the request being repeated
  metas,             \* headers not handled yet, ascending
  pending            \* blocks handled in the open transaction

nodeVars == <<nodes, faults>>
dbVars   == <<dbHeight, handled>>
mvars    == <<pc, node, syncedHeight, latestHeight, retryNum, retry, metas, pending>>
vars     == <<nodes, faults, dbHeight, handled, pc, node, syncedHeight,
              latestHeight, retryNum, retry, metas, pending>>

Nodes == 1 .. NODES

(* maxRetry of feedBlock and feedBlockResults.                             *)
maxRetry == 3

MinOf(a, b) == IF a <= b THEN a ELSE b
MaxOf(a, b) == IF a >= b THEN a ELSE b

Blocks == [height : Nat, events : BOOLEAN]

NodeStates == [height : Nat, indexed : Nat, base : Nat,
               up : BOOLEAN, broken : SUBSET {"blocks", "results"}]

TypeOK ==
  /\ nodes \in [Nodes -> NodeStates]
  /\ faults \in Nat
  /\ dbHeight \in Nat /\ handled \in Seq(Blocks)
  /\ pc \in {"down", "latest", "blockchain", "oracle", "block", "results",
             "miss", "commit"}
  /\ node \in Nodes
  /\ syncedHeight \in Nat /\ latestHeight \in Nat
  /\ retryNum \in 0 .. ROTATE
  /\ retry \in Nat
  /\ metas \in Seq(Nat) /\ pending \in Seq(Blocks)

Init ==
  /\ nodes = [n \in Nodes |-> [height |-> START, indexed |-> START, base |-> 1,
                               up |-> TRUE, broken |-> {}]]
  /\ faults = 0
  /\ dbHeight = START /\ handled = <<>>
  /\ pc = "down" /\ node = 1
  /\ syncedHeight = START /\ latestHeight = 0 /\ retryNum = 0 /\ retry = 0
  /\ metas = <<>> /\ pending = <<>>

-----------------------------------------------------------------------------
(* The nodes: external *)

Fault == faults < MaxFaults /\ faults' = faults + 1

NewBlock(n) ==
  /\ nodes[n].up /\ "blocks" \notin nodes[n].broken
  /\ nodes[n].height < MaxHeight
  /\ nodes' = [nodes EXCEPT ![n].height = @ + 1]
  /\ UNCHANGED <<faults, dbVars, mvars>>

(* The results of a block are there some time after the block.             *)
Index(n) ==
  /\ nodes[n].up /\ "results" \notin nodes[n].broken
  /\ nodes[n].indexed < nodes[n].height
  /\ nodes' = [nodes EXCEPT ![n].indexed = @ + 1]
  /\ UNCHANGED <<faults, dbVars, mvars>>

GoDown(n) ==
  /\ Fault /\ nodes[n].up
  /\ nodes' = [nodes EXCEPT ![n].up = FALSE]
  /\ UNCHANGED <<dbVars, mvars>>

ComeUp(n) ==
  /\ ~nodes[n].up
  /\ nodes' = [nodes EXCEPT ![n].up = TRUE]
  /\ UNCHANGED <<faults, dbVars, mvars>>

Break(n, part) ==
  /\ Fault /\ part \notin nodes[n].broken
  /\ nodes' = [nodes EXCEPT ![n].broken = @ \cup {part}]
  /\ UNCHANGED <<dbVars, mvars>>

(* The node drops all blocks but the last few.                             *)
Prune(n, base) ==
  /\ Fault /\ nodes[n].base < base /\ base <= nodes[n].height
  /\ nodes' = [nodes EXCEPT ![n].base = base]
  /\ UNCHANGED <<dbVars, mvars>>

HasBlock(n, h)   == nodes[n].up /\ nodes[n].base <= h /\ h <= nodes[n].height
HasResults(n, h) == HasBlock(n, h) /\ h <= nodes[n].indexed

(* The headers a node answers with for min .. max: those it has.           *)
First(n, min) == MaxOf(nodes[n].base, min)
Last(n, max)  == MinOf(nodes[n].height, max)
HasHeaders(n, min, max) == nodes[n].up /\ First(n, min) <= Last(n, max)
Headers(n, min, max) ==
  [i \in 1 .. Last(n, max) - First(n, min) + 1 |-> First(n, min) + i - 1]

(* A request that cannot be answered, on a node that is reached or not.    *)
AnswersNull(n) == nodes[n].up /\ n \in Quiet
Throws(n)      == ~AnswersNull(n)

-----------------------------------------------------------------------------
(* The monitor *)

(* An error nobody catches: the transaction is rolled back.                *)
Die == pc' = "down" /\ pending' = <<>> /\ metas' = <<>>

Crash ==
  /\ pc # "down" /\ Fault /\ Die
  /\ UNCHANGED <<nodes, dbVars, node, syncedHeight, latestHeight, retryNum, retry>>

(* A variant with a mistake has the mistake in its name.  No action uses   *)
(* these; they show which property notices.                                *)
rotated_NoWrap == node + 1
rotated        == (node % NODES) + 1

(* Monitor.run: a new process, with a new RPCClient.                       *)
Start ==
  /\ pc = "down" /\ pc' = "latest"
  /\ node' = 1 /\ retryNum' = 0 /\ retry' = 0
  /\ syncedHeight' = dbHeight /\ latestHeight' = 0
  /\ UNCHANGED <<nodeVars, dbVars, metas, pending>>

(* getLatestBlockHeight: an error ends the process, nothing new starts the *)
(* iteration again.                                                        *)
Latest ==
  /\ pc = "latest" /\ nodes[node].up
  /\ latestHeight' = nodes[node].height
  /\ IF latestHeight' > syncedHeight
     THEN pc' = "blockchain" /\ retry' = 0
     ELSE UNCHANGED <<pc, retry>>
  /\ UNCHANGED <<nodeVars, dbVars, node, syncedHeight, retryNum, metas, pending>>

LatestThrow ==
  /\ pc = "latest" /\ ~nodes[node].up /\ Die
  /\ UNCHANGED <<nodeVars, dbVars, node, syncedHeight, latestHeight, retryNum, retry>>

minHeight == syncedHeight + 1
maxHeight == MinOf(latestHeight, syncedHeight + MAX_BLOCKS)

(* getBlockchain, with the node it is at by now.                           *)
GetBlockchain ==
  /\ pc = "blockchain" /\ HasHeaders(node, minHeight, maxHeight)
  /\ metas' = Headers(node, minHeight, maxHeight)
  /\ pc' = "oracle" /\ retry' = 0
  /\ UNCHANGED <<nodeVars, dbVars, node, syncedHeight, latestHeight, retryNum,
                 pending>>

BlockchainNull ==
  /\ pc = "blockchain" /\ ~HasHeaders(node, minHeight, maxHeight)
  /\ AnswersNull(node) /\ pc' = "latest"
  /\ UNCHANGED <<nodeVars, dbVars, node, syncedHeight, latestHeight, retryNum,
                 retry, metas, pending>>

BlockchainThrow ==
  /\ pc = "blockchain" /\ ~HasHeaders(node, minHeight, maxHeight) /\ Throws(node)
  /\ node' = rotated /\ retry' = retry + 1
  /\ IF retry' < MAX_RETRY THEN UNCHANGED <<pc, metas, pending>> ELSE Die
  /\ UNCHANGED <<nodeVars, dbVars, syncedHeight, latestHeight, retryNum>>

(* feedBlock: handleNewBlock, which only the executor's L1 monitor has,    *)
(* asks for the latest block, for the oracle data in it, and does without  *)
(* it after three errors.                                                  *)
FeedBlock ==
  /\ pc = "oracle"
  /\ \/ HasBlock(node, latestHeight)
     \/ ~HasBlock(node, latestHeight) /\ Throws(node) /\ retry + 1 = maxRetry
  /\ pc' = "block"
  /\ UNCHANGED <<nodeVars, dbVars, node, syncedHeight, latestHeight, retryNum,
                 retry, metas, pending>>

FeedBlockThrow ==
  /\ pc = "oracle" /\ ~HasBlock(node, latestHeight) /\ Throws(node)
  /\ retry + 1 < maxRetry /\ retry' = retry + 1
  /\ UNCHANGED <<nodeVars, dbVars, pc, node, syncedHeight, latestHeight,
                 retryNum, metas, pending>>

(* A null is not counted as an attempt: it is asked again at once, by      *)
(* feedBlock and by feedBlockResults, until the node has an answer.        *)
FeedNull ==
  /\ \/ pc = "oracle" /\ ~HasBlock(node, latestHeight)
     \/ pc = "results" /\ ~HasResults(node, syncedHeight + 1)
  /\ AnswersNull(node)
  /\ UNCHANGED vars

currentHeight == syncedHeight + 1

Expected_Any(header) == TRUE
Expected(header)     == header = currentHeight

(* handleBlockWithStateUpdate.                                             *)
Handle(events) ==
  /\ pending' = Append(pending, [height |-> Head(metas), events |-> events])
  /\ metas' = Tail(metas)
  /\ syncedHeight' = syncedHeight + 1

EmptyBlock ==
  /\ pc = "block" /\ metas # <<>> /\ Expected(Head(metas))
  /\ currentHeight \notin Txs /\ Handle(FALSE)
  /\ UNCHANGED <<nodeVars, dbVars, pc, node, latestHeight, retryNum, retry>>

BlockWithTxs ==
  /\ pc = "block" /\ metas # <<>> /\ Expected(Head(metas))
  /\ currentHeight \in Txs
  /\ pc' = "results" /\ retry' = 0
  /\ UNCHANGED <<nodeVars, dbVars, node, syncedHeight, latestHeight, retryNum,
                 metas, pending>>

(* The node has dropped the block that is due.                             *)
UnexpectedBlock ==
  /\ pc = "block" /\ metas # <<>> /\ ~Expected(Head(metas)) /\ Die
  /\ UNCHANGED <<nodeVars, dbVars, node, syncedHeight, latestHeight, retryNum, retry>>

(* feedBlockResults and handleEvents.                                      *)
FeedResults ==
  /\ pc = "results" /\ HasResults(node, currentHeight)
  /\ retryNum' = 0 /\ pc' = "block" /\ Handle(TRUE)
  /\ UNCHANGED <<nodeVars, dbVars, node, latestHeight, retry>>

(* The third error is not thrown on: the results are undefined.            *)
FeedResultsThrow ==
  /\ pc = "results" /\ ~HasResults(node, currentHeight) /\ Throws(node)
  /\ retry' = retry + 1
  /\ pc' = IF retry' < maxRetry THEN "results" ELSE "miss"
  /\ UNCHANGED <<nodeVars, dbVars, node, syncedHeight, latestHeight, retryNum,
                 metas, pending>>

(* handleEvents returned false.  retryNum is counted up to ROTATE, where   *)
(* every further miss rotates.                                             *)
NextNode_Never(misses) == node
NextNode(misses)       == IF misses >= ROTATE THEN rotated ELSE node

Miss ==
  /\ pc = "miss" /\ pc' = "commit"
  /\ node' = NextNode(retryNum + 1)
  /\ retryNum' = MinOf(retryNum + 1, ROTATE)
  /\ UNCHANGED <<nodeVars, dbVars, syncedHeight, latestHeight, retry, metas, pending>>

AllHandled ==
  /\ pc = "block" /\ metas = <<>> /\ pc' = "commit"
  /\ UNCHANGED <<nodeVars, dbVars, node, syncedHeight, latestHeight, retryNum,
                 retry, metas, pending>>

Commit ==
  /\ pc = "commit" /\ pc' = "latest"
  /\ dbHeight' = syncedHeight /\ handled' = handled \o pending
  /\ pending' = <<>> /\ metas' = <<>>
  /\ UNCHANGED <<nodeVars, node, syncedHeight, latestHeight, retryNum, retry>>

Monitor ==
  \/ Start \/ Latest \/ LatestThrow
  \/ GetBlockchain \/ BlockchainNull \/ BlockchainThrow
  \/ FeedBlock \/ FeedBlockThrow \/ FeedNull
  \/ EmptyBlock \/ BlockWithTxs \/ UnexpectedBlock
  \/ FeedResults \/ FeedResultsThrow \/ Miss \/ AllHandled \/ Commit

Network(n) ==
  \/ NewBlock(n) \/ Index(n) \/ GoDown(n) \/ ComeUp(n)
  \/ \E part \in {"blocks", "results"} : Break(n, part)
  \/ \E base \in 2 .. MaxHeight : Prune(n, base)

Next == Monitor \/ Crash \/ \E n \in Nodes : Network(n)

Spec == Init /\ [][Next]_vars

(* The process is restarted and goes on, and a node that is up and not     *)
(* broken gets the blocks of the chain and indexes them.  Nothing is       *)
(* assumed of a node that is down.                                         *)
FairSpec ==
  Spec /\ WF_vars(Monitor) /\ \A n \in Nodes : WF_vars(NewBlock(n)) /\ WF_vars(Index(n))

-----------------------------------------------------------------------------
(* Properties *)

(* Changes of the node, retries, pruned or missing data and restarts never *)
(* make the monitor handle a block twice, skip one, take them out of order *)
(* or handle a block with transactions without its events: the feed        *)
(* implements its promise.                                                 *)
Promise == INSTANCE FeedPromise WITH fed <- handled

KeepsFeed == Promise!PSpec

(* What it takes for the feed to go on: every node of the list is reached, *)
(* follows the chain and has the blocks from the database's height on, one *)
(* of them indexes, and none that does not is quiet about it.              *)
Serving ==
  /\ \A n \in Nodes : /\ nodes[n].up /\ "blocks" \notin nodes[n].broken
                      /\ nodes[n].base <= dbHeight + 1
                      /\ "results" \in nodes[n].broken => n \notin Quiet
  /\ \E n \in Nodes : "results" \notin nodes[n].broken

(* From then on the monitor reaches the end of the chain, from whatever    *)
(* node and state the failures before left it in: a node that is reached   *)
(* but never has the results is left, and the one that has them is found.  *)
(* One node that is down or behind for good is enough to stop the feed,    *)
(* since a start is always at the first node and a node with nothing new   *)
(* is never left.                                                          *)
FeedGoesOn == <>[]Serving => <>(dbHeight = MaxHeight)
=============================================================================
