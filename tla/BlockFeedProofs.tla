-------------------------- MODULE BlockFeedProofs ---------------------------
(***************************************************************************)
(* Proofs about BlockFeed, for every number of nodes and blocks, every set *)
(* of blocks with transactions, all limits and any number of failures:     *)
(* that it implements FeedPromise.                                         *)
(***************************************************************************)
EXTENDS BlockFeed, SequenceTheorems, TLAPS

(* The open transaction holds the blocks from the database's height on, up *)
(* to the height the monitor has in memory, each with its events.          *)
PendingOK ==
  /\ dbHeight = START + Len(handled)
  /\ pc # "down" => syncedHeight = dbHeight + Len(pending)
  /\ \A i \in 1 .. Len(pending) :
       pending[i] = [height |-> dbHeight + i, events |-> dbHeight + i \in Txs]

(* It never grows beyond the headers asked for at once.                    *)
RoomOK ==
  /\ Len(pending) + Len(metas) <= MAX_BLOCKS
  /\ pc \in {"down", "latest", "blockchain"} => pending = <<>> /\ metas = <<>>
  /\ pc = "oracle" => pending = <<>>
  /\ pc = "results" => /\ metas # <<>> /\ Head(metas) = currentHeight
                       /\ currentHeight \in Txs

IInv == TypeOK /\ PendingOK /\ RoomOK

-----------------------------------------------------------------------------
LEMMA InitIInv == Init => IInv
BY FeedAssumption DEF Init, IInv, TypeOK, NodeStates, PendingOK, RoomOK, Nodes

(* The nodes do not touch the monitor.                                     *)
LEMMA NetworkIInv ==
  ASSUME IInv, NEW n \in Nodes, Network(n)
  PROVE  IInv'
<1>1. nodes \in [Nodes -> NodeStates] /\ nodes[n] \in NodeStates /\ faults \in Nat
  BY DEF IInv, TypeOK
<1>2. SUFFICES /\ nodes' \in [Nodes -> NodeStates] /\ faults' \in Nat
               /\ UNCHANGED <<dbVars, mvars>>
  BY DEF IInv, TypeOK, PendingOK, RoomOK, dbVars, mvars, currentHeight
<1>3. ASSUME NEW s \in NodeStates, nodes' = [nodes EXCEPT ![n] = s]
      PROVE  nodes' \in [Nodes -> NodeStates]
  BY <1>1, <1>3
<1>4. CASE NewBlock(n)
  <2>1. [nodes[n] EXCEPT !.height = @ + 1] \in NodeStates
    BY <1>1 DEF NodeStates
  <2> QED
    BY <1>1, <1>3, <1>4, <2>1 DEF NewBlock
<1>5. CASE Index(n)
  <2>1. [nodes[n] EXCEPT !.indexed = @ + 1] \in NodeStates
    BY <1>1 DEF NodeStates
  <2> QED
    BY <1>1, <1>3, <1>5, <2>1 DEF Index
<1>6. CASE GoDown(n)
  <2>1. [nodes[n] EXCEPT !.up = FALSE] \in NodeStates
    BY <1>1 DEF NodeStates
  <2> QED
    BY <1>1, <1>3, <1>6, <2>1 DEF GoDown, Fault
<1>7. CASE ComeUp(n)
  <2>1. [nodes[n] EXCEPT !.up = TRUE] \in NodeStates
    BY <1>1 DEF NodeStates
  <2> QED
    BY <1>1, <1>3, <1>7, <2>1 DEF ComeUp
<1>8. ASSUME NEW part \in {"blocks", "results"}, Break(n, part)
      PROVE  /\ nodes' \in [Nodes -> NodeStates] /\ faults' \in Nat
             /\ UNCHANGED <<dbVars, mvars>>
  <2>1. [nodes[n] EXCEPT !.broken = @ \cup {part}] \in NodeStates
    BY <1>1, <1>8 DEF NodeStates
  <2>2. nodes' = [nodes EXCEPT ![n] = [nodes[n] EXCEPT !.broken = @ \cup {part}]]
    BY <1>8 DEF Break
  <2> QED
    BY <1>1, <1>3, <1>8, <2>1, <2>2 DEF Break, Fault
<1>9. ASSUME NEW base \in 2 .. MaxHeight, Prune(n, base)
      PROVE  /\ nodes' \in [Nodes -> NodeStates] /\ faults' \in Nat
             /\ UNCHANGED <<dbVars, mvars>>
  <2>1. base \in Nat
    BY FeedAssumption
  <2>2. [nodes[n] EXCEPT !.base = base] \in NodeStates
    BY <1>1, <2>1 DEF NodeStates
  <2> QED
    BY <1>1, <1>3, <1>9, <2>2 DEF Prune, Fault
<1> QED
  BY <1>4, <1>5, <1>6, <1>7, <1>8, <1>9 DEF Network

LEMMA RotatedNode == IInv => rotated \in Nodes
BY FeedAssumption DEF IInv, TypeOK, rotated, Nodes

(* An error that ends the process leaves the database as it was.           *)
LEMMA DieIInv ==
  ASSUME IInv, Die, UNCHANGED <<dbVars, syncedHeight, latestHeight, retryNum>>,
         nodes' \in [Nodes -> NodeStates],
         faults' \in Nat, node' \in Nodes, retry' \in Nat
  PROVE  IInv'
BY FeedAssumption DEF IInv, TypeOK, PendingOK, RoomOK, Die, dbVars, currentHeight

(* The headers a node answers with are at most as many as were asked for.  *)
LEMMA HeadersFit ==
  ASSUME IInv, HasHeaders(node, minHeight, maxHeight)
  PROVE  /\ Headers(node, minHeight, maxHeight) \in Seq(Nat)
         /\ Len(Headers(node, minHeight, maxHeight)) <= MAX_BLOCKS
<1> DEFINE first == First(node, minHeight)
           last  == Last(node, maxHeight)
<1>1. nodes[node].height \in Nat /\ nodes[node].base \in Nat
  BY DEF IInv, TypeOK, NodeStates
<1>2. first \in Nat /\ minHeight <= first
  BY <1>1 DEF IInv, TypeOK, First, MaxOf, minHeight
<1>3. last \in Nat /\ last <= syncedHeight + MAX_BLOCKS
  BY <1>1, FeedAssumption DEF IInv, TypeOK, Last, MinOf, maxHeight
<1>4. first <= last
  BY DEF HasHeaders
<1>5. Headers(node, minHeight, maxHeight) = [i \in 1 .. last - first + 1 |-> first + i - 1]
  BY DEF Headers
<1> HIDE DEF first, last
<1>6. last - first + 1 \in Nat /\ last - first + 1 <= MAX_BLOCKS
  BY <1>2, <1>3, <1>4, FeedAssumption DEF IInv, TypeOK, minHeight
<1> QED
  BY <1>2, <1>5, <1>6

(* The block that is due joins the open transaction.                       *)
LEMMA HandleIInv ==
  ASSUME IInv, NEW events, metas # <<>>, Head(metas) = currentHeight,
         pc \in {"block", "results"}, pc' = "block",
         events = (currentHeight \in Txs), Handle(events),
         retryNum' \in 0 .. ROTATE,
         UNCHANGED <<nodeVars, dbVars, node, latestHeight, retry>>
  PROVE  IInv'
<1> DEFINE block == [height |-> currentHeight, events |-> events]
<1>1. syncedHeight = dbHeight + Len(pending) /\ currentHeight = dbHeight + Len(pending) + 1
  BY DEF IInv, PendingOK, currentHeight, TypeOK
<1>2. /\ pending' = Append(pending, block) /\ metas' = Tail(metas)
      /\ syncedHeight' = syncedHeight + 1
  BY DEF Handle
<1>3. block \in Blocks
  BY <1>1 DEF Blocks, IInv, TypeOK
<1>4. /\ pending' \in Seq(Blocks) /\ Len(pending') = Len(pending) + 1
      /\ \A i \in 1 .. Len(pending) : pending'[i] = pending[i]
      /\ pending'[Len(pending) + 1] = block
  BY <1>2, <1>3 DEF IInv, TypeOK
<1>5. metas' \in Seq(Nat) /\ Len(metas') = Len(metas) - 1
  BY <1>2 DEF IInv, TypeOK
<1>6. TypeOK'
  BY <1>2, <1>4, <1>5 DEF IInv, TypeOK, nodeVars, dbVars
<1>7. PendingOK'
  <2>1. syncedHeight' = dbHeight' + Len(pending')
    BY <1>1, <1>2, <1>4 DEF IInv, TypeOK, dbVars
  <2>2. ASSUME NEW i \in 1 .. Len(pending')
        PROVE  pending'[i] = [height |-> dbHeight + i, events |-> dbHeight + i \in Txs]
    <3>1. CASE i = Len(pending) + 1
      <4>1. dbHeight + i = currentHeight
        BY <1>1, <3>1 DEF IInv, TypeOK
      <4>2. block = [height |-> dbHeight + i, events |-> dbHeight + i \in Txs]
        BY <4>1, Zenon
      <4> HIDE DEF block
      <4> QED
        BY <1>4, <3>1, <4>2
    <3>2. CASE i # Len(pending) + 1
      <4>1. i \in 1 .. Len(pending)
        BY <1>4, <3>2 DEF IInv, TypeOK
      <4>2. pending[i] = [height |-> dbHeight + i, events |-> dbHeight + i \in Txs]
        BY <4>1 DEF IInv, PendingOK
      <4> HIDE DEF block
      <4> QED
        BY <1>4, <4>1, <4>2, Zenon
    <3> QED
      BY <3>1, <3>2
  <2> QED
    BY <2>1, <2>2 DEF IInv, PendingOK, dbVars
<1>8. RoomOK'
  BY <1>4, <1>5 DEF IInv, RoomOK, TypeOK
<1> QED
  BY <1>6, <1>7, <1>8 DEF IInv

(* Each step of the monitor; those that only ask keep every part.          *)
LEMMA MonitorIInv ==
  ASSUME IInv, Monitor
  PROVE  IInv'
<1>1. /\ TypeOK /\ PendingOK /\ RoomOK /\ rotated \in Nodes
      /\ ROTATE \in Nat /\ NODES \in Nat \ {0} /\ MAX_BLOCKS \in Nat
  BY RotatedNode, FeedAssumption DEF IInv
<1>2. CASE Start
  BY <1>1, <1>2 DEF Start, IInv, TypeOK, PendingOK, RoomOK, nodeVars, dbVars,
                    currentHeight, Nodes
<1>3. CASE Latest
  <2>1. nodes[node].height \in Nat
    BY <1>1 DEF TypeOK, NodeStates
  <2> QED
    BY <1>1, <1>3, <2>1 DEF Latest, IInv, TypeOK, PendingOK, RoomOK, nodeVars,
                            dbVars, currentHeight
<1>4. CASE LatestThrow
  BY <1>1, <1>4, DieIInv DEF LatestThrow, TypeOK, nodeVars
<1>5. CASE GetBlockchain
  BY <1>1, <1>5, HeadersFit DEF GetBlockchain, IInv, TypeOK, PendingOK, RoomOK,
                                nodeVars, dbVars, currentHeight
<1>6. CASE BlockchainNull
  BY <1>1, <1>6 DEF BlockchainNull, IInv, TypeOK, PendingOK, RoomOK, nodeVars,
                    dbVars, currentHeight
<1>7. CASE BlockchainThrow
  <2>1. node' \in Nodes /\ retry' \in Nat
    BY <1>1, <1>7 DEF BlockchainThrow, TypeOK
  <2>2. CASE Die
    BY <1>1, <1>7, <2>1, <2>2, DieIInv DEF BlockchainThrow, TypeOK, nodeVars
  <2>3. CASE UNCHANGED <<pc, metas, pending>>
    BY <1>1, <1>7, <2>1, <2>3 DEF BlockchainThrow, IInv, TypeOK, PendingOK,
                                  RoomOK, nodeVars, dbVars, currentHeight
  <2> QED
    BY <1>7, <2>2, <2>3 DEF BlockchainThrow
<1>8. CASE FeedBlock
  BY <1>1, <1>8 DEF FeedBlock, IInv, TypeOK, PendingOK, RoomOK, nodeVars, dbVars,
                    currentHeight
<1>9. CASE FeedBlockThrow
  BY <1>1, <1>9 DEF FeedBlockThrow, IInv, TypeOK, PendingOK, RoomOK, nodeVars,
                    dbVars, currentHeight
<1>10. CASE FeedNull
  BY <1>1, <1>10 DEF FeedNull, IInv, TypeOK, PendingOK, RoomOK, vars, currentHeight
<1>11. CASE EmptyBlock
  <2>1. FALSE = (currentHeight \in Txs)
    BY <1>11 DEF EmptyBlock
  <2>2. retryNum' \in 0 .. ROTATE
    BY <1>1, <1>11 DEF EmptyBlock, TypeOK
  <2> QED
    BY <1>1, <1>11, <2>1, <2>2, HandleIInv DEF EmptyBlock, Expected
<1>12. CASE BlockWithTxs
  BY <1>1, <1>12 DEF BlockWithTxs, Expected, IInv, TypeOK, PendingOK, RoomOK,
                     nodeVars, dbVars, currentHeight
<1>13. CASE UnexpectedBlock
  BY <1>1, <1>13, DieIInv DEF UnexpectedBlock, TypeOK, nodeVars
<1>14. CASE FeedResults
  <2>1. metas # <<>> /\ Head(metas) = currentHeight /\ TRUE = (currentHeight \in Txs)
    BY <1>1, <1>14 DEF FeedResults, RoomOK
  <2>2. retryNum' \in 0 .. ROTATE
    BY <1>1, <1>14 DEF FeedResults
  <2> QED
    BY <1>1, <1>14, <2>1, <2>2, HandleIInv DEF FeedResults
<1>15. CASE FeedResultsThrow
  <2>1. pc' \in {"results", "miss"} /\ retry' \in Nat
    BY <1>1, <1>15 DEF FeedResultsThrow, TypeOK
  <2>2. UNCHANGED <<nodeVars, dbVars, node, syncedHeight, latestHeight, retryNum,
                    metas, pending>>
    BY <1>15 DEF FeedResultsThrow
  <2>3. pc = "results"
    BY <1>15 DEF FeedResultsThrow
  <2> QED
    BY <1>1, <2>1, <2>2, <2>3 DEF IInv, TypeOK, PendingOK, RoomOK, nodeVars,
                                  dbVars, currentHeight
<1>16. CASE Miss
  <2>1. node' \in Nodes /\ retryNum' \in 0 .. ROTATE
    BY <1>1, <1>16 DEF Miss, NextNode, MinOf, TypeOK
  <2> QED
    BY <1>1, <1>16, <2>1 DEF Miss, IInv, TypeOK, PendingOK, RoomOK, nodeVars,
                             dbVars, currentHeight
<1>17. CASE AllHandled
  BY <1>1, <1>17 DEF AllHandled, IInv, TypeOK, PendingOK, RoomOK, nodeVars, dbVars,
                     currentHeight
<1>18. CASE Commit
  <2>1. /\ handled' \in Seq(Blocks)
        /\ Len(handled') = Len(handled) + Len(pending)
    BY <1>1, <1>18 DEF Commit, TypeOK
  <2> QED
    BY <1>1, <1>18, <2>1, FeedAssumption DEF Commit, IInv, TypeOK, PendingOK, RoomOK,
                                             nodeVars, currentHeight
<1> QED
  BY <1>2, <1>3, <1>4, <1>5, <1>6, <1>7, <1>8, <1>9, <1>10, <1>11, <1>12, <1>13,
     <1>14, <1>15, <1>16, <1>17, <1>18 DEF Monitor

LEMMA NextIInv == IInv /\ [Next]_vars => IInv'
<1> SUFFICES ASSUME IInv, [Next]_vars
             PROVE  IInv'
  OBVIOUS
<1>1. CASE Crash
  BY <1>1, DieIInv DEF Crash, Fault, IInv, TypeOK
<1>2. CASE UNCHANGED vars
  BY <1>2 DEF vars, IInv, TypeOK, PendingOK, RoomOK, currentHeight
<1> QED
  BY <1>1, <1>2, MonitorIInv, NetworkIInv DEF Next

THEOREM InductiveInvariant == Spec => []IInv
BY InitIInv, NextIInv, PTL DEF Spec

(* The variables keep their types: above all, the node asked is always one *)
(* of the list, however often the list is gone round.                      *)
THEOREM TypeCorrect == Spec => []TypeOK
<1>1. IInv => TypeOK
  BY DEF IInv
<1> QED
  BY <1>1, InductiveInvariant, PTL

-----------------------------------------------------------------------------
(* A commit adds the next blocks with their events, and nothing else       *)
(* touches the committed ones.                                             *)
LEMMA CommitAddsGroup ==
  ASSUME IInv, Commit
  PROVE  \E n \in 0 .. MAX_BLOCKS : handled' = handled \o Promise!Group(n)
<1>1. Len(pending) \in 0 .. MAX_BLOCKS
  BY FeedAssumption DEF IInv, TypeOK, RoomOK
<1>2. pending = Promise!Group(Len(pending))
  <2>1. pending = [i \in 1 .. Len(pending) |-> pending[i]]
    BY DEF IInv, TypeOK
  <2>2. ASSUME NEW i \in 1 .. Len(pending)
        PROVE  pending[i] = Promise!Handled(START + Len(handled) + i)
    <3>1. pending[i] = [height |-> dbHeight + i, events |-> dbHeight + i \in Txs]
      BY DEF IInv, PendingOK
    <3>2. dbHeight = START + Len(handled)
      BY DEF IInv, PendingOK
    <3> QED
      BY <3>1, <3>2, Zenon DEF Promise!Handled
  <2> QED
    BY <2>1, <2>2, Zenon DEF Promise!Group
<1> QED
  BY <1>1, <1>2 DEF Commit

LEMMA StepKeepsPromise == IInv /\ [Next]_vars => [Promise!PNext]_handled
<1> SUFFICES ASSUME IInv, [Next]_vars
             PROVE  Promise!PNext \/ UNCHANGED handled
  OBVIOUS
<1>1. CASE Monitor
  <2>1. CASE Commit
    BY <2>1, CommitAddsGroup DEF Promise!PNext
  <2>2. CASE ~Commit
    BY <1>1, <2>2 DEF Monitor, Start, Latest, LatestThrow, GetBlockchain,
       BlockchainNull, BlockchainThrow, FeedBlock, FeedBlockThrow, FeedNull,
       EmptyBlock, BlockWithTxs, UnexpectedBlock, FeedResults, FeedResultsThrow,
       Miss, AllHandled, dbVars, vars
  <2> QED
    BY <2>1, <2>2
<1>2. CASE Crash
  BY <1>2 DEF Crash, dbVars
<1>3. ASSUME NEW n \in Nodes, Network(n)
      PROVE  UNCHANGED handled
  BY <1>3 DEF Network, NewBlock, Index, GoDown, ComeUp, Break, Prune, dbVars
<1>4. CASE UNCHANGED vars
  BY <1>4 DEF vars
<1> QED
  BY <1>1, <1>2, <1>3, <1>4 DEF Next

(* Whatever nodes, retries and restarts do, the monitor handles the blocks *)
(* after START once each, in order, and those with transactions with their *)
(* events.                                                                 *)
THEOREM FeedKept == Spec => KeepsFeed
<1>1. Init => Promise!PInit
  BY DEF Init, Promise!PInit
<1> QED
  BY <1>1, StepKeepsPromise, InductiveInvariant, PTL DEF Spec, KeepsFeed, Promise!PSpec
=============================================================================
