------------------------------- MODULE Claims -------------------------------
(***************************************************************************)
(* What a user needs to claim a withdrawal on L1, and how the executor     *)
(* hands it out.  With an output the L2Monitor stores the Merkle root of   *)
(* its withdrawals, and a proof for each of them (lib/storage.ts, monitor/ *)
(* helper.ts).  The query API of the same process lists them page by page, *)
(* while more are stored, and /tx/claim puts a withdrawal and its output   *)
(* together (service/executor).                                            *)
(*                                                                         *)
(* A block is stored in a transaction of its own; which indexes outputs    *)
(* get, and what becomes of them on L1, is left to OutputPipeline.         *)
(***************************************************************************)
EXTENDS Integers, FiniteSets, Functions, Sequences

CONSTANTS
  Users,             \* receivers of withdrawals
  Digest,            \* where the hash of a withdrawal is in the order of hashes
  LIMIT,             \* rows of a page: 20
  MaxRows,           \* bound: withdrawals stored
  MaxOutputs         \* bound: outputs stored

ASSUME ClaimsAssumption ==
  /\ LIMIT \in Nat \ {0} /\ MaxRows \in Nat /\ MaxOutputs \in Nat
  /\ Digest \in [1 .. MaxRows -> Nat]
  /\ \A s, t \in 1 .. MaxRows : Digest[s] = Digest[t] => s = t

VARIABLES
  up,                \* the executor's process: monitor and API
  rows,              \* database: executor_withdrawal_tx, by sequence
  outputs,           \* database: executor_output, by index
  query,             \* a client that reads a list page by page: its query,
  offset, done,      \*   the next page, whether it has read the last,
  before, got,       \*   the keys there when it began, the rows it got
  page,              \* a request of /tx/claim: the rows found,
  waiting,           \*   those whose output is being looked up,
  claimTxList,       \*   the claims put together so far,
  response           \*   and the response, once sent

db     == <<rows, outputs>>
client == <<query, offset, done, before, got>>
claim  == <<page, waiting, claimTxList, response>>
vars   == <<up, rows, outputs, query, offset, done, before, got, page, waiting,
            claimTxList, response>>

-----------------------------------------------------------------------------
(* The place of x in S, in the order of key.                               *)
Rank(S, key, x) == Cardinality({y \in S : key[y] < key[x]}) + 1

(* lib/storage.ts, over merkletreejs.  Two hashes are the same only if     *)
(* what is hashed is; a pair is sorted before it is hashed.                *)

NoHash     == [leaf |-> {}, pair |-> {}]
Leaf(seq)  == [leaf |-> {seq}, pair |-> {}]
Pair(x, y) == [leaf |-> {}, pair |-> {x, y}]

Sorted(S) ==
  [n \in 1 .. Cardinality(S) |-> CHOOSE s \in S : Rank(S, Digest, s) = n]

(* The layer above: the last one of an odd number goes up as it is.        *)
Parent(i)  == (i + 1) \div 2
Sibling(i) == IF i % 2 = 1 THEN i + 1 ELSE i - 1

Above(layer) ==
  [i \in {Parent(j) : j \in DOMAIN layer} |->
     IF 2 * i \in DOMAIN layer THEN Pair(layer[2 * i - 1], layer[2 * i])
     ELSE layer[2 * i - 1]]

Layers(leaves) ==
  LET layer[n \in 0 .. Len(leaves)] ==
        IF n = 0 THEN leaves ELSE Above(layer[n - 1])
  IN  layer

Tree(S) == Layers([n \in 1 .. Cardinality(S) |-> Leaf(Sorted(S)[n])])

getMerkleRoot(S) == IF S = {} THEN NoHash ELSE Tree(S)[Cardinality(S)][1]

(* Where the node above a leaf is in each layer, and the siblings of the   *)
(* nodes below a layer: a node that goes up alone has none.                *)
Places(S, seq) ==
  LET place[n \in 0 .. Cardinality(S)] ==
        IF n = 0 THEN Rank(S, Digest, seq) ELSE Parent(place[n - 1])
  IN  place

Siblings(S, seq) ==
  LET tree  == Tree(S)
      place == Places(S, seq)
      path[n \in 0 .. Cardinality(S)] ==
        IF n = 0 THEN <<>>
        ELSE IF Sibling(place[n - 1]) \in DOMAIN tree[n - 1]
        THEN Append(path[n - 1], tree[n - 1][Sibling(place[n - 1])])
        ELSE path[n - 1]
  IN  path

getMerkleProof(S, seq) == Siblings(S, seq)[Cardinality(S)]

(* The hash that a proof leads to.                                         *)
Climb(hash, proof) ==
  LET node[n \in 0 .. Len(proof)] ==
        IF n = 0 THEN hash ELSE Pair(node[n - 1], proof[n])
  IN  node[Len(proof)]

verify(root, proof, seq) == Climb(Leaf(seq), proof) = root

-----------------------------------------------------------------------------
(* The L2Monitor, one block and its transaction *)

Init ==
  /\ up = TRUE /\ rows = <<>> /\ outputs = <<>>
  /\ query = <<>> /\ offset = 0 /\ done = FALSE /\ before = {} /\ got = {}
  /\ page = {} /\ waiting = {} /\ claimTxList = {} /\ response = <<>>

(* handleInitiateTokenWithdrawalEvent: a withdrawal gets the index of the  *)
(* next output, whenever that comes; before the first one it is dropped.   *)
(* Variants with a mistake have the mistake in their name.  No action uses *)
(* these; they show which property notices.                                *)
Received_LastOutput(user) ==
  IF outputs = <<>> THEN rows
  ELSE Append(rows, [sequence    |-> Len(rows) + 1,
                     receiver    |-> user,
                     outputIndex |-> Len(outputs),
                     merkleRoot  |-> NoHash,
                     merkleProof |-> <<>>])
Received(user) ==
  IF outputs = <<>> THEN rows
  ELSE Append(rows, [sequence    |-> Len(rows) + 1,
                     receiver    |-> user,
                     outputIndex |-> Len(outputs) + 1,
                     merkleRoot  |-> NoHash,
                     merkleProof |-> <<>>])

getWithdrawalTxs_UpTo(table, index) ==
  {i \in DOMAIN table : table[i].outputIndex <= index}
getWithdrawalTxs(table, index) ==
  {i \in DOMAIN table : table[i].outputIndex = index}

saveMerkleRootAndProof(table, S) ==
  LET root == getMerkleRoot(S)
  IN  [i \in DOMAIN table |->
         IF i \in S THEN [table[i] EXCEPT !.merkleRoot  = root,
                                          !.merkleProof = getMerkleProof(S, i)]
         ELSE table[i]]

(* The output root is the hash of the version, which is the index, the     *)
(* Merkle root, and the state root and hash of the block, which no         *)
(* property tells apart.                                                   *)
calculateOutputEntity(index, root) ==
  [outputIndex |-> index, merkleRoot |-> root,
   outputRoot  |-> [version |-> index, merkleRoot |-> root]]

(* handleBlockWithStateUpdate: the withdrawal of a block, if it has one,   *)
(* then its output, if one is due.                                         *)
StoreBlock ==
  /\ up
  /\ \E table \in {rows} \cup {Received(user) : user \in Users} :
       /\ Len(table) <= MaxRows
       /\ \/ rows' = table /\ rows' # rows /\ UNCHANGED outputs
          \/ LET index == Len(outputs) + 1
                 S     == getWithdrawalTxs(table, index)
             IN  /\ index <= MaxOutputs
                 /\ rows' = saveMerkleRootAndProof(table, S)
                 /\ outputs' = Append(outputs,
                      calculateOutputEntity(index, getMerkleRoot(S)))
  /\ UNCHANGED <<up, client, claim>>

Restart ==
  /\ ~up /\ up' = TRUE
  /\ UNCHANGED <<db, client, claim>>

-----------------------------------------------------------------------------
(* The lists of withdrawals and of outputs; that of deposits is alike      *)

Queries ==
  [list : {"withdrawal"}, descending : BOOLEAN,
   receivers : {Users} \cup {{user} : user \in Users}]
  \cup [list : {"output"}, descending : BOOLEAN, receivers : {Users}]

(* The rows of a list, by their places in the table, and their order.      *)
withdrawalTxList(q) == {i \in DOMAIN rows : rows[i].receiver \in q.receivers}
outputList          == DOMAIN outputs

Table(q)  == IF q.list = "output" THEN outputs ELSE rows
Listed(q) == IF q.list = "output" THEN outputList ELSE withdrawalTxList(q)
Order(q)  == [i \in Listed(q) |-> IF q.descending THEN -i ELSE i]

Key(q, row) == IF q.list = "output" THEN row.outputIndex ELSE row.sequence

skip_OneMore(i) == i * LIMIT + 1
skip(i)         == i * LIMIT

find(q, i) ==
  {k \in Listed(q) :
     Rank(Listed(q), Order(q), k) \in skip(i) + 1 .. skip(i) + LIMIT}

(* Whether the response names a next page: the rows counted are those of   *)
(* the page, so it never does.                                             *)
next(count) == count > (offset + 1) * LIMIT

(* Bound: one client at a time.                                            *)
StartReading ==
  /\ query = <<>> /\ page = {}
  /\ \E q \in Queries : query' = <<q>> /\ before' = Listed(q)
  /\ UNCHANGED <<up, db, offset, done, got, claim>>

(* A client cannot go by next: it reads on until a page is not full.       *)
ReadPage ==
  /\ up /\ query # <<>> /\ ~done
  /\ LET list == find(query[1], offset)
     IN  /\ got' = got \cup {Table(query[1])[k] : k \in list}
         /\ IF next(Cardinality(list)) \/ Cardinality(list) = LIMIT
            THEN offset' = offset + 1 /\ UNCHANGED done
            ELSE done' = TRUE /\ UNCHANGED offset
  /\ UNCHANGED <<up, db, query, before, claim>>

EndReading ==
  /\ done /\ done' = FALSE
  /\ query' = <<>> /\ offset' = 0 /\ before' = {} /\ got' = {}
  /\ UNCHANGED <<up, db, claim>>

-----------------------------------------------------------------------------
(* getClaimTxList *)

FindClaims ==
  /\ up /\ page = {} /\ query = <<>>
  /\ \E q \in Queries :
       /\ q.list = "withdrawal" /\ find(q, 0) # {}
       /\ page' = {rows[k] : k \in find(q, 0)}
  /\ waiting' = page'
  /\ UNCHANGED <<up, db, client, claimTxList, response>>

(* The lookups were started by a map that nobody awaits: the function      *)
(* returns, and the response is written, before the first of them is back. *)
Respond ==
  /\ up /\ page # {} /\ response = <<>>
  /\ response' = <<[count |-> Cardinality(page), claimTxList |-> claimTxList]>>
  /\ UNCHANGED <<up, db, client, page, waiting, claimTxList>>

ClaimOf(r) ==
  [outputIndex |-> r.outputIndex, sequence |-> r.sequence,
   merkleProof |-> r.merkleProof,
   outputRoot  |-> [version    |-> r.outputIndex,
                    merkleRoot |-> outputs[r.outputIndex].merkleRoot]]

Lookup ==
  /\ up /\ response # <<>>
  /\ \E r \in waiting :
       /\ r.outputIndex \in DOMAIN outputs
       /\ claimTxList' = claimTxList \cup {ClaimOf(r)}
       /\ waiting' = waiting \ {r}
  /\ UNCHANGED <<up, db, client, page, response>>

(* An output that is not there yet is an error nobody catches: it ends the *)
(* process, monitor and all.  Whatever else ends it does the same to the   *)
(* database, which is nothing.                                             *)
LookupThrow ==
  /\ up /\ response # <<>>
  /\ \E r \in waiting : r.outputIndex \notin DOMAIN outputs
  /\ up' = FALSE
  /\ page' = {} /\ waiting' = {} /\ claimTxList' = {} /\ response' = <<>>
  /\ UNCHANGED <<db, client>>

ClaimsDone ==
  /\ up /\ response # <<>> /\ waiting = {}
  /\ page' = {} /\ claimTxList' = {} /\ response' = <<>>
  /\ UNCHANGED <<up, db, client, waiting>>

-----------------------------------------------------------------------------
Next ==
  \/ StoreBlock \/ Restart
  \/ StartReading \/ ReadPage \/ EndReading
  \/ FindClaims \/ Respond \/ Lookup \/ LookupThrow \/ ClaimsDone

Spec == Init /\ [][Next]_vars

-----------------------------------------------------------------------------
(* Properties *)

(* A withdrawal as it was read, a claim for one, and a response: all of a  *)
(* row but its root and its proof is in the table still, and what a claim  *)
(* refers to is stored.                                                    *)
IsWithdrawal(r) ==
  /\ DOMAIN r = {"sequence", "receiver", "outputIndex", "merkleRoot", "merkleProof"}
  /\ r.sequence \in DOMAIN rows
  /\ r.receiver = rows[r.sequence].receiver
  /\ r.outputIndex = rows[r.sequence].outputIndex

IsClaim(c) ==
  /\ DOMAIN c = {"outputIndex", "sequence", "merkleProof", "outputRoot"}
  /\ c.outputIndex \in DOMAIN outputs /\ c.sequence \in DOMAIN rows
  /\ c.outputIndex = rows[c.sequence].outputIndex
  /\ DOMAIN c.outputRoot = {"version", "merkleRoot"}

IsResponse(res) ==
  /\ res = <<[count |-> Cardinality(page), claimTxList |-> res[1].claimTxList]>>
  /\ res[1].claimTxList \subseteq claimTxList

(* Rows and outputs are numbered by their places; no withdrawal is under   *)
(* the first output, nor under one beyond the next.  A hash is a tree of   *)
(* any depth: which one is in a row is for ProofsVerify to say.            *)
TypeOK ==
  /\ up \in BOOLEAN
  /\ rows \in Seq(Range(rows)) /\ Len(rows) <= MaxRows
  /\ \A i \in DOMAIN rows :
       /\ DOMAIN rows[i] = {"sequence", "receiver", "outputIndex", "merkleRoot",
                            "merkleProof"}
       /\ rows[i].sequence = i /\ rows[i].receiver \in Users
       /\ rows[i].outputIndex \in 2 .. Len(outputs) + 1
  /\ outputs \in Seq(Range(outputs)) /\ Len(outputs) <= MaxOutputs
  /\ \A k \in DOMAIN outputs :
       /\ DOMAIN outputs[k] = {"outputIndex", "merkleRoot", "outputRoot"}
       /\ outputs[k].outputIndex = k
  /\ query \in {<<>>} \cup {<<q>> : q \in Queries}
  /\ offset \in Nat /\ done \in BOOLEAN /\ (done => query # <<>>)
  /\ before \subseteq Nat
  /\ got # {} => query # <<>>
  /\ \A q \in Queries : query = <<q>> =>
       \A r \in got : IF q.list = "output" THEN r \in Range(outputs)
                                           ELSE IsWithdrawal(r)
  /\ page # {} => query = <<>>
  /\ IsFiniteSet(page) /\ \A r \in page : IsWithdrawal(r)
  /\ waiting \subseteq page
  /\ \A c \in claimTxList : IsClaim(c)
  /\ response # <<>> => IsResponse(response)

(* A row that has a root proves its withdrawal against the output root of  *)
(* its output, and no other withdrawal.                                    *)
Provable(r) ==
  /\ r.outputIndex \in DOMAIN outputs
  /\ outputs[r.outputIndex].outputRoot =
       [version |-> r.outputIndex, merkleRoot |-> r.merkleRoot]
  /\ \A i \in DOMAIN rows :
       verify(r.merkleRoot, r.merkleProof, i) <=> i = r.sequence

(* Every withdrawal of an output that is stored can be proved, in a tree   *)
(* of any shape and whatever order its leaves are sorted in; and what a    *)
(* client once got with a proof stays provable: no later block, output or  *)
(* withdrawal changes the root it was given.                               *)
ProofsVerify ==
  /\ \A i \in DOMAIN rows :
       rows[i].outputIndex \in DOMAIN outputs => Provable(rows[i])
  /\ query # <<>> /\ query[1].list = "withdrawal" =>
       \A r \in got : r.merkleRoot # NoHash => Provable(r)

(* A client that reads a list to its end gets every row that was there     *)
(* when it began, in either order, though rows are added between its       *)
(* requests and move those it has not read to later pages.                 *)
PagesMissNothing ==
  done => before \subseteq {Key(query[1], row) : row \in got}

-----------------------------------------------------------------------------
(* A promise of the API the code does not keep: "Get tx data for claiming" *)
(* (ClaimTxController.ts:24).  A response that counts withdrawals has a    *)
(* claim for each.                                                         *)
ClaimListComplete ==
  response # <<>> => Cardinality(response[1].claimTxList) = response[1].count
=============================================================================
