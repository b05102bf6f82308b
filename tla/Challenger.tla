----------------------------- MODULE Challenger -----------------------------
(***************************************************************************)
(* The challenger process: its L1Monitor and L2Monitor, which fill tables  *)
(* of deposits, finalized deposits and withdrawals, and the Challenger     *)
(* loop, which compares them and the outputs on L1                         *)
(* (src/worker/challenger/{challenger,monitor/l1,monitor/l2}.ts).          *)
(*                                                                         *)
(* The three run in one event loop and interleave at every await.  Each    *)
(* works in a database transaction of its own.  The loop leaves an         *)
(* iteration either by a commit, or by ending the whole process: after an  *)
(* error, and after every challenge.  pm2 starts the process again.        *)
(***************************************************************************)
EXTENDS Integers, Sequences, FiniteSets

CONSTANTS
  Corrupted,               \* deposits finalized on L2 with other contents
  START_HEIGHT,            \* config.CHALLENGER_L2_MONITOR_HEIGHT
  MAX_BLOCKS,              \* blocks in one iteration (20 in the code)
  DELETE_OUTPUT_PROPOSAL,  \* config.DELETE_OUTPUT_PROPOSAL
  MaxWithdrawals,          \* bound: token withdrawals in a behaviour
  MaxDeposits,             \* bound: deposits in a behaviour
  MaxHeight,               \* bound: L2 blocks in a behaviour
  MaxForged,               \* bound: outputs proposed with a false root
  MaxFaults,               \* bound: crashes and node failures
  MaxTimeouts              \* bound: deletions not awaited to the end

ASSUME ChallengerAssumption ==
  /\ Corrupted \subseteq 1 .. MaxDeposits
  /\ START_HEIGHT \in Nat
  /\ MAX_BLOCKS \in Nat \ {0}
  /\ DELETE_OUTPUT_PROPOSAL \in BOOLEAN
  /\ {MaxWithdrawals, MaxDeposits, MaxHeight, MaxForged} \subseteq Nat
  /\ {MaxFaults, MaxTimeouts} \subseteq Nat

VARIABLES
  deposits, l2Height, madeAt, mintedAt,     \* L1 deposits; L2 blocks
  oracle, tx, forged,                       \* L1's outputs, the deletion
  dbDeposits, dbHeight, dbMinted, indexOf,  \* the monitors' tables,
  dbOutputs, dbChecked, dbIndex,            \*   the loop's, as committed
  mpc, syncedHeight, maxHeight, handled,    \* the L2 monitor and its open
  myMinted, myIndexOf,                      \*   transaction's rows
  cpc, lastChecked, toCheck, indexToCheck,  \* the loop, its memory and its
  lastOutput, contract, endBlock, target,   \*   open transaction's rows
  myOutputs, myChecked,
  faults, timeouts

chains  == <<deposits, l2Height, madeAt, mintedAt>>
l1vars  == <<oracle, tx, forged>>
tables  == <<dbDeposits, dbHeight, dbMinted, indexOf>>
results == <<dbOutputs, dbChecked, dbIndex>>
monitor == <<mpc, syncedHeight, maxHeight, handled, myMinted, myIndexOf>>
members == <<lastChecked, toCheck, indexToCheck>>
locals  == <<lastOutput, contract, endBlock, target>>
view    == <<myOutputs, myChecked>>
loop    == <<cpc, members, locals, view>>
budget  == <<faults, timeouts>>
vars    == <<chains, l1vars, tables, results, monitor, loop, budget>>

(* The token withdrawals users make on L2, by their l2_sequence.           *)
Withdrawals == 1 .. MaxWithdrawals

(* An output: its index, its last L2 block and the withdrawals under its   *)
(* Merkle root; a false one has a root that no L2 state has.               *)
Outputs  == [index : Nat, end : Nat, leaves : SUBSET Withdrawals, false : BOOLEAN]
NoOutput == [index |-> 0, end |-> 0, leaves |-> {}, false |-> FALSE]

TypeOK ==
  /\ deposits \in 0 .. MaxDeposits
  /\ l2Height \in Nat
  /\ madeAt \in [Withdrawals -> Nat]
  /\ mintedAt \in [1 .. MaxDeposits -> Nat]
  /\ oracle \in Seq(Outputs)
  /\ tx \in Nat
  /\ forged \in Nat
  /\ dbDeposits \in 0 .. deposits
  /\ dbHeight \in Nat
  /\ dbMinted \subseteq 1 .. deposits
  /\ indexOf \in [Withdrawals -> Nat]
  /\ dbOutputs \in Seq(Outputs)
  /\ dbChecked \in 0 .. deposits
  /\ dbIndex \in Nat \ {0}
  /\ mpc \in {"down", "poll", "block", "commit"}
  /\ syncedHeight \in Nat
  /\ maxHeight \in Nat
  /\ handled \in 0 .. MaxWithdrawals
  /\ myMinted \subseteq 1 .. deposits
  /\ myIndexOf \in [Withdrawals -> Nat]
  /\ cpc \in {"down", "deposit", "last", "match", "contract", "range", "root",
              "commit", "challenge", "sent"}
  /\ lastChecked \in Nat
  /\ toCheck \in Nat \ {0}
  /\ indexToCheck \in Nat \ {0}
  /\ lastOutput \in Nat
  /\ contract \in Outputs
  /\ endBlock \in Nat
  /\ target \in Nat
  /\ myOutputs \in Seq(Outputs)
  /\ myChecked \in Nat
  /\ faults \in Nat
  /\ timeouts \in Nat

Init ==
  /\ deposits = 0 /\ l2Height = 0
  /\ madeAt = [w \in Withdrawals |-> 0]
  /\ mintedAt = [d \in 1 .. MaxDeposits |-> 0]
  /\ oracle = <<>> /\ tx = 0 /\ forged = 0
  /\ dbDeposits = 0 /\ dbHeight = START_HEIGHT /\ dbMinted = {}
  /\ indexOf = [w \in Withdrawals |-> 0]
  /\ dbOutputs = <<>> /\ dbChecked = 0 /\ dbIndex = 1
  /\ mpc = "down" /\ syncedHeight = 0 /\ maxHeight = 0 /\ handled = 0
  /\ myMinted = {} /\ myIndexOf = [w \in Withdrawals |-> 0]
  /\ cpc = "down" /\ lastChecked = 0 /\ toCheck = 1 /\ indexToCheck = 1
  /\ lastOutput = 0 /\ contract = NoOutput /\ endBlock = 0 /\ target = 0
  /\ myOutputs = <<>> /\ myChecked = 0
  /\ faults = 0 /\ timeouts = 0

Fault   == faults < MaxFaults /\ faults' = faults + 1 /\ UNCHANGED timeouts
NoFault == UNCHANGED budget

-----------------------------------------------------------------------------
(* The chains *)

NewDeposit ==
  /\ deposits < MaxDeposits
  /\ deposits' = deposits + 1
  /\ UNCHANGED <<l2Height, madeAt, mintedAt, l1vars, tables, results, monitor,
                 loop, budget>>

(* A block of L2, in which users make the next withdrawals, and the        *)
(* executor finalizes deposits in any order.                               *)
NewL2Block ==
  /\ l2Height < MaxHeight
  /\ l2Height' = l2Height + 1
  /\ \E last \in 0 .. MaxWithdrawals :
       madeAt' = [w \in Withdrawals |-> IF madeAt[w] = 0 /\ w <= last
                                        THEN l2Height + 1 ELSE madeAt[w]]
  /\ \E D \in SUBSET {d \in 1 .. deposits : mintedAt[d] = 0} :
       mintedAt' = [d \in 1 .. MaxDeposits |-> IF d \in D THEN l2Height + 1
                                               ELSE mintedAt[d]]
  /\ UNCHANGED <<deposits, l1vars, tables, results, monitor, loop, budget>>

EndOf(log) == IF log = <<>> THEN 0 ELSE log[Len(log)].end

(* The output the executor makes of the blocks up to end: OutputPipeline   *)
(* shows that its leaves are the withdrawals of its range, except that the *)
(* executor stores none before its first output.  One with a false root is *)
(* somebody else's, or the executor's of another L2 state.                 *)
ProposedOutput(end, isFalse) ==
  [index  |-> Len(oracle) + 1,
   end    |-> end,
   leaves |-> IF oracle = <<>> THEN {}
              ELSE {w \in Withdrawals : madeAt[w] \in EndOf(oracle) + 1 .. end},
   false  |-> isFalse]

Propose ==
  /\ \E end \in EndOf(oracle) + 1 .. l2Height :
       \/ oracle' = Append(oracle, ProposedOutput(end, FALSE)) /\ UNCHANGED forged
       \/ /\ forged < MaxForged /\ forged' = forged + 1
          /\ oracle' = Append(oracle, ProposedOutput(end, TRUE))
  /\ UNCHANGED <<chains, tx, tables, results, monitor, loop, budget>>

(* The transaction in the mempool deletes an output and all later ones.    *)
Deliver ==
  /\ tx # 0 /\ tx' = 0
  /\ oracle' = IF tx \in DOMAIN oracle THEN SubSeq(oracle, 1, tx - 1)
               ELSE oracle
  /\ UNCHANGED <<chains, forged, tables, results, monitor, loop, budget>>

-----------------------------------------------------------------------------
(* The process *)

(* Everything in memory and all open transactions are gone.                *)
Die ==
  /\ mpc' = "down" /\ syncedHeight' = 0 /\ maxHeight' = 0 /\ handled' = 0
  /\ myMinted' = dbMinted /\ myIndexOf' = indexOf
  /\ cpc' = "down" /\ lastChecked' = 0 /\ toCheck' = 1 /\ indexToCheck' = 1
  /\ lastOutput' = 0 /\ contract' = NoOutput /\ endBlock' = 0 /\ target' = 0
  /\ myOutputs' = dbOutputs /\ myChecked' = dbChecked
  /\ UNCHANGED <<chains, l1vars, tables, results>>

Up == cpc # "down"

(* A crash, or an error of a node or of the database in any of the three.  *)
Crash == Up /\ ~(cpc = "sent" /\ tx # 0) /\ Fault /\ Die

(* The same while the deletion is in L1's mempool: no answer in time.      *)
Timeout ==
  /\ cpc = "sent" /\ tx # 0
  /\ timeouts < MaxTimeouts /\ timeouts' = timeouts + 1 /\ UNCHANGED faults
  /\ Die

(* A variant with a mistake has the mistake in its name.  No action uses   *)
(* these; they show which property notices.                                *)
ResumeIndex_OneBack == dbIndex - 1
ResumeIndex         == dbIndex

(* Challenger.init and Monitor.run: where to go on.                        *)
Start ==
  /\ ~Up /\ cpc' = "deposit" /\ mpc' = "poll"
  /\ lastChecked' = dbChecked
  /\ toCheck' = IF dbChecked = 0 THEN 1 ELSE dbChecked
  /\ indexToCheck' = ResumeIndex
  /\ syncedHeight' = dbHeight
  /\ UNCHANGED <<chains, l1vars, tables, results, maxHeight, handled,
                 myMinted, myIndexOf, locals, view, budget>>

-----------------------------------------------------------------------------
(* The monitors *)

(* An iteration of the L1 monitor.  It reads nothing that others write, so *)
(* its transaction is one step: the deposits of some more blocks.          *)
L1Monitor ==
  /\ Up /\ \E n \in dbDeposits + 1 .. deposits : dbDeposits' = n
  /\ UNCHANGED <<chains, l1vars, dbHeight, dbMinted, indexOf, results, monitor,
                 loop, budget>>

Poll ==
  /\ mpc = "poll" /\ mpc' = "block"
  /\ \E h \in 1 .. l2Height :
       /\ h > syncedHeight
       /\ maxHeight' = IF h <= syncedHeight + MAX_BLOCKS THEN h
                       ELSE syncedHeight + MAX_BLOCKS
  /\ UNCHANGED <<chains, l1vars, tables, results, syncedHeight, handled,
                 myMinted, myIndexOf, loop, budget>>

PollNothing == mpc = "poll" /\ UNCHANGED vars

currentHeight == syncedHeight + 1
InBlock == mpc = "block" /\ syncedHeight < maxHeight

WithdrawalIndex_Unchecked == indexToCheck

(* handleInitiateTokenWithdrawalEvent reads the last output the loop has   *)
(* committed, at every event anew, and takes the one after it; before the  *)
(* first output it stores nothing.                                         *)
WithdrawalIndex == dbOutputs[Len(dbOutputs)].index + 1

WithdrawalsAt(h) == {w \in Withdrawals : madeAt[w] = h}
Unhandled == {w \in WithdrawalsAt(currentHeight) : w > handled}

(* The next withdrawal event of the block: the loop may commit between two *)
(* of them.  A failed lookup of the token pair drops the withdrawal.  The  *)
(* row is seen by nobody before CommitBlocks, so that it is saved some     *)
(* awaits after the index was read does not show.                          *)
HandleWithdrawal ==
  /\ InBlock
  /\ \E w \in Unhandled :
       /\ \A v \in Unhandled : w <= v
       /\ handled' = w
       /\ \/ dbOutputs = <<>> /\ NoFault /\ UNCHANGED myIndexOf
          \/ dbOutputs # <<>> /\ Fault /\ UNCHANGED myIndexOf
          \/ dbOutputs # <<>> /\ NoFault
             /\ myIndexOf' = [myIndexOf EXCEPT ![w] = WithdrawalIndex]
  /\ UNCHANGED <<chains, l1vars, tables, results, mpc, syncedHeight, maxHeight,
                 myMinted, loop>>

(* After the withdrawals of the block its finalized deposits are stored.   *)
HandleBlock ==
  /\ InBlock /\ Unhandled = {}
  /\ myMinted' = myMinted \cup {d \in 1 .. deposits : mintedAt[d] = currentHeight}
  /\ syncedHeight' = currentHeight /\ handled' = 0
  /\ UNCHANGED <<chains, l1vars, tables, results, mpc, maxHeight, myIndexOf,
                 loop, budget>>

(* The iteration ends early at a block whose results are not indexed yet,  *)
(* before its first event.                                                 *)
BlocksDone ==
  /\ mpc = "block" /\ handled = 0 /\ mpc' = "commit"
  /\ \/ syncedHeight = maxHeight /\ NoFault
     \/ syncedHeight < maxHeight /\ Fault
  /\ UNCHANGED <<chains, l1vars, tables, results, syncedHeight, maxHeight,
                 handled, myMinted, myIndexOf, loop>>

CommitBlocks ==
  /\ mpc = "commit" /\ mpc' = "poll"
  /\ dbHeight' = syncedHeight /\ dbMinted' = myMinted /\ indexOf' = myIndexOf
  /\ maxHeight' = 0
  /\ UNCHANGED <<chains, l1vars, dbDeposits, results, syncedHeight, handled,
                 myMinted, myIndexOf, loop, budget>>

-----------------------------------------------------------------------------
(* challengeDepositTx *)

NextSequences_LessThan == {s \in 1 .. dbDeposits : s < toCheck}

(* The smallest sequence above the one checked last, if there is one.      *)
NextSequences ==
  {s \in 1 .. dbDeposits :
     s > toCheck /\ \A r \in toCheck + 1 .. dbDeposits : s <= r}

NextDeposit ==
  /\ cpc = "deposit"
  /\ \/ lastChecked = toCheck /\ NextSequences = {} /\ cpc' = "contract"
        /\ UNCHANGED toCheck
     \/ lastChecked = toCheck /\ toCheck' \in NextSequences /\ cpc' = "last"
     \/ lastChecked # toCheck /\ UNCHANGED toCheck /\ cpc' = "last"
  /\ UNCHANGED <<chains, l1vars, tables, results, monitor, lastChecked,
                 indexToCheck, locals, view, budget>>

(* getLastOutputInfo *)
ReadLastOutput ==
  /\ cpc = "last" /\ cpc' = "match"
  /\ lastOutput' = Len(oracle)
  /\ UNCHANGED <<chains, l1vars, tables, results, monitor, members, contract,
                 endBlock, target, view, budget>>

(* Both rows of the deposit are there: made on L1, finalized on L2.        *)
Comparable == toCheck <= dbDeposits /\ toCheck \in dbMinted

CompareDeposit ==
  /\ cpc = "match" /\ lastOutput' = 0
  /\ \/ /\ ~Comparable /\ cpc' = "contract"
        /\ UNCHANGED <<lastChecked, myChecked, target>>
     \/ /\ Comparable /\ toCheck \in Corrupted /\ lastOutput # 0
        /\ cpc' = "challenge" /\ target' = lastOutput
        /\ UNCHANGED <<lastChecked, myChecked>>
     \/ /\ Comparable /\ (toCheck \notin Corrupted \/ lastOutput = 0)
        /\ cpc' = "contract" /\ lastChecked' = toCheck /\ myChecked' = toCheck
        /\ UNCHANGED target
  /\ UNCHANGED <<chains, l1vars, tables, results, monitor, toCheck,
                 indexToCheck, contract, endBlock, myOutputs, budget>>

-----------------------------------------------------------------------------
(* challengeOutputRoot *)

(* getOutputInfoByIndex and getContractOutputRoot: an error of the first   *)
(* ends the check, an error of the second leaves the root unknown.         *)
ReadContract ==
  /\ cpc = "contract"
  /\ \/ indexToCheck \notin DOMAIN oracle /\ NoFault /\ cpc' = "commit"
        /\ UNCHANGED contract
     \/ indexToCheck \in DOMAIN oracle /\ Fault /\ cpc' = "commit"
        /\ UNCHANGED contract
     \/ indexToCheck \in DOMAIN oracle /\ Fault /\ cpc' = "range"
        /\ contract' = NoOutput
     \/ indexToCheck \in DOMAIN oracle /\ NoFault /\ cpc' = "range"
        /\ contract' = oracle[indexToCheck]
  /\ UNCHANGED <<chains, l1vars, tables, results, monitor, members, lastOutput,
                 endBlock, target, view>>

(* getChallengerOutputRoot reads L1 again: an output that is gone by now   *)
(* is an error, and ends the process.                                      *)
ReadRange ==
  /\ cpc = "range" /\ NoFault
  /\ \/ /\ indexToCheck \in DOMAIN oracle
        /\ cpc' = "root" /\ endBlock' = oracle[indexToCheck].end
        /\ UNCHANGED <<chains, l1vars, tables, results, monitor, members,
                       lastOutput, contract, target, view>>
     \/ indexToCheck \notin DOMAIN oracle /\ Die

HeightReached_Memory == syncedHeight >= endBlock
HeightReached_Beyond == dbHeight > endBlock
HeightReached        == dbHeight >= endBlock

OwnOutput_ExclusiveEnd ==
  [index |-> indexToCheck, end |-> endBlock - 1,
   leaves |-> {w \in Withdrawals : indexOf[w] = indexToCheck}, false |-> FALSE]

(* The output computed from the challenger's own tables and its L2 node.   *)
OwnOutput ==
  [index |-> indexToCheck, end |-> endBlock,
   leaves |-> {w \in Withdrawals : indexOf[w] = indexToCheck}, false |-> FALSE]

SaveOutput(table, o) ==
  IF o.index \in DOMAIN table THEN [table EXCEPT ![o.index] = o]
  ELSE Append(table, o)

RootsMatch_LeavesOnly   == contract.leaves = OwnOutput.leaves
RootsMatch_UnknownToo   == contract \in {NoOutput, OwnOutput}

RootsMatch == contract = OwnOutput

CompareOutput ==
  /\ cpc = "root" /\ contract' = NoOutput /\ endBlock' = 0
  /\ \/ ~HeightReached /\ cpc' = "commit"
        /\ UNCHANGED <<myOutputs, indexToCheck, target>>
     \/ /\ HeightReached /\ myOutputs' = SaveOutput(myOutputs, OwnOutput)
        /\ \/ /\ RootsMatch /\ cpc' = "commit"
              /\ indexToCheck' = indexToCheck + 1 /\ UNCHANGED target
           \/ /\ ~RootsMatch /\ contract = NoOutput /\ cpc' = "commit"
              /\ UNCHANGED <<indexToCheck, target>>
           \/ /\ ~RootsMatch /\ contract # NoOutput /\ cpc' = "challenge"
              /\ target' = indexToCheck /\ UNCHANGED indexToCheck
  /\ UNCHANGED <<chains, l1vars, tables, results, monitor, lastChecked,
                 toCheck, lastOutput, myChecked, budget>>

CommitLoop ==
  /\ cpc = "commit" /\ cpc' = "deposit"
  /\ dbOutputs' = myOutputs /\ dbChecked' = myChecked /\ dbIndex' = indexToCheck
  /\ UNCHANGED <<chains, l1vars, tables, monitor, members, locals, view, budget>>

-----------------------------------------------------------------------------
(* handleChallengedOutputProposal *)

Accepted == tx = 0 /\ target \in DOMAIN oracle

SendDelete ==
  /\ cpc = "challenge" /\ DELETE_OUTPUT_PROPOSAL /\ Accepted
  /\ cpc' = "sent" /\ tx' = target /\ target' = 0
  /\ UNCHANGED <<chains, oracle, forged, tables, results, monitor, members,
                 lastOutput, contract, endBlock, view, budget>>

(* The process ends: after the deletion, without it when it is turned off, *)
(* or with an error when L1 refuses it.                                    *)
Exit ==
  /\ \/ cpc = "challenge" /\ ~(DELETE_OUTPUT_PROPOSAL /\ Accepted)
     \/ cpc = "sent" /\ tx = 0
  /\ Die /\ NoFault

-----------------------------------------------------------------------------
L2Monitor  == \/ Poll \/ PollNothing \/ HandleWithdrawal \/ HandleBlock
              \/ BlocksDone \/ CommitBlocks
Challenge  == \/ NextDeposit \/ ReadLastOutput \/ CompareDeposit
              \/ ReadContract \/ ReadRange \/ CompareOutput \/ CommitLoop
              \/ SendDelete \/ Exit

Next == \/ NewDeposit \/ NewL2Block \/ Propose \/ Deliver
        \/ Crash \/ Timeout \/ Start
        \/ L1Monitor \/ L2Monitor \/ Challenge

Spec == Init /\ [][Next]_vars

(* L1 executes what its mempool keeps, pm2 restarts the process, and its   *)
(* event loop runs each of the three.  Nobody has to deposit, to make a    *)
(* block or to propose.                                                    *)
FairSpec == /\ Spec
            /\ WF_vars(Deliver) /\ WF_vars(Start) /\ WF_vars(L1Monitor)
            /\ WF_vars(L2Monitor) /\ WF_vars(Challenge)

-----------------------------------------------------------------------------
(* Properties *)

(* Every deletion so far was awaited, and no deposit was finalized with    *)
(* other contents: only then do the properties below that say so hold.     *)
Undisturbed == timeouts = 0 /\ \A d \in Corrupted : mintedAt[d] = 0

(* What the loop has passed is what L1 holds: the outputs below the index  *)
(* to check are on L1, with the roots the challenger computed itself: what *)
(* it deletes is never below the index it has committed.                   *)
PassedIsOnL1 ==
  Undisturbed =>
    \A i \in 1 .. dbIndex - 1 :
      i \in DOMAIN oracle /\ i \in DOMAIN dbOutputs /\ oracle[i] = dbOutputs[i]

(* The table of outputs and the index to check move together, though an    *)
(* output is stored before its comparison and the process may end between  *)
(* the two: one row per index passed, and at most one more.                *)
OutputsMatchIndex ==
  /\ Len(dbOutputs) \in {dbIndex - 1, dbIndex}
  /\ \A i \in 1 .. Len(dbOutputs) :
       /\ dbOutputs[i].index = i
       /\ dbOutputs[i].end <= dbHeight

(* Withdrawals are put under outputs in the order they were made, those of *)
(* one block included, and never under one beyond the next, although the   *)
(* monitor reads the loop's progress anew at each event, the loop commits  *)
(* between two events of a block, and blocks are repeated after a crash.   *)
IndexesInOrder ==
  /\ \A w \in Withdrawals : indexOf[w] <= Len(dbOutputs) + 1
  /\ \A v, w \in Withdrawals :
       v < w /\ indexOf[v] # 0 /\ indexOf[w] # 0
         => indexOf[v] <= indexOf[w]

(* Every deposit up to the last one checked is known to be finalized: the  *)
(* check waits for a late finalization and never goes past it, whatever    *)
(* order the executor finalizes in.                                        *)
CheckedIsFinalized ==
  dbChecked <= dbDeposits /\ 1 .. dbChecked \subseteq dbMinted

(* No output with a false root is below the index to check: it would never *)
(* be looked at again.                                                     *)
FalseNeverPassed ==
  \A i \in 1 .. Len(oracle) : oracle[i].false => i >= dbIndex

(* Only outputs with a false root are deleted (with the ones after them).  *)
(* "It will monitor the output oracle and delete invalid output proposals" *)
(* (README.md:202).                                                        *)
DeletesOnlyInvalid ==
  [][Len(oracle') < Len(oracle) => oracle[Len(oracle') + 1].false]_vars

(* Every output on L1 is answered: passed, or deleted.                     *)
EveryOutputAnswered ==
  \A i \in 1 .. MaxHeight :
    i \in DOMAIN oracle /\ oracle[i].end <= MaxHeight
      ~> i \notin DOMAIN oracle \/ i < dbIndex

(* A deposit is checked once it and all before it are finalized on L2.     *)
EveryDepositChecked ==
  \A d \in 1 .. MaxDeposits :
    (\A e \in 1 .. d : mintedAt[e] > START_HEIGHT) ~> dbChecked >= d

-----------------------------------------------------------------------------
(* What users see: the outputs on L1, and those passed.                    *)
Passed == [i \in 1 .. dbIndex - 1 |-> dbOutputs[i]]

Promise == INSTANCE ChallengePromise WITH log       <- oracle,
                                          passed    <- Passed,
                                          disturbed <- ~Undisturbed

(* The challenger implements the promise: outputs are passed one by one,   *)
(* in order, as L1 holds them and none with a false root, whatever the     *)
(* loop forgets in a crash between storing its own output and comparing    *)
(* it; what it deletes is all that is not passed and nothing that is; and  *)
(* no disturbance makes it forget or change what it has passed.            *)
KeepsChallenge == Promise!CSpec
=============================================================================
