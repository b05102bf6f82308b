-------------------------- MODULE ChallengerProofs --------------------------
(***************************************************************************)
(* Proofs, for every number of withdrawals, deposits, blocks, outputs,     *)
(* faults and deletions, of the safety properties of Challenger.           *)
(***************************************************************************)
EXTENDS Challenger, SequenceTheorems, TLAPS

-----------------------------------------------------------------------------
(* The inductive invariant, by topic *)

ChainsOK ==
  /\ \A i \in 1 .. Len(oracle) : oracle[i].index = i
  /\ timeouts <= MaxTimeouts
  /\ \A w \in Withdrawals : madeAt[w] <= l2Height
  /\ \A v, w \in Withdrawals : v < w /\ madeAt[w] # 0 =>
       madeAt[v] # 0 /\ madeAt[v] <= madeAt[w]

(* Withdrawal w is of a block up to h, or of the next one and not after    *)
(* event p of it.                                                          *)
Reached(w, h, p) ==
  \/ 1 <= madeAt[w] /\ madeAt[w] <= h
  \/ madeAt[w] = h + 1 /\ w <= p

(* The indexes ix, given to withdrawals reached so far, and in order.      *)
Labelled(ix, h, p) ==
  /\ \A w \in Withdrawals : ix[w] # 0 =>
       Reached(w, h, p) /\ ix[w] <= Len(dbOutputs) + 1
  /\ \A v, w \in Withdrawals :
       v < w /\ ix[v] # 0 /\ ix[w] # 0 => ix[v] <= ix[w]

LastHandled == IF mpc = "down" THEN dbHeight ELSE syncedHeight

(* The L2 monitor's tables, as committed and in its open transaction.      *)
MonitorOK ==
  /\ mpc = "down" <=> cpc = "down"
  /\ dbMinted \subseteq myMinted
  /\ \A d \in myMinted : mintedAt[d] # 0
  /\ Labelled(indexOf, dbHeight, 0)
  /\ Labelled(myIndexOf, LastHandled, handled)
  /\ mpc # "block" => handled = 0
  /\ mpc # "down" => dbHeight <= syncedHeight

(* The check of deposits goes one by one and over finalized ones only.     *)
DepositsOK ==
  /\ dbChecked <= dbDeposits /\ 1 .. dbChecked \subseteq dbMinted
  /\ myChecked <= dbDeposits /\ 1 .. myChecked \subseteq dbMinted
  /\ cpc = "down" => myChecked = dbChecked
  /\ cpc # "down" => /\ lastChecked = myChecked
                     /\ toCheck = lastChecked \/ toCheck = lastChecked + 1

(* Table t of outputs when n is the index to check.                        *)
Rows(t, n) ==
  /\ Len(t) = n - 1 \/ Len(t) = n
  /\ \A i \in 1 .. Len(t) :
       t[i].index = i /\ t[i].end <= dbHeight /\ t[i].false = FALSE

Checking == cpc \in {"deposit", "last", "match", "contract", "range", "root"}

LoopOK ==
  /\ Rows(dbOutputs, dbIndex)
  /\ cpc = "down" \/ Checking => myOutputs = dbOutputs
  /\ Checking => indexToCheck = dbIndex
  /\ cpc = "commit" => Rows(myOutputs, indexToCheck) /\ Len(dbOutputs) <= Len(myOutputs)

(* L1 holds what was passed before index n.                                *)
Matches(t, n) ==
  \A i \in 1 .. n - 1 : i \in 1 .. Len(oracle) /\ oracle[i] = t[i]

(* While nothing disturbs it, the loop is alone in deleting outputs, and   *)
(* what it has read of L1 stays true until it ends the process.            *)
CalmOK ==
  Undisturbed =>
    /\ Matches(dbOutputs, dbIndex)
    /\ cpc = "commit" => Matches(myOutputs, indexToCheck)
    /\ tx # 0 => cpc = "sent" /\ tx = dbIndex
    /\ cpc = "challenge" => target = dbIndex
    /\ cpc \in {"range", "root"} /\ contract # NoOutput =>
         /\ dbIndex \in 1 .. Len(oracle) /\ contract = oracle[dbIndex]
         /\ cpc = "root" => endBlock = contract.end

(* Without withdrawals every valid output is what the challenger computes. *)
FalseOK ==
  Undisturbed /\ Withdrawals = {} =>
    (cpc = "challenge" \/ tx # 0 =>
       dbIndex \in 1 .. Len(oracle) /\ oracle[dbIndex].false = TRUE)

IInv == /\ TypeOK /\ ChainsOK /\ MonitorOK /\ DepositsOK /\ LoopOK
        /\ CalmOK /\ FalseOK

-----------------------------------------------------------------------------
(* What a part of the invariant depends on                                 *)

LEMMA ChainsFrame ==
  ASSUME IInv, UNCHANGED <<oracle, timeouts, madeAt, l2Height>>
  PROVE  ChainsOK'
  BY DEF IInv, ChainsOK

LEMMA MonitorFrame ==
  ASSUME IInv,
         UNCHANGED <<dbMinted, myMinted, mintedAt, indexOf, myIndexOf, madeAt,
                     dbHeight, syncedHeight, mpc, handled, dbOutputs>>,
         cpc' = "down" <=> cpc = "down"
  PROVE  MonitorOK'
  BY DEF IInv, MonitorOK, Labelled, Reached, LastHandled

LEMMA DepositsFrame ==
  ASSUME IInv,
         UNCHANGED <<dbChecked, dbDeposits, dbMinted, myChecked, lastChecked,
                     toCheck>>,
         cpc' = "down" <=> cpc = "down"
  PROVE  DepositsOK'
  BY DEF IInv, DepositsOK

LEMMA LoopFrame ==
  ASSUME IInv,
         UNCHANGED <<dbOutputs, dbIndex, dbHeight, cpc, myOutputs, indexToCheck>>
  PROVE  LoopOK'
  BY DEF IInv, LoopOK, Rows, Checking

LEMMA CalmFrame ==
  ASSUME IInv,
         UNCHANGED <<timeouts, mintedAt, dbOutputs, dbIndex, oracle, myOutputs,
                     indexToCheck, tx, cpc, target, contract, endBlock>>
  PROVE  CalmOK' /\ FalseOK'
  BY DEF IInv, CalmOK, FalseOK, Undisturbed, Matches

LEMMA Sequences ==
  ASSUME IInv
  PROVE  /\ madeAt \in [Withdrawals -> Nat] /\ l2Height \in Nat
         /\ indexOf \in [Withdrawals -> Nat] /\ myIndexOf \in [Withdrawals -> Nat]
         /\ handled \in Nat /\ handled <= MaxWithdrawals /\ MaxWithdrawals \in Nat
         /\ \A w \in Withdrawals : w \in Nat /\ w > 0 /\ w <= MaxWithdrawals
  BY ChallengerAssumption DEF IInv, TypeOK, Withdrawals

LEMMA Numbers ==
  ASSUME IInv
  PROVE  /\ Len(oracle) \in Nat /\ Len(dbOutputs) \in Nat /\ Len(myOutputs) \in Nat
         /\ dbIndex \in Nat /\ dbHeight \in Nat /\ syncedHeight \in Nat
         /\ deposits \in Nat /\ dbDeposits \in Nat /\ dbChecked \in Nat
         /\ myChecked \in Nat /\ lastChecked \in Nat /\ toCheck \in Nat
         /\ dbDeposits <= deposits
  BY LenProperties, ChallengerAssumption DEF IInv, TypeOK

LEMMA Typed ==
  ASSUME IInv
  PROVE  /\ Len(oracle) \in Nat /\ Len(dbOutputs) \in Nat /\ Len(myOutputs) \in Nat
         /\ DOMAIN oracle = 1 .. Len(oracle)
         /\ DOMAIN dbOutputs = 1 .. Len(dbOutputs)
         /\ DOMAIN myOutputs = 1 .. Len(myOutputs)
         /\ dbIndex \in Nat \ {0} /\ indexToCheck \in Nat \ {0}
         /\ dbHeight \in Nat /\ syncedHeight \in Nat /\ endBlock \in Nat
         /\ deposits \in Nat /\ dbDeposits \in Nat /\ dbChecked \in Nat
         /\ myChecked \in Nat /\ lastChecked \in Nat /\ toCheck \in Nat
         /\ dbDeposits <= deposits /\ deposits <= MaxDeposits
         /\ MaxDeposits \in Nat /\ START_HEIGHT \in Nat
  BY LenProperties, ChallengerAssumption DEF IInv, TypeOK

LEMMA OutputFields ==
  ASSUME NEW t \in Seq(Outputs)
  PROVE  \A i \in 1 .. Len(t) :
           t[i] \in Outputs /\ t[i].index \in Nat /\ t[i].end \in Nat
<1> SUFFICES ASSUME NEW i \in 1 .. Len(t)
             PROVE  t[i] \in Outputs /\ t[i].index \in Nat /\ t[i].end \in Nat
  OBVIOUS
<1>1. t[i] \in Outputs
  BY ElementOfSeq
<1> QED
  BY <1>1 DEF Outputs

LEMMA Appended ==
  ASSUME NEW S, NEW s \in Seq(S), NEW e \in S
  PROVE  /\ Append(s, e) \in Seq(S)
         /\ Len(s) \in Nat
         /\ Len(Append(s, e)) = Len(s) + 1
         /\ \A i \in 1 .. Len(s) : Append(s, e)[i] = s[i]
         /\ Append(s, e)[Len(s) + 1] = e
  BY LenProperties

LEMMA EndType ==
  ASSUME IInv
  PROVE  EndOf(oracle) \in Nat
<1>1. CASE oracle = <<>>
  BY <1>1 DEF EndOf
<1>2. CASE oracle # <<>>
  <2>1. Len(oracle) \in 1 .. Len(oracle)
    BY <1>2, EmptySeq DEF IInv, TypeOK
  <2> QED
    BY <1>2, <2>1, OutputFields DEF EndOf, IInv, TypeOK
<1> QED
  BY <1>1, <1>2

LEMMA InitOK == Init => IInv
<1> SUFFICES ASSUME Init PROVE IInv
  OBVIOUS
<1>1. TypeOK
  BY EmptySeq, ChallengerAssumption DEF Init, TypeOK, NoOutput, Outputs
<1>2. Len(oracle) = 0 /\ Len(dbOutputs) = 0
  BY EmptySeq DEF Init
<1>3. ChainsOK
  BY <1>2, ChallengerAssumption DEF Init, ChainsOK, Withdrawals
<1>4. MonitorOK /\ DepositsOK
  BY <1>2 DEF Init, MonitorOK, Labelled, DepositsOK
<1>5. LoopOK
  BY <1>2 DEF Init, LoopOK, Rows, Checking
<1>6. CalmOK /\ FalseOK
  BY <1>2 DEF Init, CalmOK, FalseOK, Matches
<1> QED
  BY <1>1, <1>3, <1>4, <1>5, <1>6 DEF IInv

-----------------------------------------------------------------------------
(* Steps of the chains                                                     *)

LEMMA NewDepositStep ==
  ASSUME IInv, NewDeposit
  PROVE  IInv'
<1> USE DEF NewDeposit, l1vars, tables, results, monitor, loop, members, locals, view, budget
<1>1. TypeOK'
  BY Typed DEF IInv, TypeOK
<1> QED
  BY <1>1, ChainsFrame, MonitorFrame, DepositsFrame, LoopFrame, CalmFrame DEF IInv

LEMMA NewL2BlockStep ==
  ASSUME IInv, NewL2Block
  PROVE  IInv'
<1>1. UNCHANGED <<deposits, l1vars, tables, results, monitor, loop, budget>>
  BY DEF NewL2Block
<1>2. PICK last \in 0 .. MaxWithdrawals :
        madeAt' = [w \in Withdrawals |-> IF madeAt[w] = 0 /\ w <= last
                                         THEN l2Height + 1 ELSE madeAt[w]]
  BY DEF NewL2Block
<1>3. PICK D \in SUBSET {d \in 1 .. deposits : mintedAt[d] = 0} :
        mintedAt' = [d \in 1 .. MaxDeposits |-> IF d \in D THEN l2Height + 1
                                                ELSE mintedAt[d]]
  BY DEF NewL2Block
<1>4. /\ l2Height \in Nat /\ l2Height' = l2Height + 1
      /\ madeAt \in [Withdrawals -> Nat] /\ mintedAt \in [1 .. MaxDeposits -> Nat]
  BY DEF IInv, TypeOK, NewL2Block
<1>5. /\ madeAt' \in [Withdrawals -> Nat]
      /\ \A w \in Withdrawals : madeAt[w] # 0 => madeAt'[w] = madeAt[w]
  BY <1>2, <1>4
<1>6. /\ mintedAt' \in [1 .. MaxDeposits -> Nat]
      /\ \A d \in 1 .. MaxDeposits : mintedAt[d] # 0 => mintedAt'[d] # 0
  BY <1>3, <1>4
<1>7. TypeOK'
  BY <1>1, <1>4, <1>5, <1>6
     DEF IInv, TypeOK, l1vars, tables, results, monitor, loop, members, locals, view, budget
<1>8. MonitorOK'
  <2>1. myMinted \subseteq 1 .. MaxDeposits
    BY Typed DEF IInv, TypeOK
  <2>2. \A w \in Withdrawals : madeAt[w] \in Nat /\ madeAt'[w] \in Nat
    BY <1>4, <1>5
  <2>3. ASSUME NEW ix, NEW h \in Nat, NEW p, Labelled(ix, h, p)
        PROVE  \A w \in Withdrawals : ix[w] # 0 => madeAt'[w] = madeAt[w]
    <3>1. \A w \in Withdrawals : ix[w] # 0 => madeAt[w] # 0
      BY <2>2, <2>3 DEF Labelled, Reached
    <3> QED
      BY <1>5, <3>1
  <2>4. /\ Labelled(indexOf, dbHeight, 0) /\ dbHeight \in Nat
        /\ Labelled(myIndexOf, LastHandled, handled) /\ LastHandled \in Nat
    BY DEF IInv, TypeOK, MonitorOK, LastHandled
  <2>5. UNCHANGED <<indexOf, dbHeight, myIndexOf, LastHandled, handled, dbOutputs>>
    BY <1>1 DEF tables, results, monitor, LastHandled
  <2>6. Labelled(indexOf, dbHeight, 0)'
    BY <2>3, <2>4, <2>5 DEF Labelled, Reached
  <2>7. Labelled(myIndexOf, LastHandled, handled)'
    BY <2>3, <2>4, <2>5 DEF Labelled, Reached
  <2> QED
    BY <1>1, <1>6, <2>1, <2>6, <2>7 DEF IInv, MonitorOK, tables, monitor, loop
<1>9. Undisturbed' => Undisturbed
  BY <1>1, <1>6, ChallengerAssumption DEF Undisturbed, budget
<1>10. CalmOK'
  BY <1>1, <1>9 DEF IInv, CalmOK, Matches, l1vars, results, loop, members, locals, view
<1>11. FalseOK'
  BY <1>1, <1>9 DEF IInv, FalseOK, l1vars, results, loop
<1>12. ChainsOK'
  <2>1. \A w \in Withdrawals : madeAt'[w] <= l2Height'
    BY <1>2, <1>4 DEF IInv, ChainsOK
  <2>2. ASSUME NEW v \in Withdrawals, NEW w \in Withdrawals, v < w,
               madeAt'[w] # 0
        PROVE  madeAt'[v] # 0 /\ madeAt'[v] <= madeAt'[w]
    <3>1. CASE madeAt[w] # 0
      <4>1. madeAt[v] # 0 /\ madeAt[v] <= madeAt[w]
        BY <2>2, <3>1 DEF IInv, ChainsOK
      <4> QED
        BY <1>5, <3>1, <4>1
    <3>2. CASE madeAt[w] = 0
      <4>1. madeAt'[w] = l2Height + 1 /\ w <= last
        BY <1>2, <2>2, <3>2
      <4>2. v <= last
        BY <2>2, <4>1, Sequences
      <4>3. madeAt'[v] # 0
        BY <1>2, <1>4, <4>2
      <4> QED
        BY <1>4, <2>1, <4>1, <4>3
    <3> QED
      BY <3>1, <3>2
  <2> QED
    BY <1>1, <2>1, <2>2 DEF IInv, ChainsOK, l1vars, budget
<1> QED
  BY <1>1, <1>7, <1>8, <1>10, <1>11, <1>12, DepositsFrame, LoopFrame
     DEF IInv, l1vars, tables, results, monitor, loop, members, locals, view, budget

LEMMA ProposeStep ==
  ASSUME IInv, Propose
  PROVE  IInv'
<1>1. UNCHANGED <<chains, tx, tables, results, monitor, loop, budget>>
  BY DEF Propose
<1>2. PICK end \in EndOf(oracle) + 1 .. l2Height :
        \/ oracle' = Append(oracle, ProposedOutput(end, FALSE)) /\ UNCHANGED forged
        \/ /\ forged' = forged + 1
           /\ oracle' = Append(oracle, ProposedOutput(end, TRUE))
  BY DEF Propose
<1>3. ASSUME NEW b \in BOOLEAN
      PROVE  /\ ProposedOutput(end, b) \in Outputs
             /\ ProposedOutput(end, b).index = Len(oracle) + 1
  <2>1. end \in Nat
    BY EndType DEF IInv, TypeOK
  <2> QED
    BY <2>1, Typed DEF ProposedOutput, Outputs
<1>4. PICK o \in Outputs : o.index = Len(oracle) + 1 /\ oracle' = Append(oracle, o)
  BY <1>2, <1>3
<1>5. oracle \in Seq(Outputs)
  BY DEF IInv, TypeOK
<1>6. /\ oracle' \in Seq(Outputs) /\ Len(oracle) \in Nat
      /\ Len(oracle') = Len(oracle) + 1
      /\ \A i \in 1 .. Len(oracle) : oracle'[i] = oracle[i]
      /\ oracle'[Len(oracle) + 1] = o
  BY <1>4, <1>5, Appended
<1>7. forged' \in Nat
  <2>1. forged' = forged \/ forged' = forged + 1
    BY <1>2
  <2>2. forged \in Nat
    BY DEF IInv, TypeOK
  <2> QED
    BY <2>1, <2>2
<1>8. TypeOK'
  BY <1>1, <1>6, <1>7
     DEF IInv, TypeOK, chains, tables, results, monitor, loop, members, locals, view, budget
<1>9. ChainsOK'
  <2>1. ASSUME NEW i \in 1 .. Len(oracle')
        PROVE  oracle'[i].index = i
    <3>1. CASE i \in 1 .. Len(oracle)
      BY <1>6, <3>1 DEF IInv, ChainsOK
    <3>2. CASE i = Len(oracle) + 1
      BY <1>4, <1>6, <3>2
    <3> QED
      BY <1>6, <3>1, <3>2
  <2> QED
    BY <1>1, <2>1 DEF IInv, ChainsOK, chains, budget
<1>10. Undisturbed' => Undisturbed
  BY <1>1 DEF Undisturbed, chains, budget
<1>11. \A i \in 1 .. Len(oracle) : i \in 1 .. Len(oracle') /\ oracle'[i] = oracle[i]
  BY <1>6
<1>12. CalmOK'
  <2>1. Matches(dbOutputs, dbIndex) => Matches(dbOutputs, dbIndex)'
    BY <1>1, <1>11 DEF Matches, results
  <2>2. Matches(myOutputs, indexToCheck) => Matches(myOutputs, indexToCheck)'
    BY <1>1, <1>11 DEF Matches, loop, members, view
  <2> QED
    BY <1>1, <1>10, <1>11, <2>1, <2>2
       DEF IInv, CalmOK, results, loop, members, locals, view
<1>13. FalseOK'
  BY <1>1, <1>10, <1>11 DEF IInv, FalseOK, results, loop
<1> QED
  BY <1>1, <1>8, <1>9, <1>12, <1>13, MonitorFrame, DepositsFrame, LoopFrame
     DEF IInv, chains, tables, results, monitor, loop, members, locals, view, budget

(* While the loop is undisturbed the deletion is of the output it has      *)
(* found false, none of which it has passed.                               *)
LEMMA DeliverStep ==
  ASSUME IInv, Deliver
  PROVE  IInv'
<1>1. /\ tx # 0 /\ tx' = 0
      /\ UNCHANGED <<chains, forged, tables, results, monitor, loop, budget>>
  BY DEF Deliver
<1>2. /\ oracle \in Seq(Outputs) /\ Len(oracle) \in Nat /\ tx \in Nat
      /\ DOMAIN oracle = 1 .. Len(oracle)
  BY Typed DEF IInv, TypeOK
<1>3. /\ oracle' \in Seq(Outputs)
      /\ Len(oracle') = IF tx \in 1 .. Len(oracle) THEN tx - 1 ELSE Len(oracle)
      /\ \A i \in 1 .. Len(oracle') : oracle'[i] = oracle[i]
  <2>1. CASE tx \in 1 .. Len(oracle)
    <3>1. oracle' = SubSeq(oracle, 1, tx - 1)
      BY <1>2, <2>1 DEF Deliver
    <3>2. \A i \in 1 .. tx - 1 : oracle[i] \in Outputs
      BY <1>2, <2>1, OutputFields
    <3>3. /\ SubSeq(oracle, 1, tx - 1) \in Seq(Outputs)
          /\ Len(SubSeq(oracle, 1, tx - 1)) = tx - 1
          /\ \A i \in 1 .. tx - 1 : SubSeq(oracle, 1, tx - 1)[i] = oracle[i]
      BY <1>2, <2>1, <3>2, SubSeqProperties
    <3> QED
      BY <2>1, <3>1, <3>3
  <2>2. CASE tx \notin 1 .. Len(oracle)
    BY <1>2, <2>2 DEF Deliver
  <2> QED
    BY <2>1, <2>2
<1>4. Len(oracle') \in Nat /\ Len(oracle') <= Len(oracle)
  BY <1>2, <1>3
<1>5. TypeOK'
  BY <1>1, <1>3
     DEF IInv, TypeOK, chains, tables, results, monitor, loop, members, locals, view, budget
<1>6. ChainsOK'
  BY <1>1, <1>2, <1>3, <1>4 DEF IInv, ChainsOK, chains, budget
<1>7. Undisturbed' => Undisturbed
  BY <1>1 DEF Undisturbed, chains, budget
<1>8. CalmOK'
  <2> SUFFICES ASSUME Undisturbed
               PROVE  Matches(dbOutputs, dbIndex)' /\ cpc = "sent"
    BY <1>1, <1>7 DEF CalmOK, loop
  <2>1. Matches(dbOutputs, dbIndex) /\ cpc = "sent" /\ tx = dbIndex
    BY <1>1 DEF IInv, CalmOK
  <2> QED
    BY <1>1, <1>2, <1>3, <2>1, Typed DEF Matches, results
<1>9. FalseOK'
  <2> SUFFICES ASSUME Undisturbed PROVE cpc = "sent"
    BY <1>1, <1>7 DEF FalseOK, loop
  <2> QED
    BY <1>1 DEF IInv, CalmOK
<1> QED
  BY <1>1, <1>5, <1>6, <1>8, <1>9, MonitorFrame, DepositsFrame, LoopFrame
     DEF IInv, chains, tables, results, monitor, loop, members, locals, view, budget

-----------------------------------------------------------------------------
(* Steps of the process                                                    *)

LEMMA DieStep ==
  ASSUME IInv, Die, timeouts' \in Nat, faults' \in Nat,
         timeouts' = 0 => timeouts = 0,
         timeouts' <= MaxTimeouts,
         timeouts' = 0 => (tx # 0 => cpc # "sent")
  PROVE  IInv'
<1> USE DEF Die, chains, l1vars, tables, results
<1>1. TypeOK'
  <2>1. handled' \in 0 .. MaxWithdrawals
    BY Sequences
  <2>2. contract' \in Outputs
    BY DEF NoOutput, Outputs
  <2> QED
    BY <2>1, <2>2, Typed DEF IInv, TypeOK
<1>2. ChainsOK'
  BY DEF IInv, ChainsOK
<1>3. MonitorOK'
  BY DEF IInv, MonitorOK, Labelled, Reached, LastHandled
<1>4. DepositsOK' /\ LoopOK'
  BY DEF IInv, DepositsOK, LoopOK, Rows, Checking
<1>5. Undisturbed' => Undisturbed /\ tx = 0
  BY DEF IInv, CalmOK, Undisturbed, TypeOK
<1>6. CalmOK'
  BY <1>5 DEF IInv, CalmOK, Matches
<1>7. FalseOK'
  BY <1>5 DEF FalseOK
<1> QED
  BY <1>1, <1>2, <1>3, <1>4, <1>6, <1>7 DEF IInv

LEMMA EndStep ==
  ASSUME IInv, Crash \/ Timeout \/ Exit \/ (ReadRange /\ Die)
  PROVE  IInv'
<1>1. timeouts \in Nat /\ faults \in Nat /\ timeouts <= MaxTimeouts
      /\ MaxTimeouts \in Nat
  BY ChallengerAssumption DEF IInv, TypeOK, ChainsOK
<1>2. CASE Crash
  BY <1>1, <1>2, DieStep DEF Crash, Fault
<1>3. CASE Timeout
  BY <1>1, <1>3, DieStep DEF Timeout
<1>4. CASE Exit
  BY <1>1, <1>4, DieStep DEF Exit, NoFault, budget
<1>5. CASE ReadRange /\ Die
  BY <1>1, <1>5, DieStep DEF ReadRange, NoFault, budget
<1> QED
  BY <1>2, <1>3, <1>4, <1>5

LEMMA StartStep ==
  ASSUME IInv, Start
  PROVE  IInv'
<1> USE DEF Start, Up, ResumeIndex, chains, l1vars, tables, results, locals, view, budget
<1>1. TypeOK'
  BY Typed DEF IInv, TypeOK
<1>2. MonitorOK'
  <2>1. /\ mpc = "down" /\ handled = 0 /\ Labelled(indexOf, dbHeight, 0)
        /\ Labelled(myIndexOf, dbHeight, 0)
    BY DEF IInv, MonitorOK, LastHandled
  <2>2. Labelled(indexOf, dbHeight, 0)' /\ Labelled(myIndexOf, LastHandled, handled)'
    BY <2>1 DEF Labelled, Reached, LastHandled
  <2> QED
    BY <2>1, <2>2, Numbers DEF IInv, MonitorOK
<1>3. DepositsOK'
  BY Typed DEF IInv, DepositsOK
<1>4. LoopOK'
  BY DEF IInv, LoopOK, Rows, Checking
<1>5. Undisturbed' => Undisturbed
  BY DEF Undisturbed
<1>6. CalmOK' /\ FalseOK'
  BY <1>5 DEF IInv, CalmOK, FalseOK, Matches
<1> QED
  BY <1>1, <1>2, <1>3, <1>4, <1>6, ChainsFrame DEF IInv

-----------------------------------------------------------------------------
(* Steps of the monitors                                                   *)

LEMMA L1MonitorStep ==
  ASSUME IInv, L1Monitor
  PROVE  IInv'
<1> USE DEF L1Monitor, chains, l1vars, results, monitor, loop, members, locals, view, budget
<1>1. dbDeposits' \in 0 .. deposits /\ dbDeposits <= dbDeposits'
  BY Numbers
<1>2. TypeOK'
  BY <1>1 DEF IInv, TypeOK
<1>3. DepositsOK'
  <2>1. UNCHANGED <<dbChecked, dbMinted, cpc, myChecked, lastChecked, toCheck>>
    OBVIOUS
  <2>2. dbDeposits' \in Nat /\ dbDeposits <= dbDeposits'
    BY <1>1, Typed
  <2>3. dbChecked <= dbDeposits /\ myChecked <= dbDeposits
    BY DEF IInv, DepositsOK
  <2>4. dbChecked <= dbDeposits' /\ myChecked <= dbDeposits'
    BY <2>2, <2>3, Numbers
  <2> HIDE DEF L1Monitor
  <2> QED
    BY <2>1, <2>4 DEF IInv, DepositsOK
<1> QED
  BY <1>2, <1>3, ChainsFrame, MonitorFrame, LoopFrame, CalmFrame DEF IInv

LEMMA PollStep ==
  ASSUME IInv, Poll
  PROVE  IInv'
<1> USE DEF Poll, chains, l1vars, tables, results, loop, members, locals, view, budget
<1>1. maxHeight' \in Nat
  <2>1. PICK h \in 1 .. l2Height :
          maxHeight' = IF h <= syncedHeight + MAX_BLOCKS THEN h
                       ELSE syncedHeight + MAX_BLOCKS
    OBVIOUS
  <2>2. h \in Nat /\ syncedHeight + MAX_BLOCKS \in Nat
    BY Typed, ChallengerAssumption DEF IInv, TypeOK
  <2> QED
    BY <2>1, <2>2
<1>2. TypeOK'
  BY <1>1 DEF IInv, TypeOK
<1>3. MonitorOK'
  BY DEF IInv, MonitorOK, Labelled, Reached, LastHandled
<1> QED
  BY <1>2, <1>3, ChainsFrame, DepositsFrame, LoopFrame, CalmFrame DEF IInv

(* Every withdrawal that has an index is of an earlier block, or of an     *)
(* earlier event of this one, than the event handled now, which gets the   *)
(* highest index there is.                                                 *)
LEMMA HandleWithdrawalStep ==
  ASSUME IInv, HandleWithdrawal
  PROVE  IInv'
<1> USE DEF chains, l1vars, tables, results, loop, members, locals, view
<1>1. /\ mpc = "block" /\ timeouts' = timeouts /\ faults' \in Nat
      /\ UNCHANGED <<chains, l1vars, tables, results, mpc, syncedHeight,
                     maxHeight, myMinted, loop>>
  BY DEF HandleWithdrawal, InBlock, NoFault, Fault, budget, IInv, TypeOK
<1>2. PICK w \in Unhandled :
        /\ handled' = w
        /\ \/ myIndexOf' = myIndexOf
           \/ /\ dbOutputs # <<>>
              /\ myIndexOf' = [myIndexOf EXCEPT ![w] = WithdrawalIndex]
  BY DEF HandleWithdrawal
<1>3. w \in Withdrawals /\ madeAt[w] = syncedHeight + 1 /\ w > handled
  BY DEF Unhandled, WithdrawalsAt, currentHeight
<1>4. \/ myIndexOf' = myIndexOf
      \/ myIndexOf' = [myIndexOf EXCEPT ![w] = Len(dbOutputs) + 1]
  <2>1. dbOutputs # <<>> => Len(dbOutputs) \in 1 .. Len(dbOutputs)
    BY EmptySeq, Typed DEF IInv, TypeOK
  <2>2. dbOutputs # <<>> => WithdrawalIndex = Len(dbOutputs) + 1
    BY <2>1 DEF WithdrawalIndex, IInv, LoopOK, Rows
  <2> QED
    BY <1>2, <2>2
<1>5. myIndexOf' \in [Withdrawals -> Nat]
  <2>1. myIndexOf \in [Withdrawals -> Nat] /\ Len(dbOutputs) + 1 \in Nat
    BY Sequences, Numbers
  <2> QED
    BY <1>4, <2>1
<1>6. TypeOK'
  <2>1. handled' \in 0 .. MaxWithdrawals /\ timeouts' \in Nat
    BY <1>1, <1>2, <1>3, Sequences DEF IInv, TypeOK
  <2> QED
    BY <1>1, <1>5, <2>1 DEF IInv, TypeOK
<1>7. Labelled(myIndexOf, syncedHeight, handled)
  BY <1>1 DEF IInv, MonitorOK, LastHandled
<1>8. ASSUME NEW u \in Withdrawals, myIndexOf[u] # 0
      PROVE  u < w /\ Reached(u, syncedHeight, w)
  <2>1. Reached(u, syncedHeight, handled)
    BY <1>7, <1>8 DEF Labelled
  <2>2. /\ u \in Nat /\ w \in Nat /\ handled \in Nat /\ syncedHeight \in Nat
        /\ madeAt[u] \in Nat /\ madeAt[w] \in Nat
    BY <1>3, Sequences, Numbers
  <2>3. CASE 1 <= madeAt[u] /\ madeAt[u] <= syncedHeight
    <3>1. ~(w < u) /\ u # w
      BY <1>3, <2>2, <2>3 DEF IInv, ChainsOK
    <3> QED
      BY <2>2, <2>3, <3>1 DEF Reached
  <2>4. CASE madeAt[u] = syncedHeight + 1 /\ u <= handled
    BY <1>3, <2>2, <2>4 DEF Reached
  <2> QED
    BY <2>1, <2>3, <2>4 DEF Reached
<1>9. Labelled(myIndexOf', syncedHeight, w)
  <2>1. CASE myIndexOf' = myIndexOf
    BY <1>7, <1>8, <2>1 DEF Labelled
  <2>2. CASE myIndexOf' = [myIndexOf EXCEPT ![w] = Len(dbOutputs) + 1]
    <3>1. /\ myIndexOf'[w] = Len(dbOutputs) + 1
          /\ \A u \in Withdrawals : u # w => myIndexOf'[u] = myIndexOf[u]
      BY <1>3, <2>2, Sequences
    <3>2. \A u \in Withdrawals : myIndexOf[u] # 0 => myIndexOf[u] <= Len(dbOutputs) + 1
      BY <1>7 DEF Labelled
    <3>3. Reached(w, syncedHeight, w)
      BY <1>3, Sequences DEF Reached
    <3>4. ASSUME NEW u \in Withdrawals, myIndexOf'[u] # 0
          PROVE  Reached(u, syncedHeight, w) /\ myIndexOf'[u] <= Len(dbOutputs) + 1
      <4>1. CASE u = w
        BY <3>1, <3>3, <4>1, Numbers
      <4>2. CASE u # w
        BY <1>8, <3>1, <3>2, <3>4, <4>2
      <4> QED
        BY <4>1, <4>2
    <3>5. ASSUME NEW u \in Withdrawals, NEW v \in Withdrawals, u < v,
                 myIndexOf'[u] # 0, myIndexOf'[v] # 0
          PROVE  myIndexOf'[u] <= myIndexOf'[v]
      <4>1. CASE v = w
        BY <3>1, <3>4, <3>5, <4>1
      <4>2. CASE v # w
        <5>1. myIndexOf[v] # 0 /\ v < w
          BY <1>8, <3>1, <3>5, <4>2
        <5>2. u # w
          BY <1>3, <3>5, <5>1, Sequences
        <5> QED
          BY <1>7, <3>1, <3>5, <4>2, <5>1, <5>2 DEF Labelled
      <4> QED
        BY <4>1, <4>2
    <3> QED
      BY <3>4, <3>5 DEF Labelled
  <2> QED
    BY <1>4, <2>1, <2>2
<1>10. MonitorOK'
  <2>1. Labelled(indexOf, dbHeight, 0)'
    BY <1>1 DEF IInv, MonitorOK, Labelled, Reached
  <2>2. Labelled(myIndexOf, LastHandled, handled)'
    BY <1>1, <1>2, <1>9 DEF LastHandled, Labelled, Reached
  <2> QED
    BY <1>1, <2>1, <2>2 DEF IInv, MonitorOK
<1> QED
  BY <1>1, <1>6, <1>10, ChainsFrame, DepositsFrame, LoopFrame, CalmFrame DEF IInv

(* After its last withdrawal event the block is handled.                   *)
LEMMA HandleBlockStep ==
  ASSUME IInv, HandleBlock
  PROVE  IInv'
<1> USE DEF chains, l1vars, tables, results, loop, members, locals, view
<1>1. /\ mpc = "block" /\ mpc' = mpc
      /\ syncedHeight' = syncedHeight + 1 /\ handled' = 0
      /\ myMinted' = myMinted \cup {d \in 1 .. deposits : mintedAt[d] = syncedHeight + 1}
      /\ UNCHANGED <<chains, l1vars, tables, results, maxHeight, myIndexOf,
                     loop, budget>>
  BY DEF HandleBlock, InBlock, currentHeight
<1>2. TypeOK'
  <2>1. syncedHeight' \in Nat /\ myMinted' \subseteq 1 .. deposits
    <3>1. myMinted \subseteq 1 .. deposits
      BY DEF IInv, TypeOK
    <3>2. syncedHeight' \in Nat
      BY <1>1, Numbers
    <3> QED
      BY <1>1, <3>1, <3>2
  <2>2. handled' \in 0 .. MaxWithdrawals
    BY <1>1, Sequences
  <2> QED
    BY <1>1, <2>1, <2>2 DEF IInv, TypeOK, budget
<1>3. Labelled(myIndexOf, syncedHeight + 1, 0)
  <2>1. Labelled(myIndexOf, syncedHeight, handled)
    BY <1>1 DEF IInv, MonitorOK, LastHandled
  <2>2. ASSUME NEW w \in Withdrawals, Reached(w, syncedHeight, handled)
        PROVE  Reached(w, syncedHeight + 1, 0)
    BY <2>2, Sequences, Numbers DEF Reached
  <2> QED
    BY <2>1, <2>2 DEF Labelled
<1>4. MonitorOK'
  <2>1. \A d \in myMinted' : mintedAt[d] # 0
    BY <1>1, Typed DEF IInv, MonitorOK
  <2>2. Labelled(myIndexOf, LastHandled, handled)'
    BY <1>1, <1>3 DEF Labelled, Reached, LastHandled
  <2>3. Labelled(indexOf, dbHeight, 0)'
    BY <1>1 DEF IInv, MonitorOK, Labelled, Reached
  <2>4. dbHeight <= syncedHeight'
    <3>1. dbHeight <= syncedHeight /\ syncedHeight' = syncedHeight + 1
      BY <1>1 DEF IInv, MonitorOK
    <3> QED
      BY <3>1, Numbers
  <2>5. /\ (mpc = "down" <=> cpc = "down")' /\ (dbMinted \subseteq myMinted)'
    BY <1>1 DEF IInv, MonitorOK
  <2>6. dbHeight' <= syncedHeight' /\ mintedAt' = mintedAt /\ handled' = 0
    BY <1>1, <2>4
  <2> QED
    BY <2>1, <2>2, <2>3, <2>5, <2>6 DEF MonitorOK
<1> QED
  BY <1>1, <1>2, <1>4, ChainsFrame, DepositsFrame, LoopFrame, CalmFrame DEF IInv, budget

LEMMA BlocksDoneStep ==
  ASSUME IInv, BlocksDone
  PROVE  IInv'
<1> USE DEF BlocksDone, Fault, NoFault, chains, l1vars, tables, results, loop,
            members, locals, view, budget
<1>1. TypeOK'
  BY DEF IInv, TypeOK
<1>2. MonitorOK'
  BY DEF IInv, MonitorOK, Labelled, Reached, LastHandled
<1> QED
  BY <1>1, <1>2, ChainsFrame, DepositsFrame, LoopFrame, CalmFrame DEF IInv

LEMMA CommitBlocksStep ==
  ASSUME IInv, CommitBlocks
  PROVE  IInv'
<1> USE DEF CommitBlocks, chains, l1vars, results, loop, members, locals, view, budget
<1>1. dbHeight <= dbHeight' /\ dbMinted \subseteq dbMinted' /\ mpc = "commit"
  BY DEF IInv, MonitorOK
<1>2. TypeOK'
  BY DEF IInv, TypeOK
<1>3. MonitorOK'
  BY Typed DEF IInv, MonitorOK, Labelled, Reached, LastHandled
<1>4. DepositsOK'
  BY <1>1 DEF IInv, DepositsOK
<1>5. LoopOK'
  <2>1. ASSUME NEW t \in Seq(Outputs), NEW n, Rows(t, n)
        PROVE  /\ Len(t) = n - 1 \/ Len(t) = n
               /\ \A i \in 1 .. Len(t) :
                    t[i].index = i /\ t[i].end <= dbHeight' /\ t[i].false = FALSE
    <3>1. \A i \in 1 .. Len(t) : t[i].end \in Nat
      BY OutputFields
    <3>2. dbHeight \in Nat /\ dbHeight' \in Nat
      BY <1>2 DEF IInv, TypeOK
    <3>3. \A i \in 1 .. Len(t) : t[i].end <= dbHeight'
      BY <1>1, <2>1, <3>1, <3>2 DEF Rows
    <3> QED
      BY <2>1, <3>3 DEF Rows
  <2>2. dbOutputs \in Seq(Outputs) /\ myOutputs \in Seq(Outputs)
    BY DEF IInv, TypeOK
  <2>3. Rows(dbOutputs, dbIndex)'
    BY <2>1, <2>2 DEF IInv, LoopOK, Rows
  <2>4. Rows(myOutputs, indexToCheck) => Rows(myOutputs, indexToCheck)'
    BY <2>1, <2>2 DEF Rows
  <2> QED
    BY <2>3, <2>4 DEF IInv, LoopOK, Checking
<1> QED
  BY <1>2, <1>3, <1>4, <1>5, ChainsFrame, CalmFrame DEF IInv

-----------------------------------------------------------------------------
(* Steps of the loop                                                       *)

(* What is left to show of a step that moves the loop's control only.      *)
LEMMA LoopStepFrame ==
  ASSUME IInv, UNCHANGED <<chains, l1vars, tables, monitor, timeouts, dbOutputs>>,
         cpc # "down", cpc' # "down"
  PROVE  ChainsOK' /\ MonitorOK'
  BY ChainsFrame, MonitorFrame DEF chains, l1vars, tables, monitor

LEMMA NextDepositStep ==
  ASSUME IInv, NextDeposit
  PROVE  IInv'
<1> USE DEF NextDeposit, chains, l1vars, tables, results, monitor, locals, view, budget
<1>1. \/ toCheck' = toCheck
      \/ lastChecked = toCheck /\ toCheck' = lastChecked + 1
  <2>1. ASSUME NEW s \in NextSequences
        PROVE  s = toCheck + 1
    <3>1. /\ s \in 1 .. dbDeposits /\ s > toCheck
          /\ \A r \in toCheck + 1 .. dbDeposits : s <= r
      BY DEF NextSequences
    <3>2. toCheck + 1 \in toCheck + 1 .. dbDeposits
      BY <3>1, Numbers
    <3> QED
      BY <3>1, <3>2, Numbers
  <2> QED
    BY <2>1
<1>2. cpc = "deposit" /\ cpc' \in {"contract", "last"}
  OBVIOUS
<1>3. TypeOK'
  BY <1>1, <1>2 DEF IInv, TypeOK
<1>4. DepositsOK'
  BY <1>1, <1>2 DEF IInv, DepositsOK
<1>5. LoopOK'
  BY <1>2 DEF IInv, LoopOK, Rows, Checking
<1>6. CalmOK' /\ FalseOK'
  BY <1>2 DEF IInv, CalmOK, FalseOK, Undisturbed, Matches
<1> QED
  BY <1>2, <1>3, <1>4, <1>5, <1>6, LoopStepFrame DEF IInv

LEMMA ReadLastOutputStep ==
  ASSUME IInv, ReadLastOutput
  PROVE  IInv'
<1> USE DEF ReadLastOutput, chains, l1vars, tables, results, monitor, members, view, budget
<1>1. TypeOK'
  BY Typed DEF IInv, TypeOK
<1>2. DepositsOK'
  BY DEF IInv, DepositsOK
<1>3. LoopOK'
  BY DEF IInv, LoopOK, Rows, Checking
<1>4. CalmOK' /\ FalseOK'
  BY DEF IInv, CalmOK, FalseOK, Undisturbed, Matches
<1> QED
  BY <1>1, <1>2, <1>3, <1>4, LoopStepFrame DEF IInv

(* A deposit that does not match was finalized with other contents.        *)
LEMMA CompareDepositStep ==
  ASSUME IInv, CompareDeposit
  PROVE  IInv'
<1> USE DEF CompareDeposit, chains, l1vars, tables, results, monitor, budget
<1>1. cpc = "match" /\ cpc' \in {"contract", "challenge"}
  OBVIOUS
<1>2. TypeOK'
  BY <1>1 DEF IInv, TypeOK
<1>3. DepositsOK'
  <2>1. \/ UNCHANGED <<lastChecked, myChecked>>
        \/ Comparable /\ lastChecked' = toCheck /\ myChecked' = toCheck
    OBVIOUS
  <2>2. /\ 1 .. myChecked \subseteq dbMinted /\ lastChecked = myChecked
        /\ toCheck = lastChecked \/ toCheck = lastChecked + 1
    BY <1>1 DEF IInv, DepositsOK
  <2>3. Comparable => toCheck <= dbDeposits /\ 1 .. toCheck \subseteq dbMinted
    BY <2>2, Numbers DEF Comparable
  <2> QED
    BY <1>1, <2>1, <2>2, <2>3 DEF IInv, DepositsOK
<1>4. LoopOK'
  BY <1>1 DEF IInv, LoopOK, Rows, Checking
<1>5. Undisturbed => cpc' = "contract"
  BY DEF Comparable, Undisturbed, IInv, MonitorOK
<1>6. CalmOK' /\ FalseOK'
  BY <1>1, <1>5 DEF IInv, CalmOK, FalseOK, Undisturbed, Matches
<1> QED
  BY <1>1, <1>2, <1>3, <1>4, <1>6, LoopStepFrame DEF IInv

LEMMA ReadContractStep ==
  ASSUME IInv, ReadContract
  PROVE  IInv'
<1> USE DEF chains, l1vars, tables, results, monitor, members, view
<1>1. /\ cpc = "contract" /\ cpc' \in {"commit", "range"}
      /\ timeouts' = timeouts /\ faults' \in Nat
      /\ UNCHANGED <<chains, l1vars, tables, results, monitor, members,
                     lastOutput, endBlock, target, view>>
  BY DEF ReadContract, Fault, NoFault, budget, IInv, TypeOK
<1>2. \/ contract' = contract /\ cpc' = "commit"
      \/ contract' = NoOutput
      \/ indexToCheck \in DOMAIN oracle /\ contract' = oracle[indexToCheck]
  BY DEF ReadContract
<1>3. contract' \in Outputs
  <2>1. NoOutput \in Outputs
    BY DEF NoOutput, Outputs
  <2> QED
    BY <1>2, <2>1, Typed, OutputFields DEF IInv, TypeOK
<1>4. TypeOK'
  BY <1>1, <1>3 DEF IInv, TypeOK
<1>5. DepositsOK'
  BY <1>1 DEF IInv, DepositsOK
<1>6. LoopOK'
  BY <1>1 DEF IInv, LoopOK, Rows, Checking
<1>7. CalmOK' /\ FalseOK'
  BY <1>1, <1>2, Typed DEF IInv, CalmOK, FalseOK, Undisturbed, Matches, LoopOK, Checking
<1> QED
  BY <1>1, <1>4, <1>5, <1>6, <1>7, LoopStepFrame DEF IInv

LEMMA ReadRangeStep ==
  ASSUME IInv, ReadRange
  PROVE  IInv'
<1>1. CASE Die
  BY <1>1, EndStep
<1>2. CASE ~Die
  <2> USE <1>2 DEF ReadRange, NoFault, chains, l1vars, tables, results, monitor,
                   members, view, budget
  <2>1. /\ cpc = "range" /\ cpc' = "root" /\ indexToCheck = dbIndex
        /\ indexToCheck \in DOMAIN oracle /\ endBlock' = oracle[indexToCheck].end
    BY DEF IInv, LoopOK, Checking
  <2>2. endBlock' \in Nat
    BY <2>1, Typed, OutputFields DEF IInv, TypeOK
  <2>3. TypeOK'
    BY <2>2 DEF IInv, TypeOK
  <2>4. DepositsOK'
    BY DEF IInv, DepositsOK
  <2>5. LoopOK'
    BY DEF IInv, LoopOK, Rows, Checking
  <2>6. CalmOK' /\ FalseOK'
    BY <2>1 DEF IInv, CalmOK, FalseOK, Undisturbed, Matches
  <2> QED
    BY <2>1, <2>3, <2>4, <2>5, <2>6, LoopStepFrame DEF IInv
<1> QED
  BY <1>1, <1>2

LEMMA Saved ==
  ASSUME NEW t \in Seq(Outputs), NEW n \in Nat \ {0}, NEW o \in Outputs,
         o.index = n, Len(t) = n - 1 \/ Len(t) = n
  PROVE  /\ SaveOutput(t, o) \in Seq(Outputs) /\ Len(SaveOutput(t, o)) = n
         /\ \A i \in 1 .. n - 1 : SaveOutput(t, o)[i] = t[i]
         /\ SaveOutput(t, o)[n] = o
<1>1. Len(t) \in Nat /\ DOMAIN t = 1 .. Len(t)
  BY LenProperties
<1>2. CASE Len(t) = n
  <2>1. SaveOutput(t, o) = [t EXCEPT ![n] = o]
    BY <1>1, <1>2 DEF SaveOutput
  <2> QED
    BY <1>1, <1>2, <2>1, ExceptSeq
<1>3. CASE Len(t) = n - 1
  <2>1. SaveOutput(t, o) = Append(t, o)
    BY <1>1, <1>3 DEF SaveOutput
  <2> QED
    BY <1>1, <1>3, <2>1, Appended
<1> QED
  BY <1>2, <1>3

LEMMA OwnOutputFields ==
  ASSUME IInv
  PROVE  /\ OwnOutput \in Outputs /\ OwnOutput.index = indexToCheck
         /\ OwnOutput.end = endBlock /\ OwnOutput.false = FALSE
         /\ OwnOutput # NoOutput
  BY Typed DEF OwnOutput, Outputs, NoOutput

LEMMA OwnSaved ==
  ASSUME IInv, indexToCheck = dbIndex, Rows(dbOutputs, dbIndex)
  PROVE  /\ SaveOutput(dbOutputs, OwnOutput) \in Seq(Outputs)
         /\ Len(SaveOutput(dbOutputs, OwnOutput)) = dbIndex
         /\ \A i \in 1 .. dbIndex - 1 :
              SaveOutput(dbOutputs, OwnOutput)[i] = dbOutputs[i]
         /\ SaveOutput(dbOutputs, OwnOutput)[dbIndex] = OwnOutput
<1>1. dbOutputs \in Seq(Outputs) /\ dbIndex \in Nat \ {0}
  BY DEF IInv, TypeOK
<1>2. OwnOutput \in Outputs /\ OwnOutput.index = dbIndex
  BY OwnOutputFields
<1>3. Len(dbOutputs) = dbIndex - 1 \/ Len(dbOutputs) = dbIndex
  BY DEF Rows
<1>4. PICK t \in Seq(Outputs), n \in Nat \ {0}, o \in Outputs :
        t = dbOutputs /\ n = dbIndex /\ o = OwnOutput
  BY <1>1, <1>2
<1>5. o.index = n /\ (Len(t) = n - 1 \/ Len(t) = n)
  BY <1>2, <1>3, <1>4
<1>6. /\ SaveOutput(t, o) \in Seq(Outputs) /\ Len(SaveOutput(t, o)) = n
      /\ \A i \in 1 .. n - 1 : SaveOutput(t, o)[i] = t[i]
      /\ SaveOutput(t, o)[n] = o
  BY <1>5, Saved
<1> QED
  BY <1>4, <1>6

(* Without withdrawals two outputs of one index and end differ by their    *)
(* root alone.                                                             *)
LEMMA FalseRoot ==
  ASSUME IInv, Withdrawals = {}, contract \in Outputs,
         contract.index = indexToCheck, contract.end = endBlock, ~RootsMatch
  PROVE  contract.false = TRUE
<1>1. contract = [index |-> contract.index, end |-> contract.end,
                  leaves |-> contract.leaves, false |-> contract.false]
  BY DEF Outputs
<1>2. contract.leaves = {} /\ contract.false \in BOOLEAN
  BY DEF Outputs
<1>3. {w \in Withdrawals : indexOf[w] = indexToCheck} = {}
  OBVIOUS
<1>4. CASE contract.false = FALSE
  <2>1. contract = OwnOutput
    BY <1>1, <1>2, <1>3, <1>4 DEF OwnOutput
  <2> QED
    BY <2>1 DEF RootsMatch
<1> QED
  BY <1>2, <1>4

LEMMA CompareOutputStep ==
  ASSUME IInv, CompareOutput
  PROVE  IInv'
<1> USE DEF chains, l1vars, tables, results, monitor, budget
<1>1. /\ cpc = "root" /\ cpc' \in {"commit", "challenge"}
      /\ contract' = NoOutput /\ endBlock' = 0
      /\ UNCHANGED <<chains, l1vars, tables, results, monitor, lastChecked,
                     toCheck, lastOutput, myChecked, budget>>
  BY DEF CompareOutput
<1>2. indexToCheck = dbIndex /\ myOutputs = dbOutputs /\ Rows(dbOutputs, dbIndex)
  BY <1>1 DEF IInv, LoopOK, Checking
<1>3. \/ cpc' = "commit" /\ UNCHANGED <<myOutputs, indexToCheck, target>>
      \/ /\ endBlock <= dbHeight /\ myOutputs' = SaveOutput(dbOutputs, OwnOutput)
         /\ \/ /\ cpc' = "commit" /\ contract = OwnOutput
               /\ indexToCheck' = dbIndex + 1 /\ UNCHANGED target
            \/ cpc' = "commit" /\ UNCHANGED <<indexToCheck, target>>
            \/ /\ cpc' = "challenge" /\ ~RootsMatch /\ contract # NoOutput
               /\ target' = dbIndex /\ UNCHANGED indexToCheck
  BY <1>2, Typed DEF CompareOutput, HeightReached, RootsMatch
<1>4. dbOutputs \in Seq(Outputs) /\ dbIndex \in Nat \ {0}
  BY DEF IInv, TypeOK
<1> DEFINE s == SaveOutput(dbOutputs, OwnOutput)
<1>5. /\ s \in Seq(Outputs) /\ Len(s) = dbIndex
      /\ \A i \in 1 .. dbIndex - 1 : s[i] = dbOutputs[i]
      /\ s[dbIndex] = OwnOutput
  BY <1>2, OwnSaved
<1>6. endBlock <= dbHeight =>
        \A i \in 1 .. Len(s) : s[i].index = i /\ s[i].end <= dbHeight /\ s[i].false = FALSE
  <2>1. ASSUME endBlock <= dbHeight, NEW i \in 1 .. Len(s)
        PROVE  s[i].index = i /\ s[i].end <= dbHeight /\ s[i].false = FALSE
    <3>1. CASE i = dbIndex
      BY <1>2, <1>5, <2>1, <3>1, OwnOutputFields
    <3>2. CASE i # dbIndex
      <4>1. i \in 1 .. dbIndex - 1 /\ i \in 1 .. Len(dbOutputs)
        BY <1>2, <1>4, <1>5, <3>2 DEF Rows
      <4> QED
        BY <1>2, <1>5, <4>1 DEF Rows
    <3> QED
      BY <3>1, <3>2
  <2> QED
    BY <2>1
<1> HIDE DEF s
<1>7. TypeOK'
  <2>1. myOutputs' \in Seq(Outputs)
    BY <1>2, <1>3, <1>4, <1>5 DEF s
  <2>2. indexToCheck' \in Nat \ {0} /\ target' \in Nat
    BY <1>2, <1>3, <1>4 DEF IInv, TypeOK
  <2>3. NoOutput \in Outputs
    BY DEF NoOutput, Outputs
  <2> QED
    BY <1>1, <2>1, <2>2, <2>3 DEF IInv, TypeOK
<1>8. DepositsOK'
  BY <1>1 DEF IInv, DepositsOK
<1>9. LoopOK'
  <2>1. CASE myOutputs' = dbOutputs /\ indexToCheck' = dbIndex
    <3>1. Rows(dbOutputs, dbIndex)' /\ Rows(myOutputs, indexToCheck)'
      BY <1>1, <1>2, <2>1 DEF Rows
    <3>2. Len(dbOutputs') <= Len(myOutputs')
      BY <1>1, <2>1, Typed
    <3> QED
      BY <1>1, <3>1, <3>2 DEF LoopOK, Checking
  <2>2. CASE /\ endBlock <= dbHeight /\ myOutputs' = s
             /\ indexToCheck' = dbIndex \/ indexToCheck' = dbIndex + 1
    <3>1. Rows(dbOutputs, dbIndex)'
      BY <1>1, <1>2 DEF Rows
    <3>2. Rows(myOutputs, indexToCheck)'
      BY <1>1, <1>4, <1>5, <1>6, <2>2 DEF Rows
    <3>3. Len(dbOutputs') <= Len(myOutputs')
      BY <1>1, <1>2, <1>4, <1>5, <2>2 DEF Rows
    <3> QED
      BY <1>1, <3>1, <3>2, <3>3 DEF LoopOK, Checking
  <2> QED
    BY <1>2, <1>3, <2>1, <2>2 DEF s
<1>10. Undisturbed' => Undisturbed
  BY <1>1 DEF Undisturbed
<1>11. Undisturbed => Matches(dbOutputs, dbIndex) /\ tx = 0
  BY <1>1 DEF IInv, CalmOK
<1>12. Undisturbed /\ contract # NoOutput =>
         /\ dbIndex \in 1 .. Len(oracle) /\ contract = oracle[dbIndex]
         /\ endBlock = contract.end
  BY <1>1 DEF IInv, CalmOK
<1>13. CalmOK'
  <2> SUFFICES ASSUME Undisturbed
               PROVE  /\ Matches(dbOutputs, dbIndex)'
                      /\ cpc' = "commit" => Matches(myOutputs, indexToCheck)'
                      /\ cpc' = "challenge" => target' = dbIndex
    BY <1>1, <1>10, <1>11 DEF CalmOK
  <2>1. Matches(dbOutputs, dbIndex)'
    BY <1>1, <1>11 DEF Matches
  <2>2. cpc' = "challenge" => target' = dbIndex
    BY <1>3
  <2>3. ASSUME cpc' = "commit" PROVE Matches(myOutputs, indexToCheck)'
    <3>1. CASE UNCHANGED <<myOutputs, indexToCheck>>
      BY <1>1, <1>2, <1>11, <3>1 DEF Matches
    <3>2. CASE myOutputs' = s /\ indexToCheck' = dbIndex
      BY <1>1, <1>5, <1>11, <3>2 DEF Matches
    <3>3. CASE myOutputs' = s /\ indexToCheck' = dbIndex + 1 /\ contract = OwnOutput
      <4>1. dbIndex \in 1 .. Len(oracle) /\ oracle[dbIndex] = s[dbIndex]
        BY <1>5, <1>12, <3>3, OwnOutputFields
      <4>2. ASSUME NEW i \in 1 .. dbIndex
            PROVE  i \in 1 .. Len(oracle) /\ oracle[i] = s[i]
        <5>1. CASE i = dbIndex
          BY <4>1, <5>1
        <5>2. CASE i # dbIndex
          <6>1. i \in 1 .. dbIndex - 1
            BY <1>4, <5>2
          <6> QED
            BY <1>5, <1>11, <6>1 DEF Matches
        <5> QED
          BY <5>1, <5>2
      <4>3. \A i \in 1 .. indexToCheck' - 1 : i \in 1 .. dbIndex
        BY <1>4, <3>3
      <4> QED
        BY <1>1, <3>3, <4>2, <4>3 DEF Matches
    <3> QED
      BY <1>2, <1>3, <2>3, <3>1, <3>2, <3>3 DEF s
  <2> QED
    BY <2>1, <2>2, <2>3
<1>14. FalseOK'
  <2> SUFFICES ASSUME Undisturbed, Withdrawals = {}, cpc' = "challenge"
               PROVE  dbIndex \in 1 .. Len(oracle) /\ oracle[dbIndex].false = TRUE
    BY <1>1, <1>10, <1>11 DEF FalseOK
  <2>1. ~RootsMatch /\ contract # NoOutput
    BY <1>3
  <2>2. contract = oracle[dbIndex] /\ endBlock = contract.end
        /\ dbIndex \in 1 .. Len(oracle)
    BY <1>12, <2>1
  <2>3. contract \in Outputs /\ contract.index = indexToCheck
    BY <1>2, <2>2 DEF IInv, TypeOK, ChainsOK
  <2> QED
    BY <2>1, <2>2, <2>3, FalseRoot
<1> QED
  BY <1>1, <1>7, <1>8, <1>9, <1>13, <1>14, LoopStepFrame DEF IInv

LEMMA CommitLoopStep ==
  ASSUME IInv, CommitLoop
  PROVE  IInv'
<1> USE DEF CommitLoop, chains, l1vars, tables, monitor, members, locals, view, budget
<1>1. /\ cpc = "commit" /\ Rows(myOutputs, indexToCheck)
      /\ Len(dbOutputs) <= Len(myOutputs)
  BY DEF IInv, LoopOK
<1>2. TypeOK'
  BY Typed DEF IInv, TypeOK, DepositsOK
<1>3. MonitorOK'
  <2>1. ASSUME NEW ix \in [Withdrawals -> Nat], NEW h, NEW p, Labelled(ix, h, p)
        PROVE  \A w \in Withdrawals : ix[w] # 0 => ix[w] <= Len(myOutputs) + 1
    BY <1>1, <2>1, Numbers DEF Labelled
  <2>2. Labelled(indexOf, dbHeight, 0) /\ Labelled(myIndexOf, LastHandled, handled)
    BY DEF IInv, MonitorOK
  <2>3. /\ \A w \in Withdrawals : indexOf[w] # 0 => indexOf[w] <= Len(myOutputs) + 1
        /\ \A w \in Withdrawals : myIndexOf[w] # 0 => myIndexOf[w] <= Len(myOutputs) + 1
    BY <2>1, <2>2, Sequences
  <2>4. /\ UNCHANGED <<indexOf, myIndexOf, madeAt, dbHeight, LastHandled, handled>>
        /\ dbOutputs' = myOutputs
    BY DEF LastHandled
  <2> HIDE DEF CommitLoop
  <2>5. Labelled(indexOf, dbHeight, 0)'
    BY <2>2, <2>3, <2>4 DEF Labelled, Reached
  <2>6. Labelled(myIndexOf, LastHandled, handled)'
    BY <2>2, <2>3, <2>4 DEF Labelled, Reached
  <2> USE DEF CommitLoop
  <2> QED
    BY <2>5, <2>6 DEF IInv, MonitorOK
<1>4. DepositsOK'
  BY DEF IInv, DepositsOK
<1>5. LoopOK'
  <2>1. Rows(dbOutputs, dbIndex)'
    BY <1>1 DEF Rows
  <2>2. (myOutputs = dbOutputs)' /\ (indexToCheck = dbIndex)' /\ cpc' = "deposit"
    OBVIOUS
  <2> QED
    BY <2>1, <2>2 DEF LoopOK
<1>6. Undisturbed' => Undisturbed /\ tx = 0 /\ Matches(myOutputs, indexToCheck)
  BY DEF Undisturbed, IInv, CalmOK
<1>7. CalmOK' /\ FalseOK'
  BY <1>6 DEF CalmOK, FalseOK, Matches
<1> QED
  BY <1>2, <1>3, <1>4, <1>5, <1>7, ChainsFrame DEF IInv

LEMMA SendDeleteStep ==
  ASSUME IInv, SendDelete
  PROVE  IInv'
<1> USE DEF SendDelete, chains, tables, results, monitor, members, view, budget
<1>1. TypeOK'
  BY DEF IInv, TypeOK
<1>2. DepositsOK'
  BY DEF IInv, DepositsOK
<1>3. LoopOK'
  BY DEF IInv, LoopOK, Rows, Checking
<1>4. Undisturbed' => Undisturbed /\ target = dbIndex
  BY DEF Undisturbed, IInv, CalmOK
<1>5. CalmOK' /\ FalseOK'
  BY <1>4 DEF IInv, CalmOK, FalseOK, Matches
<1> QED
  BY <1>1, <1>2, <1>3, <1>5, ChainsFrame, MonitorFrame DEF IInv

-----------------------------------------------------------------------------
LEMMA NextOK == IInv /\ [Next]_vars => IInv'
<1> SUFFICES ASSUME IInv, [Next]_vars PROVE IInv'
  OBVIOUS
<1>1. CASE NewDeposit \/ NewL2Block \/ Propose \/ Deliver
  BY <1>1, NewDepositStep, NewL2BlockStep, ProposeStep, DeliverStep
<1>2. CASE Crash \/ Timeout \/ Start \/ Exit
  BY <1>2, EndStep, StartStep
<1>3. CASE \/ L1Monitor \/ Poll \/ HandleWithdrawal \/ HandleBlock
           \/ BlocksDone \/ CommitBlocks
  BY <1>3, L1MonitorStep, PollStep, HandleWithdrawalStep, HandleBlockStep,
     BlocksDoneStep, CommitBlocksStep
<1>4. CASE NextDeposit \/ ReadLastOutput \/ CompareDeposit
  BY <1>4, NextDepositStep, ReadLastOutputStep, CompareDepositStep
<1>5. CASE ReadContract \/ ReadRange \/ CompareOutput \/ CommitLoop \/ SendDelete
  BY <1>5, ReadContractStep, ReadRangeStep, CompareOutputStep, CommitLoopStep,
     SendDeleteStep
<1>6. CASE UNCHANGED vars
  <2> USE <1>6 DEF vars, chains, l1vars, tables, results, monitor, loop, members,
                   locals, view, budget
  <2>1. TypeOK'
    BY DEF IInv, TypeOK
  <2>2. ChainsOK' /\ MonitorOK'
    BY ChainsFrame, MonitorFrame
  <2>3. DepositsOK' /\ LoopOK'
    BY DepositsFrame, LoopFrame
  <2>4. CalmOK' /\ FalseOK'
    BY CalmFrame
  <2> QED
    BY <2>1, <2>2, <2>3, <2>4 DEF IInv
<1> QED
  BY <1>1, <1>2, <1>3, <1>4, <1>5, <1>6 DEF Next, L2Monitor, Challenge, PollNothing

(* The inductive invariant holds in every behaviour.                       *)
THEOREM Invariance == Spec => []IInv
  BY InitOK, NextOK, PTL DEF Spec

(* Every variable has its type.                                            *)
THEOREM TypeCorrect == Spec => []TypeOK
<1>1. IInv => TypeOK
  BY DEF IInv
<1> QED
  BY <1>1, Invariance, PTL

(* While every deletion is awaited and every deposit is finalized as it    *)
(* was made, the outputs below the challenger's index are on L1, as the    *)
(* challenger computed them (challengeOutputRoot).                         *)
THEOREM PassedStaysOnL1 == Spec => []PassedIsOnL1
<1>1. IInv => PassedIsOnL1
  <2> SUFFICES ASSUME IInv, Undisturbed, NEW i \in 1 .. dbIndex - 1
               PROVE  /\ i \in DOMAIN oracle /\ i \in DOMAIN dbOutputs
                      /\ oracle[i] = dbOutputs[i]
    BY DEF PassedIsOnL1
  <2>1. Matches(dbOutputs, dbIndex) /\ Rows(dbOutputs, dbIndex)
    BY DEF IInv, CalmOK, LoopOK
  <2>2. i \in 1 .. Len(dbOutputs) /\ i \in 1 .. Len(oracle) /\ oracle[i] = dbOutputs[i]
    BY <2>1, Numbers DEF Matches, Rows
  <2> QED
    BY <2>2, Typed
<1> QED
  BY <1>1, Invariance, PTL

(* The table of outputs holds one row per index passed and at most one     *)
(* more, each of blocks the L2 monitor has committed.                      *)
THEOREM RowsFollowIndex == Spec => []OutputsMatchIndex
<1>1. IInv => OutputsMatchIndex
  BY DEF IInv, LoopOK, Rows, OutputsMatchIndex
<1> QED
  BY <1>1, Invariance, PTL

(* Withdrawals are put under outputs in the order they were made, and      *)
(* never beyond the next output (handleInitiateTokenWithdrawalEvent).      *)
THEOREM IndexOrder == Spec => []IndexesInOrder
<1>1. IInv => IndexesInOrder
  <2> SUFFICES ASSUME IInv PROVE IndexesInOrder
    OBVIOUS
  <2>1. \A w \in Withdrawals : indexOf[w] <= Len(dbOutputs) + 1
    BY Typed DEF IInv, TypeOK, MonitorOK, Labelled
  <2> QED
    BY <2>1 DEF IInv, MonitorOK, Labelled, IndexesInOrder
<1> QED
  BY <1>1, Invariance, PTL

(* Every deposit up to the last one checked is known to be finalized       *)
(* (challengeDepositTx), whatever disturbs the loop.                       *)
THEOREM ChecksWait == Spec => []CheckedIsFinalized
<1>1. IInv => CheckedIsFinalized
  BY DEF IInv, DepositsOK, CheckedIsFinalized
<1> QED
  BY <1>1, Invariance, PTL

(* No output with a false root is ever passed while nothing disturbs the   *)
(* loop, for every number of outputs, crashes and withdrawals.             *)
THEOREM NoFalsePassed == Spec => [](Undisturbed => FalseNeverPassed)
<1>1. IInv => (Undisturbed => FalseNeverPassed)
  <2> SUFFICES ASSUME IInv, Undisturbed, NEW i \in 1 .. Len(oracle),
                      oracle[i].false, i < dbIndex
               PROVE  FALSE
    BY Numbers DEF FalseNeverPassed
  <2>1. Matches(dbOutputs, dbIndex) /\ Rows(dbOutputs, dbIndex)
    BY DEF IInv, CalmOK, LoopOK
  <2>2. i \in 1 .. dbIndex - 1 /\ i \in 1 .. Len(dbOutputs)
    BY <2>1, Numbers DEF Rows
  <2>3. oracle[i] = dbOutputs[i] /\ dbOutputs[i].false = FALSE
    BY <2>1, <2>2 DEF Matches, Rows
  <2> QED
    BY <2>3
<1> QED
  BY <1>1, Invariance, PTL

(* Without withdrawals, with every deletion awaited and no deposit changed,*)
(* only outputs with a false root are deleted (README.md:202).  With       *)
(* withdrawals the challenger deletes valid ones too, see the README.      *)
THEOREM DeletesSound ==
  ASSUME Withdrawals = {}, Corrupted = {}, MaxTimeouts = 0
  PROVE  Spec => DeletesOnlyInvalid
<1>1. IInv /\ [Next]_vars =>
        [Len(oracle') < Len(oracle) => oracle[Len(oracle') + 1].false]_vars
  <2> SUFFICES ASSUME IInv, Next, Len(oracle') < Len(oracle)
               PROVE  oracle[Len(oracle') + 1].false
    OBVIOUS
  <2>1. Undisturbed
    BY DEF IInv, TypeOK, ChainsOK, Undisturbed
  <2>2. CASE Deliver
    <3>1. tx # 0 /\ tx = dbIndex
      BY <2>1, <2>2 DEF Deliver, IInv, CalmOK
    <3>2. dbIndex \in 1 .. Len(oracle) /\ oracle[dbIndex].false = TRUE
      BY <2>1, <3>1 DEF IInv, FalseOK
    <3>3. oracle' = SubSeq(oracle, 1, dbIndex - 1)
      BY <2>2, <3>1, <3>2, Typed DEF Deliver
    <3>4. Len(oracle') = dbIndex - 1
      BY <3>2, <3>3, Typed, SubSeqProperties, OutputFields DEF IInv, TypeOK
    <3> QED
      BY <3>2, <3>4, Typed
  <2>3. CASE Propose
    <3>1. \E o : oracle' = Append(oracle, o)
      BY <2>3 DEF Propose
    <3>2. Len(oracle') = Len(oracle) + 1
      BY <3>1, AppendProperties DEF IInv, TypeOK
    <3> QED
      BY <3>2, Typed
  <2>4. CASE ~Deliver /\ ~Propose
    <3>1. oracle' = oracle
      BY <2>4 DEF Next, NewDeposit, NewL2Block, Crash, Timeout, Exit, Die, Start,
         L1Monitor, L2Monitor, Poll, PollNothing, HandleWithdrawal,
     HandleBlock, BlocksDone,
         CommitBlocks, Challenge, NextDeposit, ReadLastOutput, CompareDeposit,
         ReadContract, ReadRange, CompareOutput, CommitLoop, SendDelete, vars, l1vars
    <3> QED
      BY <3>1, Typed
  <2> QED
    BY <2>2, <2>3, <2>4
<1> QED
  BY <1>1, Invariance, PTL DEF Spec, DeletesOnlyInvalid

-----------------------------------------------------------------------------
(* The challenger implements ChallengePromise                              *)

(* What the loop is about to commit: at most one output more is passed,    *)
(* and the rows of those passed before are as they are.                    *)
PassOK ==
  cpc = "commit" =>
    /\ indexToCheck = dbIndex \/ indexToCheck = dbIndex + 1
    /\ \A i \in 1 .. dbIndex - 1 : myOutputs[i] = dbOutputs[i]

(* Nothing but a proposal, a deletion and a commit of the loop is seen.    *)
LEMMA Unseen ==
  ASSUME IInv, Next, ~Propose, ~Deliver, ~CommitLoop
  PROVE  oracle' = oracle /\ dbOutputs' = dbOutputs /\ dbIndex' = dbIndex
  BY DEF Next, NewDeposit, NewL2Block, Crash, Timeout, Exit, Die, Start,
     L1Monitor, L2Monitor, Poll, PollNothing, HandleWithdrawal,
     HandleBlock, BlocksDone,
     CommitBlocks, Challenge, NextDeposit, ReadLastOutput, CompareDeposit,
     ReadContract, ReadRange, CompareOutput, SendDelete, vars, l1vars, results

(* The loop comes to its commit from a check that did not challenge.       *)
LEMMA ToCommit ==
  ASSUME IInv, Next, cpc' = "commit", cpc # "commit"
  PROVE  ReadContract \/ CompareOutput
  BY DEF Next, NewDeposit, NewL2Block, Propose, Deliver, Crash, Timeout, Exit,
     Die, Start, L1Monitor, L2Monitor, Poll, PollNothing, HandleWithdrawal, HandleBlock,
     BlocksDone, CommitBlocks, Challenge, NextDeposit, ReadLastOutput,
     CompareDeposit, ReadRange, CommitLoop, SendDelete, vars, loop

(* At its commit it stays until it commits or dies.                        *)
LEMMA AtCommit ==
  ASSUME IInv, Next, cpc' = "commit", cpc = "commit"
  PROVE  UNCHANGED <<results, members, view>>
  BY DEF Next, NewDeposit, NewL2Block, Propose, Deliver, Crash, Timeout, Exit,
     Die, Start, Up, L1Monitor, L2Monitor, Poll, PollNothing, HandleWithdrawal, HandleBlock,
     BlocksDone, CommitBlocks, Challenge, NextDeposit, ReadLastOutput,
     CompareDeposit, ReadContract, ReadRange, CompareOutput, CommitLoop,
     SendDelete, vars, loop

LEMMA PassStep ==
  ASSUME IInv, PassOK, [Next]_vars
  PROVE  PassOK'
<1>1. CASE UNCHANGED vars
  BY <1>1 DEF PassOK, vars, loop, results, members, view
<1>2. CASE Next /\ cpc' = "commit" /\ cpc = "commit"
  BY <1>2, AtCommit DEF PassOK, results, members, view
<1>3. CASE Next /\ cpc' = "commit" /\ cpc # "commit"
  <2>1. CASE ReadContract
    <3>1. /\ indexToCheck' = indexToCheck /\ myOutputs' = myOutputs
          /\ dbIndex' = dbIndex /\ dbOutputs' = dbOutputs /\ cpc = "contract"
      BY <2>1 DEF ReadContract, members, view, results
    <3>2. indexToCheck = dbIndex /\ myOutputs = dbOutputs
      BY <3>1 DEF IInv, LoopOK, Checking
    <3> QED
      BY <3>1, <3>2 DEF PassOK
  <2>2. CASE CompareOutput
    <3>1. /\ cpc = "root" /\ dbIndex' = dbIndex /\ dbOutputs' = dbOutputs
          /\ indexToCheck' = indexToCheck \/ indexToCheck' = indexToCheck + 1
          /\ \/ myOutputs' = myOutputs
             \/ myOutputs' = SaveOutput(myOutputs, OwnOutput)
      BY <1>3, <2>2 DEF CompareOutput, results
    <3>2. indexToCheck = dbIndex /\ myOutputs = dbOutputs /\ Rows(dbOutputs, dbIndex)
      BY <3>1 DEF IInv, LoopOK, Checking
    <3>3. \A i \in 1 .. dbIndex - 1 : myOutputs'[i] = dbOutputs[i]
      BY <3>1, <3>2, OwnSaved
    <3> QED
      BY <3>1, <3>2, <3>3 DEF PassOK
  <2> QED
    BY <1>3, <2>1, <2>2, ToCommit
<1>4. CASE cpc' # "commit"
  BY <1>4 DEF PassOK
<1> QED
  BY <1>1, <1>2, <1>3, <1>4

LEMMA PassInvariant == Spec => [](IInv /\ PassOK)
<1>1. Init => PassOK
  BY DEF Init, PassOK
<1> QED
  BY <1>1, InitOK, NextOK, PassStep, PTL DEF Spec

(* Once disturbed, disturbed for good.                                     *)
LEMMA StaysDisturbed ==
  ASSUME IInv, Next, Undisturbed'
  PROVE  Undisturbed
<1>1. timeouts' = timeouts \/ timeouts' = timeouts + 1
  BY DEF Next, NewDeposit, NewL2Block, Propose, Deliver, Crash, Timeout, Exit,
     Start, L1Monitor, L2Monitor, Poll, PollNothing, HandleWithdrawal,
     HandleBlock, BlocksDone,
     CommitBlocks, Challenge, NextDeposit, ReadLastOutput, CompareDeposit,
     ReadContract, ReadRange, CompareOutput, CommitLoop, SendDelete, vars,
     Fault, NoFault, budget
<1>2. timeouts = 0
  BY <1>1 DEF Undisturbed, IInv, TypeOK
<1>3. CASE NewL2Block
  <2>1. /\ mintedAt \in [1 .. MaxDeposits -> Nat]
        /\ l2Height + 1 # 0
    BY DEF IInv, TypeOK
  <2>2. \A d \in 1 .. MaxDeposits : mintedAt[d] # 0 => mintedAt'[d] # 0
    BY <1>3, <2>1 DEF NewL2Block
  <2> QED
    BY <1>2, <2>2, ChallengerAssumption DEF Undisturbed
<1>4. CASE ~NewL2Block
  <2>1. mintedAt' = mintedAt
    BY <1>4 DEF Next, NewDeposit, Propose, Deliver, Crash, Timeout, Exit, Die,
       Start, L1Monitor, L2Monitor, Poll, PollNothing, HandleWithdrawal,
     HandleBlock, BlocksDone,
       CommitBlocks, Challenge, NextDeposit, ReadLastOutput, CompareDeposit,
       ReadContract, ReadRange, CompareOutput, CommitLoop, SendDelete, vars,
       chains
  <2> QED
    BY <1>2, <2>1 DEF Undisturbed
<1> QED
  BY <1>3, <1>4

LEMMA PassedType ==
  ASSUME IInv
  PROVE  /\ Passed \in Seq(Outputs) /\ Len(Passed) = dbIndex - 1
         /\ \A i \in 1 .. dbIndex - 1 : Passed[i] = dbOutputs[i]
<1>1. dbIndex - 1 \in Nat /\ dbIndex - 1 <= Len(dbOutputs)
  BY Numbers DEF IInv, TypeOK, LoopOK, Rows
<1>2. \A i \in 1 .. dbIndex - 1 : dbOutputs[i] \in Outputs
  <2>1. \A i \in 1 .. Len(dbOutputs) : dbOutputs[i] \in Outputs
    BY OutputFields DEF IInv, TypeOK
  <2> QED
    BY <1>1, <2>1, Numbers
<1> QED
  BY <1>1, <1>2, IsASeq, LenProperties DEF Passed

LEMMA ProposeKept ==
  ASSUME IInv, Propose
  PROVE  Promise!Propose
<1>1. PICK o : oracle' = Append(oracle, o)
  BY DEF Propose
<1>2. UNCHANGED <<dbIndex, dbOutputs, timeouts, mintedAt>>
  BY DEF Propose, results, budget, chains
<1>3. oracle' = Append(oracle, oracle'[Len(oracle')]) /\ Len(oracle') = Len(oracle) + 1
  BY <1>1, Numbers, AppendProperties DEF IInv, TypeOK
<1>4. Passed' = Passed /\ (~Undisturbed)' = ~Undisturbed
  BY <1>2 DEF Passed, Undisturbed
<1> QED
  BY <1>3, <1>4 DEF Promise!Propose, Promise!OneMore

(* An awaited deletion is of the output that is next: it leaves on L1 what *)
(* was passed.                                                             *)
LEMMA DeliverKept ==
  ASSUME IInv, Deliver
  PROVE  [Promise!CNext]_(Promise!cvars)
<1>1. /\ tx # 0
      /\ oracle' = IF tx \in DOMAIN oracle THEN SubSeq(oracle, 1, tx - 1) ELSE oracle
      /\ UNCHANGED <<dbIndex, dbOutputs, timeouts, mintedAt>>
  BY DEF Deliver, results, budget, chains
<1>2. Passed' = Passed /\ (~Undisturbed)' = ~Undisturbed
  BY <1>1 DEF Passed, Undisturbed
<1>3. DOMAIN oracle = 1 .. Len(oracle) /\ Len(oracle) \in Nat /\ dbIndex \in Nat \ {0}
  BY Typed
<1>4. Len(Passed) = dbIndex - 1
  BY PassedType
<1>5. CASE tx \notin DOMAIN oracle
  BY <1>1, <1>2, <1>5 DEF Promise!cvars
<1>6. CASE tx \in DOMAIN oracle /\ ~Undisturbed
  <2>1. tx \in 1 .. Len(oracle) /\ oracle' = SubSeq(oracle, 1, tx - 1)
    BY <1>1, <1>3, <1>6
  <2>2. Promise!LateDelete
    BY <1>2, <1>6, <2>1 DEF Promise!LateDelete
  <2> QED
    BY <2>2 DEF Promise!CNext
<1>7. CASE tx \in DOMAIN oracle /\ Undisturbed
  <2>1. tx = dbIndex /\ Matches(dbOutputs, dbIndex)
    BY <1>1, <1>7 DEF IInv, CalmOK
  <2>2. dbIndex \in 1 .. Len(oracle) /\ oracle' = SubSeq(oracle, 1, dbIndex - 1)
    BY <1>1, <1>3, <1>7, <2>1
  <2>3. \A i \in 1 .. dbIndex - 1 : oracle[i] \in Outputs
    BY <1>3, <2>2, OutputFields DEF IInv, TypeOK
  <2>4. /\ oracle' \in Seq(Outputs) /\ Len(oracle') = dbIndex - 1
        /\ \A i \in 1 .. dbIndex - 1 : oracle'[i] = oracle[i]
    BY <1>3, <2>2, <2>3, SubSeqProperties DEF IInv, TypeOK
  <2>5. \A i \in 1 .. dbIndex - 1 : oracle'[i] = Passed[i]
    BY <2>1, <2>4, PassedType DEF Matches
  <2>6. oracle' = Passed
    BY <1>4, <2>4, <2>5, PassedType, SeqEqual
  <2>7. Len(Passed) + 1 = dbIndex
    BY <1>3, <1>4
  <2>8. Promise!Delete
    BY <1>2, <1>7, <2>2, <2>6, <2>7 DEF Promise!Delete, Promise!Due
  <2> QED
    BY <2>8 DEF Promise!CNext
<1> QED
  BY <1>5, <1>6, <1>7

(* One turn of the loop passes at most one output, the one that is next:   *)
(* while undisturbed the one L1 still holds.                               *)
LEMMA CommitKept ==
  ASSUME IInv, PassOK, CommitLoop
  PROVE  [Promise!CNext]_(Promise!cvars)
<1>1. /\ cpc = "commit" /\ dbOutputs' = myOutputs /\ dbIndex' = indexToCheck
      /\ UNCHANGED <<oracle, timeouts, mintedAt>>
  BY DEF CommitLoop, l1vars, budget, chains
<1>2. (~Undisturbed)' = ~Undisturbed
  BY <1>1 DEF Undisturbed
<1>3. dbIndex \in Nat \ {0} /\ Len(oracle) \in Nat
  BY Typed
<1>4. /\ indexToCheck = dbIndex \/ indexToCheck = dbIndex + 1
      /\ \A i \in 1 .. dbIndex - 1 : myOutputs[i] = dbOutputs[i]
  BY <1>1 DEF PassOK
<1>5. Rows(myOutputs, indexToCheck)
  BY <1>1 DEF IInv, LoopOK
<1>6. CASE indexToCheck = dbIndex
  <2>1. Passed' = Passed
    BY <1>1, <1>4, <1>6 DEF Passed
  <2> QED
    BY <1>1, <1>2, <2>1 DEF Promise!cvars
<1>7. CASE indexToCheck = dbIndex + 1
  <2> DEFINE o == myOutputs[dbIndex]
  <2>1. dbIndex \in 1 .. Len(myOutputs) /\ o.index = dbIndex /\ o.false = FALSE
    BY <1>3, <1>5, <1>7, Numbers DEF Rows
  <2>2. o \in Outputs
    BY <2>1, OutputFields DEF IInv, TypeOK
  <2>3. /\ Passed \in Seq(Outputs) /\ Len(Passed) = dbIndex - 1
        /\ \A i \in 1 .. dbIndex - 1 : Passed[i] = dbOutputs[i]
    BY PassedType
  <2>4. Passed' = [i \in 1 .. dbIndex |-> myOutputs[i]]
    <3>1. (dbIndex + 1) - 1 = dbIndex
      BY <1>3
    <3> QED
      BY <1>1, <1>7, <3>1 DEF Passed
  <2> HIDE DEF o
  <2>5. /\ Append(Passed, o) \in Seq(Outputs) /\ Len(Append(Passed, o)) = dbIndex
        /\ \A i \in 1 .. dbIndex - 1 : Append(Passed, o)[i] = Passed[i]
        /\ Append(Passed, o)[dbIndex] = o
    <3>1. (dbIndex - 1) + 1 = dbIndex
      BY <1>3
    <3> QED
      BY <2>2, <2>3, <3>1, Appended
  <2>6. Passed' = Append(Passed, o)
    <3>1. ASSUME NEW i \in 1 .. dbIndex
          PROVE  myOutputs[i] = Append(Passed, o)[i]
      <4>1. CASE i = dbIndex
        BY <2>5, <4>1 DEF o
      <4>2. CASE i # dbIndex
        <5>1. i \in 1 .. dbIndex - 1
          BY <1>3, <4>2
        <5> QED
          BY <1>4, <2>3, <2>5, <5>1
      <4> QED
        BY <4>1, <4>2
    <3>2. \A i \in 1 .. dbIndex : myOutputs[i] \in Outputs
      BY <2>5, <3>1, ElementOfSeq
    <3>3. Passed' \in Seq(Outputs) /\ Len(Passed') = dbIndex
      BY <1>3, <2>4, <3>2, IsASeq, LenProperties
    <3>4. \A i \in 1 .. dbIndex : Passed'[i] = Append(Passed, o)[i]
      BY <2>4, <3>1
    <3> QED
      BY <2>5, <3>3, <3>4, SeqEqual
  <2>7. Len(Passed) + 1 = dbIndex
    BY <1>3, <2>3
  <2>8. CASE Undisturbed
    <3>1. Matches(myOutputs, indexToCheck)
      BY <1>1, <2>8 DEF IInv, CalmOK
    <3>2. dbIndex \in 1 .. Len(oracle) /\ oracle[dbIndex] = o
      BY <1>3, <1>7, <3>1 DEF Matches, o
    <3>3. ~o.false
      BY <2>1 DEF o
    <3>4. Promise!Pass
      BY <1>1, <1>2, <2>6, <2>7, <2>8, <3>2, <3>3 DEF Promise!Pass, Promise!Due
    <3> QED
      BY <3>4 DEF Promise!CNext
  <2>9. CASE ~Undisturbed
    <3>1. Len(Passed') = dbIndex /\ Passed'[dbIndex] = o
      BY <2>5, <2>6
    <3>2. o.index = dbIndex /\ ~o.false
      BY <2>1 DEF o
    <3>3. Promise!OneMore(Passed, Passed')
      BY <2>6, <2>7, <3>1 DEF Promise!OneMore
    <3>4. Promise!LatePass
      BY <1>1, <1>2, <2>7, <2>9, <3>1, <3>2, <3>3
         DEF Promise!LatePass, Promise!Due
    <3> QED
      BY <3>4 DEF Promise!CNext
  <2> QED
    BY <2>8, <2>9
<1> QED
  BY <1>4, <1>6, <1>7

(* Challenger implements ChallengePromise: outputs are passed one by one   *)
(* and for good, none with a false root, and what an awaited challenge     *)
(* deletes is never passed; for every number of outputs, withdrawals,      *)
(* crashes and disturbances.                                               *)
THEOREM ChallengeKept == Spec => KeepsChallenge
<1>1. Init => Promise!CInit
  <2> SUFFICES ASSUME Init
               PROVE  Promise!CInit
    OBVIOUS
  <2>1. oracle = <<>> /\ Undisturbed
    BY ChallengerAssumption DEF Init, Undisturbed
  <2>2. Passed = <<>>
    <3>1. IInv /\ dbIndex - 1 = 0
      BY InitOK DEF Init
    <3> QED
      BY <3>1, PassedType, EmptySeq
  <2> QED
    BY <2>1, <2>2 DEF Promise!CInit
<1>2. IInv /\ PassOK /\ [Next]_vars => [Promise!CNext]_(Promise!cvars)
  <2> SUFFICES ASSUME IInv, PassOK, [Next]_vars
               PROVE  [Promise!CNext]_(Promise!cvars)
    OBVIOUS
  <2>1. CASE UNCHANGED vars
    <3>1. UNCHANGED <<oracle, dbIndex, dbOutputs, timeouts, mintedAt>>
      BY <2>1 DEF vars, chains, l1vars, results, budget
    <3>2. Passed' = Passed /\ (~Undisturbed)' = ~Undisturbed
      BY <3>1 DEF Passed, Undisturbed
    <3> QED
      BY <3>1, <3>2 DEF Promise!cvars
  <2>2. CASE Propose
    BY <2>2, ProposeKept DEF Promise!CNext
  <2>3. CASE Deliver
    BY <2>3, DeliverKept
  <2>4. CASE CommitLoop
    BY <2>4, CommitKept
  <2>5. CASE Next /\ ~Propose /\ ~Deliver /\ ~CommitLoop
    <3>1. oracle' = oracle /\ Passed' = Passed
      BY <2>5, Unseen DEF Passed
    <3>2. (~Undisturbed)' = TRUE \/ (~Undisturbed)' = ~Undisturbed
      BY <2>5, StaysDisturbed
    <3> QED
      BY <3>1, <3>2 DEF Promise!CNext, Promise!Disturb, Promise!cvars
  <2> QED
    BY <2>1, <2>2, <2>3, <2>4, <2>5
<1> QED
  BY <1>1, <1>2, PassInvariant, PTL DEF Spec, KeepsChallenge, Promise!CSpec
=============================================================================
