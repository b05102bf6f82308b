-------------------------- MODULE ChallengePromise --------------------------
(***************************************************************************)
(* What a challenger promises the users of the bridge: the outputs L1      *)
(* holds are passed one by one and in order, none with a false root; what  *)
(* is deleted is what is not passed yet, from the output that is next on;  *)
(* and what is passed is passed for good.  How the challenger comes to its *)
(* answer, with which tables, crashes and repeated blocks, does not show.  *)
(*                                                                         *)
(* After a disturbance (a deletion nobody awaited, a deposit finalized     *)
(* with other contents) L1 may lose outputs that were passed; that passed  *)
(* outputs are neither forgotten nor changed is promised even then.        *)
(* Challenger is shown to implement this specification.                    *)
(***************************************************************************)
EXTENDS Naturals, Sequences

VARIABLES log,        \* the outputs on L1
          passed,     \* the outputs the challenger has passed
          disturbed

cvars == <<log, passed, disturbed>>

CInit == log = <<>> /\ passed = <<>> /\ disturbed = FALSE

OneMore(s, t) == Len(t) = Len(s) + 1 /\ t = Append(s, t[Len(t)])

(* Somebody proposes an output.                                            *)
Propose == /\ OneMore(log, log')
           /\ UNCHANGED <<passed, disturbed>>

Due == Len(passed) + 1

(* The output after the last one passed is on L1, and is passed.           *)
Pass == /\ ~disturbed
        /\ Due \in 1 .. Len(log) /\ ~log[Due].false
        /\ passed' = Append(passed, log[Due])
        /\ UNCHANGED <<log, disturbed>>

(* It is deleted, and all after it with it: what was passed is left.       *)
Delete == /\ ~disturbed
          /\ Due \in 1 .. Len(log)
          /\ log' = passed
          /\ UNCHANGED <<passed, disturbed>>

Disturb == disturbed' = TRUE /\ UNCHANGED <<log, passed>>

(* Once disturbed, what is passed may be gone from L1 by now, and more may *)
(* be deleted than what is not passed.                                     *)
LatePass == /\ disturbed
            /\ OneMore(passed, passed')
            /\ passed'[Due].index = Due /\ ~passed'[Due].false
            /\ UNCHANGED <<log, disturbed>>

LateDelete == /\ disturbed
              /\ \E n \in 1 .. Len(log) : log' = SubSeq(log, 1, n - 1)
              /\ UNCHANGED <<passed, disturbed>>

CNext == Propose \/ Pass \/ Delete \/ Disturb \/ LatePass \/ LateDelete

CSpec == CInit /\ [][CNext]_cvars
=============================================================================
