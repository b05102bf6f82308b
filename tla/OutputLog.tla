----------------------------- MODULE OutputLog ------------------------------
(***************************************************************************)
(* What executor and output submitter promise together until somebody      *)
(* deletes outputs from L1: one log of outputs, whose ranges of L2 blocks  *)
(* follow one another without gap or overlap, and a published part of it   *)
(* that only grows and is what L1 stores.  At most one output is ahead of  *)
(* the published part.  After a deletion nothing is promised here.         *)
(* OutputPipeline is shown to implement it.                                *)
(***************************************************************************)
EXTENDS Naturals, Sequences

VARIABLES log,        \* the outputs: <<first block, last block>>
          published,  \* the part of the log on L1
          deleted     \* outputs have been deleted from L1

lvars == <<log, published, deleted>>

LInit == log = <<>> /\ published = <<>> /\ deleted = FALSE

LastBlock == IF log = <<>> THEN 0 ELSE log[Len(log)][2]

(* A new output covers the blocks since the last one, which is published.  *)
Extend == /\ published = log
          /\ Len(log') = Len(log) + 1
          /\ LET last == log'[Len(log) + 1][2] IN
               /\ last \in Nat /\ last > LastBlock
               /\ log' = Append(log, <<LastBlock + 1, last>>)
          /\ UNCHANGED <<published, deleted>>

Publish == /\ published # log
           /\ published' = log
           /\ UNCHANGED <<log, deleted>>

(* The first deletion, and whatever follows it.                            *)
Deleted == deleted' = TRUE

LNext == Publish \/ Extend \/ Deleted

LSpec == LInit /\ [][LNext]_lvars
=============================================================================
