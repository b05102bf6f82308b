---------------------------- MODULE FeedPromise -----------------------------
(***************************************************************************)
(* What a monitor is promised by its block feed: it handles every block of *)
(* the chain after START once and in order, a block with transactions      *)
(* together with its events, and commits the blocks in groups.  Which node *)
(* a block comes from, and how often the process starts, does not show.    *)
(* BlockFeed is shown to implement it.                                     *)
(***************************************************************************)
EXTENDS Naturals, Sequences

CONSTANTS START, MAX_BLOCKS, Txs

VARIABLE fed       \* the committed blocks after START

Handled(h) == [height |-> h, events |-> h \in Txs]

Group(n) == [i \in 1 .. n |-> Handled(START + Len(fed) + i)]

PInit == fed = <<>>

PNext == \E n \in 0 .. MAX_BLOCKS : fed' = fed \o Group(n)

PSpec == PInit /\ [][PNext]_fed
=============================================================================
