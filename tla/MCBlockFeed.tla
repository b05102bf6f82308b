---------------------------- MODULE MCBlockFeed -----------------------------
(* Two nodes, one of them behind a proxy; blocks with and without          *)
(* transactions, for TLC.                                                  *)
EXTENDS BlockFeed

MCTxs == {2, 3}
MCQuiet == {2}
=============================================================================
