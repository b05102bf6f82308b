-------------------------- MODULE MCOutputPipeline --------------------------
(* Small instances of OutputPipeline for TLC.                              *)
EXTENDS OutputPipeline

CONSTANTS w1, w2

MCWithdrawals == {w1, w2}
MCNoPair      == {w2}
MCOne         == {w1}
MCNone        == {}
=============================================================================
