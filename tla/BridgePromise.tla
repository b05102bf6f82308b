--------------------------- MODULE BridgePromise ---------------------------
(***************************************************************************)
(* What the deposit half of the bridge promises its users, with no bots,   *)
(* no databases and no failures: a deposit made on L1 is either minted on  *)
(* L2, once, or refused for good because L2 does not allow its receiver to *)
(* hold funds.  DepositRelay is shown to implement this specification.     *)
(***************************************************************************)

EXTENDS Naturals

CONSTANTS Deposits,  \* the deposits users can make on L1
          Blocked    \* those whose receiver is not allowed to receive funds

VARIABLES made,      \* deposits made on L1
          minted,    \* how often the tokens of each deposit were minted
          rejected   \* deposits given up

pvars == <<made, minted, rejected>>

PInit == made = {} /\ minted = [d \in Deposits |-> 0] /\ rejected = {}

Minted == {d \in Deposits : minted[d] # 0}

(* Users deposit; several deposits may be made at the same time.           *)
Make(S) == /\ S \cap made = {}
           /\ made' = made \cup S
           /\ UNCHANGED <<minted, rejected>>

(* L2 mints a set of deposits in one transaction: all of them, or none,    *)
(* and none that was minted before.                                        *)
Mint(S) == /\ S \subseteq made \ (Minted \cup rejected \cup Blocked)
           /\ minted' = [d \in Deposits |-> IF d \in S THEN minted[d] + 1
                                            ELSE minted[d]]
           /\ UNCHANGED <<made, rejected>>

(* Only a deposit L2 can never accept is given up.                         *)
Reject(d) == /\ d \in (made \cap Blocked) \ Minted
             /\ rejected' = rejected \cup {d}
             /\ UNCHANGED <<made, minted>>

PNext == \/ \E S \in SUBSET Deposits : Make(S) \/ Mint(S)
         \/ \E d \in Deposits : Reject(d)

PSpec == PInit /\ [][PNext]_pvars
=============================================================================
