---------------------------- MODULE MCStreaming -----------------------------
(***************************************************************************)
(* What a server keeps of its connections to others: the streams that are  *)
(* opened, the streams that are kept for the next request, the gateway     *)
(* that lets connections in, and what it thinks of the nodes behind them.  *)
(* The four do not depend on each other: part says which one is explored,  *)
(* the others stay as they are.                                            *)
(***************************************************************************)
EXTENDS Streaming, StreamCache, Gateway, Reputation

VARIABLE part

MCSeverities == {-1, 3}

MCInit == /\ part \in {"streaming", "cache", "gateway", "reputation"}
          /\ Init /\ CacheInit /\ GatewayInit /\ ReputationInit

MCNext ==
    /\ UNCHANGED part
    /\ \/ part = "streaming" /\ Next /\ UNCHANGED <<cache, gateway, reputation>>
       \/ part = "cache" /\ CacheNext /\ UNCHANGED <<vars, gateway, reputation>>
       \/ part = "gateway" /\ GatewayNext /\ UNCHANGED <<vars, cache, reputation>>
       \/ part = "reputation" /\ ReputationNext /\ UNCHANGED <<vars, cache, gateway>>

MCSpec == MCInit /\ [][MCNext]_<<part, vars, cache, gateway, reputation>> /\ Fairness
=============================================================================
