--------------------------- MODULE StreamRequests ---------------------------
(***************************************************************************)
(* What the streaming protocol promises its user: a stream asked for with  *)
(* create_stream is answered by exactly one OutgoingStream event, a stream *)
(* or an error, and sooner or later.  A peer the swarm refused to dial,    *)
(* because somebody else was connected or dialling already, is stranded:   *)
(* nothing is promised about when its requests are answered.               *)
(***************************************************************************)
EXTENDS Naturals

CONSTANT Peers

VARIABLES waiting,  \* waiting[p]: requests to p that have no answer yet
          stranded  \* peers whose dial was refused

vars == <<waiting, stranded>>

Init == waiting = [p \in Peers |-> 0] /\ stranded = {}

Request(p) == /\ waiting' = [waiting EXCEPT ![p] = @ + 1]
              /\ UNCHANGED stranded

Answer(p) == /\ waiting[p] > 0
             /\ waiting' = [waiting EXCEPT ![p] = @ - 1]
             /\ UNCHANGED stranded

Strand(p) == /\ stranded' = stranded \cup {p}
             /\ UNCHANGED waiting

Next == \E p \in Peers : Request(p) \/ Answer(p) \/ Strand(p)

Spec == /\ Init /\ [][Next]_vars
        /\ \A p \in Peers : WF_vars(p \notin stranded /\ Answer(p))
=============================================================================
