------------------------------ MODULE MCOnion -------------------------------
(***************************************************************************)
(* The network layers below the chat.  Paths: one client whose paths share *)
(* all relays.  Two with data and a fault where the relays have room for   *)
(* both, two with either where they have room for one, and three that      *)
(* compete for one place.  The relay's buffer, the routing table and the   *)
(* encrypted connection do not depend on the paths or on each other: part  *)
(* says which of the four is explored, the others stay as they are.        *)
(***************************************************************************)
EXTENDS Onion, Channel, RoutingTable, Opfusk

CONSTANTS s1, s2, s3

VARIABLE part

MCRoutes == {<<s1, s2, s3>>}

MCConfigs == {[max_streams |-> 1, paths |-> 2, data |-> 1, faults |-> 1],
              [max_streams |-> 0, paths |-> 2, data |-> 1, faults |-> 0],
              [max_streams |-> 0, paths |-> 2, data |-> 0, faults |-> 1],
              [max_streams |-> 0, paths |-> 3, data |-> 0, faults |-> 0]}

Parts == {"paths", "channel", "table", "connection"}

\* One of the configs stands for all where the paths stay closed.
MCInit == /\ part \in Parts
          /\ Init /\ (part # "paths" => config = CHOOSE c \in Configs : TRUE)
          /\ ChannelInit /\ TableInit /\ OpfuskInit

MCNext ==
    /\ UNCHANGED part
    /\ \/ /\ part = "paths" /\ Next
          /\ UNCHANGED <<channel, table, opfusk>>
       \/ /\ part = "channel" /\ ChannelNext
          /\ UNCHANGED <<vars, table, opfusk>>
       \/ /\ part = "table" /\ TableNext
          /\ UNCHANGED <<vars, channel, opfusk>>
       \/ /\ part = "connection" /\ OpfuskNext
          /\ UNCHANGED <<vars, channel, table>>

MCSpec == MCInit /\ [][MCNext]_<<part, vars, channel, table, opfusk>>
=============================================================================
