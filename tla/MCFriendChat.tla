---------------------------- MODULE MCFriendChat ----------------------------
(***************************************************************************)
(* What the client keeps: the ratchets of a friend, and the calls of a     *)
(* stream to a server.  The two do not depend on each other: part says     *)
(* which one is explored, the other stays as it is.                        *)
(***************************************************************************)
EXTENDS FriendChat, ChatSubscriptions

VARIABLE part

Symmetry == Permutations(Chats)

MCInit == part \in {"friends", "calls"} /\ Init /\ SubscriptionsInit

MCNext ==
    /\ UNCHANGED part
    /\ \/ part = "friends" /\ Next /\ UNCHANGED subscriptions
       \/ part = "calls" /\ SubscriptionsNext /\ UNCHANGED vars

MCSpec == MCInit /\ [][MCNext]_<<part, vars, subscriptions>>
=============================================================================
