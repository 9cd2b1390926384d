---------------------------- MODULE MCChatBlocks ----------------------------
(***************************************************************************)
(* Model-checking instance of ChatBlocks: three replicas, RF = 2.          *)
(***************************************************************************)
EXTENDS ChatBlocks

CONSTANTS n1, n2, n3

CONSTANTS s1, s2

\* The messages of a run: of two senders, or of one: enough for several
\* blocks, for two compactions of the file, or just for one block.
TwoSenders == {s1, s2} \X (1 .. 4)
OneSender == {s1} \X (1 .. 6)
ManyMessages == {s1} \X (1 .. 12)
FewMessages == {s1} \X (1 .. 3)

\* The order of the group by distance from a hash, as arbitrary as a hash: a
\* rotation by the nonce of the block's last message.
MCXorOrder(h) ==
    LET shift == IF h = <<>> THEN 1 ELSE h[Len(h)][2]
        base  == <<n1, n2, n3>>
    IN  [i \in 1 .. 3 |-> base[((2 * i + shift) % 3) + 1]]
=============================================================================
