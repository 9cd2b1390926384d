----------------------------- MODULE ChatBlocks -----------------------------
(***************************************************************************)
(* Block finalization in one chat's replication group.                     *)
(*                                                                         *)
(* Every replica appends the messages it is sent to its own log.  When its *)
(* buffer grows past the middle of a block, the replica that is the        *)
(* finalizer of this round proposes the whole blocks of its buffer to the  *)
(* others (SEND_BLOCK); each of them votes on the proposal and sends its   *)
(* vote to all (VOTE_BLOCK); a replica that counts enough votes makes the  *)
(* block final.                                                            *)
(*                                                                         *)
(* A client message is a sender and a nonce: a replica takes it only if    *)
(* the nonce is larger than the sender's last (the rest of the member      *)
(* check is in ChatMembers).  The messages of two senders may reach the    *)
(* replicas in different orders, but none is overtaken by Slack bytes of   *)
(* others.  A handler runs to its end before the next.                     *)
(*                                                                         *)
(* Faults says what the environment may do on top of this:                 *)
(*   "overlap"  messages are taken while proposals or votes are in flight; *)
(*              one that stays in flight for ever has been lost,           *)
(*   "lag"      a client message reaches a replica later than that, or     *)
(*              never: its replication failed or timed out.                *)
(* The replicas that are not in Up are down and take part in nothing.      *)
(* Up to MaxRestarts times a replica is restarted, or its Handle is        *)
(* evicted from the LRU cache: votes are kept in memory only.              *)
(***************************************************************************)
EXTENDS ChatLog, SequencesExt

CONSTANTS RF,           \* REPLICATION_FACTOR: a group has RF + 1 members
          Sender,       \* members of the chat
          Msg,          \* the messages they send: pairs of a sender and a nonce
          Slack,        \* how many bytes of other messages may overtake a message
          Up,           \* the replicas that are running
          Faults,       \* what else may happen, see above
          MaxRestarts   \* bound on the restarts of replicas

ASSUME FaultsAssumption == Faults \subseteq {"overlap", "lag"} /\ MaxRestarts \in Nat /\ Slack \in Nat
ASSUME MsgAssumption == Msg \subseteq Sender \X (Nat \ {0})
ASSUME GroupAssumption == RF \in Nat /\ IsFiniteSet(Nodes) /\ Cardinality(Nodes) = RF + 1 /\ Up \subseteq Nodes

VARIABLES log,          \* log[n]: the file and header of replica n
          nonce,        \* nonce[n][s]: the last nonce of s that n took
          voting,       \* voting[n]: block hash |-> BlockProposal
          net,          \* proposals and votes in flight
          backers,      \* history: block |-> the replicas that proposed it or voted for it
          accepted,     \* history: accepted[n]: the blocks n made final, in order
          poisoned,     \* replicas with a thread that panicked holding its mutexes
          restarts      \* how many restarts there have been

vars == <<log, nonce, voting, net, backers, accepted, poisoned, restarts>>

Quiet == net = {} \/ "overlap" \in Faults

\* get_others: whom a replica sends its proposals and votes to
Others(n) == Nodes \ {n}

\* struct BlockProposal, Default::default()
NoVotes(number) ==
    [number |-> number, yes |-> 0, no |-> 0, proposal |-> "absent", votes |-> {}]

\* HashMap::entry(..).or_insert(..) on a table of proposals
Entry(n, h, number) == IF h \in DOMAIN voting[n] THEN voting[n][h] ELSE NoVotes(number)
WithEntry(tab, h, e) == [x \in DOMAIN tab \cup {h} |-> IF x = h THEN e ELSE tab[x]]
Without(tab, h) == [x \in DOMAIN tab \ {h} |-> tab[x]]

Count(b) == IF b THEN 1 ELSE 0

\* Mutants of Accepts: half the group is enough; every vote is needed; a proposer
\* never resolves its own block.
AcceptsHalf(e) == e.yes >= RF \div 2 /\ e.proposal # "absent"
AcceptsUnanimous(e) == e.yes > RF /\ e.proposal # "absent"
AcceptsRemoteOnly(e) == e.yes > RF \div 2 /\ e.proposal = "remote"

\* BlockProposal::try_resolve
Accepts(e) == e.yes > RF \div 2 /\ e.proposal # "absent"
Rejects(e) == ~Accepts(e) /\ e.no > RF \div 2

BlockMsg(from, to, number, block, base) ==
    [type |-> "block", from |-> from, to |-> to, number |-> number, block |-> block,
     base |-> base]
VoteMsg(from, to, number, block, agrees) ==
    [type |-> "vote", from |-> from, to |-> to, number |-> number, block |-> block,
     agrees |-> agrees]

Backed(h, ns) ==
    [b \in DOMAIN backers \cup {h} |->
       (IF b \in DOMAIN backers THEN backers[b] ELSE {}) \cup (IF b = h THEN ns ELSE {})]
-----------------------------------------------------------------------------
Init == /\ log = [n \in Nodes |-> EmptyLog]
        /\ nonce = [n \in Nodes |-> [s \in Sender |-> 0]]
        /\ voting = [n \in Nodes |-> [h \in {} |-> NoVotes(0)]]
        /\ net = {}
        /\ backers = [h \in {} |-> {}]
        /\ accepted = [n \in Nodes |-> <<>>]
        /\ poisoned = {}
        /\ restarts = 0

Taken(n) == {msg \in Msg : msg[2] <= nonce[n][msg[1]]}

\* The message is the sender's next, and the messages it leaves Slack bytes behind
\* have reached every replica that is running.
Timely(n, msg) ==
    /\ msg[2] = nonce[n][msg[1]] + 1
    /\ \A i \in DOMAIN log[n].file :
         MsgLen * (Len(log[n].file) + 1 - i) >= Slack =>
           \A o \in Up : log[n].file[i] \in Taken(o)

\* The member transaction, committed before any lock is taken.
TakesNonce(n, msg) ==
    /\ Quiet /\ n \in Up
    /\ nonce[n][msg[1]] < msg[2]
    /\ Timely(n, msg) \/ "lag" \in Faults
    /\ nonce' = [nonce EXCEPT ![n][msg[1]] = msg[2]]

\* Handle::send_message and the SEND_BLOCK that api::chat::send_message sends
\* when this replica is the finalizer.
SendMessage(n, msg) ==
    LET l     == Appended(log[n], msg)
        block == ProposedBlock(l)
        proposes == /\ ShouldFinalize(log[n].bufLen, l.bufLen)
                    /\ Finalizer(l.latest, l.bufLen) = n
    IN  /\ n \notin poisoned
        /\ TakesNonce(n, msg)
        /\ log' = [log EXCEPT ![n] = l]
        /\ \/ /\ ~proposes
              /\ UNCHANGED <<voting, net, backers>>
           \/ /\ proposes
              /\ voting' = [voting EXCEPT ![n] = WithEntry(@, block,
                              [NoVotes(l.number) EXCEPT !.yes = 1, !.proposal = "local"])]
              /\ net' = net \cup {BlockMsg(n, o, l.number, block, l.latest) : o \in Others(n)}
              /\ backers' = Backed(block, {n})
        /\ UNCHANGED <<accepted, poisoned, restarts>>

\* `root.buffer_len -= size` overflows: the thread panics in a build with overflow
\* checks (run.sh's default), before the header is stored.
Panics(n, h, e) == e.proposal = "local" /\ Bytes(h) > log[n].bufLen

\* Handle::accept_block with the entry e that try_resolve took the block from.
Accept(n, h, number, e) ==
    /\ LET tab == WithEntry(voting[n], h, [e EXCEPT !.proposal = "absent"])
       IN  voting' = [voting EXCEPT ![n] =
                        [x \in {y \in DOMAIN tab : tab[y].number >= number} |-> tab[x]]]
    /\ \/ /\ Panics(n, h, e)
          /\ poisoned' = poisoned \cup {n}
          /\ UNCHANGED <<log, accepted>>
       \/ /\ ~Panics(n, h, e)
          /\ log' = [log EXCEPT ![n] = IF e.proposal = "local"
                                       THEN AcceptedLocal(@, h, number)
                                       ELSE AcceptedRemote(@, h, number)]
          /\ accepted' = [accepted EXCEPT ![n] = Append(@, h)]
          /\ UNCHANGED poisoned

\* Handle::proposal_low without its last check: the block is taken in as Remote.
TakenIn(n, m, e) ==
    /\ e.proposal = "absent"
    /\ m.from \notin e.votes
    /\ Finalizer(log[n].latest, ReceivedLen(m.block)) = m.from

\* api::chat::proposal and Handle::proposal
Proposal(m) ==
    LET n  == m.to
        e0 == Entry(n, m.block, m.number)
        in == TakenIn(n, m, e0)
        ok == in /\ e0.number = m.number /\ AllPresent(log[n], m.block)
        e  == [e0 EXCEPT !.yes = @ + 1 + Count(ok), !.no = @ + Count(~ok),
                         !.proposal = IF in THEN "remote" ELSE @]
    IN  /\ m \in net
        /\ m.type = "block"
        /\ n \in Up \ poisoned
        /\ m.number >= log[n].number
        /\ net' = (net \ {m}) \cup
                    IF Accepts(e) /\ Panics(n, m.block, e) THEN {}
                    ELSE {VoteMsg(n, o, m.number, m.block, ok) : o \in Others(n)}
        /\ backers' = Backed(m.block, IF ok THEN {n} ELSE {})
        /\ \/ /\ Accepts(e)
              /\ Accept(n, m.block, m.number, e)
           \/ /\ Rejects(e)
              /\ voting' = [voting EXCEPT ![n] = Without(@, m.block)]
              /\ UNCHANGED <<log, accepted, poisoned>>
           \/ /\ ~Accepts(e) /\ ~Rejects(e)
              /\ voting' = [voting EXCEPT ![n] = WithEntry(@, m.block, e)]
              /\ UNCHANGED <<log, accepted, poisoned>>
        /\ UNCHANGED <<nonce, restarts>>

\* api::chat::vote and Handle::vote; a rejected proposal stays in the table.
Vote(m) ==
    LET n  == m.to
        e0 == Entry(n, m.block, m.number)
        e  == [e0 EXCEPT !.votes = @ \cup {m.from},
                         !.yes = @ + Count(m.agrees), !.no = @ + Count(~m.agrees)]
    IN  /\ m \in net
        /\ m.type = "vote"
        /\ n \in Up \ poisoned
        /\ net' = net \ {m}
        /\ \/ /\ e0.number # m.number \/ m.from \in e0.votes
              /\ UNCHANGED <<log, voting, accepted, poisoned>>
           \/ /\ e0.number = m.number /\ m.from \notin e0.votes
              /\ Accepts(e)
              /\ Accept(n, m.block, m.number, e)
           \/ /\ e0.number = m.number /\ m.from \notin e0.votes
              /\ ~Accepts(e)
              /\ voting' = [voting EXCEPT ![n] = WithEntry(@, m.block, e)]
              /\ UNCHANGED <<log, accepted, poisoned>>
        /\ UNCHANGED <<nonce, backers, restarts>>

\* lock().unwrap() on a poisoned mutex panics: a message gets no further than its
\* nonce, a proposal or a vote nowhere (it is left in flight).
SendToPoisoned(n, msg) ==
    /\ n \in poisoned
    /\ TakesNonce(n, msg)
    /\ UNCHANGED <<log, voting, net, backers, accepted, poisoned, restarts>>

\* Handle::load: everything but the files starts from its default.
Restart(n) ==
    /\ restarts < MaxRestarts /\ n \in Up
    /\ restarts' = restarts + 1
    /\ voting' = [voting EXCEPT ![n] = [h \in {} |-> NoVotes(0)]]
    /\ log' = [log EXCEPT ![n].discarded = 0]
    /\ poisoned' = poisoned \ {n}
    /\ UNCHANGED <<nonce, net, backers, accepted>>

Deliver == \E m \in net : Proposal(m) \/ Vote(m)

Next == \/ \E n \in Nodes, msg \in Msg : SendMessage(n, msg)
        \/ \E m \in net : Proposal(m)
        \/ \E m \in net : Vote(m)
        \/ \E n \in Nodes, msg \in Msg : SendToPoisoned(n, msg)
        \/ \E n \in Nodes : Restart(n)

Spec == Init /\ [][Next]_vars

\* Requests that are not lost are served: the server polls its streams for as
\* long as it runs.
FairSpec == Spec /\ WF_vars(Deliver)
-----------------------------------------------------------------------------
\* The finalized logs of any two replicas agree: one is a prefix of the other.
Agreement ==
    \A n, o \in Nodes : \/ IsPrefix(Finalized(log[n]), Finalized(log[o]))
                        \/ IsPrefix(Finalized(log[o]), Finalized(log[n]))

\* Once the votes of a round are in, every replica has made the same messages
\* final: nobody, the proposer included, is left a block behind.
RoundsConverge == net = {} => \A n, o \in Nodes : Finalized(log[n]) = Finalized(log[o])

\* What a replica considers final is what the group voted on: its finalized
\* messages are the accepted blocks, one after the other, whether the replica cut
\* the block from its own buffer (Local) or received it (Remote).
FinalIsAccepted == \A n \in Nodes : Finalized(log[n]) = FlattenSeq(accepted[n])

\* Finalization neither loses nor repeats a message: a replica's log holds every
\* message it took, final or not, exactly once.
ExactlyOnce ==
    \A n \in Nodes : /\ Messages(log[n].file) = Taken(n)
                     /\ Len(log[n].file) = Cardinality(Taken(n))

\* The messages a replica keeps without a block having finalized them never
\* exceed the unfinalized-buffer limit, however late or useless the votes are: a
\* chat that cannot agree discards its oldest messages and goes on.
BufferBounded == \A n \in Nodes : log[n].bufLen <= UnfinalizedBufferCap

\* What the next cut takes off the front of the file is final: the checkpoint, from
\* which on the file is kept, never lies behind the start of the buffer, whatever
\* blocks and discards have done to the buffer since it was set.  This says nothing
\* of the other end of the file, where the cut takes off the message whose writing
\* has set it off, which no block has finalized (see Compacted).
CheckpointIsFinal == \A n \in Nodes : log[n].checkpoint <= Bytes(Finalized(log[n]))

\* In a replica's buffer the messages of a sender stand in the order they were
\* sent in, each once: neither a block that takes messages out of the middle of
\* the buffer nor one that arrives twice may reorder or repeat the others.
BufferInSendOrder ==
    \A n \in Nodes : LET b == Buffer(log[n]) IN
        \A i, j \in DOMAIN b : i < j /\ b[i][1] = b[j][1] => b[i][2] < b[j][2]

\* What is final stays final, at its place: no message, block, vote or restart
\* takes away or moves a message that a block has finalized, but for the message
\* with which the file is cut down to its history.
FinalStable ==
    [][\A n \in Nodes : log'[n].discarded <= log[n].discarded =>
          IsPrefix(Finalized(log[n]), Finalized(log'[n]))]_vars

\* A block is made final only if more than RF / 2 different replicas proposed it
\* or checked it against their own buffer.
QuorumBacked ==
    \A n \in Nodes : \A i \in DOMAIN accepted[n] :
        Cardinality(backers[accepted[n][i]]) > RF \div 2

\* A receiver that knows the same latest block as the proposer did computes the
\* proposer as this round's finalizer, though it only sees the length of the
\* block and not that of the proposer's buffer.
ProposerRecognised ==
    \A m \in net : m.type = "block" /\ m.base = log[m.to].latest =>
        Finalizer(log[m.to].latest, ReceivedLen(m.block)) = m.from

\* Every block that a majority backs is made final by all replicas.
Decided == \A h \in DOMAIN backers : Cardinality(backers[h]) > RF \div 2 =>
               \A n \in Nodes : h \in Messages(accepted[n])
MajorityFinalizes == ~Decided ~> Decided
=============================================================================
