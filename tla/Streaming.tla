----------------------------- MODULE Streaming ------------------------------
(***************************************************************************)
(* The streaming protocol of one server: streaming::Behaviour counts the   *)
(* streams asked for on each connection, a Handler per connection opens    *)
(* them, and the event loop keeps a list of the tasks that wait for one    *)
(* (penidng_stream_requests).  The libp2p swarm in between is external: it *)
(* dials, reports connections and failures, carries commands to a handler  *)
(* if its connection is established and drops them otherwise.  Connections *)
(* also come from the other side and from dials of the server's other      *)
(* behaviours (onion, key_share), which see the same peers.                *)
(*                                                                         *)
(* Wakers are left out: they only decide when poll is called.  Streams and *)
(* errors are the words "ok" and "err".                                    *)
(***************************************************************************)
EXTENDS Integers, Sequences, SequencesExt, Subsequences

CONSTANTS Peers,        \* other servers
          MaxConns,     \* bound: connections over the whole run
          MaxRequests,  \* bound: streams asked for
          MaxIncoming   \* bound: streams opened by the other side

ASSUME StreamingAssumption == Peers # {} /\ {MaxConns, MaxRequests, MaxIncoming} \subseteq Nat

VARIABLES connections, \* connections[p]: ConnectionId -> request counters
          events,      \* Behaviour::events, popped from the end
          waiting,     \* waiting[p]: senders in penidng_stream_requests
          swarm,       \* swarm[c]: the peer and the state of a connection
          handler,     \* handler[c]: the Handler of an established connection
          asked,       \* streams asked for so far
          incoming     \* streams the other side has opened so far

vars == <<connections, events, waiting, swarm, handler, asked, incoming>>

Cid == 1 .. MaxConns
Word == {"ok", "err"}

\* Connection::total_requests
Total(conn) == conn.pending_requests + conn.new_requests

Default == [pending_requests |-> 0, new_requests |-> 0]
NoHandler == [to_request |-> 0, opening |-> 0, stream |-> <<>>]

Outgoing(p, w) == [type |-> "outgoing", peer |-> p, res |-> w]

\* HashMap insert and remove
Inserted(f, c, v) == [x \in DOMAIN f \cup {c} |-> IF x = c THEN v ELSE f[x]]
Removed(f, c) == [x \in DOMAIN f \ {c} |-> f[x]]

\* ConnectionIds are handed out in order
Fresh == {c \in Cid : /\ swarm[c].st = "free"
                      /\ \A b \in Cid : b < c => swarm[b].st # "free"}

Live(p) == {c \in Cid : swarm[c].peer = p /\ swarm[c].st \in {"dialling", "up"}}
-----------------------------------------------------------------------------
Init == /\ connections = [p \in Peers |-> [c \in {} |-> Default]]
        /\ events = <<>>
        /\ waiting = [p \in Peers |-> 0]
        /\ swarm = [c \in Cid |-> [peer |-> CHOOSE p \in Peers : TRUE, st |-> "free"]]
        /\ handler = [c \in Cid |-> NoHandler]
        /\ asked = 0
        /\ incoming = 0

\* Server::stream_request: Behaviour::create_stream uses whichever connection the
\* map yields first, or makes an entry for a connection it asks the swarm to dial.
CreateStream(p) ==
    /\ asked < MaxRequests
    /\ asked' = asked + 1
    /\ waiting' = [waiting EXCEPT ![p] = @ + 1]
    /\ \/ /\ \E c \in DOMAIN connections[p] :
               connections' = [connections EXCEPT ![p][c].new_requests = @ + 1]
          /\ UNCHANGED <<events, swarm>>
       \/ /\ DOMAIN connections[p] = {}
          /\ \E c \in Fresh :
               /\ connections' = [connections EXCEPT
                    ![p] = Inserted(@, c, [pending_requests |-> 0, new_requests |-> 1])]
               /\ events' = Append(events, [type |-> "dial", peer |-> p, cid |-> c])
               /\ swarm' = [swarm EXCEPT ![c] = [peer |-> p, st |-> "queued"]]
    /\ UNCHANGED <<handler, incoming>>

\* Mutant of HandlerFor: the handler only opens what poll has not taken yet.
HandlerForNew(conn) == [NoHandler EXCEPT !.to_request = conn.new_requests]

\* Handler::new(conn.pending_requests, ..) after the new requests were added
HandlerFor(conn) == [NoHandler EXCEPT !.to_request = Total(conn)]

\* Behaviour::new_handler, for a connection of either direction
NewHandler(p, c) ==
    LET conn == IF c \in DOMAIN connections[p] THEN connections[p][c] ELSE Default
    IN /\ connections' = [connections EXCEPT
            ![p] = Inserted(@, c, [pending_requests |-> Total(conn), new_requests |-> 0])]
       /\ handler' = [handler EXCEPT ![c] = HandlerFor(conn)]

\* Mutant of Dropped: requests poll has handed to the handler are not counted.
DroppedNew(p, c) ==
    LET total == connections[p][c].new_requests
        rest == Removed(connections[p], c)
    IN \/ /\ DOMAIN rest = {}
          /\ connections' = [connections EXCEPT ![p] = rest]
          /\ events' = events \o [i \in 1 .. total |-> Outgoing(p, "err")]
       \/ /\ \E d \in DOMAIN rest :
               connections' = [connections EXCEPT
                 ![p] = [rest EXCEPT ![d].new_requests = @ + total]]
          /\ UNCHANGED events

\* The common end of DialFailure and ConnectionClosed in on_swarm_event: the
\* requests move to another connection of the peer or fail.
Dropped(p, c) ==
    LET total == Total(connections[p][c])
        rest == Removed(connections[p], c)
    IN \/ /\ DOMAIN rest = {}
          /\ connections' = [connections EXCEPT ![p] = rest]
          /\ events' = events \o [i \in 1 .. total |-> Outgoing(p, "err")]
       \/ /\ \E d \in DOMAIN rest :
               connections' = [connections EXCEPT
                 ![p] = [rest EXCEPT ![d].new_requests = @ + total]]
          /\ UNCHANGED events

\* handle_established_outbound_connection
Established(c) ==
    /\ swarm[c].st = "dialling"
    /\ swarm' = [swarm EXCEPT ![c].st = "up"]
    /\ NewHandler(swarm[c].peer, c)
    /\ UNCHANGED <<events, waiting, asked, incoming>>

\* handle_established_inbound_connection
Inbound(p) ==
    /\ \E c \in Fresh : /\ swarm' = [swarm EXCEPT ![c] = [peer |-> p, st |-> "up"]]
                        /\ NewHandler(p, c)
    /\ UNCHANGED <<events, waiting, asked, incoming>>

\* Another behaviour of the server has the swarm dial p.
OtherDial(p) ==
    /\ Live(p) = {}
    /\ \E c \in Fresh : swarm' = [swarm EXCEPT ![c] = [peer |-> p, st |-> "dialling"]]
    /\ UNCHANGED <<connections, events, waiting, handler, asked, incoming>>

\* FromSwarm::DialFailure, other than the refusal in PollEvent
DialFailure(c) ==
    LET p == swarm[c].peer IN
    /\ swarm[c].st = "dialling"
    /\ swarm' = [swarm EXCEPT ![c].st = "closed"]
    /\ IF c \in DOMAIN connections[p] THEN Dropped(p, c)
       ELSE UNCHANGED <<connections, events>>
    /\ UNCHANGED <<waiting, handler, asked, incoming>>

\* FromSwarm::ConnectionClosed; the handler and what it had queued are gone
ConnectionClosed(c) ==
    /\ swarm[c].st = "up"
    /\ swarm' = [swarm EXCEPT ![c].st = "closed"]
    /\ handler' = [handler EXCEPT ![c] = NoHandler]
    /\ Dropped(swarm[c].peer, c)
    /\ UNCHANGED <<waiting, asked, incoming>>

\* std::mem::take of the new requests, which are pending from now on
Taken(conn) == [pending_requests |-> Total(conn), new_requests |-> 0]

HasNew(p, c) == c \in DOMAIN connections[p] /\ connections[p][c].new_requests > 0

\* Behaviour::poll, new requests: the swarm passes the number on to the handler,
\* and drops it when the connection is not established.
PollNotify(p, c) ==
    /\ HasNew(p, c)
    /\ connections' = [connections EXCEPT ![p][c] = Taken(@)]
    /\ handler' = IF swarm[c].st = "up"
                  THEN [handler EXCEPT ![c].to_request = @ + connections[p][c].new_requests]
                  ELSE handler
    /\ UNCHANGED <<events, waiting, swarm, asked, incoming>>

\* Behaviour::poll, a dial: the swarm refuses it when the peer is connected or
\* being dialled, and on_swarm_event ignores DialPeerConditionFalse.
TakeDial(e) ==
    /\ e.type = "dial"
    /\ swarm' = [swarm EXCEPT ![e.cid].st = IF Live(e.peer) = {} THEN "dialling" ELSE "refused"]
    /\ UNCHANGED waiting

\* Behaviour::poll, a stream: Server::swarm_event pops a sender, if there is one
TakeOutgoing(e) ==
    /\ e.type = "outgoing"
    /\ waiting' = [waiting EXCEPT ![e.peer] = IF @ > 0 THEN @ - 1 ELSE 0]
    /\ UNCHANGED swarm

\* An incoming stream goes to a task of its own (Server::server_request).
TakeIncoming(e) == e.type = "incoming" /\ UNCHANGED <<swarm, waiting>>

PollEvent ==
    /\ \A p \in Peers, c \in Cid : ~HasNew(p, c)
    /\ events # <<>>
    /\ events' = Front(events)
    /\ TakeDial(Last(events)) \/ TakeOutgoing(Last(events)) \/ TakeIncoming(Last(events))
    /\ UNCHANGED <<connections, handler, asked, incoming>>

\* Handler::poll: the swarm is asked for a substream
OpenStream(c) ==
    /\ handler[c].stream = <<>>
    /\ handler[c].to_request > 0
    /\ handler' = [handler EXCEPT ![c].to_request = @ - 1, ![c].opening = @ + 1]
    /\ UNCHANGED <<connections, events, waiting, swarm, asked, incoming>>

\* Handler::on_connection_event: FullyNegotiatedOutbound or DialUpgradeError
Negotiated(c, w) ==
    /\ handler[c].opening > 0
    /\ handler' = [handler EXCEPT ![c].opening = @ - 1, ![c].stream = Append(@, w)]
    /\ UNCHANGED <<connections, events, waiting, swarm, asked, incoming>>

\* Handler::on_connection_event: FullyNegotiatedInbound
Incoming(c) ==
    /\ swarm[c].st = "up" /\ incoming < MaxIncoming
    /\ incoming' = incoming + 1
    /\ handler' = [handler EXCEPT ![c].stream = Append(@, "incoming")]
    /\ UNCHANGED <<connections, events, waiting, swarm, asked>>

\* on_connection_handler_event, HEvent::Outgoing
Counted(conn, w) == [conn EXCEPT !.pending_requests = @ - 1]

\* Handler::poll hands its latest event over to on_connection_handler_event.
Notify(c) ==
    LET p == swarm[c].peer
        w == Last(handler[c].stream)
    IN /\ handler[c].stream # <<>>
       /\ handler' = [handler EXCEPT ![c].stream = Front(@)]
       /\ \/ /\ w = "incoming"
             /\ events' = Append(events, [type |-> "incoming", peer |-> p])
             /\ UNCHANGED connections
          \/ /\ w \in Word
             /\ events' = Append(events, Outgoing(p, w))
             /\ connections' = [connections EXCEPT ![p][c] = Counted(@, w)]
       /\ UNCHANGED <<waiting, swarm, asked, incoming>>

Poll == PollEvent \/ \E p \in Peers, c \in Cid : PollNotify(p, c)
PollHandler(c) == OpenStream(c) \/ Notify(c)
Resolve(c) == Established(c) \/ DialFailure(c)
Negotiate(c) == \E w \in Word : Negotiated(c, w)

Next == \/ \E p \in Peers : CreateStream(p) \/ Inbound(p) \/ OtherDial(p)
        \/ Poll
        \/ \E c \in Cid : \/ Resolve(c) \/ ConnectionClosed(c) \/ PollHandler(c)
                          \/ Negotiate(c) \/ Incoming(c)

Spec == Init /\ [][Next]_vars

\* The server polls its swarm and the swarm its handlers for as long as there is
\* something to do; a dial and a negotiation end, by libp2p's own timeouts.
Fairness == /\ WF_vars(Poll)
            /\ \A c \in Cid : /\ WF_vars(PollHandler(c))
                              /\ WF_vars(Resolve(c))
                              /\ WF_vars(Negotiate(c))

FairSpec == Spec /\ Fairness
-----------------------------------------------------------------------------
\* The answers the behaviour still owes for p: requests counted on a connection and
\* events not yet polled
Load(conns) == SumTo([c \in Cid |-> IF c \in DOMAIN conns THEN Total(conns[c]) ELSE 0], MaxConns)
Answers(p) == {Outgoing(p, w) : w \in Word}
Owed(p) == Load(connections[p]) + Tally(events, Answers(p))

\* Every task in penidng_stream_requests is owed exactly one answer: connections that
\* close, fail to open or appear while requests wait neither lose a request nor answer
\* it twice, and the server's "we established stream with {peer} but we dont have any
\* requests" is never reached.
Ledger == \A p \in Peers : waiting[p] = Owed(p)

Stranded == {p \in Peers : \E c \in DOMAIN connections[p] : swarm[c].st = "refused"}

Abstract == INSTANCE StreamRequests WITH waiting <- waiting, stranded <- Stranded

\* Streams asked for with create_stream are answered once each, and always in the end,
\* as long as the swarm did not refuse the dial because of a connection or a dial it
\* already had: Streaming implements StreamRequests.
AnswersEachRequest == Abstract!Spec
=============================================================================
