------------------------------- MODULE Onion --------------------------------
(***************************************************************************)
(* Circuits of the onion protocol: a client opens a path through an entry  *)
(* and a middle node to a recipient, every relay peels its layer of the    *)
(* packet, opens the next stream and forwards what comes later, and the    *)
(* recipient proves with a tag that it holds the shared secret.            *)
(*                                                                         *)
(* The streams come from streaming::Behaviour, used here by its abstract   *)
(* specification StreamRequests: each create_stream is answered once, and  *)
(* `want` is what is still to be answered; nothing says when, once the     *)
(* peer is stranded.  Stream <<p, h>> is the h-th hop of path p.           *)
(* Packets, tags and data are records; a secret is the path it was made    *)
(* for, or 0 when it came from an outdated key.  The byte buffers of a     *)
(* relay are in Channel.                                                   *)
(***************************************************************************)
EXTENDS Integers, Sequences, FiniteSets, SequencesExt

CONSTANTS Client,           \* the node that opens paths
          Servers,          \* nodes with a secret, relays and recipients
          MaxPaths,         \* bound: path ids
          Routes,           \* routes a client may pick: entry, middle, recipient
          MaxErrorStreams,  \* Config::max_error_streams
          Configs           \* Config::max_streams, each with bounds on the paths opened,
                            \* the data sent each way and the faults of the environment

\* A client has no secret (Config::secret) and serves no streams: it is no relay.
ASSUME OnionAssumption ==
    /\ Client \notin Servers
    /\ Routes \subseteq {r \in [1 .. 3 -> Servers] : r[1] # r[2] /\ r[2] # r[3]}
    /\ {MaxPaths, MaxErrorStreams} \subseteq Nat
    /\ Configs \subseteq [max_streams : Nat, paths : 0 .. MaxPaths, data : Nat, faults : Nat]

VARIABLES config,   \* max_streams of every node, and the bounds
          route,    \* route[p]: the route of an open path
          stale,    \* stale[p]: the hop whose public key is outdated, or 0
          want,     \* want[n]: pending_requests or pending_connections
          stranded, \* <<n, t>>: a dial of n to t was refused, StreamRequests!stranded
          stream,   \* stream[<<p, h>>]: the streams
          inbound,  \* inbound[n]: streams in upgrade_inbound
          outbound, \* outbound[n]: streams in upgrade_outbound
          router,   \* router[n]: routes by their incoming stream
          error,    \* error[n]: error_streams, stream -> code
          outcome,  \* outcome[p]: the OutboundStream event
          accepted, \* accepted[p]: the secrets of InboundStream events
          got,      \* got[p]: data read at the two ends
          sent,     \* sent[p]: data written at the two ends
          faults    \* faults so far

vars == <<config, route, stale, want, stranded, stream, inbound, outbound, router, error, outcome,
          accepted, got, sent, faults>>

Node == {Client} \cup Servers
Paths == 1 .. MaxPaths
Hop == 1 .. 3
Sid == Paths \X Hop

Failure == {"unreachable", "write", "closed", "missing", "occupied", "auth"}
Code == {"missing", "occupied"}

\* Both directions and the ends still held; broken: the connection was lost
NoStream == [fwd |-> <<>>, bwd |-> <<>>, a |-> FALSE, b |-> FALSE, broken |-> FALSE]
NewStream == [NoStream EXCEPT !.a = TRUE, !.b = TRUE]

\* The node that opens hop s and the one it leads to
From(s) == IF s[2] = 1 THEN Client ELSE route[s[1]][s[2] - 1]
To(s) == route[s[1]][s[2]]
Prev(s) == <<s[1], s[2] - 1>>
After(s) == <<s[1], s[2] + 1>>

Eof(s, dir) == IF dir = "fwd" THEN stream[s].fwd = <<>> /\ (~stream[s].a \/ stream[s].broken)
                              ELSE stream[s].bwd = <<>> /\ (~stream[s].b \/ stream[s].broken)
Writable(s, dir) == /\ ~stream[s].broken
                    /\ IF dir = "fwd" THEN stream[s].b ELSE stream[s].a

DropA(st, s) == [st EXCEPT ![s].a = FALSE]
DropB(st, s) == [st EXCEPT ![s].b = FALSE]

\* What OuterPacket::new puts on the wire of each hop.  An outdated key makes the
\* layer of that hop unreadable for its node.
Packet(s) == CASE s[2] = 1 -> [type |-> "outer", to |-> route[s[1]][2]]
               [] s[2] = 2 -> [type |-> "middle", to |-> route[s[1]][3]]
               [] s[2] = 3 -> [type |-> "inner"]

\* packet::peel at node n, which is at the end of hop s: go on, a secret, or nothing.
\* The middle layer is authenticated; the innermost is not and yields some secret.
Peel(n, s, pck) ==
    CASE pck.type = "outer" -> "relay"
      [] pck.type = "middle" -> IF stale[s[1]] # 2 /\ n = route[s[1]][2] THEN "relay"
                                ELSE "malformed"
      [] pck.type = "inner" -> "final"
Secret(n, s) == IF stale[s[1]] # 3 /\ n = route[s[1]][3] THEN s[1] ELSE 0

\* Vec::find_and_remove: the first match goes, the last element takes its place
SwapRemove(seq, i) ==
    [j \in 1 .. Len(seq) - 1 |-> IF j = i THEN seq[Len(seq)] ELSE seq[j]]
FirstTo(n, t) == CHOOSE i \in DOMAIN want[n] :
                   To(want[n][i]) = t /\ \A j \in 1 .. i - 1 : To(want[n][j]) # t

\* FuturesUnordered::push, of a route or of a stream to be closed
With(f, s, v) == [r \in DOMAIN f \cup {s} |-> IF r \in DOMAIN f THEN f[r] ELSE v]
-----------------------------------------------------------------------------
Init == /\ config \in Configs
        /\ route = [p \in Paths |-> <<>>]
        /\ stale = [p \in Paths |-> 0]
        /\ want = [n \in Node |-> <<>>]
        /\ stranded = {}
        /\ stream = [s \in Sid |-> NoStream]
        /\ inbound = [n \in Node |-> {}]
        /\ outbound = [n \in Node |-> {}]
        /\ router = [n \in Node |-> [s \in {} |-> "live"]]
        /\ error = [n \in Node |-> [s \in {} |-> "missing"]]
        /\ outcome = [p \in Paths |-> "none"]
        /\ accepted = [p \in Paths |-> {}]
        /\ got = [p \in Paths |-> [fwd |-> <<>>, bwd |-> <<>>]]
        /\ sent = [p \in Paths |-> [fwd |-> 0, bwd |-> 0]]
        /\ faults = 0

\* Behaviour::open_path: path ids are counted up; the keys come from key_share and may be outdated
OpenPath(p, r, k) ==
    /\ p <= config.paths
    /\ outcome[p] = "none" /\ \A q \in 1 .. p - 1 : outcome[q] # "none"
    /\ k # 0 => faults < config.faults
    /\ faults' = IF k = 0 THEN faults ELSE faults + 1
    /\ route' = [route EXCEPT ![p] = r]
    /\ stale' = [stale EXCEPT ![p] = k]
    /\ outcome' = [outcome EXCEPT ![p] = "pending"]
    /\ want' = [want EXCEPT ![Client] = Append(@, <<p, 1>>)]
    /\ UNCHANGED <<config, stranded, stream, inbound, outbound, router, error, accepted, got,
                   sent>>

\* poll_streams, OutgoingStream(peer, Ok): the stream serves the first request for
\* that peer; the other side sees an IncomingStream.
StreamReady(n, t) ==
    /\ \E i \in DOMAIN want[n] : To(want[n][i]) = t
    /\ LET s == want[n][FirstTo(n, t)] IN
       /\ stream' = [stream EXCEPT ![s] = NewStream]
       /\ outbound' = [outbound EXCEPT ![n] = @ \cup {[sid |-> s, step |-> "write"]}]
       /\ inbound' = [inbound EXCEPT ![t] = @ \cup {s}]
    /\ want' = [want EXCEPT ![n] = SwapRemove(@, FirstTo(n, t))]
    /\ UNCHANGED <<config, stranded, route, stale, router, error, outcome, accepted, got, sent,
                   faults>>

\* poll_streams, OutgoingStream(peer, Err): the client reports it, a relay answers
\* MISSING_PEER on the stream it came from.
StreamFailed(n, t) ==
    /\ faults < config.faults
    /\ faults' = faults + 1
    /\ \E i \in DOMAIN want[n] : To(want[n][i]) = t
    /\ LET s == want[n][FirstTo(n, t)] IN
       \/ /\ n = Client
          /\ outcome' = [outcome EXCEPT ![s[1]] = "unreachable"]
          /\ UNCHANGED error
       \/ /\ n # Client
          /\ error' = [error EXCEPT ![n] = With(@, Prev(s), "missing")]
          /\ UNCHANGED outcome
    /\ want' = [want EXCEPT ![n] = SwapRemove(@, FirstTo(n, t))]
    /\ UNCHANGED <<config, stranded, route, stale, stream, inbound, outbound, router, accepted,
                   got, sent>>

\* poll_streams: the swarm refused to dial t for n, because somebody else was connected
\* or dialling already.  Streaming ignores that, and the requests stay as they are.
Strand(n, t) ==
    /\ faults < config.faults
    /\ faults' = faults + 1
    /\ <<n, t>> \notin stranded
    /\ \E i \in DOMAIN want[n] : To(want[n][i]) = t
    /\ stranded' = stranded \cup {<<n, t>>}
    /\ UNCHANGED <<config, route, stale, want, stream, inbound, outbound, router, error, outcome,
                   accepted, got, sent>>

\* upgrade_inbound: the packet is read and peeled.  A relay asks for the next stream
\* (poll_inbound), the recipient answers OK with a tag and reports InboundStream.
ReadPacket(n, s) ==
    /\ s \in inbound[n]
    /\ stream[s].fwd # <<>>
    /\ inbound' = [inbound EXCEPT ![n] = @ \ {s}]
    /\ LET res == Peel(n, s, Head(stream[s].fwd))
           read == [stream EXCEPT ![s].fwd = Tail(@)]
       IN \/ /\ res = "relay"
             /\ want' = [want EXCEPT ![n] = Append(@, After(s))]
             /\ stream' = read
             /\ UNCHANGED accepted
          \/ /\ res = "final" /\ Writable(s, "bwd")
             /\ stream' = [read EXCEPT ![s].bwd =
                             Append(@, [type |-> "ok", secret |-> Secret(n, s)])]
             /\ accepted' = [accepted EXCEPT ![s[1]] = @ \cup {Secret(n, s)}]
             /\ UNCHANGED want
          \/ /\ res = "malformed" \/ (res = "final" /\ ~Writable(s, "bwd"))
             /\ stream' = DropB(read, s)
             /\ UNCHANGED <<want, accepted>>
    /\ UNCHANGED <<config, stranded, route, stale, outbound, router, error, outcome, got, sent,
                   faults>>

\* upgrade_inbound: the stream ends before the packet is there
ReadPacketFails(n, s) ==
    /\ s \in inbound[n]
    /\ Eof(s, "fwd")
    /\ inbound' = [inbound EXCEPT ![n] = @ \ {s}]
    /\ stream' = DropB(stream, s)
    /\ UNCHANGED <<config, stranded, route, stale, want, outbound, router, error, outcome,
                   accepted, got, sent, faults>>

\* upgrade_outbound at the client: the packet is written, then it waits for the kind
WriteRequest(s) ==
    /\ [sid |-> s, step |-> "write"] \in outbound[Client]
    /\ LET rest == outbound[Client] \ {[sid |-> s, step |-> "write"]} IN
       \/ /\ Writable(s, "fwd")
          /\ stream' = [stream EXCEPT ![s].fwd = Append(@, Packet(s))]
          /\ outbound' = [outbound EXCEPT ![Client] = rest \cup {[sid |-> s, step |-> "read"]}]
          /\ UNCHANGED outcome
       \/ /\ ~Writable(s, "fwd")
          /\ stream' = DropA(stream, s)
          /\ outbound' = [outbound EXCEPT ![Client] = rest]
          /\ outcome' = [outcome EXCEPT ![s[1]] = "write"]
    /\ UNCHANGED <<config, stranded, route, stale, want, inbound, router, error, accepted, got,
                   sent, faults>>

\* Mutant of Authenticated: the tag is not checked.
AuthenticatedAlways(s, ok) == TRUE

\* crypto::decrypt of the tag with the secret of the request
Authenticated(s, ok) == ok.secret = s[1]

\* upgrade_outbound at the client: the kind and, after OK, the tag.  The tag is taken
\* with a single read, which may come up short when relays split it.
ReadReply(s) ==
    /\ [sid |-> s, step |-> "read"] \in outbound[Client]
    /\ outbound' = [outbound EXCEPT ![Client] = @ \ {[sid |-> s, step |-> "read"]}]
    /\ \/ /\ stream[s].bwd # <<>>
          /\ LET r == Head(stream[s].bwd)
                 read == [stream EXCEPT ![s].bwd = Tail(@)]
             IN \/ /\ r.type = "ok" /\ Authenticated(s, r)
                   /\ outcome' = [outcome EXCEPT ![s[1]] = "ok"]
                   /\ stream' = read
                   /\ UNCHANGED faults
                \/ /\ r.type = "ok"
                   /\ Authenticated(s, r) => faults < config.faults
                   /\ faults' = IF Authenticated(s, r) THEN faults + 1 ELSE faults
                   /\ outcome' = [outcome EXCEPT ![s[1]] = "auth"]
                   /\ stream' = DropA(read, s)
                \/ /\ r.type \in Code
                   /\ outcome' = [outcome EXCEPT ![s[1]] = r.type]
                   /\ stream' = DropA(read, s)
                   /\ UNCHANGED faults
       \/ /\ Eof(s, "bwd")
          /\ outcome' = [outcome EXCEPT ![s[1]] = "closed"]
          /\ stream' = DropA(stream, s)
          /\ UNCHANGED faults
    /\ UNCHANGED <<config, stranded, route, stale, want, inbound, router, error, accepted, got,
                   sent>>

\* Mutant of Occupied: a relay counts only what waits for a stream.
OccupiedPending(n, valid) == Len(want[n]) > config.max_streams

\* poll_outbound: valid routes and connections waiting for their stream
Occupied(n, valid) == valid + Len(want[n]) > config.max_streams

\* upgrade_outbound at a relay and poll_outbound: the packet is passed on first, then
\* the route is admitted, or the circuit refused with OCCUPIED_PEER, or dropped.  Idle
\* routes are closed on the way (Route::try_close).
Continue(n, s) ==
    LET swept == [r \in DOMAIN router[n] |-> IF router[n][r] = "live" THEN "live" ELSE "closed"]
        valid == Cardinality({r \in DOMAIN router[n] : router[n][r] = "live"})
        written == [stream EXCEPT ![s].fwd = Append(@, Packet(s))]
    IN /\ n # Client
       /\ [sid |-> s, step |-> "write"] \in outbound[n]
       /\ outbound' = [outbound EXCEPT ![n] = @ \ {[sid |-> s, step |-> "write"]}]
       /\ \/ /\ ~Writable(s, "fwd")
             /\ stream' = DropA(DropB(stream, Prev(s)), s)
             /\ UNCHANGED <<config, stranded, router, error>>
          \/ /\ Writable(s, "fwd") /\ ~Occupied(n, valid)
             /\ stream' = written
             /\ router' = [router EXCEPT ![n] = With(swept, Prev(s), "live")]
             /\ UNCHANGED error
          \/ /\ Writable(s, "fwd") /\ Occupied(n, valid)
             /\ router' = [router EXCEPT ![n] = swept]
             /\ \/ /\ Cardinality(DOMAIN error[n]) > MaxErrorStreams
                   /\ stream' = DropA(DropB(written, Prev(s)), s)
                   /\ UNCHANGED error
                \/ /\ Cardinality(DOMAIN error[n]) <= MaxErrorStreams
                   /\ stream' = DropA(written, s)
                   /\ error' = [error EXCEPT ![n] = With(@, Prev(s), "occupied")]
       /\ UNCHANGED <<config, stranded, route, stale, want, inbound, outcome, accepted, got,
                      sent, faults>>

\* close_stream: the code is written and the stream dropped
CloseStream(n, s) ==
    /\ s \in DOMAIN error[n]
    /\ stream' = DropB(IF Writable(s, "bwd")
                       THEN [stream EXCEPT ![s].bwd = Append(@, [type |-> error[n][s]])]
                       ELSE stream, s)
    /\ error' = [error EXCEPT ![n] = [r \in DOMAIN @ \ {s} |-> @[r]]]
    /\ UNCHANGED <<config, stranded, route, stale, want, inbound, outbound, router, outcome,
                   accepted, got, sent, faults>>

Others == <<config, stranded, route, stale, want, inbound, outbound, error, outcome, accepted, faults>>

\* Mutant of Rest: what was written stays in the buffer (readable_start += n).
RestKept(seq) == seq

\* A Channel takes out of its source what it wrote to its sink.
Rest(seq) == Tail(seq)

\* Route::poll, forward and backward: one item of the stream moves on; a route that is
\* polled is not idle.
Forward(n, s) ==
    /\ s \in DOMAIN router[n] /\ router[n][s] # "closed"
    /\ stream[s].fwd # <<>> /\ Writable(After(s), "fwd")
    /\ stream' = [stream EXCEPT ![s].fwd = Rest(@), ![After(s)].fwd = Append(@, Head(stream[s].fwd))]
    /\ router' = [router EXCEPT ![n][s] = "live"]
    /\ UNCHANGED <<Others, got, sent>>

Backward(n, s) ==
    /\ s \in DOMAIN router[n] /\ router[n][s] # "closed"
    /\ stream[After(s)].bwd # <<>> /\ Writable(s, "bwd")
    /\ stream' = [stream EXCEPT ![After(s)].bwd = Tail(@),
                                ![s].bwd = Append(@, Head(stream[After(s)].bwd))]
    /\ router' = [router EXCEPT ![n][s] = "live"]
    /\ UNCHANGED <<Others, got, sent>>

\* Mutant of Ends: only the end of the incoming stream is noticed.
EndsForward(n, s) == \/ router[n][s] = "closed"
                     \/ Eof(s, "fwd")
                     \/ stream[s].fwd # <<>> /\ ~Writable(After(s), "fwd")

\* Route::poll fails: closed as idle, the end of either stream, a write that fails
Ends(n, s) == \/ router[n][s] = "closed"
              \/ Eof(s, "fwd") \/ Eof(After(s), "bwd")
              \/ stream[s].fwd # <<>> /\ ~Writable(After(s), "fwd")
              \/ stream[After(s)].bwd # <<>> /\ ~Writable(s, "bwd")

\* The route is dropped with both of its streams.
DropRoute(s) == DropB(DropA(stream, After(s)), s)

RouteEnds(n, s) ==
    /\ s \in DOMAIN router[n] /\ Ends(n, s)
    /\ stream' = DropRoute(s)
    /\ router' = [router EXCEPT ![n] = [r \in DOMAIN @ \ {s} |-> @[r]]]
    /\ UNCHANGED <<Others, got, sent>>

\* Nothing was polled on the route for keep_alive_interval.
Idle(n, s) ==
    /\ faults < config.faults
    /\ faults' = faults + 1
    /\ s \in DOMAIN router[n] /\ router[n][s] = "live"
    /\ router' = [router EXCEPT ![n][s] = "idle"]
    /\ UNCHANGED <<config, stranded, route, stale, want, stream, inbound, outbound, error,
                   outcome, accepted, got, sent>>
-----------------------------------------------------------------------------
\* The two ends of an established path: the client writes after its OutboundStream
\* event, the recipient after its InboundStream event; each reads what arrives, and
\* drops its stream when it is done with it or when it ends.
ClientEnd(p) == outcome[p] = "ok" /\ stream[<<p, 1>>].a
ServerEnd(p) == accepted[p] # {} /\ stream[<<p, 3>>].b

Data(p, dir) == [type |-> "data", path |-> p, dir |-> dir, n |-> sent[p][dir] + 1]

Write(p) ==
    /\ \/ /\ ClientEnd(p) /\ Writable(<<p, 1>>, "fwd") /\ sent[p].fwd < config.data
          /\ stream' = [stream EXCEPT ![<<p, 1>>].fwd = Append(@, Data(p, "fwd"))]
          /\ sent' = [sent EXCEPT ![p].fwd = @ + 1]
       \/ /\ ServerEnd(p) /\ Writable(<<p, 3>>, "bwd") /\ sent[p].bwd < config.data
          /\ stream' = [stream EXCEPT ![<<p, 3>>].bwd = Append(@, Data(p, "bwd"))]
          /\ sent' = [sent EXCEPT ![p].bwd = @ + 1]
    /\ UNCHANGED <<Others, router, got>>

Read(p) ==
    /\ \/ /\ ServerEnd(p) /\ stream[<<p, 3>>].fwd # <<>>
          /\ stream' = [stream EXCEPT ![<<p, 3>>].fwd = Tail(@)]
          /\ got' = [got EXCEPT ![p].fwd = Append(@, Head(stream[<<p, 3>>].fwd))]
       \/ /\ ClientEnd(p) /\ stream[<<p, 1>>].bwd # <<>>
          /\ stream' = [stream EXCEPT ![<<p, 1>>].bwd = Tail(@)]
          /\ got' = [got EXCEPT ![p].bwd = Append(@, Head(stream[<<p, 1>>].bwd))]
    /\ UNCHANGED <<Others, router, sent>>

ClientDone(p) ==
    /\ ClientEnd(p)
    /\ stream' = DropA(stream, <<p, 1>>)
    /\ UNCHANGED <<Others, router, got, sent>>

ServerDone(p) ==
    /\ ServerEnd(p) /\ Eof(<<p, 3>>, "fwd")
    /\ stream' = DropB(stream, <<p, 3>>)
    /\ UNCHANGED <<Others, router, got, sent>>

\* The connection under a stream is lost with what was in flight.
ConnectionLost(s) ==
    /\ faults < config.faults
    /\ faults' = faults + 1
    /\ stream[s].a \/ stream[s].b
    /\ ~stream[s].broken
    /\ stream' = [stream EXCEPT ![s].broken = TRUE, ![s].fwd = <<>>, ![s].bwd = <<>>]
    /\ UNCHANGED <<config, stranded, route, stale, want, inbound, outbound, router, error,
                   outcome, accepted, got, sent>>
-----------------------------------------------------------------------------
\* One node's poll: everything its behaviour can do by itself
Poll(n, s) == \/ ReadPacket(n, s) \/ ReadPacketFails(n, s)
              \/ n = Client /\ (WriteRequest(s) \/ ReadReply(s))
              \/ Continue(n, s) \/ CloseStream(n, s) \/ RouteEnds(n, s)
Relay(n, s) == Forward(n, s) \/ Backward(n, s)

\* What the nodes do by themselves as long as any of it can be done: they poll their
\* behaviours, StreamRequests answers unless the peer is stranded, both ends read.  Each
\* step uses up a packet, an item, a request or a route, so it comes to rest.
System == \/ \E n \in Node, s \in Sid : Poll(n, s) \/ Relay(n, s)
          \/ \E n \in Node, t \in Servers : <<n, t>> \notin stranded /\ StreamReady(n, t)
          \/ \E p \in Paths : Read(p) \/ ServerDone(p)

Next == \/ \E p \in Paths, r \in Routes, k \in {0, 2, 3} : OpenPath(p, r, k)
        \/ System
        \/ \E n \in Node, t \in Servers : StreamReady(n, t) \/ StreamFailed(n, t) \/ Strand(n, t)
        \/ \E n \in Node, s \in Sid : Idle(n, s)
        \/ \E p \in Paths : Write(p) \/ ClientDone(p)
        \/ \E s \in Sid : ConnectionLost(s)

Spec == Init /\ [][Next]_vars
-----------------------------------------------------------------------------
\* A client that is told its path is open shares its secret with the recipient of that
\* path, whatever relays and outdated keys did on the way.
Authentic == \A p \in Paths : outcome[p] = "ok" => p \in accepted[p]

\* The ends of a path read exactly what the other end wrote on it, in order and from
\* the start: relays never mix two circuits, repeat or skip an item, and no part of the
\* handshake is taken for data.
Delivered ==
    \A p \in Paths : outcome[p] = "ok" => \A dir \in {"fwd", "bwd"} :
      \A i \in DOMAIN got[p][dir] :
        got[p][dir][i] = [type |-> "data", path |-> p, dir |-> dir, n |-> i]

\* A relay forwards at most one circuit more than max_streams, however many packets
\* were passed on before their turn came to be admitted.
RoutesBounded == \A n \in Node :
    Cardinality({s \in DOMAIN router[n] : router[n][s] = "live"}) <= config.max_streams + 1

TornDown(p) == \A h \in Hop : ~stream[<<p, h>>].a /\ ~stream[<<p, h>>].b

\* The client or a relay waits for a stream of path p to a stranded peer.
Stuck(p) == \E n \in Node : \E i \in DOMAIN want[n] :
                want[n][i][1] = p /\ <<n, To(want[n][i])>> \in stranded

\* When the nodes have nothing left to do, every path that was opened has been answered
\* with an OutboundStream event, and one that was answered with a failure has left nothing
\* behind: relays forgot it, and the recipient, who may have reported an InboundStream
\* already, saw it end.  Only a path whose next stream leads to a stranded peer may wait
\* for ever; the others are answered all the same.
PathsResolve == ~ENABLED System => \A p \in Paths :
    \/ outcome[p] \in {"none", "ok"}
    \/ outcome[p] \in Failure /\ TornDown(p)
    \/ Stuck(p)
=============================================================================
