------------------------------ MODULE Gateway -------------------------------
(***************************************************************************)
(* The gateway of a server: libp2p asks it before and after an inbound     *)
(* connection is negotiated, and it has the subscription of the node on    *)
(* the other end looked up on the chain while the connection is already    *)
(* in use.  Connections to the allowed port are not validated              *)
(* (should_validate) and leave no trace here, and neither does the end of  *)
(* a connection (on_swarm_event is empty).  Validities and the clock are   *)
(* in the same unit; an LruCache is a sequence, latest used first.         *)
(***************************************************************************)
EXTENDS Integers, Sequences, Subsequences

CONSTANTS Nodes, Ips,
          Loopback,     \* the addresses of Ips that are never banned
          AllowedCap,   \* ALLOWED_CACHE_SIZE
          BannedCap,    \* BANNED_CACHE_SIZE
          BanTimeout,   \* BAN_TIMEOUT
          Expiries,     \* when subscriptions may run out
          MaxSockets,   \* bound: inbound connections
          MaxClock      \* bound on the clock

ASSUME GatewayAssumption ==
    /\ {AllowedCap, BannedCap, MaxSockets} \subseteq Nat \ {0}
    /\ {BanTimeout, MaxClock} \subseteq Nat /\ Expiries \subseteq Nat
    /\ Loopback \subseteq Ips

VARIABLES allowed, banned,      \* LruCache<NodeId, _> and LruCache<IpAddr, _>
          progressing_auths,    \* the addresses whose nodes are being looked up
          auths,                \* the lookups under way
          sockets,              \* the inbound connections, in order of arrival
          clock,
          granted               \* history: the latest validity the chain gave a node, or -1

gateway == <<allowed, banned, progressing_auths, auths, sockets, clock, granted>>

\* LruCache::get, put and pop
Has(lru, k) == \E i \in DOMAIN lru : lru[i].key = k
Lookup(lru, k) == lru[CHOOSE i \in DOMAIN lru : lru[i].key = k].until
Pop(lru, k) == At(lru, {i \in DOMAIN lru : lru[i].key # k})
LruPut(lru, k, v, cap) ==
    LET all == <<[key |-> k, until |-> v]>> \o Pop(lru, k)
    IN SubSeq(all, 1, IF Len(all) > cap THEN cap ELSE Len(all))
Used(lru, k) == LruPut(lru, k, Lookup(lru, k), Len(lru))

\* is_valid, for an entry that is there
Valid(lru, k) == Has(lru, k) /\ clock < Lookup(lru, k)

Opened == {i \in DOMAIN sockets : sockets[i].st = "open"}

GatewayInit ==
    /\ allowed = <<>> /\ banned = <<>>
    /\ progressing_auths = {} /\ auths = {} /\ sockets = <<>>
    /\ clock = 0
    /\ granted = [n \in Nodes |-> -1]

\* handle_pending_inbound_connection.  A ban that ran out is forgotten; one in
\* force, or a lookup under way for the address, refuses the connection.
Arrive(node, ip) ==
    /\ Len(sockets) < MaxSockets
    /\ ip \notin progressing_auths
    /\ \/ ~Has(banned, ip) /\ UNCHANGED banned
       \/ Has(banned, ip) /\ ~Valid(banned, ip) /\ banned' = Pop(banned, ip)
    /\ sockets' = Append(sockets, [node |-> node, ip |-> ip, st |-> "pending", since |-> 0])
    /\ UNCHANGED <<allowed, progressing_auths, auths, clock, granted>>

\* handle_pending_inbound_connection of a banned address: the lookup in the cache
\* makes its entry the latest used.
ArriveBanned(ip) ==
    /\ ip \notin progressing_auths
    /\ Valid(banned, ip)
    /\ banned' = Used(banned, ip)
    /\ UNCHANGED <<allowed, progressing_auths, auths, sockets, clock, granted>>

\* Mutant of Checked: one lookup per address is enough.
CheckedOnce(i) ==
    LET s == sockets[i] IN
    IF s.ip \in progressing_auths THEN UNCHANGED <<progressing_auths, auths>>
    ELSE /\ progressing_auths' = progressing_auths \cup {s.ip}
         /\ auths' = auths \cup {[id |-> i, node |-> s.node, ip |-> s.ip, asked |-> clock]}

\* The lookup of a node that is not known to be allowed; Auth::auth reads the
\* clock when it is called.
Checked(i) ==
    LET s == sockets[i] IN
    /\ progressing_auths' = progressing_auths \cup {s.ip}
    /\ auths' = auths \cup {[id |-> i, node |-> s.node, ip |-> s.ip, asked |-> clock]}

\* handle_established_inbound_connection.  It looks neither at the bans nor at the
\* lookups that began since the connection was pending.
Admit(i) ==
    LET n == sockets[i].node IN
    /\ sockets[i].st = "pending"
    /\ sockets' = [sockets EXCEPT ![i].st = "open", ![i].since = clock]
    /\ \/ /\ Valid(allowed, n)
          /\ allowed' = Used(allowed, n)
          /\ UNCHANGED <<progressing_auths, auths>>
       \/ /\ ~Valid(allowed, n)
          /\ allowed' = Pop(allowed, n)
          /\ Checked(i)
    /\ UNCHANGED <<banned, clock, granted>>

\* poll, the chain found a subscription that was valid when it was asked
Pass(a, expiry) ==
    /\ a \in auths /\ a.asked <= expiry
    /\ auths' = auths \ {a}
    /\ progressing_auths' = progressing_auths \ {a.ip}
    /\ allowed' = LruPut(allowed, a.node, expiry, AllowedCap)
    /\ granted' = [granted EXCEPT ![a.node] = IF @ < expiry THEN expiry ELSE @]
    /\ UNCHANGED <<banned, sockets, clock>>

\* poll, the chain found none, one that ran out, or could not be asked: the address
\* is banned and the swarm closes every connection of the node.
Ban(a) ==
    /\ a \in auths
    /\ auths' = auths \ {a}
    /\ progressing_auths' = progressing_auths \ {a.ip}
    /\ banned' = IF a.ip \in Loopback THEN banned
                 ELSE LruPut(banned, a.ip, a.asked + BanTimeout, BannedCap)
    /\ sockets' = [i \in DOMAIN sockets |->
                     IF sockets[i].node = a.node /\ sockets[i].st = "open"
                     THEN [sockets[i] EXCEPT !.st = "closed"] ELSE sockets[i]]
    /\ UNCHANGED <<allowed, clock, granted>>

Second ==
    /\ clock < MaxClock
    /\ clock' = clock + 1
    /\ UNCHANGED <<allowed, banned, progressing_auths, auths, sockets, granted>>

GatewayNext ==
    \/ \E n \in Nodes, ip \in Ips : Arrive(n, ip)
    \/ \E ip \in Ips : ArriveBanned(ip)
    \/ \E i \in DOMAIN sockets : Admit(i)
    \/ \E a \in auths : Ban(a) \/ \E e \in Expiries : Pass(a, e)
    \/ Second

GatewaySpec == GatewayInit /\ [][GatewayNext]_gateway
-----------------------------------------------------------------------------
\* A connection stays open unchecked only while the chain is being asked about its
\* node: otherwise the node had a subscription that was valid when the connection was
\* opened.  Connections of several nodes and addresses may be pending, be established
\* and be judged in any order (the two handlers and poll of gateway::Behaviour), with
\* caches that forget and entries that run out in between.
NobodyUnchecked ==
    \A i \in Opened : \/ \E a \in auths : a.node = sockets[i].node
                      \/ sockets[i].since <= granted[sockets[i].node]
=============================================================================
