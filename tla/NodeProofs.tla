------------------------------ MODULE NodeProofs -----------------------------
(***************************************************************************)
(* What a server keeps of other nodes.                                     *)
(*                                                                         *)
(* Gateway: no connection stays open unchecked, for any number of nodes,   *)
(* addresses and connections and any sizes of the two caches.              *)
(* Reputation: a node is punished on grounds only, for every threshold,    *)
(* weight of a vote and set of severities.                                 *)
(* StreamCache: the streams two servers keep for the next request carry no *)
(* answer to an earlier one, and the callee does not give one up while a   *)
(* request is on its way, for any sizes of the cache, any lifetime and any *)
(* delays the margin of the caller covers.                                 *)
(* Streaming: no request for a stream is lost or answered twice, for every *)
(* number of peers, connections, requests and incoming streams; and every  *)
(* step of Streaming is a step of StreamRequests, or leaves its state      *)
(* alone.                                                                  *)
(***************************************************************************)
EXTENDS Gateway, Reputation, StreamCache, Streaming, SubsequencesProofs, SequenceTheorems

Socket == [node : Nodes, ip : Ips, st : {"pending", "open", "closed"}, since : Nat]
Auth == [id : Nat, node : Nodes, ip : Ips, asked : Nat]

\* The entries the cache of allowed nodes may hold: none is valid for longer than the
\* chain said.
Covered(g) == {e \in [key : Nodes, until : Nat] : e.until <= g[e.key]}

TypeInv == /\ allowed \in Seq([key : Nodes, until : Nat])
           /\ sockets \in Seq(Socket)
           /\ auths \subseteq Auth
           /\ clock \in Nat
           /\ granted \in [Nodes -> Nat \cup {-1}]

\* The chain is being asked about the connection's node and was asked after it opened,
\* or has answered that the node's subscription was valid then.
Judged(i) == \/ \E a \in auths : a.node = sockets[i].node /\ sockets[i].since <= a.asked
             \/ sockets[i].since <= granted[sockets[i].node]

\* The inductive invariant.  A lookup that is answered covers the connections that
\* opened before it was asked; NobodyUnchecked alone does not say that there are no
\* others left to it.
GatewayInv == /\ TypeInv
              /\ allowed \in Seq(Covered(granted))
              /\ \A i \in Opened : Judged(i)

LEMMA GatewayInvInit == GatewayInit => GatewayInv
<1> SUFFICES ASSUME GatewayInit PROVE GatewayInv
  OBVIOUS
<1>1. <<>> \in Seq([key : Nodes, until : Nat]) /\ <<>> \in Seq(Socket) /\ <<>> \in Seq(Covered(granted))
  BY SMT
<1>2. TypeInv
  BY <1>1, SMT DEF GatewayInit, TypeInv
<1>3. Opened = {}
  BY SMT DEF GatewayInit, Opened
<1> QED BY <1>1, <1>2, <1>3 DEF GatewayInit, GatewayInv

\* What the cache operations keep of the entries.
LEMMA PopKeeps ==
    ASSUME NEW S, NEW lru \in Seq(S), NEW k
    PROVE  Pop(lru, k) \in Seq(S)
BY AtEmbeds DEF Pop

LEMMA PutKeeps ==
    ASSUME NEW S, NEW lru \in Seq(S), NEW k, NEW v, [key |-> k, until |-> v] \in S, NEW cap \in Nat
    PROVE  LruPut(lru, k, v, cap) \in Seq(S)
<1> DEFINE rest == Pop(lru, k)
           e == [key |-> k, until |-> v]
           all == <<e>> \o rest
           n == IF Len(all) > cap THEN cap ELSE Len(all)
<1>1. rest \in Seq(S)
  BY PopKeeps
<1>2. all \in Seq(S)
  <2> HIDE DEF rest, e
  <2> QED BY <1>1, SMT DEF e
<1>3. n \in 0 .. Len(all)
  <2> HIDE DEF all
  <2> QED BY <1>2, SMT
<1>4. SubSeq(all, 1, n) \in Seq(S)
  <2> HIDE DEF all, n
  <2> QED BY <1>2, <1>3, SMT
<1>5. LruPut(lru, k, v, cap) = SubSeq(all, 1, n)
  BY DEF LruPut
<1> HIDE DEF n, all
<1> QED BY <1>4, <1>5

LEMMA LookupFinds ==
    ASSUME NEW S, NEW lru \in Seq(S), NEW k, Has(lru, k)
    PROVE  \E e \in S : e.key = k /\ Lookup(lru, k) = e.until
<1>1. PICK i \in DOMAIN lru : lru[i].key = k
  BY DEF Has
<1> DEFINE j == CHOOSE j \in DOMAIN lru : lru[j].key = k
<1>2. j \in DOMAIN lru /\ lru[j].key = k
  BY <1>1
<1>3. lru[j] \in S
  <2> HIDE DEF j
  <2> QED BY <1>2, SMT
<1> QED BY <1>2, <1>3 DEF Lookup

\* The entry found is put back as it is.
LEMMA UsedKeeps ==
    ASSUME NEW g, NEW lru \in Seq(Covered(g)), NEW k, Has(lru, k)
    PROVE  Used(lru, k) \in Seq(Covered(g)) /\ Lookup(lru, k) \in Nat /\ Lookup(lru, k) <= g[k]
<1>1. PICK e \in Covered(g) : e.key = k /\ Lookup(lru, k) = e.until
  BY LookupFinds
<1>2. [key |-> k, until |-> Lookup(lru, k)] = e
  BY <1>1 DEF Covered
<1>3. Len(lru) \in Nat
  BY SMT
<1>4. Used(lru, k) \in Seq(Covered(g))
  <2> DEFINE S == Covered(g)
             v == Lookup(lru, k)
             cap == Len(lru)
  <2>1. [key |-> k, until |-> v] \in S /\ lru \in Seq(S) /\ cap \in Nat
    BY <1>2, <1>3
  <2>2. LruPut(lru, k, v, cap) \in Seq(S)
    <3> HIDE DEF S, v, cap
    <3> QED BY <2>1, PutKeeps
  <2> QED BY <2>2 DEF Used
<1> QED BY <1>1, <1>4 DEF Covered

\* A sequence keeps its type when the set of its elements grows.
LEMMA SeqMonotone ==
    ASSUME NEW S, NEW T, S \subseteq T, NEW s \in Seq(S)
    PROVE  s \in Seq(T)
BY SMT
-----------------------------------------------------------------------------
LEMMA ArriveStep ==
    ASSUME GatewayInv, NEW node \in Nodes, NEW ip \in Ips, Arrive(node, ip)
    PROVE  GatewayInv'
<1> DEFINE s == [node |-> node, ip |-> ip, st |-> "pending", since |-> 0]
<1>1. s \in Socket
  BY SMT DEF Socket
<1>2. /\ sockets' = Append(sockets, s) /\ sockets \in Seq(Socket)
      /\ UNCHANGED <<allowed, auths, clock, granted>>
  BY DEF Arrive, GatewayInv, TypeInv
<1>3. s.st = "pending"
  OBVIOUS
<1> HIDE DEF s
<1>4. /\ sockets' \in Seq(Socket)
      /\ DOMAIN sockets' = DOMAIN sockets \cup {Len(sockets) + 1}
      /\ sockets'[Len(sockets) + 1] = s
      /\ \A i \in DOMAIN sockets : sockets'[i] = sockets[i]
  BY <1>1, <1>2, SMT
<1>5. TypeInv'
  BY <1>2, <1>4 DEF GatewayInv, TypeInv
<1>6. ASSUME NEW i \in Opened'
      PROVE  Judged(i)'
  <2>1. i \in Opened /\ sockets'[i] = sockets[i]
    BY <1>3, <1>4 DEF Opened
  <2> QED BY <1>2, <2>1 DEF GatewayInv, Judged
<1> QED BY <1>2, <1>5, <1>6 DEF GatewayInv

LEMMA AdmitStep ==
    ASSUME GatewayInv, NEW i \in DOMAIN sockets, Admit(i)
    PROVE  GatewayInv'
<1> DEFINE n == sockets[i].node
<1>1. /\ sockets \in Seq(Socket) /\ sockets[i] \in Socket /\ clock \in Nat
      /\ granted \in [Nodes -> Nat \cup {-1}] /\ auths \subseteq Auth
      /\ allowed \in Seq(Covered(granted))
  BY SMT DEF GatewayInv, TypeInv
<1>2. n \in Nodes /\ sockets[i].ip \in Ips /\ i \in Nat
  BY <1>1, SMT DEF Socket
<1>3. /\ clock' = clock /\ granted' = granted
      /\ sockets' = [sockets EXCEPT ![i] = [sockets[i] EXCEPT !.st = "open", !.since = clock]]
  BY DEF Admit
<1> DEFINE s == [sockets[i] EXCEPT !.st = "open", !.since = clock]
<1>4. s \in Socket /\ s.node = n /\ s.since = clock
  BY <1>1 DEF Socket
<1>5. /\ sockets' \in Seq(Socket) /\ DOMAIN sockets' = DOMAIN sockets /\ sockets'[i] = s
      /\ \A j \in DOMAIN sockets : j # i => sockets'[j] = sockets[j]
  <2>1. sockets' = [sockets EXCEPT ![i] = s]
    BY <1>3
  <2> HIDE DEF s
  <2> QED BY <1>1, <1>4, <2>1, SMT
<1>6. auths \subseteq auths' /\ auths' \subseteq Auth
  BY <1>1, <1>2 DEF Admit, Checked, Auth
<1>7. allowed' \in Seq(Covered(granted))
  <2>1. CASE Valid(allowed, n) /\ allowed' = Used(allowed, n)
    BY <1>1, <2>1, UsedKeeps DEF Valid
  <2>2. CASE allowed' = Pop(allowed, n)
    BY <1>1, <2>2, PopKeeps
  <2> QED BY <2>1, <2>2 DEF Admit
<1>8. TypeInv'
  <2>1. Covered(granted) \subseteq [key : Nodes, until : Nat]
    BY DEF Covered
  <2>2. allowed' \in Seq([key : Nodes, until : Nat])
    BY <1>7, <2>1, SeqMonotone
  <2> QED BY <1>1, <1>3, <1>5, <1>6, <2>2 DEF TypeInv
<1>9. Judged(i)'
  <2>1. CASE Valid(allowed, n)
    <3>1. clock < Lookup(allowed, n) /\ Lookup(allowed, n) \in Nat /\ Lookup(allowed, n) <= granted[n]
      BY <1>1, <2>1, UsedKeeps DEF Valid
    <3>2. clock <= granted[n]
      <4> HIDE DEF n
      <4> QED BY <1>1, <1>2, <3>1, SMT
    <3> QED BY <1>3, <1>4, <1>5, <3>2 DEF Judged
  <2>2. CASE ~Valid(allowed, n)
    <3> DEFINE a == [id |-> i, node |-> sockets[i].node, ip |-> sockets[i].ip, asked |-> clock]
    <3>1. a \in auths'
      BY <2>2 DEF Admit, Checked
    <3>2. a.node = n /\ a.asked = clock /\ clock <= clock
      BY <1>1, SMT
    <3> HIDE DEF a
    <3> QED BY <1>4, <1>5, <3>1, <3>2 DEF Judged
  <2> QED BY <2>1, <2>2
<1>10. ASSUME NEW j \in Opened'
       PROVE  Judged(j)'
  <2>1. CASE j = i
    BY <1>9, <2>1
  <2>2. CASE j # i
    <3>1. j \in Opened /\ sockets'[j] = sockets[j]
      BY <1>5, <2>2 DEF Opened
    <3> QED BY <1>3, <1>6, <3>1 DEF GatewayInv, Judged
  <2> QED BY <2>1, <2>2
<1> QED BY <1>3, <1>7, <1>8, <1>10 DEF GatewayInv

LEMMA PassStep ==
    ASSUME GatewayInv, NEW a \in auths, NEW expiry \in Expiries, Pass(a, expiry)
    PROVE  GatewayInv'
<1>1. /\ a \in Auth /\ a.node \in Nodes /\ a.asked \in Nat /\ expiry \in Nat /\ a.asked <= expiry
      /\ granted \in [Nodes -> Nat \cup {-1}] /\ sockets \in Seq(Socket)
      /\ UNCHANGED <<sockets, clock>> /\ auths' = auths \ {a}
  BY GatewayAssumption DEF GatewayInv, TypeInv, Pass, Auth
<1>2. /\ granted' \in [Nodes -> Nat \cup {-1}] /\ expiry <= granted'[a.node]
      /\ \A n \in Nodes : granted[n] <= granted'[n]
  BY <1>1, SMT DEF Pass
<1>3. allowed' \in Seq(Covered(granted'))
  <2>1. Covered(granted) \subseteq Covered(granted')
    <3> SUFFICES ASSUME NEW e \in Covered(granted) PROVE e \in Covered(granted')
      OBVIOUS
    <3>1. e \in [key : Nodes, until : Nat] /\ e.until <= granted[e.key]
      BY DEF Covered
    <3>2. e.key \in Nodes /\ e.until \in Nat
      BY <3>1
    <3>3. e.until <= granted'[e.key]
      BY <1>1, <1>2, <3>1, <3>2, SMT
    <3> QED BY <3>1, <3>3 DEF Covered
  <2>2. allowed \in Seq(Covered(granted'))
    BY <2>1, SeqMonotone DEF GatewayInv
  <2>3. [key |-> a.node, until |-> expiry] \in Covered(granted')
    BY <1>1, <1>2 DEF Covered
  <2>4. allowed' = LruPut(allowed, a.node, expiry, AllowedCap) /\ AllowedCap \in Nat
    BY GatewayAssumption DEF Pass
  <2> DEFINE S == Covered(granted')
             n == a.node
  <2> HIDE DEF S, n
  <2>5. LruPut(allowed, n, expiry, AllowedCap) \in Seq(S)
    BY <2>2, <2>3, <2>4, PutKeeps DEF S, n
  <2> QED BY <2>4, <2>5 DEF S, n
<1>4. TypeInv'
  <2>1. Covered(granted') \subseteq [key : Nodes, until : Nat]
    BY DEF Covered
  <2>2. allowed' \in Seq([key : Nodes, until : Nat])
    BY <1>3, <2>1, SeqMonotone
  <2> QED BY <1>1, <1>2, <2>2 DEF GatewayInv, TypeInv
<1>5. ASSUME NEW i \in Opened'
      PROVE  Judged(i)'
  <2> DEFINE n == sockets[i].node
             t == sockets[i].since
  <2>1. i \in Opened /\ sockets'[i] = sockets[i] /\ sockets[i] \in Socket
    <3>1. i \in DOMAIN sockets /\ i \in Opened
      BY <1>1 DEF Opened
    <3> QED BY <1>1, <3>1, SMT
  <2>2. n \in Nodes /\ t \in Nat
    BY <2>1 DEF Socket
  <2>3. CASE t <= granted[n]
    <3>1. t <= granted'[n]
      <4> HIDE DEF n, t
      <4> QED BY <1>1, <1>2, <2>2, <2>3, SMT
    <3> QED BY <2>1, <3>1 DEF Judged
  <2>4. CASE \E b \in auths : b.node = n /\ t <= b.asked
    <3>1. PICK b \in auths : b.node = n /\ t <= b.asked
      BY <2>4
    <3>2. CASE b = a
      <4>1. t <= granted'[n]
        <5>1. n = a.node /\ t <= a.asked
          BY <3>1, <3>2
        <5> HIDE DEF n, t
        <5> QED BY <1>1, <1>2, <2>2, <5>1, SMT
      <4> QED BY <2>1, <4>1 DEF Judged
    <3>3. CASE b # a
      BY <1>1, <2>1, <3>1, <3>3 DEF Judged
    <3> QED BY <3>2, <3>3
  <2> QED BY <2>1, <2>3, <2>4 DEF GatewayInv, Judged
<1> QED BY <1>3, <1>4, <1>5 DEF GatewayInv

LEMMA BanStep ==
    ASSUME GatewayInv, NEW a \in auths, Ban(a)
    PROVE  GatewayInv'
<1> DEFINE Shut(s) == IF s.node = a.node /\ s.st = "open" THEN [s EXCEPT !.st = "closed"] ELSE s
<1>1. /\ UNCHANGED <<allowed, clock, granted>> /\ auths' = auths \ {a}
      /\ sockets' = [i \in DOMAIN sockets |-> Shut(sockets[i])]
      /\ sockets \in Seq(Socket)
  BY DEF Ban, GatewayInv, TypeInv
<1>2. \A s \in Socket : Shut(s) \in Socket
  BY DEF Socket
<1>3. sockets' \in Seq(Socket) /\ DOMAIN sockets' = DOMAIN sockets
  <2> HIDE DEF Shut
  <2> QED BY <1>1, <1>2, SMT
<1>4. TypeInv'
  BY <1>1, <1>3 DEF GatewayInv, TypeInv
<1>5. ASSUME NEW i \in Opened'
      PROVE  Judged(i)'
  <2>1. i \in DOMAIN sockets /\ sockets'[i] = Shut(sockets[i]) /\ sockets'[i].st = "open"
    BY <1>1, <1>3 DEF Opened
  <2>2. sockets[i] \in Socket
    BY <1>1, <2>1, SMT
  <2>3. sockets'[i] = sockets[i] /\ sockets[i].node # a.node /\ i \in Opened
    BY <2>1, <2>2 DEF Opened, Socket
  <2>4. CASE sockets[i].since <= granted[sockets[i].node]
    BY <1>1, <2>3, <2>4 DEF Judged
  <2>5. CASE \E b \in auths : b.node = sockets[i].node /\ sockets[i].since <= b.asked
    BY <1>1, <2>3, <2>5 DEF Judged
  <2> QED BY <2>3, <2>4, <2>5 DEF GatewayInv, Judged
<1> QED BY <1>1, <1>4, <1>5 DEF GatewayInv

\* The inductive invariant holds throughout.
THEOREM GatewayInvariant == GatewaySpec => []GatewayInv
<1>1. GatewayInv /\ [GatewayNext]_gateway => GatewayInv'
  <2> SUFFICES ASSUME GatewayInv, [GatewayNext]_gateway PROVE GatewayInv'
    OBVIOUS
  <2>1. CASE \E n \in Nodes, ip \in Ips : Arrive(n, ip)
    BY <2>1, ArriveStep
  <2>2. CASE \E i \in DOMAIN sockets : Admit(i)
    BY <2>2, AdmitStep
  <2>3. CASE \E a \in auths, e \in Expiries : Pass(a, e)
    BY <2>3, PassStep
  <2>4. CASE \E a \in auths : Ban(a)
    BY <2>4, BanStep
  <2>5. CASE UNCHANGED <<allowed, auths, sockets, granted>> /\ clock' \in Nat
    BY <2>5 DEF GatewayInv, TypeInv, Opened, Judged
  <2>6. CASE \E ip \in Ips : ArriveBanned(ip)
    BY <2>5, <2>6 DEF ArriveBanned, GatewayInv, TypeInv
  <2>7. CASE Second
    <3>1. clock' \in Nat
      BY <2>7, SMT DEF Second, GatewayInv, TypeInv
    <3> QED BY <2>5, <2>7, <3>1 DEF Second
  <2>8. CASE UNCHANGED gateway
    BY <2>5, <2>8 DEF gateway, GatewayInv, TypeInv
  <2> QED BY <2>1, <2>2, <2>3, <2>4, <2>6, <2>7, <2>8 DEF GatewayNext
<1> QED BY GatewayInvInit, <1>1, PTL DEF GatewaySpec

\* A connection is open only while the chain is being asked about its node, or the
\* node's subscription was valid when it opened.
THEOREM NobodyStaysUnchecked == GatewaySpec => []NobodyUnchecked
<1>1. GatewayInv => NobodyUnchecked
  BY DEF GatewayInv, Judged, NobodyUnchecked
<1> QED BY <1>1, GatewayInvariant, PTL
-----------------------------------------------------------------------------
\* PunishedOnGrounds says nothing of ratings that have not reached the threshold, so it
\* is not inductive: Backed does.
Typed ==
    /\ ratings \in [Raters -> Int] /\ own \in [Raters -> Nat] /\ grounds \in [Raters -> Nat]
    /\ \A n \in Raters : ratings[n] >= -1
    /\ to_punish \in Seq([node : Raters, grounds : Nat])

\* A rating exceeds what the node did to this server by one vote at most, unless the
\* node has given grounds for more.
BackedNode(n) ==
    /\ own[n] <= grounds[n]
    /\ grounds[n] >= Half - VoteWeight \/ ratings[n] <= own[n] + VoteWeight
Backed == \A n \in Raters : BackedNode(n)

Inv == Typed /\ Backed /\ PunishedOnGrounds

LEMMA HalfFacts == Half \in Int /\ Half <= Threshold
BY ReputationAssumption, SMT DEF Half

\* What report_loop leaves of to_punish: the entries before the last, as they were.
LEMMA WithoutLast ==
    ASSUME NEW S, NEW q \in Seq(S), q # <<>>
    PROVE  /\ SubSeq(q, 1, Len(q) - 1) \in Seq(S)
           /\ \A k \in DOMAIN SubSeq(q, 1, Len(q) - 1) :
                k \in DOMAIN q /\ SubSeq(q, 1, Len(q) - 1)[k] = q[k]
<1>1. PICK n \in Nat : n = Len(q) - 1
  BY SMT
<1>2. DOMAIN q = 1 .. n + 1 /\ \A i \in 1 .. n : q[i] \in S
  BY <1>1, SMT
<1>3. /\ SubSeq(q, 1, n) \in Seq(S)
      /\ Len(SubSeq(q, 1, n)) = IF 1 <= n THEN n - 1 + 1 ELSE 0
      /\ \A i \in 1 .. n - 1 + 1 : SubSeq(q, 1, n)[i] = q[1 + i - 1]
  BY <1>2, SubSeqProperties, 1 \in Int, n \in Int
<1>4. DOMAIN SubSeq(q, 1, n) = 1 .. n
  BY <1>3, SMT
<1>5. \A i \in 1 .. n : SubSeq(q, 1, n)[i] = q[i]
  BY <1>3, SMT
<1> QED BY <1>1, <1>2, <1>3, <1>4, <1>5, SMT

\* Initially nobody is rated.
LEMMA InitInv == ReputationInit => Inv
BY ReputationAssumption, SMT DEF ReputationInit, Inv, Typed, Backed, BackedNode, PunishedOnGrounds

\* Rep::rate keeps the invariant if the node's own rating follows, and if the new rating
\* is backed by it.
LEMMA RateKeeps ==
    ASSUME Inv, NEW n \in Raters, NEW s \in Int, NEW o \in Nat, RateAs(n, s, o),
           \/ Worse(grounds[n], o) >= Half - VoteWeight
           \/ Added(Known(n), s) <= o + VoteWeight
    PROVE  Inv'
<1> DEFINE rat == Added(Known(n), s)
           g == Worse(grounds[n], o)
<1>1. rat \in Nat /\ g \in Nat /\ o <= g
  BY SMT DEF Inv, Typed, Added, Known, Worse
<1>2. CASE rat > Threshold
  <2>1. /\ to_punish' = Append(to_punish, [node |-> n, grounds |-> g])
        /\ ratings' = [ratings EXCEPT ![n] = 0]
        /\ own' = [own EXCEPT ![n] = 0] /\ grounds' = [grounds EXCEPT ![n] = 0]
    BY <1>2 DEF RateAs
  <2>2. g >= Half - VoteWeight
    BY <1>1, <1>2, HalfFacts, ReputationAssumption, SMT
  <2>3. Typed'
    BY <1>1, <2>1, SMT DEF Inv, Typed
  <2>4. Backed'
    BY <2>1, ReputationAssumption, SMT DEF Inv, Typed, Backed, BackedNode
  <2>5. PunishedOnGrounds'
    <3> DEFINE entry == [node |-> n, grounds |-> g]
    <3>1. /\ to_punish' = Append(to_punish, entry) /\ to_punish \in Seq([node : Raters, grounds : Nat])
          /\ entry \in [node : Raters, grounds : Nat] /\ entry.grounds = g
      BY <1>1, <2>1 DEF Inv, Typed
    <3> HIDE DEF entry, g
    <3>2. ASSUME NEW k \in DOMAIN to_punish' PROVE to_punish'[k].grounds >= Half - VoteWeight
      <4>1. CASE k \in DOMAIN to_punish
        <5>1. to_punish'[k] = to_punish[k]
          BY <3>1, <4>1, SMT
        <5> QED BY <4>1, <5>1 DEF Inv, PunishedOnGrounds
      <4>2. CASE k \notin DOMAIN to_punish
        <5>1. to_punish'[k] = entry
          BY <3>1, <3>2, <4>2, SMT
        <5> QED BY <2>2, <3>1, <5>1
      <4> QED BY <4>1, <4>2
    <3> QED BY <3>2 DEF PunishedOnGrounds, Half
  <2> QED BY <2>3, <2>4, <2>5 DEF Inv
<1>3. CASE ~(rat > Threshold)
  <2>1. /\ ratings' = [ratings EXCEPT ![n] = rat]
        /\ own' = [own EXCEPT ![n] = o] /\ grounds' = [grounds EXCEPT ![n] = g]
        /\ to_punish' = to_punish
    BY <1>3 DEF RateAs
  <2>2. Typed'
    BY <1>1, <2>1, SMT DEF Inv, Typed
  <2>3. Backed'
    BY <1>1, <2>1, SMT DEF Inv, Typed, Backed, BackedNode
  <2>4. PunishedOnGrounds'
    BY <2>1 DEF Inv, PunishedOnGrounds
  <2> QED BY <2>2, <2>3, <2>4 DEF Inv
<1> QED BY <1>2, <1>3

\* Every step keeps the invariant.
LEMMA StepInv == Inv /\ [ReputationNext]_reputation => Inv'
<1> SUFFICES ASSUME Inv, [ReputationNext]_reputation PROVE Inv'
  OBVIOUS
<1>1. ASSUME NEW n \in Raters, NEW s \in Severities, Rate(n, s) PROVE Inv'
  <2>1. s \in Int /\ Added(own[n], s) \in Nat
    BY ReputationAssumption, SMT DEF Inv, Typed, Added
  <2>2. \/ Worse(grounds[n], Added(own[n], s)) >= Half - VoteWeight
        \/ Added(Known(n), s) <= Added(own[n], s) + VoteWeight
    BY <2>1, HalfFacts, ReputationAssumption, SMT
       DEF Inv, Typed, Backed, BackedNode, Worse, Added, Known
  <2> QED BY <1>1, <2>1, <2>2, RateKeeps DEF Rate
<1>2. ASSUME NEW source \in Raters, NEW target \in Raters, VoteFor(source, target) PROVE Inv'
  <2>1. VoteWeight \in Int /\ own[target] \in Nat
    BY ReputationAssumption DEF Inv, Typed
  <2>2. \/ Worse(grounds[target], own[target]) >= Half - VoteWeight
        \/ Added(Known(target), VoteWeight) <= own[target] + VoteWeight
    BY <1>2, <2>1, HalfFacts, ReputationAssumption, SMT
       DEF Inv, Typed, Backed, BackedNode, Worse, Added, Known, VoteFor, Heeded
  <2> QED BY <1>2, <2>1, <2>2, RateKeeps DEF VoteFor
<1>3. ASSUME ReportOne PROVE Inv'
  <2>1. /\ Len(to_punish) \in Nat \ {0}
        /\ to_punish \in Seq([node : Raters, grounds : Nat])
        /\ to_punish' = SubSeq(to_punish, 1, Len(to_punish) - 1)
    BY <1>3, SMT DEF ReportOne, Inv, Typed
  <2>2. /\ to_punish' \in Seq([node : Raters, grounds : Nat])
        /\ \A k \in DOMAIN to_punish' : k \in DOMAIN to_punish /\ to_punish'[k] = to_punish[k]
    <3> DEFINE S == [node : Raters, grounds : Nat]
    <3>1. to_punish \in Seq(S) /\ to_punish # <<>> /\ to_punish' = SubSeq(to_punish, 1, Len(to_punish) - 1)
      BY <1>3, <2>1 DEF ReportOne
    <3> HIDE DEF S
    <3>2. /\ to_punish' \in Seq(S)
          /\ \A k \in DOMAIN to_punish' : k \in DOMAIN to_punish /\ to_punish'[k] = to_punish[k]
      BY <3>1, WithoutLast
    <3> QED BY <3>2 DEF S
  <2>3. Typed' /\ Backed'
    BY <1>3, <2>2 DEF ReportOne, Inv, Typed, Backed, BackedNode
  <2>4. PunishedOnGrounds'
    BY <2>2 DEF Inv, PunishedOnGrounds
  <2> QED BY <2>3, <2>4 DEF Inv
<1>4. ASSUME UNCHANGED reputation PROVE Inv'
  BY <1>4 DEF reputation, Inv, Typed, Backed, BackedNode, PunishedOnGrounds
<1> QED BY <1>1, <1>2, <1>3, <1>4 DEF ReputationNext

\* A server votes a node down only on grounds of its own, whoever else votes for or
\* against whom and in whatever order (Rep::rate, Rep::vote, report_loop).
THEOREM PunishesOnGrounds == ReputationSpec => []PunishedOnGrounds
<1>1. Inv => PunishedOnGrounds
  BY DEF Inv
<1> QED BY <1>1, InitInv, StepInv, PTL DEF ReputationSpec

-----------------------------------------------------------------------------
(***************************************************************************)
(* The streams that are kept.                                              *)
(***************************************************************************)
Mess == [call : Nat, answered : BOOLEAN, at : Nat, lag : Nat]
Stream == [caller : {"held", "written", "busy", "kept", "gone"}, call : Nat, taken : Nat,
           kept : Nat, lag : Nat, out : Seq(Mess),
           callee : {"waiting", "handling", "closed", "expired"}, since : Nat \cup {-1},
           at : Nat, answered : BOOLEAN, back : Seq(Mess)]

\* A request in out, apart from the last, is one that is not answered.
OnlyLast(s) == \A k \in DOMAIN s.out : k # Len(s.out) => ~s.out[k].answered
NoneAnswered(s) == \A k \in DOMAIN s.out : ~s.out[k].answered

\* The four places the request may be at whose answer the caller waits for.
OnItsWay(s) == /\ s.out # <<>> /\ OnlyLast(s)
               /\ s.out[Len(s.out)].call = s.call /\ s.out[Len(s.out)].answered
               /\ s.callee = "handling" => ~s.answered
               /\ s.back = <<>>
InHand(s) == /\ s.callee = "handling" /\ s.answered /\ s.at = s.call
             /\ s.out = <<>> /\ s.back = <<>>
Answered(s, t) == /\ s.out = <<>> /\ s.callee \in {"waiting", "closed"}
                  /\ Len(s.back) = 1 /\ s.back[1].call = s.call
                  /\ t <= s.back[1].at + Delay
                  /\ s.callee = "waiting" => s.since = s.back[1].at
Refused(s) == s.callee = "closed" /\ s.out = <<>> /\ s.back = <<>>

BusyInv(s, t) == /\ OnItsWay(s) \/ InHand(s) \/ Answered(s, t) \/ Refused(s)
                 /\ s.lag = 0

\* Otherwise the caller has a stream with nothing on it that will be answered.
Quiet(s) == /\ s.back = <<>> /\ NoneAnswered(s)
            /\ s.callee = "handling" => ~s.answered

\* The callee waits for the next header, and nothing is on its way; or it gave up
Waits(s) == s.callee = "waiting" /\ s.since # -1 /\ s.out = <<>>
Over(s) == s.callee = "expired" /\ s.out = <<>>

\* What the caller knows of the time the callee has waited: while it keeps the stream,
\* while a call holds it that has not written, and while one holds it that has.
KeptInv(s, t) ==
    /\ s.kept <= t /\ Quiet(s)
    /\ Waits(s) => s.kept <= s.since + Delay + s.lag
    /\ Over(s) => s.kept + Lifetime <= t + Delay + s.lag
HeldInv(s, t) ==
    /\ s.taken <= t /\ Quiet(s)
    /\ Waits(s) => s.taken < s.since + Delay + s.lag + Lifetime - Margin
    /\ Over(s) => Margin - 2 * Delay < s.lag + t - s.taken
WrittenInv(s, t) ==
    /\ s.taken <= t /\ Quiet(s) /\ s.lag = 0
    /\ Waits(s) => s.taken <= s.since + Delay
    /\ Over(s) => s.taken + Lifetime <= t + Delay

\* While the callee waits for a header, the request next to arrive was sent in time but
\* for its lag, and has not been on its way for long.
OutInv(s, t) ==
    /\ s.since <= t
    /\ \A k \in DOMAIN s.out : s.out[k].at <= t
    /\ s.callee = "expired" /\ s.out # <<>> => Margin - 2 * Delay < s.out[1].lag
    /\ s.callee = "waiting" /\ s.out # <<>> =>
         /\ t <= s.out[1].at + Delay \/ t <= s.since + Delay
         /\ \/ s.since = -1
            \/ s.out[1].at <= s.since
            \/ s.out[1].at < s.since + Delay + Lifetime - Margin + s.out[1].lag

Untainted(s, t) == /\ s \in Stream
                   /\ OutInv(s, t)
                   /\ s.caller = "kept" => KeptInv(s, t)
                   /\ s.caller = "held" => HeldInv(s, t)
                   /\ s.caller = "written" => WrittenInv(s, t)
                   /\ s.caller = "busy" => BusyInv(s, t)

\* The cache holds different streams, each of them kept.
Distinct(rec) == \A j, k \in DOMAIN rec : j # k => rec[j] # rec[k]
CachedInv(rec, ss) == /\ rec \in Seq(Nat) /\ Distinct(rec)
                      /\ \A j \in DOMAIN rec : rec[j] \in DOMAIN ss /\ ss[rec[j]].caller = "kept"

\* The inductive invariant.
CacheInv == /\ time \in Nat /\ requests \in Nat
            /\ streams \in Seq(Stream)
            /\ \A i \in DOMAIN streams : Untainted(streams[i], time)
            /\ CachedInv(recycled, streams)
-----------------------------------------------------------------------------
LEMMA CacheConstants ==
    /\ CacheSize \in Nat /\ Lifetime \in Nat /\ Margin \in Nat /\ Delay \in Nat
    /\ Margin < Lifetime /\ Delay + Delay <= Margin /\ Delay < Lifetime
BY CacheAssumption, MarginAssumption, SMT

\* A stream was taken when it had waited less than Lifetime - Margin at the callee, and is
\* written to lag later; a request that a stream no longer there gets has a lag.
LEMMA LagAtWriting ==
    ASSUME NEW now \in Nat, NEW since \in Nat, NEW taken \in Nat, NEW lag \in Nat,
           taken < since + Delay + lag + Lifetime - Margin
    PROVE  now < since + Delay + Lifetime - Margin + (lag + now - taken)
<1> DEFINE M == Lifetime - Margin
<1>1. M \in Nat /\ Delay \in Nat
  BY CacheConstants, SMT
<1> HIDE DEF M
<1>2. taken < since + Delay + lag + M => now < since + Delay + M + (lag + now - taken)
  BY <1>1, SMT
<1>3. since + Delay + lag + Lifetime - Margin = since + Delay + lag + M
      /\ since + Delay + Lifetime - Margin = since + Delay + M
  BY CacheConstants, SMT DEF M
<1> QED BY <1>2, <1>3

LEMMA LagAtExpiry ==
    ASSUME NEW now \in Nat, NEW since \in Nat, NEW at \in Nat, NEW lag \in Nat,
           now - since >= Lifetime, now <= at + Delay \/ now <= since + Delay,
           at <= since \/ at < since + Delay + Lifetime - Margin + lag
    PROVE  Margin - 2 * Delay < lag
<1>1. since + Delay < now
  BY CacheConstants, SMT
<1>2. now <= at + Delay /\ at < since + Delay + Lifetime - Margin + lag
  BY <1>1, CacheConstants, SMT
<1>3. Lifetime < Delay + Delay + Lifetime - Margin + lag
  BY <1>2, CacheConstants, SMT
<1>4. 2 * Delay = Delay + Delay
  BY CacheConstants, SMT
<1> QED BY <1>3, <1>4, CacheConstants, SMT

LEMMA EmptySequence ==
    ASSUME NEW S, NEW s \in Seq(S), Len(s) = 0
    PROVE  s = <<>>
BY SMT

\* Replacing an element of a sequence, and adding one at its end.
LEMMA SeqUpdate ==
    ASSUME NEW S, NEW q \in Seq(S), NEW i \in DOMAIN q, NEW v \in S
    PROVE  /\ [q EXCEPT ![i] = v] \in Seq(S) /\ DOMAIN [q EXCEPT ![i] = v] = DOMAIN q
           /\ [q EXCEPT ![i] = v][i] = v
           /\ \A j \in DOMAIN q : j # i => [q EXCEPT ![i] = v][j] = q[j]
BY SMT

LEMMA SeqAppend ==
    ASSUME NEW S, NEW q \in Seq(S), NEW v \in S
    PROVE  /\ Append(q, v) \in Seq(S) /\ DOMAIN Append(q, v) = DOMAIN q \cup {Len(q) + 1}
           /\ Append(q, v)[Len(q) + 1] = v
           /\ \A j \in DOMAIN q : Append(q, v)[j] = q[j]
BY SMT

LEMMA GoneStream ==
    ASSUME NEW t \in Nat, NEW s, Untainted(s, t)
    PROVE  Untainted([s EXCEPT !.caller = "gone"], t)
<1> DEFINE v == [s EXCEPT !.caller = "gone"]
<1>1. s \in Stream /\ OutInv(s, t)
  BY DEF Untainted
<1>2. /\ v \in Stream /\ v.caller = "gone" /\ v.out = s.out /\ v.callee = s.callee
      /\ v.since = s.since
  BY <1>1 DEF Stream
<1> HIDE DEF v
<1>3. OutInv(v, t)
  BY <1>1, <1>2 DEF OutInv
<1>4. Untainted(v, t)
  BY <1>2, <1>3 DEF Untainted
<1> QED BY <1>4 DEF v

\* The fields of a stream are of their types.
LEMMA StreamFields ==
    ASSUME NEW s \in Stream
    PROVE  /\ s.taken \in Nat /\ s.kept \in Nat /\ s.lag \in Nat /\ s.since \in Nat \cup {-1}
           /\ s.out \in Seq(Mess) /\ s.back \in Seq(Mess)
           /\ \A k \in DOMAIN s.out : s.out[k].at \in Nat /\ s.out[k].lag \in Nat
           /\ s.out # <<>> => 1 \in DOMAIN s.out
<1>1. /\ s.taken \in Nat /\ s.kept \in Nat /\ s.lag \in Nat /\ s.since \in Nat \cup {-1}
      /\ s.out \in Seq(Mess) /\ s.back \in Seq(Mess)
  BY DEF Stream
<1> DEFINE o == s.out
<1>2. o \in Seq(Mess)
  BY <1>1
<1> HIDE DEF o
<1>3. \A k \in DOMAIN o : o[k] \in Mess
  BY <1>2, SMT
<1>4. o # <<>> => 1 \in DOMAIN o
  BY <1>2, SMT
<1>5. \A k \in DOMAIN o : o[k].at \in Nat /\ o[k].lag \in Nat
  BY <1>3 DEF Mess
<1> QED BY <1>1, <1>4, <1>5 DEF o

\* The caller keeps a stream that has nothing on it that will be answered.
LEMMA KeptStream ==
    ASSUME NEW s \in Stream, OutInv(s, time), time \in Nat, Quiet(s),
           Waits(s) => time <= s.since + Delay + s.lag,
           Over(s) => time + Lifetime <= time + Delay + s.lag,
           NEW rec
    PROVE  Untainted(Kept(s, rec), time)
<1> DEFINE v == [s EXCEPT !.caller = "kept", !.kept = time]
           w == [s EXCEPT !.caller = "gone"]
<1>1. /\ v \in Stream /\ v.caller = "kept" /\ v.kept = time /\ v.out = s.out /\ v.callee = s.callee
      /\ v.since = s.since /\ v.answered = s.answered /\ v.back = s.back /\ v.lag = s.lag
  BY DEF Stream
<1>2. /\ w \in Stream /\ w.caller = "gone" /\ w.out = s.out /\ w.callee = s.callee
      /\ w.since = s.since
  BY DEF Stream
<1>3. Kept(s, rec) \in {v, w}
  BY DEF Kept
<1> HIDE DEF v, w
<1>4. OutInv(v, time) /\ OutInv(w, time)
  BY <1>1, <1>2 DEF OutInv
<1>5. time <= time
  BY SMT
<1>6. KeptInv(v, time)
  BY <1>1, <1>5 DEF KeptInv, Quiet, NoneAnswered, Waits, Over
<1>7. Untainted(v, time) /\ Untainted(w, time)
  BY <1>1, <1>2, <1>4, <1>6 DEF Untainted
<1> QED BY <1>3, <1>7

\* A call takes a stream that is new, or kept and not too old.
LEMMA FreshHeld ==
    ASSUME time \in Nat
    PROVE  Untainted(FreshStream, time) /\ FreshStream.caller = "held"
<1> DEFINE v == FreshStream
<1>1. <<>> \in Seq(Mess) /\ DOMAIN <<>> = {} /\ time <= time /\ -1 <= time /\ -1 \in Nat \cup {-1}
  BY SMT
<1>2. /\ v \in Stream /\ v.caller = "held" /\ v.taken = time /\ v.out = <<>> /\ v.back = <<>>
      /\ v.callee = "waiting" /\ v.since = -1
  BY <1>1 DEF FreshStream, Stream
<1> HIDE DEF v
<1>3. OutInv(v, time) /\ HeldInv(v, time)
  BY <1>1, <1>2 DEF OutInv, HeldInv, Quiet, NoneAnswered, Waits, Over
<1>4. Untainted(v, time) /\ v.caller = "held"
  BY <1>2, <1>3 DEF Untainted
<1> QED BY <1>4 DEF v

LEMMA TakenStream ==
    ASSUME NEW s, Untainted(s, time), time \in Nat, s.caller = "kept", Lives(s)
    PROVE  Untainted([s EXCEPT !.caller = "held", !.taken = time], time)
<1> DEFINE v == [s EXCEPT !.caller = "held", !.taken = time]
<1>1. s \in Stream /\ OutInv(s, time) /\ KeptInv(s, time)
  BY DEF Untainted
<1>2. s.kept \in Nat /\ s.lag \in Nat /\ s.since \in Nat \cup {-1}
  BY <1>1, StreamFields
<1>3. /\ v \in Stream /\ v.caller = "held" /\ v.taken = time /\ v.out = s.out /\ v.callee = s.callee
      /\ v.since = s.since /\ v.answered = s.answered /\ v.back = s.back /\ v.lag = s.lag
  BY <1>1 DEF Stream
<1> HIDE DEF v
<1>4. OutInv(v, time)
  BY <1>1, <1>3 DEF OutInv
<1>5. Quiet(v) /\ (Waits(v) => Waits(s)) /\ (Over(v) => Over(s))
  BY <1>1, <1>3 DEF KeptInv, Quiet, NoneAnswered, Waits, Over
<1>6. time - s.kept < Lifetime - Margin
  BY DEF Lives
<1>7. Waits(v) => time < s.since + Delay + s.lag + Lifetime - Margin
  <2>1. Waits(v) => s.kept <= s.since + Delay + s.lag
    BY <1>1, <1>5 DEF KeptInv
  <2> QED BY <1>2, <1>6, <2>1, CacheConstants, SMT
<1>8. Over(v) => Margin - 2 * Delay < s.lag + time - time
  <2>1. Over(v) => s.kept + Lifetime <= time + Delay + s.lag
    BY <1>1, <1>5 DEF KeptInv
  <2> QED BY <1>2, <1>6, <2>1, CacheConstants, SMT
<1>9. time <= time
  BY SMT
<1>10. HeldInv(v, time)
  BY <1>3, <1>5, <1>7, <1>8, <1>9 DEF HeldInv
<1>11. Untainted(v, time)
  BY <1>3, <1>4, <1>10 DEF Untainted
<1> QED BY <1>11 DEF v

\* A request is written to a stream that was held.
LEMMA RequestStream ==
    ASSUME NEW s, NEW answered \in BOOLEAN, time \in Nat, requests \in Nat,
           Untainted(s, time), s.caller = "held"
    PROVE  /\ Untainted(WithRequest(s, answered), time)
           /\ WithRequest(s, answered).caller # "kept"
<1> DEFINE lag == s.lag + time - s.taken
           m == Message(requests + 1, answered, lag)
           w == WithRequest(s, answered)
<1>1. s \in Stream /\ OutInv(s, time) /\ HeldInv(s, time)
  BY DEF Untainted
<1>2. /\ s.taken \in Nat /\ s.lag \in Nat /\ s.since \in Nat \cup {-1} /\ s.out \in Seq(Mess)
      /\ Len(s.out) \in Nat
  BY <1>1, StreamFields, LenProperties
<1>3. lag \in Nat
  <2>1. s.taken <= time
    BY <1>1 DEF HeldInv
  <2> QED BY <1>2, <2>1, SMT
<1> HIDE DEF lag
<1>4. m \in Mess /\ m.at = time /\ m.answered = answered /\ m.call = requests + 1 /\ m.lag = lag
  <2>1. requests + 1 \in Nat
    BY SMT
  <2> QED BY <1>3, <2>1 DEF Message, Mess
<1> HIDE DEF m
<1> DEFINE o == Append(s.out, m)
<1>5. /\ o \in Seq(Mess) /\ o # <<>> /\ Len(o) = Len(s.out) + 1 /\ o[Len(o)] = m
      /\ DOMAIN o = DOMAIN s.out \cup {Len(o)}
      /\ \A k \in DOMAIN s.out : o[k] = s.out[k] /\ k # Len(o)
  BY <1>2, <1>4, SMT
<1>6. \/ s.out = <<>> /\ o[1] = m
      \/ s.out # <<>> /\ o[1] = s.out[1]
  BY <1>2, <1>4, SMT
<1> HIDE DEF o
<1>7. w = [s EXCEPT !.caller = IF answered THEN "busy" ELSE "written", !.call = requests + 1,
                    !.taken = time, !.lag = 0, !.out = o]
  BY DEF WithRequest, o, m, lag
<1>8. /\ w \in Stream /\ w.caller = (IF answered THEN "busy" ELSE "written") /\ w.taken = time
      /\ w.lag = 0 /\ w.call = requests + 1 /\ w.out = o /\ w.callee = s.callee
      /\ w.since = s.since /\ w.back = s.back /\ w.answered = s.answered
  <2>1. requests + 1 \in Nat /\ 0 \in Nat
    BY SMT
  <2> QED BY <1>1, <1>5, <1>7, <2>1 DEF Stream
<1> HIDE DEF w
<1>9. Quiet(s) /\ s.since <= time /\ \A k \in DOMAIN s.out : s.out[k].at <= time
  BY <1>1 DEF HeldInv, OutInv
<1>10. w.callee = "waiting" =>
         /\ time <= o[1].at + Delay \/ time <= s.since + Delay
         /\ \/ s.since = -1
            \/ o[1].at <= s.since
            \/ o[1].at < s.since + Delay + Lifetime - Margin + o[1].lag
  <2> SUFFICES ASSUME s.callee = "waiting"
               PROVE  /\ time <= o[1].at + Delay \/ time <= s.since + Delay
                      /\ \/ s.since = -1
                         \/ o[1].at <= s.since
                         \/ o[1].at < s.since + Delay + Lifetime - Margin + o[1].lag
    BY <1>8
  <2>1. CASE s.out = <<>>
    <3>1. o[1].at = time /\ o[1].lag = lag
      BY <1>4, <1>6, <2>1
    <3>2. time <= time + Delay
      BY CacheConstants, SMT
    <3>3. s.since = -1 \/ s.taken < s.since + Delay + s.lag + Lifetime - Margin
      BY <1>1, <2>1 DEF HeldInv, Waits
    <3>4. s.since = -1 \/ time < s.since + Delay + Lifetime - Margin + lag
      <4>1. CASE s.since \in Nat
        BY <1>2, <3>3, <4>1, LagAtWriting DEF lag
      <4> QED BY <1>2, <4>1
    <3> QED BY <3>1, <3>2, <3>4
  <2>2. CASE s.out # <<>>
    BY <1>1, <1>6, <2>2 DEF OutInv
  <2> QED BY <2>1, <2>2
<1>11. w.callee = "expired" => Margin - 2 * Delay < o[1].lag
  <2> SUFFICES ASSUME s.callee = "expired" PROVE Margin - 2 * Delay < o[1].lag
    BY <1>8
  <2>1. CASE s.out = <<>>
    <3>1. Margin - 2 * Delay < s.lag + time - s.taken
      BY <1>1, <2>1 DEF HeldInv, Over
    <3>2. o[1].lag = lag
      BY <1>4, <1>6, <2>1
    <3> QED BY <3>1, <3>2 DEF lag
  <2>2. CASE s.out # <<>>
    BY <1>1, <1>6, <2>2 DEF OutInv
  <2> QED BY <2>1, <2>2
<1>12. time <= time
  BY SMT
<1>13. OutInv(w, time)
  BY <1>4, <1>5, <1>8, <1>9, <1>10, <1>11, <1>12 DEF OutInv
<1>14. CASE answered
  <2>1. OnItsWay(w)
    BY <1>4, <1>5, <1>8, <1>9, <1>14 DEF OnItsWay, OnlyLast, NoneAnswered, Quiet
  <2>2. Untainted(w, time) /\ w.caller = "busy"
    BY <1>8, <1>13, <1>14, <2>1 DEF Untainted, BusyInv
  <2> QED BY <2>2 DEF w
<1>15. CASE ~answered
  <2>1. Quiet(w)
    BY <1>4, <1>5, <1>8, <1>9, <1>15 DEF NoneAnswered, Quiet
  <2>2. ~Waits(w) /\ ~Over(w)
    BY <1>5, <1>8 DEF Waits, Over
  <2>3. WrittenInv(w, time)
    BY <1>8, <1>12, <2>1, <2>2 DEF WrittenInv
  <2>4. Untainted(w, time) /\ w.caller = "written"
    BY <1>8, <1>13, <1>15, <2>3 DEF Untainted
  <2> QED BY <2>4 DEF w
<1> QED BY <1>14, <1>15

\* The caller goes on and keeps the stream of a request that is not answered.
LEMMA UnansweredStream ==
    ASSUME NEW s, Untainted(s, time), time \in Nat, s.caller = "written", NEW rec
    PROVE  /\ Untainted(Kept([s EXCEPT !.lag = time - s.taken], rec), time)
           /\ [s EXCEPT !.lag = time - s.taken] \in Stream
<1> DEFINE lag == time - s.taken
           v == [s EXCEPT !.lag = lag]
<1>1. s \in Stream /\ OutInv(s, time) /\ WrittenInv(s, time)
  BY DEF Untainted
<1>2. s.taken \in Nat /\ s.since \in Nat \cup {-1} /\ lag \in Nat
  <2>1. s.taken \in Nat /\ s.since \in Nat \cup {-1} /\ s.taken <= time
    BY <1>1, StreamFields DEF WrittenInv
  <2> QED BY <2>1, SMT
<1> HIDE DEF lag
<1>3. /\ v \in Stream /\ v.lag = lag /\ v.out = s.out /\ v.callee = s.callee /\ v.since = s.since
      /\ v.answered = s.answered /\ v.back = s.back
  BY <1>1, <1>2 DEF Stream
<1> HIDE DEF v
<1>4. OutInv(v, time) /\ Quiet(v)
  BY <1>1, <1>3 DEF OutInv, WrittenInv, Quiet, NoneAnswered
<1>5. Waits(v) => time <= v.since + Delay + v.lag
  <2>1. Waits(v) => s.taken <= s.since + Delay
    BY <1>1, <1>3 DEF WrittenInv, Waits
  <2>2. Waits(v) => time <= s.since + Delay + lag
    BY <1>2, <2>1, CacheConstants, SMT DEF lag
  <2> QED BY <1>3, <2>2
<1>6. Over(v) => time + Lifetime <= time + Delay + v.lag
  <2>1. Over(v) => s.taken + Lifetime <= time + Delay
    BY <1>1, <1>3 DEF WrittenInv, Over
  <2>2. Over(v) => time + Lifetime <= time + Delay + lag
    BY <1>2, <2>1, CacheConstants, SMT DEF lag
  <2> QED BY <1>3, <2>2
<1>7. Untainted(Kept(v, rec), time) /\ v \in Stream
  BY <1>3, <1>4, <1>5, <1>6, KeptStream
<1> QED BY <1>7 DEF v, lag

\* The caller reads the answer it waits for and keeps the stream.
LEMMA ReadStream ==
    ASSUME NEW s, Untainted(s, time), time \in Nat, s.caller = "busy", s.back # <<>>, NEW rec
    PROVE  Untainted(Kept([s EXCEPT !.back = Tail(s.back)], rec), time)
<1> DEFINE v == [s EXCEPT !.back = Tail(s.back)]
<1>1. s \in Stream /\ OutInv(s, time) /\ Answered(s, time) /\ s.lag = 0
  BY DEF Untainted, BusyInv, OnItsWay, InHand, Refused
<1>2. s.back \in Seq(Mess) /\ Len(s.back) = 1 /\ s.back[1].at \in Nat
  <2>1. s.back \in Seq(Mess) /\ Len(s.back) = 1
    BY <1>1 DEF Stream, Answered
  <2>2. s.back[1] \in Mess
    BY <2>1, SMT
  <2> QED BY <2>1, <2>2 DEF Mess
<1>3. Tail(s.back) = <<>> /\ Tail(s.back) \in Seq(Mess)
  <2> DEFINE b == Tail(s.back)
  <2>1. b \in Seq(Mess) /\ Len(b) = 0
    BY <1>2, SMT
  <2> HIDE DEF b
  <2>2. b = <<>>
    BY <2>1, EmptySequence
  <2> QED BY <2>1, <2>2 DEF b
<1>4. /\ v \in Stream /\ v.back = <<>> /\ v.out = s.out /\ v.callee = s.callee /\ v.caller = s.caller
      /\ v.since = s.since /\ v.answered = s.answered /\ v.lag = 0
  BY <1>1, <1>3 DEF Stream
<1> HIDE DEF v
<1>5. OutInv(v, time)
  BY <1>1, <1>4 DEF OutInv
<1>6. NoneAnswered(v)
  <2>1. DOMAIN v.out = {}
    BY <1>1, <1>4, SMT DEF Answered
  <2> QED BY <2>1 DEF NoneAnswered
<1>7. v.callee # "expired" /\ v.callee # "handling"
  BY <1>1, <1>4 DEF Answered
<1>8. Quiet(v) /\ ~Over(v)
  BY <1>4, <1>6, <1>7 DEF Quiet, Over
<1>9. Waits(v) => time <= v.since + Delay + v.lag
  <2>1. v.since \in Nat \cup {-1} /\ (Waits(v) => time <= v.since + Delay)
    BY <1>1, <1>4, StreamFields DEF Answered, Waits
  <2> QED BY <1>4, <2>1, CacheConstants, SMT
<1>10. Untainted(Kept(v, rec), time)
  BY <1>4, <1>5, <1>8, <1>9, KeptStream
<1> QED BY <1>10 DEF v

\* The callee takes the first request off the stream.
LEMMA HandleStream ==
    ASSUME NEW t \in Nat, NEW s, Untainted(s, t), s.callee = "waiting", s.out # <<>>
    PROVE  Untainted([s EXCEPT !.callee = "handling", !.at = Head(s.out).call,
                               !.answered = Head(s.out).answered, !.out = Tail(s.out)], t)
<1> DEFINE m == Head(s.out)
           o == Tail(s.out)
           c == m.call
           d == m.answered
           v == [s EXCEPT !.callee = "handling", !.at = c, !.answered = d, !.out = o]
<1>1. s \in Stream /\ OutInv(s, t)
  BY DEF Untainted
<1>2. s.out \in Seq(Mess) /\ Len(s.out) \in Nat
  BY <1>1, SMT DEF Stream
<1>3. /\ m = s.out[1] /\ m \in Mess /\ o \in Seq(Mess) /\ Len(o) = Len(s.out) - 1
      /\ DOMAIN o = 1 .. Len(o) /\ DOMAIN s.out = 1 .. Len(s.out) /\ 0 < Len(s.out)
      /\ \A k \in DOMAIN o : o[k] = s.out[k + 1]
  BY <1>2, SMT
<1>4. /\ \A k \in DOMAIN o : k + 1 \in DOMAIN s.out /\ (k # Len(o) => k + 1 # Len(s.out))
      /\ 1 \in DOMAIN s.out
  <2> HIDE DEF o, m
  <2> QED BY <1>2, <1>3, SMT
<1>5. o = <<>> \/ (Len(s.out) # 1 /\ Len(o) \in DOMAIN o /\ o[Len(o)] = s.out[Len(s.out)])
  <2> HIDE DEF o, m
  <2>1. CASE Len(o) = 0
    BY <1>3, <2>1, EmptySequence
  <2>2. CASE Len(o) # 0
    BY <1>2, <1>3, <2>2, SMT
  <2> QED BY <2>1, <2>2
<1>6. c \in Nat /\ d \in BOOLEAN
  <2> HIDE DEF m
  <2> QED BY <1>3 DEF Mess
<1> HIDE DEF m, o
<1>7. v = [s EXCEPT !.callee = "handling", !.at = Head(s.out).call,
                    !.answered = Head(s.out).answered, !.out = Tail(s.out)]
  BY DEF m, o
<1> HIDE DEF c, d
<1>8. /\ v \in Stream /\ v.callee = "handling" /\ v.at = c /\ v.answered = d /\ v.out = o
      /\ v.caller = s.caller /\ v.call = s.call /\ v.kept = s.kept /\ v.since = s.since
      /\ v.back = s.back /\ v.taken = s.taken /\ v.lag = s.lag
  BY <1>1, <1>3, <1>6 DEF Stream
<1> HIDE DEF v
<1>9. OutInv(v, t)
  BY <1>1, <1>3, <1>4, <1>8 DEF OutInv
<1>10. /\ v.caller = "kept" => KeptInv(v, t)
       /\ v.caller = "held" => HeldInv(v, t)
       /\ v.caller = "written" => WrittenInv(v, t)
  <2>1. Quiet(s) => Quiet(v)
    <3>1. Quiet(s) => NoneAnswered(v) /\ ~d
      BY <1>3, <1>4, <1>8 DEF Quiet, NoneAnswered, d
    <3> QED BY <1>8, <3>1 DEF Quiet
  <2>2. ~Waits(v) /\ ~Over(v)
    BY <1>8 DEF Waits, Over
  <2> QED BY <1>8, <2>1, <2>2 DEF Untainted, KeptInv, HeldInv, WrittenInv
<1>11. v.caller = "busy" => BusyInv(v, t)
  <2> SUFFICES ASSUME v.caller = "busy" PROVE BusyInv(v, t)
    OBVIOUS
  <2>1. OnItsWay(s) /\ v.lag = 0
    BY <1>8 DEF Untainted, BusyInv, InHand, Answered, Refused
  <2>2. CASE o = <<>>
    <3>1. Len(s.out) = 1
      <4>1. Len(o) = 0
        BY <2>2, SMT
      <4> QED BY <1>2, <1>3, <4>1, SMT
    <3>2. m.call = s.call
      BY <1>3, <2>1, <3>1 DEF OnItsWay
    <3>3. d
      BY <1>3, <2>1, <3>1 DEF OnItsWay, d
    <3>4. InHand(v)
      BY <1>8, <2>1, <2>2, <3>2, <3>3 DEF OnItsWay, InHand, c
    <3> QED BY <2>1, <3>4 DEF BusyInv
  <2>3. CASE o # <<>>
    <3>1. ~d
      BY <1>3, <1>4, <1>5, <2>1, <2>3 DEF OnItsWay, OnlyLast, d
    <3>2. OnlyLast(v)
      BY <1>3, <1>4, <1>8, <2>1 DEF OnItsWay, OnlyLast
    <3>3. OnItsWay(v)
      BY <1>5, <1>8, <2>1, <2>3, <3>1, <3>2 DEF OnItsWay
    <3> QED BY <2>1, <3>3 DEF BusyInv
  <2> QED BY <2>2, <2>3
<1>12. Untainted(v, t)
  BY <1>8, <1>9, <1>10, <1>11 DEF Untainted
<1> QED BY <1>7, <1>12

\* The callee is done with a request and waits for the next, or drops the stream.
LEMMA RespondStream ==
    ASSUME NEW s, Untainted(s, time), time \in Nat, s.callee = "handling",
           NEW after \in {"waiting", "closed"}
    PROVE  Untainted([s EXCEPT !.callee = after, !.since = time,
                       !.back = IF s.answered THEN Append(s.back, Message(s.at, TRUE, 0)) ELSE s.back],
                     time)
<1> DEFINE m == Message(s.at, TRUE, 0)
           b == IF s.answered THEN Append(s.back, m) ELSE s.back
           v == [s EXCEPT !.callee = after, !.since = time, !.back = b]
<1>1. s \in Stream /\ OutInv(s, time) /\ s.back \in Seq(Mess) /\ s.out \in Seq(Mess)
  BY DEF Untainted, Stream
<1>2. m \in Mess /\ m.call = s.at /\ m.at = time
  BY <1>1, 0 \in Nat DEF Message, Mess, Stream
<1> HIDE DEF m
<1>3. b \in Seq(Mess)
  BY <1>1, <1>2, SMT
<1>4. s.answered /\ s.back = <<>> => Len(b) = 1 /\ b[1] = m
  BY <1>2, SMT
<1>5. ~s.answered => b = s.back
  OBVIOUS
<1> HIDE DEF b
<1>6. /\ v \in Stream /\ v.callee = after /\ v.since = time /\ v.back = b /\ v.caller = s.caller
      /\ v.call = s.call /\ v.kept = s.kept /\ v.out = s.out
      /\ v.taken = s.taken /\ v.lag = s.lag
  BY <1>1, <1>3 DEF Stream
<1>7. /\ time <= time /\ time <= time + Delay
      /\ s.kept <= time => s.kept <= time + Delay + s.lag
      /\ s.taken <= time => s.taken <= time + Delay
      /\ s.taken <= time => s.taken < time + Delay + s.lag + Lifetime - Margin
  <2>1. s.kept \in Nat /\ s.taken \in Nat /\ s.lag \in Nat
    BY <1>1, StreamFields
  <2> QED BY <2>1, CacheConstants, SMT
<1> HIDE DEF v
<1>8. OutInv(v, time)
  <2>1. v.out # <<>> => v.out[1].at <= time
    <3>1. v.out # <<>> => 1 \in DOMAIN s.out
      BY <1>1, <1>6, SMT
    <3> QED BY <1>1, <1>6, <3>1 DEF OutInv
  <2> QED BY <1>1, <1>6, <1>7, <2>1 DEF OutInv
<1>9. /\ v.caller = "kept" => KeptInv(v, time)
      /\ v.caller = "held" => HeldInv(v, time)
      /\ v.caller = "written" => WrittenInv(v, time)
  <2>1. Quiet(s) => Quiet(v)
    BY <1>5, <1>6 DEF Quiet, NoneAnswered
  <2>2. ~Over(v)
    BY <1>6 DEF Over
  <2> QED BY <1>6, <1>7, <2>1, <2>2 DEF Untainted, KeptInv, HeldInv, WrittenInv
<1>10. v.caller = "busy" => BusyInv(v, time)
  <2> SUFFICES ASSUME v.caller = "busy" PROVE BusyInv(v, time)
    OBVIOUS
  <2>1. (OnItsWay(s) \/ InHand(s)) /\ v.lag = 0
    BY <1>6 DEF Untainted, BusyInv, Answered, Refused
  <2>2. CASE OnItsWay(s)
    <3>1. OnItsWay(v)
      BY <1>5, <1>6, <2>2 DEF OnItsWay, OnlyLast
    <3> QED BY <2>1, <3>1 DEF BusyInv
  <2>3. CASE InHand(s)
    <3>1. Answered(v, time)
      BY <1>2, <1>4, <1>6, <1>7, <2>3 DEF InHand, Answered
    <3> QED BY <2>1, <3>1 DEF BusyInv
  <2> QED BY <2>1, <2>2, <2>3
<1>11. Untainted(v, time)
  BY <1>6, <1>8, <1>9, <1>10 DEF Untainted
<1> QED BY <1>11 DEF v, b, m

LEMMA RefuseStream ==
    ASSUME NEW t \in Nat, NEW s, Untainted(s, t), s.callee = "handling"
    PROVE  Untainted([s EXCEPT !.callee = "closed"], t)
<1> DEFINE v == [s EXCEPT !.callee = "closed"]
<1>1. s \in Stream /\ OutInv(s, t)
  BY DEF Untainted
<1>2. /\ v \in Stream /\ v.callee = "closed" /\ v.since = s.since /\ v.back = s.back
      /\ v.caller = s.caller /\ v.call = s.call /\ v.kept = s.kept /\ v.out = s.out
      /\ v.taken = s.taken /\ v.lag = s.lag /\ v.answered = s.answered
  BY <1>1 DEF Stream
<1> HIDE DEF v
<1>3. OutInv(v, t)
  BY <1>1, <1>2 DEF OutInv
<1>4. /\ v.caller = "kept" => KeptInv(v, t)
      /\ v.caller = "held" => HeldInv(v, t)
      /\ v.caller = "written" => WrittenInv(v, t)
  <2>1. Quiet(s) => Quiet(v)
    BY <1>2 DEF Quiet, NoneAnswered
  <2>2. ~Waits(v) /\ ~Over(v)
    BY <1>2 DEF Waits, Over
  <2> QED BY <1>2, <2>1, <2>2 DEF Untainted, KeptInv, HeldInv, WrittenInv
<1>5. v.caller = "busy" => BusyInv(v, t)
  BY <1>2 DEF Untainted, BusyInv, OnItsWay, OnlyLast, InHand, Answered, Refused
<1>6. Untainted(v, t)
  BY <1>2, <1>3, <1>4, <1>5 DEF Untainted
<1> QED BY <1>6 DEF v

\* The callee gives a stream up: what is on its way to it has a lag.
LEMMA ExpireStream ==
    ASSUME NEW t \in Nat, NEW s, Untainted(s, t), s.callee = "waiting", s.since # -1,
           t - s.since >= Lifetime
    PROVE  Untainted([s EXCEPT !.callee = "expired"], t)
<1> DEFINE v == [s EXCEPT !.callee = "expired"]
<1>1. /\ s \in Stream /\ OutInv(s, t) /\ s.since \in Nat /\ s.kept \in Nat /\ s.taken \in Nat
      /\ s.lag \in Nat
  BY StreamFields DEF Untainted
<1>2. /\ v \in Stream /\ v.callee = "expired" /\ v.since = s.since /\ v.back = s.back
      /\ v.caller = s.caller /\ v.call = s.call /\ v.kept = s.kept /\ v.out = s.out
      /\ v.taken = s.taken /\ v.lag = s.lag /\ v.answered = s.answered
  BY <1>1 DEF Stream
<1> HIDE DEF v
<1>3. s.out # <<>> => Margin - 2 * Delay < s.out[1].lag
  <2> SUFFICES ASSUME s.out # <<>> PROVE Margin - 2 * Delay < s.out[1].lag
    OBVIOUS
  <2> DEFINE a == s.out[1].at
             lag == s.out[1].lag
  <2>1. a \in Nat /\ lag \in Nat
    BY <1>1, StreamFields
  <2>2. /\ t <= a + Delay \/ t <= s.since + Delay
        /\ a <= s.since \/ a < s.since + Delay + Lifetime - Margin + lag
    BY <1>1 DEF OutInv
  <2> HIDE DEF a, lag
  <2>3. Margin - 2 * Delay < lag
    BY <1>1, <2>1, <2>2, LagAtExpiry
  <2> QED BY <2>3 DEF lag
<1>4. Over(v) => Waits(s)
  BY <1>2 DEF Over, Waits
<1>5. v.caller = "kept" => KeptInv(v, t)
  <2> SUFFICES ASSUME v.caller = "kept" PROVE KeptInv(v, t)
    OBVIOUS
  <2>1. KeptInv(s, t)
    BY <1>2 DEF Untainted
  <2>2. Waits(s) => s.kept + Lifetime <= t + Delay + s.lag
    <3>1. Waits(s) => s.kept <= s.since + Delay + s.lag
      BY <2>1 DEF KeptInv
    <3> QED BY <1>1, <3>1, CacheConstants, SMT
  <2>3. Quiet(v) /\ ~Waits(v)
    BY <1>2, <2>1 DEF KeptInv, Quiet, NoneAnswered, Waits
  <2> QED BY <1>2, <1>4, <2>1, <2>2, <2>3 DEF KeptInv
<1>6. v.caller = "held" => HeldInv(v, t)
  <2> SUFFICES ASSUME v.caller = "held" PROVE HeldInv(v, t)
    OBVIOUS
  <2>1. HeldInv(s, t)
    BY <1>2 DEF Untainted
  <2>2. Waits(s) => Margin - 2 * Delay < s.lag + t - s.taken
    <3>1. Waits(s) => s.taken < s.since + Delay + s.lag + Lifetime - Margin
      BY <2>1 DEF HeldInv
    <3> QED BY <1>1, <3>1, CacheConstants, SMT
  <2>3. Quiet(v) /\ ~Waits(v)
    BY <1>2, <2>1 DEF HeldInv, Quiet, NoneAnswered, Waits
  <2> QED BY <1>2, <1>4, <2>1, <2>2, <2>3 DEF HeldInv
<1>7. v.caller = "written" => WrittenInv(v, t)
  <2> SUFFICES ASSUME v.caller = "written" PROVE WrittenInv(v, t)
    OBVIOUS
  <2>1. WrittenInv(s, t)
    BY <1>2 DEF Untainted
  <2>2. Waits(s) => s.taken + Lifetime <= t + Delay
    <3>1. Waits(s) => s.taken <= s.since + Delay
      BY <2>1 DEF WrittenInv
    <3> QED BY <1>1, <3>1, CacheConstants, SMT
  <2>3. Quiet(v) /\ ~Waits(v)
    BY <1>2, <2>1 DEF WrittenInv, Quiet, NoneAnswered, Waits
  <2> QED BY <1>2, <1>4, <2>1, <2>2, <2>3 DEF WrittenInv
<1>8. v.caller = "busy" => BusyInv(v, t)
  <2> SUFFICES ASSUME v.caller = "busy" PROVE BusyInv(v, t)
    OBVIOUS
  <2>1. BusyInv(s, t)
    BY <1>2 DEF Untainted
  <2>2. ~Answered(s, t)
    <3>1. Answered(s, t) => t <= s.since + Delay
      BY DEF Answered
    <3>2. ~(t <= s.since + Delay)
      BY <1>1, CacheConstants, SMT
    <3> QED BY <3>1, <3>2
  <2>3. OnItsWay(s) /\ s.lag = 0
    BY <2>1, <2>2 DEF BusyInv, InHand, Refused
  <2> QED BY <1>2, <2>3 DEF BusyInv, OnItsWay, OnlyLast
<1>9. OutInv(v, t)
  BY <1>1, <1>2, <1>3 DEF OutInv
<1>10. Untainted(v, t)
  BY <1>2, <1>5, <1>6, <1>7, <1>8, <1>9 DEF Untainted
<1> QED BY <1>10 DEF v

\* Time passes over a stream on which nothing is due.
LEMMA ElapseStream ==
    ASSUME NEW t \in Nat, NEW s, Untainted(s, t),
           s.callee = "waiting" => \A k \in DOMAIN s.out : t - s.out[k].at < Delay,
           s.caller = "busy" => \A k \in DOMAIN s.back : t - s.back[k].at < Delay
    PROVE  Untainted(s, t + 1)
<1>1. /\ s \in Stream /\ OutInv(s, t) /\ s.since \in Nat \cup {-1} /\ s.kept \in Nat
      /\ s.taken \in Nat /\ s.lag \in Nat /\ s.back \in Seq(Mess)
      /\ \A k \in DOMAIN s.out : s.out[k].at \in Nat
      /\ s.out # <<>> => 1 \in DOMAIN s.out
  BY StreamFields DEF Untainted
<1>2. \A x \in Nat \cup {-1} : x <= t => x <= t + 1
  BY SMT
<1>3. ASSUME s.callee = "waiting", s.out # <<>>
      PROVE  t + 1 <= s.out[1].at + Delay
  <2>1. t - s.out[1].at < Delay /\ s.out[1].at \in Nat
    BY <1>1, <1>3
  <2> QED BY <2>1, CacheConstants, SMT
<1>4. OutInv(s, t + 1)
  <2>1. s.since <= t + 1 /\ \A k \in DOMAIN s.out : s.out[k].at <= t + 1
    BY <1>1, <1>2 DEF OutInv
  <2> QED BY <1>1, <1>3, <2>1 DEF OutInv
<1>5. s.caller = "kept" => KeptInv(s, t + 1)
  <2>1. s.kept + Lifetime <= t + Delay + s.lag => s.kept + Lifetime <= t + 1 + Delay + s.lag
    BY <1>1, CacheConstants, SMT
  <2> QED BY <1>1, <1>2, <2>1 DEF Untainted, KeptInv
<1>6. s.caller = "held" => HeldInv(s, t + 1)
  <2>1. Margin - 2 * Delay < s.lag + t - s.taken => Margin - 2 * Delay < s.lag + (t + 1) - s.taken
    BY <1>1, CacheConstants, SMT
  <2> QED BY <1>1, <1>2, <2>1 DEF Untainted, HeldInv
<1>7. s.caller = "written" => WrittenInv(s, t + 1)
  <2>1. s.taken + Lifetime <= t + Delay => s.taken + Lifetime <= t + 1 + Delay
    BY <1>1, CacheConstants, SMT
  <2> QED BY <1>1, <1>2, <2>1 DEF Untainted, WrittenInv
<1>8. s.caller = "busy" => BusyInv(s, t + 1)
  <2> SUFFICES ASSUME s.caller = "busy" PROVE BusyInv(s, t + 1)
    OBVIOUS
  <2>1. CASE Answered(s, t)
    <3>1. s.back[1] \in Mess /\ 1 \in DOMAIN s.back
      BY <1>1, <2>1, SMT DEF Answered
    <3>2. s.back[1].at \in Nat /\ t - s.back[1].at < Delay
      BY <3>1 DEF Mess
    <3>3. t + 1 <= s.back[1].at + Delay
      BY <3>2, CacheConstants, SMT
    <3>4. Answered(s, t + 1)
      BY <2>1, <3>3 DEF Answered
    <3> QED BY <3>4 DEF BusyInv, Untainted
  <2>2. CASE ~Answered(s, t)
    BY <2>2 DEF Untainted, BusyInv
  <2> QED BY <2>1, <2>2
<1> QED BY <1>1, <1>4, <1>5, <1>6, <1>7, <1>8 DEF Untainted
-----------------------------------------------------------------------------
\* A step that gives one stream new contents and leaves the cache alone.
LEMMA OneStream ==
    ASSUME CacheInv, NEW i \in DOMAIN streams, NEW v, Untainted(v, time),
           v.caller = "kept" <=> streams[i].caller = "kept",
           streams' = [streams EXCEPT ![i] = v], UNCHANGED <<recycled, requests, time>>
    PROVE  CacheInv'
<1>1. DOMAIN streams' = DOMAIN streams /\ streams' \in Seq(Stream)
  <2>1. v \in Stream /\ streams \in Seq(Stream)
    BY DEF CacheInv, Untainted
  <2> QED BY <2>1, SMT
<1>2. \A j \in DOMAIN streams : streams'[j] = IF j = i THEN v ELSE streams[j]
  OBVIOUS
<1>3. \A j \in DOMAIN streams' : Untainted(streams'[j], time')
  BY <1>1, <1>2 DEF CacheInv
<1>4. CachedInv(recycled', streams')
  BY <1>1, <1>2 DEF CacheInv, CachedInv
<1> QED BY <1>1, <1>3, <1>4 DEF CacheInv

\* A stream that is kept, and not cached yet, may join the cache.
LEMMA RecycleInv ==
    ASSUME NEW rec, NEW ss, CachedInv(rec, ss), NEW i \in Nat, i \in DOMAIN ss,
           \A j \in DOMAIN rec : rec[j] # i,
           Len(rec) < CacheSize => ss[i].caller = "kept"
    PROVE  CachedInv(Recycle(rec, i), ss)
<1>1. CASE Len(rec) < CacheSize
  <2> DEFINE r == Append(rec, i)
  <2>1. rec \in Seq(Nat)
    BY DEF CachedInv
  <2>2. /\ r \in Seq(Nat) /\ DOMAIN r = DOMAIN rec \cup {Len(rec) + 1} /\ r[Len(rec) + 1] = i
        /\ \A j \in DOMAIN rec : r[j] = rec[j]
    BY <2>1, SMT
  <2>3. Recycle(rec, i) = r
    BY <1>1 DEF Recycle
  <2> HIDE DEF r
  <2>4. Distinct(r)
    BY <2>2 DEF CachedInv, Distinct
  <2>5. \A j \in DOMAIN r : r[j] \in DOMAIN ss /\ ss[r[j]].caller = "kept"
    BY <1>1, <2>2 DEF CachedInv
  <2> QED BY <2>2, <2>3, <2>4, <2>5 DEF CachedInv
<1>2. CASE ~(Len(rec) < CacheSize)
  BY <1>2 DEF Recycle
<1> QED BY <1>1, <1>2

\* The streams that are not too old are cached, kept, and different from each other.
LEMMA RetainedInv ==
    ASSUME CacheInv
    PROVE  /\ CachedInv(Retained, streams)
           /\ \A j \in DOMAIN Retained : Lives(streams[Retained[j]])
<1> DEFINE K == {k \in DOMAIN recycled : Lives(streams[recycled[k]])}
           r == At(recycled, K)
<1>1. /\ recycled \in Seq(Nat) /\ Distinct(recycled)
      /\ \A j \in DOMAIN recycled : /\ recycled[j] \in DOMAIN streams
                                    /\ streams[recycled[j]].caller = "kept"
  BY DEF CacheInv, CachedInv
<1>2. Retained = r
  BY DEF Retained
<1>3. r \in Seq(Nat) /\ \E e : Embeds(e, r, recycled, Len(recycled), K)
  <2> HIDE DEF K
  <2> QED BY <1>1, AtEmbeds
<1> HIDE DEF r
<1>4. PICK e : Embeds(e, r, recycled, Len(recycled), K)
  BY <1>3
<1>5. DOMAIN r = 1 .. Len(r) /\ Len(r) \in Nat
  BY <1>3, SMT
<1>6. /\ \A j \in DOMAIN r : e[j] \in K /\ r[j] = recycled[e[j]]
      /\ \A i, j \in DOMAIN r : i < j => e[i] < e[j]
      /\ \A j \in DOMAIN r : e[j] \in 1 .. Len(recycled)
  BY <1>4, <1>5 DEF Embeds
<1>7. Distinct(r)
  <2> SUFFICES ASSUME NEW i \in DOMAIN r, NEW j \in DOMAIN r, i # j PROVE r[i] # r[j]
    BY DEF Distinct
  <2>1. i < j \/ j < i
    BY <1>5, SMT
  <2>2. e[i] # e[j]
    BY <1>1, <1>6, <2>1, SMT
  <2> QED BY <1>1, <1>6, <2>2 DEF Distinct
<1>8. \A j \in DOMAIN r : /\ r[j] \in DOMAIN streams /\ streams[r[j]].caller = "kept"
                          /\ Lives(streams[r[j]])
  BY <1>1, <1>6
<1> QED BY <1>2, <1>3, <1>7, <1>8 DEF CachedInv

\* Dropping the streams that are too old.
LEMMA RetireInv ==
    ASSUME CacheInv
    PROVE  /\ Retire(streams) \in Seq(Stream) /\ Len(Retire(streams)) = Len(streams)
           /\ DOMAIN Retire(streams) = DOMAIN streams
           /\ \A i \in DOMAIN streams : Untainted(Retire(streams)[i], time)
           /\ \A i \in DOMAIN streams : Lives(streams[i]) => Retire(streams)[i] = streams[i]
<1> DEFINE R(s) == IF s.caller = "kept" /\ ~Lives(s) THEN [s EXCEPT !.caller = "gone"] ELSE s
           ss == [i \in DOMAIN streams |-> R(streams[i])]
<1>1. Retire(streams) = ss
  BY DEF Retire
<1>2. \A i \in DOMAIN streams : Untainted(ss[i], time)
  <2> TAKE i \in DOMAIN streams
  <2>1. Untainted(streams[i], time) /\ time \in Nat
    BY DEF CacheInv
  <2>2. Untainted([streams[i] EXCEPT !.caller = "gone"], time)
    BY <2>1, GoneStream
  <2> QED BY <2>1, <2>2
<1>3. \A i \in DOMAIN streams : Lives(streams[i]) => ss[i] = streams[i]
  OBVIOUS
<1>4. DOMAIN ss = DOMAIN streams
  OBVIOUS
<1>5. \A i \in DOMAIN streams : ss[i] \in Stream
  BY <1>2 DEF Untainted
<1>6. ss \in Seq(Stream) /\ Len(ss) = Len(streams)
  <2>1. streams \in Seq(Stream)
    BY DEF CacheInv
  <2>2. ss = [i \in 1 .. Len(streams) |-> ss[i]] /\ Len(streams) \in Nat /\ DOMAIN streams = 1 .. Len(streams)
    BY <2>1, SMT
  <2> HIDE DEF ss
  <2> QED BY <1>5, <2>2, SMT
<1> HIDE DEF ss
<1> QED BY <1>1, <1>2, <1>3, <1>4, <1>6
-----------------------------------------------------------------------------
\* A stream from the cache is taken: the first disjunct of Open.
Reuse(rest, i, rec) ==
    /\ rest = Retained /\ rest # <<>>
    /\ i = rest[Len(rest)] /\ rec = SubSeq(rest, 1, Len(rest) - 1)
    /\ streams' = [Retire(streams) EXCEPT ![i].caller = "held", ![i].taken = time]
    /\ recycled' = rec
    /\ UNCHANGED <<requests, time>>

LEMMA ReuseStep ==
    ASSUME CacheInv, NEW rest, NEW i, NEW rec, Reuse(rest, i, rec)
    PROVE  CacheInv'
<1> DEFINE ss == Retire(streams)
           v == [streams[i] EXCEPT !.caller = "held", !.taken = time]
<1>1. /\ CachedInv(rest, streams) /\ \A j \in DOMAIN rest : Lives(streams[rest[j]])
      /\ ss \in Seq(Stream) /\ DOMAIN ss = DOMAIN streams
      /\ \A j \in DOMAIN streams : Untainted(ss[j], time)
      /\ \A j \in DOMAIN streams : Lives(streams[j]) => ss[j] = streams[j]
      /\ time \in Nat /\ requests \in Nat
  BY RetainedInv, RetireInv DEF CacheInv, Reuse
<1>2. rest \in Seq(Nat)
  BY <1>1 DEF CachedInv
<1>3. /\ Len(rest) \in DOMAIN rest /\ rec \in Seq(Nat)
      /\ \A j \in DOMAIN rec : j \in DOMAIN rest /\ rec[j] = rest[j] /\ j # Len(rest)
  <2>1. rest # <<>> /\ rec = SubSeq(rest, 1, Len(rest) - 1)
    BY DEF Reuse
  <2> QED BY <1>2, <2>1, SMT
<1>4. /\ i \in DOMAIN streams /\ streams[i].caller = "kept" /\ Lives(streams[i]) /\ i \in Nat
      /\ ss[i] = streams[i]
  <2>1. i = rest[Len(rest)]
    BY DEF Reuse
  <2>2. i \in Nat
    BY <1>2, <1>3, <2>1, SMT
  <2> QED BY <1>1, <1>3, <2>1, <2>2 DEF CachedInv
<1>5. \A j \in DOMAIN rec : rec[j] # i /\ rec[j] \in DOMAIN streams /\ ss[rec[j]].caller = "kept"
  <2>1. i = rest[Len(rest)]
    BY DEF Reuse
  <2> QED BY <1>1, <1>3, <2>1 DEF CachedInv, Distinct
<1>6. Untainted(v, time)
  <2> DEFINE s == streams[i]
  <2>1. Untainted(s, time) /\ s.caller = "kept" /\ Lives(s)
    BY <1>4 DEF CacheInv
  <2> HIDE DEF s
  <2>2. Untainted([s EXCEPT !.caller = "held", !.taken = time], time)
    BY <1>1, <2>1, TakenStream
  <2> QED BY <2>2 DEF s
<1>7. streams' = [ss EXCEPT ![i] = v]
  BY <1>4 DEF Reuse
<1> HIDE DEF ss, v
<1>9. /\ streams' \in Seq(Stream) /\ DOMAIN streams' = DOMAIN ss /\ streams'[i] = v
      /\ \A j \in DOMAIN ss : j # i => streams'[j] = ss[j]
  <2>1. v \in Stream
    BY <1>6 DEF Untainted
  <2>2. ss \in Seq(Stream) /\ i \in DOMAIN ss
    BY <1>1, <1>4
  <2> QED BY <1>7, <2>1, <2>2, SeqUpdate
<1>10. \A j \in DOMAIN streams' : Untainted(streams'[j], time')
  <2>1. time' = time
    BY DEF Reuse
  <2> QED BY <1>1, <1>6, <1>9, <2>1
<1>11. CachedInv(recycled', streams')
  <2>1. Distinct(rec)
    BY <1>1, <1>3 DEF CachedInv, Distinct
  <2>2. CachedInv(rec, streams')
    BY <1>1, <1>3, <1>5, <1>9, <2>1 DEF CachedInv
  <2> QED BY <2>2 DEF Reuse
<1>12. requests' \in Nat /\ time' \in Nat
  BY <1>1 DEF Reuse
<1> QED BY <1>9, <1>10, <1>11, <1>12 DEF CacheInv

\* A new stream is opened: the second disjunct of Open.
Anew(rest) ==
    /\ rest = <<>>
    /\ streams' = Append(Retire(streams), FreshStream)
    /\ recycled' = rest
    /\ UNCHANGED <<requests, time>>

LEMMA OpenCachedStep ==
    ASSUME CacheInv, NEW rest, Anew(rest)
    PROVE  CacheInv'
<1> DEFINE ss == Retire(streams)
           v == FreshStream
           i == Len(streams) + 1
<1>1. /\ ss \in Seq(Stream) /\ Len(ss) = Len(streams) /\ DOMAIN ss = DOMAIN streams
      /\ \A j \in DOMAIN streams : Untainted(ss[j], time)
      /\ time \in Nat /\ requests \in Nat /\ streams \in Seq(Stream)
  BY RetireInv DEF CacheInv
<1>2. Untainted(v, time)
  BY <1>1, FreshHeld
<1> HIDE DEF ss, v
<1>4. /\ streams' \in Seq(Stream) /\ DOMAIN streams' = DOMAIN ss \cup {i} /\ streams'[i] = v
      /\ \A j \in DOMAIN ss : streams'[j] = ss[j]
  <2>1. v \in Stream
    BY <1>2 DEF Untainted
  <2>2. streams' = Append(ss, v)
    BY DEF ss, v, Anew
  <2>3. ss \in Seq(Stream) /\ i = Len(ss) + 1
    BY <1>1
  <2> HIDE DEF i
  <2> QED BY <2>1, <2>2, <2>3, SeqAppend
<1>5. \A j \in DOMAIN streams' : Untainted(streams'[j], time')
  <2>1. time' = time
    BY DEF Anew
  <2> QED BY <1>1, <1>2, <1>4, <2>1
<1>6. CachedInv(recycled', streams')
  <2>1. <<>> \in Seq(Nat) /\ DOMAIN <<>> = {}
    BY SMT
  <2> QED BY <2>1 DEF CachedInv, Distinct, Anew
<1>7. requests' \in Nat /\ time' \in Nat
  BY <1>1 DEF Anew
<1> QED BY <1>4, <1>5, <1>6, <1>7 DEF CacheInv

LEMMA WriteStep ==
    ASSUME CacheInv, NEW i \in DOMAIN streams, NEW answered \in BOOLEAN, Write(i, answered)
    PROVE  CacheInv'
<1> DEFINE s == streams[i]
           v == WithRequest(s, answered)
<1>1. /\ s.caller = "held" /\ streams' = [streams EXCEPT ![i] = v]
      /\ requests' = requests + 1 /\ UNCHANGED <<recycled, time>>
  BY DEF Write
<1>2. /\ Untainted(s, time) /\ time \in Nat /\ requests \in Nat /\ streams \in Seq(Stream)
      /\ CachedInv(recycled, streams)
  BY DEF CacheInv
<1>3. Untainted(v, time)
  <2> HIDE DEF s
  <2> QED BY <1>1, <1>2, RequestStream
<1> HIDE DEF v
<1>4. /\ streams' \in Seq(Stream) /\ DOMAIN streams' = DOMAIN streams /\ streams'[i] = v
      /\ \A j \in DOMAIN streams : j # i => streams'[j] = streams[j]
  <2>1. v \in Stream
    BY <1>3 DEF Untainted
  <2> QED BY <1>1, <1>2, <2>1, SMT
<1>5. CachedInv(recycled', streams')
  BY <1>1, <1>2, <1>4 DEF CachedInv
<1>6. \A j \in DOMAIN streams' : Untainted(streams'[j], time')
  BY <1>1, <1>3, <1>4 DEF CacheInv
<1>7. requests' \in Nat
  BY <1>1, <1>2, SMT
<1> QED BY <1>1, <1>2, <1>4, <1>5, <1>6, <1>7 DEF CacheInv

\* A stream that was not cached is recycled.
LEMMA KeepStep ==
    ASSUME CacheInv, NEW i \in DOMAIN streams, NEW w \in Stream, streams[i].caller # "kept",
           Untainted(Kept(w, recycled), time),
           streams' = [streams EXCEPT ![i] = Kept(w, recycled)],
           recycled' = Recycle(recycled, i), UNCHANGED <<requests, time>>
    PROVE  CacheInv'
<1> DEFINE v == Kept(w, recycled)
<1>1. /\ streams' = [streams EXCEPT ![i] = v] /\ time \in Nat /\ requests \in Nat
      /\ streams \in Seq(Stream) /\ CachedInv(recycled, streams) /\ Untainted(v, time)
  BY DEF CacheInv
<1>2. Len(recycled) < CacheSize => v.caller = "kept"
  <2>1. [w EXCEPT !.caller = "kept", !.kept = time].caller = "kept"
    BY DEF Stream
  <2> QED BY <2>1 DEF Kept
<1> HIDE DEF v
<1>3. /\ streams' \in Seq(Stream) /\ DOMAIN streams' = DOMAIN streams /\ streams'[i] = v
      /\ \A j \in DOMAIN streams : j # i => streams'[j] = streams[j]
  <2>1. v \in Stream
    BY <1>1 DEF Untainted
  <2> QED BY <1>1, <2>1, SMT
<1>4. \A j \in DOMAIN recycled : recycled[j] # i
  BY <1>1 DEF CachedInv
<1>5. CachedInv(recycled, streams')
  BY <1>1, <1>3, <1>4 DEF CachedInv
<1>6. CachedInv(recycled', streams')
  <2>1. i \in Nat /\ i \in DOMAIN streams'
    BY <1>1, <1>3, SMT
  <2> QED BY <1>2, <1>3, <1>4, <1>5, <2>1, RecycleInv
<1>7. \A j \in DOMAIN streams' : Untainted(streams'[j], time')
  BY <1>1, <1>3 DEF CacheInv
<1> QED BY <1>1, <1>3, <1>6, <1>7 DEF CacheInv

LEMMA KeepUnansweredStep ==
    ASSUME CacheInv, NEW i \in DOMAIN streams, KeepUnanswered(i)
    PROVE  CacheInv'
<1> DEFINE s == streams[i]
           w == [s EXCEPT !.lag = time - s.taken]
<1>1. /\ s.caller = "written" /\ streams' = [streams EXCEPT ![i] = Kept(w, recycled)]
      /\ recycled' = Recycle(recycled, i) /\ UNCHANGED <<requests, time>>
  BY DEF KeepUnanswered
<1>2. Untainted(s, time) /\ time \in Nat
  BY DEF CacheInv
<1>3. Untainted(Kept(w, recycled), time) /\ w \in Stream
  <2> HIDE DEF s
  <2> QED BY <1>1, <1>2, UnansweredStream
<1> HIDE DEF w
<1> QED BY <1>1, <1>3, KeepStep

LEMMA ReadStep ==
    ASSUME CacheInv, NEW i \in DOMAIN streams, ReadAnswer(i)
    PROVE  CacheInv'
<1> DEFINE s == streams[i]
           w == [s EXCEPT !.back = Tail(s.back)]
<1>1. /\ s.caller = "busy" /\ s.back # <<>> /\ streams' = [streams EXCEPT ![i] = Kept(w, recycled)]
      /\ recycled' = Recycle(recycled, i) /\ UNCHANGED <<requests, time>>
  BY DEF ReadAnswer
<1>2. Untainted(s, time) /\ time \in Nat
  BY DEF CacheInv
<1>3. Untainted(Kept(w, recycled), time)
  <2> HIDE DEF s
  <2> QED BY <1>1, <1>2, ReadStream
<1>4. w \in Stream
  <2> DEFINE b == s.back
  <2>1. s \in Stream /\ b \in Seq(Mess) /\ b # <<>>
    BY <1>1, <1>2 DEF Untainted, Stream
  <2>2. Tail(b) \in Seq(Mess)
    <3> HIDE DEF b
    <3> QED BY <2>1, SMT
  <2> QED BY <2>1, <2>2 DEF Stream
<1> HIDE DEF w
<1> QED BY <1>1, <1>3, <1>4, KeepStep

\* The steps that change one stream at one end.
LEMMA EndStep ==
    ASSUME CacheInv, NEW i \in DOMAIN streams,
           GiveUp(i) \/ Handle(i) \/ Respond(i) \/ Refuse(i) \/ Expire(i)
    PROVE  CacheInv'
<1> DEFINE s == streams[i]
<1>1. Untainted(s, time) /\ s \in Stream /\ time \in Nat
  BY DEF CacheInv, Untainted
<1>2. UNCHANGED <<recycled, requests, time>>
  BY DEF GiveUp, Handle, Respond, Refuse, Expire
<1>3. CASE GiveUp(i)
  <2> DEFINE v == [s EXCEPT !.caller = "gone"]
  <2>1. s.caller # "kept" /\ streams' = [streams EXCEPT ![i] = v]
    BY <1>3 DEF GiveUp
  <2>2. v.caller = "gone"
    BY <1>1 DEF Stream
  <2>3. Untainted(v, time)
    <3> HIDE DEF s
    <3> QED BY <1>1, GoneStream
  <2> HIDE DEF v
  <2> QED BY <1>2, <2>1, <2>2, <2>3, OneStream
<1>4. CASE Handle(i)
  <2> DEFINE v == [s EXCEPT !.callee = "handling", !.at = Head(s.out).call,
                            !.answered = Head(s.out).answered, !.out = Tail(s.out)]
  <2>1. s.callee = "waiting" /\ s.out # <<>> /\ streams' = [streams EXCEPT ![i] = v]
    BY <1>4 DEF Handle
  <2>2. v.caller = s.caller
    BY <1>1 DEF Stream
  <2>3. Untainted(v, time)
    <3> HIDE DEF s
    <3> QED BY <1>1, <2>1, HandleStream
  <2> HIDE DEF v
  <2> QED BY <1>2, <2>1, <2>2, <2>3, OneStream
<1>5. CASE Respond(i)
  <2> DEFINE v(after) == [s EXCEPT !.callee = after, !.since = time,
                !.back = IF s.answered THEN Append(s.back, Message(s.at, TRUE, 0)) ELSE s.back]
  <2>1. PICK after \in {"waiting", "closed"} : streams' = [streams EXCEPT ![i] = v(after)]
    BY <1>5 DEF Respond
  <2>2. s.callee = "handling"
    BY <1>5 DEF Respond
  <2>3. v(after).caller = s.caller
    BY <1>1 DEF Stream
  <2>4. Untainted(v(after), time)
    <3> HIDE DEF s
    <3> QED BY <1>1, <2>2, RespondStream
  <2> HIDE DEF v
  <2> QED BY <1>2, <2>1, <2>3, <2>4, OneStream
<1>6. CASE Refuse(i)
  <2> DEFINE v == [s EXCEPT !.callee = "closed"]
  <2>1. s.callee = "handling" /\ streams' = [streams EXCEPT ![i] = v]
    BY <1>6 DEF Refuse
  <2>2. v.caller = s.caller
    BY <1>1 DEF Stream
  <2>3. Untainted(v, time)
    <3> HIDE DEF s
    <3> QED BY <1>1, <2>1, RefuseStream
  <2> HIDE DEF v
  <2> QED BY <1>2, <2>1, <2>2, <2>3, OneStream
<1>7. CASE Expire(i)
  <2> DEFINE v == [s EXCEPT !.callee = "expired"]
  <2>1. /\ s.callee = "waiting" /\ s.since # -1 /\ time - s.since >= Lifetime
        /\ streams' = [streams EXCEPT ![i] = v]
    BY <1>7 DEF Expire
  <2>2. v.caller = s.caller
    BY <1>1 DEF Stream
  <2>3. Untainted(v, time)
    <3> HIDE DEF s
    <3> QED BY <1>1, <2>1, ExpireStream
  <2> HIDE DEF v
  <2> QED BY <1>2, <2>1, <2>2, <2>3, OneStream
<1> QED BY <1>3, <1>4, <1>5, <1>6, <1>7

LEMMA ElapseStep ==
    ASSUME CacheInv, Elapse
    PROVE  CacheInv'
<1>1. /\ time \in Nat /\ time' = time + 1 /\ UNCHANGED <<streams, recycled, requests>>
      /\ \A i \in DOMAIN streams : Untainted(streams[i], time)
  BY DEF CacheInv, Elapse
<1>2. \A i \in DOMAIN streams : Untainted(streams[i], time + 1)
  BY <1>1, ElapseStream DEF Elapse
<1>3. time' \in Nat
  BY <1>1, SMT
<1> QED BY <1>1, <1>2, <1>3 DEF CacheInv

\* The inductive invariant holds throughout.
THEOREM CacheInvariant == CacheSpec => []CacheInv
<1>1. CacheInit => CacheInv
  <2>1. <<>> \in Seq(Nat) /\ <<>> \in Seq(Stream) /\ DOMAIN <<>> = {} /\ 0 \in Nat
    BY SMT
  <2> QED BY <2>1 DEF CacheInit, CacheInv, CachedInv, Distinct
<1>2. CacheInv /\ [CacheNext]_cache => CacheInv'
  <2> SUFFICES ASSUME CacheInv, [CacheNext]_cache PROVE CacheInv'
    OBVIOUS
  <2>1. CASE Open
    <3>1. \/ \E rest, i, rec : Reuse(rest, i, rec)
          \/ \E rest : Anew(rest)
      BY <2>1 DEF Open, Reuse, Anew
    <3> QED BY <3>1, ReuseStep, OpenCachedStep
  <2>2. ASSUME NEW i \in DOMAIN streams,
               \/ \E answered \in BOOLEAN : Write(i, answered)
               \/ KeepUnanswered(i) \/ GiveUp(i) \/ ReadAnswer(i)
               \/ Handle(i) \/ Respond(i) \/ Refuse(i) \/ Expire(i)
        PROVE  CacheInv'
    BY <2>2, WriteStep, KeepUnansweredStep, ReadStep, EndStep
  <2>3. CASE Elapse
    BY <2>3, ElapseStep
  <2>4. CASE UNCHANGED cache
    BY <2>4 DEF cache, CacheInv
  <2> QED BY <2>1, <2>2, <2>3, <2>4 DEF CacheNext
<1> QED BY <1>1, <1>2, PTL DEF CacheSpec

\* The answer a caller reads is the answer to the request it sent last on the stream.
THEOREM AnswersAreMatched == CacheSpec => []AnswersMatch
<1>1. CacheInv => AnswersMatch
  <2> SUFFICES ASSUME CacheInv, NEW i \in DOMAIN streams, streams[i].caller = "busy", streams[i].back # <<>>
               PROVE  Head(streams[i].back).call = streams[i].call
    BY DEF AnswersMatch
  <2>1. Answered(streams[i], time) /\ streams[i].back \in Seq(Mess)
    BY DEF CacheInv, Untainted, BusyInv, OnItsWay, InHand, Refused, Stream
  <2>2. Head(streams[i].back) = streams[i].back[1]
    BY <2>1, SMT
  <2> QED BY <2>1, <2>2 DEF Answered
<1> QED BY <1>1, CacheInvariant, PTL

\* A request is lost on a stream its callee gave up only if calls held the stream for
\* longer than the margin leaves (StreamCache::reuse, repl_rpc_low), for every lifetime
\* and margin, and every delay of which the margin covers two.
THEOREM StreamsAreReusedInTime == CacheSpec => []ReusedInTime
<1>1. CacheInv => ReusedInTime
  <2> SUFFICES ASSUME CacheInv, NEW i \in DOMAIN streams, streams[i].callee = "expired",
                      streams[i].out # <<>>
               PROVE  streams[i].out[1].lag > Margin - 2 * Delay
    BY DEF ReusedInTime
  <2>1. streams[i] \in Stream /\ Margin - 2 * Delay < streams[i].out[1].lag
    BY DEF CacheInv, Untainted, OutInv
  <2>2. streams[i].out[1].lag \in Nat
    BY <2>1, StreamFields
  <2> QED BY <2>1, <2>2, CacheConstants, SMT
<1> QED BY <1>1, CacheInvariant, PTL
-----------------------------------------------------------------------------

Conn == [pending_requests : Nat, new_requests : Nat]
Table == UNION {[D -> Conn] : D \in SUBSET Cid}

Dial == [type : {"dial"}, peer : Peers, cid : Cid]
Event == Dial \cup [type : {"outgoing"}, peer : Peers, res : Word]
              \cup [type : {"incoming"}, peer : Peers]

Item == Word \cup {"incoming"}
Hand == [to_request : Nat, opening : Nat, stream : Seq(Item)]

Tracked == {"queued", "dialling", "up", "refused"}
Place == [peer : Peers, st : Tracked \cup {"free", "closed"}]

StreamTypes ==
    /\ connections \in [Peers -> Table]
    /\ events \in Seq(Event)
    /\ waiting \in [Peers -> Nat]
    /\ swarm \in [Cid -> Place]
    /\ handler \in [Cid -> Hand]

\* The behaviour's entries are connections to that peer which the swarm still has, or
\* has yet to be asked for.
Placed == \A p \in Peers : \A c \in DOMAIN connections[p] :
            swarm[c].peer = p /\ swarm[c].st \in Tracked

\* What a handler has yet to open, is opening and has to report
Held(h) == h.to_request + h.opening + Tally(h.stream, Word)

\* The pending requests of an established connection are in its handler's hands.
Handled ==
    \A c \in Cid :
      IF swarm[c].st = "up"
      THEN /\ c \in DOMAIN connections[swarm[c].peer]
           /\ connections[swarm[c].peer][c].pending_requests = Held(handler[c])
      ELSE handler[c] = NoHandler

\* A dial the swarm has not been told of: nothing happened to its connection yet, and
\* it is asked for once.
Dials == \A i \in DOMAIN events : events[i].type = "dial" =>
           /\ swarm[events[i].cid] = [peer |-> events[i].peer, st |-> "queued"]
           /\ \A j \in DOMAIN events :
                events[j].type = "dial" /\ events[j].cid = events[i].cid => j = i

StreamInv == StreamTypes /\ Placed /\ Handled /\ Dials /\ Ledger
-----------------------------------------------------------------------------
\* Total_requests of the entry for c, if there is one
Weight(f, c) == IF c \in DOMAIN f THEN Total(f[c]) ELSE 0

LEMMA TableFacts ==
    ASSUME NEW f \in Table
    PROVE  /\ DOMAIN f \subseteq Cid
           /\ \A c \in DOMAIN f : f[c] \in Conn /\ Total(f[c]) \in Nat
           /\ f \in [DOMAIN f -> Conn]
BY DEF Table, Conn, Total

LEMMA WeightType ==
    ASSUME NEW f \in Table, NEW c
    PROVE  Weight(f, c) \in Nat
BY TableFacts DEF Weight

LEMMA LoadIsSum ==
    ASSUME NEW f \in Table
    PROVE  /\ [c \in Cid |-> Weight(f, c)] \in [1 .. MaxConns -> Nat]
           /\ Load(f) = SumTo([c \in Cid |-> Weight(f, c)], MaxConns)
BY WeightType DEF Weight, Load, Cid

LEMMA LoadType ==
    ASSUME NEW f \in Table
    PROVE  Load(f) \in Nat
<1> DEFINE F == [c \in Cid |-> Weight(f, c)]
<1>1. F \in [1 .. MaxConns -> Nat] /\ Load(f) = SumTo(F, MaxConns)
  BY LoadIsSum
<1>2. MaxConns \in Nat
  BY StreamingAssumption
<1> HIDE DEF F
<1> QED
  BY <1>1, <1>2, SumType

LEMMA LoadEmpty ==
    [c \in {} |-> Default] \in Table /\ Load([c \in {} |-> Default]) = 0
<1> DEFINE f == [c \in {} |-> Default]
           F == [c \in Cid |-> Weight(f, c)]
<1>1. f \in Table
  BY DEF Table, Conn
<1>2. \A c \in 1 .. MaxConns : F[c] = 0
  BY DEF Weight, Cid
<1> HIDE DEF f
<1>3. F \in [1 .. MaxConns -> Nat] /\ Load(f) = SumTo(F, MaxConns)
  BY <1>1, LoadIsSum
<1>4. MaxConns \in Nat
  BY StreamingAssumption
<1> HIDE DEF F
<1>5. Load(f) = 0
  BY <1>2, <1>3, <1>4, SumZero
<1> QED
  BY <1>1, <1>5 DEF f

\* Two tables that differ at one connection differ in load by its requests.
LEMMA LoadChange ==
    ASSUME NEW f \in Table, NEW g \in Table, NEW c \in Cid,
           \A d \in Cid : d # c => Weight(g, d) = Weight(f, d)
    PROVE  Load(g) = Load(f) - Weight(f, c) + Weight(g, c)
<1> DEFINE F == [d \in Cid |-> Weight(f, d)]
           G == [d \in Cid |-> Weight(g, d)]
<1>1. F \in [1 .. MaxConns -> Nat] /\ Load(f) = SumTo(F, MaxConns)
  BY LoadIsSum
<1>2. G \in [1 .. MaxConns -> Nat] /\ Load(g) = SumTo(G, MaxConns)
  BY LoadIsSum
<1>3. MaxConns \in Nat
  BY StreamingAssumption
<1>4. c \in 1 .. MaxConns /\ F[c] = Weight(f, c) /\ G[c] = Weight(g, c)
  BY DEF Cid
<1>5. \A d \in 1 .. MaxConns : d # c => G[d] = F[d]
  BY DEF Cid
<1> HIDE DEF F, G
<1>6. SumTo(G, MaxConns) = SumTo(F, MaxConns) - F[c] + G[c]
  BY <1>1, <1>2, <1>3, <1>4, <1>5, SumUpdate
<1> QED
  BY <1>1, <1>2, <1>4, <1>6

LEMMA Inserting ==
    ASSUME NEW f \in Table, NEW c \in Cid, NEW v \in Conn
    PROVE  /\ Inserted(f, c, v) \in Table
           /\ DOMAIN Inserted(f, c, v) = DOMAIN f \cup {c}
           /\ Inserted(f, c, v)[c] = v
           /\ \A d \in DOMAIN f : d # c => Inserted(f, c, v)[d] = f[d]
           /\ Load(Inserted(f, c, v)) = Load(f) - Weight(f, c) + Total(v)
<1> DEFINE g == Inserted(f, c, v)
<1>1. /\ g \in [DOMAIN f \cup {c} -> Conn] /\ DOMAIN g = DOMAIN f \cup {c}
      /\ g[c] = v /\ \A d \in DOMAIN f : d # c => g[d] = f[d]
  BY TableFacts DEF Inserted
<1> HIDE DEF g
<1>2. g \in Table
  BY <1>1, TableFacts DEF Table
<1>3. Weight(g, c) = Total(v) /\ \A d \in Cid : d # c => Weight(g, d) = Weight(f, d)
  BY <1>1 DEF Weight
<1>4. Load(g) = Load(f) - Weight(f, c) + Total(v)
  BY <1>2, <1>3, LoadChange
<1> QED
  BY <1>1, <1>2, <1>4 DEF g

LEMMA Updating ==
    ASSUME NEW f \in Table, NEW c \in DOMAIN f, NEW v \in Conn
    PROVE  /\ c \in Cid
           /\ [f EXCEPT ![c] = v] \in Table
           /\ DOMAIN [f EXCEPT ![c] = v] = DOMAIN f
           /\ [f EXCEPT ![c] = v][c] = v
           /\ \A d \in DOMAIN f : d # c => [f EXCEPT ![c] = v][d] = f[d]
           /\ Load([f EXCEPT ![c] = v]) = Load(f) - Total(f[c]) + Total(v)
<1>1. c \in Cid /\ DOMAIN f \cup {c} = DOMAIN f
  BY TableFacts
<1>2. Inserted(f, c, v) = [f EXCEPT ![c] = v]
  BY <1>1, TableFacts DEF Inserted
<1> DEFINE g == Inserted(f, c, v)
<1>3. /\ g \in Table /\ DOMAIN g = DOMAIN f \cup {c} /\ g[c] = v
      /\ \A d \in DOMAIN f : d # c => g[d] = f[d]
      /\ Load(g) = Load(f) - Weight(f, c) + Total(v)
  BY <1>1, Inserting
<1>4. Weight(f, c) = Total(f[c])
  BY DEF Weight
<1> HIDE DEF g
<1>5. g = [f EXCEPT ![c] = v]
  BY <1>2 DEF g
<1> QED
  BY <1>1, <1>3, <1>4, <1>5

LEMMA Removing ==
    ASSUME NEW f \in Table, NEW c \in DOMAIN f
    PROVE  /\ c \in Cid
           /\ Removed(f, c) \in Table
           /\ DOMAIN Removed(f, c) = DOMAIN f \ {c}
           /\ \A d \in DOMAIN f : d # c => Removed(f, c)[d] = f[d]
           /\ Load(Removed(f, c)) = Load(f) - Total(f[c])
<1> DEFINE g == Removed(f, c)
<1>1. /\ g \in [DOMAIN f \ {c} -> Conn] /\ DOMAIN g = DOMAIN f \ {c}
      /\ \A d \in DOMAIN f : d # c => g[d] = f[d]
  BY TableFacts DEF Removed
<1> HIDE DEF g
<1>2. g \in Table /\ c \in Cid
  BY <1>1, TableFacts DEF Table
<1>3. Weight(g, c) = 0 /\ \A d \in Cid : d # c => Weight(g, d) = Weight(f, d)
  BY <1>1 DEF Weight
<1>4. Load(g) = Load(f) - Weight(f, c) + Weight(g, c)
  BY <1>2, <1>3, LoadChange
<1>5. Load(g) \in Nat /\ Load(f) \in Nat /\ Total(f[c]) \in Nat /\ Weight(f, c) = Total(f[c])
  BY <1>2, LoadType, TableFacts DEF Weight
<1> QED
  BY <1>1, <1>2, <1>3, <1>4, <1>5 DEF g
-----------------------------------------------------------------------------
LEMMA EventKinds ==
    ASSUME NEW e \in Event
    PROVE  /\ e.peer \in Peers /\ e.type \in {"dial", "outgoing", "incoming"}
           /\ e.type = "dial" => e.cid \in Cid
           /\ e.type = "outgoing" => e.res \in Word /\ e = Outgoing(e.peer, e.res)
BY DEF Event, Dial, Outgoing

LEMMA EventAnswers ==
    ASSUME NEW e \in Event, NEW q \in Peers
    PROVE  e \in Answers(q) <=> e.type = "outgoing" /\ e.peer = q
BY EventKinds DEF Answers, Outgoing

LEMMA EventTypes ==
    ASSUME NEW p \in Peers
    PROVE  /\ \A c \in Cid : [type |-> "dial", peer |-> p, cid |-> c] \in Event
           /\ \A w \in Word : Outgoing(p, w) \in Event
           /\ [type |-> "incoming", peer |-> p] \in Event
BY DEF Event, Dial, Outgoing

\* A connection the swarm has not used is nobody's, and has no handler.
LEMMA FreshIsNew ==
    ASSUME StreamInv, NEW c \in Fresh
    PROVE  /\ c \in Cid /\ swarm[c].st = "free" /\ handler[c] = NoHandler
           /\ \A p \in Peers : c \notin DOMAIN connections[p]
BY DEF Fresh, StreamInv, Placed, Tracked, Handled

\* The dials stay queued when none is added and no queued connection moves.
LEMMA DialsKept ==
    ASSUME Dials,
           \A i \in DOMAIN events' : events'[i].type = "dial" =>
             i \in DOMAIN events /\ events'[i] = events[i],
           events \in Seq(Event),
           \A c \in Cid : swarm[c].st = "queued" => swarm'[c] = swarm[c]
    PROVE  Dials'
<1>1. \A i \in DOMAIN events : events[i] \in Event
  OBVIOUS
<1>2. \A i \in DOMAIN events : events[i].type = "dial" => events[i].cid \in Cid
  BY <1>1, EventKinds
<1>3. \A i \in DOMAIN events : events[i].type = "dial" =>
        swarm'[events[i].cid] = [peer |-> events[i].peer, st |-> "queued"]
  BY <1>2 DEF Dials
<1> QED
  BY <1>3 DEF Dials

LEMMA NothingHeld == Held(NoHandler) = 0 /\ NoHandler \in Hand
BY TallyEmpty DEF Held, NoHandler, Hand

LEMMA HeldType ==
    ASSUME NEW h \in Hand
    PROVE  Held(h) \in Nat
BY TallyType DEF Held, Hand
-----------------------------------------------------------------------------
LEMMA TableStep ==
    ASSUME connections \in [Peers -> Table], NEW p \in Peers, NEW g \in Table,
           connections' = [connections EXCEPT ![p] = g]
    PROVE  /\ connections' \in [Peers -> Table]
           /\ connections'[p] = g
           /\ \A q \in Peers : q # p => connections'[q] = connections[q]
OBVIOUS

LEMMA TypesOf ==
    ASSUME StreamInv
    PROVE  /\ \A p \in Peers : /\ connections[p] \in Table /\ waiting[p] \in Nat
                               /\ Load(connections[p]) \in Nat
                               /\ Tally(events, Answers(p)) \in Nat
                               /\ waiting[p] = Load(connections[p]) + Tally(events, Answers(p))
           /\ \A c \in Cid : swarm[c] \in Place /\ handler[c] \in Hand
<1>1. ASSUME NEW p \in Peers
      PROVE  /\ connections[p] \in Table /\ waiting[p] \in Nat
             /\ waiting[p] = Load(connections[p]) + Tally(events, Answers(p))
             /\ events \in Seq(Event)
  BY DEF StreamInv, StreamTypes, Ledger, Owed
<1>2. ASSUME NEW p \in Peers
      PROVE  Load(connections[p]) \in Nat /\ Tally(events, Answers(p)) \in Nat
  BY <1>1, LoadType, TallyType
<1> QED
  BY <1>1, <1>2 DEF StreamInv, StreamTypes

\* A request joins a connection the behaviour has.
Join(p, c) ==
    /\ connections' = [connections EXCEPT ![p][c].new_requests = @ + 1]
    /\ waiting' = [waiting EXCEPT ![p] = @ + 1]
    /\ UNCHANGED <<events, swarm, handler>>

LEMMA JoinStep ==
    ASSUME StreamInv, NEW p \in Peers, NEW c \in DOMAIN connections[p], Join(p, c)
    PROVE  StreamInv' /\ Stranded' = Stranded
<1> DEFINE f == connections[p]
           a == f[c].pending_requests
           b == f[c].new_requests
           v == [pending_requests |-> a, new_requests |-> b + 1]
           g == [f EXCEPT ![c] = v]
<1>0. f \in Table /\ connections \in [Peers -> Table] /\ waiting \in [Peers -> Nat]
  BY DEF StreamInv, StreamTypes
<1>1. /\ f[c] \in Conn /\ a \in Nat /\ b \in Nat /\ v \in Conn /\ c \in DOMAIN f
      /\ Total(v) = Total(f[c]) + 1 /\ Total(f[c]) \in Nat
  BY <1>0, TableFacts DEF Conn, Total
<1>2. [f[c] EXCEPT !.new_requests = b + 1] = v
  BY <1>1 DEF Conn
<1>3. connections' = [connections EXCEPT ![p] = g]
  BY <1>0, <1>2 DEF Join
<1>x. v.pending_requests = f[c].pending_requests
  OBVIOUS
<1> HIDE DEF f, v, a, b
<1>4. /\ c \in Cid /\ g \in Table /\ DOMAIN g = DOMAIN f /\ g[c] = v
      /\ \A d \in DOMAIN f : d # c => g[d] = f[d]
      /\ Load(g) = Load(f) - Total(f[c]) + Total(v)
  BY <1>0, <1>1, Updating
<1> HIDE DEF g
<1>5. /\ connections' \in [Peers -> Table]
      /\ connections'[p] = g /\ \A q \in Peers : q # p => connections'[q] = connections[q]
  BY <1>0, <1>3, <1>4, TableStep
<1>6. StreamTypes'
  BY <1>0, <1>5 DEF Join, StreamInv, StreamTypes
<1>7. /\ \A q \in Peers : DOMAIN connections'[q] = DOMAIN connections[q]
      /\ \A q \in Peers : \A d \in DOMAIN connections[q] :
           connections'[q][d].pending_requests = connections[q][d].pending_requests
  BY <1>4, <1>5, <1>x DEF f
<1>8. Placed'
  BY <1>7 DEF Join, StreamInv, Placed
<1>9. Handled'
  BY <1>7 DEF Join, StreamInv, StreamTypes, Place, Handled
<1>10. Dials'
  BY DEF Join, StreamInv, Dials
<1>11. Ledger'
  <2> SUFFICES ASSUME NEW q \in Peers
               PROVE  waiting'[q] = Load(connections'[q]) + Tally(events, Answers(q))
    BY DEF Join, Ledger, Owed, Answers
  <2>1. CASE q = p
    <3>1. waiting'[p] = waiting[p] + 1
      BY <1>0 DEF Join
    <3>2. Load(g) = Load(f) + 1 /\ Load(f) \in Nat
      BY <1>0, <1>1, <1>4, LoadType
    <3>3. /\ waiting[p] = Load(f) + Tally(events, Answers(p))
          /\ Tally(events, Answers(p)) \in Nat
      BY TypesOf DEF f
    <3> QED
      BY <2>1, <3>1, <3>2, <3>3, <1>5
  <2>2. CASE q # p
    BY <2>2, <1>0, <1>5, TypesOf DEF Join
  <2> QED
    BY <2>1, <2>2
<1>12. Stranded' = Stranded
  BY <1>7 DEF Join, Stranded
<1> QED
  BY <1>6, <1>8, <1>9, <1>10, <1>11, <1>12 DEF StreamInv

\* A request for a peer without a connection: the behaviour asks for a dial.
Ask(p, c) ==
    /\ connections' = [connections EXCEPT
         ![p] = Inserted(@, c, [pending_requests |-> 0, new_requests |-> 1])]
    /\ events' = Append(events, [type |-> "dial", peer |-> p, cid |-> c])
    /\ swarm' = [swarm EXCEPT ![c] = [peer |-> p, st |-> "queued"]]
    /\ waiting' = [waiting EXCEPT ![p] = @ + 1]
    /\ UNCHANGED handler

LEMMA AskStep ==
    ASSUME StreamInv, NEW p \in Peers, NEW c \in Fresh, Ask(p, c)
    PROVE  StreamInv' /\ Stranded' = Stranded
<1> DEFINE f == connections[p]
           v == [pending_requests |-> 0, new_requests |-> 1]
           g == Inserted(f, c, v)
           e == [type |-> "dial", peer |-> p, cid |-> c]
<1>0. /\ f \in Table /\ connections \in [Peers -> Table] /\ waiting \in [Peers -> Nat]
      /\ swarm \in [Cid -> Place] /\ events \in Seq(Event)
  BY DEF StreamInv, StreamTypes
<1>1. v \in Conn /\ Total(v) = 1
  BY DEF Conn, Total
<1>2. /\ c \in Cid /\ swarm[c].st = "free" /\ handler[c] = NoHandler /\ c \notin DOMAIN f
      /\ \A q \in Peers : c \notin DOMAIN connections[q]
  BY FreshIsNew
<1>3. connections' = [connections EXCEPT ![p] = g]
  BY <1>0 DEF Ask
<1>e. e \in Event /\ e.type = "dial" /\ e.cid = c /\ e.peer = p /\ events' = Append(events, e)
  BY <1>2, EventTypes DEF Ask
<1> HIDE DEF f, v, e
<1>4. /\ g \in Table /\ DOMAIN g = DOMAIN f \cup {c}
      /\ \A d \in DOMAIN f : d # c => g[d] = f[d]
      /\ Load(g) = Load(f) + 1 /\ Load(f) \in Nat
  <2>1. /\ g \in Table /\ DOMAIN g = DOMAIN f \cup {c}
        /\ \A d \in DOMAIN f : d # c => g[d] = f[d]
        /\ Load(g) = Load(f) - Weight(f, c) + Total(v)
    <3>1. f \in Table /\ c \in Cid /\ v \in Conn
      BY <1>0, <1>1, <1>2
    <3> QED
      BY ONLY <3>1, Inserting
  <2>2. Weight(f, c) = 0 /\ Load(f) \in Nat
    BY <1>0, <1>2, LoadType DEF Weight
  <2> QED
    BY <2>1, <2>2, <1>1
<1> HIDE DEF g
<1>5. /\ connections' \in [Peers -> Table]
      /\ connections'[p] = g /\ \A q \in Peers : q # p => connections'[q] = connections[q]
  BY <1>0, <1>3, <1>4, TableStep
<1>6. /\ swarm' \in [Cid -> Place] /\ swarm'[c] = [peer |-> p, st |-> "queued"]
      /\ \A d \in Cid : d # c => swarm'[d] = swarm[d]
  BY <1>0, <1>2 DEF Ask, Place, Tracked
<1>7. StreamTypes'
  BY <1>0, <1>5, <1>6, <1>e DEF Ask, StreamInv, StreamTypes
<1>8. \A q \in Peers : \A d \in Cid :
        /\ d # c => (d \in DOMAIN connections'[q] <=> d \in DOMAIN connections[q])
        /\ d # c /\ d \in DOMAIN connections[q] => connections'[q][d] = connections[q][d]
        /\ d = c => (d \in DOMAIN connections'[q] <=> q = p)
  BY <1>2, <1>4, <1>5 DEF f
<1>9. \A q \in Peers : DOMAIN connections'[q] \subseteq Cid /\ DOMAIN connections[q] \subseteq Cid
  BY <1>0, <1>5, TableFacts
<1>10. Placed'
  BY <1>6, <1>8, <1>9 DEF StreamInv, Placed, Tracked
<1>11. Handled'
  <2> SUFFICES ASSUME NEW d \in Cid
               PROVE  IF swarm'[d].st = "up"
                      THEN /\ d \in DOMAIN connections'[swarm'[d].peer]
                           /\ connections'[swarm'[d].peer][d].pending_requests = Held(handler[d])
                      ELSE handler[d] = NoHandler
    BY DEF Ask, Handled, Held
  <2>1. CASE d = c
    BY <2>1, <1>2, <1>6
  <2>2. CASE d # c
    BY <2>2, <1>0, <1>6, <1>8 DEF StreamInv, Handled, Place
  <2> QED
    BY <2>1, <2>2
<1>12. Dials'
  <2>1. /\ Len(events) \in Nat /\ DOMAIN events = 1 .. Len(events)
        /\ DOMAIN events' = 1 .. Len(events) + 1 /\ events'[Len(events) + 1] = e
        /\ \A i \in DOMAIN events : events'[i] = events[i] /\ events[i] \in Event
    BY <1>0, <1>e
  <2>2. \A i \in DOMAIN events : events[i].type = "dial" =>
          /\ events[i].cid \in Cid /\ events[i].cid # c
          /\ swarm'[events[i].cid] = [peer |-> events[i].peer, st |-> "queued"]
    <3>1. \A i \in DOMAIN events : events[i].type = "dial" =>
            events[i].cid \in Cid
      BY <2>1, EventKinds
    <3>2. \A i \in DOMAIN events : events[i].type = "dial" =>
            swarm[events[i].cid] = [peer |-> events[i].peer, st |-> "queued"]
      BY DEF StreamInv, Dials
    <3>3. ASSUME NEW i \in DOMAIN events, events[i].type = "dial", events[i].cid = c
          PROVE  FALSE
      <4>1. swarm[c] = [peer |-> events[i].peer, st |-> "queued"]
        BY <3>2, <3>3
      <4> QED
        BY <4>1, <1>2
    <3> QED
      BY <3>1, <3>2, <3>3, <1>6
  <2>3. \A i, j \in DOMAIN events :
          events[i].type = "dial" /\ events[j].type = "dial" /\ events[j].cid = events[i].cid => j = i
    BY DEF StreamInv, Dials
  <2> HIDE DEF e
  <2>4. ASSUME NEW i \in DOMAIN events', events'[i].type = "dial"
        PROVE  /\ swarm'[events'[i].cid] = [peer |-> events'[i].peer, st |-> "queued"]
               /\ \A j \in DOMAIN events' :
                    events'[j].type = "dial" /\ events'[j].cid = events'[i].cid => j = i
    <3>1. CASE i \in DOMAIN events
      BY <3>1, <2>1, <2>2, <2>3, <2>4, <1>e
    <3>2. CASE i = Len(events) + 1
      <4>1. events'[i] = e /\ swarm'[events'[i].cid] = [peer |-> events'[i].peer, st |-> "queued"]
        BY <3>2, <2>1, <1>6, <1>e
      <4>2. \A j \in DOMAIN events' : j = i \/ j \in DOMAIN events
        BY <3>2, <2>1
      <4>3. \A j \in DOMAIN events : events'[j].type = "dial" => events'[j].cid # c
        BY <2>1, <2>2
      <4> QED
        BY <4>1, <4>2, <4>3, <1>e
    <3> QED
      BY <3>1, <3>2, <2>1
  <2> QED
    BY <2>4 DEF Dials
<1>13. Ledger'
  <2> SUFFICES ASSUME NEW q \in Peers
               PROVE  waiting'[q] = Load(connections'[q]) + Tally(events', Answers(q))
    BY DEF Ledger, Owed, Answers
  <2>1. Tally(events', Answers(q)) = Tally(events, Answers(q))
    <3>1. e \notin Answers(q)
      BY <1>e, EventAnswers
    <3>2. Tally(Append(events, e), Answers(q))
            = Tally(events, Answers(q)) + IF e \in Answers(q) THEN 1 ELSE 0
      BY <1>0, <1>e, TallyAppend
    <3>3. Tally(events, Answers(q)) \in Nat
      BY TypesOf
    <3> QED
      BY <3>1, <3>2, <3>3, <1>e
  <2>2. /\ waiting[q] = Load(connections[q]) + Tally(events, Answers(q))
        /\ Tally(events, Answers(q)) \in Nat
    BY TypesOf
  <2>3. CASE q = p
    BY <2>1, <2>2, <2>3, <1>0, <1>4, <1>5 DEF Ask, f
  <2>4. CASE q # p
    BY <2>1, <2>2, <2>4, <1>0, <1>5 DEF Ask
  <2> QED
    BY <2>3, <2>4
<1>14. Stranded' = Stranded
  BY <1>2, <1>6, <1>8, <1>9 DEF Stranded
<1> QED
  BY <1>7, <1>10, <1>11, <1>12, <1>13, <1>14 DEF StreamInv
-----------------------------------------------------------------------------
\* Nothing but connection c of p changes, except that requests may move.
Frame(p, c) ==
    /\ StreamTypes'
    /\ \A q \in Peers : q # p => connections'[q] = connections[q]
    /\ \A d \in Cid : d # c =>
         /\ swarm'[d] = swarm[d] /\ handler'[d] = handler[d]
         /\ d \in DOMAIN connections'[p] <=> d \in DOMAIN connections[p]
         /\ d \in DOMAIN connections[p] =>
              connections'[p][d].pending_requests = connections[p][d].pending_requests

\* Connection c is p's alone, and is handled as it should be.
Handed(p, c) ==
    /\ \A q \in Peers : c \in DOMAIN connections[q] => q = p
    /\ c \in DOMAIN connections'[p] => swarm'[c].peer = p /\ swarm'[c].st \in Tracked
    /\ IF swarm'[c].st = "up"
       THEN /\ swarm'[c].peer = p /\ c \in DOMAIN connections'[p]
            /\ connections'[p][c].pending_requests = Held(handler'[c])
       ELSE handler'[c] = NoHandler

\* And it is refused if it was.
Settled(p, c) ==
    /\ Handed(p, c)
    /\ (c \in DOMAIN connections'[p] /\ swarm'[c].st = "refused")
         <=> (c \in DOMAIN connections[p] /\ swarm[c].st = "refused")

LEMMA FrameStep ==
    ASSUME StreamInv, NEW p \in Peers, NEW c \in Cid, Frame(p, c), Handed(p, c)
    PROVE  Placed' /\ Handled' /\ (Settled(p, c) => Stranded' = Stranded)
<1>0. \A q \in Peers : DOMAIN connections'[q] \subseteq Cid /\ DOMAIN connections[q] \subseteq Cid
  BY TableFacts DEF Frame, StreamInv, StreamTypes
<1>1. ASSUME NEW q \in Peers, NEW d \in Cid
      PROVE  \/ d = c /\ q = p
             \/ d = c /\ q # p /\ d \notin DOMAIN connections'[q] /\ d \notin DOMAIN connections[q]
             \/ /\ d # c /\ (d \in DOMAIN connections'[q] <=> d \in DOMAIN connections[q])
                /\ swarm'[d] = swarm[d] /\ handler'[d] = handler[d]
                /\ d \in DOMAIN connections[q] =>
                     connections'[q][d].pending_requests = connections[q][d].pending_requests
  BY DEF Frame, Settled, Handed
<1>2. Placed'
  <2> SUFFICES ASSUME NEW q \in Peers, NEW d \in DOMAIN connections'[q]
               PROVE  swarm'[d].peer = q /\ swarm'[d].st \in Tracked
    BY DEF Placed, Tracked
  <2>1. d \in Cid
    BY <1>0
  <2>2. CASE d = c
    BY <2>1, <2>2, <1>1 DEF Settled, Handed
  <2>3. CASE d # c
    BY <2>1, <2>3, <1>1 DEF StreamInv, Placed
  <2> QED
    BY <2>2, <2>3
<1>3. Handled'
  <2> SUFFICES ASSUME NEW d \in Cid
               PROVE  IF swarm'[d].st = "up"
                      THEN /\ d \in DOMAIN connections'[swarm'[d].peer]
                           /\ connections'[swarm'[d].peer][d].pending_requests = Held(handler'[d])
                      ELSE handler'[d] = NoHandler
    BY DEF Handled, Held, NoHandler
  <2>1. CASE d = c
    BY <2>1 DEF Settled, Handed
  <2>2. CASE d # c
    <3>1. swarm'[d] = swarm[d] /\ handler'[d] = handler[d] /\ swarm[d].peer \in Peers
      BY <2>2, <1>1 DEF StreamInv, StreamTypes, Place
    <3>2. CASE swarm[d].st # "up"
      BY <3>1, <3>2 DEF StreamInv, Handled
    <3>3. CASE swarm[d].st = "up"
      <4> DEFINE q == swarm[d].peer
      <4>1. q \in Peers /\ d \in DOMAIN connections[q] /\ connections[q][d].pending_requests = Held(handler[d])
        BY <3>1, <3>3 DEF StreamInv, Handled
      <4>2. d \in DOMAIN connections'[q] /\ connections'[q][d].pending_requests = Held(handler[d])
        BY <4>1, <2>2, <1>1
      <4> QED
        BY <3>1, <3>3, <4>2
    <3> QED
      BY <3>2, <3>3
  <2> QED
    BY <2>1, <2>2
<1>4. ASSUME Settled(p, c), NEW q \in Peers, NEW d \in Cid
      PROVE  (d \in DOMAIN connections'[q] /\ swarm'[d].st = "refused")
               <=> (d \in DOMAIN connections[q] /\ swarm[d].st = "refused")
  BY <1>1, <1>4 DEF Settled, Handed
<1>5. Settled(p, c) => Stranded' = Stranded
  BY <1>0, <1>4 DEF Stranded
<1> QED
  BY <1>2, <1>3, <1>5

\* The requests to p and the answers owed to it change alike.
LEMMA Balance ==
    ASSUME StreamInv, NEW p \in Peers,
           \A q \in Peers : q # p => connections'[q] = connections[q],
           \A q \in Peers : q # p => waiting'[q] = waiting[q],
           \A q \in Peers : q # p => Tally(events', Answers(q)) = Tally(events, Answers(q)),
           waiting'[p] = Load(connections'[p]) + Tally(events', Answers(p))
    PROVE  Ledger'
BY TypesOf DEF Ledger, Owed, Answers, Load, Outgoing

\* handle_established_*_connection
GoesUp(p, c) ==
    /\ swarm[c].st = "free" \/ swarm[c] = [peer |-> p, st |-> "dialling"]
    /\ swarm' = [swarm EXCEPT ![c] = [peer |-> p, st |-> "up"]]
    /\ NewHandler(p, c)
    /\ UNCHANGED <<events, waiting>>

LEMMA OpenStep ==
    ASSUME StreamInv, NEW p \in Peers, NEW c \in Cid, GoesUp(p, c)
    PROVE  StreamInv' /\ Stranded' = Stranded
<1> DEFINE f == connections[p]
           n == Weight(f, c)
           v == [pending_requests |-> n, new_requests |-> 0]
           g == Inserted(f, c, v)
           h == [to_request |-> n, opening |-> 0, stream |-> <<>>]
<1>0. /\ f \in Table /\ connections \in [Peers -> Table]
      /\ swarm \in [Cid -> Place] /\ handler \in [Cid -> Hand]
  BY DEF StreamInv, StreamTypes
<1>1. n \in Nat
  BY <1>0, WeightType
<1>2. connections' = [connections EXCEPT ![p] = g] /\ handler' = [handler EXCEPT ![c] = h]
  <2>1. n = Total(IF c \in DOMAIN f THEN f[c] ELSE Default)
    BY DEF Weight, Total, Default
  <2>2. /\ connections' = [connections EXCEPT ![p] = Inserted(f, c,
             [pending_requests |-> Total(IF c \in DOMAIN f THEN f[c] ELSE Default), new_requests |-> 0])]
        /\ handler' = [handler EXCEPT ![c] = HandlerFor(IF c \in DOMAIN f THEN f[c] ELSE Default)]
    BY <1>0 DEF GoesUp, NewHandler
  <2> DEFINE conn == IF c \in DOMAIN f THEN f[c] ELSE Default
  <2>3. HandlerFor(conn) = [to_request |-> Total(conn), opening |-> 0, stream |-> <<>>]
    BY DEF HandlerFor, NoHandler
  <2> HIDE DEF conn
  <2>4. n = Total(conn)
    BY <2>1 DEF conn
  <2> HIDE DEF n
  <2> QED
    BY <2>2, <2>3, <2>4 DEF conn
<1>3. v \in Conn /\ Total(v) = n /\ h \in Hand /\ Held(h) = n /\ v.pending_requests = n
  <2>1. Tally(<<>>, Word) = 0 /\ <<>> \in Seq(Item)
    BY TallyEmpty
  <2> QED
    BY <1>1, <2>1 DEF Conn, Total, Hand, Held
<1> HIDE DEF h, v, f, n
<1>4. /\ g \in Table /\ DOMAIN g = DOMAIN f \cup {c} /\ g[c] = v
      /\ \A d \in DOMAIN f : d # c => g[d] = f[d]
      /\ Load(g) = Load(f) - Weight(f, c) + Total(v)
  BY <1>0, <1>3, Inserting
<1> HIDE DEF g
<1>n. Weight(f, c) = n
  BY DEF n
<1>5. Load(g) = Load(f)
  BY <1>0, <1>1, <1>3, <1>4, <1>n, LoadType
<1>6. /\ connections' \in [Peers -> Table] /\ connections'[p] = g
      /\ \A q \in Peers : q # p => connections'[q] = connections[q]
  BY <1>0, <1>2, <1>4, TableStep
<1>7. /\ swarm' \in [Cid -> Place] /\ swarm'[c].peer = p /\ swarm'[c].st = "up"
      /\ \A d \in Cid : d # c => swarm'[d] = swarm[d]
  BY <1>0 DEF GoesUp, Place, Tracked
<1>8. handler' \in [Cid -> Hand] /\ handler'[c] = h /\ \A d \in Cid : d # c => handler'[d] = handler[d]
  BY <1>0, <1>2, <1>3
<1>9. Frame(p, c)
  BY <1>4, <1>6, <1>7, <1>8 DEF Frame, f, GoesUp, StreamInv, StreamTypes
<1>10. Settled(p, c)
  <2>1. swarm[c].st # "refused" /\ swarm[c].st # "queued"
    BY DEF GoesUp
  <2>2. \A q \in Peers : c \in DOMAIN connections[q] => q = p
    BY DEF GoesUp, StreamInv, Placed, Tracked
  <2>3. c \in DOMAIN connections'[p] /\ connections'[p][c].pending_requests = Held(handler'[c])
    BY <1>3, <1>4, <1>6, <1>8
  <2> QED
    BY <2>1, <2>2, <2>3, <1>7 DEF Settled, Handed, Tracked
<1>11. Dials'
  BY <1>7, DialsKept DEF GoesUp, StreamInv, StreamTypes
<1>12. Ledger'
  BY <1>5, <1>6, Balance, TypesOf DEF GoesUp, f
<1> QED
  BY <1>9, <1>10, <1>11, <1>12, FrameStep DEF Settled, StreamInv, Frame

\* A connection that failed or closed, with its handler
Drop(p, c) ==
    /\ swarm[c].st \in {"dialling", "up"}
    /\ swarm' = [swarm EXCEPT ![c].st = "closed"]
    /\ handler' = [handler EXCEPT ![c] = NoHandler]
    /\ Dropped(p, c)
    /\ UNCHANGED waiting

LEMMA DropStep ==
    ASSUME StreamInv, NEW p \in Peers, NEW c \in DOMAIN connections[p], Drop(p, c)
    PROVE  StreamInv' /\ Stranded' = Stranded
<1> DEFINE f == connections[p]
           n == Total(f[c])
           r == Removed(f, c)
           e == Outgoing(p, "err")
<1>0. /\ f \in Table /\ connections \in [Peers -> Table] /\ events \in Seq(Event)
      /\ swarm \in [Cid -> Place] /\ handler \in [Cid -> Hand]
  BY DEF StreamInv, StreamTypes
<1>1. n \in Nat /\ e \in Event /\ e.type = "outgoing" /\ e.peer = p
  BY <1>0, TableFacts, EventTypes DEF Word, Outgoing
<1>2. \/ /\ DOMAIN r = {} /\ connections' = [connections EXCEPT ![p] = r]
         /\ events' = events \o [i \in 1 .. n |-> e]
      \/ /\ \E d \in DOMAIN r :
              connections' = [connections EXCEPT ![p] = [r EXCEPT ![d].new_requests = @ + n]]
         /\ events' = events
  BY DEF Drop, Dropped
<1>f. c \in DOMAIN f
  OBVIOUS
<1> HIDE DEF f, n, e
<1>3. /\ c \in Cid /\ r \in Table /\ DOMAIN r = DOMAIN f \ {c}
      /\ \A d \in DOMAIN f : d # c => r[d] = f[d]
      /\ Load(r) = Load(f) - n
  BY <1>0, <1>f, Removing DEF n
<1> HIDE DEF r
<1>4. /\ swarm' \in [Cid -> Place] /\ swarm'[c].st = "closed"
      /\ \A d \in Cid : d # c => swarm'[d] = swarm[d]
  BY <1>0, <1>3 DEF Drop, Place, Tracked
<1>5. /\ handler' \in [Cid -> Hand] /\ handler'[c] = NoHandler
      /\ \A d \in Cid : d # c => handler'[d] = handler[d]
  BY <1>0, <1>3, NothingHeld DEF Drop
<1>6. waiting' = waiting /\ waiting \in [Peers -> Nat] /\ swarm[c].st \in {"dialling", "up"}
  BY DEF Drop, StreamInv, StreamTypes
<1>7. \A q \in Peers : c \in DOMAIN connections[q] => q = p
  BY DEF StreamInv, Placed
<1>8. ASSUME connections' \in [Peers -> Table], events' \in Seq(Event),
             DOMAIN connections'[p] = DOMAIN f \ {c},
             \A d \in DOMAIN f : d # c =>
               connections'[p][d].pending_requests = f[d].pending_requests,
             \A q \in Peers : q # p => connections'[q] = connections[q]
      PROVE  StreamTypes' /\ Placed' /\ Handled' /\ Stranded' = Stranded
  <2>1. StreamTypes'
    BY <1>4, <1>5, <1>6, <1>8 DEF StreamTypes
  <2>2. Frame(p, c)
    BY <1>4, <1>5, <1>8, <2>1 DEF Frame, f
  <2>3. Settled(p, c)
    BY <1>4, <1>5, <1>6, <1>7, <1>8 DEF Settled, Handed
  <2> QED
    BY <1>3, <2>1, <2>2, <2>3, FrameStep DEF Settled
<1>9. Load(f) \in Nat /\ waiting[p] = Load(f) + Tally(events, Answers(p))
  BY TypesOf DEF f
<1>10. \A q \in Peers : Tally(events, Answers(q)) \in Nat
  BY TypesOf
<1>11. \A d \in Cid : swarm[d].st = "queued" => swarm'[d] = swarm[d]
  BY <1>4, <1>6
<1>12. CASE /\ DOMAIN r = {} /\ connections' = [connections EXCEPT ![p] = r]
            /\ events' = events \o [i \in 1 .. n |-> e]
  <2>1. /\ connections' \in [Peers -> Table] /\ connections'[p] = r
        /\ \A q \in Peers : q # p => connections'[q] = connections[q]
    BY <1>0, <1>3, <1>12, TableStep
  <2>2. /\ events' \in Seq(Event)
        /\ \A q \in Peers : Tally(events', Answers(q))
             = Tally(events, Answers(q)) + IF e \in Answers(q) THEN n ELSE 0
    BY <1>0, <1>1, <1>12, TallyRepeat
  <2>3. \A q \in Peers : e \in Answers(q) <=> q = p
    BY <1>1, EventAnswers
  <2>4. StreamTypes' /\ Placed' /\ Handled' /\ Stranded' = Stranded
    BY <1>3, <1>8, <2>1, <2>2
  <2>5. \A q \in Peers : q # p => Tally(events', Answers(q)) = Tally(events, Answers(q))
    BY <2>2, <2>3, <1>10
  <2>6. waiting'[p] = Load(connections'[p]) + Tally(events', Answers(p))
    BY <2>1, <2>2, <2>3, <1>1, <1>3, <1>6, <1>9, <1>10
  <2>7. Ledger'
    BY <2>1, <2>5, <2>6, <1>6, Balance
  <2>8. \A i \in DOMAIN events' : events'[i].type = "dial" =>
          i \in DOMAIN events /\ events'[i] = events[i]
    BY <1>0, <1>1, <1>12
  <2>9. Dials'
    BY <2>8, <1>0, <1>11, DialsKept DEF StreamInv
  <2> QED
    BY <2>4, <2>7, <2>9 DEF StreamInv
<1>13. CASE /\ \E d \in DOMAIN r :
                 connections' = [connections EXCEPT ![p] = [r EXCEPT ![d].new_requests = @ + n]]
            /\ events' = events
  <2>1. PICK d \in DOMAIN r :
          connections' = [connections EXCEPT ![p] = [r EXCEPT ![d].new_requests = @ + n]]
    BY <1>13
  <2> DEFINE a == r[d].pending_requests
             b == r[d].new_requests
             v == [pending_requests |-> a, new_requests |-> b + n]
             g == [r EXCEPT ![d] = v]
  <2>2. /\ r[d] \in Conn /\ a \in Nat /\ b \in Nat /\ v \in Conn
        /\ Total(v) = Total(r[d]) + n /\ Total(r[d]) \in Nat
        /\ v.pending_requests = r[d].pending_requests
    BY <1>1, <1>3, TableFacts DEF Conn, Total
  <2>3. [r[d] EXCEPT !.new_requests = b + n] = v
    BY <2>2 DEF Conn
  <2>4. connections' = [connections EXCEPT ![p] = g]
    BY <2>1, <2>3
  <2> HIDE DEF v, a, b
  <2>5. /\ g \in Table /\ DOMAIN g = DOMAIN r /\ g[d] = v
        /\ \A x \in DOMAIN r : x # d => g[x] = r[x]
        /\ Load(g) = Load(r) - Total(r[d]) + Total(v)
    BY <1>3, <2>2, Updating
  <2> HIDE DEF g
  <2>6. /\ connections' \in [Peers -> Table] /\ connections'[p] = g
        /\ \A q \in Peers : q # p => connections'[q] = connections[q]
    BY <1>0, <2>4, <2>5, TableStep
  <2>7. \A x \in DOMAIN f : x # c =>
          connections'[p][x].pending_requests = f[x].pending_requests
    BY <1>3, <2>2, <2>5, <2>6
  <2>8. StreamTypes' /\ Placed' /\ Handled' /\ Stranded' = Stranded
    BY <1>0, <1>3, <1>8, <1>13, <2>5, <2>6, <2>7
  <2>9. Load(g) = Load(f)
    <3>1. Load(r) \in Nat /\ Load(g) \in Nat
      BY <1>3, <2>5, LoadType
    <3> QED
      BY <3>1, <1>1, <1>3, <1>9, <2>2, <2>5
  <2>10. Ledger'
    BY <1>6, <1>9, <1>13, <2>6, <2>9, Balance
  <2>11. Dials'
    BY <1>0, <1>11, <1>13, DialsKept DEF StreamInv
  <2> QED
    BY <2>8, <2>10, <2>11 DEF StreamInv
<1> QED
  BY <1>2, <1>12, <1>13

\* A handler that keeps its requests in hand
Serve(c, h) ==
    /\ swarm[c].st = "up"
    /\ handler' = [handler EXCEPT ![c] = h]
    /\ UNCHANGED <<connections, events, waiting, swarm>>

LEMMA ServeStep ==
    ASSUME StreamInv, NEW c \in Cid, NEW h \in Hand, Held(h) = Held(handler[c]), Serve(c, h)
    PROVE  StreamInv' /\ Stranded' = Stranded
<1> DEFINE p == swarm[c].peer
<1>0. /\ p \in Peers /\ handler \in [Cid -> Hand] /\ c \in DOMAIN connections[p]
      /\ connections[p][c].pending_requests = Held(handler[c])
      /\ \A q \in Peers : c \in DOMAIN connections[q] => q = p
  BY DEF StreamInv, StreamTypes, Place, Handled, Placed, Serve
<1>1. /\ handler' \in [Cid -> Hand] /\ handler'[c] = h
      /\ \A d \in Cid : d # c => handler'[d] = handler[d]
  BY <1>0 DEF Serve
<1>2. StreamTypes'
  BY <1>1 DEF Serve, StreamInv, StreamTypes
<1>3. Frame(p, c)
  BY <1>1, <1>2 DEF Serve, Frame
<1>4. Settled(p, c)
  BY <1>0, <1>1 DEF Serve, Settled, Handed, Tracked
<1>5. Placed' /\ Handled' /\ Stranded' = Stranded
  <2> HIDE DEF p
  <2> QED
    BY <1>0, <1>3, <1>4, FrameStep DEF Settled
<1>6. Dials' /\ Ledger'
  BY DEF Serve, StreamInv, Dials, Ledger, Owed
<1> QED
  BY <1>2, <1>5, <1>6 DEF StreamInv

\* A connection that is not the behaviour's is dialled, or its dial fails.
Move(c, x) ==
    /\ swarm[c].st \in {"free", "dialling"} /\ x.st # "up"
    /\ \A q \in Peers : c \notin DOMAIN connections[q]
    /\ swarm' = [swarm EXCEPT ![c] = x]
    /\ UNCHANGED <<connections, events, waiting, handler>>

LEMMA MoveStep ==
    ASSUME StreamInv, NEW c \in Cid, NEW x \in Place, Move(c, x)
    PROVE  StreamInv' /\ Stranded' = Stranded
<1> DEFINE p == x.peer
<1>0. p \in Peers /\ swarm \in [Cid -> Place] /\ handler[c] = NoHandler
  BY DEF Move, StreamInv, StreamTypes, Handled, Place
<1>1. /\ swarm' \in [Cid -> Place] /\ swarm'[c] = x
      /\ \A d \in Cid : d # c => swarm'[d] = swarm[d]
  BY <1>0 DEF Move
<1>2. StreamTypes'
  BY <1>1 DEF Move, StreamInv, StreamTypes
<1>3. Frame(p, c)
  BY <1>1, <1>2 DEF Move, Frame
<1>4. Settled(p, c)
  BY <1>0, <1>1 DEF Move, Settled, Handed
<1>5. Placed' /\ Handled' /\ Stranded' = Stranded
  <2> HIDE DEF p
  <2> QED
    BY <1>0, <1>3, <1>4, FrameStep DEF Settled
<1>6. Dials'
  BY <1>1, DialsKept DEF Move, StreamInv, StreamTypes
<1>7. Ledger'
  BY DEF Move, StreamInv, Ledger, Owed
<1> QED
  BY <1>2, <1>5, <1>6, <1>7 DEF StreamInv

\* A handler with one field changed, and with two
LEMMA HandRequest ==
    ASSUME NEW x \in Hand, NEW n \in Nat
    PROVE  [x EXCEPT !.to_request = n]
             = [to_request |-> n, opening |-> x.opening, stream |-> x.stream]
BY DEF Hand

LEMMA HandStream ==
    ASSUME NEW x \in Hand, NEW s \in Seq(Item)
    PROVE  [x EXCEPT !.stream = s]
             = [to_request |-> x.to_request, opening |-> x.opening, stream |-> s]
BY DEF Hand

LEMMA HandOpens ==
    ASSUME NEW x \in Hand, NEW n \in Nat, NEW m \in Nat
    PROVE  [x EXCEPT !.to_request = n, !.opening = m]
             = [to_request |-> n, opening |-> m, stream |-> x.stream]
<1> DEFINE y == [x EXCEPT !.to_request = n, !.opening = m]
<1>1. y \in Hand /\ y.to_request = n /\ y.opening = m /\ y.stream = x.stream
  BY DEF Hand
<1> HIDE DEF y
<1>2. y = [to_request |-> n, opening |-> m, stream |-> x.stream]
  BY <1>1 DEF Hand
<1> QED
  BY <1>2 DEF y

LEMMA HandNegotiates ==
    ASSUME NEW x \in Hand, NEW n \in Nat, NEW s \in Seq(Item)
    PROVE  [x EXCEPT !.opening = n, !.stream = s]
             = [to_request |-> x.to_request, opening |-> n, stream |-> s]
<1> DEFINE y == [x EXCEPT !.opening = n, !.stream = s]
<1>1. y \in Hand /\ y.to_request = x.to_request /\ y.opening = n /\ y.stream = s
  BY DEF Hand
<1> HIDE DEF y
<1>2. y = [to_request |-> x.to_request, opening |-> n, stream |-> s]
  BY <1>1 DEF Hand
<1> QED
  BY <1>2 DEF y

LEMMA PollNotifyStep ==
    ASSUME StreamInv, NEW p \in Peers, NEW c \in Cid, PollNotify(p, c)
    PROVE  StreamInv' /\ Stranded' = Stranded
<1> DEFINE f == connections[p]
           a == f[c].pending_requests
           b == f[c].new_requests
           v == Taken(f[c])
           g == [f EXCEPT ![c] = v]
           k == handler[c].to_request
           h == [handler[c] EXCEPT !.to_request = k + b]
<1>0. /\ f \in Table /\ connections \in [Peers -> Table] /\ c \in DOMAIN f
      /\ swarm \in [Cid -> Place] /\ handler \in [Cid -> Hand] /\ handler[c] \in Hand
  BY DEF PollNotify, HasNew, StreamInv, StreamTypes
<1>1. /\ a \in Nat /\ b \in Nat /\ v \in Conn /\ v.pending_requests = a + b
      /\ Total(v) = Total(f[c]) /\ Total(f[c]) \in Nat
  <2>1. f[c] \in Conn
    BY <1>0, TableFacts
  <2> HIDE DEF f
  <2> QED
    BY <2>1 DEF Conn, Total, Taken
<1>2. connections' = [connections EXCEPT ![p] = g]
  BY <1>0 DEF PollNotify
<1>3. h \in Hand /\ Held(h) = Held(handler[c]) + b
  <2>1. /\ k \in Nat /\ handler[c].opening \in Nat /\ handler[c].stream \in Seq(Item)
        /\ h = [to_request |-> k + b, opening |-> handler[c].opening, stream |-> handler[c].stream]
    <3>1. k \in Nat /\ k + b \in Nat
      BY <1>0, <1>1 DEF Hand
    <3>2. h = [to_request |-> k + b, opening |-> handler[c].opening, stream |-> handler[c].stream]
      BY <1>0, <3>1, HandRequest
    <3>3. handler[c].opening \in Nat /\ handler[c].stream \in Seq(Item)
      BY <1>0 DEF Hand
    <3> QED
      BY <3>1, <3>2, <3>3
  <2>2. Tally(handler[c].stream, Word) \in Nat
    BY <2>1, TallyType
  <2> HIDE DEF b
  <2> QED
    BY <1>1, <2>1, <2>2 DEF Hand, Held
<1>4. handler' = IF swarm[c].st = "up" THEN [handler EXCEPT ![c] = h] ELSE handler
  BY <1>0 DEF PollNotify
<1>5. /\ UNCHANGED <<events, waiting, swarm>>
      /\ \A q \in Peers : c \in DOMAIN connections[q] => q = p
      /\ swarm[c].peer = p /\ swarm[c].st \in Tracked
  BY <1>0 DEF PollNotify, StreamInv, Placed
<1>6. IF swarm[c].st = "up" THEN a = Held(handler[c]) ELSE handler[c] = NoHandler
  BY <1>5 DEF StreamInv, Handled
<1> HIDE DEF f, a, b, v, k, h
<1>7. /\ g \in Table /\ DOMAIN g = DOMAIN f /\ g[c] = v
      /\ \A d \in DOMAIN f : d # c => g[d] = f[d]
      /\ Load(g) = Load(f) - Total(f[c]) + Total(v)
  BY <1>0, <1>1, Updating
<1> HIDE DEF g
<1>8. /\ connections' \in [Peers -> Table] /\ connections'[p] = g
      /\ \A q \in Peers : q # p => connections'[q] = connections[q]
  BY <1>0, <1>2, <1>7, TableStep
<1>9. /\ handler' \in [Cid -> Hand] /\ \A d \in Cid : d # c => handler'[d] = handler[d]
      /\ handler'[c] = IF swarm[c].st = "up" THEN h ELSE handler[c]
  BY <1>0, <1>3, <1>4
<1>10. StreamTypes'
  BY <1>5, <1>8, <1>9 DEF StreamInv, StreamTypes
<1>11. Frame(p, c)
  BY <1>5, <1>7, <1>8, <1>9, <1>10 DEF Frame, f
<1>12. Settled(p, c)
  <2>1. swarm[c].st = "up" => connections'[p][c].pending_requests = Held(handler'[c])
    BY <1>1, <1>3, <1>6, <1>7, <1>8, <1>9
  <2> QED
    BY <2>1, <1>0, <1>5, <1>6, <1>7, <1>8, <1>9 DEF Settled, Handed, f
<1>13. Placed' /\ Handled' /\ Stranded' = Stranded
  BY <1>11, <1>12, FrameStep DEF Settled
<1>14. Dials'
  BY <1>5 DEF StreamInv, Dials
<1>15. Load(g) = Load(f)
  BY <1>0, <1>1, <1>7, LoadType
<1>16. Ledger'
  BY <1>5, <1>8, <1>15, Balance, TypesOf DEF f
<1> QED
  BY <1>10, <1>13, <1>14, <1>16 DEF StreamInv

LEMMA OpenStreamStep ==
    ASSUME StreamInv, NEW c \in Cid, OpenStream(c)
    PROVE  StreamInv' /\ Stranded' = Stranded
<1> DEFINE k == handler[c].to_request
           o == handler[c].opening
           s == handler[c].stream
           h == [to_request |-> k - 1, opening |-> o + 1, stream |-> s]
<1>0. handler \in [Cid -> Hand] /\ handler[c] \in Hand
  BY DEF StreamInv, StreamTypes
<1>1. k \in Nat /\ o \in Nat /\ s \in Seq(Item) /\ k > 0
  BY <1>0 DEF OpenStream, Hand
<1>2. handler[c] = [to_request |-> k, opening |-> o, stream |-> s]
  BY <1>0 DEF Hand
<1>3. handler' = [handler EXCEPT ![c] = h]
  <2>1. handler' = [handler EXCEPT ![c] = [handler[c] EXCEPT !.to_request = k - 1, !.opening = o + 1]]
    BY <1>0 DEF OpenStream
  <2>2. [handler[c] EXCEPT !.to_request = k - 1, !.opening = o + 1] = h
    <3>1. k - 1 \in Nat /\ o + 1 \in Nat
      BY <1>1
    <3> QED
      BY <1>0, <3>1, HandOpens
  <2> QED
    BY <2>1, <2>2
<1>4. swarm[c].st = "up"
  BY <1>1 DEF StreamInv, Handled, NoHandler
<1>5. UNCHANGED <<connections, events, waiting, swarm>>
  BY DEF OpenStream
<1> HIDE DEF k, o, s
<1>6. h \in Hand /\ Held(h) = Held(handler[c])
  <2>1. Tally(s, Word) \in Nat
    BY <1>1, TallyType
  <2> QED
    BY <1>1, <1>2, <2>1 DEF Hand, Held
<1> HIDE DEF h
<1> QED
  BY <1>3, <1>4, <1>5, <1>6, ServeStep DEF Serve

\* A handler has one more item to report.
LEMMA QueuedItem ==
    ASSUME NEW k \in Nat, NEW o \in Nat, NEW s \in Seq(Item), NEW w \in Item
    PROVE  LET h == [to_request |-> k, opening |-> o, stream |-> Append(s, w)]
           IN  h \in Hand /\ Held(h) = k + o + Tally(s, Word) + IF w \in Word THEN 1 ELSE 0
<1> DEFINE t == Append(s, w)
<1>1. t \in Seq(Item) /\ Tally(s, Word) \in Nat
  BY TallyType
<1>2. Tally(t, Word) = Tally(s, Word) + IF w \in Word THEN 1 ELSE 0
  BY TallyAppend
<1> HIDE DEF t
<1>3. LET h == [to_request |-> k, opening |-> o, stream |-> t]
      IN  h \in Hand /\ Held(h) = k + o + Tally(s, Word) + IF w \in Word THEN 1 ELSE 0
  BY <1>1, <1>2 DEF Hand, Held
<1> QED
  BY <1>3 DEF t

LEMMA NegotiatedStep ==
    ASSUME StreamInv, NEW c \in Cid, NEW w \in Word, Negotiated(c, w)
    PROVE  StreamInv' /\ Stranded' = Stranded
<1> DEFINE k == handler[c].to_request
           o == handler[c].opening
           s == handler[c].stream
           h == [to_request |-> k, opening |-> o - 1, stream |-> Append(s, w)]
<1>0. handler \in [Cid -> Hand] /\ handler[c] \in Hand
  BY DEF StreamInv, StreamTypes
<1>1. k \in Nat /\ o \in Nat /\ s \in Seq(Item) /\ o > 0
  BY <1>0 DEF Negotiated, Hand
<1>2. handler[c] = [to_request |-> k, opening |-> o, stream |-> s]
  BY <1>0 DEF Hand
<1>3. handler' = [handler EXCEPT ![c] = h]
  <2>1. handler' = [handler EXCEPT ![c] = [handler[c] EXCEPT !.opening = o - 1, !.stream = Append(s, w)]]
    BY <1>0 DEF Negotiated
  <2>2. [handler[c] EXCEPT !.opening = o - 1, !.stream = Append(s, w)] = h
    <3>1. o - 1 \in Nat /\ Append(s, w) \in Seq(Item)
      BY <1>1 DEF Item
    <3> QED
      BY <1>0, <3>1, HandNegotiates
  <2> QED
    BY <2>1, <2>2
<1>4. swarm[c].st = "up"
  BY <1>1 DEF StreamInv, Handled, NoHandler
<1>5. UNCHANGED <<connections, events, waiting, swarm>>
  BY DEF Negotiated
<1> HIDE DEF k, o, s
<1>6. h \in Hand /\ Held(h) = Held(handler[c])
  <2>1. Tally(s, Word) \in Nat /\ Held(handler[c]) = k + o + Tally(s, Word)
    BY <1>1, <1>2, TallyType DEF Held
  <2>2. o - 1 \in Nat /\ w \in Item
    BY <1>1 DEF Item
  <2>3. h \in Hand /\ Held(h) = k + (o - 1) + Tally(s, Word) + 1
    BY <1>1, <2>2, QueuedItem
  <2> QED
    BY <1>1, <2>1, <2>3
<1> HIDE DEF h
<1> QED
  BY <1>3, <1>4, <1>5, <1>6, ServeStep DEF Serve

LEMMA IncomingStep ==
    ASSUME StreamInv, NEW c \in Cid, Incoming(c)
    PROVE  StreamInv' /\ Stranded' = Stranded
<1> DEFINE k == handler[c].to_request
           o == handler[c].opening
           s == handler[c].stream
           h == [to_request |-> k, opening |-> o, stream |-> Append(s, "incoming")]
<1>0. handler \in [Cid -> Hand] /\ handler[c] \in Hand
  BY DEF StreamInv, StreamTypes
<1>1. k \in Nat /\ o \in Nat /\ s \in Seq(Item)
  BY <1>0 DEF Hand
<1>2. handler[c] = [to_request |-> k, opening |-> o, stream |-> s]
  BY <1>0 DEF Hand
<1>3. handler' = [handler EXCEPT ![c] = h]
  <2>1. handler' = [handler EXCEPT ![c] = [handler[c] EXCEPT !.stream = Append(s, "incoming")]]
    BY <1>0 DEF Incoming
  <2>2. [handler[c] EXCEPT !.stream = Append(s, "incoming")] = h
    <3>1. Append(s, "incoming") \in Seq(Item)
      BY <1>1 DEF Item
    <3> QED
      BY <1>0, <3>1, HandStream
  <2> QED
    BY <2>1, <2>2
<1>4. swarm[c].st = "up" /\ UNCHANGED <<connections, events, waiting, swarm>>
  BY DEF Incoming
<1> HIDE DEF k, o, s
<1>5. h \in Hand /\ Held(h) = Held(handler[c])
  <2>1. Tally(s, Word) \in Nat /\ Held(handler[c]) = k + o + Tally(s, Word)
    BY <1>1, <1>2, TallyType DEF Held
  <2>2. "incoming" \in Item /\ "incoming" \notin Word
    BY DEF Item, Word
  <2>3. h \in Hand /\ Held(h) = k + o + Tally(s, Word) + 0
    BY <1>1, <2>2, QueuedItem
  <2> QED
    BY <1>1, <2>1, <2>3
<1> HIDE DEF h
<1> QED
  BY <1>3, <1>4, <1>5, ServeStep DEF Serve

\* What a handler reports is counted no more and stands among the events.
LEMMA NotifyStep ==
    ASSUME StreamInv, NEW c \in Cid, Notify(c)
    PROVE  StreamInv' /\ Stranded' = Stranded
<1> DEFINE p == swarm[c].peer
           k == handler[c].to_request
           o == handler[c].opening
           s == handler[c].stream
           t == SubSeq(s, 1, Len(s) - 1)
           w == s[Len(s)]
           h == [to_request |-> k, opening |-> o, stream |-> t]
           f == connections[p]
<1>0. /\ handler \in [Cid -> Hand] /\ handler[c] \in Hand /\ swarm \in [Cid -> Place]
      /\ connections \in [Peers -> Table] /\ events \in Seq(Event) /\ p \in Peers /\ f \in Table
  BY DEF StreamInv, StreamTypes, Place
<1>1. k \in Nat /\ o \in Nat /\ s \in Seq(Item) /\ s # <<>>
  BY <1>0 DEF Notify, Hand
<1>2. /\ UNCHANGED <<waiting, swarm>>
      /\ handler' = [handler EXCEPT ![c] = [handler[c] EXCEPT !.stream = t]]
      /\ \/ /\ w = "incoming" /\ connections' = connections
            /\ events' = Append(events, [type |-> "incoming", peer |-> p])
         \/ /\ w \in Word
            /\ events' = Append(events, Outgoing(p, w))
            /\ connections' = [connections EXCEPT ![p][c] = Counted(@, w)]
  BY <1>0 DEF Notify, Front, Last
<1> HIDE DEF k, o, s
<1>3. /\ t \in Seq(Item) /\ w \in Item
      /\ Tally(s, Word) = Tally(t, Word) + IF w \in Word THEN 1 ELSE 0
      /\ Tally(t, Word) \in Nat
  <2>1. t \in Seq(Item) /\ w \in Item
        /\ Tally(s, Word) = Tally(t, Word) + IF w \in Word THEN 1 ELSE 0
    BY <1>1, TallyFront
  <2> QED
    BY <2>1, TallyType
<1> HIDE DEF t, w
<1>4. handler' = [handler EXCEPT ![c] = h]
  BY <1>0, <1>2, <1>3, HandStream DEF k, o
<1>5. h \in Hand /\ Held(handler[c]) = Held(h) + IF w \in Word THEN 1 ELSE 0
  <2>1. Held(handler[c]) = k + o + Tally(s, Word) /\ Held(h) = k + o + Tally(t, Word)
    BY DEF Held, k, o, s
  <2>2. h \in Hand
    BY <1>1, <1>3 DEF Hand
  <2> QED
    BY <1>1, <1>3, <2>1, <2>2
<1>6. Held(h) \in Nat
  BY <1>5, HeldType
<1>7. /\ swarm[c].st = "up" /\ c \in DOMAIN f
      /\ f[c].pending_requests = Held(handler[c])
      /\ \A q \in Peers : c \in DOMAIN connections[q] => q = p
  <2>1. handler[c] # NoHandler
    BY <1>1 DEF s, NoHandler
  <2> QED
    BY <2>1, <1>0 DEF StreamInv, Handled, Placed
<1> HIDE DEF h, f, p
<1>8. /\ handler' \in [Cid -> Hand] /\ handler'[c] = h
      /\ \A d \in Cid : d # c => handler'[d] = handler[d]
  BY <1>0, <1>4, <1>5
<1>9. ASSUME connections' \in [Peers -> Table], events' \in Seq(Event),
             \A q \in Peers : q # p => connections'[q] = connections[q],
             DOMAIN connections'[p] = DOMAIN f,
             \A d \in DOMAIN f : d # c => connections'[p][d] = f[d],
             connections'[p][c].pending_requests = Held(h)
      PROVE  StreamTypes' /\ Placed' /\ Handled' /\ Stranded' = Stranded
  <2>1. StreamTypes'
    BY <1>2, <1>8, <1>9 DEF StreamInv, StreamTypes
  <2>2. Frame(p, c)
    BY <1>2, <1>8, <1>9, <2>1 DEF Frame, f
  <2>3. Settled(p, c)
    BY <1>2, <1>7, <1>8, <1>9 DEF Settled, Handed, Tracked, p, f
  <2> QED
    BY <1>0, <2>1, <2>2, <2>3, FrameStep DEF Settled
<1>10. ASSUME NEW e \in Event, e.type # "dial", events' = Append(events, e)
       PROVE  /\ events' \in Seq(Event) /\ Dials'
              /\ \A q \in Peers : Tally(events', Answers(q))
                   = Tally(events, Answers(q)) + IF e \in Answers(q) THEN 1 ELSE 0
  <2>1. events' \in Seq(Event)
    BY <1>0, <1>10
  <2>2. \A q \in Peers : Tally(events', Answers(q))
          = Tally(events, Answers(q)) + IF e \in Answers(q) THEN 1 ELSE 0
    BY <1>0, <1>10, TallyAppend
  <2>3. \A i \in DOMAIN events' : events'[i].type = "dial" =>
          i \in DOMAIN events /\ events'[i] = events[i]
    BY <1>0, <1>10
  <2>4. Dials'
    BY <1>0, <1>2, <2>3, DialsKept DEF StreamInv
  <2> QED
    BY <2>1, <2>2, <2>4
<1>11. \A q \in Peers : Tally(events, Answers(q)) \in Nat
  BY TypesOf
<1>12. waiting[p] = Load(f) + Tally(events, Answers(p))
  BY <1>0, TypesOf DEF f
<1>13. CASE /\ w = "incoming" /\ connections' = connections
            /\ events' = Append(events, [type |-> "incoming", peer |-> p])
  <2> DEFINE e == [type |-> "incoming", peer |-> p]
  <2>1. e \in Event /\ e.type = "incoming" /\ events' = Append(events, e)
    BY <1>0, <1>13, EventTypes
  <2> HIDE DEF e
  <2>2. \A q \in Peers : e \notin Answers(q)
    BY <2>1, EventAnswers
  <2>3. /\ events' \in Seq(Event) /\ Dials'
        /\ \A q \in Peers : Tally(events', Answers(q)) = Tally(events, Answers(q))
    BY <1>10, <1>11, <2>1, <2>2
  <2>4. Held(h) = Held(handler[c])
    BY <1>5, <1>6, <1>13 DEF Word
  <2>5. StreamTypes' /\ Placed' /\ Handled' /\ Stranded' = Stranded
    BY <1>0, <1>7, <1>9, <1>13, <2>3, <2>4 DEF f
  <2>6. Ledger'
    BY <1>0, <1>2, <1>13, <2>3, TypesOf, Balance
  <2> QED
    BY <2>3, <2>5, <2>6 DEF StreamInv
<1>14. CASE /\ w \in Word
            /\ events' = Append(events, Outgoing(p, w))
            /\ connections' = [connections EXCEPT ![p][c] = Counted(@, w)]
  <2> DEFINE e == Outgoing(p, w)
             b == f[c].new_requests
             v == [pending_requests |-> Held(h), new_requests |-> b]
             g == [f EXCEPT ![c] = v]
  <2>1. e \in Event /\ e.type = "outgoing" /\ e.peer = p /\ events' = Append(events, e)
    BY <1>0, <1>14, EventTypes DEF Outgoing
  <2>2. /\ f[c] \in Conn /\ b \in Nat /\ f[c].pending_requests = Held(h) + 1
        /\ v \in Conn /\ v.pending_requests = Held(h) /\ Total(f[c]) = Total(v) + 1
        /\ Total(v) \in Nat
    <3>1. f[c] \in Conn /\ f[c].pending_requests = Held(h) + 1
      BY <1>0, <1>5, <1>6, <1>7, <1>14, TableFacts
    <3> QED
      BY <3>1, <1>6 DEF Conn, Total
  <2>3. Counted(f[c], w) = v
    <3> DEFINE n == f[c].pending_requests - 1
    <3>1. n = Held(h)
      BY <1>6, <2>2
    <3>2. [f[c] EXCEPT !.pending_requests = n] = [pending_requests |-> n, new_requests |-> b]
      BY <2>2 DEF Conn
    <3> QED
      BY <3>1, <3>2 DEF Counted
  <2>4. connections' = [connections EXCEPT ![p] = g]
    BY <1>0, <1>14, <2>3 DEF f
  <2> HIDE DEF e, b, v
  <2>5. /\ g \in Table /\ DOMAIN g = DOMAIN f /\ g[c] = v
        /\ \A d \in DOMAIN f : d # c => g[d] = f[d]
        /\ Load(g) = Load(f) - Total(f[c]) + Total(v)
    BY <1>0, <1>7, <2>2, Updating
  <2> HIDE DEF g
  <2>6. /\ connections' \in [Peers -> Table] /\ connections'[p] = g
        /\ \A q \in Peers : q # p => connections'[q] = connections[q]
    BY <1>0, <2>4, <2>5, TableStep
  <2>7. /\ events' \in Seq(Event) /\ Dials'
        /\ \A q \in Peers : Tally(events', Answers(q))
             = Tally(events, Answers(q)) + IF e \in Answers(q) THEN 1 ELSE 0
    BY <1>10, <2>1
  <2>8. \A q \in Peers : e \in Answers(q) <=> q = p
    BY <2>1, EventAnswers
  <2>9. StreamTypes' /\ Placed' /\ Handled' /\ Stranded' = Stranded
    BY <1>9, <2>2, <2>5, <2>6, <2>7
  <2>10. \A q \in Peers : q # p => Tally(events', Answers(q)) = Tally(events, Answers(q))
    BY <1>11, <2>7, <2>8
  <2>11. Load(g) \in Nat /\ Load(f) \in Nat
    BY <1>0, <2>5, LoadType
  <2>12. waiting'[p] = Load(connections'[p]) + Tally(events', Answers(p))
    BY <1>0, <1>2, <1>11, <1>12, <2>2, <2>5, <2>6, <2>7, <2>8, <2>11
  <2>13. Ledger'
    BY <1>0, <1>2, <2>6, <2>10, <2>12, Balance
  <2> QED
    BY <2>7, <2>9, <2>13 DEF StreamInv
<1> QED
  BY <1>2, <1>13, <1>14
-----------------------------------------------------------------------------
\* A dial is taken: the swarm dials or refuses the connection it is about.
TakeDialAt(e) ==
    /\ e = events[Len(events)]
    /\ events # <<>>
    /\ events' = SubSeq(events, 1, Len(events) - 1)
    /\ TakeDial(e)
    /\ UNCHANGED <<connections, handler>>

\* The last event is removed and the others stay.
LEMMA LastEvent ==
    ASSUME StreamInv, events # <<>>, NEW evs, evs = SubSeq(events, 1, Len(events) - 1),
           NEW e, e = events[Len(events)]
    PROVE  /\ evs \in Seq(Event) /\ e \in Event
           /\ Len(events) \in DOMAIN events
           /\ \A i \in DOMAIN evs : i \in DOMAIN events /\ i # Len(events) /\ evs[i] = events[i]
           /\ \A q \in Peers : /\ Tally(evs, Answers(q)) \in Nat
                               /\ Tally(events, Answers(q))
                                    = Tally(evs, Answers(q)) + IF e \in Answers(q) THEN 1 ELSE 0
<1>0. events \in Seq(Event)
  BY DEF StreamInv, StreamTypes
<1>1. /\ evs \in Seq(Event) /\ e \in Event
      /\ \A q \in Peers : Tally(events, Answers(q))
           = Tally(evs, Answers(q)) + IF e \in Answers(q) THEN 1 ELSE 0
  <2>1. ASSUME NEW S
        PROVE  /\ evs \in Seq(Event) /\ e \in Event
               /\ Tally(events, S) = Tally(evs, S) + IF e \in S THEN 1 ELSE 0
    BY <1>0, TallyFront
  <2> QED
    BY <2>1
<1>2. \A q \in Peers : Tally(evs, Answers(q)) \in Nat
  BY <1>1, TallyType
<1>3. /\ Len(events) \in DOMAIN events
      /\ \A i \in DOMAIN evs : i \in DOMAIN events /\ i # Len(events) /\ evs[i] = events[i]
  BY <1>0
<1> QED
  BY <1>1, <1>2, <1>3

LEMMA TakeDialStep ==
    ASSUME StreamInv, NEW e, TakeDialAt(e)
    PROVE  /\ StreamInv' /\ waiting' = waiting
           /\ \/ Stranded' = Stranded
              \/ \E p \in Peers : Stranded' = Stranded \cup {p}
<1> DEFINE p == e.peer
           c == e.cid
           n == Len(events)
           evs == SubSeq(events, 1, n - 1)
           x == IF Live(p) = {} THEN "dialling" ELSE "refused"
<1>0. swarm \in [Cid -> Place] /\ handler \in [Cid -> Hand] /\ connections \in [Peers -> Table]
  BY DEF StreamInv, StreamTypes
<1>1. /\ events' = evs /\ evs \in Seq(Event) /\ e \in Event /\ n \in DOMAIN events
      /\ events[n] = e /\ e.type = "dial"
      /\ \A i \in DOMAIN evs : i \in DOMAIN events /\ i # n /\ evs[i] = events[i]
      /\ \A q \in Peers : /\ Tally(evs, Answers(q)) \in Nat
                          /\ Tally(events, Answers(q))
                               = Tally(evs, Answers(q)) + IF e \in Answers(q) THEN 1 ELSE 0
  BY LastEvent DEF TakeDialAt, TakeDial
<1>2. p \in Peers /\ c \in Cid
  BY <1>1, EventKinds
<1>3. swarm[c] = [peer |-> p, st |-> "queued"]
  BY <1>1 DEF StreamInv, Dials
<1>4. /\ swarm' = [swarm EXCEPT ![c].st = x] /\ x \in {"dialling", "refused"}
      /\ UNCHANGED <<connections, handler, waiting>>
  BY DEF TakeDialAt, TakeDial
<1> HIDE DEF p, c, n, evs, x
<1>5. /\ swarm' \in [Cid -> Place] /\ swarm'[c] = [peer |-> p, st |-> x]
      /\ \A d \in Cid : d # c => swarm'[d] = swarm[d]
  BY <1>0, <1>2, <1>3, <1>4 DEF Place, Tracked
<1>6. StreamTypes'
  BY <1>0, <1>1, <1>4, <1>5 DEF StreamInv, StreamTypes
<1>7. Frame(p, c)
  BY <1>4, <1>5, <1>6 DEF Frame
<1>8. Handed(p, c)
  <2>1. handler[c] = NoHandler /\ \A q \in Peers : c \in DOMAIN connections[q] => q = p
    BY <1>2, <1>3 DEF StreamInv, Handled, Placed
  <2> QED
    BY <2>1, <1>4, <1>5 DEF Handed, Tracked
<1>9. Placed' /\ Handled'
  BY <1>2, <1>7, <1>8, FrameStep
<1>10. Dials'
  <2>1. \A i \in DOMAIN evs : evs[i].type = "dial" =>
          /\ evs[i].cid \in Cid /\ evs[i].cid # c
          /\ swarm[evs[i].cid] = [peer |-> evs[i].peer, st |-> "queued"]
          /\ \A j \in DOMAIN evs : evs[j].type = "dial" /\ evs[j].cid = evs[i].cid => j = i
    <3> SUFFICES ASSUME NEW i \in DOMAIN evs, evs[i].type = "dial"
                 PROVE  /\ evs[i].cid \in Cid /\ evs[i].cid # c
                        /\ swarm[evs[i].cid] = [peer |-> evs[i].peer, st |-> "queued"]
                        /\ \A j \in DOMAIN evs : evs[j].type = "dial" /\ evs[j].cid = evs[i].cid => j = i
      OBVIOUS
    <3>1. i \in DOMAIN events /\ i # n /\ evs[i] = events[i] /\ evs[i] \in Event
      BY <1>1
    <3>2. evs[i].cid \in Cid
      BY <3>1, EventKinds
    <3>3. /\ swarm[events[i].cid] = [peer |-> events[i].peer, st |-> "queued"]
          /\ \A j \in DOMAIN events :
               events[j].type = "dial" /\ events[j].cid = events[i].cid => j = i
      BY <3>1 DEF StreamInv, Dials
    <3>4. evs[i].cid # c
      BY <3>1, <3>3, <1>1 DEF c
    <3>5. \A j \in DOMAIN evs : evs[j].type = "dial" /\ evs[j].cid = evs[i].cid => j = i
      BY <3>1, <3>3, <1>1
    <3> QED
      BY <3>1, <3>2, <3>3, <3>4, <3>5
  <2>2. \A i \in DOMAIN evs : evs[i].type = "dial" =>
          swarm'[evs[i].cid] = [peer |-> evs[i].peer, st |-> "queued"]
    BY <2>1, <1>5
  <2> QED
    BY <1>1, <2>1, <2>2 DEF Dials
<1>11. Ledger'
  <2>1. \A q \in Peers : e \notin Answers(q)
    BY <1>1, EventAnswers
  <2>2. \A q \in Peers : Tally(events', Answers(q)) = Tally(events, Answers(q))
    BY <1>1, <2>1
  <2> QED
    BY <1>2, <1>4, <2>2, TypesOf, Balance
<1>12. Stranded' = Stranded \/ Stranded' = Stranded \cup {p}
  <2>1. \A q \in Peers : DOMAIN connections[q] \subseteq Cid
    BY <1>0, TableFacts
  <2>2. \A q \in Peers : q # p => c \notin DOMAIN connections[q]
    BY <1>8 DEF Handed
  <2>3. \A q \in Peers : q # p => (q \in Stranded' <=> q \in Stranded)
    BY <2>1, <2>2, <1>4, <1>5 DEF Stranded
  <2>4. p \in Stranded => p \in Stranded'
    BY <2>1, <1>2, <1>3, <1>4, <1>5 DEF Stranded
  <2>5. Stranded \subseteq Peers /\ Stranded' \subseteq Peers
    BY DEF Stranded
  <2> QED
    BY <2>3, <2>4, <2>5, <1>2
<1> QED
  BY <1>2, <1>4, <1>6, <1>9, <1>10, <1>11, <1>12 DEF StreamInv

\* An answer reaches its task, or an incoming stream is taken.
TakeStreamAt(e) ==
    /\ e = events[Len(events)]
    /\ events # <<>>
    /\ events' = SubSeq(events, 1, Len(events) - 1)
    /\ TakeOutgoing(e) \/ TakeIncoming(e)
    /\ UNCHANGED <<connections, handler>>

LEMMA TakeStreamStep ==
    ASSUME StreamInv, NEW e, TakeStreamAt(e)
    PROVE  /\ StreamInv' /\ Stranded' = Stranded
           /\ \/ waiting' = waiting
              \/ \E p \in Peers : waiting[p] > 0 /\ waiting' = [waiting EXCEPT ![p] = @ - 1]
<1> DEFINE n == Len(events)
           evs == SubSeq(events, 1, n - 1)
           p == e.peer
<1>0. waiting \in [Peers -> Nat]
  BY DEF StreamInv, StreamTypes
<1>1. /\ events' = evs /\ evs \in Seq(Event) /\ e \in Event
      /\ \A i \in DOMAIN evs : i \in DOMAIN events /\ i # n /\ evs[i] = events[i]
      /\ \A q \in Peers : /\ Tally(evs, Answers(q)) \in Nat
                          /\ Tally(events, Answers(q))
                               = Tally(evs, Answers(q)) + IF e \in Answers(q) THEN 1 ELSE 0
  BY LastEvent DEF TakeStreamAt
<1>2. UNCHANGED <<swarm, connections, handler>>
  BY DEF TakeStreamAt, TakeOutgoing, TakeIncoming
<1>3. p \in Peers /\ \A q \in Peers : e \in Answers(q) <=> e.type = "outgoing" /\ p = q
  BY <1>1, EventKinds, EventAnswers
<1> HIDE DEF evs, n
<1>4. Dials'
  BY <1>1, <1>2, DialsKept DEF StreamInv, StreamTypes
<1>5. Placed' /\ Handled' /\ Stranded' = Stranded
  BY <1>2 DEF StreamInv, Placed, Handled, Stranded, Held
<1>6. /\ \/ waiting' = waiting
         \/ waiting[p] > 0 /\ waiting' = [waiting EXCEPT ![p] = @ - 1]
      /\ \A q \in Peers : waiting'[q] = Load(connections'[q]) + Tally(events', Answers(q))
      /\ waiting' \in [Peers -> Nat]
  <2>1. CASE TakeIncoming(e)
    <3>1. \A q \in Peers : Tally(events', Answers(q)) = Tally(events, Answers(q))
      BY <2>1, <1>1, <1>3 DEF TakeIncoming
    <3> QED
      BY <2>1, <3>1, <1>0, <1>2, TypesOf DEF TakeIncoming
  <2>2. CASE TakeOutgoing(e)
    <3>1. \A q \in Peers : Tally(events, Answers(q)) = Tally(events', Answers(q)) + IF p = q THEN 1 ELSE 0
      BY <2>2, <1>1, <1>3 DEF TakeOutgoing
    <3>2. \A q \in Peers : /\ waiting[q] = Load(connections[q]) + Tally(events, Answers(q))
                           /\ Load(connections[q]) \in Nat /\ Tally(events', Answers(q)) \in Nat
      BY <1>1, TypesOf
    <3>3. waiting[p] > 0 /\ waiting[p] \in Nat
      BY <3>1, <3>2, <1>0, <1>3
    <3>4. waiting' = [waiting EXCEPT ![p] = waiting[p] - 1]
      BY <2>2, <3>3 DEF TakeOutgoing
    <3> HIDE DEF p
    <3>5. /\ waiting' \in [Peers -> Nat] /\ waiting'[p] = waiting[p] - 1
          /\ \A q \in Peers : q # p => waiting'[q] = waiting[q]
      BY <3>3, <3>4, <1>0, <1>3
    <3>6. ASSUME NEW q \in Peers
          PROVE  waiting'[q] = Load(connections'[q]) + Tally(events', Answers(q))
      BY <3>1, <3>2, <3>5, <1>2, <1>3
    <3> QED
      BY <3>3, <3>4, <3>5, <3>6
  <2> QED
    BY <2>1, <2>2 DEF TakeStreamAt
<1>7. Ledger'
  BY <1>6 DEF Ledger, Owed, Answers
<1>8. StreamTypes'
  BY <1>1, <1>2, <1>6 DEF StreamInv, StreamTypes
<1> QED
  BY <1>3, <1>4, <1>5, <1>6, <1>7, <1>8 DEF StreamInv
-----------------------------------------------------------------------------
LEMMA StreamsInit == Init => StreamInv /\ Stranded = {}
<1> SUFFICES ASSUME Init PROVE StreamInv /\ Stranded = {}
  OBVIOUS
<1>1. /\ \A p \in Peers : connections[p] = [c \in {} |-> Default] /\ waiting[p] = 0
      /\ events = <<>> /\ \A c \in Cid : swarm[c].st = "free" /\ handler[c] = NoHandler
  BY DEF Init
<1>2. StreamTypes
  <2>1. swarm \in [Cid -> Place]
    BY StreamingAssumption DEF Init, Place, Tracked
  <2>2. handler \in [Cid -> Hand]
    BY NothingHeld DEF Init
  <2>3. events \in Seq(Event)
    BY DEF Init
  <2>4. connections \in [Peers -> Table]
    BY LoadEmpty DEF Init
  <2>5. waiting \in [Peers -> Nat]
    BY DEF Init
  <2> QED
    BY <2>1, <2>2, <2>3, <2>4, <2>5 DEF StreamTypes
<1>3. Placed /\ Handled /\ Dials /\ Stranded = {}
  BY <1>1 DEF Placed, Handled, Dials, Stranded
<1>4. Ledger
  BY <1>1, LoadEmpty, TallyEmpty DEF Ledger, Owed
<1> QED
  BY <1>2, <1>3, <1>4 DEF StreamInv

\* What a step does to the state of StreamRequests: nothing, or one of its actions
AbstractStep ==
    \/ waiting' = waiting /\ Stranded' = Stranded
    \/ \E p \in Peers : waiting' = [waiting EXCEPT ![p] = @ + 1] /\ Stranded' = Stranded
    \/ \E p \in Peers : /\ waiting[p] > 0 /\ waiting' = [waiting EXCEPT ![p] = @ - 1]
                        /\ Stranded' = Stranded
    \/ \E p \in Peers : waiting' = waiting /\ Stranded' = Stranded \cup {p}

LEMMA PlaceChange ==
    ASSUME NEW x \in Place, NEW s
    PROVE  [x EXCEPT !.st = s] = [peer |-> x.peer, st |-> s]
BY DEF Place

LEMMA StreamsStep ==
    ASSUME StreamInv, [Next]_vars
    PROVE  StreamInv' /\ AbstractStep
<1>0. \A c \in Cid : swarm[c].peer \in Peers
  BY DEF StreamInv, StreamTypes, Place
<1>1. ASSUME NEW p \in Peers, CreateStream(p)
      PROVE  StreamInv' /\ AbstractStep
  <2>1. waiting' = [waiting EXCEPT ![p] = @ + 1]
    BY <1>1 DEF CreateStream
  <2>2. \/ \E c \in DOMAIN connections[p] : Join(p, c)
        \/ \E c \in Fresh : Ask(p, c)
    BY <1>1 DEF CreateStream, Join, Ask
  <2>3. StreamInv' /\ Stranded' = Stranded
    BY <2>2, JoinStep, AskStep
  <2> QED
    BY <2>1, <2>3 DEF AbstractStep
<1>2. ASSUME NEW p \in Peers, Inbound(p)
      PROVE  StreamInv' /\ AbstractStep
  <2>1. PICK c \in Fresh : swarm' = [swarm EXCEPT ![c] = [peer |-> p, st |-> "up"]] /\ NewHandler(p, c)
    BY <1>2 DEF Inbound
  <2>2. c \in Cid /\ GoesUp(p, c)
    BY <2>1, <1>2, FreshIsNew DEF Inbound, GoesUp
  <2>3. StreamInv' /\ Stranded' = Stranded
    BY <2>2, OpenStep
  <2> QED
    BY <2>3, <1>2 DEF Inbound, AbstractStep
<1>3. ASSUME NEW p \in Peers, OtherDial(p)
      PROVE  StreamInv' /\ AbstractStep
  <2> DEFINE x == [peer |-> p, st |-> "dialling"]
  <2>1. PICK c \in Fresh : swarm' = [swarm EXCEPT ![c] = x]
    BY <1>3 DEF OtherDial
  <2>2. x \in Place /\ x.st # "up"
    BY DEF Place, Tracked
  <2> HIDE DEF x
  <2>3. c \in Cid /\ Move(c, x)
    BY <2>1, <2>2, <1>3, FreshIsNew DEF OtherDial, Move
  <2>4. StreamInv' /\ Stranded' = Stranded
    BY <2>2, <2>3, MoveStep
  <2> QED
    BY <2>4, <1>3 DEF OtherDial, AbstractStep
<1>4. ASSUME NEW c \in Cid, Established(c)
      PROVE  StreamInv' /\ AbstractStep
  <2> DEFINE p == swarm[c].peer
  <2>1. swarm[c] = [peer |-> p, st |-> "dialling"]
    BY <1>4 DEF Established, StreamInv, StreamTypes, Place
  <2>2. [swarm EXCEPT ![c].st = "up"] = [swarm EXCEPT ![c] = [peer |-> p, st |-> "up"]]
    <3>1. swarm[c] \in Place
      BY DEF StreamInv, StreamTypes
    <3>2. [swarm[c] EXCEPT !.st = "up"] = [peer |-> p, st |-> "up"]
      BY <3>1, PlaceChange
    <3> QED
      BY <3>2
  <2>3. GoesUp(p, c)
    BY <2>1, <2>2, <1>4 DEF Established, GoesUp
  <2>4. StreamInv' /\ Stranded' = Stranded
    BY <2>3, <1>0, OpenStep
  <2> QED
    BY <2>4, <1>4 DEF Established, AbstractStep
<1>5. ASSUME NEW c \in Cid, DialFailure(c)
      PROVE  StreamInv' /\ AbstractStep
  <2> DEFINE p == swarm[c].peer
  <2>1. handler[c] = NoHandler /\ handler \in [Cid -> Hand] /\ swarm \in [Cid -> Place]
    BY <1>5 DEF DialFailure, StreamInv, StreamTypes, Handled
  <2>2. CASE c \in DOMAIN connections[p]
    <3>1. handler' = [handler EXCEPT ![c] = NoHandler]
      BY <2>1, <1>5 DEF DialFailure
    <3>2. Drop(p, c)
      BY <2>2, <3>1, <1>5 DEF DialFailure, Drop
    <3> QED
      BY <2>2, <3>2, <1>0, <1>5, DropStep DEF DialFailure, AbstractStep
  <2>3. CASE c \notin DOMAIN connections[p]
    <3> DEFINE x == [peer |-> p, st |-> "closed"]
    <3>1. x \in Place /\ x.st # "up"
      BY <1>0 DEF Place
    <3>2. swarm' = [swarm EXCEPT ![c] = x]
      <4>1. [swarm[c] EXCEPT !.st = "closed"] = x /\ swarm[c] \in Place
        BY <2>1, PlaceChange
      <4> QED
        BY <4>1, <1>5 DEF DialFailure
    <3>3. \A q \in Peers : c \notin DOMAIN connections[q]
      BY <2>3 DEF StreamInv, Placed
    <3> HIDE DEF x
    <3>4. Move(c, x)
      BY <2>3, <3>1, <3>2, <3>3, <1>5 DEF DialFailure, Move
    <3> QED
      BY <3>1, <3>4, <1>5, MoveStep DEF DialFailure, AbstractStep
  <2> QED
    BY <2>2, <2>3
<1>6. ASSUME NEW c \in Cid, ConnectionClosed(c)
      PROVE  StreamInv' /\ AbstractStep
  <2> DEFINE p == swarm[c].peer
  <2>1. c \in DOMAIN connections[p]
    BY <1>6 DEF ConnectionClosed, StreamInv, Handled
  <2>2. Drop(p, c)
    BY <1>6 DEF ConnectionClosed, Drop
  <2> QED
    BY <2>1, <2>2, <1>0, <1>6, DropStep DEF ConnectionClosed, AbstractStep
<1>7. ASSUME NEW p \in Peers, NEW c \in Cid, PollNotify(p, c)
      PROVE  StreamInv' /\ AbstractStep
  BY <1>7, PollNotifyStep DEF PollNotify, AbstractStep
<1>8. ASSUME PollEvent
      PROVE  StreamInv' /\ AbstractStep
  <2> DEFINE e == events[Len(events)]
  <2>1. TakeDialAt(e) \/ TakeStreamAt(e)
    BY <1>8 DEF PollEvent, TakeDialAt, TakeStreamAt, Front, Last
  <2> HIDE DEF e
  <2>2. CASE TakeDialAt(e)
    BY <2>2, TakeDialStep DEF AbstractStep
  <2>3. CASE TakeStreamAt(e)
    BY <2>3, TakeStreamStep DEF AbstractStep
  <2> QED
    BY <2>1, <2>2, <2>3
<1>9. ASSUME NEW c \in Cid, OpenStream(c)
      PROVE  StreamInv' /\ AbstractStep
  BY <1>9, OpenStreamStep DEF OpenStream, AbstractStep
<1>10. ASSUME NEW c \in Cid, NEW w \in Word, Negotiated(c, w)
       PROVE  StreamInv' /\ AbstractStep
  BY <1>10, NegotiatedStep DEF Negotiated, AbstractStep
<1>11. ASSUME NEW c \in Cid, Incoming(c)
       PROVE  StreamInv' /\ AbstractStep
  BY <1>11, IncomingStep DEF Incoming, AbstractStep
<1>12. ASSUME NEW c \in Cid, Notify(c)
       PROVE  StreamInv' /\ AbstractStep
  BY <1>12, NotifyStep DEF Notify, AbstractStep
<1>13. CASE UNCHANGED vars
  BY <1>13 DEF vars, StreamInv, StreamTypes, Placed, Handled, Dials, Ledger, Owed, Stranded,
               Held, AbstractStep
<1> QED
  BY <1>1, <1>2, <1>3, <1>4, <1>5, <1>6, <1>7, <1>8, <1>9, <1>10, <1>11, <1>12, <1>13
  DEF Next, Poll, PollHandler, Resolve, Negotiate

\* The invariant: what a request is counted on stays in step through every dial,
\* connection, failure, close and handover.
THEOREM StreamsInvariant == Spec => []StreamInv
<1>1. Init => StreamInv
  BY StreamsInit
<1>2. StreamInv /\ [Next]_vars => StreamInv'
  BY StreamsStep
<1> QED
  BY <1>1, <1>2, PTL DEF Spec

\* penidng_stream_requests and the counters, handlers and events of the behaviour agree
\* on how many answers each peer's requests still get.
THEOREM NoRequestIsLost == Spec => []Ledger
<1>1. StreamInv => Ledger
  BY DEF StreamInv
<1> QED
  BY <1>1, StreamsInvariant, PTL

\* create_stream and the answers to it do what StreamRequests says: each request is
\* answered at most once, and no answer comes without a request.
THEOREM StreamsImplementRequests == Spec => Abstract!Init /\ [][Abstract!Next]_(Abstract!vars)
<1>1. Init => Abstract!Init
  <2> SUFFICES ASSUME Init PROVE Abstract!Init
    OBVIOUS
  <2>1. Stranded = {} /\ waiting = [p \in Peers |-> 0]
    BY StreamsInit DEF Init
  <2> QED
    BY <2>1 DEF Abstract!Init
<1>2. StreamInv /\ [Next]_vars => [Abstract!Next]_(Abstract!vars)
  <2> SUFFICES ASSUME StreamInv, [Next]_vars PROVE [Abstract!Next]_(Abstract!vars)
    OBVIOUS
  <2>1. AbstractStep
    BY StreamsStep
  <2> QED
    BY <2>1 DEF AbstractStep, Abstract!Next, Abstract!Request, Abstract!Answer, Abstract!Strand,
                Abstract!vars
<1> QED
  BY <1>1, <1>2, StreamsInvariant, PTL DEF Spec
=============================================================================
