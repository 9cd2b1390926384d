----------------------------- MODULE OnionProofs -----------------------------
(***************************************************************************)
(* The onion protocol, for any servers, routes, limits and faults and any  *)
(* number of paths: a path that is reported open is one its recipient has  *)
(* reported, no relay forwards more than it admits, and both ends read     *)
(* what the other wrote.  Then a relay's buffer: ForwardsAll for every     *)
(* size of buffer, source and piece.                                       *)
(***************************************************************************)
EXTENDS Onion, Channel, SubsequencesProofs, FiniteSetTheorems, SequenceTheorems, TLAPS

\* What may travel back to the client.  A recipient vouches with OK for the secret of a
\* path only when it has reported that path itself; a secret of 0 opens nothing.
Reply(acc) == [type : {"ok"}, secret : {0} \cup {p \in Paths : p \in acc[p]}]
              \cup [type : Code]
              \cup [type : {"data"}, path : Paths, dir : {"fwd", "bwd"}, n : Nat]

Truthful(st, acc) ==
    /\ DOMAIN st = Sid
    /\ \A s \in Sid : /\ DOMAIN st[s] = {"fwd", "bwd", "a", "b", "broken"}
                      /\ st[s].bwd \in Seq(Reply(acc))

OnionType == /\ config \in Configs
             /\ want \in [Node -> Seq(Paths \X Nat)]
             /\ sent \in [Paths -> [fwd : Nat, bwd : Nat]]
             /\ DOMAIN outcome = Paths /\ DOMAIN accepted = Paths
             /\ DOMAIN error = Node /\ DOMAIN router = Node
             /\ \A n \in Node : /\ error[n] \in [DOMAIN error[n] -> Code]
                                /\ IsFiniteSet(DOMAIN router[n])
                                /\ DOMAIN router[n] \subseteq Paths \X (0 .. 2)

\* The routes of a relay that still forward, or would if something came
Valid(rt) == {s \in DOMAIN rt : rt[s] # "closed"}
Bounded(rt) == \A n \in Node : Cardinality(Valid(rt[n])) <= config.max_streams + 1

OnionInv == OnionType /\ Truthful(stream, accepted) /\ Authentic /\ Bounded(router)

-----------------------------------------------------------------------------
\* Updating one field of one stream.
LEMMA SetField ==
    ASSUME NEW st, NEW acc, Truthful(st, acc), NEW s, NEW f, NEW e,
           f = "bwd" /\ s \in Sid => e \in Seq(Reply(acc))
    PROVE  Truthful([st EXCEPT ![s][f] = e], acc)
<1> DEFINE new == [st EXCEPT ![s][f] = e]
<1>1. ASSUME NEW r \in Sid
      PROVE  /\ DOMAIN new[r] = {"fwd", "bwd", "a", "b", "broken"}
             /\ new[r].bwd \in Seq(Reply(acc))
  <2>1. CASE r = s
    <3>1. new[r] = [st[r] EXCEPT ![f] = e]
      BY <1>1, <2>1 DEF Truthful
    <3>2. CASE f = "bwd"
      BY <1>1, <2>1, <3>1, <3>2 DEF Truthful
    <3>3. CASE f # "bwd"
      BY <1>1, <2>1, <3>1, <3>3 DEF Truthful
    <3> QED BY <3>2, <3>3
  <2>2. CASE r # s
    BY <1>1, <2>2 DEF Truthful
  <2> QED BY <2>1, <2>2
<1>2. DOMAIN new = Sid
  BY DEF Truthful
<1> QED BY <1>1, <1>2 DEF Truthful

\* The ends of a stream may be dropped.
LEMMA DropKeeps ==
    ASSUME NEW st, NEW acc, Truthful(st, acc), NEW s
    PROVE  Truthful(DropA(st, s), acc) /\ Truthful(DropB(st, s), acc)
<1>1. Truthful([st EXCEPT ![s]["a"] = FALSE], acc)
  BY SetField, "a" # "bwd"
<1>2. Truthful([st EXCEPT ![s]["b"] = FALSE], acc)
  BY SetField, "b" # "bwd"
<1> QED BY <1>1, <1>2 DEF DropA, DropB

\* Items leave a stream at the front.
LEMMA TailKeeps ==
    ASSUME NEW st, NEW acc, Truthful(st, acc), NEW s \in Sid, st[s].bwd # <<>>
    PROVE  /\ Truthful([st EXCEPT ![s].bwd = Tail(@)], acc)
           /\ Head(st[s].bwd) \in Reply(acc)
<1>1. st[s].bwd \in Seq(Reply(acc))
  BY DEF Truthful
<1>2. Tail(st[s].bwd) \in Seq(Reply(acc)) /\ Head(st[s].bwd) \in Reply(acc)
  BY <1>1, HeadTailProperties
<1>3. Truthful([st EXCEPT ![s]["bwd"] = Tail(st[s].bwd)], acc)
  BY <1>2, SetField
<1>4. [st EXCEPT ![s].bwd = Tail(@)] = [st EXCEPT ![s]["bwd"] = Tail(st[s].bwd)]
  BY DEF Truthful
<1> QED BY <1>2, <1>3, <1>4

\* A reply is added at the end.
LEMMA ReplyKeeps ==
    ASSUME NEW st, NEW acc, Truthful(st, acc), NEW s \in Sid, NEW e \in Reply(acc)
    PROVE  Truthful([st EXCEPT ![s].bwd = Append(@, e)], acc)
<1>1. st[s].bwd \in Seq(Reply(acc))
  BY DEF Truthful
<1>2. Append(st[s].bwd, e) \in Seq(Reply(acc))
  BY <1>1, AppendProperties
<1>3. Truthful([st EXCEPT ![s]["bwd"] = Append(st[s].bwd, e)], acc)
  BY <1>2, SetField
<1>4. [st EXCEPT ![s].bwd = Append(@, e)] = [st EXCEPT ![s]["bwd"] = Append(st[s].bwd, e)]
  BY DEF Truthful
<1> QED BY <1>3, <1>4

\* What goes forward is of no account.
LEMMA ForwardKeeps ==
    ASSUME NEW st, NEW acc, Truthful(st, acc), NEW s \in Sid, NEW e
    PROVE  /\ Truthful([st EXCEPT ![s].fwd = Tail(@)], acc)
           /\ Truthful([st EXCEPT ![s].fwd = Append(@, e)], acc)
           /\ Truthful([st EXCEPT ![s].fwd = Rest(@)], acc)
<1>1. \A x : Truthful([st EXCEPT ![s]["fwd"] = x], acc)
  BY SetField, "fwd" # "bwd"
<1>2. /\ [st EXCEPT ![s].fwd = Tail(@)] = [st EXCEPT ![s]["fwd"] = Tail(st[s].fwd)]
      /\ [st EXCEPT ![s].fwd = Append(@, e)] = [st EXCEPT ![s]["fwd"] = Append(st[s].fwd, e)]
      /\ [st EXCEPT ![s].fwd = Rest(@)] = [st EXCEPT ![s]["fwd"] = Rest(st[s].fwd)]
  BY DEF Truthful
<1> QED BY <1>1, <1>2

\* More reports make nothing untrue.
LEMMA ReportKeeps ==
    ASSUME NEW st, NEW acc, Truthful(st, acc), DOMAIN acc = Paths, NEW p \in Paths, NEW x
    PROVE  /\ Truthful(st, [acc EXCEPT ![p] = @ \cup {x}])
           /\ \A e \in Reply(acc) : e \in Reply([acc EXCEPT ![p] = @ \cup {x}])
<1> DEFINE new == [acc EXCEPT ![p] = @ \cup {x}]
<1>1. \A q \in Paths : q \in acc[q] => q \in new[q]
  OBVIOUS
<1> HIDE DEF new
<1>2. Reply(acc) \subseteq Reply(new)
  BY <1>1 DEF Reply
<1>3. Seq(Reply(acc)) \subseteq Seq(Reply(new))
  <2>1. ASSUME NEW S, NEW T, S \subseteq T, NEW q \in Seq(S) PROVE q \in Seq(T)
    BY <2>1, SMT
  <2> QED BY <1>2, <2>1
<1>4. Truthful(st, new)
  BY <1>3 DEF Truthful
<1> QED BY <1>2, <1>4 DEF new

-----------------------------------------------------------------------------
\* The routes of one relay change.
LEMMA RoutesChange ==
    ASSUME OnionType, Bounded(router), NEW n \in Node, NEW rt,
           IsFiniteSet(DOMAIN rt), DOMAIN rt \subseteq Paths \X (0 .. 2),
           Cardinality(Valid(rt)) <= config.max_streams + 1,
           router' = [router EXCEPT ![n] = rt], UNCHANGED config
    PROVE  /\ Bounded(router)' /\ DOMAIN router' = Node
           /\ \A m \in Node : /\ IsFiniteSet(DOMAIN router'[m])
                              /\ DOMAIN router'[m] \subseteq Paths \X (0 .. 2)
BY DEF Bounded, OnionType

\* No route becomes valid that was not.
LEMMA FewerRoutes ==
    ASSUME OnionType, Bounded(router), NEW n \in Node, NEW rt,
           DOMAIN rt \subseteq DOMAIN router[n], Valid(rt) \subseteq Valid(router[n]),
           router' = [router EXCEPT ![n] = rt], UNCHANGED config
    PROVE  /\ Bounded(router)' /\ DOMAIN router' = Node
           /\ \A m \in Node : /\ IsFiniteSet(DOMAIN router'[m])
                              /\ DOMAIN router'[m] \subseteq Paths \X (0 .. 2)
<1>1. IsFiniteSet(DOMAIN router[n]) /\ DOMAIN router[n] \subseteq Paths \X (0 .. 2)
  BY DEF OnionType
<1>2. IsFiniteSet(Valid(router[n])) /\ IsFiniteSet(DOMAIN rt)
  BY <1>1, FS_Subset, Valid(router[n]) \subseteq DOMAIN router[n] DEF Valid
<1>3. Cardinality(Valid(rt)) <= Cardinality(Valid(router[n]))
  BY <1>2, FS_Subset
<1>4. /\ Cardinality(Valid(rt)) \in Nat /\ Cardinality(Valid(router[n])) \in Nat
      /\ config.max_streams \in Nat
  BY <1>2, FS_Subset, FS_CardinalityType, OnionAssumption DEF OnionType
<1>5. Cardinality(Valid(router[n])) <= config.max_streams + 1
  BY DEF Bounded
<1>6. Cardinality(Valid(rt)) <= config.max_streams + 1
  BY <1>3, <1>4, <1>5, SMT
<1> QED BY <1>1, <1>2, <1>6, RoutesChange

\* One route is admitted after the idle ones were closed.
LEMMA RouteAdmitted ==
    ASSUME OnionType, Bounded(router), NEW n \in Node, NEW s \in Paths \X (0 .. 2), NEW swept,
           DOMAIN swept = DOMAIN router[n],
           \A r \in DOMAIN swept : swept[r] = IF router[n][r] = "live" THEN "live" ELSE "closed",
           Cardinality({r \in DOMAIN router[n] : router[n][r] = "live"}) <= config.max_streams,
           router' = [router EXCEPT ![n] = With(swept, s, "live")], UNCHANGED config
    PROVE  /\ Bounded(router)' /\ DOMAIN router' = Node
           /\ \A m \in Node : /\ IsFiniteSet(DOMAIN router'[m])
                              /\ DOMAIN router'[m] \subseteq Paths \X (0 .. 2)
<1> DEFINE live == {r \in DOMAIN router[n] : router[n][r] = "live"}
           rt == With(swept, s, "live")
<1>1. IsFiniteSet(DOMAIN router[n]) /\ DOMAIN router[n] \subseteq Paths \X (0 .. 2)
      /\ config.max_streams \in Nat
  BY OnionAssumption DEF OnionType
<1>2. DOMAIN rt = DOMAIN router[n] \cup {s} /\ Valid(rt) \subseteq live \cup {s}
  BY DEF With, Valid
<1>3. IsFiniteSet(live) /\ Cardinality(live) \in Nat
  BY <1>1, FS_Subset, FS_CardinalityType, live \subseteq DOMAIN router[n]
<1>4. /\ IsFiniteSet(live \cup {s})
      /\ Cardinality(live \cup {s}) \in Nat /\ Cardinality(live \cup {s}) <= Cardinality(live) + 1
  <2> HIDE DEF live
  <2>1. /\ IsFiniteSet(live \cup {s})
        /\ Cardinality(live \cup {s}) = IF s \in live THEN Cardinality(live) ELSE Cardinality(live) + 1
    BY <1>3, FS_AddElement
  <2>2. Cardinality(live \cup {s}) \in Nat
    BY <2>1, FS_CardinalityType
  <2> QED BY <1>3, <2>1, <2>2, SMT
<1>5. Cardinality(Valid(rt)) <= Cardinality(live \cup {s}) /\ Cardinality(Valid(rt)) \in Nat
  BY <1>2, <1>4, FS_Subset, FS_CardinalityType
<1>6. Cardinality(Valid(rt)) <= config.max_streams + 1
  BY <1>1, <1>3, <1>4, <1>5, SMT
<1>7. IsFiniteSet(DOMAIN rt) /\ DOMAIN rt \subseteq Paths \X (0 .. 2)
  BY <1>1, <1>2, FS_AddElement
<1> HIDE DEF rt
<1> QED BY <1>6, <1>7, RoutesChange DEF rt

-----------------------------------------------------------------------------
\* What an action keeps that leaves the queues alone.
Queues == <<config, want, sent, error>>

LEMMA RequestRemoved ==
    ASSUME NEW seq \in Seq(Paths \X Nat), seq # <<>>, NEW i
    PROVE  SwapRemove(seq, i) \in Seq(Paths \X Nat)
<1> DEFINE new == SwapRemove(seq, i)
<1>1. Len(seq) \in Nat \ {0} /\ Len(seq) - 1 \in Nat
  BY EmptySeq, LenProperties
<1>2. \A j \in 1 .. Len(seq) - 1 : (IF j = i THEN seq[Len(seq)] ELSE seq[j]) \in Paths \X Nat
  BY <1>1, ElementOfSeq
<1>3. new \in [1 .. Len(seq) - 1 -> Paths \X Nat]
  BY <1>2 DEF SwapRemove
<1> HIDE DEF new
<1> DEFINE k == Len(seq) - 1
<1>5. k \in Nat /\ new \in [1 .. k -> Paths \X Nat]
  BY <1>1, <1>3
<1> HIDE DEF k
<1>6. new \in Seq(Paths \X Nat)
  BY <1>5, SeqDef
<1> QED BY <1>6 DEF new

LEMMA HopFacts ==
    ASSUME NEW s \in Sid
    PROVE  /\ s[1] \in Paths /\ s[2] \in 1 .. 3 /\ s = <<s[1], s[2]>>
           /\ Prev(s) \in Paths \X (0 .. 2) /\ After(s) \in Paths \X Nat
           /\ s \in Paths \X (0 .. 2) => After(s) \in Sid
<1>1. s[1] \in Paths /\ s[2] \in 1 .. 3 /\ s = <<s[1], s[2]>>
  BY DEF Sid, Hop
<1>2. s[2] - 1 \in 0 .. 2 /\ s[2] + 1 \in Nat
  BY <1>1, SMT
<1>3. s[2] \in 0 .. 2 => s[2] + 1 \in 1 .. 3
  BY <1>1, SMT
<1>4. s \in Paths \X (0 .. 2) => s[2] \in 0 .. 2
  OBVIOUS
<1> QED BY <1>1, <1>2, <1>3, <1>4 DEF Prev, After, Sid, Hop

LEMMA OnionInvInit == Init => OnionInv
<1> SUFFICES ASSUME Init PROVE OnionInv
  OBVIOUS
<1>1. OnionType
  <2>1. want \in [Node -> Seq(Paths \X Nat)]
    BY EmptySeq DEF Init
  <2>2. \A n \in Node : DOMAIN router[n] = {} /\ DOMAIN error[n] = {} /\ error[n] \in [DOMAIN error[n] -> Code]
    BY DEF Init
  <2>3. IsFiniteSet({})
    BY FS_EmptySet
  <2>4. sent \in [Paths -> [fwd : Nat, bwd : Nat]]
    BY DEF Init
  <2> QED BY <2>1, <2>2, <2>3, <2>4 DEF Init, OnionType
<1>2. Truthful(stream, accepted)
  BY EmptySeq DEF Init, Truthful, NoStream
<1>3. Authentic
  BY DEF Init, Authentic
<1>4. Bounded(router)
  <2>1. \A n \in Node : Valid(router[n]) = {}
    BY DEF Init, Valid
  <2>2. Cardinality({}) = 0 /\ config.max_streams \in Nat
    BY FS_EmptySet, OnionAssumption DEF Init
  <2> QED BY <2>1, <2>2 DEF Bounded
<1> QED BY <1>1, <1>2, <1>3, <1>4 DEF OnionInv

-----------------------------------------------------------------------------
\* Routes that stay as they are.
LEMMA RoutesKept ==
    ASSUME OnionInv, UNCHANGED <<config, router>>
    PROVE  /\ Bounded(router)' /\ DOMAIN router' = Node
           /\ \A m \in Node : /\ IsFiniteSet(DOMAIN router'[m])
                              /\ DOMAIN router'[m] \subseteq Paths \X (0 .. 2)
BY DEF OnionInv, OnionType, Bounded

\* An error stream is added or closed.
LEMMA ErrorChange ==
    ASSUME OnionType, NEW n \in Node, NEW s, NEW c \in Code
    PROVE  /\ DOMAIN [error EXCEPT ![n] = With(@, s, c)] = Node
           /\ \A m \in Node : [error EXCEPT ![n] = With(@, s, c)][m]
                                \in [DOMAIN [error EXCEPT ![n] = With(@, s, c)][m] -> Code]
<1> DEFINE new == With(error[n], s, c)
<1>1. error[n] \in [DOMAIN error[n] -> Code]
  BY DEF OnionType
<1>2. new \in [DOMAIN error[n] \cup {s} -> Code]
  BY <1>1 DEF With
<1>3. new \in [DOMAIN new -> Code]
  BY <1>2
<1> HIDE DEF new
<1>4. [error EXCEPT ![n] = With(@, s, c)] = [error EXCEPT ![n] = new]
  BY DEF new
<1> QED BY <1>3, <1>4 DEF OnionType

LEMMA OpenPathStep ==
    ASSUME OnionInv, NEW p \in Paths, NEW r \in Routes, NEW k \in {0, 2, 3}, OpenPath(p, r, k)
    PROVE  OnionInv'
<1> USE DEF OnionInv
<1>1. want' \in [Node -> Seq(Paths \X Nat)]
  <2>1. \A q \in Seq(Paths \X Nat) : Append(q, <<p, 1>>) \in Seq(Paths \X Nat)
    BY AppendProperties
  <2> QED BY <2>1 DEF OpenPath, OnionType
<1>2. Truthful(stream, accepted)'
  BY DEF OpenPath, Truthful, Reply
<1>3. Authentic'
  BY DEF OpenPath, Authentic, OnionType
<1>4. OnionType'
  BY <1>1, RoutesKept DEF OpenPath, OnionType
<1> QED BY <1>2, <1>3, <1>4, RoutesKept DEF OpenPath

LEMMA StreamReadyStep ==
    ASSUME OnionInv, NEW n \in Node, NEW t \in Servers, StreamReady(n, t)
    PROVE  OnionInv'
<1> USE DEF OnionInv
<1> DEFINE s == want[n][FirstTo(n, t)]
<1>1. want[n] # <<>> /\ want[n] \in Seq(Paths \X Nat)
  BY DEF StreamReady, OnionType
<1>2. want' \in [Node -> Seq(Paths \X Nat)]
  BY <1>1, RequestRemoved DEF StreamReady, OnionType
<1>3. Truthful([stream EXCEPT ![s] = NewStream], accepted)
  <2> HIDE DEF s
  <2>1. DOMAIN NewStream = {"fwd", "bwd", "a", "b", "broken"} /\ NewStream.bwd \in Seq(Reply(accepted))
    BY EmptySeq DEF NewStream, NoStream
  <2> QED BY <2>1 DEF Truthful
<1>4. Truthful(stream, accepted)'
  BY <1>3 DEF StreamReady, Truthful, Reply
<1>5. OnionType'
  BY <1>2, RoutesKept DEF StreamReady, OnionType
<1>6. Authentic'
  BY DEF StreamReady, Authentic
<1> QED BY <1>4, <1>5, <1>6, RoutesKept DEF StreamReady

LEMMA StreamFailedStep ==
    ASSUME OnionInv, NEW n \in Node, NEW t \in Servers, StreamFailed(n, t)
    PROVE  OnionInv'
<1> USE DEF OnionInv
<1> DEFINE s == want[n][FirstTo(n, t)]
<1>1. want[n] # <<>> /\ want[n] \in Seq(Paths \X Nat)
  BY DEF StreamFailed, OnionType
<1>2. want' \in [Node -> Seq(Paths \X Nat)]
  BY <1>1, RequestRemoved DEF StreamFailed, OnionType
<1>3. Truthful(stream, accepted)'
  BY DEF StreamFailed, Truthful, Reply
<1>4. \/ outcome' = [outcome EXCEPT ![s[1]] = "unreachable"] /\ error' = error
      \/ error' = [error EXCEPT ![n] = With(@, Prev(s), "missing")] /\ outcome' = outcome
  BY DEF StreamFailed
<1> HIDE DEF s
<1>5. DOMAIN error' = Node /\ \A m \in Node : error'[m] \in [DOMAIN error'[m] -> Code]
  <2>1. "missing" \in Code
    BY DEF Code
  <2>2. CASE error' = [error EXCEPT ![n] = With(@, Prev(s), "missing")]
    <3> DEFINE new == [error EXCEPT ![n] = With(@, Prev(s), "missing")]
    <3>1. DOMAIN new = Node /\ \A m \in Node : new[m] \in [DOMAIN new[m] -> Code]
      BY <2>1, ErrorChange
    <3> HIDE DEF new
    <3> QED BY <2>2, <3>1 DEF new
  <2>3. CASE error' = error
    BY <2>3 DEF OnionType
  <2> QED BY <1>4, <2>2, <2>3
<1>6. Authentic' /\ DOMAIN outcome' = Paths
  BY <1>4 DEF StreamFailed, Authentic, OnionType
<1>7. OnionType'
  BY <1>2, <1>5, <1>6, RoutesKept DEF StreamFailed, OnionType
<1> QED BY <1>3, <1>6, <1>7, RoutesKept DEF StreamFailed

LEMMA ReadPacketStep ==
    ASSUME OnionInv, NEW n \in Node, NEW s \in Sid, ReadPacket(n, s)
    PROVE  OnionInv'
<1> USE DEF OnionInv
<1> DEFINE read == [stream EXCEPT ![s].fwd = Tail(@)]
           reply == [type |-> "ok", secret |-> Secret(n, s)]
           more == [accepted EXCEPT ![s[1]] = @ \cup {Secret(n, s)}]
<1>1. \/ want' = [want EXCEPT ![n] = Append(@, After(s))] /\ stream' = read /\ accepted' = accepted
      \/ want' = want /\ accepted' = more /\ stream' = [read EXCEPT ![s].bwd = Append(@, reply)]
      \/ want' = want /\ accepted' = accepted /\ stream' = DropB(read, s)
  BY DEF ReadPacket
<1>2. Truthful(read, accepted)
  BY ForwardKeeps
<1>3. Truthful(read, more) /\ reply \in Reply(more) /\ DOMAIN more = Paths
  <2>1. s[1] \in Paths /\ DOMAIN accepted = Paths
    BY HopFacts DEF OnionType
  <2>2. Secret(n, s) \in {0, s[1]}
    BY DEF Secret
  <2>3. reply \in Reply(more)
    BY <2>1, <2>2 DEF Reply
  <2> HIDE DEF read
  <2> QED BY <1>2, <2>1, <2>3, ReportKeeps
<1> HIDE DEF read, reply
<1>4. Truthful(stream', accepted')
  <2>1. CASE stream' = read /\ accepted' = accepted
    BY <1>2, <2>1
  <2>2. CASE accepted' = more /\ stream' = [read EXCEPT ![s].bwd = Append(@, reply)]
    <3> HIDE DEF more
    <3> QED BY <1>3, <2>2, ReplyKeeps
  <2>3. CASE accepted' = accepted /\ stream' = DropB(read, s)
    BY <1>2, <2>3, DropKeeps
  <2> QED BY <1>1, <2>1, <2>2, <2>3
<1>5. Truthful(stream, accepted)'
  BY <1>4 DEF Truthful, Reply
<1>6. Authentic' /\ DOMAIN accepted' = Paths
  BY <1>1 DEF ReadPacket, Authentic, OnionType
<1>7. want' \in [Node -> Seq(Paths \X Nat)]
  <2>1. After(s) \in Paths \X Nat
    BY HopFacts
  <2>2. \A S : \A x \in S : \A q \in Seq(S) : Append(q, x) \in Seq(S)
    BY AppendProperties
  <2>3. \A q \in Seq(Paths \X Nat) : Append(q, After(s)) \in Seq(Paths \X Nat)
    BY <2>1, <2>2
  <2>4. want' = want \/ want' = [want EXCEPT ![n] = Append(want[n], After(s))]
    BY <1>1
  <2>5. want \in [Node -> Seq(Paths \X Nat)]
    BY DEF OnionType
  <2>6. Append(want[n], After(s)) \in Seq(Paths \X Nat)
    BY <2>3, <2>5
  <2> QED BY <2>4, <2>5, <2>6
<1>8. OnionType'
  BY <1>6, <1>7, RoutesKept DEF ReadPacket, OnionType
<1> QED BY <1>5, <1>6, <1>8, RoutesKept DEF ReadPacket

\* Only streams change, and what is on its way back stays true.
LEMMA StreamsStep ==
    ASSUME OnionInv, Truthful(stream', accepted),
           UNCHANGED <<config, want, sent, error, router, outcome, accepted>>
    PROVE  OnionInv'
<1>1. Truthful(stream, accepted)'
  BY DEF Truthful, Reply
<1>2. Authentic' /\ OnionType'
  BY DEF OnionInv, Authentic, OnionType
<1> QED BY <1>1, <1>2, RoutesKept DEF OnionInv

LEMMA ReadPacketFailsStep ==
    ASSUME OnionInv, NEW n \in Node, NEW s \in Sid, ReadPacketFails(n, s)
    PROVE  OnionInv'
BY DropKeeps, StreamsStep DEF ReadPacketFails, OnionInv

LEMMA WriteRequestStep ==
    ASSUME OnionInv, NEW s \in Sid, WriteRequest(s)
    PROVE  OnionInv'
<1>1. Truthful(stream', accepted)
  <2>1. \/ stream' = [stream EXCEPT ![s].fwd = Append(@, Packet(s))]
        \/ stream' = DropA(stream, s)
    BY DEF WriteRequest
  <2>2. Truthful(stream, accepted)
    BY DEF OnionInv
  <2>3. Truthful([stream EXCEPT ![s].fwd = Append(@, Packet(s))], accepted)
    BY <2>2, ForwardKeeps
  <2> QED BY <2>1, <2>2, <2>3, DropKeeps
<1>2. Truthful(stream, accepted)'
  BY <1>1 DEF WriteRequest, Truthful, Reply
<1>3. Authentic' /\ DOMAIN outcome' = Paths
  BY DEF WriteRequest, OnionInv, Authentic, OnionType
<1>4. OnionType'
  BY <1>3, RoutesKept DEF WriteRequest, OnionInv, OnionType
<1> QED BY <1>2, <1>3, <1>4, RoutesKept DEF WriteRequest, OnionInv

LEMMA ReadReplyStep ==
    ASSUME OnionInv, NEW s \in Sid, ReadReply(s)
    PROVE  OnionInv'
<1> DEFINE r == Head(stream[s].bwd)
           read == [stream EXCEPT ![s].bwd = Tail(@)]
<1>1. Truthful(stream, accepted)
  BY DEF OnionInv
<1>2. stream[s].bwd # <<>> => Truthful(read, accepted) /\ r \in Reply(accepted)
  BY <1>1, TailKeeps
<1>3. /\ \/ stream[s].bwd # <<>> /\ (stream' = read \/ stream' = DropA(read, s))
         \/ stream' = DropA(stream, s)
      /\ \/ /\ stream[s].bwd # <<>> /\ r.type = "ok" /\ r.secret = s[1]
            /\ outcome' = [outcome EXCEPT ![s[1]] = "ok"]
         \/ \E x \in {"auth", "closed"} \cup Code : outcome' = [outcome EXCEPT ![s[1]] = x]
  BY DEF ReadReply, Authenticated
<1> HIDE DEF read
<1>4. Truthful(stream', accepted)
  BY <1>1, <1>2, <1>3, DropKeeps
<1>5. Truthful(stream, accepted)'
  BY <1>4 DEF ReadReply, Truthful, Reply
<1>6. s[1] \in Paths /\ 0 \notin Paths
  BY HopFacts DEF Paths
<1>7. r \in Reply(accepted) /\ r.type = "ok" => r.secret \in {0} \cup {p \in Paths : p \in accepted[p]}
  BY DEF Reply, Code
<1> HIDE DEF r
<1>8. Authentic' /\ DOMAIN outcome' = Paths
  <2>1. DOMAIN outcome = Paths /\ Authentic /\ accepted' = accepted
    BY DEF ReadReply, OnionInv, OnionType
  <2>2. CASE /\ stream[s].bwd # <<>> /\ r.type = "ok" /\ r.secret = s[1]
             /\ outcome' = [outcome EXCEPT ![s[1]] = "ok"]
    <3>1. s[1] \in accepted[s[1]]
      BY <1>2, <1>6, <1>7, <2>2
    <3> QED BY <1>6, <2>1, <2>2, <3>1 DEF Authentic
  <2>3. CASE \E x \in {"auth", "closed"} \cup Code : outcome' = [outcome EXCEPT ![s[1]] = x]
    BY <2>1, <2>3 DEF Authentic, Code
  <2> QED BY <1>3, <2>2, <2>3
<1>9. OnionType'
  BY <1>8, RoutesKept DEF ReadReply, OnionInv, OnionType
<1> QED BY <1>5, <1>8, <1>9, RoutesKept DEF ReadReply, OnionInv

LEMMA ContinueStep ==
    ASSUME OnionInv, NEW n \in Node, NEW s \in Sid, Continue(n, s)
    PROVE  OnionInv'
<1> DEFINE swept == [r \in DOMAIN router[n] |-> IF router[n][r] = "live" THEN "live" ELSE "closed"]
           live == {r \in DOMAIN router[n] : router[n][r] = "live"}
           written == [stream EXCEPT ![s].fwd = Append(@, Packet(s))]
<1>1. OnionType /\ Bounded(router) /\ Truthful(stream, accepted)
  BY DEF OnionInv
<1>2. Truthful(written, accepted)
  BY <1>1, ForwardKeeps
<1>3. \/ router' = router /\ error' = error /\ stream' = DropA(DropB(stream, Prev(s)), s)
      \/ /\ router' = [router EXCEPT ![n] = With(swept, Prev(s), "live")] /\ error' = error
         /\ ~Occupied(n, Cardinality(live)) /\ stream' = written
      \/ /\ router' = [router EXCEPT ![n] = swept]
         /\ \/ error' = error /\ stream' = DropA(DropB(written, Prev(s)), s)
            \/ /\ error' = [error EXCEPT ![n] = With(@, Prev(s), "occupied")]
               /\ stream' = DropA(written, s)
  BY DEF Continue
<1> HIDE DEF written
<1>4. Truthful(stream', accepted)
  <2>1. Truthful(DropA(DropB(stream, Prev(s)), s), accepted)
    BY <1>1, DropKeeps
  <2>2. Truthful(DropA(DropB(written, Prev(s)), s), accepted)
    BY <1>2, DropKeeps
  <2>3. Truthful(DropA(written, s), accepted)
    BY <1>2, DropKeeps
  <2> QED BY <1>2, <1>3, <2>1, <2>2, <2>3
<1>5. Truthful(stream, accepted)'
  BY <1>4 DEF Continue, Truthful, Reply
<1>6. DOMAIN error' = Node /\ \A m \in Node : error'[m] \in [DOMAIN error'[m] -> Code]
  <2>1. CASE error' = [error EXCEPT ![n] = With(@, Prev(s), "occupied")]
    <3> DEFINE new == [error EXCEPT ![n] = With(@, Prev(s), "occupied")]
    <3>1. DOMAIN new = Node /\ \A m \in Node : new[m] \in [DOMAIN new[m] -> Code]
      <4>1. "occupied" \in Code
        BY DEF Code
      <4> QED BY <1>1, <4>1, ErrorChange
    <3> HIDE DEF new
    <3> QED BY <2>1, <3>1 DEF new
  <2>2. CASE error' = error
    BY <1>1, <2>2 DEF OnionType
  <2> QED BY <1>3, <2>1, <2>2
<1>7. /\ Bounded(router)' /\ DOMAIN router' = Node
      /\ \A m \in Node : /\ IsFiniteSet(DOMAIN router'[m])
                         /\ DOMAIN router'[m] \subseteq Paths \X (0 .. 2)
  <2>1. config' = config
    BY DEF Continue
  <2>2. CASE router' = router
    BY <2>1, <2>2, RoutesKept
  <2>3. CASE /\ router' = [router EXCEPT ![n] = With(swept, Prev(s), "live")]
             /\ ~Occupied(n, Cardinality(live))
    <3>1. Prev(s) \in Paths \X (0 .. 2)
      BY HopFacts
    <3>2. Cardinality(live) <= config.max_streams
      <4>1. IsFiniteSet(live)
        BY <1>1, FS_Subset, live \subseteq DOMAIN router[n] DEF OnionType
      <4>2. Cardinality(live) \in Nat
        BY <4>1, FS_CardinalityType
      <4>3. Len(want[n]) \in Nat
        BY <1>1, LenProperties DEF OnionType
      <4>4. config.max_streams \in Nat
        BY <1>1, OnionAssumption DEF OnionType
      <4> HIDE DEF live
      <4>5. Cardinality(live) + Len(want[n]) <= config.max_streams
        BY <2>3, <4>2, <4>3, <4>4, SMT DEF Occupied
      <4> QED BY <4>2, <4>3, <4>4, <4>5, SMT
    <3>3. /\ DOMAIN swept = DOMAIN router[n]
          /\ \A r \in DOMAIN swept : swept[r] = IF router[n][r] = "live" THEN "live" ELSE "closed"
      OBVIOUS
    <3> HIDE DEF swept
    <3> QED BY <1>1, <2>1, <2>3, <3>1, <3>2, <3>3, RouteAdmitted
  <2>4. CASE router' = [router EXCEPT ![n] = swept]
    <3>1. DOMAIN swept \subseteq DOMAIN router[n] /\ Valid(swept) \subseteq Valid(router[n])
      BY DEF Valid
    <3> HIDE DEF swept
    <3> QED BY <1>1, <2>1, <2>4, <3>1, FewerRoutes
  <2> QED BY <1>3, <2>2, <2>3, <2>4
<1>8. OnionType'
  BY <1>1, <1>6, <1>7 DEF Continue, OnionType
<1>9. Authentic'
  BY DEF Continue, OnionInv, Authentic
<1> QED BY <1>5, <1>7, <1>8, <1>9 DEF OnionInv

LEMMA CloseStreamStep ==
    ASSUME OnionInv, NEW n \in Node, NEW s \in Sid, CloseStream(n, s)
    PROVE  OnionInv'
<1> DEFINE reply == [type |-> error[n][s]]
           told == [stream EXCEPT ![s].bwd = Append(@, reply)]
           left == [r \in DOMAIN error[n] \ {s} |-> error[n][r]]
<1>1. OnionType /\ Truthful(stream, accepted)
  BY DEF OnionInv
<1>2. reply \in Reply(accepted)
  BY <1>1 DEF CloseStream, OnionType, Reply
<1>3. stream' = DropB(told, s) \/ stream' = DropB(stream, s)
  BY DEF CloseStream
<1> HIDE DEF reply
<1>4. Truthful(told, accepted)
  BY <1>1, <1>2, ReplyKeeps
<1> HIDE DEF told
<1>5. Truthful(stream', accepted)
  BY <1>1, <1>3, <1>4, DropKeeps
<1>6. Truthful(stream, accepted)'
  BY <1>5 DEF CloseStream, Truthful, Reply
<1>7. DOMAIN error' = Node /\ \A m \in Node : error'[m] \in [DOMAIN error'[m] -> Code]
  <2>1. error' = [error EXCEPT ![n] = left]
    BY DEF CloseStream
  <2>2. left \in [DOMAIN left -> Code]
    BY <1>1 DEF OnionType
  <2> HIDE DEF left
  <2> QED BY <1>1, <2>1, <2>2 DEF OnionType
<1>8. OnionType'
  BY <1>1, <1>7, RoutesKept DEF CloseStream, OnionType
<1>9. Authentic'
  BY DEF CloseStream, OnionInv, Authentic
<1> QED BY <1>6, <1>8, <1>9, RoutesKept DEF CloseStream, OnionInv

\* Only streams and the routes of one relay change.
LEMMA RoutesStep ==
    ASSUME OnionInv, NEW n \in Node, NEW rt, DOMAIN rt \subseteq DOMAIN router[n],
           Valid(rt) \subseteq Valid(router[n]), router' = [router EXCEPT ![n] = rt],
           Truthful(stream', accepted), UNCHANGED <<config, want, sent, error, outcome, accepted>>
    PROVE  OnionInv'
<1>1. /\ Bounded(router)' /\ DOMAIN router' = Node
      /\ \A m \in Node : /\ IsFiniteSet(DOMAIN router'[m])
                         /\ DOMAIN router'[m] \subseteq Paths \X (0 .. 2)
  BY FewerRoutes DEF OnionInv
<1>2. Truthful(stream, accepted)'
  BY DEF Truthful, Reply
<1>3. Authentic' /\ OnionType'
  BY <1>1 DEF OnionInv, Authentic, OnionType
<1> QED BY <1>1, <1>2, <1>3 DEF OnionInv

LEMMA ForwardStep ==
    ASSUME OnionInv, NEW n \in Node, NEW s \in Sid, Forward(n, s) \/ Backward(n, s)
    PROVE  OnionInv'
<1> DEFINE rt == [router[n] EXCEPT ![s] = "live"]
<1>1. OnionType /\ Truthful(stream, accepted)
  BY DEF OnionInv
<1>2. s \in DOMAIN router[n] /\ router[n][s] # "closed"
  BY DEF Forward, Backward
<1>3. After(s) \in Sid /\ After(s) # s
  <2>1. s \in Paths \X (0 .. 2)
    BY <1>1, <1>2 DEF OnionType
  <2>2. s[2] \in 1 .. 3
    BY HopFacts
  <2>3. After(s)[2] = s[2] + 1
    BY DEF After
  <2>4. After(s)[2] # s[2]
    BY <2>2, <2>3, SMT
  <2> QED BY <2>1, <2>4, HopFacts
<1>4. Truthful(stream', accepted)
  <2>1. CASE Forward(n, s)
    <3> DEFINE taken == [stream EXCEPT ![s].fwd = Rest(@)]
    <3>1. Truthful(taken, accepted)
      BY <1>1, ForwardKeeps
    <3>2. stream' = [taken EXCEPT ![After(s)].fwd = Append(@, Head(stream[s].fwd))]
      BY <1>3, <2>1 DEF Forward
    <3> HIDE DEF taken
    <3> QED BY <1>3, <3>1, <3>2, ForwardKeeps
  <2>2. CASE Backward(n, s)
    <3> DEFINE taken == [stream EXCEPT ![After(s)].bwd = Tail(@)]
               item == Head(stream[After(s)].bwd)
    <3>1. Truthful(taken, accepted) /\ item \in Reply(accepted)
      BY <1>1, <1>3, <2>2, TailKeeps DEF Backward
    <3>2. stream' = [taken EXCEPT ![s].bwd = Append(@, item)]
      BY <1>3, <2>2 DEF Backward
    <3> HIDE DEF taken, item
    <3> QED BY <3>1, <3>2, ReplyKeeps
  <2> QED BY <2>1, <2>2
<1>5. DOMAIN rt \subseteq DOMAIN router[n] /\ Valid(rt) \subseteq Valid(router[n])
  BY <1>2 DEF Valid
<1>6. router' = [router EXCEPT ![n] = rt]
  BY <1>1 DEF Forward, Backward, OnionType
<1>7. UNCHANGED <<config, want, sent, error, outcome, accepted>>
  BY DEF Forward, Backward, Others
<1> HIDE DEF rt
<1> QED BY <1>4, <1>5, <1>6, <1>7, RoutesStep

LEMMA RouteEndsStep ==
    ASSUME OnionInv, NEW n \in Node, NEW s \in Sid, RouteEnds(n, s)
    PROVE  OnionInv'
<1> DEFINE rt == [r \in DOMAIN router[n] \ {s} |-> router[n][r]]
<1>1. OnionType /\ Truthful(stream, accepted)
  BY DEF OnionInv
<1>2. Truthful(stream', accepted)
  <2>1. Truthful(DropA(stream, After(s)), accepted)
    BY <1>1, DropKeeps
  <2>2. stream' = DropB(DropA(stream, After(s)), s)
    BY DEF RouteEnds, DropRoute
  <2> QED BY <2>1, <2>2, DropKeeps
<1>3. DOMAIN rt \subseteq DOMAIN router[n] /\ Valid(rt) \subseteq Valid(router[n])
  BY DEF Valid
<1>4. router' = [router EXCEPT ![n] = rt] /\ UNCHANGED <<config, want, sent, error, outcome, accepted>>
  BY <1>1 DEF RouteEnds, OnionType, Others
<1> HIDE DEF rt
<1> QED BY <1>2, <1>3, <1>4, RoutesStep

LEMMA IdleStep ==
    ASSUME OnionInv, NEW n \in Node, NEW s \in Sid, Idle(n, s)
    PROVE  OnionInv'
<1> DEFINE rt == [router[n] EXCEPT ![s] = "idle"]
<1>1. OnionType /\ Truthful(stream, accepted)
  BY DEF OnionInv
<1>2. DOMAIN rt \subseteq DOMAIN router[n] /\ Valid(rt) \subseteq Valid(router[n])
  BY DEF Idle, Valid
<1>3. router' = [router EXCEPT ![n] = rt] /\ UNCHANGED <<config, want, sent, stream, error, outcome, accepted>>
  BY <1>1 DEF Idle, OnionType
<1> HIDE DEF rt
<1> QED BY <1>1, <1>2, <1>3, RoutesStep

LEMMA WriteStep ==
    ASSUME OnionInv, NEW p \in Paths, Write(p)
    PROVE  OnionInv'
<1>1. OnionType /\ Truthful(stream, accepted) /\ <<p, 1>> \in Sid /\ <<p, 3>> \in Sid
  BY DEF OnionInv, Sid, Hop
<1>2. sent[p].fwd \in Nat /\ sent[p].bwd \in Nat
  BY <1>1 DEF OnionType
<1>3. Data(p, "bwd") \in Reply(accepted)
  BY <1>2 DEF Data, Reply
<1>4. Truthful(stream', accepted)
  <2>1. \/ stream' = [stream EXCEPT ![<<p, 1>>].fwd = Append(@, Data(p, "fwd"))]
        \/ stream' = [stream EXCEPT ![<<p, 3>>].bwd = Append(@, Data(p, "bwd"))]
    BY DEF Write
  <2>2. Truthful([stream EXCEPT ![<<p, 1>>].fwd = Append(@, Data(p, "fwd"))], accepted)
    BY <1>1, ForwardKeeps
  <2>3. Truthful([stream EXCEPT ![<<p, 3>>].bwd = Append(@, Data(p, "bwd"))], accepted)
    BY <1>1, <1>3, ReplyKeeps
  <2> QED BY <2>1, <2>2, <2>3
<1>5. Truthful(stream, accepted)'
  BY <1>4 DEF Write, Others, Truthful, Reply
<1>6. sent' \in [Paths -> [fwd : Nat, bwd : Nat]]
  <2>1. sent \in [Paths -> [fwd : Nat, bwd : Nat]]
    BY <1>1 DEF OnionType
  <2>2. \/ sent' = [sent EXCEPT ![p] = [sent[p] EXCEPT !.fwd = @ + 1]]
        \/ sent' = [sent EXCEPT ![p] = [sent[p] EXCEPT !.bwd = @ + 1]]
    BY <2>1 DEF Write
  <2>3. /\ [sent[p] EXCEPT !.fwd = @ + 1] \in [fwd : Nat, bwd : Nat]
        /\ [sent[p] EXCEPT !.bwd = @ + 1] \in [fwd : Nat, bwd : Nat]
    BY <2>1, <1>2, SMT
  <2> QED BY <2>1, <2>2, <2>3
<1>7. UNCHANGED <<config, want, error, router, outcome, accepted>>
  BY DEF Write, Others
<1>8. OnionType' /\ Authentic'
  BY <1>1, <1>6, <1>7 DEF OnionInv, OnionType, Authentic
<1> QED BY <1>5, <1>7, <1>8, RoutesKept DEF OnionInv

LEMMA EndsStep ==
    ASSUME OnionInv, NEW p \in Paths, Read(p) \/ ClientDone(p) \/ ServerDone(p)
    PROVE  OnionInv'
<1>1. Truthful(stream, accepted) /\ <<p, 1>> \in Sid /\ <<p, 3>> \in Sid
  BY DEF OnionInv, Sid, Hop
<1>2. Truthful(stream', accepted)
  <2>1. CASE Read(p)
    <3>1. \/ stream' = [stream EXCEPT ![<<p, 3>>].fwd = Tail(@)]
          \/ stream[<<p, 1>>].bwd # <<>> /\ stream' = [stream EXCEPT ![<<p, 1>>].bwd = Tail(@)]
      BY <2>1 DEF Read
    <3>2. Truthful([stream EXCEPT ![<<p, 3>>].fwd = Tail(@)], accepted)
      BY <1>1, ForwardKeeps
    <3>3. stream[<<p, 1>>].bwd # <<>> => Truthful([stream EXCEPT ![<<p, 1>>].bwd = Tail(@)], accepted)
      BY <1>1, TailKeeps
    <3> QED BY <3>1, <3>2, <3>3
  <2>2. CASE ClientDone(p) \/ ServerDone(p)
    BY <1>1, <2>2, DropKeeps DEF ClientDone, ServerDone
  <2> QED BY <2>1, <2>2
<1>3. UNCHANGED <<config, want, sent, error, router, outcome, accepted>>
  BY DEF Read, ClientDone, ServerDone, Others
<1> QED BY <1>2, <1>3, StreamsStep

LEMMA ConnectionLostStep ==
    ASSUME OnionInv, NEW s \in Sid, ConnectionLost(s)
    PROVE  OnionInv'
<1>1. Truthful(stream, accepted)
  BY DEF OnionInv
<1>2. Truthful(stream', accepted)
  <2> DEFINE one == [stream EXCEPT ![s]["broken"] = TRUE]
             two == [one EXCEPT ![s]["fwd"] = <<>>]
             three == [two EXCEPT ![s]["bwd"] = <<>>]
  <2>1. Truthful(one, accepted)
    BY <1>1, SetField, "broken" # "bwd"
  <2>2. Truthful(two, accepted)
    <3> HIDE DEF one
    <3> QED BY <2>1, SetField, "fwd" # "bwd"
  <2>3. Truthful(three, accepted)
    <3> HIDE DEF two
    <3> QED BY <2>2, SetField, EmptySeq
  <2>4. stream' = three
    BY <1>1 DEF ConnectionLost, Truthful
  <2> QED BY <2>3, <2>4
<1>3. UNCHANGED <<config, want, sent, error, router, outcome, accepted>>
  BY DEF ConnectionLost
<1> QED BY <1>2, <1>3, StreamsStep

LEMMA OnionStep == OnionInv /\ [Next]_vars => OnionInv'
<1> SUFFICES ASSUME OnionInv, [Next]_vars PROVE OnionInv'
  OBVIOUS
<1>1. ASSUME NEW n \in Node, NEW s \in Sid, Poll(n, s) \/ Relay(n, s) PROVE OnionInv'
  BY <1>1, ReadPacketStep, ReadPacketFailsStep, WriteRequestStep, ReadReplyStep, ContinueStep,
     CloseStreamStep, RouteEndsStep, ForwardStep DEF Poll, Relay
<1>2. CASE System
  BY <1>1, <1>2, StreamReadyStep, EndsStep DEF System
<1>3. ASSUME UNCHANGED vars \/ \E n \in Node, t \in Servers : Strand(n, t)
      PROVE  OnionInv'
  <2>1. UNCHANGED <<config, want, sent, stream, error, router, outcome, accepted>>
    BY <1>3 DEF vars, Strand
  <2> QED BY <2>1, StreamsStep DEF OnionInv
<1> QED BY <1>2, <1>3, OpenPathStep, StreamReadyStep, StreamFailedStep, IdleStep, WriteStep, EndsStep,
           ConnectionLostStep DEF Next

\* The invariant of paths, for every set of servers, routes and configs.
THEOREM OnionInvariant == Spec => []OnionInv
BY OnionInvInit, OnionStep, PTL DEF Spec

\* A client that is told its path is open shares its secret with the recipient of that
\* path (Behaviour::open_path, packet::peel, the tag of upgrade_outbound_low).
THEOREM PathsAreAuthentic == Spec => []Authentic
BY OnionInvariant, PTL DEF OnionInv

\* A relay forwards at most one circuit more than max_streams (Behaviour::poll_outbound).
THEOREM RelaysAreBounded == Spec => []RoutesBounded
<1>1. OnionInv => RoutesBounded
  <2> SUFFICES ASSUME OnionInv, NEW n \in Node
               PROVE  Cardinality({s \in DOMAIN router[n] : router[n][s] = "live"})
                        <= config.max_streams + 1
    BY DEF RoutesBounded
  <2> DEFINE live == {s \in DOMAIN router[n] : router[n][s] = "live"}
  <2>1. IsFiniteSet(DOMAIN router[n]) /\ config.max_streams \in Nat
    BY OnionAssumption DEF OnionInv, OnionType
  <2>2. live \subseteq Valid(router[n]) /\ IsFiniteSet(Valid(router[n]))
    BY <2>1, FS_Subset, Valid(router[n]) \subseteq DOMAIN router[n] DEF Valid
  <2>3. /\ Cardinality(live) <= Cardinality(Valid(router[n]))
        /\ Cardinality(live) \in Nat /\ Cardinality(Valid(router[n])) \in Nat
    BY <2>2, FS_Subset, FS_CardinalityType
  <2>4. Cardinality(Valid(router[n])) <= config.max_streams + 1
    BY DEF OnionInv, Bounded
  <2> QED BY <2>1, <2>3, <2>4, SMT
<1> QED BY <1>1, OnionInvariant, PTL

-----------------------------------------------------------------------------
(***************************************************************************)
(* What the two ends of a path read.  Delivered speaks of data only, and   *)
(* is far from inductive: that data stays in order depends on what is not  *)
(* there while a path is being opened.  CircuitInv follows a whole path:   *)
(* its packet is in one place and nothing of the path is ahead of it       *)
(* (Tip, Setup), a relay that refused a path forwards nothing of it        *)
(* (Answers), and from the recipient's answer on the streams between two   *)
(* nodes that still hold together have the data without a gap (Down, Up).  *)
(* It is stated of a view of the path, a record of its hops; what a step   *)
(* does to a view is proved first, then that every action does this to the *)
(* view of one path and nothing to the others.                             *)
(***************************************************************************)
\* The hops of path p in a set of streams, and what path p has of a function of streams
HopsOf(X, p) == {h \in Hop : <<p, h>> \in X}
RowOf(f, p) == [h \in Hop |-> f[<<p, h>>]]

\* The streams that a node waits for, has to write to or to read from, reads its packet
\* from, forwards and refuses
Wants == {s \in Sid : \E n \in Node : s \in Range(want[n])}
Writes == {s \in Sid : \E n \in Node : [sid |-> s, step |-> "write"] \in outbound[n]}
Awaits == {s \in Sid : \E n \in Node : [sid |-> s, step |-> "read"] \in outbound[n]}
Reads == {s \in Sid : \E n \in Node : s \in inbound[n]}
Links == {s \in Sid : \E n \in Node : s \in DOMAIN router[n]}
Refusals == {s \in Sid : \E n \in Node : s \in DOMAIN error[n]}

\* Streams still held by the node they lead to, streams that lost their connection, and
\* what is in them
Held(st) == {s \in Sid : st[s].b}
Lost(st) == {s \in Sid : st[s].broken}
Fwd(st) == [s \in Sid |-> st[s].fwd]
Bwd(st) == [s \in Sid |-> st[s].bwd]

\* One path as its circuit sees it: where its hops are, its streams, and its ends
View(p) ==
    [want |-> HopsOf(Wants, p), write |-> HopsOf(Writes, p),
     reply |-> HopsOf(Awaits, p), read |-> HopsOf(Reads, p),
     link |-> HopsOf(Links, p), refused |-> HopsOf(Refusals, p),
     held |-> HopsOf(Held(stream), p), lost |-> HopsOf(Lost(stream), p),
     fwd |-> RowOf(Fwd(stream), p), bwd |-> RowOf(Bwd(stream), p),
     outcome |-> outcome[p], accepted |-> accepted[p],
     down |-> got[p].fwd, up |-> got[p].bwd, sent |-> sent[p].fwd, back |-> sent[p].bwd]

\* What streams carry: packets, answers and data
Parcel == [type : {"outer", "middle"}, to : Servers] \cup [type : {"inner"}]
          \cup [type : {"ok"}, secret : {0} \cup Paths] \cup [type : Code]
          \cup [type : {"data"}, path : Paths, dir : {"fwd", "bwd"}, n : Nat]

ViewType(v) ==
    /\ v.want \subseteq Hop /\ v.write \subseteq Hop /\ v.reply \subseteq Hop /\ v.read \subseteq Hop
    /\ v.link \subseteq Hop /\ v.refused \subseteq Hop /\ v.held \subseteq Hop /\ v.lost \subseteq Hop
    /\ v.fwd \in [Hop -> Seq(Parcel)] /\ v.bwd \in [Hop -> Seq(Parcel)]
    /\ v.down \in Seq(Parcel) /\ v.up \in Seq(Parcel) /\ v.sent \in Nat /\ v.back \in Nat

\* The relay at the end of hop h has not yet passed the packet on: it waits for it, for
\* the next stream, or to write it there.
Undecided(v, h) == h \in v.read \/ h + 1 \in v.want \/ h + 1 \in v.write

\* Nothing that came back from hop h can have reached the client.
Silent1(v) == v.bwd[1] = <<>> /\ v.outcome # "ok"
Silent2(v) == v.bwd[2] = <<>> /\ (1 \in v.link => Silent1(v))
Silent3(v) == v.bwd[3] = <<>> /\ (2 \in v.link => Silent2(v))

\* The packet of a circuit is in one place, and nothing of the circuit is ahead of it.
Tip(v) ==
    /\ v.outcome = "none" =>
         /\ v.want = {} /\ v.write = {} /\ v.reply = {} /\ v.read = {}
         /\ v.link = {} /\ v.refused = {} /\ v.accepted = {}
    /\ 1 \in v.want \/ 1 \in v.write \/ 1 \in v.reply => v.outcome = "pending"
    /\ 1 \in v.reply => 1 \notin v.want /\ 1 \notin v.write
    /\ \A g, h \in v.want \cup v.write \cup v.read : g = h
    /\ v.want \cap (v.write \cup v.read) = {}
    /\ v.write \cap v.held \subseteq v.read
    /\ \A h \in 0 .. 3 : Undecided(v, h) =>
         v.accepted = {} /\ \A j \in Hop : j >= h => j \notin v.link /\ j \notin v.refused

\* A relay that refused the circuit, or may still do so, is not one that forwards.
Answers(v) ==
    /\ v.link \cup v.refused \subseteq {1, 2}
    /\ v.link \cap v.refused = {}
    /\ 1 \in v.refused \/ Undecided(v, 1) => Silent1(v)
    /\ 2 \in v.refused \/ Undecided(v, 2) => Silent2(v)
    /\ 3 \in v.read => Silent3(v)

PacketType == <<"outer", "middle", "inner">>

\* Before the recipient answers nothing but the packets of the circuit goes forward.
Setup(v) ==
    v.accepted = {} =>
      /\ v.down = <<>> /\ v.sent = 0 /\ v.back = 0
      /\ \A h \in Hop : v.fwd[h] # <<>> =>
           h \in v.read /\ h \notin v.write /\ Len(v.fwd[h]) = 1 /\ v.fwd[h][1].type = PacketType[h]

\* The data after the first k of a path, in one direction
Numbered(seq, k, p, dir) ==
    \A i \in 1 .. Len(seq) : seq[i] = [type |-> "data", path |-> p, dir |-> dir, n |-> k + i]

\* Then only data does, and the streams that relays still join have it without a gap.
Down(v, p) ==
    LET d == Len(v.down)
        d3 == d + Len(v.fwd[3])
        d2 == d3 + Len(v.fwd[2])
    IN v.accepted # {} =>
         /\ Numbered(v.fwd[3], d, p, "fwd")
         /\ 2 \in v.link /\ 3 \notin v.lost => Numbered(v.fwd[2], d3, p, "fwd")
         /\ 1 \in v.link /\ 2 \in v.link /\ 2 \notin v.lost /\ 3 \notin v.lost =>
              /\ Numbered(v.fwd[1], d2, p, "fwd")
              /\ 1 \notin v.lost => v.sent = d2 + Len(v.fwd[1])

\* The same for what comes back, where the answer is the first of all.
Replies(seq, k, p) ==
    \A i \in 1 .. Len(seq) : k + i > 1 =>
        seq[i] = [type |-> "data", path |-> p, dir |-> "bwd", n |-> k + i - 1]

Up(v, p) ==
    LET u == IF v.outcome = "ok" THEN 1 + Len(v.up) ELSE 0
        u1 == u + Len(v.bwd[1])
        u2 == u1 + Len(v.bwd[2])
    IN v.outcome \in {"none", "pending", "ok"} =>
         /\ Replies(v.bwd[1], u, p)
         /\ 1 \in v.link /\ 1 \notin v.lost => Replies(v.bwd[2], u1, p)
         /\ 1 \in v.link /\ 2 \in v.link /\ 1 \notin v.lost /\ 2 \notin v.lost =>
              /\ Replies(v.bwd[3], u2, p)
              /\ 3 \notin v.lost =>
                   u2 + Len(v.bwd[3]) = IF v.accepted = {} THEN 0 ELSE 1 + v.back

\* What the ends have read
Received(v, p) ==
    /\ Numbered(v.down, 0, p, "fwd") /\ Numbered(v.up, 0, p, "bwd")
    /\ v.outcome # "ok" => v.up = <<>>
    /\ v.outcome = "ok" => v.accepted # {}

Circuit(v, p) == ViewType(v) /\ Tip(v) /\ Answers(v) /\ Setup(v) /\ Down(v, p) /\ Up(v, p) /\ Received(v, p)

Circuits == \A p \in Paths : Circuit(View(p), p)

\* The streams of open paths that node n opens and those that lead to it
Dials(n) == {s \in Sid : outcome[s[1]] # "none" /\ n = From(s)}
Serves(n) == {s \in Sid : outcome[s[1]] # "none" /\ n = To(s)}

\* Everything is at the node where it belongs, and only there.
Located ==
    \A n \in Node :
      /\ Range(want[n]) \subseteq Dials(n) /\ IsInjective(want[n])
      /\ outbound[n] \subseteq [sid : Dials(n), step : {"write"} \cup (IF n = Client THEN {"read"} ELSE {})]
      /\ inbound[n] \subseteq Serves(n)
      /\ DOMAIN router[n] \subseteq Serves(n) /\ DOMAIN error[n] \subseteq Serves(n)

Routed == \A p \in Paths : outcome[p] # "none" => route[p] \in Routes

Streams == [Sid -> [fwd : Seq(Parcel), bwd : Seq(Parcel), a : BOOLEAN, b : BOOLEAN, broken : BOOLEAN]]

Wired == /\ stream \in Streams
         /\ got \in [Paths -> [fwd : Seq(Parcel), bwd : Seq(Parcel)]]
         /\ sent \in [Paths -> [fwd : Nat, bwd : Nat]]
         /\ want \in [Node -> Seq(Sid)]
         /\ DOMAIN route = Paths /\ DOMAIN outcome = Paths /\ DOMAIN accepted = Paths
         /\ DOMAIN inbound = Node /\ DOMAIN outbound = Node
         /\ DOMAIN router = Node /\ DOMAIN error = Node
         /\ \A n \in Node : error[n] \in [DOMAIN error[n] -> Code]

CircuitInv == Wired /\ Located /\ Routed /\ Circuits

-----------------------------------------------------------------------------
\* A sequence loses its first element or gains a last one.
LEMMA QueueFacts ==
    ASSUME NEW S, NEW q \in Seq(S)
    PROVE  /\ Len(q) \in Nat
           /\ q = <<>> <=> Len(q) = 0
           /\ q # <<>> => /\ Tail(q) \in Seq(S) /\ Head(q) \in S /\ Head(q) = q[1]
                          /\ Len(Tail(q)) = Len(q) - 1
                          /\ \A i \in 1 .. Len(q) - 1 : Tail(q)[i] = q[i + 1]
           /\ \A x \in S : /\ Append(q, x) \in Seq(S) /\ Len(Append(q, x)) = Len(q) + 1
                           /\ \A i \in 1 .. Len(q) : Append(q, x)[i] = q[i]
                           /\ Append(q, x)[Len(q) + 1] = x
BY SMT

\* Data stays numbered when the first is taken out or the next is added.
LEMMA NumberedMoves ==
    ASSUME NEW q \in Seq(Parcel), NEW k \in Nat, NEW p, NEW dir, Numbered(q, k, p, dir)
    PROVE  /\ q # <<>> => /\ Numbered(Tail(q), k + 1, p, dir)
                          /\ Head(q) = [type |-> "data", path |-> p, dir |-> dir, n |-> k + 1]
           /\ \A x \in Parcel : x = [type |-> "data", path |-> p, dir |-> dir, n |-> k + Len(q) + 1]
                => Numbered(Append(q, x), k, p, dir)
<1> DEFINE D(n) == [type |-> "data", path |-> p, dir |-> dir, n |-> n]
<1>1. \A i \in 1 .. Len(q) : q[i] = D(k + i)
  BY DEF Numbered
<1>2. \A r : Numbered(r, k, p, dir) <=> \A i \in 1 .. Len(r) : r[i] = D(k + i)
  BY DEF Numbered
<1>3. \A r : Numbered(r, k + 1, p, dir) <=> \A i \in 1 .. Len(r) : r[i] = D(k + 1 + i)
  BY DEF Numbered
<1> HIDE DEF D
<1>4. ASSUME q # <<>>
      PROVE  Numbered(Tail(q), k + 1, p, dir) /\ Head(q) = D(k + 1)
  <2>1. ASSUME NEW i \in 1 .. Len(Tail(q)) PROVE Tail(q)[i] = D(k + 1 + i)
    <3>1. i + 1 \in 1 .. Len(q) /\ Tail(q)[i] = q[i + 1] /\ k + (i + 1) = k + 1 + i
      BY <1>4, QueueFacts
    <3> QED BY <1>1, <3>1
  <2>2. 1 \in 1 .. Len(q) /\ Head(q) = q[1]
    BY <1>4, QueueFacts
  <2> QED BY <1>1, <1>3, <2>1, <2>2
<1>5. ASSUME NEW x \in Parcel, x = D(k + Len(q) + 1)
      PROVE  Numbered(Append(q, x), k, p, dir)
  <2>1. ASSUME NEW i \in 1 .. Len(Append(q, x)) PROVE Append(q, x)[i] = D(k + i)
    <3>1. /\ i \in 1 .. Len(q) \/ i = Len(q) + 1
          /\ k + (Len(q) + 1) = k + Len(q) + 1
      BY QueueFacts
    <3>2. CASE i \in 1 .. Len(q)
      BY <1>1, <3>2, QueueFacts
    <3>3. CASE i = Len(q) + 1
      BY <1>5, <3>1, <3>3, QueueFacts
    <3> QED BY <3>1, <3>2, <3>3
  <2> QED BY <1>2, <2>1
<1> QED BY <1>4, <1>5 DEF D

LEMMA RepliesMove ==
    ASSUME NEW q \in Seq(Parcel), NEW k \in Nat, NEW p, Replies(q, k, p)
    PROVE  /\ q # <<>> =>
                /\ Replies(Tail(q), k + 1, p)
                /\ k > 0 => Head(q) = [type |-> "data", path |-> p, dir |-> "bwd", n |-> k]
           /\ \A x \in Parcel :
                (k + Len(q) > 0 => x = [type |-> "data", path |-> p, dir |-> "bwd", n |-> k + Len(q)])
                  => Replies(Append(q, x), k, p)
<1> DEFINE D(n) == [type |-> "data", path |-> p, dir |-> "bwd", n |-> n]
<1>1. \A i \in 1 .. Len(q) : k + i > 1 => q[i] = D(k + i - 1)
  BY DEF Replies
<1>2. \A r : Replies(r, k, p) <=> \A i \in 1 .. Len(r) : k + i > 1 => r[i] = D(k + i - 1)
  BY DEF Replies
<1>3. \A r : Replies(r, k + 1, p) <=> \A i \in 1 .. Len(r) : k + 1 + i > 1 => r[i] = D(k + 1 + i - 1)
  BY DEF Replies
<1> HIDE DEF D
<1>4. ASSUME q # <<>>
      PROVE  Replies(Tail(q), k + 1, p) /\ (k > 0 => Head(q) = D(k))
  <2>1. ASSUME NEW i \in 1 .. Len(Tail(q)), k + 1 + i > 1
        PROVE  Tail(q)[i] = D(k + 1 + i - 1)
    <3>1. /\ i + 1 \in 1 .. Len(q) /\ Tail(q)[i] = q[i + 1]
          /\ k + (i + 1) - 1 = k + 1 + i - 1 /\ k + (i + 1) > 1
      BY <1>4, QueueFacts
    <3> QED BY <1>1, <3>1
  <2>2. 1 \in 1 .. Len(q) /\ Head(q) = q[1] /\ k + 1 - 1 = k /\ (k > 0 => k + 1 > 1)
    BY <1>4, QueueFacts
  <2>3. k > 0 => Head(q) = D(k)
    BY <1>1, <2>2
  <2> QED BY <1>3, <2>1, <2>3
<1>5. ASSUME NEW x \in Parcel, k + Len(q) > 0 => x = D(k + Len(q))
      PROVE  Replies(Append(q, x), k, p)
  <2>1. ASSUME NEW i \in 1 .. Len(Append(q, x)), k + i > 1
        PROVE  Append(q, x)[i] = D(k + i - 1)
    <3>1. i \in 1 .. Len(q) \/ i = Len(q) + 1
      BY QueueFacts
    <3>2. CASE i \in 1 .. Len(q)
      BY <1>1, <2>1, <3>2, QueueFacts
    <3>3. CASE i = Len(q) + 1
      <4>1. k + i - 1 = k + Len(q) /\ k + Len(q) > 0
        BY <2>1, <3>3, QueueFacts
      <4> QED BY <1>5, <3>3, <4>1, QueueFacts
    <3> QED BY <3>1, <3>2, <3>3
  <2> QED BY <1>2, <2>1
<1> QED BY <1>4, <1>5 DEF D

LEMMA NoneNumbered ==
    ASSUME NEW k \in Nat, NEW p, NEW dir
    PROVE  Numbered(<<>>, k, p, dir) /\ Replies(<<>>, k, p)
BY DEF Numbered, Replies

-----------------------------------------------------------------------------
\* What an action leaves alone, and what it changes of the streams
Changed(new, old, h, x) == \A g \in Hop : new[g] = IF g = h THEN x ELSE old[g]
SameEnds(v, w) == /\ w.down = v.down /\ w.up = v.up /\ w.sent = v.sent /\ w.back = v.back
SamePlaces(v, w) == /\ w.want = v.want /\ w.write = v.write /\ w.reply = v.reply /\ w.read = v.read
                    /\ w.link = v.link /\ w.refused = v.refused

\* Requests, routes, refusals and ends of streams may go, and the client may give up.
LEMMA ViewLess ==
    ASSUME NEW v, NEW w, NEW p, Circuit(v, p), ViewType(w),
           w.want \subseteq v.want, w.write \subseteq v.write, w.reply \subseteq v.reply,
           w.link \subseteq v.link, w.refused \subseteq v.refused, w.held \subseteq v.held,
           w.read = v.read, w.lost = v.lost, w.fwd = v.fwd, w.bwd = v.bwd,
           w.accepted = v.accepted, SameEnds(v, w),
           \/ w.outcome = v.outcome
           \/ /\ v.outcome = "pending" /\ w.outcome \in Failure
              /\ 1 \notin w.want /\ 1 \notin w.write /\ 1 \notin w.reply
    PROVE  Circuit(w, p)
<1> USE DEF SameEnds, Changed
<1>2. Tip(w)
  BY DEF Circuit, ViewType, Tip, Undecided, Failure, Hop
<1>3. Answers(w)
  BY DEF Circuit, ViewType, Answers, Undecided, Silent1, Silent2, Silent3, Failure
<1>4. Setup(w)
  BY DEF Circuit, ViewType, Setup
<1>5. Down(w, p)
  BY DEF Circuit, ViewType, Down
<1>6. Up(w, p)
  BY DEF Circuit, ViewType, Up, Failure
<1>7. Received(w, p)
  BY DEF Circuit, ViewType, Received, Failure
<1> QED BY <1>2, <1>3, <1>4, <1>5, <1>6, <1>7 DEF Circuit

\* The path is opened.
LEMMA ViewOpened ==
    ASSUME NEW v, NEW w, NEW p, Circuit(v, p), ViewType(w), v.outcome = "none", w.outcome = "pending",
           w.want = v.want \cup {1}, w.write = v.write, w.reply = v.reply, w.read = v.read,
           w.link = v.link, w.refused = v.refused, w.held = v.held, w.lost = v.lost,
           w.fwd = v.fwd, w.bwd = v.bwd, w.accepted = v.accepted, SameEnds(v, w)
    PROVE  Circuit(w, p)
<1> USE DEF SameEnds, Changed
<1>2. Tip(w)
  BY DEF Circuit, ViewType, Tip, Undecided, Hop
<1>3. Answers(w)
  BY DEF Circuit, ViewType, Tip, Answers, Undecided
<1>4. Setup(w)
  BY DEF Circuit, ViewType, Setup
<1>5. Down(w, p)
  BY DEF Circuit, ViewType, Down
<1>6. Up(w, p)
  BY DEF Circuit, ViewType, Up, Tip
<1>7. Received(w, p)
  BY DEF Circuit, ViewType, Received
<1> QED BY <1>2, <1>3, <1>4, <1>5, <1>6, <1>7 DEF Circuit

\* A stream for hop h is there.
LEMMA ViewReady ==
    ASSUME NEW v, NEW w, NEW p, Circuit(v, p), ViewType(w), NEW h \in v.want, w.outcome = v.outcome,
           w.want = v.want \ {h}, w.write = v.write \cup {h}, w.reply = v.reply,
           w.read = v.read \cup {h}, w.link = v.link, w.refused = v.refused,
           w.held = v.held \cup {h}, w.lost = v.lost \ {h},
           Changed(w.fwd, v.fwd, h, <<>>), Changed(w.bwd, v.bwd, h, <<>>),
           w.accepted = v.accepted, SameEnds(v, w)
    PROVE  Circuit(w, p)
<1> USE DEF SameEnds, Changed
<1>h. h \in 1 .. 3 /\ Undecided(v, h - 1)
  BY DEF Circuit, ViewType, Hop, Undecided
<1>e. /\ v.accepted = {} /\ \A j \in Hop : j >= h - 1 => j \notin v.link /\ j \notin v.refused
      /\ v.want = {h} /\ v.write = {} /\ v.read = {} /\ v.outcome # "none"
  <2>1. h - 1 \in 0 .. 3 /\ Tip(v)
    BY <1>h DEF Circuit
  <2>2. v.accepted = {} /\ \A j \in Hop : j >= h - 1 => j \notin v.link /\ j \notin v.refused
    BY <1>h, <2>1 DEF Tip
  <2>3. /\ \A g, k \in v.want \cup v.write \cup v.read : g = k
        /\ v.want \cap (v.write \cup v.read) = {} /\ v.outcome # "none"
    BY <2>1 DEF Tip
  <2>4. v.want = {h} /\ v.write = {} /\ v.read = {}
    BY <2>3
  <2> QED BY <2>2, <2>3, <2>4
<1>2. Tip(w)
  <2>1. \A g \in 0 .. 3 : Undecided(w, g) => g \in {h - 1, h}
    BY <1>h, <1>e DEF Undecided
  <2>2. \A g \in 0 .. 3 : Undecided(w, g) =>
          w.accepted = {} /\ \A j \in Hop : j >= g => j \notin w.link /\ j \notin w.refused
    BY <1>h, <1>e, <2>1 DEF Hop
  <2> QED BY <1>e, <2>2 DEF Circuit, ViewType, Tip
<1>b. /\ \A g \in Hop : w.bwd[g] = IF g = h THEN <<>> ELSE v.bwd[g]
      /\ 1 \in Hop /\ 2 \in Hop /\ 3 \in Hop
  BY DEF Hop
<1>3. Answers(w)
  <2>1. CASE h = 1
    BY <1>e, <1>b, <2>1 DEF Circuit, Tip, Answers, Undecided, Silent1, Silent2, Silent3
  <2>2. CASE h = 2
    BY <1>e, <1>b, <2>2 DEF Circuit, Tip, Answers, Undecided, Silent1, Silent2, Silent3
  <2>3. CASE h = 3
    BY <1>e, <1>b, <2>3 DEF Circuit, Tip, Answers, Undecided, Silent1, Silent2, Silent3
  <2> QED BY <1>h, <2>1, <2>2, <2>3
<1>4. Setup(w)
  BY <1>h DEF Circuit, ViewType, Setup, Tip, Hop
<1>5. Down(w, p)
  BY <1>h DEF Circuit, ViewType, Tip, Down, Hop
<1>6. Up(w, p)
  <2>1. CASE h = 1
    <3>1. 1 \notin w.link /\ w.outcome = "pending" /\ w.bwd[1] = <<>>
      BY <1>e, <1>b, <2>1 DEF Circuit, Tip
    <3>2. Replies(w.bwd[1], 0, p)
      BY <3>1, NoneNumbered
    <3> QED BY <3>1, <3>2 DEF Up
  <2>2. CASE h = 2
    <3>1. 1 \notin w.link /\ w.bwd[1] = v.bwd[1]
      BY <1>e, <1>b, <2>2
    <3> QED BY <3>1 DEF Circuit, Up
  <2>3. CASE h = 3
    <3>1. 2 \notin w.link /\ w.bwd[1] = v.bwd[1] /\ w.bwd[2] = v.bwd[2] /\ (1 \in w.lost <=> 1 \in v.lost)
      BY <1>e, <1>b, <2>3
    <3> QED BY <3>1 DEF Circuit, Up
  <2> QED BY <1>h, <2>1, <2>2, <2>3
<1>7. Received(w, p)
  BY DEF Circuit, ViewType, Received
<1> QED BY <1>2, <1>3, <1>4, <1>5, <1>6, <1>7 DEF Circuit

\* There will be no stream for hop h + 1: the relay refuses the circuit.
LEMMA ViewMissing ==
    ASSUME NEW v, NEW w, NEW p, Circuit(v, p), ViewType(w), NEW h \in {1, 2}, h + 1 \in v.want,
           w.outcome = v.outcome,
           w.want = v.want \ {h + 1}, w.write = v.write, w.reply = v.reply, w.read = v.read,
           w.link = v.link, w.refused = v.refused \cup {h}, w.held = v.held, w.lost = v.lost,
           w.fwd = v.fwd, w.bwd = v.bwd, w.accepted = v.accepted, SameEnds(v, w)
    PROVE  Circuit(w, p)
<1> USE DEF SameEnds, Changed
<1>h. Undecided(v, h)
  BY DEF Undecided
<1>2. Tip(w)
  BY <1>h DEF Circuit, ViewType, Tip, Undecided, Hop
<1>3. Answers(w)
  BY <1>h DEF Circuit, ViewType, Tip, Answers, Undecided, Silent1, Silent2, Silent3, Hop
<1>4. Setup(w)
  BY DEF Circuit, ViewType, Setup
<1>5. Down(w, p)
  BY DEF Circuit, ViewType, Down
<1>6. Up(w, p)
  BY DEF Circuit, ViewType, Up
<1>7. Received(w, p)
  BY DEF Circuit, ViewType, Received
<1> QED BY <1>2, <1>3, <1>4, <1>5, <1>6, <1>7 DEF Circuit

\* The node that hop h leads to gives it up before or with the packet.
LEMMA ViewReadFails ==
    ASSUME NEW v, NEW w, NEW p, Circuit(v, p), ViewType(w), NEW h \in v.read, w.outcome = v.outcome,
           w.want = v.want, w.write = v.write, w.reply = v.reply, w.read = v.read \ {h},
           w.link = v.link, w.refused = v.refused, w.held = v.held \ {h}, w.lost = v.lost,
           Changed(w.fwd, v.fwd, h, <<>>), w.bwd = v.bwd,
           w.accepted = v.accepted, SameEnds(v, w)
    PROVE  Circuit(w, p)
<1> USE DEF SameEnds, Changed
<1>h. h \in 1 .. 3 /\ Undecided(v, h)
  BY DEF Circuit, ViewType, Hop, Undecided
<1>2. Tip(w)
  BY <1>h DEF Circuit, ViewType, Tip, Undecided, Hop
<1>3. Answers(w)
  BY <1>h DEF Circuit, ViewType, Tip, Answers, Undecided, Silent1, Silent2, Silent3, Hop
<1>4. Setup(w)
  BY <1>h DEF Circuit, ViewType, Setup, Tip, Hop
<1>5. Down(w, p)
  BY <1>h DEF Circuit, ViewType, Tip, Down, Hop
<1>6. Up(w, p)
  BY <1>h DEF Circuit, ViewType, Up, Hop
<1>7. Received(w, p)
  BY DEF Circuit, ViewType, Received
<1> QED BY <1>2, <1>3, <1>4, <1>5, <1>6, <1>7 DEF Circuit

\* A relay reads its packet and asks for the next stream.
LEMMA ViewRelays ==
    ASSUME NEW v, NEW w, NEW p, Circuit(v, p), ViewType(w), NEW h \in v.read, h # 3, v.fwd[h] # <<>>,
           w.outcome = v.outcome,
           w.want = v.want \cup {h + 1}, w.write = v.write, w.reply = v.reply, w.read = v.read \ {h},
           w.link = v.link, w.refused = v.refused, w.held = v.held, w.lost = v.lost,
           Changed(w.fwd, v.fwd, h, <<>>), w.bwd = v.bwd,
           w.accepted = v.accepted, SameEnds(v, w)
    PROVE  Circuit(w, p)
<1> USE DEF SameEnds, Changed
<1>h. h \in 1 .. 2 /\ Undecided(v, h)
  BY DEF Circuit, ViewType, Hop, Undecided
<1>w. /\ v.accepted = {} /\ \A j \in Hop : j >= h => j \notin v.link /\ j \notin v.refused
      /\ v.want = {} /\ v.write = {} /\ v.read = {h} /\ v.outcome # "none"
  <2>1. h \notin v.write /\ v.accepted = {}
    BY <1>h DEF Circuit, Setup, Tip, Hop
  <2> QED BY <1>h, <2>1 DEF Circuit, ViewType, Tip, Hop
<1>2. Tip(w)
  <2>1. \A g \in 0 .. 3 : Undecided(w, g) => g = h
    BY <1>h, <1>w DEF Undecided
  <2>2. w.want = {h + 1} /\ w.write = {} /\ w.read = {} /\ h + 1 # 1
    BY <1>h, <1>w
  <2> QED BY <1>w, <2>1, <2>2 DEF Circuit, Tip
<1>3. Answers(w)
  <2>1. 3 \notin w.read /\ \A g \in {1, 2} : Undecided(w, g) => Undecided(v, g)
    BY <1>h, <1>w DEF Undecided
  <2> QED BY <2>1 DEF Circuit, Answers, Silent1, Silent2
<1>4. Setup(w)
  BY <1>h DEF Circuit, ViewType, Setup, Tip, Hop
<1>5. Down(w, p)
  BY <1>h, <1>w DEF Circuit, ViewType, Down, Hop
<1>6. Up(w, p)
  BY <1>h DEF Circuit, ViewType, Up, Hop
<1>7. Received(w, p)
  BY DEF Circuit, ViewType, Received
<1> QED BY <1>2, <1>3, <1>4, <1>5, <1>6, <1>7 DEF Circuit

\* The recipient reads its packet and answers.
LEMMA ViewAccepts ==
    ASSUME NEW v, NEW w, NEW p, Circuit(v, p), ViewType(w), 3 \in v.read, v.fwd[3] # <<>>,
           w.outcome = v.outcome, NEW x \in Parcel, NEW y,
           w.want = v.want, w.write = v.write, w.reply = v.reply, w.read = v.read \ {3},
           w.link = v.link, w.refused = v.refused, w.held = v.held, w.lost = v.lost,
           Changed(w.fwd, v.fwd, 3, <<>>), Changed(w.bwd, v.bwd, 3, Append(v.bwd[3], x)),
           w.accepted = v.accepted \cup {y}, SameEnds(v, w)
    PROVE  Circuit(w, p)
<1> USE DEF SameEnds, Changed
<1>h. Undecided(v, 3) /\ v.accepted = {} /\ 3 \notin v.write /\ 3 \notin v.want /\ v.bwd[3] = <<>>
  BY DEF Circuit, Setup, Tip, Hop, Undecided, Answers, Silent3
<1>q. v.want = {} /\ v.write = {} /\ w.read = {} /\ v.outcome # "none"
  BY <1>h DEF Circuit, ViewType, Tip, Hop
<1>b. v.bwd[3] \in Seq(Parcel)
  BY DEF Circuit, ViewType, Hop
<1>2. Tip(w)
  BY <1>h, <1>q DEF Circuit, ViewType, Tip, Undecided, Hop
<1>3. Answers(w)
  <2>1. /\ ~Undecided(w, 1) /\ ~Undecided(w, 2) /\ 3 \notin w.read
        /\ w.bwd[1] = v.bwd[1] /\ w.bwd[2] = v.bwd[2]
    BY <1>q DEF Undecided, Hop
  <2> QED BY <2>1 DEF Circuit, Answers, Silent1, Silent2
<1>4. Setup(w)
  BY DEF Setup
<1>5. Down(w, p)
  <2>1. w.fwd[1] = <<>> /\ w.fwd[2] = <<>> /\ w.fwd[3] = <<>> /\ w.down = <<>> /\ w.sent = 0
    BY <1>h DEF Circuit, ViewType, Setup, Tip, Hop
  <2>2. Numbered(<<>>, 0, p, "fwd")
    BY NoneNumbered
  <2>3. /\ Len(w.down) = 0 /\ Len(w.down) + Len(w.fwd[3]) = 0
        /\ Len(w.down) + Len(w.fwd[3]) + Len(w.fwd[2]) = 0
        /\ Len(w.down) + Len(w.fwd[3]) + Len(w.fwd[2]) + Len(w.fwd[1]) = 0
    BY <2>1
  <2> QED BY <2>1, <2>2, <2>3 DEF Down
<1>6. Up(w, p)
  <2>1. w.bwd[1] = v.bwd[1] /\ w.bwd[2] = v.bwd[2] /\ w.bwd[3] = Append(v.bwd[3], x)
        /\ Len(w.bwd[3]) = 1 /\ Len(v.bwd[3]) = 0 /\ w.back = 0
    <3>1. w.bwd[1] = v.bwd[1] /\ w.bwd[2] = v.bwd[2] /\ w.bwd[3] = Append(v.bwd[3], x)
      BY DEF Hop
    <3>2. Len(v.bwd[3]) = 0 /\ Len(Append(v.bwd[3], x)) = Len(v.bwd[3]) + 1
      BY <1>h, <1>b, QueueFacts
    <3>3. w.back = 0
      BY <1>h DEF Circuit, Setup
    <3> QED BY <3>1, <3>2, <3>3
  <2>2. 1 \in v.link /\ 2 \in v.link =>
          v.bwd[1] = <<>> /\ v.bwd[2] = <<>> /\ v.outcome # "ok"
    BY DEF Circuit, Answers, Silent3, Silent2, Silent1
  <2>3. Replies(w.bwd[3], 0, p)
    BY <2>1 DEF Replies
  <2>4. CASE 1 \in v.link /\ 2 \in v.link
    <3>1. Len(w.bwd[1]) = 0 /\ Len(w.bwd[2]) = 0 /\ w.outcome # "ok" /\ w.accepted # {}
      BY <2>1, <2>2, <2>4
    <3>2. Replies(<<>>, 0, p) /\ w.bwd[1] = <<>> /\ w.bwd[2] = <<>>
      BY <2>1, <2>2, <2>4, NoneNumbered
    <3>3. /\ 0 + Len(w.bwd[1]) = 0 /\ 0 + Len(w.bwd[1]) + Len(w.bwd[2]) = 0
          /\ 0 + Len(w.bwd[1]) + Len(w.bwd[2]) + Len(w.bwd[3]) = 1 + w.back
      BY <2>1, <3>1
    <3> QED BY <2>3, <3>1, <3>2, <3>3 DEF Up
  <2>5. CASE ~(1 \in v.link /\ 2 \in v.link)
    BY <2>1, <2>5 DEF Circuit, Up
  <2> QED BY <2>4, <2>5
<1>7. Received(w, p)
  BY <1>h DEF Circuit, ViewType, Received
<1> QED BY <1>2, <1>3, <1>4, <1>5, <1>6, <1>7 DEF Circuit

\* The packet goes out on hop h.  A relay then admits the circuit, refuses it or drops it.
Passed(v, w, h, x, asks, joins, refuses) ==
    /\ h \in v.write /\ h \in v.held /\ x \in Parcel /\ x.type = PacketType[h] /\ w.outcome = v.outcome
    /\ asks = {} \/ (asks = {1} /\ h = 1)
    /\ joins \cup refuses \subseteq {h - 1} \cap {1, 2} /\ joins \cap refuses = {}
    /\ w.want = v.want /\ w.write = v.write \ {h} /\ w.reply = v.reply \cup asks /\ w.read = v.read
    /\ w.link = v.link \cup joins /\ w.refused = v.refused \cup refuses
    /\ w.held \subseteq v.held /\ w.lost = v.lost
    /\ Changed(w.fwd, v.fwd, h, Append(v.fwd[h], x)) /\ w.bwd = v.bwd
    /\ w.accepted = v.accepted /\ SameEnds(v, w)

LEMMA ViewPassed ==
    ASSUME NEW v, NEW w, NEW p, Circuit(v, p), ViewType(w), NEW h, NEW x, NEW asks, NEW joins, NEW refuses,
           Passed(v, w, h, x, asks, joins, refuses)
    PROVE  Circuit(w, p)
<1> USE DEF SameEnds, Changed, Passed
<1>h. h \in 1 .. 3 /\ Undecided(v, h - 1) /\ Undecided(v, h) /\ h \in v.read /\ v.fwd[h] = <<>>
  <2>1. h \in 1 .. 3 /\ h - 1 + 1 = h /\ h \in Hop /\ h \in v.write
    BY DEF Circuit, ViewType, Hop
  <2>2. h \in v.read
    BY DEF Circuit, Tip
  <2>3. Undecided(v, h - 1) /\ Undecided(v, h)
    BY <2>1, <2>2 DEF Undecided
  <2>4. v.accepted = {}
    BY <2>1, <2>3 DEF Circuit, Tip
  <2>5. v.fwd[h] = <<>>
    BY <2>1, <2>4 DEF Circuit, Setup
  <2> QED BY <2>1, <2>2, <2>3, <2>5
<1>e. /\ v.accepted = {} /\ \A j \in Hop : j >= h - 1 => j \notin v.link /\ j \notin v.refused
      /\ v.want = {} /\ v.write = {h} /\ v.read = {h} /\ v.outcome # "none"
  <2>1. h - 1 \in 0 .. 3 /\ Tip(v)
    BY <1>h DEF Circuit
  <2>2. v.accepted = {} /\ \A j \in Hop : j >= h - 1 => j \notin v.link /\ j \notin v.refused
    BY <1>h, <2>1 DEF Tip
  <2>3. /\ \A g, k \in v.want \cup v.write \cup v.read : g = k
        /\ v.want \cap (v.write \cup v.read) = {} /\ v.outcome # "none"
    BY <1>h, <2>1 DEF Tip
  <2>4. v.want = {} /\ v.write = {h} /\ v.read = {h}
    BY <1>h, <2>3
  <2> QED BY <2>2, <2>3, <2>4
<1>2. Tip(w)
  <2>1. \A g \in 0 .. 3 : Undecided(w, g) => g = h
    BY <1>h, <1>e DEF Undecided
  <2>2. \A j \in Hop : j >= h => j \notin w.link /\ j \notin w.refused
    <3>1. \A j \in Hop : j >= h => j >= h - 1 /\ j # h - 1
      BY <1>h DEF Hop
    <3> QED BY <1>e, <3>1
  <2>3. h = 1 => v.outcome = "pending"
    BY <1>e DEF Circuit, Tip
  <2> QED BY <1>e, <2>1, <2>2, <2>3 DEF Circuit, ViewType, Tip
<1>3. Answers(w)
  <2>1. CASE h = 1
    BY <1>h, <1>e, <2>1 DEF Circuit, Answers, Undecided, Silent1, Silent2
  <2>2. CASE h = 2
    BY <1>h, <1>e, <2>2 DEF Circuit, Answers, Undecided, Silent1, Silent2, Hop
  <2>3. CASE h = 3
    BY <1>h, <1>e, <2>3 DEF Circuit, Answers, Undecided, Silent1, Silent2, Silent3, Hop
  <2> QED BY <1>h, <2>1, <2>2, <2>3
<1>4. Setup(w)
  <2>1. v.fwd[h] \in Seq(Parcel) /\ h \in Hop
    BY <1>h DEF Circuit, ViewType, Hop
  <2>2. Len(w.fwd[h]) = 1 /\ w.fwd[h][1] = x
    <3>1. w.fwd[h] = Append(v.fwd[h], x) /\ Len(v.fwd[h]) = 0
      BY <1>h, <2>1, QueueFacts
    <3>2. Len(Append(v.fwd[h], x)) = Len(v.fwd[h]) + 1 /\ Append(v.fwd[h], x)[Len(v.fwd[h]) + 1] = x
      BY <2>1, QueueFacts
    <3> QED BY <3>1, <3>2
  <2> QED BY <1>h, <1>e, <2>2 DEF Circuit, Setup
<1>5. Down(w, p)
  BY <1>e DEF Down
<1>6. Up(w, p)
  <2>1. v.bwd[h] = <<>>
    BY <1>h DEF Circuit, Answers, Silent1, Silent2, Silent3
  <2>2. CASE joins = {}
    BY <2>2 DEF Circuit, Up
  <2>3. CASE joins = {h - 1} /\ h = 2
    <3>1. 2 \notin w.link /\ w.bwd[2] = <<>> /\ v.outcome # "ok" /\ v.bwd[1] = <<>>
      BY <1>h, <1>e, <2>1, <2>3 DEF Circuit, Answers, Silent1, Hop
    <3>2. Replies(<<>>, 0, p) /\ 0 + Len(w.bwd[1]) = 0
      BY <3>1, NoneNumbered
    <3> QED BY <3>1, <3>2 DEF Up
  <2>4. CASE joins = {h - 1} /\ h = 3
    <3>1. /\ w.bwd[3] = <<>> /\ w.bwd[2] = <<>> /\ w.accepted = {}
          /\ 1 \in v.link => v.bwd[1] = <<>> /\ v.outcome # "ok"
      BY <1>h, <1>e, <2>1, <2>4 DEF Circuit, Answers, Silent2, Silent1, Hop
    <3>2. 1 \in v.link <=> 1 \in w.link
      BY <2>4
    <3>3. CASE 1 \in v.link
      <4>1. Len(w.bwd[1]) = 0 /\ Len(w.bwd[2]) = 0 /\ Len(w.bwd[3]) = 0 /\ w.bwd[1] = <<>>
        BY <3>1, <3>3
      <4>2. Replies(<<>>, 0, p) /\ 0 + Len(w.bwd[1]) = 0 /\ 0 + Len(w.bwd[1]) + Len(w.bwd[2]) = 0
            /\ 0 + Len(w.bwd[1]) + Len(w.bwd[2]) + Len(w.bwd[3]) = 0
        BY <4>1, NoneNumbered
      <4> QED BY <3>1, <3>3, <4>1, <4>2 DEF Up
    <3>4. CASE 1 \notin v.link
      BY <3>2, <3>4 DEF Circuit, Up
    <3> QED BY <3>3, <3>4
  <2> QED BY <1>h, <2>2, <2>3, <2>4
<1>7. Received(w, p)
  BY DEF Circuit, ViewType, Received
<1> QED BY <1>2, <1>3, <1>4, <1>5, <1>6, <1>7 DEF Circuit

\* The client reads the answer: the path is open, or has failed.
LEMMA ViewAnswered ==
    ASSUME NEW v, NEW w, NEW p, Circuit(v, p), ViewType(w), 1 \in v.reply, v.bwd[1] # <<>>,
           w.outcome \in {"ok"} \cup Failure, w.outcome = "ok" => w.accepted # {},
           w.want = v.want, w.write = v.write, w.reply = v.reply \ {1}, w.read = v.read,
           w.link = v.link, w.refused = v.refused, w.held = v.held, w.lost = v.lost,
           w.fwd = v.fwd, Changed(w.bwd, v.bwd, 1, Tail(v.bwd[1])),
           w.accepted = v.accepted, SameEnds(v, w)
    PROVE  Circuit(w, p)
<1> USE DEF SameEnds, Changed
<1>b. /\ w.bwd[1] = Tail(v.bwd[1]) /\ w.bwd[2] = v.bwd[2] /\ w.bwd[3] = v.bwd[3]
      /\ v.bwd[1] \in Seq(Parcel) /\ v.bwd[2] \in Seq(Parcel) /\ v.bwd[3] \in Seq(Parcel)
  BY DEF Circuit, ViewType, Hop
<1>p. v.outcome = "pending" /\ v.up = <<>>
  BY DEF Circuit, Tip, Received
<1>2. Tip(w)
  BY <1>p DEF Circuit, Tip, Undecided, Failure
<1>3. Answers(w)
  <2>1. 1 \notin v.refused /\ ~Undecided(v, 1)
    BY DEF Circuit, Answers, Silent1
  <2>2. 2 \in v.refused \/ Undecided(v, 2) => v.bwd[2] = <<>> /\ 1 \notin v.link
    BY DEF Circuit, Answers, Silent1, Silent2
  <2>3. 3 \in v.read => v.bwd[3] = <<>> /\ (2 \in v.link => v.bwd[2] = <<>> /\ 1 \notin v.link)
    BY DEF Circuit, Answers, Silent1, Silent2, Silent3
  <2> QED BY <1>b, <2>1, <2>2, <2>3 DEF Circuit, Answers, Undecided, Silent1, Silent2, Silent3
<1>4. Setup(w)
  BY DEF Circuit, Setup
<1>5. Down(w, p)
  BY DEF Circuit, Down
<1>6. Up(w, p)
  <2>1. CASE w.outcome = "ok"
    <3> DEFINE a == Len(v.bwd[1])  b == Len(v.bwd[2])  c == Len(v.bwd[3])
    <3>1. a \in Nat /\ b \in Nat /\ c \in Nat /\ Len(w.bwd[1]) = a - 1 /\ Len(w.up) = 0
      BY <1>b, <1>p, QueueFacts
    <3>2. Replies(w.bwd[1], 1, p)
      <4>1. Replies(v.bwd[1], 0, p)
        BY <1>p DEF Circuit, Up
      <4>2. Replies(Tail(v.bwd[1]), 0 + 1, p)
        BY <1>b, <4>1, RepliesMove
      <4> QED BY <1>b, <4>2
    <3>3. /\ 1 \in v.link /\ 1 \notin v.lost => Replies(v.bwd[2], 0 + a, p)
          /\ 1 \in v.link /\ 2 \in v.link /\ 1 \notin v.lost /\ 2 \notin v.lost =>
               /\ Replies(v.bwd[3], 0 + a + b, p)
               /\ 3 \notin v.lost => 0 + a + b + c = IF v.accepted = {} THEN 0 ELSE 1 + v.back
      BY <1>p DEF Circuit, Up
    <3>4. /\ 1 + Len(w.up) = 1 /\ 1 + Len(w.up) + Len(w.bwd[1]) = 0 + a
          /\ 1 + Len(w.up) + Len(w.bwd[1]) + b = 0 + a + b
          /\ 1 + Len(w.up) + Len(w.bwd[1]) + b + c = 0 + a + b + c
      BY <3>1
    <3> QED BY <1>b, <2>1, <3>2, <3>3, <3>4 DEF Up
  <2>2. CASE w.outcome # "ok"
    BY <2>2 DEF Up, Failure
  <2> QED BY <2>1, <2>2
<1>7. Received(w, p)
  BY <1>p DEF Circuit, Received
<1> QED BY <1>2, <1>3, <1>4, <1>5, <1>6, <1>7 DEF Circuit

\* A relay tells that it refused the circuit.
LEMMA ViewClosed ==
    ASSUME NEW v, NEW w, NEW p, Circuit(v, p), ViewType(w), NEW h \in v.refused, NEW x \in Parcel,
           w.outcome = v.outcome,
           w.want = v.want, w.write = v.write, w.reply = v.reply, w.read = v.read,
           w.link = v.link, w.refused = v.refused \ {h}, w.held = v.held \ {h}, w.lost = v.lost,
           w.fwd = v.fwd, Changed(w.bwd, v.bwd, h, Append(v.bwd[h], x)),
           w.accepted = v.accepted, SameEnds(v, w)
    PROVE  Circuit(w, p)
<1> USE DEF SameEnds, Changed
<1>h. h \in {1, 2} /\ h \notin v.link /\ ~Undecided(v, h)
  BY DEF Circuit, Answers, Tip, Hop
<1>b. /\ \A g \in Hop : w.bwd[g] = IF g = h THEN Append(v.bwd[h], x) ELSE v.bwd[g]
      /\ 1 \in Hop /\ 2 \in Hop /\ 3 \in Hop /\ v.bwd[1] \in Seq(Parcel) /\ v.bwd[2] \in Seq(Parcel)
      /\ v.bwd[h] = <<>>
  BY <1>h DEF Circuit, ViewType, Hop, Answers, Silent1, Silent2
<1>2. Tip(w)
  BY DEF Circuit, ViewType, Tip, Undecided
<1>3. Answers(w)
  <2>1. CASE h = 1
    BY <1>h, <1>b, <2>1 DEF Circuit, Answers, Undecided, Silent1, Silent2, Silent3
  <2>2. CASE h = 2
    BY <1>h, <1>b, <2>2 DEF Circuit, Answers, Undecided, Silent1, Silent2, Silent3
  <2> QED BY <1>h, <2>1, <2>2
<1>4. Setup(w)
  BY DEF Circuit, Setup
<1>5. Down(w, p)
  BY DEF Circuit, Down
<1>6. Up(w, p)
  <2>1. CASE h = 1
    <3>1. w.bwd[1] = Append(v.bwd[1], x) /\ v.outcome # "ok" /\ 1 \notin w.link
      BY <1>h, <1>b, <2>1 DEF Circuit, Answers, Silent1
    <3>2. Len(v.bwd[1]) = 0
      BY <1>b, <2>1
    <3>3. v.outcome \in {"none", "pending"} => Replies(v.bwd[1], 0, p)
      BY DEF Circuit, Up
    <3>4. v.outcome \in {"none", "pending"} => Replies(w.bwd[1], 0, p)
      <4>1. ~(0 + Len(v.bwd[1]) > 0) /\ 0 \in Nat
        BY <3>2
      <4>2. ASSUME Replies(v.bwd[1], 0, p) PROVE Replies(Append(v.bwd[1], x), 0, p)
        <5> DEFINE q == v.bwd[1]
        <5>1. q \in Seq(Parcel) /\ ~(0 + Len(q) > 0) /\ Replies(q, 0, p)
          BY <1>b, <4>1, <4>2
        <5> HIDE DEF q
        <5>2. Replies(Append(q, x), 0, p)
          BY <4>1, <5>1, RepliesMove
        <5> QED BY <5>2 DEF q
      <4> QED BY <3>1, <3>3, <4>2
    <3> QED BY <3>1, <3>4 DEF Up
  <2>2. CASE h = 2
    <3>1. w.bwd[2] = Append(v.bwd[2], x) /\ w.bwd[1] = v.bwd[1] /\ 2 \notin w.link
      <4>1. w.bwd[h] = Append(v.bwd[h], x) /\ w.bwd[1] = v.bwd[1]
        BY <1>h, <1>b, <2>2
      <4> QED BY <1>h, <2>2, <4>1
    <3>2. 1 \in v.link => v.outcome # "ok" /\ v.bwd[1] = <<>> /\ v.bwd[2] = <<>>
      BY <2>2 DEF Circuit, Answers, Silent2, Silent1
    <3>3. 1 \in v.link => Replies(w.bwd[2], 0, p)
      <4>1. Replies(<<>>, 0, p) /\ <<>> \in Seq(Parcel) /\ Len(<<>>) = 0
        BY NoneNumbered, EmptySeq
      <4>2. Replies(Append(<<>>, x), 0, p)
        <5>1. ~(0 + Len(<<>>) > 0) /\ 0 \in Nat
          BY <4>1
        <5> QED BY <4>1, <5>1, RepliesMove
      <4> QED BY <3>1, <3>2, <4>2
    <3>4. 1 \in v.link => 0 + Len(w.bwd[1]) = 0
      BY <3>1, <3>2
    <3> QED BY <3>1, <3>2, <3>3, <3>4 DEF Circuit, Up
  <2> QED BY <1>h, <2>1, <2>2
<1>7. Received(w, p)
  BY DEF Circuit, Received
<1> QED BY <1>2, <1>3, <1>4, <1>5, <1>6, <1>7 DEF Circuit

\* One item goes from stream g to stream h.
Moves(new, old, g, h) ==
    \A j \in Hop : new[j] = IF j = g THEN Tail(old[g])
                            ELSE IF j = h THEN Append(old[h], Head(old[g]))
                            ELSE old[j]

\* A relay passes one item on, towards the recipient.
LEMMA ViewForwards ==
    ASSUME NEW v, NEW w, NEW p, Circuit(v, p), ViewType(w), NEW h \in {1, 2}, NEW j \in {2, 3}, j = h + 1,
           h \in v.link, v.fwd[h] # <<>>, j \notin v.lost, w.outcome = v.outcome, SamePlaces(v, w),
           w.held = v.held, w.lost = v.lost, w.bwd = v.bwd,
           Moves(w.fwd, v.fwd, h, j),
           w.accepted = v.accepted, SameEnds(v, w)
    PROVE  Circuit(w, p)
<1> USE DEF SameEnds, SamePlaces
<1>h. h \in {1, 2} /\ v.accepted # {}
  BY DEF Circuit, Answers, Setup, Tip, Undecided, Hop
<1>2. Tip(w)
  BY DEF Circuit, Tip, Undecided
<1>3. Answers(w)
  BY DEF Circuit, Answers, Undecided, Silent1, Silent2, Silent3
<1>4. Setup(w)
  BY <1>h DEF Setup
<1>6. Up(w, p)
  BY DEF Circuit, Up
<1>7. Received(w, p)
  BY DEF Circuit, Received
<1>5. Down(w, p)
  <2> DEFINE f1 == v.fwd[1]  f2 == v.fwd[2]  f3 == v.fwd[3]  d == Len(v.down)
             n1 == Len(f1)  n2 == Len(f2)  n3 == Len(f3)  d3 == d + n3  d2 == d3 + n2
             N(q, k) == Numbered(q, k, p, "fwd")
  <2>1. /\ f1 \in Seq(Parcel) /\ f2 \in Seq(Parcel) /\ f3 \in Seq(Parcel) /\ d \in Nat
        /\ n1 \in Nat /\ n2 \in Nat /\ n3 \in Nat
    <3>1. v.down \in Seq(Parcel) /\ f1 \in Seq(Parcel) /\ f2 \in Seq(Parcel) /\ f3 \in Seq(Parcel)
      BY DEF Circuit, ViewType, Hop
    <3> QED BY <3>1, QueueFacts
  <2>2. /\ N(f3, d)
        /\ 2 \in v.link /\ 3 \notin v.lost => N(f2, d3)
        /\ 1 \in v.link /\ 2 \in v.link /\ 2 \notin v.lost /\ 3 \notin v.lost =>
             /\ N(f1, d2)
             /\ 1 \notin v.lost => v.sent = d2 + n1
    BY <1>h DEF Circuit, Down
  <2>3. \A q \in Seq(Parcel) : \A k \in Nat : N(q, k) /\ q # <<>> =>
          /\ N(Tail(q), k + 1)
          /\ Head(q) = [type |-> "data", path |-> p, dir |-> "fwd", n |-> k + 1]
    BY NumberedMoves
  <2>4. \A q \in Seq(Parcel) : \A k \in Nat : \A x \in Parcel :
          N(q, k) /\ x = [type |-> "data", path |-> p, dir |-> "fwd", n |-> k + Len(q) + 1]
            => N(Append(q, x), k)
    BY NumberedMoves
  <2>7. Len(f1) = n1 /\ Len(f2) = n2 /\ Len(f3) = n3 /\ Len(w.down) = d
    OBVIOUS
  <2> HIDE DEF n1, n2, n3, d
  <2>8. d3 \in Nat /\ d2 \in Nat /\ d3 = d + n3 /\ d2 = d3 + n2
    BY <2>1
  <2> HIDE DEF d3, d2
  <2>5. CASE h = 1
    <3> DEFINE x == Head(f1)  t == Tail(f1)  a == Append(f2, x)
    <3>1. w.fwd[1] = t /\ w.fwd[2] = a /\ w.fwd[3] = f3 /\ f1 # <<>>
      BY <2>5 DEF Hop, Moves
    <3>2. x \in Parcel /\ Len(t) = n1 - 1 /\ Len(a) = n2 + 1
      BY <2>1, <2>7, <3>1, QueueFacts
    <3>3. d3 \in Nat /\ d2 \in Nat /\ d2 + 1 = d3 + Len(f2) + 1
      <4> HIDE DEF f2
      <4> QED BY <2>1, <2>7, <2>8
    <3>4. 1 \in v.link /\ 2 \in v.link /\ 2 \notin v.lost /\ 3 \notin v.lost => N(t, d2 + 1) /\ N(a, d3)
      <4> HIDE DEF N, f1, f2
      <4>1. ASSUME 1 \in v.link /\ 2 \in v.link /\ 2 \notin v.lost /\ 3 \notin v.lost
            PROVE  N(t, d2 + 1) /\ N(a, d3)
        <5>1. N(f1, d2) /\ N(f2, d3)
          BY <2>2, <4>1
        <5>2. N(t, d2 + 1) /\ x = [type |-> "data", path |-> p, dir |-> "fwd", n |-> d2 + 1]
          BY <2>1, <2>3, <3>1, <3>3, <5>1
        <5>3. N(a, d3)
          BY <2>1, <2>4, <3>2, <3>3, <5>1, <5>2
        <5> QED BY <5>2, <5>3
      <4> QED BY <4>1
    <3>5. /\ Len(w.down) + Len(w.fwd[3]) = d3
          /\ Len(w.down) + Len(w.fwd[3]) + Len(w.fwd[2]) = d2 + 1
          /\ Len(w.down) + Len(w.fwd[3]) + Len(w.fwd[2]) + Len(w.fwd[1]) = d2 + n1
      <4> DEFINE m1 == Len(w.fwd[1])  m2 == Len(w.fwd[2])  m3 == Len(w.fwd[3])  m == Len(w.down)
      <4>1. m1 = n1 - 1 /\ m2 = n2 + 1 /\ m3 = n3 /\ m = d
        BY <2>7, <3>1, <3>2
      <4> HIDE DEF m1, m2, m3, m
      <4>2. /\ d \in Nat /\ n1 \in Nat /\ n2 \in Nat /\ n3 \in Nat
            /\ d3 = d + n3 /\ d2 = d3 + n2
        BY <2>1, <2>8
      <4>3. m + m3 = d3 /\ m + m3 + m2 = d2 + 1 /\ m + m3 + m2 + m1 = d2 + n1
        BY <4>1, <4>2
      <4> QED BY <4>3 DEF m1, m2, m3, m
    <3>6. 1 \in v.link /\ 2 \notin v.lost
      BY <2>5
    <3> HIDE DEF t, a, f1, f2, f3
    <3> QED BY <2>2, <2>7, <3>1, <3>4, <3>5, <3>6 DEF Down
  <2>6. CASE h = 2
    <3> DEFINE x == Head(f2)  t == Tail(f2)  a == Append(f3, x)
    <3>1. w.fwd[1] = f1 /\ w.fwd[2] = t /\ w.fwd[3] = a /\ f2 # <<>>
      BY <2>6 DEF Hop, Moves
    <3>2. x \in Parcel /\ Len(t) = n2 - 1 /\ Len(a) = n3 + 1
      BY <2>1, <2>7, <3>1, QueueFacts
    <3>3. d3 \in Nat /\ d2 \in Nat /\ d3 + 1 = d + Len(f3) + 1 /\ 2 \in v.link /\ 3 \notin v.lost
      <4>1. 2 \in v.link /\ 3 \notin v.lost
        BY <2>6
      <4> HIDE DEF f3
      <4> QED BY <2>1, <2>7, <2>8, <4>1
    <3>4. N(t, d3 + 1) /\ N(a, d)
      <4> HIDE DEF N, f3, f2
      <4>1. N(f2, d3) /\ N(f3, d)
        BY <2>2, <3>3
      <4>2. N(t, d3 + 1) /\ x = [type |-> "data", path |-> p, dir |-> "fwd", n |-> d3 + 1]
        BY <2>1, <2>3, <3>1, <3>3, <4>1
      <4>3. N(a, d)
        BY <2>1, <2>4, <3>2, <3>3, <4>1, <4>2
      <4> QED BY <4>2, <4>3
    <3>5. /\ Len(w.down) = d
          /\ Len(w.down) + Len(w.fwd[3]) = d3 + 1
          /\ Len(w.down) + Len(w.fwd[3]) + Len(w.fwd[2]) = d2
          /\ Len(w.down) + Len(w.fwd[3]) + Len(w.fwd[2]) + Len(w.fwd[1]) = d2 + n1
      <4> DEFINE m1 == Len(w.fwd[1])  m2 == Len(w.fwd[2])  m3 == Len(w.fwd[3])  m == Len(w.down)
      <4>1. m1 = n1 /\ m2 = n2 - 1 /\ m3 = n3 + 1 /\ m = d
        BY <2>7, <3>1, <3>2
      <4> HIDE DEF m1, m2, m3, m
      <4>2. /\ d \in Nat /\ n1 \in Nat /\ n2 \in Nat /\ n3 \in Nat
            /\ d3 = d + n3 /\ d2 = d3 + n2
        BY <2>1, <2>8
      <4>3. m + m3 = d3 + 1
        BY <4>1, <4>2
      <4>4. m + m3 + m2 = d2
        BY <4>1, <4>2
      <4>5. m + m3 + m2 + m1 = d2 + n1
        BY <4>1, <4>2
      <4> QED BY <4>1, <4>3, <4>4, <4>5 DEF m1, m2, m3, m
    <3> HIDE DEF t, a, f1, f2, f3
    <3> QED BY <2>2, <2>7, <3>1, <3>4, <3>5 DEF Down
  <2> QED BY <1>h, <2>5, <2>6
<1> QED BY <1>2, <1>3, <1>4, <1>5, <1>6, <1>7 DEF Circuit

\* The same towards the client.
LEMMA ViewBackwards ==
    ASSUME NEW v, NEW w, NEW p, Circuit(v, p), ViewType(w), NEW h \in {1, 2}, NEW j \in {2, 3}, j = h + 1,
           h \in v.link, v.bwd[j] # <<>>, h \notin v.lost, w.outcome = v.outcome, SamePlaces(v, w),
           w.held = v.held, w.lost = v.lost, w.fwd = v.fwd,
           Moves(w.bwd, v.bwd, j, h),
           w.accepted = v.accepted, SameEnds(v, w)
    PROVE  Circuit(w, p)
<1> USE DEF SameEnds, SamePlaces
<1>h. h \in {1, 2} /\ h \notin v.refused /\ ~Undecided(v, h)
  BY DEF Circuit, Answers, Tip, Hop
<1>2. Tip(w)
  BY DEF Circuit, Tip, Undecided
<1>3. Answers(w)
  <2>1. \A g \in {1, 2} : Undecided(w, g) <=> Undecided(v, g)
    BY DEF Undecided
  <2>2. CASE h = 1
    <3>1. v.bwd[2] # <<>> /\ w.bwd[3] = v.bwd[3] /\ 1 \in v.link
      BY <2>2 DEF Hop, Moves
    <3>2. 2 \notin v.refused /\ ~Undecided(v, 2)
      BY <3>1 DEF Circuit, Answers, Silent2
    <3>3. 3 \in v.read => v.bwd[3] = <<>> /\ 2 \notin v.link
      BY <3>1 DEF Circuit, Answers, Silent3, Silent2
    <3> QED BY <1>h, <2>1, <2>2, <3>1, <3>2, <3>3 DEF Circuit, Answers, Silent3
  <2>3. CASE h = 2
    <3>1. v.bwd[3] # <<>> /\ w.bwd[1] = v.bwd[1] /\ 2 \in v.link
      BY <2>3 DEF Hop, Moves
    <3>2. 3 \notin v.read
      BY <3>1 DEF Circuit, Answers, Silent3
    <3> QED BY <1>h, <2>1, <2>3, <3>1, <3>2 DEF Circuit, Answers, Silent1
  <2> QED BY <1>h, <2>2, <2>3
<1>4. Setup(w)
  BY DEF Circuit, Setup
<1>5. Down(w, p)
  BY DEF Circuit, Down
<1>7. Received(w, p)
  BY DEF Circuit, Received
<1>6. Up(w, p)
  <2> DEFINE f1 == v.bwd[1]  f2 == v.bwd[2]  f3 == v.bwd[3]
             u == IF v.outcome = "ok" THEN 1 + Len(v.up) ELSE 0
             n1 == Len(f1)  n2 == Len(f2)  n3 == Len(f3)  u1 == u + n1  u2 == u1 + n2
             N(q, k) == Replies(q, k, p)
  <2> SUFFICES ASSUME v.outcome \in {"none", "pending", "ok"} PROVE Up(w, p)
    BY DEF Up
  <2>1. /\ f1 \in Seq(Parcel) /\ f2 \in Seq(Parcel) /\ f3 \in Seq(Parcel) /\ u \in Nat
        /\ n1 \in Nat /\ n2 \in Nat /\ n3 \in Nat
    <3>1. v.up \in Seq(Parcel) /\ f1 \in Seq(Parcel) /\ f2 \in Seq(Parcel) /\ f3 \in Seq(Parcel)
      BY DEF Circuit, ViewType, Hop
    <3>2. Len(v.up) \in Nat
      BY <3>1, QueueFacts
    <3> QED BY <3>1, <3>2, QueueFacts
  <2>2. /\ N(f1, u)
        /\ 1 \in v.link /\ 1 \notin v.lost => N(f2, u1)
        /\ 1 \in v.link /\ 2 \in v.link /\ 1 \notin v.lost /\ 2 \notin v.lost =>
             /\ N(f3, u2)
             /\ 3 \notin v.lost => u2 + n3 = IF v.accepted = {} THEN 0 ELSE 1 + v.back
    BY DEF Circuit, Up
  <2>3. \A q \in Seq(Parcel) : \A k \in Nat : N(q, k) /\ q # <<>> =>
          /\ N(Tail(q), k + 1)
          /\ k > 0 => Head(q) = [type |-> "data", path |-> p, dir |-> "bwd", n |-> k]
    BY RepliesMove
  <2>4. \A q \in Seq(Parcel) : \A k \in Nat : \A x \in Parcel :
          N(q, k) /\ (k + Len(q) > 0 => x = [type |-> "data", path |-> p, dir |-> "bwd", n |-> k + Len(q)])
            => N(Append(q, x), k)
    BY RepliesMove
  <2>7. /\ Len(f1) = n1 /\ Len(f2) = n2 /\ Len(f3) = n3
        /\ u = IF w.outcome = "ok" THEN 1 + Len(w.up) ELSE 0
    OBVIOUS
  <2> HIDE DEF n1, n2, n3, u
  <2>8. u1 \in Nat /\ u2 \in Nat /\ u1 = u + n1 /\ u2 = u1 + n2
    BY <2>1
  <2> HIDE DEF u1, u2
  <2>5. CASE h = 1
    <3> DEFINE x == Head(f2)  t == Tail(f2)  a == Append(f1, x)
    <3>1. w.bwd[1] = a /\ w.bwd[2] = t /\ w.bwd[3] = f3 /\ f2 # <<>>
      BY <2>5 DEF Hop, Moves
    <3>2. x \in Parcel /\ Len(t) = n2 - 1 /\ Len(a) = n1 + 1
      BY <2>1, <2>7, <3>1, QueueFacts
    <3>3. u1 = u + Len(f1) /\ 1 \in v.link /\ 1 \notin v.lost
      BY <2>5, <2>7, <2>8
    <3>4. N(t, u1 + 1) /\ N(a, u)
      <4> HIDE DEF N, f1, f2
      <4>1. N(f2, u1) /\ N(f1, u)
        BY <2>2, <3>3
      <4>2. N(t, u1 + 1) /\ (u1 > 0 => x = [type |-> "data", path |-> p, dir |-> "bwd", n |-> u1])
        BY <2>1, <2>3, <2>8, <3>1, <3>3, <4>1
      <4>3. N(a, u)
        BY <2>1, <2>4, <2>8, <3>2, <3>3, <4>1, <4>2
      <4> QED BY <4>2, <4>3
    <3>5. /\ u + Len(w.bwd[1]) = u1 + 1
          /\ u + Len(w.bwd[1]) + Len(w.bwd[2]) = u2
          /\ u + Len(w.bwd[1]) + Len(w.bwd[2]) + Len(w.bwd[3]) = u2 + n3
      <4> DEFINE m1 == Len(w.bwd[1])  m2 == Len(w.bwd[2])  m3 == Len(w.bwd[3])
      <4>1. m1 = n1 + 1 /\ m2 = n2 - 1 /\ m3 = n3
        BY <2>7, <3>1, <3>2
      <4> HIDE DEF m1, m2, m3
      <4>2. /\ u \in Nat /\ n1 \in Nat /\ n2 \in Nat /\ n3 \in Nat
            /\ u1 = u + n1 /\ u2 = u1 + n2
        BY <2>1, <2>8
      <4>3. u + m1 = u1 + 1 /\ u + m1 + m2 = u2 /\ u + m1 + m2 + m3 = u2 + n3
        BY <4>1, <4>2
      <4> QED BY <4>3 DEF m1, m2, m3
    <3> HIDE DEF t, a, f1, f2, f3
    <3> QED BY <2>2, <2>7, <3>1, <3>4, <3>5 DEF Up
  <2>6. CASE h = 2
    <3> DEFINE x == Head(f3)  t == Tail(f3)  a == Append(f2, x)
    <3>1. w.bwd[1] = f1 /\ w.bwd[2] = a /\ w.bwd[3] = t /\ f3 # <<>>
      BY <2>6 DEF Hop, Moves
    <3>2. x \in Parcel /\ Len(t) = n3 - 1 /\ Len(a) = n2 + 1
      BY <2>1, <2>7, <3>1, QueueFacts
    <3>3. u2 = u1 + Len(f2) /\ 2 \in v.link /\ 2 \notin v.lost
      BY <2>6, <2>7, <2>8
    <3>4. 1 \in v.link /\ 1 \notin v.lost => N(t, u2 + 1) /\ N(a, u1)
      <4> HIDE DEF N, f2, f3
      <4> SUFFICES ASSUME 1 \in v.link /\ 1 \notin v.lost PROVE N(t, u2 + 1) /\ N(a, u1)
        OBVIOUS
      <4>1. N(f3, u2) /\ N(f2, u1)
        BY <2>2, <3>3
      <4>2. N(t, u2 + 1) /\ (u2 > 0 => x = [type |-> "data", path |-> p, dir |-> "bwd", n |-> u2])
        BY <2>1, <2>3, <2>8, <3>1, <3>3, <4>1
      <4>3. N(a, u1)
        BY <2>1, <2>4, <2>8, <3>2, <3>3, <4>1, <4>2
      <4> QED BY <4>2, <4>3
    <3>5. /\ u + Len(w.bwd[1]) = u1
          /\ u + Len(w.bwd[1]) + Len(w.bwd[2]) = u2 + 1
          /\ u + Len(w.bwd[1]) + Len(w.bwd[2]) + Len(w.bwd[3]) = u2 + n3
      <4> DEFINE m1 == Len(w.bwd[1])  m2 == Len(w.bwd[2])  m3 == Len(w.bwd[3])
      <4>1. m1 = n1 /\ m2 = n2 + 1 /\ m3 = n3 - 1
        BY <2>7, <3>1, <3>2
      <4> HIDE DEF m1, m2, m3
      <4>2. /\ u \in Nat /\ n1 \in Nat /\ n2 \in Nat /\ n3 \in Nat
            /\ u1 = u + n1 /\ u2 = u1 + n2
        BY <2>1, <2>8
      <4>3. u + m1 = u1 /\ u + m1 + m2 = u2 + 1 /\ u + m1 + m2 + m3 = u2 + n3
        BY <4>1, <4>2
      <4> QED BY <4>3 DEF m1, m2, m3
    <3> HIDE DEF t, a, f1, f2, f3
    <3> QED BY <2>2, <2>7, <3>1, <3>3, <3>4, <3>5 DEF Up
  <2> QED BY <1>h, <2>5, <2>6
<1> QED BY <1>2, <1>3, <1>4, <1>5, <1>6, <1>7 DEF Circuit

\* The client writes.
LEMMA ViewWritesDown ==
    ASSUME NEW v, NEW w, NEW p, Circuit(v, p), ViewType(w), v.outcome = "ok", 1 \notin v.lost,
           NEW x \in Parcel, x = [type |-> "data", path |-> p, dir |-> "fwd", n |-> v.sent + 1],
           w.outcome = v.outcome, SamePlaces(v, w), w.held = v.held, w.lost = v.lost, w.bwd = v.bwd,
           Changed(w.fwd, v.fwd, 1, Append(v.fwd[1], x)),
           w.accepted = v.accepted, w.down = v.down, w.up = v.up, w.back = v.back,
           w.sent = v.sent + 1
    PROVE  Circuit(w, p)
<1> USE DEF SamePlaces, Changed
<1>h. v.accepted # {}
  BY DEF Circuit, Received
<1>2. Tip(w)
  BY DEF Circuit, Tip, Undecided
<1>3. Answers(w)
  BY DEF Circuit, Answers, Undecided, Silent1, Silent2, Silent3
<1>4. Setup(w)
  BY <1>h DEF Setup
<1>6. Up(w, p)
  BY DEF Circuit, Up
<1>7. Received(w, p)
  BY DEF Circuit, Received
<1>5. Down(w, p)
  <2> DEFINE f1 == v.fwd[1]  f2 == v.fwd[2]  f3 == v.fwd[3]  d == Len(v.down)
             n1 == Len(f1)  n2 == Len(f2)  n3 == Len(f3)  d3 == d + n3  d2 == d3 + n2
             N(q, k) == Numbered(q, k, p, "fwd")  a == Append(f1, x)
  <2>1. /\ f1 \in Seq(Parcel) /\ f2 \in Seq(Parcel) /\ f3 \in Seq(Parcel) /\ d \in Nat
        /\ n1 \in Nat /\ n2 \in Nat /\ n3 \in Nat /\ v.sent \in Nat
    <3>1. /\ v.down \in Seq(Parcel) /\ f1 \in Seq(Parcel) /\ f2 \in Seq(Parcel) /\ f3 \in Seq(Parcel)
          /\ v.sent \in Nat
      BY DEF Circuit, ViewType, Hop
    <3> QED BY <3>1, QueueFacts
  <2>2. /\ N(f3, d)
        /\ 2 \in v.link /\ 3 \notin v.lost => N(f2, d3)
        /\ 1 \in v.link /\ 2 \in v.link /\ 2 \notin v.lost /\ 3 \notin v.lost => N(f1, d2) /\ v.sent = d2 + n1
    BY <1>h DEF Circuit, Down
  <2>3. \A q \in Seq(Parcel) : \A k \in Nat :
          N(q, k) /\ x = [type |-> "data", path |-> p, dir |-> "fwd", n |-> k + Len(q) + 1]
            => N(Append(q, x), k)
    BY NumberedMoves
  <2>4. w.fwd[1] = a /\ w.fwd[2] = f2 /\ w.fwd[3] = f3 /\ Len(a) = n1 + 1
    <3>1. w.fwd[1] = a /\ w.fwd[2] = f2 /\ w.fwd[3] = f3
      BY DEF Hop
    <3> QED BY <2>1, <3>1, QueueFacts
  <2>7. Len(f1) = n1 /\ Len(f2) = n2 /\ Len(f3) = n3 /\ Len(w.down) = d
    OBVIOUS
  <2> HIDE DEF n1, n2, n3, d
  <2>8. d3 \in Nat /\ d2 \in Nat /\ d3 = d + n3 /\ d2 = d3 + n2
    BY <2>1
  <2> HIDE DEF d3, d2
  <2>5. 1 \in v.link /\ 2 \in v.link /\ 2 \notin v.lost /\ 3 \notin v.lost =>
          N(a, d2) /\ w.sent = d2 + (n1 + 1)
    <3> HIDE DEF N, f1
    <3> SUFFICES ASSUME 1 \in v.link /\ 2 \in v.link /\ 2 \notin v.lost /\ 3 \notin v.lost
                 PROVE  N(a, d2) /\ w.sent = d2 + (n1 + 1)
      OBVIOUS
    <3>1. N(f1, d2) /\ v.sent = d2 + Len(f1)
      BY <2>2, <2>7
    <3>2. N(a, d2)
      BY <2>1, <2>3, <2>8, <3>1
    <3>3. w.sent = d2 + (n1 + 1)
      BY <2>1, <2>7, <2>8, <3>1
    <3> QED BY <3>2, <3>3
  <2>6. /\ Len(w.down) + Len(w.fwd[3]) = d3
        /\ Len(w.down) + Len(w.fwd[3]) + Len(w.fwd[2]) = d2
        /\ Len(w.down) + Len(w.fwd[3]) + Len(w.fwd[2]) + Len(w.fwd[1]) = d2 + (n1 + 1)
    BY <2>4, <2>7, <2>8
  <2> HIDE DEF a, f1, f2, f3
  <2> QED BY <2>2, <2>4, <2>5, <2>6, <2>7 DEF Down
<1> QED BY <1>2, <1>3, <1>4, <1>5, <1>6, <1>7 DEF Circuit

\* The recipient reads.
LEMMA ViewReadsDown ==
    ASSUME NEW v, NEW w, NEW p, Circuit(v, p), ViewType(w), v.accepted # {}, v.fwd[3] # <<>>,
           w.outcome = v.outcome, SamePlaces(v, w), w.held = v.held, w.lost = v.lost, w.bwd = v.bwd,
           Changed(w.fwd, v.fwd, 3, Tail(v.fwd[3])),
           w.accepted = v.accepted, w.down = Append(v.down, Head(v.fwd[3])), w.up = v.up,
           w.sent = v.sent, w.back = v.back
    PROVE  Circuit(w, p)
<1> USE DEF SamePlaces, Changed
<1>2. Tip(w)
  BY DEF Circuit, Tip, Undecided
<1>3. Answers(w)
  BY DEF Circuit, Answers, Undecided, Silent1, Silent2, Silent3
<1>4. Setup(w)
  BY DEF Setup
<1>6. Up(w, p)
  BY DEF Circuit, Up
<1> DEFINE f3 == v.fwd[3]  d == Len(v.down)  x == Head(f3)  t == Tail(f3)  a == Append(v.down, x)
           N(q, k) == Numbered(q, k, p, "fwd")
<1>a. v.down \in Seq(Parcel) /\ f3 \in Seq(Parcel) /\ d \in Nat /\ x \in Parcel
  <2>1. v.down \in Seq(Parcel) /\ f3 \in Seq(Parcel)
    BY DEF Circuit, ViewType, Hop
  <2> QED BY <2>1, QueueFacts
<1>b. N(f3, d) /\ N(v.down, 0)
  BY DEF Circuit, Down, Received
<1>c. /\ \A q \in Seq(Parcel) : \A k \in Nat : N(q, k) /\ q # <<>> =>
           /\ N(Tail(q), k + 1)
           /\ Head(q) = [type |-> "data", path |-> p, dir |-> "fwd", n |-> k + 1]
      /\ \A q \in Seq(Parcel) : \A k \in Nat : \A y \in Parcel :
           N(q, k) /\ y = [type |-> "data", path |-> p, dir |-> "fwd", n |-> k + Len(q) + 1]
             => N(Append(q, y), k)
  BY NumberedMoves
<1>d. N(t, d + 1) /\ N(a, 0) /\ Len(a) = d + 1 /\ Len(t) = Len(f3) - 1 /\ Len(f3) \in Nat
  <2>1. N(t, d + 1) /\ x = [type |-> "data", path |-> p, dir |-> "fwd", n |-> d + 1]
    <3> HIDE DEF N, d
    <3> QED BY <1>a, <1>b, <1>c
  <2>2. d + 1 = 0 + Len(v.down) + 1
    BY <1>a
  <2>3. N(a, 0)
    <3> HIDE DEF N, d, x
    <3> QED BY <1>a, <1>b, <1>c, <2>1, <2>2
  <2>4. Len(a) = d + 1 /\ Len(t) = Len(f3) - 1 /\ Len(f3) \in Nat
    <3> HIDE DEF x
    <3> QED BY <1>a, QueueFacts
  <2> QED BY <2>1, <2>3, <2>4
<1>5. Down(w, p)
  <2> DEFINE n1 == Len(w.fwd[1])  n2 == Len(w.fwd[2])  n3 == Len(f3)
  <2>1. w.fwd[3] = t /\ w.fwd[1] = v.fwd[1] /\ w.fwd[2] = v.fwd[2]
    BY DEF Hop
  <2>2. /\ Len(w.down) = d + 1 /\ Len(w.fwd[3]) = n3 - 1 /\ n3 \in Nat /\ d \in Nat
    BY <1>a, <1>d, <2>1
  <2>5. Len(f3) = n3 /\ Len(v.down) = d
    OBVIOUS
  <2> HIDE DEF d, n3
  <2>3. Len(w.down) + Len(w.fwd[3]) = d + n3
    BY <2>2
  <2> HIDE DEF N
  <2>4. N(w.fwd[3], Len(w.down))
    BY <1>d, <2>1, <2>2
  <2> HIDE DEF f3, t, a
  <2> QED BY <2>1, <2>3, <2>4, <2>5 DEF Circuit, Down, N, f3
<1>7. Received(w, p)
  BY <1>d DEF Circuit, Received
<1> QED BY <1>2, <1>3, <1>4, <1>5, <1>6, <1>7 DEF Circuit

\* The recipient writes.
LEMMA ViewWritesUp ==
    ASSUME NEW v, NEW w, NEW p, Circuit(v, p), ViewType(w), v.accepted # {}, 3 \notin v.lost,
           NEW x \in Parcel, x = [type |-> "data", path |-> p, dir |-> "bwd", n |-> v.back + 1],
           w.outcome = v.outcome, SamePlaces(v, w), w.held = v.held, w.lost = v.lost, w.fwd = v.fwd,
           Changed(w.bwd, v.bwd, 3, Append(v.bwd[3], x)),
           w.accepted = v.accepted, w.down = v.down, w.up = v.up, w.sent = v.sent,
           w.back = v.back + 1
    PROVE  Circuit(w, p)
<1> USE DEF SamePlaces, Changed
<1>2. Tip(w)
  BY DEF Circuit, Tip, Undecided
<1>3. Answers(w)
  <2>1. 3 \notin v.read /\ w.bwd[1] = v.bwd[1] /\ w.bwd[2] = v.bwd[2]
    BY DEF Circuit, Tip, Undecided, Hop
  <2>2. \A g \in {1, 2} : Undecided(w, g) <=> Undecided(v, g)
    BY DEF Undecided
  <2> QED BY <2>1, <2>2 DEF Circuit, Answers, Silent1, Silent2
<1>4. Setup(w)
  BY DEF Setup
<1>5. Down(w, p)
  BY DEF Circuit, Down
<1>7. Received(w, p)
  BY DEF Circuit, Received
<1>6. Up(w, p)
  <2> DEFINE f1 == v.bwd[1]  f2 == v.bwd[2]  f3 == v.bwd[3]
             u == IF v.outcome = "ok" THEN 1 + Len(v.up) ELSE 0
             n1 == Len(f1)  n2 == Len(f2)  n3 == Len(f3)  u1 == u + n1  u2 == u1 + n2
             N(q, k) == Replies(q, k, p)  a == Append(f3, x)
  <2> SUFFICES ASSUME v.outcome \in {"none", "pending", "ok"} PROVE Up(w, p)
    BY DEF Up
  <2>1. /\ f1 \in Seq(Parcel) /\ f2 \in Seq(Parcel) /\ f3 \in Seq(Parcel) /\ u \in Nat
        /\ n1 \in Nat /\ n2 \in Nat /\ n3 \in Nat /\ v.back \in Nat
    <3>1. /\ v.up \in Seq(Parcel) /\ f1 \in Seq(Parcel) /\ f2 \in Seq(Parcel) /\ f3 \in Seq(Parcel)
          /\ v.back \in Nat
      BY DEF Circuit, ViewType, Hop
    <3>2. Len(v.up) \in Nat
      BY <3>1, QueueFacts
    <3> QED BY <3>1, <3>2, QueueFacts
  <2>2. /\ N(f1, u)
        /\ 1 \in v.link /\ 1 \notin v.lost => N(f2, u1)
        /\ 1 \in v.link /\ 2 \in v.link /\ 1 \notin v.lost /\ 2 \notin v.lost => N(f3, u2) /\ u2 + n3 = 1 + v.back
    BY DEF Circuit, Up
  <2>3. \A q \in Seq(Parcel) : \A k \in Nat :
          N(q, k) /\ (k + Len(q) > 0 => x = [type |-> "data", path |-> p, dir |-> "bwd", n |-> k + Len(q)])
            => N(Append(q, x), k)
    BY RepliesMove
  <2>4. w.bwd[3] = a /\ w.bwd[1] = f1 /\ w.bwd[2] = f2 /\ Len(a) = n3 + 1
    <3>1. w.bwd[3] = a /\ w.bwd[1] = f1 /\ w.bwd[2] = f2
      BY DEF Hop
    <3> QED BY <2>1, <3>1, QueueFacts
  <2>7. /\ Len(f1) = n1 /\ Len(f2) = n2 /\ Len(f3) = n3
        /\ u = IF w.outcome = "ok" THEN 1 + Len(w.up) ELSE 0
    OBVIOUS
  <2> HIDE DEF n1, n2, n3, u
  <2>8. u1 \in Nat /\ u2 \in Nat /\ u1 = u + n1 /\ u2 = u1 + n2
    BY <2>1
  <2> HIDE DEF u1, u2
  <2>5. 1 \in v.link /\ 2 \in v.link /\ 1 \notin v.lost /\ 2 \notin v.lost =>
          N(a, u2) /\ u2 + (n3 + 1) = 1 + w.back
    <3> HIDE DEF N, f3
    <3> SUFFICES ASSUME 1 \in v.link /\ 2 \in v.link /\ 1 \notin v.lost /\ 2 \notin v.lost
                 PROVE  N(a, u2) /\ u2 + (n3 + 1) = 1 + w.back
      OBVIOUS
    <3>1. N(f3, u2) /\ u2 + n3 = 1 + v.back /\ u2 + Len(f3) = v.back + 1
      BY <2>1, <2>2, <2>7, <2>8
    <3>2. N(a, u2)
      BY <2>1, <2>3, <2>8, <3>1
    <3>3. u2 + (n3 + 1) = 1 + w.back
      BY <2>1, <2>8, <3>1
    <3> QED BY <3>2, <3>3
  <2>6. /\ u + Len(w.bwd[1]) = u1
        /\ u + Len(w.bwd[1]) + Len(w.bwd[2]) = u2
        /\ u + Len(w.bwd[1]) + Len(w.bwd[2]) + Len(w.bwd[3]) = u2 + (n3 + 1)
    BY <2>4, <2>7, <2>8
  <2> HIDE DEF a, f1, f2, f3
  <2> QED BY <2>2, <2>4, <2>5, <2>6, <2>7 DEF Up
<1> QED BY <1>2, <1>3, <1>4, <1>5, <1>6, <1>7 DEF Circuit

\* The client reads.
LEMMA ViewReadsUp ==
    ASSUME NEW v, NEW w, NEW p, Circuit(v, p), ViewType(w), v.outcome = "ok", v.bwd[1] # <<>>,
           w.outcome = v.outcome, SamePlaces(v, w), w.held = v.held, w.lost = v.lost, w.fwd = v.fwd,
           Changed(w.bwd, v.bwd, 1, Tail(v.bwd[1])),
           w.accepted = v.accepted, w.up = Append(v.up, Head(v.bwd[1])), w.down = v.down,
           w.sent = v.sent, w.back = v.back
    PROVE  Circuit(w, p)
<1> USE DEF SamePlaces, Changed
<1>2. Tip(w)
  BY DEF Circuit, Tip, Undecided
<1>3. Answers(w)
  <2>1. \A g \in {1, 2} : Undecided(w, g) <=> Undecided(v, g)
    BY DEF Undecided
  <2>2. w.bwd[2] = v.bwd[2] /\ w.bwd[3] = v.bwd[3]
    BY DEF Hop
  <2> QED BY <2>1, <2>2 DEF Circuit, Answers, Silent1, Silent2, Silent3
<1>4. Setup(w)
  BY DEF Circuit, Setup
<1>5. Down(w, p)
  BY DEF Circuit, Down
<1> DEFINE f1 == v.bwd[1]  d == Len(v.up)  x == Head(f1)  t == Tail(f1)  a == Append(v.up, x)
<1>a. v.up \in Seq(Parcel) /\ f1 \in Seq(Parcel) /\ d \in Nat /\ x \in Parcel
  <2>1. v.up \in Seq(Parcel) /\ f1 \in Seq(Parcel)
    BY DEF Circuit, ViewType, Hop
  <2> QED BY <2>1, QueueFacts
<1>b. Replies(f1, 1 + d, p) /\ Numbered(v.up, 0, p, "bwd")
  BY DEF Circuit, Up, Received
<1>c. /\ \A q \in Seq(Parcel) : \A k \in Nat : Replies(q, k, p) /\ q # <<>> =>
           /\ Replies(Tail(q), k + 1, p)
           /\ k > 0 => Head(q) = [type |-> "data", path |-> p, dir |-> "bwd", n |-> k]
      /\ \A q \in Seq(Parcel) : \A k \in Nat : \A y \in Parcel :
           Numbered(q, k, p, "bwd") /\ y = [type |-> "data", path |-> p, dir |-> "bwd", n |-> k + Len(q) + 1]
             => Numbered(Append(q, y), k, p, "bwd")
  BY NumberedMoves, RepliesMove
<1>d. /\ Replies(t, 1 + d + 1, p) /\ Numbered(a, 0, p, "bwd")
      /\ Len(a) = d + 1 /\ Len(t) = Len(f1) - 1 /\ Len(f1) \in Nat
  <2>1. Replies(t, 1 + d + 1, p) /\ x = [type |-> "data", path |-> p, dir |-> "bwd", n |-> 1 + d]
    <3> DEFINE k == 1 + d
    <3>1. k \in Nat /\ k > 0 /\ Replies(f1, k, p)
      BY <1>a, <1>b
    <3> HIDE DEF k
    <3>2. Replies(t, k + 1, p) /\ x = [type |-> "data", path |-> p, dir |-> "bwd", n |-> k]
      BY <1>a, <1>c, <3>1
    <3> QED BY <3>2 DEF k
  <2>2. 1 + d = 0 + Len(v.up) + 1
    BY <1>a
  <2>3. Numbered(a, 0, p, "bwd")
    <3> HIDE DEF d, x
    <3> QED BY <1>a, <1>b, <1>c, <2>1, <2>2
  <2>4. Len(a) = d + 1 /\ Len(t) = Len(f1) - 1 /\ Len(f1) \in Nat
    <3> HIDE DEF x
    <3> QED BY <1>a, QueueFacts
  <2> QED BY <2>1, <2>3, <2>4
<1>6. Up(w, p)
  <2> DEFINE n1 == Len(f1)
  <2>1. w.bwd[1] = t /\ w.bwd[2] = v.bwd[2] /\ w.bwd[3] = v.bwd[3]
    BY DEF Hop
  <2>2. /\ Len(w.up) = d + 1 /\ Len(w.bwd[1]) = n1 - 1 /\ n1 \in Nat /\ d \in Nat
    BY <1>a, <1>d, <2>1
  <2>5. Len(f1) = n1 /\ Len(v.up) = d
    OBVIOUS
  <2> HIDE DEF d, n1
  <2>3. 1 + Len(w.up) + Len(w.bwd[1]) = 1 + d + n1
    BY <2>2
  <2>6. 1 + Len(w.up) = 1 + d + 1
    BY <2>2
  <2>4. Replies(w.bwd[1], 1 + Len(w.up), p)
    BY <1>d, <2>1, <2>6
  <2> HIDE DEF f1, t, a
  <2> QED BY <2>1, <2>3, <2>4, <2>5 DEF Circuit, Up, f1
<1>7. Received(w, p)
  BY <1>d DEF Circuit, Received
<1> QED BY <1>2, <1>3, <1>4, <1>5, <1>6, <1>7 DEF Circuit

\* The connection of stream h is lost with what was in flight.
LEMMA ViewLost ==
    ASSUME NEW v, NEW w, NEW p, Circuit(v, p), ViewType(w), NEW h \in Hop,
           w.outcome = v.outcome, SamePlaces(v, w), w.held = v.held, w.lost = v.lost \cup {h},
           Changed(w.fwd, v.fwd, h, <<>>), Changed(w.bwd, v.bwd, h, <<>>),
           w.accepted = v.accepted, SameEnds(v, w)
    PROVE  Circuit(w, p)
<1> USE DEF SameEnds, SamePlaces, Changed
<1>h. h \in 1 .. 3 /\ 1 \in Hop /\ 2 \in Hop /\ 3 \in Hop
  BY DEF Hop
<1>2. Tip(w)
  BY DEF Circuit, Tip, Undecided
<1>3. Answers(w)
  <2>1. \A g \in {1, 2} : Undecided(w, g) <=> Undecided(v, g)
    BY DEF Undecided
  <2>2. \A g \in Hop : v.bwd[g] = <<>> => w.bwd[g] = <<>>
    OBVIOUS
  <2> QED BY <1>h, <2>1, <2>2 DEF Circuit, Answers, Silent1, Silent2, Silent3
<1>4. Setup(w)
  BY DEF Circuit, Setup
<1>e. \A k \in Nat : Numbered(<<>>, k, p, "fwd") /\ Replies(<<>>, k, p)
  BY NoneNumbered
<1>t. /\ \A g \in Hop : v.fwd[g] \in Seq(Parcel) /\ v.bwd[g] \in Seq(Parcel)
      /\ v.down \in Seq(Parcel) /\ v.up \in Seq(Parcel)
  BY DEF Circuit, ViewType
<1>n. /\ \A g \in Hop : Len(v.fwd[g]) \in Nat /\ Len(v.bwd[g]) \in Nat
      /\ Len(v.down) \in Nat /\ Len(v.up) \in Nat
  BY <1>t, QueueFacts
<1>5. Down(w, p)
  <2> DEFINE d == Len(v.down)  n3 == Len(v.fwd[3])  n2 == Len(v.fwd[2])
  <2>1. d \in Nat /\ n3 \in Nat /\ n2 \in Nat
    BY <1>n, <1>h
  <2>2. d + n3 \in Nat /\ d + n3 + n2 \in Nat
    <3> HIDE DEF d, n3, n2
    <3> QED BY <2>1
  <2>3. CASE h = 1
    BY <1>h, <1>e, <2>1, <2>2, <2>3 DEF Circuit, Down
  <2>4. CASE h = 2
    BY <1>h, <1>e, <2>1, <2>2, <2>4 DEF Circuit, Down
  <2>5. CASE h = 3
    BY <1>h, <1>e, <2>1, <2>2, <2>5 DEF Circuit, Down
  <2> QED BY <1>h, <2>3, <2>4, <2>5
<1>6. Up(w, p)
  <2> DEFINE u == IF v.outcome = "ok" THEN 1 + Len(v.up) ELSE 0
             n1 == Len(v.bwd[1])  n2 == Len(v.bwd[2])
  <2>1. u \in Nat /\ n1 \in Nat /\ n2 \in Nat
    BY <1>n, <1>h
  <2>2. u + n1 \in Nat /\ u + n1 + n2 \in Nat
    <3> HIDE DEF u, n1, n2
    <3> QED BY <2>1
  <2>3. CASE h = 1
    BY <1>h, <1>e, <2>1, <2>2, <2>3 DEF Circuit, Up
  <2>4. CASE h = 2
    BY <1>h, <1>e, <2>1, <2>2, <2>4 DEF Circuit, Up
  <2>5. CASE h = 3
    <3>1. w.bwd[1] = v.bwd[1] /\ w.bwd[2] = v.bwd[2] /\ w.bwd[3] = <<>> /\ 3 \in w.lost
          /\ (1 \in w.lost <=> 1 \in v.lost) /\ (2 \in w.lost <=> 2 \in v.lost)
      BY <1>h, <2>5
    <3>2. Replies(<<>>, u + n1 + n2, p)
      BY <1>e, <2>2
    <3> QED BY <3>1, <3>2 DEF Circuit, Up
  <2> QED BY <1>h, <2>3, <2>4, <2>5
<1>7. Received(w, p)
  BY DEF Circuit, Received
<1> QED BY <1>2, <1>3, <1>4, <1>5, <1>6, <1>7 DEF Circuit

-----------------------------------------------------------------------------
\* What updates of the streams do to what they hold.
\* Stream s joins a set or leaves it, or a function of the streams changes at s.
Joins(new, old, s) == new = old \cup {s}
Leaves(new, old, s) == new = old \ {s}
Puts(new, old, s, x) == new = [old EXCEPT ![s] = x]
SameStreams(new, old) == Held(new) = Held(old) /\ Lost(new) = Lost(old) /\ Fwd(new) = Fwd(old) /\ Bwd(new) = Bwd(old)

LEMMA StreamFields ==
    ASSUME NEW st \in Streams, NEW s \in Sid
    PROVE  /\ st[s].fwd \in Seq(Parcel) /\ st[s].bwd \in Seq(Parcel)
           /\ st[s].fwd = Fwd(st)[s] /\ st[s].bwd = Bwd(st)[s]
           /\ st[s].b <=> s \in Held(st)
           /\ st[s].broken <=> s \in Lost(st)
           /\ Fwd(st) \in [Sid -> Seq(Parcel)] /\ Bwd(st) \in [Sid -> Seq(Parcel)]
           /\ Held(st) \subseteq Sid /\ Lost(st) \subseteq Sid
BY DEF Streams, Fwd, Bwd, Held, Lost

PutFwd(st, s, x) == [st EXCEPT ![s].fwd = x]

LEMMA SetFwd ==
    ASSUME NEW st \in Streams, NEW s \in Sid, NEW x \in Seq(Parcel), NEW new,
           new = PutFwd(st, s, x)
    PROVE  /\ new \in Streams /\ Puts(Fwd(new), Fwd(st), s, x) /\ Bwd(new) = Bwd(st)
           /\ Held(new) = Held(st) /\ Lost(new) = Lost(st)
<1>1. /\ DOMAIN new = Sid
      /\ \A r \in Sid : new[r] = IF r = s THEN [st[s] EXCEPT !.fwd = x] ELSE st[r]
  BY DEF Streams, PutFwd
<1>2. /\ [st[s] EXCEPT !.fwd = x] = [fwd |-> x, bwd |-> st[s].bwd, a |-> st[s].a, b |-> st[s].b,
                                     broken |-> st[s].broken]
  <2>1. PICK f, g, y, z, u : st[s] = [fwd |-> f, bwd |-> g, a |-> y, b |-> z, broken |-> u]
    BY DEF Streams
  <2>2. \A c : [st[s] EXCEPT !.fwd = c] = [fwd |-> c, bwd |-> g, a |-> y, b |-> z, broken |-> u]
    BY <2>1
  <2> QED BY <2>1, <2>2
<1>3. \A r \in Sid : /\ new[r].fwd = IF r = s THEN x ELSE st[r].fwd
                     /\ new[r].bwd = st[r].bwd /\ new[r].a = st[r].a
                     /\ new[r].b = st[r].b /\ new[r].broken = st[r].broken
                     /\ new[r] \in [fwd : Seq(Parcel), bwd : Seq(Parcel), a : BOOLEAN, b : BOOLEAN, broken : BOOLEAN]
  BY <1>1, <1>2 DEF Streams
<1>4. new \in Streams
  <2>1. new = [r \in Sid |-> new[r]]
    BY <1>1 DEF Streams, PutFwd
  <2> QED BY <1>3, <2>1 DEF Streams
<1> QED BY <1>3, <1>4 DEF Fwd, Bwd, Held, Lost, Puts

PutBwd(st, s, x) == [st EXCEPT ![s].bwd = x]

LEMMA SetBwd ==
    ASSUME NEW st \in Streams, NEW s \in Sid, NEW x \in Seq(Parcel), NEW new,
           new = PutBwd(st, s, x)
    PROVE  /\ new \in Streams /\ Puts(Bwd(new), Bwd(st), s, x) /\ Fwd(new) = Fwd(st)
           /\ Held(new) = Held(st) /\ Lost(new) = Lost(st)
<1>1. /\ DOMAIN new = Sid
      /\ \A r \in Sid : new[r] = IF r = s THEN [st[s] EXCEPT !.bwd = x] ELSE st[r]
  BY DEF Streams, PutBwd
<1>2. /\ [st[s] EXCEPT !.bwd = x] = [fwd |-> st[s].fwd, bwd |-> x, a |-> st[s].a, b |-> st[s].b,
                                     broken |-> st[s].broken]
  <2>1. PICK f, g, y, z, u : st[s] = [fwd |-> f, bwd |-> g, a |-> y, b |-> z, broken |-> u]
    BY DEF Streams
  <2>2. \A c : [st[s] EXCEPT !.bwd = c] = [fwd |-> f, bwd |-> c, a |-> y, b |-> z, broken |-> u]
    BY <2>1
  <2> QED BY <2>1, <2>2
<1>3. \A r \in Sid : /\ new[r].bwd = IF r = s THEN x ELSE st[r].bwd
                     /\ new[r].fwd = st[r].fwd /\ new[r].a = st[r].a
                     /\ new[r].b = st[r].b /\ new[r].broken = st[r].broken
                     /\ new[r] \in [fwd : Seq(Parcel), bwd : Seq(Parcel), a : BOOLEAN, b : BOOLEAN, broken : BOOLEAN]
  BY <1>1, <1>2 DEF Streams
<1>4. new \in Streams
  <2>1. new = [r \in Sid |-> new[r]]
    BY <1>1 DEF Streams, PutBwd
  <2> QED BY <1>3, <2>1 DEF Streams
<1> QED BY <1>3, <1>4 DEF Fwd, Bwd, Held, Lost, Puts

LEMMA DropEnds ==
    ASSUME NEW st \in Streams, NEW s \in Sid
    PROVE  /\ DropA(st, s) \in Streams /\ SameStreams(DropA(st, s), st)
           /\ DropB(st, s) \in Streams /\ Fwd(DropB(st, s)) = Fwd(st) /\ Bwd(DropB(st, s)) = Bwd(st)
           /\ Leaves(Held(DropB(st, s)), Held(st), s) /\ Lost(DropB(st, s)) = Lost(st)
<1>1. DropA(st, s) \in Streams /\ SameStreams(DropA(st, s), st)
  <2> DEFINE new == DropA(st, s)
  <2>1. /\ DOMAIN new = Sid
        /\ \A r \in Sid : new[r] = IF r = s THEN [st[s] EXCEPT !.a = FALSE] ELSE st[r]
    BY DEF Streams, DropA
  <2>2. [st[s] EXCEPT !.a = FALSE] = [fwd |-> st[s].fwd, bwd |-> st[s].bwd, a |-> FALSE, b |-> st[s].b,
                                      broken |-> st[s].broken]
    <3>1. PICK f, g, x, y, z : st[s] = [fwd |-> f, bwd |-> g, a |-> x, b |-> y, broken |-> z]
      BY DEF Streams
    <3>2. \A c : [st[s] EXCEPT !.a = c] = [fwd |-> f, bwd |-> g, a |-> c, b |-> y, broken |-> z]
      BY <3>1
    <3> QED BY <3>1, <3>2
  <2>4. new = [r \in Sid |-> new[r]]
    BY DEF Streams, DropA
  <2> HIDE DEF new
  <2>3. \A r \in Sid : /\ new[r].fwd = st[r].fwd /\ new[r].bwd = st[r].bwd
                       /\ new[r].b = st[r].b /\ new[r].broken = st[r].broken
                       /\ new[r] \in [fwd : Seq(Parcel), bwd : Seq(Parcel), a : BOOLEAN, b : BOOLEAN, broken : BOOLEAN]
    BY <2>1, <2>2 DEF Streams
  <2>5. new \in Streams
    BY <2>3, <2>4 DEF Streams
  <2> QED BY <2>3, <2>5 DEF SameStreams, Fwd, Bwd, Held, Lost, new
<1>2. /\ DropB(st, s) \in Streams /\ Fwd(DropB(st, s)) = Fwd(st) /\ Bwd(DropB(st, s)) = Bwd(st)
      /\ Held(DropB(st, s)) = Held(st) \ {s} /\ Lost(DropB(st, s)) = Lost(st)
  <2> DEFINE new == DropB(st, s)
  <2>1. /\ DOMAIN new = Sid
        /\ \A r \in Sid : new[r] = IF r = s THEN [st[s] EXCEPT !.b = FALSE] ELSE st[r]
    BY DEF Streams, DropB
  <2>2. [st[s] EXCEPT !.b = FALSE] = [fwd |-> st[s].fwd, bwd |-> st[s].bwd, a |-> st[s].a, b |-> FALSE,
                                      broken |-> st[s].broken]
    <3>1. PICK f, g, x, y, z : st[s] = [fwd |-> f, bwd |-> g, a |-> x, b |-> y, broken |-> z]
      BY DEF Streams
    <3>2. \A c : [st[s] EXCEPT !.b = c] = [fwd |-> f, bwd |-> g, a |-> x, b |-> c, broken |-> z]
      BY <3>1
    <3> QED BY <3>1, <3>2
  <2>4. new = [r \in Sid |-> new[r]]
    BY DEF Streams, DropB
  <2> HIDE DEF new
  <2>3. \A r \in Sid : /\ new[r].fwd = st[r].fwd /\ new[r].bwd = st[r].bwd
                       /\ new[r].b <=> (st[r].b /\ r # s)
                       /\ new[r].broken = st[r].broken
                       /\ new[r] \in [fwd : Seq(Parcel), bwd : Seq(Parcel), a : BOOLEAN, b : BOOLEAN, broken : BOOLEAN]
    BY <2>1, <2>2 DEF Streams
  <2>5. new \in Streams
    BY <2>3, <2>4 DEF Streams
  <2> QED BY <2>3, <2>5 DEF Fwd, Bwd, Held, Lost, new
<1> QED BY <1>1, <1>2 DEF Leaves

\* A connection is lost.
Break(st, s) == [st EXCEPT ![s].broken = TRUE]

LEMMA BreakStream ==
    ASSUME NEW st \in Streams, NEW s \in Sid
    PROVE  /\ Break(st, s) \in Streams /\ Fwd(Break(st, s)) = Fwd(st) /\ Bwd(Break(st, s)) = Bwd(st)
           /\ Held(Break(st, s)) = Held(st) /\ Lost(Break(st, s)) = Lost(st) \cup {s}
<1> DEFINE new == Break(st, s)
<1>1. /\ DOMAIN new = Sid
      /\ \A r \in Sid : new[r] = IF r = s THEN [st[s] EXCEPT !.broken = TRUE] ELSE st[r]
  BY DEF Streams, Break
<1>2. [st[s] EXCEPT !.broken = TRUE] = [fwd |-> st[s].fwd, bwd |-> st[s].bwd, a |-> st[s].a, b |-> st[s].b,
                                       broken |-> TRUE]
  <2>1. PICK f, g, x, y, z : st[s] = [fwd |-> f, bwd |-> g, a |-> x, b |-> y, broken |-> z]
    BY DEF Streams
  <2>2. \A c : [st[s] EXCEPT !.broken = c] = [fwd |-> f, bwd |-> g, a |-> x, b |-> y, broken |-> c]
    BY <2>1
  <2> QED BY <2>1, <2>2
<1>3. new = [r \in Sid |-> new[r]]
  BY DEF Streams, Break
<1> HIDE DEF new
<1>4. \A r \in Sid : /\ new[r].fwd = st[r].fwd /\ new[r].bwd = st[r].bwd
                     /\ new[r].b = st[r].b
                     /\ new[r].broken <=> (st[r].broken \/ r = s)
                     /\ new[r] \in [fwd : Seq(Parcel), bwd : Seq(Parcel), a : BOOLEAN, b : BOOLEAN, broken : BOOLEAN]
  <2>1. \A r \in Sid : st[r].b \in BOOLEAN /\ st[r].a \in BOOLEAN /\ st[r].broken \in BOOLEAN
                       /\ st[r].fwd \in Seq(Parcel) /\ st[r].bwd \in Seq(Parcel)
                       /\ st[r] \in [fwd : Seq(Parcel), bwd : Seq(Parcel), a : BOOLEAN, b : BOOLEAN, broken : BOOLEAN]
    BY DEF Streams
  <2>2. ASSUME NEW r \in Sid, r = s
        PROVE  /\ new[r].fwd = st[r].fwd /\ new[r].bwd = st[r].bwd /\ new[r].b = st[r].b /\ new[r].broken
               /\ new[r] \in [fwd : Seq(Parcel), bwd : Seq(Parcel), a : BOOLEAN, b : BOOLEAN, broken : BOOLEAN]
    BY <1>1, <1>2, <2>1, <2>2
  <2>3. \A r \in Sid : r # s => new[r] = st[r]
    BY <1>1
  <2> QED BY <2>1, <2>2, <2>3
<1>5. new \in Streams
  BY <1>3, <1>4 DEF Streams
<1> QED BY <1>4, <1>5 DEF Fwd, Bwd, Held, Lost, new

\* A stream is made anew, or loses its connection.
LEMMA FreshStream ==
    ASSUME NEW st \in Streams, NEW s \in Sid, NEW new, new = [st EXCEPT ![s] = NewStream]
    PROVE  /\ new \in Streams /\ Puts(Fwd(new), Fwd(st), s, <<>>) /\ Puts(Bwd(new), Bwd(st), s, <<>>)
           /\ Joins(Held(new), Held(st), s) /\ Leaves(Lost(new), Lost(st), s)
<1> DEFINE Rec == [fwd : Seq(Parcel), bwd : Seq(Parcel), a : BOOLEAN, b : BOOLEAN, broken : BOOLEAN]
<1>e. <<>> \in Seq(Parcel)
  BY EmptySeq
<1>1. new \in Streams /\ \A r \in Sid : new[r] = IF r = s THEN NewStream ELSE st[r]
  <2>1. NewStream \in Rec
    BY <1>e DEF NewStream, NoStream
  <2> HIDE DEF Rec
  <2>2. Streams = [Sid -> Rec]
    BY DEF Streams, Rec
  <2> QED BY <2>1, <2>2
<1>2. /\ NewStream.fwd = <<>> /\ NewStream.bwd = <<>> /\ NewStream.b = TRUE /\ NewStream.broken = FALSE
  BY DEF NewStream, NoStream
<1>3. /\ Fwd(new) = [Fwd(st) EXCEPT ![s] = <<>>] /\ Bwd(new) = [Bwd(st) EXCEPT ![s] = <<>>]
      /\ Held(new) = Held(st) \cup {s} /\ Lost(new) = Lost(st) \ {s}
  <2>1. \A r \in Sid : /\ new[r].fwd = IF r = s THEN <<>> ELSE st[r].fwd
                       /\ new[r].bwd = IF r = s THEN <<>> ELSE st[r].bwd
                       /\ new[r].b <=> (st[r].b \/ r = s)
                       /\ new[r].broken <=> (st[r].broken /\ r # s)
    BY <1>1, <1>2
  <2> QED BY <2>1 DEF Fwd, Bwd, Held, Lost
<1> QED BY <1>1, <1>3 DEF Puts, Joins, Leaves

LEMMA LostStream ==
    ASSUME NEW st \in Streams, NEW s \in Sid, NEW new,
           new = [st EXCEPT ![s].broken = TRUE, ![s].fwd = <<>>, ![s].bwd = <<>>]
    PROVE  /\ new \in Streams /\ Puts(Fwd(new), Fwd(st), s, <<>>) /\ Puts(Bwd(new), Bwd(st), s, <<>>)
           /\ Held(new) = Held(st) /\ Joins(Lost(new), Lost(st), s)
<1>e. PICK e \in Seq(Parcel) : e = <<>>
  BY EmptySeq
<1>1. PICK one : one = Break(st, s)
  OBVIOUS
<1>2. PICK two : two = PutFwd(one, s, e)
  OBVIOUS
<1>3. PICK all : all = PutBwd(two, s, e)
  OBVIOUS
<1>7. new = all
  BY <1>e, <1>1, <1>2, <1>3 DEF Break, PutFwd, PutBwd
<1>4. /\ one \in Streams /\ Fwd(one) = Fwd(st) /\ Bwd(one) = Bwd(st)
      /\ Held(one) = Held(st) /\ Joins(Lost(one), Lost(st), s)
  BY <1>1, BreakStream DEF Joins
<1>5. /\ two \in Streams /\ Puts(Fwd(two), Fwd(one), s, e) /\ Bwd(two) = Bwd(one)
      /\ Held(two) = Held(one) /\ Lost(two) = Lost(one)
  BY <1>2, <1>4, SetFwd
<1>6. /\ all \in Streams /\ Puts(Bwd(all), Bwd(two), s, e) /\ Fwd(all) = Fwd(two)
      /\ Held(all) = Held(two) /\ Lost(all) = Lost(two)
  BY <1>3, <1>5, SetBwd
<1> QED BY <1>e, <1>4, <1>5, <1>6, <1>7

-----------------------------------------------------------------------------
\* What is in the view of a path
LEMMA Fields ==
    ASSUME NEW p
    PROVE  /\ View(p).want = HopsOf(Wants, p) /\ View(p).write = HopsOf(Writes, p)
           /\ View(p).reply = HopsOf(Awaits, p) /\ View(p).read = HopsOf(Reads, p)
           /\ View(p).link = HopsOf(Links, p) /\ View(p).refused = HopsOf(Refusals, p)
           /\ View(p).held = HopsOf(Held(stream), p) /\ View(p).lost = HopsOf(Lost(stream), p)
           /\ View(p).fwd = RowOf(Fwd(stream), p) /\ View(p).bwd = RowOf(Bwd(stream), p)
           /\ View(p).outcome = outcome[p] /\ View(p).accepted = accepted[p]
           /\ View(p).down = got[p].fwd /\ View(p).up = got[p].bwd
           /\ View(p).sent = sent[p].fwd /\ View(p).back = sent[p].bwd
BY DEF View

LEMMA NextFields ==
    ASSUME NEW p
    PROVE  /\ View(p)'.want = HopsOf(Wants', p) /\ View(p)'.write = HopsOf(Writes', p)
           /\ View(p)'.reply = HopsOf(Awaits', p) /\ View(p)'.read = HopsOf(Reads', p)
           /\ View(p)'.link = HopsOf(Links', p) /\ View(p)'.refused = HopsOf(Refusals', p)
           /\ View(p)'.held = HopsOf(Held(stream'), p) /\ View(p)'.lost = HopsOf(Lost(stream'), p)
           /\ View(p)'.fwd = RowOf(Fwd(stream'), p) /\ View(p)'.bwd = RowOf(Bwd(stream'), p)
           /\ View(p)'.outcome = outcome'[p] /\ View(p)'.accepted = accepted'[p]
           /\ View(p)'.down = got'[p].fwd /\ View(p)'.up = got'[p].bwd
           /\ View(p)'.sent = sent'[p].fwd /\ View(p)'.back = sent'[p].bwd
BY DEF View, HopsOf, RowOf, Held, Lost, Fwd, Bwd

LEMMA ViewTyped ==
    ASSUME Wired, NEW p \in Paths
    PROVE  ViewType(View(p))
<1>1. \A X : HopsOf(X, p) \subseteq Hop
  BY DEF HopsOf
<1>2. \A f \in [Sid -> Seq(Parcel)] : RowOf(f, p) \in [Hop -> Seq(Parcel)]
  BY DEF RowOf, Sid
<1>3. Fwd(stream) \in [Sid -> Seq(Parcel)] /\ Bwd(stream) \in [Sid -> Seq(Parcel)]
  BY DEF Wired, Streams, Fwd, Bwd
<1>4. /\ got[p].fwd \in Seq(Parcel) /\ got[p].bwd \in Seq(Parcel)
      /\ sent[p].fwd \in Nat /\ sent[p].bwd \in Nat
  BY DEF Wired
<1> QED BY <1>1, <1>2, <1>3, <1>4, Fields DEF ViewType

LEMMA NextViewTyped ==
    ASSUME Wired', NEW p \in Paths
    PROVE  ViewType(View(p)')
<1>1. \A X : HopsOf(X, p) \subseteq Hop
  BY DEF HopsOf
<1>2. \A f \in [Sid -> Seq(Parcel)] : RowOf(f, p) \in [Hop -> Seq(Parcel)]
  BY DEF RowOf, Sid
<1>3. Fwd(stream') \in [Sid -> Seq(Parcel)] /\ Bwd(stream') \in [Sid -> Seq(Parcel)]
  BY DEF Wired, Streams, Fwd, Bwd
<1>4. /\ got'[p].fwd \in Seq(Parcel) /\ got'[p].bwd \in Seq(Parcel)
      /\ sent'[p].fwd \in Nat /\ sent'[p].bwd \in Nat
  BY DEF Wired
<1> QED BY <1>1, <1>2, <1>3, <1>4, NextFields DEF ViewType

\* Only path p is concerned.
Apart(p) == \A q \in Paths : q # p => View(q)' = View(q)
OnlyAt(new, old, p) == \A q \in Paths : q # p => HopsOf(new, q) = HopsOf(old, q)
OnlyRow(new, old, p) == \A q \in Paths : q # p => RowOf(new, q) = RowOf(old, q)

LEMMA ApartIs ==
    ASSUME NEW p \in Paths,
           OnlyAt(Wants', Wants, p), OnlyAt(Writes', Writes, p),
           OnlyAt(Awaits', Awaits, p), OnlyAt(Reads', Reads, p),
           OnlyAt(Links', Links, p), OnlyAt(Refusals', Refusals, p),
           OnlyAt(Held(stream'), Held(stream), p), OnlyAt(Lost(stream'), Lost(stream), p),
           OnlyRow(Fwd(stream'), Fwd(stream), p), OnlyRow(Bwd(stream'), Bwd(stream), p),
           \A q \in Paths : q # p => /\ outcome'[q] = outcome[q] /\ accepted'[q] = accepted[q]
                                     /\ got'[q] = got[q] /\ sent'[q] = sent[q]
    PROVE  Apart(p)
<1> SUFFICES ASSUME NEW q \in Paths, q # p PROVE View(q)' = View(q)
  BY DEF Apart
<1>1. /\ HopsOf(Wants', q) = HopsOf(Wants, q)
      /\ HopsOf(Writes', q) = HopsOf(Writes, q)
      /\ HopsOf(Awaits', q) = HopsOf(Awaits, q)
      /\ HopsOf(Reads', q) = HopsOf(Reads, q) /\ HopsOf(Links', q) = HopsOf(Links, q)
      /\ HopsOf(Refusals', q) = HopsOf(Refusals, q)
      /\ HopsOf(Held(stream'), q) = HopsOf(Held(stream), q)
      /\ HopsOf(Lost(stream'), q) = HopsOf(Lost(stream), q)
      /\ RowOf(Fwd(stream'), q) = RowOf(Fwd(stream), q) /\ RowOf(Bwd(stream'), q) = RowOf(Bwd(stream), q)
  BY DEF OnlyAt, OnlyRow
<1>2. View(q)' = [want |-> HopsOf(Wants', q), write |-> HopsOf(Writes', q),
                  reply |-> HopsOf(Awaits', q), read |-> HopsOf(Reads', q),
                  link |-> HopsOf(Links', q), refused |-> HopsOf(Refusals', q),
                  held |-> HopsOf(Held(stream'), q), lost |-> HopsOf(Lost(stream'), q),
                  fwd |-> RowOf(Fwd(stream'), q), bwd |-> RowOf(Bwd(stream'), q),
                  outcome |-> outcome'[q], accepted |-> accepted'[q],
                  down |-> got'[q].fwd, up |-> got'[q].bwd, sent |-> sent'[q].fwd, back |-> sent'[q].bwd]
  BY DEF View, HopsOf, RowOf, Held, Lost, Fwd, Bwd
<1> QED BY <1>1, <1>2 DEF View

LEMMA JoinsAt ==
    ASSUME NEW s \in Sid, NEW X, NEW Y, Joins(Y, X, s)
    PROVE  OnlyAt(Y, X, s[1]) /\ HopsOf(Y, s[1]) = HopsOf(X, s[1]) \cup {s[2]}
<1>1. s[1] \in Paths /\ s[2] \in Hop /\ s = <<s[1], s[2]>>
  BY DEF Sid
<1>2. \A q, h : <<q, h>> = s <=> q = s[1] /\ h = s[2]
  BY <1>1
<1> QED BY <1>1, <1>2 DEF HopsOf, OnlyAt, Joins

LEMMA LeavesAt ==
    ASSUME NEW s \in Sid, NEW X, NEW Y, Leaves(Y, X, s)
    PROVE  OnlyAt(Y, X, s[1]) /\ HopsOf(Y, s[1]) = HopsOf(X, s[1]) \ {s[2]}
<1>1. s[1] \in Paths /\ s[2] \in Hop /\ s = <<s[1], s[2]>>
  BY DEF Sid
<1>2. \A q, h : <<q, h>> = s <=> q = s[1] /\ h = s[2]
  BY <1>1
<1> QED BY <1>1, <1>2 DEF HopsOf, OnlyAt, Leaves

LEMMA PutsAt ==
    ASSUME NEW s \in Sid, NEW f \in [Sid -> Seq(Parcel)], NEW g, NEW x, Puts(g, f, s, x)
    PROVE  /\ OnlyRow(g, f, s[1]) /\ Changed(RowOf(g, s[1]), RowOf(f, s[1]), s[2], x)
<1>1. s[1] \in Paths /\ s[2] \in Hop /\ s = <<s[1], s[2]>>
  BY DEF Sid
<1>2. \A q, h : <<q, h>> = s <=> q = s[1] /\ h = s[2]
  BY <1>1
<1>3. \A q \in Paths : \A h \in Hop : <<q, h>> \in Sid
  BY DEF Sid
<1>4. \A q \in Paths : \A h \in Hop : g[<<q, h>>] = IF q = s[1] /\ h = s[2] THEN x ELSE f[<<q, h>>]
  BY <1>2, <1>3 DEF Puts
<1> QED BY <1>1, <1>4 DEF RowOf, OnlyRow, Changed

LEMMA StaysAt ==
    ASSUME NEW p, NEW X, NEW Y, X = Y
    PROVE  OnlyAt(Y, X, p) /\ OnlyRow(Y, X, p)
BY DEF OnlyAt, OnlyRow

\* What a stream is in and has in it, seen from its path
LEMMA AtHop ==
    ASSUME NEW s \in Sid
    PROVE  /\ \A X : s \in X <=> s[2] \in HopsOf(X, s[1])
           /\ \A f : f[s] = RowOf(f, s[1])[s[2]]
<1>1. s[1] \in Paths /\ s[2] \in Hop /\ s = <<s[1], s[2]>>
  BY DEF Sid
<1> QED BY <1>1 DEF HopsOf, RowOf

LEMMA CircuitsStep ==
    ASSUME Circuits, NEW p \in Paths, Apart(p), Circuit(View(p)', p)
    PROVE  Circuits'
<1>1. \A q \in Paths : Circuit(View(q)', q)
  <2>1. \A q \in Paths : Circuit(View(q), q)
    BY DEF Circuits
  <2>2. ASSUME NEW q \in Paths, q # p PROVE Circuit(View(q)', q)
    <3>1. View(q)' = View(q)
      BY <2>2 DEF Apart
    <3> QED BY <2>1, <3>1
  <2> QED BY <2>2
<1> QED BY <1>1 DEF Circuits

-----------------------------------------------------------------------------
\* Places: everything that is anywhere is where it was, or comes to where it belongs.
LEMMA LocatedStep ==
    ASSUME Located,
           \A q \in Paths : outcome[q] # "none" => outcome'[q] # "none" /\ route'[q] = route[q],
           \A n \in Node :
             /\ Range(want'[n]) \subseteq Range(want[n]) \cup Dials(n)' /\ IsInjective(want'[n])
             /\ outbound'[n] \subseteq outbound[n]
                  \cup [sid : Dials(n)', step : {"write"} \cup (IF n = Client THEN {"read"} ELSE {})]
             /\ inbound'[n] \subseteq inbound[n] \cup Serves(n)'
             /\ DOMAIN router'[n] \subseteq DOMAIN router[n] \cup Serves(n)'
             /\ DOMAIN error'[n] \subseteq DOMAIN error[n] \cup Serves(n)'
    PROVE  Located'
<1>1. \A n : Dials(n) \subseteq Dials(n)' /\ Serves(n) \subseteq Serves(n)'
  <2>1. \A s \in Sid : s[1] \in Paths
    BY DEF Sid
  <2> QED BY <2>1 DEF Dials, Serves, From, To
<1>2. ASSUME NEW n \in Node
      PROVE  outbound[n] \subseteq [sid : Dials(n)', step : {"write"} \cup (IF n = Client THEN {"read"} ELSE {})]
  <2>1. outbound[n] \subseteq [sid : Dials(n), step : {"write"} \cup (IF n = Client THEN {"read"} ELSE {})]
    BY DEF Located
  <2>2. \A A, B, C : A \subseteq B => [sid : A, step : C] \subseteq [sid : B, step : C]
    OBVIOUS
  <2> QED BY <1>1, <2>1, <2>2
<1> QED BY <1>1, <1>2 DEF Located

\* The streams of an open path that a relay or the client is at
LEMMA Places ==
    ASSUME Located, Routed, NEW n \in Node, NEW s \in Sid
    PROVE  /\ s \in Range(want[n]) => s \in Dials(n)
           /\ [sid |-> s, step |-> "write"] \in outbound[n] => s \in Dials(n)
           /\ [sid |-> s, step |-> "read"] \in outbound[n] => s \in Dials(n) /\ n = Client
           /\ s \in inbound[n] => s \in Serves(n)
           /\ s \in DOMAIN router[n] => s \in Serves(n)
           /\ s \in DOMAIN error[n] => s \in Serves(n)
<1>1. \A e \in outbound[n] : e.sid \in Dials(n) /\ (e.step = "read" => n = Client)
  BY DEF Located
<1>2. \A x : [sid |-> s, step |-> x].sid = s /\ [sid |-> s, step |-> x].step = x
  OBVIOUS
<1>3. /\ [sid |-> s, step |-> "write"] \in outbound[n] => s \in Dials(n)
      /\ [sid |-> s, step |-> "read"] \in outbound[n] => s \in Dials(n) /\ n = Client
  BY <1>1, <1>2
<1> QED BY <1>3 DEF Located

LEMMA RouteFacts ==
    ASSUME Routed, NEW p \in Paths, outcome[p] # "none"
    PROVE  /\ route[p] \in [1 .. 3 -> Servers] /\ route[p] \in Routes
           /\ \A h \in Hop : route[p][h] \in Servers /\ route[p][h] # Client
BY OnionAssumption DEF Routed, Hop

\* A relay opens hop 2 or 3, and it is at the end of the hop before.
LEMMA AtRelay ==
    ASSUME Routed, NEW n \in Node, NEW s \in Dials(n), n # Client
    PROVE  /\ s \in Sid /\ s[2] \in {2, 3} /\ Prev(s) \in Serves(n) /\ Prev(s) \in Sid
           /\ Prev(s)[1] = s[1] /\ Prev(s)[2] = s[2] - 1 /\ s[2] - 1 \in {1, 2}
<1>1. s \in Sid /\ s[1] \in Paths /\ s[2] \in 1 .. 3 /\ outcome[s[1]] # "none" /\ n = From(s)
  BY DEF Dials, Sid, Hop
<1>2. s[2] # 1
  BY <1>1 DEF From
<1>3. s[2] \in {2, 3} /\ s[2] - 1 \in {1, 2}
  BY <1>1, <1>2
<1>4. Prev(s) \in Sid /\ Prev(s)[1] = s[1] /\ Prev(s)[2] = s[2] - 1
  BY <1>1, <1>3 DEF Prev, Sid, Hop
<1>5. To(Prev(s)) = From(s)
  BY <1>2, <1>4 DEF To, From
<1> QED BY <1>1, <1>3, <1>4, <1>5 DEF Serves

LEMMA AtClient ==
    ASSUME Routed, NEW s \in Dials(Client)
    PROVE  s \in Sid /\ s[1] \in Paths /\ s[2] = 1 /\ s = <<s[1], 1>>
<1>1. s \in Sid /\ s[1] \in Paths /\ s[2] \in Hop /\ outcome[s[1]] # "none" /\ Client = From(s)
      /\ s = <<s[1], s[2]>>
  BY DEF Dials, Sid
<1>2. CASE s[2] # 1
  <2>1. s[2] - 1 \in Hop
    BY <1>1, <1>2 DEF Hop
  <2>2. Client # route[s[1]][s[2] - 1]
    BY <1>1, <2>1, RouteFacts
  <2> QED BY <1>1, <1>2, <2>2 DEF From
<1> QED BY <1>1, <1>2

\* The next hop starts where this one ends.
LEMMA AtNext ==
    ASSUME NEW n, NEW s \in Serves(n), s[2] # 3
    PROVE  /\ s \in Sid /\ After(s) \in Sid /\ After(s) \in Dials(n)
           /\ After(s)[1] = s[1] /\ After(s)[2] = s[2] + 1 /\ s[2] \in {1, 2}
<1>1. s \in Sid /\ s[1] \in Paths /\ s[2] \in 1 .. 3 /\ outcome[s[1]] # "none" /\ n = To(s)
  BY DEF Serves, Sid, Hop
<1>2. s[2] \in {1, 2} /\ s[2] + 1 \in {2, 3} /\ s[2] + 1 - 1 = s[2] /\ s[2] + 1 # 1
  BY <1>1
<1>3. After(s) \in Sid /\ After(s)[1] = s[1] /\ After(s)[2] = s[2] + 1
  BY <1>1, <1>2 DEF After, Sid, Hop
<1>4. From(After(s)) = To(s)
  BY <1>2, <1>3 DEF From, To
<1> QED BY <1>1, <1>2, <1>3, <1>4 DEF Dials

-----------------------------------------------------------------------------
\* A stream is asked for.
LEMMA WantsAdd ==
    ASSUME Wired, Located, NEW n \in Node, NEW s \in Sid, s \notin Range(want[n]),
           want' = [want EXCEPT ![n] = Append(@, s)]
    PROVE  /\ Joins(Wants', Wants, s) /\ want' \in [Node -> Seq(Sid)]
           /\ \A m \in Node : /\ Range(want'[m]) \subseteq Range(want[m]) \cup {x \in {s} : m = n}
                              /\ IsInjective(want'[m])
<1> DEFINE q == want[n]  r == Append(q, s)
<1>1. q \in Seq(Sid) /\ IsInjective(q) /\ DOMAIN want = Node /\ s \notin Range(q)
  BY DEF Wired, Located
<1>6. want' = [want EXCEPT ![n] = r]
  OBVIOUS
<1>2. /\ r \in Seq(Sid) /\ DOMAIN r = 1 .. Len(q) + 1 /\ DOMAIN q = 1 .. Len(q) /\ Len(q) \in Nat
      /\ \A i \in 1 .. Len(q) : r[i] = q[i]
      /\ r[Len(q) + 1] = s
  <2> HIDE DEF q
  <2> QED BY <1>1, AppendProperties, LenProperties
<1> HIDE DEF q, r
<1>3. Range(r) = Range(q) \cup {s}
  BY <1>2 DEF Range
<1>4. IsInjective(r)
  BY <1>1, <1>2 DEF IsInjective, Range
<1>5. \A m \in Node : want'[m] = IF m = n THEN r ELSE want[m]
  BY <1>1, <1>6
<1>7. Wants' = Wants \cup {s}
  <2>1. \A x \in Sid : (\E m \in Node : x \in Range(want'[m])) <=> (\E m \in Node : x \in Range(want[m])) \/ x = s
    BY <1>3, <1>5 DEF q
  <2> QED BY <2>1 DEF Wants
<1>8. want' \in [Node -> Seq(Sid)]
  BY <1>2, <1>6 DEF Wired
<1> QED BY <1>3, <1>4, <1>5, <1>7, <1>8 DEF q, Located, Joins

\* The first request for peer t is answered.
LEMMA FirstIs ==
    ASSUME Wired, NEW n \in Node, NEW t, \E i \in DOMAIN want[n] : To(want[n][i]) = t
    PROVE  FirstTo(n, t) \in DOMAIN want[n] /\ To(want[n][FirstTo(n, t)]) = t
<1> DEFINE T == {i \in DOMAIN want[n] : To(want[n][i]) = t}
<1>1. T \subseteq Nat /\ T # {} /\ DOMAIN want[n] = 1 .. Len(want[n]) /\ Len(want[n]) \in Nat
  <2>1. want[n] \in Seq(Sid)
    BY DEF Wired
  <2>2. DOMAIN want[n] = 1 .. Len(want[n]) /\ Len(want[n]) \in Nat
    BY <2>1, LenProperties
  <2> QED BY <2>2
<1>2. PICK m \in T : \A y \in T : m <= y
  <2> HIDE DEF T
  <2> QED BY <1>1, LeastNumber
<1>3. \A j \in 1 .. m - 1 : To(want[n][j]) # t
  <2>1. ASSUME NEW j \in 1 .. m - 1, To(want[n][j]) = t PROVE FALSE
    <3>1. m \in Nat /\ j \in 1 .. Len(want[n]) /\ j < m
      BY <1>1
    <3>2. j \in T
      BY <1>1, <2>1, <3>1
    <3> QED BY <1>2, <3>1, <3>2
  <2> QED BY <2>1
<1>4. \E i \in DOMAIN want[n] : To(want[n][i]) = t /\ \A j \in 1 .. i - 1 : To(want[n][j]) # t
  BY <1>3
<1> QED BY <1>4 DEF FirstTo

LEMMA SwapRemoveFacts ==
    ASSUME NEW q \in Seq(Sid), IsInjective(q), NEW k \in DOMAIN q
    PROVE  LET r == SwapRemove(q, k) IN
           r \in Seq(Sid) /\ IsInjective(r) /\ Range(r) = Range(q) \ {q[k]}
<1> DEFINE n == Len(q)  r == SwapRemove(q, k)
<1>1. n \in Nat /\ DOMAIN q = 1 .. n /\ k \in 1 .. n /\ \A i \in 1 .. n : q[i] \in Sid
  BY LenProperties, ElementOfSeq
<1>2. r = [j \in 1 .. n - 1 |-> IF j = k THEN q[n] ELSE q[j]]
  BY DEF SwapRemove
<1> HIDE DEF n, r
<1>3. DOMAIN r = 1 .. n - 1 /\ \A j \in 1 .. n - 1 : r[j] = IF j = k THEN q[n] ELSE q[j]
  BY <1>2
<1>4. r \in Seq(Sid)
  <2>1. n - 1 \in Nat /\ \A j \in 1 .. n - 1 : r[j] \in Sid
    BY <1>1, <1>3
  <2>2. r \in [1 .. n - 1 -> Sid]
    BY <1>2, <2>1, <1>3
  <2> QED BY <2>1, <2>2, SeqDef
<1>5. \A i, j \in 1 .. n : q[i] = q[j] => i = j
  BY <1>1 DEF IsInjective
<1>6. IsInjective(r)
  <2>1. ASSUME NEW i \in 1 .. n - 1, NEW j \in 1 .. n - 1, r[i] = r[j] PROVE i = j
    <3>1. i \in 1 .. n /\ j \in 1 .. n /\ n \in 1 .. n /\ i # n /\ j # n
      BY <1>1
    <3> QED BY <1>3, <1>5, <2>1, <3>1
  <2> QED BY <1>3, <2>1 DEF IsInjective
<1>7. \A x : x \in Range(r) <=> x \in Range(q) /\ x # q[k]
  <2>1. ASSUME NEW j \in 1 .. n - 1 PROVE r[j] \in Range(q) /\ r[j] # q[k]
    <3>1. j \in 1 .. n /\ n \in 1 .. n /\ j # n
      BY <1>1
    <3>2. CASE j = k
      BY <1>1, <1>3, <1>5, <3>1, <3>2 DEF Range
    <3>3. CASE j # k
      BY <1>1, <1>3, <1>5, <3>1, <3>3 DEF Range
    <3> QED BY <3>2, <3>3
  <2>2. ASSUME NEW i \in 1 .. n, q[i] # q[k] PROVE q[i] \in Range(r)
    <3>1. CASE i = n
      <4>1. k \in 1 .. n - 1
        BY <1>1, <2>2, <3>1
      <4>2. r[k] = q[i]
        BY <1>3, <3>1, <4>1
      <4> QED BY <1>3, <4>1, <4>2 DEF Range
    <3>2. CASE i # n
      <4>1. i \in 1 .. n - 1 /\ i # k
        BY <1>1, <2>2, <3>2
      <4>2. r[i] = q[i]
        BY <1>3, <4>1
      <4> QED BY <1>3, <4>1, <4>2 DEF Range
    <3> QED BY <3>1, <3>2
  <2>3. \A x : x \in Range(r) => \E j \in 1 .. n - 1 : x = r[j]
    BY <1>3 DEF Range
  <2>4. \A x : x \in Range(q) => \E j \in 1 .. n : x = q[j]
    BY <1>1 DEF Range
  <2> QED BY <2>1, <2>2, <2>3, <2>4
<1> QED BY <1>4, <1>6, <1>7 DEF r

LEMMA WantsServed ==
    ASSUME Wired, Located, NEW n \in Node, NEW t, \E i \in DOMAIN want[n] : To(want[n][i]) = t,
           NEW s, s = want[n][FirstTo(n, t)],
           want' = [want EXCEPT ![n] = SwapRemove(@, FirstTo(n, t))]
    PROVE  /\ s \in Range(want[n]) /\ s \in Sid /\ s \in Wants /\ To(s) = t
           /\ Leaves(Wants', Wants, s) /\ want' \in [Node -> Seq(Sid)]
           /\ \A m \in Node : Range(want'[m]) \subseteq Range(want[m]) /\ IsInjective(want'[m])
<1> DEFINE q == want[n]  k == FirstTo(n, t)  r == SwapRemove(q, k)
<1>1. q \in Seq(Sid) /\ IsInjective(q) /\ DOMAIN want = Node
  BY DEF Wired, Located
<1>2. k \in DOMAIN q /\ To(q[k]) = t /\ s = q[k]
  BY FirstIs
<1>3. want' = [want EXCEPT ![n] = r]
  OBVIOUS
<1> HIDE DEF q, k
<1>4. r \in Seq(Sid) /\ IsInjective(r) /\ Range(r) = Range(q) \ {s}
  BY <1>1, <1>2, SwapRemoveFacts
<1> HIDE DEF r
<1>5. s \in Range(q) /\ Range(q) \subseteq Sid
  <2>1. \A i \in DOMAIN q : q[i] \in Sid
    BY <1>1, ElementOfSeq, LenProperties
  <2> QED BY <1>2, <2>1 DEF Range
<1>6. \A m \in Node : want'[m] = IF m = n THEN r ELSE want[m]
  BY <1>1, <1>3
<1>7. \A m \in Node : s \in Range(want[m]) => m = n
  <2>1. \A m \in Node : Range(want[m]) \subseteq Dials(m)
    BY DEF Located
  <2> QED BY <1>5, <2>1 DEF q, Dials
<1>8. Wants' = Wants \ {s}
  <2>1. \A x \in Sid : (\E m \in Node : x \in Range(want'[m])) <=> (\E m \in Node : x \in Range(want[m])) /\ x # s
    BY <1>4, <1>6, <1>7 DEF q
  <2> QED BY <2>1 DEF Wants
<1>9. want' \in [Node -> Seq(Sid)]
  BY <1>3, <1>4 DEF Wired
<1> QED BY <1>2, <1>4, <1>5, <1>6, <1>8, <1>9 DEF q, Located, Wants, Leaves

-----------------------------------------------------------------------------
\* A stream is to be written to, or to be read from; and no more.
LEMMA RequestEq ==
    ASSUME NEW r, NEW y, NEW s, NEW x
    PROVE  [sid |-> r, step |-> y] = [sid |-> s, step |-> x] <=> r = s /\ y = x
<1>1. ASSUME [sid |-> r, step |-> y] = [sid |-> s, step |-> x] PROVE r = s /\ y = x
  <2>1. /\ [sid |-> r, step |-> y].sid = [sid |-> s, step |-> x].sid
        /\ [sid |-> r, step |-> y].step = [sid |-> s, step |-> x].step
    BY <1>1
  <2> QED BY <2>1
<1> QED BY <1>1

LEMMA WriteBegun ==
    ASSUME Wired, NEW n \in Node, NEW s \in Sid,
           outbound' = [outbound EXCEPT ![n] = @ \cup {[sid |-> s, step |-> "write"]}]
    PROVE  Joins(Writes', Writes, s) /\ Awaits' = Awaits
<1>1. \A m \in Node : outbound'[m] = IF m = n THEN outbound[n] \cup {[sid |-> s, step |-> "write"]} ELSE outbound[m]
  BY DEF Wired
<1>2. \A r : /\ [sid |-> r, step |-> "write"] = [sid |-> s, step |-> "write"] <=> r = s
            /\ [sid |-> r, step |-> "read"] # [sid |-> s, step |-> "write"]
  BY RequestEq
<1> QED BY <1>1, <1>2 DEF Writes, Awaits, Joins

LEMMA RequestOwner ==
    ASSUME Located, NEW m \in Node, NEW n \in Node, NEW s, NEW x,
           [sid |-> s, step |-> x] \in outbound[m], [sid |-> s, step |-> x] \in outbound[n]
    PROVE  m = n
<1>1. \A k \in Node : \A e \in outbound[k] : k = From(e.sid)
  BY DEF Located, Dials
<1>2. m = From([sid |-> s, step |-> x].sid) /\ n = From([sid |-> s, step |-> x].sid)
  BY <1>1
<1> QED BY <1>2

LEMMA WriteDone ==
    ASSUME Wired, Located, NEW n \in Node, NEW s \in Sid, [sid |-> s, step |-> "write"] \in outbound[n],
           outbound' = [outbound EXCEPT ![n] = @ \ {[sid |-> s, step |-> "write"]}]
    PROVE  s \in Writes /\ Leaves(Writes', Writes, s) /\ Awaits' = Awaits
<1>1. \A m \in Node : outbound'[m] = IF m = n THEN outbound[n] \ {[sid |-> s, step |-> "write"]} ELSE outbound[m]
  BY DEF Wired
<1>2. \A r : /\ [sid |-> r, step |-> "write"] = [sid |-> s, step |-> "write"] <=> r = s
            /\ [sid |-> r, step |-> "read"] # [sid |-> s, step |-> "write"]
  BY RequestEq
<1>3. \A m \in Node : [sid |-> s, step |-> "write"] \in outbound[m] => m = n
  BY RequestOwner
<1> QED BY <1>1, <1>2, <1>3 DEF Writes, Awaits, Leaves

LEMMA AwaitDone ==
    ASSUME Wired, Located, NEW n \in Node, NEW s \in Sid, [sid |-> s, step |-> "read"] \in outbound[n],
           outbound' = [outbound EXCEPT ![n] = @ \ {[sid |-> s, step |-> "read"]}]
    PROVE  s \in Awaits /\ Leaves(Awaits', Awaits, s) /\ Writes' = Writes
<1>1. \A m \in Node : outbound'[m] = IF m = n THEN outbound[n] \ {[sid |-> s, step |-> "read"]} ELSE outbound[m]
  BY DEF Wired
<1>2. \A r : /\ [sid |-> r, step |-> "read"] = [sid |-> s, step |-> "read"] <=> r = s
            /\ [sid |-> r, step |-> "write"] # [sid |-> s, step |-> "read"]
  BY RequestEq
<1>3. \A m \in Node : [sid |-> s, step |-> "read"] \in outbound[m] => m = n
  BY RequestOwner
<1> QED BY <1>1, <1>2, <1>3 DEF Writes, Awaits, Leaves

\* The client has written its packet and waits for the answer.
LEMMA WriteMoved ==
    ASSUME Wired, Located, NEW n \in Node, NEW s \in Sid, [sid |-> s, step |-> "write"] \in outbound[n],
           outbound' = [outbound EXCEPT ![n] = (outbound[n] \ {[sid |-> s, step |-> "write"]})
                                               \cup {[sid |-> s, step |-> "read"]}]
    PROVE  s \in Writes /\ Leaves(Writes', Writes, s) /\ Joins(Awaits', Awaits, s)
<1>1. \A m \in Node : outbound'[m] = IF m = n THEN (outbound[n] \ {[sid |-> s, step |-> "write"]})
                                                   \cup {[sid |-> s, step |-> "read"]}
                                     ELSE outbound[m]
  BY DEF Wired
<1>2. \A r : /\ [sid |-> r, step |-> "write"] = [sid |-> s, step |-> "write"] <=> r = s
            /\ [sid |-> r, step |-> "read"] = [sid |-> s, step |-> "read"] <=> r = s
            /\ [sid |-> r, step |-> "read"] # [sid |-> s, step |-> "write"]
            /\ [sid |-> r, step |-> "write"] # [sid |-> s, step |-> "read"]
  BY RequestEq
<1>3. \A m \in Node : [sid |-> s, step |-> "write"] \in outbound[m] => m = n
  BY RequestOwner
<1> QED BY <1>1, <1>2, <1>3 DEF Writes, Awaits, Leaves, Joins

\* A packet is awaited, and no more.
LEMMA ReadBegun ==
    ASSUME Wired, NEW n \in Node, NEW s \in Sid, inbound' = [inbound EXCEPT ![n] = @ \cup {s}]
    PROVE  Joins(Reads', Reads, s)
<1>1. \A m \in Node : inbound'[m] = IF m = n THEN inbound[n] \cup {s} ELSE inbound[m]
  BY DEF Wired
<1> QED BY <1>1 DEF Reads, Joins, Leaves

LEMMA ReadDone ==
    ASSUME Wired, Located, NEW n \in Node, NEW s \in Sid, s \in inbound[n],
           inbound' = [inbound EXCEPT ![n] = @ \ {s}]
    PROVE  s \in Reads /\ Leaves(Reads', Reads, s)
<1>1. \A m \in Node : inbound'[m] = IF m = n THEN inbound[n] \ {s} ELSE inbound[m]
  BY DEF Wired
<1>2. \A m \in Node : s \in inbound[m] => m = n
  BY DEF Located, Serves
<1> QED BY <1>1, <1>2 DEF Reads, Joins, Leaves

\* Routes are added, dropped or marked.
LEMMA LinksKept ==
    ASSUME Wired, NEW n \in Node, NEW rt, DOMAIN rt = DOMAIN router[n], router' = [router EXCEPT ![n] = rt]
    PROVE  Links' = Links /\ DOMAIN router' = Node /\ \A m \in Node : DOMAIN router'[m] = DOMAIN router[m]
<1>1. \A m \in Node : DOMAIN router'[m] = DOMAIN router[m]
  BY DEF Wired
<1> QED BY <1>1 DEF Links, Wired, Joins, Leaves

LEMMA LinkAdded ==
    ASSUME Wired, NEW n \in Node, NEW s \in Sid, NEW rt, NEW x, DOMAIN rt = DOMAIN router[n],
           router' = [router EXCEPT ![n] = With(rt, s, x)]
    PROVE  /\ Joins(Links', Links, s) /\ DOMAIN router' = Node
           /\ \A m \in Node : DOMAIN router'[m] = DOMAIN router[m] \cup {y \in {s} : m = n}
<1>1. DOMAIN With(rt, s, x) = DOMAIN router[n] \cup {s}
  BY DEF With
<1>2. \A m \in Node : DOMAIN router'[m] = DOMAIN router[m] \cup {y \in {s} : m = n}
  BY <1>1 DEF Wired
<1> QED BY <1>2 DEF Links, Wired, Joins, Leaves

LEMMA LinkDropped ==
    ASSUME Wired, Located, NEW n \in Node, NEW s \in Sid, s \in DOMAIN router[n],
           router' = [router EXCEPT ![n] = [r \in DOMAIN @ \ {s} |-> @[r]]]
    PROVE  /\ s \in Links /\ Leaves(Links', Links, s) /\ DOMAIN router' = Node
           /\ \A m \in Node : DOMAIN router'[m] \subseteq DOMAIN router[m]
<1>1. \A m \in Node : DOMAIN router'[m] = IF m = n THEN DOMAIN router[n] \ {s} ELSE DOMAIN router[m]
  BY DEF Wired
<1>2. \A m \in Node : s \in DOMAIN router[m] => m = n
  BY DEF Located, Serves
<1> QED BY <1>1, <1>2 DEF Links, Wired, Joins, Leaves

\* Refusals are added and told.
LEMMA RefusalAdded ==
    ASSUME Wired, NEW n \in Node, NEW s \in Sid, NEW x \in Code,
           error' = [error EXCEPT ![n] = With(@, s, x)]
    PROVE  /\ Joins(Refusals', Refusals, s) /\ DOMAIN error' = Node
           /\ \A m \in Node : /\ DOMAIN error'[m] = DOMAIN error[m] \cup {y \in {s} : m = n}
                              /\ error'[m] \in [DOMAIN error'[m] -> Code]
<1> DEFINE w == With(error[n], s, x)
<1>1. DOMAIN w = DOMAIN error[n] \cup {s} /\ w \in [DOMAIN w -> Code]
  <2>1. error[n] \in [DOMAIN error[n] -> Code]
    BY DEF Wired
  <2>2. \A r \in DOMAIN error[n] \cup {s} : (IF r \in DOMAIN error[n] THEN error[n][r] ELSE x) \in Code
    BY <2>1
  <2>3. w \in [DOMAIN error[n] \cup {s} -> Code]
    BY <2>2 DEF With
  <2> HIDE DEF w
  <2> QED BY <2>3
<1>2. error' = [error EXCEPT ![n] = w]
  OBVIOUS
<1> HIDE DEF w
<1>3. DOMAIN error' = Node /\ \A m \in Node : error'[m] = IF m = n THEN w ELSE error[m]
  BY <1>2 DEF Wired
<1>4. \A m \in Node : error[m] \in [DOMAIN error[m] -> Code]
  BY DEF Wired
<1>5. \A m \in Node : /\ DOMAIN error'[m] = DOMAIN error[m] \cup {y \in {s} : m = n}
                      /\ error'[m] \in [DOMAIN error'[m] -> Code]
  BY <1>1, <1>3, <1>4
<1> QED BY <1>3, <1>5 DEF Refusals, Joins, Leaves

LEMMA RefusalTold ==
    ASSUME Wired, Located, NEW n \in Node, NEW s \in Sid, s \in DOMAIN error[n],
           error' = [error EXCEPT ![n] = [r \in DOMAIN @ \ {s} |-> @[r]]]
    PROVE  /\ s \in Refusals /\ Leaves(Refusals', Refusals, s) /\ DOMAIN error' = Node /\ error[n][s] \in Code
           /\ \A m \in Node : /\ DOMAIN error'[m] \subseteq DOMAIN error[m]
                              /\ error'[m] \in [DOMAIN error'[m] -> Code]
<1> DEFINE w == [r \in DOMAIN error[n] \ {s} |-> error[n][r]]
<1>1. DOMAIN w = DOMAIN error[n] \ {s} /\ w \in [DOMAIN w -> Code] /\ error[n][s] \in Code
  BY DEF Wired
<1>2. error' = [error EXCEPT ![n] = w]
  OBVIOUS
<1> HIDE DEF w
<1>3. DOMAIN error' = Node /\ \A m \in Node : error'[m] = IF m = n THEN w ELSE error[m]
  BY <1>2 DEF Wired
<1>4. \A m \in Node : error[m] \in [DOMAIN error[m] -> Code]
  BY DEF Wired
<1>5. \A m \in Node : s \in DOMAIN error[m] => m = n
  BY DEF Located, Serves
<1>6. \A m \in Node : /\ DOMAIN error'[m] = IF m = n THEN DOMAIN error[n] \ {s} ELSE DOMAIN error[m]
                      /\ error'[m] \in [DOMAIN error'[m] -> Code]
  BY <1>1, <1>3, <1>4
<1> QED BY <1>1, <1>3, <1>5, <1>6 DEF Refusals, Joins, Leaves

\* What stays when a variable does
LEMMA Kept ==
    /\ UNCHANGED want => Wants' = Wants
    /\ UNCHANGED outbound => Writes' = Writes /\ Awaits' = Awaits
    /\ UNCHANGED inbound => Reads' = Reads
    /\ UNCHANGED router => Links' = Links
    /\ UNCHANGED error => Refusals' = Refusals
    /\ UNCHANGED stream => /\ Held(stream') = Held(stream) /\ Lost(stream') = Lost(stream)
                           /\ Fwd(stream') = Fwd(stream) /\ Bwd(stream') = Bwd(stream)
BY DEF Wants, Writes, Awaits, Reads, Links, Refusals

-----------------------------------------------------------------------------
LEMMA WiredParts ==
    ASSUME Wired, stream' \in Streams, got' = got, sent' = sent, want' \in [Node -> Seq(Sid)],
           DOMAIN route' = Paths, DOMAIN outcome' = Paths, DOMAIN accepted' = Paths,
           DOMAIN inbound' = Node, DOMAIN outbound' = Node, DOMAIN router' = Node, DOMAIN error' = Node,
           \A n \in Node : error'[n] \in [DOMAIN error'[n] -> Code]
    PROVE  Wired'
BY DEF Wired, Streams

\* One path of them
LEMMA ThisCircuit ==
    ASSUME Circuits, Wired', NEW p \in Paths
    PROVE  Circuit(View(p), p) /\ ViewType(View(p)')
BY NextViewTyped DEF Circuits

LEMMA OpenPathCircuit ==
    ASSUME CircuitInv, NEW p \in Paths, NEW r \in Routes, NEW k \in {0, 2, 3}, OpenPath(p, r, k)
    PROVE  CircuitInv'
<1> USE DEF CircuitInv
<1> DEFINE s == <<p, 1>>
<1>s. s \in Sid /\ s[1] = p /\ s[2] = 1 /\ Client \in Node
  BY DEF Sid, Hop, Node
<1>a. /\ outcome[p] = "none" /\ route' = [route EXCEPT ![p] = r] /\ outcome' = [outcome EXCEPT ![p] = "pending"]
      /\ want' = [want EXCEPT ![Client] = Append(@, s)]
      /\ UNCHANGED <<config, stream, inbound, outbound, router, error, accepted, got, sent>>
  BY DEF OpenPath
<1>n. s \notin Range(want[Client])
  BY <1>a, <1>s, Places DEF Dials
<1> HIDE DEF s
<1>d. /\ Joins(Wants', Wants, s) /\ want' \in [Node -> Seq(Sid)]
      /\ \A m \in Node : /\ Range(want'[m]) \subseteq Range(want[m]) \cup {x \in {s} : m = Client}
                         /\ IsInjective(want'[m])
  BY <1>a, <1>n, <1>s, WantsAdd
<1>o. \A q \in Paths : /\ outcome'[q] = IF q = p THEN "pending" ELSE outcome[q]
                       /\ route'[q] = IF q = p THEN r ELSE route[q]
  BY <1>a DEF Wired
<1>w. Wired'
  BY <1>a, <1>d DEF Wired, Streams
<1>r. Routed'
  BY <1>o DEF Routed
<1>l. Located'
  <2>1. s \in Dials(Client)'
    BY <1>s, <1>o DEF Dials, From
  <2> QED BY <1>a, <1>d, <1>o, <2>1, LocatedStep
<1>c. Circuits'
  <2>1. /\ Writes' = Writes /\ Awaits' = Awaits /\ Reads' = Reads
        /\ Links' = Links /\ Refusals' = Refusals
        /\ Held(stream') = Held(stream) /\ Lost(stream') = Lost(stream)
        /\ Fwd(stream') = Fwd(stream) /\ Bwd(stream') = Bwd(stream)
    BY <1>a, Kept
  <2>5. OnlyAt(Wants', Wants, p) /\ HopsOf(Wants', p) = HopsOf(Wants, p) \cup {1}
    BY <1>d, <1>s, JoinsAt
  <2>2. Apart(p)
    BY <1>a, <1>o, <1>s, <2>1, <2>5, StaysAt, ApartIs
  <2>3. Circuit(View(p)', p)
    <3> DEFINE v == View(p)  w == View(p)'
    <3>1. Circuit(v, p) /\ ViewType(w)
      BY <1>w, ThisCircuit
    <3>2. /\ v.outcome = "none" /\ w.outcome = "pending" /\ w.want = v.want \cup {1}
          /\ w.write = v.write /\ w.reply = v.reply /\ w.read = v.read /\ w.link = v.link
          /\ w.refused = v.refused /\ w.held = v.held /\ w.lost = v.lost
          /\ w.fwd = v.fwd /\ w.bwd = v.bwd /\ w.accepted = v.accepted /\ SameEnds(v, w)
      BY <1>a, <1>o, <2>1, <2>5, Fields, NextFields DEF SameEnds
    <3> HIDE DEF v, w
    <3>3. Circuit(w, p)
      BY <3>1, <3>2, ViewOpened
    <3> QED BY <3>3 DEF w
  <2> QED BY <2>2, <2>3, CircuitsStep
<1> QED BY <1>w, <1>r, <1>l, <1>c

LEMMA StreamReadyCircuit ==
    ASSUME CircuitInv, NEW n \in Node, NEW t \in Servers, StreamReady(n, t)
    PROVE  CircuitInv'
<1> USE DEF CircuitInv
<1>p. PICK s : s = want[n][FirstTo(n, t)]
  OBVIOUS
<1>a. /\ \E i \in DOMAIN want[n] : To(want[n][i]) = t
      /\ stream' = [stream EXCEPT ![s] = NewStream]
      /\ outbound' = [outbound EXCEPT ![n] = @ \cup {[sid |-> s, step |-> "write"]}]
      /\ inbound' = [inbound EXCEPT ![t] = @ \cup {s}]
      /\ want' = [want EXCEPT ![n] = SwapRemove(@, FirstTo(n, t))]
      /\ UNCHANGED <<config, route, stale, router, error, outcome, accepted, got, sent, faults>>
  BY <1>p DEF StreamReady
<1>d. /\ s \in Range(want[n]) /\ s \in Sid /\ s \in Wants /\ To(s) = t
      /\ Leaves(Wants', Wants, s) /\ want' \in [Node -> Seq(Sid)]
      /\ \A m \in Node : Range(want'[m]) \subseteq Range(want[m]) /\ IsInjective(want'[m])
  BY <1>a, <1>p, WantsServed
<1> DEFINE p == s[1]  h == s[2]
<1>s. p \in Paths /\ h \in Hop /\ s \in Dials(n) /\ t \in Node
  BY <1>d, Places DEF Sid, Node
<1>e. /\ stream' \in Streams /\ Puts(Fwd(stream'), Fwd(stream), s, <<>>)
      /\ Puts(Bwd(stream'), Bwd(stream), s, <<>>)
      /\ Joins(Held(stream'), Held(stream), s) /\ Leaves(Lost(stream'), Lost(stream), s)
      /\ Fwd(stream) \in [Sid -> Seq(Parcel)] /\ Bwd(stream) \in [Sid -> Seq(Parcel)]
  BY <1>a, <1>d, FreshStream, StreamFields DEF Wired
<1>f. /\ Joins(Writes', Writes, s) /\ Awaits' = Awaits
      /\ Joins(Reads', Reads, s)
  BY <1>a, <1>d, <1>s, WriteBegun, ReadBegun
<1>g. Links' = Links /\ Refusals' = Refusals
  BY <1>a, Kept
<1>w. Wired'
  BY <1>a, <1>d, <1>e, WiredParts DEF Wired
<1>r. Routed'
  BY <1>a DEF Routed
<1>l. Located'
  <2>1. s \in Dials(n)' /\ s \in Serves(t)'
    BY <1>a, <1>s, <1>d DEF Dials, Serves, From, To
  <2>2. \A m \in Node : /\ outbound'[m] \subseteq outbound[m]
                             \cup [sid : Dials(m)', step : {"write"} \cup (IF m = Client THEN {"read"} ELSE {})]
                        /\ inbound'[m] \subseteq inbound[m] \cup Serves(m)'
    BY <1>a, <2>1 DEF Wired
  <2> QED BY <1>a, <1>d, <2>2, LocatedStep
<1>c. Circuits'
  <2>1. /\ OnlyAt(Wants', Wants, p) /\ HopsOf(Wants', p) = HopsOf(Wants, p) \ {h}
        /\ OnlyAt(Writes', Writes, p) /\ HopsOf(Writes', p) = HopsOf(Writes, p) \cup {h}
        /\ OnlyAt(Reads', Reads, p) /\ HopsOf(Reads', p) = HopsOf(Reads, p) \cup {h}
        /\ OnlyAt(Held(stream'), Held(stream), p) /\ HopsOf(Held(stream'), p) = HopsOf(Held(stream), p) \cup {h}
        /\ OnlyAt(Lost(stream'), Lost(stream), p) /\ HopsOf(Lost(stream'), p) = HopsOf(Lost(stream), p) \ {h}
    BY <1>d, <1>e, <1>f, JoinsAt, LeavesAt
  <2>2. /\ OnlyRow(Fwd(stream'), Fwd(stream), p) /\ Changed(RowOf(Fwd(stream'), p), RowOf(Fwd(stream), p), h, <<>>)
        /\ OnlyRow(Bwd(stream'), Bwd(stream), p) /\ Changed(RowOf(Bwd(stream'), p), RowOf(Bwd(stream), p), h, <<>>)
    BY <1>d, <1>e, PutsAt
  <2>3. Apart(p)
    BY <1>a, <1>f, <1>g, <1>s, <2>1, <2>2, StaysAt, ApartIs
  <2>4. Circuit(View(p)', p)
    <3> DEFINE v == View(p)  w == View(p)'
    <3>1. Circuit(v, p) /\ ViewType(w)
      BY <1>w, <1>s, ThisCircuit
    <3>4. h \in v.want
      BY <1>d, AtHop, Fields
    <3>2. w.outcome = v.outcome /\ w.want = v.want \ {h} /\ w.write = v.write \cup {h}
      BY <1>a, <2>1, Fields, NextFields
    <3>7. w.read = v.read \cup {h} /\ w.held = v.held \cup {h} /\ w.lost = v.lost \ {h}
      BY <2>1, Fields, NextFields
    <3>6. /\ w.reply = v.reply /\ w.link = v.link /\ w.refused = v.refused
          /\ w.accepted = v.accepted /\ SameEnds(v, w)
      BY <1>a, <1>f, <1>g, Fields, NextFields DEF SameEnds
    <3>5. Changed(w.fwd, v.fwd, h, <<>>) /\ Changed(w.bwd, v.bwd, h, <<>>)
      BY <2>2, Fields, NextFields
    <3> HIDE DEF v, w
    <3>3. Circuit(w, p)
      BY <3>1, <3>2, <3>4, <3>5, <3>6, <3>7, ViewReady
    <3> QED BY <3>3 DEF w
  <2> QED BY <1>s, <2>3, <2>4, CircuitsStep
<1> QED BY <1>w, <1>r, <1>l, <1>c

LEMMA StreamFailedCircuit ==
    ASSUME CircuitInv, NEW n \in Node, NEW t \in Servers, StreamFailed(n, t)
    PROVE  CircuitInv'
<1> USE DEF CircuitInv
<1>p. PICK s : s = want[n][FirstTo(n, t)]
  OBVIOUS
<1>a. /\ \E i \in DOMAIN want[n] : To(want[n][i]) = t
      /\ want' = [want EXCEPT ![n] = SwapRemove(@, FirstTo(n, t))]
      /\ \/ n = Client /\ outcome' = [outcome EXCEPT ![s[1]] = "unreachable"] /\ UNCHANGED error
         \/ n # Client /\ error' = [error EXCEPT ![n] = With(@, Prev(s), "missing")] /\ UNCHANGED outcome
      /\ UNCHANGED <<config, route, stale, stream, inbound, outbound, router, accepted, got, sent>>
  BY <1>p DEF StreamFailed
<1>d. /\ s \in Range(want[n]) /\ s \in Sid /\ s \in Wants /\ To(s) = t
      /\ Leaves(Wants', Wants, s) /\ want' \in [Node -> Seq(Sid)]
      /\ \A m \in Node : Range(want'[m]) \subseteq Range(want[m]) /\ IsInjective(want'[m])
  BY <1>a, <1>p, WantsServed
<1> DEFINE p == s[1]  h == s[2]
<1>s. p \in Paths /\ h \in Hop /\ s \in Dials(n) /\ outcome[p] # "none" /\ n = From(s)
  BY <1>d, Places DEF Sid, Node, Dials
<1>g. /\ Writes' = Writes /\ Awaits' = Awaits /\ Reads' = Reads
      /\ Links' = Links
      /\ Held(stream') = Held(stream) /\ Lost(stream') = Lost(stream)
      /\ Fwd(stream') = Fwd(stream) /\ Bwd(stream') = Bwd(stream)
  BY <1>a, Kept
<1>i. OnlyAt(Wants', Wants, p) /\ HopsOf(Wants', p) = HopsOf(Wants, p) \ {h}
  BY <1>d, LeavesAt
<1>r. Routed'
  BY <1>a, <1>s DEF Routed, Wired
<1>1. CASE n = Client
  <2>1. /\ outcome' = [outcome EXCEPT ![p] = "unreachable"] /\ UNCHANGED error /\ h = 1
    BY <1>a, <1>1, <1>s, AtClient
  <2>w. Wired'
    BY <1>a, <1>d, <2>1, WiredParts DEF Wired
  <2>o. \A q \in Paths : outcome'[q] = IF q = p THEN "unreachable" ELSE outcome[q]
    BY <2>1 DEF Wired
  <2>l. Located'
    BY <1>a, <1>d, <1>s, <2>1, <2>o, LocatedStep
  <2>2. Refusals' = Refusals
    BY <2>1, Kept
  <2>3. Apart(p)
    BY <1>a, <1>g, <1>i, <1>s, <2>o, <2>2, StaysAt, ApartIs
  <2>4. Circuit(View(p)', p)
    <3> DEFINE v == View(p)  w == View(p)'
    <3>1. Circuit(v, p) /\ ViewType(w)
      BY <1>s, <2>w, ThisCircuit
    <3>2. /\ 1 \in v.want /\ w.outcome = "unreachable" /\ w.want = v.want \ {1}
          /\ w.write = v.write /\ w.reply = v.reply /\ w.read = v.read /\ w.link = v.link
          /\ w.refused = v.refused /\ w.held = v.held /\ w.lost = v.lost
          /\ w.fwd = v.fwd /\ w.bwd = v.bwd /\ w.accepted = v.accepted /\ SameEnds(v, w)
      BY <1>a, <1>d, <1>g, <1>i, <1>s, <2>1, <2>o, <2>2, AtHop, Fields, NextFields DEF SameEnds
    <3> HIDE DEF v, w
    <3>3. /\ v.outcome = "pending" /\ 1 \notin w.want /\ 1 \notin w.write /\ 1 \notin w.reply
      BY <3>1, <3>2 DEF Circuit, Tip
    <3>4. w.outcome \in Failure
      BY <3>2 DEF Failure
    <3>5. Circuit(w, p)
      BY <3>1, <3>2, <3>3, <3>4, ViewLess
    <3> QED BY <3>5 DEF w
  <2> QED BY <1>r, <1>s, <2>w, <2>l, <2>3, <2>4, CircuitsStep
<1>2. CASE n # Client
  <2> DEFINE u == Prev(s)
  <2>1. /\ error' = [error EXCEPT ![n] = With(@, u, "missing")] /\ UNCHANGED outcome
        /\ u \in Sid /\ u[1] = p /\ u[2] = h - 1 /\ u[2] \in {1, 2} /\ u \in Serves(n)
    BY <1>a, <1>2, <1>s, AtRelay
  <2> HIDE DEF u
  <2>2. /\ Joins(Refusals', Refusals, u) /\ DOMAIN error' = Node
        /\ \A m \in Node : /\ DOMAIN error'[m] = DOMAIN error[m] \cup {y \in {u} : m = n}
                           /\ error'[m] \in [DOMAIN error'[m] -> Code]
    BY <2>1, RefusalAdded DEF Code
  <2>w. Wired'
    BY <1>a, <1>d, <2>1, <2>2, WiredParts DEF Wired
  <2>l. Located'
    <3>1. u \in Serves(n)'
      BY <1>a, <2>1 DEF Serves, To
    <3> QED BY <1>a, <1>d, <2>1, <2>2, <3>1, LocatedStep
  <2>i. OnlyAt(Refusals', Refusals, p) /\ HopsOf(Refusals', p) = HopsOf(Refusals, p) \cup {u[2]}
    BY <2>1, <2>2, JoinsAt
  <2>3. Apart(p)
    BY <1>a, <1>g, <1>i, <1>s, <2>1, <2>i, StaysAt, ApartIs
  <2>4. Circuit(View(p)', p)
    <3> DEFINE v == View(p)  w == View(p)'  k == u[2]
    <3>1. Circuit(v, p) /\ ViewType(w)
      BY <1>s, <2>w, ThisCircuit
    <3>2. /\ h \in v.want /\ w.outcome = v.outcome /\ w.want = v.want \ {h}
          /\ w.write = v.write /\ w.reply = v.reply /\ w.read = v.read /\ w.link = v.link
          /\ w.refused = v.refused \cup {k} /\ w.held = v.held /\ w.lost = v.lost
          /\ w.fwd = v.fwd /\ w.bwd = v.bwd /\ w.accepted = v.accepted /\ SameEnds(v, w)
      BY <1>a, <1>d, <1>g, <1>i, <1>s, <2>1, <2>i, AtHop, Fields, NextFields DEF SameEnds
    <3>3. h = k + 1 /\ k \in {1, 2}
      BY <1>s, <2>1 DEF Hop
    <3> HIDE DEF v, w, k
    <3>5. Circuit(w, p)
      BY <3>1, <3>2, <3>3, ViewMissing
    <3> QED BY <3>5 DEF w
  <2> QED BY <1>r, <1>s, <2>w, <2>l, <2>3, <2>4, CircuitsStep
<1> QED BY <1>1, <1>2

\* The updates of the actions, in this form
LEMMA Updates ==
    ASSUME Wired, NEW s \in Sid
    PROVE  /\ [stream EXCEPT ![s].fwd = Tail(@)] = PutFwd(stream, s, Tail(stream[s].fwd))
           /\ \A x : [stream EXCEPT ![s].fwd = Append(@, x)] = PutFwd(stream, s, Append(stream[s].fwd, x))
           /\ [stream EXCEPT ![s].bwd = Tail(@)] = PutBwd(stream, s, Tail(stream[s].bwd))
           /\ \A x : [stream EXCEPT ![s].bwd = Append(@, x)] = PutBwd(stream, s, Append(stream[s].bwd, x))
BY DEF Wired, Streams, PutFwd, PutBwd

\* Before the recipient answers, what a node reads is the packet of its hop.
LEMMA PacketRead ==
    ASSUME NEW v, NEW p, Circuit(v, p), NEW h \in v.read, v.fwd[h] # <<>>
    PROVE  /\ h \in Hop /\ v.accepted = {} /\ h \notin v.want /\ h + 1 \notin v.want
           /\ Tail(v.fwd[h]) = <<>> /\ Head(v.fwd[h]).type = PacketType[h]
<1>1. h \in Hop /\ h \in 0 .. 3 /\ Undecided(v, h) /\ v.fwd[h] \in Seq(Parcel)
  BY DEF Circuit, ViewType, Undecided, Hop
<1>2. v.accepted = {} /\ h \notin v.want /\ h + 1 \notin v.want
  <2>1. h + 1 # h
    BY <1>1 DEF Hop
  <2> QED BY <1>1, <2>1 DEF Circuit, Tip
<1>3. Len(v.fwd[h]) = 1 /\ v.fwd[h][1].type = PacketType[h]
  BY <1>1, <1>2 DEF Circuit, Setup
<1>4. Head(v.fwd[h]) = v.fwd[h][1] /\ Len(Tail(v.fwd[h])) = Len(v.fwd[h]) - 1 /\ Tail(v.fwd[h]) \in Seq(Parcel)
  BY <1>1, QueueFacts
<1>5. Tail(v.fwd[h]) = <<>>
  <2>1. Len(Tail(v.fwd[h])) = 0
    BY <1>3, <1>4
  <2> QED BY <1>4, <2>1, QueueFacts
<1> QED BY <1>1, <1>2, <1>3, <1>4, <1>5

LEMMA PeelFacts ==
    ASSUME NEW n, NEW s \in Sid, NEW pck, pck.type = PacketType[s[2]]
    PROVE  /\ Peel(n, s, pck) = "relay" => s[2] # 3
           /\ Peel(n, s, pck) = "final" => s[2] = 3
<1>1. s[2] \in {1, 2, 3}
  BY DEF Sid, Hop
<1>2. CASE s[2] = 1
  BY <1>2 DEF Peel, PacketType
<1>3. CASE s[2] = 2
  BY <1>3 DEF Peel, PacketType
<1>4. CASE s[2] = 3
  BY <1>4 DEF Peel, PacketType
<1> QED BY <1>1, <1>2, <1>3, <1>4

LEMMA ReadPacketCircuit ==
    ASSUME CircuitInv, NEW n \in Node, NEW s \in Sid, ReadPacket(n, s)
    PROVE  CircuitInv'
<1> USE DEF CircuitInv
<1> DEFINE p == s[1]  h == s[2]
           pck == Head(stream[s].fwd)
           ok == [type |-> "ok", secret |-> Secret(n, s)]
           one == [stream EXCEPT ![s].fwd = Tail(@)]
<1>a. /\ s \in inbound[n] /\ stream[s].fwd # <<>>
      /\ inbound' = [inbound EXCEPT ![n] = @ \ {s}]
      /\ \/ /\ Peel(n, s, pck) = "relay"
            /\ want' = [want EXCEPT ![n] = Append(@, After(s))] /\ stream' = one /\ UNCHANGED accepted
         \/ /\ Peel(n, s, pck) = "final" /\ stream' = [one EXCEPT ![s].bwd = Append(@, ok)]
            /\ accepted' = [accepted EXCEPT ![p] = @ \cup {Secret(n, s)}] /\ UNCHANGED want
         \/ stream' = DropB(one, s) /\ UNCHANGED <<want, accepted>>
      /\ UNCHANGED <<config, route, stale, outbound, router, error, outcome, got, sent>>
  BY DEF ReadPacket
<1>s. p \in Paths /\ h \in Hop /\ s \in Serves(n)
  BY <1>a, Places DEF Sid
<1>v. Circuit(View(p), p)
  BY <1>s DEF Circuits
<1>f. /\ s \in Reads /\ Leaves(Reads', Reads, s)
  BY <1>a, ReadDone
<1>k. /\ Writes' = Writes /\ Awaits' = Awaits /\ Links' = Links /\ Refusals' = Refusals
  BY <1>a, Kept
<1>h. /\ h \in View(p).read /\ View(p).fwd[h] = stream[s].fwd
      /\ stream[s].fwd \in Seq(Parcel) /\ stream[s].bwd \in Seq(Parcel)
      /\ View(p).bwd[h] = stream[s].bwd
  BY <1>a, <1>f, AtHop, Fields, StreamFields DEF Wired
<1>t. /\ Tail(stream[s].fwd) = <<>> /\ pck.type = PacketType[h]
      /\ h + 1 \notin View(p).want /\ h \notin View(p).want
  BY <1>a, <1>h, <1>v, PacketRead
<1>e. PICK e \in Seq(Parcel) : e = <<>>
  BY EmptySeq
<1>o. PICK st : st = one
  OBVIOUS
<1>1. /\ st \in Streams /\ Puts(Fwd(st), Fwd(stream), s, e) /\ Bwd(st) = Bwd(stream)
      /\ Held(st) = Held(stream) /\ Lost(st) = Lost(stream) /\ Fwd(stream) \in [Sid -> Seq(Parcel)]
      /\ Bwd(stream) \in [Sid -> Seq(Parcel)] /\ stream \in Streams
  <2>1. st = PutFwd(stream, s, e)
    BY <1>e, <1>o, <1>t, Updates
  <2> QED BY <2>1, SetFwd, StreamFields DEF Wired
<1>2. /\ OnlyRow(Fwd(st), Fwd(stream), p) /\ Changed(RowOf(Fwd(st), p), RowOf(Fwd(stream), p), h, e)
      /\ OnlyAt(Reads', Reads, p) /\ HopsOf(Reads', p) = HopsOf(Reads, p) \ {h}
  BY <1>1, <1>f, PutsAt, LeavesAt
<1>r. Routed'
  BY <1>a DEF Routed
<1> DEFINE v == View(p)  w == View(p)'
<1>b. \A m \in Node : inbound'[m] \subseteq inbound[m]
  BY <1>a DEF Wired
<1>3. CASE Peel(n, s, pck) = "relay" /\ want' = [want EXCEPT ![n] = Append(@, After(s))]
           /\ stream' = st /\ UNCHANGED accepted
  <2> DEFINE u == After(s)
  <2>1. /\ h \in {1, 2} /\ u \in Sid /\ u \in Dials(n) /\ u[1] = p /\ u[2] = h + 1
    BY <1>s, <1>t, <1>3, PeelFacts, AtNext
  <2>2. u \notin Range(want[n])
    <3>1. u \notin Wants
      BY <1>t, <2>1, AtHop, Fields
    <3> QED BY <2>1, <3>1 DEF Wants
  <2>d. /\ Joins(Wants', Wants, u) /\ want' \in [Node -> Seq(Sid)]
        /\ \A m \in Node : /\ Range(want'[m]) \subseteq Range(want[m]) \cup {x \in {u} : m = n}
                           /\ IsInjective(want'[m])
    BY <1>3, <2>1, <2>2, WantsAdd
  <2>w. Wired'
    BY <1>1, <1>3, <1>a, <2>d, WiredParts DEF Wired
  <2>l. Located'
    <3>1. u \in Dials(n)'
      BY <1>a, <2>1 DEF Dials, From
    <3> QED BY <1>a, <1>b, <2>d, <3>1, LocatedStep
  <2>3. OnlyAt(Wants', Wants, p) /\ HopsOf(Wants', p) = HopsOf(Wants, p) \cup {h + 1}
    BY <2>1, <2>d, JoinsAt
  <2>4. Apart(p)
    BY <1>1, <1>2, <1>3, <1>a, <1>k, <1>s, <2>3, StaysAt, ApartIs
  <2>5. Circuit(w, p)
    <3>1. Circuit(v, p) /\ ViewType(w)
      BY <1>v, <1>s, <2>w, ThisCircuit
    <3>2. w.outcome = v.outcome /\ w.want = v.want \cup {h + 1} /\ w.read = v.read \ {h}
      BY <1>2, <1>a, <2>3, Fields, NextFields
    <3>3. /\ w.write = v.write /\ w.reply = v.reply /\ w.link = v.link /\ w.refused = v.refused
          /\ w.held = v.held /\ w.lost = v.lost /\ w.bwd = v.bwd
          /\ w.accepted = v.accepted /\ SameEnds(v, w)
      BY <1>1, <1>3, <1>a, <1>k, Fields, NextFields DEF SameEnds
    <3>4. Changed(w.fwd, v.fwd, h, <<>>)
      BY <1>2, <1>3, <1>e, Fields, NextFields
    <3>5. h \in v.read /\ h # 3 /\ v.fwd[h] # <<>>
      BY <1>a, <1>h, <2>1
    <3> HIDE DEF v, w
    <3> QED BY <3>1, <3>2, <3>3, <3>4, <3>5, ViewRelays
  <2> QED BY <1>r, <1>s, <2>w, <2>l, <2>4, <2>5, CircuitsStep
<1>4. CASE Peel(n, s, pck) = "final" /\ stream' = [st EXCEPT ![s].bwd = Append(@, ok)]
           /\ accepted' = [accepted EXCEPT ![p] = @ \cup {Secret(n, s)}] /\ UNCHANGED want
  <2>1. h = 3 /\ Wants' = Wants
    BY <1>t, <1>4, PeelFacts, Kept
  <2>2. ok \in Parcel
    <3>1. Secret(n, s) \in {0} \cup Paths
      BY <1>s DEF Secret
    <3> QED BY <3>1 DEF Parcel
  <2>3. PICK q \in Seq(Parcel) : q = Append(stream[s].bwd, ok)
    BY <1>h, <2>2, QueueFacts
  <2>4. stream' = PutBwd(st, s, q)
    <3>1. st[s].bwd = stream[s].bwd
      BY <1>1, StreamFields
    <3> QED BY <1>1, <1>4, <2>3, <3>1 DEF PutBwd, Streams
  <2>5. /\ stream' \in Streams /\ Puts(Bwd(stream'), Bwd(stream), s, q) /\ Fwd(stream') = Fwd(st)
        /\ Held(stream') = Held(stream) /\ Lost(stream') = Lost(stream)
    BY <1>1, <2>4, SetBwd
  <2>6. /\ OnlyRow(Bwd(stream'), Bwd(stream), p)
        /\ Changed(RowOf(Bwd(stream'), p), RowOf(Bwd(stream), p), h, q)
    BY <1>1, <2>5, PutsAt
  <2>w. Wired'
    BY <1>4, <1>a, <2>5, WiredParts DEF Wired
  <2>l. Located'
    BY <1>4, <1>a, <1>b, LocatedStep DEF Located
  <2>o. \A y \in Paths : accepted'[y] = IF y = p THEN accepted[p] \cup {Secret(n, s)} ELSE accepted[y]
    BY <1>4 DEF Wired
  <2>7. Apart(p)
    BY <1>2, <1>a, <1>k, <1>s, <2>1, <2>5, <2>6, <2>o, StaysAt, ApartIs
  <2>8. Circuit(w, p)
    <3> DEFINE y == Secret(n, s)
    <3>1. Circuit(v, p) /\ ViewType(w)
      BY <1>v, <1>s, <2>w, ThisCircuit
    <3>2. w.outcome = v.outcome /\ w.want = v.want /\ w.read = v.read \ {3}
      BY <1>2, <1>a, <2>1, Fields, NextFields
    <3>3. /\ w.write = v.write /\ w.reply = v.reply /\ w.link = v.link /\ w.refused = v.refused
          /\ w.held = v.held /\ w.lost = v.lost
          /\ w.accepted = v.accepted \cup {y} /\ SameEnds(v, w)
      BY <1>a, <1>k, <1>s, <2>5, <2>o, Fields, NextFields DEF SameEnds
    <3>4. Changed(w.fwd, v.fwd, 3, <<>>) /\ Changed(w.bwd, v.bwd, 3, Append(v.bwd[3], ok))
      BY <1>2, <1>e, <1>h, <2>1, <2>3, <2>5, <2>6, Fields, NextFields
    <3>5. 3 \in v.read /\ v.fwd[3] # <<>>
      BY <1>a, <1>h, <2>1
    <3> HIDE DEF v, w, ok, y
    <3> QED BY <2>2, <3>1, <3>2, <3>3, <3>4, <3>5, ViewAccepts
  <2> QED BY <1>r, <1>s, <2>w, <2>l, <2>7, <2>8, CircuitsStep
<1>5. CASE stream' = DropB(st, s) /\ UNCHANGED <<want, accepted>>
  <2>1. Wants' = Wants
    BY <1>5, Kept
  <2>2. /\ stream' \in Streams /\ Fwd(stream') = Fwd(st) /\ Bwd(stream') = Bwd(stream)
        /\ Leaves(Held(stream'), Held(stream), s) /\ Lost(stream') = Lost(stream)
    BY <1>1, <1>5, DropEnds
  <2>3. OnlyAt(Held(stream'), Held(stream), p) /\ HopsOf(Held(stream'), p) = HopsOf(Held(stream), p) \ {h}
    BY <2>2, LeavesAt
  <2>w. Wired'
    BY <1>5, <1>a, <2>2, WiredParts DEF Wired
  <2>l. Located'
    BY <1>5, <1>a, <1>b, LocatedStep DEF Located
  <2>4. Apart(p)
    BY <1>2, <1>5, <1>a, <1>k, <1>s, <2>1, <2>2, <2>3, StaysAt, ApartIs
  <2>5. Circuit(w, p)
    <3>1. Circuit(v, p) /\ ViewType(w)
      BY <1>v, <1>s, <2>w, ThisCircuit
    <3>2. w.outcome = v.outcome /\ w.held = v.held \ {h} /\ w.read = v.read \ {h}
      BY <1>2, <1>a, <2>3, Fields, NextFields
    <3>3. /\ w.want = v.want /\ w.write = v.write /\ w.reply = v.reply /\ w.link = v.link
          /\ w.refused = v.refused /\ w.lost = v.lost /\ w.bwd = v.bwd
          /\ w.accepted = v.accepted /\ SameEnds(v, w)
      BY <1>5, <1>a, <1>k, <2>1, <2>2, Fields, NextFields DEF SameEnds
    <3>4. Changed(w.fwd, v.fwd, h, <<>>)
      BY <1>2, <1>e, <2>2, Fields, NextFields
    <3> HIDE DEF v, w
    <3> QED BY <1>h, <3>1, <3>2, <3>3, <3>4, ViewReadFails DEF v
  <2> QED BY <1>r, <1>s, <2>w, <2>l, <2>4, <2>5, CircuitsStep
<1> QED BY <1>a, <1>o, <1>3, <1>4, <1>5

LEMMA ReadPacketFailsCircuit ==
    ASSUME CircuitInv, NEW n \in Node, NEW s \in Sid, ReadPacketFails(n, s)
    PROVE  CircuitInv'
<1> USE DEF CircuitInv
<1> DEFINE p == s[1]  h == s[2]  v == View(p)  w == View(p)'
<1>a. /\ s \in inbound[n] /\ stream[s].fwd = <<>>
      /\ inbound' = [inbound EXCEPT ![n] = @ \ {s}]
      /\ stream' = DropB(stream, s)
      /\ UNCHANGED <<config, route, stale, want, outbound, router, error, outcome, accepted, got, sent>>
  BY DEF ReadPacketFails, Eof
<1>s. p \in Paths /\ h \in Hop
  BY DEF Sid
<1>f. /\ s \in Reads /\ Leaves(Reads', Reads, s)
  BY <1>a, ReadDone
<1>k. /\ Wants' = Wants /\ Writes' = Writes /\ Awaits' = Awaits /\ Links' = Links /\ Refusals' = Refusals
  BY <1>a, Kept
<1>1. /\ stream' \in Streams /\ Fwd(stream') = Fwd(stream) /\ Bwd(stream') = Bwd(stream)
      /\ Leaves(Held(stream'), Held(stream), s) /\ Lost(stream') = Lost(stream)
  BY <1>a, DropEnds DEF Wired
<1>2. /\ OnlyAt(Held(stream'), Held(stream), p) /\ HopsOf(Held(stream'), p) = HopsOf(Held(stream), p) \ {h}
      /\ OnlyAt(Reads', Reads, p) /\ HopsOf(Reads', p) = HopsOf(Reads, p) \ {h}
  BY <1>1, <1>f, LeavesAt
<1>b. \A m \in Node : inbound'[m] \subseteq inbound[m]
  BY <1>a DEF Wired
<1>w. Wired'
  BY <1>1, <1>a, WiredParts DEF Wired
<1>l. Located' /\ Routed'
  BY <1>a, <1>b, LocatedStep DEF Located, Routed
<1>4. Apart(p)
  BY <1>1, <1>2, <1>a, <1>k, <1>s, StaysAt, ApartIs
<1>5. Circuit(w, p)
  <2>1. Circuit(v, p) /\ ViewType(w)
    BY <1>s, <1>w, ThisCircuit
  <2>2. w.outcome = v.outcome /\ w.held = v.held \ {h} /\ w.read = v.read \ {h}
    BY <1>2, <1>a, Fields, NextFields
  <2>3. /\ w.want = v.want /\ w.write = v.write /\ w.reply = v.reply /\ w.link = v.link
        /\ w.refused = v.refused /\ w.lost = v.lost /\ w.bwd = v.bwd
        /\ w.accepted = v.accepted /\ SameEnds(v, w)
    BY <1>1, <1>a, <1>k, Fields, NextFields DEF SameEnds
  <2>4. Changed(w.fwd, v.fwd, h, <<>>)
    <3>1. w.fwd = v.fwd /\ v.fwd[h] = <<>>
      BY <1>1, <1>a, AtHop, Fields, NextFields, StreamFields DEF Wired
    <3> HIDE DEF v, w
    <3> QED BY <3>1 DEF Changed
  <2>5. h \in v.read
    BY <1>f, AtHop, Fields
  <2> HIDE DEF v, w
  <2> QED BY <2>1, <2>2, <2>3, <2>4, <2>5, ViewReadFails
<1> QED BY <1>s, <1>w, <1>l, <1>4, <1>5, CircuitsStep

\* The packet of a hop
LEMMA PacketFacts ==
    ASSUME Routed, NEW s \in Sid, outcome[s[1]] # "none"
    PROVE  Packet(s) \in Parcel /\ Packet(s).type = PacketType[s[2]]
<1>1. s[1] \in Paths /\ s[2] \in {1, 2, 3}
  BY DEF Sid, Hop
<1>2. route[s[1]][2] \in Servers /\ route[s[1]][3] \in Servers
  BY <1>1, RouteFacts DEF Hop
<1>3. CASE s[2] = 1
  BY <1>2, <1>3 DEF Packet, Parcel, PacketType
<1>4. CASE s[2] = 2
  BY <1>2, <1>4 DEF Packet, Parcel, PacketType
<1>5. CASE s[2] = 3
  BY <1>5 DEF Packet, Parcel, PacketType
<1> QED BY <1>1, <1>3, <1>4, <1>5

LEMMA WriteRequestCircuit ==
    ASSUME CircuitInv, NEW s \in Sid, WriteRequest(s)
    PROVE  CircuitInv'
<1> USE DEF CircuitInv
<1> DEFINE p == s[1]  h == s[2]  v == View(p)  w == View(p)'
<1>c. Client \in Node
  BY DEF Node
<1>a. /\ [sid |-> s, step |-> "write"] \in outbound[Client]
      /\ \/ /\ Writable(s, "fwd")
            /\ stream' = [stream EXCEPT ![s].fwd = Append(@, Packet(s))]
            /\ outbound' = [outbound EXCEPT ![Client] = (outbound[Client] \ {[sid |-> s, step |-> "write"]})
                                                        \cup {[sid |-> s, step |-> "read"]}]
            /\ UNCHANGED outcome
         \/ /\ stream' = DropA(stream, s)
            /\ outbound' = [outbound EXCEPT ![Client] = @ \ {[sid |-> s, step |-> "write"]}]
            /\ outcome' = [outcome EXCEPT ![p] = "write"]
      /\ UNCHANGED <<config, route, stale, want, inbound, router, error, accepted, got, sent>>
  BY DEF WriteRequest
<1>s. p \in Paths /\ h = 1 /\ s \in Dials(Client) /\ outcome[p] # "none"
  BY <1>a, <1>c, Places, AtClient DEF Dials
<1>k. /\ Wants' = Wants /\ Reads' = Reads /\ Links' = Links /\ Refusals' = Refusals
  BY <1>a, Kept
<1>1. CASE /\ Writable(s, "fwd")
           /\ stream' = [stream EXCEPT ![s].fwd = Append(@, Packet(s))]
           /\ outbound' = [outbound EXCEPT ![Client] = (outbound[Client] \ {[sid |-> s, step |-> "write"]})
                                                        \cup {[sid |-> s, step |-> "read"]}]
           /\ UNCHANGED outcome
  <2>f. /\ s \in Writes /\ Leaves(Writes', Writes, s) /\ Joins(Awaits', Awaits, s)
    BY <1>1, <1>a, <1>c, WriteMoved
  <2>x. PICK x \in Parcel : x = Packet(s) /\ x.type = PacketType[h]
    BY <1>s, PacketFacts
  <2>2. PICK q \in Seq(Parcel) : q = Append(stream[s].fwd, x)
    BY StreamFields, QueueFacts DEF Wired
  <2>3. stream' = PutFwd(stream, s, q)
    BY <1>1, <2>2, <2>x, Updates
  <2>4. /\ stream' \in Streams /\ Puts(Fwd(stream'), Fwd(stream), s, q) /\ Bwd(stream') = Bwd(stream)
        /\ Held(stream') = Held(stream) /\ Lost(stream') = Lost(stream)
        /\ Fwd(stream) \in [Sid -> Seq(Parcel)]
    BY <2>3, SetFwd, StreamFields DEF Wired
  <2>5. /\ OnlyRow(Fwd(stream'), Fwd(stream), p) /\ Changed(RowOf(Fwd(stream'), p), RowOf(Fwd(stream), p), h, q)
        /\ OnlyAt(Writes', Writes, p) /\ HopsOf(Writes', p) = HopsOf(Writes, p) \ {h}
        /\ OnlyAt(Awaits', Awaits, p) /\ HopsOf(Awaits', p) = HopsOf(Awaits, p) \cup {h}
    BY <2>4, <2>f, PutsAt, LeavesAt, JoinsAt
  <2>w. Wired'
    BY <1>1, <1>a, <2>4, WiredParts DEF Wired
  <2>l. Located' /\ Routed'
    <3>1. s \in Dials(Client)'
      BY <1>1, <1>a, <1>s DEF Dials, From
    <3>2. \A m \in Node : outbound'[m] \subseteq outbound[m]
                             \cup [sid : Dials(m)', step : {"write"} \cup (IF m = Client THEN {"read"} ELSE {})]
      BY <1>1, <3>1 DEF Wired
    <3> QED BY <1>1, <1>a, <3>2, LocatedStep DEF Located, Routed
  <2>6. Apart(p)
    BY <1>1, <1>a, <1>k, <1>s, <2>4, <2>5, StaysAt, ApartIs
  <2>7. Circuit(w, p)
    <3>1. Circuit(v, p) /\ ViewType(w)
      BY <1>s, <2>w, ThisCircuit
    <3>2. h \in v.write /\ h \in v.held
      BY <1>1, <2>f, AtHop, Fields, StreamFields DEF Writable, Wired
    <3>3. w.outcome = v.outcome /\ w.write = v.write \ {h} /\ w.reply = v.reply \cup {1}
      BY <1>1, <1>s, <2>5, Fields, NextFields
    <3>4. /\ w.want = v.want /\ w.read = v.read /\ w.link = v.link /\ w.refused = v.refused
          /\ w.held = v.held /\ w.lost = v.lost /\ w.bwd = v.bwd
          /\ w.accepted = v.accepted /\ SameEnds(v, w)
      BY <1>a, <1>k, <2>4, Fields, NextFields DEF SameEnds
    <3>5. Changed(w.fwd, v.fwd, h, Append(v.fwd[h], x))
      BY <2>2, <2>5, AtHop, Fields, NextFields, StreamFields DEF Wired
    <3> HIDE DEF v, w
    <3>6. PICK none, asks : none = {} /\ asks = {1}
      OBVIOUS
    <3>7. /\ w.reply = v.reply \cup asks /\ w.link = v.link \cup none /\ w.refused = v.refused \cup none
          /\ w.held \subseteq v.held /\ none \cup none \subseteq {h - 1} \cap {1, 2} /\ none \cap none = {}
      BY <3>3, <3>4, <3>6
    <3>8. h = 1 /\ x.type = PacketType[h]
      BY <1>s, <2>x
    <3> HIDE DEF h
    <3>9. Passed(v, w, h, x, asks, none, none)
      BY <3>2, <3>3, <3>4, <3>5, <3>6, <3>7, <3>8 DEF Passed
    <3> QED BY <3>1, <3>9, ViewPassed
  <2> QED BY <1>s, <2>w, <2>l, <2>6, <2>7, CircuitsStep
<1>2. CASE /\ stream' = DropA(stream, s)
           /\ outbound' = [outbound EXCEPT ![Client] = @ \ {[sid |-> s, step |-> "write"]}]
           /\ outcome' = [outcome EXCEPT ![p] = "write"]
  <2>f. /\ s \in Writes /\ Leaves(Writes', Writes, s) /\ Awaits' = Awaits
    BY <1>2, <1>a, <1>c, WriteDone
  <2>4. stream' \in Streams /\ SameStreams(stream', stream)
    BY <1>2, DropEnds DEF Wired
  <2>5. OnlyAt(Writes', Writes, p) /\ HopsOf(Writes', p) = HopsOf(Writes, p) \ {h}
    BY <2>f, LeavesAt
  <2>w. Wired'
    BY <1>2, <1>a, <2>4, WiredParts DEF Wired
  <2>o. \A q \in Paths : outcome'[q] = IF q = p THEN "write" ELSE outcome[q]
    BY <1>2 DEF Wired
  <2>l. Located' /\ Routed'
    <3>1. \A m \in Node : outbound'[m] \subseteq outbound[m]
      BY <1>2 DEF Wired
    <3> QED BY <1>a, <1>s, <2>o, <3>1, LocatedStep DEF Located, Routed
  <2>6. Apart(p)
    BY <1>a, <1>k, <1>s, <2>4, <2>5, <2>f, <2>o, StaysAt, ApartIs DEF SameStreams
  <2>7. Circuit(w, p)
    <3>1. Circuit(v, p) /\ ViewType(w)
      BY <1>s, <2>w, ThisCircuit
    <3>2. 1 \in v.write
      BY <1>s, <2>f, AtHop, Fields
    <3>3. w.outcome = "write" /\ w.write = v.write \ {1} /\ w.reply = v.reply
      BY <1>s, <2>5, <2>f, <2>o, Fields, NextFields
    <3>4. /\ w.want = v.want /\ w.read = v.read /\ w.link = v.link /\ w.refused = v.refused
          /\ w.held = v.held /\ w.lost = v.lost /\ w.fwd = v.fwd /\ w.bwd = v.bwd
          /\ w.accepted = v.accepted /\ SameEnds(v, w)
      BY <1>a, <1>k, <2>4, Fields, NextFields DEF SameEnds, SameStreams
    <3> HIDE DEF v, w
    <3>5. v.outcome = "pending" /\ 1 \notin w.want /\ 1 \notin w.write /\ 1 \notin w.reply
      BY <3>1, <3>2, <3>3, <3>4 DEF Circuit, Tip
    <3>6. w.outcome \in Failure
      BY <3>3 DEF Failure
    <3> QED BY <3>1, <3>3, <3>4, <3>5, <3>6, ViewLess
  <2> QED BY <1>s, <2>w, <2>l, <2>6, <2>7, CircuitsStep
<1> QED BY <1>a, <1>1, <1>2

LEMMA ReadReplyCircuit ==
    ASSUME CircuitInv, NEW s \in Sid, ReadReply(s), Authentic'
    PROVE  CircuitInv'
<1> USE DEF CircuitInv
<1> DEFINE p == s[1]  h == s[2]  v == View(p)  w == View(p)'
<1>c. Client \in Node
  BY DEF Node
<1>o. PICK st : st = [stream EXCEPT ![s].bwd = Tail(@)]
  OBVIOUS
<1>m. PICK y \in {"ok", "auth", "closed"} \cup Code :
        outcome' = [outcome EXCEPT ![p] = y]
  BY DEF ReadReply
<1>a. /\ [sid |-> s, step |-> "read"] \in outbound[Client]
      /\ outbound' = [outbound EXCEPT ![Client] = @ \ {[sid |-> s, step |-> "read"]}]
      /\ UNCHANGED <<config, route, stale, want, inbound, router, error, accepted, got, sent>>
  BY DEF ReadReply
<1>b. \/ stream[s].bwd # <<>> /\ stream' \in {st, DropA(st, s)}
      \/ stream' = DropA(stream, s) /\ outcome' = [outcome EXCEPT ![p] = "closed"]
  BY <1>o DEF ReadReply
<1>s. p \in Paths /\ h = 1 /\ s \in Dials(Client) /\ outcome[p] # "none" /\ s[1] = p
  BY <1>a, <1>c, Places, AtClient DEF Dials
<1>k. /\ Wants' = Wants /\ Reads' = Reads /\ Links' = Links /\ Refusals' = Refusals
  BY <1>a, Kept
<1>f. /\ s \in Awaits /\ Leaves(Awaits', Awaits, s) /\ Writes' = Writes
  BY <1>a, <1>c, AwaitDone
<1>2. /\ OnlyAt(Awaits', Awaits, p) /\ HopsOf(Awaits', p) = HopsOf(Awaits, p) \ {1}
  BY <1>f, <1>s, LeavesAt
<1>d. \A q \in Paths : outcome'[q] = IF q = p THEN y ELSE outcome[q]
  BY <1>m DEF Wired
<1>y. y # "none" /\ y \in {"ok"} \cup Failure
  BY DEF Failure, Code
<1>l. Located' /\ Routed'
  <2>1. \A m \in Node : outbound'[m] \subseteq outbound[m]
    BY <1>a DEF Wired
  <2> QED BY <1>a, <1>s, <1>d, <1>y, <2>1, LocatedStep DEF Located, Routed
<1>3. CASE stream[s].bwd # <<>> /\ stream' \in {st, DropA(st, s)}
  <2>2. PICK q \in Seq(Parcel) : q = Tail(stream[s].bwd)
    BY <1>3, StreamFields, QueueFacts DEF Wired
  <2>3. st = PutBwd(stream, s, q)
    BY <1>o, <2>2, Updates
  <2>4. /\ st \in Streams /\ Puts(Bwd(st), Bwd(stream), s, q) /\ Fwd(st) = Fwd(stream)
        /\ Held(st) = Held(stream) /\ Lost(st) = Lost(stream) /\ Bwd(stream) \in [Sid -> Seq(Parcel)]
    BY <2>3, SetBwd, StreamFields DEF Wired
  <2>5. stream' \in Streams /\ SameStreams(stream', st)
    BY <1>3, <2>4, DropEnds DEF SameStreams
  <2>6. /\ OnlyRow(Bwd(st), Bwd(stream), p) /\ Changed(RowOf(Bwd(st), p), RowOf(Bwd(stream), p), 1, q)
    BY <1>s, <2>4, PutsAt
  <2>w. Wired'
    BY <1>m, <1>a, <2>5, WiredParts DEF Wired
  <2>7. Apart(p)
    BY <1>a, <1>d, <1>f, <1>k, <1>s, <1>2, <2>4, <2>5, <2>6, StaysAt, ApartIs DEF SameStreams
  <2>8. Circuit(w, p)
    <3>1. Circuit(v, p) /\ ViewType(w)
      BY <1>s, <2>w, ThisCircuit
    <3>2. 1 \in v.reply /\ v.bwd[1] = stream[s].bwd /\ v.bwd[1] # <<>>
      BY <1>3, <1>f, <1>s, AtHop, Fields, StreamFields DEF Wired
    <3>3. w.outcome = y /\ w.reply = v.reply \ {1}
      BY <1>2, <1>d, <1>s, Fields, NextFields
    <3>4. /\ w.want = v.want /\ w.write = v.write /\ w.read = v.read /\ w.link = v.link
          /\ w.refused = v.refused /\ w.accepted = v.accepted /\ SameEnds(v, w)
      BY <1>a, <1>f, <1>k, Fields, NextFields DEF SameEnds
    <3>7. w.held = v.held /\ w.lost = v.lost /\ w.fwd = v.fwd
      BY <2>4, <2>5, Fields, NextFields DEF SameStreams
    <3>5. Changed(w.bwd, v.bwd, 1, Tail(v.bwd[1]))
      <4>1. w.bwd = RowOf(Bwd(st), p)
        BY <2>5, NextFields DEF SameStreams
      <4> QED BY <2>2, <2>6, <3>2, <4>1, Fields
    <3>6. w.outcome = "ok" => w.accepted # {}
      BY <1>s, NextFields DEF Authentic
    <3> HIDE DEF v, w
    <3> QED BY <1>y, <3>1, <3>2, <3>3, <3>4, <3>5, <3>6, <3>7, ViewAnswered
  <2> QED BY <1>s, <1>l, <2>w, <2>7, <2>8, CircuitsStep
<1>4. CASE stream' = DropA(stream, s) /\ outcome' = [outcome EXCEPT ![p] = "closed"]
  <2>4. stream' \in Streams /\ SameStreams(stream', stream)
    BY <1>4, DropEnds DEF Wired
  <2>w. Wired'
    BY <1>4, <1>a, <2>4, WiredParts DEF Wired
  <2>6. Apart(p)
    BY <1>a, <1>d, <1>f, <1>k, <1>s, <1>2, <2>4, StaysAt, ApartIs DEF SameStreams
  <2>7. Circuit(w, p)
    <3>1. Circuit(v, p) /\ ViewType(w)
      BY <1>s, <2>w, ThisCircuit
    <3>2. 1 \in v.reply
      BY <1>s, <1>f, AtHop, Fields
    <3>3. w.outcome = "closed" /\ w.reply = v.reply \ {1}
      BY <1>2, <1>4, <1>s, Fields, NextFields DEF Wired
    <3>4. /\ w.want = v.want /\ w.write = v.write /\ w.read = v.read /\ w.link = v.link /\ w.refused = v.refused
          /\ w.accepted = v.accepted /\ SameEnds(v, w)
      BY <1>a, <1>f, <1>k, Fields, NextFields DEF SameEnds
    <3>7. w.held = v.held /\ w.lost = v.lost /\ w.fwd = v.fwd /\ w.bwd = v.bwd
      BY <2>4, Fields, NextFields DEF SameStreams
    <3> HIDE DEF v, w
    <3>5. v.outcome = "pending" /\ 1 \notin w.want /\ 1 \notin w.write /\ 1 \notin w.reply
      BY <3>1, <3>2, <3>3, <3>4 DEF Circuit, Tip
    <3>6. w.outcome \in Failure
      BY <3>3 DEF Failure
    <3> QED BY <3>1, <3>3, <3>4, <3>5, <3>6, <3>7, ViewLess
  <2> QED BY <1>s, <1>l, <2>w, <2>6, <2>7, CircuitsStep
<1> QED BY <1>b, <1>3, <1>4

LEMMA CloseStreamCircuit ==
    ASSUME CircuitInv, NEW n \in Node, NEW s \in Sid, CloseStream(n, s)
    PROVE  CircuitInv'
<1> USE DEF CircuitInv
<1> DEFINE p == s[1]  h == s[2]  v == View(p)  w == View(p)'
           code == [type |-> error[n][s]]
<1>a. /\ s \in DOMAIN error[n]
      /\ \/ stream' = DropB([stream EXCEPT ![s].bwd = Append(@, code)], s)
         \/ stream' = DropB(stream, s)
      /\ error' = [error EXCEPT ![n] = [r \in DOMAIN @ \ {s} |-> @[r]]]
      /\ UNCHANGED <<config, route, stale, want, inbound, outbound, router, outcome, accepted, got, sent>>
  BY DEF CloseStream
<1>s. p \in Paths /\ h \in Hop
  BY DEF Sid
<1>f. /\ s \in Refusals /\ Leaves(Refusals', Refusals, s) /\ DOMAIN error' = Node /\ error[n][s] \in Code
      /\ \A m \in Node : /\ DOMAIN error'[m] \subseteq DOMAIN error[m]
                         /\ error'[m] \in [DOMAIN error'[m] -> Code]
  BY <1>a, RefusalTold
<1>k. /\ Wants' = Wants /\ Writes' = Writes /\ Awaits' = Awaits /\ Reads' = Reads /\ Links' = Links
  BY <1>a, Kept
<1>2. OnlyAt(Refusals', Refusals, p) /\ HopsOf(Refusals', p) = HopsOf(Refusals, p) \ {h}
  BY <1>f, LeavesAt
<1>l. Located' /\ Routed'
  BY <1>a, <1>f, LocatedStep DEF Located, Routed
<1>3. CASE stream' = DropB([stream EXCEPT ![s].bwd = Append(@, code)], s)
  <2>x. PICK x \in Parcel : x = code
    BY <1>f DEF Parcel
  <2>o. PICK st : st = [stream EXCEPT ![s].bwd = Append(@, x)]
    OBVIOUS
  <2>2. PICK q \in Seq(Parcel) : q = Append(stream[s].bwd, x)
    BY StreamFields, QueueFacts DEF Wired
  <2>3. st = PutBwd(stream, s, q)
    BY <2>o, <2>2, Updates
  <2>4. /\ st \in Streams /\ Puts(Bwd(st), Bwd(stream), s, q) /\ Fwd(st) = Fwd(stream)
        /\ Held(st) = Held(stream) /\ Lost(st) = Lost(stream) /\ Bwd(stream) \in [Sid -> Seq(Parcel)]
    BY <2>3, SetBwd, StreamFields DEF Wired
  <2>5. /\ stream' \in Streams /\ Fwd(stream') = Fwd(stream) /\ Bwd(stream') = Bwd(st)
        /\ Leaves(Held(stream'), Held(stream), s) /\ Lost(stream') = Lost(stream)
    BY <1>3, <2>o, <2>x, <2>4, DropEnds
  <2>6. /\ OnlyRow(Bwd(stream'), Bwd(stream), p) /\ Changed(RowOf(Bwd(stream'), p), RowOf(Bwd(stream), p), h, q)
        /\ OnlyAt(Held(stream'), Held(stream), p) /\ HopsOf(Held(stream'), p) = HopsOf(Held(stream), p) \ {h}
    BY <2>4, <2>5, PutsAt, LeavesAt
  <2>w. Wired'
    BY <1>a, <1>f, <2>5, WiredParts DEF Wired
  <2>7. Apart(p)
    BY <1>a, <1>k, <1>s, <1>2, <2>5, <2>6, StaysAt, ApartIs
  <2>8. Circuit(w, p)
    <3>1. Circuit(v, p) /\ ViewType(w)
      BY <1>s, <2>w, ThisCircuit
    <3>2. h \in v.refused /\ v.bwd[h] = stream[s].bwd
      BY <1>f, AtHop, Fields, StreamFields DEF Wired
    <3>3. w.refused = v.refused \ {h} /\ w.held = v.held \ {h}
      BY <1>2, <2>6, Fields, NextFields
    <3>4. /\ w.want = v.want /\ w.write = v.write /\ w.reply = v.reply /\ w.read = v.read /\ w.link = v.link
          /\ w.accepted = v.accepted /\ SameEnds(v, w) /\ w.outcome = v.outcome
      BY <1>a, <1>k, Fields, NextFields DEF SameEnds
    <3>5. w.lost = v.lost /\ w.fwd = v.fwd
      BY <2>5, Fields, NextFields
    <3>6. Changed(w.bwd, v.bwd, h, Append(v.bwd[h], x))
      BY <2>2, <2>6, <3>2, Fields, NextFields
    <3> HIDE DEF v, w
    <3> QED BY <3>1, <3>2, <3>3, <3>4, <3>5, <3>6, ViewClosed
  <2> QED BY <1>s, <1>l, <2>w, <2>7, <2>8, CircuitsStep
<1>4. CASE stream' = DropB(stream, s)
  <2>5. /\ stream' \in Streams /\ Fwd(stream') = Fwd(stream) /\ Bwd(stream') = Bwd(stream)
        /\ Leaves(Held(stream'), Held(stream), s) /\ Lost(stream') = Lost(stream)
    BY <1>4, DropEnds DEF Wired
  <2>6. OnlyAt(Held(stream'), Held(stream), p) /\ HopsOf(Held(stream'), p) = HopsOf(Held(stream), p) \ {h}
    BY <2>5, LeavesAt
  <2>w. Wired'
    BY <1>a, <1>f, <2>5, WiredParts DEF Wired
  <2>7. Apart(p)
    BY <1>a, <1>k, <1>s, <1>2, <2>5, <2>6, StaysAt, ApartIs
  <2>8. Circuit(w, p)
    <3>1. Circuit(v, p) /\ ViewType(w)
      BY <1>s, <2>w, ThisCircuit
    <3>3. w.refused = v.refused \ {h} /\ w.held = v.held \ {h}
      BY <1>2, <2>6, Fields, NextFields
    <3>4. /\ w.want = v.want /\ w.write = v.write /\ w.reply = v.reply /\ w.read = v.read /\ w.link = v.link
          /\ w.accepted = v.accepted /\ SameEnds(v, w) /\ w.outcome = v.outcome
      BY <1>a, <1>k, Fields, NextFields DEF SameEnds
    <3>5. w.lost = v.lost /\ w.fwd = v.fwd /\ w.bwd = v.bwd
      BY <2>5, Fields, NextFields
    <3> HIDE DEF v, w
    <3> QED BY <3>1, <3>3, <3>4, <3>5, ViewLess
  <2> QED BY <1>s, <1>l, <2>w, <2>7, <2>8, CircuitsStep
<1> QED BY <1>a, <1>3, <1>4

LEMMA ContinueCircuit ==
    ASSUME CircuitInv, NEW n \in Node, NEW s \in Sid, Continue(n, s)
    PROVE  CircuitInv'
<1> USE DEF CircuitInv
<1> DEFINE p == s[1]  h == s[2]  v == View(p)  w == View(p)'
<1>u. PICK u : u = Prev(s)
  OBVIOUS
<1>r. PICK swept : swept = [r \in DOMAIN router[n] |-> IF router[n][r] = "live" THEN "live" ELSE "closed"]
  OBVIOUS
<1>o. PICK st : st = [stream EXCEPT ![s].fwd = Append(@, Packet(s))]
  OBVIOUS
<1>a. /\ n # Client /\ [sid |-> s, step |-> "write"] \in outbound[n]
      /\ outbound' = [outbound EXCEPT ![n] = @ \ {[sid |-> s, step |-> "write"]}]
      /\ UNCHANGED <<config, route, stale, want, inbound, outcome, accepted, got, sent, faults>>
  BY DEF Continue
<1>b. \/ stream' = DropA(DropB(stream, u), s) /\ UNCHANGED <<router, error>>
      \/ /\ Writable(s, "fwd") /\ stream' = st
         /\ router' = [router EXCEPT ![n] = With(swept, u, "live")] /\ UNCHANGED error
      \/ /\ Writable(s, "fwd") /\ stream' = DropA(DropB(st, u), s)
         /\ router' = [router EXCEPT ![n] = swept] /\ UNCHANGED error
      \/ /\ Writable(s, "fwd") /\ stream' = DropA(st, s)
         /\ router' = [router EXCEPT ![n] = swept]
         /\ error' = [error EXCEPT ![n] = With(@, u, "occupied")]
  BY <1>u, <1>r, <1>o DEF Continue
<1>s. /\ p \in Paths /\ h \in Hop /\ s \in Dials(n) /\ outcome[p] # "none"
      /\ u \in Sid /\ u[1] = p /\ u[2] = h - 1 /\ h - 1 \in {1, 2} /\ u \in Serves(n)
  <2>1. s \in Dials(n) /\ p \in Paths /\ h \in Hop
    BY <1>a, Places DEF Sid
  <2> QED BY <1>a, <1>u, <2>1, AtRelay DEF Dials
<1>k. /\ Wants' = Wants /\ Reads' = Reads
  BY <1>a, Kept
<1>f. /\ s \in Writes /\ Leaves(Writes', Writes, s) /\ Awaits' = Awaits
  BY <1>a, WriteDone
<1>2. OnlyAt(Writes', Writes, p) /\ HopsOf(Writes', p) = HopsOf(Writes, p) \ {h}
  BY <1>f, LeavesAt
<1>d. DOMAIN swept = DOMAIN router[n]
  BY <1>r
<1>e. \A m \in Node : outbound'[m] \subseteq outbound[m]
  BY <1>a DEF Wired
<1>g. u \in Serves(n)'
  BY <1>a, <1>s DEF Serves, To
<1>x. PICK x \in Parcel : x = Packet(s) /\ x.type = PacketType[h]
  BY <1>s, PacketFacts
<1>q. PICK q \in Seq(Parcel) : q = Append(stream[s].fwd, x)
  BY StreamFields, QueueFacts DEF Wired
<1>3. /\ st \in Streams /\ Puts(Fwd(st), Fwd(stream), s, q) /\ Bwd(st) = Bwd(stream)
      /\ Held(st) = Held(stream) /\ Lost(st) = Lost(stream)
      /\ Fwd(stream) \in [Sid -> Seq(Parcel)]
  <2>1. st = PutFwd(stream, s, q)
    BY <1>o, <1>q, <1>x, Updates
  <2> QED BY <2>1, SetFwd, StreamFields DEF Wired
<1>4. OnlyRow(Fwd(st), Fwd(stream), p) /\ Changed(RowOf(Fwd(st), p), RowOf(Fwd(stream), p), h, q)
  BY <1>3, PutsAt
<1>5. w.accepted = v.accepted /\ SameEnds(v, w) /\ w.outcome = v.outcome
  BY <1>a, Fields, NextFields DEF SameEnds
<1>6. w.want = v.want /\ w.reply = v.reply /\ w.read = v.read /\ w.write = v.write \ {h}
  BY <1>k, <1>f, <1>2, Fields, NextFields
<1>7. h \in v.write /\ v.fwd[h] = stream[s].fwd
  BY <1>f, AtHop, Fields, StreamFields DEF Wired
<1>8. Writable(s, "fwd") => h \in v.held
  BY AtHop, Fields, StreamFields DEF Wired, Writable
<1>9. ASSUME stream' = DropA(DropB(stream, u), s), UNCHANGED <<router, error>>
      PROVE  CircuitInv'
  <2>1. /\ DropB(stream, u) \in Streams /\ Fwd(DropB(stream, u)) = Fwd(stream)
        /\ Bwd(DropB(stream, u)) = Bwd(stream)
        /\ Leaves(Held(DropB(stream, u)), Held(stream), u) /\ Lost(DropB(stream, u)) = Lost(stream)
    BY <1>s, DropEnds DEF Wired
  <2>2. /\ stream' \in Streams /\ Fwd(stream') = Fwd(stream) /\ Bwd(stream') = Bwd(stream)
        /\ Leaves(Held(stream'), Held(stream), u) /\ Lost(stream') = Lost(stream)
    BY <1>9, <2>1, DropEnds DEF SameStreams
  <2>3. OnlyAt(Held(stream'), Held(stream), p) /\ HopsOf(Held(stream'), p) = HopsOf(Held(stream), p) \ {h - 1}
    BY <1>s, <2>2, LeavesAt
  <2>k. Links' = Links /\ Refusals' = Refusals
    BY <1>9, Kept
  <2>w. Wired'
    BY <1>a, <1>9, <2>2, WiredParts DEF Wired
  <2>l. Located' /\ Routed'
    BY <1>a, <1>e, <1>9, LocatedStep DEF Located, Routed
  <2>4. Apart(p)
    BY <1>2, <1>a, <1>k, <1>f, <1>s, <2>2, <2>3, <2>k, StaysAt, ApartIs
  <2>5. Circuit(w, p)
    <3>1. Circuit(v, p) /\ ViewType(w)
      BY <1>s, <2>w, ThisCircuit
    <3>2. w.link = v.link /\ w.refused = v.refused /\ w.held = v.held \ {h - 1}
      BY <2>k, <2>3, Fields, NextFields
    <3>3. w.lost = v.lost /\ w.fwd = v.fwd /\ w.bwd = v.bwd
      BY <2>2, Fields, NextFields
    <3> HIDE DEF v, w
    <3> QED BY <1>5, <1>6, <3>1, <3>2, <3>3, ViewLess
  <2> QED BY <1>s, <2>w, <2>l, <2>4, <2>5, CircuitsStep
<1>10. ASSUME Writable(s, "fwd"), stream' \in Streams, Fwd(stream') = Fwd(st), Bwd(stream') = Bwd(stream),
              OnlyAt(Held(stream'), Held(stream), p), Held(stream') \subseteq Held(stream),
              Lost(stream') = Lost(stream),
              NEW joins, NEW refuses, joins \cup refuses \subseteq {h - 1}, joins \cap refuses = {},
              OnlyAt(Links', Links, p), HopsOf(Links', p) = HopsOf(Links, p) \cup joins,
              OnlyAt(Refusals', Refusals, p), HopsOf(Refusals', p) = HopsOf(Refusals, p) \cup refuses,
              Wired', Located'
       PROVE  CircuitInv'
  <2>1. Apart(p)
    BY <1>2, <1>3, <1>4, <1>a, <1>k, <1>f, <1>s, <1>10, StaysAt, ApartIs
  <2>2. Circuit(w, p)
    <3>1. Circuit(v, p) /\ ViewType(w)
      BY <1>s, <1>10, ThisCircuit
    <3>2. w.link = v.link \cup joins /\ w.refused = v.refused \cup refuses
      BY <1>10, Fields, NextFields
    <3>3. w.lost = v.lost /\ w.bwd = v.bwd
      BY <1>10, Fields, NextFields
    <3>4. w.held \subseteq v.held
      <4>1. \A X, Y : X \subseteq Y => HopsOf(X, p) \subseteq HopsOf(Y, p)
        BY DEF HopsOf
      <4>2. w.held = HopsOf(Held(stream'), p) /\ v.held = HopsOf(Held(stream), p)
        BY Fields, NextFields
      <4> QED BY <1>10, <4>1, <4>2
    <3>5. Changed(w.fwd, v.fwd, h, Append(v.fwd[h], x))
      BY <1>4, <1>7, <1>10, <1>q, Fields, NextFields
    <3>6. joins \cup refuses \subseteq {h - 1} \cap {1, 2}
      BY <1>10, <1>s
    <3>7. h \in v.held /\ h \in v.write /\ x \in Parcel /\ x.type = PacketType[h] /\ joins \cap refuses = {}
      BY <1>7, <1>8, <1>10, <1>x
    <3> HIDE DEF v, w, h
    <3>0. PICK none : none = {}
      OBVIOUS
    <3>9. w.reply = v.reply \cup none
      BY <1>6, <3>0
    <3>8. Passed(v, w, h, x, none, joins, refuses)
      BY <1>5, <1>6, <3>0, <3>2, <3>3, <3>4, <3>5, <3>6, <3>7, <3>9 DEF Passed
    <3> QED BY <3>1, <3>8, ViewPassed
  <2>3. Routed'
    BY <1>a DEF Routed
  <2> QED BY <1>s, <1>10, <2>1, <2>2, <2>3, CircuitsStep
<1>0. PICK none, one : none = {} /\ one = {h - 1}
  OBVIOUS
<1>11. CASE /\ Writable(s, "fwd") /\ stream' = st
            /\ router' = [router EXCEPT ![n] = With(swept, u, "live")] /\ UNCHANGED error
  <2>1. /\ Joins(Links', Links, u) /\ DOMAIN router' = Node
        /\ \A m \in Node : DOMAIN router'[m] = DOMAIN router[m] \cup {y \in {u} : m = n}
    BY <1>11, <1>d, <1>s, LinkAdded
  <2>2. OnlyAt(Links', Links, p) /\ HopsOf(Links', p) = HopsOf(Links, p) \cup one
    BY <1>0, <1>s, <2>1, JoinsAt
  <2>3. OnlyAt(Refusals', Refusals, p) /\ HopsOf(Refusals', p) = HopsOf(Refusals, p) \cup none
    BY <1>0, <1>11, Kept, StaysAt
  <2>w. Wired'
    BY <1>a, <1>3, <1>11, <2>1, WiredParts DEF Wired
  <2>l. Located'
    BY <1>a, <1>e, <1>g, <1>11, <2>1, LocatedStep DEF Located
  <2>4. /\ stream' \in Streams /\ Fwd(stream') = Fwd(st) /\ Bwd(stream') = Bwd(stream)
        /\ OnlyAt(Held(stream'), Held(stream), p) /\ Held(stream') \subseteq Held(stream)
        /\ Lost(stream') = Lost(stream)
    BY <1>3, <1>11, StaysAt
  <2>5. one \cup none \subseteq {h - 1} /\ one \cap none = {}
    BY <1>0
  <2> QED BY <1>10, <1>11, <2>2, <2>3, <2>w, <2>l, <2>4, <2>5
<1>12. CASE /\ Writable(s, "fwd") /\ stream' = DropA(DropB(st, u), s)
            /\ router' = [router EXCEPT ![n] = swept] /\ UNCHANGED error
  <2>1. Links' = Links /\ DOMAIN router' = Node /\ \A m \in Node : DOMAIN router'[m] = DOMAIN router[m]
    BY <1>12, <1>d, LinksKept
  <2>2. /\ OnlyAt(Links', Links, p) /\ HopsOf(Links', p) = HopsOf(Links, p) \cup none
        /\ OnlyAt(Refusals', Refusals, p) /\ HopsOf(Refusals', p) = HopsOf(Refusals, p) \cup none
    BY <1>0, <1>12, <2>1, Kept, StaysAt
  <2>3. /\ DropB(st, u) \in Streams /\ Fwd(DropB(st, u)) = Fwd(st)
        /\ Bwd(DropB(st, u)) = Bwd(st)
        /\ Leaves(Held(DropB(st, u)), Held(st), u) /\ Lost(DropB(st, u)) = Lost(st)
    BY <1>3, <1>s, DropEnds
  <2>4. /\ stream' \in Streams /\ Fwd(stream') = Fwd(st) /\ Bwd(stream') = Bwd(stream)
        /\ Leaves(Held(stream'), Held(stream), u) /\ Lost(stream') = Lost(stream)
    BY <1>3, <1>12, <2>3, DropEnds DEF SameStreams
  <2>5. OnlyAt(Held(stream'), Held(stream), p) /\ Held(stream') \subseteq Held(stream)
    BY <1>s, <2>4, LeavesAt DEF Leaves
  <2>w. Wired'
    BY <1>a, <1>12, <2>1, <2>4, WiredParts DEF Wired
  <2>l. Located'
    BY <1>a, <1>e, <1>12, <2>1, LocatedStep DEF Located
  <2>6. none \cup none \subseteq {h - 1} /\ none \cap none = {}
    BY <1>0
  <2> QED BY <1>10, <1>12, <2>2, <2>w, <2>l, <2>4, <2>5, <2>6
<1>13. CASE /\ Writable(s, "fwd") /\ stream' = DropA(st, s)
            /\ router' = [router EXCEPT ![n] = swept]
            /\ error' = [error EXCEPT ![n] = With(@, u, "occupied")]
  <2>1. Links' = Links /\ DOMAIN router' = Node /\ \A m \in Node : DOMAIN router'[m] = DOMAIN router[m]
    BY <1>13, <1>d, LinksKept
  <2>2. OnlyAt(Links', Links, p) /\ HopsOf(Links', p) = HopsOf(Links, p) \cup none
    BY <1>0, <2>1, StaysAt
  <2>3. /\ Joins(Refusals', Refusals, u) /\ DOMAIN error' = Node
        /\ \A m \in Node : /\ DOMAIN error'[m] = DOMAIN error[m] \cup {y \in {u} : m = n}
                           /\ error'[m] \in [DOMAIN error'[m] -> Code]
    BY <1>13, <1>s, RefusalAdded DEF Code
  <2>4. OnlyAt(Refusals', Refusals, p) /\ HopsOf(Refusals', p) = HopsOf(Refusals, p) \cup one
    BY <1>0, <1>s, <2>3, JoinsAt
  <2>5. /\ stream' \in Streams /\ Fwd(stream') = Fwd(st) /\ Bwd(stream') = Bwd(stream)
        /\ OnlyAt(Held(stream'), Held(stream), p) /\ Held(stream') \subseteq Held(stream)
        /\ Lost(stream') = Lost(stream)
    BY <1>3, <1>13, DropEnds, StaysAt DEF SameStreams
  <2>w. Wired'
    BY <1>a, <1>13, <2>1, <2>3, <2>5, WiredParts DEF Wired
  <2>l. Located'
    BY <1>a, <1>e, <1>g, <2>1, <2>3, LocatedStep DEF Located
  <2>6. none \cup one \subseteq {h - 1} /\ none \cap one = {}
    BY <1>0
  <2> QED BY <1>10, <1>13, <2>2, <2>4, <2>w, <2>l, <2>5, <2>6
<1> QED BY <1>b, <1>9, <1>11, <1>12, <1>13

LEMMA RouteEndsCircuit ==
    ASSUME CircuitInv, NEW n \in Node, NEW s \in Sid, RouteEnds(n, s)
    PROVE  CircuitInv'
<1> USE DEF CircuitInv
<1> DEFINE p == s[1]  h == s[2]  v == View(p)  w == View(p)'
<1>a. /\ s \in DOMAIN router[n]
      /\ stream' = DropB(DropA(stream, After(s)), s)
      /\ router' = [router EXCEPT ![n] = [r \in DOMAIN @ \ {s} |-> @[r]]]
      /\ UNCHANGED <<config, route, stale, want, inbound, outbound, error, outcome, accepted, got, sent>>
  BY DEF RouteEnds, DropRoute, Others
<1>f. /\ s \in Links /\ Leaves(Links', Links, s) /\ DOMAIN router' = Node
      /\ \A m \in Node : DOMAIN router'[m] \subseteq DOMAIN router[m]
  BY <1>a, LinkDropped
<1>s. p \in Paths /\ h \in {1, 2} /\ s \in Serves(n)
  <2>1. p \in Paths /\ h \in Hop /\ s \in Serves(n)
    BY <1>a, Places DEF Sid
  <2>2. h \in View(p).link /\ Circuit(View(p), p)
    BY <1>f, <2>1, AtHop, Fields DEF Circuits
  <2> QED BY <2>1, <2>2 DEF Circuit, Answers
<1>u. PICK u \in Sid : u = After(s)
  BY <1>s, AtNext
<1>k. /\ Wants' = Wants /\ Writes' = Writes /\ Awaits' = Awaits /\ Reads' = Reads /\ Refusals' = Refusals
  BY <1>a, Kept
<1>1. DropA(stream, u) \in Streams /\ SameStreams(DropA(stream, u), stream)
  BY DropEnds DEF Wired
<1>2. /\ stream' \in Streams /\ Fwd(stream') = Fwd(stream) /\ Bwd(stream') = Bwd(stream)
      /\ Leaves(Held(stream'), Held(stream), s) /\ Lost(stream') = Lost(stream)
  BY <1>a, <1>u, <1>1, DropEnds DEF SameStreams
<1>3. /\ OnlyAt(Held(stream'), Held(stream), p) /\ HopsOf(Held(stream'), p) = HopsOf(Held(stream), p) \ {h}
      /\ OnlyAt(Links', Links, p) /\ HopsOf(Links', p) = HopsOf(Links, p) \ {h}
  BY <1>2, <1>f, LeavesAt
<1>w. Wired'
  BY <1>a, <1>f, <1>2, WiredParts DEF Wired
<1>l. Located' /\ Routed'
  BY <1>a, <1>f, LocatedStep DEF Located, Routed
<1>4. Apart(p)
  BY <1>a, <1>k, <1>s, <1>2, <1>3, StaysAt, ApartIs
<1>5. Circuit(w, p)
  <2>1. Circuit(v, p) /\ ViewType(w)
    BY <1>s, <1>w, ThisCircuit
  <2>2. w.link = v.link \ {h} /\ w.held = v.held \ {h}
    BY <1>3, Fields, NextFields
  <2>3. /\ w.want = v.want /\ w.write = v.write /\ w.reply = v.reply /\ w.read = v.read /\ w.refused = v.refused
        /\ w.accepted = v.accepted /\ SameEnds(v, w) /\ w.outcome = v.outcome
    BY <1>a, <1>k, Fields, NextFields DEF SameEnds
  <2>4. w.lost = v.lost /\ w.fwd = v.fwd /\ w.bwd = v.bwd
    BY <1>2, Fields, NextFields
  <2> HIDE DEF v, w
  <2> QED BY <2>1, <2>2, <2>3, <2>4, ViewLess
<1> QED BY <1>s, <1>w, <1>l, <1>4, <1>5, CircuitsStep

-----------------------------------------------------------------------------
\* Only what is in the streams changes, and what the ends have of it.
Carries == /\ UNCHANGED <<config, route, stale, want, inbound, outbound, error, outcome, accepted>>
           /\ DOMAIN router' = Node /\ \A m \in Node : DOMAIN router'[m] = DOMAIN router[m]
           /\ stream' \in Streams

LEMMA CarriesKeeps ==
    ASSUME CircuitInv, Carries
    PROVE  /\ Located' /\ Routed'
           /\ Wants' = Wants /\ Writes' = Writes /\ Awaits' = Awaits /\ Reads' = Reads
           /\ Links' = Links /\ Refusals' = Refusals
<1> USE DEF CircuitInv, Carries
<1>1. Located'
  BY LocatedStep DEF Located
<1>2. Links' = Links
  BY DEF Links
<1> QED BY <1>1, <1>2, Kept DEF Routed

LEMMA CarriesView ==
    ASSUME CircuitInv, Carries, NEW p \in Paths
    PROVE  /\ SamePlaces(View(p), View(p)') /\ View(p)'.outcome = View(p).outcome
           /\ View(p)'.accepted = View(p).accepted
<1>1. View(p)'.outcome = View(p).outcome /\ View(p)'.accepted = View(p).accepted
  BY Fields, NextFields DEF Carries
<1>2. /\ View(p)'.want = View(p).want /\ View(p)'.write = View(p).write /\ View(p)'.reply = View(p).reply
  BY CarriesKeeps, Fields, NextFields
<1>3. /\ View(p)'.read = View(p).read /\ View(p)'.link = View(p).link /\ View(p)'.refused = View(p).refused
  BY CarriesKeeps, Fields, NextFields
<1> QED BY <1>1, <1>2, <1>3 DEF SamePlaces

LEMMA CarriesWired ==
    ASSUME CircuitInv, Carries, got' = got, sent' = sent
    PROVE  Wired'
BY WiredParts DEF CircuitInv, Carries, Wired

LEMMA CarriesCircuit ==
    ASSUME CircuitInv, Carries, Wired', NEW p \in Paths,
           OnlyAt(Held(stream'), Held(stream), p), OnlyAt(Lost(stream'), Lost(stream), p),
           OnlyRow(Fwd(stream'), Fwd(stream), p), OnlyRow(Bwd(stream'), Bwd(stream), p),
           \A q \in Paths : q # p => got'[q] = got[q] /\ sent'[q] = sent[q],
           Circuit(View(p)', p)
    PROVE  CircuitInv'
<1>1. Located' /\ Routed'
  BY CarriesKeeps
<1>2. Apart(p)
  <2>1. /\ OnlyAt(Wants', Wants, p) /\ OnlyAt(Writes', Writes, p) /\ OnlyAt(Awaits', Awaits, p)
        /\ OnlyAt(Reads', Reads, p) /\ OnlyAt(Links', Links, p) /\ OnlyAt(Refusals', Refusals, p)
    BY CarriesKeeps, StaysAt
  <2>2. \A q \in Paths : outcome'[q] = outcome[q] /\ accepted'[q] = accepted[q]
    BY DEF Carries
  <2> QED BY <2>1, <2>2, ApartIs
<1>3. Circuits'
  BY <1>2, CircuitsStep DEF CircuitInv
<1> QED BY <1>1, <1>3 DEF CircuitInv

\* The two streams that a route joins
LEMMA Joined ==
    ASSUME CircuitInv, NEW n \in Node, NEW s \in Sid, s \in DOMAIN router[n]
    PROVE  /\ s[1] \in Paths /\ s[2] \in {1, 2} /\ After(s) \in Sid /\ After(s) # s
           /\ After(s)[1] = s[1] /\ After(s)[2] = s[2] + 1 /\ s[2] + 1 \in {2, 3}
           /\ s[2] \in View(s[1]).link
<1> USE DEF CircuitInv
<1>1. s[1] \in Paths /\ s[2] \in Hop /\ s \in Serves(n)
  BY Places DEF Sid
<1>2. s \in Links
  BY DEF Links
<1>3. s[2] \in View(s[1]).link /\ Circuit(View(s[1]), s[1])
  BY <1>1, <1>2, AtHop, Fields DEF Circuits
<1>4. s[2] \in {1, 2} /\ s[2] # 3
  BY <1>3 DEF Circuit, Answers
<1>5. After(s) \in Sid /\ After(s)[1] = s[1] /\ After(s)[2] = s[2] + 1
  BY <1>1, <1>4, AtNext
<1>6. s[2] + 1 \in {2, 3} /\ s[2] + 1 # s[2]
  BY <1>4
<1> QED BY <1>1, <1>3, <1>4, <1>5, <1>6

LEMMA RouteMarked ==
    ASSUME Wired, NEW n \in Node, NEW s, NEW x, router' = [router EXCEPT ![n][s] = x]
    PROVE  DOMAIN router' = Node /\ \A m \in Node : DOMAIN router'[m] = DOMAIN router[m]
BY DEF Wired

LEMMA ForwardCircuit ==
    ASSUME CircuitInv, NEW n \in Node, NEW s \in Sid, Forward(n, s)
    PROVE  CircuitInv'
<1> DEFINE p == s[1]  h == s[2]  j == h + 1  v == View(p)  w == View(p)'
<1>a. /\ s \in DOMAIN router[n] /\ stream[s].fwd # <<>> /\ ~stream[After(s)].broken
      /\ stream' = [stream EXCEPT ![s].fwd = Tail(@), ![After(s)].fwd = Append(@, Head(stream[s].fwd))]
      /\ router' = [router EXCEPT ![n][s] = "live"]
      /\ UNCHANGED <<config, route, stale, want, inbound, outbound, error, outcome, accepted, got, sent>>
  BY DEF Forward, Others, Writable, Rest
<1>0. stream \in Streams /\ Wired /\ Circuits
  BY DEF CircuitInv, Wired
<1>u. PICK u \in Sid : u = After(s)
  BY <1>a, Joined
<1>s. p \in Paths /\ h \in {1, 2} /\ u # s /\ u[1] = p /\ u[2] = j /\ j \in {2, 3} /\ h \in v.link
  BY <1>a, <1>u, Joined
<1>t. PICK t \in Seq(Parcel), x \in Parcel : t = Tail(stream[s].fwd) /\ x = Head(stream[s].fwd)
  BY <1>0, <1>a, StreamFields, QueueFacts
<1>q. PICK q \in Seq(Parcel) : q = Append(stream[u].fwd, x)
  BY <1>0, StreamFields, QueueFacts
<1>1. PICK one : one = PutFwd(stream, s, t)
  OBVIOUS
<1>2. /\ one \in Streams /\ Puts(Fwd(one), Fwd(stream), s, t) /\ Bwd(one) = Bwd(stream)
      /\ Held(one) = Held(stream) /\ Lost(one) = Lost(stream) /\ Fwd(stream) \in [Sid -> Seq(Parcel)]
      /\ Fwd(one) \in [Sid -> Seq(Parcel)]
  <2>1. /\ one \in Streams /\ Puts(Fwd(one), Fwd(stream), s, t) /\ Bwd(one) = Bwd(stream)
        /\ Held(one) = Held(stream) /\ Lost(one) = Lost(stream)
    BY <1>0, <1>1, SetFwd
  <2>2. Fwd(stream) \in [Sid -> Seq(Parcel)] /\ Fwd(one) \in [Sid -> Seq(Parcel)]
    BY <1>0, <2>1, StreamFields
  <2> QED BY <2>1, <2>2
<1>3. stream' = PutFwd(one, u, q)
  <2>1. one = [stream EXCEPT ![s].fwd = Tail(@)]
    BY <1>0, <1>1, <1>t, Updates
  <2>2. stream' = [[stream EXCEPT ![s].fwd = Tail(@)]
                     EXCEPT ![u].fwd = Append(stream[u].fwd, Head(stream[s].fwd))]
    BY <1>a, <1>u
  <2>3. stream' = [one EXCEPT ![u].fwd = q]
    BY <1>q, <1>t, <2>1, <2>2
  <2> QED BY <2>3 DEF PutFwd
<1>4. /\ stream' \in Streams /\ Puts(Fwd(stream'), Fwd(one), u, q) /\ Bwd(stream') = Bwd(one)
      /\ Held(stream') = Held(one) /\ Lost(stream') = Lost(one)
  BY <1>2, <1>3, SetFwd
<1>c. Carries
  BY <1>0, <1>a, <1>4, RouteMarked DEF Carries
<1>5. /\ OnlyRow(Fwd(one), Fwd(stream), p) /\ Changed(RowOf(Fwd(one), p), RowOf(Fwd(stream), p), h, t)
      /\ OnlyRow(Fwd(stream'), Fwd(one), p) /\ Changed(RowOf(Fwd(stream'), p), RowOf(Fwd(one), p), j, q)
  BY <1>2, <1>4, <1>s, PutsAt
<1>6. OnlyRow(Fwd(stream'), Fwd(stream), p)
  BY <1>5 DEF OnlyRow
<1>w. Wired'
  BY <1>a, <1>c, CarriesWired
<1>7. Circuit(w, p)
  <2>1. Circuit(v, p) /\ ViewType(w)
    BY <1>0, <1>s, <1>w, ThisCircuit
  <2>2. w.outcome = v.outcome /\ w.accepted = v.accepted /\ SamePlaces(v, w)
    BY <1>c, <1>s, CarriesView
  <2>3. w.held = v.held /\ w.lost = v.lost /\ w.bwd = v.bwd
    BY <1>2, <1>4, Fields, NextFields
  <2>4. SameEnds(v, w)
    BY <1>a, Fields, NextFields DEF SameEnds
  <2>5. v.fwd[h] = stream[s].fwd /\ v.fwd[j] = stream[u].fwd /\ j \notin v.lost
    <3>1. v.fwd = RowOf(Fwd(stream), p) /\ v.lost = HopsOf(Lost(stream), p)
      BY Fields
    <3>2. Fwd(stream)[s] = stream[s].fwd /\ Fwd(stream)[u] = stream[u].fwd /\ u \notin Lost(stream)
      BY <1>0, <1>a, <1>u, StreamFields
    <3> HIDE DEF v
    <3>3. Fwd(stream)[s] = v.fwd[h] /\ Fwd(stream)[u] = v.fwd[j] /\ j \notin v.lost
      <4>1. Fwd(stream)[s] = RowOf(Fwd(stream), p)[h]
        BY AtHop
      <4>2. Fwd(stream)[u] = RowOf(Fwd(stream), p)[j] /\ j \notin HopsOf(Lost(stream), p)
        BY <1>s, <3>2, AtHop
      <4> QED BY <3>1, <4>1, <4>2
    <3> QED BY <3>2, <3>3
  <2>6. Moves(w.fwd, v.fwd, h, j)
    <3>1. w.fwd = RowOf(Fwd(stream'), p) /\ v.fwd = RowOf(Fwd(stream), p)
      BY Fields, NextFields
    <3>2. h # j
      BY <1>s
    <3> HIDE DEF v, w, h, j
    <3> QED BY <1>5, <1>t, <1>q, <2>5, <3>1, <3>2 DEF Moves, Changed
  <2>7. v.fwd[h] # <<>> /\ h \in v.link
    BY <1>a, <1>s, <2>5
  <2>8. j = h + 1 /\ h \in {1, 2} /\ j \in {2, 3}
    BY <1>s
  <2> HIDE DEF v, w, h, j
  <2> QED BY <2>1, <2>2, <2>3, <2>4, <2>5, <2>6, <2>7, <2>8, ViewForwards
<1> QED BY <1>a, <1>c, <1>s, <1>w, <1>2, <1>4, <1>6, <1>7, StaysAt, CarriesCircuit

LEMMA BackwardCircuit ==
    ASSUME CircuitInv, NEW n \in Node, NEW s \in Sid, Backward(n, s)
    PROVE  CircuitInv'
<1> DEFINE p == s[1]  h == s[2]  j == h + 1  v == View(p)  w == View(p)'
<1>a. /\ s \in DOMAIN router[n] /\ stream[After(s)].bwd # <<>> /\ ~stream[s].broken
      /\ stream' = [stream EXCEPT ![After(s)].bwd = Tail(@), ![s].bwd = Append(@, Head(stream[After(s)].bwd))]
      /\ router' = [router EXCEPT ![n][s] = "live"]
      /\ UNCHANGED <<config, route, stale, want, inbound, outbound, error, outcome, accepted, got, sent>>
  BY DEF Backward, Others, Writable
<1>0. stream \in Streams /\ Wired /\ Circuits
  BY DEF CircuitInv, Wired
<1>u. PICK u \in Sid : u = After(s)
  BY <1>a, Joined
<1>s. p \in Paths /\ h \in {1, 2} /\ u # s /\ u[1] = p /\ u[2] = j /\ j \in {2, 3} /\ h \in v.link
  BY <1>a, <1>u, Joined
<1>t. PICK t \in Seq(Parcel), x \in Parcel : t = Tail(stream[u].bwd) /\ x = Head(stream[u].bwd)
  BY <1>0, <1>a, <1>u, StreamFields, QueueFacts
<1>q. PICK q \in Seq(Parcel) : q = Append(stream[s].bwd, x)
  BY <1>0, StreamFields, QueueFacts
<1>1. PICK one : one = PutBwd(stream, u, t)
  OBVIOUS
<1>2. /\ one \in Streams /\ Puts(Bwd(one), Bwd(stream), u, t) /\ Fwd(one) = Fwd(stream)
      /\ Held(one) = Held(stream) /\ Lost(one) = Lost(stream) /\ Bwd(stream) \in [Sid -> Seq(Parcel)]
      /\ Bwd(one) \in [Sid -> Seq(Parcel)]
  <2>1. /\ one \in Streams /\ Puts(Bwd(one), Bwd(stream), u, t) /\ Fwd(one) = Fwd(stream)
        /\ Held(one) = Held(stream) /\ Lost(one) = Lost(stream)
    BY <1>0, <1>1, SetBwd
  <2>2. Bwd(stream) \in [Sid -> Seq(Parcel)] /\ Bwd(one) \in [Sid -> Seq(Parcel)]
    BY <1>0, <2>1, StreamFields
  <2> QED BY <2>1, <2>2
<1>3. stream' = PutBwd(one, s, q)
  <2>1. one = [stream EXCEPT ![u].bwd = Tail(@)]
    BY <1>0, <1>1, <1>t, Updates
  <2>2. stream' = [[stream EXCEPT ![u].bwd = Tail(@)]
                     EXCEPT ![s].bwd = Append(stream[s].bwd, Head(stream[u].bwd))]
    BY <1>a, <1>u
  <2>3. stream' = [one EXCEPT ![s].bwd = q]
    BY <1>q, <1>t, <2>1, <2>2
  <2> QED BY <2>3 DEF PutBwd
<1>4. /\ stream' \in Streams /\ Puts(Bwd(stream'), Bwd(one), s, q) /\ Fwd(stream') = Fwd(one)
      /\ Held(stream') = Held(one) /\ Lost(stream') = Lost(one)
  BY <1>2, <1>3, SetBwd
<1>c. Carries
  BY <1>0, <1>a, <1>4, RouteMarked DEF Carries
<1>5. /\ OnlyRow(Bwd(one), Bwd(stream), p) /\ Changed(RowOf(Bwd(one), p), RowOf(Bwd(stream), p), j, t)
      /\ OnlyRow(Bwd(stream'), Bwd(one), p) /\ Changed(RowOf(Bwd(stream'), p), RowOf(Bwd(one), p), h, q)
  BY <1>2, <1>4, <1>s, PutsAt
<1>6. OnlyRow(Bwd(stream'), Bwd(stream), p)
  BY <1>5 DEF OnlyRow
<1>w. Wired'
  BY <1>a, <1>c, CarriesWired
<1>7. Circuit(w, p)
  <2>1. Circuit(v, p) /\ ViewType(w)
    BY <1>0, <1>s, <1>w, ThisCircuit
  <2>2. w.outcome = v.outcome /\ w.accepted = v.accepted /\ SamePlaces(v, w)
    BY <1>c, <1>s, CarriesView
  <2>3. w.held = v.held /\ w.lost = v.lost /\ w.fwd = v.fwd
    BY <1>2, <1>4, Fields, NextFields
  <2>4. SameEnds(v, w)
    BY <1>a, Fields, NextFields DEF SameEnds
  <2>5. v.bwd[h] = stream[s].bwd /\ v.bwd[j] = stream[u].bwd /\ h \notin v.lost
    <3>1. v.bwd = RowOf(Bwd(stream), p) /\ v.lost = HopsOf(Lost(stream), p)
      BY Fields
    <3>2. Bwd(stream)[s] = stream[s].bwd /\ Bwd(stream)[u] = stream[u].bwd /\ s \notin Lost(stream)
      BY <1>0, <1>a, StreamFields
    <3> HIDE DEF v
    <3>3. Bwd(stream)[s] = v.bwd[h] /\ Bwd(stream)[u] = v.bwd[j] /\ h \notin v.lost
      <4>1. Bwd(stream)[s] = RowOf(Bwd(stream), p)[h] /\ h \notin HopsOf(Lost(stream), p)
        BY <3>2, AtHop
      <4>2. Bwd(stream)[u] = RowOf(Bwd(stream), p)[j]
        BY <1>s, AtHop
      <4> QED BY <3>1, <4>1, <4>2
    <3> QED BY <3>2, <3>3
  <2>6. Moves(w.bwd, v.bwd, j, h)
    <3>1. w.bwd = RowOf(Bwd(stream'), p) /\ v.bwd = RowOf(Bwd(stream), p)
      BY Fields, NextFields
    <3>2. h # j
      BY <1>s
    <3> HIDE DEF v, w, h, j
    <3> QED BY <1>5, <1>t, <1>q, <2>5, <3>1, <3>2 DEF Moves, Changed
  <2>7. v.bwd[j] # <<>> /\ h \in v.link
    BY <1>a, <1>s, <1>u, <2>5
  <2>8. j = h + 1 /\ h \in {1, 2} /\ j \in {2, 3}
    BY <1>s
  <2> HIDE DEF v, w, h, j
  <2> QED BY <2>1, <2>2, <2>3, <2>4, <2>5, <2>6, <2>7, <2>8, ViewBackwards
<1> QED BY <1>a, <1>c, <1>s, <1>w, <1>2, <1>4, <1>6, <1>7, StaysAt, CarriesCircuit

\* A step that changes nothing a circuit is made of
LEMMA CarriesNothing ==
    ASSUME CircuitInv, Carries, SameStreams(stream', stream), got' = got, sent' = sent, NEW p \in Paths
    PROVE  CircuitInv'
<1> DEFINE v == View(p)  w == View(p)'
<1>w. Wired'
  BY CarriesWired
<1>1. Circuit(w, p)
  <2>1. Circuit(v, p) /\ ViewType(w)
    BY <1>w, ThisCircuit DEF CircuitInv
  <2>2. w.outcome = v.outcome /\ w.accepted = v.accepted /\ SamePlaces(v, w)
    BY CarriesView
  <2>3. w.held = v.held /\ w.lost = v.lost /\ w.fwd = v.fwd /\ w.bwd = v.bwd
    BY Fields, NextFields DEF SameStreams
  <2>4. SameEnds(v, w)
    BY Fields, NextFields DEF SameEnds
  <2> HIDE DEF v, w
  <2> QED BY <2>1, <2>2, <2>3, <2>4, ViewLess DEF SamePlaces
<1>2. /\ OnlyAt(Held(stream'), Held(stream), p) /\ OnlyAt(Lost(stream'), Lost(stream), p)
      /\ OnlyRow(Fwd(stream'), Fwd(stream), p) /\ OnlyRow(Bwd(stream'), Bwd(stream), p)
  BY StaysAt DEF SameStreams
<1> QED BY <1>1, <1>2, <1>w, CarriesCircuit

LEMMA IdleCircuit ==
    ASSUME CircuitInv, NEW n \in Node, NEW s \in Sid, Idle(n, s)
    PROVE  CircuitInv'
<1>1. /\ router' = [router EXCEPT ![n][s] = "idle"]
      /\ UNCHANGED <<config, route, stale, want, stream, inbound, outbound, error, outcome, accepted, got, sent>>
  BY DEF Idle
<1>2. Carries /\ SameStreams(stream', stream)
  BY <1>1, RouteMarked DEF Carries, SameStreams, CircuitInv, Wired
<1>3. s[1] \in Paths
  BY DEF Sid
<1> QED BY <1>1, <1>2, <1>3, CarriesNothing

\* The two streams of the ends
LEMMA EndStreams ==
    ASSUME NEW p \in Paths, NEW h \in Hop
    PROVE  \E s \in Sid : s = <<p, h>> /\ s[1] = p /\ s[2] = h
<1>1. <<p, h>> \in Sid
  BY DEF Sid
<1> WITNESS <<p, h>> \in Sid
<1> QED OBVIOUS

\* The routers are not concerned.
LEMMA CarriesAlone ==
    ASSUME CircuitInv, UNCHANGED <<Others, router>>, stream' \in Streams
    PROVE  Carries
BY DEF CircuitInv, Wired, Others, Carries

LEMMA ClientDoneCircuit ==
    ASSUME CircuitInv, NEW p \in Paths, ClientDone(p)
    PROVE  CircuitInv'
<1>s. PICK s \in Sid : s = <<p, 1>> /\ s[1] = p /\ s[2] = 1
  BY EndStreams DEF Hop
<1>1. stream' = DropA(stream, s) /\ UNCHANGED <<Others, router, got, sent>>
  BY <1>s DEF ClientDone
<1>2. stream' \in Streams /\ SameStreams(stream', stream)
  BY <1>1, DropEnds DEF CircuitInv, Wired
<1>3. Carries
  BY <1>1, <1>2, CarriesAlone
<1> QED BY <1>1, <1>2, <1>3, CarriesNothing

LEMMA ServerDoneCircuit ==
    ASSUME CircuitInv, NEW p \in Paths, ServerDone(p)
    PROVE  CircuitInv'
<1> DEFINE v == View(p)  w == View(p)'
<1>s. PICK s \in Sid : s = <<p, 3>> /\ s[1] = p /\ s[2] = 3
  BY EndStreams DEF Hop
<1>1. stream' = DropB(stream, s) /\ UNCHANGED <<Others, router, got, sent>>
  BY <1>s DEF ServerDone
<1>2. /\ stream' \in Streams /\ Fwd(stream') = Fwd(stream) /\ Bwd(stream') = Bwd(stream)
      /\ Leaves(Held(stream'), Held(stream), s) /\ Lost(stream') = Lost(stream)
  BY <1>1, DropEnds DEF CircuitInv, Wired
<1>c. Carries
  BY <1>1, <1>2, CarriesAlone
<1>w. Wired'
  BY <1>1, <1>c, CarriesWired
<1>3. OnlyAt(Held(stream'), Held(stream), p) /\ HopsOf(Held(stream'), p) = HopsOf(Held(stream), p) \ {3}
  BY <1>2, <1>s, LeavesAt
<1>4. Circuit(w, p)
  <2>1. Circuit(v, p) /\ ViewType(w)
    BY <1>w, ThisCircuit DEF CircuitInv
  <2>2. w.outcome = v.outcome /\ w.accepted = v.accepted /\ SamePlaces(v, w)
    BY <1>c, CarriesView
  <2>3. w.held = v.held \ {3} /\ w.lost = v.lost /\ w.fwd = v.fwd /\ w.bwd = v.bwd
    BY <1>2, <1>3, Fields, NextFields
  <2>4. SameEnds(v, w)
    BY <1>1, Fields, NextFields DEF SameEnds
  <2> HIDE DEF v, w
  <2> QED BY <2>1, <2>2, <2>3, <2>4, ViewLess DEF SamePlaces
<1> QED BY <1>1, <1>2, <1>3, <1>4, <1>c, <1>w, StaysAt, CarriesCircuit

LEMMA ConnectionLostCircuit ==
    ASSUME CircuitInv, NEW s \in Sid, ConnectionLost(s)
    PROVE  CircuitInv'
<1> DEFINE p == s[1]  h == s[2]  v == View(p)  w == View(p)'
<1>0. p \in Paths /\ h \in Hop /\ stream \in Streams
  BY DEF Sid, CircuitInv, Wired
<1>1. /\ stream' = [stream EXCEPT ![s].broken = TRUE, ![s].fwd = <<>>, ![s].bwd = <<>>]
      /\ UNCHANGED <<config, route, stale, want, inbound, outbound, router, error, outcome, accepted, got, sent>>
  BY DEF ConnectionLost
<1>2. /\ stream' \in Streams /\ Puts(Fwd(stream'), Fwd(stream), s, <<>>) /\ Puts(Bwd(stream'), Bwd(stream), s, <<>>)
      /\ Held(stream') = Held(stream) /\ Joins(Lost(stream'), Lost(stream), s)
  BY <1>0, <1>1, LostStream
<1>c. Carries
  BY <1>1, <1>2 DEF CircuitInv, Wired, Carries
<1>w. Wired'
  BY <1>1, <1>c, CarriesWired
<1>3. OnlyAt(Lost(stream'), Lost(stream), p) /\ HopsOf(Lost(stream'), p) = HopsOf(Lost(stream), p) \cup {h}
  BY <1>2, JoinsAt
<1>5. /\ OnlyRow(Fwd(stream'), Fwd(stream), p) /\ Changed(RowOf(Fwd(stream'), p), RowOf(Fwd(stream), p), h, <<>>)
      /\ OnlyRow(Bwd(stream'), Bwd(stream), p) /\ Changed(RowOf(Bwd(stream'), p), RowOf(Bwd(stream), p), h, <<>>)
  <2>1. Fwd(stream) \in [Sid -> Seq(Parcel)] /\ Bwd(stream) \in [Sid -> Seq(Parcel)]
    BY <1>0, StreamFields
  <2> QED BY <1>2, <2>1, PutsAt
<1>4. Circuit(w, p)
  <2>1. Circuit(v, p) /\ ViewType(w)
    BY <1>0, <1>w, ThisCircuit DEF CircuitInv
  <2>2. w.outcome = v.outcome /\ w.accepted = v.accepted /\ SamePlaces(v, w)
    BY <1>0, <1>c, CarriesView
  <2>3. w.held = v.held /\ w.lost = v.lost \cup {h}
    BY <1>2, <1>3, Fields, NextFields
  <2>4. SameEnds(v, w)
    BY <1>1, Fields, NextFields DEF SameEnds
  <2>5. Changed(w.fwd, v.fwd, h, <<>>) /\ Changed(w.bwd, v.bwd, h, <<>>)
    BY <1>5, Fields, NextFields
  <2> HIDE DEF v, w
  <2> QED BY <1>0, <2>1, <2>2, <2>3, <2>4, <2>5, ViewLost
<1> QED BY <1>0, <1>1, <1>2, <1>3, <1>4, <1>5, <1>c, <1>w, StaysAt, CarriesCircuit

\* An end writes or reads one item.
LEMMA WrittenCounts ==
    ASSUME sent \in [Paths -> [fwd : Nat, bwd : Nat]], NEW p \in Paths
    PROVE  /\ sent' = [sent EXCEPT ![p].fwd = @ + 1] =>
                /\ sent' \in [Paths -> [fwd : Nat, bwd : Nat]] /\ \A q \in Paths : q # p => sent'[q] = sent[q]
                /\ sent'[p].fwd = sent[p].fwd + 1 /\ sent'[p].bwd = sent[p].bwd
           /\ sent' = [sent EXCEPT ![p].bwd = @ + 1] =>
                /\ sent' \in [Paths -> [fwd : Nat, bwd : Nat]] /\ \A q \in Paths : q # p => sent'[q] = sent[q]
                /\ sent'[p].bwd = sent[p].bwd + 1 /\ sent'[p].fwd = sent[p].fwd
OBVIOUS

LEMMA DataIs ==
    ASSUME Wired, NEW p \in Paths
    PROVE  /\ Data(p, "fwd") \in Parcel
           /\ Data(p, "fwd") = [type |-> "data", path |-> p, dir |-> "fwd", n |-> sent[p].fwd + 1]
           /\ Data(p, "bwd") \in Parcel
           /\ Data(p, "bwd") = [type |-> "data", path |-> p, dir |-> "bwd", n |-> sent[p].bwd + 1]
<1>1. sent[p].fwd + 1 \in Nat /\ sent[p].bwd + 1 \in Nat
  BY DEF Wired
<1>2. sent[p]["fwd"] = sent[p].fwd /\ sent[p]["bwd"] = sent[p].bwd
  OBVIOUS
<1> QED BY <1>1, <1>2 DEF Data, Parcel

LEMMA WriteCircuit ==
    ASSUME CircuitInv, NEW p \in Paths, Write(p)
    PROVE  CircuitInv'
<1> DEFINE v == View(p)  w == View(p)'
<1>0. stream \in Streams /\ Wired /\ sent \in [Paths -> [fwd : Nat, bwd : Nat]]
  BY DEF CircuitInv, Wired
<1>a. \/ /\ ClientEnd(p) /\ Writable(<<p, 1>>, "fwd")
         /\ stream' = [stream EXCEPT ![<<p, 1>>].fwd = Append(@, Data(p, "fwd"))]
         /\ sent' = [sent EXCEPT ![p].fwd = @ + 1]
      \/ /\ ServerEnd(p) /\ Writable(<<p, 3>>, "bwd")
         /\ stream' = [stream EXCEPT ![<<p, 3>>].bwd = Append(@, Data(p, "bwd"))]
         /\ sent' = [sent EXCEPT ![p].bwd = @ + 1]
  BY DEF Write
<1>b. UNCHANGED <<Others, router, got>>
  BY DEF Write
<1>1. CASE /\ ClientEnd(p) /\ Writable(<<p, 1>>, "fwd")
           /\ stream' = [stream EXCEPT ![<<p, 1>>].fwd = Append(@, Data(p, "fwd"))]
           /\ sent' = [sent EXCEPT ![p].fwd = @ + 1]
  <2>s. PICK s \in Sid : s = <<p, 1>> /\ s[1] = p /\ s[2] = 1
    BY EndStreams DEF Hop
  <2>x. PICK x \in Parcel : /\ x = Data(p, "fwd")
                            /\ x = [type |-> "data", path |-> p, dir |-> "fwd", n |-> sent[p].fwd + 1]
    BY <1>0, DataIs
  <2>q. PICK q \in Seq(Parcel) : q = Append(stream[s].fwd, x)
    BY <1>0, StreamFields, QueueFacts
  <2>1. stream' = PutFwd(stream, s, q)
    <3>1. stream' = [stream EXCEPT ![s].fwd = Append(@, x)]
      BY <1>1, <2>s, <2>x
    <3> QED BY <1>0, <2>q, <3>1, Updates
  <2>2. /\ stream' \in Streams /\ Puts(Fwd(stream'), Fwd(stream), s, q) /\ Bwd(stream') = Bwd(stream)
        /\ Held(stream') = Held(stream) /\ Lost(stream') = Lost(stream)
    BY <1>0, <2>1, SetFwd
  <2>3. Fwd(stream) \in [Sid -> Seq(Parcel)] /\ stream[s].fwd = Fwd(stream)[s] /\ s \notin Lost(stream)
    BY <1>0, <1>1, <2>s, StreamFields DEF Writable
  <2>4. OnlyRow(Fwd(stream'), Fwd(stream), p) /\ Changed(RowOf(Fwd(stream'), p), RowOf(Fwd(stream), p), 1, q)
    BY <2>2, <2>3, <2>s, PutsAt
  <2>c. Carries
    BY <1>b, <2>2, CarriesAlone
  <2>n. /\ sent' \in [Paths -> [fwd : Nat, bwd : Nat]] /\ \A y \in Paths : y # p => sent'[y] = sent[y]
        /\ sent'[p].fwd = sent[p].fwd + 1 /\ sent'[p].bwd = sent[p].bwd
    BY <1>0, <1>1, WrittenCounts
  <2>w. Wired'
    BY <1>0, <1>b, <2>2, <2>n DEF Wired, Others
  <2>5. Circuit(w, p)
    <3>1. Circuit(v, p) /\ ViewType(w)
      BY <2>w, ThisCircuit DEF CircuitInv
    <3>2. w.outcome = v.outcome /\ w.accepted = v.accepted /\ SamePlaces(v, w)
      BY <2>c, CarriesView
    <3>3. w.held = v.held /\ w.lost = v.lost /\ w.bwd = v.bwd
      BY <2>2, Fields, NextFields
    <3>4. w.down = v.down /\ w.up = v.up /\ w.sent = v.sent + 1 /\ w.back = v.back
      BY <1>b, <2>n, Fields, NextFields
    <3>5. v.fwd[1] = stream[s].fwd /\ 1 \notin v.lost
      BY <2>3, <2>s, AtHop, Fields
    <3>6. Changed(w.fwd, v.fwd, 1, Append(v.fwd[1], x))
      BY <2>4, <2>q, <3>5, Fields, NextFields
    <3>7. v.outcome = "ok" /\ x = [type |-> "data", path |-> p, dir |-> "fwd", n |-> v.sent + 1]
      BY <1>1, <2>x, Fields DEF ClientEnd
    <3> HIDE DEF v, w
    <3> QED BY <3>1, <3>2, <3>3, <3>4, <3>5, <3>6, <3>7, ViewWritesDown
  <2> QED BY <1>b, <2>2, <2>4, <2>5, <2>c, <2>n, <2>w, StaysAt, CarriesCircuit
<1>2. CASE /\ ServerEnd(p) /\ Writable(<<p, 3>>, "bwd")
           /\ stream' = [stream EXCEPT ![<<p, 3>>].bwd = Append(@, Data(p, "bwd"))]
           /\ sent' = [sent EXCEPT ![p].bwd = @ + 1]
  <2>s. PICK s \in Sid : s = <<p, 3>> /\ s[1] = p /\ s[2] = 3
    BY EndStreams DEF Hop
  <2>x. PICK x \in Parcel : /\ x = Data(p, "bwd")
                            /\ x = [type |-> "data", path |-> p, dir |-> "bwd", n |-> sent[p].bwd + 1]
    BY <1>0, DataIs
  <2>q. PICK q \in Seq(Parcel) : q = Append(stream[s].bwd, x)
    BY <1>0, StreamFields, QueueFacts
  <2>1. stream' = PutBwd(stream, s, q)
    <3>1. stream' = [stream EXCEPT ![s].bwd = Append(@, x)]
      BY <1>2, <2>s, <2>x
    <3> QED BY <1>0, <2>q, <3>1, Updates
  <2>2. /\ stream' \in Streams /\ Puts(Bwd(stream'), Bwd(stream), s, q) /\ Fwd(stream') = Fwd(stream)
        /\ Held(stream') = Held(stream) /\ Lost(stream') = Lost(stream)
    BY <1>0, <2>1, SetBwd
  <2>3. Bwd(stream) \in [Sid -> Seq(Parcel)] /\ stream[s].bwd = Bwd(stream)[s] /\ s \notin Lost(stream)
    BY <1>0, <1>2, <2>s, StreamFields DEF Writable
  <2>4. OnlyRow(Bwd(stream'), Bwd(stream), p) /\ Changed(RowOf(Bwd(stream'), p), RowOf(Bwd(stream), p), 3, q)
    BY <2>2, <2>3, <2>s, PutsAt
  <2>c. Carries
    BY <1>b, <2>2, CarriesAlone
  <2>n. /\ sent' \in [Paths -> [fwd : Nat, bwd : Nat]] /\ \A y \in Paths : y # p => sent'[y] = sent[y]
        /\ sent'[p].bwd = sent[p].bwd + 1 /\ sent'[p].fwd = sent[p].fwd
    BY <1>0, <1>2, WrittenCounts
  <2>w. Wired'
    BY <1>0, <1>b, <2>2, <2>n DEF Wired, Others
  <2>5. Circuit(w, p)
    <3>1. Circuit(v, p) /\ ViewType(w)
      BY <2>w, ThisCircuit DEF CircuitInv
    <3>2. w.outcome = v.outcome /\ w.accepted = v.accepted /\ SamePlaces(v, w)
      BY <2>c, CarriesView
    <3>3. w.held = v.held /\ w.lost = v.lost /\ w.fwd = v.fwd
      BY <2>2, Fields, NextFields
    <3>4. w.down = v.down /\ w.up = v.up /\ w.back = v.back + 1 /\ w.sent = v.sent
      BY <1>b, <2>n, Fields, NextFields
    <3>5. v.bwd[3] = stream[s].bwd /\ 3 \notin v.lost
      BY <2>3, <2>s, AtHop, Fields
    <3>6. Changed(w.bwd, v.bwd, 3, Append(v.bwd[3], x))
      BY <2>4, <2>q, <3>5, Fields, NextFields
    <3>7. v.accepted # {} /\ x = [type |-> "data", path |-> p, dir |-> "bwd", n |-> v.back + 1]
      BY <1>2, <2>x, Fields DEF ServerEnd
    <3> HIDE DEF v, w
    <3> QED BY <3>1, <3>2, <3>3, <3>4, <3>5, <3>6, <3>7, ViewWritesUp
  <2> QED BY <1>b, <2>2, <2>4, <2>5, <2>c, <2>n, <2>w, StaysAt, CarriesCircuit
<1> QED BY <1>a, <1>1, <1>2

LEMMA ReadGrows ==
    ASSUME got \in [Paths -> [fwd : Seq(Parcel), bwd : Seq(Parcel)]], NEW p \in Paths, NEW q \in Seq(Parcel)
    PROVE  /\ got' = [got EXCEPT ![p].fwd = q] =>
                /\ got' \in [Paths -> [fwd : Seq(Parcel), bwd : Seq(Parcel)]]
                /\ \A y \in Paths : y # p => got'[y] = got[y]
                /\ got'[p].fwd = q /\ got'[p].bwd = got[p].bwd
           /\ got' = [got EXCEPT ![p].bwd = q] =>
                /\ got' \in [Paths -> [fwd : Seq(Parcel), bwd : Seq(Parcel)]]
                /\ \A y \in Paths : y # p => got'[y] = got[y]
                /\ got'[p].bwd = q /\ got'[p].fwd = got[p].fwd
<1> DEFINE S == Seq(Parcel)
<1>1. got \in [Paths -> [fwd : S, bwd : S]] /\ q \in S
  OBVIOUS
<1> HIDE DEF S
<1>2. got' = [got EXCEPT ![p].fwd = q] =>
        /\ got' \in [Paths -> [fwd : S, bwd : S]] /\ \A y \in Paths : y # p => got'[y] = got[y]
        /\ got'[p].fwd = q /\ got'[p].bwd = got[p].bwd
  BY <1>1
<1>3. got' = [got EXCEPT ![p].bwd = q] =>
        /\ got' \in [Paths -> [fwd : S, bwd : S]] /\ \A y \in Paths : y # p => got'[y] = got[y]
        /\ got'[p].bwd = q /\ got'[p].fwd = got[p].fwd
  BY <1>1
<1> QED BY <1>2, <1>3 DEF S

LEMMA ReadCircuit ==
    ASSUME CircuitInv, NEW p \in Paths, Read(p)
    PROVE  CircuitInv'
<1> DEFINE v == View(p)  w == View(p)'
<1>0. stream \in Streams /\ Wired /\ got \in [Paths -> [fwd : Seq(Parcel), bwd : Seq(Parcel)]]
  BY DEF CircuitInv, Wired
<1>a. \/ /\ ServerEnd(p) /\ stream[<<p, 3>>].fwd # <<>>
         /\ stream' = [stream EXCEPT ![<<p, 3>>].fwd = Tail(@)]
         /\ got' = [got EXCEPT ![p].fwd = Append(@, Head(stream[<<p, 3>>].fwd))]
      \/ /\ ClientEnd(p) /\ stream[<<p, 1>>].bwd # <<>>
         /\ stream' = [stream EXCEPT ![<<p, 1>>].bwd = Tail(@)]
         /\ got' = [got EXCEPT ![p].bwd = Append(@, Head(stream[<<p, 1>>].bwd))]
  BY DEF Read
<1>b. UNCHANGED <<Others, router, sent>>
  BY DEF Read
<1>1. CASE /\ ServerEnd(p) /\ stream[<<p, 3>>].fwd # <<>>
           /\ stream' = [stream EXCEPT ![<<p, 3>>].fwd = Tail(@)]
           /\ got' = [got EXCEPT ![p].fwd = Append(@, Head(stream[<<p, 3>>].fwd))]
  <2>s. PICK s \in Sid : s = <<p, 3>> /\ s[1] = p /\ s[2] = 3
    BY EndStreams DEF Hop
  <2>t. PICK t \in Seq(Parcel), x \in Parcel : t = Tail(stream[s].fwd) /\ x = Head(stream[s].fwd)
    BY <1>0, <1>1, <2>s, StreamFields, QueueFacts
  <2>q. PICK q \in Seq(Parcel) : q = Append(got[p].fwd, x)
    BY <1>0, QueueFacts
  <2>1. stream' = PutFwd(stream, s, t)
    <3>1. stream' = [stream EXCEPT ![s].fwd = Tail(@)]
      BY <1>1, <2>s
    <3> QED BY <1>0, <2>t, <3>1, Updates
  <2>2. /\ stream' \in Streams /\ Puts(Fwd(stream'), Fwd(stream), s, t) /\ Bwd(stream') = Bwd(stream)
        /\ Held(stream') = Held(stream) /\ Lost(stream') = Lost(stream)
    BY <1>0, <2>1, SetFwd
  <2>3. Fwd(stream) \in [Sid -> Seq(Parcel)] /\ stream[s].fwd = Fwd(stream)[s] /\ stream[s].fwd # <<>>
    BY <1>0, <1>1, <2>s, StreamFields
  <2>4. OnlyRow(Fwd(stream'), Fwd(stream), p) /\ Changed(RowOf(Fwd(stream'), p), RowOf(Fwd(stream), p), 3, t)
    BY <2>2, <2>3, <2>s, PutsAt
  <2>c. Carries
    BY <1>b, <2>2, CarriesAlone
  <2>n. /\ got' \in [Paths -> [fwd : Seq(Parcel), bwd : Seq(Parcel)]]
        /\ \A y \in Paths : y # p => got'[y] = got[y]
        /\ got'[p].fwd = q /\ got'[p].bwd = got[p].bwd
    <3>1. got' = [got EXCEPT ![p].fwd = q]
      BY <1>1, <2>s, <2>t, <2>q
    <3> QED BY <1>0, <3>1, ReadGrows
  <2>w. Wired'
    BY <1>0, <1>b, <2>2, <2>n DEF Wired, Others
  <2>5. Circuit(w, p)
    <3>1. Circuit(v, p) /\ ViewType(w)
      BY <2>w, ThisCircuit DEF CircuitInv
    <3>2. w.outcome = v.outcome /\ w.accepted = v.accepted /\ SamePlaces(v, w)
      BY <2>c, CarriesView
    <3>3. w.held = v.held /\ w.lost = v.lost /\ w.bwd = v.bwd
      BY <2>2, Fields, NextFields
    <3>5. v.fwd[3] = stream[s].fwd /\ v.fwd[3] # <<>>
      BY <2>3, <2>s, AtHop, Fields
    <3>4. w.down = Append(v.down, Head(v.fwd[3])) /\ w.up = v.up /\ w.sent = v.sent /\ w.back = v.back
      <4>1. x = Head(v.fwd[3])
        BY <2>t, <3>5
      <4>2. w.down = q /\ q = Append(v.down, x)
        BY <2>n, <2>q, Fields, NextFields
      <4>3. w.up = v.up /\ w.sent = v.sent /\ w.back = v.back
        BY <1>b, <2>n, Fields, NextFields
      <4> QED BY <4>1, <4>2, <4>3
    <3>6. Changed(w.fwd, v.fwd, 3, Tail(v.fwd[3]))
      BY <2>4, <2>t, <3>5, Fields, NextFields
    <3>7. v.accepted # {}
      BY <1>1, Fields DEF ServerEnd
    <3> HIDE DEF v, w
    <3> QED BY <3>1, <3>2, <3>3, <3>4, <3>5, <3>6, <3>7, ViewReadsDown
  <2> QED BY <1>b, <2>2, <2>4, <2>5, <2>c, <2>n, <2>w, StaysAt, CarriesCircuit
<1>2. CASE /\ ClientEnd(p) /\ stream[<<p, 1>>].bwd # <<>>
           /\ stream' = [stream EXCEPT ![<<p, 1>>].bwd = Tail(@)]
           /\ got' = [got EXCEPT ![p].bwd = Append(@, Head(stream[<<p, 1>>].bwd))]
  <2>s. PICK s \in Sid : s = <<p, 1>> /\ s[1] = p /\ s[2] = 1
    BY EndStreams DEF Hop
  <2>t. PICK t \in Seq(Parcel), x \in Parcel : t = Tail(stream[s].bwd) /\ x = Head(stream[s].bwd)
    BY <1>0, <1>2, <2>s, StreamFields, QueueFacts
  <2>q. PICK q \in Seq(Parcel) : q = Append(got[p].bwd, x)
    BY <1>0, QueueFacts
  <2>1. stream' = PutBwd(stream, s, t)
    <3>1. stream' = [stream EXCEPT ![s].bwd = Tail(@)]
      BY <1>2, <2>s
    <3> QED BY <1>0, <2>t, <3>1, Updates
  <2>2. /\ stream' \in Streams /\ Puts(Bwd(stream'), Bwd(stream), s, t) /\ Fwd(stream') = Fwd(stream)
        /\ Held(stream') = Held(stream) /\ Lost(stream') = Lost(stream)
    BY <1>0, <2>1, SetBwd
  <2>3. Bwd(stream) \in [Sid -> Seq(Parcel)] /\ stream[s].bwd = Bwd(stream)[s] /\ stream[s].bwd # <<>>
    BY <1>0, <1>2, <2>s, StreamFields
  <2>4. OnlyRow(Bwd(stream'), Bwd(stream), p) /\ Changed(RowOf(Bwd(stream'), p), RowOf(Bwd(stream), p), 1, t)
    BY <2>2, <2>3, <2>s, PutsAt
  <2>c. Carries
    BY <1>b, <2>2, CarriesAlone
  <2>n. /\ got' \in [Paths -> [fwd : Seq(Parcel), bwd : Seq(Parcel)]]
        /\ \A y \in Paths : y # p => got'[y] = got[y]
        /\ got'[p].bwd = q /\ got'[p].fwd = got[p].fwd
    <3>1. got' = [got EXCEPT ![p].bwd = q]
      BY <1>2, <2>s, <2>t, <2>q
    <3> QED BY <1>0, <3>1, ReadGrows
  <2>w. Wired'
    BY <1>0, <1>b, <2>2, <2>n DEF Wired, Others
  <2>5. Circuit(w, p)
    <3>1. Circuit(v, p) /\ ViewType(w)
      BY <2>w, ThisCircuit DEF CircuitInv
    <3>2. w.outcome = v.outcome /\ w.accepted = v.accepted /\ SamePlaces(v, w)
      BY <2>c, CarriesView
    <3>3. w.held = v.held /\ w.lost = v.lost /\ w.fwd = v.fwd
      BY <2>2, Fields, NextFields
    <3>5. v.bwd[1] = stream[s].bwd /\ v.bwd[1] # <<>>
      BY <2>3, <2>s, AtHop, Fields
    <3>4. w.up = Append(v.up, Head(v.bwd[1])) /\ w.down = v.down /\ w.sent = v.sent /\ w.back = v.back
      <4>1. x = Head(v.bwd[1])
        BY <2>t, <3>5
      <4>2. w.up = q /\ q = Append(v.up, x)
        BY <2>n, <2>q, Fields, NextFields
      <4>3. w.down = v.down /\ w.sent = v.sent /\ w.back = v.back
        BY <1>b, <2>n, Fields, NextFields
      <4> QED BY <4>1, <4>2, <4>3
    <3>6. Changed(w.bwd, v.bwd, 1, Tail(v.bwd[1]))
      BY <2>4, <2>t, <3>5, Fields, NextFields
    <3>7. v.outcome = "ok"
      BY <1>2, Fields DEF ClientEnd
    <3> HIDE DEF v, w
    <3> QED BY <3>1, <3>2, <3>3, <3>4, <3>5, <3>6, <3>7, ViewReadsUp
  <2> QED BY <1>b, <2>2, <2>4, <2>5, <2>c, <2>n, <2>w, StaysAt, CarriesCircuit
<1> QED BY <1>a, <1>1, <1>2

-----------------------------------------------------------------------------
LEMMA CircuitInit == Init => CircuitInv
<1> SUFFICES ASSUME Init PROVE CircuitInv
  OBVIOUS
<1> USE DEF Init
<1>e. <<>> \in Seq(Parcel) /\ <<>> \in Seq(Sid)
  BY EmptySeq
<1>w. Wired
  <2>1. stream \in Streams
    <3>1. NoStream \in [fwd : Seq(Parcel), bwd : Seq(Parcel), a : BOOLEAN, b : BOOLEAN, broken : BOOLEAN]
      BY <1>e DEF NoStream
    <3> QED BY <3>1 DEF Streams
  <2>2. got \in [Paths -> [fwd : Seq(Parcel), bwd : Seq(Parcel)]] /\ sent \in [Paths -> [fwd : Nat, bwd : Nat]]
    BY <1>e
  <2>3. want \in [Node -> Seq(Sid)]
    BY <1>e
  <2>4. \A n \in Node : error[n] \in [DOMAIN error[n] -> Code]
    OBVIOUS
  <2> QED BY <2>1, <2>2, <2>3, <2>4 DEF Wired
<1>l. Located
  <2>1. \A n \in Node : Range(want[n]) = {} /\ IsInjective(want[n])
    BY DEF Range, IsInjective
  <2>2. \A n \in Node : DOMAIN router[n] = {} /\ DOMAIN error[n] = {} /\ inbound[n] = {} /\ outbound[n] = {}
    OBVIOUS
  <2> QED BY <2>1, <2>2 DEF Located
<1>r. Routed
  BY DEF Routed
<1>c. ASSUME NEW p \in Paths PROVE Circuit(View(p), p)
  <2> DEFINE v == View(p)
  <2>1. /\ Wants = {} /\ Writes = {} /\ Awaits = {} /\ Reads = {} /\ Links = {} /\ Refusals = {}
    BY DEF Wants, Writes, Awaits, Reads, Links, Refusals, Range
  <2>2. /\ v.want = {} /\ v.write = {} /\ v.reply = {} /\ v.read = {} /\ v.link = {} /\ v.refused = {}
    BY <2>1, Fields DEF HopsOf
  <2>3. \A s \in Sid : stream[s].fwd = <<>> /\ stream[s].bwd = <<>>
    BY DEF NoStream
  <2>4. \A h \in Hop : v.fwd[h] = <<>> /\ v.bwd[h] = <<>>
    <3>1. v.fwd = RowOf(Fwd(stream), p) /\ v.bwd = RowOf(Bwd(stream), p)
      BY Fields
    <3>2. \A h \in Hop : <<p, h>> \in Sid
      BY DEF Sid
    <3>3. \A h \in Hop : RowOf(Fwd(stream), p)[h] = <<>> /\ RowOf(Bwd(stream), p)[h] = <<>>
      BY <2>3, <3>2 DEF RowOf, Fwd, Bwd
    <3> HIDE DEF v
    <3> QED BY <3>1, <3>3
  <2>5. v.outcome = "none" /\ v.accepted = {} /\ v.down = <<>> /\ v.up = <<>> /\ v.sent = 0 /\ v.back = 0
    BY Fields
  <2>6. ViewType(v)
    BY <1>w, ViewTyped
  <2>7. 1 \in Hop /\ 2 \in Hop /\ 3 \in Hop
    BY DEF Hop
  <2> HIDE DEF v
  <2>8. Tip(v) /\ Answers(v) /\ Setup(v) /\ Down(v, p)
    BY <2>2, <2>4, <2>5, <2>7 DEF Tip, Answers, Setup, Down, Undecided, Silent1, Silent2, Silent3
  <2>9. Numbered(<<>>, 0, p, "fwd") /\ Numbered(<<>>, 0, p, "bwd") /\ Replies(<<>>, 0, p)
    BY NoneNumbered
  <2>10. Up(v, p) /\ Received(v, p)
    BY <2>2, <2>4, <2>5, <2>7, <2>9 DEF Up, Received
  <2> QED BY <2>6, <2>8, <2>10 DEF Circuit, v
<1> QED BY <1>w, <1>l, <1>r, <1>c DEF CircuitInv, Circuits

LEMMA CircuitStutter ==
    ASSUME CircuitInv, UNCHANGED <<config, route, stale, want, stream, inbound, outbound, router,
                                   error, outcome, accepted, got, sent>>
    PROVE  CircuitInv'
<1>1. Wired' /\ Located' /\ Routed'
  BY DEF CircuitInv, Wired, Located, Routed, Dials, Serves, From, To
<1>2. \A p \in Paths : View(p)' = View(p)
  BY DEF View, HopsOf, RowOf, Held, Lost, Fwd, Bwd, Wants, Writes, Awaits, Reads, Links, Refusals
<1>3. Circuits'
  <2>1. \A p \in Paths : Circuit(View(p)', p)
    BY <1>2 DEF CircuitInv, Circuits
  <2> QED BY <2>1 DEF Circuits
<1> QED BY <1>1, <1>3 DEF CircuitInv

LEMMA CircuitStep == CircuitInv /\ OnionInv' /\ [Next]_vars => CircuitInv'
<1> SUFFICES ASSUME CircuitInv, Authentic', [Next]_vars PROVE CircuitInv'
  BY DEF OnionInv
<1>1. ASSUME NEW p \in Paths, NEW r \in Routes, NEW k \in {0, 2, 3}, OpenPath(p, r, k) PROVE CircuitInv'
  BY <1>1, OpenPathCircuit
<1>2. ASSUME NEW n \in Node, NEW s \in Sid, Poll(n, s) PROVE CircuitInv'
  BY <1>2, ReadPacketCircuit, ReadPacketFailsCircuit, WriteRequestCircuit, ReadReplyCircuit, ContinueCircuit,
     CloseStreamCircuit, RouteEndsCircuit DEF Poll
<1>3. ASSUME NEW n \in Node, NEW s \in Sid, Relay(n, s) PROVE CircuitInv'
  BY <1>3, ForwardCircuit, BackwardCircuit DEF Relay
<1>4. ASSUME NEW n \in Node, NEW t \in Servers, StreamReady(n, t) \/ StreamFailed(n, t) PROVE CircuitInv'
  BY <1>4, StreamReadyCircuit, StreamFailedCircuit
<1>5. ASSUME NEW p \in Paths, Read(p) \/ ServerDone(p) \/ Write(p) \/ ClientDone(p) PROVE CircuitInv'
  BY <1>5, ReadCircuit, ServerDoneCircuit, WriteCircuit, ClientDoneCircuit
<1>6. ASSUME NEW n \in Node, NEW s \in Sid, Idle(n, s) PROVE CircuitInv'
  BY <1>6, IdleCircuit
<1>7. ASSUME NEW s \in Sid, ConnectionLost(s) PROVE CircuitInv'
  BY <1>7, ConnectionLostCircuit
<1>8. ASSUME UNCHANGED vars \/ \E n \in Node, t \in Servers : Strand(n, t)
      PROVE  CircuitInv'
  BY <1>8, CircuitStutter DEF vars, Strand
<1> QED BY <1>1, <1>2, <1>3, <1>4, <1>5, <1>6, <1>7, <1>8 DEF Next, System

LEMMA CircuitDelivers == CircuitInv => Delivered
<1> SUFFICES ASSUME CircuitInv, NEW p \in Paths, NEW dir \in {"fwd", "bwd"}, NEW i \in DOMAIN got[p][dir]
             PROVE  got[p][dir][i] = [type |-> "data", path |-> p, dir |-> dir, n |-> i]
  BY DEF Delivered
<1>1. Numbered(got[p].fwd, 0, p, "fwd") /\ Numbered(got[p].bwd, 0, p, "bwd")
  BY Fields DEF CircuitInv, Circuits, Circuit, Received
<1>2. got[p].fwd \in Seq(Parcel) /\ got[p].bwd \in Seq(Parcel)
  BY DEF CircuitInv, Wired
<1>3. CASE dir = "fwd"
  <2>1. i \in 1 .. Len(got[p].fwd) /\ 0 + i = i
    BY <1>2, <1>3, LenProperties
  <2> QED BY <1>1, <1>3, <2>1 DEF Numbered
<1>4. CASE dir = "bwd"
  <2>1. i \in 1 .. Len(got[p].bwd) /\ 0 + i = i
    BY <1>2, <1>4, LenProperties
  <2> QED BY <1>1, <1>4, <2>1 DEF Numbered
<1> QED BY <1>3, <1>4

\* Relays deliver what the ends of a path wrote (Route::poll, Channel): in order, from the
\* start, without a gap, and nothing of another circuit or of the handshake.
THEOREM PathsDeliver == Spec => []Delivered
<1>1. Init => CircuitInv
  BY CircuitInit
<1>2. CircuitInv /\ OnionInv' /\ [Next]_vars => CircuitInv'
  BY CircuitStep
<1>3. Spec => []OnionInv
  BY OnionInvariant
<1>4. CircuitInv => Delivered
  BY CircuitDelivers
<1> QED BY <1>1, <1>2, <1>3, <1>4, PTL DEF Spec

-----------------------------------------------------------------------------
(***************************************************************************)
(* The buffer of a relay.  ForwardsAll is not inductive: it neither types  *)
(* the fields nor bounds what was read.  Sound adds both and says where    *)
(* every byte of the source is; each part of a turn (compaction, read,     *)
(* write) preserves it.  What a part does to the bytes is proved about the *)
(* fields, then put into the record.                                       *)
(***************************************************************************)
ChannelType == [buf : [1 .. BufLen -> Nat], readable_start : Nat, written_end : Nat,
                read : Nat, out : Seq(Nat), ended : BOOLEAN]

\* Where each byte of the source is: the first k are out, the next are in buf after
\* start and up to end, the rest are not read yet.
Placed(buf, start, end, read, k) ==
    /\ start <= end /\ end <= BufLen
    /\ read <= SourceLen
    /\ read = k + (end - start)
    /\ \A i \in start + 1 .. end : buf[i] = k + (i - start)

Identity(out) == \A i \in 1 .. Len(out) : out[i] = i

Sound(c) ==
    /\ c \in ChannelType
    /\ Placed(c.buf, c.readable_start, c.written_end, c.read, Len(c.out))
    /\ Identity(c.out)
    /\ c.ended => Len(c.out) = SourceLen

-----------------------------------------------------------------------------
\* The smallest of two and of three integers, as Drain and Fill use it.
LEMMA MinOfTwo ==
    ASSUME NEW a \in Int, NEW b \in Int
    PROVE  /\ Min({a, b}) \in {a, b}
           /\ Min({a, b}) <= a /\ Min({a, b}) <= b
<1>1. \E x \in {a, b} : \A y \in {a, b} : x =< y
  OBVIOUS
<1> QED BY <1>1 DEF Min

LEMMA MinOfThree ==
    ASSUME NEW a \in Int, NEW b \in Int, NEW c \in Int
    PROVE  /\ Min({a, b, c}) \in {a, b, c}
           /\ Min({a, b, c}) <= a /\ Min({a, b, c}) <= b /\ Min({a, b, c}) <= c
<1>1. \E x \in {a, b, c} : \A y \in {a, b, c} : x =< y
  OBVIOUS
<1> QED BY <1>1 DEF Min

\* A part of a sequence of bytes, as write_buf takes it.
LEMMA Slice ==
    ASSUME NEW s, NEW m \in Int, NEW n \in Int, m <= n + 1,
           \A i \in m .. n : s[i] \in Nat
    PROVE  /\ SubSeq(s, m, n) \in Seq(Nat)
           /\ Len(SubSeq(s, m, n)) = n - m + 1
           /\ \A i \in 1 .. n - m + 1 : SubSeq(s, m, n)[i] = s[m + i - 1]
<1>1. /\ SubSeq(s, m, n) \in Seq(Nat)
      /\ Len(SubSeq(s, m, n)) = IF m <= n THEN n - m + 1 ELSE 0
      /\ \A i \in 1 .. n - m + 1 : SubSeq(s, m, n)[i] = s[m + i - 1]
  BY SubSeqProperties, SMT
<1> QED BY <1>1

\* What the sink has got, after a write.
LEMMA Appended ==
    ASSUME NEW out \in Seq(Nat), Identity(out), NEW n \in Nat,
           NEW part \in Seq(Nat), Len(part) = n, \A i \in 1 .. n : part[i] = Len(out) + i
    PROVE  out \o part \in Seq(Nat) /\ Len(out \o part) = Len(out) + n /\ Identity(out \o part)
<1>1. out \o part \in Seq(Nat) /\ Len(out \o part) = Len(out) + n
  OBVIOUS
<1>2. \A i \in 1 .. Len(out) + n : (out \o part)[i] = i
  BY DEF Identity
<1> QED BY <1>1, <1>2 DEF Identity

\* The types of a sound channel's fields, for the steps that use no records.
LEMMA FieldTypes ==
    ASSUME NEW c \in ChannelType
    PROVE  /\ c.buf \in [1 .. BufLen -> Nat]
           /\ c.readable_start \in Nat /\ c.written_end \in Nat /\ c.read \in Nat
           /\ c.out \in Seq(Nat) /\ Len(c.out) \in Nat
<1>1. c.out \in Seq(Nat)
  BY DEF ChannelType
<1>2. Len(c.out) \in Nat
  BY <1>1, LenProperties
<1> QED BY <1>1, <1>2 DEF ChannelType

\* copy_within keeps every unread byte.
LEMMA CompactPlaced ==
    ASSUME NEW buf \in [1 .. BufLen -> Nat], NEW start \in Nat, NEW end \in Nat,
           NEW read \in Nat, NEW k \in Nat, Placed(buf, start, end, read, k), end = BufLen,
           NEW moved, moved = [i \in 1 .. BufLen |-> IF i + start <= BufLen
                                                     THEN buf[i + start] ELSE buf[i]]
    PROVE  /\ moved \in [1 .. BufLen -> Nat] /\ end - start \in Nat
           /\ Placed(moved, 0, end - start, read, k)
<1>1. moved \in [1 .. BufLen -> Nat]
  BY ChannelAssumption
<1>2. end - start \in Nat
  BY DEF Placed
<1>3. ASSUME NEW i \in 0 + 1 .. end - start PROVE moved[i] = k + (i - 0)
  <2>1. i \in 1 .. BufLen /\ i + start \in start + 1 .. end /\ i + start <= BufLen
    BY <1>2, ChannelAssumption DEF Placed
  <2>2. moved[i] = buf[i + start]
    BY <2>1
  <2>3. buf[i + start] = k + ((i + start) - start)
    BY <2>1 DEF Placed
  <2> QED BY <2>1, <2>2, <2>3
<1> QED BY <1>1, <1>2, <1>3, ChannelAssumption DEF Placed

\* poll_read puts the next n bytes of the source after the unread ones.
LEMMA FillPlaced ==
    ASSUME NEW buf \in [1 .. BufLen -> Nat], NEW start \in Nat, NEW end \in Nat,
           NEW read \in Nat, NEW k \in Nat, Placed(buf, start, end, read, k),
           NEW n \in Nat, n <= BufLen - end, n <= SourceLen - read,
           NEW filled, filled = [i \in 1 .. BufLen |-> IF i \in end + 1 .. end + n
                                                       THEN read + i - end ELSE buf[i]]
    PROVE  /\ filled \in [1 .. BufLen -> Nat]
           /\ Placed(filled, start, end + n, read + n, k)
<1>1. filled \in [1 .. BufLen -> Nat]
  <2>1. \A i \in 1 .. BufLen : i \in end + 1 .. end + n => read + i - end \in Nat
    BY ChannelAssumption
  <2> QED BY <2>1
<1>2. ASSUME NEW i \in start + 1 .. end + n PROVE filled[i] = k + (i - start)
  <2>1. i \in 1 .. BufLen
    BY ChannelAssumption
  <2>2. CASE i <= end
    BY <2>1, <2>2 DEF Placed
  <2>3. CASE i > end
    <3>1. filled[i] = read + i - end
      BY <2>1, <2>3
    <3> QED BY <2>3, <3>1 DEF Placed
  <2> QED BY <2>2, <2>3
<1>3. start <= end + n /\ end + n <= BufLen /\ read + n <= SourceLen
      /\ read + n = k + ((end + n) - start)
  BY ChannelAssumption DEF Placed
<1> QED BY <1>1, <1>2, <1>3 DEF Placed

\* write_buf holds the unread bytes.
LEMMA PendingPlaced ==
    ASSUME NEW c, Sound(c)
    PROVE  LET gap == c.written_end - c.readable_start
           IN /\ gap \in Nat
              /\ Pending(c) \in Seq(Nat) /\ Len(Pending(c)) = gap
              /\ \A i \in 1 .. gap : Pending(c)[i] = Len(c.out) + i
<1> DEFINE buf == c.buf  start == c.readable_start  end == c.written_end  k == Len(c.out)
           m == start + 1
           p == SubSeq(buf, m, end)
<1>1. buf \in [1 .. BufLen -> Nat] /\ start \in Nat /\ end \in Nat /\ k \in Nat
  BY FieldTypes DEF Sound
<1>2. start <= end /\ end <= BufLen /\ \A i \in start + 1 .. end : buf[i] = k + (i - start)
  BY DEF Sound, Placed
<1>3. Pending(c) = p
  BY DEF Pending
<1> HIDE DEF buf, start, end, k
<1>4. m \in Int /\ end \in Int /\ m <= end + 1 /\ m = start + 1
  BY <1>1, <1>2
<1>5. \A i \in m .. end : buf[i] \in Nat
  BY <1>1, <1>2, ChannelAssumption
<1> HIDE DEF m
<1>6. p \in Seq(Nat) /\ Len(p) = end - m + 1
      /\ \A i \in 1 .. end - m + 1 : p[i] = buf[m + i - 1]
  BY <1>4, <1>5, Slice, Zenon
<1> HIDE DEF p
<1>7. end - start \in Nat /\ end - m + 1 = end - start
  BY <1>1, <1>2, <1>4
<1>8. ASSUME NEW i \in 1 .. end - start PROVE p[i] = k + i
  <2>1. p[i] = buf[start + i]
    <3>1. p[i] = buf[m + i - 1] /\ m + i - 1 = start + i
      BY <1>1, <1>4, <1>6, <1>7
    <3> QED BY <3>1
  <2>2. start + i \in start + 1 .. end
    BY <1>1, <1>2
  <2>3. buf[start + i] = k + ((start + i) - start)
    BY <1>2, <2>2
  <2> QED BY <1>1, <2>1, <2>3
<1> QED BY <1>3, <1>6, <1>7, <1>8 DEF buf, start, end, k

-----------------------------------------------------------------------------
\* Compaction keeps every unread byte and leaves room in the buffer, unless all of it
\* is unread.
LEMMA CompactSound ==
    ASSUME NEW c, Sound(c)
    PROVE  /\ Sound(Compact(c))
           /\ Compact(c).ended = c.ended /\ Compact(c).out = c.out
           /\ Compact(c).written_end = BufLen => Compact(c).readable_start = 0
<1>1. CASE ~(c.written_end = BufLen /\ c.readable_start # 0)
  <2>1. Compact(c) = c
    BY <1>1 DEF Compact
  <2> QED BY <1>1, <2>1
<1>2. CASE c.written_end = BufLen /\ c.readable_start # 0
  <2> DEFINE moved == [i \in 1 .. BufLen |-> IF i + c.readable_start <= BufLen
                                             THEN c.buf[i + c.readable_start] ELSE c.buf[i]]
             end == c.written_end - c.readable_start
             d == Compact(c)
  <2>1. d = [c EXCEPT !.buf = moved, !.written_end = end, !.readable_start = 0]
    BY <1>2 DEF Compact
  <2>2. c \in ChannelType /\ Identity(c.out) /\ (c.ended => Len(c.out) = SourceLen)
        /\ Placed(c.buf, c.readable_start, c.written_end, c.read, Len(c.out))
    BY DEF Sound
  <2>3. /\ moved \in [1 .. BufLen -> Nat] /\ end \in Nat
        /\ Placed(moved, 0, end, c.read, Len(c.out))
    BY <1>2, <2>2, FieldTypes, CompactPlaced
  <2>4. end # BufLen
    BY <1>2, <2>2, FieldTypes, ChannelAssumption
  <2> HIDE DEF moved, end, d
  <2>5. /\ d \in ChannelType
        /\ d.buf = moved /\ d.written_end = end /\ d.readable_start = 0
        /\ d.read = c.read /\ d.out = c.out /\ d.ended = c.ended
    BY <2>1, <2>2, <2>3 DEF ChannelType
  <2>6. Sound(d)
    BY <2>2, <2>3, <2>5 DEF Sound
  <2> QED BY <2>4, <2>5, <2>6 DEF d
<1> QED BY <1>1, <1>2

\* A read appends the next bytes of the source to the unread ones; it ends the channel,
\* leaves something to write, or had no room or nothing to read.
LEMMA FillSound ==
    ASSUME NEW c, Sound(c), ~c.ended, NEW r \in Nat
    PROVE  /\ Sound(Fill(c, r))
           /\ Fill(c, r).out = c.out
           /\ \/ Fill(c, r).ended
              \/ Fill(c, r).written_end > Fill(c, r).readable_start
              \/ r = 0
              \/ c.written_end = BufLen /\ c.readable_start = BufLen
<1> DEFINE n == Min({r, BufLen - c.written_end, SourceLen - c.read})
           e == Fill(c, r)
           AtEnd == r > 0 /\ c.written_end < BufLen /\ c.read = SourceLen
                    /\ c.readable_start = c.written_end
<1>1. c \in ChannelType /\ Identity(c.out)
      /\ Placed(c.buf, c.readable_start, c.written_end, c.read, Len(c.out))
  BY DEF Sound
<1>2. /\ c.buf \in [1 .. BufLen -> Nat]
      /\ c.readable_start \in Nat /\ c.written_end \in Nat /\ c.read \in Nat
      /\ Len(c.out) \in Nat
  BY <1>1, FieldTypes
<1>3. /\ c.readable_start <= c.written_end /\ c.written_end <= BufLen
      /\ c.read <= SourceLen /\ c.read = Len(c.out) + (c.written_end - c.readable_start)
  BY <1>1 DEF Placed
<1>4. r \in Int /\ BufLen - c.written_end \in Nat /\ SourceLen - c.read \in Nat
  BY <1>2, <1>3, ChannelAssumption
<1>5. /\ n \in {r, BufLen - c.written_end, SourceLen - c.read}
      /\ n <= r /\ n <= BufLen - c.written_end /\ n <= SourceLen - c.read
  <2>1. BufLen - c.written_end \in Int /\ SourceLen - c.read \in Int
    BY <1>4
  <2> QED BY <1>4, <2>1, MinOfThree, Zenon
<1> HIDE DEF n
<1>6. n \in Nat
  BY <1>4, <1>5
<1>7. CASE AtEnd
  <2>1. e = [c EXCEPT !.ended = TRUE]
    BY <1>7 DEF Fill
  <2>2. Len(c.out) = SourceLen
    BY <1>2, <1>3, <1>7
  <2> HIDE DEF e
  <2>3. /\ e \in ChannelType
        /\ e.buf = c.buf /\ e.written_end = c.written_end
        /\ e.readable_start = c.readable_start
        /\ e.read = c.read /\ e.out = c.out /\ e.ended
    BY <1>1, <2>1 DEF ChannelType
  <2>4. Sound(e)
    BY <1>1, <2>2, <2>3 DEF Sound
  <2> QED BY <2>3, <2>4 DEF e
<1>8. CASE ~AtEnd
  <2> DEFINE filled == [i \in 1 .. BufLen |-> IF i \in c.written_end + 1 .. c.written_end + n
                                              THEN c.read + i - c.written_end ELSE c.buf[i]]
  <2>1. e = [c EXCEPT !.buf = filled, !.written_end = c.written_end + n, !.read = c.read + n]
    BY <1>8 DEF Fill, n
  <2>2. /\ filled \in [1 .. BufLen -> Nat]
        /\ Placed(filled, c.readable_start, c.written_end + n, c.read + n, Len(c.out))
    BY <1>1, <1>2, <1>5, <1>6, FillPlaced
  <2> HIDE DEF filled, e
  <2>3. /\ e \in ChannelType
        /\ e.buf = filled /\ e.written_end = c.written_end + n
        /\ e.readable_start = c.readable_start
        /\ e.read = c.read + n /\ e.out = c.out /\ e.ended = c.ended
    <3>1. c.written_end + n \in Nat /\ c.read + n \in Nat
      BY <1>2, <1>6
    <3> QED BY <1>1, <2>1, <2>2, <3>1 DEF ChannelType
  <2>4. Sound(e)
    BY <1>1, <2>2, <2>3 DEF Sound
  <2>5. \/ c.written_end + n > c.readable_start \/ r = 0
        \/ c.written_end = BufLen /\ c.readable_start = BufLen
    <3>1. CASE c.written_end > c.readable_start \/ n > 0 \/ r = 0
      BY <1>2, <1>3, <1>6, <3>1
    <3>2. CASE c.written_end = c.readable_start /\ n = 0 /\ r > 0
      <4>1. BufLen = c.written_end \/ SourceLen = c.read
        BY <1>2, <1>5, <3>2, ChannelAssumption
      <4>2. ~(c.written_end < BufLen /\ c.read = SourceLen)
        BY <1>8, <3>2
      <4> QED BY <1>2, <1>3, <3>2, <4>1, <4>2, ChannelAssumption
    <3> QED BY <1>2, <1>3, <1>6, <3>1, <3>2
  <2> QED BY <2>3, <2>4, <2>5 DEF e
<1> QED BY <1>7, <1>8

\* A write moves the first unread bytes to the sink.
LEMMA DrainSound ==
    ASSUME NEW c, Sound(c), ~c.ended, NEW w \in Nat
    PROVE  /\ Sound(Drain(c, w)) /\ ~Drain(c, w).ended
           /\ w > 0 /\ c.written_end > c.readable_start =>
                Len(Drain(c, w).out) > Len(c.out)
<1> DEFINE gap == c.written_end - c.readable_start
           n == Min({w, gap})
           e == Drain(c, w)
           part == SubSeq(Pending(c), 1, n)
           longer == c.out \o part
           k == Len(c.out)
           start == c.readable_start + n
<1>1. c \in ChannelType /\ Identity(c.out) /\ Placed(c.buf, c.readable_start, c.written_end, c.read, k)
  BY DEF Sound
<1>2. /\ c.buf \in [1 .. BufLen -> Nat]
      /\ c.readable_start \in Nat /\ c.written_end \in Nat /\ c.read \in Nat
      /\ c.out \in Seq(Nat) /\ k \in Nat
  BY <1>1, FieldTypes
<1>3. /\ gap \in Nat /\ Pending(c) \in Seq(Nat) /\ Len(Pending(c)) = gap
      /\ \A i \in 1 .. gap : Pending(c)[i] = k + i
  BY PendingPlaced
<1>4. n \in {w, gap} /\ n <= gap /\ n \in Nat
  <2> HIDE DEF gap
  <2>1. gap \in Int /\ w \in Int
    BY <1>3
  <2>2. n \in {w, gap} /\ n <= gap
    BY <2>1, MinOfTwo, Zenon
  <2> QED BY <1>3, <2>2
<1>5. e = [c EXCEPT !.out = longer, !.readable_start = start]
  BY DEF Drain
<1>6. w > 0 /\ c.written_end > c.readable_start => n > 0
  BY <1>2, <1>4
<1>7. n <= c.written_end - c.readable_start
  BY <1>4
<1> HIDE DEF n, gap
<1>8. part \in Seq(Nat) /\ Len(part) = n /\ \A i \in 1 .. n : part[i] = k + i
  <2>1. \A i \in 1 .. n : Pending(c)[i] = k + i /\ Pending(c)[i] \in Nat
    BY <1>2, <1>3, <1>4
  <2>2. 1 \in Int /\ n \in Int /\ 1 <= n + 1
    BY <1>4
  <2>3. part \in Seq(Nat) /\ Len(part) = n - 1 + 1
        /\ \A i \in 1 .. n - 1 + 1 : part[i] = Pending(c)[1 + i - 1]
    BY <2>1, <2>2, Slice, Zenon
  <2> HIDE DEF part
  <2>4. ASSUME NEW i \in 1 .. n PROVE part[i] = k + i
    <3>1. part[i] = Pending(c)[1 + i - 1] /\ 1 + i - 1 = i
      BY <1>4, <2>3
    <3> QED BY <2>1, <3>1
  <2> QED BY <1>4, <2>3, <2>4
<1> HIDE DEF part
<1>9. longer \in Seq(Nat) /\ Len(longer) = k + n /\ Identity(longer)
  BY <1>1, <1>2, <1>4, <1>8, Appended
<1>10. start \in Nat /\ Placed(c.buf, start, c.written_end, c.read, k + n)
  <2> DEFINE buf == c.buf  old == c.readable_start  end == c.written_end  read == c.read
  <2>1. /\ buf \in [1 .. BufLen -> Nat] /\ old \in Nat /\ end \in Nat /\ read \in Nat
        /\ Placed(buf, old, end, read, k) /\ n <= end - old /\ start = old + n
    BY <1>1, <1>2, <1>7
  <2> HIDE DEF buf, old, end, read, k, start
  <2>2. start \in Nat /\ Placed(buf, start, end, read, k + n)
    BY <1>2, <1>4, <2>1, ChannelAssumption DEF Placed
  <2> QED BY <2>2 DEF buf, end, read
<1> HIDE DEF e, longer, start
<1>11. /\ e \in ChannelType
       /\ e.buf = c.buf /\ e.written_end = c.written_end /\ e.readable_start = start
       /\ e.read = c.read /\ e.out = longer /\ e.ended = c.ended
  BY <1>1, <1>5, <1>9, <1>10 DEF ChannelType
<1>12. Sound(e) /\ ~e.ended
  BY <1>9, <1>10, <1>11 DEF Sound
<1>13. w > 0 /\ c.written_end > c.readable_start => Len(e.out) > k
  BY <1>2, <1>4, <1>6, <1>9, <1>11
<1> QED BY <1>12, <1>13 DEF e

-----------------------------------------------------------------------------
\* A whole turn: the channel stays sound, and moves if both streams are ready.
LEMMA TurnSound ==
    ASSUME NEW c, Sound(c), ~c.ended, NEW r \in Nat, NEW w \in Nat
    PROVE  /\ Sound(Turn(c, r, w))
           /\ r > 0 /\ w > 0 => Turn(c, r, w) # c
<1> DEFINE d == Compact(c)
           f == Fill(d, r)
<1>1. Sound(d) /\ ~d.ended /\ d.out = c.out /\ (d.written_end = BufLen => d.readable_start = 0)
  BY CompactSound
<1>2. Turn(c, r, w) = IF f.ended THEN f ELSE Drain(f, w)
  BY DEF Turn
<1> HIDE DEF d
<1>3. /\ Sound(f) /\ f.out = c.out
      /\ f.ended \/ f.written_end > f.readable_start \/ r = 0
  BY <1>1, FillSound, ChannelAssumption
<1> HIDE DEF f
<1>4. CASE f.ended
  BY <1>2, <1>3, <1>4
<1>5. CASE ~f.ended
  <2>1. /\ Sound(Drain(f, w))
        /\ w > 0 /\ f.written_end > f.readable_start => Len(Drain(f, w).out) > Len(f.out)
    BY <1>3, <1>5, DrainSound
  <2>2. Len(c.out) \in Nat
    BY FieldTypes DEF Sound
  <2>3. ASSUME r > 0, w > 0 PROVE Drain(f, w) # c
    <3>1. f.written_end > f.readable_start
      BY <1>3, <1>5, <2>3
    <3>2. Len(Drain(f, w).out) > Len(c.out)
      BY <1>3, <2>1, <2>3, <3>1
    <3> QED BY <2>2, <3>2
  <2> QED BY <1>2, <1>5, <2>1, <2>3
<1> QED BY <1>4, <1>5

\* Sound says what ForwardsAll says, and more.
LEMMA SoundForwardsAll == Sound(channel) => ForwardsAll
<1> SUFFICES ASSUME Sound(channel) PROVE ForwardsAll
  OBVIOUS
<1> DEFINE out == channel.out  k == Len(out)  p == Pending(channel)
           gap == channel.written_end - channel.readable_start
<1>1. /\ channel.readable_start \in Nat /\ channel.written_end \in Nat
      /\ channel.read \in Nat /\ out \in Seq(Nat) /\ k \in Nat
  BY FieldTypes DEF Sound
<1>2. /\ 0 <= channel.readable_start /\ channel.readable_start <= channel.written_end
      /\ channel.written_end <= BufLen
      /\ channel.ended => k = SourceLen
  BY <1>1 DEF Sound, Placed
<1>3. Identity(out)
  BY DEF Sound
<1>4. channel.read - k = gap
  BY <1>1 DEF Sound, Placed
<1>5. gap \in Nat /\ p \in Seq(Nat) /\ Len(p) = gap /\ \A i \in 1 .. gap : p[i] = k + i
  BY PendingPlaced
<1>6. ~channel.ended => Turn(channel, 1, 1) # channel
  BY TurnSound
<1> HIDE DEF out, p, gap
<1>7. out = [i \in 1 .. k |-> i]
  BY <1>1, <1>3 DEF Identity
<1>8. p = [i \in 1 .. gap |-> k + i]
  BY <1>1, <1>5
<1> QED BY <1>2, <1>4, <1>6, <1>7, <1>8 DEF ForwardsAll, out, p

\* Whatever the sizes of the buffer, the source and the pieces that Channel::poll reads
\* and writes, the relay passes on every byte once and in order, and does not stall.
THEOREM ChannelForwardsAll == ChannelSpec => []ForwardsAll
<1>1. ChannelInit => Sound(channel)
  <2> SUFFICES ASSUME ChannelInit PROVE Sound(channel)
    OBVIOUS
  <2>1. /\ channel \in ChannelType
        /\ channel.readable_start = 0 /\ channel.written_end = 0 /\ channel.read = 0
        /\ channel.out = <<>> /\ channel.ended = FALSE
    BY ChannelAssumption DEF ChannelInit, New, ChannelType
  <2>2. Len(channel.out) = 0
    BY <2>1
  <2> QED BY <2>1, <2>2, ChannelAssumption DEF Sound, Placed, Identity
<1>2. Sound(channel) /\ [ChannelNext]_channel => Sound(channel)'
  <2> SUFFICES ASSUME Sound(channel), [ChannelNext]_channel PROVE Sound(channel')
    BY DEF Sound, ChannelType, Placed, Identity
  <2>1. CASE ChannelNext
    <3>1. PICK r \in 0 .. Chunk, w \in 0 .. Chunk : PollChannel(r, w)
      BY <2>1 DEF ChannelNext
    <3>2. r \in Nat /\ w \in Nat
      BY ChannelAssumption
    <3>3. ~channel.ended /\ channel' = Turn(channel, r, w)
      BY <3>1 DEF PollChannel
    <3>4. Sound(Turn(channel, r, w))
      BY <3>2, <3>3, TurnSound
    <3> QED BY <3>3, <3>4
  <2>2. CASE UNCHANGED channel
    BY <2>2
  <2> QED BY <2>1, <2>2
<1> QED BY <1>1, <1>2, SoundForwardsAll, PTL DEF ChannelSpec
=============================================================================
