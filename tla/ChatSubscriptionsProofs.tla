------------------------ MODULE ChatSubscriptionsProofs ------------------------
(***************************************************************************)
(* What holds of a client's stream to a server, for every set of chats,    *)
(* every capacity and every number of subscriptions, requests and events.  *)
(*                                                                         *)
(* The numbers of the calls tie the two ends together: a receiver, what    *)
(* the task registered, what the server subscribed and what is under way   *)
(* between them.  The invariant says for each receiver where its           *)
(* subscription is: not served yet or refused, granted by an answer that   *)
(* comes before its events, or known to the client.                        *)
(***************************************************************************)
EXTENDS ChatSubscriptions, SubsequencesProofs

Message == [body : {"ok", "not_found", "answer", "event"}, call : Nat, topic : Chats, n : Nat]
Receiver == [topic : Chats, call : Nat, from : Nat, open : BOOLEAN,
             buf : Seq(Message), got : Seq(Message)]
AskState == [st : {"waiting", "timeout", "done", "failed"}, answer : Nat]
Request == [kind : {"new", "ask", "sub"}, topic : Chats, of : Nat]
Sent == [prefix : {"new", "ask", "unsubscribe"}, call : Nat, topic : Chats, of : Nat]

Types ==
    /\ receivers \in Seq(Receiver) /\ asks \in Seq(AskState) /\ outbox \in Seq(Request)
    /\ held \in Seq(Message) /\ down \in Seq(Message) /\ events \in Seq(Message)
    /\ up \in Seq(Sent) /\ calls \in Nat
    /\ chat_subs \in [Chats -> Nat] /\ posted \in [Chats -> Nat]
    /\ \A k \in DOMAIN registered : registered[k] \in Request

\* Call k is that of a receiver, of a receiver of chat c.
OfReceiver(k) == \E i \in DOMAIN receivers : receivers[i].call = k
OfChat(k, c) == \E i \in DOMAIN receivers : receivers[i].call = k /\ receivers[i].topic = c

\* Nothing that comes from the server has to do with call k.
Unheard(k) == /\ \A c \in Chats : chat_subs[c] # k
              /\ \A x \in DOMAIN down : down[x].call # k
              /\ \A x \in DOMAIN events : events[x].call # k
              /\ \A x \in DOMAIN held : held[x].call # k

\* The numbers of the calls are used once.
Numbers ==
    /\ \A i \in DOMAIN receivers :
         /\ receivers[i].call <= calls
         /\ receivers[i].call = 0 => receivers[i].buf = <<>> /\ receivers[i].got = <<>>
         /\ \A j \in DOMAIN receivers :
              receivers[i].call = receivers[j].call /\ receivers[i].call # 0 => i = j
    /\ \A k \in DOMAIN registered : k \in 1 .. calls
    /\ \A x \in DOMAIN down : down[x].call \in 1 .. calls
    /\ \A x, y \in DOMAIN up : /\ up[x].call \in 1 .. calls
                               /\ up[x].call = up[y].call => x = y

\* A subscription the task has yet to write belongs to a receiver without a call.
ToWrite ==
    \A x, y \in DOMAIN outbox :
      LET r == outbox[x] IN
      /\ r.kind \in {"new", "ask"}
      /\ r.kind = "ask" => r.of \in DOMAIN asks
      /\ r.kind = "new" =>
           /\ r.of \in DOMAIN receivers /\ receivers[r.of].call = 0
           /\ receivers[r.of].topic = r.topic
           /\ outbox[y].kind = "new" /\ outbox[y].of = r.of => x = y

\* What the task has registered, and of what.
Registered ==
    \A k \in DOMAIN registered :
      LET r == registered[k] IN
      /\ r.kind = "ask" => r.of \in DOMAIN asks /\ ~OfReceiver(k)
      /\ r.kind # "ask" => /\ r.of \in DOMAIN receivers /\ receivers[r.of].call = k
                           /\ receivers[r.of].topic = r.topic

\* A subscription that is not served yet has had no consequences.
ToServe ==
    \A x \in DOMAIN up :
      LET m == up[x] IN
      /\ m.prefix = "new" =>
           /\ m.of \in DOMAIN receivers /\ receivers[m.of].call = m.call
           /\ receivers[m.of].topic = m.topic
           /\ receivers[m.of].buf = <<>> /\ receivers[m.of].got = <<>>
           /\ Unheard(m.call)
           /\ task = "running" => /\ m.call \in DOMAIN registered
                                  /\ registered[m.call].kind = "new"
      /\ m.prefix # "new" => ~OfReceiver(m.call)
      /\ m.call \in DOMAIN registered => registered[m.call].of = m.of

\* What the server pushes goes to receivers of the chat, and an answer to the request.
Pushed ==
    /\ \A c \in Chats : chat_subs[c] # 0 => OfChat(chat_subs[c], c)
    /\ \A x \in DOMAIN events : /\ events[x].body = "event" /\ events[x].call # 0
                                /\ OfChat(events[x].call, events[x].topic)
    /\ \A x \in DOMAIN down :
         /\ down[x].body = "event" => OfChat(down[x].call, down[x].topic)
         /\ down[x].call \in DOMAIN registered /\ registered[down[x].call].kind = "ask" =>
              down[x].n = registered[down[x].call].of

\* The event that is being handed over.
Holding ==
    held # <<>> => /\ Len(held) = 1 /\ held[1].body = "event" /\ task = "running"
                   /\ held[1].call \in DOMAIN registered
                   /\ registered[held[1].call].kind = "sub"
                   /\ registered[held[1].call].topic = held[1].topic

\* The next answer to call k is that the subscription is granted.
Granted(k) == \E y \in DOMAIN down : /\ down[y].call = k /\ down[y].body = "ok"
                                     /\ \A x \in 1 .. y - 1 : down[x].call # k

\* Nothing was ever pushed to receiver i, nor is it subscribed; it may have been refused.
Silent(i) ==
    LET k == receivers[i].call IN
    /\ receivers[i].buf = <<>> /\ receivers[i].got = <<>>
    /\ \A c \in Chats : chat_subs[c] # k
    /\ \A x \in DOMAIN down : down[x].call = k => down[x].body = "not_found"
    /\ \A x \in DOMAIN events : events[x].call # k
    /\ \A x \in DOMAIN held : held[x].call # k

\* The task knows of a subscription before it sees an event of it.
Known(i) ==
    LET k == receivers[i].call IN
    k \in DOMAIN registered /\ \/ registered[k].kind = "sub"
                               \/ registered[k].kind = "new" /\ Granted(k)
Linked ==
    \A i \in DOMAIN receivers :
      task = "running" /\ receivers[i].open /\ receivers[i].call # 0 => Silent(i) \/ Known(i)

\* A request that waits is somewhere.
UnderWay(n) ==
    \/ \E x \in DOMAIN outbox : outbox[x].kind = "ask" /\ outbox[x].of = n
    \/ \E k \in DOMAIN registered :
         /\ registered[k].kind = "ask" /\ registered[k].of = n
         /\ \/ \E x \in DOMAIN up : up[x].prefix = "ask" /\ up[x].call = k
            \/ \E x \in DOMAIN down : down[x].call = k
Answers ==
    \A n \in DOMAIN asks :
      /\ asks[n].st = "done" => asks[n].answer = n
      /\ asks[n].st = "waiting" /\ task = "running" /\ run_client = "live" => UnderWay(n)

\* The subscription of a chat is the client's, or is being cancelled.
Subscribed(c) ==
    LET k == chat_subs[c] IN
    \/ /\ k \in DOMAIN registered /\ registered[k].topic = c
       /\ \/ registered[k].kind = "sub"
          \/ registered[k].kind = "new" /\ Granted(k)
    \/ \E x \in DOMAIN up : up[x].prefix = "unsubscribe" /\ up[x].topic = c
Subscriptions ==
    \A c \in Chats : chat_subs[c] # 0 /\ task = "running" /\ run_client = "live" => Subscribed(c)

\* The events for a receiver are the next of its chat.
Follow(s, r) == \A j \in DOMAIN s : s[j].topic = r.topic /\ s[j].n = r.from + j
Complete(i) ==
    LET r == receivers[i] IN
    chat_subs[r.topic] = r.call /\ run_client = "live" /\ task = "running" =>
        Len(EventsFor(r)) = posted[r.topic] - r.from
Sequenced ==
    \A i \in DOMAIN receivers :
      receivers[i].open /\ receivers[i].call # 0 =>
          Follow(EventsFor(receivers[i]), receivers[i]) /\ Complete(i)

\* The inductive invariant.
CallsInv == /\ Types /\ Numbers /\ ToWrite /\ Registered /\ ToServe /\ Pushed /\ Holding
            /\ Linked /\ Answers /\ Subscriptions /\ Sequenced

-----------------------------------------------------------------------------
\* A sequence with an element more, and without its first.
LEMMA AppendFacts ==
    ASSUME NEW S, NEW q \in Seq(S), NEW e \in S
    PROVE  /\ Append(q, e) \in Seq(S) /\ Len(Append(q, e)) = Len(q) + 1
           /\ \A x \in DOMAIN q : x \in DOMAIN Append(q, e) /\ Append(q, e)[x] = q[x]
           /\ \A x \in DOMAIN Append(q, e) : \/ x \in DOMAIN q
                                             \/ x = Len(q) + 1 /\ Append(q, e)[x] = e
           /\ Len(q) + 1 \in DOMAIN Append(q, e) /\ Append(q, e)[Len(q) + 1] = e
           /\ Len(q) + 1 \notin DOMAIN q
OBVIOUS

LEMMA TailFacts ==
    ASSUME NEW S, NEW q \in Seq(S), q # <<>>
    PROVE  /\ Tail(q) \in Seq(S) /\ Head(q) \in S /\ Head(q) = q[1] /\ 1 \in DOMAIN q
           /\ \A x \in DOMAIN Tail(q) : x + 1 \in DOMAIN q /\ x + 1 # 1 /\ Tail(q)[x] = q[x + 1]
           /\ \A x \in DOMAIN q : x # 1 => x - 1 \in DOMAIN Tail(q) /\ Tail(q)[x - 1] = q[x]
<1>1. Len(Tail(q)) = Len(q) - 1 /\ Len(q) \in Nat \ {0} /\ Tail(q) \in Seq(S)
      /\ \A x \in 1 .. Len(q) - 1 : Tail(q)[x] = q[x + 1]
  OBVIOUS
<1> DEFINE t == Tail(q)
<1> HIDE DEF t
<1>2. DOMAIN q = 1 .. Len(q) /\ DOMAIN t = 1 .. Len(q) - 1
  BY <1>1 DEF t
<1>3. \A x \in DOMAIN q : x # 1 => x - 1 \in DOMAIN t /\ (x - 1) + 1 = x
  BY <1>1, <1>2
<1>4. \A x \in DOMAIN t : x + 1 \in DOMAIN q /\ x + 1 # 1 /\ t[x] = q[x + 1]
  BY <1>1, <1>2 DEF t
<1>5. \A x \in DOMAIN q : x # 1 => x - 1 \in DOMAIN t /\ t[x - 1] = q[x]
  BY <1>3, <1>4
<1>6. Head(q) \in S /\ Head(q) = q[1] /\ 1 \in DOMAIN q
  BY <1>1, <1>2
<1> QED BY <1>1, <1>4, <1>5, <1>6 DEF t

LEMMA UpdateFacts ==
    ASSUME NEW S, NEW q \in Seq(S), NEW i \in DOMAIN q, NEW e \in S
    PROVE  /\ [q EXCEPT ![i] = e] \in Seq(S) /\ DOMAIN [q EXCEPT ![i] = e] = DOMAIN q
           /\ [q EXCEPT ![i] = e][i] = e
           /\ \A j \in DOMAIN q : j # i => [q EXCEPT ![i] = e][j] = q[j]
OBVIOUS

\* The events for a call in a queue that grows, shrinks or has none.
IsEvent(m, k) == m.body = "event" /\ m.call = k

LEMMA EventsType ==
    ASSUME NEW q \in Seq(Message), NEW k
    PROVE  EventsOf(q, k) \in Seq(Message)
BY AtEmbeds DEF EventsOf

LEMMA EventsAppend ==
    ASSUME NEW q \in Seq(Message), NEW m \in Message, NEW k
    PROVE  EventsOf(Append(q, m), k) = IF IsEvent(m, k) THEN Append(EventsOf(q, k), m)
                                                        ELSE EventsOf(q, k)
<1> DEFINE a == Append(q, m)
           K == {j \in DOMAIN a : a[j].body = "event" /\ a[j].call = k}
           L == {j \in DOMAIN q : q[j].body = "event" /\ q[j].call = k}
<1>1. /\ \A x \in DOMAIN q : x \in DOMAIN a /\ a[x] = q[x]
      /\ Len(q) + 1 \in DOMAIN a /\ a[Len(q) + 1] = m
      /\ \A x \in 1 .. Len(q) : x \in DOMAIN q /\ 0 + x = x
  BY AppendFacts
<1>2. Len(q) + 1 \in K <=> IsEvent(m, k)
  <2> HIDE DEF a
  <2> QED BY <1>1 DEF IsEvent
<1>3. Cut(L, K, 0, Len(q))
  <2> HIDE DEF a
  <2> QED BY <1>1 DEF Cut
<1>4. EventsOf(a, k) = At(a, K) /\ EventsOf(q, k) = At(q, L)
  BY DEF EventsOf
<1> HIDE DEF K, L
<1>5. At(Append(q, m), K) = IF Len(q) + 1 \in K THEN Append(At(q, L), m) ELSE At(q, L)
  BY <1>3, AtAppend
<1> QED BY <1>2, <1>4, <1>5

LEMMA EventsHead ==
    ASSUME NEW q \in Seq(Message), q # <<>>, NEW k
    PROVE  EventsOf(q, k) = IF IsEvent(Head(q), k) THEN <<Head(q)>> \o EventsOf(Tail(q), k)
                                                   ELSE EventsOf(Tail(q), k)
<1> DEFINE t == Tail(q)
           K == {j \in DOMAIN q : q[j].body = "event" /\ q[j].call = k}
           L == {j \in DOMAIN t : t[j].body = "event" /\ t[j].call = k}
<1>1. /\ \A x \in DOMAIN t : x + 1 \in DOMAIN q /\ t[x] = q[x + 1]
      /\ 1 \in DOMAIN q /\ q[1] = Head(q) /\ t \in Seq(Message)
  BY TailFacts
<1>2. 1 \in K <=> IsEvent(Head(q), k)
  <2> HIDE DEF t
  <2> QED BY <1>1 DEF IsEvent
<1>3. Cut(L, K, 1, Len(t))
  <2> HIDE DEF t
  <2>1. DOMAIN t = 1 .. Len(t) /\ \A x \in 1 .. Len(t) : 1 + x = x + 1
    BY <1>1
  <2> QED BY <1>1, <2>1 DEF Cut
<1>4. EventsOf(q, k) = At(q, K) /\ EventsOf(t, k) = At(t, L)
  BY DEF EventsOf
<1> HIDE DEF K, L
<1>5. At(q, K) = IF 1 \in K THEN <<Head(q)>> \o At(Tail(q), L) ELSE At(Tail(q), L)
  BY <1>3, AtHead
<1> QED BY <1>2, <1>4, <1>5

LEMMA EventsNone ==
    ASSUME NEW q \in Seq(Message), NEW k, \A x \in DOMAIN q : ~IsEvent(q[x], k)
    PROVE  EventsOf(q, k) = <<>>
<1> DEFINE K == {j \in DOMAIN q : q[j].body = "event" /\ q[j].call = k}
<1>1. \A x \in 1 .. Len(q) : x \notin K
  BY DEF IsEvent
<1>2. EventsOf(q, k) = At(q, K)
  BY DEF EventsOf
<1> HIDE DEF K
<1> QED BY <1>1, <1>2, AtNone

-----------------------------------------------------------------------------
\* The receivers keep their chats and calls, but for one that gets a new call.
Stays ==
    /\ \A i \in DOMAIN receivers :
         /\ i \in DOMAIN receivers' /\ receivers'[i].topic = receivers[i].topic
         /\ \/ receivers'[i].call = receivers[i].call
            \/ receivers[i].call = 0 /\ receivers'[i].call = calls + 1
    /\ \A i \in DOMAIN receivers' : i \in DOMAIN receivers \/ receivers'[i].call = 0

LEMMA LinksStay ==
    ASSUME Types, Stays
    PROVE  \A k \in 1 .. calls : /\ OfReceiver(k)' <=> OfReceiver(k)
                                 /\ \A c : OfChat(k, c)' <=> OfChat(k, c)
<1> SUFFICES ASSUME NEW k \in 1 .. calls
             PROVE  /\ OfReceiver(k)' <=> OfReceiver(k)
                    /\ \A c : OfChat(k, c)' <=> OfChat(k, c)
  OBVIOUS
<1>1. k # 0 /\ k # calls + 1
  BY DEF Types
<1>2. \A i \in DOMAIN receivers' : receivers'[i].call = k =>
          i \in DOMAIN receivers /\ receivers[i].call = k /\ receivers'[i].topic = receivers[i].topic
  BY <1>1 DEF Stays
<1>3. \A i \in DOMAIN receivers : receivers[i].call = k =>
          i \in DOMAIN receivers' /\ receivers'[i].call = k /\ receivers'[i].topic = receivers[i].topic
  BY <1>1 DEF Stays
<1>4. OfReceiver(k)' <=> OfReceiver(k)
  BY <1>2, <1>3 DEF OfReceiver
<1>5. ASSUME NEW c
      PROVE  OfChat(k, c)' <=> OfChat(k, c)
  BY <1>2, <1>3 DEF OfChat
<1> QED BY <1>4, <1>5

\* A call of a receiver, other than 0, is one of those that were given out.
LEMMA CallsGiven ==
    ASSUME Types, Numbers, Pushed
    PROVE  /\ \A i \in DOMAIN receivers : receivers[i].call # 0 => receivers[i].call \in 1 .. calls
           /\ \A k, c : OfChat(k, c) /\ k # 0 => k \in 1 .. calls
           /\ \A c \in Chats : chat_subs[c] # 0 => chat_subs[c] \in 1 .. calls
           /\ \A x \in DOMAIN events : events[x].call \in 1 .. calls
<1>1. \A i \in DOMAIN receivers : receivers[i].call # 0 => receivers[i].call \in 1 .. calls
  <2>1. \A i \in DOMAIN receivers : receivers[i] \in Receiver
    BY DEF Types
  <2>2. \A i \in DOMAIN receivers : receivers[i].call \in Nat
    BY <2>1 DEF Receiver
  <2> QED BY <2>2 DEF Numbers, Types
<1>2. \A k, c : OfChat(k, c) /\ k # 0 => k \in 1 .. calls
  BY <1>1 DEF OfChat
<1> QED BY <1>1, <1>2 DEF Pushed

\* What the requests of the server's side and the task say of the receivers stays true
\* while the receivers keep their chats and calls and all else stays the same.
LEMMA RegisteredStays ==
    ASSUME CallsInv, Stays, registered' = registered, DOMAIN asks \subseteq DOMAIN asks'
    PROVE  Registered'
<1>0. Types /\ Numbers /\ Registered
  BY DEF CallsInv
<1>1. \A k \in 1 .. calls : OfReceiver(k)' <=> OfReceiver(k)
  BY <1>0, LinksStay
<1>2. \A k \in DOMAIN registered : k \in 1 .. calls /\ k # 0
  BY <1>0 DEF Numbers, Types
<1>3. ASSUME NEW k \in DOMAIN registered, registered[k].kind = "ask"
      PROVE  registered[k].of \in DOMAIN asks' /\ ~OfReceiver(k)'
  BY <1>0, <1>1, <1>2, <1>3 DEF Registered
<1>4. ASSUME NEW k \in DOMAIN registered, registered[k].kind # "ask"
      PROVE  /\ registered[k].of \in DOMAIN receivers' /\ receivers'[registered[k].of].call = k
             /\ receivers'[registered[k].of].topic = registered[k].topic
  <2>1. /\ registered[k].of \in DOMAIN receivers /\ receivers[registered[k].of].call = k
        /\ receivers[registered[k].of].topic = registered[k].topic
    BY <1>0, <1>4 DEF Registered
  <2> QED BY <1>2, <2>1 DEF Stays
<1> QED BY <1>3, <1>4 DEF Registered

LEMMA PushedStays ==
    ASSUME CallsInv, Stays, UNCHANGED <<chat_subs, down, events>>,
           \A k \in DOMAIN registered' \cap 1 .. calls :
               k \in DOMAIN registered /\ registered'[k] = registered[k]
    PROVE  Pushed'
<1>0. Types /\ Numbers /\ Pushed
  BY DEF CallsInv
<1>1. \A k \in 1 .. calls, c \in Chats : OfChat(k, c)' <=> OfChat(k, c)
  BY <1>0, LinksStay
<1>2. /\ \A c \in Chats : chat_subs[c] # 0 => chat_subs[c] \in 1 .. calls
      /\ \A x \in DOMAIN events : events[x].call \in 1 .. calls /\ events[x].topic \in Chats
      /\ \A x \in DOMAIN down : down[x].call \in 1 .. calls /\ down[x].topic \in Chats
  <2>1. \A x \in DOMAIN down : down[x] \in Message
    BY <1>0 DEF Types
  <2>2. \A x \in DOMAIN events : events[x] \in Message
    BY <1>0 DEF Types
  <2> QED BY <1>0, <2>1, <2>2, CallsGiven DEF Numbers, Message
<1>3. \A c \in Chats : chat_subs[c] # 0 => OfChat(chat_subs[c], c)'
  BY <1>0, <1>1, <1>2 DEF Pushed
<1>4. \A x \in DOMAIN events : OfChat(events[x].call, events[x].topic)'
  BY <1>0, <1>1, <1>2 DEF Pushed
<1>5. \A x \in DOMAIN down : down[x].body = "event" => OfChat(down[x].call, down[x].topic)'
  BY <1>0, <1>1, <1>2 DEF Pushed
<1>6. \A x \in DOMAIN down :
          down[x].call \in DOMAIN registered' /\ registered'[down[x].call].kind = "ask" =>
              down[x].n = registered'[down[x].call].of
  BY <1>0, <1>2 DEF Pushed
<1> QED BY <1>0, <1>3, <1>4, <1>5, <1>6 DEF Pushed

\* A receiver whose events stay the same is as complete as before.
LEMMA SequencedStays ==
    ASSUME Sequenced, NEW i \in DOMAIN receivers, receivers[i].open, receivers[i].call # 0,
           receivers'[i].topic = receivers[i].topic, receivers'[i].from = receivers[i].from,
           receivers'[i].call = receivers[i].call,
           EventsFor(receivers[i])' = EventsFor(receivers[i]),
           UNCHANGED <<posted, chat_subs, run_client, task>>
    PROVE  Follow(EventsFor(receivers[i])', receivers'[i]) /\ Complete(i)'
<1>1. Follow(EventsFor(receivers[i]), receivers[i]) /\ Complete(i)
  BY DEF Sequenced
<1>2. Follow(EventsFor(receivers[i])', receivers'[i])
  BY <1>1 DEF Follow
<1>3. Complete(i)'
  BY <1>1 DEF Complete
<1> QED BY <1>2, <1>3

LEMMA SequencedAlike ==
    ASSUME Sequenced, UNCHANGED <<receivers, held, down, events, task, posted, chat_subs, run_client>>
    PROVE  Sequenced'
<1> SUFFICES ASSUME NEW i \in DOMAIN receivers', receivers'[i].open, receivers'[i].call # 0
             PROVE  Follow(EventsFor(receivers[i])', receivers'[i]) /\ Complete(i)'
  BY DEF Sequenced
<1>1. EventsFor(receivers[i])' = EventsFor(receivers[i])
  BY DEF EventsFor, Coming
<1> QED BY <1>1, SequencedStays

-----------------------------------------------------------------------------
LEMMA SubscribeStep ==
    ASSUME CallsInv, NEW c \in Chats, Subscribe(c)
    PROVE  CallsInv'
<1> DEFINE new == [topic |-> c, call |-> 0, from |-> 0, open |-> TRUE, buf |-> <<>>, got |-> <<>>]
           ask == [kind |-> "new", topic |-> c, of |-> Len(receivers) + 1]
           last == Len(receivers) + 1
<1>1. /\ Types /\ Numbers /\ ToWrite /\ Registered /\ ToServe /\ Pushed /\ Holding
      /\ Linked /\ Answers /\ Subscriptions /\ Sequenced
  BY DEF CallsInv
<1>2. /\ receivers' = Append(receivers, new) /\ outbox' = Append(outbox, ask)
      /\ UNCHANGED <<asks, registered, held, calls, task, up, down, run_client, events, chat_subs, posted>>
  BY DEF Subscribe, server_side
<1>3. new \in Receiver /\ ask \in Request
  BY <1>1 DEF Receiver, Request, Types
<1>4. /\ receivers' \in Seq(Receiver) /\ last \in DOMAIN receivers' /\ receivers'[last] = new
      /\ last \notin DOMAIN receivers
      /\ \A i \in DOMAIN receivers : i \in DOMAIN receivers' /\ receivers'[i] = receivers[i]
      /\ \A i \in DOMAIN receivers' : i \in DOMAIN receivers \/ i = last
  <2> HIDE DEF new
  <2> QED BY <1>1, <1>2, <1>3, AppendFacts DEF Types
<1>5. /\ outbox' \in Seq(Request)
      /\ \A x \in DOMAIN outbox : x \in DOMAIN outbox' /\ outbox'[x] = outbox[x]
      /\ \A x \in DOMAIN outbox' : x \in DOMAIN outbox \/ (x = Len(outbox) + 1 /\ outbox'[x] = ask)
      /\ Len(outbox) + 1 \notin DOMAIN outbox
  <2> HIDE DEF ask
  <2> QED BY <1>1, <1>2, <1>3, AppendFacts DEF Types
<1>6. new.call = 0 /\ new.topic = c /\ new.buf = <<>> /\ new.got = <<>>
      /\ ask.kind = "new" /\ ask.topic = c /\ ask.of = last
  OBVIOUS
<1> HIDE DEF new, ask, last
<1>7. Types'
  BY <1>1, <1>2, <1>4, <1>5 DEF Types
<1>8. Numbers'
  <2>1. \A i \in DOMAIN receivers' : \/ i \in DOMAIN receivers /\ receivers'[i] = receivers[i]
                                     \/ receivers'[i].call = 0 /\ receivers'[i].buf = <<>>
                                        /\ receivers'[i].got = <<>>
    BY <1>4, <1>6
  <2>2. \A i \in DOMAIN receivers' :
           /\ receivers'[i].call <= calls
           /\ receivers'[i].call = 0 => receivers'[i].buf = <<>> /\ receivers'[i].got = <<>>
    BY <1>1, <2>1 DEF Numbers, Types
  <2>3. \A i, j \in DOMAIN receivers' :
           receivers'[i].call = receivers'[j].call /\ receivers'[i].call # 0 => i = j
    BY <1>1, <2>1 DEF Numbers
  <2> QED BY <1>1, <1>2, <2>2, <2>3 DEF Numbers
<1>9. ToWrite'
  <2> SUFFICES ASSUME NEW x \in DOMAIN outbox', NEW y \in DOMAIN outbox'
               PROVE  /\ outbox'[x].kind \in {"new", "ask"}
                      /\ outbox'[x].kind = "ask" => outbox'[x].of \in DOMAIN asks
                      /\ outbox'[x].kind = "new" =>
                           /\ outbox'[x].of \in DOMAIN receivers'
                           /\ receivers'[outbox'[x].of].call = 0
                           /\ receivers'[outbox'[x].of].topic = outbox'[x].topic
                           /\ outbox'[y].kind = "new" /\ outbox'[y].of = outbox'[x].of => x = y
    BY <1>2 DEF ToWrite
  <2>1. CASE x \in DOMAIN outbox /\ y \in DOMAIN outbox
    BY <1>1, <1>4, <1>5, <2>1 DEF ToWrite
  <2>2. CASE x \in DOMAIN outbox /\ y \notin DOMAIN outbox
    BY <1>1, <1>4, <1>5, <1>6, <2>2 DEF ToWrite
  <2>3. CASE x \notin DOMAIN outbox
    BY <1>1, <1>4, <1>5, <1>6, <2>3 DEF ToWrite
  <2> QED BY <2>1, <2>2, <2>3
<1>10. Stays
  BY <1>4, <1>6 DEF Stays
<1>11. Registered' /\ Pushed'
  <2>1. DOMAIN asks \subseteq DOMAIN asks'
    BY <1>2
  <2> QED BY <1>2, <1>10, <2>1, RegisteredStays, PushedStays
<1>12. ToServe'
  <2>1. \A k \in 1 .. calls : OfReceiver(k)' <=> OfReceiver(k)
    BY <1>1, <1>10, LinksStay
  <2>2. \A x \in DOMAIN up : up[x].call \in 1 .. calls
    BY <1>1 DEF Numbers
  <2>3. \A x \in DOMAIN up : up[x].prefix # "new" => ~OfReceiver(up[x].call)'
    BY <1>1, <1>2, <2>1, <2>2 DEF ToServe, OfReceiver
  <2>4. \A k : Unheard(k)' <=> Unheard(k)
    BY <1>2 DEF Unheard
  <2> QED BY <1>1, <1>2, <1>4, <2>3, <2>4 DEF ToServe
<1>13. Holding'
  BY <1>1, <1>2 DEF Holding
<1>14. Linked'
  <2> SUFFICES ASSUME NEW i \in DOMAIN receivers', task = "running", receivers'[i].open,
                      receivers'[i].call # 0
               PROVE  Silent(i)' \/ Known(i)'
    BY <1>2 DEF Linked
  <2>1. i \in DOMAIN receivers /\ receivers'[i] = receivers[i]
    BY <1>4, <1>6
  <2>2. Silent(i) \/ Known(i)
    BY <1>1, <2>1 DEF Linked
  <2> QED BY <1>2, <2>1, <2>2 DEF Silent, Known, Granted
<1>15. Answers'
  BY <1>1, <1>2, <1>5 DEF Answers, UnderWay
<1>16. Subscriptions'
  BY <1>1, <1>2 DEF Subscriptions, Subscribed, Granted
<1>17. Sequenced'
  <2> SUFFICES ASSUME NEW i \in DOMAIN receivers', receivers'[i].open, receivers'[i].call # 0
               PROVE  Follow(EventsFor(receivers[i])', receivers'[i]) /\ Complete(i)'
    BY DEF Sequenced
  <2>1. i \in DOMAIN receivers /\ receivers'[i] = receivers[i]
    BY <1>4, <1>6
  <2>2. EventsFor(receivers[i])' = EventsFor(receivers[i])
    BY <1>2, <2>1 DEF EventsFor, Coming
  <2> QED BY <1>1, <1>2, <2>1, <2>2, SequencedStays
<1> QED BY <1>7, <1>8, <1>9, <1>11, <1>12, <1>13, <1>14, <1>15, <1>16, <1>17 DEF CallsInv

LEMMA AskStep ==
    ASSUME CallsInv, NEW c \in Chats, Ask(c)
    PROVE  CallsInv'
<1> DEFINE new == [st |-> "waiting", answer |-> 0]
           ask == [kind |-> "ask", topic |-> c, of |-> Len(asks) + 1]
           last == Len(asks) + 1
<1>1. /\ Types /\ Numbers /\ ToWrite /\ Registered /\ ToServe /\ Pushed /\ Holding
      /\ Linked /\ Answers /\ Subscriptions /\ Sequenced
  BY DEF CallsInv
<1>2. /\ asks' = Append(asks, new) /\ outbox' = Append(outbox, ask)
      /\ UNCHANGED <<receivers, registered, held, calls, task, up, down, run_client, events, chat_subs, posted>>
  BY DEF Ask, server_side
<1>3. new \in AskState /\ ask \in Request
  BY <1>1 DEF AskState, Request, Types
<1>4. /\ asks' \in Seq(AskState) /\ last \in DOMAIN asks' /\ asks'[last] = new
      /\ \A n \in DOMAIN asks : n \in DOMAIN asks' /\ asks'[n] = asks[n]
      /\ \A n \in DOMAIN asks' : n \in DOMAIN asks \/ n = last
  <2> HIDE DEF new
  <2> QED BY <1>1, <1>2, <1>3, AppendFacts DEF Types
<1>5. /\ outbox' \in Seq(Request)
      /\ \A x \in DOMAIN outbox : x \in DOMAIN outbox' /\ outbox'[x] = outbox[x]
      /\ \A x \in DOMAIN outbox' : x \in DOMAIN outbox \/ outbox'[x] = ask
      /\ Len(outbox) + 1 \in DOMAIN outbox' /\ outbox'[Len(outbox) + 1] = ask
  <2> HIDE DEF ask
  <2> QED BY <1>1, <1>2, <1>3, AppendFacts DEF Types
<1>6. new.st = "waiting" /\ ask.kind = "ask" /\ ask.of = last
  OBVIOUS
<1> HIDE DEF new, ask, last
<1>7. Types'
  BY <1>1, <1>2, <1>4, <1>5 DEF Types
<1>8. Numbers'
  BY <1>1, <1>2 DEF Numbers
<1>9. ToWrite'
  <2>1. \A x \in DOMAIN outbox' : outbox'[x].kind # "ask" => x \in DOMAIN outbox /\ outbox'[x] = outbox[x]
    BY <1>5, <1>6
  <2>2. \A x \in DOMAIN outbox' : /\ outbox'[x].kind \in {"new", "ask"}
                                  /\ outbox'[x].kind = "ask" => outbox'[x].of \in DOMAIN asks'
    BY <1>1, <1>4, <1>5, <1>6 DEF ToWrite
  <2> QED BY <1>1, <1>2, <2>1, <2>2 DEF ToWrite
<1>10. Registered'
  BY <1>1, <1>2, <1>4 DEF Registered, OfReceiver
<1>11. ToServe' /\ Pushed' /\ Holding'
  BY <1>1, <1>2 DEF ToServe, Pushed, Holding, OfReceiver, OfChat, Unheard
<1>12. Linked'
  BY <1>1, <1>2 DEF Linked, Silent, Known, Granted
<1>13. Answers'
  <2> SUFFICES ASSUME NEW n \in DOMAIN asks'
               PROVE  /\ asks'[n].st = "done" => asks'[n].answer = n
                      /\ asks'[n].st = "waiting" /\ task = "running" /\ run_client = "live" =>
                            UnderWay(n)'
    BY <1>2 DEF Answers
  <2>1. CASE n = last
    BY <1>4, <1>5, <1>6, <2>1 DEF UnderWay
  <2>2. CASE n \in DOMAIN asks
    BY <1>1, <1>2, <1>4, <1>5, <2>2 DEF Answers, UnderWay
  <2> QED BY <1>4, <2>1, <2>2
<1>14. Subscriptions'
  BY <1>1, <1>2 DEF Subscriptions, Subscribed, Granted
<1>15. Sequenced'
  BY <1>1, <1>2, SequencedAlike
<1> QED BY <1>7, <1>8, <1>9, <1>10, <1>11, <1>12, <1>13, <1>14, <1>15 DEF CallsInv

LEMMA AskTimeoutStep ==
    ASSUME CallsInv, NEW n \in DOMAIN asks, AskTimeout(n)
    PROVE  CallsInv'
<1> DEFINE late == [asks[n] EXCEPT !.st = "timeout"]
<1>1. /\ Types /\ Numbers /\ ToWrite /\ Registered /\ ToServe /\ Pushed /\ Holding
      /\ Linked /\ Answers /\ Subscriptions /\ Sequenced
  BY DEF CallsInv
<1>2. /\ asks' = [asks EXCEPT ![n] = late]
      /\ UNCHANGED <<receivers, outbox, registered, held, calls, task, up, down, run_client, events, chat_subs, posted>>
  BY DEF AskTimeout, server_side
<1>3. asks[n] \in AskState /\ late \in AskState /\ late.st = "timeout"
  <2>1. asks[n] \in AskState
    BY <1>1 DEF Types
  <2> QED BY <2>1 DEF AskState
<1> HIDE DEF late
<1>4. /\ asks' \in Seq(AskState) /\ DOMAIN asks' = DOMAIN asks /\ asks'[n] = late
      /\ \A m \in DOMAIN asks : m # n => asks'[m] = asks[m]
  BY <1>1, <1>2, <1>3, UpdateFacts DEF Types
<1>5. Types'
  BY <1>1, <1>2, <1>4 DEF Types
<1>6. Numbers' /\ ToWrite' /\ Registered'
  BY <1>1, <1>2, <1>4 DEF Numbers, ToWrite, Registered, OfReceiver
<1>7. ToServe' /\ Pushed' /\ Holding'
  BY <1>1, <1>2 DEF ToServe, Pushed, Holding, OfReceiver, OfChat, Unheard
<1>8. Linked'
  BY <1>1, <1>2 DEF Linked, Silent, Known, Granted
<1>9. Answers'
  BY <1>1, <1>2, <1>3, <1>4 DEF Answers, UnderWay
<1>10. Subscriptions'
  BY <1>1, <1>2 DEF Subscriptions, Subscribed, Granted
<1>11. Sequenced'
  BY <1>1, <1>2, SequencedAlike
<1> QED BY <1>5, <1>6, <1>7, <1>8, <1>9, <1>10, <1>11 DEF CallsInv

-----------------------------------------------------------------------------
\* The user interface or the task changes what receiver i holds.
LEMMA OneReceiver ==
    ASSUME CallsInv, NEW i \in DOMAIN receivers, NEW r \in Receiver,
           receivers' = [receivers EXCEPT ![i] = r],
           r.call = receivers[i].call, r.topic = receivers[i].topic, r.open => receivers[i].open,
           /\ receivers[i].buf = <<>> /\ receivers[i].got = <<>>
           /\ \A x \in DOMAIN held : held[x].call # receivers[i].call
           => r.buf = <<>> /\ r.got = <<>>,
           r.call = 0 => r.buf = <<>> /\ r.got = <<>>,
           held' \in {held, <<>>},
           UNCHANGED <<asks, outbox, registered, calls, task, up, down, run_client, events,
                       chat_subs, posted>>
    PROVE  /\ receivers'[i] = r /\ DOMAIN receivers' = DOMAIN receivers
           /\ \A j \in DOMAIN receivers : j # i => receivers'[j] = receivers[j]
           /\ Types' /\ Numbers' /\ ToWrite' /\ Registered' /\ ToServe' /\ Pushed' /\ Holding'
           /\ Linked' /\ Answers' /\ Subscriptions'
<1>1. /\ Types /\ Numbers /\ ToWrite /\ Registered /\ ToServe /\ Pushed /\ Holding
      /\ Linked /\ Answers /\ Subscriptions /\ Sequenced
  BY DEF CallsInv
<1>2. UNCHANGED <<asks, outbox, registered, calls, task, up, down, run_client, events,
                  chat_subs, posted>>
  OBVIOUS
<1>3. /\ receivers' \in Seq(Receiver) /\ DOMAIN receivers' = DOMAIN receivers /\ receivers'[i] = r
      /\ \A j \in DOMAIN receivers : j # i => receivers'[j] = receivers[j]
  BY <1>1, UpdateFacts DEF Types
<1>4. \A j \in DOMAIN receivers : /\ receivers'[j].call = receivers[j].call
                                  /\ receivers'[j].topic = receivers[j].topic
                                  /\ receivers'[j].open => receivers[j].open
                                  /\ receivers'[j].call = 0 =>
                                       receivers'[j].buf = <<>> /\ receivers'[j].got = <<>>
  BY <1>1, <1>3 DEF Numbers
<1>5. \A j \in DOMAIN receivers :
          /\ receivers[j].buf = <<>> /\ receivers[j].got = <<>>
          /\ \A x \in DOMAIN held : held[x].call # receivers[j].call
          => receivers'[j].buf = <<>> /\ receivers'[j].got = <<>>
  <2> SUFFICES ASSUME NEW j \in DOMAIN receivers, receivers[j].buf = <<>>, receivers[j].got = <<>>,
                      \A x \in DOMAIN held : held[x].call # receivers[j].call
               PROVE  receivers'[j].buf = <<>> /\ receivers'[j].got = <<>>
    OBVIOUS
  <2>1. CASE j = i
    BY <1>3, <2>1
  <2>2. CASE j # i
    BY <1>3, <2>2
  <2> QED BY <2>1, <2>2
<1>6. Stays
  BY <1>3, <1>4 DEF Stays
<1>7. \A x \in DOMAIN held' : x \in DOMAIN held /\ held'[x] = held[x]
  OBVIOUS
<1>8. Types'
  <2>1. CASE held' = held
    BY <1>1, <1>2, <1>3, <2>1 DEF Types
  <2>2. CASE held' = <<>>
    BY <1>1, <1>2, <1>3, <2>2 DEF Types
  <2> QED BY <2>1, <2>2
<1>9. Numbers'
  BY <1>1, <1>2, <1>3, <1>4 DEF Numbers
<1>10. ToWrite'
  BY <1>1, <1>2, <1>3, <1>4 DEF ToWrite
<1>11. Registered' /\ Pushed'
  <2>1. DOMAIN asks \subseteq DOMAIN asks'
    BY <1>2
  <2> QED BY <1>2, <1>6, <2>1, RegisteredStays, PushedStays
<1>12. ToServe'
  <2>1. \A k : Unheard(k) => Unheard(k)'
    BY <1>2, <1>7 DEF Unheard
  <2>2. \A x \in DOMAIN up : up[x].prefix # "new" => ~OfReceiver(up[x].call)'
    BY <1>1, <1>2, <1>3, <1>4 DEF ToServe, OfReceiver
  <2>3. ASSUME NEW x \in DOMAIN up, up[x].prefix = "new"
        PROVE  /\ up[x].of \in DOMAIN receivers' /\ receivers'[up[x].of].call = up[x].call
               /\ receivers'[up[x].of].topic = up[x].topic
               /\ receivers'[up[x].of].buf = <<>> /\ receivers'[up[x].of].got = <<>>
               /\ Unheard(up[x].call)
    <3>1. /\ up[x].of \in DOMAIN receivers /\ receivers[up[x].of].call = up[x].call
          /\ receivers[up[x].of].topic = up[x].topic
          /\ receivers[up[x].of].buf = <<>> /\ receivers[up[x].of].got = <<>>
          /\ Unheard(up[x].call)
      BY <1>1, <2>3 DEF ToServe
    <3>2. \A y \in DOMAIN held : held[y].call # receivers[up[x].of].call
      BY <3>1 DEF Unheard
    <3> QED BY <1>3, <1>4, <1>5, <3>1, <3>2
  <2> QED BY <1>1, <1>2, <2>1, <2>2, <2>3 DEF ToServe
<1>13. Holding'
  BY <1>1, <1>2 DEF Holding
<1>14. Linked'
  <2> SUFFICES ASSUME NEW j \in DOMAIN receivers, task = "running", receivers[j].open,
                      receivers[j].call # 0
               PROVE  Silent(j)' \/ Known(j)'
    BY <1>2, <1>3, <1>4 DEF Linked
  <2>1. Silent(j) \/ Known(j)
    BY <1>1 DEF Linked
  <2>2. Silent(j) => Silent(j)'
    BY <1>2, <1>4, <1>5, <1>7 DEF Silent
  <2>3. Known(j) => Known(j)'
    BY <1>2, <1>4 DEF Known, Granted
  <2> QED BY <2>1, <2>2, <2>3
<1>15. Answers'
  BY <1>1, <1>2 DEF Answers, UnderWay
<1>16. Subscriptions'
  BY <1>1, <1>2 DEF Subscriptions, Subscribed, Granted
<1> QED BY <1>3, <1>8, <1>9, <1>10, <1>11, <1>12, <1>13, <1>14, <1>15, <1>16

LEMMA ConsumeStep ==
    ASSUME CallsInv, NEW i \in DOMAIN receivers, Consume(i)
    PROVE  CallsInv'
<1> DEFINE r == [receivers[i] EXCEPT !.got = Append(receivers[i].got, Head(receivers[i].buf)),
                                     !.buf = Tail(receivers[i].buf)]
           g == Append(receivers[i].got, Head(receivers[i].buf))
           b == Tail(receivers[i].buf)
<1>1. Types /\ Numbers /\ Sequenced
  BY DEF CallsInv
<1>2. /\ receivers[i].open /\ receivers[i].buf # <<>> /\ receivers' = [receivers EXCEPT ![i] = r]
      /\ UNCHANGED <<asks, outbox, registered, held, calls, task, up, down, run_client, events,
                     chat_subs, posted>>
  BY DEF Consume, server_side
<1>3. receivers[i] \in Receiver /\ receivers[i].buf \in Seq(Message) /\ receivers[i].got \in Seq(Message)
  <2>1. receivers[i] \in Receiver
    BY <1>1 DEF Types
  <2> QED BY <2>1 DEF Receiver
<1>4. g \in Seq(Message) /\ b \in Seq(Message)
  <2>1. Head(receivers[i].buf) \in Message /\ b \in Seq(Message)
    BY <1>2, <1>3, TailFacts
  <2> QED BY <1>3, <2>1, AppendFacts
<1>5. r = [receivers[i] EXCEPT !.got = g, !.buf = b]
  OBVIOUS
<1>6. /\ r \in Receiver /\ r.call = receivers[i].call /\ r.topic = receivers[i].topic
      /\ r.open = receivers[i].open /\ r.from = receivers[i].from /\ r.got = g /\ r.buf = b
  <2> HIDE DEF r, g, b
  <2> QED BY <1>3, <1>4, <1>5 DEF Receiver
<1>7. r.call # 0
  BY <1>1, <1>2, <1>6 DEF Numbers
<1>8. /\ receivers'[i] = r /\ DOMAIN receivers' = DOMAIN receivers
      /\ \A j \in DOMAIN receivers : j # i => receivers'[j] = receivers[j]
      /\ Types' /\ Numbers' /\ ToWrite' /\ Registered' /\ ToServe' /\ Pushed' /\ Holding'
      /\ Linked' /\ Answers' /\ Subscriptions'
  <2>1. held' \in {held, <<>>}
    BY <1>2
  <2> HIDE DEF r
  <2> QED BY <1>2, <1>6, <1>7, <2>1, OneReceiver
<1>9. Sequenced'
  <2> SUFFICES ASSUME NEW j \in DOMAIN receivers', receivers'[j].open, receivers'[j].call # 0
               PROVE  Follow(EventsFor(receivers[j])', receivers'[j]) /\ Complete(j)'
    BY DEF Sequenced
  <2>1. CASE j # i
    <3>1. EventsFor(receivers[j])' = EventsFor(receivers[j])
      BY <1>2, <1>8, <2>1 DEF EventsFor, Coming
    <3> QED BY <1>1, <1>2, <1>8, <2>1, <3>1, SequencedStays
  <2>2. CASE j = i
    <3> DEFINE s == IF task = "running" THEN Coming(receivers[i].call) ELSE <<>>
    <3>1. s \in Seq(Message)
      <4>1. Coming(receivers[i].call) \in Seq(Message)
        <5>1. /\ EventsOf(held, receivers[i].call) \in Seq(Message)
              /\ EventsOf(down, receivers[i].call) \in Seq(Message)
              /\ EventsOf(events, receivers[i].call) \in Seq(Message)
          BY <1>1, EventsType DEF Types
        <5> QED BY <5>1 DEF Coming
      <4> QED BY <4>1
    <3>2. EventsFor(receivers[i])' = g \o b \o s
      <4>1. Coming(receivers[i].call)' = Coming(receivers[i].call)
        BY <1>2, <1>6, <1>8 DEF Coming
      <4> HIDE DEF r, g, b
      <4> QED BY <1>2, <1>6, <1>8, <4>1 DEF EventsFor
    <3>3. EventsFor(receivers[i]) = receivers[i].got \o receivers[i].buf \o s
      BY DEF EventsFor
    <3> HIDE DEF s
    <3>4. g \o b \o s = receivers[i].got \o receivers[i].buf \o s
      <4>1. MovesOn(receivers[i].got, receivers[i].buf, s, Head(receivers[i].buf))
        <5>1. Head(receivers[i].buf) \in Message
          BY <1>2, <1>3, TailFacts
        <5> QED BY <1>3, <3>1, <5>1, MovedOn
      <4> QED BY <1>2, <4>1 DEF MovesOn
    <3> HIDE DEF r, g, b
    <3>5. EventsFor(receivers[i])' = EventsFor(receivers[i])
      BY <3>2, <3>3, <3>4
    <3> QED BY <1>1, <1>2, <1>6, <1>8, <2>2, <3>5, SequencedStays
  <2> QED BY <2>1, <2>2
<1> QED BY <1>8, <1>9 DEF CallsInv

LEMMA DropReceiverStep ==
    ASSUME CallsInv, NEW i \in DOMAIN receivers, DropReceiver(i)
    PROVE  CallsInv'
<1> DEFINE r == [receivers[i] EXCEPT !.open = FALSE, !.buf = <<>>]
<1>1. Types /\ Numbers /\ Sequenced
  BY DEF CallsInv
<1>2. /\ receivers[i].open /\ receivers' = [receivers EXCEPT ![i] = r]
      /\ UNCHANGED <<asks, outbox, registered, held, calls, task, up, down, run_client, events,
                     chat_subs, posted>>
  BY DEF DropReceiver, server_side
<1>3. receivers[i] \in Receiver
  BY <1>1 DEF Types
<1>4. <<>> \in Seq(Message)
  OBVIOUS
<1>5. /\ r \in Receiver /\ r.call = receivers[i].call /\ r.topic = receivers[i].topic
      /\ r.open = FALSE /\ r.got = receivers[i].got /\ r.buf = <<>>
  BY <1>3, <1>4 DEF Receiver
<1>6. r.call = 0 => r.got = <<>>
  BY <1>1, <1>5 DEF Numbers
<1> HIDE DEF r
<1>7. /\ receivers'[i] = r /\ DOMAIN receivers' = DOMAIN receivers
      /\ \A j \in DOMAIN receivers : j # i => receivers'[j] = receivers[j]
      /\ Types' /\ Numbers' /\ ToWrite' /\ Registered' /\ ToServe' /\ Pushed' /\ Holding'
      /\ Linked' /\ Answers' /\ Subscriptions'
  <2>1. held' \in {held, <<>>}
    BY <1>2
  <2> QED BY <1>2, <1>5, <1>6, <2>1, OneReceiver
<1>8. Sequenced'
  <2> SUFFICES ASSUME NEW j \in DOMAIN receivers', receivers'[j].open, receivers'[j].call # 0
               PROVE  Follow(EventsFor(receivers[j])', receivers'[j]) /\ Complete(j)'
    BY DEF Sequenced
  <2>1. j # i
    BY <1>5, <1>7
  <2>2. EventsFor(receivers[j])' = EventsFor(receivers[j])
    BY <1>2, <1>7, <2>1 DEF EventsFor, Coming
  <2> QED BY <1>1, <1>2, <1>7, <2>1, <2>2, SequencedStays
<1> QED BY <1>7, <1>8 DEF CallsInv

-----------------------------------------------------------------------------
\* The event that is being handed over is the first that comes to its call.
LEMMA EventsOfOne ==
    ASSUME NEW m \in Message, m.body = "event", NEW k
    PROVE  EventsOf(<<m>>, k) = IF m.call = k THEN <<m>> ELSE <<>>
<1> DEFINE q == <<m>>
<1>1. q \in Seq(Message) /\ q # <<>> /\ Head(q) = m /\ Tail(q) = <<>>
  OBVIOUS
<1>2. EventsOf(<<>>, k) = <<>>
  <2>1. <<>> \in Seq(Message) /\ \A x \in DOMAIN <<>> : ~IsEvent(<<>>[x], k)
    OBVIOUS
  <2> QED BY <2>1, EventsNone
<1> HIDE DEF q
<1>3. EventsOf(q, k) = IF IsEvent(m, k) THEN <<m>> \o EventsOf(<<>>, k) ELSE EventsOf(<<>>, k)
  BY <1>1, EventsHead
<1>4. <<m>> \o <<>> = <<m>>
  BY <1>1, ConcatOne DEF q
<1> QED BY <1>2, <1>3, <1>4 DEF IsEvent, q

LEMMA ComingType ==
    ASSUME Types, NEW k
    PROVE  /\ EventsOf(held, k) \in Seq(Message) /\ EventsOf(down, k) \in Seq(Message)
           /\ EventsOf(events, k) \in Seq(Message) /\ Coming(k) \in Seq(Message)
           /\ EventsOf(<<>>, k) = <<>>
<1>1. /\ EventsOf(held, k) \in Seq(Message) /\ EventsOf(down, k) \in Seq(Message)
      /\ EventsOf(events, k) \in Seq(Message)
  BY EventsType DEF Types
<1>2. <<>> \in Seq(Message) /\ \A x \in DOMAIN <<>> : ~IsEvent(<<>>[x], k)
  OBVIOUS
<1>3. EventsOf(<<>>, k) = <<>>
  BY <1>2, EventsNone
<1> QED BY <1>1, <1>3 DEF Coming

LEMMA HeldFirst ==
    ASSUME Types, Holding, held # <<>>, NEW k
    PROVE  /\ held[1] \in Message
           /\ held[1].call = k => Coming(k) = <<held[1]>> \o (EventsOf(down, k) \o EventsOf(events, k))
           /\ held[1].call # k => Coming(k) = EventsOf(down, k) \o EventsOf(events, k)
<1> DEFINE m == held[1]
           d == EventsOf(down, k)
           e == EventsOf(events, k)
<1>1. m \in Message /\ m.body = "event" /\ held = <<m>>
  BY DEF Types, Holding
<1>2. d \in Seq(Message) /\ e \in Seq(Message)
  BY ComingType
<1>3. Coming(k) = EventsOf(held, k) \o d \o e
  BY DEF Coming
<1> HIDE DEF m, d, e
<1>4. EventsOf(held, k) = IF m.call = k THEN <<m>> ELSE <<>>
  BY <1>1, EventsOfOne
<1>5. /\ <<>> \o d = d /\ <<m>> \in Seq(Message)
      /\ (<<m>> \o d) \o e = <<m>> \o (d \o e)
  <2>1. <<m>> \in Seq(Message)
    BY <1>1
  <2> QED BY <1>2, <2>1, ConcatOne, ConcatAssociates DEF Associates
<1> QED BY <1>1, <1>3, <1>4, <1>5 DEF m, d, e

LEMMA HandOverStep ==
    ASSUME CallsInv, HandOver
    PROVE  CallsInv'
<1> DEFINE m == held[1]
           i == registered[held[1].call].of
           b == Append(receivers[i].buf, m)
           r == [receivers[i] EXCEPT !.buf = b]
<1>1. Types /\ Numbers /\ Registered /\ Holding /\ Sequenced
  BY DEF CallsInv
<1>2. /\ task = "running" /\ held # <<>> /\ held' = <<>> /\ receivers[i].open
      /\ receivers' = [receivers EXCEPT ![i] = r]
      /\ UNCHANGED <<asks, outbox, registered, calls, task, up, down, run_client, events,
                     chat_subs, posted>>
  BY DEF HandOver, server_side
<1>3. /\ m \in Message /\ m.call \in DOMAIN registered /\ i \in DOMAIN receivers
      /\ receivers[i].call = m.call /\ m.call # 0 /\ 1 \in DOMAIN held
  <2>1. m \in Message /\ m.call \in DOMAIN registered /\ registered[m.call].kind = "sub" /\ 1 \in DOMAIN held
    BY <1>1, <1>2 DEF Holding, Types
  <2>2. m.call # 0
    BY <1>1, <2>1 DEF Numbers
  <2> QED BY <1>1, <2>1, <2>2 DEF Registered
<1>4. receivers[i] \in Receiver /\ receivers[i].buf \in Seq(Message) /\ receivers[i].got \in Seq(Message)
  <2>1. receivers[i] \in Receiver
    BY <1>1, <1>3 DEF Types
  <2> QED BY <2>1 DEF Receiver
<1>5. b \in Seq(Message)
  BY <1>3, <1>4, AppendFacts
<1>6. /\ r \in Receiver /\ r.call = receivers[i].call /\ r.topic = receivers[i].topic
      /\ r.open = receivers[i].open /\ r.from = receivers[i].from /\ r.got = receivers[i].got /\ r.buf = b
  <2> HIDE DEF i, b
  <2> QED BY <1>4, <1>5 DEF Receiver
<1>7. \E x \in DOMAIN held : held[x].call = receivers[i].call
  BY <1>3
<1>8. /\ receivers'[i] = r /\ DOMAIN receivers' = DOMAIN receivers
      /\ \A j \in DOMAIN receivers : j # i => receivers'[j] = receivers[j]
      /\ Types' /\ Numbers' /\ ToWrite' /\ Registered' /\ ToServe' /\ Pushed' /\ Holding'
      /\ Linked' /\ Answers' /\ Subscriptions'
  <2>1. held' \in {held, <<>>}
    BY <1>2
  <2> HIDE DEF r, i
  <2> QED BY <1>2, <1>3, <1>6, <1>7, <2>1, OneReceiver
<1>9. Sequenced'
  <2> SUFFICES ASSUME NEW j \in DOMAIN receivers', receivers'[j].open, receivers'[j].call # 0
               PROVE  Follow(EventsFor(receivers[j])', receivers'[j]) /\ Complete(j)'
    BY DEF Sequenced
  <2> DEFINE k == receivers[j].call
             c == EventsOf(down, k) \o EventsOf(events, k)
  <2>1. c \in Seq(Message)
    BY <1>1, ComingType
  <2>2. Coming(k)' = c /\ receivers'[j].call = k
    <3>1. EventsOf(held', k) = <<>> /\ EventsOf(down, k) \in Seq(Message)
      BY <1>1, <1>2, ComingType
    <3>2. <<>> \o EventsOf(down, k) = EventsOf(down, k)
      BY <3>1, ConcatOne
    <3>3. receivers'[j].call = receivers[j].call
      <4> HIDE DEF r
      <4> QED BY <1>6, <1>8
    <3> QED BY <1>2, <3>1, <3>2, <3>3 DEF Coming
  <2>3. CASE j # i
    <3>1. m.call # k
      BY <1>1, <1>3, <1>8, <2>3 DEF Numbers
    <3>2. Coming(k) = c
      BY <1>1, <1>2, <3>1, HeldFirst
    <3> HIDE DEF r, c, k
    <3>3. EventsFor(receivers[j])' = EventsFor(receivers[j])
      BY <1>2, <1>8, <2>2, <2>3, <3>2 DEF EventsFor, k
    <3> QED BY <1>1, <1>2, <1>8, <2>3, <3>3, SequencedStays
  <2>4. CASE j = i
    <3>1. Coming(k) = <<m>> \o c
      BY <1>1, <1>2, <1>3, <2>4, HeldFirst
    <3>2. MovesOn(receivers[i].got, receivers[i].buf, c, m)
      <4> HIDE DEF i, c, m
      <4> QED BY <1>3, <1>4, <2>1, MovedOn
    <3> HIDE DEF r, c, k, m
    <3>3. EventsFor(receivers[i]) = receivers[i].got \o receivers[i].buf \o (<<m>> \o c)
      BY <1>2, <2>4, <3>1 DEF EventsFor, k
    <3>4. EventsFor(receivers[j])' = receivers[i].got \o b \o c
      <4> HIDE DEF b
      <4> QED BY <1>2, <1>6, <1>8, <2>2, <2>4 DEF EventsFor, k
    <3>5. EventsFor(receivers[j])' = EventsFor(receivers[j])
      BY <2>4, <3>2, <3>3, <3>4 DEF MovesOn
    <3> HIDE DEF i
    <3> QED BY <1>1, <1>2, <1>3, <1>6, <1>8, <2>4, <3>5, SequencedStays
  <2> QED BY <2>3, <2>4
<1> QED BY <1>8, <1>9 DEF CallsInv

-----------------------------------------------------------------------------
\* A call that was not given out yet is unknown everywhere.
LEMMA CallsFresh ==
    ASSUME CallsInv, NEW k \in Nat, k > calls
    PROVE  /\ k \notin DOMAIN registered /\ ~OfReceiver(k) /\ k # 0
           /\ \A x \in DOMAIN up : up[x].call # k
           /\ \A c \in Chats : chat_subs[c] # k
           /\ \A x \in DOMAIN down : down[x].call # k
           /\ \A x \in DOMAIN events : events[x].call # k
<1>1. Types /\ Numbers /\ Pushed
  BY DEF CallsInv
<1>2. k # 0 /\ k \notin 1 .. calls
  BY <1>1 DEF Types
<1> QED BY <1>1, <1>2, CallsGiven DEF Numbers, OfReceiver

LEMMA WriteRequestStep ==
    ASSUME CallsInv, WriteRequest
    PROVE  CallsInv'
<1>0. PICK k \in Nat : k = calls + 1
  BY DEF CallsInv, Types
<1> DEFINE r == Head(outbox)
           m == [prefix |-> r.kind, call |-> k, topic |-> r.topic, of |-> r.of]
           v == [receivers[r.of] EXCEPT !.call = k]
<1>1. /\ Types /\ Numbers /\ ToWrite /\ Registered /\ ToServe /\ Pushed /\ Holding
      /\ Linked /\ Answers /\ Subscriptions /\ Sequenced
  BY DEF CallsInv
<1>2. /\ task = "running" /\ held = <<>> /\ outbox # <<>> /\ outbox' = Tail(outbox)
      /\ up' = Append(up, m) /\ calls' = k /\ registered' = With(registered, k, r)
      /\ receivers' = IF r.kind = "new" THEN [receivers EXCEPT ![r.of] = v] ELSE receivers
      /\ UNCHANGED <<asks, held, task, down, run_client, events, chat_subs, posted>>
  BY <1>0 DEF WriteRequest, server_side
<1>3. /\ outbox' \in Seq(Request) /\ r \in Request /\ r = outbox[1] /\ 1 \in DOMAIN outbox
      /\ \A x \in DOMAIN outbox' : x + 1 \in DOMAIN outbox /\ x + 1 # 1 /\ outbox'[x] = outbox[x + 1]
      /\ \A x \in DOMAIN outbox : x # 1 => x - 1 \in DOMAIN outbox' /\ outbox'[x - 1] = outbox[x]
  BY <1>1, <1>2, TailFacts DEF Types
<1>4. /\ r.kind \in {"new", "ask"} /\ (r.kind = "ask" => r.of \in DOMAIN asks)
      /\ r.topic \in Chats /\ r.of \in Nat
      /\ r.kind = "new" =>
           /\ r.of \in DOMAIN receivers /\ receivers[r.of].call = 0
           /\ receivers[r.of].topic = r.topic
           /\ \A y \in DOMAIN outbox : y # 1 => ~(outbox[y].kind = "new" /\ outbox[y].of = r.of)
  <2>1. \A y \in DOMAIN outbox : r.kind = "new" /\ outbox[y].kind = "new" /\ outbox[y].of = r.of => 1 = y
    BY <1>1, <1>3 DEF ToWrite
  <2> HIDE DEF r
  <2> QED BY <1>1, <1>3, <2>1 DEF ToWrite, Request
<1>5. k \in Nat /\ k > calls /\ k # 0 /\ calls \in Nat
  BY <1>0, <1>1 DEF Types
<1>6. /\ k \notin DOMAIN registered /\ ~OfReceiver(k)
      /\ \A x \in DOMAIN up : up[x].call # k
      /\ \A c \in Chats : chat_subs[c] # k
      /\ \A x \in DOMAIN down : down[x].call # k
      /\ \A x \in DOMAIN events : events[x].call # k
  <2> QED BY <1>5, CallsFresh
<1>7. /\ m \in Sent /\ m.prefix = r.kind /\ m.call = k /\ m.topic = r.topic /\ m.of = r.of
  <2> HIDE DEF r
  <2> QED BY <1>4, <1>5 DEF Sent
<1>8. /\ up' \in Seq(Sent) /\ Len(up) + 1 \in DOMAIN up' /\ up'[Len(up) + 1] = m
      /\ \A x \in DOMAIN up : x \in DOMAIN up' /\ up'[x] = up[x]
      /\ \A x \in DOMAIN up' : x \in DOMAIN up \/ (x = Len(up) + 1 /\ up'[x] = m)
  <2> HIDE DEF m
  <2> QED BY <1>1, <1>2, <1>7, AppendFacts DEF Types
<1>9. /\ DOMAIN registered' = DOMAIN registered \cup {k} /\ registered'[k] = r
      /\ \A l \in DOMAIN registered : registered'[l] = registered[l]
  <2> HIDE DEF r
  <2> QED BY <1>2, <1>6 DEF With
<1>10. /\ receivers' \in Seq(Receiver) /\ DOMAIN receivers' = DOMAIN receivers
       /\ \A i \in DOMAIN receivers :
            /\ receivers'[i].topic = receivers[i].topic /\ receivers'[i].open = receivers[i].open
            /\ receivers'[i].buf = receivers[i].buf /\ receivers'[i].got = receivers[i].got
            /\ receivers'[i].from = receivers[i].from
            /\ r.kind = "new" /\ i = r.of => receivers'[i].call = k
            /\ ~(r.kind = "new" /\ i = r.of) => receivers'[i] = receivers[i]
  <2>1. CASE r.kind = "new"
    <3>1. receivers[r.of] \in Receiver
      BY <1>1, <1>4, <2>1 DEF Types
    <3>2. /\ v \in Receiver /\ v.call = k /\ v.topic = receivers[r.of].topic /\ v.open = receivers[r.of].open
          /\ v.buf = receivers[r.of].buf /\ v.got = receivers[r.of].got /\ v.from = receivers[r.of].from
      <4> HIDE DEF r
      <4> QED BY <1>5, <3>1 DEF Receiver
    <3> HIDE DEF v, r
    <3>3. receivers' = [receivers EXCEPT ![r.of] = v]
      BY <1>2, <2>1
    <3>4. /\ receivers' \in Seq(Receiver) /\ DOMAIN receivers' = DOMAIN receivers /\ receivers'[r.of] = v
          /\ \A j \in DOMAIN receivers : j # r.of => receivers'[j] = receivers[j]
      BY <1>1, <1>4, <2>1, <3>2, <3>3, UpdateFacts DEF Types
    <3>5. r.of \in DOMAIN receivers
      BY <1>4, <2>1
    <3> QED BY <2>1, <3>2, <3>4, <3>5
  <2>2. CASE r.kind # "new"
    BY <1>1, <1>2, <2>2 DEF Types
  <2> QED BY <2>1, <2>2
<1> HIDE DEF m, v, r
<1>11. \A i \in DOMAIN receivers : \/ receivers'[i].call = receivers[i].call
                                   \/ receivers[i].call = 0 /\ receivers'[i].call = k
  BY <1>4, <1>10
<1>12. Stays
  BY <1>0, <1>10, <1>11 DEF Stays
<1>13. \A l \in 1 .. calls : /\ OfReceiver(l)' <=> OfReceiver(l)
                             /\ \A c \in Chats : OfChat(l, c)' <=> OfChat(l, c)
  BY <1>1, <1>12, LinksStay
<1>14. /\ \A i \in DOMAIN receivers : receivers[i].call \in Nat
       /\ \A i \in DOMAIN receivers : receivers[i].call # k
       /\ \A l \in DOMAIN registered : l \in 1 .. calls /\ l # k
       /\ \A x \in DOMAIN up : up[x].call \in 1 .. calls
       /\ \A x \in DOMAIN down : down[x].call \in 1 .. calls
  <2>1. \A i \in DOMAIN receivers : receivers[i] \in Receiver
    BY <1>1 DEF Types
  <2> QED BY <1>1, <1>6, <2>1 DEF Numbers, OfReceiver, Receiver
<1>15. Types'
  BY <1>1, <1>2, <1>3, <1>5, <1>8, <1>9, <1>10 DEF Types
<1>16. Numbers'
  <2>1. \A i \in DOMAIN receivers' : receivers'[i].call <= k
    BY <1>0, <1>1, <1>5, <1>10, <1>11, <1>14 DEF Numbers
  <2>2. \A i \in DOMAIN receivers' :
            receivers'[i].call = 0 => receivers'[i].buf = <<>> /\ receivers'[i].got = <<>>
    BY <1>1, <1>5, <1>10, <1>11 DEF Numbers
  <2>3. \A i, j \in DOMAIN receivers' :
            receivers'[i].call = receivers'[j].call /\ receivers'[i].call # 0 => i = j
    <3> QED BY <1>1, <1>10, <1>14 DEF Numbers
  <2>4. \A l \in 1 .. calls : l \in 1 .. k
    BY <1>0, <1>5
  <2>5. k \in 1 .. k
    BY <1>5
  <2>6. \A x \in DOMAIN up' : up'[x].call \in 1 .. k
    BY <1>7, <1>8, <1>14, <2>4, <2>5
  <2>7. \A x, y \in DOMAIN up' : up'[x].call = up'[y].call => x = y
    <3> QED BY <1>1, <1>6, <1>7, <1>8 DEF Numbers
  <2> QED BY <1>2, <1>9, <1>14, <2>1, <2>2, <2>3, <2>4, <2>5, <2>6, <2>7 DEF Numbers
<1>17. ToWrite'
  <2> SUFFICES ASSUME NEW x \in DOMAIN outbox', NEW y \in DOMAIN outbox'
               PROVE  /\ outbox'[x].kind \in {"new", "ask"}
                      /\ outbox'[x].kind = "ask" => outbox'[x].of \in DOMAIN asks
                      /\ outbox'[x].kind = "new" =>
                           /\ outbox'[x].of \in DOMAIN receivers'
                           /\ receivers'[outbox'[x].of].call = 0
                           /\ receivers'[outbox'[x].of].topic = outbox'[x].topic
                           /\ outbox'[y].kind = "new" /\ outbox'[y].of = outbox'[x].of => x = y
    BY <1>2 DEF ToWrite
  <2>1. /\ x + 1 \in DOMAIN outbox /\ x + 1 # 1 /\ outbox'[x] = outbox[x + 1] /\ x \in Int
        /\ y + 1 \in DOMAIN outbox /\ y + 1 # 1 /\ outbox'[y] = outbox[y + 1] /\ y \in Int
    BY <1>3
  <2>2. x + 1 = y + 1 => x = y
    BY <2>1
  <2>3. outbox'[x].kind = "new" /\ r.kind = "new" => outbox'[x].of # r.of
    BY <1>4, <2>1
  <2>4. outbox'[x].kind = "new" => /\ outbox'[x].of \in DOMAIN receivers
                                   /\ receivers[outbox'[x].of].call = 0
                                   /\ receivers[outbox'[x].of].topic = outbox'[x].topic
    BY <1>1, <2>1 DEF ToWrite
  <2>5. outbox'[x].kind = "new" /\ outbox'[y].kind = "new" /\ outbox'[y].of = outbox'[x].of => x = y
    BY <1>1, <2>1, <2>2 DEF ToWrite
  <2>6. /\ outbox'[x].kind \in {"new", "ask"}
        /\ outbox'[x].kind = "ask" => outbox'[x].of \in DOMAIN asks
    BY <1>1, <2>1 DEF ToWrite
  <2> QED BY <1>10, <2>3, <2>4, <2>5, <2>6
<1>18. Registered'
  <2>1. ASSUME NEW l \in DOMAIN registered
        PROVE  /\ registered[l].kind = "ask" => registered[l].of \in DOMAIN asks /\ ~OfReceiver(l)'
               /\ registered[l].kind # "ask" =>
                    /\ registered[l].of \in DOMAIN receivers' /\ receivers'[registered[l].of].call = l
                    /\ receivers'[registered[l].of].topic = registered[l].topic
    <3>1. l \in 1 .. calls /\ l # 0
      BY <1>14
    <3>2. registered[l].kind # "ask" =>
            /\ registered[l].of \in DOMAIN receivers /\ receivers[registered[l].of].call = l
            /\ receivers[registered[l].of].topic = registered[l].topic
      BY <1>1 DEF Registered
    <3> QED BY <1>1, <1>4, <1>10, <1>13, <3>1, <3>2 DEF Registered
  <2>2. r.kind = "ask" => ~OfReceiver(k)'
    <3> QED BY <1>10, <1>14 DEF OfReceiver
  <2> QED BY <1>2, <1>4, <1>9, <1>10, <2>1, <2>2 DEF Registered
<1>19. \A l : Unheard(l)' <=> Unheard(l)
  BY <1>2 DEF Unheard
<1>20. Unheard(k)
  <2> QED BY <1>2, <1>6 DEF Unheard
<1>21. r.kind = "new" => receivers[r.of].buf = <<>> /\ receivers[r.of].got = <<>>
  BY <1>1, <1>4 DEF Numbers
<1>22. ToServe'
  <2> DEFINE Good(s) ==
        /\ s.prefix = "new" =>
             /\ s.of \in DOMAIN receivers' /\ receivers'[s.of].call = s.call
             /\ receivers'[s.of].topic = s.topic
             /\ receivers'[s.of].buf = <<>> /\ receivers'[s.of].got = <<>>
             /\ Unheard(s.call)
             /\ s.call \in DOMAIN registered' /\ registered'[s.call].kind = "new"
        /\ s.prefix # "new" => \A i \in DOMAIN receivers' : receivers'[i].call # s.call
        /\ s.call \in DOMAIN registered' => registered'[s.call].of = s.of
  <2>1. Good(m)
    <3>1. r.kind # "new" => \A i \in DOMAIN receivers' : receivers'[i].call # k
      BY <1>10, <1>14
    <3> QED BY <1>4, <1>7, <1>9, <1>10, <1>20, <1>21, <3>1
  <2>2. ASSUME NEW x \in DOMAIN up
        PROVE  Good(up[x])
    <3>1. up[x].call \in 1 .. calls /\ up[x].call # 0 /\ up[x].call # k
      BY <1>6, <1>14
    <3>2. up[x].prefix = "new" =>
             /\ up[x].of \in DOMAIN receivers /\ receivers[up[x].of].call = up[x].call
             /\ receivers[up[x].of].topic = up[x].topic
             /\ receivers[up[x].of].buf = <<>> /\ receivers[up[x].of].got = <<>>
             /\ Unheard(up[x].call)
             /\ up[x].call \in DOMAIN registered /\ registered[up[x].call].kind = "new"
      BY <1>1, <1>2 DEF ToServe
    <3>3. up[x].prefix # "new" => \A i \in DOMAIN receivers' : receivers'[i].call # up[x].call
      <4>1. up[x].prefix # "new" => ~OfReceiver(up[x].call)
        BY <1>1 DEF ToServe
      <4>2. PICK l : l = up[x].call
        OBVIOUS
      <4> QED BY <1>13, <3>1, <4>1, <4>2 DEF OfReceiver
    <3>4. up[x].call \in DOMAIN registered' => registered'[up[x].call].of = up[x].of
      BY <1>1, <1>9, <3>1 DEF ToServe
    <3>5. up[x].prefix = "new" => receivers'[up[x].of] = receivers[up[x].of]
      BY <1>4, <1>10, <3>1, <3>2
    <3> QED BY <1>9, <1>10, <3>2, <3>3, <3>4, <3>5
  <2>3. \A x \in DOMAIN up' : Good(up'[x])
    <3> HIDE DEF Good
    <3> QED BY <1>8, <2>1, <2>2
  <2> QED BY <1>2, <1>19, <2>3 DEF ToServe, OfReceiver
<1>23. Pushed'
  <2>1. \A l \in DOMAIN registered' \cap 1 .. calls : l \in DOMAIN registered /\ registered'[l] = registered[l]
    <3>1. k \notin 1 .. calls
      BY <1>5
    <3> QED BY <1>9, <3>1
  <2> QED BY <1>2, <1>12, <2>1, PushedStays
<1>24. Holding'
  BY <1>2 DEF Holding
<1>25. Linked'
  <2> SUFFICES ASSUME NEW i \in DOMAIN receivers', receivers'[i].open, receivers'[i].call # 0
               PROVE  Silent(i)' \/ Known(i)'
    BY <1>2 DEF Linked
  <2>1. CASE receivers'[i] = receivers[i]
    <3>1. Silent(i) \/ Known(i)
      BY <1>1, <1>2, <1>10, <2>1 DEF Linked
    <3>2. Silent(i) => Silent(i)'
      BY <1>2, <2>1 DEF Silent
    <3>3. Known(i) => Known(i)'
      BY <1>2, <1>9, <2>1 DEF Known, Granted
    <3> QED BY <3>1, <3>2, <3>3
  <2>2. CASE r.kind = "new" /\ i = r.of
    BY <1>2, <1>6, <1>10, <1>20, <1>21, <2>2 DEF Silent, Unheard
  <2> QED BY <1>10, <2>1, <2>2
<1>26. Answers'
  <2> SUFFICES ASSUME NEW n \in DOMAIN asks, asks[n].st = "waiting", run_client = "live"
               PROVE  UnderWay(n)'
    BY <1>1, <1>2 DEF Answers
  <2>1. UnderWay(n)
    BY <1>1, <1>2 DEF Answers
  <2>2. ASSUME NEW x \in DOMAIN outbox, outbox[x].kind = "ask", outbox[x].of = n
        PROVE  UnderWay(n)'
    <3>1. CASE x = 1
      BY <1>3, <1>7, <1>8, <1>9, <2>2, <3>1 DEF UnderWay
    <3>2. CASE x # 1
      BY <1>3, <2>2, <3>2 DEF UnderWay
    <3> QED BY <3>1, <3>2
  <2>3. ASSUME NEW l \in DOMAIN registered, registered[l].kind = "ask", registered[l].of = n,
               \/ \E x \in DOMAIN up : up[x].prefix = "ask" /\ up[x].call = l
               \/ \E x \in DOMAIN down : down[x].call = l
        PROVE  UnderWay(n)'
    BY <1>2, <1>8, <1>9, <2>3 DEF UnderWay
  <2> QED BY <2>1, <2>2, <2>3 DEF UnderWay
<1>27. Subscriptions'
  <2> SUFFICES ASSUME NEW c \in Chats, chat_subs[c] # 0, run_client = "live"
               PROVE  Subscribed(c)'
    BY <1>2 DEF Subscriptions
  <2>1. Subscribed(c)
    BY <1>1, <1>2 DEF Subscriptions
  <2> QED BY <1>2, <1>8, <1>9, <2>1 DEF Subscribed, Granted
<1>28. Sequenced'
  <2> SUFFICES ASSUME NEW i \in DOMAIN receivers', receivers'[i].open, receivers'[i].call # 0
               PROVE  Follow(EventsFor(receivers[i])', receivers'[i]) /\ Complete(i)'
    BY DEF Sequenced
  <2>1. CASE receivers'[i] = receivers[i]
    <3>1. EventsFor(receivers[i])' = EventsFor(receivers[i])
      BY <1>2, <2>1 DEF EventsFor, Coming
    <3> QED BY <1>1, <1>2, <1>10, <2>1, <3>1, SequencedStays
  <2>2. CASE r.kind = "new" /\ i = r.of
    <3>1. receivers'[i].call = k /\ receivers'[i].buf = <<>> /\ receivers'[i].got = <<>>
          /\ receivers'[i].topic \in Chats
      BY <1>4, <1>10, <1>21, <2>2
    <3>2. EventsOf(held, k) = <<>> /\ EventsOf(down, k) = <<>> /\ EventsOf(events, k) = <<>>
      <4>1. held \in Seq(Message) /\ down \in Seq(Message) /\ events \in Seq(Message)
        BY <1>1 DEF Types
      <4>2. /\ \A x \in DOMAIN held : ~IsEvent(held[x], k)
            /\ \A x \in DOMAIN down : ~IsEvent(down[x], k)
            /\ \A x \in DOMAIN events : ~IsEvent(events[x], k)
        BY <1>20 DEF Unheard, IsEvent
      <4> QED BY <4>1, <4>2, EventsNone
    <3>3. <<>> \o <<>> = <<>>
      OBVIOUS
    <3>4. EventsFor(receivers[i])' = <<>>
      BY <1>2, <3>1, <3>2, <3>3 DEF EventsFor, Coming
    <3>5. chat_subs'[receivers'[i].topic] # receivers'[i].call
      BY <1>2, <1>6, <3>1
    <3> QED BY <3>4, <3>5 DEF Follow, Complete
  <2> QED BY <1>10, <2>1, <2>2
<1> QED BY <1>15, <1>16, <1>17, <1>18, <1>22, <1>23, <1>24, <1>25, <1>26, <1>27, <1>28 DEF CallsInv

\* A call that is not in registered' is cancelled at the server, too.
LEMMA UnsubscribeStep ==
    ASSUME CallsInv, Unsubscribe
    PROVE  CallsInv'
<1>0. PICK k \in Nat : k = calls + 1
  BY DEF CallsInv, Types
<1>1. /\ Types /\ Numbers /\ ToWrite /\ Registered /\ ToServe /\ Pushed /\ Holding
      /\ Linked /\ Answers /\ Subscriptions /\ Sequenced
  BY DEF CallsInv
<1>2. PICK m \in Message, i \in DOMAIN receivers :
        /\ held # <<>> /\ m = held[1] /\ 1 \in DOMAIN held /\ m.call \in DOMAIN registered
        /\ registered[m.call].kind = "sub" /\ registered[m.call].topic = m.topic
        /\ i = registered[m.call].of /\ receivers[i].call = m.call /\ ~receivers[i].open
        /\ m.call # 0
  <2>1. held # <<>> /\ ~receivers[registered[held[1].call].of].open
    BY DEF Unsubscribe
  <2>2. /\ held[1] \in Message /\ 1 \in DOMAIN held /\ held[1].call \in DOMAIN registered
        /\ registered[held[1].call].kind = "sub" /\ registered[held[1].call].topic = held[1].topic
    BY <1>1, <2>1 DEF Types, Holding
  <2> QED BY <1>1, <2>1, <2>2 DEF Registered, Numbers
<1> DEFINE u == [prefix |-> "unsubscribe", call |-> k, topic |-> m.topic, of |-> 0]
<1>3. /\ task = "running" /\ held' = <<>> /\ registered' = Without(registered, m.call)
      /\ up' = Append(up, u) /\ calls' = k
      /\ UNCHANGED <<receivers, asks, outbox, task, down, run_client, events, chat_subs, posted>>
  BY <1>0, <1>2 DEF Unsubscribe, server_side
<1>4. u \in Sent /\ u.prefix = "unsubscribe" /\ u.call = k /\ u.topic = m.topic
  BY DEF Message, Sent
<1>5. /\ up' \in Seq(Sent) /\ Len(up) + 1 \in DOMAIN up' /\ up'[Len(up) + 1] = u
      /\ \A x \in DOMAIN up : x \in DOMAIN up' /\ up'[x] = up[x]
      /\ \A x \in DOMAIN up' : x \in DOMAIN up \/ (x = Len(up) + 1 /\ up'[x] = u)
  <2> HIDE DEF u
  <2> QED BY <1>1, <1>3, <1>4, AppendFacts DEF Types
<1>6. /\ DOMAIN registered' = DOMAIN registered \ {m.call}
      /\ \A l \in DOMAIN registered' : registered'[l] = registered[l]
  BY <1>3 DEF Without
<1>7. /\ k \notin DOMAIN registered /\ ~OfReceiver(k) /\ \A x \in DOMAIN up : up[x].call # k
      /\ k > calls /\ k # 0 /\ calls \in Nat
  <2>1. k > calls /\ calls \in Nat
    BY <1>0, <1>1 DEF Types
  <2> QED BY <2>1, CallsFresh
<1> HIDE DEF u
<1>8. Types'
  BY <1>1, <1>3, <1>5, <1>6 DEF Types
<1>9. Numbers'
  <2>1. \A l \in 1 .. calls : l \in 1 .. k
    BY <1>0, <1>7
  <2>2. \A j \in DOMAIN receivers : receivers[j].call <= k
    <3>1. \A j \in DOMAIN receivers : receivers[j] \in Receiver
      BY <1>1 DEF Types
    <3>2. \A j \in DOMAIN receivers : receivers[j].call \in Nat /\ receivers[j].call <= calls
      BY <1>1, <3>1 DEF Numbers, Receiver
    <3> QED BY <1>0, <1>7, <3>2
  <2>3. \A x \in DOMAIN up' : up'[x].call \in 1 .. k
    BY <1>1, <1>4, <1>5, <1>7, <2>1 DEF Numbers
  <2>4. \A x, y \in DOMAIN up' : up'[x].call = up'[y].call => x = y
    BY <1>1, <1>4, <1>5, <1>7 DEF Numbers
  <2>5. \A l \in DOMAIN registered' : l \in 1 .. k
    BY <1>1, <1>6, <2>1 DEF Numbers
  <2>6. \A x \in DOMAIN down : down[x].call \in 1 .. k
    BY <1>1, <2>1 DEF Numbers
  <2>7. \A j, l \in DOMAIN receivers : receivers[j].call = receivers[l].call /\ receivers[j].call # 0 => j = l
    BY <1>1 DEF Numbers
  <2>8. \A j \in DOMAIN receivers : receivers[j].call = 0 => receivers[j].buf = <<>> /\ receivers[j].got = <<>>
    BY <1>1 DEF Numbers
  <2> QED BY <1>3, <2>2, <2>3, <2>4, <2>5, <2>6, <2>7, <2>8 DEF Numbers
<1>10. ToWrite'
  BY <1>1, <1>3 DEF ToWrite
<1>11. Registered'
  BY <1>1, <1>3, <1>6 DEF Registered, OfReceiver
<1>12. ToServe'
  <2>1. \A l : Unheard(l) => Unheard(l)'
    BY <1>3 DEF Unheard
  <2>2. \A x \in DOMAIN up : up[x].prefix = "new" => up[x].call \in DOMAIN registered'
    BY <1>1, <1>2, <1>3, <1>6 DEF ToServe
  <2>3. k \notin DOMAIN registered' /\ \A j \in DOMAIN receivers' : receivers'[j].call # k
    BY <1>3, <1>6, <1>7 DEF OfReceiver
  <2>4. ASSUME NEW x \in DOMAIN up'
        PROVE  /\ up'[x].prefix = "new" =>
                    /\ up'[x].of \in DOMAIN receivers' /\ receivers'[up'[x].of].call = up'[x].call
                    /\ receivers'[up'[x].of].topic = up'[x].topic
                    /\ receivers'[up'[x].of].buf = <<>> /\ receivers'[up'[x].of].got = <<>>
                    /\ Unheard(up'[x].call)
                    /\ up'[x].call \in DOMAIN registered' /\ registered'[up'[x].call].kind = "new"
               /\ up'[x].prefix # "new" => \A j \in DOMAIN receivers' : receivers'[j].call # up'[x].call
               /\ up'[x].call \in DOMAIN registered' => registered'[up'[x].call].of = up'[x].of
    <3>1. CASE x \in DOMAIN up
      <4>1. /\ up[x].prefix = "new" =>
                 /\ up[x].of \in DOMAIN receivers /\ receivers[up[x].of].call = up[x].call
                 /\ receivers[up[x].of].topic = up[x].topic
                 /\ receivers[up[x].of].buf = <<>> /\ receivers[up[x].of].got = <<>>
                 /\ Unheard(up[x].call) /\ registered[up[x].call].kind = "new"
            /\ up[x].prefix # "new" => \A j \in DOMAIN receivers : receivers[j].call # up[x].call
            /\ up[x].call \in DOMAIN registered => registered[up[x].call].of = up[x].of
        BY <1>1, <1>3, <3>1 DEF ToServe, OfReceiver
      <4> QED BY <1>3, <1>5, <1>6, <2>2, <3>1, <4>1
    <3>2. CASE x \notin DOMAIN up
      BY <1>4, <1>5, <2>3, <3>2
    <3> QED BY <3>1, <3>2
  <2> QED BY <1>3, <2>1, <2>4 DEF ToServe, OfReceiver
<1>13. Pushed'
  <2>1. Stays
    BY <1>3 DEF Stays
  <2>2. \A l \in DOMAIN registered' \cap 1 .. calls : l \in DOMAIN registered /\ registered'[l] = registered[l]
    BY <1>6
  <2> QED BY <1>3, <2>1, <2>2, PushedStays
<1>14. Holding'
  BY <1>3 DEF Holding
<1>15. \A j \in DOMAIN receivers : receivers[j].open => receivers[j].call # m.call
  BY <1>1, <1>2 DEF Numbers
<1>16. Linked'
  <2> SUFFICES ASSUME NEW j \in DOMAIN receivers, receivers[j].open, receivers[j].call # 0
               PROVE  Silent(j)' \/ Known(j)'
    BY <1>3 DEF Linked
  <2>1. Silent(j) \/ Known(j)
    BY <1>1, <1>3 DEF Linked
  <2>2. Silent(j) => Silent(j)'
    BY <1>3 DEF Silent
  <2>3. Known(j) => Known(j)'
    BY <1>3, <1>6, <1>15 DEF Known, Granted
  <2> QED BY <2>1, <2>2, <2>3
<1>17. Answers'
  <2> SUFFICES ASSUME NEW n \in DOMAIN asks, asks[n].st = "waiting", run_client = "live"
               PROVE  UnderWay(n)'
    BY <1>1, <1>3 DEF Answers
  <2>1. UnderWay(n)
    BY <1>1, <1>3 DEF Answers
  <2>2. ASSUME NEW l \in DOMAIN registered, registered[l].kind = "ask", registered[l].of = n,
               \/ \E x \in DOMAIN up : up[x].prefix = "ask" /\ up[x].call = l
               \/ \E x \in DOMAIN down : down[x].call = l
        PROVE  UnderWay(n)'
    <3>1. l \in DOMAIN registered' /\ registered'[l] = registered[l]
      BY <1>2, <1>6, <2>2
    <3> QED BY <1>3, <1>5, <2>2, <3>1 DEF UnderWay
  <2> QED BY <1>3, <2>1, <2>2 DEF UnderWay
<1>18. Subscriptions'
  <2> SUFFICES ASSUME NEW c \in Chats, chat_subs[c] # 0, run_client = "live"
               PROVE  Subscribed(c)'
    BY <1>3 DEF Subscriptions
  <2>1. Subscribed(c)
    BY <1>1, <1>3 DEF Subscriptions
  <2>2. CASE chat_subs[c] = m.call /\ registered[m.call].topic = c
    BY <1>2, <1>4, <1>5, <2>2 DEF Subscribed
  <2>3. CASE \E x \in DOMAIN up : up[x].prefix = "unsubscribe" /\ up[x].topic = c
    BY <1>5, <2>3 DEF Subscribed
  <2>4. CASE chat_subs[c] # m.call
    BY <1>3, <1>5, <1>6, <2>1, <2>4 DEF Subscribed, Granted
  <2> QED BY <2>1, <2>2, <2>3, <2>4 DEF Subscribed
<1>19. Sequenced'
  <2> SUFFICES ASSUME NEW j \in DOMAIN receivers', receivers'[j].open, receivers'[j].call # 0
               PROVE  Follow(EventsFor(receivers[j])', receivers'[j]) /\ Complete(j)'
    BY DEF Sequenced
  <2>1. m.call # receivers[j].call
    BY <1>3, <1>15
  <2> DEFINE l == receivers[j].call
  <2>2. Coming(l) = EventsOf(down, l) \o EventsOf(events, l)
    BY <1>1, <1>2, <2>1, HeldFirst
  <2>3. Coming(l)' = EventsOf(down, l) \o EventsOf(events, l)
    <3>1. EventsOf(held', l) = <<>> /\ EventsOf(down, l) \in Seq(Message)
      BY <1>1, <1>3, ComingType
    <3>2. <<>> \o EventsOf(down, l) = EventsOf(down, l)
      BY <3>1, ConcatOne
    <3> QED BY <1>3, <3>1, <3>2 DEF Coming
  <2>4. EventsFor(receivers[j])' = EventsFor(receivers[j])
    BY <1>3, <2>2, <2>3 DEF EventsFor
  <2> QED BY <1>1, <1>3, <2>4, SequencedStays
<1> QED BY <1>8, <1>9, <1>10, <1>11, <1>12, <1>13, <1>14, <1>16, <1>17, <1>18, <1>19 DEF CallsInv

\* The first events for a receiver follow each other when all do.
LEMMA FollowFirst ==
    ASSUME NEW s \in Seq(Message), NEW t \in Seq(Message), NEW r, Follow(s \o t, r)
    PROVE  Follow(s, r)
<1>1. /\ Len(s) \in Nat /\ Len(t) \in Nat /\ Len(s \o t) = Len(s) + Len(t) /\ s \o t \in Seq(Message)
      /\ \A j \in 1 .. Len(s) : (s \o t)[j] = s[j]
  BY ConcatFacts
<1> DEFINE u == s \o t
<1> HIDE DEF u
<1>2. DOMAIN s = 1 .. Len(s) /\ DOMAIN u = 1 .. Len(s) + Len(t)
  BY <1>1 DEF u
<1>3. \A j \in DOMAIN s : j \in DOMAIN u /\ u[j] = s[j]
  BY <1>1, <1>2 DEF u
<1>4. Follow(u, r)
  BY DEF u
<1> QED BY <1>3, <1>4 DEF Follow

LEMMA EndTaskStep ==
    ASSUME CallsInv, EndTask
    PROVE  CallsInv'
<1>1. /\ Types /\ Numbers /\ ToWrite /\ Registered /\ ToServe /\ Pushed /\ Holding
      /\ Linked /\ Answers /\ Subscriptions /\ Sequenced
  BY DEF CallsInv
<1>2. /\ task = "running" /\ task' = "ended"
      /\ asks' = [n \in DOMAIN asks |-> IF asks[n].st = "waiting"
                                        THEN [asks[n] EXCEPT !.st = "failed"] ELSE asks[n]]
      /\ outbox' = <<>> /\ held' = <<>> /\ DOMAIN registered' = {} /\ down' = <<>>
      /\ UNCHANGED <<receivers, calls, up, run_client, events, chat_subs, posted>>
  BY DEF EndTask, server_side
<1>3. asks' \in Seq(AskState) /\ DOMAIN asks' = DOMAIN asks
      /\ \A n \in DOMAIN asks : asks'[n].st = "done" => asks'[n] = asks[n]
  <2>1. \A n \in DOMAIN asks : asks[n] \in AskState /\ asks'[n] \in AskState
    <3>1. \A n \in DOMAIN asks : asks[n] \in AskState
      BY <1>1 DEF Types
    <3> QED BY <1>2, <3>1 DEF AskState
  <2>2. asks \in Seq(AskState)
    BY <1>1 DEF Types
  <2>3. Len(asks) \in Nat /\ DOMAIN asks = 1 .. Len(asks) /\ DOMAIN asks' = 1 .. Len(asks)
    BY <1>2, <2>2
  <2>4. asks' \in [1 .. Len(asks) -> AskState]
    BY <1>2, <2>1, <2>3
  <2>5. asks' \in Seq(AskState)
    BY <2>3, <2>4
  <2>6. \A n \in DOMAIN asks : asks'[n].st = "done" => asks'[n] = asks[n]
    <3> SUFFICES ASSUME NEW n \in DOMAIN asks, asks'[n].st = "done"
                 PROVE  asks'[n] = asks[n]
      OBVIOUS
    <3>1. asks[n] \in AskState
      BY <2>1
    <3>2. CASE asks[n].st = "waiting"
      <4>1. asks'[n] = [asks[n] EXCEPT !.st = "failed"]
        BY <1>2, <3>2
      <4>2. asks'[n].st = "failed"
        BY <3>1, <4>1 DEF AskState
      <4> QED BY <4>2
    <3> QED BY <1>2, <3>2
  <2> QED BY <2>3, <2>5, <2>6
<1>4. Types'
  BY <1>1, <1>2, <1>3 DEF Types
<1>5. Numbers' /\ ToWrite' /\ Registered' /\ Holding' /\ Linked' /\ Subscriptions'
  BY <1>1, <1>2 DEF Numbers, ToWrite, Registered, Holding, Linked, Subscriptions
<1>6. ToServe'
  BY <1>1, <1>2 DEF ToServe, Unheard, OfReceiver
<1>7. Pushed'
  BY <1>1, <1>2 DEF Pushed, OfChat
<1>8. Answers'
  BY <1>1, <1>2, <1>3 DEF Answers
<1>9. Sequenced'
  <2> SUFFICES ASSUME NEW j \in DOMAIN receivers', receivers'[j].open, receivers'[j].call # 0
               PROVE  Follow(EventsFor(receivers[j])', receivers'[j])
    BY <1>2 DEF Sequenced, Complete
  <2> DEFINE g == receivers[j].got
             b == receivers[j].buf
             c == Coming(receivers[j].call)
  <2>1. g \in Seq(Message) /\ b \in Seq(Message) /\ c \in Seq(Message)
    <3>1. receivers[j] \in Receiver
      BY <1>1, <1>2 DEF Types
    <3> QED BY <1>1, <3>1, ComingType DEF Receiver
  <2>2. EventsFor(receivers[j])' = g \o b \o <<>>
    BY <1>2 DEF EventsFor
  <2>3. EventsFor(receivers[j]) = g \o b \o c
    BY <1>2 DEF EventsFor
  <2>4. Follow(g \o b \o c, receivers[j])
    BY <1>1, <1>2, <2>3 DEF Sequenced
  <2> HIDE DEF g, b, c
  <2>5. g \o b \in Seq(Message)
    BY <2>1, ConcatFacts
  <2>6. (g \o b) \o <<>> = g \o b
    BY <2>5, ConcatOne
  <2>7. Follow(g \o b, receivers[j])
    BY <2>1, <2>4, <2>5, FollowFirst
  <2> QED BY <1>2, <2>2, <2>6, <2>7 DEF Follow
<1> QED BY <1>4, <1>5, <1>6, <1>7, <1>8, <1>9 DEF CallsInv

LEMMA EndSessionStep ==
    ASSUME CallsInv, EndSession
    PROVE  CallsInv'
<1>1. /\ Types /\ Numbers /\ ToWrite /\ Registered /\ ToServe /\ Pushed /\ Holding
      /\ Linked /\ Answers /\ Subscriptions /\ Sequenced
  BY DEF CallsInv
<1>2. /\ run_client' = "dead" /\ events' = <<>> /\ up' = <<>>
      /\ UNCHANGED <<receivers, asks, outbox, registered, held, calls, task, down, chat_subs, posted>>
  BY DEF EndSession, client_side
<1>3. Types' /\ Numbers' /\ ToWrite' /\ Holding' /\ Subscriptions' /\ ToServe'
  BY <1>1, <1>2 DEF Types, Numbers, ToWrite, Holding, Subscriptions, ToServe
<1>4. Registered' /\ Pushed'
  BY <1>1, <1>2 DEF Registered, OfReceiver, Pushed, OfChat
<1>5. Linked'
  BY <1>1, <1>2 DEF Linked, Silent, Known, Granted
<1>6. Answers'
  BY <1>1, <1>2 DEF Answers
<1>7. Sequenced'
  <2> SUFFICES ASSUME NEW j \in DOMAIN receivers', receivers'[j].open, receivers'[j].call # 0
               PROVE  Follow(EventsFor(receivers[j])', receivers'[j])
    BY <1>2 DEF Sequenced, Complete
  <2>0. Follow(EventsFor(receivers[j]), receivers[j])
    BY <1>1, <1>2 DEF Sequenced
  <2>1. CASE task # "running"
    <3>1. EventsFor(receivers[j])' = EventsFor(receivers[j])
      BY <1>2, <2>1 DEF EventsFor
    <3> QED BY <1>2, <2>0, <3>1 DEF Follow
  <2>2. CASE task = "running"
    <3> DEFINE k == receivers[j].call
               g == receivers[j].got \o receivers[j].buf
               d == EventsOf(held, k) \o EventsOf(down, k)
               e == EventsOf(events, k)
    <3>1. receivers[j].got \in Seq(Message) /\ receivers[j].buf \in Seq(Message)
      <4>1. receivers[j] \in Receiver
        BY <1>1, <1>2 DEF Types
      <4> QED BY <4>1 DEF Receiver
    <3>2. /\ EventsOf(held, k) \in Seq(Message) /\ EventsOf(down, k) \in Seq(Message)
          /\ e \in Seq(Message) /\ EventsOf(<<>>, k) = <<>>
      BY <1>1, ComingType
    <3>3. g \in Seq(Message) /\ d \in Seq(Message)
      BY <3>1, <3>2, ConcatFacts
    <3>4. EventsFor(receivers[j]) = g \o (d \o e)
      BY <2>2 DEF EventsFor, Coming
    <3>5. EventsFor(receivers[j])' = g \o (d \o <<>>)
      BY <1>2, <2>2, <3>2 DEF EventsFor, Coming
    <3> HIDE DEF g, d, e
    <3>6. (g \o d) \o e = g \o (d \o e)
      BY <3>2, <3>3, ConcatAssociates DEF Associates
    <3>7. d \o <<>> = d /\ g \o d \in Seq(Message)
      BY <3>3, ConcatOne, ConcatFacts
    <3>8. Follow((g \o d) \o e, receivers[j])
      BY <2>0, <3>4, <3>6
    <3>9. Follow(g \o d, receivers[j])
      BY <3>2, <3>7, <3>8, FollowFirst
    <3> QED BY <1>2, <3>5, <3>7, <3>9 DEF Follow
  <2> QED BY <2>1, <2>2
<1> QED BY <1>3, <1>4, <1>5, <1>6, <1>7 DEF CallsInv

LEMMA RemoveClientStep ==
    ASSUME CallsInv, RemoveClient
    PROVE  CallsInv'
<1>1. /\ Types /\ Numbers /\ ToWrite /\ Registered /\ ToServe /\ Pushed /\ Holding
      /\ Linked /\ Answers /\ Subscriptions /\ Sequenced
  BY DEF CallsInv
<1>2. /\ run_client = "dead" /\ run_client' = "gone"
      /\ UNCHANGED <<receivers, asks, outbox, registered, held, calls, task, up, down, events,
                     chat_subs, posted>>
  BY DEF RemoveClient, client_side
<1>3. Types' /\ Numbers' /\ ToWrite' /\ Holding' /\ Subscriptions'
  BY <1>1, <1>2 DEF Types, Numbers, ToWrite, Holding, Subscriptions
<1>4. Registered' /\ Pushed' /\ ToServe'
  BY <1>1, <1>2 DEF Registered, OfReceiver, Pushed, OfChat, ToServe, Unheard
<1>5. Linked'
  BY <1>1, <1>2 DEF Linked, Silent, Known, Granted
<1>6. Answers'
  BY <1>1, <1>2 DEF Answers
<1>7. Sequenced'
  <2> SUFFICES ASSUME NEW j \in DOMAIN receivers', receivers'[j].open, receivers'[j].call # 0
               PROVE  Follow(EventsFor(receivers[j])', receivers'[j])
    BY <1>2 DEF Sequenced, Complete
  <2>1. EventsFor(receivers[j])' = EventsFor(receivers[j])
    BY <1>2 DEF EventsFor, Coming
  <2> QED BY <1>1, <1>2, <2>1 DEF Sequenced, Follow
<1> QED BY <1>3, <1>4, <1>5, <1>6, <1>7 DEF CallsInv

-----------------------------------------------------------------------------
\* What is granted stays so when an answer follows, and when the first of another call
\* is taken; the first answer of the call itself grants it.
LEMMA GrantedStays ==
    ASSUME Types, NEW k, Granted(k)
    PROVE  /\ \A m \in Message : down' = Append(down, m) => Granted(k)'
           /\ down' = Tail(down) /\ Head(down).call # k => Granted(k)'
           /\ Head(down).call = k => Head(down).body = "ok"
<1>1. PICK y \in DOMAIN down : /\ down[y].call = k /\ down[y].body = "ok"
                               /\ \A x \in 1 .. y - 1 : down[x].call # k
  BY DEF Granted
<1>2. down \in Seq(Message) /\ down # <<>> /\ y \in Nat /\ DOMAIN down = 1 .. Len(down) /\ Len(down) \in Nat
      /\ 1 <= y /\ y <= Len(down)
  BY <1>1 DEF Types
<1>3. ASSUME NEW m \in Message, down' = Append(down, m)
      PROVE  Granted(k)'
  <2>1. \A x \in DOMAIN down : x \in DOMAIN down' /\ down'[x] = down[x]
    BY <1>2, <1>3, AppendFacts
  <2>2. \A x \in 1 .. y - 1 : x \in DOMAIN down
    BY <1>2
  <2> QED BY <1>1, <2>1, <2>2 DEF Granted
<1>4. Head(down) = down[1]
  BY <1>2, TailFacts
<1>5. ASSUME down' = Tail(down), Head(down).call # k
      PROVE  Granted(k)'
  <2>1. y # 1
    BY <1>1, <1>4, <1>5
  <2>2. y - 1 \in DOMAIN down' /\ down'[y - 1] = down[y]
    BY <1>2, <1>5, <2>1, TailFacts
  <2>3. \A x \in DOMAIN down' : down'[x] = down[x + 1] /\ x + 1 \in DOMAIN down
    BY <1>2, <1>5, TailFacts
  <2>4. \A x \in 1 .. (y - 1) - 1 : x + 1 \in 1 .. y - 1 /\ x \in 1 .. Len(down) - 1
    BY <1>2
  <2>5. DOMAIN down' = 1 .. Len(down) - 1
    BY <1>2, <1>5
  <2>6. \A x \in 1 .. (y - 1) - 1 : down'[x].call # k
    BY <1>1, <2>3, <2>4, <2>5
  <2> QED BY <1>1, <2>2, <2>6 DEF Granted
<1>6. ASSUME Head(down).call = k
      PROVE  Head(down).body = "ok"
  <2>1. CASE y = 1
    BY <1>1, <1>4, <2>1
  <2>2. CASE y # 1
    <3>1. 1 \in 1 .. y - 1
      BY <1>2, <2>2
    <3> QED BY <1>1, <1>4, <1>6, <3>1
  <2> QED BY <2>1, <2>2
<1> QED BY <1>3, <1>5, <1>6

LEMMA ForwardEventStep ==
    ASSUME CallsInv, ForwardEvent
    PROVE  CallsInv'
<1> DEFINE m == Head(events)
<1>1. /\ Types /\ Numbers /\ ToWrite /\ Registered /\ ToServe /\ Pushed /\ Holding
      /\ Linked /\ Answers /\ Subscriptions /\ Sequenced
  BY DEF CallsInv
<1>2. /\ run_client = "live" /\ events # <<>> /\ down' = Append(down, m) /\ events' = Tail(events)
      /\ UNCHANGED <<receivers, asks, outbox, registered, held, calls, task, up, run_client,
                     chat_subs, posted>>
  BY DEF ForwardEvent, client_side
<1>3. /\ events' \in Seq(Message) /\ m \in Message /\ m = events[1] /\ 1 \in DOMAIN events
      /\ \A x \in DOMAIN events' : x + 1 \in DOMAIN events /\ events'[x] = events[x + 1]
  BY <1>1, <1>2, TailFacts DEF Types
<1>4. /\ m.body = "event" /\ m.call # 0 /\ m.call \in 1 .. calls /\ OfChat(m.call, m.topic)
  BY <1>1, <1>3, CallsGiven DEF Pushed
<1>5. \A k : (\A x \in DOMAIN events : events[x].call # k) => m.call # k
  BY <1>3
<1> HIDE DEF m
<1>6. /\ down' \in Seq(Message)
      /\ \A x \in DOMAIN down : x \in DOMAIN down' /\ down'[x] = down[x]
      /\ \A x \in DOMAIN down' : x \in DOMAIN down \/ down'[x] = m
  BY <1>1, <1>2, <1>3, AppendFacts DEF Types
<1>7. Types'
  BY <1>1, <1>2, <1>3, <1>6 DEF Types
<1>8. Numbers'
  <2>1. \A x \in DOMAIN down' : down'[x].call \in 1 .. calls
    BY <1>1, <1>4, <1>6 DEF Numbers
  <2> QED BY <1>1, <1>2, <2>1 DEF Numbers
<1>9. ToWrite' /\ Registered' /\ Holding'
  BY <1>1, <1>2 DEF ToWrite, Registered, OfReceiver, Holding
<1>10. \A k : Unheard(k) => Unheard(k)'
  BY <1>2, <1>3, <1>5, <1>6 DEF Unheard
<1>11. ToServe'
  BY <1>1, <1>2, <1>10 DEF ToServe, OfReceiver
<1>12. Pushed'
  <2>1. ~(m.call \in DOMAIN registered /\ registered[m.call].kind = "ask")
    BY <1>1, <1>4 DEF Registered, OfReceiver, OfChat
  <2>2. \A x \in DOMAIN down' :
          /\ down'[x].body = "event" => OfChat(down'[x].call, down'[x].topic)
          /\ down'[x].call \in DOMAIN registered /\ registered[down'[x].call].kind = "ask" =>
               down'[x].n = registered[down'[x].call].of
    BY <1>1, <1>4, <1>6, <2>1 DEF Pushed
  <2>3. \A x \in DOMAIN events' : /\ events'[x].body = "event" /\ events'[x].call # 0
                                  /\ OfChat(events'[x].call, events'[x].topic)
    BY <1>1, <1>3 DEF Pushed
  <2> QED BY <1>1, <1>2, <2>2, <2>3 DEF Pushed, OfChat
<1>13. \A k : Granted(k) => Granted(k)'
  BY <1>1, <1>2, <1>3, GrantedStays
<1>14. Linked'
  <2> SUFFICES ASSUME NEW i \in DOMAIN receivers, task = "running", receivers[i].open, receivers[i].call # 0
               PROVE  Silent(i)' \/ Known(i)'
    BY <1>2 DEF Linked
  <2>1. Silent(i) \/ Known(i)
    BY <1>1 DEF Linked
  <2>2. Silent(i) => Silent(i)'
    BY <1>2, <1>3, <1>5, <1>6 DEF Silent
  <2>3. Known(i) => Known(i)'
    <3>1. PICK k : k = receivers[i].call
      OBVIOUS
    <3>2. Granted(k) => Granted(k)'
      BY <1>13
    <3> QED BY <1>2, <3>1, <3>2 DEF Known, Granted
  <2> QED BY <2>1, <2>2, <2>3
<1>15. Answers'
  BY <1>1, <1>2, <1>6 DEF Answers, UnderWay
<1>16. Subscriptions'
  <2> SUFFICES ASSUME NEW c \in Chats, chat_subs[c] # 0, task = "running", run_client = "live"
               PROVE  Subscribed(c)'
    BY <1>2 DEF Subscriptions
  <2>1. Subscribed(c)
    BY <1>1 DEF Subscriptions
  <2>2. PICK k : k = chat_subs[c]
    OBVIOUS
  <2>3. Granted(k) => Granted(k)'
    BY <1>13
  <2> QED BY <1>2, <2>1, <2>2, <2>3 DEF Subscribed, Granted
<1>17. Sequenced'
  <2> SUFFICES ASSUME NEW i \in DOMAIN receivers', receivers'[i].open, receivers'[i].call # 0
               PROVE  Follow(EventsFor(receivers[i])', receivers'[i]) /\ Complete(i)'
    BY DEF Sequenced
  <2>1. PICK k : k = receivers[i].call
    OBVIOUS
  <2> DEFINE h == EventsOf(held, k)
             d == EventsOf(down, k)
             t == EventsOf(events', k)
  <2>2. h \in Seq(Message) /\ d \in Seq(Message) /\ t \in Seq(Message)
    BY <1>1, <1>3, ComingType, EventsType
  <2>3. EventsOf(down', k) = IF IsEvent(m, k) THEN Append(d, m) ELSE d
    BY <1>1, <1>2, <1>3, EventsAppend DEF Types
  <2>4. EventsOf(events, k) = IF IsEvent(m, k) THEN <<m>> \o t ELSE t
    BY <1>1, <1>2, EventsHead DEF Types, m
  <2>5. Coming(k) = h \o d \o EventsOf(events, k) /\ Coming(k)' = h \o EventsOf(down', k) \o t
    BY <1>2 DEF Coming
  <2>6. MovesOn(h, d, t, m)
    BY <1>3, <2>2, MovedOn
  <2> HIDE DEF h, d, t
  <2>7. Coming(k)' = Coming(k)
    BY <2>3, <2>4, <2>5, <2>6 DEF MovesOn
  <2>8. EventsFor(receivers[i])' = EventsFor(receivers[i])
    BY <1>2, <2>1, <2>7 DEF EventsFor, Coming
  <2> QED BY <1>1, <1>2, <2>8, SequencedStays
<1> QED BY <1>7, <1>8, <1>9, <1>11, <1>12, <1>14, <1>15, <1>16, <1>17 DEF CallsInv

LEMMA PushChatEventStep ==
    ASSUME CallsInv, NEW c \in Chats, PushChatEvent(c)
    PROVE  CallsInv'
<1> DEFINE m == Event(c, posted[c] + 1)
           fits == run_client = "live" /\ Len(events) < QueueCap
           pushed == chat_subs[c] # 0 /\ fits
<1>1. /\ Types /\ Numbers /\ ToWrite /\ Registered /\ ToServe /\ Pushed /\ Holding
      /\ Linked /\ Answers /\ Subscriptions /\ Sequenced
  BY DEF CallsInv
<1>2. /\ posted' = [posted EXCEPT ![c] = posted[c] + 1]
      /\ events' = IF pushed THEN Append(events, m) ELSE events
      /\ chat_subs' = IF fits THEN chat_subs ELSE [chat_subs EXCEPT ![c] = 0]
      /\ UNCHANGED <<receivers, asks, outbox, registered, held, calls, task, up, down, run_client>>
  BY DEF PushChatEvent, client_side
<1>3. chat_subs[c] \in Nat /\ posted[c] \in Nat /\ chat_subs \in [Chats -> Nat] /\ posted \in [Chats -> Nat]
  BY <1>1 DEF Types
<1>4. /\ m \in Message /\ m.body = "event" /\ m.call = chat_subs[c] /\ m.topic = c /\ m.n = posted[c] + 1
  BY <1>3 DEF Event, Message
<1> HIDE DEF m
<1>5. /\ pushed => events' = Append(events, m) /\ chat_subs' = chat_subs /\ run_client = "live"
                   /\ chat_subs[c] # 0
      /\ ~pushed => events' = events /\ (chat_subs'[c] = 0)
      /\ chat_subs' \in [Chats -> Nat] /\ posted' \in [Chats -> Nat] /\ posted'[c] = posted[c] + 1
      /\ \A e \in Chats : /\ chat_subs'[e] \in {chat_subs[e], 0}
                          /\ e # c => chat_subs'[e] = chat_subs[e] /\ posted'[e] = posted[e]
  BY <1>2, <1>3
<1> HIDE DEF fits, pushed
<1>6. /\ events' \in Seq(Message)
      /\ \A x \in DOMAIN events' : \/ x \in DOMAIN events /\ events'[x] = events[x]
                                   \/ pushed /\ events'[x] = m
  <2>1. CASE pushed
    <3>1. events \in Seq(Message) /\ events' = Append(events, m)
      BY <1>1, <1>5, <2>1 DEF Types
    <3>2. /\ events' \in Seq(Message)
          /\ \A x \in DOMAIN events : events'[x] = events[x]
          /\ \A x \in DOMAIN events' : x \in DOMAIN events \/ events'[x] = m
      BY <1>4, <3>1, AppendFacts
    <3> QED BY <2>1, <3>2
  <2>2. CASE ~pushed
    BY <1>1, <1>5, <2>2 DEF Types
  <2> QED BY <2>1, <2>2
<1>7. Types'
  BY <1>1, <1>2, <1>5, <1>6 DEF Types
<1>8. Numbers' /\ ToWrite' /\ Registered' /\ Holding'
  BY <1>1, <1>2 DEF Numbers, ToWrite, Registered, OfReceiver, Holding
<1>9. \A k : k # 0 /\ (\A e \in Chats : chat_subs[e] # k) /\ (\A x \in DOMAIN events : events[x].call # k)
             => (\A e \in Chats : chat_subs'[e] # k) /\ (\A x \in DOMAIN events' : events'[x].call # k)
  BY <1>4, <1>5, <1>6
<1>10. ToServe'
  <2>1. \A x \in DOMAIN up : up[x].call # 0
    BY <1>1 DEF Numbers, Types
  <2>2. \A k : k # 0 /\ Unheard(k) => Unheard(k)'
    BY <1>2, <1>9 DEF Unheard
  <2> QED BY <1>1, <1>2, <2>1, <2>2 DEF ToServe, OfReceiver
<1>11. Pushed'
  <2>1. \A e \in Chats : chat_subs'[e] # 0 => OfChat(chat_subs'[e], e)
    BY <1>1, <1>5 DEF Pushed
  <2>2. \A x \in DOMAIN events' : /\ events'[x].body = "event" /\ events'[x].call # 0
                                  /\ OfChat(events'[x].call, events'[x].topic)
    BY <1>1, <1>4, <1>5, <1>6 DEF Pushed
  <2> QED BY <1>1, <1>2, <2>1, <2>2 DEF Pushed, OfChat
<1>12. Linked'
  <2> SUFFICES ASSUME NEW i \in DOMAIN receivers, task = "running", receivers[i].open, receivers[i].call # 0
               PROVE  Silent(i)' \/ Known(i)'
    BY <1>2 DEF Linked
  <2>1. Silent(i) \/ Known(i)
    BY <1>1 DEF Linked
  <2>2. ASSUME Silent(i)
        PROVE  Silent(i)'
    <3>1. PICK k : k = receivers[i].call /\ k # 0
      OBVIOUS
    <3>2. (\A e \in Chats : chat_subs[e] # k) /\ (\A x \in DOMAIN events : events[x].call # k)
      BY <2>2, <3>1 DEF Silent
    <3>3. (\A e \in Chats : chat_subs'[e] # k) /\ (\A x \in DOMAIN events' : events'[x].call # k)
      BY <1>9, <3>1, <3>2
    <3> QED BY <1>2, <2>2, <3>1, <3>3 DEF Silent
  <2>3. Known(i) => Known(i)'
    BY <1>2 DEF Known, Granted
  <2> QED BY <2>1, <2>2, <2>3
<1>13. Answers'
  BY <1>1, <1>2 DEF Answers, UnderWay
<1>14. Subscriptions'
  BY <1>1, <1>2, <1>5 DEF Subscriptions, Subscribed, Granted
<1>15. Sequenced'
  <2> SUFFICES ASSUME NEW i \in DOMAIN receivers', receivers'[i].open, receivers'[i].call # 0
               PROVE  Follow(EventsFor(receivers[i])', receivers'[i]) /\ Complete(i)'
    BY DEF Sequenced
  <2> DEFINE r == receivers[i]
             s == EventsFor(receivers[i])
  <2>1. /\ r \in Receiver /\ r.topic \in Chats /\ r.from \in Nat
        /\ r.got \in Seq(Message) /\ r.buf \in Seq(Message)
    <3>1. r \in Receiver
      BY <1>1, <1>2 DEF Types
    <3> QED BY <3>1 DEF Receiver
  <2>2. /\ EventsOf(held, r.call) \in Seq(Message) /\ EventsOf(down, r.call) \in Seq(Message)
        /\ EventsOf(events, r.call) \in Seq(Message) /\ Coming(r.call) \in Seq(Message)
    BY <1>1, ComingType
  <2>3. s \in Seq(Message)
    BY <2>1, <2>2 DEF EventsFor
  <2>4. Follow(s, r) /\ Complete(i)
    BY <1>1, <1>2 DEF Sequenced
  <2>5. CASE pushed /\ r.call = chat_subs[c] /\ task = "running"
    <3>1. r.topic = c
      <4>1. PICK j \in DOMAIN receivers : receivers[j].call = chat_subs[c] /\ receivers[j].topic = c
        BY <1>1, <1>5, <2>5 DEF Pushed, OfChat
      <4>2. j = i
        BY <1>1, <1>2, <2>5, <4>1 DEF Numbers
      <4> QED BY <4>1, <4>2
    <3>2. EventsOf(events', r.call) = Append(EventsOf(events, r.call), m)
      <4>1. IsEvent(m, r.call) /\ events \in Seq(Message)
        BY <1>1, <1>4, <2>5 DEF IsEvent, Types
      <4>2. events' = Append(events, m)
        BY <1>5, <2>5
      <4> QED BY <1>4, <4>1, <4>2, EventsAppend
    <3>3. EventsFor(receivers[i])' = Append(s, m)
      <4> DEFINE a == r.got \o r.buf
                 b == EventsOf(held, r.call) \o EventsOf(down, r.call)
                 e == EventsOf(events, r.call)
      <4>1. a \in Seq(Message) /\ b \in Seq(Message) /\ e \in Seq(Message)
        BY <2>1, <2>2, ConcatFacts
      <4>2. s = a \o (b \o e)
        BY <2>5 DEF EventsFor, Coming
      <4>3. EventsFor(receivers[i])' = a \o (b \o Append(e, m))
        BY <1>2, <2>5, <3>2 DEF EventsFor, Coming
      <4> HIDE DEF a, b, e, s, r
      <4>4. b \o Append(e, m) = Append(b \o e, m) /\ b \o e \in Seq(Message)
        BY <1>4, <4>1, AppendConcat, ConcatFacts DEF AppendsLast
      <4>5. a \o Append(b \o e, m) = Append(a \o (b \o e), m)
        BY <1>4, <4>1, <4>4, AppendConcat DEF AppendsLast
      <4> QED BY <4>2, <4>3, <4>4, <4>5
    <3>4. Len(s) = posted[c] - r.from
      BY <1>5, <2>4, <2>5, <3>1 DEF Complete
    <3> HIDE DEF s, r
    <3>5. /\ Len(Append(s, m)) = Len(s) + 1 /\ DOMAIN Append(s, m) = 1 .. Len(s) + 1
          /\ Len(s) \in Nat /\ DOMAIN s = 1 .. Len(s)
          /\ \A j \in DOMAIN s : Append(s, m)[j] = s[j]
          /\ Append(s, m)[Len(s) + 1] = m
      BY <1>4, <2>3
    <3>6. m.topic = r.topic /\ m.n = r.from + (Len(s) + 1)
      BY <1>3, <1>4, <2>1, <3>1, <3>4
    <3>7. Follow(Append(s, m), r)
      <4> SUFFICES ASSUME NEW j \in DOMAIN Append(s, m)
                   PROVE  Append(s, m)[j].topic = r.topic /\ Append(s, m)[j].n = r.from + j
        BY DEF Follow
      <4>1. j = Len(s) + 1 \/ j \in DOMAIN s
        BY <3>5
      <4> QED BY <2>4, <3>5, <3>6, <4>1 DEF Follow
    <3>8. Len(Append(s, m)) = posted'[c] - r.from
      BY <1>3, <1>5, <2>1, <3>4, <3>5
    <3> QED BY <1>2, <3>1, <3>3, <3>7, <3>8 DEF Complete, Follow, r
  <2>6. CASE ~(pushed /\ r.call = chat_subs[c] /\ task = "running")
    <3>1. EventsFor(receivers[i])' = s
      <4>1. CASE task # "running"
        BY <1>2, <4>1 DEF EventsFor
      <4>2. CASE ~pushed
        BY <1>2, <1>5, <4>2 DEF EventsFor, Coming
      <4>3. CASE pushed /\ r.call # chat_subs[c]
        <5>1. EventsOf(events', r.call) = EventsOf(events, r.call)
          <6>1. ~IsEvent(m, r.call) /\ events \in Seq(Message)
            BY <1>1, <1>4, <4>3 DEF IsEvent, Types
          <6>2. events' = Append(events, m)
            BY <1>5, <4>3
          <6> QED BY <1>4, <6>1, <6>2, EventsAppend
        <5> QED BY <1>2, <5>1 DEF EventsFor, Coming
      <4> QED BY <2>6, <4>1, <4>2, <4>3
    <3>2. Follow(s, receivers'[i])
      BY <1>2, <2>4
    <3>3. Complete(i)'
      <4> SUFFICES ASSUME chat_subs'[r.topic] = r.call, run_client = "live", task = "running"
                   PROVE  Len(s) = posted'[r.topic] - r.from
        BY <1>2, <3>1 DEF Complete
      <4>1. r.call # 0
        BY <1>2
      <4>2. chat_subs[r.topic] = r.call
        BY <1>5, <2>1, <4>1
      <4>3. r.topic # c
        BY <1>5, <2>6, <4>1, <4>2
      <4> QED BY <1>5, <2>1, <2>4, <4>2, <4>3 DEF Complete
    <3> QED BY <3>1, <3>2, <3>3
  <2> QED BY <2>5, <2>6
<1> QED BY <1>7, <1>8, <1>10, <1>11, <1>12, <1>13, <1>14, <1>15 DEF CallsInv

LEMMA ReadResponseStep ==
    ASSUME CallsInv, ReadResponse
    PROVE  CallsInv'
<1> DEFINE m == Head(down)
           Knows == m.call \in DOMAIN registered
           kind == registered[m.call].kind
           n == registered[m.call].of
<1>1. /\ Types /\ Numbers /\ ToWrite /\ Registered /\ ToServe /\ Pushed /\ Holding
      /\ Linked /\ Answers /\ Subscriptions /\ Sequenced
  BY DEF CallsInv
<1>2. /\ task = "running" /\ held = <<>> /\ down # <<>> /\ down' = Tail(down)
      /\ UNCHANGED <<receivers, outbox, calls, task, up, run_client, events, chat_subs, posted>>
  BY DEF ReadResponse, server_side
<1>3. /\ down' \in Seq(Message) /\ m \in Message /\ m = down[1] /\ 1 \in DOMAIN down
      /\ \A x \in DOMAIN down' : x + 1 \in DOMAIN down /\ down'[x] = down[x + 1]
      /\ \A x \in DOMAIN down : x # 1 => x - 1 \in DOMAIN down' /\ down'[x - 1] = down[x]
  BY <1>1, <1>2, TailFacts DEF Types
<1>4. \/ /\ ~Knows \/ (Knows /\ kind = "sub" /\ m.body # "event")
         /\ UNCHANGED <<registered, asks, held>>
      \/ /\ Knows /\ kind = "new" /\ UNCHANGED <<asks, held>>
         /\ registered' = IF m.body = "ok" THEN [registered EXCEPT ![m.call].kind = "sub"]
                          ELSE Without(registered, m.call)
      \/ /\ Knows /\ kind = "ask" /\ registered' = Without(registered, m.call) /\ UNCHANGED held
         /\ asks' = IF asks[n].st = "waiting" THEN [asks EXCEPT ![n] = [st |-> "done", answer |-> m.n]]
                    ELSE asks
      \/ /\ Knows /\ kind = "sub" /\ m.body = "event" /\ held' = <<m>>
         /\ UNCHANGED <<registered, asks>>
  <2>1. Knows => registered[m.call] \in Request
    BY <1>1 DEF Types
  <2>2. Knows => kind # "none"
    BY <2>1 DEF Request
  <2> QED BY <2>2 DEF ReadResponse
<1>5. /\ Knows => /\ registered[m.call] \in Request
                  /\ kind = "ask" => n \in DOMAIN asks /\ ~OfReceiver(m.call) /\ m.n = n
      /\ m.call \in 1 .. calls /\ m.call # 0
  <2>1. Knows => registered[m.call] \in Request
    BY <1>1 DEF Types
  <2>2. m.call \in 1 .. calls /\ m.call # 0
    BY <1>1, <1>3 DEF Numbers, Types
  <2>3. Knows /\ kind = "ask" => m.n = n
    BY <1>1, <1>3 DEF Pushed
  <2> QED BY <1>1, <2>1, <2>2, <2>3 DEF Registered
<1>6. /\ DOMAIN registered' \subseteq DOMAIN registered
      /\ \A l \in DOMAIN registered : l # m.call => l \in DOMAIN registered' /\ registered'[l] = registered[l]
      /\ m.call \in DOMAIN registered' =>
           /\ registered'[m.call] \in Request /\ registered'[m.call].of = n
           /\ registered'[m.call].topic = registered[m.call].topic
           /\ registered'[m.call].kind = "sub" /\ Knows
           /\ kind = "sub" \/ (kind = "new" /\ m.body = "ok")
      /\ Knows /\ (kind = "sub" \/ (kind = "new" /\ m.body = "ok")) => m.call \in DOMAIN registered'
  <2>1. CASE registered' = registered /\ (Knows => kind = "sub")
    BY <1>5, <2>1
  <2>2. CASE registered' = Without(registered, m.call) /\ ~(kind = "sub" \/ (kind = "new" /\ m.body = "ok"))
    BY <2>2 DEF Without
  <2>3. CASE Knows /\ kind = "new" /\ m.body = "ok" /\ registered' = [registered EXCEPT ![m.call].kind = "sub"]
    <3> DEFINE v == [registered[m.call] EXCEPT !.kind = "sub"]
    <3>1. registered' = [registered EXCEPT ![m.call] = v]
      BY <2>3
    <3>2. v \in Request /\ v.of = n /\ v.topic = registered[m.call].topic /\ v.kind = "sub"
      BY <1>5, <2>3 DEF Request
    <3>3. DOMAIN registered' = DOMAIN registered
      BY <2>3
    <3> HIDE DEF v
    <3>4. registered'[m.call] = v /\ \A l \in DOMAIN registered : l # m.call => registered'[l] = registered[l]
      <4>1. registered' = [l \in DOMAIN registered |-> IF l = m.call THEN v ELSE registered[l]]
        BY <3>1
      <4> QED BY <2>3, <4>1
    <3> QED BY <2>3, <3>2, <3>3, <3>4
  <2> QED BY <1>4, <2>1, <2>2, <2>3
<1>7. /\ \/ held' = <<>>
         \/ held' = <<m>> /\ m.body = "event" /\ Knows /\ kind = "sub"
      /\ Knows /\ kind = "sub" /\ m.body = "event" => held' = <<m>>
  BY <1>2, <1>4
<1>8. /\ asks' \in Seq(AskState) /\ DOMAIN asks' = DOMAIN asks
      /\ Knows /\ kind = "ask" => /\ asks'[n].st # "waiting"
                                  /\ asks'[n] = asks[n] \/ asks'[n].answer = n
                                  /\ \A o \in DOMAIN asks : o # n => asks'[o] = asks[o]
      /\ ~(Knows /\ kind = "ask") => asks' = asks
  <2>1. asks \in Seq(AskState)
    BY <1>1 DEF Types
  <2>2. CASE Knows /\ kind = "ask" /\ asks[n].st = "waiting"
    <3> DEFINE v == [st |-> "done", answer |-> m.n]
    <3>1. asks' = [asks EXCEPT ![n] = v]
      BY <1>4, <2>2
    <3>2. v \in AskState /\ v.answer = n /\ v.st # "waiting" /\ n \in DOMAIN asks
      BY <1>3, <1>5, <2>2 DEF AskState, Message
    <3> HIDE DEF v, m, kind, n
    <3>3. /\ asks' \in Seq(AskState) /\ DOMAIN asks' = DOMAIN asks /\ asks'[n] = v
          /\ \A o \in DOMAIN asks : o # n => asks'[o] = asks[o]
      BY <2>1, <3>1, <3>2, UpdateFacts
    <3> QED BY <2>2, <3>2, <3>3
  <2>3. CASE ~(Knows /\ kind = "ask" /\ asks[n].st = "waiting")
    <3>1. asks' = asks
      BY <1>4, <2>3
    <3> QED BY <2>1, <2>3, <3>1
  <2> QED BY <2>2, <2>3
<1> HIDE DEF m, kind, n, Knows
<1>9. Types'
  <2>1. held' \in Seq(Message)
    <3>1. <<>> \in Seq(Message) /\ <<m>> \in Seq(Message)
      BY <1>3
    <3> QED BY <1>7, <3>1
  <2>2. \A l \in DOMAIN registered' : registered'[l] \in Request
    BY <1>1, <1>6 DEF Types
  <2> QED BY <1>1, <1>2, <1>3, <1>8, <2>1, <2>2 DEF Types
<1>10. Numbers' /\ ToWrite'
  BY <1>1, <1>2, <1>3, <1>6, <1>8 DEF Numbers, ToWrite
<1>11. \A l \in DOMAIN registered' :
          /\ registered'[l].of = registered[l].of /\ registered'[l].topic = registered[l].topic
          /\ registered[l].kind = "ask" => registered'[l] = registered[l]
          /\ registered'[l].kind = "ask" => registered[l].kind = "ask" /\ l # m.call
          /\ l # m.call => registered'[l] = registered[l]
  BY <1>6 DEF n, kind
<1>12. Registered'
  <2>1. \A l \in DOMAIN registered' :
           /\ registered'[l].kind = "ask" => registered'[l].of \in DOMAIN asks /\ ~OfReceiver(l)
           /\ registered'[l].kind # "ask" =>
                /\ registered'[l].of \in DOMAIN receivers /\ receivers[registered'[l].of].call = l
                /\ receivers[registered'[l].of].topic = registered'[l].topic
    BY <1>1, <1>6, <1>11 DEF Registered
  <2> QED BY <1>2, <1>8, <2>1 DEF Registered, OfReceiver
<1>13. \A l : Unheard(l) => Unheard(l)' /\ l # m.call
  BY <1>2, <1>3, <1>7 DEF Unheard
<1>14. ToServe'
  <2>1. \A x \in DOMAIN up : up[x].prefix = "new" =>
            /\ Unheard(up[x].call) /\ up[x].call \in DOMAIN registered'
            /\ registered'[up[x].call].kind = "new"
    BY <1>1, <1>2, <1>6, <1>13 DEF ToServe
  <2>2. \A x \in DOMAIN up : up[x].call \in DOMAIN registered' => registered'[up[x].call].of = up[x].of
    BY <1>1, <1>6, <1>11 DEF ToServe
  <2> QED BY <1>1, <1>2, <1>13, <2>1, <2>2 DEF ToServe, OfReceiver
<1>15. Pushed'
  <2>1. \A x \in DOMAIN down' :
          /\ down'[x].body = "event" => OfChat(down'[x].call, down'[x].topic)
          /\ down'[x].call \in DOMAIN registered' /\ registered'[down'[x].call].kind = "ask" =>
               down'[x].n = registered'[down'[x].call].of
    BY <1>1, <1>3, <1>6, <1>11 DEF Pushed
  <2> QED BY <1>1, <1>2, <2>1 DEF Pushed, OfChat
<1>16. Holding'
  <2>1. CASE held' = <<m>> /\ m.body = "event" /\ Knows /\ kind = "sub"
    <3>1. OfChat(m.call, m.topic)
      BY <1>1, <1>3, <2>1 DEF Pushed
    <3>2. /\ n \in DOMAIN receivers /\ receivers[n].call = m.call
          /\ receivers[n].topic = registered[m.call].topic
      BY <1>1, <2>1 DEF Registered, n, kind, Knows
    <3>3. registered[m.call].topic = m.topic
      BY <1>1, <1>5, <3>1, <3>2 DEF OfChat, Numbers
    <3>4. m.call \in DOMAIN registered' /\ registered'[m.call].topic = m.topic /\ registered'[m.call].kind = "sub"
      BY <1>6, <2>1, <3>3
    <3> QED BY <1>2, <2>1, <3>4 DEF Holding
  <2> QED BY <1>7, <2>1 DEF Holding
<1>17. \A k : Granted(k) /\ k # m.call => Granted(k)'
  BY <1>1, <1>2, GrantedStays DEF m
<1>18. Granted(m.call) => m.body = "ok"
  BY <1>1, GrantedStays DEF m
<1>19. Linked'
  <2> SUFFICES ASSUME NEW i \in DOMAIN receivers, receivers[i].open, receivers[i].call # 0
               PROVE  Silent(i)' \/ Known(i)'
    BY <1>2 DEF Linked
  <2>1. PICK k : k = receivers[i].call
    OBVIOUS
  <2>2. Silent(i) \/ Known(i)
    BY <1>1, <1>2 DEF Linked
  <2>3. ASSUME Silent(i), held' = <<>> \/ k # m.call
        PROVE  Silent(i)'
    <3>1. \A x \in DOMAIN held' : held'[x].call # k
      BY <1>7, <2>3
    <3> QED BY <1>2, <1>3, <2>1, <2>3, <3>1 DEF Silent
  <2>4. ASSUME Known(i), k # m.call
        PROVE  Known(i)'
    <3>1. /\ k \in DOMAIN registered' /\ registered'[k] = registered[k]
          /\ registered[k].kind = "sub" \/ (registered[k].kind = "new" /\ Granted(k))
      BY <1>6, <2>1, <2>4 DEF Known
    <3>2. Granted(k) => Granted(k)'
      BY <1>17, <2>4
    <3> QED BY <1>2, <2>1, <3>1, <3>2 DEF Known, Granted
  <2>5. CASE k # m.call
    BY <2>2, <2>3, <2>4, <2>5
  <2>6. CASE k = m.call /\ m.call \in DOMAIN registered'
    BY <1>2, <1>6, <2>1, <2>6 DEF Known
  <2>7. CASE k = m.call /\ m.call \notin DOMAIN registered'
    <3>1. ~Known(i)
      <4>1. Knows => kind # "sub" /\ (kind = "new" => m.body # "ok")
        BY <1>6, <2>7
      <4> QED BY <1>18, <2>1, <2>7, <4>1 DEF Known, Knows, kind
    <3>2. held' = <<>>
      BY <1>6, <1>7, <2>7
    <3> QED BY <2>2, <2>3, <3>1, <3>2
  <2> QED BY <2>5, <2>6, <2>7
<1>20. Answers'
  <2> SUFFICES ASSUME NEW o \in DOMAIN asks
               PROVE  /\ asks'[o].st = "done" => asks'[o].answer = o
                      /\ asks'[o].st = "waiting" /\ run_client = "live" => UnderWay(o)'
    BY <1>2, <1>8 DEF Answers
  <2>1. CASE Knows /\ kind = "ask" /\ o = n
    BY <1>1, <1>8, <2>1 DEF Answers
  <2>2. CASE ~(Knows /\ kind = "ask" /\ o = n)
    <3>1. asks'[o] = asks[o]
      BY <1>8, <2>2
    <3>2. ASSUME asks[o].st = "waiting", run_client = "live"
          PROVE  UnderWay(o)'
      <4>1. UnderWay(o)
        BY <1>1, <1>2, <3>2 DEF Answers
      <4>2. ASSUME NEW l \in DOMAIN registered, registered[l].kind = "ask", registered[l].of = o,
                   \/ \E x \in DOMAIN up : up[x].prefix = "ask" /\ up[x].call = l
                   \/ \E x \in DOMAIN down : down[x].call = l
            PROVE  UnderWay(o)'
        <5>1. l # m.call
          BY <2>2, <4>2 DEF Knows, kind, n
        <5>2. l \in DOMAIN registered' /\ registered'[l] = registered[l]
          BY <1>6, <5>1
        <5>3. \A x \in DOMAIN down : down[x].call = l => x - 1 \in DOMAIN down' /\ down'[x - 1].call = l
          BY <1>3, <5>1
        <5> QED BY <1>2, <4>2, <5>2, <5>3 DEF UnderWay
      <4> QED BY <1>2, <4>1, <4>2 DEF UnderWay
    <3> QED BY <1>1, <3>1, <3>2 DEF Answers
  <2> QED BY <2>1, <2>2
<1>21. Subscriptions'
  <2> SUFFICES ASSUME NEW c \in Chats, chat_subs[c] # 0, run_client = "live"
               PROVE  Subscribed(c)'
    BY <1>2 DEF Subscriptions
  <2>1. Subscribed(c)
    BY <1>1, <1>2 DEF Subscriptions
  <2>2. PICK k : k = chat_subs[c]
    OBVIOUS
  <2>3. CASE \E x \in DOMAIN up : up[x].prefix = "unsubscribe" /\ up[x].topic = c
    BY <1>2, <2>3 DEF Subscribed
  <2>4. CASE /\ k \in DOMAIN registered /\ registered[k].topic = c
             /\ registered[k].kind = "sub" \/ (registered[k].kind = "new" /\ Granted(k))
    <3>1. CASE k # m.call
      <4>1. k \in DOMAIN registered' /\ registered'[k] = registered[k]
        BY <1>6, <2>4, <3>1
      <4>2. Granted(k) => Granted(k)'
        BY <1>17, <3>1
      <4> QED BY <1>2, <2>2, <2>4, <4>1, <4>2 DEF Subscribed, Granted
    <3>2. CASE k = m.call
      <4>1. m.call \in DOMAIN registered'
        BY <1>6, <1>18, <2>4, <3>2 DEF Knows, kind
      <4> QED BY <1>2, <1>6, <2>2, <2>4, <3>2, <4>1 DEF Subscribed
    <3> QED BY <3>1, <3>2
  <2> QED BY <2>1, <2>2, <2>3, <2>4 DEF Subscribed
<1>22. Sequenced'
  <2> SUFFICES ASSUME NEW i \in DOMAIN receivers', receivers'[i].open, receivers'[i].call # 0
               PROVE  Follow(EventsFor(receivers[i])', receivers'[i]) /\ Complete(i)'
    BY DEF Sequenced
  <2>1. PICK k : k = receivers[i].call
    OBVIOUS
  <2> DEFINE t == EventsOf(down', k)
             e == EventsOf(events, k)
  <2>2. t \in Seq(Message) /\ e \in Seq(Message) /\ EventsOf(<<>>, k) = <<>>
    BY <1>1, <1>3, ComingType, EventsType
  <2>3. EventsOf(down, k) = IF IsEvent(m, k) THEN <<m>> \o t ELSE t
    BY <1>1, <1>2, EventsHead DEF Types, m
  <2>4. IsEvent(m, k) => held' = <<m>>
    <3> SUFFICES ASSUME IsEvent(m, k)
                 PROVE  Knows /\ kind = "sub"
      BY <1>7 DEF IsEvent
    <3>1. Silent(i) \/ Known(i)
      BY <1>1, <1>2 DEF Linked
    <3>2. ~Silent(i)
      BY <1>3, <2>1 DEF Silent, IsEvent
    <3>3. ~Granted(k)
      BY <1>18 DEF IsEvent
    <3> QED BY <2>1, <3>1, <3>2, <3>3 DEF Known, IsEvent, Knows, kind
  <2>5. EventsOf(held', k) = IF IsEvent(m, k) THEN <<m>> ELSE <<>>
    <3>1. CASE held' = <<>>
      BY <2>2, <2>4, <3>1
    <3>2. CASE held' = <<m>> /\ m.body = "event"
      BY <1>3, <3>2, EventsOfOne DEF IsEvent
    <3> QED BY <1>7, <3>1, <3>2
  <2>6. Coming(k) = <<>> \o EventsOf(down, k) \o e /\ Coming(k)' = EventsOf(held', k) \o t \o e
    BY <1>2, <2>2 DEF Coming
  <2>7. <<>> \o t = t /\ <<m>> \o t \in Seq(Message) /\ <<>> \o (<<m>> \o t) = <<m>> \o t
    <3>1. <<m>> \in Seq(Message)
      BY <1>3
    <3>2. <<m>> \o t \in Seq(Message)
      BY <2>2, <3>1, ConcatFacts
    <3> HIDE DEF t
    <3> QED BY <2>2, <3>2, ConcatOne
  <2> HIDE DEF t, e
  <2>8. Coming(k)' = Coming(k)
    BY <2>3, <2>5, <2>6, <2>7
  <2>9. EventsFor(receivers[i])' = EventsFor(receivers[i])
    BY <1>2, <2>1, <2>8 DEF EventsFor, Coming
  <2> QED BY <1>1, <1>2, <2>9, SequencedStays
<1> QED BY <1>9, <1>10, <1>12, <1>14, <1>15, <1>16, <1>19, <1>20, <1>21, <1>22 DEF CallsInv

LEMMA ServeRequestStep ==
    ASSUME CallsInv, ServeRequest
    PROVE  CallsInv'
<1>0. PICK m : m = Head(up)
  OBVIOUS
<1>1. /\ Types /\ Numbers /\ ToWrite /\ Registered /\ ToServe /\ Pushed /\ Holding
      /\ Linked /\ Answers /\ Subscriptions /\ Sequenced
  BY DEF CallsInv
<1>2. /\ run_client = "live" /\ up # <<>> /\ up' = Tail(up)
      /\ UNCHANGED <<asks, outbox, registered, held, calls, task, run_client, events, posted>>
  BY DEF ServeRequest
<1>3. /\ up' \in Seq(Sent) /\ m \in Sent /\ m = up[1] /\ 1 \in DOMAIN up
      /\ \A x \in DOMAIN up' : x + 1 \in DOMAIN up /\ x + 1 # 1 /\ up'[x] = up[x + 1] /\ x \in Int
      /\ \A x \in DOMAIN up : x # 1 => x - 1 \in DOMAIN up' /\ up'[x - 1] = up[x]
  <2>1. /\ up' \in Seq(Sent) /\ m \in Sent /\ m = up[1] /\ 1 \in DOMAIN up
        /\ \A x \in DOMAIN up' : x + 1 \in DOMAIN up /\ x + 1 # 1 /\ up'[x] = up[x + 1]
        /\ \A x \in DOMAIN up : x # 1 => x - 1 \in DOMAIN up' /\ up'[x - 1] = up[x]
    BY <1>0, <1>1, <1>2, TailFacts DEF Types
  <2>2. \A x \in DOMAIN up' : x \in Int
    BY <2>1
  <2> QED BY <2>1, <2>2
<1>4. /\ m.call \in 1 .. calls /\ m.call # 0 /\ m.call \in Nat /\ m.topic \in Chats /\ m.of \in Nat
      /\ m.prefix \in {"new", "ask", "unsubscribe"}
      /\ \A x \in DOMAIN up : x # 1 => up[x].call # m.call
      /\ m.prefix = "new" =>
           /\ m.of \in DOMAIN receivers /\ receivers[m.of].call = m.call
           /\ receivers[m.of].topic = m.topic
           /\ receivers[m.of].buf = <<>> /\ receivers[m.of].got = <<>>
           /\ Unheard(m.call)
           /\ task = "running" => m.call \in DOMAIN registered /\ registered[m.call].kind = "new"
      /\ m.prefix # "new" => ~OfReceiver(m.call)
      /\ m.call \in DOMAIN registered => registered[m.call].of = m.of
  <2>1. m.call \in 1 .. calls /\ \A x \in DOMAIN up : x # 1 => up[x].call # m.call
    BY <1>1, <1>3 DEF Numbers
  <2>2. m.call # 0 /\ m.call \in Nat
    BY <1>1, <2>1 DEF Types
  <2> QED BY <1>1, <1>3, <2>1, <2>2 DEF ToServe, Sent
<1>5. PICK a \in Message :
        /\ down' = Append(down, a) /\ a.call = m.call /\ a.n = m.of /\ a.body # "event"
        /\ \/ m.prefix = "ask" /\ UNCHANGED <<chat_subs, receivers>>
           \/ /\ m.prefix = "new" /\ chat_subs' = [chat_subs EXCEPT ![m.topic] = m.call]
              /\ receivers' = [receivers EXCEPT ![m.of].from = posted[m.topic]] /\ a.body = "ok"
           \/ m.prefix = "new" /\ UNCHANGED <<chat_subs, receivers>> /\ a.body = "not_found"
           \/ /\ m.prefix = "unsubscribe" /\ chat_subs' = [chat_subs EXCEPT ![m.topic] = 0]
              /\ UNCHANGED receivers
  <2>1. \A body \in {"ok", "not_found", "answer"} :
           /\ Answer(m, body) \in Message /\ Answer(m, body).call = m.call
           /\ Answer(m, body).n = m.of /\ Answer(m, body).body = body /\ body # "event"
    BY <1>4 DEF Answer, Message
  <2>2. PICK body \in {"ok", "not_found", "answer"} :
        /\ down' = Append(down, Answer(m, body))
        /\ \/ m.prefix = "ask" /\ UNCHANGED <<chat_subs, receivers>>
           \/ /\ m.prefix = "new" /\ chat_subs' = [chat_subs EXCEPT ![m.topic] = m.call]
              /\ receivers' = [receivers EXCEPT ![m.of].from = posted[m.topic]] /\ body = "ok"
           \/ m.prefix = "new" /\ UNCHANGED <<chat_subs, receivers>> /\ body = "not_found"
           \/ /\ m.prefix = "unsubscribe" /\ chat_subs' = [chat_subs EXCEPT ![m.topic] = 0]
              /\ UNCHANGED receivers
    BY <1>0 DEF ServeRequest
  <2> HIDE DEF Answer
  <2>3. Answer(m, body) \in Message
    BY <2>1
  <2> QED BY <2>1, <2>2, <2>3
<1>6. /\ down' \in Seq(Message) /\ Len(down) + 1 \in DOMAIN down' /\ down'[Len(down) + 1] = a
      /\ \A x \in DOMAIN down : x \in DOMAIN down' /\ down'[x] = down[x]
      /\ \A x \in DOMAIN down' : x \in DOMAIN down \/ (x = Len(down) + 1 /\ down'[x] = a)
  BY <1>1, <1>5, AppendFacts DEF Types
<1>7. /\ receivers' \in Seq(Receiver) /\ DOMAIN receivers' = DOMAIN receivers
      /\ \A i \in DOMAIN receivers :
            /\ receivers'[i].topic = receivers[i].topic /\ receivers'[i].open = receivers[i].open
            /\ receivers'[i].buf = receivers[i].buf /\ receivers'[i].got = receivers[i].got
            /\ receivers'[i].call = receivers[i].call
            /\ receivers[i].call # m.call => receivers'[i] = receivers[i]
            /\ m.prefix = "new" /\ a.body = "ok" /\ i = m.of => receivers'[i].from = posted[m.topic]
            /\ ~(m.prefix = "new" /\ a.body = "ok") => receivers'[i] = receivers[i]
  <2>1. CASE m.prefix = "new" /\ a.body = "ok"
    <3> DEFINE v == [receivers[m.of] EXCEPT !.from = posted[m.topic]]
    <3>0. posted[m.topic] \in Nat
      BY <1>1, <1>4 DEF Types
    <3>1. receivers[m.of] \in Receiver
      BY <1>1, <1>4, <2>1 DEF Types
    <3>2. /\ v \in Receiver /\ v.from = posted[m.topic] /\ v.topic = receivers[m.of].topic
          /\ v.open = receivers[m.of].open /\ v.buf = receivers[m.of].buf
          /\ v.got = receivers[m.of].got /\ v.call = receivers[m.of].call
      BY <3>0, <3>1 DEF Receiver
    <3>3. receivers' = [receivers EXCEPT ![m.of] = v]
      BY <1>5, <2>1
    <3> HIDE DEF v
    <3>4. /\ receivers' \in Seq(Receiver) /\ DOMAIN receivers' = DOMAIN receivers /\ receivers'[m.of] = v
          /\ \A j \in DOMAIN receivers : j # m.of => receivers'[j] = receivers[j]
      BY <1>1, <1>4, <2>1, <3>2, <3>3, UpdateFacts DEF Types
    <3> QED BY <1>4, <2>1, <3>2, <3>4
  <2>2. CASE ~(m.prefix = "new" /\ a.body = "ok")
    <3>1. receivers' = receivers
      BY <1>5, <2>2
    <3> QED BY <1>1, <2>2, <3>1 DEF Types
  <2> QED BY <2>1, <2>2
<1>8. /\ chat_subs' \in [Chats -> Nat]
      /\ \A c \in Chats : \/ chat_subs'[c] = chat_subs[c]
                          \/ c = m.topic /\ m.prefix = "new" /\ a.body = "ok" /\ chat_subs'[c] = m.call
                          \/ c = m.topic /\ m.prefix = "unsubscribe" /\ chat_subs'[c] = 0
      /\ m.prefix = "unsubscribe" => chat_subs'[m.topic] = 0
      /\ m.prefix = "new" /\ a.body = "ok" => chat_subs'[m.topic] = m.call
  <2>1. chat_subs \in [Chats -> Nat]
    BY <1>1 DEF Types
  <2>2. CASE chat_subs' = chat_subs /\ m.prefix # "unsubscribe" /\ ~(m.prefix = "new" /\ a.body = "ok")
    BY <2>1, <2>2
  <2>3. CASE m.prefix = "new" /\ a.body = "ok" /\ chat_subs' = [chat_subs EXCEPT ![m.topic] = m.call]
    BY <1>4, <2>1, <2>3
  <2>4. CASE m.prefix = "unsubscribe" /\ chat_subs' = [chat_subs EXCEPT ![m.topic] = 0]
    BY <1>4, <2>1, <2>4
  <2> QED BY <1>5, <2>2, <2>3, <2>4
<1>9. Types'
  BY <1>1, <1>2, <1>3, <1>6, <1>7, <1>8 DEF Types
<1>10. Numbers'
  <2>1. \A x, y \in DOMAIN up' : /\ up'[x].call \in 1 .. calls
                                 /\ up'[x].call = up'[y].call => x = y
    <3> SUFFICES ASSUME NEW x \in DOMAIN up', NEW y \in DOMAIN up'
                 PROVE  up'[x].call \in 1 .. calls /\ (up'[x].call = up'[y].call => x = y)
      OBVIOUS
    <3>1. up[x + 1].call = up[y + 1].call => x + 1 = y + 1
      BY <1>1, <1>3 DEF Numbers
    <3>2. x + 1 = y + 1 => x = y
      BY <1>3
    <3> QED BY <1>1, <1>3, <3>1, <3>2 DEF Numbers
  <2>2. \A x \in DOMAIN down' : down'[x].call \in 1 .. calls
    BY <1>1, <1>4, <1>5, <1>6 DEF Numbers
  <2>3. \A i \in DOMAIN receivers' :
          /\ receivers'[i].call <= calls
          /\ receivers'[i].call = 0 => receivers'[i].buf = <<>> /\ receivers'[i].got = <<>>
          /\ \A j \in DOMAIN receivers' :
               receivers'[i].call = receivers'[j].call /\ receivers'[i].call # 0 => i = j
    BY <1>1, <1>7 DEF Numbers
  <2> QED BY <1>1, <1>2, <2>1, <2>2, <2>3 DEF Numbers
<1>11. ToWrite' /\ Holding'
  BY <1>1, <1>2, <1>7 DEF ToWrite, Holding
<1>12. Stays
  BY <1>7 DEF Stays
<1>13. Registered'
  BY <1>2, <1>12, RegisteredStays
<1>14. \A k : k # 0 /\ k # m.call /\ Unheard(k) => Unheard(k)'
  BY <1>2, <1>5, <1>6, <1>8 DEF Unheard
<1>15. ToServe'
  <2>1. ASSUME NEW x \in DOMAIN up'
        PROVE  /\ up'[x].prefix = "new" =>
                    /\ up'[x].of \in DOMAIN receivers' /\ receivers'[up'[x].of].call = up'[x].call
                    /\ receivers'[up'[x].of].topic = up'[x].topic
                    /\ receivers'[up'[x].of].buf = <<>> /\ receivers'[up'[x].of].got = <<>>
                    /\ Unheard(up'[x].call)
                    /\ task = "running" => /\ up'[x].call \in DOMAIN registered
                                           /\ registered[up'[x].call].kind = "new"
               /\ up'[x].prefix # "new" => \A j \in DOMAIN receivers' : receivers'[j].call # up'[x].call
               /\ up'[x].call \in DOMAIN registered => registered[up'[x].call].of = up'[x].of
               /\ up'[x].call # 0 /\ up'[x].call # m.call
    <3>1. x + 1 \in DOMAIN up /\ x + 1 # 1
      BY <1>3
    <3>2. PICK y \in DOMAIN up : y = x + 1 /\ y # 1
      BY <3>1
    <3>3. up'[x] = up[y]
      BY <1>3, <3>2
    <3>4. up[y].call # m.call /\ up[y].call # 0
      BY <1>1, <1>4, <3>2 DEF Numbers, Types
    <3>5. /\ up[y].prefix = "new" =>
               /\ up[y].of \in DOMAIN receivers /\ receivers[up[y].of].call = up[y].call
               /\ receivers[up[y].of].topic = up[y].topic
               /\ receivers[up[y].of].buf = <<>> /\ receivers[up[y].of].got = <<>>
               /\ Unheard(up[y].call)
               /\ task = "running" => up[y].call \in DOMAIN registered /\ registered[up[y].call].kind = "new"
          /\ up[y].prefix # "new" => \A j \in DOMAIN receivers : receivers[j].call # up[y].call
          /\ up[y].call \in DOMAIN registered => registered[up[y].call].of = up[y].of
      BY <1>1 DEF ToServe, OfReceiver
    <3> QED BY <1>7, <3>3, <3>4, <3>5
  <2> QED BY <1>2, <1>14, <2>1 DEF ToServe, OfReceiver
<1>16. \A k \in 1 .. calls, c \in Chats : OfChat(k, c)' <=> OfChat(k, c)
  BY <1>1, <1>12, LinksStay
<1>17. Pushed'
  <2>1. \A c \in Chats : chat_subs'[c] # 0 => \E i \in DOMAIN receivers :
            receivers[i].call = chat_subs'[c] /\ receivers[i].topic = c
    <3> SUFFICES ASSUME NEW c \in Chats, chat_subs'[c] # 0
                 PROVE  \E i \in DOMAIN receivers : receivers[i].call = chat_subs'[c] /\ receivers[i].topic = c
      OBVIOUS
    <3>1. CASE chat_subs'[c] = chat_subs[c]
      BY <1>1, <3>1 DEF Pushed, OfChat
    <3>2. CASE c = m.topic /\ m.prefix = "new" /\ chat_subs'[c] = m.call
      BY <1>4, <3>2
    <3> QED BY <1>8, <3>1, <3>2
  <2>2. \A x \in DOMAIN down' :
          /\ down'[x].body = "event" => \E i \in DOMAIN receivers :
               receivers[i].call = down'[x].call /\ receivers[i].topic = down'[x].topic
          /\ down'[x].call \in DOMAIN registered /\ registered[down'[x].call].kind = "ask" =>
               down'[x].n = registered[down'[x].call].of
    BY <1>1, <1>4, <1>5, <1>6 DEF Pushed, OfChat
  <2>3. \A x \in DOMAIN events : /\ events[x].body = "event" /\ events[x].call # 0
          /\ \E i \in DOMAIN receivers :
               receivers[i].call = events[x].call /\ receivers[i].topic = events[x].topic
    BY <1>1 DEF Pushed, OfChat
  <2>4. \A i \in DOMAIN receivers : i \in DOMAIN receivers' /\ receivers'[i].call = receivers[i].call
                                    /\ receivers'[i].topic = receivers[i].topic
    BY <1>7
  <2>5. \A c \in Chats : chat_subs'[c] # 0 => OfChat(chat_subs[c], c)'
    BY <2>1, <2>4 DEF OfChat
  <2>6. \A x \in DOMAIN events : \E i \in DOMAIN receivers' :
               receivers'[i].call = events[x].call /\ receivers'[i].topic = events[x].topic
    BY <2>3, <2>4
  <2>7. \A x \in DOMAIN down' : down'[x].body = "event" => \E i \in DOMAIN receivers' :
               receivers'[i].call = down'[x].call /\ receivers'[i].topic = down'[x].topic
    BY <2>2, <2>4
  <2> QED BY <1>2, <2>2, <2>3, <2>5, <2>6, <2>7 DEF Pushed, OfChat
<1>18. \A k : Granted(k) => Granted(k)'
  BY <1>1, <1>5, GrantedStays
<1>19. m.prefix = "new" /\ a.body = "ok" => Granted(m.call)'
  <2> SUFFICES ASSUME m.prefix = "new", a.body = "ok"
               PROVE  Granted(m.call)'
    OBVIOUS
  <2>1. down \in Seq(Message) /\ Len(down) \in Nat /\ DOMAIN down = 1 .. Len(down)
    BY <1>1 DEF Types
  <2>2. \A x \in 1 .. (Len(down) + 1) - 1 : x \in DOMAIN down
    BY <2>1
  <2>3. \A x \in 1 .. (Len(down) + 1) - 1 : down'[x].call # m.call
    BY <1>4, <1>6, <2>2 DEF Unheard
  <2>4. PICK k, y : k = m.call /\ y = Len(down) + 1
    OBVIOUS
  <2>5. /\ y \in DOMAIN down' /\ down'[y].call = k /\ down'[y].body = "ok"
        /\ \A x \in 1 .. y - 1 : down'[x].call # k
    BY <1>5, <1>6, <2>3, <2>4
  <2> QED BY <2>4, <2>5 DEF Granted
<1>20. Linked'
  <2> SUFFICES ASSUME NEW i \in DOMAIN receivers, task = "running", receivers[i].open, receivers[i].call # 0
               PROVE  Silent(i)' \/ Known(i)'
    BY <1>2, <1>7 DEF Linked
  <2>1. PICK k : k = receivers[i].call
    OBVIOUS
  <2>2. Silent(i) \/ Known(i)
    BY <1>1 DEF Linked
  <2>3. receivers'[i].call = k /\ receivers'[i].buf = receivers[i].buf /\ receivers'[i].got = receivers[i].got
    BY <1>7, <2>1
  <2>4. ASSUME Silent(i), m.prefix = "new" /\ a.body = "ok" => k # m.call, k = m.call => a.body = "not_found"
        PROVE  Silent(i)'
    <3>1. \A c \in Chats : chat_subs'[c] # k
      BY <1>8, <2>1, <2>4 DEF Silent
    <3>2. \A x \in DOMAIN down' : down'[x].call = k => down'[x].body = "not_found"
      BY <1>5, <1>6, <2>1, <2>4 DEF Silent
    <3> QED BY <1>2, <2>1, <2>3, <2>4, <3>1, <3>2 DEF Silent
  <2>5. ASSUME Known(i)
        PROVE  Known(i)'
    <3>1. Granted(k) => Granted(k)'
      BY <1>18
    <3> QED BY <1>2, <2>1, <2>3, <2>5, <3>1 DEF Known, Granted
  <2>6. CASE m.prefix = "new" /\ a.body = "ok" /\ k = m.call
    <3>1. Granted(k)'
      BY <1>19, <2>6
    <3> QED BY <1>2, <1>4, <2>3, <2>6, <3>1 DEF Known, Granted
  <2>7. CASE m.prefix = "new" /\ a.body = "not_found"
    BY <2>2, <2>4, <2>5, <2>7
  <2>8. CASE k # m.call
    BY <2>2, <2>4, <2>5, <2>8
  <2>9. m.prefix # "new" => k # m.call
    BY <1>4, <2>1 DEF OfReceiver
  <2>10. m.prefix = "new" => a.body \in {"ok", "not_found"}
    BY <1>5
  <2> QED BY <2>6, <2>7, <2>8, <2>9, <2>10
<1>21. Answers'
  <2> SUFFICES ASSUME NEW n \in DOMAIN asks, asks[n].st = "waiting", task = "running"
               PROVE  UnderWay(n)'
    BY <1>1, <1>2 DEF Answers
  <2>1. UnderWay(n)
    BY <1>1, <1>2 DEF Answers
  <2>2. ASSUME NEW l \in DOMAIN registered, registered[l].kind = "ask", registered[l].of = n,
               NEW x \in DOMAIN up, up[x].prefix = "ask", up[x].call = l
        PROVE  UnderWay(n)'
    <3>1. CASE x = 1
      <4>1. \E y \in DOMAIN down' : down'[y].call = l
        BY <1>3, <1>5, <1>6, <2>2, <3>1
      <4> QED BY <1>2, <2>2, <4>1 DEF UnderWay
    <3>2. CASE x # 1
      <4>1. \E y \in DOMAIN up' : up'[y].prefix = "ask" /\ up'[y].call = l
        BY <1>3, <2>2, <3>2
      <4> QED BY <1>2, <2>2, <4>1 DEF UnderWay
    <3> QED BY <3>1, <3>2
  <2>3. ASSUME NEW l \in DOMAIN registered, registered[l].kind = "ask", registered[l].of = n,
               NEW x \in DOMAIN down, down[x].call = l
        PROVE  UnderWay(n)'
    <3>1. \E y \in DOMAIN down' : down'[y].call = l
      BY <1>6, <2>3
    <3> QED BY <1>2, <2>3, <3>1 DEF UnderWay
  <2> QED BY <1>2, <2>1, <2>2, <2>3 DEF UnderWay
<1>22. Subscriptions'
  <2> SUFFICES ASSUME NEW c \in Chats, chat_subs'[c] # 0, task = "running"
               PROVE  Subscribed(c)'
    BY <1>2 DEF Subscriptions
  <2>1. PICK k : k = chat_subs'[c]
    OBVIOUS
  <2>2. CASE c = m.topic /\ m.prefix = "new" /\ a.body = "ok" /\ chat_subs'[c] = m.call
    <3>1. m.call \in DOMAIN registered /\ registered[m.call].kind = "new" /\ registered[m.call].of = m.of
      BY <1>4, <2>2
    <3>2. registered[m.call].topic = m.topic
      BY <1>1, <1>4, <2>2, <3>1 DEF Registered
    <3>3. Granted(k)'
      BY <1>19, <2>1, <2>2
    <3> QED BY <1>2, <2>1, <2>2, <3>1, <3>2, <3>3 DEF Subscribed, Granted
  <2>3. CASE chat_subs'[c] = chat_subs[c] /\ ~(c = m.topic /\ m.prefix = "unsubscribe")
    <3>1. Subscribed(c)
      BY <1>1, <1>2, <2>3 DEF Subscriptions
    <3>2. Granted(k) => Granted(k)'
      BY <1>18
    <3>3. CASE \E x \in DOMAIN up : up[x].prefix = "unsubscribe" /\ up[x].topic = c
      BY <1>3, <2>3, <3>3 DEF Subscribed
    <3> QED BY <1>2, <2>1, <2>3, <3>1, <3>2, <3>3 DEF Subscribed, Granted
  <2> QED BY <1>8, <2>2, <2>3
<1>23. Sequenced'
  <2> SUFFICES ASSUME NEW i \in DOMAIN receivers', receivers'[i].open, receivers'[i].call # 0
               PROVE  Follow(EventsFor(receivers[i])', receivers'[i]) /\ Complete(i)'
    BY DEF Sequenced
  <2>1. PICK k : k = receivers[i].call /\ k # 0 /\ receivers'[i].call = k
    BY <1>7
  <2>2. EventsOf(down', k) = EventsOf(down, k)
    <3>1. down \in Seq(Message) /\ ~IsEvent(a, k)
      BY <1>1, <1>5 DEF Types, IsEvent
    <3> QED BY <1>5, <3>1, EventsAppend
  <2>3. Coming(k)' = Coming(k)
    BY <1>2, <2>2 DEF Coming
  <2>4. EventsFor(receivers[i])' = EventsFor(receivers[i])
    BY <1>2, <1>7, <2>1, <2>3 DEF EventsFor, Coming
  <2>5. Follow(EventsFor(receivers[i]), receivers[i]) /\ Complete(i)
    BY <1>1, <1>7 DEF Sequenced
  <2>6. CASE m.prefix = "new" /\ a.body = "ok" /\ i = m.of
    <3>1. EventsFor(receivers[i]) = <<>>
      <4>1. Unheard(k) /\ receivers[i].buf = <<>> /\ receivers[i].got = <<>>
        BY <1>4, <2>1, <2>6
      <4>2. held \in Seq(Message) /\ down \in Seq(Message) /\ events \in Seq(Message)
        BY <1>1 DEF Types
      <4>3. /\ \A x \in DOMAIN held : ~IsEvent(held[x], k)
            /\ \A x \in DOMAIN down : ~IsEvent(down[x], k)
            /\ \A x \in DOMAIN events : ~IsEvent(events[x], k)
        BY <4>1 DEF Unheard, IsEvent
      <4>4. EventsOf(held, k) = <<>> /\ EventsOf(down, k) = <<>> /\ EventsOf(events, k) = <<>>
        BY <4>2, <4>3, EventsNone
      <4>5. <<>> \o <<>> = <<>>
        OBVIOUS
      <4> QED BY <2>1, <4>1, <4>4, <4>5 DEF EventsFor, Coming
    <3>2. receivers'[i].from = posted[m.topic] /\ receivers'[i].topic = m.topic /\ posted[m.topic] \in Nat
      BY <1>1, <1>4, <1>7, <2>6 DEF Types
    <3>3. Len(<<>>) = posted[m.topic] - posted[m.topic]
      BY <3>2
    <3> QED BY <1>2, <2>4, <3>1, <3>2, <3>3 DEF Follow, Complete
  <2>7. CASE receivers'[i] = receivers[i] /\ ~(m.prefix = "new" /\ a.body = "ok" /\ k = m.call)
    <3>1. Follow(EventsFor(receivers[i])', receivers'[i])
      BY <2>4, <2>5, <2>7
    <3>2. receivers[i].topic \in Chats
      <4>1. receivers[i] \in Receiver
        BY <1>1, <1>7 DEF Types
      <4> QED BY <4>1 DEF Receiver
    <3>3. chat_subs'[receivers[i].topic] = k => chat_subs[receivers[i].topic] = k
      BY <1>8, <2>1, <2>7, <3>2
    <3>4. Complete(i)'
      BY <1>2, <2>1, <2>4, <2>5, <2>7, <3>3 DEF Complete
    <3> QED BY <3>1, <3>4
  <2>8. m.prefix = "new" /\ k = m.call => i = m.of
    BY <1>1, <1>4, <1>7, <2>1 DEF Numbers
  <2>9. receivers'[i] = receivers[i] \/ (m.prefix = "new" /\ a.body = "ok" /\ k = m.call)
    BY <1>7, <2>1
  <2> QED BY <2>6, <2>7, <2>8, <2>9
<1> QED BY <1>9, <1>10, <1>11, <1>13, <1>15, <1>17, <1>20, <1>21, <1>22, <1>23 DEF CallsInv

-----------------------------------------------------------------------------
LEMMA CallsInit ==
    SubscriptionsInit => CallsInv
<1> SUFFICES ASSUME SubscriptionsInit
             PROVE  CallsInv
  OBVIOUS
<1>1. /\ receivers = <<>> /\ asks = <<>> /\ outbox = <<>> /\ held = <<>> /\ calls = 0
      /\ up = <<>> /\ down = <<>> /\ events = <<>> /\ DOMAIN registered = {}
      /\ chat_subs = [c \in Chats |-> 0] /\ posted = [c \in Chats |-> 0]
  BY DEF SubscriptionsInit
<1>2. Types
  BY <1>1 DEF Types
<1>3. Numbers /\ ToWrite /\ Registered /\ ToServe /\ Holding
  BY <1>1 DEF Numbers, ToWrite, Registered, ToServe, Holding
<1>4. Pushed /\ Linked /\ Answers /\ Subscriptions /\ Sequenced
  BY <1>1 DEF Pushed, Linked, Answers, Subscriptions, Sequenced
<1> QED BY <1>2, <1>3, <1>4 DEF CallsInv

LEMMA CallsStep ==
    CallsInv /\ [SubscriptionsNext]_subscriptions => CallsInv'
<1> SUFFICES ASSUME CallsInv, [SubscriptionsNext]_subscriptions
             PROVE  CallsInv'
  OBVIOUS
<1>1. ASSUME NEW c \in Chats, Subscribe(c) \/ Ask(c) \/ PushChatEvent(c)
      PROVE  CallsInv'
  BY <1>1, SubscribeStep, AskStep, PushChatEventStep
<1>2. ASSUME NEW n \in DOMAIN asks, AskTimeout(n)
      PROVE  CallsInv'
  BY <1>2, AskTimeoutStep
<1>3. ASSUME NEW i \in DOMAIN receivers, Consume(i) \/ DropReceiver(i)
      PROVE  CallsInv'
  BY <1>3, ConsumeStep, DropReceiverStep
<1>4. ASSUME WriteRequest \/ ReadResponse \/ HandOver \/ Unsubscribe \/ EndTask
      PROVE  CallsInv'
  BY <1>4, WriteRequestStep, ReadResponseStep, HandOverStep, UnsubscribeStep, EndTaskStep
<1>5. ASSUME ServeRequest \/ ForwardEvent \/ EndSession \/ RemoveClient
      PROVE  CallsInv'
  BY <1>5, ServeRequestStep, ForwardEventStep, EndSessionStep, RemoveClientStep
<1>6. CASE UNCHANGED subscriptions
  <2>1. /\ Types /\ Numbers /\ ToWrite /\ Registered /\ ToServe /\ Pushed /\ Holding
        /\ Linked /\ Answers /\ Subscriptions /\ Sequenced
    BY DEF CallsInv
  <2>2. UNCHANGED <<receivers, asks, outbox, registered, held, calls, task, up, down, run_client,
                    events, chat_subs, posted>>
    BY <1>6 DEF subscriptions, client_side, server_side
  <2>3. Types' /\ Numbers' /\ ToWrite' /\ Holding'
    BY <2>1, <2>2 DEF Types, Numbers, ToWrite, Holding
  <2>4. Registered' /\ ToServe' /\ Pushed'
    BY <2>1, <2>2 DEF Registered, ToServe, Pushed, OfReceiver, OfChat, Unheard
  <2>5. Linked' /\ Answers' /\ Subscriptions'
    BY <2>1, <2>2 DEF Linked, Silent, Known, Granted, Answers, UnderWay, Subscriptions, Subscribed
  <2>6. Sequenced'
    BY <2>1, <2>2, SequencedAlike
  <2> QED BY <2>3, <2>4, <2>5, <2>6 DEF CallsInv
<1> QED BY <1>1, <1>2, <1>3, <1>4, <1>5, <1>6 DEF SubscriptionsNext

\* The inductive invariant holds throughout.
LEMMA CallsInvariant == SubscriptionsSpec => []CallsInv
<1> QED BY CallsInit, CallsStep, PTL DEF SubscriptionsSpec

\* A receiver is given the events of its chat from its subscription on in order and without
\* a gap, however many subscriptions the client has to the chat, whatever it drops, is
\* refused or has cancelled, and whoever ends the stream; what the server still pushes to
\* is complete (push_chat_event, run_client, RawSub::run).
THEOREM SubscriptionsHaveNoGaps == SubscriptionsSpec => []NoGaps
<1>1. CallsInv => NoGaps
  <2> SUFFICES ASSUME CallsInv, NEW i \in DOMAIN receivers, receivers[i].open, receivers[i].call # 0
               PROVE  LET r == receivers[i]  s == EventsFor(r) IN
                      /\ \A k \in DOMAIN s : s[k].topic = r.topic /\ s[k].n = r.from + k
                      /\ chat_subs[r.topic] = r.call /\ run_client = "live" /\ task = "running" =>
                           Len(s) = posted[r.topic] - r.from
    BY DEF NoGaps
  <2>1. Follow(EventsFor(receivers[i]), receivers[i]) /\ Complete(i)
    BY DEF CallsInv, Sequenced
  <2> HIDE DEF EventsFor
  <2> QED BY <2>1 DEF Follow, Complete
<1> QED BY <1>1, CallsInvariant, PTL

\* Five queues that are empty together are empty.
LEMMA AllEmpty ==
    ASSUME NEW S, NEW a \in Seq(S), NEW b \in Seq(S), NEW c \in Seq(S), NEW d \in Seq(S),
           NEW e \in Seq(S), a \o b \o c \o d \o e = <<>>
    PROVE  a = <<>> /\ b = <<>> /\ c = <<>> /\ d = <<>> /\ e = <<>>
<1>1. \A s, t \in Seq(S) : s \o t \in Seq(S) /\ (s \o t = <<>> => s = <<>> /\ t = <<>>)
  <2> SUFFICES ASSUME NEW s \in Seq(S), NEW t \in Seq(S)
               PROVE  s \o t \in Seq(S) /\ (s \o t = <<>> => s = <<>> /\ t = <<>>)
    OBVIOUS
  <2>1. s \o t \in Seq(S) /\ Len(s \o t) = Len(s) + Len(t) /\ Len(s) \in Nat /\ Len(t) \in Nat
    BY ConcatFacts
  <2>2. ASSUME s \o t = <<>>
        PROVE  s = <<>> /\ t = <<>>
    <3>1. Len(s \o t) = 0
      BY <2>2
    <3>2. Len(s) = 0 /\ Len(t) = 0
      BY <2>1, <3>1
    <3> QED BY <3>2
  <2> QED BY <2>1, <2>2
<1>2. a \o b \in Seq(S) /\ a \o b \o c \in Seq(S) /\ a \o b \o c \o d \in Seq(S)
  BY <1>1
<1>3. a \o b \o c \o d = <<>> /\ e = <<>>
  BY <1>1, <1>2
<1>4. a \o b \o c = <<>> /\ d = <<>>
  BY <1>1, <1>2, <1>3
<1>5. a \o b = <<>> /\ c = <<>>
  BY <1>1, <1>2, <1>4
<1> QED BY <1>1, <1>3, <1>4, <1>5

\* Every answer is given to the request it is for; and once nothing is under way nobody
\* waits for one, and the server pushes to no call that the client has forgotten or takes
\* for something else (RawSub::run, subscribe, unsubscribe).
THEOREM BothEndsAgree == SubscriptionsSpec => []CallsAgree
<1>1. CallsInv => CallsAgree
  <2> SUFFICES ASSUME CallsInv
               PROVE  CallsAgree
    OBVIOUS
  <2>1. Types /\ Answers /\ Subscriptions
    BY DEF CallsInv
  <2>2. ASSUME task = "running", run_client = "live", outbox \o held \o up \o down \o events = <<>>
        PROVE  /\ \A n \in DOMAIN asks : asks[n].st # "waiting"
               /\ \A c \in Chats : chat_subs[c] # 0 =>
                    /\ chat_subs[c] \in DOMAIN registered
                    /\ registered[chat_subs[c]].kind = "sub" /\ registered[chat_subs[c]].topic = c
    <3> DEFINE U == Request \cup Message \cup Sent
    <3>1. /\ outbox \in Seq(U) /\ held \in Seq(U) /\ up \in Seq(U) /\ down \in Seq(U)
          /\ events \in Seq(U)
      <4>1. /\ outbox \in Seq(Request) /\ held \in Seq(Message) /\ up \in Seq(Sent)
            /\ down \in Seq(Message) /\ events \in Seq(Message)
        BY <2>1 DEF Types
      <4>2. Request \subseteq U /\ Message \subseteq U /\ Sent \subseteq U
        OBVIOUS
      <4> HIDE DEF U
      <4> QED BY <4>1, <4>2
    <3> HIDE DEF U
    <3>2. outbox = <<>> /\ up = <<>> /\ down = <<>>
      BY <2>2, <3>1, AllEmpty
    <3>3. \A n \in DOMAIN asks : asks[n].st # "waiting"
      BY <2>1, <2>2, <3>2 DEF Answers, UnderWay
    <3>4. \A k : ~Granted(k)
      BY <3>2 DEF Granted
    <3> QED BY <2>1, <2>2, <3>2, <3>3, <3>4 DEF Subscriptions, Subscribed
  <2>3. \A n \in DOMAIN asks : asks[n].st = "done" => asks[n].answer = n
    BY <2>1 DEF Answers
  <2> QED BY <2>2, <2>3 DEF CallsAgree
<1> QED BY <1>1, CallsInvariant, PTL
=============================================================================
