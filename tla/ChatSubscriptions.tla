------------------------- MODULE ChatSubscriptions --------------------------
(***************************************************************************)
(* One stream between a client and a server: RawSub::run at the client,    *)
(* which numbers the calls of the user interface and hands each answer or  *)
(* event to the call it belongs to, and run_client at the server, which    *)
(* serves one request at a time and writes the events that other requests  *)
(* queue for the client.  Chat events are numbered per chat.               *)
(*                                                                         *)
(* Headers arrive in one piece here: both loops drop an unfinished         *)
(* read_exact when the other branch of their select is ready.  CallIds     *)
(* wrap at 2^32 in the code and not here.                                  *)
(***************************************************************************)
EXTENDS Integers, Sequences, Functions, Subsequences

CONSTANTS Chats,
          QueueCap,     \* events a session may have queued (Client::new)
          ChannelCap,   \* events a receiver may have waiting (Sub::subscribe)
          MaxReceivers, \* bound: subscriptions the client asks for
          MaxAsks,      \* bound: other requests
          MaxEvents     \* bound: events of all chats

ASSUME SubscriptionsAssumption ==
    /\ {QueueCap, ChannelCap} \subseteq Nat \ {0}
    /\ {MaxReceivers, MaxAsks, MaxEvents} \subseteq Nat

VARIABLES receivers,    \* what subscribe gave the user interface, one after the other
          asks,         \* the requests it waits for
          outbox,       \* requests for the task of the stream
          registered,   \* the calls it knows: Calls
          held,         \* the event it is handing over, if any
          calls,        \* COUNTER of next_call_id
          task,         \* the task: "running" or "ended"
          up, down,     \* the two directions of the stream
          run_client,   \* the session: "live", "dead" or, not in clients any more, "gone"
          events,       \* its queue
          chat_subs,    \* the call subscribed to each chat, or 0
          posted        \* events of each chat so far

client_side == <<receivers, asks, outbox, registered, held, calls, task>>
server_side == <<run_client, events, chat_subs, posted>>
subscriptions == <<client_side, up, down, server_side>>

Event(c, n) == [body |-> "event", call |-> chat_subs[c], topic |-> c, n |-> n]
Answer(m, body) == [body |-> body, call |-> m.call, topic |-> m.topic, n |-> m.of]
Without(f, k) == [x \in DOMAIN f \ {k} |-> f[x]]
With(f, k, v) == [x \in DOMAIN f \cup {k} |-> IF x = k THEN v ELSE f[x]]

SubscriptionsInit ==
    /\ receivers = <<>> /\ asks = <<>> /\ outbox = <<>> /\ held = <<>> /\ calls = 0
    /\ registered = [k \in {} |-> 0]
    /\ task = "running" /\ run_client = "live"
    /\ up = <<>> /\ down = <<>> /\ events = <<>>
    /\ chat_subs = [c \in Chats |-> 0]
    /\ posted = [c \in Chats |-> 0]
-----------------------------------------------------------------------------
\* Sub::subscribe.  call and from are history: the call it became, and how many events
\* there were when the server knew of it.
Subscribe(c) ==
    /\ task = "running" /\ Len(receivers) < MaxReceivers
    /\ receivers' = Append(receivers, [topic |-> c, call |-> 0, from |-> 0, open |-> TRUE,
                                       buf |-> <<>>, got |-> <<>>])
    /\ outbox' = Append(outbox, [kind |-> "new", topic |-> c, of |-> Len(receivers) + 1])
    /\ UNCHANGED <<asks, registered, held, calls, task, up, down, server_side>>

\* RawSub::request and its end after three seconds
Ask(c) ==
    /\ task = "running" /\ Len(asks) < MaxAsks
    /\ asks' = Append(asks, [st |-> "waiting", answer |-> 0])
    /\ outbox' = Append(outbox, [kind |-> "ask", topic |-> c, of |-> Len(asks) + 1])
    /\ UNCHANGED <<receivers, registered, held, calls, task, up, down, server_side>>

AskTimeout(n) ==
    /\ asks[n].st = "waiting"
    /\ asks' = [asks EXCEPT ![n].st = "timeout"]
    /\ UNCHANGED <<receivers, outbox, registered, held, calls, task, up, down, server_side>>

\* The user interface takes an event, or is not interested any more.
Consume(i) ==
    /\ receivers[i].open /\ receivers[i].buf # <<>>
    /\ LET r == receivers[i] IN
       receivers' = [receivers EXCEPT ![i] = [r EXCEPT !.got = Append(r.got, Head(r.buf)),
                                                       !.buf = Tail(r.buf)]]
    /\ UNCHANGED <<asks, outbox, registered, held, calls, task, up, down, server_side>>

DropReceiver(i) ==
    /\ receivers[i].open
    /\ receivers' = [receivers EXCEPT ![i].open = FALSE, ![i].buf = <<>>]
    /\ UNCHANGED <<asks, outbox, registered, held, calls, task, up, down, server_side>>

\* handle_request of RawSub::run
WriteRequest ==
    /\ task = "running" /\ held = <<>> /\ outbox # <<>>
    /\ LET r == Head(outbox) IN
       /\ up' = Append(up, [prefix |-> r.kind, call |-> calls + 1, topic |-> r.topic, of |-> r.of])
       /\ registered' = With(registered, calls + 1, r)
       /\ receivers' = IF r.kind = "new" THEN [receivers EXCEPT ![r.of].call = calls + 1]
                       ELSE receivers
    /\ calls' = calls + 1 /\ outbox' = Tail(outbox)
    /\ UNCHANGED <<asks, held, task, down, server_side>>

\* handle_response of RawSub::run for all but a chat event: a call that is not known is
\* logged; a subscription that was refused is forgotten; an answer nobody waits for is lost.
ReadResponse ==
    /\ task = "running" /\ held = <<>> /\ down # <<>>
    /\ down' = Tail(down)
    /\ LET m == Head(down)
           kind == IF m.call \in DOMAIN registered THEN registered[m.call].kind ELSE "none"
           n == registered[m.call].of
       IN \/ /\ kind = "none" \/ (kind = "sub" /\ m.body # "event")
             /\ UNCHANGED <<registered, asks, held>>
          \/ /\ kind = "new"
             /\ registered' = IF m.body = "ok" THEN [registered EXCEPT ![m.call].kind = "sub"]
                              ELSE Without(registered, m.call)
             /\ UNCHANGED <<asks, held>>
          \/ /\ kind = "ask"
             /\ registered' = Without(registered, m.call)
             /\ asks' = IF asks[n].st = "waiting" THEN [asks EXCEPT ![n] = [st |-> "done", answer |-> m.n]]
                        ELSE asks
             /\ UNCHANGED held
          \/ /\ kind = "sub" /\ m.body = "event"
             /\ held' = <<m>>
             /\ UNCHANGED <<registered, asks>>
    /\ UNCHANGED <<receivers, outbox, calls, task, up, server_side>>

\* ... and for a chat event: the loop stands still while the receiver has no room.
HandOver ==
    /\ task = "running" /\ held # <<>>
    /\ LET i == registered[held[1].call].of IN
       /\ receivers[i].open /\ Len(receivers[i].buf) < ChannelCap
       /\ receivers' = [receivers EXCEPT ![i].buf = Append(@, held[1])]
    /\ held' = <<>>
    /\ UNCHANGED <<asks, outbox, registered, calls, task, up, down, server_side>>

\* Mutant of Unsubscribe: the client only forgets the call.
UnsubscribeSilently ==
    /\ task = "running" /\ held # <<>>
    /\ ~receivers[registered[held[1].call].of].open
    /\ registered' = Without(registered, held[1].call)
    /\ held' = <<>>
    /\ UNCHANGED <<receivers, asks, outbox, calls, task, up, down, server_side>>

\* ... and its unsubscribe, when the receiver is gone.  Its answer belongs to no call.
Unsubscribe ==
    /\ task = "running" /\ held # <<>>
    /\ ~receivers[registered[held[1].call].of].open
    /\ registered' = Without(registered, held[1].call)
    /\ up' = Append(up, [prefix |-> "unsubscribe", call |-> calls + 1,
                         topic |-> held[1].topic, of |-> 0])
    /\ calls' = calls + 1 /\ held' = <<>>
    /\ UNCHANGED <<receivers, asks, outbox, task, down, server_side>>

\* The stream fails, or every Sub of it is dropped: the calls fail with it.
EndTask ==
    /\ task = "running" /\ task' = "ended"
    /\ asks' = [n \in DOMAIN asks |-> IF asks[n].st = "waiting"
                                      THEN [asks[n] EXCEPT !.st = "failed"] ELSE asks[n]]
    /\ outbox' = <<>> /\ held' = <<>> /\ registered' = [k \in {} |-> 0] /\ down' = <<>>
    /\ UNCHANGED <<receivers, calls, up, server_side>>
-----------------------------------------------------------------------------
\* handle_request of run_client.  A subscription replaces the one the client has for the
\* chat; it is refused where the server lacks the chat.  unsubscribe goes by the chat.
ServeRequest ==
    /\ run_client = "live" /\ up # <<>>
    /\ up' = Tail(up)
    /\ LET m == Head(up) IN
       \/ /\ m.prefix = "ask"
          /\ down' = Append(down, Answer(m, "answer"))
          /\ UNCHANGED <<chat_subs, receivers>>
       \/ /\ m.prefix = "new"
          /\ chat_subs' = [chat_subs EXCEPT ![m.topic] = m.call]
          /\ receivers' = [receivers EXCEPT ![m.of].from = posted[m.topic]]
          /\ down' = Append(down, Answer(m, "ok"))
       \/ /\ m.prefix = "new"
          /\ down' = Append(down, Answer(m, "not_found"))
          /\ UNCHANGED <<chat_subs, receivers>>
       \/ /\ m.prefix = "unsubscribe"
          /\ chat_subs' = [chat_subs EXCEPT ![m.topic] = 0]
          /\ down' = Append(down, Answer(m, IF chat_subs[m.topic] = 0 THEN "not_found" ELSE "ok"))
          /\ UNCHANGED receivers
    /\ UNCHANGED <<asks, outbox, registered, held, calls, task, run_client, events, posted>>

\* handle_event of run_client
ForwardEvent ==
    /\ run_client = "live" /\ events # <<>>
    /\ down' = Append(down, Head(events)) /\ events' = Tail(events)
    /\ UNCHANGED <<client_side, up, run_client, chat_subs, posted>>

\* Mutant of PushChatEvent: a client whose queue is full keeps its subscription.
PushChatEventKeeps(c) ==
    /\ posted' = [posted EXCEPT ![c] = @ + 1]
    /\ events' = IF chat_subs[c] # 0 /\ run_client = "live" /\ Len(events) < QueueCap
                 THEN Append(events, Event(c, posted[c] + 1)) ELSE events
    /\ chat_subs' = IF run_client = "live" THEN chat_subs ELSE [chat_subs EXCEPT ![c] = 0]
    /\ UNCHANGED <<client_side, up, down, run_client>>

\* push_chat_event: a subscriber that is gone, has ended or has a full queue is forgotten.
PushChatEvent(c) ==
    LET fits == run_client = "live" /\ Len(events) < QueueCap IN
    /\ posted' = [posted EXCEPT ![c] = @ + 1]
    /\ events' = IF chat_subs[c] # 0 /\ fits THEN Append(events, Event(c, posted[c] + 1)) ELSE events
    /\ chat_subs' = IF fits THEN chat_subs ELSE [chat_subs EXCEPT ![c] = 0]
    /\ UNCHANGED <<client_side, up, down, run_client>>

\* run_client returns an error: the stream ended, or a request was out of order; the
\* entry in clients goes after that.
EndSession ==
    /\ run_client = "live" /\ run_client' = "dead"
    /\ events' = <<>> /\ up' = <<>>
    /\ UNCHANGED <<client_side, down, chat_subs, posted>>

RemoveClient ==
    /\ run_client = "dead" /\ run_client' = "gone"
    /\ UNCHANGED <<client_side, up, down, events, chat_subs, posted>>

Posted == FoldFunction(+, 0, posted)

SubscriptionsNext ==
    \/ \E c \in Chats : Subscribe(c) \/ Ask(c) \/ (Posted < MaxEvents /\ PushChatEvent(c))
    \/ \E n \in DOMAIN asks : AskTimeout(n)
    \/ \E i \in DOMAIN receivers : Consume(i) \/ DropReceiver(i)
    \/ WriteRequest \/ ReadResponse \/ HandOver \/ Unsubscribe \/ EndTask
    \/ ServeRequest \/ ForwardEvent \/ EndSession \/ RemoveClient
-----------------------------------------------------------------------------
SubscriptionsSpec == SubscriptionsInit /\ [][SubscriptionsNext]_subscriptions

\* The events for call k in a queue
EventsOf(q, k) == At(q, {j \in DOMAIN q : q[j].body = "event" /\ q[j].call = k})

\* The events a receiver has, and those on their way to it
Coming(k) == EventsOf(held, k) \o EventsOf(down, k) \o EventsOf(events, k)
EventsFor(r) == r.got \o r.buf \o (IF task = "running" THEN Coming(r.call) ELSE <<>>)

\* A receiver gets the events of its chat from its subscription on in order and without
\* a gap, up to where it ends: a client that is too slow loses its subscription, not an
\* event in the middle; and as long as the server has the subscription nothing is missing.
\* So over any mix of subscriptions to one chat, dropped receivers, refusals and ends of
\* either side (push_chat_event, run_client, RawSub::run).
NoGaps ==
    \A i \in DOMAIN receivers :
      LET r == receivers[i]  s == EventsFor(r) IN
      r.open /\ r.call # 0 =>
        /\ \A k \in DOMAIN s : s[k].topic = r.topic /\ s[k].n = r.from + k
        /\ chat_subs[r.topic] = r.call /\ run_client = "live" /\ task = "running" =>
             Len(s) = posted[r.topic] - r.from

\* Once nothing is under way the two ends agree: the server pushes to no call that the
\* client has forgotten or takes for something else, nobody waits for an answer, and
\* every answer went to the request it is for (RawSub::run, subscribe, unsubscribe).
CallsAgree ==
    /\ \A n \in DOMAIN asks : asks[n].st = "done" => asks[n].answer = n
    /\ /\ task = "running" /\ run_client = "live"
       /\ outbox \o held \o up \o down \o events = <<>>
       => /\ \A n \in DOMAIN asks : asks[n].st # "waiting"
          /\ \A c \in Chats : chat_subs[c] # 0 =>
               /\ chat_subs[c] \in DOMAIN registered
               /\ registered[chat_subs[c]].kind = "sub" /\ registered[chat_subs[c]].topic = c
=============================================================================
