---------------------------- MODULE StreamCache -----------------------------
(***************************************************************************)
(* Requests one server sends to another over streams that both keep for    *)
(* the next request: the caller in its StreamCache, the callee among the   *)
(* streams it waits for a header on (stream_pool).  A stream is a record   *)
(* of both ends and of what is on the way; a request and its answer are    *)
(* the number of the call and the time they were sent.                     *)
(*                                                                         *)
(* A call to a whole replication group (repl_rpc_low) takes a stream from  *)
(* the cache, or opens one, and holds it until it has a stream to every    *)
(* other member; only then does it write, to all of them, and go on when   *)
(* all is written.  Nothing limits either wait (JoinAll).  Some requests   *)
(* are answered and some (SEND_BLOCK, VOTE_BLOCK, size_of R = 0, NoResp)   *)
(* are not; the stream of the latter is kept when the call goes on.  A     *)
(* stream takes at most Delay to carry what is written; the code allows    *)
(* for that, and for no more, by giving its cached streams up early.       *)
(***************************************************************************)
EXTENDS Integers, Sequences, Subsequences

CONSTANTS CacheSize,    \* STREAM_CACHE_SIZE
          Lifetime,     \* STREAM_POOL_STREAM_LIFETIME
          Margin,       \* what the caller takes off it
          Delay,        \* bound on the time a stream takes to carry a message
          MaxAge,       \* bound on the clock
          MaxStreams,   \* bound: streams opened
          MaxWork       \* bound: streams opened and requests sent

ASSUME CacheAssumption ==
    /\ {CacheSize, Lifetime, Margin, Delay, MaxAge, MaxStreams, MaxWork} \subseteq Nat
    /\ Margin < Lifetime

\* The margin covers the way of an answer and of the request after it.
ASSUME MarginAssumption == 2 * Delay <= Margin

VARIABLES streams,      \* every stream opened so far
          recycled,     \* StreamCache::recycled of the peer, as stream numbers
          requests,     \* requests sent so far
          time

cache == <<streams, recycled, requests, time>>

\* caller: "held" by a call that has not written, since taken; "written" with a request
\* that is not answered, at taken; "busy" with one that is; "kept" in the cache or "gone".
\* lag: how long the call before held the stream after it had written.
\* callee: waiting for a header, "handling" a request, or closed, "expired" if it gave
\* the stream up after Lifetime.  since is when it began to wait, -1 for server_request,
\* which waits for the first header for ever.
FreshStream == [caller |-> "held", call |-> 0, taken |-> time, kept |-> 0, lag |-> 0, out |-> <<>>,
                callee |-> "waiting", since |-> -1, at |-> 0, answered |-> FALSE, back |-> <<>>]

\* lag: how long calls held the stream before a request was on it, after the last one
Message(k, answered, lag) == [call |-> k, answered |-> answered, at |-> time, lag |-> lag]

CacheInit == streams = <<>> /\ recycled = <<>> /\ requests = 0 /\ time = 0

\* StreamCache::recycle: a full cache drops the stream.
Recycle(rec, i) == IF Len(rec) < CacheSize THEN Append(rec, i) ELSE rec
Kept(s, rec) == IF Len(rec) < CacheSize THEN [s EXCEPT !.caller = "kept", !.kept = time]
                ELSE [s EXCEPT !.caller = "gone"]

\* Mutant of Lives: the caller keeps a stream as long as the callee does.
LivesOn(s) == time - s.kept < Lifetime

\* The retain of StreamCache::reuse
Lives(s) == time - s.kept < Lifetime - Margin

Retained == At(recycled, {k \in DOMAIN recycled : Lives(streams[recycled[k]])})
Retire(ss) == [i \in DOMAIN ss |-> IF ss[i].caller = "kept" /\ ~Lives(ss[i])
                                   THEN [ss[i] EXCEPT !.caller = "gone"] ELSE ss[i]]

\* open_stream_with, when send_rpc or the JoinAll of repl_rpc_low first polls it: the
\* latest stream that is not too old, or a new one.
Open ==
    /\ requests + Len(streams) < MaxWork
    /\ \E rest \in {Retained} :
       \/ /\ rest # <<>>
          /\ streams' = [Retire(streams) EXCEPT ![rest[Len(rest)]].caller = "held",
                                                ![rest[Len(rest)]].taken = time]
          /\ recycled' = SubSeq(rest, 1, Len(rest) - 1)
       \/ /\ rest = <<>>
          /\ Len(streams) < MaxStreams
          /\ streams' = Append(Retire(streams), FreshStream)
          /\ recycled' = rest
    /\ UNCHANGED <<requests, time>>

\* A stream after a request was written to it
WithRequest(s, answered) ==
    [s EXCEPT !.caller = IF answered THEN "busy" ELSE "written", !.call = requests + 1,
              !.taken = time, !.lag = 0,
              !.out = Append(@, Message(requests + 1, answered, s.lag + time - s.taken))]

\* The write of send_rpc, which follows at once, or of repl_rpc_low, when it has a
\* stream to every member that can be reached.
Write(i, answered) ==
    /\ requests + Len(streams) < MaxWork
    /\ requests' = requests + 1
    /\ streams[i].caller = "held"
    /\ streams' = [streams EXCEPT ![i] = WithRequest(streams[i], answered)]
    /\ UNCHANGED <<recycled, time>>

\* Everything is written and nobody answers: the stream is recycled.
KeepUnanswered(i) ==
    LET s == streams[i] IN
    /\ s.caller = "written"
    /\ streams' = [streams EXCEPT ![i] = Kept([s EXCEPT !.lag = time - s.taken], recycled)]
    /\ recycled' = Recycle(recycled, i)
    /\ UNCHANGED <<requests, time>>

\* Mutant of GiveUp: a stream whose answer did not come in time is recycled.
GiveUpKeeps(i) ==
    /\ streams[i].caller = "busy"
    /\ streams' = [streams EXCEPT ![i] = Kept(@, recycled)]
    /\ recycled' = Recycle(recycled, i)
    /\ UNCHANGED <<requests, time>>

\* The timeout of repl_rpc_low, an error, or the end of the task: the stream is dropped.
GiveUp(i) ==
    /\ streams[i].caller \in {"held", "written", "busy"}
    /\ streams' = [streams EXCEPT ![i].caller = "gone"]
    /\ UNCHANGED <<recycled, requests, time>>

\* The end of send_rpc or of a read in repl_rpc_low
ReadAnswer(i) ==
    LET s == streams[i] IN
    /\ s.caller = "busy" /\ s.back # <<>>
    /\ streams' = [streams EXCEPT ![i] = Kept([s EXCEPT !.back = Tail(s.back)], recycled)]
    /\ recycled' = Recycle(recycled, i)
    /\ UNCHANGED <<requests, time>>

\* server_request or pool_stream has a header, server_response runs the handler.
Handle(i) ==
    LET s == streams[i] IN
    /\ s.callee = "waiting" /\ s.out # <<>>
    /\ streams' = [streams EXCEPT ![i] = [s EXCEPT !.callee = "handling", !.at = Head(s.out).call,
                                           !.answered = Head(s.out).answered, !.out = Tail(@)]]
    /\ UNCHANGED <<recycled, requests, time>>

\* server_response is done: the answer, if there is one, is written and the stream
\* goes to the pool; if recycled_streams is full it is dropped.
Respond(i) ==
    LET s == streams[i] IN
    /\ s.callee = "handling"
    /\ \E after \in {"waiting", "closed"} :
         streams' = [streams EXCEPT ![i].callee = after, ![i].since = time,
                       ![i].back = IF s.answered THEN Append(@, Message(s.at, TRUE, 0)) ELSE @]
    /\ UNCHANGED <<recycled, requests, time>>

\* server_response fails: the caller is not in the callee's replication group, the
\* request does not decode or the prefix is unknown.
Refuse(i) ==
    /\ streams[i].callee = "handling"
    /\ streams' = [streams EXCEPT ![i].callee = "closed"]
    /\ UNCHANGED <<recycled, requests, time>>

\* The timeout of pool_stream
Expire(i) ==
    /\ streams[i].callee = "waiting" /\ streams[i].since # -1
    /\ time - streams[i].since >= Lifetime
    /\ streams' = [streams EXCEPT ![i].callee = "expired"]
    /\ UNCHANGED <<recycled, requests, time>>

\* Time passes unless a message is due.
Elapse ==
    /\ time < MaxAge
    /\ \A i \in DOMAIN streams :
         /\ streams[i].callee = "waiting" =>
              \A k \in DOMAIN streams[i].out : time - streams[i].out[k].at < Delay
         /\ streams[i].caller = "busy" =>
              \A k \in DOMAIN streams[i].back : time - streams[i].back[k].at < Delay
    /\ time' = time + 1
    /\ UNCHANGED <<streams, recycled, requests>>

CacheNext ==
    \/ Open
    \/ \E i \in DOMAIN streams :
         \/ \E answered \in BOOLEAN : Write(i, answered)
         \/ KeepUnanswered(i) \/ GiveUp(i) \/ ReadAnswer(i)
         \/ Handle(i) \/ Respond(i) \/ Refuse(i) \/ Expire(i)
    \/ Elapse

CacheSpec == CacheInit /\ [][CacheNext]_cache
-----------------------------------------------------------------------------
\* The answer a caller is about to read is the answer to the request it is waiting
\* with: no stream is reused with an answer of an earlier request on it, whichever
\* requests are given up, left unanswered or refused (send_rpc, repl_rpc_low; the
\* headers carry no call that would tell).
AnswersMatch ==
    \A i \in DOMAIN streams : streams[i].caller = "busy" /\ streams[i].back # <<>> =>
      Head(streams[i].back).call = streams[i].call

\* A request is lost on a stream its callee has given up only because calls held the
\* stream: the first one lost was behind by more than is left of the two seconds
\* StreamCache::reuse takes off the lifetime when an answer and a request had their time.
\* A caller that waits for nobody else loses none, also on a stream that was kept before
\* its request was handled.  (Requests nobody answers may follow the first one.)
ReusedInTime ==
    \A i \in DOMAIN streams : streams[i].callee = "expired" /\ streams[i].out # <<>> =>
      streams[i].out[1].lag > Margin - 2 * Delay
=============================================================================
