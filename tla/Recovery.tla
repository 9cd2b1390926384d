------------------------------ MODULE Recovery ------------------------------
(***************************************************************************)
(* Recovery of a chat on a server that lacks it, or whose answer was in    *)
(* the minority: start_recovery spawns chat::recover, which asks the other *)
(* RF servers of the replication group for their member tables and builds  *)
(* one from what it gets.  reconstruct_chat treats every identity by       *)
(* itself, so a table is the entry of one identity here, or NoEntry.  The  *)
(* requests of members reach the other servers meanwhile, each of them or  *)
(* only some.                                                              *)
(*                                                                         *)
(* ongoing_recovery is cleared as soon as the task is spawned and keeps no *)
(* recovery from running beside another; not_found is never read.  Of the  *)
(* cached Handle only matters whether it is of the directory that exists.  *)
(***************************************************************************)
EXTENDS Integers, FiniteSets, FiniteSetsExt

CONSTANTS Others,       \* the other servers of the group, RF of them
          MaxRecoveries,\* bound: recoveries
          Grants,       \* what a request may grant: permissions, rank, cooldown
          MaxAction,    \* bound on nonces
          MaxSteps      \* bound: recoveries, and requests the others handle

RF == Cardinality(Others)
Tasks == 1 .. MaxRecoveries

ASSUME RecoveryAssumption ==
    /\ IsFiniteSet(Others) /\ {MaxRecoveries, MaxAction, MaxSteps} \subseteq Nat
    /\ Grants \subseteq [permissions : Nat, rank : Nat, action_cooldown_ms : Nat]

VARIABLES tables,       \* tables[o]: the entry in the table of server o
          dir, handle,  \* the chat directory here; the cached Handle: "none", "live"
                        \* or "stale", of a directory that was removed
          local,        \* the entry in the table of that directory
          tasks,        \* the recoveries
          steps         \* requests and recoveries so far

recovery == <<tables, dir, handle, local, tasks, steps>>

NoEntry == [action |-> -1, grant |-> [permissions |-> -1, rank |-> -1, action_cooldown_ms |-> -1],
            frozen_until |-> -1]
Entry(a, g, f) == [action |-> a, grant |-> g, frozen_until |-> f]
Nobody == [o \in {} |-> NoEntry]

\* base: history, what each server granted when the recovery started, and whether it
\* has granted something else since; acted: the nonce a majority had seen by then
Idle == [st |-> "idle", replies |-> Nobody, left |-> {}, result |-> NoEntry,
         base |-> Nobody, acted |-> -1]
Failed == [Idle EXCEPT !.st = "failed"]

RecoveryInit ==
    \E g \in Grants :
      /\ tables = [o \in Others |-> Entry(0, g, 0)]
      /\ dir = FALSE /\ handle = "none" /\ local = NoEntry
      /\ tasks = [t \in Tasks |-> Idle]
      /\ steps = 0
-----------------------------------------------------------------------------
\* Requests at another server.  A member that is added or updated starts with a nonce
\* of 0; one that acts is frozen until some time after that.
Regrant(o, e) ==
    /\ steps < MaxSteps /\ steps' = steps + 1
    /\ tables' = [tables EXCEPT ![o] = e]
    /\ tasks' = [t \in Tasks |-> [tasks[t] EXCEPT
                   !.base = [p \in DOMAIN @ \ {o} |-> @[p]], !.acted = -1]]
    /\ UNCHANGED <<dir, handle, local>>

AddOrUpdate(o) == \E g \in Grants : tables[o].grant # g /\ Regrant(o, Entry(0, g, 0))
Kick(o) == tables[o] # NoEntry /\ Regrant(o, NoEntry)

ActAt(o, n) ==
    /\ tables[o] # NoEntry /\ tables[o].action < n
    /\ steps < MaxSteps /\ steps' = steps + 1
    /\ tables' = [tables EXCEPT ![o].action = n, ![o].frozen_until = n]
    /\ UNCHANGED <<dir, handle, local, tasks>>
-----------------------------------------------------------------------------
\* The largest nonce that enough servers have seen to have it acknowledged (a majority
\* of the group, this server among them at the time)
Acknowledged ==
    Max({-1} \cup {n \in 0 .. MaxAction :
                     Cardinality({o \in Others : tables[o].action >= n}) >= RF \div 2})

\* start_recovery, called by Restore for a chat that is not there, or by Repl when the
\* answer of this server is in the minority.  repl_rpc opens its streams first; servers
\* it gets no stream to, and servers that lack the chat and say so, count for nothing.
StartRecovery(t) ==
    /\ \A u \in 1 .. t : (tasks[u].st = "idle") <=> (u = t)
    /\ steps < MaxSteps /\ steps' = steps + 1
    /\ \E some \in SUBSET Others :
         tasks' = [tasks EXCEPT ![t] = [Idle EXCEPT !.st = "fetch", !.left = some,
                     !.base = [o \in Others |-> tables[o].grant], !.acted = Acknowledged]]
    /\ UNCHANGED <<tables, dir, handle, local>>

\* FETCH_CHAT_DATA at o: export_data; the encoding of a Member leaves frozen_until out
OnWire(e) == IF e = NoEntry THEN e ELSE [e EXCEPT !.frozen_until = 0]

Fetch(t, o) ==
    LET r == tasks[t].replies IN
    /\ tasks[t].st = "fetch" /\ o \in tasks[t].left
    /\ tasks' = [tasks EXCEPT ![t].left = @ \ {o}, ![t].replies =
                   [p \in DOMAIN r \cup {o} |-> IF p = o THEN OnWire(tables[o]) ELSE r[p]]]
    /\ UNCHANGED <<tables, dir, handle, local, steps>>

\* One server that does not answer in time fails repl_rpc as a whole.
Timeout(t) ==
    /\ tasks[t].st = "fetch" /\ tasks[t].left # {}
    /\ tasks' = [tasks EXCEPT ![t] = Failed]
    /\ UNCHANGED <<tables, dir, handle, local, steps>>

\* most_common: the value most servers have, and the largest of several such values
MostCommon(v) ==
    LET count(x) == Cardinality({o \in DOMAIN v : v[o] = x})
    IN Max({v[o] : o \in {p \in DOMAIN v : \A q \in DOMAIN v : count(v[q]) <= count(v[p])}})

\* median: the value at len / 2 in order
Median(v) ==
    LET half == Cardinality(DOMAIN v) \div 2
    IN CHOOSE x \in {v[o] : o \in DOMAIN v} :
         /\ Cardinality({o \in DOMAIN v : v[o] < x}) <= half
         /\ Cardinality({o \in DOMAIN v : v[o] <= x}) > half

CombinedGrant(r) ==
    [permissions |-> MostCommon([o \in DOMAIN r |-> r[o].grant.permissions]),
     rank |-> MostCommon([o \in DOMAIN r |-> r[o].grant.rank]),
     action_cooldown_ms |-> MostCommon([o \in DOMAIN r |-> r[o].grant.action_cooldown_ms])]

\* Mutant of Combine: the nonce is the median, as the freeze time is.
CombineMedian(r) ==
    [action |-> Median([o \in DOMAIN r |-> r[o].action]), grant |-> CombinedGrant(r),
     frozen_until |-> Median([o \in DOMAIN r |-> r[o].frozen_until])]

\* Member::combine
Combine(r) ==
    [action |-> Max({r[o].action : o \in DOMAIN r}), grant |-> CombinedGrant(r),
     frozen_until |-> Median([o \in DOMAIN r |-> r[o].frozen_until])]

\* reconstruct_chat, retain_members: entries that half of the servers have.
\* retain_outliers does nothing: a ReplVec never holds more than RF elements.
Reconstructed(replies) ==
    LET r == [o \in {p \in DOMAIN replies : replies[p] # NoEntry} |-> replies[o]]
    IN IF Cardinality(DOMAIN r) >= RF \div 2 THEN Combine(r) ELSE NoEntry

\* recover, too few answers: remove_chat, whatever is there
GiveUpChat(t) ==
    /\ tasks[t].st = "fetch" /\ tasks[t].left = {}
    /\ Cardinality(DOMAIN tasks[t].replies) <= RF \div 2
    /\ dir' = FALSE /\ local' = NoEntry
    /\ handle' = IF handle = "live" THEN "stale" ELSE handle
    /\ tasks' = [tasks EXCEPT ![t] = Failed]
    /\ UNCHANGED <<tables, steps>>

\* recover, Handle::create: refuses a directory that exists
Recreate(t) ==
    /\ tasks[t].st = "fetch" /\ tasks[t].left = {}
    /\ Cardinality(DOMAIN tasks[t].replies) > RF \div 2
    /\ dir' = TRUE
    /\ tasks' = [tasks EXCEPT ![t] = IF dir THEN Failed
                   ELSE [tasks[t] EXCEPT !.st = "created", !.replies = Nobody,
                                         !.result = Reconstructed(tasks[t].replies)]]
    /\ UNCHANGED <<tables, handle, local, steps>>

\* recover_chat, get_chat and recover_members: the table is written through the cached
\* Handle; get_chat fails if the directory was removed and no Handle is cached.
RecoverMembers(t) ==
    /\ tasks[t].st = "created"
    /\ IF handle = "none" /\ ~dir
       THEN /\ tasks' = [tasks EXCEPT ![t] = Failed]
            /\ UNCHANGED <<handle, local>>
       ELSE /\ tasks' = [tasks EXCEPT ![t].st = "done"]
            /\ handle' = IF handle = "none" THEN "live" ELSE handle
            /\ local' = IF handle = "stale" THEN local ELSE tasks[t].result
    /\ UNCHANGED <<tables, dir, steps>>

\* A request loads the chat; the cache of handles drops it.
Load == /\ dir /\ handle = "none" /\ handle' = "live"
        /\ UNCHANGED <<tables, dir, local, tasks, steps>>
Evict == /\ handle # "none" /\ handle' = "none"
         /\ UNCHANGED <<tables, dir, local, tasks, steps>>

RecoveryNext ==
    \/ \E o \in Others : AddOrUpdate(o) \/ Kick(o) \/ \E n \in 1 .. MaxAction : ActAt(o, n)
    \/ \E t \in Tasks : \/ StartRecovery(t) \/ Timeout(t) \/ GiveUpChat(t) \/ Recreate(t)
                        \/ RecoverMembers(t) \/ \E o \in Others : Fetch(t, o)
    \/ Load \/ Evict

RecoverySpec == RecoveryInit /\ [][RecoveryNext]_recovery
-----------------------------------------------------------------------------
\* What more than half of the servers granted throughout the recovery
Agreed(t) == {g \in Grants \cup {NoEntry.grant} :
                Cardinality({o \in DOMAIN tasks[t].base : tasks[t].base[o] = g}) > RF \div 2}

\* A member table that recover installs is the one the group agrees on: what most of
\* the other servers granted throughout is granted, no member they lack appears, and
\* the nonces of requests that were acknowledged before it started are spent, so none
\* of them is accepted again here.  This with one server unreachable or without the
\* chat, one that has diverged, and requests reaching the servers between their
\* answers (recover, reconstruct_chat, Member::combine).
RecoversAgreed ==
    \A t \in Tasks : tasks[t].st = "done" =>
      /\ \A g \in Agreed(t) : tasks[t].result.grant = g
      /\ tasks[t].result = NoEntry \/ tasks[t].acted <= tasks[t].result.action
=============================================================================
