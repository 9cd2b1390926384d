---------------------------- MODULE RoutingTable ----------------------------
(***************************************************************************)
(* dht::RoutingTable: a vector of node ids kept sorted, and the query for  *)
(* the nodes closest to a key, from which every server derives the         *)
(* replication group of a topic.  An id stands for its 256 bits; addresses *)
(* follow the ids and are left out, and so is the hash that makes a key of *)
(* a topic.                                                                *)
(***************************************************************************)
EXTENDS Integers, Sequences, FiniteSets, SequencesExt, FiniteSetsExt, Bitwise

CONSTANTS IdBits,    \* width of an id
          MaxCount   \* bound: the sizes of groups asked for

ASSUME RoutingAssumption == IdBits \in Nat \ {0} /\ MaxCount \in Nat \ {0}

VARIABLES routes,   \* RoutingTable::routes
          staked,   \* history: the nodes that have joined and not left
          query     \* the last key and group size asked for, and the answer

table == <<routes, staked, query>>

Id == 0 .. 2 ^ IdBits - 1
NoQuery == [key |-> 0, count |-> 0, found |-> <<>>]

\* slice::partition_point: how many elements precede the first that fails the test
PartitionPoint(seq, Test(_)) == Len(SelectSeq(seq, Test))

Ascending(S) == SelectSeq([i \in 1 .. 2 ^ IdBits |-> i - 1], LAMBDA id : id \in S)

\* RoutingTable::bulk_insert of the nodes the chain lists when the server starts
BulkInsert(S) ==
    /\ routes = <<>>
    /\ routes' = Ascending(S) /\ staked' = S /\ query' = NoQuery

\* binary_search_by_key and insert: a known id is replaced in place
InsertRoute(id) ==
    /\ routes' = IF \E i \in DOMAIN routes : routes[i] = id THEN routes
                 ELSE InsertAt(routes, PartitionPoint(routes, LAMBDA r : r < id) + 1, id)
    /\ staked' = staked \cup {id}

\* RoutingTable::remove
RemoveRoute(id) ==
    /\ routes' = IF \E i \in DOMAIN routes : routes[i] = id
                 THEN RemoveAt(routes, PartitionPoint(routes, LAMBDA r : r < id) + 1)
                 ELSE routes
    /\ staked' = staked \ {id}

\* chain_api::stake_event: nodes join, move and leave the stake list
StakeEvent(id) == (InsertRoute(id) \/ RemoveRoute(id)) /\ query' = NoQuery

\* Mutant of Offer: the new id goes after the slots that are closer and one more.
OfferBehind(slots, id, key) ==
    IF (id ^^ key) >= (Last(slots) ^^ key) THEN slots
    ELSE LET rest == Front(slots)
             point == PartitionPoint(rest, LAMBDA s : (s ^^ key) < (id ^^ key))
         IN InsertAt(rest, (IF point < Len(rest) THEN point + 1 ELSE point) + 1, id)

\* One turn of closest's loop: the id replaces the farthest slot if it is closer
Offer(slots, id, key) ==
    IF (id ^^ key) >= (Last(slots) ^^ key) THEN slots
    ELSE LET rest == Front(slots)
             point == PartitionPoint(rest, LAMBDA s : (s ^^ key) < (id ^^ key))
         IN InsertAt(rest, point + 1, id)

\* RoutingTable::closest::<COUNT>
Closest(key, count) ==
    /\ LET first == SubSeq(routes, 1, Min({Len(routes), count}))
           slots == SortSeq(first, LAMBDA a, b : (a ^^ key) < (b ^^ key))
       IN query' = [key |-> key, count |-> count,
                    found |-> FoldLeft(LAMBDA acc, id : Offer(acc, id, key), slots,
                                       SubSeq(routes, Len(first) + 1, Len(routes)))]
    /\ UNCHANGED <<routes, staked>>

TableInit == routes = <<>> /\ staked = {} /\ query = NoQuery

TableNext == \/ \E S \in SUBSET Id : BulkInsert(S)
             \/ \E id \in Id : StakeEvent(id)
             \/ query = NoQuery /\ \E key \in Id, count \in 1 .. MaxCount : Closest(key, count)
-----------------------------------------------------------------------------
\* Servers that have seen the same nodes join and leave, in whatever order, agree on the
\* replication group of every topic: the table holds the staked nodes, sorted, and closest
\* returned the nodes nearest to its key, nearest first.
ClosestAreClosest ==
    /\ Range(routes) = staked
    /\ \A i \in 1 .. Len(routes) - 1 : routes[i] < routes[i + 1]
    /\ Len(query.found) = Min({query.count, Cardinality(staked)})
    /\ \A i \in DOMAIN query.found :
         LET nearer == {query.found[j] : j \in 1 .. i} IN
         /\ query.found[i] \in staked
         /\ \A id \in staked \ nearer : (query.found[i] ^^ query.key) < (id ^^ query.key)
=============================================================================
