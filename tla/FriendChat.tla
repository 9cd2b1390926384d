----------------------------- MODULE FriendChat -----------------------------
(***************************************************************************)
(* Two friends and the messages they write to each other (client-node).    *)
(*                                                                         *)
(* Alice asks Bob for friendship; from then on each keeps a DoubleRatchet  *)
(* in its vault (friends) and an index from the session hash it expects to *)
(* the friend (friend_index).  A message carries the sender_hash its       *)
(* ratchet had BEFORE send; the receiver looks it up, tries recv on a copy *)
(* of the ratchet, and keeps the copy only if the content decrypts, that   *)
(* is if the keys are the same.                                            *)
(*                                                                         *)
(* Sending has an await in the middle: the ratchet is copied, the copy     *)
(* advanced, the mail sent, and only when that has succeeded is the copy   *)
(* put back.  A send whose mail was not taken changes nothing and is left  *)
(* out.  The client starts a send whenever the user presses Enter, without *)
(* waiting for the one before.                                             *)
(*                                                                         *)
(* Mail arrives in the order it was sent.  Faults says what else may       *)
(* happen to it, up to MaxFaults times in all:                             *)
(*   "reorder"    mail overtakes other mail,                               *)
(*   "duplicate"  a message is delivered twice,                            *)
(*   "replay"     the friend request is delivered twice,                   *)
(*   "lose"       mail is lost,                                            *)
(*   "unacked"    mail arrives but its sender is told that it failed,      *)
(*   "overlap"    mail is handled while a send of the same user awaits,    *)
(*   "parallel"   a user sends a message while a send of its awaits.       *)
(***************************************************************************)
EXTENDS DoubleRatchet, FiniteSets, SequencesExt

CONSTANTS Faults,       \* the kinds of faults that may happen
          MaxFaults,    \* bound on the number of faults
          MaxSends      \* bound on the messages of each user

ASSUME FriendAssumption ==
    /\ Faults \subseteq {"reorder", "duplicate", "replay", "lose", "unacked", "overlap", "parallel"}
    /\ MaxFaults \in Nat /\ MaxSends \in Nat

Users == {"alice", "bob"}
Other(u) == IF u = "alice" THEN "bob" ELSE "alice"

VARIABLES friends,      \* friends[u]: u's ratchet, a sequence of one, or empty
          friend_index, \* friend_index[u]: the session hashes that name the friend
          pending,      \* pending[u]: what the sends that await will put back
          mail,         \* mail[u]: the mail on its way to u, in order
          drawn,        \* drawn[u]: how many random values u has drawn
          sent,         \* history: the messages that were sent
          opened,       \* history: opened[u]: the messages u has read, in order
          rejected,     \* history: the messages that could not be read when they came
          faults,       \* how many faults there have been
          suffered      \* history: the kinds of faults there have been

vars == <<friends, friend_index, pending, mail, drawn, sent, opened, rejected, faults, suffered>>

Fault(kind) ==
    /\ kind \in Faults /\ faults < MaxFaults
    /\ faults' = faults + 1
    /\ suffered' = suffered \cup {kind}

\* The next random value of u.
Random(u) == <<u, drawn[u]>>

Init ==
    /\ friends = [u \in Users |-> <<>>]
    /\ friend_index = [u \in Users |-> {}]
    /\ pending = [u \in Users |-> <<>>]
    /\ mail = [u \in Users |-> <<>>]
    /\ drawn = [u \in Users |-> 0]
    /\ sent = {}
    /\ opened = [u \in Users |-> <<>>]
    /\ rejected = {}
    /\ faults = 0
    /\ suffered = {}

----------------------------------------------------------------------------
\* send_friend_request up to its await: the request is on its way, the friend
\* is not in the vault yet.
SendFriendRequest ==
    /\ drawn["alice"] = 0
    /\ mail' = [mail EXCEPT !["bob"] = Append(@, [kind |-> "request", init |-> Random("alice")])]
    /\ pending' = [pending EXCEPT !["alice"] = <<[new |-> TRUE, dr |-> Sender(Random("alice"))]>>]
    /\ drawn' = [drawn EXCEPT !["alice"] = @ + 1]
    /\ UNCHANGED <<friends, friend_index, sent, opened, rejected, faults, suffered>>

\* Mutant of SessionOf: the hash is read after the ratchet has moved.
SessionAfterSend(dr) == Send(dr).dr.sender_hash

\* The session a message is sent under.
SessionOf(dr) == dr.sender_hash

\* send_frined_message up to its await
SendFriendMessage(u) ==
    /\ friends[u] # <<>>
    /\ IF pending[u] = <<>> THEN UNCHANGED <<faults, suffered>> ELSE Fault("parallel")
    /\ Cardinality({m \in sent : m.from = u}) < MaxSends
    /\ LET dr  == friends[u][1]
           out == Send(dr)
           no  == Cardinality({m \in sent : m.from = u}) + 1
           m   == [kind |-> "message", from |-> u, no |-> no, header |-> out.header,
                   session |-> SessionOf(dr), key |-> out.key]
       IN  /\ mail' = [mail EXCEPT ![Other(u)] = Append(@, m)]
           /\ sent' = sent \cup {m}
           /\ pending' = [pending EXCEPT ![u] = Append(@, [new |-> FALSE, dr |-> out.dr])]
    /\ UNCHANGED <<friends, friend_index, drawn, opened, rejected>>

\* The rest of send_friend_request or of a send_frined_message: the vault is updated.
FinishSend(u, i) ==
    /\ i \in DOMAIN pending[u]
    /\ LET p == pending[u][i]
       IN  /\ friends' = [friends EXCEPT ![u] = <<p.dr>>]
           /\ friend_index' = [friend_index EXCEPT ![u] =
                                  IF p.new THEN @ \cup {p.dr.receiver_hash} ELSE @]
    /\ pending' = [pending EXCEPT ![u] = RemoveAt(@, i)]
    /\ UNCHANGED <<mail, drawn, sent, opened, rejected, faults, suffered>>

\* The request for sending the mail failed: the `?` leaves the vault as it was.
FailSend(u, i) ==
    /\ i \in DOMAIN pending[u] /\ ~pending[u][i].new
    /\ Fault("unacked")
    /\ pending' = [pending EXCEPT ![u] = RemoveAt(@, i)]
    /\ UNCHANGED <<friends, friend_index, mail, drawn, sent, opened, rejected>>

----------------------------------------------------------------------------
\* MailVariant::handle_sync, FriendRequest
HandleRequest(u, m) ==
    LET dr == Recipient(m.init, Random(u))
    IN  /\ friends' = [friends EXCEPT ![u] = <<dr>>]
        /\ friend_index' = [friend_index EXCEPT ![u] = @ \cup {dr.receiver_hash}]
        /\ drawn' = [drawn EXCEPT ![u] = @ + 1]
        /\ UNCHANGED <<opened, rejected>>

\* Mutant of Decrypted: recv runs on the ratchet itself, before the content is read.
DecryptedInPlace(dr, m, random) == Recv(dr, m.header, random)

\* The result of recv on a copy of the ratchet and of decrypting with its key.
Decrypted(dr, m, random) ==
    LET r == Recv(dr, m.header, random) IN [r EXCEPT !.ok = @ /\ r.key = m.key]

\* MailVariant::handle_sync, FriendMessage
HandleMessage(u, m) ==
    LET known == m.session \in friend_index[u] /\ friends[u] # <<>>
        r     == Decrypted(friends[u][1], m, Random(u))
    IN  IF known /\ r.ok
        THEN /\ friends' = [friends EXCEPT ![u] = <<r.dr>>]
             /\ friend_index' = [friend_index EXCEPT ![u] =
                                    (@ \ {m.session}) \cup {r.dr.receiver_hash}]
             /\ drawn' = [drawn EXCEPT ![u] =
                             IF r.dr.root.step = friends[u][1].root.step THEN @ ELSE @ + 1]
             /\ opened' = [opened EXCEPT ![u] = Append(@, m)]
             /\ UNCHANGED rejected
        ELSE /\ rejected' = rejected \cup {m}
             /\ UNCHANGED <<friends, friend_index, drawn, opened>>

\* The mail at place i reaches its user: from the subscription (next) or from
\* the mailbox (read_mail), which handles its mail one after the other.
Handle(u, i) ==
    /\ i \in DOMAIN mail[u]
    /\ IF i = 1 /\ pending[u] = <<>> THEN UNCHANGED <<faults, suffered>>
       ELSE IF i = 1 THEN Fault("overlap")
       ELSE pending[u] = <<>> /\ Fault("reorder")
    /\ mail' = [mail EXCEPT ![u] = RemoveAt(@, i)]
    /\ LET m == mail[u][i]
       IN  \/ m.kind = "request" /\ HandleRequest(u, m)
           \/ m.kind = "message" /\ HandleMessage(u, m)
    /\ UNCHANGED <<pending, sent>>

Lose(u) ==
    /\ mail[u] # <<>> /\ Fault("lose")
    /\ mail' = [mail EXCEPT ![u] = Tail(@)]
    /\ UNCHANGED <<friends, friend_index, pending, drawn, sent, opened, rejected>>

\* A copy of the next mail arrives some time later, after what is on its way.
Duplicate(u) ==
    /\ mail[u] # <<>>
    /\ Fault(IF Head(mail[u]).kind = "message" THEN "duplicate" ELSE "replay")
    /\ mail' = [mail EXCEPT ![u] = Append(@, Head(@))]
    /\ UNCHANGED <<friends, friend_index, pending, drawn, sent, opened, rejected>>

Deliver(u) == \E i \in DOMAIN mail[u] : Handle(u, i)

Next ==
    \/ SendFriendRequest
    \/ \E u \in Users : \/ SendFriendMessage(u)
                        \/ \E i \in DOMAIN pending[u] : FinishSend(u, i) \/ FailSend(u, i)
                        \/ Deliver(u)
                        \/ Lose(u)
                        \/ Duplicate(u)

Spec == Init /\ [][Next]_vars

----------------------------------------------------------------------------
\* Reordering and repeating is all that has happened to the mail, and every send was
\* over before the next.
OnlyDisorder == suffered \subseteq {"reorder", "duplicate"}

\* The two ratchets never fork: of the histories of inputs of the two ends one
\* is a prefix of the other, whatever happened to the messages.  Sends in parallel
\* are excepted when mail is handled meanwhile as well: what is read after one of two
\* sends is through is undone by the other, which puts an older ratchet back, and the
\* same chain may then be derived anew, with another secret.
RatchetsAgree ==
    "replay" \notin suffered /\ ~({"overlap", "parallel"} \subseteq suffered) =>
        \A u, v \in Users : friends[u] # <<>> /\ friends[v] # <<>> =>
            LET mine == friends[u][1].root.inputs  theirs == friends[v][1].root.inputs
            IN  Len(mine) <= Len(theirs) => IsPrefix(mine, theirs)

\* The keys a ratchet can still give out for incoming messages.
HoldsKey(dr, key) ==
    \/ \E i \in DOMAIN dr.missing : dr.missing[i].key = key
    \/ key[1] = dr.receiver.root /\ key[2] >= dr.receiver.step

\* Forward secrecy towards the receiver: once a message is read its key can no
\* longer be had from the vault, so nothing is read twice.  Mail that is handled
\* while a send awaits is excepted: the send puts the older ratchet back.
ReadKeysAreGone ==
    suffered \cap {"replay", "overlap"} = {} =>
        \A u \in Users : \A i \in DOMAIN opened[u] : ~HoldsKey(friends[u][1], opened[u][i].key)

\* No two messages are encrypted with one key, whatever is lost, late or handled
\* while a send awaits.  A send that was reported as failed is excepted, as it
\* leaves its key to the next, and so are sends in parallel: nothing keeps them from
\* copying the same ratchet, and they encrypt under one key then.
KeysAreFresh ==
    suffered \cap {"replay", "unacked", "parallel"} = {} => \A m, n \in sent : m.key = n.key => m = n

\* debug_assert_ne!(self.cp, [0; ..]) in send, and the comment on the period: a
\* major message has a ciphertext, for a key its receiver drew, and the two
\* users take turns in sending them.
MajorsAlternate ==
    \A m \in sent : m.header.major =>
        /\ m.header.cp # Nothing
        /\ m.header.cp[1][1] = Other(m.from)
        /\ \A n \in sent : n.header.step = m.header.step + KyberPeriod => n.from # m.from

\* No mail is on its way and no send awaits.
Quiet == \A u \in Users : mail[u] = <<>> /\ pending[u] = <<>> /\ friends[u] # <<>>

\* Once the mail is delivered, each end sends under the session that the other
\* expects (match_rs in the tests), so the conversation can go on both ways.
MatchWhenQuiet ==
    OnlyDisorder /\ Quiet => \A u \in Users : friends[u][1].sender_hash \in friend_index[Other(u)]

\* Every message is read when it arrives, as the tests of the ratchet unwrap
\* the result of recv for every message that is delivered in order.
AllDelivered == rejected = {}

\* An answer that turns the ratchet gets through: the first message of a chain
\* is read, however the mail around it is reordered or repeated.
AnswersArrive ==
    OnlyDisorder /\ Quiet =>
        \A m \in sent : m.header.sub_step = 0 => m \in Range(opened[Other(m.from)])
=============================================================================
