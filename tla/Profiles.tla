------------------------------ MODULE Profiles ------------------------------
(***************************************************************************)
(* A user's profile on its replication group: mail from others, the user's *)
(* reading of it, the vault, and the sessions and subscriptions through    *)
(* which servers push mail to a user who is online (chat/server).          *)
(*                                                                         *)
(* A call is a client's request.  The server it reaches runs the handler,  *)
(* sends the request to the rest of the group and picks the answer that    *)
(* most gave (Repl); every replica handles it when it arrives.  send_mail  *)
(* at a server that knows the user to be at another one asks that one      *)
(* first, and only when that has answered does it go on.                   *)
(*                                                                         *)
(* Calls follow one another unless Faults allows more, MaxFaults times:    *)
(*   "overlap"      a call is made while another one is under way,         *)
(*   "unreachable"  no stream to a replica can be opened,                  *)
(*   "timeout"      a replica is too late, and handles the request later,  *)
(*   "restart"      a server restarts, or evicts the profile's handle,     *)
(*   "crash"        a server stops between the two writes of a vault,      *)
(*   "defer"        a change of the vault is not saved at once,            *)
(*   "edit"         the same, while the vault is being saved,              *)
(*   "login"        the user logs in anew, on the same device,             *)
(*   "other"        another client writes the vault, at any time,          *)
(*   "unsubscribe"  the user's subscription is cancelled,                  *)
(*   "self"         the user sends a mail to itself.                       *)
(* The user has one session at a time.                                     *)
(***************************************************************************)
EXTENDS ProfileStore, SequencesExt

CONSTANTS Servers,       \* the replication group of the profile
          RF,            \* REPLICATION_FACTOR
          EventCap,      \* how many events the channel of a session holds
          Faults, MaxFaults,
          MaxCalls,      \* bound on the calls
          MaxSessions,   \* bound on the sessions of the user
          MaxEdits       \* bound on the user's changes of the vault

ASSUME GroupAssumption ==
    /\ IsFiniteSet(Servers) /\ Cardinality(Servers) = RF + 1
    /\ RF \in Nat /\ EventCap \in Nat \ {0} /\ MaxFaults \in Nat /\ MaxCalls \in Nat
    /\ MaxSessions \in Nat /\ MaxEdits \in Nat
    /\ Faults \subseteq {"overlap", "unreachable", "timeout", "restart", "crash", "defer", "edit",
                         "login", "other", "unsubscribe", "self"}

Paths == 1 .. MaxSessions
Offline == <<>>
Local(p) == <<"local", p>>
Remote(s) == <<"remote", s>>
Somebody == Local(0)     \* the origin of a mail that is not the user's own

VARIABLES store,      \* store[s]: what s stores for the profile
          online,     \* online[s]: where s believes the user to be
          subs,       \* profile_subs[s]: the session s pushes mail to, or 0
          session,    \* session[p]: server, state and queued events of a session
          calls,      \* the calls, in the order they were made
          client,     \* the user's own vault, unsaved changes and nonces
          received,   \* history: the mail the user has got, in order
          gone,       \* history: mail that ended with the session it was sent through
          asked,      \* history: the vaults that calls asked for, with their nonce
          uneven,     \* history: servers whose mailbox missed a mail or got it twice
          faults, suffered

servers == <<store, online, subs>>
hist == <<received, gone, asked, uneven>>
vars == <<store, online, subs, session, calls, client, received, gone, asked, uneven,
          faults, suffered>>

Fault(kind) ==
    /\ kind \in Faults /\ faults < MaxFaults
    /\ faults' = faults + 1 /\ suffered' = suffered \cup {kind}

NoFault == UNCHANGED <<faults, suffered>>

Init ==
    /\ store = [s \in Servers |-> Created]
    /\ online = [s \in Servers |-> Offline]
    /\ subs = [s \in Servers |-> 0]
    /\ session = [p \in Paths |-> [state |-> "none", at |-> 0, events |-> <<>>]]
    /\ calls = <<>>
    /\ client = [vault |-> EmptyVault, changes |-> {}, version |-> 1, mail_action |-> 1,
                 saved |-> 0, saving |-> 0, edits |-> 0]
    /\ received = <<>> /\ gone = {} /\ asked = {<<0, EmptyVault>>} /\ uneven = {}
    /\ faults = 0 /\ suffered = {}

Live(p) == session[p].state = "live"
InCall(c) == c.stage \in {"direct", "back", "repl"}
\* run_client serves one request of a session at a time
Busy(p) == \E i \in DOMAIN calls : InCall(calls[i]) /\ calls[i].origin = Local(p)
UnderWay == \E i \in DOMAIN calls : InCall(calls[i]) \/ calls[i].waiting # {}

----------------------------------------------------------------------------
\* push_profile_event: to the subscribed session, if the server still knows it.
\* "dropped" is a session whose channel is closed or full.
Push(s) ==
    LET p == subs[s]
    IN  IF p = 0 \/ session[p].state \in {"none", "gone"} THEN "absent"
        ELSE IF Live(p) /\ Len(session[p].events) < EventCap THEN "pushed" ELSE "dropped"

\* Mutant of MailHandled: a mail that could not be pushed is not stored.
MailHandledForgets(s, mail, origin) ==
    LET push == Push(s)
        to   == IF online[s] # Offline /\ online[s][1] = "local" /\ online[s] # origin
                THEN push ELSE "absent"
        res  == AppendMail(store[s], mail)
    IN  IF online[s] # Offline /\ online[s] = origin
        THEN [ans |-> <<"SendingToSelf">>, pf |-> store[s], online |-> online[s], push |-> "absent"]
        ELSE IF to = "pushed"
        THEN [ans |-> <<"SentDirectly">>, pf |-> store[s], online |-> online[s], push |-> to]
        ELSE IF to = "dropped"
        THEN [ans |-> <<"Ok">>, pf |-> store[s], online |-> Offline, push |-> to]
        ELSE [ans |-> res.ans, pf |-> res.pf, online |-> Offline, push |-> to]

\* send_mail at s, except for its call to the server where the user is.
MailHandled(s, mail, origin) ==
    LET here == online[s] # Offline /\ online[s][1] = "local"
        push == IF here /\ online[s] # origin THEN Push(s) ELSE "absent"
        res  == AppendMail(store[s], mail)
    IN  IF here /\ online[s] = origin
        THEN [ans |-> <<"SendingToSelf">>, pf |-> store[s], online |-> online[s], push |-> push]
        ELSE IF push = "pushed"
        THEN [ans |-> <<"SentDirectly">>, pf |-> store[s], online |-> online[s], push |-> push]
        ELSE [ans |-> res.ans, pf |-> res.pf, online |-> Offline, push |-> push]

\* The handler of a call at s: its answer and what it leaves.
Handled(s, i, c, origin) ==
    IF c.kind = "mail" THEN MailHandled(s, i, origin)
    ELSE IF c.kind = "read"
    THEN LET res == ReadMail(store[s], c.nonce)
         IN  [ans |-> res.ans, pf |-> res.pf, push |-> "absent",
              online |-> IF res.ans[1] = "Ok" THEN origin ELSE online[s]]
    ELSE LET res == InsertToVault(store[s], c.changes, c.root, c.nonce)
         IN  [ans |-> res.ans, pf |-> res.pf, push |-> "absent", online |-> online[s]]

\* The handler of call i at s has run with the outcome h.  A stray answer is one
\* with which s has stored the mail and the other servers have not, or the reverse.
Apply(s, i, h, stray) ==
    /\ store' = [store EXCEPT ![s] = h.pf]
    /\ online' = [online EXCEPT ![s] = h.online]
    /\ subs' = [subs EXCEPT ![s] = IF h.push = "dropped" THEN 0 ELSE @]
    /\ session' = IF h.push # "pushed" THEN session
                  ELSE [session EXCEPT ![subs[s]].events = Append(@, i)]
    /\ uneven' = IF h.ans \in stray THEN uneven \cup {s} ELSE uneven

----------------------------------------------------------------------------
\* A call and where it stands: "direct" while the server asks the one the user
\* is at, "back" when that has answered, "repl" while the others are asked.
Call(kind, s, origin) ==
    [kind |-> kind, at |-> s, origin |-> origin, nonce |-> 0, changes |-> {}, root |-> EmptyVault,
     stage |-> "repl", got |-> <<>>, waiting |-> {}, answers |-> {}, result |-> <<>>]

\* The call is over; what the late replicas need of it is kept until they are done.
Done(c, result) ==
    LET over == IF c.waiting = {} THEN Call(c.kind, 0, Offline) ELSE c
    IN  [over EXCEPT !.stage = "done", !.got = <<>>, !.answers = {}, !.result = result]

\* Repl::call, the local handler has run: unless the mail was sent directly
\* the others are asked.
Replicating(c, ans) ==
    IF ans = <<"SentDirectly">> THEN Done(c, ans)
    ELSE [c EXCEPT !.stage = "repl", !.got = <<>>, !.waiting = Servers \ {c.at},
                   !.answers = {<<c.at, ans>>}]

\* The call is made and handled at its server.
Start(c) ==
    LET i == Len(calls) + 1
        h == Handled(c.at, i, c, c.origin)
    IN  /\ calls' = Append(calls, Replicating(c, h.ans))
        /\ Apply(c.at, i, h, {<<"SendingToSelf">>})

MayCall == /\ Len(calls) < MaxCalls
           /\ IF UnderWay THEN Fault("overlap") ELSE NoFault

MayMail(origin) == IF origin = Somebody \/ UnderWay THEN MayCall
                   ELSE Len(calls) < MaxCalls /\ Fault("self")

\* SEND_MAIL of a client at s, which may be the user itself.
SendMail(s, origin) ==
    /\ MayMail(origin)
    /\ origin = Somebody \/ \E p \in Paths : origin = Local(p) /\ Live(p) /\ session[p].at = s /\ ~Busy(p)
    /\ LET c == Call("mail", s, origin)
       IN  IF online[s] # Offline /\ online[s][1] = "remote"
           THEN /\ calls' = Append(calls, [c EXCEPT !.stage = "direct", !.got = online[s]])
                /\ UNCHANGED <<servers, session, uneven>>
           ELSE Start(c)
    /\ UNCHANGED <<client, received, gone, asked>>

\* The server where the user was believed to be handles the mail.
DirectMail(i) ==
    /\ i \in DOMAIN calls /\ calls[i].stage = "direct"
    /\ LET t == calls[i].got[2]
           h == MailHandled(t, i, Remote(calls[i].at))
       IN  /\ Apply(t, i, h, {<<"Ok">>})
           /\ calls' = [calls EXCEPT ![i].stage = "back", ![i].got = h.ans]
    /\ NoFault /\ UNCHANGED <<client, received, gone, asked>>

\* The call to it failed.
DirectFails(i) ==
    /\ i \in DOMAIN calls /\ calls[i].stage = "direct"
    /\ Fault("unreachable")
    /\ calls' = [calls EXCEPT ![i].stage = "back", ![i].got = <<"NoReplicator">>]
    /\ UNCHANGED <<servers, session, client, hist>>

\* send_mail after its await: online.remove and the local mailbox.
DirectReturns(i) ==
    /\ i \in DOMAIN calls /\ calls[i].stage = "back"
    /\ LET c == calls[i]
           res == AppendMail(store[c.at], i)
       IN  IF c.got = <<"SentDirectly">>
           THEN calls' = [calls EXCEPT ![i] = Done(c, c.got)] /\ UNCHANGED servers
           ELSE /\ store' = [store EXCEPT ![c.at] = res.pf]
                /\ online' = [online EXCEPT ![c.at] = Offline]
                /\ calls' = [calls EXCEPT ![i] = Replicating(c, res.ans)]
                /\ UNCHANGED subs
    /\ NoFault /\ UNCHANGED <<session, client, hist>>

\* A replica handles the request; after a timeout nobody waits for its answer.
Replica(i, t) ==
    /\ i \in DOMAIN calls /\ t \in calls[i].waiting
    /\ LET c == calls[i]
           h == Handled(t, i, c, Remote(c.at))
           d == [c EXCEPT !.waiting = @ \ {t}]
       IN  /\ Apply(t, i, h, {<<"SentDirectly">>})
           /\ calls' = [calls EXCEPT ![i] = IF c.stage = "done" THEN Done(d, c.result)
                                           ELSE [d EXCEPT !.answers = @ \cup {<<t, h.ans>>}]]
    /\ NoFault /\ UNCHANGED <<client, received, gone, asked>>

\* open_stream_with gave no stream: the replica is left out.
Unreachable(i, t) ==
    /\ i \in DOMAIN calls /\ calls[i].stage = "repl" /\ t \in calls[i].waiting
    /\ Fault("unreachable")
    /\ calls' = [calls EXCEPT ![i].waiting = @ \ {t}]
    /\ UNCHANGED <<servers, session, client, hist>>

----------------------------------------------------------------------------
Answering(answers, ans) == {a \in answers : a[2] = ans}

\* Repl::call, the answer that more than half the replication factor gave.  (Whether
\* the server itself is in the minority and starts a recovery only decides which
\* error is reported: recover finds no valid root and changes nothing.)
Picked(answers) ==
    LET often == {a[2] : a \in {b \in answers : Cardinality(Answering(answers, b[2])) > RF \div 2}}
    IN  IF often = {} THEN <<"NoMajority">> ELSE CHOOSE a \in often : TRUE

\* clear_changes: everything that is unsaved is forgotten.
Saved(cl, nonce) == [cl EXCEPT !.changes = {}, !.saving = 0, !.saved = nonce + 1]

\* The answer reaches the user, if its session is still there.
Returned(i, result) ==
    LET c    == calls[i]
        mail == IF c.kind = "read" /\ result[1] = "Ok" THEN Unpacked(result[2], result[3]) ELSE <<>>
        back == c.origin = Somebody \/ Live(c.origin[2])
    IN  /\ calls' = [calls EXCEPT ![i] = Done(c, <<result[1]>>)]
        /\ received' = IF back THEN received \o mail ELSE received
        /\ gone' = IF back THEN gone ELSE gone \cup Range(mail)
        /\ client' = IF client.saving # i THEN client
                     ELSE IF back /\ result[1] = "Ok" THEN Saved(client, c.nonce)
                     ELSE [client EXCEPT !.saving = 0]
        /\ UNCHANGED <<servers, session, asked, uneven>>

Finish(i) ==
    /\ i \in DOMAIN calls /\ calls[i].stage = "repl" /\ calls[i].waiting = {}
    /\ Returned(i, Picked(calls[i].answers))
    /\ NoFault

\* repl_rpc_low fails as a whole when one answer takes too long.
Timeout(i) ==
    /\ i \in DOMAIN calls /\ calls[i].stage = "repl" /\ calls[i].waiting # {}
    /\ Fault("timeout")
    /\ Returned(i, <<"Timeout">>)

----------------------------------------------------------------------------
\* A session of the user begins (onion InboundStream).
Connect(p, s) ==
    /\ session[p].state = "none" /\ \A q \in Paths : q < p => session[q].state \in {"dead", "gone"}
    /\ session' = [session EXCEPT ![p].state = "live", ![p].at = s]
    /\ NoFault /\ UNCHANGED <<servers, calls, client, hist>>

\* subscribe
Subscribe(p) ==
    /\ Live(p) /\ ~Busy(p)
    /\ subs' = [subs EXCEPT ![session[p].at] = p]
    /\ NoFault /\ UNCHANGED <<store, online, session, calls, client, hist>>

\* unsubscribe
Unsubscribe(p) ==
    /\ Live(p) /\ ~Busy(p) /\ subs[session[p].at] # 0
    /\ Fault("unsubscribe")
    /\ subs' = [subs EXCEPT ![session[p].at] = 0]
    /\ online' = [online EXCEPT ![session[p].at] = Offline]
    /\ UNCHANGED <<store, session, calls, client, hist>>

\* run_client, handle_event
DeliverEvent(p) ==
    /\ Live(p) /\ ~Busy(p) /\ session[p].events # <<>>
    /\ received' = Append(received, Head(session[p].events))
    /\ session' = [session EXCEPT ![p].events = Tail(@)]
    /\ NoFault /\ UNCHANGED <<servers, calls, client, gone, asked, uneven>>

\* The task of the session ends; what is queued for it is lost with it.
Hangup(p) ==
    /\ Live(p)
    /\ session' = [session EXCEPT ![p].state = "dead", ![p].events = <<>>]
    /\ gone' = gone \cup Range(session[p].events)
    /\ NoFault /\ UNCHANGED <<servers, calls, client, received, asked, uneven>>

\* clients.remove
Forget(p) ==
    /\ session[p].state = "dead"
    /\ session' = [session EXCEPT ![p].state = "gone", ![p].at = 0]
    /\ NoFault /\ UNCHANGED <<servers, calls, client, hist>>

\* read_mail of the user
ReadMailbox(p) ==
    /\ Live(p) /\ ~Busy(p) /\ MayCall
    /\ Start([Call("read", session[p].at, Local(p)) EXCEPT !.nonce = client.mail_action])
    /\ client' = [client EXCEPT !.mail_action = @ + 1]
    /\ UNCHANGED <<received, gone, asked>>

\* Mutant of Edited: a key that the vault has already is not listed as changed.
EditedUnlisted(cl, ks) ==
    [cl EXCEPT !.vault = [k \in Keys |-> IF k \in ks THEN @[k] + 1 ELSE @[k]],
               !.changes = @ \cup {k \in ks : cl.vault[k] = 0}, !.edits = @ + Cardinality(ks)]

\* Vault::update of some keys
Edited(cl, ks) == [cl EXCEPT !.vault = [k \in Keys |-> IF k \in ks THEN @[k] + 1 ELSE @[k]],
                             !.changes = @ \cup ks, !.edits = @ + Cardinality(ks)]

\* save_vault_components_low up to its await: some keys are updated, and all
\* that is unsaved is sent under the root of the whole vault.
SaveVault(p, ks) ==
    /\ Live(p) /\ ~Busy(p) /\ client.saving = 0 /\ MayCall
    /\ LET cl == Edited(client, ks)
       IN  /\ cl.changes # {} /\ cl.edits <= MaxEdits
           /\ Start([Call("vault", session[p].at, Local(p)) EXCEPT
                        !.nonce = cl.version, !.changes = cl.changes, !.root = cl.vault])
           /\ client' = [cl EXCEPT !.version = @ + 1, !.saving = Len(calls) + 1]
           /\ asked' = asked \cup {<<cl.version, cl.vault>>}
    /\ UNCHANGED <<received, gone>>

\* The same when there are too few changes and the last save is recent.
Defer(k) ==
    /\ client.edits < MaxEdits
    /\ Fault(IF client.saving # 0 THEN "edit" ELSE "defer")
    /\ client' = Edited(client, {k})
    /\ UNCHANGED <<servers, session, calls, hist>>

\* INSERT_TO_VAULT of a client other than the user's, which starts from what s has.
\* The server does not ask who has signed the root.
WriteVault(s, ks) ==
    /\ Len(calls) < MaxCalls /\ Fault("other")
    /\ LET pf    == store[s]
           vault == [k \in Keys |-> IF k \in ks THEN pf.vault[k] + 1 ELSE pf.vault[k]]
       IN  /\ Start([Call("vault", s, Somebody) EXCEPT
                        !.nonce = pf.vault_version + 1, !.changes = ks, !.root = vault])
           /\ asked' = asked \cup {<<pf.vault_version + 1, vault>>}
    /\ UNCHANGED <<client, received, gone>>

\* Node::new: the nonces and, if it is newer than the stored one, the vault
\* come from one server; the call an earlier login waited for is forgotten.
Login(p) ==
    /\ Live(p) /\ ~Busy(p)
    /\ LET pf == store[session[p].at]
           fresh == client.saved >= pf.vault_version + 1
       IN  client' = [client EXCEPT !.version = pf.vault_version + 1,
                         !.mail_action = pf.mail_action + 1, !.saving = 0,
                         !.vault = IF fresh THEN @ ELSE
                             Overlaid(@, {k \in Keys : pf.vault[k] # 0}, pf.vault)]
    /\ Fault("login")
    /\ UNCHANGED <<servers, session, calls, hist>>

----------------------------------------------------------------------------
\* A server restarts: what is in memory is lost, its calls end without an answer.
Restart(s) ==
    /\ Fault("restart")
    /\ store' = [store EXCEPT ![s] = Loaded(@)]
    /\ online' = [online EXCEPT ![s] = Offline]
    /\ subs' = [subs EXCEPT ![s] = 0]
    /\ session' = [p \in Paths |-> IF session[p].at # s THEN session[p]
                                   ELSE [state |-> "gone", at |-> 0, events |-> <<>>]]
    /\ gone' = gone \cup UNION {Range(session[p].events) : p \in {q \in Paths : session[q].at = s}}
    /\ calls' = [i \in DOMAIN calls |->
                    IF calls[i].at # s \/ ~InCall(calls[i]) THEN calls[i]
                    ELSE Done(calls[i], <<"ConnectionAborted">>)]
    /\ client' = [client EXCEPT !.saving = IF @ # 0 /\ calls[@].at = s THEN 0 ELSE @]
    /\ UNCHANGED <<received, asked, uneven>>

\* The handle of the profile is evicted from the LRU cache and loaded again.
Evict(s) ==
    /\ Fault("restart")
    /\ store' = [store EXCEPT ![s] = Loaded(@)]
    /\ UNCHANGED <<online, subs, session, calls, client, hist>>

\* A replica stops after advance_vault_nonce, before the vault is committed.
Crash(i, t) ==
    /\ i \in DOMAIN calls /\ t \in calls[i].waiting /\ calls[i].kind = "vault"
    /\ InsertToVault(store[t], calls[i].changes, calls[i].root, calls[i].nonce).ans = <<"Ok">>
    /\ Fault("crash")
    /\ store' = [store EXCEPT ![t] = [Loaded(@) EXCEPT !.vault_version = calls[i].nonce]]
    /\ online' = [online EXCEPT ![t] = Offline]
    /\ subs' = [subs EXCEPT ![t] = 0]
    /\ session' = [p \in Paths |-> IF session[p].at # t THEN session[p]
                                   ELSE [state |-> "gone", at |-> 0, events |-> <<>>]]
    /\ gone' = gone \cup UNION {Range(session[p].events) : p \in {q \in Paths : session[q].at = t}}
    /\ LET d == [calls[i] EXCEPT !.waiting = @ \ {t}]
       IN  calls' = [calls EXCEPT ![i] = IF d.stage = "done" THEN Done(d, d.result) ELSE d]
    /\ UNCHANGED <<client, received, asked, uneven>>

Next ==
    \/ \E s \in Servers : \/ \E o \in {Somebody} \cup {Local(p) : p \in Paths} : SendMail(s, o)
                          \/ \E p \in Paths : Connect(p, s)
                          \/ \E k \in Keys : WriteVault(s, {k})
                          \/ Restart(s)
                          \/ Evict(s)
    \/ \E i \in 1 .. MaxCalls : \/ DirectMail(i)
                                \/ DirectFails(i)
                                \/ DirectReturns(i)
                                \/ Finish(i)
                                \/ Timeout(i)
                                \/ \E t \in Servers : Replica(i, t) \/ Unreachable(i, t) \/ Crash(i, t)
    \/ \E p \in Paths : \/ Subscribe(p)
                        \/ Unsubscribe(p)
                        \/ DeliverEvent(p)
                        \/ Hangup(p)
                        \/ Forget(p)
                        \/ ReadMailbox(p)
                        \/ SaveVault(p, {})
                        \/ \E k \in Keys : SaveVault(p, {k})
                        \/ Login(p)
    \/ \E k \in Keys : Defer(k)

Spec == Init /\ [][Next]_vars

----------------------------------------------------------------------------
Holding(m) == {s \in Servers : m \in Range(store[s].file.mails)}
Queued(m) == \E p \in Paths : m \in Range(session[p].events)
Reading == \E i \in DOMAIN calls : calls[i].kind = "read" /\ InCall(calls[i])

\* No two calls have overlapped, and no server has failed.
Undisturbed == suffered \subseteq {"defer", "edit", "login", "unsubscribe", "self"}

\* A mail whose sender was told that it was taken is never lost: the user has
\* it, it is queued for a session or held by a majority of the mailboxes, unless
\* a session ended with it.  Excepted are calls that overlap (those of another
\* client may), failing servers, mails of odd length (see Unpacked), and the time
\* when a majority of the mailboxes has missed a mail or has one twice: read_mail
\* finds no majority then.
MailNotLost ==
    Undisturbed /\ MailLen % 2 = 0 /\ Cardinality(Servers \ uneven) > RF \div 2 =>
        \A i \in DOMAIN calls :
            calls[i].kind = "mail" /\ calls[i].result \in {<<"Ok">>, <<"SentDirectly">>} =>
                \/ i \in Range(received) \cup gone \/ Queued(i) \/ Reading
                \/ Cardinality(Holding(i)) > RF \div 2

\* No mail reaches the user twice, although send_mail may store it twice on the
\* server it asked first.  A server that has forgotten where the user is stores
\* what another one pushes: overlap, faults, cancelled subscriptions and mail of
\* the user to itself are excepted.
MailOnce == suffered \subseteq {"defer", "edit", "login"} => IsInjective(received)

\* Every vault is one that a call has asked for as a whole, under the nonce the
\* server has for it, however calls of the user and of others are lost, delayed or
\* interleaved; only a stop between the two writes of insert_to_vault breaks it.
\* Whose vault it is nobody verifies.
VaultIsWhole ==
    "crash" \notin suffered =>
        \A s \in Servers : <<store[s].vault_version, store[s].vault>> \in asked

\* When nothing is left to be saved, a majority of the servers has the user's
\* vault, so the next change will be accepted.  A replica that missed a change, a
\* vault written by another client and an edit while the vault is being saved are
\* excepted, and a login during the call of an earlier session, which may come
\* after the changes made since.
VaultSaved ==
    /\ suffered \subseteq {"overlap", "restart", "defer", "login", "unsubscribe", "self"}
    /\ ~ {"overlap", "login"} \subseteq suffered
    /\ client.changes = {} /\ client.saving = 0
    => Cardinality({s \in Servers : store[s].vault = client.vault}) > RF \div 2
=============================================================================
