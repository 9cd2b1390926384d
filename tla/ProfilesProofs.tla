---------------------------- MODULE ProfilesProofs ---------------------------
(***************************************************************************)
(* What a group of servers keeps for a user.  The vaults they store are    *)
(* whole, as a call asked for them, unless one stops between the two       *)
(* writes of insert_to_vault; no mail taken is lost, and none comes twice; *)
(* and nothing that was saved is missing: for any group, any vault and     *)
(* mailboxes of any size.                                                  *)
(***************************************************************************)
EXTENDS Profiles, SubsequencesProofs, SequenceTheorems, FiniteSetTheorems

\* A request of insert_to_vault that is under way, or was, asked for a vault of the history.
Genuine(c, sg) ==
    /\ DOMAIN c = {"kind", "at", "origin", "nonce", "changes", "root", "stage", "got",
                   "waiting", "answers", "result"}
    /\ c.kind \in {"mail", "read", "vault"}
    /\ c.kind = "vault" => <<c.nonce, c.root>> \in sg

\* What a server stores is a vault that a call asked for, unless a server has stopped
\* between the two writes.
Stored(pf, sg, sf) ==
    /\ DOMAIN pf = {"vault_version", "mail_action", "vault", "file"}
    /\ "crash" \notin sf => <<pf.vault_version, pf.vault>> \in sg

CallsInv(cs, sg) == /\ \E S : cs \in Seq(S)
                    /\ \A i \in DOMAIN cs : Genuine(cs[i], sg)
                    /\ <<0, EmptyVault>> \in sg
StoreInv(st, sg, sf) == DOMAIN st = Servers /\ \A s \in Servers : Stored(st[s], sg, sf)

\* The inductive invariant.  The property does not say what the requests on their way ask
\* for.
ProfileInv == CallsInv(calls, asked) /\ StoreInv(store, asked, suffered)

-----------------------------------------------------------------------------
\* The user signs more, and there are more faults: what was true stays true.
LEMMA MoreAsked ==
    ASSUME NEW cs, NEW st, NEW sg, NEW sf, NEW sg2, NEW sf2, sg \subseteq sg2, sf \subseteq sf2
    PROVE  /\ CallsInv(cs, sg) => CallsInv(cs, sg2)
           /\ StoreInv(st, sg, sf) => StoreInv(st, sg2, sf2)
BY DEF CallsInv, StoreInv, Genuine, Stored

\* The calls grow by one; one of them changes.
LEMMA CallAdded ==
    ASSUME NEW cs, NEW sg, CallsInv(cs, sg), NEW c, Genuine(c, sg)
    PROVE  CallsInv(Append(cs, c), sg)
<1>1. PICK S : cs \in Seq(S)
  BY DEF CallsInv
<1> DEFINE T == S \cup {c}
           new == Append(cs, c)
<1>2. cs \in Seq(T) /\ c \in T
  <2>1. S \subseteq T /\ c \in T
    OBVIOUS
  <2> HIDE DEF T
  <2> QED BY <1>1, <2>1, SeqMonotonic
<1> HIDE DEF T
<1>3. /\ new \in Seq(T) /\ Len(new) = Len(cs) + 1 /\ Len(cs) \in Nat
      /\ DOMAIN new = 1 .. Len(cs) + 1 /\ DOMAIN cs = 1 .. Len(cs)
      /\ \A i \in 1 .. Len(cs) : new[i] = cs[i]
      /\ new[Len(cs) + 1] = c
  BY <1>2, AppendProperties, LenProperties
<1> HIDE DEF new
<1>4. \A i \in DOMAIN new : i \in DOMAIN cs \/ i = Len(cs) + 1
  BY <1>3, SMT
<1>5. \A i \in DOMAIN new : Genuine(new[i], sg)
  BY <1>3, <1>4 DEF CallsInv
<1>6. CallsInv(new, sg)
  BY <1>3, <1>5 DEF CallsInv
<1> QED BY <1>6 DEF new

LEMMA CallChanged ==
    ASSUME NEW cs, NEW sg, CallsInv(cs, sg), NEW new, DOMAIN new = DOMAIN cs,
           new = [i \in DOMAIN new |-> new[i]],
           \A i \in DOMAIN cs : Genuine(new[i], sg)
    PROVE  CallsInv(new, sg)
<1>1. PICK S : cs \in Seq(S)
  BY DEF CallsInv
<1> DEFINE n == Len(cs)
           T == {new[i] : i \in DOMAIN new}
<1>2. n \in Nat /\ DOMAIN new = 1 .. n
  BY <1>1, LenProperties
<1>3. new \in [1 .. n -> T]
  BY <1>2
<1> HIDE DEF n, T
<1>4. new \in Seq(T)
  BY <1>2, <1>3, SeqDef
<1> QED BY <1>4 DEF CallsInv

LEMMA OneCallChanged ==
    ASSUME NEW cs, NEW sg, CallsInv(cs, sg), NEW i \in DOMAIN cs, NEW c, Genuine(c, sg)
    PROVE  CallsInv([cs EXCEPT ![i] = c], sg)
<1> DEFINE new == [cs EXCEPT ![i] = c]
<1>1. /\ DOMAIN new = DOMAIN cs /\ new = [j \in DOMAIN new |-> new[j]]
      /\ \A j \in DOMAIN cs : new[j] = IF j = i THEN c ELSE cs[j]
  OBVIOUS
<1>2. \A j \in DOMAIN cs : Genuine(new[j], sg)
  BY <1>1 DEF CallsInv
<1> HIDE DEF new
<1>3. CallsInv(new, sg)
  BY <1>1, <1>2, CallChanged
<1> QED BY <1>3 DEF new

\* What is left of a call when it is over, and what becomes of it otherwise.
LEMMA DoneGenuine ==
    ASSUME NEW c, NEW sg, Genuine(c, sg), <<0, EmptyVault>> \in sg, NEW result
    PROVE  Genuine(Done(c, result), sg)
<1> DEFINE over == IF c.waiting = {} THEN Call(c.kind, 0, Offline) ELSE c
<1>1. Genuine(over, sg)
  BY DEF Genuine, Call
<1>2. Done(c, result) = [over EXCEPT !.stage = "done", !.got = <<>>, !.answers = {}, !.result = result]
  BY DEF Done
<1> HIDE DEF over
<1> QED BY <1>1, <1>2 DEF Genuine

LEMMA ReplicatingGenuine ==
    ASSUME NEW c, NEW sg, Genuine(c, sg), <<0, EmptyVault>> \in sg, NEW ans
    PROVE  Genuine(Replicating(c, ans), sg)
<1>1. Genuine([c EXCEPT !.stage = "repl", !.got = <<>>, !.waiting = Servers \ {c.at},
                        !.answers = {<<c.at, ans>>}], sg)
  BY DEF Genuine
<1> QED BY <1>1, DoneGenuine DEF Replicating

\* The operations of a server.
LEMMA AppendMailKept ==
    ASSUME NEW pf, NEW sg, NEW sf, Stored(pf, sg, sf), NEW mail
    PROVE  Stored(AppendMail(pf, mail).pf, sg, sf)
<1>1. \A f : Stored([pf EXCEPT !.file = f], sg, sf)
  BY DEF Stored
<1>2. \/ AppendMail(pf, mail).pf = pf
      \/ \E f : AppendMail(pf, mail).pf = [pf EXCEPT !.file = f]
  BY DEF AppendMail, Err
<1> QED BY <1>1, <1>2

LEMMA ReadMailKept ==
    ASSUME NEW pf, NEW sg, NEW sf, Stored(pf, sg, sf), NEW nonce
    PROVE  Stored(ReadMail(pf, nonce).pf, sg, sf)
<1>1. \A f : Stored([pf EXCEPT !.mail_action = nonce, !.file = f], sg, sf)
  BY DEF Stored
<1>2. \/ ReadMail(pf, nonce).pf = pf
      \/ \E f : ReadMail(pf, nonce).pf = [pf EXCEPT !.mail_action = nonce, !.file = f]
  BY DEF ReadMail, Err
<1> QED BY <1>1, <1>2

LEMMA InsertKept ==
    ASSUME NEW pf, NEW sg, NEW sf, Stored(pf, sg, sf), NEW changes, NEW root, NEW nonce,
           <<nonce, root>> \in sg
    PROVE  Stored(InsertToVault(pf, changes, root, nonce).pf, sg, sf)
<1>1. Stored([pf EXCEPT !.vault_version = nonce, !.vault = root], sg, sf)
  BY DEF Stored
<1>2. \/ InsertToVault(pf, changes, root, nonce).pf = pf
      \/ InsertToVault(pf, changes, root, nonce).pf = [pf EXCEPT !.vault_version = nonce, !.vault = root]
  BY DEF InsertToVault, Err
<1> QED BY <1>1, <1>2

LEMMA LoadedKept ==
    ASSUME NEW pf, NEW sg, NEW sf, Stored(pf, sg, sf)
    PROVE  Stored(Loaded(pf), sg, sf)
BY DEF Stored, Loaded

LEMMA HandledKept ==
    ASSUME NEW sg, NEW sf, NEW s, Stored(store[s], sg, sf), NEW i, NEW c, Genuine(c, sg), NEW origin
    PROVE  /\ Stored(Handled(s, i, c, origin).pf, sg, sf)
           /\ Stored(MailHandled(s, i, origin).pf, sg, sf)
<1>1. Stored(MailHandled(s, i, origin).pf, sg, sf)
  <2>1. MailHandled(s, i, origin).pf \in {store[s], AppendMail(store[s], i).pf}
    BY DEF MailHandled
  <2> QED BY <2>1, AppendMailKept
<1>2. CASE c.kind = "mail"
  BY <1>1, <1>2 DEF Handled
<1>3. CASE c.kind = "read"
  <2>1. Handled(s, i, c, origin).pf = ReadMail(store[s], c.nonce).pf
    BY <1>3 DEF Handled
  <2> QED BY <1>1, <2>1, ReadMailKept
<1>4. CASE c.kind = "vault"
  <2>1. Handled(s, i, c, origin).pf = InsertToVault(store[s], c.changes, c.root, c.nonce).pf
    BY <1>4 DEF Handled
  <2>2. <<c.nonce, c.root>> \in sg
    BY <1>4 DEF Genuine
  <2> QED BY <1>1, <2>1, <2>2, InsertKept
<1> QED BY <1>2, <1>3, <1>4 DEF Genuine

\* The profile at one server changes.
LEMMA OneStoreChanged ==
    ASSUME NEW st, NEW sg, NEW sf, StoreInv(st, sg, sf), NEW s, NEW pf,
           s \in Servers => Stored(pf, sg, sf)
    PROVE  StoreInv([st EXCEPT ![s] = pf], sg, sf)
BY DEF StoreInv

\* A call is made, and handled at its server.
LEMMA StartKeeps ==
    ASSUME NEW sg, NEW sf, CallsInv(calls, sg), StoreInv(store, sg, sf), NEW c, Genuine(c, sg),
           Start(c)
    PROVE  CallsInv(calls', sg) /\ StoreInv(store', sg, sf)
<1> DEFINE h == Handled(c.at, Len(calls) + 1, c, c.origin)
<1>1. calls' = Append(calls, Replicating(c, h.ans)) /\ store' = [store EXCEPT ![c.at] = h.pf]
  BY DEF Start, Apply
<1>2. c.at \in Servers => Stored(h.pf, sg, sf)
  BY HandledKept DEF StoreInv
<1> HIDE DEF h
<1>3. Genuine(Replicating(c, h.ans), sg)
  BY ReplicatingGenuine DEF CallsInv
<1> QED BY <1>1, <1>2, <1>3, CallAdded, OneStoreChanged

-----------------------------------------------------------------------------
LEMMA ProfileInvIs ==
    ASSUME CallsInv(calls', asked'), StoreInv(store', asked', suffered')
    PROVE  ProfileInv'
BY DEF ProfileInv, CallsInv, StoreInv, Genuine, Stored, EmptyVault

\* What was asked for stays so, and what was suffered stays suffered.
LEMMA Faulted ==
    /\ \A kind : Fault(kind) => suffered \subseteq suffered' /\ kind \in suffered'
    /\ NoFault => suffered \subseteq suffered'
    /\ MayCall => suffered \subseteq suffered'
    /\ \A origin : MayMail(origin) => suffered \subseteq suffered'
BY DEF Fault, NoFault, MayCall, MayMail

\* An action that changes neither the calls nor what is stored.
LEMMA NothingSaved ==
    ASSUME ProfileInv, UNCHANGED <<calls, store, asked>>, suffered \subseteq suffered'
    PROVE  ProfileInv'
BY MoreAsked, ProfileInvIs DEF ProfileInv

\* One call changes, and the profile at one server may.
LEMMA OneStep ==
    ASSUME ProfileInv, suffered \subseteq suffered', asked' = asked,
           NEW i \in DOMAIN calls, NEW d, Genuine(d, asked), calls' = [calls EXCEPT ![i] = d],
           NEW s, NEW pf, s \in Servers => Stored(pf, asked, suffered),
           store' = store \/ store' = [store EXCEPT ![s] = pf]
    PROVE  ProfileInv'
<1>1. CallsInv(calls', asked)
  BY OneCallChanged DEF ProfileInv
<1>2. StoreInv(store', asked, suffered)
  BY OneStoreChanged DEF ProfileInv
<1> QED BY <1>1, <1>2, MoreAsked, ProfileInvIs

LEMMA ProfileInvInit == Init => ProfileInv
<1> SUFFICES ASSUME Init PROVE ProfileInv
  OBVIOUS
<1>1. CallsInv(calls, asked)
  BY EmptySeq DEF Init, CallsInv
<1>2. StoreInv(store, asked, suffered)
  BY DEF Init, StoreInv, Stored, Created
<1> QED BY <1>1, <1>2 DEF ProfileInv

LEMMA SendMailStep ==
    ASSUME ProfileInv, NEW s, NEW o, SendMail(s, o)
    PROVE  ProfileInv'
<1> DEFINE c == Call("mail", s, o)
           d == [c EXCEPT !.stage = "direct", !.got = online[s]]
<1>1. Genuine(c, asked) /\ Genuine(d, asked)
  BY DEF Genuine, Call
<1>2. \/ calls' = Append(calls, d) /\ store' = store
      \/ Start(c)
  BY DEF SendMail, servers
<1>3. suffered \subseteq suffered' /\ asked' = asked
  BY Faulted DEF SendMail, hist
<1> HIDE DEF c, d
<1>4. CallsInv(calls', asked) /\ StoreInv(store', asked, suffered)
  BY <1>1, <1>2, StartKeeps, CallAdded DEF ProfileInv
<1> QED BY <1>3, <1>4, MoreAsked, ProfileInvIs

LEMMA DirectMailStep ==
    ASSUME ProfileInv, NEW i, DirectMail(i)
    PROVE  ProfileInv'
<1> DEFINE t == calls[i].got[2]
           h == MailHandled(t, i, Remote(calls[i].at))
           d == [calls[i] EXCEPT !.stage = "back", !.got = h.ans]
<1>1. i \in DOMAIN calls /\ Genuine(calls[i], asked)
  BY DEF DirectMail, ProfileInv, CallsInv
<1>2. store' = [store EXCEPT ![t] = h.pf]
  BY DEF DirectMail, Apply
<1>3. t \in Servers => Stored(h.pf, asked, suffered)
  BY <1>1, HandledKept DEF ProfileInv, StoreInv
<1>4. calls' = [calls EXCEPT ![i] = d]
  BY DEF DirectMail
<1> HIDE DEF h, t
<1>5. Genuine(d, asked)
  BY <1>1 DEF Genuine
<1> HIDE DEF d
<1>6. suffered \subseteq suffered' /\ asked' = asked
  BY Faulted DEF DirectMail, hist
<1> QED BY <1>1, <1>2, <1>3, <1>4, <1>5, <1>6, OneStep

\* Nothing is stored: a field of the call that is not about its vault changes.
LEMMA FieldSteps ==
    ASSUME ProfileInv, NEW i, NEW t, DirectFails(i) \/ Unreachable(i, t)
    PROVE  ProfileInv'
<1>1. i \in DOMAIN calls /\ Genuine(calls[i], asked)
  BY DEF DirectFails, Unreachable, ProfileInv, CallsInv
<1>2. \E d : Genuine(d, asked) /\ calls' = [calls EXCEPT ![i] = d]
  <2>1. CASE DirectFails(i)
    <3> DEFINE d == [calls[i] EXCEPT !.stage = "back", !.got = <<"NoReplicator">>]
    <3>1. calls' = [calls EXCEPT ![i] = d]
      BY <2>1 DEF DirectFails
    <3>2. Genuine(d, asked)
      BY <1>1 DEF Genuine
    <3> QED BY <3>1, <3>2
  <2>2. CASE Unreachable(i, t)
    <3> DEFINE d == [calls[i] EXCEPT !.waiting = @ \ {t}]
    <3>1. calls' = [calls EXCEPT ![i] = d]
      BY <2>2 DEF Unreachable
    <3>2. Genuine(d, asked)
      BY <1>1 DEF Genuine
    <3> QED BY <3>1, <3>2
  <2> QED BY <2>1, <2>2
<1>3. suffered \subseteq suffered' /\ asked' = asked /\ store' = store
  BY Faulted DEF DirectFails, Unreachable, hist, servers
<1> QED BY <1>1, <1>2, <1>3, OneStep DEF ProfileInv, StoreInv

LEMMA DirectReturnsStep ==
    ASSUME ProfileInv, NEW i, DirectReturns(i)
    PROVE  ProfileInv'
<1> DEFINE c == calls[i]
           res == AppendMail(store[c.at], i)
<1>1. i \in DOMAIN calls /\ Genuine(c, asked) /\ <<0, EmptyVault>> \in asked
  BY DEF DirectReturns, ProfileInv, CallsInv
<1>2. \/ calls' = [calls EXCEPT ![i] = Done(c, c.got)] /\ store' = store
      \/ calls' = [calls EXCEPT ![i] = Replicating(c, res.ans)] /\ store' = [store EXCEPT ![c.at] = res.pf]
  BY DEF DirectReturns, servers
<1>3. c.at \in Servers => Stored(res.pf, asked, suffered)
  BY AppendMailKept DEF ProfileInv, StoreInv
<1>4. suffered \subseteq suffered' /\ asked' = asked
  BY Faulted DEF DirectReturns, hist
<1> HIDE DEF c, res
<1>5. Genuine(Done(c, c.got), asked) /\ Genuine(Replicating(c, res.ans), asked)
  BY <1>1, DoneGenuine, ReplicatingGenuine
<1> QED BY <1>1, <1>2, <1>3, <1>4, <1>5, OneStep

LEMMA ReplicaStep ==
    ASSUME ProfileInv, NEW i, NEW t, Replica(i, t)
    PROVE  ProfileInv'
<1> DEFINE c == calls[i]
           h == Handled(t, i, c, Remote(c.at))
           d == [c EXCEPT !.waiting = @ \ {t}]
           e == IF c.stage = "done" THEN Done(d, c.result) ELSE [d EXCEPT !.answers = @ \cup {<<t, h.ans>>}]
<1>1. i \in DOMAIN calls /\ Genuine(c, asked) /\ <<0, EmptyVault>> \in asked
  BY DEF Replica, ProfileInv, CallsInv
<1>2. store' = [store EXCEPT ![t] = h.pf] /\ calls' = [calls EXCEPT ![i] = e]
  BY DEF Replica, Apply
<1>3. t \in Servers => Stored(h.pf, asked, suffered)
  BY <1>1, HandledKept DEF ProfileInv, StoreInv
<1>4. suffered \subseteq suffered' /\ asked' = asked
  BY Faulted DEF Replica, hist
<1>5. Genuine(d, asked)
  BY <1>1 DEF Genuine
<1> HIDE DEF c, h, d
<1>6. Genuine(e, asked)
  <2>1. Genuine([d EXCEPT !.answers = @ \cup {<<t, h.ans>>}], asked)
    BY <1>5 DEF Genuine
  <2> QED BY <1>1, <1>5, <2>1, DoneGenuine
<1> HIDE DEF e
<1> QED BY <1>1, <1>2, <1>3, <1>4, <1>6, OneStep

LEMMA ReturnedStep ==
    ASSUME ProfileInv, NEW i, Finish(i) \/ Timeout(i)
    PROVE  ProfileInv'
<1>1. i \in DOMAIN calls /\ Genuine(calls[i], asked) /\ <<0, EmptyVault>> \in asked
  BY DEF Finish, Timeout, ProfileInv, CallsInv
<1>2. PICK result : Returned(i, result)
  BY DEF Finish, Timeout
<1>3. calls' = [calls EXCEPT ![i] = Done(calls[i], <<result[1]>>)] /\ store' = store /\ asked' = asked
  BY <1>2 DEF Returned, servers
<1>4. suffered \subseteq suffered'
  BY Faulted DEF Finish, Timeout
<1>5. Genuine(Done(calls[i], <<result[1]>>), asked)
  BY <1>1, DoneGenuine
<1> QED BY <1>1, <1>3, <1>4, <1>5, OneStep DEF ProfileInv, StoreInv

\* What sessions and the client do by themselves.
LEMMA QuietSteps ==
    ASSUME ProfileInv, NEW p, NEW s, NEW k,
           \/ Connect(p, s) \/ Subscribe(p) \/ Unsubscribe(p) \/ DeliverEvent(p)
           \/ Hangup(p) \/ Forget(p) \/ Login(p) \/ Defer(k)
    PROVE  ProfileInv'
<1>1. UNCHANGED <<calls, store, asked>>
  BY DEF Connect, Subscribe, Unsubscribe, DeliverEvent, Hangup, Forget, Login, Defer, servers, hist
<1>2. suffered \subseteq suffered'
  BY Faulted DEF Connect, Subscribe, Unsubscribe, DeliverEvent, Hangup, Forget, Login, Defer
<1> QED BY <1>1, <1>2, NothingSaved

LEMMA ReadMailboxStep ==
    ASSUME ProfileInv, NEW p, ReadMailbox(p)
    PROVE  ProfileInv'
<1> DEFINE c == [Call("read", session[p].at, Local(p)) EXCEPT !.nonce = client.mail_action]
<1>1. Genuine(c, asked)
  BY DEF Genuine, Call
<1>2. Start(c) /\ asked' = asked /\ suffered \subseteq suffered'
  BY Faulted DEF ReadMailbox, hist
<1> HIDE DEF c
<1>3. CallsInv(calls', asked) /\ StoreInv(store', asked, suffered)
  BY <1>1, <1>2, StartKeeps DEF ProfileInv
<1> QED BY <1>2, <1>3, MoreAsked, ProfileInvIs

LEMMA SaveVaultStep ==
    ASSUME ProfileInv, NEW p, NEW ks, SaveVault(p, ks)
    PROVE  ProfileInv'
<1> DEFINE cl == Edited(client, ks)
           c == [Call("vault", session[p].at, Local(p)) EXCEPT
                    !.nonce = cl.version, !.changes = cl.changes, !.root = cl.vault]
<1>1. Start(c) /\ asked' = asked \cup {<<cl.version, cl.vault>>} /\ suffered \subseteq suffered'
  BY Faulted DEF SaveVault
<1>2. Genuine(c, asked')
  <2> HIDE DEF cl
  <2> QED BY <1>1 DEF Genuine, Call
<1> HIDE DEF c
<1>3. CallsInv(calls, asked') /\ StoreInv(store, asked', suffered')
  BY <1>1, MoreAsked DEF ProfileInv
<1>4. CallsInv(calls', asked') /\ StoreInv(store', asked', suffered')
  BY <1>1, <1>2, <1>3, StartKeeps
<1> QED BY <1>4, ProfileInvIs

LEMMA WriteVaultStep ==
    ASSUME ProfileInv, NEW s, NEW ks, WriteVault(s, ks)
    PROVE  ProfileInv'
<1> DEFINE pf == store[s]
           vault == [k \in Keys |-> IF k \in ks THEN pf.vault[k] + 1 ELSE pf.vault[k]]
           c == [Call("vault", s, Somebody) EXCEPT
                    !.nonce = pf.vault_version + 1, !.changes = ks, !.root = vault]
<1>1. Start(c) /\ asked' = asked \cup {<<pf.vault_version + 1, vault>>} /\ suffered \subseteq suffered'
  BY Faulted DEF WriteVault
<1>2. Genuine(c, asked')
  <2> HIDE DEF pf, vault
  <2> QED BY <1>1 DEF Genuine, Call
<1> HIDE DEF c, vault
<1>3. CallsInv(calls, asked') /\ StoreInv(store, asked', suffered')
  BY <1>1, MoreAsked DEF ProfileInv
<1>4. CallsInv(calls', asked') /\ StoreInv(store', asked', suffered')
  BY <1>1, <1>2, <1>3, StartKeeps
<1> QED BY <1>4, ProfileInvIs

\* A profile that is loaded again.
LEMMA LoadedAgain ==
    ASSUME ProfileInv, NEW s
    PROVE  StoreInv([store EXCEPT ![s] = Loaded(@)], asked, suffered)
<1>1. s \in Servers => Stored(Loaded(store[s]), asked, suffered)
  BY LoadedKept DEF ProfileInv, StoreInv
<1> QED BY <1>1, OneStoreChanged DEF ProfileInv

LEMMA RestartStep ==
    ASSUME ProfileInv, NEW s, Restart(s) \/ Evict(s)
    PROVE  ProfileInv'
<1>1. store' = [store EXCEPT ![s] = Loaded(@)] /\ asked' = asked /\ suffered \subseteq suffered'
  BY Faulted DEF Restart, Evict, hist
<1>2. CallsInv(calls', asked)
  <2>1. CASE Restart(s)
    <3>1. calls' = [i \in DOMAIN calls |-> IF calls[i].at # s \/ ~InCall(calls[i]) THEN calls[i]
                                           ELSE Done(calls[i], <<"ConnectionAborted">>)]
      BY <2>1 DEF Restart
    <3>2. \A i \in DOMAIN calls : Genuine(calls'[i], asked)
      BY <3>1, DoneGenuine DEF ProfileInv, CallsInv
    <3>3. DOMAIN calls' = DOMAIN calls /\ calls' = [i \in DOMAIN calls' |-> calls'[i]]
      BY <3>1
    <3> QED BY <3>2, <3>3, CallChanged DEF ProfileInv
  <2>2. CASE Evict(s)
    BY <2>2 DEF Evict, ProfileInv
  <2> QED BY <2>1, <2>2
<1>3. StoreInv(store', asked, suffered)
  BY <1>1, LoadedAgain
<1> QED BY <1>1, <1>2, <1>3, MoreAsked, ProfileInvIs

LEMMA CrashStep ==
    ASSUME ProfileInv, NEW i, NEW t, Crash(i, t)
    PROVE  ProfileInv'
<1> DEFINE c == calls[i]
           d == [c EXCEPT !.waiting = @ \ {t}]
           e == IF d.stage = "done" THEN Done(d, d.result) ELSE d
<1>1. i \in DOMAIN calls /\ Genuine(c, asked) /\ <<0, EmptyVault>> \in asked
  BY DEF Crash, ProfileInv, CallsInv
<1>2. /\ store' = [store EXCEPT ![t] = [Loaded(@) EXCEPT !.vault_version = c.nonce]]
      /\ calls' = [calls EXCEPT ![i] = e] /\ asked' = asked
  BY DEF Crash
<1>3. "crash" \in suffered'
  BY Faulted DEF Crash
<1>4. Genuine(d, asked)
  BY <1>1 DEF Genuine
<1>5. Genuine(e, asked)
  <2> HIDE DEF c, d
  <2> QED BY <1>1, <1>4, DoneGenuine
<1>6. StoreInv(store', asked', suffered')
  <2>1. DOMAIN Loaded(store[t]) = DOMAIN store[t]
    BY DEF Loaded
  <2> QED BY <1>2, <1>3, <2>1 DEF ProfileInv, StoreInv, Stored
<1> HIDE DEF e
<1>7. CallsInv(calls', asked')
  BY <1>1, <1>2, <1>5, OneCallChanged DEF ProfileInv
<1> QED BY <1>6, <1>7, ProfileInvIs

LEMMA ProfileInvStep == ProfileInv /\ [Next]_vars => ProfileInv'
<1> SUFFICES ASSUME ProfileInv, [Next]_vars PROVE ProfileInv'
  OBVIOUS
<1>1. CASE UNCHANGED vars
  BY <1>1, NothingSaved DEF vars
<1>2. CASE Next
  BY <1>2, SendMailStep, DirectMailStep, FieldSteps, DirectReturnsStep, ReplicaStep, ReturnedStep,
     QuietSteps, ReadMailboxStep, SaveVaultStep, WriteVaultStep, RestartStep, CrashStep DEF Next
<1> QED BY <1>1, <1>2

\* Every vault a server stores is one a call asked for as a whole, under the nonce the
\* server has for it (Storage::insert_to_vault, save_vault_components_low), whoever made the
\* call and however many servers, calls, keys and faults there are, except after a stop
\* between its two writes.
THEOREM StoredVaultsAreWhole == Spec => []VaultIsWhole
<1>1. ProfileInv => VaultIsWhole
  BY DEF ProfileInv, StoreInv, Stored, VaultIsWhole
<1> QED BY <1>1, ProfileInvInit, ProfileInvStep, PTL DEF Spec-----------------------------------------------------------------------------
\* Types of Profiles: what a server stores, a request, and the rest of the state.
Mailbox == [hole : Nat, mails : Seq(Nat), cursor : Nat]
Profile == [vault_version : Nat, mail_action : Nat, vault : [Keys -> Nat], file : Mailbox]
Session == [state : {"none", "live", "dead", "gone"}, at : Servers \cup {0}, events : Seq(Nat)]

\* The answer to read_mail brings mails.
Readable(kind, ans) == kind = "read" /\ ans[1] = "Ok" => ans[3] \in Seq(Nat)

Request(c) ==
    /\ DOMAIN c = {"kind", "at", "origin", "nonce", "changes", "root", "stage", "got",
                   "waiting", "answers", "result"}
    /\ c.kind \in {"mail", "read", "vault"}
    /\ c.stage \in {"direct", "back", "repl", "done"}
    /\ c.waiting \subseteq Servers
    /\ c.nonce \in Nat /\ c.changes \subseteq Keys /\ c.root \in [Keys -> Nat]
    /\ c.stage # "done" \/ c.waiting # {} => c.at \in Servers /\ c.at \notin c.waiting
    /\ c.stage # "done" => c.result = <<>>
    /\ \A a \in c.answers : Readable(c.kind, a[2])
    /\ c.stage \in {"direct", "back"} => c.waiting = {} /\ c.kind = "mail"
    /\ c.stage = "direct" => \E t \in Servers : c.got = Remote(t)

Requests(cs) == (\E S : cs \in Seq(S)) /\ \A i \in DOMAIN cs : Request(cs[i])

Client(cl) ==
    /\ DOMAIN cl = {"vault", "changes", "version", "mail_action", "saved", "saving", "edits"}
    /\ cl.vault \in [Keys -> Nat] /\ cl.changes \subseteq Keys
    /\ cl.version \in Nat /\ cl.mail_action \in Nat /\ cl.saved \in Nat /\ cl.saving \in Nat

Sessions(ses) ==
    /\ ses \in [Paths -> Session]
    /\ \A p \in Paths : ses[p].state = "live" => ses[p].at \in Servers

Places == {Offline} \cup {Local(p) : p \in Paths \cup {0}} \cup {Remote(s) : s \in Servers}

ProfileTypes ==
    /\ store \in [Servers -> Profile]
    /\ online \in [Servers -> Places]
    /\ subs \in [Servers -> Paths \cup {0}]
    /\ Sessions(session)
    /\ Requests(calls)
    /\ Client(client)
    /\ received \in Seq(Nat)
    /\ uneven \subseteq Servers

-----------------------------------------------------------------------------
\* The operations on what one server stores.
LEMMA LengthType ==
    ASSUME NEW f \in Mailbox
    PROVE  Length(f) \in Nat
<1>1. f.hole \in Nat /\ Len(f.mails) \in Nat /\ MailLen + 2 \in Nat
  BY StoreAssumption, LenProperties DEF Mailbox
<1>2. \A m, n \in Nat : m * n \in Nat
  BY SMT
<1>3. Len(f.mails) * (MailLen + 2) \in Nat
  BY <1>1, <1>2
<1> QED BY <1>1, <1>3, SMT DEF Length

LEMMA MailAppended ==
    ASSUME NEW pf \in Profile, NEW mail \in Nat
    PROVE  /\ AppendMail(pf, mail).pf \in Profile
           /\ AppendMail(pf, mail).ans \in {<<"Ok">>, <<"MailboxFull">>}
           /\ AppendMail(pf, mail).ans = <<"MailboxFull">> => AppendMail(pf, mail).pf = pf
           /\ AppendMail(pf, mail).ans = <<"Ok">> =>
                  AppendMail(pf, mail).pf.file.mails = Append(pf.file.mails, mail)
           /\ AppendMail(pf, mail).pf.vault_version = pf.vault_version
           /\ AppendMail(pf, mail).pf.mail_action = pf.mail_action
           /\ AppendMail(pf, mail).pf.vault = pf.vault
<1> DEFINE f == pf.file
           g == [hole   |-> IF f.mails = <<>> THEN f.cursor ELSE f.hole,
                 mails  |-> Append(f.mails, mail),
                 cursor |-> f.cursor + MailLen + 2]
           full == Length(f) + MailLen > MailBoxCap
<1>1. f \in Mailbox /\ f.mails \in Seq(Nat) /\ f.hole \in Nat /\ f.cursor \in Nat
  BY DEF Profile, Mailbox
<1>2. g \in Mailbox
  BY <1>1, StoreAssumption, AppendProperties DEF Mailbox
<1>3. [pf EXCEPT !.file = g] \in Profile
  BY <1>2 DEF Profile
<1>4. /\ full => AppendMail(pf, mail) = [ans |-> <<"MailboxFull">>, pf |-> pf]
      /\ ~full => AppendMail(pf, mail) = [ans |-> <<"Ok">>, pf |-> [pf EXCEPT !.file = g]]
  BY DEF AppendMail, Err
<1>5. /\ [pf EXCEPT !.file = g].file = g /\ g.mails = Append(pf.file.mails, mail)
      /\ [pf EXCEPT !.file = g].vault_version = pf.vault_version
      /\ [pf EXCEPT !.file = g].mail_action = pf.mail_action
      /\ [pf EXCEPT !.file = g].vault = pf.vault
  BY DEF Profile
<1>6. <<"Ok">> # <<"MailboxFull">>
  BY SMT
<1> DEFINE q == [pf EXCEPT !.file = g]
<1> HIDE DEF g, full, q
<1>7. CASE full
  <2>1. AppendMail(pf, mail).ans = <<"MailboxFull">> /\ AppendMail(pf, mail).pf = pf
    BY <1>4, <1>7
  <2> QED BY <1>6, <2>1
<1>8. CASE ~full
  <2>1. AppendMail(pf, mail).ans = <<"Ok">> /\ AppendMail(pf, mail).pf = q
    BY <1>4, <1>8 DEF q
  <2>2. q \in Profile /\ q.file.mails = Append(pf.file.mails, mail)
    BY <1>3, <1>5 DEF q
  <2>3. q.vault_version = pf.vault_version /\ q.mail_action = pf.mail_action /\ q.vault = pf.vault
    BY <1>5 DEF q
  <2> QED BY <1>6, <2>1, <2>2, <2>3
<1> QED BY <1>7, <1>8

LEMMA MailRead ==
    ASSUME NEW pf \in Profile, NEW nonce \in Nat
    PROVE  LET r == ReadMail(pf, nonce)
           IN  /\ r.pf \in Profile
               /\ r.pf.vault_version = pf.vault_version /\ r.pf.vault = pf.vault
               /\ \/ nonce <= pf.mail_action /\ r.pf = pf /\ r.ans = <<"InvalidAction">>
                  \/ /\ nonce > pf.mail_action /\ r.pf.mail_action = nonce
                     /\ r.pf.file = TakenOut(pf.file) /\ r.pf.file.mails = <<>>
                     /\ r.ans = <<"Ok", IF pf.file.mails = <<>> THEN 0 ELSE pf.file.hole, pf.file.mails>>
<1> DEFINE f == TakenOut(pf.file)
           new == [pf EXCEPT !.mail_action = nonce, !.file = f]
           r == ReadMail(pf, nonce)
<1>1. f \in Mailbox /\ f.mails = <<>>
  BY LengthType, EmptySeq DEF TakenOut, EmptyFile, Mailbox, Profile
<1>2. /\ nonce <= pf.mail_action => r = [ans |-> <<"InvalidAction">>, pf |-> pf]
      /\ ~(nonce <= pf.mail_action) =>
            r = [ans |-> <<"Ok", IF pf.file.mails = <<>> THEN 0 ELSE pf.file.hole, pf.file.mails>>,
                 pf |-> new]
  BY DEF ReadMail, Err, Outdated
<1> HIDE DEF f, r
<1>3. /\ new \in Profile /\ new.file = f /\ new.mail_action = nonce
      /\ new.vault_version = pf.vault_version /\ new.vault = pf.vault
  BY <1>1 DEF Profile
<1>4. pf.mail_action \in Nat
  BY DEF Profile
<1> HIDE DEF new
<1>5. CASE nonce <= pf.mail_action
  BY <1>2, <1>5 DEF r
<1>6. CASE ~(nonce <= pf.mail_action)
  <2>1. nonce > pf.mail_action
    BY <1>4, <1>6, SMT
  <2> QED BY <1>1, <1>2, <1>3, <1>6, <2>1 DEF r, f
<1> QED BY <1>5, <1>6

Accepts(root) == ~ Cardinality({k \in Keys : root[k] # 0}) >= MaxVaultKeys

LEMMA VaultInserted ==
    ASSUME NEW pf \in Profile, NEW nonce \in Nat, NEW root \in [Keys -> Nat], NEW changes
    PROVE  LET r == InsertToVault(pf, changes, root, nonce)
           IN  /\ r.pf \in Profile
               /\ r.pf.mail_action = pf.mail_action /\ r.pf.file = pf.file
               /\ \/ /\ r.pf = pf
                     /\ r.ans \in {<<"TooManyKeys">>, <<"InvalidProofContext">>, <<"InvalidAction">>}
                  \/ /\ r.ans = <<"Ok">> /\ r.pf.vault = root /\ r.pf.vault_version = nonce
                     /\ nonce > pf.vault_version
<1> DEFINE new == Overlaid(pf.vault, changes, root)
           r == InsertToVault(pf, changes, root, nonce)
           many == Cardinality({k \in Keys : new[k] # 0}) >= MaxVaultKeys
           q == [pf EXCEPT !.vault_version = nonce, !.vault = new]
<1>1. /\ many => r = [ans |-> <<"TooManyKeys">>, pf |-> pf]
      /\ ~many /\ new # root => r = [ans |-> <<"InvalidProofContext">>, pf |-> pf]
      /\ ~many /\ new = root /\ nonce <= pf.vault_version => r = [ans |-> <<"InvalidAction">>, pf |-> pf]
      /\ ~many /\ new = root /\ ~(nonce <= pf.vault_version) => r = [ans |-> <<"Ok">>, pf |-> q]
  BY DEF InsertToVault, Err, Outdated
<1> HIDE DEF r, many, new
<1>2. new = root => /\ q \in Profile /\ q.mail_action = pf.mail_action /\ q.file = pf.file
                    /\ q.vault = root /\ q.vault_version = nonce
  BY DEF Profile
<1>3. pf.vault_version \in Nat
  BY DEF Profile
<1> HIDE DEF q
<1>4. CASE ~many /\ new = root /\ ~(nonce <= pf.vault_version)
  <2>1. nonce > pf.vault_version
    BY <1>3, <1>4, SMT
  <2> QED BY <1>1, <1>2, <1>4, <2>1 DEF r
<1>5. CASE many \/ new # root \/ nonce <= pf.vault_version
  BY <1>1, <1>5 DEF r
<1> QED BY <1>4, <1>5

LEMMA LoadedType ==
    ASSUME NEW pf \in Profile
    PROVE  /\ Loaded(pf) \in Profile
           /\ Loaded(pf).vault_version = pf.vault_version /\ Loaded(pf).vault = pf.vault
           /\ Loaded(pf).mail_action = pf.mail_action
<1> DEFINE f == [pf.file EXCEPT !.cursor = Length(pf.file)]
<1>1. f \in Mailbox
  BY LengthType DEF Profile, Mailbox
<1>2. Loaded(pf) = [pf EXCEPT !.file = f]
  BY DEF Loaded, Profile, Mailbox
<1> HIDE DEF f
<1> QED BY <1>1, <1>2 DEF Profile
-----------------------------------------------------------------------------
\* Requests: how they begin, how they end.
LEMMA CallType ==
    ASSUME NEW s \in Servers, NEW kind \in {"mail", "read", "vault"}, NEW origin
    PROVE  Request(Call(kind, s, origin))
BY DEF Request, Call, EmptyVault

LEMMA DoneType ==
    ASSUME NEW c, Request(c), NEW result
    PROVE  LET d == Done(c, result)
           IN  /\ Request(d) /\ d.kind = c.kind /\ d.stage = "done" /\ d.result = result
               /\ d.waiting = c.waiting
               /\ c.waiting # {} => /\ d.at = c.at /\ d.nonce = c.nonce
                                    /\ d.changes = c.changes /\ d.root = c.root
<1> DEFINE over == IF c.waiting = {} THEN Call(c.kind, 0, Offline) ELSE c
           d == [over EXCEPT !.stage = "done", !.got = <<>>, !.answers = {}, !.result = result]
<1>1. /\ DOMAIN over = DOMAIN c /\ over.kind = c.kind /\ over.waiting = c.waiting
      /\ over.nonce \in Nat /\ over.changes \subseteq Keys /\ over.root \in [Keys -> Nat]
      /\ c.waiting # {} => over = c
  BY DEF Request, Call, EmptyVault
<1>2. Done(c, result) = d
  BY DEF Done
<1> HIDE DEF over
<1>3. /\ DOMAIN d = DOMAIN over /\ d.kind = over.kind /\ d.stage = "done" /\ d.result = result
      /\ d.waiting = over.waiting /\ d.nonce = over.nonce /\ d.changes = over.changes
      /\ d.root = over.root /\ d.at = over.at /\ d.answers = {}
  BY <1>1 DEF Request
<1> HIDE DEF d
<1>4. Request(d)
  BY <1>1, <1>3 DEF Request
<1> QED BY <1>1, <1>2, <1>3, <1>4

\* A request that is sent to the others, or not.
LEMMA ReplicatingType ==
    ASSUME NEW c, Request(c), c.at \in Servers, c.result = <<>>, NEW ans, ans # <<"SentDirectly">>,
           Readable(c.kind, ans)
    PROVE  LET d == Replicating(c, ans)
           IN  /\ Request(d) /\ d.kind = c.kind /\ d.stage = "repl" /\ d.result = <<>>
               /\ d.waiting = Servers \ {c.at} /\ d.answers = {<<c.at, ans>>} /\ d.at = c.at
               /\ d.nonce = c.nonce /\ d.changes = c.changes /\ d.root = c.root
<1> DEFINE d == [c EXCEPT !.stage = "repl", !.got = <<>>, !.waiting = Servers \ {c.at},
                          !.answers = {<<c.at, ans>>}]
<1>1. Replicating(c, ans) = d
  BY DEF Replicating
<1>2. /\ DOMAIN d = DOMAIN c /\ d.kind = c.kind /\ d.stage = "repl" /\ d.result = c.result
      /\ d.waiting = Servers \ {c.at} /\ d.answers = {<<c.at, ans>>} /\ d.at = c.at
      /\ d.nonce = c.nonce /\ d.changes = c.changes /\ d.root = c.root
  BY DEF Request
<1> HIDE DEF d
<1>4. \A a \in d.answers : a[2] = ans
  BY <1>2
<1>3. Request(d)
  BY <1>2, <1>4 DEF Request
<1> QED BY <1>1, <1>2, <1>3

LEMMA ReplicatingSent ==
    ASSUME NEW c
    PROVE  Replicating(c, <<"SentDirectly">>) = Done(c, <<"SentDirectly">>)
BY DEF Replicating

\* What a request makes of the profile at a server that stores what it brings.
Outcome(c, i, pf) ==
    IF c.kind = "mail" THEN AppendMail(pf, i)
    ELSE IF c.kind = "read" THEN ReadMail(pf, c.nonce)
    ELSE InsertToVault(pf, c.changes, c.root, c.nonce)

LEMMA OutcomeType ==
    ASSUME NEW c, Request(c), NEW i \in Nat, NEW pf \in Profile
    PROVE  /\ Outcome(c, i, pf).pf \in Profile
           /\ Readable(c.kind, Outcome(c, i, pf).ans)
           /\ Outcome(c, i, pf).ans # <<"SentDirectly">> /\ Outcome(c, i, pf).ans # <<"SendingToSelf">>
<1>1. CASE c.kind = "mail"
  BY <1>1, MailAppended DEF Outcome, Readable
<1>2. CASE c.kind = "read"
  <2>1. Outcome(c, i, pf) = ReadMail(pf, c.nonce)
    BY <1>2 DEF Outcome
  <2>2. \A a, b : <<"Ok", a, b>> # <<"SentDirectly">> /\ <<"Ok", a, b>> # <<"SendingToSelf">>
    BY SMT
  <2>3. \A a, b : <<"Ok", a, b>>[3] = b /\ <<"InvalidAction">>[1] # "Ok"
    BY SMT
  <2>4. pf.file.mails \in Seq(Nat)
    BY DEF Profile, Mailbox
  <2>5. c.nonce \in Nat
    BY DEF Request
  <2> DEFINE r == ReadMail(pf, c.nonce)
  <2>6. /\ r.pf \in Profile
        /\ r.ans = <<"InvalidAction">> \/ \E a : r.ans = <<"Ok", a, pf.file.mails>>
    BY <2>5, MailRead
  <2> HIDE DEF r
  <2>7. r.ans # <<"SentDirectly">> /\ r.ans # <<"SendingToSelf">>
    BY <2>2, <2>6
  <2>8. Readable(c.kind, r.ans)
    BY <2>3, <2>4, <2>6 DEF Readable
  <2> QED BY <2>1, <2>6, <2>7, <2>8 DEF r
<1>3. CASE c.kind = "vault"
  <2>1. Outcome(c, i, pf) = InsertToVault(pf, c.changes, c.root, c.nonce)
    BY <1>3 DEF Outcome
  <2> QED BY <1>3, <2>1, VaultInserted DEF Request, Readable
<1> QED BY <1>1, <1>2, <1>3 DEF Request

\* The three ways a server handles a request: as everyone does, or it pushes a mail, or it
\* refuses a mail of the user to itself.
AsAll(h, c, i, pf) == h.pf = Outcome(c, i, pf).pf /\ h.ans = Outcome(c, i, pf).ans /\ h.push # "pushed"
Pushes(h, c, pf) == c.kind = "mail" /\ h.pf = pf /\ h.ans = <<"SentDirectly">> /\ h.push = "pushed"
Refuses(h, c, pf) == c.kind = "mail" /\ h.pf = pf /\ h.ans = <<"SendingToSelf">> /\ h.push # "pushed"

LEMMA MailHandledWays ==
    ASSUME NEW s, NEW i, NEW origin, NEW c, c.kind = "mail"
    PROVE  LET h == MailHandled(s, i, origin)
           IN  /\ AsAll(h, c, i, store[s]) \/ Pushes(h, c, store[s]) \/ Refuses(h, c, store[s])
               /\ h.online \in {online[s], Offline}
               /\ h.push = "pushed" => Push(s) = "pushed"
<1> DEFINE here == online[s] # Offline /\ online[s][1] = "local"
           push == IF here /\ online[s] # origin THEN Push(s) ELSE "absent"
           h == MailHandled(s, i, origin)
           res == AppendMail(store[s], i)
<1>1. Outcome(c, i, store[s]) = res
  BY DEF Outcome
<1>2. push # "pushed" \/ ~(here /\ online[s] = origin)
  OBVIOUS
<1>3. push = "pushed" => Push(s) = "pushed"
  OBVIOUS
<1>4. /\ here /\ online[s] = origin =>
            h = [ans |-> <<"SendingToSelf">>, pf |-> store[s], online |-> online[s], push |-> push]
      /\ ~(here /\ online[s] = origin) /\ push = "pushed" =>
            h = [ans |-> <<"SentDirectly">>, pf |-> store[s], online |-> online[s], push |-> push]
      /\ ~(here /\ online[s] = origin) /\ push # "pushed" =>
            h = [ans |-> res.ans, pf |-> res.pf, online |-> Offline, push |-> push]
  BY DEF MailHandled
<1>5. h.push = push
  <2> HIDE DEF push, h, here
  <2> QED BY <1>4, <1>2
<1> HIDE DEF here, push, res, h
<1>6. AsAll(h, c, i, store[s]) \/ Pushes(h, c, store[s]) \/ Refuses(h, c, store[s])
  BY <1>1, <1>2, <1>4 DEF AsAll, Pushes, Refuses
<1>7. h.online \in {online[s], Offline}
  BY <1>2, <1>4
<1> QED BY <1>3, <1>5, <1>6, <1>7 DEF h

LEMMA HandledWays ==
    ASSUME NEW s, NEW i, NEW origin, NEW c, Request(c)
    PROVE  LET h == Handled(s, i, c, origin)
           IN  /\ AsAll(h, c, i, store[s]) \/ Pushes(h, c, store[s]) \/ Refuses(h, c, store[s])
               /\ h.online \in {online[s], Offline, origin}
               /\ h.push = "pushed" => Push(s) = "pushed"
<1>1. CASE c.kind = "mail"
  <2>1. Handled(s, i, c, origin) = MailHandled(s, i, origin)
    BY <1>1 DEF Handled
  <2> QED BY <1>1, <2>1, MailHandledWays
<1>2. CASE c.kind = "read"
  <2> DEFINE res == ReadMail(store[s], c.nonce)
  <2>1. /\ Handled(s, i, c, origin) = [ans |-> res.ans, pf |-> res.pf, push |-> "absent",
              online |-> IF res.ans[1] = "Ok" THEN origin ELSE online[s]]
        /\ Outcome(c, i, store[s]) = res
    BY <1>2 DEF Handled, Outcome
  <2> HIDE DEF res
  <2> QED BY <2>1 DEF AsAll
<1>3. CASE c.kind = "vault"
  <2> DEFINE res == InsertToVault(store[s], c.changes, c.root, c.nonce)
  <2>1. /\ Handled(s, i, c, origin) = [ans |-> res.ans, pf |-> res.pf, push |-> "absent", online |-> online[s]]
        /\ Outcome(c, i, store[s]) = res
    BY <1>3 DEF Handled, Outcome
  <2> HIDE DEF res
  <2> QED BY <2>1 DEF AsAll
<1> QED BY <1>1, <1>2, <1>3 DEF Request
-----------------------------------------------------------------------------
\* The calls as a sequence: one is added, one changes.
LEMMA CallsAre ==
    ASSUME NEW cs, Requests(cs)
    PROVE  /\ Len(cs) \in Nat /\ DOMAIN cs = 1 .. Len(cs)
           /\ \A i \in DOMAIN cs : i \in Nat /\ i <= Len(cs) /\ Request(cs[i])
           /\ cs # <<>> => Len(cs) \in DOMAIN cs
<1>1. PICK S : cs \in Seq(S)
  BY DEF Requests
<1>2. Len(cs) \in Nat /\ DOMAIN cs = 1 .. Len(cs)
  BY <1>1, LenProperties
<1>3. cs # <<>> => Len(cs) # 0
  BY <1>1, EmptySeq
<1>4. cs # <<>> => Len(cs) \in DOMAIN cs
  BY <1>2, <1>3, SMT
<1>5. \A i \in DOMAIN cs : i \in Nat /\ i <= Len(cs)
  BY <1>2, SMT
<1> QED BY <1>2, <1>4, <1>5 DEF Requests

LEMMA RequestAdded ==
    ASSUME NEW cs, Requests(cs), NEW c, Request(c)
    PROVE  LET new == Append(cs, c)
           IN  /\ Requests(new) /\ new # <<>>
               /\ Len(new) = Len(cs) + 1 /\ DOMAIN new = DOMAIN cs \cup {Len(cs) + 1}
               /\ Len(cs) + 1 \notin DOMAIN cs
               /\ new[Len(cs) + 1] = c
               /\ \A i \in DOMAIN cs : new[i] = cs[i]
<1>1. PICK S : cs \in Seq(S)
  BY DEF Requests
<1> DEFINE T == S \cup {c}
           new == Append(cs, c)
<1>2. cs \in Seq(T) /\ c \in T
  <2>1. S \subseteq T /\ c \in T
    OBVIOUS
  <2> HIDE DEF T
  <2> QED BY <1>1, <2>1, SeqMonotonic
<1> HIDE DEF T
<1>3. /\ new \in Seq(T) /\ Len(new) = Len(cs) + 1 /\ Len(cs) \in Nat
      /\ DOMAIN new = 1 .. Len(cs) + 1 /\ DOMAIN cs = 1 .. Len(cs)
      /\ \A i \in 1 .. Len(cs) : new[i] = cs[i]
      /\ new[Len(cs) + 1] = c
  BY <1>2, AppendProperties, LenProperties
<1>4. new # <<>>
  <2>1. Len(new) # 0
    BY <1>3, SMT
  <2> QED BY <1>3, <2>1, EmptySeq
<1> HIDE DEF new
<1>5. DOMAIN new = DOMAIN cs \cup {Len(cs) + 1} /\ Len(cs) + 1 \notin DOMAIN cs
  BY <1>3, SMT
<1>6. \A i \in DOMAIN new : Request(new[i])
  BY <1>3, <1>5 DEF Requests
<1>7. Requests(new)
  BY <1>3, <1>6 DEF Requests
<1> QED BY <1>3, <1>4, <1>5, <1>7 DEF new

\* The calls change in place.
LEMMA RequestsChanged ==
    ASSUME NEW cs, Requests(cs), NEW new, DOMAIN new = DOMAIN cs,
           new = [i \in DOMAIN new |-> new[i]],
           \A i \in DOMAIN cs : Request(new[i])
    PROVE  Requests(new) /\ Len(new) = Len(cs) /\ (new = <<>> <=> cs = <<>>)
<1>1. PICK S : cs \in Seq(S)
  BY DEF Requests
<1> DEFINE n == Len(cs)
           T == {new[i] : i \in DOMAIN new}
<1>2. n \in Nat /\ DOMAIN new = 1 .. n
  BY <1>1, LenProperties
<1>3. new \in [1 .. n -> T]
  BY <1>2
<1> HIDE DEF n, T
<1>4. new \in Seq(T)
  BY <1>2, <1>3, SeqDef
<1>5. Len(new) \in Nat /\ DOMAIN new = 1 .. Len(new)
  BY <1>4, LenProperties
<1>6. Len(new) = n
  BY <1>2, <1>5, SMT
<1>7. (new = <<>> <=> Len(new) = 0) /\ (cs = <<>> <=> n = 0)
  BY <1>1, <1>4, EmptySeq DEF n
<1> QED BY <1>4, <1>6, <1>7 DEF Requests, n

LEMMA RequestChanged ==
    ASSUME NEW cs, Requests(cs), NEW i \in DOMAIN cs, NEW c, Request(c)
    PROVE  LET new == [cs EXCEPT ![i] = c]
           IN  /\ Requests(new) /\ Len(new) = Len(cs) /\ DOMAIN new = DOMAIN cs /\ new # <<>>
               /\ new[i] = c /\ \A j \in DOMAIN cs : j # i => new[j] = cs[j]
<1> DEFINE new == [cs EXCEPT ![i] = c]
<1>1. /\ DOMAIN new = DOMAIN cs /\ new = [j \in DOMAIN new |-> new[j]]
      /\ new[i] = c /\ \A j \in DOMAIN cs : j # i => new[j] = cs[j]
  OBVIOUS
<1>2. \A j \in DOMAIN cs : Request(new[j])
  BY <1>1 DEF Requests
<1> HIDE DEF new
<1>3. Requests(new) /\ Len(new) = Len(cs) /\ (new = <<>> <=> cs = <<>>)
  BY <1>1, <1>2, RequestsChanged
<1>4. cs # <<>>
  BY EmptySeq
<1> QED BY <1>1, <1>3, <1>4 DEF new

-----------------------------------------------------------------------------
\* A handler has run: what it does to the types, and to the sessions.
LEMMA EventAdded ==
    ASSUME NEW ses, Sessions(ses), NEW p \in Paths, NEW e \in Seq(Nat)
    PROVE  Sessions([ses EXCEPT ![p].events = e])
<1>1. [ses[p] EXCEPT !.events = e] \in Session /\ [ses[p] EXCEPT !.events = e].state = ses[p].state
      /\ [ses[p] EXCEPT !.events = e].at = ses[p].at
  BY DEF Sessions, Session
<1>2. [ses EXCEPT ![p].events = e] = [ses EXCEPT ![p] = [ses[p] EXCEPT !.events = e]]
  BY DEF Sessions
<1> DEFINE r == [ses[p] EXCEPT !.events = e]
<1> HIDE DEF r
<1>3. Sessions([ses EXCEPT ![p] = r])
  BY <1>1 DEF Sessions, r
<1> QED BY <1>2, <1>3 DEF r

LEMMA PushedWhere ==
    ASSUME ProfileTypes, NEW s \in Servers, Push(s) = "pushed"
    PROVE  subs[s] \in Paths /\ Live(subs[s])
BY DEF Push, ProfileTypes

LEMMA Applied ==
    ASSUME ProfileTypes, NEW s \in Servers, NEW i \in Nat, NEW h, NEW stray, Apply(s, i, h, stray),
           h.pf \in Profile, h.online \in Places, h.push = "pushed" => Push(s) = "pushed"
    PROVE  /\ store' \in [Servers -> Profile] /\ online' \in [Servers -> Places]
           /\ subs' \in [Servers -> Paths \cup {0}] /\ Sessions(session')
           /\ uneven \subseteq uneven' /\ uneven' \subseteq Servers
<1>1. Sessions(session')
  <2>1. CASE h.push # "pushed"
    BY <2>1 DEF Apply, ProfileTypes
  <2>2. CASE h.push = "pushed"
    <3> DEFINE p == subs[s]
               e == Append(session[p].events, i)
    <3>1. p \in Paths
      BY <2>2, PushedWhere
    <3>2. session' = [session EXCEPT ![p].events = e]
      BY <2>2 DEF Apply
    <3>3. session[p].events \in Seq(Nat)
      BY <3>1 DEF ProfileTypes, Sessions, Session
    <3>4. e \in Seq(Nat)
      BY <3>3, AppendProperties
    <3> HIDE DEF p, e
    <3> QED BY <3>1, <3>2, <3>4, EventAdded DEF ProfileTypes
  <2> QED BY <2>1, <2>2
<1>2. store' \in [Servers -> Profile] /\ online' \in [Servers -> Places]
  BY DEF Apply, ProfileTypes
<1>3. subs' \in [Servers -> Paths \cup {0}]
  BY DEF Apply, ProfileTypes
<1>4. uneven \subseteq uneven' /\ uneven' \subseteq Servers
  BY DEF Apply, ProfileTypes
<1> QED BY <1>1, <1>2, <1>3, <1>4

\* A mail of the user's, or one for a session, is in its hands.
Got(i) == i \in Range(received) \cup gone \/ Queued(i)

LEMMA EventsStay ==
    ASSUME ProfileTypes, NEW s \in Servers, NEW i \in Nat, NEW h, NEW stray, Apply(s, i, h, stray),
           h.push = "pushed" => Push(s) = "pushed", UNCHANGED <<received, gone>>
    PROVE  /\ \A j : Got(j) => Got(j)'
           /\ h.push = "pushed" => Got(i)'
<1>1. CASE h.push # "pushed"
  BY <1>1 DEF Apply, Got, Queued
<1>2. CASE h.push = "pushed"
  <2> DEFINE p == subs[s]
             e == Append(session[p].events, i)
  <2>1. p \in Paths
    BY <1>2, PushedWhere
  <2>2. session' = [session EXCEPT ![p].events = e]
    BY <1>2 DEF Apply
  <2>3. session[p].events \in Seq(Nat)
    BY <2>1 DEF ProfileTypes, Sessions, Session
  <2>4. Range(e) = Range(session[p].events) \cup {i}
    <3>1. \A q \in Seq(Nat) : Range(Append(q, i)) = Range(q) \cup {i}
      <4> SUFFICES ASSUME NEW q \in Seq(Nat) PROVE Range(Append(q, i)) = Range(q) \cup {i}
        OBVIOUS
      <4>1. /\ DOMAIN q = 1 .. Len(q) /\ Len(q) \in Nat /\ DOMAIN Append(q, i) = 1 .. Len(q) + 1
            /\ \A k \in 1 .. Len(q) : Append(q, i)[k] = q[k]
            /\ Append(q, i)[Len(q) + 1] = i
        BY AppendProperties, LenProperties
      <4>2. 1 .. Len(q) + 1 = (1 .. Len(q)) \cup {Len(q) + 1}
        BY <4>1, SMT
      <4> QED BY <4>1, <4>2, Zenon DEF Range
    <3> QED BY <2>3, <3>1
  <2>5. /\ session'[p].events = e
        /\ \A q \in Paths : q # p => session'[q].events = session[q].events
    BY <2>1, <2>2 DEF ProfileTypes, Sessions, Session
  <2> HIDE DEF p, e
  <2>6. \A j : Queued(j) => Queued(j)'
    BY <2>1, <2>4, <2>5 DEF Queued
  <2>7. Queued(i)'
    BY <2>1, <2>4, <2>5 DEF Queued
  <2> QED BY <2>6, <2>7 DEF Got
<1> QED BY <1>1, <1>2
-----------------------------------------------------------------------------
\* The types are kept.
LEMMA ProfileTypesAre ==
    ASSUME store' \in [Servers -> Profile], online' \in [Servers -> Places],
           subs' \in [Servers -> Paths \cup {0}], Sessions(session'), Requests(calls'),
           Client(client'), received' \in Seq(Nat), uneven' \subseteq Servers
    PROVE  ProfileTypes'
BY DEF ProfileTypes, Sessions, Requests, Request, Client, Places, Profile, Mailbox, Session, Paths,
       Local, Remote, Offline

LEMMA HandledTypes ==
    ASSUME ProfileTypes, NEW s \in Servers, NEW i \in Nat, NEW origin \in Places, NEW c, Request(c)
    PROVE  LET h == Handled(s, i, c, origin)
           IN  /\ h.pf \in Profile /\ h.online \in Places /\ (h.push = "pushed" => Push(s) = "pushed")
               /\ Readable(c.kind, h.ans)
<1>1. store[s] \in Profile /\ online[s] \in Places /\ Offline \in Places
  BY DEF ProfileTypes, Places
<1> DEFINE h == Handled(s, i, c, origin)
<1>2. /\ AsAll(h, c, i, store[s]) \/ Pushes(h, c, store[s]) \/ Refuses(h, c, store[s])
      /\ h.online \in {online[s], Offline, origin}
      /\ h.push = "pushed" => Push(s) = "pushed"
  BY HandledWays
<1> HIDE DEF h
<1>3. h.pf \in Profile
  BY <1>1, <1>2, OutcomeType DEF AsAll, Pushes, Refuses
<1>4. Readable(c.kind, h.ans)
  BY <1>1, <1>2, OutcomeType DEF AsAll, Pushes, Refuses, Readable
<1> QED BY <1>1, <1>2, <1>3, <1>4 DEF h

LEMMA MailHandledTypes ==
    ASSUME ProfileTypes, NEW s \in Servers, NEW i \in Nat, NEW origin, NEW c, Request(c), c.kind = "mail"
    PROVE  LET h == MailHandled(s, i, origin)
           IN  h.pf \in Profile /\ h.online \in Places /\ (h.push = "pushed" => Push(s) = "pushed")
<1>1. store[s] \in Profile /\ online[s] \in Places /\ Offline \in Places
  BY DEF ProfileTypes, Places
<1> DEFINE h == MailHandled(s, i, origin)
<1>2. /\ AsAll(h, c, i, store[s]) \/ Pushes(h, c, store[s]) \/ Refuses(h, c, store[s])
      /\ h.online \in {online[s], Offline}
      /\ h.push = "pushed" => Push(s) = "pushed"
  BY MailHandledWays
<1> HIDE DEF h
<1>3. h.pf \in Profile
  BY <1>1, <1>2, OutcomeType DEF AsAll, Pushes, Refuses
<1> QED BY <1>1, <1>2, <1>3 DEF h

\* A request as it is before it is made.
Fresh(c) == /\ Request(c) /\ c.stage = "repl" /\ c.waiting = {} /\ c.at \in Servers
            /\ c.result = <<>> /\ c.origin \in Places

LEMMA FreshCall ==
    ASSUME NEW s \in Servers, NEW kind \in {"mail", "read", "vault"}, NEW origin \in Places
    PROVE  Fresh(Call(kind, s, origin)) /\ Call(kind, s, origin).kind = kind /\ Call(kind, s, origin).at = s
<1>1. Request(Call(kind, s, origin))
  BY CallType
<1> QED BY <1>1 DEF Fresh, Call

LEMMA ReplicatingRequest ==
    ASSUME NEW c, Request(c), c.at \in Servers, c.result = <<>>, NEW ans, Readable(c.kind, ans)
    PROVE  Request(Replicating(c, ans)) /\ Replicating(c, ans).kind = c.kind
<1>1. CASE ans = <<"SentDirectly">>
  BY <1>1, ReplicatingSent, DoneType
<1>2. CASE ans # <<"SentDirectly">>
  BY <1>2, ReplicatingType
<1> QED BY <1>1, <1>2

LEMMA StartTypes ==
    ASSUME ProfileTypes, NEW c, Fresh(c), Start(c)
    PROVE  /\ store' \in [Servers -> Profile] /\ online' \in [Servers -> Places]
           /\ subs' \in [Servers -> Paths \cup {0}] /\ Sessions(session') /\ Requests(calls')
           /\ uneven' \subseteq Servers
<1> DEFINE i == Len(calls) + 1
           h == Handled(c.at, i, c, c.origin)
<1>1. Requests(calls) /\ i \in Nat
  BY CallsAre DEF ProfileTypes
<1>2. calls' = Append(calls, Replicating(c, h.ans)) /\ Apply(c.at, i, h, {<<"SendingToSelf">>})
  BY DEF Start
<1>3. /\ h.pf \in Profile /\ h.online \in Places /\ (h.push = "pushed" => Push(c.at) = "pushed")
      /\ Readable(c.kind, h.ans)
  BY <1>1, HandledTypes DEF Fresh
<1>4. c.at \in Servers /\ Request(Replicating(c, h.ans))
  BY <1>3, ReplicatingRequest DEF Fresh
<1> HIDE DEF h, i
<1>5. Requests(calls')
  BY <1>1, <1>2, <1>4, RequestAdded
<1> QED BY <1>1, <1>2, <1>3, <1>4, <1>5, Applied

LEMMA SendMailTypes ==
    ASSUME ProfileTypes, NEW s \in Servers, NEW o \in {Somebody} \cup {Local(p) : p \in Paths}, SendMail(s, o)
    PROVE  ProfileTypes'
<1> DEFINE c == Call("mail", s, o)
           d == [c EXCEPT !.stage = "direct", !.got = online[s]]
<1>1. UNCHANGED <<client, received>>
  BY DEF SendMail
<1>2. o \in Places
  BY DEF Places, Somebody
<1>3. Fresh(c) /\ c.kind = "mail"
  BY <1>2, FreshCall
<1>4. CASE /\ online[s] # Offline /\ online[s][1] = "remote"
           /\ calls' = Append(calls, d) /\ UNCHANGED <<servers, session, uneven>>
  <2>1. \E t \in Servers : online[s] = Remote(t)
    <3>1. online[s] \in Places
      BY DEF ProfileTypes
    <3>2. \A p : Local(p)[1] = "local"
      BY DEF Local
    <3> QED BY <1>4, <3>1, <3>2 DEF Places
  <2> HIDE DEF c
  <2>2. Request(d)
    BY <1>3, <2>1 DEF Fresh, Request
  <2> HIDE DEF d
  <2>3. Requests(calls')
    BY <1>4, <2>2, RequestAdded DEF ProfileTypes
  <2> QED BY <1>1, <1>4, <2>3, ProfileTypesAre DEF ProfileTypes, servers
<1>5. CASE Start(c)
  <2> HIDE DEF c
  <2> QED BY <1>1, <1>3, <1>5, StartTypes, ProfileTypesAre DEF ProfileTypes
<1> QED BY <1>4, <1>5 DEF SendMail
\* A call changes, and nothing else but what a handler may change.
LEMMA CallTypes ==
    ASSUME ProfileTypes, NEW i \in DOMAIN calls, NEW d, Request(d), calls' = [calls EXCEPT ![i] = d],
           UNCHANGED <<servers, session, uneven>>, received' \in Seq(Nat), Client(client')
    PROVE  ProfileTypes'
<1>1. Requests(calls')
  BY RequestChanged DEF ProfileTypes
<1> QED BY <1>1, ProfileTypesAre DEF ProfileTypes, servers

LEMMA HandlerTypes ==
    ASSUME ProfileTypes, NEW i \in DOMAIN calls, NEW d, Request(d), calls' = [calls EXCEPT ![i] = d],
           UNCHANGED <<received, client>>,
           NEW s \in Servers, NEW h, NEW stray, Apply(s, i, h, stray),
           h.pf \in Profile, h.online \in Places, h.push = "pushed" => Push(s) = "pushed"
    PROVE  ProfileTypes'
<1>1. Requests(calls') /\ i \in Nat
  BY RequestChanged, CallsAre DEF ProfileTypes
<1> QED BY <1>1, Applied, ProfileTypesAre DEF ProfileTypes

LEMMA DirectMailTypes ==
    ASSUME ProfileTypes, NEW i, DirectMail(i)
    PROVE  ProfileTypes'
<1> DEFINE t == calls[i].got[2]
           h == MailHandled(t, i, Remote(calls[i].at))
           d == [calls[i] EXCEPT !.stage = "back", !.got = h.ans]
<1>1. i \in DOMAIN calls /\ i \in Nat /\ Request(calls[i]) /\ calls[i].stage = "direct"
  BY CallsAre DEF ProfileTypes, DirectMail
<1>2. t \in Servers /\ calls[i].kind = "mail" /\ calls[i].waiting = {}
  BY <1>1 DEF Request, Remote
<1>3. /\ Apply(t, i, h, {<<"Ok">>}) /\ UNCHANGED <<received, client>>
      /\ calls' = [calls EXCEPT ![i] = d]
  BY DEF DirectMail
<1>4. h.pf \in Profile /\ h.online \in Places /\ (h.push = "pushed" => Push(t) = "pushed")
  BY <1>1, <1>2, MailHandledTypes
<1> HIDE DEF h, t
<1>5. Request(d)
  BY <1>1, <1>2 DEF Request
<1> HIDE DEF d
<1> QED BY <1>1, <1>2, <1>3, <1>4, <1>5, HandlerTypes

LEMMA FieldTypes ==
    ASSUME ProfileTypes, NEW i, NEW t, DirectFails(i) \/ Unreachable(i, t)
    PROVE  ProfileTypes'
<1>1. i \in DOMAIN calls /\ Request(calls[i])
  BY CallsAre DEF ProfileTypes, DirectFails, Unreachable
<1>2. PICK d : Request(d) /\ calls' = [calls EXCEPT ![i] = d]
  <2>1. CASE DirectFails(i)
    <3> DEFINE d == [calls[i] EXCEPT !.stage = "back", !.got = <<"NoReplicator">>]
    <3>1. calls' = [calls EXCEPT ![i] = d] /\ calls[i].stage = "direct"
      BY <2>1 DEF DirectFails
    <3>2. Request(d)
      BY <1>1, <3>1 DEF Request
    <3> QED BY <3>1, <3>2
  <2>2. CASE Unreachable(i, t)
    <3> DEFINE d == [calls[i] EXCEPT !.waiting = @ \ {t}]
    <3>1. calls' = [calls EXCEPT ![i] = d]
      BY <2>2 DEF Unreachable
    <3>2. Request(d)
      BY <1>1 DEF Request
    <3> QED BY <3>1, <3>2
  <2> QED BY <2>1, <2>2
<1>3. UNCHANGED <<servers, session, uneven, client, received>>
  BY DEF DirectFails, Unreachable, hist
<1> QED BY <1>1, <1>2, <1>3, CallTypes DEF ProfileTypes

LEMMA DirectReturnsTypes ==
    ASSUME ProfileTypes, NEW i, DirectReturns(i)
    PROVE  ProfileTypes'
<1> DEFINE c == calls[i]
           res == AppendMail(store[c.at], i)
<1>1. i \in DOMAIN calls /\ i \in Nat /\ Request(c) /\ c.stage = "back"
  BY CallsAre DEF ProfileTypes, DirectReturns
<1>2. c.at \in Servers /\ c.result = <<>>
  BY <1>1 DEF Request
<1>3. UNCHANGED <<session, client, received, uneven>>
  BY DEF DirectReturns, hist
<1>4. CASE c.got = <<"SentDirectly">>
  <2>1. calls' = [calls EXCEPT ![i] = Done(c, c.got)] /\ UNCHANGED servers
    BY <1>4 DEF DirectReturns
  <2>2. Request(Done(c, c.got))
    BY <1>1, DoneType
  <2> HIDE DEF c
  <2> QED BY <1>1, <1>3, <2>1, <2>2, CallTypes DEF ProfileTypes
<1>5. CASE c.got # <<"SentDirectly">>
  <2>1. /\ store' = [store EXCEPT ![c.at] = res.pf]
        /\ online' = [online EXCEPT ![c.at] = Offline]
        /\ calls' = [calls EXCEPT ![i] = Replicating(c, res.ans)]
        /\ subs' = subs
    BY <1>5 DEF DirectReturns
  <2>2. res.pf \in Profile
    BY <1>1, <1>2, MailAppended DEF ProfileTypes
  <2>3. Request(Replicating(c, res.ans))
    <3>1. Readable(c.kind, res.ans)
      BY <1>1 DEF Readable, Request
    <3> QED BY <1>1, <1>2, <3>1, ReplicatingRequest
  <2> HIDE DEF c, res
  <2>4. Requests(calls')
    BY <1>1, <2>1, <2>3, RequestChanged DEF ProfileTypes
  <2>5. store' \in [Servers -> Profile] /\ online' \in [Servers -> Places]
    BY <1>2, <2>1, <2>2 DEF ProfileTypes, Places
  <2> QED BY <1>3, <2>1, <2>4, <2>5, ProfileTypesAre DEF ProfileTypes
<1> QED BY <1>4, <1>5

LEMMA ReplicaTypes ==
    ASSUME ProfileTypes, NEW i, NEW t, Replica(i, t)
    PROVE  ProfileTypes'
<1> DEFINE c == calls[i]
           h == Handled(t, i, c, Remote(c.at))
           d == [c EXCEPT !.waiting = @ \ {t}]
           e == IF c.stage = "done" THEN Done(d, c.result) ELSE [d EXCEPT !.answers = @ \cup {<<t, h.ans>>}]
<1>1. i \in DOMAIN calls /\ i \in Nat /\ Request(c) /\ t \in c.waiting
  BY CallsAre DEF ProfileTypes, Replica
<1>2. t \in Servers
  BY <1>1 DEF Request
<1>3. /\ Apply(t, i, h, {<<"SentDirectly">>}) /\ UNCHANGED <<received, client>>
      /\ calls' = [calls EXCEPT ![i] = e]
  BY DEF Replica
<1>4. Request(d)
  BY <1>1 DEF Request
<1>6. c.at \in Servers
  BY <1>1 DEF Request
<1>7. /\ h.pf \in Profile /\ h.online \in Places /\ (h.push = "pushed" => Push(t) = "pushed")
      /\ Readable(c.kind, h.ans)
  BY <1>1, <1>2, <1>6, HandledTypes DEF Places
<1>5. Request(e)
  <2>0. d.kind = c.kind
    BY <1>1 DEF Request
  <2> HIDE DEF d, h
  <2>1. Request([d EXCEPT !.answers = @ \cup {<<t, h.ans>>}])
    <3> DEFINE g == [d EXCEPT !.answers = d.answers \cup {<<t, h.ans>>}]
    <3>1. /\ DOMAIN g = DOMAIN d /\ g.answers = d.answers \cup {<<t, h.ans>>}
          /\ \A x \in DOMAIN d : x # "answers" => g[x] = d[x]
      BY <1>4 DEF Request
    <3> HIDE DEF g
    <3>2. \A a \in g.answers : a \in d.answers \/ a[2] = h.ans
      BY <3>1
    <3>3. \A a \in g.answers : Readable(d.kind, a[2])
      BY <1>4, <1>7, <2>0, <3>2 DEF Request
    <3>4. Request(g)
      BY <1>4, <3>1, <3>3 DEF Request
    <3> QED BY <3>4 DEF g
  <2> QED BY <1>4, <2>1, DoneType
<1> HIDE DEF c, h, d, e
<1> QED BY <1>1, <1>2, <1>3, <1>5, <1>7, HandlerTypes

LEMMA ReturnedTypes ==
    ASSUME ProfileTypes, NEW i, Finish(i) \/ Timeout(i)
    PROVE  ProfileTypes'
<1>1. i \in DOMAIN calls /\ Request(calls[i])
  BY CallsAre DEF ProfileTypes, Finish, Timeout
<1>2. PICK result : Returned(i, result) /\ Readable(calls[i].kind, result)
  <2>1. CASE Timeout(i)
    BY <2>1, SMT DEF Timeout, Readable
  <2>2. CASE Finish(i)
    <3> DEFINE answers == calls[i].answers
               often == {a[2] : a \in {b \in answers : Cardinality(Answering(answers, b[2])) > RF \div 2}}
    <3>1. Picked(answers) = IF often = {} THEN <<"NoMajority">> ELSE CHOOSE a \in often : TRUE
      BY DEF Picked
    <3>2. \A x \in often : Readable(calls[i].kind, x)
      BY <1>1 DEF Request
    <3> HIDE DEF often
    <3>3. CASE often = {}
      <4>1. Readable(calls[i].kind, <<"NoMajority">>)
        BY SMT DEF Readable
      <4> QED BY <2>2, <3>1, <3>3, <4>1 DEF Finish
    <3>4. CASE often # {}
      <4>1. Picked(answers) \in often
        BY <3>1, <3>4
      <4> QED BY <2>2, <3>2, <4>1 DEF Finish
    <3> QED BY <3>3, <3>4
  <2> QED BY <2>1, <2>2
<1> DEFINE c == calls[i]
           mail == IF c.kind = "read" /\ result[1] = "Ok" THEN Unpacked(result[2], result[3]) ELSE <<>>
<1>3. mail \in Seq(Nat)
  BY <1>2, EmptySeq DEF Unpacked, Readable
<1>4. received' \in {received, received \o mail}
  BY <1>2 DEF Returned
<1>5. received' \in Seq(Nat)
  <2> HIDE DEF mail
  <2>1. received \o mail \in Seq(Nat)
    BY <1>3, ConcatProperties DEF ProfileTypes
  <2> QED BY <1>4, <2>1 DEF ProfileTypes
<1>6. client' = client \/ client' = Saved(client, c.nonce) \/ client' = [client EXCEPT !.saving = 0]
  BY <1>2 DEF Returned
<1>7. Client(client')
  <2>1. Client(client) /\ c.nonce \in Nat
    BY <1>1 DEF ProfileTypes, Request
  <2>2. Client([client EXCEPT !.saving = 0])
    BY <2>1 DEF Client
  <2>3. Client(Saved(client, c.nonce))
    BY <2>1 DEF Client, Saved
  <2> QED BY <1>6, <2>1, <2>2, <2>3
<1>8. calls' = [calls EXCEPT ![i] = Done(calls[i], <<result[1]>>)]
  BY <1>2 DEF Returned
<1>9. Request(Done(calls[i], <<result[1]>>))
  BY <1>1, DoneType
<1>10. UNCHANGED <<servers, session, uneven>>
  BY <1>2 DEF Returned
<1> QED BY <1>1, <1>5, <1>7, <1>8, <1>9, <1>10, CallTypes
LEMMA SessionTypes ==
    ASSUME ProfileTypes, NEW p \in Paths, NEW r \in Session, r.state = "live" => r.at \in Servers
    PROVE  Sessions([session EXCEPT ![p] = r])
BY DEF ProfileTypes, Sessions

LEMMA EventsType ==
    ASSUME ProfileTypes, NEW p \in Paths
    PROVE  /\ session[p] \in Session /\ session[p].events \in Seq(Nat)
           /\ session[p].events # <<>> =>
                  Head(session[p].events) \in Nat /\ Tail(session[p].events) \in Seq(Nat)
BY HeadTailProperties DEF ProfileTypes, Sessions, Session

LEMMA VisitTypes ==
    ASSUME ProfileTypes, NEW p \in Paths, NEW s \in Servers,
           \/ Connect(p, s) \/ Subscribe(p) \/ Unsubscribe(p) \/ DeliverEvent(p) \/ Hangup(p) \/ Forget(p)
    PROVE  ProfileTypes'
<1> USE DEF hist, servers
<1>1. session[p] \in Session /\ session[p].events \in Seq(Nat)
  BY EventsType
<1>2. CASE Connect(p, s)
  <2> DEFINE r == [session[p] EXCEPT !.state = "live", !.at = s]
  <2>1. r \in Session /\ (r.state = "live" => r.at \in Servers)
    BY <1>1 DEF Session
  <2>2. session' = [session EXCEPT ![p] = r]
    BY <1>2 DEF Connect, ProfileTypes, Sessions
  <2> HIDE DEF r
  <2>3. Sessions(session')
    BY <2>1, <2>2, SessionTypes
  <2> QED BY <1>2, <2>3, ProfileTypesAre DEF Connect, ProfileTypes
<1>3. CASE Subscribe(p)
  <2>1. subs' \in [Servers -> Paths \cup {0}]
    BY <1>3 DEF Subscribe, ProfileTypes
  <2> QED BY <1>3, <2>1, ProfileTypesAre DEF Subscribe, ProfileTypes
<1>4. CASE Unsubscribe(p)
  <2>1. subs' \in [Servers -> Paths \cup {0}] /\ online' \in [Servers -> Places]
    BY <1>4 DEF Unsubscribe, ProfileTypes, Places
  <2> QED BY <1>4, <2>1, ProfileTypesAre DEF Unsubscribe, ProfileTypes
<1>5. CASE DeliverEvent(p)
  <2> DEFINE e == Tail(session[p].events)
             r == [session[p] EXCEPT !.events = e]
  <2>1. e \in Seq(Nat) /\ Head(session[p].events) \in Nat
    BY <1>5, EventsType DEF DeliverEvent
  <2>2. Sessions([session EXCEPT ![p].events = e])
    BY <2>1, EventAdded DEF ProfileTypes
  <2>3. received' \in Seq(Nat)
    BY <1>5, <2>1, AppendProperties DEF DeliverEvent, ProfileTypes
  <2> QED BY <1>5, <2>2, <2>3, ProfileTypesAre DEF DeliverEvent, ProfileTypes
<1>6. CASE Hangup(p)
  <2> DEFINE r == [session[p] EXCEPT !.state = "dead", !.events = <<>>]
  <2>1. r \in Session /\ (r.state = "live" => r.at \in Servers)
    BY <1>1, EmptySeq DEF Session
  <2>2. session' = [session EXCEPT ![p] = r]
    BY <1>6 DEF Hangup, ProfileTypes, Sessions
  <2> HIDE DEF r
  <2>3. Sessions(session')
    BY <2>1, <2>2, SessionTypes
  <2> QED BY <1>6, <2>3, ProfileTypesAre DEF Hangup, ProfileTypes
<1>7. CASE Forget(p)
  <2> DEFINE r == [session[p] EXCEPT !.state = "gone", !.at = 0]
  <2>1. r \in Session /\ (r.state = "live" => r.at \in Servers)
    BY <1>1, EmptySeq DEF Session
  <2>2. session' = [session EXCEPT ![p] = r]
    BY <1>7 DEF Forget, ProfileTypes, Sessions
  <2> HIDE DEF r
  <2>3. Sessions(session')
    BY <2>1, <2>2, SessionTypes
  <2> QED BY <1>7, <2>3, ProfileTypesAre DEF Forget, ProfileTypes
<1> QED BY <1>2, <1>3, <1>4, <1>5, <1>6, <1>7

LEMMA EditedType ==
    ASSUME NEW cl, Client(cl), NEW ks, ks \subseteq Keys
    PROVE  LET e == Edited(cl, ks)
           IN  /\ Client(e) /\ e.changes = cl.changes \cup ks
               /\ e.version = cl.version /\ e.saving = cl.saving /\ e.saved = cl.saved
               /\ e.mail_action = cl.mail_action
               /\ \A k \in Keys \ ks : e.vault[k] = cl.vault[k]
<1> DEFINE v == [k \in Keys |-> IF k \in ks THEN cl.vault[k] + 1 ELSE cl.vault[k]]
           e == Edited(cl, ks)
<1>1. v \in [Keys -> Nat] /\ \A k \in Keys \ ks : v[k] = cl.vault[k]
  BY DEF Client
<1>2. e = [cl EXCEPT !.vault = v, !.changes = cl.changes \cup ks, !.edits = cl.edits + Cardinality(ks)]
  BY DEF Edited
<1> HIDE DEF v, e
<1>3. /\ DOMAIN e = DOMAIN cl /\ e.vault = v /\ e.changes = cl.changes \cup ks
      /\ e.version = cl.version /\ e.saving = cl.saving /\ e.saved = cl.saved
      /\ e.mail_action = cl.mail_action
  BY <1>2 DEF Client
<1>4. Client(e)
  BY <1>1, <1>3 DEF Client
<1> QED BY <1>1, <1>3, <1>4 DEF e

LEMMA LoginType ==
    ASSUME ProfileTypes, NEW p \in Paths, Login(p)
    PROVE  LET pf == store[session[p].at]
           IN  /\ pf \in Profile /\ session[p].at \in Servers
               /\ Client(client') /\ client'.changes = client.changes /\ client'.saving = 0
               /\ client'.saved = client.saved /\ client'.version = pf.vault_version + 1
               /\ client'.mail_action = pf.mail_action + 1
               /\ \A k \in Keys : client'.vault[k] \in {client.vault[k], pf.vault[k]}
<1> DEFINE pf == store[session[p].at]
           fresh == client.saved >= pf.vault_version + 1
           v == IF fresh THEN client.vault
                ELSE Overlaid(client.vault, {k \in Keys : pf.vault[k] # 0}, pf.vault)
<1>1. session[p].at \in Servers /\ pf \in Profile /\ Client(client)
  BY DEF Login, Live, ProfileTypes, Sessions
<1>2. v \in [Keys -> Nat] /\ \A k \in Keys : v[k] \in {client.vault[k], pf.vault[k]}
  BY <1>1 DEF Overlaid, Profile, Client
<1>3. client' = [client EXCEPT !.version = pf.vault_version + 1, !.mail_action = pf.mail_action + 1,
                               !.saving = 0, !.vault = v]
  BY DEF Login
<1>4. pf.vault_version + 1 \in Nat /\ pf.mail_action + 1 \in Nat
  BY <1>1 DEF Profile
<1> HIDE DEF v, pf, fresh
<1>5. /\ DOMAIN client' = DOMAIN client /\ client'.version = pf.vault_version + 1
      /\ client'.mail_action = pf.mail_action + 1 /\ client'.saving = 0 /\ client'.vault = v
      /\ client'.changes = client.changes /\ client'.saved = client.saved
  BY <1>1, <1>3 DEF Client
<1>6. Client(client')
  BY <1>1, <1>2, <1>4, <1>5 DEF Client
<1> QED BY <1>1, <1>2, <1>5, <1>6 DEF pf

\* The two requests of the user.
ReadRequest(p) == [Call("read", session[p].at, Local(p)) EXCEPT !.nonce = client.mail_action]
SaveRequest(p, cl) == [Call("vault", session[p].at, Local(p)) EXCEPT
                          !.nonce = cl.version, !.changes = cl.changes, !.root = cl.vault]

LEMMA UserRequests ==
    ASSUME ProfileTypes, NEW p \in Paths, Live(p), NEW cl, Client(cl)
    PROVE  /\ Fresh(ReadRequest(p)) /\ ReadRequest(p).kind = "read"
           /\ ReadRequest(p).nonce = client.mail_action /\ ReadRequest(p).at = session[p].at
           /\ ReadRequest(p).origin = Local(p)
           /\ Fresh(SaveRequest(p, cl)) /\ SaveRequest(p, cl).kind = "vault"
           /\ SaveRequest(p, cl).nonce = cl.version /\ SaveRequest(p, cl).changes = cl.changes
           /\ SaveRequest(p, cl).root = cl.vault
<1>1. session[p].at \in Servers /\ Local(p) \in Places /\ Client(client)
  BY DEF ProfileTypes, Sessions, Live, Places
<1>2. Fresh(Call("read", session[p].at, Local(p))) /\ Fresh(Call("vault", session[p].at, Local(p)))
  BY <1>1, FreshCall
<1>3. /\ Call("read", session[p].at, Local(p)).kind = "read"
      /\ Call("read", session[p].at, Local(p)).at = session[p].at
      /\ Call("read", session[p].at, Local(p)).origin = Local(p)
      /\ Call("vault", session[p].at, Local(p)).kind = "vault"
  BY DEF Call
<1> DEFINE r == Call("read", session[p].at, Local(p))
           v == Call("vault", session[p].at, Local(p))
<1> HIDE DEF r, v
<1>4. Fresh([r EXCEPT !.nonce = client.mail_action])
  BY <1>1, <1>2 DEF Fresh, Request, Client, r
<1>5. Fresh([v EXCEPT !.nonce = cl.version, !.changes = cl.changes, !.root = cl.vault])
  BY <1>2 DEF Fresh, Request, Client, v
<1>6. /\ DOMAIN r = {"kind", "at", "origin", "nonce", "changes", "root", "stage", "got",
                     "waiting", "answers", "result"}
      /\ DOMAIN v = DOMAIN r
  BY <1>2 DEF Fresh, Request, r, v
<1> QED BY <1>3, <1>4, <1>5, <1>6 DEF ReadRequest, SaveRequest, r, v

LEMMA ReadMailboxTypes ==
    ASSUME ProfileTypes, NEW p \in Paths, ReadMailbox(p)
    PROVE  ProfileTypes'
<1>1. Live(p) /\ Client(client)
  BY DEF ReadMailbox, ProfileTypes
<1>2. Fresh(ReadRequest(p)) /\ Start(ReadRequest(p))
  BY <1>1, UserRequests DEF ReadMailbox, ReadRequest
<1>3. received' = received /\ client' = [client EXCEPT !.mail_action = @ + 1]
  BY DEF ReadMailbox
<1>4. Client(client')
  BY <1>1, <1>3 DEF Client
<1> QED BY <1>2, <1>3, <1>4, StartTypes, ProfileTypesAre DEF ProfileTypes

LEMMA SaveVaultTypes ==
    ASSUME ProfileTypes, NEW p \in Paths, NEW ks, ks \subseteq Keys, SaveVault(p, ks)
    PROVE  /\ ProfileTypes'
           /\ LET cl == Edited(client, ks)
              IN  Start(SaveRequest(p, cl)) /\ Client(cl)
<1> DEFINE cl == Edited(client, ks)
<1>1. Live(p) /\ Client(cl)
  BY EditedType DEF SaveVault, ProfileTypes
<1>2. Start(SaveRequest(p, cl))
  BY DEF SaveVault, SaveRequest
<1>3. received' = received /\ client' = [cl EXCEPT !.version = @ + 1, !.saving = Len(calls) + 1]
  BY DEF SaveVault
<1>4. Len(calls) + 1 \in Nat
  BY CallsAre DEF ProfileTypes
<1> HIDE DEF cl
<1>5. Client(client')
  BY <1>1, <1>3, <1>4 DEF Client
<1>6. Fresh(SaveRequest(p, cl))
  BY <1>1, UserRequests
<1>7. ProfileTypes'
  BY <1>2, <1>3, <1>5, <1>6, StartTypes, ProfileTypesAre DEF ProfileTypes
<1> QED BY <1>1, <1>2, <1>7 DEF cl
\* A server stops: the sessions at it end, and its calls.
LEMMA SessionsEnd ==
    ASSUME ProfileTypes, NEW s
    PROVE  Sessions([p \in Paths |-> IF session[p].at # s THEN session[p]
                                     ELSE [state |-> "gone", at |-> 0, events |-> <<>>]])
<1>1. [state |-> "gone", at |-> 0, events |-> <<>>] \in Session
  BY EmptySeq DEF Session
<1> QED BY <1>1 DEF Sessions, ProfileTypes

LEMMA CallsEnd ==
    ASSUME ProfileTypes, NEW s
    PROVE  LET new == [i \in DOMAIN calls |->
                          IF calls[i].at # s \/ ~InCall(calls[i]) THEN calls[i]
                          ELSE Done(calls[i], <<"ConnectionAborted">>)]
           IN  Requests(new) /\ Len(new) = Len(calls) /\ (new = <<>> <=> calls = <<>>)
<1> DEFINE new == [i \in DOMAIN calls |->
                      IF calls[i].at # s \/ ~InCall(calls[i]) THEN calls[i]
                      ELSE Done(calls[i], <<"ConnectionAborted">>)]
<1>1. DOMAIN new = DOMAIN calls /\ new = [i \in DOMAIN new |-> new[i]]
  OBVIOUS
<1>2. \A i \in DOMAIN calls : Request(new[i])
  <2> SUFFICES ASSUME NEW i \in DOMAIN calls PROVE Request(new[i])
    OBVIOUS
  <2>1. Request(calls[i])
    BY DEF ProfileTypes, Requests
  <2>2. Request(Done(calls[i], <<"ConnectionAborted">>))
    BY <2>1, DoneType
  <2> QED BY <2>1, <2>2
<1> HIDE DEF new
<1>3. Requests(calls)
  BY DEF ProfileTypes
<1>4. Requests(new) /\ Len(new) = Len(calls) /\ (new = <<>> <=> calls = <<>>)
  BY <1>1, <1>2, <1>3, RequestsChanged
<1> QED BY <1>4 DEF new

LEMMA ReloadType ==
    ASSUME ProfileTypes, NEW s
    PROVE  [store EXCEPT ![s] = Loaded(@)] \in [Servers -> Profile]
<1>1. s \in Servers => Loaded(store[s]) \in Profile
  BY LoadedType DEF ProfileTypes
<1>2. [store EXCEPT ![s] = Loaded(@)] = [store EXCEPT ![s] = Loaded(store[s])]
  BY DEF ProfileTypes
<1> DEFINE l == Loaded(store[s])
<1> HIDE DEF l
<1>3. [store EXCEPT ![s] = l] \in [Servers -> Profile]
  BY <1>1 DEF ProfileTypes, l
<1> QED BY <1>2, <1>3 DEF l

LEMMA StopTypes ==
    ASSUME ProfileTypes, NEW s \in Servers, NEW i, Restart(s) \/ Evict(s) \/ Crash(i, s)
    PROVE  ProfileTypes'
<1>1. CASE Evict(s)
  BY <1>1, ReloadType, ProfileTypesAre DEF Evict, ProfileTypes, hist
<1>2. CASE Restart(s)
  <2>1. store' \in [Servers -> Profile]
    BY <1>2, ReloadType DEF Restart
  <2>2. Sessions(session')
    BY <1>2, SessionsEnd DEF Restart
  <2>3. Requests(calls')
    BY <1>2, CallsEnd DEF Restart
  <2>4. online' \in [Servers -> Places] /\ subs' \in [Servers -> Paths \cup {0}]
    BY <1>2 DEF Restart, ProfileTypes, Places
  <2>5. Client(client')
    BY <1>2 DEF Restart, ProfileTypes, Client
  <2>6. UNCHANGED <<received, uneven>>
    BY <1>2 DEF Restart
  <2> QED BY <2>1, <2>2, <2>3, <2>4, <2>5, <2>6, ProfileTypesAre DEF ProfileTypes
<1>3. CASE Crash(i, s)
  <2>1. i \in DOMAIN calls /\ Request(calls[i])
    BY <1>3, CallsAre DEF Crash, ProfileTypes
  <2>2. store' \in [Servers -> Profile]
    <3> DEFINE l == Loaded(store[s])
               r == [l EXCEPT !.vault_version = calls[i].nonce]
    <3>1. l \in Profile
      BY LoadedType DEF ProfileTypes
    <3>2. store' = [store EXCEPT ![s] = r]
      BY <1>3 DEF Crash, ProfileTypes
    <3> HIDE DEF l
    <3>3. r \in Profile
      BY <2>1, <3>1 DEF Profile, Request
    <3> HIDE DEF r
    <3> QED BY <3>2, <3>3 DEF ProfileTypes
  <2>3. Sessions(session')
    BY <1>3, SessionsEnd DEF Crash
  <2>4. online' \in [Servers -> Places] /\ subs' \in [Servers -> Paths \cup {0}]
    BY <1>3 DEF Crash, ProfileTypes, Places
  <2>5. Requests(calls')
    <3> DEFINE d == [calls[i] EXCEPT !.waiting = @ \ {s}]
               e == IF d.stage = "done" THEN Done(d, d.result) ELSE d
    <3>1. Request(d)
      BY <2>1 DEF Request
    <3>2. calls' = [calls EXCEPT ![i] = e]
      BY <1>3 DEF Crash
    <3> HIDE DEF d
    <3>3. Request(e)
      BY <3>1, DoneType
    <3> HIDE DEF e
    <3> QED BY <2>1, <3>2, <3>3, RequestChanged DEF ProfileTypes
  <2>6. UNCHANGED <<client, received, uneven>>
    BY <1>3 DEF Crash
  <2> QED BY <2>2, <2>3, <2>4, <2>5, <2>6, ProfileTypesAre DEF ProfileTypes
<1> QED BY <1>1, <1>2, <1>3

LEMMA ProfileTypesInit == Init => ProfileTypes
<1> SUFFICES ASSUME Init PROVE ProfileTypes
  OBVIOUS
<1>1. Created \in Profile
  BY EmptySeq DEF Created, EmptyVault, EmptyFile, Profile, Mailbox
<1>2. Requests(calls)
  BY EmptySeq DEF Init, Requests
<1>3. Sessions(session)
  BY EmptySeq DEF Init, Sessions, Session
<1>4. Client(client)
  BY DEF Init, Client, EmptyVault
<1>5. received \in Seq(Nat)
  BY EmptySeq DEF Init
<1> QED BY <1>1, <1>2, <1>3, <1>4, <1>5 DEF Init, ProfileTypes, Places

LEMMA WriteVaultTypes ==
    ASSUME ProfileTypes, NEW s \in Servers, NEW ks, ks \subseteq Keys, WriteVault(s, ks)
    PROVE  ProfileTypes'
<1> DEFINE pf == store[s]
           nonce == pf.vault_version + 1
           vault == [k \in Keys |-> IF k \in ks THEN pf.vault[k] + 1 ELSE pf.vault[k]]
           v == Call("vault", s, Somebody)
           c == [v EXCEPT !.nonce = nonce, !.changes = ks, !.root = vault]
<1>1. pf \in Profile
  BY DEF ProfileTypes
<1>2. nonce \in Nat /\ vault \in [Keys -> Nat]
  BY <1>1 DEF Profile
<1>3. Start(c) /\ UNCHANGED <<client, received>>
  BY DEF WriteVault
<1>4. Somebody \in Places
  BY DEF Somebody, Local, Places
<1>5. Fresh(v)
  BY <1>4, FreshCall
<1> HIDE DEF nonce, vault, v
<1>6. Fresh(c)
  BY <1>2, <1>5 DEF Fresh, Request
<1> HIDE DEF c
<1>7. /\ store' \in [Servers -> Profile] /\ online' \in [Servers -> Places]
      /\ subs' \in [Servers -> Paths \cup {0}] /\ Sessions(session') /\ Requests(calls')
      /\ uneven' \subseteq Servers
  BY <1>3, <1>6, StartTypes
<1> QED BY <1>3, <1>7, ProfileTypesAre DEF ProfileTypes

LEMMA ProfileTypesStep ==
    ASSUME ProfileTypes, Next
    PROVE  ProfileTypes'
<1>1. CASE \E s \in Servers : \E o \in {Somebody} \cup {Local(p) : p \in Paths} : SendMail(s, o)
  BY <1>1, SendMailTypes
<1>2. CASE \E p \in Paths : \/ \E s \in Servers : Connect(p, s)
                            \/ Subscribe(p) \/ Unsubscribe(p) \/ DeliverEvent(p) \/ Hangup(p) \/ Forget(p)
  <2>1. Servers # {}
    BY GroupAssumption, FS_EmptySet, SMT
  <2> QED BY <1>2, <2>1, VisitTypes
<1>3. CASE \E i \in 1 .. MaxCalls : \/ DirectMail(i) \/ DirectFails(i) \/ DirectReturns(i)
                                    \/ Finish(i) \/ Timeout(i)
  BY <1>3, DirectMailTypes, FieldTypes, DirectReturnsTypes, ReturnedTypes
<1>4. CASE \E i \in 1 .. MaxCalls : \E t \in Servers : Replica(i, t) \/ Unreachable(i, t) \/ Crash(i, t)
  BY <1>4, ReplicaTypes, FieldTypes, StopTypes
<1>5. CASE \E s \in Servers : Restart(s) \/ Evict(s)
  BY <1>5, StopTypes
<1>6. CASE \E p \in Paths : ReadMailbox(p) \/ SaveVault(p, {}) \/ \E k \in Keys : SaveVault(p, {k})
  BY <1>6, ReadMailboxTypes, SaveVaultTypes
<1>7. CASE \E p \in Paths : Login(p)
  <2>1. PICK p \in Paths : Login(p)
    BY <1>7
  <2>2. UNCHANGED <<store, online, subs, session, calls, received, uneven>>
    BY <2>1 DEF Login, hist, servers
  <2>3. Client(client')
    BY <2>1, LoginType
  <2> QED BY <2>2, <2>3, ProfileTypesAre DEF ProfileTypes
<1>8. CASE \E k \in Keys : Defer(k)
  <2>1. PICK k \in Keys : Defer(k)
    BY <1>8
  <2>2. UNCHANGED <<store, online, subs, session, calls, received, uneven>>
    BY <2>1 DEF Defer, hist, servers
  <2>3. client' = Edited(client, {k})
    BY <2>1 DEF Defer
  <2>4. Client(client')
    BY <2>3, EditedType DEF ProfileTypes
  <2> QED BY <2>2, <2>4, ProfileTypesAre DEF ProfileTypes
<1>9. CASE \E s \in Servers : \E k \in Keys : WriteVault(s, {k})
  BY <1>9, WriteVaultTypes
<1> QED BY <1>1, <1>2, <1>3, <1>4, <1>5, <1>6, <1>7, <1>8, <1>9 DEF Next

LEMMA ProfileTypesStutter ==
    ASSUME ProfileTypes, UNCHANGED vars
    PROVE  ProfileTypes'
BY ProfileTypesAre DEF vars, ProfileTypes

LEMMA ProfileTypesInvariant == Spec => []ProfileTypes
<1>1. ProfileTypes /\ [Next]_vars => ProfileTypes'
  BY ProfileTypesStep, ProfileTypesStutter
<1> QED BY ProfileTypesInit, <1>1, PTL DEF Spec
-----------------------------------------------------------------------------
(***************************************************************************)
(* No mail is lost.  Calls that follow one another leave the mailboxes as  *)
(* if one profile, the base, had handled them: a server whose mailbox is   *)
(* not uneven has the mailbox of the base, or while the call is under way  *)
(* at the others already what the call makes of it.                        *)
(***************************************************************************)
Same(pf, b, s, U) == pf.mail_action = b.mail_action /\ (s \notin U => pf.file = b.file)

\* The replicas in w have yet to handle call i, and A are the answers of the others.
Given(c, i, w, A, b, U) ==
    \E f : /\ A = {<<s, f[s]>> : s \in Servers \ w}
           /\ c.kind # "vault" => \A s \in Servers \ (w \cup U) : f[s] = Outcome(c, i, b).ans
Spread(c, i, w, A, b, st, U) ==
    /\ \A s \in w : Same(st[s], b, s, U)
    /\ \A s \in Servers \ w : Same(st[s], Outcome(c, i, b).pf, s, U)
    /\ Given(c, i, w, A, b, U)
Rest(b, st, U) == \A s \in Servers : Same(st[s], b, s, U)

Active(cs) == cs # <<>> /\ cs[Len(cs)].stage = "repl"
Base(b, cs, st, U) ==
    /\ b \in Profile
    /\ LET c == cs[Len(cs)]
       IN  IF Active(cs) THEN Spread(c, Len(cs), c.waiting, c.answers, b, st, U) ELSE Rest(b, st, U)

\* Only the last call may be under way.
InTurn(cs) == \A i \in DOMAIN cs : /\ i # Len(cs) => cs[i].stage = "done"
                                   /\ cs[i].stage = "done" => cs[i].waiting = {}

\* A mail that was taken is with the user or in the mailbox of the base.
Taken(c) == c.kind = "mail" /\ c.result \in {<<"Ok">>, <<"SentDirectly">>}
Sent(c) == c.stage = "back" /\ c.got = <<"SentDirectly">>
Secured(b) ==
    /\ \A i \in DOMAIN calls : /\ Taken(calls[i]) => Got(i) \/ i \in Range(b.file.mails)
                               /\ Sent(calls[i]) => Got(i)
    /\ b.file.hole % 2 = 0 /\ b.file.cursor % 2 = 0

Orderly == Undisturbed /\ MailLen % 2 = 0 /\ Cardinality(Servers \ uneven) > RF \div 2

\* The inductive invariant of MailNotLost.
MailInv == /\ ProfileTypes
           /\ Orderly => InTurn(calls) /\ \E b : Base(b, calls, store, uneven) /\ Secured(b)

\* The same request has the same outcome where the profiles are the same.
LEMMA OutcomeSame ==
    ASSUME NEW c, Request(c), NEW i \in Nat, NEW pf \in Profile, NEW b \in Profile, NEW s, NEW U,
           Same(pf, b, s, U)
    PROVE  /\ Same(Outcome(c, i, pf).pf, Outcome(c, i, b).pf, s, U)
           /\ c.kind # "vault" /\ s \notin U => Outcome(c, i, pf).ans = Outcome(c, i, b).ans
<1>1. CASE c.kind = "mail"
  <2>1. Outcome(c, i, pf) = AppendMail(pf, i) /\ Outcome(c, i, b) = AppendMail(b, i)
    BY <1>1 DEF Outcome
  <2>2. AppendMail(pf, i).pf.mail_action = pf.mail_action /\ AppendMail(b, i).pf.mail_action = b.mail_action
    BY MailAppended
  <2>3. CASE s \notin U
    <3>1. pf.file = b.file
      BY <2>3 DEF Same
    <3>2. AppendMail(pf, i).ans = AppendMail(b, i).ans
      BY <3>1 DEF AppendMail, Err
    <3>3. AppendMail(pf, i).pf.file = AppendMail(b, i).pf.file
      BY <3>1 DEF AppendMail, Err, Profile
    <3> QED BY <2>1, <2>2, <3>2, <3>3 DEF Same
  <2> QED BY <2>1, <2>2, <2>3 DEF Same
<1>2. CASE c.kind = "read"
  <2>1. Outcome(c, i, pf) = ReadMail(pf, c.nonce) /\ Outcome(c, i, b) = ReadMail(b, c.nonce)
    BY <1>2 DEF Outcome
  <2>2. c.nonce \in Nat /\ pf.mail_action = b.mail_action
    BY DEF Request, Same
  <2>3. CASE c.nonce <= b.mail_action
    <3>1. ReadMail(pf, c.nonce) = Err(pf, "InvalidAction") /\ ReadMail(b, c.nonce) = Err(b, "InvalidAction")
      BY <2>2, <2>3 DEF ReadMail, Outdated
    <3> QED BY <2>1, <3>1 DEF Err, Same
  <2>4. CASE ~ c.nonce <= b.mail_action
    <3>1. /\ ReadMail(pf, c.nonce).pf.mail_action = c.nonce
          /\ ReadMail(pf, c.nonce).pf.file = TakenOut(pf.file)
          /\ ReadMail(pf, c.nonce).ans = <<"Ok", IF pf.file.mails = <<>> THEN 0 ELSE pf.file.hole, pf.file.mails>>
      BY <2>2, <2>4, MailRead
    <3>2. /\ ReadMail(b, c.nonce).pf.mail_action = c.nonce
          /\ ReadMail(b, c.nonce).pf.file = TakenOut(b.file)
          /\ ReadMail(b, c.nonce).ans = <<"Ok", IF b.file.mails = <<>> THEN 0 ELSE b.file.hole, b.file.mails>>
      BY <2>2, <2>4, MailRead
    <3> QED BY <2>1, <3>1, <3>2 DEF Same
  <2> QED BY <2>3, <2>4
<1>3. CASE c.kind = "vault"
  <2>1. c.nonce \in Nat /\ c.root \in [Keys -> Nat]
    BY DEF Request
  <2>2. /\ Outcome(c, i, pf).pf.mail_action = pf.mail_action /\ Outcome(c, i, pf).pf.file = pf.file
        /\ Outcome(c, i, b).pf.mail_action = b.mail_action /\ Outcome(c, i, b).pf.file = b.file
    BY <1>3, <2>1, VaultInserted DEF Outcome
  <2> QED BY <1>3, <2>2 DEF Same
<1> QED BY <1>1, <1>2, <1>3 DEF Request

\* What an outcome makes of the mails.
LEMMA OutcomeMails ==
    ASSUME NEW c, Request(c), NEW i \in Nat, NEW b \in Profile
    PROVE  /\ c.kind = "vault" => Outcome(c, i, b).pf.file = b.file
           /\ c.kind = "mail" => /\ Range(b.file.mails) \subseteq Range(Outcome(c, i, b).pf.file.mails)
                                 /\ Outcome(c, i, b).ans = <<"Ok">> =>
                                        i \in Range(Outcome(c, i, b).pf.file.mails)
                                 /\ Outcome(c, i, b).ans \in {<<"Ok">>, <<"MailboxFull">>}
<1>1. c.kind = "vault" => Outcome(c, i, b).pf.file = b.file
  <2>1. c.nonce \in Nat /\ c.root \in [Keys -> Nat]
    BY DEF Request
  <2> QED BY <2>1, VaultInserted DEF Outcome
<1>2. ASSUME c.kind = "mail"
      PROVE  /\ Range(b.file.mails) \subseteq Range(Outcome(c, i, b).pf.file.mails)
             /\ Outcome(c, i, b).ans = <<"Ok">> => i \in Range(Outcome(c, i, b).pf.file.mails)
             /\ Outcome(c, i, b).ans \in {<<"Ok">>, <<"MailboxFull">>}
  <2>1. Outcome(c, i, b) = AppendMail(b, i) /\ b.file.mails \in Seq(Nat)
    BY <1>2 DEF Outcome, Profile, Mailbox
  <2>2. CASE AppendMail(b, i).ans = <<"MailboxFull">>
    <3>1. AppendMail(b, i).pf = b /\ <<"MailboxFull">> # <<"Ok">>
      BY <2>2, MailAppended
    <3> QED BY <2>1, <2>2, <3>1
  <2>3. CASE AppendMail(b, i).ans = <<"Ok">>
    <3>1. AppendMail(b, i).pf.file.mails = Append(b.file.mails, i)
      BY <2>3, MailAppended
    <3>2. /\ DOMAIN Append(b.file.mails, i) = 1 .. Len(b.file.mails) + 1 /\ DOMAIN b.file.mails = 1 .. Len(b.file.mails)
          /\ \A k \in 1 .. Len(b.file.mails) : Append(b.file.mails, i)[k] = b.file.mails[k]
          /\ Append(b.file.mails, i)[Len(b.file.mails) + 1] = i /\ Len(b.file.mails) \in Nat
      BY <2>1, AppendProperties, LenProperties
    <3>3. Range(b.file.mails) \subseteq Range(Append(b.file.mails, i)) /\ i \in Range(Append(b.file.mails, i))
      BY <3>2 DEF Range
    <3> QED BY <2>1, <2>3, <3>1, <3>3
  <2> QED BY <2>2, <2>3, MailAppended
<1> QED BY <1>1, <1>2

\* Holes stay even.
LEMMA OutcomeEven ==
    ASSUME NEW c, Request(c), NEW i \in Nat, NEW b \in Profile, MailLen % 2 = 0,
           b.file.hole % 2 = 0, b.file.cursor % 2 = 0
    PROVE  Outcome(c, i, b).pf.file.hole % 2 = 0 /\ Outcome(c, i, b).pf.file.cursor % 2 = 0
<1> DEFINE f == b.file
<1>1. f \in Mailbox /\ f.hole \in Nat /\ f.cursor \in Nat /\ f.mails \in Seq(Nat) /\ MailLen \in Nat
  BY StoreAssumption DEF Profile, Mailbox
<1>2. (f.cursor + MailLen + 2) % 2 = 0
  <2>1. \A x, y \in Nat : x % 2 = 0 /\ y % 2 = 0 => (x + y + 2) % 2 = 0
    BY SMT
  <2> QED BY <1>1, <2>1
<1>3. Length(f) % 2 = 0
  <2>1. PICK m \in Nat : MailLen + 2 = 2 * m
    <3>1. MailLen + 2 = 2 * ((MailLen + 2) \div 2) /\ (MailLen + 2) \div 2 \in Nat
      BY <1>1, SMT
    <3> QED BY <3>1
  <2>2. Len(f.mails) \in Nat
    BY <1>1, LenProperties
  <2>3. \A k, n \in Nat : k * (2 * n) = 2 * (k * n) /\ k * n \in Nat
    BY SMT
  <2>4. PICK k \in Nat : Len(f.mails) * (MailLen + 2) = 2 * k
    BY <2>1, <2>2, <2>3
  <2>5. (f.hole + 2 * k) % 2 = 0
    BY <1>1, SMT
  <2> QED BY <2>4, <2>5, SMT DEF Length
<1>4. CASE c.kind = "vault"
  BY <1>4, OutcomeMails
<1>5. CASE c.kind = "mail"
  <2> DEFINE g == [hole   |-> IF f.mails = <<>> THEN f.cursor ELSE f.hole,
                   mails  |-> Append(f.mails, i),
                   cursor |-> f.cursor + MailLen + 2]
  <2>1. Outcome(c, i, b).pf = b \/ Outcome(c, i, b).pf = [b EXCEPT !.file = g]
    BY <1>5 DEF Outcome, AppendMail, Err
  <2>2. g.hole % 2 = 0 /\ g.cursor % 2 = 0
    BY <1>1, <1>2
  <2> HIDE DEF g
  <2>3. [b EXCEPT !.file = g].file = g
    BY DEF Profile
  <2> QED BY <2>1, <2>2, <2>3
<1>6. CASE c.kind = "read"
  <2>1. Outcome(c, i, b).pf = b \/ Outcome(c, i, b).pf.file = TakenOut(f)
    <3>1. c.nonce \in Nat
      BY DEF Request
    <3> QED BY <1>6, <3>1, MailRead DEF Outcome
  <2>2. TakenOut(f).hole = 0 /\ TakenOut(f).cursor = Length(f)
    BY DEF TakenOut, EmptyFile
  <2> QED BY <1>3, <2>1, <2>2, SMT
<1> QED BY <1>4, <1>5, <1>6 DEF Request

AnswersOf(f) == {<<s, f[s]>> : s \in Servers}

\* The answer that most gave, when all but a minority answer alike.
LEMMA MajorityPicked ==
    ASSUME NEW f, NEW answers, answers = AnswersOf(f), NEW o, NEW G, G \subseteq Servers,
           \A s \in G : f[s] = o, Cardinality(G) > RF \div 2, RF % 2 = 0
    PROVE  Picked(answers) = o
<1> DEFINE B(x) == {s \in Servers : f[s] = x}
           often == {a[2] : a \in {b \in answers : Cardinality(Answering(answers, b[2])) > RF \div 2}}
<1>0. IsFiniteSet(Servers) /\ Cardinality(Servers) = RF + 1 /\ RF \in Nat
  BY GroupAssumption
<1>1. ASSUME NEW x
      PROVE  /\ Cardinality(Answering(answers, x)) = Cardinality(B(x))
             /\ IsFiniteSet(B(x)) /\ Cardinality(B(x)) \in Nat /\ B(x) \subseteq Servers
  <2> DEFINE S == B(x)
             T == Answering(answers, x)
             g == [s \in S |-> <<s, x>>]
  <2>1. IsFiniteSet(S) /\ Cardinality(S) \in Nat
    BY <1>0, FS_Subset, FS_CardinalityType
  <2>2. T = {<<s, x>> : s \in S}
    <3>1. \A s \in Servers : <<s, f[s]>>[2] = f[s]
      OBVIOUS
    <3> QED BY <3>1 DEF Answering, AnswersOf
  <2>3. g \in [S -> T]
    BY <2>2
  <2>4. \A s, t \in S : g[s] = g[t] => s = t
    OBVIOUS
  <2>5. \A y \in T : \E s \in S : g[s] = y
    BY <2>2
  <2> HIDE DEF g, S, T
  <2>6. g \in Bijection(S, T)
    BY <2>3, <2>4, <2>5 DEF Bijection, Injection, Surjection, IsInjective
  <2>7. ExistsBijection(S, T)
    BY <2>6 DEF ExistsBijection
  <2>8. Cardinality(T) = Cardinality(S)
    BY <2>1, <2>7, FS_Bijection
  <2> QED BY <2>1, <2>8 DEF S, T
<1>2. Cardinality(B(o)) > RF \div 2
  <2>1. G \subseteq B(o)
    OBVIOUS
  <2> HIDE DEF B
  <2>2. Cardinality(G) <= Cardinality(B(o)) /\ IsFiniteSet(G)
    BY <1>1, <2>1, FS_Subset
  <2>3. Cardinality(G) \in Nat /\ Cardinality(B(o)) \in Nat
    BY <1>1, <2>2, FS_CardinalityType
  <2> QED BY <1>0, <2>2, <2>3
<1>3. ASSUME NEW x, x # o, Cardinality(B(x)) > RF \div 2
      PROVE  FALSE
  <2>1. B(x) \cap B(o) = {} /\ B(x) \cup B(o) \subseteq Servers
    BY <1>3
  <2>2. IsFiniteSet(B(x)) /\ IsFiniteSet(B(o)) /\ Cardinality(B(x)) \in Nat /\ Cardinality(B(o)) \in Nat
    BY <1>1
  <2> HIDE DEF B
  <2>3. Cardinality(B(x) \cup B(o)) = Cardinality(B(x)) + Cardinality(B(o))
    <3>1. Cardinality(B(x) \cup B(o)) = Cardinality(B(x)) + Cardinality(B(o)) - Cardinality(B(x) \cap B(o))
      BY <2>2, FS_Union
    <3>2. Cardinality(B(x) \cap B(o)) = 0
      BY <2>1, FS_EmptySet
    <3> QED BY <2>2, <3>1, <3>2
  <2>4. Cardinality(B(x) \cup B(o)) <= RF + 1
    BY <1>0, <2>1, FS_Subset
  <2> QED BY <1>0, <1>2, <1>3, <2>2, <2>3, <2>4
<1>4. often = {o}
  <2>1. \A x \in often : x = o
    <3> SUFFICES ASSUME NEW a \in answers, Cardinality(Answering(answers, a[2])) > RF \div 2
                 PROVE  a[2] = o
      OBVIOUS
    <3> HIDE DEF B
    <3>1. Cardinality(B(a[2])) > RF \div 2
      BY <1>1
    <3> QED BY <1>3, <3>1
  <2>2. o \in often
    <3>1. G # {}
      <4>1. ~ (0 > RF \div 2)
        BY <1>0
      <4>2. G = {} => Cardinality(G) = 0
        BY FS_EmptySet
      <4>3. G = {} => 0 > RF \div 2
        BY <4>2, Zenon
      <4> QED BY <4>1, <4>3
    <3>2. PICK s \in G : TRUE
      BY <3>1
    <3>3. <<s, o>> \in answers /\ <<s, o>>[2] = o
      BY <3>2 DEF AnswersOf
    <3> HIDE DEF B
    <3>4. Cardinality(Answering(answers, o)) > RF \div 2
      BY <1>1, <1>2
    <3> QED BY <3>3, <3>4
  <2> QED BY <2>1, <2>2
<1>5. Picked(answers) = IF often = {} THEN <<"NoMajority">> ELSE CHOOSE a \in often : TRUE
  BY DEF Picked
<1> HIDE DEF often
<1> QED BY <1>4, <1>5
-----------------------------------------------------------------------------
\* One server more handles the call.
LEMMA SpreadOn ==
    ASSUME NEW c, NEW i, NEW w, NEW A, NEW b, NEW st, NEW U, Spread(c, i, w, A, b, st, U),
           NEW t \in Servers, t \in w, NEW st2, NEW U2, U \subseteq U2,
           \A s \in Servers : s # t => st2[s] = st[s], w \subseteq Servers,
           Same(st2[t], Outcome(c, i, b).pf, t, U2),
           NEW ans, c.kind # "vault" /\ t \notin U2 => ans = Outcome(c, i, b).ans
    PROVE  Spread(c, i, w \ {t}, A \cup {<<t, ans>>}, b, st2, U2)
<1>1. \A s \in w \ {t} : Same(st2[s], b, s, U2)
  BY DEF Spread, Same
<1>2. \A s \in Servers \ (w \ {t}) : Same(st2[s], Outcome(c, i, b).pf, s, U2)
  <2> SUFFICES ASSUME NEW s \in Servers \ (w \ {t}), s # t
               PROVE  Same(st2[s], Outcome(c, i, b).pf, s, U2)
    OBVIOUS
  <2>1. Same(st[s], Outcome(c, i, b).pf, s, U) /\ st2[s] = st[s]
    BY DEF Spread
  <2> QED BY <2>1 DEF Same
<1>3. Given(c, i, w \ {t}, A \cup {<<t, ans>>}, b, U2)
  <2>1. PICK f : /\ A = {<<s, f[s]>> : s \in Servers \ w}
                 /\ c.kind # "vault" => \A s \in Servers \ (w \cup U) : f[s] = Outcome(c, i, b).ans
    BY DEF Spread, Given
  <2> DEFINE g == [s \in Servers |-> IF s = t THEN ans ELSE f[s]]
  <2>2. g[t] = ans /\ \A s \in Servers \ w : g[s] = f[s]
    OBVIOUS
  <2> HIDE DEF g
  <2>3. A \cup {<<t, ans>>} = {<<s, g[s]>> : s \in Servers \ (w \ {t})}
    <3>1. Servers \ (w \ {t}) = (Servers \ w) \cup {t}
      OBVIOUS
    <3>2. A = {<<s, g[s]>> : s \in Servers \ w}
      BY <2>1, <2>2
    <3> QED BY <2>2, <3>1, <3>2
  <2>4. ASSUME c.kind # "vault", NEW s \in Servers \ ((w \ {t}) \cup U2)
        PROVE  g[s] = Outcome(c, i, b).ans
    <3>1. CASE s = t
      BY <2>2, <2>4, <3>1
    <3>2. CASE s # t
      BY <2>1, <2>2, <2>4, <3>2
    <3> QED BY <3>1, <3>2
  <2> QED BY <2>3, <2>4 DEF Given
<1> QED BY <1>1, <1>2, <1>3 DEF Spread

\* Nobody has handled the call yet; all have.
LEMMA SpreadFirst ==
    ASSUME NEW c, NEW i, NEW b, NEW st, NEW U, Rest(b, st, U)
    PROVE  Spread(c, i, Servers, {}, b, st, U)
<1>1. Given(c, i, Servers, {}, b, U)
  <2> DEFINE f == <<>>
  <2>1. {} = {<<s, f[s]>> : s \in Servers \ Servers}
    OBVIOUS
  <2>2. \A s \in Servers \ (Servers \cup U) : f[s] = Outcome(c, i, b).ans
    OBVIOUS
  <2> QED BY <2>1, <2>2 DEF Given
<1> QED BY <1>1 DEF Spread, Rest

LEMMA SpreadLast ==
    ASSUME NEW c, NEW i, NEW A, NEW b, NEW st, NEW U, Spread(c, i, {}, A, b, st, U)
    PROVE  Rest(Outcome(c, i, b).pf, st, U)
BY DEF Spread, Rest

\* What Spread says of a call is in what the call asks for.
LEMMA SpreadOf ==
    ASSUME NEW c, NEW d, d.kind = c.kind, d.nonce = c.nonce, d.changes = c.changes, d.root = c.root,
           NEW i, NEW w, NEW A, NEW b, NEW st, NEW U, Spread(c, i, w, A, b, st, U)
    PROVE  Spread(d, i, w, A, b, st, U)
<1>1. \A pf : Outcome(c, i, pf) = Outcome(d, i, pf)
  BY DEF Outcome
<1> QED BY <1>1 DEF Spread, Given

\* A handler has run where a handler may have done what all do, or gave a stray answer.
LEMMA HandledSame ==
    ASSUME ProfileTypes, NEW s \in Servers, NEW i \in Nat, NEW h, NEW stray, Apply(s, i, h, stray),
           NEW c, Request(c), NEW b \in Profile, Same(store[s], b, s, uneven),
           \/ AsAll(h, c, i, store[s])
           \/ c.kind = "mail" /\ h.pf = store[s] /\ h.ans \in stray
    PROVE  /\ Same(store'[s], Outcome(c, i, b).pf, s, uneven')
           /\ c.kind # "vault" /\ s \notin uneven' => h.ans = Outcome(c, i, b).ans
           /\ \A t \in Servers : t # s => store'[t] = store[t]
           /\ uneven \subseteq uneven'
<1>1. store'[s] = h.pf /\ \A t \in Servers : t # s => store'[t] = store[t]
  BY DEF Apply, ProfileTypes
<1>2. uneven \subseteq uneven' /\ (h.ans \in stray => s \in uneven')
  BY DEF Apply
<1>3. store[s] \in Profile
  BY DEF ProfileTypes
<1>4. CASE AsAll(h, c, i, store[s])
  <2>1. /\ Same(Outcome(c, i, store[s]).pf, Outcome(c, i, b).pf, s, uneven)
        /\ c.kind # "vault" /\ s \notin uneven => Outcome(c, i, store[s]).ans = Outcome(c, i, b).ans
    BY <1>3, OutcomeSame
  <2> QED BY <1>1, <1>2, <1>4, <2>1 DEF AsAll, Same
<1>5. CASE c.kind = "mail" /\ h.pf = store[s] /\ h.ans \in stray
  <2>1. Outcome(c, i, b).pf.mail_action = b.mail_action
    BY <1>5, MailAppended DEF Outcome
  <2> QED BY <1>1, <1>2, <1>5, <2>1 DEF Same
<1> QED BY <1>1, <1>2, <1>4, <1>5

-----------------------------------------------------------------------------
\* The order of the calls, and what is excepted from it.
LEMMA OrderlyBefore ==
    ASSUME Orderly', uneven \subseteq uneven', suffered \subseteq suffered'
    PROVE  Orderly
<1>1. Cardinality(Servers \ uneven) >= Cardinality(Servers \ uneven') /\ Cardinality(Servers \ uneven) \in Nat
      /\ Cardinality(Servers \ uneven') \in Nat
  <2>1. Servers \ uneven' \subseteq Servers \ uneven /\ Servers \ uneven \subseteq Servers
    OBVIOUS
  <2>2. IsFiniteSet(Servers \ uneven)
    BY <2>1, FS_Subset, GroupAssumption
  <2>3. IsFiniteSet(Servers \ uneven')
    BY <2>1, <2>2, FS_Subset
  <2> QED BY <2>1, <2>2, <2>3, FS_Subset, FS_CardinalityType
<1>2. Undisturbed /\ MailLen % 2 = 0 /\ Cardinality(Servers \ uneven') > RF \div 2
  BY DEF Orderly, Undisturbed
<1>3. RF \div 2 \in Nat
  BY GroupAssumption
<1> QED BY <1>1, <1>2, <1>3 DEF Orderly

LEMMA OrderlyFaults ==
    ASSUME Orderly', NEW kind, Fault(kind)
    PROVE  kind \in {"defer", "edit", "login", "unsubscribe", "self"}
BY DEF Orderly, Undisturbed, Fault

\* No call is made while another one is under way.
LEMMA AllDone ==
    ASSUME ProfileTypes, Orderly', NEW o, MayCall \/ MayMail(o)
    PROVE  \A i \in DOMAIN calls : calls[i].stage = "done" /\ calls[i].waiting = {}
<1>1. ~ UnderWay
  <2>1. UnderWay => Fault("overlap")
    BY DEF MayCall, MayMail
  <2> QED BY <2>1, OrderlyFaults
<1> QED BY <1>1, CallsAre DEF UnderWay, InCall, ProfileTypes, Request

\* The invariant after a step.
LEMMA MailInvIs ==
    ASSUME ProfileTypes', InTurn(calls'), NEW b, Base(b, calls', store', uneven'),
           b.file.hole % 2 = 0, b.file.cursor % 2 = 0,
           \A i \in DOMAIN calls' : /\ Taken(calls'[i]) => Got(i)' \/ i \in Range(b.file.mails)
                                    /\ Sent(calls'[i]) => Got(i)'
    PROVE  MailInv'
<1>1. Secured(b)'
  BY DEF Secured
<1> QED BY <1>1 DEF MailInv

\* A call is added while there is none under way.
LEMMA InTurnAdded ==
    ASSUME NEW cs, Requests(cs), \A i \in DOMAIN cs : cs[i].stage = "done" /\ cs[i].waiting = {},
           NEW c, Request(c), c.stage = "done" => c.waiting = {}
    PROVE  InTurn(Append(cs, c)) /\ (Active(Append(cs, c)) <=> c.stage = "repl")
BY RequestAdded DEF InTurn, Active

LEMMA InTurnChanged ==
    ASSUME NEW cs, Requests(cs), InTurn(cs), NEW i \in DOMAIN cs, cs[i].stage # "done",
           NEW c, Request(c), c.stage = "done" => c.waiting = {}
    PROVE  /\ i = Len(cs) /\ InTurn([cs EXCEPT ![i] = c])
           /\ Active([cs EXCEPT ![i] = c]) <=> c.stage = "repl"
           /\ Active(cs) <=> cs[i].stage = "repl"
BY RequestChanged, CallsAre DEF InTurn, Active
-----------------------------------------------------------------------------
\* The steps. Neither the calls nor the mailboxes change.
LEMMA QuietMail ==
    ASSUME MailInv, ProfileTypes', UNCHANGED <<calls, store, uneven>>, suffered \subseteq suffered',
           \A i : Got(i) => Got(i)'
    PROVE  MailInv'
<1> SUFFICES ASSUME Orderly' PROVE MailInv'
  BY DEF MailInv
<1>1. Orderly
  BY OrderlyBefore
<1>2. PICK b : InTurn(calls) /\ Base(b, calls, store, uneven) /\ Secured(b)
  BY <1>1 DEF MailInv
<1>3. Secured(b)'
  BY <1>2 DEF Secured
<1> QED BY <1>2, <1>3 DEF MailInv

\* The user takes an event, or a session ends with its events.
LEMMA VisitMail ==
    ASSUME MailInv, NEW p \in Paths, NEW s \in Servers,
           \/ Connect(p, s) \/ Subscribe(p) \/ Unsubscribe(p) \/ DeliverEvent(p) \/ Hangup(p) \/ Forget(p)
    PROVE  MailInv'
<1> USE DEF hist, servers
<1>0. ProfileTypes /\ ProfileTypes'
  BY VisitTypes DEF MailInv
<1>1. UNCHANGED <<calls, store, uneven>> /\ suffered \subseteq suffered'
  BY Faulted DEF Connect, Subscribe, Unsubscribe, DeliverEvent, Hangup, Forget
<1>2. ASSUME NEW i, Got(i)
      PROVE  Got(i)'
  <2>0. session \in [Paths -> Session]
    BY <1>0 DEF ProfileTypes, Sessions
  <2>1. CASE Connect(p, s)
    <3>1. \A q \in Paths : session'[q].events = session[q].events
      BY <2>0, <2>1 DEF Connect, Session
    <3> QED BY <1>2, <2>1, <3>1 DEF Got, Queued, Connect
  <2>2. CASE Subscribe(p) \/ Unsubscribe(p)
    BY <1>2, <2>2 DEF Got, Queued, Subscribe, Unsubscribe
  <2>3. CASE DeliverEvent(p)
    <3> DEFINE e == session[p].events
    <3>0. e \in Seq(Nat) /\ e # <<>> /\ received \in Seq(Nat)
      BY <1>0, <2>3, EventsType DEF DeliverEvent, ProfileTypes
    <3>1. received' = Append(received, Head(e)) /\ session' = [session EXCEPT ![p].events = Tail(e)] /\ gone' = gone
      BY <2>3 DEF DeliverEvent
    <3>2. session'[p].events = Tail(e) /\ \A q \in Paths : q # p => session'[q].events = session[q].events
      BY <2>0, <3>1 DEF Session
    <3> HIDE DEF e
    <3>3. Range(received') = Range(received) \cup {Head(e)}
      <4>1. Head(e) \in Nat
        BY <3>0, HeadTailProperties
      <4>2. /\ DOMAIN received' = 1 .. Len(received) + 1 /\ DOMAIN received = 1 .. Len(received)
            /\ \A k \in 1 .. Len(received) : received'[k] = received[k]
            /\ received'[Len(received) + 1] = Head(e) /\ Len(received) \in Nat
        BY <3>0, <3>1, <4>1, AppendProperties, LenProperties
      <4>3. 1 .. Len(received) + 1 = (1 .. Len(received)) \cup {Len(received) + 1}
        BY <4>2
      <4> QED BY <4>2, <4>3 DEF Range
    <3>4. Range(e) \subseteq Range(Tail(e)) \cup {Head(e)}
      <4>1. /\ DOMAIN e = 1 .. Len(e) /\ Len(e) \in Nat \ {0} /\ Head(e) = e[1]
            /\ DOMAIN Tail(e) = 1 .. Len(e) - 1 /\ \A k \in 1 .. Len(e) - 1 : Tail(e)[k] = e[k + 1]
        BY <3>0, HeadTailProperties, LenProperties, EmptySeq
      <4> SUFFICES ASSUME NEW k \in 1 .. Len(e), k # 1 PROVE e[k] \in Range(Tail(e))
        BY <4>1 DEF Range
      <4>2. k - 1 \in 1 .. Len(e) - 1 /\ Tail(e)[k - 1] = e[k]
        BY <4>1
      <4> QED BY <4>1, <4>2 DEF Range
    <3>5. CASE i \in Range(received) \cup gone
      BY <3>1, <3>3, <3>5 DEF Got
    <3>6. CASE Queued(i)
      <4>1. PICK q \in Paths : i \in Range(session[q].events)
        BY <3>6 DEF Queued
      <4>2. CASE q = p
        <5>1. i \in Range(e)
          BY <4>1, <4>2 DEF e
        <5>2. i \in Range(received') \/ i \in Range(session'[p].events)
          BY <3>2, <3>3, <3>4, <5>1
        <5> QED BY <5>2 DEF Got, Queued
      <4>3. CASE q # p
        BY <3>2, <4>1, <4>3 DEF Got, Queued
      <4> QED BY <4>2, <4>3
    <3> QED BY <1>2, <3>5, <3>6 DEF Got
  <2>4. CASE Hangup(p)
    <3>1. gone' = gone \cup Range(session[p].events) /\ received' = received
      BY <2>4 DEF Hangup
    <3>2. \A q \in Paths : q # p => session'[q] = session[q]
      BY <2>0, <2>4 DEF Hangup
    <3> QED BY <1>2, <3>1, <3>2 DEF Got, Queued
  <2>5. CASE Forget(p)
    <3>1. \A q \in Paths : session'[q].events = session[q].events
      BY <2>0, <2>5 DEF Forget, Session
    <3> QED BY <1>2, <2>5, <3>1 DEF Got, Queued, Forget
  <2> QED BY <2>1, <2>2, <2>3, <2>4, <2>5
<1> QED BY <1>0, <1>1, <1>2, QuietMail

LEMMA ClientMail ==
    ASSUME MailInv, ProfileTypes', (\E p \in Paths : Login(p)) \/ (\E k \in Keys : Defer(k))
    PROVE  MailInv'
<1>1. UNCHANGED <<calls, store, uneven, session, received, gone>> /\ suffered \subseteq suffered'
  BY Faulted DEF Login, Defer, servers, hist
<1> QED BY <1>1, QuietMail DEF Got, Queued

\* A call is made and handled.
LEMMA StartMail ==
    ASSUME MailInv, ProfileTypes', NEW c, Fresh(c), Start(c), UNCHANGED <<received, gone>>,
           suffered \subseteq suffered', NEW o, MayCall \/ MayMail(o)
    PROVE  MailInv'
<1> SUFFICES ASSUME Orderly' PROVE MailInv'
  BY DEF MailInv
<1>0. ProfileTypes /\ Request(c) /\ c.at \in Servers /\ c.result = <<>> /\ Requests(calls)
  BY DEF MailInv, Fresh, ProfileTypes
<1>i. PICK i \in Nat : i = Len(calls) + 1
  BY <1>0, CallsAre
<1> DEFINE h == Handled(c.at, i, c, c.origin)
           r == Replicating(c, h.ans)
<1>1. calls' = Append(calls, r) /\ Apply(c.at, i, h, {<<"SendingToSelf">>})
  BY <1>i DEF Start
<1>2. /\ AsAll(h, c, i, store[c.at]) \/ Pushes(h, c, store[c.at]) \/ Refuses(h, c, store[c.at])
      /\ h.push = "pushed" => Push(c.at) = "pushed"
  BY <1>0, HandledWays
<1>3. \A j \in DOMAIN calls : calls[j].stage = "done" /\ calls[j].waiting = {}
  BY <1>0, AllDone
<1>4. uneven \subseteq uneven'
  BY <1>1 DEF Apply
<1>5. Orderly
  BY <1>4, OrderlyBefore
<1>6. PICK b : Base(b, calls, store, uneven) /\ Secured(b)
  BY <1>5 DEF MailInv
<1>7. b \in Profile /\ Rest(b, store, uneven)
  BY <1>0, <1>3, <1>6, CallsAre DEF Base, Active
<1>8. (\A j : Got(j) => Got(j)') /\ (h.push = "pushed" => Got(i)')
  <2> HIDE DEF h, r
  <2> QED BY <1>0, <1>1, <1>2, EventsStay
<1>9. /\ DOMAIN calls' = DOMAIN calls \cup {i} /\ calls'[i] = r /\ Len(calls') = i /\ calls' # <<>>
      /\ \A j \in DOMAIN calls : calls'[j] = calls[j]
      /\ Request(r)
  <2>1. Request(r)
    <3>1. Readable(c.kind, h.ans)
      <4>1. c.origin \in Places
        BY DEF Fresh
      <4> QED BY <1>0, <4>1, HandledTypes
    <3> HIDE DEF h
    <3> QED BY <1>0, <3>1, ReplicatingRequest
  <2> HIDE DEF r, h
  <2>2. LET new == Append(calls, r)
        IN  /\ DOMAIN new = DOMAIN calls \cup {Len(calls) + 1} /\ new[Len(calls) + 1] = r
            /\ Len(new) = Len(calls) + 1 /\ new # <<>> /\ \A j \in DOMAIN calls : new[j] = calls[j]
    BY <1>0, <2>1, RequestAdded
  <2> QED BY <1>i, <1>1, <2>1, <2>2
<1>10. \A j \in DOMAIN calls : /\ Taken(calls'[j]) => Got(j)' \/ j \in Range(b.file.mails)
                               /\ Sent(calls'[j]) => Got(j)'
  BY <1>6, <1>8, <1>9 DEF Secured
<1>11. CASE Pushes(h, c, store[c.at])
  <2>1. h.ans = <<"SentDirectly">> /\ h.push = "pushed" /\ h.pf = store[c.at]
    BY <1>11 DEF Pushes
  <2>2. r.stage = "done" /\ r.waiting = {}
    <3>1. r = Done(c, <<"SentDirectly">>)
      BY <2>1, ReplicatingSent
    <3>2. c.waiting = {}
      BY DEF Fresh
    <3> QED BY <1>0, <3>1, <3>2, DoneType
  <2>3. uneven' = uneven /\ store' = store
    <3>1. <<"SentDirectly">> # <<"SendingToSelf">>
      OBVIOUS
    <3> HIDE DEF h
    <3> QED BY <1>0, <1>1, <2>1, <3>1 DEF Apply, ProfileTypes
  <2> HIDE DEF r
  <2>4. InTurn(calls') /\ ~Active(calls')
    BY <1>0, <1>1, <1>3, <1>9, <2>2, InTurnAdded
  <2>5. Base(b, calls', store', uneven')
    BY <1>7, <2>3, <2>4 DEF Base
  <2>6. Got(i)'
    BY <1>8, <2>1
  <2> HIDE DEF h
  <2>7. \A j \in DOMAIN calls' : /\ Taken(calls'[j]) => Got(j)' \/ j \in Range(b.file.mails)
                                 /\ Sent(calls'[j]) => Got(j)'
    BY <1>9, <1>10, <2>6
  <2> QED BY <1>6, <2>4, <2>5, <2>7, MailInvIs DEF Secured
<1>12. CASE ~ Pushes(h, c, store[c.at])
  <2>1. \/ AsAll(h, c, i, store[c.at])
        \/ c.kind = "mail" /\ h.pf = store[c.at] /\ h.ans \in {<<"SendingToSelf">>}
    BY <1>2, <1>12 DEF Refuses
  <2>2. h.ans # <<"SentDirectly">>
    <3>1. <<"SentDirectly">> # <<"SendingToSelf">>
      OBVIOUS
    <3>2. store[c.at] \in Profile
      BY <1>0 DEF ProfileTypes
    <3> HIDE DEF h
    <3> QED BY <1>0, <2>1, <3>1, <3>2, OutcomeType DEF AsAll
  <2>3. /\ r.kind = c.kind /\ r.stage = "repl" /\ r.result = <<>>
        /\ r.waiting = Servers \ {c.at} /\ r.answers = {<<c.at, h.ans>>}
        /\ r.nonce = c.nonce /\ r.changes = c.changes /\ r.root = c.root
    <3>1. c.origin \in Places
      BY DEF Fresh
    <3>2. Readable(c.kind, h.ans)
      BY <1>0, <3>1, HandledTypes
    <3> HIDE DEF h
    <3> QED BY <1>0, <2>2, <3>2, ReplicatingType
  <2>4. Same(store[c.at], b, c.at, uneven)
    BY <1>0, <1>7 DEF Rest
  <2>5. /\ Same(store'[c.at], Outcome(c, i, b).pf, c.at, uneven')
        /\ c.kind # "vault" /\ c.at \notin uneven' => h.ans = Outcome(c, i, b).ans
        /\ \A t \in Servers : t # c.at => store'[t] = store[t]
    <3> HIDE DEF h
    <3> QED BY <1>0, <1>1, <1>7, <2>1, <2>4, HandledSame
  <2> HIDE DEF h, r
  <2>6. Spread(c, i, Servers, {}, b, store, uneven)
    BY <1>7, SpreadFirst
  <2>7. Spread(c, i, Servers \ {c.at}, {} \cup {<<c.at, h.ans>>}, b, store', uneven')
    BY <1>0, <1>4, <2>5, <2>6, SpreadOn
  <2>8. Spread(r, i, r.waiting, r.answers, b, store', uneven')
    <3>1. {} \cup {<<c.at, h.ans>>} = {<<c.at, h.ans>>}
      OBVIOUS
    <3>2. Spread(c, i, r.waiting, r.answers, b, store', uneven')
      BY <2>3, <2>7, <3>1
    <3> QED BY <2>3, <3>2, SpreadOf
  <2>9. InTurn(calls') /\ Active(calls')
    BY <1>0, <1>1, <1>3, <1>9, <2>3, InTurnAdded
  <2>10. Base(b, calls', store', uneven')
    BY <1>7, <1>9, <2>8, <2>9 DEF Base
  <2>11. ~Taken(r) /\ ~Sent(r)
    BY <2>3 DEF Taken, Sent
  <2> QED BY <1>6, <1>9, <1>10, <2>9, <2>10, <2>11, MailInvIs DEF Secured
<1> QED BY <1>11, <1>12

LEMMA UserMail ==
    ASSUME MailInv, NEW p \in Paths,
           ReadMailbox(p) \/ SaveVault(p, {}) \/ \E k \in Keys : SaveVault(p, {k})
    PROVE  MailInv'
<1>0. ProfileTypes
  BY DEF MailInv
<1>1. CASE ReadMailbox(p)
  <2>1. Live(p) /\ Client(client)
    BY <1>0, <1>1 DEF ReadMailbox, ProfileTypes
  <2>2. Fresh(ReadRequest(p)) /\ Start(ReadRequest(p))
    BY <1>0, <1>1, <2>1, UserRequests DEF ReadMailbox, ReadRequest
  <2>3. UNCHANGED <<received, gone>> /\ MayCall
    BY <1>1 DEF ReadMailbox
  <2> QED BY <1>0, <1>1, <2>2, <2>3, ReadMailboxTypes, StartMail, Faulted
<1>2. CASE \E ks \in SUBSET Keys : SaveVault(p, ks)
  <2>1. PICK ks \in SUBSET Keys : SaveVault(p, ks)
    BY <1>2
  <2> DEFINE cl == Edited(client, ks)
  <2>2. Start(SaveRequest(p, cl)) /\ Client(cl) /\ ProfileTypes' /\ Live(p)
    BY <1>0, <2>1, SaveVaultTypes DEF SaveVault
  <2>3. Fresh(SaveRequest(p, cl))
    BY <1>0, <2>2, UserRequests
  <2>4. UNCHANGED <<received, gone>> /\ MayCall
    BY <2>1 DEF SaveVault
  <2> QED BY <1>0, <2>2, <2>3, <2>4, StartMail, Faulted
<1> QED BY <1>1, <1>2

LEMMA SendMailMail ==
    ASSUME MailInv, NEW s \in Servers, NEW o \in {Somebody} \cup {Local(p) : p \in Paths}, SendMail(s, o)
    PROVE  MailInv'
<1> DEFINE c == Call("mail", s, o)
           d == [c EXCEPT !.stage = "direct", !.got = online[s]]
<1>0. ProfileTypes /\ ProfileTypes' /\ UNCHANGED <<received, gone>> /\ MayMail(o)
  BY SendMailTypes DEF MailInv, SendMail
<1>1. o \in Places
  BY DEF Places, Somebody
<1>2. Fresh(c)
  BY <1>1, FreshCall
<1>3. suffered \subseteq suffered'
  BY <1>0, Faulted
<1>4. CASE Start(c)
  <2> HIDE DEF c
  <2> QED BY <1>0, <1>2, <1>3, <1>4, StartMail
<1>5. CASE calls' = Append(calls, d) /\ UNCHANGED <<servers, session, uneven>>
  <2> SUFFICES ASSUME Orderly' PROVE MailInv'
    BY <1>0 DEF MailInv
  <2>1. Orderly /\ UNCHANGED <<store, session, uneven>>
    BY <1>3, <1>5, OrderlyBefore DEF servers
  <2>2. PICK b : InTurn(calls) /\ Base(b, calls, store, uneven) /\ Secured(b)
    BY <2>1 DEF MailInv
  <2>3. \A j \in DOMAIN calls : calls[j].stage = "done" /\ calls[j].waiting = {}
    BY <1>0, AllDone
  <2>4. Requests(calls) /\ Request(d) /\ d.stage = "direct" /\ d.result = <<>>
    <3>1. Requests(calls) /\ Requests(calls')
      BY <1>0 DEF ProfileTypes
    <3>2. /\ DOMAIN calls' = 1 .. Len(calls) + 1 /\ calls'[Len(calls) + 1] = d /\ Len(calls) \in Nat
      <4>1. PICK S : calls \in Seq(S)
        BY <3>1 DEF Requests
      <4>2. calls \in Seq(S \cup {d}) /\ d \in S \cup {d}
        BY <4>1
      <4> HIDE DEF d
      <4> QED BY <1>5, <4>2, AppendProperties, LenProperties
    <3>3. Request(d)
      BY <3>1, <3>2 DEF Requests
    <3> QED BY <3>1, <3>3 DEF Call
  <2>5. /\ DOMAIN calls' = DOMAIN calls \cup {Len(calls) + 1} /\ calls'[Len(calls) + 1] = d
        /\ \A j \in DOMAIN calls : calls'[j] = calls[j]
    <3> HIDE DEF d
    <3> QED BY <1>5, <2>4, RequestAdded
  <2> HIDE DEF d
  <2>6. InTurn(calls') /\ ~Active(calls') /\ ~Active(calls)
    BY <1>5, <2>3, <2>4, InTurnAdded, CallsAre DEF Active
  <2>7. Base(b, calls', store', uneven')
    BY <2>1, <2>2, <2>6 DEF Base
  <2>8. ~Taken(d) /\ ~Sent(d)
    BY <2>4 DEF Taken, Sent
  <2>9. \A j : Got(j) => Got(j)'
    BY <1>0, <2>1 DEF Got, Queued
  <2> QED BY <1>0, <2>2, <2>5, <2>6, <2>7, <2>8, <2>9, MailInvIs DEF Secured
<1> QED BY <1>4, <1>5 DEF SendMail
\* The call that is under way, and what is known of it.
LEMMA UnderWayCall ==
    ASSUME MailInv, Orderly, NEW i \in DOMAIN calls, calls[i].stage # "done"
    PROVE  /\ ProfileTypes /\ Requests(calls) /\ Request(calls[i]) /\ i \in Nat /\ i = Len(calls)
           /\ InTurn(calls) /\ calls[i].at \in Servers /\ calls[i].result = <<>>
           /\ \E b \in Profile :
                 /\ Secured(b)
                 /\ calls[i].stage = "repl" =>
                        Spread(calls[i], i, calls[i].waiting, calls[i].answers, b, store, uneven)
                 /\ calls[i].stage # "repl" => Rest(b, store, uneven)
<1>1. ProfileTypes /\ Requests(calls) /\ InTurn(calls)
  BY DEF MailInv, ProfileTypes
<1>2. Request(calls[i]) /\ i \in Nat /\ i = Len(calls) /\ calls # <<>>
  BY <1>1, CallsAre DEF InTurn
<1>3. PICK b : Base(b, calls, store, uneven) /\ Secured(b)
  BY DEF MailInv
<1>4. Active(calls) <=> calls[i].stage = "repl"
  BY <1>2 DEF Active
<1> QED BY <1>1, <1>2, <1>3, <1>4 DEF Base, Request

\* That call changes: the invariant after a step.
LEMMA CallMail ==
    ASSUME ProfileTypes, ProfileTypes', InTurn(calls), NEW i \in DOMAIN calls, calls[i].stage # "done",
           NEW d, Request(d), d.stage = "done" => d.waiting = {}, calls' = [calls EXCEPT ![i] = d],
           NEW b \in Profile, b.file.hole % 2 = 0, b.file.cursor % 2 = 0,
           d.stage = "repl" => Spread(d, i, d.waiting, d.answers, b, store', uneven'),
           d.stage # "repl" => Rest(b, store', uneven'),
           \A j \in DOMAIN calls : j # i /\ Taken(calls[j]) => Got(j)' \/ j \in Range(b.file.mails),
           Taken(d) => Got(i)' \/ i \in Range(b.file.mails), Sent(d) => Got(i)'
    PROVE  MailInv'
<1>0. Requests(calls)
  BY DEF ProfileTypes
<1>1. i = Len(calls) /\ InTurn(calls') /\ (Active(calls') <=> d.stage = "repl")
  BY <1>0, InTurnChanged
<1>2. /\ Len(calls') = Len(calls) /\ DOMAIN calls' = DOMAIN calls
      /\ calls'[i] = d /\ \A j \in DOMAIN calls : j # i => calls'[j] = calls[j]
  BY <1>0, RequestChanged
<1>3. Base(b, calls', store', uneven')
  BY <1>1, <1>2 DEF Base
<1>4. \A j \in DOMAIN calls : j # i => ~Sent(calls[j])
  BY <1>1 DEF InTurn, Sent
<1>5. \A j \in DOMAIN calls' : /\ Taken(calls'[j]) => Got(j)' \/ j \in Range(b.file.mails)
                               /\ Sent(calls'[j]) => Got(j)'
  BY <1>2, <1>4
<1> QED BY <1>1, <1>3, <1>5, MailInvIs

LEMMA DirectMailMail ==
    ASSUME MailInv, NEW i, DirectMail(i)
    PROVE  MailInv'
<1> SUFFICES ASSUME Orderly' PROVE MailInv'
  BY DirectMailTypes DEF MailInv
<1> DEFINE t == calls[i].got[2]
           h == MailHandled(t, i, Remote(calls[i].at))
           d == [calls[i] EXCEPT !.stage = "back", !.got = h.ans]
<1>0. ProfileTypes /\ ProfileTypes'
  BY DirectMailTypes DEF MailInv
<1>1. /\ Apply(t, i, h, {<<"Ok">>}) /\ UNCHANGED <<received, gone>> /\ calls' = [calls EXCEPT ![i] = d]
      /\ i \in DOMAIN calls /\ calls[i].stage = "direct" /\ suffered \subseteq suffered'
  BY Faulted DEF DirectMail
<1>2. Orderly
  BY <1>1, OrderlyBefore DEF Apply
<1>3. /\ ProfileTypes /\ Requests(calls) /\ Request(calls[i]) /\ i \in Nat /\ InTurn(calls)
      /\ calls[i].result = <<>>
  BY <1>1, <1>2, UnderWayCall
<1>4. PICK b \in Profile : Secured(b) /\ Rest(b, store, uneven)
  BY <1>1, <1>2, UnderWayCall
<1>5. t \in Servers /\ calls[i].kind = "mail" /\ calls[i].waiting = {}
  BY <1>1, <1>3 DEF Request, Remote
<1>6. /\ AsAll(h, calls[i], i, store[t]) \/ Pushes(h, calls[i], store[t]) \/ Refuses(h, calls[i], store[t])
      /\ h.push = "pushed" => Push(t) = "pushed"
  BY <1>5, MailHandledWays
<1>7. Request(d) /\ d.stage = "back" /\ d.got = h.ans /\ d.result = <<>>
  <2> HIDE DEF h
  <2> QED BY <1>1, <1>3, <1>5 DEF Request
<1> HIDE DEF t, h, d
<1>8. (\A j : Got(j) => Got(j)') /\ (h.push = "pushed" => Got(i)')
  BY <1>1, <1>3, <1>5, <1>6, EventsStay
<1>9. Rest(b, store', uneven')
  <2>1. store'[t] = h.pf /\ (\A s \in Servers : s # t => store'[s] = store[s])
        /\ uneven \subseteq uneven' /\ (h.ans = <<"Ok">> => t \in uneven')
    BY <1>1, <1>3, <1>5 DEF Apply, ProfileTypes
  <2>2. store[t] \in Profile /\ Same(store[t], b, t, uneven)
    BY <1>3, <1>4, <1>5 DEF ProfileTypes, Rest
  <2>3. h.pf.mail_action = store[t].mail_action /\ (h.ans # <<"Ok">> => h.pf = store[t])
    <3>1. CASE AsAll(h, calls[i], i, store[t])
      <4>1. h.pf = AppendMail(store[t], i).pf /\ h.ans = AppendMail(store[t], i).ans
        BY <1>5, <3>1 DEF AsAll, Outcome
      <4> QED BY <1>3, <2>2, <4>1, MailAppended
    <3>2. CASE ~ AsAll(h, calls[i], i, store[t])
      BY <1>6, <3>2 DEF Pushes, Refuses
    <3> QED BY <3>1, <3>2
  <2>4. Same(store'[t], b, t, uneven')
    BY <2>1, <2>2, <2>3 DEF Same
  <2> QED BY <1>4, <2>1, <2>4 DEF Rest, Same
<1>10. Sent(d) => Got(i)'
  <2>1. h.ans = <<"SentDirectly">> => h.push = "pushed"
    <3>1. <<"SentDirectly">> # <<"SendingToSelf">>
      OBVIOUS
    <3>2. store[t] \in Profile
      BY <1>3, <1>5 DEF ProfileTypes
    <3>3. CASE AsAll(h, calls[i], i, store[t])
      <4>1. h.ans # <<"SentDirectly">>
        BY <1>3, <3>2, <3>3, OutcomeType DEF AsAll
      <4> QED BY <4>1
    <3>4. CASE ~ AsAll(h, calls[i], i, store[t])
      BY <1>6, <3>1, <3>4 DEF Pushes, Refuses
    <3> QED BY <3>3, <3>4
  <2> QED BY <1>7, <1>8, <2>1 DEF Sent
<1>11. ~Taken(d) /\ d.stage # "repl" /\ d.stage # "done"
  BY <1>7 DEF Taken
<1>12. /\ b.file.hole % 2 = 0 /\ b.file.cursor % 2 = 0
       /\ \A j \in DOMAIN calls : j # i /\ Taken(calls[j]) => Got(j)' \/ j \in Range(b.file.mails)
  BY <1>4, <1>8 DEF Secured
<1>13. calls[i].stage # "done"
  BY <1>1
<1> QED BY <1>0, <1>1, <1>3, <1>7, <1>9, <1>10, <1>11, <1>12, <1>13, CallMail

LEMMA DirectReturnsMail ==
    ASSUME MailInv, NEW i, DirectReturns(i)
    PROVE  MailInv'
<1> DEFINE c == calls[i]
           res == AppendMail(store[c.at], i)
<1> SUFFICES ASSUME Orderly' PROVE MailInv'
  BY DirectReturnsTypes DEF MailInv
<1>0. ProfileTypes /\ ProfileTypes'
  BY DirectReturnsTypes DEF MailInv
<1>1. /\ i \in DOMAIN calls /\ calls[i].stage = "back" /\ suffered \subseteq suffered'
      /\ UNCHANGED <<session, received, gone, uneven>> /\ calls[i].stage # "done"
  BY Faulted DEF DirectReturns, hist
<1>2. Orderly
  BY <1>1, OrderlyBefore
<1>3. /\ ProfileTypes /\ Requests(calls) /\ Request(c) /\ i \in Nat /\ InTurn(calls)
      /\ c.at \in Servers /\ c.result = <<>> /\ i = Len(calls)
  BY <1>1, <1>2, UnderWayCall
<1>4. PICK b \in Profile : Secured(b) /\ Rest(b, store, uneven)
  BY <1>1, <1>2, UnderWayCall
<1>5. c.kind = "mail" /\ c.waiting = {}
  BY <1>1, <1>3 DEF Request
<1>6. \A j : Got(j) => Got(j)'
  BY <1>1 DEF Got, Queued
<1>7. /\ b.file.hole % 2 = 0 /\ b.file.cursor % 2 = 0
      /\ \A j \in DOMAIN calls : j # i /\ Taken(calls[j]) => Got(j)' \/ j \in Range(b.file.mails)
  BY <1>4, <1>6 DEF Secured
<1>8. CASE c.got = <<"SentDirectly">>
  <2>1. calls' = [calls EXCEPT ![i] = Done(c, c.got)] /\ store' = store
    BY <1>8 DEF DirectReturns, servers
  <2>2. Request(Done(c, c.got)) /\ Done(c, c.got).stage = "done" /\ Done(c, c.got).waiting = {}
    BY <1>3, <1>5, DoneType
  <2>3. Got(i)'
    BY <1>1, <1>4, <1>6, <1>8 DEF Secured, Sent
  <2>4. Rest(b, store', uneven')
    BY <1>1, <1>4, <2>1
  <2> HIDE DEF c
  <2> QED BY <1>0, <1>1, <1>3, <1>7, <2>1, <2>2, <2>3, <2>4, CallMail
<1>9. CASE c.got # <<"SentDirectly">>
  <2> DEFINE r == Replicating(c, res.ans)
  <2>1. store' = [store EXCEPT ![c.at] = res.pf] /\ calls' = [calls EXCEPT ![i] = r]
    BY <1>9 DEF DirectReturns
  <2>2. store[c.at] \in Profile /\ Same(store[c.at], b, c.at, uneven)
    BY <1>3, <1>4 DEF ProfileTypes, Rest
  <2>3. res.ans # <<"SentDirectly">> /\ Readable(c.kind, res.ans)
    <3>1. res = Outcome(c, i, store[c.at])
      BY <1>5 DEF Outcome
    <3> HIDE DEF res, c
    <3> QED BY <1>3, <2>2, <3>1, OutcomeType
  <2>4. /\ Request(r) /\ r.kind = c.kind /\ r.stage = "repl" /\ r.result = <<>>
        /\ r.waiting = Servers \ {c.at} /\ r.answers = {<<c.at, res.ans>>}
        /\ r.nonce = c.nonce /\ r.changes = c.changes /\ r.root = c.root
    <3> HIDE DEF res, c
    <3> QED BY <1>3, <2>3, ReplicatingType
  <2>5. /\ Same(store'[c.at], Outcome(c, i, b).pf, c.at, uneven')
        /\ c.kind # "vault" /\ c.at \notin uneven' => res.ans = Outcome(c, i, b).ans
    <3>1. res = Outcome(c, i, store[c.at])
      BY <1>5 DEF Outcome
    <3>2. store'[c.at] = res.pf
      BY <1>3, <2>1 DEF ProfileTypes
    <3> HIDE DEF res, c
    <3> QED BY <1>1, <1>3, <2>2, <3>1, <3>2, OutcomeSame
  <2>6. \A s \in Servers : s # c.at => store'[s] = store[s]
    BY <1>3, <2>1 DEF ProfileTypes
  <2>7. Spread(c, i, Servers, {}, b, store, uneven)
    BY <1>4, SpreadFirst
  <2> HIDE DEF res, c, r
  <2>8. Spread(c, i, Servers \ {c.at}, {} \cup {<<c.at, res.ans>>}, b, store', uneven')
    BY <1>1, <1>3, <2>5, <2>6, <2>7, SpreadOn
  <2>9. Spread(r, i, r.waiting, r.answers, b, store', uneven')
    <3>1. {} \cup {<<c.at, res.ans>>} = {<<c.at, res.ans>>}
      OBVIOUS
    <3>2. Spread(c, i, r.waiting, r.answers, b, store', uneven')
      BY <2>4, <2>8, <3>1
    <3> QED BY <2>4, <3>2, SpreadOf
  <2>10. ~Taken(r) /\ ~Sent(r)
    BY <2>4 DEF Taken, Sent
  <2> QED BY <1>0, <1>1, <1>3, <1>7, <2>1, <2>4, <2>9, <2>10, CallMail
<1> QED BY <1>8, <1>9

\* A replica does not take the sender of a mail for the user itself.
LEMMA NotToSelf ==
    ASSUME ProfileTypes, NEW s \in Servers, NEW i, NEW x, NEW c, Request(c)
    PROVE  ~ (c.kind = "mail" /\ Handled(s, i, c, Remote(x)).ans = <<"SendingToSelf">>)
<1> SUFFICES ASSUME c.kind = "mail" PROVE MailHandled(s, i, Remote(x)).ans # <<"SendingToSelf">>
  BY DEF Handled
<1>1. online[s] # Offline /\ online[s][1] = "local" => online[s] # Remote(x)
  BY DEF Remote
<1>2. AppendMail(store[s], i).ans # <<"SendingToSelf">>
  <2>1. AppendMail(store[s], i).ans \in {<<"Ok">>, <<"MailboxFull">>}
    BY DEF AppendMail, Err
  <2> QED BY <2>1
<1> QED BY <1>1, <1>2 DEF MailHandled

LEMMA ReplicaMail ==
    ASSUME MailInv, NEW i, NEW t, Replica(i, t)
    PROVE  MailInv'
<1> DEFINE c == calls[i]
           h == Handled(t, i, c, Remote(c.at))
           w == c.waiting \ {t}
           d == [c EXCEPT !.waiting = w]
           e == [d EXCEPT !.answers = c.answers \cup {<<t, h.ans>>}]
<1> SUFFICES ASSUME Orderly' PROVE MailInv'
  BY ReplicaTypes DEF MailInv
<1>0. ProfileTypes /\ ProfileTypes'
  BY ReplicaTypes DEF MailInv
<1>1. /\ Apply(t, i, h, {<<"SentDirectly">>}) /\ UNCHANGED <<received, gone>>
      /\ i \in DOMAIN calls /\ t \in c.waiting /\ suffered \subseteq suffered'
  BY Faulted DEF Replica
<1>2. Orderly
  BY <1>1, OrderlyBefore DEF Apply
<1>3. c.stage # "done"
  BY <1>1, <1>2 DEF MailInv, InTurn
<1>4. /\ ProfileTypes /\ Requests(calls) /\ Request(c) /\ i \in Nat /\ InTurn(calls)
      /\ c.at \in Servers /\ c.result = <<>> /\ i = Len(calls)
  BY <1>1, <1>2, <1>3, UnderWayCall
<1>5. c.stage = "repl" /\ t \in Servers
  BY <1>1, <1>3, <1>4 DEF Request
<1>6. PICK b \in Profile : Secured(b) /\ Spread(c, i, c.waiting, c.answers, b, store, uneven)
  BY <1>1, <1>2, <1>5, UnderWayCall
<1>7. calls' = [calls EXCEPT ![i] = e]
  <2>1. d.answers = c.answers
    BY <1>4 DEF Request
  <2>2. calls' = [calls EXCEPT ![i] = [d EXCEPT !.answers = @ \cup {<<t, h.ans>>}]]
    BY <1>3 DEF Replica
  <2> HIDE DEF d, c, h
  <2> QED BY <2>1, <2>2
<1>8. /\ AsAll(h, c, i, store[t]) \/ Pushes(h, c, store[t]) \/ Refuses(h, c, store[t])
      /\ h.push = "pushed" => Push(t) = "pushed"
      /\ Readable(c.kind, h.ans)
  <2>1. Remote(c.at) \in Places
    BY <1>4 DEF Places
  <2> HIDE DEF c
  <2> QED BY <1>0, <1>4, <1>5, <2>1, HandledWays, HandledTypes
<1>9. \/ AsAll(h, c, i, store[t])
      \/ c.kind = "mail" /\ h.pf = store[t] /\ h.ans \in {<<"SentDirectly">>}
  <2>1. ~Refuses(h, c, store[t])
    BY <1>0, <1>4, <1>5, NotToSelf DEF Refuses
  <2> HIDE DEF h, c
  <2> QED BY <1>8, <2>1 DEF Pushes
<1> HIDE DEF h
<1>10. /\ DOMAIN e = DOMAIN c /\ e.waiting = w /\ e.answers = c.answers \cup {<<t, h.ans>>}
       /\ \A x \in DOMAIN c : x \notin {"waiting", "answers"} => e[x] = c[x]
  BY <1>4 DEF Request
<1> HIDE DEF c, d, e
<1>11. Request(e) /\ e.stage = "repl" /\ e.result = <<>>
  <2>1. \A a \in e.answers : a \in c.answers \/ a[2] = h.ans
    BY <1>10
  <2>2. \A a \in e.answers : Readable(c.kind, a[2])
    BY <1>4, <1>8, <2>1 DEF Request
  <2>3. e.kind = c.kind /\ e.stage = "repl" /\ e.result = <<>> /\ e.at = c.at /\ e.nonce = c.nonce
        /\ e.changes = c.changes /\ e.root = c.root
    BY <1>4, <1>5, <1>10 DEF Request
  <2>4. e.waiting \subseteq c.waiting
    BY <1>10
  <2> QED BY <1>4, <1>5, <1>10, <2>2, <2>3, <2>4 DEF Request
<1>12. (\A j : Got(j) => Got(j)')
  BY <1>0, <1>1, <1>4, <1>5, <1>8, EventsStay
<1>13. /\ Same(store'[t], Outcome(c, i, b).pf, t, uneven')
       /\ c.kind # "vault" /\ t \notin uneven' => h.ans = Outcome(c, i, b).ans
       /\ \A s \in Servers : s # t => store'[s] = store[s]
       /\ uneven \subseteq uneven'
  <2>1. Same(store[t], b, t, uneven)
    BY <1>1, <1>6 DEF Spread
  <2> QED BY <1>0, <1>1, <1>4, <1>5, <1>9, <2>1, HandledSame
<1>14. Spread(c, i, w, e.answers, b, store', uneven')
  <2>1. c.waiting \subseteq Servers
    BY <1>4 DEF Request
  <2>2. Spread(c, i, c.waiting \ {t}, c.answers \cup {<<t, h.ans>>}, b, store', uneven')
    BY <1>1, <1>5, <1>6, <1>13, <2>1, SpreadOn
  <2> QED BY <1>10, <2>2
<1>15. Spread(e, i, e.waiting, e.answers, b, store', uneven')
  <2>1. e.kind = c.kind /\ e.nonce = c.nonce /\ e.changes = c.changes /\ e.root = c.root
    BY <1>4, <1>10 DEF Request
  <2> QED BY <1>10, <1>14, <2>1, SpreadOf
<1>16. ~Taken(e) /\ ~Sent(e)
  BY <1>11 DEF Taken, Sent
<1>17. /\ b.file.hole % 2 = 0 /\ b.file.cursor % 2 = 0
       /\ \A j \in DOMAIN calls : j # i /\ Taken(calls[j]) => Got(j)' \/ j \in Range(b.file.mails)
  BY <1>6, <1>12 DEF Secured
<1>18. calls[i].stage # "done"
  BY <1>3 DEF c
<1> QED BY <1>0, <1>1, <1>4, <1>7, <1>11, <1>15, <1>16, <1>17, <1>18, CallMail
\* What the user gets of the answer.
LEMMA ReturnedGot ==
    ASSUME ProfileTypes, NEW i, NEW result, Returned(i, result), Readable(calls[i].kind, result)
    PROVE  /\ \A j : Got(j) => Got(j)'
           /\ calls[i].kind = "read" /\ result[1] = "Ok" =>
                 \A j \in Range(Unpacked(result[2], result[3])) : Got(j)'
<1> DEFINE mail == IF calls[i].kind = "read" /\ result[1] = "Ok" THEN Unpacked(result[2], result[3]) ELSE <<>>
<1>1. /\ session' = session
      /\ \/ received' = received \o mail /\ gone' = gone
         \/ received' = received /\ gone' = gone \cup Range(mail)
  BY DEF Returned
<1>3. mail \in Seq(Nat)
  BY EmptySeq DEF Unpacked, Readable
<1>4. calls[i].kind = "read" /\ result[1] = "Ok" => Unpacked(result[2], result[3]) = mail
  OBVIOUS
<1> HIDE DEF mail
<1>2. Range(received \o mail) = Range(received) \cup Range(mail)
  <2>1. received \in Seq(Nat)
    BY DEF ProfileTypes
  <2>2. /\ DOMAIN received = 1 .. Len(received) /\ DOMAIN mail = 1 .. Len(mail)
        /\ Len(received) \in Nat /\ Len(mail) \in Nat
        /\ DOMAIN (received \o mail) = 1 .. Len(received) + Len(mail)
        /\ \A k \in 1 .. Len(received) + Len(mail) :
               (received \o mail)[k] = IF k <= Len(received) THEN received[k] ELSE mail[k - Len(received)]
    BY <1>3, <2>1, ConcatProperties, LenProperties
  <2>3. ASSUME NEW k \in 1 .. Len(received) + Len(mail)
        PROVE  (received \o mail)[k] \in Range(received) \cup Range(mail)
    <3>1. CASE k <= Len(received)
      <4>1. k \in DOMAIN received /\ (received \o mail)[k] = received[k]
        BY <2>2, <3>1
      <4> QED BY <4>1 DEF Range
    <3>2. CASE ~ k <= Len(received)
      <4>1. k - Len(received) \in DOMAIN mail /\ (received \o mail)[k] = mail[k - Len(received)]
        BY <2>2, <3>2
      <4> QED BY <4>1 DEF Range
    <3> QED BY <3>1, <3>2
  <2>4. ASSUME NEW k \in 1 .. Len(received)
        PROVE  received[k] \in Range(received \o mail)
    <3>1. k \in 1 .. Len(received) + Len(mail) /\ (received \o mail)[k] = received[k]
      BY <2>2
    <3> QED BY <2>2, <3>1 DEF Range
  <2>5. ASSUME NEW k \in 1 .. Len(mail)
        PROVE  mail[k] \in Range(received \o mail)
    <3>1. k + Len(received) \in 1 .. Len(received) + Len(mail) /\ (received \o mail)[k + Len(received)] = mail[k]
      BY <2>2
    <3> QED BY <2>2, <3>1 DEF Range
  <2> QED BY <2>2, <2>3, <2>4, <2>5 DEF Range
<1>5. \A j \in Range(mail) : Got(j)'
  BY <1>1, <1>2 DEF Got
<1>6. \A j : Got(j) => Got(j)'
  BY <1>1, <1>2 DEF Got, Queued
<1> QED BY <1>4, <1>5, <1>6

LEMMA FinishMail ==
    ASSUME MailInv, RF % 2 = 0, NEW i, Finish(i)
    PROVE  MailInv'
<1> DEFINE c == calls[i]
           result == Picked(c.answers)
           d == Done(c, <<result[1]>>)
<1> SUFFICES ASSUME Orderly' PROVE MailInv'
  BY ReturnedTypes DEF MailInv
<1>0. ProfileTypes /\ ProfileTypes'
  BY ReturnedTypes DEF MailInv
<1>1. /\ Returned(i, result) /\ i \in DOMAIN calls /\ c.waiting = {} /\ c.stage = "repl"
      /\ suffered \subseteq suffered'
  BY Faulted DEF Finish
<1>2. uneven' = uneven /\ store' = store /\ calls' = [calls EXCEPT ![i] = d]
  BY <1>1 DEF Returned, servers
<1>3. Orderly
  BY <1>1, <1>2, OrderlyBefore
<1>4. /\ Requests(calls) /\ Request(c) /\ i \in Nat /\ InTurn(calls) /\ i = Len(calls)
  BY <1>1, <1>3, UnderWayCall
<1>5. PICK b \in Profile : Secured(b) /\ Spread(c, i, {}, c.answers, b, store, uneven)
  BY <1>1, <1>3, UnderWayCall
<1> DEFINE o == Outcome(c, i, b)
<1>6. c.kind # "vault" => result = o.ans
  <2> SUFFICES ASSUME c.kind # "vault" PROVE result = o.ans
    OBVIOUS
  <2>1. PICK f : /\ c.answers = {<<s, f[s]>> : s \in Servers \ {}}
                 /\ \A s \in Servers \ ({} \cup uneven) : f[s] = o.ans
    BY <1>5 DEF Spread, Given
  <2>2. c.answers = {<<s, f[s]>> : s \in Servers} /\ \A s \in Servers \ uneven : f[s] = o.ans
    BY <2>1
  <2>3. Cardinality(Servers \ uneven) > RF \div 2
    BY <1>3 DEF Orderly
  <2> DEFINE G == Servers \ uneven
             A == c.answers
  <2>4. G \subseteq Servers /\ (\A s \in G : f[s] = o.ans) /\ A = AnswersOf(f)
        /\ Cardinality(G) > RF \div 2
    BY <2>2, <2>3 DEF AnswersOf
  <2> HIDE DEF o, c, G, A
  <2>5. Picked(A) = o.ans
    BY <2>4, MajorityPicked
  <2> QED BY <2>5 DEF A
<1>7. /\ o.pf \in Profile /\ o.pf.file.hole % 2 = 0 /\ o.pf.file.cursor % 2 = 0
      /\ Readable(c.kind, o.ans)
  <2>1. MailLen % 2 = 0 /\ b.file.hole % 2 = 0 /\ b.file.cursor % 2 = 0
    BY <1>3, <1>5 DEF Orderly, Secured
  <2> HIDE DEF c
  <2> QED BY <1>4, <2>1, OutcomeType, OutcomeEven
<1>8. Rest(o.pf, store', uneven')
  BY <1>2, <1>5, SpreadLast
<1>9. /\ Request(d) /\ d.stage = "done" /\ d.waiting = {} /\ d.kind = c.kind
      /\ d.result = <<result[1]>>
  <2> HIDE DEF c, result
  <2> QED BY <1>1, <1>4, DoneType
<1>10. Readable(c.kind, result)
  <2> HIDE DEF c, result, o
  <2> QED BY <1>6, <1>7 DEF Readable
<1>11. \A j : Got(j) => Got(j)'
  BY <1>0, <1>1, <1>10, ReturnedGot
<1>12. ASSUME NEW j \in DOMAIN calls, j # i, Taken(calls[j])
       PROVE  Got(j)' \/ j \in Range(o.pf.file.mails)
  <2>1. Got(j) \/ j \in Range(b.file.mails)
    BY <1>5, <1>12 DEF Secured
  <2>2. CASE Got(j)
    BY <1>11, <2>2
  <2>3. CASE j \in Range(b.file.mails) /\ c.kind # "read"
    <3>1. c.kind \in {"mail", "vault"}
      BY <1>4, <2>3 DEF Request
    <3> HIDE DEF c
    <3> QED BY <1>4, <2>3, <3>1, OutcomeMails
  <2>4. CASE j \in Range(b.file.mails) /\ c.kind = "read"
    <3>1. c.nonce \in Nat /\ o = ReadMail(b, c.nonce)
      BY <1>4, <2>4 DEF Request, Outcome
    <3>2. CASE o.pf = b
      BY <2>4, <3>2
    <3>3. CASE o.pf # b
      <4>1. o.ans = <<"Ok", IF b.file.mails = <<>> THEN 0 ELSE b.file.hole, b.file.mails>>
        BY <3>1, <3>3, MailRead
      <4>2. result = <<"Ok", IF b.file.mails = <<>> THEN 0 ELSE b.file.hole, b.file.mails>>
        BY <1>6, <2>4, <4>1
      <4>3. b.file.hole % 2 = 0 /\ 0 % 2 = 0
        BY <1>5 DEF Secured
      <4> HIDE DEF result, c, o
      <4>4. result[1] = "Ok" /\ Unpacked(result[2], result[3]) = b.file.mails
        BY <4>2, <4>3 DEF Unpacked
      <4>5. \A k \in Range(b.file.mails) : Got(k)'
        BY <1>0, <1>1, <1>10, <2>4, <4>4, ReturnedGot DEF c
      <4> QED BY <2>4, <4>5
    <3> QED BY <3>2, <3>3
  <2> QED BY <2>1, <2>2, <2>3, <2>4
<1>13. ASSUME Taken(d)
       PROVE  i \in Range(o.pf.file.mails)
  <2>1. c.kind = "mail" /\ <<result[1]>> \in {<<"Ok">>, <<"SentDirectly">>}
    BY <1>9, <1>13 DEF Taken
  <2>2. o.ans \in {<<"Ok">>, <<"MailboxFull">>} /\ (o.ans = <<"Ok">> => i \in Range(o.pf.file.mails))
    <3> HIDE DEF c
    <3> QED BY <1>4, <2>1, OutcomeMails
  <2>3. result = o.ans
    BY <1>6, <2>1
  <2> HIDE DEF result, o, c
  <2>4. result # <<"MailboxFull">>
    BY <2>1
  <2> QED BY <2>2, <2>3, <2>4
<1>14. ~Sent(d) /\ d.stage # "repl" /\ calls[i].stage # "done"
  BY <1>1, <1>9 DEF Sent
<1> HIDE DEF d, o, result, c
<1> QED BY <1>0, <1>1, <1>2, <1>4, <1>7, <1>8, <1>9, <1>12, <1>13, <1>14, CallMail

\* What is excepted: a server that fails, one that is late or out of reach, and the
\* calls of another client.
LEMMA FaultyMail ==
    ASSUME MailInv, ProfileTypes', NEW s, NEW i,
           \/ Restart(s) \/ Evict(s) \/ Crash(i, s) \/ DirectFails(i) \/ Timeout(i) \/ Unreachable(i, s)
           \/ \E ks : WriteVault(s, ks)
    PROVE  MailInv'
<1>1. PICK kind \in {"restart", "crash", "unreachable", "timeout", "other"} : Fault(kind)
  BY DEF Restart, Evict, Crash, DirectFails, Timeout, Unreachable, WriteVault
<1>2. ~Orderly'
  BY <1>1, OrderlyFaults
<1> QED BY <1>2 DEF MailInv

LEMMA MailInvInit == Init => MailInv
<1> SUFFICES ASSUME Init PROVE MailInv
  OBVIOUS
<1>1. ProfileTypes
  BY ProfileTypesInit
<1>2. calls = <<>> /\ store = [s \in Servers |-> Created] /\ uneven = {}
  BY DEF Init
<1>3. DOMAIN calls = {}
  BY <1>2
<1>4. Created \in Profile /\ Created.file.hole % 2 = 0 /\ Created.file.cursor % 2 = 0
  <2>1. <<>> \in Seq(Nat)
    BY EmptySeq
  <2> QED BY <2>1 DEF Created, EmptyFile, EmptyVault, Profile, Mailbox
<1>5. Base(Created, calls, store, uneven) /\ Secured(Created)
  BY <1>2, <1>3, <1>4 DEF Base, Active, Rest, Same, Secured
<1> QED BY <1>1, <1>3, <1>5 DEF MailInv, InTurn

LEMMA MailInvStep ==
    ASSUME MailInv, RF % 2 = 0, [Next]_vars
    PROVE  MailInv'
<1>0. ProfileTypes'
  BY ProfileTypesStep, ProfileTypesStutter DEF MailInv
<1>1. CASE \E s \in Servers : \E o \in {Somebody} \cup {Local(p) : p \in Paths} : SendMail(s, o)
  BY <1>1, SendMailMail
<1>2. CASE \E p \in Paths : \/ \E s \in Servers : Connect(p, s)
                            \/ Subscribe(p) \/ Unsubscribe(p) \/ DeliverEvent(p) \/ Hangup(p) \/ Forget(p)
  <2>1. Servers # {}
    BY GroupAssumption, FS_EmptySet, SMT
  <2> QED BY <1>2, <2>1, VisitMail
<1>3. CASE \E i \in 1 .. MaxCalls : \/ DirectMail(i) \/ DirectFails(i) \/ DirectReturns(i)
                                    \/ Finish(i) \/ Timeout(i)
  BY <1>0, <1>3, DirectMailMail, DirectReturnsMail, FinishMail, FaultyMail
<1>4. CASE \E i \in 1 .. MaxCalls : \E t \in Servers : Replica(i, t) \/ Unreachable(i, t) \/ Crash(i, t)
  BY <1>0, <1>4, ReplicaMail, FaultyMail
<1>5. CASE \E s \in Servers : Restart(s) \/ Evict(s) \/ \E k \in Keys : WriteVault(s, {k})
  BY <1>0, <1>5, FaultyMail
<1>6. CASE \E p \in Paths : ReadMailbox(p) \/ SaveVault(p, {}) \/ \E k \in Keys : SaveVault(p, {k})
  BY <1>6, UserMail
<1>7. CASE (\E p \in Paths : Login(p)) \/ \E k \in Keys : Defer(k)
  BY <1>0, <1>7, ClientMail
<1>8. CASE UNCHANGED vars
  BY <1>0, <1>8, QuietMail DEF vars, Got, Queued
<1>9. Next \/ UNCHANGED vars
  OBVIOUS
<1> QED BY <1>1, <1>2, <1>3, <1>4, <1>5, <1>6, <1>7, <1>8, <1>9 DEF Next

LEMMA MailInvImplies ==
    ASSUME MailInv
    PROVE  MailNotLost
<1> SUFFICES ASSUME Orderly, NEW i \in DOMAIN calls, Taken(calls[i]), ~Got(i), ~Reading
             PROVE  Cardinality(Holding(i)) > RF \div 2
  BY DEF MailNotLost, Orderly, Taken, Got
<1>1. PICK b : InTurn(calls) /\ Base(b, calls, store, uneven) /\ Secured(b)
  BY DEF MailInv
<1>2. i \in Range(b.file.mails)
  BY <1>1 DEF Secured
<1>3. \A s \in Servers \ uneven : i \in Range(store[s].file.mails)
  <2>1. CASE ~Active(calls)
    BY <1>1, <1>2, <2>1 DEF Base, Rest, Same
  <2>2. CASE Active(calls)
    <3> DEFINE c == calls[Len(calls)]
    <3>1. Request(c) /\ Len(calls) \in DOMAIN calls /\ Len(calls) \in Nat /\ c.stage = "repl"
      BY <2>2, CallsAre DEF MailInv, ProfileTypes, Active
    <3>2. c.kind \in {"mail", "vault"}
      BY <3>1 DEF Reading, InCall, Request
    <3>3. Spread(c, Len(calls), c.waiting, c.answers, b, store, uneven) /\ b \in Profile
      BY <1>1, <2>2 DEF Base
    <3> HIDE DEF c
    <3>4. i \in Range(Outcome(c, Len(calls), b).pf.file.mails)
      BY <1>2, <3>1, <3>2, <3>3, OutcomeMails
    <3> QED BY <1>2, <3>3, <3>4 DEF Spread, Same
  <2> QED BY <2>1, <2>2
<1>4. Servers \ uneven \subseteq Holding(i) /\ Holding(i) \subseteq Servers
  BY <1>3 DEF Holding
<1>5. IsFiniteSet(Holding(i))
  BY <1>4, FS_Subset, GroupAssumption
<1>6. /\ Cardinality(Servers \ uneven) <= Cardinality(Holding(i)) /\ Cardinality(Holding(i)) \in Nat
      /\ Cardinality(Servers \ uneven) \in Nat
  BY <1>4, <1>5, FS_Subset, FS_CardinalityType
<1>7. RF \div 2 \in Nat
  BY GroupAssumption
<1> QED BY <1>6, <1>7 DEF Orderly

\* No mail is lost: a mail that was taken is with the user, or on its way to it, or a
\* majority of the mailboxes has it, for every group of an odd number of servers, whatever
\* number of calls, sessions and mails there is.
THEOREM MailIsNotLost ==
    ASSUME RF % 2 = 0
    PROVE  Spec => []MailNotLost
<1>1. Init => MailInv
  BY MailInvInit
<1>2. MailInv /\ [Next]_vars => MailInv'
  BY MailInvStep
<1>3. MailInv => MailNotLost
  BY MailInvImplies
<1> QED BY <1>1, <1>2, <1>3, PTL DEF Spec
-----------------------------------------------------------------------------
(***************************************************************************)
(* No mail comes twice.  A mail may be in one mailbox twice, that of the   *)
(* server where the user was last, so more than half of the answers to     *)
(* read_mail are never alike with a mail twice, and all servers agree on   *)
(* where the user is, so a mail that is pushed is not stored as well.      *)
(***************************************************************************)
Steady == suffered \subseteq {"defer", "edit", "login"}

\* Where the servers in S believe the user to be: in session p of s.  Everyone does, or
\* nobody knows; while a mail is stored nobody has the user.
Pinned(on, S, s, p) == \A t \in S : on[t] = IF t = s THEN Local(p) ELSE Remote(s)
Settled(on) == \/ \A s \in Servers : on[s] = Offline
               \/ \E s \in Servers, p \in Paths : Pinned(on, Servers, s, p)
Away(on) == \A s \in Servers : on[s] # Offline => on[s][1] = "remote"

\* The ways to the user: what it has got, and what is queued in its sessions.
Ways == [a \in {0} \cup Paths |-> IF a = 0 THEN received ELSE session[a].events]

\* The mails of the first n calls in the ways w and the mailboxes v.
Twice(q, m) == \E j, k \in DOMAIN q : j # k /\ q[j] = m /\ q[k] = m
Distinct(w) == \A a, b \in DOMAIN w : \A j \in DOMAIN w[a], k \in DOMAIN w[b] :
                   w[a][j] = w[b][k] => a = b /\ j = k
Unsent(m, w) == \A a \in DOMAIN w : m \notin Range(w[a])
Neat(w, v, n) ==
    /\ w \in [{0} \cup Paths -> Seq(Nat)] /\ v \in [Servers -> Seq(Nat)]
    /\ Distinct(w)
    /\ \A a \in DOMAIN w : \A m \in Range(w[a]) : m \in 1 .. n
    /\ \A s \in Servers : \A m \in Range(v[s]) : m \in 1 .. n /\ Unsent(m, w)
    /\ \A s, t \in Servers : \A m : Twice(v[s], m) /\ Twice(v[t], m) => s = t

Absent(i, w, v) == Unsent(i, w) /\ \A s \in Servers : i \notin Range(v[s])

\* Mail i is being stored, and the servers in p are still to do so.  One may have it before,
\* where it was sent directly.
Storing(i, p, w, v) ==
    /\ Unsent(i, w)
    /\ \E x \in Servers : \A s \in Servers \ {x} : ~Twice(v[s], i) /\ (s \in p => i \notin Range(v[s]))

-----------------------------------------------------------------------------
LEMMA MailPut ==
    ASSUME NEW q \in Seq(Nat), NEW i \in Nat
    PROVE  LET r == Append(q, i)
           IN  /\ r \in Seq(Nat) /\ Range(r) = Range(q) \cup {i}
               /\ DOMAIN q = 1 .. Len(q) /\ Len(q) \in Nat
               /\ DOMAIN r = 1 .. Len(q) + 1 /\ r[Len(q) + 1] = i
               /\ \A k \in 1 .. Len(q) : r[k] = q[k]
               /\ \A m : m # i /\ Twice(r, m) => Twice(q, m)
               /\ i \notin Range(q) => ~Twice(r, i)
<1> DEFINE r == Append(q, i)
<1>1. /\ r \in Seq(Nat) /\ DOMAIN q = 1 .. Len(q) /\ Len(q) \in Nat
      /\ DOMAIN r = 1 .. Len(q) + 1 /\ r[Len(q) + 1] = i
      /\ \A k \in 1 .. Len(q) : r[k] = q[k]
  BY AppendProperties, LenProperties
<1> HIDE DEF r
<1>2. \A k \in DOMAIN r : k = Len(q) + 1 \/ (k \in DOMAIN q /\ r[k] = q[k])
  <2>1. Len(q) \in Nat /\ DOMAIN r = 1 .. Len(q) + 1
    BY <1>1
  <2> SUFFICES ASSUME NEW k \in DOMAIN r PROVE k = Len(q) + 1 \/ (k \in DOMAIN q /\ r[k] = q[k])
    OBVIOUS
  <2>2. k = Len(q) + 1 \/ k \in 1 .. Len(q)
    BY <2>1
  <2>3. k \in 1 .. Len(q) => k \in DOMAIN q /\ r[k] = q[k]
    BY <1>1
  <2> QED BY <2>2, <2>3
<1>3. Range(r) = Range(q) \cup {i}
  <2>1. \A k \in DOMAIN q : k \in DOMAIN r /\ r[k] = q[k]
    BY <1>1
  <2>2. Len(q) + 1 \in DOMAIN r
    BY <1>1
  <2> QED BY <1>1, <1>2, <2>1, <2>2, Zenon DEF Range
<1>4. ASSUME NEW m, m # i, Twice(r, m)
      PROVE  Twice(q, m)
  <2>1. PICK j, k \in DOMAIN r : j # k /\ r[j] = m /\ r[k] = m
    BY <1>4 DEF Twice
  <2>2. j \in DOMAIN q /\ k \in DOMAIN q /\ q[j] = m /\ q[k] = m
    BY <1>1, <1>2, <1>4, <2>1
  <2> QED BY <2>1, <2>2 DEF Twice
<1>5. ASSUME i \notin Range(q), Twice(r, i)
      PROVE  FALSE
  <2>1. PICK j, k \in DOMAIN r : j # k /\ r[j] = i /\ r[k] = i
    BY <1>5 DEF Twice
  <2>2. j \in DOMAIN q \/ k \in DOMAIN q
    BY <1>2, <2>1
  <2>3. \A l \in DOMAIN q : q[l] # i
    BY <1>5 DEF Range
  <2> QED BY <1>1, <1>2, <2>1, <2>2, <2>3
<1> QED BY <1>1, <1>3, <1>4, <1>5 DEF r

LEMMA OnlyThere ==
    ASSUME NEW w, Distinct(w), NEW a \in DOMAIN w, NEW b \in DOMAIN w,
           NEW j \in DOMAIN w[a], NEW k \in DOMAIN w[b], w[a][j] = w[b][k]
    PROVE  a = b /\ j = k
BY DEF Distinct

LEMMA NoMail ==
    /\ <<>> \in Seq(Nat) /\ Range(<<>>) = {} /\ DOMAIN <<>> = {}
    /\ \A m : ~Twice(<<>>, m)
<1>1. <<>> \in Seq(Nat) /\ DOMAIN <<>> = {}
  BY EmptySeq
<1> QED BY <1>1 DEF Range, Twice

\* One call more.
LEMMA NeatMore ==
    ASSUME NEW w, NEW v, NEW n \in Nat, Neat(w, v, n)
    PROVE  Neat(w, v, n + 1) /\ Absent(n + 1, w, v)
<1>1. \A m \in 1 .. n : m \in 1 .. n + 1 /\ m # n + 1
  OBVIOUS
<1>2. Neat(w, v, n + 1)
  BY <1>1 DEF Neat
<1> QED BY <1>1 DEF Neat, Absent, Unsent

\* A mail is stored.
LEMMA NeatStored ==
    ASSUME NEW w, NEW v, NEW n \in Nat, Neat(w, v, n), NEW i \in 1 .. n,
           NEW p, Storing(i, p, w, v), NEW s \in Servers, s \in p,
           NEW v2 \in [Servers -> Seq(Nat)], \A t \in Servers : t # s => v2[t] = v[t],
           v2[s] \in {v[s], Append(v[s], i)}
    PROVE  Neat(w, v2, n) /\ Storing(i, p \ {s}, w, v2)
<1>1. v[s] \in Seq(Nat) /\ i \in Nat
  BY DEF Neat
<1>2. /\ Range(v2[s]) \subseteq Range(v[s]) \cup {i}
      /\ \A m : m # i /\ Twice(v2[s], m) => Twice(v[s], m)
      /\ i \notin Range(v[s]) /\ ~Twice(v[s], i) => ~Twice(v2[s], i)
  <2>1. CASE v2[s] = v[s]
    BY <2>1
  <2>2. CASE v2[s] = Append(v[s], i)
    BY <1>1, <2>2, MailPut
  <2> QED BY <2>1, <2>2
<1>3. PICK x \in Servers : \A t \in Servers \ {x} : ~Twice(v[t], i) /\ (t \in p => i \notin Range(v[t]))
  BY DEF Storing
<1>4. \A t \in Servers \ {x} : ~Twice(v2[t], i) /\ (t \in p \ {s} => i \notin Range(v2[t]))
  BY <1>2, <1>3
<1>5. Unsent(i, w)
  BY DEF Storing
<1>6. Storing(i, p \ {s}, w, v2)
  BY <1>4, <1>5 DEF Storing
<1>7. \A t, u \in Servers : \A m : Twice(v2[t], m) /\ Twice(v2[u], m) => t = u
  <2> SUFFICES ASSUME NEW t \in Servers, NEW u \in Servers, NEW m, Twice(v2[t], m), Twice(v2[u], m)
               PROVE  t = u
    OBVIOUS
  <2>1. CASE m = i
    BY <1>4, <2>1
  <2>2. CASE m # i
    <3>1. Twice(v[t], m) /\ Twice(v[u], m)
      BY <1>2, <2>2
    <3> QED BY <3>1 DEF Neat
  <2> QED BY <2>1, <2>2
<1>8. \A t \in Servers : \A m \in Range(v2[t]) : m \in 1 .. n /\ Unsent(m, w)
  BY <1>2, <1>5 DEF Neat
<1> QED BY <1>6, <1>7, <1>8 DEF Neat

\* A mail is pushed.
LEMMA NeatPushed ==
    ASSUME NEW w, NEW v, NEW n \in Nat, Neat(w, v, n), NEW i \in 1 .. n, Absent(i, w, v),
           NEW p \in Paths, NEW w2, w2 = [w EXCEPT ![p] = Append(w[p], i)]
    PROVE  Neat(w2, v, n)
<1>1. w \in [{0} \cup Paths -> Seq(Nat)] /\ w[p] \in Seq(Nat) /\ i \in Nat /\ DOMAIN w = {0} \cup Paths
  BY DEF Neat
<1>2. DOMAIN w2 = DOMAIN w /\ w2[p] = Append(w[p], i) /\ \A a \in DOMAIN w : a # p => w2[a] = w[a]
  BY <1>1
<1>3. /\ w2[p] \in Seq(Nat) /\ Range(w2[p]) = Range(w[p]) \cup {i}
      /\ \A k \in DOMAIN w2[p] : \/ k = Len(w[p]) + 1 /\ w2[p][k] = i
                                 \/ k \in DOMAIN w[p] /\ w2[p][k] = w[p][k]
  <2>1. /\ w2[p] \in Seq(Nat) /\ Range(w2[p]) = Range(w[p]) \cup {i}
        /\ DOMAIN w[p] = 1 .. Len(w[p]) /\ Len(w[p]) \in Nat
        /\ DOMAIN w2[p] = 1 .. Len(w[p]) + 1 /\ w2[p][Len(w[p]) + 1] = i
        /\ \A k \in 1 .. Len(w[p]) : w2[p][k] = w[p][k]
    BY <1>1, <1>2, MailPut
  <2>2. \A k \in DOMAIN w2[p] : k = Len(w[p]) + 1 \/ k \in DOMAIN w[p]
    BY <2>1
  <2> QED BY <2>1, <2>2
<1>4. w2 \in [{0} \cup Paths -> Seq(Nat)]
  BY <1>1, <1>3
<1>5. \A a \in DOMAIN w : \A k \in DOMAIN w[a] : w[a][k] # i
  BY DEF Absent, Unsent, Range
<1>6. \A a \in DOMAIN w2 : \A k \in DOMAIN w2[a] :
          \/ k \in DOMAIN w[a] /\ w2[a][k] = w[a][k]
          \/ a = p /\ k = Len(w[p]) + 1 /\ w2[a][k] = i
  BY <1>2, <1>3
<1>7. Distinct(w2)
  BY <1>2, <1>5, <1>6 DEF Neat, Distinct
<1>8. \A a \in DOMAIN w2 : \A m \in Range(w2[a]) : m \in 1 .. n
  BY <1>2, <1>3 DEF Neat
<1>9. \A s \in Servers : \A m \in Range(v[s]) : m \in 1 .. n /\ Unsent(m, w2)
  BY <1>2, <1>3 DEF Neat, Absent, Unsent
<1> QED BY <1>4, <1>7, <1>8, <1>9 DEF Neat

\* The mailboxes are emptied; what was in two alike may go to the user.
LEMMA NeatRead ==
    ASSUME NEW w, NEW v, NEW n \in Nat, Neat(w, v, n),
           NEW v2 \in [Servers -> Seq(Nat)], \A s \in Servers : v2[s] = <<>>
    PROVE  /\ Neat(w, v2, n)
           /\ \A s, t \in Servers : s # t /\ v[s] = v[t] =>
                  Neat([w EXCEPT ![0] = w[0] \o v[s]], v2, n)
<1>1. \A s \in Servers : Range(v2[s]) = {} /\ \A m : ~Twice(v2[s], m)
  BY NoMail
<1>2. Neat(w, v2, n)
  BY <1>1 DEF Neat
<1>3. ASSUME NEW s \in Servers, NEW t \in Servers, s # t, v[s] = v[t]
      PROVE  Neat([w EXCEPT ![0] = w[0] \o v[s]], v2, n)
  <2> DEFINE w2 == [w EXCEPT ![0] = w[0] \o v[s]]
             l == Len(w[0])
  <2>1. w \in [{0} \cup Paths -> Seq(Nat)] /\ w[0] \in Seq(Nat) /\ v[s] \in Seq(Nat) /\ DOMAIN w = {0} \cup Paths
    BY DEF Neat
  <2>2. DOMAIN w2 = DOMAIN w /\ w2[0] = w[0] \o v[s] /\ \A a \in DOMAIN w : a # 0 => w2[a] = w[a]
    BY <2>1
  <2>3. /\ w2[0] \in Seq(Nat) /\ l \in Nat /\ DOMAIN w[0] = 1 .. l /\ DOMAIN v[s] = 1 .. Len(v[s])
        /\ Len(v[s]) \in Nat /\ DOMAIN w2[0] = 1 .. l + Len(v[s])
        /\ \A k \in 1 .. l + Len(v[s]) : w2[0][k] = IF k <= l THEN w[0][k] ELSE v[s][k - l]
    BY <2>1, <2>2, ConcatProperties, LenProperties
  <2> HIDE DEF w2, l
  <2>4. \A k \in DOMAIN w2[0] : \/ k \in DOMAIN w[0] /\ w2[0][k] = w[0][k]
                                \/ k - l \in DOMAIN v[s] /\ w2[0][k] = v[s][k - l]
    <3>1. \A k \in 1 .. l + Len(v[s]) : IF k <= l THEN k \in 1 .. l ELSE k - l \in 1 .. Len(v[s])
      BY <2>3
    <3> QED BY <2>3, <3>1
  <2>5. w2 \in [{0} \cup Paths -> Seq(Nat)]
    <3>1. w2 = [w EXCEPT ![0] = w[0] \o v[s]]
      BY DEF w2
    <3> QED BY <2>1, <2>2, <2>3, <3>1
  <2>6. \A a \in DOMAIN w2 : \A k \in DOMAIN w2[a] :
            \/ k \in DOMAIN w[a] /\ w2[a][k] = w[a][k]
            \/ a = 0 /\ k - l \in DOMAIN v[s] /\ w2[a][k] = v[s][k - l]
    BY <2>2, <2>4
  <2>7. \A j \in DOMAIN v[s] : /\ v[s][j] \in 1 .. n /\ \A a \in DOMAIN w : \A k \in DOMAIN w[a] : w[a][k] # v[s][j]
    BY DEF Neat, Unsent, Range
  <2>8. \A j, k \in DOMAIN v[s] : v[s][j] = v[s][k] => j = k
    <3> SUFFICES ASSUME NEW j \in DOMAIN v[s], NEW k \in DOMAIN v[s], v[s][j] = v[s][k], j # k
                 PROVE  FALSE
      OBVIOUS
    <3>1. Twice(v[s], v[s][j]) /\ Twice(v[t], v[s][j])
      BY <1>3 DEF Twice
    <3> QED BY <1>3, <3>1 DEF Neat
  <2>9. Distinct(w2)
    <3> SUFFICES ASSUME NEW a \in DOMAIN w2, NEW b \in DOMAIN w2, NEW j \in DOMAIN w2[a], NEW k \in DOMAIN w2[b],
                        w2[a][j] = w2[b][k]
                 PROVE  a = b /\ j = k
      BY DEF Distinct
    <3>1. CASE j \in DOMAIN w[a] /\ w2[a][j] = w[a][j] /\ k \in DOMAIN w[b] /\ w2[b][k] = w[b][k]
      <4>1. Distinct(w) /\ a \in DOMAIN w /\ b \in DOMAIN w /\ w[a][j] = w[b][k]
        BY <2>2, <3>1 DEF Neat
      <4> QED BY <3>1, <4>1, OnlyThere
    <3>2. CASE /\ a = 0 /\ j - l \in DOMAIN v[s] /\ w2[a][j] = v[s][j - l]
               /\ b = 0 /\ k - l \in DOMAIN v[s] /\ w2[b][k] = v[s][k - l]
      <4>1. j - l = k - l
        BY <2>8, <3>2
      <4> QED BY <2>3, <3>2, <4>1
    <3> QED BY <2>2, <2>6, <2>7, <3>1, <3>2
  <2>10. \A a \in DOMAIN w2 : \A m \in Range(w2[a]) : m \in 1 .. n
    <3> SUFFICES ASSUME NEW a \in DOMAIN w2, NEW k \in DOMAIN w2[a] PROVE w2[a][k] \in 1 .. n
      BY DEF Range
    <3>1. k \in DOMAIN w[a] => w[a][k] \in 1 .. n
      BY <2>2 DEF Neat, Range
    <3> QED BY <2>6, <2>7, <3>1
  <2> QED BY <1>1, <2>5, <2>9, <2>10 DEF Neat, w2
<1> QED BY <1>2, <1>3

\* The user takes the first event of a session; a session ends with its events.
LEMMA NeatTaken ==
    ASSUME NEW w, NEW v, NEW n \in Nat, Neat(w, v, n), NEW p \in Paths
    PROVE  /\ w[p] # <<>> => LET w2 == [w EXCEPT ![0] = Append(w[0], Head(w[p])), ![p] = Tail(w[p])]
                              IN  Neat(w2, v, n) /\ \A m : Unsent(m, w) => Unsent(m, w2)
           /\ LET w2 == [w EXCEPT ![p] = <<>>]
              IN  Neat(w2, v, n) /\ \A m : Unsent(m, w) => Unsent(m, w2)
<1>1. /\ w \in [{0} \cup Paths -> Seq(Nat)] /\ w[0] \in Seq(Nat) /\ w[p] \in Seq(Nat) /\ p # 0
      /\ DOMAIN w = {0} \cup Paths
  BY DEF Neat, Paths
<1>2. ASSUME w[p] # <<>>
      PROVE  LET w2 == [w EXCEPT ![0] = Append(w[0], Head(w[p])), ![p] = Tail(w[p])]
             IN  Neat(w2, v, n) /\ \A m : Unsent(m, w) => Unsent(m, w2)
  <2> DEFINE w2 == [w EXCEPT ![0] = Append(w[0], Head(w[p])), ![p] = Tail(w[p])]
             l == Len(w[0])
  <2>1. /\ Head(w[p]) = w[p][1] /\ 1 \in DOMAIN w[p] /\ w[p][1] \in Nat /\ Tail(w[p]) \in Seq(Nat)
        /\ \A k \in DOMAIN Tail(w[p]) : k + 1 \in DOMAIN w[p] /\ k + 1 # 1 /\ Tail(w[p])[k] = w[p][k + 1]
        /\ \A k \in DOMAIN Tail(w[p]) : k \in Nat
    <3>1. /\ DOMAIN w[p] = 1 .. Len(w[p]) /\ Len(w[p]) \in Nat \ {0} /\ Head(w[p]) = w[p][1] /\ Head(w[p]) \in Nat
          /\ Tail(w[p]) \in Seq(Nat)
          /\ DOMAIN Tail(w[p]) = 1 .. Len(w[p]) - 1 /\ \A k \in 1 .. Len(w[p]) - 1 : Tail(w[p])[k] = w[p][k + 1]
      BY <1>1, <1>2, HeadTailProperties, LenProperties, EmptySeq
    <3> QED BY <3>1
  <2>2. /\ DOMAIN w2 = DOMAIN w /\ w2[0] = Append(w[0], w[p][1]) /\ w2[p] = Tail(w[p])
        /\ \A a \in DOMAIN w : a # 0 /\ a # p => w2[a] = w[a]
    BY <1>1, <2>1
  <2>3. /\ w2[0] \in Seq(Nat) /\ l \in Nat /\ DOMAIN w[0] = 1 .. l
        /\ \A k \in DOMAIN w2[0] : \/ k \in DOMAIN w[0] /\ w2[0][k] = w[0][k]
                                   \/ k = l + 1 /\ w2[0][k] = w[p][1]
    <3>1. /\ w2[0] \in Seq(Nat) /\ DOMAIN w[0] = 1 .. l /\ l \in Nat
          /\ DOMAIN w2[0] = 1 .. l + 1 /\ w2[0][l + 1] = w[p][1]
          /\ \A k \in 1 .. l : w2[0][k] = w[0][k]
      <4> HIDE DEF w2
      <4> QED BY <1>1, <2>1, <2>2, MailPut
    <3> HIDE DEF w2, l
    <3>2. \A k \in DOMAIN w2[0] : k = l + 1 \/ k \in DOMAIN w[0]
      BY <3>1
    <3> QED BY <3>1, <3>2
  <2>4. w2 \in [{0} \cup Paths -> Seq(Nat)]
    BY <1>1, <2>1, <2>2, <2>3
  <2> HIDE DEF w2, l
  <2>5. \A a \in DOMAIN w2 : \A k \in DOMAIN w2[a] :
            \/ a # p /\ k \in DOMAIN w[a] /\ w2[a][k] = w[a][k]
            \/ a = 0 /\ k = l + 1 /\ w2[a][k] = w[p][1]
            \/ a = p /\ k \in Nat /\ k + 1 \in DOMAIN w[p] /\ k + 1 # 1 /\ w2[a][k] = w[p][k + 1]
    <3> SUFFICES ASSUME NEW a \in DOMAIN w2, NEW k \in DOMAIN w2[a]
                 PROVE  \/ a # p /\ k \in DOMAIN w[a] /\ w2[a][k] = w[a][k]
                        \/ a = 0 /\ k = l + 1 /\ w2[a][k] = w[p][1]
                        \/ a = p /\ k \in Nat /\ k + 1 \in DOMAIN w[p] /\ k + 1 # 1 /\ w2[a][k] = w[p][k + 1]
      OBVIOUS
    <3>1. CASE a = 0
      BY <1>1, <2>3, <3>1
    <3>2. CASE a = p
      BY <2>1, <2>2, <3>2
    <3>3. CASE a # 0 /\ a # p
      BY <2>2, <3>3
    <3> QED BY <3>1, <3>2, <3>3
  <2>6. Distinct(w2)
    <3> SUFFICES ASSUME NEW a \in DOMAIN w2, NEW b \in DOMAIN w2, NEW j \in DOMAIN w2[a], NEW k \in DOMAIN w2[b],
                        w2[a][j] = w2[b][k]
                 PROVE  a = b /\ j = k
      BY DEF Distinct
    <3>0. \A c, d \in DOMAIN w : \A x \in DOMAIN w[c], y \in DOMAIN w[d] : w[c][x] = w[d][y] => c = d /\ x = y
      BY DEF Neat, Distinct
    <3>1. CASE a # p /\ j \in DOMAIN w[a] /\ w2[a][j] = w[a][j]
      <4>1. CASE b # p /\ k \in DOMAIN w[b] /\ w2[b][k] = w[b][k]
        <5>1. w[a][j] = w[b][k] /\ a \in DOMAIN w /\ b \in DOMAIN w
          BY <2>2, <3>1, <4>1
        <5>2. j \in DOMAIN w[a] /\ k \in DOMAIN w[b] /\ Distinct(w)
          BY <3>1, <4>1 DEF Neat
        <5> QED BY <5>1, <5>2, OnlyThere
      <4>2. ~ (b = 0 /\ k = l + 1 /\ w2[b][k] = w[p][1])
        BY <1>1, <2>1, <2>2, <3>0, <3>1
      <4>3. ~ (b = p /\ k \in Nat /\ k + 1 \in DOMAIN w[p] /\ k + 1 # 1 /\ w2[b][k] = w[p][k + 1])
        BY <1>1, <2>2, <3>0, <3>1
      <4> QED BY <2>5, <4>1, <4>2, <4>3
    <3>2. CASE a = 0 /\ j = l + 1 /\ w2[a][j] = w[p][1]
      BY <1>1, <2>1, <2>2, <2>5, <3>0, <3>2
    <3>3. CASE a = p /\ j \in Nat /\ j + 1 \in DOMAIN w[p] /\ j + 1 # 1 /\ w2[a][j] = w[p][j + 1]
      <4>1. ~ (b # p /\ k \in DOMAIN w[b] /\ w2[b][k] = w[b][k])
        BY <1>1, <2>2, <3>0, <3>3
      <4>2. ~ (b = 0 /\ k = l + 1 /\ w2[b][k] = w[p][1])
        BY <1>1, <2>1, <2>2, <3>0, <3>3
      <4>3. b = p /\ k \in Nat /\ k + 1 \in DOMAIN w[p] /\ w2[b][k] = w[p][k + 1]
        BY <2>5, <4>1, <4>2
      <4>4. k + 1 = j + 1
        <5>1. w[p][k + 1] = w[p][j + 1]
          BY <3>3, <4>3
        <5>2. j + 1 \in DOMAIN w[p] /\ k + 1 \in DOMAIN w[p] /\ p \in DOMAIN w /\ Distinct(w)
          BY <1>1, <3>3, <4>3 DEF Neat
        <5> QED BY <5>1, <5>2, OnlyThere
      <4> QED BY <3>3, <4>3, <4>4
    <3> QED BY <2>5, <3>1, <3>2, <3>3
  <2>7. \A a \in DOMAIN w2 : \A m \in Range(w2[a]) : \E b \in DOMAIN w : m \in Range(w[b])
    <3> SUFFICES ASSUME NEW a \in DOMAIN w2, NEW k \in DOMAIN w2[a]
                 PROVE  \E b \in DOMAIN w : w2[a][k] \in Range(w[b])
      BY DEF Range
    <3> QED BY <1>1, <2>1, <2>2, <2>5 DEF Range
  <2>8. \A m : Unsent(m, w) => Unsent(m, w2)
    BY <2>7 DEF Unsent
  <2>9. Neat(w2, v, n)
    BY <2>4, <2>6, <2>7, <2>8 DEF Neat
  <2> QED BY <2>8, <2>9 DEF w2
<1>3. LET w2 == [w EXCEPT ![p] = <<>>]
      IN  Neat(w2, v, n) /\ \A m : Unsent(m, w) => Unsent(m, w2)
  <2> DEFINE w2 == [w EXCEPT ![p] = <<>>]
  <2>1. /\ DOMAIN w2 = DOMAIN w /\ w2[p] = <<>> /\ \A a \in DOMAIN w : a # p => w2[a] = w[a]
    BY <1>1
  <2>2. w2 \in [{0} \cup Paths -> Seq(Nat)]
    BY <1>1, NoMail
  <2> HIDE DEF w2
  <2>3. Distinct(w2)
    <3> SUFFICES ASSUME NEW a \in DOMAIN w2, NEW b \in DOMAIN w2, NEW j \in DOMAIN w2[a], NEW k \in DOMAIN w2[b],
                        w2[a][j] = w2[b][k]
                 PROVE  a = b /\ j = k
      BY DEF Distinct
    <3>1. a # p /\ b # p
      BY <2>1, NoMail
    <3>2. a \in DOMAIN w /\ b \in DOMAIN w /\ w2[a] = w[a] /\ w2[b] = w[b] /\ Distinct(w)
      BY <2>1, <3>1 DEF Neat
    <3> QED BY <3>2, OnlyThere
  <2>4. \A a \in DOMAIN w2 : Range(w2[a]) \subseteq Range(w[a])
    BY <2>1, NoMail
  <2>5. \A m : Unsent(m, w) => Unsent(m, w2)
    BY <2>1, <2>4 DEF Unsent
  <2>6. Neat(w2, v, n)
    BY <2>1, <2>2, <2>3, <2>4, <2>5 DEF Neat
  <2> QED BY <2>5, <2>6 DEF w2
<1> QED BY <1>2, <1>3

\* The profiles st between the calls: v are their mails, all have the same nonce.
Holds(v, st) == \A s \in Servers : v[s] = st[s].file.mails
Level(st) == \A s, t \in Servers : st[s].mail_action = st[t].mail_action
AtRest(v, st, on) == Holds(v, st) /\ Level(st) /\ Settled(on)

\* A read_mail that has a nonce newer than a: who answered has emptied the mailbox.
Collecting(c, v, st, on) ==
    /\ \A x \in c.answers : \E s \in Servers \ c.waiting : \E ans : x = <<s, ans>> /\ ans[1] = "Ok" /\ ans[3] = v[s]
    /\ \A s \in Servers \ c.waiting : st[s].file.mails = <<>> /\ st[s].mail_action = c.nonce
    /\ \E p \in Paths : Pinned(on, Servers \ c.waiting, c.at, p)
    /\ \E a \in Nat : a < c.nonce /\ \A s \in c.waiting : st[s].mail_action = a /\ v[s] = st[s].file.mails
\* A read_mail that all refuse.
Refused(c, v, st, on) ==
    /\ \A x \in c.answers : x[2] = <<"InvalidAction">>
    /\ AtRest(v, st, on) /\ \A s \in Servers : c.nonce <= st[s].mail_action

\* Call i is under way.
Handling(c, i, w, v, st, on) ==
    \/ /\ c.stage = "direct" /\ c.got = on[c.at] /\ Absent(i, w, v)
       /\ AtRest(v, st, on)
    \/ /\ c.stage = "back" /\ c.got = <<"SentDirectly">>
       /\ AtRest(v, st, on)
    \/ /\ c.stage = "back" /\ c.got # <<"SentDirectly">> /\ Storing(i, Servers, w, v)
       /\ Holds(v, st) /\ Level(st) /\ Away(on)
    \/ /\ c.stage = "repl" /\ c.kind = "mail" /\ Storing(i, c.waiting, w, v)
       /\ Holds(v, st) /\ Level(st) /\ Away(on)
       /\ \A s \in Servers \ c.waiting : on[s] = Offline
    \/ c.stage = "repl" /\ c.kind = "vault" /\ AtRest(v, st, on)
    \/ /\ c.stage = "repl" /\ c.kind = "read"
       /\ Collecting(c, v, st, on) \/ Refused(c, v, st, on)

Standing(w, v, cs, st, on) ==
    /\ Neat(w, v, Len(cs))
    /\ LET c == cs[Len(cs)]
       IN  IF cs = <<>> \/ c.stage = "done" THEN AtRest(v, st, on)
           ELSE Handling(c, Len(cs), w, v, st, on)

\* The inductive invariant of MailOnce.
OnceInv == /\ ProfileTypes
           /\ Steady => InTurn(calls) /\ \E v : Standing(Ways, v, calls, store, online)

-----------------------------------------------------------------------------
LEMMA SteadyFaults ==
    ASSUME Steady', NEW kind, Fault(kind)
    PROVE  kind \in {"defer", "edit", "login"} /\ Steady
BY DEF Steady, Fault

LEMMA SteadyBefore ==
    ASSUME Steady', suffered \subseteq suffered'
    PROVE  Steady
BY DEF Steady

\* Only others send mail, and no call is made while another one is under way.
LEMMA SteadyCall ==
    ASSUME ProfileTypes, Steady', NEW o, MayCall \/ MayMail(o)
    PROVE  /\ \A i \in DOMAIN calls : calls[i].stage = "done" /\ calls[i].waiting = {}
           /\ MayMail(o) => o = Somebody
           /\ Steady
<1>1. ~ UnderWay
  <2>1. UnderWay => Fault("overlap")
    BY DEF MayCall, MayMail
  <2> QED BY <2>1, SteadyFaults
<1>2. Steady
  BY Faulted, SteadyBefore
<1>3. MayMail(o) => o = Somebody
  <2>1. o = Somebody \/ ~MayMail(o) \/ Fault("self")
    BY <1>1 DEF MayMail
  <2> QED BY <2>1, SteadyFaults
<1>4. \A i \in DOMAIN calls : calls[i].stage = "done" /\ calls[i].waiting = {}
  BY <1>1, CallsAre DEF UnderWay, InCall, ProfileTypes, Request
<1> QED BY <1>2, <1>3, <1>4

LEMMA WaysType ==
    ASSUME ProfileTypes
    PROVE  /\ DOMAIN Ways = {0} \cup Paths /\ Ways[0] = received /\ 0 \notin Paths
           /\ Ways \in [{0} \cup Paths -> Seq(Nat)]
           /\ \A p \in Paths : Ways[p] = session[p].events
<1>1. 0 \notin Paths
  BY DEF Paths
<1>2. received \in Seq(Nat) /\ \A p \in Paths : session[p].events \in Seq(Nat)
  BY EventsType DEF ProfileTypes
<1> QED BY <1>1, <1>2 DEF Ways

\* Between the calls; while call i is under way.
LEMMA NoCallOnce ==
    ASSUME OnceInv, Steady, \A i \in DOMAIN calls : calls[i].stage = "done"
    PROVE  \E v : Neat(Ways, v, Len(calls)) /\ AtRest(v, store, online)
<1>1. PICK v : Standing(Ways, v, calls, store, online)
  BY DEF OnceInv
<1>2. calls = <<>> \/ calls[Len(calls)].stage = "done"
  BY CallsAre DEF OnceInv, ProfileTypes
<1> QED BY <1>1, <1>2 DEF Standing

LEMMA OneCallOnce ==
    ASSUME OnceInv, Steady, NEW i \in DOMAIN calls, calls[i].stage # "done"
    PROVE  /\ ProfileTypes /\ Requests(calls) /\ Request(calls[i]) /\ i \in Nat /\ i \in 1 .. i /\ i = Len(calls)
           /\ InTurn(calls) /\ calls[i].at \in Servers /\ calls[i].result = <<>>
           /\ \E v : Neat(Ways, v, i) /\ Handling(calls[i], i, Ways, v, store, online)
<1>1. ProfileTypes /\ Requests(calls) /\ InTurn(calls)
  BY DEF OnceInv, ProfileTypes
<1>2. Request(calls[i]) /\ i \in Nat /\ i \in 1 .. i /\ i = Len(calls) /\ calls # <<>>
  <2>1. DOMAIN calls = 1 .. Len(calls) /\ Len(calls) \in Nat /\ Request(calls[i]) /\ i = Len(calls)
    BY <1>1, CallsAre DEF InTurn
  <2> QED BY <2>1, EmptySeq
<1>3. PICK v : Standing(Ways, v, calls, store, online)
  BY DEF OnceInv
<1> QED BY <1>1, <1>2, <1>3 DEF Standing, Request

\* The invariant after a step in which a call is added; in which one changes.
LEMMA AddedOnce ==
    ASSUME ProfileTypes, ProfileTypes', NEW d, Request(d), d.stage = "done" => d.waiting = {},
           \A i \in DOMAIN calls : calls[i].stage = "done" /\ calls[i].waiting = {},
           calls' = Append(calls, d), NEW v, Neat(Ways', v, Len(calls) + 1),
           d.stage = "done" => AtRest(v, store', online'),
           d.stage # "done" => Handling(d, Len(calls) + 1, Ways', v, store', online')
    PROVE  OnceInv'
<1>1. /\ calls' # <<>> /\ Len(calls') = Len(calls) + 1 /\ calls'[Len(calls')] = d
  BY RequestAdded DEF ProfileTypes
<1>2. InTurn(calls')
  BY InTurnAdded DEF ProfileTypes
<1>3. Standing(Ways', v, calls', store', online')
  BY <1>1 DEF Standing
<1> QED BY <1>2, <1>3 DEF OnceInv

LEMMA ChangedOnce ==
    ASSUME ProfileTypes, ProfileTypes', InTurn(calls), NEW i \in DOMAIN calls, calls[i].stage # "done",
           NEW d, Request(d), d.stage = "done" => d.waiting = {}, calls' = [calls EXCEPT ![i] = d],
           NEW v, Neat(Ways', v, i),
           d.stage = "done" => AtRest(v, store', online'),
           d.stage # "done" => Handling(d, i, Ways', v, store', online')
    PROVE  OnceInv'
<1>1. i = Len(calls) /\ InTurn(calls')
  BY InTurnChanged DEF ProfileTypes
<1>2. calls' # <<>> /\ Len(calls') = i /\ calls'[i] = d
  BY <1>1, RequestChanged DEF ProfileTypes
<1>3. Standing(Ways', v, calls', store', online')
  BY <1>2 DEF Standing
<1> QED BY <1>1, <1>3 DEF OnceInv

\* Neither the calls nor the servers change.
LEMMA QuietOnce ==
    ASSUME OnceInv, ProfileTypes', UNCHANGED <<calls, store, online>>, suffered \subseteq suffered',
           \A v : Neat(Ways, v, Len(calls)) =>
                      Neat(Ways', v, Len(calls)) /\ \A m : Unsent(m, Ways) => Unsent(m, Ways')
    PROVE  OnceInv'
<1> SUFFICES ASSUME Steady' PROVE OnceInv'
  BY DEF OnceInv
<1>1. Steady
  BY SteadyBefore
<1>2. PICK v : Standing(Ways, v, calls, store, online)
  BY <1>1 DEF OnceInv
<1>3. /\ \A m : Absent(m, Ways, v) => Absent(m, Ways', v)
      /\ \A m, p : Storing(m, p, Ways, v) => Storing(m, p, Ways', v)
  BY <1>2 DEF Standing, Absent, Storing
<1>4. ASSUME NEW c, NEW i, Handling(c, i, Ways, v, store, online)
      PROVE  Handling(c, i, Ways', v, store, online)
  BY <1>3, <1>4 DEF Handling
<1>5. Standing(Ways', v, calls, store, online)
  BY <1>2, <1>4 DEF Standing
<1> QED BY <1>1, <1>5 DEF OnceInv

-----------------------------------------------------------------------------
\* A mail is handled where the user is, or elsewhere.
LEMMA MailHandledOnce ==
    ASSUME ProfileTypes, NEW s \in Servers, NEW i, NEW origin,
           online[s] # Offline /\ online[s][1] = "local" => online[s] # origin
    PROVE  LET h == MailHandled(s, i, origin)
           IN  \/ /\ h.push = "pushed" /\ Push(s) = "pushed" /\ h.pf = store[s] /\ h.ans = <<"SentDirectly">>
                  /\ h.online = online[s] /\ online[s] # Offline /\ online[s][1] = "local"
               \/ /\ h.push # "pushed" /\ h.pf = AppendMail(store[s], i).pf /\ h.ans = AppendMail(store[s], i).ans
                  /\ h.online = Offline
<1> DEFINE here == online[s] # Offline /\ online[s][1] = "local"
           push == IF here /\ online[s] # origin THEN Push(s) ELSE "absent"
           h == MailHandled(s, i, origin)
           res == AppendMail(store[s], i)
<1>1. push = "pushed" => Push(s) = "pushed" /\ here
  OBVIOUS
<1>2. /\ push = "pushed" =>
            h = [ans |-> <<"SentDirectly">>, pf |-> store[s], online |-> online[s], push |-> push]
      /\ push # "pushed" =>
            h = [ans |-> res.ans, pf |-> res.pf, online |-> Offline, push |-> push]
  BY DEF MailHandled
<1> HIDE DEF h, push, res
<1>3. push = "pushed" =>
          /\ h.push = "pushed" /\ Push(s) = "pushed" /\ h.pf = store[s] /\ h.ans = <<"SentDirectly">>
          /\ h.online = online[s] /\ online[s] # Offline /\ online[s][1] = "local"
  BY <1>1, <1>2
<1>4. push # "pushed" => h.push # "pushed" /\ h.pf = res.pf /\ h.ans = res.ans /\ h.online = Offline
  BY <1>2
<1> QED BY <1>3, <1>4 DEF h, res

\* What a handler leaves.
LEMMA AppliedOnce ==
    ASSUME ProfileTypes, ProfileTypes', NEW s \in Servers, NEW i \in Nat, NEW h, NEW stray, Apply(s, i, h, stray),
           h.push = "pushed" => Push(s) = "pushed", received' = received
    PROVE  /\ store'[s] = h.pf /\ \A t \in Servers : t # s => store'[t] = store[t]
           /\ online'[s] = h.online /\ \A t \in Servers : t # s => online'[t] = online[t]
           /\ h.push # "pushed" => Ways' = Ways
           /\ h.push = "pushed" => \E p \in Paths : Ways' = [Ways EXCEPT ![p] = Append(Ways[p], i)]
<1>1. /\ store'[s] = h.pf /\ \A t \in Servers : t # s => store'[t] = store[t]
      /\ online'[s] = h.online /\ \A t \in Servers : t # s => online'[t] = online[t]
  BY DEF Apply, ProfileTypes
<1>2. h.push # "pushed" => Ways' = Ways
  BY DEF Apply, Ways, Paths
<1>3. ASSUME h.push = "pushed"
      PROVE  \E p \in Paths : Ways' = [Ways EXCEPT ![p] = Append(Ways[p], i)]
  <2> DEFINE p == subs[s]
  <2>1. p \in Paths
    BY <1>3, PushedWhere
  <2>2. session' = [session EXCEPT ![p].events = Append(session[p].events, i)]
    BY <1>3 DEF Apply
  <2>3. /\ session'[p].events = Append(session[p].events, i)
        /\ \A q \in Paths : q # p => session'[q].events = session[q].events
    BY <2>1, <2>2 DEF ProfileTypes, Sessions, Session
  <2> HIDE DEF p
  <2>4. Paths' = Paths
    BY DEF Paths
  <2>5. Ways' = [a \in {0} \cup Paths |-> IF a = 0 THEN received ELSE session'[a].events]
    BY <2>4 DEF Ways
  <2>6. Ways' = [Ways EXCEPT ![p] = Append(Ways[p], i)]
    BY <2>1, <2>3, <2>5, WaysType DEF Ways
  <2> QED BY <2>1, <2>6
<1> QED BY <1>1, <1>2, <1>3

\* A server stores the mail.
LEMMA StoredOnce ==
    ASSUME ProfileTypes, ProfileTypes', NEW w, NEW v, NEW n \in Nat, Neat(w, v, n), NEW i \in 1 .. n,
           Holds(v, store), Level(store), NEW p, Storing(i, p, w, v), NEW s \in Servers, s \in p,
           store'[s] = AppendMail(store[s], i).pf, \A t \in Servers : t # s => store'[t] = store[t]
    PROVE  \E v2 : Neat(w, v2, n) /\ Holds(v2, store') /\ Level(store') /\ Storing(i, p \ {s}, w, v2)
<1>1. store[s] \in Profile /\ i \in Nat
  BY DEF ProfileTypes
<1>2. /\ store'[s].file.mails \in {store[s].file.mails, Append(store[s].file.mails, i)}
      /\ store'[s].mail_action = store[s].mail_action
  <2> DEFINE r == AppendMail(store[s], i)
  <2>1. /\ r.ans \in {<<"Ok">>, <<"MailboxFull">>} /\ r.pf.mail_action = store[s].mail_action
        /\ r.ans = <<"MailboxFull">> => r.pf = store[s]
        /\ r.ans = <<"Ok">> => r.pf.file.mails = Append(store[s].file.mails, i)
    BY <1>1, MailAppended
  <2>2. store'[s] = r.pf
    OBVIOUS
  <2> HIDE DEF r
  <2> QED BY <2>1, <2>2
<1> DEFINE v2 == [t \in Servers |-> store'[t].file.mails]
<1>3. v2 \in [Servers -> Seq(Nat)]
  BY DEF ProfileTypes, Profile, Mailbox
<1>4. Holds(v2, store') /\ Level(store')
  BY <1>2 DEF Holds, Level
<1>5. v2[s] \in {v[s], Append(v[s], i)} /\ \A t \in Servers : t # s => v2[t] = v[t]
  BY <1>2 DEF Holds
<1> HIDE DEF v2
<1>6. Neat(w, v2, n) /\ Storing(i, p \ {s}, w, v2)
  BY <1>3, <1>5, NeatStored
<1> QED BY <1>4, <1>6

\* How the other requests are handled.
Reads(h, s, c, origin) ==
    /\ h.push # "pushed"
    /\ \/ /\ c.nonce <= store[s].mail_action /\ h.pf = store[s] /\ h.ans = <<"InvalidAction">>
          /\ h.online = online[s]
       \/ /\ store[s].mail_action < c.nonce /\ h.pf.mail_action = c.nonce /\ h.pf.file.mails = <<>>
          /\ h.ans[1] = "Ok" /\ h.ans[3] = store[s].file.mails /\ h.online = origin

LEMMA ReadHandledOnce ==
    ASSUME ProfileTypes, NEW s \in Servers, NEW i, NEW c, Request(c), c.kind = "read", NEW origin
    PROVE  Reads(Handled(s, i, c, origin), s, c, origin)
<1> DEFINE h == Handled(s, i, c, origin)
           res == ReadMail(store[s], c.nonce)
<1>1. h = [ans |-> res.ans, pf |-> res.pf, push |-> "absent",
           online |-> IF res.ans[1] = "Ok" THEN origin ELSE online[s]]
  BY DEF Handled
<1>2. store[s] \in Profile /\ c.nonce \in Nat /\ store[s].mail_action \in Nat
  BY DEF ProfileTypes, Profile, Request
<1>3. \/ c.nonce <= store[s].mail_action /\ res.pf = store[s] /\ res.ans = <<"InvalidAction">>
      \/ /\ c.nonce > store[s].mail_action /\ res.pf.mail_action = c.nonce /\ res.pf.file.mails = <<>>
         /\ res.ans = <<"Ok", IF store[s].file.mails = <<>> THEN 0 ELSE store[s].file.hole, store[s].file.mails>>
  BY <1>2, MailRead
<1>4. <<"InvalidAction">>[1] # "Ok"
  BY SMT
<1> HIDE DEF h, res
<1>5. h.push # "pushed" /\ h.pf = res.pf /\ h.ans = res.ans
  BY <1>1
<1>6. CASE c.nonce <= store[s].mail_action /\ res.pf = store[s] /\ res.ans = <<"InvalidAction">>
  <2>1. h.online = online[s]
    BY <1>1, <1>4, <1>6
  <2> QED BY <1>5, <1>6, <2>1 DEF h, Reads
<1>7. CASE /\ c.nonce > store[s].mail_action /\ res.pf.mail_action = c.nonce /\ res.pf.file.mails = <<>>
           /\ res.ans = <<"Ok", IF store[s].file.mails = <<>> THEN 0 ELSE store[s].file.hole, store[s].file.mails>>
  <2>1. res.ans[1] = "Ok" /\ res.ans[3] = store[s].file.mails
    BY <1>7
  <2>2. h.online = origin
    BY <1>1, <2>1
  <2>3. store[s].mail_action < c.nonce
    BY <1>2, <1>7
  <2>4. Reads(h, s, c, origin)
    BY <1>5, <1>7, <2>1, <2>2, <2>3 DEF Reads
  <2> QED BY <2>4 DEF h
<1> QED BY <1>3, <1>6, <1>7

LEMMA VaultHandledOnce ==
    ASSUME ProfileTypes, NEW s \in Servers, NEW i, NEW c, Request(c), c.kind = "vault", NEW origin
    PROVE  LET h == Handled(s, i, c, origin)
           IN  /\ h.push # "pushed" /\ h.pf.file = store[s].file /\ h.pf.mail_action = store[s].mail_action
               /\ h.online = online[s]
<1> DEFINE h == Handled(s, i, c, origin)
           res == InsertToVault(store[s], c.changes, c.root, c.nonce)
<1>1. h = [ans |-> res.ans, pf |-> res.pf, push |-> "absent", online |-> online[s]]
  BY DEF Handled
<1>2. store[s] \in Profile /\ c.nonce \in Nat /\ c.root \in [Keys -> Nat]
  BY DEF ProfileTypes, Request
<1>3. res.pf.mail_action = store[s].mail_action /\ res.pf.file = store[s].file
  BY <1>2, VaultInserted
<1> HIDE DEF h, res
<1>4. /\ h.push # "pushed" /\ h.pf.file = store[s].file /\ h.pf.mail_action = store[s].mail_action
      /\ h.online = online[s]
  BY <1>1, <1>3
<1> QED BY <1>4 DEF h

\* The mails and the places stay.
LEMMA RestStays ==
    ASSUME NEW v, NEW st, NEW on, AtRest(v, st, on), NEW st2, NEW on2,
           \A s \in Servers : /\ st2[s].file.mails = st[s].file.mails /\ st2[s].mail_action = st[s].mail_action
                              /\ on2[s] = on[s]
    PROVE  AtRest(v, st2, on2)
<1>1. Holds(v, st2) /\ Level(st2)
  BY DEF AtRest, Holds, Level
<1>2. Settled(on2)
  BY DEF AtRest, Settled, Pinned
<1> QED BY <1>1, <1>2 DEF AtRest

\* Server s has forgotten the user.
Forgets(on, s, on2) == on2[s] = Offline /\ \A t \in Servers : t # s => on2[t] = on[t]

\* Where a server does not send a mail on, no other one has the user.
LEMMA SettledAway ==
    ASSUME NEW on, Settled(on), NEW s \in Servers
    PROVE  /\ on[s] # Offline /\ on[s][1] = "local" => on[s] # Somebody
           /\ ~ (on[s] # Offline /\ on[s][1] = "remote") =>
                  \A on2 : Forgets(on, s, on2) => Away(on2)
           /\ \A t \in Servers : on[s] = Remote(t) =>
                  /\ t # s
                  /\ on[t] # Offline /\ on[t][1] = "local" => on[t] # Remote(s)
                  /\ \A on2 : Forgets(on, t, on2) => Away(on2)
<1>1. /\ \A p : Local(p)[1] = "local" /\ Local(p)[2] = p /\ Local(p) # Offline
      /\ \A t : Remote(t)[1] = "remote" /\ Remote(t)[2] = t /\ Remote(t) # Offline
  BY SMT DEF Local, Remote, Offline
<1>2. \A p \in Paths : Local(p) # Somebody
  BY <1>1 DEF Somebody, Paths
<1>3. "local" # "remote"
  OBVIOUS
<1>4. CASE \A t \in Servers : on[t] = Offline
  BY <1>1, <1>4 DEF Away, Forgets
<1>5. CASE \E t \in Servers, p \in Paths : Pinned(on, Servers, t, p)
  <2>1. PICK t \in Servers, p \in Paths : \A u \in Servers : on[u] = IF u = t THEN Local(p) ELSE Remote(t)
    BY <1>5 DEF Pinned
  <2>2. on[t] = Local(p) /\ \A u \in Servers : u # t => on[u] = Remote(t)
    BY <2>1
  <2>3. \A on2 : Forgets(on, t, on2) => Away(on2)
    BY <1>1, <2>2 DEF Away, Forgets
  <2>4. on[s] # Offline /\ on[s][1] = "local" => on[s] # Somebody
    BY <1>1, <1>2, <1>3, <2>2
  <2>5. ~ (on[s] # Offline /\ on[s][1] = "remote") => s = t
    BY <1>1, <2>2
  <2>6. ASSUME NEW u \in Servers, on[s] = Remote(u)
        PROVE  u = t /\ s # t
    <3>1. s # t
      BY <1>1, <1>3, <2>2, <2>6
    <3>2. Remote(u) = Remote(t)
      BY <2>2, <2>6, <3>1
    <3>3. Remote(u)[2] = u /\ Remote(t)[2] = t
      BY <1>1
    <3> QED BY <3>1, <3>2, <3>3
  <2>7. on[t] # Remote(s)
    BY <1>1, <1>3, <2>2
  <2> QED BY <2>3, <2>4, <2>5, <2>6, <2>7
<1> QED BY <1>4, <1>5 DEF Settled

LEMMA AbsentStoring ==
    ASSUME NEW i, NEW w, NEW v, Absent(i, w, v)
    PROVE  Storing(i, Servers, w, v)
<1>1. \A s \in Servers : ~Twice(v[s], i) /\ i \notin Range(v[s])
  BY DEF Absent, Twice, Range
<1>2. Servers # {}
  BY GroupAssumption, FS_EmptySet, SMT
<1> QED BY <1>1, <1>2 DEF Absent, Storing

-----------------------------------------------------------------------------
\* A session begins, ends or takes an event.
LEMMA VisitOnce ==
    ASSUME OnceInv, NEW p \in Paths, NEW s \in Servers,
           \/ Connect(p, s) \/ Subscribe(p) \/ Unsubscribe(p) \/ DeliverEvent(p) \/ Hangup(p) \/ Forget(p)
    PROVE  OnceInv'
<1> USE DEF hist, servers
<1>0. ProfileTypes /\ ProfileTypes' /\ Paths' = Paths
  BY VisitTypes DEF OnceInv, Paths
<1>1. UNCHANGED <<calls, store>> /\ suffered \subseteq suffered'
  BY Faulted DEF Connect, Subscribe, Unsubscribe, DeliverEvent, Hangup, Forget
<1>2. CASE Unsubscribe(p)
  <2>1. ~Steady'
    BY <1>2, SteadyFaults DEF Unsubscribe
  <2> QED BY <1>0, <2>1 DEF OnceInv
<1>3. session \in [Paths -> Session]
  BY <1>0 DEF ProfileTypes, Sessions
<1>4. CASE Connect(p, s) \/ Subscribe(p) \/ Forget(p)
  <2>1. received' = received /\ online' = online /\ \A q \in Paths : session'[q].events = session[q].events
    <3>1. CASE Connect(p, s)
      BY <1>3, <3>1 DEF Connect, Session
    <3>2. CASE Subscribe(p)
      BY <3>2 DEF Subscribe
    <3>3. CASE Forget(p)
      BY <1>3, <3>3 DEF Forget, Session
    <3> QED BY <1>4, <3>1, <3>2, <3>3
  <2>2. Ways' = Ways
    BY <1>0, <2>1 DEF Ways
  <2> QED BY <1>0, <1>1, <2>1, <2>2, QuietOnce
<1>5. CASE DeliverEvent(p)
  <2>1. /\ received' = Append(received, Head(session[p].events)) /\ session[p].events # <<>> /\ online' = online
        /\ session' = [session EXCEPT ![p].events = Tail(session[p].events)]
    BY <1>5 DEF DeliverEvent
  <2>2. /\ session'[p].events = Tail(session[p].events)
        /\ \A q \in Paths : q # p => session'[q].events = session[q].events
    BY <1>3, <2>1 DEF Session
  <2>3. Ways' = [Ways EXCEPT ![0] = Append(Ways[0], Head(Ways[p])), ![p] = Tail(Ways[p])]
    <3>1. Ways' = [a \in {0} \cup Paths |-> IF a = 0 THEN received' ELSE session'[a].events]
      BY <1>0 DEF Ways
    <3>2. /\ DOMAIN Ways = {0} \cup Paths /\ Ways[0] = received /\ 0 \notin Paths
          /\ \A q \in Paths : Ways[q] = session[q].events
      BY <1>0, WaysType
    <3> QED BY <2>1, <2>2, <3>1, <3>2
  <2>4. Ways[p] # <<>> /\ Len(calls) \in Nat
    BY <1>0, <2>1, WaysType, CallsAre DEF ProfileTypes
  <2>5. ASSUME NEW v, Neat(Ways, v, Len(calls))
        PROVE  Neat(Ways', v, Len(calls)) /\ \A m : Unsent(m, Ways) => Unsent(m, Ways')
    BY <2>3, <2>4, <2>5, NeatTaken
  <2> QED BY <1>0, <1>1, <2>1, <2>5, QuietOnce
<1>6. CASE Hangup(p)
  <2>1. received' = received /\ online' = online
    BY <1>6 DEF Hangup
  <2>2. /\ session'[p].events = <<>>
        /\ \A q \in Paths : q # p => session'[q].events = session[q].events
    BY <1>3, <1>6 DEF Hangup, Session
  <2>3. Ways' = [Ways EXCEPT ![p] = <<>>]
    <3>1. Ways' = [a \in {0} \cup Paths |-> IF a = 0 THEN received' ELSE session'[a].events]
      BY <1>0 DEF Ways
    <3>2. /\ DOMAIN Ways = {0} \cup Paths /\ Ways[0] = received /\ 0 \notin Paths
          /\ \A q \in Paths : Ways[q] = session[q].events
      BY <1>0, WaysType
    <3> QED BY <2>1, <2>2, <3>1, <3>2
  <2>4. Len(calls) \in Nat
    BY <1>0, CallsAre DEF ProfileTypes
  <2>5. ASSUME NEW v, Neat(Ways, v, Len(calls))
        PROVE  Neat(Ways', v, Len(calls)) /\ \A m : Unsent(m, Ways) => Unsent(m, Ways')
    BY <2>3, <2>4, <2>5, NeatTaken
  <2> QED BY <1>0, <1>1, <2>1, <2>5, QuietOnce
<1> QED BY <1>2, <1>4, <1>5, <1>6

LEMMA ClientOnce ==
    ASSUME OnceInv, ProfileTypes', (\E p \in Paths : Login(p)) \/ (\E k \in Keys : Defer(k))
    PROVE  OnceInv'
<1>1. UNCHANGED <<calls, store, online, session, received>> /\ suffered \subseteq suffered'
  BY Faulted DEF Login, Defer, servers, hist
<1>2. Ways' = Ways
  BY <1>1 DEF Ways, Paths
<1> QED BY <1>1, <1>2, QuietOnce

\* What is excepted: a server that fails, one that is late or out of reach, and the
\* calls of another client.
LEMMA FaultyOnce ==
    ASSUME OnceInv, ProfileTypes', NEW s, NEW i,
           \/ Restart(s) \/ Evict(s) \/ Crash(i, s) \/ DirectFails(i) \/ Timeout(i) \/ Unreachable(i, s)
           \/ \E ks : WriteVault(s, ks)
    PROVE  OnceInv'
<1>1. PICK kind \in {"restart", "crash", "unreachable", "timeout", "other"} : Fault(kind)
  BY DEF Restart, Evict, Crash, DirectFails, Timeout, Unreachable, WriteVault
<1>2. ~Steady'
  BY <1>1, SteadyFaults
<1> QED BY <1>2 DEF OnceInv

\* The mail is stored at s, and is on its way to the others.
LEMMA StoringOnce ==
    ASSUME ProfileTypes, ProfileTypes', NEW i \in Nat, i \in 1 .. i, NEW v, Neat(Ways, v, i), Ways' = Ways,
           Holds(v, store), Level(store), NEW p, Storing(i, p, Ways, v), NEW s \in Servers, s \in p,
           store'[s] = AppendMail(store[s], i).pf, \A t \in Servers : t # s => store'[t] = store[t],
           Away(online'), NEW d, d.stage = "repl", d.kind = "mail", d.waiting = p \ {s},
           \A t \in Servers \ d.waiting : online'[t] = Offline
    PROVE  \E v2 : Neat(Ways', v2, i) /\ Handling(d, i, Ways', v2, store', online')
<1>1. PICK v2 : Neat(Ways, v2, i) /\ Holds(v2, store') /\ Level(store') /\ Storing(i, p \ {s}, Ways, v2)
  BY StoredOnce
<1> QED BY <1>1 DEF Handling

\* A mail is pushed: everything else stays.
LEMMA PushingOnce ==
    ASSUME ProfileTypes, ProfileTypes', NEW i \in Nat, i \in 1 .. i, NEW v, Neat(Ways, v, i), Absent(i, Ways, v),
           AtRest(v, store, online), NEW s \in Servers, NEW h, NEW stray, Apply(s, i, h, stray),
           h.push = "pushed", Push(s) = "pushed", h.pf = store[s], h.online = online[s], received' = received
    PROVE  Neat(Ways', v, i) /\ AtRest(v, store', online')
<1>1. /\ \A t \in Servers : store'[t] = store[t] /\ online'[t] = online[t]
      /\ \E p \in Paths : Ways' = [Ways EXCEPT ![p] = Append(Ways[p], i)]
  BY AppliedOnce
<1>2. Neat(Ways', v, i)
  BY <1>1, NeatPushed
<1> QED BY <1>1, <1>2, RestStays

\* A call is made and handled.
LEMMA StartOnce ==
    ASSUME OnceInv, ProfileTypes', NEW c, Fresh(c), Start(c), UNCHANGED <<received, gone>>,
           NEW o, MayCall \/ MayMail(o),
           c.kind = "mail" => c.origin = Somebody /\ ~ (online[c.at] # Offline /\ online[c.at][1] = "remote"),
           c.kind = "read" => \E p \in Paths : c.origin = Local(p)
    PROVE  OnceInv'
<1> SUFFICES ASSUME Steady' PROVE OnceInv'
  BY DEF OnceInv
<1>0. ProfileTypes /\ Request(c) /\ c.at \in Servers /\ c.result = <<>> /\ Requests(calls) /\ c.origin \in Places
  BY DEF OnceInv, Fresh, ProfileTypes
<1>i. PICK i \in Nat : i = Len(calls) + 1 /\ i \in 1 .. i
  <2>1. Len(calls) \in Nat
    BY <1>0, CallsAre
  <2>2. Len(calls) + 1 \in Nat /\ Len(calls) + 1 \in 1 .. (Len(calls) + 1)
    BY <2>1
  <2> QED BY <2>2
<1> DEFINE s == c.at
           h == Handled(s, i, c, c.origin)
           r == Replicating(c, h.ans)
<1>1. calls' = Append(calls, r) /\ Apply(s, i, h, {<<"SendingToSelf">>})
  BY <1>i DEF Start
<1>2. Readable(c.kind, h.ans)
  BY <1>0, HandledTypes
<1>3. Steady /\ \A j \in DOMAIN calls : calls[j].stage = "done" /\ calls[j].waiting = {}
  BY <1>0, SteadyCall
<1>4. PICK v : Neat(Ways, v, Len(calls)) /\ AtRest(v, store, online)
  BY <1>3, NoCallOnce
<1>5. Neat(Ways, v, i) /\ Absent(i, Ways, v)
  BY <1>0, <1>i, <1>4, CallsAre, NeatMore
<1>6. Holds(v, store) /\ Level(store) /\ Settled(online)
  BY <1>4 DEF AtRest
<1>7. h.ans # <<"SentDirectly">> =>
          /\ Request(r) /\ r.kind = c.kind /\ r.stage = "repl" /\ r.waiting = Servers \ {s}
          /\ r.answers = {<<s, h.ans>>} /\ r.at = s /\ r.nonce = c.nonce
  <2> HIDE DEF h
  <2> QED BY <1>0, <1>2, ReplicatingType
<1>8. CASE c.kind = "mail"
  <2>1. h = MailHandled(s, i, c.origin)
    BY <1>8 DEF Handled
  <2>2. online[s] # Offline /\ online[s][1] = "local" => online[s] # c.origin
    BY <1>0, <1>6, <1>8, SettledAway
  <2>3. \/ /\ h.push = "pushed" /\ Push(s) = "pushed" /\ h.pf = store[s] /\ h.ans = <<"SentDirectly">>
           /\ h.online = online[s]
        \/ /\ h.push # "pushed" /\ h.pf = AppendMail(store[s], i).pf /\ h.ans = AppendMail(store[s], i).ans
           /\ h.online = Offline
    <3> HIDE DEF h
    <3> QED BY <1>0, <2>1, <2>2, MailHandledOnce
  <2>4. CASE /\ h.push = "pushed" /\ Push(s) = "pushed" /\ h.pf = store[s] /\ h.ans = <<"SentDirectly">>
             /\ h.online = online[s]
    <3>1. Request(r) /\ r.stage = "done" /\ r.waiting = {}
      <4>1. r = Done(c, <<"SentDirectly">>)
        BY <2>4, ReplicatingSent
      <4>2. c.waiting = {}
        BY DEF Fresh
      <4> QED BY <1>0, <4>1, <4>2, DoneType
    <3> HIDE DEF r, h, s
    <3>2. Neat(Ways', v, i) /\ AtRest(v, store', online')
      BY <1>0, <1>1, <1>4, <1>5, <1>i, <2>4, PushingOnce DEF s
    <3> QED BY <1>0, <1>1, <1>3, <1>i, <3>1, <3>2, AddedOnce
  <2>5. CASE /\ h.push # "pushed" /\ h.pf = AppendMail(store[s], i).pf /\ h.ans = AppendMail(store[s], i).ans
             /\ h.online = Offline
    <3>1. store[s] \in Profile
      BY <1>0 DEF ProfileTypes
    <3>2. AppendMail(store[s], i).ans \in {<<"Ok">>, <<"MailboxFull">>}
      BY <3>1, MailAppended
    <3>3. h.ans # <<"SentDirectly">>
      <4> HIDE DEF h
      <4> QED BY <2>5, <3>2
    <3> HIDE DEF r, h
    <3>4. /\ store'[s] = h.pf /\ \A t \in Servers : t # s => store'[t] = store[t]
          /\ online'[s] = h.online /\ \A t \in Servers : t # s => online'[t] = online[t]
          /\ Ways' = Ways
      BY <1>0, <1>1, <2>5, AppliedOnce
    <3>5. Away(online')
      <4>1. Forgets(online, s, online')
        BY <2>5, <3>4 DEF Forgets
      <4> QED BY <1>0, <1>6, <1>8, <4>1, SettledAway
    <3>6. Storing(i, Servers, Ways, v)
      BY <1>5, AbsentStoring
    <3>7. \A t \in Servers \ r.waiting : online'[t] = Offline
      BY <1>7, <2>5, <3>3, <3>4
    <3>8. PICK v2 : Neat(Ways', v2, i) /\ Handling(r, i, Ways', v2, store', online')
      <4>1. s \in Servers /\ store'[s] = AppendMail(store[s], i).pf
        BY <1>0, <2>5, <3>4
      <4>2. r.stage = "repl" /\ r.kind = "mail" /\ r.waiting = Servers \ {s}
        BY <1>7, <1>8, <3>3
      <4> HIDE DEF s
      <4> QED BY <1>0, <1>5, <1>6, <1>i, <3>4, <3>5, <3>6, <3>7, <4>1, <4>2, StoringOnce
    <3>9. Request(r) /\ r.stage = "repl"
      BY <1>7, <3>3
    <3> QED BY <1>0, <1>1, <1>3, <1>i, <3>8, <3>9, AddedOnce
  <2> QED BY <2>3, <2>4, <2>5
<1>9. CASE c.kind = "vault"
  <2>1. /\ h.push # "pushed" /\ h.pf.file = store[s].file /\ h.pf.mail_action = store[s].mail_action
        /\ h.online = online[s]
    BY <1>0, <1>9, VaultHandledOnce
  <2>2. h.ans # <<"SentDirectly">>
    <3> DEFINE res == InsertToVault(store[s], c.changes, c.root, c.nonce)
    <3>1. store[s] \in Profile /\ res = Outcome(c, i, store[s])
      BY <1>0, <1>9 DEF ProfileTypes, Outcome
    <3>2. h.ans = res.ans
      BY <1>9 DEF Handled
    <3> HIDE DEF h, res
    <3> QED BY <1>0, <3>1, <3>2, OutcomeType
  <2> HIDE DEF r, h
  <2>3. /\ store'[s] = h.pf /\ \A t \in Servers : t # s => store'[t] = store[t]
        /\ online'[s] = h.online /\ \A t \in Servers : t # s => online'[t] = online[t]
        /\ Ways' = Ways
    BY <1>0, <1>1, <2>1, AppliedOnce
  <2>4. AtRest(v, store', online')
    <3>1. \A t \in Servers : /\ store'[t].file.mails = store[t].file.mails
                             /\ store'[t].mail_action = store[t].mail_action /\ online'[t] = online[t]
      BY <2>1, <2>3
    <3> QED BY <1>4, <3>1, RestStays
  <2>5. Request(r) /\ r.stage = "repl" /\ r.kind = "vault"
    BY <1>7, <1>9, <2>2
  <2>6. Handling(r, i, Ways', v, store', online')
    BY <2>4, <2>5 DEF Handling
  <2> QED BY <1>0, <1>1, <1>3, <1>5, <1>i, <2>3, <2>5, <2>6, AddedOnce
<1>10. CASE c.kind = "read"
  <2>1. /\ h.push # "pushed"
        /\ \/ /\ c.nonce <= store[s].mail_action /\ h.pf = store[s] /\ h.ans = <<"InvalidAction">>
              /\ h.online = online[s]
           \/ /\ store[s].mail_action < c.nonce /\ h.pf.mail_action = c.nonce /\ h.pf.file.mails = <<>>
              /\ h.ans[1] = "Ok" /\ h.ans[3] = store[s].file.mails /\ h.online = c.origin
    <3>1. Reads(h, s, c, c.origin)
      BY <1>0, <1>10, ReadHandledOnce
    <3> HIDE DEF h, s
    <3> QED BY <3>1 DEF Reads
  <2>2. h.ans # <<"SentDirectly">>
    <3>1. <<"SentDirectly">>[1] # "Ok" /\ <<"SentDirectly">> # <<"InvalidAction">>
      OBVIOUS
    <3> HIDE DEF h
    <3> QED BY <2>1, <3>1
  <2> HIDE DEF r, h
  <2>3. /\ store'[s] = h.pf /\ \A t \in Servers : t # s => store'[t] = store[t]
        /\ online'[s] = h.online /\ \A t \in Servers : t # s => online'[t] = online[t]
        /\ Ways' = Ways
    BY <1>0, <1>1, <2>1, AppliedOnce
  <2>4. /\ Request(r) /\ r.stage = "repl" /\ r.kind = "read" /\ r.waiting = Servers \ {s}
        /\ r.answers = {<<s, h.ans>>} /\ r.at = s /\ r.nonce = c.nonce
    BY <1>7, <1>10, <2>2
  <2>5. Collecting(r, v, store', online') \/ Refused(r, v, store', online')
    <3>1. CASE c.nonce <= store[s].mail_action /\ h.pf = store[s] /\ h.ans = <<"InvalidAction">> /\ h.online = online[s]
      <4>1. AtRest(v, store', online')
        <5>1. \A t \in Servers : store'[t] = store[t] /\ online'[t] = online[t]
          BY <2>3, <3>1
        <5> QED BY <1>4, <5>1, RestStays
      <4>2. \A t \in Servers : r.nonce <= store'[t].mail_action
        BY <1>0, <1>6, <2>3, <2>4, <3>1 DEF Level
      <4>3. \A x \in r.answers : x[2] = <<"InvalidAction">>
        BY <2>4, <3>1
      <4> QED BY <4>1, <4>2, <4>3 DEF Refused
    <3>2. CASE /\ store[s].mail_action < c.nonce /\ h.pf.mail_action = c.nonce /\ h.pf.file.mails = <<>>
               /\ h.ans[1] = "Ok" /\ h.ans[3] = store[s].file.mails /\ h.online = c.origin
      <4>1. Servers \ r.waiting = {s}
        BY <1>0, <2>4
      <4>2. PICK p \in Paths : c.origin = Local(p)
        BY <1>10
      <4>3. Pinned(online', Servers \ r.waiting, r.at, p)
        BY <2>3, <2>4, <3>2, <4>1, <4>2 DEF Pinned
      <4>4. \A x \in r.answers : \E t \in Servers \ r.waiting : \E ans : x = <<t, ans>> /\ ans[1] = "Ok" /\ ans[3] = v[t]
        BY <1>0, <1>6, <2>4, <3>2, <4>1 DEF Holds
      <4>5. \A t \in Servers \ r.waiting : store'[t].file.mails = <<>> /\ store'[t].mail_action = r.nonce
        BY <2>3, <2>4, <3>2, <4>1
      <4>6. store[s].mail_action \in Nat
        BY <1>0 DEF ProfileTypes, Profile
      <4>7. \A t \in r.waiting : store'[t].mail_action = store[s].mail_action /\ v[t] = store'[t].file.mails
        BY <1>0, <1>6, <2>3, <2>4 DEF Level, Holds
      <4> QED BY <2>4, <3>2, <4>3, <4>4, <4>5, <4>6, <4>7 DEF Collecting
    <3> QED BY <2>1, <3>1, <3>2
  <2>6. Handling(r, i, Ways', v, store', online')
    BY <2>4, <2>5 DEF Handling
  <2> QED BY <1>0, <1>1, <1>3, <1>5, <1>i, <2>3, <2>4, <2>6, AddedOnce
<1> QED BY <1>0, <1>8, <1>9, <1>10 DEF Request

LEMMA UserOnce ==
    ASSUME OnceInv, NEW p \in Paths,
           ReadMailbox(p) \/ SaveVault(p, {}) \/ \E k \in Keys : SaveVault(p, {k})
    PROVE  OnceInv'
<1>0. ProfileTypes
  BY DEF OnceInv
<1>1. CASE ReadMailbox(p)
  <2>1. Live(p) /\ Client(client)
    BY <1>0, <1>1 DEF ReadMailbox, ProfileTypes
  <2>2. /\ Fresh(ReadRequest(p)) /\ Start(ReadRequest(p)) /\ ReadRequest(p).kind = "read"
        /\ ReadRequest(p).origin = Local(p)
    BY <1>0, <1>1, <2>1, UserRequests DEF ReadMailbox, ReadRequest
  <2>3. UNCHANGED <<received, gone>> /\ MayCall
    BY <1>1 DEF ReadMailbox
  <2> QED BY <1>0, <1>1, <2>2, <2>3, ReadMailboxTypes, StartOnce
<1>2. CASE \E ks \in SUBSET Keys : SaveVault(p, ks)
  <2>1. PICK ks \in SUBSET Keys : SaveVault(p, ks)
    BY <1>2
  <2> DEFINE cl == Edited(client, ks)
  <2>2. Start(SaveRequest(p, cl)) /\ Client(cl) /\ ProfileTypes' /\ Live(p)
    BY <1>0, <2>1, SaveVaultTypes DEF SaveVault
  <2>3. Fresh(SaveRequest(p, cl)) /\ SaveRequest(p, cl).kind = "vault"
    BY <1>0, <2>2, UserRequests
  <2>4. UNCHANGED <<received, gone>> /\ MayCall
    BY <2>1 DEF SaveVault
  <2> QED BY <1>0, <2>2, <2>3, <2>4, StartOnce
<1> QED BY <1>1, <1>2

LEMMA SendMailOnce ==
    ASSUME OnceInv, NEW s \in Servers, NEW o \in {Somebody} \cup {Local(p) : p \in Paths}, SendMail(s, o)
    PROVE  OnceInv'
<1> DEFINE c == Call("mail", s, o)
           d == [c EXCEPT !.stage = "direct", !.got = online[s]]
<1>0. ProfileTypes /\ ProfileTypes' /\ UNCHANGED <<received, gone>> /\ MayMail(o)
  BY SendMailTypes DEF OnceInv, SendMail
<1> SUFFICES ASSUME Steady' PROVE OnceInv'
  BY <1>0 DEF OnceInv
<1>1. o \in Places
  BY DEF Places, Somebody
<1>2. Fresh(c) /\ c.kind = "mail" /\ c.at = s /\ c.origin = o
  BY <1>1, FreshCall DEF Call
<1>3. /\ Steady /\ o = Somebody
      /\ \A j \in DOMAIN calls : calls[j].stage = "done" /\ calls[j].waiting = {}
  BY <1>0, SteadyCall
<1>4. CASE Start(c) /\ ~ (online[s] # Offline /\ online[s][1] = "remote")
  <2> HIDE DEF c
  <2> QED BY <1>0, <1>2, <1>3, <1>4, StartOnce
<1>5. CASE calls' = Append(calls, d) /\ UNCHANGED <<servers, session, uneven>>
  <2>1. Ways' = Ways /\ store' = store /\ online' = online
    BY <1>0, <1>5 DEF Ways, Paths, servers
  <2>2. PICK v : Neat(Ways, v, Len(calls)) /\ AtRest(v, store, online)
    BY <1>3, NoCallOnce
  <2>3. Len(calls) \in Nat /\ Requests(calls) /\ Requests(calls')
    BY <1>0, CallsAre DEF ProfileTypes
  <2>4. Request(d)
    <3>1. /\ DOMAIN calls' = 1 .. Len(calls) + 1 /\ calls'[Len(calls) + 1] = d
      <4>1. PICK S : calls \in Seq(S)
        BY <2>3 DEF Requests
      <4>2. calls \in Seq(S \cup {d}) /\ d \in S \cup {d}
        BY <4>1
      <4> HIDE DEF d
      <4> QED BY <1>5, <4>2, AppendProperties, LenProperties
    <3> QED BY <2>3, <3>1 DEF Requests
  <2>5. d.stage = "direct" /\ d.got = online[s] /\ d.at = s
    BY DEF Call
  <2> HIDE DEF d
  <2>6. Neat(Ways, v, Len(calls) + 1) /\ Absent(Len(calls) + 1, Ways, v)
    BY <2>2, <2>3, NeatMore
  <2>7. Handling(d, Len(calls) + 1, Ways', v, store', online')
    BY <2>1, <2>2, <2>5, <2>6 DEF Handling
  <2> QED BY <1>0, <1>3, <1>5, <2>1, <2>4, <2>5, <2>6, <2>7, AddedOnce
<1> QED BY <1>4, <1>5 DEF SendMail

\* The mail is stored where the user was, before the others are asked.
LEMMA StoredThereOnce ==
    ASSUME ProfileTypes, ProfileTypes', NEW w, NEW v, NEW n \in Nat, Neat(w, v, n), NEW i \in 1 .. n,
           Holds(v, store), Level(store), Absent(i, w, v), NEW s \in Servers,
           store'[s] = AppendMail(store[s], i).pf, \A t \in Servers : t # s => store'[t] = store[t]
    PROVE  \E v2 : Neat(w, v2, n) /\ Holds(v2, store') /\ Level(store') /\ Storing(i, Servers, w, v2)
<1>1. Storing(i, Servers, w, v)
  BY AbsentStoring
<1>2. PICK v2 : Neat(w, v2, n) /\ Holds(v2, store') /\ Level(store') /\ Storing(i, Servers \ {s}, w, v2)
  BY <1>1, StoredOnce
<1>3. \A t \in Servers : t # s => v2[t] = v[t]
  BY <1>2 DEF Holds
<1>4. \A t \in Servers \ {s} : ~Twice(v2[t], i) /\ i \notin Range(v2[t])
  BY <1>3 DEF Absent, Twice, Range
<1>5. Storing(i, Servers, w, v2)
  BY <1>4 DEF Storing, Absent
<1> QED BY <1>2, <1>5

LEMMA DirectMailOnce ==
    ASSUME OnceInv, NEW i, DirectMail(i)
    PROVE  OnceInv'
<1> SUFFICES ASSUME Steady' PROVE OnceInv'
  BY DirectMailTypes DEF OnceInv
<1> DEFINE c == calls[i]
           t == c.got[2]
           h == MailHandled(t, i, Remote(c.at))
           d == [c EXCEPT !.stage = "back", !.got = h.ans]
<1>0. ProfileTypes /\ ProfileTypes'
  BY DirectMailTypes DEF OnceInv
<1>1. /\ Apply(t, i, h, {<<"Ok">>}) /\ received' = received /\ calls' = [calls EXCEPT ![i] = d]
      /\ i \in DOMAIN calls /\ c.stage = "direct" /\ suffered \subseteq suffered'
  BY Faulted DEF DirectMail
<1>2. Steady /\ c.stage # "done"
  BY <1>1, SteadyBefore
<1>3. /\ Request(c) /\ i \in Nat /\ i \in 1 .. i /\ InTurn(calls) /\ c.at \in Servers /\ c.result = <<>>
      /\ \E v : Neat(Ways, v, i) /\ Handling(c, i, Ways, v, store, online)
  BY <1>1, <1>2, OneCallOnce
<1>4. PICK v : Neat(Ways, v, i) /\ Handling(c, i, Ways, v, store, online)
  BY <1>3
<1>5. t \in Servers /\ c.got = Remote(t) /\ c.kind = "mail" /\ c.waiting = {}
  BY <1>1, <1>3 DEF Request, Remote
<1>6. c.got = online[c.at] /\ Absent(i, Ways, v) /\ AtRest(v, store, online)
  BY <1>1, <1>4 DEF Handling
<1>7. Request(d) /\ d.stage = "back" /\ d.got = h.ans
  <2> HIDE DEF h
  <2> QED BY <1>1, <1>3, <1>5 DEF Request
<1> HIDE DEF t, h, d, c
<1>8. /\ online[t] # Offline /\ online[t][1] = "local" => online[t] # Remote(c.at)
      /\ \A on2 : Forgets(online, t, on2) => Away(on2)
  BY <1>3, <1>5, <1>6, SettledAway DEF AtRest
<1>9. \/ /\ h.push = "pushed" /\ Push(t) = "pushed" /\ h.pf = store[t] /\ h.ans = <<"SentDirectly">>
         /\ h.online = online[t]
      \/ /\ h.push # "pushed" /\ h.pf = AppendMail(store[t], i).pf /\ h.ans = AppendMail(store[t], i).ans
         /\ h.online = Offline
  <2>1. LET g == MailHandled(t, i, Remote(c.at))
        IN  \/ /\ g.push = "pushed" /\ Push(t) = "pushed" /\ g.pf = store[t] /\ g.ans = <<"SentDirectly">>
               /\ g.online = online[t]
            \/ /\ g.push # "pushed" /\ g.pf = AppendMail(store[t], i).pf /\ g.ans = AppendMail(store[t], i).ans
               /\ g.online = Offline
    BY <1>0, <1>5, <1>8, MailHandledOnce
  <2> QED BY <2>1 DEF h
<1>10. calls[i].stage # "done"
  BY <1>2 DEF c
<1>11. CASE /\ h.push = "pushed" /\ Push(t) = "pushed" /\ h.pf = store[t] /\ h.ans = <<"SentDirectly">>
            /\ h.online = online[t]
  <2>1. Neat(Ways', v, i) /\ AtRest(v, store', online')
    BY <1>0, <1>1, <1>3, <1>4, <1>5, <1>6, <1>11, PushingOnce
  <2>2. Handling(d, i, Ways', v, store', online')
    BY <1>7, <1>11, <2>1 DEF Handling
  <2> QED BY <1>0, <1>1, <1>3, <1>7, <1>10, <2>1, <2>2, ChangedOnce
<1>12. CASE /\ h.push # "pushed" /\ h.pf = AppendMail(store[t], i).pf /\ h.ans = AppendMail(store[t], i).ans
            /\ h.online = Offline
  <2>1. /\ store'[t] = h.pf /\ \A s \in Servers : s # t => store'[s] = store[s]
        /\ online'[t] = h.online /\ \A s \in Servers : s # t => online'[s] = online[s]
        /\ Ways' = Ways
    BY <1>0, <1>1, <1>3, <1>5, <1>12, AppliedOnce
  <2>2. Away(online')
    BY <1>8, <1>12, <2>1 DEF Forgets
  <2>3. PICK v2 : Neat(Ways, v2, i) /\ Holds(v2, store') /\ Level(store') /\ Storing(i, Servers, Ways, v2)
    <3>1. Holds(v, store) /\ Level(store) /\ store'[t] = AppendMail(store[t], i).pf
      BY <1>6, <1>12, <2>1 DEF AtRest
    <3> QED BY <1>0, <1>3, <1>4, <1>5, <1>6, <2>1, <3>1, StoredThereOnce
  <2>4. d.got # <<"SentDirectly">>
    <3>1. store[t] \in Profile
      BY <1>0, <1>5 DEF ProfileTypes
    <3>2. h.ans \in {<<"Ok">>, <<"MailboxFull">>}
      BY <1>3, <1>12, <3>1, MailAppended
    <3> QED BY <1>7, <3>2
  <2>5. Neat(Ways', v2, i) /\ Handling(d, i, Ways', v2, store', online')
    BY <1>7, <2>1, <2>2, <2>3, <2>4 DEF Handling
  <2> QED BY <1>0, <1>1, <1>3, <1>7, <1>10, <2>5, ChangedOnce
<1> QED BY <1>9, <1>11, <1>12

LEMMA DirectReturnsOnce ==
    ASSUME OnceInv, NEW i, DirectReturns(i)
    PROVE  OnceInv'
<1> DEFINE c == calls[i]
           res == AppendMail(store[c.at], i)
<1> SUFFICES ASSUME Steady' PROVE OnceInv'
  BY DirectReturnsTypes DEF OnceInv
<1>0. ProfileTypes /\ ProfileTypes'
  BY DirectReturnsTypes DEF OnceInv
<1>1. /\ i \in DOMAIN calls /\ c.stage = "back" /\ suffered \subseteq suffered'
      /\ UNCHANGED <<session, received>> /\ c.stage # "done"
  BY Faulted DEF DirectReturns, hist
<1>2. Steady /\ Ways' = Ways
  BY <1>1, SteadyBefore DEF Ways, Paths
<1>3. /\ Request(c) /\ i \in Nat /\ i \in 1 .. i /\ InTurn(calls) /\ c.at \in Servers /\ c.result = <<>>
      /\ \E v : Neat(Ways, v, i) /\ Handling(c, i, Ways, v, store, online)
  BY <1>1, <1>2, OneCallOnce
<1>4. PICK v : Neat(Ways, v, i) /\ Handling(c, i, Ways, v, store, online)
  BY <1>3
<1>5. c.kind = "mail" /\ c.waiting = {}
  BY <1>1, <1>3 DEF Request
<1>6. CASE c.got = <<"SentDirectly">>
  <2>1. calls' = [calls EXCEPT ![i] = Done(c, c.got)] /\ store' = store /\ online' = online
    BY <1>6 DEF DirectReturns, servers
  <2>2. Request(Done(c, c.got)) /\ Done(c, c.got).stage = "done" /\ Done(c, c.got).waiting = {}
    BY <1>3, <1>5, DoneType
  <2>3. AtRest(v, store', online')
    BY <1>1, <1>4, <1>6, <2>1 DEF Handling
  <2> QED BY <1>0, <1>1, <1>2, <1>3, <1>4, <2>1, <2>2, <2>3, ChangedOnce
<1>7. CASE c.got # <<"SentDirectly">>
  <2> DEFINE r == Replicating(c, res.ans)
  <2>1. /\ store' = [store EXCEPT ![c.at] = res.pf] /\ calls' = [calls EXCEPT ![i] = r]
        /\ online' = [online EXCEPT ![c.at] = Offline]
    BY <1>7 DEF DirectReturns
  <2>2. res.ans # <<"SentDirectly">> /\ Readable(c.kind, res.ans)
    <3>1. store[c.at] \in Profile
      BY <1>0, <1>3 DEF ProfileTypes
    <3>2. res.ans \in {<<"Ok">>, <<"MailboxFull">>}
      BY <1>3, <3>1, MailAppended
    <3> HIDE DEF res, c
    <3> QED BY <1>5, <3>2 DEF Readable
  <2>3. Request(r) /\ r.kind = "mail" /\ r.stage = "repl" /\ r.waiting = Servers \ {c.at}
    <3> HIDE DEF res, c
    <3> QED BY <1>3, <1>5, <2>2, ReplicatingType
  <2> HIDE DEF r
  <2>4. /\ store'[c.at] = res.pf /\ \A s \in Servers : s # c.at => store'[s] = store[s]
        /\ online'[c.at] = Offline /\ \A s \in Servers : s # c.at => online'[s] = online[s]
    BY <1>0, <1>3, <2>1 DEF ProfileTypes
  <2>5. Storing(i, Servers, Ways, v) /\ Holds(v, store) /\ Level(store) /\ Away(online)
    BY <1>1, <1>4, <1>7 DEF Handling
  <2>6. Away(online') /\ \A s \in Servers \ r.waiting : online'[s] = Offline
    BY <2>3, <2>4, <2>5 DEF Away
  <2>7. PICK v2 : Neat(Ways', v2, i) /\ Handling(r, i, Ways', v2, store', online')
    <3>1. store'[c.at] = AppendMail(store[c.at], i).pf
      BY <2>4
    <3> HIDE DEF res, c
    <3> QED BY <1>0, <1>2, <1>3, <1>4, <2>3, <2>4, <2>5, <2>6, <3>1, StoringOnce
  <2> QED BY <1>0, <1>1, <1>3, <2>1, <2>3, <2>7, ChangedOnce
<1> QED BY <1>6, <1>7

LEMMA ReplicaOnce ==
    ASSUME OnceInv, NEW i, NEW t, Replica(i, t)
    PROVE  OnceInv'
<1> DEFINE c == calls[i]
           h == Handled(t, i, c, Remote(c.at))
           w == c.waiting \ {t}
           d == [c EXCEPT !.waiting = w]
           e == [d EXCEPT !.answers = c.answers \cup {<<t, h.ans>>}]
<1> SUFFICES ASSUME Steady' PROVE OnceInv'
  BY ReplicaTypes DEF OnceInv
<1>0. ProfileTypes /\ ProfileTypes'
  BY ReplicaTypes DEF OnceInv
<1>1. /\ Apply(t, i, h, {<<"SentDirectly">>}) /\ received' = received
      /\ i \in DOMAIN calls /\ t \in c.waiting /\ suffered \subseteq suffered'
  BY Faulted DEF Replica
<1>2. Steady
  BY <1>1, SteadyBefore
<1>3. c.stage # "done"
  BY <1>1, <1>2 DEF OnceInv, InTurn
<1>4. /\ Request(c) /\ i \in Nat /\ i \in 1 .. i /\ InTurn(calls) /\ c.at \in Servers /\ c.result = <<>>
      /\ \E v : Neat(Ways, v, i) /\ Handling(c, i, Ways, v, store, online)
  BY <1>1, <1>2, <1>3, OneCallOnce
<1>5. PICK v : Neat(Ways, v, i) /\ Handling(c, i, Ways, v, store, online)
  BY <1>4
<1>6. c.stage = "repl" /\ t \in Servers /\ c.waiting \subseteq Servers /\ c.at # t
  BY <1>1, <1>3, <1>4 DEF Request
<1>7. calls' = [calls EXCEPT ![i] = e]
  <2>1. d.answers = c.answers
    BY <1>4 DEF Request
  <2>2. calls' = [calls EXCEPT ![i] = [d EXCEPT !.answers = @ \cup {<<t, h.ans>>}]]
    BY <1>3 DEF Replica
  <2> HIDE DEF d, c, h
  <2> QED BY <2>1, <2>2
<1>8. Readable(c.kind, h.ans)
  <2>1. Remote(c.at) \in Places
    BY <1>4 DEF Places
  <2> HIDE DEF c
  <2> QED BY <1>0, <1>4, <1>6, <2>1, HandledTypes
<1> HIDE DEF h
<1>9. /\ DOMAIN e = DOMAIN c /\ e.waiting = w /\ e.answers = c.answers \cup {<<t, h.ans>>}
      /\ \A x \in DOMAIN c : x \notin {"waiting", "answers"} => e[x] = c[x]
  BY <1>4 DEF Request
<1> HIDE DEF c, d, e
<1>10. e.kind = c.kind /\ e.stage = "repl" /\ e.result = <<>> /\ e.at = c.at /\ e.nonce = c.nonce
       /\ e.changes = c.changes /\ e.root = c.root
  BY <1>4, <1>6, <1>9 DEF Request
<1>11. Request(e)
  <2>1. \A a \in e.answers : a \in c.answers \/ a[2] = h.ans
    BY <1>9
  <2>2. \A a \in e.answers : Readable(c.kind, a[2])
    BY <1>4, <1>8, <2>1 DEF Request
  <2>3. e.waiting \subseteq c.waiting
    BY <1>9
  <2> QED BY <1>4, <1>6, <1>9, <1>10, <2>2, <2>3 DEF Request
<1>12. calls[i].stage # "done"
  BY <1>3 DEF c
<1>13. ASSUME h.push # "pushed"
       PROVE  /\ store'[t] = h.pf /\ \A s \in Servers : s # t => store'[s] = store[s]
              /\ online'[t] = h.online /\ \A s \in Servers : s # t => online'[s] = online[s]
              /\ Ways' = Ways
  BY <1>0, <1>1, <1>4, <1>6, <1>13, AppliedOnce
<1>14. CASE c.kind = "mail"
  <2>1. Storing(i, c.waiting, Ways, v) /\ Holds(v, store) /\ Level(store) /\ Away(online)
        /\ \A s \in Servers \ c.waiting : online[s] = Offline
    BY <1>5, <1>6, <1>14 DEF Handling
  <2>2. ~ (online[t] # Offline /\ online[t][1] = "local")
    BY <1>6, <2>1 DEF Away
  <2>3. h.push # "pushed" /\ h.pf = AppendMail(store[t], i).pf /\ h.online = Offline
    <3>1. h = MailHandled(t, i, Remote(c.at))
      BY <1>14 DEF h, Handled
    <3> QED BY <1>0, <1>6, <2>2, <3>1, MailHandledOnce
  <2>4. Away(online') /\ \A s \in Servers \ e.waiting : online'[s] = Offline
    BY <1>9, <1>13, <2>1, <2>3 DEF Away
  <2>5. PICK v2 : Neat(Ways', v2, i) /\ Handling(e, i, Ways', v2, store', online')
    <3>1. store'[t] = AppendMail(store[t], i).pf /\ e.waiting = c.waiting \ {t} /\ e.kind = "mail"
      BY <1>9, <1>10, <1>13, <1>14, <2>3
    <3> QED BY <1>0, <1>1, <1>4, <1>5, <1>6, <1>10, <1>13, <2>1, <2>3, <2>4, <3>1, StoringOnce
  <2> QED BY <1>0, <1>1, <1>4, <1>7, <1>10, <1>11, <1>12, <2>5, ChangedOnce
<1>15. CASE c.kind = "vault"
  <2>1. /\ h.push # "pushed" /\ h.pf.file = store[t].file /\ h.pf.mail_action = store[t].mail_action
        /\ h.online = online[t]
    BY <1>0, <1>4, <1>6, <1>15, VaultHandledOnce DEF h
  <2>2. AtRest(v, store', online')
    <3>1. AtRest(v, store, online)
      BY <1>5, <1>6, <1>15 DEF Handling
    <3>2. \A s \in Servers : /\ store'[s].file.mails = store[s].file.mails
                             /\ store'[s].mail_action = store[s].mail_action /\ online'[s] = online[s]
      BY <1>13, <2>1
    <3> QED BY <3>1, <3>2, RestStays
  <2>3. Handling(e, i, Ways', v, store', online')
    BY <1>10, <1>15, <2>2 DEF Handling
  <2> QED BY <1>0, <1>1, <1>4, <1>5, <1>7, <1>10, <1>11, <1>12, <1>13, <2>1, <2>3, ChangedOnce
<1>16. CASE c.kind = "read"
  <2>1. Reads(h, t, c, Remote(c.at))
    BY <1>0, <1>4, <1>6, <1>16, ReadHandledOnce DEF h
  <2>2. /\ store'[t] = h.pf /\ \A s \in Servers : s # t => store'[s] = store[s]
        /\ online'[t] = h.online /\ \A s \in Servers : s # t => online'[s] = online[s]
        /\ Ways' = Ways
    BY <1>13, <2>1 DEF Reads
  <2>3. c.nonce \in Nat /\ store[t].mail_action \in Nat
    BY <1>0, <1>4, <1>6 DEF Request, ProfileTypes, Profile
  <2>4. ASSUME Refused(c, v, store, online)
        PROVE  Refused(e, v, store', online')
    <3>1. AtRest(v, store, online) /\ \A s \in Servers : c.nonce <= store[s].mail_action
      BY <2>4 DEF Refused
    <3>2. h.pf = store[t] /\ h.ans = <<"InvalidAction">> /\ h.online = online[t]
      BY <1>6, <2>1, <2>3, <3>1 DEF Reads
    <3>3. \A s \in Servers : store'[s] = store[s] /\ online'[s] = online[s]
      BY <2>2, <3>2
    <3>4. AtRest(v, store', online')
      BY <3>1, <3>3, RestStays
    <3>5. \A x \in e.answers : x[2] = <<"InvalidAction">>
      BY <1>9, <2>4, <3>2 DEF Refused
    <3> QED BY <1>10, <3>1, <3>3, <3>4, <3>5 DEF Refused
  <2>5. ASSUME Collecting(c, v, store, online)
        PROVE  Collecting(e, v, store', online')
    <3>1. PICK a \in Nat : a < c.nonce /\ \A s \in c.waiting : store[s].mail_action = a /\ v[s] = store[s].file.mails
      BY <2>5 DEF Collecting
    <3>2. /\ h.pf.mail_action = c.nonce /\ h.pf.file.mails = <<>> /\ h.ans[1] = "Ok"
          /\ h.ans[3] = v[t] /\ h.online = Remote(c.at)
      BY <1>1, <2>1, <2>3, <3>1 DEF Reads
    <3>3. PICK p \in Paths : Pinned(online, Servers \ c.waiting, c.at, p)
      BY <2>5 DEF Collecting
    <3>4. \A s \in Servers \ e.waiting : s = t \/ s \in Servers \ c.waiting
      BY <1>9
    <3>5. Pinned(online', Servers \ e.waiting, e.at, p)
      BY <1>6, <1>10, <2>2, <3>2, <3>3, <3>4 DEF Pinned
    <3>6. \A s \in Servers \ e.waiting : store'[s].file.mails = <<>> /\ store'[s].mail_action = e.nonce
      BY <1>10, <2>2, <2>5, <3>2, <3>4 DEF Collecting
    <3>7. \A s \in e.waiting : store'[s].mail_action = a /\ v[s] = store'[s].file.mails
      BY <1>6, <1>9, <2>2, <3>1
    <3>8. \A x \in e.answers : \E s \in Servers \ e.waiting : \E ans : x = <<s, ans>> /\ ans[1] = "Ok" /\ ans[3] = v[s]
      <4>1. t \in Servers \ e.waiting
        BY <1>6, <1>9
      <4>2. \E s \in Servers \ e.waiting : \E ans : <<t, h.ans>> = <<s, ans>> /\ ans[1] = "Ok" /\ ans[3] = v[s]
        BY <3>2, <4>1
      <4>3. \A x \in c.answers : \E s \in Servers \ e.waiting : \E ans : x = <<s, ans>> /\ ans[1] = "Ok" /\ ans[3] = v[s]
        <5>1. \A s \in Servers \ c.waiting : s \in Servers \ e.waiting
          BY <1>9
        <5> QED BY <2>5, <5>1 DEF Collecting
      <4> QED BY <1>9, <4>2, <4>3
    <3> QED BY <1>10, <3>1, <3>5, <3>6, <3>7, <3>8 DEF Collecting
  <2>6. Handling(e, i, Ways', v, store', online')
    <3>1. Collecting(c, v, store, online) \/ Refused(c, v, store, online)
      BY <1>5, <1>6, <1>16 DEF Handling
    <3>2. Collecting(e, v, store', online') \/ Refused(e, v, store', online')
      BY <2>4, <2>5, <3>1
    <3> QED BY <1>10, <1>16, <3>2 DEF Handling
  <2> QED BY <1>0, <1>1, <1>4, <1>5, <1>7, <1>10, <1>11, <1>12, <2>2, <2>6, ChangedOnce
<1> QED BY <1>4, <1>14, <1>15, <1>16 DEF Request

\* What is picked has been answered by two servers: a majority is more than one.
LEMMA PickedAlike ==
    ASSUME RF > 1, NEW answers, Picked(answers) # <<"NoMajority">>
    PROVE  \E x, y \in answers : x # y /\ x[2] = Picked(answers) /\ y[2] = Picked(answers)
<1> DEFINE often == {a[2] : a \in {b \in answers : Cardinality(Answering(answers, b[2])) > RF \div 2}}
<1>1. Picked(answers) \in often
  <2>1. Picked(answers) = IF often = {} THEN <<"NoMajority">> ELSE CHOOSE a \in often : TRUE
    BY DEF Picked
  <2> HIDE DEF often
  <2> QED BY <2>1
<1>2. PICK x \in answers : x[2] = Picked(answers) /\ Cardinality(Answering(answers, x[2])) > RF \div 2
  BY <1>1
<1> DEFINE A == Answering(answers, x[2])
<1>3. x \in A /\ \A y \in A : y \in answers /\ y[2] = Picked(answers)
  BY <1>2 DEF Answering
<1>4. A # {x}
  <2>1. RF \div 2 \in Nat /\ ~ (1 > RF \div 2)
    BY GroupAssumption
  <2>2. Cardinality({x}) = 1
    BY FS_Singleton
  <2>3. A = {x} => 1 > RF \div 2
    BY <1>2, <2>2, Zenon
  <2> QED BY <2>1, <2>3
<1>5. PICK y \in A : y # x
  <2> HIDE DEF A
  <2> QED BY <1>3, <1>4
<1> QED BY <1>2, <1>3, <1>5

LEMMA FinishOnce ==
    ASSUME OnceInv, RF > 1, NEW i, Finish(i)
    PROVE  OnceInv'
<1> DEFINE c == calls[i]
           result == Picked(c.answers)
           d == Done(c, <<result[1]>>)
           mail == IF c.kind = "read" /\ result[1] = "Ok" THEN Unpacked(result[2], result[3]) ELSE <<>>
<1> SUFFICES ASSUME Steady' PROVE OnceInv'
  BY ReturnedTypes DEF OnceInv
<1>0. ProfileTypes /\ ProfileTypes'
  BY ReturnedTypes DEF OnceInv
<1>1. /\ Returned(i, result) /\ i \in DOMAIN calls /\ c.waiting = {} /\ c.stage = "repl"
      /\ suffered \subseteq suffered' /\ c.stage # "done"
  BY Faulted DEF Finish
<1>2. /\ store' = store /\ online' = online /\ session' = session /\ calls' = [calls EXCEPT ![i] = d]
      /\ received' \in {received, received \o mail}
  BY <1>1 DEF Returned, servers
<1>3. Steady
  BY <1>1, SteadyBefore
<1>4. /\ Request(c) /\ i \in Nat /\ i \in 1 .. i /\ InTurn(calls) /\ c.at \in Servers
      /\ \E v : Neat(Ways, v, i) /\ Handling(c, i, Ways, v, store, online)
  BY <1>1, <1>3, OneCallOnce
<1>5. PICK v : Neat(Ways, v, i) /\ Handling(c, i, Ways, v, store, online)
  BY <1>4
<1>6. Request(d) /\ d.stage = "done" /\ d.waiting = {}
  <2> HIDE DEF c, result
  <2> QED BY <1>1, <1>4, DoneType
<1>7. ASSUME received' = received
      PROVE  Ways' = Ways
  BY <1>2, <1>7 DEF Ways, Paths
<1>8. ASSUME mail = <<>>
      PROVE  Ways' = Ways
  <2>1. received \in Seq(Nat)
    BY <1>0 DEF ProfileTypes
  <2>2. received \o mail = received
    BY <1>8, <2>1, ConcatEmptySeq
  <2> HIDE DEF mail
  <2> QED BY <1>2, <1>7, <2>2
<1>9. ASSUME NEW v2, AtRest(v2, store, online), Neat(Ways', v2, i)
      PROVE  OnceInv'
  <2>1. AtRest(v2, store', online') /\ calls[i].stage # "done"
    BY <1>1, <1>2, <1>9
  <2> HIDE DEF d, c
  <2> QED BY <1>0, <1>1, <1>2, <1>4, <1>6, <1>9, <2>1, ChangedOnce
<1>10. CASE c.kind = "mail"
  <2>1. Holds(v, store) /\ Level(store) /\ \A s \in Servers : online[s] = Offline
    BY <1>1, <1>5, <1>10 DEF Handling
  <2>2. AtRest(v, store, online)
    BY <2>1 DEF AtRest, Settled
  <2>3. mail = <<>>
    BY <1>10
  <2> QED BY <1>5, <1>8, <1>9, <2>2, <2>3
<1>11. CASE c.kind = "vault"
  <2>1. AtRest(v, store, online)
    BY <1>1, <1>5, <1>11 DEF Handling
  <2>2. mail = <<>>
    BY <1>11
  <2> QED BY <1>5, <1>8, <1>9, <2>1, <2>2
<1>12. CASE c.kind = "read"
  <2>1. Collecting(c, v, store, online) \/ Refused(c, v, store, online)
    BY <1>1, <1>5, <1>12 DEF Handling
  <2>2. <<"NoMajority">>[1] # "Ok" /\ <<"InvalidAction">>[1] # "Ok"
    BY SMT
  <2>3. CASE Refused(c, v, store, online)
    <3>1. result = <<"NoMajority">> \/ result = <<"InvalidAction">>
      <4> HIDE DEF c
      <4> QED BY <2>3, PickedAlike DEF Refused
    <3>2. mail = <<>>
      <4> HIDE DEF result
      <4> QED BY <2>2, <3>1
    <3>3. AtRest(v, store, online)
      BY <2>3 DEF Refused
    <3> QED BY <1>5, <1>8, <1>9, <3>2, <3>3
  <2>4. CASE Collecting(c, v, store, online)
    <3> DEFINE v2 == [s \in Servers |-> store[s].file.mails]
    <3>1. v2 \in [Servers -> Seq(Nat)] /\ \A s \in Servers : v2[s] = <<>>
      <4>1. \A s \in Servers : store[s].file.mails = <<>>
        BY <1>1, <2>4 DEF Collecting
      <4> QED BY <4>1, NoMail
    <3>2. AtRest(v2, store, online)
      <4>1. Level(store)
        BY <1>1, <2>4 DEF Collecting, Level
      <4>2. Settled(online)
        <5>1. PICK p \in Paths : Pinned(online, Servers \ {}, c.at, p)
          BY <1>1, <2>4 DEF Collecting
        <5>2. Pinned(online, Servers, c.at, p)
          BY <5>1 DEF Pinned
        <5> QED BY <1>4, <5>2 DEF Settled
      <4>3. Holds(v2, store)
        BY DEF Holds
      <4> QED BY <4>1, <4>2, <4>3 DEF AtRest
    <3> HIDE DEF v2
    <3>3. /\ Neat(Ways, v2, i)
          /\ \A s, t \in Servers : s # t /\ v[s] = v[t] =>
                 Neat([Ways EXCEPT ![0] = Ways[0] \o v[s]], v2, i)
      BY <1>4, <1>5, <3>1, NeatRead
    <3>4. CASE received' = received \/ mail = <<>>
      BY <1>7, <1>8, <1>9, <3>2, <3>3, <3>4
    <3>5. CASE received' = received \o mail /\ mail # <<>>
      <4>1. mail = result[3] /\ result[1] = "Ok"
        <5> HIDE DEF result
        <5> QED BY <3>5 DEF Unpacked
      <4>2. PICK x, y \in c.answers : x # y /\ x[2] = result /\ y[2] = result
        <5>1. result # <<"NoMajority">>
          <6> HIDE DEF result
          <6> QED BY <2>2, <4>1
        <5> HIDE DEF c
        <5> QED BY <5>1, PickedAlike
      <4>3. PICK s \in Servers : \E ans : x = <<s, ans>> /\ ans[3] = v[s]
        BY <2>4 DEF Collecting
      <4>4. PICK t \in Servers : \E ans : y = <<t, ans>> /\ ans[3] = v[t]
        BY <2>4 DEF Collecting
      <4> HIDE DEF mail, result, c
      <4>5. x = <<s, result>> /\ y = <<t, result>> /\ result[3] = v[s] /\ result[3] = v[t]
        BY <4>2, <4>3, <4>4
      <4>6. s # t
        BY <4>2, <4>5
      <4>7. Ways' = [Ways EXCEPT ![0] = Ways[0] \o v[s]]
        <5>1. Paths' = Paths
          BY DEF Paths
        <5>2. Ways' = [a \in {0} \cup Paths |-> IF a = 0 THEN received' ELSE session[a].events]
          BY <1>2, <5>1 DEF Ways
        <5>3. /\ DOMAIN Ways = {0} \cup Paths /\ Ways[0] = received /\ 0 \notin Paths
              /\ \A q \in Paths : Ways[q] = session[q].events
          BY <1>0, WaysType
        <5>4. received' = Ways[0] \o v[s]
          BY <3>5, <4>1, <4>5, <5>3
        <5> QED BY <5>2, <5>3, <5>4
      <4>8. Neat(Ways', v2, i)
        BY <3>3, <4>5, <4>6, <4>7
      <4> QED BY <1>9, <3>2, <4>8
    <3> HIDE DEF mail
    <3> QED BY <1>2, <3>4, <3>5
  <2> QED BY <2>1, <2>3, <2>4
<1> QED BY <1>4, <1>10, <1>11, <1>12 DEF Request

LEMMA OnceInvInit == Init => OnceInv
<1> SUFFICES ASSUME Init PROVE OnceInv
  OBVIOUS
<1>1. ProfileTypes
  BY ProfileTypesInit
<1>2. /\ calls = <<>> /\ store = [s \in Servers |-> Created] /\ online = [s \in Servers |-> Offline]
      /\ received = <<>> /\ session = [p \in Paths |-> [state |-> "none", at |-> 0, events |-> <<>>]]
  BY DEF Init
<1> DEFINE v == [s \in Servers |-> <<>>]
<1>3. Len(calls) = 0 /\ DOMAIN calls = {}
  BY <1>2, EmptySeq
<1>4. \A a \in {0} \cup Paths : Ways[a] = <<>>
  BY <1>2 DEF Ways
<1>5. /\ DOMAIN Ways = {0} \cup Paths /\ Ways \in [{0} \cup Paths -> Seq(Nat)]
  BY <1>1, WaysType
<1>6. v \in [Servers -> Seq(Nat)] /\ \A s \in Servers : v[s] = <<>>
  BY NoMail
<1>7. Neat(Ways, v, Len(calls))
  <2> HIDE DEF v
  <2> QED BY <1>4, <1>5, <1>6, NoMail DEF Neat, Distinct
<1>8. AtRest(v, store, online)
  BY <1>2, <1>6 DEF AtRest, Holds, Level, Settled, Created, EmptyFile
<1>9. Standing(Ways, v, calls, store, online)
  BY <1>2, <1>7, <1>8 DEF Standing
<1> QED BY <1>1, <1>3, <1>9 DEF OnceInv, InTurn

LEMMA OnceInvStep ==
    ASSUME OnceInv, RF > 1, [Next]_vars
    PROVE  OnceInv'
<1>0. ProfileTypes'
  BY ProfileTypesStep, ProfileTypesStutter DEF OnceInv
<1>1. CASE \E s \in Servers : \E o \in {Somebody} \cup {Local(p) : p \in Paths} : SendMail(s, o)
  BY <1>1, SendMailOnce
<1>2. CASE \E p \in Paths : \/ \E s \in Servers : Connect(p, s)
                            \/ Subscribe(p) \/ Unsubscribe(p) \/ DeliverEvent(p) \/ Hangup(p) \/ Forget(p)
  <2>1. Servers # {}
    BY GroupAssumption, FS_EmptySet, SMT
  <2> QED BY <1>2, <2>1, VisitOnce
<1>3. CASE \E i \in 1 .. MaxCalls : \/ DirectMail(i) \/ DirectFails(i) \/ DirectReturns(i)
                                    \/ Finish(i) \/ Timeout(i)
  BY <1>0, <1>3, DirectMailOnce, DirectReturnsOnce, FinishOnce, FaultyOnce
<1>4. CASE \E i \in 1 .. MaxCalls : \E t \in Servers : Replica(i, t) \/ Unreachable(i, t) \/ Crash(i, t)
  BY <1>0, <1>4, ReplicaOnce, FaultyOnce
<1>5. CASE \E s \in Servers : Restart(s) \/ Evict(s) \/ \E k \in Keys : WriteVault(s, {k})
  BY <1>0, <1>5, FaultyOnce
<1>6. CASE \E p \in Paths : ReadMailbox(p) \/ SaveVault(p, {}) \/ \E k \in Keys : SaveVault(p, {k})
  BY <1>6, UserOnce
<1>7. CASE (\E p \in Paths : Login(p)) \/ \E k \in Keys : Defer(k)
  BY <1>0, <1>7, ClientOnce
<1>8. CASE UNCHANGED vars
  <2>1. Ways' = Ways
    BY <1>8 DEF vars, Ways, Paths
  <2>2. UNCHANGED <<calls, store, online>> /\ suffered \subseteq suffered'
    BY <1>8 DEF vars
  <2> QED BY <1>0, <2>1, <2>2, QuietOnce
<1>9. Next \/ UNCHANGED vars
  OBVIOUS
<1> QED BY <1>1, <1>2, <1>3, <1>4, <1>5, <1>6, <1>7, <1>8, <1>9 DEF Next

LEMMA OnceInvImplies ==
    ASSUME OnceInv
    PROVE  MailOnce
<1> SUFFICES ASSUME Steady PROVE IsInjective(received)
  BY DEF MailOnce, Steady
<1>1. PICK v : Standing(Ways, v, calls, store, online)
  BY DEF OnceInv
<1>2. Distinct(Ways) /\ 0 \in DOMAIN Ways /\ Ways[0] = received
  BY <1>1, WaysType DEF OnceInv, Standing, Neat
<1>3. \A j, k \in DOMAIN received : received[j] = received[k] => j = k
  BY <1>2 DEF Distinct
<1> QED BY <1>3 DEF IsInjective

\* No mail comes twice: the user gets no mail a second time, neither from its mailbox nor
\* through a session, although send_mail may store it twice on the server it asked first.
\* With RF > 1 a majority are two servers, so that what is in one mailbox twice is never
\* the answer of a read_mail.
THEOREM NoMailComesTwice ==
    ASSUME RF > 1
    PROVE  Spec => []MailOnce
<1>1. Init => OnceInv
  BY OnceInvInit
<1>2. OnceInv /\ [Next]_vars => OnceInv'
  BY OnceInvStep
<1>3. OnceInv => MailOnce
  BY OnceInvImplies
<1> QED BY <1>1, <1>2, <1>3, PTL DEF Spec

-----------------------------------------------------------------------------
(***************************************************************************)
(* Nothing that is saved is missing.  Two inductive invariants, because    *)
(* there are two reasons why all servers take a vault alike: calls that    *)
(* follow one another find the same profile everywhere, and the nonces of  *)
(* one login grow, so that of the calls that overlap the last one counts.  *)
(***************************************************************************)
Sequential == suffered \subseteq {"restart", "defer", "login", "unsubscribe", "self"}
SameLogin == suffered \subseteq {"overlap", "restart", "defer", "unsubscribe", "self"}

\* A vault on its way to a server, also when nobody waits for the answer.
Pending(c) == c.kind = "vault" /\ (c.stage # "done" \/ c.waiting # {})

\* What is not to be saved any more is as the user has it.
Agrees(vault, cl) == \A k \in Keys \ cl.changes : vault[k] = cl.vault[k]
\* The changes of the call are all that the server lacks.
Fits(pf, c) == \A k \in Keys \ c.changes : pf.vault[k] = c.root[k]
Verdict(c, fresh) == IF ~Accepts(c.root) THEN <<"TooManyKeys">>
                     ELSE IF fresh THEN <<"Ok">> ELSE <<"InvalidAction">>
Unanimous(c, ans) == c.answers = {<<s, ans>> : s \in Servers \ c.waiting}
HasVault(pf, c) == pf.vault_version = c.nonce /\ pf.vault = c.root

\* The servers had the version v before the call, and those in w have it still.
Handed(c, w, v, st) ==
    /\ \A s \in w : st[s].vault_version = v /\ Fits(st[s], c)
    /\ \A s \in Servers \ w :
           IF Verdict(c, v < c.nonce) = <<"Ok">> THEN HasVault(st[s], c) ELSE st[s].vault_version = v
Handing(c, v, st) ==
    /\ Handed(c, c.waiting, v, st)
    /\ c.stage = "repl" => Unanimous(c, Verdict(c, v < c.nonce))

Waited(c, cl) == Pending(c) /\ c.stage = "repl" /\ c.root = cl.vault

InSequence ==
    /\ \A s \in Servers : Agrees(store[s].vault, client)
    /\ \A i, j \in DOMAIN calls : Pending(calls[i]) /\ Pending(calls[j]) => i = j
    /\ \A i \in DOMAIN calls : Pending(calls[i]) =>
           Agrees(calls[i].root, client) /\ \E v \in Nat : Handing(calls[i], v, store)
    /\ client.saving # 0 => client.saving \in DOMAIN calls /\ Waited(calls[client.saving], client)
    /\ (\A i \in DOMAIN calls : ~Pending(calls[i])) =>
           \A s, t \in Servers : store[s].vault_version = store[t].vault_version

\* The user waits for call c, with the highest nonce.
Newest(c, st, cl) ==
    /\ c.changes = cl.changes /\ c.nonce + 1 = cl.version
    /\ \A s \in c.waiting : st[s].vault_version < c.nonce
    /\ \A s \in Servers \ c.waiting : Accepts(c.root) => HasVault(st[s], c)
    /\ Unanimous(c, Verdict(c, TRUE))

ByNonce ==
    /\ \A s \in Servers : Agrees(store[s].vault, client) /\ store[s].vault_version < client.version
    /\ \A i \in DOMAIN calls : Pending(calls[i]) =>
           /\ calls[i].nonce < client.version
           /\ Agrees(calls[i].root, client) \/ \A s \in Servers : store[s].vault_version >= calls[i].nonce
    /\ client.saving # 0 =>
           /\ client.saving \in DOMAIN calls /\ Waited(calls[client.saving], client)
           /\ Newest(calls[client.saving], store, client)
           /\ \A i \in DOMAIN calls : i # client.saving /\ Pending(calls[i]) =>
                  calls[i].nonce < calls[client.saving].nonce

\* The inductive invariant of VaultSaved.
VaultInv == /\ ProfileTypes
            /\ Sequential => InSequence
            /\ SameLogin => ByNonce

-----------------------------------------------------------------------------
\* A server that lacks nothing else takes the vault, if it is not too large or outdated.
LEMMA VaultTaken ==
    ASSUME NEW c, Request(c), NEW pf \in Profile, Fits(pf, c)
    PROVE  LET r == InsertToVault(pf, c.changes, c.root, c.nonce)
           IN  /\ r.ans = Verdict(c, pf.vault_version < c.nonce)
               /\ IF r.ans = <<"Ok">> THEN HasVault(r.pf, c) ELSE r.pf = pf
<1> DEFINE r == InsertToVault(pf, c.changes, c.root, c.nonce)
           new == Overlaid(pf.vault, c.changes, c.root)
           many == Cardinality({k \in Keys : new[k] # 0}) >= MaxVaultKeys
           q == [pf EXCEPT !.vault_version = c.nonce, !.vault = new]
<1>0. c.root \in [Keys -> Nat] /\ c.nonce \in Nat /\ pf.vault \in [Keys -> Nat] /\ pf.vault_version \in Nat
  BY DEF Request, Profile
<1>1. new = c.root
  BY <1>0 DEF Overlaid, Fits
<1>2. many <=> ~Accepts(c.root)
  BY <1>1 DEF Accepts
<1>3. c.nonce <= pf.vault_version <=> ~ (pf.vault_version < c.nonce)
  BY <1>0
<1>4. /\ many => r = [ans |-> <<"TooManyKeys">>, pf |-> pf]
      /\ ~many /\ c.nonce <= pf.vault_version => r = [ans |-> <<"InvalidAction">>, pf |-> pf]
      /\ ~many /\ ~(c.nonce <= pf.vault_version) => r = [ans |-> <<"Ok">>, pf |-> q]
  BY <1>1 DEF InsertToVault, Err, Outdated
<1>5. HasVault(q, c)
  BY <1>1 DEF HasVault, Profile
<1>6. <<"TooManyKeys">> # <<"Ok">> /\ <<"InvalidAction">> # <<"Ok">>
  OBVIOUS
<1> HIDE DEF many, q, r
<1> QED BY <1>2, <1>3, <1>4, <1>5, <1>6 DEF Verdict, r

\* Mails do not touch the vault.
LEMMA MailKeepsVault ==
    ASSUME NEW c, Request(c), c.kind # "vault", NEW i \in Nat, NEW pf \in Profile
    PROVE  /\ Outcome(c, i, pf).pf.vault_version = pf.vault_version
           /\ Outcome(c, i, pf).pf.vault = pf.vault
<1>1. c.nonce \in Nat /\ c.kind \in {"mail", "read"}
  BY DEF Request
<1> QED BY <1>1, MailAppended, MailRead DEF Outcome

\* An answer that everybody gave, or none is picked.
LEMMA UnanimousPicked ==
    ASSUME NEW c, NEW ans, Unanimous(c, ans)
    PROVE  Picked(c.answers) \in {ans, <<"NoMajority">>}
<1> DEFINE answers == c.answers
           often == {a[2] : a \in {b \in answers : Cardinality(Answering(answers, b[2])) > RF \div 2}}
<1>1. Picked(answers) = IF often = {} THEN <<"NoMajority">> ELSE CHOOSE a \in often : TRUE
  BY DEF Picked
<1>2. \A a \in answers : a[2] = ans
  BY DEF Unanimous
<1>3. \A x \in often : x = ans
  BY <1>2
<1> HIDE DEF often
<1> QED BY <1>1, <1>3

-----------------------------------------------------------------------------
\* A step that leaves the vaults, what the user wants saved and the vaults on their way.
VaultQuiet ==
    /\ \A s \in Servers : store'[s].vault = store[s].vault /\ store'[s].vault_version = store[s].vault_version
    /\ client'.vault = client.vault /\ client'.changes = client.changes
    /\ client'.version = client.version /\ client'.saving = client.saving
    /\ \A i \in DOMAIN calls : i \in DOMAIN calls'
    /\ \A i \in DOMAIN calls' : Pending(calls'[i]) => i \in DOMAIN calls /\ calls'[i] = calls[i]
    /\ \A i \in DOMAIN calls : Pending(calls[i]) => calls'[i] = calls[i]

LEMMA VaultQuietInv ==
    ASSUME VaultInv, ProfileTypes', VaultQuiet, suffered \subseteq suffered'
    PROVE  VaultInv'
<1>1. (Sequential' => Sequential) /\ (SameLogin' => SameLogin)
  BY DEF Sequential, SameLogin
<1>2. \A vault : Agrees(vault, client') <=> Agrees(vault, client)
  BY DEF VaultQuiet, Agrees
<1>3. \A s \in Servers : Agrees(store[s].vault, client) => Agrees(store'[s].vault, client')
  BY DEF VaultQuiet, Agrees
<1>4. ASSUME InSequence
      PROVE  InSequence'
  <2>1. \A i, j \in DOMAIN calls' : Pending(calls'[i]) /\ Pending(calls'[j]) => i = j
    BY <1>4 DEF VaultQuiet, InSequence
  <2>2. ASSUME NEW i \in DOMAIN calls', Pending(calls'[i])
        PROVE  Agrees(calls'[i].root, client') /\ \E v \in Nat : Handing(calls'[i], v, store')
    <3>1. i \in DOMAIN calls /\ calls'[i] = calls[i]
      BY <2>2 DEF VaultQuiet
    <3>2. Agrees(calls'[i].root, client')
      BY <1>2, <1>4, <2>2, <3>1 DEF InSequence, Agrees, VaultQuiet
    <3>3. PICK v \in Nat : Handing(calls[i], v, store)
      BY <1>4, <2>2, <3>1 DEF InSequence
    <3>4. calls[i].waiting \subseteq Servers
      BY <3>1, CallsAre DEF VaultInv, ProfileTypes, Request
    <3>5. Handing(calls[i], v, store')
      BY <3>3, <3>4 DEF Handing, Handed, VaultQuiet, Fits, HasVault
    <3> QED BY <3>1, <3>2, <3>5
  <2>3. client'.saving # 0 => client'.saving \in DOMAIN calls' /\ Waited(calls'[client'.saving], client')
    BY <1>4 DEF VaultQuiet, InSequence, Waited, Pending
  <2>4. (\A i \in DOMAIN calls' : ~Pending(calls'[i])) =>
           \A s, t \in Servers : store'[s].vault_version = store'[t].vault_version
    BY <1>4 DEF VaultQuiet, InSequence
  <2>5. \A s \in Servers : Agrees(store'[s].vault, client')
    BY <1>3, <1>4 DEF InSequence
  <2> QED BY <2>1, <2>2, <2>3, <2>4, <2>5 DEF InSequence
<1>5. ASSUME ByNonce
      PROVE  ByNonce'
  <2>1. \A s \in Servers : Agrees(store'[s].vault, client') /\ store'[s].vault_version < client'.version
    BY <1>3, <1>5 DEF ByNonce, VaultQuiet
  <2>2. ASSUME NEW i \in DOMAIN calls', Pending(calls'[i])
        PROVE  /\ calls'[i].nonce < client'.version
               /\ Agrees(calls'[i].root, client') \/ \A s \in Servers : store'[s].vault_version >= calls'[i].nonce
    <3>1. i \in DOMAIN calls /\ calls'[i] = calls[i]
      BY <2>2 DEF VaultQuiet
    <3> QED BY <1>2, <1>5, <2>2, <3>1 DEF ByNonce, VaultQuiet
  <2>3. ASSUME client'.saving # 0
        PROVE  /\ client'.saving \in DOMAIN calls' /\ Waited(calls'[client'.saving], client')
               /\ Newest(calls'[client'.saving], store', client')
               /\ \A i \in DOMAIN calls' : i # client'.saving /\ Pending(calls'[i]) =>
                      calls'[i].nonce < calls'[client'.saving].nonce
    <3> DEFINE j == client.saving
    <3>1. /\ client'.saving = j /\ j \in DOMAIN calls /\ j \in DOMAIN calls' /\ calls'[j] = calls[j]
          /\ Waited(calls[j], client) /\ Newest(calls[j], store, client)
          /\ \A i \in DOMAIN calls : i # j /\ Pending(calls[i]) => calls[i].nonce < calls[j].nonce
      BY <1>5, <2>3 DEF ByNonce, VaultQuiet, Waited
    <3>2. calls[j].waiting \subseteq Servers
      BY <3>1, CallsAre DEF VaultInv, ProfileTypes, Request
    <3> HIDE DEF j
    <3>3. Waited(calls[j], client') /\ Newest(calls[j], store', client')
      BY <3>1, <3>2 DEF VaultQuiet, Waited, Newest, HasVault
    <3>4. \A i \in DOMAIN calls' : i # j /\ Pending(calls'[i]) => calls'[i].nonce < calls'[j].nonce
      BY <3>1 DEF VaultQuiet
    <3> QED BY <3>1, <3>3, <3>4
  <2> QED BY <2>1, <2>2, <2>3 DEF ByNonce
<1> QED BY <1>1, <1>4, <1>5 DEF VaultInv

-----------------------------------------------------------------------------
\* The steps that leave the vaults alone.
VaultsStay == \A s \in Servers : store'[s].vault = store[s].vault /\ store'[s].vault_version = store[s].vault_version

LEMMA VaultsStayApplied ==
    ASSUME ProfileTypes, NEW s \in Servers, NEW i \in Nat, NEW h, NEW stray, Apply(s, i, h, stray),
           NEW c, Request(c), c.kind # "vault",
           AsAll(h, c, i, store[s]) \/ Pushes(h, c, store[s]) \/ Refuses(h, c, store[s])
    PROVE  VaultsStay
<1>1. store'[s] = h.pf /\ \A t \in Servers : t # s => store'[t] = store[t]
  BY DEF Apply, ProfileTypes
<1>2. store[s] \in Profile
  BY DEF ProfileTypes
<1>3. h.pf.vault = store[s].vault /\ h.pf.vault_version = store[s].vault_version
  BY <1>2, MailKeepsVault DEF AsAll, Pushes, Refuses
<1> QED BY <1>1, <1>3 DEF VaultsStay

\* A call is added, or one changes, that is not of the vault.
LEMMA CallAddedQuiet ==
    ASSUME ProfileTypes, NEW c, Request(c), ~Pending(c), calls' = Append(calls, c), VaultsStay,
           client'.vault = client.vault, client'.changes = client.changes,
           client'.version = client.version, client'.saving = client.saving
    PROVE  VaultQuiet
<1>1. Requests(calls)
  BY DEF ProfileTypes
<1>2. /\ DOMAIN calls' = DOMAIN calls \cup {Len(calls) + 1} /\ calls'[Len(calls) + 1] = c
      /\ \A i \in DOMAIN calls : calls'[i] = calls[i]
  BY <1>1, RequestAdded
<1> QED BY <1>2 DEF VaultQuiet, VaultsStay

LEMMA CallChangedQuiet ==
    ASSUME ProfileTypes, NEW i \in DOMAIN calls, NEW d, Request(d), ~Pending(calls[i]), ~Pending(d),
           calls' = [calls EXCEPT ![i] = d], VaultsStay,
           client'.vault = client.vault, client'.changes = client.changes,
           client'.version = client.version, client'.saving = client.saving
    PROVE  VaultQuiet
<1>1. Requests(calls)
  BY DEF ProfileTypes
<1>2. /\ DOMAIN calls' = DOMAIN calls /\ calls'[i] = d
      /\ \A j \in DOMAIN calls : j # i => calls'[j] = calls[j]
  BY <1>1, RequestChanged
<1> QED BY <1>2 DEF VaultQuiet, VaultsStay

LEMMA StartQuiet ==
    ASSUME ProfileTypes, NEW c, Fresh(c), c.kind # "vault", Start(c),
           client'.vault = client.vault, client'.changes = client.changes,
           client'.version = client.version, client'.saving = client.saving
    PROVE  VaultQuiet
<1>0. Request(c) /\ c.at \in Servers /\ c.result = <<>> /\ Requests(calls) /\ c.origin \in Places
  BY DEF Fresh, ProfileTypes
<1>1. PICK i \in Nat : i = Len(calls) + 1
  BY <1>0, CallsAre
<1> DEFINE h == Handled(c.at, i, c, c.origin)
           r == Replicating(c, h.ans)
<1>2. calls' = Append(calls, r) /\ Apply(c.at, i, h, {<<"SendingToSelf">>})
  BY <1>1 DEF Start
<1>3. /\ AsAll(h, c, i, store[c.at]) \/ Pushes(h, c, store[c.at]) \/ Refuses(h, c, store[c.at])
      /\ Readable(c.kind, h.ans)
  BY <1>0, HandledWays, HandledTypes
<1> HIDE DEF h
<1>4. VaultsStay
  BY <1>0, <1>2, <1>3, VaultsStayApplied
<1>5. Request(r) /\ r.kind = c.kind
  BY <1>0, <1>3, ReplicatingRequest
<1> HIDE DEF r
<1> QED BY <1>2, <1>4, <1>5, CallAddedQuiet DEF Pending

LEMMA MailQuiet ==
    ASSUME ProfileTypes, NEW i,
           \/ \E s \in Servers : \E o \in {Somebody} \cup {Local(p) : p \in Paths} : SendMail(s, o)
           \/ DirectMail(i) \/ DirectReturns(i) \/ \E p \in Paths : ReadMailbox(p)
    PROVE  VaultQuiet
<1>1. CASE \E s \in Servers : \E o \in {Somebody} \cup {Local(p) : p \in Paths} : SendMail(s, o)
  <2>1. PICK s \in Servers : \E o \in {Somebody} \cup {Local(p) : p \in Paths} : SendMail(s, o)
    BY <1>1
  <2>2. PICK o \in {Somebody} \cup {Local(p) : p \in Paths} : SendMail(s, o)
    BY <2>1
  <2> DEFINE c == Call("mail", s, o)
             d == [c EXCEPT !.stage = "direct", !.got = online[s]]
  <2>3. Fresh(c) /\ c.kind = "mail"
    <3>1. o \in Places
      BY DEF Places, Somebody
    <3> QED BY <3>1, FreshCall
  <2>4. client' = client
    BY <2>2 DEF SendMail
  <2>5. CASE Start(c)
    <3> HIDE DEF c
    <3> QED BY <2>3, <2>4, <2>5, StartQuiet
  <2>6. CASE calls' = Append(calls, d) /\ UNCHANGED <<servers, session, uneven>>
    <3>1. ProfileTypes'
      BY <2>2, SendMailTypes
    <3>2. Requests(calls) /\ Requests(calls')
      BY <3>1 DEF ProfileTypes
    <3>3. DOMAIN calls' = 1 .. Len(calls) + 1 /\ calls'[Len(calls) + 1] = d /\ Len(calls) \in Nat
      <4>1. PICK S : calls \in Seq(S)
        BY <3>2 DEF Requests
      <4>2. calls \in Seq(S \cup {d}) /\ d \in S \cup {d}
        BY <4>1
      <4> HIDE DEF d
      <4> QED BY <2>6, <4>2, AppendProperties, LenProperties
    <3>4. Request(d)
      BY <3>2, <3>3 DEF Requests
    <3>5. ~Pending(d)
      BY DEF Pending, Call
    <3>6. VaultsStay
      BY <2>6 DEF VaultsStay, servers
    <3> HIDE DEF d
    <3> QED BY <2>4, <2>6, <3>4, <3>5, <3>6, CallAddedQuiet
  <2> QED BY <2>2, <2>5, <2>6 DEF SendMail
<1>2. CASE DirectMail(i)
  <2> DEFINE t == calls[i].got[2]
             h == MailHandled(t, i, Remote(calls[i].at))
             d == [calls[i] EXCEPT !.stage = "back", !.got = h.ans]
  <2>1. i \in DOMAIN calls /\ i \in Nat /\ Request(calls[i]) /\ calls[i].stage = "direct"
    BY <1>2, CallsAre DEF ProfileTypes, DirectMail
  <2>2. t \in Servers /\ calls[i].kind = "mail" /\ calls[i].waiting = {}
    BY <2>1 DEF Request, Remote
  <2>3. /\ Apply(t, i, h, {<<"Ok">>}) /\ client' = client /\ calls' = [calls EXCEPT ![i] = d]
    BY <1>2 DEF DirectMail
  <2>4. AsAll(h, calls[i], i, store[t]) \/ Pushes(h, calls[i], store[t]) \/ Refuses(h, calls[i], store[t])
    BY <2>2, MailHandledWays
  <2> HIDE DEF h, t
  <2>5. Request(d) /\ d.kind = "mail"
    BY <2>1, <2>2 DEF Request
  <2> HIDE DEF d
  <2>6. VaultsStay
    BY <2>1, <2>2, <2>3, <2>4, VaultsStayApplied
  <2> QED BY <2>1, <2>2, <2>3, <2>5, <2>6, CallChangedQuiet DEF Pending
<1>3. CASE DirectReturns(i)
  <2> DEFINE c == calls[i]
             res == AppendMail(store[c.at], i)
  <2>1. i \in DOMAIN calls /\ i \in Nat /\ Request(c) /\ c.stage = "back" /\ client' = client
    BY <1>3, CallsAre DEF ProfileTypes, DirectReturns
  <2>2. c.at \in Servers /\ c.result = <<>> /\ c.kind = "mail" /\ c.waiting = {}
    BY <2>1 DEF Request
  <2>3. CASE c.got = <<"SentDirectly">>
    <3>1. calls' = [calls EXCEPT ![i] = Done(c, c.got)] /\ store' = store
      BY <1>3, <2>3 DEF DirectReturns, servers
    <3>2. Request(Done(c, c.got)) /\ Done(c, c.got).kind = "mail"
      BY <2>1, <2>2, DoneType
    <3>3. VaultsStay
      BY <3>1 DEF VaultsStay
    <3> QED BY <2>1, <2>2, <3>1, <3>2, <3>3, CallChangedQuiet DEF Pending
  <2>4. CASE c.got # <<"SentDirectly">>
    <3>1. store' = [store EXCEPT ![c.at] = res.pf] /\ calls' = [calls EXCEPT ![i] = Replicating(c, res.ans)]
      BY <1>3, <2>4 DEF DirectReturns
    <3>2. store[c.at] \in Profile
      BY <2>2 DEF ProfileTypes
    <3>3. res.pf.vault = store[c.at].vault /\ res.pf.vault_version = store[c.at].vault_version
      BY <2>1, <3>2, MailAppended
    <3> HIDE DEF res
    <3>4. VaultsStay
      BY <2>2, <3>1, <3>3 DEF VaultsStay, ProfileTypes
    <3>5. Request(Replicating(c, res.ans)) /\ Replicating(c, res.ans).kind = "mail"
      <4>1. Readable(c.kind, res.ans)
        BY <2>2 DEF Readable
      <4> QED BY <2>1, <2>2, <4>1, ReplicatingRequest
    <3> QED BY <2>1, <2>2, <3>1, <3>4, <3>5, CallChangedQuiet DEF Pending
  <2> QED BY <2>3, <2>4
<1>4. CASE \E p \in Paths : ReadMailbox(p)
  <2>1. PICK p \in Paths : ReadMailbox(p)
    BY <1>4
  <2>2. Live(p) /\ Client(client)
    BY <2>1 DEF ReadMailbox, ProfileTypes
  <2>3. Fresh(ReadRequest(p)) /\ Start(ReadRequest(p)) /\ ReadRequest(p).kind = "read"
    BY <2>1, <2>2, UserRequests DEF ReadMailbox, ReadRequest
  <2>4. client' = [client EXCEPT !.mail_action = @ + 1]
    BY <2>1 DEF ReadMailbox
  <2>5. /\ client'.vault = client.vault /\ client'.changes = client.changes
        /\ client'.version = client.version /\ client'.saving = client.saving
    BY <2>2, <2>4 DEF Client
  <2> QED BY <2>3, <2>5, StartQuiet
<1> QED BY <1>1, <1>2, <1>3, <1>4

\* Nothing of what the vaults depend on changes, or a server loads a profile again.
LEMMA RestQuiet ==
    ASSUME ProfileTypes,
           \/ UNCHANGED <<store, calls, client>>
           \/ \E s \in Servers : Evict(s)
    PROVE  VaultQuiet
<1>1. CASE UNCHANGED <<store, calls, client>>
  BY <1>1 DEF VaultQuiet
<1>2. CASE \E s \in Servers : Evict(s)
  <2>1. PICK s \in Servers : Evict(s)
    BY <1>2
  <2>2. store' = [store EXCEPT ![s] = Loaded(store[s])] /\ UNCHANGED <<calls, client>>
    BY <2>1 DEF Evict
  <2>3. store[s] \in Profile /\ DOMAIN store = Servers
    BY DEF ProfileTypes
  <2>4. Loaded(store[s]).vault = store[s].vault /\ Loaded(store[s]).vault_version = store[s].vault_version
    BY <2>3, LoadedType
  <2> QED BY <2>2, <2>3, <2>4 DEF VaultQuiet
<1> QED BY <1>1, <1>2

\* A request that is not of the vault at a replica, and its end.
LEMMA ReplicaQuiet ==
    ASSUME ProfileTypes, NEW i, NEW t, Replica(i, t), calls[i].kind # "vault"
    PROVE  VaultQuiet
<1> DEFINE c == calls[i]
           h == Handled(t, i, c, Remote(c.at))
<1>1. i \in DOMAIN calls /\ i \in Nat /\ Request(c) /\ t \in c.waiting
  BY CallsAre DEF ProfileTypes, Replica
<1>2. t \in Servers /\ c.at \in Servers
  BY <1>1 DEF Request
<1>3. Apply(t, i, h, {<<"SentDirectly">>}) /\ client' = client
  BY DEF Replica
<1>4. AsAll(h, c, i, store[t]) \/ Pushes(h, c, store[t]) \/ Refuses(h, c, store[t])
  BY <1>1, HandledWays
<1>5. VaultsStay
  <2> HIDE DEF h, c
  <2> QED BY <1>1, <1>2, <1>3, <1>4, VaultsStayApplied DEF c
<1>6. PICK d : calls' = [calls EXCEPT ![i] = d]
  BY DEF Replica
<1>7. Request(d) /\ d.kind = c.kind
  <2>1. ProfileTypes'
    BY ReplicaTypes
  <2>2. d = calls'[i] /\ i \in DOMAIN calls'
    BY <1>1, <1>6
  <2>3. Request(d)
    BY <2>1, <2>2 DEF ProfileTypes, Requests
  <2> DEFINE g == [c EXCEPT !.waiting = @ \ {t}]
  <2>4. d = IF c.stage = "done" THEN Done(g, c.result) ELSE [g EXCEPT !.answers = @ \cup {<<t, h.ans>>}]
    BY <1>1, <2>2 DEF Replica
  <2>5. Request(g) /\ g.kind = c.kind
    BY <1>1 DEF Request
  <2> HIDE DEF g, h, c
  <2>6. Done(g, c.result).kind = g.kind
    BY <2>5, DoneType
  <2>7. [g EXCEPT !.answers = @ \cup {<<t, h.ans>>}].kind = g.kind
    BY <2>5 DEF Request
  <2> QED BY <2>3, <2>4, <2>5, <2>6, <2>7
<1> QED BY <1>1, <1>3, <1>5, <1>6, <1>7, CallChangedQuiet DEF Pending

-----------------------------------------------------------------------------
\* The steps of a vault's call: what they do.
Insertion(pf, c) == InsertToVault(pf, c.changes, c.root, c.nonce)

LEMMA SaveEffect ==
    ASSUME ProfileTypes, NEW p \in Paths, NEW ks, ks \subseteq Keys, SaveVault(p, ks)
    PROVE  \E r :
              /\ Request(r) /\ r.kind = "vault" /\ r.stage = "repl" /\ r.at \in Servers
              /\ r.waiting = Servers \ {r.at}
              /\ r.answers = {<<r.at, Insertion(store[r.at], r).ans>>}
              /\ store' = [store EXCEPT ![r.at] = Insertion(store[r.at], r).pf]
              /\ calls' = Append(calls, r)
              /\ r.root = client'.vault /\ r.changes = client'.changes /\ r.nonce = client.version
              /\ client.saving = 0 /\ client'.saving = Len(calls) + 1 /\ client'.version = client.version + 1
              /\ client.changes \subseteq client'.changes
              /\ \A k \in Keys \ client'.changes : client'.vault[k] = client.vault[k]
<1> DEFINE cl == Edited(client, ks)
           c == SaveRequest(p, cl)
<1>1. Live(p) /\ Client(cl) /\ Start(c) /\ Client(client)
  BY SaveVaultTypes DEF SaveVault, ProfileTypes
<1>2. /\ cl.changes = client.changes \cup ks /\ cl.version = client.version
      /\ \A k \in Keys \ ks : cl.vault[k] = client.vault[k]
  BY <1>1, EditedType
<1>3. client.saving = 0 /\ client' = [cl EXCEPT !.version = @ + 1, !.saving = Len(calls) + 1]
  BY DEF SaveVault
<1> HIDE DEF cl
<1>4. /\ client'.vault = cl.vault /\ client'.changes = cl.changes /\ client'.version = client.version + 1
      /\ client'.saving = Len(calls) + 1
  BY <1>1, <1>2, <1>3 DEF Client
<1>5. /\ Fresh(c) /\ c.kind = "vault" /\ c.nonce = cl.version /\ c.changes = cl.changes /\ c.root = cl.vault
  BY <1>1, UserRequests
<1> HIDE DEF c
<1>6. Request(c) /\ c.at \in Servers /\ c.result = <<>> /\ Requests(calls) /\ c.origin \in Places
  BY <1>5 DEF Fresh, ProfileTypes
<1>7. PICK i \in Nat : i = Len(calls) + 1
  BY <1>6, CallsAre
<1> DEFINE h == Handled(c.at, i, c, c.origin)
           r == Replicating(c, h.ans)
<1>8. calls' = Append(calls, r) /\ Apply(c.at, i, h, {<<"SendingToSelf">>})
  BY <1>1, <1>7 DEF Start
<1>9. AsAll(h, c, i, store[c.at]) /\ Readable(c.kind, h.ans)
  BY <1>5, <1>6, HandledWays, HandledTypes DEF Pushes, Refuses
<1> HIDE DEF h
<1>10. h.pf = Insertion(store[c.at], c).pf /\ h.ans = Insertion(store[c.at], c).ans
  BY <1>5, <1>9 DEF AsAll, Outcome, Insertion
<1>11. h.ans # <<"SentDirectly">>
  BY <1>6, <1>7, <1>9, OutcomeType DEF AsAll, ProfileTypes
<1>12. /\ Request(r) /\ r.kind = c.kind /\ r.stage = "repl" /\ r.result = <<>>
       /\ r.waiting = Servers \ {c.at} /\ r.answers = {<<c.at, h.ans>>} /\ r.at = c.at
       /\ r.nonce = c.nonce /\ r.changes = c.changes /\ r.root = c.root
  BY <1>6, <1>9, <1>11, ReplicatingType
<1> HIDE DEF r
<1>13. Insertion(store[c.at], r) = Insertion(store[c.at], c)
  BY <1>12 DEF Insertion
<1>14. store' = [store EXCEPT ![c.at] = h.pf]
  BY <1>8 DEF Apply
<1>15. client.changes \subseteq cl.changes /\ \A k \in Keys \ cl.changes : cl.vault[k] = client.vault[k]
  BY <1>2
<1>16. /\ Request(r) /\ r.kind = "vault" /\ r.stage = "repl" /\ r.at \in Servers
       /\ r.waiting = Servers \ {r.at}
  BY <1>5, <1>6, <1>12
<1>17. /\ r.answers = {<<r.at, Insertion(store[r.at], r).ans>>}
       /\ store' = [store EXCEPT ![r.at] = Insertion(store[r.at], r).pf]
  BY <1>10, <1>12, <1>13, <1>14
<1>18. r.root = client'.vault /\ r.changes = client'.changes /\ r.nonce = client.version
  BY <1>2, <1>4, <1>5, <1>12
<1> QED BY <1>3, <1>4, <1>8, <1>15, <1>16, <1>17, <1>18

LEMMA ReplicaEffect ==
    ASSUME ProfileTypes, NEW i, NEW t, Replica(i, t), calls[i].kind = "vault"
    PROVE  /\ i \in DOMAIN calls /\ t \in Servers /\ t \in calls[i].waiting /\ Request(calls[i])
           /\ store' = [store EXCEPT ![t] = Insertion(store[t], calls[i]).pf] /\ client' = client
           /\ \E e : /\ Request(e) /\ calls' = [calls EXCEPT ![i] = e] /\ e.kind = "vault"
                     /\ e.stage = calls[i].stage /\ e.waiting = calls[i].waiting \ {t}
                     /\ Pending(e) => /\ e.root = calls[i].root /\ e.nonce = calls[i].nonce
                                      /\ e.changes = calls[i].changes
                     /\ e.stage = "repl" =>
                            e.answers = calls[i].answers \cup {<<t, Insertion(store[t], calls[i]).ans>>}
<1> DEFINE c == calls[i]
           h == Handled(t, i, c, Remote(c.at))
           w == c.waiting \ {t}
           d == [c EXCEPT !.waiting = w]
           e == IF c.stage = "done" THEN Done(d, c.result) ELSE [d EXCEPT !.answers = c.answers \cup {<<t, h.ans>>}]
<1>1. i \in DOMAIN calls /\ i \in Nat /\ Request(c) /\ t \in c.waiting
  BY CallsAre DEF ProfileTypes, Replica
<1>2. t \in Servers /\ c.at \in Servers
  BY <1>1 DEF Request
<1>3. Apply(t, i, h, {<<"SentDirectly">>}) /\ client' = client
  BY DEF Replica
<1>4. AsAll(h, c, i, store[t]) /\ c.kind = "vault"
  BY <1>1, HandledWays DEF Pushes, Refuses
<1>5. calls' = [calls EXCEPT ![i] = e]
  <2>1. d.answers = c.answers
    BY <1>1 DEF Request
  <2>2. calls' = [calls EXCEPT ![i] = IF c.stage = "done" THEN Done(d, c.result)
                                      ELSE [d EXCEPT !.answers = @ \cup {<<t, h.ans>>}]]
    BY DEF Replica
  <2> HIDE DEF d, c, h
  <2> QED BY <2>1, <2>2
<1>6. Request(e)
  <2>1. ProfileTypes'
    BY ReplicaTypes
  <2>2. e = calls'[i] /\ i \in DOMAIN calls'
    BY <1>1, <1>5
  <2> QED BY <2>1, <2>2 DEF ProfileTypes, Requests
<1> HIDE DEF h
<1>7. h.pf = Insertion(store[t], c).pf /\ h.ans = Insertion(store[t], c).ans
  BY <1>4 DEF AsAll, Outcome, Insertion
<1>8. /\ Request(d) /\ d.kind = c.kind /\ d.waiting = w /\ d.stage = c.stage /\ d.at = c.at
      /\ d.nonce = c.nonce /\ d.changes = c.changes /\ d.root = c.root
  BY <1>1 DEF Request
<1> HIDE DEF d
<1>9. CASE c.stage = "done"
  <2>1. e = Done(d, c.result)
    BY <1>9
  <2> HIDE DEF c, e
  <2>2. /\ e.stage = "done" /\ e.waiting = d.waiting /\ e.kind = d.kind
        /\ d.waiting # {} => /\ e.at = d.at /\ e.nonce = d.nonce /\ e.changes = d.changes /\ e.root = d.root
    BY <1>8, <2>1, DoneType
  <2> QED BY <1>1, <1>2, <1>3, <1>4, <1>5, <1>6, <1>7, <1>8, <1>9, <2>2 DEF Pending, Apply, c
<1>10. CASE c.stage # "done"
  <2>1. e = [d EXCEPT !.answers = c.answers \cup {<<t, h.ans>>}]
    BY <1>10
  <2> HIDE DEF c, e
  <2>2. /\ e.answers = c.answers \cup {<<t, h.ans>>} /\ e.waiting = d.waiting /\ e.stage = d.stage
        /\ e.kind = d.kind /\ e.nonce = d.nonce /\ e.changes = d.changes /\ e.root = d.root
    BY <1>8, <2>1 DEF Request
  <2> QED BY <1>1, <1>2, <1>3, <1>4, <1>5, <1>6, <1>7, <1>8, <2>2 DEF Apply, c
<1> QED BY <1>9, <1>10

LEMMA FinishEffect ==
    ASSUME ProfileTypes, NEW i, Finish(i)
    PROVE  /\ i \in DOMAIN calls /\ Request(calls[i]) /\ calls[i].stage = "repl" /\ calls[i].waiting = {}
           /\ store' = store
           /\ \E d : Request(d) /\ ~Pending(d) /\ calls' = [calls EXCEPT ![i] = d]
           /\ client'.vault = client.vault /\ client'.version = client.version
           /\ client.saving # i => client' = client
           /\ client.saving = i => /\ client'.saving = 0
                                   /\ \/ client'.changes = client.changes
                                      \/ client'.changes = {} /\ Picked(calls[i].answers)[1] = "Ok"
<1> DEFINE c == calls[i]
           result == Picked(c.answers)
           d == Done(c, <<result[1]>>)
<1>1. /\ Returned(i, result) /\ i \in DOMAIN calls /\ c.waiting = {} /\ c.stage = "repl" /\ Request(c)
      /\ Client(client)
  BY CallsAre DEF Finish, ProfileTypes
<1>2. store' = store /\ calls' = [calls EXCEPT ![i] = d]
  BY <1>1 DEF Returned, servers
<1>3. Request(d) /\ ~Pending(d)
  <2> HIDE DEF c, result
  <2> QED BY <1>1, DoneType DEF Pending
<1>4. /\ client.saving # i => client' = client
      /\ client.saving = i => \/ client' = [client EXCEPT !.saving = 0]
                              \/ client' = Saved(client, c.nonce) /\ result[1] = "Ok"
  BY <1>1 DEF Returned
<1> HIDE DEF result, c, d
<1>5. CASE client.saving # i
  BY <1>1, <1>2, <1>3, <1>4, <1>5 DEF c
<1>6. CASE client' = [client EXCEPT !.saving = 0]
  <2>1. /\ client'.vault = client.vault /\ client'.version = client.version /\ client'.saving = 0
        /\ client'.changes = client.changes
    BY <1>1, <1>6 DEF Client
  <2> QED BY <1>1, <1>2, <1>3, <1>4, <2>1 DEF c
<1>7. CASE client' = Saved(client, c.nonce) /\ result[1] = "Ok"
  <2>1. /\ client'.vault = client.vault /\ client'.version = client.version /\ client'.saving = 0
        /\ client'.changes = {}
    BY <1>1, <1>7 DEF Client, Saved
  <2> QED BY <1>1, <1>2, <1>3, <1>4, <1>7, <2>1 DEF c, result
<1> QED BY <1>4, <1>5, <1>6, <1>7

LEMMA RestartEffect ==
    ASSUME ProfileTypes, NEW s \in Servers, Restart(s)
    PROVE  /\ \A t \in Servers : store'[t].vault = store[t].vault /\ store'[t].vault_version = store[t].vault_version
           /\ DOMAIN calls' = DOMAIN calls
           /\ \A i \in DOMAIN calls : \/ calls'[i] = calls[i]
                                      \/ /\ calls[i].at = s /\ calls'[i].stage = "done"
                                         /\ calls'[i].waiting = calls[i].waiting /\ calls'[i].kind = calls[i].kind
                                         /\ Pending(calls'[i]) => /\ calls'[i].root = calls[i].root
                                                                  /\ calls'[i].nonce = calls[i].nonce
                                                                  /\ calls'[i].changes = calls[i].changes
           /\ client'.vault = client.vault /\ client'.version = client.version
           /\ client'.changes = client.changes
           /\ \/ client'.saving = 0
              \/ client'.saving = client.saving /\ calls[client.saving].at # s
<1>1. store' = [store EXCEPT ![s] = Loaded(store[s])]
  BY DEF Restart
<1>2. store[s] \in Profile /\ DOMAIN store = Servers /\ Client(client)
  BY DEF ProfileTypes
<1>3. Loaded(store[s]).vault = store[s].vault /\ Loaded(store[s]).vault_version = store[s].vault_version
  BY <1>2, LoadedType
<1>4. \A t \in Servers : store'[t].vault = store[t].vault /\ store'[t].vault_version = store[t].vault_version
  BY <1>1, <1>2, <1>3
<1>5. calls' = [i \in DOMAIN calls |-> IF calls[i].at # s \/ ~InCall(calls[i]) THEN calls[i]
                                      ELSE Done(calls[i], <<"ConnectionAborted">>)]
  BY DEF Restart
<1>6. ASSUME NEW i \in DOMAIN calls
      PROVE  \/ calls'[i] = calls[i]
             \/ /\ calls[i].at = s /\ calls'[i].stage = "done"
                /\ calls'[i].waiting = calls[i].waiting /\ calls'[i].kind = calls[i].kind
                /\ Pending(calls'[i]) => /\ calls'[i].root = calls[i].root
                                         /\ calls'[i].nonce = calls[i].nonce
                                         /\ calls'[i].changes = calls[i].changes
  <2>1. CASE calls[i].at # s \/ ~InCall(calls[i])
    BY <1>5, <2>1
  <2>2. CASE ~ (calls[i].at # s \/ ~InCall(calls[i]))
    <3> DEFINE c == calls[i]
               d == Done(c, <<"ConnectionAborted">>)
    <3>1. calls'[i] = d /\ c.at = s /\ Request(c)
      BY <1>5, <2>2, CallsAre DEF ProfileTypes
    <3> HIDE DEF c, d
    <3>2. /\ d.kind = c.kind /\ d.stage = "done" /\ d.waiting = c.waiting
          /\ c.waiting # {} => d.nonce = c.nonce /\ d.changes = c.changes /\ d.root = c.root
      BY <3>1, DoneType DEF d
    <3> QED BY <3>1, <3>2 DEF Pending, c
  <2> QED BY <2>1, <2>2
<1>7. client' = [client EXCEPT !.saving = IF client.saving # 0 /\ calls[client.saving].at = s THEN 0 ELSE client.saving]
  BY DEF Restart
<1>8. /\ client'.vault = client.vault /\ client'.version = client.version /\ client'.changes = client.changes
      /\ client'.saving = IF client.saving # 0 /\ calls[client.saving].at = s THEN 0 ELSE client.saving
  BY <1>2, <1>7 DEF Client
<1>9. DOMAIN calls' = DOMAIN calls
  BY <1>5
<1> QED BY <1>4, <1>6, <1>8, <1>9

-----------------------------------------------------------------------------
\* Calls that follow one another.
LEMMA NothingPending ==
    ASSUME ProfileTypes, Sequential', MayCall
    PROVE  \A i \in DOMAIN calls : ~Pending(calls[i])
<1>1. ~UnderWay
  BY DEF MayCall, Fault, Sequential
<1> QED BY <1>1, CallsAre DEF UnderWay, InCall, Pending, ProfileTypes, Request

LEMMA SaveInSequence ==
    ASSUME ProfileTypes, InSequence, Sequential', NEW p \in Paths, NEW ks, ks \subseteq Keys, SaveVault(p, ks)
    PROVE  InSequence'
<1>1. \A i \in DOMAIN calls : ~Pending(calls[i])
  BY NothingPending DEF SaveVault
<1>2. PICK r :
              /\ Request(r) /\ r.kind = "vault" /\ r.stage = "repl" /\ r.at \in Servers
              /\ r.waiting = Servers \ {r.at}
              /\ r.answers = {<<r.at, Insertion(store[r.at], r).ans>>}
              /\ store' = [store EXCEPT ![r.at] = Insertion(store[r.at], r).pf]
              /\ calls' = Append(calls, r)
              /\ r.root = client'.vault /\ r.changes = client'.changes /\ r.nonce = client.version
              /\ client.saving = 0 /\ client'.saving = Len(calls) + 1 /\ client'.version = client.version + 1
              /\ client.changes \subseteq client'.changes
              /\ \A k \in Keys \ client'.changes : client'.vault[k] = client.vault[k]
  BY SaveEffect
<1>3. /\ DOMAIN calls' = DOMAIN calls \cup {Len(calls) + 1} /\ calls'[Len(calls) + 1] = r
      /\ \A i \in DOMAIN calls : calls'[i] = calls[i]
  BY <1>2, RequestAdded DEF ProfileTypes
<1> DEFINE v == store[r.at].vault_version
           x == Insertion(store[r.at], r)
<1>4. v \in Nat /\ (\A s \in Servers : store[s].vault_version = v) /\ store[r.at] \in Profile
  BY <1>1, <1>2 DEF InSequence, ProfileTypes, Profile
<1>5. \A s \in Servers : Fits(store[s], r) /\ Agrees(store[s].vault, client')
  BY <1>2 DEF InSequence, Agrees, Fits
<1>6. /\ x.ans = Verdict(r, v < r.nonce)
      /\ IF x.ans = <<"Ok">> THEN HasVault(x.pf, r) ELSE x.pf = store[r.at]
  <2>1. Request(r) /\ store[r.at] \in Profile /\ Fits(store[r.at], r)
    BY <1>2, <1>4, <1>5
  <2>2. x = InsertToVault(store[r.at], r.changes, r.root, r.nonce)
    BY DEF Insertion
  <2> HIDE DEF x
  <2> QED BY <2>1, <2>2, VaultTaken
<1>7. store'[r.at] = x.pf /\ \A s \in Servers : s # r.at => store'[s] = store[s]
  BY <1>2 DEF ProfileTypes
<1>8. Handing(r, v, store')
  <2>1. \A s \in r.waiting : store'[s].vault_version = v /\ Fits(store'[s], r)
    BY <1>2, <1>4, <1>5, <1>7
  <2>2. Servers \ r.waiting = {r.at}
    BY <1>2
  <2>3. IF Verdict(r, v < r.nonce) = <<"Ok">> THEN HasVault(store'[r.at], r) ELSE store'[r.at].vault_version = v
    BY <1>6, <1>7
  <2>4. Unanimous(r, Verdict(r, v < r.nonce))
    BY <1>2, <1>6, <2>2 DEF Unanimous
  <2> QED BY <2>1, <2>2, <2>3, <2>4 DEF Handing, Handed
<1>9. Agrees(r.root, client')
  BY <1>2 DEF Agrees
<1>10. \A s \in Servers : Agrees(store'[s].vault, client')
  BY <1>5, <1>6, <1>7, <1>9 DEF HasVault
<1> HIDE DEF v
<1>11. Pending(r) /\ Waited(r, client')
  BY <1>2 DEF Pending, Waited
<1> QED BY <1>1, <1>2, <1>3, <1>4, <1>8, <1>9, <1>10, <1>11 DEF InSequence

LEMMA ReplicaInSequence ==
    ASSUME ProfileTypes, InSequence, NEW i, NEW t, Replica(i, t), calls[i].kind = "vault"
    PROVE  InSequence'
<1> DEFINE c == calls[i]
           x == Insertion(store[t], c)
<1>1. /\ i \in DOMAIN calls /\ t \in Servers /\ t \in c.waiting /\ Request(c) /\ c.kind = "vault"
      /\ store' = [store EXCEPT ![t] = x.pf] /\ client' = client
  BY ReplicaEffect
<1>2. PICK e : /\ Request(e) /\ calls' = [calls EXCEPT ![i] = e] /\ e.kind = "vault"
               /\ e.stage = c.stage /\ e.waiting = c.waiting \ {t}
               /\ Pending(e) => /\ e.root = c.root /\ e.nonce = c.nonce /\ e.changes = c.changes
               /\ e.stage = "repl" => e.answers = c.answers \cup {<<t, x.ans>>}
  BY ReplicaEffect
<1>3. DOMAIN calls' = DOMAIN calls /\ calls'[i] = e /\ \A j \in DOMAIN calls : j # i => calls'[j] = calls[j]
  BY <1>1, <1>2, RequestChanged DEF ProfileTypes
<1>4. Pending(c) /\ \A j \in DOMAIN calls : j # i => ~Pending(calls[j])
  BY <1>1 DEF Pending, InSequence
<1>5. PICK v \in Nat : Handing(c, v, store)
  BY <1>1, <1>4 DEF InSequence
<1>6. store[t].vault_version = v /\ Fits(store[t], c) /\ store[t] \in Profile
  BY <1>1, <1>5 DEF Handing, Handed, ProfileTypes
<1>7. /\ x.ans = Verdict(c, v < c.nonce)
      /\ IF x.ans = <<"Ok">> THEN HasVault(x.pf, c) ELSE x.pf = store[t]
  BY <1>1, <1>6, VaultTaken DEF Insertion
<1>8. store'[t] = x.pf /\ \A s \in Servers : s # t => store'[s] = store[s]
  BY <1>1 DEF ProfileTypes
<1>9. Agrees(c.root, client) /\ \A s \in Servers : Agrees(store'[s].vault, client')
  <2>1. Agrees(c.root, client)
    BY <1>1, <1>4 DEF InSequence
  <2> QED BY <1>1, <1>7, <1>8, <2>1 DEF HasVault, InSequence
<1>10. Handed(c, c.waiting \ {t}, v, store')
  <2>1. c.waiting \subseteq Servers
    BY <1>1 DEF Request
  <2>2. \A s \in c.waiting \ {t} : store'[s].vault_version = v /\ Fits(store'[s], c)
    BY <1>5, <1>8, <2>1 DEF Handing, Handed
  <2>3. ASSUME NEW s \in Servers \ (c.waiting \ {t})
        PROVE  IF Verdict(c, v < c.nonce) = <<"Ok">> THEN HasVault(store'[s], c) ELSE store'[s].vault_version = v
    <3>1. CASE s = t
      BY <1>6, <1>7, <1>8, <3>1
    <3>2. CASE s # t
      <4>1. s \in Servers \ c.waiting /\ store'[s] = store[s]
        BY <1>8, <3>2
      <4> QED BY <1>5, <4>1 DEF Handing, Handed
    <3> QED BY <3>1, <3>2
  <2> QED BY <2>2, <2>3 DEF Handed
<1> HIDE DEF c, x
<1>11. ASSUME Pending(e)
       PROVE  Agrees(e.root, client') /\ Handing(e, v, store')
  <2>1. e.root = c.root /\ e.nonce = c.nonce /\ e.changes = c.changes
    BY <1>2, <1>11
  <2>2. Agrees(e.root, client')
    BY <1>1, <1>9, <2>1
  <2>3. Verdict(e, v < e.nonce) = Verdict(c, v < c.nonce)
    BY <2>1 DEF Verdict
  <2>4. Handed(e, e.waiting, v, store')
    BY <1>2, <1>10, <2>1, <2>3 DEF Handed, Fits, HasVault
  <2>5. ASSUME e.stage = "repl"
        PROVE  Unanimous(e, Verdict(e, v < e.nonce))
    <3>1. Unanimous(c, x.ans)
      BY <1>2, <1>5, <1>7, <2>5 DEF Handing
    <3>2. e.answers = c.answers \cup {<<t, x.ans>>}
      BY <1>2, <2>5
    <3>3. Servers \ e.waiting = (Servers \ c.waiting) \cup {t}
      BY <1>1, <1>2
    <3>4. e.answers = {<<s, x.ans>> : s \in Servers \ e.waiting}
      BY <3>1, <3>2, <3>3 DEF Unanimous
    <3> QED BY <1>7, <2>3, <3>4 DEF Unanimous
  <2> QED BY <2>2, <2>4, <2>5 DEF Handing
<1>12. ASSUME ~Pending(e)
       PROVE  \A s, u \in Servers : store'[s].vault_version = store'[u].vault_version
  <2>1. c.waiting \ {t} = {}
    BY <1>2, <1>12 DEF Pending
  <2>2. Handed(c, {}, v, store')
    BY <1>10, <2>1
  <2>3. \/ \A s \in Servers : HasVault(store'[s], c)
        \/ \A s \in Servers : store'[s].vault_version = v
    BY <2>2 DEF Handed
  <2> QED BY <2>3 DEF HasVault
<1>13. client.saving # 0 => client.saving = i /\ Waited(e, client')
  <2>1. ASSUME client.saving # 0
        PROVE  client.saving = i /\ Waited(e, client')
    <3>1. client.saving \in DOMAIN calls /\ Waited(calls[client.saving], client)
      BY <2>1 DEF InSequence
    <3>2. client.saving = i
      BY <1>4, <3>1 DEF Waited
    <3>3. Waited(c, client)
      BY <3>1, <3>2 DEF c
    <3>4. e.stage = "repl" /\ Pending(e)
      BY <1>2, <3>3 DEF Waited, Pending
    <3> QED BY <1>1, <1>2, <3>2, <3>3, <3>4 DEF Waited
  <2> QED BY <2>1
<1>14. \A j \in DOMAIN calls' : Pending(calls'[j]) => j = i /\ calls'[j] = e
  BY <1>3, <1>4
<1> QED BY <1>1, <1>3, <1>9, <1>11, <1>12, <1>13, <1>14 DEF InSequence

LEMMA FinishInSequence ==
    ASSUME ProfileTypes, InSequence, NEW i, Finish(i)
    PROVE  InSequence'
<1> DEFINE c == calls[i]
<1>1. /\ i \in DOMAIN calls /\ Request(c) /\ c.stage = "repl" /\ c.waiting = {} /\ store' = store
      /\ client'.vault = client.vault
      /\ client.saving # i => client' = client
      /\ client.saving = i => /\ client'.saving = 0
                              /\ \/ client'.changes = client.changes
                                 \/ client'.changes = {} /\ Picked(c.answers)[1] = "Ok"
  BY FinishEffect
<1>2. PICK d : Request(d) /\ ~Pending(d) /\ calls' = [calls EXCEPT ![i] = d]
  BY FinishEffect
<1>3. DOMAIN calls' = DOMAIN calls /\ calls'[i] = d /\ \A j \in DOMAIN calls : j # i => calls'[j] = calls[j]
  BY <1>1, <1>2, RequestChanged DEF ProfileTypes
<1>4. \A j \in DOMAIN calls' : Pending(calls'[j]) => j # i /\ j \in DOMAIN calls /\ calls'[j] = calls[j] /\ Pending(calls[j])
  BY <1>2, <1>3
<1>5. Pending(c) => \E v \in Nat : Handed(c, {}, v, store) /\ Unanimous(c, Verdict(c, v < c.nonce))
  BY <1>1 DEF InSequence, Handing
<1>6. ASSUME client'.changes = {}, Picked(c.answers)[1] = "Ok", client.saving = i
      PROVE  \A s \in Servers : store[s].vault = client.vault
  <2>1. Waited(c, client)
    BY <1>1, <1>6, CallsAre DEF InSequence, ProfileTypes
  <2>2. PICK v \in Nat : Handed(c, {}, v, store) /\ Unanimous(c, Verdict(c, v < c.nonce))
    BY <1>5, <2>1 DEF Waited
  <2>3. Picked(c.answers) \in {Verdict(c, v < c.nonce), <<"NoMajority">>}
    BY <2>2, UnanimousPicked
  <2> HIDE DEF c
  <2>4. Verdict(c, v < c.nonce) = <<"Ok">>
    BY <1>6, <2>3 DEF Verdict
  <2>5. \A s \in Servers : HasVault(store[s], c)
    BY <2>2, <2>4 DEF Handed
  <2> QED BY <2>1, <2>5 DEF HasVault, Waited
<1>7. \A s \in Servers : Agrees(store'[s].vault, client')
  <2>1. CASE client'.changes = client.changes
    BY <1>1, <2>1 DEF InSequence, Agrees
  <2>2. CASE client'.changes # client.changes
    <3>1. \A s \in Servers : store[s].vault = client.vault
      BY <1>1, <1>6, <2>2
    <3> QED BY <1>1, <3>1 DEF Agrees
  <2> QED BY <2>1, <2>2
<1>8. \A s, t \in Servers : Pending(c) => store[s].vault_version = store[t].vault_version
  <2>1. ASSUME NEW v, Handed(c, {}, v, store), NEW s \in Servers, NEW t \in Servers
        PROVE  store[s].vault_version = store[t].vault_version
    <3>1. \/ \A u \in Servers : HasVault(store[u], c)
          \/ \A u \in Servers : store[u].vault_version = v
      BY <2>1 DEF Handed
    <3> QED BY <3>1 DEF HasVault
  <2> HIDE DEF c
  <2> QED BY <1>5, <2>1
<1>9. (\A j \in DOMAIN calls' : ~Pending(calls'[j])) =>
           \A s, t \in Servers : store'[s].vault_version = store'[t].vault_version
  <2>1. ASSUME \A j \in DOMAIN calls' : ~Pending(calls'[j])
        PROVE  \A s, t \in Servers : store'[s].vault_version = store'[t].vault_version
    <3>1. CASE Pending(c)
      BY <1>1, <1>8, <3>1
    <3>2. CASE ~Pending(c)
      <4>1. \A j \in DOMAIN calls : ~Pending(calls[j])
        BY <1>3, <2>1, <3>2
      <4> QED BY <1>1, <4>1 DEF InSequence
    <3> QED BY <3>1, <3>2
  <2> QED BY <2>1
<1>10. client'.saving # 0 => client' = client /\ client.saving # i
  BY <1>1
<1>11. client'.saving # 0 => client'.saving \in DOMAIN calls' /\ Waited(calls'[client'.saving], client')
  BY <1>3, <1>10 DEF InSequence
<1>12. ASSUME NEW j \in DOMAIN calls', Pending(calls'[j])
       PROVE  Agrees(calls'[j].root, client') /\ \E v \in Nat : Handing(calls'[j], v, store')
  <2>1. j # i /\ j \in DOMAIN calls /\ calls'[j] = calls[j] /\ Pending(calls[j])
    BY <1>4, <1>12
  <2>2. client' = client
    <3>1. client.saving # i
      BY <1>1, <2>1, CallsAre DEF InSequence, Waited, ProfileTypes
    <3> QED BY <1>1, <3>1
  <2> QED BY <1>1, <2>1, <2>2 DEF InSequence
<1>13. \A j, k \in DOMAIN calls' : Pending(calls'[j]) /\ Pending(calls'[k]) => j = k
  BY <1>4 DEF InSequence
<1> HIDE DEF c
<1> QED BY <1>7, <1>9, <1>11, <1>12, <1>13 DEF InSequence

LEMMA RestartInSequence ==
    ASSUME ProfileTypes, InSequence, NEW s \in Servers, Restart(s)
    PROVE  InSequence'
<1>1. /\ \A t \in Servers : store'[t].vault = store[t].vault /\ store'[t].vault_version = store[t].vault_version
      /\ DOMAIN calls' = DOMAIN calls
      /\ client'.vault = client.vault /\ client'.changes = client.changes
      /\ \/ client'.saving = 0
         \/ client'.saving = client.saving /\ calls[client.saving].at # s
  BY RestartEffect
<1>2. ASSUME NEW i \in DOMAIN calls'
      PROVE  \/ calls'[i] = calls[i]
             \/ /\ calls[i].at = s /\ calls'[i].stage = "done"
                /\ calls'[i].waiting = calls[i].waiting /\ calls'[i].kind = calls[i].kind
                /\ Pending(calls'[i]) => /\ calls'[i].root = calls[i].root
                                         /\ calls'[i].nonce = calls[i].nonce
                                         /\ calls'[i].changes = calls[i].changes
  BY RestartEffect, <1>1
<1>3. \A i \in DOMAIN calls' : Pending(calls'[i]) => i \in DOMAIN calls /\ Pending(calls[i])
  BY <1>1, <1>2 DEF Pending
<1>4. \A t \in Servers : Agrees(store'[t].vault, client')
  BY <1>1 DEF InSequence, Agrees
<1>5. ASSUME NEW i \in DOMAIN calls', Pending(calls'[i])
      PROVE  Agrees(calls'[i].root, client') /\ \E v \in Nat : Handing(calls'[i], v, store')
  <2>1. i \in DOMAIN calls /\ Pending(calls[i])
    BY <1>3, <1>5
  <2>2. /\ calls'[i].root = calls[i].root /\ calls'[i].nonce = calls[i].nonce
        /\ calls'[i].changes = calls[i].changes /\ calls'[i].waiting = calls[i].waiting
        /\ calls'[i] = calls[i] \/ calls'[i].stage = "done"
    BY <1>2, <1>5
  <2>3. PICK v \in Nat : Handing(calls[i], v, store)
    BY <2>1 DEF InSequence
  <2>4. calls[i].waiting \subseteq Servers
    BY <2>1, CallsAre DEF ProfileTypes, Request
  <2>5. Handed(calls'[i], calls'[i].waiting, v, store')
    BY <1>1, <2>2, <2>3, <2>4 DEF Handing, Handed, Fits, HasVault, Verdict
  <2>6. Handing(calls'[i], v, store')
    BY <2>2, <2>3, <2>5 DEF Handing
  <2>7. Agrees(calls[i].root, client)
    BY <2>1 DEF InSequence
  <2>8. Agrees(calls'[i].root, client')
    BY <1>1, <2>2, <2>7 DEF Agrees
  <2> QED BY <2>6, <2>8
<1>6. ASSUME client'.saving # 0
      PROVE  client'.saving \in DOMAIN calls' /\ Waited(calls'[client'.saving], client')
  <2>1. /\ client'.saving = client.saving /\ client.saving \in DOMAIN calls'
        /\ Waited(calls[client.saving], client) /\ calls[client.saving].at # s
    BY <1>1, <1>6 DEF InSequence
  <2>2. calls'[client.saving] = calls[client.saving]
    BY <1>2, <2>1
  <2> QED BY <1>1, <2>1, <2>2 DEF Waited
<1>7. ASSUME \A i \in DOMAIN calls' : ~Pending(calls'[i]), NEW t \in Servers, NEW u \in Servers
      PROVE  store'[t].vault_version = store'[u].vault_version
  <2>1. CASE \A i \in DOMAIN calls : ~Pending(calls[i])
    BY <1>1, <2>1 DEF InSequence
  <2>2. CASE ~ \A i \in DOMAIN calls : ~Pending(calls[i])
    <3>1. PICK i \in DOMAIN calls : Pending(calls[i])
      BY <2>2
    <3>2. calls[i].waiting = {}
      BY <1>1, <1>2, <1>7, <3>1 DEF Pending
    <3>3. PICK v \in Nat : Handed(calls[i], {}, v, store)
      BY <3>1, <3>2 DEF InSequence, Handing
    <3>4. \/ \A x \in Servers : HasVault(store[x], calls[i])
          \/ \A x \in Servers : store[x].vault_version = v
      BY <3>3 DEF Handed
    <3> QED BY <1>1, <3>4 DEF HasVault
  <2> QED BY <2>1, <2>2
<1>8. \A i, j \in DOMAIN calls' : Pending(calls'[i]) /\ Pending(calls'[j]) => i = j
  BY <1>3 DEF InSequence
<1> QED BY <1>4, <1>5, <1>6, <1>7, <1>8 DEF InSequence

\* A change that is not saved at once, and a login.
LEMMA LoginInSequence ==
    ASSUME ProfileTypes, InSequence, UNCHANGED <<store, calls>>, client'.saving = 0,
           client.changes \subseteq client'.changes,
           \A k \in Keys \ client'.changes :
               client'.vault[k] = client.vault[k] \/ \E s \in Servers : client'.vault[k] = store[s].vault[k]
    PROVE  InSequence'
<1>1. \A k \in Keys \ client'.changes : client'.vault[k] = client.vault[k]
  BY DEF InSequence, Agrees
<1>2. \A v : Agrees(v, client) => Agrees(v, client')
  BY <1>1 DEF Agrees
<1>3. \A s \in Servers : Agrees(store'[s].vault, client')
  BY <1>2 DEF InSequence
<1>4. \A i \in DOMAIN calls' : Pending(calls'[i]) =>
          Agrees(calls'[i].root, client') /\ \E v \in Nat : Handing(calls'[i], v, store')
  BY <1>2 DEF InSequence
<1> QED BY <1>3, <1>4 DEF InSequence

-----------------------------------------------------------------------------
\* Calls that overlap, by one login.
LEMMA SaveByNonce ==
    ASSUME ProfileTypes, ByNonce, NEW p \in Paths, NEW ks, ks \subseteq Keys, SaveVault(p, ks)
    PROVE  ByNonce'
<1>1. PICK r :
              /\ Request(r) /\ r.kind = "vault" /\ r.stage = "repl" /\ r.at \in Servers
              /\ r.waiting = Servers \ {r.at}
              /\ r.answers = {<<r.at, Insertion(store[r.at], r).ans>>}
              /\ store' = [store EXCEPT ![r.at] = Insertion(store[r.at], r).pf]
              /\ calls' = Append(calls, r)
              /\ r.root = client'.vault /\ r.changes = client'.changes /\ r.nonce = client.version
              /\ client.saving = 0 /\ client'.saving = Len(calls) + 1 /\ client'.version = client.version + 1
              /\ client.changes \subseteq client'.changes
              /\ \A k \in Keys \ client'.changes : client'.vault[k] = client.vault[k]
  BY SaveEffect
<1>2. PICK n \in Nat : n = Len(calls) + 1
  BY CallsAre DEF ProfileTypes
<1>3. /\ DOMAIN calls' = DOMAIN calls \cup {n} /\ calls'[n] = r /\ n \notin DOMAIN calls /\ n # 0
      /\ \A i \in DOMAIN calls : calls'[i] = calls[i] /\ calls[i].nonce \in Nat
  BY <1>1, <1>2, RequestAdded, CallsAre DEF ProfileTypes, Request
<1> DEFINE pf == store[r.at]
           x == Insertion(pf, r)
<1>4. /\ pf \in Profile /\ pf.vault_version \in Nat /\ client.version \in Nat
      /\ pf.vault_version < r.nonce /\ Agrees(pf.vault, client)
  BY <1>1 DEF ByNonce, ProfileTypes, Profile, Client
<1>5. Fits(pf, r) /\ \A vault : Agrees(vault, client) => Agrees(vault, client')
  BY <1>1, <1>4 DEF Agrees, Fits
<1>6. /\ x.ans = Verdict(r, TRUE)
      /\ IF x.ans = <<"Ok">> THEN HasVault(x.pf, r) ELSE x.pf = pf
  <2>1. x = InsertToVault(pf, r.changes, r.root, r.nonce)
    BY DEF Insertion
  <2> HIDE DEF x, pf
  <2>2. Verdict(r, pf.vault_version < r.nonce) = Verdict(r, TRUE)
    BY <1>4 DEF Verdict
  <2>3. Request(r) /\ pf \in Profile /\ Fits(pf, r)
    BY <1>1, <1>4, <1>5
  <2>4. /\ x.ans = Verdict(r, pf.vault_version < r.nonce)
        /\ IF x.ans = <<"Ok">> THEN HasVault(x.pf, r) ELSE x.pf = pf
    BY <2>1, <2>3, VaultTaken
  <2> QED BY <2>2, <2>4
<1>7. store'[r.at] = x.pf /\ \A s \in Servers : s # r.at => store'[s] = store[s]
  BY <1>1 DEF ProfileTypes
<1>8. Agrees(r.root, client')
  BY <1>1 DEF Agrees
<1>9. /\ Agrees(x.pf.vault, client') /\ x.pf.vault_version < client'.version
      /\ x.pf.vault_version >= pf.vault_version /\ x.pf.vault_version \in Nat
  <2> HIDE DEF x, pf
  <2>1. CASE HasVault(x.pf, r)
    <3>1. x.pf.vault = r.root /\ x.pf.vault_version = r.nonce
      BY <2>1 DEF HasVault
    <3> QED BY <1>1, <1>4, <1>8, <3>1
  <2>2. CASE x.pf = pf
    BY <1>1, <1>4, <1>5, <2>2
  <2> QED BY <1>6, <2>1, <2>2
<1>10. Accepts(r.root) => HasVault(x.pf, r)
  BY <1>6 DEF Verdict
<1>11. x.ans = Verdict(r, TRUE)
  BY <1>6
<1> HIDE DEF x
<1>12. \A s \in Servers :
          /\ Agrees(store'[s].vault, client') /\ store'[s].vault_version < client'.version
          /\ store'[s].vault_version >= store[s].vault_version
          /\ store'[s].vault_version \in Nat /\ store[s].vault_version \in Nat
  <2>1. \A s \in Servers : store[s].vault_version \in Nat
    BY DEF ProfileTypes, Profile
  <2>2. ASSUME NEW s \in Servers, s # r.at
        PROVE  Agrees(store'[s].vault, client') /\ store'[s].vault_version < client'.version
    <3>1. store'[s] = store[s] /\ Agrees(store[s].vault, client) /\ store[s].vault_version < client.version
      BY <1>7, <2>2 DEF ByNonce
    <3> QED BY <1>1, <1>4, <1>5, <2>1, <3>1
  <2> QED BY <1>4, <1>7, <1>9, <2>1, <2>2
<1>13. Newest(r, store', client')
  <2>1. \A s \in r.waiting : store'[s].vault_version < r.nonce
    BY <1>1, <1>7 DEF ByNonce
  <2>2. Servers \ r.waiting = {r.at}
    BY <1>1
  <2>3. \A s \in Servers \ r.waiting : Accepts(r.root) => HasVault(store'[s], r)
    BY <1>7, <1>10, <2>2
  <2>4. Unanimous(r, Verdict(r, TRUE))
    BY <1>1, <1>11, <2>2 DEF Unanimous, x
  <2> QED BY <1>1, <2>1, <2>3, <2>4 DEF Newest
<1>14. Pending(r) /\ Waited(r, client')
  BY <1>1 DEF Pending, Waited
<1>15. ASSUME NEW i \in DOMAIN calls, Pending(calls[i])
       PROVE  /\ calls[i].nonce < r.nonce /\ calls[i].nonce < client'.version
              /\ Agrees(calls[i].root, client') \/ \A s \in Servers : store'[s].vault_version >= calls[i].nonce
  <2>1. /\ calls[i].nonce < client.version
        /\ Agrees(calls[i].root, client) \/ \A s \in Servers : store[s].vault_version >= calls[i].nonce
    BY <1>15 DEF ByNonce
  <2>2. calls[i].nonce \in Nat
    BY <1>3
  <2>3. calls[i].nonce < r.nonce /\ calls[i].nonce < client'.version
    BY <1>1, <1>4, <2>1, <2>2
  <2>4. (\A s \in Servers : store[s].vault_version >= calls[i].nonce) =>
            \A s \in Servers : store'[s].vault_version >= calls[i].nonce
    BY <1>12, <2>2
  <2> QED BY <1>5, <2>1, <2>3, <2>4
<1>16. r.nonce < client'.version
  BY <1>1, <1>4
<1>17. client'.saving = n
  BY <1>1, <1>2
<1>18. \A i \in DOMAIN calls' : Pending(calls'[i]) =>
           /\ calls'[i].nonce < client'.version
           /\ Agrees(calls'[i].root, client') \/ \A s \in Servers : store'[s].vault_version >= calls'[i].nonce
  BY <1>3, <1>8, <1>15, <1>16
<1>19. \A i \in DOMAIN calls' : i # n /\ Pending(calls'[i]) => calls'[i].nonce < calls'[n].nonce
  BY <1>3, <1>15
<1> QED BY <1>3, <1>12, <1>13, <1>14, <1>17, <1>18, <1>19 DEF ByNonce

LEMMA ReplicaByNonce ==
    ASSUME ProfileTypes, ByNonce, NEW i, NEW t, Replica(i, t), calls[i].kind = "vault"
    PROVE  ByNonce'
<1> DEFINE c == calls[i]
           pf == store[t]
           x == Insertion(pf, c)
<1>1. /\ i \in DOMAIN calls /\ t \in Servers /\ t \in c.waiting /\ Request(c) /\ c.kind = "vault"
      /\ store' = [store EXCEPT ![t] = x.pf] /\ client' = client
  BY ReplicaEffect
<1>2. PICK e : /\ Request(e) /\ calls' = [calls EXCEPT ![i] = e] /\ e.kind = "vault"
               /\ e.stage = c.stage /\ e.waiting = c.waiting \ {t}
               /\ Pending(e) => /\ e.root = c.root /\ e.nonce = c.nonce /\ e.changes = c.changes
               /\ e.stage = "repl" => e.answers = c.answers \cup {<<t, x.ans>>}
  BY ReplicaEffect
<1>3. DOMAIN calls' = DOMAIN calls /\ calls'[i] = e /\ \A j \in DOMAIN calls : j # i => calls'[j] = calls[j]
  BY <1>1, <1>2, RequestChanged DEF ProfileTypes
<1>4. /\ Pending(c) /\ c.nonce < client.version
      /\ Agrees(c.root, client) \/ \A s \in Servers : store[s].vault_version >= c.nonce
  BY <1>1 DEF Pending, ByNonce
<1>5. pf \in Profile /\ pf.vault_version \in Nat /\ c.nonce \in Nat /\ client.version \in Nat /\ c.waiting \subseteq Servers
  BY <1>1 DEF ProfileTypes, Profile, Request, Client
<1>6. store'[t] = x.pf /\ \A s \in Servers : s # t => store'[s] = store[s]
  BY <1>1 DEF ProfileTypes
<1>7. x.pf = pf \/ (HasVault(x.pf, c) /\ c.nonce > pf.vault_version)
  <2>1. c.root \in [Keys -> Nat]
    BY <1>1 DEF Request
  <2>2. x = InsertToVault(pf, c.changes, c.root, c.nonce)
    BY DEF Insertion
  <2> HIDE DEF c, pf, x
  <2>3. x.pf = pf \/ (x.pf.vault = c.root /\ x.pf.vault_version = c.nonce /\ c.nonce > pf.vault_version)
    BY <1>5, <2>1, <2>2, VaultInserted
  <2> QED BY <2>3 DEF HasVault
<1>8. \A j \in DOMAIN calls : calls[j].nonce \in Nat /\ calls[j].waiting \subseteq Servers
  BY CallsAre DEF ProfileTypes, Request
<1> HIDE DEF x
<1>9. \A s \in Servers :
          /\ Agrees(store'[s].vault, client) /\ store'[s].vault_version < client.version
          /\ store'[s].vault_version >= store[s].vault_version
          /\ store'[s].vault_version \in Nat /\ store[s].vault_version \in Nat
  <2>1. ASSUME NEW s \in Servers
        PROVE  /\ Agrees(store[s].vault, client) /\ store[s].vault_version < client.version
               /\ store[s].vault_version \in Nat
    BY DEF ByNonce, ProfileTypes, Profile
  <2>2. ASSUME HasVault(x.pf, c), c.nonce > pf.vault_version
        PROVE  Agrees(x.pf.vault, client)
    <3>1. ~ (pf.vault_version >= c.nonce)
      BY <1>5, <2>2
    <3>2. Agrees(c.root, client)
      BY <1>1, <1>4, <3>1
    <3> QED BY <2>2, <3>2 DEF HasVault
  <2>3. /\ Agrees(x.pf.vault, client) /\ x.pf.vault_version < client.version
        /\ x.pf.vault_version >= pf.vault_version /\ x.pf.vault_version \in Nat
    <3>1. CASE x.pf = pf
      <4> HIDE DEF c
      <4> QED BY <1>1, <1>5, <2>1, <3>1
    <3>2. CASE HasVault(x.pf, c) /\ c.nonce > pf.vault_version
      <4>1. x.pf.vault_version = c.nonce /\ Agrees(x.pf.vault, client)
        BY <2>2, <3>2 DEF HasVault
      <4> HIDE DEF c
      <4> QED BY <1>4, <1>5, <3>2, <4>1
    <3> QED BY <1>7, <3>1, <3>2
  <2> HIDE DEF c
  <2> QED BY <1>6, <2>1, <2>3
<1>10. \A j \in DOMAIN calls' : Pending(calls'[j]) =>
           /\ j \in DOMAIN calls /\ Pending(calls[j])
           /\ calls'[j].nonce = calls[j].nonce /\ calls'[j].root = calls[j].root
  <2> HIDE DEF c
  <2> QED BY <1>2, <1>3, <1>4 DEF c
<1>11. ASSUME NEW j \in DOMAIN calls', Pending(calls'[j])
       PROVE  /\ calls'[j].nonce < client.version
              /\ Agrees(calls'[j].root, client) \/ \A s \in Servers : store'[s].vault_version >= calls'[j].nonce
  <2>1. /\ j \in DOMAIN calls /\ Pending(calls[j])
        /\ calls'[j].nonce = calls[j].nonce /\ calls'[j].root = calls[j].root
    BY <1>10, <1>11
  <2>2. /\ calls[j].nonce < client.version /\ calls[j].nonce \in Nat
        /\ Agrees(calls[j].root, client) \/ \A s \in Servers : store[s].vault_version >= calls[j].nonce
    BY <1>8, <2>1 DEF ByNonce
  <2>3. (\A s \in Servers : store[s].vault_version >= calls[j].nonce) =>
            \A s \in Servers : store'[s].vault_version >= calls[j].nonce
    BY <1>9, <2>2
  <2> QED BY <2>1, <2>2, <2>3
<1>12. ASSUME client.saving # 0
       PROVE  /\ client.saving \in DOMAIN calls' /\ Waited(calls'[client.saving], client)
              /\ Newest(calls'[client.saving], store', client)
              /\ \A j \in DOMAIN calls' : j # client.saving /\ Pending(calls'[j]) =>
                     calls'[j].nonce < calls'[client.saving].nonce
  <2>1. PICK k \in DOMAIN calls : k = client.saving
    BY <1>12 DEF ByNonce
  <2>2. /\ Waited(calls[k], client) /\ Newest(calls[k], store, client) /\ Pending(calls[k])
        /\ \A j \in DOMAIN calls : j # k /\ Pending(calls[j]) => calls[j].nonce < calls[k].nonce
    BY <1>12, <2>1 DEF ByNonce, Waited
  <2>3. CASE k = i
    <3>1. Waited(c, client) /\ Newest(c, store, client)
      BY <2>2, <2>3
    <3>2. e.stage = "repl" /\ Pending(e)
      BY <1>2, <3>1 DEF Waited, Pending
    <3>3. e.root = c.root /\ e.nonce = c.nonce /\ e.changes = c.changes /\ e.answers = c.answers \cup {<<t, x.ans>>}
      BY <1>2, <3>2
    <3>4. Waited(e, client)
      BY <3>1, <3>2, <3>3 DEF Waited
    <3>5. Fits(pf, c) /\ pf.vault_version < c.nonce
      <4>1. Agrees(pf.vault, client)
        BY <1>1 DEF ByNonce
      <4> QED BY <1>1, <3>1, <4>1 DEF Fits, Agrees, Newest, Waited
    <3>6. /\ x.ans = Verdict(c, TRUE)
          /\ IF x.ans = <<"Ok">> THEN HasVault(x.pf, c) ELSE x.pf = pf
      <4>1. x = InsertToVault(pf, c.changes, c.root, c.nonce)
        BY DEF Insertion, x
      <4> HIDE DEF pf, c
      <4>2. Verdict(c, pf.vault_version < c.nonce) = Verdict(c, TRUE)
        BY <3>5 DEF Verdict
      <4> QED BY <1>1, <1>5, <3>5, <4>1, <4>2, VaultTaken
    <3> HIDE DEF c, pf
    <3>7. Newest(e, store', client)
      <4>1. \A s \in e.waiting : store'[s].vault_version < e.nonce
        BY <1>2, <1>5, <1>6, <3>1, <3>3 DEF Newest
      <4>2. ASSUME NEW s \in Servers \ e.waiting, Accepts(e.root)
            PROVE  HasVault(store'[s], e)
        <5>1. CASE s = t
          <6>1. x.ans = <<"Ok">>
            BY <3>3, <3>6, <4>2 DEF Verdict
          <6> QED BY <1>6, <3>3, <3>6, <5>1, <6>1 DEF HasVault
        <5>2. CASE s # t
          <6>1. s \in Servers \ c.waiting /\ store'[s] = store[s]
            BY <1>2, <1>6, <5>2
          <6> QED BY <3>1, <3>3, <4>2, <6>1 DEF Newest, HasVault
        <5> QED BY <5>1, <5>2
      <4>3. Unanimous(e, Verdict(e, TRUE))
        <5>1. Unanimous(c, x.ans)
          BY <3>1, <3>6 DEF Newest
        <5>2. Servers \ e.waiting = (Servers \ c.waiting) \cup {t}
          BY <1>1, <1>2
        <5>3. e.answers = {<<s, x.ans>> : s \in Servers \ e.waiting}
          BY <3>3, <5>1, <5>2 DEF Unanimous
        <5>4. x.ans = Verdict(e, TRUE)
          BY <3>3, <3>6 DEF Verdict
        <5> QED BY <5>3, <5>4 DEF Unanimous
      <4>4. e.changes = client.changes /\ e.nonce + 1 = client.version
        BY <3>1, <3>3 DEF Newest
      <4> QED BY <4>1, <4>2, <4>3, <4>4 DEF Newest
    <3>8. calls'[k] = e /\ calls[k].nonce = e.nonce
      BY <1>3, <2>3, <3>3 DEF c
    <3> QED BY <1>3, <1>10, <2>1, <2>2, <3>4, <3>7, <3>8
  <2>4. CASE k # i
    <3>1. calls'[k] = calls[k] /\ c.nonce < calls[k].nonce
      BY <1>1, <1>3, <1>4, <2>2, <2>4
    <3>2. calls[k].nonce \in Nat /\ calls[k].waiting \subseteq Servers
      BY <1>8
    <3>3. \A s \in calls[k].waiting : store'[s].vault_version < calls[k].nonce
      <4>1. \A s \in calls[k].waiting : store[s].vault_version < calls[k].nonce
        BY <2>2 DEF Newest
      <4>2. x.pf.vault_version = pf.vault_version \/ x.pf.vault_version = c.nonce
        BY <1>7 DEF HasVault
      <4> HIDE DEF c
      <4> QED BY <1>6, <3>1, <3>2, <4>1, <4>2
    <3>4. ASSUME NEW s \in Servers \ calls[k].waiting, Accepts(calls[k].root)
          PROVE  HasVault(store'[s], calls[k])
      <4>1. HasVault(store[s], calls[k])
        BY <2>2, <3>4 DEF Newest
      <4>2. s = t => x.pf = pf
        <5>1. s = t => ~ (c.nonce > pf.vault_version)
          BY <1>5, <3>1, <3>2, <4>1 DEF HasVault
        <5> QED BY <1>7, <5>1
      <4> QED BY <1>6, <4>1, <4>2
    <3>5. Newest(calls[k], store', client)
      BY <2>2, <3>3, <3>4 DEF Newest
    <3> QED BY <1>3, <1>10, <2>1, <2>2, <3>1, <3>5
  <2> QED BY <2>3, <2>4
<1> HIDE DEF c, pf
<1> QED BY <1>1, <1>9, <1>11, <1>12 DEF ByNonce

LEMMA FinishByNonce ==
    ASSUME ProfileTypes, ByNonce, NEW i, Finish(i)
    PROVE  ByNonce'
<1> DEFINE c == calls[i]
<1>1. /\ i \in DOMAIN calls /\ Request(c) /\ c.stage = "repl" /\ c.waiting = {} /\ store' = store
      /\ client'.vault = client.vault /\ client'.version = client.version
      /\ client.saving # i => client' = client
      /\ client.saving = i => /\ client'.saving = 0
                              /\ \/ client'.changes = client.changes
                                 \/ client'.changes = {} /\ Picked(c.answers)[1] = "Ok"
  BY FinishEffect
<1>2. PICK d : Request(d) /\ ~Pending(d) /\ calls' = [calls EXCEPT ![i] = d]
  BY FinishEffect
<1>3. DOMAIN calls' = DOMAIN calls /\ calls'[i] = d /\ \A j \in DOMAIN calls : j # i => calls'[j] = calls[j]
  BY <1>1, <1>2, RequestChanged DEF ProfileTypes
<1>4. \A j \in DOMAIN calls' : Pending(calls'[j]) => j # i /\ j \in DOMAIN calls /\ calls'[j] = calls[j] /\ Pending(calls[j])
  BY <1>2, <1>3
<1>5. CASE client.saving # i
  <2>1. client' = client /\ store' = store
    BY <1>1, <1>5
  <2>2. client.saving # 0 => calls'[client.saving] = calls[client.saving]
    BY <1>3, <1>5 DEF ByNonce
  <2> HIDE DEF c
  <2> QED BY <1>3, <1>4, <2>1, <2>2 DEF ByNonce
<1>6. CASE client.saving = i
  <2>1. /\ Waited(c, client) /\ Newest(c, store, client) /\ client'.saving = 0
        /\ \A j \in DOMAIN calls : j # i /\ Pending(calls[j]) => calls[j].nonce < c.nonce
    BY <1>1, <1>6, CallsAre DEF ByNonce, ProfileTypes
  <2>2. CASE client'.changes = client.changes
    <3>1. \A vault : Agrees(vault, client') <=> Agrees(vault, client)
      BY <1>1, <2>2 DEF Agrees
    <3>2. \A s \in Servers : Agrees(store[s].vault, client') /\ store[s].vault_version < client'.version
      BY <1>1, <3>1 DEF ByNonce
    <3>3. \A j \in DOMAIN calls : Pending(calls[j]) =>
              /\ calls[j].nonce < client'.version
              /\ Agrees(calls[j].root, client') \/ \A s \in Servers : store[s].vault_version >= calls[j].nonce
      BY <1>1, <3>1 DEF ByNonce
    <3> HIDE DEF c
    <3> QED BY <1>1, <1>4, <2>1, <3>2, <3>3 DEF ByNonce
  <2>3. CASE client'.changes = {} /\ Picked(c.answers)[1] = "Ok"
    <3>1. Picked(c.answers) \in {Verdict(c, TRUE), <<"NoMajority">>}
      BY <2>1, UnanimousPicked DEF Newest
    <3> HIDE DEF c
    <3>2. Verdict(c, TRUE) = <<"Ok">>
      BY <2>3, <3>1 DEF Verdict
    <3>3. Accepts(c.root)
      BY <3>2 DEF Verdict
    <3>4. \A s \in Servers : HasVault(store[s], c)
      BY <1>1, <2>1, <3>3 DEF Newest
    <3>5. \A s \in Servers : Agrees(store'[s].vault, client') /\ store'[s].vault_version < client'.version
      BY <1>1, <2>1, <3>4 DEF HasVault, Waited, Agrees, ByNonce
    <3>6. ASSUME NEW j \in DOMAIN calls', Pending(calls'[j])
          PROVE  calls'[j].nonce < client'.version /\ \A s \in Servers : store'[s].vault_version >= calls'[j].nonce
      <4>1. j # i /\ j \in DOMAIN calls /\ calls'[j] = calls[j] /\ Pending(calls[j])
        BY <1>4, <3>6
      <4>2. calls[j].nonce < c.nonce /\ calls[j].nonce \in Nat /\ c.nonce \in Nat
        BY <1>1, <2>1, <4>1, CallsAre DEF ProfileTypes, Request
      <4>3. \A s \in Servers : store'[s].vault_version = c.nonce
        BY <1>1, <3>4 DEF HasVault
      <4>4. calls[j].nonce < client'.version
        BY <1>1, <4>1 DEF ByNonce
      <4>5. c.nonce >= calls[j].nonce
        BY <4>2
      <4> QED BY <4>1, <4>3, <4>4, <4>5
    <3> QED BY <2>1, <3>5, <3>6 DEF ByNonce
  <2> QED BY <1>1, <1>6, <2>2, <2>3
<1> QED BY <1>5, <1>6

LEMMA RestartByNonce ==
    ASSUME ProfileTypes, ByNonce, NEW s \in Servers, Restart(s)
    PROVE  ByNonce'
<1>1. /\ \A t \in Servers : store'[t].vault = store[t].vault /\ store'[t].vault_version = store[t].vault_version
      /\ DOMAIN calls' = DOMAIN calls
      /\ client'.vault = client.vault /\ client'.changes = client.changes /\ client'.version = client.version
      /\ \/ client'.saving = 0
         \/ client'.saving = client.saving /\ calls[client.saving].at # s
  BY RestartEffect
<1>2. ASSUME NEW i \in DOMAIN calls'
      PROVE  \/ calls'[i] = calls[i]
             \/ /\ calls[i].at = s /\ calls'[i].stage = "done"
                /\ calls'[i].waiting = calls[i].waiting /\ calls'[i].kind = calls[i].kind
                /\ Pending(calls'[i]) => /\ calls'[i].root = calls[i].root
                                         /\ calls'[i].nonce = calls[i].nonce
                                         /\ calls'[i].changes = calls[i].changes
  BY RestartEffect, <1>1
<1>3. \A i \in DOMAIN calls' : Pending(calls'[i]) =>
          /\ i \in DOMAIN calls /\ Pending(calls[i])
          /\ calls'[i].nonce = calls[i].nonce /\ calls'[i].root = calls[i].root
  BY <1>1, <1>2 DEF Pending
<1>4. \A vault : Agrees(vault, client') <=> Agrees(vault, client)
  BY <1>1 DEF Agrees
<1>5. \A t \in Servers : Agrees(store'[t].vault, client') /\ store'[t].vault_version < client'.version
  BY <1>1 DEF ByNonce, Agrees
<1>6. ASSUME NEW i \in DOMAIN calls', Pending(calls'[i])
      PROVE  /\ calls'[i].nonce < client'.version
             /\ Agrees(calls'[i].root, client') \/ \A t \in Servers : store'[t].vault_version >= calls'[i].nonce
  <2>1. /\ i \in DOMAIN calls /\ Pending(calls[i])
        /\ calls'[i].nonce = calls[i].nonce /\ calls'[i].root = calls[i].root
    BY <1>3, <1>6
  <2>2. /\ calls[i].nonce < client.version
        /\ Agrees(calls[i].root, client) \/ \A t \in Servers : store[t].vault_version >= calls[i].nonce
    BY <2>1 DEF ByNonce
  <2> QED BY <1>1, <1>4, <2>1, <2>2
<1>7. ASSUME client'.saving # 0
      PROVE  /\ client'.saving \in DOMAIN calls' /\ Waited(calls'[client'.saving], client')
             /\ Newest(calls'[client'.saving], store', client')
             /\ \A i \in DOMAIN calls' : i # client'.saving /\ Pending(calls'[i]) =>
                    calls'[i].nonce < calls'[client'.saving].nonce
  <2>1. PICK k \in DOMAIN calls : k = client.saving /\ k = client'.saving /\ calls[k].at # s
    BY <1>1, <1>7 DEF ByNonce
  <2>2. /\ Waited(calls[k], client) /\ Newest(calls[k], store, client)
        /\ \A i \in DOMAIN calls : i # k /\ Pending(calls[i]) => calls[i].nonce < calls[k].nonce
    BY <1>7, <2>1 DEF ByNonce
  <2>3. calls'[k] = calls[k] /\ calls[k].waiting \subseteq Servers
    BY <1>1, <1>2, <2>1, CallsAre DEF ProfileTypes, Request
  <2>4. Waited(calls[k], client')
    BY <1>1, <2>2 DEF Waited
  <2>5. Newest(calls[k], store', client')
    <3>1. \A t \in calls[k].waiting : store'[t].vault_version < calls[k].nonce
      BY <1>1, <2>2, <2>3 DEF Newest
    <3>2. \A t \in Servers \ calls[k].waiting : Accepts(calls[k].root) => HasVault(store'[t], calls[k])
      BY <1>1, <2>2, <2>3 DEF Newest, HasVault
    <3> QED BY <1>1, <2>2, <3>1, <3>2 DEF Newest
  <2> QED BY <1>1, <1>3, <2>1, <2>2, <2>3, <2>4, <2>5
<1> QED BY <1>5, <1>6, <1>7 DEF ByNonce

LEMMA DeferByNonce ==
    ASSUME ProfileTypes, ByNonce, UNCHANGED <<store, calls>>, client'.saving = 0,
           client.changes \subseteq client'.changes, client'.version = client.version,
           \A k \in Keys \ client'.changes : client'.vault[k] = client.vault[k]
    PROVE  ByNonce'
<1>1. \A v : Agrees(v, client) => Agrees(v, client')
  BY DEF Agrees
<1>2. \A s \in Servers : Agrees(store'[s].vault, client') /\ store'[s].vault_version < client'.version
  BY <1>1 DEF ByNonce
<1>3. \A i \in DOMAIN calls' : Pending(calls'[i]) =>
          /\ calls'[i].nonce < client'.version
          /\ Agrees(calls'[i].root, client') \/ \A s \in Servers : store'[s].vault_version >= calls'[i].nonce
  BY <1>1 DEF ByNonce
<1> QED BY <1>2, <1>3 DEF ByNonce

-----------------------------------------------------------------------------
\* The steps that concern the vault.
LEMMA VaultRegimes ==
    ASSUME VaultInv, ProfileTypes', suffered \subseteq suffered',
           Sequential' /\ InSequence => InSequence', SameLogin' /\ ByNonce => ByNonce'
    PROVE  VaultInv'
<1>1. (Sequential' => Sequential) /\ (SameLogin' => SameLogin)
  BY DEF Sequential, SameLogin
<1> QED BY <1>1 DEF VaultInv

LEMMA VaultCalls ==
    ASSUME VaultInv, ProfileTypes', suffered \subseteq suffered',
           \/ \E p \in Paths : SaveVault(p, {}) \/ \E k \in Keys : SaveVault(p, {k})
           \/ \E i, t : Replica(i, t)
           \/ \E i : Finish(i)
    PROVE  VaultInv'
<1>0. ProfileTypes /\ suffered \subseteq suffered'
  BY DEF VaultInv
<1>1. CASE \E p \in Paths : SaveVault(p, {}) \/ \E k \in Keys : SaveVault(p, {k})
  <2>1. PICK p \in Paths, ks \in SUBSET Keys : SaveVault(p, ks)
    BY <1>1
  <2> QED BY <1>0, <2>1, SaveInSequence, SaveByNonce, VaultRegimes
<1>2. CASE \E i, t : Replica(i, t)
  <2>1. PICK i, t : Replica(i, t)
    BY <1>2
  <2>2. CASE calls[i].kind = "vault"
    BY <1>0, <2>1, <2>2, ReplicaInSequence, ReplicaByNonce, VaultRegimes
  <2>3. CASE calls[i].kind # "vault"
    BY <1>0, <2>1, <2>3, ReplicaQuiet, VaultQuietInv
  <2> QED BY <2>2, <2>3
<1>3. CASE \E i : Finish(i)
  BY <1>0, <1>3, FinishInSequence, FinishByNonce, VaultRegimes
<1> QED BY <1>1, <1>2, <1>3

LEMMA VaultClient ==
    ASSUME VaultInv, ProfileTypes', suffered \subseteq suffered',
           \/ \E s \in Servers : Restart(s)
           \/ \E p \in Paths : Login(p)
           \/ \E k \in Keys : Defer(k)
    PROVE  VaultInv'
<1>0. ProfileTypes /\ suffered \subseteq suffered' /\ Client(client)
  BY DEF VaultInv, ProfileTypes
<1>1. CASE \E s \in Servers : Restart(s)
  BY <1>0, <1>1, RestartInSequence, RestartByNonce, VaultRegimes
<1>2. CASE \E p \in Paths : Login(p)
  <2>1. PICK p \in Paths : Login(p)
    BY <1>2
  <2>2. ~SameLogin'
    BY <2>1 DEF Login, Fault, SameLogin
  <2>3. InSequence => InSequence'
    <3>1. /\ client'.changes = client.changes /\ client'.saving = 0 /\ session[p].at \in Servers
          /\ \A k \in Keys : client'.vault[k] \in {client.vault[k], store[session[p].at].vault[k]}
      BY <1>0, <2>1, LoginType
    <3>2. UNCHANGED <<store, calls>>
      BY <2>1 DEF Login, servers
    <3>3. \A k \in Keys \ client'.changes :
              client'.vault[k] = client.vault[k] \/ \E s \in Servers : client'.vault[k] = store[s].vault[k]
      BY <3>1
    <3> QED BY <1>0, <3>1, <3>2, <3>3, LoginInSequence
  <2> QED BY <1>0, <2>2, <2>3, VaultRegimes
<1>3. CASE \E k \in Keys : Defer(k)
  <2>1. PICK k \in Keys : Defer(k)
    BY <1>3
  <2>2. client' = Edited(client, {k}) /\ UNCHANGED <<store, calls>>
    BY <2>1 DEF Defer, servers
  <2>3. /\ client'.changes = client.changes \cup {k} /\ client'.version = client.version
        /\ client'.saving = client.saving /\ \A x \in Keys \ {k} : client'.vault[x] = client.vault[x]
    BY <1>0, <2>2, EditedType
  <2>4. client.saving # 0 => ~Sequential' /\ ~SameLogin'
    BY <2>1 DEF Defer, Fault, Sequential, SameLogin
  <2>5. client.saving = 0 /\ InSequence => InSequence'
    BY <1>0, <2>2, <2>3, LoginInSequence
  <2>6. client.saving = 0 /\ ByNonce => ByNonce'
    BY <1>0, <2>2, <2>3, DeferByNonce
  <2> QED BY <1>0, <2>4, <2>5, <2>6, VaultRegimes
<1> QED BY <1>1, <1>2, <1>3

LEMMA VaultFaulty ==
    ASSUME VaultInv, ProfileTypes',
           \/ \E i : DirectFails(i) \/ Timeout(i) \/ \E t : Unreachable(i, t) \/ Crash(i, t)
           \/ \E s, ks : WriteVault(s, ks)
    PROVE  VaultInv'
<1>1. PICK kind \in {"unreachable", "timeout", "crash", "other"} : Fault(kind)
  BY DEF DirectFails, Timeout, Unreachable, Crash, WriteVault
<1>2. ~Sequential' /\ ~SameLogin'
  BY <1>1 DEF Fault, Sequential, SameLogin
<1> QED BY <1>2 DEF VaultInv

LEMMA SufferedGrows ==
    ASSUME [Next]_vars
    PROVE  suffered \subseteq suffered'
<1>1. MayCall \/ NoFault \/ (\E o : MayMail(o)) \/ (\E kind : Fault(kind)) => suffered \subseteq suffered'
  BY DEF MayCall, MayMail, Fault, NoFault
<1>2. CASE \E s \in Servers : \/ \E o \in {Somebody} \cup {Local(p) : p \in Paths} : SendMail(s, o)
                              \/ \E p \in Paths : Connect(p, s)
                              \/ Restart(s) \/ Evict(s) \/ \E k \in Keys : WriteVault(s, {k})
  <2>1. (\E o : MayMail(o)) \/ NoFault \/ \E kind : Fault(kind)
    BY <1>2 DEF SendMail, Connect, Restart, Evict, WriteVault
  <2> QED BY <1>1, <2>1
<1>3. ASSUME NEW i, \/ DirectMail(i) \/ DirectReturns(i) \/ Finish(i) \/ Timeout(i) \/ DirectFails(i)
                    \/ \E t : Replica(i, t) \/ Unreachable(i, t) \/ Crash(i, t)
      PROVE  suffered \subseteq suffered'
  <2>1. CASE DirectMail(i) \/ DirectReturns(i) \/ Finish(i) \/ \E t : Replica(i, t)
    <3>1. NoFault
      BY <2>1 DEF DirectMail, DirectReturns, Finish, Replica
    <3> QED BY <1>1, <3>1
  <2>2. CASE Timeout(i) \/ DirectFails(i) \/ \E t : Unreachable(i, t) \/ Crash(i, t)
    <3>1. Fault("timeout") \/ Fault("unreachable") \/ Fault("crash")
      BY <2>2 DEF Timeout, DirectFails, Unreachable, Crash
    <3> QED BY <1>1, <3>1
  <2> QED BY <1>3, <2>1, <2>2
<1>4. CASE \E p \in Paths : \/ Subscribe(p) \/ Unsubscribe(p) \/ DeliverEvent(p) \/ Hangup(p) \/ Forget(p)
                            \/ ReadMailbox(p) \/ SaveVault(p, {}) \/ (\E k \in Keys : SaveVault(p, {k})) \/ Login(p)
  <2>1. MayCall \/ NoFault \/ \E kind : Fault(kind)
    BY <1>4 DEF Subscribe, Unsubscribe, DeliverEvent, Hangup, Forget, ReadMailbox, SaveVault, Login
  <2> QED BY <1>1, <2>1
<1>5. CASE \E k \in Keys : Defer(k)
  <2>1. \E kind : Fault(kind)
    BY <1>5 DEF Defer
  <2> QED BY <1>1, <2>1
<1>6. CASE UNCHANGED vars
  BY <1>6 DEF vars
<1> QED BY <1>2, <1>3, <1>4, <1>5, <1>6 DEF Next

LEMMA VaultInvInit == Init => VaultInv
<1> SUFFICES ASSUME Init PROVE VaultInv
  OBVIOUS
<1>1. ProfileTypes
  BY ProfileTypesInit
<1>2. /\ store = [s \in Servers |-> Created] /\ calls = <<>> /\ client.saving = 0 /\ client.version = 1
      /\ client.vault = EmptyVault /\ client.changes = {}
  BY DEF Init
<1>3. Created.vault = EmptyVault /\ Created.vault_version = 0 /\ DOMAIN calls = {}
  BY <1>2 DEF Created
<1>4. \A s \in Servers : Agrees(store[s].vault, client) /\ store[s].vault_version = 0
  BY <1>2, <1>3 DEF Agrees
<1> QED BY <1>1, <1>2, <1>3, <1>4 DEF VaultInv, InSequence, ByNonce

LEMMA VaultInvStep == VaultInv /\ [Next]_vars => VaultInv'
<1> SUFFICES ASSUME VaultInv, [Next]_vars PROVE VaultInv'
  OBVIOUS
<1>0. ProfileTypes /\ ProfileTypes' /\ suffered \subseteq suffered'
  BY ProfileTypesStep, ProfileTypesStutter, SufferedGrows DEF VaultInv
<1>1. CASE \E i : \/ \E s \in Servers : \E o \in {Somebody} \cup {Local(p) : p \in Paths} : SendMail(s, o)
                  \/ DirectMail(i) \/ DirectReturns(i) \/ \E p \in Paths : ReadMailbox(p)
  BY <1>0, <1>1, MailQuiet, VaultQuietInv
<1>2. CASE \/ \E s \in Servers : Evict(s)
           \/ UNCHANGED <<store, calls, client>>
  BY <1>0, <1>2, RestQuiet, VaultQuietInv
<1>3. CASE \/ \E p \in Paths : SaveVault(p, {}) \/ \E k \in Keys : SaveVault(p, {k})
           \/ \E i, t : Replica(i, t)
           \/ \E i : Finish(i)
  BY <1>0, <1>3, VaultCalls
<1>4. CASE \/ \E s \in Servers : Restart(s)
           \/ \E p \in Paths : Login(p)
           \/ \E k \in Keys : Defer(k)
  BY <1>0, <1>4, VaultClient
<1>5. CASE \/ \E i : DirectFails(i) \/ Timeout(i) \/ \E t : Unreachable(i, t) \/ Crash(i, t)
           \/ \E s \in Servers : \E k \in Keys : WriteVault(s, {k})
  BY <1>0, <1>5, VaultFaulty
<1>6. CASE \E p \in Paths : \/ \E s \in Servers : Connect(p, s)
                            \/ Subscribe(p) \/ Unsubscribe(p) \/ DeliverEvent(p) \/ Hangup(p) \/ Forget(p)
  <2>1. UNCHANGED <<store, calls, client>>
    BY <1>6 DEF Connect, Subscribe, Unsubscribe, DeliverEvent, Hangup, Forget, servers
  <2> QED BY <1>2, <2>1
<1>7. CASE UNCHANGED vars
  BY <1>2, <1>7 DEF vars
<1>8. Next \/ UNCHANGED vars
  OBVIOUS
<1> QED BY <1>1, <1>2, <1>3, <1>4, <1>5, <1>6, <1>7, <1>8 DEF Next

LEMMA VaultInvImplies == VaultInv => VaultSaved
<1> SUFFICES ASSUME VaultInv, client.changes = {}, client.saving = 0,
                    suffered \subseteq {"overlap", "restart", "defer", "login", "unsubscribe", "self"},
                    ~ {"overlap", "login"} \subseteq suffered
             PROVE  Cardinality({s \in Servers : store[s].vault = client.vault}) > RF \div 2
  BY DEF VaultSaved
<1>1. Sequential \/ SameLogin
  BY DEF Sequential, SameLogin
<1>2. \A s \in Servers : Agrees(store[s].vault, client)
  BY <1>1 DEF VaultInv, InSequence, ByNonce
<1>3. \A s \in Servers : store[s].vault \in [Keys -> Nat] /\ client.vault \in [Keys -> Nat]
  BY DEF VaultInv, ProfileTypes, Profile, Client
<1>4. \A s \in Servers : store[s].vault = client.vault
  BY <1>2, <1>3 DEF Agrees
<1>5. {s \in Servers : store[s].vault = client.vault} = Servers
  BY <1>4
<1>6. RF \in Nat /\ Cardinality(Servers) = RF + 1
  BY GroupAssumption
<1>7. RF + 1 > RF \div 2
  BY <1>6, SMT
<1> QED BY <1>5, <1>6, <1>7

\* When nothing is left to be saved, the next change of the vault will be accepted: the
\* servers have the user's vault (VaultSaved), for every group, set of keys and number of
\* calls, edits and logins.
THEOREM VaultIsSaved == Spec => []VaultSaved
<1>1. Init => VaultInv
  BY VaultInvInit
<1>2. VaultInv /\ [Next]_vars => VaultInv'
  BY VaultInvStep
<1>3. VaultInv => VaultSaved
  BY VaultInvImplies
<1> QED BY <1>1, <1>2, <1>3, PTL DEF Spec
=============================================================================
