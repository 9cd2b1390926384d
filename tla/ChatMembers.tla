---------------------------- MODULE ChatMembers ----------------------------
(***************************************************************************)
(* The member table of one chat on one replica: the LMDB database          *)
(* `members` of storage::chat::Handle and the operations that go through   *)
(* it.  Every operation is one LMDB write transaction, so it is one action *)
(* here; an operation that fails drops its transaction uncommitted and     *)
(* leaves the table (the advanced nonce included) as it was, which is a    *)
(* stuttering step.  Proofs are assumed to verify: a proof is the identity *)
(* of its signer and its nonce.                                            *)
(*                                                                         *)
(* Ranks are numbers, and the SMALLER number is the higher rank:           *)
(* Member::best has rank 0, Member::worst has Rank::MAX.                   *)
(***************************************************************************)
EXTENDS Naturals, FiniteSets

CONSTANTS Identity,     \* users that may be or become members
          MaxNonce,     \* bound on the nonces of the proofs users sign
          MaxTime,      \* bound on the clock
          Rank,         \* ranks a request may ask for
          Cooldown      \* action cooldowns a request may ask for

ASSUME BoundsAssumption == MaxNonce \in Nat /\ MaxTime \in Nat
ASSUME RankAssumption == Rank \subseteq Nat /\ Cooldown \subseteq Nat

VARIABLES exists,       \* the chat directory exists (Handle::create)
          members,      \* the table: a partial function from Identity to Member
          now,          \* the clock, SystemTime::now() in ms
          lastAction    \* history: when, and with which nonce, each entry last
                        \* allocated an action since it was written

vars == <<exists, members, now, lastAction>>

Permission == {"SEND", "INVITE", "KICK"}

NoAction == [at |-> 0, nonce |-> 0]

\* struct Member
Member == [action: Nat, permissions: SUBSET Permission, rank: Nat,
           action_cooldown_ms: Nat, frozen_until: Nat]

\* What a request carries: the fields of Member that add_member and
\* update_member read.
MemberArg == [permissions: SUBSET Permission, rank: Rank, action_cooldown_ms: Cooldown]

\* Member::best
Best == [action |-> 0, permissions |-> Permission, rank |-> 0,
         action_cooldown_ms |-> 0, frozen_until |-> 0]

MaxOf(a, b) == IF a < b THEN b ELSE a

TypeOK == /\ exists \in BOOLEAN
          /\ now \in Nat
          /\ DOMAIN members \subseteq Identity
          /\ members \in [DOMAIN members -> Member]
          /\ lastAction \in [Identity -> [at: Nat, nonce: Nat]]
-----------------------------------------------------------------------------
\* advance_nonce: the new nonce must be larger than the stored one.
NonceAdvances(m, nonce) == m.action < nonce

\* Mutation of MayAct: the cooldown is not looked at.
MayActWhileFrozen(m, p) == p \in m.permissions

\* Member::allocate_action: not frozen, and the permission is held.
MayAct(m, p) == /\ m.frozen_until < now
                /\ p \in m.permissions

\* The acting member after advance_nonce.
Advanced(m, nonce) == [m EXCEPT !.action = nonce]

\* The acting member after advance_nonce and allocate_action.
Acted(m, nonce) ==
    [m EXCEPT !.action = nonce, !.frozen_until = now + m.action_cooldown_ms]

\* Mutation of Capped: the permissions are taken from the request as they are.
CappedWithoutMask(by, arg) ==
    [action |-> 0, permissions |-> arg.permissions,
     rank |-> MaxOf(by.rank, arg.rank),
     action_cooldown_ms |-> MaxOf(by.action_cooldown_ms, arg.action_cooldown_ms),
     frozen_until |-> 0]

\* The entry add_member and update_member write: capped by the acting member's
\* own rank, permissions and cooldown, every other field defaulted.
Capped(by, arg) ==
    [action |-> 0,
     permissions |-> arg.permissions \cap by.permissions,
     rank |-> MaxOf(by.rank, arg.rank),
     action_cooldown_ms |-> MaxOf(by.action_cooldown_ms, arg.action_cooldown_ms),
     frozen_until |-> 0]

\* The table with the entry of id written (a put, or an overwrite in place).
Put(tab, id, m) == [x \in DOMAIN tab \cup {id} |-> IF x = id THEN m ELSE tab[x]]
Del(tab, id) == [x \in DOMAIN tab \ {id} |-> tab[x]]
-----------------------------------------------------------------------------
Init == /\ exists = FALSE
        /\ members = [x \in {} |-> Best]
        /\ now = 1
        /\ lastAction = [x \in Identity |-> NoAction]

\* Storage::create_chat: Handle::create refuses an existing chat, create_member
\* then stores the creator as Member::best.
CreateChat(id) ==
    /\ ~exists
    /\ exists' = TRUE
    /\ members' = Put(members, id, Best)
    /\ UNCHANGED <<now, lastAction>>

\* Handle::add_member
AddMember(by, nonce, id, arg) ==
    /\ by \in DOMAIN members
    /\ NonceAdvances(members[by], nonce)
    /\ MayAct(members[by], "INVITE")
    /\ id \notin DOMAIN members
    /\ members' = Put(Put(members, by, Acted(members[by], nonce)),
                      id, Capped(members[by], arg))
    /\ lastAction' = [lastAction EXCEPT ![by] = [at |-> now, nonce |-> nonce], ![id] = NoAction]
    /\ UNCHANGED <<exists, now>>

\* Handle::kick_member on oneself: leaving needs no permission.
Leave(by, nonce) ==
    /\ by \in DOMAIN members
    /\ NonceAdvances(members[by], nonce)
    /\ members' = Del(members, by)
    /\ lastAction' = [lastAction EXCEPT ![by] = NoAction]
    /\ UNCHANGED <<exists, now>>

\* Handle::kick_member on another member.
KickMember(by, nonce, id) ==
    /\ by \in DOMAIN members
    /\ by # id
    /\ NonceAdvances(members[by], nonce)
    /\ MayAct(members[by], "KICK")
    /\ id \in DOMAIN members
    /\ members[id].rank < members[by].rank
    /\ members' = Del(Put(members, by, Acted(members[by], nonce)), id)
    /\ lastAction' = [lastAction EXCEPT ![by] = [at |-> now, nonce |-> nonce], ![id] = NoAction]
    /\ UNCHANGED <<exists, now>>

\* Handle::update_member: only the nonce and the ranks are looked at, no
\* permission and no cooldown; the entry is rewritten with a default nonce.
UpdateMember(by, nonce, id, arg) ==
    /\ by \in DOMAIN members
    /\ NonceAdvances(members[by], nonce)
    /\ id \in DOMAIN members
    /\ members[id].rank > members[by].rank
    /\ members' = Put(Put(members, by, Advanced(members[by], nonce)),
                      id, Capped(members[by], arg))
    /\ lastAction' = [lastAction EXCEPT ![id] = NoAction]
    /\ UNCHANGED <<exists, now>>

\* The member transaction of Handle::send_message.
SendMessage(by, nonce) ==
    /\ by \in DOMAIN members
    /\ NonceAdvances(members[by], nonce)
    /\ MayAct(members[by], "SEND")
    /\ members' = Put(members, by, Acted(members[by], nonce))
    /\ lastAction' = [lastAction EXCEPT ![by] = [at |-> now, nonce |-> nonce]]
    /\ UNCHANGED <<exists, now>>

\* The clock of the replica.
Tick == /\ now < MaxTime
        /\ now' = now + 1
        /\ UNCHANGED <<exists, members, lastAction>>

Next == \/ \E id \in Identity : CreateChat(id)
        \/ \E by, id \in Identity, nonce \in 1 .. MaxNonce, arg \in MemberArg :
             AddMember(by, nonce, id, arg)
        \/ \E by \in Identity, nonce \in 1 .. MaxNonce : Leave(by, nonce)
        \/ \E by, id \in Identity, nonce \in 1 .. MaxNonce : KickMember(by, nonce, id)
        \/ \E by, id \in Identity, nonce \in 1 .. MaxNonce, arg \in MemberArg :
             UpdateMember(by, nonce, id, arg)
        \/ \E by \in Identity, nonce \in 1 .. MaxNonce : SendMessage(by, nonce)
        \/ Tick

Spec == Init /\ [][Next]_vars
-----------------------------------------------------------------------------
\* An entry grants no more than another: no better rank, no further permission,
\* no shorter cooldown.
NoStrongerThan(m, o) == /\ o.rank <= m.rank
                        /\ m.permissions \subseteq o.permissions
                        /\ o.action_cooldown_ms <= m.action_cooldown_ms

\* Once a chat exists, no sequence of invites, kicks, departures and updates
\* mints authority: whatever an entry grants after a step, some entry granted at
\* least as much before it (the caps in add_member and update_member).
MintsNothing ==
    exists => \A id \in DOMAIN members' :
                \E o \in DOMAIN members : NoStrongerThan(members'[id], members[o])
NoAuthorityMinted == [][MintsNothing]_vars

\* Rate limiting: two actions that one member entry allocates (invite, kick of
\* another, message) are more than its cooldown apart, whatever is interleaved
\* with them (allocate_action).  An entry that is removed or rewritten by
\* update_member starts again: its frozen_until is reset to 0.
ActsAfterCooldown ==
    \A id \in Identity :
      /\ lastAction[id].nonce # 0
      /\ lastAction'[id].nonce # 0
      /\ lastAction'[id] # lastAction[id]
      => lastAction[id].at + members[id].action_cooldown_ms < lastAction'[id].at
ActionSpacing == [][ActsAfterCooldown]_vars

\* The strengthening that makes ActionSpacing inductive: an entry that has acted
\* since it was written is frozen for its cooldown from that action on, and an
\* identity without an entry has no action on record.
FreezeMatchesHistory ==
    \A id \in Identity :
      lastAction[id].nonce # 0 =>
        /\ id \in DOMAIN members
        /\ members[id].frozen_until = lastAction[id].at + members[id].action_cooldown_ms

\* A table with an entry belongs to a chat that exists, so creating the chat
\* never overwrites an entry that has acted.
EntriesOfExistingChat == DOMAIN members # {} => exists
=============================================================================
