-------------------------- MODULE ChatMembersProofs --------------------------
(***************************************************************************)
(* Proofs about ChatMembers for every set of identities, ranks, cooldowns  *)
(* and every bound on nonces and time; and about Recovery, which builds a  *)
(* member table from those of other servers.                               *)
(***************************************************************************)
EXTENDS ChatMembers, Recovery, SubsequencesProofs, FiniteSetTheorems

\* The larger of two naturals is a natural and bounds both.
LEMMA MaxOfFacts ==
  ASSUME NEW a \in Nat, NEW b \in Nat
  PROVE  MaxOf(a, b) \in Nat /\ a <= MaxOf(a, b) /\ b <= MaxOf(a, b)
BY DEF MaxOf

\* The entry written for an invited or updated member is well typed and grants
\* no more than the acting member's.
LEMMA CappedFacts ==
  ASSUME NEW by \in Member, NEW arg \in MemberArg
  PROVE  Capped(by, arg) \in Member /\ NoStrongerThan(Capped(by, arg), by)
<1>1. by.rank \in Nat /\ by.action_cooldown_ms \in Nat /\ by.permissions \in SUBSET Permission
  BY DEF Member
<1>2. arg.rank \in Nat /\ arg.action_cooldown_ms \in Nat /\ arg.permissions \in SUBSET Permission
  BY RankAssumption DEF MemberArg
<1>3. /\ MaxOf(by.rank, arg.rank) \in Nat
      /\ by.rank <= MaxOf(by.rank, arg.rank)
      /\ MaxOf(by.action_cooldown_ms, arg.action_cooldown_ms) \in Nat
      /\ by.action_cooldown_ms <= MaxOf(by.action_cooldown_ms, arg.action_cooldown_ms)
  BY <1>1, <1>2, MaxOfFacts
<1> QED
  BY <1>1, <1>2, <1>3 DEF Capped, Member, NoStrongerThan

\* The acting member keeps its type, its rank, permissions and cooldown.
LEMMA ActedFacts ==
  ASSUME NEW m \in Member, NEW nonce \in Nat, now \in Nat
  PROVE  /\ Acted(m, nonce) \in Member /\ NoStrongerThan(Acted(m, nonce), m)
         /\ Acted(m, nonce).frozen_until = now + m.action_cooldown_ms
         /\ Acted(m, nonce).action_cooldown_ms = m.action_cooldown_ms
         /\ Advanced(m, nonce) \in Member /\ NoStrongerThan(Advanced(m, nonce), m)
         /\ Advanced(m, nonce).frozen_until = m.frozen_until
         /\ Advanced(m, nonce).action_cooldown_ms = m.action_cooldown_ms
<1>1. /\ m.action_cooldown_ms \in Nat /\ m.rank \in Nat
      /\ m.permissions \in SUBSET Permission /\ m.frozen_until \in Nat
  BY DEF Member
<1>2. /\ Acted(m, nonce).rank = m.rank
      /\ Acted(m, nonce).permissions = m.permissions
      /\ Acted(m, nonce).action_cooldown_ms = m.action_cooldown_ms
      /\ Acted(m, nonce).frozen_until = now + m.action_cooldown_ms
  BY DEF Acted, Member
<1>3. /\ Advanced(m, nonce).rank = m.rank
      /\ Advanced(m, nonce).permissions = m.permissions
      /\ Advanced(m, nonce).action_cooldown_ms = m.action_cooldown_ms
      /\ Advanced(m, nonce).frozen_until = m.frozen_until
  BY DEF Advanced, Member
<1>4. now + m.action_cooldown_ms \in Nat
  BY <1>1
<1>5. Acted(m, nonce) \in Member
  BY <1>4 DEF Acted, Member
<1>6. Advanced(m, nonce) \in Member
  BY DEF Advanced, Member
<1>7. NoStrongerThan(Acted(m, nonce), m) /\ NoStrongerThan(Advanced(m, nonce), m)
  BY <1>1, <1>2, <1>3 DEF NoStrongerThan
<1> QED
  BY <1>2, <1>3, <1>5, <1>6, <1>7

\* The tables the operations build from a well-typed one are well typed.
LEMMA TableType ==
  ASSUME NEW tab, DOMAIN tab \subseteq Identity, tab \in [DOMAIN tab -> Member],
         NEW id \in Identity
  PROVE  /\ \A m \in Member : /\ DOMAIN Put(tab, id, m) \subseteq Identity
                              /\ Put(tab, id, m) \in [DOMAIN Put(tab, id, m) -> Member]
         /\ DOMAIN Del(tab, id) \subseteq Identity
         /\ Del(tab, id) \in [DOMAIN Del(tab, id) -> Member]
BY DEF Put, Del

\* Best is a member and the empty table is a table.
LEMMA BestType == Best \in Member
BY DEF Best, Member
-----------------------------------------------------------------------------
\* The member table stays well typed: every identity maps to a whole entry with
\* natural rank, cooldown and freeze time, whatever operations are applied.
THEOREM TypeCorrect == Spec => []TypeOK
<1>1. Init => TypeOK
  <2> SUFFICES ASSUME Init PROVE TypeOK
    OBVIOUS
  <2>1. DOMAIN members = {} /\ members \in [{} -> Member]
    BY DEF Init
  <2>2. lastAction \in [Identity -> [at: Nat, nonce: Nat]]
    BY DEF Init, NoAction
  <2> QED
    BY <2>1, <2>2 DEF Init, TypeOK
<1>2. TypeOK /\ [Next]_vars => TypeOK'
  <2> SUFFICES ASSUME TypeOK, [Next]_vars
               PROVE  TypeOK'
    OBVIOUS
  <2> USE DEF TypeOK
  <2>1. ASSUME NEW id \in Identity, CreateChat(id)
        PROVE  TypeOK'
    BY <2>1, BestType, TableType DEF CreateChat
  <2>2. ASSUME NEW by \in Identity, NEW id \in Identity, NEW nonce \in 1 .. MaxNonce,
               NEW arg \in MemberArg, AddMember(by, nonce, id, arg)
        PROVE  TypeOK'
    <3>1. members[by] \in Member /\ nonce \in Nat
      BY <2>2 DEF AddMember
    <3>2. Acted(members[by], nonce) \in Member /\ Capped(members[by], arg) \in Member
      BY <3>1, ActedFacts, CappedFacts
    <3> DEFINE mid == Put(members, by, Acted(members[by], nonce))
    <3>3. DOMAIN mid \subseteq Identity /\ mid \in [DOMAIN mid -> Member]
      BY <3>2, TableType
    <3>4. DOMAIN members' \subseteq Identity /\ members' \in [DOMAIN members' -> Member]
      <4> HIDE DEF mid
      <4>1. members' = Put(mid, id, Capped(members[by], arg))
        BY <2>2 DEF AddMember, mid
      <4> QED
        BY <3>2, <3>3, <4>1, TableType
    <3> QED
      BY <2>2, <3>1, <3>4 DEF AddMember, NoAction
  <2>3. ASSUME NEW by \in Identity, NEW nonce \in 1 .. MaxNonce, Leave(by, nonce)
        PROVE  TypeOK'
    BY <2>3, TableType DEF Leave, NoAction
  <2>4. ASSUME NEW by \in Identity, NEW id \in Identity, NEW nonce \in 1 .. MaxNonce,
               KickMember(by, nonce, id)
        PROVE  TypeOK'
    <3>1. members[by] \in Member /\ nonce \in Nat
      BY <2>4 DEF KickMember
    <3>2. Acted(members[by], nonce) \in Member
      BY <3>1, ActedFacts
    <3> DEFINE mid == Put(members, by, Acted(members[by], nonce))
    <3>3. DOMAIN mid \subseteq Identity /\ mid \in [DOMAIN mid -> Member]
      BY <3>2, TableType
    <3>4. DOMAIN members' \subseteq Identity /\ members' \in [DOMAIN members' -> Member]
      <4> HIDE DEF mid
      <4>1. members' = Del(mid, id)
        BY <2>4 DEF KickMember, mid
      <4> QED
        BY <3>3, <4>1, TableType
    <3> QED
      BY <2>4, <3>1, <3>4 DEF KickMember, NoAction
  <2>5. ASSUME NEW by \in Identity, NEW id \in Identity, NEW nonce \in 1 .. MaxNonce,
               NEW arg \in MemberArg, UpdateMember(by, nonce, id, arg)
        PROVE  TypeOK'
    <3>1. members[by] \in Member /\ nonce \in Nat
      BY <2>5 DEF UpdateMember
    <3>2. Advanced(members[by], nonce) \in Member /\ Capped(members[by], arg) \in Member
      BY <3>1, ActedFacts, CappedFacts
    <3> DEFINE mid == Put(members, by, Advanced(members[by], nonce))
    <3>3. DOMAIN mid \subseteq Identity /\ mid \in [DOMAIN mid -> Member]
      BY <3>2, TableType
    <3>4. DOMAIN members' \subseteq Identity /\ members' \in [DOMAIN members' -> Member]
      <4> HIDE DEF mid
      <4>1. members' = Put(mid, id, Capped(members[by], arg))
        BY <2>5 DEF UpdateMember, mid
      <4> QED
        BY <3>2, <3>3, <4>1, TableType
    <3> QED
      BY <2>5, <3>1, <3>4 DEF UpdateMember, NoAction
  <2>6. ASSUME NEW by \in Identity, NEW nonce \in 1 .. MaxNonce, SendMessage(by, nonce)
        PROVE  TypeOK'
    <3>1. members[by] \in Member /\ nonce \in Nat
      BY <2>6 DEF SendMessage
    <3>2. Acted(members[by], nonce) \in Member
      BY <3>1, ActedFacts
    <3>3. DOMAIN members' \subseteq Identity /\ members' \in [DOMAIN members' -> Member]
      BY <2>6, <3>2, TableType DEF SendMessage
    <3> QED
      BY <2>6, <3>1, <3>3 DEF SendMessage
  <2>7. CASE Tick
    BY <2>7 DEF Tick
  <2>8. CASE UNCHANGED vars
    BY <2>8 DEF vars
  <2> QED
    BY <2>1, <2>2, <2>3, <2>4, <2>5, <2>6, <2>7, <2>8 DEF Next
<1> QED
  BY <1>1, <1>2, PTL DEF Spec
-----------------------------------------------------------------------------
\* Every entry that one acting member's step leaves behind is dominated by an
\* entry of the table before the step.
LEMMA StepMintsNothing ==
  ASSUME TypeOK, exists, Next
  PROVE  \A x \in DOMAIN members' :
           \E o \in DOMAIN members : NoStrongerThan(members'[x], members[o])
<1>1. \A x \in DOMAIN members : members[x] \in Member
  BY DEF TypeOK
<1>2. \A m \in Member : NoStrongerThan(m, m)
  BY DEF NoStrongerThan, Member
<1> SUFFICES ASSUME NEW x \in DOMAIN members'
             PROVE  \E o \in DOMAIN members : NoStrongerThan(members'[x], members[o])
  OBVIOUS
<1>3. ASSUME NEW by \in Identity, NEW id \in Identity, NEW nonce \in 1 .. MaxNonce,
             NEW arg \in MemberArg, AddMember(by, nonce, id, arg)
      PROVE  \E o \in DOMAIN members : NoStrongerThan(members'[x], members[o])
  <2>1. by \in DOMAIN members /\ members[by] \in Member /\ nonce \in Nat /\ now \in Nat
    BY <1>1, <1>3 DEF AddMember, TypeOK
  <2>2. x = id \/ (x = by /\ x # id) \/ (x \in DOMAIN members /\ x # by /\ x # id)
    BY <1>3 DEF AddMember, Put
  <2>3. CASE x = id
    BY <1>3, <2>1, <2>3, CappedFacts DEF AddMember, Put
  <2>4. CASE x = by /\ x # id
    BY <1>3, <2>1, <2>4, ActedFacts DEF AddMember, Put
  <2>5. CASE x \in DOMAIN members /\ x # by /\ x # id
    BY <1>1, <1>2, <1>3, <2>5 DEF AddMember, Put
  <2> QED
    BY <2>2, <2>3, <2>4, <2>5
<1>4. ASSUME NEW by \in Identity, NEW nonce \in 1 .. MaxNonce, Leave(by, nonce)
      PROVE  \E o \in DOMAIN members : NoStrongerThan(members'[x], members[o])
  BY <1>1, <1>2, <1>4 DEF Leave, Del
<1>5. ASSUME NEW by \in Identity, NEW id \in Identity, NEW nonce \in 1 .. MaxNonce,
             KickMember(by, nonce, id)
      PROVE  \E o \in DOMAIN members : NoStrongerThan(members'[x], members[o])
  <2>1. by \in DOMAIN members /\ members[by] \in Member /\ nonce \in Nat /\ now \in Nat
    BY <1>1, <1>5 DEF KickMember, TypeOK
  <2>2. x # id /\ (x = by \/ (x \in DOMAIN members /\ x # by))
    BY <1>5 DEF KickMember, Put, Del
  <2>3. CASE x = by
    BY <1>5, <2>1, <2>2, <2>3, ActedFacts DEF KickMember, Put, Del
  <2>4. CASE x \in DOMAIN members /\ x # by
    BY <1>1, <1>2, <1>5, <2>2, <2>4 DEF KickMember, Put, Del
  <2> QED
    BY <2>2, <2>3, <2>4
<1>6. ASSUME NEW by \in Identity, NEW id \in Identity, NEW nonce \in 1 .. MaxNonce,
             NEW arg \in MemberArg, UpdateMember(by, nonce, id, arg)
      PROVE  \E o \in DOMAIN members : NoStrongerThan(members'[x], members[o])
  <2>1. by \in DOMAIN members /\ members[by] \in Member /\ nonce \in Nat /\ now \in Nat
    BY <1>1, <1>6 DEF UpdateMember, TypeOK
  <2>2. x = id \/ (x = by /\ x # id) \/ (x \in DOMAIN members /\ x # by /\ x # id)
    BY <1>6 DEF UpdateMember, Put
  <2>3. CASE x = id
    BY <1>6, <2>1, <2>3, CappedFacts DEF UpdateMember, Put
  <2>4. CASE x = by /\ x # id
    BY <1>6, <2>1, <2>4, ActedFacts DEF UpdateMember, Put
  <2>5. CASE x \in DOMAIN members /\ x # by /\ x # id
    BY <1>1, <1>2, <1>6, <2>5 DEF UpdateMember, Put
  <2> QED
    BY <2>2, <2>3, <2>4, <2>5
<1>7. ASSUME NEW by \in Identity, NEW nonce \in 1 .. MaxNonce, SendMessage(by, nonce)
      PROVE  \E o \in DOMAIN members : NoStrongerThan(members'[x], members[o])
  <2>1. by \in DOMAIN members /\ members[by] \in Member /\ nonce \in Nat /\ now \in Nat
    BY <1>1, <1>7 DEF SendMessage, TypeOK
  <2>2. CASE x = by
    BY <1>7, <2>1, <2>2, ActedFacts DEF SendMessage, Put
  <2>3. CASE x # by
    BY <1>1, <1>2, <1>7, <2>3 DEF SendMessage, Put
  <2> QED
    BY <2>2, <2>3
<1>8. CASE Tick
  BY <1>1, <1>2, <1>8 DEF Tick
<1>9. ASSUME NEW id \in Identity, CreateChat(id)
      PROVE  FALSE
  BY <1>9 DEF CreateChat
<1> QED
  BY <1>3, <1>4, <1>5, <1>6, <1>7, <1>8, <1>9 DEF Next

\* No step of any operation mints authority, for every set of identities, ranks
\* and cooldowns.
THEOREM AuthorityNeverMinted == Spec => NoAuthorityMinted
<1>1. TypeOK /\ [Next]_vars => [MintsNothing]_vars
  BY StepMintsNothing DEF MintsNothing
<1> QED
  BY <1>1, TypeCorrect, PTL DEF Spec, NoAuthorityMinted
-----------------------------------------------------------------------------
\* What the freeze time of an acting member says about its history is preserved
\* by every operation.
LEMMA FreezeStep ==
  ASSUME TypeOK, FreezeMatchesHistory, EntriesOfExistingChat, [Next]_vars
  PROVE  FreezeMatchesHistory'
<1> SUFFICES ASSUME NEW x \in Identity, lastAction'[x].nonce # 0
             PROVE  /\ x \in DOMAIN members'
                    /\ members'[x].frozen_until
                         = lastAction'[x].at + members'[x].action_cooldown_ms
  BY DEF FreezeMatchesHistory
<1> DEFINE Goal == /\ x \in DOMAIN members'
                   /\ members'[x].frozen_until
                        = lastAction'[x].at + members'[x].action_cooldown_ms
<1>1. \A y \in DOMAIN members : members[y] \in Member
  BY DEF TypeOK
<1>2. lastAction[x].nonce # 0 =>
        /\ x \in DOMAIN members
        /\ members[x].frozen_until = lastAction[x].at + members[x].action_cooldown_ms
  BY DEF FreezeMatchesHistory
<1>3. lastAction \in [Identity -> [at: Nat, nonce: Nat]] /\ now \in Nat
  BY DEF TypeOK
<1>4. ASSUME NEW id \in Identity, CreateChat(id)
      PROVE  Goal
  BY <1>2, <1>4 DEF CreateChat, EntriesOfExistingChat
<1>5. ASSUME NEW by \in Identity, NEW id \in Identity, NEW nonce \in 1 .. MaxNonce,
             NEW arg \in MemberArg, AddMember(by, nonce, id, arg)
      PROVE  Goal
  <2>1. by \in DOMAIN members /\ members[by] \in Member /\ nonce \in Nat
    BY <1>1, <1>5 DEF AddMember
  <2>2. x # id
    BY <1>3, <1>5 DEF AddMember, NoAction
  <2>3. CASE x = by
    <3>1. lastAction'[x].at = now
      BY <1>3, <1>5, <2>2, <2>3 DEF AddMember
    <3>2. x \in DOMAIN members' /\ members'[x] = Acted(members[by], nonce)
      BY <1>5, <2>2, <2>3 DEF AddMember, Put
    <3>3. /\ Acted(members[by], nonce).frozen_until = now + members[by].action_cooldown_ms
          /\ Acted(members[by], nonce).action_cooldown_ms = members[by].action_cooldown_ms
      BY <1>3, <2>1, ActedFacts
    <3> QED
      BY <3>1, <3>2, <3>3
  <2>4. CASE x # by
    <3>1. lastAction'[x] = lastAction[x]
      BY <1>3, <1>5, <2>2, <2>4 DEF AddMember
    <3>2. x \in DOMAIN members => x \in DOMAIN members' /\ members'[x] = members[x]
      BY <1>5, <2>2, <2>4 DEF AddMember, Put
    <3> QED
      BY <1>2, <3>1, <3>2
  <2> QED
    BY <2>3, <2>4
<1>6. ASSUME NEW by \in Identity, NEW nonce \in 1 .. MaxNonce, Leave(by, nonce)
      PROVE  Goal
  <2>1. x # by
    BY <1>3, <1>6 DEF Leave, NoAction
  <2>2. lastAction'[x] = lastAction[x]
    BY <1>3, <1>6, <2>1 DEF Leave
  <2> QED
    BY <1>2, <1>6, <2>1, <2>2 DEF Leave, Del
<1>7. ASSUME NEW by \in Identity, NEW id \in Identity, NEW nonce \in 1 .. MaxNonce,
             KickMember(by, nonce, id)
      PROVE  Goal
  <2>1. by \in DOMAIN members /\ members[by] \in Member /\ nonce \in Nat
    BY <1>1, <1>7 DEF KickMember
  <2>2. x # id
    BY <1>3, <1>7 DEF KickMember, NoAction
  <2>3. CASE x = by
    <3>1. lastAction'[x].at = now
      BY <1>3, <1>7, <2>2, <2>3 DEF KickMember
    <3>2. x \in DOMAIN members' /\ members'[x] = Acted(members[by], nonce)
      BY <1>7, <2>2, <2>3 DEF KickMember, Put, Del
    <3>3. /\ Acted(members[by], nonce).frozen_until = now + members[by].action_cooldown_ms
          /\ Acted(members[by], nonce).action_cooldown_ms = members[by].action_cooldown_ms
      BY <1>3, <2>1, ActedFacts
    <3> QED
      BY <3>1, <3>2, <3>3
  <2>4. CASE x # by
    <3>1. lastAction'[x] = lastAction[x]
      BY <1>3, <1>7, <2>2, <2>4 DEF KickMember
    <3>2. x \in DOMAIN members => x \in DOMAIN members' /\ members'[x] = members[x]
      BY <1>7, <2>2, <2>4 DEF KickMember, Put, Del
    <3> QED
      BY <1>2, <3>1, <3>2
  <2> QED
    BY <2>3, <2>4
<1>8. ASSUME NEW by \in Identity, NEW id \in Identity, NEW nonce \in 1 .. MaxNonce,
             NEW arg \in MemberArg, UpdateMember(by, nonce, id, arg)
      PROVE  Goal
  <2>1. by \in DOMAIN members /\ members[by] \in Member /\ nonce \in Nat
    BY <1>1, <1>8 DEF UpdateMember
  <2>2. x # id
    BY <1>3, <1>8 DEF UpdateMember, NoAction
  <2>3. lastAction'[x] = lastAction[x]
    BY <1>3, <1>8, <2>2 DEF UpdateMember
  <2>4. CASE x = by
    <3>1. x \in DOMAIN members' /\ members'[x] = Advanced(members[by], nonce)
      BY <1>8, <2>2, <2>4 DEF UpdateMember, Put
    <3>2. /\ Advanced(members[by], nonce).frozen_until = members[by].frozen_until
          /\ Advanced(members[by], nonce).action_cooldown_ms = members[by].action_cooldown_ms
      BY <1>3, <2>1, ActedFacts
    <3> QED
      BY <1>2, <2>3, <2>4, <3>1, <3>2
  <2>5. CASE x # by
    <3>1. x \in DOMAIN members => x \in DOMAIN members' /\ members'[x] = members[x]
      BY <1>8, <2>2, <2>5 DEF UpdateMember, Put
    <3> QED
      BY <1>2, <2>3, <3>1
  <2> QED
    BY <2>4, <2>5
<1>9. ASSUME NEW by \in Identity, NEW nonce \in 1 .. MaxNonce, SendMessage(by, nonce)
      PROVE  Goal
  <2>1. by \in DOMAIN members /\ members[by] \in Member /\ nonce \in Nat
    BY <1>1, <1>9 DEF SendMessage
  <2>2. CASE x = by
    <3>1. lastAction'[x].at = now
      BY <1>3, <1>9, <2>2 DEF SendMessage
    <3>2. x \in DOMAIN members' /\ members'[x] = Acted(members[by], nonce)
      BY <1>9, <2>2 DEF SendMessage, Put
    <3>3. /\ Acted(members[by], nonce).frozen_until = now + members[by].action_cooldown_ms
          /\ Acted(members[by], nonce).action_cooldown_ms = members[by].action_cooldown_ms
      BY <1>3, <2>1, ActedFacts
    <3> QED
      BY <3>1, <3>2, <3>3
  <2>3. CASE x # by
    BY <1>2, <1>3, <1>9, <2>3 DEF SendMessage, Put
  <2> QED
    BY <2>2, <2>3
<1>10. CASE Tick
  BY <1>2, <1>10 DEF Tick
<1>11. CASE UNCHANGED vars
  BY <1>2, <1>11 DEF vars
<1> QED
  BY <1>4, <1>5, <1>6, <1>7, <1>8, <1>9, <1>10, <1>11 DEF Next

\* No operation fills the table of a chat that does not exist.
LEMMA ExistsStep ==
  ASSUME EntriesOfExistingChat, [Next]_vars
  PROVE  EntriesOfExistingChat'
<1> USE DEF EntriesOfExistingChat
<1>1. ASSUME NEW id \in Identity, CreateChat(id)
      PROVE  EntriesOfExistingChat'
  BY <1>1 DEF CreateChat
<1>2. ASSUME NEW by \in DOMAIN members, UNCHANGED exists
      PROVE  EntriesOfExistingChat'
  BY <1>2
<1>3. CASE UNCHANGED <<exists, members>>
  BY <1>3
<1> QED
  BY <1>1, <1>2, <1>3
     DEF Next, vars, AddMember, Leave, KickMember, UpdateMember, SendMessage, Tick

\* An action that a member allocates finds its entry thawed: the freeze set by
\* its previous action has run out.
LEMMA SpacingStep ==
  ASSUME TypeOK, FreezeMatchesHistory, Next
  PROVE  ActsAfterCooldown
<1> SUFFICES ASSUME NEW x \in Identity, lastAction[x].nonce # 0, lastAction'[x].nonce # 0,
                    lastAction'[x] # lastAction[x]
             PROVE  lastAction[x].at + members[x].action_cooldown_ms < lastAction'[x].at
  BY DEF ActsAfterCooldown
<1>1. members[x].frozen_until = lastAction[x].at + members[x].action_cooldown_ms
  BY DEF FreezeMatchesHistory
<1>2. lastAction \in [Identity -> [at: Nat, nonce: Nat]]
  BY DEF TypeOK
<1>3. \A id \in Identity : CreateChat(id) => FALSE
  BY DEF CreateChat
<1>4. ASSUME NEW by \in Identity, NEW id \in Identity, NEW nonce \in 1 .. MaxNonce,
             NEW arg \in MemberArg, AddMember(by, nonce, id, arg)
      PROVE  members[x].frozen_until < lastAction'[x].at
  <2>1. x = by /\ x # id
    BY <1>2, <1>4 DEF AddMember, NoAction
  <2> QED
    BY <1>2, <1>4, <2>1 DEF AddMember, MayAct
<1>5. ASSUME NEW by \in Identity, NEW nonce \in 1 .. MaxNonce, Leave(by, nonce)
      PROVE  FALSE
  BY <1>2, <1>5 DEF Leave, NoAction
<1>6. ASSUME NEW by \in Identity, NEW id \in Identity, NEW nonce \in 1 .. MaxNonce,
             KickMember(by, nonce, id)
      PROVE  members[x].frozen_until < lastAction'[x].at
  <2>1. x = by /\ x # id
    BY <1>2, <1>6 DEF KickMember, NoAction
  <2> QED
    BY <1>2, <1>6, <2>1 DEF KickMember, MayAct
<1>7. ASSUME NEW by \in Identity, NEW id \in Identity, NEW nonce \in 1 .. MaxNonce,
             NEW arg \in MemberArg, UpdateMember(by, nonce, id, arg)
      PROVE  FALSE
  BY <1>2, <1>7 DEF UpdateMember, NoAction
<1>8. ASSUME NEW by \in Identity, NEW nonce \in 1 .. MaxNonce, SendMessage(by, nonce)
      PROVE  members[x].frozen_until < lastAction'[x].at
  <2>1. x = by
    BY <1>2, <1>8 DEF SendMessage
  <2> QED
    BY <1>2, <1>8, <2>1 DEF SendMessage, MayAct
<1>9. ~Tick
  BY DEF Tick
<1> QED
  BY <1>1, <1>3, <1>4, <1>5, <1>6, <1>7, <1>8, <1>9 DEF Next

\* Rate limiting holds for every set of identities and cooldowns.
THEOREM CooldownRespected == Spec => ActionSpacing
<1>1. Init => FreezeMatchesHistory /\ EntriesOfExistingChat
  BY DEF Init, FreezeMatchesHistory, EntriesOfExistingChat, NoAction
<1>2. TypeOK /\ FreezeMatchesHistory /\ EntriesOfExistingChat /\ [Next]_vars
        => FreezeMatchesHistory' /\ EntriesOfExistingChat'
  BY FreezeStep, ExistsStep
<1>3. TypeOK /\ FreezeMatchesHistory /\ [Next]_vars => [ActsAfterCooldown]_vars
  BY SpacingStep
<1> QED
  BY <1>1, <1>2, <1>3, TypeCorrect, PTL DEF Spec, ActionSpacing

-----------------------------------------------------------------------------
(***************************************************************************)
(* Recovery of a chat by a group of the size the code has, for any number  *)
(* of recoveries and requests, any grants and any nonces.                  *)
(***************************************************************************)

\* A set of nonces has a largest one.
LEMMA LargestOf ==
    ASSUME NEW n \in Nat, NEW S, S \subseteq -1 .. n, S # {}
    PROVE  Max(S) \in S /\ \A y \in S : y <= Max(S)
<1> DEFINE T == {b \in Nat : \A y \in S : y <= b - 1}
<1>1. n + 1 \in T
  BY SMT
<1>2. PICK b \in T : \A c \in T : b <= c
  <2>1. T \subseteq Nat /\ T # {}
    BY <1>1
  <2> HIDE DEF T
  <2> QED BY <2>1, LeastNumber
<1>3. b \in Nat /\ \A y \in S : y <= b - 1
  OBVIOUS
<1>4. b - 1 \in S
  <2> SUFFICES ASSUME b - 1 \notin S PROVE FALSE
    OBVIOUS
  <2>1. \A y \in S : y \in Int /\ -1 <= y /\ y <= b - 2
    BY <1>3, SMT
  <2>2. b # 0 => b - 1 \in T
    BY <1>3, <2>1, SMT
  <2>3. b = 0
    <3>1. b # 0 => b <= b - 1
      BY <1>2, <2>2
    <3> QED BY <1>3, <3>1, SMT
  <2>4. PICK y \in S : TRUE
    OBVIOUS
  <2> QED BY <2>1, <2>3, <2>4, SMT
<1>5. \E x \in S : \A y \in S : x >= y
  BY <1>3, <1>4, SMT
<1>6. Max(S) \in S /\ \A y \in S : Max(S) >= y
  BY <1>5 DEF Max
<1> QED BY <1>6, SMT

LEMMA LargestOfOne ==
    ASSUME NEW x \in Int
    PROVE  Max({x}) = x
<1>1. \E y \in {x} : \A z \in {x} : y >= z
  BY SMT
<1> QED BY <1>1 DEF Max

\* Two sets of servers in a group of four others meet in all but as many as the two leave out.
LEMMA Overlap ==
    ASSUME RF = 4, NEW A, NEW R, A \subseteq Others, R \subseteq Others
    PROVE  /\ IsFiniteSet(A) /\ IsFiniteSet(R) /\ IsFiniteSet(A \cap R)
           /\ Cardinality(A) \in Nat /\ Cardinality(R) \in Nat /\ Cardinality(A \cap R) \in Nat
           /\ Cardinality(A) + Cardinality(R) - 4 <= Cardinality(A \cap R)
<1>1. IsFiniteSet(Others) /\ Cardinality(Others) = 4
  BY RecoveryAssumption DEF RF
<1>2. /\ IsFiniteSet(A) /\ IsFiniteSet(R) /\ IsFiniteSet(A \cap R) /\ IsFiniteSet(A \cup R)
      /\ Cardinality(A \cup R) <= 4
  BY <1>1, FS_Subset, A \cap R \subseteq Others, A \cup R \subseteq Others
<1>3. /\ Cardinality(A) \in Nat /\ Cardinality(R) \in Nat
      /\ Cardinality(A \cap R) \in Nat /\ Cardinality(A \cup R) \in Nat
  BY <1>2, FS_CardinalityType
<1>4. Cardinality(A \cup R) = Cardinality(A) + Cardinality(R) - Cardinality(A \cap R)
  BY <1>2, FS_Union
<1> QED BY <1>2, <1>3, <1>4, SMT

\* What a majority has is the most common value.
LEMMA MajorityIsMostCommon ==
    ASSUME NEW v, IsFiniteSet(DOMAIN v), NEW A, A \subseteq DOMAIN v, NEW x \in Int,
           \A o \in A : v[o] = x, Cardinality(DOMAIN v \ A) < Cardinality(A)
    PROVE  MostCommon(v) = x
<1> DEFINE Having(y) == {o \in DOMAIN v : v[o] = y}
           best == {o \in DOMAIN v : \A q \in DOMAIN v : Cardinality(Having(v[q])) <= Cardinality(Having(v[o]))}
<1>1. \A y : IsFiniteSet(Having(y)) /\ Cardinality(Having(y)) \in Nat
  BY FS_Subset, FS_CardinalityType
<1>2. /\ IsFiniteSet(A) /\ IsFiniteSet(DOMAIN v \ A)
      /\ Cardinality(A) \in Nat /\ Cardinality(DOMAIN v \ A) \in Nat
  BY FS_Subset, FS_CardinalityType, DOMAIN v \ A \subseteq DOMAIN v
<1>3. Cardinality(A) <= Cardinality(Having(x))
  <2>1. A \subseteq Having(x)
    OBVIOUS
  <2> HIDE DEF Having
  <2> QED BY <1>1, <2>1, FS_Subset
<1>4. ASSUME NEW y, y # x PROVE Cardinality(Having(y)) < Cardinality(Having(x))
  <2>1. Having(y) \subseteq DOMAIN v \ A
    BY <1>4
  <2>2. Cardinality(Having(y)) <= Cardinality(DOMAIN v \ A)
    <3> HIDE DEF Having
    <3> QED BY <1>2, <2>1, FS_Subset
  <2> HIDE DEF Having
  <2> QED BY <1>1, <1>2, <1>3, <2>2, SMT
<1>5. A # {}
  BY <1>2, FS_EmptySet, SMT
<1>6. \A o \in best : v[o] = x
  <2> SUFFICES ASSUME NEW o \in DOMAIN v, v[o] # x,
                      \A q \in DOMAIN v : Cardinality(Having(v[q])) <= Cardinality(Having(v[o]))
               PROVE  FALSE
    OBVIOUS
  <2>1. PICK q \in A : q \in DOMAIN v /\ v[q] = x
    BY <1>5
  <2>2. Cardinality(Having(x)) <= Cardinality(Having(v[o]))
    BY <2>1
  <2> HIDE DEF Having
  <2> QED BY <1>1, <1>4, <2>2, SMT
<1>7. \A o \in A : o \in best
  <2> SUFFICES ASSUME NEW o \in A, NEW q \in DOMAIN v
               PROVE  Cardinality(Having(v[q])) <= Cardinality(Having(v[o]))
    OBVIOUS
  <2>1. v[o] = x
    OBVIOUS
  <2> HIDE DEF Having
  <2>2. CASE v[q] = x
    BY <1>1, <2>1, <2>2, SMT
  <2>3. CASE v[q] # x
    BY <1>1, <1>4, <2>1, <2>3, SMT
  <2> QED BY <2>2, <2>3
<1>8. {v[o] : o \in best} = {x}
  <2> HIDE DEF best
  <2> QED BY <1>5, <1>6, <1>7
<1>9. MostCommon(v) = Max({v[o] : o \in best})
  BY DEF MostCommon
<1> QED BY <1>8, <1>9, LargestOfOne

-----------------------------------------------------------------------------
Granted == Grants \cup {NoEntry.grant}
Entries == {NoEntry} \cup [action : 0 .. MaxAction, grant : Grants, frozen_until : Nat]

LEMMA EntryFacts ==
    /\ NoEntry.action = -1 /\ NoEntry.grant \notin Grants /\ NoEntry \in Entries
    /\ \A e \in Entries : /\ e.action \in -1 .. MaxAction /\ e.grant \in Granted
                          /\ e = NoEntry <=> e.action = -1
                          /\ e = NoEntry <=> e.grant = NoEntry.grant
                          /\ e # NoEntry => e.action \in 0 .. MaxAction /\ e.grant \in Grants
                          /\ OnWire(e) \in Entries /\ OnWire(e).grant = e.grant
                          /\ OnWire(e).action = e.action
<1>1. MaxAction \in Nat /\ \A g \in Grants : g.permissions \in Nat
  BY RecoveryAssumption
<1>2. /\ NoEntry.action = -1 /\ NoEntry.grant.permissions = -1
      /\ NoEntry \in Entries
  BY DEF NoEntry, Entries
<1>3. NoEntry.grant \notin Grants
  BY <1>1, <1>2, SMT
<1>4. ASSUME NEW e \in [action : 0 .. MaxAction, grant : Grants, frozen_until : Nat]
      PROVE  /\ e.action \in 0 .. MaxAction /\ e.action # -1 /\ e.grant \in Grants
             /\ [e EXCEPT !.frozen_until = 0] \in [action : 0 .. MaxAction, grant : Grants, frozen_until : Nat]
             /\ [e EXCEPT !.frozen_until = 0].grant = e.grant
             /\ [e EXCEPT !.frozen_until = 0].action = e.action
  BY <1>1, SMT
<1>5. \A x \in 0 .. MaxAction : x \in -1 .. MaxAction
  BY <1>1, SMT
<1>6. -1 \in -1 .. MaxAction
  BY <1>1, SMT
<1> QED BY <1>2, <1>3, <1>4, <1>5, <1>6 DEF Entries, OnWire, Granted

\* The servers that answered with an entry
Present(replies) == {p \in DOMAIN replies : replies[p] # NoEntry}

\* What three of the four others have is in all but one of the answers.
LEMMA MajorityAnswers ==
    ASSUME RF = 4, NEW replies, DOMAIN replies \subseteq Others, Cardinality(DOMAIN replies) > RF \div 2,
           NEW A, A \subseteq Others, Cardinality(A) > RF \div 2
    PROVE  LET B == A \cap DOMAIN replies
           IN  /\ IsFiniteSet(B) /\ Cardinality(B) \in Nat /\ 2 <= Cardinality(B)
               /\ IsFiniteSet(DOMAIN replies \ B) /\ Cardinality(DOMAIN replies \ B) \in Nat
               /\ Cardinality(DOMAIN replies \ B) <= 1
<1> DEFINE R == DOMAIN replies
           B == A \cap R
<1>1. /\ IsFiniteSet(A) /\ IsFiniteSet(R) /\ IsFiniteSet(B)
      /\ Cardinality(A) \in Nat /\ Cardinality(R) \in Nat /\ Cardinality(B) \in Nat
      /\ Cardinality(A) + Cardinality(R) - 4 <= Cardinality(B)
  BY Overlap
<1>2. RF \div 2 = 2
  BY SMT
<1>3. IsFiniteSet(R \ B) /\ Cardinality(R \ B) = Cardinality(R) - Cardinality(B)
  <2>1. R \cap B = B
    OBVIOUS
  <2>2. Cardinality(R \ B) = Cardinality(R) - Cardinality(R \cap B) /\ IsFiniteSet(R \ B)
    BY <1>1, FS_Difference
  <2> QED BY <2>1, <2>2
<1>4. Cardinality(R \ B) \in Nat
  BY <1>3, FS_CardinalityType
<1> HIDE DEF B, R
<1>5. Cardinality(R) > 2 /\ Cardinality(A) > 2
  BY <1>2 DEF R
<1>6. 2 <= Cardinality(B) /\ Cardinality(R \ B) <= 1
  BY <1>1, <1>3, <1>4, <1>5, SMT
<1> QED BY <1>1, <1>3, <1>4, <1>6 DEF B, R

\* reconstruct_chat yields what a majority of the group grants.
LEMMA ReconstructedGrant ==
    ASSUME RF = 4, NEW replies, DOMAIN replies \subseteq Others, Cardinality(DOMAIN replies) > RF \div 2,
           \A o \in DOMAIN replies : replies[o] \in Entries,
           NEW A, A \subseteq Others, Cardinality(A) > RF \div 2,
           NEW g \in Granted, \A o \in A \cap DOMAIN replies : replies[o].grant = g
    PROVE  Reconstructed(replies).grant = g
<1> DEFINE R == DOMAIN replies
           B == A \cap R
           E == Present(replies)
           r == [o \in E |-> replies[o]]
<1>1. /\ IsFiniteSet(B) /\ Cardinality(B) \in Nat /\ 2 <= Cardinality(B)
      /\ IsFiniteSet(R \ B) /\ Cardinality(R \ B) \in Nat /\ Cardinality(R \ B) <= 1
  BY MajorityAnswers
<1>2. RF \div 2 = 2
  BY SMT
<1>3. IsFiniteSet(E) /\ Cardinality(E) \in Nat
  <2>1. IsFiniteSet(R) /\ E \subseteq R
    BY Overlap DEF Present
  <2> QED BY <2>1, FS_Subset, FS_CardinalityType
<1>4. Reconstructed(replies) = IF Cardinality(E) >= 2 THEN Combine(r) ELSE NoEntry
  BY <1>2 DEF Reconstructed, Present
<1>5. CASE g = NoEntry.grant
  <2>1. E \subseteq R \ B
    BY <1>5, EntryFacts DEF Present
  <2>2. Cardinality(E) <= 1
    <3>1. Cardinality(E) <= Cardinality(R \ B)
      BY <1>1, <2>1, FS_Subset
    <3> HIDE DEF E, B, R
    <3> QED BY <1>1, <1>3, <3>1, SMT
  <2>3. ~(Cardinality(E) >= 2)
    BY <1>3, <2>2, SMT
  <2> QED BY <1>4, <1>5, <2>3
<1>6. CASE g \in Grants
  <2>1. B \subseteq E
    BY <1>6, EntryFacts DEF Present
  <2>2. Cardinality(E) >= 2
    <3>1. Cardinality(B) <= Cardinality(E)
      BY <1>3, <2>1, FS_Subset
    <3> HIDE DEF E, B, R
    <3> QED BY <1>1, <1>3, <3>1, SMT
  <2>3. Cardinality(E \ B) < Cardinality(B)
    <3>1. E \ B \subseteq R \ B
      BY DEF Present
    <3>2. Cardinality(E \ B) <= Cardinality(R \ B) /\ IsFiniteSet(E \ B)
      BY <1>1, <3>1, FS_Subset
    <3>3. Cardinality(E \ B) \in Nat
      BY <3>2, FS_CardinalityType
    <3> HIDE DEF E, B, R
    <3> QED BY <1>1, <3>2, <3>3, SMT
  <2>4. ASSUME NEW v, DOMAIN v = E, NEW x \in Int, \A o \in B : v[o] = x
        PROVE  MostCommon(v) = x
    <3> HIDE DEF E, B, R
    <3> QED BY <1>3, <2>1, <2>3, <2>4, MajorityIsMostCommon
  <2>5. /\ g = [permissions |-> g.permissions, rank |-> g.rank, action_cooldown_ms |-> g.action_cooldown_ms]
        /\ g.permissions \in Int /\ g.rank \in Int /\ g.action_cooldown_ms \in Int
    BY <1>6, RecoveryAssumption
  <2>6. \A o \in B : r[o].grant = g
    BY <2>1
  <2>7. /\ MostCommon([o \in DOMAIN r |-> r[o].grant.permissions]) = g.permissions
        /\ MostCommon([o \in DOMAIN r |-> r[o].grant.rank]) = g.rank
        /\ MostCommon([o \in DOMAIN r |-> r[o].grant.action_cooldown_ms]) = g.action_cooldown_ms
    <3>1. DOMAIN r = E
      OBVIOUS
    <3> HIDE DEF E, B, R, r
    <3>2. MostCommon([o \in DOMAIN r |-> r[o].grant.permissions]) = g.permissions
      BY <2>1, <2>4, <2>5, <2>6, <3>1
    <3>3. MostCommon([o \in DOMAIN r |-> r[o].grant.rank]) = g.rank
      BY <2>1, <2>4, <2>5, <2>6, <3>1
    <3>4. MostCommon([o \in DOMAIN r |-> r[o].grant.action_cooldown_ms]) = g.action_cooldown_ms
      BY <2>1, <2>4, <2>5, <2>6, <3>1
    <3> QED BY <3>2, <3>3, <3>4
  <2>8. CombinedGrant(r) = g
    <3> HIDE DEF r
    <3> QED BY <2>5, <2>7 DEF CombinedGrant
  <2>9. Combine(r).grant = g
    <3> HIDE DEF r
    <3> QED BY <2>8 DEF Combine
  <2> QED BY <1>4, <2>2, <2>9
<1> QED BY <1>5, <1>6 DEF Granted

\* reconstruct_chat yields the largest nonce among the answers.
LEMMA ReconstructedAction ==
    ASSUME RF = 4, NEW replies, DOMAIN replies \subseteq Others,
           \A o \in DOMAIN replies : replies[o] \in Entries
    PROVE  \/ Reconstructed(replies) = NoEntry
           \/ /\ Reconstructed(replies).action \in 0 .. MaxAction
              /\ \A o \in DOMAIN replies : replies[o].action <= Reconstructed(replies).action
<1> DEFINE E == Present(replies)
           r == [o \in E |-> replies[o]]
           S == {r[o].action : o \in DOMAIN r}
<1> SUFFICES ASSUME Reconstructed(replies) # NoEntry
             PROVE  /\ Reconstructed(replies).action \in 0 .. MaxAction
                    /\ \A o \in DOMAIN replies : replies[o].action <= Reconstructed(replies).action
  OBVIOUS
<1>1. Reconstructed(replies) = Combine(r) /\ Cardinality(E) >= 2
  <2>1. RF \div 2 = 2
    BY SMT
  <2> QED BY <2>1 DEF Reconstructed, Present
<1>2. E # {}
  BY <1>1, FS_EmptySet, SMT
<1>3. MaxAction \in Nat
  BY RecoveryAssumption
<1>4. S \subseteq 0 .. MaxAction /\ S # {}
  <2>1. \A o \in E : replies[o].action \in 0 .. MaxAction
    BY EntryFacts DEF Present
  <2>2. DOMAIN r = E /\ \A o \in E : r[o] = replies[o]
    OBVIOUS
  <2> HIDE DEF r, E
  <2> QED BY <1>2, <2>1, <2>2
<1>5. S \subseteq -1 .. MaxAction
  <2> HIDE DEF S
  <2> QED BY <1>3, <1>4, SMT
<1>6. Max(S) \in S /\ \A y \in S : y <= Max(S)
  <2> HIDE DEF S
  <2> QED BY <1>3, <1>4, <1>5, LargestOf
<1>7. Combine(r).action = Max(S)
  BY DEF Combine
<1>8. Max(S) \in 0 .. MaxAction
  <2> HIDE DEF S
  <2> QED BY <1>4, <1>6
<1>9. \A o \in DOMAIN replies : replies[o].action <= Max(S)
  <2> TAKE o \in DOMAIN replies
  <2>1. CASE o \in E
    <3>1. replies[o].action \in S
      BY <2>1
    <3> HIDE DEF S
    <3> QED BY <1>6, <3>1
  <2>2. CASE o \notin E
    <3>1. replies[o].action = -1
      BY <2>2, EntryFacts DEF Present
    <3> HIDE DEF S
    <3> QED BY <1>3, <1>8, <3>1, SMT
  <2> QED BY <2>1, <2>2
<1> HIDE DEF r, S
<1> QED BY <1>1, <1>7, <1>8, <1>9

-----------------------------------------------------------------------------
\* What a recovery knows of the other servers.  Those it remembers the grant of have not
\* granted anything else; enough of them have spent the nonce; what they answered is
\* what they had then.
Faithful(k, tb) ==
    /\ DOMAIN k.base \subseteq Others /\ DOMAIN k.replies \subseteq Others
    /\ \A o \in DOMAIN k.base : k.base[o] \in Granted /\ tb[o].grant = k.base[o]
    /\ \A o \in DOMAIN k.replies :
         /\ k.replies[o] \in Entries
         /\ o \in DOMAIN k.base => k.replies[o].grant = k.base[o]
    /\ k.acted = -1 \/ \E Q \in SUBSET Others :
         /\ Cardinality(Q) >= RF \div 2
         /\ \A o \in Q : k.acted <= tb[o].action
         /\ \A o \in Q \cap DOMAIN k.replies : k.acted <= k.replies[o].action

\* What its result owes to them.
AgreedBy(k) == {g \in Granted : Cardinality({o \in DOMAIN k.base : k.base[o] = g}) > RF \div 2}
Right(k) == /\ \A g \in AgreedBy(k) : k.result.grant = g
            /\ k.result = NoEntry \/ (k.result.action \in 0 .. MaxAction /\ k.acted <= k.result.action)

TaskInv(k, tb) ==
    /\ DOMAIN k = {"st", "replies", "left", "result", "base", "acted"}
    /\ k.left \subseteq Others /\ k.acted \in -1 .. MaxAction
    /\ Faithful(k, tb)
    /\ k.st \in {"created", "done"} => Right(k)

\* The inductive invariant.
RecoveryInv == /\ tables \in [Others -> Entries]
               /\ DOMAIN tasks = Tasks
               /\ \A t \in Tasks : TaskInv(tasks[t], tables)

LEMMA NewTask ==
    ASSUME NEW tb
    PROVE  TaskInv(Idle, tb) /\ TaskInv(Failed, tb)
<1>1. -1 \in -1 .. MaxAction
  BY RecoveryAssumption, SMT
<1>2. DOMAIN Nobody = {}
  BY DEF Nobody
<1> QED BY <1>1, <1>2 DEF TaskInv, Faithful, Idle, Failed

\* One task changes.
LEMMA OneTask ==
    ASSUME RecoveryInv, NEW t \in Tasks, NEW k, TaskInv(k, tables),
           tasks' = [tasks EXCEPT ![t] = k], tables' = tables
    PROVE  RecoveryInv'
<1>1. /\ tables' \in [Others -> Entries] /\ DOMAIN tasks' = Tasks
      /\ \A u \in Tasks : TaskInv(tasks'[u], tables')
  BY DEF RecoveryInv
<1> QED BY <1>1 DEF RecoveryInv, TaskInv, Faithful, Right, AgreedBy, Entries, Granted, NoEntry, RF, Tasks

LEMMA RecoveryInvInit == RecoveryInit => RecoveryInv
<1> SUFFICES ASSUME RecoveryInit PROVE RecoveryInv
  OBVIOUS
<1>1. tables \in [Others -> Entries]
  <2>1. 0 \in 0 .. MaxAction /\ 0 \in Nat
    BY RecoveryAssumption, SMT
  <2> QED BY <2>1 DEF RecoveryInit, Entries, Entry
<1>2. DOMAIN tasks = Tasks /\ \A t \in Tasks : tasks[t] = Idle
  BY DEF RecoveryInit
<1> QED BY <1>1, <1>2, NewTask DEF RecoveryInv

\* A server grants something else: the recoveries under way do not count on it any more.
LEMMA RegrantStep ==
    ASSUME RecoveryInv, NEW o \in Others, NEW e \in Entries, Regrant(o, e)
    PROVE  RecoveryInv'
<1> DEFINE Forgets(k) == [k EXCEPT !.base = [p \in DOMAIN @ \ {o} |-> @[p]], !.acted = -1]
           rest == [t \in Tasks |-> Forgets(tasks[t])]
           tb == [tables EXCEPT ![o] = e]
<1>1. tables \in [Others -> Entries]
  BY DEF RecoveryInv
<1>2. tb \in [Others -> Entries] /\ \A p \in Others \ {o} : tb[p] = tables[p]
  BY <1>1
<1>3. ASSUME NEW k, TaskInv(k, tables) PROVE TaskInv(Forgets(k), tb)
  <2> DEFINE f == Forgets(k)
             base == [p \in DOMAIN k.base \ {o} |-> k.base[p]]
  <2>1. /\ DOMAIN f = {"st", "replies", "left", "result", "base", "acted"}
        /\ f.base = base /\ f.acted = -1 /\ f.st = k.st /\ f.replies = k.replies
        /\ f.left = k.left /\ f.result = k.result
    BY <1>3 DEF TaskInv
  <2>2. -1 \in -1 .. MaxAction /\ \A n \in 0 .. MaxAction : -1 <= n
    BY RecoveryAssumption, SMT
  <2>3. DOMAIN base = DOMAIN k.base \ {o} /\ \A p \in DOMAIN base : base[p] = k.base[p]
    OBVIOUS
  <2> HIDE DEF f, base, tb
  <2>4. Faithful(f, tb)
    BY <1>2, <1>3, <2>1, <2>3 DEF TaskInv, Faithful
  <2>5. Right(k) => Right(f)
    <3> SUFFICES ASSUME Right(k) PROVE Right(f)
      OBVIOUS
    <3>1. ASSUME NEW g \in AgreedBy(f) PROVE g \in AgreedBy(k)
      <4> DEFINE X == {p \in DOMAIN f.base : f.base[p] = g}
                 Y == {p \in DOMAIN k.base : k.base[p] = g}
      <4>1. X \subseteq Y
        BY <2>1, <2>3
      <4>2. IsFiniteSet(Y)
        BY <1>3, FS_Subset, RecoveryAssumption, Y \subseteq Others DEF TaskInv, Faithful
      <4>3. Cardinality(X) <= Cardinality(Y) /\ Cardinality(X) \in Nat /\ Cardinality(Y) \in Nat
        BY <4>1, <4>2, FS_Subset, FS_CardinalityType
      <4>4. g \in Granted /\ Cardinality(X) > RF \div 2
        BY <3>1 DEF AgreedBy
      <4>5. RF \div 2 \in Int
        BY RecoveryAssumption, FS_CardinalityType, SMT DEF RF
      <4> HIDE DEF X, Y
      <4>6. Cardinality(Y) > RF \div 2
        BY <4>3, <4>4, <4>5, SMT
      <4> QED BY <4>4, <4>6 DEF AgreedBy, Y
    <3> QED BY <2>1, <2>2, <3>1 DEF Right
  <2> QED BY <1>3, <2>1, <2>2, <2>4, <2>5 DEF TaskInv, f
<1>4. tables' = tb /\ tasks' = rest
  BY DEF Regrant
<1>5. DOMAIN rest = Tasks /\ \A t \in Tasks : rest[t] = Forgets(tasks[t])
  OBVIOUS
<1> HIDE DEF rest, tb, Forgets
<1>6. /\ tables' \in [Others -> Entries] /\ DOMAIN tasks' = Tasks
      /\ \A u \in Tasks : TaskInv(tasks'[u], tables')
  BY <1>2, <1>3, <1>4, <1>5 DEF RecoveryInv
<1> QED BY <1>6 DEF RecoveryInv, TaskInv, Faithful, Right, AgreedBy, Entries, Granted, NoEntry, RF, Tasks

\* A member acts at a server: nonces only grow.
LEMMA ActStep ==
    ASSUME RecoveryInv, NEW o \in Others, NEW n \in 1 .. MaxAction, ActAt(o, n)
    PROVE  RecoveryInv'
<1> DEFINE tb == [tables EXCEPT ![o].action = n, ![o].frozen_until = n]
<1>1. tables \in [Others -> Entries] /\ tables[o] # NoEntry /\ tables[o].action < n
  BY DEF RecoveryInv, ActAt
<1>2. /\ tables[o] \in [action : 0 .. MaxAction, grant : Grants, frozen_until : Nat]
      /\ n \in 0 .. MaxAction /\ n \in Nat
  BY <1>1, RecoveryAssumption, SMT DEF Entries
<1>3. /\ tb \in [Others -> Entries]
      /\ \A p \in Others : tb[p].grant = tables[p].grant
      /\ \A p \in Others : tb[p].action = IF p = o THEN n ELSE tables[p].action
  BY <1>1, <1>2 DEF Entries
<1>4. \A p \in Others : tables[p].action <= tb[p].action /\ tables[p].action \in Int /\ tb[p].action \in Int
  BY <1>1, <1>2, <1>3, EntryFacts, SMT
<1> HIDE DEF tb
<1>5. ASSUME NEW k, TaskInv(k, tables) PROVE TaskInv(k, tb)
  <2>1. \A Q \in SUBSET Others : (\A p \in Q : k.acted <= tables[p].action)
                                   => \A p \in Q : k.acted <= tb[p].action
    <3>1. k.acted \in Int
      BY <1>5, SMT DEF TaskInv
    <3> QED BY <1>4, <3>1, SMT
  <2>2. Faithful(k, tb)
    BY <1>3, <1>5, <2>1 DEF TaskInv, Faithful
  <2> QED BY <1>5, <2>2 DEF TaskInv
<1>6. tables' = tb /\ tasks' = tasks
  BY DEF ActAt, tb
<1>7. /\ tables' \in [Others -> Entries] /\ DOMAIN tasks' = Tasks
      /\ \A u \in Tasks : TaskInv(tasks'[u], tables')
  BY <1>3, <1>5, <1>6 DEF RecoveryInv
<1> QED BY <1>7 DEF RecoveryInv, TaskInv, Faithful, Right, AgreedBy, Entries, Granted, NoEntry, RF, Tasks

\* The nonces that count as acknowledged are spent at half of the other servers.
LEMMA AcknowledgedBy ==
    ASSUME tables \in [Others -> Entries]
    PROVE  /\ Acknowledged \in -1 .. MaxAction
           /\ Acknowledged = -1 \/ \E Q \in SUBSET Others :
                /\ Cardinality(Q) >= RF \div 2
                /\ \A o \in Q : Acknowledged <= tables[o].action
<1> DEFINE Spent(n) == {o \in Others : tables[o].action >= n}
           S == {-1} \cup {n \in 0 .. MaxAction : Cardinality(Spent(n)) >= RF \div 2}
<1>1. MaxAction \in Nat
  BY RecoveryAssumption
<1>2. S \subseteq -1 .. MaxAction /\ S # {}
  <2>1. \A n \in 0 .. MaxAction : n \in -1 .. MaxAction
    BY <1>1, SMT
  <2>2. -1 \in -1 .. MaxAction
    BY <1>1, SMT
  <2> QED BY <2>1, <2>2
<1>3. Acknowledged = Max(S)
  BY DEF Acknowledged
<1>4. Acknowledged \in S
  <2> HIDE DEF S
  <2> QED BY <1>1, <1>2, <1>3, LargestOf
<1>5. ASSUME Acknowledged # -1
      PROVE  \E Q \in SUBSET Others : /\ Cardinality(Q) >= RF \div 2
                                      /\ \A o \in Q : Acknowledged <= tables[o].action
  <2>1. Cardinality(Spent(Acknowledged)) >= RF \div 2 /\ Acknowledged \in 0 .. MaxAction
    BY <1>4, <1>5
  <2>2. \A o \in Spent(Acknowledged) : Acknowledged <= tables[o].action
    <3>1. \A o \in Others : tables[o].action \in Int
      BY <1>1, EntryFacts, SMT
    <3> QED BY <2>1, <3>1, SMT
  <2> HIDE DEF Spent
  <2>3. Spent(Acknowledged) \subseteq Others
    BY DEF Spent
  <2> QED BY <2>1, <2>2, <2>3
<1> HIDE DEF S
<1> QED BY <1>2, <1>4, <1>5

LEMMA StartStep ==
    ASSUME RecoveryInv, NEW t \in Tasks, StartRecovery(t)
    PROVE  RecoveryInv'
<1>1. PICK some \in SUBSET Others :
        tasks' = [tasks EXCEPT ![t] = [Idle EXCEPT !.st = "fetch", !.left = some,
                    !.base = [o \in Others |-> tables[o].grant], !.acted = Acknowledged]]
  BY DEF StartRecovery
<1> DEFINE base == [o \in Others |-> tables[o].grant]
           k == [Idle EXCEPT !.st = "fetch", !.left = some, !.base = base, !.acted = Acknowledged]
<1>2. tables \in [Others -> Entries]
  BY DEF RecoveryInv
<1>3. /\ DOMAIN k = {"st", "replies", "left", "result", "base", "acted"}
      /\ k.st = "fetch" /\ k.left = some /\ k.base = base /\ k.acted = Acknowledged
      /\ DOMAIN k.replies = {}
  BY DEF Idle, Nobody
<1>4. \A o \in Others : tables[o].grant \in Granted
  BY <1>2, EntryFacts
<1> HIDE DEF k
<1>5. TaskInv(k, tables)
  <2>1. Faithful(k, tables)
    BY <1>2, <1>3, <1>4, AcknowledgedBy DEF Faithful
  <2> QED BY <1>2, <1>3, <2>1, AcknowledgedBy DEF TaskInv
<1> QED BY <1>1, <1>5, OneTask DEF StartRecovery, k

LEMMA FetchStep ==
    ASSUME RecoveryInv, NEW t \in Tasks, NEW o \in Others, Fetch(t, o)
    PROVE  RecoveryInv'
<1> DEFINE old == tasks[t]
           replies == [p \in DOMAIN old.replies \cup {o} |->
                         IF p = o THEN OnWire(tables[o]) ELSE old.replies[p]]
           k == [old EXCEPT !.left = @ \ {o}, !.replies = replies]
<1>1. TaskInv(old, tables) /\ tables \in [Others -> Entries] /\ DOMAIN tasks = Tasks
  BY DEF RecoveryInv
<1>2. tasks' = [tasks EXCEPT ![t] = k] /\ tables' = tables
  BY <1>1 DEF Fetch
<1>3. /\ DOMAIN k = {"st", "replies", "left", "result", "base", "acted"}
      /\ k.st = old.st /\ k.left = old.left \ {o} /\ k.base = old.base /\ k.acted = old.acted
      /\ k.result = old.result /\ k.replies = replies
  BY <1>1 DEF TaskInv
<1>4. /\ DOMAIN replies = DOMAIN old.replies \cup {o}
      /\ replies[o] = OnWire(tables[o])
      /\ \A p \in DOMAIN replies : p # o => replies[p] = old.replies[p]
  OBVIOUS
<1>5. /\ OnWire(tables[o]) \in Entries
      /\ OnWire(tables[o]).grant = tables[o].grant /\ OnWire(tables[o]).action = tables[o].action
  BY <1>1, EntryFacts
<1>6. old.st = "fetch"
  BY DEF Fetch
<1> HIDE DEF old, replies, k
<1>7. Faithful(k, tables)
  BY <1>1, <1>3, <1>4, <1>5 DEF TaskInv, Faithful
<1>8. TaskInv(k, tables)
  BY <1>1, <1>3, <1>6, <1>7 DEF TaskInv
<1> QED BY <1>2, <1>8, OneTask

\* What reconstruct_chat makes of the answers is right.
LEMMA RecreateStep ==
    ASSUME RF = 4, RecoveryInv, NEW t \in Tasks, Recreate(t)
    PROVE  RecoveryInv'
<1> DEFINE old == tasks[t]
           k == [old EXCEPT !.st = "created", !.replies = Nobody, !.result = Reconstructed(old.replies)]
<1>1. TaskInv(old, tables) /\ Faithful(old, tables) /\ DOMAIN tasks = Tasks
  BY DEF RecoveryInv, TaskInv
<1>2. /\ tasks' = [tasks EXCEPT ![t] = Failed] \/ tasks' = [tasks EXCEPT ![t] = k]
      /\ tables' = tables /\ Cardinality(DOMAIN old.replies) > RF \div 2
  BY <1>1 DEF Recreate
<1>3. /\ DOMAIN k = {"st", "replies", "left", "result", "base", "acted"}
      /\ k.st = "created" /\ k.left = old.left /\ k.base = old.base /\ k.acted = old.acted
      /\ k.result = Reconstructed(old.replies) /\ DOMAIN k.replies = {}
  BY <1>1 DEF TaskInv, Nobody
<1> HIDE DEF k, old
<1>4. Faithful(k, tables)
  <2>1. k.acted = -1 \/ \E Q \in SUBSET Others :
          /\ Cardinality(Q) >= RF \div 2
          /\ \A o \in Q : k.acted <= tables[o].action
    BY <1>1, <1>3 DEF Faithful
  <2> QED BY <1>1, <1>3, <2>1 DEF Faithful
<1>5. ASSUME NEW g \in AgreedBy(old) PROVE Reconstructed(old.replies).grant = g
  <2> DEFINE A == {o \in DOMAIN old.base : old.base[o] = g}
  <2>1. g \in Granted /\ A \subseteq Others /\ Cardinality(A) > RF \div 2
    BY <1>1, <1>5 DEF AgreedBy, Faithful
  <2>2. \A o \in A \cap DOMAIN old.replies : old.replies[o].grant = g
    BY <1>1 DEF Faithful
  <2> HIDE DEF A
  <2> QED BY <1>1, <1>2, <2>1, <2>2, ReconstructedGrant DEF Faithful
<1>6. \/ Reconstructed(old.replies) = NoEntry
      \/ /\ Reconstructed(old.replies).action \in 0 .. MaxAction
         /\ old.acted <= Reconstructed(old.replies).action
  <2> DEFINE n == Reconstructed(old.replies).action
  <2>1. \/ Reconstructed(old.replies) = NoEntry
        \/ n \in 0 .. MaxAction /\ \A o \in DOMAIN old.replies : old.replies[o].action <= n
    BY <1>1, ReconstructedAction DEF Faithful
  <2> HIDE DEF n
  <2>2. ASSUME n \in 0 .. MaxAction, \A o \in DOMAIN old.replies : old.replies[o].action <= n,
               old.acted # -1
        PROVE  old.acted <= n
    <3>1. PICK Q \in SUBSET Others :
            /\ Cardinality(Q) >= RF \div 2
            /\ \A o \in Q \cap DOMAIN old.replies : old.acted <= old.replies[o].action
      BY <1>1, <2>2 DEF Faithful
    <3>2. Q \cap DOMAIN old.replies # {}
      <4> DEFINE R == DOMAIN old.replies
      <4>1. /\ Cardinality(Q) \in Nat /\ Cardinality(R) \in Nat /\ Cardinality(Q \cap R) \in Nat
            /\ Cardinality(Q) + Cardinality(R) - 4 <= Cardinality(Q \cap R)
        BY <1>1, Overlap DEF Faithful
      <4>2. RF \div 2 = 2
        BY SMT
      <4>3. Cardinality(Q) >= 2 /\ Cardinality(R) > 2
        BY <1>2, <3>1, <4>2
      <4> HIDE DEF R
      <4>4. Cardinality(Q \cap R) # 0
        BY <4>1, <4>3, SMT
      <4>5. Cardinality({}) = 0
        BY FS_EmptySet
      <4> QED BY <4>4, <4>5 DEF R
    <3>3. PICK o \in Q \cap DOMAIN old.replies : TRUE
      BY <3>2
    <3>4. old.acted <= old.replies[o].action /\ old.replies[o].action <= n
      BY <2>2, <3>1, <3>3
    <3>5. old.replies[o].action \in -1 .. MaxAction /\ old.acted \in -1 .. MaxAction
      BY <1>1, <3>3, EntryFacts DEF Faithful, TaskInv
    <3>6. MaxAction \in Nat
      BY RecoveryAssumption
    <3> QED BY <2>2, <3>4, <3>5, <3>6, SMT
  <2>3. n \in 0 .. MaxAction => -1 <= n
    BY RecoveryAssumption, SMT
  <2> QED BY <2>1, <2>2, <2>3 DEF n
<1>7. Right(k)
  BY <1>3, <1>5, <1>6 DEF Right, AgreedBy
<1>8. TaskInv(k, tables)
  BY <1>1, <1>3, <1>4, <1>7 DEF TaskInv
<1> QED BY <1>2, <1>8, NewTask, OneTask

LEMMA EndSteps ==
    ASSUME RecoveryInv, NEW t \in Tasks, Timeout(t) \/ GiveUpChat(t) \/ RecoverMembers(t)
    PROVE  RecoveryInv'
<1> DEFINE old == tasks[t]
           k == [old EXCEPT !.st = "done"]
<1>1. TaskInv(old, tables) /\ DOMAIN tasks = Tasks
  BY DEF RecoveryInv
<1>2. /\ \/ tasks' = [tasks EXCEPT ![t] = Failed]
         \/ old.st = "created" /\ tasks' = [tasks EXCEPT ![t] = k]
      /\ tables' = tables
  BY <1>1 DEF Timeout, GiveUpChat, RecoverMembers
<1>3. old.st = "created" => TaskInv(k, tables)
  <2> SUFFICES ASSUME old.st = "created" PROVE TaskInv(k, tables)
    OBVIOUS
  <2>1. /\ DOMAIN k = {"st", "replies", "left", "result", "base", "acted"}
        /\ k.replies = old.replies /\ k.left = old.left /\ k.base = old.base /\ k.acted = old.acted
        /\ k.result = old.result
    BY <1>1 DEF TaskInv
  <2> HIDE DEF k, old
  <2> QED BY <1>1, <2>1 DEF TaskInv, Faithful, Right, AgreedBy
<1> HIDE DEF k
<1> QED BY <1>2, <1>3, NewTask, OneTask

LEMMA RecoveryInvStep ==
    ASSUME RF = 4
    PROVE  RecoveryInv /\ [RecoveryNext]_recovery => RecoveryInv'
<1> SUFFICES ASSUME RecoveryInv, [RecoveryNext]_recovery PROVE RecoveryInv'
  OBVIOUS
<1>1. CASE UNCHANGED <<tables, tasks>>
  <2>1. /\ tables' \in [Others -> Entries] /\ DOMAIN tasks' = Tasks
        /\ \A u \in Tasks : TaskInv(tasks'[u], tables')
    BY <1>1 DEF RecoveryInv
  <2> QED BY <2>1 DEF RecoveryInv, TaskInv, Faithful, Right, AgreedBy, Entries, Granted, NoEntry, RF, Tasks
<1>2. CASE Load \/ Evict \/ UNCHANGED recovery
  BY <1>1, <1>2 DEF Load, Evict, recovery
<1>3. ASSUME NEW o \in Others, AddOrUpdate(o) \/ Kick(o) PROVE RecoveryInv'
  <2>1. \A g \in Grants : Entry(0, g, 0) \in Entries
    BY RecoveryAssumption, SMT DEF Entry, Entries
  <2> QED BY <1>3, <2>1, EntryFacts, RegrantStep DEF AddOrUpdate, Kick
<1>4. CASE \E t \in Tasks : \/ StartRecovery(t) \/ Timeout(t) \/ GiveUpChat(t) \/ Recreate(t)
                            \/ RecoverMembers(t) \/ \E o \in Others : Fetch(t, o)
  BY <1>4, StartStep, EndSteps, RecreateStep, FetchStep
<1> QED BY <1>2, <1>3, <1>4, ActStep DEF RecoveryNext

\* A member table that recover installs is the one the group agrees on (recover,
\* reconstruct_chat, Member::combine), for a group with as many other servers as
\* REPLICATION_FACTOR says, any number of recoveries and requests, and any nonces.
THEOREM RecoveryIsRight ==
    ASSUME RF = 4
    PROVE  RecoverySpec => []RecoversAgreed
<1>1. RecoveryInv => RecoversAgreed
  <2> SUFFICES ASSUME RecoveryInv, NEW t \in Tasks, tasks[t].st = "done"
               PROVE  /\ \A g \in Agreed(t) : tasks[t].result.grant = g
                      /\ tasks[t].result = NoEntry \/ tasks[t].acted <= tasks[t].result.action
    BY DEF RecoversAgreed
  <2>1. Right(tasks[t])
    BY DEF RecoveryInv, TaskInv
  <2>2. Agreed(t) = AgreedBy(tasks[t])
    BY DEF Agreed, AgreedBy, Granted
  <2> QED BY <2>1, <2>2 DEF Right
<1> QED BY <1>1, RecoveryInvInit, RecoveryInvStep, PTL DEF RecoverySpec
=============================================================================
