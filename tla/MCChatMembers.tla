--------------------------- MODULE MCChatMembers ---------------------------
(***************************************************************************)
(* Model-checking instance of ChatMembers and of Recovery, which builds a  *)
(* member table from those of other replicas.  The identities are          *)
(* interchangeable: no operation orders or compares them but for equality. *)
(* The table of one replica and the recovery of another are explored one   *)
(* at a time.                                                              *)
(***************************************************************************)
EXTENDS ChatMembers, Recovery, TLC

Symmetry == Permutations(Identity)

MCGrants == {[permissions |-> 1, rank |-> 0, action_cooldown_ms |-> 0],
             [permissions |-> 0, rank |-> 1, action_cooldown_ms |-> 0]}

NoChat == ~exists /\ now = 1
\* One of the initial states of Recovery stands for all.
NoRecovery == /\ steps = 0 /\ \A t \in Tasks : tasks[t] = Idle
              /\ \A o \in Others : tables[o].grant = CHOOSE g \in Grants : TRUE

MCInit == Init /\ RecoveryInit

MCNext == \/ NoRecovery /\ Next /\ UNCHANGED recovery
          \/ NoChat /\ RecoveryNext /\ UNCHANGED vars

MCSpec == MCInit /\ [][MCNext]_<<vars, recovery>>
=============================================================================
