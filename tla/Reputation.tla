----------------------------- MODULE Reputation -----------------------------
(***************************************************************************)
(* What a server thinks of other nodes: Rep rates a node for what it did   *)
(* to this server, and for votes of others that the chain reports.  A node *)
(* that is rated too badly goes to to_punish, from where report_loop votes *)
(* it down.  Who the others vote for, and how often, is up to them.        *)
(***************************************************************************)
EXTENDS Integers, Sequences

CONSTANTS Raters,       \* the nodes that are rated, and that vote
          Threshold,    \* VOTE_DOWN_TRASHOLD
          VoteWeight,   \* what a vote of another node adds
          Severities,   \* what the handlers rate, -1 for a request that is fine
          MaxPunish     \* bound: nodes waiting to be reported

Half == Threshold \div 2

ASSUME ReputationAssumption ==
    /\ Threshold \in Nat /\ VoteWeight \in Nat /\ VoteWeight <= Threshold
    /\ Severities \subseteq Int /\ MaxPunish \in Nat

VARIABLES ratings,      \* ratings[n]: the rating of n, -1 if there is none
          to_punish,    \* with, as history, the grounds of each
          own, grounds  \* history: the rating of n by what it did to this server alone,
                        \* and the worst it has been, since n was last punished

reputation == <<ratings, to_punish, own, grounds>>

ReputationInit ==
    /\ ratings = [n \in Raters |-> -1]
    /\ to_punish = <<>>
    /\ own = [n \in Raters |-> 0] /\ grounds = [n \in Raters |-> 0]

\* saturating_add_signed
Added(rating, severity) == IF rating + severity < 0 THEN 0 ELSE rating + severity
Known(n) == IF ratings[n] = -1 THEN 0 ELSE ratings[n]
Worse(a, b) == IF a < b THEN b ELSE a

\* Rep::rate; o is own[n] after it
RateAs(n, severity, o) ==
    LET rat == Added(Known(n), severity)
        g == Worse(grounds[n], o)
    IN IF rat > Threshold
       THEN /\ Len(to_punish) < MaxPunish
            /\ to_punish' = Append(to_punish, [node |-> n, grounds |-> g])
            /\ ratings' = [ratings EXCEPT ![n] = 0]
            /\ own' = [own EXCEPT ![n] = 0] /\ grounds' = [grounds EXCEPT ![n] = 0]
       ELSE /\ ratings' = [ratings EXCEPT ![n] = rat]
            /\ own' = [own EXCEPT ![n] = o] /\ grounds' = [grounds EXCEPT ![n] = g]
            /\ UNCHANGED to_punish

\* A handler has run for a request of n (Rated::call), or n was not in the group.
Rate(n, severity) == RateAs(n, severity, Added(own[n], severity))

\* Mutant of Heeded: the vote of a trusted node counts whatever the target has done.
HeededAlways(source, target) == ratings[source] <= Half

\* The two early returns of Rep::vote
Heeded(source, target) ==
    /\ ratings[source] <= Half
    /\ ratings[target] = -1 \/ ratings[target] >= Half

\* Rep::vote, for a Voted event of the chain
VoteFor(source, target) == Heeded(source, target) /\ RateAs(target, VoteWeight, own[target])

\* report_loop: the latest one is reported, or the report fails
ReportOne ==
    /\ to_punish # <<>>
    /\ to_punish' = SubSeq(to_punish, 1, Len(to_punish) - 1)
    /\ UNCHANGED <<ratings, own, grounds>>

ReputationNext ==
    \/ \E n \in Raters, s \in Severities : Rate(n, s)
    \/ \E source, target \in Raters : VoteFor(source, target)
    \/ ReportOne

ReputationSpec == ReputationInit /\ [][ReputationNext]_reputation
-----------------------------------------------------------------------------
\* Votes of others alone never turn this server against a node: one that is voted down
\* has at some time offended this server for almost half of the threshold, all but the
\* weight of one vote, since it was last punished (Rep::vote, Rep::rate).
PunishedOnGrounds ==
    \A k \in DOMAIN to_punish : to_punish[k].grounds >= Half - VoteWeight
=============================================================================
