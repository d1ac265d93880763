----------------------------- MODULE PriorityWalk -----------------------------
(***************************************************************************)
(* What ordinary adjustments of priority-sync may do to accounts.priority   *)
(* over many cycles, whatever the scores are: every cycle scores the        *)
(* accounts and moves each towards its score by one write                   *)
(* (applyRecommendations).  PriorityScores says where scores come from and  *)
(* implements this specification.  Confirmations, cool-down, recovery and   *)
(* failures only delay a write or replace it; they are modelled in          *)
(* PriorityCycle.                                                           *)
(***************************************************************************)
EXTENDS PriorityScale

CONSTANT Accounts   \* ids of the accounts

ASSUME WalkAssumption == IsFiniteSet(Accounts) /\ Accounts # {}

VARIABLES
  prio,    \* accounts.priority
  hard,    \* accounts that are inactive, limited or overloaded
  want     \* Recommendation.RecommendedPriority, the outcome of the last scoring

walk == <<prio, hard, want>>

Priorities == 1..Unavailable

WalkTypeOK ==
  /\ prio \in [Accounts -> Priorities]
  /\ want \in [Accounts -> Priorities]
  /\ hard \subseteq Accounts

\* Any scores, but an account that cannot be used is scored unavailable.
Scored(wanted, out) ==
  /\ wanted \in [Accounts -> Priorities] /\ out \subseteq Accounts
  /\ \A a \in out : wanted[a] = Unavailable

WalkInit ==
  /\ prio \in [Accounts -> Priorities]
  /\ Scored(want, hard)

\* One write of applyRecommendations: at once for an account that cannot be
\* used, along the ramp otherwise.
Write(a) ==
  /\ prio[a] # want[a]
  /\ prio' = [prio EXCEPT ![a] = IF a \in hard THEN want[a]
                                 ELSE RampPriority(prio[a], want[a])]
  /\ UNCHANGED <<hard, want>>

Rescore ==
  /\ Scored(want', hard')
  /\ UNCHANGED prio

WalkNext == (\E a \in Accounts : Write(a)) \/ Rescore

WalkSpec == WalkInit /\ [][WalkNext]_walk

-----------------------------------------------------------------------------
Approaches(a) ==
  prio'[a] # prio[a] /\ prio[a] < Unavailable =>
    \/ prio[a] < prio'[a] /\ prio'[a] <= want[a]
    \/ prio[a] > prio'[a] /\ prio'[a] >= want[a]

ComesBackBehind(a) ==
  prio[a] >= Unavailable /\ prio'[a] < Unavailable => prio'[a] >= Neutral

\* A write never passes its target nor moves away from it, whatever gap it
\* starts from: priorities do not oscillate around a stable score.
NeverOvershoots == [][\A a \in Accounts : Approaches(a)]_walk

\* An account that was unavailable never comes straight back to the front.
ReturnsAtNeutralOrWorse == [][\A a \in Accounts : ComesBackBehind(a)]_walk

=============================================================================
