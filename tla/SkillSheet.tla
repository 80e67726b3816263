----------------------------- MODULE SkillSheet -----------------------------
(***************************************************************************)
(* One practice trial: skill.Sheet.TryGain.  Every chance below a cap is   *)
(* strictly between zero and one, so a trial may go either way; at a cap   *)
(* it fails.                                                               *)
(***************************************************************************)
EXTENDS Naturals, FiniteSets, Functions

CONSTANTS Skills,      \* skills of the catalog; empty when none is loaded
          Stats,
          StatOf,      \* stat a skill trains
          RankCap, RankSumCap, StatCap, StatSumCap

ASSUME SkillAssumption ==
  /\ IsFiniteSet(Skills) /\ IsFiniteSet(Stats) /\ StatOf \in [Skills -> Stats]
  /\ {RankCap, RankSumCap, StatCap, StatSumCap} \subseteq Nat

Ranks == [Skills -> Nat]

CanGain(ranks, sk) ==
  sk \in Skills /\ ranks[sk] < RankCap /\ SumFunction(ranks) < RankSumCap

CanGrow(stats, st) == stats[st] < StatCap /\ SumFunction(stats) < StatSumCap

Raise(f, x) == [f EXCEPT ![x] = @ + 1]

\* Slip: only the skill's own cap is looked at.
TryGainUncapped(ranks, stats, sk) ==
  {<<ranks, stats>>} \cup {<<Raise(ranks, sk), stats>> : x \in {y \in {sk} : y \in Skills /\ ranks[y] < RankCap}}

\* The <<ranks, stats>> one trial of sk may leave behind.
TryGain(ranks, stats, sk) ==
  {<<ranks, stats>>}
    \cup (IF CanGain(ranks, sk)
          THEN {Raise(ranks, sk)} \X
                 ({stats} \cup {Raise(stats, st) : st \in {t \in {StatOf[sk]} : CanGrow(stats, t)}})
          ELSE {})
=============================================================================
