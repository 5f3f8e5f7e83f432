---------------------------- MODULE EndRoundPhase ----------------------------
(***************************************************************************)
(* What the End-Round subround promises for one round, whatever the path   *)
(* (leader or participant) and whatever the interleaving of its threads:   *)
(* the block is committed at most once, and only while the round is still  *)
(* pending; the subround is marked finished only after that commit; a      *)
(* canceled round commits nothing.  Pending, Committed, Finished and       *)
(* Canceled are the outcomes of the state machine of the End-Round phase.  *)
(***************************************************************************)

EXTENDS Naturals

VARIABLES
    phase,      \* the outcome of the round so far
    committed   \* how many times the block has been committed

Phases == {"Pending", "Committed", "Finished", "Canceled"}

PhaseInit == phase = "Pending" /\ committed = 0

\* One successful CommitBlock.
Commit == phase = "Pending" /\ phase' = "Committed" /\ committed' = committed + 1

\* SetStatus(SrEndRound, SsFinished) after the commit.
Finish == phase = "Committed" /\ phase' = "Finished" /\ UNCHANGED committed

\* isOutOfTime sets RoundCanceled before any commit.
Cancel == phase = "Pending" /\ phase' = "Canceled" /\ UNCHANGED committed

PhaseNext == Commit \/ Finish \/ Cancel

PhaseSpec == PhaseInit /\ [][PhaseNext]_<< phase, committed >>

=============================================================================
