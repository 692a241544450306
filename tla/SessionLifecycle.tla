--------------------------- MODULE SessionLifecycle ---------------------------
(***************************************************************************)
(* What the service promises about a session, whatever happens inside: a   *)
(* session settles at most once, a risky result settles behind the         *)
(* approval gate only, and the gate is resolved by one human decision.     *)
(* A session whose triage breaks off stays open, or is forgotten with the  *)
(* process when the repository is not durable.                             *)
(***************************************************************************)
EXTENDS Sequences

CONSTANTS Sessions, Durable

VARIABLES
  phase,     \* where the session is in its life
  risk,      \* its result recommends a risky action
  verdicts   \* the human decisions applied to it

lvars == <<phase, risk, verdicts>>

Phases == {"absent", "open", "gated", "completed", "degraded", "forgotten"}

LInit ==
  /\ phase = [s \in Sessions |-> "absent"]
  /\ risk = [s \in Sessions |-> FALSE]
  /\ verdicts = [s \in Sessions |-> << >>]

\* The session is created.
Open(s) ==
  /\ phase[s] = "absent"
  /\ phase' = [phase EXCEPT ![s] = "open"]
  /\ UNCHANGED <<risk, verdicts>>

\* A session that could not be created is never seen.
Lose(s) ==
  /\ phase[s] = "absent"
  /\ phase' = [phase EXCEPT ![s] = "forgotten"]
  /\ UNCHANGED <<risk, verdicts>>

\* The result of an open session is assessed.
Assess(s) ==
  /\ phase[s] = "open"
  /\ risk' = [risk EXCEPT ![s] = TRUE]
  /\ UNCHANGED <<phase, verdicts>>

\* A harmless result settles the session without a human.
Settle(s) ==
  /\ phase[s] = "open"
  /\ ~risk[s]
  /\ \E p \in {"completed", "degraded"} : phase' = [phase EXCEPT ![s] = p]
  /\ UNCHANGED <<risk, verdicts>>

\* A risky one waits.
Gate(s) ==
  /\ phase[s] = "open"
  /\ risk[s]
  /\ phase' = [phase EXCEPT ![s] = "gated"]
  /\ UNCHANGED <<risk, verdicts>>

\* The one decision.
Decide(s) ==
  /\ phase[s] = "gated"
  /\ verdicts[s] = << >>
  /\ \/ /\ verdicts' = [verdicts EXCEPT ![s] = <<"approved">>]
        /\ phase' = [phase EXCEPT ![s] = "completed"]
     \/ /\ verdicts' = [verdicts EXCEPT ![s] = <<"rejected">>]
        /\ phase' = [phase EXCEPT ![s] = "degraded"]
  /\ UNCHANGED risk

\* A process that keeps its sessions in memory stops.
Forget ==
  /\ ~Durable
  /\ phase' = [s \in Sessions |->
                 IF phase[s] = "absent" THEN "absent" ELSE "forgotten"]
  /\ risk' = [s \in Sessions |-> FALSE]
  /\ UNCHANGED verdicts

LNext ==
  \/ \E s \in Sessions :
       Open(s) \/ Lose(s) \/ Assess(s) \/ Settle(s) \/ Gate(s) \/ Decide(s)
  \/ Forget

LSpec == LInit /\ [][LNext]_lvars
=============================================================================
