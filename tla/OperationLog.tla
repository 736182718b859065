---------------------------- MODULE OperationLog ----------------------------
(***************************************************************************)
(* What devices that work offline rely on, with nothing of how it is done: *)
(* one log of operations.  An operation is settled once, for whoever sends *)
(* it: applied, at once and completely, after the operations it needs, or  *)
(* refused without a trace.  A sender may learn that it was applied, and   *)
(* not before.                                                             *)
(***************************************************************************)
LOCAL INSTANCE Naturals

CONSTANTS
    Op,
    Needs,             \* [Op -> SUBSET Op]: what each comes after
    Sender

VARIABLES
    outcome,      \* of each operation
    effects,      \* how often what it asks for was done
    acknowledged  \* <<sender, operation>>: who knows of which

logVars == <<outcome, effects, acknowledged>>

-----------------------------------------------------------------------------
Init ==
    /\ outcome = [op \in Op |-> "NONE"]
    /\ effects = [op \in Op |-> 0]
    /\ acknowledged = {}

\* The sender whose request it is learns of it in the same step.
Apply(s, op) ==
    /\ outcome[op] = "NONE"
    /\ \A needed \in Needs[op] : outcome[needed] = "APPLIED"
    /\ outcome' = [outcome EXCEPT ![op] = "APPLIED"]
    /\ effects' = [effects EXCEPT ![op] = @ + 1]
    /\ acknowledged' = acknowledged \cup {<<s, op>>}

Refuse(op) ==
    /\ outcome[op] = "NONE"
    /\ outcome' = [outcome EXCEPT ![op] = "FAILED"]
    /\ UNCHANGED <<effects, acknowledged>>

\* It was applied before, perhaps for somebody else.
Acknowledge(s, op) ==
    /\ outcome[op] = "APPLIED"
    /\ acknowledged' = acknowledged \cup {<<s, op>>}
    /\ UNCHANGED <<outcome, effects>>

Next ==
    \/ \E s \in Sender, op \in Op : Apply(s, op) \/ Acknowledge(s, op)
    \/ \E op \in Op : Refuse(op)

Spec == Init /\ [][Next]_logVars
=============================================================================
