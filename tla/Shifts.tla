------------------------------- MODULE Shifts -------------------------------
(***************************************************************************)
(* Planned work: recurring patterns and dated shift instances.  A command  *)
(* reads the row and the target it is for, and writes the whole row later; *)
(* nothing is locked in between, and unique indexes keep the slots apart.  *)
(***************************************************************************)
EXTENDS Integers, FiniteSets

CONSTANTS
    Target,            \* a membership in a branch
    Slot,              \* date and times: a set of integers, today or later
    Pattern,
    Instance,
    Planner,           \* transactions under way
    PageLimit          \* rows of one's own schedule that are read: 100

VARIABLES
    plannable,    \* targets with an active membership, branch and assignment
    patterns,     \* v0_shift_patterns
    instances,    \* v0_shift_instances
    planners,     \* the transactions: what they have read and do next
    revived       \* history: instances cancelled between a command's read and its write

shiftVars == <<plannable, patterns, instances, planners, revived>>

-----------------------------------------------------------------------------
NoPattern == [status |-> "NONE"]
NoInstance == [status |-> "NONE"]
Unoccupied == [step |-> "idle"]
Planned == {"PLANNED", "UPDATED"}
PatternRow == [status : {"ACTIVE", "INACTIVE"}, target : Target, slot : Slot,
               withdrawn : BOOLEAN]
InstanceRow == [status : Planned \cup {"CANCELLED"}, target : Target, slot : Slot,
                pattern : SUBSET Pattern, withdrawn : BOOLEAN]

ShiftTypeOK ==
    /\ plannable \subseteq Target
    /\ \A p \in Pattern : patterns[p] \in PatternRow \cup {NoPattern}
    /\ \A i \in Instance : instances[i] \in InstanceRow \cup {NoInstance}
    /\ revived \subseteq Instance
    /\ \A c \in Planner : planners[c] = Unoccupied \/
           planners[c].step \in {"createPattern", "updatePattern", "createInstance",
                                 "updateInstance", "cancelInstance"}

ShiftInit ==
    /\ plannable = Target
    /\ patterns = [p \in Pattern |-> NoPattern]
    /\ instances = [i \in Instance |-> NoInstance]
    /\ planners = [c \in Planner |-> Unoccupied]
    /\ revived = {}

-----------------------------------------------------------------------------
\* assertPlanningTarget.
AssertPlanningTarget(t) == t \in plannable

\* uq_v0_shift_patterns_active_slot and uq_v0_shift_instances_active_slot: the row
\* written may not take the slot of another that counts.
PatternFree(p, row) ==
    row.status = "ACTIVE" =>
        \A q \in Pattern \ {p} :
            patterns[q].status = "ACTIVE" =>
                <<patterns[q].target, patterns[q].slot>> # <<row.target, row.slot>>
InstanceFree(i, row) ==
    \A j \in Instance \ {i} :
        instances[j].status \in Planned =>
            <<instances[j].target, instances[j].slot>> # <<row.target, row.slot>>

Plan(c, request) ==
    /\ planners[c] = Unoccupied
    /\ planners' = [planners EXCEPT ![c] = request]
    /\ UNCHANGED <<plannable, patterns, instances, revived>>

Finish(c) == planners' = [planners EXCEPT ![c] = Unoccupied] /\ UNCHANGED plannable

-----------------------------------------------------------------------------
\* createPattern and updatePattern: the checks.
CreatePattern(c, p, t, slot) ==
    /\ patterns[p] = NoPattern /\ AssertPlanningTarget(t)
    /\ Plan(c, [step |-> "createPattern", id |-> p, target |-> t, slot |-> slot])

UpdatePattern(c, p, t, slot) ==
    /\ patterns[p].status = "ACTIVE" /\ AssertPlanningTarget(t)
    /\ Plan(c, [step |-> "updatePattern", id |-> p, target |-> t, slot |-> slot])

\* insertShiftPattern; the identifier is new.
InsertShiftPattern(c) ==
    LET r == planners[c]
        row == [status |-> "ACTIVE", target |-> r.target, slot |-> r.slot, withdrawn |-> FALSE]
    IN  /\ r.step = "createPattern" /\ patterns[r.id] = NoPattern /\ PatternFree(r.id, row)
        /\ patterns' = [patterns EXCEPT ![r.id] = row]
        /\ Finish(c) /\ UNCHANGED <<instances, revived>>

\* updateShiftPattern: every column but the status.
StatusKept(status) == status

UpdateShiftPattern(c) ==
    LET r == planners[c]
        row == [patterns[r.id] EXCEPT !.status = StatusKept(@), !.target = r.target,
                                      !.slot = r.slot]
    IN  /\ r.step = "updatePattern" /\ PatternFree(r.id, row)
        /\ patterns' = [patterns EXCEPT ![r.id] = row]
        /\ Finish(c) /\ UNCHANGED <<instances, revived>>

\* deactivatePattern; an inactive one is answered as it is.
DeactivatePattern(p) ==
    /\ patterns[p].status = "ACTIVE"
    /\ patterns' = [patterns EXCEPT ![p].status = "INACTIVE", ![p].withdrawn = TRUE]
    /\ UNCHANGED <<plannable, instances, planners, revived>>

-----------------------------------------------------------------------------
\* createInstance: of no pattern, or of one for the same target.
CreateInstance(c, i, t, slot, from) ==
    /\ instances[i] = NoInstance /\ AssertPlanningTarget(t)
    /\ \A p \in from : patterns[p] # NoPattern /\ patterns[p].target = t
    /\ Plan(c, [step |-> "createInstance", id |-> i, target |-> t, slot |-> slot, from |-> from])

\* updateInstance: the row is written as a whole, its pattern excepted.
\* Mutant: a cancelled shift may be updated.
UpdatableAny(row) == row # NoInstance
Updatable(row) == row.status \in Planned

UpdateInstance(c, i, t, slot) ==
    /\ Updatable(instances[i]) /\ AssertPlanningTarget(t)
    /\ Plan(c, [step |-> "updateInstance", id |-> i, target |-> t, slot |-> slot])

\* cancelInstance; a cancelled one is answered as it is.
CancelInstance(c, i) ==
    /\ instances[i].status \in Planned
    /\ Plan(c, [step |-> "cancelInstance", id |-> i])

InsertShiftInstance(c) ==
    LET r == planners[c]
        row == [status |-> "PLANNED", target |-> r.target, slot |-> r.slot,
                pattern |-> r.from, withdrawn |-> FALSE]
    IN  /\ r.step = "createInstance" /\ instances[r.id] = NoInstance /\ InstanceFree(r.id, row)
        /\ instances' = [instances EXCEPT ![r.id] = row]
        /\ Finish(c) /\ UNCHANGED <<patterns, revived>>

\* updateShiftInstance sets UPDATED whatever the status has become.
UpdateShiftInstance(c) ==
    LET r == planners[c]
        row == [instances[r.id] EXCEPT !.status = "UPDATED", !.target = r.target, !.slot = r.slot]
    IN  /\ r.step = "updateInstance" /\ InstanceFree(r.id, row)
        /\ instances' = [instances EXCEPT ![r.id] = row]
        /\ Finish(c) /\ UNCHANGED <<patterns, revived>>

\* cancelShiftInstance.
CancelShiftInstance(c) ==
    LET r == planners[c] IN
    /\ r.step = "cancelInstance"
    /\ instances' = [instances EXCEPT ![r.id].status = "CANCELLED", ![r.id].withdrawn = TRUE]
    /\ revived' = revived \cup
           {i \in {r.id} : \E d \in Planner : planners[d].step = "updateInstance" /\ planners[d].id = i}
    /\ Finish(c) /\ UNCHANGED patterns

-----------------------------------------------------------------------------
\* A conflict with another slot, a failed statement, a crash: nothing is written.
DropPlan(c) ==
    /\ planners[c] # Unoccupied
    /\ Finish(c) /\ UNCHANGED <<patterns, instances, revived>>

\* A membership, a branch or an assignment ends or begins (Organisation).
TargetChanges(t) ==
    /\ plannable' = IF t \in plannable THEN plannable \ {t} ELSE plannable \cup {t}
    /\ UNCHANGED <<patterns, instances, planners, revived>>

PatternCommands ==
    \E p \in Pattern :
        \/ DeactivatePattern(p)
        \/ \E c \in Planner, t \in Target, slot \in Slot :
               CreatePattern(c, p, t, slot) \/ UpdatePattern(c, p, t, slot)
InstanceCommands ==
    \E c \in Planner, i \in Instance :
        \/ CancelInstance(c, i)
        \/ \E t \in Target, slot \in Slot :
            \/ UpdateInstance(c, i, t, slot)
            \/ \E from \in {{}} \cup {{p} : p \in Pattern} : CreateInstance(c, i, t, slot, from)

ShiftStep ==
    \/ \E t \in Target : TargetChanges(t)
    \/ PatternCommands \/ InstanceCommands
    \/ \E c \in Planner :
        \/ InsertShiftPattern(c) \/ UpdateShiftPattern(c)
        \/ InsertShiftInstance(c) \/ UpdateShiftInstance(c) \/ CancelShiftInstance(c)
        \/ DropPlan(c)

-----------------------------------------------------------------------------
\* listMySchedule: active patterns, and of the first PageLimit instances those that
\* are still planned.
MyPatterns(t) == {p \in Pattern : patterns[p].status = "ACTIVE" /\ patterns[p].target = t}

FirstInstances(t) ==
    LET mine == {i \in Instance : instances[i] # NoInstance /\ instances[i].target = t}
    IN  {i \in mine :
           Cardinality({j \in mine : instances[j].slot < instances[i].slot}) < PageLimit}
MyInstances(t) == {i \in FirstInstances(t) : instances[i].status \in Planned}

\* What was withdrawn stays so: a pattern that was deactivated is not shown as active
\* whatever an update writes over it, and a cancelled shift is in nobody's schedule,
\* unless an update had read it before.
WithdrawnStays ==
    \A t \in Target :
        /\ \A p \in MyPatterns(t) : ~patterns[p].withdrawn
        /\ \A i \in MyInstances(t) : instances[i].withdrawn => i \in revived
=============================================================================
