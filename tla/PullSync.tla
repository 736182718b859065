------------------------------ MODULE PullSync ------------------------------
(***************************************************************************)
(* The feed of changes of one branch.  A command appends its changes in    *)
(* its own transaction: a change takes its sequence number when it is      *)
(* inserted and is seen by others when the transaction commits.  A device  *)
(* pulls pages after its cursor; the server also keeps a checkpoint for a  *)
(* device that gives its name, which stands in for a missing cursor.       *)
(* Answers may be lost.                                                    *)
(***************************************************************************)
EXTENDS Integers, FiniteSets, FiniteSetsExt

CONSTANTS
    Writer,            \* transactions that append changes
    Device,
    Named,             \* devices that send their deviceId
    PageSize,          \* limit of a pull
    MaxSequence        \* bound on sequence numbers

VARIABLES
    changes,      \* v0_sync_changes: what has become of each sequence number
    checkpoints,  \* v0_sync_client_checkpoints
    cursors,      \* the cursor each device holds
    received,     \* the changes each device has
    answers,      \* the answer to each device's pull
    overtaken     \* history: changes not yet committed when a device read past them

pullVars == <<changes, checkpoints, cursors, received, answers, overtaken>>

-----------------------------------------------------------------------------
Sequence == 1..MaxSequence
NoCursor == -1
NoAnswer == [page |-> {}, next |-> NoCursor]

Unused == [status |-> "unused", by |-> {}]
ChangeRow == [status : {"open", "committed", "gone"}, by : {{w} : w \in Writer}] \cup {Unused}

PullTypeOK ==
    /\ changes \in [Sequence -> ChangeRow]
    /\ checkpoints \in [Named -> 0..MaxSequence]
    /\ cursors \in [Device -> {NoCursor} \cup 0..MaxSequence]
    /\ received \in [Device -> SUBSET Sequence]
    /\ answers \in [Device -> [page : SUBSET Sequence, next : {NoCursor} \cup 0..MaxSequence]]
    /\ overtaken \in [Device -> SUBSET Sequence]

PullInit ==
    /\ changes = [s \in Sequence |-> Unused]
    /\ checkpoints = [d \in Named |-> 0]
    /\ cursors = [d \in Device |-> NoCursor]
    /\ received = [d \in Device |-> {}]
    /\ answers = [d \in Device |-> NoAnswer]
    /\ overtaken = [d \in Device |-> {}]

-----------------------------------------------------------------------------
Free == {s \in Sequence : changes[s] = Unused}

\* appendChange, in the transaction of writer w: BIGSERIAL gives the next number.
AppendChange(w) ==
    /\ Free # {}
    /\ changes' = [changes EXCEPT ![Min(Free)] = [status |-> "open", by |-> {w}]]
    /\ UNCHANGED <<checkpoints, cursors, received, answers, overtaken>>

EndChanges(w, status) ==
    /\ changes' = [s \in Sequence |->
                    IF changes[s].status = "open" /\ changes[s].by = {w}
                    THEN [changes[s] EXCEPT !.status = status] ELSE changes[s]]
    /\ UNCHANGED <<checkpoints, cursors, received, answers, overtaken>>

CommitChanges(w) == EndChanges(w, "committed")
RollbackChanges(w) == EndChanges(w, "gone")

-----------------------------------------------------------------------------
\* No cursor: the checkpoint of a device that gives its name, or the beginning.
StartOf(d) ==
    IF cursors[d] # NoCursor THEN cursors[d]
    ELSE IF d \in Named THEN checkpoints[d] ELSE 0

After(start) == {s \in Sequence : s > start /\ changes[s].status = "committed"}

\* listChangesAfterSequence: ORDER BY sequence LIMIT one more than the page.
FirstOf(set, n) == {s \in set : Cardinality({t \in set : t <= s}) <= n}

\* The cursor is that of the last change of the page.
\* Mutant: that of the last row read, which tells whether there is more.
LastRead(start, page) == Max({start} \cup FirstOf(After(start), PageSize + 1))
NextCursor(start, page) == Max({start} \cup page)

\* The pull: the page is read, and then the checkpoint of a named device is put where
\* the cursor of the answer is, before anybody knows whether the answer arrives.
Pull(d) ==
    LET start == StartOf(d)
        page == FirstOf(After(start), PageSize)
        next == NextCursor(start, page)
    IN  /\ answers[d] = NoAnswer
        /\ answers' = [answers EXCEPT ![d] = [page |-> page, next |-> next]]
        /\ checkpoints' = [c \in Named |-> IF c = d THEN next ELSE checkpoints[c]]
        /\ overtaken' = [overtaken EXCEPT ![d] = @ \cup
                            {s \in Sequence : s <= next /\ changes[s].status = "open"}]
        /\ UNCHANGED <<changes, cursors, received>>

\* The device applies the page and keeps the new cursor.
Receive(d) ==
    /\ answers[d] # NoAnswer
    /\ received' = [received EXCEPT ![d] = @ \cup answers[d].page]
    /\ cursors' = [cursors EXCEPT ![d] = answers[d].next]
    /\ answers' = [answers EXCEPT ![d] = NoAnswer]
    /\ UNCHANGED <<changes, checkpoints, overtaken>>

LoseAnswer(d) ==
    /\ answers[d] # NoAnswer
    /\ answers' = [answers EXCEPT ![d] = NoAnswer]
    /\ UNCHANGED <<changes, checkpoints, cursors, received, overtaken>>

\* A device that changes context, or lost its data, starts again without a cursor.
Reset(d) ==
    /\ cursors[d] # NoCursor /\ answers[d] = NoAnswer
    /\ cursors' = [cursors EXCEPT ![d] = NoCursor]
    /\ received' = [received EXCEPT ![d] = {}]
    /\ UNCHANGED <<changes, checkpoints, answers, overtaken>>

DeviceStep == \E d \in Device : Pull(d) \/ Receive(d) \/ LoseAnswer(d) \/ Reset(d)

-----------------------------------------------------------------------------
\* A cursor stands for everything before it: what a device that keeps its own cursor
\* lacks below it was not committed when the device read past it.
NoChangeSkipped ==
    \A d \in Device \ Named : \A s \in Sequence :
        s <= cursors[d] /\ changes[s].status = "committed" =>
            s \in received[d] \cup overtaken[d]

\* The same of a device that gives its name.  Of a null cursor the contract says that it
\* pulls from the beginning, so that such a device lacks nothing below its cursor either.
BootstrapIsComplete ==
    \A d \in Named : \A s \in Sequence :
        s <= cursors[d] /\ changes[s].status = "committed" =>
            s \in received[d] \cup overtaken[d]
=============================================================================
