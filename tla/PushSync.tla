------------------------------ MODULE PushSync ------------------------------
(***************************************************************************)
(* Replay of what devices did offline.  A request carries operations in    *)
(* order; each is recorded and its command run in one transaction of its   *)
(* own, so that whoever sends the operation again finds its outcome.  Two  *)
(* requests may carry the same operation, the device may send an altered   *)
(* one under an old id, a command may fail in ways that leave a record and *)
(* in ways that do not, and a request may die anywhere.  What an applied   *)
(* operation changes goes into the feed of PullSync.                       *)
(***************************************************************************)
EXTENDS Integers, Sequences, Functions

CONSTANTS
    Op,                \* operations by clientOpId
    Needs,             \* dependsOn of each
    Replay,            \* requests: first sendings and retries
    MaxOps,            \* operations per request
    Device, Named, PageSize, MaxSequence

ASSUME PushAssumption ==
    /\ Needs \in [Op -> SUBSET Op] /\ MaxOps \in Nat
    /\ Named \subseteq Device /\ PageSize \in Nat \ {0} /\ MaxSequence \in Nat

VARIABLES
    operations,   \* v0_offline_sync_operations, committed rows
    batches,      \* v0_offline_sync_batches: status of each request's
    replays,      \* the handler of each request
    effects,      \* history: committed executions of each operation's command
    changes, checkpoints, cursors, received, answers, overtaken

feed == <<changes, checkpoints, cursors, received, answers, overtaken>>
pushVars == <<operations, batches, replays, effects, feed>>

INSTANCE PullSync WITH Writer <- Replay

-----------------------------------------------------------------------------
Payload == {"first", "altered"}
Told == {"nothing", "APPLIED", "DUPLICATE", "FAILED"}
Phase == {"idle", "start", "apply", "complete", "finish", "answered", "error"}

\* validateOperationDependencyOrder: no id twice, and no dependency after its dependent.
InOrder(ops) ==
    \A i, j \in DOMAIN ops :
        /\ ops[i] = ops[j] => i = j
        /\ ops[j] \in Needs[ops[i]] => j < i

Operations == {ops \in UNION {[1..n -> Op] : n \in 1..MaxOps} : InOrder(ops)}

Handler == [phase : Phase, ops : Operations \cup {<< >>}, payload : Payload, halt : BOOLEAN,
            index : 1..(MaxOps + 1), outcome : {"APPLIED", "FAILED"}, told : [Op -> Told]]

PushTypeOK ==
    /\ operations \in [Op -> [status : {"NONE", "APPLIED", "FAILED"}, payload : Payload]]
    /\ batches \in [Replay -> {"NONE", "IN_PROGRESS", "COMPLETED", "PARTIAL", "FAILED"}]
    /\ replays \in [Replay -> Handler]
    /\ effects \in [Op -> Nat]
    /\ PullTypeOK

PushInit ==
    /\ operations = [op \in Op |-> [status |-> "NONE", payload |-> "first"]]
    /\ batches = [r \in Replay |-> "NONE"]
    /\ replays = [r \in Replay |-> [phase |-> "idle", ops |-> << >>, payload |-> "first",
                    halt |-> TRUE, index |-> 1, outcome |-> "FAILED",
                    told |-> [op \in Op |-> "nothing"]]]
    /\ effects = [op \in Op |-> 0]
    /\ PullInit

-----------------------------------------------------------------------------
Current(r) == replays[r].ops[replays[r].index]

\* The insert of an operation waits for whoever has inserted it and not committed.
\* Mutant: the record of a request that died stays in progress.
LockedForGood(op) ==
    \E r \in Replay : replays[r].phase \in {"apply", "complete", "error"} /\ Current(r) = op
Locked(op) ==
    \E r \in Replay : replays[r].phase \in {"apply", "complete"} /\ Current(r) = op

\* handleReplay: the request is parsed and its batch committed at once.
SubmitReplay(r) ==
    /\ replays[r].phase = "idle"
    /\ \E ops \in Operations, payload \in Payload, halt \in BOOLEAN :
        replays' = [replays EXCEPT ![r].phase = "start", ![r].ops = ops,
                                   ![r].payload = payload, ![r].halt = halt]
    /\ batches' = [batches EXCEPT ![r] = "IN_PROGRESS"]
    /\ UNCHANGED <<operations, effects, feed>>

\* The result of the current operation, after which the loop goes on or stops.
Tells(r, result) ==
    LET p == replays[r]
        stops == (result = "FAILED" /\ p.halt) \/ p.index = Len(p.ops)
    IN  replays' = [replays EXCEPT ![r] =
            [p EXCEPT !.told[Current(r)] = result,
                      !.index = IF stops THEN @ ELSE @ + 1,
                      !.phase = IF stops THEN "finish" ELSE "start"]]

\* mapExistingOperationToReplayResult, and the conflict of payloads before it.
\* Mutant: the recorded outcome is given whatever the payload.
ExistingResultOfAny(r, row) == IF row.status = "APPLIED" THEN "DUPLICATE" ELSE "FAILED"
ExistingResult(r, row) ==
    IF row.payload = replays[r].payload /\ row.status = "APPLIED" THEN "DUPLICATE" ELSE "FAILED"

\* tryStartOperation: INSERT ... ON CONFLICT DO NOTHING.
StartOperation(r) ==
    LET row == operations[Current(r)] IN
    /\ replays[r].phase = "start" /\ ~Locked(Current(r))
    /\ \/ /\ row.status = "NONE"
          /\ replays' = [replays EXCEPT ![r].phase = "apply"]
       \/ /\ row.status # "NONE"
          /\ Tells(r, ExistingResult(r, row))
    /\ UNCHANGED <<operations, batches, effects, feed>>

\* resolveDependencyFailure: what this request was told comes first, then the table.
\* Mutant: a dependency that has been answered at all will do.
DependencyAnswered(r, dep) == replays[r].told[dep] # "nothing" \/ operations[dep].status # "NONE"
DependencyApplied(r, dep) ==
    IF replays[r].told[dep] # "nothing"
    THEN replays[r].told[dep] \in {"APPLIED", "DUPLICATE"}
    ELSE operations[dep].status = "APPLIED"

Outcome(r, outcome) ==
    replays' = [replays EXCEPT ![r].phase = "complete", ![r].outcome = outcome]

\* applyOperation.  A command refuses before it writes; only a replayed checkout
\* appends to the feed, attendance and cash-session commands do not.
ApplyOperation(r) ==
    /\ replays[r].phase = "apply"
    /\ \/ Outcome(r, "FAILED") /\ UNCHANGED feed
       \/ /\ \A dep \in Needs[Current(r)] : DependencyApplied(r, dep)
          /\ Outcome(r, "APPLIED")
          /\ AppendChange(r) \/ UNCHANGED feed
    /\ UNCHANGED <<operations, batches, effects>>

\* completeOperation and COMMIT.
CompleteOperation(r) ==
    LET op == Current(r)
        outcome == replays[r].outcome
    IN  /\ replays[r].phase = "complete"
        /\ operations' = [operations EXCEPT ![op] = [status |-> outcome,
                                                     payload |-> replays[r].payload]]
        /\ effects' = [effects EXCEPT ![op] = IF outcome = "APPLIED" THEN @ + 1 ELSE @]
        /\ CommitChanges(r)
        /\ Tells(r, outcome)
        /\ UNCHANGED batches

\* An SQL error is caught with the others, but the statement that would record it is
\* refused in its turn; or the process dies.  The transaction is rolled back, the
\* answer is an error, and the batch stays IN_PROGRESS.
FailReplay(r) ==
    /\ replays[r].phase \in {"start", "apply", "complete", "finish"}
    /\ replays' = [replays EXCEPT ![r].phase = "error"]
    /\ RollbackChanges(r)
    /\ UNCHANGED <<operations, batches, effects>>

\* finalizeBatch.
FinalStatus(told) ==
    IF "FAILED" \notin Range(told) THEN "COMPLETED"
    ELSE IF Range(told) \cap {"APPLIED", "DUPLICATE"} # {} THEN "PARTIAL" ELSE "FAILED"

FinishReplay(r) ==
    /\ replays[r].phase = "finish"
    /\ batches' = [batches EXCEPT ![r] = FinalStatus(replays[r].told)]
    /\ replays' = [replays EXCEPT ![r].phase = "answered"]
    /\ UNCHANGED <<operations, effects, feed>>

ReplayStep(r) ==
    StartOperation(r) \/ ApplyOperation(r) \/ CompleteOperation(r) \/ FinishReplay(r)

SyncNext ==
    \/ \E r \in Replay : SubmitReplay(r) \/ ReplayStep(r) \/ FailReplay(r)
    \/ DeviceStep /\ UNCHANGED <<operations, batches, replays, effects>>

Spec == PushInit /\ [][SyncNext]_pushVars

\* A request that was received goes on.
FairSpec == Spec /\ \A r \in Replay : WF_pushVars(ReplayStep(r))

-----------------------------------------------------------------------------
\* However often and by however many requests at once an operation is sent, what becomes
\* of it is what one log would make of it: it is applied once, with all it does, after
\* the operations it depends on, and stays applied; or it is recorded as failed and has
\* done nothing.  What a request was told is what it knows of the log.
Outcomes == [op \in Op |-> operations[op].status]
Acknowledged ==
    {known \in Replay \X Op : replays[known[1]].told[known[2]] \in {"APPLIED", "DUPLICATE"}}

Log == INSTANCE OperationLog WITH
    Sender <- Replay, outcome <- Outcomes, acknowledged <- Acknowledged

ImplementsLog == Log!Spec

\* What a device is told is so: applied operations are recorded, with the payload it
\* has sent; nothing follows a failure that halts; a batch is COMPLETED only when
\* every operation of it is applied.
ResultsAreTrue ==
    \A r \in Replay :
        LET p == replays[r] IN
        /\ \A op \in Op : p.told[op] \in {"APPLIED", "DUPLICATE"} =>
               operations[op] = [status |-> "APPLIED", payload |-> p.payload]
        /\ \A i, j \in DOMAIN p.ops :
               i < j /\ p.halt /\ p.told[p.ops[i]] = "FAILED" => p.told[p.ops[j]] = "nothing"
        /\ batches[r] = "COMPLETED" =>
               \A i \in DOMAIN p.ops : operations[p.ops[i]].status = "APPLIED"

\* Requests that wait for each other's operations, or for those of dead requests, end.
ReplayEnds ==
    \A r \in Replay : replays[r].phase = "start" ~> replays[r].phase \in {"answered", "error"}
=============================================================================
