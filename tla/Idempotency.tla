----------------------------- MODULE Idempotency -----------------------------
(***************************************************************************)
(* The idempotency gate every write endpoint goes through                  *)
(* (platform/idempotency), around the business transaction it protects     *)
(* (platform/db/transactionManager) and the outbox row that transaction    *)
(* writes (executeWrite of the routers, platform/outbox/repository).       *)
(*                                                                         *)
(* The gate is three autocommitted statements on a pool connection:        *)
(* insert a PROCESSING record, mark it COMPLETED, delete it.  The business *)
(* effect commits in a transaction of its own between them, so every       *)
(* failure and every crash may fall between two of the four.               *)
(*                                                                         *)
(* A request is one HTTP call; a retry is another request of the same      *)
(* scope (tenant or branch, action and idempotency key).  Requests run     *)
(* concurrently, in one server process or in several.                      *)
(***************************************************************************)
EXTENDS Naturals, FiniteSets

CONSTANTS
    Request,      \* HTTP calls
    Scope,        \* (scope_fingerprint, action_key, idempotency_key)
    ScopeOf,      \* the scope of each request
    Body,         \* payload hashes
    BodyOf,       \* the payload of each request
    DedupeKey,    \* outbox dedupe keys of the tenant
    DedupeOf,     \* the dedupe key a scope's command builds
    Nobody        \* no request

ASSUME RequestAssumption ==
    /\ ScopeOf \in [Request -> Scope]
    /\ BodyOf \in [Request -> Body]
    /\ DedupeOf \in [Scope -> DedupeKey]
    /\ Nobody \notin Request

VARIABLES
    record,       \* v0_idempotency_records: status, and the request that inserted it
    pc,           \* where execute() is for each request
    reply,        \* what the caller was answered, and whose response it is
    committed,    \* requests whose business transaction committed
    outbox        \* v0_command_outbox: the request whose event holds each dedupe key

vars == <<record, pc, reply, committed, outbox>>

-----------------------------------------------------------------------------
Absent == [status |-> "ABSENT", owner |-> Nobody]
Processing(r) == [status |-> "PROCESSING", owner |-> r]
Completed(r) == [status |-> "COMPLETED", owner |-> r]

\* execute() is somewhere between its first statement and its return.
Running == {"lookup", "handling", "completing", "clearing"}

\* Ways to leave execute() that may leave a PROCESSING record behind.
Broken == {"crashed", "start_lost", "clear_lost"}

NoReply == [kind |-> "none", from |-> Nobody]
Answer(kind, r) == [kind |-> kind, from |-> r]

RecordRow == [status : {"ABSENT", "PROCESSING", "COMPLETED"}, owner : Request \cup {Nobody}]
ReplyRow == [kind : {"none", "fresh", "replayed", "in_progress", "conflict", "error"},
             from : Request \cup {Nobody}]

TypeOK ==
    /\ record \in [Scope -> RecordRow]
    /\ \A s \in Scope : record[s].status = "ABSENT" <=> record[s].owner = Nobody
    /\ pc \in [Request -> {"idle", "done"} \cup Running \cup Broken]
    /\ reply \in [Request -> ReplyRow]
    /\ committed \subseteq Request
    /\ outbox \in [DedupeKey -> Request \cup {Nobody}]

Init ==
    /\ record = [s \in Scope |-> Absent]
    /\ pc = [r \in Request |-> "idle"]
    /\ reply = [r \in Request |-> NoReply]
    /\ committed = {}
    /\ outbox = [d \in DedupeKey |-> Nobody]

\* Mutant: a gate that takes a finished record for a free one.
FreeOnceFinished(s) == record[s].status # "PROCESSING"

\* Mutant: an upsert in place of DO NOTHING: every record is free.
FreeAlways(s) == TRUE

-----------------------------------------------------------------------------
\* Status guard of tryStart: ON CONFLICT DO NOTHING inserts only when no record exists.
Free(s) == record[s] = Absent

\* tryStart.  The insert may be applied and its answer lost: execute() then throws
\* with nobody left to clear the record.  It may also fail outright.
TryStart(r) ==
    /\ pc[r] = "idle"
    /\ \/ /\ Free(ScopeOf[r])
          /\ record' = [record EXCEPT ![ScopeOf[r]] = Processing(r)]
          /\ \/ /\ pc' = [pc EXCEPT ![r] = "handling"]
                /\ UNCHANGED reply
             \/ /\ pc' = [pc EXCEPT ![r] = "start_lost"]
                /\ reply' = [reply EXCEPT ![r] = Answer("error", Nobody)]
       \/ /\ ~Free(ScopeOf[r])
          /\ pc' = [pc EXCEPT ![r] = "lookup"]
          /\ UNCHANGED <<record, reply>>
       \/ /\ pc' = [pc EXCEPT ![r] = "done"]
          /\ reply' = [reply EXCEPT ![r] = Answer("error", Nobody)]
          /\ UNCHANGED record
    /\ UNCHANGED <<committed, outbox>>

\* Mutant: a gate that forgets to compare payload hashes.
VerdictAnyBody(r, rec) ==
    IF rec.status # "COMPLETED" THEN Answer("in_progress", Nobody)
    ELSE Answer("replayed", rec.owner)

\* The answer to a request that found the record of another one.  The record may
\* have been deleted between the two statements.
Verdict(r, rec) ==
    IF rec = Absent THEN Answer("in_progress", Nobody)
    ELSE IF BodyOf[rec.owner] # BodyOf[r] THEN Answer("conflict", Nobody)
    ELSE IF rec.status # "COMPLETED" THEN Answer("in_progress", Nobody)
    ELSE Answer("replayed", rec.owner)

\* findExisting, and the answer it leads to; or the query fails.
FindExisting(r) ==
    /\ pc[r] = "lookup"
    /\ \E answer \in {Verdict(r, record[ScopeOf[r]]), Answer("error", Nobody)} :
          reply' = [reply EXCEPT ![r] = answer]
    /\ pc' = [pc EXCEPT ![r] = "done"]
    /\ UNCHANGED <<record, committed, outbox>>

\* Mutant: a command that commits without writing its event.
WithoutEvent(r) == outbox

\* insertEvent: ON CONFLICT (tenant_id, dedupe_key) DO NOTHING.
WithEvent(r) ==
    IF outbox[DedupeOf[ScopeOf[r]]] = Nobody
    THEN [outbox EXCEPT ![DedupeOf[ScopeOf[r]]] = r]
    ELSE outbox

\* The business transaction commits, effect and event together.  When the answer
\* to COMMIT is lost withTransaction throws, although the effect is there.
HandlerCommits(r) ==
    /\ pc[r] = "handling"
    /\ committed' = committed \cup {r}
    /\ outbox' = WithEvent(r)
    /\ \E next \in {"completing", "clearing"} : pc' = [pc EXCEPT ![r] = next]
    /\ UNCHANGED <<record, reply>>

\* The business transaction rolls back: a rejection, or a failure.
HandlerFails(r) ==
    /\ pc[r] = "handling"
    /\ pc' = [pc EXCEPT ![r] = "clearing"]
    /\ UNCHANGED <<record, reply, committed, outbox>>

\* complete.  The update may be applied or not, its answer may arrive or not; any
\* failure is caught with those of the handler.
Complete(r) ==
    /\ pc[r] = "completing"
    /\ \/ /\ record' = [record EXCEPT ![ScopeOf[r]] = Completed(r)]
          /\ \/ /\ pc' = [pc EXCEPT ![r] = "done"]
                /\ reply' = [reply EXCEPT ![r] = Answer("fresh", r)]
             \/ /\ pc' = [pc EXCEPT ![r] = "clearing"]
                /\ UNCHANGED reply
       \/ /\ pc' = [pc EXCEPT ![r] = "clearing"]
          /\ UNCHANGED <<record, reply>>
    /\ UNCHANGED <<committed, outbox>>

\* Mutant: a delete without the status guard.
ClearedUnguarded(r) ==
    IF record[ScopeOf[r]].owner = r
    THEN [record EXCEPT ![ScopeOf[r]] = Absent]
    ELSE record

\* Mutant: a catch block that clears nothing.
ClearedNothing(r) == record

\* clearProcessing: DELETE ... WHERE id = r's record AND status = 'PROCESSING'.
Cleared(r) ==
    IF record[ScopeOf[r]] = Processing(r)
    THEN [record EXCEPT ![ScopeOf[r]] = Absent]
    ELSE record

\* The catch block of applyAndComplete: the delete is applied and the error goes to
\* the caller, or the delete fails too and its own error does.
ClearProcessing(r) ==
    /\ pc[r] = "clearing"
    /\ reply' = [reply EXCEPT ![r] = Answer("error", Nobody)]
    /\ \/ /\ record' = Cleared(r)
          /\ pc' = [pc EXCEPT ![r] = "done"]
       \/ /\ pc' = [pc EXCEPT ![r] = "clear_lost"]
          /\ UNCHANGED record
    /\ UNCHANGED <<committed, outbox>>

\* The server process dies.  The records, the effects and the events are in the
\* database; an open transaction rolls back.
Crash(r) ==
    /\ pc[r] \in Running
    /\ pc' = [pc EXCEPT ![r] = "crashed"]
    /\ UNCHANGED <<record, reply, committed, outbox>>

-----------------------------------------------------------------------------
\* What an event loop and a database that answers always get done.
Progress(r) ==
    \/ FindExisting(r)
    \/ HandlerCommits(r)
    \/ HandlerFails(r)
    \/ Complete(r)
    \/ ClearProcessing(r)

Next == \E r \in Request : TryStart(r) \/ Progress(r) \/ Crash(r)

Spec == Init /\ [][Next]_vars

\* Every awaited statement and transaction settles (node-pg resolves or rejects its
\* promise), so a request that is running keeps running until it returns or crashes.
FairSpec == Spec /\ \A r \in Request : WF_vars(Progress(r))

-----------------------------------------------------------------------------
\* The requests of a scope whose effect is in the database.
Effects(s) == {r \in committed : ScopeOf[r] = s}

\* No two requests of one scope are between tryStart and the end of their business
\* transaction at the same time, whatever fails: the unique key of the table is a
\* lock, and nobody deletes the record of a request that still runs.
OneHandlerPerKey ==
    \A r1, r2 \in Request :
        /\ pc[r1] \in {"handling", "completing"}
        /\ pc[r2] \in {"handling", "completing"}
        /\ ScopeOf[r1] = ScopeOf[r2]
        => r1 = r2

\* A caller who is told of success, now or by a replay, is told of an effect that
\* did commit, that was asked for under the same key and with the same payload.
SuccessIsBacked ==
    \A r \in Request : reply[r].kind \in {"fresh", "replayed"} =>
        /\ reply[r].from \in committed
        /\ ScopeOf[reply[r].from] = ScopeOf[r]
        /\ BodyOf[reply[r].from] = BodyOf[r]

\* Once a caller of a scope was told of success no later request of the scope runs
\* the command again: all callers who hear of success hear of the same execution.
OneAcknowledgedEffect ==
    \A r1, r2 \in Request :
        /\ reply[r1].kind \in {"fresh", "replayed"}
        /\ reply[r2].kind \in {"fresh", "replayed"}
        /\ ScopeOf[r1] = ScopeOf[r2]
        => reply[r1].from = reply[r2].from

\* A dedupe key whose commands left an effect has an event of one of them: the
\* effect and its event commit together.
KeyAnnounced ==
    \A s \in Scope : Effects(s) # {} =>
        \E r \in committed : /\ DedupeOf[ScopeOf[r]] = DedupeOf[s]
                             /\ outbox[DedupeOf[s]] = r

\* A stored response is never replaced and never deleted: neither a late failure of
\* its own request nor a later request of the scope touches it.
CompletedIsFinal ==
    [][\A s \in Scope : record[s].status = "COMPLETED" => record'[s] = record[s]]_vars

\* A key does not stay locked: the record of a request that neither crashed nor
\* lost one of the gate's own statements is completed or deleted, so that the
\* retries IDEMPOTENCY_IN_PROGRESS asks for end in a replay or in an execution.
KeyIsReleased ==
    \A r \in Request :
        record[ScopeOf[r]] = Processing(r) ~>
            \/ record[ScopeOf[r]] # Processing(r)
            \/ pc[r] \in Broken

\* "Idempotency prevents duplicate command execution" (api_contract/idempotency-v0.md:67).
AtMostOneEffect == \A s \in Scope : Cardinality(Effects(s)) <= 1
=============================================================================
