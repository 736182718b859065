------------------------- MODULE Idempotency_proofs -------------------------
(***************************************************************************)
(* The safety of the idempotency gate for any set of requests, scopes and  *)
(* payloads, and any failures and crashes.                                 *)
(*                                                                         *)
(* The argument: a record names the request that inserted it, the request  *)
(* is of the record's scope, and as long as it handles or completes its    *)
(* command the record is there and still PROCESSING, because only its own  *)
(* request updates or deletes a record.  So two handlers of one scope      *)
(* would be the owners of one record.                                      *)
(***************************************************************************)
EXTENDS Idempotency, TLAPS

\* A record is of its owner's scope; a COMPLETED one is of a committed command.
RecordsOwned ==
    \A s \in Scope : record[s].owner # Nobody =>
        /\ ScopeOf[record[s].owner] = s
        /\ record[s].status = "COMPLETED" => record[s].owner \in committed

\* A request that handles its command holds the PROCESSING record of its scope, and
\* one that completes it has committed.
HandlersHoldRecord ==
    \A r \in Request :
        /\ pc[r] \in {"handling", "completing"} =>
              record[ScopeOf[r]].status = "PROCESSING" /\ record[ScopeOf[r]].owner = r
        /\ pc[r] = "completing" => r \in committed

\* A success is the response of the completed record of the scope.
SuccessIsStored ==
    \A r \in Request : reply[r].kind \in {"fresh", "replayed"} =>
        /\ record[ScopeOf[r]].status = "COMPLETED"
        /\ record[ScopeOf[r]].owner = reply[r].from
        /\ reply[r].from # Nobody
        /\ BodyOf[reply[r].from] = BodyOf[r]

IInv == TypeOK /\ RecordsOwned /\ HandlersHoldRecord /\ SuccessIsStored

\* What a step does to the table and to the answers, field by field.
RecordStep(r, st, ow) ==
    /\ record' \in [Scope -> RecordRow]
    /\ record'[ScopeOf[r]].status = st /\ record'[ScopeOf[r]].owner = ow
    /\ \A s \in Scope : s # ScopeOf[r] => record'[s] = record[s]

ReplyStep(r, kind, from) ==
    /\ reply' \in [Request -> ReplyRow]
    /\ reply'[r].kind = kind /\ reply'[r].from = from
    /\ \A q \in Request : q # r => reply'[q] = reply[q]

PcStep(r, place) ==
    /\ pc' \in [Request -> {"idle", "done"} \cup Running \cup Broken]
    /\ pc'[r] = place
    /\ \A q \in Request : q # r => pc'[q] = pc[q]

\* Replacing one row of the table changes that row only.
LEMMA RecordUpdate ==
    ASSUME NEW r \in Request, TypeOK, NEW st \in {"ABSENT", "PROCESSING", "COMPLETED"},
           NEW ow \in Request \cup {Nobody},
           record' = [record EXCEPT ![ScopeOf[r]] = [status |-> st, owner |-> ow]]
    PROVE  RecordStep(r, st, ow)
  <1>1. ScopeOf[r] \in Scope
    BY RequestAssumption
  <1>2. [status |-> st, owner |-> ow] \in RecordRow
    BY DEF RecordRow
  <1> QED
    BY <1>1, <1>2 DEF TypeOK, RecordStep

\* Replacing one answer changes that answer only.
LEMMA ReplyUpdate ==
    ASSUME NEW r \in Request, TypeOK, NEW from \in Request \cup {Nobody},
           NEW kind \in {"none", "fresh", "replayed", "in_progress", "conflict", "error"},
           reply' = [reply EXCEPT ![r] = Answer(kind, from)]
    PROVE  ReplyStep(r, kind, from)
  <1>1. Answer(kind, from) \in ReplyRow
    BY DEF ReplyRow, Answer
  <1> QED
    BY <1>1 DEF TypeOK, ReplyStep, Answer

\* Moving one request moves that request only.
LEMMA PcUpdate ==
    ASSUME NEW r \in Request, TypeOK, NEW place \in {"idle", "done"} \cup Running \cup Broken,
           pc' = [pc EXCEPT ![r] = place]
    PROVE  PcStep(r, place)
  BY DEF TypeOK, PcStep

\* The initial state has no record and no running request.
LEMMA InitInv == Init => IInv
  <1> SUFFICES ASSUME Init PROVE IInv
    OBVIOUS
  <1> USE RequestAssumption
  <1>1. TypeOK
    BY DEF Init, TypeOK, Absent, NoReply, Answer, RecordRow, ReplyRow
  <1>2. RecordsOwned /\ HandlersHoldRecord /\ SuccessIsStored
    BY DEF Init, RecordsOwned, HandlersHoldRecord, SuccessIsStored, Absent, NoReply
  <1> QED
    BY <1>1, <1>2 DEF IInv

\* tryStart inserts only where no record is, so it takes no record away.
LEMMA TryStartInv == ASSUME NEW r \in Request, IInv, TryStart(r) PROVE IInv'
  <1>1. TypeOK /\ pc[r] = "idle" /\ UNCHANGED <<committed, outbox>> /\ ScopeOf[r] \in Scope
    BY RequestAssumption DEF IInv, TryStart
  <1>2. CASE /\ Free(ScopeOf[r])
             /\ record' = [record EXCEPT ![ScopeOf[r]] = Processing(r)]
             /\ \/ pc' = [pc EXCEPT ![r] = "handling"] /\ UNCHANGED reply
                \/ /\ pc' = [pc EXCEPT ![r] = "start_lost"]
                   /\ reply' = [reply EXCEPT ![r] = Answer("error", Nobody)]
    <2>1. RecordStep(r, "PROCESSING", r)
      BY <1>1, <1>2, RecordUpdate DEF Processing
    <2>2. record[ScopeOf[r]].status = "ABSENT" /\ record[ScopeOf[r]].owner = Nobody
      BY <1>2 DEF Free, Absent
    <2>3. \/ PcStep(r, "handling") /\ reply' = reply
          \/ PcStep(r, "start_lost") /\ ReplyStep(r, "error", Nobody)
      BY <1>1, <1>2, PcUpdate, ReplyUpdate DEF Running, Broken
    <2>4. TypeOK'
      BY <1>1, <2>1, <2>3, RequestAssumption DEF TypeOK, RecordStep, PcStep, ReplyStep
    <2>5. RecordsOwned'
      BY <1>1, <2>1 DEF IInv, RecordsOwned, RecordStep
    <2>6. HandlersHoldRecord'
      BY <1>1, <2>1, <2>2, <2>3, RequestAssumption DEF IInv, HandlersHoldRecord, RecordStep, PcStep
    <2>7. SuccessIsStored'
      BY <1>1, <2>1, <2>2, <2>3, RequestAssumption DEF IInv, SuccessIsStored, RecordStep, ReplyStep
    <2> QED
      BY <2>4, <2>5, <2>6, <2>7 DEF IInv
  <1>3. CASE /\ UNCHANGED record
             /\ \/ pc' = [pc EXCEPT ![r] = "lookup"] /\ UNCHANGED reply
                \/ /\ pc' = [pc EXCEPT ![r] = "done"]
                   /\ reply' = [reply EXCEPT ![r] = Answer("error", Nobody)]
    <2>1. \/ PcStep(r, "lookup") /\ reply' = reply
          \/ PcStep(r, "done") /\ ReplyStep(r, "error", Nobody)
      BY <1>1, <1>3, PcUpdate, ReplyUpdate DEF Running, Broken
    <2>2. TypeOK'
      BY <1>1, <1>3, <2>1 DEF TypeOK, PcStep, ReplyStep
    <2>3. RecordsOwned' /\ HandlersHoldRecord' /\ SuccessIsStored'
      BY <1>1, <1>3, <2>1
      DEF IInv, RecordsOwned, HandlersHoldRecord, SuccessIsStored, PcStep, ReplyStep
    <2> QED
      BY <2>2, <2>3 DEF IInv
  <1> QED
    BY <1>2, <1>3 DEF TryStart

\* findExisting answers a success only from a COMPLETED record of the same payload.
LEMMA FindExistingInv == ASSUME NEW r \in Request, IInv, FindExisting(r) PROVE IInv'
  <1> DEFINE rec == record[ScopeOf[r]]
  <1>1. TypeOK /\ UNCHANGED <<record, committed, outbox>> /\ ScopeOf[r] \in Scope
    BY RequestAssumption DEF IInv, FindExisting
  <1>2. PcStep(r, "done")
    BY <1>1, PcUpdate DEF FindExisting, Running, Broken
  <1>3. PICK answer \in {Verdict(r, rec), Answer("error", Nobody)} :
            reply' = [reply EXCEPT ![r] = answer]
    BY DEF FindExisting
  <1>4. rec \in RecordRow
    BY <1>1 DEF TypeOK
  <1>5. \/ \E kind \in {"in_progress", "conflict", "error"} : answer = Answer(kind, Nobody)
        \/ /\ answer = Answer("replayed", rec.owner)
           /\ rec.status = "COMPLETED" /\ rec.owner # Nobody
           /\ BodyOf[rec.owner] = BodyOf[r]
    BY <1>1, <1>3, <1>4 DEF Verdict, TypeOK
  <1>6. \/ \E kind \in {"in_progress", "conflict", "error"} : ReplyStep(r, kind, Nobody)
        \/ /\ ReplyStep(r, "replayed", rec.owner)
           /\ rec.status = "COMPLETED" /\ rec.owner # Nobody
           /\ BodyOf[rec.owner] = BodyOf[r]
    BY <1>1, <1>3, <1>4, <1>5, ReplyUpdate DEF RecordRow
  <1>7. TypeOK'
    BY <1>1, <1>2, <1>6 DEF TypeOK, PcStep, ReplyStep
  <1>8. RecordsOwned' /\ HandlersHoldRecord'
    BY <1>1, <1>2 DEF IInv, RecordsOwned, HandlersHoldRecord, PcStep
  <1>9. SuccessIsStored'
    BY <1>1, <1>6 DEF IInv, SuccessIsStored, ReplyStep
  <1> QED
    BY <1>7, <1>8, <1>9 DEF IInv

\* A handler that commits keeps its record and adds its effect.
LEMMA HandlerCommitsInv == ASSUME NEW r \in Request, IInv, HandlerCommits(r) PROVE IInv'
  <1>1. /\ TypeOK /\ pc[r] = "handling" /\ UNCHANGED <<record, reply>>
        /\ committed' = committed \cup {r} /\ outbox' = WithEvent(r)
    BY DEF IInv, HandlerCommits
  <1>2. PcStep(r, "completing") \/ PcStep(r, "clearing")
    BY <1>1, PcUpdate DEF HandlerCommits, Running, Broken
  <1>3. outbox' \in [DedupeKey -> Request \cup {Nobody}]
    BY <1>1, RequestAssumption DEF TypeOK, WithEvent
  <1>4. TypeOK'
    BY <1>1, <1>2, <1>3 DEF TypeOK, PcStep
  <1>5. RecordsOwned' /\ HandlersHoldRecord' /\ SuccessIsStored'
    BY <1>1, <1>2 DEF IInv, RecordsOwned, HandlersHoldRecord, SuccessIsStored, PcStep
  <1> QED
    BY <1>4, <1>5 DEF IInv

\* A handler that fails, and a crash, touch nothing but the request's own place.
LEMMA LeaveInv ==
    ASSUME NEW r \in Request, IInv, UNCHANGED <<record, reply, committed, outbox>>,
           PcStep(r, "clearing") \/ PcStep(r, "crashed")
    PROVE  IInv'
  <1>1. TypeOK'
    BY DEF IInv, TypeOK, PcStep
  <1>2. RecordsOwned' /\ HandlersHoldRecord' /\ SuccessIsStored'
    BY DEF IInv, RecordsOwned, HandlersHoldRecord, SuccessIsStored, PcStep
  <1> QED
    BY <1>1, <1>2 DEF IInv

\* complete marks the request's own PROCESSING record, which nobody else completed.
LEMMA CompleteInv == ASSUME NEW r \in Request, IInv, Complete(r) PROVE IInv'
  <1>1. /\ TypeOK /\ pc[r] = "completing" /\ UNCHANGED <<committed, outbox>>
        /\ ScopeOf[r] \in Scope
    BY RequestAssumption DEF IInv, Complete
  <1>2. /\ record[ScopeOf[r]].status = "PROCESSING" /\ record[ScopeOf[r]].owner = r
        /\ r \in committed /\ r # Nobody
    BY <1>1, RequestAssumption DEF IInv, HandlersHoldRecord
  <1>3. CASE /\ record' = [record EXCEPT ![ScopeOf[r]] = Completed(r)]
             /\ \/ /\ pc' = [pc EXCEPT ![r] = "done"]
                   /\ reply' = [reply EXCEPT ![r] = Answer("fresh", r)]
                \/ pc' = [pc EXCEPT ![r] = "clearing"] /\ UNCHANGED reply
    <2>1. RecordStep(r, "COMPLETED", r)
      BY <1>1, <1>3, RecordUpdate DEF Completed
    <2>2. \/ PcStep(r, "done") /\ ReplyStep(r, "fresh", r)
          \/ PcStep(r, "clearing") /\ reply' = reply
      BY <1>1, <1>3, PcUpdate, ReplyUpdate DEF Running, Broken
    <2>3. TypeOK'
      BY <1>1, <1>2, <2>1, <2>2 DEF TypeOK, RecordStep, PcStep, ReplyStep
    <2>4. RecordsOwned'
      BY <1>1, <1>2, <2>1 DEF IInv, RecordsOwned, RecordStep
    <2>5. HandlersHoldRecord'
      BY <1>1, <1>2, <2>1, <2>2, RequestAssumption DEF IInv, HandlersHoldRecord, RecordStep, PcStep
    <2>6. SuccessIsStored'
      BY <1>1, <1>2, <2>1, <2>2, RequestAssumption DEF IInv, SuccessIsStored, RecordStep, ReplyStep
    <2> QED
      BY <2>3, <2>4, <2>5, <2>6 DEF IInv
  <1>4. CASE pc' = [pc EXCEPT ![r] = "clearing"] /\ UNCHANGED <<record, reply>>
    BY <1>1, <1>4, PcUpdate, LeaveInv DEF Running
  <1> QED
    BY <1>3, <1>4 DEF Complete

\* clearProcessing deletes a record only while it is PROCESSING and the request's own.
LEMMA ClearProcessingInv == ASSUME NEW r \in Request, IInv, ClearProcessing(r) PROVE IInv'
  <1>1. /\ TypeOK /\ pc[r] = "clearing" /\ UNCHANGED <<committed, outbox>>
        /\ ScopeOf[r] \in Scope
    BY RequestAssumption DEF IInv, ClearProcessing
  <1>2. /\ PcStep(r, "done") \/ PcStep(r, "clear_lost")
        /\ ReplyStep(r, "error", Nobody)
    BY <1>1, PcUpdate, ReplyUpdate DEF ClearProcessing, Running, Broken
  <1>3. CASE record' = record
    <2>1. TypeOK'
      BY <1>1, <1>2, <1>3 DEF TypeOK, PcStep, ReplyStep
    <2>2. RecordsOwned' /\ HandlersHoldRecord' /\ SuccessIsStored'
      BY <1>1, <1>2, <1>3
      DEF IInv, RecordsOwned, HandlersHoldRecord, SuccessIsStored, PcStep, ReplyStep
    <2> QED
      BY <2>1, <2>2 DEF IInv
  <1>4. CASE /\ record[ScopeOf[r]] = Processing(r)
             /\ record' = [record EXCEPT ![ScopeOf[r]] = Absent]
    <2>1. RecordStep(r, "ABSENT", Nobody)
      BY <1>1, <1>4, RecordUpdate DEF Absent
    <2>2. record[ScopeOf[r]].status = "PROCESSING" /\ record[ScopeOf[r]].owner = r
      BY <1>4 DEF Processing
    <2>3. TypeOK'
      BY <1>1, <1>2, <2>1 DEF TypeOK, RecordStep, PcStep, ReplyStep
    <2>4. RecordsOwned'
      BY <1>1, <2>1 DEF IInv, RecordsOwned, RecordStep
    <2>5. HandlersHoldRecord'
      BY <1>1, <1>2, <2>1, <2>2, RequestAssumption DEF IInv, HandlersHoldRecord, RecordStep, PcStep
    <2>6. SuccessIsStored'
      BY <1>1, <1>2, <2>1, <2>2, RequestAssumption DEF IInv, SuccessIsStored, RecordStep, ReplyStep
    <2> QED
      BY <2>3, <2>4, <2>5, <2>6 DEF IInv
  <1> QED
    BY <1>3, <1>4 DEF ClearProcessing, Cleared

\* Every step of every request keeps the inductive invariant.
LEMMA StepInv == IInv /\ [Next]_vars => IInv'
  <1> SUFFICES ASSUME IInv, [Next]_vars PROVE IInv'
      OBVIOUS
  <1>1. ASSUME NEW r \in Request, TryStart(r) PROVE IInv'
      BY <1>1, TryStartInv
  <1>2. ASSUME NEW r \in Request, FindExisting(r) PROVE IInv'
      BY <1>2, FindExistingInv
  <1>3. ASSUME NEW r \in Request, HandlerCommits(r) PROVE IInv'
      BY <1>3, HandlerCommitsInv
  <1>4. ASSUME NEW r \in Request, HandlerFails(r) PROVE IInv'
      BY <1>4, PcUpdate, LeaveInv DEF HandlerFails, IInv, Running
  <1>5. ASSUME NEW r \in Request, Complete(r) PROVE IInv'
      BY <1>5, CompleteInv
  <1>6. ASSUME NEW r \in Request, ClearProcessing(r) PROVE IInv'
      BY <1>6, ClearProcessingInv
  <1>7. ASSUME NEW r \in Request, Crash(r) PROVE IInv'
      BY <1>7, PcUpdate, LeaveInv DEF Crash, IInv, Broken
  <1>8. CASE UNCHANGED vars
      BY <1>8 DEF vars, IInv, TypeOK, RecordsOwned, HandlersHoldRecord, SuccessIsStored
  <1> QED
      BY <1>1, <1>2, <1>3, <1>4, <1>5, <1>6, <1>7, <1>8 DEF Next, Progress

\* The inductive invariant holds in every reachable state.
THEOREM GateInvariance == Spec => []IInv
  BY InitInv, StepInv, PTL DEF Spec

\* The gate is a lock: at most one request of a scope handles the command at a time,
\* whatever crashes or loses an answer.
THEOREM HandlersExclude == Spec => []OneHandlerPerKey
  <1>1. IInv => OneHandlerPerKey
      BY DEF IInv, HandlersHoldRecord, OneHandlerPerKey
  <1> QED
      BY <1>1, GateInvariance, PTL

\* Whoever is told of success is told of a committed effect of the same key and the
\* same payload.
THEOREM SuccessBacked == Spec => []SuccessIsBacked
  <1>1. IInv => SuccessIsBacked
    <2> SUFFICES ASSUME IInv, NEW r \in Request, reply[r].kind \in {"fresh", "replayed"}
                 PROVE /\ reply[r].from \in committed
                       /\ ScopeOf[reply[r].from] = ScopeOf[r]
                       /\ BodyOf[reply[r].from] = BodyOf[r]
        BY DEF SuccessIsBacked
    <2>1. ScopeOf[r] \in Scope
        BY RequestAssumption
    <2> QED
        BY <2>1 DEF IInv, RecordsOwned, SuccessIsStored
  <1> QED
      BY <1>1, GateInvariance, PTL

\* All callers of a scope who are told of success are told of one execution.
THEOREM AcknowledgedOnce == Spec => []OneAcknowledgedEffect
  <1>1. IInv => OneAcknowledgedEffect
      BY DEF IInv, SuccessIsStored, OneAcknowledgedEffect
  <1> QED
      BY <1>1, GateInvariance, PTL

\* A stored response is never replaced and never deleted.
THEOREM CompletedStays == Spec => CompletedIsFinal
  <1>1. IInv /\ [Next]_vars =>
            [\A s \in Scope : record[s].status = "COMPLETED" => record'[s] = record[s]]_vars
    <2> SUFFICES ASSUME IInv, Next, NEW s \in Scope, record[s].status = "COMPLETED"
                 PROVE record'[s] = record[s]
        OBVIOUS
    <2> USE RequestAssumption DEF IInv, TypeOK
    <2>1. ASSUME NEW r \in Request, TryStart(r) PROVE record'[s] = record[s]
      <3>1. CASE /\ Free(ScopeOf[r])
                 /\ record' = [record EXCEPT ![ScopeOf[r]] = Processing(r)]
        <4>1. ScopeOf[r] # s
          BY <3>1 DEF Free, Absent
        <4> QED
          BY <3>1, <4>1
      <3>2. CASE record' = record
        BY <3>2
      <3> QED
        BY <2>1, <3>1, <3>2 DEF TryStart
    <2>2. ASSUME NEW r \in Request, FindExisting(r) \/ HandlerCommits(r) \/ HandlerFails(r)
                                    \/ Crash(r)
          PROVE record'[s] = record[s]
        BY <2>2 DEF FindExisting, HandlerCommits, HandlerFails, Crash
    <2>3. ASSUME NEW r \in Request, Complete(r) PROVE record'[s] = record[s]
      <3>1. ScopeOf[r] # s
        BY <2>3 DEF Complete, HandlersHoldRecord
      <3> QED
        BY <2>3, <3>1 DEF Complete
    <2>4. ASSUME NEW r \in Request, ClearProcessing(r) PROVE record'[s] = record[s]
      <3>1. record[ScopeOf[r]] = Processing(r) => ScopeOf[r] # s
        BY DEF Processing
      <3> QED
        BY <2>4, <3>1 DEF ClearProcessing, Cleared
    <2> QED
        BY <2>1, <2>2, <2>3, <2>4 DEF Next, Progress
  <1> QED
      BY <1>1, GateInvariance, PTL DEF Spec, CompletedIsFinal

-----------------------------------------------------------------------------
\* Every committed command found its dedupe key taken, or took it; and a key is
\* taken by a committed command that builds it.
EventsBacked ==
    /\ committed \subseteq Request /\ outbox \in [DedupeKey -> Request \cup {Nobody}]
    /\ \A r \in committed : outbox[DedupeOf[ScopeOf[r]]] # Nobody
    /\ \A d \in DedupeKey : outbox[d] # Nobody =>
          outbox[d] \in committed /\ DedupeOf[ScopeOf[outbox[d]]] = d

\* Only a commit writes events, and it never replaces one.
LEMMA StepBacksEvents == EventsBacked /\ [Next]_vars => EventsBacked'
  <1> SUFFICES ASSUME EventsBacked, [Next]_vars PROVE EventsBacked'
    OBVIOUS
  <1>1. ASSUME NEW r \in Request, HandlerCommits(r) PROVE EventsBacked'
    <2> DEFINE d == DedupeOf[ScopeOf[r]]
    <2>1. d \in DedupeKey /\ \A q \in Request : DedupeOf[ScopeOf[q]] \in DedupeKey
      BY RequestAssumption
    <2>2. committed' = committed \cup {r} /\ outbox' = WithEvent(r)
      BY <1>1 DEF HandlerCommits
    <2>3. CASE outbox[d] = Nobody
      <3>1. outbox' = [outbox EXCEPT ![d] = r]
        BY <2>2, <2>3 DEF WithEvent
      <3> QED
        BY <2>1, <2>2, <3>1, RequestAssumption DEF EventsBacked
    <2>4. CASE outbox[d] # Nobody
      BY <2>2, <2>4 DEF EventsBacked, WithEvent
    <2> QED
      BY <2>3, <2>4
  <1>2. ASSUME UNCHANGED <<committed, outbox>> PROVE EventsBacked'
    BY <1>2 DEF EventsBacked
  <1> QED
    BY <1>1, <1>2 DEF Next, Progress, vars, TryStart, FindExisting, HandlerFails, Complete,
                      ClearProcessing, Crash

\* An effect is never without an event of its dedupe key, written by a command that
\* committed too, whatever crashes in between.
THEOREM EffectsAnnounced == Spec => []KeyAnnounced
  <1>1. Init => EventsBacked
    BY DEF Init, EventsBacked
  <1>2. EventsBacked => KeyAnnounced
    <2> SUFFICES ASSUME EventsBacked, NEW s \in Scope, NEW q \in Effects(s)
                 PROVE \E r \in committed : /\ DedupeOf[ScopeOf[r]] = DedupeOf[s]
                                            /\ outbox[DedupeOf[s]] = r
      BY DEF KeyAnnounced
    <2>1. q \in committed /\ ScopeOf[q] = s /\ DedupeOf[s] \in DedupeKey
      BY RequestAssumption DEF Effects
    <2> QED
      BY <2>1 DEF EventsBacked
  <1> QED
    BY <1>1, <1>2, StepBacksEvents, PTL DEF Spec
=============================================================================
