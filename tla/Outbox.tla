-------------------------------- MODULE Outbox --------------------------------
(***************************************************************************)
(* The command outbox and its dispatchers (platform/outbox, with the       *)
(* in-process bus of platform/events).                                     *)
(*                                                                         *)
(* A command inserts its row in its own transaction.  Every server process *)
(* runs a dispatcher: a tick locks a batch of unpublished rows, calls the  *)
(* subscribers of one row after the other, marks each row whose            *)
(* subscribers all succeeded, and commits.  Subscribers work in            *)
(* transactions of their own, so a tick that rolls back, or a process that *)
(* dies, has delivered rows it never marked.                               *)
(*                                                                         *)
(* What a subscriber does is left to the module that composes this one;    *)
(* `plan' is what a run of a subscriber has read so far.                   *)
(***************************************************************************)
EXTENDS Naturals, SequencesExt

CONSTANTS
    Row,               \* outbox rows
    Dispatcher,        \* one per server process
    SubscribersOf(_),  \* the subscribers of a row's event type
    Unread,            \* the plan of a subscriber that has read nothing yet
    BatchSize,         \* rows a tick locks at most
    MaxFaults          \* bound: failures and crashes of a behaviour

VARIABLES
    log,         \* committed rows, by created_at
    published,   \* rows with published_at set
    batch,       \* the rows a tick has not reached yet
    held,        \* the rows a tick has locked
    marked,      \* the rows a tick has marked in its open transaction
    current,     \* the row whose subscribers a tick has called and waits for, if any
    running,     \* the subscribers a process is running: awaited, or left behind
    faults       \* failures and crashes so far

-----------------------------------------------------------------------------
\* Plan is what the composing module has its subscribers read.
OutboxTypeOK(Plan) ==
    /\ ToSet(log) \subseteq Row /\ IsInjective(log)
    /\ published \subseteq ToSet(log)
    /\ \A d \in Dispatcher :
          /\ batch[d] \subseteq held[d] /\ held[d] \subseteq Row /\ marked[d] \subseteq held[d]
          /\ current[d] \subseteq held[d]
          /\ running[d] \subseteq [row : Row, by : UNION {SubscribersOf(r) : r \in Row},
                                 plan : Plan, awaited : BOOLEAN]
    /\ faults \in 0..MaxFaults

OutboxInit ==
    /\ log = <<>> /\ published = {} /\ faults = 0
    /\ batch = [d \in Dispatcher |-> {}]
    /\ held = [d \in Dispatcher |-> {}]
    /\ marked = [d \in Dispatcher |-> {}]
    /\ current = [d \in Dispatcher |-> {}]
    /\ running = [d \in Dispatcher |-> {}]

-----------------------------------------------------------------------------
\* insertEvent, in the step in which the command commits.  created_at is the start
\* of its transaction: rows committed earlier may be younger.
Emit(r) ==
    /\ r \notin ToSet(log)
    /\ \E n \in 1..Len(log) + 1 : log' = InsertAt(log, n, r)
    /\ UNCHANGED <<published, batch, held, marked, current, running, faults>>

\* Mutant: FOR UPDATE SKIP LOCKED is missing.
FreeUnlocked(r) == r \notin published

\* WHERE published_at IS NULL FOR UPDATE SKIP LOCKED
Free(r) == r \notin published /\ \A d \in Dispatcher : r \notin held[d]

Older(q, r) == \E m, n \in DOMAIN log : m < n /\ log[m] = q /\ log[n] = r

FreeBefore(r) == Cardinality({q \in ToSet(log) : Free(q) /\ Older(q, r)})

\* Mutant: the batch starts one row late.
LoadableAfterFirst == {r \in ToSet(log) : Free(r) /\ FreeBefore(r) \in 1..BatchSize - 1}

\* ORDER BY created_at LIMIT: the oldest free rows, as many as a batch takes.
Loadable == {r \in ToSet(log) : Free(r) /\ FreeBefore(r) < BatchSize}

\* The timer skips a tick while one is in flight; a tick with nothing to load ends.
Load(d) ==
    /\ held[d] = {}
    /\ Loadable # {}
    /\ batch' = [batch EXCEPT ![d] = Loadable]
    /\ held' = [held EXCEPT ![d] = Loadable]
    /\ UNCHANGED <<log, published, marked, current, running, faults>>

\* The loop goes through its rows from the oldest on, and calls all subscribers of
\* a row at once (Promise.all).
Publish(d) ==
    /\ current[d] = {}
    /\ \E r \in batch[d] :
          /\ \A q \in batch[d] \ {r} : Older(r, q)
          /\ current' = [current EXCEPT ![d] = {r}]
          /\ batch' = [batch EXCEPT ![d] = @ \ {r}]
          /\ running' = [running EXCEPT ![d] = @ \cup
                [row : {r}, by : SubscribersOf(r), plan : {Unread}, awaited : {TRUE}]]
    /\ UNCHANGED <<log, published, held, marked, faults>>

\* A subscriber reads what it needs.
Read(d, job, plan) ==
    /\ job.plan = Unread
    /\ running' = [running EXCEPT ![d] = (@ \ {job}) \cup {[job EXCEPT !.plan = plan]}]
    /\ UNCHANGED <<log, published, batch, held, marked, current, faults>>

\* A subscriber commits, or has nothing to do, and returns.
Return(d, job) ==
    /\ running' = [running EXCEPT ![d] = @ \ {job}]
    /\ UNCHANGED <<log, published, batch, held, marked, current, faults>>

Fails == faults < MaxFaults /\ faults' = faults + 1

Abandoned(jobs) == {[j EXCEPT !.awaited = FALSE] : j \in jobs}

\* A subscriber rolls back and throws.  Promise.all rejects at the first of them:
\* the row stays unpublished, the tick goes on with the next one, and the other
\* subscribers of the row keep running with nobody waiting for them.
Throw(d, job) ==
    /\ IF job.awaited
       THEN /\ running' = [running EXCEPT ![d] = Abandoned(@ \ {job})]
            /\ current' = [current EXCEPT ![d] = {}]
       ELSE /\ running' = [running EXCEPT ![d] = @ \ {job}]
            /\ UNCHANGED current
    /\ UNCHANGED <<log, published, batch, held, marked>>

\* A subscriber's transaction fails, for a reason of the database's or the network's.
FailSubscriber(d, job) == Fails /\ Throw(d, job)

\* Whether publish() has returned for the current row.
Delivered(d) == \A job \in running[d] : ~job.awaited

\* The row is marked in the tick's transaction.
Mark(d) ==
    /\ current[d] # {} /\ Delivered(d)
    /\ marked' = [marked EXCEPT ![d] = @ \cup current[d]]
    /\ current' = [current EXCEPT ![d] = {}]
    /\ UNCHANGED <<log, published, batch, held, running, faults>>

\* Mutant: the whole batch is marked, failed rows included.
HeldRows(d) == held[d]

\* What a commit publishes.
MarkedRows(d) == marked[d]

CommitTick(d) ==
    /\ held[d] # {} /\ batch[d] = {} /\ current[d] = {}
    /\ published' = published \cup MarkedRows(d)
    /\ held' = [held EXCEPT ![d] = {}]
    /\ marked' = [marked EXCEPT ![d] = {}]
    /\ UNCHANGED <<log, batch, current, running, faults>>

\* The tick's own connection fails: ROLLBACK takes the marks with it.  Subscribers
\* that were called keep running.
FailTick(d) ==
    /\ Fails
    /\ held[d] # {}
    /\ batch' = [batch EXCEPT ![d] = {}]
    /\ held' = [held EXCEPT ![d] = {}]
    /\ marked' = [marked EXCEPT ![d] = {}]
    /\ current' = [current EXCEPT ![d] = {}]
    /\ running' = [running EXCEPT ![d] = Abandoned(@)]
    /\ UNCHANGED <<log, published>>

\* The process dies with its tick and the subscribers it was running; a new one
\* takes its place.
CrashProcess(d) ==
    /\ Fails
    /\ held[d] # {} \/ running[d] # {}
    /\ batch' = [batch EXCEPT ![d] = {}]
    /\ held' = [held EXCEPT ![d] = {}]
    /\ marked' = [marked EXCEPT ![d] = {}]
    /\ current' = [current EXCEPT ![d] = {}]
    /\ running' = [running EXCEPT ![d] = {}]
    /\ UNCHANGED <<log, published>>

\* The steps of a dispatcher that touch the outbox only.
TickStep(d) == Load(d) \/ Publish(d) \/ Mark(d) \/ CommitTick(d)
Fault(d) == FailTick(d) \/ CrashProcess(d) \/ \E job \in running[d] : FailSubscriber(d, job)

-----------------------------------------------------------------------------
\* SKIP LOCKED shares the backlog out: no row is in two open ticks, and no tick
\* holds a row that another has published meanwhile.
RowsShared ==
    \A d \in Dispatcher :
        /\ held[d] \cap published = {}
        /\ \A e \in Dispatcher : e # d => held[d] \cap held[e] = {}
=============================================================================
