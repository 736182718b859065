----------------------------- MODULE CommandLog -----------------------------
(***************************************************************************)
(* What a command of the API leaves behind besides its own rows: an audit  *)
(* event, an event in the command outbox, and changes in the feeds of the  *)
(* branches that show the row.  Every module of the API has a wrapper of   *)
(* its own; a wrapper is a record of this module, and one transaction      *)
(* shape runs them all.  A command updates a row, and rows that come with  *)
(* it, and holds their locks until its transaction ends.  The content of a *)
(* row is the request that wrote it last.  Writes that replace rows of a   *)
(* joining table without locking the row they belong to (visibility,       *)
(* composition of a dish) are not commands of this module.                 *)
(***************************************************************************)
EXTENDS Integers, Sequences

CONSTANTS
    Request,      \* the requests ever sent
    Key,          \* idempotency keys
    Actor,        \* accounts
    Row,          \* rows that commands write
    Outlet,       \* branches
    Place,        \* [Row -> branch, "tenant" or "nowhere"]: the feeds that show it
    Owner         \* [Row -> account or "everyone"]: who may see it

ASSUME LogAssumption == Outlet \cap {"tenant", "nowhere"} = {}

VARIABLES
    requests,     \* each request: its command and how far its transaction is
    rows,         \* the request that wrote each row last, committed
    recorded,     \* dedupe keys of v0_audit_events and v0_command_outbox
    answered,     \* idempotency records that hold an answer
    changes,      \* v0_sync_changes: a batch per transaction, in order of sequence; a
                  \* batch that is not committed is invisible
    open,         \* ACTIVE branches
    muted         \* history: rows that a branch is, by design, not told of

logVars == <<requests, rows, recorded, answered, changes, open, muted>>

-----------------------------------------------------------------------------
\* A wrapper: the scope of its idempotency gate; the feeds it writes ("context":
\* the branch of the request, "row": the branch of the row, "tenant": every active
\* branch); whether the path is part of the dedupe key; whether a refusal is
\* recorded; who is shown the change; whether other rows come with the row, and
\* whether other rows are updated without being announced.
Plain == [name |-> "", gate |-> "BRANCH", feed |-> "context", path |-> FALSE,
          refusals |-> FALSE, shown |-> "everyone", extras |-> FALSE, aside |-> FALSE]

MenuWrite == [Plain EXCEPT !.name = "menu", !.gate = "TENANT", !.feed = "tenant"]
ArchiveCategoryWrite == [MenuWrite EXCEPT !.name = "archiveCategory", !.aside = TRUE]
InventoryWrite(scope) ==
    [Plain EXCEPT !.name = "inventory", !.gate = scope, !.path = TRUE,
                  !.feed = IF scope = "TENANT" THEN "tenant" ELSE "context",
                  !.extras = (scope = "BRANCH")]
SaleOrderWrite == [Plain EXCEPT !.name = "saleOrder", !.path = TRUE, !.extras = TRUE]
ReplayedSale == [Plain EXCEPT !.name = "replay", !.gate = "operation", !.extras = TRUE]
KhqrSale == [Plain EXCEPT !.name = "khqr", !.gate = "none", !.path = TRUE, !.extras = TRUE]
CashSessionWrite == [Plain EXCEPT !.name = "cashSession", !.path = TRUE]
DiscountWrite == [Plain EXCEPT !.name = "discount", !.gate = "TENANT", !.feed = "row"]
ShiftWrite == [Plain EXCEPT !.name = "shift", !.gate = "TENANT", !.feed = "row", !.refusals = TRUE]
PolicyWrite == [Plain EXCEPT !.name = "policy"]
CheckIn == [Plain EXCEPT !.name = "checkIn", !.refusals = TRUE, !.shown = "actor"]
CheckOut == [Plain EXCEPT !.name = "checkOut", !.refusals = TRUE, !.shown = "actor"]
ForceEnd == [Plain EXCEPT !.name = "forceEnd", !.refusals = TRUE, !.shown = "owner"]
ReceiptWrite == [Plain EXCEPT !.name = "receipt", !.feed = "none", !.path = TRUE]
InitiateActivation == [Plain EXCEPT !.name = "initiate", !.gate = "TENANT", !.feed = "none"]
ConfirmActivation == [Plain EXCEPT !.name = "confirm", !.gate = "TENANT", !.feed = "none"]

\* Commands that no idempotency gate stands before.
Ungated == [Plain EXCEPT !.gate = "none", !.feed = "none"]
ProvisionCommand == [Ungated EXCEPT !.name = "provision"]
InviteCommand == [Ungated EXCEPT !.name = "invite"]
AcceptCommand == [Ungated EXCEPT !.name = "accept"]
RejectCommand == [Ungated EXCEPT !.name = "reject"]
ChangeRoleCommand == [Ungated EXCEPT !.name = "changeRole"]
RevokeCommand == [Ungated EXCEPT !.name = "revoke"]
AssignCommand == [Ungated EXCEPT !.name = "assign"]

Command ==
    {MenuWrite, ArchiveCategoryWrite, InventoryWrite("TENANT"), InventoryWrite("BRANCH"),
     SaleOrderWrite, ReplayedSale, KhqrSale, CashSessionWrite, DiscountWrite, ShiftWrite,
     PolicyWrite, CheckIn, CheckOut, ForceEnd, ReceiptWrite, InitiateActivation,
     ConfirmActivation, ProvisionCommand, InviteCommand, AcceptCommand,
     RejectCommand, ChangeRoleCommand, RevokeCommand, AssignCommand}

-----------------------------------------------------------------------------
Unsent == [status |-> "unsent"]

LogInit ==
    /\ requests = [q \in Request |-> Unsent]
    /\ rows = [r \in Row |-> {}]
    /\ recorded = {}
    /\ answered = {}
    /\ changes = <<>>
    /\ open \in SUBSET Outlet \ {{}}
    /\ muted = {}

Running(q) == requests[q].status \in {"running", "recorded"}

\* The idempotency record of a request; commands without a gate have none.
GateOf(c, outlet, key) ==
    CASE c.gate = "none" -> {}
      [] c.gate = "TENANT" -> {<<c.name, key>>}
      [] OTHER -> {<<c.name, key, outlet>>}

\* action : outcome : parts of the path : key, unique in a tenant.  It does not name
\* the branch.
DedupeKey(c, outcome, row, key) ==
    <<c.name, outcome, IF c.path THEN {row} ELSE {}, key>>

\* A row that a running transaction has written.  Mutant: rows are not locked.
NeverLocked(row) == FALSE
Locked(row) == \E q \in Request : Running(q) /\ row \in requests[q].written

\* The row is one that the command is about.
About(c, row, outlet, actor) ==
    /\ CASE c.feed = "none" -> Place[row] = "nowhere"
         [] c.feed = "tenant" -> Place[row] = "tenant"
         [] c.feed = "context" -> Place[row] = outlet
         [] OTHER -> Place[row] \in Outlet
    /\ (c.shown = "everyone") = (Owner[row] = "everyone")
    /\ c.shown = "actor" => Owner[row] = actor

\* The rows that come with the row, and those that are updated beside it.
Companions(c, row, outlet) ==
    IF c.extras THEN SUBSET {r \in Row \ {row} : Place[r] = outlet /\ Owner[r] = "everyone"} ELSE {{}}
Bystanders(c, row) ==
    IF c.aside THEN SUBSET {r \in Row \ {row} : Place[r] = "tenant"} ELSE {{}}

\* The command's transaction has written its rows.
Execute(q, c, row, outlet, actor, key) ==
    /\ About(c, row, outlet, actor)
    /\ GateOf(c, outlet, key) \cap answered = {}
    /\ \A p \in Request : Running(p) => GateOf(c, outlet, key) \cap requests[p].gate = {}
    /\ \E with \in Companions(c, row, outlet), beside \in Bystanders(c, row) :
        /\ \A r \in {row} \cup with \cup beside : ~Locked(r)
        /\ requests' = [requests EXCEPT ![q] =
                         [status |-> "running", command |-> c, row |-> row, outlet |-> outlet,
                          told |-> {row} \cup with, written |-> {row} \cup with \cup beside,
                          shown |-> CASE c.shown = "owner" -> Owner[row]
                                      [] c.shown = "actor" -> actor
                                      [] OTHER -> "everyone",
                          key |-> key, gate |-> GateOf(c, outlet, key)]]
    /\ UNCHANGED <<rows, recorded, answered, changes, open, muted>>

EndRequest(q) ==
    requests' = [requests EXCEPT ![q] = [status |-> "ended"]]

\* The command throws.  Some wrappers catch that inside the transaction and commit
\* an audit event and an outbox event of the refusal, which is then the answer.
Refuse(q) ==
    LET c == requests[q].command IN
    /\ requests[q].status = "running"
    /\ recorded' = recorded \cup
                    IF c.refusals
                    THEN {DedupeKey(c, "REJECTED", requests[q].row, requests[q].key)} ELSE {}
    /\ answered' = answered \cup IF c.refusals THEN requests[q].gate ELSE {}
    /\ EndRequest(q)
    /\ UNCHANGED <<rows, changes, open, muted>>

-----------------------------------------------------------------------------
\* listActiveBranchIdsByTenant.  Mutant: only the branch of the request is told.
OwnBranch(q) == open \cap {requests[q].outlet}
FanOut(q) == open

Feeds(q) ==
    CASE requests[q].command.feed = "none" -> {}
      [] requests[q].command.feed = "tenant" -> FanOut(q)
      [] requests[q].command.feed = "context" -> {requests[q].outlet}
      [] OTHER -> {Place[requests[q].row]}

SuccessKey(q) ==
    DedupeKey(requests[q].command, "SUCCESS", requests[q].row, requests[q].key)

\* recordEvent, insertEvent and appendChange: the insert waits for a transaction
\* that holds the same key, and an event that is already there brings no changes.
Record(q) ==
    /\ requests[q].status = "running"
    /\ \A p \in Request : requests[p].status = "recorded" => SuccessKey(p) # SuccessKey(q)
    /\ requests' = [requests EXCEPT ![q].status = "recorded"]
    /\ changes' = IF SuccessKey(q) \in recorded THEN changes
                  ELSE Append(changes, [by |-> q, committed |-> FALSE,
                                        told |-> Feeds(q) \X requests[q].told,
                                        shown |-> requests[q].shown])
    /\ UNCHANGED <<rows, recorded, answered, open, muted>>

BatchOf(q) == {i \in DOMAIN changes : changes[i].by = q}

\* The transaction commits; the process may die before the gate keeps the answer.
Commit(q, kept) ==
    LET written == requests[q].written
        told == UNION {changes[i].told : i \in BatchOf(q)}
        dropped == IF BatchOf(q) = {} THEN written ELSE written \ requests[q].told
    IN
    /\ requests[q].status = "recorded"
    /\ rows' = [r \in Row |-> IF r \in written THEN {q} ELSE rows[r]]
    /\ changes' = [i \in DOMAIN changes |->
                    IF i \in BatchOf(q) THEN [changes[i] EXCEPT !.committed = TRUE] ELSE changes[i]]
    /\ recorded' = recorded \cup {SuccessKey(q)}
    /\ answered' = answered \cup IF kept THEN requests[q].gate ELSE {}
    /\ muted' = (muted \ told) \cup (Outlet \X dropped)
    /\ EndRequest(q)
    /\ UNCHANGED open

\* The transaction fails or its process dies: what it wrote is never committed, and of
\* its batch only the sequence numbers remain.
Fail(q) ==
    /\ Running(q)
    /\ EndRequest(q)
    /\ UNCHANGED <<rows, recorded, answered, changes, open, muted>>

\* A branch is activated.  Rows of before are not put into its feed.
OpenBranch(outlet) ==
    /\ outlet \notin open
    /\ open' = open \cup {outlet}
    /\ muted' = muted \cup ({outlet} \X Row)
    /\ UNCHANGED <<requests, rows, recorded, answered, changes>>

SendRequest(q) ==
    /\ requests[q] = Unsent
    /\ \E c \in Command, row \in Row, outlet \in open, actor \in Actor, key \in Key :
        Execute(q, c, row, outlet, actor, key)

LogStep ==
    \/ \E q \in Request :
        \/ SendRequest(q) \/ Refuse(q) \/ Record(q) \/ Fail(q)
        \/ \E kept \in BOOLEAN : Commit(q, kept)
    \/ \E outlet \in Outlet : OpenBranch(outlet)

-----------------------------------------------------------------------------
LogTypeOK ==
    /\ \A q \in Request : requests[q].status \in {"unsent", "running", "recorded", "ended"}
    /\ rows \in [Row -> {{}} \cup {{q} : q \in Request}]
    /\ \A i \in DOMAIN changes : changes[i].told \subseteq Outlet \X Row
    /\ open \subseteq Outlet /\ muted \subseteq Outlet \X Row

\* What the last change in the feed says of a row to those it concerns.
ToldOf(outlet, row) ==
    {i \in DOMAIN changes : /\ changes[i].committed /\ <<outlet, row>> \in changes[i].told
                            /\ changes[i].shown \in {"everyone", Owner[row]}}

\* The last change of a branch's feed about a row says what the row holds, so a
\* device that has read its feed to the end shows what the database has.  Not so
\* for a row a branch was not told of: its event's dedupe key was already there,
\* it was changed beside another row, or the branch was opened later.
FeedFollowsRows ==
    \A outlet \in open, row \in Row :
        Place[row] \in {outlet, "tenant"} /\ rows[row] # {} /\ <<outlet, row>> \notin muted
            => \E i \in ToldOf(outlet, row) :
                   /\ rows[row] = {changes[i].by}
                   /\ \A j \in ToldOf(outlet, row) : j <= i
=============================================================================
