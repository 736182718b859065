---------------------------- MODULE Notifications ---------------------------
(***************************************************************************)
(* Operational notifications: the subscribers of the outbox that tell the  *)
(* managers of a branch of a closed till or of a void that waits for them, *)
(* and the cashier of what became of the void; the inbox, its read marks,  *)
(* and the streams of the devices.  The outbox delivers an event at least  *)
(* once, and a subscriber may stop half way: its statements are not one    *)
(* transaction, and errors are swallowed.                                  *)
(***************************************************************************)
EXTENDS Integers, FiniteSetsExt

CONSTANTS
    Till,         \* cash sessions
    Claim,        \* void requests
    Person,       \* accounts
    Cashier,      \* [Claim -> Person]: requested_by_account_id
    Delivery,     \* deliveries of outbox events under way
    MaxFeed       \* bound on the changes written for one account

ASSUME NoteAssumption == Cashier \in [Claim -> Person]

VARIABLES
    subjects,     \* each till and each void request: its status
    managers,     \* ACTIVE managerial assignments to the branch
    deliveries,
    recipients,   \* v0_operational_notification_recipients of each notification
    inserted,     \* v0_operational_notifications
    feed,         \* v0_sync_changes shown to each account: how many of each kind
    pushed,       \* how often streams of each account were sent each notice
    marking       \* read marks whose change is not written yet

noteVars == <<subjects, managers, deliveries, recipients, inserted, feed, pushed,
              marking>>

-----------------------------------------------------------------------------
\* The dedupe key: type and subject.
Notice == {"CASH_SESSION_CLOSED"} \X Till
          \cup {"VOID_APPROVAL_NEEDED", "VOID_APPROVED", "VOID_REJECTED"} \X Claim
Created(n) == <<"created", n>>
MarkedRead(n) == <<"read", n>>
Change == {"created", "read"} \X Notice
AtRest == [phase |-> "idle"]

NoteInit ==
    /\ subjects = [s \in Till \cup Claim |-> IF s \in Till THEN "OPEN" ELSE "none"]
    /\ managers \in SUBSET Person
    /\ deliveries = [d \in Delivery |-> AtRest]
    /\ recipients = [n \in Notice |-> [p \in {} |-> "unread"]]
    /\ inserted = {}
    /\ feed = [p \in Person |-> [c \in Change |-> 0]]
    /\ pushed = [p \in Person |-> [n \in Notice |-> 0]]
    /\ marking = {}

-----------------------------------------------------------------------------
\* The commands whose events are delivered.
CloseTill(t) == subjects[t] = "OPEN" /\ subjects' = [subjects EXCEPT ![t] = "CLOSED"]
RequestVoid(v) == subjects[v] = "none" /\ subjects' = [subjects EXCEPT ![v] = "PENDING"]
ReviewVoid(v) ==
    /\ subjects[v] = "PENDING"
    /\ \E status \in {"APPROVED", "REJECTED"} : subjects' = [subjects EXCEPT ![v] = status]

\* The event behind a notification has been written to the outbox.
Happened(n) ==
    CASE n[1] = "CASH_SESSION_CLOSED" -> subjects[n[2]] = "CLOSED"
      [] n[1] = "VOID_APPROVAL_NEEDED" -> subjects[n[2]] # "none"
      [] n[1] = "VOID_APPROVED" -> subjects[n[2]] = "APPROVED"
      [] OTHER -> subjects[n[2]] = "REJECTED"

Subscribed(d, n, to) ==
    /\ deliveries[d] = AtRest
    /\ Happened(n)
    /\ to # {}
    /\ deliveries' = [deliveries EXCEPT ![d] =
                       [phase |-> "reading", notice |-> n, to |-> to, fresh |-> FALSE]]

\* The three subscribers read what they will say and to whom.
EmitCashSessionClosed(d, t) == Subscribed(d, <<"CASH_SESSION_CLOSED", t>>, managers)
EmitVoidApprovalNeeded(d, v) ==
    subjects[v] = "PENDING" /\ Subscribed(d, <<"VOID_APPROVAL_NEEDED", v>>, managers)
EmitVoidResolution(d, v) ==
    \E type \in {"VOID_APPROVED", "VOID_REJECTED"} : Subscribed(d, <<type, v>>, {Cashier[v]})

\* ON CONFLICT (tenant_id, dedupe_key): xmax tells whether the row is new.
\* Mutant: every upsert counts as new.
AnyUpsert(n) == TRUE
WasInserted(n) == n \notin inserted
UpsertNotification(d) ==
    LET n == deliveries[d].notice IN
    /\ deliveries[d].phase = "reading"
    /\ inserted' = inserted \cup {n}
    /\ deliveries' = [deliveries EXCEPT ![d].phase = "upserted", ![d].fresh = WasInserted(n)]
    /\ UNCHANGED <<recipients, feed, pushed>>

\* ON CONFLICT DO NOTHING; only a new notification is announced.
InsertRecipients(d) ==
    LET n == deliveries[d].notice
        row == recipients[n]
    IN
    /\ deliveries[d].phase = "upserted"
    /\ recipients' = [recipients EXCEPT ![n] =
                       [p \in DOMAIN row \cup deliveries[d].to |->
                         IF p \in DOMAIN row THEN row[p] ELSE "unread"]]
    /\ deliveries' = [deliveries EXCEPT ![d] =
                       IF @.fresh THEN [phase |-> "announcing", notice |-> n, to |-> @.to,
                                        left |-> @.to] ELSE AtRest]
    /\ UNCHANGED <<inserted, feed, pushed>>

Tell(p, change) ==
    /\ MapThenSumSet(LAMBDA c : feed[p][c], Change) < MaxFeed
    /\ feed' = [feed EXCEPT ![p][change] = @ + 1]

\* One change for each recipient, in any order.
AppendCreated(d, p) ==
    /\ deliveries[d].phase = "announcing"
    /\ p \in deliveries[d].left
    /\ Tell(p, Created(deliveries[d].notice))
    /\ deliveries' = [deliveries EXCEPT ![d].left = @ \ {p}]
    /\ UNCHANGED <<inserted, recipients, pushed>>

\* publishCreated reaches the accounts that have a stream open in this process.
PublishCreated(d, listening) ==
    /\ deliveries[d].phase = "announcing" /\ deliveries[d].left = {}
    /\ pushed' = [p \in Person |-> IF p \in deliveries[d].to \cap listening
                                   THEN [pushed[p] EXCEPT ![deliveries[d].notice] = @ + 1] ELSE pushed[p]]
    /\ deliveries' = [deliveries EXCEPT ![d] = AtRest]
    /\ UNCHANGED <<inserted, recipients, feed>>

\* An error is logged and forgotten, or the process stops.
EmitFails(d) ==
    /\ deliveries[d] # AtRest
    /\ deliveries' = [deliveries EXCEPT ![d] = AtRest]
    /\ UNCHANGED <<inserted, recipients, feed, pushed>>

-----------------------------------------------------------------------------
\* A reader must still be assigned to the branch; a cashier always is.
Visible(p, n) ==
    /\ p \in DOMAIN recipients[n]
    /\ n[1] \in {"CASH_SESSION_CLOSED", "VOID_APPROVAL_NEEDED"} => p \in managers

\* Bound: an account has one request to mark under way.
MarkRows(p, set) ==
    /\ set # {} /\ \A m \in marking : m[1] # p
    /\ recipients' = [n \in Notice |-> IF n \in set
                        THEN [recipients[n] EXCEPT ![p] = "read"] ELSE recipients[n]]
    /\ marking' = marking \cup ({p} \X set)
    /\ UNCHANGED feed

\* markRead marks a row again that is read; markAllRead takes the unread ones.
MarkRead(p, n) == Visible(p, n) /\ MarkRows(p, {n})
MarkAllRead(p) ==
    MarkRows(p, {n \in Notice : Visible(p, n) /\ recipients[n][p] = "unread"})

AppendRead(p, n) ==
    /\ <<p, n>> \in marking
    /\ Tell(p, MarkedRead(n))
    /\ marking' = marking \ {<<p, n>>}
    /\ UNCHANGED recipients

MarkFails(p) ==
    /\ \E m \in marking : m[1] = p
    /\ marking' = {m \in marking : m[1] # p}
    /\ UNCHANGED <<recipients, feed>>

NoteStep ==
    \/ /\ \/ \E t \in Till : CloseTill(t)
          \/ \E v \in Claim : RequestVoid(v) \/ ReviewVoid(v)
       /\ UNCHANGED <<managers, deliveries, recipients, inserted, feed, pushed, marking>>
    \/ /\ \E p \in Person : managers' \in {managers \cup {p}, managers \ {p}} \ {managers}
       /\ UNCHANGED <<subjects, deliveries, recipients, inserted, feed, pushed, marking>>
    \/ /\ \E d \in Delivery :
            \/ \E t \in Till : EmitCashSessionClosed(d, t)
            \/ \E v \in Claim : EmitVoidApprovalNeeded(d, v) \/ EmitVoidResolution(d, v)
       /\ UNCHANGED <<subjects, managers, recipients, inserted, feed, pushed, marking>>
    \/ /\ \E d \in Delivery :
            \/ UpsertNotification(d) \/ InsertRecipients(d)
            \/ \E p \in Person : AppendCreated(d, p)
            \/ \E listening \in SUBSET Person : PublishCreated(d, listening)
       /\ UNCHANGED <<subjects, managers, marking>>
    \/ (\E d \in Delivery : EmitFails(d)) /\ UNCHANGED <<subjects, managers, marking>>
    \/ /\ \E p \in Person :
            \/ MarkAllRead(p) \/ MarkFails(p)
            \/ \E n \in Notice : MarkRead(p, n) \/ AppendRead(p, n)
       /\ UNCHANGED <<subjects, managers, deliveries, inserted, pushed>>

-----------------------------------------------------------------------------
NoteTypeOK ==
    /\ subjects \in [Till \cup Claim -> {"OPEN", "CLOSED", "none", "PENDING", "APPROVED", "REJECTED"}]
    /\ managers \subseteq Person
    /\ \A n \in Notice : DOMAIN recipients[n] \subseteq Person
    /\ inserted \subseteq Notice /\ marking \subseteq Person \X Notice
    /\ feed \in [Person -> [Change -> Nat]] /\ pushed \in [Person -> [Notice -> Nat]]

\* However often the outbox delivers an event and wherever a delivery stops, a
\* notification is announced at most once to an account, in the feed and on its
\* streams, and only when its inbox has it; the feed calls no notice read that
\* the inbox has unread.
NoticesAreTold ==
    \A p \in Person, n \in Notice :
        /\ feed[p][Created(n)] <= 1 /\ pushed[p][n] <= 1
        /\ feed[p][Created(n)] + pushed[p][n] > 0 => p \in DOMAIN recipients[n]
        /\ feed[p][MarkedRead(n)] > 0 => recipients[n][p] = "read"
=============================================================================
