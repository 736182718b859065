---------------------------- MODULE KhqrPayment ----------------------------
(***************************************************************************)
(* KHQR payments of the v0 back end: payment intents, the payment attempts *)
(* (one per generated QR, named by its md5), the confirmation evidence and *)
(* the sales they settle.                                                  *)
(*                                                                         *)
(* Four parties move the same rows: the cashier's HTTP commands, the       *)
(* provider's webhook deliveries (lost, repeated and reordered at will),   *)
(* the reconciliation scheduler working through a list it read earlier,    *)
(* and the legacy finalize command of the sale module, which checks an     *)
(* attempt and writes the sale in two separate statements.  Each of the    *)
(* other handlers is one database transaction that holds the row locks of  *)
(* its attempt and its intent, so it is one action; a handler that throws  *)
(* rolls back, and is a disabled action here.                              *)
(***************************************************************************)
EXTENDS Naturals, FiniteSets

CONSTANTS
    Branch,         \* (tenant, branch) scopes
    UnknownBranch,  \* a scope a webhook may claim that no row refers to
    Md5,            \* md5 digests of generated QR payloads
    Intent,         \* payment-intent ids
    LegacySale,     \* sale ids that clients name (pending sales of the old lane)
    NewSale,        \* sale ids the database hands out on materialisation
    Event,          \* provider event ids
    EventMd5,       \* which payment an event id reports on
    Expiring,       \* the attempts that are given an expires_at (it may be null)
    NoIntent, NoSale, NoMd5, NoEvent, NoMsg,
    MaxAttempts     \* bound: attempts ever registered, and manual claims approved

ASSUME EventMd5Assumption == EventMd5 \in [Event -> Md5]
ASSUME NullAssumption ==
    /\ UnknownBranch \notin Branch
    /\ NoSale \notin LegacySale \cup NewSale
    /\ NoIntent \notin Intent
    /\ NoMd5 \notin Md5
    /\ NoEvent \notin Event
    /\ LegacySale \cap NewSale = {}
ASSUME BoundAssumption == MaxAttempts \in Nat

VARIABLES
    attempts,   \* v0_khqr_payment_attempts, keyed by its unique (branch, md5)
    intents,    \* v0_payment_intents
    sales,      \* v0_sales, the columns the KHQR flows read
    evidence,   \* v0_khqr_payment_confirmation_evidences
    outbox,     \* SALE_FINALIZED rows of v0_command_outbox
    queue,      \* attempts the scheduler's current tick listed and has not reached
    eligible,   \* legacy finalize commands past assertFinalizeEligibility
    ledger,     \* the provider's books: what was paid against an md5
    wire        \* webhook messages the provider has sent

vars == <<attempts, intents, sales, evidence, outbox, queue, eligible, ledger, wire>>

-----------------------------------------------------------------------------
Sale    == LegacySale \cup NewSale
Attempt == Branch \X Md5

ActiveStatus   == {"WAITING_FOR_PAYMENT", "PENDING_CONFIRMATION"}
TerminalStatus == {"PAID_CONFIRMED", "SUPERSEDED", "EXPIRED", "CANCELLED"}
AttemptStatus  == ActiveStatus \cup TerminalStatus
IntentStatus   == {"WAITING_FOR_PAYMENT", "PAID_CONFIRMED", "FINALIZED",
                   "EXPIRED", "CANCELLED", "FAILED_PROOF"}
\* VOID_PENDING never outlives the transaction that sets it, and NOT_FOUND is
\* treated exactly as UNPAID by every CASE of the repository.
SaleStatus     == {"PENDING", "FINALIZED", "VOIDED"}
Verdict        == {"CONFIRMED", "MISMATCH", "EXPIRED", "UNPAID"}

\* expired: expires_at has passed.
AttemptRow == [status : AttemptStatus \cup {"ABSENT"}, intent : Intent \cup {NoIntent},
               sale : Sale \cup {NoSale}, expired : BOOLEAN]
IntentRow  == [status : IntentStatus \cup {"ABSENT"}, branch : Branch \cup {UnknownBranch},
               sale : Sale \cup {NoSale}]
\* origin is history: the checkout intent a sale was materialised from; claimed: an
\* APPROVED row of v0_order_manual_payment_claims names the sale.
SaleRow    == [status : SaleStatus \cup {"ABSENT"}, method : {"KHQR", "CASH"},
               branch : Branch \cup {UnknownBranch}, md5 : Md5 \cup {NoMd5},
               origin : Intent \cup {NoIntent}, claimed : BOOLEAN]
NoSaleRow  == [status |-> "ABSENT", method |-> "KHQR", branch |-> UnknownBranch,
               md5 |-> NoMd5, origin |-> NoIntent, claimed |-> FALSE]
Message    == [md5 : Md5, claim : Branch \cup {UnknownBranch}, verdict : Verdict,
               exact : BOOLEAN, id : Event \cup {NoEvent}]

TypeOK ==
    /\ attempts \in [Attempt -> AttemptRow]
    /\ intents \in [Intent -> IntentRow]
    /\ sales \in [Sale -> SaleRow]
    /\ evidence \subseteq [attempt : Attempt, event : Event \cup {NoEvent}, verdict : Verdict]
    /\ outbox \subseteq [sale : Sale, branch : Branch, lane : {"khqr", "manual"}]
    /\ queue \subseteq Attempt
    /\ eligible \subseteq Sale
    /\ ledger \in [Md5 -> {"UNPAID", "PAID", "WRONG"}]
    /\ wire \in [Event -> Message \cup {NoMsg}]

Init ==
    /\ attempts = [a \in Attempt |->
                     [status |-> "ABSENT", intent |-> NoIntent, sale |-> NoSale, expired |-> FALSE]]
    /\ intents = [i \in Intent |->
                     [status |-> "ABSENT", branch |-> UnknownBranch, sale |-> NoSale]]
    /\ sales \in {f \in [Sale -> SaleRow] :
                    \A s \in Sale : \/ f[s] = NoSaleRow
                                    \/ /\ s \in LegacySale
                                       /\ f[s].status = "PENDING" /\ f[s].branch \in Branch
                                       /\ f[s].md5 = NoMd5 /\ f[s].origin = NoIntent
                                       /\ ~f[s].claimed}
    /\ evidence = {} /\ outbox = {} /\ queue = {} /\ eligible = {}
    /\ ledger = [m \in Md5 |-> "UNPAID"]
    /\ wire = [e \in Event |-> NoMsg]

-----------------------------------------------------------------------------
(* Rows, and the transitions the repository's UPDATE statements make.      *)

Registered  == {a \in Attempt : attempts[a].status # "ABSENT"}
OfIntent(i) == {a \in Registered : attempts[a].intent = i}
Active      == {a \in Attempt : attempts[a].status \in ActiveStatus}

AttemptAfter(status, verdict) ==
    IF status \in {"SUPERSEDED", "CANCELLED"} \/ verdict = "UNPAID" THEN status
    ELSE IF verdict = "CONFIRMED" THEN "PAID_CONFIRMED"
    ELSE IF verdict = "EXPIRED" THEN "EXPIRED"
    ELSE "PENDING_CONFIRMATION"  \* MISMATCH

\* Mutant: only FINALIZED intents are protected.
IntentAfterRevives(status, verdict) ==
    IF status = "FINALIZED" \/ verdict = "UNPAID" THEN status
    ELSE IF verdict = "CONFIRMED" THEN "PAID_CONFIRMED"
    ELSE IF verdict = "MISMATCH" THEN "FAILED_PROOF"
    ELSE "EXPIRED"

IntentAfter(status, verdict) ==
    IF status \in {"FINALIZED", "CANCELLED"} \/ verdict = "UNPAID" THEN status
    ELSE IF verdict = "CONFIRMED" THEN "PAID_CONFIRMED"
    ELSE IF verdict = "MISMATCH" THEN "FAILED_PROOF"
    ELSE "EXPIRED"

\* Mutant: a FINALIZED intent goes back to waiting.
ReopenedAlways(status) ==
    IF status = "PAID_CONFIRMED" THEN status ELSE "WAITING_FOR_PAYMENT"

\* A new attempt puts its intent back to waiting, unless it has been paid.
Reopened(status) ==
    IF status \in {"FINALIZED", "PAID_CONFIRMED"} THEN status ELSE "WAITING_FOR_PAYMENT"

\* The attempt and intent tables once a verdict on attempt a is recorded.
AttemptsAfter(a, verdict) ==
    [attempts EXCEPT ![a].status = AttemptAfter(@, verdict)]

IntentsAfter(a, verdict) ==
    IF attempts[a].status = "SUPERSEDED" THEN intents
    ELSE [intents EXCEPT ![attempts[a].intent].status = IntentAfter(@, verdict)]

Seen(b, e) == \E r \in evidence : r.attempt[1] = b /\ r.event = e

\* Mutant: evidence is kept only under an event id.
EvidenceByEvent(a, e, verdict) ==
    IF e = NoEvent THEN evidence
    ELSE evidence \cup {[attempt |-> a, event |-> e, verdict |-> verdict]}

\* Rows without an event id matter to nobody unless they are proof of payment.
EvidenceAfter(a, e, verdict) ==
    IF e = NoEvent /\ verdict # "CONFIRMED" THEN evidence
    ELSE evidence \cup {[attempt |-> a, event |-> e, verdict |-> verdict]}

-----------------------------------------------------------------------------
(* finalizeSaleFromConfirmedAttempt: what a verdict on attempt a entails,  *)
(* given the attempts at and the intents it the verdict has just written.  *)
(* scope is the branch the SALE_FINALIZED row is addressed to.             *)

\* Mutant: the attempts are not linked to the sale.
AssignNothing(at, i, s) == at

AssignSale(at, i, s) ==
    [x \in Attempt |-> IF at[x].intent = i /\ at[x].sale = NoSale
                       THEN [at[x] EXCEPT !.sale = s] ELSE at[x]]

\* Mutant: the intent is finalized but not linked to the sale.
IntentFinalizedUnlinked(it, i, s) == [it EXCEPT ![i].status = "FINALIZED"]

IntentFinalized(it, i, s) ==
    [it EXCEPT ![i].status = "FINALIZED", ![i].sale = IF @ = NoSale THEN s ELSE @]

\* Mutant: the sale is finalized and nobody is told.
FinalizeUnannounced(at, it, i, s, row, scope) ==
    /\ scope \in Branch
    /\ sales' = [sales EXCEPT ![s] = row]
    /\ intents' = IntentFinalized(it, i, s)
    /\ attempts' = AssignSale(at, i, s)
    /\ UNCHANGED outbox

\* The outbox and audit rows refer to the scope: an unknown one aborts.
Finalize(at, it, i, s, row, scope) ==
    /\ scope \in Branch
    /\ sales' = [sales EXCEPT ![s] = row]
    /\ intents' = IntentFinalized(it, i, s)
    /\ attempts' = AssignSale(at, i, s)
    /\ outbox' = outbox \cup {[sale |-> s, branch |-> scope, lane |-> "khqr"]}

Materialise(a, at, it, scope) ==
    LET i == at[a].intent IN
    \E s \in NewSale :
        /\ sales[s].status = "ABSENT"
        /\ Finalize(at, it, i, s, [status |-> "FINALIZED", method |-> "KHQR", branch |-> a[1],
                                   md5 |-> a[2], origin |-> i, claimed |-> FALSE], scope)

\* Mutant: the sale is looked up by id in any branch.
SettleAnywhere(a, at, it, s, scope) ==
    LET i == at[a].intent IN
    \/ /\ sales[s].status \in {"ABSENT", "VOIDED"}
       /\ attempts' = at /\ intents' = it
       /\ UNCHANGED <<sales, outbox>>
    \/ /\ sales[s].status = "FINALIZED"
       /\ attempts' = at /\ intents' = IntentFinalized(it, i, s)
       /\ UNCHANGED <<sales, outbox>>
    \/ /\ sales[s].status = "PENDING" /\ sales[s].method = "KHQR"
       /\ Finalize(at, it, i, s, [sales[s] EXCEPT !.status = "FINALIZED"], scope)

SettleExisting(a, at, it, s, scope) ==
    LET i == at[a].intent
        known == sales[s].branch = a[1]
    IN  \/ /\ ~known \/ sales[s].status = "VOIDED"
           /\ attempts' = at /\ intents' = it
           /\ UNCHANGED <<sales, outbox>>
        \/ /\ known /\ sales[s].status = "FINALIZED"
           /\ attempts' = at /\ intents' = IntentFinalized(it, i, s)
           /\ UNCHANGED <<sales, outbox>>
        \/ /\ known /\ sales[s].status = "PENDING" /\ sales[s].method = "KHQR"
           /\ Finalize(at, it, i, s,
                       [sales[s] EXCEPT !.status = "FINALIZED",
                                        !.md5 = IF @ = NoMd5 THEN a[2] ELSE @], scope)

\* attempt.sale_id ?? intent.sale_id
SaleOf(a, at, it) ==
    IF at[a].sale # NoSale THEN at[a].sale ELSE it[at[a].intent].sale

\* Mutant: any verdict on an attempt of a live intent settles.
MaySettleUnpaid(a, at, it) == it[at[a].intent].status # "CANCELLED"

MaySettle(a, at, it) ==
    /\ at[a].status = "PAID_CONFIRMED"
    /\ it[at[a].intent].status # "CANCELLED"

Settle(a, at, it, scope) ==
    \/ /\ ~MaySettle(a, at, it)
       /\ attempts' = at /\ intents' = it
       /\ UNCHANGED <<sales, outbox>>
    \/ /\ MaySettle(a, at, it) /\ SaleOf(a, at, it) = NoSale
       /\ Materialise(a, at, it, scope)
    \/ /\ MaySettle(a, at, it) /\ SaleOf(a, at, it) # NoSale
       /\ SettleExisting(a, at, it, SaleOf(a, at, it), scope)

-----------------------------------------------------------------------------
(* Commands of the cashier.                                                *)

NewAttempt(i, s) ==
    [status |-> "WAITING_FOR_PAYMENT", intent |-> i, sale |-> s, expired |-> FALSE]

WithinBound ==
    Cardinality(Registered) + Cardinality({s \in Sale : sales[s].claimed}) < MaxAttempts

CanRegister(a) == a \notin Registered /\ WithinBound

InitiateCheckoutIntent(a, i) ==
    /\ CanRegister(a)
    /\ intents[i].status = "ABSENT"
    /\ intents' = [intents EXCEPT ![i] = [status |-> "WAITING_FOR_PAYMENT",
                                          branch |-> a[1], sale |-> NoSale]]
    /\ attempts' = [attempts EXCEPT ![a] = NewAttempt(i, NoSale)]
    /\ UNCHANGED <<sales, evidence, outbox, queue, eligible, ledger, wire>>

IntentOfSale(b, s) == {i \in Intent : intents[i].branch = b /\ intents[i].sale = s}

\* ensurePaymentIntentForSale: the intent of (branch, sale), or a fresh one.
EnsureIntent(i, b, s) ==
    \/ /\ i \in IntentOfSale(b, s)
       /\ intents' = [intents EXCEPT ![i].status = Reopened(@)]
    \/ /\ IntentOfSale(b, s) = {} /\ intents[i].status = "ABSENT"
       /\ intents' = [intents EXCEPT ![i] = [status |-> "WAITING_FOR_PAYMENT",
                                             branch |-> b, sale |-> s]]

SupersedeOthers(a, i) ==
    {x \in OfIntent(i) : x # a /\ attempts[x].status \in ActiveStatus}

AddAttempt(a, i, s) ==
    /\ CanRegister(a)
    /\ EnsureIntent(i, a[1], s)
    /\ attempts' = [x \in Attempt |->
                      IF x = a THEN NewAttempt(i, s)
                      ELSE IF x \in SupersedeOthers(a, i)
                           THEN [attempts[x] EXCEPT !.status = "SUPERSEDED"]
                           ELSE attempts[x]]

\* The sale id comes from the request and nothing looks it up: it may name no
\* sale, or one of another branch.  Ids still to be drawn cannot be named.
RegisterAttempt(a, i, s) ==
    /\ s \in LegacySale \/ sales[s].status # "ABSENT"
    /\ AddAttempt(a, i, s)
    /\ UNCHANGED <<sales, evidence, outbox, queue, eligible, ledger, wire>>

GenerateForSale(a, i, s) ==
    /\ sales[s].branch = a[1] /\ sales[s].method = "KHQR" /\ sales[s].status = "PENDING"
    /\ \/ AddAttempt(a, i, s)
       \/ a \in Registered /\ UNCHANGED <<attempts, intents>>
    /\ sales' = [sales EXCEPT ![s].md5 = a[2]]
    /\ UNCHANGED <<evidence, outbox, queue, eligible, ledger, wire>>

\* Shared by cancelPaymentIntent and cancelAttempt.
Cancellable(i) == intents[i].status \notin {"ABSENT", "FINALIZED", "PAID_CONFIRMED"}

Cancel(i) ==
    /\ Cancellable(i)
    /\ intents' = [intents EXCEPT ![i].status = "CANCELLED"]
    /\ attempts' = [x \in Attempt |->
                      IF x \in OfIntent(i) /\ attempts[x].status \in ActiveStatus
                      THEN [attempts[x] EXCEPT !.status = "CANCELLED"] ELSE attempts[x]]
    /\ UNCHANGED <<sales, evidence, outbox, queue, eligible, ledger, wire>>

CancelPaymentIntent(i) == Cancel(i)

CancelAttempt(a) ==
    /\ attempts[a].status \in ActiveStatus \cup {"CANCELLED"}
    /\ Cancel(attempts[a].intent)

-----------------------------------------------------------------------------
(* The provider: what it may answer, and confirmByMd5.                     *)

\* Bakong's answer is matched on the md5 alone, so a payment of the wrong
\* amount may come back as CONFIRMED; the stub compares and says MISMATCH.
Verdicts(m) ==
    CASE ledger[m] = "PAID"  -> {"CONFIRMED"}
      [] ledger[m] = "WRONG" -> {"CONFIRMED", "MISMATCH"}
      [] OTHER -> {"UNPAID", "EXPIRED"}

ProviderEvents(m, verdict) ==
    {NoEvent} \cup IF verdict \in {"CONFIRMED", "MISMATCH"}
                   THEN {e \in Event : EventMd5[e] = m} ELSE {}

\* insertConfirmationEvidence is a plain INSERT: an event id the branch has
\* already recorded violates its unique index and aborts the transaction.
Persistable(a, e) == e = NoEvent \/ ~Seen(a[1], e)

ConfirmByMd5(a, verdict, e) ==
    /\ a \in Registered
    /\ verdict \in Verdicts(a[2])
    /\ e \in ProviderEvents(a[2], verdict)
    /\ Persistable(a, e)
    /\ Settle(a, AttemptsAfter(a, verdict), IntentsAfter(a, verdict), a[1])
    /\ evidence' = EvidenceAfter(a, e, verdict)
    /\ UNCHANGED <<queue, eligible, ledger, wire>>

-----------------------------------------------------------------------------
(* ingestWebhookEvent.  A message stays on the wire: it can be delivered   *)
(* late, again and out of order.                                           *)

\* The strictly scoped attempt, or else the only one that has the md5.
Targets(msg) ==
    LET strict == <<msg.claim, msg.md5>>
        others == {a \in Registered : a[2] = msg.md5}
    IN  IF strict \in Registered THEN {strict}
        ELSE IF Cardinality(others) = 1 THEN others ELSE {}

Outcome(msg) ==
    IF msg.verdict = "CONFIRMED" /\ ~msg.exact THEN "MISMATCH" ELSE msg.verdict

IngestWebhookEvent(msg) ==
    \E a \in Targets(msg) :
        /\ msg.id # NoEvent => ~Seen(a[1], msg.id)
        /\ Settle(a, AttemptsAfter(a, Outcome(msg)), IntentsAfter(a, Outcome(msg)), msg.claim)
        /\ evidence' = EvidenceAfter(a, msg.id, Outcome(msg))
        /\ UNCHANGED <<queue, eligible, ledger, wire>>

DeliverWebhook(e) ==
    /\ wire[e] # NoMsg
    /\ IngestWebhookEvent(wire[e])

-----------------------------------------------------------------------------
(* The reconciliation scheduler.  The candidates are read outside the      *)
(* transactions that visit them.                                           *)

StartTick(batch) ==
    /\ queue = {}
    /\ batch # {} /\ batch \subseteq Active
    /\ queue' = batch
    /\ UNCHANGED <<attempts, intents, sales, evidence, outbox, eligible, ledger, wire>>

RecordOutcome(a, verdict, e) ==
    /\ Persistable(a, e)
    /\ attempts' = AttemptsAfter(a, verdict)
    /\ intents' = IntentsAfter(a, verdict)
    /\ evidence' = EvidenceAfter(a, e, verdict)

\* Mutant: the status is not read again under the lock.
ReconcileStale(a) ==
    \/ /\ attempts[a].expired
       /\ RecordOutcome(a, "EXPIRED", NoEvent)
    \/ /\ ~attempts[a].expired
       /\ \E verdict \in Verdicts(a[2]) : \E e \in ProviderEvents(a[2], verdict) :
             RecordOutcome(a, verdict, e)
    \/ UNCHANGED <<attempts, intents, evidence>>

\* Mutant: an attempt past its expiry is still put to the provider.
ReconcileNoExpiry(a) ==
    \/ /\ attempts[a].status \in TerminalStatus
       /\ UNCHANGED <<attempts, intents, evidence>>
    \/ /\ attempts[a].status \in ActiveStatus
       /\ \E verdict \in Verdicts(a[2]) : \E e \in ProviderEvents(a[2], verdict) :
             RecordOutcome(a, verdict, e)
    \/ /\ attempts[a].status \in ActiveStatus
       /\ UNCHANGED <<attempts, intents, evidence>>

ReconcileAttempt(a) ==
    /\ \/ /\ attempts[a].status \in TerminalStatus
          /\ UNCHANGED <<attempts, intents, evidence>>
       \/ /\ attempts[a].status \in ActiveStatus /\ attempts[a].expired
          /\ RecordOutcome(a, "EXPIRED", NoEvent)
       \/ /\ attempts[a].status \in ActiveStatus /\ ~attempts[a].expired
          /\ \E verdict \in Verdicts(a[2]) : \E e \in ProviderEvents(a[2], verdict) :
                RecordOutcome(a, verdict, e)
       \* the provider fails, or the evidence INSERT does
       \/ /\ attempts[a].status \in ActiveStatus /\ ~attempts[a].expired
          /\ UNCHANGED <<attempts, intents, evidence>>

VisitCandidate(a) ==
    /\ a \in queue
    /\ ReconcileAttempt(a)
    /\ queue' = queue \ {a}
    /\ UNCHANGED <<sales, outbox, eligible, ledger, wire>>

-----------------------------------------------------------------------------
(* POST /sales/:saleId/finalize and the void of a sale.                    *)

\* assertFinalizeEligibility; the md5 is the body's or the sale's own.
Eligible(s, m) ==
    LET a == <<sales[s].branch, m>> IN
    /\ a \in Registered
    /\ attempts[a].sale = s
    /\ attempts[a].status = "PAID_CONFIRMED"

AssertFinalizeEligibility(s) ==
    /\ sales[s].status # "ABSENT"
    /\ sales[s].method = "KHQR" => \E m \in Md5 : Eligible(s, m)
    /\ eligible' = eligible \cup {s}
    /\ UNCHANGED <<attempts, intents, sales, evidence, outbox, queue, ledger, wire>>

\* A sale already FINALIZED is a success, and is announced once more.
FinalizeSale(s) ==
    /\ s \in eligible
    /\ sales[s].status \in {"PENDING", "FINALIZED"}
    /\ sales' = [sales EXCEPT ![s].status = "FINALIZED"]
    /\ outbox' = outbox \cup {[sale |-> s, branch |-> sales[s].branch, lane |-> "manual"]}
    /\ eligible' = eligible \ {s}
    /\ UNCHANGED <<attempts, intents, evidence, queue, ledger, wire>>

AbortFinalize(s) ==
    /\ s \in eligible
    /\ eligible' = eligible \ {s}
    /\ UNCHANGED <<attempts, intents, sales, evidence, outbox, queue, ledger, wire>>

ExecuteVoid(s) ==
    /\ sales[s].status = "FINALIZED" /\ sales[s].method # "KHQR"
    /\ sales' = [sales EXCEPT ![s].status = "VOIDED"]
    /\ UNCHANGED <<attempts, intents, evidence, outbox, queue, eligible, ledger, wire>>

\* A KHQR sale on the word of a manager, who has looked at a picture of the transfer:
\* created and finalized in one transaction, with no QR and no confirmation.  The
\* order it settles has no other sale; orders and claims are SaleOrder's.
ApproveManualPaymentClaim(s, b) ==
    /\ s \in NewSale /\ sales[s].status = "ABSENT"
    /\ WithinBound
    /\ sales' = [sales EXCEPT ![s] = [status |-> "FINALIZED", method |-> "KHQR", branch |-> b,
                                      md5 |-> NoMd5, origin |-> NoIntent, claimed |-> TRUE]]
    /\ outbox' = outbox \cup {[sale |-> s, branch |-> b, lane |-> "manual"]}
    /\ UNCHANGED <<attempts, intents, evidence, queue, eligible, ledger, wire>>

-----------------------------------------------------------------------------
(* The world outside: customers, time and the provider's messages.         *)

Pay(m) ==
    /\ ledger[m] = "UNPAID"
    /\ \E paid \in {"PAID", "WRONG"} : ledger' = [ledger EXCEPT ![m] = paid]
    /\ UNCHANGED <<attempts, intents, sales, evidence, outbox, queue, eligible, wire>>

Expire(a) ==
    /\ a \in Registered \cap Expiring /\ ~attempts[a].expired
    /\ attempts' = [attempts EXCEPT ![a].expired = TRUE]
    /\ UNCHANGED <<intents, sales, evidence, outbox, queue, eligible, ledger, wire>>

\* A message says what the books say when it is sent, and claims any scope;
\* its id may be missing.
SendWebhook(e) ==
    /\ wire[e] = NoMsg
    /\ LET m == EventMd5[e] IN
       \E verdict \in Verdicts(m) : \E claim \in Branch \cup {UnknownBranch} :
       \E id \in {e, NoEvent} :
          wire' = [wire EXCEPT ![e] =
                     [md5 |-> m, claim |-> claim, verdict |-> verdict,
                      exact |-> verdict = "CONFIRMED" /\ ledger[m] = "PAID", id |-> id]]
    /\ UNCHANGED <<attempts, intents, sales, evidence, outbox, queue, eligible, ledger>>

-----------------------------------------------------------------------------
Cashier ==
    \/ \E a \in Attempt, i \in Intent : InitiateCheckoutIntent(a, i)
    \/ \E a \in Attempt, i \in Intent, s \in Sale : RegisterAttempt(a, i, s)
    \/ \E a \in Attempt, i \in Intent, s \in Sale : GenerateForSale(a, i, s)
    \/ \E i \in Intent : CancelPaymentIntent(i)
    \/ \E a \in Registered : CancelAttempt(a)
    \/ \E a \in Attempt, verdict \in Verdict, e \in Event \cup {NoEvent} :
          ConfirmByMd5(a, verdict, e)
    \/ \E s \in Sale : AssertFinalizeEligibility(s)
    \/ \E s \in Sale : FinalizeSale(s)
    \/ \E s \in Sale : AbortFinalize(s)
    \/ \E s \in Sale : ExecuteVoid(s)
    \/ \E s \in Sale, b \in Branch : ApproveManualPaymentClaim(s, b)

Scheduler ==
    \/ \E batch \in SUBSET Active : StartTick(batch)
    \/ \E a \in Attempt : VisitCandidate(a)

World ==
    \/ \E m \in Md5 : Pay(m)
    \/ \E a \in Attempt : Expire(a)
    \/ \E e \in Event : SendWebhook(e)
    \/ \E e \in Event : DeliverWebhook(e)

Next == Cashier \/ Scheduler \/ World

Spec == Init /\ [][Next]_vars
\* setInterval keeps ticking and a tick visits its whole list; the list is
\* ordered by the time of the last check, so no candidate is passed over for ever.
SchedulerFairness ==
    /\ \A a \in Attempt : WF_vars(VisitCandidate(a))
    /\ \A a \in Attempt : SF_vars(\E batch \in SUBSET Active : a \in batch /\ StartTick(batch))

FairSpec == Spec /\ SchedulerFairness

-----------------------------------------------------------------------------
(* Properties.                                                             *)

\* An attempt always carries the sale of its intent, whichever flow linked the
\* intent first: settle reads one and falls back on the other, and assigns the
\* sale to the attempts the confirmation did not name.
AttemptAgreesWithIntent ==
    \A a \in Registered :
        /\ attempts[a].intent \in Intent
        /\ intents[attempts[a].intent].status # "ABSENT"
        /\ intents[attempts[a].intent].branch = a[1]
        /\ intents[attempts[a].intent].sale = attempts[a].sale

\* A checkout is sold at most once, however many of its QRs are paid and however
\* often and by whomever the payment is confirmed: the sale materialised from an
\* intent is the sale the intent is left with.
OneSalePerIntent ==
    \A s \in Sale : sales[s].origin # NoIntent =>
        /\ intents[sales[s].origin].sale = s
        /\ intents[sales[s].origin].status = "FINALIZED"

Proven(s) == \E r \in evidence : /\ r.verdict = "CONFIRMED"
                                 /\ attempts[r.attempt].sale = s
                                 /\ ledger[r.attempt[2]] # "UNPAID"

\* A KHQR sale is finalized on a recorded confirmation of an attempt of that very
\* sale, behind which there was a payment: neither a late or replayed webhook nor a
\* finalize command whose check came earlier sells on less.  The one other way is
\* an approved manual payment claim, which needs no payment; it excuses only the
\* sale it creates, which has no QR then or later and settles no checkout intent,
\* and lets no finalize command through.
SaleBackedByProof ==
    \A s \in Sale :
        /\ sales[s].method = "KHQR" /\ sales[s].status = "FINALIZED" =>
              Proven(s) \/ sales[s].claimed
        /\ sales[s].method = "KHQR" /\ s \in eligible => Proven(s)
        /\ sales[s].claimed => sales[s].md5 = NoMd5 /\ sales[s].origin = NoIntent

\* An intent counts as paid only while one of its own attempts has a recorded
\* confirmation, also after supersession, cancellation and reopening.
PaidIntentHasProof ==
    \A i \in Intent : intents[i].status \in {"PAID_CONFIRMED", "FINALIZED"} =>
        \E r \in evidence : r.verdict = "CONFIRMED" /\ attempts[r.attempt].intent = i

\* A FINALIZED intent has its sale, in its own branch, and the sale is sold (or
\* was, and has been voided).
FinalizedIntentOwnsSale ==
    \A i \in Intent : intents[i].status = "FINALIZED" =>
        /\ intents[i].sale \in Sale
        /\ sales[intents[i].sale].branch = intents[i].branch
        /\ sales[intents[i].sale].status \in {"FINALIZED", "VOIDED"}

Announced(s) == {r \in outbox : r.sale = s}

\* A sale is sold exactly when a SALE_FINALIZED row says so, and the KHQR lane,
\* whose handlers race each other, says so at most once.
SoldIffAnnounced ==
    \A s \in Sale :
        /\ sales[s].status \in {"FINALIZED", "VOIDED"} <=> Announced(s) # {}
        /\ Cardinality({r \in Announced(s) : r.lane = "khqr"}) <= 1

\* A sold KHQR sale stays sold and keeps its md5, and a FINALIZED intent keeps
\* its status and its sale, whatever arrives afterwards.
FinalizedIsFinal ==
    [][/\ \A s \in Sale : sales[s].status = "FINALIZED" /\ sales[s].method = "KHQR" =>
                             sales'[s] = sales[s]
       /\ \A i \in Intent : intents[i].status = "FINALIZED" => intents'[i] = intents[i]]_vars

\* A cancelled checkout is never sold: no later webhook, confirmation or tick
\* brings the intent back, even when the customer paid a QR of it.
CancelledCheckoutNeverSells ==
    [][\A i \in Intent :
          intents[i].status = "CANCELLED" /\ intents[i].sale = NoSale =>
              intents'[i] = intents[i]]_vars

\* The scheduler works through a stale list, yet a visit never takes an attempt
\* out of a terminal status a webhook or the cashier gave it meanwhile.
SchedulerNeverOverturns ==
    [][\A a \in Attempt :
          a \in queue \ queue' /\ attempts[a].status \in TerminalStatus =>
              attempts'[a] = attempts[a]]_vars

\* An attempt past its expiry does not wait for ever.
ExpiredAttemptSettles ==
    \A a \in Attempt :
        (attempts[a].status \in ActiveStatus /\ attempts[a].expired)
            ~> attempts[a].status \in TerminalStatus

\* The design note on the scheduler: a confirmed attempt and its finalized sale
\* come in one transaction, so none is left paid with nothing sold.
NoPartialReconciliation ==
    \A a \in Registered :
        attempts[a].status = "PAID_CONFIRMED" /\ intents[attempts[a].intent].status # "CANCELLED" =>
            intents[attempts[a].intent].sale # NoSale

\* The SALE_FINALIZED row of a KHQR sale is addressed to the sale's branch, as
\* the test of the md5 fallback expects of a webhook with a stale scope.
AnnouncedInOwnBranch ==
    \A r \in outbox : r.branch = sales[r.sale].branch
=============================================================================
