----------------------------- MODULE SaleEffects -----------------------------
(***************************************************************************)
(* What a sale sets off.  The sale module finalizes and voids sales and    *)
(* writes an outbox row with each; the dispatchers carry the rows to the   *)
(* inventory subscriber, which moves the stock, and to the cash-session    *)
(* subscriber, which books the cash.  Both look the sale up again when     *)
(* they run, which may be long after, twice, or at once in two processes.  *)
(***************************************************************************)
EXTENDS Integers, FiniteSetsExt, SequencesExt

CONSTANTS
    Sale,              \* sales of one branch
    Tender,            \* what a customer may have paid: nothing, or something
    Session, Closer, CashCommand,
    Item, StockCommand, Recipe, Quantity,
    Dispatcher, BatchSize,
    Unread,            \* what a subscriber that has read nothing knows
    MaxTime, MaxFaults, MaxAnnounced \* bounds; the last one on the events a sale causes

ASSUME EffectsAssumption ==
    /\ BatchSize \in Nat \ {0} /\ MaxTime \in Nat /\ MaxFaults \in Nat
    /\ MaxAnnounced \in Nat \ {0}
    \* every sale consumes some tracked stock: others have no inventory effect
    /\ Recipe \subseteq [Item -> Nat] /\ \A r \in Recipe : \E i \in Item : r[i] > 0
    /\ Quantity \subseteq Nat \ {0} /\ Tender \subseteq {0, 1}
    \* the journal has finitely many sources to add up
    /\ IsFiniteSet(Sale) /\ IsFiniteSet(StockCommand)
    /\ Sale \cap CashCommand = {} /\ Unread \notin Session \cup Recipe

VARIABLES
    sales,       \* v0_sales
    checkouts,   \* sales whose cash checkout has found an open session
    log, published, batch, held, marked, current, running, faults,
    now, sessions, movements, snapshots, closers, recorders,
    journal, stock, recipe, counts

outbox    == <<log, published, batch, held, marked, current, running, faults>>
drawer    == <<now, sessions, movements, snapshots, closers, recorders>>
inventory == <<journal, stock, recipe, counts>>
vars == <<sales, checkouts, outbox, drawer, inventory>>

-----------------------------------------------------------------------------
\* SALE_FINALIZED stands for the three event types that announce a finalized sale.  A
\* sale that a second finalize command finds FINALIZED is announced again.
Row == [sale : Sale, event : {"SALE_FINALIZED"}, command : 1..MaxAnnounced]
       \cup [sale : Sale, event : {"SALE_VOID_EXECUTED"}]

SubscribersOf(r) ==
    IF r.event = "SALE_VOID_EXECUTED" THEN {"inventory"} ELSE {"inventory", "cashSession"}

INSTANCE Outbox
INSTANCE CashSession WITH Manual <- CashCommand
INSTANCE Inventory WITH Manual <- StockCommand

\* What a subscriber has read: the session, or the quantities.
Plan == {Unread} \cup Session \cup Recipe

\* tender_amount is nothing for a sale discounted, or rounded, to zero.
SaleRow == [status : {"PENDING", "FINALIZED", "VOIDED"}, method : {"CASH", "KHQR"},
            tender : Tender, finalized : Time]

TypeOK ==
    /\ sales \in [Sale -> SaleRow] /\ checkouts \subseteq Sale
    /\ OutboxTypeOK(Plan) /\ CashTypeOK /\ StockTypeOK

Init ==
    /\ sales \in [Sale -> {r \in SaleRow : r.status = "PENDING" /\ r.finalized = 0}]
    /\ checkouts = {}
    /\ OutboxInit /\ CashInit /\ StockInit

-----------------------------------------------------------------------------
\* requireOpenCashSession, and the same check of finalizeSale, in the transaction
\* that goes on to finalize; nothing keeps the session open until then.
RequireOpenCashSession(s) ==
    /\ sales[s].status = "PENDING" /\ sales[s].method = "CASH" /\ s \notin checkouts
    /\ Open # {}
    /\ checkouts' = checkouts \cup {s}
    /\ UNCHANGED <<sales, outbox, drawer, inventory>>

\* markSaleFinalized.  finalized_at is the start of the transaction, or the time the
\* client gives when an offline checkout is replayed.  A sale paid by KHQR is
\* finalized by the payment, or by the approval of a claim, without a session.
FinalizeSale(s) ==
    /\ sales[s].status = "PENDING"
    /\ s \in checkouts \/ sales[s].method = "KHQR"
    /\ \E t \in 0..now : sales' = [sales EXCEPT ![s].status = "FINALIZED", ![s].finalized = t]
    /\ checkouts' = checkouts \ {s}
    /\ Emit([sale |-> s, event |-> "SALE_FINALIZED", command |-> 1])
    /\ UNCHANGED <<drawer, inventory>>

RefinalizeSale(s) ==
    /\ sales[s].status = "FINALIZED"
    /\ \E n \in 2..MaxAnnounced : Emit([sale |-> s, event |-> "SALE_FINALIZED", command |-> n])
    /\ UNCHANGED <<sales, checkouts, drawer, inventory>>

ExecuteVoid(s) ==
    /\ sales[s].status = "FINALIZED" /\ sales[s].method # "KHQR"
    /\ sales' = [sales EXCEPT ![s].status = "VOIDED"]
    /\ Emit([sale |-> s, event |-> "SALE_VOID_EXECUTED"])
    /\ UNCHANGED <<checkouts, drawer, inventory>>

-----------------------------------------------------------------------------
\* applySaleExternalMovement: the sale must have the status the event speaks of.
ExpectedStatus(r) == IF r.event = "SALE_VOID_EXECUTED" THEN "VOIDED" ELSE "FINALIZED"

InventoryReads(d, job) ==
    /\ job.by = "inventory" /\ job.plan = Unread
    /\ IF sales[job.row.sale].status = ExpectedStatus(job.row)
       THEN Read(d, job, recipe) ELSE Return(d, job)
    /\ UNCHANGED <<sales, checkouts, drawer, inventory>>

InventoryApplies(d, job) ==
    /\ job.by = "inventory" /\ job.plan # Unread
    /\ IF job.row.event = "SALE_VOID_EXECUTED"
       THEN ApplyMovement(Reversal(job.row.sale), job.plan)
       ELSE ApplyMovement(Deduction(job.row.sale), [i \in Item |-> -job.plan[i]])
    /\ Return(d, job)
    /\ UNCHANGED <<sales, checkouts, recipe, counts, drawer>>

\* appendCashSaleMovement: what is not a finalized cash sale, or lies in no session,
\* is nobody's cash.
CashSessionReads(d, job) ==
    LET s == sales[job.row.sale] IN
    /\ job.by = "cashSession" /\ job.plan = Unread
    /\ \/ /\ s.status = "FINALIZED" /\ s.method = "CASH"
          /\ \E k \in SessionAt(s.finalized) : Read(d, job, k)
       \/ /\ s.status # "FINALIZED" \/ s.method # "CASH" \/ SessionAt(s.finalized) = {}
          /\ Return(d, job)
    /\ UNCHANGED <<sales, checkouts, drawer, inventory>>

\* A movement of nothing violates the CHECK on the amounts, which no retry mends.
CashSessionApplies(d, job) ==
    /\ job.by = "cashSession" /\ job.plan # Unread
    /\ \/ /\ sales[job.row.sale].tender > 0
          /\ AppendSaleIn(job.row.sale, job.plan)
          /\ Return(d, job)
       \/ /\ sales[job.row.sale].tender = 0
          /\ Throw(d, job)
          /\ UNCHANGED <<drawer, faults>>
    /\ UNCHANGED <<sales, checkouts, inventory>>

Subscriber(d, job) ==
    \/ InventoryReads(d, job) \/ InventoryApplies(d, job)
    \/ CashSessionReads(d, job) \/ CashSessionApplies(d, job)

Dispatch(d) ==
    \/ TickStep(d) /\ UNCHANGED <<sales, checkouts, drawer, inventory>>
    \/ \E job \in running[d] : Subscriber(d, job)

-----------------------------------------------------------------------------
SaleCommand ==
    \E s \in Sale :
        RequireOpenCashSession(s) \/ FinalizeSale(s) \/ RefinalizeSale(s) \/ ExecuteVoid(s)

Next ==
    \/ SaleCommand
    \/ \E d \in Dispatcher : Dispatch(d)
    \/ \E d \in Dispatcher : Fault(d) /\ UNCHANGED <<sales, checkouts, drawer, inventory>>
    \/ DrawerCommand /\ UNCHANGED <<sales, checkouts, outbox, inventory>>
    \/ InventoryCommand /\ UNCHANGED <<sales, checkouts, outbox, drawer>>

Spec == Init /\ [][Next]_vars

\* The timer of a dispatcher keeps firing, and its subscribers return or throw.
FairSpec == Spec /\ \A d \in Dispatcher : WF_vars(Dispatch(d))

-----------------------------------------------------------------------------
\* A published sale has taken its stock, unless it was voided before the subscriber
\* looked: neither a crash nor a subscriber that threw, or that another dispatcher
\* ran at the same time, loses the deduction.
NoLostDeduction ==
    \A r \in published :
        r.event # "SALE_VOID_EXECUTED" /\ sales[r.sale].status = "FINALIZED" =>
            \E i \in Item : journal[Deduction(r.sale)][i] < 0

\* A cash sale of nothing: its cash subscriber throws each time it runs.
Poisoned(r) ==
    r.event = "SALE_FINALIZED" /\ sales[r.sale].method = "CASH" /\ sales[r.sale].tender = 0

\* Every other row is published in the end: one that was locked by a dead process,
\* whose subscriber threw, or that shares its batches with a poisoned row.
RowIsPublished ==
    \A r \in Row : (r \in ToSet(log) /\ ~Poisoned(r)) ~> (r \in published)
=============================================================================
