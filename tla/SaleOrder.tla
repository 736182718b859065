------------------------------ MODULE SaleOrder ------------------------------
(***************************************************************************)
(* Orders of one branch whose customers say they have paid, and the sales  *)
(* of its counter.  A claim of payment is made with an image as proof,     *)
(* and a reviewer turns it into a finalized sale or rejects it; a void is  *)
(* requested, reviewed and executed by three commands.  Each command is a  *)
(* transaction that first reads and checks (Begin...) and then writes      *)
(* (Commit...): what it has read may be out of date by then, and only the  *)
(* WHERE clauses and unique indexes of the writes look again.              *)
(***************************************************************************)
EXTENDS Integers, FiniteSets, FiniteSetsExt

CONSTANTS
    Order,             \* order tickets; a ticket has at most one sale, known by it
    Claim,             \* manual payment claims
    Worker,            \* request handlers
    None,
    MaxVoidRequests,   \* bound on void requests, over all sales
    Upload, Cleaner, CleanupBatch, MaxMediaFaults

ASSUME SaleOrderAssumption ==
    /\ MaxVoidRequests \in Nat /\ CleanupBatch \in Nat \ {0} /\ MaxMediaFaults \in Nat
    /\ None \notin Order \cup Claim \cup Upload

VARIABLES
    orders,       \* v0_order_tickets
    claims,       \* v0_order_manual_payment_claims
    sales,        \* v0_sales
    voidRequests, \* v0_void_requests
    begun,        \* transactions so far that may insert a void request
    workforce,    \* the entitlement addon.workforce of the branch
    busy,         \* the command each worker has begun and not committed
    uploads, objects, old, claimed, deleting, mediaFaults, linkedInTime

media == <<uploads, objects, old, claimed, deleting, mediaFaults, linkedInTime>>
tables == <<orders, claims, sales, voidRequests>>
vars == <<orders, claims, sales, voidRequests, begun, workforce, busy, media>>

INSTANCE MediaUpload

-----------------------------------------------------------------------------
OrderRow == [status : {"NONE", "OPEN", "CHECKED_OUT"},
             mode : {"DIRECT_CHECKOUT", "MANUAL_EXTERNAL_PAYMENT_CLAIM"}]

\* exact: the amount claimed is the total of the order, which approval insists on.
ClaimRow == [status : {"NONE", "PENDING", "APPROVED", "REJECTED"}, order : Order \cup {None},
             sale : Order \cup {None}, proof : Upload \cup {None}, exact : BOOLEAN]

SaleRow == [status : {"NONE", "FINALIZED", "VOIDED"}, method : {"CASH", "KHQR"}]

\* requested_at is the start of the transaction: its place among those that began
\* names the request.
Request == 1..MaxVoidRequests
VoidRequestRow == [status : {"NONE", "PENDING", "APPROVED", "REJECTED"},
                   sale : Order \cup {None}]

NoCommand == [do |-> "nothing"]
Command ==
    [do : {"createClaim"}, order : Order, claim : Claim, proof : Upload, exact : BOOLEAN]
    \cup [do : {"approveClaim", "rejectClaim"}, claim : Claim]
    \cup [do : {"requestVoid"}, sale : Order, request : Request]
    \cup [do : {"approveVoid", "rejectVoid"}, sale : Order, request : Request]
    \cup [do : {"executeVoid"}, sale : Order, solo : BOOLEAN, request : Request \cup {None}]
    \cup {NoCommand}

TypeOK ==
    /\ orders \in [Order -> OrderRow] /\ claims \in [Claim -> ClaimRow]
    /\ sales \in [Order -> SaleRow] /\ voidRequests \in [Request -> VoidRequestRow]
    /\ begun \in 0..MaxVoidRequests /\ workforce \in BOOLEAN
    /\ busy \in [Worker -> Command]
    /\ MediaTypeOK

Init ==
    /\ orders = [o \in Order |-> [status |-> "NONE", mode |-> "DIRECT_CHECKOUT"]]
    /\ claims = [c \in Claim |-> [status |-> "NONE", order |-> None, sale |-> None,
                                  proof |-> None, exact |-> FALSE]]
    /\ sales = [o \in Order |-> [status |-> "NONE", method |-> "CASH"]]
    /\ voidRequests = [r \in Request |-> [status |-> "NONE", sale |-> None]]
    /\ begun = 0 /\ workforce = TRUE
    /\ busy = [w \in Worker |-> NoCommand]
    /\ MediaInit

-----------------------------------------------------------------------------
\* What the statements of the repository make of the tables.
OrderTicketCreated(o, mode, status) ==
    [orders EXCEPT ![o] = [status |-> status, mode |-> mode]]
OrderTicketCheckedOut(o) == [orders EXCEPT ![o].status = "CHECKED_OUT"]
SaleCreated(o, method) == [sales EXCEPT ![o] = [status |-> "PENDING", method |-> method]]
SaleFinalized(o, created) == [created EXCEPT ![o].status = "FINALIZED"]
ClaimCreated(k) ==
    [claims EXCEPT ![k.claim] = [status |-> "PENDING", order |-> k.order, sale |-> None,
                                 proof |-> k.proof, exact |-> k.exact]]
ClaimResolved(c, status, sale) == [claims EXCEPT ![c].status = status, ![c].sale = sale]
VoidRequestCreated(r, o, status) ==
    [voidRequests EXCEPT ![r] = [status |-> status, sale |-> o]]
VoidRequestResolved(r, status) == [voidRequests EXCEPT ![r].status = status]
SaleVoidPending(o) == [sales EXCEPT ![o].status = "VOID_PENDING"]
SaleVoided(o, pending) == [pending EXCEPT ![o].status = "VOIDED"]

-----------------------------------------------------------------------------
\* placeOrder: only orders to be paid by a claim are still placed.
PlaceOrder(o) ==
    /\ orders[o].status = "NONE"
    /\ orders' = OrderTicketCreated(o, "MANUAL_EXTERNAL_PAYMENT_CLAIM", "OPEN")
    /\ UNCHANGED <<claims, sales, voidRequests, begun, workforce, busy, media>>

\* materializeDirectCheckout and markSaleFinalized write ticket, lines and sale in one
\* transaction; a checkout by KHQR is materialised in the same way by the payment.
MaterializeDirectCheckout(o, method) ==
    /\ orders' = OrderTicketCreated(o, "DIRECT_CHECKOUT", "CHECKED_OUT")
    /\ sales' = SaleFinalized(o, SaleCreated(o, method))

DirectCheckout(o, method) ==
    /\ orders[o].status = "NONE"
    /\ MaterializeDirectCheckout(o, method)
    /\ UNCHANGED <<claims, voidRequests, begun, workforce, busy, media>>

Begin(w, command) ==
    /\ busy[w] = NoCommand
    /\ busy' = [busy EXCEPT ![w] = command]
    /\ UNCHANGED <<tables, workforce, media>>

\* A statement fails, the connection is lost, the process dies, or a write finds that
\* the row has changed: all is rolled back, the time it took is not.
Abort(w) ==
    /\ busy[w] # NoCommand
    /\ busy' = [busy EXCEPT ![w] = NoCommand]
    /\ UNCHANGED <<tables, begun, workforce, media>>

Commit(w) == busy' = [busy EXCEPT ![w] = NoCommand] /\ UNCHANGED <<begun, workforce>>

-----------------------------------------------------------------------------
Pending(o) == {c \in Claim : claims[c].status = "PENDING" /\ claims[c].order = o}
Unpaid(o) == orders[o].status = "OPEN" /\ sales[o].status = "NONE"

\* createManualPaymentClaim: a pending claim of the order is returned instead.
BeginCreateClaim(w, o, c, u, exact) ==
    /\ orders[o].mode = "MANUAL_EXTERNAL_PAYMENT_CLAIM" /\ Unpaid(o) /\ Pending(o) = {}
    /\ claims[c].status = "NONE"
    /\ uploads[u] # "NONE"
    /\ Begin(w, [do |-> "createClaim", order |-> o, claim |-> c, proof |-> u, exact |-> exact])
    /\ UNCHANGED begun

\* The INSERT meets the index of one pending claim per order, and nothing else.
CommitCreateClaim(w) ==
    LET k == busy[w] IN
    /\ k.do = "createClaim"
    /\ claims[k.claim].status = "NONE" /\ Pending(k.order) = {}
    /\ claims' = ClaimCreated(k)
    /\ LinkUpload(k.proof)
    /\ Commit(w)
    /\ UNCHANGED <<orders, sales, voidRequests>>

\* approveManualPaymentClaim: a claim of another amount than the total is refused.
BeginApproveClaim(w, c) ==
    /\ claims[c].status = "PENDING" /\ claims[c].exact /\ Unpaid(claims[c].order)
    /\ Begin(w, [do |-> "approveClaim", claim |-> c])
    /\ UNCHANGED begun

\* resolveManualPaymentClaim: WHERE status = 'PENDING'.
\* Mutant: the review is written whatever has become of the claim.
ResolvableAny(c) == claims[c].status # "NONE"
Resolvable(c) == claims[c].status = "PENDING"

\* createSale meets the index of one sale per ticket, markOrderTicketCheckedOut wants
\* the ticket OPEN; markSaleFinalized finds the sale this transaction has inserted.
CommitApproveClaim(w) ==
    LET c == busy[w].claim
        o == claims[c].order IN
    /\ busy[w].do = "approveClaim"
    /\ Resolvable(c) /\ Unpaid(o)
    /\ sales' = SaleFinalized(o, SaleCreated(o, "KHQR"))
    /\ orders' = OrderTicketCheckedOut(o)
    /\ claims' = ClaimResolved(c, "APPROVED", o)
    /\ Commit(w)
    /\ UNCHANGED <<voidRequests, media>>

BeginRejectClaim(w, c) ==
    /\ claims[c].status = "PENDING"
    /\ Begin(w, [do |-> "rejectClaim", claim |-> c])
    /\ UNCHANGED begun

CommitRejectClaim(w) ==
    LET c == busy[w].claim IN
    /\ busy[w].do = "rejectClaim"
    /\ Resolvable(c)
    /\ claims' = ClaimResolved(c, "REJECTED", None)
    /\ Commit(w)
    /\ UNCHANGED <<orders, sales, voidRequests, media>>

-----------------------------------------------------------------------------
VoidRequestsOf(o) == {r \in Request : voidRequests[r].sale = o}
PendingVoid(o) == {r \in VoidRequestsOf(o) : voidRequests[r].status = "PENDING"}
Voidable(o) == sales[o].status = "FINALIZED" /\ sales[o].method # "KHQR"

\* The start of a transaction that may insert a request.
BeginAt(w, command) ==
    /\ begun < MaxVoidRequests
    /\ begun' = begun + 1
    /\ Begin(w, command)

\* requestVoid: only where several people work; a pending request is returned instead.
BeginRequestVoid(w, o) ==
    /\ Voidable(o) /\ workforce /\ PendingVoid(o) = {}
    /\ BeginAt(w, [do |-> "requestVoid", sale |-> o, request |-> begun + 1])

CommitRequestVoid(w) ==
    LET k == busy[w] IN
    /\ k.do = "requestVoid" /\ PendingVoid(k.sale) = {}
    /\ voidRequests' = VoidRequestCreated(k.request, k.sale, "PENDING")
    /\ Commit(w)
    /\ UNCHANGED <<orders, claims, sales, media>>

\* approveVoid and rejectVoid ask for a pending request; the sale may have any status.
BeginReviewVoid(w, o, verdict) ==
    \E r \in PendingVoid(o) :
        /\ Begin(w, [do |-> verdict, sale |-> o, request |-> r])
        /\ UNCHANGED begun

\* resolveVoidRequest: WHERE status = 'PENDING'.
\* Mutant: the review is written whatever has become of the request.
ReviewableAny(r) == TRUE
Reviewable(r) == voidRequests[r].status = "PENDING"

CommitReviewVoid(w, verdict, status) ==
    /\ busy[w].do = verdict
    /\ Reviewable(busy[w].request)
    /\ voidRequests' = VoidRequestResolved(busy[w].request, status)
    /\ Commit(w)
    /\ UNCHANGED <<orders, claims, sales, media>>

\* getLatestVoidRequestBySale: ORDER BY requested_at DESC.
\* Mutant: a request that is no longer pending will do.
LatestReviewed(o) == PendingVoid(o) = {} /\ VoidRequestsOf(o) # {}
LatestApproved(o) ==
    VoidRequestsOf(o) # {} /\ voidRequests[Max(VoidRequestsOf(o))].status = "APPROVED"

\* executeVoid: where several people work the latest request must be approved; where
\* one works alone it may even be rejected, and is made, approved, when there is none.
BeginExecuteVoid(w, o) ==
    /\ Voidable(o)
    /\ \/ /\ workforce => LatestApproved(o)
          /\ ~workforce => VoidRequestsOf(o) # {}
          /\ Begin(w, [do |-> "executeVoid", sale |-> o, solo |-> ~workforce, request |-> None])
          /\ UNCHANGED begun
       \/ /\ ~workforce /\ VoidRequestsOf(o) = {}
          /\ BeginAt(w, [do |-> "executeVoid", sale |-> o, solo |-> TRUE, request |-> begun + 1])

\* markSaleVoidPending and then markSaleVoided, in one transaction.
CommitExecuteVoid(w) ==
    LET k == busy[w] IN
    /\ k.do = "executeVoid"
    /\ sales[k.sale].status = "FINALIZED"
    /\ sales' = SaleVoided(k.sale, SaleVoidPending(k.sale))
    /\ voidRequests' = IF k.request = None THEN voidRequests
                       ELSE VoidRequestCreated(k.request, k.sale, "APPROVED")
    /\ Commit(w)
    /\ UNCHANGED <<orders, claims, media>>

\* The subscription turns the workforce addon on and off.
SwitchWorkforce ==
    /\ workforce' = ~workforce
    /\ UNCHANGED <<tables, begun, busy, media>>

-----------------------------------------------------------------------------
ClaimStep(w) ==
    \/ \E o \in Order, c \in Claim, u \in Upload, exact \in BOOLEAN :
            BeginCreateClaim(w, o, c, u, exact)
    \/ \E c \in Claim : BeginApproveClaim(w, c) \/ BeginRejectClaim(w, c)
    \/ CommitCreateClaim(w) \/ CommitApproveClaim(w) \/ CommitRejectClaim(w)

VoidStep(w) ==
    \/ \E o \in Order : BeginRequestVoid(w, o) \/ BeginExecuteVoid(w, o)
    \/ \E o \in Order, verdict \in {"approveVoid", "rejectVoid"} : BeginReviewVoid(w, o, verdict)
    \/ CommitRequestVoid(w) \/ CommitExecuteVoid(w)
    \/ CommitReviewVoid(w, "approveVoid", "APPROVED")
    \/ CommitReviewVoid(w, "rejectVoid", "REJECTED")

Next ==
    \/ \E o \in Order : PlaceOrder(o) \/ DirectCheckout(o, "CASH") \/ DirectCheckout(o, "KHQR")
    \/ \E w \in Worker : ClaimStep(w) \/ VoidStep(w) \/ Abort(w)
    \/ SwitchWorkforce
    \/ MediaStep /\ UNCHANGED <<tables, begun, workforce, busy>>

Spec == Init /\ [][Next]_vars

\* The cleanup timers keep firing and their statements answer, or fail, in the end.
CleanerTick(p) == Tick(p) /\ UNCHANGED <<tables, begun, workforce, busy>>
FairSpec == Spec /\ \A p \in Cleaner : WF_vars(CleanerTick(p))

-----------------------------------------------------------------------------
\* Claims and sales agree: an approved claim has checked its order out with the KHQR
\* sale it names, and every sale of a claimed order comes from exactly one approved
\* claim, however many reviewers approve and reject the claims of an order at once.
ClaimsMatchSales ==
    \A o \in Order :
        LET approved == {c \in Claim : claims[c].order = o /\ claims[c].status = "APPROVED"} IN
        /\ \A c \in approved :
               /\ orders[o].status = "CHECKED_OUT" /\ claims[c].sale = o
               /\ sales[o] = [status |-> "FINALIZED", method |-> "KHQR"]
        /\ orders[o].mode = "MANUAL_EXTERNAL_PAYMENT_CLAIM" /\ sales[o].status # "NONE"
               => Cardinality(approved) = 1

\* Where several people work, a sale is voided only with an approved request: one
\* that is rejected, or still open, voids nothing, and a KHQR sale is never voided.
VoidsAreApproved ==
    [][\A o \in Order :
        sales[o].status = "FINALIZED" /\ sales'[o].status # "FINALIZED" =>
            /\ sales[o].method = "CASH"
            /\ \/ \E r \in VoidRequestsOf(o) : voidRequests[r].status = "APPROVED"
               \/ \E w \in Worker : busy[w] # busy'[w] /\ busy[w].solo]_vars

\* What a reviewer has decided is never decided again, by a slower reviewer of the
\* same claim or request, nor forgotten.
ReviewIsFinal ==
    [][/\ \A c \in Claim : claims[c].status \in {"APPROVED", "REJECTED"} => claims'[c] = claims[c]
       /\ \A r \in Request : voidRequests[r].status \in {"APPROVED", "REJECTED"}
                                => voidRequests'[r] = voidRequests[r]]_vars
=============================================================================
