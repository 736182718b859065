-------------------------- MODULE BranchActivation --------------------------
(***************************************************************************)
(* Opening a branch: a draft with an invoice, and the branch once it is    *)
(* paid.  Requests may be repeated and may race; the tenant's row is       *)
(* locked by every one of them.  The payment verifier is outside.          *)
(***************************************************************************)
EXTENDS Integers, FiniteSets

CONSTANTS
    Site,              \* branches there may be: branchCountPerTenantHard of them
    Draft,             \* activation drafts, each with its invoice
    Opener             \* transactions under way

VARIABLES
    branches,     \* branches of the tenant, each with its entitlements
    drafts,       \* v0_branch_activation_drafts with v0_subscription_invoices
    anchored,     \* billing_anchor_set_at
    openings      \* the transactions: what they have read and do next

openVars == <<branches, drafts, anchored, openings>>

-----------------------------------------------------------------------------
NoDraft == [status |-> "NONE", type |-> "NONE", branch |-> {}, invoice |-> "NONE"]
Waiting == [step |-> "idle", draft |-> {}, seen |-> "NONE", first |-> FALSE]

OpenTypeOK ==
    /\ branches \subseteq Site
    /\ drafts \in [Draft -> [status : {"NONE", "PENDING_PAYMENT", "ACTIVATED"},
                             type : {"NONE", "FIRST_BRANCH", "ADDITIONAL_BRANCH"},
                             branch : SUBSET Site, invoice : {"NONE", "ISSUED", "PAID"}]]
    /\ anchored \in BOOLEAN
    /\ openings \in [Opener -> [step : {"idle", "initiate", "confirm", "paid"},
                                draft : SUBSET Draft, first : BOOLEAN,
                                seen : {"NONE", "PENDING_PAYMENT", "ACTIVATED"}]]

OpenInit ==
    /\ branches = {}
    /\ drafts = [d \in Draft |-> NoDraft]
    /\ anchored = FALSE
    /\ openings = [o \in Opener |-> Waiting]

-----------------------------------------------------------------------------
PendingDrafts == {d \in Draft : drafts[d].status = "PENDING_PAYMENT"}

\* lockTenantForFirstBranchActivation: whoever comes next waits for the commit.
\* Mutant: nobody waits.
Unlocked == TRUE
TenantFree == \A o \in Opener : openings[o] = Waiting

Begin(o, opening) ==
    /\ openings' = [openings EXCEPT ![o] = opening]
    /\ UNCHANGED <<branches, drafts, anchored>>

End(o) == openings' = [openings EXCEPT ![o] = Waiting]

\* initiateFirstBranchActivation.  A pending draft is returned as it is; too many
\* attempts or branches are refused.
Initiate(o, d) ==
    /\ TenantFree /\ openings[o] = Waiting
    /\ drafts[d] = NoDraft /\ PendingDrafts = {} /\ branches # Site
    /\ Begin(o, [Waiting EXCEPT !.step = "initiate", !.draft = {d}, !.first = (branches = {})])

\* createFirstBranchActivationDraftWithInvoice; the index allows one pending draft.
CreateDraft(o) ==
    /\ openings[o].step = "initiate" /\ PendingDrafts = {}
    /\ drafts' = [d \in Draft |->
            IF d \in openings[o].draft /\ drafts[d] = NoDraft
            THEN [status |-> "PENDING_PAYMENT", branch |-> {}, invoice |-> "ISSUED",
                  type |-> IF openings[o].first THEN "FIRST_BRANCH" ELSE "ADDITIONAL_BRANCH"]
            ELSE drafts[d]]
    /\ End(o) /\ UNCHANGED <<branches, anchored>>

\* confirmFirstBranchActivation: the draft is read when the tenant is locked, and the
\* payment asked about.
Confirm(o, d) ==
    /\ TenantFree /\ openings[o] = Waiting /\ drafts[d] # NoDraft
    /\ Begin(o, [Waiting EXCEPT !.step = "confirm", !.draft = {d}, !.seen = drafts[d].status])

\* A draft already activated is answered as it is.
VerifyPayment(o) ==
    /\ openings[o].step = "confirm" /\ openings[o].seen = "PENDING_PAYMENT"
    /\ Begin(o, [openings[o] EXCEPT !.step = "paid"])

\* createActiveBranch, seedDefaultBranchEntitlements, assignActiveBranch to the
\* requester (Organisation), markInvoicePaid, markDraftActivated, setBillingAnchorIfUnset.
ActivateBranch(o) ==
    /\ openings[o].step = "paid"
    /\ \E b \in Site \ branches, d \in openings[o].draft :
        /\ branches' = branches \cup {b}
        /\ drafts' = [drafts EXCEPT ![d].status = "ACTIVATED", ![d].branch = {b},
                                    ![d].invoice = "PAID"]
        /\ anchored' = (anchored \/ drafts[d].type = "FIRST_BRANCH")
    /\ End(o)

\* Payment not confirmed, no membership any more, a failed statement or a crash:
\* nothing of the transaction remains.
Withdraw(o) ==
    /\ openings[o] # Waiting
    /\ End(o) /\ UNCHANGED <<branches, drafts, anchored>>

OpenStep ==
    \E o \in Opener :
        \/ \E d \in Draft : Initiate(o, d) \/ Confirm(o, d)
        \/ CreateDraft(o) \/ VerifyPayment(o) \/ ActivateBranch(o) \/ Withdraw(o)

-----------------------------------------------------------------------------
\* A branch is paid for once, however often and by however many its activation is
\* confirmed: branches and activated drafts match one to one, an invoice is paid when
\* its branch exists, and the billing starts with the first branch.
BranchPerPaidInvoice ==
    /\ \A d \in Draft :
        /\ (drafts[d].invoice = "PAID") = (drafts[d].status = "ACTIVATED")
        /\ (drafts[d].branch # {}) = (drafts[d].status = "ACTIVATED")
    /\ \A b \in branches : Cardinality({d \in Draft : b \in drafts[d].branch}) = 1
    /\ Cardinality({d \in Draft : drafts[d].type = "FIRST_BRANCH"}) <= 1
    /\ anchored = (branches # {})
=============================================================================
