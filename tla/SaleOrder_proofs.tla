-------------------------- MODULE SaleOrder_proofs --------------------------
(***************************************************************************)
(* The claims, sales, voids and images of a branch, for any orders, claims *)
(* and workers, and any uploads, processes and failures.                   *)
(*                                                                         *)
(* Images first: linked in time, they are kept.                            *)
(* The argument: a tick claims an upload only while its row is PENDING,    *)
(* and the claim ends that, so two ticks never work on one upload; a row   *)
(* is PENDING again only when its tick has let go of it.  So whoever links *)
(* a PENDING upload takes it out of the reach of every tick for good.      *)
(***************************************************************************)
EXTENDS SaleOrder, Aggregates, FiniteSetTheorems, TLAPS

\* A process has an upload in its batch, or works on it.
Has(p, u) == u \in claimed[p] \/ u \in deleting[p].upload

OneEach ==
    /\ \A p \in Cleaner : claimed[p] \cap deleting[p].upload = {}
    /\ \A p, q \in Cleaner : \A u \in Upload : Has(p, u) /\ Has(q, u) => p = q
Claimed == \A p \in Cleaner : \A u \in Upload : Has(p, u) => uploads[u] \notin {"NONE", "PENDING"}
OutOfReach ==
    \A u \in linkedInTime :
        /\ uploads[u] = "LINKED" /\ u \in objects
        /\ \A p \in Cleaner : ~Has(p, u)

MInv == MediaTypeOK /\ OneEach /\ Claimed /\ OutOfReach

\* What a claim of payment is about to link is an upload.
ProofsAreUploads ==
    /\ busy = [w \in Worker |-> busy[w]]
    /\ \A w \in Worker : busy[w].do = "createClaim" => busy[w].proof \in Upload

-----------------------------------------------------------------------------
LEMMA MediaStart == MediaInit => MInv
  BY SaleOrderAssumption DEF MediaInit, MInv, MediaTypeOK, OneEach, Claimed, OutOfReach, Has, UploadStatus,
         Work, NoUpload

LEMMA Linking ==
    ASSUME MInv, NEW u \in Upload, LinkUpload(u)
    PROVE  MInv'
  <1>1. /\ uploads \in [Upload -> UploadStatus] /\ uploads' \in [Upload -> UploadStatus]
        /\ \A v \in Upload : uploads'[v] = IF v = u /\ Linkable(u) THEN "LINKED" ELSE uploads[v]
    BY DEF MInv, MediaTypeOK, LinkUpload, UploadStatus
  <1>2. UNCHANGED <<objects, old, claimed, deleting, mediaFaults>>
    BY DEF LinkUpload
  <1>3. linkedInTime' \in {linkedInTime, linkedInTime \cup {u}}
        /\ (linkedInTime' # linkedInTime => uploads[u] = "PENDING" /\ u \in objects)
    BY DEF LinkUpload
  <1>4. MediaTypeOK'
    BY <1>1, <1>2, <1>3 DEF MInv, MediaTypeOK
  <1>5. OneEach' /\ Claimed'
    BY <1>1, <1>2 DEF MInv, OneEach, Claimed, Has
  <1>6. OutOfReach'
    BY <1>1, <1>2, <1>3 DEF MInv, MediaTypeOK, OutOfReach, Claimed, Has, Linkable
  <1> QED
    BY <1>4, <1>5, <1>6 DEF MInv

LEMMA Uploading ==
    ASSUME MInv, NEW u \in Upload, PutObject(u) \/ Age(u)
    PROVE  MInv'
  <1>1. /\ uploads \in [Upload -> UploadStatus] /\ uploads' \in [Upload -> UploadStatus]
        /\ \A v \in Upload : uploads'[v] # uploads[v] => uploads[v] = "NONE"
        /\ UNCHANGED <<claimed, deleting, linkedInTime>> /\ objects \subseteq objects'
        /\ objects' \subseteq Upload /\ old' \subseteq Upload
        /\ mediaFaults' \in 0..MaxMediaFaults
    BY SaleOrderAssumption DEF MInv, MediaTypeOK, PutObject, Age, Fails, UploadStatus
  <1>2. MediaTypeOK'
    BY <1>1 DEF MInv, MediaTypeOK
  <1>3. OneEach' /\ Claimed' /\ OutOfReach'
    BY <1>1 DEF MInv, MediaTypeOK, OneEach, Claimed, OutOfReach, Has
  <1> QED
    BY <1>2, <1>3 DEF MInv

LEMMA Claiming ==
    ASSUME MInv, NEW p \in Cleaner, ClaimStalePendingUploads(p)
    PROVE  MInv'
  <1>1. PICK batch \in SUBSET Stale :
          /\ uploads' = [u \in Upload |-> IF u \in batch THEN "PENDING_DELETE" ELSE uploads[u]]
          /\ claimed' = [claimed EXCEPT ![p] = batch]
    BY DEF ClaimStalePendingUploads
  <1>2. /\ UNCHANGED <<objects, old, deleting, mediaFaults, linkedInTime>>
        /\ deleting[p] = NoUpload /\ claimed[p] = {}
    BY DEF ClaimStalePendingUploads, Idle
  <1>3. /\ batch \subseteq Upload /\ \A u \in batch : uploads[u] = "PENDING"
        /\ claimed \in [Cleaner -> SUBSET Upload]
    BY DEF Stale, MInv, MediaTypeOK
  <1>4. MediaTypeOK'
    BY <1>1, <1>2, <1>3 DEF MInv, MediaTypeOK, UploadStatus
  <1>5. /\ claimed'[p] = batch /\ deleting[p].upload = {}
        /\ \A q \in Cleaner : q # p => claimed'[q] = claimed[q]
        /\ \A u \in batch : \A q \in Cleaner : ~Has(q, u)
    BY <1>1, <1>2, <1>3 DEF MInv, Claimed, NoUpload
  <1>6. OneEach'
    BY <1>2, <1>3, <1>5 DEF MInv, OneEach, Has
  <1>7. Claimed'
    BY <1>1, <1>2, <1>5 DEF MInv, Claimed, Has
  <1>8. OutOfReach'
    BY <1>1, <1>2, <1>3, <1>5 DEF MInv, MediaTypeOK, OutOfReach, Has
  <1> QED
    BY <1>4, <1>6, <1>7, <1>8 DEF MInv

\* A step of a tick that has no more uploads than before, and writes to those alone.
LEMMA Working ==
    ASSUME MInv, MediaTypeOK', NEW p \in Cleaner,
           UNCHANGED <<old, linkedInTime>>,
           \A q \in Cleaner : q # p => claimed'[q] = claimed[q] /\ deleting'[q] = deleting[q],
           \A u \in Upload : Has(p, u)' => Has(p, u),
           claimed'[p] \cap deleting'[p].upload = {},
           \A u \in Upload : (u \in objects) # (u \in objects') => Has(p, u),
           \A u \in Upload : uploads'[u] # uploads[u] =>
               Has(p, u) /\ (uploads'[u] \in {"NONE", "PENDING"} => ~Has(p, u)')
    PROVE  MInv'
  <1>1. \A q \in Cleaner : \A u \in Upload : Has(q, u)' => Has(q, u)
    BY DEF Has
  <1>2. OneEach'
    BY <1>1 DEF MInv, OneEach, Has
  <1>3. Claimed'
    <2>1. ASSUME NEW q \in Cleaner, NEW u \in Upload, Has(q, u)'
          PROVE  uploads'[u] \notin {"NONE", "PENDING"}
      <3>1. Has(q, u)
        BY <1>1, <2>1
      <3>2. CASE uploads'[u] = uploads[u]
        BY <3>1, <3>2 DEF MInv, Claimed
      <3>3. CASE uploads'[u] # uploads[u]
        <4>1. q = p
          BY <3>1, <3>3 DEF MInv, OneEach
        <4> QED
          BY <2>1, <3>3, <4>1
      <3> QED
        BY <3>2, <3>3
    <2> QED
      BY <2>1 DEF Claimed
  <1>4. OutOfReach'
    BY <1>1 DEF MInv, MediaTypeOK, OutOfReach
  <1> QED
    BY <1>2, <1>3, <1>4 DEF MInv

LEMMA Ticking ==
    ASSUME MInv, NEW p \in Cleaner, Tick(p) \/ CrashCleaner(p)
    PROVE  MInv'
  <1>1. /\ uploads \in [Upload -> UploadStatus] /\ claimed \in [Cleaner -> SUBSET Upload]
        /\ deleting \in [Cleaner -> Work] /\ deleting[p] \in Work /\ NoUpload \in Work
        /\ \A u \in Upload : ~ u \in NoUpload.upload
        /\ claimed[p] \cap deleting[p].upload = {}
    BY DEF MInv, MediaTypeOK, OneEach, Work, NoUpload
  <1>2. CASE ClaimStalePendingUploads(p)
    BY <1>2, Claiming
  <1>3. CASE TakeNext(p)
    <2>1. PICK u \in claimed[p] :
            /\ claimed' = [claimed EXCEPT ![p] = @ \ {u}]
            /\ deleting' = [deleting EXCEPT ![p] = [upload |-> {u}, next |-> "delete"]]
      BY <1>3 DEF TakeNext
    <2>2. UNCHANGED <<uploads, objects, old, mediaFaults, linkedInTime>>
      BY <1>3 DEF TakeNext
    <2>3. u \in Upload /\ [upload |-> {u}, next |-> "delete"] \in Work
      BY <1>1 DEF Work
    <2>4. MediaTypeOK'
      BY <1>1, <2>1, <2>2, <2>3 DEF MInv, MediaTypeOK
    <2> QED
      BY <1>1, <2>1, <2>2, <2>3, <2>4, Working DEF Has
  <1>4. CASE DeleteObject(p)
    <2>1. /\ objects' \in {objects, objects \ deleting[p].upload}
          /\ mediaFaults' \in 0..MaxMediaFaults
          /\ UNCHANGED <<uploads, old, claimed, linkedInTime>>
      BY <1>4, SaleOrderAssumption DEF DeleteObject, Fails, MInv, MediaTypeOK
    <2>2. PICK next \in {"markDeleted", "markPending"} : Goes(p, next)
      BY <1>4 DEF DeleteObject
    <2>3. /\ deleting' \in [Cleaner -> Work] /\ deleting'[p].upload = deleting[p].upload
          /\ \A q \in Cleaner : q # p => deleting'[q] = deleting[q]
      BY <1>1, <1>4, <2>2 DEF Goes, Work, NoUpload, DeleteObject
    <2>4. MediaTypeOK'
      BY <2>1, <2>3 DEF MInv, MediaTypeOK
    <2> QED
      BY <1>1, <2>1, <2>3, <2>4, Working DEF Has
  <1>5. CASE MarkDeleted(p)
    <2>1. /\ uploads' \in {uploads, Marked(p, "DELETED")}
          /\ mediaFaults' \in 0..MaxMediaFaults
          /\ UNCHANGED <<objects, old, claimed, linkedInTime>>
      BY <1>5, SaleOrderAssumption DEF MarkDeleted, Fails, MInv, MediaTypeOK
    <2>2. /\ deleting' \in [Cleaner -> Work]
          /\ deleting'[p].upload \in {{}, deleting[p].upload}
          /\ \A q \in Cleaner : q # p => deleting'[q] = deleting[q]
      BY <1>1, <1>5 DEF MarkDeleted, Goes, Work, NoUpload
    <2>3. /\ uploads' \in [Upload -> UploadStatus]
          /\ \A u \in Upload : uploads'[u] # uploads[u] =>
                 u \in deleting[p].upload /\ uploads'[u] = "DELETED"
      BY <1>1, <2>1 DEF Marked, UploadStatus
    <2>4. MediaTypeOK'
      BY <2>1, <2>2, <2>3 DEF MInv, MediaTypeOK
    <2> QED
      BY <1>1, <2>1, <2>2, <2>3, <2>4, Working DEF Has
  <1>6. CASE MarkPending(p)
    <2>1. /\ uploads' \in {uploads, Marked(p, "PENDING")}
          /\ mediaFaults' \in 0..MaxMediaFaults
          /\ claimed' \in {claimed, [claimed EXCEPT ![p] = {}]}
          /\ deleting' = [deleting EXCEPT ![p] = NoUpload]
          /\ UNCHANGED <<objects, old, linkedInTime>>
      BY <1>6, SaleOrderAssumption DEF MarkPending, Fails, MInv, MediaTypeOK
    <2>2. /\ uploads' \in [Upload -> UploadStatus]
          /\ \A u \in Upload : uploads'[u] # uploads[u] => u \in deleting[p].upload
      BY <1>1, <2>1 DEF Marked, UploadStatus
    <2>3. /\ claimed' \in [Cleaner -> SUBSET Upload] /\ claimed'[p] \subseteq claimed[p]
          /\ deleting'[p].upload = {}
          /\ \A q \in Cleaner : q # p => claimed'[q] = claimed[q] /\ deleting'[q] = deleting[q]
      BY <1>1, <2>1 DEF NoUpload
    <2>4. MediaTypeOK'
      BY <1>1, <2>1, <2>2, <2>3 DEF MInv, MediaTypeOK
    <2> QED
      BY <1>1, <2>1, <2>2, <2>3, <2>4, Working DEF Has
  <1>7. CASE CrashCleaner(p)
    <2>1. /\ mediaFaults' \in 0..MaxMediaFaults
          /\ claimed' = [claimed EXCEPT ![p] = {}]
          /\ deleting' = [deleting EXCEPT ![p] = NoUpload]
          /\ UNCHANGED <<uploads, objects, old, linkedInTime>>
      BY <1>7, SaleOrderAssumption DEF CrashCleaner, Fails, MInv, MediaTypeOK
    <2>2. /\ claimed'[p] = {} /\ deleting'[p].upload = {}
          /\ \A q \in Cleaner : q # p => claimed'[q] = claimed[q] /\ deleting'[q] = deleting[q]
      BY <1>1, <2>1 DEF NoUpload
    <2>3. MediaTypeOK'
      BY <1>1, <2>1 DEF MInv, MediaTypeOK
    <2> QED
      BY <1>1, <2>1, <2>2, <2>3, Working DEF Has
  <1> QED
    BY <1>2, <1>3, <1>4, <1>5, <1>6, <1>7 DEF Tick

LEMMA Unmoved ==
    ASSUME MInv, UNCHANGED media
    PROVE  MInv'
  BY DEF media, MInv, MediaTypeOK, OneEach, Claimed, OutOfReach, Has

-----------------------------------------------------------------------------
\* Of the commands, one reaches the images: the creation of a claim.
LEMMA Commanding ==
    ASSUME ProofsAreUploads, MInv, NEW w \in Worker, ClaimStep(w) \/ VoidStep(w) \/ Abort(w)
    PROVE  ProofsAreUploads' /\ MInv'
  <1>1. CASE \E o \in Order, c \in Claim, u \in Upload, exact \in BOOLEAN :
                 BeginCreateClaim(w, o, c, u, exact)
    BY <1>1, Unmoved DEF BeginCreateClaim, Begin, ProofsAreUploads
  <1>2. CASE \E c \in Claim : BeginApproveClaim(w, c) \/ BeginRejectClaim(w, c)
    BY <1>2, Unmoved DEF BeginApproveClaim, BeginRejectClaim, Begin, ProofsAreUploads
  <1>3. CASE CommitCreateClaim(w)
    <2>1. busy[w].proof \in Upload /\ LinkUpload(busy[w].proof)
      BY <1>3 DEF CommitCreateClaim, ProofsAreUploads
    <2> QED
      BY <1>3, <2>1, Linking DEF CommitCreateClaim, Commit, ProofsAreUploads, NoCommand
  <1>4. CASE CommitApproveClaim(w) \/ CommitRejectClaim(w)
    BY <1>4, Unmoved DEF CommitApproveClaim, CommitRejectClaim, Commit, ProofsAreUploads, NoCommand
  <1>5. CASE \E o \in Order : BeginRequestVoid(w, o) \/ BeginExecuteVoid(w, o)
    BY <1>5, Unmoved DEF BeginRequestVoid, BeginExecuteVoid, BeginAt, Begin, ProofsAreUploads
  <1>6. CASE \E o \in Order, verdict \in {"approveVoid", "rejectVoid"} : BeginReviewVoid(w, o, verdict)
    BY <1>6, Unmoved DEF BeginReviewVoid, Begin, ProofsAreUploads
  <1>7. CASE \/ CommitRequestVoid(w) \/ CommitExecuteVoid(w)
             \/ CommitReviewVoid(w, "approveVoid", "APPROVED")
             \/ CommitReviewVoid(w, "rejectVoid", "REJECTED")
    BY <1>7, Unmoved DEF CommitRequestVoid, CommitExecuteVoid, CommitReviewVoid, Commit,
                         ProofsAreUploads, NoCommand
  <1>8. CASE Abort(w)
    BY <1>8, Unmoved DEF Abort, ProofsAreUploads, NoCommand
  <1> QED
    BY <1>1, <1>2, <1>3, <1>4, <1>5, <1>6, <1>7, <1>8 DEF ClaimStep, VoidStep

LEMMA MediaStays ==
    ASSUME ProofsAreUploads, MInv, [Next]_vars
    PROVE  ProofsAreUploads' /\ MInv'
  <1>1. CASE \E o \in Order :
               PlaceOrder(o) \/ DirectCheckout(o, "CASH") \/ DirectCheckout(o, "KHQR")
    BY <1>1, Unmoved DEF PlaceOrder, DirectCheckout, ProofsAreUploads
  <1>2. CASE \E w \in Worker : ClaimStep(w) \/ VoidStep(w) \/ Abort(w)
    BY <1>2, Commanding
  <1>3. CASE SwitchWorkforce
    BY <1>3, Unmoved DEF SwitchWorkforce, ProofsAreUploads
  <1>4. CASE MediaStep /\ UNCHANGED <<tables, begun, workforce, busy>>
    BY <1>4, Uploading, Ticking DEF MediaStep, ProofsAreUploads
  <1>5. CASE UNCHANGED vars
    BY <1>5, Unmoved DEF vars, ProofsAreUploads
  <1> QED
    BY <1>1, <1>2, <1>3, <1>4, <1>5 DEF Next

\* An image that was linked while its row was PENDING and its object there keeps both,
\* whatever the cleanups of all processes do (platform/media-uploads).
THEOREM LinkedStays == Spec => []LinkedInTimeIsKept
  <1>1. Init => ProofsAreUploads /\ MInv
    BY MediaStart DEF Init, ProofsAreUploads, NoCommand
  <1>2. ProofsAreUploads /\ MInv /\ [Next]_vars => ProofsAreUploads' /\ MInv'
    BY MediaStays
  <1>3. MInv => LinkedInTimeIsKept
    BY DEF MInv, OutOfReach, LinkedInTimeIsKept
  <1> QED
    BY <1>1, <1>2, <1>3, PTL DEF Spec

-----------------------------------------------------------------------------
(***************************************************************************)
(* The tables.  Only the command that finds a ticket open and without sale *)
(* gives it one, and a sale keeps its method; a void request has the place *)
(* of its transaction, which no other has, so that nobody writes over what *)
(* a reviewer has decided, and what a command in flight has read of an     *)
(* approval is still so when it writes.                                    *)
(***************************************************************************)
\* What the columns hold; and a claim that was made is of an order.
RowsTyped ==
    /\ orders \in [Order -> OrderRow] /\ claims \in [Claim -> ClaimRow]
    /\ sales \in [Order -> SaleRow] /\ voidRequests \in [Request -> VoidRequestRow]
    /\ begun \in 0..MaxVoidRequests /\ workforce \in BOOLEAN
    /\ busy \in [Worker -> Command]
    /\ \A c \in Claim : claims[c].status # "NONE" => claims[c].order \in Order

\* The fields of each command.
LEMMA CommandFields ==
    ASSUME NEW k \in Command
    PROVE  /\ k.do = "createClaim" =>
                k.order \in Order /\ k.claim \in Claim /\ k.proof \in Upload /\ k.exact \in BOOLEAN
           /\ k.do \in {"approveClaim", "rejectClaim"} => k.claim \in Claim
           /\ k.do = "requestVoid" => k.sale \in Order /\ k.request \in Request
           /\ k.do \in {"approveVoid", "rejectVoid"} => k.sale \in Order /\ k.request \in Request
           /\ k.do = "executeVoid" =>
                k.sale \in Order /\ k.solo \in BOOLEAN /\ k.request \in Request \cup {None}
  BY DEF Command, NoCommand

\* A sale is made with its method, finalized.
LEMMA Selling ==
    ASSUME RowsTyped, NEW o \in Order, NEW method \in {"CASH", "KHQR"}
    PROVE  /\ SaleFinalized(o, SaleCreated(o, method)) \in [Order -> SaleRow]
           /\ SaleFinalized(o, SaleCreated(o, method))[o] =
                [status |-> "FINALIZED", method |-> method]
           /\ \A p \in Order : p # o => SaleFinalized(o, SaleCreated(o, method))[p] = sales[p]
  <1> DEFINE created == [sales EXCEPT ![o] = [status |-> "PENDING", method |-> method]]
             row == [status |-> "FINALIZED", method |-> method]
  <1>1. sales \in [Order -> SaleRow] /\ row \in SaleRow
    BY DEF RowsTyped, SaleRow
  <1>2. DOMAIN created = Order /\ created[o] = [status |-> "PENDING", method |-> method]
        /\ \A p \in Order : p # o => created[p] = sales[p]
    BY <1>1
  <1>3. [created[o] EXCEPT !.status = "FINALIZED"] = row
    BY <1>2
  <1>4. SaleFinalized(o, SaleCreated(o, method)) =
            [p \in Order |-> IF p = o THEN [created[o] EXCEPT !.status = "FINALIZED"] ELSE created[p]]
    BY <1>2 DEF SaleFinalized, SaleCreated
  <1> HIDE DEF created, row
  <1>5. SaleFinalized(o, SaleCreated(o, method)) =
            [p \in Order |-> IF p = o THEN row ELSE sales[p]]
    BY <1>2, <1>3, <1>4
  <1> QED
    BY <1>1, <1>5 DEF row

\* A voided sale was made before, with the same method.
LEMMA Voiding ==
    ASSUME RowsTyped, NEW o \in Order
    PROVE  /\ SaleVoided(o, SaleVoidPending(o)) \in [Order -> SaleRow]
           /\ SaleVoided(o, SaleVoidPending(o))[o] =
                [status |-> "VOIDED", method |-> sales[o].method]
           /\ \A p \in Order : p # o => SaleVoided(o, SaleVoidPending(o))[p] = sales[p]
  <1>1. sales \in [Order -> SaleRow] /\ sales[o] \in SaleRow
    BY DEF RowsTyped
  <1> DEFINE pending == SaleVoidPending(o)
  <1>2. /\ pending = [p \in Order |-> pending[p]]
        /\ pending[o] = [status |-> "VOID_PENDING", method |-> sales[o].method]
        /\ \A p \in Order : p # o => pending[p] = sales[p]
    BY <1>1 DEF SaleVoidPending, SaleRow
  <1> HIDE DEF pending
  <1>3. SaleVoided(o, pending) = [p \in Order |->
            IF p = o THEN [status |-> "VOIDED", method |-> sales[o].method] ELSE sales[p]]
    BY <1>2 DEF SaleVoided
  <1>4. [status |-> "VOIDED", method |-> sales[o].method] \in SaleRow
    BY <1>1 DEF SaleRow
  <1> QED
    BY <1>1, <1>3, <1>4 DEF pending

\* Every command leaves the rows what they are.
LEMMA Beginning ==
    ASSUME RowsTyped, NEW w \in Worker, NEW k \in Command, Begin(w, k),
           begun' \in 0..MaxVoidRequests
    PROVE  RowsTyped'
  BY DEF RowsTyped, Begin, tables

LEMMA Freeing ==
    ASSUME RowsTyped, NEW w \in Worker, busy' = [busy EXCEPT ![w] = NoCommand]
    PROVE  busy' \in [Worker -> Command] /\ busy'[w] = NoCommand
           /\ \A v \in Worker : v # w => busy'[v] = busy[v]
  BY DEF RowsTyped, Command

LEMMA ClaimStepTyped ==
    ASSUME RowsTyped, NEW w \in Worker, ClaimStep(w)
    PROVE  RowsTyped'
  <1>1. ASSUME NEW o \in Order, NEW c \in Claim, NEW u \in Upload, NEW exact \in BOOLEAN,
               BeginCreateClaim(w, o, c, u, exact)
        PROVE  RowsTyped'
    <2>1. [do |-> "createClaim", order |-> o, claim |-> c, proof |-> u, exact |-> exact] \in Command
      BY DEF Command
    <2> QED
      BY <1>1, <2>1, Beginning DEF BeginCreateClaim, RowsTyped
  <1>2. ASSUME NEW c \in Claim, BeginApproveClaim(w, c) \/ BeginRejectClaim(w, c)
        PROVE  RowsTyped'
    <2>1. /\ [do |-> "approveClaim", claim |-> c] \in Command
          /\ [do |-> "rejectClaim", claim |-> c] \in Command
      BY DEF Command
    <2> QED
      BY <1>2, <2>1, Beginning DEF BeginApproveClaim, BeginRejectClaim, RowsTyped
  <1>3. CASE CommitCreateClaim(w)
    <2>1. busy[w].order \in Order /\ busy[w].claim \in Claim /\ busy[w].proof \in Upload
          /\ busy[w].exact \in BOOLEAN
      BY <1>3, CommandFields DEF CommitCreateClaim, RowsTyped
    <2>2. claims' \in [Claim -> ClaimRow]
      BY <1>3, <2>1 DEF CommitCreateClaim, ClaimCreated, RowsTyped, ClaimRow
    <2>3. \A d \in Claim : claims'[d].status # "NONE" => claims'[d].order \in Order
      <3>1. claims' = [claims EXCEPT ![busy[w].claim] =
                [status |-> "PENDING", order |-> busy[w].order, sale |-> None,
                 proof |-> busy[w].proof, exact |-> busy[w].exact]]
        BY <1>3 DEF CommitCreateClaim, ClaimCreated
      <3> QED
        BY <2>1, <3>1 DEF RowsTyped
    <2> QED
      BY <1>3, <2>2, <2>3, Freeing DEF CommitCreateClaim, Commit, RowsTyped
  <1>4. CASE CommitApproveClaim(w)
    <2> DEFINE c == busy[w].claim
               o == claims[c].order
    <2>1. c \in Claim /\ claims[c].status = "PENDING" /\ o \in Order
      BY <1>4, CommandFields DEF CommitApproveClaim, RowsTyped, Resolvable
    <2>2. sales' = SaleFinalized(o, SaleCreated(o, "KHQR")) /\ orders' = OrderTicketCheckedOut(o)
          /\ claims' = ClaimResolved(c, "APPROVED", o) /\ UNCHANGED voidRequests /\ Commit(w)
      BY <1>4 DEF CommitApproveClaim
    <2> HIDE DEF c, o
    <2>3. sales' \in [Order -> SaleRow]
      BY <2>1, <2>2, Selling
    <2>4. orders' \in [Order -> OrderRow]
      BY <2>1, <2>2 DEF OrderTicketCheckedOut, RowsTyped, OrderRow
    <2>5. /\ claims' \in [Claim -> ClaimRow]
          /\ \A d \in Claim : claims'[d].order = claims[d].order
          /\ \A d \in Claim : d # c => claims'[d] = claims[d]
      BY ZenonT(40), <2>1, <2>2 DEF ClaimResolved, RowsTyped, ClaimRow
    <2>6. \A d \in Claim : claims'[d].status # "NONE" => claims'[d].order \in Order
      BY <2>1, <2>5 DEF RowsTyped, o
    <2> QED
      BY <2>2, <2>3, <2>4, <2>5, <2>6, Freeing DEF Commit, RowsTyped
  <1>5. CASE CommitRejectClaim(w)
    <2> DEFINE c == busy[w].claim
    <2>1. c \in Claim /\ claims[c].status = "PENDING" /\ claims' = ClaimResolved(c, "REJECTED", None)
          /\ UNCHANGED <<orders, sales, voidRequests>> /\ Commit(w)
      BY <1>5, CommandFields DEF CommitRejectClaim, RowsTyped, Resolvable
    <2> HIDE DEF c
    <2>2. /\ claims' \in [Claim -> ClaimRow]
          /\ \A d \in Claim : claims'[d].order = claims[d].order
          /\ \A d \in Claim : d # c => claims'[d] = claims[d]
      BY ZenonT(40), <2>1 DEF ClaimResolved, RowsTyped, ClaimRow
    <2>3. \A d \in Claim : claims'[d].status # "NONE" => claims'[d].order \in Order
      BY <2>1, <2>2 DEF RowsTyped
    <2> QED
      BY <2>1, <2>2, <2>3, Freeing DEF Commit, RowsTyped
  <1> QED
    BY <1>1, <1>2, <1>3, <1>4, <1>5 DEF ClaimStep

LEMMA VoidStepTyped ==
    ASSUME RowsTyped, NEW w \in Worker, VoidStep(w)
    PROVE  RowsTyped'
  <1> USE SaleOrderAssumption
  <1>1. ASSUME NEW o \in Order, BeginRequestVoid(w, o)
        PROVE  RowsTyped'
    <2>1. begun' = begun + 1 /\ begun' \in 0..MaxVoidRequests /\ begun + 1 \in Request
      BY <1>1 DEF BeginRequestVoid, BeginAt, RowsTyped, Request
    <2>2. [do |-> "requestVoid", sale |-> o, request |-> begun + 1] \in Command
      BY <2>1 DEF Command
    <2> QED
      BY <1>1, <2>1, <2>2, Beginning DEF BeginRequestVoid, BeginAt
  <1>2. ASSUME NEW o \in Order, BeginExecuteVoid(w, o)
        PROVE  RowsTyped'
    <2>1. CASE /\ Begin(w, [do |-> "executeVoid", sale |-> o, solo |-> ~workforce, request |-> None])
               /\ UNCHANGED begun
      <3>1. [do |-> "executeVoid", sale |-> o, solo |-> ~workforce, request |-> None] \in Command
        BY DEF Command
      <3> QED
        BY <2>1, <3>1, Beginning DEF RowsTyped
    <2>2. CASE BeginAt(w, [do |-> "executeVoid", sale |-> o, solo |-> TRUE, request |-> begun + 1])
      <3>1. begun' = begun + 1 /\ begun' \in 0..MaxVoidRequests /\ begun + 1 \in Request
        BY <2>2 DEF BeginAt, RowsTyped, Request
      <3>2. [do |-> "executeVoid", sale |-> o, solo |-> TRUE, request |-> begun + 1] \in Command
        BY <3>1 DEF Command
      <3> QED
        BY <2>2, <3>1, <3>2, Beginning DEF BeginAt
    <2> QED
      BY <1>2, <2>1, <2>2 DEF BeginExecuteVoid
  <1>3. ASSUME NEW o \in Order, NEW verdict \in {"approveVoid", "rejectVoid"},
               BeginReviewVoid(w, o, verdict)
        PROVE  RowsTyped'
    <2>1. PICK r \in PendingVoid(o) :
            Begin(w, [do |-> verdict, sale |-> o, request |-> r]) /\ UNCHANGED begun
      BY <1>3 DEF BeginReviewVoid
    <2>2. [do |-> verdict, sale |-> o, request |-> r] \in Command
      BY DEF Command, PendingVoid, VoidRequestsOf
    <2> QED
      BY <2>1, <2>2, Beginning DEF RowsTyped
  <1>4. CASE CommitRequestVoid(w)
    <2>1. busy[w].sale \in Order /\ busy[w].request \in Request
      BY <1>4, CommandFields DEF CommitRequestVoid, RowsTyped
    <2>2. voidRequests' \in [Request -> VoidRequestRow]
      BY <1>4, <2>1 DEF CommitRequestVoid, VoidRequestCreated, RowsTyped, VoidRequestRow
    <2> QED
      BY <1>4, <2>2, Freeing DEF CommitRequestVoid, Commit, RowsTyped
  <1>5. ASSUME NEW verdict \in {"approveVoid", "rejectVoid"}, NEW status \in {"APPROVED", "REJECTED"},
               CommitReviewVoid(w, verdict, status)
        PROVE  RowsTyped'
    <2>1. busy[w].request \in Request
      BY <1>5, CommandFields DEF CommitReviewVoid, RowsTyped
    <2>2. voidRequests' \in [Request -> VoidRequestRow]
      BY <1>5, <2>1 DEF CommitReviewVoid, VoidRequestResolved, RowsTyped, VoidRequestRow
    <2> QED
      BY <1>5, <2>2, Freeing DEF CommitReviewVoid, Commit, RowsTyped
  <1>6. CASE CommitExecuteVoid(w)
    <2>1. busy[w].sale \in Order /\ busy[w].request \in Request \cup {None}
      BY <1>6, CommandFields DEF CommitExecuteVoid, RowsTyped
    <2>2. sales' \in [Order -> SaleRow]
      BY <1>6, <2>1, Voiding DEF CommitExecuteVoid
    <2>3. voidRequests' \in [Request -> VoidRequestRow]
      BY <1>6, <2>1 DEF CommitExecuteVoid, VoidRequestCreated, RowsTyped, VoidRequestRow
    <2> QED
      BY <1>6, <2>2, <2>3, Freeing DEF CommitExecuteVoid, Commit, RowsTyped
  <1> QED
    BY <1>1, <1>2, <1>3, <1>4, <1>5, <1>6 DEF VoidStep

LEMMA Placing ==
    ASSUME RowsTyped, NEW o \in Order, PlaceOrder(o)
    PROVE  RowsTyped'
  BY DEF RowsTyped, PlaceOrder, OrderTicketCreated, OrderRow

LEMMA CheckingOut ==
    ASSUME RowsTyped, NEW o \in Order, NEW method \in {"CASH", "KHQR"}, DirectCheckout(o, method)
    PROVE  RowsTyped'
  <1>1. orders' \in [Order -> OrderRow]
    BY DEF RowsTyped, DirectCheckout, MaterializeDirectCheckout, OrderTicketCreated, OrderRow
  <1>2. sales' \in [Order -> SaleRow]
    BY Selling DEF DirectCheckout, MaterializeDirectCheckout
  <1> QED
    BY <1>1, <1>2 DEF RowsTyped, DirectCheckout

LEMMA RowsStay ==
    ASSUME RowsTyped, [Next]_vars
    PROVE  RowsTyped'
  <1>1. ASSUME NEW w \in Worker, Abort(w) PROVE RowsTyped'
    BY <1>1, Freeing DEF Abort, RowsTyped, tables
  <1>2. CASE SwitchWorkforce
    BY <1>2 DEF SwitchWorkforce, RowsTyped, tables
  <1>3. CASE UNCHANGED <<tables, begun, workforce, busy>>
    BY <1>3 DEF RowsTyped, tables
  <1>4. CASE UNCHANGED vars
    BY <1>4 DEF RowsTyped, vars
  <1> QED
    BY <1>1, <1>2, <1>3, <1>4, ClaimStepTyped, VoidStepTyped, Placing, CheckingOut DEF Next

-----------------------------------------------------------------------------
\* A ticket that has a sale is checked out; an approved claim names the sale its order
\* was given, by KHQR; and the sale of a claimed order has its one approved claim.
SoldTickets == \A o \in Order : sales[o].status # "NONE" => orders[o].status = "CHECKED_OUT"
Approved(c, o) == claims[c].status = "APPROVED" /\ claims[c].order = o
ApprovedSold ==
    \A o \in Order : \A c \in Claim : Approved(c, o) =>
        claims[c].sale = o /\ sales[o] = [status |-> "FINALIZED", method |-> "KHQR"]
ApprovedOnce == \A o \in Order : \A c, d \in Claim : Approved(c, o) /\ Approved(d, o) => c = d
SoldByClaim ==
    \A o \in Order : orders[o].mode = "MANUAL_EXTERNAL_PAYMENT_CLAIM" /\ sales[o].status # "NONE" =>
        \E c \in Claim : Approved(c, o)

\* Whoever is about to void a sale has read that it is a cash sale, and it stays one.
CashIsVoided ==
    \A w \in Worker : busy[w].do = "executeVoid" =>
        sales[busy[w].sale].status # "NONE" /\ sales[busy[w].sale].method = "CASH"

SalesInv ==
    /\ RowsTyped /\ SoldTickets /\ ApprovedSold /\ ApprovedOnce /\ SoldByClaim /\ CashIsVoided

LEMMA SalesFollow == SalesInv => ClaimsMatchSales
  <1> SUFFICES ASSUME SalesInv, NEW o \in Order
               PROVE  LET approved == {c \in Claim : claims[c].order = o /\ claims[c].status = "APPROVED"} IN
                      /\ \A c \in approved :
                            /\ orders[o].status = "CHECKED_OUT" /\ claims[c].sale = o
                            /\ sales[o] = [status |-> "FINALIZED", method |-> "KHQR"]
                      /\ orders[o].mode = "MANUAL_EXTERNAL_PAYMENT_CLAIM" /\ sales[o].status # "NONE"
                            => Cardinality(approved) = 1
    BY DEF ClaimsMatchSales
  <1> DEFINE approved == {c \in Claim : claims[c].order = o /\ claims[c].status = "APPROVED"}
  <1>1. \A c \in approved : /\ orders[o].status = "CHECKED_OUT" /\ claims[c].sale = o
                            /\ sales[o] = [status |-> "FINALIZED", method |-> "KHQR"]
    BY DEF SalesInv, SoldTickets, ApprovedSold, Approved
  <1>2. ASSUME orders[o].mode = "MANUAL_EXTERNAL_PAYMENT_CLAIM", sales[o].status # "NONE"
        PROVE  Cardinality(approved) = 1
    <2>1. PICK c \in Claim : Approved(c, o)
      BY <1>2 DEF SalesInv, SoldByClaim
    <2>2. approved = {c}
      BY <2>1 DEF SalesInv, ApprovedOnce, Approved
    <2> QED
      BY <2>2, FS_Singleton
  <1> QED
    BY <1>1, <1>2

\* Steps that touch neither tickets, claims nor sales, and take up no void.
LEMMA SalesKept ==
    ASSUME SalesInv, RowsTyped', UNCHANGED <<orders, claims, sales>>,
           \A w \in Worker : busy'[w].do = "executeVoid" => busy'[w] = busy[w]
    PROVE  SalesInv'
  BY DEF SalesInv, SoldTickets, ApprovedSold, ApprovedOnce, SoldByClaim, CashIsVoided, Approved

\* A ticket is given its first sale.
LEMMA FirstSale ==
    ASSUME SalesInv, RowsTyped', NEW o \in Order, sales[o].status = "NONE",
           \A p \in Order : p # o => sales'[p] = sales[p] /\ orders'[p] = orders[p],
           orders'[o].status = "CHECKED_OUT",
           \A c \in Claim, p \in Order : p # o => Approved(c, p)' = Approved(c, p)
                                               /\ (Approved(c, p) => claims'[c] = claims[c]),
           \A c \in Claim : Approved(c, o)' =>
               claims'[c].sale = o /\ sales'[o] = [status |-> "FINALIZED", method |-> "KHQR"],
           \A c, d \in Claim : Approved(c, o)' /\ Approved(d, o)' => c = d,
           orders'[o].mode = "MANUAL_EXTERNAL_PAYMENT_CLAIM" => \E c \in Claim : Approved(c, o)',
           \A w \in Worker : busy'[w].do = "executeVoid" => busy'[w] = busy[w]
    PROVE  SalesInv'
  <1>1. SoldTickets'
    BY DEF SalesInv, SoldTickets
  <1>2. ApprovedSold'
    <2>1. ASSUME NEW p \in Order, NEW c \in Claim, Approved(c, p)'
          PROVE  claims'[c].sale = p /\ sales'[p] = [status |-> "FINALIZED", method |-> "KHQR"]
      <3>1. CASE p = o
        BY <2>1, <3>1
      <3>2. CASE p # o
        BY <2>1, <3>2 DEF SalesInv, ApprovedSold
      <3> QED
        BY <3>1, <3>2
    <2> QED
      BY <2>1 DEF ApprovedSold
  <1>3. ApprovedOnce'
    BY DEF SalesInv, ApprovedOnce
  <1>4. SoldByClaim'
    BY DEF SalesInv, SoldByClaim
  <1>5. CashIsVoided'
    <2>1. ASSUME NEW w \in Worker, busy'[w].do = "executeVoid"
          PROVE  sales'[busy'[w].sale].status # "NONE" /\ sales'[busy'[w].sale].method = "CASH"
      <3>1. busy'[w] = busy[w] /\ busy[w].sale \in Order
        BY <2>1, CommandFields DEF SalesInv, RowsTyped
      <3> QED
        BY <2>1, <3>1 DEF SalesInv, CashIsVoided
    <2> QED
      BY <2>1 DEF CashIsVoided
  <1> QED
    BY <1>1, <1>2, <1>3, <1>4, <1>5 DEF SalesInv

LEMMA OrderSteps ==
    ASSUME SalesInv, RowsTyped', NEW o \in Order,
           PlaceOrder(o) \/ DirectCheckout(o, "CASH") \/ DirectCheckout(o, "KHQR")
    PROVE  SalesInv'
  <1>1. orders \in [Order -> OrderRow] /\ sales \in [Order -> SaleRow] /\ orders[o].status = "NONE"
        /\ UNCHANGED <<claims, busy>>
    BY DEF SalesInv, RowsTyped, PlaceOrder, DirectCheckout
  <1>2. sales[o].status = "NONE"
    BY <1>1 DEF SalesInv, SoldTickets
  <1>3. \A c \in Claim : ~Approved(c, o)
    BY <1>2 DEF SalesInv, ApprovedSold
  <1>4. CASE PlaceOrder(o)
    <2>1. /\ UNCHANGED sales /\ orders'[o].status = "OPEN"
          /\ \A p \in Order : p # o => orders'[p] = orders[p]
      BY <1>1, <1>4 DEF PlaceOrder, OrderTicketCreated
    <2>2. SoldTickets' /\ SoldByClaim'
      BY <1>1, <1>2, <2>1 DEF SalesInv, SoldTickets, SoldByClaim, Approved
    <2>3. ApprovedSold' /\ ApprovedOnce' /\ CashIsVoided'
      BY <1>1, <2>1 DEF SalesInv, ApprovedSold, ApprovedOnce, CashIsVoided, Approved
    <2> QED
      BY <2>2, <2>3 DEF SalesInv
  <1>5. ASSUME NEW method \in {"CASH", "KHQR"}, DirectCheckout(o, method)
        PROVE  SalesInv'
    <2>1. /\ orders'[o] = [status |-> "CHECKED_OUT", mode |-> "DIRECT_CHECKOUT"]
          /\ \A p \in Order : p # o => orders'[p] = orders[p]
      BY <1>1, <1>5 DEF DirectCheckout, MaterializeDirectCheckout, OrderTicketCreated
    <2>2. \A p \in Order : p # o => sales'[p] = sales[p]
      BY <1>5, Selling DEF SalesInv, DirectCheckout, MaterializeDirectCheckout
    <2> QED
      BY <1>1, <1>2, <1>3, <2>1, <2>2, FirstSale DEF Approved
  <1> QED
    BY <1>4, <1>5

LEMMA ClaimSteps ==
    ASSUME SalesInv, RowsTyped', NEW w \in Worker, ClaimStep(w)
    PROVE  SalesInv'
  <1>1. busy \in [Worker -> Command] /\ claims \in [Claim -> ClaimRow]
        /\ orders \in [Order -> OrderRow] /\ sales \in [Order -> SaleRow]
    BY DEF SalesInv, RowsTyped
  <1>2. ASSUME NEW o \in Order, NEW c \in Claim, NEW u \in Upload, NEW exact \in BOOLEAN,
               BeginCreateClaim(w, o, c, u, exact)
        PROVE  SalesInv'
    BY <1>1, <1>2, SalesKept DEF BeginCreateClaim, Begin, tables
  <1>3. ASSUME NEW c \in Claim, BeginApproveClaim(w, c) \/ BeginRejectClaim(w, c)
        PROVE  SalesInv'
    BY <1>1, <1>3, SalesKept DEF BeginApproveClaim, BeginRejectClaim, Begin, tables
  <1>4. \A v \in Worker : busy' = [busy EXCEPT ![w] = NoCommand] /\ busy'[v].do = "executeVoid" =>
            busy'[v] = busy[v]
    BY <1>1 DEF NoCommand
  \* A claim that is written is not approved, and no other is changed.
  <1>5. ASSUME NEW c \in Claim, UNCHANGED <<orders, sales>>, Commit(w),
               claims[c].status # "APPROVED", claims'[c].status # "APPROVED",
               \A d \in Claim : d # c => claims'[d] = claims[d]
        PROVE  SalesInv'
    <2>1. \A d \in Claim : claims'[d].status = "APPROVED" \/ claims[d].status = "APPROVED" =>
              claims'[d] = claims[d]
      BY <1>5
    <2>2. ApprovedSold' /\ ApprovedOnce' /\ SoldByClaim'
      BY <1>5, <2>1 DEF SalesInv, ApprovedSold, ApprovedOnce, SoldByClaim, Approved
    <2>3. SoldTickets' /\ CashIsVoided'
      BY <1>4, <1>5 DEF SalesInv, SoldTickets, CashIsVoided, Commit
    <2> QED
      BY <2>2, <2>3 DEF SalesInv
  <1>6. CASE CommitCreateClaim(w)
    <2>1. busy[w].claim \in Claim
      BY <1>6, CommandFields DEF CommitCreateClaim, SalesInv, RowsTyped
    <2>2. /\ claims[busy[w].claim].status = "NONE" /\ claims'[busy[w].claim].status = "PENDING"
          /\ \A d \in Claim : d # busy[w].claim => claims'[d] = claims[d]
      BY <1>1, <1>6, <2>1 DEF CommitCreateClaim, ClaimCreated
    <2> QED
      BY <1>5, <1>6, <2>1, <2>2 DEF CommitCreateClaim
  <1>7. CASE CommitRejectClaim(w)
    <2>1. busy[w].claim \in Claim
      BY <1>7, CommandFields DEF CommitRejectClaim, SalesInv, RowsTyped
    <2>2. /\ claims[busy[w].claim].status = "PENDING" /\ claims'[busy[w].claim].status = "REJECTED"
          /\ \A d \in Claim : d # busy[w].claim => claims'[d] = claims[d]
      BY <1>1, <1>7, <2>1 DEF CommitRejectClaim, ClaimResolved, Resolvable, ClaimRow
    <2> QED
      BY <1>5, <1>7, <2>1, <2>2 DEF CommitRejectClaim
  <1>8. CASE CommitApproveClaim(w)
    <2>1. PICK c \in Claim, o \in Order : c = busy[w].claim /\ o = claims[c].order
      BY <1>8, CommandFields DEF CommitApproveClaim, SalesInv, RowsTyped, Resolvable
    <2>2. /\ claims[c].status = "PENDING" /\ sales[o].status = "NONE"
          /\ sales' = SaleFinalized(o, SaleCreated(o, "KHQR")) /\ orders' = OrderTicketCheckedOut(o)
          /\ claims' = ClaimResolved(c, "APPROVED", o) /\ Commit(w)
      BY <1>8, <2>1 DEF CommitApproveClaim, Resolvable, Unpaid
    <2>3. \A d \in Claim : ~Approved(d, o)
      BY <2>2 DEF SalesInv, ApprovedSold
    <2>4. claims[c].order = o
      BY <2>1
    <2>5. /\ sales'[o] = [status |-> "FINALIZED", method |-> "KHQR"]
          /\ \A p \in Order : p # o => sales'[p] = sales[p]
      BY <2>1, <2>2, Selling DEF SalesInv
    <2>6. /\ orders'[o].status = "CHECKED_OUT"
          /\ \A p \in Order : p # o => orders'[p] = orders[p]
      BY <1>1, <2>1, <2>2 DEF OrderTicketCheckedOut, OrderRow
    <2>7. /\ claims'[c].status = "APPROVED" /\ claims'[c].order = o /\ claims'[c].sale = o
          /\ \A d \in Claim : d # c => claims'[d] = claims[d]
      BY <1>1, <2>1, <2>2, <2>4 DEF ClaimResolved, ClaimRow
    <2>8. \A d \in Claim : Approved(d, o)' <=> d = c
      BY <2>1, <2>3, <2>7 DEF Approved
    <2>9. \A d \in Claim, p \in Order : p # o => Approved(d, p)' = Approved(d, p)
                                               /\ (Approved(d, p) => claims'[d] = claims[d])
      BY <2>4, <2>7 DEF Approved
    <2>10. \A v \in Worker : busy'[v].do = "executeVoid" => busy'[v] = busy[v]
      BY <1>4, <2>2 DEF Commit
    <2> QED
      BY <2>2, <2>5, <2>6, <2>7, <2>8, <2>9, <2>10, FirstSale
  <1> QED
    BY <1>2, <1>3, <1>6, <1>7, <1>8 DEF ClaimStep

LEMMA VoidSteps ==
    ASSUME SalesInv, RowsTyped', NEW w \in Worker, VoidStep(w)
    PROVE  SalesInv'
  <1>1. busy \in [Worker -> Command] /\ sales \in [Order -> SaleRow]
    BY DEF SalesInv, RowsTyped
  <1>2. \A v \in Worker : busy' = [busy EXCEPT ![w] = NoCommand] /\ busy'[v].do = "executeVoid" =>
            busy'[v] = busy[v]
    BY <1>1 DEF NoCommand
  <1>3. ASSUME NEW o \in Order, BeginRequestVoid(w, o)
        PROVE  SalesInv'
    BY <1>1, <1>3, SalesKept DEF BeginRequestVoid, BeginAt, Begin, tables
  <1>4. ASSUME NEW o \in Order, NEW verdict \in {"approveVoid", "rejectVoid"},
               BeginReviewVoid(w, o, verdict)
        PROVE  SalesInv'
    BY <1>1, <1>4, SalesKept DEF BeginReviewVoid, Begin, tables
  <1>5. CASE CommitRequestVoid(w) \/ CommitReviewVoid(w, "approveVoid", "APPROVED")
             \/ CommitReviewVoid(w, "rejectVoid", "REJECTED")
    BY <1>2, <1>5, SalesKept DEF CommitRequestVoid, CommitReviewVoid, Commit
  <1>6. ASSUME NEW o \in Order, BeginExecuteVoid(w, o)
        PROVE  SalesInv'
    <2>1. /\ sales[o].status # "NONE" /\ sales[o].method = "CASH"
      BY <1>1, <1>6 DEF BeginExecuteVoid, Voidable, SaleRow
    <2>2. UNCHANGED <<orders, claims, sales>>
      BY <1>6 DEF BeginExecuteVoid, BeginAt, Begin, tables
    <2>3. busy'[w].sale = o /\ \A v \in Worker : v # w => busy'[v] = busy[v]
      BY <1>1, <1>6 DEF BeginExecuteVoid, BeginAt, Begin
    <2>4. CashIsVoided'
      BY <2>1, <2>2, <2>3 DEF SalesInv, CashIsVoided
    <2> QED
      BY <2>2, <2>4 DEF SalesInv, SoldTickets, ApprovedSold, ApprovedOnce, SoldByClaim, Approved
  <1>7. CASE CommitExecuteVoid(w)
    <2> DEFINE o == busy[w].sale
    <2>1. o \in Order /\ sales[o].status = "FINALIZED" /\ sales[o].method = "CASH"
      BY <1>7, CommandFields DEF CommitExecuteVoid, SalesInv, RowsTyped, CashIsVoided
    <2>2. /\ UNCHANGED <<orders, claims>> /\ Commit(w)
          /\ sales' = SaleVoided(o, SaleVoidPending(o))
      BY <1>7 DEF CommitExecuteVoid
    <2> HIDE DEF o
    <2>3. /\ sales'[o] = [status |-> "VOIDED", method |-> sales[o].method]
          /\ \A p \in Order : p # o => sales'[p] = sales[p]
      BY <2>1, <2>2, Voiding DEF SalesInv
    <2>4. \A c \in Claim : ~Approved(c, o)
      BY <2>1 DEF SalesInv, ApprovedSold
    <2>5. \A p \in Order : (sales'[p].status # "NONE") = (sales[p].status # "NONE")
                           /\ sales'[p].method = sales[p].method
      BY <2>1, <2>3
    <2>6. SoldTickets' /\ SoldByClaim'
      BY <2>2, <2>5 DEF SalesInv, SoldTickets, SoldByClaim, Approved
    <2>7. ApprovedSold' /\ ApprovedOnce'
      BY <2>2, <2>3, <2>4 DEF SalesInv, ApprovedSold, ApprovedOnce, Approved
    <2>8. CashIsVoided'
      <3>1. ASSUME NEW v \in Worker, busy'[v].do = "executeVoid"
            PROVE  sales'[busy'[v].sale].status # "NONE" /\ sales'[busy'[v].sale].method = "CASH"
        <4>1. busy'[v] = busy[v]
          BY <1>2, <2>2, <3>1 DEF Commit
        <4>2. busy[v].sale \in Order
          BY <1>1, <3>1, <4>1, CommandFields
        <4> QED
          BY <2>5, <3>1, <4>1, <4>2 DEF SalesInv, CashIsVoided
      <3> QED
        BY <3>1 DEF CashIsVoided
    <2> QED
      BY <2>6, <2>7, <2>8 DEF SalesInv
  <1> QED
    BY <1>3, <1>4, <1>5, <1>6, <1>7 DEF VoidStep

LEMMA SalesStep ==
    ASSUME SalesInv, [Next]_vars
    PROVE  SalesInv'
  <1>1. RowsTyped'
    BY RowsStay DEF SalesInv
  <1>2. ASSUME NEW w \in Worker, Abort(w) PROVE SalesInv'
    BY <1>1, <1>2, Freeing, SalesKept DEF Abort, SalesInv, tables, NoCommand
  <1>3. CASE UNCHANGED <<tables, busy>>
    BY <1>1, <1>3, SalesKept DEF tables
  <1>4. CASE SwitchWorkforce
    BY <1>1, <1>4, SalesKept DEF SwitchWorkforce, tables
  <1>5. CASE UNCHANGED vars
    BY <1>1, <1>5, SalesKept DEF vars
  <1> QED
    BY <1>1, <1>2, <1>3, <1>4, <1>5, OrderSteps, ClaimSteps, VoidSteps DEF Next

LEMMA SalesInit == Init => SalesInv
  <1> SUFFICES ASSUME Init PROVE SalesInv
    OBVIOUS
  <1>1. RowsTyped
    BY SaleOrderAssumption DEF Init, RowsTyped, OrderRow, ClaimRow, SaleRow, VoidRequestRow, Command
  <1> QED
    BY <1>1 DEF Init, SalesInv, SoldTickets, ApprovedSold, ApprovedOnce, SoldByClaim,
                CashIsVoided, Approved, NoCommand

\* However many reviewers decide on the claims of an order at once, its sale comes from
\* the one claim that was approved, and that claim names it (saleOrder/app/service.ts).
THEOREM ClaimsStay == Spec => []ClaimsMatchSales
  <1>1. Init => SalesInv
    BY SalesInit
  <1>2. SalesInv /\ [Next]_vars => SalesInv'
    BY SalesStep
  <1>3. SalesInv => ClaimsMatchSales
    BY SalesFollow
  <1> QED
    BY <1>1, <1>2, <1>3, PTL DEF Spec

-----------------------------------------------------------------------------
\* A command that will write a void request has a place of its own for it, unwritten.
Creates(k) == k.do = "requestVoid" \/ (k.do = "executeVoid" /\ k.request # None)
Unwritten ==
    /\ \A r \in Request : r > begun => voidRequests[r].status = "NONE"
    /\ \A w \in Worker : Creates(busy[w]) =>
        busy[w].request <= begun /\ voidRequests[busy[w].request].status = "NONE"
OwnPlace ==
    \A w, v \in Worker :
        Creates(busy[w]) /\ Creates(busy[v]) /\ busy[w].request = busy[v].request => w = v

\* Whoever voids where several people work has read of an approved request.
ApprovedOf(o) == \E r \in Request : voidRequests[r].sale = o /\ voidRequests[r].status = "APPROVED"
ApprovedFirst ==
    \A w \in Worker : busy[w].do = "executeVoid" /\ ~busy[w].solo => ApprovedOf(busy[w].sale)

VoidsInv == RowsTyped /\ Unwritten /\ OwnPlace /\ ApprovedFirst

\* What a reviewer has decided of a void request stays.
DecisionsKept ==
    \A r \in Request : voidRequests[r].status \in {"APPROVED", "REJECTED"} =>
        voidRequests'[r] = voidRequests[r]

LEMMA CreatesRequest ==
    ASSUME RowsTyped, NEW w \in Worker, Creates(busy[w])
    PROVE  busy[w].request \in Request /\ busy[w].sale \in Order
  BY CommandFields DEF RowsTyped, Creates

\* Steps that leave the requests alone, and at most take up a command that needs none.
LEMMA VoidsKept ==
    ASSUME VoidsInv, RowsTyped', UNCHANGED <<voidRequests, begun>>,
           \A w \in Worker : busy'[w] = busy[w] \/ ~Creates(busy'[w]),
           \A w \in Worker : busy'[w] = busy[w] \/
               (busy'[w].do = "executeVoid" /\ ~busy'[w].solo => ApprovedOf(busy'[w].sale))
    PROVE  VoidsInv' /\ DecisionsKept
  <1>1. Unwritten'
    BY DEF VoidsInv, Unwritten
  <1>2. OwnPlace'
    BY DEF VoidsInv, OwnPlace
  <1>3. \A o : ApprovedOf(o) => ApprovedOf(o)'
    BY DEF ApprovedOf
  <1>4. ApprovedFirst'
    <2>1. ASSUME NEW w \in Worker, busy'[w].do = "executeVoid", ~busy'[w].solo
          PROVE  ApprovedOf(busy[w].sale)'
      <3>1. ApprovedOf(busy'[w].sale)
        BY <2>1 DEF VoidsInv, ApprovedFirst
      <3> QED
        BY <3>1 DEF ApprovedOf
    <2> QED
      BY <2>1 DEF ApprovedFirst
  <1> QED
    BY <1>1, <1>2, <1>4 DEF VoidsInv, DecisionsKept

\* A command takes the next place.
LEMMA TakingPlace ==
    ASSUME VoidsInv, RowsTyped', NEW w \in Worker, NEW k \in Command, BeginAt(w, k),
           k.request = begun + 1, k.do = "executeVoid" => k.solo
    PROVE  VoidsInv' /\ DecisionsKept
  <1>1. /\ busy \in [Worker -> Command] /\ begun \in Nat /\ begun' = begun + 1
        /\ busy'[w] = k /\ UNCHANGED voidRequests
        /\ \A v \in Worker : v # w => busy'[v] = busy[v]
        /\ \A r \in Request : r \in Nat
    BY SaleOrderAssumption DEF VoidsInv, RowsTyped, BeginAt, Begin, tables, Request
  <1>2. ASSUME NEW v \in Worker, Creates(busy[v])
        PROVE  busy[v].request \in Nat /\ busy[v].request <= begun
    BY <1>1, <1>2, CreatesRequest DEF VoidsInv, Unwritten
  <1>3. begun + 1 \in Request /\ voidRequests[begun + 1].status = "NONE"
    <2>1. begun + 1 \in Request
      BY <1>1, SaleOrderAssumption DEF VoidsInv, RowsTyped, Request, BeginAt
    <2> QED
      BY <1>1, <2>1 DEF VoidsInv, Unwritten
  <1>4. Unwritten'
    <2>1. \A r \in Request : r > begun' => voidRequests'[r].status = "NONE"
      BY <1>1 DEF VoidsInv, Unwritten
    <2>2. ASSUME NEW v \in Worker, Creates(busy'[v])
          PROVE  busy'[v].request <= begun' /\ voidRequests'[busy'[v].request].status = "NONE"
      <3>1. CASE v = w
        BY <1>1, <1>3, <3>1
      <3>2. CASE v # w
        BY <1>1, <1>2, <2>2, <3>2 DEF VoidsInv, Unwritten
      <3> QED
        BY <3>1, <3>2
    <2> QED
      BY <2>1, <2>2 DEF Unwritten, Creates
  <1>5. OwnPlace'
    <2>1. \A v \in Worker : v # w /\ Creates(busy'[v]) => busy'[v].request # begun + 1
      BY <1>1, <1>2
    <2> QED
      BY <1>1, <2>1 DEF VoidsInv, OwnPlace, Creates
  <1>6. ApprovedFirst'
    BY <1>1 DEF VoidsInv, ApprovedFirst, ApprovedOf
  <1> QED
    BY <1>1, <1>4, <1>5, <1>6 DEF VoidsInv, DecisionsKept

\* A request is written that was not decided: made, or reviewed.
LEMMA WritingRequest ==
    ASSUME VoidsInv, RowsTyped', NEW w \in Worker, Commit(w), NEW r \in Request,
           \A q \in Request : q # r => voidRequests'[q] = voidRequests[q],
           voidRequests[r].status \notin {"APPROVED", "REJECTED"},
           \/ voidRequests[r].status = "PENDING"
           \/ Creates(busy[w]) /\ busy[w].request = r
    PROVE  VoidsInv' /\ DecisionsKept
  <1>1. /\ busy'[w] = NoCommand /\ UNCHANGED begun
        /\ \A v \in Worker : v # w => busy'[v] = busy[v]
    BY Freeing DEF Commit, VoidsInv
  <1>2. \A v \in Worker : Creates(busy'[v]) => v # w /\ Creates(busy[v]) /\ busy'[v] = busy[v]
    BY <1>1 DEF Creates, NoCommand
  <1>3. ASSUME NEW v \in Worker, v # w, Creates(busy[v])
        PROVE  busy[v].request # r /\ busy[v].request \in Request
    BY <1>3, CreatesRequest DEF VoidsInv, Unwritten, OwnPlace
  <1>4. r <= begun
    <2>1. CASE voidRequests[r].status = "PENDING"
      BY <2>1, SaleOrderAssumption DEF VoidsInv, Unwritten, RowsTyped, Request
    <2>2. CASE Creates(busy[w]) /\ busy[w].request = r
      BY <2>2 DEF VoidsInv, Unwritten
    <2> QED
      BY <2>1, <2>2
  <1>5. Unwritten'
    <2>1. \A q \in Request : q > begun' => voidRequests'[q].status = "NONE"
      BY <1>1, <1>4, SaleOrderAssumption DEF VoidsInv, Unwritten, RowsTyped, Request
    <2>2. ASSUME NEW v \in Worker, Creates(busy'[v])
          PROVE  busy'[v].request <= begun' /\ voidRequests'[busy'[v].request].status = "NONE"
      BY <1>1, <1>2, <1>3, <2>2 DEF VoidsInv, Unwritten
    <2> QED
      BY <2>1, <2>2 DEF Unwritten, Creates
  <1>6. OwnPlace'
    BY <1>2 DEF VoidsInv, OwnPlace, Creates
  <1>7. DecisionsKept
    BY DEF DecisionsKept
  <1>8. ApprovedFirst'
    <2>1. ASSUME NEW v \in Worker, busy'[v].do = "executeVoid", ~busy'[v].solo
          PROVE  ApprovedOf(busy[v].sale)'
      <3>1. busy'[v] = busy[v]
        BY <1>1, <2>1 DEF NoCommand
      <3>2. ApprovedOf(busy[v].sale)
        BY <2>1, <3>1 DEF VoidsInv, ApprovedFirst
      <3> QED
        BY <1>7, <3>1, <3>2 DEF ApprovedOf, DecisionsKept
    <2> QED
      BY <2>1 DEF ApprovedFirst
  <1> QED
    BY <1>5, <1>6, <1>7, <1>8 DEF VoidsInv

LEMMA LatestIsApproved ==
    ASSUME NEW o \in Order, LatestApproved(o)
    PROVE  ApprovedOf(o)
  <1>1. /\ VoidRequestsOf(o) \in SUBSET Nat /\ VoidRequestsOf(o) # {} /\ MaxVoidRequests \in Nat
        /\ \A r \in VoidRequestsOf(o) : r <= MaxVoidRequests
    BY SaleOrderAssumption DEF LatestApproved, VoidRequestsOf, Request
  <1>2. Max(VoidRequestsOf(o)) \in VoidRequestsOf(o)
    BY <1>1, MaxIsGreatest
  <1> QED
    BY <1>2 DEF LatestApproved, VoidRequestsOf, ApprovedOf

LEMMA VoidsStep ==
    ASSUME VoidsInv, [Next]_vars
    PROVE  VoidsInv' /\ DecisionsKept
  <1>1. RowsTyped' /\ busy \in [Worker -> Command]
    BY RowsStay DEF VoidsInv, RowsTyped
  <1>2. CASE UNCHANGED <<voidRequests, begun, busy>>
    BY <1>1, <1>2, VoidsKept
  <1>3. ASSUME NEW w \in Worker, busy' = [busy EXCEPT ![w] = NoCommand],
               UNCHANGED <<voidRequests, begun>>
        PROVE  VoidsInv' /\ DecisionsKept
    <2>1. busy'[w] = NoCommand /\ \A v \in Worker : v # w => busy'[v] = busy[v]
      BY <1>1, <1>3
    <2> QED
      BY <1>1, <1>3, <2>1, VoidsKept DEF Creates, NoCommand
  <1>4. ASSUME NEW w \in Worker, NEW k \in Command, Begin(w, k), UNCHANGED begun, ~Creates(k),
               k.do = "executeVoid" /\ ~k.solo => ApprovedOf(k.sale)
        PROVE  VoidsInv' /\ DecisionsKept
    <2>1. /\ busy'[w] = k /\ UNCHANGED voidRequests
          /\ \A v \in Worker : v # w => busy'[v] = busy[v]
      BY <1>1, <1>4 DEF Begin, tables
    <2> QED
      BY <1>1, <1>4, <2>1, VoidsKept
  <1>5. ASSUME NEW w \in Worker, ClaimStep(w) PROVE VoidsInv' /\ DecisionsKept
    <2>1. ASSUME NEW o \in Order, NEW c \in Claim, NEW u \in Upload, NEW exact \in BOOLEAN,
                 BeginCreateClaim(w, o, c, u, exact)
          PROVE  VoidsInv' /\ DecisionsKept
      <3>1. [do |-> "createClaim", order |-> o, claim |-> c, proof |-> u, exact |-> exact] \in Command
        BY DEF Command
      <3> QED
        BY <1>4, <2>1, <3>1 DEF BeginCreateClaim, Creates
    <2>2. ASSUME NEW c \in Claim, BeginApproveClaim(w, c) \/ BeginRejectClaim(w, c)
          PROVE  VoidsInv' /\ DecisionsKept
      <3>1. /\ [do |-> "approveClaim", claim |-> c] \in Command
            /\ [do |-> "rejectClaim", claim |-> c] \in Command
        BY DEF Command
      <3> QED
        BY <1>4, <2>2, <3>1 DEF BeginApproveClaim, BeginRejectClaim, Creates
    <2>3. CASE CommitCreateClaim(w) \/ CommitApproveClaim(w) \/ CommitRejectClaim(w)
      BY <1>3, <2>3 DEF CommitCreateClaim, CommitApproveClaim, CommitRejectClaim, Commit
    <2> QED
      BY <1>5, <2>1, <2>2, <2>3 DEF ClaimStep
  <1>6. ASSUME NEW w \in Worker, VoidStep(w) PROVE VoidsInv' /\ DecisionsKept
    <2>1. ASSUME NEW o \in Order, BeginRequestVoid(w, o)
          PROVE  VoidsInv' /\ DecisionsKept
      <3> DEFINE k == [do |-> "requestVoid", sale |-> o, request |-> begun + 1]
      <3>1. BeginAt(w, k) /\ k.do = "requestVoid" /\ k.request = begun + 1
        BY <2>1 DEF BeginRequestVoid
      <3>2. k \in Command
        BY <3>1, SaleOrderAssumption DEF Command, BeginAt, Request, VoidsInv, RowsTyped
      <3> HIDE DEF k
      <3> QED
        BY <1>1, <3>1, <3>2, TakingPlace
    <2>2. ASSUME NEW o \in Order, BeginExecuteVoid(w, o)
          PROVE  VoidsInv' /\ DecisionsKept
      <3>1. CASE /\ workforce => LatestApproved(o)
                 /\ Begin(w, [do |-> "executeVoid", sale |-> o, solo |-> ~workforce, request |-> None])
                 /\ UNCHANGED begun
        <4> DEFINE k == [do |-> "executeVoid", sale |-> o, solo |-> ~workforce, request |-> None]
        <4>1. k \in Command /\ ~Creates(k) /\ k.sale = o
          BY DEF Command, Creates
        <4>2. ~k.solo => ApprovedOf(o)
          BY <3>1, LatestIsApproved DEF VoidsInv, RowsTyped
        <4>3. Begin(w, k) /\ UNCHANGED begun
          BY <3>1
        <4> HIDE DEF k
        <4> QED
          BY <1>4, <4>1, <4>2, <4>3
      <3>2. CASE BeginAt(w, [do |-> "executeVoid", sale |-> o, solo |-> TRUE, request |-> begun + 1])
        <4> DEFINE k == [do |-> "executeVoid", sale |-> o, solo |-> TRUE, request |-> begun + 1]
        <4>1. BeginAt(w, k) /\ k.request = begun + 1 /\ k.solo
          BY <3>2
        <4>2. k \in Command
          BY <4>1, SaleOrderAssumption DEF Command, BeginAt, Request, VoidsInv, RowsTyped
        <4> HIDE DEF k
        <4> QED
          BY <1>1, <4>1, <4>2, TakingPlace
      <3> QED
        BY <2>2, <3>1, <3>2 DEF BeginExecuteVoid
    <2>3. ASSUME NEW o \in Order, NEW verdict \in {"approveVoid", "rejectVoid"},
                 BeginReviewVoid(w, o, verdict)
          PROVE  VoidsInv' /\ DecisionsKept
      <3>1. PICK r \in PendingVoid(o) :
              Begin(w, [do |-> verdict, sale |-> o, request |-> r]) /\ UNCHANGED begun
        BY <2>3 DEF BeginReviewVoid
      <3>2. [do |-> verdict, sale |-> o, request |-> r] \in Command
        BY DEF Command, PendingVoid, VoidRequestsOf
      <3> QED
        BY <1>4, <3>1, <3>2 DEF Creates
    <2>4. CASE CommitRequestVoid(w)
      <3>1. /\ Creates(busy[w]) /\ Commit(w)
            /\ voidRequests' = VoidRequestCreated(busy[w].request, busy[w].sale, "PENDING")
        BY <2>4 DEF CommitRequestVoid, Creates
      <3>2. PICK r \in Request : r = busy[w].request
        BY <3>1, CreatesRequest DEF VoidsInv
      <3>3. voidRequests[r].status = "NONE"
        BY <3>1, <3>2 DEF VoidsInv, Unwritten
      <3>4. \A q \in Request : q # r => voidRequests'[q] = voidRequests[q]
        BY <3>1, <3>2 DEF VoidRequestCreated, VoidsInv, RowsTyped
      <3> QED
        BY <1>1, <3>1, <3>2, <3>3, <3>4, WritingRequest
    <2>5. CASE CommitExecuteVoid(w)
      <3>1. CASE busy[w].request = None
        BY <1>3, <2>5, <3>1 DEF CommitExecuteVoid, Commit
      <3>2. CASE busy[w].request # None
        <4>1. /\ Creates(busy[w]) /\ Commit(w)
              /\ voidRequests' = VoidRequestCreated(busy[w].request, busy[w].sale, "APPROVED")
          BY <2>5, <3>2 DEF CommitExecuteVoid, Creates
        <4>2. PICK r \in Request : r = busy[w].request
          BY <4>1, CreatesRequest DEF VoidsInv
        <4>3. voidRequests[r].status = "NONE"
          BY <4>1, <4>2 DEF VoidsInv, Unwritten
        <4>4. \A q \in Request : q # r => voidRequests'[q] = voidRequests[q]
          BY <4>1, <4>2 DEF VoidRequestCreated, VoidsInv, RowsTyped
        <4> QED
          BY <1>1, <4>1, <4>2, <4>3, <4>4, WritingRequest
      <3> QED
        BY <3>1, <3>2
    <2>6. ASSUME NEW verdict \in {"approveVoid", "rejectVoid"}, NEW status,
                 CommitReviewVoid(w, verdict, status)
          PROVE  VoidsInv' /\ DecisionsKept
      <3>1. PICK r \in Request : r = busy[w].request
        BY <2>6, CommandFields DEF CommitReviewVoid, VoidsInv, RowsTyped
      <3>2. /\ voidRequests[r].status = "PENDING" /\ Commit(w)
            /\ voidRequests' = VoidRequestResolved(r, status)
        BY <2>6, <3>1 DEF CommitReviewVoid, Reviewable
      <3>3. \A q \in Request : q # r => voidRequests'[q] = voidRequests[q]
        BY <3>2 DEF VoidRequestResolved, VoidsInv, RowsTyped
      <3> QED
        BY <1>1, <3>2, <3>3, WritingRequest
    <2> QED
      BY <1>6, <2>1, <2>2, <2>3, <2>4, <2>5, <2>6 DEF VoidStep
  <1>7. ASSUME NEW w \in Worker, Abort(w) PROVE VoidsInv' /\ DecisionsKept
    BY <1>3, <1>7 DEF Abort, tables
  <1> QED
    BY <1>2, <1>5, <1>6, <1>7 DEF Next, PlaceOrder, DirectCheckout, SwitchWorkforce, tables, vars

LEMMA VoidsInit == Init => VoidsInv
  BY SalesInit DEF Init, SalesInv, VoidsInv, Unwritten, OwnPlace, ApprovedFirst, Creates, NoCommand

-----------------------------------------------------------------------------
\* What each command does to the sales that are finalized: only a void ends one.
LEMMA VoidsOnly ==
    ASSUME SalesInv, [Next]_vars, NEW o \in Order,
           sales[o].status = "FINALIZED", sales'[o].status # "FINALIZED"
    PROVE  \E w \in Worker : CommitExecuteVoid(w) /\ busy[w].sale = o
  <1>1. CASE UNCHANGED sales
    BY <1>1
  <1>2. ASSUME NEW p \in Order, NEW method \in {"CASH", "KHQR"}, DirectCheckout(p, method)
        PROVE  FALSE
    <2>1. sales' = SaleFinalized(p, SaleCreated(p, method))
      BY <1>2 DEF DirectCheckout, MaterializeDirectCheckout
    <2> QED
      BY <2>1, Selling DEF SalesInv
  <1>3. ASSUME NEW w \in Worker, CommitApproveClaim(w)
        PROVE  FALSE
    <2>1. PICK p \in Order : sales' = SaleFinalized(p, SaleCreated(p, "KHQR"))
      BY <1>3, CommandFields DEF CommitApproveClaim, SalesInv, RowsTyped, Resolvable
    <2> QED
      BY <2>1, Selling DEF SalesInv
  <1>4. ASSUME NEW w \in Worker, CommitExecuteVoid(w)
        PROVE  busy[w].sale = o
    <2>1. busy[w].sale \in Order /\ sales' = SaleVoided(busy[w].sale, SaleVoidPending(busy[w].sale))
      BY <1>4, CommandFields DEF CommitExecuteVoid, SalesInv, RowsTyped
    <2> QED
      BY <2>1, Voiding DEF SalesInv
  <1>5. CASE \E w \in Worker : CommitExecuteVoid(w)
    BY <1>4, <1>5
  <1> QED
    BY <1>1, <1>2, <1>3, <1>5
       DEF Next, vars, tables, PlaceOrder, SwitchWorkforce, Abort, ClaimStep, VoidStep,
           BeginCreateClaim, BeginApproveClaim, BeginRejectClaim, CommitCreateClaim,
           CommitRejectClaim, BeginRequestVoid, BeginExecuteVoid, BeginReviewVoid, BeginAt, Begin,
           CommitRequestVoid, CommitReviewVoid

\* Where several people work, a sale is voided only with an approved request, whatever
\* was reviewed, requested or switched since the request was read; and no KHQR sale is
\* (saleOrder/app/service.ts: executeVoid).
THEOREM VoidsStayApproved == Spec => VoidsAreApproved
  <1> DEFINE Voids ==
        \A o \in Order :
            sales[o].status = "FINALIZED" /\ sales'[o].status # "FINALIZED" =>
                /\ sales[o].method = "CASH"
                /\ \/ \E r \in VoidRequestsOf(o) : voidRequests[r].status = "APPROVED"
                   \/ \E w \in Worker : busy[w] # busy'[w] /\ busy[w].solo
  <1>1. ASSUME SalesInv, VoidsInv, [Next]_vars PROVE Voids
    <2> SUFFICES ASSUME NEW o \in Order,
                        sales[o].status = "FINALIZED", sales'[o].status # "FINALIZED"
                 PROVE  /\ sales[o].method = "CASH"
                        /\ \/ \E r \in VoidRequestsOf(o) : voidRequests[r].status = "APPROVED"
                           \/ \E w \in Worker : busy[w] # busy'[w] /\ busy[w].solo
      OBVIOUS
    <2>1. PICK w \in Worker : CommitExecuteVoid(w) /\ busy[w].sale = o
      BY <1>1, VoidsOnly
    <2>2. busy[w].do = "executeVoid" /\ busy'[w] = NoCommand /\ busy[w] # NoCommand
      <3>1. busy[w].do = "executeVoid" /\ busy' = [busy EXCEPT ![w] = NoCommand]
        BY <2>1 DEF CommitExecuteVoid, Commit
      <3>2. busy'[w] = NoCommand
        BY <1>1, <3>1, Freeing DEF VoidsInv
      <3>3. NoCommand.do # "executeVoid"
        BY DEF NoCommand
      <3> QED
        BY <3>1, <3>2, <3>3
    <2>3. sales[o].method = "CASH"
      BY <1>1, <2>1, <2>2 DEF SalesInv, CashIsVoided
    <2>4. CASE busy[w].solo
      BY <2>2, <2>3, <2>4
    <2>5. CASE ~busy[w].solo
      <3>1. ApprovedOf(o)
        BY <1>1, <2>1, <2>2, <2>5 DEF VoidsInv, ApprovedFirst
      <3> QED
        BY <2>3, <3>1 DEF ApprovedOf, VoidRequestsOf
    <2> QED
      BY <2>4, <2>5
  <1>2. Init => SalesInv /\ VoidsInv
    BY SalesInit, VoidsInit
  <1>3. SalesInv /\ VoidsInv /\ [Next]_vars => SalesInv' /\ VoidsInv'
    BY SalesStep, VoidsStep
  <1>4. SalesInv /\ VoidsInv /\ [Next]_vars => [Voids]_vars
    BY <1>1
  <1>5. Spec => [][Voids]_vars
    BY <1>2, <1>3, <1>4, PTL DEF Spec
  <1> QED
    BY <1>5 DEF VoidsAreApproved

\* A claim that was decided is not written again.
LEMMA ClaimsKept ==
    ASSUME RowsTyped, [Next]_vars, NEW c \in Claim, claims[c].status \in {"APPROVED", "REJECTED"}
    PROVE  claims'[c] = claims[c]
  <1>1. CASE UNCHANGED claims
    BY <1>1
  <1>2. ASSUME NEW w \in Worker,
               CommitCreateClaim(w) \/ CommitApproveClaim(w) \/ CommitRejectClaim(w)
        PROVE  claims'[c] = claims[c]
    <2>1. busy[w].claim \in Claim /\ claims[busy[w].claim].status \in {"NONE", "PENDING"}
      BY <1>2, CommandFields DEF CommitCreateClaim, CommitApproveClaim, CommitRejectClaim,
                                 Resolvable, RowsTyped
    <2>2. \A d \in Claim : d # busy[w].claim => claims'[d] = claims[d]
      BY <1>2, <2>1 DEF CommitCreateClaim, CommitApproveClaim, CommitRejectClaim, ClaimCreated,
                        ClaimResolved, RowsTyped
    <2> QED
      BY <2>1, <2>2
  <1> QED
    BY <1>1, <1>2
       DEF Next, vars, tables, PlaceOrder, DirectCheckout, SwitchWorkforce, Abort, ClaimStep,
           VoidStep, BeginCreateClaim, BeginApproveClaim, BeginRejectClaim, BeginRequestVoid,
           BeginExecuteVoid, BeginReviewVoid, BeginAt, Begin, CommitRequestVoid, CommitReviewVoid,
           CommitExecuteVoid

\* What a reviewer has decided, of a claim or of a void, is never decided again by a
\* slower reviewer, nor written over by a new request (resolveManualPaymentClaim,
\* resolveVoidRequest, createVoidRequest in saleOrder/infra/repository.ts).
THEOREM ReviewsStay == Spec => ReviewIsFinal
  <1> DEFINE Final ==
        /\ \A c \in Claim : claims[c].status \in {"APPROVED", "REJECTED"} => claims'[c] = claims[c]
        /\ \A r \in Request : voidRequests[r].status \in {"APPROVED", "REJECTED"}
                                => voidRequests'[r] = voidRequests[r]
  <1>1. VoidsInv /\ [Next]_vars => [Final]_vars
    BY VoidsStep, ClaimsKept DEF VoidsInv, DecisionsKept
  <1>2. VoidsInv /\ [Next]_vars => VoidsInv'
    BY VoidsStep
  <1>3. Init => VoidsInv
    BY VoidsInit
  <1>4. Spec => [][Final]_vars
    BY <1>1, <1>2, <1>3, PTL DEF Spec
  <1> QED
    BY <1>4 DEF ReviewIsFinal

\* Every row holds what its columns allow, and every command what it has read.
THEOREM TypesStay == Spec => []TypeOK
  <1>1. Init => SalesInv
    BY SalesInit
  <1>2. SalesInv /\ [Next]_vars => SalesInv'
    BY SalesStep
  <1>3. Init => ProofsAreUploads /\ MInv
    BY MediaStart DEF Init, ProofsAreUploads, NoCommand
  <1>4. ProofsAreUploads /\ MInv /\ [Next]_vars => ProofsAreUploads' /\ MInv'
    BY MediaStays
  <1>5. SalesInv /\ MInv => TypeOK
    BY DEF SalesInv, RowsTyped, MInv, TypeOK
  <1> QED
    BY <1>1, <1>2, <1>3, <1>4, <1>5, PTL DEF Spec
=============================================================================
