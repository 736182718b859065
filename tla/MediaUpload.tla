----------------------------- MODULE MediaUpload -----------------------------
(***************************************************************************)
(* Images: an object in the bucket and a row that says what has become of  *)
(* it.  An upload is PENDING until a command refers to its URL and links   *)
(* it; the cleanup of each server process claims the old PENDING ones,     *)
(* deletes their objects one by one, and marks the rows.  Claim, deletion  *)
(* and mark are separate statements, each of which may fail, and the       *)
(* process may die between them.                                           *)
(***************************************************************************)
EXTENDS FiniteSets, Naturals

CONSTANTS
    Upload,            \* images a client may upload
    Cleaner,           \* server processes, each with its cleanup timer
    CleanupBatch,      \* how many uploads a tick claims at most
    MaxMediaFaults     \* bound on failing statements and crashes

VARIABLES
    uploads,      \* v0_media_uploads: the status of each row, or that there is none
    objects,      \* uploads whose object is in the bucket
    old,          \* uploads past pendingAgeMinutes
    claimed,      \* what the tick of each process has claimed and not finished
    deleting,     \* the upload each process works on, and which statement is next
    mediaFaults,
    linkedInTime  \* history: linked while PENDING, with the object still there

mediaVars == <<uploads, objects, old, claimed, deleting, mediaFaults, linkedInTime>>

-----------------------------------------------------------------------------
UploadStatus == {"NONE", "PENDING", "PENDING_DELETE", "LINKED", "DELETED"}

NoUpload == [upload |-> {}, next |-> "none"]
Work == [upload : {{u} : u \in Upload}, next : {"delete", "markDeleted", "markPending"}]
        \cup {NoUpload}

MediaTypeOK ==
    /\ uploads \in [Upload -> UploadStatus]
    /\ objects \subseteq Upload /\ old \subseteq Upload /\ linkedInTime \subseteq Upload
    /\ claimed \in [Cleaner -> SUBSET Upload] /\ deleting \in [Cleaner -> Work]
    /\ mediaFaults \in 0..MaxMediaFaults

MediaInit ==
    /\ uploads = [u \in Upload |-> "NONE"]
    /\ objects = {} /\ old = {} /\ linkedInTime = {}
    /\ claimed = [p \in Cleaner |-> {}] /\ deleting = [p \in Cleaner |-> NoUpload]
    /\ mediaFaults = 0

Fails == mediaFaults < MaxMediaFaults /\ mediaFaults' = mediaFaults + 1

-----------------------------------------------------------------------------
\* uploadTenantImage: the object is put, then the row inserted.  When the insert
\* fails the object has no row, and the client never learns its URL.
PutObject(u) ==
    /\ uploads[u] = "NONE" /\ u \notin objects
    /\ objects' = objects \cup {u}
    /\ \/ uploads' = [uploads EXCEPT ![u] = "PENDING"] /\ UNCHANGED mediaFaults
       \/ Fails /\ UNCHANGED uploads
    /\ UNCHANGED <<old, claimed, deleting, linkedInTime>>

Age(u) ==
    /\ uploads[u] = "PENDING" /\ u \notin old
    /\ old' = old \cup {u}
    /\ UNCHANGED <<uploads, objects, claimed, deleting, mediaFaults, linkedInTime>>

\* markLinkedUploadByReference.  The command goes on whether or not a row is linked.
Linkable(u) == uploads[u] \in {"PENDING", "PENDING_DELETE"}

LinkUpload(u) ==
    /\ uploads' = IF Linkable(u) THEN [uploads EXCEPT ![u] = "LINKED"] ELSE uploads
    /\ linkedInTime' = IF uploads[u] = "PENDING" /\ u \in objects
                       THEN linkedInTime \cup {u} ELSE linkedInTime
    /\ UNCHANGED <<objects, old, claimed, deleting, mediaFaults>>

-----------------------------------------------------------------------------
\* claimStalePendingUploads: one statement of its own, committed before any object
\* is deleted; tickInFlight keeps a process from a second tick.
\* Mutant: the claim asks for the age and not for the status.
StaleAnyStatus == {u \in Upload : uploads[u] \in {"PENDING", "LINKED"}} \cap old
\* Mutant: uploads that are claimed once are left to the others for good.
StaleUntouched == {u \in old : uploads[u] = "PENDING" /\ u \in objects}
Stale == {u \in old : uploads[u] = "PENDING"}

Idle(p) == claimed[p] = {} /\ deleting[p] = NoUpload

ClaimStalePendingUploads(p) ==
    /\ Idle(p) /\ Stale # {}
    /\ \E batch \in SUBSET Stale :
        /\ batch # {}
        /\ Cardinality(batch) <= CleanupBatch
        /\ Cardinality(batch) < CleanupBatch => batch = Stale
        /\ uploads' = [u \in Upload |-> IF u \in batch THEN "PENDING_DELETE" ELSE uploads[u]]
        /\ claimed' = [claimed EXCEPT ![p] = batch]
    /\ UNCHANGED <<objects, old, deleting, mediaFaults, linkedInTime>>

TakeNext(p) ==
    /\ deleting[p] = NoUpload
    /\ \E u \in claimed[p] :
        /\ claimed' = [claimed EXCEPT ![p] = @ \ {u}]
        /\ deleting' = [deleting EXCEPT ![p] = [upload |-> {u}, next |-> "delete"]]
    /\ UNCHANGED <<uploads, objects, old, mediaFaults, linkedInTime>>

Goes(p, next) == deleting' = [deleting EXCEPT ![p].next = next]

\* deleteObjectFromR2.  A failure may be that of the answer alone.
DeleteObject(p) ==
    /\ deleting[p].next = "delete"
    /\ \/ objects' = objects \ deleting[p].upload /\ Goes(p, "markDeleted") /\ UNCHANGED mediaFaults
       \/ objects' \in {objects, objects \ deleting[p].upload} /\ Fails /\ Goes(p, "markPending")
    /\ UNCHANGED <<uploads, old, claimed, linkedInTime>>

Marked(p, status) ==
    [u \in Upload |-> IF u \in deleting[p].upload THEN status ELSE uploads[u]]

\* markDeleted and markPending look at the id of the row only.
MarkDeleted(p) ==
    /\ deleting[p].next = "markDeleted"
    /\ \/ /\ uploads' = Marked(p, "DELETED")
          /\ deleting' = [deleting EXCEPT ![p] = NoUpload]
          /\ UNCHANGED mediaFaults
       \/ uploads' \in {uploads, Marked(p, "DELETED")} /\ Fails /\ Goes(p, "markPending")
    /\ UNCHANGED <<objects, old, claimed, linkedInTime>>

\* What markPending throws ends the tick: the rest of the batch is forgotten.
MarkPending(p) ==
    /\ deleting[p].next = "markPending"
    /\ deleting' = [deleting EXCEPT ![p] = NoUpload]
    /\ \/ uploads' = Marked(p, "PENDING") /\ UNCHANGED <<claimed, mediaFaults>>
       \/ /\ uploads' \in {uploads, Marked(p, "PENDING")}
          /\ claimed' = [claimed EXCEPT ![p] = {}]
          /\ Fails
    /\ UNCHANGED <<objects, old, linkedInTime>>

Tick(p) ==
    ClaimStalePendingUploads(p) \/ TakeNext(p)
    \/ DeleteObject(p) \/ MarkDeleted(p) \/ MarkPending(p)

CrashCleaner(p) ==
    /\ ~Idle(p) /\ Fails
    /\ claimed' = [claimed EXCEPT ![p] = {}]
    /\ deleting' = [deleting EXCEPT ![p] = NoUpload]
    /\ UNCHANGED <<uploads, objects, old, linkedInTime>>

MediaStep ==
    \/ \E u \in Upload : PutObject(u) \/ Age(u)
    \/ \E p \in Cleaner : Tick(p) \/ CrashCleaner(p)

-----------------------------------------------------------------------------
\* An image that a command linked while its row was PENDING and its object there
\* keeps both: no cleanup that began before, and none that begins later, takes it.
LinkedInTimeIsKept == \A u \in linkedInTime : uploads[u] = "LINKED" /\ u \in objects

\* Claimed by a tick that no longer runs: no later tick claims it (see the README).
Stranded(u) ==
    /\ uploads[u] = "PENDING_DELETE"
    /\ \A p \in Cleaner : u \notin claimed[p] \cup deleting[p].upload

\* An old upload nobody links is deleted in the end, and its object with it, although
\* statements fail and processes die, unless a dead tick left it claimed.
OrphanIsCleaned ==
    \A u \in Upload :
        (uploads[u] = "PENDING" /\ u \in old)
            ~> \/ uploads[u] = "LINKED" \/ Stranded(u)
               \/ uploads[u] = "DELETED" /\ u \notin objects
=============================================================================
