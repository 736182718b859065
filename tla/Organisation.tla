---------------------------- MODULE Organisation ----------------------------
(***************************************************************************)
(* One tenant: who belongs to it and which branches each member works in.  *)
(* The membership is one table and what follows from it (the staff         *)
(* profile, the branch assignments, those waiting for an invitation to be  *)
(* accepted) are others: a command checks first and writes later, in one   *)
(* transaction, and only the rows it updates are locked in between.        *)
(***************************************************************************)
CONSTANTS
    Account,
    Branch,            \* the tenant's active branches
    Clerk,             \* transactions under way
    Nobody

ASSUME OrgAssumption == Nobody \notin Account

VARIABLES
    memberships,  \* v0_tenant_memberships of the tenant, by account
    profiles,     \* v0_staff_profiles: status
    assignments,  \* v0_branch_assignments: the ACTIVE ones
    pending,      \* v0_membership_pending_branch_assignments
    clerks,     \* the transactions: what they have read and do next
    outrun     \* history: memberships that changed between a check and its write

orgVars == <<memberships, profiles, assignments, pending, clerks, outrun>>
staff == <<profiles, assignments, pending>>

-----------------------------------------------------------------------------
PrivilegedRole == {"OWNER", "ADMIN"}
AssignableRole == {"ADMIN", "CASHIER"}
MembershipStatus == {"NONE", "INVITED", "ACTIVE", "REVOKED"}
Step == {"idle", "invite", "accept", "activate", "reject", "role", "revoke", "assign",
         "open"}

Idle == [step |-> "idle", of |-> Nobody, role |-> "CASHIER", set |-> {}, seen |-> "NONE"]

OrgTypeOK ==
    /\ memberships \in [Account -> [status : MembershipStatus, role : AssignableRole \cup {"OWNER"}]]
    /\ profiles \in [Account -> {"NONE", "ACTIVE", "REVOKED"}]
    /\ assignments \in [Account -> SUBSET Branch]
    /\ pending \in [Account -> SUBSET Branch]
    /\ clerks \in [Clerk -> [step : Step, of : Account \cup {Nobody},
                               role : AssignableRole, set : SUBSET Branch, seen : MembershipStatus]]
    /\ outrun \subseteq Account

OrgInit ==
    /\ memberships = [a \in Account |-> [status |-> "NONE", role |-> "CASHIER"]]
    /\ profiles = [a \in Account |-> "NONE"]
    /\ assignments = [a \in Account |-> {}]
    /\ pending = [a \in Account |-> {}]
    /\ clerks = [c \in Clerk |-> Idle]
    /\ outrun = {}

-----------------------------------------------------------------------------
\* Row updates, and what a statement waits for.
Member(a) == memberships[a].status = "ACTIVE"
Privileged(a) == Member(a) /\ memberships[a].role \in PrivilegedRole

SetMembership(a, status, role) ==
    memberships' = [memberships EXCEPT ![a] = [status |-> status, role |-> role]]

\* The row stays locked from the UPDATE of an acceptance to its commit.
MembershipFree(a) == \A c \in Clerk : clerks[c].step = "activate" => clerks[c].of # a

Check(c, request) ==
    /\ clerks[c] = Idle
    /\ clerks' = [clerks EXCEPT ![c] = request]
    /\ UNCHANGED <<memberships, staff, outrun>>

Done(c) == clerks' = [clerks EXCEPT ![c] = Idle]

RefuseRequest(c) == Done(c) /\ UNCHANGED <<memberships, staff, outrun>>

\* ensureStaffProfileForMembership and upsertActiveBranchAssignmentsForMembership.
\* Mutant: the branches alone.
AssignWithoutProfile(a, set) ==
    /\ assignments' = [assignments EXCEPT ![a] = @ \cup set]
    /\ UNCHANGED profiles
EnsureStaff(a, set) ==
    /\ profiles' = [profiles EXCEPT ![a] = "ACTIVE"]
    /\ assignments' = [assignments EXCEPT ![a] = @ \cup set]

-----------------------------------------------------------------------------
\* createTenant: the tenant, its owner's membership and the owner's staff profile.
ProvisionTenant(a) ==
    /\ \A b \in Account : memberships[b].status = "NONE"
    /\ SetMembership(a, "ACTIVE", "OWNER")
    /\ EnsureStaff(a, {})
    /\ UNCHANGED <<pending, clerks, outrun>>

\* inviteMembership, in two steps: the checks, and the upsert.
CheckInvite(c, a, role) ==
    /\ \E by \in Account : Privileged(by)
    /\ ~Member(a)
    /\ Check(c, [Idle EXCEPT !.step = "invite", !.of = a, !.role = role])

UpsertInvitedMembership(c) ==
    LET a == clerks[c].of IN
    /\ clerks[c].step = "invite" /\ MembershipFree(a)
    /\ SetMembership(a, "INVITED", clerks[c].role)
    /\ outrun' = IF Member(a) THEN outrun \cup {a} ELSE outrun
    /\ Done(c) /\ UNCHANGED staff

\* acceptInvitation and rejectInvitation: the check, and the UPDATE that repeats it.
CheckAnswer(c, a, answer) ==
    /\ memberships[a].status = "INVITED"
    /\ Check(c, [Idle EXCEPT !.step = answer, !.of = a])

\* The branches that wait are read between the UPDATE and the commit.
AcceptInvitation(c) ==
    LET a == clerks[c].of IN
    /\ clerks[c].step = "accept" /\ MembershipFree(a)
    /\ \/ /\ memberships[a].status = "INVITED"
          /\ clerks' = [clerks EXCEPT ![c].step = "activate", ![c].set = pending[a]]
          /\ UNCHANGED <<memberships, staff, outrun>>
       \/ memberships[a].status # "INVITED" /\ RefuseRequest(c)

\* activateMembershipBranchAssignments, and COMMIT.
ActivateAssignments(c) ==
    LET a == clerks[c].of
        set == clerks[c].set
    IN  /\ clerks[c].step = "activate"
        /\ SetMembership(a, "ACTIVE", memberships[a].role)
        /\ EnsureStaff(a, set)
        /\ pending' = IF set = {} THEN pending ELSE [pending EXCEPT ![a] = {}]
        /\ Done(c) /\ UNCHANGED outrun

RejectInvitation(c) ==
    LET a == clerks[c].of IN
    /\ clerks[c].step = "reject" /\ MembershipFree(a)
    /\ \/ /\ memberships[a].status = "INVITED"
          /\ SetMembership(a, "REVOKED", memberships[a].role)
          /\ Done(c) /\ UNCHANGED <<staff, outrun>>
       \/ memberships[a].status # "INVITED" /\ RefuseRequest(c)

\* changeMembershipRole.
Changeable(a) == memberships[a].status # "NONE" /\ memberships[a].role # "OWNER"

CheckRole(c, a, role) ==
    /\ Changeable(a) /\ \E by \in Account : Privileged(by)
    /\ Check(c, [Idle EXCEPT !.step = "role", !.of = a, !.role = role])

UpdateMembershipRole(c) ==
    LET a == clerks[c].of IN
    /\ clerks[c].step = "role" /\ MembershipFree(a)
    /\ SetMembership(a, memberships[a].status, clerks[c].role)
    /\ Done(c) /\ UNCHANGED <<staff, outrun>>

\* revokeMembership: any membership of somebody else, and what follows from it.
CheckRevoke(c, a) ==
    /\ Changeable(a) /\ \E by \in Account \ {a} : Privileged(by)
    /\ Check(c, [Idle EXCEPT !.step = "revoke", !.of = a])

RevokeMembership(c) ==
    LET a == clerks[c].of IN
    /\ clerks[c].step = "revoke" /\ MembershipFree(a)
    /\ SetMembership(a, "REVOKED", memberships[a].role)
    /\ profiles' = [profiles EXCEPT ![a] = IF @ = "NONE" THEN @ ELSE "REVOKED"]
    /\ assignments' = [assignments EXCEPT ![a] = {}]
    /\ Done(c) /\ UNCHANGED <<pending, outrun>>

\* assignMembershipBranches writes for the status it has read.
CheckAssign(c, a, set) ==
    /\ memberships[a].status \in {"INVITED", "ACTIVE"} /\ \E by \in Account : Privileged(by)
    /\ Check(c, [Idle EXCEPT !.step = "assign", !.of = a, !.set = set,
                             !.seen = memberships[a].status])

AssignMembershipBranches(c) ==
    LET r == clerks[c] IN
    /\ r.step = "assign"
    /\ \/ /\ r.seen = "INVITED"
          /\ pending' = [pending EXCEPT ![r.of] = r.set]
          /\ UNCHANGED <<profiles, assignments>>
       \/ /\ r.seen = "ACTIVE"
          /\ EnsureStaff(r.of, r.set)
          /\ UNCHANGED pending
    /\ outrun' = IF memberships[r.of].status # r.seen THEN outrun \cup {r.of} ELSE outrun
    /\ Done(c) /\ UNCHANGED memberships

\* The membership's part in opening a branch (BranchActivation): the requester's
\* membership is read, and then the new branch assigned to it.
CheckOpen(c, a) == Member(a) /\ Check(c, [Idle EXCEPT !.step = "open", !.of = a])

AssignActiveBranch(c) ==
    LET a == clerks[c].of IN
    /\ clerks[c].step = "open"
    /\ \E b \in Branch : assignments' = [assignments EXCEPT ![a] = @ \cup {b}]
    /\ outrun' = IF Member(a) THEN outrun ELSE outrun \cup {a}
    /\ Done(c) /\ UNCHANGED <<memberships, profiles, pending>>

-----------------------------------------------------------------------------
\* The process dies, or a statement fails, before the commit.
AbandonRequest(c) == clerks[c] # Idle /\ RefuseRequest(c)

CheckStep(c) ==
    \E a \in Account :
        \/ \E role \in AssignableRole : CheckInvite(c, a, role) \/ CheckRole(c, a, role)
        \/ \E answer \in {"accept", "reject"} : CheckAnswer(c, a, answer)
        \/ CheckRevoke(c, a)
        \/ \E set \in SUBSET Branch : CheckAssign(c, a, set)
        \/ CheckOpen(c, a)

WriteStep(c) ==
    \/ UpsertInvitedMembership(c) \/ AcceptInvitation(c) \/ ActivateAssignments(c)
    \/ RejectInvitation(c) \/ UpdateMembershipRole(c) \/ RevokeMembership(c)
    \/ AssignMembershipBranches(c) \/ AssignActiveBranch(c)

OrgStep ==
    \/ \E a \in Account : ProvisionTenant(a)
    \/ \E c \in Clerk : CheckStep(c) \/ WriteStep(c) \/ AbandonRequest(c)

-----------------------------------------------------------------------------
\* The tables that follow from the membership agree with it: an active member has a
\* staff profile, and one whose membership is revoked has none and works nowhere,
\* unless a command that had read the membership before wrote after the revocation.
ProjectionFollowsMembership ==
    \A a \in Account :
        /\ memberships[a].status = "ACTIVE" => profiles[a] = "ACTIVE"
        /\ memberships[a].status = "REVOKED" /\ a \notin outrun =>
               profiles[a] # "ACTIVE" /\ assignments[a] = {}

\* A tenant that has members keeps an active owner.
OwnerRemains ==
    (\E a \in Account : memberships[a].status # "NONE") =>
        \E a \in Account : Member(a) /\ memberships[a].role = "OWNER"
=============================================================================
