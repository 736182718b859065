--------------------------- MODULE Tenancy_proofs ---------------------------
(***************************************************************************)
(* What holds of the people of a tenant, for any numbers of accounts,      *)
(* branches, requests and records.  Each part is at work alone in a step,  *)
(* so each has an inductive invariant of its own tables.                   *)
(***************************************************************************)
EXTENDS Tenancy, FiniteSetTheorems, TLAPS

-----------------------------------------------------------------------------
(* Organisation.  The owner is out of every command's reach: commands are   *)
(* checked when the tenant exists, for a membership that is not the owner's. *)
ClerksKnow ==
    \A c \in Clerk : clerks[c].step # "idle" =>
        /\ clerks[c].of \in Account
        /\ \E a \in Account : memberships[a].status # "NONE"
        /\ clerks[c].step \in {"invite", "role", "revoke"} =>
               memberships[clerks[c].of].role # "OWNER"

OwnersAreMembers == \A a \in Account : memberships[a].role = "OWNER" => Member(a)

\* What follows from a membership that is not active, whatever it has been.
ProjectionFollows ==
    \A a \in Account :
        /\ Member(a) => profiles[a] = "ACTIVE"
        /\ ~Member(a) /\ a \notin outrun => profiles[a] # "ACTIVE" /\ assignments[a] = {}

OrgInv == OrgTypeOK /\ ClerksKnow /\ OwnersAreMembers /\ ProjectionFollows /\ OwnerRemains

LEMMA OrgStarts == OrgInit => OrgInv
  BY DEF OrgInit, OrgInv, OrgTypeOK, ClerksKnow, OwnersAreMembers, ProjectionFollows,
         OwnerRemains, Member, Idle, MembershipStatus, AssignableRole, Step

\* Memberships that do not change leave a request that was checked to know its due.
LEMMA CheckKeeps ==
    ASSUME OrgInv, NEW c \in Clerk,
           NEW r \in [step : Step, of : Account, role : AssignableRole,
                      set : SUBSET Branch, seen : MembershipStatus],
           Check(c, r),
           \E a \in Account : memberships[a].status # "NONE",
           r.step \in {"invite", "role", "revoke"} => memberships[r.of].role # "OWNER"
    PROVE  OrgInv'
  <1>1. OrgTypeOK'
    BY DEF OrgInv, OrgTypeOK, Check, staff
  <1>2. ClerksKnow'
    BY DEF OrgInv, OrgTypeOK, ClerksKnow, Check
  <1>3. (OwnersAreMembers /\ ProjectionFollows /\ OwnerRemains)'
    BY DEF OrgInv, OwnersAreMembers, ProjectionFollows, OwnerRemains, Member, Check, staff
  <1> QED BY <1>1, <1>2, <1>3 DEF OrgInv

LEMMA ChecksKeepOrg ==
    ASSUME OrgInv, NEW c \in Clerk, CheckStep(c)
    PROVE  OrgInv'
  <1> USE DEF Idle, Step, MembershipStatus, AssignableRole
  <1>1. PICK a \in Account :
           \/ \E role \in AssignableRole : CheckInvite(c, a, role) \/ CheckRole(c, a, role)
           \/ \E answer \in {"accept", "reject"} : CheckAnswer(c, a, answer)
           \/ CheckRevoke(c, a)
           \/ \E set \in SUBSET Branch : CheckAssign(c, a, set)
           \/ CheckOpen(c, a)
    BY DEF CheckStep
  <1>2. memberships[a].status \in MembershipStatus
    BY DEF OrgInv, OrgTypeOK
  <1>3. ASSUME NEW role \in AssignableRole, CheckInvite(c, a, role)
        PROVE  OrgInv'
    <2>1. (\E b \in Account : memberships[b].status # "NONE") /\ memberships[a].role # "OWNER"
      BY <1>3 DEF CheckInvite, Privileged, Member, OrgInv, OwnersAreMembers
    <2> QED BY <1>3, <2>1, CheckKeeps DEF CheckInvite
  <1>4. ASSUME NEW role \in AssignableRole, CheckRole(c, a, role)
        PROVE  OrgInv'
    BY <1>4, CheckKeeps DEF CheckRole, Changeable
  <1>5. ASSUME NEW answer \in {"accept", "reject"}, CheckAnswer(c, a, answer)
        PROVE  OrgInv'
    BY <1>5, CheckKeeps DEF CheckAnswer
  <1>6. CASE CheckRevoke(c, a)
    BY <1>6, CheckKeeps DEF CheckRevoke, Changeable
  <1>7. ASSUME NEW set \in SUBSET Branch, CheckAssign(c, a, set)
        PROVE  OrgInv'
    BY <1>2, <1>7, CheckKeeps DEF CheckAssign
  <1>8. CASE CheckOpen(c, a)
    BY <1>8, CheckKeeps DEF CheckOpen, Member
  <1> QED BY <1>1, <1>3, <1>4, <1>5, <1>6, <1>7, <1>8

\* What a request of its own is reset to, or replaced by, when it has written.
LEMMA RefusalsKeepOrg ==
    ASSUME OrgInv, NEW c \in Clerk, RefuseRequest(c)
    PROVE  OrgInv'
  <1>1. OrgTypeOK'
    BY DEF OrgInv, OrgTypeOK, RefuseRequest, Done, staff, Idle, Step, MembershipStatus,
           AssignableRole
  <1>2. ClerksKnow'
    BY DEF OrgInv, OrgTypeOK, ClerksKnow, RefuseRequest, Done, Idle
  <1>3. (OwnersAreMembers /\ ProjectionFollows /\ OwnerRemains)'
    BY DEF OrgInv, OwnersAreMembers, ProjectionFollows, OwnerRemains, Member, RefuseRequest, staff
  <1> QED BY <1>1, <1>2, <1>3 DEF OrgInv

\* A command whose membership is not the owner's leaves the owner where it is.
LEMMA OrgWrites ==
    ASSUME OrgInv, NEW c \in Clerk, NEW a \in Account,
           NEW status \in MembershipStatus, NEW role \in AssignableRole \cup {"OWNER"},
           clerks[c].step # "idle", SetMembership(a, status, role), Done(c),
           status # "NONE" \/ memberships[a].status = "NONE",
           \/ role # "OWNER" /\ memberships[a].role # "OWNER"
           \/ role = memberships[a].role /\ status = "ACTIVE"
    PROVE  ClerksKnow' /\ OwnersAreMembers' /\ OwnerRemains'
  <1>1. \A b \in Account : memberships'[b] =
           IF b = a THEN [status |-> status, role |-> role] ELSE memberships[b]
    BY DEF SetMembership, OrgInv, OrgTypeOK
  <1>2. \A d \in Clerk : clerks'[d] = IF d = c THEN Idle ELSE clerks[d]
    BY DEF Done, OrgInv, OrgTypeOK
  <1>3. ClerksKnow'
    BY <1>1, <1>2 DEF OrgInv, ClerksKnow, Idle
  <1>4. OwnersAreMembers'
    BY <1>1 DEF OrgInv, OwnersAreMembers, Member
  <1>5. OwnerRemains'
    <2>1. PICK o \in Account : Member(o) /\ memberships[o].role = "OWNER"
      BY DEF OrgInv, ClerksKnow, OwnerRemains
    <2>2. memberships'[o].status = "ACTIVE" /\ memberships'[o].role = "OWNER"
      BY <1>1, <2>1 DEF Member
    <2> QED BY <2>2 DEF OwnerRemains, Member
  <1> QED BY <1>3, <1>4, <1>5

LEMMA ProvisioningKeepsOrg ==
    ASSUME OrgInv, NEW a \in Account, ProvisionTenant(a)
    PROVE  OrgInv'
  <1>1. OrgTypeOK'
    BY DEF OrgInv, OrgTypeOK, ProvisionTenant, SetMembership, EnsureStaff, MembershipStatus
  <1>2. \A c \in Clerk : clerks[c].step = "idle"
    BY DEF OrgInv, ClerksKnow, ProvisionTenant
  <1>3. ClerksKnow'
    BY <1>2 DEF ClerksKnow, ProvisionTenant
  <1>4. \A b \in Account : memberships'[b] =
           IF b = a THEN [status |-> "ACTIVE", role |-> "OWNER"] ELSE memberships[b]
    BY DEF OrgInv, OrgTypeOK, ProvisionTenant, SetMembership
  <1>5. (OwnersAreMembers /\ OwnerRemains)'
    BY <1>4 DEF OrgInv, OwnersAreMembers, OwnerRemains, Member
  <1>6. ProjectionFollows'
    BY <1>4 DEF OrgInv, OrgTypeOK, ProjectionFollows, Member, ProvisionTenant, EnsureStaff
  <1> QED BY <1>1, <1>3, <1>5, <1>6 DEF OrgInv

\* The statements that write the row of a membership.
LEMMA InvitationsKeepOrg ==
    ASSUME OrgInv, NEW c \in Clerk,
           UpsertInvitedMembership(c) \/ RejectInvitation(c) \/ UpdateMembershipRole(c)
    PROVE  OrgInv'
  <1> DEFINE a == clerks[c].of
  <1>1. a \in Account /\ clerks[c] \in [step : Step, of : Account \cup {Nobody},
              role : AssignableRole, set : SUBSET Branch, seen : MembershipStatus]
    BY DEF OrgInv, OrgTypeOK, ClerksKnow, UpsertInvitedMembership, RejectInvitation,
           UpdateMembershipRole
  <1>2. memberships[a] \in [status : MembershipStatus, role : AssignableRole \cup {"OWNER"}]
    BY <1>1 DEF OrgInv, OrgTypeOK
  <1>3. CASE UpsertInvitedMembership(c)
    <2>1. SetMembership(a, "INVITED", clerks[c].role) /\ Done(c) /\ UNCHANGED staff
          /\ outrun' = IF Member(a) THEN outrun \cup {a} ELSE outrun
      BY <1>3 DEF UpsertInvitedMembership
    <2>2. OrgTypeOK'
      BY <1>1, <2>1 DEF OrgInv, OrgTypeOK, SetMembership, Done, Idle, staff, Step,
                        MembershipStatus, AssignableRole
    <2>3. ClerksKnow' /\ OwnersAreMembers' /\ OwnerRemains'
      <3>1. memberships[a].role # "OWNER" /\ clerks[c].role # "OWNER"
            /\ clerks[c].step # "idle"
        BY <1>1, <1>3 DEF OrgInv, ClerksKnow, UpsertInvitedMembership, AssignableRole
      <3> QED BY <1>1, <2>1, <3>1, OrgWrites DEF MembershipStatus
    <2>4. ProjectionFollows'
      <3>1. \A b \in Account : memberships'[b] =
               IF b = a THEN [status |-> "INVITED", role |-> clerks[c].role] ELSE memberships[b]
        BY <1>1, <2>1 DEF OrgInv, OrgTypeOK, SetMembership
      <3>2. UNCHANGED <<profiles, assignments>>
        BY <2>1 DEF staff
      <3>3. \A b \in Account : b \notin outrun' => b \notin outrun /\ ~(b = a /\ Member(a))
        BY <2>1
      <3> QED BY <3>1, <3>2, <3>3 DEF OrgInv, ProjectionFollows, Member
    <2> QED BY <2>2, <2>3, <2>4 DEF OrgInv
  <1>4. CASE RejectInvitation(c) /\ memberships[a].status = "INVITED"
    <2>1. /\ SetMembership(a, "REVOKED", memberships[a].role)
          /\ Done(c) /\ UNCHANGED <<staff, outrun>>
      BY <1>4 DEF RejectInvitation
    <2>2. OrgTypeOK'
      BY <1>1, <1>2, <2>1 DEF OrgInv, OrgTypeOK, SetMembership, Done, Idle, staff, Step,
                              MembershipStatus, AssignableRole
    <2>3. ClerksKnow' /\ OwnersAreMembers' /\ OwnerRemains'
      <3>1. memberships[a].role # "OWNER" /\ clerks[c].step # "idle"
        BY <1>1, <1>4 DEF OrgInv, OwnersAreMembers, Member, RejectInvitation
      <3> QED BY <1>1, <1>2, <2>1, <3>1, OrgWrites DEF MembershipStatus
    <2>4. ProjectionFollows'
      BY <1>4, <2>1 DEF OrgInv, OrgTypeOK, ProjectionFollows, Member, SetMembership, staff
    <2> QED BY <2>2, <2>3, <2>4 DEF OrgInv
  <1>5. CASE RejectInvitation(c) /\ memberships[a].status # "INVITED"
    BY <1>5, RefusalsKeepOrg DEF RejectInvitation
  <1>6. CASE UpdateMembershipRole(c)
    <2>1. /\ SetMembership(a, memberships[a].status, clerks[c].role)
          /\ Done(c) /\ UNCHANGED <<staff, outrun>>
      BY <1>6 DEF UpdateMembershipRole
    <2>2. OrgTypeOK'
      BY <1>1, <1>2, <2>1 DEF OrgInv, OrgTypeOK, SetMembership, Done, Idle, staff, Step,
                              MembershipStatus, AssignableRole
    <2>3. ClerksKnow' /\ OwnersAreMembers' /\ OwnerRemains'
      <3>1. memberships[a].role # "OWNER" /\ clerks[c].role # "OWNER"
            /\ clerks[c].step # "idle"
        BY <1>1, <1>6 DEF OrgInv, ClerksKnow, UpdateMembershipRole, AssignableRole
      <3> QED BY <1>1, <1>2, <2>1, <3>1, OrgWrites
    <2>4. ProjectionFollows'
      BY <2>1 DEF OrgInv, OrgTypeOK, ProjectionFollows, Member, SetMembership, staff
    <2> QED BY <2>2, <2>3, <2>4 DEF OrgInv
  <1> QED BY <1>3, <1>4, <1>5, <1>6

\* The row of an invitation that is being accepted: its branches are read, ...
LEMMA AcceptanceKeepsOrg ==
    ASSUME OrgInv, NEW c \in Clerk, AcceptInvitation(c)
    PROVE  OrgInv'
  <1> DEFINE a == clerks[c].of
  <1>1. CASE memberships[a].status # "INVITED"
    BY <1>1, RefusalsKeepOrg DEF AcceptInvitation
  <1>2. CASE memberships[a].status = "INVITED"
    <2>1. /\ clerks' = [clerks EXCEPT ![c].step = "activate", ![c].set = pending[a]]
          /\ UNCHANGED <<memberships, profiles, assignments, pending, outrun>>
      BY <1>2 DEF AcceptInvitation, staff
    <2>2. a \in Account
      BY DEF OrgInv, ClerksKnow, AcceptInvitation
    <2>3. OrgTypeOK'
      <3> DEFINE row == [clerks[c] EXCEPT !.step = "activate", !.set = pending[a]]
      <3>1. clerks' = [clerks EXCEPT ![c] = row]
        BY <2>1
      <3>2. row \in [step : Step, of : Account \cup {Nobody}, role : AssignableRole,
                     set : SUBSET Branch, seen : MembershipStatus]
        BY <2>2 DEF OrgInv, OrgTypeOK, Step
      <3> HIDE DEF row
      <3>3. clerks' \in [Clerk -> [step : Step, of : Account \cup {Nobody},
                role : AssignableRole, set : SUBSET Branch, seen : MembershipStatus]]
        BY <3>1, <3>2 DEF OrgInv, OrgTypeOK
      <3> QED BY <2>1, <3>3 DEF OrgInv, OrgTypeOK
    <2>4. ClerksKnow'
      BY <2>1, <2>2 DEF OrgInv, OrgTypeOK, ClerksKnow, AcceptInvitation
    <2>5. (OwnersAreMembers /\ ProjectionFollows /\ OwnerRemains)'
      BY <2>1 DEF OrgInv, OwnersAreMembers, ProjectionFollows, OwnerRemains, Member
    <2> QED BY <2>3, <2>4, <2>5 DEF OrgInv
  <1> QED BY <1>1, <1>2

\* ... and the membership is active with them, or it is revoked with what followed.
LEMMA MembersKeepOrg ==
    ASSUME OrgInv, NEW c \in Clerk, ActivateAssignments(c) \/ RevokeMembership(c)
    PROVE  OrgInv'
  <1> DEFINE a == clerks[c].of
  <1>1. a \in Account /\ clerks[c] \in [step : Step, of : Account \cup {Nobody},
              role : AssignableRole, set : SUBSET Branch, seen : MembershipStatus]
    BY DEF OrgInv, OrgTypeOK, ClerksKnow, ActivateAssignments, RevokeMembership
  <1>2. memberships[a] \in [status : MembershipStatus, role : AssignableRole \cup {"OWNER"}]
    BY <1>1 DEF OrgInv, OrgTypeOK
  <1>3. CASE ActivateAssignments(c)
    <2>1. /\ SetMembership(a, "ACTIVE", memberships[a].role)
          /\ EnsureStaff(a, clerks[c].set)
          /\ pending' = IF clerks[c].set = {} THEN pending ELSE [pending EXCEPT ![a] = {}]
          /\ Done(c) /\ UNCHANGED outrun
      BY <1>3 DEF ActivateAssignments
    <2>2. OrgTypeOK'
      BY <1>1, <1>2, <2>1 DEF OrgInv, OrgTypeOK, SetMembership, EnsureStaff, Done, Idle,
                              Step, MembershipStatus, AssignableRole
    <2>3. ClerksKnow' /\ OwnersAreMembers' /\ OwnerRemains'
      <3>1. clerks[c].step # "idle"
        BY <1>3 DEF ActivateAssignments
      <3> QED BY <1>1, <1>2, <2>1, <3>1, OrgWrites DEF MembershipStatus
    <2>4. ProjectionFollows'
      BY <1>1, <2>1 DEF OrgInv, OrgTypeOK, ProjectionFollows, Member, SetMembership, EnsureStaff
    <2> QED BY <2>2, <2>3, <2>4 DEF OrgInv
  <1>4. CASE RevokeMembership(c)
    <2>1. /\ SetMembership(a, "REVOKED", memberships[a].role)
          /\ profiles' = [profiles EXCEPT ![a] = IF @ = "NONE" THEN @ ELSE "REVOKED"]
          /\ assignments' = [assignments EXCEPT ![a] = {}]
          /\ Done(c) /\ UNCHANGED <<pending, outrun>>
      BY <1>4 DEF RevokeMembership
    <2>2. OrgTypeOK'
      BY <1>1, <1>2, <2>1 DEF OrgInv, OrgTypeOK, SetMembership, Done, Idle, Step,
                              MembershipStatus, AssignableRole
    <2>3. ClerksKnow' /\ OwnersAreMembers' /\ OwnerRemains'
      <3>1. memberships[a].role # "OWNER" /\ clerks[c].step # "idle"
        BY <1>4 DEF OrgInv, ClerksKnow, RevokeMembership
      <3> QED BY <1>1, <1>2, <2>1, <3>1, OrgWrites DEF MembershipStatus
    <2>4. ProjectionFollows'
      BY <1>1, <2>1 DEF OrgInv, OrgTypeOK, ProjectionFollows, Member, SetMembership
    <2> QED BY <2>2, <2>3, <2>4 DEF OrgInv
  <1> QED BY <1>3, <1>4

\* Branches are assigned for the status that was read: if it has changed, the
\* membership is one that was overtaken.
LEMMA BranchesKeepOrg ==
    ASSUME OrgInv, NEW c \in Clerk, AssignMembershipBranches(c) \/ AssignActiveBranch(c)
    PROVE  OrgInv'
  <1> DEFINE a == clerks[c].of
  <1>1. a \in Account /\ clerks[c] \in [step : Step, of : Account \cup {Nobody},
              role : AssignableRole, set : SUBSET Branch, seen : MembershipStatus]
    BY DEF OrgInv, OrgTypeOK, ClerksKnow, AssignMembershipBranches, AssignActiveBranch
  <1>2. Done(c) /\ UNCHANGED memberships
    BY DEF AssignMembershipBranches, AssignActiveBranch
  <1>3. ClerksKnow'
    BY <1>2 DEF OrgInv, OrgTypeOK, ClerksKnow, Done, Idle
  <1>4. (OwnersAreMembers /\ OwnerRemains)'
    BY <1>2 DEF OrgInv, OwnersAreMembers, OwnerRemains, Member
  <1>5. OrgTypeOK'
    <2>1. clerks' \in [Clerk -> [step : Step, of : Account \cup {Nobody},
              role : AssignableRole, set : SUBSET Branch, seen : MembershipStatus]]
      BY <1>2 DEF OrgInv, OrgTypeOK, Done, Idle, Step, MembershipStatus, AssignableRole
    <2>2. profiles' \in [Account -> {"NONE", "ACTIVE", "REVOKED"}]
      BY <1>1 DEF OrgInv, OrgTypeOK, AssignMembershipBranches, AssignActiveBranch, EnsureStaff
    <2>3. assignments' \in [Account -> SUBSET Branch]
      BY <1>1 DEF OrgInv, OrgTypeOK, AssignMembershipBranches, AssignActiveBranch, EnsureStaff
    <2>4. pending' \in [Account -> SUBSET Branch] /\ outrun' \subseteq Account
      BY <1>1 DEF OrgInv, OrgTypeOK, AssignMembershipBranches, AssignActiveBranch
    <2> QED BY <1>2, <2>1, <2>2, <2>3, <2>4 DEF OrgInv, OrgTypeOK
  <1>6. ProjectionFollows'
    <2>1. CASE AssignMembershipBranches(c) /\ clerks[c].seen = "INVITED"
      BY <1>1, <1>2, <2>1 DEF OrgInv, OrgTypeOK, ProjectionFollows, Member, AssignMembershipBranches
    <2>2. CASE AssignMembershipBranches(c) /\ clerks[c].seen = "ACTIVE"
      BY <1>1, <1>2, <2>2 DEF OrgInv, OrgTypeOK, ProjectionFollows, Member,
                              AssignMembershipBranches, EnsureStaff
    <2>3. CASE AssignActiveBranch(c)
      BY <1>1, <1>2, <2>3 DEF OrgInv, OrgTypeOK, ProjectionFollows, Member, AssignActiveBranch
    <2> QED BY <2>1, <2>2, <2>3 DEF AssignMembershipBranches
  <1> QED BY <1>3, <1>4, <1>5, <1>6 DEF OrgInv

LEMMA OrgKept == OrgInv /\ [OrgStep]_orgVars => OrgInv'
  <1> SUFFICES ASSUME OrgInv, [OrgStep]_orgVars
               PROVE  OrgInv'
    OBVIOUS
  <1>1. ASSUME NEW a \in Account, ProvisionTenant(a)
        PROVE  OrgInv'
    BY <1>1, ProvisioningKeepsOrg
  <1>2. ASSUME NEW c \in Clerk, CheckStep(c) \/ WriteStep(c) \/ AbandonRequest(c)
        PROVE  OrgInv'
    BY <1>2, ChecksKeepOrg, InvitationsKeepOrg, AcceptanceKeepsOrg, MembersKeepOrg,
       BranchesKeepOrg, RefusalsKeepOrg DEF WriteStep, AbandonRequest
  <1>3. CASE UNCHANGED orgVars
    <2>1. UNCHANGED <<memberships, profiles, assignments, pending, clerks, outrun>>
      BY <1>3 DEF orgVars
    <2> QED BY <2>1 DEF OrgInv, OrgTypeOK, ClerksKnow, OwnersAreMembers, ProjectionFollows,
                        OwnerRemains, Member
  <1> QED BY <1>1, <1>2, <1>3 DEF OrgStep

(* Staff records follow memberships, but for those overtaken between a     *)
(* check and its write, and a tenant keeps an active owner.                *)
THEOREM MembersAgree == TenancySpec => []MembershipsAgree
  <1>1. TenancyInit => OrgInv
    BY OrgStarts DEF TenancyInit
  <1>2. [TenancyNext]_tenancyVars => [OrgStep]_orgVars
    BY DEF TenancyNext, OrgTurn, OpenTurn, AccountTurn, AttendanceTurn, ShiftTurn, tenancyVars
  <1>3. OrgInv => MembershipsAgree
    BY DEF OrgInv, MembershipsAgree, OrgTypeOK, ProjectionFollows, ProjectionFollowsMembership,
           Member
  <1> QED BY <1>1, <1>2, <1>3, OrgKept, PTL DEF TenancySpec

-----------------------------------------------------------------------------
(* BranchActivation.  The tenant's row is locked, so one request is under  *)
(* way and what it has read of its draft is still so when it writes.       *)
DraftFits(d) ==
    LET row == drafts[d] IN
    /\ row.status = "NONE" => row = NoDraft
    /\ row.status = "PENDING_PAYMENT" => row.branch = {} /\ row.invoice = "ISSUED"
    /\ row.status = "ACTIVATED" =>
           row.invoice = "PAID" /\ \E b \in branches : row.branch = {b}
    /\ row.status # "NONE" /\ branches = {} => row.type = "FIRST_BRANCH"

OpeningFits(o) ==
    LET r == openings[o] IN
    /\ r.step = "initiate" =>
           /\ \E d \in Draft : r.draft = {d} /\ drafts[d] = NoDraft
           /\ r.first = (branches = {})
    /\ r.step \in {"confirm", "paid"} =>
           \E d \in Draft : r.draft = {d} /\ r.seen = drafts[d].status
    /\ r.step = "paid" => r.seen = "PENDING_PAYMENT"

OneAtATime ==
    \A o, p \in Opener : openings[o] # Waiting /\ openings[p] # Waiting => o = p

\* A branch has one draft, and one draft is the first.
DraftsApart ==
    /\ \A b \in branches : \E d \in Draft : b \in drafts[d].branch
    /\ \A b \in branches, d, e \in Draft :
           b \in drafts[d].branch /\ b \in drafts[e].branch => d = e
    /\ \A d, e \in Draft :
           drafts[d].type = "FIRST_BRANCH" /\ drafts[e].type = "FIRST_BRANCH" => d = e
    /\ anchored = (branches # {})

OpenInv ==
    /\ OpenTypeOK /\ OneAtATime /\ DraftsApart
    /\ \A d \in Draft : DraftFits(d)
    /\ \A o \in Opener : OpeningFits(o)

OpeningRow == [step : {"idle", "initiate", "confirm", "paid"}, draft : SUBSET Draft,
               first : BOOLEAN, seen : {"NONE", "PENDING_PAYMENT", "ACTIVATED"}]

LEMMA OpenStarts == OpenInit => OpenInv
  <1> SUFFICES ASSUME OpenInit
               PROVE  OpenInv
    OBVIOUS
  <1>1. OpenTypeOK
    BY DEF OpenInit, OpenTypeOK, NoDraft, Waiting
  <1>2. OneAtATime /\ \A o \in Opener : OpeningFits(o)
    BY DEF OpenInit, OneAtATime, OpeningFits, Waiting
  <1>3. \A d \in Draft : DraftFits(d)
    BY DEF OpenInit, DraftFits, NoDraft
  <1>4. DraftsApart
    BY DEF OpenInit, DraftsApart, NoDraft
  <1> QED BY <1>1, <1>2, <1>3, <1>4 DEF OpenInv

\* A request begins, or goes on, with what it has read.
LEMMA BeginKeeps ==
    ASSUME OpenInv, NEW o \in Opener, NEW r \in OpeningRow, Begin(o, r),
           TenantFree \/ openings[o] # Waiting,
           r.step = "initiate" => /\ \E d \in Draft : r.draft = {d} /\ drafts[d] = NoDraft
                                  /\ r.first = (branches = {}),
           r.step \in {"confirm", "paid"} =>
               \E d \in Draft : r.draft = {d} /\ r.seen = drafts[d].status,
           r.step = "paid" => r.seen = "PENDING_PAYMENT"
    PROVE  OpenInv'
  <1>1. \A p \in Opener : openings'[p] = IF p = o THEN r ELSE openings[p]
    BY DEF Begin, OpenInv, OpenTypeOK
  <1>2. UNCHANGED <<branches, drafts, anchored>>
    BY DEF Begin
  <1>3. OpenTypeOK'
    BY <1>2 DEF OpenInv, OpenTypeOK, OpeningRow, Begin
  <1>4. OneAtATime'
    BY <1>1 DEF OpenInv, OneAtATime, TenantFree
  <1>5. DraftsApart' /\ \A d \in Draft : DraftFits(d)'
    BY <1>2 DEF OpenInv, DraftsApart, DraftFits
  <1>6. \A p \in Opener : OpeningFits(p)'
    BY <1>1, <1>2 DEF OpenInv, OpeningFits
  <1> QED BY <1>3, <1>4, <1>5, <1>6 DEF OpenInv

\* A request ends, and nobody else is under way.
LEMMA EndKeeps ==
    ASSUME OpenInv, NEW o \in Opener, openings[o] # Waiting, End(o)
    PROVE  /\ openings' \in [Opener -> OpeningRow] /\ OneAtATime'
           /\ \A p \in Opener : OpeningFits(p)'
  <1>1. \A p \in Opener : openings'[p] = IF p = o THEN Waiting ELSE openings[p]
    BY DEF End, OpenInv, OpenTypeOK
  <1>2. \A p \in Opener : openings'[p] = Waiting
    BY <1>1 DEF OpenInv, OneAtATime
  <1>3. openings' \in [Opener -> OpeningRow]
    BY DEF End, OpenInv, OpenTypeOK, OpeningRow, Waiting
  <1> QED BY <1>2, <1>3 DEF OneAtATime, OpeningFits, Waiting

LEMMA DraftingKeepsOpen ==
    ASSUME OpenInv, NEW o \in Opener, CreateDraft(o)
    PROVE  OpenInv'
  <1>1. PICK d \in Draft : openings[o].draft = {d} /\ drafts[d] = NoDraft
    BY DEF OpenInv, OpeningFits, CreateDraft
  <1> DEFINE row == [status |-> "PENDING_PAYMENT", branch |-> {}, invoice |-> "ISSUED",
                  type |-> IF openings[o].first THEN "FIRST_BRANCH" ELSE "ADDITIONAL_BRANCH"]
  <1>2. /\ openings[o] # Waiting /\ End(o) /\ UNCHANGED <<branches, anchored>>
        /\ openings[o].first = (branches = {}) /\ PendingDrafts = {}
        /\ drafts' = [e \in Draft |-> IF e = d THEN row ELSE drafts[e]]
    BY <1>1 DEF CreateDraft, OpenInv, OpeningFits, Waiting
  <1>3. /\ row.status = "PENDING_PAYMENT" /\ row.branch = {} /\ row.invoice = "ISSUED"
        /\ row.type \in {"FIRST_BRANCH", "ADDITIONAL_BRANCH"}
        /\ branches = {} <=> row.type = "FIRST_BRANCH"
        /\ row \in [status : {"NONE", "PENDING_PAYMENT", "ACTIVATED"},
                    type : {"NONE", "FIRST_BRANCH", "ADDITIONAL_BRANCH"},
                    branch : SUBSET Site, invoice : {"NONE", "ISSUED", "PAID"}]
    BY <1>2
  <1> HIDE DEF row
  <1>4. \A e \in Draft : drafts'[e] = IF e = d THEN row ELSE drafts[e]
    BY <1>2
  <1>5. OpenTypeOK' /\ OneAtATime' /\ \A p \in Opener : OpeningFits(p)'
    BY <1>2, <1>3, EndKeeps DEF OpenInv, OpenTypeOK, OpeningRow
  <1>6. \A e \in Draft : DraftFits(e)'
    BY <1>2, <1>3, <1>4 DEF OpenInv, DraftFits
  <1>7. \A e \in Draft : branches = {} => drafts[e].type # "FIRST_BRANCH"
    <2> SUFFICES ASSUME NEW e \in Draft, branches = {}
                 PROVE  drafts[e].type # "FIRST_BRANCH"
      OBVIOUS
    <2>1. drafts[e].status = "NONE"
      BY <1>2 DEF OpenInv, OpenTypeOK, DraftFits, PendingDrafts
    <2> QED BY <2>1 DEF OpenInv, DraftFits, NoDraft
  <1>8. DraftsApart'
    BY <1>1, <1>2, <1>3, <1>4, <1>7 DEF OpenInv, DraftsApart, NoDraft
  <1> QED BY <1>5, <1>6, <1>8 DEF OpenInv

LEMMA ActivationKeepsOpen ==
    ASSUME OpenInv, NEW o \in Opener, ActivateBranch(o)
    PROVE  OpenInv'
  <1>1. PICK d \in Draft : openings[o].draft = {d} /\ drafts[d].status = "PENDING_PAYMENT"
    BY DEF OpenInv, OpeningFits, ActivateBranch
  <1>2. PICK b \in Site \ branches :
            /\ branches' = branches \cup {b}
            /\ drafts' = [drafts EXCEPT ![d].status = "ACTIVATED", ![d].branch = {b},
                                        ![d].invoice = "PAID"]
            /\ anchored' = (anchored \/ drafts[d].type = "FIRST_BRANCH")
    BY <1>1 DEF ActivateBranch
  <1>3. End(o) /\ openings[o] # Waiting
    BY DEF ActivateBranch, Waiting
  <1> DEFINE row == [drafts[d] EXCEPT !.status = "ACTIVATED", !.branch = {b}, !.invoice = "PAID"]
  <1>4. /\ row.status = "ACTIVATED" /\ row.branch = {b} /\ row.invoice = "PAID"
        /\ row.type = drafts[d].type
        /\ row \in [status : {"NONE", "PENDING_PAYMENT", "ACTIVATED"},
                    type : {"NONE", "FIRST_BRANCH", "ADDITIONAL_BRANCH"},
                    branch : SUBSET Site, invoice : {"NONE", "ISSUED", "PAID"}]
    BY ZenonT(40) DEF OpenInv, OpenTypeOK
  <1>5. drafts' = [drafts EXCEPT ![d] = row]
    BY <1>2
  <1> HIDE DEF row
  <1>6. \A e \in Draft : drafts'[e] = IF e = d THEN row ELSE drafts[e]
    BY <1>5 DEF OpenInv, OpenTypeOK
  <1>7. drafts' \in [Draft -> [status : {"NONE", "PENDING_PAYMENT", "ACTIVATED"},
                               type : {"NONE", "FIRST_BRANCH", "ADDITIONAL_BRANCH"},
                               branch : SUBSET Site, invoice : {"NONE", "ISSUED", "PAID"}]]
    BY <1>4, <1>5 DEF OpenInv, OpenTypeOK
  <1>8. anchored' = TRUE
    BY <1>1, <1>2 DEF OpenInv, OpenTypeOK, DraftsApart, DraftFits
  <1>9. OpenTypeOK' /\ OneAtATime' /\ \A p \in Opener : OpeningFits(p)'
    <2>1. openings' \in [Opener -> OpeningRow] /\ OneAtATime' /\ \A p \in Opener : OpeningFits(p)'
      BY <1>3, EndKeeps
    <2>2. branches' \subseteq Site /\ anchored' \in BOOLEAN
      BY <1>2, <1>8 DEF OpenInv, OpenTypeOK
    <2>3. OpenTypeOK'
      BY <1>7, <2>1, <2>2 DEF OpenTypeOK, OpeningRow
    <2> QED BY <2>1, <2>3
  <1>10. ASSUME NEW e \in Draft
         PROVE  DraftFits(e)'
    <2>1. b \in branches' /\ branches \subseteq branches'
      BY <1>2
    <2>2. CASE e = d
      BY <1>4, <1>6, <2>1, <2>2 DEF DraftFits
    <2>3. CASE e # d
      BY <1>6, <2>1, <2>3 DEF OpenInv, DraftFits
    <2> QED BY <2>2, <2>3
  <1>11. \A e \in Draft : drafts[e].branch \subseteq branches
    BY DEF OpenInv, OpenTypeOK, DraftFits, NoDraft
  <1>12. drafts[d].branch = {}
    BY <1>1 DEF OpenInv, DraftFits
  <1>13. DraftsApart'
    <2>1. \A c \in branches' : \E e \in Draft : c \in drafts'[e].branch
      BY ZenonT(40), <1>2, <1>4, <1>6, <1>12 DEF OpenInv, DraftsApart
    <2>2. \A c \in branches', e, f \in Draft :
              c \in drafts'[e].branch /\ c \in drafts'[f].branch => e = f
      BY <1>2, <1>4, <1>6, <1>11, <1>12 DEF OpenInv, DraftsApart
    <2>3. \A e, f \in Draft :
              drafts'[e].type = "FIRST_BRANCH" /\ drafts'[f].type = "FIRST_BRANCH" => e = f
      BY <1>4, <1>6 DEF OpenInv, DraftsApart
    <2>4. anchored' = (branches' # {})
      BY <1>2, <1>8
    <2> QED BY <2>1, <2>2, <2>3, <2>4 DEF DraftsApart
  <1> QED BY <1>9, <1>10, <1>13 DEF OpenInv

LEMMA OpenKept == OpenInv /\ [OpenStep]_openVars => OpenInv'
  <1> SUFFICES ASSUME OpenInv, [OpenStep]_openVars
               PROVE  OpenInv'
    OBVIOUS
  <1>1. ASSUME NEW o \in Opener, NEW d \in Draft, Initiate(o, d)
        PROVE  OpenInv'
    <2> DEFINE r == [Waiting EXCEPT !.step = "initiate", !.draft = {d}, !.first = (branches = {})]
    <2>1. r \in OpeningRow /\ r.step = "initiate" /\ r.draft = {d} /\ r.first = (branches = {})
      BY DEF Waiting, OpeningRow
    <2> HIDE DEF r
    <2>2. Begin(o, r) /\ TenantFree /\ drafts[d] = NoDraft
      BY <1>1 DEF Initiate, r
    <2> QED BY <2>1, <2>2, BeginKeeps
  <1>2. ASSUME NEW o \in Opener, NEW d \in Draft, Confirm(o, d)
        PROVE  OpenInv'
    <2> DEFINE r == [Waiting EXCEPT !.step = "confirm", !.draft = {d}, !.seen = drafts[d].status]
    <2>1. r \in OpeningRow /\ r.step = "confirm" /\ r.draft = {d} /\ r.seen = drafts[d].status
      BY DEF Waiting, OpeningRow, OpenInv, OpenTypeOK
    <2> HIDE DEF r
    <2>2. Begin(o, r) /\ TenantFree
      BY <1>2 DEF Confirm, r
    <2> QED BY <2>1, <2>2, BeginKeeps
  <1>3. ASSUME NEW o \in Opener, VerifyPayment(o)
        PROVE  OpenInv'
    <2> DEFINE r == [openings[o] EXCEPT !.step = "paid"]
    <2>1. /\ r \in OpeningRow /\ r.step = "paid" /\ r.draft = openings[o].draft
          /\ r.seen = openings[o].seen
      BY DEF OpeningRow, OpenInv, OpenTypeOK
    <2> HIDE DEF r
    <2>2. Begin(o, r) /\ openings[o].step = "confirm" /\ openings[o].seen = "PENDING_PAYMENT"
      BY <1>3 DEF VerifyPayment, r
    <2>3. openings[o] # Waiting
      BY <2>2 DEF Waiting
    <2>4. PICK d \in Draft : openings[o].draft = {d} /\ openings[o].seen = drafts[d].status
      BY <2>2 DEF OpenInv, OpeningFits
    <2> QED BY <2>1, <2>2, <2>3, <2>4, BeginKeeps
  <1>4. ASSUME NEW o \in Opener, Withdraw(o)
        PROVE  OpenInv'
    <2>1. openings[o] # Waiting /\ End(o) /\ UNCHANGED <<branches, drafts, anchored>>
      BY <1>4 DEF Withdraw
    <2>2. OpenTypeOK' /\ OneAtATime' /\ \A p \in Opener : OpeningFits(p)'
      BY <2>1, EndKeeps DEF OpenInv, OpenTypeOK, OpeningRow
    <2> QED BY <2>1, <2>2 DEF OpenInv, DraftsApart, DraftFits
  <1>5. CASE UNCHANGED openVars
    <2>1. UNCHANGED <<branches, drafts, anchored, openings>>
      BY <1>5 DEF openVars
    <2> QED BY <2>1 DEF OpenInv, OpenTypeOK, OneAtATime, DraftsApart, DraftFits, OpeningFits
  <1> QED BY <1>1, <1>2, <1>3, <1>4, <1>5, DraftingKeepsOpen, ActivationKeepsOpen DEF OpenStep

(* A branch is paid for once, whatever confirmations race for it, and the  *)
(* billing starts with the first.                                          *)
THEOREM BranchesStayPaid == TenancySpec => []BranchesArePaid
  <1>1. TenancyInit => OpenInv
    BY OpenStarts DEF TenancyInit
  <1>2. [TenancyNext]_tenancyVars => [OpenStep]_openVars
    BY DEF TenancyNext, OrgTurn, OpenTurn, AccountTurn, AttendanceTurn, ShiftTurn, tenancyVars
  <1>3. OpenInv => BranchesArePaid
    <2> SUFFICES ASSUME OpenInv
                 PROVE  BranchPerPaidInvoice
      BY DEF OpenInv, BranchesArePaid
    <2>1. \A d \in Draft :
              /\ (drafts[d].invoice = "PAID") = (drafts[d].status = "ACTIVATED")
              /\ (drafts[d].branch # {}) = (drafts[d].status = "ACTIVATED")
      <3> SUFFICES ASSUME NEW d \in Draft
                   PROVE  /\ drafts[d].invoice = "PAID" <=> drafts[d].status = "ACTIVATED"
                          /\ drafts[d].branch # {} <=> drafts[d].status = "ACTIVATED"
        OBVIOUS
      <3>1. DraftFits(d) /\ drafts[d].status \in {"NONE", "PENDING_PAYMENT", "ACTIVATED"}
        BY DEF OpenInv, OpenTypeOK
      <3> QED BY <3>1 DEF DraftFits, NoDraft
    <2>2. ASSUME NEW b \in branches
          PROVE  Cardinality({d \in Draft : b \in drafts[d].branch}) = 1
      <3>1. PICK d \in Draft : {e \in Draft : b \in drafts[e].branch} = {d}
        BY DEF OpenInv, DraftsApart
      <3> QED BY <3>1, FS_Singleton
    <2>3. Cardinality({d \in Draft : drafts[d].type = "FIRST_BRANCH"}) <= 1
      <3> DEFINE S == {d \in Draft : drafts[d].type = "FIRST_BRANCH"}
      <3> SUFFICES Cardinality(S) <= 1
        OBVIOUS
      <3>1. CASE S = {}
        BY <3>1, FS_EmptySet
      <3>2. CASE S # {}
        <4>1. PICK d \in S : TRUE
          BY <3>2
        <4>2. S = {d}
          BY <4>1 DEF OpenInv, DraftsApart
        <4> HIDE DEF S
        <4>3. Cardinality({d}) = 1
          BY FS_Singleton
        <4> QED BY <4>2, <4>3
      <3> QED BY <3>1, <3>2
    <2> QED BY <2>1, <2>2, <2>3 DEF BranchPerPaidInvoice, OpenInv, DraftsApart
  <1> QED BY <1>1, <1>2, <1>3, OpenKept, PTL DEF TenancySpec

-----------------------------------------------------------------------------
(* Accounts.  A row is only ever completed, so what a request has made of  *)
(* it holds until the request marks it verified, whatever others do.  What *)
(* a fixed code marks is remembered, and no more is said of it.            *)
CallerRow == [at : Stage, seen : AccountRow, password : 0..MaxPasswords, code : Code,
              session : SUBSET Session, fixed : BOOLEAN,
              for : {"none", "register", "verify", "login", "reset", "change", "refresh"}]
UserRow == [exists : BOOLEAN, confirmed : BOOLEAN, password : 0..MaxPasswords]
CodeRow == [purpose : {"none", "verify", "reset"}, used : BOOLEAN, attempts : Nat, old : BOOLEAN]
SessionRow == [status : {"none", "active", "revoked"}, password : 0..MaxPasswords]

CodeUsed == \E i \in Code : codes[i].used
Complete ==
    /\ ~provider => account.named /\ CodeUsed
    /\ provider /\ account.waived = {} => account.named /\ account.attached /\ user.confirmed
    /\ account.waived \subseteq {"reset"} => account.attached \/ ~provider

\* On the way to marking the row.
Marking(c) == c.at = "mark" \/ (c.at = "password" /\ c.for = "reset")

\* What a request that was proved to the provider, or by a code, may rely on.
ProvedFits(c) ==
    /\ c.at # "consume"
    /\ c.at \in {"resolve", "create", "attach", "hydrate"} =>
           c.for \in {"verify", "login", "reset", "change"}
    /\ c.at = "hydrate" => c.for # "change" /\ account.attached
    /\ c.at = "attach" => account.exists
    /\ c.at \in {"attach", "hydrate"} /\ c.seen.named => account.named
    /\ c.at \in {"resolve", "create", "attach", "hydrate", "password", "mark"}
       /\ c.for \in {"verify", "reset"} /\ ~c.fixed => user.confirmed
    /\ Marking(c) /\ ~c.fixed => account.attached /\ account.named
    /\ c.fixed => /\ FixedOtp /\ account.exists /\ c.for \in {"verify", "reset"}
                  /\ c.at \notin {"register", "resolve", "create", "attach", "hydrate"}
                  /\ c.for = "reset" => account.attached
LocalFits(c) ==
    /\ ~c.fixed
    /\ c.at \notin {"register", "resolve", "create", "attach", "hydrate"}
    /\ c.at = "consume" => c.for \in {"verify", "reset"}
    /\ c.at \in {"consume", "mark"} => account.exists
    /\ Marking(c) => account.exists /\ CodeUsed
CallerFits(c) ==
    /\ c.at = "password" => c.for \in {"reset", "change"}
    /\ c.at = "mark" => c.for \in {"verify", "login", "reset"}
    /\ provider => ProvedFits(c)
    /\ ~provider => LocalFits(c)

RowFits ==
    /\ ~account.exists => account = NoAccount
    /\ account.waived # {} => provider /\ FixedOtp
    /\ ~provider => /\ account.exists => account.named
                    /\ (\E i \in Code : codes[i].purpose # "none") => account.exists

AccountInv ==
    /\ AccountTypeOK /\ RowFits /\ PasswordEndsSessions
    /\ account.verified => Complete
    /\ \A r \in Caller : CallerFits(callers[r])

\* Nothing that is written is taken back.
Forward ==
    /\ provider' = provider
    /\ account.exists => account'.exists
    /\ account.attached => account'.attached
    /\ account.named => account'.named
    /\ account.waived \subseteq account'.waived
    /\ user.confirmed => user'.confirmed
    /\ CodeUsed => CodeUsed'
Ending(c) == c.at \in {"mark", "revoke"} /\ c.for \in {"reset", "change"}

\* The sessions go on as they are, or end.
SessionsStay ==
    /\ user'.password = user.password /\ spared \subseteq spared'
    /\ \A s \in Session : sessions'[s] = sessions[s] \/ sessions'[s].status # "active"

LEMMA AccountStarts == AccountInit => AccountInv
  <1> SUFFICES ASSUME AccountInit
               PROVE  AccountInv
    OBVIOUS
  <1>1. 0 \in 0..MaxPasswords /\ 1 \in Code
    BY AccountsAssumption DEF Code
  <1>2. AccountTypeOK
    BY <1>1 DEF AccountInit, AccountTypeOK, NoAccount, AccountRow, NoCode, NoSession, Resting, Stage
  <1>3. RowFits /\ PasswordEndsSessions /\ ~account.verified
    BY DEF AccountInit, RowFits, PasswordEndsSessions, NoAccount, NoCode, NoSession, Active
  <1>4. \A r \in Caller : CallerFits(callers[r])
    BY DEF AccountInit, CallerFits, ProvedFits, LocalFits, Marking, Resting
  <1> QED BY <1>2, <1>3, <1>4 DEF AccountInv

\* A request goes on to `row`; every other one may rely on what it relied on.
LEMMA CallerMoves ==
    ASSUME AccountInv, NEW r \in Caller, NEW row \in CallerRow,
           callers' = [callers EXCEPT ![r] = row],
           account' \in AccountRow, user' \in UserRow, codes' \in [Code -> CodeRow],
           sessions' \in [Session -> SessionRow], spared' \subseteq Session,
           Forward, RowFits', CallerFits(row)',
           account'.verified => account.verified \/ Complete',
           Ending(row) \/ PasswordEndsSessions' \/ (SessionsStay /\ ~Ending(callers[r]))
    PROVE  AccountInv'
  <1>1. callers' \in [Caller -> CallerRow]
    BY DEF AccountInv, AccountTypeOK, CallerRow
  <1>2. \A q \in Caller : callers'[q] = IF q = r THEN row ELSE callers[q]
    BY DEF AccountInv, AccountTypeOK
  <1>3. AccountTypeOK'
    BY <1>1 DEF AccountInv, AccountTypeOK, Forward, CallerRow, UserRow, CodeRow, SessionRow
  <1>4. account'.verified => Complete'
    BY DEF AccountInv, Complete, Forward
  <1>5. ASSUME NEW q \in Caller
        PROVE  CallerFits(callers[q])'
    <2>1. CASE q = r
      BY <1>2, <2>1
    <2>2. CASE q # r
      <3>1. callers'[q] = callers[q] /\ CallerFits(callers[q])
        BY <1>2, <2>2 DEF AccountInv
      <3> QED BY <3>1 DEF CallerFits, ProvedFits, LocalFits, Marking, Forward
    <2> QED BY <2>1, <2>2
  <1>6. PasswordEndsSessions'
    <2>1. CASE Ending(row)
      BY <1>2, <2>1 DEF PasswordEndsSessions, Ending
    <2>2. CASE SessionsStay /\ ~Ending(callers[r])
      <3> SUFFICES ASSUME NEW s \in Session, sessions'[s].status = "active"
                   PROVE  \/ sessions'[s].password = user'.password
                          \/ s \in spared'
                          \/ \E q \in Caller : Ending(callers'[q])
        BY DEF PasswordEndsSessions, Active, Ending
      <3>1. sessions'[s] = sessions[s] /\ s \in Active
        BY <2>2 DEF SessionsStay, Active
      <3>2. CASE \E q \in Caller : Ending(callers[q])
        BY <1>2, <2>2, <3>2
      <3> QED BY <2>2, <3>1, <3>2 DEF AccountInv, PasswordEndsSessions, SessionsStay, Ending
    <2> QED BY <2>1, <2>2
  <1> QED BY <1>3, <1>4, <1>5, <1>6 DEF AccountInv

LEMMA RestingFits == Resting \in CallerRow /\ ~Ending(Resting) /\ CallerFits(Resting)
  <1>1. 0 \in 0..MaxPasswords /\ 1 \in Code
    BY AccountsAssumption DEF Code
  <1> QED BY <1>1 DEF Resting, CallerRow, Stage, AccountRow, NoAccount, Ending, CallerFits,
                      ProvedFits, LocalFits, Marking

\* A request that writes nothing but goes on to `row`, or rests.
LEMMA CallerReads ==
    ASSUME AccountInv, NEW r \in Caller, NEW row \in CallerRow,
           callers' = [callers EXCEPT ![r] = row], CallerFits(row),
           UNCHANGED <<provider, user, account, codes, sessions, spared>>,
           ~Ending(callers[r]) \/ Ending(row)
    PROVE  AccountInv'
  <1>1. /\ account' \in AccountRow /\ user' \in UserRow /\ codes' \in [Code -> CodeRow]
        /\ sessions' \in [Session -> SessionRow] /\ spared' \subseteq Session
    BY DEF AccountInv, AccountTypeOK, UserRow, CodeRow, SessionRow
  <1>2. Forward /\ SessionsStay
    BY DEF Forward, SessionsStay, CodeUsed
  <1>3. RowFits' /\ CallerFits(row)'
    BY DEF AccountInv, RowFits, CallerFits, ProvedFits, LocalFits, Marking, CodeUsed
  <1> QED BY <1>1, <1>2, <1>3, CallerMoves

LEMMA RejectionKeeps ==
    ASSUME AccountInv, NEW r \in Caller, Rejected(r), ~Ending(callers[r])
    PROVE  AccountInv'
  BY CallerReads, RestingFits DEF Rejected, Rests

\* A request that writes the account's row.
LEMMA CallerWrites ==
    ASSUME AccountInv, NEW r \in Caller, NEW row \in CallerRow,
           callers' = [callers EXCEPT ![r] = row], CallerFits(row)',
           account' \in AccountRow, account'.exists,
           account.attached => account'.attached, account.named => account'.named,
           account.waived \subseteq account'.waived,
           account'.waived # {} => account.waived # {} \/ (provider /\ FixedOtp),
           ~provider => account'.named,
           account'.verified => account.verified \/ Complete',
           UNCHANGED <<provider, user, codes, sessions, spared>>,
           ~Ending(callers[r]) \/ Ending(row)
    PROVE  AccountInv'
  <1>1. /\ user' \in UserRow /\ codes' \in [Code -> CodeRow]
        /\ sessions' \in [Session -> SessionRow] /\ spared' \subseteq Session
    BY DEF AccountInv, AccountTypeOK, UserRow, CodeRow, SessionRow
  <1>2. Forward /\ SessionsStay
    BY DEF Forward, SessionsStay, CodeUsed
  <1>3. RowFits'
    BY DEF AccountInv, RowFits
  <1> QED BY <1>1, <1>2, <1>3, CallerMoves

LEMMA RegistrationKeeps ==
    ASSUME AccountInv, NEW r \in Caller,
           StartRegister(r) \/ ProviderRegister(r) \/ StoreRegistration(r)
    PROVE  AccountInv'
  <1>1. callers[r] \in CallerRow /\ account \in AccountRow /\ user \in UserRow
    BY DEF AccountInv, AccountTypeOK, CallerRow, UserRow
  <1>2. CASE StartRegister(r)
    <2> DEFINE row == [Resting EXCEPT !.for = "register", !.seen = account,
                                      !.at = IF provider THEN "register" ELSE "store"]
    <2>1. /\ row \in CallerRow /\ row.at = IF provider THEN "register" ELSE "store"
          /\ ~row.fixed
      BY <1>1, RestingFits DEF Resting, CallerRow, Stage
    <2>2. callers' = [callers EXCEPT ![r] = row] /\ ~Ending(callers[r])
          /\ UNCHANGED <<provider, user, account, codes, sessions, spared>>
      BY <1>2, RestingFits DEF StartRegister
    <2>3. CallerFits(row)
      <3> HIDE DEF row
      <3> QED BY <2>1 DEF CallerFits, ProvedFits, LocalFits, Marking
    <2> HIDE DEF row
    <2> QED BY <2>1, <2>2, <2>3, CallerReads
  <1>3. CASE ProviderRegister(r)
    <2>1. callers[r].at = "register" /\ ~Ending(callers[r]) /\ provider
      BY <1>3 DEF ProviderRegister, Ending, AccountInv, AccountTypeOK, CallerFits, LocalFits
    <2>2. CASE user.exists
      BY <1>3, <2>1, <2>2, RejectionKeeps DEF ProviderRegister
    <2>3. CASE ~user.exists
      <3>1. PICK row \in CallerRow : row = [callers[r] EXCEPT !.at = "store"]
        BY <1>1 DEF CallerRow, Stage
      <3>2. callers' = [callers EXCEPT ![r] = row] /\ row.at = "store"
            /\ UNCHANGED <<provider, account, codes, sessions, spared>>
            /\ user' = [user EXCEPT !.exists = TRUE]
        BY <1>1, <1>3, <2>3, <3>1 DEF ProviderRegister, Goes, CallerRow
      <3>3. user' \in UserRow /\ user'.confirmed = user.confirmed /\ user'.password = user.password
        BY <1>1, <3>2 DEF UserRow
      <3>4. Forward /\ SessionsStay
        BY <3>2, <3>3 DEF Forward, SessionsStay, CodeUsed
      <3>5. RowFits' /\ CallerFits(row)'
        <4>1. RowFits'
          BY <3>2 DEF AccountInv, RowFits
        <4>2. ~row.fixed
          BY <1>1, <2>1, <3>1 DEF AccountInv, CallerFits, ProvedFits, CallerRow
        <4>3. CallerFits(row)'
          BY <2>1, <3>2, <4>2 DEF CallerFits, ProvedFits, LocalFits, Marking
        <4> QED BY <4>1, <4>3
      <3>6. /\ account' \in AccountRow /\ codes' \in [Code -> CodeRow]
            /\ sessions' \in [Session -> SessionRow] /\ spared' \subseteq Session
        BY <3>2 DEF AccountInv, AccountTypeOK, CodeRow, SessionRow
      <3>7. account'.verified => account.verified
        BY <3>2
      <3> QED BY <2>1, <3>2, <3>3, <3>4, <3>5, <3>6, <3>7, CallerMoves
    <2> QED BY <2>2, <2>3
  <1>4. CASE StoreRegistration(r)
    <2>1. callers[r].at = "store" /\ ~Ending(callers[r])
      BY <1>4 DEF StoreRegistration, Ending
    <2>2. CASE account.exists /\ ~callers[r].seen.exists
      BY <1>4, <2>1, <2>2, RejectionKeeps DEF StoreRegistration
    <2>3. CASE ~account.exists \/ callers[r].seen.exists
      <3>1. /\ callers' = [callers EXCEPT ![r] = Resting]
            /\ UNCHANGED <<provider, user, codes, sessions, spared>>
        BY <1>4, <2>3 DEF StoreRegistration, Rests
      <3>2. PICK attached \in BOOLEAN :
                /\ account' = [account EXCEPT !.exists = TRUE, !.named = TRUE, !.attached = attached]
                /\ account.attached => attached
        <4>1. CASE provider
          BY <1>4, <2>3, <4>1 DEF StoreRegistration
        <4>2. CASE ~provider
          <5>1. account.attached \in BOOLEAN
            BY <1>1 DEF AccountRow
          <5>2. (account.attached \/ provider) = account.attached
            BY <4>2, <5>1
          <5> QED BY <1>4, <2>3, <5>1, <5>2 DEF StoreRegistration
        <4> QED BY <4>1, <4>2
      <3>3. /\ account' \in AccountRow /\ account'.exists /\ account'.named
            /\ account.attached => account'.attached
            /\ account'.verified = account.verified /\ account'.waived = account.waived
        BY <1>1, <3>2 DEF AccountRow
      <3>4. CallerFits(Resting)'
        BY DEF Resting, CallerFits, ProvedFits, LocalFits, Marking
      <3> QED BY <2>1, <3>1, <3>3, <3>4, RestingFits, CallerWrites
    <2> QED BY <2>2, <2>3
  <1> QED BY <1>2, <1>3, <1>4

LEMMA StartKeeps ==
    ASSUME AccountInv, NEW r \in Caller, NEW for \in {"verify", "login", "reset", "change"},
           StartProof(r, for)
    PROVE  AccountInv'
  <1>1. callers[r] \in CallerRow /\ account \in AccountRow /\ user \in UserRow
    BY DEF AccountInv, AccountTypeOK, CallerRow, UserRow
  <1>2. PICK row \in CallerRow :
            /\ row = [Resting EXCEPT !.at = "resolve", !.for = for, !.seen = account,
                                     !.password = user.password]
            /\ row.at = "resolve" /\ row.for = for /\ ~row.fixed
    <2> DEFINE new == [Resting EXCEPT !.at = "resolve", !.for = for, !.seen = account,
                                      !.password = user.password]
    <2>1. new \in CallerRow /\ new.at = "resolve" /\ new.for = for /\ ~new.fixed
      BY <1>1, RestingFits DEF Resting, CallerRow, Stage, UserRow
    <2> QED BY <2>1
  <1>3. /\ callers' = [callers EXCEPT ![r] = row] /\ ~Ending(callers[r]) /\ provider
        /\ UNCHANGED <<provider, account, codes, sessions, spared>>
    BY <1>2, RestingFits DEF StartProof
  <1>4. /\ user' \in UserRow /\ user'.password = user.password
        /\ user.confirmed => user'.confirmed
        /\ for \in {"verify", "reset"} => user'.confirmed
    <2>1. user' = [user EXCEPT !.confirmed = @ \/ for \in {"verify", "reset"}]
      BY DEF StartProof
    <2>2. CASE for \in {"verify", "reset"}
      <3>1. user' = [user EXCEPT !.confirmed = TRUE]
        BY <2>1, <2>2
      <3> QED BY <1>1, <3>1 DEF UserRow
    <2>3. CASE for \notin {"verify", "reset"}
      <3>1. user.confirmed \in BOOLEAN
        BY <1>1 DEF UserRow
      <3>2. user' = [user EXCEPT !.confirmed = user.confirmed]
        BY <2>1, <2>3, <3>1
      <3> QED BY <1>1, <2>3, <3>2 DEF UserRow
    <2> QED BY <2>2, <2>3
  <1>5. Forward /\ SessionsStay
    BY <1>3, <1>4 DEF Forward, SessionsStay, CodeUsed
  <1>6. RowFits' /\ CallerFits(row)'
    BY <1>2, <1>3, <1>4 DEF AccountInv, RowFits, CallerFits, ProvedFits, LocalFits, Marking
  <1>7. /\ account' \in AccountRow /\ codes' \in [Code -> CodeRow]
        /\ sessions' \in [Session -> SessionRow] /\ spared' \subseteq Session
    BY <1>3 DEF AccountInv, AccountTypeOK, CodeRow, SessionRow
  <1>8. account'.verified => account.verified
    BY <1>3
  <1> QED BY <1>3, <1>4, <1>5, <1>6, <1>7, <1>8, CallerMoves

\* A fixed code relies on the row as it finds it.
LEMMA FixedKeeps ==
    ASSUME AccountInv, NEW r \in Caller, NEW for \in {"verify", "reset"}, StartFixed(r, for)
    PROVE  AccountInv'
  <1> DEFINE row == [Resting EXCEPT !.for = for, !.fixed = TRUE,
                                    !.at = IF for = "reset" THEN "password" ELSE "mark"]
  <1>1. /\ row \in CallerRow /\ row.for = for /\ row.fixed
        /\ row.at = IF for = "reset" THEN "password" ELSE "mark"
    BY RestingFits DEF Resting, CallerRow, Stage
  <1>2. /\ callers' = [callers EXCEPT ![r] = row] /\ ~Ending(callers[r]) /\ provider
        /\ FixedOtp /\ account.exists /\ (for = "reset" => account.attached)
        /\ UNCHANGED <<provider, user, account, codes, sessions, spared>>
    BY RestingFits DEF StartFixed
  <1> HIDE DEF row
  <1>3. CallerFits(row)
    BY <1>1, <1>2 DEF CallerFits, ProvedFits, Marking
  <1>4. ~Ending(callers[r]) \/ Ending(row)
    BY <1>2
  <1> QED BY <1>1, <1>2, <1>3, <1>4, CallerReads

\* The projection of the provider's user onto the row.
LEMMA ResolutionKeeps ==
    ASSUME AccountInv, NEW r \in Caller,
           ResolveAccount(r) \/ CreateInvitedAccount(r) \/ AttachUser(r)
    PROVE  AccountInv'
  <1>1. callers[r] \in CallerRow /\ account \in AccountRow
    BY DEF AccountInv, AccountTypeOK, CallerRow
  <1>2. /\ callers[r].at \in {"resolve", "create", "attach"} /\ ~Ending(callers[r])
        /\ CallerFits(callers[r]) /\ provider /\ ~callers[r].fixed
    BY DEF ResolveAccount, CreateInvitedAccount, AttachUser, Ending, AccountInv, AccountTypeOK,
           CallerRow, CallerFits, ProvedFits, LocalFits
  <1>3. ASSUME NEW seen \in AccountRow, account' = [account EXCEPT !.attached = TRUE],
               seen.named => account.named, account.exists, Found(r, seen),
               UNCHANGED <<provider, user, codes, sessions, spared>>
        PROVE  AccountInv'
    <2>1. PICK row \in CallerRow :
              /\ callers' = [callers EXCEPT ![r] = row]
              /\ row.seen = seen /\ row.for = callers[r].for /\ ~row.fixed
              /\ row.at = IF callers[r].for = "change" THEN "password" ELSE "hydrate"
      <3> DEFINE new == [callers[r] EXCEPT !.seen = seen,
                            !.at = IF callers[r].for = "change" THEN "password" ELSE "hydrate"]
      <3>1. callers' = [callers EXCEPT ![r] = new]
        BY <1>3 DEF Found
      <3>2. /\ new \in CallerRow /\ new.seen = seen /\ new.for = callers[r].for /\ ~new.fixed
            /\ new.at = IF callers[r].for = "change" THEN "password" ELSE "hydrate"
        BY <1>1, <1>2, <1>3 DEF CallerRow, Stage
      <3> HIDE DEF new
      <3> QED BY <3>1, <3>2
    <2>2. /\ account' \in AccountRow /\ account'.exists /\ account'.attached
          /\ account'.named = account.named /\ account'.verified = account.verified
          /\ account'.waived = account.waived
      BY <1>1, <1>3 DEF AccountRow
    <2>3. CallerFits(row)'
      <3>1. row.for \in {"verify", "login", "reset", "change"}
            /\ row.for \in {"verify", "reset"} => user.confirmed
        BY <1>2, <2>1 DEF CallerFits, ProvedFits
      <3> QED BY <1>2, <1>3, <2>1, <2>2, <3>1 DEF CallerFits, ProvedFits, Marking
    <2> QED BY <1>2, <1>3, <2>1, <2>2, <2>3, CallerWrites
  <1>4. CASE ResolveAccount(r)
    <2>1. CASE account.exists
      <3>1. /\ account' = [account EXCEPT !.attached = TRUE] /\ Found(r, account')
            /\ UNCHANGED <<provider, user, codes, sessions, spared>>
        BY <1>4, <2>1 DEF ResolveAccount
      <3>2. account' \in AccountRow /\ account'.named = account.named
        BY <1>1, <3>1 DEF AccountRow
      <3> QED BY <1>3, <2>1, <3>1, <3>2
    <2>2. CASE ~account.exists /\ callers[r].for = "reset"
      BY <1>2, <1>4, <2>2, RejectionKeeps DEF ResolveAccount
    <2>3. CASE ~account.exists /\ callers[r].for # "reset"
      <3> DEFINE row == [callers[r] EXCEPT !.at = "create"]
      <3>1. /\ row \in CallerRow /\ row.at = "create" /\ row.for = callers[r].for
            /\ row.fixed = callers[r].fixed
        BY <1>1 DEF CallerRow, Stage
      <3>2. /\ callers' = [callers EXCEPT ![r] = row]
            /\ UNCHANGED <<provider, user, account, codes, sessions, spared>>
        BY <1>4, <2>3 DEF ResolveAccount, Goes
      <3>3. callers[r].at = "resolve"
        BY <1>4 DEF ResolveAccount
      <3> HIDE DEF row
      <3>4. CallerFits(row)
        BY <1>2, <3>1, <3>3 DEF CallerFits, ProvedFits, Marking
      <3> QED BY <1>2, <3>1, <3>2, <3>4, CallerReads
    <2> QED BY <2>1, <2>2, <2>3
  <1>5. CASE CreateInvitedAccount(r)
    <2>1. CASE account.exists
      <3>1. /\ account' = [account EXCEPT !.attached = TRUE] /\ Found(r, account')
            /\ UNCHANGED <<provider, user, codes, sessions, spared>>
        BY <1>5, <2>1 DEF CreateInvitedAccount
      <3>2. account' \in AccountRow /\ account'.named = account.named
        BY <1>1, <3>1 DEF AccountRow
      <3> QED BY <1>3, <2>1, <3>1, <3>2
    <2>2. CASE ~account.exists
      <3>1. /\ account' = [NoAccount EXCEPT !.exists = TRUE]
            /\ callers' = [callers EXCEPT ![r].at = "attach", ![r].seen = account']
            /\ UNCHANGED <<provider, user, codes, sessions, spared>>
            /\ callers[r].at = "create"
        BY <1>5, <2>2 DEF CreateInvitedAccount
      <3>2. account = NoAccount
        BY <2>2 DEF AccountInv, RowFits
      <3>3. /\ account' \in AccountRow /\ account'.exists
            /\ ~account'.named /\ ~account'.verified /\ ~account'.attached
            /\ ~account.attached /\ ~account.named /\ account.waived = account'.waived
        BY <3>1, <3>2 DEF NoAccount, AccountRow
      <3>4. PICK row \in CallerRow :
                /\ callers' = [callers EXCEPT ![r] = row]
                /\ row.seen = account' /\ row.for = callers[r].for /\ row.at = "attach"
                /\ ~row.fixed
        <4>1. PICK seen \in AccountRow : seen = account'
          BY <3>3
        <4> DEFINE new == [callers[r] EXCEPT !.at = "attach", !.seen = seen]
        <4>2. callers' = [callers EXCEPT ![r] = new]
          BY <3>1, <4>1
        <4>3. /\ new \in CallerRow /\ new.seen = seen /\ new.for = callers[r].for
              /\ new.at = "attach" /\ ~new.fixed
          BY <1>1, <1>2 DEF CallerRow, Stage
        <4> HIDE DEF new
        <4> QED BY <4>1, <4>2, <4>3
      <3>5. CallerFits(row)'
        BY <1>2, <3>1, <3>3, <3>4 DEF CallerFits, ProvedFits, Marking
      <3> QED BY <1>2, <3>1, <3>3, <3>4, <3>5, CallerWrites
    <2> QED BY <2>1, <2>2
  <1>6. CASE AttachUser(r)
    <2>1. /\ account' = [account EXCEPT !.attached = TRUE]
          /\ Found(r, [callers[r].seen EXCEPT !.attached = TRUE])
          /\ UNCHANGED <<provider, user, codes, sessions, spared>>
          /\ callers[r].at = "attach"
      BY <1>6 DEF AttachUser
    <2>2. /\ [callers[r].seen EXCEPT !.attached = TRUE] \in AccountRow
          /\ [callers[r].seen EXCEPT !.attached = TRUE].named = callers[r].seen.named
      BY <1>1 DEF CallerRow, AccountRow
    <2>3. (callers[r].seen.named => account.named) /\ account.exists
      BY <1>2, <2>1 DEF CallerFits, ProvedFits
    <2> QED BY <1>3, <2>1, <2>2, <2>3
  <1> QED BY <1>4, <1>5, <1>6

\* The row has its names before it is marked, whatever the request had seen of it.
LEMMA HydrationKeeps ==
    ASSUME AccountInv, NEW r \in Caller, HydrateAccount(r)
    PROVE  AccountInv'
  <1>1. callers[r] \in CallerRow /\ account \in AccountRow
    BY DEF AccountInv, AccountTypeOK, CallerRow
  <1>2. /\ callers[r].at = "hydrate" /\ ~Ending(callers[r]) /\ provider
        /\ callers[r].for \in {"verify", "login", "reset"} /\ account.attached
        /\ callers[r].seen.named => account.named
        /\ callers[r].for \in {"verify", "reset"} => user.confirmed
        /\ ~callers[r].fixed
    BY DEF HydrateAccount, Ending, AccountInv, AccountTypeOK, CallerRow, CallerFits, ProvedFits,
           LocalFits
  <1>3. account.exists
    BY <1>2 DEF AccountInv, RowFits, NoAccount
  <1>4. PICK row \in CallerRow :
            /\ callers' = [callers EXCEPT ![r] = row] /\ row.for = callers[r].for
            /\ row.at = IF callers[r].for = "reset" THEN "password" ELSE "mark"
            /\ ~row.fixed
    <2> DEFINE new == [callers[r] EXCEPT !.at = IF callers[r].for = "reset" THEN "password" ELSE "mark"]
    <2>1. callers' = [callers EXCEPT ![r] = new]
      BY DEF HydrateAccount, Goes
    <2>2. /\ new \in CallerRow /\ new.for = callers[r].for /\ ~new.fixed
          /\ new.at = IF callers[r].for = "reset" THEN "password" ELSE "mark"
      BY <1>1, <1>2 DEF CallerRow, Stage
    <2> HIDE DEF new
    <2> QED BY <2>1, <2>2
  <1>5. account' = [account EXCEPT !.named = TRUE]
    <2>1. account' = [account EXCEPT !.named = @ \/ NeedsProjection(callers[r].seen)]
      BY DEF HydrateAccount
    <2>2. account.named \/ NeedsProjection(callers[r].seen)
      BY <1>1, <1>2 DEF NeedsProjection, CallerRow, AccountRow
    <2>3. (account.named \/ NeedsProjection(callers[r].seen)) = TRUE
      BY <2>2
    <2> QED BY <2>1, <2>3
  <1>6. /\ account' \in AccountRow /\ account'.exists /\ account'.named /\ account'.attached
        /\ account'.verified = account.verified /\ account'.waived = account.waived
    BY <1>1, <1>2, <1>3, <1>5 DEF AccountRow
  <1>7. UNCHANGED <<provider, user, codes, sessions, spared>>
    BY DEF HydrateAccount
  <1>8. CallerFits(row)'
    BY <1>2, <1>4, <1>6, <1>7 DEF CallerFits, ProvedFits, Marking
  <1> QED BY <1>2, <1>4, <1>6, <1>7, <1>8, CallerWrites

LEMMA MarkingKeeps ==
    ASSUME AccountInv, NEW r \in Caller, MarkVerified(r)
    PROVE  AccountInv'
  <1>1. callers[r] \in CallerRow /\ account \in AccountRow
    BY DEF AccountInv, AccountTypeOK, CallerRow
  <1>2. /\ callers[r].at = "mark" /\ callers[r].for \in {"verify", "login", "reset"}
        /\ CallerFits(callers[r]) /\ provider \in BOOLEAN
    BY DEF MarkVerified, AccountInv, AccountTypeOK, CallerFits
  <1>3. account.exists /\ (~callers[r].fixed => account.named) /\ (~provider => account.named)
    BY <1>1, <1>2 DEF CallerRow, CallerFits, ProvedFits, LocalFits, Marking, AccountInv, RowFits,
                      NoAccount
  <1>4. CASE /\ callers[r].for # "login" \/ user.confirmed
             /\ account' = [account EXCEPT !.verified = TRUE,
                        !.waived = @ \cup {f \in {callers[r].for} : callers[r].fixed}]
             /\ \/ callers[r].for = "verify" /\ Rests(r)
                \/ callers[r].for # "verify"
                   /\ Goes(r, IF callers[r].for = "login" THEN "open" ELSE "revoke")
             /\ UNCHANGED <<provider, user, codes, sessions, spared>>
    <2>1. PICK row \in CallerRow :
              /\ callers' = [callers EXCEPT ![r] = row]
              /\ row.at \in {"idle", "open", "revoke"}
              /\ callers[r].for = "reset" => Ending(row)
              /\ row.fixed => callers[r].fixed /\ row.for = callers[r].for
      <3>1. CASE callers[r].for = "verify"
        BY <1>4, <3>1, RestingFits DEF Rests, Resting
      <3>2. CASE callers[r].for \in {"login", "reset"}
        <4> DEFINE new == [callers[r] EXCEPT !.at =
                              IF callers[r].for = "login" THEN "open" ELSE "revoke"]
        <4>1. callers' = [callers EXCEPT ![r] = new]
          BY <1>4, <3>2 DEF Goes
        <4>2. /\ new \in CallerRow /\ new.for = callers[r].for /\ new.fixed = callers[r].fixed
              /\ new.at = IF callers[r].for = "login" THEN "open" ELSE "revoke"
          BY <1>1 DEF CallerRow, Stage
        <4> HIDE DEF new
        <4>3. new.at \in {"idle", "open", "revoke"} /\ (callers[r].for = "reset" => Ending(new))
          BY <4>2 DEF Ending
        <4> QED BY <4>1, <4>2, <4>3
      <3> QED BY <1>2, <3>1, <3>2
    <2> DEFINE waived == account.waived \cup {f \in {callers[r].for} : callers[r].fixed}
    <2>6. /\ account.waived \in SUBSET {"verify", "reset"}
          /\ callers[r].fixed =>
                 /\ provider /\ FixedOtp /\ callers[r].for \in {"verify", "reset"}
                 /\ waived = account.waived \cup {callers[r].for}
                 /\ callers[r].for = "reset" => account.attached
          /\ ~callers[r].fixed => waived = account.waived
      BY <1>1, <1>2 DEF AccountRow, CallerRow, CallerFits, ProvedFits, LocalFits
    <2>7. account' = [account EXCEPT !.verified = TRUE, !.waived = waived]
      BY <1>4
    <2> HIDE DEF waived
    <2>8. waived \in SUBSET {"verify", "reset"} /\ account.waived \subseteq waived
          /\ (waived # {} => account.waived # {} \/ (provider /\ FixedOtp))
      BY <1>1, <2>6 DEF CallerRow
    <2>2. /\ account' \in AccountRow /\ account'.exists /\ account'.named = account.named
          /\ account'.attached = account.attached /\ account'.waived = waived
      BY <1>1, <1>3, <2>7, <2>8 DEF AccountRow
    <2>3. CallerFits(row)'
      <3>1. provider' => ~callers[r].fixed \/ (FixedOtp /\ callers[r].for \in {"verify", "reset"})
        BY <2>6
      <3>2. ~provider => ~row.fixed
        BY <2>1, <2>6
      <3>3. provider' = provider
        BY <1>4
      <3> QED BY <2>1, <2>2, <2>6, <3>1, <3>2, <3>3 DEF CallerFits, ProvedFits, LocalFits, Marking
    <2>4. Complete'
      <3>1. provider /\ ~callers[r].fixed => account.attached /\ user.confirmed
        BY <1>2, <1>4 DEF CallerFits, ProvedFits, Marking
      <3>2. ~provider => CodeUsed /\ account.named
        BY <1>2, <1>3 DEF CallerFits, LocalFits, Marking
      <3>3. callers[r].fixed => waived # {} /\ (waived \subseteq {"reset"} => account.attached)
        BY <1>1, <2>6 DEF CallerRow
      <3>4. callers[r].fixed \in BOOLEAN /\ UNCHANGED <<provider, user, codes>>
        BY <1>1, <1>4 DEF CallerRow
      <3>5. CASE ~provider
        BY <2>2, <3>2, <3>4, <3>5 DEF Complete, CodeUsed
      <3>6. CASE provider /\ callers[r].fixed
        BY <2>2, <3>3, <3>4, <3>6 DEF Complete
      <3>7. CASE provider /\ ~callers[r].fixed
        BY <1>3, <2>2, <3>1, <3>4, <3>7 DEF Complete
      <3> QED BY <1>2, <3>4, <3>5, <3>6, <3>7
    <2>5. ~Ending(callers[r]) \/ Ending(row)
      BY <1>2, <2>1 DEF Ending
    <2>9. UNCHANGED <<provider, user, codes, sessions, spared>>
      BY <1>4
    <2> QED BY <1>3, <2>1, <2>2, <2>3, <2>4, <2>5, <2>8, <2>9, CallerWrites
  <1>5. CASE /\ callers[r].for = "login" /\ account.verified /\ Goes(r, "open")
             /\ UNCHANGED <<provider, user, account, codes, sessions, spared>>
    <2> DEFINE row == [callers[r] EXCEPT !.at = "open"]
    <2>1. row \in CallerRow /\ row.at = "open" /\ ~row.fixed
      <3>1. ~callers[r].fixed
        BY <1>1, <1>2, <1>5 DEF CallerRow, CallerFits, ProvedFits, LocalFits
      <3> QED BY <1>1, <3>1 DEF CallerRow, Stage
    <2>2. callers' = [callers EXCEPT ![r] = row] /\ ~Ending(callers[r])
      BY <1>5 DEF Goes, Ending
    <2> HIDE DEF row
    <2>3. CallerFits(row)
      BY <2>1 DEF CallerFits, ProvedFits, LocalFits, Marking
    <2> QED BY <1>5, <2>1, <2>2, <2>3, CallerReads
  <1>6. CASE callers[r].for = "login" /\ Rejected(r)
    <2>1. ~Ending(callers[r])
      BY <1>6 DEF Ending
    <2> QED BY <1>6, <2>1, RejectionKeeps
  <1> QED BY <1>4, <1>5, <1>6 DEF MarkVerified

\* A change of password leaves no session but those of before, which the request ends.
LEMMA PasswordsKeep ==
    ASSUME AccountInv, NEW r \in Caller, ChangePassword(r)
    PROVE  AccountInv'
  <1>1. callers[r] \in CallerRow /\ user \in UserRow
    BY DEF AccountInv, AccountTypeOK, CallerRow, UserRow
  <1>2. /\ callers[r].at = "password" /\ callers[r].for \in {"reset", "change"}
        /\ CallerFits(callers[r]) /\ user.password < MaxPasswords
    BY DEF ChangePassword, AccountInv, CallerFits
  <1>3. PICK row \in CallerRow :
            /\ callers' = [callers EXCEPT ![r] = row] /\ row.for = callers[r].for
            /\ row.at = IF callers[r].for = "reset" THEN "mark" ELSE "revoke"
            /\ row.fixed = callers[r].fixed /\ row.fixed \in BOOLEAN
    <2> DEFINE new == [callers[r] EXCEPT !.at = IF callers[r].for = "reset" THEN "mark" ELSE "revoke"]
    <2>1. callers' = [callers EXCEPT ![r] = new]
      BY DEF ChangePassword, Goes
    <2>2. /\ new \in CallerRow /\ new.for = callers[r].for
          /\ new.at = IF callers[r].for = "reset" THEN "mark" ELSE "revoke"
          /\ new.fixed = callers[r].fixed /\ new.fixed \in BOOLEAN
      BY <1>1 DEF CallerRow, Stage
    <2> HIDE DEF new
    <2> QED BY <2>1, <2>2
  <1>4. /\ user' = [user EXCEPT !.password = user.password + 1]
        /\ UNCHANGED <<provider, account, codes, sessions, spared>>
    BY DEF ChangePassword
  <1>5. user' \in UserRow /\ user'.confirmed = user.confirmed
    <2>1. user.password + 1 \in 0..MaxPasswords
      BY <1>1, <1>2, AccountsAssumption DEF UserRow
    <2> QED BY <1>1, <1>4, <2>1 DEF UserRow
  <1>6. /\ account' \in AccountRow /\ codes' \in [Code -> CodeRow]
        /\ sessions' \in [Session -> SessionRow] /\ spared' \subseteq Session
    BY <1>4 DEF AccountInv, AccountTypeOK, CodeRow, SessionRow
  <1>7. Forward /\ RowFits'
    BY <1>4, <1>5 DEF Forward, CodeUsed, AccountInv, RowFits
  <1>8. CallerFits(row)'
    <2>1. callers[r].for = "reset" /\ provider /\ ~callers[r].fixed =>
              account.attached /\ account.named /\ user.confirmed
      BY <1>2 DEF CallerFits, ProvedFits, Marking
    <2>2. /\ ~provider => ~callers[r].fixed
          /\ callers[r].for = "reset" /\ ~provider => account.exists /\ CodeUsed
      BY <1>2 DEF CallerFits, LocalFits, Marking
    <2>3. provider /\ callers[r].fixed => FixedOtp /\ account.exists /\ callers[r].for = "reset"
                                          /\ account.attached
      BY <1>2 DEF CallerFits, ProvedFits
    <2> QED BY <1>2, <1>3, <1>4, <1>5, <2>1, <2>2, <2>3
            DEF CallerFits, ProvedFits, LocalFits, Marking, CodeUsed
  <1>9. Ending(row)
    BY <1>2, <1>3 DEF Ending
  <1>10. account'.verified => account.verified
    BY <1>4
  <1> QED BY <1>3, <1>5, <1>6, <1>7, <1>8, <1>9, <1>10, CallerMoves

\* Sessions of a set end, and the request goes on to `row`.
LEMMA EndingKeeps ==
    ASSUME AccountInv, NEW r \in Caller, NEW row \in CallerRow, NEW set \in SUBSET Session,
           callers' = [callers EXCEPT ![r] = row], CallerFits(row), EndSessions(set),
           UNCHANGED <<provider, user, account, codes, spared>>,
           ~Ending(callers[r]) \/ Active \subseteq set
    PROVE  AccountInv'
  <1>1. /\ account' \in AccountRow /\ user' \in UserRow /\ codes' \in [Code -> CodeRow]
        /\ spared' \subseteq Session
    BY DEF AccountInv, AccountTypeOK, UserRow, CodeRow
  <1>2. sessions \in [Session -> SessionRow]
    BY DEF AccountInv, AccountTypeOK, SessionRow
  <1>3. \A s \in Session : sessions'[s] =
            IF s \in set THEN [sessions[s] EXCEPT !.status = "revoked"] ELSE sessions[s]
    BY DEF EndSessions
  <1>4. \A s \in Session : sessions'[s] \in SessionRow
                           /\ (s \in set => sessions'[s].status = "revoked")
    BY <1>2, <1>3 DEF SessionRow
  <1>5. sessions' \in [Session -> SessionRow]
    BY <1>4 DEF EndSessions
  <1>6. Forward /\ SessionsStay
    BY <1>3, <1>4 DEF Forward, SessionsStay, CodeUsed
  <1>7. RowFits' /\ CallerFits(row)'
    BY DEF AccountInv, RowFits, CallerFits, ProvedFits, LocalFits, Marking, CodeUsed
  <1>8. CASE Active \subseteq set
    <2>1. PasswordEndsSessions'
      BY <1>3, <1>4, <1>8 DEF PasswordEndsSessions, Active
    <2> QED BY <1>1, <1>5, <1>6, <1>7, <2>1, CallerMoves
  <1>9. CASE ~Ending(callers[r])
    BY <1>1, <1>5, <1>6, <1>7, <1>9, CallerMoves
  <1> QED BY <1>8, <1>9

LEMMA RevocationKeeps ==
    ASSUME AccountInv, NEW r \in Caller, RevokeSessions(r)
    PROVE  AccountInv'
  <1>1. Active \in SUBSET Session /\ EndSessions(Active)
    BY DEF Active, RevokeSessions, Revocable
  <1> HIDE DEF Active
  <1> QED BY <1>1, RestingFits, EndingKeeps DEF RevokeSessions, Rests

\* A session opened for a password that has changed meanwhile is one that the change
\* could not see.
LEMMA OpeningKeeps ==
    ASSUME AccountInv, NEW r \in Caller, OpenSession(r)
    PROVE  AccountInv'
  <1>1. callers[r] \in CallerRow /\ ~Ending(callers[r])
    BY DEF AccountInv, AccountTypeOK, CallerRow, OpenSession, Ending
  <1>2. PICK s \in Session :
            /\ sessions' = [sessions EXCEPT ![s] = [status |-> "active",
                                                    password |-> callers[r].password]]
            /\ spared' = IF callers[r].password # user.password THEN spared \cup {s} ELSE spared
    BY DEF OpenSession
  <1>3. callers' = [callers EXCEPT ![r] = Resting] /\ UNCHANGED <<provider, user, account, codes>>
    BY DEF OpenSession, Rests
  <1>4. /\ account' \in AccountRow /\ user' \in UserRow /\ codes' \in [Code -> CodeRow]
        /\ spared' \subseteq Session
    BY <1>2, <1>3 DEF AccountInv, AccountTypeOK, UserRow, CodeRow
  <1>5. sessions' \in [Session -> SessionRow]
    BY <1>1, <1>2 DEF AccountInv, AccountTypeOK, SessionRow, CallerRow
  <1>6. \A q \in Caller : callers'[q] = IF q = r THEN Resting ELSE callers[q]
    BY <1>3 DEF AccountInv, AccountTypeOK
  <1>7. PasswordEndsSessions'
    <2> SUFFICES ASSUME NEW t \in Session, sessions'[t].status = "active"
                 PROVE  \/ sessions'[t].password = user'.password
                        \/ t \in spared'
                        \/ \E q \in Caller : Ending(callers'[q])
      BY DEF PasswordEndsSessions, Active, Ending
    <2>1. CASE t = s
      BY <1>2, <1>3, <2>1 DEF AccountInv, AccountTypeOK
    <2>2. CASE t # s
      <3>1. sessions'[t] = sessions[t] /\ t \in Active
        BY <1>2, <2>2 DEF Active, AccountInv, AccountTypeOK
      <3>2. spared \subseteq spared'
        BY <1>2
      <3>3. CASE \E q \in Caller : Ending(callers[q])
        BY <1>1, <1>6, <3>3
      <3> QED BY <1>3, <3>1, <3>2, <3>3 DEF AccountInv, PasswordEndsSessions, Ending
    <2> QED BY <2>1, <2>2
  <1>8. Forward /\ RowFits' /\ CallerFits(Resting)'
    BY <1>3, RestingFits DEF Forward, CodeUsed, AccountInv, RowFits, CallerFits, ProvedFits,
                             LocalFits, Marking, Resting
  <1>9. account'.verified => account.verified
    BY <1>3
  <1> QED BY <1>3, <1>4, <1>5, <1>7, <1>8, <1>9, RestingFits, CallerMoves

LEMMA RefreshKeeps ==
    ASSUME AccountInv, NEW r \in Caller,
           RotateSession(r) \/ \E s \in Session : FindSession(r, s)
    PROVE  AccountInv'
  <1>1. callers[r] \in CallerRow
    BY DEF AccountInv, AccountTypeOK, CallerRow
  <1>2. CASE RotateSession(r)
    <2> DEFINE row == [callers[r] EXCEPT !.at = "open"]
    <2>0. callers[r].at = "rotate" /\ CallerFits(callers[r])
      BY <1>2 DEF RotateSession, AccountInv
    <2>1. /\ row \in CallerRow /\ row.at = "open" /\ row.for = callers[r].for
          /\ row.fixed = callers[r].fixed
      BY <1>1 DEF CallerRow, Stage
    <2>2. callers' = [callers EXCEPT ![r] = row] /\ ~Ending(callers[r])
      BY <1>2 DEF RotateSession, Goes, Ending
    <2> HIDE DEF row
    <2>3. CallerFits(row)
      BY <2>0, <2>1 DEF CallerFits, ProvedFits, LocalFits, Marking
    <2>4. callers[r].session \in SUBSET Session
      BY <1>1 DEF CallerRow
    <2> QED BY <1>2, <2>1, <2>2, <2>3, <2>4, EndingKeeps DEF RotateSession
  <1>3. ASSUME NEW s \in Session, FindSession(r, s)
        PROVE  AccountInv'
    <2> DEFINE row == [Resting EXCEPT !.at = "rotate", !.for = "refresh",
                                      !.password = sessions[s].password, !.session = {s}]
    <2>1. row \in CallerRow /\ row.at = "rotate" /\ ~row.fixed
      BY RestingFits DEF Resting, CallerRow, Stage, AccountInv, AccountTypeOK
    <2>2. callers' = [callers EXCEPT ![r] = row] /\ ~Ending(callers[r])
          /\ UNCHANGED <<provider, user, account, codes, sessions, spared>>
      BY <1>3, RestingFits DEF FindSession
    <2> HIDE DEF row
    <2>3. CallerFits(row)
      BY <2>1 DEF CallerFits, ProvedFits, LocalFits, Marking
    <2> QED BY <2>1, <2>2, <2>3, CallerReads
  <1> QED BY <1>2, <1>3

\* Codes, and a session that ends, while the requests stand still.
LEMMA StandingKeeps ==
    ASSUME AccountInv, UNCHANGED <<provider, user, account, callers, spared>>,
           codes' \in [Code -> CodeRow], sessions' \in [Session -> SessionRow],
           CodeUsed => CodeUsed', SessionsStay,
           (\E i \in Code : codes'[i].purpose # "none") /\ ~provider => account.exists
    PROVE  AccountInv'
  <1>1. AccountTypeOK'
    BY DEF AccountInv, AccountTypeOK, CodeRow, SessionRow
  <1>2. RowFits' /\ (account'.verified => Complete')
    BY DEF AccountInv, RowFits, Complete
  <1>3. ASSUME NEW q \in Caller
        PROVE  CallerFits(callers[q])'
    BY DEF AccountInv, CallerFits, ProvedFits, LocalFits, Marking
  <1>4. PasswordEndsSessions'
    BY DEF AccountInv, PasswordEndsSessions, SessionsStay, Active
  <1> QED BY <1>1, <1>2, <1>3, <1>4 DEF AccountInv

LEMMA LogoutKeeps ==
    ASSUME AccountInv, NEW r \in Caller, NEW s \in Session, EndSession(r, s)
    PROVE  AccountInv'
  <1>1. sessions \in [Session -> SessionRow]
    BY DEF AccountInv, AccountTypeOK, SessionRow
  <1>2. \A t \in Session : sessions'[t] =
            IF t = s THEN [sessions[t] EXCEPT !.status = "revoked"] ELSE sessions[t]
    BY DEF EndSession, EndSessions
  <1>3. \A t \in Session : sessions'[t] \in SessionRow
                           /\ (t = s => sessions'[t].status = "revoked")
    BY <1>1, <1>2 DEF SessionRow
  <1>4. sessions' \in [Session -> SessionRow]
    BY <1>3 DEF EndSession, EndSessions
  <1>5. SessionsStay
    BY <1>2, <1>3 DEF SessionsStay, EndSession
  <1>6. UNCHANGED <<provider, user, account, codes, callers, spared>>
    BY DEF EndSession
  <1> QED BY <1>4, <1>5, <1>6, StandingKeeps DEF CodeUsed, AccountInv, AccountTypeOK, CodeRow,
                                                 RowFits

LEMMA CodesKeep ==
    ASSUME AccountInv,
           \/ \E purpose \in {"verify", "reset"} : SendCode(purpose)
           \/ \E i \in Code : AgeCode(i)
    PROVE  AccountInv'
  <1>1. codes \in [Code -> CodeRow]
    BY DEF AccountInv, AccountTypeOK, CodeRow
  <1>2. UNCHANGED <<provider, user, account, sessions, callers, spared>>
    BY DEF SendCode, AgeCode
  <1>3. SessionsStay /\ sessions' \in [Session -> SessionRow]
    BY <1>2 DEF SessionsStay, AccountInv, AccountTypeOK, SessionRow
  <1>4. ASSUME NEW purpose \in {"verify", "reset"}, SendCode(purpose)
        PROVE  AccountInv'
    <2>1. PICK i \in Code : codes' = [codes EXCEPT ![i].purpose = purpose]
      BY <1>4 DEF SendCode
    <2>2. codes' \in [Code -> CodeRow] /\ \A j \in Code : codes'[j].used = codes[j].used
      BY <1>1, <2>1 DEF CodeRow
    <2>3. account.exists
      BY <1>4 DEF SendCode
    <2> QED BY <1>2, <1>3, <2>2, <2>3, StandingKeeps DEF CodeUsed
  <1>5. ASSUME NEW i \in Code, AgeCode(i)
        PROVE  AccountInv'
    <2>1. codes' = [codes EXCEPT ![i].old = TRUE]
      BY <1>5 DEF AgeCode
    <2>2. /\ codes' \in [Code -> CodeRow]
          /\ \A j \in Code : codes'[j].used = codes[j].used /\ codes'[j].purpose = codes[j].purpose
      BY <1>1, <2>1 DEF CodeRow
    <2>3. (\E j \in Code : codes'[j].purpose # "none") /\ ~provider => account.exists
      BY <2>2 DEF AccountInv, RowFits
    <2> QED BY <1>2, <1>3, <2>2, <2>3, StandingKeeps DEF CodeUsed
  <1> QED BY <1>4, <1>5

LEMMA SubmissionKeeps ==
    ASSUME AccountInv, NEW r \in Caller, NEW purpose \in {"verify", "reset"},
           SubmitCode(r, purpose)
    PROVE  AccountInv'
  <1>1. PICK i \in Code :
            /\ codes[i].purpose = purpose
            /\ callers' = [callers EXCEPT ![r] = [Resting EXCEPT !.at = "consume",
                                                    !.for = purpose, !.code = i]]
    BY DEF SubmitCode
  <1> DEFINE row == [Resting EXCEPT !.at = "consume", !.for = purpose, !.code = i]
  <1>2. row \in CallerRow /\ row.at = "consume" /\ row.for = purpose /\ ~row.fixed
    BY RestingFits DEF Resting, CallerRow, Stage
  <1>3. callers' = [callers EXCEPT ![r] = row] /\ ~Ending(callers[r]) /\ ~provider
        /\ UNCHANGED <<provider, user, account, codes, sessions, spared>>
    BY <1>1, RestingFits DEF SubmitCode
  <1> HIDE DEF row
  <1>4. CallerFits(row)
    <2>1. account.exists
      BY <1>1, <1>3 DEF AccountInv, RowFits
    <2> QED BY <1>2, <1>3, <2>1 DEF CallerFits, LocalFits, Marking
  <1> QED BY <1>2, <1>3, <1>4, CallerReads

LEMMA ConsumptionKeeps ==
    ASSUME AccountInv, NEW r \in Caller, ConsumeCode(r)
    PROVE  AccountInv'
  <1> DEFINE i == callers[r].code
  <1>1. callers[r] \in CallerRow /\ codes \in [Code -> CodeRow] /\ i \in Code
    BY DEF AccountInv, AccountTypeOK, CallerRow, CodeRow
  <1>2. /\ callers[r].at = "consume" /\ ~Ending(callers[r]) /\ provider \in BOOLEAN
        /\ CallerFits(callers[r])
        /\ UNCHANGED <<provider, user, account, sessions, spared>>
    BY DEF ConsumeCode, Ending, AccountInv, AccountTypeOK
  <1>3. ~provider => callers[r].for \in {"verify", "reset"} /\ account.exists
    BY <1>2 DEF CallerFits, LocalFits
  <1>4. SessionsStay /\ sessions' \in [Session -> SessionRow] /\ account' \in AccountRow
        /\ user' \in UserRow /\ spared' \subseteq Session
    BY <1>2 DEF SessionsStay, AccountInv, AccountTypeOK, SessionRow, UserRow
  <1>5. ~provider
    BY <1>2 DEF CallerFits, ProvedFits, AccountInv
  <1>6. CASE /\ codes' = [codes EXCEPT ![i].attempts = @ + 1]
             /\ Rests(r)
    <2>1. codes' \in [Code -> CodeRow]
          /\ \A j \in Code : codes'[j].used = codes[j].used /\ codes'[j].purpose = codes[j].purpose
      BY <1>1, <1>6 DEF CodeRow
    <2>2. Forward /\ RowFits' /\ CallerFits(Resting)'
      BY <1>2, <2>1, RestingFits DEF Forward, CodeUsed, AccountInv, RowFits, CallerFits,
                                     ProvedFits, LocalFits, Marking, Resting
    <2> QED BY <1>2, <1>4, <1>6, <2>1, <2>2, RestingFits, CallerMoves DEF Rests
  <1>7. CASE /\ codes' = [codes EXCEPT ![i].used = TRUE]
             /\ Goes(r, IF callers[r].for = "reset" THEN "password" ELSE "mark")
    <2>1. PICK row \in CallerRow :
              /\ callers' = [callers EXCEPT ![r] = row] /\ row.for = callers[r].for
              /\ row.at = IF callers[r].for = "reset" THEN "password" ELSE "mark"
              /\ ~row.fixed
      <3> DEFINE new == [callers[r] EXCEPT !.at =
                            IF callers[r].for = "reset" THEN "password" ELSE "mark"]
      <3>1. callers' = [callers EXCEPT ![r] = new]
        BY <1>7 DEF Goes
      <3>2. /\ new \in CallerRow /\ new.for = callers[r].for /\ ~new.fixed
            /\ new.at = IF callers[r].for = "reset" THEN "password" ELSE "mark"
        BY <1>1, <1>2, <1>5 DEF CallerRow, Stage, CallerFits, LocalFits
      <3> HIDE DEF new
      <3> QED BY <3>1, <3>2
    <2>2. codes' \in [Code -> CodeRow] /\ codes'[i].used
          /\ \A j \in Code : codes'[j].purpose = codes[j].purpose
      BY <1>1, <1>7 DEF CodeRow
    <2>3. CodeUsed'
      BY <1>1, <2>2 DEF CodeUsed
    <2>4. Forward /\ RowFits' /\ CallerFits(row)'
      BY <1>2, <1>3, <1>5, <2>1, <2>2, <2>3 DEF Forward, AccountInv, RowFits, CallerFits,
                                                LocalFits, Marking
    <2> QED BY <1>2, <1>4, <2>1, <2>2, <2>4, CallerMoves
  <1> QED BY <1>6, <1>7 DEF ConsumeCode

LEMMA LocalProofKeeps ==
    ASSUME AccountInv, NEW r \in Caller, NEW for \in {"login", "change"}, LocalProof(r, for)
    PROVE  AccountInv'
  <1> DEFINE row == [Resting EXCEPT !.for = for, !.password = user.password,
                                    !.at = IF for = "login" THEN "open" ELSE "password"]
  <1>1. /\ row \in CallerRow /\ row.for = for /\ ~row.fixed
        /\ row.at = IF for = "login" THEN "open" ELSE "password"
    BY RestingFits DEF Resting, CallerRow, Stage, AccountInv, AccountTypeOK
  <1>2. callers' = [callers EXCEPT ![r] = row] /\ ~Ending(callers[r]) /\ ~provider
        /\ UNCHANGED <<provider, user, account, codes, sessions, spared>>
    BY RestingFits DEF LocalProof
  <1> HIDE DEF row
  <1>3. CallerFits(row)
    BY <1>1, <1>2 DEF CallerFits, LocalFits, Marking
  <1> QED BY <1>1, <1>2, <1>3, CallerReads

\* A request that dies after a change of password spares the sessions it did not end.
LEMMA AbandonKeeps ==
    ASSUME AccountInv, NEW r \in Caller, AbandonCall(r)
    PROVE  AccountInv'
  <1>1. callers' = [callers EXCEPT ![r] = Resting]
        /\ UNCHANGED <<provider, user, account, codes, sessions>>
    BY DEF AbandonCall, Rests
  <1>2. spared' = IF callers[r].for \in {"reset", "change"} THEN spared \cup Active ELSE spared
    BY DEF AbandonCall
  <1>3. /\ account' \in AccountRow /\ user' \in UserRow /\ codes' \in [Code -> CodeRow]
        /\ sessions' \in [Session -> SessionRow] /\ spared' \subseteq Session
    BY <1>1, <1>2 DEF AccountInv, AccountTypeOK, UserRow, CodeRow, SessionRow, Active
  <1>4. Forward /\ RowFits' /\ CallerFits(Resting)'
    BY <1>1, RestingFits DEF Forward, CodeUsed, AccountInv, RowFits, CallerFits, ProvedFits,
                             LocalFits, Marking, Resting
  <1>5. PasswordEndsSessions' \/ (SessionsStay /\ ~Ending(callers[r]))
    <2>1. CASE callers[r].for \in {"reset", "change"}
      BY <1>1, <1>2, <2>1 DEF PasswordEndsSessions, Active
    <2>2. CASE callers[r].for \notin {"reset", "change"}
      BY <1>1, <1>2, <2>2 DEF SessionsStay, Ending
    <2> QED BY <2>1, <2>2
  <1>6. account'.verified => account.verified
    BY <1>1
  <1> QED BY <1>1, <1>3, <1>4, <1>5, <1>6, RestingFits, CallerMoves

LEMMA AccountKept == AccountInv /\ [AccountStep]_accountVars => AccountInv'
  <1> SUFFICES ASSUME AccountInv, [AccountStep]_accountVars
               PROVE  AccountInv'
    OBVIOUS
  <1>1. ASSUME NEW r \in Caller, CallerStep(r)
        PROVE  AccountInv'
    BY <1>1, RegistrationKeeps, StartKeeps, FixedKeeps, ResolutionKeeps, HydrationKeeps, MarkingKeeps,
       PasswordsKeep, RevocationKeeps, OpeningKeeps, RefreshKeeps, LogoutKeeps,
       SubmissionKeeps, ConsumptionKeeps, LocalProofKeeps, AbandonKeeps DEF CallerStep
  <1>2. CASE UNCHANGED accountVars
    <2>1. UNCHANGED <<provider, user, account, codes, sessions, callers, spared>>
      BY <1>2 DEF accountVars
    <2>2. /\ codes' \in [Code -> CodeRow] /\ sessions' \in [Session -> SessionRow]
          /\ CodeUsed' = CodeUsed /\ SessionsStay
      BY <2>1 DEF AccountInv, AccountTypeOK, CodeRow, SessionRow, CodeUsed, SessionsStay
    <2> QED BY <2>1, <2>2, StandingKeeps DEF AccountInv, RowFits
  <1> QED BY <1>1, <1>2, CodesKeep DEF AccountStep

(* A verified account is complete, however its registration was cut short, *)
(* unless a fixed code has marked it, and then only as far as that goes;   *)
(* and a change of password ends the sessions that it could see.           *)
THEOREM AccountsStaySafe == TenancySpec => []AccountsSafe
  <1>1. TenancyInit => AccountInv
    BY AccountStarts DEF TenancyInit
  <1>2. [TenancyNext]_tenancyVars => [AccountStep]_accountVars
    BY DEF TenancyNext, OrgTurn, OpenTurn, AccountTurn, AttendanceTurn, ShiftTurn, tenancyVars
  <1>3. AccountInv => AccountsSafe
    BY DEF AccountInv, AccountsSafe, RowFits, Complete, CodeUsed, VerifiedIsComplete
  <1> QED BY <1>1, <1>2, <1>3, AccountKept, PTL DEF TenancySpec

-----------------------------------------------------------------------------
(***************************************************************************)
(* Planned work.  What a command holds is of the row it was read from, and *)
(* an update that is under way on a cancelled shift was read before.       *)
(***************************************************************************)
PatternRequest == [step : {"createPattern", "updatePattern"}, id : Pattern,
                   target : Target, slot : Slot]
InstanceRequest ==
         [step : {"createInstance"}, id : Instance, target : Target, slot : Slot,
          from : SUBSET Pattern]
    \cup [step : {"updateInstance"}, id : Instance, target : Target, slot : Slot]
    \cup [step : {"cancelInstance"}, id : Instance]

PatternOrNone == PatternRow \cup {NoPattern}
InstanceOrNone == InstanceRow \cup {NoInstance}

\* The row that a change is for was there when it was read, and stays.
RequestFits(r) ==
    /\ r.step = "updatePattern" => patterns[r.id] \in PatternRow
    /\ r.step \in {"updateInstance", "cancelInstance"} => instances[r.id] \in InstanceRow
    /\ r.step = "updateInstance" /\ instances[r.id].withdrawn => r.id \in revived

\* A row that was withdrawn does not count, or was written over.
PatternEnded(row) == row.status = "ACTIVE" => ~row.withdrawn
InstanceEnded(i) == instances[i].status \in Planned /\ instances[i].withdrawn => i \in revived

ShiftInv ==
    /\ plannable \subseteq Target /\ revived \subseteq Instance
    /\ patterns \in [Pattern -> PatternOrNone]
    /\ instances \in [Instance -> InstanceOrNone]
    /\ planners \in [Planner -> PatternRequest \cup InstanceRequest \cup {Unoccupied}]
    /\ \A c \in Planner : RequestFits(planners[c])
    /\ \A p \in Pattern : PatternEnded(patterns[p])
    /\ \A i \in Instance : InstanceEnded(i)

LEMMA UnoccupiedFits == RequestFits(Unoccupied) /\ RequestFits(Unoccupied)'
  BY DEF RequestFits, Unoccupied

\* Rows that exist are told from rows that do not.
LEMMA RowsApart ==
    /\ \A row \in PatternOrNone : row.status # "NONE" => row \in PatternRow
    /\ \A row \in InstanceOrNone : row.status # "NONE" => row \in InstanceRow
    /\ NoPattern \notin PatternRow /\ NoInstance \notin InstanceRow
  BY DEF PatternOrNone, InstanceOrNone, PatternRow, InstanceRow, NoPattern, NoInstance, Planned

\* The checks of a command change its own request only.
LEMMA PlanKeeps ==
    ASSUME ShiftInv, NEW c \in Planner, NEW request, Plan(c, request),
           request \in PatternRequest \cup InstanceRequest, RequestFits(request)
    PROVE  ShiftInv'
  <1>1. /\ UNCHANGED <<plannable, patterns, instances, revived>>
        /\ planners' = [planners EXCEPT ![c] = request]
    BY DEF Plan
  <1>2. planners' \in [Planner -> PatternRequest \cup InstanceRequest \cup {Unoccupied}]
    BY <1>1 DEF ShiftInv
  <1>3. \A d \in Planner : planners'[d] = planners[d] \/ planners'[d] = request
    BY <1>1 DEF ShiftInv
  <1>4. \A d \in Planner : RequestFits(planners'[d])
    BY <1>3 DEF ShiftInv
  <1>5. \A d \in Planner : RequestFits(planners[d])'
    BY <1>1, <1>4 DEF RequestFits
  <1> QED BY <1>1, <1>2, <1>5 DEF ShiftInv, InstanceEnded

\* A write of patterns leaves the shifts as they are.
LEMMA PatternWriteKeeps ==
    ASSUME ShiftInv, NEW p \in Pattern, NEW row \in PatternRow,
           patterns' = [patterns EXCEPT ![p] = row], PatternEnded(row),
           UNCHANGED <<plannable, instances, revived>>,
           planners' = planners \/ \E c \in Planner : planners' = [planners EXCEPT ![c] = Unoccupied]
    PROVE  ShiftInv'
  <1>1. patterns' \in [Pattern -> PatternOrNone]
        /\ \A q \in Pattern : patterns'[q] = IF q = p THEN row ELSE patterns[q]
    BY DEF ShiftInv, PatternOrNone
  <1>2. planners' \in [Planner -> PatternRequest \cup InstanceRequest \cup {Unoccupied}]
        /\ \A d \in Planner : planners'[d] \in {planners[d], Unoccupied}
    BY DEF ShiftInv
  <1>3. \A d \in Planner : RequestFits(planners[d])'
    <2> SUFFICES ASSUME NEW d \in Planner PROVE RequestFits(planners[d])'
      OBVIOUS
    <2>1. CASE planners'[d] = Unoccupied
      BY <2>1, UnoccupiedFits DEF RequestFits, Unoccupied
    <2>2. CASE planners'[d] = planners[d]
      <3>1. RequestFits(planners[d])
        BY DEF ShiftInv
      <3>2. planners[d].step = "updatePattern" => planners[d].id \in Pattern
        BY DEF ShiftInv, PatternRequest, InstanceRequest, Unoccupied
      <3> QED BY <1>1, <2>2, <3>1, <3>2 DEF RequestFits
    <2> QED BY <1>2, <2>1, <2>2
  <1> QED BY <1>1, <1>2, <1>3 DEF ShiftInv, InstanceEnded

\* A write of a shift, for a request that is finished with it.
LEMMA InstanceWriteKeeps ==
    ASSUME ShiftInv, NEW i \in Instance, NEW row \in InstanceRow, NEW c \in Planner,
           instances' = [instances EXCEPT ![i] = row],
           planners' = [planners EXCEPT ![c] = Unoccupied],
           UNCHANGED <<plannable, patterns>>,
           revived \subseteq revived', revived' \subseteq Instance,
           row.status \in Planned /\ row.withdrawn => i \in revived',
           \A d \in Planner : planners[d].step = "updateInstance" /\ planners[d].id = i
                              /\ row.withdrawn => i \in revived'
    PROVE  ShiftInv'
  <1>1. instances' \in [Instance -> InstanceOrNone]
        /\ \A j \in Instance : instances'[j] = IF j = i THEN row ELSE instances[j]
    BY DEF ShiftInv, InstanceOrNone
  <1>2. planners' \in [Planner -> PatternRequest \cup InstanceRequest \cup {Unoccupied}]
        /\ \A d \in Planner : planners'[d] \in {planners[d], Unoccupied}
    BY DEF ShiftInv
  <1>3. \A d \in Planner : RequestFits(planners[d])'
    <2> SUFFICES ASSUME NEW d \in Planner PROVE RequestFits(planners[d])'
      OBVIOUS
    <2>1. CASE planners'[d] = Unoccupied
      BY <2>1 DEF RequestFits, Unoccupied
    <2>2. CASE planners'[d] = planners[d]
      <3>1. RequestFits(planners[d])
        BY DEF ShiftInv
      <3>2. planners[d].step \in {"updateInstance", "cancelInstance"} => planners[d].id \in Instance
        BY DEF ShiftInv, PatternRequest, InstanceRequest, Unoccupied
      <3> QED BY <1>1, <2>2, <3>1, <3>2 DEF RequestFits
    <2> QED BY <1>2, <2>1, <2>2
  <1>4. \A j \in Instance : InstanceEnded(j)'
    BY <1>1 DEF ShiftInv, InstanceEnded
  <1> QED BY <1>1, <1>2, <1>3, <1>4 DEF ShiftInv

LEMMA PatternCommandsKeep == ASSUME ShiftInv, PatternCommands PROVE ShiftInv'
  <1> PICK p \in Pattern :
        \/ DeactivatePattern(p)
        \/ \E c \in Planner, t \in Target, slot \in Slot :
               CreatePattern(c, p, t, slot) \/ UpdatePattern(c, p, t, slot)
    BY DEF PatternCommands
  <1>1. CASE DeactivatePattern(p)
    <2>1. patterns[p] \in PatternRow
      BY <1>1, RowsApart DEF DeactivatePattern, ShiftInv
    <2> DEFINE row == [patterns[p] EXCEPT !.status = "INACTIVE", !.withdrawn = TRUE]
    <2>2. row \in PatternRow /\ PatternEnded(row)
      BY <2>1 DEF PatternRow, PatternEnded
    <2>3. patterns' = [patterns EXCEPT ![p] = row] /\ planners' = planners
          /\ UNCHANGED <<plannable, instances, revived>>
      BY <1>1, <2>1 DEF DeactivatePattern, ShiftInv
    <2> HIDE DEF row
    <2> QED BY <2>2, <2>3, PatternWriteKeeps
  <1>2. ASSUME NEW c \in Planner, NEW t \in Target, NEW slot \in Slot,
               CreatePattern(c, p, t, slot) \/ UpdatePattern(c, p, t, slot)
        PROVE  ShiftInv'
    <2>1. CASE CreatePattern(c, p, t, slot)
      <3> DEFINE request == [step |-> "createPattern", id |-> p, target |-> t, slot |-> slot]
      <3>1. request \in PatternRequest /\ RequestFits(request) /\ Plan(c, request)
        BY <2>1 DEF CreatePattern, PatternRequest, RequestFits
      <3> HIDE DEF request
      <3> QED BY <3>1, PlanKeeps
    <2>2. CASE UpdatePattern(c, p, t, slot)
      <3> DEFINE request == [step |-> "updatePattern", id |-> p, target |-> t, slot |-> slot]
      <3>1. patterns[p] \in PatternRow
        BY <2>2, RowsApart DEF UpdatePattern, ShiftInv
      <3>2. request \in PatternRequest /\ RequestFits(request) /\ Plan(c, request)
        BY <2>2, <3>1 DEF UpdatePattern, PatternRequest, RequestFits
      <3> HIDE DEF request
      <3> QED BY <3>2, PlanKeeps
    <2> QED BY <1>2, <2>1, <2>2
  <1> QED BY <1>1, <1>2

LEMMA InstanceCommandsKeep == ASSUME ShiftInv, InstanceCommands PROVE ShiftInv'
  <1> PICK c \in Planner, i \in Instance :
        \/ CancelInstance(c, i)
        \/ \E t \in Target, slot \in Slot :
            \/ UpdateInstance(c, i, t, slot)
            \/ \E from \in {{}} \cup {{p} : p \in Pattern} : CreateInstance(c, i, t, slot, from)
    BY DEF InstanceCommands
  <1>1. CASE CancelInstance(c, i)
    <2> DEFINE request == [step |-> "cancelInstance", id |-> i]
    <2>1. instances[i] \in InstanceRow
      BY <1>1, RowsApart DEF CancelInstance, ShiftInv, Planned
    <2>2. request \in InstanceRequest /\ RequestFits(request) /\ Plan(c, request)
      BY <1>1, <2>1 DEF CancelInstance, InstanceRequest, RequestFits
    <2> HIDE DEF request
    <2> QED BY <2>2, PlanKeeps
  <1>2. ASSUME NEW t \in Target, NEW slot \in Slot, UpdateInstance(c, i, t, slot)
        PROVE  ShiftInv'
    <2> DEFINE request == [step |-> "updateInstance", id |-> i, target |-> t, slot |-> slot]
    <2>1. instances[i] \in InstanceRow
      BY <1>2, RowsApart DEF UpdateInstance, Updatable, ShiftInv, Planned
    <2>2. instances[i].withdrawn => i \in revived
      BY <1>2 DEF UpdateInstance, Updatable, ShiftInv, InstanceEnded
    <2>3. request \in InstanceRequest /\ RequestFits(request) /\ Plan(c, request)
      BY <1>2, <2>1, <2>2 DEF UpdateInstance, InstanceRequest, RequestFits
    <2> HIDE DEF request
    <2> QED BY <2>3, PlanKeeps
  <1>3. ASSUME NEW t \in Target, NEW slot \in Slot, NEW from \in {{}} \cup {{p} : p \in Pattern},
               CreateInstance(c, i, t, slot, from)
        PROVE  ShiftInv'
    <2> DEFINE request == [step |-> "createInstance", id |-> i, target |-> t, slot |-> slot,
                           from |-> from]
    <2>1. from \subseteq Pattern
      OBVIOUS
    <2>2. request \in InstanceRequest /\ RequestFits(request) /\ Plan(c, request)
      BY <1>3, <2>1 DEF CreateInstance, InstanceRequest, RequestFits
    <2> HIDE DEF request
    <2> QED BY <2>2, PlanKeeps
  <1> QED BY <1>1, <1>2, <1>3

LEMMA PatternWritesKeep ==
    ASSUME ShiftInv, NEW c \in Planner, InsertShiftPattern(c) \/ UpdateShiftPattern(c)
    PROVE  ShiftInv'
  <1> DEFINE r == planners[c]
  <1>1. r \in PatternRequest
    BY DEF InsertShiftPattern, UpdateShiftPattern, ShiftInv, InstanceRequest, Unoccupied
  <1>2. r.id \in Pattern /\ r.target \in Target /\ r.slot \in Slot
    BY <1>1 DEF PatternRequest
  <1>3. UNCHANGED <<plannable, instances, revived>>
        /\ planners' = [planners EXCEPT ![c] = Unoccupied]
    BY DEF InsertShiftPattern, UpdateShiftPattern, Finish
  <1>4. CASE InsertShiftPattern(c)
    <2> DEFINE row == [status |-> "ACTIVE", target |-> r.target, slot |-> r.slot,
                       withdrawn |-> FALSE]
    <2>1. row \in PatternRow /\ PatternEnded(row)
      BY <1>2 DEF PatternRow, PatternEnded
    <2>2. patterns' = [patterns EXCEPT ![r.id] = row]
      BY <1>4 DEF InsertShiftPattern
    <2> HIDE DEF row
    <2> QED BY <1>2, <1>3, <2>1, <2>2, PatternWriteKeeps
  <1>5. CASE UpdateShiftPattern(c)
    <2> DEFINE row == [patterns[r.id] EXCEPT !.status = StatusKept(@), !.target = r.target,
                                             !.slot = r.slot]
    <2>1. patterns[r.id] \in PatternRow /\ PatternEnded(patterns[r.id])
      BY <1>2, <1>5 DEF UpdateShiftPattern, ShiftInv, RequestFits
    <2>2. row \in PatternRow /\ PatternEnded(row)
      BY <1>2, <2>1 DEF PatternRow, PatternEnded, StatusKept
    <2>3. patterns' = [patterns EXCEPT ![r.id] = row]
      BY <1>5 DEF UpdateShiftPattern
    <2> HIDE DEF row
    <2> QED BY <1>2, <1>3, <2>2, <2>3, PatternWriteKeeps
  <1> QED BY <1>4, <1>5

LEMMA InsertInstanceKeeps ==
    ASSUME ShiftInv, NEW c \in Planner, InsertShiftInstance(c)
    PROVE  ShiftInv'
  <1> DEFINE r == planners[c]
             row == [status |-> "PLANNED", target |-> r.target, slot |-> r.slot,
                     pattern |-> r.from, withdrawn |-> FALSE]
  <1>1. r.id \in Instance /\ r.target \in Target /\ r.slot \in Slot /\ r.from \subseteq Pattern
    BY DEF InsertShiftInstance, ShiftInv, PatternRequest, InstanceRequest, Unoccupied
  <1>2. row \in InstanceRow /\ ~row.withdrawn
    BY <1>1 DEF InstanceRow, Planned
  <1>3. instances' = [instances EXCEPT ![r.id] = row]
        /\ planners' = [planners EXCEPT ![c] = Unoccupied]
        /\ UNCHANGED <<plannable, patterns, revived>>
    BY DEF InsertShiftInstance, Finish
  <1>4. revived' \subseteq Instance
    BY <1>3 DEF ShiftInv
  <1> HIDE DEF row
  <1> QED BY <1>1, <1>2, <1>3, <1>4, InstanceWriteKeeps

LEMMA UpdateInstanceKeeps ==
    ASSUME ShiftInv, NEW c \in Planner, UpdateShiftInstance(c)
    PROVE  ShiftInv'
  <1> DEFINE r == planners[c]
             row == [instances[r.id] EXCEPT !.status = "UPDATED", !.target = r.target,
                                            !.slot = r.slot]
  <1>1. r.id \in Instance /\ r.target \in Target /\ r.slot \in Slot
    BY DEF UpdateShiftInstance, ShiftInv, PatternRequest, InstanceRequest, Unoccupied
  <1>2. instances[r.id] \in InstanceRow /\ (instances[r.id].withdrawn => r.id \in revived)
    BY DEF UpdateShiftInstance, ShiftInv, RequestFits
  <1>3. row \in InstanceRow /\ (row.withdrawn => r.id \in revived)
    BY <1>1, <1>2 DEF InstanceRow, Planned
  <1>4. instances' = [instances EXCEPT ![r.id] = row]
        /\ planners' = [planners EXCEPT ![c] = Unoccupied]
        /\ UNCHANGED <<plannable, patterns, revived>>
    BY DEF UpdateShiftInstance, Finish
  <1>5. revived' \subseteq Instance
    BY <1>4 DEF ShiftInv
  <1> HIDE DEF row
  <1> QED BY <1>1, <1>3, <1>4, <1>5, InstanceWriteKeeps

LEMMA CancelInstanceKeeps ==
    ASSUME ShiftInv, NEW c \in Planner, CancelShiftInstance(c)
    PROVE  ShiftInv'
  <1> DEFINE r == planners[c]
             row == [instances[r.id] EXCEPT !.status = "CANCELLED", !.withdrawn = TRUE]
  <1>1. r.id \in Instance
    BY DEF CancelShiftInstance, ShiftInv, PatternRequest, InstanceRequest, Unoccupied
  <1>2. instances[r.id] \in InstanceRow
    BY DEF CancelShiftInstance, ShiftInv, RequestFits
  <1>3. row \in InstanceRow /\ row.status \notin Planned
    BY <1>2 DEF InstanceRow, Planned
  <1>4. instances' = [instances EXCEPT ![r.id] = row]
    BY <1>1, <1>2 DEF CancelShiftInstance, ShiftInv
  <1>5. planners' = [planners EXCEPT ![c] = Unoccupied] /\ UNCHANGED <<plannable, patterns>>
    BY DEF CancelShiftInstance, Finish
  <1>6. revived' = revived \cup
           {i \in {r.id} : \E d \in Planner : planners[d].step = "updateInstance" /\ planners[d].id = i}
    BY DEF CancelShiftInstance
  <1>7. /\ revived \subseteq revived' /\ revived' \subseteq Instance
        /\ \A d \in Planner : planners[d].step = "updateInstance" /\ planners[d].id = r.id
                              => r.id \in revived'
    BY <1>1, <1>6 DEF ShiftInv
  <1> HIDE DEF row
  <1> QED BY <1>1, <1>3, <1>4, <1>5, <1>7, InstanceWriteKeeps

LEMMA DropPlanKeeps == ASSUME ShiftInv, NEW c \in Planner, DropPlan(c) PROVE ShiftInv'
  <1>1. planners' = [planners EXCEPT ![c] = Unoccupied]
        /\ UNCHANGED <<plannable, patterns, instances, revived>>
    BY DEF DropPlan, Finish
  <1>2. planners' \in [Planner -> PatternRequest \cup InstanceRequest \cup {Unoccupied}]
        /\ \A d \in Planner : planners'[d] \in {planners[d], Unoccupied}
    BY <1>1 DEF ShiftInv
  <1>3. \A d \in Planner : RequestFits(planners'[d])
    BY <1>2, UnoccupiedFits DEF ShiftInv
  <1>4. \A d \in Planner : RequestFits(planners[d])'
    BY <1>1, <1>3 DEF RequestFits
  <1> QED BY <1>1, <1>2, <1>4 DEF ShiftInv, InstanceEnded

LEMMA ShiftKept == ShiftInv /\ [ShiftStep]_shiftVars => ShiftInv'
  <1> SUFFICES ASSUME ShiftInv, [ShiftStep]_shiftVars PROVE ShiftInv'
    OBVIOUS
  <1>1. CASE \E t \in Target : TargetChanges(t)
    BY <1>1 DEF TargetChanges, ShiftInv, RequestFits, InstanceEnded
  <1>2. CASE UNCHANGED shiftVars
    BY <1>2 DEF shiftVars, ShiftInv, RequestFits, InstanceEnded
  <1> QED BY <1>1, <1>2, PatternCommandsKeep, InstanceCommandsKeep, PatternWritesKeep,
             InsertInstanceKeeps, UpdateInstanceKeeps, CancelInstanceKeeps, DropPlanKeeps
          DEF ShiftStep

\* What was withdrawn stays so.
LEMMA WithdrawnFollows == ShiftInv => ShiftTypeOK /\ WithdrawnStays
  <1> SUFFICES ASSUME ShiftInv PROVE ShiftTypeOK /\ WithdrawnStays
    OBVIOUS
  <1>1. ShiftTypeOK
    BY DEF ShiftInv, ShiftTypeOK, PatternOrNone, InstanceOrNone, PatternRequest, InstanceRequest
  <1>2. WithdrawnStays
    BY DEF ShiftInv, WithdrawnStays, MyPatterns, MyInstances, FirstInstances, PatternEnded,
           InstanceEnded
  <1> QED BY <1>1, <1>2

-----------------------------------------------------------------------------
(***************************************************************************)
(* Attendance.  A command may insert what it has checked as long as the    *)
(* records it has read are the records of the account.                     *)
(***************************************************************************)
PunchRow == [of : Worker, type : {"CHECK_IN", "CHECK_OUT"}, at : Clock, forced : BOOLEAN,
             verdict : {"NULL", "UNKNOWN", "MATCH", "MISMATCH"}]
DeskRow == [step : {"checkIn", "checkOut", "force"}, of : Worker, at : Clock, read : SUBSET Nat]

\* What was read is there, and as long as it is all there is, the check holds.
DeskFits(r) ==
    r # Away => /\ r.read \subseteq RecordsOf(r.of)
                /\ r.read = RecordsOf(r.of) => Allowed(r.step, r.of)

AttendanceInv ==
    /\ punches \in Seq(PunchRow) /\ Len(punches) <= MaxPunches
    /\ loose \subseteq Worker
    /\ desks \in [Desk -> DeskRow \cup {Away}]
    /\ \A d \in Desk : DeskFits(desks[d])
    /\ AttendanceAlternates

LEMMA TimesAreTold == \A p \in PunchRow : p.at \in Int
  <1>1. \A p \in PunchRow : p.at \in Clock
    BY DEF PunchRow
  <1>2. Clock \subseteq Int
    BY AttendanceAssumption
  <1> QED BY <1>1, <1>2

LEMMA AwayApart == Away \notin DeskRow
  BY DEF Away, DeskRow

\* A desk that takes up a request or gives one up changes no record.
LEMMA DeskMoves ==
    ASSUME AttendanceInv, NEW d \in Desk, NEW row \in DeskRow \cup {Away},
           desks' = [desks EXCEPT ![d] = row], DeskFits(row), UNCHANGED <<punches, loose>>
    PROVE  AttendanceInv'
  <1>1. desks' \in [Desk -> DeskRow \cup {Away}]
        /\ \A e \in Desk : desks'[e] = IF e = d THEN row ELSE desks[e]
    BY DEF AttendanceInv
  <1>2. \A e \in Desk : DeskFits(desks'[e])
    BY <1>1 DEF AttendanceInv
  <1>3. \A w : RecordsOf(w)' = RecordsOf(w) /\ Working(w)' = Working(w)
    BY DEF RecordsOf, Working, NoLater
  <1>4. \A step, w : Allowed(step, w)' = Allowed(step, w)
    BY <1>3 DEF Allowed, CheckInAllowed, CheckOutAllowed, ForceAllowed
  <1>5. \A e \in Desk : DeskFits(desks[e])'
    BY <1>2, <1>3, <1>4 DEF DeskFits
  <1>6. AttendanceAlternates'
    BY <1>3 DEF AttendanceInv, AttendanceAlternates
  <1> QED BY <1>1, <1>5, <1>6 DEF AttendanceInv

LEMMA ReadKeeps ==
    ASSUME AttendanceInv, NEW d \in Desk, NEW step \in {"checkIn", "checkOut", "force"},
           NEW w \in Worker, NEW at \in Clock, ReadLatest(d, step, w, at)
    PROVE  AttendanceInv'
  <1> DEFINE row == [step |-> step, of |-> w, at |-> at, read |-> RecordsOf(w)]
  <1>1. RecordsOf(w) \subseteq Nat
    BY DEF RecordsOf, AttendanceInv
  <1>2. row \in DeskRow
    BY <1>1 DEF DeskRow
  <1>3. DeskFits(row)
    BY DEF DeskFits, ReadLatest
  <1>4. desks' = [desks EXCEPT ![d] = row] /\ UNCHANGED <<punches, loose>>
    BY DEF ReadLatest
  <1> HIDE DEF row
  <1> QED BY <1>2, <1>3, <1>4, DeskMoves

LEMMA LeaveKeeps == ASSUME AttendanceInv, NEW d \in Desk, LeaveDesk(d) PROVE AttendanceInv'
  BY DeskMoves DEF LeaveDesk, DeskFits

\* The record that is appended is the last of its account, and changes no other's.
LEMMA Appended ==
    ASSUME AttendanceInv, NEW p \in PunchRow, punches' = Append(punches, p)
    PROVE  /\ punches' \in Seq(PunchRow) /\ Len(punches') = Len(punches) + 1
           /\ punches'[Len(punches) + 1] = p
           /\ \A i \in DOMAIN punches : i \in Nat /\ i <= Len(punches) /\ punches'[i] = punches[i]
           /\ DOMAIN punches' = DOMAIN punches \cup {Len(punches) + 1}
           /\ Len(punches) \in Nat /\ Len(punches) + 1 \notin DOMAIN punches
           /\ RecordsOf(p.of)' = RecordsOf(p.of) \cup {Len(punches) + 1}
           /\ \A w : w # p.of => RecordsOf(w)' = RecordsOf(w)
  <1>1. /\ punches' \in Seq(PunchRow) /\ Len(punches') = Len(punches) + 1
        /\ punches'[Len(punches) + 1] = p
        /\ \A i \in DOMAIN punches : i \in Nat /\ i <= Len(punches) /\ punches'[i] = punches[i]
        /\ DOMAIN punches' = DOMAIN punches \cup {Len(punches) + 1}
        /\ Len(punches) \in Nat /\ Len(punches) + 1 \notin DOMAIN punches
    BY DEF AttendanceInv
  <1>2. /\ RecordsOf(p.of)' = RecordsOf(p.of) \cup {Len(punches) + 1}
        /\ \A w : w # p.of => RecordsOf(w)' = RecordsOf(w)
    BY <1>1 DEF RecordsOf
  <1> QED BY <1>1, <1>2

\* The last of the records of an account that alternates decides whether he works.
LEMMA LastDecides ==
    ASSUME AttendanceInv, NEW w \in Worker \ loose, NEW i \in RecordsOf(w),
           \A k \in RecordsOf(w) : k <= i
    PROVE  Working(w) = (punches[i].type = "CHECK_IN")
  <1>1. /\ \A k \in RecordsOf(w) : k \in Nat /\ punches[k].at \in Int
                                   /\ punches[k] \in PunchRow
    <2>1. \A k \in RecordsOf(w) : k \in 1..Len(punches) /\ punches[k] \in PunchRow
      BY DEF AttendanceInv, RecordsOf
    <2> QED BY <2>1, TimesAreTold
  <1>2. \A k \in RecordsOf(w) : k # i => punches[k].at <= punches[i].at
    BY <1>1 DEF AttendanceInv, AttendanceAlternates
  <1>3. \A k \in RecordsOf(w) : NoLater(k, i)
    BY <1>1, <1>2 DEF NoLater
  <1>4. \A k \in RecordsOf(w) : NoLater(i, k) => k = i
    BY <1>1, <1>2 DEF NoLater
  <1>5. (punches[i].type = "CHECK_IN") => Working(w)
    BY <1>3 DEF Working
  <1>6. Working(w) => punches[i].type = "CHECK_IN"
    BY <1>4 DEF Working
  <1>7. Working(w) \in BOOLEAN
    BY DEF Working
  <1> QED BY <1>5, <1>6, <1>7

LEMMA CreateKeeps ==
    ASSUME AttendanceInv, NEW d \in Desk, NEW observed \in Observation,
           CreateRecord(d, observed)
    PROVE  AttendanceInv'
  <1> PICK r \in DeskRow : r = desks[d] /\ r # Away
    BY DEF CreateRecord, AttendanceInv
  <1> DEFINE mine == RecordsOf(r.of)
             stray == r.read # mine \/ \E i \in mine : punches[i].at > r.at
             n == Len(punches) + 1
             p == [of |-> r.of, type |-> IF r.step = "checkIn" THEN "CHECK_IN" ELSE "CHECK_OUT",
                   at |-> r.at, forced |-> (r.step = "force"),
                   verdict |-> EvaluateLocation(r.step, observed)]
  <1>2. r.of \in Worker /\ r.at \in Clock /\ r.step \in {"checkIn", "checkOut", "force"}
    BY DEF DeskRow
  <1>3. p \in PunchRow /\ p.of = r.of /\ p.at = r.at /\ (p.forced => r.step = "force")
        /\ (p.type = "CHECK_IN" <=> r.step = "checkIn")
    BY <1>2 DEF PunchRow, EvaluateLocation, Verifies
  <1>4. /\ Len(punches) < MaxPunches /\ punches' = Append(punches, p)
        /\ loose' = IF stray THEN loose \cup {r.of} ELSE loose
        /\ desks' = [desks EXCEPT ![d] = Away]
    BY DEF CreateRecord
  <1> HIDE DEF p
  <1>5. /\ punches' \in Seq(PunchRow) /\ Len(punches') = n
        /\ punches'[n] = p
        /\ \A i \in DOMAIN punches : i \in Nat /\ i < n /\ punches'[i] = punches[i]
        /\ DOMAIN punches' = DOMAIN punches \cup {n}
        /\ Len(punches) \in Nat /\ n \notin DOMAIN punches
        /\ RecordsOf(r.of)' = RecordsOf(r.of) \cup {n}
        /\ \A w : w # r.of => RecordsOf(w)' = RecordsOf(w)
    BY <1>3, <1>4, Appended
  <1>6. \A w : RecordsOf(w) \subseteq DOMAIN punches
    BY DEF RecordsOf
  <1>7. Len(punches') <= MaxPunches /\ loose' \subseteq Worker
    BY <1>2, <1>4, <1>5, AttendanceAssumption DEF AttendanceInv
  <1>8. desks' \in [Desk -> DeskRow \cup {Away}]
        /\ \A e \in Desk : desks'[e] \in {desks[e], Away}
    BY <1>4 DEF AttendanceInv
  <1>9. ASSUME NEW e \in Desk PROVE DeskFits(desks[e])'
    <2>1. CASE desks'[e] = Away
      BY <2>1 DEF DeskFits, Away
    <2>2. CASE desks'[e] = desks[e] /\ desks[e] # Away
      <3> PICK f \in DeskRow : f = desks[e] /\ f = desks'[e]
        BY <2>2 DEF AttendanceInv
      <3>1. f.read \subseteq RecordsOf(f.of) /\ (f.read = RecordsOf(f.of) => Allowed(f.step, f.of))
        BY <2>2 DEF AttendanceInv, DeskFits
      <3>2. CASE f.of = r.of
        <4>1. f.read \subseteq RecordsOf(f.of)' /\ n \in RecordsOf(f.of)' /\ n \notin f.read
          BY <1>5, <1>6, <3>1, <3>2
        <4> QED BY <2>2, <4>1 DEF DeskFits
      <3>3. CASE f.of # r.of
        <4>1. RecordsOf(f.of)' = RecordsOf(f.of)
          BY <1>5, <3>3
        <4>2. Working(f.of)' = Working(f.of)
          BY <1>5, <1>6, <4>1 DEF Working, NoLater
        <4>3. Allowed(f.step, f.of)' = Allowed(f.step, f.of)
          BY <4>2 DEF Allowed, CheckInAllowed, CheckOutAllowed, ForceAllowed
        <4> QED BY <2>2, <3>1, <4>1, <4>3 DEF DeskFits
      <3> QED BY <3>2, <3>3
    <2> QED BY <1>8, <2>1, <2>2
  <1>10. AttendanceAlternates'
    <2> SUFFICES ASSUME NEW w \in Worker \ loose', NEW i \in RecordsOf(w)'
                 PROVE  LET earlier == {j \in RecordsOf(w)' : j < i} IN
                        /\ earlier = {} => punches'[i].type = "CHECK_IN"
                        /\ \A j \in earlier :
                              /\ punches'[j].at <= punches'[i].at
                              /\ (\A k \in earlier : k <= j) => punches'[j].type # punches'[i].type
                        /\ punches'[i].forced => punches'[i].type = "CHECK_OUT"
      BY DEF AttendanceAlternates
    <2>1. w \in Worker \ loose
      BY <1>4
    <2>2. CASE i \in RecordsOf(w)
      <3>1. {j \in RecordsOf(w)' : j < i} = {j \in RecordsOf(w) : j < i}
        BY <1>5, <1>6, <2>2
      <3>2. \A j \in RecordsOf(w) : punches'[j] = punches[j]
        BY <1>5, <1>6
      <3> QED BY <2>1, <2>2, <3>1, <3>2 DEF AttendanceInv, AttendanceAlternates
    <2>3. CASE i \notin RecordsOf(w)
      <3>1. i = n /\ w = r.of
        BY <1>5, <2>3
      <3>2. ~stray
        BY <1>2, <1>4, <3>1
      <3>3. {j \in RecordsOf(w)' : j < i} = RecordsOf(w)
        BY <1>5, <1>6, <3>1
      <3>4. \A j \in RecordsOf(w) : punches'[j] = punches[j] /\ punches[j].at \in Int
                                    /\ punches[j] \in PunchRow
        BY <1>5, <1>6, TimesAreTold DEF AttendanceInv
      <3>5. Allowed(r.step, w)
        BY <3>1, <3>2 DEF AttendanceInv, DeskFits
      <3>6. Working(w) <=> r.step # "checkIn"
        BY <1>2, <3>5 DEF Allowed, CheckInAllowed, CheckOutAllowed, ForceAllowed
      <3>7. RecordsOf(w) = {} => p.type = "CHECK_IN"
        BY <1>3, <3>6 DEF Working
      <3>8. \A j \in RecordsOf(w) : punches[j].at <= p.at
        BY <1>3, <3>1, <3>2, <3>4, TimesAreTold
      <3>9. ASSUME NEW j \in RecordsOf(w), \A k \in RecordsOf(w) : k <= j
            PROVE  punches[j].type # p.type
        BY <1>3, <2>1, <3>6, <3>9, LastDecides DEF PunchRow
      <3>10. p.forced => p.type = "CHECK_OUT"
        BY <1>3 DEF PunchRow
      <3> QED BY <1>5, <3>1, <3>3, <3>4, <3>7, <3>8, <3>9, <3>10
    <2> QED BY <2>2, <2>3
  <1> QED BY <1>5, <1>7, <1>8, <1>9, <1>10 DEF AttendanceInv

LEMMA AttendanceKept == AttendanceInv /\ [AttendanceStep]_attendanceVars => AttendanceInv'
  <1> SUFFICES ASSUME AttendanceInv, [AttendanceStep]_attendanceVars PROVE AttendanceInv'
    OBVIOUS
  <1>1. CASE UNCHANGED attendanceVars
    BY <1>1 DEF attendanceVars, AttendanceInv, DeskFits, RecordsOf, Working, NoLater, Allowed,
                CheckInAllowed, CheckOutAllowed, ForceAllowed, AttendanceAlternates
  <1> QED BY <1>1, ReadKeeps, CreateKeeps, LeaveKeeps DEF AttendanceStep

LEMMA AttendanceFollows == AttendanceInv => AttendanceTypeOK /\ AttendanceAlternates
  BY DEF AttendanceInv, AttendanceTypeOK, PunchRow, DeskRow

-----------------------------------------------------------------------------
\* An account's attendance alternates, and what was withdrawn of its planned work stays
\* withdrawn, but for the races that each of the two names (checkIn, checkOut,
\* forceEndWork; cancelInstance, deactivatePattern).
THEOREM WorkforceStaysSafe == TenancySpec => []WorkforceSafe
  <1>1. TenancyInit => AttendanceInv /\ ShiftInv
    <2>1. AttendanceInit => AttendanceInv
      BY AttendanceAssumption DEF AttendanceInit, AttendanceInv, DeskFits, RecordsOf,
                                  AttendanceAlternates
    <2>2. ShiftInit => ShiftInv
      BY UnoccupiedFits, RowsApart DEF ShiftInit, ShiftInv, PatternOrNone, InstanceOrNone,
           PatternEnded, InstanceEnded, NoPattern, NoInstance, Planned
    <2> QED BY <2>1, <2>2 DEF TenancyInit
  <1>2. [TenancyNext]_tenancyVars => [AttendanceStep]_attendanceVars /\ [ShiftStep]_shiftVars
    BY DEF TenancyNext, OrgTurn, OpenTurn, AccountTurn, AttendanceTurn, ShiftTurn, tenancyVars
  <1>3. AttendanceInv /\ ShiftInv => WorkforceSafe
    BY AttendanceFollows, WithdrawnFollows DEF WorkforceSafe
  <1> QED BY <1>1, <1>2, <1>3, AttendanceKept, ShiftKept, PTL DEF TenancySpec
=============================================================================
