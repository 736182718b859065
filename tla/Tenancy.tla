------------------------------- MODULE Tenancy -------------------------------
(***************************************************************************)
(* The people of a tenant: accounts, memberships, the branches that are    *)
(* opened, attendance and planned work, side by side.  They share no table *)
(* in these models: at every step one of them is at work.                  *)
(***************************************************************************)
EXTENDS Organisation, BranchActivation, Accounts, Attendance, Shifts

tenancyVars == <<orgVars, openVars, accountVars, attendanceVars, shiftVars>>

-----------------------------------------------------------------------------
TenancyInit ==
    OrgInit /\ OpenInit /\ AccountInit /\ AttendanceInit /\ ShiftInit

OrgTurn == OrgStep /\ UNCHANGED <<openVars, accountVars, attendanceVars, shiftVars>>
OpenTurn == OpenStep /\ UNCHANGED <<orgVars, accountVars, attendanceVars, shiftVars>>
AccountTurn == AccountStep /\ UNCHANGED <<orgVars, openVars, attendanceVars, shiftVars>>
AttendanceTurn == AttendanceStep /\ UNCHANGED <<orgVars, openVars, accountVars, shiftVars>>
ShiftTurn == ShiftStep /\ UNCHANGED <<orgVars, openVars, accountVars, attendanceVars>>

TenancyNext == OrgTurn \/ OpenTurn \/ AccountTurn \/ AttendanceTurn \/ ShiftTurn

TenancySpec == TenancyInit /\ [][TenancyNext]_tenancyVars

-----------------------------------------------------------------------------
\* Staff records follow memberships, and the last owner stays, whatever transactions of
\* the tenant overlap.
MembershipsAgree == OrgTypeOK /\ ProjectionFollowsMembership /\ OwnerRemains

\* A paid draft opens exactly one branch, and the first of a tenant is opened once.
BranchesArePaid == OpenTypeOK /\ BranchPerPaidInvoice

\* A verified account has everything it signs in with, and a change of password ends
\* the sessions that it could see.
AccountsSafe == AccountTypeOK /\ VerifiedIsComplete /\ PasswordEndsSessions

\* An account's attendance alternates, and a cancelled shift stays cancelled, but for
\* the races each of the two names.
WorkforceSafe ==
    /\ AttendanceTypeOK /\ AttendanceAlternates
    /\ ShiftTypeOK /\ WithdrawnStays
=============================================================================
