------------------------------ MODULE Accounts ------------------------------
(***************************************************************************)
(* The account behind one phone number.  With an authentication provider   *)
(* (external: it keeps the user, the password and the codes) the row is a  *)
(* projection of the provider's user, written in statements of their own:  *)
(* a request may die between any two of them, and two may race.  Outside   *)
(* production a fixed code may be taken in place of the provider's proof.  *)
(* Without a provider codes are rows of the program.                       *)
(***************************************************************************)
EXTENDS Integers

CONSTANTS
    Caller,            \* requests under way
    MaxSessions,       \* bound on sessions opened
    MaxCodes,          \* otpMaxPerHour
    MaxAttempts,       \* otpMaxAttempts
    MaxPasswords,      \* bound on password changes
    FixedOtp           \* V0_AUTH_FIXED_OTP_ENABLED, or its default in local and test

\* A phone may be sent a code.
ASSUME AccountsAssumption ==
    MaxCodes \in Nat \ {0} /\ MaxPasswords \in Nat /\ FixedOtp \in BOOLEAN

VARIABLES
    provider,     \* V0_AUTH_PROVIDER is supabase
    user,         \* the provider's user of this phone (external)
    account,      \* accounts: the row of this phone
    codes,        \* auth_phone_otps
    sessions,     \* v0_auth_sessions
    callers,      \* the requests
    spared        \* history: sessions that a change of password could not see

accountVars == <<provider, user, account, codes, sessions, callers, spared>>

-----------------------------------------------------------------------------
\* waived (history): the requests, by purpose, whose fixed code has marked the row.
NoAccount == [exists |-> FALSE, attached |-> FALSE, named |-> FALSE, verified |-> FALSE,
              waived |-> {}]
AccountRow == [exists : BOOLEAN, attached : BOOLEAN, named : BOOLEAN, verified : BOOLEAN,
               waived : SUBSET {"verify", "reset"}]
Code == 1..MaxCodes
Session == 1..MaxSessions
NoCode == [purpose |-> "none", used |-> FALSE, attempts |-> 0, old |-> FALSE]
NoSession == [status |-> "none", password |-> 0]
Stage == {"idle", "register", "store", "resolve", "create", "attach", "hydrate", "mark",
       "password", "revoke", "open", "rotate", "consume"}
Resting == [at |-> "idle", for |-> "none", seen |-> NoAccount, password |-> 0, code |-> 1,
            session |-> {}, fixed |-> FALSE]

AccountTypeOK ==
    /\ provider \in BOOLEAN
    /\ user \in [exists : BOOLEAN, confirmed : BOOLEAN, password : 0..MaxPasswords]
    /\ account \in AccountRow
    /\ codes \in [Code -> [purpose : {"none", "verify", "reset"}, used : BOOLEAN,
                           attempts : Nat, old : BOOLEAN]]
    /\ sessions \in [Session -> [status : {"none", "active", "revoked"},
                                 password : 0..MaxPasswords]]
    /\ callers \in [Caller -> [at : Stage, seen : AccountRow, password : 0..MaxPasswords,
                               code : Code, session : SUBSET Session, fixed : BOOLEAN,
                               for : {"none", "register", "verify", "login", "reset",
                                      "change", "refresh"}]]
    /\ spared \subseteq Session

AccountInit ==
    /\ provider \in BOOLEAN
    /\ user = [exists |-> FALSE, confirmed |-> FALSE, password |-> 0]
    /\ account = NoAccount
    /\ codes = [i \in Code |-> NoCode]
    /\ sessions = [s \in Session |-> NoSession]
    /\ callers = [r \in Caller |-> Resting]
    /\ spared = {}

-----------------------------------------------------------------------------
Goes(r, at) == callers' = [callers EXCEPT ![r].at = at]
Rests(r) == callers' = [callers EXCEPT ![r] = Resting]
Rejected(r) == Rests(r) /\ UNCHANGED <<provider, user, account, codes, sessions, spared>>

\* isInvitedShellAccount.
Shell(row) == row.exists /\ ~row.verified /\ ~row.attached /\ ~row.named

\* register, first the lookup ...
StartRegister(r) ==
    /\ callers[r] = Resting
    /\ ~account.exists \/ Shell(account)
    /\ callers' = [callers EXCEPT ![r] = [Resting EXCEPT !.for = "register", !.seen = account,
                                            !.at = IF provider THEN "register" ELSE "store"]]
    /\ UNCHANGED <<provider, user, account, codes, sessions, spared>>

\* ... then the provider, which refuses a phone it knows ...
ProviderRegister(r) ==
    /\ callers[r].at = "register"
    /\ \/ user.exists /\ Rejected(r)
       \/ /\ ~user.exists
          /\ user' = [user EXCEPT !.exists = TRUE]
          /\ Goes(r, "store")
          /\ UNCHANGED <<provider, account, codes, sessions, spared>>

\* ... and the row: createAccount (unique by phone) or updateAccountRegistration.
StoreRegistration(r) ==
    /\ callers[r].at = "store"
    /\ \/ account.exists /\ ~callers[r].seen.exists /\ Rejected(r)
       \/ /\ ~account.exists \/ callers[r].seen.exists
          /\ account' = [account EXCEPT !.exists = TRUE, !.named = TRUE,
                                        !.attached = @ \/ provider]
          /\ Rests(r)
          /\ UNCHANGED <<provider, user, codes, sessions, spared>>

-----------------------------------------------------------------------------
\* With the provider: a code or a password shows who is calling.
StartProof(r, for) ==
    /\ provider /\ user.exists /\ callers[r] = Resting
    /\ for = "change" => account.exists
    /\ user' = [user EXCEPT !.confirmed = @ \/ for \in {"verify", "reset"}]
    /\ callers' = [callers EXCEPT ![r] = [Resting EXCEPT !.at = "resolve", !.for = for,
                                            !.seen = account, !.password = user.password]]
    /\ UNCHANGED <<provider, account, codes, sessions, spared>>

\* A fixed code shows nothing to the provider: verifyRegistrationOtpWithFixedFallback and
\* confirmPasswordResetWithSupabaseFixedFallback look the row up by its phone, and neither
\* attach nor hydrate it.  A reset needs the provider's user on the row.
StartFixed(r, for) ==
    /\ provider /\ FixedOtp /\ account.exists /\ callers[r] = Resting
    /\ for = "reset" => account.attached
    /\ callers' = [callers EXCEPT ![r] = [Resting EXCEPT !.for = for, !.fixed = TRUE,
                                            !.at = IF for = "reset" THEN "password" ELSE "mark"]]
    /\ UNCHANGED <<provider, user, account, codes, sessions, spared>>

Found(r, row) == callers' = [callers EXCEPT ![r].seen = row,
                        ![r].at = IF callers[r].for = "change" THEN "password" ELSE "hydrate"]

\* resolveSupabaseProjectedAccount: by the user's id, by the phone, or a new row.
\* A reset (resolveExistingSupabaseProjectedAccount) makes none.
ResolveAccount(r) ==
    /\ callers[r].at = "resolve"
    /\ \/ /\ account.exists
          /\ account' = [account EXCEPT !.attached = TRUE]
          /\ Found(r, account')
          /\ UNCHANGED <<provider, user, codes, sessions, spared>>
       \/ ~account.exists /\ callers[r].for = "reset" /\ Rejected(r)
       \/ /\ ~account.exists /\ callers[r].for # "reset"
          /\ Goes(r, "create")
          /\ UNCHANGED <<provider, user, account, codes, sessions, spared>>

\* createInvitedAccount; if somebody was faster (23505), the row that is there.
CreateInvitedAccount(r) ==
    /\ callers[r].at = "create"
    /\ \/ /\ account.exists
          /\ account' = [account EXCEPT !.attached = TRUE]
          /\ Found(r, account')
       \/ /\ ~account.exists
          /\ account' = [NoAccount EXCEPT !.exists = TRUE]
          /\ callers' = [callers EXCEPT ![r].at = "attach", ![r].seen = account']
    /\ UNCHANGED <<provider, user, codes, sessions, spared>>

AttachUser(r) ==
    /\ callers[r].at = "attach"
    /\ account' = [account EXCEPT !.attached = TRUE]
    /\ Found(r, [callers[r].seen EXCEPT !.attached = TRUE])
    /\ UNCHANGED <<provider, user, codes, sessions, spared>>

\* hydrateAccountFromSupabaseProfile writes what the row as read does not have.
NeedsProjection(row) == ~row.attached \/ ~row.named

HydrateAccount(r) ==
    /\ callers[r].at = "hydrate"
    /\ account' = [account EXCEPT !.named = @ \/ NeedsProjection(callers[r].seen)]
    /\ Goes(r, IF callers[r].for = "reset" THEN "password" ELSE "mark")
    /\ UNCHANGED <<provider, user, codes, sessions, spared>>

\* markPhoneVerifiedByAccountId; a login marks what the provider has confirmed, and
\* goes on only if the row is marked.
MarkVerified(r) ==
    LET for == callers[r].for IN
    /\ callers[r].at = "mark"
    /\ \/ /\ for # "login" \/ user.confirmed
          /\ account' = [account EXCEPT !.verified = TRUE,
                                        !.waived = @ \cup {f \in {for} : callers[r].fixed}]
          /\ \/ for = "verify" /\ Rests(r)
             \/ for # "verify" /\ Goes(r, IF for = "login" THEN "open" ELSE "revoke")
          /\ UNCHANGED <<provider, user, codes, sessions, spared>>
       \/ /\ for = "login" /\ ~user.confirmed
          /\ \/ account.verified /\ Goes(r, "open")
                /\ UNCHANGED <<provider, user, account, codes, sessions, spared>>
             \/ ~account.verified /\ Rejected(r)

\* updateUserPassword, or updatePasswordHash of the row.
ChangePassword(r) ==
    /\ callers[r].at = "password" /\ user.password < MaxPasswords
    /\ user' = [user EXCEPT !.password = @ + 1]
    /\ Goes(r, IF callers[r].for = "reset" THEN "mark" ELSE "revoke")
    /\ UNCHANGED <<provider, account, codes, sessions, spared>>

\* revokeSessionsByAccountId.
Active == {s \in Session : sessions[s].status = "active"}

EndSessions(set) ==
    sessions' = [s \in Session |->
                    IF s \in set THEN [sessions[s] EXCEPT !.status = "revoked"] ELSE sessions[s]]

\* Mutant: one session, that of the request.
RevokeOne(r) == IF Active = {} THEN {} ELSE {CHOOSE s \in Active : TRUE}
Revocable(r) == Active

RevokeSessions(r) ==
    /\ callers[r].at = "revoke"
    /\ EndSessions(Revocable(r))
    /\ Rests(r)
    /\ UNCHANGED <<provider, user, account, codes, spared>>

-----------------------------------------------------------------------------
\* issueSessionTokens.
OpenSession(r) ==
    /\ callers[r].at = "open"
    /\ \E s \in Session :
        /\ sessions[s] = NoSession /\ \A t \in 1..(s - 1) : sessions[t] # NoSession
        /\ sessions' = [sessions EXCEPT ![s] = [status |-> "active",
                                                password |-> callers[r].password]]
        /\ spared' = IF callers[r].password # user.password THEN spared \cup {s} ELSE spared
    /\ Rests(r)
    /\ UNCHANGED <<provider, user, account, codes>>

\* refresh: the session is found, revoked, and another opened in its place; one that
\* has expired is only revoked.  logout revokes.
FindSession(r, s) ==
    /\ callers[r] = Resting /\ s \in Active
    /\ callers' = [callers EXCEPT ![r] = [Resting EXCEPT !.at = "rotate", !.for = "refresh",
                                            !.password = sessions[s].password, !.session = {s}]]
    /\ UNCHANGED <<provider, user, account, codes, sessions, spared>>

RotateSession(r) ==
    /\ callers[r].at = "rotate"
    /\ EndSessions(callers[r].session)
    /\ Goes(r, "open")
    /\ UNCHANGED <<provider, user, account, codes, spared>>

EndSession(r, s) ==
    /\ callers[r] = Resting /\ s \in Active
    /\ EndSessions({s})
    /\ UNCHANGED <<provider, user, account, codes, callers, spared>>

-----------------------------------------------------------------------------
\* Without the provider: codes.  sendRegistrationOtp and requestPasswordReset wait
\* until the latest is old, and send so many at most.
SendCode(purpose) ==
    /\ ~provider /\ account.exists
    /\ \E i \in Code :
        /\ codes[i] = NoCode /\ \A j \in 1..(i - 1) : codes[j] # NoCode
        /\ i > 1 => codes[i - 1].old
        /\ codes' = [codes EXCEPT ![i].purpose = purpose]
    /\ UNCHANGED <<provider, user, account, sessions, callers, spared>>

AgeCode(i) ==
    /\ codes[i] # NoCode /\ ~codes[i].old
    /\ codes' = [codes EXCEPT ![i].old = TRUE]
    /\ UNCHANGED <<provider, user, account, sessions, callers, spared>>

\* The latest code of the purpose not used yet; it may be past its expiry.
SubmitCode(r, purpose) ==
    /\ ~provider /\ callers[r] = Resting
    /\ \E i \in Code :
        /\ codes[i].purpose = purpose /\ ~codes[i].used /\ codes[i].attempts < MaxAttempts
        /\ \A j \in Code : j > i => codes[j].purpose # purpose \/ codes[j].used
        /\ callers' = [callers EXCEPT ![r] = [Resting EXCEPT !.at = "consume",
                                                !.for = purpose, !.code = i]]
    /\ UNCHANGED <<provider, user, account, codes, sessions, spared>>

\* incrementPhoneOtpAttempts when it is the wrong one, else consumePhoneOtp.
ConsumeCode(r) ==
    /\ callers[r].at = "consume"
    /\ \/ /\ codes' = [codes EXCEPT ![callers[r].code].attempts = @ + 1]
          /\ Rests(r)
       \/ /\ codes' = [codes EXCEPT ![callers[r].code].used = TRUE]
          /\ Goes(r, IF callers[r].for = "reset" THEN "password" ELSE "mark")
    /\ UNCHANGED <<provider, user, account, sessions, spared>>

\* A password that is right, of a row that is verified when it has to be.
LocalProof(r, for) ==
    /\ ~provider /\ account.exists /\ callers[r] = Resting
    /\ for = "login" => account.verified
    /\ callers' = [callers EXCEPT ![r] = [Resting EXCEPT !.for = for,
            !.password = user.password, !.at = IF for = "login" THEN "open" ELSE "password"]]
    /\ UNCHANGED <<provider, user, account, codes, sessions, spared>>

\* A request dies.  After a change of password it leaves the sessions as they are.
AbandonCall(r) ==
    /\ callers[r].at # "idle"
    /\ spared' = IF callers[r].for \in {"reset", "change"} THEN spared \cup Active ELSE spared
    /\ Rests(r)
    /\ UNCHANGED <<provider, user, account, codes, sessions>>

CallerStep(r) ==
    \/ StartRegister(r) \/ ProviderRegister(r) \/ StoreRegistration(r)
    \/ \E for \in {"verify", "login", "reset", "change"} : StartProof(r, for)
    \/ \E for \in {"verify", "reset"} : StartFixed(r, for)
    \/ ResolveAccount(r) \/ CreateInvitedAccount(r) \/ AttachUser(r) \/ HydrateAccount(r)
    \/ MarkVerified(r) \/ ChangePassword(r) \/ RevokeSessions(r) \/ OpenSession(r)
    \/ RotateSession(r)
    \/ \E s \in Session : FindSession(r, s) \/ EndSession(r, s)
    \/ \E purpose \in {"verify", "reset"} : SubmitCode(r, purpose)
    \/ \E for \in {"login", "change"} : LocalProof(r, for)
    \/ ConsumeCode(r) \/ AbandonCall(r)

AccountStep ==
    \/ \E r \in Caller : CallerStep(r)
    \/ \E purpose \in {"verify", "reset"} : SendCode(purpose)
    \/ \E i \in Code : AgeCode(i)

-----------------------------------------------------------------------------
\* However a registration was cut short and whoever completed it, a verified account
\* is complete: it belongs to the provider's user, who has confirmed the phone, and carries
\* its names, or, without a provider, a code sent to the phone was used.  An account that a
\* fixed code has marked need not be: a reset by it still is the provider's user's.
VerifiedIsComplete ==
    account.verified =>
        /\ ~provider => account.named /\ \E i \in Code : codes[i].used
        /\ provider /\ account.waived = {} => account.named /\ account.attached /\ user.confirmed
        /\ account.waived \subseteq {"reset"} => account.attached \/ ~provider
        /\ account.waived # {} => provider /\ FixedOtp

\* A change of password ends the sessions opened before it: those that go on belong to
\* a request that was under way, or the change has not got there or has died.
PasswordEndsSessions ==
    \A s \in Active :
        \/ sessions[s].password = user.password
        \/ s \in spared
        \/ \E r \in Caller : callers[r].at \in {"mark", "revoke"}
                             /\ callers[r].for \in {"reset", "change"}
=============================================================================
