----------------------------- MODULE CashSession -----------------------------
(***************************************************************************)
(* The drawer of one branch (posOperation/cashSession): its sessions, the  *)
(* cash movements, and the reconciliation snapshot that a close leaves.    *)
(*                                                                         *)
(* A command is one transaction at READ COMMITTED, but it reads before it  *)
(* writes and takes no lock in between: closing a session and recording a  *)
(* manual movement are two steps each.  A movement of a sale goes to the   *)
(* session whose window holds the sale's finalized_at, open or not.        *)
(*                                                                         *)
(* Amounts are left out: a total is the set of movements it sums up.       *)
(***************************************************************************)
EXTENDS Naturals

CONSTANTS
    Session,     \* cash sessions
    Sale,        \* sales, as sources of movements
    Manual,      \* manual paid-in, paid-out and adjustment commands
    Closer,      \* close and force-close commands
    MaxTime      \* bound: the clock

VARIABLES
    now,         \* the clock, which moves on between transactions
    sessions,    \* v0_cash_sessions
    movements,   \* v0_cash_movements
    snapshots,   \* v0_cash_reconciliation_snapshots
    closers,     \* closing commands, between reading the totals and closing
    recorders    \* manual commands, between the check of the session and the insert

cashVars == <<now, sessions, movements, snapshots, closers, recorders>>

-----------------------------------------------------------------------------
Time == 0..MaxTime
Movement == [session : Session, source : Sale \cup Manual]

SessionRow == [status : {"ABSENT", "OPEN", "CLOSED"}, opened : Time, closed : Time]
NoSession == [status |-> "ABSENT", opened |-> 0, closed |-> 0]

CashTypeOK ==
    /\ now \in Time
    /\ sessions \in [Session -> SessionRow]
    /\ movements \subseteq Movement
    /\ snapshots \in [Session -> SUBSET Movement]
    /\ closers \subseteq [by : Closer, session : Session, at : Time, total : SUBSET Movement]
    /\ recorders \subseteq [by : Manual, session : Session]

CashInit ==
    /\ now = 0
    /\ sessions = [k \in Session |-> NoSession]
    /\ movements = {} /\ closers = {} /\ recorders = {}
    /\ snapshots = [k \in Session |-> {}]

MovementsOf(k) == {m \in movements : m.session = k}
Open == {k \in Session : sessions[k].status = "OPEN"}

\* A session that is open, or the window of a closed one: both ends belong to it.
Covers(k, t) ==
    /\ sessions[k].status # "ABSENT" /\ sessions[k].opened <= t
    /\ sessions[k].status = "CLOSED" => t <= sessions[k].closed

\* findSessionByOccurredAt: the one opened last.
SessionAt(t) ==
    {k \in Session : /\ Covers(k, t)
                     /\ \A j \in Session : Covers(j, t) => sessions[j].opened <= sessions[k].opened}

\* getZReport: the snapshot, and nothing before the session is closed.
ZReport(k) == IF sessions[k].status = "CLOSED" THEN {snapshots[k]} ELSE {}

-----------------------------------------------------------------------------
\* opened_at is the start of the transaction, which may lie well before the check.
CreateSession(k, t) ==
    sessions' = [sessions EXCEPT ![k] = [status |-> "OPEN", opened |-> t, closed |-> 0]]

OpenSession(k) ==
    /\ sessions[k].status = "ABSENT"
    /\ Open = {}
    /\ \E t \in 0..now : CreateSession(k, t)
    /\ UNCHANGED <<now, movements, snapshots, closers, recorders>>

\* closeSession and forceCloseSession up to closedAt = new Date().
ReadTotals(c, k) ==
    /\ sessions[k].status = "OPEN"
    /\ \A x \in closers : x.by # c
    /\ closers' = closers \cup {[by |-> c, session |-> k, at |-> now, total |-> MovementsOf(k)]}
    /\ UNCHANGED <<now, sessions, movements, snapshots, recorders>>

\* Mutant: the UPDATE has no status = 'OPEN'.
ClosableAlways(k) == sessions[k].status # "ABSENT"

\* WHERE status = 'OPEN'
Closable(k) == sessions[k].status = "OPEN"

UpsertReconciliationSnapshot(k, total) == snapshots' = [snapshots EXCEPT ![k] = total]

\* The UPDATE and the snapshot; a closer that comes second throws.
CloseSession(c) ==
    /\ closers' = closers \ {c}
    /\ IF Closable(c.session)
       THEN /\ sessions' = [sessions EXCEPT ![c.session].status = "CLOSED",
                                            ![c.session].closed = c.at]
            /\ UpsertReconciliationSnapshot(c.session, c.total)
       ELSE UNCHANGED <<sessions, snapshots>>
    /\ UNCHANGED <<now, movements, recorders>>

\* requireOpenSessionForMovement.  A command runs once: the gate sees to that.
RequireOpenSession(m, k) ==
    /\ sessions[k].status = "OPEN"
    /\ \A x \in movements \cup {[session |-> r.session, source |-> r.by] : r \in recorders} :
          x.source # m
    /\ recorders' = recorders \cup {[by |-> m, session |-> k]}
    /\ UNCHANGED <<now, sessions, movements, snapshots, closers>>

AppendManual(r) ==
    /\ recorders' = recorders \ {r}
    /\ movements' = movements \cup {[session |-> r.session, source |-> r.by]}
    /\ UNCHANGED <<now, sessions, snapshots, closers>>

\* Mutant: the movement is unique within its session only.
BookedInSession(s, k) == [session |-> k, source |-> s] \in movements

\* uq_v0_cash_movements_sale_anchor
Booked(s, k) == \E m \in movements : m.source = s

\* appendMovement for a sale; a second one violates the index, and is swallowed.
AppendSaleIn(s, k) ==
    /\ movements' = IF Booked(s, k) THEN movements
                    ELSE movements \cup {[session |-> k, source |-> s]}
    /\ UNCHANGED <<now, sessions, snapshots, closers, recorders>>

Tick ==
    /\ now < MaxTime
    /\ now' = now + 1
    /\ UNCHANGED <<sessions, movements, snapshots, closers, recorders>>

\* The commands on the drawer, without the sales.
SessionCommands ==
    \E k \in Session :
        \/ OpenSession(k)
        \/ \E c \in Closer : ReadTotals(c, k)
        \/ \E m \in Manual : RequireOpenSession(m, k)
DrawerCommand ==
    \/ SessionCommands
    \/ \E c \in closers : CloseSession(c)
    \/ \E r \in recorders : AppendManual(r)
    \/ Tick

-----------------------------------------------------------------------------
\* The cash of a sale is in the drawer at most once: not again when its event is
\* redelivered after the session the first delivery found has closed and another
\* session, opened meanwhile, covers the same moment.
CashBookedOnce ==
    \A m, n \in movements : m.source \in Sale /\ m.source = n.source => m = n

\* A closer and a force-closer may both have read the totals of an open session;
\* the window and the Z report are one closer's and never change again.
CloseIsFinal ==
    [][\A k \in Session : sessions[k].status = "CLOSED" =>
          sessions'[k] = sessions[k] /\ ZReport(k)' = ZReport(k)]_cashVars

\* The boundary note on cash sessions: "closed/force-closed sessions reject new
\* movements".
ClosedSessionRejectsMovements ==
    [][\A k \in Session : sessions[k].status = "CLOSED" =>
          MovementsOf(k)' = MovementsOf(k)]_cashVars
=============================================================================
