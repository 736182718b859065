----------------------------- MODULE Attendance -----------------------------
(***************************************************************************)
(* Check-ins, check-outs and forced ends of work at one branch.  A command *)
(* reads the latest record of the account and then inserts its own, with   *)
(* the time its client gives; nothing is locked in between.                *)
(***************************************************************************)
EXTENDS Integers, Sequences

CONSTANTS
    Worker,
    Clock,             \* times a client may give: a set of integers
    Desk,              \* transactions under way
    Workplace,         \* the branch's location verification: [mode, configured]
    MaxPunches         \* bound of the records

ASSUME AttendanceAssumption == Clock \subseteq Int /\ MaxPunches \in Nat

VARIABLES
    punches,      \* v0_attendance_records, in the order they were inserted
    desks,        \* the transactions: what they have read and do next
    loose         \* history: accounts with a race, or with a time before the latest

attendanceVars == <<punches, desks, loose>>

-----------------------------------------------------------------------------
Observation == {"none", "vague", "inside", "outside"}
Away == [step |-> "idle"]

AttendanceTypeOK ==
    /\ punches \in Seq([of : Worker, type : {"CHECK_IN", "CHECK_OUT"}, at : Clock,
                        forced : BOOLEAN, verdict : {"NULL", "UNKNOWN", "MATCH", "MISMATCH"}])
    /\ Len(punches) <= MaxPunches
    /\ loose \subseteq Worker
    /\ \A d \in Desk : desks[d] = Away \/ desks[d].step \in {"checkIn", "checkOut", "force"}

AttendanceInit ==
    /\ punches = <<>>
    /\ desks = [d \in Desk |-> Away]
    /\ loose = {}

-----------------------------------------------------------------------------
\* listMine: the records of an account, by their place in the table.
RecordsOf(w) == {i \in DOMAIN punches : punches[i].of = w}

\* findLatestRecord orders by the time given, then by insertion.
NoLater(i, j) ==
    punches[i].at < punches[j].at \/ (punches[i].at = punches[j].at /\ i <= j)

\* The latest is a CHECK_IN.
Working(w) ==
    \E i \in RecordsOf(w) :
        punches[i].type = "CHECK_IN" /\ \A j \in RecordsOf(w) : NoLater(j, i)

\* evaluateLocation: only where the mode asks for it, and only when it can tell.
Verifies(step) ==
    CASE step = "checkIn" -> Workplace.mode # "disabled"
      [] OTHER -> Workplace.mode = "checkin_and_checkout"

EvaluateLocation(step, observed) ==
    IF ~Verifies(step) THEN "NULL"
    ELSE IF ~Workplace.configured \/ observed \in {"none", "vague"} THEN "UNKNOWN"
    ELSE IF observed = "inside" THEN "MATCH" ELSE "MISMATCH"

-----------------------------------------------------------------------------
\* What each command asks of the latest record.
CheckInAllowed(w) == ~Working(w)
CheckOutAllowed(w) == Working(w)
ForceAllowed(w) == Working(w)

Allowed(step, w) ==
    CASE step = "checkIn" -> CheckInAllowed(w)
      [] step = "checkOut" -> CheckOutAllowed(w)
      [] OTHER -> ForceAllowed(w)

\* checkIn, checkOut and forceEndWork up to the INSERT; otherwise a conflict.
ReadLatest(d, step, w, at) ==
    /\ desks[d] = Away /\ Len(punches) < MaxPunches
    /\ Allowed(step, w)
    /\ desks' = [desks EXCEPT ![d] = [step |-> step, of |-> w, at |-> at, read |-> RecordsOf(w)]]
    /\ UNCHANGED <<punches, loose>>

\* createRecord.
CreateRecord(d, observed) ==
    LET r == desks[d]
        mine == RecordsOf(r.of)
        stray == r.read # mine \/ \E i \in mine : punches[i].at > r.at
    IN  /\ r # Away /\ Len(punches) < MaxPunches
        /\ punches' = Append(punches,
              [of |-> r.of, type |-> IF r.step = "checkIn" THEN "CHECK_IN" ELSE "CHECK_OUT",
               at |-> r.at, forced |-> (r.step = "force"),
               verdict |-> EvaluateLocation(r.step, observed)])
        /\ loose' = IF stray THEN loose \cup {r.of} ELSE loose
        /\ desks' = [desks EXCEPT ![d] = Away]

\* The request fails or the process dies before the commit.
LeaveDesk(d) ==
    /\ desks[d] # Away
    /\ desks' = [desks EXCEPT ![d] = Away]
    /\ UNCHANGED <<punches, loose>>

AttendanceStep ==
    \E d \in Desk :
        \/ \E step \in {"checkIn", "checkOut", "force"}, w \in Worker, at \in Clock :
               ReadLatest(d, step, w, at)
        \/ \E observed \in Observation : CreateRecord(d, observed)
        \/ LeaveDesk(d)

-----------------------------------------------------------------------------
\* Whoever ends the work, the records of an account go in and out by turns, and a
\* forced end is one of the outs: except where two commands of the account
\* overlapped or a client gave a time before the latest record's.
AttendanceAlternates ==
    \A w \in Worker \ loose : \A i \in RecordsOf(w) :
        LET earlier == {j \in RecordsOf(w) : j < i} IN
        /\ earlier = {} => punches[i].type = "CHECK_IN"
        /\ \A j \in earlier :
              /\ punches[j].at <= punches[i].at
              /\ (\A k \in earlier : k <= j) => punches[j].type # punches[i].type
        /\ punches[i].forced => punches[i].type = "CHECK_OUT"
=============================================================================
