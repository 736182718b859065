--------------------------- MODULE SaleEffects_proofs ---------------------------
(***************************************************************************)
(* Proofs about SaleEffects, for any sets of sales, sessions, items,       *)
(* commands and dispatchers.                                               *)
(***************************************************************************)
EXTENDS SaleEffects, Aggregates, FiniteSetTheorems, TLAPS

-----------------------------------------------------------------------------
(* Types.                                                                  *)

\* What a subscriber may have read.
PlanOf(by) == {Unread} \cup IF by = "inventory" THEN Recipe ELSE Session

Jobs == {j \in [row : Row, by : {"inventory", "cashSession"}, plan : Plan, awaited : BOOLEAN] :
            j.by \in SubscribersOf(j.row) /\ j.plan \in PlanOf(j.by)}

OutboxTables ==
    /\ batch \in [Dispatcher -> SUBSET Row]
    /\ held \in [Dispatcher -> SUBSET Row]
    /\ marked \in [Dispatcher -> SUBSET Row]
    /\ current \in [Dispatcher -> SUBSET Row]
    /\ running \in [Dispatcher -> SUBSET Jobs]

\* What a tick has reached, is at and has marked are rows it holds.
TicksHold ==
    /\ published \subseteq ToSet(log)
    /\ \A d \in Dispatcher : /\ held[d] \subseteq ToSet(log)
                             /\ batch[d] \subseteq held[d]
                             /\ current[d] \subseteq held[d]
                             /\ marked[d] \subseteq held[d]

LogTyped == log \in Seq(Row) /\ IsInjective(log)

OutboxTyped == LogTyped /\ OutboxTables /\ TicksHold /\ faults \in 0..MaxFaults

SalesTyped == sales \in [Sale -> SaleRow] /\ checkouts \subseteq Sale

Typed == OutboxTyped /\ SalesTyped /\ CashTypeOK /\ StockTypeOK

\* Inserting a row that is new puts it into the log and repeats nothing.
LEMMA Inserted ==
    ASSUME NEW T, NEW s \in Seq(T), IsInjective(s), NEW r \in T, r \notin ToSet(s),
           NEW n \in 1..Len(s) + 1
    PROVE  /\ InsertAt(s, n, r) \in Seq(T)
           /\ IsInjective(InsertAt(s, n, r))
           /\ ToSet(InsertAt(s, n, r)) = ToSet(s) \cup {r}
  <1> DEFINE t == InsertAt(s, n, r)
  <1>1. n \in Nat /\ Len(s) \in Nat /\ n >= 1 /\ n <= Len(s) + 1
    OBVIOUS
  <1>2. /\ t \in Seq(T) /\ Len(t) = Len(s) + 1 /\ t[n] = r
        /\ \A i \in 1..n - 1 : t[i] = s[i]
        /\ \A i \in n + 1..Len(s) + 1 : t[i] = s[i - 1]
    <2> DEFINE a == SubSeq(s, 1, n - 1)
               b == SubSeq(s, n, Len(s))
    <2>1. a \in Seq(T) /\ Len(a) = n - 1 /\ \A i \in 1..n - 1 : a[i] = s[i]
      BY <1>1
    <2>2. b \in Seq(T) /\ Len(b) = Len(s) + 1 - n /\ \A i \in 1..Len(s) + 1 - n : b[i] = s[n + i - 1]
      BY <1>1
    <2>3. t = (a \o <<r>>) \o b
      BY DEF InsertAt
    <2> HIDE DEF a, b, t
    <2>4. /\ a \o <<r>> \in Seq(T) /\ Len(a \o <<r>>) = n /\ (a \o <<r>>)[n] = r
          /\ \A i \in 1..n - 1 : (a \o <<r>>)[i] = s[i]
      BY <1>1, <2>1
    <2>5. /\ t \in Seq(T) /\ Len(t) = Len(s) + 1
          /\ \A i \in 1..n : t[i] = (a \o <<r>>)[i]
          /\ \A i \in n + 1..Len(s) + 1 : t[i] = b[i - n]
      <3> DEFINE ar == a \o <<r>>
      <3>2. ar \in Seq(T) /\ Len(ar) = n /\ t = ar \o b
        BY <2>3, <2>4
      <3> HIDE DEF ar
      <3>3. t \in Seq(T) /\ Len(t) = Len(s) + 1
        <4>1. t \in Seq(T) /\ Len(t) = Len(ar) + Len(b)
          BY <2>2, <3>2
        <4> QED
          BY <1>1, <2>2, <3>2, <4>1
      <3>4. \A i \in 1..n : t[i] = ar[i]
        BY <1>1, <2>2, <3>2
      <3>5. ASSUME NEW i \in n + 1..Len(s) + 1 PROVE t[i] = b[i - n]
        <4>1. i \in Nat /\ i > n /\ i - n <= Len(b)
          BY <1>1, <2>2
        <4> QED
          BY <1>1, <2>2, <3>2, <4>1
      <3> QED
        BY <3>3, <3>4, <3>5 DEF ar
    <2>6. \A i \in n + 1..Len(s) + 1 : i - n \in 1..Len(s) + 1 - n /\ n + (i - n) - 1 = i - 1
      BY <1>1
    <2>7. \A i \in 1..n - 1 : i \in 1..n
      BY <1>1
    <2>8. t[n] = r
      BY <1>1, <2>4, <2>5
    <2> QED
      BY <2>2, <2>4, <2>5, <2>6, <2>7, <2>8
  <1>3. \A i \in 1..Len(s) : s[i] # r
    BY DEF ToSet
  <1>4. \A i, j \in 1..Len(s) : s[i] = s[j] => i = j
    BY DEF IsInjective
  <1> HIDE DEF t
  <1>5. \A i \in 1..Len(s) + 1 : \/ i = n /\ t[i] = r
                                 \/ i \in 1..n - 1 /\ i \in 1..Len(s) /\ t[i] = s[i]
                                 \/ i > n /\ i - 1 \in 1..Len(s) /\ t[i] = s[i - 1]
    <2> SUFFICES ASSUME NEW i \in 1..Len(s) + 1
                 PROVE  \/ i = n /\ t[i] = r
                        \/ i \in 1..n - 1 /\ i \in 1..Len(s) /\ t[i] = s[i]
                        \/ i > n /\ i - 1 \in 1..Len(s) /\ t[i] = s[i - 1]
      OBVIOUS
    <2>1. i < n => i \in 1..n - 1 /\ i \in 1..Len(s)
      BY <1>1
    <2>2. i > n => i \in n + 1..Len(s) + 1 /\ i - 1 \in 1..Len(s)
      BY <1>1
    <2>3. i < n \/ i = n \/ i > n
      BY <1>1
    <2> QED
      BY <1>2, <2>1, <2>2, <2>3
  <1>6. \A i, j \in 1..Len(s) + 1 : t[i] = t[j] => i = j
    <2> SUFFICES ASSUME NEW i \in 1..Len(s) + 1, NEW j \in 1..Len(s) + 1, t[i] = t[j]
                 PROVE  i = j
      OBVIOUS
    <2>1. \/ i = n /\ t[i] = r
          \/ i \in 1..n - 1 /\ i \in 1..Len(s) /\ t[i] = s[i]
          \/ i > n /\ i - 1 \in 1..Len(s) /\ t[i] = s[i - 1]
      BY <1>5
    <2>2. \/ j = n /\ t[j] = r
          \/ j \in 1..n - 1 /\ j \in 1..Len(s) /\ t[j] = s[j]
          \/ j > n /\ j - 1 \in 1..Len(s) /\ t[j] = s[j - 1]
      BY <1>5
    <2> QED
      BY <1>1, <1>3, <1>4, <2>1, <2>2
  <1>7. IsInjective(t)
    BY <1>2, <1>6 DEF IsInjective
  <1>8. ToSet(t) \subseteq ToSet(s) \cup {r}
    BY <1>2, <1>5 DEF ToSet
  <1>9. ASSUME NEW x \in ToSet(s) PROVE x \in ToSet(t)
    <2>1. PICK i \in 1..Len(s) : x = s[i]
      BY DEF ToSet
    <2>2. CASE i < n
      BY SMTT(30), <1>1, <1>2, <2>1, <2>2 DEF ToSet
    <2>3. CASE i >= n
      <3>1. i + 1 \in n + 1..Len(s) + 1 /\ i + 1 - 1 = i /\ i + 1 \in 1..Len(t)
        BY <1>1, <1>2, <2>1, <2>3
      <3>2. t[i + 1] = x /\ i + 1 \in DOMAIN t
        BY <1>2, <2>1, <3>1
      <3> QED
        BY <3>2 DEF ToSet
    <2> QED
      BY <1>1, <2>1, <2>2, <2>3
  <1>10. r \in ToSet(t)
    BY <1>1, <1>2 DEF ToSet
  <1> QED
    BY <1>2, <1>7, <1>8, <1>9, <1>10 DEF t

\* A command that commits its outbox row.
LEMMA Emitting ==
    ASSUME OutboxTyped, NEW r \in Row, Emit(r)
    PROVE  /\ OutboxTyped' /\ ToSet(log)' = ToSet(log) \cup {r}
           /\ UNCHANGED <<published, batch, held, marked, current, running, faults>>
  <1>1. PICK n \in 1..Len(log) + 1 : log' = InsertAt(log, n, r)
    BY DEF Emit
  <1>2. r \notin ToSet(log)
    BY DEF Emit
  <1>3. LogTyped' /\ ToSet(log)' = ToSet(log) \cup {r}
    BY <1>1, <1>2, Inserted DEF OutboxTyped, LogTyped
  <1>4. UNCHANGED <<published, batch, held, marked, current, running, faults>>
    BY DEF Emit
  <1> QED
    BY <1>3, <1>4 DEF OutboxTyped, OutboxTables, TicksHold

\* A job that has read something, and jobs nobody waits for any more.
LEMMA JobRows ==
    ASSUME NEW j \in Jobs
    PROVE  /\ \A p \in PlanOf(j.by) : /\ [j EXCEPT !.plan = p] \in Jobs
                                     /\ [j EXCEPT !.plan = p].row = j.row
                                     /\ [j EXCEPT !.plan = p].by = j.by
                                     /\ [j EXCEPT !.plan = p].plan = p
                                     /\ [j EXCEPT !.plan = p].awaited = j.awaited
           /\ [j EXCEPT !.awaited = FALSE] \in Jobs
           /\ [j EXCEPT !.awaited = FALSE].row = j.row
           /\ [j EXCEPT !.awaited = FALSE].by = j.by
           /\ [j EXCEPT !.awaited = FALSE].plan = j.plan
           /\ [j EXCEPT !.awaited = FALSE].awaited = FALSE
  BY DEF Jobs, PlanOf, Plan

\* No step of a dispatcher, and none of its failures, leaves the outbox ill-typed or
\* a tick with a row it does not hold.
LEMMA LoadTyped ==
    ASSUME OutboxTyped, NEW d \in Dispatcher, Load(d)
    PROVE  OutboxTyped'
  <1>1. ToSet(log) \subseteq Row
    BY DEF OutboxTyped, LogTyped, ToSet
  <1>2. Loadable \subseteq ToSet(log)
    BY DEF Loadable
  <1>3. OutboxTables' /\ TicksHold'
    BY <1>1, <1>2 DEF Load, OutboxTyped, OutboxTables, TicksHold
  <1> QED
    BY <1>3 DEF Load, OutboxTyped, LogTyped

LEMMA PublishTyped ==
    ASSUME OutboxTyped, NEW d \in Dispatcher, Publish(d)
    PROVE  OutboxTyped'
  <1>1. PICK r \in batch[d] :
          /\ current' = [current EXCEPT ![d] = {r}]
          /\ batch' = [batch EXCEPT ![d] = @ \ {r}]
          /\ running' = [running EXCEPT ![d] = @ \cup
                [row : {r}, by : SubscribersOf(r), plan : {Unread}, awaited : {TRUE}]]
    BY DEF Publish
  <1>2. r \in Row /\ r \in held[d]
    BY DEF OutboxTyped, OutboxTables, TicksHold
  <1>3. [row : {r}, by : SubscribersOf(r), plan : {Unread}, awaited : {TRUE}] \subseteq Jobs
    BY <1>2 DEF Jobs, SubscribersOf, Plan, PlanOf
  <1>4. OutboxTables'
    BY ZenonT(40), <1>1, <1>2, <1>3 DEF Publish, OutboxTyped, OutboxTables
  <1>5. TicksHold'
    BY <1>1, <1>2 DEF Publish, OutboxTyped, OutboxTables, TicksHold
  <1> QED
    BY <1>4, <1>5 DEF Publish, OutboxTyped, LogTyped

LEMMA MarkTyped ==
    ASSUME OutboxTyped, NEW d \in Dispatcher, Mark(d) \/ CommitTick(d)
    PROVE  OutboxTyped'
  <1>1. CASE Mark(d)
    BY <1>1 DEF Mark, OutboxTyped, OutboxTables, TicksHold, LogTyped
  <1>2. CASE CommitTick(d)
    BY <1>2 DEF CommitTick, MarkedRows, OutboxTyped, OutboxTables, TicksHold, LogTyped
  <1> QED
    BY <1>1, <1>2

LEMMA JobTyped ==
    ASSUME OutboxTyped, NEW d \in Dispatcher, NEW job \in running[d],
           \/ \E p \in PlanOf(job.by) : Read(d, job, p)
           \/ Return(d, job)
           \/ Throw(d, job) /\ faults' \in 0..MaxFaults
    PROVE  OutboxTyped'
  <1>1. job \in Jobs /\ running[d] \subseteq Jobs
    BY DEF OutboxTyped, OutboxTables
  <1>2. ASSUME NEW p \in PlanOf(job.by), Read(d, job, p) PROVE OutboxTyped'
    <2>1. [job EXCEPT !.plan = p] \in Jobs
      BY <1>1, JobRows
    <2> QED
      BY <1>2, <2>1 DEF Read, OutboxTyped, OutboxTables, TicksHold, LogTyped
  <1>3. CASE Return(d, job)
    BY <1>3 DEF Return, OutboxTyped, OutboxTables, TicksHold, LogTyped
  <1>4. CASE Throw(d, job) /\ faults' \in 0..MaxFaults
    <2>1. Abandoned(running[d] \ {job}) \subseteq Jobs
      BY <1>1, JobRows DEF Abandoned
    <2> QED
      BY <1>4, <2>1 DEF Throw, OutboxTyped, OutboxTables, TicksHold, LogTyped
  <1> QED
    BY <1>2, <1>3, <1>4

LEMMA FaultTyped ==
    ASSUME OutboxTyped, NEW d \in Dispatcher, Fault(d)
    PROVE  OutboxTyped'
  <1>1. running[d] \subseteq Jobs
    BY DEF OutboxTyped, OutboxTables
  <1>2. Fails => faults' \in 0..MaxFaults
    BY EffectsAssumption DEF Fails, OutboxTyped
  <1>3. CASE FailTick(d)
    <2>1. Abandoned(running[d]) \subseteq Jobs
      BY <1>1, JobRows DEF Abandoned
    <2> QED
      BY <1>2, <1>3, <2>1 DEF FailTick, OutboxTyped, OutboxTables, TicksHold, LogTyped
  <1>4. CASE CrashProcess(d)
    BY <1>2, <1>4 DEF CrashProcess, OutboxTyped, OutboxTables, TicksHold, LogTyped
  <1>5. ASSUME NEW job \in running[d], FailSubscriber(d, job) PROVE OutboxTyped'
    BY <1>2, <1>5, JobTyped DEF FailSubscriber
  <1> QED
    BY <1>3, <1>4, <1>5 DEF Fault

-----------------------------------------------------------------------------
\* The drawer's tables keep their types.
LEMMA DrawerTyped ==
    ASSUME CashTypeOK, DrawerCommand
    PROVE  CashTypeOK'
  <1>1. ASSUME NEW k \in Session, OpenSession(k) PROVE CashTypeOK'
    BY <1>1, EffectsAssumption DEF CashTypeOK, OpenSession, CreateSession, SessionRow, Time
  <1>2. ASSUME NEW k \in Session, NEW c \in Closer, ReadTotals(c, k) PROVE CashTypeOK'
    <2>1. MovementsOf(k) \in SUBSET Movement
      BY DEF MovementsOf, CashTypeOK
    <2> QED
      BY <1>2, <2>1 DEF CashTypeOK, ReadTotals
  <1>3. ASSUME NEW k \in Session, NEW m \in CashCommand, RequireOpenSession(m, k) PROVE CashTypeOK'
    BY <1>3 DEF CashTypeOK, RequireOpenSession
  <1>4. ASSUME NEW c \in closers, CloseSession(c) PROVE CashTypeOK'
    <2>1. c.session \in Session /\ c.at \in Time /\ c.total \in SUBSET Movement
      BY DEF CashTypeOK
    <2>2. /\ closers' = closers \ {c}
          /\ UNCHANGED <<now, movements, recorders>>
      BY <1>4 DEF CloseSession
    <2>3. CASE Closable(c.session)
      <3>1. /\ sessions' = [sessions EXCEPT ![c.session].status = "CLOSED",
                                            ![c.session].closed = c.at]
            /\ snapshots' = [snapshots EXCEPT ![c.session] = c.total]
        BY <1>4, <2>3 DEF CloseSession, UpsertReconciliationSnapshot
      <3>2. sessions' \in [Session -> SessionRow]
        <4>1. sessions[c.session] \in SessionRow
          BY <2>1 DEF CashTypeOK
        <4> QED
          BY <2>1, <3>1, <4>1 DEF CashTypeOK, SessionRow
      <3>3. snapshots' \in [Session -> SUBSET Movement]
        BY <2>1, <3>1 DEF CashTypeOK
      <3> QED
        BY <2>2, <3>2, <3>3 DEF CashTypeOK
    <2>4. CASE ~Closable(c.session)
      <3>1. UNCHANGED <<sessions, snapshots>>
        BY <1>4, <2>4 DEF CloseSession
      <3> QED
        BY <2>2, <3>1 DEF CashTypeOK
    <2> QED
      BY <2>3, <2>4
  <1>5. ASSUME NEW r \in recorders, AppendManual(r) PROVE CashTypeOK'
    BY <1>5 DEF CashTypeOK, AppendManual, Movement
  <1>6. CASE Tick
    BY <1>6, EffectsAssumption DEF CashTypeOK, Tick, Time
  <1> QED
    BY <1>1, <1>2, <1>3, <1>4, <1>5, <1>6 DEF DrawerCommand, SessionCommands

\* A sale's movement, and the movements of the stock.
LEMMA SaleInTyped ==
    ASSUME CashTypeOK, NEW s \in Sale, NEW k \in Session, AppendSaleIn(s, k)
    PROVE  CashTypeOK'
  BY DEF CashTypeOK, AppendSaleIn, Movement

LEMMA Sources ==
    /\ \A s \in Sale : Deduction(s) \in Source /\ Reversal(s) \in Source
    /\ \A m \in StockCommand : [command |-> m] \in Source
    /\ \A s, t \in Sale : Deduction(s) # Reversal(t)
    /\ \A s, t \in Sale : Deduction(s) = Deduction(t) => s = t
    /\ \A s \in Sale, m \in StockCommand : Deduction(s) # [command |-> m]
  <1>1. \A s \in Sale, m \in StockCommand : DOMAIN Deduction(s) # DOMAIN [command |-> m]
    BY DEF Deduction
  <1> QED
    BY <1>1 DEF Deduction, Reversal, Source

LEMMA MovementTyped ==
    ASSUME StockTypeOK, NEW x \in Source, NEW q \in [Item -> Int], ApplyMovement(x, q)
    PROVE  journal' \in [Source -> [Item -> Int]] /\ stock' \in [Item -> Int]
  BY DEF StockTypeOK, ApplyMovement

LEMMA StockTyped ==
    ASSUME StockTypeOK, InventoryCommand
    PROVE  StockTypeOK'
  <1>1. ASSUME NEW m \in StockCommand, NEW i \in Item, NEW q \in Int, AdjustBy(m, i, q)
        PROVE  StockTypeOK'
    <2>1. [x \in Item |-> IF x = i THEN q ELSE 0] \in [Item -> Int]
      OBVIOUS
    <2> QED
      BY <1>1, <2>1, Sources, MovementTyped DEF AdjustBy, StockTypeOK
  <1>2. ASSUME NEW m \in StockCommand, NEW i \in Item, NEW q \in Int, ReadOnHand(m, i, q)
        PROVE  StockTypeOK'
    BY <1>2 DEF ReadOnHand, StockTypeOK
  <1>3. ASSUME NEW c \in counts, AdjustToCount(c) PROVE StockTypeOK'
    <2>1. c.by \in StockCommand /\ c.delta \in Int
      BY DEF StockTypeOK
    <2>2. [x \in Item |-> IF x = c.item THEN c.delta ELSE 0] \in [Item -> Int]
      BY <2>1
    <2> QED
      BY <1>3, <2>1, <2>2, Sources, MovementTyped DEF AdjustToCount, StockTypeOK
  <1>4. ASSUME NEW r \in Recipe, EditComposition(r) PROVE StockTypeOK'
    BY <1>4 DEF EditComposition, StockTypeOK
  <1>5. \A q \in Quantity \cup {0} : q \in Int /\ -q \in Int
    BY EffectsAssumption
  <1> QED
    BY <1>1, <1>2, <1>3, <1>4, <1>5 DEF InventoryCommand

\* Sales: what finalizes, announces or voids one.
LEMMA SaleTyped ==
    ASSUME Typed, NEW s \in Sale,
           RequireOpenCashSession(s) \/ FinalizeSale(s) \/ RefinalizeSale(s) \/ ExecuteVoid(s)
    PROVE  Typed'
  <1>1. sales[s] \in SaleRow
    BY DEF Typed, SalesTyped
  <1>2. CASE RequireOpenCashSession(s)
    BY <1>2 DEF RequireOpenCashSession, Typed, SalesTyped, outbox, drawer, inventory,
                OutboxTyped, LogTyped, OutboxTables, TicksHold, CashTypeOK, StockTypeOK
  <1>3. UNCHANGED <<drawer, inventory>> /\ CashTypeOK /\ StockTypeOK => (CashTypeOK /\ StockTypeOK)'
    BY DEF drawer, inventory, CashTypeOK, StockTypeOK
  <1>4. CASE FinalizeSale(s)
    <2>1. PICK t \in 0..now :
            sales' = [sales EXCEPT ![s].status = "FINALIZED", ![s].finalized = t]
      BY <1>4 DEF FinalizeSale
    <2>2. t \in Time
      BY EffectsAssumption DEF Typed, CashTypeOK, Time
    <2>3. sales' \in [Sale -> SaleRow]
      BY <1>1, <2>1, <2>2 DEF Typed, SalesTyped, SaleRow
    <2>4. [sale |-> s, event |-> "SALE_FINALIZED", command |-> 1] \in Row
      BY EffectsAssumption DEF Row
    <2>5. OutboxTyped'
      BY <1>4, <2>4, Emitting DEF FinalizeSale, Typed
    <2>6. checkouts' \subseteq Sale
      BY <1>4 DEF FinalizeSale, Typed, SalesTyped
    <2>7. (CashTypeOK /\ StockTypeOK)'
      BY <1>3, <1>4 DEF FinalizeSale, Typed
    <2> QED
      BY <2>3, <2>5, <2>6, <2>7 DEF Typed, SalesTyped
  <1>5. CASE RefinalizeSale(s)
    <2>1. PICK n \in 2..MaxAnnounced :
            Emit([sale |-> s, event |-> "SALE_FINALIZED", command |-> n])
      BY <1>5 DEF RefinalizeSale
    <2>2. [sale |-> s, event |-> "SALE_FINALIZED", command |-> n] \in Row
      BY EffectsAssumption DEF Row
    <2>3. OutboxTyped'
      BY <2>1, <2>2, Emitting DEF Typed
    <2>4. (CashTypeOK /\ StockTypeOK)'
      BY <1>3, <1>5 DEF RefinalizeSale, Typed
    <2> QED
      BY <1>5, <2>3, <2>4 DEF RefinalizeSale, Typed, SalesTyped
  <1>6. CASE ExecuteVoid(s)
    <2>1. sales' \in [Sale -> SaleRow]
      BY <1>1, <1>6 DEF ExecuteVoid, Typed, SalesTyped, SaleRow
    <2>2. [sale |-> s, event |-> "SALE_VOID_EXECUTED"] \in Row
      BY DEF Row
    <2>3. OutboxTyped'
      BY <1>6, <2>2, Emitting DEF ExecuteVoid, Typed
    <2>4. (CashTypeOK /\ StockTypeOK)'
      BY <1>3, <1>6 DEF ExecuteVoid, Typed
    <2> QED
      BY <1>6, <2>1, <2>3, <2>4 DEF ExecuteVoid, Typed, SalesTyped
  <1> QED
    BY <1>2, <1>4, <1>5, <1>6

\* What the reads and writes of a subscriber find: a sale of a row, and its own kind
\* of plan.
LEMMA JobFacts ==
    ASSUME Typed, NEW d \in Dispatcher, NEW job \in running[d]
    PROVE  /\ job \in Jobs /\ job.row \in Row /\ job.row.sale \in Sale
           /\ job.awaited \in BOOLEAN
           /\ job.by = "inventory" /\ job.plan # Unread =>
                 job.plan \in Recipe /\ job.plan \in [Item -> Nat]
           /\ job.by = "cashSession" /\ job.plan # Unread => job.plan \in Session
  <1>1. job \in Jobs
    BY DEF Typed, OutboxTyped, OutboxTables
  <1> QED
    BY <1>1, EffectsAssumption DEF Jobs, Row, PlanOf

LEMMA SubscriberTyped ==
    ASSUME Typed, NEW d \in Dispatcher, NEW job \in running[d], Subscriber(d, job)
    PROVE  Typed'
  <1>1. UNCHANGED <<sales, checkouts>> => SalesTyped'
    BY DEF Typed, SalesTyped
  <1>2. UNCHANGED drawer => CashTypeOK'
    BY DEF Typed, CashTypeOK, drawer
  <1>3. UNCHANGED inventory => StockTypeOK'
    BY DEF Typed, StockTypeOK, inventory
  <1>4. CASE InventoryReads(d, job)
    <2>1. job.by = "inventory"
      BY <1>4 DEF InventoryReads
    <2>2. recipe \in PlanOf(job.by)
      BY <2>1 DEF Typed, StockTypeOK, PlanOf
    <2>3. (\E p \in PlanOf(job.by) : Read(d, job, p)) \/ Return(d, job)
      BY <1>4, <2>2 DEF InventoryReads
    <2>4. OutboxTyped'
      BY <2>3, JobTyped DEF Typed
    <2> QED
      BY <1>1, <1>2, <1>3, <1>4, <2>4 DEF InventoryReads, Typed
  <1>5. CASE InventoryApplies(d, job)
    <2>1. job.row.sale \in Sale /\ job.plan \in [Item -> Nat]
      BY <1>5, JobFacts DEF InventoryApplies
    <2>2. OutboxTyped'
      BY <1>5, JobTyped DEF InventoryApplies, Typed
    <2>3. [i \in Item |-> -job.plan[i]] \in [Item -> Int] /\ job.plan \in [Item -> Int]
      BY <2>1
    <2>4. StockTypeOK'
      BY <1>5, <2>1, <2>3, Sources, MovementTyped DEF InventoryApplies, Typed, StockTypeOK
    <2> QED
      BY <1>1, <1>2, <1>5, <2>2, <2>4 DEF InventoryApplies, Typed
  <1>6. CASE CashSessionReads(d, job)
    <2>1. \A t : SessionAt(t) \subseteq PlanOf(job.by)
      BY <1>6 DEF CashSessionReads, PlanOf, SessionAt
    <2>2. (\E p \in PlanOf(job.by) : Read(d, job, p)) \/ Return(d, job)
      BY <1>6, <2>1 DEF CashSessionReads
    <2>3. OutboxTyped'
      BY <2>2, JobTyped DEF Typed
    <2> QED
      BY <1>1, <1>2, <1>3, <1>6, <2>3 DEF CashSessionReads, Typed
  <1>7. CASE CashSessionApplies(d, job)
    <2>1. job.row.sale \in Sale /\ job.plan \in Session
      BY <1>7, JobFacts DEF CashSessionApplies
    <2>2. Return(d, job) \/ (Throw(d, job) /\ UNCHANGED faults)
      BY <1>7 DEF CashSessionApplies
    <2>3. OutboxTyped'
      BY <2>2, JobTyped DEF Typed, OutboxTyped
    <2>4. CashTypeOK'
      BY <1>2, <1>7, <2>1, SaleInTyped DEF CashSessionApplies, Typed
    <2> QED
      BY <1>1, <1>3, <1>7, <2>3, <2>4 DEF CashSessionApplies, Typed
  <1> QED
    BY <1>4, <1>5, <1>6, <1>7 DEF Subscriber

LEMMA TypedInit == Init => Typed
  <1> SUFFICES ASSUME Init PROVE Typed
    OBVIOUS
  <1>1. LogTyped /\ ToSet(log) = {}
    BY DEF Init, OutboxInit, LogTyped, ToSet, IsInjective
  <1>2. OutboxTyped
    BY <1>1, EffectsAssumption DEF Init, OutboxInit, OutboxTyped, OutboxTables, TicksHold
  <1>3. SalesTyped
    BY DEF Init, SalesTyped
  <1>4. CashTypeOK
    BY EffectsAssumption DEF Init, CashInit, CashTypeOK, SessionRow, NoSession, Time
  <1>5. StockTypeOK
    BY DEF Init, StockInit, StockTypeOK
  <1> QED
    BY <1>2, <1>3, <1>4, <1>5 DEF Typed

LEMMA TypedStep == Typed /\ [Next]_vars => Typed'
  <1> SUFFICES ASSUME Typed, [Next]_vars PROVE Typed'
    OBVIOUS
  <1>1. UNCHANGED outbox => OutboxTyped'
    BY DEF Typed, OutboxTyped, LogTyped, OutboxTables, TicksHold, outbox
  <1>2. UNCHANGED <<sales, checkouts>> => SalesTyped'
    BY DEF Typed, SalesTyped
  <1>3. UNCHANGED drawer => CashTypeOK'
    BY DEF Typed, CashTypeOK, drawer
  <1>4. UNCHANGED inventory => StockTypeOK'
    BY DEF Typed, StockTypeOK, inventory
  <1>5. CASE SaleCommand
    BY <1>5, SaleTyped DEF SaleCommand
  <1>6. ASSUME NEW d \in Dispatcher, Dispatch(d) PROVE Typed'
    <2>1. CASE TickStep(d) /\ UNCHANGED <<sales, checkouts, drawer, inventory>>
      <3>1. OutboxTyped'
        BY <2>1, LoadTyped, PublishTyped, MarkTyped DEF TickStep, Typed
      <3> QED
        BY <1>2, <1>3, <1>4, <2>1, <3>1 DEF Typed
    <2> QED
      BY <1>6, <2>1, SubscriberTyped DEF Dispatch
  <1>7. ASSUME NEW d \in Dispatcher, Fault(d), UNCHANGED <<sales, checkouts, drawer, inventory>>
        PROVE  Typed'
    BY <1>2, <1>3, <1>4, <1>7, FaultTyped DEF Typed
  <1>8. CASE DrawerCommand /\ UNCHANGED <<sales, checkouts, outbox, inventory>>
    BY <1>1, <1>2, <1>4, <1>8, DrawerTyped DEF Typed
  <1>9. CASE InventoryCommand /\ UNCHANGED <<sales, checkouts, outbox, drawer>>
    BY <1>1, <1>2, <1>3, <1>9, StockTyped DEF Typed
  <1>10. CASE UNCHANGED vars
    BY <1>1, <1>2, <1>3, <1>4, <1>10 DEF Typed, vars
  <1> QED
    BY <1>5, <1>6, <1>7, <1>8, <1>9, <1>10 DEF Next

\* Every table keeps to its columns, and the tick of a dispatcher to the rows it has
\* locked: what it has reached, is at or has marked are rows of its own.
THEOREM TypesKept == Spec => []TypeOK
  <1>1. Spec => []Typed
    BY TypedInit, TypedStep, PTL DEF Spec
  <1>2. Typed => TypeOK
    <2> SUFFICES ASSUME Typed PROVE TypeOK
      OBVIOUS
    <2>1. ToSet(log) \subseteq Row
      BY DEF Typed, OutboxTyped, LogTyped, ToSet
    <2>2. Jobs \subseteq [row : Row, by : UNION {SubscribersOf(r) : r \in Row},
                          plan : Plan, awaited : BOOLEAN]
      BY DEF Jobs
    <2>3. OutboxTypeOK(Plan)
      BY <2>1, <2>2 DEF OutboxTypeOK, Typed, OutboxTyped, LogTyped, OutboxTables, TicksHold
    <2> QED
      BY <2>3 DEF Typed, SalesTyped, TypeOK
  <1> QED
    BY <1>1, <1>2, PTL

LEMMA AlwaysTyped == Spec => []Typed
  BY TypedInit, TypedStep, PTL DEF Spec

-----------------------------------------------------------------------------
(* Sharing the backlog.                                                    *)

\* The rows a dispatcher's steps lock and publish.
LEMMA TickShares ==
    ASSUME OutboxTyped, RowsShared, NEW d \in Dispatcher, TickStep(d) \/ Fault(d)
    PROVE  RowsShared'
  <1>1. /\ published' = published
        /\ \/ held' = held
           \/ held' = [held EXCEPT ![d] = {}]
        => RowsShared'
    BY DEF RowsShared, OutboxTyped, OutboxTables
  <1>2. CASE Load(d)
    <2>1. \A e \in Dispatcher : Loadable \cap held[e] = {}
      BY DEF Loadable, Free
    <2>2. Loadable \cap published = {}
      BY DEF Loadable, Free
    <2>3. held' = [held EXCEPT ![d] = Loadable] /\ published' = published
      BY <1>2 DEF Load
    <2> HIDE DEF Loadable
    <2> QED
      BY <2>1, <2>2, <2>3 DEF RowsShared, OutboxTyped, OutboxTables
  <1>3. CASE Publish(d) \/ Mark(d)
    BY <1>1, <1>3 DEF Publish, Mark
  <1>4. CASE CommitTick(d)
    <2>1. held' = [held EXCEPT ![d] = {}] /\ published' = published \cup marked[d]
      BY <1>4 DEF CommitTick, MarkedRows
    <2>2. marked[d] \subseteq held[d]
      BY DEF OutboxTyped, TicksHold
    <2> QED
      BY <2>1, <2>2 DEF RowsShared, OutboxTyped, OutboxTables
  <1>5. CASE FailTick(d) \/ CrashProcess(d)
    BY <1>1, <1>5 DEF FailTick, CrashProcess
  <1>6. ASSUME NEW job \in running[d], FailSubscriber(d, job) PROVE RowsShared'
    BY <1>1, <1>6 DEF FailSubscriber, Throw
  <1> QED
    BY <1>2, <1>3, <1>4, <1>5, <1>6 DEF TickStep, Fault

\* Subscribers, sales and the commands on the drawer and the stock lock nothing and
\* publish nothing.
LEMMA OthersLockNothing ==
    ASSUME Next
    PROVE  \/ \E d \in Dispatcher : TickStep(d) \/ Fault(d)
           \/ UNCHANGED <<held, published, marked, batch>>
  <1>1. CASE SaleCommand
    BY <1>1 DEF SaleCommand, RequireOpenCashSession, FinalizeSale, RefinalizeSale, ExecuteVoid,
                Emit, outbox
  <1>2. ASSUME NEW d \in Dispatcher, NEW job \in running[d], Subscriber(d, job)
        PROVE  UNCHANGED <<held, published, marked, batch>>
    <2>1. \A p : Read(d, job, p) => UNCHANGED <<held, published, marked, batch>>
      BY DEF Read
    <2>2. Return(d, job) \/ Throw(d, job) => UNCHANGED <<held, published, marked, batch>>
      BY DEF Return, Throw
    <2> QED
      BY <1>2, <2>1, <2>2 DEF Subscriber, InventoryReads, InventoryApplies, CashSessionReads,
                              CashSessionApplies
  <1> QED
    BY <1>1, <1>2 DEF Next, Dispatch, outbox

\* At any moment an unpublished row is in one open tick at most, and no open tick
\* holds a published one: SKIP LOCKED, and marks that stay within the tick's rows, are
\* enough whatever fails or dies.
THEOREM BacklogShared == Spec => []RowsShared
  <1>1. Init => RowsShared
    BY DEF Init, OutboxInit, RowsShared
  <1>2. Typed /\ RowsShared /\ [Next]_vars => RowsShared'
    <2> SUFFICES ASSUME Typed, RowsShared, [Next]_vars PROVE RowsShared'
      OBVIOUS
    <2>1. UNCHANGED <<held, published>> => RowsShared'
      BY DEF RowsShared
    <2>2. CASE UNCHANGED vars
      BY <2>1, <2>2 DEF vars, outbox
    <2> QED
      BY <2>1, <2>2, TickShares, OthersLockNothing DEF Typed
  <1> QED
    BY <1>1, <1>2, AlwaysTyped, PTL DEF Spec

-----------------------------------------------------------------------------
(* The drawer.                                                             *)

LEMMA MovementsChange ==
    ASSUME Typed, Next
    PROVE  \/ movements' = movements
           \/ \E k \in Session, m \in CashCommand :
                 movements' = movements \cup {[session |-> k, source |-> m]}
           \/ \E k \in Session, s \in Sale :
                 /\ ~Booked(s, k)
                 /\ movements' = movements \cup {[session |-> k, source |-> s]}
  <1>1. CASE SaleCommand
    BY <1>1 DEF SaleCommand, RequireOpenCashSession, FinalizeSale, RefinalizeSale, ExecuteVoid,
                drawer
  <1>2. ASSUME NEW d \in Dispatcher, Dispatch(d), movements' # movements
        PROVE  \E k \in Session, s \in Sale :
                 /\ ~Booked(s, k)
                 /\ movements' = movements \cup {[session |-> k, source |-> s]}
    <2>1. PICK job \in running[d] : Subscriber(d, job)
      BY <1>2 DEF Dispatch, drawer
    <2>2. CashSessionApplies(d, job) /\ AppendSaleIn(job.row.sale, job.plan)
      BY <1>2, <2>1 DEF Subscriber, InventoryReads, InventoryApplies, CashSessionReads,
                        CashSessionApplies, drawer
    <2>3. job.row.sale \in Sale /\ job.plan \in Session
      BY <2>2, JobFacts DEF CashSessionApplies
    <2> QED
      BY <1>2, <2>2, <2>3 DEF AppendSaleIn
  <1>3. CASE DrawerCommand
    <2>1. ASSUME NEW r \in recorders, AppendManual(r)
          PROVE  \E k \in Session, m \in CashCommand :
                    movements' = movements \cup {[session |-> k, source |-> m]}
      <3>1. r.session \in Session /\ r.by \in CashCommand
        BY DEF Typed, CashTypeOK
      <3> QED
        BY <2>1, <3>1 DEF AppendManual
    <2> QED
      BY <1>3, <2>1 DEF DrawerCommand, SessionCommands, OpenSession, ReadTotals,
                        RequireOpenSession, CloseSession, Tick
  <1> QED
    BY <1>1, <1>2, <1>3 DEF Next, drawer

\* A sale has one cash movement at most, over all the sessions its event is ever
\* booked to: the unique index counts, not the session a subscriber has read.
THEOREM CashIsBookedOnce == Spec => []CashBookedOnce
  <1>1. Init => CashBookedOnce
    BY DEF Init, CashInit, CashBookedOnce
  <1>2. Typed /\ CashBookedOnce /\ [Next]_vars => CashBookedOnce'
    <2> SUFFICES ASSUME Typed, CashBookedOnce, [Next]_vars PROVE CashBookedOnce'
      OBVIOUS
    <2>1. movements' = movements => CashBookedOnce'
      BY DEF CashBookedOnce
    <2>2. CASE UNCHANGED vars
      BY <2>1, <2>2 DEF vars, drawer
    <2>3. ASSUME NEW k \in Session, NEW m \in CashCommand,
                 movements' = movements \cup {[session |-> k, source |-> m]}
          PROVE  CashBookedOnce'
      <3>1. m \notin Sale
        BY EffectsAssumption
      <3> QED
        BY <2>3, <3>1 DEF CashBookedOnce
    <2>4. ASSUME NEW k \in Session, NEW s \in Sale, ~Booked(s, k),
                 movements' = movements \cup {[session |-> k, source |-> s]}
          PROVE  CashBookedOnce'
      BY <2>4 DEF CashBookedOnce, Booked
    <2> QED
      BY <2>1, <2>2, <2>3, <2>4, MovementsChange
  <1> QED
    BY <1>1, <1>2, AlwaysTyped, PTL DEF Spec

\* Of a closer and a force-closer that both read the totals of an open session, the
\* first to commit decides: the second finds the status changed, and neither the window
\* nor the Z report of a closed session ever changes again.
THEOREM ClosesAreFinal == Spec => CloseIsFinal
  <1> DEFINE Final == \A k \in Session : sessions[k].status = "CLOSED" =>
                         sessions'[k] = sessions[k] /\ ZReport(k)' = ZReport(k)
  <1>1. UNCHANGED <<sessions, snapshots>> => Final
    BY DEF ZReport
  <1>2. Typed /\ Next => Final
    <2> SUFFICES ASSUME Typed, Next PROVE Final
      OBVIOUS
    <2> HIDE DEF Final
    <2>1. CASE SaleCommand
      BY <1>1, <2>1 DEF SaleCommand, RequireOpenCashSession, FinalizeSale, RefinalizeSale,
                        ExecuteVoid, drawer
    <2>2. ASSUME NEW d \in Dispatcher, Dispatch(d) PROVE Final
      BY <1>1, <2>2 DEF Dispatch, Subscriber, InventoryReads, InventoryApplies,
                        CashSessionReads, CashSessionApplies, AppendSaleIn, drawer
    <2>3. CASE DrawerCommand
      <3>1. ASSUME NEW k \in Session, OpenSession(k) PROVE Final
        <4>1. PICK t \in 0..now : CreateSession(k, t)
          BY <3>1 DEF OpenSession
        <4> QED
          BY <3>1, <4>1 DEF OpenSession, CreateSession, Final, ZReport, Typed, CashTypeOK
      <3>2. ASSUME NEW c \in closers, CloseSession(c) PROVE Final
        <4>1. c.session \in Session
          BY DEF Typed, CashTypeOK
        <4>2. CASE Closable(c.session)
          <5>1. \A k \in Session \ {c.session} :
                   sessions'[k] = sessions[k] /\ snapshots'[k] = snapshots[k]
            BY <3>2, <4>1, <4>2 DEF CloseSession, UpsertReconciliationSnapshot, Typed, CashTypeOK
          <5>2. sessions[c.session].status # "CLOSED"
            BY <4>2 DEF Closable
          <5> QED
            BY <5>1, <5>2 DEF Final, ZReport
        <4> QED
          BY <1>1, <3>2, <4>2 DEF CloseSession
      <3> QED
        BY <1>1, <2>3, <3>1, <3>2 DEF DrawerCommand, SessionCommands, ReadTotals,
                                     RequireOpenSession, AppendManual, Tick
    <2> QED
      BY <1>1, <2>1, <2>2, <2>3 DEF Next, drawer
  <1>3. Typed /\ [Next]_vars => [Final]_cashVars
    <2>1. UNCHANGED vars => UNCHANGED cashVars
      BY DEF vars, drawer, cashVars
    <2> QED
      BY <1>2, <2>1
  <1> QED
    BY <1>3, AlwaysTyped, PTL DEF Spec, CloseIsFinal

-----------------------------------------------------------------------------
(* Deliveries.                                                             *)

\* What the announcement of a sale is for has been done, or is not needed.
Done(r) ==
    r.event # "SALE_VOID_EXECUTED" /\ sales[r.sale].status = "FINALIZED" =>
        \E i \in Item : journal[Deduction(r.sale)][i] < 0

Waits(d, r) == \E job \in running[d] : job.row = r /\ job.by = "inventory" /\ job.awaited

\* Only what was finalized is announced; a deduction never adds to the stock; and a row
\* that is marked, or that waits for other subscribers only, has had its effect.
DeliveryInv ==
    /\ \A r \in ToSet(log) : sales[r.sale].status # "PENDING"
    /\ \A s \in Sale, i \in Item : journal[Deduction(s)][i] <= 0
    /\ \A r \in published : Done(r)
    /\ \A d \in Dispatcher : /\ \A r \in marked[d] : Done(r)
                             /\ \A r \in current[d] : Done(r) \/ Waits(d, r)

\* How the stock and the sales may change.
DeductionsStay ==
    \A s \in Sale, i \in Item :
        /\ journal[Deduction(s)][i] < 0 => journal'[Deduction(s)][i] < 0
        /\ journal[Deduction(s)][i] <= 0 => journal'[Deduction(s)][i] <= 0

SalesMoveOn ==
    \A s \in Sale : sales[s].status # "PENDING" =>
        /\ sales'[s].status # "PENDING"
        /\ sales'[s].status = "FINALIZED" => sales[s].status = "FINALIZED"

\* How the outbox may change.
RowsMoveOn ==
    /\ \A r \in ToSet(log)' : r \in ToSet(log) \/ sales'[r.sale].status # "PENDING"
    /\ \A r \in published' : r \in published \/ \E d \in Dispatcher : r \in marked[d]
    /\ \A d \in Dispatcher :
          /\ \A r \in marked'[d] : r \in marked[d] \/ (r \in current[d] /\ ~Waits(d, r))
          /\ \A r \in current'[d] : \/ Waits(d, r)'
                                    \/ Done(r)'
                                    \/ r \in current[d] /\ ~Waits(d, r)

LEMMA DeliveryKept ==
    ASSUME Typed, DeliveryInv, DeductionsStay, SalesMoveOn, RowsMoveOn
    PROVE  DeliveryInv'
  <1>1. ToSet(log) \subseteq Row
    BY DEF Typed, OutboxTyped, LogTyped, ToSet
  <1>2. \A r \in ToSet(log) : r.sale \in Sale
    BY <1>1 DEF Row
  <1>3. ASSUME NEW r \in ToSet(log), Done(r) PROVE Done(r)'
    BY <1>2, <1>3 DEF Done, DeductionsStay, SalesMoveOn, DeliveryInv
  <1>4. /\ published \subseteq ToSet(log)
        /\ \A d \in Dispatcher : marked[d] \subseteq ToSet(log) /\ current[d] \subseteq ToSet(log)
    BY DEF Typed, OutboxTyped, TicksHold
  <1>5. \A r \in ToSet(log)' : sales'[r.sale].status # "PENDING"
    BY <1>2 DEF DeliveryInv, SalesMoveOn, RowsMoveOn
  <1>6. \A s \in Sale, i \in Item : journal'[Deduction(s)][i] <= 0
    BY DEF DeliveryInv, DeductionsStay
  <1> HIDE DEF Done, Waits
  <1>7. \A r \in published' : Done(r)'
    BY <1>3, <1>4 DEF DeliveryInv, RowsMoveOn
  <1>8. \A d \in Dispatcher : /\ \A r \in marked'[d] : Done(r)'
                              /\ \A r \in current'[d] : Done(r)' \/ Waits(d, r)'
    BY <1>3, <1>4 DEF DeliveryInv, RowsMoveOn
  <1>9. /\ \A s \in Sale, i \in Item : (journal[Deduction(s)][i] <= 0)'
        /\ \A r \in ToSet(log)' : (sales[r.sale].status # "PENDING")'
    BY <1>5, <1>6 DEF Deduction
  <1> QED
    BY <1>7, <1>8, <1>9 DEF DeliveryInv

\* A movement takes what its source has not moved yet; only a sale's own deduction
\* takes in its name.
LEMMA MovementStays ==
    ASSUME StockTypeOK, NEW x \in Source, NEW q \in [Item -> Int], ApplyMovement(x, q),
           \A s \in Sale, i \in Item : x = Deduction(s) => q[i] <= 0
    PROVE  DeductionsStay
  <1> SUFFICES ASSUME NEW s \in Sale, NEW i \in Item
               PROVE  /\ journal[Deduction(s)][i] < 0 => journal'[Deduction(s)][i] < 0
                      /\ journal[Deduction(s)][i] <= 0 => journal'[Deduction(s)][i] <= 0
    BY DEF DeductionsStay
  <1>1. Deduction(s) \in Source
    BY Sources
  <1> DEFINE y == Deduction(s)
  <1>2. journal'[y][i] = journal[y][i] \/ (x = y /\ journal[y][i] = 0 /\ journal'[y][i] = q[i])
    <2> HIDE DEF y
    <2> QED
      BY <1>1 DEF ApplyMovement, Absent, StockTypeOK, y
  <1>3. q[i] \in Int /\ journal[y][i] \in Int
    BY <1>1 DEF StockTypeOK
  <1>4. x = y => q[i] <= 0
    OBVIOUS
  <1> HIDE DEF y
  <1>5. /\ journal[y][i] < 0 => journal'[y][i] < 0
        /\ journal[y][i] <= 0 => journal'[y][i] <= 0
    BY <1>2, <1>3, <1>4
  <1> QED
    BY <1>5 DEF y

LEMMA DeliveryCommands ==
    ASSUME Typed, DeliveryInv, NEW s \in Sale,
           RequireOpenCashSession(s) \/ FinalizeSale(s) \/ RefinalizeSale(s) \/ ExecuteVoid(s)
    PROVE  DeliveryInv'
  <1>1. journal' = journal
    BY DEF RequireOpenCashSession, FinalizeSale, RefinalizeSale, ExecuteVoid, inventory
  <1>2. DeductionsStay
    BY <1>1 DEF DeductionsStay
  <1>3. UNCHANGED <<published, marked, current, running>>
    BY DEF RequireOpenCashSession, FinalizeSale, RefinalizeSale, ExecuteVoid, outbox, Emit
  <1>4. \A d \in Dispatcher : \A r : Waits(d, r)' <=> Waits(d, r)
    BY <1>3 DEF Waits
  <1>5. sales[s] \in SaleRow /\ sales \in [Sale -> SaleRow]
    BY DEF Typed, SalesTyped
  <1>6. CASE RequireOpenCashSession(s)
    <2>1. SalesMoveOn
      BY <1>6 DEF RequireOpenCashSession, SalesMoveOn
    <2>2. RowsMoveOn
      BY <1>3, <1>4, <1>6 DEF RequireOpenCashSession, outbox, RowsMoveOn
    <2> QED
      BY <1>2, <2>1, <2>2, DeliveryKept
  <1>7. ASSUME NEW e, Emit(e), e \in Row, e.sale = s, sales'[s].status # "PENDING", SalesMoveOn
        PROVE  DeliveryInv'
    <2>1. ToSet(log)' = ToSet(log) \cup {e}
      BY <1>7, Emitting DEF Typed
    <2>2. RowsMoveOn
      BY <1>3, <1>4, <1>7, <2>1 DEF RowsMoveOn
    <2> QED
      BY <1>2, <1>7, <2>2, DeliveryKept
  <1>8. CASE FinalizeSale(s)
    <2>1. PICK t \in 0..now :
            sales' = [sales EXCEPT ![s].status = "FINALIZED", ![s].finalized = t]
      BY <1>8 DEF FinalizeSale
    <2>2. sales[s].status = "PENDING"
      BY <1>8 DEF FinalizeSale
    <2>3. sales'[s].status = "FINALIZED" /\ \A u \in Sale \ {s} : sales'[u] = sales[u]
      BY <1>5, <2>1 DEF SaleRow
    <2>4. SalesMoveOn
      BY <2>2, <2>3 DEF SalesMoveOn
    <2> DEFINE e == [sale |-> s, event |-> "SALE_FINALIZED", command |-> 1]
    <2>5. e \in Row /\ e.sale = s
      BY EffectsAssumption DEF Row
    <2>6. Emit(e)
      BY <1>8 DEF FinalizeSale
    <2> QED
      BY <1>7, <2>3, <2>4, <2>5, <2>6
  <1>9. CASE RefinalizeSale(s)
    <2>1. PICK n \in 2..MaxAnnounced :
            Emit([sale |-> s, event |-> "SALE_FINALIZED", command |-> n])
      BY <1>9 DEF RefinalizeSale
    <2>2. sales' = sales /\ sales[s].status = "FINALIZED"
      BY <1>9 DEF RefinalizeSale
    <2>3. SalesMoveOn
      BY <2>2 DEF SalesMoveOn
    <2> DEFINE e == [sale |-> s, event |-> "SALE_FINALIZED", command |-> n]
    <2>4. e \in Row /\ e.sale = s
      BY EffectsAssumption DEF Row
    <2> QED
      BY <1>7, <2>1, <2>2, <2>3, <2>4
  <1>10. CASE ExecuteVoid(s)
    <2>1. sales'[s].status = "VOIDED" /\ \A u \in Sale \ {s} : sales'[u] = sales[u]
      BY <1>5, <1>10 DEF ExecuteVoid, SaleRow
    <2>2. SalesMoveOn
      BY <2>1 DEF SalesMoveOn
    <2> DEFINE e == [sale |-> s, event |-> "SALE_VOID_EXECUTED"]
    <2>3. e \in Row /\ e.sale = s
      BY DEF Row
    <2>4. Emit(e)
      BY <1>10 DEF ExecuteVoid
    <2> QED
      BY <1>7, <2>1, <2>2, <2>3, <2>4
  <1> QED
    BY <1>6, <1>8, <1>9, <1>10

\* Steps of a dispatcher that leave the sales and the stock alone.
LEMMA DeliveryTicks ==
    ASSUME Typed, DeliveryInv, NEW d \in Dispatcher, TickStep(d) \/ Fault(d),
           UNCHANGED <<sales, checkouts, drawer, inventory>>
    PROVE  DeliveryInv'
  <1>1. DeductionsStay /\ SalesMoveOn
    BY DEF DeductionsStay, SalesMoveOn, inventory
  <1>2. log' = log
    BY DEF TickStep, Load, Publish, Mark, CommitTick, Fault, FailTick, CrashProcess,
           FailSubscriber, Throw
  <1>3. OutboxTables /\ \A e \in Dispatcher : running[e] \subseteq Jobs
    BY DEF Typed, OutboxTyped, OutboxTables
  <1>4. ASSUME /\ \A r \in published' : r \in published \/ r \in marked[d]
               /\ \A e \in Dispatcher :
                     /\ \A r \in marked'[e] : \/ r \in marked[e]
                                              \/ e = d /\ r \in current[d] /\ ~Waits(d, r)
                     /\ \A r \in current'[e] : \/ Waits(e, r)'
                                               \/ r \in current[e] /\ ~Waits(e, r)
        PROVE  DeliveryInv'
    <2>1. RowsMoveOn
      BY <1>2, <1>4 DEF RowsMoveOn
    <2> QED
      BY <1>1, <2>1, DeliveryKept
  <1>5. \A e \in Dispatcher, r \in Row : running'[e] = running[e] => (Waits(e, r)' <=> Waits(e, r))
    BY DEF Waits
  <1>6. \A e \in Dispatcher : current[e] \subseteq Row
    BY <1>3 DEF OutboxTables
  <1>7. CASE Load(d)
    BY <1>4, <1>5, <1>6, <1>7 DEF Load
  <1>8. CASE Publish(d)
    <2>1. PICK r \in batch[d] :
            /\ current' = [current EXCEPT ![d] = {r}]
            /\ running' = [running EXCEPT ![d] = @ \cup
                  [row : {r}, by : SubscribersOf(r), plan : {Unread}, awaited : {TRUE}]]
      BY <1>8 DEF Publish
    <2> DEFINE job == [row |-> r, by |-> "inventory", plan |-> Unread, awaited |-> TRUE]
    <2>2. job \in running'[d] /\ \A e \in Dispatcher \ {d} : running'[e] = running[e]
      BY <1>3, <2>1 DEF OutboxTables, SubscribersOf
    <2>3. Waits(d, r)'
      BY <2>2 DEF Waits
    <2>4. UNCHANGED <<published, marked>>
      BY <1>8 DEF Publish
    <2>5. current'[d] = {r} /\ \A e \in Dispatcher \ {d} : current'[e] = current[e]
      BY <1>3, <2>1 DEF OutboxTables
    <2> HIDE DEF job, Waits
    <2>6. \A e \in Dispatcher : \A q \in current'[e] : Waits(e, q)' \/ (q \in current[e] /\ ~Waits(e, q))
      BY <1>5, <1>6, <2>2, <2>3, <2>5
    <2> QED
      BY <1>4, <2>4, <2>6
  <1>9. CASE Mark(d)
    <2>1. \A r \in current[d] : ~Waits(d, r)
      BY <1>9 DEF Mark, Delivered, Waits
    <2>2. /\ \A e \in Dispatcher : \A r \in marked'[e] :
                r \in marked[e] \/ (e = d /\ r \in current[d])
          /\ current'[d] = {} /\ \A e \in Dispatcher \ {d} : current'[e] = current[e]
      BY <1>3, <1>9 DEF Mark, OutboxTables
    <2>3. UNCHANGED <<published, running>>
      BY <1>9 DEF Mark
    <2> HIDE DEF Waits
    <2> QED
      BY <1>4, <1>5, <1>6, <2>1, <2>2, <2>3
  <1>10. CASE CommitTick(d)
    <2>1. /\ \A e \in Dispatcher : marked'[e] \subseteq marked[e]
          /\ published' = published \cup marked[d] /\ UNCHANGED <<current, running>>
      BY <1>3, <1>10 DEF CommitTick, MarkedRows, OutboxTables
    <2> HIDE DEF Waits
    <2> QED
      BY <1>4, <1>5, <1>6, <2>1
  <1>11. CASE FailTick(d) \/ CrashProcess(d)
    <2>1. /\ published' = published
          /\ current'[d] = {} /\ \A e \in Dispatcher \ {d} : current'[e] = current[e]
          /\ \A e \in Dispatcher : marked'[e] \subseteq marked[e]
          /\ \A e \in Dispatcher \ {d} : running'[e] = running[e]
      BY <1>3, <1>11 DEF FailTick, CrashProcess, OutboxTables
    <2> HIDE DEF Waits
    <2> QED
      BY <1>4, <1>5, <1>6, <2>1
  <1>12. ASSUME NEW job \in running[d], FailSubscriber(d, job) PROVE DeliveryInv'
    <2>1. UNCHANGED <<published, marked>>
      BY <1>12 DEF FailSubscriber, Throw
    <2>2. \A e \in Dispatcher : \A q \in current'[e] : Waits(e, q)' \/ (q \in current[e] /\ ~Waits(e, q))
      BY <1>3, <1>12 DEF FailSubscriber, Throw, Waits, OutboxTables
    <2> HIDE DEF Waits
    <2> QED
      BY <1>4, <2>1, <2>2
  <1> QED
    BY <1>7, <1>8, <1>9, <1>10, <1>11, <1>12 DEF TickStep, Fault

\* What a read, a return and a throw of a subscriber leave to wait for.
LEMMA JobLeaves ==
    ASSUME Typed, NEW d \in Dispatcher, NEW job \in running[d]
    PROVE  /\ \A p \in PlanOf(job.by) : Read(d, job, p) =>
                 \A e \in Dispatcher : \A r \in current'[e] : r \in current[e] /\ (Waits(e, r) => Waits(e, r)')
           /\ Return(d, job) =>
                 \A e \in Dispatcher : \A r \in current'[e] :
                    /\ r \in current[e]
                    /\ Waits(e, r) => Waits(e, r)' \/ (job.by = "inventory" /\ job.row = r)
           /\ Throw(d, job) =>
                 \A e \in Dispatcher : \A r \in current'[e] : r \in current[e] /\ (Waits(e, r) => Waits(e, r)')
  <1>1. /\ running \in [Dispatcher -> SUBSET Jobs] /\ current \in [Dispatcher -> SUBSET Row]
        /\ running[d] \subseteq Jobs /\ job \in Jobs
    BY DEF Typed, OutboxTyped, OutboxTables
  <1>2. ASSUME NEW p \in PlanOf(job.by), Read(d, job, p), NEW e \in Dispatcher, NEW r \in current'[e]
        PROVE  r \in current[e] /\ (Waits(e, r) => Waits(e, r)')
    <2> DEFINE read == [job EXCEPT !.plan = p]
    <2>1. read.row = job.row /\ read.by = job.by /\ read.awaited = job.awaited
      BY <1>1, <1>2, JobRows
    <2>2. /\ running' = [running EXCEPT ![d] = (@ \ {job}) \cup {read}]
          /\ current' = current
      BY <1>2 DEF Read
    <2> HIDE DEF read
    <2>3. \A j \in running[e] : j \in running'[e] \/ (j = job /\ read \in running'[e])
      BY <1>1, <2>2
    <2> QED
      BY <2>1, <2>2, <2>3 DEF Waits
  <1>3. ASSUME Return(d, job), NEW e \in Dispatcher, NEW r \in current'[e]
        PROVE  /\ r \in current[e]
               /\ Waits(e, r) => Waits(e, r)' \/ (job.by = "inventory" /\ job.row = r)
    <2>1. \A j \in running[e] : j \in running'[e] \/ j = job
      BY <1>1, <1>3 DEF Return
    <2> QED
      BY <1>3, <2>1 DEF Return, Waits
  <1>4. ASSUME Throw(d, job), NEW e \in Dispatcher, NEW r \in current'[e]
        PROVE  r \in current[e] /\ (Waits(e, r) => Waits(e, r)')
    <2>1. CASE job.awaited
      <3>1. e # d /\ running'[e] = running[e] /\ current'[e] = current[e]
        BY <1>1, <1>4, <2>1 DEF Throw
      <3> QED
        BY <1>4, <3>1 DEF Waits
    <2>2. CASE ~job.awaited
      <3>1. current' = current /\ \A j \in running[e] : j.awaited => j \in running'[e]
        BY <1>1, <1>4, <2>2 DEF Throw
      <3> QED
        BY <1>4, <3>1 DEF Waits
    <2> QED
      BY <2>1, <2>2
  <1> QED
    BY <1>2, <1>3, <1>4

LEMMA DeliverySubscriber ==
    ASSUME Typed, DeliveryInv, NEW d \in Dispatcher, NEW job \in running[d], Subscriber(d, job)
    PROVE  DeliveryInv'
  <1>1. UNCHANGED sales
    BY DEF Subscriber, InventoryReads, InventoryApplies, CashSessionReads, CashSessionApplies
  <1>2. SalesMoveOn
    BY <1>1 DEF SalesMoveOn
  <1>3. ASSUME NEW p, Read(d, job, p) PROVE UNCHANGED <<log, published, marked>>
    BY <1>3 DEF Read
  <1>4. Return(d, job) \/ Throw(d, job) => UNCHANGED <<log, published, marked>>
    BY DEF Return, Throw
  <1>5. UNCHANGED <<log, published, marked>>
    BY <1>3, <1>4 DEF Subscriber, InventoryReads, InventoryApplies, CashSessionReads,
                      CashSessionApplies
  <1>6. ASSUME \A e \in Dispatcher : \A r \in current'[e] :
                  r \in current[e] /\ (Waits(e, r) => Waits(e, r)' \/ Done(r)')
        PROVE  RowsMoveOn
    BY <1>5, <1>6 DEF RowsMoveOn
  <1>7. journal' = journal => DeductionsStay
    BY DEF DeductionsStay
  <1>8. job.row \in Row /\ job.row.sale \in Sale
    BY JobFacts
  <1> HIDE DEF Waits, Done
  <1>9. CASE InventoryReads(d, job)
    <2>1. journal' = journal
      BY <1>9 DEF InventoryReads, inventory
    <2>2. CASE sales[job.row.sale].status = ExpectedStatus(job.row)
      <3>1. recipe \in PlanOf(job.by) /\ Read(d, job, recipe)
        BY <1>9, <2>2 DEF InventoryReads, PlanOf, Typed, StockTypeOK
      <3>2. RowsMoveOn
        BY <1>6, <3>1, JobLeaves
      <3> QED
        BY <1>2, <1>7, <2>1, <3>2, DeliveryKept
    <2>3. CASE sales[job.row.sale].status # ExpectedStatus(job.row)
      <3>1. Return(d, job)
        BY <1>9, <2>3 DEF InventoryReads
      <3>2. Done(job.row)'
        BY <1>1, <2>3 DEF Done, ExpectedStatus
      <3>3. \A r : job.row = r => Done(r)'
        BY <1>1, <2>3 DEF Done, ExpectedStatus
      <3>4. RowsMoveOn
        BY <1>6, <3>1, <3>3, JobLeaves
      <3> QED
        BY <1>2, <1>7, <2>1, <3>4, DeliveryKept
    <2> QED
      BY <2>2, <2>3
  <1>10. CASE InventoryApplies(d, job)
    <2>1. job.plan \in [Item -> Nat] /\ job.plan \in Recipe
      BY <1>10, JobFacts DEF InventoryApplies
    <2> DEFINE s == job.row.sale
               taken == [i \in Item |-> -job.plan[i]]
    <2>2. taken \in [Item -> Int] /\ \A i \in Item : taken[i] <= 0
      BY <2>1
    <2>3. job.plan \in [Item -> Int]
      BY <2>1
    <2>4. CASE job.row.event = "SALE_VOID_EXECUTED"
      <3>1. ApplyMovement(Reversal(s), job.plan)
        BY <1>10, <2>4 DEF InventoryApplies
      <3>2. DeductionsStay
        BY <1>8, <2>3, <3>1, Sources, MovementStays DEF Typed
      <3>3. \A r : job.row = r => Done(r)'
        BY <1>1, <2>4 DEF Done
      <3>4. RowsMoveOn
        BY <1>6, <1>10, <3>3, JobLeaves DEF InventoryApplies
      <3> QED
        BY <1>2, <3>2, <3>4, DeliveryKept
    <2>5. CASE job.row.event # "SALE_VOID_EXECUTED"
      <3>1. ApplyMovement(Deduction(s), taken)
        BY <1>10, <2>5 DEF InventoryApplies
      <3>2. DeductionsStay
        BY <1>8, <2>2, <3>1, Sources, MovementStays DEF Typed
      <3>3. PICK i \in Item : job.plan[i] > 0
        BY <2>1, EffectsAssumption
      <3>4. journal'[Deduction(s)][i] < 0
        <4>1. Deduction(s) \in Source /\ journal[Deduction(s)][i] \in Int
          BY <1>8, Sources DEF Typed, StockTypeOK
        <4>2. journal'[Deduction(s)][i] = IF journal[Deduction(s)][i] = 0 THEN taken[i]
                                          ELSE journal[Deduction(s)][i]
          <5> HIDE DEF taken, s
          <5> QED
            BY <3>1, <4>1 DEF ApplyMovement, Absent, Typed, StockTypeOK
        <4>3. taken[i] < 0
          BY <2>1, <3>3
        <4>4. journal[Deduction(s)][i] <= 0
          BY <1>8 DEF DeliveryInv
        <4> HIDE DEF taken, s
        <4> QED
          BY <4>1, <4>2, <4>3, <4>4
      <3>5. \A r : job.row = r => Done(r)'
        BY <3>4 DEF Done, Deduction
      <3>6. RowsMoveOn
        BY <1>6, <1>10, <3>5, JobLeaves DEF InventoryApplies
      <3> QED
        BY <1>2, <3>2, <3>6, DeliveryKept
    <2> QED
      BY <2>4, <2>5
  <1>11. CASE CashSessionReads(d, job)
    <2>1. job.by # "inventory" /\ \A t : SessionAt(t) \subseteq PlanOf(job.by)
      BY <1>11 DEF CashSessionReads, SessionAt, PlanOf
    <2>2. (\E p \in PlanOf(job.by) : Read(d, job, p)) \/ Return(d, job)
      BY <1>11, <2>1 DEF CashSessionReads
    <2>3. RowsMoveOn
      BY <1>6, <2>1, <2>2, JobLeaves
    <2> QED
      BY <1>2, <1>7, <1>11, <2>3, DeliveryKept DEF CashSessionReads, inventory
  <1>12. CASE CashSessionApplies(d, job)
    <2>1. job.by # "inventory" /\ (Return(d, job) \/ Throw(d, job))
      BY <1>12 DEF CashSessionApplies
    <2>2. RowsMoveOn
      BY <1>6, <2>1, JobLeaves
    <2> QED
      BY <1>2, <1>7, <1>12, <2>2, DeliveryKept DEF CashSessionApplies, inventory
  <1> QED
    BY <1>9, <1>10, <1>11, <1>12 DEF Subscriber

LEMMA DeliveryStock ==
    ASSUME Typed, DeliveryInv, InventoryCommand, UNCHANGED <<sales, checkouts, outbox, drawer>>
    PROVE  DeliveryInv'
  <1>1. SalesMoveOn
    BY DEF SalesMoveOn
  <1>2. RowsMoveOn
    BY DEF RowsMoveOn, outbox, Waits
  <1>3. ASSUME NEW m \in StockCommand, NEW q \in [Item -> Int],
               ApplyMovement([command |-> m], q)
        PROVE  DeductionsStay
    <2>1. StockTypeOK
      BY DEF Typed
    <2> QED
      BY <1>3, <2>1, Sources, MovementStays
  <1>4. ASSUME NEW m \in StockCommand, NEW i \in Item, NEW q \in Int, AdjustBy(m, i, q)
        PROVE  DeductionsStay
    <2>1. [x \in Item |-> IF x = i THEN q ELSE 0] \in [Item -> Int]
      OBVIOUS
    <2> QED
      BY <1>3, <1>4, <2>1 DEF AdjustBy
  <1>5. ASSUME NEW c \in counts, AdjustToCount(c) PROVE DeductionsStay
    <2>1. c.by \in StockCommand /\ c.delta \in Int
      BY DEF Typed, StockTypeOK
    <2>2. [x \in Item |-> IF x = c.item THEN c.delta ELSE 0] \in [Item -> Int]
      BY <2>1
    <2> QED
      BY <1>3, <1>5, <2>1, <2>2 DEF AdjustToCount
  <1>6. journal' = journal => DeductionsStay
    BY DEF DeductionsStay
  <1>7. \A q \in Quantity : q \in Int /\ -q \in Int
    BY EffectsAssumption
  <1>8. DeductionsStay
    BY <1>4, <1>5, <1>6, <1>7 DEF InventoryCommand, ReadOnHand, EditComposition
  <1> QED
    BY <1>1, <1>2, <1>8, DeliveryKept

\* A row is published only when its sale has taken its stock, or was voided before the
\* subscriber looked: no crash, no throw and no second dispatcher loses the deduction.
THEOREM DeductionsArrive == Spec => []NoLostDeduction
  <1>1. Init => DeliveryInv
    <2> SUFFICES ASSUME Init PROVE DeliveryInv
      OBVIOUS
    <2>1. ToSet(log) = {}
      BY DEF Init, OutboxInit, ToSet
    <2>2. \A s \in Sale, i \in Item : journal[Deduction(s)][i] = 0
      <3>1. \A x \in Source, i \in Item : journal[x][i] = 0
        BY DEF Init, StockInit
      <3> QED
        BY <3>1, Sources
    <2> QED
      BY <2>1, <2>2 DEF Init, OutboxInit, DeliveryInv
  <1>2. Typed /\ DeliveryInv /\ [Next]_vars => DeliveryInv'
    <2> SUFFICES ASSUME Typed, DeliveryInv, [Next]_vars PROVE DeliveryInv'
      OBVIOUS
    <2>1. UNCHANGED <<sales, log, published, marked, current, running, journal>> => DeliveryInv'
      BY DEF DeliveryInv, Done, Waits, Deduction
    <2>2. CASE SaleCommand
      BY <2>2, DeliveryCommands DEF SaleCommand
    <2>3. ASSUME NEW d \in Dispatcher, Dispatch(d) PROVE DeliveryInv'
      BY <2>3, DeliveryTicks, DeliverySubscriber DEF Dispatch
    <2>4. ASSUME NEW d \in Dispatcher, Fault(d), UNCHANGED <<sales, checkouts, drawer, inventory>>
          PROVE  DeliveryInv'
      BY <2>4, DeliveryTicks
    <2>5. CASE DrawerCommand /\ UNCHANGED <<sales, checkouts, outbox, inventory>>
      BY <2>1, <2>5 DEF outbox, inventory
    <2>6. CASE InventoryCommand /\ UNCHANGED <<sales, checkouts, outbox, drawer>>
      BY <2>6, DeliveryStock
    <2>7. CASE UNCHANGED vars
      BY <2>1, <2>7 DEF vars, outbox, inventory
    <2> QED
      BY <2>2, <2>3, <2>4, <2>5, <2>6, <2>7 DEF Next
  <1>3. DeliveryInv => NoLostDeduction
    BY DEF DeliveryInv, NoLostDeduction, Done
  <1> QED
    BY <1>1, <1>2, <1>3, AlwaysTyped, PTL DEF Spec

-----------------------------------------------------------------------------
(* The stock and its journal.                                              *)

Balanced == \A i \in Item : stock[i] = ColumnSum(journal, i, Source)

LEMMA SourceIsFinite == IsFiniteSet(Source)
  <1>1. ASSUME NEW T, NEW f, IsFiniteSet(T), f = [x \in T |-> f[x]]
        PROVE  IsFiniteSet({f[x] : x \in T})
    <2>1. f \in Surjection(T, {f[x] : x \in T})
      BY <1>1 DEF Surjection
    <2> QED
      BY <1>1, <2>1, FS_Surjection
  <1> DEFINE D == {Deduction(s) : s \in Sale}
             V == {Reversal(s) : s \in Sale}
             C == {[command |-> m] : m \in StockCommand}
  <1>2. IsFiniteSet(Sale) /\ IsFiniteSet(StockCommand)
    BY EffectsAssumption
  <1>3. IsFiniteSet(D)
    <2> DEFINE f == [s \in Sale |-> Deduction(s)]
    <2>1. IsFiniteSet({f[s] : s \in Sale})
      <3>1. f = [x \in Sale |-> f[x]]
        OBVIOUS
      <3> HIDE DEF f
      <3> QED
        BY <1>1, <1>2, <3>1
    <2>2. D = {f[s] : s \in Sale}
      OBVIOUS
    <2> QED
      BY <2>1, <2>2
  <1>4. IsFiniteSet(V)
    <2> DEFINE f == [s \in Sale |-> Reversal(s)]
    <2>1. IsFiniteSet({f[s] : s \in Sale})
      <3>1. f = [x \in Sale |-> f[x]]
        OBVIOUS
      <3> HIDE DEF f
      <3> QED
        BY <1>1, <1>2, <3>1
    <2>2. V = {f[s] : s \in Sale}
      OBVIOUS
    <2> QED
      BY <2>1, <2>2
  <1>5. IsFiniteSet(C)
    <2> DEFINE f == [m \in StockCommand |-> [command |-> m]]
    <2>1. IsFiniteSet({f[m] : m \in StockCommand})
      <3>1. f = [x \in StockCommand |-> f[x]]
        OBVIOUS
      <3> HIDE DEF f
      <3> QED
        BY <1>1, <1>2, <3>1
    <2>2. C = {f[m] : m \in StockCommand}
      OBVIOUS
    <2> QED
      BY <2>1, <2>2
  <1>6. Source = (D \cup V) \cup C
    BY DEF Source, Deduction, Reversal
  <1> HIDE DEF D, V, C
  <1> QED
    BY <1>3, <1>4, <1>5, <1>6, FS_Union

\* A movement brings the stock along by what it adds to the journal.
LEMMA MovementBalances ==
    ASSUME StockTypeOK, Balanced, NEW x \in Source, NEW q \in [Item -> Int], ApplyMovement(x, q)
    PROVE  Balanced'
  <1> SUFFICES ASSUME NEW i \in Item PROVE stock'[i] = ColumnSum(journal', i, Source)
    BY DEF Balanced, Source
  <1> DEFINE delta == IF journal[x][i] = 0 THEN q[i] ELSE 0
  <1>1. journal[x][i] \in Int /\ q[i] \in Int /\ delta \in Int
    BY DEF StockTypeOK
  <1>2. \A y \in Source : journal[y][i] \in Int
    BY DEF StockTypeOK
  <1>3. \A y \in Source : y # x => journal'[y][i] = journal[y][i]
    BY DEF StockTypeOK, ApplyMovement
  <1>4. journal'[x][i] = journal[x][i] + delta
    <2>1. journal'[x][i] = IF journal[x][i] = 0 THEN q[i] ELSE journal[x][i]
      BY DEF StockTypeOK, ApplyMovement, Absent
    <2> QED
      BY <1>1, <2>1
  <1>5. stock'[i] = stock[i] + delta
    BY DEF ApplyMovement, Moves, Absent
  <1>6. stock[i] = ColumnSum(journal, i, Source)
    BY DEF Balanced
  <1> HIDE DEF delta
  <1>7. ColumnSum(journal', i, Source) = ColumnSum(journal, i, Source) + delta
    <2>1. PICK before : before = journal
      OBVIOUS
    <2>2. PICK after : after = journal'
      OBVIOUS
    <2>3. ColumnSum(after, i, Source) = ColumnSum(before, i, Source) + delta
      <3>1. /\ \A y \in Source : before[y][i] \in Int
            /\ \A y \in Source : y # x => after[y][i] = before[y][i]
            /\ after[x][i] = before[x][i] + delta
        BY <1>2, <1>3, <1>4, <2>1, <2>2
      <3> QED
        BY <1>1, <3>1, SourceIsFinite, SumMoves
    <2> QED
      BY <2>1, <2>2, <2>3
  <1> QED
    BY <1>5, <1>6, <1>7

\* The on-hand quantity of every item is the sum of the journal: a movement that is
\* delivered again, or twice at once, moves neither, and none moves one without the
\* other.
THEOREM StockBalances == Spec => []StockMatchesJournal
  <1>1. Init => Balanced
    <2> SUFFICES ASSUME Init, NEW i \in Item PROVE stock[i] = ColumnSum(journal, i, Source)
      BY DEF Balanced
    <2>1. stock[i] = 0 /\ \A x \in Source : journal[x][i] = 0
      BY DEF Init, StockInit
    <2> QED
      BY <2>1, SourceIsFinite, SumOfZeros
  <1>2. Typed /\ Balanced /\ [Next]_vars => Balanced'
    <2> SUFFICES ASSUME Typed, Balanced, [Next]_vars PROVE Balanced'
      OBVIOUS
    <2>1. StockTypeOK
      BY DEF Typed
    <2>2. ASSUME UNCHANGED <<journal, stock>> PROVE Balanced'
      <3>1. \A i \in Item : stock[i] = ColumnSum(journal, i, Source)
        BY DEF Balanced
      <3>2. \A i \in Item : stock'[i] = ColumnSum(journal', i, Source)
        BY <2>2, <3>1
      <3> QED
        BY <3>2 DEF Balanced, Source
    <2>3. UNCHANGED inventory => Balanced'
      BY <2>2 DEF inventory
    <2>4. CASE SaleCommand
      BY <2>3, <2>4 DEF SaleCommand, RequireOpenCashSession, FinalizeSale, RefinalizeSale,
                        ExecuteVoid
    <2>5. ASSUME NEW d \in Dispatcher, NEW job \in running[d], Subscriber(d, job) PROVE Balanced'
      <3>1. CASE InventoryApplies(d, job)
        <4>1. job.row.sale \in Sale /\ job.plan \in [Item -> Nat]
          BY <3>1, JobFacts DEF InventoryApplies
        <4>2. job.plan \in [Item -> Int] /\ [i \in Item |-> -job.plan[i]] \in [Item -> Int]
          BY <4>1
        <4> QED
          BY <2>1, <3>1, <4>1, <4>2, Sources, MovementBalances DEF InventoryApplies
      <3> QED
        BY <2>3, <2>5, <3>1 DEF Subscriber, InventoryReads, CashSessionReads, CashSessionApplies
    <2>6. ASSUME InventoryCommand PROVE Balanced'
      <3>1. ASSUME NEW m \in StockCommand, NEW i \in Item, NEW q \in Int, AdjustBy(m, i, q)
            PROVE  Balanced'
        <4>1. [x \in Item |-> IF x = i THEN q ELSE 0] \in [Item -> Int]
          OBVIOUS
        <4> QED
          BY <2>1, <3>1, <4>1, Sources, MovementBalances DEF AdjustBy
      <3>2. ASSUME NEW c \in counts, AdjustToCount(c) PROVE Balanced'
        <4>1. c.by \in StockCommand /\ c.delta \in Int
          BY <2>1 DEF StockTypeOK
        <4>2. [x \in Item |-> IF x = c.item THEN c.delta ELSE 0] \in [Item -> Int]
          BY <4>1
        <4> QED
          BY <2>1, <3>2, <4>1, <4>2, Sources, MovementBalances DEF AdjustToCount
      <3>3. \A q \in Quantity : q \in Int /\ -q \in Int
        BY EffectsAssumption
      <3> QED
        BY <2>2, <2>6, <3>1, <3>2, <3>3 DEF InventoryCommand, ReadOnHand, EditComposition
    <2> QED
      BY <2>3, <2>4, <2>5, <2>6 DEF Next, Dispatch, vars
  <1>3. Balanced => StockMatchesJournal
    BY DEF Balanced, ColumnSum, StockMatchesJournal
  <1> QED
    BY <1>1, <1>2, <1>3, AlwaysTyped, PTL DEF Spec
=============================================================================
