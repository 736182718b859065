------------------------ MODULE KhqrPayment_proofs ------------------------
(***************************************************************************)
(* Proofs about KhqrPayment, for any sets of branches, payments, intents,  *)
(* sales and events.                                                       *)
(*                                                                         *)
(* First what the tables say of each other: type correctness, the          *)
(* agreement of attempts with their intents, at most one sale per          *)
(* checkout, and that a FINALIZED intent owns a sold sale.  They are       *)
(* proved together: settling reads the sale of the attempt and falls back  *)
(* on the intent's, so that a checkout is not sold twice only because the  *)
(* two always agree; and they agree only because an intent that does not   *)
(* exist yet has no sale.  On top of that what stands behind a sale: the   *)
(* confirmation, followed from the message on the wire through the         *)
(* evidence, the attempt and the intent to the sale; and what is told of   *)
(* it: the announcement.  The steps that may never be taken come with the  *)
(* invariant they need.                                                    *)
(***************************************************************************)
EXTENDS KhqrPayment, FiniteSetTheorems, TLAPS

\* Attempts at agree with intents it.
Linked(at, it) ==
    \A x \in Attempt : at[x].status # "ABSENT" =>
        /\ at[x].intent \in Intent
        /\ it[at[x].intent].status # "ABSENT"
        /\ it[at[x].intent].branch = x[1]
        /\ it[at[x].intent].sale = at[x].sale

\* Intents it agree with sales sl.
Owned(it, sl) ==
    /\ \A s \in Sale : sl[s].status # "ABSENT" => sl[s].branch \in Branch
    /\ \A i \in Intent : it[i].status = "ABSENT" => it[i].sale = NoSale
    /\ \A s \in Sale : sl[s].origin # NoIntent =>
            /\ it[sl[s].origin].sale = s
            /\ it[sl[s].origin].status = "FINALIZED"
    /\ \A i \in Intent : it[i].status = "FINALIZED" =>
            /\ it[i].sale \in Sale
            /\ sl[it[i].sale].branch = it[i].branch
            /\ sl[it[i].sale].status \in {"FINALIZED", "VOIDED"}

RowTypes(at, it) == at \in [Attempt -> AttemptRow] /\ it \in [Intent -> IntentRow]

IInv == TypeOK /\ Linked(attempts, intents) /\ Owned(intents, sales)

-----------------------------------------------------------------------------
\* What the CASE of recordVerificationOutcome returns.
LEMMA AttemptAfterType ==
    ASSUME NEW st \in AttemptStatus, NEW v \in Verdict
    PROVE  AttemptAfter(st, v) \in AttemptStatus
  BY DEF AttemptAfter, AttemptStatus, ActiveStatus, TerminalStatus, Verdict

\* What the CASE of recordPaymentIntentVerificationOutcome returns: it keeps
\* FINALIZED, and gives FINALIZED to no other intent.
LEMMA IntentAfterType ==
    ASSUME NEW st \in IntentStatus, NEW v \in Verdict
    PROVE  /\ IntentAfter(st, v) \in IntentStatus
           /\ IntentAfter(st, v) = "FINALIZED" <=> st = "FINALIZED"
  BY DEF IntentAfter, IntentStatus, Verdict

\* Recording a verdict keeps rows typed, attempts linked and sales owned.
LEMMA RecordVerdict ==
    ASSUME IInv, NEW a \in Registered, NEW v \in Verdict
    PROVE  LET at == AttemptsAfter(a, v)
               it == IntentsAfter(a, v)
           IN  RowTypes(at, it) /\ Linked(at, it) /\ Owned(it, sales)
  <1> DEFINE i  == attempts[a].intent
             at == AttemptsAfter(a, v)
             it == IntentsAfter(a, v)
  <1>1. /\ a \in Attempt /\ attempts \in [Attempt -> AttemptRow]
        /\ intents \in [Intent -> IntentRow] /\ sales \in [Sale -> SaleRow]
    BY DEF IInv, TypeOK, Registered
  <1>2. /\ i \in Intent /\ attempts[a].status \in AttemptStatus
        /\ intents[i].status \in IntentStatus
    BY <1>1 DEF IInv, Linked, Registered, AttemptRow, IntentRow
  <1>3. /\ at \in [Attempt -> AttemptRow]
        /\ \A x \in Attempt : /\ at[x].intent = attempts[x].intent
                              /\ at[x].sale = attempts[x].sale
                              /\ at[x].status # "ABSENT" => attempts[x].status # "ABSENT"
    <2>1. AttemptAfter(attempts[a].status, v) \in AttemptStatus
      BY <1>2, AttemptAfterType
    <2> QED
      BY <1>1, <1>2, <2>1 DEF AttemptsAfter, AttemptRow, AttemptStatus, ActiveStatus, TerminalStatus
  <1>4. /\ it \in [Intent -> IntentRow]
        /\ \A j \in Intent : /\ it[j].branch = intents[j].branch
                             /\ it[j].sale = intents[j].sale
                             /\ it[j].status = "ABSENT" <=> intents[j].status = "ABSENT"
                             /\ it[j].status = "FINALIZED" <=> intents[j].status = "FINALIZED"
    <2>1. /\ IntentAfter(intents[i].status, v) \in IntentStatus
          /\ IntentAfter(intents[i].status, v) = "FINALIZED" <=> intents[i].status = "FINALIZED"
      BY <1>2, IntentAfterType
    <2> QED
      BY <1>1, <1>2, <2>1 DEF IntentsAfter, IntentRow, IntentStatus
  <1>5. RowTypes(at, it)
    BY <1>3, <1>4 DEF RowTypes
  <1>6. Linked(at, it)
    BY <1>3, <1>4 DEF IInv, Linked
  <1>7. Owned(it, sales)
    <2>1. \A s \in Sale : sales[s].origin \in Intent \cup {NoIntent}
      BY <1>1 DEF SaleRow
    <2> QED
      BY <1>4, <2>1 DEF IInv, Owned
  <1> QED
    BY <1>5, <1>6, <1>7

\* markPaymentIntentFinalized on an intent whose sale, or sale to be, is sold.
LEMMA FinalizeIntent ==
    ASSUME NEW it, NEW sl, it \in [Intent -> IntentRow], Owned(it, sl), sl \in [Sale -> SaleRow],
           NEW i \in Intent, NEW s \in Sale,
           it[i].sale \in {NoSale, s},
           sl[s].status \in {"FINALIZED", "VOIDED"}, sl[s].branch = it[i].branch
    PROVE  LET it2 == IntentFinalized(it, i, s)
           IN  /\ it2 \in [Intent -> IntentRow]
               /\ it2[i].status = "FINALIZED" /\ it2[i].branch = it[i].branch /\ it2[i].sale = s
               /\ \A j \in Intent : j # i => it2[j] = it[j]
               /\ Owned(it2, sl)
  <1> DEFINE it2 == IntentFinalized(it, i, s)
  <1>1. /\ it2 \in [Intent -> IntentRow]
        /\ it2[i].status = "FINALIZED" /\ it2[i].branch = it[i].branch /\ it2[i].sale = s
        /\ \A j \in Intent : j # i => it2[j] = it[j]
    <2>1. it[i] \in IntentRow
      OBVIOUS
    <2> QED
      BY <2>1 DEF IntentFinalized, IntentRow, IntentStatus
  <1>2. \A q \in Sale : sl[q].origin \in Intent \cup {NoIntent}
    BY DEF SaleRow
  <1>3. \A q \in Sale : q # NoSale
    BY NullAssumption DEF Sale
  <1> HIDE DEF it2
  <1>4. Owned(it2, sl)
    BY <1>1, <1>2, <1>3 DEF Owned
  <1> QED
    BY <1>1, <1>4 DEF it2

\* Linking a sale to an intent and to all its attempts at once keeps both
\* relations, whether the sale is already sold or is being sold by this step.
LEMMA LinkSale ==
    ASSUME NEW at, NEW it, NEW sl,
           RowTypes(at, it), Linked(at, it), Owned(it, sl), sl \in [Sale -> SaleRow],
           NEW i \in Intent, NEW s \in Sale,
           it[i].status # "ABSENT", it[i].sale \in {NoSale, s},
           sl[s].status \in {"FINALIZED", "VOIDED"}, sl[s].branch = it[i].branch
    PROVE  LET at2 == AssignSale(at, i, s)
               it2 == IntentFinalized(it, i, s)
           IN  RowTypes(at2, it2) /\ Linked(at2, it2) /\ Owned(it2, sl)
  <1> DEFINE at2 == AssignSale(at, i, s)
             it2 == IntentFinalized(it, i, s)
  <1>1. /\ at2 \in [Attempt -> AttemptRow]
        /\ \A x \in Attempt :
              /\ at2[x].status = at[x].status /\ at2[x].intent = at[x].intent
              /\ at2[x].sale = IF at[x].intent = i /\ at[x].sale = NoSale THEN s ELSE at[x].sale
    BY DEF RowTypes, AssignSale, AttemptRow
  <1>2. /\ it2 \in [Intent -> IntentRow]
        /\ it2[i].status = "FINALIZED" /\ it2[i].branch = it[i].branch /\ it2[i].sale = s
        /\ \A j \in Intent : j # i => it2[j] = it[j]
        /\ Owned(it2, sl)
    BY FinalizeIntent DEF RowTypes
  <1>3. Linked(at2, it2)
    BY <1>1, <1>2 DEF Linked
  <1> QED
    BY <1>1, <1>2, <1>3 DEF RowTypes

\* finalizeSaleFromConfirmedAttempt, applied to rows that satisfy the relations,
\* leaves rows that satisfy them.
LEMMA SettleKeeps ==
    ASSUME NEW at, NEW it, NEW a \in Attempt, NEW scope,
           RowTypes(at, it), Linked(at, it), Owned(it, sales), at[a].status # "ABSENT",
           sales \in [Sale -> SaleRow],
           outbox \subseteq [sale : Sale, branch : Branch, lane : {"khqr", "manual"}],
           Settle(a, at, it, scope)
    PROVE  /\ RowTypes(attempts', intents') /\ Linked(attempts', intents')
           /\ Owned(intents', sales')
           /\ sales' \in [Sale -> SaleRow]
           /\ outbox' \subseteq [sale : Sale, branch : Branch, lane : {"khqr", "manual"}]
  <1> DEFINE i == at[a].intent
  <1>1. /\ i \in Intent /\ it[i].status # "ABSENT" /\ it[i].branch = a[1]
        /\ it[i].sale = at[a].sale
        /\ at[a].sale \in Sale \cup {NoSale}
        /\ a[1] \in Branch /\ a[2] \in Md5
    BY DEF Linked, RowTypes, AttemptRow, Attempt
  <1>2. CASE attempts' = at /\ intents' = it /\ UNCHANGED <<sales, outbox>>
    BY <1>2
  <1>3. CASE SaleOf(a, at, it) = NoSale /\ Materialise(a, at, it, scope)
    <2>1. it[i].sale = NoSale
      BY <1>1, <1>3 DEF SaleOf
    <2> DEFINE row == [status |-> "FINALIZED", method |-> "KHQR",
                       branch |-> a[1], md5 |-> a[2], origin |-> i, claimed |-> FALSE]
    <2>2. PICK s \in NewSale : /\ sales[s].status = "ABSENT"
                               /\ Finalize(at, it, i, s, row, scope)
      BY <1>3 DEF Materialise
    <2>3. s \in Sale
      BY DEF Sale
    <2>4. row \in SaleRow
      BY <1>1 DEF SaleRow, SaleStatus
    <2>5. sales' = [sales EXCEPT ![s] = row] /\ scope \in Branch
      BY <2>2 DEF Finalize
    <2>6. sales' \in [Sale -> SaleRow]
      BY <2>3, <2>4, <2>5
    <2>7. outbox' \subseteq [sale : Sale, branch : Branch, lane : {"khqr", "manual"}]
      BY <2>2, <2>3 DEF Finalize
    \* The new sale joins the sold ones: it belongs to no intent yet, and the
    \* intent it comes from is the origin of no other.
    <2> DEFINE it2 == IntentFinalized(it, i, s)
    <2>8. /\ it2 \in [Intent -> IntentRow]
          /\ it2[i].status = "FINALIZED" /\ it2[i].branch = a[1] /\ it2[i].sale = s
          /\ \A j \in Intent : j # i => it2[j] = it[j]
      <3>1. it[i] \in IntentRow
        BY <1>1 DEF RowTypes
      <3> QED
        BY <1>1, <2>1, <2>3, <3>1 DEF RowTypes, IntentFinalized, IntentRow, IntentStatus
    <2>9. /\ attempts' \in [Attempt -> AttemptRow]
          /\ \A x \in Attempt :
                /\ attempts'[x].status = at[x].status /\ attempts'[x].intent = at[x].intent
                /\ attempts'[x].sale = IF at[x].intent = i /\ at[x].sale = NoSale
                                       THEN s ELSE at[x].sale
      BY <2>2, <2>3 DEF Finalize, RowTypes, AssignSale, AttemptRow
    <2>10. Linked(attempts', it2)
      BY <1>1, <2>1, <2>8, <2>9 DEF Linked
    <2>11. Owned(it2, sales')
      <3>1. /\ sales'[s] = row
            /\ \A q \in Sale : q # s => sales'[q] = sales[q]
        BY <2>3, <2>5
      <3>2. \A q \in Sale : sales[q].origin \in Intent \cup {NoIntent}
        BY DEF SaleRow
      <3>3. \A q \in Sale : sales[q].origin # i
        BY <1>1, <2>1, NullAssumption DEF Owned, Sale
      <3>4. s # NoSale
        BY <2>3, NullAssumption DEF Sale
      <3>8. \A q \in Sale : sales'[q].status # "ABSENT" => sales'[q].branch \in Branch
        BY <1>1, <3>1 DEF Owned
      <3>5. \A j \in Intent : it2[j].status = "ABSENT" => it2[j].sale = NoSale
        BY <2>8 DEF Owned
      <3>6. \A q \in Sale : sales'[q].origin # NoIntent =>
                /\ it2[sales'[q].origin].sale = q
                /\ it2[sales'[q].origin].status = "FINALIZED"
        BY <1>1, <2>8, <3>1, <3>2, <3>3 DEF Owned
      <3>7. \A j \in Intent : it2[j].status = "FINALIZED" =>
                /\ it2[j].sale \in Sale
                /\ sales'[it2[j].sale].branch = it2[j].branch
                /\ sales'[it2[j].sale].status \in {"FINALIZED", "VOIDED"}
        BY <2>2, <2>3, <2>8, <3>1 DEF Owned
      <3> QED
        BY <3>5, <3>6, <3>7, <3>8 DEF Owned
    <2>12. intents' = it2
      BY <2>2 DEF Finalize
    <2> QED
      BY <2>6, <2>7, <2>8, <2>9, <2>10, <2>11, <2>12 DEF RowTypes
  <1>4. CASE SaleOf(a, at, it) # NoSale /\ SettleExisting(a, at, it, SaleOf(a, at, it), scope)
    <2> DEFINE s == SaleOf(a, at, it)
    <2>1. s \in Sale /\ s = at[a].sale /\ it[i].sale = s
      BY <1>1, <1>4 DEF SaleOf
    <2>2. CASE /\ sales[s].branch = a[1] /\ sales[s].status = "FINALIZED"
               /\ attempts' = at /\ intents' = IntentFinalized(it, i, s)
               /\ UNCHANGED <<sales, outbox>>
      <3> DEFINE it2 == IntentFinalized(it, i, s)
      <3>1. /\ it2 \in [Intent -> IntentRow] /\ Owned(it2, sales)
            /\ \A j \in Intent : /\ it2[j].branch = it[j].branch /\ it2[j].sale = it[j].sale
                                 /\ it[j].status # "ABSENT" => it2[j].status # "ABSENT"
        <4>1. it \in [Intent -> IntentRow] /\ it[i].sale = s
          BY <2>1 DEF RowTypes
        <4>2. /\ it2 \in [Intent -> IntentRow] /\ Owned(it2, sales)
              /\ it2[i].status = "FINALIZED" /\ it2[i].branch = it[i].branch /\ it2[i].sale = s
              /\ \A j \in Intent : j # i => it2[j] = it[j]
          <5> HIDE DEF i, s
          <5> QED
            BY <1>1, <2>1, <2>2, <4>1, FinalizeIntent
        <4> HIDE DEF it2
        <4> QED
          BY <4>1, <4>2
      <3>2. Linked(at, it2)
        BY <3>1 DEF Linked
      <3> QED
        BY <2>2, <3>1, <3>2 DEF RowTypes
    <2>3. CASE /\ sales[s].branch = a[1] /\ sales[s].status = "PENDING"
               /\ Finalize(at, it, i, s, [sales[s] EXCEPT !.status = "FINALIZED",
                              !.md5 = IF @ = NoMd5 THEN a[2] ELSE @], scope)
      <3> DEFINE row == [sales[s] EXCEPT !.status = "FINALIZED",
                            !.md5 = IF @ = NoMd5 THEN a[2] ELSE @]
      <3>1. /\ row \in SaleRow /\ row.status = "FINALIZED" /\ row.branch = sales[s].branch
            /\ row.origin = sales[s].origin
        <4>1. sales[s] \in SaleRow
          BY <2>1
        <4> QED
          BY <1>1, <4>1 DEF SaleRow, SaleStatus
      <3>2. sales' = [sales EXCEPT ![s] = row] /\ scope \in Branch
        BY <2>3 DEF Finalize
      <3>3. /\ sales' \in [Sale -> SaleRow] /\ sales'[s].status = "FINALIZED"
            /\ \A q \in Sale : /\ sales'[q].branch = sales[q].branch
                               /\ sales'[q].origin = sales[q].origin
                               /\ q # s => sales'[q] = sales[q]
        BY <2>1, <3>1, <3>2
      <3> HIDE DEF row
      <3>4. Owned(it, sales')
        <4>1. \A q \in Sale : sales[q].status \in {"FINALIZED", "VOIDED"} =>
                                sales'[q].status \in {"FINALIZED", "VOIDED"}
          BY <3>3
        <4>2. \A q \in Sale : sales'[q].status # "ABSENT" => sales[q].status # "ABSENT"
          BY <2>3, <3>3
        <4> QED
          BY <3>3, <4>1, <4>2 DEF Owned
      <3>5. RowTypes(attempts', intents') /\ Linked(attempts', intents') /\ Owned(intents', sales')
        <4>1. attempts' = AssignSale(at, i, s) /\ intents' = IntentFinalized(it, i, s)
          BY <2>3 DEF Finalize
        <4>2. sales'[s].branch = it[i].branch /\ it[i].sale \in {NoSale, s}
          BY <1>1, <2>1, <2>3, <3>3
        <4> HIDE DEF i, s
        <4> QED
          BY <1>1, <2>1, <3>3, <3>4, <4>1, <4>2, LinkSale
      <3>6. outbox' \subseteq [sale : Sale, branch : Branch, lane : {"khqr", "manual"}]
        BY <2>1, <2>3 DEF Finalize
      <3> QED
        BY <3>3, <3>5, <3>6
    <2> QED
      BY <1>2, <1>4, <2>2, <2>3 DEF SettleExisting
  <1> QED
    BY <1>2, <1>3, <1>4 DEF Settle
-----------------------------------------------------------------------------
\* The part of the invariant the payment tables make up.
Tables == /\ RowTypes(attempts, intents) /\ Linked(attempts, intents)
          /\ Owned(intents, sales) /\ sales \in [Sale -> SaleRow]
          /\ outbox \subseteq [sale : Sale, branch : Branch, lane : {"khqr", "manual"}]

Evidence == evidence \subseteq [attempt : Attempt, event : Event \cup {NoEvent}, verdict : Verdict]

\* The part no payment handler writes.
Surroundings == /\ queue \subseteq Attempt
                /\ eligible \subseteq Sale
                /\ ledger \in [Md5 -> {"UNPAID", "PAID", "WRONG"}]
                /\ wire \in [Event -> Message \cup {NoMsg}]

\* The inductive invariant, cut into the three parts that different steps disturb.
LEMMA IInvParts == IInv <=> Tables /\ Evidence /\ Surroundings
  BY DEF IInv, TypeOK, Tables, Evidence, Surroundings, RowTypes

\* The invariant holds before the first request.
LEMMA InitEstablishes == Init => IInv
  <1> SUFFICES ASSUME Init PROVE IInv
    OBVIOUS
  <1>1. /\ sales \in [Sale -> SaleRow]
        /\ \A s \in Sale : /\ sales[s].origin = NoIntent
                           /\ sales[s].status # "ABSENT" => sales[s].branch \in Branch
    BY DEF Init, NoSaleRow
  <1>2. attempts \in [Attempt -> AttemptRow] /\ intents \in [Intent -> IntentRow]
    BY DEF Init, AttemptRow, IntentRow
  <1>3. TypeOK
    BY <1>1, <1>2 DEF Init, TypeOK
  <1>4. Linked(attempts, intents)
    BY DEF Init, Linked
  <1>5. Owned(intents, sales)
    BY <1>1 DEF Init, Owned
  <1> QED
    BY <1>3, <1>4, <1>5 DEF IInv

\* A verdict recorded with or without evidence of its own.
LEMMA EvidenceKept ==
    ASSUME Evidence, NEW a \in Attempt, NEW e \in Event \cup {NoEvent}, NEW v \in Verdict,
           evidence' = EvidenceAfter(a, e, v)
    PROVE  Evidence'
  BY DEF Evidence, EvidenceAfter

\* Record a verdict and settle: confirmByMd5 and the webhook.
LEMMA VerdictAndSettle ==
    ASSUME IInv, NEW a \in Registered, NEW v \in Verdict, NEW scope,
           Settle(a, AttemptsAfter(a, v), IntentsAfter(a, v), scope)
    PROVE  Tables'
  <1> DEFINE at == AttemptsAfter(a, v)
             it == IntentsAfter(a, v)
  <1>1. RowTypes(at, it) /\ Linked(at, it) /\ Owned(it, sales)
    BY RecordVerdict
  <1>2. a \in Attempt /\ attempts[a].status \in AttemptStatus
    BY DEF Registered, IInv, TypeOK, AttemptRow
  <1>3. at[a].status # "ABSENT"
    <2>1. AttemptAfter(attempts[a].status, v) # "ABSENT"
      BY <1>2, AttemptAfterType DEF AttemptStatus, ActiveStatus, TerminalStatus
    <2>2. attempts \in [Attempt -> AttemptRow]
      BY DEF IInv, TypeOK
    <2> QED
      BY <1>2, <2>1, <2>2 DEF AttemptsAfter, AttemptRow
  <1>4. /\ sales \in [Sale -> SaleRow]
        /\ outbox \subseteq [sale : Sale, branch : Branch, lane : {"khqr", "manual"}]
    BY DEF IInv, TypeOK
  <1> HIDE DEF at, it
  <1> QED
    BY <1>1, <1>2, <1>3, <1>4, SettleKeeps DEF Tables, at, it

\* The statuses an attempt or an intent may be put back to by a new attempt.
LEMMA NewAttemptKeeps ==
    ASSUME IInv, NEW a \in Attempt, NEW i \in Intent, NEW s \in Sale, AddAttempt(a, i, s)
    PROVE  /\ RowTypes(attempts', intents') /\ Linked(attempts', intents')
           /\ Owned(intents', sales)
  <1>1. /\ attempts \in [Attempt -> AttemptRow] /\ intents \in [Intent -> IntentRow]
        /\ sales \in [Sale -> SaleRow] /\ a[1] \in Branch /\ s # NoSale
    BY NullAssumption DEF IInv, TypeOK, Attempt, Sale
  <1>2. \A q \in Sale : sales[q].origin \in Intent \cup {NoIntent}
    BY <1>1 DEF SaleRow
  <1>3. /\ intents' \in [Intent -> IntentRow]
        /\ intents'[i].branch = a[1] /\ intents'[i].sale = s /\ intents'[i].status # "ABSENT"
        /\ intents[i].status # "ABSENT" => /\ intents[i].branch = a[1] /\ intents[i].sale = s
                                           /\ intents'[i].status = "FINALIZED"
                                                <=> intents[i].status = "FINALIZED"
        /\ intents[i].status = "ABSENT" => intents'[i].status # "FINALIZED"
        /\ \A j \in Intent : j # i => intents'[j] = intents[j]
    <2>1. intents[i] \in IntentRow
      BY <1>1
    <2>2. CASE i \in IntentOfSale(a[1], s) /\ intents' = [intents EXCEPT ![i].status = Reopened(@)]
      <3>1. intents[i].branch = a[1] /\ intents[i].sale = s /\ intents[i].status # "ABSENT"
        BY <1>1, <2>2 DEF IntentOfSale, IInv, Owned
      <3>2. /\ Reopened(intents[i].status) \in IntentStatus
            /\ Reopened(intents[i].status) = "FINALIZED" <=> intents[i].status = "FINALIZED"
        BY DEF Reopened, IntentStatus
      <3> QED
        BY <1>1, <2>1, <2>2, <3>1, <3>2 DEF IntentRow, IntentStatus
    <2>3. CASE /\ intents[i].status = "ABSENT"
               /\ intents' = [intents EXCEPT ![i] = [status |-> "WAITING_FOR_PAYMENT",
                                                     branch |-> a[1], sale |-> s]]
      BY <1>1, <2>1, <2>3 DEF IntentRow, IntentStatus
    <2> QED
      BY <2>2, <2>3 DEF AddAttempt, EnsureIntent
  <1>4. /\ attempts' \in [Attempt -> AttemptRow]
        /\ attempts'[a].intent = i /\ attempts'[a].sale = s
        /\ \A x \in Attempt : x # a =>
              /\ attempts'[x].intent = attempts[x].intent /\ attempts'[x].sale = attempts[x].sale
              /\ attempts'[x].status # "ABSENT" => attempts[x].status # "ABSENT"
    BY <1>1 DEF AddAttempt, NewAttempt, SupersedeOthers, OfIntent, Registered, AttemptRow,
                AttemptStatus, ActiveStatus, TerminalStatus
  <1>5. Linked(attempts', intents')
    BY <1>3, <1>4 DEF IInv, Linked
  <1>6. Owned(intents', sales)
    BY <1>1, <1>2, <1>3 DEF IInv, Owned
  <1> QED
    BY <1>3, <1>4, <1>5, <1>6 DEF RowTypes

\* cancelPaymentIntent and markAttemptsCancelledForIntent keep typed rows linked and
\* sales owned: neither touches a FINALIZED intent.
LEMMA CancelKeeps ==
    ASSUME IInv, NEW i \in Intent, Cancel(i)
    PROVE  RowTypes(attempts', intents') /\ Linked(attempts', intents') /\ Owned(intents', sales)
  <1>1. /\ attempts \in [Attempt -> AttemptRow] /\ intents \in [Intent -> IntentRow]
        /\ sales \in [Sale -> SaleRow]
    BY DEF IInv, TypeOK
  <1>2. \A q \in Sale : sales[q].origin \in Intent \cup {NoIntent}
    BY <1>1 DEF SaleRow
  <1>3. /\ intents' \in [Intent -> IntentRow]
        /\ intents'[i].branch = intents[i].branch /\ intents'[i].sale = intents[i].sale
        /\ intents'[i].status = "CANCELLED"
        /\ intents[i].status \notin {"ABSENT", "FINALIZED"}
        /\ \A j \in Intent : j # i => intents'[j] = intents[j]
    BY <1>1 DEF Cancel, Cancellable, IntentRow, IntentStatus
  <1>4. /\ attempts' \in [Attempt -> AttemptRow]
        /\ \A x \in Attempt :
              /\ attempts'[x].intent = attempts[x].intent /\ attempts'[x].sale = attempts[x].sale
              /\ attempts'[x].status # "ABSENT" => attempts[x].status # "ABSENT"
    BY <1>1 DEF Cancel, OfIntent, Registered, AttemptRow, AttemptStatus, ActiveStatus, TerminalStatus
  <1>5. Linked(attempts', intents')
    BY <1>3, <1>4 DEF IInv, Linked
  <1>6. Owned(intents', sales)
    BY <1>1, <1>2, <1>3 DEF IInv, Owned
  <1> QED
    BY <1>3, <1>4, <1>5, <1>6 DEF RowTypes

\* No command of the cashier or of the sale module breaks the invariant.
LEMMA CashierKeeps == IInv /\ Cashier => IInv'
  <1> SUFFICES ASSUME IInv, Cashier PROVE IInv'
    OBVIOUS
  <1>1. Tables /\ Evidence /\ Surroundings
    BY IInvParts
  <1>2. \A s \in Sale : sales[s] \in SaleRow
    BY <1>1 DEF Tables
  <1> SUFFICES Tables' /\ Evidence' /\ Surroundings'
    BY DEF IInv, TypeOK, Tables, Evidence, Surroundings, RowTypes
  <1>3. ASSUME NEW a \in Attempt, NEW i \in Intent, InitiateCheckoutIntent(a, i)
        PROVE  Tables' /\ Evidence' /\ Surroundings'
    <2>1. /\ attempts \in [Attempt -> AttemptRow] /\ intents \in [Intent -> IntentRow]
          /\ sales \in [Sale -> SaleRow] /\ a[1] \in Branch
      BY <1>1 DEF Tables, RowTypes, Attempt
    <2>2. /\ intents' \in [Intent -> IntentRow]
          /\ intents[i].status = "ABSENT" /\ intents'[i].status = "WAITING_FOR_PAYMENT"
          /\ intents'[i].branch = a[1] /\ intents'[i].sale = NoSale
          /\ \A j \in Intent : j # i => intents'[j] = intents[j]
      BY <1>3, <2>1 DEF InitiateCheckoutIntent, IntentRow, IntentStatus
    <2>3. /\ attempts' \in [Attempt -> AttemptRow]
          /\ attempts'[a].intent = i /\ attempts'[a].sale = NoSale
          /\ \A x \in Attempt : x # a => attempts'[x] = attempts[x]
      BY <1>3, <2>1 DEF InitiateCheckoutIntent, NewAttempt, AttemptRow, AttemptStatus, ActiveStatus
    <2>4. Linked(attempts', intents')
      BY <2>2, <2>3 DEF IInv, Linked
    <2>5. \A q \in Sale : sales[q].origin \in Intent \cup {NoIntent}
      BY <1>2 DEF SaleRow
    <2>6. Owned(intents', sales)
      BY <2>2, <2>5 DEF IInv, Owned
    <2> QED
      BY <1>1, <1>3, <2>2, <2>3, <2>4, <2>6
         DEF InitiateCheckoutIntent, Tables, RowTypes, Evidence, Surroundings
  <1>4. ASSUME NEW a \in Attempt, NEW i \in Intent, NEW s \in Sale, RegisterAttempt(a, i, s)
        PROVE  Tables' /\ Evidence' /\ Surroundings'
    BY <1>1, <1>4, NewAttemptKeeps DEF RegisterAttempt, Tables, Evidence, Surroundings
  <1>5. ASSUME NEW a \in Attempt, NEW i \in Intent, NEW s \in Sale, GenerateForSale(a, i, s)
        PROVE  Tables' /\ Evidence' /\ Surroundings'
    <2>1. RowTypes(attempts', intents') /\ Linked(attempts', intents') /\ Owned(intents', sales)
      BY <1>1, <1>5, NewAttemptKeeps DEF GenerateForSale, Tables
    <2>2. /\ sales' \in [Sale -> SaleRow]
          /\ \A q \in Sale : /\ sales'[q].origin = sales[q].origin
                             /\ sales'[q].branch = sales[q].branch
                             /\ sales'[q].status = sales[q].status
      <3>1. a[2] \in Md5
        BY DEF Attempt
      <3> QED
        BY <1>1, <1>2, <1>5, <3>1 DEF GenerateForSale, Tables, SaleRow
    <2>3. Owned(intents', sales')
      BY <2>1, <2>2 DEF Owned
    <2> QED
      BY <1>1, <1>5, <2>1, <2>2, <2>3 DEF GenerateForSale, Tables, Evidence, Surroundings
  <1>6. ASSUME NEW i \in Intent, Cancel(i)
        PROVE  Tables' /\ Evidence' /\ Surroundings'
    <2>1. UNCHANGED <<sales, evidence, outbox, queue, eligible, ledger, wire>>
      BY <1>6 DEF Cancel
    <2> QED
      BY <1>1, <1>6, <2>1, CancelKeeps DEF Tables, Evidence, Surroundings
  <1>7. ASSUME NEW i \in Intent, CancelPaymentIntent(i)
        PROVE  Tables' /\ Evidence' /\ Surroundings'
    BY <1>6, <1>7 DEF CancelPaymentIntent
  <1>8. ASSUME NEW a \in Registered, CancelAttempt(a)
        PROVE  Tables' /\ Evidence' /\ Surroundings'
    <2>1. attempts[a].intent \in Intent
      BY DEF Registered, IInv, Linked
    <2> QED
      BY <1>6, <1>8, <2>1 DEF CancelAttempt
  <1>9. ASSUME NEW a \in Attempt, NEW v \in Verdict, NEW e \in Event \cup {NoEvent},
               ConfirmByMd5(a, v, e)
        PROVE  Tables' /\ Evidence' /\ Surroundings'
    <2>1. /\ a \in Registered
          /\ Settle(a, AttemptsAfter(a, v), IntentsAfter(a, v), a[1])
          /\ evidence' = EvidenceAfter(a, e, v)
          /\ UNCHANGED <<queue, eligible, ledger, wire>>
      BY <1>9 DEF ConfirmByMd5
    <2>2. Tables'
      BY <2>1, VerdictAndSettle
    <2>3. Evidence'
      BY <1>1, <2>1, EvidenceKept
    <2> QED
      BY <1>1, <2>1, <2>2, <2>3 DEF Surroundings
  <1>10. ASSUME NEW s \in Sale, AssertFinalizeEligibility(s) \/ AbortFinalize(s)
         PROVE  Tables' /\ Evidence' /\ Surroundings'
    BY <1>1, <1>10 DEF AssertFinalizeEligibility, AbortFinalize, Tables, Evidence, Surroundings, Linked, Owned
  <1>11. ASSUME NEW s \in Sale, FinalizeSale(s)
         PROVE  Tables' /\ Evidence' /\ Surroundings'
    <2>1. /\ sales' \in [Sale -> SaleRow] /\ sales'[s].status = "FINALIZED"
          /\ sales[s].status # "ABSENT"
          /\ \A q \in Sale : /\ sales'[q].origin = sales[q].origin
                             /\ sales'[q].branch = sales[q].branch
                             /\ q # s => sales'[q].status = sales[q].status
      BY <1>1, <1>2, <1>11 DEF FinalizeSale, Tables, SaleRow, SaleStatus
    <2>2. Owned(intents, sales')
      BY <1>1, <2>1 DEF Tables, Owned
    <2>3. sales[s].branch \in Branch
      BY <1>1, <1>11 DEF FinalizeSale, Tables, Owned
    <2>4. outbox' \subseteq [sale : Sale, branch : Branch, lane : {"khqr", "manual"}]
      BY <1>1, <1>11, <2>3 DEF FinalizeSale, Tables
    <2> QED
      BY <1>1, <1>11, <2>1, <2>2, <2>4 DEF FinalizeSale, Tables, Evidence, Surroundings
  <1>12. ASSUME NEW s \in Sale, ExecuteVoid(s)
         PROVE  Tables' /\ Evidence' /\ Surroundings'
    <2>1. /\ sales' \in [Sale -> SaleRow] /\ sales'[s].status = "VOIDED"
          /\ sales[s].status # "ABSENT"
          /\ \A q \in Sale : /\ sales'[q].origin = sales[q].origin
                             /\ sales'[q].branch = sales[q].branch
                             /\ q # s => sales'[q].status = sales[q].status
      BY <1>1, <1>2, <1>12 DEF ExecuteVoid, Tables, SaleRow, SaleStatus
    <2>2. Owned(intents, sales')
      BY <1>1, <2>1 DEF Tables, Owned
    <2> QED
      BY <1>1, <1>12, <2>1, <2>2 DEF ExecuteVoid, Tables, Evidence, Surroundings
  <1>13. ASSUME NEW s \in Sale, NEW b \in Branch, ApproveManualPaymentClaim(s, b)
         PROVE  Tables' /\ Evidence' /\ Surroundings'
    <2> DEFINE row == [status |-> "FINALIZED", method |-> "KHQR", branch |-> b,
                       md5 |-> NoMd5, origin |-> NoIntent, claimed |-> TRUE]
    <2>1. /\ sales[s].status = "ABSENT" /\ sales' = [sales EXCEPT ![s] = row]
          /\ outbox' = outbox \cup {[sale |-> s, branch |-> b, lane |-> "manual"]}
          /\ UNCHANGED <<attempts, intents, evidence, queue, eligible, ledger, wire>>
      BY <1>13 DEF ApproveManualPaymentClaim
    <2>2. row \in SaleRow
      BY DEF SaleRow, SaleStatus
    <2>3. /\ sales' \in [Sale -> SaleRow] /\ sales'[s] = row
          /\ \A q \in Sale : q # s => sales'[q] = sales[q]
      BY <1>1, <2>1, <2>2 DEF Tables
    \* The new sale is no intent's: none is FINALIZED with a sale that does not exist.
    <2>4. Owned(intents, sales')
      BY <1>1, <2>1, <2>3 DEF Tables, Owned
    <2>5. outbox' \subseteq [sale : Sale, branch : Branch, lane : {"khqr", "manual"}]
      BY <1>1, <2>1 DEF Tables
    <2> HIDE DEF row
    <2> QED
      BY <1>1, <2>1, <2>3, <2>4, <2>5 DEF Tables, Evidence, Surroundings
  <1> QED
    BY <1>3, <1>4, <1>5, <1>7, <1>8, <1>9, <1>10, <1>11, <1>12, <1>13 DEF Cashier

\* No step of the reconciliation scheduler breaks the invariant.
LEMMA SchedulerKeeps == IInv /\ Scheduler => IInv'
  <1> SUFFICES ASSUME IInv, Scheduler PROVE IInv'
    OBVIOUS
  <1>1. Tables /\ Evidence /\ Surroundings
    BY IInvParts
  <1> SUFFICES Tables' /\ Evidence' /\ Surroundings'
    BY DEF IInv, TypeOK, Tables, Evidence, Surroundings, RowTypes
  <1>2. ASSUME NEW batch \in SUBSET Active, StartTick(batch)
        PROVE  Tables' /\ Evidence' /\ Surroundings'
    BY <1>1, <1>2 DEF StartTick, Active, Tables, Evidence, Surroundings, Linked, Owned
  <1>3. ASSUME NEW a \in Attempt, NEW v \in Verdict, NEW e \in Event \cup {NoEvent},
               attempts[a].status \in ActiveStatus, RecordOutcome(a, v, e),
               UNCHANGED <<sales, outbox>>
        PROVE  Tables' /\ Evidence'
    <2>1. a \in Registered
      BY <1>3 DEF Registered, ActiveStatus
    <2>2. /\ RowTypes(attempts', intents') /\ Linked(attempts', intents')
          /\ Owned(intents', sales)
      BY <1>3, <2>1, RecordVerdict DEF RecordOutcome
    <2>3. Evidence'
      BY <1>1, <1>3, EvidenceKept DEF RecordOutcome
    <2> QED
      BY <1>1, <1>3, <2>2, <2>3 DEF Tables
  <1>4. ASSUME NEW a \in Attempt, VisitCandidate(a)
        PROVE  Tables' /\ Evidence' /\ Surroundings'
    <2>1. /\ ReconcileAttempt(a) /\ queue' = queue \ {a}
          /\ UNCHANGED <<sales, outbox, eligible, ledger, wire>>
      BY <1>4 DEF VisitCandidate
    <2>2. CASE UNCHANGED <<attempts, intents, evidence>>
      BY <1>1, <2>1, <2>2 DEF Tables, Evidence, Linked, Owned, Surroundings
    <2>3. CASE attempts[a].status \in ActiveStatus /\ RecordOutcome(a, "EXPIRED", NoEvent)
      <3>1. Tables' /\ Evidence'
        BY <1>3, <2>1, <2>3 DEF Verdict
      <3> QED
        BY <1>1, <2>1, <3>1 DEF Surroundings
    <2>4. ASSUME NEW v \in Verdicts(a[2]), NEW e \in ProviderEvents(a[2], v),
                 attempts[a].status \in ActiveStatus, RecordOutcome(a, v, e)
          PROVE  Tables' /\ Evidence' /\ Surroundings'
      <3>1. v \in Verdict
        BY DEF Verdicts, Verdict
      <3>2. e \in Event \cup {NoEvent}
        BY DEF ProviderEvents
      <3>3. Tables' /\ Evidence'
        BY <1>3, <2>1, <2>4, <3>1, <3>2
      <3> QED
        BY <1>1, <2>1, <3>3 DEF Surroundings
    <2> QED
      BY <2>1, <2>2, <2>3, <2>4 DEF ReconcileAttempt
  <1> QED
    BY <1>2, <1>4 DEF Scheduler

\* No payment, no passing of time and no webhook delivery breaks the invariant.
LEMMA WorldKeeps == IInv /\ World => IInv'
  <1> SUFFICES ASSUME IInv, World PROVE IInv'
    OBVIOUS
  <1>1. Tables /\ Evidence /\ Surroundings
    BY IInvParts
  <1> SUFFICES Tables' /\ Evidence' /\ Surroundings'
    BY DEF IInv, TypeOK, Tables, Evidence, Surroundings, RowTypes
  <1>2. ASSUME NEW m \in Md5, Pay(m)
        PROVE  Tables' /\ Evidence' /\ Surroundings'
    BY <1>1, <1>2 DEF Pay, Tables, Evidence, Surroundings, Linked, Owned
  <1>3. ASSUME NEW a \in Attempt, Expire(a)
        PROVE  Tables' /\ Evidence' /\ Surroundings'
    <2>1. /\ attempts' \in [Attempt -> AttemptRow]
          /\ \A x \in Attempt : /\ attempts'[x].status = attempts[x].status
                                /\ attempts'[x].intent = attempts[x].intent
                                /\ attempts'[x].sale = attempts[x].sale
      BY <1>1, <1>3 DEF Expire, Tables, RowTypes, AttemptRow
    <2>2. Linked(attempts', intents)
      BY <1>1, <2>1 DEF Tables, Linked
    <2> QED
      BY <1>1, <1>3, <2>1, <2>2 DEF Expire, Tables, RowTypes, Evidence, Surroundings
  <1>4. ASSUME NEW e \in Event, SendWebhook(e)
        PROVE  Tables' /\ Evidence' /\ Surroundings'
    <2>1. PICK v \in Verdicts(EventMd5[e]), claim \in Branch \cup {UnknownBranch}, id \in {e, NoEvent} :
             wire' = [wire EXCEPT ![e] =
                        [md5 |-> EventMd5[e], claim |-> claim, verdict |-> v,
                         exact |-> v = "CONFIRMED" /\ ledger[EventMd5[e]] = "PAID", id |-> id]]
      BY <1>4 DEF SendWebhook
    <2>2. v \in Verdict
      BY DEF Verdicts, Verdict
    <2>3. EventMd5[e] \in Md5
      BY EventMd5Assumption
    <2>4. wire' \in [Event -> Message \cup {NoMsg}]
      BY <1>1, <2>1, <2>2, <2>3 DEF Surroundings, Message
    <2>5. UNCHANGED <<attempts, intents, sales, evidence, outbox, queue, eligible, ledger>>
      BY <1>4 DEF SendWebhook
    <2> QED
      BY <1>1, <2>4, <2>5 DEF Tables, Evidence, Surroundings, Linked, Owned
  <1>5. ASSUME NEW e \in Event, DeliverWebhook(e)
        PROVE  Tables' /\ Evidence' /\ Surroundings'
    <2> DEFINE msg == wire[e]
    <2>1. /\ msg \in Message /\ IngestWebhookEvent(msg)
      BY <1>1, <1>5 DEF DeliverWebhook, Surroundings
    <2> HIDE DEF msg
    <2>2. PICK a \in Targets(msg) :
             /\ Settle(a, AttemptsAfter(a, Outcome(msg)), IntentsAfter(a, Outcome(msg)), msg.claim)
             /\ evidence' = EvidenceAfter(a, msg.id, Outcome(msg))
             /\ UNCHANGED <<queue, eligible, ledger, wire>>
      BY <2>1 DEF IngestWebhookEvent
    <2>3. a \in Registered /\ a \in Attempt
      BY DEF Targets, Registered
    <2>4. Outcome(msg) \in Verdict /\ msg.id \in Event \cup {NoEvent}
      BY <2>1 DEF Outcome, Verdict, Message
    <2>5. Tables'
      BY <2>2, <2>3, <2>4, VerdictAndSettle
    <2>6. Evidence'
      BY <1>1, <2>2, <2>3, <2>4, EvidenceKept
    <2> QED
      BY <1>1, <2>2, <2>5, <2>6 DEF Surroundings
  <1> QED
    BY <1>2, <1>3, <1>4, <1>5 DEF World

-----------------------------------------------------------------------------
\* The inductive invariant holds of every behaviour.
THEOREM Invariance == Spec => []IInv
  <1>1. Init => IInv
    BY InitEstablishes
  <1>2. IInv /\ [Next]_vars => IInv'
    <2>1. ASSUME IInv, UNCHANGED vars PROVE IInv'
      BY <2>1 DEF vars, IInv, TypeOK, Linked, Owned
    <2> QED
      BY <2>1, CashierKeeps, SchedulerKeeps, WorldKeeps DEF Next
  <1> QED
    BY <1>1, <1>2, PTL DEF Spec

\* Every table, message and list of the payment handlers keeps its type.
THEOREM TypeCorrect == Spec => []TypeOK
  <1>1. IInv => TypeOK
    BY DEF IInv
  <1> QED
    BY <1>1, Invariance, PTL

\* An attempt always carries the sale of its intent.
THEOREM AttemptsAgree == Spec => []AttemptAgreesWithIntent
  <1>1. IInv => AttemptAgreesWithIntent
    BY DEF IInv, Linked, AttemptAgreesWithIntent, Registered
  <1> QED
    BY <1>1, Invariance, PTL

\* A checkout is sold at most once, whoever confirms it and how often.
THEOREM AtMostOneSale == Spec => []OneSalePerIntent
  <1>1. IInv => OneSalePerIntent
    BY DEF IInv, Owned, OneSalePerIntent
  <1> QED
    BY <1>1, Invariance, PTL

\* A FINALIZED intent has its sale, in its own branch, and the sale is sold.
THEOREM FinalizedOwnsSale == Spec => []FinalizedIntentOwnsSale
  <1>1. IInv => FinalizedIntentOwnsSale
    BY DEF IInv, Owned, FinalizedIntentOwnsSale
  <1> QED
    BY <1>1, Invariance, PTL

-----------------------------------------------------------------------------
\* An intent nothing happens to any more: cancelled, or finalized with its sale.
Closed(row) ==
    \/ row.status = "CANCELLED"
    \/ row.status = "FINALIZED" /\ row.sale # NoSale

\* A row that is written with its own status is unchanged.
LEMMA SameStatus ==
    ASSUME NEW it \in [Intent -> IntentRow], NEW i \in Intent
    PROVE  [it EXCEPT ![i].status = it[i].status] = it
  <1>1. it[i] \in IntentRow
    OBVIOUS
  <1>2. [it[i] EXCEPT !.status = it[i].status] = it[i]
    BY <1>1 DEF IntentRow
  <1> QED
    BY <1>2

\* Recording a verdict on any attempt leaves a closed intent alone.
LEMMA VerdictSparesClosed ==
    ASSUME IInv, NEW a \in Registered, NEW v \in Verdict,
           NEW j \in Intent, Closed(intents[j])
    PROVE  IntentsAfter(a, v)[j] = intents[j]
  <1> DEFINE i == attempts[a].intent
  <1>1. intents \in [Intent -> IntentRow] /\ i \in Intent
    BY DEF IInv, TypeOK, Linked, Registered
  <1>2. CASE i = j
    <2>1. IntentAfter(intents[i].status, v) = intents[i].status
      BY <1>2 DEF IntentAfter, Closed
    <2> QED
      BY <1>1, <2>1, SameStatus DEF IntentsAfter
  <1>3. CASE i # j
    BY <1>1, <1>3 DEF IntentsAfter
  <1> QED
    BY <1>2, <1>3

\* Settling finalizes the intent of its attempt only, no CANCELLED one, and gives a
\* FINALIZED one neither another status nor another sale.
LEMMA SettleSparesClosed ==
    ASSUME NEW at, NEW it, NEW a, NEW scope, it \in [Intent -> IntentRow],
           Settle(a, at, it, scope), NEW j \in Intent, Closed(it[j])
    PROVE  intents'[j] = it[j]
  <1> DEFINE i == at[a].intent
  <1>1. CASE intents' = it
    BY <1>1
  <1>2. ASSUME MaySettle(a, at, it), NEW s, intents' = IntentFinalized(it, i, s)
        PROVE  intents'[j] = it[j]
    <2>1. CASE i # j
      BY <1>2, <2>1 DEF IntentFinalized
    <2>2. CASE i = j
      <3>1. it[j].status = "FINALIZED" /\ it[j].sale # NoSale /\ it[j] \in IntentRow
        BY <1>2, <2>2 DEF MaySettle, Closed
      <3>2. [it[j] EXCEPT !.status = "FINALIZED", !.sale = it[j].sale] = it[j]
        BY <3>1 DEF IntentRow
      <3> QED
        BY <1>2, <2>2, <3>1, <3>2 DEF IntentFinalized
    <2> QED
      BY <2>1, <2>2
  <1>3. MaySettle(a, at, it) /\ Materialise(a, at, it, scope) =>
            \E s \in NewSale : intents' = IntentFinalized(it, i, s)
    BY DEF Materialise, Finalize
  <1>4. SettleExisting(a, at, it, SaleOf(a, at, it), scope) =>
            \/ intents' = it
            \/ intents' = IntentFinalized(it, i, SaleOf(a, at, it))
    BY DEF SettleExisting, Finalize
  <1> HIDE DEF i
  <1> QED
    BY <1>1, <1>2, <1>3, <1>4 DEF Settle

\* A verdict, and the settling it entails: confirmByMd5 and the webhook.
LEMMA ConfirmationSparesClosed ==
    ASSUME IInv, NEW a \in Registered, NEW v \in Verdict, NEW scope,
           Settle(a, AttemptsAfter(a, v), IntentsAfter(a, v), scope),
           NEW j \in Intent, Closed(intents[j])
    PROVE  intents'[j] = intents[j]
  <1>1. IntentsAfter(a, v)[j] = intents[j]
    BY VerdictSparesClosed
  <1>2. IntentsAfter(a, v) \in [Intent -> IntentRow]
    BY RecordVerdict DEF RowTypes
  <1> QED
    BY <1>1, <1>2, SettleSparesClosed

\* A CANCELLED intent without a sale is not the intent of any sale, so no new
\* attempt reopens it; a FINALIZED intent is never reopened.
LEMMA AddAttemptSparesClosed ==
    ASSUME IInv, NEW a \in Attempt, NEW i \in Intent, NEW s \in Sale, AddAttempt(a, i, s),
           NEW j \in Intent, Closed(intents[j]),
           intents[j].status = "CANCELLED" => intents[j].sale = NoSale
    PROVE  intents'[j] = intents[j]
  <1>1. intents \in [Intent -> IntentRow] /\ s # NoSale
    BY NullAssumption DEF IInv, TypeOK, Sale
  <1>2. EnsureIntent(i, a[1], s)
    BY DEF AddAttempt
  <1>3. CASE i # j
    BY <1>1, <1>2, <1>3 DEF EnsureIntent
  <1>4. CASE i = j
    <2>1. /\ intents[i].status = "FINALIZED"
          /\ intents' = [intents EXCEPT ![i].status = Reopened(intents[i].status)]
      BY <1>1, <1>2, <1>4 DEF EnsureIntent, IntentOfSale, Closed
    <2>2. Reopened(intents[i].status) = intents[i].status
      BY <2>1 DEF Reopened
    <2> QED
      BY <1>1, <2>1, <2>2, SameStatus
  <1> QED
    BY <1>3, <1>4

\* No step of anybody changes a FINALIZED intent, or a CANCELLED one that has no sale.
LEMMA StepSparesClosed ==
    ASSUME IInv, Next, NEW j \in Intent, Closed(intents[j]),
           intents[j].status = "CANCELLED" => intents[j].sale = NoSale
    PROVE  intents'[j] = intents[j]
  <1>1. intents \in [Intent -> IntentRow] /\ wire \in [Event -> Message \cup {NoMsg}]
    BY DEF IInv, TypeOK
  <1>2. ASSUME NEW a \in Attempt, NEW i \in Intent, InitiateCheckoutIntent(a, i)
        PROVE  intents'[j] = intents[j]
    BY <1>1, <1>2 DEF InitiateCheckoutIntent, Closed
  <1>3. ASSUME NEW a \in Attempt, NEW i \in Intent, NEW s \in Sale, RegisterAttempt(a, i, s)
        PROVE  intents'[j] = intents[j]
    BY <1>3, AddAttemptSparesClosed DEF RegisterAttempt
  <1>4. ASSUME NEW a \in Attempt, NEW i \in Intent, NEW s \in Sale, GenerateForSale(a, i, s)
        PROVE  intents'[j] = intents[j]
    BY <1>4, AddAttemptSparesClosed DEF GenerateForSale
  <1>5. ASSUME NEW i \in Intent, Cancel(i) PROVE intents'[j] = intents[j]
    <2>1. CASE i = j
      BY <1>1, <1>5, <2>1, SameStatus DEF Cancel, Cancellable, Closed
    <2>2. CASE i # j
      BY <1>1, <1>5, <2>2 DEF Cancel
    <2> QED
      BY <2>1, <2>2
  <1>6. ASSUME NEW a \in Registered, CancelAttempt(a) PROVE intents'[j] = intents[j]
    BY <1>5, <1>6 DEF CancelAttempt, IInv, Linked, Registered
  <1>7. ASSUME NEW a \in Attempt, NEW v \in Verdict, NEW e \in Event \cup {NoEvent},
               ConfirmByMd5(a, v, e)
        PROVE  intents'[j] = intents[j]
    BY <1>7, ConfirmationSparesClosed DEF ConfirmByMd5
  <1>8. ASSUME NEW s \in Sale, \/ AssertFinalizeEligibility(s) \/ FinalizeSale(s)
                               \/ AbortFinalize(s) \/ ExecuteVoid(s)
        PROVE  intents'[j] = intents[j]
    BY <1>8 DEF AssertFinalizeEligibility, FinalizeSale, AbortFinalize, ExecuteVoid
  <1>9. CASE Cashier
    BY <1>2, <1>3, <1>4, <1>5, <1>6, <1>7, <1>8, <1>9
       DEF Cashier, CancelPaymentIntent, ApproveManualPaymentClaim
  <1>10. CASE Scheduler
    <2>1. ASSUME NEW a \in Attempt, NEW v \in Verdict, NEW e,
                 attempts[a].status \in ActiveStatus, RecordOutcome(a, v, e)
          PROVE  intents'[j] = intents[j]
      <3>1. a \in Registered
        BY <2>1 DEF Registered, ActiveStatus
      <3> QED
        BY <2>1, <3>1, VerdictSparesClosed DEF RecordOutcome
    <2>2. ASSUME NEW a \in Attempt, VisitCandidate(a) PROVE intents'[j] = intents[j]
      <3>1. ReconcileAttempt(a)
        BY <2>2 DEF VisitCandidate
      <3>2. "EXPIRED" \in Verdict /\ \A m \in Md5 : Verdicts(m) \subseteq Verdict
        BY DEF Verdicts, Verdict
      <3>3. a[2] \in Md5
        BY DEF Attempt
      <3> QED
        BY <2>1, <3>1, <3>2, <3>3 DEF ReconcileAttempt
    <2>3. ASSUME NEW batch \in SUBSET Active, StartTick(batch) PROVE intents'[j] = intents[j]
      BY <2>3 DEF StartTick
    <2> QED
      BY <1>10, <2>2, <2>3 DEF Scheduler
  <1>11. CASE World
    <2>1. ASSUME NEW e \in Event, DeliverWebhook(e) PROVE intents'[j] = intents[j]
      <3> DEFINE msg == wire[e]
      <3>1. msg \in Message /\ IngestWebhookEvent(msg)
        BY <1>1, <2>1 DEF DeliverWebhook
      <3> HIDE DEF msg
      <3>2. PICK a \in Targets(msg) :
               Settle(a, AttemptsAfter(a, Outcome(msg)), IntentsAfter(a, Outcome(msg)), msg.claim)
        BY <3>1 DEF IngestWebhookEvent
      <3>3. a \in Registered
        BY DEF Targets
      <3>4. Outcome(msg) \in Verdict
        BY <3>1 DEF Outcome, Verdict, Message
      <3> QED
        BY <3>2, <3>3, <3>4, ConfirmationSparesClosed
    <2>2. ASSUME \/ \E m \in Md5 : Pay(m)
                 \/ \E a \in Attempt : Expire(a)
                 \/ \E e \in Event : SendWebhook(e)
          PROVE  intents'[j] = intents[j]
      BY <2>2 DEF Pay, Expire, SendWebhook
    <2> QED
      BY <1>11, <2>1, <2>2 DEF World
  <1> QED
    BY <1>9, <1>10, <1>11 DEF Next

\* A checkout the cashier has cancelled is never sold, whatever is paid, delivered
\* or confirmed afterwards.
THEOREM CancelledNeverSells == Spec => CancelledCheckoutNeverSells
  <1> DEFINE Spared ==
        \A i \in Intent : intents[i].status = "CANCELLED" /\ intents[i].sale = NoSale =>
                              intents'[i] = intents[i]
  <1>1. IInv /\ [Next]_vars => [Spared]_vars
    <2> SUFFICES ASSUME IInv, Next PROVE Spared
      OBVIOUS
    <2> QED
      BY StepSparesClosed DEF Closed
  <1> QED
    BY <1>1, Invariance, PTL DEF Spec, CancelledCheckoutNeverSells

\* No step of anybody changes a sold KHQR sale: settling and the finalize command
\* write it only while it is PENDING, or with what it has, and a void needs cash.
LEMMA StepSparesSold ==
    ASSUME IInv, Next, NEW q \in Sale, sales[q].status = "FINALIZED", sales[q].method = "KHQR"
    PROVE  sales'[q] = sales[q]
  <1>1. sales \in [Sale -> SaleRow]
    BY DEF IInv, TypeOK
  <1>2. [sales[q] EXCEPT !.status = "FINALIZED"] = sales[q]
    BY <1>1 DEF SaleRow
  <1>3. ASSUME NEW at, NEW it, NEW a, NEW scope, Settle(a, at, it, scope)
        PROVE  sales'[q] = sales[q]
    <2>1. ASSUME NEW i, NEW s, NEW row, Finalize(at, it, i, s, row, scope), s # q
          PROVE  sales'[q] = sales[q]
      BY <1>1, <2>1 DEF Finalize
    <2>2. Materialise(a, at, it, scope) => sales'[q] = sales[q]
      BY <2>1 DEF Materialise
    <2>3. SettleExisting(a, at, it, SaleOf(a, at, it), scope) => sales'[q] = sales[q]
      BY <2>1 DEF SettleExisting
    <2> QED
      BY <1>3, <2>2, <2>3 DEF Settle
  <1>4. ASSUME NEW s \in Sale, FinalizeSale(s) PROVE sales'[q] = sales[q]
    BY <1>1, <1>2, <1>4 DEF FinalizeSale
  <1>5. ASSUME NEW s \in Sale, ExecuteVoid(s) PROVE sales'[q] = sales[q]
    BY <1>1, <1>5 DEF ExecuteVoid
  <1>6. ASSUME NEW a \in Attempt, NEW i \in Intent, NEW s \in Sale, GenerateForSale(a, i, s)
        PROVE  sales'[q] = sales[q]
    BY <1>1, <1>6 DEF GenerateForSale
  <1>10. ASSUME NEW s \in Sale, NEW b \in Branch, ApproveManualPaymentClaim(s, b)
         PROVE  sales'[q] = sales[q]
    BY <1>1, <1>10 DEF ApproveManualPaymentClaim
  <1>7. CASE Cashier
    BY <1>3, <1>4, <1>5, <1>6, <1>7, <1>10
       DEF Cashier, InitiateCheckoutIntent, RegisterAttempt, CancelPaymentIntent, CancelAttempt,
           Cancel, ConfirmByMd5, AssertFinalizeEligibility, AbortFinalize
  <1>8. CASE Scheduler
    BY <1>8 DEF Scheduler, StartTick, VisitCandidate
  <1>9. CASE World
    BY <1>3, <1>9 DEF World, Pay, Expire, SendWebhook, DeliverWebhook, IngestWebhookEvent
  <1> QED
    BY <1>7, <1>8, <1>9 DEF Next

\* A sold KHQR sale stays sold and keeps its md5, and a FINALIZED intent keeps its
\* status and its sale, whatever is confirmed, delivered or cancelled afterwards.
THEOREM FinalizedStays == Spec => FinalizedIsFinal
  <1> DEFINE Kept ==
        /\ \A s \in Sale : sales[s].status = "FINALIZED" /\ sales[s].method = "KHQR" =>
                              sales'[s] = sales[s]
        /\ \A i \in Intent : intents[i].status = "FINALIZED" => intents'[i] = intents[i]
  <1>1. IInv /\ [Next]_vars => [Kept]_vars
    <2> SUFFICES ASSUME IInv, Next PROVE Kept
      OBVIOUS
    <2>1. ASSUME NEW i \in Intent, intents[i].status = "FINALIZED"
          PROVE  intents'[i] = intents[i]
      <3>1. Closed(intents[i])
        BY <2>1, NullAssumption DEF Closed, IInv, Owned, Sale
      <3> QED
        BY <2>1, <3>1, StepSparesClosed
    <2> QED
      BY <2>1, StepSparesSold
  <1> QED
    BY <1>1, Invariance, PTL DEF Spec, FinalizedIsFinal
-----------------------------------------------------------------------------
(* Sales on a manager's word.  An approved claim excuses its own sale only *)
(* because no later step turns that sale into one of the KHQR lane.        *)

OnClaim(row) == /\ row.status = "FINALIZED" /\ row.method = "KHQR"
                /\ row.md5 = NoMd5 /\ row.origin = NoIntent

ClaimInv ==
    /\ \A s \in eligible : sales[s].status # "ABSENT"
    /\ \A s \in Sale : sales[s].claimed => OnClaim(sales[s])

\* What a row of v0_sales may become in one step of anybody.
RowStep(old, new) ==
    /\ old.status # "ABSENT" => new.status # "ABSENT"
    /\ new.claimed => old.claimed \/ OnClaim(new)

\* Settling writes no row as claimed that was not, and deletes none.
LEMMA SettleRowStep ==
    ASSUME sales \in [Sale -> SaleRow], NEW at, NEW it, NEW a, NEW scope,
           Settle(a, at, it, scope), NEW q \in Sale
    PROVE  RowStep(sales[q], sales'[q])
  <1>1. ASSUME NEW i, NEW s, NEW row, Finalize(at, it, i, s, row, scope),
               s = q => RowStep(sales[q], row)
        PROVE  RowStep(sales[q], sales'[q])
    BY <1>1 DEF Finalize, RowStep
  <1>2. CASE UNCHANGED sales
    BY <1>2 DEF RowStep
  <1>3. CASE Materialise(a, at, it, scope)
    <2> DEFINE row == [status |-> "FINALIZED", method |-> "KHQR", branch |-> a[1],
                       md5 |-> a[2], origin |-> at[a].intent, claimed |-> FALSE]
    <2>1. PICK s \in NewSale : Finalize(at, it, at[a].intent, s, row, scope)
      BY <1>3 DEF Materialise
    <2>2. RowStep(sales[q], row)
      BY DEF RowStep
    <2> HIDE DEF row
    <2> QED
      BY <1>1, <2>1, <2>2
  <1>4. ASSUME NEW s, SettleExisting(a, at, it, s, scope) PROVE RowStep(sales[q], sales'[q])
    <2> DEFINE row == [sales[s] EXCEPT !.status = "FINALIZED",
                                       !.md5 = IF @ = NoMd5 THEN a[2] ELSE @]
    <2>1. CASE Finalize(at, it, at[a].intent, s, row, scope)
      <3>1. s = q => RowStep(sales[q], row)
        BY DEF RowStep, SaleRow
      <3> HIDE DEF row
      <3> QED
        BY <1>1, <2>1, <3>1
    <2> QED
      BY <1>2, <1>4, <2>1 DEF SettleExisting
  <1> QED
    BY <1>2, <1>3, <1>4 DEF Settle

\* Nor does any other step but the approval of a claim.
LEMMA StepRows ==
    ASSUME IInv, Next, NEW q \in Sale
    PROVE  /\ RowStep(sales[q], sales'[q])
           /\ q \in eligible' => q \in eligible \/ sales[q].status # "ABSENT"
  <1> DEFINE Goal == /\ RowStep(sales[q], sales'[q])
                     /\ q \in eligible' => q \in eligible \/ sales[q].status # "ABSENT"
  <1> SUFFICES Goal
    OBVIOUS
  <1>1. sales \in [Sale -> SaleRow]
    BY DEF IInv, TypeOK
  <1>2. UNCHANGED sales /\ eligible' \subseteq eligible => Goal
    BY DEF RowStep
  <1>3. ASSUME NEW s \in Sale, AssertFinalizeEligibility(s) PROVE Goal
    BY <1>3 DEF AssertFinalizeEligibility, RowStep
  <1>4. ASSUME NEW s \in Sale, FinalizeSale(s) \/ ExecuteVoid(s) PROVE Goal
    <2>1. eligible' \subseteq eligible
      BY <1>4 DEF FinalizeSale, ExecuteVoid
    <2>2. sales'[q].status # "ABSENT" \/ sales'[q] = sales[q]
      BY <1>1, <1>4 DEF FinalizeSale, ExecuteVoid, SaleRow
    <2>3. sales'[q].claimed = sales[q].claimed
      BY <1>1, <1>4 DEF FinalizeSale, ExecuteVoid, SaleRow
    <2> QED
      BY <2>1, <2>2, <2>3 DEF RowStep
  <1>5. ASSUME NEW a \in Attempt, NEW i \in Intent, NEW s \in Sale, GenerateForSale(a, i, s)
        PROVE  Goal
    <2>1. sales'[q].status = sales[q].status /\ sales'[q].claimed = sales[q].claimed
      BY <1>1, <1>5 DEF GenerateForSale, SaleRow
    <2>2. UNCHANGED eligible
      BY <1>5 DEF GenerateForSale, AddAttempt
    <2> QED
      BY <2>1, <2>2 DEF RowStep
  <1>6. ASSUME NEW s \in Sale, NEW b \in Branch, ApproveManualPaymentClaim(s, b) PROVE Goal
    <2> DEFINE row == [status |-> "FINALIZED", method |-> "KHQR", branch |-> b,
                       md5 |-> NoMd5, origin |-> NoIntent, claimed |-> TRUE]
    <2>1. UNCHANGED eligible /\ (sales'[q] = sales[q] \/ sales'[q] = row)
      BY <1>1, <1>6 DEF ApproveManualPaymentClaim
    <2>2. RowStep(sales[q], row) /\ RowStep(sales[q], sales[q])
      BY DEF RowStep, OnClaim
    <2> HIDE DEF row
    <2> QED
      BY <2>1, <2>2
  <1>7. ASSUME NEW a, NEW at, NEW it, NEW scope, Settle(a, at, it, scope), UNCHANGED eligible
        PROVE  Goal
    BY <1>1, <1>7, SettleRowStep
  <1> HIDE DEF Goal
  <1>9. CASE Cashier
    BY <1>2, <1>3, <1>4, <1>5, <1>6, <1>7, <1>9
       DEF Cashier, InitiateCheckoutIntent, RegisterAttempt, CancelPaymentIntent, CancelAttempt,
           Cancel, ConfirmByMd5, AbortFinalize
  <1>10. CASE Scheduler
    BY <1>2, <1>10 DEF Scheduler, StartTick, VisitCandidate
  <1>11. CASE World
    BY <1>2, <1>7, <1>11 DEF World, Pay, Expire, SendWebhook, DeliverWebhook, IngestWebhookEvent
  <1> QED
    BY <1>9, <1>10, <1>11 DEF Next

\* A sale on a manager's word stays as it was made: no QR is ever put on it and no
\* checkout intent is ever sold by it, whatever attempts are registered against it.
THEOREM ClaimsStayApart == Spec => []ClaimInv
  <1>1. Init => ClaimInv
    <2> SUFFICES ASSUME Init PROVE ClaimInv
      OBVIOUS
    <2>1. eligible = {} /\ \A s \in Sale : ~sales[s].claimed
      BY DEF Init, NoSaleRow
    <2> QED
      BY <2>1 DEF ClaimInv
  <1>2. IInv /\ ClaimInv /\ [Next]_vars => ClaimInv'
    <2>1. ASSUME ClaimInv, UNCHANGED vars PROVE ClaimInv'
      BY <2>1 DEF vars, ClaimInv
    <2>2. ASSUME IInv, ClaimInv, Next PROVE ClaimInv'
      <3>1. ASSUME NEW s \in eligible' PROVE sales'[s].status # "ABSENT"
        <4>1. s \in Sale
          BY <2>2, <3>1, CashierKeeps, SchedulerKeeps, WorldKeeps DEF IInv, TypeOK, Next
        <4> QED
          BY <2>2, <3>1, <4>1, StepRows DEF ClaimInv, RowStep
      <3>2. ASSUME NEW s \in Sale, sales'[s].claimed PROVE OnClaim(sales'[s])
        <4>1. CASE sales[s].claimed
          <5>1. sales[s].status = "FINALIZED" /\ sales[s].method = "KHQR"
            BY <2>2, <4>1 DEF ClaimInv, OnClaim
          <5>2. sales'[s] = sales[s]
            BY <2>2, <5>1, StepSparesSold
          <5> QED
            BY <2>2, <4>1, <5>2 DEF ClaimInv
        <4>2. CASE ~sales[s].claimed
          BY <2>2, <3>2, <4>2, StepRows DEF RowStep
        <4> QED
          BY <4>1, <4>2
      <3> QED
        BY <3>1, <3>2 DEF ClaimInv
    <2> QED
      BY <2>1, <2>2
  <1> QED
    BY <1>1, <1>2, Invariance, PTL DEF Spec

-----------------------------------------------------------------------------
(* What stands behind a sale: the evidence.  Attempts, intents and sales   *)
(* are each paid only on a confirmation kept in the evidence, so the       *)
(* invariant follows the confirmation from the message that brings it to   *)
(* the sale it settles.                                                    *)

Confirmed(a, ev) == \E r \in ev : r.attempt = a /\ r.verdict = "CONFIRMED"

PaidStatus == {"PAID_CONFIRMED", "FINALIZED"}

\* A KHQR sale that is sold otherwise than on a manager's word, or that a finalize
\* command has been allowed to sell.
Sold(sl, el, s) ==
    sl[s].method = "KHQR" /\ ((sl[s].status = "FINALIZED" /\ ~sl[s].claimed) \/ s \in el)

EvidenceTrue ==
    \A r \in evidence : /\ r.attempt \in Registered
                        /\ r.verdict = "CONFIRMED" => ledger[r.attempt[2]] # "UNPAID"

WireTrue ==
    \A e \in Event : wire[e] # NoMsg /\ wire[e].verdict = "CONFIRMED" =>
                         ledger[wire[e].md5] # "UNPAID"

PaidAttemptProven ==
    \A a \in Attempt : attempts[a].status = "PAID_CONFIRMED" => Confirmed(a, evidence)

PaidIntentProven ==
    \A i \in Intent : intents[i].status \in PaidStatus =>
        \E a \in Attempt : attempts[a].intent = i /\ Confirmed(a, evidence)

SoldProven ==
    \A s \in Sale : Sold(sales, eligible, s) =>
        \E a \in Attempt : attempts[a].sale = s /\ Confirmed(a, evidence)

ProofInv == EvidenceTrue /\ WireTrue /\ PaidAttemptProven /\ PaidIntentProven /\ SoldProven

\* What a step may do to the rows the evidence is about.
AttemptsKept ==
    \A a \in Registered : /\ attempts'[a].status # "ABSENT"
                          /\ attempts'[a].intent = attempts[a].intent
                          /\ attempts[a].sale # NoSale => attempts'[a].sale = attempts[a].sale

AttemptsPaid ==
    \A a \in Attempt : attempts'[a].status = "PAID_CONFIRMED" =>
        attempts[a].status = "PAID_CONFIRMED" \/ Confirmed(a, evidence')

IntentsPaid ==
    \A i \in Intent : intents'[i].status \in PaidStatus =>
        \/ intents[i].status \in PaidStatus
        \/ \E a \in Attempt : attempts'[a].intent = i /\ Confirmed(a, evidence')

SalesPaid ==
    \A s \in Sale : Sold(sales', eligible', s) =>
        \/ Sold(sales, eligible, s)
        \/ \E a \in Attempt : attempts'[a].sale = s /\ Confirmed(a, evidence')

Witnessed ==
    /\ evidence \subseteq evidence'
    /\ \A r \in evidence' \ evidence :
          /\ r.attempt \in Registered
          /\ r.verdict = "CONFIRMED" => ledger[r.attempt[2]] # "UNPAID"

\* A step that keeps to these keeps the chain from the evidence to the sale.
LEMMA ChainKept ==
    ASSUME IInv, ProofInv, IInv', WireTrue',
           AttemptsKept, AttemptsPaid, IntentsPaid, SalesPaid, Witnessed,
           \A m \in Md5 : ledger[m] # "UNPAID" => ledger'[m] # "UNPAID"
    PROVE  ProofInv'
  <1>1. \A r \in evidence : r.attempt \in Attempt /\ r.attempt[2] \in Md5
    BY DEF IInv, TypeOK, Attempt
  <1>2. \A r \in evidence' : r.attempt \in Attempt /\ r.attempt[2] \in Md5
    BY DEF IInv, TypeOK, Attempt
  <1>3. EvidenceTrue'
    BY <1>1, <1>2 DEF ProofInv, EvidenceTrue, Witnessed, AttemptsKept, Registered
  <1>4. \A a \in Attempt : Confirmed(a, evidence) => Confirmed(a, evidence') /\ a \in Registered
    BY DEF Confirmed, Witnessed, ProofInv, EvidenceTrue
  <1>5. PaidAttemptProven'
    BY <1>4 DEF ProofInv, PaidAttemptProven, AttemptsPaid
  <1>6. PaidIntentProven'
    BY <1>4 DEF ProofInv, PaidIntentProven, IntentsPaid, AttemptsKept
  <1>7. SoldProven'
    <2>1. \A s \in Sale : s # NoSale
      BY NullAssumption DEF Sale
    <2> QED
      BY <1>4, <2>1 DEF ProofInv, SoldProven, SalesPaid, AttemptsKept
  <1> QED
    BY <1>3, <1>5, <1>6, <1>7 DEF ProofInv

\* The chain holds before the first request: nothing is paid and nothing sold.
LEMMA InitChain == Init => ProofInv
  <1> SUFFICES ASSUME Init PROVE ProofInv
    OBVIOUS
  <1>1. \A s \in Sale : ~Sold(sales, eligible, s)
    BY DEF Init, Sold, NoSaleRow
  <1>2. EvidenceTrue /\ WireTrue /\ PaidAttemptProven /\ PaidIntentProven
    BY DEF Init, EvidenceTrue, WireTrue, PaidAttemptProven, PaidIntentProven, PaidStatus
  <1> QED
    BY <1>1, <1>2 DEF ProofInv, SoldProven

-----------------------------------------------------------------------------
\* What recording a verdict does to attempts, intents and evidence: only a
\* confirmation pays, and a confirmation leaves its evidence.
LEMMA VerdictChain ==
    ASSUME IInv, NEW a \in Registered, NEW v \in Verdict, NEW e,
           evidence' = EvidenceAfter(a, e, v),
           v = "CONFIRMED" => ledger[a[2]] # "UNPAID"
    PROVE  LET at == AttemptsAfter(a, v)
               it == IntentsAfter(a, v)
           IN  /\ Witnessed
               /\ \A x \in Registered : /\ at[x].status # "ABSENT"
                                        /\ at[x].intent = attempts[x].intent
                                        /\ at[x].sale = attempts[x].sale
               /\ \A x \in Attempt : at[x].status = "PAID_CONFIRMED" =>
                     attempts[x].status = "PAID_CONFIRMED" \/ Confirmed(x, evidence')
               /\ \A i \in Intent : it[i].status \in PaidStatus =>
                     \/ intents[i].status \in PaidStatus
                     \/ \E x \in Attempt : at[x].intent = i /\ Confirmed(x, evidence')
  <1> DEFINE at == AttemptsAfter(a, v)
             it == IntentsAfter(a, v)
             i  == attempts[a].intent
  <1>1. /\ a \in Attempt /\ attempts \in [Attempt -> AttemptRow]
        /\ intents \in [Intent -> IntentRow] /\ i \in Intent
        /\ attempts[a].status \in AttemptStatus
    BY DEF IInv, TypeOK, Registered, Linked, AttemptRow
  <1>2. Witnessed
    BY DEF Witnessed, EvidenceAfter
  <1>3. v = "CONFIRMED" => Confirmed(a, evidence')
    <2> SUFFICES ASSUME v = "CONFIRMED" PROVE Confirmed(a, evidence')
      OBVIOUS
    <2>1. [attempt |-> a, event |-> e, verdict |-> v] \in evidence'
      BY DEF EvidenceAfter
    <2> QED
      BY <2>1 DEF Confirmed
  <1>4. AttemptAfter(attempts[a].status, v) \in AttemptStatus
    BY <1>1, AttemptAfterType
  <1>5. /\ AttemptAfter(attempts[a].status, v) = "PAID_CONFIRMED" =>
              attempts[a].status = "PAID_CONFIRMED" \/ v = "CONFIRMED"
        /\ IntentAfter(intents[i].status, v) \in PaidStatus =>
              intents[i].status \in PaidStatus \/ v = "CONFIRMED"
    BY DEF AttemptAfter, IntentAfter, PaidStatus
  <1>6. \A x \in Attempt : /\ at[x].intent = attempts[x].intent
                           /\ at[x].sale = attempts[x].sale
                           /\ at[x].status = IF x = a THEN AttemptAfter(attempts[a].status, v)
                                             ELSE attempts[x].status
    BY <1>1 DEF AttemptsAfter, AttemptRow
  <1>7. \A j \in Intent : it[j].status = IF j = i /\ attempts[a].status # "SUPERSEDED"
                                         THEN IntentAfter(intents[i].status, v)
                                         ELSE intents[j].status
    BY <1>1 DEF IntentsAfter, IntentRow
  <1> HIDE DEF at, it
  <1>8. \A x \in Registered : /\ at[x].status # "ABSENT"
                              /\ at[x].intent = attempts[x].intent
                              /\ at[x].sale = attempts[x].sale
    BY <1>4, <1>6 DEF Registered, AttemptStatus, ActiveStatus, TerminalStatus
  <1>9. \A x \in Attempt : at[x].status = "PAID_CONFIRMED" =>
            attempts[x].status = "PAID_CONFIRMED" \/ Confirmed(x, evidence')
    BY <1>3, <1>5, <1>6
  <1>10. \A j \in Intent : it[j].status \in PaidStatus =>
            \/ intents[j].status \in PaidStatus
            \/ \E x \in Attempt : at[x].intent = j /\ Confirmed(x, evidence')
    BY <1>1, <1>3, <1>5, <1>6, <1>7
  <1> QED
    BY <1>2, <1>8, <1>9, <1>10 DEF at, it

\* assignSaleToUnlinkedAttempts and markPaymentIntentFinalized: an attempt that has
\* a sale keeps it, and only the one intent is written.
LEMMA LinkChain ==
    ASSUME NEW at \in [Attempt -> AttemptRow], NEW it \in [Intent -> IntentRow],
           NEW i \in Intent, NEW s \in Sale, NEW x \in Attempt
    PROVE  LET at2 == AssignSale(at, i, s)
           IN  /\ at2[x].status = at[x].status
               /\ at2[x].intent = at[x].intent
               /\ at[x].sale # NoSale => at2[x].sale = at[x].sale
               /\ at[x].intent = i /\ at[x].sale \in {NoSale, s} => at2[x].sale = s
               /\ \A j \in Intent : j # i => IntentFinalized(it, i, s)[j] = it[j]
  <1>1. at[x] \in AttemptRow
    OBVIOUS
  <1>2. AssignSale(at, i, s)[x] = IF at[x].intent = i /\ at[x].sale = NoSale
                                  THEN [at[x] EXCEPT !.sale = s] ELSE at[x]
    BY DEF AssignSale
  <1>3. \A j \in Intent : j # i => IntentFinalized(it, i, s)[j] = it[j]
    BY DEF IntentFinalized
  <1> QED
    BY <1>1, <1>2, <1>3 DEF AttemptRow

\* Settling sells only the sale of a paid attempt, and links that attempt to it.
LEMMA SettleChain ==
    ASSUME NEW at, NEW it, NEW a \in Attempt, NEW scope,
           RowTypes(at, it), Linked(at, it), at[a].status # "ABSENT",
           sales \in [Sale -> SaleRow],
           Settle(a, at, it, scope)
    PROVE  /\ \A x \in Attempt : /\ attempts'[x].status = at[x].status
                                 /\ attempts'[x].intent = at[x].intent
                                 /\ at[x].sale # NoSale => attempts'[x].sale = at[x].sale
           /\ \A j \in Intent : \/ intents'[j] = it[j]
                                \/ j = at[a].intent /\ at[a].status = "PAID_CONFIRMED"
           /\ \A s \in Sale : \/ sales'[s] = sales[s]
                              \/ attempts'[a].sale = s /\ at[a].status = "PAID_CONFIRMED"
  <1> DEFINE Goal ==
        /\ \A x \in Attempt : /\ attempts'[x].status = at[x].status
                              /\ attempts'[x].intent = at[x].intent
                              /\ at[x].sale # NoSale => attempts'[x].sale = at[x].sale
        /\ \A j \in Intent : \/ intents'[j] = it[j]
                             \/ j = at[a].intent /\ at[a].status = "PAID_CONFIRMED"
        /\ \A s \in Sale : \/ sales'[s] = sales[s]
                           \/ attempts'[a].sale = s /\ at[a].status = "PAID_CONFIRMED"
  <1> SUFFICES Goal
    OBVIOUS
  <1>1. /\ at[a].intent \in Intent /\ it[at[a].intent].sale = at[a].sale
        /\ at[a].sale \in Sale \cup {NoSale}
        /\ at \in [Attempt -> AttemptRow] /\ it \in [Intent -> IntentRow]
    BY DEF Linked, RowTypes, AttemptRow
  <1>2. ASSUME NEW s \in Sale, at[a].sale \in {NoSale, s}, at[a].status = "PAID_CONFIRMED",
               attempts' = AssignSale(at, at[a].intent, s),
               intents' = IntentFinalized(it, at[a].intent, s),
               \A q \in Sale : q # s => sales'[q] = sales[q]
        PROVE  Goal
    <2>1. \A x \in Attempt :
             /\ attempts'[x].status = at[x].status
             /\ attempts'[x].intent = at[x].intent
             /\ at[x].sale # NoSale => attempts'[x].sale = at[x].sale
             /\ at[x].intent = at[a].intent /\ at[x].sale \in {NoSale, s} => attempts'[x].sale = s
             /\ \A j \in Intent : j # at[a].intent => intents'[j] = it[j]
      BY <1>1, <1>2, LinkChain
    <2> QED
      BY <1>2, <2>1
  <1>3. CASE attempts' = at /\ intents' = it /\ UNCHANGED <<sales, outbox>>
    BY <1>3
  <1>4. ASSUME NEW i, NEW s \in Sale, NEW row, Finalize(at, it, i, s, row, scope)
        PROVE  /\ attempts' = AssignSale(at, i, s)
               /\ intents' = IntentFinalized(it, i, s)
               /\ \A q \in Sale : q # s => sales'[q] = sales[q]
    BY <1>4 DEF Finalize
  <1>5. CASE MaySettle(a, at, it) /\ SaleOf(a, at, it) = NoSale /\ Materialise(a, at, it, scope)
    <2>1. at[a].sale = NoSale /\ at[a].status = "PAID_CONFIRMED"
      BY <1>5 DEF SaleOf, MaySettle
    <2>2. PICK s \in NewSale : \E row : Finalize(at, it, at[a].intent, s, row, scope)
      BY <1>5 DEF Materialise
    <2>3. s \in Sale
      BY DEF Sale
    <2> HIDE DEF Goal
    <2> QED
      BY <1>2, <1>4, <2>1, <2>2, <2>3
  <1>6. CASE /\ MaySettle(a, at, it) /\ SaleOf(a, at, it) # NoSale
             /\ SettleExisting(a, at, it, SaleOf(a, at, it), scope)
    <2>1. PICK s \in Sale : s = SaleOf(a, at, it) /\ at[a].sale = s /\ at[a].status = "PAID_CONFIRMED"
      BY <1>1, <1>6 DEF SaleOf, MaySettle
    <2>2. \/ attempts' = at /\ intents' = it /\ UNCHANGED <<sales, outbox>>
          \/ attempts' = at /\ intents' = IntentFinalized(it, at[a].intent, s) /\ UNCHANGED <<sales, outbox>>
          \/ \E row : Finalize(at, it, at[a].intent, s, row, scope)
      BY <1>6, <2>1 DEF SettleExisting
    <2>3. CASE /\ attempts' = at /\ intents' = IntentFinalized(it, at[a].intent, s)
               /\ UNCHANGED <<sales, outbox>>
      <3>1. \A j \in Intent : j # at[a].intent => intents'[j] = it[j]
        BY <1>1, <2>3, LinkChain
      <3> QED
        BY <2>1, <2>3, <3>1
    <2> HIDE DEF Goal
    <2> QED
      BY <1>2, <1>3, <1>4, <2>1, <2>2, <2>3
  <1> QED
    BY <1>3, <1>5, <1>6 DEF Settle

\* A verdict and the settling it entails: confirmByMd5 and the webhook.
LEMMA ConfirmationChain ==
    ASSUME IInv, ProofInv, IInv', NEW a \in Registered, NEW v \in Verdict, NEW e, NEW scope,
           Settle(a, AttemptsAfter(a, v), IntentsAfter(a, v), scope),
           evidence' = EvidenceAfter(a, e, v),
           v = "CONFIRMED" => ledger[a[2]] # "UNPAID",
           UNCHANGED <<queue, eligible, ledger, wire>>
    PROVE  ProofInv'
  <1> DEFINE at == AttemptsAfter(a, v)
             it == IntentsAfter(a, v)
  <1>1. /\ Witnessed
        /\ \A x \in Registered : /\ at[x].status # "ABSENT"
                                 /\ at[x].intent = attempts[x].intent
                                 /\ at[x].sale = attempts[x].sale
        /\ \A x \in Attempt : at[x].status = "PAID_CONFIRMED" =>
              attempts[x].status = "PAID_CONFIRMED" \/ Confirmed(x, evidence')
        /\ \A i \in Intent : it[i].status \in PaidStatus =>
              \/ intents[i].status \in PaidStatus
              \/ \E x \in Attempt : at[x].intent = i /\ Confirmed(x, evidence')
    BY VerdictChain
  <1>2. a \in Attempt /\ sales \in [Sale -> SaleRow] /\ RowTypes(at, it) /\ Linked(at, it)
    BY RecordVerdict DEF Registered, IInv, TypeOK
  <1> HIDE DEF at, it
  <1>3. /\ \A x \in Attempt : /\ attempts'[x].status = at[x].status
                              /\ attempts'[x].intent = at[x].intent
                              /\ at[x].sale # NoSale => attempts'[x].sale = at[x].sale
        /\ \A j \in Intent : \/ intents'[j] = it[j]
                             \/ j = at[a].intent /\ at[a].status = "PAID_CONFIRMED"
        /\ \A s \in Sale : \/ sales'[s] = sales[s]
                           \/ attempts'[a].sale = s /\ at[a].status = "PAID_CONFIRMED"
    <2>1. at[a].status # "ABSENT"
      BY <1>1
    <2>2. Settle(a, at, it, scope)
      BY DEF at, it
    <2> QED
      BY <1>2, <2>1, <2>2, SettleChain
  <1>4. at[a].status = "PAID_CONFIRMED" => Confirmed(a, evidence')
    <2>1. Confirmed(a, evidence) => Confirmed(a, evidence')
      BY <1>1 DEF Witnessed, Confirmed
    <2> QED
      BY <1>1, <1>2, <2>1 DEF ProofInv, PaidAttemptProven
  <1>5. Registered \subseteq Attempt
    BY DEF Registered
  <1>6. AttemptsKept
    BY <1>1, <1>3, <1>5 DEF AttemptsKept
  <1>7. AttemptsPaid
    BY <1>1, <1>3 DEF AttemptsPaid
  <1>8. IntentsPaid
    BY <1>1, <1>2, <1>3, <1>4 DEF IntentsPaid
  <1>9. SalesPaid
    BY <1>2, <1>3, <1>4 DEF SalesPaid, Sold
  <1>10. WireTrue'
    BY DEF ProofInv, WireTrue
  <1> QED
    BY <1>1, <1>6, <1>7, <1>8, <1>9, <1>10, ChainKept

\* A new attempt takes a place nothing was recorded of, and pays for nothing.
LEMMA AddAttemptChain ==
    ASSUME IInv, ProofInv, IInv', NEW a \in Attempt, NEW i \in Intent, NEW s \in Sale,
           AddAttempt(a, i, s) \/ UNCHANGED <<attempts, intents>>,
           UNCHANGED <<evidence, eligible, ledger, wire>>,
           \A q \in Sale : /\ sales'[q].status = sales[q].status
                           /\ sales'[q].method = sales[q].method
                           /\ sales'[q].claimed = sales[q].claimed
    PROVE  ProofInv'
  <1>1. attempts \in [Attempt -> AttemptRow] /\ intents \in [Intent -> IntentRow]
    BY DEF IInv, TypeOK
  <1>2. /\ \A x \in Registered : /\ attempts'[x].status # "ABSENT"
                                 /\ attempts'[x].intent = attempts[x].intent
                                 /\ attempts'[x].sale = attempts[x].sale
        /\ \A x \in Attempt : attempts'[x].status = "PAID_CONFIRMED" =>
                                 attempts[x].status = "PAID_CONFIRMED"
    <2>1. CASE AddAttempt(a, i, s)
      <3>1. \A x \in Attempt : x # a =>
              /\ \/ attempts'[x] = attempts[x]
                 \/ attempts'[x] = [attempts[x] EXCEPT !.status = "SUPERSEDED"]
              /\ attempts[x] \in AttemptRow
        BY <1>1, <2>1 DEF AddAttempt
      <3>2. \A x \in Attempt : x # a =>
              /\ attempts'[x].intent = attempts[x].intent
              /\ attempts'[x].sale = attempts[x].sale
              /\ attempts'[x].status \in {attempts[x].status, "SUPERSEDED"}
        BY ZenonT(40), <3>1 DEF AttemptRow
      <3>3. a \notin Registered /\ attempts'[a].status = "WAITING_FOR_PAYMENT"
        <4>1. a \notin Registered /\ attempts'[a] = NewAttempt(i, s)
          BY <2>1 DEF AddAttempt, CanRegister
        <4> QED
          BY <4>1 DEF NewAttempt
      <3> QED
        BY <3>2, <3>3 DEF Registered
    <2> QED
      BY <2>1 DEF Registered
  <1>3. \A j \in Intent : intents'[j].status \in PaidStatus => intents[j].status \in PaidStatus
    <2>1. CASE AddAttempt(a, i, s)
      <3>1. EnsureIntent(i, a[1], s)
        BY <2>1 DEF AddAttempt
      <3>2. \A j \in Intent : j # i => intents'[j] = intents[j]
        BY <1>1, <3>1 DEF EnsureIntent
      <3>3. intents'[i].status \in PaidStatus => intents[i].status \in PaidStatus
        <4>1. CASE intents' = [intents EXCEPT ![i].status = Reopened(@)]
          <5>1. intents'[i].status = Reopened(intents[i].status)
            BY <1>1, <4>1 DEF IntentRow
          <5> QED
            BY <5>1 DEF Reopened, PaidStatus
        <4>2. CASE intents' = [intents EXCEPT ![i] = [status |-> "WAITING_FOR_PAYMENT",
                                                      branch |-> a[1], sale |-> s]]
          BY <1>1, <4>2 DEF PaidStatus
        <4> QED
          BY <3>1, <4>1, <4>2 DEF EnsureIntent
      <3> QED
        BY <3>2, <3>3
    <2> QED
      BY <2>1
  <1>4. AttemptsKept /\ AttemptsPaid /\ IntentsPaid /\ Witnessed
    BY <1>2, <1>3 DEF AttemptsKept, AttemptsPaid, IntentsPaid, Witnessed
  <1>5. SalesPaid
    BY DEF SalesPaid, Sold
  <1>6. WireTrue'
    BY DEF ProofInv, WireTrue
  <1> QED
    BY <1>4, <1>5, <1>6, ChainKept

\* A cancellation pays for nothing and keeps what the evidence is about.
LEMMA CancelChain ==
    ASSUME IInv, ProofInv, IInv', NEW i \in Intent, Cancel(i)
    PROVE  ProofInv'
  <1>1. attempts \in [Attempt -> AttemptRow] /\ intents \in [Intent -> IntentRow]
    BY DEF IInv, TypeOK
  <1>2. UNCHANGED <<sales, evidence, eligible, ledger, wire>>
    BY DEF Cancel
  <1>3. \A x \in Attempt : /\ attempts'[x].intent = attempts[x].intent
                           /\ attempts'[x].sale = attempts[x].sale
                           /\ attempts'[x].status \in {attempts[x].status, "CANCELLED"}
    <2>1. \A x \in Attempt : /\ \/ attempts'[x] = attempts[x]
                                \/ attempts'[x] = [attempts[x] EXCEPT !.status = "CANCELLED"]
                             /\ attempts[x] \in AttemptRow
      BY <1>1 DEF Cancel
    <2> QED
      BY <2>1 DEF AttemptRow
  <1>4. \A j \in Intent : intents'[j].status \in {intents[j].status, "CANCELLED"}
    BY <1>1 DEF Cancel, IntentRow
  <1>5. AttemptsKept /\ AttemptsPaid /\ IntentsPaid /\ SalesPaid /\ Witnessed
    BY <1>2, <1>3, <1>4
       DEF AttemptsKept, AttemptsPaid, IntentsPaid, SalesPaid, Witnessed, Registered, PaidStatus
  <1>6. WireTrue'
    BY <1>2 DEF ProofInv, WireTrue
  <1> QED
    BY <1>2, <1>5, <1>6, ChainKept

\* What the provider answers from its books: a confirmation means a payment.
LEMMA AnswersAreTrue ==
    ASSUME NEW m, NEW v \in Verdicts(m), v = "CONFIRMED"
    PROVE  ledger[m] # "UNPAID"
  <1> SUFFICES ASSUME ledger[m] = "UNPAID" PROVE FALSE
    OBVIOUS
  <1>1. Verdicts(m) = {"UNPAID", "EXPIRED"}
    BY DEF Verdicts
  <1> QED
    BY <1>1

\* No command of the cashier or of the sale module sells without a confirmation:
\* a finalize command passes its check only on a paid attempt of the sale.
LEMMA CashierChain == IInv /\ ClaimInv /\ ProofInv /\ IInv' /\ Cashier => ProofInv'
  <1> SUFFICES ASSUME IInv, ClaimInv, ProofInv, IInv', Cashier PROVE ProofInv'
    OBVIOUS
  <1>1. /\ attempts \in [Attempt -> AttemptRow] /\ intents \in [Intent -> IntentRow]
        /\ sales \in [Sale -> SaleRow]
    BY DEF IInv, TypeOK
  <1>2. ASSUME NEW a \in Attempt, NEW i \in Intent, InitiateCheckoutIntent(a, i)
        PROVE  ProofInv'
    <2>1. UNCHANGED <<sales, evidence, eligible, ledger, wire>>
      BY <1>2 DEF InitiateCheckoutIntent
    <2>2. /\ a \notin Registered /\ attempts'[a].status = "WAITING_FOR_PAYMENT"
          /\ \A x \in Attempt : x # a => attempts'[x] = attempts[x]
          /\ intents'[i].status = "WAITING_FOR_PAYMENT"
          /\ \A j \in Intent : j # i => intents'[j] = intents[j]
      BY <1>1, <1>2 DEF InitiateCheckoutIntent, CanRegister, NewAttempt
    <2>3. AttemptsKept /\ AttemptsPaid /\ IntentsPaid /\ SalesPaid /\ Witnessed
      BY <2>1, <2>2
         DEF AttemptsKept, AttemptsPaid, IntentsPaid, SalesPaid, Witnessed, Registered, PaidStatus
    <2>4. WireTrue'
      BY <2>1 DEF ProofInv, WireTrue
    <2> QED
      BY <2>1, <2>3, <2>4, ChainKept
  <1>3. ASSUME NEW a \in Attempt, NEW i \in Intent, NEW s \in Sale, RegisterAttempt(a, i, s)
        PROVE  ProofInv'
    BY <1>3, AddAttemptChain DEF RegisterAttempt
  <1>4. ASSUME NEW a \in Attempt, NEW i \in Intent, NEW s \in Sale, GenerateForSale(a, i, s)
        PROVE  ProofInv'
    <2>1. \A q \in Sale : /\ sales'[q].status = sales[q].status
                          /\ sales'[q].method = sales[q].method
                          /\ sales'[q].claimed = sales[q].claimed
      BY <1>1, <1>4 DEF GenerateForSale, SaleRow
    <2> QED
      BY <1>4, <2>1, AddAttemptChain DEF GenerateForSale
  <1>5. ASSUME NEW i \in Intent, CancelPaymentIntent(i) PROVE ProofInv'
    BY <1>5, CancelChain DEF CancelPaymentIntent
  <1>6. ASSUME NEW a \in Registered, CancelAttempt(a) PROVE ProofInv'
    BY <1>6, CancelChain DEF CancelAttempt, IInv, Linked, Registered
  <1>7. ASSUME NEW a \in Attempt, NEW v \in Verdict, NEW e \in Event \cup {NoEvent},
               ConfirmByMd5(a, v, e)
        PROVE  ProofInv'
    <2>1. v = "CONFIRMED" => ledger[a[2]] # "UNPAID"
      BY <1>7, AnswersAreTrue DEF ConfirmByMd5
    <2> QED
      BY <1>7, <2>1, ConfirmationChain DEF ConfirmByMd5
  <1>8. ASSUME NEW s \in Sale, AssertFinalizeEligibility(s) PROVE ProofInv'
    <2>1. UNCHANGED <<attempts, intents, sales, evidence, ledger, wire>> /\ eligible' = eligible \cup {s}
      BY <1>8 DEF AssertFinalizeEligibility
    <2>2. sales[s].method = "KHQR" => \E a \in Attempt : attempts[a].sale = s /\ Confirmed(a, evidence)
      <3> SUFFICES ASSUME sales[s].method = "KHQR"
                   PROVE  \E a \in Attempt : attempts[a].sale = s /\ Confirmed(a, evidence)
        OBVIOUS
      <3>1. PICK m \in Md5 : Eligible(s, m)
        BY <1>8 DEF AssertFinalizeEligibility
      <3> DEFINE a == <<sales[s].branch, m>>
      <3>2. a \in Attempt /\ attempts[a].sale = s /\ attempts[a].status = "PAID_CONFIRMED"
        BY <3>1 DEF Eligible, Registered
      <3> QED
        BY <3>2 DEF ProofInv, PaidAttemptProven
    <2>3. AttemptsKept /\ AttemptsPaid /\ IntentsPaid /\ Witnessed
      BY <2>1 DEF AttemptsKept, AttemptsPaid, IntentsPaid, Witnessed, Registered
    <2>4. SalesPaid
      BY <2>1, <2>2 DEF SalesPaid, Sold
    <2>5. WireTrue'
      BY <2>1 DEF ProofInv, WireTrue
    <2> QED
      BY <2>1, <2>3, <2>4, <2>5, ChainKept
  <1>9. ASSUME NEW s \in Sale, FinalizeSale(s) \/ AbortFinalize(s) \/ ExecuteVoid(s) PROVE ProofInv'
    <2>1. UNCHANGED <<attempts, intents, evidence, ledger, wire>>
      BY <1>9 DEF FinalizeSale, AbortFinalize, ExecuteVoid
    <2>2. \A q \in Sale : Sold(sales', eligible', q) => Sold(sales, eligible, q)
      <3>1. CASE FinalizeSale(s)
        <4>1. /\ s \in eligible /\ eligible' = eligible \ {s}
              /\ \A q \in Sale : q # s => sales'[q] = sales[q]
              /\ sales'[s].method = sales[s].method
              /\ sales'[s].claimed = sales[s].claimed
          BY <1>1, <3>1 DEF FinalizeSale, SaleRow
        <4> QED
          BY <4>1 DEF Sold
      <3>2. CASE AbortFinalize(s)
        BY <3>2 DEF AbortFinalize, Sold
      <3>3. CASE ExecuteVoid(s)
        <4>1. /\ UNCHANGED eligible
              /\ \A q \in Sale : q # s => sales'[q] = sales[q]
              /\ sales'[s].method = sales[s].method /\ sales'[s].status = "VOIDED"
          BY <1>1, <3>3 DEF ExecuteVoid, SaleRow
        <4> QED
          BY <4>1 DEF Sold
      <3> QED
        BY <1>9, <3>1, <3>2, <3>3
    <2>3. AttemptsKept /\ AttemptsPaid /\ IntentsPaid /\ SalesPaid /\ Witnessed
      BY <2>1, <2>2 DEF AttemptsKept, AttemptsPaid, IntentsPaid, SalesPaid, Witnessed, Registered
    <2>4. WireTrue'
      BY <2>1 DEF ProofInv, WireTrue
    <2> QED
      BY <2>1, <2>3, <2>4, ChainKept
  <1>10. ASSUME NEW s \in Sale, NEW b \in Branch, ApproveManualPaymentClaim(s, b)
         PROVE  ProofInv'
    <2>1. UNCHANGED <<attempts, intents, evidence, eligible, ledger, wire>>
      BY <1>10 DEF ApproveManualPaymentClaim
    <2>2. sales'[s].claimed /\ \A q \in Sale : q # s => sales'[q] = sales[q]
      BY <1>1, <1>10 DEF ApproveManualPaymentClaim
    \* No finalize command can have been let through for a sale that did not exist.
    <2>3. s \notin eligible
      BY <1>10 DEF ApproveManualPaymentClaim, ClaimInv
    <2>4. \A q \in Sale : Sold(sales', eligible', q) => Sold(sales, eligible, q)
      BY <2>1, <2>2, <2>3 DEF Sold
    <2>5. AttemptsKept /\ AttemptsPaid /\ IntentsPaid /\ SalesPaid /\ Witnessed
      BY <2>1, <2>4 DEF AttemptsKept, AttemptsPaid, IntentsPaid, SalesPaid, Witnessed, Registered
    <2>6. WireTrue'
      BY <2>1 DEF ProofInv, WireTrue
    <2> QED
      BY <2>1, <2>5, <2>6, ChainKept
  <1> QED
    BY <1>2, <1>3, <1>4, <1>5, <1>6, <1>7, <1>8, <1>9, <1>10 DEF Cashier

\* A visit of the scheduler records what the provider's books say, and sells nothing.
LEMMA SchedulerChain == IInv /\ ProofInv /\ IInv' /\ Scheduler => ProofInv'
  <1> SUFFICES ASSUME IInv, ProofInv, IInv', Scheduler PROVE ProofInv'
    OBVIOUS
  <1>1. ASSUME UNCHANGED <<attempts, intents, sales, evidence, eligible, ledger, wire>>
        PROVE  ProofInv'
    BY <1>1 DEF ProofInv, EvidenceTrue, WireTrue, PaidAttemptProven, PaidIntentProven, SoldProven,
                Registered, Confirmed, Sold
  <1>2. ASSUME NEW a \in Attempt, attempts[a].status \in ActiveStatus,
               NEW v \in Verdict, NEW e, RecordOutcome(a, v, e),
               v = "CONFIRMED" => ledger[a[2]] # "UNPAID",
               UNCHANGED <<sales, eligible, ledger, wire>>
        PROVE  ProofInv'
    <2>1. a \in Registered /\ Registered \subseteq Attempt
      BY <1>2 DEF Registered, ActiveStatus
    <2>2. /\ attempts' = AttemptsAfter(a, v) /\ intents' = IntentsAfter(a, v)
          /\ evidence' = EvidenceAfter(a, e, v)
      BY <1>2 DEF RecordOutcome
    <2>3. AttemptsKept /\ AttemptsPaid /\ IntentsPaid /\ Witnessed
      BY <1>2, <2>1, <2>2, VerdictChain DEF AttemptsKept, AttemptsPaid, IntentsPaid
    <2>4. SalesPaid
      BY <1>2 DEF SalesPaid, Sold
    <2>5. WireTrue'
      BY <1>2 DEF ProofInv, WireTrue
    <2> QED
      BY <1>2, <2>3, <2>4, <2>5, ChainKept
  <1>3. ASSUME NEW batch \in SUBSET Active, StartTick(batch) PROVE ProofInv'
    BY <1>1, <1>3 DEF StartTick
  <1>4. ASSUME NEW a \in Attempt, VisitCandidate(a) PROVE ProofInv'
    <2>1. ReconcileAttempt(a) /\ UNCHANGED <<sales, outbox, eligible, ledger, wire>>
      BY <1>4 DEF VisitCandidate
    <2>2. ASSUME NEW v \in Verdicts(a[2]) PROVE v \in Verdict
      BY DEF Verdicts, Verdict
    <2>3. "EXPIRED" \in Verdict
      BY DEF Verdict
    <2>4. CASE UNCHANGED <<attempts, intents, evidence>>
      BY <1>1, <2>1, <2>4
    <2>5. CASE attempts[a].status \in ActiveStatus /\ RecordOutcome(a, "EXPIRED", NoEvent)
      BY <1>2, <2>1, <2>3, <2>5
    <2>6. ASSUME attempts[a].status \in ActiveStatus,
                 NEW v \in Verdicts(a[2]), NEW e, RecordOutcome(a, v, e)
          PROVE  ProofInv'
      BY <1>2, <2>1, <2>2, <2>6, AnswersAreTrue
    <2> QED
      BY <2>1, <2>4, <2>5, <2>6 DEF ReconcileAttempt
  <1> QED
    BY <1>3, <1>4 DEF Scheduler

\* A message that says CONFIRMED was sent after the payment, and a payment is never
\* undone: however late it arrives, it tells the truth.
LEMMA WorldChain == IInv /\ ProofInv /\ IInv' /\ World => ProofInv'
  <1> SUFFICES ASSUME IInv, ProofInv, IInv', World PROVE ProofInv'
    OBVIOUS
  <1>1. /\ attempts \in [Attempt -> AttemptRow] /\ wire \in [Event -> Message \cup {NoMsg}]
        /\ ledger \in [Md5 -> {"UNPAID", "PAID", "WRONG"}]
    BY DEF IInv, TypeOK
  <1>2. ASSUME UNCHANGED <<intents, sales, evidence, eligible>>, WireTrue',
               \A x \in Attempt : /\ attempts'[x].status = attempts[x].status
                                  /\ attempts'[x].intent = attempts[x].intent
                                  /\ attempts'[x].sale = attempts[x].sale,
               \A m \in Md5 : ledger[m] # "UNPAID" => ledger'[m] # "UNPAID"
        PROVE  ProofInv'
    <2>1. AttemptsKept /\ AttemptsPaid /\ IntentsPaid /\ SalesPaid /\ Witnessed
      BY <1>2 DEF AttemptsKept, AttemptsPaid, IntentsPaid, SalesPaid, Witnessed, Registered
    <2> QED
      BY <1>2, <2>1, ChainKept
  <1>3. ASSUME NEW m \in Md5, Pay(m) PROVE ProofInv'
    <2>1. \A k \in Md5 : ledger[k] # "UNPAID" => ledger'[k] # "UNPAID"
      BY <1>1, <1>3 DEF Pay
    <2>2. WireTrue'
      <3>1. \A e \in Event : wire[e] # NoMsg => wire[e].md5 \in Md5
        BY <1>1 DEF Message
      <3> QED
        BY <1>3, <2>1, <3>1 DEF Pay, ProofInv, WireTrue
    <2> QED
      BY <1>2, <1>3, <2>1, <2>2 DEF Pay
  <1>4. ASSUME NEW a \in Attempt, Expire(a) PROVE ProofInv'
    <2>1. \A x \in Attempt : /\ attempts'[x].status = attempts[x].status
                             /\ attempts'[x].intent = attempts[x].intent
                             /\ attempts'[x].sale = attempts[x].sale
      BY <1>1, <1>4 DEF Expire, AttemptRow
    <2>2. WireTrue'
      BY <1>4 DEF Expire, ProofInv, WireTrue
    <2> QED
      BY <1>2, <1>4, <2>1, <2>2 DEF Expire
  <1>5. ASSUME NEW e \in Event, SendWebhook(e) PROVE ProofInv'
    <2> DEFINE m == EventMd5[e]
    <2>1. PICK v \in Verdicts(m), claim \in Branch \cup {UnknownBranch}, id \in {e, NoEvent} :
             wire' = [wire EXCEPT ![e] =
                        [md5 |-> m, claim |-> claim, verdict |-> v,
                         exact |-> v = "CONFIRMED" /\ ledger[m] = "PAID", id |-> id]]
      BY <1>5 DEF SendWebhook
    <2>2. UNCHANGED <<attempts, intents, sales, evidence, eligible, ledger>>
      BY <1>5 DEF SendWebhook
    <2>3. v = "CONFIRMED" => ledger[m] # "UNPAID"
      BY AnswersAreTrue
    <2>4. /\ wire'[e].md5 = m /\ wire'[e].verdict = v
          /\ \A f \in Event : f # e => wire'[f] = wire[f]
      BY <1>1, <2>1
    <2>5. WireTrue'
      BY <2>2, <2>3, <2>4 DEF ProofInv, WireTrue
    <2> QED
      BY <1>2, <2>2, <2>5
  <1>6. ASSUME NEW e \in Event, DeliverWebhook(e) PROVE ProofInv'
    <2>1. PICK msg \in Message : msg = wire[e] /\ wire[e] # NoMsg /\ IngestWebhookEvent(msg)
      BY <1>1, <1>6 DEF DeliverWebhook
    <2>2. PICK a \in Targets(msg) :
             /\ Settle(a, AttemptsAfter(a, Outcome(msg)), IntentsAfter(a, Outcome(msg)), msg.claim)
             /\ evidence' = EvidenceAfter(a, msg.id, Outcome(msg))
             /\ UNCHANGED <<queue, eligible, ledger, wire>>
      BY <2>1 DEF IngestWebhookEvent
    <2>3. a \in Registered /\ a[2] = msg.md5
      BY DEF Targets
    <2>4. Outcome(msg) \in Verdict /\ (Outcome(msg) = "CONFIRMED" => msg.verdict = "CONFIRMED")
      BY <2>1 DEF Outcome, Verdict, Message
    <2>5. Outcome(msg) = "CONFIRMED" => ledger[a[2]] # "UNPAID"
      BY <2>1, <2>3, <2>4 DEF ProofInv, WireTrue
    <2> QED
      BY <2>2, <2>3, <2>4, <2>5, ConfirmationChain
  <1> QED
    BY <1>3, <1>4, <1>5, <1>6 DEF World

\* The chain from the evidence to the sale holds of every behaviour.
THEOREM ChainHolds == Spec => []ProofInv
  <1>1. IInv /\ ClaimInv /\ ProofInv /\ IInv' /\ [Next]_vars => ProofInv'
    <2>1. ASSUME ProofInv, UNCHANGED vars PROVE ProofInv'
      BY <2>1 DEF vars, ProofInv, EvidenceTrue, WireTrue, PaidAttemptProven, PaidIntentProven,
                  SoldProven, Registered, Confirmed, Sold
    <2> QED
      BY <2>1, CashierChain, SchedulerChain, WorldChain DEF Next
  <1> QED
    BY <1>1, InitChain, Invariance, ClaimsStayApart, PTL DEF Spec

\* A KHQR sale is sold, and a finalize command let through to sell one, only on the
\* recorded confirmation of an attempt of that very sale that was paid; or else a
\* manager has approved a claim that names the sale, which then has no QR and settles
\* no checkout.
THEOREM SalesAreBacked == Spec => []SaleBackedByProof
  <1>1. ProofInv /\ ClaimInv => SaleBackedByProof
    <2> SUFFICES ASSUME ProofInv, ClaimInv, NEW s \in Sale
                 PROVE  /\ Sold(sales, eligible, s) => Proven(s)
                        /\ sales[s].claimed => sales[s].md5 = NoMd5 /\ sales[s].origin = NoIntent
      BY DEF SaleBackedByProof, Sold
    <2>1. Sold(sales, eligible, s) => Proven(s)
      BY DEF ProofInv, SoldProven, Confirmed, EvidenceTrue, Proven
    <2> QED
      BY <2>1 DEF ClaimInv, OnClaim
  <1> QED
    BY <1>1, ChainHolds, ClaimsStayApart, PTL

\* A paid intent has a recorded confirmation of one of its own attempts.
THEOREM PaidIntentsProven == Spec => []PaidIntentHasProof
  <1>1. ProofInv => PaidIntentHasProof
    BY DEF ProofInv, PaidIntentProven, PaidStatus, Confirmed, PaidIntentHasProof
  <1> QED
    BY <1>1, ChainHolds, PTL

-----------------------------------------------------------------------------
(* The announcement of a sale.  The two lanes write the same sale, so that *)
(* the KHQR lane says nothing twice only because a sale that is neither    *)
(* sold nor voided has no SALE_FINALIZED row of either lane yet.           *)

SoldStatus == {"FINALIZED", "VOIDED"}

AnnounceInv ==
    /\ \A s \in Sale : sales[s].status \in SoldStatus <=> \E r \in outbox : r.sale = s
    /\ \A r1, r2 \in outbox :
          r1.sale = r2.sale /\ r1.lane = "khqr" /\ r2.lane = "khqr" => r1 = r2

\* A step that leaves the outbox, and what is sold, alone.
LEMMA AnnounceKept ==
    ASSUME AnnounceInv, UNCHANGED outbox,
           \A s \in Sale : sales'[s].status \in SoldStatus <=> sales[s].status \in SoldStatus
    PROVE  AnnounceInv'
  BY DEF AnnounceInv

\* Settling announces a sale as it sells it, and only then.
LEMMA SettleAnnounces ==
    ASSUME IInv, AnnounceInv, NEW a \in Registered, NEW v \in Verdict, NEW scope,
           Settle(a, AttemptsAfter(a, v), IntentsAfter(a, v), scope)
    PROVE  AnnounceInv'
  <1> DEFINE at == AttemptsAfter(a, v)
             it == IntentsAfter(a, v)
  <1>1. sales \in [Sale -> SaleRow] /\ a \in Attempt
    BY DEF IInv, TypeOK, Registered
  <1>2. RowTypes(at, it) /\ Linked(at, it)
    BY RecordVerdict
  <1>3. at[a].sale \in Sale \cup {NoSale} /\ (at[a].sale = NoSale => it[at[a].intent].sale \in Sale \cup {NoSale})
    <2>1. /\ at[a] \in AttemptRow /\ it \in [Intent -> IntentRow]
          /\ at[a].intent \in Intent \cup {NoIntent}
      BY <1>1, <1>2 DEF RowTypes, AttemptRow
    <2>2. at[a].intent \in Intent
      <3>1. attempts[a].intent \in Intent
        BY DEF IInv, Linked, Registered
      <3>2. at[a].intent = attempts[a].intent
        <4>1. attempts[a] \in AttemptRow
          BY <1>1 DEF IInv, TypeOK
        <4> QED
          BY <1>1, <4>1 DEF AttemptsAfter, AttemptRow, IInv, TypeOK
      <3> QED
        BY <3>1, <3>2
    <2>3. it[at[a].intent] \in IntentRow
      BY <2>1, <2>2
    <2> QED
      BY <2>1, <2>3 DEF AttemptRow, IntentRow
  <1>4. ASSUME NEW s \in Sale, NEW row, row.status = "FINALIZED",
               sales[s].status \notin SoldStatus, Finalize(at, it, at[a].intent, s, row, scope)
        PROVE  AnnounceInv'
    <2> DEFINE new == [sale |-> s, branch |-> scope, lane |-> "khqr"]
    <2>1. /\ sales'[s].status = "FINALIZED" /\ \A q \in Sale : q # s => sales'[q] = sales[q]
          /\ outbox' = outbox \cup {new}
      BY <1>1, <1>4 DEF Finalize
    <2>2. \A r \in outbox : r.sale # s
      BY <1>4 DEF AnnounceInv, SoldStatus
    <2>3. new.sale = s
      OBVIOUS
    <2> HIDE DEF new
    <2> QED
      BY <2>1, <2>2, <2>3 DEF AnnounceInv, SoldStatus
  <1>5. CASE Materialise(a, at, it, scope)
    <2>1. PICK s \in NewSale :
             /\ sales[s].status = "ABSENT"
             /\ Finalize(at, it, at[a].intent, s,
                         [status |-> "FINALIZED", method |-> "KHQR",
                          branch |-> a[1], md5 |-> a[2], origin |-> at[a].intent,
                          claimed |-> FALSE], scope)
      BY <1>5 DEF Materialise
    <2>2. s \in Sale /\ sales[s].status \notin SoldStatus
      BY <2>1 DEF Sale, SoldStatus
    <2> HIDE DEF at, it
    <2> QED
      BY <1>4, <2>1, <2>2
  <1>6. ASSUME SaleOf(a, at, it) # NoSale,
               SettleExisting(a, at, it, SaleOf(a, at, it), scope)
        PROVE  AnnounceInv'
    <2>1. PICK s \in Sale : s = SaleOf(a, at, it)
      BY <1>3, <1>6 DEF SaleOf
    <2>2. CASE UNCHANGED <<sales, outbox>>
      BY <2>2, AnnounceKept
    <2>3. ASSUME sales[s].status = "PENDING",
                 Finalize(at, it, at[a].intent, s,
                          [sales[s] EXCEPT !.status = "FINALIZED",
                                           !.md5 = IF @ = NoMd5 THEN a[2] ELSE @], scope)
          PROVE  AnnounceInv'
      <3> DEFINE row == [sales[s] EXCEPT !.status = "FINALIZED",
                            !.md5 = IF @ = NoMd5 THEN a[2] ELSE @]
      <3>1. row.status = "FINALIZED"
        <4>1. sales[s] \in SaleRow
          BY <1>1
        <4> QED
          BY <4>1 DEF SaleRow
      <3>2. sales[s].status \notin SoldStatus
        BY <2>3 DEF SoldStatus
      <3>3. Finalize(at, it, at[a].intent, s, row, scope)
        BY <2>3
      <3> HIDE DEF at, it, row
      <3> QED
        BY <1>4, <3>1, <3>2, <3>3
    <2> HIDE DEF at, it
    <2> QED
      BY <1>6, <2>1, <2>2, <2>3 DEF SettleExisting
  <1>7. CASE UNCHANGED <<sales, outbox>>
    BY <1>7, AnnounceKept
  <1> HIDE DEF at, it
  <1>8. Settle(a, at, it, scope)
    BY DEF at, it
  <1> QED
    BY <1>5, <1>6, <1>7, <1>8 DEF Settle

\* No step of anybody sells a sale unannounced, or announces one that is not sold.
LEMMA StepAnnounces == IInv /\ AnnounceInv /\ Next => AnnounceInv'
  <1> SUFFICES ASSUME IInv, AnnounceInv, Next PROVE AnnounceInv'
    OBVIOUS
  <1>1. sales \in [Sale -> SaleRow] /\ wire \in [Event -> Message \cup {NoMsg}]
    BY DEF IInv, TypeOK
  <1>2. ASSUME UNCHANGED <<sales, outbox>> PROVE AnnounceInv'
    BY <1>2, AnnounceKept
  <1>3. ASSUME NEW a \in Attempt, NEW i \in Intent, NEW s \in Sale, GenerateForSale(a, i, s)
        PROVE  AnnounceInv'
    <2>1. UNCHANGED outbox
      BY <1>3 DEF GenerateForSale, AddAttempt
    <2>2. \A q \in Sale : sales'[q].status = sales[q].status
      BY <1>1, <1>3 DEF GenerateForSale, SaleRow
    <2> QED
      BY <2>1, <2>2, AnnounceKept
  <1>4. ASSUME NEW a \in Attempt, NEW v \in Verdict, NEW e, ConfirmByMd5(a, v, e)
        PROVE  AnnounceInv'
    BY <1>4, SettleAnnounces DEF ConfirmByMd5
  <1>5. ASSUME NEW s \in Sale, FinalizeSale(s) PROVE AnnounceInv'
    <2> DEFINE new == [sale |-> s, branch |-> sales[s].branch, lane |-> "manual"]
    <2>1. /\ sales'[s].status = "FINALIZED" /\ \A q \in Sale : q # s => sales'[q] = sales[q]
          /\ outbox' = outbox \cup {new}
      BY <1>1, <1>5 DEF FinalizeSale, SaleRow
    <2>2. new.sale = s /\ new.lane = "manual"
      OBVIOUS
    <2> HIDE DEF new
    <2> QED
      BY <2>1, <2>2 DEF AnnounceInv, SoldStatus
  <1>6. ASSUME NEW s \in Sale, ExecuteVoid(s) PROVE AnnounceInv'
    <2>1. /\ sales[s].status \in SoldStatus /\ sales'[s].status \in SoldStatus
          /\ \A q \in Sale : q # s => sales'[q] = sales[q]
          /\ UNCHANGED outbox
      BY <1>1, <1>6 DEF ExecuteVoid, SaleRow, SoldStatus
    <2> QED
      BY <2>1, AnnounceKept
  <1>10. ASSUME NEW s \in Sale, NEW b \in Branch, ApproveManualPaymentClaim(s, b)
         PROVE  AnnounceInv'
    <2> DEFINE new == [sale |-> s, branch |-> b, lane |-> "manual"]
    <2>1. /\ sales'[s].status = "FINALIZED" /\ \A q \in Sale : q # s => sales'[q] = sales[q]
          /\ outbox' = outbox \cup {new}
      BY <1>1, <1>10 DEF ApproveManualPaymentClaim
    <2>2. new.sale = s /\ new.lane = "manual"
      OBVIOUS
    <2> HIDE DEF new
    <2> QED
      BY <2>1, <2>2 DEF AnnounceInv, SoldStatus
  <1>7. CASE Cashier
    BY <1>2, <1>3, <1>4, <1>5, <1>6, <1>7, <1>10
       DEF Cashier, InitiateCheckoutIntent, RegisterAttempt, CancelPaymentIntent, CancelAttempt,
           Cancel, AssertFinalizeEligibility, AbortFinalize
  <1>8. CASE Scheduler
    BY <1>2, <1>8 DEF Scheduler, StartTick, VisitCandidate
  <1>9. CASE World
    <2>1. ASSUME NEW e \in Event, DeliverWebhook(e) PROVE AnnounceInv'
      <3>1. PICK msg \in Message : IngestWebhookEvent(msg)
        BY <1>1, <2>1 DEF DeliverWebhook
      <3>2. PICK a \in Targets(msg) :
               Settle(a, AttemptsAfter(a, Outcome(msg)), IntentsAfter(a, Outcome(msg)), msg.claim)
        BY <3>1 DEF IngestWebhookEvent
      <3>3. a \in Registered /\ Outcome(msg) \in Verdict
        BY <3>1 DEF Targets, Outcome, Verdict, Message
      <3> QED
        BY <3>2, <3>3, SettleAnnounces
    <2> QED
      BY <1>2, <1>9, <2>1 DEF World, Pay, Expire, SendWebhook
  <1> QED
    BY <1>7, <1>8, <1>9 DEF Next

\* A sale is sold exactly when it is announced, and the KHQR lane, whose webhook,
\* confirm command and scheduler race each other, announces it at most once.
THEOREM SalesAnnounced == Spec => []SoldIffAnnounced
  <1>1. Init => AnnounceInv
    <2> SUFFICES ASSUME Init PROVE AnnounceInv
      OBVIOUS
    <2>1. \A s \in Sale : sales[s].status \notin SoldStatus
      BY DEF Init, NoSaleRow, SoldStatus
    <2>2. outbox = {}
      BY DEF Init
    <2> QED
      BY <2>1, <2>2 DEF AnnounceInv
  <1>2. IInv /\ AnnounceInv /\ [Next]_vars => AnnounceInv'
    <2>1. ASSUME AnnounceInv, UNCHANGED vars PROVE AnnounceInv'
      BY <2>1 DEF vars, AnnounceInv
    <2> QED
      BY <2>1, StepAnnounces
  <1>3. AnnounceInv => SoldIffAnnounced
    <2> SUFFICES ASSUME AnnounceInv, NEW s \in Sale
                 PROVE  /\ sales[s].status \in {"FINALIZED", "VOIDED"} <=> Announced(s) # {}
                        /\ Cardinality({r \in Announced(s) : r.lane = "khqr"}) <= 1
      BY DEF SoldIffAnnounced
    <2>1. sales[s].status \in {"FINALIZED", "VOIDED"} <=> Announced(s) # {}
      BY DEF AnnounceInv, Announced, SoldStatus
    <2> DEFINE K == {r \in Announced(s) : r.lane = "khqr"}
    <2>2. K = {} \/ \E r : K = {r}
      BY DEF AnnounceInv, Announced
    <2>3. Cardinality(K) \in {0, 1}
      BY <2>2, FS_EmptySet, FS_Singleton
    <2> QED
      BY <2>1, <2>3
  <1> QED
    BY <1>1, <1>2, <1>3, Invariance, PTL DEF Spec

-----------------------------------------------------------------------------
\* A visit reads the attempt again under its lock: of one that has reached a terminal
\* status since the list was read, it writes nothing.
THEOREM VisitsOverturnNothing == Spec => SchedulerNeverOverturns
  <1> DEFINE Spared ==
        \A a \in Attempt : a \in queue \ queue' /\ attempts[a].status \in TerminalStatus =>
                               attempts'[a] = attempts[a]
  <1>1. IInv /\ [Next]_vars => [Spared]_vars
    <2> SUFFICES ASSUME Next, NEW a \in Attempt,
                        a \in queue \ queue', attempts[a].status \in TerminalStatus
                 PROVE  attempts'[a] = attempts[a]
      OBVIOUS
    <2>1. ASSUME NEW at, NEW it, NEW x, NEW scope, Settle(x, at, it, scope),
                 UNCHANGED <<queue, eligible, ledger, wire>>
          PROVE  FALSE
      BY <2>1
    <2>2. ~Cashier
      BY DEF Cashier, InitiateCheckoutIntent, RegisterAttempt, GenerateForSale,
             CancelPaymentIntent, CancelAttempt, Cancel, ConfirmByMd5,
             AssertFinalizeEligibility, FinalizeSale, AbortFinalize, ExecuteVoid,
             ApproveManualPaymentClaim
    <2>3. ~World
      BY DEF World, Pay, Expire, SendWebhook, DeliverWebhook, IngestWebhookEvent
    <2>4. \A batch \in SUBSET Active : ~StartTick(batch)
      BY DEF StartTick
    <2>5. VisitCandidate(a)
      BY <2>2, <2>3, <2>4 DEF Next, Scheduler, VisitCandidate
    <2>6. attempts[a].status \notin ActiveStatus
      BY DEF TerminalStatus, ActiveStatus
    <2> QED
      BY <2>5, <2>6 DEF VisitCandidate, ReconcileAttempt
  <1> QED
    BY <1>1, Invariance, PTL DEF Spec, SchedulerNeverOverturns
=============================================================================
