----------------------------- MODULE Trade_proofs -----------------------------
(***************************************************************************)
(* Proofs about what a tenant sells.  Each component of Trade keeps an     *)
(* invariant of its own over its own variables; a step of Trade is a step  *)
(* of one of them and a stutter of the others.                             *)
(***************************************************************************)
EXTENDS Trade, Aggregates, TLAPS

-----------------------------------------------------------------------------
(***************************************************************************)
(* Discounts.  An update is taken up on a rule that is not in force, and   *)
(* Slip names those that come into force before it is written.             *)
(***************************************************************************)
EditRow == [step : {"create", "update"}, of : Rule, to : Definition]

Settled == \A r \in Rule : InFlight(r) /\ r \in ListActiveRulesAt(clock) => r \in slipped

\* The rule that an update is for was there when it was read.
EditFits(e) == e # NoEdit /\ e.step = "update" => rules[e.of] \in RuleRow

DiscountInv ==
    /\ rules \in [Rule -> RuleRow \cup {NoRule}]
    /\ onMenu \subseteq MenuItem /\ clock \in Time /\ slipped \subseteq Rule
    /\ edits \in [Marketer -> EditRow \cup {NoEdit}]
    /\ \A m \in Marketer : EditFits(edits[m])
    /\ Settled

LEMMA RulesApart ==
    /\ NoRule \notin RuleRow /\ NoEdit \notin EditRow
    /\ \A row \in RuleRow \cup {NoRule} : row.status # "NONE" => row \in RuleRow
  BY DEF NoRule, RuleRow, NoEdit, EditRow

LEMMA RuleTyped == ASSUME DiscountInv, NEW r \in Rule PROVE rules[r] \in RuleRow \cup {NoRule}
  BY DEF DiscountInv

LEMMA EditTyped == ASSUME DiscountInv, NEW m \in Marketer PROVE EditFits(edits[m])
  BY DEF DiscountInv

\* A row may be written again below the bound.
LEMMA RewriteFits ==
    ASSUME NEW row \in RuleRow, row.written < MaxWrites
    PROVE  /\ \A status \in {"ACTIVE", "INACTIVE", "ARCHIVED"} :
                  [row EXCEPT !.status = status, !.written = @ + 1] \in RuleRow
           /\ \A d \in Definition :
                  [row EXCEPT !.definition = d, !.written = @ + 1] \in RuleRow
  <1>1. row.written \in 1 .. MaxWrites
    BY DEF RuleRow
  <1>2. row.written + 1 \in 1 .. MaxWrites
    BY <1>1, DiscountAssumption
  <1> QED BY <1>2 DEF RuleRow

\* Slip keeps what is offered settled, unless an edit is taken up on a rule in force.
LEMMA SlipSettles ==
    ASSUME Settled, Slip,
           \A r \in Rule : InFlight(r)' /\ (r \in ListActiveRulesAt(clock))' =>
               InFlight(r) \/ r \notin ListActiveRulesAt(clock)
    PROVE  Settled' /\ slipped' \subseteq Rule
  <1>1. ASSUME NEW r \in Rule, InFlight(r)', (r \in ListActiveRulesAt(clock))'
        PROVE  r \in slipped'
    <2>1. r \in slipped \/ r \notin ListActiveRulesAt(clock)
      BY <1>1 DEF Settled
    <2> QED BY <1>1, <2>1 DEF Slip
  <1>2. slipped' \subseteq Rule
    BY DEF Slip
  <1> QED BY <1>1, <1>2 DEF Settled

LEMMA TakeKeeps ==
    ASSUME DiscountInv, NEW m \in Marketer, NEW edit \in EditRow, Take(m, edit), EditFits(edit),
           edit.step = "update" => edit.of \notin ListActiveRulesAt(clock)
    PROVE  DiscountInv'
  <1>1. edits' = [edits EXCEPT ![m] = edit] /\ UNCHANGED <<rules, onMenu, clock>> /\ Slip
    BY DEF Take
  <1>2. edits' \in [Marketer -> EditRow \cup {NoEdit}]
        /\ \A n \in Marketer : edits'[n] = IF n = m THEN edit ELSE edits[n]
    BY <1>1 DEF DiscountInv
  <1>3. \A n \in Marketer : EditFits(edits'[n])
    BY <1>2 DEF DiscountInv
  <1>4. \A n \in Marketer : EditFits(edits[n])'
    BY <1>1, <1>3 DEF EditFits
  <1>5. (\A r \in Rule : (r \in ListActiveRulesAt(clock))' <=> r \in ListActiveRulesAt(clock))
    BY <1>1 DEF ListActiveRulesAt
  <1>6. \A r \in Rule : InFlight(r)' => InFlight(r) \/ (edit.step = "update" /\ edit.of = r)
    BY <1>2 DEF InFlight
  <1>7. Settled' /\ slipped' \subseteq Rule
    BY <1>1, <1>5, <1>6, SlipSettles DEF DiscountInv
  <1> QED BY <1>1, <1>2, <1>4, <1>7 DEF DiscountInv

\* An edit that ends and a rule that is written.
LEMMA DropKeeps ==
    ASSUME DiscountInv, NEW m \in Marketer, Drop(m),
           rules' \in [Rule -> RuleRow \cup {NoRule}],
           \A r \in Rule : rules[r] \in RuleRow => rules'[r] \in RuleRow
    PROVE  DiscountInv'
  <1>1. edits' = [edits EXCEPT ![m] = NoEdit] /\ UNCHANGED <<onMenu, clock>> /\ Slip
    BY DEF Drop
  <1>2. edits' \in [Marketer -> EditRow \cup {NoEdit}]
        /\ \A n \in Marketer : edits'[n] \in {edits[n], NoEdit}
    BY <1>1 DEF DiscountInv
  <1>3. ASSUME NEW n \in Marketer PROVE EditFits(edits[n])'
    <2>1. edits'[n] # NoEdit => edits'[n] = edits[n] /\ edits[n] \in EditRow
      BY <1>2 DEF DiscountInv
    <2>2. edits[n] \in EditRow => edits[n].of \in Rule
      BY DEF EditRow
    <2>3. EditFits(edits[n])
      BY DEF DiscountInv
    <2> QED BY <2>1, <2>2, <2>3 DEF EditFits
  <1>4. \A r \in Rule : InFlight(r)' => InFlight(r)
    BY <1>2 DEF InFlight, NoEdit
  <1>5. Settled' /\ slipped' \subseteq Rule
    BY <1>1, <1>4, SlipSettles DEF DiscountInv
  <1> QED BY <1>1, <1>2, <1>3, <1>5 DEF DiscountInv

LEMMA RuleCommandsKeep == ASSUME DiscountInv, RuleCommands PROVE DiscountInv'
  <1>1. ASSUME NEW m \in Marketer, NEW r \in Rule, NEW d \in Definition, NEW confirm \in BOOLEAN,
               CreateRule(m, r, d, confirm)
        PROVE  DiscountInv'
    <2> DEFINE edit == [step |-> "create", of |-> r, to |-> d]
    <2>1. edit \in EditRow /\ EditFits(edit) /\ edit.step = "create" /\ Take(m, edit)
      BY <1>1 DEF CreateRule, EditRow, EditFits
    <2> HIDE DEF edit
    <2> QED BY <2>1, TakeKeeps
  <1>2. ASSUME NEW m \in Marketer, NEW r \in Rule, NEW d \in Definition, NEW confirm \in BOOLEAN,
               UpdateRule(m, r, d, confirm)
        PROVE  DiscountInv'
    <2> DEFINE edit == [step |-> "update", of |-> r, to |-> d]
    <2>1. rules[r] \in RuleRow
      BY <1>2 DEF UpdateRule, DiscountInv
    <2>2. edit \in EditRow /\ EditFits(edit) /\ edit.of = r /\ Take(m, edit)
      BY <1>2, <2>1 DEF UpdateRule, EditRow, EditFits
    <2>3. r \notin ListActiveRulesAt(clock)
      BY <1>2 DEF UpdateRule, IsCurrentlyEligible, ListActiveRulesAt
    <2> HIDE DEF edit
    <2> QED BY <2>2, <2>3, TakeKeeps
  <1>3. ASSUME NEW r \in Rule, NEW status \in {"ACTIVE", "INACTIVE", "ARCHIVED"},
               NEW expected \in {{}} \cup {{n} : n \in 1 .. MaxWrites},
               UpdateRuleStatus(r, status, expected)
        PROVE  DiscountInv'
    <2>1. rules[r] \in RuleRow /\ rules[r].written < MaxWrites
      <3>1. rules[r] # NoRule /\ rules[r].written < MaxWrites
        BY Zenon, <1>3 DEF UpdateRuleStatus
      <3> QED BY Zenon, <3>1, RuleTyped
    <2> DEFINE row == [rules[r] EXCEPT !.status = status, !.written = @ + 1]
    <2>2. row \in RuleRow
      BY Zenon, <2>1, RewriteFits
    <2>3. rules' = [rules EXCEPT ![r] = row] /\ UNCHANGED <<onMenu, clock, edits>> /\ Slip
      BY <1>3, <2>1 DEF UpdateRuleStatus, DiscountInv
    <2> HIDE DEF row
    <2>4. rules' \in [Rule -> RuleRow \cup {NoRule}]
          /\ \A q \in Rule : rules[q] \in RuleRow => rules'[q] \in RuleRow
      BY <2>2, <2>3 DEF DiscountInv
    <2>5. ASSUME NEW n \in Marketer PROVE EditFits(edits[n])'
      BY <2>3, <2>4 DEF DiscountInv, EditFits, EditRow
    <2>6. \A q \in Rule : InFlight(q)' => InFlight(q)
      BY <2>3 DEF InFlight
    <2>7. Settled' /\ slipped' \subseteq Rule
      BY <2>3, <2>6, SlipSettles DEF DiscountInv
    <2> QED BY <2>3, <2>4, <2>5, <2>7 DEF DiscountInv
  <1> QED BY <1>1, <1>2, <1>3 DEF RuleCommands

LEMMA RuleWritesKeep ==
    ASSUME DiscountInv, NEW m \in Marketer,
           InsertRule(m) \/ UpdateRuleDefinition(m) \/ GiveUp(m)
    PROVE  DiscountInv'
  <1>1. CASE InsertRule(m)
    <2> PICK e \in EditRow : e = edits[m]
      BY <1>1 DEF InsertRule, DiscountInv, NoEdit
    <2> DEFINE row == [status |-> "INACTIVE", definition |-> e.to, written |-> 1]
    <2>1. row \in RuleRow /\ e.of \in Rule
      BY DiscountAssumption DEF EditRow, RuleRow
    <2>2. rules' = [rules EXCEPT ![e.of] = row] /\ Drop(m)
      BY <1>1 DEF InsertRule
    <2> HIDE DEF row
    <2>3. rules' \in [Rule -> RuleRow \cup {NoRule}]
          /\ \A q \in Rule : rules[q] \in RuleRow => rules'[q] \in RuleRow
      BY <2>1, <2>2 DEF DiscountInv
    <2> QED BY <2>2, <2>3, DropKeeps
  <1>2. CASE UpdateRuleDefinition(m)
    <2> PICK e \in EditRow : e = edits[m]
      BY <1>2 DEF UpdateRuleDefinition, DiscountInv, NoEdit
    <2>1. e.of \in Rule /\ e.to \in Definition /\ rules[e.of] \in RuleRow
          /\ rules[e.of].written < MaxWrites
      <3>1. e.of \in Rule /\ e.to \in Definition
        BY DEF EditRow
      <3>2. e.step = "update" /\ rules[e.of].written < MaxWrites
        BY Zenon, <1>2 DEF UpdateRuleDefinition
      <3>3. EditFits(e)
        BY Zenon, EditTyped
      <3> QED BY <3>1, <3>2, <3>3, RulesApart DEF EditFits
    <2> DEFINE row == [rules[e.of] EXCEPT !.definition = e.to, !.written = @ + 1]
    <2>2. row \in RuleRow
      BY Zenon, <2>1, RewriteFits
    <2>3. rules' = [rules EXCEPT ![e.of] = row] /\ Drop(m)
      BY <1>2, <2>1 DEF UpdateRuleDefinition, DiscountInv
    <2> HIDE DEF row
    <2>4. rules' \in [Rule -> RuleRow \cup {NoRule}]
          /\ \A q \in Rule : rules[q] \in RuleRow => rules'[q] \in RuleRow
      BY <2>1, <2>2, <2>3 DEF DiscountInv
    <2> QED BY <2>3, <2>4, DropKeeps
  <1>3. CASE GiveUp(m)
    BY <1>3, DropKeeps DEF GiveUp, DiscountInv
  <1> QED BY <1>1, <1>2, <1>3

LEMMA TickKeeps == ASSUME DiscountInv, Tick PROVE DiscountInv'
  <1>1. clock' \in Time /\ UNCHANGED <<rules, onMenu, edits>> /\ Slip
    BY DiscountAssumption DEF Tick, DiscountInv, Time
  <1>2. \A r \in Rule : InFlight(r)' => InFlight(r)
    BY <1>1 DEF InFlight
  <1>3. Settled' /\ slipped' \subseteq Rule
    BY <1>1, <1>2, SlipSettles DEF DiscountInv
  <1> QED BY <1>1, <1>3 DEF DiscountInv, EditFits

LEMMA DiscountKept == DiscountInv /\ [DiscountStep]_discountVars => DiscountInv'
  <1> SUFFICES ASSUME DiscountInv, [DiscountStep]_discountVars PROVE DiscountInv'
    OBVIOUS
  <1>1. CASE \E set \in SUBSET MenuItem : MenuChanges(set)
    BY <1>1 DEF MenuChanges, DiscountInv, EditFits, Settled, InFlight, ListActiveRulesAt
  <1>2. CASE UNCHANGED discountVars
    BY <1>2 DEF discountVars, DiscountInv, EditFits, Settled, InFlight, ListActiveRulesAt
  <1> QED BY <1>1, <1>2, RuleCommandsKeep, RuleWritesKeep, TickKeeps DEF DiscountStep

LEMMA DiscountFollows == DiscountInv => DiscountTypeOK /\ OfferedIsSettled
  <1> SUFFICES ASSUME DiscountInv PROVE DiscountTypeOK /\ OfferedIsSettled
    OBVIOUS
  <1>1. DiscountTypeOK
    BY DEF DiscountInv, DiscountTypeOK, EditRow
  <1>2. OfferedIsSettled
    BY DEF DiscountInv, Settled, OfferedIsSettled, ResolveEligibility, ListActiveRulesAt
  <1> QED BY <1>1, <1>2

-----------------------------------------------------------------------------
(***************************************************************************)
(* The stock catalogue.  A command that is under way when something is     *)
(* archived is told of it (overtaken), and so is one that starts while an  *)
(* archive of a category is between its statement and its commit.          *)
(***************************************************************************)
ItemRow == [status : CatalogStatus, category : Placement, level : Level, late : SUBSET Shelf]
LotRow == [status : CatalogStatus, of : Good, meta : Meta, late : BOOLEAN]

DetachOrder == [step : {"DETACH"}, of : Shelf, items : SUBSET Good]
InsertItemOrder == [step : {"INSERT ITEM"}, of : Good, category : Placement, level : Level]
PatchItemOrder == [step : {"CATEGORY", "PATCH ITEM"}, of : Good, patch : ItemPatch, read : ItemRow]
InsertBatchOrder == [step : {"INSERT BATCH"}, of : Batch, item : Good, meta : Meta]
PatchBatchOrder == [step : {"PATCH BATCH"}, of : Batch, patch : MetaPatch, read : Meta]
Order == DetachOrder \cup InsertItemOrder \cup PatchItemOrder
         \cup InsertBatchOrder \cup PatchBatchOrder

\* Categories that a command may write into its item: one that it was asked for, or the
\* one that it read.
AskedCategory(o) == IF o.step = "INSERT ITEM" THEN o.category ELSE UNION o.patch.category

\* What a command holds while others archive: an item and a batch that is there, an
\* archived category only if it has been overtaken.
OrderFits(o, told) ==
    /\ o \in PatchItemOrder => goods[o.of] \in ItemRow
    /\ o \in PatchBatchOrder => lots[o.of] \in LotRow /\ (wanted[o.of] # {} => o.of \in told)
    /\ o \in InsertItemOrder \/ (o \in PatchItemOrder /\ o.step = "PATCH ITEM") =>
           \A c \in AskedCategory(o) : shelves[c] = "ARCHIVED" => c \in told
    /\ o \in PatchItemOrder /\ o.patch.category = {} =>
           \A c \in o.read.category :
               shelves[c] = "ARCHIVED" => c \in told \/ c \in goods[o.of].late
    /\ o \in DetachOrder =>
           \A g \in Good : /\ g \in o.items => goods[g] \in ItemRow
                           /\ Stocked(g) /\ o.of \in goods[g].category
                                 => g \in o.items \/ o.of \in goods[g].late

\* A command is told of the categories whose archive is under way.
ToldOfArchive ==
    \A j, k \in Keeper :
        orders[k] \in DetachOrder /\ orders[j] \in Order \ DetachOrder =>
            orders[k].of \in overtaken[j]

ItemHolds(g) ==
    Stocked(g) =>
        /\ wanted[g] = {goods[g].status}
        /\ \A c \in goods[g].category : shelves[c] = "ARCHIVED" => c \in goods[g].late
LotHolds(b) ==
    /\ wanted[b] # {} => /\ lots[b].status = "ARCHIVED"
                         /\ lots[b].late \/ wanted[b] = {lots[b].meta}
    /\ ~Received(b) => wanted[b] = {}
    /\ wanted[b] \subseteq Meta

StockTypes ==
    /\ shelves \in [Shelf -> {"NONE"} \cup CatalogStatus]
    /\ goods \in [Good -> ItemRow \cup {Absent}]
    /\ lots \in [Batch -> LotRow \cup {Absent}]
    /\ orders \in [Keeper -> Order \cup {NoOrder}]
    /\ overtaken \in [Keeper -> SUBSET Mark] /\ started \in 0 .. MaxOrders
    /\ wanted \in [Good \cup Batch -> SUBSET (CatalogStatus \cup Meta)]

StockInv ==
    /\ StockTypes /\ ToldOfArchive
    /\ \A k \in Keeper : OrderFits(orders[k], overtaken[k])
    /\ \A g \in Good : ItemHolds(g)
    /\ \A b \in Batch : LotHolds(b)

-----------------------------------------------------------------------------
LEMMA StockRowsApart ==
    /\ \A row \in ItemRow \cup {Absent} : (row.status # "NONE" <=> row \in ItemRow)
    /\ \A row \in LotRow \cup {Absent} : (row.status # "NONE" <=> row \in LotRow)
  BY DEF ItemRow, LotRow, Absent, CatalogStatus

LEMMA OrdersApart ==
    ASSUME NEW o \in Order \cup {NoOrder}
    PROVE  /\ o.step = "DETACH" <=> o \in DetachOrder
           /\ o.step = "INSERT ITEM" <=> o \in InsertItemOrder
           /\ o.step \in {"CATEGORY", "PATCH ITEM"} <=> o \in PatchItemOrder
           /\ o.step = "INSERT BATCH" <=> o \in InsertBatchOrder
           /\ o.step = "PATCH BATCH" <=> o \in PatchBatchOrder
           /\ o \notin Order => o = NoOrder
           /\ o = NoOrder => o \notin Order
  <1>1. /\ o \in DetachOrder => o.step = "DETACH"
        /\ o \in InsertItemOrder => o.step = "INSERT ITEM"
        /\ o \in PatchItemOrder => o.step \in {"CATEGORY", "PATCH ITEM"}
        /\ o \in InsertBatchOrder => o.step = "INSERT BATCH"
        /\ o \in PatchBatchOrder => o.step = "PATCH BATCH"
    BY DEF DetachOrder, InsertItemOrder, PatchItemOrder, InsertBatchOrder, PatchBatchOrder
  <1>2. o = NoOrder => o.step = "IDLE"
    BY DEF NoOrder
  <1> QED BY <1>1, <1>2 DEF Order

\* A category that is written is a shelf, or none.
LEMMA PlacementFits ==
    /\ \A p \in Placement : p \subseteq Shelf
    /\ \A patch \in ItemPatch : UNION patch.category \in Placement
  <1>1. \A p \in Placement : p \subseteq Shelf
    BY DEF Placement
  <1>2. ASSUME NEW patch \in ItemPatch PROVE UNION patch.category \in Placement
    <2>1. patch.category = {} \/ \E p \in Placement : patch.category = {p}
      BY DEF ItemPatch
    <2>2. CASE patch.category = {}
      BY <2>2 DEF Placement
    <2>3. ASSUME NEW p \in Placement, patch.category = {p} PROVE UNION patch.category \in Placement
      <3>1. UNION patch.category = p
        BY <2>3
      <3> QED BY <3>1
    <2> QED BY <2>1, <2>2, <2>3
  <1> QED BY <1>1, <1>2

LEMMA OrderPlaces ==
    /\ \A o \in InsertItemOrder \cup PatchItemOrder :
           o \notin DetachOrder /\ o.of \in Good /\ AskedCategory(o) \in Placement
    /\ \A o \in PatchItemOrder : o.read \in ItemRow /\ o.read.category \in Placement
  <1>1. \A o \in InsertItemOrder : /\ o \notin DetachOrder /\ o.of \in Good
                                   /\ AskedCategory(o) \in Placement
    BY DEF InsertItemOrder, DetachOrder, AskedCategory
  <1>2. \A o \in PatchItemOrder : /\ o \notin DetachOrder /\ o.of \in Good
                                  /\ o.patch \in ItemPatch /\ o.read \in ItemRow
                                  /\ o.step # "INSERT ITEM"
    BY DEF PatchItemOrder, DetachOrder
  <1>3. \A o \in PatchItemOrder : AskedCategory(o) \in Placement
    BY <1>2, PlacementFits DEF AskedCategory
  <1>4. \A row \in ItemRow : row.category \in Placement
    BY DEF ItemRow
  <1> QED BY <1>1, <1>2, <1>3, <1>4

\* A command that starts: it is told of the archives under way.
LEMMA StartKeeps ==
    ASSUME StockInv, NEW k \in Keeper, NEW order \in Order \ DetachOrder, Starts(k, order),
           OrderFits(order, UnderArchive), UNCHANGED <<shelves, goods, lots, wanted>>
    PROVE  StockInv'
  <1>1. /\ started' \in 0 .. MaxOrders
        /\ orders[k] = NoOrder /\ orders' = [orders EXCEPT ![k] = order]
        /\ overtaken' = [overtaken EXCEPT ![k] = UnderArchive]
    BY StockAssumption DEF Starts, StockInv, StockTypes
  <1>2. UnderArchive \subseteq Mark
        /\ \A i \in Keeper : orders[i] \in DetachOrder => orders[i].of \in UnderArchive
    <2>1. \A i \in Keeper : orders[i].step = "DETACH" <=> orders[i] \in DetachOrder
      BY OrdersApart DEF StockInv, StockTypes
    <2> QED BY <2>1 DEF UnderArchive, Mark, DetachOrder
  <1>3. /\ orders' \in [Keeper -> Order \cup {NoOrder}]
        /\ overtaken' \in [Keeper -> SUBSET Mark]
        /\ \A i \in Keeper : /\ orders'[i] = IF i = k THEN order ELSE orders[i]
                             /\ overtaken'[i] = IF i = k THEN UnderArchive ELSE overtaken[i]
    BY <1>1, <1>2 DEF StockInv, StockTypes
  <1>4. StockTypes'
    BY <1>1, <1>3 DEF StockInv, StockTypes
  <1>5. ToldOfArchive'
    BY <1>2, <1>3 DEF StockInv, ToldOfArchive
  <1>6. \A i \in Keeper : OrderFits(orders'[i], overtaken'[i])
    BY <1>3 DEF StockInv
  <1>7. \A i \in Keeper : OrderFits(orders[i], overtaken[i])'
    BY <1>6 DEF OrderFits, Stocked, AskedCategory
  <1>8. (\A g \in Good : ItemHolds(g)') /\ (\A b \in Batch : LotHolds(b)')
    BY DEF StockInv, ItemHolds, LotHolds, Stocked, Received
  <1> QED BY <1>4, <1>5, <1>7, <1>8 DEF StockInv

\* Tables written by a command that has ended, or by none: the rows stay rows, no
\* category is unarchived and none is archived that the commands have not been told of.
LEMMA WriteKeeps ==
    ASSUME StockInv, StockTypes',
           \A k \in Keeper : orders'[k] \in {orders[k], NoOrder},
           \A k \in Keeper : orders'[k] # NoOrder => overtaken[k] \subseteq overtaken'[k],
           \A g \in Good : goods[g] \in ItemRow =>
               goods'[g] \in ItemRow /\ goods[g].late \subseteq goods'[g].late,
           \A b \in Batch : lots[b] \in LotRow => lots'[b] \in LotRow,
           \A b \in Batch : wanted'[b] # {} =>
               wanted[b] # {} \/ \A k \in Keeper : orders'[k] # NoOrder => b \in overtaken'[k],
           \A c \in Shelf : shelves'[c] = "ARCHIVED" =>
               shelves[c] = "ARCHIVED"
               \/ \A k \in Keeper : orders'[k] \in Order \ DetachOrder => c \in overtaken'[k],
           \A k \in Keeper : orders'[k] \in DetachOrder =>
               \A g \in Good : Stocked(g)' /\ orders'[k].of \in goods'[g].category =>
                   \/ Stocked(g) /\ orders'[k].of \in goods[g].category
                   \/ orders'[k].of \in goods'[g].late,
           \A g \in Good : ItemHolds(g)', \A b \in Batch : LotHolds(b)'
    PROVE  StockInv'
  <1>1. \A k \in Keeper : orders'[k] \in Order => orders'[k] = orders[k] /\ orders'[k] # NoOrder
    BY OrdersApart DEF StockTypes
  <1>2. ToldOfArchive'
    BY <1>1 DEF StockInv, ToldOfArchive, Order
  <1>3. ASSUME NEW k \in Keeper PROVE OrderFits(orders[k], overtaken[k])'
    <2>1. CASE orders'[k] = NoOrder
      <3>1. orders'[k] \notin Order
        BY <2>1, OrdersApart
      <3> QED BY <3>1 DEF OrderFits, Order
    <2>2. CASE orders'[k] = orders[k] /\ orders[k] # NoOrder
      <3> PICK o \in Order : o = orders[k] /\ o = orders'[k]
        BY <2>2 DEF StockInv, StockTypes
      <3>1. OrderFits(o, overtaken[k]) /\ overtaken[k] \subseteq overtaken'[k]
        BY <2>2 DEF StockInv
      <3>2. o \in PatchItemOrder => goods'[o.of] \in ItemRow
        BY <3>1 DEF OrderFits, PatchItemOrder
      <3>3. o \in PatchBatchOrder => lots'[o.of] \in LotRow /\ (wanted'[o.of] # {} => o.of \in overtaken'[k])
        BY <2>2, <3>1 DEF OrderFits, PatchBatchOrder
      <3>4. o \in InsertItemOrder \/ (o \in PatchItemOrder /\ o.step = "PATCH ITEM") =>
                \A c \in AskedCategory(o) : shelves'[c] = "ARCHIVED" => c \in overtaken'[k]
        <4>1. o \in InsertItemOrder \cup PatchItemOrder => o \notin DetachOrder
          BY OrderPlaces
        <4>2. o \in InsertItemOrder \cup PatchItemOrder => AskedCategory(o) \subseteq Shelf
          BY OrderPlaces, PlacementFits
        <4> QED BY <3>1, <4>1, <4>2 DEF OrderFits
      <3>5. o \in PatchItemOrder /\ o.patch.category = {} =>
                \A c \in o.read.category :
                    shelves'[c] = "ARCHIVED" => c \in overtaken'[k] \/ c \in goods'[o.of].late
        <4>1. o \in PatchItemOrder => o \notin DetachOrder /\ o.of \in Good /\ o.read.category \subseteq Shelf
          BY OrderPlaces, PlacementFits
        <4>2. o \in PatchItemOrder => goods[o.of].late \subseteq goods'[o.of].late
          BY <3>1, <4>1 DEF OrderFits
        <4> QED BY <3>1, <4>1, <4>2 DEF OrderFits
      <3>6. o \in DetachOrder =>
                \A g \in Good :
                    /\ g \in o.items => goods'[g] \in ItemRow
                    /\ Stocked(g)' /\ o.of \in goods'[g].category
                          => g \in o.items \/ o.of \in goods'[g].late
        <4> SUFFICES ASSUME o \in DetachOrder, NEW g \in Good
                     PROVE  /\ g \in o.items => goods'[g] \in ItemRow
                            /\ Stocked(g)' /\ o.of \in goods'[g].category
                                  => g \in o.items \/ o.of \in goods'[g].late
          OBVIOUS
        <4>1. /\ g \in o.items => goods[g] \in ItemRow
              /\ Stocked(g) /\ o.of \in goods[g].category => g \in o.items \/ o.of \in goods[g].late
          BY <3>1 DEF OrderFits
        <4>2. Stocked(g) => goods[g] \in ItemRow
          BY StockRowsApart DEF Stocked, Exists, StockInv, StockTypes
        <4> QED BY <4>1, <4>2
      <3> QED BY <3>2, <3>3, <3>4, <3>5, <3>6 DEF OrderFits, AskedCategory
    <2> QED BY <2>1, <2>2
  <1> QED BY <1>2, <1>3 DEF StockInv

\* A row of an item is written.
LEMMA ItemWriteKeeps ==
    ASSUME StockInv, NEW g \in Good, NEW row \in ItemRow,
           goods' = [goods EXCEPT ![g] = row],
           UNCHANGED <<shelves, lots, overtaken>>, started' \in 0 .. MaxOrders,
           wanted' = [wanted EXCEPT ![g] = {row.status}],
           orders' = orders \/ \E k \in Keeper : orders' = [orders EXCEPT ![k] = NoOrder],
           goods[g] \in ItemRow => goods[g].late \subseteq row.late,
           \A c \in row.category : shelves[c] = "ARCHIVED" => c \in row.late,
           \A j \in Keeper : orders[j] \in DetachOrder /\ orders[j].of \in row.category =>
               (Stocked(g) /\ orders[j].of \in goods[g].category) \/ orders[j].of \in row.late
    PROVE  StockInv'
  <1>1. goods' \in [Good -> ItemRow \cup {Absent}]
        /\ \A h \in Good : goods'[h] = IF h = g THEN row ELSE goods[h]
    BY DEF StockInv, StockTypes
  <1>2. orders' \in [Keeper -> Order \cup {NoOrder}]
        /\ \A k \in Keeper : orders'[k] \in {orders[k], NoOrder}
    BY DEF StockInv, StockTypes
  <1>3. row.status \in CatalogStatus
    BY DEF ItemRow
  <1>4. wanted' \in [Good \cup Batch -> SUBSET (CatalogStatus \cup Meta)]
        /\ \A x \in Good \cup Batch : wanted'[x] = IF x = g THEN {row.status} ELSE wanted[x]
    BY <1>3 DEF StockInv, StockTypes
  <1>5. StockTypes'
    BY <1>1, <1>2, <1>4 DEF StockInv, StockTypes
  <1>6. \A h \in Good : ItemHolds(h)'
    BY <1>1, <1>4 DEF StockInv, ItemHolds, Stocked, Exists
  <1>7. g \notin Batch
    BY StockAssumption
  <1>8. \A b \in Batch : wanted'[b] = wanted[b]
    BY <1>4, <1>7
  <1>9. \A b \in Batch : LotHolds(b)'
    BY <1>8 DEF StockInv, LotHolds, Received
  <1>10. \A h \in Good : goods[h] \in ItemRow =>
              goods'[h] \in ItemRow /\ goods[h].late \subseteq goods'[h].late
    BY <1>1
  <1>11. ASSUME NEW k \in Keeper, orders'[k] \in DetachOrder, NEW h \in Good, Stocked(h)',
                orders'[k].of \in goods'[h].category
         PROVE  \/ Stocked(h) /\ orders'[k].of \in goods[h].category
                \/ orders'[k].of \in goods'[h].late
    <2>1. orders'[k] = orders[k]
      BY <1>2, <1>11, OrdersApart DEF Order
    <2> QED BY <1>1, <1>11, <2>1 DEF Stocked
  <1>12. /\ \A c \in Shelf : shelves'[c] = "ARCHIVED" => shelves[c] = "ARCHIVED"
         /\ \A b \in Batch : lots[b] \in LotRow => lots'[b] \in LotRow
    OBVIOUS
  <1>13. /\ \A k \in Keeper : orders'[k] # NoOrder => overtaken[k] \subseteq overtaken'[k]
         /\ \A b \in Batch : wanted'[b] # {} => wanted[b] # {}
    BY <1>8
  <1> QED BY <1>2, <1>5, <1>6, <1>9, <1>10, <1>11, <1>12, <1>13, WriteKeeps

\* A row of a batch is written, and its archive is told to the commands under way.
LEMMA LotWriteKeeps ==
    ASSUME StockInv, NEW b \in Batch, NEW row \in LotRow,
           lots' = [lots EXCEPT ![b] = row], UNCHANGED <<shelves, goods>>,
           started' \in 0 .. MaxOrders, NEW was \in SUBSET Meta,
           wanted' = [wanted EXCEPT ![b] = was],
           orders' = orders \/ \E k \in Keeper : orders' = [orders EXCEPT ![k] = NoOrder],
           \/ overtaken' = overtaken /\ (was # {} => wanted[b] # {})
           \/ Archives(b) /\ orders' = orders,
           was # {} => row.status = "ARCHIVED" /\ (row.late \/ was = {row.meta})
    PROVE  StockInv'
  <1>1. lots' \in [Batch -> LotRow \cup {Absent}]
        /\ \A a \in Batch : lots'[a] = IF a = b THEN row ELSE lots[a]
    BY DEF StockInv, StockTypes
  <1>2. orders' \in [Keeper -> Order \cup {NoOrder}]
        /\ \A k \in Keeper : orders'[k] \in {orders[k], NoOrder}
    BY DEF StockInv, StockTypes
  <1>3. wanted' \in [Good \cup Batch -> SUBSET (CatalogStatus \cup Meta)]
        /\ \A x \in Good \cup Batch : wanted'[x] = IF x = b THEN was ELSE wanted[x]
    BY DEF StockInv, StockTypes
  <1>4. /\ overtaken' \in [Keeper -> SUBSET Mark]
        /\ \A k \in Keeper : orders'[k] # NoOrder =>
               overtaken[k] \subseteq overtaken'[k] /\ (was = {} \/ wanted[b] # {} \/ b \in overtaken'[k])
    <2>1. CASE overtaken' = overtaken /\ (was # {} => wanted[b] # {})
      BY <2>1 DEF StockInv, StockTypes
    <2>2. CASE Archives(b) /\ orders' = orders
      <3>1. \A k \in Keeper : overtaken[k] \subseteq Mark /\ b \in Mark
        BY DEF StockInv, StockTypes, Mark
      <3> QED BY <2>2, <3>1 DEF Archives
    <2> QED BY <2>1, <2>2
  <1>5. StockTypes'
    BY <1>1, <1>2, <1>3, <1>4 DEF StockInv, StockTypes
  <1>6. b \notin Good
    BY StockAssumption
  <1>7. \A g \in Good : ItemHolds(g)'
    BY <1>3, <1>6 DEF StockInv, ItemHolds, Stocked
  <1>8. row.status # "NONE"
    BY StockRowsApart
  <1>9. \A a \in Batch : LotHolds(a)'
    BY <1>1, <1>3, <1>8 DEF StockInv, LotHolds, Received, Exists
  <1>10. \A a \in Batch : lots[a] \in LotRow => lots'[a] \in LotRow
    BY <1>1
  <1>11. \A a \in Batch : wanted'[a] # {} =>
             wanted[a] # {} \/ \A k \in Keeper : orders'[k] # NoOrder => a \in overtaken'[k]
    BY <1>3, <1>4
  <1>12. /\ \A c \in Shelf : shelves'[c] = "ARCHIVED" => shelves[c] = "ARCHIVED"
         /\ \A g \in Good : goods[g] \in ItemRow =>
               goods'[g] \in ItemRow /\ goods[g].late \subseteq goods'[g].late
         /\ \A k \in Keeper : orders'[k] \in DetachOrder =>
               \A g \in Good : Stocked(g)' /\ orders'[k].of \in goods'[g].category =>
                   Stocked(g) /\ orders'[k].of \in goods[g].category
         /\ \A k \in Keeper : orders'[k] # NoOrder => overtaken[k] \subseteq overtaken'[k]
    BY <1>4 DEF Stocked
  <1> QED BY <1>2, <1>5, <1>7, <1>9, <1>10, <1>11, <1>12, WriteKeeps

-----------------------------------------------------------------------------
LEMMA CreateCategoryKeeps == ASSUME StockInv, NEW c \in Shelf, CreateCategory(c) PROVE StockInv'
  <1>1. /\ started' \in 0 .. MaxOrders /\ shelves[c] = "NONE"
        /\ shelves' = [shelves EXCEPT ![c] = "ACTIVE"]
        /\ UNCHANGED <<goods, lots, orders, overtaken, wanted>>
    BY StockAssumption DEF CreateCategory, StockInv, StockTypes
  <1>2. /\ shelves' \in [Shelf -> {"NONE"} \cup CatalogStatus]
        /\ \A d \in Shelf : shelves'[d] = "ARCHIVED" => shelves[d] = "ARCHIVED"
    BY <1>1 DEF StockInv, StockTypes, CatalogStatus
  <1>3. StockTypes'
    BY <1>1, <1>2 DEF StockInv, StockTypes
  <1>4. \A g \in Good : goods[g] \in ItemRow => goods[g].category \subseteq Shelf
    BY PlacementFits DEF ItemRow
  <1>5. \A g \in Good : Stocked(g) => goods[g] \in ItemRow
    BY StockRowsApart DEF Stocked, Exists, StockInv, StockTypes
  <1>6. \A g \in Good : ItemHolds(g)'
    BY <1>1, <1>2, <1>4, <1>5 DEF StockInv, ItemHolds, Stocked
  <1>7. \A b \in Batch : LotHolds(b)'
    BY <1>1 DEF StockInv, LotHolds, Received
  <1>8. \A k \in Keeper : orders'[k] \in DetachOrder =>
            \A g \in Good : Stocked(g)' /\ orders'[k].of \in goods'[g].category =>
                Stocked(g) /\ orders'[k].of \in goods[g].category
    BY <1>1 DEF Stocked
  <1> QED BY <1>1, <1>2, <1>3, <1>6, <1>7, <1>8, WriteKeeps

LEMMA CommitArchiveKeeps == ASSUME StockInv, NEW k \in Keeper, CommitArchive(k) PROVE StockInv'
  <1> PICK o \in DetachOrder : o = orders[k]
    BY OrdersApart DEF CommitArchive, AtStep, StockInv, StockTypes
  <1>1. /\ shelves' = [shelves EXCEPT ![o.of] = "ARCHIVED"]
        /\ goods' = [g \in Good |-> IF g \in o.items
                                     THEN [goods[g] EXCEPT !.category = {}] ELSE goods[g]]
        /\ orders' = [orders EXCEPT ![k] = NoOrder]
        /\ UNCHANGED <<overtaken, started, lots, wanted>>
    BY DEF CommitArchive, Ends
  <1>2. /\ o.of \in Shelf /\ o.items \subseteq Good /\ OrderFits(o, overtaken[k])
        /\ orders \in [Keeper -> Order \cup {NoOrder}]
    BY DEF StockInv, StockTypes, DetachOrder
  <1>3. \A g \in Good : /\ g \in o.items => goods[g] \in ItemRow
                        /\ Stocked(g) /\ o.of \in goods[g].category => g \in o.items \/ o.of \in goods[g].late
    BY <1>2 DEF OrderFits
  <1>4. \A row \in ItemRow : LET new == [row EXCEPT !.category = {}] IN
            new \in ItemRow /\ new.late = row.late /\ new.status = row.status /\ new.category = {}
    BY DEF ItemRow, Placement
  <1>5. \A g \in Good : /\ g \notin o.items => goods'[g] = goods[g]
                        /\ g \in o.items => /\ goods'[g] \in ItemRow /\ goods'[g].late = goods[g].late
                                            /\ goods'[g].status = goods[g].status
                                            /\ goods'[g].category = {}
    BY <1>1, <1>3, <1>4
  <1>6. goods' \in [Good -> ItemRow \cup {Absent}]
    <2>1. goods' = [g \in Good |-> goods'[g]]
      BY <1>1
    <2> QED BY <1>5, <2>1 DEF StockInv, StockTypes
  <1>7. /\ shelves' \in [Shelf -> {"NONE"} \cup CatalogStatus]
        /\ \A d \in Shelf : shelves'[d] = IF d = o.of THEN "ARCHIVED" ELSE shelves[d]
    BY <1>1 DEF StockInv, StockTypes, CatalogStatus
  <1>8. /\ orders' \in [Keeper -> Order \cup {NoOrder}]
        /\ \A j \in Keeper : orders'[j] = IF j = k THEN NoOrder ELSE orders[j]
    BY <1>1, <1>2
  <1>9. StockTypes'
    BY <1>1, <1>6, <1>7, <1>8 DEF StockInv, StockTypes
  <1>10. \A j \in Keeper : orders'[j] \in Order \ DetachOrder => o.of \in overtaken'[j]
    <2>1. NoOrder \notin Order
      BY OrdersApart
    <2> QED BY <1>1, <1>8, <2>1 DEF StockInv, ToldOfArchive
  <1>11. \A g \in Good : (Stocked(g)' <=> Stocked(g))
    BY <1>3, <1>5 DEF Stocked, Exists
  <1>12. \A g \in Good : Stocked(g) => goods[g].category \subseteq Shelf
    <2>1. \A g \in Good : Stocked(g) => goods[g] \in ItemRow
      BY StockRowsApart DEF Stocked, Exists, StockInv, StockTypes
    <2> QED BY <2>1, PlacementFits DEF ItemRow
  <1>13. ASSUME NEW g \in Good PROVE ItemHolds(g)'
    <2>1. CASE g \in o.items
      BY <1>1, <1>5, <1>11, <2>1 DEF StockInv, ItemHolds
    <2>2. CASE g \notin o.items
      BY <1>1, <1>3, <1>5, <1>7, <1>11, <1>12, <2>2 DEF StockInv, ItemHolds
    <2> QED BY <2>1, <2>2
  <1>14. \A b \in Batch : LotHolds(b)'
    BY <1>1 DEF StockInv, LotHolds, Received
  <1>15. \A g \in Good : goods[g] \in ItemRow =>
              goods'[g] \in ItemRow /\ goods[g].late \subseteq goods'[g].late
    BY <1>5
  <1>16. \A j \in Keeper : orders'[j] \in DetachOrder =>
             \A g \in Good : Stocked(g)' /\ orders'[j].of \in goods'[g].category =>
                 Stocked(g) /\ orders'[j].of \in goods[g].category
    BY <1>5, <1>11
  <1>17. /\ \A j \in Keeper : orders'[j] \in {orders[j], NoOrder}
         /\ \A c \in Shelf : shelves'[c] = "ARCHIVED" =>
               shelves[c] = "ARCHIVED"
               \/ \A j \in Keeper : orders'[j] \in Order \ DetachOrder => c \in overtaken'[j]
         /\ \A b \in Batch : lots[b] \in LotRow => lots'[b] \in LotRow
         /\ \A b \in Batch : wanted'[b] # {} => wanted[b] # {}
         /\ \A j \in Keeper : orders'[j] # NoOrder => overtaken[j] \subseteq overtaken'[j]
    BY <1>1, <1>7, <1>8, <1>10
  <1> QED BY <1>9, <1>13, <1>14, <1>15, <1>16, <1>17, WriteKeeps

\* The statement of an archive: every command under way is told, and the items that
\* are in the category by then are the ones it locks.
LEMMA ArchiveShelfKeeps ==
    ASSUME StockInv, NEW k \in Keeper, NEW c \in Shelf, ArchiveStockCategory(k, c)
    PROVE  StockInv'
  <1> DEFINE order == [step |-> "DETACH", of |-> c, items |-> InCategory(c)]
  <1>1. /\ started' \in 0 .. MaxOrders /\ orders[k] = NoOrder
        /\ orders' = [orders EXCEPT ![k] = order] /\ Archives(c)
        /\ UNCHANGED <<shelves, goods, lots, wanted>>
    BY StockAssumption DEF ArchiveStockCategory, StockInv, StockTypes
  <1>2. \A g \in Good : Stocked(g) => goods[g] \in ItemRow
    BY StockRowsApart DEF Stocked, Exists, StockInv, StockTypes
  <1>3. /\ order \in DetachOrder /\ order \in Order /\ order.of = c
        /\ \A g \in Good : g \in order.items <=> Stocked(g) /\ c \in goods[g].category
    BY DEF DetachOrder, Order, InCategory
  <1> HIDE DEF order
  <1>4. orders' \in [Keeper -> Order \cup {NoOrder}]
        /\ \A j \in Keeper : orders'[j] = IF j = k THEN order ELSE orders[j]
    BY <1>1, <1>3 DEF StockInv, StockTypes
  <1>5. overtaken' \in [Keeper -> SUBSET Mark]
        /\ \A j \in Keeper : orders[j] # NoOrder => overtaken'[j] = overtaken[j] \cup {c}
    <2>1. \A j \in Keeper : overtaken[j] \subseteq Mark /\ c \in Mark
      BY DEF StockInv, StockTypes, Mark
    <2> QED BY <1>1, <2>1 DEF Archives
  <1>6. StockTypes'
    BY <1>1, <1>4, <1>5 DEF StockInv, StockTypes
  <1>7. ToldOfArchive'
    <2> SUFFICES ASSUME NEW i \in Keeper, NEW j \in Keeper, orders'[j] \in DetachOrder,
                        orders'[i] \in Order \ DetachOrder
                 PROVE  orders'[j].of \in overtaken'[i]
      BY DEF ToldOfArchive
    <2>1. i # k /\ orders[i] \in Order \ DetachOrder /\ orders[i] # NoOrder
      BY <1>3, <1>4, OrdersApart
    <2>2. CASE j = k
      BY <1>3, <1>4, <1>5, <2>1, <2>2
    <2>3. CASE j # k
      BY <1>4, <1>5, <2>1, <2>3 DEF StockInv, ToldOfArchive
    <2> QED BY <2>2, <2>3
  <1>8. ASSUME NEW j \in Keeper PROVE OrderFits(orders[j], overtaken[j])'
    <2>1. CASE j = k
      <3>1. orders'[j] = order /\ order \notin PatchItemOrder /\ order \notin PatchBatchOrder
            /\ order \notin InsertItemOrder
        BY <1>3, <1>4, <2>1 DEF DetachOrder, PatchItemOrder, PatchBatchOrder, InsertItemOrder
      <3> QED BY <1>1, <1>2, <1>3, <3>1 DEF OrderFits, Stocked
    <2>2. CASE j # k /\ orders[j] = NoOrder
      <3>1. orders'[j] \notin Order
        BY <1>4, <2>2, OrdersApart
      <3> QED BY <3>1 DEF OrderFits, Order
    <2>3. CASE j # k /\ orders[j] # NoOrder
      <3>1. orders'[j] = orders[j] /\ overtaken[j] \subseteq overtaken'[j]
        BY <1>4, <1>5, <2>3
      <3> QED BY <1>1, <3>1 DEF StockInv, OrderFits, Stocked, AskedCategory
    <2> QED BY <2>1, <2>2, <2>3
  <1>9. (\A g \in Good : ItemHolds(g)') /\ (\A b \in Batch : LotHolds(b)')
    BY <1>1 DEF StockInv, ItemHolds, LotHolds, Stocked, Received
  <1> QED BY <1>6, <1>7, <1>8, <1>9 DEF StockInv

LEMMA CreateItemKeeps ==
    ASSUME StockInv, NEW k \in Keeper, NEW g \in Good, NEW category \in Placement,
           NEW level \in Level, CreateStockItem(k, g, category, level)
    PROVE  StockInv'
  <1> DEFINE order == [step |-> "INSERT ITEM", of |-> g, category |-> category, level |-> level]
  <1>1. order \in InsertItemOrder /\ AskedCategory(order) = category
    BY DEF InsertItemOrder, AskedCategory
  <1>2. /\ Starts(k, order) /\ AssertCategoryActive(category)
        /\ UNCHANGED <<shelves, goods, lots, wanted>>
    BY DEF CreateStockItem
  <1> HIDE DEF order
  <1>3. order \in Order \ DetachOrder /\ order \notin PatchItemOrder /\ order \notin PatchBatchOrder
    BY <1>1 DEF Order, InsertItemOrder, DetachOrder, PatchItemOrder, PatchBatchOrder
  <1>4. OrderFits(order, UnderArchive)
    BY <1>1, <1>2, <1>3 DEF OrderFits, AssertCategoryActive
  <1> QED BY <1>2, <1>3, <1>4, StartKeeps

LEMMA UpdateItemKeeps ==
    ASSUME StockInv, NEW k \in Keeper, NEW g \in Good, NEW patch \in ItemPatch,
           UpdateStockItem(k, g, patch)
    PROVE  StockInv'
  <1> DEFINE order == [step |-> IF patch.category \in {{}, {{}}} THEN "PATCH ITEM" ELSE "CATEGORY",
                       of |-> g, patch |-> patch, read |-> goods[g]]
  <1>1. goods[g] \in ItemRow
    BY StockRowsApart DEF UpdateStockItem, Stocked, Exists, StockInv, StockTypes
  <1>2. /\ order \in PatchItemOrder /\ order.of = g /\ order.patch = patch /\ order.read = goods[g]
        /\ order.step = "PATCH ITEM" => patch.category \in {{}, {{}}}
        /\ order.step # "INSERT ITEM"
    BY <1>1 DEF PatchItemOrder
  <1>3. Starts(k, order) /\ UNCHANGED <<shelves, goods, lots, wanted>> /\ Stocked(g)
    BY DEF UpdateStockItem
  <1> HIDE DEF order
  <1>4. order \in Order \ DetachOrder /\ order \notin InsertItemOrder /\ order \notin PatchBatchOrder
    BY <1>2 DEF Order, InsertItemOrder, DetachOrder, PatchItemOrder, PatchBatchOrder
  <1>5. patch.category \in {{}, {{}}} => UNION patch.category = {}
    OBVIOUS
  <1>6. \A c \in goods[g].category : shelves[c] = "ARCHIVED" => c \in goods[g].late
    BY <1>3 DEF StockInv, ItemHolds
  <1>7. OrderFits(order, UnderArchive)
    BY <1>1, <1>2, <1>4, <1>5, <1>6 DEF OrderFits, AskedCategory
  <1> QED BY <1>3, <1>4, <1>7, StartKeeps

\* Items come into a category with a write only.
LEMMA LateIsTold ==
    ASSUME StockInv, NEW k \in Keeper, NEW j \in Keeper, orders[j] \in DetachOrder,
           orders[k] \in Order \ DetachOrder
    PROVE  orders[j].of \in overtaken[k] \cap Shelf
  BY DEF StockInv, ToldOfArchive, DetachOrder

LEMMA InsertItemKeeps == ASSUME StockInv, NEW k \in Keeper, InsertStockItem(k) PROVE StockInv'
  <1> PICK o \in InsertItemOrder : o = orders[k]
    BY OrdersApart DEF InsertStockItem, AtStep, StockInv, StockTypes
  <1> DEFINE row == [status |-> "ACTIVE", category |-> o.category, level |-> o.level,
                     late |-> overtaken[k] \cap Shelf]
  <1>1. o.of \in Good /\ o.category \in Placement /\ o.level \in Level
        /\ AskedCategory(o) = o.category /\ o \in Order \ DetachOrder
    BY DEF InsertItemOrder, AskedCategory, Order, DetachOrder
  <1>2. /\ row \in ItemRow /\ row.late = overtaken[k] \cap Shelf /\ row.category = o.category
        /\ row.status = "ACTIVE"
    BY <1>1 DEF ItemRow, CatalogStatus
  <1>3. /\ ~Stocked(o.of) /\ goods' = [goods EXCEPT ![o.of] = row]
        /\ wanted' = [wanted EXCEPT ![o.of] = {"ACTIVE"}]
        /\ orders' = [orders EXCEPT ![k] = NoOrder]
        /\ UNCHANGED <<overtaken, started, shelves, lots>>
    BY DEF InsertStockItem, Ends
  <1> HIDE DEF row
  <1>4. started' \in 0 .. MaxOrders /\ goods[o.of] \notin ItemRow
    BY <1>1, <1>3, StockRowsApart DEF StockInv, StockTypes, Stocked, Exists
  <1>5. o.category \subseteq Shelf
    BY <1>1, PlacementFits
  <1>6. \A c \in row.category : shelves[c] = "ARCHIVED" => c \in row.late
    BY <1>1, <1>2, <1>5 DEF StockInv, OrderFits
  <1>7. \A j \in Keeper : orders[j] \in DetachOrder => orders[j].of \in row.late
    BY <1>1, <1>2, LateIsTold
  <1> QED BY <1>1, <1>2, <1>3, <1>4, <1>6, <1>7, ItemWriteKeeps

LEMMA CheckCategoryKeeps == ASSUME StockInv, NEW k \in Keeper, CheckCategory(k) PROVE StockInv'
  <1> PICK o \in PatchItemOrder : o = orders[k] /\ o.step = "CATEGORY"
    BY OrdersApart DEF CheckCategory, AtStep, StockInv, StockTypes
  <1> DEFINE order == [o EXCEPT !.step = "PATCH ITEM"]
  <1>1. UNCHANGED <<shelves, goods, lots, wanted, overtaken, started>>
    BY DEF CheckCategory, Proceeds, Ends
  <1>2. (\A g \in Good : ItemHolds(g)') /\ (\A b \in Batch : LotHolds(b)')
    BY <1>1 DEF StockInv, ItemHolds, LotHolds, Stocked, Received
  <1>3. CASE orders' = [orders EXCEPT ![k] = NoOrder]
    <2>1. /\ orders' \in [Keeper -> Order \cup {NoOrder}]
          /\ \A j \in Keeper : orders'[j] \in {orders[j], NoOrder}
      BY <1>3 DEF StockInv, StockTypes
    <2>2. StockTypes'
      BY <1>1, <2>1 DEF StockInv, StockTypes
    <2>3. /\ \A j \in Keeper : orders'[j] \in DetachOrder =>
                \A g \in Good : Stocked(g)' /\ orders'[j].of \in goods'[g].category =>
                    Stocked(g) /\ orders'[j].of \in goods[g].category
          /\ \A g \in Good : goods[g] \in ItemRow =>
                goods'[g] \in ItemRow /\ goods[g].late \subseteq goods'[g].late
          /\ \A b \in Batch : lots[b] \in LotRow => lots'[b] \in LotRow
          /\ \A b \in Batch : wanted'[b] # {} => wanted[b] # {}
          /\ \A c \in Shelf : shelves'[c] = "ARCHIVED" => shelves[c] = "ARCHIVED"
          /\ \A j \in Keeper : orders'[j] # NoOrder => overtaken[j] \subseteq overtaken'[j]
      BY <1>1 DEF Stocked
    <2> QED BY <1>2, <2>1, <2>2, <2>3, WriteKeeps
  <1>4. CASE /\ AssertCategoryActive(UNION o.patch.category)
             /\ orders' = [orders EXCEPT ![k] = order]
    <2>1. /\ order \in PatchItemOrder /\ order.of = o.of /\ order.patch = o.patch
          /\ order.read = o.read /\ order.step = "PATCH ITEM"
      BY DEF PatchItemOrder
    <2> HIDE DEF order
    <2>2. /\ order \in Order \ DetachOrder /\ order \notin InsertItemOrder
          /\ order \notin PatchBatchOrder /\ o \in Order \ DetachOrder
      BY <2>1 DEF Order, InsertItemOrder, DetachOrder, PatchItemOrder, PatchBatchOrder
    <2>3. /\ orders' \in [Keeper -> Order \cup {NoOrder}]
          /\ \A j \in Keeper : orders'[j] = IF j = k THEN order ELSE orders[j]
      BY <1>4, <2>2 DEF StockInv, StockTypes
    <2>4. StockTypes'
      BY <1>1, <2>3 DEF StockInv, StockTypes
    <2>5. ToldOfArchive'
      BY <1>1, <2>2, <2>3 DEF StockInv, ToldOfArchive
    <2>6. OrderFits(order, overtaken[k])
      <3>1. OrderFits(o, overtaken[k])
        BY DEF StockInv
      <3>2. AskedCategory(order) = UNION o.patch.category
        BY <2>1 DEF AskedCategory
      <3>3. \A c \in UNION o.patch.category : shelves[c] # "ARCHIVED"
        BY <1>4 DEF AssertCategoryActive
      <3> QED BY <2>1, <2>2, <3>1, <3>2, <3>3 DEF OrderFits
    <2>7. \A j \in Keeper : OrderFits(orders'[j], overtaken[j])
      BY <2>3, <2>6 DEF StockInv
    <2>8. \A j \in Keeper : OrderFits(orders[j], overtaken[j])'
      BY <1>1, <2>7 DEF OrderFits, Stocked, AskedCategory
    <2> QED BY <1>2, <2>4, <2>5, <2>8 DEF StockInv
  <1> QED BY <1>3, <1>4 DEF CheckCategory, Proceeds, Ends

\* The category that a patch writes.
CategoryOf(patch, read) ==
    IF patch.category = {} THEN read.category ELSE UNION patch.category

LEMMA PatchedItemFits ==
    ASSUME NEW patch \in ItemPatch, NEW read \in ItemRow, NEW row \in ItemRow
    PROVE  /\ PatchedItem(patch, read, row) \in ItemRow
           /\ PatchedItem(patch, read, row).status = row.status
           /\ PatchedItem(patch, read, row).late = row.late
           /\ PatchedItem(patch, read, row).category = CategoryOf(patch, read)
  <1> DEFINE level == IF patch.level = {} THEN read.level ELSE CHOOSE x \in patch.level : TRUE
             category == CategoryOf(patch, read)
             new == [row EXCEPT !.level = level, !.category = category]
  <1>1. read.level \in Level /\ read.category \in Placement
    BY DEF ItemRow
  <1>2. level \in Level
    <2>1. patch.level = {} \/ \E x \in Level : patch.level = {x}
      BY DEF ItemPatch
    <2>2. patch.level # {} => (CHOOSE x \in patch.level : TRUE) \in patch.level
      OBVIOUS
    <2> QED BY <1>1, <2>1, <2>2
  <1>3. category \in Placement
    BY <1>1, PlacementFits DEF CategoryOf
  <1>4. PatchedItem(patch, read, row) = new
    BY DEF PatchedItem, CategoryOf
  <1> HIDE DEF level, category
  <1>5. new \in ItemRow /\ new.status = row.status /\ new.late = row.late /\ new.category = category
    BY <1>2, <1>3 DEF ItemRow
  <1> HIDE DEF new
  <1> QED BY <1>4, <1>5 DEF category

LEMMA WriteItemKeeps == ASSUME StockInv, NEW k \in Keeper, WriteStockItem(k) PROVE StockInv'
  <1> PICK o \in PatchItemOrder : o = orders[k] /\ o.step = "PATCH ITEM"
    BY OrdersApart DEF WriteStockItem, AtStep, StockInv, StockTypes
  <1>1. /\ o.of \in Good /\ o.patch \in ItemPatch /\ o.read \in ItemRow
        /\ o \in Order \ DetachOrder
    <2>1. o.patch \in ItemPatch
      BY DEF PatchItemOrder
    <2>2. o \in Order
      BY DEF Order
    <2> QED BY <2>1, <2>2, OrderPlaces
  <1>2. OrderFits(o, overtaken[k]) /\ goods[o.of] \in ItemRow
    <2>1. OrderFits(o, overtaken[k])
      BY DEF StockInv
    <2> QED BY <2>1 DEF OrderFits
  <1> DEFINE new == PatchedItem(o.patch, o.read, goods[o.of])
             row == [new EXCEPT !.late = @ \cup (overtaken[k] \cap Shelf)]
  <1> HIDE DEF row
  <1>3. /\ new \in ItemRow /\ new.status = goods[o.of].status /\ new.late = goods[o.of].late
        /\ new.category = CategoryOf(o.patch, o.read)
    BY ZenonT(40), <1>1, <1>2, PatchedItemFits
  <1>4. /\ goods' = [goods EXCEPT ![o.of] = row] /\ orders' = [orders EXCEPT ![k] = NoOrder]
        /\ UNCHANGED <<overtaken, started, shelves, lots, wanted>>
    <2>1. goods' = [goods EXCEPT ![o.of] =
                       [PatchedItem(o.patch, o.read, goods[o.of]) EXCEPT
                           !.late = @ \cup (overtaken[k] \cap Shelf)]]
          /\ orders' = [orders EXCEPT ![k] = NoOrder]
          /\ UNCHANGED <<overtaken, started, shelves, lots, wanted>>
      BY DEF WriteStockItem, Ends
    <2>2. row = [PatchedItem(o.patch, o.read, goods[o.of]) EXCEPT
                    !.late = @ \cup (overtaken[k] \cap Shelf)]
      BY DEF row, new
    <2> QED BY <2>1, <2>2
  <1> HIDE DEF new
  <1>5. /\ row \in ItemRow /\ row.status = goods[o.of].status /\ row.category = new.category
        /\ row.late = goods[o.of].late \cup (overtaken[k] \cap Shelf)
    BY <1>3 DEF ItemRow, row
  <1> HIDE DEF row
  <1>6. wanted' = [wanted EXCEPT ![o.of] = {row.status}]
    <2>1. wanted[o.of] = {row.status}
      BY <1>1, <1>2, <1>5, StockRowsApart DEF StockInv, ItemHolds, Stocked, Exists
    <2> QED BY <1>4, <2>1 DEF StockInv, StockTypes
  <1>7. \A c \in row.category : shelves[c] = "ARCHIVED" => c \in row.late
    <2>1. row.category \subseteq Shelf
      BY <1>5, PlacementFits DEF ItemRow
    <2>2. CASE o.patch.category = {}
      BY <1>2, <1>3, <1>5, <2>1, <2>2 DEF OrderFits, CategoryOf
    <2>3. CASE o.patch.category # {}
      <3>1. row.category = AskedCategory(o)
        BY <1>3, <1>5, <2>3 DEF AskedCategory, CategoryOf
      <3> QED BY <1>2, <1>5, <2>1, <3>1 DEF OrderFits
    <2> QED BY <2>2, <2>3
  <1>8. \A j \in Keeper : orders[j] \in DetachOrder => orders[j].of \in row.late
    BY <1>1, <1>5, LateIsTold
  <1>9. started' \in 0 .. MaxOrders /\ goods[o.of].late \subseteq row.late
    BY <1>4, <1>5 DEF StockInv, StockTypes
  <1> QED BY <1>1, <1>4, <1>5, <1>6, <1>7, <1>8, <1>9, ItemWriteKeeps

LEMMA ItemStatusKeeps ==
    ASSUME StockInv, NEW g \in Good, NEW status \in CatalogStatus, SetStockItemStatus(g, status)
    PROVE  StockInv'
  <1> DEFINE row == [goods[g] EXCEPT !.status = status]
  <1>1. goods[g] \in ItemRow /\ Stocked(g)
    BY StockRowsApart DEF SetStockItemStatus, Stocked, Exists, StockInv, StockTypes
  <1>2. /\ row \in ItemRow /\ row.status = status /\ row.category = goods[g].category
        /\ row.late = goods[g].late
    BY <1>1 DEF ItemRow
  <1>3. /\ goods' = [goods EXCEPT ![g] = row] /\ wanted' = [wanted EXCEPT ![g] = {status}]
        /\ started' \in 0 .. MaxOrders /\ UNCHANGED <<shelves, lots, orders, overtaken>>
    BY <1>1, StockAssumption DEF SetStockItemStatus, StockInv, StockTypes
  <1> HIDE DEF row
  <1>4. \A c \in row.category : shelves[c] = "ARCHIVED" => c \in row.late
    BY <1>1, <1>2 DEF StockInv, ItemHolds
  <1> QED BY <1>1, <1>2, <1>3, <1>4, ItemWriteKeeps

LEMMA CreateBatchKeeps ==
    ASSUME StockInv, NEW k \in Keeper, NEW b \in Batch, NEW g \in Good, NEW meta \in Meta,
           CreateRestockBatch(k, b, g, meta)
    PROVE  StockInv'
  <1> DEFINE order == [step |-> "INSERT BATCH", of |-> b, item |-> g, meta |-> meta]
  <1>1. order \in InsertBatchOrder
    BY DEF InsertBatchOrder
  <1>2. Starts(k, order) /\ UNCHANGED <<shelves, goods, lots, wanted>>
    BY DEF CreateRestockBatch
  <1> HIDE DEF order
  <1>3. /\ order \in Order \ DetachOrder /\ order \notin PatchItemOrder
        /\ order \notin InsertItemOrder /\ order \notin PatchBatchOrder
    BY <1>1 DEF Order, InsertBatchOrder, InsertItemOrder, DetachOrder, PatchItemOrder,
                PatchBatchOrder
  <1>4. OrderFits(order, UnderArchive)
    BY <1>3 DEF OrderFits
  <1> QED BY <1>2, <1>3, <1>4, StartKeeps

LEMMA InsertBatchKeeps == ASSUME StockInv, NEW k \in Keeper, InsertRestockBatch(k) PROVE StockInv'
  <1> PICK o \in InsertBatchOrder : o = orders[k]
    BY OrdersApart DEF InsertRestockBatch, AtStep, StockInv, StockTypes
  <1> DEFINE row == [status |-> "ACTIVE", of |-> o.item, meta |-> o.meta, late |-> FALSE]
  <1>1. o.of \in Batch /\ row \in LotRow
    BY DEF InsertBatchOrder, LotRow, CatalogStatus
  <1>2. /\ ~Received(o.of) /\ lots' = [lots EXCEPT ![o.of] = row]
        /\ orders' = [orders EXCEPT ![k] = NoOrder]
        /\ UNCHANGED <<overtaken, started, shelves, goods, wanted>>
    BY DEF InsertRestockBatch, Ends
  <1> HIDE DEF row
  <1>3. wanted[o.of] = {}
    BY <1>1, <1>2 DEF StockInv, LotHolds
  <1>4. wanted' = [wanted EXCEPT ![o.of] = {}] /\ started' \in 0 .. MaxOrders
    BY <1>2, <1>3 DEF StockInv, StockTypes
  <1> QED BY <1>1, <1>2, <1>4, LotWriteKeeps

LEMMA UpdateBatchKeeps ==
    ASSUME StockInv, NEW k \in Keeper, NEW b \in Batch, NEW patch \in MetaPatch,
           UpdateRestockBatchMetadata(k, b, patch)
    PROVE  StockInv'
  <1> DEFINE order == [step |-> "PATCH BATCH", of |-> b, patch |-> patch, read |-> lots[b].meta]
  <1>1. lots[b] \in LotRow
    BY StockRowsApart DEF UpdateRestockBatchMetadata, Received, Exists, StockInv, StockTypes
  <1>2. order \in PatchBatchOrder /\ order.of = b
    BY <1>1 DEF PatchBatchOrder, LotRow
  <1>3. /\ Starts(k, order) /\ UNCHANGED <<shelves, goods, lots, wanted>>
        /\ lots[b].status # "ARCHIVED"
    BY DEF UpdateRestockBatchMetadata, OpenForMetadata
  <1> HIDE DEF order
  <1>4. /\ order \in Order \ DetachOrder /\ order \notin PatchItemOrder
        /\ order \notin InsertItemOrder
    BY <1>2 DEF Order, InsertItemOrder, DetachOrder, PatchItemOrder, PatchBatchOrder
  <1>5. wanted[b] = {}
    BY <1>3 DEF StockInv, LotHolds
  <1>6. OrderFits(order, UnderArchive)
    BY <1>1, <1>2, <1>4, <1>5 DEF OrderFits
  <1> QED BY <1>3, <1>4, <1>6, StartKeeps

LEMMA PatchedMetaFits ==
    ASSUME NEW patch \in MetaPatch, NEW read \in Meta
    PROVE  PatchedMeta(patch, read) \in Meta
  <1> SUFFICES ASSUME NEW column \in MetaColumn
               PROVE  (IF patch[column] = {} THEN read[column]
                       ELSE CHOOSE x \in patch[column] : TRUE) \in Level
    BY DEF PatchedMeta, Meta
  <1>1. patch[column] = {} \/ \E x \in Level : patch[column] = {x}
    BY DEF MetaPatch
  <1>2. patch[column] # {} => (CHOOSE x \in patch[column] : TRUE) \in patch[column]
    OBVIOUS
  <1>3. read[column] \in Level
    BY DEF Meta
  <1> QED BY <1>1, <1>2, <1>3

LEMMA WriteBatchKeeps == ASSUME StockInv, NEW k \in Keeper, WriteRestockBatch(k) PROVE StockInv'
  <1> PICK o \in PatchBatchOrder : o = orders[k]
    BY OrdersApart DEF WriteRestockBatch, AtStep, StockInv, StockTypes
  <1>1. o.of \in Batch /\ o.patch \in MetaPatch /\ o.read \in Meta
    BY DEF PatchBatchOrder
  <1>2. lots[o.of] \in LotRow /\ (wanted[o.of] # {} => o.of \in overtaken[k])
    BY DEF StockInv, OrderFits
  <1> DEFINE meta == PatchedMeta(o.patch, o.read)
             row == [lots[o.of] EXCEPT !.meta = meta, !.late = @ \/ o.of \in overtaken[k]]
  <1>3. meta \in Meta
    BY <1>1, PatchedMetaFits
  <1>4. /\ lots' = [lots EXCEPT ![o.of] = row]
        /\ orders' = [orders EXCEPT ![k] = NoOrder]
        /\ UNCHANGED <<overtaken, started, shelves, goods, wanted>>
    BY <1>1 DEF WriteRestockBatch, Ends, StockInv, StockTypes
  <1> HIDE DEF meta
  <1>5. /\ row \in LotRow /\ row.status = lots[o.of].status
        /\ o.of \in overtaken[k] => row.late
    BY <1>2, <1>3 DEF LotRow
  <1> HIDE DEF row
  <1>6. wanted[o.of] # {} => row.status = "ARCHIVED" /\ row.late
    BY <1>1, <1>2, <1>5 DEF StockInv, LotHolds
  <1>7. wanted' = [wanted EXCEPT ![o.of] = wanted[o.of]] /\ started' \in 0 .. MaxOrders
    BY <1>4 DEF StockInv, StockTypes
  <1>8. wanted[o.of] \in SUBSET Meta
    BY <1>1 DEF StockInv, LotHolds
  <1> QED BY <1>1, <1>4, <1>5, <1>6, <1>7, <1>8, LotWriteKeeps

LEMMA ArchiveBatchKeeps == ASSUME StockInv, NEW b \in Batch, ArchiveRestockBatch(b) PROVE StockInv'
  <1> DEFINE row == [lots[b] EXCEPT !.status = "ARCHIVED"]
             was == IF wanted[b] = {} THEN {lots[b].meta} ELSE wanted[b]
  <1>1. lots[b] \in LotRow
    BY StockRowsApart DEF ArchiveRestockBatch, Received, Exists, StockInv, StockTypes
  <1>2. /\ row \in LotRow /\ row.status = "ARCHIVED" /\ row.meta = lots[b].meta
        /\ row.late = lots[b].late /\ row.meta \in Meta
    BY <1>1 DEF LotRow, CatalogStatus
  <1>3. /\ lots' = [lots EXCEPT ![b] = row] /\ wanted' = [wanted EXCEPT ![b] = was]
        /\ started' \in 0 .. MaxOrders /\ Archives(b) /\ UNCHANGED <<shelves, goods, orders>>
    BY <1>1, StockAssumption DEF ArchiveRestockBatch, StockInv, StockTypes
  <1> HIDE DEF row
  <1>4. (row.late \/ was = {row.meta}) /\ was \in SUBSET Meta
    BY <1>2 DEF StockInv, LotHolds
  <1> HIDE DEF was
  <1> QED BY <1>2, <1>3, <1>4, LotWriteKeeps

LEMMA StockKept == StockInv /\ [StockStep]_stockVars => StockInv'
  <1> SUFFICES ASSUME StockInv, [StockStep]_stockVars PROVE StockInv'
    OBVIOUS
  <1>1. CASE ShelfCommands
    BY <1>1, CreateCategoryKeeps, ArchiveShelfKeeps DEF ShelfCommands
  <1>2. CASE GoodCommands
    BY <1>2, ItemStatusKeeps, CreateItemKeeps, UpdateItemKeeps DEF GoodCommands
  <1>3. CASE BatchCommands
    BY <1>3, ArchiveBatchKeeps, CreateBatchKeeps, UpdateBatchKeeps DEF BatchCommands
  <1>4. CASE \E k \in Keeper : Continue(k)
    BY <1>4, CommitArchiveKeeps, InsertItemKeeps, CheckCategoryKeeps, WriteItemKeeps,
       InsertBatchKeeps, WriteBatchKeeps DEF Continue
  <1>5. CASE UNCHANGED stockVars
    BY <1>5 DEF stockVars, StockInv, StockTypes, ToldOfArchive, OrderFits, AskedCategory,
                ItemHolds, LotHolds, Stocked, Received
  <1> QED BY <1>1, <1>2, <1>3, <1>4, <1>5 DEF StockStep

LEMMA StockFollows == StockInv => StockTypeOK /\ ArchivesHold
  <1> SUFFICES ASSUME StockInv PROVE StockTypeOK /\ ArchivesHold
    OBVIOUS
  <1>1. StockTypeOK
    BY DEF StockInv, StockTypes, StockTypeOK, ItemRow, LotRow
  <1>2. ArchivesHold
    BY DEF StockInv, ArchivesHold, ItemHolds, LotHolds
  <1> QED BY <1>1, <1>2

-----------------------------------------------------------------------------
\* What sales are being offered is not edited under them (updateRule), and what was
\* archived in the stock catalogue stays as it was put away (archiveStockItem,
\* archiveCategoryAndDetachItems, archiveRestockBatch), but for the races that the
\* two name.
THEOREM CatalogStaysSafe == TradeSpec => []CatalogSafe
  <1>1. TradeInit => DiscountInv /\ StockInv
    <2>1. DiscountInit => DiscountInv
      BY DiscountAssumption DEF DiscountInit, DiscountInv, Time, EditFits, Settled, InFlight, NoEdit
    <2>2. StockInit => StockInv
      <3> SUFFICES ASSUME StockInit PROVE StockInv
        OBVIOUS
      <3>1. StockTypes
        BY StockAssumption DEF StockInit, StockTypes
      <3>2. \A k \in Keeper : orders[k] = NoOrder /\ orders[k] \notin Order
        BY OrdersApart DEF StockInit
      <3>3. ToldOfArchive
        BY <3>2 DEF ToldOfArchive
      <3>4. \A k \in Keeper : OrderFits(orders[k], overtaken[k])
        BY <3>2 DEF OrderFits, Order
      <3>5. (\A g \in Good : ItemHolds(g)) /\ (\A b \in Batch : LotHolds(b))
        BY DEF StockInit, ItemHolds, LotHolds, Stocked, Exists, Absent
      <3> QED BY <3>1, <3>3, <3>4, <3>5 DEF StockInv
    <2> QED BY <2>1, <2>2 DEF TradeInit
  <1>2. [TradeNext]_tradeVars => [DiscountStep]_discountVars /\ [StockStep]_stockVars
    BY DEF TradeNext, DiscountTurn, MenuTurn, StockTurn, CheckoutTurn, LogTurn, NoteTurn, tradeVars
  <1>3. DiscountInv /\ StockInv => CatalogSafe
    BY DiscountFollows, StockFollows DEF CatalogSafe
  <1> QED BY <1>1, <1>2, <1>3, DiscountKept, StockKept, PTL DEF TradeSpec

-----------------------------------------------------------------------------
(***************************************************************************)
(* Notifications.  The delivery whose upsert was the first is the only one *)
(* that announces a notice, and until it does nobody has been told of it.  *)
(***************************************************************************)
WaitingRow == [phase : {"reading", "upserted"}, notice : Notice, to : SUBSET Person,
               fresh : BOOLEAN]
AnnouncingRow == [phase : {"announcing"}, notice : Notice, to : SUBSET Person,
                  left : SUBSET Person]
DeliveryRow == WaitingRow \cup AnnouncingRow \cup {AtRest}

Announces(r, n) ==
    \/ r \in WaitingRow /\ r.phase = "upserted" /\ r.fresh /\ r.notice = n
    \/ r \in AnnouncingRow /\ r.notice = n

Silent(n) == \A p \in Person : feed[p][Created(n)] = 0 /\ pushed[p][n] = 0

\* A delivery that is going to announce a notice has not told anybody who is left.
DeliveryFits(r) ==
    /\ \A n \in Notice : Announces(r, n) => n \in inserted
    /\ r \in WaitingRow /\ Announces(r, r.notice) => Silent(r.notice)
    /\ r \in AnnouncingRow =>
           /\ r.left \subseteq r.to /\ r.to \subseteq DOMAIN recipients[r.notice]
           /\ \A p \in r.left : feed[p][Created(r.notice)] = 0
           /\ \A p \in Person : pushed[p][r.notice] = 0

NoteTypes ==
    /\ subjects \in [Till \cup Claim -> {"OPEN", "CLOSED", "none", "PENDING", "APPROVED", "REJECTED"}]
    /\ managers \subseteq Person
    /\ deliveries \in [Delivery -> DeliveryRow]
    /\ recipients = [n \in Notice |-> recipients[n]]
    /\ \A n \in Notice : /\ DOMAIN recipients[n] \subseteq Person
                         /\ recipients[n] = [p \in DOMAIN recipients[n] |-> recipients[n][p]]
    /\ inserted \subseteq Notice /\ marking \subseteq Person \X Notice
    /\ feed \in [Person -> [Change -> Nat]] /\ pushed \in [Person -> [Notice -> Nat]]

NoteInv ==
    /\ NoteTypes /\ NoticesAreTold
    /\ \A d \in Delivery : DeliveryFits(deliveries[d])
    /\ \A n \in Notice, d, e \in Delivery :
           Announces(deliveries[d], n) /\ Announces(deliveries[e], n) => d = e
    /\ \A n \in Notice : n \notin inserted => Silent(n)
    /\ \A p \in Person, n \in Notice :
           <<p, n>> \in marking \/ feed[p][MarkedRead(n)] > 0 =>
               p \in DOMAIN recipients[n] /\ recipients[n][p] = "read"

LEMMA ChangesApart ==
    /\ \A n \in Notice : Created(n) \in Change /\ MarkedRead(n) \in Change
    /\ \A m, n \in Notice : /\ Created(m) # MarkedRead(n)
                            /\ Created(m) = Created(n) => m = n
                            /\ MarkedRead(m) = MarkedRead(n) => m = n
  BY DEF Created, MarkedRead, Change

LEMMA DeliveriesApart ==
    ASSUME NEW r \in DeliveryRow
    PROVE  /\ r.phase \in {"reading", "upserted"} <=> r \in WaitingRow
           /\ r.phase = "announcing" <=> r \in AnnouncingRow
           /\ r = AtRest => r \notin WaitingRow /\ r \notin AnnouncingRow
           /\ r \in WaitingRow => r \notin AnnouncingRow
           /\ r \in WaitingRow \cup AnnouncingRow => r.notice \in Notice
  <1>1. r \in WaitingRow => r.phase \in {"reading", "upserted"} /\ r.notice \in Notice
    BY DEF WaitingRow
  <1>2. r \in AnnouncingRow => r.phase = "announcing" /\ r.notice \in Notice
    BY DEF AnnouncingRow
  <1>3. r = AtRest => r.phase = "idle"
    BY DEF AtRest
  <1> QED BY <1>1, <1>2, <1>3 DEF DeliveryRow

\* A row of a delivery that changes by itself, and announces nothing that it did not.
LEMMA DeliveryMoves ==
    ASSUME NoteInv, NEW d \in Delivery, NEW row \in DeliveryRow,
           deliveries' = [deliveries EXCEPT ![d] = row],
           DeliveryFits(row),
           \A n \in Notice : Announces(row, n) => Announces(deliveries[d], n),
           UNCHANGED <<subjects, managers, recipients, inserted, feed, pushed, marking>>
    PROVE  NoteInv'
  <1>1. /\ deliveries' \in [Delivery -> DeliveryRow]
        /\ \A e \in Delivery : deliveries'[e] = IF e = d THEN row ELSE deliveries[e]
    BY DEF NoteInv, NoteTypes
  <1>2. NoteTypes'
    BY <1>1 DEF NoteInv, NoteTypes
  <1>3. NoticesAreTold'
    BY DEF NoteInv, NoticesAreTold
  <1>4. \A e \in Delivery : DeliveryFits(deliveries'[e])
    BY <1>1 DEF NoteInv
  <1>5. \A e \in Delivery : DeliveryFits(deliveries[e])'
    BY <1>4 DEF DeliveryFits, Announces, Silent
  <1>6. \A n \in Notice, a, b \in Delivery :
            Announces(deliveries'[a], n) /\ Announces(deliveries'[b], n) => a = b
    BY <1>1 DEF NoteInv
  <1>7. \A n \in Notice, a, b \in Delivery :
            Announces(deliveries[a], n)' /\ Announces(deliveries[b], n)' => a = b
    BY <1>6 DEF Announces
  <1> QED BY <1>2, <1>3, <1>5, <1>7 DEF NoteInv, Silent

LEMMA SubscriptionKeeps ==
    ASSUME NoteInv, NEW d \in Delivery, NEW n \in Notice, NEW to \in SUBSET Person,
           Subscribed(d, n, to),
           UNCHANGED <<subjects, managers, recipients, inserted, feed, pushed, marking>>
    PROVE  NoteInv'
  <1> DEFINE row == [phase |-> "reading", notice |-> n, to |-> to, fresh |-> FALSE]
  <1>1. row \in WaitingRow /\ row.phase = "reading"
    BY DEF WaitingRow
  <1>2. deliveries' = [deliveries EXCEPT ![d] = row]
    BY DEF Subscribed
  <1> HIDE DEF row
  <1>3. row \in DeliveryRow /\ row \notin AnnouncingRow
    BY <1>1, DeliveriesApart DEF DeliveryRow
  <1>4. \A m \in Notice : ~Announces(row, m)
    BY <1>1, <1>3 DEF Announces
  <1>5. ~Announces(row, row.notice)
    BY <1>1, <1>3 DEF Announces
  <1>6. DeliveryFits(row)
    BY <1>3, <1>4, <1>5 DEF DeliveryFits
  <1> QED BY <1>2, <1>3, <1>4, <1>6, DeliveryMoves

LEMMA RestKeeps ==
    ASSUME NoteInv, NEW d \in Delivery, deliveries' = [deliveries EXCEPT ![d] = AtRest],
           UNCHANGED <<subjects, managers, recipients, inserted, feed, pushed, marking>>
    PROVE  NoteInv'
  <1>1. AtRest \in DeliveryRow /\ AtRest \notin WaitingRow /\ AtRest \notin AnnouncingRow
    BY DeliveriesApart DEF DeliveryRow
  <1>2. \A n \in Notice : ~Announces(AtRest, n)
    BY <1>1 DEF Announces
  <1>3. DeliveryFits(AtRest)
    BY <1>1, <1>2 DEF DeliveryFits
  <1> QED BY <1>1, <1>2, <1>3, DeliveryMoves

LEMMA UpsertKeeps ==
    ASSUME NoteInv, NEW d \in Delivery, UpsertNotification(d),
           UNCHANGED <<subjects, managers, marking>>
    PROVE  NoteInv'
  <1> PICK r \in WaitingRow : r = deliveries[d]
    BY DeliveriesApart DEF UpsertNotification, NoteInv, NoteTypes
  <1>1. r.notice \in Notice
    BY DEF WaitingRow
  <1> DEFINE row == [r EXCEPT !.phase = "upserted", !.fresh = WasInserted(r.notice)]
  <1>2. /\ row \in WaitingRow /\ row.notice = r.notice /\ row.phase = "upserted"
        /\ row.fresh = WasInserted(r.notice)
    BY DEF WaitingRow, WasInserted
  <1>3. deliveries' = [deliveries EXCEPT ![d] = row] /\ inserted' = inserted \cup {r.notice}
        /\ UNCHANGED <<recipients, feed, pushed>>
    BY DEF UpsertNotification, NoteInv, NoteTypes
  <1> HIDE DEF row
  <1>4. /\ deliveries' \in [Delivery -> DeliveryRow]
        /\ \A e \in Delivery : deliveries'[e] = IF e = d THEN row ELSE deliveries[e]
    BY <1>2, <1>3 DEF NoteInv, NoteTypes, DeliveryRow
  <1>5. NoteTypes'
    BY <1>1, <1>3, <1>4 DEF NoteInv, NoteTypes
  <1>6. NoticesAreTold'
    BY <1>3 DEF NoteInv, NoticesAreTold
  <1>7. row \in DeliveryRow /\ row \notin AnnouncingRow
    BY <1>2, DeliveriesApart DEF DeliveryRow
  <1>8. \A n \in Notice : Announces(row, n) => n = r.notice /\ n \notin inserted /\ Silent(n)
    BY <1>2, <1>7 DEF Announces, WasInserted, NoteInv
  <1>9. ASSUME NEW e \in Delivery PROVE DeliveryFits(deliveries[e])'
    <2>1. CASE e = d
      <3>1. deliveries'[e] = row
        BY <1>4, <2>1
      <3>2. \A n \in Notice : Announces(row, n) => n \in inserted' /\ Silent(n)'
        BY <1>3, <1>8 DEF Silent
      <3> QED BY <1>1, <1>2, <1>7, <3>1, <3>2 DEF DeliveryFits, Announces
    <2>2. CASE e # d
      <3>1. deliveries'[e] = deliveries[e]
        BY <1>4, <2>2
      <3> QED BY <1>3, <3>1 DEF NoteInv, DeliveryFits, Announces, Silent
    <2> QED BY <2>1, <2>2
  <1>10. ASSUME NEW n \in Notice, NEW a \in Delivery, NEW b \in Delivery,
                Announces(deliveries'[a], n), Announces(deliveries'[b], n)
         PROVE  a = b
    <2>1. \A e \in Delivery : Announces(deliveries[e], n) => n \in inserted
      BY DEF NoteInv, DeliveryFits
    <2> QED BY <1>4, <1>8, <1>10, <2>1 DEF NoteInv
  <1>11. \A n \in Notice, a, b \in Delivery :
            Announces(deliveries[a], n)' /\ Announces(deliveries[b], n)' => a = b
    BY <1>10 DEF Announces
  <1>12. \A n \in Notice : n \notin inserted' => Silent(n)'
    BY <1>3 DEF NoteInv, Silent
  <1> QED BY <1>3, <1>5, <1>6, <1>9, <1>11, <1>12 DEF NoteInv

\* Rows are added to an inbox; those that are there stay as they are.
LEMMA InsertRecipientsKeeps ==
    ASSUME NoteInv, NEW d \in Delivery, InsertRecipients(d),
           UNCHANGED <<subjects, managers, marking>>
    PROVE  NoteInv'
  <1> PICK r \in WaitingRow : r = deliveries[d] /\ r.phase = "upserted"
    BY DeliveriesApart DEF InsertRecipients, NoteInv, NoteTypes
  <1>1. r.notice \in Notice /\ r.to \subseteq Person /\ r.fresh \in BOOLEAN
    BY DEF WaitingRow
  <1> DEFINE old == recipients[r.notice]
             inbox == [p \in DOMAIN old \cup r.to |-> IF p \in DOMAIN old THEN old[p] ELSE "unread"]
             announcing == [phase |-> "announcing", notice |-> r.notice, to |-> r.to, left |-> r.to]
             row == IF r.fresh THEN announcing ELSE AtRest
  <1>2. /\ recipients' = [recipients EXCEPT ![r.notice] = inbox]
        /\ deliveries' = [deliveries EXCEPT ![d] = row]
        /\ UNCHANGED <<inserted, feed, pushed>>
    BY DEF InsertRecipients, NoteInv, NoteTypes
  <1>3. /\ announcing \in AnnouncingRow /\ announcing.notice = r.notice /\ announcing.to = r.to
        /\ announcing.left = r.to
    BY <1>1 DEF AnnouncingRow
  <1>4. /\ DOMAIN inbox = DOMAIN old \cup r.to /\ DOMAIN inbox \subseteq Person
        /\ inbox = [p \in DOMAIN inbox |-> inbox[p]]
        /\ \A p \in DOMAIN old : inbox[p] = old[p]
    BY <1>1 DEF NoteInv, NoteTypes
  <1> HIDE DEF announcing, inbox
  <1>5. /\ row \in DeliveryRow /\ (row = AtRest \/ (r.fresh /\ row = announcing))
        /\ row \notin WaitingRow
    BY <1>1, <1>3, DeliveriesApart DEF DeliveryRow
  <1> HIDE DEF row
  <1>6. /\ deliveries' \in [Delivery -> DeliveryRow]
        /\ \A e \in Delivery : deliveries'[e] = IF e = d THEN row ELSE deliveries[e]
    BY <1>2, <1>5 DEF NoteInv, NoteTypes
  <1>7. /\ recipients' = [n \in Notice |-> recipients'[n]]
        /\ \A n \in Notice : recipients'[n] = IF n = r.notice THEN inbox ELSE recipients[n]
    BY <1>1, <1>2 DEF NoteInv, NoteTypes
  <1>8. \A n \in Notice : /\ DOMAIN recipients[n] \subseteq DOMAIN recipients'[n]
                          /\ \A p \in DOMAIN recipients[n] : recipients'[n][p] = recipients[n][p]
    BY <1>4, <1>7
  <1>9. NoteTypes'
    <2>1. \A n \in Notice : /\ DOMAIN recipients'[n] \subseteq Person
                            /\ recipients'[n] = [p \in DOMAIN recipients'[n] |-> recipients'[n][p]]
      <3> SUFFICES ASSUME NEW n \in Notice
                   PROVE  /\ DOMAIN recipients'[n] \subseteq Person
                          /\ recipients'[n] = [p \in DOMAIN recipients'[n] |-> recipients'[n][p]]
        OBVIOUS
      <3>1. CASE n = r.notice
        <4>1. recipients'[n] = inbox
          BY <1>7, <3>1
        <4> QED BY <1>4, <4>1
      <3>2. CASE n # r.notice
        <4>1. recipients'[n] = recipients[n]
          BY <1>7, <3>2
        <4> QED BY <4>1 DEF NoteInv, NoteTypes
      <3> QED BY <3>1, <3>2
    <2>2. recipients' = [n \in Notice |-> recipients'[n]]
      BY <1>7
    <2> QED BY <1>2, <1>6, <2>1, <2>2 DEF NoteInv, NoteTypes
  <1>10. /\ NoticesAreTold'
         /\ \A p \in Person, n \in Notice :
                <<p, n>> \in marking' \/ feed'[p][MarkedRead(n)] > 0 =>
                    p \in DOMAIN recipients'[n] /\ recipients'[n][p] = "read"
    <2>1. feed' = feed /\ pushed' = pushed /\ marking' = marking
      BY <1>2
    <2>2. ASSUME NEW p \in Person, NEW n \in Notice
          PROVE  /\ feed[p][Created(n)] <= 1 /\ pushed[p][n] <= 1
                 /\ feed[p][Created(n)] + pushed[p][n] > 0 => p \in DOMAIN recipients[n]
                 /\ <<p, n>> \in marking \/ feed[p][MarkedRead(n)] > 0 =>
                        p \in DOMAIN recipients[n] /\ recipients[n][p] = "read"
      BY DEF NoteInv, NoticesAreTold
    <2>3. ASSUME NEW p \in Person, NEW n \in Notice, p \in DOMAIN recipients[n]
          PROVE  p \in DOMAIN recipients'[n] /\ recipients'[n][p] = recipients[n][p]
      BY <1>8, <2>3
    <2>4. ASSUME NEW p \in Person, NEW n \in Notice
          PROVE  /\ feed'[p][Created(n)] <= 1 /\ pushed'[p][n] <= 1
                 /\ feed'[p][Created(n)] + pushed'[p][n] > 0 => p \in DOMAIN recipients'[n]
                 /\ <<p, n>> \in marking' \/ feed'[p][MarkedRead(n)] > 0 =>
                        p \in DOMAIN recipients'[n] /\ recipients'[n][p] = "read"
      BY <2>1, <2>2, <2>3
    <2>5. ASSUME NEW p \in Person, NEW n \in Notice
          PROVE  feed'[p][MarkedRead(n)] > 0 => recipients'[n][p] = "read"
      BY <2>4
    <2> QED BY <2>4, <2>5 DEF NoticesAreTold
  <1>11. \A n \in Notice : Announces(row, n) => Announces(r, n)
    BY <1>3, <1>5, DeliveriesApart DEF Announces
  <1>12. ASSUME NEW e \in Delivery PROVE DeliveryFits(deliveries[e])'
    <2>1. CASE e = d
      <3>1. deliveries'[e] = row
        BY <1>6, <2>1
      <3>2. DeliveryFits(r)
        BY DEF NoteInv
      <3>3. \A n \in Notice : Announces(row, n) => n \in inserted
        BY <1>11, <3>2 DEF DeliveryFits
      <3>4. row \in AnnouncingRow =>
                row = announcing /\ Silent(r.notice) /\ r.to \subseteq DOMAIN recipients'[r.notice]
        BY <1>1, <1>4, <1>5, <1>7, <3>2, DeliveriesApart DEF DeliveryFits, Announces
      <3> QED BY <1>1, <1>2, <1>3, <1>5, <3>1, <3>3, <3>4 DEF DeliveryFits, Announces, Silent
    <2>2. CASE e # d
      <3>1. deliveries'[e] = deliveries[e] /\ DeliveryFits(deliveries[e])
        BY <1>6, <2>2 DEF NoteInv
      <3>2. deliveries[e] \in AnnouncingRow => deliveries[e].notice \in Notice
        BY DEF AnnouncingRow
      <3>3. deliveries[e] \in AnnouncingRow =>
                deliveries[e].to \subseteq DOMAIN recipients'[deliveries[e].notice]
        BY <1>8, <3>1, <3>2 DEF DeliveryFits
      <3> QED BY <1>2, <3>1, <3>3 DEF DeliveryFits, Announces, Silent
    <2> QED BY <2>1, <2>2
  <1>13. \A n \in Notice, a, b \in Delivery :
            Announces(deliveries'[a], n) /\ Announces(deliveries'[b], n) => a = b
    BY <1>6, <1>11 DEF NoteInv
  <1>14. \A n \in Notice, a, b \in Delivery :
            Announces(deliveries[a], n)' /\ Announces(deliveries[b], n)' => a = b
    BY <1>13 DEF Announces
  <1> QED BY <1>2, <1>9, <1>10, <1>12, <1>14 DEF NoteInv, Silent

\* One change more, of one kind, for one account.
LEMMA TellAdds ==
    ASSUME NoteInv, NEW p \in Person, NEW c \in Change, Tell(p, c)
    PROVE  /\ feed' \in [Person -> [Change -> Nat]]
           /\ \A q \in Person, x \in Change :
                  feed'[q][x] = IF q = p /\ x = c THEN feed[q][x] + 1 ELSE feed[q][x]
  <1>1. feed \in [Person -> [Change -> Nat]] /\ feed' = [feed EXCEPT ![p][c] = feed[p][c] + 1]
    BY DEF Tell, NoteInv, NoteTypes
  <1> QED BY <1>1

LEMMA AppendCreatedKeeps ==
    ASSUME NoteInv, NEW d \in Delivery, NEW p \in Person, AppendCreated(d, p),
           UNCHANGED <<subjects, managers, marking>>
    PROVE  NoteInv'
  <1> PICK r \in AnnouncingRow : r = deliveries[d] /\ p \in r.left
    BY DeliveriesApart DEF AppendCreated, NoteInv, NoteTypes
  <1>1. r.notice \in Notice /\ r.to \subseteq Person /\ r.left \subseteq Person
    BY DEF AnnouncingRow
  <1> DEFINE row == [r EXCEPT !.left = @ \ {p}]
  <1>2. /\ deliveries' = [deliveries EXCEPT ![d] = row]
        /\ Tell(p, Created(r.notice))
        /\ UNCHANGED <<inserted, recipients, pushed>>
    BY DEF AppendCreated, NoteInv, NoteTypes
  <1>3. /\ row \in AnnouncingRow /\ row.notice = r.notice /\ row.to = r.to
        /\ row.left = r.left \ {p}
    BY <1>1 DEF AnnouncingRow
  <1> HIDE DEF row
  <1>4. /\ deliveries' \in [Delivery -> DeliveryRow]
        /\ \A e \in Delivery : deliveries'[e] = IF e = d THEN row ELSE deliveries[e]
    BY <1>2, <1>3 DEF NoteInv, NoteTypes, DeliveryRow
  <1>5. /\ feed' \in [Person -> [Change -> Nat]]
        /\ \A q \in Person, n \in Notice :
               /\ feed'[q][MarkedRead(n)] = feed[q][MarkedRead(n)]
               /\ feed'[q][Created(n)] = IF q = p /\ n = r.notice THEN feed[q][Created(n)] + 1
                                         ELSE feed[q][Created(n)]
    <2>1. Created(r.notice) \in Change
      BY <1>1, ChangesApart
    <2>2. /\ feed' \in [Person -> [Change -> Nat]]
          /\ \A q \in Person, x \in Change :
                 feed'[q][x] = IF q = p /\ x = Created(r.notice) THEN feed[q][x] + 1 ELSE feed[q][x]
      BY <1>2, <2>1, TellAdds
    <2> QED BY <1>1, <2>2, ChangesApart
  <1>6. /\ DeliveryFits(r) /\ Announces(r, r.notice)
        /\ feed[p][Created(r.notice)] = 0 /\ r.to \subseteq DOMAIN recipients[r.notice]
        /\ p \in DOMAIN recipients[r.notice] /\ r.notice \in inserted
    BY <1>1 DEF NoteInv, DeliveryFits, Announces
  <1>7. NoteTypes'
    BY <1>2, <1>4, <1>5 DEF NoteInv, NoteTypes
  <1>8. NoticesAreTold'
    <2> SUFFICES ASSUME NEW q \in Person, NEW n \in Notice
                 PROVE  /\ feed'[q][Created(n)] <= 1 /\ pushed'[q][n] <= 1
                        /\ feed'[q][Created(n)] + pushed'[q][n] > 0 => q \in DOMAIN recipients'[n]
                        /\ feed'[q][MarkedRead(n)] > 0 => recipients'[n][q] = "read"
      BY DEF NoticesAreTold
    <2>1. /\ feed[q][Created(n)] <= 1 /\ pushed[q][n] <= 1
          /\ feed[q][Created(n)] + pushed[q][n] > 0 => q \in DOMAIN recipients[n]
          /\ feed[q][MarkedRead(n)] > 0 => recipients[n][q] = "read"
      BY DEF NoteInv, NoticesAreTold
    <2> QED BY <1>2, <1>5, <1>6, <2>1
  <1>9. \A n \in Notice : n # r.notice /\ Silent(n) => Silent(n)'
    BY <1>2, <1>5 DEF Silent
  <1>10. ASSUME NEW e \in Delivery PROVE DeliveryFits(deliveries[e])'
    <2>1. CASE e = d
      <3>1. deliveries'[e] = row
        BY <1>4, <2>1
      <3>2. row \notin WaitingRow
        BY <1>3, DeliveriesApart DEF DeliveryRow
      <3>3. \A q \in row.left : q \in Person /\ feed'[q][Created(r.notice)] = 0
        BY <1>1, <1>3, <1>5, <1>6 DEF DeliveryFits
      <3>4. \A q \in Person : pushed'[q][r.notice] = 0
        BY <1>2, <1>6 DEF DeliveryFits
      <3> QED BY <1>1, <1>2, <1>3, <1>6, <3>1, <3>2, <3>3, <3>4 DEF DeliveryFits, Announces
    <2>2. CASE e # d
      <3>1. deliveries'[e] = deliveries[e] /\ DeliveryFits(deliveries[e])
            /\ deliveries[e] \in DeliveryRow
        BY <1>4, <2>2 DEF NoteInv, NoteTypes
      <3>2. \A n \in Notice : Announces(deliveries[e], n) => n # r.notice
        BY <1>1, <1>6, <2>2 DEF NoteInv
      <3>3. deliveries[e] \in AnnouncingRow =>
                /\ deliveries[e].notice \in Notice /\ deliveries[e].notice # r.notice
                /\ deliveries[e].left \subseteq Person
        BY <3>2 DEF AnnouncingRow, Announces
      <3>4. deliveries[e] \in WaitingRow /\ Announces(deliveries[e], deliveries[e].notice) =>
                deliveries[e].notice \in Notice /\ deliveries[e].notice # r.notice
        BY <3>1, <3>2, DeliveriesApart
      <3>5. deliveries[e] \in AnnouncingRow =>
                /\ \A q \in deliveries[e].left : feed'[q][Created(deliveries[e].notice)] = 0
                /\ \A q \in Person : pushed'[q][deliveries[e].notice] = 0
        BY <1>2, <1>5, <3>1, <3>3 DEF DeliveryFits
      <3> QED BY <1>2, <1>9, <3>1, <3>4, <3>5 DEF DeliveryFits, Announces
    <2> QED BY <2>1, <2>2
  <1>11. \A n \in Notice : Announces(row, n) => Announces(r, n)
    BY <1>3, DeliveriesApart DEF Announces, DeliveryRow
  <1>12. \A n \in Notice, a, b \in Delivery :
            Announces(deliveries'[a], n) /\ Announces(deliveries'[b], n) => a = b
    BY <1>4, <1>11 DEF NoteInv
  <1>13. \A n \in Notice, a, b \in Delivery :
            Announces(deliveries[a], n)' /\ Announces(deliveries[b], n)' => a = b
    BY <1>12 DEF Announces
  <1>14. \A n \in Notice : n \notin inserted' => Silent(n)'
    BY <1>2, <1>6, <1>9 DEF NoteInv
  <1>15. \A q \in Person, n \in Notice :
            <<q, n>> \in marking' \/ feed'[q][MarkedRead(n)] > 0 =>
                q \in DOMAIN recipients'[n] /\ recipients'[n][q] = "read"
    BY <1>2, <1>5 DEF NoteInv
  <1> QED BY <1>7, <1>8, <1>10, <1>13, <1>14, <1>15 DEF NoteInv

LEMMA PublishKeeps ==
    ASSUME NoteInv, NEW d \in Delivery, NEW listening \in SUBSET Person,
           PublishCreated(d, listening), UNCHANGED <<subjects, managers, marking>>
    PROVE  NoteInv'
  <1> PICK r \in AnnouncingRow : r = deliveries[d]
    BY DeliveriesApart DEF PublishCreated, NoteInv, NoteTypes
  <1>1. r.notice \in Notice /\ r.to \subseteq Person
    BY DEF AnnouncingRow
  <1>2. /\ deliveries' = [deliveries EXCEPT ![d] = AtRest]
        /\ UNCHANGED <<inserted, recipients, feed>>
        /\ pushed' = [q \in Person |-> IF q \in r.to \cap listening
                        THEN [pushed[q] EXCEPT ![r.notice] = pushed[q][r.notice] + 1] ELSE pushed[q]]
    BY DEF PublishCreated, NoteInv, NoteTypes
  <1>3. /\ pushed' \in [Person -> [Notice -> Nat]]
        /\ \A q \in Person, n \in Notice :
               pushed'[q][n] = IF q \in r.to \cap listening /\ n = r.notice
                               THEN pushed[q][n] + 1 ELSE pushed[q][n]
    BY <1>1, <1>2 DEF NoteInv, NoteTypes
  <1>4. AtRest \in DeliveryRow /\ AtRest \notin WaitingRow /\ AtRest \notin AnnouncingRow
    BY DeliveriesApart DEF DeliveryRow
  <1>5. /\ deliveries' \in [Delivery -> DeliveryRow]
        /\ \A e \in Delivery : deliveries'[e] = IF e = d THEN AtRest ELSE deliveries[e]
    BY <1>2, <1>4 DEF NoteInv, NoteTypes
  <1>6. /\ DeliveryFits(r) /\ Announces(r, r.notice)
        /\ r.to \subseteq DOMAIN recipients[r.notice] /\ r.notice \in inserted
        /\ \A q \in Person : pushed[q][r.notice] = 0
    BY <1>1 DEF NoteInv, DeliveryFits, Announces
  <1>7. NoteTypes'
    BY <1>2, <1>3, <1>5 DEF NoteInv, NoteTypes
  <1>8. NoticesAreTold'
    <2> SUFFICES ASSUME NEW q \in Person, NEW n \in Notice
                 PROVE  /\ feed'[q][Created(n)] <= 1 /\ pushed'[q][n] <= 1
                        /\ feed'[q][Created(n)] + pushed'[q][n] > 0 => q \in DOMAIN recipients'[n]
                        /\ feed'[q][MarkedRead(n)] > 0 => recipients'[n][q] = "read"
      BY DEF NoticesAreTold
    <2>1. /\ feed[q][Created(n)] <= 1 /\ pushed[q][n] <= 1
          /\ feed[q][Created(n)] + pushed[q][n] > 0 => q \in DOMAIN recipients[n]
          /\ feed[q][MarkedRead(n)] > 0 => recipients[n][q] = "read"
      BY DEF NoteInv, NoticesAreTold
    <2>2. /\ pushed'[q][n] <= 1 /\ (pushed'[q][n] = pushed[q][n] \/ q \in DOMAIN recipients[n])
      BY <1>3, <1>6, <2>1
    <2> QED BY <1>2, <2>1, <2>2
  <1>9. \A n \in Notice : n # r.notice /\ Silent(n) => Silent(n)'
    BY <1>2, <1>3 DEF Silent
  <1>10. ASSUME NEW e \in Delivery PROVE DeliveryFits(deliveries[e])'
    <2>1. CASE e = d
      <3>1. deliveries'[e] = AtRest
        BY <1>5, <2>1
      <3> QED BY <1>4, <3>1 DEF DeliveryFits, Announces
    <2>2. CASE e # d
      <3>1. deliveries'[e] = deliveries[e] /\ DeliveryFits(deliveries[e])
            /\ deliveries[e] \in DeliveryRow
        BY <1>5, <2>2 DEF NoteInv, NoteTypes
      <3>2. \A n \in Notice : Announces(deliveries[e], n) => n # r.notice
        BY <1>1, <1>6, <2>2 DEF NoteInv
      <3>3. deliveries[e] \in AnnouncingRow =>
                deliveries[e].notice \in Notice /\ deliveries[e].notice # r.notice
        BY <3>2 DEF AnnouncingRow, Announces
      <3>4. deliveries[e] \in WaitingRow /\ Announces(deliveries[e], deliveries[e].notice) =>
                deliveries[e].notice \in Notice /\ deliveries[e].notice # r.notice
        BY <3>1, <3>2, DeliveriesApart
      <3>5. deliveries[e] \in AnnouncingRow =>
                \A q \in Person : pushed'[q][deliveries[e].notice] = 0
        BY <1>3, <3>1, <3>3 DEF DeliveryFits
      <3> QED BY <1>2, <1>9, <3>1, <3>4, <3>5 DEF DeliveryFits, Announces
    <2> QED BY <2>1, <2>2
  <1>11. \A n \in Notice, a, b \in Delivery :
            Announces(deliveries'[a], n) /\ Announces(deliveries'[b], n) => a = b
    BY <1>4, <1>5 DEF NoteInv, Announces
  <1>12. \A n \in Notice, a, b \in Delivery :
            Announces(deliveries[a], n)' /\ Announces(deliveries[b], n)' => a = b
    BY <1>11 DEF Announces
  <1>13. \A n \in Notice : n \notin inserted' => Silent(n)'
    BY <1>2, <1>6, <1>9 DEF NoteInv
  <1> QED BY <1>2, <1>7, <1>8, <1>10, <1>12, <1>13 DEF NoteInv

\* Marks are set on rows that an inbox has, and never taken back.
LEMMA MarkKeeps ==
    ASSUME NoteInv, NEW p \in Person, NEW set \in SUBSET Notice, MarkRows(p, set),
           \A n \in set : p \in DOMAIN recipients[n],
           UNCHANGED <<subjects, managers, deliveries, inserted, pushed>>
    PROVE  NoteInv'
  <1>1. /\ recipients' = [n \in Notice |-> IF n \in set
                            THEN [recipients[n] EXCEPT ![p] = "read"] ELSE recipients[n]]
        /\ marking' = marking \cup ({p} \X set)
        /\ UNCHANGED feed
    BY DEF MarkRows
  <1>2. \A n \in Notice : /\ DOMAIN recipients'[n] = DOMAIN recipients[n]
                          /\ recipients'[n] = [q \in DOMAIN recipients'[n] |-> recipients'[n][q]]
                          /\ \A q \in DOMAIN recipients[n] :
                                 recipients'[n][q] = IF q = p /\ n \in set THEN "read"
                                                     ELSE recipients[n][q]
    <2> SUFFICES ASSUME NEW n \in Notice
                 PROVE  /\ DOMAIN recipients'[n] = DOMAIN recipients[n]
                        /\ recipients'[n] = [q \in DOMAIN recipients'[n] |-> recipients'[n][q]]
                        /\ \A q \in DOMAIN recipients[n] :
                               recipients'[n][q] = IF q = p /\ n \in set THEN "read"
                                                   ELSE recipients[n][q]
      OBVIOUS
    <2>1. recipients[n] = [q \in DOMAIN recipients[n] |-> recipients[n][q]]
      BY DEF NoteInv, NoteTypes
    <2>2. CASE n \in set
      <3>1. recipients'[n] = [recipients[n] EXCEPT ![p] = "read"]
        BY <1>1, <2>2
      <3> QED BY <2>1, <2>2, <3>1
    <2>3. CASE n \notin set
      <3>1. recipients'[n] = recipients[n]
        BY <1>1, <2>3
      <3> QED BY <2>1, <2>3, <3>1
    <2> QED BY <2>2, <2>3
  <1>3. recipients' = [n \in Notice |-> recipients'[n]]
    BY <1>1
  <1>4. marking' \subseteq Person \X Notice
    BY <1>1 DEF NoteInv, NoteTypes
  <1>5. NoteTypes'
    BY <1>1, <1>2, <1>3, <1>4 DEF NoteInv, NoteTypes
  <1>6. \A q \in Person, n \in Notice :
            <<q, n>> \in marking' \/ feed'[q][MarkedRead(n)] > 0 =>
                q \in DOMAIN recipients'[n] /\ recipients'[n][q] = "read"
    BY <1>1, <1>2 DEF NoteInv
  <1>7. NoticesAreTold'
    <2> SUFFICES ASSUME NEW q \in Person, NEW n \in Notice
                 PROVE  /\ feed'[q][Created(n)] <= 1 /\ pushed'[q][n] <= 1
                        /\ feed'[q][Created(n)] + pushed'[q][n] > 0 => q \in DOMAIN recipients'[n]
                        /\ feed'[q][MarkedRead(n)] > 0 => recipients'[n][q] = "read"
      BY DEF NoticesAreTold
    <2>1. /\ feed[q][Created(n)] <= 1 /\ pushed[q][n] <= 1
          /\ feed[q][Created(n)] + pushed[q][n] > 0 => q \in DOMAIN recipients[n]
      BY DEF NoteInv, NoticesAreTold
    <2> QED BY <1>1, <1>2, <1>6, <2>1
  <1>8. \A e \in Delivery : DeliveryFits(deliveries[e])'
    <2> SUFFICES ASSUME NEW e \in Delivery PROVE DeliveryFits(deliveries[e])'
      OBVIOUS
    <2>1. DeliveryFits(deliveries[e]) /\ deliveries'[e] = deliveries[e]
      BY DEF NoteInv
    <2>2. deliveries[e] \in AnnouncingRow => deliveries[e].notice \in Notice
      BY DEF AnnouncingRow
    <2>3. deliveries[e] \in AnnouncingRow =>
              deliveries[e].to \subseteq DOMAIN recipients'[deliveries[e].notice]
      BY <1>2, <2>1, <2>2 DEF DeliveryFits
    <2> QED BY <1>1, <2>1, <2>3 DEF DeliveryFits, Announces, Silent
  <1>9. \A n \in Notice, a, b \in Delivery :
            Announces(deliveries[a], n)' /\ Announces(deliveries[b], n)' => a = b
    BY DEF NoteInv, Announces
  <1>10. \A n \in Notice : n \notin inserted' => Silent(n)'
    BY <1>1 DEF NoteInv, Silent
  <1> QED BY <1>5, <1>6, <1>7, <1>8, <1>9, <1>10 DEF NoteInv

LEMMA AppendReadKeeps ==
    ASSUME NoteInv, NEW p \in Person, NEW n \in Notice, AppendRead(p, n),
           UNCHANGED <<subjects, managers, deliveries, inserted, pushed>>
    PROVE  NoteInv'
  <1>1. /\ <<p, n>> \in marking /\ marking' = marking \ {<<p, n>>}
        /\ Tell(p, MarkedRead(n)) /\ UNCHANGED recipients
    BY DEF AppendRead
  <1>2. /\ feed' \in [Person -> [Change -> Nat]]
        /\ \A q \in Person, m \in Notice :
               /\ feed'[q][Created(m)] = feed[q][Created(m)]
               /\ (q = p /\ m = n) \/ feed'[q][MarkedRead(m)] = feed[q][MarkedRead(m)]
    <2>1. MarkedRead(n) \in Change
      BY ChangesApart
    <2>2. /\ feed' \in [Person -> [Change -> Nat]]
          /\ \A q \in Person, x \in Change :
                 feed'[q][x] = IF q = p /\ x = MarkedRead(n) THEN feed[q][x] + 1 ELSE feed[q][x]
      BY <1>1, <2>1, TellAdds
    <2> QED BY <2>2, ChangesApart
  <1>3. NoteTypes'
    BY <1>1, <1>2 DEF NoteInv, NoteTypes
  <1>4. \A q \in Person, m \in Notice :
            <<q, m>> \in marking' \/ feed'[q][MarkedRead(m)] > 0 =>
                q \in DOMAIN recipients'[m] /\ recipients'[m][q] = "read"
    BY <1>1, <1>2 DEF NoteInv
  <1>5. NoticesAreTold'
    BY <1>1, <1>2, <1>4 DEF NoteInv, NoticesAreTold
  <1>6. \A m \in Notice : Silent(m) => Silent(m)'
    BY <1>2 DEF Silent
  <1>7. \A e \in Delivery : DeliveryFits(deliveries[e])'
    <2> SUFFICES ASSUME NEW e \in Delivery PROVE DeliveryFits(deliveries[e])'
      OBVIOUS
    <2>1. /\ DeliveryFits(deliveries[e]) /\ deliveries'[e] = deliveries[e]
          /\ deliveries[e] \in DeliveryRow
      BY DEF NoteInv, NoteTypes
    <2>2. deliveries[e] \in AnnouncingRow =>
              deliveries[e].notice \in Notice /\ deliveries[e].left \subseteq Person
      BY DEF AnnouncingRow
    <2>3. deliveries[e] \in WaitingRow => deliveries[e].notice \in Notice
      BY DEF WaitingRow
    <2>4. deliveries[e] \in AnnouncingRow =>
              \A q \in deliveries[e].left : feed'[q][Created(deliveries[e].notice)] = 0
      BY <1>2, <2>1, <2>2 DEF DeliveryFits
    <2> QED BY <1>1, <1>6, <2>1, <2>3, <2>4 DEF DeliveryFits, Announces
  <1>8. \A m \in Notice, a, b \in Delivery :
            Announces(deliveries[a], m)' /\ Announces(deliveries[b], m)' => a = b
    BY DEF NoteInv, Announces
  <1>9. \A m \in Notice : m \notin inserted' => Silent(m)'
    BY <1>6 DEF NoteInv
  <1> QED BY <1>3, <1>4, <1>5, <1>7, <1>8, <1>9 DEF NoteInv

\* What nobody is told of: the subjects, who manages, marks that are given up.
LEMMA BystandersKeep ==
    ASSUME NoteInv,
           subjects' \in [Till \cup Claim -> {"OPEN", "CLOSED", "none", "PENDING", "APPROVED",
                                              "REJECTED"}],
           managers' \subseteq Person, marking' \subseteq marking,
           UNCHANGED <<deliveries, recipients, inserted, feed, pushed>>
    PROVE  NoteInv'
  <1>1. NoteTypes'
    BY DEF NoteInv, NoteTypes
  <1>2. NoticesAreTold'
    BY DEF NoteInv, NoticesAreTold
  <1>3. \A e \in Delivery : DeliveryFits(deliveries[e])'
    BY DEF NoteInv, DeliveryFits, Announces, Silent
  <1>4. \A n \in Notice, a, b \in Delivery :
            Announces(deliveries[a], n)' /\ Announces(deliveries[b], n)' => a = b
    BY DEF NoteInv, Announces
  <1> QED BY <1>1, <1>2, <1>3, <1>4 DEF NoteInv, Silent

LEMMA EmitsKeep ==
    ASSUME NoteInv, NEW d \in Delivery,
           \/ \E t \in Till : EmitCashSessionClosed(d, t)
           \/ \E v \in Claim : EmitVoidApprovalNeeded(d, v) \/ EmitVoidResolution(d, v),
           UNCHANGED <<subjects, managers, recipients, inserted, feed, pushed, marking>>
    PROVE  NoteInv'
  <1>1. PICK n \in Notice, to \in SUBSET Person : Subscribed(d, n, to)
    <2>1. managers \in SUBSET Person
      BY DEF NoteInv, NoteTypes
    <2>2. CASE \E t \in Till : EmitCashSessionClosed(d, t)
      <3>1. PICK t \in Till : Subscribed(d, <<"CASH_SESSION_CLOSED", t>>, managers)
        BY <2>2 DEF EmitCashSessionClosed
      <3>2. <<"CASH_SESSION_CLOSED", t>> \in Notice
        BY DEF Notice
      <3> QED BY <2>1, <3>1, <3>2
    <2>3. CASE \E v \in Claim : EmitVoidApprovalNeeded(d, v)
      <3>1. PICK v \in Claim : Subscribed(d, <<"VOID_APPROVAL_NEEDED", v>>, managers)
        BY <2>3 DEF EmitVoidApprovalNeeded
      <3>2. <<"VOID_APPROVAL_NEEDED", v>> \in Notice
        BY DEF Notice
      <3> QED BY <2>1, <3>1, <3>2
    <2>4. CASE \E v \in Claim : EmitVoidResolution(d, v)
      <3>1. PICK v \in Claim, type \in {"VOID_APPROVED", "VOID_REJECTED"} :
                Subscribed(d, <<type, v>>, {Cashier[v]})
        BY <2>4 DEF EmitVoidResolution
      <3>2. <<type, v>> \in Notice /\ {Cashier[v]} \in SUBSET Person
        BY NoteAssumption DEF Notice
      <3> QED BY <3>1, <3>2
    <2> QED BY <2>2, <2>3, <2>4
  <1> QED BY <1>1, SubscriptionKeeps

LEMMA NoteKept == NoteInv /\ [NoteStep]_noteVars => NoteInv'
  <1> SUFFICES ASSUME NoteInv, [NoteStep]_noteVars PROVE NoteInv'
    OBVIOUS
  <1>1. CASE /\ \/ \E t \in Till : CloseTill(t)
                \/ \E v \in Claim : RequestVoid(v) \/ ReviewVoid(v)
             /\ UNCHANGED <<managers, deliveries, recipients, inserted, feed, pushed, marking>>
    <2>1. subjects' \in [Till \cup Claim -> {"OPEN", "CLOSED", "none", "PENDING", "APPROVED",
                                              "REJECTED"}]
      BY <1>1 DEF NoteInv, NoteTypes, CloseTill, RequestVoid, ReviewVoid
    <2> QED BY <1>1, <2>1, BystandersKeep DEF NoteInv, NoteTypes
  <1>2. CASE /\ \E p \in Person : managers' \in {managers \cup {p}, managers \ {p}} \ {managers}
             /\ UNCHANGED <<subjects, deliveries, recipients, inserted, feed, pushed, marking>>
    <2>1. managers' \subseteq Person
      BY <1>2 DEF NoteInv, NoteTypes
    <2> QED BY <1>2, <2>1, BystandersKeep DEF NoteInv, NoteTypes
  <1>3. CASE /\ \E d \in Delivery :
                  \/ \E t \in Till : EmitCashSessionClosed(d, t)
                  \/ \E v \in Claim : EmitVoidApprovalNeeded(d, v) \/ EmitVoidResolution(d, v)
             /\ UNCHANGED <<subjects, managers, recipients, inserted, feed, pushed, marking>>
    BY <1>3, EmitsKeep
  <1>4. CASE /\ \E d \in Delivery :
                  \/ UpsertNotification(d) \/ InsertRecipients(d)
                  \/ \E p \in Person : AppendCreated(d, p)
                  \/ \E listening \in SUBSET Person : PublishCreated(d, listening)
             /\ UNCHANGED <<subjects, managers, marking>>
    BY <1>4, UpsertKeeps, InsertRecipientsKeeps, AppendCreatedKeeps, PublishKeeps
  <1>5. CASE (\E d \in Delivery : EmitFails(d)) /\ UNCHANGED <<subjects, managers, marking>>
    BY <1>5, RestKeeps DEF EmitFails
  <1>6. CASE /\ \E p \in Person :
                  \/ MarkAllRead(p) \/ MarkFails(p)
                  \/ \E n \in Notice : MarkRead(p, n) \/ AppendRead(p, n)
             /\ UNCHANGED <<subjects, managers, deliveries, inserted, pushed>>
    <2>1. ASSUME NEW p \in Person, MarkAllRead(p) PROVE NoteInv'
      <3> DEFINE set == {n \in Notice : Visible(p, n) /\ recipients[n][p] = "unread"}
      <3>1. set \in SUBSET Notice /\ MarkRows(p, set) /\ \A n \in set : p \in DOMAIN recipients[n]
        BY <2>1 DEF MarkAllRead, Visible
      <3> HIDE DEF set
      <3> QED BY <1>6, <3>1, MarkKeeps
    <2>2. ASSUME NEW p \in Person, NEW n \in Notice, MarkRead(p, n) PROVE NoteInv'
      <3>1. {n} \in SUBSET Notice /\ MarkRows(p, {n}) /\ \A m \in {n} : p \in DOMAIN recipients[m]
        BY <2>2 DEF MarkRead, Visible
      <3> QED BY <1>6, <3>1, MarkKeeps
    <2>3. ASSUME NEW p \in Person, MarkFails(p) PROVE NoteInv'
      BY <1>6, <2>3, BystandersKeep DEF MarkFails, NoteInv, NoteTypes
    <2> QED BY <1>6, <2>1, <2>2, <2>3, AppendReadKeeps
  <1>7. CASE UNCHANGED noteVars
    BY <1>7, BystandersKeep DEF noteVars, NoteInv, NoteTypes
  <1> QED BY <1>1, <1>2, <1>3, <1>4, <1>5, <1>6, <1>7 DEF NoteStep

\* A notification reaches each account at most once, in its feed and on its streams, after
\* its inbox has it, and no notice is called read that is not: however often the outbox
\* delivers an event, with any number of deliveries, and wherever one of them stops.
THEOREM NoticesStaySafe == TradeSpec => []NoticesSafe
  <1>1. TradeInit => NoteInv
    <2> SUFFICES ASSUME NoteInit PROVE NoteInv
      BY DEF TradeInit
    <2>1. AtRest \in DeliveryRow /\ AtRest \notin WaitingRow /\ AtRest \notin AnnouncingRow
      BY DeliveriesApart DEF DeliveryRow
    <2>2. \A d \in Delivery : deliveries[d] = AtRest
      BY DEF NoteInit
    <2>3. /\ feed \in [Person -> [Change -> Nat]] /\ pushed \in [Person -> [Notice -> Nat]]
          /\ \A p \in Person, c \in Change : feed[p][c] = 0
          /\ \A p \in Person, n \in Notice : pushed[p][n] = 0
      BY DEF NoteInit
    <2>4. \A n \in Notice : Silent(n)
      BY <2>3, ChangesApart DEF Silent
    <2>5. NoteTypes
      BY <2>1, <2>3 DEF NoteInit, NoteTypes
    <2>6. NoticesAreTold
      BY <2>3, ChangesApart DEF NoticesAreTold
    <2>7. \A d \in Delivery, n \in Notice : ~Announces(deliveries[d], n)
      BY <2>1, <2>2 DEF Announces
    <2>8. \A d \in Delivery : DeliveryFits(deliveries[d])
      BY <2>1, <2>2, <2>7 DEF DeliveryFits, Announces
    <2>9. \A p \in Person, n \in Notice : ~(<<p, n>> \in marking \/ feed[p][MarkedRead(n)] > 0)
      BY <2>3, ChangesApart DEF NoteInit
    <2> QED BY <2>4, <2>5, <2>6, <2>7, <2>8, <2>9 DEF NoteInv
  <1>2. [TradeNext]_tradeVars => [NoteStep]_noteVars
    BY DEF TradeNext, DiscountTurn, MenuTurn, StockTurn, CheckoutTurn, LogTurn, NoteTurn, tradeVars
  <1>3. NoteInv => NoticesSafe
    BY DEF NoteInv, NoticesSafe, NoteTypeOK, NoteTypes
  <1> QED BY <1>1, <1>2, <1>3, NoteKept, PTL DEF TradeSpec

-----------------------------------------------------------------------------
(***************************************************************************)
(* The command log.  A transaction holds the locks of the rows it tells of *)
(* from before its batch is appended until it commits, so no later batch   *)
(* tells of them, and its own tells every open branch that shows them.     *)
(***************************************************************************)
Gates == {GateOf(c, outlet, key) : c \in Command, outlet \in Outlet, key \in Key}
Viewer == {"everyone"} \cup Actor \cup {Owner[r] : r \in Row}
Ended == [status |-> "ended"]
Transaction == [status : {"running", "recorded"}, command : Command, row : Row, outlet : Outlet,
                told : SUBSET Row, written : SUBSET Row, shown : Viewer, key : Key, gate : Gates]
Batches == [by : Request, committed : BOOLEAN, told : SUBSET (Outlet \X Row), shown : Viewer]

LogTypes ==
    /\ requests \in [Request -> Transaction \cup {Unsent, Ended}]
    /\ rows \in [Row -> {{}} \cup {{q} : q \in Request}]
    /\ changes \in Seq(Batches)
    /\ open \subseteq Outlet /\ muted \subseteq Outlet \X Row

\* What a transaction tells of belongs to its feeds and to those it is shown to.
RequestFits(t) ==
    /\ t.told \subseteq t.written
    /\ \A r \in t.told :
           /\ t.shown \in {"everyone", Owner[r]}
           /\ t.command.feed = "none" => Place[r] = "nowhere"
           /\ t.command.feed = "context" => Place[r] = t.outlet
           /\ t.command.feed = "row" => Place[r] = Place[t.row] /\ Place[r] \in Outlet

\* The batch of a transaction that has yet to commit.
BatchFits(i, t) ==
    /\ ~changes[i].committed
    /\ changes[i].told \subseteq Outlet \X t.told
    /\ changes[i].shown = t.shown
    /\ \A r \in t.told, outlet \in open :
           Place[r] \in {outlet, "tenant"} => <<outlet, r>> \in changes[i].told \cup muted
    /\ \A j \in DOMAIN changes, r \in t.written, outlet \in Outlet :
           <<outlet, r>> \in changes[j].told => j <= i

LogInv ==
    /\ LogTypes /\ FeedFollowsRows
    /\ \A p, q \in Request :
           Running(p) /\ Running(q) /\ p # q => requests[p].written \cap requests[q].written = {}
    /\ \A q \in Request : Running(q) => RequestFits(requests[q])
    /\ \A i, j \in DOMAIN changes : changes[i].by = changes[j].by => i = j
    /\ \A i \in DOMAIN changes :
           /\ requests[changes[i].by].status \in {"recorded", "ended"}
           /\ requests[changes[i].by].status = "recorded" => BatchFits(i, requests[changes[i].by])

LEMMA TransactionsApart ==
    /\ \A t \in Transaction : t.status \in {"running", "recorded"} /\ t # Unsent /\ t # Ended
    /\ Unsent.status = "unsent" /\ Ended.status = "ended" /\ Unsent # Ended
  <1>1. Unsent.status = "unsent" /\ Ended.status = "ended"
    BY DEF Unsent, Ended
  <1>2. \A t \in Transaction : t.status \in {"running", "recorded"}
    BY DEF Transaction
  <1> QED BY <1>1, <1>2

LEMMA RunningIsTransaction ==
    ASSUME LogInv, NEW q \in Request, Running(q)
    PROVE  requests[q] \in Transaction /\ RequestFits(requests[q])
  BY TransactionsApart DEF LogInv, LogTypes, Running

LEMMA CommandFacts ==
    ASSUME NEW c \in Command
    PROVE  /\ c.feed \in {"none", "tenant", "context", "row"}
           /\ c.shown \in {"everyone", "actor", "owner"}
           /\ c.extras => c.feed = "context" /\ c.shown = "everyone"
           /\ c.extras \in BOOLEAN
  <1> DEFINE Fits(x) == /\ x.feed \in {"none", "tenant", "context", "row"}
                        /\ x.shown \in {"everyone", "actor", "owner"}
                        /\ x.extras => x.feed = "context" /\ x.shown = "everyone"
                        /\ x.extras \in BOOLEAN
  <1>1. Fits(MenuWrite) /\ Fits(ArchiveCategoryWrite)
    BY DEF MenuWrite, ArchiveCategoryWrite, Plain
  <1>2. Fits(InventoryWrite("TENANT")) /\ Fits(InventoryWrite("BRANCH"))
    BY DEF InventoryWrite, Plain
  <1>3. Fits(SaleOrderWrite) /\ Fits(ReplayedSale) /\ Fits(KhqrSale) /\ Fits(CashSessionWrite)
    BY DEF SaleOrderWrite, ReplayedSale, KhqrSale, CashSessionWrite, Plain
  <1>4. Fits(DiscountWrite) /\ Fits(ShiftWrite) /\ Fits(PolicyWrite)
    BY DEF DiscountWrite, ShiftWrite, PolicyWrite, Plain
  <1>5. Fits(CheckIn) /\ Fits(CheckOut) /\ Fits(ForceEnd)
    BY DEF CheckIn, CheckOut, ForceEnd, Plain
  <1>6. Fits(ReceiptWrite) /\ Fits(InitiateActivation) /\ Fits(ConfirmActivation)
    BY DEF ReceiptWrite, InitiateActivation, ConfirmActivation, Plain
  <1>7. /\ Fits(ProvisionCommand) /\ Fits(InviteCommand) /\ Fits(AcceptCommand)
        /\ Fits(RejectCommand)
    BY DEF ProvisionCommand, InviteCommand, AcceptCommand, RejectCommand, Ungated, Plain
  <1>8. Fits(ChangeRoleCommand) /\ Fits(RevokeCommand) /\ Fits(AssignCommand)
    BY DEF ChangeRoleCommand, RevokeCommand, AssignCommand, Ungated, Plain
  <1> HIDE DEF Fits
  <1>9. Fits(c)
    BY <1>1, <1>2, <1>3, <1>4, <1>5, <1>6, <1>7, <1>8 DEF Command
  <1> QED BY <1>9 DEF Fits

\* The feeds of a transaction are those of all open branches that show a row it tells of.
LEMMA FeedsReach ==
    ASSUME LogInv, NEW q \in Request, Running(q)
    PROVE  /\ requests[q].told # {} => Feeds(q) \subseteq Outlet
           /\ \A r \in requests[q].told, outlet \in open :
                  Place[r] \in {outlet, "tenant"} => outlet \in Feeds(q)
  <1> PICK t \in Transaction : t = requests[q] /\ RequestFits(t)
    BY RunningIsTransaction
  <1>1. t.command \in Command /\ t.outlet \in Outlet
    BY DEF Transaction
  <1>2. t.command.feed \in {"none", "tenant", "context", "row"}
    BY <1>1, CommandFacts
  <1>3. open \subseteq Outlet /\ \A outlet \in Outlet : outlet # "tenant" /\ outlet # "nowhere"
    BY LogAssumption DEF LogInv, LogTypes
  <1>4. CASE t.command.feed = "none"
    BY <1>3, <1>4 DEF RequestFits, Feeds
  <1>5. CASE t.command.feed = "tenant"
    BY <1>3, <1>5 DEF Feeds, FanOut
  <1>6. CASE t.command.feed = "context"
    BY <1>1, <1>3, <1>6 DEF RequestFits, Feeds
  <1>7. CASE t.command.feed = "row"
    BY <1>3, <1>7 DEF RequestFits, Feeds
  <1> QED BY <1>2, <1>4, <1>5, <1>6, <1>7

LEMMA BatchesTyped ==
    ASSUME LogInv
    PROVE  \A i \in DOMAIN changes : /\ changes[i] \in Batches /\ changes[i].by \in Request
                                    /\ changes[i].told \subseteq Outlet \X Row
                                    /\ requests[changes[i].by].status \in {"recorded", "ended"}
  <1>1. \A i \in DOMAIN changes : changes[i] \in Batches
    BY DEF LogInv, LogTypes
  <1> QED BY <1>1 DEF Batches, LogInv

\* A transaction that ends without committing: nobody sees its batch.
LEMMA EndKeeps ==
    ASSUME LogInv, NEW q \in Request, EndRequest(q), UNCHANGED <<rows, changes, open, muted>>
    PROVE  LogInv'
  <1>1. requests' = [requests EXCEPT ![q] = Ended]
    BY DEF EndRequest, Ended
  <1>2. /\ requests' \in [Request -> Transaction \cup {Unsent, Ended}]
        /\ \A p \in Request : requests'[p] = IF p = q THEN Ended ELSE requests[p]
    BY <1>1 DEF LogInv, LogTypes
  <1>3. LogTypes'
    BY <1>2 DEF LogInv, LogTypes
  <1>4. FeedFollowsRows'
    BY DEF LogInv, FeedFollowsRows, ToldOf
  <1>5. \A p \in Request : Running(p)' => p # q /\ Running(p) /\ requests'[p] = requests[p]
    BY <1>2, TransactionsApart DEF Running
  <1>6. \A p, r \in Request : Running(p)' /\ Running(r)' /\ p # r =>
            requests'[p].written \cap requests'[r].written = {}
    BY <1>5 DEF LogInv
  <1>7. \A p \in Request : Running(p)' => RequestFits(requests'[p])
    BY <1>5 DEF LogInv
  <1>8. \A i \in DOMAIN changes' :
            /\ requests'[changes'[i].by].status \in {"recorded", "ended"}
            /\ requests'[changes'[i].by].status = "recorded" =>
                   BatchFits(i, requests[changes[i].by]) /\ requests'[changes'[i].by] = requests[changes[i].by]
    <2> SUFFICES ASSUME NEW i \in DOMAIN changes
                 PROVE  /\ requests'[changes[i].by].status \in {"recorded", "ended"}
                        /\ requests'[changes[i].by].status = "recorded" =>
                               /\ BatchFits(i, requests[changes[i].by])
                               /\ requests'[changes[i].by] = requests[changes[i].by]
      OBVIOUS
    <2>1. changes[i].by \in Request
      BY BatchesTyped
    <2>2. CASE changes[i].by = q
      BY <1>2, <2>1, <2>2, TransactionsApart
    <2>3. CASE changes[i].by # q
      <3>1. requests'[changes[i].by] = requests[changes[i].by]
        BY <1>2, <2>1, <2>3
      <3> QED BY <3>1 DEF LogInv
    <2> QED BY <2>2, <2>3
  <1>9. \A i \in DOMAIN changes' : requests'[changes'[i].by].status = "recorded" =>
            BatchFits(i, requests[changes[i].by])'
    BY <1>8 DEF BatchFits
  <1>10. \A i, j \in DOMAIN changes' : changes'[i].by = changes'[j].by => i = j
    BY DEF LogInv
  <1> QED BY <1>3, <1>4, <1>6, <1>7, <1>8, <1>9, <1>10 DEF LogInv, RequestFits

LEMMA ExecuteKeeps ==
    ASSUME LogInv, NEW q \in Request, SendRequest(q)
    PROVE  LogInv'
  <1>1. PICK c \in Command, row \in Row, outlet \in open, actor \in Actor, key \in Key :
            Execute(q, c, row, outlet, actor, key)
    BY DEF SendRequest
  <1>2. requests[q] = Unsent /\ open \subseteq Outlet /\ outlet \in Outlet
    BY DEF SendRequest, LogInv, LogTypes
  <1>3. PICK with \in Companions(c, row, outlet), beside \in Bystanders(c, row) :
            /\ \A r \in {row} \cup with \cup beside : ~Locked(r)
            /\ requests' = [requests EXCEPT ![q] =
                             [status |-> "running", command |-> c, row |-> row, outlet |-> outlet,
                              told |-> {row} \cup with, written |-> {row} \cup with \cup beside,
                              shown |-> CASE c.shown = "owner" -> Owner[row]
                                          [] c.shown = "actor" -> actor
                                          [] OTHER -> "everyone",
                              key |-> key, gate |-> GateOf(c, outlet, key)]]
    BY <1>1 DEF Execute
  <1> DEFINE shown == CASE c.shown = "owner" -> Owner[row]
                        [] c.shown = "actor" -> actor
                        [] OTHER -> "everyone"
             t == [status |-> "running", command |-> c, row |-> row, outlet |-> outlet,
                   told |-> {row} \cup with, written |-> {row} \cup with \cup beside,
                   shown |-> shown, key |-> key, gate |-> GateOf(c, outlet, key)]
  <1>4. /\ shown \in Viewer /\ shown \in {"everyone", Owner[row]}
        /\ c.extras => shown = "everyone"
    BY <1>1, CommandFacts DEF Execute, About, Viewer
  <1>5. with \in SUBSET Row /\ beside \in SUBSET Row /\ (~c.extras => with = {})
    BY <1>3, CommandFacts DEF Companions, Bystanders
  <1>6. \A r \in with : c.extras /\ Place[r] = outlet
    BY <1>3, CommandFacts DEF Companions
  <1>7. GateOf(c, outlet, key) \in Gates
    BY <1>2 DEF Gates
  <1> HIDE DEF shown
  <1>8. t \in Transaction
    BY <1>2, <1>4, <1>5, <1>7 DEF Transaction
  <1>9. /\ t.status = "running" /\ t.command = c /\ t.row = row /\ t.outlet = outlet /\ t.shown = shown
        /\ t.told = {row} \cup with /\ t.written = {row} \cup with \cup beside
    OBVIOUS
  <1>10. requests' = [requests EXCEPT ![q] = t]
    BY <1>3 DEF shown
  <1> HIDE DEF t
  <1>11. /\ requests' \in [Request -> Transaction \cup {Unsent, Ended}]
         /\ \A p \in Request : requests'[p] = IF p = q THEN t ELSE requests[p]
    BY <1>8, <1>10 DEF LogInv, LogTypes
  <1>12. UNCHANGED <<rows, changes, open, muted>>
    BY <1>1 DEF Execute
  <1>13. RequestFits(t)
    <2>1. \A r \in t.told : t.shown \in {"everyone", Owner[r]}
      BY <1>4, <1>6, <1>9
    <2>2. /\ c.feed = "none" => Place[row] = "nowhere"
          /\ c.feed = "context" => Place[row] = outlet
          /\ c.feed = "row" => Place[row] \in Outlet
      BY <1>1 DEF Execute, About
    <2>3. \A r \in with : c.feed = "context" /\ Place[r] = outlet
      BY <1>6, CommandFacts
    <2> QED BY <1>9, <2>1, <2>2, <2>3 DEF RequestFits
  <1>14. LogTypes'
    BY <1>11, <1>12 DEF LogInv, LogTypes
  <1>15. FeedFollowsRows'
    BY <1>12 DEF LogInv, FeedFollowsRows, ToldOf
  <1>16. \A p \in Request : Running(p)' => p = q \/ (Running(p) /\ requests'[p] = requests[p])
    BY <1>11 DEF Running
  <1>17. \A p \in Request : Running(p) => requests[p].written \cap t.written = {}
    BY <1>3, <1>9 DEF Locked
  <1>18. \A p, r \in Request : Running(p)' /\ Running(r)' /\ p # r =>
            requests'[p].written \cap requests'[r].written = {}
    BY <1>11, <1>16, <1>17 DEF LogInv
  <1>19. \A p \in Request : Running(p)' => RequestFits(requests'[p])
    BY <1>11, <1>13, <1>16 DEF LogInv
  <1>20. \A i \in DOMAIN changes : changes[i].by # q /\ changes[i].by \in Request
    BY <1>2, TransactionsApart, BatchesTyped
  <1>21. \A i \in DOMAIN changes' :
            /\ requests'[changes'[i].by].status \in {"recorded", "ended"}
            /\ requests'[changes'[i].by].status = "recorded" => BatchFits(i, requests[changes[i].by])'
    <2> SUFFICES ASSUME NEW i \in DOMAIN changes
                 PROVE  /\ requests'[changes[i].by].status \in {"recorded", "ended"}
                        /\ requests'[changes[i].by].status = "recorded" =>
                               BatchFits(i, requests[changes[i].by])'
      BY <1>12
    <2>1. requests'[changes[i].by] = requests[changes[i].by]
      BY <1>11, <1>20
    <2> QED BY <1>12, <2>1 DEF LogInv, BatchFits
  <1>22. \A i, j \in DOMAIN changes' : changes'[i].by = changes'[j].by => i = j
    BY <1>12 DEF LogInv
  <1> QED BY <1>14, <1>15, <1>18, <1>19, <1>21, <1>22 DEF LogInv, RequestFits

\* The batch is appended behind all others, and none of them tells of its rows until it
\* is committed.
LEMMA RecordKeeps ==
    ASSUME LogInv, NEW q \in Request, Record(q)
    PROVE  LogInv'
  <1> PICK t \in Transaction : t = requests[q] /\ t.status = "running" /\ RequestFits(t)
    BY RunningIsTransaction DEF Record, Running
  <1> DEFINE u == [t EXCEPT !.status = "recorded"]
             n == Len(changes)
  <1>1. /\ u \in Transaction /\ u.status = "recorded" /\ u.command = t.command /\ u.row = t.row
        /\ u.outlet = t.outlet /\ u.told = t.told /\ u.written = t.written /\ u.shown = t.shown
    BY DEF Transaction
  <1>2. requests' = [requests EXCEPT ![q] = u] /\ UNCHANGED <<rows, open, muted>>
    BY DEF Record
  <1> HIDE DEF u
  <1>3. /\ requests' \in [Request -> Transaction \cup {Unsent, Ended}]
        /\ \A p \in Request : requests'[p] = IF p = q THEN u ELSE requests[p]
    BY <1>1, <1>2 DEF LogInv, LogTypes
  <1>4. Running(q) /\ t.told \subseteq Row /\ t.shown \in Viewer /\ t.told \subseteq t.written
    BY DEF Running, Transaction, RequestFits
  <1>5. \A p \in Request : Running(p)' <=> Running(p)
    BY <1>1, <1>3, <1>4 DEF Running
  <1>6. \A p \in Request : Running(p) => requests'[p].written = requests[p].written
    BY <1>1, <1>3
  <1>7. RequestFits(u)
    BY <1>1 DEF RequestFits
  <1>8. \A p \in Request : Running(p)' => RequestFits(requests'[p])
    BY <1>3, <1>5, <1>7 DEF LogInv
  <1>9. \A p, r \in Request : Running(p)' /\ Running(r)' /\ p # r =>
            requests'[p].written \cap requests'[r].written = {}
    BY <1>5, <1>6 DEF LogInv
  <1>10. \A i \in DOMAIN changes : changes[i].by # q /\ changes[i].by \in Request
    BY BatchesTyped
  <1>11. changes \in Seq(Batches) /\ n \in Nat /\ DOMAIN changes = 1..n
    BY DEF LogInv, LogTypes
  <1> DEFINE batch == [by |-> q, committed |-> FALSE, told |-> Feeds(q) \X t.told, shown |-> t.shown]
  <1>12. /\ batch.by = q /\ ~batch.committed /\ batch.told = Feeds(q) \X t.told
         /\ batch.shown = t.shown
    OBVIOUS
  <1>13. batch.told \subseteq Outlet \X t.told /\ batch \in Batches
    <2>1. Feeds(q) \X t.told \subseteq Outlet \X t.told
      BY <1>4, FeedsReach
    <2> QED BY <1>4, <2>1 DEF Batches
  <1>14. changes' = changes \/ changes' = Append(changes, batch)
    BY DEF Record
  <1> HIDE DEF batch
  <1>15. /\ changes' \in Seq(Batches) /\ DOMAIN changes \subseteq DOMAIN changes'
         /\ \A i \in DOMAIN changes : changes'[i] = changes[i]
         /\ \A i \in DOMAIN changes' : i \in 1..n + 1
         /\ \A i \in DOMAIN changes' \ DOMAIN changes : i = n + 1 /\ changes'[i] = batch
    <2>1. CASE changes' = changes
      BY <1>11, <2>1
    <2>2. CASE changes' = Append(changes, batch)
      <3>1. changes' \in Seq(Batches) /\ DOMAIN changes' = 1..n + 1 /\ DOMAIN changes = 1..n
        BY <1>11, <1>13, <2>2
      <3>2. changes'[n + 1] = batch /\ \A i \in 1..n : changes'[i] = changes[i]
        BY <1>11, <1>13, <2>2
      <3> QED BY <1>11, <3>1, <3>2
    <2> QED BY <1>14, <2>1, <2>2
  <1> HIDE DEF n
  <1>16. LogTypes'
    BY <1>2, <1>3, <1>15 DEF LogInv, LogTypes
  <1>17. \A outlet, row : ToldOf(outlet, row)' = ToldOf(outlet, row)
    BY <1>12, <1>15 DEF ToldOf
  <1>18. FeedFollowsRows'
    <2> SUFFICES ASSUME NEW outlet \in open, NEW row \in Row,
                        Place[row] \in {outlet, "tenant"}, rows[row] # {}, <<outlet, row>> \notin muted
                 PROVE  \E i \in ToldOf(outlet, row)' :
                            /\ rows[row] = {changes'[i].by}
                            /\ \A j \in ToldOf(outlet, row)' : j <= i
      BY <1>2 DEF FeedFollowsRows
    <2>1. PICK i \in ToldOf(outlet, row) : /\ rows[row] = {changes[i].by}
                                           /\ \A j \in ToldOf(outlet, row) : j <= i
      BY DEF LogInv, FeedFollowsRows
    <2>2. changes'[i] = changes[i]
      BY <1>15 DEF ToldOf
    <2> QED BY <1>17, <2>1, <2>2
  <1>19. \A i, j \in DOMAIN changes' : changes'[i].by = changes'[j].by => i = j
    BY <1>10, <1>12, <1>15 DEF LogInv
  <1>20. ASSUME NEW i \in DOMAIN changes'
         PROVE  /\ requests'[changes'[i].by].status \in {"recorded", "ended"}
                /\ requests'[changes'[i].by].status = "recorded" =>
                       BatchFits(i, requests[changes[i].by])'
    <2>1. CASE i \in DOMAIN changes
      <3> DEFINE p == changes[i].by
      <3>1. p \in Request /\ p # q /\ changes'[i] = changes[i] /\ requests'[p] = requests[p]
        BY <1>3, <1>10, <1>15, <2>1
      <3>2. ASSUME requests[p].status = "recorded" PROVE BatchFits(i, requests[changes[i].by])'
        <4>1. BatchFits(i, requests[p]) /\ Running(p)
          BY <2>1, <3>2 DEF LogInv, Running
        <4>2. requests[p].written \cap t.written = {}
          BY <1>4, <3>1, <4>1 DEF LogInv
        <4>3. \A j \in DOMAIN changes', r \in requests[p].written, outlet \in Outlet :
                  <<outlet, r>> \in changes'[j].told => j <= i
          <5> SUFFICES ASSUME NEW j \in DOMAIN changes', NEW r \in requests[p].written,
                              NEW outlet \in Outlet, <<outlet, r>> \in changes'[j].told
                       PROVE  j <= i
            OBVIOUS
          <5>1. j \notin DOMAIN changes => r \in t.told
            BY <1>12, <1>15
          <5>2. j \in DOMAIN changes
            BY <1>4, <4>2, <5>1
          <5> QED BY <1>15, <4>1, <5>2 DEF BatchFits
        <4> QED BY <1>2, <3>1, <4>1, <4>3 DEF BatchFits
      <3> QED BY <2>1, <3>1, <3>2 DEF LogInv
    <2>2. CASE i \notin DOMAIN changes
      <3>1. i = n + 1 /\ changes'[i] = batch /\ requests'[changes'[i].by] = u
        BY <1>3, <1>12, <1>15, <2>2
      <3>2. \A r \in t.told, outlet \in open :
                Place[r] \in {outlet, "tenant"} => <<outlet, r>> \in batch.told
        BY <1>4, <1>12, FeedsReach
      <3>3. \A j \in DOMAIN changes' : j <= n + 1
        BY <1>11, <1>15
      <3> QED BY <1>1, <1>2, <1>12, <1>13, <3>1, <3>2, <3>3 DEF BatchFits
    <2> QED BY <2>1, <2>2
  <1> QED BY <1>8, <1>9, <1>16, <1>18, <1>19, <1>20 DEF LogInv, RequestFits

\* Rows of before are not put into the feed of a branch that is opened.
LEMMA OpenBranchKeeps ==
    ASSUME LogInv, NEW opened \in Outlet, OpenBranch(opened)
    PROVE  LogInv'
  <1>1. /\ open' = open \cup {opened} /\ muted' = muted \cup ({opened} \X Row)
        /\ UNCHANGED <<requests, rows, changes>>
    BY DEF OpenBranch
  <1>2. LogTypes'
    BY <1>1 DEF LogInv, LogTypes
  <1>3. FeedFollowsRows'
    BY <1>1 DEF LogInv, FeedFollowsRows, ToldOf
  <1>4. ASSUME NEW i \in DOMAIN changes, requests[changes[i].by].status = "recorded"
        PROVE  BatchFits(i, requests[changes[i].by])'
    <2>1. requests[changes[i].by] \in Transaction
      BY <1>4, BatchesTyped, RunningIsTransaction DEF Running
    <2>2. requests[changes[i].by].told \subseteq Row
      BY <2>1 DEF Transaction
    <2>3. BatchFits(i, requests[changes[i].by])
      BY <1>4 DEF LogInv
    <2> QED BY <1>1, <2>2, <2>3 DEF BatchFits
  <1> QED BY <1>1, <1>2, <1>3, <1>4 DEF LogInv, Running, RequestFits

\* What the branches are told of, and muted for, are rows that the transaction has locked.
LEMMA CommitKeeps ==
    ASSUME LogInv, NEW q \in Request, NEW kept \in BOOLEAN, Commit(q, kept)
    PROVE  LogInv'
  <1> PICK t \in Transaction : t = requests[q] /\ t.status = "recorded" /\ RequestFits(t)
    BY RunningIsTransaction DEF Commit, Running
  <1> DEFINE B == BatchOf(q)
             told == UNION {changes[i].told : i \in B}
             dropped == IF B = {} THEN t.written ELSE t.written \ t.told
  <1>1. /\ rows' = [r \in Row |-> IF r \in t.written THEN {q} ELSE rows[r]]
        /\ changes' = [i \in DOMAIN changes |->
                        IF i \in B THEN [changes[i] EXCEPT !.committed = TRUE] ELSE changes[i]]
        /\ muted' = (muted \ told) \cup (Outlet \X dropped)
        /\ requests' = [requests EXCEPT ![q] = Ended]
        /\ UNCHANGED open
    BY DEF Commit, EndRequest, Ended
  <1>2. /\ \A i \in B : i \in DOMAIN changes /\ changes[i].by = q /\ BatchFits(i, t)
        /\ \A i, j \in B : i = j
        /\ \A i \in DOMAIN changes \ B : changes[i].by # q
    BY DEF BatchOf, LogInv
  <1>3. t.told \subseteq t.written /\ t.told \subseteq Row /\ t.written \subseteq Row
    BY DEF RequestFits, Transaction
  <1>4. told \subseteq Outlet \X t.told
    BY <1>2 DEF BatchFits
  <1>5. dropped \subseteq t.written /\ (B # {} => dropped \cap t.told = {})
        /\ t.written \subseteq dropped \cup t.told /\ (B = {} => dropped = t.written)
    BY <1>3
  <1>6. \A i \in B : told = changes[i].told
    BY <1>2
  <1> HIDE DEF told, dropped, B
  <1>7. /\ requests' \in [Request -> Transaction \cup {Unsent, Ended}]
        /\ \A p \in Request : requests'[p] = IF p = q THEN Ended ELSE requests[p]
    BY <1>1 DEF LogInv, LogTypes
  <1>8. \A p \in Request : Running(p)' => p # q /\ Running(p) /\ requests'[p] = requests[p]
    BY <1>7, TransactionsApart DEF Running
  <1>9. \A p \in Request : Running(p)' => requests[p].written \cap t.written = {}
    BY <1>8 DEF LogInv, Running
  <1>10. /\ DOMAIN changes' = DOMAIN changes
         /\ \A i \in DOMAIN changes :
                /\ changes'[i] \in Batches
                /\ changes'[i].by = changes[i].by /\ changes'[i].told = changes[i].told
                /\ changes'[i].shown = changes[i].shown
                /\ changes'[i].committed = (i \in B \/ changes[i].committed)
    <2> SUFFICES ASSUME NEW i \in DOMAIN changes
                 PROVE  /\ changes'[i] \in Batches
                        /\ changes'[i].by = changes[i].by /\ changes'[i].told = changes[i].told
                        /\ changes'[i].shown = changes[i].shown
                        /\ changes'[i].committed = (i \in B \/ changes[i].committed)
      BY <1>1
    <2>1. PICK row \in Batches : row = changes[i]
      BY BatchesTyped
    <2>2. CASE i \in B
      <3>1. changes'[i] = [row EXCEPT !.committed = TRUE]
        BY <1>1, <2>1, <2>2
      <3> QED BY <2>1, <2>2, <3>1 DEF Batches
    <2>3. CASE i \notin B
      <3>1. changes'[i] = row
        BY <1>1, <2>1, <2>3
      <3> QED BY <2>1, <2>3, <3>1 DEF Batches
    <2> QED BY <2>2, <2>3
  <1>11. changes' \in Seq(Batches)
    <2>1. Len(changes) \in Nat /\ DOMAIN changes = 1..Len(changes)
      BY DEF LogInv, LogTypes
    <2>2. changes' \in [1..Len(changes) -> Batches]
      BY <1>1, <1>10, <2>1
    <2> QED BY <2>1, <2>2
  <1>12. LogTypes'
    <2>1. rows' \in [Row -> {{}} \cup {{p} : p \in Request}]
      BY <1>1 DEF LogInv, LogTypes
    <2>2. muted' \subseteq Outlet \X Row
      BY <1>1, <1>3, <1>5 DEF LogInv, LogTypes
    <2> QED BY <1>1, <1>7, <1>11, <2>1, <2>2 DEF LogInv, LogTypes
  <1>13. \A outlet, row : row \notin t.written =>
            /\ ToldOf(outlet, row)' = ToldOf(outlet, row)
            /\ <<outlet, row>> \in muted => <<outlet, row>> \in muted'
    <2> SUFFICES ASSUME NEW outlet, NEW row, row \notin t.written
                 PROVE  /\ ToldOf(outlet, row)' = ToldOf(outlet, row)
                        /\ <<outlet, row>> \in muted => <<outlet, row>> \in muted'
      OBVIOUS
    <2>1. \A i \in B : <<outlet, row>> \notin changes[i].told
      BY <1>3, <1>4, <1>6
    <2>2. ToldOf(outlet, row)' = ToldOf(outlet, row)
      BY <1>10, <2>1 DEF ToldOf
    <2>3. <<outlet, row>> \notin told
      BY <1>3, <1>4
    <2> QED BY <1>1, <2>2, <2>3
  <1>14. FeedFollowsRows'
    <2> SUFFICES ASSUME NEW outlet \in open, NEW row \in Row,
                        Place[row] \in {outlet, "tenant"}, rows'[row] # {},
                        <<outlet, row>> \notin muted'
                 PROVE  \E i \in ToldOf(outlet, row)' :
                            /\ rows'[row] = {changes'[i].by}
                            /\ \A j \in ToldOf(outlet, row)' : j <= i
      BY <1>1 DEF FeedFollowsRows
    <2>1. CASE row \in t.written
      <3>1. outlet \in Outlet
        BY DEF LogInv, LogTypes
      <3>2. row \notin dropped
        BY <1>1, <3>1
      <3>3. PICK i \in B : row \in t.told
        BY <1>5, <2>1, <3>2
      <3>4. <<outlet, row>> \in changes[i].told
        BY <1>1, <1>2, <1>6, <3>3 DEF BatchFits
      <3>5. i \in ToldOf(outlet, row)'
        BY <1>2, <1>10, <3>3, <3>4 DEF ToldOf, BatchFits, RequestFits
      <3>6. \A j \in ToldOf(outlet, row)' : j <= i
        BY <1>2, <1>10, <2>1, <3>1 DEF ToldOf, BatchFits
      <3>7. rows'[row] = {changes'[i].by}
        BY <1>1, <1>2, <1>10, <2>1
      <3> QED BY <3>5, <3>6, <3>7
    <2>2. CASE row \notin t.written
      <3>1. rows'[row] = rows[row] /\ <<outlet, row>> \notin muted
        BY <1>1, <1>13, <2>2
      <3>2. PICK i \in ToldOf(outlet, row) : /\ rows[row] = {changes[i].by}
                                             /\ \A j \in ToldOf(outlet, row) : j <= i
        BY <3>1 DEF LogInv, FeedFollowsRows
      <3>3. changes'[i].by = changes[i].by
        BY <1>10 DEF ToldOf
      <3> QED BY <1>13, <2>2, <3>1, <3>2, <3>3
    <2> QED BY <2>1, <2>2
  <1>15. ASSUME NEW i \in DOMAIN changes
         PROVE  /\ requests'[changes'[i].by].status \in {"recorded", "ended"}
                /\ requests'[changes'[i].by].status = "recorded" =>
                       BatchFits(i, requests[changes[i].by])'
    <2> PICK p \in Request : p = changes[i].by
      BY BatchesTyped
    <2>1. changes'[i].by = p /\ requests[p].status \in {"recorded", "ended"}
      BY <1>10, BatchesTyped
    <2>2. CASE p = q
      BY <1>7, <2>1, <2>2, TransactionsApart
    <2>3. CASE p # q
      <3>1. requests'[p] = requests[p] /\ i \notin B
        BY <1>2, <1>7, <2>1, <2>3
      <3>2. ASSUME requests[p].status = "recorded" PROVE BatchFits(i, requests[changes[i].by])'
        <4>1. BatchFits(i, requests[p]) /\ Running(p) /\ Running(p)'
          BY <3>1, <3>2 DEF LogInv, Running
        <4>2. requests[p].told \cap t.written = {}
          BY <1>9, <2>1, <4>1, RunningIsTransaction DEF RequestFits
        <4>3. \A r \in requests[p].told, outlet \in open :
                  Place[r] \in {outlet, "tenant"} => <<outlet, r>> \in changes[i].told \cup muted'
          BY <1>13, <4>1, <4>2 DEF BatchFits
        <4> QED BY <1>1, <1>10, <3>1, <4>1, <4>3 DEF BatchFits
      <3> QED BY <2>1, <3>1, <3>2
    <2> QED BY <2>2, <2>3
  <1>16. \A i, j \in DOMAIN changes' : changes'[i].by = changes'[j].by => i = j
    BY <1>10 DEF LogInv
  <1>17. \A p, r \in Request : Running(p)' /\ Running(r)' /\ p # r =>
            requests'[p].written \cap requests'[r].written = {}
    BY <1>8 DEF LogInv
  <1>18. \A p \in Request : Running(p)' => RequestFits(requests'[p])
    BY <1>8 DEF LogInv
  <1> QED BY <1>10, <1>12, <1>14, <1>15, <1>16, <1>17, <1>18 DEF LogInv, RequestFits

LEMMA LogKept == LogInv /\ [LogStep]_logVars => LogInv'
  <1> SUFFICES ASSUME LogInv, [LogStep]_logVars PROVE LogInv'
    OBVIOUS
  <1>1. ASSUME NEW q \in Request, Refuse(q) \/ Fail(q) PROVE LogInv'
    <2>1. EndRequest(q) /\ UNCHANGED <<rows, changes, open, muted>>
      BY <1>1 DEF Refuse, Fail
    <2> QED BY <2>1, EndKeeps
  <1>2. CASE UNCHANGED logVars
    <2>1. LogTypes'
      BY <1>2 DEF LogInv, LogTypes, logVars
    <2>2. FeedFollowsRows'
      BY <1>2 DEF LogInv, FeedFollowsRows, ToldOf, logVars
    <2>3. \A i \in DOMAIN changes : requests[changes[i].by].status = "recorded" =>
              BatchFits(i, requests[changes[i].by])'
      BY <1>2 DEF LogInv, BatchFits, logVars
    <2> QED BY <1>2, <2>1, <2>2, <2>3 DEF LogInv, Running, RequestFits, logVars
  <1> QED BY <1>1, <1>2, ExecuteKeeps, RecordKeeps, CommitKeeps, OpenBranchKeeps DEF LogStep

\* Whatever commands run at the same time, and wherever they stop, the last change in an
\* open branch's feed about a row was made by the command that wrote the row last, unless
\* the row is one the branch is by design not told of.
THEOREM FeedsStaySafe == TradeSpec => []FeedsSafe
  <1>1. TradeInit => LogInv
    <2> SUFFICES ASSUME LogInit PROVE LogInv
      BY DEF TradeInit
    <2>1. LogTypes
      BY DEF LogInit, LogTypes
    <2>2. \A q \in Request : ~Running(q)
      BY TransactionsApart DEF LogInit, Running
    <2>3. DOMAIN changes = {}
      BY DEF LogInit
    <2>4. FeedFollowsRows
      BY DEF LogInit, FeedFollowsRows
    <2> QED BY <2>1, <2>2, <2>3, <2>4 DEF LogInv
  <1>2. [TradeNext]_tradeVars => [LogStep]_logVars
    BY DEF TradeNext, DiscountTurn, MenuTurn, StockTurn, CheckoutTurn, LogTurn, NoteTurn, tradeVars
  <1>3. LogInv => FeedsSafe
    <2> SUFFICES ASSUME LogInv PROVE FeedsSafe
      OBVIOUS
    <2>1. \A q \in Request : requests[q].status \in {"unsent", "running", "recorded", "ended"}
      BY TransactionsApart DEF LogInv, LogTypes
    <2> QED BY <2>1, BatchesTyped DEF LogInv, LogTypes, FeedsSafe, LogTypeOK
  <1> QED BY <1>1, <1>2, <1>3, LogKept, PTL DEF TradeSpec

-----------------------------------------------------------------------------
(***************************************************************************)
(* Checkout.  Every rounding moves an amount by less than a granule, and   *)
(* to one side, or by half a granule at most.                              *)
(***************************************************************************)
LEMMA Quotient ==
    ASSUME NEW n \in Int, NEW d \in Nat \ {0}
    PROVE  n \div d \in Int /\ d * (n \div d) <= n /\ n < d * (n \div d) + d
  OBVIOUS

\* Halves go up: what is taken away or added is at most a half.
LEMMA RoundedNear ==
    ASSUME NEW n \in Int, NEW d \in Nat \ {0}
    PROVE  /\ RoundedDiv(n, d) \in Int
           /\ 2 * (d * RoundedDiv(n, d) - n) <= d /\ -d <= 2 * (d * RoundedDiv(n, d) - n)
  <1> DEFINE m == 2 * n + d
             k == m \div (2 * d)
  <1>1. m \in Int /\ 2 * d \in Nat \ {0}
    OBVIOUS
  <1>2. k \in Int /\ (2 * d) * k <= m /\ m < (2 * d) * k + 2 * d
    BY <1>1, Quotient
  <1>3. RoundedDiv(n, d) = k
    BY DEF RoundedDiv
  <1> HIDE DEF k
  <1>4. (2 * d) * k = 2 * (d * k) /\ d * k \in Int
    BY <1>2
  <1> QED BY <1>2, <1>3, <1>4

Granule(rounding) == IF rounding.enabled THEN rounding.granule ELSE 0

\* How far a rounded amount may be from the exact one.
Near(rounded, exact, rounding) ==
    LET g == Granule(rounding)
    IN  /\ rounding.mode = "UP" => exact <= rounded
        /\ rounding.mode = "DOWN" => rounded <= exact
        /\ rounding.mode = "NEAREST" => 2 * rounded <= 2 * exact + g /\ 2 * exact <= 2 * rounded + g
        /\ rounded <= exact + Largest(g - 1, 0) /\ exact <= rounded + Largest(g - 1, 0)

LEMMA RoundingNear ==
    ASSUME NEW value \in Int, NEW rounding \in Rounding
    PROVE  /\ SaleKhrRounding(value, rounding) \in Int
           /\ Near(SaleKhrRounding(value, rounding), value, rounding)
  <1>1. PICK g \in {10000, 100000} : g = rounding.granule
    BY DEF Rounding
  <1>2. rounding.enabled \in BOOLEAN /\ rounding.mode \in {"NEAREST", "UP", "DOWN"}
    BY DEF Rounding
  <1> DEFINE rounded == SaleKhrRounding(value, rounding)
  <1>3. CASE ~rounding.enabled
    <2>1. rounded = value
      BY <1>2, <1>3 DEF SaleKhrRounding
    <2>2. Granule(rounding) = 0 /\ Largest(Granule(rounding) - 1, 0) = 0
      BY <1>3 DEF Granule, Largest
    <2> HIDE DEF rounded
    <2>3. rounded \in Int /\ Near(rounded, value, rounding)
      BY <2>1, <2>2 DEF Near
    <2> QED BY <2>3 DEF rounded
  <1>4. rounding.enabled => Granule(rounding) = g /\ Largest(Granule(rounding) - 1, 0) = g - 1
    BY <1>1 DEF Granule, Largest
  <1>5. CASE rounding.enabled /\ rounding.mode = "UP"
    <2> DEFINE k == (value + g - 1) \div g
    <2>1. k \in Int /\ g * k <= value + g - 1 /\ value + g - 1 < g * k + g
      BY Quotient
    <2>2. rounded = g * k
      BY <1>1, <1>5 DEF SaleKhrRounding
    <2> HIDE DEF k, rounded
    <2>3. rounded \in Int /\ value <= rounded /\ rounded <= value + (g - 1)
      BY <2>1, <2>2
    <2>4. Near(rounded, value, rounding)
      BY <1>4, <1>5, <2>3 DEF Near
    <2> QED BY <2>3, <2>4 DEF rounded
  <1>6. CASE rounding.enabled /\ rounding.mode = "DOWN"
    <2> DEFINE k == value \div g
    <2>1. k \in Int /\ g * k <= value /\ value < g * k + g
      BY Quotient
    <2>2. rounded = g * k
      BY <1>1, <1>6 DEF SaleKhrRounding
    <2> HIDE DEF k, rounded
    <2>3. rounded \in Int /\ rounded <= value /\ value <= rounded + (g - 1)
      BY <2>1, <2>2
    <2>4. Near(rounded, value, rounding)
      BY <1>4, <1>6, <2>3 DEF Near
    <2> QED BY <2>3, <2>4 DEF rounded
  <1>7. CASE rounding.enabled /\ rounding.mode = "NEAREST"
    <2> DEFINE k == RoundedDiv(value, g)
    <2>1. k \in Int /\ 2 * (g * k - value) <= g /\ -g <= 2 * (g * k - value)
      BY RoundedNear
    <2>2. rounded = g * k
      BY <1>1, <1>7 DEF SaleKhrRounding
    <2> HIDE DEF k, rounded
    <2>3. rounded \in Int /\ 2 * rounded <= 2 * value + g /\ 2 * value <= 2 * rounded + g
      BY <2>1, <2>2
    <2>4. rounded <= value + (g - 1) /\ value <= rounded + (g - 1)
      BY <2>3
    <2>5. Near(rounded, value, rounding)
      BY <1>4, <1>7, <2>3, <2>4 DEF Near
    <2> QED BY <2>3, <2>5 DEF rounded
  <1> QED BY <1>2, <1>3, <1>5, <1>6, <1>7

\* What an amount in USD comes to in riels, and how near.
LEMMA KhrNear ==
    ASSUME NEW cents \in Int, NEW cart \in Cart
    PROVE  /\ cart.rate \in Nat \ {0} /\ cart.rounding \in Rounding /\ cents * cart.rate \in Int
           /\ InKhr(cents, cart) \in Int
           /\ Near(InKhr(cents, cart), cents * cart.rate, cart.rounding)
  <1>1. cart.rate \in Nat \ {0} /\ cart.rounding \in Rounding
    BY CheckoutAssumption DEF Cart
  <1>2. cents * cart.rate \in Int
    BY <1>1
  <1> QED BY <1>1, <1>2, RoundingNear DEF InKhr

\* What rounding leaves is a whole number of granules.
LEMMA RoundingWhole ==
    ASSUME NEW value \in Int, NEW rounding \in Rounding
    PROVE  Whole(SaleKhrRounding(value, rounding), rounding)
  <1> SUFFICES ASSUME rounding.enabled
               PROVE  SaleKhrRounding(value, rounding) % rounding.granule = 0
    BY DEF Whole
  <1>1. PICK g \in {10000, 100000} : g = rounding.granule
    BY DEF Rounding
  <1>2. \A k \in Int : (g * k) % g = 0
    BY <1>1
  <1>3. PICK k \in Int : SaleKhrRounding(value, rounding) = g * k
    <2>1. value \div g \in Int /\ (value + g - 1) \div g \in Int /\ RoundedDiv(value, g) \in Int
      BY Quotient, RoundedNear
    <2> QED BY <1>1, <2>1 DEF SaleKhrRounding
  <1> QED BY <1>1, <1>2, <1>3

LEMMA GivenIsInt ==
    ASSUME NEW named \in Naming, NEW column, NEW n \in Int
    PROVE  Given(named, column, n) \in Int
  BY CheckoutAssumption DEF Given

\* A column in riels is whole, and near what it is converted from unless it was named.
LEMMA KhrColumnNear ==
    ASSUME NEW cents \in Int, NEW cart \in Cart, NEW column
    PROVE  /\ KhrColumn(cart, column, cents) \in Int /\ cents * cart.rate \in Int
           /\ Whole(KhrColumn(cart, column, cents), cart.rounding)
           /\ column \notin DOMAIN cart.named =>
                  Near(KhrColumn(cart, column, cents), cents * cart.rate, cart.rounding)
  <1>1. cart.rate \in Nat \ {0} /\ cart.rounding \in Rounding /\ cart.named \in Naming
    BY CheckoutAssumption DEF Cart
  <1> DEFINE exact == cents * cart.rate
             raw == Given(cart.named, column, exact)
  <1>2. exact \in Int
    BY <1>1
  <1> HIDE DEF exact
  <1>3. raw \in Int /\ (column \notin DOMAIN cart.named => raw = exact)
    BY <1>1, <1>2, GivenIsInt DEF Given
  <1> HIDE DEF raw
  <1>4. KhrColumn(cart, column, cents) = SaleKhrRounding(raw, cart.rounding)
    BY DEF KhrColumn, raw, exact
  <1>5. /\ SaleKhrRounding(raw, cart.rounding) \in Int
        /\ Whole(SaleKhrRounding(raw, cart.rounding), cart.rounding)
        /\ Near(SaleKhrRounding(raw, cart.rounding), raw, cart.rounding)
    BY <1>1, <1>3, RoundingNear, RoundingWhole
  <1> QED BY <1>2, <1>3, <1>4, <1>5 DEF exact

LEMMA GranuleIsNat ==
    ASSUME NEW rounding \in Rounding
    PROVE  /\ Granule(rounding) \in Nat
           /\ Largest(Granule(rounding) - 1, 0) \in Nat
           /\ Largest(Granule(rounding) - 1, 0) <= Granule(rounding)
  <1>1. Granule(rounding) \in Nat
    BY DEF Granule, Rounding
  <1> QED BY <1>1 DEF Largest

\* The lines of a sale, each rounded by itself, stay near their exact total: within a
\* granule for each.
LEMMA LinesNear ==
    ASSUME NEW cart \in Cart
    PROVE  /\ LinesSubtotal(cart) \in Int /\ LineKhr(cart) \in Int /\ Len(cart.lines) \in Nat
           /\ LinesSubtotal(cart) * cart.rate \in Int
           /\ Len(cart.lines) * Granule(cart.rounding) \in Nat
           /\ LineKhr(cart) <= LinesSubtotal(cart) * cart.rate
                                   + Len(cart.lines) * Granule(cart.rounding)
           /\ LinesSubtotal(cart) * cart.rate <= LineKhr(cart)
                                   + Len(cart.lines) * Granule(cart.rounding)
  <1> DEFINE table == SaleLines(cart)
             g == Granule(cart.rounding)
             rate == cart.rate
  <1>1. /\ cart.lines \in Seq([price : Nat, quantity : Nat]) /\ rate \in Nat \ {0}
        /\ cart.rounding \in Rounding
    BY CheckoutAssumption DEF Cart
  <1>2. g \in Nat
    BY <1>1, GranuleIsNat
  <1>3. DOMAIN table = 1..Len(cart.lines) /\ Len(cart.lines) \in Nat
    BY <1>1 DEF SaleLines
  <1> DEFINE S == DOMAIN table
  <1>4. IsFiniteSet(S) /\ Cardinality(S) = Len(cart.lines)
    BY <1>3, FS_Interval
  <1>5. \A i \in S : /\ table[i]["usd"] \in Int /\ table[i]["khr"] \in Int
                     /\ table[i]["usd"] * rate \in Int
                     /\ table[i]["khr"] <= table[i]["usd"] * rate + g
                     /\ table[i]["usd"] * rate <= table[i]["khr"] + g
    <2> SUFFICES ASSUME NEW i \in S
                 PROVE  /\ table[i]["usd"] \in Int /\ table[i]["khr"] \in Int
                        /\ table[i]["usd"] * rate \in Int
                        /\ table[i]["khr"] <= table[i]["usd"] * rate + g
                        /\ table[i]["usd"] * rate <= table[i]["khr"] + g
      OBVIOUS
    <2> DEFINE line == cart.lines[i]
               usd == LineSubtotal(line)
               khr == InKhr(usd, cart)
    <2>1. table[i] = SaleLine(line, cart)
      BY <1>3 DEF SaleLines
    <2>2. table[i]["usd"] = usd /\ table[i]["khr"] = khr
      BY <2>1 DEF SaleLine
    <2>3. line \in [price : Nat, quantity : Nat]
      <3> DEFINE R == [price : Nat, quantity : Nat]
      <3>1. i \in 1..Len(cart.lines) /\ cart.lines \in Seq(R)
        BY <1>1, <1>3
      <3> HIDE DEF R
      <3>2. cart.lines[i] \in R
        BY <3>1
      <3> QED BY <3>2 DEF R
    <2>4. usd \in Int
      <3> HIDE DEF line
      <3>1. line.price * line.quantity \in Int /\ 1000 \in Nat \ {0}
        BY <2>3
      <3>2. RoundedDiv(line.price * line.quantity, 1000) \in Int
        BY <3>1, RoundedNear
      <3> QED BY <3>2 DEF LineSubtotal
    <2> HIDE DEF usd
    <2>5. khr \in Int /\ usd * rate \in Int /\ Near(khr, usd * rate, cart.rounding)
      BY <2>4, KhrNear
    <2>6. Largest(Granule(cart.rounding) - 1, 0) \in Nat /\ Largest(Granule(cart.rounding) - 1, 0) <= g
      BY <1>1, GranuleIsNat
    <2> DEFINE exact == usd * rate
    <2> HIDE DEF khr, g, exact
    <2>7. khr <= exact + g /\ exact <= khr + g
      BY <1>2, <2>5, <2>6 DEF Near, g, exact
    <2> QED BY <2>2, <2>4, <2>5, <2>7 DEF exact
  <1>6. LinesSubtotal(cart) = ColumnSum(table, "usd", S) /\ LineKhr(cart) = ColumnSum(table, "khr", S)
    BY DEF LinesSubtotal, LineKhr, Total, ColumnSum
  <1> HIDE DEF table, g, rate, S
  <1>7. PICK u : IsSum(u, table, "usd", S) /\ ColumnSum(table, "usd", S) = u[S]
    BY <1>4, <1>5, FoldIsSum
  <1>8. PICK k : IsSum(k, table, "khr", S) /\ ColumnSum(table, "khr", S) = k[S]
    BY <1>4, <1>5, FoldIsSum
  <1> DEFINE Fit(s) == /\ u[s] \in Int /\ k[s] \in Int
                       /\ k[s] <= u[s] * rate + Cardinality(s) * g
                       /\ u[s] * rate <= k[s] + Cardinality(s) * g
             Fits == {s \in SUBSET S : Fit(s)}
  <1>9. {} \in Fits
    <2>1. u[{}] = 0 /\ k[{}] = 0 /\ Cardinality({}) = 0
      BY <1>7, <1>8, SumStep, FS_EmptySet
    <2>2. 0 * rate = 0 /\ 0 * g = 0
      BY <1>1, <1>2 DEF rate
    <2> QED BY <2>1, <2>2
  <1>10. ASSUME NEW s \in SUBSET S, s # {}, s \ {Chosen(s)} \in Fits PROVE s \in Fits
    <2> DEFINE x == Chosen(s)
               rest == s \ {x}
    <2>0. x \in s /\ u[s] = table[x]["usd"] + u[rest]
      BY <1>7, <1>10, SumStep
    <2>1. x \in s /\ u[s] = table[x]["usd"] + u[rest] /\ k[s] = table[x]["khr"] + k[rest]
      BY <1>8, <1>10, <2>0, SumStep
    <2>2. Fit(rest) /\ x \in S
      BY <1>10, <2>1
    <2> HIDE DEF x
    <2>3. IsFiniteSet(s) /\ Cardinality(rest) = Cardinality(s) - 1 /\ Cardinality(s) \in Nat
      BY <1>4, <2>1, FS_Subset, FS_CardinalityType, FS_RemoveElement
    <2> DEFINE n == Cardinality(rest)
               usd == table[x]["usd"]
               khr == table[x]["khr"]
    <2>4. n \in Int /\ Cardinality(s) = n + 1
      BY <2>3
    <2>5. usd \in Int /\ khr \in Int /\ khr <= usd * rate + g /\ usd * rate <= khr + g
      BY <1>5, <2>2
    <2>6. /\ u[rest] \in Int /\ k[rest] \in Int
          /\ k[rest] <= u[rest] * rate + n * g /\ u[rest] * rate <= k[rest] + n * g
      BY <2>2
    <2>7. u[s] = usd + u[rest] /\ k[s] = khr + k[rest]
      BY <2>1
    <2> HIDE DEF n, usd, khr, rest
    <2>8. rate \in Int /\ g \in Int
      BY <1>1, <1>2 DEF rate
    <2>9. (usd + u[rest]) * rate = usd * rate + u[rest] * rate /\ (n + 1) * g = n * g + g
      BY <2>4, <2>5, <2>6, <2>8
    <2>10. usd * rate \in Int /\ u[rest] * rate \in Int /\ n * g \in Int
      BY <2>4, <2>5, <2>6, <2>8
    <2> DEFINE a == usd * rate
               b == u[rest] * rate
               c == n * g
    <2>11. u[s] * rate = a + b /\ Cardinality(s) * g = c + g
      BY <2>4, <2>7, <2>9
    <2>12. /\ a \in Int /\ b \in Int /\ c \in Int
           /\ khr <= a + g /\ a <= khr + g /\ k[rest] <= b + c /\ b <= k[rest] + c
      BY <2>5, <2>6, <2>10
    <2> HIDE DEF a, b, c
    <2>13. /\ u[s] \in Int /\ k[s] \in Int
           /\ k[s] <= (a + b) + (c + g) /\ a + b <= k[s] + (c + g)
      <3> DEFINE tail == k[rest]
      <3>1. tail \in Int /\ k[s] = khr + tail /\ tail <= b + c /\ b <= tail + c
        BY <2>6, <2>7, <2>12
      <3> HIDE DEF tail
      <3>2. khr + tail <= (a + b) + (c + g) /\ a + b <= (khr + tail) + (c + g)
        BY <2>5, <2>8, <2>12, <3>1
      <3>3. u[s] \in Int /\ k[s] \in Int
        BY <2>5, <2>6, <2>7
      <3> QED BY <3>1, <3>2, <3>3
    <2>14. Fit(s)
      BY <2>11, <2>13
    <2> QED BY <2>14
  <1> HIDE DEF Fits
  <1>11. SUBSET S \subseteq Fits
    BY <1>4, <1>9, <1>10, SubsetsOneByOne
  <1>12. Fit(S)
    BY <1>11 DEF Fits
  <1>13. LinesSubtotal(cart) = u[S] /\ LineKhr(cart) = k[S] /\ Len(cart.lines) = Cardinality(S)
    BY <1>4, <1>6, <1>7, <1>8
  <1>14. u[S] * rate \in Int /\ Cardinality(S) * g \in Nat
    BY <1>1, <1>2, <1>3, <1>4, <1>12
  <1> QED BY Zenon, <1>3, <1>12, <1>13, <1>14 DEF rate, g

LEMMA AbsWithin ==
    ASSUME NEW n \in Int, NEW m \in Int, n <= m, 0 - m <= n
    PROVE  Abs(n) <= m
  BY DEF Abs

\* The parts of an amount, each rounded by itself, and the amount, rounded too: two of
\* the four roundings may add up, the other two go the other way.
LEMMA PartsNear ==
    ASSUME NEW a \in Int, NEW b \in Int, NEW c \in Int, NEW t \in Int,
           NEW exactA \in Int, NEW exactB \in Int, NEW exactC \in Int, NEW exactT \in Int,
           exactT = exactA - exactB + exactC, NEW rounding \in Rounding,
           Near(a, exactA, rounding), Near(b, exactB, rounding), Near(c, exactC, rounding),
           Near(t, exactT, rounding)
    PROVE  Abs(t - (a - b + c)) <= 2 * Granule(rounding)
  <1> DEFINE g == Granule(rounding)
             most == Largest(Granule(rounding) - 1, 0)
  <1>1. g \in Nat /\ most \in Nat /\ most <= g
    BY GranuleIsNat
  <1>2. rounding.mode \in {"NEAREST", "UP", "DOWN"}
    BY DEF Rounding
  <1>3. /\ a <= exactA + most /\ exactA <= a + most /\ b <= exactB + most /\ exactB <= b + most
        /\ c <= exactC + most /\ exactC <= c + most /\ t <= exactT + most /\ exactT <= t + most
    BY DEF Near
  <1>4. rounding.mode = "UP" => exactA <= a /\ exactB <= b /\ exactC <= c /\ exactT <= t
    BY DEF Near
  <1>5. rounding.mode = "DOWN" => a <= exactA /\ b <= exactB /\ c <= exactC /\ t <= exactT
    BY DEF Near
  <1>6. rounding.mode = "NEAREST" =>
            /\ 2 * a <= 2 * exactA + g /\ 2 * exactA <= 2 * a + g
            /\ 2 * b <= 2 * exactB + g /\ 2 * exactB <= 2 * b + g
            /\ 2 * c <= 2 * exactC + g /\ 2 * exactC <= 2 * c + g
            /\ 2 * t <= 2 * exactT + g /\ 2 * exactT <= 2 * t + g
    BY DEF Near
  <1> HIDE DEF g, most
  <1>7. t - (a - b + c) <= 2 * g /\ 0 - 2 * g <= t - (a - b + c)
    <2>1. CASE rounding.mode = "UP"
      BY <1>1, <1>3, <1>4, <2>1
    <2>2. CASE rounding.mode = "DOWN"
      BY <1>1, <1>3, <1>5, <2>2
    <2>3. CASE rounding.mode = "NEAREST"
      BY <1>1, <1>6, <2>3
    <2> QED BY <1>2, <2>1, <2>2, <2>3
  <1>8. Abs(t - (a - b + c)) <= 2 * g
    BY <1>1, <1>7, AbsWithin
  <1> QED BY <1>8 DEF g

BillRow == [status : {"PENDING", "FINALIZED"}, cart : Cart, replaced : SUBSET Replaceable,
            linesKhr : Int, subtotal : Int, discount : Int, vat : Int, grand : Int,
            subtotalKhr : Int, discountKhr : Int, vatKhr : Int, grandKhr : Int,
            tender : Int, received : Int, change : Int, paid : Int]

\* What the totals of a cart come to, before the tender.
LEMMA TotalsAreInts ==
    ASSUME NEW cart \in Cart
    PROVE  /\ Subtotal(cart) \in Int /\ DiscountUsd(cart) \in Int /\ VatUsd(cart) \in Int
           /\ GrandTotal(cart) \in Int
           /\ "grand" \notin DOMAIN cart.named =>
                  GrandTotal(cart) = Subtotal(cart) - DiscountUsd(cart) + VatUsd(cart)
           /\ "subtotal" \notin DOMAIN cart.named => Subtotal(cart) = LinesSubtotal(cart)
  <1>1. cart.named \in Naming
    BY DEF Cart
  <1>2. Subtotal(cart) \in Int /\ DiscountUsd(cart) \in Int /\ VatUsd(cart) \in Int
    BY <1>1, LinesNear, GivenIsInt DEF Subtotal, DiscountUsd, VatUsd
  <1>3. GrandTotal(cart) \in Int
    BY <1>1, <1>2, GivenIsInt DEF GrandTotal
  <1> QED BY <1>2, <1>3 DEF GrandTotal, Subtotal, Given

\* The columns in riels of a parsed bill.
LEMMA ParsedKhr ==
    ASSUME NEW cart \in Cart, NEW grandKhr, NEW subtotalKhr, NEW discountKhr, NEW vatKhr,
           grandKhr = KhrColumn(cart, "grandKhr", GrandTotal(cart)),
           subtotalKhr = KhrColumn(cart, "subtotalKhr", Subtotal(cart)),
           discountKhr = KhrColumn(cart, "discountKhr", DiscountUsd(cart)),
           vatKhr = KhrColumn(cart, "vatKhr", VatUsd(cart))
    PROVE  LET g == Granule(cart.rounding)
               Left(columns) == columns \cap DOMAIN cart.named = {}
           IN  /\ Left({"grandKhr"}) =>
                      Abs(grandKhr - GrandTotal(cart) * cart.rate) <= Largest(g - 1, 0)
               /\ Left({"grand", "subtotalKhr", "discountKhr", "vatKhr", "grandKhr"}) =>
                      Abs(grandKhr - (subtotalKhr - discountKhr + vatKhr)) <= 2 * g
               /\ Left({"subtotal", "subtotalKhr"}) =>
                      Abs(LineKhr(cart) - subtotalKhr) <= (Len(cart.lines) + 1) * g
  <1> DEFINE rate == cart.rate
             r == cart.rounding
             named == DOMAIN cart.named
             subtotal == Subtotal(cart)
             discount == DiscountUsd(cart)
             vat == VatUsd(cart)
             grand == GrandTotal(cart)
             linesKhr == LineKhr(cart)
             g == Granule(r)
             most == Largest(g - 1, 0)
  <1>1. rate \in Nat \ {0} /\ r \in Rounding
    BY CheckoutAssumption DEF Cart
  <1>2. /\ subtotal \in Int /\ discount \in Int /\ vat \in Int /\ grand \in Int
        /\ "grand" \notin named => grand = subtotal - discount + vat
    BY TotalsAreInts
  <1>3. /\ subtotalKhr \in Int /\ discountKhr \in Int /\ vatKhr \in Int /\ grandKhr \in Int
        /\ subtotal * rate \in Int /\ discount * rate \in Int /\ vat * rate \in Int
        /\ grand * rate \in Int
        /\ "subtotalKhr" \notin named => Near(subtotalKhr, subtotal * rate, r)
        /\ "discountKhr" \notin named => Near(discountKhr, discount * rate, r)
        /\ "vatKhr" \notin named => Near(vatKhr, vat * rate, r)
        /\ "grandKhr" \notin named => Near(grandKhr, grand * rate, r)
    BY <1>2, KhrColumnNear
  <1>4. g \in Nat /\ most \in Nat /\ most <= g
    BY <1>1, GranuleIsNat
  <1>5. ASSUME "grandKhr" \notin named
        PROVE  Abs(grandKhr - grand * rate) <= most
    <2>1. grandKhr <= grand * rate + most /\ grand * rate <= grandKhr + most
      BY <1>3, <1>5 DEF Near
    <2> DEFINE exact == grand * rate
    <2> HIDE DEF most, exact
    <2>2. exact \in Int /\ grandKhr <= exact + most /\ exact <= grandKhr + most
      BY <1>3, <2>1 DEF exact
    <2>3. grandKhr - exact \in Int /\ grandKhr - exact <= most /\ 0 - most <= grandKhr - exact
      BY <1>3, <1>4, <2>2
    <2>4. Abs(grandKhr - exact) <= most
      BY <1>4, <2>3, AbsWithin
    <2> QED BY <2>4 DEF exact
  <1>6. ASSUME {"grand", "subtotalKhr", "discountKhr", "vatKhr", "grandKhr"} \cap named = {}
        PROVE  Abs(grandKhr - (subtotalKhr - discountKhr + vatKhr)) <= 2 * g
    <2>1. grand = subtotal - discount + vat
      BY <1>2, <1>6
    <2> HIDE DEF subtotal, discount, vat, grand, rate, g
    <2>2. grand * rate = subtotal * rate - discount * rate + vat * rate
      BY <1>1, <1>2, <2>1
    <2>3. /\ Near(subtotalKhr, subtotal * rate, r) /\ Near(discountKhr, discount * rate, r)
          /\ Near(vatKhr, vat * rate, r) /\ Near(grandKhr, grand * rate, r)
      BY <1>3, <1>6
    <2> QED BY <1>1, <1>3, <2>2, <2>3, PartsNear DEF g
  <1>7. ASSUME {"subtotal", "subtotalKhr"} \cap named = {}
        PROVE  Abs(linesKhr - subtotalKhr) <= (Len(cart.lines) + 1) * g
    <2> DEFINE exact == subtotal * rate
               n == Len(cart.lines)
    <2>0. subtotal = LinesSubtotal(cart)
      BY <1>7, TotalsAreInts
    <2>1. /\ n \in Nat /\ exact \in Int /\ n * g \in Nat /\ linesKhr \in Int
          /\ linesKhr <= exact + n * g /\ exact <= linesKhr + n * g
      BY <2>0, LinesNear
    <2>2. subtotalKhr <= exact + most /\ exact <= subtotalKhr + most
      BY <1>3, <1>7 DEF Near
    <2> DEFINE ng == n * g
    <2>3. (n + 1) * g = ng + g
      BY <1>4, <2>1
    <2>4. /\ n \in Nat /\ ng \in Nat /\ exact \in Int /\ linesKhr \in Int
          /\ linesKhr <= exact + ng /\ exact <= linesKhr + ng
      BY <2>1
    <2> HIDE DEF exact, n, ng, g, most, linesKhr
    <2>5. /\ linesKhr - subtotalKhr \in Int /\ linesKhr - subtotalKhr <= ng + g
          /\ 0 - (ng + g) <= linesKhr - subtotalKhr /\ ng + g \in Int
      BY <1>3, <1>4, <2>2, <2>4
    <2>6. Abs(linesKhr - subtotalKhr) <= ng + g
      BY <2>5, AbsWithin
    <2> QED BY <2>3, <2>6 DEF n
  <1> QED BY <1>5, <1>6, <1>7

LEMMA PaidNear ==
    ASSUME NEW tender \in Int, NEW rate \in Nat \ {0}, NEW currency \in {"USD", "KHR"}
    PROVE  /\ Paid(currency, tender, rate) \in Int
           /\ currency = "KHR" => 2 * Abs(Paid(currency, tender, rate) * rate - tender) <= rate
  <1>1. CASE currency = "USD"
    BY <1>1 DEF Paid
  <1>2. CASE currency = "KHR"
    <2> DEFINE k == RoundedDiv(tender, rate)
               e == rate * k - tender
    <2>1. k \in Int /\ 2 * (rate * k - tender) <= rate /\ -rate <= 2 * (rate * k - tender)
      BY RoundedNear
    <2>2. Paid(currency, tender, rate) = k
      BY <1>2 DEF Paid
    <2> HIDE DEF k
    <2>3. k * rate = rate * k /\ rate * k \in Int
      BY <2>1
    <2>4. e \in Int /\ 2 * e <= rate /\ 0 - rate <= 2 * e
      BY <2>1, <2>3
    <2>5. 2 * Abs(e) <= rate
      <3> HIDE DEF e
      <3> QED BY <2>4 DEF Abs
    <2>6. k * rate - tender = e
      BY <2>3
    <2> QED BY <2>1, <2>2, <2>5, <2>6
  <1> QED BY <1>1, <1>2

\* The columns of a parsed bill that the tender is about.
LEMMA ParsedTender ==
    ASSUME NEW cart \in Cart, NEW row, row = ParseCheckout(cart),
           cart.method = "CASH" => row.received >= row.tender
    PROVE  /\ row.tender \in Int /\ row.received \in Int /\ row.change \in Int
           /\ row.paid \in Int
           /\ cart.method = "CASH" /\ "change" \notin DOMAIN cart.named =>
                  row.received - row.change = row.tender
           /\ cart.currency = "KHR" /\ "paid" \notin DOMAIN cart.named =>
                  2 * Abs(row.paid * cart.rate - row.tender) <= cart.rate
  <1> DEFINE grand == GrandTotal(cart)
             grandKhr == KhrColumn(cart, "grandKhr", grand)
             due == TenderDue(cart.currency, grand, grandKhr)
             tender == Given(cart.named, "tender", due)
             received == Given(cart.named, "received", IF cart.method = "CASH" THEN tender ELSE 0)
             left == IF cart.method = "CASH" THEN ChangeDue(received, tender) ELSE 0
             change == Given(cart.named, "change", left)
             worth == Paid(cart.currency, tender, cart.rate)
             paid == Given(cart.named, "paid", worth)
  <1>1. /\ row.tender = tender /\ row.received = received /\ row.change = change
        /\ row.paid = paid
    BY DEF ParseCheckout
  <1>2. /\ cart.named \in Naming /\ cart.method \in {"CASH", "KHQR"}
        /\ cart.currency \in {"USD", "KHR"} /\ cart.rate \in Nat \ {0}
    BY CheckoutAssumption DEF Cart
  <1>3. grand \in Int /\ grandKhr \in Int
    BY TotalsAreInts, KhrColumnNear
  <1> HIDE DEF grand, grandKhr
  <1>4. due \in Int
    BY <1>3 DEF TenderDue
  <1> HIDE DEF due
  <1>5. tender \in Int
    BY <1>2, <1>4, GivenIsInt
  <1> HIDE DEF tender
  <1>6. received \in Int
    BY <1>2, <1>5, GivenIsInt
  <1> HIDE DEF received
  <1>7. left \in Int /\ (cart.method = "CASH" => left = received - tender)
    BY <1>1, <1>2, <1>5, <1>6 DEF ChangeDue, Largest
  <1> HIDE DEF left
  <1>8. change \in Int /\ ("change" \notin DOMAIN cart.named => change = left)
    BY <1>2, <1>7, GivenIsInt DEF Given
  <1>9. /\ worth \in Int
        /\ cart.currency = "KHR" => 2 * Abs(worth * cart.rate - tender) <= cart.rate
    BY <1>2, <1>5, PaidNear
  <1> HIDE DEF worth
  <1>10. paid \in Int /\ ("paid" \notin DOMAIN cart.named => paid = worth)
    BY <1>2, <1>9, GivenIsInt DEF Given
  <1> HIDE DEF change, paid
  <1>11. cart.method = "CASH" /\ "change" \notin DOMAIN cart.named => received - change = tender
    BY <1>5, <1>6, <1>7, <1>8
  <1> QED BY <1>1, <1>5, <1>6, <1>8, <1>9, <1>10, <1>11

\* What checkout stores says what it should, whatever the body names.
LEMMA ParsedFits ==
    ASSUME NEW cart \in Cart, NEW row, row = ParseCheckout(cart),
           row.tender = TenderDue(cart.currency, row.grand, row.grandKhr),
           cart.method = "CASH" => row.received >= row.tender
    PROVE  row \in BillRow /\ row.status = "PENDING" /\ BillHolds(row) /\ BillAddsUp(row)
  <1>1. /\ row.status = "PENDING" /\ row.cart = cart /\ row.replaced = {}
        /\ row.linesKhr = LineKhr(cart) /\ row.subtotal = Subtotal(cart)
        /\ row.discount = DiscountUsd(cart) /\ row.vat = VatUsd(cart)
        /\ row.grand = GrandTotal(cart)
        /\ row.subtotalKhr = KhrColumn(cart, "subtotalKhr", Subtotal(cart))
        /\ row.discountKhr = KhrColumn(cart, "discountKhr", DiscountUsd(cart))
        /\ row.vatKhr = KhrColumn(cart, "vatKhr", VatUsd(cart))
        /\ row.grandKhr = KhrColumn(cart, "grandKhr", GrandTotal(cart))
    BY DEF ParseCheckout
  <1>2. /\ row.tender \in Int /\ row.received \in Int /\ row.change \in Int
        /\ row.paid \in Int
        /\ cart.method = "CASH" /\ "change" \notin DOMAIN cart.named =>
               row.received - row.change = row.tender
        /\ cart.currency = "KHR" /\ "paid" \notin DOMAIN cart.named =>
               2 * Abs(row.paid * cart.rate - row.tender) <= cart.rate
    BY ParsedTender
  <1>3. /\ Subtotal(cart) \in Int /\ DiscountUsd(cart) \in Int /\ VatUsd(cart) \in Int
        /\ GrandTotal(cart) \in Int /\ LineKhr(cart) \in Int
    BY TotalsAreInts, LinesNear
  <1>4. /\ row.subtotalKhr \in Int /\ Whole(row.subtotalKhr, cart.rounding)
        /\ row.discountKhr \in Int /\ Whole(row.discountKhr, cart.rounding)
        /\ row.vatKhr \in Int /\ Whole(row.vatKhr, cart.rounding)
        /\ row.grandKhr \in Int /\ Whole(row.grandKhr, cart.rounding)
    BY <1>1, <1>3, KhrColumnNear
  <1>5. row = [status |-> "PENDING", cart |-> cart, replaced |-> {}, linesKhr |-> row.linesKhr,
               subtotal |-> row.subtotal, discount |-> row.discount, vat |-> row.vat,
               grand |-> row.grand, subtotalKhr |-> row.subtotalKhr,
               discountKhr |-> row.discountKhr, vatKhr |-> row.vatKhr,
               grandKhr |-> row.grandKhr, tender |-> row.tender, received |-> row.received,
               change |-> row.change, paid |-> row.paid]
    BY DEF ParseCheckout
  <1>6. row \in BillRow
    BY <1>1, <1>2, <1>3, <1>4, <1>5 DEF BillRow
  <1>7. BillHolds(row)
    BY <1>1, <1>4 DEF BillHolds
  <1> DEFINE g == Granule(cart.rounding)
  <1>8. /\ {"grandKhr"} \cap DOMAIN cart.named = {} =>
               Abs(row.grandKhr - GrandTotal(cart) * cart.rate) <= Largest(g - 1, 0)
        /\ {"grand", "subtotalKhr", "discountKhr", "vatKhr", "grandKhr"} \cap DOMAIN cart.named = {} =>
               Abs(row.grandKhr - (row.subtotalKhr - row.discountKhr + row.vatKhr)) <= 2 * g
        /\ {"subtotal", "subtotalKhr"} \cap DOMAIN cart.named = {} =>
               Abs(LineKhr(cart) - row.subtotalKhr) <= (Len(cart.lines) + 1) * g
    BY <1>1, ParsedKhr
  <1>9. BillAddsUp(row)
    <2>1. \A columns : Computed(row, columns) <=> columns \cap DOMAIN cart.named = {}
      BY <1>1 DEF Computed
    <2>2. g = IF cart.rounding.enabled THEN cart.rounding.granule ELSE 0
      BY DEF Granule
    <2> HIDE DEF g
    <2> QED BY <1>1, <1>2, <1>8, <2>1, <2>2 DEF BillAddsUp
  <1> QED BY <1>1, <1>6, <1>7, <1>9

BillInv ==
    /\ bill = NoBill \/ (bill \in BillRow /\ BillHolds(bill) /\ BillAddsUp(bill))
    /\ bill # NoBill /\ bill.status = "PENDING" => bill.replaced = {}
    /\ drawn = IF bill # NoBill /\ bill.status = "FINALIZED" /\ bill.cart.method = "CASH"
               THEN {bill.tender} ELSE {}

LEMMA BillsApart == NoBill \notin BillRow
  BY DEF NoBill, BillRow

\* What a finalize command replaces is left out of what the bill has to say.
LEMMA FinalizedFits ==
    ASSUME NEW b \in BillRow, NEW named \in Naming, NEW row, row = Finalized(b, named),
           b.replaced = {}, BillHolds(b), BillAddsUp(b), Storable(row)
    PROVE  /\ row \in BillRow /\ row.status = "FINALIZED" /\ row.cart = b.cart
           /\ BillHolds(row) /\ BillAddsUp(row)
  <1>1. /\ row.status = "FINALIZED" /\ row.cart = b.cart /\ row.linesKhr = b.linesKhr
        /\ row.replaced = Replaceable \cap DOMAIN named
        /\ row.subtotal = b.subtotal /\ row.discount = b.discount /\ row.vat = b.vat
        /\ row.grand = b.grand /\ row.subtotalKhr = b.subtotalKhr
        /\ row.discountKhr = b.discountKhr /\ row.vatKhr = b.vatKhr /\ row.grandKhr = b.grandKhr
        /\ row.tender = Given(named, "tender", b.tender)
        /\ row.received = Given(named, "received", b.received)
        /\ row.change = Given(named, "change", b.change)
        /\ row.paid = Given(named, "paid", b.paid)
    BY DEF Finalized, BillRow
  <1>2. b.tender \in Int /\ b.received \in Int /\ b.change \in Int /\ b.paid \in Int
    BY DEF BillRow
  <1>3. row.tender \in Int /\ row.received \in Int /\ row.change \in Int /\ row.paid \in Int
    BY <1>1, <1>2, GivenIsInt
  <1>4. row \in BillRow
    <2>1. row.replaced \in SUBSET Replaceable
      BY <1>1
    <2> QED BY <1>1, <1>3, <2>1 DEF BillRow, Finalized
  <1>5. /\ "tender" \notin row.replaced => row.tender = b.tender
        /\ "received" \notin row.replaced => row.received = b.received
        /\ "change" \notin row.replaced => row.change = b.change
        /\ "paid" \notin row.replaced => row.paid = b.paid
    BY <1>1 DEF Given, Replaceable
  <1>6. BillHolds(row)
    <2>1. b.cart.method = "CASH" => row.received >= row.tender
      BY <1>1 DEF Storable
    <2>2. \A c \in {"subtotalKhr", "discountKhr", "vatKhr", "grandKhr"} :
              Whole(row[c], row.cart.rounding)
      BY <1>1 DEF BillHolds
    <2>3. "tender" \notin row.replaced =>
              row.tender = TenderDue(row.cart.currency, row.grand, row.grandKhr)
      BY <1>1, <1>5 DEF BillHolds
    <2> QED BY <1>1, <2>1, <2>2, <2>3 DEF BillHolds
  <1>7. BillAddsUp(row)
    <2> DEFINE granule == IF b.cart.rounding.enabled THEN b.cart.rounding.granule ELSE 0
    <2>1. \A columns : Computed(row, columns) => Computed(b, columns)
      BY <1>1 DEF Computed
    <2>2. Computed(row, {"grandKhr"}) =>
              Abs(row.grandKhr - row.grand * row.cart.rate) <= Largest(granule - 1, 0)
      BY <1>1, <2>1 DEF BillAddsUp
    <2>3. Computed(row, {"grand", "subtotalKhr", "discountKhr", "vatKhr", "grandKhr"}) =>
              Abs(row.grandKhr - (row.subtotalKhr - row.discountKhr + row.vatKhr)) <= 2 * granule
      BY <1>1, <2>1 DEF BillAddsUp
    <2>4. Computed(row, {"subtotal", "subtotalKhr"}) =>
              Abs(row.linesKhr - row.subtotalKhr) <= (Len(row.cart.lines) + 1) * granule
      BY <1>1, <2>1 DEF BillAddsUp
    <2>5. row.cart.method = "CASH" /\ Computed(row, {"change"}) /\ row.replaced \subseteq {"paid"} =>
              row.received - row.change = row.tender
      BY <1>1, <1>5, <2>1 DEF BillAddsUp
    <2>6. row.cart.currency = "KHR" /\ Computed(row, {"paid"}) /\ "tender" \notin row.replaced =>
              2 * Abs(row.paid * row.cart.rate - row.tender) <= row.cart.rate
      <3>1. Computed(row, {"paid"}) => "paid" \notin row.replaced
        BY DEF Computed
      <3> QED BY <1>1, <1>5, <2>1, <3>1 DEF BillAddsUp
    <2> HIDE DEF granule
    <2>7. granule = IF row.cart.rounding.enabled THEN row.cart.rounding.granule ELSE 0
      BY <1>1 DEF granule
    <2> QED BY <2>2, <2>3, <2>4, <2>5, <2>6, <2>7 DEF BillAddsUp
  <1> QED BY <1>1, <1>4, <1>6, <1>7

LEMMA BillKept == BillInv /\ [CheckoutStep]_checkoutVars => BillInv'
  <1> SUFFICES ASSUME BillInv, [CheckoutStep]_checkoutVars PROVE BillInv'
    OBVIOUS
  <1>1. CASE \E cart \in Cart : Checkout(cart)
    <2>1. PICK cart \in Cart : Checkout(cart)
      BY <1>1
    <2> DEFINE row == ParseCheckout(cart)
    <2>2. /\ bill' = row /\ bill = NoBill /\ drawn' = drawn
          /\ row.tender = TenderDue(cart.currency, row.grand, row.grandKhr)
          /\ cart.method = "CASH" => row.received >= row.tender
      BY <2>1 DEF Checkout
    <2>3. row.replaced = {}
      BY DEF ParseCheckout
    <2> HIDE DEF row
    <2>4. row \in BillRow /\ row.status = "PENDING" /\ BillHolds(row) /\ BillAddsUp(row)
      BY <2>2, ParsedFits DEF row
    <2>5. drawn' = {}
      BY <2>2 DEF BillInv
    <2>6. bill' # NoBill
      BY <2>2, <2>4, BillsApart
    <2> QED BY <2>2, <2>3, <2>4, <2>5, <2>6 DEF BillInv, BillHolds, BillAddsUp, Computed
  <1>2. CASE \E named \in Naming : FinalizeBill(named)
    <2>1. PICK named \in Naming : FinalizeBill(named)
      BY <1>2
    <2>2. bill.status = "PENDING" /\ bill # NoBill
      BY <2>1 DEF FinalizeBill, NoBill
    <2> DEFINE row == Finalized(bill, named)
    <2>3. /\ bill' = row /\ Storable(row)
          /\ drawn' = IF bill.cart.method = "CASH" THEN {bill'.tender} ELSE {}
      BY <2>1 DEF FinalizeBill
    <2> HIDE DEF row
    <2>4. bill \in BillRow /\ bill.replaced = {} /\ BillHolds(bill) /\ BillAddsUp(bill)
      BY <2>2 DEF BillInv
    <2>5. /\ row \in BillRow /\ row.status = "FINALIZED" /\ row.cart = bill.cart
          /\ BillHolds(row) /\ BillAddsUp(row)
      BY <2>3, <2>4, FinalizedFits DEF row
    <2>6. bill' # NoBill
      BY <2>3, <2>5, BillsApart
    <2> QED BY <2>3, <2>5, <2>6 DEF BillInv, BillHolds, BillAddsUp, Computed
  <1>3. CASE NextCheckout
    BY <1>3 DEF NextCheckout, BillInv
  <1>4. CASE UNCHANGED checkoutVars
    BY <1>4 DEF checkoutVars, BillInv, BillHolds, BillAddsUp, Computed
  <1> QED BY <1>1, <1>2, <1>3, <1>4 DEF CheckoutStep

\* Whatever the cart, the rate, the rounding and the amounts the client names: every amount
\* in riels is whole, the tender of a pending bill is its grand total, the cash handed over
\* covers the tender and the drawer gains it; and the amounts that were left to be computed
\* agree to within the granules of their roundings.
THEOREM BillsStaySafe == TradeSpec => []BillsSafe
  <1>1. TradeInit => BillInv
    BY DEF TradeInit, CheckoutInit, BillInv
  <1>2. [TradeNext]_tradeVars => [CheckoutStep]_checkoutVars
    BY DEF TradeNext, DiscountTurn, MenuTurn, StockTurn, CheckoutTurn, LogTurn, NoteTurn, tradeVars
  <1>3. BillInv => BillsSafe
    <2> SUFFICES ASSUME BillInv PROVE BillsSafe
      OBVIOUS
    <2>1. CASE bill = NoBill
      BY <2>1 DEF BillsSafe, CheckoutTypeOK, BillAgrees, BillInv
    <2>2. CASE bill # NoBill
      <3>1. /\ bill \in BillRow /\ BillHolds(bill) /\ BillAddsUp(bill)
            /\ drawn = IF bill.status = "FINALIZED" /\ bill.cart.method = "CASH"
                       THEN {bill.tender} ELSE {}
        BY <2>2 DEF BillInv
      <3>2. bill.status \in {"PENDING", "FINALIZED"} /\ bill.tender \in Int
        BY <3>1 DEF BillRow
      <3>3. CheckoutTypeOK
        BY <3>1, <3>2 DEF CheckoutTypeOK
      <3>4. BillAgrees
        BY <3>1 DEF BillAgrees
      <3> QED BY <3>3, <3>4 DEF BillsSafe
    <2> QED BY <2>1, <2>2
  <1> QED BY <1>1, <1>2, <1>3, BillKept, PTL DEF TradeSpec

-----------------------------------------------------------------------------
(* The menu.  A patch under way has read its item as it still is, and no   *)
(* two have one item, unless the item is mixed: so a write puts the column *)
(* that its patch does not name back where it is.                          *)

DishRow ==
    [status : Live, price : Price, category : SUBSET Category, visible : SUBSET Shop,
     groups : SUBSET Group, base : Use, effects : [Option -> AtMostOne(Effect)]]
Patch == [price : AtMostOne(Price), category : AtMostOne(SUBSET Category)]
PatchRow == [of : {{d} : d \in Dish}, patch : Patch, read : Column]

AsAsked(d) == items[d].price = asked[d].price /\ items[d].category = asked[d].category
AsRead(e, d) ==
    patches[e].read.price = items[d].price /\ patches[e].read.category = items[d].category

MenuInv ==
    /\ categories \in [Category -> Live]
    /\ groups \in [Group -> [status : Live, rule : Choice]]
    /\ options \in [Option -> [status : Live, price : Price, uses : Use]]
    /\ items \in [Dish -> DishRow \cup {NoDish}]
    /\ patches \in [Editor -> PatchRow \cup {NoPatch}]
    /\ asked \in [Dish -> Column] /\ mixed \subseteq Dish /\ commands \in 0 .. MaxEdits
    /\ \A d \in Dish : Existing(d) /\ d \notin mixed => AsAsked(d)
    /\ \A e \in Editor, d \in Dish :
           d \in patches[e].of => Existing(d) /\ (d \notin mixed => AsRead(e, d))
    /\ \A e, f \in Editor, d \in Dish :
           d \in patches[e].of /\ d \in patches[f].of /\ e # f => d \in mixed

LEMMA MenuRowsApart == NoDish \notin DishRow /\ NoPatch \notin PatchRow /\ NoPatch.of = {}
  <1>1. \A r \in DishRow : r.status \in Live
    BY DEF DishRow
  <1>2. \A p \in PatchRow : p.of # {}
    BY DEF PatchRow
  <1> QED BY <1>1, <1>2 DEF NoDish, NoPatch, Live

LEMMA DishTyped ==
    ASSUME MenuInv, NEW d \in Dish, Existing(d)
    PROVE  items[d] \in DishRow
  BY DEF MenuInv, Existing

\* A row with one of its columns written anew.
LEMMA ColumnFits ==
    ASSUME NEW row \in DishRow
    PROVE  /\ \A status \in Live : LET r == UpdateMenuItemStatus(row, status) IN
                r \in DishRow /\ r.price = row.price /\ r.category = row.category
           /\ \A visible \in SUBSET Shop : LET r == VisibleIn(row, visible) IN
                r \in DishRow /\ r.price = row.price /\ r.category = row.category
           /\ \A base \in Use : LET r == WithBaseComponents(row, base) IN
                r \in DishRow /\ r.price = row.price /\ r.category = row.category
           /\ \A o \in Option, effect \in AtMostOne(Effect) : LET r == WithEffects(row, o, effect) IN
                r \in DishRow /\ r.price = row.price /\ r.category = row.category
           /\ \A c : LET r == Cleared(row, c) IN
                r \in DishRow /\ r.price = row.price /\ r.category = row.category \ {c}
  <1> DEFINE Effects == [Option -> AtMostOne(Effect)]
             Shape == [status : Live, price : Price, category : SUBSET Category,
                     visible : SUBSET Shop, groups : SUBSET Group, base : Use, effects : Effects]
  <1>1. DishRow = Shape
    BY DEF DishRow
  <1>2. \A o \in Option, effect \in AtMostOne(Effect) :
            [p \in Option |-> IF p = o THEN effect ELSE {}] \in Effects
    BY DEF AtMostOne
  <1>3. row # NoDish
    BY MenuRowsApart
  <1> HIDE DEF Effects
  <1> QED
    BY <1>1, <1>2, <1>3 DEF UpdateMenuItemStatus, VisibleIn, WithBaseComponents, WithEffects, Cleared

\* Commands that write neither the price nor the category of an item.
LEMMA RestOfItemKeeps ==
    ASSUME MenuInv, NEW d \in Dish, Existing(d), NEW row \in DishRow, CountCommand,
           row.price = items[d].price, row.category = items[d].category, SetItem(d, row),
           options' \in [Option -> [status : Live, price : Price, uses : Use]],
           UNCHANGED <<categories, groups>>, NoPatching
    PROVE  MenuInv'
  <1>1. /\ commands' \in 0 .. MaxEdits
        /\ UNCHANGED <<categories, groups, patches, asked, mixed>>
    BY MenuAssumption DEF MenuInv, CountCommand, NoPatching
  <1>2. items' = [items EXCEPT ![d] = row] /\ items' \in [Dish -> DishRow \cup {NoDish}]
    BY DEF SetItem, MenuInv
  <1>3. row # NoDish
    BY MenuRowsApart
  <1>4. \A c \in Dish : /\ items'[c].price = items[c].price
                        /\ items'[c].category = items[c].category
                        /\ items'[c] # NoDish <=> items[c] # NoDish
    BY <1>2, <1>3 DEF MenuInv, Existing
  <1>5. \A c \in Dish : (Existing(c)' <=> Existing(c)) /\ (AsAsked(c)' <=> AsAsked(c))
    BY <1>1, <1>4 DEF Existing, AsAsked
  <1>6. \A e \in Editor, c \in Dish : AsRead(e, c)' <=> AsRead(e, c)
    BY <1>1, <1>4 DEF AsRead
  <1> QED BY <1>1, <1>2, <1>5, <1>6 DEF MenuInv

\* Commands on the other tables.
LEMMA TablesKeep ==
    ASSUME MenuInv, CountCommand, UNCHANGED <<categories, items>>, NoPatching,
           groups' \in [Group -> [status : Live, rule : Choice]],
           options' \in [Option -> [status : Live, price : Price, uses : Use]]
    PROVE  MenuInv'
  <1>1. /\ commands' \in 0 .. MaxEdits
        /\ UNCHANGED <<categories, items, patches, asked, mixed>>
    BY MenuAssumption DEF MenuInv, CountCommand, NoPatching
  <1> QED BY <1>1 DEF MenuInv, Existing, AsAsked, AsRead

LEMMA GroupCommandsKeep == ASSUME MenuInv, GroupCommands PROVE MenuInv'
  <1> PICK g \in Group :
        ArchiveModifierGroup(g) \/ \E rule \in Choice : UpdateModifierGroup(g, rule)
    BY DEF GroupCommands
  <1>1. \A status \in Live, rule \in Choice :
            /\ [groups EXCEPT ![g].status = status] \in [Group -> [status : Live, rule : Choice]]
            /\ [groups EXCEPT ![g].rule = rule] \in [Group -> [status : Live, rule : Choice]]
    BY DEF MenuInv
  <1>2. CASE ArchiveModifierGroup(g)
    <2>1. /\ groups' = [groups EXCEPT ![g].status = "ARCHIVED"]
          /\ CountCommand /\ UNCHANGED <<categories, options, items>> /\ NoPatching
      BY <1>2 DEF ArchiveModifierGroup, SetGroupStatus
    <2>2. groups' \in [Group -> [status : Live, rule : Choice]]
      BY <2>1 DEF MenuInv, Live
    <2> QED BY <2>1, <2>2, TablesKeep DEF MenuInv
  <1>3. ASSUME NEW rule \in Choice, UpdateModifierGroup(g, rule) PROVE MenuInv'
    <2>1. /\ groups' = [groups EXCEPT ![g].rule = rule]
          /\ CountCommand /\ UNCHANGED <<categories, options, items>> /\ NoPatching
      BY <1>3 DEF UpdateModifierGroup, SetGroup
    <2>2. groups' \in [Group -> [status : Live, rule : Choice]]
      BY <1>1, <2>1 DEF Live
    <2> QED BY <2>1, <2>2, TablesKeep DEF MenuInv
  <1> QED BY <1>2, <1>3

LEMMA OptionCommandsKeep == ASSUME MenuInv, OptionCommands PROVE MenuInv'
  <1> PICK o \in Option :
        \/ \E price \in Price, uses \in Use : UpdateModifierOption(o, price, uses)
        \/ \E status \in Live : SetModifierOptionStatus(o, status)
    BY DEF OptionCommands
  <1> DEFINE Shape == [status : Live, price : Price, uses : Use]
  <1>1. options \in [Option -> Shape]
    BY DEF MenuInv
  <1>2. ASSUME NEW price \in Price, NEW uses \in Use, UpdateModifierOption(o, price, uses)
        PROVE  MenuInv'
    <2>1. /\ options' = [options EXCEPT ![o].price = price, ![o].uses = uses]
          /\ CountCommand /\ UNCHANGED <<categories, groups, items>> /\ NoPatching
      BY <1>2 DEF UpdateModifierOption, SetOption
    <2>2. options' \in [Option -> Shape]
      BY <1>1, <2>1
    <2> QED BY <2>1, <2>2, TablesKeep DEF MenuInv
  <1>3. ASSUME NEW status \in Live, SetModifierOptionStatus(o, status)
        PROVE  MenuInv'
    <2>1. /\ options' = [options EXCEPT ![o].status = status]
          /\ CountCommand /\ UNCHANGED <<categories, groups, items>> /\ NoPatching
      BY <1>3 DEF SetModifierOptionStatus, SetOptionStatus
    <2>2. options' \in [Option -> Shape]
      BY <1>1, <2>1
    <2> QED BY <2>1, <2>2, TablesKeep DEF MenuInv
  <1> QED BY <1>2, <1>3

LEMMA CategoryCommandsKeep == ASSUME MenuInv, CategoryCommands PROVE MenuInv'
  <1> PICK c \in Category : ArchiveCategory(c)
    BY DEF CategoryCommands
  <1>1. /\ commands' \in 0 .. MaxEdits /\ UNCHANGED <<groups, options, patches>>
        /\ categories' \in [Category -> Live]
    BY MenuAssumption DEF MenuInv, ArchiveCategory, CountCommand, Live
  <1>2. /\ items' = [d \in Dish |-> Cleared(items[d], c)]
        /\ asked' = [d \in Dish |-> [asked[d] EXCEPT !.category = @ \ {c}]]
        /\ mixed' = mixed \cup {d \in Dish : Patching(d)}
    BY DEF ArchiveCategory
  <1>3. ASSUME NEW d \in Dish
        PROVE  /\ items'[d] \in DishRow \cup {NoDish} /\ (Existing(d)' <=> Existing(d))
               /\ Existing(d) => /\ items'[d].price = items[d].price
                                 /\ items'[d].category = items[d].category \ {c}
    <2>1. CASE items[d] = NoDish
      BY <1>2, <2>1 DEF Cleared, Existing
    <2>2. CASE items[d] # NoDish
      <3>1. items[d] \in DishRow
        BY <2>2, DishTyped DEF Existing
      <3>2. items'[d] = Cleared(items[d], c)
        BY <1>2
      <3> QED BY <2>2, <3>1, <3>2, ColumnFits, MenuRowsApart DEF Existing
    <2> QED BY <2>1, <2>2
  <1>4. items' \in [Dish -> DishRow \cup {NoDish}]
    BY <1>2, <1>3
  <1>5. \A d \in Dish : /\ asked'[d] \in Column /\ asked'[d].price = asked[d].price
                        /\ asked'[d].category = asked[d].category \ {c}
    BY <1>2 DEF MenuInv, Column
  <1>6. asked' \in [Dish -> Column] /\ mixed' \subseteq Dish /\ mixed \subseteq mixed'
    BY <1>2, <1>5 DEF MenuInv
  <1>7. ASSUME NEW d \in Dish, Existing(d)', d \notin mixed' PROVE AsAsked(d)'
    <2>1. Existing(d) /\ AsAsked(d)
      BY <1>3, <1>6, <1>7 DEF MenuInv
    <2> QED BY <1>3, <1>5, <2>1 DEF AsAsked
  <1>8. \A e \in Editor, d \in Dish : d \in patches[e].of => d \in mixed'
    BY <1>2 DEF Patching
  <1> QED BY <1>1, <1>3, <1>4, <1>6, <1>7, <1>8 DEF MenuInv

LEMMA CreateMenuItemKeeps ==
    ASSUME MenuInv, NEW d \in Dish, NEW price \in Price, NEW category \in AtMostOne(Category),
           NEW visible \in SUBSET Shop, NEW set \in SUBSET Group,
           CreateMenuItem(d, price, category, visible, set)
    PROVE  MenuInv'
  <1> DEFINE row == NewItem(price, category, visible, set)
             wish == [price |-> price, category |-> category]
  <1>1. category \in SUBSET Category
    BY DEF AtMostOne
  <1>2. row \in DishRow /\ row.price = price /\ row.category = category
    <2> DEFINE Effects == [Option -> AtMostOne(Effect)]
    <2>1. [o \in Option |-> {}] \in Effects
      BY DEF AtMostOne
    <2> HIDE DEF Effects
    <2>2. DishRow = [status : Live, price : Price, category : SUBSET Category,
                     visible : SUBSET Shop, groups : SUBSET Group, base : Use, effects : Effects]
      BY DEF DishRow, Effects
    <2> QED BY <1>1, <2>1, <2>2, MenuAssumption DEF NewItem, Live
  <1>3. wish \in Column /\ wish.price = price /\ wish.category = category
    BY <1>1 DEF Column
  <1>4. /\ items' = [items EXCEPT ![d] = row] /\ asked' = [asked EXCEPT ![d] = wish]
        /\ ~Existing(d) /\ CountCommand
        /\ UNCHANGED <<categories, groups, options, patches, mixed>>
    BY DEF CreateMenuItem, SetItem, OnlyItems
  <1> HIDE DEF row, wish
  <1>5. commands' \in 0 .. MaxEdits
    BY <1>4, MenuAssumption DEF MenuInv, CountCommand
  <1>6. items' \in [Dish -> DishRow \cup {NoDish}] /\ asked' \in [Dish -> Column]
    BY <1>2, <1>3, <1>4 DEF MenuInv
  <1>7. AsAsked(d)'
    BY <1>2, <1>3, <1>4 DEF MenuInv, AsAsked
  <1>8. \A c \in Dish : c # d => items'[c] = items[c] /\ asked'[c] = asked[c]
    BY <1>4 DEF MenuInv
  <1>9. \A e \in Editor, c \in Dish : c \in patches[e].of => c # d
    BY <1>4 DEF MenuInv
  <1>10. \A c \in Dish : c # d => (Existing(c)' <=> Existing(c)) /\ (AsAsked(c)' <=> AsAsked(c))
    BY <1>8 DEF Existing, AsAsked
  <1>11. \A e \in Editor, c \in Dish : c # d => (AsRead(e, c)' <=> AsRead(e, c))
    BY <1>4, <1>8 DEF AsRead
  <1> QED BY <1>4, <1>5, <1>6, <1>7, <1>9, <1>10, <1>11 DEF MenuInv

LEMMA PatchFits ==
    ASSUME NEW patch \in Patches
    PROVE  patch \in Patch
  BY DEF Patches, Patch, AtMostOne

LEMMA ReadMenuItemKeeps ==
    ASSUME MenuInv, NEW e \in Editor, NEW d \in Dish, NEW patch \in Patches,
           ReadMenuItem(e, d, patch)
    PROVE  MenuInv'
  <1> DEFINE read == [price |-> items[d].price, category |-> items[d].category]
             row == [of |-> {d}, patch |-> patch, read |-> read]
  <1>1. read \in Column /\ Existing(d) /\ commands' \in 0 .. MaxEdits
    <2>1. items[d] \in DishRow /\ Existing(d)
      BY DishTyped DEF ReadMenuItem
    <2>2. items[d].price \in Price /\ items[d].category \in SUBSET Category
      BY <2>1 DEF DishRow
    <2> QED
      BY <2>1, <2>2, MenuAssumption DEF Column, MenuInv, ReadMenuItem, CountCommand
  <1>2. row \in PatchRow
    BY <1>1, PatchFits DEF PatchRow
  <1>3. row.of = {d} /\ row.read.price = items[d].price /\ row.read.category = items[d].category
    OBVIOUS
  <1>4. /\ patches' = [patches EXCEPT ![e] = row] /\ patches[e] = NoPatch
        /\ mixed' = IF Patching(d) THEN mixed \cup {d} ELSE mixed
        /\ UNCHANGED <<categories, groups, options, items, asked>>
    BY DEF ReadMenuItem, OnlyItems
  <1> HIDE DEF read, row
  <1>5. patches' \in [Editor -> PatchRow \cup {NoPatch}] /\ mixed' \subseteq Dish /\ mixed \subseteq mixed'
    BY <1>2, <1>4 DEF MenuInv
  <1>6. \A f \in Editor : f # e => patches'[f] = patches[f]
    BY <1>4 DEF MenuInv
  <1>7. patches'[e] = row
    BY <1>4 DEF MenuInv
  <1>8. \A c \in Dish : (Existing(c)' <=> Existing(c)) /\ (AsAsked(c)' <=> AsAsked(c))
    BY <1>4 DEF Existing, AsAsked
  <1>9. ASSUME NEW f \in Editor, NEW c \in Dish, c \in patches'[f].of
        PROVE  Existing(c)' /\ (c \notin mixed' => AsRead(f, c)')
    <2>1. CASE f = e
      BY <1>1, <1>3, <1>4, <1>7, <1>8, <1>9, <2>1 DEF AsRead
    <2>2. CASE f # e
      <3>1. patches'[f] = patches[f] /\ (AsRead(f, c)' <=> AsRead(f, c))
        BY <1>4, <1>6, <2>2 DEF AsRead
      <3> QED BY <1>5, <1>8, <1>9, <3>1 DEF MenuInv
    <2> QED BY <2>1, <2>2
  <1>10. ASSUME NEW f \in Editor, NEW g \in Editor, NEW c \in Dish,
                c \in patches'[f].of, c \in patches'[g].of, f # g
         PROVE  c \in mixed'
    <2>1. ASSUME NEW h \in Editor, h # e, c \in patches'[h].of, c \in patches'[e].of
          PROVE  c \in mixed'
      <3>1. c = d /\ c \in patches[h].of
        BY <1>3, <1>6, <1>7, <2>1
      <3>2. Patching(d)
        BY <3>1 DEF Patching
      <3> QED BY <1>4, <3>1, <3>2
    <2>2. CASE f # e /\ g # e
      BY <1>5, <1>6, <1>10, <2>2 DEF MenuInv
    <2> QED BY <1>10, <2>1, <2>2
  <1> QED BY <1>1, <1>4, <1>5, <1>8, <1>9, <1>10 DEF MenuInv

\* What a patch writes of an item's price and category.
LEMMA PatchedFits ==
    ASSUME NEW patch \in Patch, NEW read \in Column
    PROVE  /\ Patched(patch, read) \in Column
           /\ patch.price = {} => Patched(patch, read).price = read.price
           /\ patch.category = {} => Patched(patch, read).category = read.category
  <1>1. patch.price \in AtMostOne(Price) /\ patch.category \in AtMostOne(SUBSET Category)
    BY DEF Patch
  <1>2. patch.price # {} => (CHOOSE p \in patch.price : TRUE) \in Price
    BY <1>1 DEF AtMostOne
  <1>3. patch.category # {} => (CHOOSE c \in patch.category : TRUE) \in SUBSET Category
    BY <1>1 DEF AtMostOne
  <1> QED BY <1>2, <1>3 DEF Patched, Column

\* An item with other groups, if they are named, at a price and in a category.
LEMMA PatchedRowFits ==
    ASSUME NEW row \in DishRow, NEW named \in AtMostOne(SUBSET Group), NEW to \in Column
    PROVE  LET r == [WithModifierGroups(row, named) EXCEPT !.price = to.price,
                                                           !.category = to.category]
           IN  r \in DishRow /\ r.price = to.price /\ r.category = to.category
  <1> DEFINE set == IF named = {} THEN row.groups ELSE CHOOSE s \in named : TRUE
             Effects == [Option -> AtMostOne(Effect)]
  <1>1. set \in SUBSET Group
    BY DEF AtMostOne, DishRow
  <1>2. WithModifierGroups(row, named) = [row EXCEPT !.groups = set]
    BY DEF WithModifierGroups
  <1>3. to.price \in Price /\ to.category \in SUBSET Category
    BY DEF Column
  <1> HIDE DEF set, Effects
  <1>4. DishRow = [status : Live, price : Price, category : SUBSET Category,
                   visible : SUBSET Shop, groups : SUBSET Group, base : Use, effects : Effects]
    BY DEF DishRow, Effects
  <1> QED BY <1>1, <1>2, <1>3, <1>4

LEMMA WriteMenuItemKeeps ==
    ASSUME MenuInv, NEW e \in Editor, NEW named \in AtMostOne(SUBSET Group),
           WriteMenuItem(e, named)
    PROVE  MenuInv'
  <1> PICK d \in patches[e].of :
        LET row == Patched(patches[e].patch, patches[e].read)
        IN  /\ SetItem(d, [WithModifierGroups(items[d], named) EXCEPT !.price = row.price,
                                                                      !.category = row.category])
            /\ asked' = [asked EXCEPT ![d] =
                 [price |-> IF patches[e].patch.price = {} THEN @.price ELSE row.price,
                  category |-> IF patches[e].patch.category = {} THEN @.category
                               ELSE row.category]]
            /\ patches' = [patches EXCEPT ![e] = NoPatch]
            /\ OnlyItems /\ UNCHANGED <<mixed, commands>>
    BY DEF WriteMenuItem
  <1> PICK p \in PatchRow : p = patches[e]
    BY MenuRowsApart DEF MenuInv
  <1>1. /\ d \in Dish /\ d \in patches[e].of /\ p.patch \in Patch /\ p.read \in Column
    BY DEF PatchRow
  <1>2. /\ items[d] \in DishRow /\ Existing(d)
        /\ d \notin mixed => AsRead(e, d) /\ AsAsked(d)
    BY <1>1, DishTyped DEF MenuInv
  <1>3. PICK to \in Column : to = Patched(p.patch, p.read)
    BY <1>1, PatchedFits
  <1> DEFINE row == [WithModifierGroups(items[d], named) EXCEPT !.price = to.price,
                                                                !.category = to.category]
             wish == [price |-> IF p.patch.price = {} THEN asked[d].price ELSE to.price,
                      category |-> IF p.patch.category = {} THEN asked[d].category ELSE to.category]
  <1>4. row \in DishRow /\ row.price = to.price /\ row.category = to.category
    <2>1. items[d] \in DishRow
      BY <1>2
    <2> QED BY ZenonT(40), <2>1, PatchedRowFits
  <1>5. wish \in Column
    BY <1>1 DEF MenuInv, Column
  <1>6. d \notin mixed => wish.price = to.price /\ wish.category = to.category
    <2> SUFFICES ASSUME d \notin mixed
                 PROVE  wish.price = to.price /\ wish.category = to.category
      OBVIOUS
    <2>1. asked[d].price = p.read.price /\ asked[d].category = p.read.category
      BY <1>2 DEF AsRead, AsAsked
    <2>2. /\ p.patch.price = {} => to.price = p.read.price
          /\ p.patch.category = {} => to.category = p.read.category
      BY <1>1, <1>3, PatchedFits
    <2> QED BY <2>1, <2>2
  <1>7. /\ items' = [items EXCEPT ![d] = row] /\ asked' = [asked EXCEPT ![d] = wish]
        /\ patches' = [patches EXCEPT ![e] = NoPatch]
        /\ UNCHANGED <<categories, groups, options, mixed, commands>>
    BY <1>1, <1>3 DEF SetItem, OnlyItems, MenuInv
  <1> HIDE DEF row, wish
  <1>8. /\ items' \in [Dish -> DishRow \cup {NoDish}] /\ asked' \in [Dish -> Column]
        /\ patches' \in [Editor -> PatchRow \cup {NoPatch}]
    <2>1. items' \in [Dish -> DishRow \cup {NoDish}]
      BY <1>4, <1>7 DEF MenuInv
    <2>2. asked' \in [Dish -> Column]
      BY <1>5, <1>7 DEF MenuInv
    <2>3. patches' \in [Editor -> PatchRow \cup {NoPatch}]
      BY <1>7 DEF MenuInv
    <2> QED BY <2>1, <2>2, <2>3
  <1>9. \A c \in Dish : c # d => items'[c] = items[c] /\ asked'[c] = asked[c]
    BY <1>7 DEF MenuInv
  <1>10. items'[d] = row /\ asked'[d] = wish /\ patches'[e] = NoPatch
    BY <1>1, <1>7 DEF MenuInv
  <1>11. \A f \in Editor : f # e => patches'[f] = patches[f]
    BY <1>7 DEF MenuInv
  <1>12. \A c \in Dish : Existing(c)' <=> Existing(c)
    BY <1>2, <1>4, <1>9, <1>10, MenuRowsApart DEF Existing
  <1>13. ASSUME NEW c \in Dish, Existing(c)', c \notin mixed' PROVE AsAsked(c)'
    <2>1. CASE c = d
      BY <1>4, <1>6, <1>7, <1>10, <1>13, <2>1 DEF AsAsked
    <2>2. CASE c # d
      <3>1. AsAsked(c)' <=> AsAsked(c)
        BY <1>9, <2>2 DEF AsAsked
      <3> QED BY <1>7, <1>12, <1>13, <3>1 DEF MenuInv
    <2> QED BY <2>1, <2>2
  <1>14. ASSUME NEW f \in Editor, NEW c \in Dish, c \in patches'[f].of
         PROVE  f # e /\ Existing(c)' /\ (c \notin mixed' => AsRead(f, c)')
    <2>1. f # e /\ c \in patches[f].of
      BY <1>10, <1>11, <1>14, MenuRowsApart
    <2>2. c \notin mixed' => c # d
      BY <1>1, <1>7, <2>1 DEF MenuInv
    <2>3. c # d => (AsRead(f, c)' <=> AsRead(f, c))
      BY <1>9, <1>11, <2>1 DEF AsRead
    <2> QED BY <1>7, <1>12, <2>1, <2>2, <2>3 DEF MenuInv
  <1>15. ASSUME NEW f \in Editor, NEW g \in Editor, NEW c \in Dish,
                c \in patches'[f].of, c \in patches'[g].of, f # g
         PROVE  c \in mixed'
    BY <1>7, <1>11, <1>14, <1>15 DEF MenuInv
  <1>16. commands' \in 0 .. MaxEdits
    BY <1>7 DEF MenuInv
  <1> QED BY <1>7, <1>8, <1>12, <1>13, <1>14, <1>15, <1>16 DEF MenuInv

LEMMA ItemCommandsKeep == ASSUME MenuInv, ItemCommands PROVE MenuInv'
  <1> PICK d \in Dish :
        \/ \E price \in Price, category \in AtMostOne(Category),
              visible \in SUBSET Shop, set \in SUBSET Group :
               CreateMenuItem(d, price, category, visible, set)
        \/ \E status \in Live : SetMenuItemStatus(d, status)
        \/ \E visible \in SUBSET Shop : SetMenuItemVisibility(d, visible)
        \/ \E e \in Editor, patch \in Patches : ReadMenuItem(e, d, patch)
    BY DEF ItemCommands
  <1>1. ASSUME NEW status \in Live, SetMenuItemStatus(d, status) PROVE MenuInv'
    <2>1. /\ CountCommand /\ Existing(d) /\ SetItem(d, UpdateMenuItemStatus(items[d], status))
          /\ UNCHANGED <<categories, groups, options>> /\ NoPatching
      BY <1>1 DEF SetMenuItemStatus, OnlyItems
    <2>2. items[d] \in DishRow
      BY <2>1, DishTyped
    <2> QED BY <2>1, <2>2, ColumnFits, RestOfItemKeeps DEF MenuInv
  <1>2. ASSUME NEW visible \in SUBSET Shop, SetMenuItemVisibility(d, visible) PROVE MenuInv'
    <2>1. /\ CountCommand /\ Existing(d) /\ SetItem(d, VisibleIn(items[d], visible))
          /\ UNCHANGED <<categories, groups, options>> /\ NoPatching
      BY <1>2 DEF SetMenuItemVisibility, OnlyItems
    <2>2. items[d] \in DishRow
      BY <2>1, DishTyped
    <2> QED BY <2>1, <2>2, ColumnFits, RestOfItemKeeps DEF MenuInv
  <1> QED BY <1>1, <1>2, CreateMenuItemKeeps, ReadMenuItemKeeps

LEMMA CompositionCommandsKeep == ASSUME MenuInv, CompositionCommands PROVE MenuInv'
  <1> PICK d \in Dish, o \in Option :
        \/ \E base, uses \in Use : UpsertComposition(d, base, o, uses)
        \/ \E effect \in AtMostOne(Effect) : ReplaceModifierOptionEffects(d, o, effect)
    BY DEF CompositionCommands
  <1>1. ASSUME NEW base \in Use, NEW uses \in Use, UpsertComposition(d, base, o, uses)
        PROVE  MenuInv'
    <2>1. /\ CountCommand /\ Existing(d) /\ SetItem(d, WithBaseComponents(items[d], base))
          /\ UNCHANGED <<categories, groups>> /\ NoPatching
          /\ options' = [options EXCEPT ![o].uses = uses]
      BY <1>1 DEF UpsertComposition, SetComponentDeltas
    <2>2. items[d] \in DishRow
      BY <2>1, DishTyped
    <2> DEFINE Shape == [status : Live, price : Price, uses : Use]
    <2>3. options' \in [Option -> Shape]
      <3>1. options \in [Option -> Shape]
        BY DEF MenuInv
      <3> QED BY <2>1, <3>1
    <2> QED BY <2>1, <2>2, <2>3, ColumnFits, RestOfItemKeeps
  <1>2. ASSUME NEW effect \in AtMostOne(Effect), ReplaceModifierOptionEffects(d, o, effect)
        PROVE  MenuInv'
    <2>1. /\ CountCommand /\ Existing(d) /\ SetItem(d, WithEffects(items[d], o, effect))
          /\ UNCHANGED <<categories, groups, options>> /\ NoPatching
      BY <1>2 DEF ReplaceModifierOptionEffects, OnlyItems
    <2>2. items[d] \in DishRow
      BY <2>1, DishTyped
    <2>3. PICK row \in DishRow : /\ row = WithEffects(items[d], o, effect)
                                /\ row.price = items[d].price
                                /\ row.category = items[d].category
      BY <2>2, ColumnFits
    <2>4. options' \in [Option -> [status : Live, price : Price, uses : Use]]
      BY <2>1 DEF MenuInv
    <2> QED BY <2>1, <2>3, <2>4, RestOfItemKeeps
  <1> QED BY <1>1, <1>2

LEMMA MenuKept == MenuInv /\ [MenuStep]_menuVars => MenuInv'
  <1> SUFFICES ASSUME MenuInv, [MenuStep]_menuVars PROVE MenuInv'
    OBVIOUS
  <1>1. CASE UNCHANGED menuVars
    BY <1>1 DEF menuVars, MenuInv, Existing, AsAsked, AsRead
  <1>2. CASE MenuStep
    BY <1>2, CategoryCommandsKeep, GroupCommandsKeep, OptionCommandsKeep, ItemCommandsKeep,
       CompositionCommandsKeep, WriteMenuItemKeeps DEF MenuStep
  <1> QED BY <1>1, <1>2

LEMMA MenuStarts == MenuInit => MenuInv
  <1> SUFFICES ASSUME MenuInit PROVE MenuInv
    OBVIOUS
  <1>1. /\ categories \in [Category -> Live] /\ groups \in [Group -> [status : Live, rule : Choice]]
    BY DEF MenuInit, Live
  <1>2. options \in [Option -> [status : Live, price : Price, uses : Use]]
    BY MenuAssumption DEF MenuInit, Live
  <1>3. items \in [Dish -> DishRow \cup {NoDish}] /\ \A d \in Dish : ~Existing(d)
    BY DEF MenuInit, Existing
  <1>4. patches \in [Editor -> PatchRow \cup {NoPatch}] /\ \A e \in Editor : patches[e].of = {}
    BY MenuRowsApart DEF MenuInit
  <1>5. asked \in [Dish -> Column] /\ mixed \subseteq Dish /\ commands \in 0 .. MaxEdits
    BY MenuAssumption DEF MenuInit, Column
  <1> QED BY <1>1, <1>2, <1>3, <1>4, <1>5 DEF MenuInv

-----------------------------------------------------------------------------
(* What the three readers add up.  The order and the stock deduction sum   *)
(* over a set, the preview over a sequence that names it once; all of them *)
(* are brought to the sum of one column.                                   *)

Tracked(uses) == IF uses.tracked THEN uses.quantity ELSE 0

LEMMA UseTyped ==
    ASSUME NEW uses \in Use
    PROVE  uses.tracked \in BOOLEAN /\ uses.quantity \in Int /\ Tracked(uses) \in Int
  <1>1. uses \in [tracked : BOOLEAN, quantity : Int]
    BY MenuAssumption
  <1> QED BY <1>1 DEF Tracked

\* Two ways to write the price of an option, and the use of it: the sums are the column's.
LEMMA OrderedSum ==
    ASSUME NEW d, NEW S, IsFiniteSet(S), NEW k, \A o \in S : k[o]["n"] \in Int,
           \A o \in S : k[o]["n"] = Chosen(OrderPrice(d, o))
    PROVE  MapThenSumSet(LAMBDA o : CHOOSE p \in OrderPrice(d, o) : TRUE, S) = ColumnSum(k, "n", S)
  <1> DEFINE f == CHOOSE f : f = [s \in SUBSET S |-> IF s = {} THEN 0 ELSE
                      Chosen(OrderPrice(d, Chosen(s))) + f[s \ {Chosen(s)}]]
  <1>1. PICK g : IsSum(g, k, "n", S) /\ ColumnSum(k, "n", S) = g[S]
    BY FoldIsSum
  <1>2. \A s \in SUBSET S : s # {} => k[Chosen(s)]["n"] = Chosen(OrderPrice(d, Chosen(s)))
    BY DEF Chosen
  <1>3. g = [s \in SUBSET S |-> IF s = {} THEN 0 ELSE
                Chosen(OrderPrice(d, Chosen(s))) + g[s \ {Chosen(s)}]]
    BY <1>1, <1>2 DEF IsSum
  <1>4. f = [s \in SUBSET S |-> IF s = {} THEN 0 ELSE
                Chosen(OrderPrice(d, Chosen(s))) + f[s \ {Chosen(s)}]]
    BY <1>3
  <1>5. MapThenSumSet(LAMBDA o : CHOOSE p \in OrderPrice(d, o) : TRUE, S) = f[S]
    BY DEF MapThenSumSet, MapThenFoldSet, Chosen
  <1> HIDE DEF f
  <1>6. IsSum(f, k, "n", S)
    BY <1>2, <1>4 DEF IsSum
  <1> QED BY <1>1, <1>5, <1>6, SumIsUnique

LEMMA ShownSum ==
    ASSUME NEW d, NEW S, IsFiniteSet(S), NEW k, \A o \in S : k[o]["n"] \in Int,
           \A o \in S : k[o]["n"] = Chosen(Page(d)[o].price)
    PROVE  MapThenSumSet(LAMBDA o : CHOOSE p \in Page(d)[o].price : TRUE, S) = ColumnSum(k, "n", S)
  <1> DEFINE f == CHOOSE f : f = [s \in SUBSET S |-> IF s = {} THEN 0 ELSE
                      Chosen(Page(d)[Chosen(s)].price) + f[s \ {Chosen(s)}]]
  <1>1. PICK g : IsSum(g, k, "n", S) /\ ColumnSum(k, "n", S) = g[S]
    BY FoldIsSum
  <1>2. \A s \in SUBSET S : s # {} => k[Chosen(s)]["n"] = Chosen(Page(d)[Chosen(s)].price)
    BY DEF Chosen
  <1>3. g = [s \in SUBSET S |-> IF s = {} THEN 0 ELSE
                Chosen(Page(d)[Chosen(s)].price) + g[s \ {Chosen(s)}]]
    BY <1>1, <1>2 DEF IsSum
  <1>4. f = [s \in SUBSET S |-> IF s = {} THEN 0 ELSE
                Chosen(Page(d)[Chosen(s)].price) + f[s \ {Chosen(s)}]]
    BY <1>3
  <1>5. MapThenSumSet(LAMBDA o : CHOOSE p \in Page(d)[o].price : TRUE, S) = f[S]
    BY DEF MapThenSumSet, MapThenFoldSet, Chosen
  <1> HIDE DEF f
  <1>6. IsSum(f, k, "n", S)
    BY <1>2, <1>4 DEF IsSum
  <1> QED BY <1>1, <1>5, <1>6, SumIsUnique

LEMMA DeductedSum ==
    ASSUME NEW d, NEW S, IsFiniteSet(S), NEW k, \A o \in S : k[o]["n"] \in Int,
           \A o \in S : k[o]["n"] = TrackedOf(d, o)
    PROVE  MapThenSumSet(LAMBDA o : TrackedOf(d, o), S) = ColumnSum(k, "n", S)
  <1> DEFINE f == CHOOSE f : f = [s \in SUBSET S |-> IF s = {} THEN 0 ELSE
                      TrackedOf(d, Chosen(s)) + f[s \ {Chosen(s)}]]
  <1>1. PICK g : IsSum(g, k, "n", S) /\ ColumnSum(k, "n", S) = g[S]
    BY FoldIsSum
  <1>2. \A s \in SUBSET S : s # {} => k[Chosen(s)]["n"] = TrackedOf(d, Chosen(s))
    BY DEF Chosen
  <1>3. g = [s \in SUBSET S |-> IF s = {} THEN 0 ELSE
                TrackedOf(d, Chosen(s)) + g[s \ {Chosen(s)}]]
    BY <1>1, <1>2 DEF IsSum
  <1>4. f = [s \in SUBSET S |-> IF s = {} THEN 0 ELSE
                TrackedOf(d, Chosen(s)) + f[s \ {Chosen(s)}]]
    BY <1>3
  <1>5. MapThenSumSet(LAMBDA o : TrackedOf(d, o), S) = f[S]
    BY DEF MapThenSumSet, MapThenFoldSet, Chosen
  <1> HIDE DEF f
  <1>6. IsSum(f, k, "n", S)
    BY <1>2, <1>4 DEF IsSum
  <1> QED BY <1>1, <1>5, <1>6, SumIsUnique

\* The sum over the one thing there is.
LEMMA TrackedAlone ==
    ASSUME NEW uses \in Use
    PROVE  SumTracked({uses}) = Tracked(uses)
  <1> DEFINE S == {uses}
             k == [x \in S |-> [n |-> Tracked(x)]]
             f == CHOOSE f : f = [s \in SUBSET S |-> IF s = {} THEN 0 ELSE
                      Tracked(Chosen(s)) + f[s \ {Chosen(s)}]]
  <1>1. IsFiniteSet(S) /\ (\A x \in S : k[x]["n"] = Tracked(x) /\ k[x]["n"] \in Int)
    BY UseTyped, FS_Singleton
  <1>2. SumTracked(S) = f[S]
    BY DEF SumTracked, MapThenSumSet, MapThenFoldSet, Chosen, Tracked
  <1>3. \A s \in SUBSET S : s # {} => Chosen(s) \in S
    BY DEF Chosen
  <1>4. Chosen(S) = uses /\ S # {} /\ S \ {uses} = {} /\ {} \in SUBSET S /\ S \in SUBSET S
    BY DEF Chosen
  <1> HIDE DEF k, S
  <1>5. PICK g : IsSum(g, k, "n", S)
    BY <1>1, SumExists
  <1>6. g = [s \in SUBSET S |-> IF s = {} THEN 0 ELSE Tracked(Chosen(s)) + g[s \ {Chosen(s)}]]
    BY <1>1, <1>3, <1>5 DEF IsSum
  <1>7. f = [s \in SUBSET S |-> IF s = {} THEN 0 ELSE Tracked(Chosen(s)) + f[s \ {Chosen(s)}]]
    BY <1>6
  <1> HIDE DEF f
  <1>8. f[{}] = 0 /\ f[S] = Tracked(uses) + f[{}]
    BY <1>4, <1>7
  <1>9. SumTracked({uses}) = f[S]
    BY <1>2 DEF S
  <1> QED BY <1>8, <1>9, UseTyped

\* The effects of an option on an item are what the page shows and what is deducted.
LEMMA UsesAgree ==
    ASSUME MenuInv, NEW d \in Dish, Existing(d), NEW o \in Option
    PROVE  EffectiveUse(d, o) \in Use /\ TrackedOf(d, o) = Tracked(EffectiveUse(d, o))
  <1>1. items[d].effects[o] \in AtMostOne(Effect)
    BY DishTyped DEF DishRow
  <1>2. CASE items[d].effects[o] = {}
    <2>1. EffectiveUse(d, o) = options[o].uses /\ options[o].uses \in Use
      BY <1>2 DEF EffectiveUse, MenuInv
    <2>2. {effect.uses : effect \in items[d].effects[o]} = {}
      BY <1>2
    <2>3. TrackedOf(d, o) = SumTracked({options[o].uses})
      BY <2>2 DEF TrackedOf
    <2> QED BY <2>1, <2>3, TrackedAlone
  <1>3. ASSUME NEW effect \in Effect, items[d].effects[o] = {effect}
        PROVE  EffectiveUse(d, o) \in Use /\ TrackedOf(d, o) = Tracked(EffectiveUse(d, o))
    <2>1. effect.uses \in Use
      BY DEF Effect
    <2>2. EffectiveUse(d, o) = effect.uses
      <3>1. EffectiveUse(d, o) = CHOOSE uses \in Use : \E e \in {effect} : e.uses = uses
        BY <1>3 DEF EffectiveUse
      <3> QED BY <2>1, <3>1
    <2>3. {e.uses : e \in items[d].effects[o]} = {effect.uses}
      BY <1>3
    <2>4. TrackedOf(d, o) = SumTracked({effect.uses})
      BY <2>3 DEF TrackedOf
    <2> QED BY <2>1, <2>2, <2>4, TrackedAlone
  <1> QED BY <1>1, <1>2, <1>3 DEF AtMostOne

\* The preview's totals: what has been tracked so far, if anything.
TotalsRow == [tracked : AtMostOne(Int), untracked : AtMostOne(Int), refused : BOOLEAN]
Held(totals) == IF totals.tracked = {} THEN 0 ELSE Chosen(totals.tracked)

LEMMA AddTells ==
    ASSUME NEW totals \in TotalsRow, NEW uses \in Use
    PROVE  /\ Add(totals, uses) \in TotalsRow
           /\ Held(totals) \in Int
           /\ Held(Add(totals, uses)) = Held(totals) + Tracked(uses)
  <1>1. /\ uses.tracked \in BOOLEAN /\ uses.quantity \in Int
        /\ totals.tracked \in AtMostOne(Int) /\ totals.untracked \in AtMostOne(Int)
        /\ totals.refused \in BOOLEAN
    BY UseTyped DEF TotalsRow
  <1>2. Held(totals) \in Int
    BY <1>1 DEF Held, AtMostOne, Chosen
  <1>3. CASE uses.quantity = 0
    <2>1. Add(totals, uses) = totals /\ Tracked(uses) = 0
      BY <1>3 DEF Add, Tracked
    <2> QED BY <1>2, <2>1
  <1>4. CASE uses.quantity # 0 /\ uses.tracked
    <2> DEFINE total == uses.quantity + Held(totals)
               to == [totals EXCEPT !["tracked"] = {total},
                          !.refused = @ \/ (totals.tracked # {} /\ total < 0)]
    <2>1. Add(totals, uses) = to
      BY <1>4 DEF Add, Held, Chosen
    <2>2. total \in Int
      BY <1>1, <1>2
    <2> HIDE DEF total
    <2>3. to \in TotalsRow /\ to.tracked = {total}
      <3>1. (totals.refused \/ (totals.tracked # {} /\ total < 0)) \in BOOLEAN
        OBVIOUS
      <3>2. {total} \in AtMostOne(Int)
        BY <2>2 DEF AtMostOne
      <3> QED BY <3>1, <3>2 DEF TotalsRow
    <2> HIDE DEF to
    <2>4. Held(to) = total
      BY <2>3 DEF Held, Chosen
    <2> QED BY <1>1, <1>2, <1>4, <2>1, <2>3, <2>4 DEF Tracked, total
  <1>5. CASE uses.quantity # 0 /\ ~uses.tracked
    <2> DEFINE kept == IF totals.untracked = {} THEN 0 ELSE CHOOSE q \in totals.untracked : TRUE
               total == uses.quantity + kept
               to == [totals EXCEPT !["untracked"] = {total},
                          !.refused = @ \/ (totals.untracked # {} /\ total < 0)]
    <2>1. Add(totals, uses) = to
      BY <1>5 DEF Add
    <2>2. total \in Int
      <3>1. kept \in Int
        BY <1>1 DEF AtMostOne
      <3> QED BY <1>1, <3>1
    <2> HIDE DEF total
    <2>3. to \in TotalsRow /\ to.tracked = totals.tracked
      <3>1. (totals.refused \/ (totals.untracked # {} /\ total < 0)) \in BOOLEAN
        OBVIOUS
      <3>2. {total} \in AtMostOne(Int)
        BY <2>2 DEF AtMostOne
      <3> QED BY <3>1, <3>2 DEF TotalsRow
    <2> HIDE DEF to
    <2>4. Held(to) = Held(totals) /\ Tracked(uses) = 0
      BY <1>5, <2>3 DEF Held, Tracked
    <2> QED BY <1>2, <2>1, <2>3, <2>4
  <1> QED BY <1>1, <1>2, <1>3, <1>4, <1>5

LEMMA UpTo ==
    ASSUME NEW n \in Nat, n # 0
    PROVE  Max(1..n) = n /\ (1..n) \ {n} = 1..(n - 1)
  <1>1. 1..n \in SUBSET Nat /\ 1..n # {} /\ \A x \in 1..n : x <= n
    OBVIOUS
  <1>2. Max(1..n) \in 1..n /\ \A y \in 1..n : y <= Max(1..n)
    BY <1>1, MaxIsGreatest
  <1> QED BY <1>2

\* Whoever goes through the uses of a choice in some order passes through these totals.
LEMMA PreviewGoesOn ==
    ASSUME NEW n \in Nat, NEW used \in [1..n -> Use], NEW base \in TotalsRow
    PROVE  \E f : /\ f[0] = base
                  /\ \A i \in 1..n : f[i] = Add(f[i - 1], used[i])
                  /\ FoldLeft(Add, base, used) = f[n]
  <1> DEFINE S == 1..n
             h == CHOOSE h : h = [s \in SUBSET S |-> IF s = {} THEN base
                                   ELSE Add(h[s \ {Max(s)}], used[Max(s)])]
             pick == [s \in SUBSET S |-> Max(s)]
             step == [i \in S |-> [t \in TotalsRow |-> Add(t, used[i])]]
  <1>1. IsFiniteSet(S) /\ DOMAIN used = S
    BY FS_Interval
  <1>2. FoldLeft(Add, base, used) = h[S]
    BY <1>1 DEF FoldLeft, MapThenFoldSet
  <1>3. \A s \in SUBSET S : s # {} => pick[s] = Max(s) /\ Max(s) \in s
    <2> SUFFICES ASSUME NEW s \in SUBSET S, s # {} PROVE Max(s) \in s
      OBVIOUS
    <2>1. s \in SUBSET Nat /\ \A x \in s : x <= n
      OBVIOUS
    <2> QED BY <2>1, MaxIsGreatest
  <1>4. \A i \in S : \A t \in TotalsRow :
            step[i][t] = Add(t, used[i]) /\ Add(t, used[i]) \in TotalsRow
    BY AddTells
  <1> HIDE DEF pick, step
  <1>5. PICK g \in [SUBSET S -> TotalsRow] : IsFold(g, S, base, pick, step)
    <2>1. \A s \in SUBSET S : s # {} => pick[s] \in s
      <3> HIDE DEF S
      <3> QED BY <1>3
    <2> HIDE DEF S
    <2>2. \A i \in S : \A t \in TotalsRow : step[i][t] \in TotalsRow
      BY ZenonT(40), <1>4
    <2> QED BY Zenon, <1>1, <2>1, <2>2, FoldExists
  <1>6. g = [s \in SUBSET S |-> IF s = {} THEN base ELSE Add(g[s \ {Max(s)}], used[Max(s)])]
    <2>1. \A s \in SUBSET S : s # {} =>
              step[pick[s]][g[s \ {pick[s]}]] = Add(g[s \ {Max(s)}], used[Max(s)])
      BY <1>3, <1>4, <1>5
    <2> HIDE DEF S
    <2> QED BY <1>5, <2>1 DEF IsFold
  <1>7. h = [s \in SUBSET S |-> IF s = {} THEN base ELSE Add(h[s \ {Max(s)}], used[Max(s)])]
    BY <1>6
  <1> HIDE DEF h
  <1> DEFINE f == [i \in 0..n |-> h[1..i]]
  <1>8. f[0] = base
    <2>1. 1..0 = {} /\ {} \in SUBSET S
      OBVIOUS
    <2> QED BY <1>7, <2>1
  <1>9. ASSUME NEW i \in 1..n PROVE f[i] = Add(f[i - 1], used[i])
    <2>1. 1..i \in SUBSET S /\ 1..i # {} /\ i \in Nat /\ i # 0 /\ i - 1 \in 0..n /\ i \in 0..n
      <3>1. i \in Nat /\ i # 0 /\ i <= n /\ i - 1 \in 0..n /\ i \in 0..n
        OBVIOUS
      <3>2. i \in 1..i /\ \A x \in 1..i : x \in S
        BY <3>1
      <3> QED BY <3>1, <3>2
    <2>2. h[1..i] = Add(h[(1..i) \ {Max(1..i)}], used[Max(1..i)])
      <3> HIDE DEF S
      <3> QED BY <1>7, <2>1
    <2>3. h[1..i] = Add(h[1..(i - 1)], used[i])
      BY <2>1, <2>2, UpTo
    <2> QED BY <2>1, <2>3
  <1>10. f[n] = h[S]
    OBVIOUS
  <1> HIDE DEF f
  <1> QED BY <1>2, <1>8, <1>9, <1>10

\* An option is named once, and all of those chosen are.
LEMMA NamedOnce ==
    ASSUME NEW S, IsFiniteSet(S), NEW named \in SetToSeqs(S)
    PROVE  /\ Cardinality(S) \in Nat /\ named \in [1..Cardinality(S) -> S]
           /\ \A i, j \in 1..Cardinality(S) : named[i] = named[j] => i = j
           /\ \A o \in S : \E i \in 1..Cardinality(S) : named[i] = o
  <1> DEFINE n == Cardinality(S)
  <1>1. n \in Nat
    BY FS_CardinalityType
  <1>2. named \in [1..n -> S] /\ \A i, j \in 1..n : i # j => named[i] # named[j]
    BY DEF SetToSeqs
  <1>3. named \in Injection(1..n, S)
    BY <1>2 DEF Injection, IsInjective
  <1>4. Cardinality(1..n) = n
    BY <1>1, FS_Interval
  <1>5. named \in Surjection(1..n, S)
    BY <1>3, <1>4, FS_Injection
  <1>6. \A o \in S : \E i \in 1..n : named[i] = o
    BY <1>5 DEF Surjection
  <1> QED BY <1>1, <1>2, <1>6

\* One term of a column is not what it was.
Moved(old, new, column, S, y, delta) ==
    /\ y \in S /\ delta \in Int /\ \A x \in S : old[x][column] \in Int
    /\ \A x \in S : x # y => new[x][column] = old[x][column]
    /\ new[y][column] = old[y][column] + delta

GrewBy(old, new, column, S, delta) ==
    ColumnSum(new, column, S) = ColumnSum(old, column, S) + delta

LEMMA SumMovesAlong ==
    ASSUME NEW S, IsFiniteSet(S), NEW old, NEW new, NEW column, NEW y, NEW delta,
           Moved(old, new, column, S, y, delta)
    PROVE  GrewBy(old, new, column, S, delta)
  BY SumMoves DEF Moved, GrewBy

\* The preview of a choice holds what a sale of it takes.
LEMMA PreviewHolds ==
    ASSUME MenuInv, NEW d \in Dish, Existing(d), NEW S \in SUBSET Option,
           NEW named \in SetToSeqs(S)
    PROVE  /\ Evaluation(d, named) \in TotalsRow
           /\ Held(Evaluation(d, named)) = Deduction(d, S)
  <1> DEFINE n == Cardinality(S)
             used == [i \in DOMAIN named |-> EffectiveUse(d, named[i])]
             base == Add(Totals, items[d].base)
             term(o) == Tracked(EffectiveUse(d, o))
             k == [m \in 0..n |-> [o \in S |-> [n |-> IF \E i \in 1..m : named[i] = o
                                                     THEN term(o) ELSE 0]]]
             sum == [m \in 0..n |-> ColumnSum(k[m], "n", S)]
  <1>1. /\ IsFiniteSet(S) /\ n \in Nat /\ named \in [1..n -> S]
        /\ \A i, j \in 1..n : named[i] = named[j] => i = j
        /\ \A o \in S : \E i \in 1..n : named[i] = o
    <2>1. IsFiniteSet(S)
      BY MenuAssumption, FS_Subset
    <2> QED BY <2>1, NamedOnce
  <1>0. IsFiniteSet(S)
    BY <1>1
  <1>2. \A o \in S : EffectiveUse(d, o) \in Use /\ term(o) \in Int /\ TrackedOf(d, o) = term(o)
    BY UsesAgree, UseTyped
  <1>3. used \in [1..n -> Use] /\ \A i \in 1..n : Tracked(used[i]) = term(named[i])
    BY <1>1, <1>2
  <1>4. base \in TotalsRow /\ Held(base) = Tracked(items[d].base) /\ Held(base) \in Int
    <2>1. items[d].base \in Use
      BY DishTyped DEF DishRow
    <2>2. Totals \in TotalsRow /\ Held(Totals) = 0
      BY DEF Totals, TotalsRow, Held, AtMostOne
    <2>3. Held(base) = 0 + Tracked(items[d].base) /\ base \in TotalsRow
      BY <2>1, <2>2, AddTells
    <2> QED BY <2>1, <2>3, UseTyped
  <1>5. Evaluation(d, named) = FoldLeft(Add, base, used)
    BY DEF Evaluation
  <1>6. Deduction(d, S) = Held(base) + sum[n]
    <2>1. SumTracked({items[d].base}) = Held(base)
      BY <1>4, TrackedAlone, DishTyped DEF DishRow
    <2>2. k[n] = [o \in S |-> [n |-> term(o)]]
      BY <1>1
    <2>3. \A o \in S : k[n][o]["n"] \in Int /\ k[n][o]["n"] = TrackedOf(d, o)
      BY <1>2, <2>2
    <2>4. n \in 0..n
      BY <1>1
    <2> HIDE DEF k
    <2>5. MapThenSumSet(LAMBDA o : TrackedOf(d, o), S) = ColumnSum(k[n], "n", S)
      <3> PICK c : c = k[n]
        OBVIOUS
      <3>1. (\A o \in S : c[o]["n"] \in Int) /\ (\A o \in S : c[o]["n"] = TrackedOf(d, o))
        BY <2>3
      <3>2. MapThenSumSet(LAMBDA o : TrackedOf(d, o), S) = ColumnSum(c, "n", S)
        BY <1>0, <3>1, DeductedSum
      <3> QED BY <3>2
    <2> QED BY <2>1, <2>4, <2>5 DEF Deduction
  <1>7. sum[0] = 0
    <2>1. 0 \in 0..n /\ \A o \in S : k[0][o]["n"] = 0
      BY <1>1
    <2> HIDE DEF k
    <2> QED BY <1>1, <2>1, SumOfZeros
  <1>8. ASSUME NEW m \in 1..n PROVE sum[m] = sum[m - 1] + term(named[m])
    <2> DEFINE o == named[m]
    <2>1. m - 1 \in 0..n /\ m \in 0..n /\ o \in S /\ term(o) \in Int
      BY <1>1, <1>2
    <2>2. ~\E i \in 1..(m - 1) : named[i] = o
      BY <1>1
    <2>3. k[m - 1][o]["n"] = 0 /\ k[m][o]["n"] = 0 + term(o)
      BY <2>1, <2>2
    <2>4. ASSUME NEW p \in S, p # o PROVE k[m][p]["n"] = k[m - 1][p]["n"]
      <3>1. (\E i \in 1..m : named[i] = p) <=> (\E i \in 1..(m - 1) : named[i] = p)
        BY <2>4
      <3> QED BY <2>1, <3>1
    <2>5. \A p \in S : k[m - 1][p]["n"] \in Int
      BY <1>2, <2>1
    <2> HIDE DEF k, term, o
    <2>6. k[m][o]["n"] = k[m - 1][o]["n"] + term(o)
      BY <2>3
    <2>7. ColumnSum(k[m], "n", S) = ColumnSum(k[m - 1], "n", S) + term(o)
      <3>1. PICK old, new : old = k[m - 1] /\ new = k[m]
        OBVIOUS
      <3>2. Moved(old, new, "n", S, o, term(o))
        BY <2>1, <2>4, <2>5, <2>6, <3>1 DEF Moved
      <3>3. GrewBy(old, new, "n", S, term(o))
        BY Zenon, <1>0, <3>2, SumMovesAlong
      <3> QED BY <3>1, <3>3 DEF GrewBy
    <2> QED BY <2>1, <2>7 DEF o
  <1> HIDE DEF n, used, base, k, sum
  <1>9. PICK f : /\ f[0] = base
                 /\ \A i \in 1..n : f[i] = Add(f[i - 1], used[i])
                 /\ FoldLeft(Add, base, used) = f[n]
    <2>1. n \in Nat /\ used \in [1..n -> Use] /\ base \in TotalsRow
      BY <1>1, <1>3, <1>4
    <2> QED BY ZenonT(40), <2>1, PreviewGoesOn
  <1> DEFINE Fits(m) == f[m] \in TotalsRow /\ sum[m] \in Int /\ Held(f[m]) = Held(base) + sum[m]
             Bad == {m \in 0..n : ~Fits(m)}
  <1>10. Fits(0)
    BY <1>4, <1>7, <1>9
  <1>11. ASSUME NEW m \in 1..n, Fits(m - 1) PROVE Fits(m)
    <2>1. used[m] \in Use /\ Tracked(used[m]) = term(named[m]) /\ Tracked(used[m]) \in Int
      BY <1>3, UseTyped
    <2>2. f[m] = Add(f[m - 1], used[m])
      BY <1>9
    <2>3. f[m] \in TotalsRow /\ Held(f[m]) = Held(f[m - 1]) + Tracked(used[m])
      BY <1>11, <2>1, <2>2, AddTells
    <2>4. sum[m] = sum[m - 1] + Tracked(used[m])
      BY <1>8, <2>1
    <2> HIDE DEF term
    <2> QED BY <1>4, <1>11, <2>1, <2>3, <2>4
  <1>12. Bad = {}
    <2> SUFFICES ASSUME Bad # {} PROVE FALSE
      OBVIOUS
    <2>1. Bad \in SUBSET Nat
      BY <1>1
    <2> HIDE DEF Bad
    <2>2. PICK m \in Bad : \A l \in Bad : m <= l
      BY <2>1, NatMin
    <2> HIDE DEF Fits
    <2>3. m \in 0..n /\ ~Fits(m) /\ m # 0
      BY <1>10, <2>2 DEF Bad
    <2>4. m \in 1..n /\ m - 1 \in 0..n /\ m - 1 \notin Bad
      BY <1>1, <2>2, <2>3
    <2>5. Fits(m - 1)
      BY <2>4 DEF Bad
    <2> QED BY <1>11, <2>3, <2>4, <2>5
  <1>13. Fits(n)
    BY <1>1, <1>12
  <1> QED BY <1>5, <1>6, <1>9, <1>13

\* The order and the page price an accepted choice alike.
LEMMA MenuCharges == MenuInv => ChargedAsShown
  <1> SUFFICES ASSUME MenuInv, NEW d \in Dish, NEW shop \in Shop, NEW chosen \in SUBSET Option,
                      Accepted(d, shop, chosen)
               PROVE  /\ \A o \in chosen :
                            o \in DOMAIN Page(d) /\ Page(d)[o].on /\ Page(d)[o].price # {}
                      /\ UnitPrice(d, chosen) =
                           items[d].price
                           + MapThenSumSet(LAMBDA o : CHOOSE p \in Page(d)[o].price : TRUE, chosen)
    BY DEF ChargedAsShown
  <1>1. /\ Existing(d) /\ \A o \in chosen : GroupOf[o] \in Offered(d)
        /\ \A o \in chosen : options[o].status = "ACTIVE" /\ OrderPrice(d, o) # {}
    BY DEF Accepted, Orderable
  <1>2. \A o \in chosen : /\ Attached(d, o) /\ groups[GroupOf[o]].status = "ACTIVE"
    BY <1>1 DEF Offered, Attached
  <1>3. \A o \in chosen : o \in DOMAIN Page(d) /\ Page(d)[o] = PageOption(d, o)
    BY <1>2 DEF Page
  <1>4. \A o \in chosen : Page(d)[o].on /\ Page(d)[o].price = OrderPrice(d, o)
    <2> SUFFICES ASSUME NEW o \in chosen
                 PROVE  Page(d)[o].on /\ Page(d)[o].price = OrderPrice(d, o)
      OBVIOUS
    <2>1. PageOption(d, o).on /\ PageOption(d, o).price = EffectivePrice(d, o)
      BY <1>1, <1>2 DEF PageOption
    <2>2. EffectivePrice(d, o) = OrderPrice(d, o)
      BY DEF EffectivePrice, OrderPrice
    <2> QED BY <1>3, <2>1, <2>2
  <1>5. ASSUME NEW o \in chosen PROVE Chosen(OrderPrice(d, o)) \in Int
    <2>1. items[d].effects[o] \in AtMostOne(Effect)
      BY <1>1, DishTyped DEF DishRow
    <2>2. OrderPrice(d, o) \subseteq Price
      BY <2>1 DEF OrderPrice, AtMostOne, Effect
    <2> QED BY <1>1, <2>2, MenuAssumption DEF Chosen
  <1> DEFINE k == [o \in chosen |-> [n |-> Chosen(OrderPrice(d, o))]]
  <1>6. IsFiniteSet(chosen)
    BY MenuAssumption, FS_Subset
  <1>7. \A o \in chosen : k[o]["n"] = Chosen(OrderPrice(d, o)) /\ k[o]["n"] \in Int
    BY <1>5
  <1>8. \A o \in chosen : k[o]["n"] = Chosen(Page(d)[o].price)
    BY <1>4, <1>7
  <1> HIDE DEF k
  <1>9. MapThenSumSet(LAMBDA o : CHOOSE p \in OrderPrice(d, o) : TRUE, chosen) = ColumnSum(k, "n", chosen)
    BY <1>6, <1>7, OrderedSum
  <1>10. MapThenSumSet(LAMBDA o : CHOOSE p \in Page(d)[o].price : TRUE, chosen) = ColumnSum(k, "n", chosen)
    BY <1>6, <1>7, <1>8, ShownSum
  <1>11. UnitPrice(d, chosen) =
           items[d].price + MapThenSumSet(LAMBDA o : CHOOSE p \in OrderPrice(d, o) : TRUE, chosen)
    BY DEF UnitPrice
  <1> QED BY <1>1, <1>3, <1>4, <1>9, <1>10, <1>11

LEMMA MenuConsumes == MenuInv => ConsumedAsShown
  <1> SUFFICES ASSUME MenuInv, NEW d \in Dish, Existing(d)
               PROVE  /\ \A shop \in Shop, chosen \in SUBSET Option :
                            Accepted(d, shop, chosen) => Supported(d, chosen)
                      /\ \A chosen \in SUBSET {o \in Option : Attached(d, o)} :
                            \A named \in SetToSeqs(chosen) :
                               LET shown == Evaluation(d, named)
                               IN  ~shown.refused =>
                                     Max({0} \cup shown.tracked) = Max({0, Deduction(d, chosen)})
    BY DEF ConsumedAsShown
  <1>1. ASSUME NEW shop \in Shop, NEW chosen \in SUBSET Option, Accepted(d, shop, chosen)
        PROVE  Supported(d, chosen)
    BY <1>1 DEF Accepted, Offered, Supported, Page, Attached
  <1>2. ASSUME NEW chosen \in SUBSET {o \in Option : Attached(d, o)},
               NEW named \in SetToSeqs(chosen)
        PROVE  Max({0} \cup Evaluation(d, named).tracked) = Max({0, Deduction(d, chosen)})
    <2>1. chosen \in SUBSET Option
      OBVIOUS
    <2> PICK shown \in TotalsRow : shown = Evaluation(d, named) /\ Held(shown) = Deduction(d, chosen)
      BY <2>1, PreviewHolds
    <2>2. shown.tracked \in AtMostOne(Int)
      BY DEF TotalsRow
    <2>3. {0} \cup shown.tracked = {0, Held(shown)}
      BY <2>2 DEF Held, AtMostOne, Chosen
    <2> QED BY <2>3
  <1> QED BY <1>1, <1>2

LEMMA MenuFollows == MenuInv => MenuSafe
  <1> SUFFICES ASSUME MenuInv PROVE MenuSafe
    OBVIOUS
  <1>1. \A d \in Dish : items[d] = NoDish \/
            items[d] \in [status : Live, price : Price, category : SUBSET Category,
                          visible : SUBSET Shop, groups : SUBSET Group, base : Use,
                          effects : [Option -> SUBSET Effect]]
    <2> SUFFICES ASSUME NEW d \in Dish, items[d] # NoDish
                 PROVE  items[d] \in [status : Live, price : Price, category : SUBSET Category,
                          visible : SUBSET Shop, groups : SUBSET Group, base : Use,
                          effects : [Option -> SUBSET Effect]]
      OBVIOUS
    <2> DEFINE Some == [Option -> AtMostOne(Effect)]
               Every == [Option -> SUBSET Effect]
    <2>1. Some \subseteq Every
      BY DEF AtMostOne
    <2>2. items[d] \in [status : Live, price : Price, category : SUBSET Category,
                        visible : SUBSET Shop, groups : SUBSET Group, base : Use, effects : Some]
      BY DishTyped DEF Existing, DishRow
    <2> HIDE DEF Some, Every
    <2>3. items[d] \in [status : Live, price : Price, category : SUBSET Category,
                        visible : SUBSET Shop, groups : SUBSET Group, base : Use, effects : Every]
      BY <2>1, <2>2
    <2> QED BY <2>3 DEF Every
  <1>2. MenuTypeOK
    BY <1>1 DEF MenuInv, MenuTypeOK
  <1>3. MenuIsAsAsked
    BY DEF MenuInv, MenuIsAsAsked, AsAsked
  <1> QED BY <1>2, <1>3, MenuCharges, MenuConsumes DEF MenuSafe

\* Whatever is changed in the menu, by commands and patches that overlap: an item costs what
\* was asked last, unless its patch met another command, an order is charged what the menu page
\* showed, and a sale takes from the stock what the preview said, in any order of the options.
THEOREM MenuStaysSafe == TradeSpec => []MenuSafe
  <1>1. TradeInit => MenuInv
    BY MenuStarts DEF TradeInit
  <1>2. [TradeNext]_tradeVars => [MenuStep]_menuVars
    BY DEF TradeNext, tradeVars, DiscountTurn, MenuTurn, StockTurn, CheckoutTurn, LogTurn, NoteTurn
  <1> QED BY <1>1, <1>2, MenuKept, MenuFollows, PTL DEF TradeSpec
=============================================================================
