------------------------------ MODULE Inventory ------------------------------
(***************************************************************************)
(* The stock of one branch (posOperation/inventory): a journal of          *)
(* movements, one per source and stock item, and the on-hand projection    *)
(* that every writer of the journal brings along in the same transaction.  *)
(*                                                                         *)
(* Quantities are signed, positive for IN and negative for OUT; a source   *)
(* with quantity 0 has no row.                                             *)
(***************************************************************************)
EXTENDS Integers, FiniteSetsExt

CONSTANTS
    Item,        \* tracked stock items of the branch
    Sale,        \* sales
    Manual,      \* restock and adjustment commands, by idempotency key
    Recipe,      \* what a sale may consume of each item: quantities per item
    Quantity     \* quantities of a manual command

VARIABLES
    journal,     \* v0_inventory_journal_entries
    stock,       \* v0_inventory_branch_stock.on_hand_in_base_unit
    recipe,      \* what the menu's composition says now that a sale consumes
    counts       \* absolute counts, between reading the stock and adjusting it

-----------------------------------------------------------------------------
\* The source identity of a movement; the stock item is the second index.
Source == [sale : Sale, reason : {"SALE_DEDUCTION", "VOID_REVERSAL"}] \cup [command : Manual]

Deduction(s) == [sale |-> s, reason |-> "SALE_DEDUCTION"]
Reversal(s)  == [sale |-> s, reason |-> "VOID_REVERSAL"]

StockTypeOK ==
    /\ journal \in [Source -> [Item -> Int]]
    /\ stock \in [Item -> Int]
    /\ recipe \in Recipe
    /\ counts \subseteq [by : Manual, item : Item, delta : Int]

StockInit ==
    /\ journal = [x \in Source |-> [i \in Item |-> 0]]
    /\ stock = [i \in Item |-> 0]
    /\ recipe \in Recipe
    /\ counts = {}

-----------------------------------------------------------------------------
Absent(source, i) == journal[source][i] = 0

\* Mutant: the stock moves whether or not the journal took the movement.
MovesAlways(source, i) == TRUE

\* The stock moves only for a movement the journal did not have.
Moves(source, i) == Absent(source, i)

\* appendJournalEntryIfAbsent (ON CONFLICT DO NOTHING) and applyBranchStockDelta,
\* for every item.
ApplyMovement(source, quantities) ==
    /\ journal' = [journal EXCEPT ![source] =
                     [i \in Item |-> IF Absent(source, i) THEN quantities[i] ELSE @[i]]]
    /\ stock' = [i \in Item |-> stock[i] + IF Moves(source, i) THEN quantities[i] ELSE 0]

\* createRestockBatch, and applyAdjustment by a delta.
Unused(m) == journal[[command |-> m]] = [i \in Item |-> 0] /\ \A x \in counts : x.by # m

AdjustBy(m, i, quantity) ==
    /\ Unused(m)
    /\ ApplyMovement([command |-> m], [x \in Item |-> IF x = i THEN quantity ELSE 0])
    /\ UNCHANGED <<recipe, counts>>

\* applyAdjustment to a counted quantity: the difference is computed from what the
\* stock is when it is read, and added to what the stock is later.
ReadOnHand(m, i, counted) ==
    /\ Unused(m) /\ counted # stock[i]
    /\ counts' = counts \cup {[by |-> m, item |-> i, delta |-> counted - stock[i]]}
    /\ UNCHANGED <<journal, stock, recipe>>

AdjustToCount(c) ==
    /\ ApplyMovement([command |-> c.by], [x \in Item |-> IF x = c.item THEN c.delta ELSE 0])
    /\ counts' = counts \ {c}
    /\ UNCHANGED recipe

\* The composition of the menu item is edited.
EditComposition(r) ==
    /\ recipe # r
    /\ recipe' = r
    /\ UNCHANGED <<journal, stock, counts>>

InventoryCommand ==
    \/ \E m \in Manual, i \in Item, q \in Quantity : AdjustBy(m, i, q) \/ AdjustBy(m, i, -q)
    \/ \E m \in Manual, i \in Item, q \in Quantity \cup {0} : ReadOnHand(m, i, q)
    \/ \E c \in counts : AdjustToCount(c)
    \/ \E r \in Recipe : EditComposition(r)

-----------------------------------------------------------------------------
\* The on-hand quantity is the sum of the journal, whatever is redelivered, run
\* twice at once, counted meanwhile or left half-way by a crash.
StockMatchesJournal ==
    \A i \in Item :
        stock[i] = FoldSet(LAMBDA x, total : journal[x][i] + total, 0, Source)

\* The boundary note on inventory: "correction is compensating movement".  What
\* a void puts back is what the sale has taken.
ReversalCompensates ==
    \A s \in Sale : journal[Reversal(s)] # [i \in Item |-> 0] =>
        \A i \in Item : journal[Reversal(s)][i] = -journal[Deduction(s)][i]
=============================================================================
