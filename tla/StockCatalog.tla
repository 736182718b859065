---------------------------- MODULE StockCatalog ----------------------------
(***************************************************************************)
(* The stock catalogue of a tenant: categories, stock items and restock    *)
(* batches.  Each command is a transaction: it reads what it depends on    *)
(* without locking it, then writes one row, and a patch writes the columns *)
(* it was not asked to change as it read them.  Names and images are left  *)
(* out; the movements of a batch are in Inventory.                         *)
(***************************************************************************)
EXTENDS Integers

CONSTANTS
    Shelf,             \* stock categories
    Good,              \* stock items
    Batch,             \* restock batches
    Keeper,            \* commands under way at once
    Level,             \* values of low_stock_threshold, and of the batch metadata
    MaxOrders          \* bound of the commands

\* Items and batches are rows of different tables.
ASSUME StockAssumption == Good \cap Batch = {} /\ MaxOrders \in Nat

VARIABLES
    shelves,           \* v0_inventory_stock_categories: statuses
    goods,             \* v0_inventory_stock_items
    lots,              \* v0_inventory_restock_batches
    orders,            \* what each command under way has read and will write
    overtaken,         \* history: what was archived while each command was under way
    wanted,            \* history: the status last asked for each item, the metadata of
                       \* each batch when it was archived
    started            \* number of commands

stockVars == <<shelves, goods, lots, orders, overtaken, wanted, started>>

-----------------------------------------------------------------------------
CatalogStatus == {"ACTIVE", "ARCHIVED"}
Absent == [status |-> "NONE"]
NoOrder == [step |-> "IDLE"]
MetaColumn == {"expiry", "cost"}
Meta == [MetaColumn -> Level]
Placement == {{}} \cup {{c} : c \in Shelf}
Mark == Shelf \cup Batch

StockTypeOK ==
    /\ shelves \in [Shelf -> {"NONE"} \cup CatalogStatus]
    /\ \A g \in Good : goods[g] = Absent \/
        goods[g] \in [status : CatalogStatus, category : Placement, level : Level, late : SUBSET Shelf]
    /\ \A b \in Batch : lots[b] = Absent \/
        lots[b] \in [status : CatalogStatus, of : Good, meta : Meta, late : BOOLEAN]
    /\ overtaken \in [Keeper -> SUBSET Mark] /\ started \in 0 .. MaxOrders

StockInit ==
    /\ shelves = [c \in Shelf |-> "NONE"]
    /\ goods = [g \in Good |-> Absent] /\ lots = [b \in Batch |-> Absent]
    /\ orders = [k \in Keeper |-> NoOrder] /\ overtaken = [k \in Keeper |-> {}]
    /\ wanted = [x \in Good \cup Batch |-> {}]
    /\ started = 0

Exists(row) == row.status # "NONE"
Stocked(g) == Exists(goods[g])
Received(b) == Exists(lots[b])

UnderArchive == {orders[k].of : k \in {j \in Keeper : orders[j].step = "DETACH"}}

\* The transaction of a command: its start, a next statement, its end.
Starts(k, order) ==
    /\ started < MaxOrders /\ started' = started + 1
    /\ orders[k] = NoOrder /\ orders' = [orders EXCEPT ![k] = order]
    /\ overtaken' = [overtaken EXCEPT ![k] = UnderArchive]
Proceeds(k, order) == orders' = [orders EXCEPT ![k] = order] /\ UNCHANGED <<overtaken, started>>
Ends(k) == orders' = [orders EXCEPT ![k] = NoOrder] /\ UNCHANGED <<overtaken, started>>
AtStep(k, step) == orders[k].step = step
Archives(x) == overtaken' = [k \in Keeper |-> IF orders[k] = NoOrder THEN {}
                                               ELSE overtaken[k] \cup {x}]

-----------------------------------------------------------------------------
CreateCategory(c) ==
    /\ started < MaxOrders /\ started' = started + 1
    /\ shelves[c] = "NONE" /\ shelves' = [shelves EXCEPT ![c] = "ACTIVE"]
    /\ UNCHANGED <<goods, lots, orders, overtaken, wanted>>

\* archiveCategoryAndDetachItems: the statement locks the items that its snapshot
\* shows in the category, ...
DetachNothing(c) == {}
InCategory(c) == {g \in Good : Stocked(g) /\ c \in goods[g].category}
LockedByArchive(g) == \E k \in Keeper : AtStep(k, "DETACH") /\ g \in orders[k].items

ArchiveStockCategory(k, c) ==
    /\ shelves[c] # "NONE" /\ \A g \in InCategory(c) : ~LockedByArchive(g)
    /\ started < MaxOrders /\ started' = started + 1
    /\ orders[k] = NoOrder
    /\ orders' = [orders EXCEPT ![k] = [step |-> "DETACH", of |-> c, items |-> InCategory(c)]]
    /\ Archives(c)
    /\ UNCHANGED <<shelves, goods, lots, wanted>>

\* ... and its commit shows the category archived and those items detached.
CommitArchive(k) ==
    /\ AtStep(k, "DETACH")
    /\ shelves' = [shelves EXCEPT ![orders[k].of] = "ARCHIVED"]
    /\ goods' = [g \in Good |-> IF g \in orders[k].items
                                 THEN [goods[g] EXCEPT !.category = {}] ELSE goods[g]]
    /\ Ends(k) /\ UNCHANGED <<lots, wanted>>

-----------------------------------------------------------------------------
\* assertCategoryActive: the row is read, not locked.
AssertCategoryActive(set) == \A c \in set : shelves[c] = "ACTIVE"

CreateStockItem(k, g, category, level) ==
    /\ ~Stocked(g) /\ AssertCategoryActive(category)
    /\ Starts(k, [step |-> "INSERT ITEM", of |-> g, category |-> category, level |-> level])
    /\ UNCHANGED <<shelves, goods, lots, wanted>>

InsertStockItem(k) ==
    /\ AtStep(k, "INSERT ITEM") /\ ~Stocked(orders[k].of)
    /\ goods' = [goods EXCEPT ![orders[k].of] =
           [status |-> "ACTIVE", category |-> orders[k].category, level |-> orders[k].level,
            late |-> overtaken[k] \cap Shelf]]
    /\ wanted' = [wanted EXCEPT ![orders[k].of] = {"ACTIVE"}]
    /\ Ends(k) /\ UNCHANGED <<shelves, lots>>

\* updateStockItem: the row is read, then the category it names, then all is written.
UpdateStockItem(k, g, patch) ==
    /\ Stocked(g)
    /\ Starts(k, [step |-> IF patch.category \in {{}, {{}}} THEN "PATCH ITEM" ELSE "CATEGORY",
                 of |-> g, patch |-> patch, read |-> goods[g]])
    /\ UNCHANGED <<shelves, goods, lots, wanted>>

CheckCategory(k) ==
    /\ AtStep(k, "CATEGORY")
    /\ IF AssertCategoryActive(UNION orders[k].patch.category)
       THEN Proceeds(k, [orders[k] EXCEPT !.step = "PATCH ITEM"]) ELSE Ends(k)
    /\ UNCHANGED <<shelves, goods, lots, wanted>>

\* Mutant: the status is one of the columns written as read.
RowAsRead(patch, read, row) ==
    [row EXCEPT !.level = IF patch.level = {} THEN read.level
                          ELSE CHOOSE x \in patch.level : TRUE,
                !.category = IF patch.category = {} THEN read.category ELSE UNION patch.category,
                !.status = read.status]
PatchedItem(patch, read, row) ==
    [row EXCEPT !.level = IF patch.level = {} THEN read.level
                          ELSE CHOOSE x \in patch.level : TRUE,
                !.category = IF patch.category = {} THEN read.category ELSE UNION patch.category]

WriteStockItem(k) ==
    /\ AtStep(k, "PATCH ITEM") /\ ~LockedByArchive(orders[k].of)
    /\ LET g == orders[k].of
           row == PatchedItem(orders[k].patch, orders[k].read, goods[g])
       IN  goods' = [goods EXCEPT ![g] = [row EXCEPT !.late = @ \cup (overtaken[k] \cap Shelf)]]
    /\ Ends(k) /\ UNCHANGED <<shelves, lots, wanted>>

\* archiveStockItem and restoreStockItem.
SetStockItemStatus(g, status) ==
    /\ Stocked(g) /\ ~LockedByArchive(g)
    /\ started < MaxOrders /\ started' = started + 1
    /\ goods' = [goods EXCEPT ![g].status = status]
    /\ wanted' = [wanted EXCEPT ![g] = {status}]
    /\ UNCHANGED <<shelves, lots, orders, overtaken>>

-----------------------------------------------------------------------------
CreateRestockBatch(k, b, g, meta) ==
    /\ ~Received(b) /\ goods[g].status = "ACTIVE"
    /\ Starts(k, [step |-> "INSERT BATCH", of |-> b, item |-> g, meta |-> meta])
    /\ UNCHANGED <<shelves, goods, lots, wanted>>

InsertRestockBatch(k) ==
    /\ AtStep(k, "INSERT BATCH") /\ ~Received(orders[k].of)
    /\ lots' = [lots EXCEPT ![orders[k].of] =
           [status |-> "ACTIVE", of |-> orders[k].item, meta |-> orders[k].meta, late |-> FALSE]]
    /\ Ends(k) /\ UNCHANGED <<shelves, goods, wanted>>

OpenForMetadata(b) == lots[b].status # "ARCHIVED"

UpdateRestockBatchMetadata(k, b, patch) ==
    /\ Received(b) /\ OpenForMetadata(b)
    /\ Starts(k, [step |-> "PATCH BATCH", of |-> b, patch |-> patch, read |-> lots[b].meta])
    /\ UNCHANGED <<shelves, goods, lots, wanted>>

PatchedMeta(patch, read) ==
    [column \in MetaColumn |-> IF patch[column] = {} THEN read[column]
                                ELSE CHOOSE x \in patch[column] : TRUE]

WriteRestockBatch(k) ==
    /\ AtStep(k, "PATCH BATCH")
    /\ lots' = [lots EXCEPT ![orders[k].of].meta = PatchedMeta(orders[k].patch, orders[k].read),
                            ![orders[k].of].late = @ \/ orders[k].of \in overtaken[k]]
    /\ Ends(k) /\ UNCHANGED <<shelves, goods, wanted>>

\* archiveRestockBatch: again, for a batch that is archived already.
ArchiveRestockBatch(b) ==
    /\ Received(b)
    /\ started < MaxOrders /\ started' = started + 1
    /\ lots' = [lots EXCEPT ![b].status = "ARCHIVED"]
    /\ wanted' = [wanted EXCEPT ![b] = IF @ = {} THEN {lots[b].meta} ELSE @]
    /\ Archives(b)
    /\ UNCHANGED <<shelves, goods, orders>>

-----------------------------------------------------------------------------
ItemPatch == [category : {{}} \cup {{p} : p \in Placement}, level : {{}} \cup {{x} : x \in Level}]
             \ {[category |-> {}, level |-> {}]}
MetaPatch == [MetaColumn -> {{}} \cup {{x} : x \in Level}] \ {[column \in MetaColumn |-> {}]}

ShelfCommands ==
    \E c \in Shelf : CreateCategory(c) \/ \E k \in Keeper : ArchiveStockCategory(k, c)
GoodCommands ==
    \E g \in Good :
        \/ \E status \in CatalogStatus : SetStockItemStatus(g, status)
        \/ \E k \in Keeper :
            \/ \E category \in Placement, level \in Level : CreateStockItem(k, g, category, level)
            \/ \E patch \in ItemPatch : UpdateStockItem(k, g, patch)
BatchCommands ==
    \E b \in Batch :
        \/ ArchiveRestockBatch(b)
        \/ \E k \in Keeper :
            \/ \E g \in Good, meta \in Meta : CreateRestockBatch(k, b, g, meta)
            \/ \E patch \in MetaPatch : UpdateRestockBatchMetadata(k, b, patch)
\* The next statement of a command under way.
Continue(k) ==
    \/ CommitArchive(k) \/ InsertStockItem(k) \/ CheckCategory(k) \/ WriteStockItem(k)
    \/ InsertRestockBatch(k) \/ WriteRestockBatch(k)

StockStep ==
    ShelfCommands \/ GoodCommands \/ BatchCommands \/ \E k \in Keeper : Continue(k)

-----------------------------------------------------------------------------
\* What is archived stays as it was put away, whatever was under way: an item has the
\* status it was last asked to have, though patches of it write all the columns they
\* read; it is in an archived category only if a command that wrote it was overtaken by
\* the archive; and a batch, once archived, stays archived, with the metadata it had
\* then unless an update of it was overtaken in the same way.
ArchivesHold ==
    /\ \A g \in Good : Stocked(g) =>
        /\ wanted[g] = {goods[g].status}
        /\ \A c \in goods[g].category : shelves[c] = "ARCHIVED" => c \in goods[g].late
    /\ \A b \in Batch : wanted[b] # {} =>
        /\ lots[b].status = "ARCHIVED"
        /\ lots[b].late \/ wanted[b] = {lots[b].meta}
=============================================================================
