-------------------------------- MODULE Menu --------------------------------
(***************************************************************************)
(* A tenant's menu: categories, modifier groups with their options, and    *)
(* items with what they cost and consume, where they are sold and what an  *)
(* option adds to them.  Management commands change it, a patch of an item *)
(* by reading the row first and writing all of it.  Three readers compute  *)
(* from it, each with code of its own: the menu page with its preview of   *)
(* what a dish consumes, the order, and the deduction of stock for a sale. *)
(***************************************************************************)
EXTENDS Integers, Sequences, FiniteSets, FiniteSetsExt, SequencesExt

CONSTANTS
    Dish, Category, Shop, Group, Option,
    GroupOf,           \* the group of each option
    Price,             \* base prices and price deltas
    Use,               \* [tracked, quantity]: what is consumed of the one stock item
    Choice,            \* selection rules: [mode, min, max, required]
    Editor,            \* patches under way
    MaxEdits           \* bound of the commands

VARIABLES
    categories, groups, options,     \* the three tables, by status and content
    items,                           \* v0_menu_items with what is linked to each
    patches,                         \* what each patch under way has read and will write
    asked,                           \* history: the last values asked of each column
    mixed,                           \* history: items whose patch met another command
    commands                         \* number of commands

menuVars == <<categories, groups, options, items, patches, asked, mixed, commands>>

-----------------------------------------------------------------------------
Live == {"ACTIVE", "ARCHIVED"}
NoDish == [status |-> "NONE"]
NoPatch == [of |-> {}]
Nothing == [tracked |-> TRUE, quantity |-> 0]
Effect == [price : Price, uses : Use]
Column == [price : Price, category : SUBSET Category]

ASSUME MenuAssumption ==
    /\ GroupOf \in [Option -> Group] /\ IsFiniteSet(Option)
    /\ Price \subseteq Int /\ 0 \in Price
    /\ Use \subseteq [tracked : BOOLEAN, quantity : Int] /\ Nothing \in Use
    /\ MaxEdits \in Nat

MenuTypeOK ==
    /\ categories \in [Category -> Live]
    /\ groups \in [Group -> [status : Live, rule : Choice]]
    /\ options \in [Option -> [status : Live, price : Price, uses : Use]]
    /\ \A d \in Dish : items[d] = NoDish \/
        items[d] \in [status : Live, price : Price, category : SUBSET Category,
                      visible : SUBSET Shop, groups : SUBSET Group, base : Use,
                      effects : [Option -> SUBSET Effect]]
    /\ asked \in [Dish -> Column] /\ mixed \subseteq Dish /\ commands \in 0 .. MaxEdits

MenuInit ==
    /\ categories = [c \in Category |-> "ACTIVE"]
    /\ groups \in [Group -> [status : {"ACTIVE"}, rule : Choice]]
    /\ options = [o \in Option |-> [status |-> "ACTIVE", price |-> 0, uses |-> Nothing]]
    /\ items = [d \in Dish |-> NoDish]
    /\ patches = [e \in Editor |-> NoPatch]
    /\ asked = [d \in Dish |-> [price |-> 0, category |-> {}]]
    /\ mixed = {} /\ commands = 0

-----------------------------------------------------------------------------
\* One command, and what it leaves alone.
CountCommand == commands < MaxEdits /\ commands' = commands + 1
OnlyItems == UNCHANGED <<categories, groups, options>>
NoPatching == UNCHANGED <<patches, asked, mixed>>
Existing(d) == items[d] # NoDish
SetItem(d, row) == items' = [items EXCEPT ![d] = row]
Patching(d) == \E e \in Editor : d \in patches[e].of

\* The writes of the repository, each to the row of one table or to the rows linked to it.
NewItem(price, category, visible, set) ==
    [status |-> "ACTIVE", price |-> price, category |-> category, visible |-> visible,
     groups |-> set, base |-> Nothing, effects |-> [o \in Option |-> {}]]
UpdateMenuItemStatus(row, status) == [row EXCEPT !.status = status]
VisibleIn(row, visible) == [row EXCEPT !.visible = visible]
WithModifierGroups(row, named) ==
    [row EXCEPT !.groups = IF named = {} THEN @ ELSE CHOOSE s \in named : TRUE]
WithBaseComponents(row, base) == [row EXCEPT !.base = base]
WithEffects(row, o, effect) ==
    [row EXCEPT !.effects = [p \in Option |-> IF p = o THEN effect ELSE {}]]
SetComponentDeltas(o, uses) == options' = [options EXCEPT ![o].uses = uses]
SetOption(o, price, uses) == options' = [options EXCEPT ![o].price = price, ![o].uses = uses]
SetOptionStatus(o, status) == options' = [options EXCEPT ![o].status = status]
SetGroup(g, rule) == groups' = [groups EXCEPT ![g].rule = rule]
SetGroupStatus(g, status) == groups' = [groups EXCEPT ![g].status = status]

\* clearCategoryFromMenuItems.
Cleared(row, c) == IF row = NoDish THEN row ELSE [row EXCEPT !.category = @ \ {c}]

ArchiveCategory(c) ==
    /\ CountCommand /\ categories' = [categories EXCEPT ![c] = "ARCHIVED"]
    /\ items' = [d \in Dish |-> Cleared(items[d], c)]
    /\ asked' = [d \in Dish |-> [asked[d] EXCEPT !.category = @ \ {c}]]
    /\ mixed' = mixed \cup {d \in Dish : Patching(d)}
    /\ UNCHANGED <<groups, options, patches>>

\* createModifierGroup and updateModifierGroup: bounds in order, and a required
\* choice of at least one.
WellBounded(rule) == rule.min <= rule.max /\ (rule.required => rule.min >= 1)

UpdateModifierGroup(g, rule) ==
    /\ CountCommand /\ WellBounded(rule)
    /\ SetGroup(g, rule)
    /\ UNCHANGED <<categories, options, items>> /\ NoPatching

ArchiveModifierGroup(g) ==
    /\ CountCommand /\ SetGroupStatus(g, "ARCHIVED")
    /\ UNCHANGED <<categories, options, items>> /\ NoPatching

\* createModifierOption and updateModifierOption, with the components that the
\* option consumes of every item.
UpdateModifierOption(o, price, uses) ==
    /\ CountCommand /\ SetOption(o, price, uses)
    /\ UNCHANGED <<categories, groups, items>> /\ NoPatching

\* archiveModifierOption and restoreModifierOption.
SetModifierOptionStatus(o, status) ==
    /\ CountCommand /\ SetOptionStatus(o, status)
    /\ UNCHANGED <<categories, groups, items>> /\ NoPatching

-----------------------------------------------------------------------------
CreateMenuItem(d, price, category, visible, set) ==
    /\ CountCommand /\ ~Existing(d)
    /\ SetItem(d, NewItem(price, category, visible, set))
    /\ asked' = [asked EXCEPT ![d] = [price |-> price, category |-> category]]
    /\ OnlyItems /\ UNCHANGED <<patches, mixed>>

\* archiveMenuItem and restoreMenuItem.
SetMenuItemStatus(d, status) ==
    /\ CountCommand /\ Existing(d) /\ SetItem(d, UpdateMenuItemStatus(items[d], status))
    /\ OnlyItems /\ NoPatching

SetMenuItemVisibility(d, visible) ==
    /\ CountCommand /\ Existing(d) /\ SetItem(d, VisibleIn(items[d], visible))
    /\ OnlyItems /\ NoPatching

\* upsertComposition: the item's components (never negative), and an option's.
UpsertComposition(d, base, o, uses) ==
    /\ CountCommand /\ Existing(d) /\ base.quantity >= 0
    /\ SetItem(d, WithBaseComponents(items[d], base)) /\ SetComponentDeltas(o, uses)
    /\ UNCHANGED <<categories, groups>> /\ NoPatching

\* Options of the item's groups, whatever their status.
Attached(d, o) == GroupOf[o] \in items[d].groups

\* replaceModifierOptionEffectsForMenuItem: the effects of the other options go.
ReplaceModifierOptionEffects(d, o, effect) ==
    /\ CountCommand /\ Existing(d) /\ Attached(d, o)
    /\ SetItem(d, WithEffects(items[d], o, effect))
    /\ OnlyItems /\ NoPatching

-----------------------------------------------------------------------------
\* updateMenuItem: a column that the patch does not name is written as it was read.
Patched(patch, read) ==
    [price    |-> IF patch.price # {} THEN CHOOSE p \in patch.price : TRUE ELSE read.price,
     category |-> IF patch.category # {} THEN CHOOSE c \in patch.category : TRUE
                  ELSE read.category]

ReadMenuItem(e, d, patch) ==
    /\ CountCommand /\ patches[e] = NoPatch /\ Existing(d)
    /\ patches' = [patches EXCEPT ![e] = [of |-> {d}, patch |-> patch,
           read |-> [price |-> items[d].price, category |-> items[d].category]]]
    /\ mixed' = IF Patching(d) THEN mixed \cup {d} ELSE mixed
    /\ OnlyItems /\ UNCHANGED <<items, asked>>

\* The row in one statement, and the groups when named: the effects of an option
\* whose group is no longer linked stay.
WriteMenuItem(e, named) ==
    \E d \in patches[e].of :
        LET row == Patched(patches[e].patch, patches[e].read)
        IN  /\ SetItem(d, [WithModifierGroups(items[d], named) EXCEPT !.price = row.price,
                                                                   !.category = row.category])
            /\ asked' = [asked EXCEPT ![d] =
                 [price |-> IF patches[e].patch.price = {} THEN @.price ELSE row.price,
                  category |-> IF patches[e].patch.category = {} THEN @.category
                               ELSE row.category]]
            /\ patches' = [patches EXCEPT ![e] = NoPatch]
            /\ OnlyItems /\ UNCHANGED <<mixed, commands>>

AtMostOne(S) == {{}} \cup {{x} : x \in S}
Patches == {[price |-> {p}, category |-> {}] : p \in Price}
           \cup {[price |-> {}, category |-> {s}] : s \in AtMostOne(Category)}

CategoryCommands == \E c \in Category : ArchiveCategory(c)
GroupCommands ==
    \E g \in Group : ArchiveModifierGroup(g) \/ \E rule \in Choice : UpdateModifierGroup(g, rule)
OptionCommands ==
    \E o \in Option :
        \/ \E price \in Price, uses \in Use : UpdateModifierOption(o, price, uses)
        \/ \E status \in Live : SetModifierOptionStatus(o, status)
ItemCommands ==
    \E d \in Dish :
        \/ \E price \in Price, category \in AtMostOne(Category),
              visible \in SUBSET Shop, set \in SUBSET Group :
               CreateMenuItem(d, price, category, visible, set)
        \/ \E status \in Live : SetMenuItemStatus(d, status)
        \/ \E visible \in SUBSET Shop : SetMenuItemVisibility(d, visible)
        \/ \E e \in Editor, patch \in Patches : ReadMenuItem(e, d, patch)
CompositionCommands ==
    \E d \in Dish, o \in Option :
        \/ \E base, uses \in Use : UpsertComposition(d, base, o, uses)
        \/ \E effect \in AtMostOne(Effect) : ReplaceModifierOptionEffects(d, o, effect)

MenuStep ==
    \/ CategoryCommands \/ GroupCommands \/ OptionCommands
    \/ ItemCommands \/ CompositionCommands
    \/ \E e \in Editor, named \in AtMostOne(SUBSET Group) : WriteMenuItem(e, named)

-----------------------------------------------------------------------------
\* The menu page (getItem): every option of the item's groups, with its status, its
\* price for this item or none, and what it adds to the components.
EffectivePrice(d, o) == {effect.price : effect \in items[d].effects[o]}
EffectiveUse(d, o) ==
    IF items[d].effects[o] = {} THEN options[o].uses
    ELSE CHOOSE uses \in Use : \E effect \in items[d].effects[o] : effect.uses = uses
PageOption(d, o) ==
    [on |-> options[o].status = "ACTIVE" /\ groups[GroupOf[o]].status = "ACTIVE",
     price |-> EffectivePrice(d, o), uses |-> EffectiveUse(d, o)]
Page(d) == [o \in {p \in Option : Attached(d, p)} |-> PageOption(d, o)]

\* The preview (evaluateComposition, aggregateComponents): running totals per stock
\* item and tracking mode, in the order in which the options are named; the preview
\* is refused when a total that there was before becomes negative.
Totals == [tracked |-> {}, untracked |-> {}, refused |-> FALSE]
Add(totals, uses) ==
    LET mode  == IF uses.tracked THEN "tracked" ELSE "untracked"
        total == uses.quantity + (IF totals[mode] = {} THEN 0 ELSE CHOOSE q \in totals[mode] : TRUE)
    IN  IF uses.quantity = 0 THEN totals
        ELSE [totals EXCEPT ![mode] = {total}, !.refused = @ \/ (totals[mode] # {} /\ total < 0)]
Supported(d, chosen) == chosen \subseteq DOMAIN Page(d)
Evaluation(d, named) ==
    FoldLeft(Add, Add(Totals, items[d].base), [i \in DOMAIN named |-> EffectiveUse(d, named[i])])

\* The deduction for a sale line (aggregateTrackedComponentsPerUnit): the tracked
\* components of the item and of the options in the line's snapshot.
SumTracked(rows) == MapThenSumSet(LAMBDA row : IF row.tracked THEN row.quantity ELSE 0, rows)
TrackedOf(d, o) ==
    LET effects == {effect.uses : effect \in items[d].effects[o]}
    IN  SumTracked(IF effects # {} THEN effects ELSE {options[o].uses})
Deduction(d, chosen) ==
    SumTracked({items[d].base}) + MapThenSumSet(LAMBDA o : TrackedOf(d, o), chosen)

\* The order (hydrateOrderItems, resolveModifierSelections): the groups and options
\* that are active now, each option priced for this item.
Orderable(d, shop) == Existing(d) /\ items[d].status = "ACTIVE" /\ shop \in items[d].visible
Offered(d) == {g \in items[d].groups : groups[g].status = "ACTIVE"}
WithinRule(rule, n) ==
    /\ rule.mode = "SINGLE" => n <= 1
    /\ n >= Max({rule.min, IF rule.required THEN 1 ELSE 0}) /\ n <= rule.max
\* Mutant: an option without a price for the item is charged at the option's price.
ListPrice(d, o) == {options[o].price}
OrderPrice(d, o) == {effect.price : effect \in items[d].effects[o]}
Accepted(d, shop, chosen) ==
    /\ Orderable(d, shop)
    /\ {GroupOf[o] : o \in chosen} \subseteq Offered(d)
    /\ \A g \in Offered(d) :
        WithinRule(groups[g].rule, Cardinality({o \in chosen : GroupOf[o] = g}))
    /\ \A o \in chosen : options[o].status = "ACTIVE" /\ OrderPrice(d, o) # {}
UnitPrice(d, chosen) ==
    items[d].price + MapThenSumSet(LAMBDA o : CHOOSE p \in OrderPrice(d, o) : TRUE, chosen)

-----------------------------------------------------------------------------
(* An item has the price and the category that the last commands naming    *)
(* them asked for, and an archived category is on none, unless a patch met *)
(* another command of its item: a patch writes every column as it read it. *)
MenuIsAsAsked ==
    \A d \in Dish : Existing(d) /\ d \notin mixed =>
        items[d].price = asked[d].price /\ items[d].category = asked[d].category

(* What an order accepts, the menu page shows as choosable, and the guest  *)
(* is charged the prices of the page.                                      *)
ChargedAsShown ==
    \A d \in Dish, shop \in Shop, chosen \in SUBSET Option :
        Accepted(d, shop, chosen) =>
            /\ \A o \in chosen : o \in DOMAIN Page(d) /\ Page(d)[o].on /\ Page(d)[o].price # {}
            /\ UnitPrice(d, chosen) =
                 items[d].price + MapThenSumSet(LAMBDA o : CHOOSE p \in Page(d)[o].price : TRUE, chosen)

(* What a sale of a line takes from the stock is what the menu's preview   *)
(* of the same choice said, in whatever order the options are named,       *)
(* whenever the preview is not refused; and the choice of a line that an   *)
(* order accepts is one the preview supports.                              *)
ConsumedAsShown ==
    \A d \in Dish : Existing(d) =>
        /\ \A shop \in Shop, chosen \in SUBSET Option :
            Accepted(d, shop, chosen) => Supported(d, chosen)
        /\ \A chosen \in SUBSET {o \in Option : Attached(d, o)} : \A named \in SetToSeqs(chosen) :
            LET shown == Evaluation(d, named)
            IN  ~shown.refused => Max({0} \cup shown.tracked) = Max({0, Deduction(d, chosen)})
=============================================================================
