------------------------------ MODULE Discount ------------------------------
(***************************************************************************)
(* Discount rules of one branch and what is offered to a sale now.  Editing *)
(* a rule reads it, its items and the other rules, and writes afterwards;  *)
(* a change of status is one conditional UPDATE.  Time passes meanwhile.   *)
(***************************************************************************)
EXTENDS Integers

CONSTANTS
    Rule,
    MenuItem,          \* menu items
    MaxTime,           \* bound of the clock
    Schedule,          \* the schedules asked for: pairs of times, or Open
    MaxWrites,         \* bound of the writes to a rule
    Marketer           \* transactions under way

ASSUME DiscountAssumption == MaxTime \in Nat /\ MaxWrites \in Nat \ {0}

Time == 0 .. MaxTime
\* start_at or end_at without a value.
Open == -1

VARIABLES
    rules,        \* v0_discount_rules with v0_discount_rule_items
    onMenu,       \* items that are active and visible in the branch (Menu)
    clock,
    edits,        \* the transactions: what they have read and do next
    slipped       \* history: rules that came into force between a read and its write

discountVars == <<rules, onMenu, clock, edits, slipped>>

-----------------------------------------------------------------------------
NoRule == [status |-> "NONE"]
NoEdit == [step |-> "idle"]
Definition ==
    {[scope |-> scope, items |-> items, from |-> s[1], to |-> s[2]] :
        scope \in {"ITEM", "BRANCH_WIDE"}, items \in SUBSET MenuItem, s \in Schedule}
RuleRow == [status : {"INACTIVE", "ACTIVE", "ARCHIVED"}, definition : Definition,
            written : 1 .. MaxWrites]

DiscountTypeOK ==
    /\ \A r \in Rule : rules[r] = NoRule \/ rules[r] \in RuleRow
    /\ onMenu \subseteq MenuItem /\ clock \in Time /\ slipped \subseteq Rule
    /\ \A m \in Marketer : edits[m] = NoEdit \/
           edits[m] \in [step : {"create", "update"}, of : Rule, to : Definition]

DiscountInit ==
    /\ rules = [r \in Rule |-> NoRule]
    /\ onMenu = MenuItem
    /\ clock = 0
    /\ edits = [m \in Marketer |-> NoEdit]
    /\ slipped = {}

-----------------------------------------------------------------------------
\* listActiveRulesForBranchAt: the rules in force at a time.
ListActiveRulesAt(t) ==
    {r \in Rule : /\ rules[r].status = "ACTIVE"
                  /\ rules[r].definition.from = Open \/ rules[r].definition.from <= t
                  /\ rules[r].definition.to = Open \/ rules[r].definition.to > t}

\* resolveEligibility: of those, the ones for the branch or for an item of the sale.
ResolveEligibility(t, lines) ==
    {r \in ListActiveRulesAt(t) :
        rules[r].definition.scope = "ITEM" => rules[r].definition.items \cap lines # {}}

\* isCurrentlyEligible.  Mutant: the first moment is left out.
EligibleAfterStart(row, t) ==
    /\ row.status = "ACTIVE"
    /\ row.definition.from = Open \/ row.definition.from < t
    /\ row.definition.to = Open \/ t < row.definition.to
IsCurrentlyEligible(row, t) ==
    /\ row.status = "ACTIVE"
    /\ row.definition.from = Open \/ row.definition.from <= t
    /\ row.definition.to = Open \/ t < row.definition.to

\* parseCreateBody and the same checks of updateRule.
WellFormed(d) ==
    /\ (d.scope = "ITEM") = (d.items # {})
    /\ d.from # Open /\ d.to # Open => d.from < d.to

\* assertItemTargetsEligible, by resolveEligibleItemIdsForBranch.
TargetsEligible(d) == d.items \subseteq onMenu

SchedulesOverlap(d, e) ==
    /\ d.from = Open \/ e.to = Open \/ d.from < e.to
    /\ e.from = Open \/ d.to = Open \/ e.from < d.to

HasTargetOverlap(d, e) ==
    "BRANCH_WIDE" \in {d.scope, e.scope} \/ d.items \cap e.items # {}

FindOverlapRules(r, d) ==
    {q \in Rule \ {r} : /\ rules[q].status = "ACTIVE"
                        /\ SchedulesOverlap(d, rules[q].definition)
                        /\ HasTargetOverlap(d, rules[q].definition)}

Acceptable(r, d, confirmOverlap) ==
    /\ WellFormed(d) /\ TargetsEligible(d)
    /\ FindOverlapRules(r, d) = {} \/ confirmOverlap

-----------------------------------------------------------------------------
InFlight(r) == \E m \in Marketer : edits[m].step = "update" /\ edits[m].of = r

\* The last conjunct of every action: a rule comes into force under an edit.
Slip ==
    slipped' = {r \in Rule : /\ InFlight(r)'
                             /\ \/ r \in slipped
                                \/ r \notin ListActiveRulesAt(clock) /\ (r \in ListActiveRulesAt(clock))'}

Take(m, edit) ==
    /\ edits[m] = NoEdit
    /\ edits' = [edits EXCEPT ![m] = edit]
    /\ UNCHANGED <<rules, onMenu, clock>> /\ Slip

Drop(m) == edits' = [edits EXCEPT ![m] = NoEdit] /\ UNCHANGED <<onMenu, clock>> /\ Slip

\* createRule and updateRule up to their write.  Only a rule not in force is edited.
CreateRule(m, r, d, confirmOverlap) ==
    /\ rules[r] = NoRule /\ Acceptable(r, d, confirmOverlap)
    /\ Take(m, [step |-> "create", of |-> r, to |-> d])

UpdateRule(m, r, d, confirmOverlap) ==
    /\ rules[r] # NoRule /\ ~IsCurrentlyEligible(rules[r], clock)
    /\ Acceptable(r, d, confirmOverlap)
    /\ Take(m, [step |-> "update", of |-> r, to |-> d])

\* createRule of the repository and replaceRuleItems.
InsertRule(m) ==
    LET e == edits[m] IN
    /\ e.step = "create" /\ rules[e.of] = NoRule
    /\ rules' = [rules EXCEPT ![e.of] = [status |-> "INACTIVE", definition |-> e.to, written |-> 1]]
    /\ Drop(m)

\* updateRuleDefinition and replaceRuleItems, whatever the status has become.
UpdateRuleDefinition(m) ==
    LET e == edits[m] IN
    /\ e.step = "update" /\ rules[e.of].written < MaxWrites
    /\ rules' = [rules EXCEPT ![e.of].definition = e.to, ![e.of].written = @ + 1]
    /\ Drop(m)

\* activateRule, deactivateRule and archiveRule by updateRuleStatus: from any status,
\* and only if the caller's expectedUpdatedAt, when given, is still true.
UpdateRuleStatus(r, status, expected) ==
    /\ rules[r] # NoRule /\ rules[r].written < MaxWrites
    /\ expected = {} \/ rules[r].written \in expected
    /\ rules' = [rules EXCEPT ![r].status = status, ![r].written = @ + 1]
    /\ UNCHANGED <<onMenu, clock, edits>> /\ Slip

GiveUp(m) == edits[m] # NoEdit /\ UNCHANGED rules /\ Drop(m)

\* Time passes, into the schedule of a rule whose edit is in flight perhaps.
Tick ==
    /\ clock < MaxTime
    /\ clock' = clock + 1
    /\ UNCHANGED <<rules, onMenu, edits>> /\ Slip

MenuChanges(set) == onMenu' = set /\ set # onMenu /\ UNCHANGED <<rules, clock, edits, slipped>>

RuleCommands ==
    \/ \E m \in Marketer, r \in Rule, d \in Definition, confirm \in BOOLEAN :
           CreateRule(m, r, d, confirm) \/ UpdateRule(m, r, d, confirm)
    \/ \E r \in Rule, status \in {"ACTIVE", "INACTIVE", "ARCHIVED"},
          expected \in {{}} \cup {{n} : n \in 1 .. MaxWrites} : UpdateRuleStatus(r, status, expected)

DiscountStep ==
    \/ RuleCommands
    \/ \E m \in Marketer : InsertRule(m) \/ UpdateRuleDefinition(m) \/ GiveUp(m)
    \/ Tick
    \/ \E set \in SUBSET MenuItem : MenuChanges(set)

-----------------------------------------------------------------------------
\* A discount that sales are being offered is not edited under them: what
\* resolveEligibility offers to some sale has no edit in flight, unless it came into
\* force after the edit had read it.
OfferedIsSettled ==
    \A r \in ResolveEligibility(clock, MenuItem) : InFlight(r) => r \in slipped
=============================================================================
