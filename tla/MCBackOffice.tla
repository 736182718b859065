---------------------------- MODULE MCBackOffice ----------------------------
(* The two sides of the back office on small instances, all in one run.    *)
(* Their components share no table, so each is checked by itself: `focus`  *)
(* is the one that is at work, and the others rest in one state.           *)
EXTENDS Tenancy, Trade, TLC

CONSTANTS
    w1, w2,           \* transactions, requests or deliveries under way
    k1, k2,           \* idempotency keys
    x, y,             \* accounts
    b1, b2,           \* branches
    p1, p2, i1, i2, g1

VARIABLE focus

-----------------------------------------------------------------------------
\* Values of the constants that are not sets of model values.
MCWorkplace == [mode |-> "checkin_only", configured |-> TRUE]
MCSchedule == {<<-1, -1>>, <<1, -1>>, <<-1, 1>>}
MCGroupOf == [o \in {p1, p2} |-> g1]
MCCashier == [c \in {i2} |-> x]

MCUse == {[tracked |-> TRUE, quantity |-> q] : q \in {-1, 0, 2}}
         \cup {[tracked |-> FALSE, quantity |-> 1]}
MCChoice == {[mode |-> "SINGLE", min |-> 1, max |-> 1, required |-> TRUE],
             [mode |-> "MULTI", min |-> 0, max |-> 2, required |-> FALSE]}
MCLines == {<<[price |-> 200, quantity |-> 1000]>>,
            <<[price |-> 333, quantity |-> 1500], [price |-> 120, quantity |-> 333]>>}
\* Bodies that name nothing, one amount, or two that hang together.
MCNaming ==
    {<<>>} \cup {c :> 777 : c \in Amount \ {"received"}}
    \cup {"received" :> n : n \in {1, 5000000}}
    \cup {"grand" :> 777 @@ "tender" :> 777, "grandKhr" :> 50000 @@ "tender" :> 50000,
          "discount" :> 37 @@ "vat" :> 20, "vat" :> -1}

\* A dish and a stock item of the tenant, a sale row of each branch, a shift that its
\* owner sees, and a membership, which no feed shows.
MCPlace ==
    "dish" :> "tenant" @@ "snack" :> "tenant" @@ "bill" :> b1
    @@ "other" :> b2 @@ "stint" :> b1 @@ "member" :> "nowhere"
MCRow == DOMAIN MCPlace
MCOwner == [r \in MCRow |-> IF r = "stint" THEN x ELSE "everyone"]

-----------------------------------------------------------------------------
\* At rest: where an initial state has a choice, one of them.
Init ==
    /\ focus \in {"Organisation", "BranchActivation", "Accounts", "Attendance", "Shifts",
                 "Discount", "Menu", "StockCatalog", "Checkout", "CommandLog",
                 "Notifications"}
    /\ TenancyInit /\ TradeInit
    /\ focus # "Menu" => \A g \in DOMAIN groups : ~groups[g].rule.required
    /\ focus # "Accounts" => provider
    /\ focus # "CommandLog" => open = {b1}
    /\ focus # "Notifications" => managers = {}

\* Bound: the till is closed or the void is requested, not both.
OneSubject == subjects'[i1] = "OPEN" \/ subjects'[i2] = "none"

Next ==
    /\ \/ /\ UNCHANGED tradeVars
          /\ \/ focus = "Organisation" /\ OrgTurn
             \/ focus = "BranchActivation" /\ OpenTurn
             \/ focus = "Accounts" /\ AccountTurn
             \/ focus = "Attendance" /\ AttendanceTurn
             \/ focus = "Shifts" /\ ShiftTurn
       \/ /\ UNCHANGED tenancyVars
          /\ \/ focus = "Discount" /\ DiscountTurn
             \/ focus = "Menu" /\ MenuTurn
             \/ focus = "StockCatalog" /\ StockTurn
             \/ focus = "Checkout" /\ CheckoutTurn
             \/ focus = "CommandLog" /\ LogTurn
             \/ focus = "Notifications" /\ NoteTurn /\ OneSubject
    /\ UNCHANGED focus

vars == <<focus, tenancyVars, tradeVars>>

Spec == Init /\ [][Next]_vars

Symmetry == Permutations({w1, w2}) \cup Permutations({k1, k2})
=============================================================================
