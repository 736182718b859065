-------------------------------- MODULE Trade --------------------------------
(***************************************************************************)
(* What a tenant sells and how it is told: discounts, the menu, the stock  *)
(* catalogue, bills, the log of commands and notifications, side by side.  *)
(* They share no table in these models: at every step one of them is at    *)
(* work.                                                                   *)
(***************************************************************************)
EXTENDS Discount, Menu, StockCatalog, Checkout, CommandLog, Notifications

tradeVars == <<discountVars, menuVars, stockVars, checkoutVars, logVars, noteVars>>

-----------------------------------------------------------------------------
TradeInit ==
    DiscountInit /\ MenuInit /\ StockInit /\ CheckoutInit /\ LogInit /\ NoteInit

DiscountTurn ==
    DiscountStep /\ UNCHANGED <<menuVars, stockVars, checkoutVars, logVars, noteVars>>
MenuTurn ==
    MenuStep /\ UNCHANGED <<discountVars, stockVars, checkoutVars, logVars, noteVars>>
StockTurn ==
    StockStep /\ UNCHANGED <<discountVars, menuVars, checkoutVars, logVars, noteVars>>
CheckoutTurn ==
    CheckoutStep /\ UNCHANGED <<discountVars, menuVars, stockVars, logVars, noteVars>>
LogTurn ==
    LogStep /\ UNCHANGED <<discountVars, menuVars, stockVars, checkoutVars, noteVars>>
NoteTurn ==
    NoteStep /\ UNCHANGED <<discountVars, menuVars, stockVars, checkoutVars, logVars>>

TradeNext ==
    DiscountTurn \/ MenuTurn \/ StockTurn \/ CheckoutTurn \/ LogTurn \/ NoteTurn

TradeSpec == TradeInit /\ [][TradeNext]_tradeVars

-----------------------------------------------------------------------------
\* The menu is what was asked of it, and the order and the stock deduction compute from
\* it what the menu page showed.
MenuSafe == MenuTypeOK /\ MenuIsAsAsked /\ ChargedAsShown /\ ConsumedAsShown

\* What sales are being offered is not edited under them, and what has been archived in
\* the stock catalogue stays as it was put away.
CatalogSafe ==
    /\ DiscountTypeOK /\ OfferedIsSettled
    /\ StockTypeOK /\ ArchivesHold

\* The amounts of a finalized bill, its change and the cash drawn from it agree.
BillsSafe == CheckoutTypeOK /\ BillAgrees

\* Each branch's feed tells of every row a command changed, but for those muted.
FeedsSafe == LogTypeOK /\ FeedFollowsRows

\* A notification reaches each account at most once, after its inbox has it.
NoticesSafe == NoteTypeOK /\ NoticesAreTold
=============================================================================
