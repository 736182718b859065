------------------------------ MODULE Checkout ------------------------------
(***************************************************************************)
(* What a checkout comes to.  USD amounts are cents and KHR amounts are    *)
(* hundredths of a riel, so that a rate in whole riels converts exactly;   *)
(* quantities are thousandths.  Every KHR column is rounded by itself to   *)
(* the branch's granularity.  The client may name any amount of the bill:  *)
(* only the tender and what was handed over are held against the others,   *)
(* and a command that finalizes later may replace even the tender.         *)
(***************************************************************************)
EXTENDS Integers, Sequences, FiniteSetsExt

\* The columns a body may name, and those a finalize command may replace.
Amount == {"subtotal", "discount", "vat", "grand", "subtotalKhr", "discountKhr", "vatKhr",
           "grandKhr", "tender", "received", "change", "paid"}
Replaceable == {"tender", "received", "change", "paid"}

CONSTANTS
    Lines,             \* carts: sequences of [price, quantity]
    Rate,              \* saleFxRateKhrPerUsd
    Naming             \* bodies: the amounts named, a function on the columns they are for

ASSUME CheckoutAssumption ==
    /\ Lines \subseteq Seq([price : Nat, quantity : Nat]) /\ Rate \subseteq Nat \ {0}
    /\ \A named \in Naming :
           DOMAIN named \subseteq Amount /\ \A c \in DOMAIN named : named[c] \in Int

VARIABLES
    bill,              \* the columns of the sale of the checkout under way
    drawn              \* the amount of its SALE_IN movement

checkoutVars == <<bill, drawn>>

-----------------------------------------------------------------------------
Abs(n) == IF n < 0 THEN -n ELSE n
Largest(a, b) == IF a > b THEN a ELSE b
NoBill == [status |-> "NONE"]

\* parseNumberOrDefault.
Given(named, column, otherwise) == IF column \in DOMAIN named THEN named[column] ELSE otherwise

\* roundMoney of a fraction: halves go up.
RoundedDiv(n, d) == (2 * n + d) \div (2 * d)
LineSubtotal(line) == RoundedDiv(line.price * line.quantity, 1000)

\* applySaleKhrRounding: to whole granules of 100 or 1000 riels.
\* Mutant: rounding up goes on to the next granule.
RoundedPast(value, rounding) ==
    IF ~rounding.enabled THEN value
    ELSE rounding.granule * (value \div rounding.granule + 1)
SaleKhrRounding(value, rounding) ==
    LET g == rounding.granule IN
    IF ~rounding.enabled THEN value
    ELSE CASE rounding.mode = "UP" -> g * ((value + g - 1) \div g)
           [] rounding.mode = "DOWN" -> g * (value \div g)
           [] OTHER -> g * RoundedDiv(value, g)
InKhr(cents, cart) == SaleKhrRounding(cents * cart.rate, cart.rounding)

\* The lines of a sale, with computeSaleLineKhrSnapshot's amount, and their totals.
SaleLine(line, cart) == [usd |-> LineSubtotal(line), khr |-> InKhr(LineSubtotal(line), cart)]
SaleLines(cart) == [i \in DOMAIN cart.lines |-> SaleLine(cart.lines[i], cart)]
Total(rows, column) == FoldSet(LAMBDA i, total : rows[i][column] + total, 0, DOMAIN rows)
LinesSubtotal(cart) == Total(SaleLines(cart), "usd")
LineKhr(cart) == Total(SaleLines(cart), "khr")

Rounding == [enabled : BOOLEAN, mode : {"NEAREST", "UP", "DOWN"}, granule : {10000, 100000}]
\* A cart and the body it is checked out with.
Cart == [lines : Lines, rate : Rate, rounding : Rounding, method : {"CASH", "KHQR"},
         currency : {"USD", "KHR"}, named : Naming]

Subtotal(cart) == Given(cart.named, "subtotal", LinesSubtotal(cart))
DiscountUsd(cart) == Given(cart.named, "discount", 0)
VatUsd(cart) == Given(cart.named, "vat", 0)
GrandTotal(cart) ==
    Given(cart.named, "grand", Subtotal(cart) - DiscountUsd(cart) + VatUsd(cart))

\* An amount in riels, named or converted; both are rounded.
KhrColumn(cart, column, cents) ==
    SaleKhrRounding(Given(cart.named, column, cents * cart.rate), cart.rounding)

\* defaultTenderAmount: the tender of a bill of these totals.
TenderDue(currency, grand, grandKhr) == IF currency = "USD" THEN grand ELSE grandKhr

\* paidAmount is in USD whatever the tender.
Paid(currency, tender, rate) == IF currency = "USD" THEN tender ELSE RoundedDiv(tender, rate)

ChangeDue(received, tender) == Largest(received - tender, 0)

CheckoutTypeOK ==
    /\ bill = NoBill \/ bill.status \in {"PENDING", "FINALIZED"}
    /\ \A n \in drawn : n \in Int

CheckoutInit == bill = NoBill /\ drawn = {}

\* parseCheckoutBody; the amount handed over of a KHQR sale is 0 for null.
ParseCheckout(cart) ==
    LET named == cart.named
        cash == cart.method = "CASH"
        grand == GrandTotal(cart)
        grandKhr == KhrColumn(cart, "grandKhr", grand)
        tender == Given(named, "tender", TenderDue(cart.currency, grand, grandKhr))
        received == Given(named, "received", IF cash THEN tender ELSE 0)
    IN  [status |-> "PENDING", cart |-> cart, replaced |-> {}, linesKhr |-> LineKhr(cart),
         subtotal |-> Subtotal(cart), discount |-> DiscountUsd(cart), vat |-> VatUsd(cart),
         grand |-> grand, subtotalKhr |-> KhrColumn(cart, "subtotalKhr", Subtotal(cart)),
         discountKhr |-> KhrColumn(cart, "discountKhr", DiscountUsd(cart)),
         vatKhr |-> KhrColumn(cart, "vatKhr", VatUsd(cart)), grandKhr |-> grandKhr,
         tender |-> tender, received |-> received,
         change |-> Given(named, "change", IF cash THEN ChangeDue(received, tender) ELSE 0),
         paid |-> Given(named, "paid", Paid(cart.currency, tender, cart.rate))]

\* The CHECKs of v0_sales: no column is negative, and what was handed over for a
\* finalized cash sale covers its tender.
Storable(row) ==
    /\ \A c \in Amount : row[c] >= 0
    /\ row.status = "FINALIZED" /\ row.cart.method = "CASH" => row.received >= row.tender

\* A tender that is not the grand total is refused, and so is cash that does not cover it.
Checkout(cart) ==
    LET row == ParseCheckout(cart) IN
    /\ bill = NoBill
    /\ row.tender = TenderDue(cart.currency, row.grand, row.grandKhr)
    /\ cart.method = "CASH" => row.received >= row.tender
    /\ Storable(row) /\ bill' = row /\ UNCHANGED drawn

\* markSaleFinalized with what the body of the command names, which is compared with
\* nothing, and the SALE_IN of a cash sale.
Finalized(row, named) ==
    [row EXCEPT !.status = "FINALIZED", !.replaced = Replaceable \cap DOMAIN named,
                !.tender = Given(named, "tender", row.tender),
                !.received = Given(named, "received", row.received),
                !.change = Given(named, "change", row.change),
                !.paid = Given(named, "paid", row.paid)]
FinalizeBill(named) ==
    /\ bill.status = "PENDING"
    /\ Storable(Finalized(bill, named)) /\ bill' = Finalized(bill, named)
    /\ drawn' = IF bill.cart.method = "CASH" THEN {bill'.tender} ELSE {}

NextCheckout == bill.status = "FINALIZED" /\ bill' = NoBill /\ drawn' = {}

CheckoutStep ==
    \/ \E cart \in Cart : Checkout(cart)
    \/ \E named \in Naming : FinalizeBill(named)
    \/ NextCheckout
-----------------------------------------------------------------------------
(* Whatever the client names: every amount in riels is a whole number of   *)
(* granules, the tender is the grand total of its currency until the       *)
(* command that finalizes replaces it, the cash handed over covers it even *)
(* then, and the drawer gains it.                                          *)
Whole(amount, rounding) == rounding.enabled => amount % rounding.granule = 0
BillHolds(b) ==
    /\ \A c \in {"subtotalKhr", "discountKhr", "vatKhr", "grandKhr"} : Whole(b[c], b.cart.rounding)
    /\ "tender" \notin b.replaced => b.tender = TenderDue(b.cart.currency, b.grand, b.grandKhr)
    /\ b.cart.method = "CASH" => b.received >= b.tender

(* Of the amounts that are left to be computed: the grand total in riels   *)
(* is its amount in USD to within a granule, and the sum of its parts to   *)
(* within two; the lines add up to within one each and one more.  What was *)
(* handed over less the change is the tender, which is worth the paid      *)
(* amount to half a cent.  Each says nothing of an amount that was named.  *)
Computed(b, columns) == columns \cap (DOMAIN b.cart.named \cup b.replaced) = {}
BillAddsUp(b) ==
    LET granule == IF b.cart.rounding.enabled THEN b.cart.rounding.granule ELSE 0
        rate == b.cart.rate
    IN  /\ Computed(b, {"grandKhr"}) => Abs(b.grandKhr - b.grand * rate) <= Largest(granule - 1, 0)
        /\ Computed(b, {"grand", "subtotalKhr", "discountKhr", "vatKhr", "grandKhr"}) =>
               Abs(b.grandKhr - (b.subtotalKhr - b.discountKhr + b.vatKhr)) <= 2 * granule
        /\ Computed(b, {"subtotal", "subtotalKhr"}) =>
               Abs(b.linesKhr - b.subtotalKhr) <= (Len(b.cart.lines) + 1) * granule
        /\ b.cart.method = "CASH" /\ Computed(b, {"change"}) /\ b.replaced \subseteq {"paid"} =>
               b.received - b.change = b.tender
        /\ b.cart.currency = "KHR" /\ Computed(b, {"paid"}) /\ "tender" \notin b.replaced =>
               2 * Abs(b.paid * rate - b.tender) <= rate

\* Both, for the bill under way, and the drawer gains its tender.
BillAgrees ==
    bill # NoBill =>
        /\ BillHolds(bill) /\ BillAddsUp(bill)
        /\ drawn = IF bill.status = "FINALIZED" /\ bill.cart.method = "CASH"
                   THEN {bill.tender} ELSE {}
=============================================================================
