------------------------------ MODULE Amounts -------------------------------
(***************************************************************************)
(* The amounts of one order, from the prices of the catalog to the refund. *)
(*                                                                         *)
(* A price in US dollars is converted into the order's asset once, when    *)
(* the order is placed; from then on the amount is copied, multiplied,     *)
(* added, stored, loaded and scaled to minor units by six different        *)
(* pieces of code, while the merchant changes the prices.  This module     *)
(* keeps what the handlers do to amounts; their guards on statuses, their  *)
(* duplicates and their overlaps are the business of Payment, Orders and   *)
(* CheckoutSaga.                                                           *)
(***************************************************************************)
EXTENDS Integers, Sequences, Functions, FiniteSetsExt

CONSTANTS
  Variants,    \* the product's variants
  AddOns,      \* its active add-on values
  Cents,       \* the base prices the merchant may set, in cents
  Deltas,      \* the price deltas of a variant or an add-on, in cents
  Assets,      \* the rows of payment_assets
  Quantities,
  MaxLines,    \* bound: lines of the order
  Precision,   \* digits of the decimal context: 28
  Scale        \* digits after the point of a stored amount: NUMERIC(38, 18)

(* rate: whole dollars per token; token: an ERC-20, not the chain's own.   *)
PaymentAsset ==
  [decimals : 0 .. Scale, rate : Nat \ {0}, token : BOOLEAN, enabled : BOOLEAN]

ASSUME AmountsAssumption ==
  /\ IsFiniteSet(AddOns) /\ Cents \subseteq Nat /\ Deltas \subseteq Nat
  /\ Quantities \subseteq Nat \ {0}
  /\ Precision \in Nat \ {0} /\ Scale \in Nat /\ MaxLines \in Nat
  /\ Assets \subseteq PaymentAsset

VARIABLES
  catalog,  \* [base, delta, extra]: the product as the catalog has it now
  asset,    \* the order's payment asset
  rows,     \* order_items by order_item_id, which the selection determines
  order,    \* [placed, total, quoted]: quoted is a history variable
  payment,  \* [status, amount, expected, asked]
  paid,     \* the transfer the customer signed, in minor units
  approval, \* the total the store approved, or NoAmount
  refunded  \* the amount sent back, in minor units

vars == <<catalog, asset, rows, order, payment, paid, approval, refunded>>

-----------------------------------------------------------------------------
(* Ten[k] is 10^k.                                                         *)
Ten[k \in Nat] == IF k = 0 THEN 1 ELSE 10 * Ten[k - 1]

(* Decimals: [n, e] is n * 10^(-e).                                        *)
HalfUp(a, b) == (2 * a + b) \div (2 * b)

HalfEven(a, b) ==
  IF 2 * (a % b) = b /\ (a \div b) % 2 = 0 THEN a \div b ELSE HalfUp(a, b)

(* The result of an operation, rounded to the digits of the context.       *)
InContext(x) ==
  LET drop == CHOOSE k \in 0 .. x.n :
                x.n < Ten[Precision + k] /\ (k = 0 \/ x.n >= Ten[Precision + k - 1])
  IN  [n |-> HalfEven(x.n, Ten[drop]) * Ten[IF drop > x.e THEN drop - x.e ELSE 0],
       e |-> IF drop > x.e THEN 0 ELSE x.e - drop]

Rescaled(x, e) ==
  [n |-> IF e >= x.e THEN x.n * Ten[e - x.e] ELSE HalfUp(x.n, Ten[x.e - e]),
   e |-> e]

(* a / b with all the digits of the context.                               *)
Quotient(a, b) ==
  IF a = 0 THEN [n |-> 0, e |-> 0]
  ELSE LET e == CHOOSE k \in 0 .. Precision + b :
                  /\ a * Ten[k] >= b * Ten[Precision - 1]
                  /\ k = 0 \/ a * Ten[k - 1] < b * Ten[Precision - 1]
       IN  [n |-> HalfEven(a * Ten[e], b), e |-> e]

_multiply_crypto(x, quantity) == InContext([x EXCEPT !.n = @ * quantity])

add(x, y) ==
  LET e == IF x.e > y.e THEN x.e ELSE y.e
  IN  InContext([n |-> Rescaled(x, e).n + Rescaled(y, e).n, e |-> e])

Zero == [n |-> 0, e |-> 0]

(* Two decimals that are equal as numbers.                                 *)
Same(x, y) == Rescaled(x, Scale) = Rescaled(y, Scale)

(* A stored amount has Scale digits after the point.                       *)
_crypto_params(x) == Rescaled(x, Scale)

(* The code raises instead of returning a number.                          *)
Raises == -1
NoAmount == [n |-> Raises, e |-> 0]

(* Minor units of an asset; an amount with more digits is refused.         *)
_crypto_minor_units(x, decimals) ==
  IF (x.n * Ten[decimals]) % Ten[x.e] = 0
  THEN (x.n * Ten[decimals]) \div Ten[x.e]
  ELSE Raises

-----------------------------------------------------------------------------
Selections == [variant : Variants, options : SUBSET AddOns]

(* The fiat price of a selection: base plus variant and add-on deltas.     *)
unit_price_usd(c, s) ==
  c.base + c.delta[s.variant] + SumFunctionOnSet(c.extra, s.options)

to_crypto_truncated(cents, a) == \* mutant: rounds towards zero
  LET units == Quotient(cents, 100 * a.rate)
  IN  [n |-> (units.n * Ten[a.decimals]) \div Ten[units.e], e |-> a.decimals]

(* ExchangeRate.to_crypto: the quotient in the context, quantized to the   *)
(* asset's decimals; quantize refuses a result beyond the context.         *)
to_crypto(cents, a) ==
  LET quantized == Rescaled(Quotient(cents, 100 * a.rate), a.decimals)
  IN  IF quantized.n < Ten[Precision] THEN quantized ELSE NoAmount

from_product_total(s, quantity, a) == \* mutant: converts the line's price
  [unit |-> to_crypto(unit_price_usd(catalog, s), a), quantity |-> quantity,
   subtotal |-> to_crypto(quantity * unit_price_usd(catalog, s), a)]

(* OrderItem.from_product: the unit price is converted, then multiplied.   *)
from_product(s, quantity, a) ==
  LET unit == to_crypto(unit_price_usd(catalog, s), a)
  IN  [unit |-> unit, quantity |-> quantity,
       subtotal |-> IF unit = NoAmount THEN unit ELSE _multiply_crypto(unit, quantity)]

(* What a customer may ask for: lines of the product, in any order.        *)
Requests ==
  UNION {[1 .. k -> [selection : Selections, quantity : Quantities]] : k \in 1 .. MaxLines}

Items(request, a) ==
  [i \in DOMAIN request |-> from_product(request[i].selection, request[i].quantity, a)]

_total_amount(items) == FoldFunction(add, Zero, [i \in DOMAIN items |-> items[i].subtotal])

(* UPSERT_ORDER_ITEM_SQL, line by line: the identity of a line is made     *)
(* from its product, variant and options, so a later line with the same    *)
(* selection overwrites an earlier one.                                    *)
Upserted(request, items) ==
  [s \in {request[i].selection : i \in DOMAIN request} |->
     LET item == items[Max({i \in DOMAIN request : request[i].selection = s})]
     IN  [item EXCEPT !.unit = _crypto_params(@), !.subtotal = _crypto_params(@)]]

(* _order_detail_from_canonical_rows: the store adds up unit prices.       *)
ApprovalTotal ==
  FoldFunction(add, Zero,
    [s \in DOMAIN rows |-> _multiply_crypto(rows[s].unit, rows[s].quantity)])

-----------------------------------------------------------------------------
NoAsset == [decimals |-> 0, rate |-> 1, token |-> FALSE, enabled |-> FALSE]

(* What an order may be paid in, read in createOrder's transaction.        *)
PaymentAssetRegistry == {a \in Assets : a.enabled}
NoPayment == [status |-> "NONE", amount |-> Zero, expected |-> 0, asked |-> 0]

Catalogs ==
  [base : Cents, delta : [Variants -> Deltas], extra : [AddOns -> Deltas]]

AmountsInit ==
  /\ catalog \in Catalogs
  /\ asset = NoAsset
  /\ rows = <<>>
  /\ order = [placed |-> <<>>, total |-> Zero, quoted |-> 0]
  /\ payment = NoPayment
  /\ paid = 0
  /\ approval = NoAmount
  /\ refunded = 0

(* The merchant writes the product with its variants and options anew.     *)
updateProduct(c) ==
  /\ catalog' = c
  /\ UNCHANGED <<asset, rows, order, payment, paid, approval, refunded>>

(* initiate_payment: the same amount becomes the payment's, the signature  *)
(* request's and, in minor units, what the receipt is compared with.       *)
initiate_payment(amount, a) ==
  payment' = [status   |-> "AWAITING_SIGNATURE",
              amount   |-> _crypto_params(amount),
              expected |-> _crypto_minor_units(amount, a.decimals),
              asked    |-> _crypto_minor_units(amount, a.decimals)]

(* createOrder's transaction; a price the context cannot hold rolls it     *)
(* back.                                                                   *)
createOrder(request, a) ==
  LET items == Items(request, a)
  IN  /\ payment.status = "NONE"
      /\ \A i \in DOMAIN items : items[i].subtotal # NoAmount
      /\ _crypto_minor_units(_total_amount(items), a.decimals) # Raises
      /\ asset' = a
      /\ rows' = Upserted(request, items)
      /\ order' = [placed |-> request,
                   total  |-> _crypto_params(_total_amount(items)),
                   quoted |-> SumFunction(
                                [i \in DOMAIN request |->
                                   request[i].quantity
                                     * unit_price_usd(catalog, request[i].selection)])]
      /\ initiate_payment(_total_amount(items), a)
      /\ UNCHANGED <<catalog, paid, approval, refunded>>

(* A transaction that changes the order's status loads the order from its  *)
(* rows and saves it whole, total included.                                *)
save ==
  /\ rows # <<>>
  /\ order' = [order EXCEPT !.total = _crypto_params(_total_amount(rows))]
  /\ UNCHANGED <<catalog, asset, rows, payment, paid, approval, refunded>>

(* The customer signs a transfer of what is asked, or nearly so.           *)
submit_transaction_hash(v) ==
  /\ payment.status = "AWAITING_SIGNATURE"
  /\ v \in {0, payment.asked - 1, payment.asked, payment.asked + 1} \cap Nat
  /\ paid' = v
  /\ payment' = [payment EXCEPT !.status = "SUBMITTED"]
  /\ UNCHANGED <<catalog, asset, rows, order, approval, refunded>>

InsufficientIfZero == asset.token /\ paid = 0 \* mutant: any transfer is enough

(* Only a token's transfer is compared with what was expected; a native    *)
(* payment needs no more than a receipt that was not reverted.             *)
Insufficient == asset.token /\ paid < payment.expected

confirm_payment_receipt ==
  /\ payment.status = "SUBMITTED"
  /\ payment' = [payment EXCEPT !.status = IF Insufficient THEN "FAILED" ELSE "CONFIRMED"]
  /\ UNCHANGED <<catalog, asset, rows, order, paid, approval, refunded>>

request_store_approval ==
  /\ payment.status = "CONFIRMED"
  /\ approval = NoAmount
  /\ approval' = _crypto_params(ApprovalTotal)
  /\ UNCHANGED <<catalog, asset, rows, order, payment, paid, refunded>>

(* The refund is the payment's amount, in base units of the asset.         *)
refund_payment ==
  /\ payment.status = "CONFIRMED"
  /\ payment' = [payment EXCEPT !.status = "REFUNDED"]
  /\ refunded' = _crypto_minor_units(payment.amount, asset.decimals)
  /\ UNCHANGED <<catalog, asset, rows, order, paid, approval>>

AmountsNext ==
  \/ \E c \in Catalogs : updateProduct(c)
  \/ \E r \in Requests, a \in PaymentAssetRegistry : createOrder(r, a)
  \/ save
  \/ \E v \in {0, payment.asked - 1, payment.asked, payment.asked + 1} :
       submit_transaction_hash(v)
  \/ confirm_payment_receipt
  \/ request_store_approval
  \/ refund_payment

AmountsSpec == AmountsInit /\ [][AmountsNext]_vars

-----------------------------------------------------------------------------
(* Lines that differ in variant or options have rows of their own.         *)
DistinctLines ==
  \A i, j \in DOMAIN order.placed :
    order.placed[i].selection = order.placed[j].selection => i = j

(* Whatever the merchant does to the prices, and however often the order   *)
(* is saved again: what the customer is asked to sign, what the receipt is *)
(* compared with and what is refunded are one amount, and as long as it    *)
(* fits the decimal context it is also the order's total, the sum of its   *)
(* rows, the payment and what the store approves.  (Beyond the context a   *)
(* sum is rounded, and depends on the order in which the lines are added.) *)
AmountsAgree ==
  payment.status # "NONE" =>
    /\ payment.asked = payment.expected
    /\ payment.status = "REFUNDED" => refunded = payment.asked
    /\ DistinctLines /\ payment.asked < Ten[Precision] =>
         /\ Same(order.total, payment.amount)
         /\ Same(order.total, _total_amount(rows))
         /\ approval # NoAmount => Same(approval, order.total)
         /\ payment.asked = _crypto_minor_units(order.total, asset.decimals)

(* The customer is asked for what was quoted in dollars, up to half a      *)
(* minor unit for each unit ordered (and a tenth of that for rounding the  *)
(* quotient first), as long as the total fits the decimal context.         *)
FairPrice ==
  LET units == SumFunction([i \in DOMAIN order.placed |-> order.placed[i].quantity])
      off   == payment.asked * 100 * asset.rate - order.quoted * Ten[asset.decimals]
  IN  payment.status # "NONE" /\ payment.asked < Ten[Precision] =>
        /\ 20 * off <= 11 * 100 * asset.rate * units
        /\ -20 * off <= 11 * 100 * asset.rate * units

(* A confirmed token payment brought at least what the order's rows say.   *)
PaidInFull ==
  /\ payment.status \in {"CONFIRMED", "REFUNDED"}
  /\ asset.token
  /\ DistinctLines
  /\ payment.asked < Ten[Precision]
  => paid >= _crypto_minor_units(_total_amount(rows), asset.decimals)
=============================================================================
