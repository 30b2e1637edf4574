# token_payments in TLA+

This directory specifies the core of `token_payments`: a store's catalogue and
its members, the accounts that sign in, and the path of one order from its
placement over inventory, payment and store approval to its completion or
compensation, with the machinery underneath it (row locks, overwriting upserts,
outbox, Kafka). The specifications are written from the Python under
`src/app/token_payments`; paths below are relative to that directory unless they
start with `docs/` or `scripts/`.

Run a model with `tlc -workers 2 -config <cfg> <module>`, and a proof module
with `tlapm <module>.tla`. `PROJECT.json` maps every definition to the lines it
stands for, and lists runs, mutants, findings, hazards and theorems.

## 1. The system

The application is a set of bounded contexts in one code base. Two processes
run it (`src/docker-compose.yml`): an **API server**, which serves one request
after the other, and a **worker**, whose `WorkerRuntime.run_once` runs the outbox
relay, the Kafka consumer loops, receipt polling and signature timeouts one
after the other, in one thread, for ever. They share a PostgreSQL database
(READ COMMITTED, one connection per transaction) and exchange messages through
an outbox table and Kafka. A blockchain node answers for submitted
transactions. Races are therefore those of one request with one worker step.

| Component | State it keeps | Operations | Talks to |
| --- | --- | --- | --- |
| Inventory (`contexts/inventory`) | variant row, reservations, `processed_commands` | reserve, release, confirm, stock intake, correction, pause, resume | called by createOrder and the API; Kafka commands |
| Payment (`contexts/payment`) | payment row, authorization row | initiate, submit hash, receipt, expire, cancel, refund | API, Kafka commands, pollers, the chain |
| Outbox, relay, consumer loop (`shared/adapter`) | outbox rows, offsets, `processed_messages` | save, claim, publish, mark, poll, handle, commit | everything that sends or receives |
| Checkout process manager (`contexts/checkout`) | only `processed_messages` | one event in, its commands out | Kafka |
| Order (`contexts/order`) | order row, copies of store and product | create, cancel, project payment and approval | createOrder, operator, Kafka |
| Store approval (`contexts/store_approval`) | approval detail, copies of store and product | decide on a paid order | Kafka; reads order and payment |
| Order placement (`runtime/composition_impl.py`) | none | createOrder: order, reservations, payment in one transaction | order, inventory, payment |
| Operator actions (`api/operator_actions.py`) | audit rows | cancel order; retry and replay of messages (only recorded) | order |
| Worker runtime (`runtime/workers.py`) | none | the round over all workers | relay, consumers, pollers |
| Store catalog (`contexts/store_catalog`) | store, products, variants, memberships, idempotency records | provisioning, profile, registration and update of products | API; writes through to order, approval, inventory; membership events |
| Auth, sessions and RBAC (`contexts/auth`) | users, wallets, identities, challenges, sessions; group memberships and invitations | sign-up, sign-in, link, revoke, refresh, log out; invite, accept, remove | API; membership events |
| Read models (`contexts/query`) | none | the checkout tracking page, dashboards | order and payment rows |
| HTTP, configuration, smoke harness, frontend | none of the checkout's | translation | API |

What is hard in it, and what makes it correct:

* **Inventory.** Two processes change the same row. Several lines of an order
  reserve in one transaction, which must vanish as a whole when a line is
  refused. Release, confirm and reserve are redelivered in any order. Correct
  means: no unit lost or invented, the aggregate stays loadable, a reservation
  never goes back, events say what happened, a command id runs once, overlapping
  transactions are as good as one after another, nobody waits for the lock for
  ever.
* **Payment.** Rows are read without a lock and written back whole, from
  reads that may be old by then, with calls to the chain in between. Correct
  means: the rows stay loadable, a reported outcome is the chain's, one outcome
  per payment, payment and authorization agree, a payment ends.
* **Messaging.** Claim, publication and mark are three steps; handling and
  offset commit two more; the worker may stop between any of them. Correct
  means: at most one effect per message, no row called PUBLISHED that is not in
  the topic, and no message lost but where the code lets go of it.
* **Saga.** Messages of different topics overtake each other, are delivered
  again, or are passed over; an operator cancels in the middle. Correct means:
  goods only for money the store keeps, no order part sold and part taken back,
  compensation only and always for what failed.
* **Catalogue and orders.** Order and store approval read copies of the
  catalogue that a command may refresh or not; variants are switched off with
  stock in them; the order row is read and upserted whole by two processes.
  Correct means: what is shown can be ordered, stock accounts for orders, one
  open order per customer, a cancelled order stays cancelled, approval follows
  the catalogue.
* **Accounts.** Three kinds of sign-up make wallet rows, each with its own idea of
  chain and primary wallet; sessions outlive the wallets they were opened with.
  Correct means: one primary wallet per chain, no user without a wallet, no
  session on somebody else's.
* **Members.** A membership is kept in two contexts and changed by requests,
  invitations and events that arrive late. Correct means: the two rows agree, and
  nobody becomes a member uninvited.
* **Amounts.** A price is converted once and then copied, multiplied, stored,
  scaled and compared by six pieces of code, while the merchant changes it.
  Correct means: one amount from order to refund, a fair one, and paid in full.
* **Tracking.** A page is derived from two rows read at two moments, and reading
  them may fail. Correct means: neither a page nor an error lies about the outcome,
  pages do not go back, and a final order is shown in the end.

## 2. Modules

    Exchange  <----implements----  CheckoutSaga <--extends-- Tracking
                                      |  its payment steps, opened up
                                      |-- Payment      overlapping transactions
                                      |       '-- Amounts   what is paid
                                      |  its reservation steps, opened up
                                      |-- Inventory    row lock, many orders
                                      |       '--implements--> Stock
                                      |  its order row and decision, opened up
                                      |-- Orders --extends--> StoreCatalog
                                      |  its messages, opened up
                                      '-- Messaging    outbox, relay, consumer
                                              '--implements--> Mailbox

    Accounts, Members: who may send the requests

* `Stock` has the `ProductInventory` aggregate as operators
  (`reserve_inventory` with its condition `reserve_inventory_ok`, and so on) and
  says what the transactions promise together: each is `Run`, the fold of a whole
  batch over row, processed ids and events, one transaction after another
  (`StockSpec`).
* `Inventory` extends it with a transaction per process as steps: `Begin`, the look into
  `processed_commands` (`Duplicate`, `NotDuplicate`), `SELECT ... FOR UPDATE` with
  the change (`Accept`, `RejectOwnerCommand`, `RejectSagaCommand`), `Commit`,
  `Rollback`. That it implements `StockSpec`, with the same variables, is
  `TransactionsAreSerial`. The repository's load, change and save under the lock are one step,
  because no other transaction can see between them. `row` is the committed
  aggregate and `view` the uncommitted one. The operations do not repeat the
  constructor's validation: that it never fires is the property
  `InventoryLoadable`. `Deployment` names what a command's running only once
  takes of a deployment.
* `Payment` has one variable per row, what each process has read of it
  (`seen`, `seenAuth`, `answer`), and a step per statement that another process
  can come between: the look-up, two SELECTs, the call to the node, the write.
  The chain (`chain`, `Mine`) and time (`Tick`) are the environment. The history
  variable `overlap` says whether two transactions have ever overlapped. A customer's
  request first resolves its tracking id with the tracking query
  (`resolve_and_verify`), and is refused where that query fails (`Resolvable`).
* `Amounts` follows the numbers: `from_product` and `to_crypto` price a line with
  the decimal context's `Precision` digits, `_total_amount` adds up, the
  repository rounds to `Scale` digits, `_crypto_minor_units` scales for signature
  and comparison, and the refund sends it back. Amounts are integers in units of
  the last stored digit. `quoted` is a history variable.
* `Messaging` has the outbox rows, one partition (`topic`), the consumer's
  position and the committed offset. `poll` moves the position past everything it
  returns, so the `commit` after the first record commits the whole batch, as the
  Kafka client does.
* `Mailbox` is its abstract specification: `sent` messages, those the consumer
  is `past`, their `effects`. Messages come in any order, may be lost (`PassBy`)
  and may come again (`DeliverAgain`), but have at most one effect. The mapping
  `Mail` takes a message to be past when no copy of it lies behind `Offset`,
  which counts the record whose transaction was committed and whose offset
  was not. These are the freedoms that each of `CheckoutSaga`'s consumers has with
  its messages (`Delivered`, `Done`, `Skip`, `Redeliver`): the saga asks no more of
  a consumer's topic than `Messaging` keeps. That correspondence is by reading; the
  two modules are not composed.
* `CheckoutSaga` takes every transaction as one step and lets messages arrive
  in any order. `CommandsByEvent` is the process manager's table,
  `Decisions` its one-command-per-line expansion and payload inheritance,
  `Fresh`/`Duplicate`/`Reject` the listener's three answers, `Lose` a record the
  consumer loop passes after an error, `Redeliver` a restart from an old offset.
* `Tracking` adds to it a customer whose client polls: the two SELECTs of the
  tracking query (`poll` is what the first one read), the derived step, and the
  two errors a poll may be answered with instead (`Error`). An error leaves the
  customer with the page of the last answer that had one, as
  `src/frontend/components/PaymentComplete.jsx` does (`page`, `error`).
* `Exchange` is the abstract specification: money, verdict and goods, without
  any message. `CheckoutSaga!money`, `verdict` and `goods` are the refinement
  mapping of `Promise == INSTANCE Exchange WITH ...`; the run `saga` checks it
  and the theorem `Implements` proves it.
* `StoreCatalog` has the canonical rows of a store and its products, the copies
  in the order and approval contexts, and inventory rows. A request is a step,
  with its idempotency record (`_idempotent`); each leaves alone the copies the
  code leaves alone. `Shown`, `ShownAvailable` are the storefront.
* `Orders` extends it with createOrder, payment, operator cancellation, the
  order projector and the store's decision. Transactions that read and later
  write an order row are two steps (`tx` holds what was read); the others are one.
* `Accounts` has users, wallets, OAuth identities, challenges and sessions, a
  step per request; ids are drawn in order.
* `Members` has the two rows of every member, invitations and membership
  events, with a step per request and one per delivered event. `Elsewhere` are
  the tokens of other stores' groups, whose scopes count as well.
* `MC*` modules name the values of small instances; `*Proofs` modules hold
  the theorems.

## 3. Runs

| Run | Instance | Shows |
| --- | --- | --- |
| `inventory` | API + worker, two orders, one of two lines, every owner command, stock 3 | `InventoryLoadable`, `StockLedger`, `EventsMatchReservations`, `CommandExecutedOnce`, `ReservationsMoveForward`, `TransactionsAreSerial`, `TransactionsEnd` |
| `payment` | API + worker overlapping, two hashes, two keys | `PaymentLoadable`, `ReportedOutcomeIsOnChain`, `OneOutcome`, `AuthorizationAgrees`, `PaymentMovesForward`, `PaymentSettles` |
| `payment_refund` | one process | **violates** `RefundedOnce` |
| `messaging` | three rows, one malformed, batches of two, every fault | `EffectOnce`, `PublishedIsInTopic`, `ImplementsMailbox`, `EveryMessageIsAccountedFor` |
| `messaging_stuck` | one restart | **violates** `AtLeastOnce` |
| `saga` | two lines, operator, one message redelivered or lost | `GoodsOnlyForMoney`, `CompensationIsDeserved`, `OutcomeIsComplete`, `OrderMovesForward`, `ImplementsExchange` |
| `saga_rejection` | one line, no faults | **violates** `RejectionCompensated` |
| `tracking` | one line, operator, both kinds of rejection payload, a polling client | `PageIsTruthful`, `CompleteRejectionCompensated`, `StepsMoveForward`, `PagesRecover`, `ReservationsEnd` |
| `storefront` | one product, nine requests, two orders, operator | `OneOpenOrder`, `ShownIsOrderable`, `StockAccountsForOrders`, `OnlyOverlapRevives`, `ApprovalFollowsCatalog` |
| `accounts` | two users, three wallets, three sessions, two chains, one OAuth subject | `OnePrimary`, `KeepsAWallet`, `SessionWalletIsOwn` |
| `members` | owner and another user, two invitations, two events | `RolesAgree`, `MembershipsAreGiven` |
| `amounts` | one or two lines, four assets | `AmountsAgree`, `FairPrice`, `PaidInFull` |

The type invariants are proved (section 4).

### Bounds, and why they are enough

* *Inventory.* Stock 3 covers an order of 1 + 1, an order of 2 and a stock
  intake of 1, so a reservation can fail for lack of stock, a correction can hit
  the reserved quantity, and two orders compete for the last unit. Two processes
  are the deployment. Command ids are fixed, so repetition is unbounded: a batch
  may be begun any number of times.
* *Payment.* Two hashes let a second submission disagree with the first, when the
  first failed or when it has its receipt; in between, no request gets through
  (section 5). Two keys make a retry under the same key and under another. `MaxRefunds` = 2 is the
  smallest number at which a refund is repeated. `OneOutcome`,
  `AuthorizationAgrees` and `PaymentMovesForward` speak of the states before any
  two transactions overlapped: afterwards they are false (section 5).
* *Messaging.* Three messages and batches of two give a full batch and a
  rest, and a malformed record at each place in a batch. `MaxLog` bounds only
  failed publications that may have arrived; one restart (`MaxRestarts` = 1) and
  any number of other faults reach every pair of steps the code can be stopped
  between.
* *Saga.* Two lines are needed for an order that could be split, and one
  redelivery for a command executed twice. `OneFault` restricts the
  instance to one fault in all (redelivered or lost); the theorems cover
  any number of both, and any number of lines.
* *Tracking.* One line and no faults: the page shows no lines, and a poll may fall
  between any two steps. The theorems cover faults and lines.
* *Storefront.* Nine requests provision a store, suspend it, claim it under
  another owner, name assets, register, retitle, withdraw, reprice and strip the
  product; `MaxRequests` = 4 of them are executed, which is what it takes to seed
  an inventory row, replace variants and come back. Two orders of one customer
  compete for the one-open-order check. Order ids are interchangeable and the
  instance uses that symmetry.
* *Accounts.* The three chains of the code (verification, OAuth, fallback) are
  taken from two, so that two of the three sign-ups meet on one. Three wallet
  rows are a primary one, a second and one that is linked again after
  revocation; three sessions are two users' and one more. `MaxRotations` = 1.
* *Members.* Two events can be out of order, two invitations can compete for a
  user, and the other user owns another store (`Elsewhere`). Ids are
  interchangeable.
* *Amounts.* `Precision` is 4 and `Scale` 3 instead of 28 and 18, so a handful of
  prices (`Cents`, `Deltas`) overflow the context, round at its edge, and convert
  evenly; assets have as many decimals as are stored, fewer, or none. The
  theorems hold for any number of lines and any size of context and column.

### Fairness

* *Inventory* (`TransactionsEnd`): a transaction that was begun runs on (weak
  fairness), and PostgreSQL gives the row to every waiter some day
  (strong fairness of the locking steps). Nobody is obliged to send a command.
* *Payment* (`PaymentSettles`): time passes; processes finish what they
  began; the worker's polling and timeout rounds come again for ever, since
  `run_once` catches every exception, and do not fail at the same statement for
  ever (strong fairness per statement of an attempt). **One assumption is not the
  code's: a submitted hash is mined some day.** Without it a payment stays
  CONFIRMING, and nothing times it out.
* *Messaging* (`EveryMessageIsAccountedFor`): `run_once` alternates relay and
  consumers, so neither starves the other (weak fairness of both together); a
  claim, a poll and a publication do not fail for ever (strong fairness).
* *Saga and tracking* (`ReservationsEnd`, `PagesRecover`): the worker expires
  unsigned payments, polls receipts and polls its topics for ever, and the
  client goes on polling, errors or not, until the order is shown as final: the
  client of `docs/API_SPEC.md:1333`. The frontend's own page gives up after 20
  polls. Signing, cancelling and operator actions are never
  obliged to happen, and neither is a redelivery or a loss.

Deadlock is checked for Inventory and Payment, where a step is always
possible. It is not an error in the other instances: those of the messages stop
when everything has been delivered, the others when ids or requests are used up.

## 4. What is proved

For every value of the constants that satisfies the module's `ASSUME`:

| Module | Theorems (besides type correctness and the inductive invariant) |
| --- | --- |
| `InventoryProofs` | `AlwaysLoadable`, `StockConserved`, `EventsTruthful`, `ForwardOnly`, `ExecutedOnce`, `Serializable` |
| `PaymentProofs` | `AlwaysLoadable`, `ReportsTruthful`, `OutcomeIsOne`, `RowsAgree`, `MovesForward` |
| `MessagingProofs` | `AtMostOnce`, `PublishedTruthful`, `MarksFindTheirRow`, `DeliversLikeMail` |
| `CheckoutSagaProofs` | `FairToBoth`, `CompensatesFailures`, `OrderForward`, `Implements`, `OutcomesComplete`, `RejectionsCompensated`, `PagesTruthful`, `ShownStepsForward`; of `Exchange`: `Fair`, and so `SagaIsFair` |
| `OrdersProofs` | `OpenOrderIsOne`, `StockIsAccountedFor`, `ShownCanBeOrdered`, `OverlapOnly`, `ApprovalsFollow` |
| `AccountsProofs` | `PrimaryIsUnique`, `AWalletIsKept`, `SessionsNameTheirOwn` |
| `MembersProofs` | `RowsAgree`, `MembershipsGiven` |
| `AmountsProofs` | `AmountsAlwaysAgree`, `AlwaysFairPrice`, `AlwaysPaidInFull` |

Each module proves `Init => IInv`, `IInv /\ [Next]_vars => IInv'` and that `IInv`
implies the properties.

* *Inventory.* The properties speak of the committed row, but `Commit` writes
  what a transaction computed long before. `IInv` therefore says of the
  lock's holder (`HolderAhead`) that its view is sound, ahead of the row, and in
  balance with its own `delta`; of everybody else (`OthersHaveNothing`) that
  they have nothing to commit. It is the lock that makes this inductive. The
  lemmas about `Units` (finite, with a cardinality that changes by the quantity
  moved) carry the sum over reservations.

  `ExecutedOnce` needs more than the lock, for `processed_commands` is read
  before it is taken. It assumes `Deployment`: one API server, one worker, ids
  shared between the two only for an order's reservation, and all reserve
  commands of an order in one createOrder. `OnceInv` adds that a reservation
  becomes visible together with the records of every reserve command of its order
  (`Placed`); since the worker is commanded for an order only after that, two
  processes never hold the same unprocessed id (`NoRace`). With two API servers
  the property is false.

  `Serializable` (under the same assumption) is the refinement of `Stock`.
  `SerialInv` says of an open transaction that the commands it has run take the
  *committed* state, whatever that is by now, to what it would commit
  (`HasRun`). Before it holds the row, all it has run were duplicates, and
  these stay duplicates whatever others commit; from then on nobody else commits
  anything; and the command it is about to execute is still unprocessed, by
  `OnceInv`. What the fold over a batch does, step by step, is `AfterSteps`.
* *Payment.* No lock, so nothing relates `seen` to the row. `IInv` says
  only that whatever any process has read or been answered is well shaped and true
  of the chain (`SeenShape`, `AnswersTrue`), which is enough for the first two:
  any of these views may be written at any time without hurting shape or truth.
  The other three hold until transactions overlap, by the invariant `SerialInv`
  (`InitiatesById` and `~ overlap => Serial`): a process that runs alone writes
  over the very rows it read, and `Serial` relates the two rows to the events.
* *Messaging.* `EffectsMatch` ties the effect's counter to
  `processed_messages`, `PolledSaved` ties records in memory to saved rows, and
  `InTopic` ties the row being marked to the topic: the mark is a separate
  transaction, and this is what makes it truthful.

  `DeliversLikeMail` is the refinement of `Mailbox`. It needs one invariant more
  (`PolledNext`: what the loop holds are the records before its position, and it
  holds none while the relay runs), which makes the record being handled the one
  after `Offset`, hence of a message that is not past. A second publication takes
  its message out of `past` (`PassedAppend`); a poll, commit, error or restart only
  moves `Offset`, and a smaller offset has fewer messages past (`PassedLess`).
* *CheckoutSaga.* Messages outlive the state they were sent in, so `IInv` says
  what each of them proves (`Truthful`), that the store has decided once and on
  money that was there (`Decided`), and what a sold or freed line proves
  (`Ledger`). No step of the proof looks at the order of messages, which is why
  redelivery and loss may be unbounded. What is true *once everything is
  delivered* needs the other direction: `CInv` says that every outcome has been
  reported (`Reported`), that compensation carries what its receivers need, or
  what the rejection carried (`Carried`), and that a message a consumer is past
  has had its effect, unless it was malformed (`Settled`).
* *Tracking.* `PageInv`: the rows of a page, and the one a poll is holding, are
  behind the database's, each along its own state machine; which rows can be a
  page at all (`Coherent`); and what the last error says of the payment. What a page
  or an error claims is about statuses that are never left for ones that would
  contradict it.
* *Orders.* `TypeOK` alone is not inductive: confirming takes a unit from a total
  that is a natural number only because it accounts for every unit held
  (`StockInv`), which survives a replacement of variants because a seeded
  inventory row is never seeded again. `CatalogInv` says where the copies agree
  with the canonical rows, and `TxInv` that a transaction that has read an order
  row holds one that exists; writing it back never makes it PENDING.
* *Accounts.* `OnePrimary` rests on the home address: whoever has a wallet row has
  one with it, so the fallback row, primary without a look at the others, is only
  made for a user without rows. `WalletRows`, `References` and `ChallengeType` say
  that, and that sessions and identities name their own user's wallets.
* *Members.* An event on its way might undo what was decided since. It never is
  applied, because the row it is about was written, with version 1, by the
  request that recorded the event (`EventsAreBehind`).

* *Amounts.* `Placed` keeps, from createOrder on, that total, payment, approval and
  every row are whole numbers of the asset's minor units (`IsAmount`), and that
  total, approval and the sum of the rows are near what is asked: equal, or both
  beyond the decimal context (`NearAsked`). Whole minor units are what survives
  being stored, read and added up again (`StoredAmount`, `TotalAmount`), and a
  price converted with `Precision` digits and then rounded to a minor unit is within
  11/20 of a unit of the exact quotient (`ConvertedPrice`). Beyond the context
  a sum is rounded, and depends on the order in which the lines are added: rows
  and payment may then differ, and this is why the properties speak of
  `payment.asked < Ten[Precision]`.

What a recursive definition computes is proved by induction over *sets*: the
library's induction theorems take an operator, which the provers cannot
instantiate, but a set of naturals with 0 and every successor is `Nat`
(`NatSetInduction`), and likewise for the subsets of a finite set
(`FiniteSetInduction`). This gives the powers of ten, the folds that add up an
order and the fold over a batch their defining equations.

Every safety property of the runs that pass is a theorem. Only model-checked is
what needs fairness (`TransactionsEnd`, `PaymentSettles`,
`EveryMessageIsAccountedFor`, `ReservationsEnd`, `PagesRecover`), because the
prover has no ENABLED.

## 5. Where the code differs from what is said about it

Three runs end in a counterexample; `PROJECT.json` quotes the sentences.

1. `saga_rejection`: the rejection event carries neither `paymentId` nor
   `reason`, the process manager copies its payload, and the refund and the
   cancellation of a refused order are skipped as malformed.
   `CompleteRejectionCompensated` shows that nothing else in the saga stands in the
   way: a rejection that carries both is compensated.
2. `payment_refund`: the refund goes to the chain before anything is
   recorded, and again when the command is redelivered.
3. `messaging_stuck`: rows claimed by a worker that stopped are never
   claimed again.

Seen while modelling, without a run of its own:

* *Payment.* A submission that has read AWAITING_SIGNATURE overwrites an EXPIRED
  that was committed meanwhile, though the aggregate and its tests take an ended
  payment to be terminal (`scripts/test_payment_domain_model.py:148`).
  This is why three properties stop at the first overlap. The amount of a native
  transfer is not compared with the one asked for; a token's is.
* *Inventory.* Of two lines of one variant in an order only the first reserves
  (the process manager's adapter adds their quantities up,
  `scripts/test_checkout_core_public_contracts.py:232`, but its command finds the
  reservation made). A paused
  variant is reserved like any other (`docs/API_SPEC.md:108` says a pause changes
  new-order availability).
* *Orders.* Two lines with the same product, variant and options have one
  `order_item_id` and overwrite each other's row, while the payment asks for
  both; the rows, the approval and a total recomputed on the next save see the
  last. Suspending assets or chains of a store does not reach the order
  context's copy (`docs/API_SPEC.md:76`). A product without an active variant is
  shown with the stock of those switched off, which no order can take:
  `ShownIsOrderable` excludes it. `OrderApproved` projected before
  `PaymentConfirmed` is refused and passed over, so the order stays PAID
  (`contexts/order/application/service.py:459`, against
  `docs/ARCHITECTURE.md:80`). An order that an operator cancels while the
  projector holds the row it read comes back as PAID; one cancelled after
  payment keeps the customer's money unless the store refuses it.
* *Messaging.* `shared/adapter/kafka/listener.py:110` says transient errors
  propagate "so they can retry"; the position has moved, and the next commit
  passes over the record and the rest of its batch. The commit after the first
  record of a batch already covers the others, so a restart in mid-batch has the
  same effect. Operator retry and replay write a command no consumer reads.
* *Tracking.* A payment row with a hash and no receipt cannot be read by the
  tracking query: `contexts/order/adapter/postgres.py:910` raises ValueError where
  the payment context's own adapter makes an exception
  (`contexts/payment/adapter/postgres.py:771`). Every poll between submission and
  receipt is therefore answered with 400 (the model's "VALIDATION_ERROR"), and
  RECEIPT_PENDING, which `docs/API_SPEC.md:1307` lists and
  `scripts/test_checkout_tracking_payment_api.py:162` expects of a fake query, is
  only ever the answer to the submission itself. The row of a payment that failed
  after submission stays like that: its polls fail for ever, PAYMENT_FAILED is
  never shown, and the final status `docs/API_SPEC.md:1333` has the client wait for
  never comes. `PagesRecover` excludes exactly this case. The same query resolves
  the tracking id of a submission or cancellation, so a submission that is sent
  again before the receipt, under the same `Idempotency-Key` or not, is refused
  with 400 before any duplicate is recognised (`docs/API_SPEC.md:226`).

  The page of a CANCELLED payment whose order is still open raises KeyError, and
  `api/checkout.py:35` catches only ValueError (the model's "SERVER_ERROR"). This
  one ends when the order is cancelled, which `PagesRecover` checks.
* *Accounts.* `refreshSession` goes on with a session whose wallet was revoked
  (`docs/API_SPEC.md:748`). Completing an OAuth sign-in with an unknown subject
  links it to the user whose home is the provider's address, or registers a new
  user, where `docs/API_SPEC.md:521` asks for a link made by a signed-in user.
* *Members.* The permission checks are given the store and do not look at it
  (`contexts/auth/application/merchant_membership.py:317`): the scopes of a token of
  another store's group do, where `docs/API_SPEC.md:163` speaks of the scoped
  merchant group. An admin's membership event always has version 1, so the projection
  never applies one after the request's own write, and a replay could not rebuild
  the projection from them (`docs/API_SPEC.md:39`). An invitation that
  names only a user is read back with that user's home address as its target
  wallet (COALESCE in `SELECT_GROUP_INVITATION_SQL`, against
  `docs/API_SPEC.md:162`), and is accepted only while that address is one of
  their active wallets. An invitation that was pending when its member was
  removed brings them back.

## 6. Assumptions and what is left out

* One API process and one worker process. In `CheckoutSaga` a payment's
  transactions do not overlap: the outcomes of an overlap that `Payment` shows do
  not reach the saga, and neither do the order's (`Orders` has them).
* A payload is reduced to which of the fields its receiver requires it carries;
  a hash on the chain to the verdict on it; signatures to the wallet they prove.
  `Amounts` keeps exchange rates whole and does without gas.
* Nothing is said of a total beyond the decimal context (10 ** 28 minor units)
  but that signature, receipt and refund are of one amount.

Not modelled, and why:

* Inventory: `decrease_stock` (no handler calls it), audit rows, and the locks of
  a transaction on the rows of several variants, which would need a model of
  PostgreSQL's deadlock detection.
* Order placement: the choice of the payer's wallet. Catalogue: asset files,
  filters and paging. Auth: profiles, cryptography and token encoding, and
  `switchSession`, which raises AttributeError on its error path and otherwise is
  a refresh.
* The consumer loop's fallback that iterates the consumer when `poll` raised: it
  changes no state, but may block the thread.
* Operator dashboards list rows as they are.
* HTTP translation, cookies and headers, configuration, schema migration, the
  smoke harness and the frontend hold no state of the checkout.
