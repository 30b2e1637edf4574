---------------------------- MODULE OrdersProofs ----------------------------
(***************************************************************************)
(* Proofs about StoreCatalog and Orders, for every set of requests and any *)
(* number of products, variants, orders and customers.                     *)
(*                                                                         *)
(* TypeOK is not inductive: confirming a reservation takes a unit from the *)
(* total, which is a natural number only because the total accounts for    *)
(* every unit an order holds; and that survives a replacement of variants  *)
(* because an inventory row, once seeded, is never seeded again.           *)
(***************************************************************************)
EXTENDS Orders, FiniteSetTheorems, TLAPS

(* The catalogue's rows and their copies.                                  *)
CatalogType ==
  /\ store \in StoreProfile
  /\ orderStore \in OrderStore
  /\ approvalStore \in BOOLEAN
  /\ product \in [Products -> StoreProduct]
  /\ orderProduct \in [Products -> OrderProduct]
  /\ approvalProduct \in [Products -> ApprovalProduct]
  /\ variants \in [Products -> [Variants -> ProductVariant]]
  /\ paused \in [Products -> SUBSET Variants]
  /\ recorded \subseteq Requests

(* The copies other contexts read say what the canonical rows say, but for *)
(* the store's chains and assets: no order of commands leaves one behind.  *)
CopiesFollowCatalog ==
  /\ orderStore.active = store.active
  /\ approvalStore = store.active
  /\ \A p \in Products :
       /\ orderProduct[p] = [title |-> product[p].title,
                             price |-> product[p].price]
       /\ approvalProduct[p] = [title |-> product[p].title,
                                available |-> product[p].status # "INACTIVE"]

NoRowIsInactive ==
  \A p \in Products : product[p].title = None => product[p].status = "INACTIVE"

CatalogInv == CatalogType /\ CopiesFollowCatalog /\ NoRowIsInactive

(* Stock, and the orders that hold it.                                     *)
SeededFirst ==
  \A p \in Products, v \in Variants :
    ~ stock[p][v].seeded => stock[p][v].available = 0

OrdersAreOfRows ==
  \A o \in Orders :
    /\ orders[o].status # "NONE" =>
         /\ orders[o].product \in Products /\ orders[o].variant \in Variants
         /\ stock[orders[o].product][orders[o].variant].seeded
    /\ held[o] # "NONE" => orders[o].status # "NONE"

StockInv ==
  /\ stock \in [Products -> [Variants -> InventoryRow]]
  /\ orders \in [Orders -> Order]
  /\ held \in [Orders -> Held]
  /\ SeededFirst
  /\ OrdersAreOfRows
  /\ StockAccountsForOrders

(* Transactions.                                                           *)
TxInv ==
  /\ tx \in [Processes -> Transaction]
  /\ \A w \in Processes : tx[w].message # None =>
       /\ tx[w].order \in Orders /\ tx[w].seen # "NONE"
       /\ orders[tx[w].order].status # "NONE"

OtherType ==
  /\ payment \in [Orders -> PaymentStatus]
  /\ approval \in [Orders -> ApprovalStatus]
  /\ processed \subseteq Orders \X Messages

IInv == CatalogInv /\ StockInv /\ TxInv /\ OtherType /\ OneOpenOrder

-----------------------------------------------------------------------------
LEMMA CommandFields ==
  ASSUME NEW r \in Requests
  PROVE  /\ r.owner \in Users /\ r.active \in BOOLEAN
         /\ r.chains \in SUBSET Chains /\ r.assets \in SUBSET Chains
         /\ r.product \in Products /\ r.title \in Titles /\ r.title # None
         /\ r.price \in Prices /\ r.status \in ProductStatus
         /\ r.config \in {"keep", "default", "replace"}
         /\ r.variants \in [Variants -> VariantInput] /\ r.units \in Nat
  <1>1. r \in Command
    BY CatalogConstants
  <1>2. None \notin Titles
    BY CatalogConstants
  <1> QED BY <1>1, <1>2 DEF Command, ProductStatus

LEMMA ExecutesType ==
  ASSUME NEW r \in Requests, Executes(r), recorded \subseteq Requests
  PROVE  recorded' \subseteq Requests
  BY DEF Executes

LEMMA createStoreStep ==
  ASSUME CatalogInv, NEW r \in Requests, createStore(r)
  PROVE  CatalogInv' /\ UNCHANGED stock
  <1>1. /\ store' = [owner |-> r.owner, active |-> r.active, chains |-> r.chains,
                     assets |-> {}]
        /\ orderStore' = [active |-> r.active, chains |-> r.chains]
        /\ approvalStore' = r.active /\ Executes(r)
        /\ UNCHANGED <<product, orderProduct, approvalProduct, variants, stock, paused>>
    BY DEF createStore
  <1>2. CatalogType'
    BY <1>1, CommandFields, ExecutesType
       DEF CatalogInv, CatalogType, StoreProfile, OrderStore
  <1>3. CopiesFollowCatalog' /\ NoRowIsInactive'
    BY <1>1 DEF CatalogInv, CopiesFollowCatalog, NoRowIsInactive
  <1> QED BY <1>1, <1>2, <1>3 DEF CatalogInv

LEMMA updateStoreProfileStep ==
  ASSUME CatalogInv, NEW r \in Requests, updateStoreProfile(r)
  PROVE  CatalogInv' /\ UNCHANGED stock
  <1>1. /\ store' = [store EXCEPT !.chains = r.chains, !.assets = r.assets]
        /\ Executes(r)
        /\ UNCHANGED <<orderStore, approvalStore, product, orderProduct,
                       approvalProduct, variants, stock, paused>>
    BY DEF updateStoreProfile
  <1>2. store' \in StoreProfile /\ store'.active = store.active
    BY <1>1, CommandFields DEF CatalogInv, CatalogType, StoreProfile
  <1>3. CatalogType'
    BY <1>1, <1>2, ExecutesType DEF CatalogInv, CatalogType
  <1>4. CopiesFollowCatalog' /\ NoRowIsInactive'
    BY <1>1, <1>2 DEF CatalogInv, CopiesFollowCatalog, NoRowIsInactive
  <1> QED BY <1>1, <1>3, <1>4 DEF CatalogInv

(* The three rows of a product are written together.                       *)
LEMMA SaveProductStep ==
  ASSUME CatalogInv, NEW r \in Requests, SaveProduct(r), Executes(r),
         UNCHANGED <<store, orderStore, approvalStore, paused>>,
         variants' \in [Products -> [Variants -> ProductVariant]]
  PROVE  CatalogInv'
  <1> DEFINE p == r.product
  <1>1. p \in Products
    BY CommandFields
  <1>2. /\ product'[p] = [title |-> r.title, price |-> r.price, status |-> r.status]
        /\ orderProduct'[p] = [title |-> r.title, price |-> r.price]
        /\ approvalProduct'[p] = [title |-> r.title, available |-> r.status # "INACTIVE"]
        /\ \A q \in Products \ {p} : /\ product'[q] = product[q]
                                     /\ orderProduct'[q] = orderProduct[q]
                                     /\ approvalProduct'[q] = approvalProduct[q]
    BY <1>1 DEF SaveProduct, CatalogInv, CatalogType
  <1>3. product' \in [Products -> StoreProduct]
    BY <1>1, CommandFields DEF SaveProduct, CatalogInv, CatalogType, StoreProduct
  <1>4. orderProduct' \in [Products -> OrderProduct]
    BY <1>1, CommandFields DEF SaveProduct, CatalogInv, CatalogType, OrderProduct
  <1>5. approvalProduct' \in [Products -> ApprovalProduct]
    <2>1. [title |-> r.title, available |-> r.status # "INACTIVE"] \in ApprovalProduct
      BY CommandFields DEF ApprovalProduct
    <2> QED BY <1>1, <2>1 DEF SaveProduct, CatalogInv, CatalogType
  <1>6. CatalogType'
    BY <1>3, <1>4, <1>5, ExecutesType DEF CatalogInv, CatalogType
  <1>7. CopiesFollowCatalog'
    <2> SUFFICES ASSUME NEW q \in Products
                 PROVE  /\ orderProduct'[q] = [title |-> product'[q].title,
                                               price |-> product'[q].price]
                        /\ approvalProduct'[q] =
                             [title |-> product'[q].title,
                              available |-> product'[q].status # "INACTIVE"]
      BY DEF CatalogInv, CopiesFollowCatalog
    <2>1. CASE q = p
      BY <1>2, <2>1
    <2>2. CASE q # p
      BY <1>2, <2>2 DEF CatalogInv, CopiesFollowCatalog
    <2> QED BY <2>1, <2>2
  <1>8. NoRowIsInactive'
    BY <1>2, CommandFields DEF CatalogInv, NoRowIsInactive
  <1> QED BY <1>6, <1>7, <1>8 DEF CatalogInv

-----------------------------------------------------------------------------
(* A command seeds rows that are not there, and leaves the others alone.   *)
SeedsOnly ==
  /\ stock' \in [Products -> [Variants -> InventoryRow]]
  /\ \A p \in Products, v \in Variants :
       \/ stock'[p][v] = stock[p][v]
       \/ /\ ~ stock[p][v].seeded
          /\ stock'[p][v].seeded
          /\ stock'[p][v].total = stock'[p][v].available

LEMMA SeedStep ==
  ASSUME stock \in [Products -> [Variants -> InventoryRow]], NEW q \in Products,
         NEW V, NEW n \in Nat, stock' = [stock EXCEPT ![q] = Seed(@, V, n)]
  PROVE  SeedsOnly
  <1>1. \A v \in Variants :
          \/ Seed(stock[q], V, n)[v] = stock[q][v]
          \/ /\ ~ stock[q][v].seeded
             /\ Seed(stock[q], V, n)[v] = [seeded |-> TRUE, available |-> n, total |-> n]
    BY DEF Seed
  <1>2. Seed(stock[q], V, n) = [v \in Variants |-> Seed(stock[q], V, n)[v]]
    BY DEF Seed
  <1>3. [seeded |-> TRUE, available |-> n, total |-> n] \in InventoryRow
    BY DEF InventoryRow
  <1>4. Seed(stock[q], V, n) \in [Variants -> InventoryRow]
    BY <1>1, <1>2, <1>3
  <1>5. stock' \in [Products -> [Variants -> InventoryRow]]
    BY <1>4
  <1>6. /\ stock'[q] = Seed(stock[q], V, n)
        /\ \A p \in Products \ {q} : stock'[p] = stock[p]
    OBVIOUS
  <1> QED BY <1>1, <1>5, <1>6 DEF SeedsOnly

LEMMA SaveProductConfigurationStep ==
  ASSUME CatalogType, stock \in [Products -> [Variants -> InventoryRow]],
         NEW r \in Requests, NEW n \in Nat, SaveProductConfiguration(r, n)
  PROVE  variants' \in [Products -> [Variants -> ProductVariant]] /\ SeedsOnly
  <1>1. r.product \in Products /\ r.units \in Nat /\ r.variants \in [Variants -> VariantInput]
    BY CommandFields
  <1>2. CASE r.config = "keep"
    <2>1. UNCHANGED <<variants, stock>>
      BY <1>2 DEF SaveProductConfiguration
    <2> QED BY <2>1 DEF CatalogType, SeedsOnly
  <1>3. CASE r.config = "default"
    <2>1. /\ variants' = [variants EXCEPT ![r.product][Default] =
                            IF @ = "NONE" THEN "SALEABLE" ELSE @]
          /\ stock' = [stock EXCEPT ![r.product] = Seed(@, {Default}, n)]
      BY <1>3 DEF SaveProductConfiguration
    <2>2. variants' \in [Products -> [Variants -> ProductVariant]]
      BY <1>1, <2>1, CatalogConstants DEF CatalogType, ProductVariant
    <2> QED BY <1>1, <2>1, <2>2, SeedStep
  <1>4. CASE r.config = "replace"
    <2>1. /\ variants' = [variants EXCEPT ![r.product] =
                            replace_product_variants(@, r.variants)]
          /\ stock' = [stock EXCEPT ![r.product] = Seed(@, Listed(r), r.units)]
      BY <1>4 DEF SaveProductConfiguration
    <2>2. replace_product_variants(variants[r.product], r.variants)
            \in [Variants -> ProductVariant]
      BY <1>1 DEF replace_product_variants, VariantInput, ProductVariant
    <2>3. variants' \in [Products -> [Variants -> ProductVariant]]
      BY <1>1, <2>1, <2>2 DEF CatalogType
    <2> QED BY <1>1, <2>1, <2>3, SeedStep
  <1> QED BY <1>2, <1>3, <1>4, CommandFields

LEMMA registerProductStep ==
  ASSUME CatalogInv, stock \in [Products -> [Variants -> InventoryRow]],
         NEW r \in Requests, registerProduct(r)
  PROVE  CatalogInv' /\ SeedsOnly
  <1>1. /\ SaveProduct(r) /\ SaveProductConfiguration(r, r.units) /\ Executes(r)
        /\ UNCHANGED <<store, orderStore, approvalStore, paused>>
    BY DEF registerProduct
  <1>2. r.units \in Nat
    BY CommandFields
  <1>3. variants' \in [Products -> [Variants -> ProductVariant]] /\ SeedsOnly
    BY <1>1, <1>2, SaveProductConfigurationStep DEF CatalogInv
  <1> QED BY <1>1, <1>3, SaveProductStep

LEMMA updateProductStep ==
  ASSUME CatalogInv, stock \in [Products -> [Variants -> InventoryRow]],
         NEW r \in Requests, updateProduct(r)
  PROVE  CatalogInv' /\ SeedsOnly
  <1>1. /\ SaveProduct(r) /\ SaveProductConfiguration(r, 0) /\ Executes(r)
        /\ UNCHANGED <<store, orderStore, approvalStore, paused>>
    BY DEF updateProduct
  <1>2. variants' \in [Products -> [Variants -> ProductVariant]] /\ SeedsOnly
    BY <1>1, SaveProductConfigurationStep DEF CatalogInv
  <1> QED BY <1>1, <1>2, SaveProductStep

LEMMA SalesStep ==
  ASSUME CatalogInv, NEW p \in Products, NEW v \in Variants,
         pause_sales(p, v) \/ resume_sales(p, v)
  PROVE  CatalogInv' /\ UNCHANGED stock
  <1>1. /\ paused' \in [Products -> SUBSET Variants]
        /\ UNCHANGED <<store, orderStore, approvalStore, product, orderProduct,
                       approvalProduct, variants, stock, recorded>>
    BY DEF pause_sales, resume_sales, CatalogInv, CatalogType
  <1> QED BY <1>1 DEF CatalogInv, CatalogType, CopiesFollowCatalog, NoRowIsInactive

LEMMA CatalogStep ==
  ASSUME CatalogInv, stock \in [Products -> [Variants -> InventoryRow]], CatalogNext
  PROVE  CatalogInv' /\ SeedsOnly
  <1>1. UNCHANGED stock => SeedsOnly
    BY DEF SeedsOnly
  <1> QED BY <1>1, createStoreStep, updateStoreProfileStep, registerProductStep,
             updateProductStep, SalesStep DEF CatalogNext

-----------------------------------------------------------------------------
(* Stock.                                                                  *)
LEMMA HoldersFinite ==
  ASSUME NEW p, NEW v
  PROVE  /\ IsFiniteSet(Holders(p, v))
         /\ Cardinality(Holders(p, v)) \in Nat
  <1>1. IsFiniteSet(Orders)
    BY OrdersConstants
  <1>2. Holders(p, v) \subseteq Orders
    BY DEF Holders
  <1> QED BY <1>1, <1>2, FS_Subset, FS_CardinalityType

(* A row that is not seeded is held by nobody.                             *)
LEMMA UnseededUnheld ==
  ASSUME StockInv, NEW p \in Products, NEW v \in Variants, ~ stock[p][v].seeded
  PROVE  Holders(p, v) = {} /\ Cardinality(Holders(p, v)) = 0
  <1>1. Holders(p, v) = {}
    BY DEF StockInv, OrdersAreOfRows, Holders
  <1> QED BY <1>1, FS_EmptySet

LEMMA SeedingKeepsStock ==
  ASSUME StockInv, SeedsOnly, UNCHANGED <<orders, held>>
  PROVE  StockInv'
  <1>1. \A p \in Products, v \in Variants : Holders(p, v)' = Holders(p, v)
    BY DEF Holders
  <1>2. StockAccountsForOrders'
    <2> SUFFICES ASSUME NEW p \in Products, NEW v \in Variants
                 PROVE  stock'[p][v].total =
                          stock'[p][v].available + Cardinality(Holders(p, v)')
      BY DEF StockAccountsForOrders
    <2>1. CASE stock'[p][v] = stock[p][v]
      BY <1>1, <2>1 DEF StockInv, StockAccountsForOrders
    <2>2. CASE /\ ~ stock[p][v].seeded
               /\ stock'[p][v].total = stock'[p][v].available
      <3>1. Cardinality(Holders(p, v)') = 0
        BY <1>1, <2>2, UnseededUnheld
      <3>2. stock'[p][v].available \in Nat
        BY DEF SeedsOnly, InventoryRow
      <3> QED BY <2>2, <3>1, <3>2
    <2> QED BY <2>1, <2>2 DEF SeedsOnly
  <1>3. OrdersAreOfRows'
    BY DEF StockInv, OrdersAreOfRows, SeedsOnly
  <1>4. SeededFirst'
    BY DEF StockInv, SeededFirst, SeedsOnly
  <1> QED BY <1>2, <1>3, <1>4 DEF StockInv, SeedsOnly

(* One row of the stock changes.                                           *)
LEMMA StockRow ==
  ASSUME stock \in [Products -> [Variants -> InventoryRow]], NEW p \in Products,
         NEW v \in Variants, NEW row \in InventoryRow,
         stock' = [stock EXCEPT ![p][v] = row]
  PROVE  /\ stock' \in [Products -> [Variants -> InventoryRow]]
         /\ stock'[p][v] = row
         /\ \A q \in Products, u \in Variants :
              q # p \/ u # v => stock'[q][u] = stock[q][u]
  OBVIOUS

LEMMA createOrderStep ==
  ASSUME IInv, NEW o \in Orders, NEW customer \in Customers, NEW p \in Products,
         NEW v \in Variants \cup {None}, NEW c \in Chains,
         createOrder(o, customer, p, v, c)
  PROVE  IInv'
  <1>1. PICK x \in Variants : x = ReservedVariant(v)
    BY CatalogConstants DEF ReservedVariant
  <1>2. /\ orders[o].status = "NONE" /\ ~ OpenOrderExists(customer)
        /\ stock[p][x].seeded /\ stock[p][x].available > 0
        /\ stock' = [stock EXCEPT ![p][x].available = @ - 1]
        /\ payment' = [payment EXCEPT ![o] = "OPEN"]
        /\ held' = [held EXCEPT ![o] = "PENDING"]
        /\ UNCHANGED <<catalog, paused, recorded, approval, processed, tx>>
    BY <1>1 DEF createOrder, CanPlace, initialize_order_ok, Reservable
  <1>3. PICK row \in Order :
          /\ row = [status |-> "PENDING", customer |-> customer, product |-> p,
                    variant |-> x, title |-> orderProduct[p].title,
                    price |-> orderProduct[p].price, chain |-> c]
          /\ orders' = [orders EXCEPT ![o] = row]
    <2>1. orderProduct[p].title \in Titles \cup {None} /\ orderProduct[p].price \in Prices \cup {None}
      BY DEF IInv, CatalogInv, CatalogType, OrderProduct
    <2>2. [status |-> "PENDING", customer |-> customer, product |-> p, variant |-> x,
           title |-> orderProduct[p].title, price |-> orderProduct[p].price,
           chain |-> c] \in Order
      BY <2>1 DEF Order, OrderStatus
    <2> QED BY <1>1, <2>2 DEF createOrder
  <1>4. /\ row.status = "PENDING" /\ row.customer = customer
        /\ row.product = p /\ row.variant = x
    BY <1>3
  <1>5. /\ orders' \in [Orders -> Order] /\ orders'[o] = row
        /\ \A n \in Orders \ {o} : orders'[n] = orders[n]
    BY <1>3 DEF IInv, StockInv
  <1>6. /\ held' \in [Orders -> Held] /\ held'[o] = "PENDING"
        /\ \A n \in Orders \ {o} : held'[n] = held[n]
    BY <1>2 DEF IInv, StockInv, Held
  <1>7. PICK new \in InventoryRow :
          /\ new = [stock[p][x] EXCEPT !.available = @ - 1]
          /\ stock' = [stock EXCEPT ![p][x] = new]
    <2>1. stock[p][x] \in InventoryRow
      BY DEF IInv, StockInv
    <2>2. [stock[p][x] EXCEPT !.available = @ - 1] \in InventoryRow
      BY <1>2, <2>1 DEF InventoryRow
    <2> QED BY <1>2, <2>2 DEF IInv, StockInv
  <1>8. /\ new.seeded /\ new.total = stock[p][x].total
        /\ new.available = stock[p][x].available - 1
    <2>1. stock[p][x] \in InventoryRow
      BY DEF IInv, StockInv
    <2> QED BY <1>2, <1>7, <2>1 DEF InventoryRow
  <1>9. /\ stock' \in [Products -> [Variants -> InventoryRow]]
        /\ stock'[p][x] = new
        /\ \A q \in Products, u \in Variants :
             q # p \/ u # x => stock'[q][u] = stock[q][u]
    <2>1. stock \in [Products -> [Variants -> InventoryRow]]
      BY DEF IInv, StockInv
    <2> QED BY ONLY <1>7, <2>1, StockRow
  <1>10. held[o] = "NONE"
    BY <1>2 DEF IInv, StockInv, OrdersAreOfRows
  <1>11. StockAccountsForOrders'
    <2> SUFFICES ASSUME NEW q \in Products, NEW u \in Variants
                 PROVE  stock'[q][u].total =
                          stock'[q][u].available + Cardinality(Holders(q, u)')
      BY DEF StockAccountsForOrders
    <2>1. stock[q][u] \in InventoryRow /\ stock[q][u].total =
            stock[q][u].available + Cardinality(Holders(q, u))
      BY DEF IInv, StockInv, StockAccountsForOrders
    <2>2. IsFiniteSet(Holders(q, u)) /\ Cardinality(Holders(q, u)) \in Nat
      BY HoldersFinite
    <2>3. CASE q = p /\ u = x
      <3>1. Holders(q, u)' = Holders(q, u) \cup {o} /\ o \notin Holders(q, u)
        BY <1>4, <1>5, <1>6, <1>10, <2>3 DEF Holders
      <3>2. Cardinality(Holders(q, u)') = Cardinality(Holders(q, u)) + 1
        BY <2>2, <3>1, FS_AddElement
      <3>3. stock[q][u].available \in Nat
        BY <2>1 DEF InventoryRow
      <3>4. /\ stock'[q][u].total = stock[q][u].total
            /\ stock'[q][u].available = stock[q][u].available - 1
        BY <1>8, <1>9, <2>3
      <3> QED BY ONLY <2>1, <2>2, <3>2, <3>3, <3>4
    <2>4. CASE ~ (q = p /\ u = x)
      <3>1. Holders(q, u)' = Holders(q, u)
        BY <1>4, <1>5, <1>6, <1>10, <2>4 DEF Holders
      <3>2. stock'[q][u] = stock[q][u]
        BY <1>9, <2>4
      <3> QED BY <2>1, <3>1, <3>2
    <2> QED BY <2>3, <2>4
  <1>12. OrdersAreOfRows'
    <2>1. \A q \in Products, u \in Variants : stock[q][u].seeded => stock'[q][u].seeded
      BY <1>8, <1>9
    <2> QED BY <1>4, <1>5, <1>6, <1>8, <1>9, <2>1 DEF IInv, StockInv, OrdersAreOfRows
  <1>13. SeededFirst'
    BY <1>8, <1>9 DEF IInv, StockInv, SeededFirst
  <1>14. StockInv'
    BY <1>5, <1>6, <1>9, <1>11, <1>12, <1>13 DEF StockInv
  <1>15. OneOpenOrder'
    BY <1>2, <1>4, <1>5 DEF IInv, OneOpenOrder, OpenOrderExists
  <1>16. TxInv'
    BY <1>2, <1>4, <1>5 DEF IInv, TxInv
  <1>17. OtherType'
    BY <1>2 DEF IInv, OtherType, PaymentStatus
  <1>18. CatalogInv'
    BY <1>2 DEF catalog, IInv, CatalogInv, CatalogType, CopiesFollowCatalog, NoRowIsInactive
  <1> QED BY <1>14, <1>15, <1>16, <1>17, <1>18 DEF IInv

(* An order that holds a unit lets go of it, in one of two ways.           *)
LEMMA HolderFacts ==
  ASSUME StockInv, NEW o \in Orders, held[o] = "PENDING"
  PROVE  \E p \in Products, x \in Variants :
           /\ p = orders[o].product /\ x = orders[o].variant
           /\ stock[p][x] \in InventoryRow /\ stock[p][x].seeded
           /\ stock[p][x].available \in Nat
           /\ stock[p][x].total \in Nat
           /\ stock[p][x].total > stock[p][x].available
  <1>1. PICK p \in Products, x \in Variants :
          /\ p = orders[o].product /\ x = orders[o].variant /\ stock[p][x].seeded
    BY DEF StockInv, OrdersAreOfRows
  <1>2. /\ stock[p][x] \in InventoryRow /\ stock[p][x].available \in Nat
        /\ stock[p][x].total \in Nat
    BY DEF StockInv, InventoryRow
  <1>3. o \in Holders(p, x)
    BY <1>1 DEF Holders
  <1>4. Cardinality(Holders(p, x)) \in Nat /\ Cardinality(Holders(p, x)) # 0
    BY <1>3, HoldersFinite, FS_EmptySet
  <1>5. stock[p][x].total = stock[p][x].available + Cardinality(Holders(p, x))
    BY DEF StockInv, StockAccountsForOrders
  <1>6. stock[p][x].total > stock[p][x].available
    BY ONLY <1>2, <1>4, <1>5
  <1> QED BY <1>1, <1>2, <1>6

OneHolderLess(row, old) ==
  row.total - row.available = old.total - old.available - 1

LEMMA LetGo ==
  ASSUME StockInv, NEW o \in Orders, held[o] = "PENDING", NEW p \in Products,
         NEW x \in Variants, p = orders[o].product, x = orders[o].variant,
         NEW row \in InventoryRow, row.seeded,
         OneHolderLess(row, stock[p][x]),
         NEW h \in {"CANCELLED", "CONFIRMED"},
         held' = [held EXCEPT ![o] = h],
         stock' = [stock EXCEPT ![p][x] = row], UNCHANGED orders
  PROVE  StockInv'
  <1>1. /\ held' \in [Orders -> Held] /\ held'[o] = h
        /\ \A n \in Orders \ {o} : held'[n] = held[n]
    BY DEF StockInv, Held
  <1>2. /\ stock' \in [Products -> [Variants -> InventoryRow]]
        /\ stock'[p][x] = row
        /\ \A q \in Products, u \in Variants :
             q # p \/ u # x => stock'[q][u] = stock[q][u]
    <2>1. stock \in [Products -> [Variants -> InventoryRow]]
      BY DEF StockInv
    <2> QED BY <2>1, StockRow
  <1>3. StockAccountsForOrders'
    <2> SUFFICES ASSUME NEW q \in Products, NEW u \in Variants
                 PROVE  stock'[q][u].total =
                          stock'[q][u].available + Cardinality(Holders(q, u)')
      BY DEF StockAccountsForOrders
    <2>1. stock[q][u] \in InventoryRow /\ stock[q][u].total =
            stock[q][u].available + Cardinality(Holders(q, u))
      BY DEF StockInv, StockAccountsForOrders
    <2>2. IsFiniteSet(Holders(q, u)) /\ Cardinality(Holders(q, u)) \in Nat
      BY HoldersFinite
    <2>3. CASE q = p /\ u = x
      <3>1. Holders(q, u)' = Holders(q, u) \ {o} /\ o \in Holders(q, u)
        BY <1>1, <2>3 DEF Holders
      <3>2. Cardinality(Holders(q, u)') = Cardinality(Holders(q, u)) - 1
        BY <2>2, <3>1, FS_RemoveElement
      <3>3. /\ stock[q][u].available \in Nat /\ stock[q][u].total \in Nat
            /\ row.available \in Nat /\ row.total \in Nat
        BY <2>1 DEF InventoryRow
      <3>4. row.total - row.available = stock[q][u].total - stock[q][u].available - 1
        BY <2>3 DEF OneHolderLess
      <3>5. row.total = row.available + Cardinality(Holders(q, u)')
        BY ONLY <2>1, <2>2, <3>2, <3>3, <3>4
      <3> QED BY <1>2, <2>3, <3>5
    <2>4. CASE ~ (q = p /\ u = x)
      <3>1. Holders(q, u)' = Holders(q, u)
        BY <1>1, <2>4 DEF Holders
      <3>2. stock'[q][u] = stock[q][u]
        BY <1>2, <2>4
      <3> QED BY <2>1, <3>1, <3>2
    <2> QED BY <2>3, <2>4
  <1>4. OrdersAreOfRows'
    <2>1. \A q \in Products, u \in Variants : stock[q][u].seeded => stock'[q][u].seeded
      BY <1>2
    <2>2. orders[o].status # "NONE"
      BY DEF StockInv, OrdersAreOfRows
    <2> QED BY <1>1, <2>1, <2>2 DEF StockInv, OrdersAreOfRows
  <1>5. SeededFirst'
    BY <1>2 DEF StockInv, SeededFirst
  <1> QED BY <1>1, <1>2, <1>3, <1>4, <1>5 DEF StockInv

(* What a step leaves alone stays as it was.                               *)
LEMMA CatalogKept ==
  ASSUME CatalogInv, UNCHANGED <<catalog, paused, recorded>>
  PROVE  CatalogInv'
  BY DEF catalog, CatalogInv, CatalogType, CopiesFollowCatalog, NoRowIsInactive

LEMMA OrdersKept ==
  ASSUME TxInv, OneOpenOrder, UNCHANGED <<orders, tx>>
  PROVE  TxInv' /\ OneOpenOrder'
  BY DEF TxInv, OneOpenOrder

LEMMA OtherKept ==
  ASSUME OtherType, UNCHANGED <<payment, approval, processed>>
  PROVE  OtherType'
  BY DEF OtherType

LEMMA StockKept ==
  ASSUME StockInv, UNCHANGED <<stock, orders, held>>
  PROVE  StockInv'
  BY DEF StockInv, SeededFirst, OrdersAreOfRows, StockAccountsForOrders, Holders

LEMMA release_inventoryStep ==
  ASSUME IInv, NEW o \in Orders, release_inventory(o)
  PROVE  IInv'
  <1>1. /\ held[o] = "PENDING" /\ held' = [held EXCEPT ![o] = "CANCELLED"]
        /\ stock' = [stock EXCEPT ![orders[o].product][orders[o].variant].available = @ + 1]
        /\ UNCHANGED <<catalog, paused, recorded, orders, payment, approval, processed, tx>>
    BY DEF release_inventory
  <1>2. PICK p \in Products, x \in Variants :
          /\ p = orders[o].product /\ x = orders[o].variant
          /\ stock[p][x] \in InventoryRow /\ stock[p][x].seeded
          /\ stock[p][x].available \in Nat /\ stock[p][x].total \in Nat
    BY <1>1, HolderFacts DEF IInv
  <1>3. PICK row \in InventoryRow : row = [stock[p][x] EXCEPT !.available = @ + 1]
    <2>1. [stock[p][x] EXCEPT !.available = @ + 1] \in InventoryRow
      BY <1>2 DEF InventoryRow
    <2> QED BY <2>1
  <1>4. stock' = [stock EXCEPT ![p][x] = row]
    <2>1. stock' = [stock EXCEPT ![p][x].available = @ + 1]
      BY ONLY <1>1, <1>2
    <2>2. stock \in [Products -> [Variants -> InventoryRow]]
      BY DEF IInv, StockInv
    <2> QED BY ONLY <1>3, <2>1, <2>2
  <1>5. /\ row.seeded /\ row.total = stock[p][x].total
        /\ row.available = stock[p][x].available + 1
    BY <1>2, <1>3 DEF InventoryRow
  <1>6. OneHolderLess(row, stock[p][x])
    BY ONLY <1>2, <1>5 DEF OneHolderLess
  <1>7. StockInv'
    <2>1. StockInv
      BY DEF IInv
    <2>2. PICK h \in {"CANCELLED", "CONFIRMED"} : h = "CANCELLED"
      OBVIOUS
    <2>3. held[o] = "PENDING" /\ held' = [held EXCEPT ![o] = h] /\ UNCHANGED orders
      BY <1>1, <2>2
    <2>4. p = orders[o].product /\ x = orders[o].variant /\ row.seeded
      BY <1>2, <1>5
    <2> QED BY ONLY <1>4, <1>6, <2>1, <2>3, <2>4, LetGo
  <1>8. CatalogInv' /\ TxInv' /\ OneOpenOrder' /\ OtherType'
    BY <1>1, CatalogKept, OrdersKept, OtherKept DEF IInv
  <1> QED BY <1>7, <1>8 DEF IInv

LEMMA confirm_inventoryStep ==
  ASSUME IInv, NEW o \in Orders, confirm_inventory(o)
  PROVE  IInv'
  <1>1. /\ held[o] = "PENDING" /\ held' = [held EXCEPT ![o] = "CONFIRMED"]
        /\ stock' = [stock EXCEPT ![orders[o].product][orders[o].variant].total = @ - 1]
        /\ UNCHANGED <<catalog, paused, recorded, orders, payment, approval, processed, tx>>
    BY DEF confirm_inventory
  <1>2. PICK p \in Products, x \in Variants :
          /\ p = orders[o].product /\ x = orders[o].variant
          /\ stock[p][x] \in InventoryRow /\ stock[p][x].seeded
          /\ stock[p][x].available \in Nat /\ stock[p][x].total \in Nat
          /\ stock[p][x].total > stock[p][x].available
    BY <1>1, HolderFacts DEF IInv
  <1>3. PICK row \in InventoryRow : row = [stock[p][x] EXCEPT !.total = @ - 1]
    <2>1. [stock[p][x] EXCEPT !.total = @ - 1] \in InventoryRow
      BY <1>2 DEF InventoryRow
    <2> QED BY <2>1
  <1>4. stock' = [stock EXCEPT ![p][x] = row]
    <2>1. stock' = [stock EXCEPT ![p][x].total = @ - 1]
      BY ONLY <1>1, <1>2
    <2>2. stock \in [Products -> [Variants -> InventoryRow]]
      BY DEF IInv, StockInv
    <2> QED BY ONLY <1>3, <2>1, <2>2
  <1>5. /\ row.seeded /\ row.total = stock[p][x].total - 1
        /\ row.available = stock[p][x].available
    BY <1>2, <1>3 DEF InventoryRow
  <1>6. OneHolderLess(row, stock[p][x])
    BY ONLY <1>2, <1>5 DEF OneHolderLess
  <1>7. StockInv'
    <2>1. StockInv
      BY DEF IInv
    <2>2. PICK h \in {"CANCELLED", "CONFIRMED"} : h = "CONFIRMED"
      OBVIOUS
    <2>3. held[o] = "PENDING" /\ held' = [held EXCEPT ![o] = h] /\ UNCHANGED orders
      BY <1>1, <2>2
    <2>4. p = orders[o].product /\ x = orders[o].variant /\ row.seeded
      BY <1>2, <1>5
    <2> QED BY ONLY <1>4, <1>6, <2>1, <2>3, <2>4, LetGo
  <1>8. CatalogInv' /\ TxInv' /\ OneOpenOrder' /\ OtherType'
    BY <1>1, CatalogKept, OrdersKept, OtherKept DEF IInv
  <1> QED BY <1>7, <1>8 DEF IInv

-----------------------------------------------------------------------------
LEMMA settle_paymentStep ==
  ASSUME IInv, NEW o \in Orders, NEW s \in {"CONFIRMED", "CLOSED"},
         settle_payment(o, s)
  PROVE  IInv'
  <1>1. /\ payment' = [payment EXCEPT ![o] = s]
        /\ UNCHANGED <<catalog, stock, paused, recorded, orders, approval, held,
                       processed, tx>>
    BY DEF settle_payment, catalogVars, catalog
  <1>2. OtherType'
    BY <1>1 DEF IInv, OtherType, PaymentStatus
  <1>3. CatalogInv' /\ StockInv' /\ TxInv' /\ OneOpenOrder'
    BY <1>1, CatalogKept, StockKept, OrdersKept DEF IInv
  <1> QED BY <1>2, <1>3 DEF IInv

LEMMA request_store_approvalStep ==
  ASSUME IInv, NEW o \in Orders, request_store_approval(o)
  PROVE  IInv'
  <1>1. PICK a \in {"APPROVED", "REJECTED"} :
        /\ approval' = [approval EXCEPT ![o] = a]
        /\ UNCHANGED <<catalog, stock, paused, recorded, orders, payment, held,
                       processed, tx>>
    BY DEF request_store_approval, catalogVars, catalog
  <1>2. OtherType'
    BY <1>1 DEF IInv, OtherType, ApprovalStatus
  <1>3. CatalogInv' /\ StockInv' /\ TxInv' /\ OneOpenOrder'
    BY <1>1, CatalogKept, StockKept, OrdersKept DEF IInv
  <1> QED BY <1>2, <1>3 DEF IInv

LEMMA BeginStep ==
  ASSUME IInv, NEW w \in Processes, NEW o \in Orders, NEW m \in Messages,
         Begin(w, o, m)
  PROVE  IInv'
  <1>1. /\ tx' = [tx EXCEPT ![w] = [order |-> o, message |-> m,
                                    seen |-> orders[o].status]]
        /\ orders[o].status # "NONE"
        /\ UNCHANGED <<catalog, stock, paused, recorded, orders, payment,
                       approval, held, processed>>
    BY DEF Begin, catalogVars, catalog
  <1>2. PICK t \in Transaction :
          t = [order |-> o, message |-> m, seen |-> orders[o].status]
    <2>1. orders[o].status \in OrderStatus
      BY DEF IInv, StockInv, Order
    <2> QED BY <2>1 DEF Transaction
  <1>3. /\ tx' \in [Processes -> Transaction] /\ tx'[w] = t
        /\ \A x \in Processes \ {w} : tx'[x] = tx[x]
    BY <1>1, <1>2 DEF IInv, TxInv
  <1>4. t.order = o /\ t.seen = orders[o].status
    BY <1>2
  <1>5. TxInv'
    BY <1>1, <1>3, <1>4 DEF IInv, TxInv
  <1>6. CatalogInv' /\ StockInv' /\ OtherType'
    BY <1>1, CatalogKept, StockKept, OtherKept DEF IInv
  <1>7. OneOpenOrder'
    BY <1>1 DEF IInv, OneOpenOrder
  <1> QED BY <1>5, <1>6, <1>7 DEF IInv

(* A handler neither opens an order again nor takes its row away.          *)
LEMMA HandledStatus ==
  ASSUME NEW m \in Messages, NEW seen \in OrderStatus, NEW s \in Handled(m, seen)
  PROVE  s \in OrderStatus \ {"NONE", "PENDING"}
  BY DEF Handled, Messages, OrderStatus

LEMMA IdleTransaction == Idle \in Transaction /\ Idle.message = None
  BY DEF Idle, Transaction, OrderStatus

LEMMA CommitWrites ==
  ASSUME IInv, NEW w \in Processes, Commit(w)
  PROVE  \E o \in Orders, m \in Messages, s \in OrderStatus \ {"NONE", "PENDING"} :
           /\ o = tx[w].order /\ m = tx[w].message
           /\ s \in Handled(m, tx[w].seen)
           /\ orders' = IF s = tx[w].seen THEN orders
                        ELSE [orders EXCEPT ![o].status = s]
           /\ processed' = processed \cup {<<o, m>>}
           /\ tx' = [tx EXCEPT ![w] = Idle]
           /\ UNCHANGED <<catalog, stock, paused, recorded, payment, approval, held>>
  <1>1. /\ tx[w].message # None /\ tx[w] \in Transaction /\ tx[w].order \in Orders
    BY DEF Commit, IInv, TxInv
  <1>2. tx[w].message \in Messages /\ tx[w].seen \in OrderStatus
    BY <1>1 DEF Transaction
  <1>3. PICK s \in Handled(tx[w].message, tx[w].seen) :
          orders' = IF s = tx[w].seen THEN orders
                    ELSE [orders EXCEPT ![tx[w].order].status = s]
    BY DEF Commit
  <1>4. PICK m \in Messages : m = tx[w].message
    BY <1>2
  <1>5. s \in OrderStatus \ {"NONE", "PENDING"}
    BY <1>2, <1>3, HandledStatus
  <1>6. /\ processed' = processed \cup {<<tx[w].order, tx[w].message>>}
        /\ tx' = [tx EXCEPT ![w] = Idle]
        /\ UNCHANGED <<catalog, stock, paused, recorded, payment, approval, held>>
    BY DEF Commit, catalogVars, catalog
  <1> QED BY <1>1, <1>3, <1>4, <1>5, <1>6

LEMMA CommitStep ==
  ASSUME IInv, NEW w \in Processes, Commit(w)
  PROVE  IInv'
  <1>1. PICK o \in Orders, m \in Messages, s \in OrderStatus \ {"NONE", "PENDING"} :
           /\ orders' = IF s = tx[w].seen THEN orders
                        ELSE [orders EXCEPT ![o].status = s]
           /\ processed' = processed \cup {<<o, m>>}
           /\ tx' = [tx EXCEPT ![w] = Idle]
           /\ o = tx[w].order /\ tx[w].message # None
           /\ UNCHANGED <<catalog, stock, paused, recorded, payment, approval, held>>
    <2>1. tx[w].message # None
      BY DEF Commit
    <2> QED BY <2>1, CommitWrites
  <1>2. orders \in [Orders -> Order] /\ orders[o].status # "NONE"
    BY <1>1 DEF IInv, StockInv, TxInv
  <1>3. /\ orders' \in [Orders -> Order]
        /\ \A n \in Orders :
             /\ orders'[n].customer = orders[n].customer
             /\ orders'[n].product = orders[n].product
             /\ orders'[n].variant = orders[n].variant
             /\ orders'[n].status = "NONE" <=> orders[n].status = "NONE"
             /\ orders'[n].status = "PENDING" => orders[n].status = "PENDING"
    <2>1. CASE orders' = orders
      BY <1>2, <2>1
    <2>2. CASE orders' = [orders EXCEPT ![o].status = s]
      BY <1>2, <2>2 DEF Order
    <2> QED BY <1>1, <2>1, <2>2
  <1>4. StockInv'
    <2>1. \A p \in Products, v \in Variants : Holders(p, v)' = Holders(p, v)
      BY <1>1, <1>3 DEF Holders
    <2>2. StockAccountsForOrders'
      BY <1>1, <2>1 DEF IInv, StockInv, StockAccountsForOrders
    <2>3. OrdersAreOfRows'
      BY <1>1, <1>3 DEF IInv, StockInv, OrdersAreOfRows
    <2> QED BY <1>1, <1>3, <2>2, <2>3 DEF IInv, StockInv, SeededFirst
  <1>5. TxInv'
    <2>1. /\ tx' \in [Processes -> Transaction] /\ tx'[w].message = None
          /\ \A x \in Processes \ {w} : tx'[x] = tx[x]
      BY <1>1, IdleTransaction DEF IInv, TxInv
    <2> QED BY <1>3, <2>1 DEF IInv, TxInv
  <1>6. OneOpenOrder'
    BY <1>3 DEF IInv, OneOpenOrder
  <1>7. OtherType'
    BY <1>1 DEF IInv, OtherType
  <1>8. CatalogInv'
    BY <1>1, CatalogKept DEF IInv
  <1> QED BY <1>4, <1>5, <1>6, <1>7, <1>8 DEF IInv

LEMMA RollbackStep ==
  ASSUME IInv, NEW w \in Processes, Rollback(w)
  PROVE  IInv'
  <1>1. /\ tx' = [tx EXCEPT ![w] = Idle]
        /\ UNCHANGED <<catalog, stock, paused, recorded, orders, payment,
                       approval, held, processed>>
    BY DEF Rollback, catalogVars, catalog
  <1>2. TxInv'
    <2>1. /\ tx' \in [Processes -> Transaction] /\ tx'[w].message = None
          /\ \A x \in Processes \ {w} : tx'[x] = tx[x]
      BY <1>1, IdleTransaction DEF IInv, TxInv
    <2> QED BY <1>1, <2>1 DEF IInv, TxInv
  <1>3. OneOpenOrder'
    BY <1>1 DEF IInv, OneOpenOrder
  <1>4. CatalogInv' /\ StockInv' /\ OtherType'
    BY <1>1, CatalogKept, StockKept, OtherKept DEF IInv
  <1> QED BY <1>2, <1>3, <1>4 DEF IInv

-----------------------------------------------------------------------------
LEMMA InitIInv ==
  ASSUME Init PROVE IInv
  <1> USE DEF Init, CatalogInit
  <1>1. CatalogInv
    <2>1. store \in StoreProfile /\ orderStore \in OrderStore /\ approvalStore \in BOOLEAN
      BY DEF NoStore, StoreProfile, OrderStore
    <2>2. /\ product \in [Products -> StoreProduct]
          /\ orderProduct \in [Products -> OrderProduct]
          /\ approvalProduct \in [Products -> ApprovalProduct]
      BY DEF NoProduct, StoreProduct, ProductStatus, OrderProduct, ApprovalProduct
    <2>3. /\ variants \in [Products -> [Variants -> ProductVariant]]
          /\ paused \in [Products -> SUBSET Variants] /\ recorded \subseteq Requests
      BY DEF ProductVariant
    <2>4. CopiesFollowCatalog /\ NoRowIsInactive
      BY DEF NoStore, NoProduct, CopiesFollowCatalog, NoRowIsInactive
    <2> QED BY <2>1, <2>2, <2>3, <2>4 DEF CatalogInv, CatalogType
  <1>2. StockInv
    <2>1. /\ stock \in [Products -> [Variants -> InventoryRow]]
          /\ \A p \in Products, v \in Variants :
               stock[p][v].available = 0 /\ stock[p][v].total = 0
      BY DEF NoInventory, InventoryRow
    <2>2. orders \in [Orders -> Order] /\ \A o \in Orders : orders[o].status = "NONE"
      BY DEF NoOrder, Order, OrderStatus
    <2>3. held \in [Orders -> Held] /\ \A o \in Orders : held[o] = "NONE"
      BY DEF Held
    <2>4. \A p \in Products, v \in Variants : Cardinality(Holders(p, v)) = 0
      BY <2>3, FS_EmptySet DEF Holders
    <2>5. StockAccountsForOrders
      BY <2>1, <2>4 DEF StockAccountsForOrders
    <2> QED BY <2>1, <2>2, <2>3, <2>5 DEF StockInv, SeededFirst, OrdersAreOfRows
  <1>3. TxInv
    <2>1. tx \in [Processes -> Transaction] /\ \A w \in Processes : tx[w].message = None
      BY IdleTransaction
    <2> QED BY <2>1 DEF TxInv
  <1>4. OtherType
    BY DEF OtherType, PaymentStatus, ApprovalStatus
  <1>5. OneOpenOrder
    BY DEF OneOpenOrder, NoOrder
  <1> QED BY <1>1, <1>2, <1>3, <1>4, <1>5 DEF IInv

LEMMA CatalogCommandStep ==
  ASSUME IInv, CatalogNext, UNCHANGED orderVars
  PROVE  IInv'
  <1>1. UNCHANGED <<orders, payment, approval, held, processed, tx>>
    BY DEF orderVars
  <1>2. CatalogInv' /\ SeedsOnly
    BY CatalogStep DEF IInv, StockInv
  <1>3. StockInv'
    BY <1>1, <1>2, SeedingKeepsStock DEF IInv
  <1>4. TxInv' /\ OneOpenOrder' /\ OtherType'
    BY <1>1, OrdersKept, OtherKept DEF IInv
  <1> QED BY <1>2, <1>3, <1>4 DEF IInv

LEMMA StutterStep ==
  ASSUME IInv, UNCHANGED vars
  PROVE  IInv'
  <1>1. UNCHANGED <<catalog, paused, recorded, stock, orders, payment, approval,
                    held, processed, tx>>
    BY DEF vars, catalog
  <1> QED BY <1>1, CatalogKept, StockKept, OrdersKept, OtherKept DEF IInv

LEMMA NextIInv ==
  ASSUME IInv, [Next]_vars
  PROVE  IInv'
  <1>1. CASE ApiStep
    BY <1>1, CatalogCommandStep, createOrderStep DEF ApiStep
  <1>2. CASE WorkerStep
    BY <1>2, request_store_approvalStep, release_inventoryStep,
       confirm_inventoryStep DEF WorkerStep
  <1>3. CASE \E o \in Orders, s \in {"CONFIRMED", "CLOSED"} : settle_payment(o, s)
    BY <1>3, settle_paymentStep
  <1>4. CASE \E w \in Processes, o \in Orders, m \in Messages : Begin(w, o, m)
    BY <1>4, BeginStep
  <1>5. CASE \E w \in Processes : Commit(w) \/ Rollback(w)
    BY <1>5, CommitStep, RollbackStep
  <1>6. CASE UNCHANGED vars
    BY <1>6, StutterStep
  <1> QED BY <1>1, <1>2, <1>3, <1>4, <1>5, <1>6 DEF Next

(* The inductive invariant: the copies follow the canonical rows, every    *)
(* unit of stock is accounted for, and a transaction is of an order there  *)
(* is, whatever commands, orders and transactions interleave.              *)
THEOREM OrdersInvariant == Spec => []IInv
  <1>1. Init => IInv
    BY InitIInv
  <1>2. IInv /\ [Next]_vars => IInv'
    BY NextIInv
  <1> QED BY <1>1, <1>2, PTL DEF Spec

(* Every row has its columns; the total of an inventory row never becomes  *)
(* negative when a reservation is confirmed.                               *)
THEOREM TypeCorrect == Spec => []TypeOK
  <1>1. IInv => TypeOK
    BY DEF IInv, CatalogInv, CatalogType, StockInv, TxInv, OtherType, TypeOK
  <1> QED BY <1>1, OrdersInvariant, PTL

(* A customer never has two orders awaiting payment, although              *)
(* open_order_exists is checked without a lock.                            *)
THEOREM OpenOrderIsOne == Spec => []OneOpenOrder
  <1>1. IInv => OneOpenOrder
    BY DEF IInv
  <1> QED BY <1>1, OrdersInvariant, PTL

(* Stock is accounted for, however products are registered, reconfigured   *)
(* and ordered.                                                            *)
THEOREM StockIsAccountedFor == Spec => []StockAccountsForOrders
  <1>1. IInv => StockAccountsForOrders
    BY DEF IInv, StockInv
  <1> QED BY <1>1, OrdersInvariant, PTL

(* What the storefront shows with stock, the order context will take.      *)
THEOREM ShownCanBeOrdered == Spec => []ShownIsOrderable
  <1>1. IInv => ShownIsOrderable
    <2> SUFFICES ASSUME IInv, NEW p \in Products, NEW c \in PaymentCapability,
                        Shown(p), Active(p) # {}, ShownAvailable(p),
                        orderStore.active, c \in orderStore.chains
                 PROVE  \E v \in Variants \cup {None} : initialize_order_ok(p, v, c)
      BY DEF ShownIsOrderable
    <2>1. PICK v \in Variants : v \in Saleable(p) /\ stock[p][v].available > 0
      BY DEF ShownAvailable, VariantAvailable, Active
    <2>2. v # None
      BY CatalogConstants
    <2>3. VariantForSelection(p, v) /\ ReservedVariant(v) = v
      BY <2>1, <2>2 DEF VariantForSelection, ReservedVariant
    <2>4. stock[p][v].seeded
      BY <2>1 DEF IInv, StockInv, SeededFirst
    <2>5. Reservable(p, v)
      BY <2>1, <2>3, <2>4 DEF Reservable
    <2>6. orderProduct[p].title # None
      <3>1. product[p].title # None
        BY DEF Shown, IInv, CatalogInv, NoRowIsInactive
      <3>2. orderProduct[p] = [title |-> product[p].title, price |-> product[p].price]
        BY DEF IInv, CatalogInv, CopiesFollowCatalog
      <3> QED BY <3>1, <3>2
    <2> QED BY <2>3, <2>5, <2>6 DEF initialize_order_ok
  <1> QED BY <1>1, OrdersInvariant, PTL

(* No handler that sees the order cancelled brings it back.                *)
LEMMA HandledCancelled ==
  ASSUME NEW m \in Messages, NEW s \in Handled(m, "CANCELLED")
  PROVE  s = "CANCELLED"
  BY DEF Handled, Messages

(* Only a transaction that overlaps a cancellation can bring the cancelled *)
(* order back.                                                             *)
THEOREM OverlapOnly == Spec => OnlyOverlapRevives
  <1> DEFINE Revival(o) ==
        orders[o].status = "CANCELLED" /\ orders'[o].status # "CANCELLED"
      ByOverlap(o) == \E w \in Processes :
        tx[w].order = o /\ tx[w].seen # "CANCELLED" /\ tx'[w] = Idle
  <1>1. IInv /\ [Next]_vars => \A o \in Orders : Revival(o) => ByOverlap(o)
    <2> SUFFICES ASSUME IInv, [Next]_vars, NEW o \in Orders, Revival(o)
                 PROVE  ByOverlap(o)
      OBVIOUS
    <2>1. orders' # orders
      OBVIOUS
    <2>2. CASE \E w \in Processes : Commit(w)
      <3>1. PICK w \in Processes : Commit(w)
        BY <2>2
      <3>2. PICK n \in Orders, m \in Messages, s \in OrderStatus :
           /\ n = tx[w].order /\ m = tx[w].message
           /\ s \in Handled(m, tx[w].seen)
           /\ orders' = IF s = tx[w].seen THEN orders
                        ELSE [orders EXCEPT ![n].status = s]
           /\ tx' = [tx EXCEPT ![w] = Idle]
        BY <3>1, CommitWrites
      <3>3. orders' = [orders EXCEPT ![n].status = s] /\ s # tx[w].seen
        BY <2>1, <3>2
      <3>4. n = o
        BY <3>3 DEF IInv, StockInv
      <3>5. tx[w].seen # "CANCELLED"
        BY <3>2, <3>3, HandledCancelled
      <3>6. tx'[w] = Idle
        BY <3>2 DEF IInv, TxInv
      <3> QED BY <3>2, <3>4, <3>5, <3>6
    <2>3. CASE \E n \in Orders, customer \in Customers, p \in Products,
                  v \in Variants \cup {None}, c \in Chains :
                 createOrder(n, customer, p, v, c)
      <3>1. PICK n \in Orders, customer \in Customers, p \in Products,
                 v \in Variants \cup {None}, c \in Chains :
                 createOrder(n, customer, p, v, c)
        BY <2>3
      <3>2. orders[n].status = "NONE" /\ \A q \in Orders \ {n} : orders'[q] = orders[q]
        BY <3>1 DEF createOrder, CanPlace, IInv, StockInv
      <3> QED BY <3>2
    <2>4. CASE UNCHANGED orders
      BY <2>1, <2>4
    <2> QED BY <2>2, <2>3, <2>4
      DEF Next, vars, ApiStep, WorkerStep, orderVars, request_store_approval,
          release_inventory, confirm_inventory, settle_payment, Begin, Rollback
  <1>2. IInv /\ [Next]_vars =>
          [\A o \in Orders :
             orders[o].status = "CANCELLED" /\ orders'[o].status # "CANCELLED"
             => \E w \in Processes :
                  /\ tx[w].order = o /\ tx[w].seen # "CANCELLED"
                  /\ tx'[w] = Idle]_vars
    BY <1>1
  <1> QED BY <1>2, OrdersInvariant, PTL DEF Spec, OnlyOverlapRevives

(* The store approves by its own copies, and still never approves what its *)
(* catalogue does not have.                                                *)
THEOREM ApprovalsFollow == Spec => ApprovalFollowsCatalog
  <1> DEFINE Approval(o) == approval[o] # "APPROVED" /\ approval'[o] = "APPROVED"
      InCatalog(o) == /\ store.active
                      /\ product[orders[o].product].status # "INACTIVE"
                      /\ product[orders[o].product].title = orders[o].title
  <1>1. IInv /\ [Next]_vars => \A o \in Orders : Approval(o) => InCatalog(o)
    <2> SUFFICES ASSUME IInv, [Next]_vars, NEW o \in Orders, Approval(o)
                 PROVE  InCatalog(o)
      OBVIOUS
    <2>1. PICK n \in Orders : request_store_approval(n)
      BY DEF Next, vars, ApiStep, WorkerStep, orderVars, createOrder,
         release_inventory, confirm_inventory, settle_payment, Begin, Commit, Rollback
    <2>2. n = o /\ validate_order(o)
      <3>1. approval' = [approval EXCEPT ![n] =
                           IF validate_order(n) THEN "APPROVED" ELSE "REJECTED"]
        BY <2>1 DEF request_store_approval
      <3>2. n = o
        BY <3>1 DEF IInv, OtherType
      <3>3. approval'[o] = IF validate_order(o) THEN "APPROVED" ELSE "REJECTED"
        BY <3>1, <3>2 DEF IInv, OtherType
      <3> QED BY <3>2, <3>3
    <2>3. PICK p \in Products : p = orders[o].product
      <3>1. orders[o].status # "NONE"
        BY <2>2 DEF validate_order, ReadAsPaid
      <3> QED BY <3>1 DEF IInv, StockInv, OrdersAreOfRows
    <2>4. /\ approvalProduct[p].available /\ approvalProduct[p].title = orders[o].title
          /\ approvalStore
      BY <2>2, <2>3 DEF validate_order
    <2>5. /\ approvalStore = store.active
          /\ approvalProduct[p] = [title |-> product[p].title,
                                   available |-> product[p].status # "INACTIVE"]
      BY DEF IInv, CatalogInv, CopiesFollowCatalog
    <2>6. /\ approvalProduct[p].available = (product[p].status # "INACTIVE")
          /\ approvalProduct[p].title = product[p].title
      BY ONLY <2>5
    <2>7. product[p].status # "INACTIVE" /\ product[p].title = orders[o].title
      BY ONLY <2>4, <2>6
    <2> QED BY <2>3, <2>4, <2>5, <2>7
  <1>2. IInv /\ [Next]_vars
          => [\A o \in Orders : Approval(o) => InCatalog(o)]_vars
    BY <1>1
  <1> HIDE DEF Approval, InCatalog
  <1>3. Spec => [][\A o \in Orders : Approval(o) => InCatalog(o)]_vars
    BY <1>2, OrdersInvariant, PTL DEF Spec
  <1> QED BY <1>3 DEF ApprovalFollowsCatalog, Approval, InCatalog
=============================================================================
