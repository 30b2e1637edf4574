---------------------------- MODULE StoreCatalog ----------------------------
(***************************************************************************)
(* The catalogue of one store: the canonical rows of contexts/store_catalog*)
(* and the write-through copies of them that the order and store approval  *)
(* contexts read.                                                          *)
(*                                                                         *)
(* A command is one transaction of the API server, and nobody else writes  *)
(* these rows, so a command is one step.  What makes it hard is what each  *)
(* command leaves alone: a copy that is not refreshed, a variant that is   *)
(* switched off but keeps its stock, a request that is sent again.         *)
(* Options carry no state but a price, and are part of the product's.      *)
(* Who may send a command is left to Members: here every request comes from*)
(* a user who may.                                                         *)
(***************************************************************************)
EXTENDS Integers, FiniteSets

CONSTANTS
  Products, Titles, Prices, Users,
  Variants,     \* public variant ids of a product
  Default,      \* default_public_variant_id: the hidden variant of a product
  Chains,       \* chain ids, each with one payment asset
  SystemChains, \* those the system supports
  Requests,     \* the commands clients send, each as often as they like
  MaxRequests,  \* bound on those of them that are executed
  None

VariantInput == {"ABSENT", "SALEABLE", "SUSPENDED", "INACTIVE"}

(* key: the Idempotency-Key.  config: neither options nor variants,        *)
(* options only, or the variants that replace those there are; units is    *)
(* the initial stock of a variant that has no inventory row yet.           *)
Command ==
  [op: {"createStore", "updateStoreProfile", "registerProduct", "updateProduct"},
   key: Nat, owner: Users, active: BOOLEAN, chains: SUBSET Chains,
   assets: SUBSET Chains, product: Products, title: Titles, price: Prices,
   status: {"ACTIVE", "PRIVATE", "INACTIVE"},
   config: {"keep", "default", "replace"},
   variants: [Variants -> VariantInput], units: Nat]

ASSUME CatalogConstants ==
  /\ Default \in Variants
  /\ SystemChains \subseteq Chains
  /\ Requests \subseteq Command
  /\ \A r \in Requests : r.chains # {}
  /\ MaxRequests \in Nat
  /\ None \notin Users \cup Titles \cup Chains \cup Variants

VARIABLES
  store,           \* store_catalog_stores
  orderStore,      \* order_stores
  approvalStore,   \* store_approval_stores
  product,         \* store_catalog_products
  orderProduct,    \* order_store_products
  approvalProduct, \* store_approval_products
  variants,        \* store_catalog_product_variants
  stock,           \* product_variant_inventory
  paused,          \* those of its rows with sale_status PAUSED
  recorded         \* store_catalog_idempotency: the requests executed

catalog == <<store, orderStore, approvalStore, product, orderProduct,
             approvalProduct, variants>>
catalogVars == <<store, orderStore, approvalStore, product, orderProduct,
                 approvalProduct, variants, stock, paused, recorded>>

-----------------------------------------------------------------------------
(* Rows.  A store has an owner, a product has a title.  A PRIVATE product  *)
(* is ACTIVE, and not listed.                                              *)
StoreProfile == [owner: Users \cup {None}, active: BOOLEAN,
                 chains: SUBSET Chains, assets: SUBSET Chains]
NoStore == [owner |-> None, active |-> FALSE, chains |-> {}, assets |-> {}]
StoreExists == store.owner # None

OrderStore == [active: BOOLEAN, chains: SUBSET Chains]

ProductStatus == {"ACTIVE", "PRIVATE", "INACTIVE"}
StoreProduct == [title: Titles \cup {None}, price: Prices \cup {None},
                 status: ProductStatus]
NoProduct == [title |-> None, price |-> None, status |-> "INACTIVE"]
ProductExists(p) == product[p].title # None

OrderProduct == [title: Titles \cup {None}, price: Prices \cup {None}]
ApprovalProduct == [title: Titles \cup {None}, available: BOOLEAN]

(* SUSPENDED: the variant is active and its status is not ACTIVE.          *)
ProductVariant == {"NONE", "SALEABLE", "SUSPENDED", "INACTIVE"}
InventoryRow == [seeded: BOOLEAN, available: Nat, total: Nat]
NoInventory == [seeded |-> FALSE, available |-> 0, total |-> 0]

CatalogInit ==
  /\ store = NoStore
  /\ orderStore = [active |-> FALSE, chains |-> {}]
  /\ approvalStore = FALSE
  /\ product = [p \in Products |-> NoProduct]
  /\ orderProduct = [p \in Products |-> [title |-> None, price |-> None]]
  /\ approvalProduct = [p \in Products |-> [title |-> None, available |-> FALSE]]
  /\ variants = [p \in Products |-> [v \in Variants |-> "NONE"]]
  /\ stock = [p \in Products |-> [v \in Variants |-> NoInventory]]
  /\ paused = [p \in Products |-> {}]
  /\ recorded = {}

-----------------------------------------------------------------------------
(* StoreCatalogApplicationService._idempotent: a request sent again under  *)
(* its key is answered from the record, one with another payload under a   *)
(* key in use is refused, and a rejected one records nothing.              *)
KeyTaken(r) == \E q \in recorded : q.op = r.op /\ q.key = r.key

Executes(r) ==
  /\ ~ KeyTaken(r)
  /\ Cardinality(recorded) < MaxRequests
  /\ recorded' = recorded \cup {r}

(* Provisioning keeps the profile of a store that exists and resets its    *)
(* payment settings.  All three copies of the row are written.             *)
createStore(r) ==
  /\ r.op = "createStore"
  /\ Executes(r)
  /\ StoreExists => store.owner = r.owner
  /\ store' = [owner |-> r.owner, active |-> r.active, chains |-> r.chains,
               assets |-> {}]
  /\ orderStore' = [active |-> r.active, chains |-> r.chains]
  /\ approvalStore' = r.active
  /\ UNCHANGED <<product, orderProduct, approvalProduct, variants, stock,
                 paused>>

(* Only the canonical row: the order context keeps the chains it had.      *)
updateStoreProfile(r) ==
  /\ r.op = "updateStoreProfile"
  /\ Executes(r)
  /\ StoreExists
  /\ store' = [store EXCEPT !.chains = r.chains, !.assets = r.assets]
  /\ UNCHANGED <<orderStore, approvalStore, product, orderProduct,
                 approvalProduct, variants, stock, paused>>

-----------------------------------------------------------------------------
(* INSERT ... ON CONFLICT DO NOTHING: a row that is there keeps its stock. *)
SeedAgain(rows, V, n) == \* mutant: the initial stock is written over
  [v \in Variants |-> IF v \in V
                      THEN [seeded |-> TRUE, available |-> n, total |-> n]
                      ELSE rows[v]]

Seed(rows, V, n) ==
  [v \in Variants |-> IF v \in V /\ ~ rows[v].seeded
                      THEN [seeded |-> TRUE, available |-> n, total |-> n]
                      ELSE rows[v]]

(* Every variant is switched off and those listed are upserted.            *)
replace_product_variants(old, input) ==
  [v \in Variants |-> IF input[v] # "ABSENT" THEN input[v]
                      ELSE IF old[v] = "NONE" THEN "NONE" ELSE "INACTIVE"]

Listed(r) == {v \in Variants : r.variants[v] # "ABSENT"}

(* units: what the default variant starts with.                            *)
SaveProductConfiguration(r, units) ==
  LET p == r.product IN
  CASE r.config = "keep" -> UNCHANGED <<variants, stock>>
    [] r.config = "default" ->
         /\ variants' = [variants EXCEPT ![p][Default] =
                           IF @ = "NONE" THEN "SALEABLE" ELSE @]
         /\ stock' = [stock EXCEPT ![p] = Seed(@, {Default}, units)]
    [] r.config = "replace" ->
         /\ variants' = [variants EXCEPT ![p] =
                           replace_product_variants(@, r.variants)]
         /\ stock' = [stock EXCEPT ![p] = Seed(@, Listed(r), r.units)]

SaveProduct(r) ==
  LET p == r.product IN
  /\ product' = [product EXCEPT ![p] =
                   [title |-> r.title, price |-> r.price, status |-> r.status]]
  /\ orderProduct' = [orderProduct EXCEPT ![p] =
                        [title |-> r.title, price |-> r.price]]
  /\ approvalProduct' = [approvalProduct EXCEPT ![p] =
                           [title |-> r.title, available |-> r.status # "INACTIVE"]]

(* The product id is the merchant's: registering one that exists writes    *)
(* over its detail.  Without options or variants it gets the default one.  *)
registerProduct(r) ==
  /\ r.op = "registerProduct"
  /\ Executes(r)
  /\ StoreExists /\ store.active
  /\ store.chains \cap SystemChains # {}
  /\ r.config # "keep"
  /\ SaveProduct(r)
  /\ SaveProductConfiguration(r, r.units)
  /\ UNCHANGED <<store, orderStore, approvalStore, paused>>

(* An inactive store may change its products.  A field the request leaves  *)
(* out is in it with the value it has.                                     *)
updateProduct(r) ==
  /\ r.op = "updateProduct"
  /\ Executes(r)
  /\ StoreExists
  /\ ProductExists(r.product)
  /\ SaveProduct(r)
  /\ SaveProductConfiguration(r, 0)
  /\ UNCHANGED <<store, orderStore, approvalStore, paused>>

(* The owner's inventory commands, as Inventory has them.                  *)
pause_sales(p, v) ==
  /\ stock[p][v].seeded
  /\ paused' = [paused EXCEPT ![p] = @ \cup {v}]
  /\ UNCHANGED <<store, orderStore, approvalStore, product, orderProduct,
                 approvalProduct, variants, stock, recorded>>

resume_sales(p, v) ==
  /\ stock[p][v].seeded
  /\ paused' = [paused EXCEPT ![p] = @ \ {v}]
  /\ UNCHANGED <<store, orderStore, approvalStore, product, orderProduct,
                 approvalProduct, variants, stock, recorded>>

CatalogNext ==
  \/ \E r \in Requests :
       \/ createStore(r)
       \/ updateStoreProfile(r)
       \/ registerProduct(r)
       \/ updateProduct(r)
  \/ \E p \in Products, v \in Variants : pause_sales(p, v) \/ resume_sales(p, v)

-----------------------------------------------------------------------------
(* What the storefront shows.                                              *)
Shown(p) == StoreExists /\ product[p].status = "ACTIVE"

Active(p) == {v \in Variants : variants[p][v] \in {"SALEABLE", "SUSPENDED"}}
Saleable(p) == {v \in Variants : variants[p][v] = "SALEABLE"}

VariantAvailable(p, v) ==
  /\ v \in Saleable(p)
  /\ v \notin paused[p]
  /\ stock[p][v].available > 0

(* Without an active variant the sum over all inventory rows is shown,     *)
(* those of variants switched off included.                                *)
ShownAvailable(p) ==
  IF Active(p) = {} THEN \E v \in Variants : stock[p][v].available > 0
  ELSE \E v \in Active(p) : VariantAvailable(p, v)

PaymentCapability ==
  {c \in store.chains : store.assets = {} \/ c \in store.assets}
=============================================================================
