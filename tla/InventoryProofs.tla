-------------------------- MODULE InventoryProofs --------------------------
(***************************************************************************)
(* Proofs about Inventory, for any set of orders, command ids, database    *)
(* sessions, batches and any initial stock.                                *)
(*                                                                         *)
(* The argument has two layers.  The first is about the aggregate alone:   *)
(* StepSound says what one accepted command may do to a ProductInventory.  *)
(* The second is about transactions: IInv says that whoever holds the row  *)
(* lock works on a copy that is sound and ahead of the committed row, and  *)
(* that whoever does not hold it has nothing to commit.                    *)
(*                                                                         *)
(* OnceInv, at the end, adds what the deployment contributes: why looking  *)
(* into processed_commands before the lock is taken is early enough.       *)
(***************************************************************************)
EXTENDS Inventory, FiniteSetTheorems, WellFoundedInduction, TLAPS

(* What the committed row and every copy of it satisfy.                    *)
Sound(r) == Loadable(r) /\ IsFiniteSet(Units(r, "CONFIRMED"))

(* Units in stock and units sold.                                          *)
Ledger(r) == r.total + Cardinality(Units(r, "CONFIRMED"))

AllForward(r, s) ==
  \A o \in Orders : Forward(r.reservations[o], s.reservations[o])

(* What the saga was told about a reservation by the event of command c.   *)
Reported(r, c) ==
  /\ c.op = "reserve" => r.reservations[c.order].status # "NONE"
  /\ c.op = "confirm" => r.reservations[c.order].status = "CONFIRMED"
  /\ c.op = "release" => r.reservations[c.order].status = "CANCELLED"

(* A command that the aggregate accepts takes it from r to s.              *)
StepSound(r, s, c) ==
  /\ s \in ProductInventory
  /\ Sound(s)
  /\ AllForward(r, s)
  /\ Reported(s, c)
  /\ Ledger(s) = Ledger(r) + (IF c.op \in OwnerOps THEN s.total - r.total ELSE 0)

-----------------------------------------------------------------------------
(* Units of reservations.                                                  *)

(* A reservation of q units stands for q pairs.                            *)
LEMMA SlotSize ==
  ASSUME NEW o, NEW q \in Nat
  PROVE  /\ IsFiniteSet({o} \X (1..q))
         /\ Cardinality({o} \X (1..q)) = q
<1>1. IsFiniteSet({o}) /\ Cardinality({o}) = 1
  BY FS_Singleton
<1>2. IsFiniteSet(1..q) /\ Cardinality(1..q) = q
  BY FS_Interval
<1>3. /\ IsFiniteSet({o} \X (1..q))
      /\ Cardinality({o} \X (1..q)) = Cardinality({o}) * Cardinality(1..q)
  BY <1>1, <1>2, FS_Product
<1> QED
  BY <1>1, <1>2, <1>3

(* Setting a slot to a status it did not have adds its units to that       *)
(* status.                                                                 *)
LEMMA UnitsEnter ==
  ASSUME NEW r \in ProductInventory, NEW s \in ProductInventory,
         NEW o \in Orders, NEW q \in Nat, NEW st \in ReservationStatus,
         r.reservations[o].status # st,
         s.reservations = [r.reservations EXCEPT ![o] =
                             [status |-> st, qty |-> q]],
         IsFiniteSet(Units(r, st))
  PROVE  /\ IsFiniteSet(Units(s, st))
         /\ Cardinality(Units(s, st)) = Cardinality(Units(r, st)) + q
<1> DEFINE slot == {o} \X (1..q)
<1>1. Units(s, st) = Units(r, st) \cup slot
  <2>1. WithStatus(s, st) = WithStatus(r, st) \cup {o}
    BY DEF WithStatus, ProductInventory, Reservation
  <2>2. s.reservations[o].qty = q
    BY DEF ProductInventory, Reservation
  <2>3. \A p \in WithStatus(r, st) :
          s.reservations[p].qty = r.reservations[p].qty
    BY DEF WithStatus, ProductInventory, Reservation
  <2> QED
    BY <2>1, <2>2, <2>3 DEF Units
<1>2. Units(r, st) \cap slot = {}
  BY DEF Units, WithStatus
<1>3. IsFiniteSet(slot) /\ Cardinality(slot) = q
  BY SlotSize
<1>4. Cardinality(Units(r, st)) \in Nat
  BY FS_CardinalityType
<1>5. /\ IsFiniteSet(Units(r, st) \cup slot)
      /\ Cardinality(Units(r, st) \cup slot) =
           Cardinality(Units(r, st)) + Cardinality(slot)
             - Cardinality(Units(r, st) \cap slot)
  <2> HIDE DEF slot
  <2> QED BY <1>3, FS_Union
<1> QED
  BY <1>1, <1>2, <1>3, <1>4, <1>5, FS_EmptySet

(* Setting a slot to another status takes its units away.                  *)
LEMMA UnitsLeave ==
  ASSUME NEW r \in ProductInventory, NEW s \in ProductInventory,
         NEW o \in Orders, NEW st \in ReservationStatus,
         NEW to \in ReservationStatus, to # st,
         r.reservations[o].status = st,
         s.reservations = [r.reservations EXCEPT ![o] =
                             [status |-> to, qty |-> r.reservations[o].qty]],
         IsFiniteSet(Units(r, st))
  PROVE  /\ IsFiniteSet(Units(s, st))
         /\ r.reservations[o].qty <= Cardinality(Units(r, st))
         /\ Cardinality(Units(s, st)) =
              Cardinality(Units(r, st)) - r.reservations[o].qty
<1> DEFINE q == r.reservations[o].qty
           slot == {o} \X (1..q)
<1>1. q \in Nat
  BY DEF ProductInventory, Reservation
<1>2. Units(s, st) = Units(r, st) \ slot
  <2>1. WithStatus(s, st) = WithStatus(r, st) \ {o}
    BY DEF WithStatus, ProductInventory, Reservation
  <2>2. \A p \in WithStatus(s, st) :
          s.reservations[p].qty = r.reservations[p].qty
    BY DEF WithStatus, ProductInventory, Reservation
  <2> QED
    BY <2>1, <2>2 DEF Units
<1>3. Units(r, st) \cap slot = slot
  BY DEF Units, WithStatus
<1>4. IsFiniteSet(slot) /\ Cardinality(slot) = q
  BY <1>1, SlotSize
<1>5. Cardinality(Units(r, st)) \in Nat
  BY FS_CardinalityType
<1>6. /\ IsFiniteSet(Units(r, st) \ slot)
      /\ Cardinality(Units(r, st) \ slot) =
           Cardinality(Units(r, st)) - Cardinality(Units(r, st) \cap slot)
  <2> HIDE DEF slot
  <2> QED BY FS_Difference
<1>7. Cardinality(slot) <= Cardinality(Units(r, st))
  <2>1. slot \in SUBSET Units(r, st)
    BY <1>3
  <2> HIDE DEF slot
  <2> QED BY <2>1, FS_Subset
<1> QED
  BY <1>1, <1>2, <1>3, <1>4, <1>5, <1>6, <1>7

(* A slot that has a status neither before nor after does not matter.      *)
LEMMA UnitsKeep ==
  ASSUME NEW r \in ProductInventory, NEW s \in ProductInventory,
         NEW o \in Orders, NEW st \in ReservationStatus,
         NEW to \in ReservationStatus, NEW q \in Nat, to # st,
         r.reservations[o].status # st,
         s.reservations = [r.reservations EXCEPT ![o] =
                             [status |-> to, qty |-> q]]
  PROVE  Units(s, st) = Units(r, st)
<1>1. WithStatus(s, st) = WithStatus(r, st)
  BY DEF WithStatus, ProductInventory, Reservation
<1>2. \A p \in WithStatus(s, st) :
        s.reservations[p].qty = r.reservations[p].qty
  BY DEF WithStatus, ProductInventory, Reservation
<1> QED
  BY <1>1, <1>2 DEF Units

-----------------------------------------------------------------------------
(* The operations of the aggregate.                                        *)

(* A step that leaves the reservations and moves only available and total. *)
LEMMA OwnerStepSound ==
  ASSUME NEW r \in ProductInventory, NEW s \in ProductInventory,
         NEW c \in Command, c.op \in OwnerOps,
         Sound(r),
         s.reservations = r.reservations, s.reserved = r.reserved,
         s.available + s.reserved = s.total
  PROVE  StepSound(r, s, c)
<1>1. Units(s, "PENDING") = Units(r, "PENDING")
      /\ Units(s, "CONFIRMED") = Units(r, "CONFIRMED")
  BY DEF Units, WithStatus
<1>2. Cardinality(Units(r, "CONFIRMED")) \in Nat
  BY FS_CardinalityType DEF Sound
<1>3. Sound(s)
  BY <1>1 DEF Sound, Loadable, StockAddsUp, ReservedIsPending
<1>4. AllForward(r, s) /\ Reported(s, c)
  BY DEF AllForward, Forward, Reported, OwnerOps
<1>5. Ledger(s) = Ledger(r) + (s.total - r.total)
  BY <1>1, <1>2 DEF Ledger, ProductInventory
<1> QED
  BY <1>3, <1>4, <1>5 DEF StepSound

(* A command that changes nothing, because it was done before.             *)
LEMMA RepeatSound ==
  ASSUME NEW r \in ProductInventory, NEW c \in Command, c.op \in SagaOps,
         Sound(r), Reported(r, c)
  PROVE  StepSound(r, r, c)
<1>1. Cardinality(Units(r, "CONFIRMED")) \in Nat
  BY FS_CardinalityType DEF Sound
<1>2. Ledger(r) \in Int
  BY <1>1 DEF Ledger, ProductInventory
<1> QED
  BY <1>2 DEF StepSound, AllForward, Forward, SagaOps, OwnerOps

(* reserve_inventory takes the quantity from available_stock.              *)
LEMMA ReserveSound ==
  ASSUME NEW r \in ProductInventory, NEW c \in Command, c.op = "reserve",
         Sound(r), reserve_inventory_ok(r, c.order, c.qty)
  PROVE  StepSound(r, reserve_inventory(r, c.order, c.qty), c)
<1> DEFINE o == c.order
           q == c.qty
           s == reserve_inventory(r, o, q)
<1>0. o \in Orders /\ q \in Nat
  BY DEF Command, SagaOps, OwnerOps
<1>1. CASE r.reservations[o].status # "NONE"
  BY <1>1, RepeatSound DEF reserve_inventory, SagaOps, Reported
<1>2. CASE r.reservations[o].status = "NONE"
  <2>1. /\ s \in ProductInventory
        /\ s.reservations = [r.reservations EXCEPT ![o] =
                               [status |-> "PENDING", qty |-> q]]
        /\ s.available = r.available - q
        /\ s.reserved = r.reserved + q
        /\ s.total = r.total
    <3> DEFINE new == [r.reservations EXCEPT ![o] =
                         [status |-> "PENDING", qty |-> q]]
    <3>1. new \in [Orders -> Reservation]
      BY <1>0 DEF ProductInventory, Reservation, ReservationStatus
    <3>2. s = [[r EXCEPT !.reservations = new] EXCEPT !.available = @ - q, !.reserved = @ + q]
      BY <1>0, <1>2 DEF reserve_inventory, SetReservation, ProductInventory
    <3> HIDE DEF s, new
    <3>nat. r.available - q \in Nat /\ r.reserved + q \in Nat
      BY <1>0, <1>2 DEF ProductInventory, reserve_inventory_ok
    <3>3. s \in ProductInventory /\ s.reservations = new
      BY <3>1, <3>2, <3>nat DEF ProductInventory
    <3>4. /\ s.available = r.available - q
          /\ s.reserved = r.reserved + q
          /\ s.total = r.total
      BY <1>0, <3>1, <3>2 DEF ProductInventory
    <3> QED
      BY <3>3, <3>4 DEF new
  <2> HIDE DEF s, o, q
  <2>2. /\ IsFiniteSet(Units(s, "PENDING"))
        /\ Cardinality(Units(s, "PENDING")) =
             Cardinality(Units(r, "PENDING")) + q
    <3>1. IsFiniteSet(Units(r, "PENDING")) /\ "PENDING" \in ReservationStatus
      BY DEF ReservationStatus, Sound, Loadable, ReservedIsPending
    <3>2. r.reservations[o].status # "PENDING"
      BY <1>2
    <3> QED
      BY <1>0, <3>1, <3>2, <2>1, UnitsEnter
  <2>3. Units(s, "CONFIRMED") = Units(r, "CONFIRMED")
    BY <1>0, <1>2, <2>1, UnitsKeep DEF ReservationStatus
  <2>4. Sound(s)
    BY <1>0, <2>1, <2>2, <2>3
       DEF Sound, Loadable, StockAddsUp, ReservedIsPending, ProductInventory
  <2>5. AllForward(r, s)
    BY <1>0, <1>2, <2>1 DEF AllForward, Forward, ProductInventory
  <2>6. s.reservations[o].status = "PENDING"
    BY <1>0, <2>1 DEF ProductInventory
  <2>7. Cardinality(Units(r, "CONFIRMED")) \in Nat
    BY FS_CardinalityType DEF Sound
  <2>8. Ledger(s) = Ledger(r) + 0
    BY <2>1, <2>3, <2>7 DEF Ledger, ProductInventory
  <2> QED
    BY <2>1, <2>4, <2>5, <2>6, <2>8 DEF StepSound, Reported, OwnerOps, o, q, s
<1> QED
  BY <1>1, <1>2

(* release_reservation gives a PENDING reservation's units back.           *)
LEMMA ReleaseSound ==
  ASSUME NEW r \in ProductInventory, NEW c \in Command, c.op = "release",
         Sound(r), release_reservation_ok(r, c.order)
  PROVE  StepSound(r, release_reservation(r, c.order), c)
<1> DEFINE o == c.order
           q == r.reservations[o].qty
           s == release_reservation(r, o)
<1>0. o \in Orders /\ q \in Nat
  BY DEF Command, SagaOps, OwnerOps, ProductInventory, Reservation
<1>1. CASE r.reservations[o].status = "CANCELLED"
  BY <1>1, RepeatSound DEF release_reservation, SagaOps, Reported
<1>2. CASE r.reservations[o].status = "PENDING" /\ r.reserved >= q
  <2>1. /\ s \in ProductInventory
        /\ s.reservations = [r.reservations EXCEPT ![o] =
                               [status |-> "CANCELLED", qty |-> q]]
        /\ s.available = r.available + q
        /\ s.reserved = r.reserved - q
        /\ s.total = r.total
    <3> DEFINE new == [r.reservations EXCEPT ![o] =
                         [status |-> "CANCELLED", qty |-> q]]
    <3>1. new \in [Orders -> Reservation]
      BY <1>0 DEF ProductInventory, Reservation, ReservationStatus
    <3>2. s = [[r EXCEPT !.reservations = new] EXCEPT !.available = @ + q, !.reserved = @ - q]
      BY <1>0, <1>2 DEF release_reservation, SetReservation, ProductInventory
    <3> HIDE DEF s, new, q
    <3>nat. r.available + q \in Nat /\ r.reserved - q \in Nat
      BY <1>0, <1>2 DEF ProductInventory
    <3>3. s \in ProductInventory /\ s.reservations = new
      BY <3>1, <3>2, <3>nat DEF ProductInventory
    <3>4. /\ s.available = r.available + q
          /\ s.reserved = r.reserved - q
          /\ s.total = r.total
      BY <1>0, <3>1, <3>2 DEF ProductInventory
    <3> QED
      BY <3>3, <3>4 DEF new
  <2> HIDE DEF s, o
  <2>2. /\ IsFiniteSet(Units(s, "PENDING"))
        /\ Cardinality(Units(s, "PENDING")) =
             Cardinality(Units(r, "PENDING")) - q
    <3>1. IsFiniteSet(Units(r, "PENDING")) /\ "PENDING" \in ReservationStatus
          /\ "CANCELLED" \in ReservationStatus /\ "CONFIRMED" \in ReservationStatus
      BY DEF ReservationStatus, Sound, Loadable, ReservedIsPending
    <3> QED
      BY <1>0, <1>2, <2>1, <3>1, UnitsLeave
  <2>3. Units(s, "CONFIRMED") = Units(r, "CONFIRMED")
    BY <1>0, <1>2, <2>1, UnitsKeep DEF ReservationStatus
  <2>4. Sound(s)
    BY <1>0, <2>1, <2>2, <2>3
       DEF Sound, Loadable, StockAddsUp, ReservedIsPending, ProductInventory
  <2>5. AllForward(r, s)
    BY <1>0, <1>2, <2>1 DEF AllForward, Forward, ProductInventory
  <2>6. s.reservations[o].status = "CANCELLED"
    BY <1>0, <2>1 DEF ProductInventory
  <2>7. Cardinality(Units(r, "CONFIRMED")) \in Nat
    BY FS_CardinalityType DEF Sound
  <2>8. Ledger(s) = Ledger(r) + 0
    BY <2>1, <2>3, <2>7 DEF Ledger, ProductInventory
  <2> QED
    BY <2>1, <2>4, <2>5, <2>6, <2>8 DEF StepSound, Reported, OwnerOps, o, s
<1> QED
  BY <1>1, <1>2 DEF release_reservation_ok

(* confirm_reservation moves a PENDING reservation's units out of stock.   *)
LEMMA ConfirmSound ==
  ASSUME NEW r \in ProductInventory, NEW c \in Command, c.op = "confirm",
         Sound(r), confirm_reservation_ok(r, c.order)
  PROVE  StepSound(r, confirm_reservation(r, c.order), c)
<1> DEFINE o == c.order
           q == r.reservations[o].qty
           s == confirm_reservation(r, o)
<1>0. o \in Orders /\ q \in Nat
  BY DEF Command, SagaOps, OwnerOps, ProductInventory, Reservation
<1>1. CASE r.reservations[o].status = "CONFIRMED"
  BY <1>1, RepeatSound DEF confirm_reservation, SagaOps, Reported
<1>2. CASE r.reservations[o].status = "PENDING" /\ r.reserved >= q
           /\ r.total >= q
  <2>1. /\ s \in ProductInventory
        /\ s.reservations = [r.reservations EXCEPT ![o] =
                               [status |-> "CONFIRMED", qty |-> q]]
        /\ s.available = r.available
        /\ s.reserved = r.reserved - q
        /\ s.total = r.total - q
    <3> DEFINE new == [r.reservations EXCEPT ![o] =
                         [status |-> "CONFIRMED", qty |-> q]]
    <3>1. new \in [Orders -> Reservation]
      BY <1>0 DEF ProductInventory, Reservation, ReservationStatus
    <3>2. s = [[r EXCEPT !.reservations = new] EXCEPT !.reserved = @ - q, !.total = @ - q]
      BY <1>0, <1>2 DEF confirm_reservation, SetReservation, ProductInventory
    <3> HIDE DEF s, new, q
    <3>nat. r.total - q \in Nat /\ r.reserved - q \in Nat
      BY <1>0, <1>2 DEF ProductInventory
    <3>3. s \in ProductInventory /\ s.reservations = new
      BY <3>1, <3>2, <3>nat DEF ProductInventory
    <3>4. /\ s.available = r.available
          /\ s.reserved = r.reserved - q
          /\ s.total = r.total - q
      BY <1>0, <3>1, <3>2 DEF ProductInventory
    <3> QED
      BY <3>3, <3>4 DEF new
  <2> HIDE DEF s, o
  <2>2. /\ IsFiniteSet(Units(s, "PENDING"))
        /\ Cardinality(Units(s, "PENDING")) =
             Cardinality(Units(r, "PENDING")) - q
    <3>1. IsFiniteSet(Units(r, "PENDING")) /\ "PENDING" \in ReservationStatus
          /\ "CANCELLED" \in ReservationStatus /\ "CONFIRMED" \in ReservationStatus
      BY DEF ReservationStatus, Sound, Loadable, ReservedIsPending
    <3> QED
      BY <1>0, <1>2, <2>1, <3>1, UnitsLeave
  <2>3. /\ IsFiniteSet(Units(s, "CONFIRMED"))
        /\ Cardinality(Units(s, "CONFIRMED")) =
             Cardinality(Units(r, "CONFIRMED")) + q
    <3>1. IsFiniteSet(Units(r, "CONFIRMED")) /\ "CONFIRMED" \in ReservationStatus
      BY DEF ReservationStatus, Sound
    <3>2. r.reservations[o].status # "CONFIRMED"
      BY <1>2
    <3> QED
      BY <1>0, <3>1, <3>2, <2>1, UnitsEnter
  <2>4. Sound(s)
    BY <1>0, <2>1, <2>2, <2>3
       DEF Sound, Loadable, StockAddsUp, ReservedIsPending, ProductInventory
  <2>5. AllForward(r, s)
    BY <1>0, <1>2, <2>1 DEF AllForward, Forward, ProductInventory
  <2>6. s.reservations[o].status = "CONFIRMED"
    BY <1>0, <2>1 DEF ProductInventory
  <2>7. Cardinality(Units(r, "CONFIRMED")) \in Nat
    BY FS_CardinalityType DEF Sound
  <2>8. Ledger(s) = Ledger(r) + 0
    BY <1>0, <2>1, <2>3, <2>7 DEF Ledger, ProductInventory
  <2> QED
    BY <2>1, <2>4, <2>5, <2>6, <2>8 DEF StepSound, Reported, OwnerOps, o, s
<1> QED
  BY <1>1, <1>2 DEF confirm_reservation_ok

(* Every accepted command is a sound step of the aggregate.                *)
LEMMA ApplySound ==
  ASSUME NEW r \in ProductInventory, NEW c \in Command, Sound(r),
         Accepts(r, c)
  PROVE  StepSound(r, Apply(r, c), c)
<1>0. c.op \in SagaOps \cup OwnerOps /\ c.qty \in Nat
  BY DEF Command
<1>1. CASE c.op = "reserve"
  BY <1>1, ReserveSound DEF Accepts, Apply
<1>2. CASE c.op = "release"
  BY <1>2, ReleaseSound DEF Accepts, Apply
<1>3. CASE c.op = "confirm"
  BY <1>3, ConfirmSound DEF Accepts, Apply
<1>4. CASE c.op = "increase"
  <2>1. Apply(r, c) = increase_stock(r, c.qty)
    BY <1>4 DEF Apply
  <2> QED
    <3> DEFINE s == increase_stock(r, c.qty)
    <3>nat. r.available + c.qty \in Nat /\ r.total + c.qty \in Nat
      BY <1>0 DEF ProductInventory
    <3>1. /\ s \in ProductInventory
          /\ s.reservations = r.reservations /\ s.reserved = r.reserved
          /\ s.available = r.available + c.qty /\ s.total = r.total + c.qty
      BY <3>nat DEF increase_stock, ProductInventory
    <3>2. s.available + s.reserved = s.total
      BY <1>0, <3>1 DEF ProductInventory, Sound, Loadable, StockAddsUp
    <3> HIDE DEF s
    <3>3. StepSound(r, s, c)
      BY <1>4, <3>1, <3>2, OwnerStepSound DEF OwnerOps
    <3> QED
      BY <2>1, <3>3 DEF s
<1>5. CASE c.op = "correct"
  <2>1. Apply(r, c) = correct_total_stock(r, c.qty) /\ c.qty >= r.reserved
    BY <1>5 DEF Apply, Accepts
  <2> QED
    <3> DEFINE s == correct_total_stock(r, c.qty)
    <3>nat. c.qty - r.reserved \in Nat
      BY <1>0, <2>1 DEF ProductInventory
    <3>1. /\ s \in ProductInventory
          /\ s.reservations = r.reservations /\ s.reserved = r.reserved
          /\ s.available = c.qty - r.reserved /\ s.total = c.qty
      BY <1>0, <3>nat DEF correct_total_stock, ProductInventory
    <3>2. s.available + s.reserved = s.total
      BY <1>0, <3>1 DEF ProductInventory
    <3> HIDE DEF s
    <3>3. StepSound(r, s, c)
      BY <1>5, <3>1, <3>2, OwnerStepSound DEF OwnerOps
    <3> QED
      BY <2>1, <3>3 DEF s
<1>6. CASE c.op = "pause"
  <2>1. Apply(r, c) = pause_sales(r)
    BY <1>6 DEF Apply
  <2> QED
    BY <1>6, <2>1, OwnerStepSound
       DEF OwnerOps, pause_sales, ProductInventory, Sound, Loadable,
           StockAddsUp
<1>7. CASE c.op = "resume"
  <2>1. Apply(r, c) = resume_sales(r)
    BY <1>7 DEF Apply
  <2> QED
    BY <1>7, <2>1, OwnerStepSound
       DEF OwnerOps, resume_sales, ProductInventory, Sound, Loadable,
           StockAddsUp
<1> QED
  BY <1>0, <1>1, <1>2, <1>3, <1>4, <1>5, <1>6, <1>7 DEF SagaOps, OwnerOps

-----------------------------------------------------------------------------
(* Moving forward.                                                         *)

LEMMA ForwardTransitive ==
  ASSUME NEW r \in ProductInventory, NEW s \in ProductInventory,
         NEW u \in ProductInventory, AllForward(r, s), AllForward(s, u)
  PROVE  AllForward(r, u)
BY DEF AllForward, Forward, ProductInventory, Reservation, ReservationStatus

LEMMA ReportedForward ==
  ASSUME NEW r \in ProductInventory, NEW s \in ProductInventory,
         NEW c \in Command, AllForward(r, s), Reported(r, c)
  PROVE  Reported(s, c)
<1>1. CASE c.op \in OwnerOps
  BY <1>1 DEF Reported, OwnerOps
<1>2. CASE c.op \in SagaOps
  <2>1. c.order \in Orders
    BY <1>2 DEF Command, SagaOps, OwnerOps
  <2>2. Forward(r.reservations[c.order], s.reservations[c.order])
    BY <2>1 DEF AllForward
  <2> QED
    BY <2>2 DEF Reported, Forward
<1> QED
  BY <1>1, <1>2 DEF Command

-----------------------------------------------------------------------------
(* The inductive invariant.                                                *)

(* A transaction executes a command only while it has one.                 *)
HasCommand == \A t \in Transactions : pc[t] = "execute" => queue[t] # <<>>

(* Without the row lock there is nothing to commit.                        *)
OthersHaveNothing ==
  \A t \in Transactions : lock # t => done[t] = {} /\ delta[t] = 0

(* The holder's copy is what the row will soundly become.                  *)
HolderAhead ==
  \A t \in Transactions : lock = t =>
    /\ Sound(view[t])
    /\ AllForward(row, view[t])
    /\ Ledger(view[t]) = InitialStock + adjusted + delta[t]
    /\ \A c \in done[t] : Reported(view[t], c)

IInv ==
  /\ TypeOK
  /\ HasCommand
  /\ OthersHaveNothing
  /\ HolderAhead
  /\ Sound(row)
  /\ StockLedger
  /\ EventsMatchReservations

(* The variant as it is registered.                                        *)
LEMMA NewInventorySound ==
  NewInventory \in ProductInventory /\ Sound(NewInventory)
  /\ Ledger(NewInventory) = InitialStock
<1>1. NewInventory \in ProductInventory
  BY InventoryConstants DEF NewInventory, ProductInventory, Reservation,
       ReservationStatus
<1>2. Units(NewInventory, "PENDING") = {} /\ Units(NewInventory, "CONFIRMED") = {}
  BY DEF NewInventory, Units, WithStatus
<1>3. /\ NewInventory.available = InitialStock
      /\ NewInventory.reserved = 0
      /\ NewInventory.total = InitialStock
      /\ InitialStock \in Nat
  BY InventoryConstants DEF NewInventory
<1> QED
  BY <1>1, <1>2, <1>3, FS_EmptySet
     DEF Sound, Loadable, StockAddsUp, ReservedIsPending, Ledger

LEMMA InitIInv == Init => IInv
<1> SUFFICES ASSUME Init PROVE IInv
  OBVIOUS
<1>1. TypeOK
  BY NewInventorySound DEF Init, TypeOK
<1>2. HasCommand /\ OthersHaveNothing /\ HolderAhead
  BY InventoryConstants DEF Init, HasCommand, OthersHaveNothing, HolderAhead
<1>3. Sound(row) /\ StockLedger
  BY NewInventorySound, InventoryConstants DEF Init, StockLedger, Ledger
<1>4. EventsMatchReservations
  BY DEF Init, EventsMatchReservations
<1> QED
  BY <1>1, <1>2, <1>3, <1>4 DEF IInv

(* What a transaction loads, and what a command makes of it.               *)
LEMMA LoadedSound ==
  ASSUME IInv, NEW t \in Transactions, Lockable(t)
  PROVE  /\ Loaded(t) \in ProductInventory
         /\ Sound(Loaded(t))
         /\ AllForward(row, Loaded(t))
         /\ Ledger(Loaded(t)) = InitialStock + adjusted + delta[t]
         /\ \A c \in done[t] : Reported(Loaded(t), c)
         /\ \A u \in Transactions : u # t => lock # u
<1>1. CASE lock = t
  BY <1>1 DEF Loaded, IInv, HolderAhead, TypeOK
<1>2. CASE lock # t
  <2>1. lock = None /\ Loaded(t) = row
    BY <1>2 DEF Lockable, Loaded
  <2>2. done[t] = {} /\ delta[t] = 0
    BY <1>2 DEF IInv, OthersHaveNothing
  <2>3. Ledger(row) = InitialStock + adjusted + delta[t]
    BY <2>2, InventoryConstants DEF IInv, StockLedger, Ledger, TypeOK
  <2>4. AllForward(row, row)
    BY DEF AllForward, Forward
  <2> QED
    BY <2>1, <2>2, <2>3, <2>4, InventoryConstants DEF IInv, TypeOK
<1> QED
  BY <1>1, <1>2

(* The command at the head of the queue.                                   *)
LEMMA HeadCommand ==
  ASSUME IInv, NEW t \in Transactions, pc[t] = "execute"
  PROVE  Head(queue[t]) \in Command /\ Tail(queue[t]) \in Seq(Command)
<1>1. queue[t] \in Seq(Command) /\ queue[t] # <<>>
  BY DEF IInv, TypeOK, HasCommand
<1> QED
  BY <1>1

-----------------------------------------------------------------------------
(* One lemma per action.                                                   *)

LEMMA BeginIInv ==
  ASSUME IInv, NEW t \in Transactions, Begin(t)
  PROVE  IInv'
<1>1. TypeOK'
  BY InventoryConstants DEF Begin, IInv, TypeOK
<1>2. HasCommand'
  BY DEF Begin, IInv, TypeOK, HasCommand
<1>3. OthersHaveNothing' /\ HolderAhead' /\ Sound(row)' /\ StockLedger'
      /\ EventsMatchReservations'
  BY DEF Begin, IInv, OthersHaveNothing, HolderAhead, StockLedger,
         EventsMatchReservations
<1> QED
  BY <1>1, <1>2, <1>3 DEF IInv

LEMMA CheckIInv ==
  ASSUME IInv, NEW t \in Transactions, Duplicate(t) \/ NotDuplicate(t)
  PROVE  IInv'
<1>0. queue[t] \in Seq(Command) /\ queue[t] # <<>> => Tail(queue[t]) \in Seq(Command)
  OBVIOUS
<1>1. TypeOK'
  BY <1>0 DEF Duplicate, NotDuplicate, IInv, TypeOK
<1>2. HasCommand'
  BY DEF Duplicate, NotDuplicate, IInv, TypeOK, HasCommand
<1>3. OthersHaveNothing' /\ HolderAhead' /\ Sound(row)' /\ StockLedger'
      /\ EventsMatchReservations'
  BY DEF Duplicate, NotDuplicate, IInv, OthersHaveNothing, HolderAhead,
         StockLedger, EventsMatchReservations
<1> QED
  BY <1>1, <1>2, <1>3 DEF IInv

LEMMA AcceptIInv ==
  ASSUME IInv, NEW t \in Transactions, Accept(t)
  PROVE  IInv'
<1> DEFINE c == Head(queue[t])
           r == Loaded(t)
           s == Apply(r, c)
<1>1. c \in Command /\ Tail(queue[t]) \in Seq(Command)
  BY HeadCommand DEF Accept
<1>2. /\ r \in ProductInventory
      /\ Sound(r)
      /\ AllForward(row, r)
      /\ Ledger(r) = InitialStock + adjusted + delta[t]
      /\ \A d \in done[t] : Reported(r, d)
      /\ \A u \in Transactions : u # t => lock # u
  BY LoadedSound DEF Accept
<1>3. StepSound(r, s, c)
  BY <1>1, <1>2, ApplySound DEF Accept
<1>4. /\ view' = [view EXCEPT ![t] = s]
      /\ done' = [done EXCEPT ![t] = @ \cup {c}]
      /\ delta' = [delta EXCEPT ![t] =
                     IF c.op \in OwnerOps THEN @ + s.total - r.total ELSE @]
      /\ lock' = t
      /\ queue' = [queue EXCEPT ![t] = Tail(@)]
      /\ pc' = [pc EXCEPT ![t] = "check"]
      /\ UNCHANGED <<row, processed, emitted, adjusted, applied>>
  BY DEF Accept
<1> HIDE DEF c, r, s
<1>5. s \in ProductInventory /\ r.total \in Int /\ s.total \in Int
  BY <1>2, <1>3 DEF StepSound, ProductInventory
<1>6. TypeOK'
  BY <1>1, <1>4, <1>5 DEF IInv, TypeOK
<1>7. HasCommand'
  BY <1>4 DEF IInv, TypeOK, HasCommand
<1>8. OthersHaveNothing'
  BY <1>2, <1>4 DEF IInv, TypeOK, OthersHaveNothing
<1>9. HolderAhead'
  <2> SUFFICES ASSUME NEW u \in Transactions, lock' = u
               PROVE  /\ Sound(view'[u])
                      /\ AllForward(row', view'[u])
                      /\ Ledger(view'[u]) = InitialStock + adjusted' + delta'[u]
                      /\ \A d \in done'[u] : Reported(view'[u], d)
    BY DEF HolderAhead, Sound, AllForward, Ledger, Reported, Loadable,
           StockAddsUp, ReservedIsPending, Units, WithStatus
  <2>1. u = t /\ view'[t] = s /\ row' = row /\ done'[t] = done[t] \cup {c}
    BY <1>4 DEF IInv, TypeOK
  <2>2. AllForward(row, s)
    BY <1>2, <1>3, <1>5, ForwardTransitive DEF StepSound, IInv, TypeOK
  <2>3. Ledger(s) = InitialStock + adjusted' + delta'[t]
    <3>1. delta[t] \in Int /\ adjusted \in Int /\ InitialStock \in Int
          /\ adjusted' = adjusted
      BY <1>4, InventoryConstants DEF IInv, TypeOK
    <3>2. delta'[t] = IF c.op \in OwnerOps
                      THEN delta[t] + s.total - r.total ELSE delta[t]
      BY <1>4 DEF IInv, TypeOK
    <3>3. Ledger(s) = Ledger(r) +
                        (IF c.op \in OwnerOps THEN s.total - r.total ELSE 0)
      BY <1>3 DEF StepSound
    <3> QED
      BY <1>2, <1>5, <3>1, <3>2, <3>3
  <2>4. \A d \in done[t] : Reported(s, d)
    <3> TAKE d \in done[t]
    <3>1. d \in Command
      BY DEF IInv, TypeOK
    <3> QED
      BY <1>2, <1>3, <1>5, <3>1, ReportedForward DEF StepSound
  <2> QED
    BY <1>3, <2>1, <2>2, <2>3, <2>4 DEF StepSound
<1>10. Sound(row)' /\ StockLedger' /\ EventsMatchReservations'
  BY <1>4 DEF IInv, StockLedger, EventsMatchReservations
<1> QED
  BY <1>6, <1>7, <1>8, <1>9, <1>10 DEF IInv

LEMMA RejectOwnerIInv ==
  ASSUME IInv, NEW t \in Transactions, RejectOwnerCommand(t)
  PROVE  IInv'
<1>1. Tail(queue[t]) \in Seq(Command)
  BY HeadCommand DEF RejectOwnerCommand
<1>2. /\ Loaded(t) \in ProductInventory
      /\ Sound(Loaded(t))
      /\ AllForward(row, Loaded(t))
      /\ Ledger(Loaded(t)) = InitialStock + adjusted + delta[t]
      /\ \A d \in done[t] : Reported(Loaded(t), d)
      /\ \A u \in Transactions : u # t => lock # u
  BY LoadedSound DEF RejectOwnerCommand
<1>3. TypeOK'
  BY <1>1, <1>2 DEF RejectOwnerCommand, IInv, TypeOK
<1>4. HasCommand'
  BY DEF RejectOwnerCommand, IInv, TypeOK, HasCommand
<1>5. OthersHaveNothing'
  BY <1>2 DEF RejectOwnerCommand, IInv, TypeOK, OthersHaveNothing
<1>6. HolderAhead'
  <2> SUFFICES ASSUME NEW u \in Transactions, lock' = u
               PROVE  /\ Sound(view'[u])
                      /\ AllForward(row', view'[u])
                      /\ Ledger(view'[u]) = InitialStock + adjusted' + delta'[u]
                      /\ \A d \in done'[u] : Reported(view'[u], d)
    BY DEF HolderAhead, Sound, AllForward, Ledger, Reported, Loadable,
           StockAddsUp, ReservedIsPending, Units, WithStatus
  <2>1. u = t /\ view'[t] = Loaded(t) /\ row' = row /\ done' = done
        /\ delta' = delta /\ adjusted' = adjusted
    BY DEF RejectOwnerCommand, IInv, TypeOK
  <2> QED
    BY <1>2, <2>1
<1>7. Sound(row)' /\ StockLedger' /\ EventsMatchReservations'
  BY DEF RejectOwnerCommand, IInv, StockLedger, EventsMatchReservations
<1> QED
  BY <1>3, <1>4, <1>5, <1>6, <1>7 DEF IInv

(* A transaction that ends leaves no trace outside the committed data.     *)
LEMMA FinishKeeps ==
  ASSUME IInv, NEW t \in Transactions, Finish(t)
  PROVE  /\ lock' \in Transactions \cup {None} /\ lock' # t
         /\ pc' \in [Transactions -> {"idle", "check", "execute"}]
         /\ queue' \in [Transactions -> Seq(Command)]
         /\ view' \in [Transactions -> ProductInventory]
         /\ done' \in [Transactions -> SUBSET Command]
         /\ delta' \in [Transactions -> Int]
         /\ HasCommand'
         /\ OthersHaveNothing'
         /\ \A u \in Transactions : lock' = u =>
              lock = u /\ view'[u] = view[u] /\ done'[u] = done[u]
              /\ delta'[u] = delta[u]
<1>1. /\ queue' \in [Transactions -> Seq(Command)]
      /\ view' \in [Transactions -> ProductInventory]
      /\ done' \in [Transactions -> SUBSET Command]
      /\ delta' \in [Transactions -> Int]
      /\ pc' \in [Transactions -> {"idle", "check", "execute"}]
  BY NewInventorySound DEF Finish, IInv, TypeOK
<1>2. lock' \in Transactions \cup {None} /\ lock' # t
  BY InventoryConstants DEF Finish, IInv, TypeOK
<1>3. HasCommand'
  BY DEF Finish, IInv, TypeOK, HasCommand
<1>4. OthersHaveNothing'
  BY DEF Finish, IInv, TypeOK, OthersHaveNothing
<1>5. ASSUME NEW u \in Transactions, lock' = u
      PROVE  lock = u /\ view'[u] = view[u] /\ done'[u] = done[u]
             /\ delta'[u] = delta[u]
  BY <1>2, <1>5, InventoryConstants DEF Finish, IInv, TypeOK
<1> QED
  BY <1>1, <1>2, <1>3, <1>4, <1>5

LEMMA RollbackIInv ==
  ASSUME IInv, NEW t \in Transactions, Finish(t),
         UNCHANGED <<row, processed, emitted, adjusted, applied>>
  PROVE  IInv'
<1>1. TypeOK' /\ HasCommand' /\ OthersHaveNothing'
  BY FinishKeeps DEF IInv, TypeOK
<1>2. HolderAhead'
  <2> SUFFICES ASSUME NEW u \in Transactions, lock' = u
               PROVE  /\ Sound(view'[u])
                      /\ AllForward(row', view'[u])
                      /\ Ledger(view'[u]) = InitialStock + adjusted' + delta'[u]
                      /\ \A d \in done'[u] : Reported(view'[u], d)
    BY DEF HolderAhead, Sound, AllForward, Ledger, Reported, Loadable,
           StockAddsUp, ReservedIsPending, Units, WithStatus
  <2>1. lock = u /\ view'[u] = view[u] /\ done'[u] = done[u]
        /\ delta'[u] = delta[u]
    BY FinishKeeps
  <2> QED
    BY <2>1 DEF IInv, HolderAhead
<1>3. Sound(row)' /\ StockLedger' /\ EventsMatchReservations'
  BY DEF IInv, StockLedger, EventsMatchReservations
<1> QED
  BY <1>1, <1>2, <1>3 DEF IInv

(* COMMIT makes the holder's copy the row; without the lock it changes     *)
(* nothing.                                                                *)
LEMMA CommitRow ==
  ASSUME IInv, NEW t \in Transactions, Commit(t)
  PROVE  /\ row' \in ProductInventory
         /\ Sound(row')
         /\ AllForward(row, row')
         /\ Ledger(row') = InitialStock + adjusted'
         /\ \A c \in done[t] : Reported(row', c)
         /\ \A u \in Transactions : lock' = u =>
              row' = row /\ adjusted' = adjusted
<1>1. CASE lock = t
  <2>1. row' = view[t] /\ adjusted' = adjusted + delta[t] /\ lock' = None
    BY <1>1 DEF Commit, Finish
  <2>2. view[t] \in ProductInventory /\ adjusted \in Int /\ delta[t] \in Int
        /\ InitialStock \in Int
    BY InventoryConstants DEF IInv, TypeOK
  <2> QED
    BY <1>1, <2>1, <2>2, InventoryConstants DEF IInv, HolderAhead
<1>2. CASE lock # t
  <2>1. done[t] = {} /\ delta[t] = 0
    BY <1>2 DEF IInv, OthersHaveNothing
  <2>2. row' = row /\ adjusted' = adjusted
    BY <1>2, <2>1 DEF Commit, IInv, TypeOK
  <2>3. AllForward(row, row)
    BY DEF AllForward, Forward
  <2> QED
    BY <2>1, <2>2, <2>3 DEF IInv, TypeOK, StockLedger, Ledger
<1> QED
  BY <1>1, <1>2

(* What was reported stays true in a row that moved forward, and what is   *)
(* reported now is true of it.                                             *)
LEMMA CommitEvents ==
  ASSUME IInv, NEW t \in Transactions, Commit(t)
  PROVE  EventsMatchReservations'
<1>0. /\ row \in ProductInventory /\ row' \in ProductInventory
      /\ AllForward(row, row')
      /\ \A c \in done[t] : Reported(row', c) /\ c \in Command
      /\ emitted' = emitted \cup {<<EventName(c), c.order>> :
                                   c \in {d \in done[t] : d.op \in SagaOps}}
  BY CommitRow DEF IInv, TypeOK, Commit
<1> SUFFICES ASSUME NEW o \in Orders, NEW n \in EventNames,
                    <<n, o>> \in emitted'
             PROVE  /\ n = "InventoryReservedEvent"
                         => row'.reservations[o].status # "NONE"
                    /\ n = "InventoryConfirmedEvent"
                         => row'.reservations[o].status = "CONFIRMED"
                    /\ n = "InventoryReleasedEvent"
                         => row'.reservations[o].status = "CANCELLED"
  BY DEF EventsMatchReservations, EventNames
<1>1. CASE <<n, o>> \in emitted
  <2>1. Forward(row.reservations[o], row'.reservations[o])
    BY <1>0 DEF AllForward
  <2> QED
    BY <1>1, <2>1 DEF IInv, EventsMatchReservations, Forward
<1>2. CASE <<n, o>> \notin emitted
  <2>1. PICK c \in done[t] : c.op \in SagaOps /\ n = EventName(c)
                             /\ o = c.order
    BY <1>0, <1>2
  <2> QED
    BY <1>0, <2>1 DEF EventName, SagaOps, Reported
<1> QED
  BY <1>1, <1>2

LEMMA CommitIInv ==
  ASSUME IInv, NEW t \in Transactions, Commit(t)
  PROVE  IInv'
<1>1. Finish(t)
  BY DEF Commit
<1>2. TypeOK'
  <2>1. \A c \in done[t] : c.id \in Ids /\ HandlerName(c) \in HandlerNames
    BY DEF IInv, TypeOK, Command, HandlerName, HandlerNames
  <2>2. processed' \subseteq HandlerNames \X Ids
    BY <2>1 DEF Commit, IInv, TypeOK, Key
  <2>3. \A c \in done[t] : c.op \in SagaOps =>
          c.order \in Orders /\ EventName(c) \in EventNames
    <3> TAKE c \in done[t]
    <3> HAVE c.op \in SagaOps
    <3>1. c \in Command
      BY DEF IInv, TypeOK
    <3>2. c.order \in Orders
      BY <3>1 DEF Command, SagaOps, OwnerOps
    <3>3. EventName(c) \in EventNames
      BY DEF EventName, EventNames, SagaOps
    <3> QED
      BY <3>2, <3>3
  <2>4. emitted' \subseteq EventNames \X Orders
    BY <2>3 DEF Commit, IInv, TypeOK
  <2>5. adjusted' \in Int /\ applied' \in [Ids -> Nat]
    BY DEF Commit, IInv, TypeOK
  <2> QED
    BY <1>1, <2>2, <2>4, <2>5, CommitRow, FinishKeeps DEF TypeOK
<1>3. HasCommand' /\ OthersHaveNothing'
  BY <1>1, FinishKeeps
<1>4. HolderAhead'
  <2> SUFFICES ASSUME NEW u \in Transactions, lock' = u
               PROVE  /\ Sound(view'[u])
                      /\ AllForward(row', view'[u])
                      /\ Ledger(view'[u]) = InitialStock + adjusted' + delta'[u]
                      /\ \A d \in done'[u] : Reported(view'[u], d)
    BY DEF HolderAhead, Sound, AllForward, Ledger, Reported, Loadable,
           StockAddsUp, ReservedIsPending, Units, WithStatus
  <2>1. lock = u /\ view'[u] = view[u] /\ done'[u] = done[u]
        /\ delta'[u] = delta[u]
    BY <1>1, FinishKeeps
  <2>2. row' = row /\ adjusted' = adjusted
    BY CommitRow
  <2> QED
    BY <2>1, <2>2 DEF IInv, HolderAhead
<1>5. Sound(row)' /\ StockLedger'
  BY CommitRow DEF StockLedger, Ledger, Sound, Loadable, StockAddsUp,
       ReservedIsPending, Units, WithStatus
<1> QED
  BY <1>2, <1>3, <1>4, <1>5, CommitEvents DEF IInv

-----------------------------------------------------------------------------
(* The theorems.                                                           *)

LEMMA NextIInv == IInv /\ [Next]_vars => IInv'
<1> SUFFICES ASSUME IInv, [Next]_vars PROVE IInv'
  OBVIOUS
<1>1. CASE UNCHANGED vars
  BY <1>1 DEF vars, IInv, TypeOK, HasCommand, OthersHaveNothing, HolderAhead,
       StockLedger, EventsMatchReservations
<1>2. CASE Next
  <2> PICK t \in Transactions :
        \/ Begin(t) \/ Duplicate(t) \/ NotDuplicate(t) \/ Accept(t)
        \/ RejectOwnerCommand(t) \/ RejectSagaCommand(t)
        \/ Rollback(t) \/ Commit(t)
    BY <1>2 DEF Next
  <2>1. CASE Begin(t)
    BY <2>1, BeginIInv
  <2>2. CASE Duplicate(t) \/ NotDuplicate(t)
    BY <2>2, CheckIInv
  <2>3. CASE Accept(t)
    BY <2>3, AcceptIInv
  <2>4. CASE RejectOwnerCommand(t)
    BY <2>4, RejectOwnerIInv
  <2>5. CASE RejectSagaCommand(t)
    BY <2>5, RollbackIInv DEF RejectSagaCommand
  <2>6. CASE Rollback(t)
    BY <2>6, RollbackIInv DEF Rollback
  <2>7. CASE Commit(t)
    BY <2>7, CommitIInv
  <2> QED
    BY <2>1, <2>2, <2>3, <2>4, <2>5, <2>6, <2>7
<1> QED
  BY <1>1, <1>2

(* IInv holds in every reachable state.                                    *)
THEOREM Invariance == Spec => []IInv
BY InitIInv, NextIInv, PTL DEF Spec

(* Every variable keeps its type; in particular no stock quantity that     *)
(* the handlers compute or save is negative.                               *)
THEOREM TypeCorrect == Spec => []TypeOK
<1>1. IInv => TypeOK
  BY DEF IInv
<1> QED
  BY <1>1, Invariance, PTL

(* ProductInventory.__post_init__ accepts every committed row, whatever    *)
(* the commands and however their transactions interleave or crash.        *)
THEOREM AlwaysLoadable == Spec => []InventoryLoadable
<1>1. IInv => InventoryLoadable
  BY DEF IInv, TypeOK, Sound, InventoryLoadable
<1> QED
  BY <1>1, Invariance, PTL

(* No unit of stock is lost or invented.                                   *)
THEOREM StockConserved == Spec => []StockLedger
<1>1. IInv => StockLedger
  BY DEF IInv
<1> QED
  BY <1>1, Invariance, PTL

(* The events that the handlers publish agree with the reservation.        *)
THEOREM EventsTruthful == Spec => []EventsMatchReservations
<1>1. IInv => EventsMatchReservations
  BY DEF IInv
<1> QED
  BY <1>1, Invariance, PTL

(* A reservation never goes back, and never changes its quantity.          *)
THEOREM ForwardOnly == Spec => ReservationsMoveForward
<1>1. IInv /\ [Next]_vars =>
        [\A o \in Orders :
           Forward(row.reservations[o], row'.reservations[o])]_vars
  <2> SUFFICES ASSUME IInv, Next
               PROVE  AllForward(row, row')
    BY DEF AllForward
  <2>1. PICK t \in Transactions : row' = row \/ Commit(t)
    BY DEF Next, Begin, Duplicate, NotDuplicate, Accept, RejectOwnerCommand,
           RejectSagaCommand, Rollback
  <2>2. CASE row' = row
    BY <2>2 DEF AllForward, Forward
  <2>3. CASE Commit(t)
    BY <2>3, CommitRow
  <2> QED
    BY <2>1, <2>2, <2>3
<1> QED
  BY <1>1, Invariance, PTL DEF Spec, ReservationsMoveForward

-----------------------------------------------------------------------------
(* Every command id is executed once, although processed_commands is read  *)
(* before the row is locked.  Two processes that both found an id          *)
(* unprocessed would be an API server and a worker, and the id that of an  *)
(* order's reservation; but the worker was commanded after createOrder had *)
(* committed, with every reservation of the order recorded (Placed).       *)

(* What a transaction still has to do, and what of its batch was done.  A  *)
(* worker's commands are for orders that have been placed.                 *)
Runs(t) ==
  IF pc[t] = "idle" THEN done[t] = {}
  ELSE \E b \in Batches[t] :
         /\ Elements(queue[t]) \cup done[t] \subseteq Elements(b)
         /\ \A c \in Elements(b) : c.op \in SagaOps =>
              /\ c \in Elements(queue[t]) \/ WasProcessed(t, c)
              /\ t \in Workers => row.reservations[c.order].status # "NONE"

Running == \A t \in Transactions : Runs(t)

(* The command a transaction is about to execute, and those it has.        *)
Pending(t) ==
  done[t] \cup (IF pc[t] = "execute" THEN {Head(queue[t])} ELSE {})

PendingUnprocessed ==
  \A t \in Transactions : \A c \in Pending(t) : Key(c) \notin processed

(* A reservation in the row was placed with all the others of its order.   *)
Placed ==
  \A o \in Orders : row.reservations[o].status # "NONE" =>
    \A t \in Api : \A c \in Commands(t) :
      c.op = "reserve" /\ c.order = o => Key(c) \in processed

(* A reservation in the holder's copy is in the row, or the holder's own.  *)
ReservedByHolder ==
  \A t \in Transactions : lock = t =>
    \A o \in Orders : view[t].reservations[o].status # "NONE" =>
      \/ row.reservations[o].status # "NONE"
      \/ \E c \in done[t] : c.op = "reserve" /\ c.order = o

(* What was executed was recorded.                                         *)
Recorded ==
  \A i \in Ids :
    /\ applied[i] <= 1
    /\ applied[i] # 0 =>
         \E t \in Transactions : \E c \in Commands(t) :
           c.id = i /\ Key(c) \in processed

OnceInv ==
  /\ Deployment
  /\ Running
  /\ PendingUnprocessed
  /\ Placed
  /\ ReservedByHolder
  /\ Recorded

(* The elements of a queue are its head's and its tail's.                  *)
LEMMA QueueElements ==
  ASSUME NEW s \in Seq(Command), s # <<>>
  PROVE  Elements(s) = {Head(s)} \cup Elements(Tail(s))
<1>1. /\ Len(s) \in Nat /\ Len(s) # 0
      /\ DOMAIN s = 1..Len(s) /\ Head(s) = s[1]
      /\ Len(Tail(s)) = Len(s) - 1
      /\ DOMAIN Tail(s) = 1..(Len(s) - 1)
      /\ \A j \in 1..(Len(s) - 1) : Tail(s)[j] = s[j + 1]
  OBVIOUS
<1>2. ASSUME NEW i \in 1..Len(s), i # 1
      PROVE  i - 1 \in 1..(Len(s) - 1) /\ Tail(s)[i - 1] = s[i]
  BY <1>1, <1>2
<1>3. \A j \in 1..(Len(s) - 1) : j + 1 \in 1..Len(s)
  BY <1>1
<1>4. 1 \in 1..Len(s)
  BY <1>1
<1>5. ASSUME NEW x \in Elements(s)
      PROVE  x = Head(s) \/ x \in Elements(Tail(s))
  <2>1. PICK i \in 1..Len(s) : x = s[i]
    BY <1>1 DEF Elements
  <2>2. CASE i = 1
    BY <1>1, <2>1, <2>2
  <2>3. CASE i # 1
    BY <1>1, <1>2, <2>1, <2>3 DEF Elements
  <2> QED
    BY <2>2, <2>3
<1>6. ASSUME NEW x \in Elements(Tail(s)) PROVE x \in Elements(s)
  <2>1. PICK j \in 1..(Len(s) - 1) : x = Tail(s)[j]
    BY <1>1 DEF Elements
  <2> QED
    BY <1>1, <1>3, <2>1 DEF Elements
<1>7. Head(s) \in Elements(s)
  BY <1>1, <1>4 DEF Elements
<1> QED
  BY <1>5, <1>6, <1>7

LEMMA EmptyElements == Elements(<<>>) = {}
BY DEF Elements

(* The commands of a running transaction are commands of its process.      *)
LEMMA PendingCommands ==
  ASSUME IInv, Running, NEW t \in Transactions
  PROVE  /\ Pending(t) \subseteq Commands(t)
         /\ pc[t] # "idle" => Pending(t) \subseteq Elements(queue[t]) \cup done[t]
<1>1. CASE pc[t] = "idle"
  BY <1>1 DEF Running, Runs, Pending
<1>2. CASE pc[t] # "idle"
  <2>1. PICK b \in Batches[t] :
          Elements(queue[t]) \cup done[t] \subseteq Elements(b)
    BY <1>2 DEF Running, Runs
  <2>2. Pending(t) \subseteq Elements(queue[t]) \cup done[t]
    <3>1. CASE pc[t] = "execute"
      <4>1. queue[t] \in Seq(Command) /\ queue[t] # <<>>
        BY <3>1 DEF IInv, TypeOK, HasCommand
      <4> QED
        BY <4>1, QueueElements DEF Pending
    <3>2. CASE pc[t] # "execute"
      BY <3>2 DEF Pending
    <3> QED
      BY <3>1, <3>2
  <2> QED
    BY <2>1, <2>2 DEF Commands
<1> QED
  BY <1>1, <1>2

(* Two processes are never about to execute the same command.              *)
LEMMA NoRace ==
  ASSUME IInv, OnceInv, NEW t \in Transactions, NEW u \in Transactions, t # u,
         NEW c \in Pending(t), NEW d \in Pending(u)
  PROVE  Key(c) # Key(d)
<1> SUFFICES ASSUME c.id = d.id PROVE FALSE
  BY DEF Key
<1>1. c \in Commands(t) /\ d \in Commands(u)
  BY PendingCommands DEF OnceInv
<1>2. ASSUME NEW a \in Api, NEW w \in Workers,
             NEW e \in Pending(a), NEW f \in Pending(w), e.id = f.id
      PROVE  FALSE
  <2>1. a \in Transactions /\ w \in Transactions
    BY DEF Transactions
  <2>2. e \in Commands(a) /\ f \in Commands(w)
    BY <2>1, PendingCommands DEF OnceInv
  <2>3. e.op = "reserve" /\ e.order = f.order
    BY <1>2, <2>1, <2>2 DEF OnceInv, Deployment
  <2>4. e \in Command
    <3>1. PICK b \in Batches[a] : e \in Elements(b)
      BY <2>2 DEF Commands
    <3>2. b \in Seq(Command)
      BY <2>1, InventoryConstants
    <3> QED
      BY <3>1, <3>2 DEF Elements
  <2>5. e.order \in Orders
    BY <2>3, <2>4 DEF Command, OwnerOps
  <2>6. row.reservations[f.order].status # "NONE"
    <3>1. pc[w] # "idle"
      BY <2>1 DEF OnceInv, Running, Runs, Pending
    <3>2. PICK b \in Batches[w] :
            /\ Elements(queue[w]) \cup done[w] \subseteq Elements(b)
            /\ \A g \in Elements(b) : g.op \in SagaOps =>
                 row.reservations[g.order].status # "NONE"
      BY <2>1, <3>1 DEF OnceInv, Running, Runs
    <3>3. f \in Elements(b)
      BY <2>1, <3>1, <3>2, PendingCommands DEF OnceInv
    <3>4. HandlerName(e) = HandlerName(f)
      BY <1>2, <2>1, <2>2 DEF OnceInv, Deployment
    <3>5. f.op \in SagaOps
      BY <2>3, <3>4 DEF HandlerName, SagaOps
    <3> QED
      BY <3>2, <3>3, <3>5
  <2>7. Key(e) \in processed
    BY <2>2, <2>3, <2>5, <2>6 DEF OnceInv, Placed
  <2> QED
    BY <2>1, <2>7 DEF OnceInv, PendingUnprocessed
<1>3. (t \in Api /\ u \in Workers) \/ (u \in Api /\ t \in Workers)
  BY DEF OnceInv, Deployment, Transactions
<1> QED
  BY <1>2, <1>3

(* The other transactions go on where they were.                           *)
LEMMA OthersRun ==
  ASSUME IInv, OnceInv, NEW t \in Transactions,
         \A u \in Transactions \ {t} :
           pc'[u] = pc[u] /\ queue'[u] = queue[u] /\ done'[u] = done[u],
         processed \subseteq processed', AllForward(row, row')
  PROVE  \A u \in Transactions \ {t} : Runs(u)'
<1> TAKE u \in Transactions \ {t}
<1>1. CASE pc[u] = "idle"
  BY <1>1 DEF OnceInv, Running, Runs
<1>2. CASE pc[u] # "idle"
  <2>1. PICK b \in Batches[u] :
          /\ Elements(queue[u]) \cup done[u] \subseteq Elements(b)
          /\ \A c \in Elements(b) : c.op \in SagaOps =>
               /\ c \in Elements(queue[u]) \/ WasProcessed(u, c)
               /\ u \in Workers => row.reservations[c.order].status # "NONE"
    BY <1>2 DEF OnceInv, Running, Runs
  <2>2. \A c \in Elements(b) : WasProcessed(u, c) => WasProcessed(u, c)'
    BY DEF WasProcessed
  <2>3. b \in Seq(Command)
    BY InventoryConstants
  <2>4. \A c \in Elements(b) : c.op \in SagaOps => c.order \in Orders
    BY <2>3 DEF Elements, Command, SagaOps, OwnerOps
  <2>5. \A o \in Orders : row.reservations[o].status # "NONE" =>
                          row'.reservations[o].status # "NONE"
    BY DEF AllForward, Forward
  <2> QED
    BY <1>2, <2>1, <2>2, <2>4, <2>5 DEF Runs
<1> QED
  BY <1>1, <1>2

(* A step that commits nothing.                                            *)
LEMMA UncommittedStep ==
  ASSUME IInv, OnceInv, NEW t \in Transactions,
         \A u \in Transactions \ {t} :
           pc'[u] = pc[u] /\ queue'[u] = queue[u] /\ done'[u] = done[u],
         UNCHANGED <<row, processed, applied>>,
         Runs(t)',
         \A c \in Pending(t)' : Key(c) \notin processed,
         ReservedByHolder'
  PROVE  OnceInv'
<1>1. AllForward(row, row')
  BY DEF AllForward, Forward
<1>2. Running'
  BY <1>1, OthersRun DEF Running
<1>3. PendingUnprocessed'
  <2>1. \A u \in Transactions \ {t} : Pending(u)' = Pending(u)
    BY DEF Pending
  <2> QED
    BY <2>1 DEF OnceInv, PendingUnprocessed, Key
<1>4. Placed' /\ Recorded' /\ Deployment'
  BY DEF OnceInv, Placed, Recorded, Deployment, Key
<1> QED
  BY <1>2, <1>3, <1>4 DEF OnceInv

(* A transaction that ends without a commit.                               *)
LEMMA RollbackOnce ==
  ASSUME IInv, OnceInv, NEW t \in Transactions, Finish(t),
         UNCHANGED <<row, processed, emitted, adjusted, applied>>
  PROVE  OnceInv'
<1>1. Runs(t)' /\ Pending(t)' = {}
  BY DEF Finish, Runs, Pending, IInv, TypeOK
<1>2. ReservedByHolder'
  <2> SUFFICES ASSUME NEW u \in Transactions, lock' = u, NEW o \in Orders,
                      view'[u].reservations[o].status # "NONE"
               PROVE  \/ row'.reservations[o].status # "NONE"
                      \/ \E c \in done'[u] : c.op = "reserve" /\ c.order = o
    BY DEF ReservedByHolder
  <2>1. lock = u /\ view'[u] = view[u] /\ done'[u] = done[u]
    BY FinishKeeps
  <2> QED
    BY <2>1 DEF OnceInv, ReservedByHolder
<1>3. \A u \in Transactions \ {t} :
        pc'[u] = pc[u] /\ queue'[u] = queue[u] /\ done'[u] = done[u]
  BY DEF Finish, IInv, TypeOK
<1> QED
  BY <1>1, <1>2, <1>3, UncommittedStep

LEMMA BeginOnce ==
  ASSUME IInv, OnceInv, NEW t \in Transactions, Begin(t)
  PROVE  OnceInv'
<1>1. \A u \in Transactions \ {t} :
        pc'[u] = pc[u] /\ queue'[u] = queue[u] /\ done'[u] = done[u]
  BY DEF Begin, IInv, TypeOK
<1>2. Runs(t)' /\ Pending(t)' = {}
  <2>1. PICK b \in Batches[t] : /\ t \in Workers => Deliverable(b)
                                /\ queue' = [queue EXCEPT ![t] = b]
    BY DEF Begin
  <2>2. queue'[t] = b /\ pc'[t] = "check" /\ done'[t] = {}
    BY <2>1 DEF Begin, OnceInv, Running, Runs, IInv, TypeOK
  <2>3. t \in Workers => \A c \in Elements(b) :
          row'.reservations[c.order].status # "NONE"
    BY <2>1 DEF Begin, Deliverable, Elements
  <2> QED
    BY <2>2, <2>3 DEF Runs, Pending
<1>3. ReservedByHolder'
  BY DEF Begin, OnceInv, ReservedByHolder
<1> QED
  BY <1>1, <1>2, <1>3, UncommittedStep DEF Begin

(* What remains of a transaction's batch when its first command is done.   *)
LEMMA HeadDone ==
  ASSUME IInv, OnceInv, NEW t \in Transactions,
         pc[t] # "idle", pc'[t] # "idle", queue[t] # <<>>,
         queue'[t] = Tail(queue[t]),
         NEW d, d = Head(queue[t]),
         done'[t] \subseteq done[t] \cup {d},
         done[t] \subseteq done'[t],
         row' = row, processed' = processed,
         d.op \in SagaOps => WasProcessed(t, d)'
  PROVE  Runs(t)'
<1>1. PICK b \in Batches[t] :
        /\ Elements(queue[t]) \cup done[t] \subseteq Elements(b)
        /\ \A c \in Elements(b) : c.op \in SagaOps =>
             /\ c \in Elements(queue[t]) \/ WasProcessed(t, c)
             /\ t \in Workers => row.reservations[c.order].status # "NONE"
  BY DEF OnceInv, Running, Runs
<1>2. Elements(queue[t]) = {d} \cup Elements(queue'[t])
  BY QueueElements DEF IInv, TypeOK
<1>3. \A c \in Elements(b) : WasProcessed(t, c) => WasProcessed(t, c)'
  BY DEF WasProcessed
<1>4. Elements(queue'[t]) \cup done'[t] \subseteq Elements(b)
  BY <1>1, <1>2
<1>5. \A c \in Elements(b) : c.op \in SagaOps =>
        /\ c \in Elements(queue'[t]) \/ WasProcessed(t, c)'
        /\ t \in Workers => row'.reservations[c.order].status # "NONE"
  BY <1>1, <1>2, <1>3
<1> QED
  BY <1>4, <1>5 DEF Runs

LEMMA CheckOnce ==
  ASSUME IInv, OnceInv, NEW t \in Transactions, Duplicate(t) \/ NotDuplicate(t)
  PROVE  OnceInv'
<1>1. \A u \in Transactions \ {t} :
        pc'[u] = pc[u] /\ queue'[u] = queue[u] /\ done'[u] = done[u]
  BY DEF Duplicate, NotDuplicate, IInv, TypeOK
<1>2. Runs(t)'
  <2>1. CASE Duplicate(t)
    <3>1. PICK d : d = Head(queue[t])
      OBVIOUS
    <3>3. WasProcessed(t, d)'
      BY <2>1, <3>1 DEF Duplicate, WasProcessed
    <3>2. /\ pc[t] # "idle" /\ pc'[t] # "idle" /\ queue[t] # <<>>
          /\ queue'[t] = Tail(queue[t]) /\ done'[t] = done[t]
          /\ row' = row /\ processed' = processed
      BY <2>1 DEF Duplicate, IInv, TypeOK
    <3> QED
      BY <3>1, <3>2, <3>3, HeadDone
  <2>2. CASE NotDuplicate(t)
    <3>1. \A c : WasProcessed(t, c)' <=> WasProcessed(t, c)
      BY <2>2 DEF NotDuplicate, WasProcessed
    <3>2. pc[t] # "idle" /\ pc'[t] # "idle" /\ queue' = queue /\ done' = done
          /\ row' = row
      BY <2>2 DEF NotDuplicate, IInv, TypeOK
    <3> QED
      BY <3>1, <3>2 DEF OnceInv, Running, Runs
  <2> QED
    BY <2>1, <2>2
<1>3. \A c \in Pending(t)' : Key(c) \notin processed
  <2>1. CASE Duplicate(t)
    BY <2>1 DEF Duplicate, Pending, OnceInv, PendingUnprocessed
  <2>2. CASE NotDuplicate(t)
    BY <2>2 DEF NotDuplicate, Pending, OnceInv, PendingUnprocessed,
         WasProcessed, Key
  <2> QED
    BY <2>1, <2>2
<1>4. ReservedByHolder'
  BY DEF Duplicate, NotDuplicate, OnceInv, ReservedByHolder
<1>5. UNCHANGED <<row, processed, applied>>
  BY DEF Duplicate, NotDuplicate
<1> QED
  BY <1>1, <1>2, <1>3, <1>4, <1>5, UncommittedStep

(* Only a reserve command makes a reservation appear.                      *)
LEMMA OnlyReserveReserves ==
  ASSUME NEW r \in ProductInventory, NEW c \in Command, Sound(r),
         Accepts(r, c), NEW o \in Orders,
         r.reservations[o].status = "NONE",
         Apply(r, c).reservations[o].status # "NONE"
  PROVE  c.op = "reserve" /\ c.order = o
<1>1. CASE c.op \in OwnerOps
  BY <1>1 DEF OwnerOps, Apply, increase_stock, correct_total_stock,
       pause_sales, resume_sales, ProductInventory
<1>2. CASE c.op = "reserve"
  BY <1>2 DEF Apply, reserve_inventory, SetReservation, ProductInventory
<1>3. CASE c.op = "release"
  BY <1>3 DEF Accepts, Apply, release_reservation, release_reservation_ok,
       SetReservation, ProductInventory
<1>4. CASE c.op = "confirm"
  BY <1>4 DEF Accepts, Apply, confirm_reservation, confirm_reservation_ok,
       SetReservation, ProductInventory
<1> QED
  BY <1>1, <1>2, <1>3, <1>4 DEF Command, SagaOps, OwnerOps

LEMMA AcceptOnce ==
  ASSUME IInv, OnceInv, NEW t \in Transactions, Accept(t)
  PROVE  OnceInv'
<1> DEFINE c == Head(queue[t])
           r == Loaded(t)
<1>1. \A u \in Transactions \ {t} :
        pc'[u] = pc[u] /\ queue'[u] = queue[u] /\ done'[u] = done[u]
  BY DEF Accept, IInv, TypeOK
<1>2. /\ pc[t] = "execute" /\ pc'[t] = "check" /\ queue[t] # <<>>
      /\ queue'[t] = Tail(queue[t]) /\ done'[t] = done[t] \cup {c}
      /\ row' = row /\ processed' = processed /\ applied' = applied
      /\ lock' = t /\ view'[t] = Apply(r, c) /\ Accepts(r, c)
  BY DEF Accept, IInv, TypeOK, HasCommand
<1>3. Runs(t)'
  <2>1. PICK d : d = c
    OBVIOUS
  <2>2. WasProcessed(t, d)'
    BY <1>2, <2>1 DEF WasProcessed
  <2> QED
    BY <1>2, <2>1, <2>2, HeadDone
<1>4. Pending(t)' = Pending(t)
  BY <1>2 DEF Pending
<1>5. ReservedByHolder'
  <2> SUFFICES ASSUME NEW u \in Transactions, lock' = u, NEW o \in Orders,
                      view'[u].reservations[o].status # "NONE"
               PROVE  \/ row'.reservations[o].status # "NONE"
                      \/ \E e \in done'[u] : e.op = "reserve" /\ e.order = o
    BY DEF ReservedByHolder
  <2>1. u = t
    BY <1>2
  <2>2. r \in ProductInventory /\ Sound(r) /\ c \in Command
    BY LoadedSound, HeadCommand DEF Accept
  <2>3. CASE r.reservations[o].status = "NONE"
    <3>1. c.op = "reserve" /\ c.order = o
      <4> HIDE DEF c, r
      <4> QED BY <1>2, <2>1, <2>2, <2>3, OnlyReserveReserves
    <3> QED
      BY <1>2, <2>1, <3>1
  <2>4. CASE r.reservations[o].status # "NONE"
    <3>1. CASE lock = t
      BY <1>2, <2>1, <2>4, <3>1 DEF Loaded, OnceInv, ReservedByHolder
    <3>2. CASE lock # t
      BY <1>2, <2>4, <3>2 DEF Loaded
    <3> QED
      BY <3>1, <3>2
  <2> QED
    BY <2>3, <2>4
<1>6. \A d \in Pending(t)' : Key(d) \notin processed
  BY <1>4 DEF OnceInv, PendingUnprocessed
<1> QED
  BY <1>1, <1>2, <1>3, <1>5, <1>6, UncommittedStep

LEMMA RejectOwnerOnce ==
  ASSUME IInv, OnceInv, NEW t \in Transactions, RejectOwnerCommand(t)
  PROVE  OnceInv'
<1>1. \A u \in Transactions \ {t} :
        pc'[u] = pc[u] /\ queue'[u] = queue[u] /\ done'[u] = done[u]
  BY DEF RejectOwnerCommand, IInv, TypeOK
<1>2. /\ pc[t] = "execute" /\ pc'[t] = "check" /\ queue[t] # <<>>
      /\ queue'[t] = Tail(queue[t]) /\ done' = done
      /\ row' = row /\ processed' = processed /\ applied' = applied
      /\ lock' = t /\ view'[t] = Loaded(t)
      /\ Head(queue[t]).op \in OwnerOps
  BY DEF RejectOwnerCommand, IInv, TypeOK, HasCommand
<1>3. Runs(t)'
  <2>1. PICK d : d = Head(queue[t])
    OBVIOUS
  <2>2. d.op \notin SagaOps
    BY <1>2, <2>1 DEF SagaOps, OwnerOps
  <2> QED
    BY <1>2, <2>1, <2>2, HeadDone
<1>4. Pending(t)' \subseteq Pending(t)
  BY <1>2 DEF Pending
<1>5. ReservedByHolder'
  <2> SUFFICES ASSUME NEW u \in Transactions, lock' = u, NEW o \in Orders,
                      view'[u].reservations[o].status # "NONE"
               PROVE  \/ row'.reservations[o].status # "NONE"
                      \/ \E e \in done'[u] : e.op = "reserve" /\ e.order = o
    BY DEF ReservedByHolder
  <2>1. CASE lock = t
    BY <1>2, <2>1 DEF Loaded, OnceInv, ReservedByHolder
  <2>2. CASE lock # t
    BY <1>2, <2>2 DEF Loaded
  <2> QED
    BY <2>1, <2>2
<1>6. \A d \in Pending(t)' : Key(d) \notin processed
  BY <1>4 DEF OnceInv, PendingUnprocessed
<1> QED
  BY <1>1, <1>2, <1>3, <1>5, <1>6, UncommittedStep

(* A reservation becomes visible together with the records of every        *)
(* reserve command of its order.                                           *)
LEMMA CommitPlaced ==
  ASSUME IInv, OnceInv, NEW t \in Transactions, Commit(t)
  PROVE  Placed'
<1>0. /\ pc[t] = "check" /\ queue[t] = <<>>
      /\ processed' = processed \cup {Key(c) : c \in done[t]}
      /\ row' = (IF lock = t THEN view[t] ELSE row)
  BY DEF Commit, Key
<1> SUFFICES ASSUME NEW o \in Orders, row'.reservations[o].status # "NONE",
                    NEW a \in Api, NEW c \in Commands(a),
                    c.op = "reserve", c.order = o
             PROVE  Key(c) \in processed'
  BY DEF Placed, Key
<1>1. CASE row.reservations[o].status # "NONE"
  BY <1>0, <1>1 DEF OnceInv, Placed
<1>2. CASE row.reservations[o].status = "NONE"
  <2>1. PICK d \in done[t] : d.op = "reserve" /\ d.order = o
    BY <1>0, <1>2 DEF OnceInv, ReservedByHolder
  <2>2. PICK b \in Batches[t] :
          /\ done[t] \subseteq Elements(b)
          /\ \A e \in Elements(b) : e.op \in SagaOps =>
               /\ e \in Elements(queue[t]) \/ WasProcessed(t, e)
               /\ t \in Workers => row.reservations[e.order].status # "NONE"
    BY <1>0 DEF OnceInv, Running, Runs
  <2>3. t \in Api
    BY <1>2, <2>1, <2>2 DEF SagaOps, Transactions
  <2>4. a = t
    BY <2>3 DEF OnceInv, Deployment, Transactions
  <2>5. c \in Elements(b)
    BY <2>1, <2>2, <2>3, <2>4 DEF OnceInv, Deployment
  <2>6. WasProcessed(t, c)
    BY <1>0, <2>2, <2>5, EmptyElements DEF SagaOps
  <2> QED
    BY <1>0, <2>6 DEF WasProcessed, Key
<1> QED
  BY <1>1, <1>2

LEMMA CommitOnce ==
  ASSUME IInv, OnceInv, NEW t \in Transactions, Commit(t)
  PROVE  OnceInv'
<1>0. /\ Finish(t)
      /\ processed' = processed \cup {Key(c) : c \in done[t]}
      /\ applied' = [i \in Ids |-> IF \E c \in done[t] : c.id = i
                                   THEN applied[i] + 1 ELSE applied[i]]
  BY DEF Commit, Key
<1>1. \A u \in Transactions \ {t} :
        pc'[u] = pc[u] /\ queue'[u] = queue[u] /\ done'[u] = done[u]
  BY <1>0 DEF Finish, IInv, TypeOK
<1>2. Running'
  <2>1. Runs(t)'
    BY <1>0 DEF Finish, Runs, IInv, TypeOK
  <2>2. \A u \in Transactions \ {t} : Runs(u)'
    BY <1>0, <1>1, CommitRow, OthersRun
  <2> QED
    BY <2>1, <2>2 DEF Running
<1>3. PendingUnprocessed'
  <2> SUFFICES ASSUME NEW u \in Transactions, NEW c \in Pending(u)',
                      Key(c) \in processed'
               PROVE  FALSE
    BY DEF PendingUnprocessed, Key
  <2>1. u # t
    BY <1>0 DEF Finish, Pending, IInv, TypeOK
  <2>2. c \in Pending(u)
    BY <1>1, <2>1 DEF Pending
  <2>3. Key(c) \notin processed
    BY <2>2 DEF OnceInv, PendingUnprocessed
  <2>4. PICK d \in done[t] : Key(c) = Key(d)
    BY <1>0, <2>3
  <2> QED
    BY <2>1, <2>2, <2>4, NoRace DEF Pending
<1>4. ReservedByHolder'
  <2> SUFFICES ASSUME NEW u \in Transactions, lock' = u, NEW o \in Orders,
                      view'[u].reservations[o].status # "NONE"
               PROVE  \/ row'.reservations[o].status # "NONE"
                      \/ \E c \in done'[u] : c.op = "reserve" /\ c.order = o
    BY DEF ReservedByHolder
  <2>1. lock = u /\ view'[u] = view[u] /\ done'[u] = done[u] /\ row' = row
    BY <1>0, FinishKeeps, CommitRow
  <2> QED
    BY <2>1 DEF OnceInv, ReservedByHolder
<1>5. Recorded'
  <2> SUFFICES ASSUME NEW i \in Ids
               PROVE  /\ applied'[i] <= 1
                      /\ applied'[i] # 0 =>
                           \E u \in Transactions : \E c \in Commands(u) :
                             c.id = i /\ Key(c) \in processed'
    BY DEF Recorded, Key
  <2>0. applied[i] \in Nat
    BY DEF IInv, TypeOK
  <2>1. CASE \E c \in done[t] : c.id = i
    <3>1. PICK c \in done[t] : c.id = i
      BY <2>1
    <3>2. c \in Commands(t) /\ Key(c) \notin processed
      BY PendingCommands DEF OnceInv, PendingUnprocessed, Pending
    <3>3. applied[i] = 0
      <4> SUFFICES ASSUME applied[i] # 0 PROVE FALSE
        OBVIOUS
      <4>1. PICK u \in Transactions : \E d \in Commands(u) :
              d.id = i /\ Key(d) \in processed
        BY DEF OnceInv, Recorded
      <4>2. PICK d \in Commands(u) : d.id = i /\ Key(d) \in processed
        BY <4>1
      <4>3. HandlerName(c) = HandlerName(d)
        BY <3>1, <3>2, <4>2 DEF OnceInv, Deployment
      <4> QED
        BY <3>1, <3>2, <4>2, <4>3 DEF Key
    <3>4. applied'[i] = 1
      BY <1>0, <3>1, <3>3
    <3>5. Key(c) \in processed'
      BY <1>0
    <3> QED
      BY <3>1, <3>2, <3>4, <3>5
  <2>2. CASE ~ \E c \in done[t] : c.id = i
    <3>1. applied'[i] = applied[i]
      BY <1>0, <2>2
    <3> QED
      BY <1>0, <3>1 DEF OnceInv, Recorded
  <2> QED
    BY <2>1, <2>2
<1>6. Deployment'
  BY DEF OnceInv, Deployment
<1> QED
  BY <1>2, <1>3, <1>4, <1>5, <1>6, CommitPlaced DEF OnceInv

LEMMA InitOnce == Deployment /\ Init => OnceInv
<1> SUFFICES ASSUME Deployment, Init PROVE OnceInv
  OBVIOUS
<1>1. Running /\ PendingUnprocessed /\ Placed
  BY DEF Init, Running, Runs, PendingUnprocessed, Pending, Placed,
         NewInventory
<1>2. ReservedByHolder
  BY InventoryConstants DEF Init, ReservedByHolder
<1>3. Recorded
  BY DEF Init, Recorded
<1> QED
  BY <1>1, <1>2, <1>3 DEF OnceInv

LEMMA NextOnce == IInv /\ OnceInv /\ [Next]_vars => OnceInv'
<1> SUFFICES ASSUME IInv, OnceInv, [Next]_vars PROVE OnceInv'
  OBVIOUS
<1>1. CASE UNCHANGED vars
  BY <1>1 DEF vars, OnceInv, Deployment, Running, Runs, WasProcessed,
       PendingUnprocessed, Pending, Placed, ReservedByHolder, Recorded, Key
<1>2. CASE Next
  <2> PICK t \in Transactions :
        \/ Begin(t) \/ Duplicate(t) \/ NotDuplicate(t) \/ Accept(t)
        \/ RejectOwnerCommand(t) \/ RejectSagaCommand(t)
        \/ Rollback(t) \/ Commit(t)
    BY <1>2 DEF Next
  <2>1. CASE Begin(t)
    BY <2>1, BeginOnce
  <2>2. CASE Duplicate(t) \/ NotDuplicate(t)
    BY <2>2, CheckOnce
  <2>3. CASE Accept(t)
    BY <2>3, AcceptOnce
  <2>4. CASE RejectOwnerCommand(t)
    BY <2>4, RejectOwnerOnce
  <2>5. CASE RejectSagaCommand(t)
    BY <2>5, RollbackOnce DEF RejectSagaCommand
  <2>6. CASE Rollback(t)
    BY <2>6, RollbackOnce DEF Rollback
  <2>7. CASE Commit(t)
    BY <2>7, CommitOnce
  <2> QED
    BY <2>1, <2>2, <2>3, <2>4, <2>5, <2>6, <2>7
<1> QED
  BY <1>1, <1>2

(* In a deployment of one API server and one worker, every command id is   *)
(* executed at most once, however often HTTP clients and Kafka repeat it.  *)
THEOREM ExecutedOnce == Deployment /\ Spec => []CommandExecutedOnce
<1>1. OnceInv => CommandExecutedOnce
  BY DEF OnceInv, Recorded, CommandExecutedOnce
<1>2. Spec => []IInv
  BY Invariance
<1> QED
  BY <1>1, <1>2, InitOnce, NextOnce, PTL DEF Spec

-----------------------------------------------------------------------------
(* Transactions are serial.  What a transaction has run of its batch is    *)
(* what Stock makes of the committed state with the same commands          *)
(* (SerialTo).  While it does not hold the row all of them were duplicates *)
(* and stay so, whatever the others commit; once it does, nobody else      *)
(* changes what it started from.                                           *)

(* A set with 0 and every successor is all of Nat.                         *)
LEMMA NatSetInduction ==
  ASSUME NEW T \in SUBSET Nat, 0 \in T, \A k \in T : k + 1 \in T
  PROVE  T = Nat
<1> DEFINE less == OpToRel(<, Nat)
<1> SUFFICES ASSUME Nat \ T # {} PROVE FALSE
  OBVIOUS
<1>1. PICK x \in Nat \ T : \A y \in Nat \ T : <<y, x>> \notin less
  <2>1. IsWellFoundedOn(less, Nat)
    BY NatLessThanWellFounded
  <2> HIDE DEF less
  <2> QED
    BY <2>1, WFMin
<1>2. x # 0 /\ x - 1 \in Nat /\ x - 1 < x /\ (x - 1) + 1 = x
  <2>1. x \in Nat /\ x # 0
    OBVIOUS
  <2> QED
    BY <2>1
<1>3. <<x - 1, x>> \in less
  BY <1>1, <1>2 DEF OpToRel
<1>4. x - 1 \in T
  BY <1>1, <1>2, <1>3
<1> QED
  BY <1>1, <1>2, <1>4

(* f runs the first n commands of b on s.                                  *)
Steps(s, b, n, f) ==
  f[0] = s /\ \A k \in 1 .. n : f[k] = Executed(f[k - 1], b[k])

LEMMA StepsExist ==
  ASSUME NEW s, NEW b
  PROVE  \A n \in Nat : \E f : Steps(s, b, n, f)
<1> DEFINE T == {n \in Nat : \E f : Steps(s, b, n, f)}
<1>1. 0 \in T
  <2>1. Steps(s, b, 0, [k \in {0} |-> s])
    BY DEF Steps
  <2> QED
    BY <2>1
<1>2. ASSUME NEW n \in T PROVE n + 1 \in T
  <2>1. PICK f : Steps(s, b, n, f)
    OBVIOUS
  <2> DEFINE g == [k \in 0 .. n + 1 |->
                     IF k = n + 1 THEN Executed(f[n], b[n + 1]) ELSE f[k]]
  <2>2. g[0] = s
    BY <2>1 DEF Steps
  <2>3. ASSUME NEW k \in 1 .. n + 1 PROVE g[k] = Executed(g[k - 1], b[k])
    <3>1. k - 1 \in 0 .. n + 1 /\ k - 1 # n + 1 /\ g[k - 1] = f[k - 1]
      OBVIOUS
    <3>2. CASE k = n + 1
      <4>1. g[k] = Executed(f[n], b[n + 1]) /\ k - 1 = n
        BY <3>2
      <4> HIDE DEF g
      <4> QED
        BY <3>1, <3>2, <4>1
    <3>3. CASE k # n + 1
      <4>1. g[k] = f[k] /\ k \in 1 .. n
        BY <3>3
      <4> HIDE DEF g
      <4> QED
        BY <2>1, <3>1, <4>1 DEF Steps
    <3> QED
      BY <3>2, <3>3
  <2>4. Steps(s, b, n + 1, g)
    <3> HIDE DEF g
    <3> QED
      BY <2>2, <2>3 DEF Steps
  <2> QED
    BY <2>4
<1>3. T = Nat
  <2> HIDE DEF T
  <2> QED
    BY <1>1, <1>2, NatSetInduction DEF T
<1> QED
  BY <1>3

(* After is what its definition says.                                      *)
LEMMA AfterSteps ==
  ASSUME NEW s, NEW b \in Seq(Command)
  PROVE  Steps(s, b, Len(b), After(s, b))
<1>1. Len(b) \in Nat
  OBVIOUS
<1>2. PICK f : Steps(s, b, Len(b), f)
  BY <1>1, StepsExist
<1> DEFINE g == [k \in 0 .. Len(b) |-> f[k]]
<1>3. g = [k \in 0 .. Len(b) |->
             IF k = 0 THEN s ELSE Executed(g[k - 1], b[k])]
  <2>1. ASSUME NEW k \in 0 .. Len(b)
        PROVE  f[k] = IF k = 0 THEN s ELSE Executed(g[k - 1], b[k])
    <3>1. CASE k = 0
      BY <1>2, <3>1 DEF Steps
    <3>2. CASE k # 0
      <4>1. k \in 1 .. Len(b) /\ k - 1 \in 0 .. Len(b)
        BY <1>1, <3>2
      <4>2. g[k - 1] = f[k - 1]
        BY <4>1
      <4>3. f[k] = Executed(f[k - 1], b[k])
        BY <1>2, <4>1 DEF Steps
      <4> QED
        BY <3>2, <4>2, <4>3
    <3> QED
      BY <3>1, <3>2
  <2> QED
    BY <2>1
<1>4. \E h : h = [k \in 0 .. Len(b) |->
                   IF k = 0 THEN s ELSE Executed(h[k - 1], b[k])]
  <2> HIDE DEF g
  <2> QED
    BY <1>3
<1>5. After(s, b) = [k \in 0 .. Len(b) |->
                      IF k = 0 THEN s ELSE Executed(After(s, b)[k - 1], b[k])]
  BY <1>4, Zenon DEF After
<1> HIDE DEF g
<1>6. After(s, b)[0] = s
  <2>1. 0 \in 0 .. Len(b)
    BY <1>1
  <2> QED
    BY <1>5, <2>1, Zenon
<1>7. ASSUME NEW k \in 1 .. Len(b)
      PROVE  After(s, b)[k] = Executed(After(s, b)[k - 1], b[k])
  <2>1. k \in 0 .. Len(b) /\ k # 0
    BY <1>1
  <2> QED
    BY <1>5, <2>1, Zenon
<1> QED
  BY <1>6, <1>7 DEF Steps

(* The first n commands of b, none refused, take s to x.                   *)
SerialTo(s, b, n, x) ==
  /\ After(s, b)[n] = x
  /\ \A k \in 1 .. n : ~ Refuses(After(s, b)[k - 1], b[k])

LEMMA SerialToNone ==
  ASSUME NEW s, NEW b \in Seq(Command)
  PROVE  SerialTo(s, b, 0, s)
BY AfterSteps DEF SerialTo, Steps

LEMMA SerialToNext ==
  ASSUME NEW s, NEW b \in Seq(Command), NEW n \in Nat, n + 1 <= Len(b),
         NEW x, SerialTo(s, b, n, x), ~ Refuses(x, b[n + 1])
  PROVE  SerialTo(s, b, n + 1, Executed(x, b[n + 1]))
<1>1. n + 1 \in 1 .. Len(b) /\ (n + 1) - 1 = n
  OBVIOUS
<1>2. After(s, b)[n + 1] = Executed(x, b[n + 1])
  BY <1>1, AfterSteps DEF SerialTo, Steps
<1>3. ASSUME NEW k \in 1 .. n + 1 PROVE ~ Refuses(After(s, b)[k - 1], b[k])
  <2>1. CASE k = n + 1
    BY <1>1, <2>1 DEF SerialTo
  <2>2. CASE k # n + 1
    <3>1. k \in 1 .. n
      BY <2>2
    <3> QED
      BY <3>1 DEF SerialTo
  <2> QED
    BY <2>1, <2>2
<1> QED
  BY <1>2, <1>3 DEF SerialTo

(* Commands that were all executed before leave everything as it is.       *)
LEMMA SerialToSame ==
  ASSUME NEW s, NEW b \in Seq(Command), NEW n \in Nat, n <= Len(b),
         \A k \in 1 .. n : Key(b[k]) \in s.processed
  PROVE  SerialTo(s, b, n, s)
<1> DEFINE T == {k \in Nat : k <= n => SerialTo(s, b, k, s)}
<1>1. 0 \in T
  BY SerialToNone
<1>2. ASSUME NEW k \in T PROVE k + 1 \in T
  <2> SUFFICES ASSUME k + 1 <= n PROVE SerialTo(s, b, k + 1, s)
    OBVIOUS
  <2>1. k \in Nat /\ SerialTo(s, b, k, s) /\ k + 1 \in 1 .. n /\ k + 1 <= Len(b)
    BY DEF T
  <2>2. ~ Refuses(s, b[k + 1]) /\ Executed(s, b[k + 1]) = s
    BY <2>1 DEF Refuses, Executed
  <2> QED
    BY <2>1, <2>2, SerialToNext
<1>3. T = Nat
  <2> HIDE DEF T
  <2> QED
    BY <1>1, <1>2, NatSetInduction DEF T
<1> QED
  BY <1>3

(* What transaction t would commit now.                                    *)
Ahead(t) ==
  [row |-> Loaded(t),
   processed |-> processed \cup {Key(c) : c \in done[t]},
   emitted |-> emitted \cup {<<EventName(c), c.order>> :
                               c \in {d \in done[t] : d.op \in SagaOps}}]

(* t has run the first n commands of b.                                    *)
HasRun(t, b, n) ==
  /\ Len(queue[t]) = Len(b) - n
  /\ \A i \in 1 .. Len(queue[t]) : queue[t][i] = b[n + i]
  /\ SerialTo(Committed, b, n, Ahead(t))
  /\ lock # t => \A k \in 1 .. n : Key(b[k]) \in processed

RunsSerially(t) ==
  IF pc[t] = "idle" THEN lock # t
  ELSE \E b \in Batches[t] : \E n \in 0 .. Len(b) : HasRun(t, b, n)

(* A command is not executed twice in one transaction.                     *)
NotDone(t) ==
  pc[t] = "execute" => \A d \in done[t] : Key(d) # Key(Head(queue[t]))

SerialInv == \A t \in Transactions : RunsSerially(t) /\ NotDone(t)

(* A transaction that has nothing of its own yet.                          *)
LEMMA AheadUnlocked ==
  ASSUME IInv, NEW t \in Transactions, lock # t
  PROVE  Ahead(t) = Committed
<1>1. done[t] = {} /\ Loaded(t) = row
  BY DEF IInv, OthersHaveNothing, Loaded
<1> QED
  BY <1>1 DEF Ahead, Committed

(* The other transactions are where they were, when nothing is committed.  *)
LEMMA OthersUncommitted ==
  ASSUME SerialInv, NEW u \in Transactions,
         UNCHANGED <<row, processed, emitted>>,
         pc'[u] = pc[u], queue'[u] = queue[u], view'[u] = view[u],
         done'[u] = done[u], (lock' = u) <=> (lock = u)
  PROVE  RunsSerially(u)' /\ NotDone(u)'
<1>1. Ahead(u)' = Ahead(u) /\ Committed' = Committed
  BY DEF Ahead, Committed, Loaded
<1>2. NotDone(u)'
  BY DEF SerialInv, NotDone
<1>3. RunsSerially(u)'
  <2>1. CASE pc[u] = "idle"
    BY <2>1 DEF SerialInv, RunsSerially
  <2>2. CASE pc[u] # "idle"
    <3>0. PICK b \in Batches[u] : \E n \in 0 .. Len(b) : HasRun(u, b, n)
      BY <2>2 DEF SerialInv, RunsSerially
    <3>1. PICK n \in 0 .. Len(b) : HasRun(u, b, n)
      BY <3>0
    <3>2. SerialTo(Committed', b, n, Ahead(u)')
      BY <1>1, <3>1 DEF HasRun
    <3>3. HasRun(u, b, n)'
      BY <3>1, <3>2 DEF HasRun
    <3> QED
      BY <2>2, <3>3 DEF RunsSerially
  <2> QED
    BY <2>1, <2>2
<1> QED
  BY <1>2, <1>3

(* The first command of a transaction's queue is the next of its batch.    *)
LEMMA NextCommand ==
  ASSUME IInv, NEW t \in Transactions, queue[t] # <<>>,
         NEW b \in Batches[t], NEW n \in 0 .. Len(b), HasRun(t, b, n)
  PROVE  /\ b \in Seq(Command) /\ n \in Nat /\ n + 1 <= Len(b)
         /\ Head(queue[t]) = b[n + 1]
         /\ Len(Tail(queue[t])) = Len(b) - (n + 1)
         /\ \A i \in 1 .. Len(Tail(queue[t])) :
              Tail(queue[t])[i] = b[(n + 1) + i]
<1>1. queue[t] \in Seq(Command) /\ b \in Seq(Command)
  BY InventoryConstants DEF IInv, TypeOK
<1>2. /\ Len(queue[t]) \in Nat /\ Len(queue[t]) # 0
      /\ Head(queue[t]) = queue[t][1]
      /\ Len(Tail(queue[t])) = Len(queue[t]) - 1
      /\ \A i \in 1 .. Len(Tail(queue[t])) : Tail(queue[t])[i] = queue[t][i + 1]
  BY <1>1
<1>3. n \in Nat /\ Len(b) \in Nat
  BY <1>1
<1>4. Len(queue[t]) = Len(b) - n
  BY DEF HasRun
<1>5. \A i \in 1 .. Len(queue[t]) : queue[t][i] = b[n + i]
  BY DEF HasRun
<1>6. Head(queue[t]) = b[n + 1]
  BY <1>2, <1>5
<1>7. ASSUME NEW i \in 1 .. Len(Tail(queue[t]))
      PROVE  Tail(queue[t])[i] = b[(n + 1) + i]
  <2>1. i + 1 \in 1 .. Len(queue[t]) /\ n + (i + 1) = (n + 1) + i
    BY <1>2, <1>3
  <2> QED
    BY <1>2, <1>5, <2>1
<1> QED
  BY <1>1, <1>2, <1>3, <1>4, <1>6, <1>7

(* One more command of the batch, at the state the transaction sees.       *)
LEMMA OneMore ==
  ASSUME IInv, SerialInv, NEW t \in Transactions,
         pc[t] # "idle", pc'[t] # "idle", queue[t] # <<>>,
         queue'[t] = Tail(queue[t]),
         UNCHANGED <<row, processed, emitted>>,
         ~ Refuses(Ahead(t), Head(queue[t])),
         Ahead(t)' = Executed(Ahead(t), Head(queue[t])),
         lock' # t => lock # t /\ Key(Head(queue[t])) \in processed
  PROVE  RunsSerially(t)'
<1>0. PICK b \in Batches[t] : \E n \in 0 .. Len(b) : HasRun(t, b, n)
  BY DEF SerialInv, RunsSerially
<1>1. PICK n \in 0 .. Len(b) : HasRun(t, b, n)
  BY <1>0
<1>2. /\ b \in Seq(Command) /\ n \in Nat /\ n + 1 <= Len(b)
      /\ Head(queue[t]) = b[n + 1]
      /\ Len(Tail(queue[t])) = Len(b) - (n + 1)
      /\ \A i \in 1 .. Len(Tail(queue[t])) :
           Tail(queue[t])[i] = b[(n + 1) + i]
  BY <1>1, NextCommand
<1>3. Committed' = Committed
  BY DEF Committed
<1>4. SerialTo(Committed, b, n + 1, Ahead(t)')
  <2>1. SerialTo(Committed, b, n, Ahead(t))
    BY <1>1 DEF HasRun
  <2> QED
    BY <1>2, <2>1, SerialToNext
<1>5. SerialTo(Committed', b, n + 1, Ahead(t)')
  BY <1>3, <1>4
<1>6. lock' # t => \A k \in 1 .. n + 1 : Key(b[k]) \in processed
  <2> SUFFICES ASSUME lock' # t, NEW k \in 1 .. n + 1
               PROVE  Key(b[k]) \in processed
    OBVIOUS
  <2>1. CASE k = n + 1
    BY <1>2, <2>1
  <2>2. CASE k # n + 1
    <3>1. k \in 1 .. n
      BY <1>2, <2>2
    <3> QED
      BY <1>1, <3>1 DEF HasRun
  <2> QED
    BY <2>1, <2>2
<1>7. HasRun(t, b, n + 1)'
  BY <1>2, <1>5, <1>6 DEF HasRun
<1>8. n + 1 \in 0 .. Len(b)
  BY <1>2
<1> QED
  BY <1>7, <1>8 DEF RunsSerially

(* A transaction that ends, and the others.                                *)
LEMMA FinishSerial ==
  ASSUME IInv, SerialInv, NEW t \in Transactions, Finish(t)
  PROVE  /\ RunsSerially(t)' /\ NotDone(t)'
         /\ \A u \in Transactions \ {t} :
              /\ pc'[u] = pc[u] /\ queue'[u] = queue[u]
              /\ view'[u] = view[u] /\ done'[u] = done[u]
              /\ (lock' = u) <=> (lock = u)
<1>1. pc'[t] = "idle" /\ lock' # t
  BY FinishKeeps DEF Finish, IInv, TypeOK
<1>2. RunsSerially(t)' /\ NotDone(t)'
  BY <1>1 DEF RunsSerially, NotDone
<1>3. \A u \in Transactions \ {t} :
        /\ pc'[u] = pc[u] /\ queue'[u] = queue[u]
        /\ view'[u] = view[u] /\ done'[u] = done[u]
  BY DEF Finish, IInv, TypeOK
<1>4. \A u \in Transactions \ {t} : (lock' = u) <=> (lock = u)
  BY InventoryConstants DEF Finish
<1> QED
  BY <1>2, <1>3, <1>4

(* A step of t that commits nothing.                                       *)
LEMMA UncommittedSerial ==
  ASSUME IInv, SerialInv, NEW t \in Transactions,
         UNCHANGED <<row, processed, emitted>>,
         \A u \in Transactions \ {t} :
           /\ pc'[u] = pc[u] /\ queue'[u] = queue[u]
           /\ view'[u] = view[u] /\ done'[u] = done[u]
           /\ (lock' = u) <=> (lock = u),
         RunsSerially(t)', NotDone(t)'
  PROVE  SerialInv'
<1>1. ASSUME NEW u \in Transactions, u # t
      PROVE  RunsSerially(u)' /\ NotDone(u)'
  BY <1>1, OthersUncommitted
<1> QED
  BY <1>1 DEF SerialInv

LEMMA BeginSerial ==
  ASSUME IInv, SerialInv, NEW t \in Transactions, Begin(t)
  PROVE  SerialInv'
<1>1. PICK b \in Batches[t] : queue' = [queue EXCEPT ![t] = b]
  BY DEF Begin
<1>2. b \in Seq(Command) /\ queue'[t] = b /\ pc'[t] = "check"
  BY <1>1, InventoryConstants DEF Begin, IInv, TypeOK
<1>3. lock # t
  BY DEF Begin, SerialInv, RunsSerially
<1>4. Ahead(t)' = Committed'
  <2>1. Ahead(t) = Committed
    BY <1>3, AheadUnlocked
  <2> QED
    BY <1>3, <2>1 DEF Begin, Ahead, Committed, Loaded
<1>5. HasRun(t, b, 0)'
  <2>1. SerialTo(Committed', b, 0, Ahead(t)')
    BY <1>2, <1>4, SerialToNone
  <2>2. Len(b) \in Nat /\ \A i \in 1 .. Len(b) : 0 + i = i
    BY <1>2
  <2> QED
    BY <1>2, <2>1, <2>2 DEF HasRun
<1>6. RunsSerially(t)' /\ NotDone(t)'
  <2>1. 0 \in 0 .. Len(b)
    BY <1>2
  <2> QED
    BY <1>2, <1>5, <2>1 DEF RunsSerially, NotDone
<1>7. \A u \in Transactions \ {t} :
        /\ pc'[u] = pc[u] /\ queue'[u] = queue[u]
        /\ view'[u] = view[u] /\ done'[u] = done[u]
        /\ (lock' = u) <=> (lock = u)
  BY DEF Begin, IInv, TypeOK
<1> QED
  BY <1>6, <1>7, UncommittedSerial DEF Begin

LEMMA DuplicateSerial ==
  ASSUME IInv, SerialInv, NEW t \in Transactions, Duplicate(t)
  PROVE  SerialInv'
<1> DEFINE c == Head(queue[t])
<1>1. Key(c) \in Ahead(t).processed
  BY DEF Duplicate, WasProcessed, Ahead
<1>2. ~ Refuses(Ahead(t), c) /\ Executed(Ahead(t), c) = Ahead(t)
  BY <1>1 DEF Refuses, Executed
<1>3. Ahead(t)' = Ahead(t)
  BY DEF Duplicate, Ahead, Loaded
<1>4. lock' # t => lock # t /\ Key(c) \in processed
  BY DEF Duplicate, WasProcessed, IInv, OthersHaveNothing
<1>5. /\ pc[t] # "idle" /\ pc'[t] = "check"
      /\ queue[t] # <<>> /\ queue'[t] = Tail(queue[t])
  BY DEF Duplicate, IInv, TypeOK
<1>6. UNCHANGED <<row, processed, emitted>>
  BY DEF Duplicate
<1>7. RunsSerially(t)' /\ NotDone(t)'
  BY <1>2, <1>3, <1>4, <1>5, <1>6, OneMore DEF NotDone
<1>8. \A u \in Transactions \ {t} :
        /\ pc'[u] = pc[u] /\ queue'[u] = queue[u]
        /\ view'[u] = view[u] /\ done'[u] = done[u]
        /\ (lock' = u) <=> (lock = u)
  BY DEF Duplicate, IInv, TypeOK
<1> QED
  BY <1>6, <1>7, <1>8, UncommittedSerial

LEMMA NotDuplicateSerial ==
  ASSUME IInv, SerialInv, NEW t \in Transactions, NotDuplicate(t)
  PROVE  SerialInv'
<1>1. /\ pc[t] # "idle" /\ pc'[t] = "execute"
      /\ UNCHANGED <<row, processed, emitted, lock, queue, view, done>>
  BY DEF NotDuplicate, IInv, TypeOK
<1>2. NotDone(t)'
  BY <1>1 DEF NotDuplicate, WasProcessed, NotDone
<1>3. RunsSerially(t)'
  <2>0. PICK b \in Batches[t] : \E n \in 0 .. Len(b) : HasRun(t, b, n)
    BY <1>1 DEF SerialInv, RunsSerially
  <2>1. PICK n \in 0 .. Len(b) : HasRun(t, b, n)
    BY <2>0
  <2>2. Ahead(t)' = Ahead(t) /\ Committed' = Committed
    BY <1>1 DEF Ahead, Loaded, Committed
  <2>3. SerialTo(Committed', b, n, Ahead(t)')
    BY <2>1, <2>2 DEF HasRun
  <2>4. HasRun(t, b, n)'
    BY <1>1, <2>1, <2>3 DEF HasRun
  <2> QED
    BY <1>1, <2>4 DEF RunsSerially
<1>4. \A u \in Transactions \ {t} :
        /\ pc'[u] = pc[u] /\ queue'[u] = queue[u]
        /\ view'[u] = view[u] /\ done'[u] = done[u]
        /\ (lock' = u) <=> (lock = u)
  BY <1>1 DEF NotDuplicate, IInv, TypeOK
<1> QED
  BY <1>1, <1>2, <1>3, <1>4, UncommittedSerial

(* An accepted command: nobody else has executed it meanwhile.             *)
LEMMA AcceptSerial ==
  ASSUME IInv, OnceInv, SerialInv, NEW t \in Transactions, Accept(t)
  PROVE  SerialInv'
<1> DEFINE c == Head(queue[t])
<1>1. /\ pc[t] = "execute" /\ pc'[t] = "check"
      /\ queue[t] # <<>> /\ queue'[t] = Tail(queue[t])
      /\ done'[t] = done[t] \cup {c} /\ lock' = t
      /\ view'[t] = Apply(Loaded(t), c)
      /\ Accepts(Loaded(t), c)
  BY DEF Accept, IInv, TypeOK, HasCommand
<1>2. Key(c) \notin Ahead(t).processed
  <2>1. Key(c) \notin processed
    BY <1>1 DEF OnceInv, PendingUnprocessed, Pending
  <2>2. \A d \in done[t] : Key(d) # Key(c)
    BY <1>1 DEF SerialInv, NotDone
  <2> QED
    BY <2>1, <2>2 DEF Ahead
<1>3. Ahead(t).row = Loaded(t)
  BY DEF Ahead
<1>4. UNCHANGED <<row, processed, emitted>>
  BY DEF Accept
<1>5. Ahead(t)' = Executed(Ahead(t), c)
  <2>1. Loaded(t)' = Apply(Loaded(t), c)
    BY <1>1 DEF Loaded
  <2>2. {Key(d) : d \in done'[t]} = {Key(d) : d \in done[t]} \cup {Key(c)}
    BY <1>1
  <2>3. {<<EventName(d), d.order>> : d \in {e \in done'[t] : e.op \in SagaOps}} =
          {<<EventName(d), d.order>> : d \in {e \in done[t] : e.op \in SagaOps}}
            \cup {<<EventName(d), d.order>> : d \in {e \in {c} : e.op \in SagaOps}}
    BY <1>1
  <2>4. Executed(Ahead(t), c) =
          [row |-> Apply(Ahead(t).row, c),
           processed |-> Ahead(t).processed \cup {Key(c)},
           emitted |-> Ahead(t).emitted \cup
             {<<EventName(d), d.order>> : d \in {e \in {c} : e.op \in SagaOps}}]
    BY <1>1, <1>2, <1>3 DEF Executed
  <2>5. Ahead(t)'.processed = Ahead(t).processed \cup {Key(c)}
    BY <1>4, <2>2 DEF Ahead
  <2>6. Ahead(t)'.emitted = Ahead(t).emitted \cup
          {<<EventName(d), d.order>> : d \in {e \in {c} : e.op \in SagaOps}}
    BY <1>4, <2>3 DEF Ahead
  <2>7. Ahead(t)'.row = Apply(Ahead(t).row, c)
    BY <1>3, <2>1 DEF Ahead
  <2>8. Ahead(t)' = [row |-> Ahead(t)'.row, processed |-> Ahead(t)'.processed,
                     emitted |-> Ahead(t)'.emitted]
    BY DEF Ahead
  <2> QED
    BY <2>4, <2>5, <2>6, <2>7, <2>8
<1>6. ~ Refuses(Ahead(t), c)
  BY <1>1, <1>3 DEF Refuses
<1>7. RunsSerially(t)' /\ NotDone(t)'
  BY <1>1, <1>4, <1>5, <1>6, OneMore DEF NotDone
<1>8. \A u \in Transactions \ {t} :
        /\ pc'[u] = pc[u] /\ queue'[u] = queue[u]
        /\ view'[u] = view[u] /\ done'[u] = done[u]
        /\ (lock' = u) <=> (lock = u)
  BY InventoryConstants DEF Accept, Lockable, IInv, TypeOK
<1> QED
  BY <1>4, <1>7, <1>8, UncommittedSerial

(* A refused command of a store owner leaves the copy as it was.           *)
LEMMA RejectOwnerSerial ==
  ASSUME IInv, SerialInv, NEW t \in Transactions, RejectOwnerCommand(t)
  PROVE  SerialInv'
<1> DEFINE c == Head(queue[t])
<1>1. /\ pc[t] = "execute" /\ pc'[t] = "check"
      /\ queue[t] # <<>> /\ queue'[t] = Tail(queue[t])
      /\ done' = done /\ lock' = t
      /\ view'[t] = Loaded(t)
      /\ c.op \in OwnerOps /\ ~ Accepts(Loaded(t), c)
  BY DEF RejectOwnerCommand, IInv, TypeOK, HasCommand
<1>2. Ahead(t).row = Loaded(t)
  BY DEF Ahead
<1>3. ~ Refuses(Ahead(t), c) /\ Executed(Ahead(t), c) = Ahead(t)
  BY <1>1, <1>2 DEF Refuses, Executed, SagaOps, OwnerOps
<1>4. UNCHANGED <<row, processed, emitted>>
  BY DEF RejectOwnerCommand
<1>5. Ahead(t)' = Ahead(t)
  BY <1>1, <1>4 DEF Ahead, Loaded
<1>6. RunsSerially(t)' /\ NotDone(t)'
  BY <1>1, <1>3, <1>4, <1>5, OneMore DEF NotDone
<1>7. \A u \in Transactions \ {t} :
        /\ pc'[u] = pc[u] /\ queue'[u] = queue[u]
        /\ view'[u] = view[u] /\ done'[u] = done[u]
        /\ (lock' = u) <=> (lock = u)
  BY InventoryConstants DEF RejectOwnerCommand, Lockable, IInv, TypeOK
<1> QED
  BY <1>4, <1>6, <1>7, UncommittedSerial

(* COMMIT makes of the committed state what Stock makes of it with the     *)
(* whole batch.                                                            *)
LEMMA CommitRuns ==
  ASSUME IInv, SerialInv, NEW t \in Transactions, Commit(t)
  PROVE  StockNext
<1>0. PICK b \in Batches[t] : \E n \in 0 .. Len(b) : HasRun(t, b, n)
  BY DEF Commit, SerialInv, RunsSerially
<1>1. PICK n \in 0 .. Len(b) : HasRun(t, b, n)
  BY <1>0
<1>2. b \in Seq(Command) /\ Len(b) \in Nat /\ DOMAIN b = 1 .. Len(b)
  BY InventoryConstants
<1>3. n = Len(b)
  <2>1. Len(queue[t]) = 0
    BY DEF Commit
  <2>2. Len(queue[t]) = Len(b) - n
    BY <1>1 DEF HasRun
  <2>3. n \in Nat /\ Len(b) \in Nat
    BY <1>2
  <2>4. Len(b) - n = 0
    BY <2>1, <2>2
  <2> QED
    BY <2>3, <2>4
<1>4. Committed' = Ahead(t)
  BY DEF Commit, Committed, Ahead, Loaded
<1>5. SerialTo(Committed, b, Len(b), Committed')
  BY <1>1, <1>3, <1>4 DEF HasRun
<1>6. Run(b)
  BY <1>2, <1>5 DEF Run, SerialTo
<1> QED
  BY <1>6 DEF StockNext

LEMMA CommitSerial ==
  ASSUME IInv, SerialInv, NEW t \in Transactions, Commit(t)
  PROVE  SerialInv'
<1>1. Finish(t)
  BY DEF Commit
<1>2. /\ RunsSerially(t)' /\ NotDone(t)'
      /\ \A u \in Transactions \ {t} :
           /\ pc'[u] = pc[u] /\ queue'[u] = queue[u]
           /\ view'[u] = view[u] /\ done'[u] = done[u]
           /\ (lock' = u) <=> (lock = u)
  BY <1>1, FinishSerial
<1>3. CASE lock # t
  <2>1. done[t] = {}
    BY <1>3 DEF IInv, OthersHaveNothing
  <2>2. UNCHANGED <<row, processed, emitted>>
    BY <1>3, <2>1 DEF Commit
  <2> QED
    BY <1>2, <2>2, UncommittedSerial
<1>4. CASE lock = t
  <2>1. ASSUME NEW u \in Transactions, u # t
        PROVE  RunsSerially(u)' /\ NotDone(u)'
    <3>1. lock # u /\ lock' # u
      BY <1>2, <1>4, <2>1
    <3>2. NotDone(u)'
      BY <1>2, <2>1 DEF SerialInv, NotDone
    <3>3. CASE pc[u] = "idle"
      BY <1>2, <2>1, <3>1, <3>2, <3>3 DEF RunsSerially
    <3>4. CASE pc[u] # "idle"
      <4>0. PICK b \in Batches[u] : \E n \in 0 .. Len(b) : HasRun(u, b, n)
        BY <3>4 DEF SerialInv, RunsSerially
      <4>1. PICK n \in 0 .. Len(b) : HasRun(u, b, n)
        BY <4>0
      <4>2. \A k \in 1 .. n : Key(b[k]) \in processed'
        BY <3>1, <4>1 DEF HasRun, Commit
      <4>3. Ahead(u)' = Committed'
        <5>1. done'[u] = {}
          BY <1>2, <2>1, <3>1 DEF IInv, OthersHaveNothing
        <5> QED
          BY <3>1, <5>1 DEF Ahead, Committed, Loaded
      <4>4. SerialTo(Committed', b, n, Ahead(u)')
        <5>1. b \in Seq(Command) /\ n \in Nat /\ n <= Len(b)
          BY InventoryConstants
        <5>2. \A k \in 1 .. n : Key(b[k]) \in Committed'.processed
          BY <4>2 DEF Committed
        <5> QED
          BY <4>3, <5>1, <5>2, SerialToSame
      <4>5. HasRun(u, b, n)'
        BY <1>2, <2>1, <4>1, <4>2, <4>4 DEF HasRun
      <4> QED
        BY <1>2, <2>1, <3>2, <3>4, <4>5 DEF RunsSerially
    <3> QED
      BY <3>2, <3>3, <3>4
  <2> QED
    BY <1>2, <2>1 DEF SerialInv
<1> QED
  BY <1>3, <1>4

LEMMA InitSerial == Init => SerialInv /\ StockInit
BY InventoryConstants DEF Init, SerialInv, RunsSerially, NotDone, StockInit

LEMMA NextSerial ==
  IInv /\ OnceInv /\ SerialInv /\ [Next]_vars => SerialInv' /\ [StockNext]_stock
<1> SUFFICES ASSUME IInv, OnceInv, SerialInv, [Next]_vars
             PROVE  SerialInv' /\ [StockNext]_stock
  OBVIOUS
<1>1. CASE UNCHANGED vars
  <2>1. \A u \in Transactions : RunsSerially(u)' /\ NotDone(u)'
    BY <1>1, OthersUncommitted DEF vars
  <2> QED
    BY <1>1, <2>1 DEF vars, stock, SerialInv
<1>2. CASE Next
  <2> PICK t \in Transactions :
        \/ Begin(t) \/ Duplicate(t) \/ NotDuplicate(t) \/ Accept(t)
        \/ RejectOwnerCommand(t) \/ RejectSagaCommand(t)
        \/ Rollback(t) \/ Commit(t)
    BY <1>2 DEF Next
  <2>1. CASE Begin(t)
    BY <2>1, BeginSerial DEF Begin, stock
  <2>2. CASE Duplicate(t)
    BY <2>2, DuplicateSerial DEF Duplicate, stock
  <2>3. CASE NotDuplicate(t)
    BY <2>3, NotDuplicateSerial DEF NotDuplicate, stock
  <2>4. CASE Accept(t)
    BY <2>4, AcceptSerial DEF Accept, stock
  <2>5. CASE RejectOwnerCommand(t)
    BY <2>5, RejectOwnerSerial DEF RejectOwnerCommand, stock
  <2>6. CASE RejectSagaCommand(t) \/ Rollback(t)
    <3>1. Finish(t) /\ UNCHANGED <<row, processed, emitted>>
      BY <2>6 DEF RejectSagaCommand, Rollback
    <3> QED
      BY <3>1, FinishSerial, UncommittedSerial DEF stock
  <2>7. CASE Commit(t)
    BY <2>7, CommitSerial, CommitRuns
  <2> QED
    BY <2>1, <2>2, <2>3, <2>4, <2>5, <2>6, <2>7
<1> QED
  BY <1>1, <1>2

(* In a deployment of one API server and one worker, the transactions that *)
(* overlap change the stock, processed_commands and the outbox as if they  *)
(* had run one after another, each with its whole batch.                   *)
THEOREM Serializable == Deployment /\ Spec => TransactionsAreSerial
<1>1. Spec => []IInv
  BY Invariance
<1> QED
  BY <1>1, InitOnce, NextOnce, InitSerial, NextSerial, PTL
     DEF Spec, TransactionsAreSerial, StockSpec
=============================================================================
