-------------------------- MODULE SeatBookingProofs --------------------------
(* Proofs about SeatBooking for every number of guests, seats and clans.     *)
EXTENDS SeatBooking, FiniteSetTheorems, TLAPS

(* A hold with a payment belongs to an order that is not given back, and one *)
(* that stands for a member's ticket to an order that is paid.               *)
OrdersInv ==
  \A c \in Cells :
    /\ c \in financed => order[hold[c]] \in {"PENDING", "PAID"}
    /\ funded[c] # Nobody => c \in financed /\ order[hold[c]] = "PAID"

(* Nobody has two seats, and a seat the form still has to write is the one   *)
(* of a guest whose payment was taken back.                                  *)
OneSeatEach ==
  \A c \in Cells, u \in Users : by[c] = u =>
    SeatsOf(u) = {c} /\ (c \in unsynced => reg[u] = "UNPAID")

SeatsInv == OneSeatEach /\ SeatMatchesTicket

ClanSeatsInv == ClanSeatsKept /\ \A c \in unsynced : ~Committed(c)

InsideInv == OnlyPaidInside /\ \A u \in deleted : reg[u] # "PAID"

IInv == TypeOK /\ OrdersInv /\ SeatsInv /\ ClanSeatsInv /\ TicketsBacked /\ InsideInv

USE NamesAssumption, ClansAssumption, NumbersAssumption
    DEF NamesAssumption, ClansAssumption, NumbersAssumption,
        eventVars, ticketVars, seatVars, holdVars, orderVars, userVars

-----------------------------------------------------------------------------
(* Lemmas about the operators of the model.                                  *)

LEMMA CommittedSame ==
  ASSUME UNCHANGED <<hold, financed, order, lapsed, event>>
  PROVE  \A c \in Cells : Committed(c)' <=> Committed(c)
BY DEF Committed

(* The seats of a committed hold are out of reach for everybody whom the     *)
(* hold was not assigned to.                                                 *)
LEMMA GuestsOfCommitted ==
  ASSUME ClanSeatsKept, NEW c \in Cells, Committed(c), NEW u \in Users, by[c] = u
  PROVE  funded[c] = u /\ seat[c] = "RESERVED" /\ reg[u] = "PAID"
BY DEF ClanSeatsKept

LEMMA FundedIsCommitted ==
  ASSUME TypeOK, OrdersInv, ClanSeatsKept, NEW c \in Cells, NEW u \in Users, funded[c] = u
  PROVE  Committed(c) /\ by[c] = u /\ seat[c] = "RESERVED" /\ reg[u] = "PAID"
BY DEF OrdersInv, ClanSeatsKept, Committed

LEMMA TalliesAreNumbers ==
  ASSUME TypeOK, NEW D
  PROVE  [k \in Clans |-> used[k] + Cardinality({c \in D \ financed : hold[c] = k /\ c \in claimed})]
           \in [Clans -> Nat]
<1>. SUFFICES ASSUME NEW k \in Clans
              PROVE  used[k] + Cardinality({c \in D \ financed : hold[c] = k /\ c \in claimed}) \in Nat
  OBVIOUS
<1>1. {c \in D \ financed : hold[c] = k /\ c \in claimed} \in SUBSET Cells
  BY DEF TypeOK
<1>2. Cardinality({c \in D \ financed : hold[c] = k /\ c \in claimed}) \in Nat
  BY <1>1, FS_Subset, FS_CardinalityType
<1>. QED
  BY <1>2 DEF TypeOK

(* What is not about seats, tickets and orders.                              *)
LEMMA RestKeeps ==
  ASSUME IInv, UNCHANGED <<reg, paidUp, seatVars, holdVars, order>>,
         \A c \in Cells : Committed(c)' => Committed(c),
         TypeOK', InsideInv'
  PROVE  IInv'
<1>1. OrdersInv' /\ TicketsBacked'
  BY DEF IInv, OrdersInv, TicketsBacked, Funded
<1>2. SeatsInv'
  BY DEF IInv, SeatsInv, OneSeatEach, SeatMatchesTicket, SeatsOf
<1>3. ClanSeatsInv'
  BY DEF IInv, ClanSeatsInv, ClanSeatsKept, TypeOK
<1>. QED
  BY <1>1, <1>2, <1>3 DEF IInv

LEMMA InitIInv == Init => IInv
<1>. SUFFICES ASSUME Init PROVE IInv
  OBVIOUS
<1>1. TypeOK /\ OrdersInv /\ TicketsBacked /\ InsideInv
  BY DEF Init, TypeOK, OrdersInv, TicketsBacked, InsideInv, OnlyPaidInside, Funded
<1>2. SeatsInv /\ ClanSeatsInv
  BY DEF Init, SeatsInv, OneSeatEach, SeatMatchesTicket, ClanSeatsInv, ClanSeatsKept, Committed
<1>. QED
  BY <1>1, <1>2 DEF IInv

-----------------------------------------------------------------------------
(* Tickets: nothing is held or ordered.                                      *)

LEMMA RegistersKeeps ==
  ASSUME IInv, NEW u \in Users, reg[u] \in {"NONE", "CANCELLED"}, Free,
         reg' = [reg EXCEPT ![u] = "UNPAID"],
         UNCHANGED <<eventVars, inside, paidUp, seatVars, holdVars, orderVars, todo, userVars>>
  PROVE  IInv'
<1>1. TypeOK'
  BY DEF IInv, TypeOK
<1>2. OrdersInv'
  BY DEF IInv, OrdersInv
<1>3. SeatsInv'
  BY DEF IInv, SeatsInv, OneSeatEach, SeatMatchesTicket, SeatsOf, Free, TypeOK
<1>4. ClanSeatsInv'
  BY CommittedSame DEF IInv, ClanSeatsInv, ClanSeatsKept, TypeOK, Free
<1>5. TicketsBacked'
  BY DEF IInv, TicketsBacked, Funded, TypeOK
<1>6. InsideInv'
  BY DEF IInv, InsideInv, OnlyPaidInside, TypeOK
<1>. QED
  BY <1>1, <1>2, <1>3, <1>4, <1>5, <1>6 DEF IInv

LEMMA MarkPaidKeeps ==
  ASSUME IInv, NEW u \in Users, MarkPaid(u)
  PROVE  IInv'
<1>. USE DEF MarkPaid
<1>1. TypeOK'
  BY DEF IInv, TypeOK
<1>2. OrdersInv'
  BY DEF IInv, OrdersInv
<1>3. SeatsInv'
  BY DEF IInv, SeatsInv, OneSeatEach, SeatMatchesTicket, SeatsOf, Free, TypeOK
<1>4. ClanSeatsInv'
  <2>1. \A c \in Cells : Committed(c) => c \notin SeatsOf(u)
    BY GuestsOfCommitted DEF IInv, ClanSeatsInv, SeatsOf, Funded
  <2>. QED
    BY <2>1, CommittedSame DEF IInv, ClanSeatsInv, ClanSeatsKept, TypeOK, Free
<1>5. TicketsBacked'
  BY DEF IInv, TicketsBacked, Funded, TypeOK
<1>6. InsideInv'
  BY DEF IInv, InsideInv, OnlyPaidInside, TypeOK
<1>. QED
  BY <1>1, <1>2, <1>3, <1>4, <1>5, <1>6 DEF IInv

LEMMA TakePaymentBackKeeps ==
  ASSUME IInv, NEW u \in Users, TakePaymentBack(u)
  PROVE  IInv'
<1>. USE DEF TakePaymentBack
<1>1. TypeOK'
  BY DEF IInv, TypeOK, SeatsOf
<1>2. OrdersInv'
  BY DEF IInv, OrdersInv
<1>3. SeatsInv'
  BY DEF IInv, SeatsInv, OneSeatEach, SeatMatchesTicket, SeatsOf, Free, TypeOK
<1>4. ClanSeatsInv'
  <2>1. \A c \in Cells : Committed(c) => c \notin SeatsOf(u)
    BY GuestsOfCommitted DEF IInv, ClanSeatsInv, SeatsOf, Funded
  <2>. QED
    BY <2>1, CommittedSame DEF IInv, ClanSeatsInv, ClanSeatsKept, TypeOK, Free, Funded, SeatsOf
<1>5. TicketsBacked'
  BY DEF IInv, TicketsBacked, Funded, TypeOK
<1>6. InsideInv'
  BY DEF IInv, InsideInv, OnlyPaidInside, TypeOK
<1>. QED
  BY <1>1, <1>2, <1>3, <1>4, <1>5, <1>6 DEF IInv

(* A ticket that is cancelled: mark_cancelled, and the deadline worker.      *)
LEMMA CancelledKeeps ==
  ASSUME IInv, NEW u \in Users, Cancelled(u), Free, todo' \subseteq todo,
         UNCHANGED <<eventVars, orderVars, userVars>>
  PROVE  IInv'
<1>. USE DEF Cancelled, Vacated
<1>1. TypeOK'
  BY DEF IInv, TypeOK
<1>2. OrdersInv'
  BY DEF IInv, OrdersInv
<1>3. SeatsInv'
  BY DEF IInv, SeatsInv, OneSeatEach, SeatMatchesTicket, SeatsOf, Free, TypeOK
<1>4. ClanSeatsInv'
  <2>1. \A c \in Cells : Committed(c) /\ c \in SeatsOf(u) => funded[c] = u
    BY GuestsOfCommitted DEF IInv, ClanSeatsInv, SeatsOf
  <2>2. \A c \in Cells : funded[c] = u => c \in SeatsOf(u)
    BY FundedIsCommitted DEF IInv, ClanSeatsInv, SeatsOf
  <2>. QED
    BY <2>1, <2>2, CommittedSame DEF IInv, ClanSeatsInv, ClanSeatsKept, TypeOK, Free
<1>5. TicketsBacked'
  BY DEF IInv, TicketsBacked, Funded, TypeOK
<1>6. InsideInv'
  BY DEF IInv, InsideInv, OnlyPaidInside, TypeOK
<1>. QED
  BY <1>1, <1>2, <1>3, <1>4, <1>5, <1>6 DEF IInv

LEMMA DeleteRegistrationKeeps ==
  ASSUME IInv, NEW u \in Users, DeleteRegistration(u)
  PROVE  IInv'
<1>. USE DEF DeleteRegistration, Vacated
<1>1. TypeOK'
  BY DEF IInv, TypeOK
<1>2. OrdersInv'
  BY DEF IInv, OrdersInv
<1>3. SeatsInv'
  BY DEF IInv, SeatsInv, OneSeatEach, SeatMatchesTicket, SeatsOf, Free, TypeOK
<1>4. ClanSeatsInv'
  <2>1. \A c \in Cells : Committed(c) => c \notin SeatsOf(u)
    BY GuestsOfCommitted DEF IInv, ClanSeatsInv, SeatsOf, Funded
  <2>. QED
    BY <2>1, CommittedSame DEF IInv, ClanSeatsInv, ClanSeatsKept, TypeOK, Free, Funded
<1>5. TicketsBacked'
  BY DEF IInv, TicketsBacked, Funded, TypeOK
<1>6. InsideInv'
  BY DEF IInv, InsideInv, OnlyPaidInside, TypeOK
<1>. QED
  BY <1>1, <1>2, <1>3, <1>4, <1>5, <1>6 DEF IInv

LEMMA DoorKeeps ==
  ASSUME IInv, NEW u \in Users, CheckIn(u) \/ TickCheckIn(u) \/ CheckOut(u)
  PROVE  IInv'
<1>1. /\ UNCHANGED <<eventVars, reg, paidUp, seatVars, holdVars, orderVars, todo, userVars>>
      /\ inside' \subseteq inside \/ (inside' = inside \cup {u} /\ reg[u] = "PAID" /\ u \notin banned)
  BY DEF CheckIn, TickCheckIn, CheckOut, CanCheckIn
<1>2. TypeOK' /\ InsideInv'
  BY <1>1 DEF IInv, TypeOK, InsideInv, OnlyPaidInside
<1>. QED
  BY <1>1, <1>2, CommittedSame, RestKeeps

LEMMA BansKeep ==
  ASSUME IInv, NEW u \in Users, Ban(u) \/ Unban(u)
  PROVE  IInv'
<1>1. UNCHANGED <<eventVars, reg, paidUp, seatVars, holdVars, orderVars, todo, deleted>>
  BY DEF Ban, Unban
<1>2. TypeOK' /\ InsideInv'
  BY DEF IInv, TypeOK, InsideInv, OnlyPaidInside, Ban, Unban
<1>. QED
  BY <1>1, <1>2, CommittedSame, RestKeeps

-----------------------------------------------------------------------------
(* Holds that end.                                                           *)

(* A hold that ends belongs to nobody's ticket.                              *)
LEMMA DetachedKeeps ==
  ASSUME IInv, NEW D, D \subseteq Cells, Detached(D),
         \A c \in D : funded[c] = Nobody,
         order' \in [Clans -> {"NONE", "PENDING", "PAID", "CANCELLED"}],
         \A c \in Cells \ D : c \in financed => order'[hold[c]] = order[hold[c]]
  PROVE  /\ hold' \in [Cells -> Clans \cup {NoClan}]
         /\ claimed' \subseteq Cells /\ used' \in [Clans -> Nat]
         /\ financed' \subseteq {c \in Cells : hold'[c] # NoClan}
         /\ OrdersInv'
<1>. USE DEF Detached
<1>1. used' \in [Clans -> Nat]
  BY TalliesAreNumbers DEF IInv
<1>2. OrdersInv'
  BY DEF IInv, OrdersInv, TypeOK
<1>. QED
  BY <1>1, <1>2 DEF IInv, TypeOK

LEMMA DeleteAccountKeeps ==
  ASSUME IInv, NEW u \in Users, DeleteAccount(u)
  PROVE  IInv'
<1>. DEFINE k == ClanOf[u]
<1>1. /\ Free /\ reg[u] # "PAID" /\ deleted' = deleted \cup {u} /\ u \in Users
      /\ reg' = IF reg[u] = "UNPAID" THEN [reg EXCEPT ![u] = "CANCELLED"] ELSE reg
      /\ inside' = inside \ {u} /\ Vacated(SeatsOf(u))
      /\ UNCHANGED <<eventVars, paidUp, order, lapsed, todo, banned>>
      /\ \/ k # NoClan /\ Detached(CellsHeldBy({k})) /\ alloc' = [alloc EXCEPT ![k] = "none"]
         \/ UNCHANGED <<holdVars, alloc>>
  BY DEF DeleteAccount
<1>2. CellsHeldBy({k}) \subseteq Cells /\ \A c \in CellsHeldBy({k}) : funded[c] = Nobody
  BY DEF CellsHeldBy, IInv, OrdersInv
<1>3. /\ hold' \in [Cells -> Clans \cup {NoClan}]
      /\ claimed' \subseteq Cells /\ used' \in [Clans -> Nat]
      /\ financed' \subseteq {c \in Cells : hold'[c] # NoClan}
      /\ funded' = funded /\ was' = was
      /\ OrdersInv'
  <2>1. CASE Detached(CellsHeldBy({k}))
    BY <2>1, <1>1, <1>2, DetachedKeeps DEF IInv, TypeOK, Detached
  <2>2. CASE UNCHANGED holdVars
    BY <2>2, <1>1 DEF IInv, TypeOK, OrdersInv
  <2>. QED
    BY <1>1, <2>1, <2>2
<1>4. \A c \in Cells : Committed(c)' => Committed(c)
  BY <1>1 DEF Committed, Detached
<1>5. TypeOK'
  BY <1>1, <1>3 DEF IInv, TypeOK, Vacated
<1>6. SeatsInv'
  BY <1>1 DEF IInv, SeatsInv, OneSeatEach, SeatMatchesTicket, SeatsOf, Free, TypeOK, Vacated
<1>7. ClanSeatsInv'
  <2>1. \A c \in Cells : Committed(c) => c \notin SeatsOf(u)
    BY <1>1, GuestsOfCommitted DEF IInv, ClanSeatsInv, SeatsOf
  <2>. QED
    BY <1>1, <1>3, <1>4, <2>1 DEF IInv, ClanSeatsInv, ClanSeatsKept, TypeOK, Free, Vacated
<1>8. TicketsBacked'
  BY <1>1, <1>3 DEF IInv, TicketsBacked, Funded, TypeOK
<1>9. InsideInv'
  BY <1>1 DEF IInv, InsideInv, OnlyPaidInside, TypeOK
<1>. QED
  BY <1>3, <1>5, <1>6, <1>7, <1>8, <1>9 DEF IInv

(* The event, the worker, or a refusal ends orders and allocations.          *)
LEMMA ClosingKeeps ==
  ASSUME IInv, Free, NEW K, K \subseteq Pending, NEW L, L \subseteq Clans,
         order' = [x \in Clans |-> IF x \in K THEN "CANCELLED" ELSE order[x]],
         Detached(CellsPaidBy(K) \cup CellsHeldBy(L)),
         alloc' \in [Clans -> {"none", "open", "late", "ended"}],
         event' = "CLOSED" \/ event' = event, event' = "CLOSED" /\ event # "CLOSED" => K = Pending,
         main' \in {"this", "other", "none"},
         UNCHANGED <<overdue, ticketVars, seatVars, lapsed, todo, userVars>>
  PROVE  IInv'
<1>. DEFINE D == CellsPaidBy(K) \cup CellsHeldBy(L)
<1>1. D \subseteq Cells /\ \A c \in D : funded[c] = Nobody
  BY DEF CellsPaidBy, CellsHeldBy, Pending, IInv, OrdersInv, TypeOK
<1>2. \A c \in Cells \ D : c \in financed => order'[hold[c]] = order[hold[c]]
  BY DEF CellsPaidBy, IInv, TypeOK
<1>3. order' \in [Clans -> {"NONE", "PENDING", "PAID", "CANCELLED"}]
  BY DEF IInv, TypeOK
<1>4. /\ hold' \in [Cells -> Clans \cup {NoClan}]
      /\ claimed' \subseteq Cells /\ used' \in [Clans -> Nat]
      /\ financed' \subseteq {c \in Cells : hold'[c] # NoClan}
      /\ OrdersInv'
  BY <1>1, <1>2, <1>3, DetachedKeeps
<1>5. funded' = funded /\ was' = was
  BY DEF Detached
<1>6. TypeOK'
  BY <1>3, <1>4, <1>5 DEF IInv, TypeOK
<1>7. \A c \in Cells : Committed(c)' => Committed(c)
  BY <1>2 DEF Committed, Detached, IInv, TypeOK, CellsPaidBy, Pending
<1>8. SeatsInv'
  BY DEF IInv, SeatsInv, OneSeatEach, SeatMatchesTicket, SeatsOf
<1>9. ClanSeatsInv'
  BY <1>5, <1>7 DEF IInv, ClanSeatsInv, ClanSeatsKept, TypeOK
<1>10. TicketsBacked'
  BY <1>5 DEF IInv, TicketsBacked, Funded
<1>11. InsideInv'
  BY DEF IInv, InsideInv, OnlyPaidInside
<1>. QED
  BY <1>4, <1>6, <1>8, <1>9, <1>10, <1>11 DEF IInv

-----------------------------------------------------------------------------
(* Seats: no ticket and no order changes.                                    *)

(* Claiming a hold is of no consequence for seats and tickets.               *)
LEMMA SeatsMoveKeeps ==
  ASSUME IInv,
         UNCHANGED <<eventVars, ticketVars, hold, used, financed, funded, was,
                     orderVars, todo, userVars>>,
         claimed' \subseteq Cells, unsynced' \subseteq unsynced,
         seat' \in [Cells -> {"FREE", "PRE", "RESERVED", "BLOCKED"}],
         by' \in [Cells -> Users \cup {Nobody}],
         \A c \in Cells : Committed(c) => seat'[c] = seat[c] /\ by'[c] = by[c],
         SeatsInv'
  PROVE  IInv'
<1>1. TypeOK' /\ OrdersInv' /\ TicketsBacked' /\ InsideInv'
  BY DEF IInv, TypeOK, OrdersInv, TicketsBacked, Funded, InsideInv, OnlyPaidInside
<1>2. ClanSeatsInv'
  BY CommittedSame DEF IInv, ClanSeatsInv, ClanSeatsKept, TypeOK
<1>. QED
  BY <1>1, <1>2 DEF IInv

LEMMA SyncSeatKeeps ==
  ASSUME IInv, NEW c \in Cells, SyncSeat(c)
  PROVE  IInv'
<1>. USE DEF SyncSeat, Synced, Claimed
<1>1. claimed' \subseteq Cells
  BY DEF IInv, TypeOK
<1>2. SeatsInv'
  BY DEF IInv, SeatsInv, OneSeatEach, SeatMatchesTicket, SeatsOf, TypeOK
<1>3. \A x \in Cells : Committed(x) => seat'[x] = seat[x] /\ by'[x] = by[x]
  BY DEF IInv, ClanSeatsInv, TypeOK
<1>. QED
  BY <1>1, <1>2, <1>3, SeatsMoveKeeps DEF IInv, TypeOK

(* A guest without a prepaid ticket takes a seat: reserve_seat_api and the   *)
(* admin's assignment.                                                       *)
LEMMA SeatedKeeps ==
  ASSUME IInv, NEW u \in Users, NEW c \in Cells, Free, reg[u] \in Counted, ~Funded(u),
         ~Committed(c), Seated(u, c, reg), Claimed({c}),
         UNCHANGED <<eventVars, ticketVars, orderVars, todo, userVars>>
  PROVE  IInv'
<1>. USE DEF Seated, Claimed
<1>1. claimed' \subseteq Cells
  BY DEF IInv, TypeOK
<1>2. /\ seat' \in [Cells -> {"FREE", "PRE", "RESERVED", "BLOCKED"}]
      /\ by' \in [Cells -> Users \cup {Nobody}]
  BY DEF IInv, TypeOK, SeatStatus
<1>3. SeatsInv'
  BY DEF IInv, SeatsInv, OneSeatEach, SeatMatchesTicket, SeatsOf, TypeOK, SeatStatus,
         Counted, Free
<1>4. \A x \in Cells : Committed(x) => x \notin SeatsOf(u)
  BY GuestsOfCommitted DEF IInv, ClanSeatsInv, SeatsOf, Funded
<1>5. \A x \in Cells : Committed(x) => seat'[x] = seat[x] /\ by'[x] = by[x]
  BY <1>4
<1>. HIDE DEF Seated
<1>. QED
  BY <1>1, <1>2, <1>3, <1>5, SeatsMoveKeeps DEF Seated

LEMMA ReserveKeeps ==
  ASSUME IInv, NEW u \in Users, NEW c \in Cells, Reserve(u, c) \/ AdminAssign(u, c)
  PROVE  IInv'
BY SeatedKeeps DEF Reserve, AdminAssign, CanReserve, Access

LEMMA VacatedKeeps ==
  ASSUME IInv, NEW D, D \subseteq Cells, Vacated(D), \A c \in D : ~Committed(c),
         UNCHANGED <<eventVars, ticketVars, holdVars, orderVars, todo, userVars>>
  PROVE  IInv'
<1>. USE DEF Vacated
<1>1. /\ seat' \in [Cells -> {"FREE", "PRE", "RESERVED", "BLOCKED"}]
      /\ by' \in [Cells -> Users \cup {Nobody}]
  BY DEF IInv, TypeOK
<1>2. SeatsInv'
  BY DEF IInv, SeatsInv, OneSeatEach, SeatMatchesTicket, SeatsOf, TypeOK
<1>. QED
  BY <1>1, <1>2, SeatsMoveKeeps DEF IInv, TypeOK

LEMMA ReleaseKeeps ==
  ASSUME IInv, NEW u \in Users,
         AdminReleaseOf(u) \/ \E c \in Cells : Release(u, c)
  PROVE  IInv'
<1>1. CASE AdminReleaseOf(u)
  <2>1. SeatsOf(u) \subseteq Cells /\ \A c \in SeatsOf(u) : ~Committed(c)
    BY <1>1, GuestsOfCommitted DEF AdminReleaseOf, IInv, ClanSeatsInv, SeatsOf, Funded
  <2>. QED
    BY <1>1, <2>1, VacatedKeeps DEF AdminReleaseOf
<1>2. CASE \E c \in Cells : Release(u, c)
  BY <1>2, VacatedKeeps DEF Release
<1>. QED
  BY <1>1, <1>2

LEMMA SaveGridKeeps ==
  ASSUME IInv, NEW c \in Cells, SaveGrid(c)
  PROVE  IInv'
<1>. USE DEF SaveGrid, MayRepaint
<1>1. seat' \in [Cells -> {"FREE", "PRE", "RESERVED", "BLOCKED"}]
  BY DEF IInv, TypeOK
<1>2. SeatsInv'
  BY DEF IInv, SeatsInv, OneSeatEach, SeatMatchesTicket, SeatsOf, TypeOK
<1>3. \A x \in Cells : Committed(x) => seat'[x] = seat[x]
  BY DEF IInv, TypeOK
<1>. QED
  BY <1>1, <1>2, <1>3, SeatsMoveKeeps DEF IInv, TypeOK

(* The admin clears or blocks a seat of which the hold goes as well.         *)
LEMMA ClearedKeeps ==
  ASSUME IInv, NEW c \in Cells, AdminToggleBlock(c) \/ AdminRelease(c)
  PROVE  IInv'
<1>1. /\ ~Committed(c) /\ Detached({c})
      /\ by' = [by EXCEPT ![c] = Nobody]
      /\ seat' \in [Cells -> {"FREE", "PRE", "RESERVED", "BLOCKED"}]
      /\ \A x \in Cells \ {c} : seat'[x] = seat[x]
      /\ UNCHANGED <<eventVars, ticketVars, unsynced, orderVars, todo, userVars>>
  BY DEF AdminToggleBlock, AdminRelease, Vacated, IInv, TypeOK
<1>2. funded[c] = Nobody
  BY <1>1, FundedIsCommitted DEF IInv, ClanSeatsInv, TypeOK
<1>3. /\ hold' \in [Cells -> Clans \cup {NoClan}]
      /\ claimed' \subseteq Cells /\ used' \in [Clans -> Nat]
      /\ financed' \subseteq {x \in Cells : hold'[x] # NoClan}
      /\ OrdersInv'
  BY <1>1, <1>2, DetachedKeeps DEF IInv, TypeOK
<1>4. funded' = funded /\ was' = was
  BY <1>1 DEF Detached
<1>5. TypeOK'
  BY <1>1, <1>3, <1>4 DEF IInv, TypeOK
<1>6. \A x \in Cells : Committed(x)' => Committed(x) /\ x # c
  BY <1>1 DEF Committed, Detached
<1>7. SeatsInv'
  BY <1>1 DEF IInv, SeatsInv, OneSeatEach, SeatMatchesTicket, SeatsOf, TypeOK
<1>8. ClanSeatsInv'
  BY <1>1, <1>4, <1>6 DEF IInv, ClanSeatsInv, ClanSeatsKept, TypeOK
<1>9. TicketsBacked' /\ InsideInv'
  BY <1>1, <1>4 DEF IInv, TicketsBacked, Funded, InsideInv, OnlyPaidInside
<1>. QED
  BY <1>3, <1>5, <1>7, <1>8, <1>9 DEF IInv

-----------------------------------------------------------------------------
(* Clans: selection, order, confirmation and assignment.                     *)

(* What an open hold is, as long as the clan has no order.                   *)
LEMMA OpenHoldsUnordered ==
  ASSUME IInv, NEW k \in Clans, order[k] = "NONE", NEW c \in OpenHolds(k)
  PROVE  /\ c \in Cells /\ hold[c] = k /\ by[c] = Nobody
         /\ c \notin financed /\ ~Committed(c) /\ Protected(c) /\ funded[c] = Nobody
BY DEF OpenHolds, Live, Committed, IInv, OrdersInv

LEMMA UpdateSelectionKeeps ==
  ASSUME IInv, NEW k \in Clans, NEW S \in SUBSET Cells, UpdateSelection(k, S)
  PROVE  IInv'
<1>. DEFINE gone == OpenHolds(k) \ S
            new == S \ OpenHolds(k)
            freed == gone \cup new
<1>1. /\ order[k] = "NONE" /\ Free
      /\ \A c \in new : seat[c] = "FREE" /\ by[c] = Nobody /\ ~Live(c)
      /\ hold' = [c \in Cells |-> IF c \in new THEN k
                                  ELSE IF c \in gone THEN NoClan ELSE hold[c]]
      /\ claimed' = claimed \ freed /\ financed' = financed \ new
      /\ used' = [x \in Clans |-> used[x] +
              Cardinality({c \in freed \ financed : hold[c] = x /\ c \in claimed})]
      /\ alloc' = [alloc EXCEPT ![k] = "open"]
      /\ UNCHANGED <<funded, was, eventVars, ticketVars, seatVars, order, lapsed, todo,
                     userVars>>
  BY DEF UpdateSelection
<1>2. gone \subseteq Cells /\ \A c \in gone : c \notin financed /\ ~Committed(c) /\ funded[c] = Nobody
  BY <1>1, OpenHoldsUnordered DEF OpenHolds
<1>3. \A c \in new : ~Committed(c) /\ funded[c] = Nobody
  BY <1>1, FundedIsCommitted DEF Live, IInv, ClanSeatsInv, TypeOK
<1>4. used' \in [Clans -> Nat]
  BY <1>1, TalliesAreNumbers DEF IInv
<1>. HIDE DEF gone, new, freed
<1>5. TypeOK'
  BY <1>1, <1>2, <1>4 DEF IInv, TypeOK
<1>6. OrdersInv'
  BY <1>1, <1>2, <1>3 DEF IInv, OrdersInv, TypeOK
<1>7. \A c \in Cells : Committed(c)' => Committed(c)
  BY <1>1, <1>2, <1>3 DEF Committed
<1>8. SeatsInv'
  BY <1>1 DEF IInv, SeatsInv, OneSeatEach, SeatMatchesTicket, SeatsOf
<1>9. ClanSeatsInv'
  BY <1>1, <1>7 DEF IInv, ClanSeatsInv, ClanSeatsKept, TypeOK
<1>10. TicketsBacked' /\ InsideInv'
  BY <1>1 DEF IInv, TicketsBacked, Funded, InsideInv, OnlyPaidInside
<1>. QED
  BY <1>5, <1>6, <1>8, <1>9, <1>10 DEF IInv

LEMMA CreatePaymentKeeps ==
  ASSUME IInv, NEW k \in Clans, CreatePayment(k)
  PROVE  IInv'
<1>. DEFINE H == OpenHolds(k)
<1>1. /\ order[k] = "NONE" /\ Free /\ \A c \in H : seat[c] = "FREE"
      /\ financed' = financed \cup H /\ order' = [order EXCEPT ![k] = "PENDING"]
      /\ UNCHANGED <<hold, claimed, used, funded, was, eventVars, ticketVars, seatVars, alloc,
                     lapsed, todo, userVars>>
  BY DEF CreatePayment
<1>2. \A c \in H : /\ c \in Cells /\ hold[c] = k /\ by[c] = Nobody
                   /\ c \notin financed /\ funded[c] = Nobody
  BY <1>1, OpenHoldsUnordered
<1>. HIDE DEF H
<1>3. TypeOK'
  BY <1>1, <1>2 DEF IInv, TypeOK
<1>4. OrdersInv'
  BY <1>1, <1>2 DEF IInv, OrdersInv, TypeOK
<1>5. \A c \in Cells : Committed(c)' => Committed(c) \/ c \in H
  BY <1>1, <1>2 DEF Committed, IInv, OrdersInv, TypeOK
<1>6. SeatsInv'
  BY <1>1 DEF IInv, SeatsInv, OneSeatEach, SeatMatchesTicket, SeatsOf
<1>7. ClanSeatsInv'
  BY <1>1, <1>2, <1>5 DEF IInv, ClanSeatsInv, ClanSeatsKept, TypeOK, Free
<1>8. TicketsBacked' /\ InsideInv'
  BY <1>1 DEF IInv, TicketsBacked, Funded, InsideInv, OnlyPaidInside
<1>. QED
  BY <1>3, <1>4, <1>6, <1>7, <1>8 DEF IInv

LEMMA ConfirmPaymentKeeps ==
  ASSUME IInv, NEW k \in Clans, ConfirmPayment(k)
  PROVE  IInv'
<1>1. /\ order[k] = "PENDING" /\ k \notin lapsed /\ event \in {"OPEN", "RUNNING"}
      /\ order' = [order EXCEPT ![k] = "PAID"]
      /\ UNCHANGED <<eventVars, ticketVars, seatVars, holdVars, alloc, lapsed, todo, userVars>>
  BY DEF ConfirmPayment, Confirmable
<1>2. TypeOK'
  BY <1>1 DEF IInv, TypeOK
<1>3. OrdersInv'
  BY <1>1 DEF IInv, OrdersInv, TypeOK
<1>4. \A c \in Cells : Committed(c)' => Committed(c)
  BY <1>1 DEF Committed, IInv, TypeOK
<1>5. SeatsInv'
  BY <1>1 DEF IInv, SeatsInv, OneSeatEach, SeatMatchesTicket, SeatsOf
<1>6. ClanSeatsInv'
  BY <1>1, <1>4 DEF IInv, ClanSeatsInv, ClanSeatsKept, TypeOK
<1>7. TicketsBacked' /\ InsideInv'
  BY <1>1 DEF IInv, TicketsBacked, Funded, InsideInv, OnlyPaidInside
<1>. QED
  BY <1>2, <1>3, <1>5, <1>6, <1>7 DEF IInv

LEMMA CancelPaymentKeeps ==
  ASSUME IInv, NEW k \in Clans, CancelPayment(k)
  PROVE  IInv'
<1>1. CellsPaidBy({k}) = CellsPaidBy({k}) \cup CellsHeldBy({})
  BY DEF CellsHeldBy
<1>2. /\ Free /\ Detached(CellsPaidBy({k}) \cup CellsHeldBy({}))
      /\ order' = [x \in Clans |-> IF x \in {k} THEN "CANCELLED" ELSE order[x]]
      /\ UNCHANGED <<eventVars, ticketVars, seatVars, alloc, lapsed, todo, userVars>>
  BY <1>1 DEF CancelPayment, OrdersCancelled
<1>3. {k} \subseteq Pending
  BY DEF CancelPayment, Pending
<1>4. /\ alloc' \in [Clans -> {"none", "open", "late", "ended"}]
      /\ main' \in {"this", "other", "none"}
  BY <1>2 DEF IInv, TypeOK
<1>5. {} \subseteq Clans /\ event' = event
  BY <1>2
<1>. QED
  BY <1>2, <1>3, <1>4, <1>5, ClosingKeeps

(* A ticket of the clan goes to a member, from a member or back.             *)
LEMMA AssignMemberKeeps ==
  ASSUME IInv, NEW c \in Cells, NEW u \in Users \cup {Nobody}, NEW orga \in BOOLEAN,
         AssignMember(c, u, orga)
  PROVE  IInv'
<1>. DEFINE old == funded[c]
            freed == {c} \cup {x \in Cells : by[x] = u /\ u # Nobody}
<1>1. /\ Free /\ c \in financed /\ order[hold[c]] = "PAID" /\ u # old
      /\ u # Nobody => (MayBeFunded(u, c) /\ by[c] \in {old, u, Nobody})
      /\ reg' = IF u = Nobody THEN Restored(c) ELSE [Restored(c) EXCEPT ![u] = "PAID"]
      /\ funded' = [funded EXCEPT ![c] = u]
      /\ inside' = inside \ {old}
      /\ was' = [was EXCEPT ![c] = IF u # Nobody /\ reg[u] = "UNPAID" THEN "UNPAID"
                                   ELSE "CANCELLED"]
      /\ claimed' \subseteq claimed \cup {c}
      /\ seat' = [x \in Cells |-> IF x = c /\ u # Nobody THEN "RESERVED"
                                  ELSE IF x \in freed THEN "FREE" ELSE seat[x]]
      /\ by' = [x \in Cells |-> IF x = c THEN u
                                ELSE IF x \in freed THEN Nobody ELSE by[x]]
      /\ UNCHANGED <<eventVars, paidUp, unsynced, hold, used, financed, orderVars, todo,
                     userVars>>
  BY DEF AssignMember
<1>2. Committed(c)
  BY <1>1 DEF Committed
<1>3. \/ /\ old = Nobody /\ by[c] = Nobody /\ seat[c] = "FREE"
      \/ /\ old \in Users /\ by[c] = old /\ seat[c] = "RESERVED" /\ reg[old] = "PAID"
         /\ old \notin paidUp /\ SeatsOf(old) = {c}
         /\ \A x \in Cells : funded[x] = old => x = c
  BY <1>2 DEF IInv, ClanSeatsInv, ClanSeatsKept, TicketsBacked, Funded, SeatsInv, OneSeatEach
<1>4. u # Nobody => /\ u \in Users /\ reg[u] # "PAID" /\ u \notin inside /\ ~Funded(u)
                    /\ u \notin paidUp /\ u \notin deleted /\ u \notin banned
  BY <1>1 DEF MayBeFunded, Member, IInv, TicketsBacked
<1>5. u # Nobody => \A x \in Cells : Committed(x) => by[x] # u
  BY <1>4, GuestsOfCommitted DEF IInv, ClanSeatsInv
<1>6. /\ reg' \in [Users -> {"NONE", "UNPAID", "PAID", "CANCELLED"}]
      /\ \A v \in Users : v # u /\ v # old => reg'[v] = reg[v]
      /\ u # Nobody => reg'[u] = "PAID"
      /\ old # Nobody => reg'[old] # "PAID"
  BY <1>1, <1>3, <1>4 DEF Restored, IInv, TypeOK
<1>7. TypeOK'
  BY <1>1, <1>6 DEF IInv, TypeOK
<1>8. OrdersInv'
  BY <1>1 DEF IInv, OrdersInv, TypeOK
<1>9. SeatsInv'
  <2>1. \A x \in Cells : by'[x] = IF x = c THEN u ELSE IF by[x] = u THEN Nobody ELSE by[x]
    BY <1>1
  <2>2. \A x \in Cells : x # c /\ by'[x] # Nobody => seat'[x] = seat[x] /\ by'[x] = by[x] /\ by[x] # u
    BY <1>1, <2>1
  <2>3. \A x \in Cells, v \in Users : by'[x] = v /\ x # c => v # old /\ v # u
    BY <1>3, <2>1, <2>2 DEF SeatsOf
  <2>4. \A x \in Cells, v \in Users : by'[x] = v => SeatsOf(v)' = {x}
    BY <1>1, <2>1, <2>2, <2>3 DEF IInv, SeatsInv, OneSeatEach, SeatsOf
  <2>5. \A x \in Cells, v \in Users : by'[x] = v =>
           \/ reg'[v] = "PAID" /\ seat'[x] = "RESERVED"
           \/ reg'[v] = "UNPAID" /\ seat'[x] = "PRE"
    BY <1>1, <1>6, <2>1, <2>2, <2>3 DEF IInv, SeatsInv, SeatMatchesTicket, Free
  <2>. QED
    BY <1>1, <2>4, <2>5 DEF SeatsInv, OneSeatEach, SeatMatchesTicket, Free
<1>10. ClanSeatsInv'
  <2>1. \A x \in Cells : Committed(x)' => Committed(x)
    BY <1>1 DEF Committed
  <2>2. \A x \in Cells : Committed(x) /\ x # c =>
           /\ by'[x] = by[x] /\ seat'[x] = seat[x] /\ funded'[x] = funded[x]
           /\ funded[x] \in Users => reg'[funded[x]] = reg[funded[x]]
    BY <1>1, <1>3, <1>4, <1>5, <1>6 DEF Funded, IInv, TypeOK
  <2>3. /\ funded'[c] = u /\ by'[c] = u
        /\ u = Nobody => seat'[c] = "FREE"
        /\ u # Nobody => seat'[c] = "RESERVED"
    BY <1>1 DEF IInv, TypeOK
  <2>4. \A x \in Cells : x # c /\ Committed(x) =>
          \/ funded'[x] = Nobody /\ by'[x] = Nobody /\ seat'[x] = "FREE"
          \/ \E v \in Users : funded'[x] = v /\ by'[x] = v /\ seat'[x] = "RESERVED" /\ reg'[v] = "PAID"
    BY <2>2 DEF IInv, ClanSeatsInv, ClanSeatsKept
  <2>. QED
    BY <1>1, <1>4, <1>6, <2>1, <2>3, <2>4 DEF ClanSeatsInv, ClanSeatsKept, Free
<1>11. TicketsBacked'
  <2>1. \A x, d \in Cells : (funded'[x] = funded'[d] /\ x # d) => funded'[x] = Nobody
    BY <1>1, <1>4 DEF IInv, TicketsBacked, Funded, TypeOK
  <2>2. \A v \in Users : Funded(v)' <=> (v = u \/ (v # old /\ Funded(v)))
    BY <1>1, <1>3 DEF Funded, IInv, TypeOK
  <2>. QED
    BY <1>1, <1>3, <1>4, <1>6, <2>1, <2>2 DEF IInv, TicketsBacked, TypeOK
<1>12. InsideInv'
  BY <1>1, <1>3, <1>4, <1>6 DEF IInv, InsideInv, OnlyPaidInside, TypeOK
<1>. QED
  BY <1>7, <1>8, <1>9, <1>10, <1>11, <1>12 DEF IInv

-----------------------------------------------------------------------------
(* Time, the event and the worker.                                           *)

LEMMA TimeKeeps ==
  ASSUME IInv,
         \/ MoveDeadline \/ StartByClock \/ EndByClock \/ Activate \/ OtherEvent \/ ReadOverdue
         \/ \E k \in Clans : AllocationExpires(k) \/ PaymentLapses(k)
  PROVE  IInv'
<1>. USE DEF MoveDeadline, StartByClock, EndByClock, Activate, OtherEvent, ReadOverdue,
             AllocationExpires, PaymentLapses
<1>1. UNCHANGED <<reg, inside, paidUp, seatVars, holdVars, order, userVars>>
  OBVIOUS
<1>2. TypeOK'
  <2>1. overdue' \in BOOLEAN
    <3>1. overdue \in BOOLEAN
      BY DEF IInv, TypeOK
    <3>2. overdue' = ~overdue \/ overdue' = overdue
      OBVIOUS
    <3>. QED
      BY <3>1, <3>2, Zenon
  <2>2. /\ alloc' \in [Clans -> {"none", "open", "late", "ended"}]
        /\ lapsed' \subseteq Clans /\ todo' \subseteq Users
        /\ event' \in {"OPEN", "RUNNING", "OVER", "CLOSED"}
        /\ main' \in {"this", "other", "none"}
    BY DEF IInv, TypeOK
  <2>. QED
    BY <1>1, <2>1, <2>2 DEF IInv, TypeOK
<1>3. InsideInv'
  BY DEF IInv, InsideInv, OnlyPaidInside
<1>4. \A c \in Cells : Committed(c)' => Committed(c)
  BY DEF Committed
<1>. QED
  BY <1>1, <1>2, <1>3, <1>4, RestKeeps

LEMMA EndsKeep ==
  ASSUME IInv, CloseEvent \/ Deactivate \/ ProcessClanHolds
  PROVE  IInv'
<1>1. ASSUME NEW K, K \subseteq Pending, NEW L, L \subseteq Clans, Free, Closed(K, L),
             event' = "CLOSED" \/ event' = event,
             event' = "CLOSED" /\ event # "CLOSED" => K = Pending,
             main' \in {"this", "other", "none"},
             UNCHANGED <<overdue, ticketVars, seatVars, lapsed, todo, userVars>>
      PROVE  IInv'
  <2>1. alloc' \in [Clans -> {"none", "open", "late", "ended"}]
    BY <1>1 DEF Closed, IInv, TypeOK
  <2>2. /\ order' = [x \in Clans |-> IF x \in K THEN "CANCELLED" ELSE order[x]]
        /\ Detached(CellsPaidBy(K) \cup CellsHeldBy(L))
    BY <1>1 DEF Closed, OrdersCancelled
  <2>. QED
    BY <1>1, <2>1, <2>2, ClosingKeeps
<1>2. Unended \subseteq Clans
  BY DEF Unended
<1>3. CASE CloseEvent
  <2>1. main' \in {"this", "other", "none"}
    BY <1>3 DEF CloseEvent, IInv, TypeOK
  <2>. QED
    BY <1>1, <1>2, <1>3, <2>1 DEF CloseEvent
<1>4. CASE Deactivate
  BY <1>1, <1>2, <1>4 DEF Deactivate
<1>5. CASE ProcessClanHolds
  <2>1. DuePayments \subseteq Pending /\ DueAllocations \subseteq Clans
    BY DEF DuePayments, DueAllocations, Unended
  <2>2. main' \in {"this", "other", "none"}
    BY <1>5 DEF ProcessClanHolds, IInv, TypeOK
  <2>. QED
    BY <1>1, <1>5, <2>1, <2>2 DEF ProcessClanHolds
<1>. QED
  BY <1>3, <1>4, <1>5

LEMMA CancelKeeps ==
  ASSUME IInv, NEW u \in Users, Cancel(u) \/ CancelOverdue(u)
  PROVE  IInv'
<1>1. CASE Cancel(u)
  BY <1>1, CancelledKeeps DEF Cancel
<1>2. CASE CancelOverdue(u) /\ StillOverdue(u)
  <2>1. todo' \subseteq todo
    BY <1>2 DEF CancelOverdue
  <2>. QED
    BY <1>2, <2>1, CancelledKeeps DEF CancelOverdue
<1>3. CASE CancelOverdue(u) /\ ~StillOverdue(u)
  <2>1. UNCHANGED <<eventVars, ticketVars, seatVars, holdVars, orderVars, userVars>> /\ todo' \subseteq todo
    BY <1>3 DEF CancelOverdue
  <2>2. TypeOK' /\ InsideInv'
    BY <2>1 DEF IInv, TypeOK, InsideInv, OnlyPaidInside
  <2>. QED
    BY <2>1, <2>2, CommittedSame, RestKeeps
<1>. QED
  BY <1>1, <1>2, <1>3

LEMMA StutterKeeps ==
  ASSUME IInv, UNCHANGED vars
  PROVE  IInv'
<1>1. UNCHANGED <<eventVars, ticketVars, seatVars, holdVars, orderVars, todo, userVars>>
  BY DEF vars
<1>2. TypeOK' /\ InsideInv'
  BY <1>1 DEF IInv, TypeOK, InsideInv, OnlyPaidInside
<1>. QED
  BY <1>1, <1>2, CommittedSame, RestKeeps

LEMMA NextIInv == IInv /\ [RivalNext]_vars => IInv'
<1>. SUFFICES ASSUME IInv, [RivalNext]_vars PROVE IInv'
  OBVIOUS
<1>1. ASSUME NEW u \in Users, Guest(u) PROVE IInv'
  <2>1. CASE Register(u) \/ EnterUnpaid(u)
    BY <2>1, RegistersKeeps DEF Register, EnterUnpaid, CanRegister, NewEntry
  <2>. QED
    BY <1>1, <2>1, MarkPaidKeeps, TakePaymentBackKeeps, CancelKeeps, DeleteRegistrationKeeps,
       DoorKeeps, BansKeep, DeleteAccountKeeps DEF Guest
<1>2. ASSUME NEW c \in Cells, Seating(c) PROVE IInv'
  BY <1>2, SyncSeatKeeps, ClearedKeeps, SaveGridKeeps, ReserveKeeps, ReleaseKeeps,
     AssignMemberKeeps DEF Seating, AdminReleaseSeat
<1>3. ASSUME NEW k \in Clans, Clan(k) PROVE IInv'
  BY <1>3, UpdateSelectionKeeps, CreatePaymentKeeps, ConfirmPaymentKeeps, CancelPaymentKeeps,
     TimeKeeps DEF Clan
<1>4. CASE Occasion
  BY <1>4, TimeKeeps, EndsKeep DEF Occasion
<1>5. CASE Worker
  BY <1>5, TimeKeeps, EndsKeep, CancelKeeps DEF Worker
<1>. QED
  BY <1>1, <1>2, <1>3, <1>4, <1>5, TimeKeeps, StutterKeeps DEF RivalNext, Next

LEMMA Invariance == RivalSpec => []IInv
BY InitIInv, NextIInv, PTL DEF RivalSpec

(* What holds beside other events holds for the event on its own.            *)
LEMMA SpecIsRival == Spec => RivalSpec
<1>1. [Next]_vars => [RivalNext]_vars
  BY DEF RivalNext
<1>. QED
  BY <1>1, PTL DEF Spec, RivalSpec

-----------------------------------------------------------------------------
(* Payments, tickets and seats agree for every event: the seats that a clan  *)
(* ordered are kept for it or belong to the members who got its tickets, a   *)
(* registration is paid by exactly one payment, and each seat says what the  *)
(* registration of its only guest says, whichever of the services, the orga, *)
(* the deadlines and the worker acts in which order.                         *)
THEOREM TicketsAndSeatsAgree == RivalSpec => []TicketsAndSeats
<1>1. IInv => TicketsAndSeats
  BY DEF IInv, TicketsAndSeats, SeatsInv, ClanSeatsInv
<1>. QED
  BY <1>1, Invariance, PTL

(* Who is checked in has paid, has an account and is not banned while the    *)
(* event goes on, and sits where the plan says.                              *)
THEOREM OnlyPaidGuestsInside == RivalSpec => []InsideAndSeated
<1>1. IInv => InsideAndSeated
  BY DEF IInv, InsideAndSeated, InsideInv, SeatsInv
<1>. QED
  BY <1>1, Invariance, PTL

-----------------------------------------------------------------------------
(* Who gets a seat, and what the worker takes.                               *)

(* The operations that give a seat to somebody.                              *)
SeatGiven(c, u) ==
  \/ Reserve(u, c) \/ AdminAssign(u, c) \/ \E orga \in BOOLEAN : AssignMember(c, u, orga)

LEMMA OnlyGivenSeats ==
  ASSUME IInv, [RivalNext]_vars, NEW c \in Cells, by'[c] \notin {by[c], Nobody}
  PROVE  by'[c] \in Users /\ SeatGiven(c, by'[c])
<1>1. by \in [Cells -> Users \cup {Nobody}]
  BY DEF IInv, TypeOK
<1>2. ASSUME NEW u \in Users, Guest(u) PROVE FALSE
  BY <1>1, <1>2 DEF Guest, Register, MarkPaid, TakePaymentBack, EnterUnpaid, Cancel, Cancelled,
     DeleteRegistration, CheckIn, TickCheckIn, CheckOut, Ban, Unban, DeleteAccount, Vacated
<1>3. ASSUME NEW k \in Clans, Clan(k) PROVE FALSE
  BY <1>1, <1>3 DEF Clan, UpdateSelection, CreatePayment, ConfirmPayment, CancelPayment,
     AllocationExpires, PaymentLapses
<1>4. CASE Occasion \/ Worker \/ OtherEvent \/ UNCHANGED vars
  BY <1>1, <1>4 DEF Occasion, Worker, OtherEvent, MoveDeadline, StartByClock, EndByClock,
     CloseEvent, Deactivate, Activate, ProcessClanHolds, ReadOverdue, CancelOverdue, Cancelled,
     Vacated, vars
<1>5. ASSUME NEW d \in Cells, Seating(d)
      PROVE  by'[c] \in Users /\ SeatGiven(c, by'[c])
  <2>1. CASE SyncSeat(d) \/ AdminToggleBlock(d) \/ AdminReleaseSeat(d) \/ SaveGrid(d)
    BY <1>1, <2>1 DEF SyncSeat, AdminToggleBlock, AdminReleaseSeat, AdminRelease,
       AdminReleaseOf, SaveGrid, Vacated
  <2>2. ASSUME NEW u \in Users, Release(u, d) PROVE FALSE
    BY <2>2 DEF Release, Vacated
  <2>3. ASSUME NEW u \in Users, Reserve(u, d) \/ AdminAssign(u, d)
        PROVE  c = d /\ by'[c] = u
    BY <2>3 DEF Reserve, AdminAssign, Seated
  <2>4. ASSUME NEW u \in Users \cup {Nobody}, NEW orga \in BOOLEAN, AssignMember(d, u, orga)
        PROVE  c = d /\ by'[c] = u /\ u \in Users
    BY <2>4 DEF AssignMember
  <2>. QED
    BY <1>5, <2>1, <2>2, <2>3, <2>4 DEF Seating, SeatGiven
<1>. QED
  BY <1>2, <1>3, <1>4, <1>5 DEF RivalNext, Next

(* A seat that a hold protects goes to members of the clan only, whether it  *)
(* is the guest, an admin of the plan or the clan's admin who takes it.      *)
THEOREM ClanSeatsProtected == RivalSpec => ClanProtection
<1>1. IInv /\ [RivalNext]_vars =>
        [\A c \in Cells : (Live(c) /\ by'[c] \notin {by[c], Nobody}) => Member(by'[c], hold[c])]_vars
  <2>. SUFFICES ASSUME IInv, [RivalNext]_vars,
                       NEW c \in Cells, Live(c), by'[c] \notin {by[c], Nobody}
                PROVE  Member(by'[c], hold[c])
    OBVIOUS
  <2>1. by'[c] \in Users /\ SeatGiven(c, by'[c])
    BY OnlyGivenSeats
  <2>. QED
    BY <2>1 DEF SeatGiven, Reserve, AdminAssign, CanReserve, Access, AssignMember, MayBeFunded
<1>. QED
  BY <1>1, Invariance, PTL DEF RivalSpec, ClanProtection

(* The worker looks at a registration of its list again before it cancels:   *)
(* a ticket that was paid and a guest who came in since are left alone.      *)
THEOREM WorkerLooksAgain == RivalSpec => WorkerSparesPaid
<1>1. ASSUME IInv, [RivalNext]_vars, todo' \subseteq todo /\ todo' # todo
      PROVE  /\ \A u \in Users : reg[u] = "PAID" => reg'[u] = "PAID"
             /\ inside \subseteq inside'
  <2>1. \E u \in Users : CancelOverdue(u)
    <3>1. ASSUME NEW u \in Users, Guest(u) PROVE FALSE
      BY <1>1, <3>1 DEF Guest, Register, MarkPaid, TakePaymentBack, EnterUnpaid, Cancel,
         DeleteRegistration, CheckIn, TickCheckIn, CheckOut, Ban, Unban, DeleteAccount
    <3>2. ASSUME NEW c \in Cells, Seating(c) PROVE FALSE
      BY <1>1, <3>2 DEF Seating, SyncSeat, AdminToggleBlock, AdminReleaseSeat, AdminRelease,
         AdminReleaseOf, SaveGrid, Reserve, Release, AdminAssign, AssignMember
    <3>3. ASSUME NEW k \in Clans, Clan(k) PROVE FALSE
      BY <1>1, <3>3 DEF Clan, UpdateSelection, CreatePayment, ConfirmPayment, CancelPayment,
         AllocationExpires, PaymentLapses
    <3>4. CASE Occasion \/ OtherEvent \/ UNCHANGED vars
      BY <1>1, <3>4 DEF Occasion, OtherEvent, MoveDeadline, StartByClock, EndByClock,
         CloseEvent, Deactivate, Activate, vars
    <3>5. CASE ProcessClanHolds \/ ReadOverdue
      BY <1>1, <3>5 DEF ProcessClanHolds, ReadOverdue
    <3>. QED
      BY <1>1, <3>1, <3>2, <3>3, <3>4, <3>5 DEF RivalNext, Next, Worker
  <2>2. PICK u \in Users : CancelOverdue(u)
    BY <2>1
  <2>3. CASE StillOverdue(u)
    BY <1>1, <2>2, <2>3 DEF CancelOverdue, StillOverdue, Cancelled, IInv, TypeOK
  <2>. QED
    BY <2>2, <2>3 DEF CancelOverdue
<1>2. IInv /\ [RivalNext]_vars =>
        [todo' \subseteq todo /\ todo' # todo =>
           /\ \A u \in Users : reg[u] = "PAID" => reg'[u] = "PAID"
           /\ inside \subseteq inside']_vars
  BY <1>1
<1>. QED
  BY <1>2, Invariance, PTL DEF RivalSpec, WorkerSparesPaid

-----------------------------------------------------------------------------
(* The places of the event.                                                  *)

LEMMA FitsInUnion ==
  ASSUME NEW S, IsFiniteSet(S), NEW T, IsFiniteSet(T), NEW U \in SUBSET (S \cup T)
  PROVE  /\ IsFiniteSet(U) /\ Cardinality(U) \in Nat
         /\ Cardinality(U) <= Cardinality(S) + Cardinality(T)
<1>1. /\ IsFiniteSet(S \cup T)
      /\ Cardinality(S \cup T) = Cardinality(S) + Cardinality(T) - Cardinality(S \cap T)
  BY FS_Union
<1>2. IsFiniteSet(S \cap T)
  BY FS_Intersection
<1>3. Cardinality(S \cap T) \in Nat
  BY <1>2, FS_CardinalityType
<1>4. IsFiniteSet(U) /\ Cardinality(U) <= Cardinality(S \cup T)
  BY <1>1, FS_Subset
<1>5. Cardinality(U) \in Nat /\ Cardinality(S) \in Nat /\ Cardinality(T) \in Nat
  BY <1>4, FS_CardinalityType
<1>. QED
  BY <1>1, <1>3, <1>4, <1>5

LEMMA OneMore ==
  ASSUME NEW S, IsFiniteSet(S), NEW x, NEW U \in SUBSET (S \cup {x})
  PROVE  Cardinality(U) \in Nat /\ Cardinality(U) <= Cardinality(S) + 1
<1>1. IsFiniteSet({x}) /\ Cardinality({x}) = 1
  BY FS_Singleton
<1>. QED
  BY <1>1, FitsInUnion

Attending == {u \in Users : reg[u] \in Counted}
Prepaid == {c \in Cells : Committed(c) /\ funded[c] = Nobody}

LEMMA PlacesAreFinite ==
  /\ IsFiniteSet(Attending) /\ IsFiniteSet(Prepaid)
  /\ Cardinality(Attending) \in Nat /\ Cardinality(Prepaid) \in Nat
<1>1. Attending \in SUBSET Users /\ Prepaid \in SUBSET Cells
  BY DEF Attending, Prepaid
<1>. QED
  BY <1>1, FS_Subset, FS_CardinalityType

LEMMA FewerPlaces ==
  ASSUME CapacityKept, Attending' \subseteq Attending, Prepaid' \subseteq Prepaid
  PROVE  CapacityKept'
<1>1. /\ Cardinality(Attending') <= Cardinality(Attending) /\ Cardinality(Attending') \in Nat
      /\ Cardinality(Prepaid') <= Cardinality(Prepaid) /\ Cardinality(Prepaid') \in Nat
  BY PlacesAreFinite, FS_Subset, FS_CardinalityType
<1>2. Cardinality(Attending') + Cardinality(Prepaid') <= MaxGuests
  BY <1>1, PlacesAreFinite DEF CapacityKept, Booked, Attending, Prepaid
<1>. QED
  BY <1>2 DEF CapacityKept, Booked, Attending, Prepaid

(* Seats become committed by an order of the clan, never by time, by a       *)
(* confirmation or by an event that goes on.                                 *)
LEMMA OnlyOrdersCommit ==
  ASSUME IInv, [RivalNext]_vars, NEW c \in Cells, Committed(c)', ~Committed(c)
  PROVE  \E k \in Clans : CreatePayment(k) /\ c \in OpenHolds(k)
<1>. USE DEF Committed
<1>1. ASSUME NEW u \in Users, Guest(u) PROVE FALSE
  <2>1. CASE DeleteAccount(u)
    <3>1. UNCHANGED <<event, order, lapsed>> /\ financed' \subseteq financed
          /\ \A d \in Cells : d \in financed' => hold'[d] = hold[d]
      BY <2>1 DEF DeleteAccount, Detached
    <3>. QED
      BY <3>1
  <2>. QED
    BY <1>1, <2>1 DEF Guest, Register, MarkPaid, TakePaymentBack, EnterUnpaid, Cancel, Cancelled,
       DeleteRegistration, CheckIn, TickCheckIn, CheckOut, Ban, Unban
<1>2. ASSUME NEW d \in Cells, Seating(d) PROVE FALSE
  BY <1>2 DEF Seating, SyncSeat, Claimed, AdminToggleBlock, AdminReleaseSeat, AdminRelease,
     AdminReleaseOf, SaveGrid, Reserve, Release, AdminAssign, AssignMember, Detached
<1>3. ASSUME NEW k \in Clans, Clan(k)
      PROVE  CreatePayment(k) /\ c \in OpenHolds(k)
  <2>1. CASE CreatePayment(k)
    BY <1>3, <2>1 DEF CreatePayment, IInv, OrdersInv, TypeOK
  <2>2. CASE \E S \in SUBSET Cells : UpdateSelection(k, S)
    <3>1. PICK S \in SUBSET Cells : UpdateSelection(k, S)
      BY <2>2
    <3>2. c \in financed /\ hold[c] # k
      BY <3>1 DEF UpdateSelection, IInv, OrdersInv
    <3>3. c \notin OpenHolds(k)
      BY <3>2 DEF OpenHolds
    <3>. QED
      BY <3>1, <3>2, <3>3 DEF UpdateSelection
  <2>3. CASE ConfirmPayment(k)
    BY <2>3 DEF ConfirmPayment, Confirmable, IInv, TypeOK
  <2>4. CASE CancelPayment(k)
    BY <2>4 DEF CancelPayment, OrdersCancelled, Detached, IInv, TypeOK
  <2>5. CASE AllocationExpires(k) \/ PaymentLapses(k)
    BY <2>5 DEF AllocationExpires, PaymentLapses
  <2>. QED
    BY <1>3, <2>1, <2>2, <2>3, <2>4, <2>5 DEF Clan
<1>4. ASSUME CloseEvent \/ Deactivate \/ ProcessClanHolds PROVE FALSE
  <2>1. PICK K, L : /\ K \subseteq Pending /\ Closed(K, L) /\ lapsed' = lapsed
                    /\ event' = event \/ (event' = "CLOSED" /\ (event # "CLOSED" => K = Pending))
    BY <1>4 DEF CloseEvent, Deactivate, ProcessClanHolds, DuePayments
  <2>. QED
    BY <2>1 DEF Closed, OrdersCancelled, CellsPaidBy, Detached, Pending, IInv, TypeOK
<1>5. ASSUME \/ MoveDeadline \/ StartByClock \/ EndByClock \/ Activate \/ OtherEvent
             \/ ReadOverdue \/ UNCHANGED vars
      PROVE FALSE
  BY <1>5 DEF MoveDeadline, StartByClock, EndByClock, Activate, OtherEvent, ReadOverdue, vars
<1>6. ASSUME NEW u \in Users, CancelOverdue(u) PROVE FALSE
  BY <1>6 DEF CancelOverdue, Cancelled
<1>. QED
  BY <1>1, <1>2, <1>3, <1>4, <1>5, <1>6 DEF RivalNext, Next, Occasion, Worker

(* A ticket that comes back is the one place the guest gave up.              *)
LEMMA CancelledFits ==
  ASSUME IInv, CapacityKept, NEW u \in Users, reg[u] \in Counted, Cancelled(u),
         UNCHANGED <<eventVars, orderVars>>
  PROVE  CapacityKept'
<1>. USE DEF Cancelled
<1>1. \A c \in Cells : Committed(c)' <=> Committed(c)
  BY CommittedSame
<1>2. Attending' = Attending \ {u} /\ u \in Attending
  BY DEF Attending, Counted, IInv, TypeOK
<1>3. CASE ~Funded(u)
  <2>1. Prepaid' \subseteq Prepaid
    BY <1>1, <1>3 DEF Prepaid, Funded
  <2>. QED
    BY <1>2, <2>1, FewerPlaces
<1>4. CASE Funded(u)
  <2>1. PICK c \in Cells : funded[c] = u
    BY <1>4 DEF Funded
  <2>2. Prepaid' \in SUBSET (Prepaid \cup {c})
    BY <1>1, <2>1 DEF Prepaid, IInv, TicketsBacked
  <2>3. Cardinality(Prepaid') <= Cardinality(Prepaid) + 1 /\ Cardinality(Prepaid') \in Nat
    BY <2>2, PlacesAreFinite, OneMore
  <2>4. Cardinality(Attending') = Cardinality(Attending) - 1
    BY <1>2, PlacesAreFinite, FS_RemoveElement
  <2>5. Cardinality(Attending) + Cardinality(Prepaid) <= MaxGuests
    BY DEF CapacityKept, Booked, Attending, Prepaid
  <2>6. Cardinality(Attending') + Cardinality(Prepaid') <= MaxGuests
    BY <2>3, <2>4, <2>5, PlacesAreFinite
  <2>. QED
    BY <2>6 DEF CapacityKept, Booked, Attending, Prepaid
<1>. QED
  BY <1>3, <1>4

(* A new place needs a free one.                                             *)
LEMMA AdmittedFits ==
  ASSUME IInv, CapacityKept, NEW u \in Users, NEW s \in {"UNPAID", "PAID"},
         reg' = [reg EXCEPT ![u] = s], reg[u] \notin Counted => ~IsFull,
         UNCHANGED <<eventVars, holdVars, orderVars>>
  PROVE  CapacityKept'
<1>1. Prepaid' \subseteq Prepaid
  BY CommittedSame DEF Prepaid
<1>2. CASE u \in Attending
  <2>1. Attending' \subseteq Attending
    BY <1>2 DEF Attending, IInv, TypeOK
  <2>. QED
    BY <1>1, <2>1, FewerPlaces
<1>3. CASE u \notin Attending
  <2>1. Attending' \in SUBSET (Attending \cup {u})
    BY DEF Attending, IInv, TypeOK
  <2>2. Cardinality(Attending') <= Cardinality(Attending) + 1 /\ Cardinality(Attending') \in Nat
    BY <2>1, PlacesAreFinite, OneMore
  <2>3. Cardinality(Prepaid') <= Cardinality(Prepaid) /\ Cardinality(Prepaid') \in Nat
    BY <1>1, PlacesAreFinite, FS_Subset, FS_CardinalityType
  <2>4. Cardinality(Attending) + Cardinality(Prepaid) < MaxGuests
    BY <1>3, PlacesAreFinite DEF IsFull, Booked, Attending, Prepaid
  <2>5. Cardinality(Attending') + Cardinality(Prepaid') <= MaxGuests
    BY <2>2, <2>3, <2>4, PlacesAreFinite
  <2>. QED
    BY <2>5 DEF CapacityKept, Booked, Attending, Prepaid
<1>. QED
  BY <1>2, <1>3

LEMMA OrderFits ==
  ASSUME IInv, CapacityKept, NEW k \in Clans, CreatePayment(k)
  PROVE  CapacityKept'
<1>1. Attending' = Attending
  BY DEF Attending, CreatePayment
<1>2. OpenHolds(k) \in SUBSET Cells
  BY DEF OpenHolds
<1>3. Prepaid' \in SUBSET (Prepaid \cup OpenHolds(k))
  <2>1. ASSUME NEW c \in Cells, Committed(c)', ~Committed(c)
        PROVE  c \in OpenHolds(k)
    BY <2>1 DEF Committed, CreatePayment, IInv, OrdersInv, TypeOK
  <2>. QED
    BY <2>1 DEF Prepaid, CreatePayment
<1>4. IsFiniteSet(OpenHolds(k)) /\ Cardinality(OpenHolds(k)) \in Nat
  BY <1>2, FS_Subset, FS_CardinalityType
<1>5. /\ Cardinality(Prepaid') <= Cardinality(Prepaid) + Cardinality(OpenHolds(k))
      /\ Cardinality(Prepaid') \in Nat
  BY <1>3, <1>4, PlacesAreFinite, FitsInUnion
<1>6. Cardinality(Attending) + Cardinality(Prepaid) + Cardinality(OpenHolds(k)) <= MaxGuests
  BY DEF CreatePayment, Booked, Attending, Prepaid
<1>7. Cardinality(Attending') + Cardinality(Prepaid') <= MaxGuests
  BY <1>1, <1>4, <1>5, <1>6, PlacesAreFinite
<1>. QED
  BY <1>7 DEF CapacityKept, Booked, Attending, Prepaid

(* A prepaid ticket that changes hands is counted under the lock, before the *)
(* member is written and after.                                              *)
LEMMA AssignedFits ==
  ASSUME IInv, NEW c \in Cells, NEW u \in Users \cup {Nobody}, NEW orga \in BOOLEAN,
         AssignMember(c, u, orga)
  PROVE  CapacityKept'
<1>1. \A d \in Cells : Committed(d)' <=> Committed(d)
  BY CommittedSame DEF AssignMember
<1>2. Booked(reg', funded') <= MaxGuests
  BY DEF AssignMember
<1>3. {d \in Cells : Committed(d)' /\ funded'[d] = Nobody}
        = {d \in Cells : Committed(d) /\ funded'[d] = Nobody}
  BY <1>1
<1>. QED
  BY <1>2, <1>3 DEF CapacityKept, Booked

LEMMA NextCapacity == IInv /\ CapacityKept /\ [RivalNext]_vars => CapacityKept'
<1>. SUFFICES ASSUME IInv, CapacityKept, [RivalNext]_vars PROVE CapacityKept'
  OBVIOUS
<1>1. CASE \E u \in Users : Register(u) \/ EnterUnpaid(u) \/ MarkPaid(u)
  <2>1. PICK u \in Users : Register(u) \/ EnterUnpaid(u) \/ MarkPaid(u)
    BY <1>1
  <2>2. PICK s \in {"UNPAID", "PAID"} :
           /\ reg' = [reg EXCEPT ![u] = s] /\ (reg[u] \notin Counted => ~IsFull)
           /\ UNCHANGED <<eventVars, holdVars, orderVars>>
    BY <2>1 DEF Register, EnterUnpaid, MarkPaid, CanRegister, NewEntry, Counted
  <2>. QED
    BY <2>2, AdmittedFits
<1>2. CASE \E u \in Users : reg[u] \in Counted /\ Cancelled(u) /\ UNCHANGED <<eventVars, orderVars>>
  BY <1>2, CancelledFits
<1>3. CASE \E k \in Clans : CreatePayment(k)
  BY <1>3, OrderFits
<1>4. CASE \E c \in Cells, u \in Users \cup {Nobody}, orga \in BOOLEAN : AssignMember(c, u, orga)
  BY <1>4, AssignedFits
<1>5. ASSUME funded' = funded, Attending' \subseteq Attending, ~\E k \in Clans : CreatePayment(k)
      PROVE  CapacityKept'
  <2>1. Prepaid' \subseteq Prepaid
    BY <1>5, OnlyOrdersCommit DEF Prepaid
  <2>. QED
    BY <1>5, <2>1, FewerPlaces
<1>. DEFINE Rest == funded' = funded /\ Attending' \subseteq Attending
<1>6. ASSUME NEW u \in Users, Guest(u), ~(Register(u) \/ EnterUnpaid(u) \/ MarkPaid(u) \/ Cancel(u))
      PROVE  Rest
  BY <1>6 DEF Guest, TakePaymentBack, DeleteRegistration, CheckIn, TickCheckIn, CheckOut,
     Ban, Unban, DeleteAccount, Detached, Attending, Counted, IInv, TypeOK
<1>7. ASSUME NEW c \in Cells, Seating(c),
             ~\E u \in Users \cup {Nobody}, orga \in BOOLEAN : AssignMember(c, u, orga)
      PROVE  Rest
  BY <1>7 DEF Seating, SyncSeat, Claimed, AdminToggleBlock, AdminReleaseSeat, AdminRelease,
     AdminReleaseOf, SaveGrid, Reserve, Release, AdminAssign, Detached, Attending
<1>8. ASSUME NEW k \in Clans, Clan(k), ~CreatePayment(k)
      PROVE  Rest
  BY <1>8 DEF Clan, UpdateSelection, ConfirmPayment, CancelPayment, AllocationExpires,
     PaymentLapses, Detached, Attending
<1>9. ASSUME Occasion \/ OtherEvent \/ ProcessClanHolds \/ ReadOverdue \/ UNCHANGED vars
      PROVE  Rest
  BY <1>9 DEF Occasion, OtherEvent, ProcessClanHolds, ReadOverdue, MoveDeadline, StartByClock,
     EndByClock, CloseEvent, Deactivate, Activate, Closed, Detached, Attending, vars
<1>10. ASSUME NEW u \in Users, CancelOverdue(u)
       PROVE  Rest \/ (reg[u] \in Counted /\ Cancelled(u) /\ UNCHANGED <<eventVars, orderVars>>)
  BY <1>10 DEF CancelOverdue, StillOverdue, Counted, Attending
<1>11. ASSUME NEW u \in Users, Cancel(u)
       PROVE  reg[u] \in Counted /\ Cancelled(u) /\ UNCHANGED <<eventVars, orderVars>>
  BY <1>11 DEF Cancel
<1>. HIDE DEF Rest
<1>12. \/ Rest
       \/ \E u \in Users : Register(u) \/ EnterUnpaid(u) \/ MarkPaid(u)
       \/ \E u \in Users : reg[u] \in Counted /\ Cancelled(u) /\ UNCHANGED <<eventVars, orderVars>>
       \/ \E k \in Clans : CreatePayment(k)
       \/ \E c \in Cells, u \in Users \cup {Nobody}, orga \in BOOLEAN : AssignMember(c, u, orga)
  BY <1>6, <1>7, <1>8, <1>9, <1>10, <1>11 DEF RivalNext, Next, Worker
<1>. QED
  BY <1>1, <1>2, <1>3, <1>4, <1>5, <1>12 DEF Rest

LEMMA InitCapacity == Init => CapacityKept
<1>. SUFFICES ASSUME Init PROVE CapacityKept
  OBVIOUS
<1>1. Attending = {} /\ Prepaid = {}
  BY DEF Init, Attending, Prepaid, Committed, Counted
<1>2. Cardinality(Attending) + Cardinality(Prepaid) <= MaxGuests
  BY <1>1, FS_EmptySet
<1>. QED
  BY <1>2 DEF CapacityKept, Booked, Attending, Prepaid

(* No interleaving of registrations, payments, orders of clans, changes of   *)
(* tickets and cancellations lets more guests in than the event has places.  *)
THEOREM CapacityNeverExceeded == RivalSpec => []CapacityKept
<1>1. RivalSpec => []IInv
  BY Invariance
<1>. QED
  BY <1>1, InitCapacity, NextCapacity, PTL DEF RivalSpec

-----------------------------------------------------------------------------
(* The quota of the clans, for an event that stays the active one until the  *)
(* orga deactivates it.                                                      *)

(* An event that is not active has no open allocation: only another event's  *)
(* activation, which sends no signal, would leave one behind.                *)
ActiveInv == main \in {"this", "none"} /\ (main = "none" => \A k \in Clans : alloc[k] # "open")

(* A hold without a payment belongs to an allocation that is not ended, and  *)
(* while it protects the seat is not blocked and a guest on it claimed it.   *)
HoldsInv ==
  \A c \in Cells \ financed : hold[c] # NoClan =>
    /\ alloc[hold[c]] \in {"open", "late"}
    /\ alloc[hold[c]] = "open" /\ event = "OPEN" =>
         seat[c] # "BLOCKED" /\ (by[c] # Nobody => c \in claimed)

QInv == ActiveInv /\ HoldsInv

LEMMA InitQInv == Init => QInv
BY DEF Init, QInv, ActiveInv, HoldsInv

LEMMA GuestQInv ==
  ASSUME IInv, QInv, NEW u \in Users, Guest(u)
  PROVE  QInv'
<1>1. CASE MarkPaid(u)
  BY <1>1 DEF MarkPaid, QInv, ActiveInv, HoldsInv, IInv, TypeOK
<1>2. CASE Cancel(u)
  BY <1>2 DEF Cancel, Cancelled, Vacated, QInv, ActiveInv, HoldsInv, IInv, OrdersInv, TypeOK
<1>3. CASE DeleteRegistration(u)
  BY <1>3 DEF DeleteRegistration, Vacated, QInv, ActiveInv, HoldsInv
<1>4. CASE DeleteAccount(u)
  BY <1>4 DEF DeleteAccount, Vacated, Detached, CellsHeldBy, QInv, ActiveInv, HoldsInv, IInv, TypeOK
<1>5. CASE \/ Register(u) \/ TakePaymentBack(u) \/ EnterUnpaid(u) \/ CheckIn(u)
           \/ TickCheckIn(u) \/ CheckOut(u) \/ Ban(u) \/ Unban(u)
  BY <1>5 DEF Register, TakePaymentBack, EnterUnpaid, CheckIn, TickCheckIn, CheckOut, Ban, Unban,
     QInv, ActiveInv, HoldsInv
<1>. QED
  BY <1>1, <1>2, <1>3, <1>4, <1>5, Guest(u) DEF Guest

LEMMA SeatingQInv ==
  ASSUME IInv, QInv, NEW c \in Cells, Seating(c)
  PROVE  QInv'
<1>1. CASE SyncSeat(c)
  BY <1>1 DEF SyncSeat, Synced, Claimed, QInv, ActiveInv, HoldsInv, IInv, TypeOK
<1>2. CASE AdminToggleBlock(c)
  BY <1>2 DEF AdminToggleBlock, Detached, QInv, ActiveInv, HoldsInv, IInv, TypeOK
<1>3. CASE AdminReleaseSeat(c)
  BY <1>3 DEF AdminReleaseSeat, AdminRelease, AdminReleaseOf, Vacated, Detached,
     QInv, ActiveInv, HoldsInv, IInv, TypeOK
<1>4. CASE SaveGrid(c)
  BY <1>4 DEF SaveGrid, MayRepaint, Live, Protected, QInv, ActiveInv, HoldsInv, IInv, TypeOK
<1>5. ASSUME NEW u \in Users, Reserve(u, c) \/ AdminAssign(u, c)
      PROVE  QInv'
  <2>1. Seated(u, c, reg) /\ Claimed({c}) /\ UNCHANGED <<eventVars, orderVars>>
    BY <1>5 DEF Reserve, AdminAssign
  <2>. QED
    BY <2>1 DEF Seated, SeatStatus, Claimed, Protected, QInv, ActiveInv, HoldsInv, IInv, TypeOK
<1>6. ASSUME NEW u \in Users, Release(u, c)
      PROVE  QInv'
  BY <1>6 DEF Release, Vacated, QInv, ActiveInv, HoldsInv
<1>7. ASSUME NEW u \in Users \cup {Nobody}, NEW orga \in BOOLEAN, AssignMember(c, u, orga)
      PROVE  QInv'
  BY <1>7 DEF AssignMember, QInv, ActiveInv, HoldsInv
<1>. QED
  BY <1>1, <1>2, <1>3, <1>4, <1>5, <1>6, <1>7, Seating(c) DEF Seating

LEMMA ClanQInv ==
  ASSUME IInv, QInv, NEW k \in Clans, Clan(k)
  PROVE  QInv'
<1>1. ASSUME NEW S \in SUBSET Cells, UpdateSelection(k, S)
      PROVE  QInv'
  <2>. DEFINE new == S \ OpenHolds(k)
              gone == OpenHolds(k) \ S
  <2>1. /\ main = "this" /\ \A c \in new : seat[c] = "FREE" /\ by[c] = Nobody
        /\ hold' = [c \in Cells |-> IF c \in new THEN k ELSE IF c \in gone THEN NoClan ELSE hold[c]]
        /\ claimed' = claimed \ (gone \cup new) /\ financed' = financed \ new
        /\ alloc' = [alloc EXCEPT ![k] = "open"] /\ alloc[k] \in {"none", "open"}
        /\ UNCHANGED <<eventVars, seatVars>>
    BY <1>1 DEF UpdateSelection
  <2>. HIDE DEF new, gone
  <2>. QED
    BY <2>1 DEF QInv, ActiveInv, HoldsInv, IInv, TypeOK
<1>2. CASE CreatePayment(k)
  BY <1>2 DEF CreatePayment, QInv, ActiveInv, HoldsInv
<1>3. CASE ConfirmPayment(k) \/ PaymentLapses(k)
  BY <1>3 DEF ConfirmPayment, PaymentLapses, QInv, ActiveInv, HoldsInv
<1>4. CASE CancelPayment(k)
  BY <1>4 DEF CancelPayment, Detached, QInv, ActiveInv, HoldsInv
<1>5. CASE AllocationExpires(k)
  BY <1>5 DEF AllocationExpires, QInv, ActiveInv, HoldsInv, IInv, TypeOK
<1>. QED
  BY <1>1, <1>2, <1>3, <1>4, <1>5, Clan(k) DEF Clan

LEMMA TimeQInv ==
  ASSUME IInv, QInv, Occasion \/ Worker \/ UNCHANGED vars
  PROVE  QInv'
<1>1. CASE \/ MoveDeadline \/ StartByClock \/ EndByClock \/ Activate \/ ReadOverdue
           \/ UNCHANGED vars
  BY <1>1 DEF MoveDeadline, StartByClock, EndByClock, Activate, ReadOverdue, vars,
     QInv, ActiveInv, HoldsInv
<1>2. CASE CloseEvent \/ Deactivate
  <2>1. /\ Closed(Pending, Unended) /\ seatVars' = seatVars
        /\ main' \in {"none", main}
    BY <1>2 DEF CloseEvent, Deactivate
  <2>. QED
    BY <2>1 DEF Closed, Detached, CellsHeldBy, Unended, QInv, ActiveInv, HoldsInv, IInv, TypeOK
<1>3. CASE ProcessClanHolds
  BY <1>3 DEF ProcessClanHolds, Closed, Detached, CellsHeldBy, QInv, ActiveInv, HoldsInv, IInv, TypeOK
<1>4. ASSUME NEW u \in Users, CancelOverdue(u)
      PROVE  QInv'
  BY <1>4 DEF CancelOverdue, Cancelled, Vacated, QInv, ActiveInv, HoldsInv, IInv, OrdersInv, TypeOK
<1>. QED
  BY <1>1, <1>2, <1>3, <1>4 DEF Occasion, Worker

-----------------------------------------------------------------------------
(* The seats that count against the quota of a clan without an order.        *)

Held(k) == {c \in Cells \ financed : hold[c] = k}

(* What the end of the holds on D uses up of the quota of k.                 *)
Spent(D, k) == {c \in D \ financed : hold[c] = k /\ c \in claimed}

LEMMA HeldIsFinite ==
  ASSUME NEW k
  PROVE  Held(k) \in SUBSET Cells /\ IsFiniteSet(Held(k)) /\ Cardinality(Held(k)) \in Nat
<1>1. Held(k) \in SUBSET Cells
  BY DEF Held
<1>. QED
  BY <1>1, FS_Subset, FS_CardinalityType

(* Two parts of a finite set that have nothing in common.                    *)
LEMMA PartsFit ==
  ASSUME NEW S, IsFiniteSet(S), NEW A \in SUBSET S, NEW B \in SUBSET S, A \cap B = {}
  PROVE  /\ Cardinality(A) \in Nat /\ Cardinality(B) \in Nat /\ Cardinality(S) \in Nat
         /\ Cardinality(A) + Cardinality(B) <= Cardinality(S)
<1>1. IsFiniteSet(A) /\ IsFiniteSet(B)
  BY FS_Subset
<1>2. /\ IsFiniteSet(A \cup B)
      /\ Cardinality(A \cup B) = Cardinality(A) + Cardinality(B) - Cardinality(A \cap B)
  BY <1>1, FS_Union
<1>3. A \cup B \in SUBSET S /\ Cardinality(A \cap B) = 0
  BY FS_EmptySet
<1>4. Cardinality(A \cup B) <= Cardinality(S)
  BY <1>3, FS_Subset
<1>5. Cardinality(A) \in Nat /\ Cardinality(B) \in Nat /\ Cardinality(S) \in Nat
  BY <1>1, FS_CardinalityType
<1>. QED
  BY <1>2, <1>3, <1>4, <1>5

(* A quota that is kept stays so when no seat is added and nothing is spent. *)
LEMMA QuotaStays ==
  ASSUME IInv, NEW k \in Clans, used'[k] = used[k], Held(k)' \subseteq Held(k),
         Cardinality(Held(k)) + used[k] <= Quota
  PROVE  Cardinality(Held(k)') + used'[k] <= Quota
<1>1. Cardinality(Held(k)') <= Cardinality(Held(k)) /\ Cardinality(Held(k)') \in Nat
  BY HeldIsFinite, FS_Subset, FS_CardinalityType
<1>. QED
  BY <1>1, HeldIsFinite DEF IInv, TypeOK

(* Holds that end free at least what they use up.                            *)
LEMMA DetachedFits ==
  ASSUME IInv, NEW D, Detached(D), NEW k \in Clans,
         Cardinality(Held(k)) + used[k] <= Quota
  PROVE  Cardinality(Held(k)') + used'[k] <= Quota
<1>1. Held(k)' \in SUBSET Held(k) /\ Spent(D, k) \in SUBSET Held(k) /\ Held(k)' \cap Spent(D, k) = {}
  BY DEF Detached, Held, Spent, IInv, TypeOK
<1>2. used'[k] = used[k] + Cardinality(Spent(D, k))
  BY DEF Detached, Spent
<1>3. /\ Cardinality(Held(k)') \in Nat /\ Cardinality(Spent(D, k)) \in Nat
      /\ Cardinality(Held(k)') + Cardinality(Spent(D, k)) <= Cardinality(Held(k))
  BY <1>1, HeldIsFinite, PartsFit
<1>. QED
  BY <1>2, <1>3, HeldIsFinite DEF IInv, TypeOK

(* What a clan selects is counted together with what its members took over   *)
(* and with what it gives back at the same time.                             *)
LEMMA SelectedFits ==
  ASSUME IInv, QInv, QuotaKept, NEW k \in Clans, NEW S \in SUBSET Cells, UpdateSelection(k, S)
  PROVE  QuotaKept'
<1>. DEFINE new == S \ OpenHolds(k)
            gone == OpenHolds(k) \ S
            freed == gone \cup new
<1>1. /\ main = "this" /\ event = "OPEN" /\ alloc[k] \in {"none", "open"} /\ order[k] = "NONE"
      /\ \A c \in new : seat[c] = "FREE" /\ by[c] = Nobody /\ ~Live(c)
      /\ hold' = [c \in Cells |-> IF c \in new THEN k ELSE IF c \in gone THEN NoClan ELSE hold[c]]
      /\ financed' = financed \ new /\ order' = order
      /\ used' = [x \in Clans |-> used[x] + Cardinality(Spent(freed, x))]
      /\ S # {} => Cardinality(S) + Consumed(k, S) <= Quota
  BY DEF UpdateSelection, Spent
<1>2. \A c \in OpenHolds(k) : c \in Cells /\ hold[c] = k /\ c \notin financed /\ by[c] = Nobody
  BY <1>1, OpenHoldsUnordered
<1>3. \A c \in new : hold[c] # k
  BY <1>1 DEF Live, Protected, QInv, HoldsInv, IInv, OrdersInv
<1>4. \A c \in Held(k) \ OpenHolds(k) : by[c] # Nobody /\ c \in claimed
  BY <1>1 DEF Held, OpenHolds, Live, Protected, QInv, HoldsInv, IInv, TypeOK
<1>5. ASSUME NEW x \in Clans \ {k}, Cardinality(Held(x)) + used[x] <= Quota
      PROVE  Cardinality(Held(x)') + used'[x] <= Quota
  <2>1. /\ Held(x)' \in SUBSET Held(x) /\ Spent(freed, x) \in SUBSET Held(x)
        /\ Held(x)' \cap Spent(freed, x) = {}
    BY <1>1, <1>2 DEF Held, Spent
  <2>2. /\ Cardinality(Held(x)') \in Nat /\ Cardinality(Spent(freed, x)) \in Nat
        /\ Cardinality(Held(x)') + Cardinality(Spent(freed, x)) <= Cardinality(Held(x))
    BY <2>1, HeldIsFinite, PartsFit
  <2>. QED
    BY <1>1, <1>5, <2>2, HeldIsFinite DEF IInv, TypeOK
<1>6. CASE S = {}
  <2>1. /\ Held(k)' \in SUBSET Held(k) /\ Spent(freed, k) \in SUBSET Held(k)
        /\ Held(k)' \cap Spent(freed, k) = {}
    BY <1>1, <1>2, <1>6 DEF Held, Spent
  <2>2. /\ Cardinality(Held(k)') \in Nat /\ Cardinality(Spent(freed, k)) \in Nat
        /\ Cardinality(Held(k)') + Cardinality(Spent(freed, k)) <= Cardinality(Held(k))
    BY <2>1, HeldIsFinite, PartsFit
  <2>3. Cardinality(Held(k)) + used[k] <= Quota
    BY <1>1 DEF QuotaKept, Held
  <2>4. Cardinality(Held(k)') + used'[k] <= Quota
    BY <1>1, <2>2, <2>3, HeldIsFinite DEF IInv, TypeOK
  <2>. QED
    BY <1>1, <1>5, <2>4 DEF QuotaKept, Held
<1>7. CASE S # {}
  <2>. DEFINE taken == {c \in Cells \ (OpenHolds(k) \cap S) : hold[c] = k /\ c \in claimed}
              rest == Held(k) \ OpenHolds(k)
  <2>1. Held(k)' \in SUBSET (S \cup rest)
    BY <1>1 DEF Held
  <2>2. rest \in SUBSET taken /\ Spent(freed, k) \in SUBSET taken /\ rest \cap Spent(freed, k) = {}
    BY <1>1, <1>2, <1>3, <1>4 DEF Held, Spent
  <2>3. taken \in SUBSET Cells /\ IsFiniteSet(taken) /\ IsFiniteSet(S)
    <3>1. taken \in SUBSET Cells
      OBVIOUS
    <3>. QED
      BY <3>1, FS_Subset
  <2>4. /\ Cardinality(rest) \in Nat /\ Cardinality(Spent(freed, k)) \in Nat /\ Cardinality(taken) \in Nat
        /\ Cardinality(rest) + Cardinality(Spent(freed, k)) <= Cardinality(taken)
    BY <2>2, <2>3, PartsFit
  <2>5. IsFiniteSet(rest)
    BY HeldIsFinite, FS_Difference
  <2>6. Cardinality(Held(k)') \in Nat /\ Cardinality(Held(k)') <= Cardinality(S) + Cardinality(rest)
    BY <2>1, <2>3, <2>5, FitsInUnion
  <2>7. Cardinality(S) + (used[k] + Cardinality(taken)) <= Quota
    BY <1>1, <1>7 DEF Consumed
  <2>8. Cardinality(S) \in Nat /\ used[k] \in Nat
    BY <2>3, FS_CardinalityType DEF IInv, TypeOK
  <2>9. used'[k] = used[k] + Cardinality(Spent(freed, k))
    BY <1>1
  <2>. HIDE DEF taken, rest, freed
  <2>10. Cardinality(Held(k)') + used'[k] <= Quota
    BY <2>4, <2>6, <2>7, <2>8, <2>9
  <2>. QED
    BY <1>1, <1>5, <2>10 DEF QuotaKept, Held
<1>. QED
  BY <1>6, <1>7

LEMMA NextQuota == IInv /\ QInv /\ QuotaKept /\ [Next]_vars => QInv' /\ QuotaKept'
<1>. SUFFICES ASSUME IInv, QInv, QuotaKept, [Next]_vars PROVE QInv' /\ QuotaKept'
  OBVIOUS
<1>1. QInv'
  BY GuestQInv, SeatingQInv, ClanQInv, TimeQInv DEF Next, Occasion, Worker
<1>2. ASSUME UNCHANGED <<hold, financed, used, order>> PROVE QuotaKept'
  BY <1>2 DEF QuotaKept
<1>3. ASSUME NEW D, Detached(D), \A k \in Clans : order'[k] = "NONE" => order[k] = "NONE"
      PROVE  QuotaKept'
  BY <1>3, DetachedFits DEF QuotaKept, Held
<1>4. ASSUME NEW u \in Users, Guest(u) PROVE QuotaKept'
  <2>1. CASE DeleteAccount(u)
    BY <1>2, <1>3, <2>1 DEF DeleteAccount
  <2>2. CASE ~DeleteAccount(u)
    <3>1. UNCHANGED <<hold, financed, used, order>>
      BY <1>4, <2>2 DEF Guest, Register, MarkPaid, TakePaymentBack, EnterUnpaid, Cancel, Cancelled,
         DeleteRegistration, CheckIn, TickCheckIn, CheckOut, Ban, Unban
    <3>. QED
      BY <1>2, <3>1
  <2>. QED
    BY <2>1, <2>2
<1>5. ASSUME NEW c \in Cells, Seating(c) PROVE QuotaKept'
  <2>1. CASE AdminToggleBlock(c) \/ AdminRelease(c)
    BY <1>3, <2>1 DEF AdminToggleBlock, AdminRelease
  <2>2. CASE ~(AdminToggleBlock(c) \/ AdminRelease(c))
    <3>1. UNCHANGED <<hold, financed, used, order>>
      BY <1>5, <2>2 DEF Seating, SyncSeat, Claimed, AdminReleaseSeat, AdminReleaseOf, SaveGrid,
         Reserve, Release, AdminAssign, AssignMember
    <3>. QED
      BY <1>2, <3>1
  <2>. QED
    BY <2>1, <2>2
<1>6. ASSUME NEW k \in Clans, Clan(k) PROVE QuotaKept'
  <2>1. CASE CreatePayment(k)
    <3>1. /\ used' = used /\ order'[k] # "NONE" /\ \A x \in Clans \ {k} : order'[x] = order[x]
          /\ \A x \in Clans : Held(x)' \subseteq Held(x)
      BY <2>1 DEF CreatePayment, Held, IInv, TypeOK
    <3>. QED
      BY <3>1, QuotaStays DEF QuotaKept, Held
  <2>2. CASE CancelPayment(k)
    <3>1. Detached(CellsPaidBy({k})) /\ \A x \in Clans : order'[x] = "NONE" => order[x] = "NONE"
      BY <2>2 DEF CancelPayment, OrdersCancelled
    <3>. QED
      BY <1>3, <3>1
  <2>3. CASE ConfirmPayment(k)
    <3>1. /\ UNCHANGED <<hold, financed, used>>
          /\ \A x \in Clans : order'[x] = "NONE" => order[x] = "NONE"
      BY <2>3 DEF ConfirmPayment, IInv, TypeOK
    <3>. QED
      BY <3>1 DEF QuotaKept
  <2>4. CASE AllocationExpires(k) \/ PaymentLapses(k)
    BY <1>2, <2>4 DEF AllocationExpires, PaymentLapses
  <2>. QED
    BY <1>6, <2>1, <2>2, <2>3, <2>4, SelectedFits DEF Clan
<1>7. ASSUME NEW K, NEW L, Closed(K, L) PROVE QuotaKept'
  <2>1. \A x \in Clans : order'[x] = "NONE" => order[x] = "NONE"
    BY <1>7 DEF Closed, OrdersCancelled
  <2>. QED
    BY <1>3, <1>7, <2>1 DEF Closed
<1>8. CASE Occasion \/ Worker \/ UNCHANGED vars
  <2>1. CASE CloseEvent \/ Deactivate \/ ProcessClanHolds
    BY <1>1, <1>7, <2>1 DEF CloseEvent, Deactivate, ProcessClanHolds
  <2>2. CASE ~(CloseEvent \/ Deactivate \/ ProcessClanHolds)
    <3>1. UNCHANGED <<hold, financed, used, order>>
      BY <1>8, <2>2 DEF Occasion, Worker, MoveDeadline, StartByClock, EndByClock, Activate,
         ReadOverdue, CancelOverdue, Cancelled, vars
    <3>. QED
      BY <1>1, <1>2, <3>1
  <2>. QED
    BY <2>1, <2>2
<1>. QED
  BY <1>1, <1>4, <1>5, <1>6, <1>8 DEF Next

LEMMA InitQuota == Init => QuotaKept
<1>. SUFFICES ASSUME Init, NEW k \in Clans PROVE Cardinality(Held(k)) + used[k] <= Quota
  BY DEF QuotaKept, Held
<1>1. Held(k) = {} /\ used[k] = 0
  BY DEF Init, Held
<1>. QED
  BY <1>1, FS_EmptySet

(* A clan never holds and uses up more seats than its quota, however often   *)
(* its admins select, its members take over and give up and the editor       *)
(* clears seats, as long as no other event takes the active one's place.     *)
THEOREM ClansKeepTheirQuota == Spec => []QuotaKept
<1>1. Spec => []IInv
  BY Invariance, SpecIsRival
<1>. QED
  BY <1>1, InitQInv, InitQuota, NextQuota, PTL DEF Spec
=============================================================================
