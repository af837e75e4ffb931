----------------------------- MODULE SeatBooking -----------------------------
(***************************************************************************)
(* src/events and src/seating: the registrations of one event, their       *)
(* payment and check-in, the seats of its plan, and the seats that clans   *)
(* hold, pay for together and hand out to their members.                   *)
(*                                                                         *)
(* Every action is one transaction: the services lock user, event and      *)
(* registration in this order (seat writes the clan configuration before   *)
(* them), so that two of them never interleave.  What does interleave is   *)
(* the order of transactions, the passing of deadlines, the worker, which  *)
(* acts on a list read earlier, and the registration form, which reads a   *)
(* seat without a lock before it writes it.                                *)
(***************************************************************************)
EXTENDS Integers, FiniteSets

CONSTANTS
  Users, Nobody,
  Cells,      \* the seats of the plan
  Clans, NoClan,
  ClanOf,     \* the clan of every user, NoClan without an accepted membership
  MaxGuests,  \* Event.max_guests
  Quota,      \* effective_limit of every clan
  Overwrite,  \* Event.allow_unpaid_seat_overwrite
  MayBan,     \* bound: users that can be banned
  MayLeave    \* bound: users that can delete their account

ASSUME NamesAssumption == Nobody \notin Users /\ NoClan \notin Clans
ASSUME ClansAssumption == ClanOf \in [Users -> Clans \cup {NoClan}]
ASSUME NumbersAssumption ==
  /\ IsFiniteSet(Users) /\ IsFiniteSet(Cells)
  /\ MaxGuests \in Nat \ {0} /\ Quota \in Nat \ {0} /\ Overwrite \in BOOLEAN
  /\ MayBan \subseteq Users /\ MayLeave \subseteq Users

VARIABLES
  event,     \* effective_status: REGISTRATION_OPEN, RUNNING, CLOSED by the orga
             \* (finished or cancelled), OVER: end_date passed and nobody closed it
  main,      \* the active event: this one, an other one or none
  overdue,   \* the payment deadline of the ticket type has passed
  reg,       \* payment_status of each user's registration, NONE without one
  inside,    \* is_checked_in
  paidUp,    \* history: whose own payment the orga booked and did not take back
  seat, by,  \* reservation_status and registration of each cell
  unsynced,  \* cells the registration form has read and not yet written
  hold,      \* the clan whose active hold is on the cell
  claimed,   \* cells whose active hold is CLAIMED
  used,      \* CLAIMED holds without protection of each clan
  financed,  \* cells whose active hold belongs to the clan's payment
  funded,    \* funded_registration of that hold
  was,       \* registration_snapshot: payment_status before the funding
  alloc,     \* ClanSeatAllocation: none, open, late (expires_at passed), ended
  order,     \* ClanSeatPayment of each clan
  lapsed,    \* clans whose payment is past release_at
  todo,      \* registrations the deadline worker still has to look at
  banned, deleted

eventVars == <<event, main, overdue>>
ticketVars == <<reg, inside, paidUp>>
seatVars == <<seat, by, unsynced>>
holdVars == <<hold, claimed, used, financed, funded, was>>
orderVars == <<alloc, order, lapsed>>
userVars == <<banned, deleted>>
vars == <<eventVars, ticketVars, seatVars, holdVars, orderVars, todo, userVars>>

Init ==
  /\ event = "OPEN" /\ main = "this" /\ overdue = FALSE
  /\ reg = [u \in Users |-> "NONE"] /\ inside = {} /\ paidUp = {}
  /\ seat = [c \in Cells |-> "FREE"] /\ by = [c \in Cells |-> Nobody]
  /\ unsynced = {}
  /\ hold = [c \in Cells |-> NoClan] /\ claimed = {} /\ used = [k \in Clans |-> 0]
  /\ financed = {} /\ funded = [c \in Cells |-> Nobody]
  /\ was = [c \in Cells |-> "CANCELLED"]
  /\ alloc = [k \in Clans |-> "none"] /\ order = [k \in Clans |-> "NONE"] /\ lapsed = {}
  /\ todo = {} /\ banned = {} /\ deleted = {}

-----------------------------------------------------------------------------
(* What the code computes from the tables. *)

Counted == {"UNPAID", "PAID"}

(* committed_holds: the seat belongs to a payment that is paid, or pending  *)
(* and not past its release. *)
Committed(c) ==
  c \in financed /\ \/ order[hold[c]] = "PAID"
                    \/ order[hold[c]] = "PENDING" /\ hold[c] \notin lapsed /\ event # "OVER"

(* A hold without a payment protects until the event starts. *)
Protected(c) ==
  /\ hold[c] # NoClan /\ c \notin financed /\ main = "this" /\ event = "OPEN"
  /\ alloc[hold[c]] = "open"

(* live_holds: the hold protects the seat now. *)
Live(c) == Committed(c) \/ (Protected(c) /\ seat[c] # "BLOCKED")

(* active_registrations_count + reserved_ticket_count *)
Booked(r, f) ==
  Cardinality({u \in Users : r[u] \in Counted})
    + Cardinality({c \in Cells : Committed(c) /\ f[c] = Nobody})

IsFull == Booked(reg, funded) >= MaxGuests

(* can_register, and is_seat_selection_open. *)
CanRegister(u) ==
  main = "this" /\ event = "OPEN" /\ ~IsFull /\ reg[u] \in {"NONE", "CANCELLED"}

SelectionOpen == event = "OPEN"

Funded(u) == \E c \in Cells : funded[c] = u

Member(u, k) == ClanOf[u] = k /\ u \notin (banned \cup deleted)

(* Mutant: a guest who paid may also take a seat that is held for a clan. *)
AccessPaid(c, u) == ~Committed(c) /\ (Live(c) => (Member(u, hold[c]) \/ reg[u] = "PAID"))

(* check_clan_access *)
Access(c, u) == ~Committed(c) /\ (Live(c) => Member(u, hold[c]))

(* What locks the event or the registration waits for the form; the seat   *)
(* editor, which locks the configuration and the seat, does not.           *)
Free == unsynced = {}

SeatsOf(u) == {c \in Cells : by[c] = u}

SeatStatus(r, u) == IF r[u] = "PAID" THEN "RESERVED" ELSE "PRE"

(* Cells given up, the hold of each staying as it is. *)
Vacated(D) ==
  /\ seat' = [c \in Cells |-> IF c \in D THEN "FREE" ELSE seat[c]]
  /\ by' = [c \in Cells |-> IF c \in D THEN Nobody ELSE by[c]]
  /\ UNCHANGED unsynced

(* The one seat of u is c now, and the others are given up. *)
Seated(u, c, r) ==
  /\ seat' = [x \in Cells |-> IF x = c THEN SeatStatus(r, u)
                              ELSE IF x \in SeatsOf(u) THEN "FREE" ELSE seat[x]]
  /\ by' = [x \in Cells |-> IF x = c THEN u
                            ELSE IF x \in SeatsOf(u) THEN Nobody ELSE by[x]]
  /\ UNCHANGED unsynced

(* release_holds: the protection ends; a claimed seat stays used up. *)
Detached(D) ==
  /\ hold' = [c \in Cells |-> IF c \in D THEN NoClan ELSE hold[c]]
  /\ claimed' = claimed \ D /\ financed' = financed \ D
  /\ used' = [k \in Clans |-> used[k] +
                Cardinality({c \in D \ financed : hold[c] = k /\ c \in claimed})]
  /\ UNCHANGED <<funded, was>>

(* claim_hold, sent by every save of a cell with a registration: the cell  *)
(* is not blocked any more when the signal looks for a live hold.          *)
Claimed(D) ==
  /\ claimed' = claimed \cup {c \in D : Committed(c) \/ Protected(c)}
  /\ UNCHANGED <<hold, used, financed, funded, was>>

-----------------------------------------------------------------------------
(* RegistrationService, PaymentService and CheckInService. *)

Register(u) ==
  /\ Free /\ CanRegister(u) /\ u \notin (banned \cup deleted) /\ ~overdue
  /\ reg' = [reg EXCEPT ![u] = "UNPAID"]
  /\ UNCHANGED <<eventVars, inside, paidUp, seatVars, holdVars, orderVars, todo, userVars>>

(* mark_paid.  A cancelled registration needs a free place again. *)
MarkPaid(u) ==
  /\ Free /\ reg[u] \in {"UNPAID", "CANCELLED"} /\ u \notin deleted /\ ~Funded(u)
  /\ reg[u] = "CANCELLED" => ~IsFull
  /\ reg' = [reg EXCEPT ![u] = "PAID"] /\ paidUp' = paidUp \cup {u}
  /\ seat' = [c \in Cells |-> IF c \in SeatsOf(u) /\ seat[c] = "PRE" THEN "RESERVED"
                                                                 ELSE seat[c]]
  /\ UNCHANGED <<eventVars, inside, by, unsynced, holdVars, orderVars, todo, userVars>>

(* The orga takes a payment back in the form: save_model writes the        *)
(* registration, and sync_seat_status_with_payment reads its seats.        *)
TakePaymentBack(u) ==
  /\ Free /\ reg[u] = "PAID" /\ ~Funded(u)
  /\ reg' = [reg EXCEPT ![u] = "UNPAID"] /\ paidUp' = paidUp \ {u}
  /\ inside' = inside \ {u} /\ unsynced' = SeatsOf(u)
  /\ UNCHANGED <<eventVars, seat, by, holdVars, orderVars, todo, userVars>>

(* seat.save(update_fields=['reservation_status']): whoever has the seat.  *)
Synced(c) == [seat EXCEPT ![c] = "PRE"]

SyncSeat(c) ==
  /\ c \in unsynced /\ unsynced' = unsynced \ {c}
  /\ seat' = Synced(c) /\ Claimed({c})
  /\ UNCHANGED <<eventVars, ticketVars, by, orderVars, todo, userVars>>

(* EventRegistration.clean, for a row that is not there yet. *)
NewEntry(u) == reg[u] = "NONE" /\ CanRegister(u)

(* The orga adds a registration or sets a cancelled one back in the form.  *)
EnterUnpaid(u) ==
  /\ Free /\ (NewEntry(u) \/ (reg[u] = "CANCELLED" /\ ~IsFull))
  /\ reg' = [reg EXCEPT ![u] = "UNPAID"]
  /\ UNCHANGED <<eventVars, inside, paidUp, seatVars, holdVars, orderVars, todo, userVars>>

(* mark_cancelled: a clan's ticket goes back to the clan. *)
Cancelled(u) ==
  /\ reg' = [reg EXCEPT ![u] = "CANCELLED"]
  /\ inside' = inside \ {u} /\ paidUp' = paidUp \ {u}
  /\ Vacated(SeatsOf(u))
  /\ funded' = [c \in Cells |-> IF funded[c] = u THEN Nobody ELSE funded[c]]
  /\ was' = [c \in Cells |-> IF funded[c] = u THEN "CANCELLED" ELSE was[c]]
  /\ claimed' = claimed \ {c \in Cells : funded[c] = u}
  /\ UNCHANGED <<hold, used, financed>>

Cancel(u) ==
  /\ Free /\ reg[u] \in Counted /\ Cancelled(u)
  /\ UNCHANGED <<eventVars, orderVars, todo, userVars>>

(* The orga deletes a registration; a funded one cannot be deleted. *)
DeleteRegistration(u) ==
  /\ Free /\ reg[u] # "NONE" /\ ~Funded(u)
  /\ reg' = [reg EXCEPT ![u] = "NONE"]
  /\ inside' = inside \ {u} /\ paidUp' = paidUp \ {u}
  /\ Vacated(SeatsOf(u))
  /\ UNCHANGED <<eventVars, holdVars, orderVars, todo, userVars>>

(* Mutant: check-in trusts the payment status of the object it was given.  *)
CanCheckInUnpaid(u) == reg[u] \in Counted /\ u \notin (banned \cup deleted)

CanCheckIn(u) == reg[u] = "PAID" /\ u \notin (banned \cup deleted)

CheckIn(u) ==
  /\ Free /\ CanCheckIn(u) /\ u \notin inside
  /\ main # "other" /\ event \in {"OPEN", "RUNNING"}
  /\ inside' = inside \cup {u}
  /\ UNCHANGED <<eventVars, reg, paidUp, seatVars, holdVars, orderVars, todo, userVars>>

(* The orga ticks the box in the form of a paid registration. *)
TickCheckIn(u) ==
  /\ Free /\ reg[u] = "PAID" /\ u \notin banned /\ inside' = inside \cup {u}
  /\ UNCHANGED <<eventVars, reg, paidUp, seatVars, holdVars, orderVars, todo, userVars>>

CheckOut(u) ==
  /\ Free /\ u \in inside /\ inside' = inside \ {u}
  /\ UNCHANGED <<eventVars, reg, paidUp, seatVars, holdVars, orderVars, todo, userVars>>

(* cancel_overdue_registrations reads the list without a lock. *)
ReadOverdue ==
  /\ Free /\ todo = {} /\ overdue /\ event # "CLOSED"
  /\ todo' = {u \in Users : reg[u] = "UNPAID"} /\ todo' # {}
  /\ UNCHANGED <<eventVars, ticketVars, seatVars, holdVars, orderVars, userVars>>

(* Mutant: what the list says is not checked again under the lock. *)
StillOverdueAlways(u) == reg[u] \in Counted

(* Mutant: once the event runs, overdue registrations are left alone. *)
StillOverdueOpen(u) == overdue /\ event = "OPEN" /\ reg[u] = "UNPAID"

(* _cancel_if_overdue looks again: paid, extended or funded meanwhile? *)
StillOverdue(u) ==
  /\ overdue /\ event # "CLOSED"
  /\ reg[u] = "UNPAID" /\ u \notin inside /\ ~Funded(u)

CancelOverdue(u) ==
  /\ Free /\ u \in todo /\ todo' = todo \ {u}
  /\ IF StillOverdue(u) THEN Cancelled(u) ELSE UNCHANGED <<ticketVars, seatVars, holdVars>>
  /\ UNCHANGED <<eventVars, orderVars, userVars>>

-----------------------------------------------------------------------------
(* Personal seats: reserve_seat_api, release_seat_api and the admin views. *)

(* can_reserve_for_user *)
CanReserve(u, c) ==
  /\ reg[u] \in Counted /\ ~Funded(u) /\ u \notin banned
  /\ SelectionOpen /\ seat[c] # "BLOCKED" /\ Access(c, u)
  /\ seat[c] = "RESERVED" => by[c] = u
  /\ (seat[c] = "PRE" /\ by[c] # u) => (Overwrite /\ reg[u] = "PAID")

(* reserve_seat_api: the seats the guest had are given up first. *)
Reserve(u, c) ==
  /\ Free /\ u \notin deleted /\ CanReserve(u, c)
  /\ Seated(u, c, reg) /\ Claimed({c})
  /\ UNCHANGED <<eventVars, ticketVars, orderVars, todo, userVars>>

Release(u, c) ==
  /\ Free /\ by[c] = u /\ u \notin (banned \cup deleted) /\ ~Committed(c) /\ SelectionOpen
  /\ Vacated({c})
  /\ UNCHANGED <<eventVars, ticketVars, holdVars, orderVars, todo, userVars>>

(* admin_assign_seat; force takes an occupied or a blocked seat as well. *)
AdminAssign(u, c) ==
  /\ Free /\ reg[u] \in Counted /\ ~Funded(u) /\ Access(c, u)
  /\ Seated(u, c, reg) /\ Claimed({c})
  /\ UNCHANGED <<eventVars, ticketVars, orderVars, todo, userVars>>

AdminToggleBlock(c) ==
  /\ ~Committed(c)
  /\ seat' = [seat EXCEPT ![c] = IF @ = "BLOCKED" THEN "FREE" ELSE "BLOCKED"]
  /\ by' = [by EXCEPT ![c] = Nobody]
  /\ Detached({c})
  /\ UNCHANGED <<eventVars, ticketVars, unsynced, orderVars, todo, userVars>>

(* admin_release_seat, by registration: the hold stays. *)
AdminReleaseOf(u) ==
  /\ Free /\ ~Funded(u) /\ SeatsOf(u) # {} /\ Vacated(SeatsOf(u))
  /\ UNCHANGED <<eventVars, ticketVars, holdVars, orderVars, todo, userVars>>

(* admin_release_seat, by coordinates: the hold goes as well. *)
AdminRelease(c) ==
  /\ ~Committed(c) /\ Vacated({c}) /\ Detached({c})
  /\ UNCHANGED <<eventVars, ticketVars, orderVars, todo, userVars>>

(* admin_release_seat, by either. *)
AdminReleaseSeat(c) == AdminRelease(c) \/ \E u \in Users : AdminReleaseOf(u)

(* save_grid: the editor blocks or opens a seat nobody has. *)
MayRepaint(c) == by[c] = Nobody /\ ~Committed(c) /\ (seat[c] # "BLOCKED" => ~Live(c))

SaveGrid(c) ==
  /\ MayRepaint(c)
  /\ seat' = [seat EXCEPT ![c] = IF @ = "BLOCKED" THEN "FREE" ELSE "BLOCKED"]
  /\ UNCHANGED <<eventVars, ticketVars, by, unsynced, holdVars, orderVars, todo, userVars>>

-----------------------------------------------------------------------------
(* Seats for clans: update_selection and the payments. *)

OpenHolds(k) == {c \in Cells : Live(c) /\ hold[c] = k /\ by[c] = Nobody}

(* Mutant: a claimed seat whose booking was given up is free of charge. *)
ConsumedHeld(k, S) ==
  Cardinality({c \in Cells \ (OpenHolds(k) \cap S) : hold[c] = k /\ c \in claimed})

(* Claimed seats count against the quota, also after their release. *)
Consumed(k, S) ==
  used[k] + Cardinality({c \in Cells \ (OpenHolds(k) \cap S) : hold[c] = k /\ c \in claimed})

HasAdmin(k) == \E u \in Users : Member(u, k)

UpdateSelection(k, S) ==
  /\ Free /\ HasAdmin(k) /\ main = "this" /\ event = "OPEN"
  /\ order[k] = "NONE" /\ alloc[k] \in {"none", "open"}
  /\ (alloc[k] = "none") => (S # {})
  /\ (S # {}) => (Cardinality(S) + Consumed(k, S) <= Quota)
  /\ \A c \in S \ OpenHolds(k) : seat[c] = "FREE" /\ by[c] = Nobody /\ ~Live(c)
  /\ LET gone == OpenHolds(k) \ S
         new == S \ OpenHolds(k)
         freed == gone \cup new   \* elapsed holds on the new seats end as well
     IN  /\ hold' = [c \in Cells |-> IF c \in new THEN k
                                     ELSE IF c \in gone THEN NoClan ELSE hold[c]]
         /\ claimed' = claimed \ freed /\ financed' = financed \ new
         /\ used' = [x \in Clans |-> used[x] +
              Cardinality({c \in freed \ financed : hold[c] = x /\ c \in claimed})]
  /\ alloc' = [alloc EXCEPT ![k] = "open"]
  /\ UNCHANGED <<funded, was, eventVars, ticketVars, seatVars, order, lapsed, todo,
                 userVars>>

(* create_payment: all open holds, as the confirmed preview listed them. *)
CreatePayment(k) ==
  /\ Free /\ HasAdmin(k) /\ main = "this" /\ event = "OPEN"
  /\ alloc[k] = "open" /\ order[k] = "NONE"
  /\ LET H == OpenHolds(k)
     IN  /\ H # {} /\ \A c \in H : seat[c] = "FREE"
         /\ Cardinality(H) + Consumed(k, H) <= Quota
         /\ Booked(reg, funded) + Cardinality(H) <= MaxGuests
         /\ financed' = financed \cup H
  /\ order' = [order EXCEPT ![k] = "PENDING"]
  /\ UNCHANGED <<hold, claimed, used, funded, was, eventVars, ticketVars, seatVars, alloc,
                 lapsed, todo, userVars>>

(* Mutant: a transfer is still confirmed after the seats were released. *)
ConfirmableLate(k) == order[k] = "PENDING"

Confirmable(k) == order[k] = "PENDING" /\ k \notin lapsed

ConfirmPayment(k) ==
  /\ Free /\ Confirmable(k) /\ main = "this" /\ event \in {"OPEN", "RUNNING"}
  /\ order' = [order EXCEPT ![k] = "PAID"]
  /\ UNCHANGED <<eventVars, ticketVars, seatVars, holdVars, alloc, lapsed, todo, userVars>>

(* _cancel_payment for the pending payments of the clans in K. *)
CellsPaidBy(K) == {c \in financed : hold[c] \in K}

OrdersCancelled(K) ==
  order' = [k \in Clans |-> IF k \in K THEN "CANCELLED" ELSE order[k]]

CancelPayment(k) ==
  /\ Free /\ order[k] = "PENDING" /\ OrdersCancelled({k}) /\ Detached(CellsPaidBy({k}))
  /\ UNCHANGED <<eventVars, ticketVars, seatVars, alloc, lapsed, todo, userVars>>

(* Mutant: an unassigned member keeps the ticket. *)
RestoredPaid(c) == reg

(* _restore_registration: what the member had before the clan's ticket. *)
Restored(c) == IF funded[c] = Nobody THEN reg ELSE [reg EXCEPT ![funded[c]] = was[c]]

(* Who may get the ticket of the hold on c. *)
MayBeFunded(u, c) ==
  Member(u, hold[c]) /\ reg[u] # "PAID" /\ u \notin inside /\ ~Funded(u)

(* assign_member, u = Nobody to unassign only. *)
AssignMember(c, u, orga) ==
  LET old == funded[c]
      freed == {c} \cup {x \in Cells : by[x] = u /\ u # Nobody}
      vacant == [funded EXCEPT ![c] = Nobody]
  IN  /\ Free /\ c \in financed /\ order[hold[c]] = "PAID" /\ u # old
      /\ main = "this" /\ event \in (IF orga THEN {"OPEN", "RUNNING"} ELSE {"OPEN"})
      /\ orga \/ (HasAdmin(hold[c]) /\ old \notin inside)
      /\ u # Nobody => (MayBeFunded(u, c) /\ by[c] \in {old, u, Nobody})
      /\ (u # Nobody /\ reg[u] \notin Counted) => (Booked(Restored(c), vacant) <= MaxGuests)
      /\ reg' = IF u = Nobody THEN Restored(c) ELSE [Restored(c) EXCEPT ![u] = "PAID"]
      /\ funded' = [funded EXCEPT ![c] = u]
      /\ Booked(reg', funded') <= MaxGuests
      /\ inside' = inside \ {old}
      /\ was' = [was EXCEPT ![c] = IF u # Nobody /\ reg[u] = "UNPAID" THEN "UNPAID"
                                   ELSE "CANCELLED"]
      /\ claimed' = IF u = Nobody THEN claimed \ {c} ELSE claimed \cup {c}
      /\ seat' = [x \in Cells |-> IF x = c /\ u # Nobody THEN "RESERVED"
                                  ELSE IF x \in freed THEN "FREE" ELSE seat[x]]
      /\ by' = [x \in Cells |-> IF x = c THEN u
                                ELSE IF x \in freed THEN Nobody ELSE by[x]]
      /\ UNCHANGED <<eventVars, paidUp, unsynced, hold, used, financed, orderVars, todo,
                     userVars>>

-----------------------------------------------------------------------------
(* Deadlines, the event, the worker and the accounts. *)

(* expires_at or release_at passes; a payment is released before. *)
AllocationExpires(k) ==
  /\ alloc[k] = "open" /\ (order[k] = "PENDING" => k \in lapsed)
  /\ alloc' = [alloc EXCEPT ![k] = "late"]
  /\ UNCHANGED <<eventVars, ticketVars, seatVars, holdVars, order, lapsed, todo, userVars>>

PaymentLapses(k) ==
  /\ order[k] = "PENDING" /\ k \notin lapsed /\ lapsed' = lapsed \cup {k}
  /\ UNCHANGED <<eventVars, ticketVars, seatVars, holdVars, alloc, order, todo, userVars>>

(* The payment deadline of the ticket passes, or the orga extends it. *)
MoveDeadline ==
  /\ Free /\ overdue' = ~overdue
  /\ UNCHANGED <<event, main, ticketVars, seatVars, holdVars, orderVars, todo, userVars>>

StartByClock ==
  /\ event = "OPEN" /\ event' = "RUNNING"
  /\ UNCHANGED <<main, overdue, ticketVars, seatVars, holdVars, orderVars, todo, userVars>>

EndByClock ==
  /\ event = "RUNNING" /\ event' = "OVER"
  /\ \A k \in Clans : alloc[k] # "open" /\ (order[k] = "PENDING" => k \in lapsed)
  /\ UNCHANGED <<main, overdue, ticketVars, seatVars, holdVars, orderVars, todo, userVars>>

(* The holds without a payment that belong to the clans in K. *)
CellsHeldBy(K) == {c \in Cells \ financed : hold[c] \in K}

Pending == {k \in Clans : order[k] = "PENDING"}
Unended == {k \in Clans : alloc[k] \in {"open", "late"}}

(* close_clan_holds_with_event, also part of the worker's round: pending   *)
(* payments of K are cancelled and the allocations of L expire.            *)
Closed(K, L) ==
  /\ OrdersCancelled(K) /\ alloc' = [k \in Clans |-> IF k \in L THEN "ended" ELSE alloc[k]]
  /\ Detached(CellsPaidBy(K) \cup CellsHeldBy(L))

(* The orga finishes the event, which deactivates it too, or calls it off. *)
CloseEvent ==
  /\ Free /\ event # "CLOSED" /\ event' = "CLOSED" /\ Closed(Pending, Unended)
  /\ main' = main \/ (main = "this" /\ main' = "none")
  /\ UNCHANGED <<overdue, ticketVars, seatVars, lapsed, todo, userVars>>

(* Another event becomes the active one, by an update without a signal;    *)
(* or the orga deactivates this one in the form.                           *)
OtherEvent ==
  /\ Free /\ main = "this" /\ main' = "other"
  /\ UNCHANGED <<event, overdue, ticketVars, seatVars, holdVars, orderVars, todo, userVars>>

Deactivate ==
  /\ Free /\ main = "this" /\ main' = "none" /\ Closed(Pending, Unended)
  /\ UNCHANGED <<event, overdue, ticketVars, seatVars, lapsed, todo, userVars>>

Activate ==
  /\ Free /\ main # "this" /\ event \in {"OPEN", "RUNNING"} /\ main' = "this"
  /\ UNCHANGED <<event, overdue, ticketVars, seatVars, holdVars, orderVars, todo, userVars>>

(* Mutant: the worker leaves payments past their release alone. *)
DuePaymentsOfEvent ==
  {k \in Pending : main # "this" \/ event \notin {"OPEN", "RUNNING"}}

DuePayments ==
  {k \in Pending : main # "this" \/ event \notin {"OPEN", "RUNNING"} \/ k \in lapsed}

DueAllocations ==
  {k \in Unended : main # "this" \/ event # "OPEN" \/ alloc[k] = "late"}

(* process_clan_holds *)
ProcessClanHolds ==
  /\ Free /\ DuePayments \cup DueAllocations # {}
  /\ Closed(DuePayments, DueAllocations)
  /\ UNCHANGED <<eventVars, ticketVars, seatVars, lapsed, todo, userVars>>

(* _disable_user checks the guest out, except after the event. *)
Ban(u) ==
  /\ Free /\ u \in MayBan \ (banned \cup deleted) /\ banned' = banned \cup {u}
  /\ inside' = IF event \in {"OPEN", "RUNNING"} THEN inside \ {u} ELSE inside
  /\ UNCHANGED <<eventVars, reg, paidUp, seatVars, holdVars, orderVars, todo, deleted>>

Unban(u) ==
  /\ Free /\ u \in banned /\ banned' = banned \ {u}
  /\ UNCHANGED <<eventVars, ticketVars, seatVars, holdVars, orderVars, todo, deleted>>

(* delete_account: not with a paid ticket, and not as the last active      *)
(* member of a clan with a payment.  A clan is dissolved when nobody is    *)
(* left in it, banned members counting.                                    *)
DeleteAccount(u) ==
  LET k == ClanOf[u]
      left == {v \in Users \ ({u} \cup deleted) : ClanOf[v] = k}
  IN  /\ Free /\ u \in MayLeave \ (deleted \cup banned) /\ reg[u] # "PAID"
      /\ (k # NoClan /\ left \subseteq banned) => order[k] = "NONE"
      /\ deleted' = deleted \cup {u}
      /\ reg' = IF reg[u] = "UNPAID" THEN [reg EXCEPT ![u] = "CANCELLED"] ELSE reg
      /\ inside' = inside \ {u} /\ Vacated(SeatsOf(u))
      /\ IF k # NoClan /\ left = {}
         THEN Detached(CellsHeldBy({k})) /\ alloc' = [alloc EXCEPT ![k] = "none"]
         ELSE UNCHANGED <<holdVars, alloc>>
      /\ UNCHANGED <<eventVars, paidUp, order, lapsed, todo, banned>>

-----------------------------------------------------------------------------
Guest(u) ==
  \/ Register(u) \/ MarkPaid(u) \/ TakePaymentBack(u) \/ EnterUnpaid(u) \/ Cancel(u)
  \/ DeleteRegistration(u) \/ CheckIn(u) \/ TickCheckIn(u) \/ CheckOut(u)
  \/ Ban(u) \/ Unban(u) \/ DeleteAccount(u)

Seating(c) ==
  \/ SyncSeat(c) \/ AdminToggleBlock(c) \/ AdminReleaseSeat(c) \/ SaveGrid(c)
  \/ \E u \in Users : Reserve(u, c) \/ Release(u, c) \/ AdminAssign(u, c)
  \/ \E u \in Users \cup {Nobody}, orga \in BOOLEAN : AssignMember(c, u, orga)

Clan(k) ==
  \/ \E S \in SUBSET Cells : UpdateSelection(k, S)
  \/ CreatePayment(k) \/ ConfirmPayment(k) \/ CancelPayment(k)
  \/ AllocationExpires(k) \/ PaymentLapses(k)

Occasion ==
  \/ MoveDeadline \/ StartByClock \/ EndByClock \/ CloseEvent
  \/ Deactivate \/ Activate

Worker == ProcessClanHolds \/ ReadOverdue \/ \E u \in Users : CancelOverdue(u)

Next ==
  \/ \E u \in Users : Guest(u)
  \/ \E c \in Cells : Seating(c)
  \/ \E k \in Clans : Clan(k)
  \/ Occasion \/ Worker

Spec == Init /\ [][Next]_vars

(* The same beside other events: one of them may become the active one.     *)
RivalNext == Next \/ OtherEvent

RivalSpec == Init /\ [][RivalNext]_vars

(* The clock runs, a transaction that has begun ends, and the worker calls  *)
(* both services every minute.  Row locks are granted in the order of the   *)
(* queue, so that a call that keeps finding a lock taken gets it: strong    *)
(* fairness.  Nobody else has to do anything.                               *)
Fairness ==
  /\ \A k \in Clans : WF_vars(PaymentLapses(k))
  /\ \A c \in Cells : WF_vars(SyncSeat(c))
  /\ SF_vars(ProcessClanHolds) /\ SF_vars(ReadOverdue)
  /\ \A u \in Users : SF_vars(CancelOverdue(u))

FairSpec == Spec /\ Fairness

-----------------------------------------------------------------------------
\* The type of the state.
TypeOK ==
  /\ event \in {"OPEN", "RUNNING", "OVER", "CLOSED"}
  /\ main \in {"this", "other", "none"} /\ overdue \in BOOLEAN
  /\ reg \in [Users -> {"NONE", "UNPAID", "PAID", "CANCELLED"}]
  /\ inside \subseteq Users /\ paidUp \subseteq Users
  /\ seat \in [Cells -> {"FREE", "PRE", "RESERVED", "BLOCKED"}]
  /\ by \in [Cells -> Users \cup {Nobody}] /\ unsynced \subseteq Cells
  /\ hold \in [Cells -> Clans \cup {NoClan}]
  /\ claimed \subseteq Cells /\ used \in [Clans -> Nat]
  /\ financed \subseteq {c \in Cells : hold[c] # NoClan}
  /\ funded \in [Cells -> Users \cup {Nobody}]
  /\ was \in [Cells -> {"UNPAID", "CANCELLED"}]
  /\ alloc \in [Clans -> {"none", "open", "late", "ended"}]
  /\ order \in [Clans -> {"NONE", "PENDING", "PAID", "CANCELLED"}]
  /\ lapsed \subseteq Clans /\ todo \subseteq Users
  /\ banned \subseteq Users /\ deleted \subseteq Users

(* The event never has more guests than places: registrations and prepaid  *)
(* tickets count together, whichever of register_user, mark_paid, the      *)
(* form, create_payment and assign_member uses the last one.               *)
CapacityKept == Booked(reg, funded) <= MaxGuests

(* A seat of a payment is either kept free for the clan, or the paid seat  *)
(* of the member who got its ticket: no booking, block, cancellation or    *)
(* release between order and assignment takes it from the clan.            *)
ClanSeatsKept ==
  \A c \in Cells : Committed(c) =>
    \/ funded[c] = Nobody /\ by[c] = Nobody /\ seat[c] = "FREE"
    \/ \E u \in Users : funded[c] = u /\ by[c] = u /\ seat[c] = "RESERVED" /\ reg[u] = "PAID"

(* A registration is paid exactly when its own payment was booked or one   *)
(* prepaid ticket of its clan stands for it, never both: nobody is charged *)
(* twice, and a ticket taken away does not leave a paid registration.      *)
TicketsBacked ==
  /\ \A u \in Users : (reg[u] = "PAID") <=> (u \in paidUp \/ Funded(u))
  /\ \A u \in paidUp : ~Funded(u)
  /\ \A c, d \in Cells : (funded[c] = funded[d] /\ c # d) => funded[c] = Nobody

(* A seat says what its guest's registration says: reserved when paid,     *)
(* pre-reserved when not, none when cancelled; and nobody has two.         *)
SeatMatchesTicket ==
  \A c \in Cells \ unsynced, u \in Users : by[c] = u =>
    /\ SeatsOf(u) = {c}
    /\ \/ reg[u] = "PAID" /\ seat[c] = "RESERVED"
       \/ reg[u] = "UNPAID" /\ seat[c] = "PRE"

(* Payments, tickets and seats agree, those of a clan included.            *)
TicketsAndSeats == TypeOK /\ ClanSeatsKept /\ TicketsBacked /\ SeatMatchesTicket

(* Who is checked in has paid and has an account, and until the event is   *)
(* over is not banned: cancelling, taking back a payment, reassigning a    *)
(* ticket and banning all check out.                                       *)
OnlyPaidInside ==
  \A u \in inside :
    /\ reg[u] = "PAID" /\ u \notin deleted
    /\ event \in {"OPEN", "RUNNING"} => u \notin banned

(* Guests and their seats through bans and deletions of accounts.          *)
InsideAndSeated == OnlyPaidInside /\ SeatMatchesTicket

(* Open and taken over seats of a clan count together against its quota,   *)
(* also after the booking of a taken over seat was given up.               *)
QuotaKept ==
  \A k \in Clans : order[k] = "NONE" =>
    Cardinality({c \in Cells \ financed : hold[c] = k}) + used[k] <= Quota

(* While a hold protects a seat, only members of the clan become its       *)
(* guests, whoever assigns it and whoever gave it up before.               *)
ClanProtection ==
  [][\A c \in Cells : (Live(c) /\ by'[c] \notin {by[c], Nobody}) => Member(by'[c], hold[c])]_vars

(* The deadline worker, which acts on a list it read earlier, never takes  *)
(* away a ticket that was paid or a guest that was let in since.           *)
WorkerSparesPaid ==
  [][todo' \subseteq todo /\ todo' # todo =>
       /\ \A u \in Users : reg[u] = "PAID" => reg'[u] = "PAID"
       /\ inside \subseteq inside']_vars

(* A collective order never stays pending: it is paid or given back.       *)
OrdersSettle == \A k \in Clans : order[k] = "PENDING" ~> order[k] # "PENDING"

(* When the payment deadline has passed for good, no registration of an    *)
(* event that goes on stays unpaid.                                        *)
DeadlineEnforced ==
  <>[](overdue /\ event \in {"OPEN", "RUNNING", "OVER"}) =>
    \A u \in Users : reg[u] = "UNPAID" ~> reg[u] # "UNPAID"
=============================================================================
