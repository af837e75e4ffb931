-------------------------------- MODULE Venue --------------------------------
(* src/events and src/seating together: the seats and payments of one event  *)
(* (SeatBooking), the events among each other (EventDesk) and the door       *)
(* (Entrance). The door reads payment, account and photo of a guest, which   *)
(* may change there at any time, and which event is active; it gives nothing *)
(* back but the check-in, which no seat and no payment depends on except     *)
(* through mark_unpaid, and that checks out in both. So a behaviour moves    *)
(* one part, chosen at the start, while the others rest, and their states    *)
(* need not be multiplied.                                                   *)
EXTENDS SeatBooking, Entrance

CONSTANTS Few \* bound: users registered at once where another event may become active

ASSUME FewAssumption == Few \in Nat

VARIABLE part \* the part that moves

venueVars == <<vars, entranceVars, part>>

VenueInit(statuses) ==
  /\ part \in {"seats", "rival", "events", "door", "device"}
  /\ Init /\ EntranceInit
  /\ IF part = "events" THEN DeskInit(Here, statuses, {})
     ELSE DeskInit(Here, {"REGISTRATION_OPEN", "DRAFT"}, {Here})
  /\ part # "events" => Active(Here) /\ \A e \in Events \ {Here} : events[e].status = "DRAFT"
  /\ part \in {"seats", "rival", "events"} => ~extended
  /\ part = "door" => extended

(* All users at one event, or a few of them beside another event.            *)
SeatsMove ==
  /\ \/ part = "seats" /\ Next
     \/ part = "rival" /\ RivalNext /\ Cardinality({u \in Users : reg'[u] # "NONE"}) <= Few
  /\ UNCHANGED <<entranceVars, part>>

(* Saves that overlap; which pages are asked for in between does not matter  *)
(* for them.                                                                 *)
EventsMove(statuses) ==
  /\ part = "events" /\ (Clock \/ \E w \in Organisers : SaveNext(w, statuses))
  /\ UNCHANGED <<vars, doorVars, deviceVars, part>>

Alone(w) == \A v \in Organisers \ {w} : Idle(v)

(* The requests of a desk while the event is edited, finished or replaced    *)
(* and the guests ts pay, are barred or lose their photo: what was true at   *)
(* the look may be wrong at the act. One save at a time: whose it is does    *)
(* not matter for the door.                                                  *)
DoorMove(statuses, ts) ==
  /\ part = "door" /\ UNCHANGED <<vars, part>>
  /\ \/ OthersNext({"scan", "photo", "toggle", "link"}) \/ Elsewhere(ts)
     \/ /\ (Clock \/ Pages \/ \E w \in Organisers : Alone(w) /\ SaveNext(w, statuses))
        /\ UNCHANGED <<doorVars, deviceVars>>

(* One device, beside another, on a quiet day: its requests, their answers   *)
(* and its lists overtake each other.                                        *)
DeviceMove ==
  /\ part = "device" /\ (DeviceNext \/ OthersNext({"toggle"}))
  /\ UNCHANGED <<vars, part>>

VenueNext(statuses, some, ts) ==
  \/ SeatsMove \/ EventsMove(statuses) \/ DoorMove(some, ts) \/ DeviceMove

VenueSpec(statuses, some, ts) ==
  VenueInit(statuses) /\ [][VenueNext(statuses, some, ts)]_venueVars
=============================================================================
