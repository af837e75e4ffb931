------------------------------ MODULE Entrance ------------------------------
(* The door of one event: the requests of the check-in desk on the server    *)
(* (src/events/views.py, models.py) and one device in the hands of a helper  *)
(* (src/static/js/checkin-scanner.js), which scans tickets, presses the      *)
(* buttons of its list and takes the photos of the extended check-in.        *)
(*                                                                           *)
(* A request looks at ticket and active event first and takes the row locks  *)
(* later. Its answer may come late or never: the device gives up after 15    *)
(* seconds while the server works on. Other desks, links and organisers act  *)
(* at the same time, and the device sees them only when it loads its list.   *)
EXTENDS EventDesk

CONSTANTS
  Tickets, NoTicket,
  Here,        \* the event of the tickets
  MaxChanges   \* bound: check-ins and check-outs of one ticket

ASSUME HereAssumption == Here \in Events

VARIABLES
  present,  \* is_checked_in
  changes,  \* how often that changed: the age of what a device shows
  paid, barred,
  photo,    \* the guests with a stored photo
  extended, \* extended_checkin_enabled
  request,  \* the requests on the server: of the device, given up by it, of others
  paused,   \* the three seconds after an answer
  pending,  \* pendingPhotoRegistrationId
  choosing, \* the dialog of the photo is open
  shown,    \* the rows of the list: who is inside, and as of which change
  loads,    \* the list requests under way
  listed,   \* the last load arrived
  heard     \* the changes this device was told of

doorVars == <<present, changes, paid, barred, photo, extended, request>>
deviceVars == <<paused, pending, choosing, shown, loads, listed, heard>>
entranceVars == <<deskVars, doorVars, deviceVars>>

Slots == {"device", "lost", "other"}
NoRequest == [kind |-> "none"]
List(in, ages) == [in |-> in, ages |-> ages]

EntranceInit ==
  /\ present = {} /\ changes = [t \in Tickets |-> 0]
  /\ paid = Tickets /\ barred = {} /\ photo = {} /\ extended \in BOOLEAN
  /\ request = [s \in Slots |-> NoRequest]
  /\ paused = FALSE /\ pending = NoTicket /\ choosing = FALSE
  /\ shown = List({}, changes) /\ loads = {} /\ listed = TRUE
  /\ heard = changes

-----------------------------------------------------------------------------
(* can_check_in, for the event the desk works for. *)

Finished ==
  events[Here].status = "FINISHED" \/ (events[Here].status # "DRAFT" /\ phase[Here] = "past")

(* Everything but the photo. *)
Welcome(t, for) ==
  /\ t \in paid \ barred /\ events[Here].status # "CANCELLED"
  /\ for \in {Here, NoEvent} /\ ~Finished

Pictured(t) == t \in present \/ ~extended \/ t \in photo

CanComeIn(t, for) == Welcome(t, for) /\ Pictured(t)

(* Mutant: what was looked at before is not looked at again under the locks. *)
AdmissibleStill(t, for) == for \in {Here, NoEvent}

(* check_in asks again, under the locks of user, event and registration.     *)
Admissible(t, for) == CanComeIn(t, for)

Entered(t) ==
  /\ present' = present \cup {t}
  /\ changes' = IF t \in present THEN changes ELSE [changes EXCEPT ![t] = @ + 1]

Left(t) ==
  /\ present' = present \ {t}
  /\ changes' = IF t \in present THEN [changes EXCEPT ![t] = @ + 1] ELSE changes

Unmoved == UNCHANGED <<present, changes>>

Bounded(t) == changes[t] < MaxChanges

-----------------------------------------------------------------------------
(* The requests: scan_qr_api, toggle_check_in_api, checkin_photo_api and     *)
(* process_checkin (a link, which does not need an active event).            *)

New(kind, t) == [kind |-> kind, of |-> t, step |-> "sent"]

(* What the answer says: done (or done before), photo_required, or no. It is *)
(* of no interest unless this device waits for it.                           *)
Answer(s, says, in) ==
  LET of == request[s].of
  IN  request' = [request EXCEPT ![s] =
        IF s # "device" THEN NoRequest
        ELSE [kind |-> "any", of |-> of, step |-> "answered", says |-> says, in |-> in,
              age |-> IF says = "done" THEN changes'[of] ELSE 0]]

Refuse(s) ==
  LET r == request[s]
      asked == r.kind = "scan" /\ Told # NoEvent /\ Welcome(r.of, Told)
  IN  Answer(s, IF asked THEN "photo" ELSE "no", FALSE)

(* Whether the first look lets the request go on.                            *)
Passes(r) ==
  CASE r.kind = "scan"   -> Told # NoEvent /\ CanComeIn(r.of, Told)
    [] r.kind = "photo"  -> extended /\ Told # NoEvent /\ Welcome(r.of, Told)
    [] r.kind = "toggle" -> Told = Here
    [] r.kind = "link"   -> CanComeIn(r.of, Told)

(* own: the event was really the active one when the request looked.         *)
Look(s) ==
  LET r == request[s]
  IN  /\ r.kind # "none" /\ r.step = "sent" /\ AskCache /\ Unmoved
      /\ IF Passes(r)
         THEN request' = [request EXCEPT ![s] =
                [kind |-> r.kind, of |-> r.of, step |-> "looked", for |-> Told,
                 own |-> Active(Here), in |-> r.of \in present]]
         ELSE Refuse(s)
      /\ UNCHANGED <<events, phase, save, paid, barred, photo, extended, deviceVars>>

(* check_out under the lock of the registration; when somebody else was      *)
(* faster, the object of the view keeps its old is_checked_in.               *)
LetOut(s, r) ==
  /\ Left(r.of) /\ UNCHANGED photo /\ Answer(s, "done", r.of \notin present)

LetIn(s, r) ==
  IF Admissible(r.of, r.for)
  THEN Entered(r.of) /\ UNCHANGED photo /\ Answer(s, "done", TRUE)
  ELSE Unmoved /\ UNCHANGED photo /\ Answer(s, "no", FALSE)

(* Photo and check-in are one transaction.                                   *)
StorePhoto(s, r) ==
  IF Welcome(r.of, r.for)
  THEN Entered(r.of) /\ photo' = photo \cup {r.of} /\ Answer(s, "done", TRUE)
  ELSE Unmoved /\ UNCHANGED photo /\ Answer(s, "no", FALSE)

Act(s) ==
  LET r == request[s]
  IN  /\ r.kind # "none" /\ r.step = "looked" /\ Bounded(r.of)
      /\ IF r.kind = "photo" THEN StorePhoto(s, r)
         ELSE IF r.kind = "toggle" /\ r.in THEN LetOut(s, r)
         ELSE LetIn(s, r)
      /\ UNCHANGED <<deskVars, paid, barred, extended, deviceVars>>

OtherDesk(t, kind) ==
  /\ request["other"] = NoRequest /\ request' = [request EXCEPT !["other"] = New(kind, t)]
  /\ UNCHANGED <<deskVars, present, changes, paid, barred, photo, extended, deviceVars>>

(* action_check_in_guests and action_check_out_guests of the administration. *)
AdminCheckIn(t) ==
  /\ Bounded(t) /\ t \notin present /\ CanComeIn(t, Told) /\ AskCache /\ Entered(t)
  /\ UNCHANGED <<events, phase, save, paid, barred, photo, extended, request, deviceVars>>

AdminCheckOut(t) ==
  /\ Bounded(t) /\ t \in present /\ Left(t)
  /\ UNCHANGED <<deskVars, paid, barred, photo, extended, request, deviceVars>>

(* The payment is booked, or taken back, which checks the guest out.         *)
Pay(t) ==
  /\ t \notin paid /\ paid' = paid \cup {t}
  /\ UNCHANGED <<deskVars, present, changes, barred, photo, extended, request, deviceVars>>

Unpay(t) ==
  /\ Bounded(t) /\ t \in paid /\ paid' = paid \ {t} /\ Left(t)
  /\ UNCHANGED <<deskVars, barred, photo, extended, request, deviceVars>>

(* A ban checks out unless the event is over or called off.                  *)
Bar(t) ==
  /\ Bounded(t) /\ t \notin barred /\ barred' = barred \cup {t}
  /\ IF Finished \/ events[Here].status = "CANCELLED" THEN Unmoved ELSE Left(t)
  /\ UNCHANGED <<deskVars, paid, photo, extended, request, deviceVars>>

Unbar(t) ==
  /\ t \in barred /\ barred' = barred \ {t}
  /\ UNCHANGED <<deskVars, present, changes, paid, photo, extended, request, deviceVars>>

(* The guest uploads or deletes the photo in the profile.                    *)
OwnPhoto(t) ==
  /\ photo' \in {photo \cup {t}, photo \ {t}} \ {photo}
  /\ UNCHANGED <<deskVars, present, changes, paid, barred, extended, request, deviceVars>>

-----------------------------------------------------------------------------
(* The device. *)

Busy == request["device"] # NoRequest

(* renderScanFeedback('checking'): the photo of the guest before is dropped. *)
Sent(kind, t) ==
  /\ request' = [request EXCEPT !["device"] = New(kind, t)] /\ pending' = NoTicket

(* startScannerRequest, for a code from camera, keyboard or the search.      *)
Scan(t) ==
  /\ ~Busy /\ ~paused /\ Sent("scan", t)
  /\ UNCHANGED <<deskVars, present, changes, paid, barred, photo, extended,
                 paused, choosing, shown, loads, listed, heard>>

(* A button of the list, whichever label it has.                             *)
Press(t) ==
  /\ ~Busy /\ ~paused /\ Sent("toggle", t)
  /\ UNCHANGED <<deskVars, present, changes, paid, barred, photo, extended,
                 paused, choosing, shown, loads, listed, heard>>

TakePhoto ==
  /\ pending # NoTicket /\ ~choosing /\ choosing' = TRUE
  /\ UNCHANGED <<deskVars, doorVars, paused, pending, shown, loads, listed, heard>>

(* The file has arrived: it goes to the guest who is pending now, also       *)
(* during the pause. Shrinking may take so long that a scan comes first.     *)
ChoosePhoto ==
  /\ choosing /\ choosing' = FALSE
  /\ IF pending # NoTicket /\ ~Busy THEN Sent("photo", pending)
     ELSE UNCHANGED <<request, pending>>
  /\ UNCHANGED <<deskVars, present, changes, paid, barred, photo, extended,
                 paused, shown, loads, listed, heard>>

(* The dialog is cancelled, or the button below the photo.                   *)
CancelPhoto ==
  /\ \/ choosing /\ choosing' = FALSE /\ UNCHANGED pending
     \/ pending # NoTicket /\ pending' = NoTicket /\ UNCHANGED choosing
  /\ UNCHANGED <<deskVars, doorVars, paused, shown, loads, listed, heard>>

PauseEnds ==
  /\ paused /\ paused' = FALSE
  /\ UNCHANGED <<deskVars, doorVars, pending, choosing, shown, loads, listed, heard>>

(* loadGuestPage: a load under way is aborted; list is what the server saw.  *)
NoList == List({}, [t \in Tickets |-> -1])
NewLoad == [served |-> FALSE, list |-> NoList, current |-> TRUE]
Aborted == {[l EXCEPT !.current = FALSE] : l \in {x \in loads : x.current}}

Loading == loads' = Aborted \cup {NewLoad} /\ listed' = FALSE

(* Mutant: the answers of aborted loads are used as well. *)
UsableAny(l) == l.served

Usable(l) == l.served /\ l.current

(* performScannerRequest with an answer.                                     *)
Reply ==
  LET r == request["device"]
  IN  /\ Busy /\ r.step = "answered"
      /\ request' = [request EXCEPT !["device"] = NoRequest] /\ paused' = TRUE
      /\ pending' = IF r.says = "photo" THEN r.of ELSE NoTicket
      /\ IF r.says = "done"
         THEN /\ shown' = [shown EXCEPT !.in = IF r.in THEN @ \cup {r.of} ELSE @ \ {r.of}]
              /\ heard' = [heard EXCEPT ![r.of] = r.age]
              /\ Loading
         ELSE UNCHANGED <<shown, heard, loads, listed>>
      /\ UNCHANGED <<deskVars, present, changes, paid, barred, photo, extended, choosing>>

(* ... and without: the request may still be carried out.                    *)
Unconfirmed ==
  /\ Busy /\ request["lost"] = NoRequest
  /\ LET r == request["device"]
     IN  request' = [request EXCEPT !["device"] = NoRequest,
                       !["lost"] = IF r.step = "answered" THEN NoRequest ELSE r]
  /\ paused' = TRUE /\ pending' = NoTicket /\ Loading
  /\ UNCHANGED <<deskVars, present, changes, paid, barred, photo, extended, choosing, shown, heard>>

(* The helper searches, filters, or looks at more of the list.               *)
Search ==
  /\ ~\E l \in loads : l.current
  /\ Loading
  /\ UNCHANGED <<deskVars, doorVars, paused, pending, choosing, shown, heard>>

ServeList(l) ==
  /\ l \in loads /\ ~l.served
  /\ loads' = (loads \ {l}) \cup
       {[l EXCEPT !.served = TRUE,
                  !.list = IF Told = Here THEN List(present, changes) ELSE NoList]}
  /\ AskCache
  /\ UNCHANGED <<events, phase, save, doorVars, paused, pending, choosing, shown, listed, heard>>

ShowList(l) ==
  /\ l \in loads /\ loads' = loads \ {l}
  /\ IF Usable(l) THEN shown' = l.list /\ listed' = TRUE ELSE UNCHANGED <<shown, listed>>
  /\ UNCHANGED <<deskVars, doorVars, paused, pending, choosing, heard>>

-----------------------------------------------------------------------------
ServerNext(s) == Look(s) \/ Act(s)

(* Other desks of the entrance, and links that helpers open.                 *)
OthersNext(kinds) ==
  (\E t \in Tickets, kind \in kinds : OtherDesk(t, kind)) \/ ServerNext("other")

(* ts: the guests whose payment, account and photo may change.               *)
Elsewhere(ts) ==
  \E t \in ts : \/ AdminCheckIn(t) \/ AdminCheckOut(t) \/ Pay(t) \/ Unpay(t)
               \/ Bar(t) \/ Unbar(t) \/ OwnPhoto(t)

DeviceNext ==
  \/ \E t \in Tickets : Scan(t) \/ Press(t)
  \/ TakePhoto \/ ChoosePhoto \/ CancelPhoto \/ PauseEnds \/ Reply \/ Unconfirmed \/ Search
  \/ \E l \in loads : ServeList(l) \/ ShowList(l)
  \/ ServerNext("device") \/ ServerNext("lost")

(* Everybody at once: desks, device, administration and the event's own pages. *)
EntranceNext(statuses) ==
  \/ DeviceNext \/ OthersNext({"scan", "photo", "toggle", "link"}) \/ Elsewhere(Tickets)
  \/ DeskNext(statuses) /\ UNCHANGED <<doorVars, deviceVars>>

EntranceSpec(first, statuses, begun) ==
  /\ DeskInit(first, statuses, begun) /\ EntranceInit
  /\ [][EntranceNext(statuses)]_entranceVars

-----------------------------------------------------------------------------
(* Whoever comes in has paid, is not barred, has a photo when one is asked   *)
(* for, and comes to an event that is neither over nor called off at that    *)
(* moment and was the active one when the desk looked; nobody goes out but   *)
(* by a button pressed on somebody who was inside when the server looked, by *)
(* the administration, with the payment or by a ban; and the desk keeps no   *)
(* photo of a guest it did not let in (models.py, views.py).                 *)
ActsNow(s) == request[s] # request'[s] /\ request[s].kind # "none" /\ request[s].step = "looked"

AdmittedRightly ==
  [][/\ \A t \in present' \ present :
          /\ t \in paid \ barred /\ events[Here].status # "CANCELLED" /\ ~Finished
          /\ extended => t \in photo'
     /\ \A s \in Slots : ActsNow(s) =>
          /\ present' \ present # {} /\ request[s].kind # "link" => request[s].own
          /\ present \ present' # {} => request[s].kind = "toggle" /\ request[s].in
          /\ photo' \subseteq photo \cup present']_entranceVars

(* Once its last load has arrived, the list of a device is not older than    *)
(* anything the device was told of, whatever answers and loads overtook each *)
(* other, and also when a view answered with a state that was not so         *)
(* (checkin-scanner.js).                                                     *)
ListCatchesUp ==
  listed /\ ~Busy /\ shown # NoList /\ (\A l \in loads : ~l.current) =>
    \A t \in Tickets : shown.ages[t] >= heard[t]
=============================================================================
