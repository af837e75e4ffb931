----------------------------- MODULE VenueProofs -----------------------------
(* Proofs about EventDesk for every number of events and organisers; about   *)
(* Entrance, with everybody acting at once; and about Venue: what holds of   *)
(* the seats, of the events and of the door holds of all three together.     *)
EXTENDS Venue, SeatBookingProofs

(* The desk of the organisers. *)

Saves ==
  [what : {"open", "finish", "form", "check"}, of : Events, status : Statuses,
   active : BOOLEAN, written : BOOLEAN, off : SUBSET Events, crossed : BOOLEAN]

DeskTypeOK ==
  /\ events \in [Events -> [status : Statuses, active : BOOLEAN]]
  /\ DOMAIN save = Organisers
  /\ \A w \in Organisers : Idle(w) \/ save[w] \in Saves

(* A save that was written and activates its event has turned off all the    *)
(* others, and there is one such save at a time.                             *)
Activates(w) == ~Idle(w) /\ save[w].written /\ save[w].active

ActivationsApart ==
  /\ \A v, w \in Organisers : Activates(v) /\ Activates(w) => v = w
  /\ \A w \in Organisers : Activates(w) => Others(save[w].of) \subseteq save[w].off

(* What a save looked at still holds until another one crosses it.           *)
LookHolds ==
  \A w \in Organisers : ~Idle(w) /\ ~save[w].crossed =>
    /\ save[w].off = {}
    /\ save[w].active => Others(save[w].of) = {}
    /\ save[w].what # "check" /\ events[save[w].of].status = "FINISHED" =>
         save[w].status = "FINISHED"

DeskInv == DeskTypeOK /\ OneActive /\ ActivationsApart /\ LookHolds

LEMMA NoSaveIsNone == \A s \in Saves : s # NoSave
<1>1. \A s \in Saves : s.what # "none"
  BY DEF Saves
<1>2. NoSave.what = "none"
  BY DEF NoSave
<1>. QED
  BY <1>1, <1>2

(* Nothing of the invariant is about the clock or the cache.                 *)
LEMMA RestKeepsDesk ==
  ASSUME DeskInv, UNCHANGED <<events, save>>
  PROVE  DeskInv' /\ \A w \in Organisers : Undisturbed(w)
<1>1. DeskInv'
  BY DEF DeskInv, DeskTypeOK, OneActive, ActivationsApart, LookHolds, Idle, Active,
         Others, Activates
<1>2. \A w \in Organisers : Undisturbed(w)
  BY DEF Undisturbed, Idle
<1>. QED
  BY <1>1, <1>2

LEMMA InitDesk ==
  ASSUME NEW first, NEW statuses, statuses \subseteq Statuses, NEW begun,
         DeskInit(first, statuses, begun)
  PROVE  DeskInv
<1>1. DeskTypeOK
  BY DEF DeskInit, DeskTypeOK, Idle
<1>2. OneActive
  BY DEF DeskInit, OneActive, Active
<1>3. \A w \in Organisers : Idle(w)
  BY DEF DeskInit, Idle
<1>4. ActivationsApart /\ LookHolds
  BY <1>3 DEF ActivationsApart, LookHolds, Activates
<1>. QED
  BY <1>1, <1>2, <1>4 DEF DeskInv

(* A save begins with a look.                                                *)
LEMMA StartedKeepsDesk ==
  ASSUME DeskInv, NEW w \in Organisers, NEW e \in Events,
         NEW what \in {"open", "finish", "form", "check"},
         NEW status \in Statuses, NEW active \in BOOLEAN,
         Started(w, what, e, status, active),
         active => Others(e) = {},
         what # "check" /\ events[e].status = "FINISHED" => status = "FINISHED"
  PROVE  DeskInv' /\ \A v \in Organisers : Undisturbed(v)
<1>. DEFINE s == [what |-> what, of |-> e, status |-> status, active |-> active,
                  written |-> FALSE, off |-> {}, crossed |-> FALSE]
<1>1. save' = [save EXCEPT ![w] = s] /\ UNCHANGED <<events, phase, cached, filling>>
  BY DEF Started
<1>2. s \in Saves
  BY DEF Saves
<1>3. save'[w] = s /\ \A v \in Organisers \ {w} : save'[v] = save[v]
  BY <1>1 DEF DeskInv, DeskTypeOK
<1>4. DeskTypeOK'
  BY <1>1, <1>2, <1>3 DEF DeskInv, DeskTypeOK, Idle
<1>5. \A v \in Organisers : Activates(v)' => Activates(v) /\ v # w
  BY <1>3 DEF Activates, Idle
<1>6. ActivationsApart'
  BY <1>1, <1>3, <1>5 DEF DeskInv, ActivationsApart, Others, Active
<1>7. LookHolds'
  BY <1>1, <1>3 DEF DeskInv, LookHolds, Others, Active, Idle
<1>8. OneActive'
  BY <1>1 DEF DeskInv, OneActive, Active
<1>9. \A v \in Organisers : Undisturbed(v)
  BY <1>1 DEF Undisturbed
<1>. QED
  BY <1>4, <1>6, <1>7, <1>8, <1>9 DEF DeskInv

LEMMA WriteKeepsDesk ==
  ASSUME DeskInv, NEW w \in Organisers, Write(w)
  PROVE  DeskInv' /\ \A v \in Organisers : Undisturbed(v)
<1>. DEFINE off == IF save[w].active THEN Others(save[w].of) ELSE {}
            s == [save[w] EXCEPT !.written = TRUE, !.off = off]
<1>1. /\ ~Idle(w) /\ ~save[w].written
      /\ \A e \in off \cup {save[w].of} : ~Locked(w, e)
      /\ save[w].active => \A v \in Organisers \ {w} :
           ~Idle(v) /\ save[v].written => ~save[v].active \/ save[v].of = save[w].of
      /\ save' = [save EXCEPT ![w].written = TRUE, ![w].off = off]
      /\ UNCHANGED events
  BY DEF Write
<1>2. save[w] \in Saves
  BY <1>1 DEF DeskInv, DeskTypeOK
<1>3. save'[w] = s /\ \A v \in Organisers \ {w} : save'[v] = save[v]
  BY <1>1, <1>2 DEF DeskInv, DeskTypeOK, Saves
<1>4. /\ s \in Saves /\ s.off = off /\ s.written
      /\ s.what = save[w].what /\ s.of = save[w].of /\ s.status = save[w].status
      /\ s.active = save[w].active /\ s.crossed = save[w].crossed
  BY <1>2 DEF Saves, Others
<1>. HIDE DEF s
<1>5. DeskTypeOK'
  BY <1>1, <1>3, <1>4 DEF DeskInv, DeskTypeOK, Idle
<1>6. save[w].active => \A v \in Organisers \ {w} : ~Activates(v)
  <2>. SUFFICES ASSUME save[w].active, NEW v \in Organisers \ {w}, Activates(v)
                PROVE  FALSE
    OBVIOUS
  <2>1. save[v].of = save[w].of
    BY <1>1 DEF Activates
  <2>2. save[w].of \in Rows(v)
    BY <2>1 DEF Activates, Rows
  <2>. QED
    BY <1>1, <2>2 DEF Locked
<1>7. \A v \in Organisers \ {w} : Activates(v)' <=> Activates(v)
  BY <1>3 DEF Activates, Idle
<1>8. Activates(w)' => save[w].active
  BY <1>3, <1>4 DEF Activates
<1>9. ActivationsApart'
  <2>1. \A u, v \in Organisers : (Activates(u) /\ Activates(v))' => u = v
    BY <1>6, <1>7, <1>8 DEF DeskInv, ActivationsApart
  <2>2. \A v \in Organisers : Activates(v)' => Others(save[v].of)' \subseteq save'[v].off
    <3>. SUFFICES ASSUME NEW v \in Organisers, Activates(v)'
                  PROVE  Others(save[v].of)' \subseteq save'[v].off
      OBVIOUS
    <3>1. CASE v = w
      BY <3>1, <1>1, <1>3, <1>4, <1>8 DEF Others, Active
    <3>2. CASE v # w
      BY <3>2, <1>1, <1>3, <1>7 DEF DeskInv, ActivationsApart, Others, Active
    <3>. QED
      BY <3>1, <3>2
  <2>. QED
    BY <2>1, <2>2 DEF ActivationsApart
<1>10. LookHolds'
  <2>. SUFFICES ASSUME NEW v \in Organisers, ~Idle(v)', ~save'[v].crossed
                PROVE  /\ save'[v].off = {}
                       /\ save'[v].active => Others(save[v].of)' = {}
                       /\ save'[v].what # "check" /\ events'[save'[v].of].status = "FINISHED" =>
                            save'[v].status = "FINISHED"
    BY DEF LookHolds
  <2>1. CASE v = w
    <3>1. ~save[w].crossed /\ save'[v] = s
      BY <2>1, <1>3, <1>4
    <3>2. /\ save[w].active => Others(save[w].of) = {}
          /\ save[w].what # "check" /\ events[save[w].of].status = "FINISHED" =>
               save[w].status = "FINISHED"
      BY <1>1, <3>1 DEF DeskInv, LookHolds
    <3>3. off = {}
      BY <3>2
    <3>. QED
      BY <3>1, <3>2, <3>3, <1>1, <1>4 DEF Others, Active
  <2>2. CASE v # w
    BY <2>2, <1>1, <1>3 DEF DeskInv, LookHolds, Others, Active, Idle
  <2>. QED
    BY <2>1, <2>2
<1>11. OneActive'
  BY <1>1 DEF DeskInv, OneActive, Active
<1>12. \A v \in Organisers : Undisturbed(v)
  BY <1>1 DEF Undisturbed
<1>. QED
  BY <1>5, <1>9, <1>10, <1>11, <1>12 DEF DeskInv

(* A commit leaves one event active at most, and when nobody crossed it,     *)
(* nothing but its own event changes.                                        *)
LEMMA CommitKeepsDesk ==
  ASSUME DeskInv, NEW w \in Organisers, Commit(w)
  PROVE  DeskInv' /\ \A v \in Organisers : Undisturbed(v)
<1>. DEFINE s == save[w]
<1>1. /\ ~Idle(w) /\ s.written /\ s \in Saves /\ events' = Outcome(s)
      /\ save' = [v \in Organisers |->
                    IF v = w THEN NoSave
                    ELSE IF Idle(v) \/ events' = events THEN save[v]
                    ELSE [save[v] EXCEPT !.crossed = TRUE]]
  BY DEF Commit, DeskInv, DeskTypeOK
<1>2. /\ \A v \in Organisers : Idle(v) \/ save[v] \in Saves
      /\ events \in [Events -> [status : Statuses, active : BOOLEAN]]
      /\ s.of \in Events /\ s.off \subseteq Events
  BY <1>1 DEF DeskInv, DeskTypeOK, Saves
<1>. HIDE DEF s
<1>3. \A e \in Events :
        /\ events'[e] \in [status : Statuses, active : BOOLEAN]
        /\ e # s.of => events'[e].status = events[e].status
        /\ s.what = "check" => events'[e].status = events[e].status
        /\ e = s.of /\ s.what # "check" => events'[e].status \in {events[e].status, s.status}
        /\ e \notin s.off \cup {s.of} => events'[e] = events[e]
        /\ Active(e)' => /\ e \notin s.off
                         /\ Active(e) \/ (e = s.of /\ s.active)
  BY <1>1, <1>2 DEF Outcome, Active, Saves
<1>4. \A v \in Organisers \ {w} :
        /\ Idle(v)' <=> Idle(v)
        /\ Idle(v) => save'[v] = save[v]
        /\ ~Idle(v) =>
             /\ save'[v] \in Saves
             /\ save'[v].what = save[v].what /\ save'[v].of = save[v].of
             /\ save'[v].status = save[v].status /\ save'[v].active = save[v].active
             /\ save'[v].written = save[v].written /\ save'[v].off = save[v].off
             /\ ~save'[v].crossed => events' = events /\ ~save[v].crossed
  <2>. SUFFICES ASSUME NEW v \in Organisers \ {w}
                PROVE  /\ Idle(v)' <=> Idle(v)
                       /\ Idle(v) => save'[v] = save[v]
                       /\ ~Idle(v) =>
                            /\ save'[v] \in Saves
                            /\ save'[v].what = save[v].what /\ save'[v].of = save[v].of
                            /\ save'[v].status = save[v].status /\ save'[v].active = save[v].active
                            /\ save'[v].written = save[v].written /\ save'[v].off = save[v].off
                            /\ ~save'[v].crossed => events' = events /\ ~save[v].crossed
    OBVIOUS
  <2>1. CASE Idle(v) \/ events' = events
    BY <2>1, <1>1, <1>2 DEF Idle
  <2>2. CASE ~Idle(v) /\ events' # events
    <3>1. save'[v] = [save[v] EXCEPT !.crossed = TRUE] /\ save[v] \in Saves
      BY <2>2, <1>1, <1>2
    <3>. QED
      BY <2>2, <3>1, NoSaveIsNone DEF Saves, Idle
  <2>. QED
    BY <2>1, <2>2
<1>5. save'[w] = NoSave
  BY <1>1
<1>6. DeskTypeOK'
  <2>1. events' \in [Events -> [status : Statuses, active : BOOLEAN]]
    BY <1>1, <1>3 DEF Outcome
  <2>2. DOMAIN save' = Organisers
    BY <1>1
  <2>3. \A v \in Organisers : Idle(v)' \/ save'[v] \in Saves
    BY <1>4, <1>5 DEF Idle
  <2>. QED
    BY <2>1, <2>2, <2>3 DEF DeskTypeOK
<1>7. \A v \in Organisers : Activates(v)' => v # w /\ Activates(v)
  BY <1>4, <1>5 DEF Activates, Idle
<1>8. s.active => \A e \in Events : Active(e)' => e = s.of
  BY <1>1, <1>2, <1>3 DEF DeskInv, ActivationsApart, Activates, Others, s
<1>9. OneActive'
  BY <1>3, <1>8 DEF DeskInv, OneActive
<1>10. ActivationsApart'
  <2>1. \A u, v \in Organisers : (Activates(u) /\ Activates(v))' => u = v
    BY <1>7 DEF DeskInv, ActivationsApart
  <2>2. \A v \in Organisers : Activates(v)' => Others(save[v].of)' \subseteq save'[v].off
    <3>. SUFFICES ASSUME NEW v \in Organisers, Activates(v)', NEW e \in Events,
                         e # save'[v].of, Active(e)'
                  PROVE  e \in save'[v].off
      BY DEF Others
    <3>1. v # w /\ Activates(v) /\ save'[v].of = save[v].of /\ save'[v].off = save[v].off
      BY <1>4, <1>7 DEF Activates
    <3>2. ~s.active
      BY <1>1, <3>1 DEF DeskInv, ActivationsApart, Activates, s
    <3>3. Active(e)
      BY <1>3, <3>2
    <3>. QED
      BY <3>1, <3>3 DEF DeskInv, ActivationsApart, Others
  <2>. QED
    BY <2>1, <2>2 DEF ActivationsApart
<1>11. LookHolds'
  <2>. SUFFICES ASSUME NEW v \in Organisers, ~Idle(v)', ~save'[v].crossed
                PROVE  /\ save'[v].off = {}
                       /\ save'[v].active => Others(save[v].of)' = {}
                       /\ save'[v].what # "check" /\ events'[save'[v].of].status = "FINISHED" =>
                            save'[v].status = "FINISHED"
    BY DEF LookHolds
  <2>1. v # w /\ ~Idle(v) /\ events' = events /\ ~save[v].crossed
    BY <1>4, <1>5 DEF Idle
  <2>2. Others(save[v].of)' = Others(save[v].of)
    BY <1>4, <2>1 DEF Others, Active
  <2>. QED
    BY <1>4, <2>1, <2>2 DEF DeskInv, LookHolds
<1>12. \A v \in Organisers : Undisturbed(v)
  <2>. SUFFICES ASSUME NEW v \in Organisers, ~Idle(v), save'[v] = NoSave, ~save[v].crossed,
                       NEW e \in Events
                PROVE  /\ e # save[v].of => events'[e] = events[e]
                       /\ events[e].status = "FINISHED" => events'[e].status = "FINISHED"
    BY DEF Undisturbed
  <2>1. v = w
    BY <1>4, NoSaveIsNone
  <2>2. /\ s.off = {}
        /\ s.what # "check" /\ events[s.of].status = "FINISHED" => s.status = "FINISHED"
    BY <2>1 DEF DeskInv, LookHolds, s
  <2>. QED
    BY <1>3, <2>1, <2>2 DEF s
<1>. QED
  BY <1>6, <1>9, <1>10, <1>11, <1>12 DEF DeskInv

(* Each step of the desk, over any statuses the form offers.                 *)
LEMMA NextKeepsDesk ==
  ASSUME DeskInv, NEW statuses, statuses \subseteq Statuses, [DeskNext(statuses)]_deskVars
  PROVE  DeskInv' /\ \A v \in Organisers : Undisturbed(v)
<1>1. CASE Clock
  BY <1>1, RestKeepsDesk DEF Clock, TimePasses
<1>2. CASE Pages \/ Asked
  BY <1>2, RestKeepsDesk DEF Pages, ReadThrough, FillCache, CacheExpires, Asked
<1>3. ASSUME NEW w \in Organisers, SaveNext(w, statuses)
      PROVE  DeskInv' /\ \A v \in Organisers : Undisturbed(v)
  <2>1. ASSUME NEW e \in Events, OpenRegistration(w, e)
        PROVE  DeskInv' /\ \A v \in Organisers : Undisturbed(v)
    <3>1. Others(e) = {} /\ events[e].status # "FINISHED"
      BY <2>1 DEF OpenRegistration, Ready
    <3>. QED
      BY <2>1, <3>1, StartedKeepsDesk DEF OpenRegistration, Statuses
  <2>2. ASSUME NEW e \in Events, FinishEvent(w, e)
        PROVE  DeskInv' /\ \A v \in Organisers : Undisturbed(v)
    BY <2>2, StartedKeepsDesk DEF FinishEvent, Statuses
  <2>3. ASSUME NEW e \in Events, SetPaymentCheckNow(e)
        PROVE  DeskInv' /\ \A v \in Organisers : Undisturbed(v)
    BY <2>3, RestKeepsDesk DEF SetPaymentCheckNow
  <2>4. ASSUME NEW e \in Events, UpdatePaymentCheck(w, e)
        PROVE  DeskInv' /\ \A v \in Organisers : Undisturbed(v)
    <3>1. events[e].status \in Statuses /\ Active(e) \in BOOLEAN
      BY DEF DeskInv, DeskTypeOK, Active
    <3>2. Active(e) => Others(e) = {}
      BY DEF DeskInv, OneActive, Others
    <3>. QED
      BY <2>4, <3>1, <3>2, StartedKeepsDesk DEF UpdatePaymentCheck
  <2>5. ASSUME NEW e \in Events, NEW status \in statuses, NEW active \in BOOLEAN,
               SaveForm(w, e, status, active)
        PROVE  DeskInv' /\ \A v \in Organisers : Undisturbed(v)
    <3>1. /\ Started(w, "form", e, status, active) /\ status \in Statuses
          /\ active => Others(e) = {}
          /\ events[e].status = "FINISHED" => status = "FINISHED"
      BY <2>5 DEF SaveForm, FormValid
    <3>. QED
      BY <3>1, StartedKeepsDesk
  <2>6. CASE Write(w)
    BY <2>6, WriteKeepsDesk
  <2>7. CASE Commit(w)
    BY <2>7, CommitKeepsDesk
  <2>. QED
    BY <1>3, <2>1, <2>2, <2>3, <2>4, <2>5, <2>6, <2>7 DEF SaveNext, ListAction
<1>4. CASE UNCHANGED deskVars
  BY <1>4, RestKeepsDesk DEF deskVars
<1>. QED
  BY <1>1, <1>2, <1>3, <1>4 DEF DeskNext

(* One event is active at most, however the saves of open_registration,      *)
(* finish_event, the form and the payment check overlap, and a save that     *)
(* nobody crossed changes its own event only and revives none (Event.save).  *)
THEOREM EventsStayInOrder ==
  ASSUME NEW first, NEW statuses, statuses \subseteq Statuses, NEW begun
  PROVE  DeskSpec(first, statuses, begun) => EventsInOrder
<1>1. DeskInit(first, statuses, begun) => DeskInv
  BY InitDesk
<1>2. DeskInv /\ [DeskNext(statuses)]_deskVars => DeskInv'
  BY NextKeepsDesk
<1>3. DeskInv /\ [DeskNext(statuses)]_deskVars => [\A w \in Organisers : Undisturbed(w)]_deskVars
  BY NextKeepsDesk
<1>4. DeskInv => OneActive
  BY DEF DeskInv
<1>. QED
  BY <1>1, <1>2, <1>3, <1>4, PTL DEF DeskSpec, EventsInOrder

-----------------------------------------------------------------------------
(* The door. *)

Kinds == {"scan", "photo", "toggle", "link"}

(* Requests that were let through, by an active event unless they came by a  *)
(* link, and answers that tell of no change that has not been made.          *)
RequestInv ==
  /\ request = [s \in Slots |-> request[s]]
  /\ \A s \in Slots : request[s].kind = "none" => request[s] = NoRequest
  /\ \A s \in Slots : request[s].kind # "none" =>
       /\ request[s].of \in Tickets
       /\ request[s].step \in {"sent", "looked"} => request[s].kind \in Kinds
       /\ request[s].step = "looked" /\ request[s].kind \in {"scan", "photo", "toggle"}
            => request[s].own
       /\ request[s].step = "answered" /\ request[s].says = "done"
            => request[s].age \in Nat /\ request[s].age <= changes[request[s].of]

Lists == [in : SUBSET Tickets, ages : [Tickets -> Int]]
Loads == [served : BOOLEAN, list : Lists, current : BOOLEAN]

DeviceInv ==
  /\ present \subseteq Tickets /\ loads \subseteq Loads
  /\ pending \in Tickets \cup {NoTicket}
  /\ changes \in [Tickets -> Nat] /\ heard \in [Tickets -> Nat]
  /\ \A t \in Tickets : heard[t] <= changes[t]

AsNewAsHeard(list) == list # NoList => \A t \in Tickets : list.ages[t] >= heard[t]

(* A load that is not aborted is younger than all the device was told of.    *)
ListInv ==
  /\ listed => AsNewAsHeard(shown)
  /\ \A l \in loads : Usable(l) => AsNewAsHeard(l.list)

DoorInv == RequestInv /\ DeviceInv /\ ListInv

USE HereAssumption, EventsAssumption DEF HereAssumption, EventsAssumption, Kinds

LEMMA InitDoor == EntranceInit => DoorInv
<1>. SUFFICES ASSUME EntranceInit PROVE DoorInv
  OBVIOUS
<1>1. RequestInv
  BY DEF EntranceInit, RequestInv, NoRequest, Slots
<1>2. DeviceInv /\ ListInv
  BY DEF EntranceInit, DeviceInv, ListInv, AsNewAsHeard, List, Usable
<1>. QED
  BY <1>1, <1>2 DEF DoorInv

(* Whoever the cache names is the active event.                              *)
LEMMA ToldIsActive == Told = Here => Active(Here)
BY DEF Told, Hit, ActiveEvent

LEMMA PassesOwn ==
  ASSUME NEW r, Passes(r), r.kind \in {"scan", "photo", "toggle"}
  PROVE  Active(Here)
<1>1. Told = Here
  BY DEF Passes, CanComeIn, Welcome
<1>. QED
  BY <1>1, ToldIsActive

LEMMA LookKeeps ==
  ASSUME DoorInv, NEW s \in Slots, Look(s)
  PROVE  DoorInv'
<1>. /\ UNCHANGED <<present, changes, deviceVars>>
     /\ request[s].kind # "none" /\ request[s].step = "sent"
     /\ \/ /\ Passes(request[s])
           /\ request' = [request EXCEPT ![s] =
                [kind |-> request[s].kind, of |-> request[s].of, step |-> "looked", for |-> Told,
                 own |-> Active(Here), in |-> request[s].of \in present]]
        \/ Refuse(s)
  BY DEF Look, Unmoved
<1>1. RequestInv'
  <2>1. CASE Refuse(s)
    <3>. PICK says \in {"photo", "no"} : Answer(s, says, FALSE)
      BY <2>1 DEF Refuse
    <3>. QED
      BY DEF DoorInv, RequestInv, Answer, NoRequest, Slots
  <2>2. CASE Passes(request[s]) /\ ~Refuse(s)
    <3>1. request[s].kind \in {"scan", "photo", "toggle"} => Active(Here)
      BY <2>2, PassesOwn
    <3>. QED
      BY <2>2, <3>1 DEF DoorInv, RequestInv
  <2>. QED
    BY <2>1, <2>2
<1>2. DeviceInv' /\ ListInv'
  BY DEF DoorInv, DeviceInv, ListInv, AsNewAsHeard, Usable, deviceVars
<1>. QED
  BY <1>1, <1>2 DEF DoorInv

(* A change makes nobody's answer or list younger than it is.                *)
LEMMA ChangesGrow ==
  ASSUME DeviceInv, NEW t \in Tickets, Entered(t) \/ Left(t) \/ Unmoved
  PROVE  /\ present' \subseteq Tickets /\ changes' \in [Tickets -> Nat]
         /\ \A x \in Tickets : changes[x] <= changes'[x]
BY DEF DeviceInv, Entered, Left, Unmoved

LEMMA MoveKeeps ==
  ASSUME DoorInv, NEW t \in Tickets, Entered(t) \/ Left(t) \/ Unmoved, UNCHANGED deviceVars,
         \/ UNCHANGED request
         \/ \E s \in Slots, says \in {"done", "no"}, in \in BOOLEAN :
              request[s].kind # "none" /\ Answer(s, says, in)
         \/ \E kind \in Kinds : request' = [request EXCEPT !["other"] = New(kind, t)]
  PROVE  DoorInv'
<1>1. /\ present' \subseteq Tickets /\ changes' \in [Tickets -> Nat]
      /\ \A x \in Tickets : changes[x] <= changes'[x]
  BY ChangesGrow DEF DoorInv
<1>2. \A x \in Tickets, n \in Nat : n <= changes[x] => n <= changes'[x]
  BY <1>1 DEF DoorInv, DeviceInv
<1>3. RequestInv'
  <2>1. CASE UNCHANGED request
    BY <1>2, <2>1 DEF DoorInv, RequestInv
  <2>2. ASSUME NEW s \in Slots, NEW says \in {"done", "no"}, NEW in \in BOOLEAN,
               request[s].kind # "none", Answer(s, says, in)
        PROVE  RequestInv'
    BY <1>1, <1>2, <2>2 DEF DoorInv, RequestInv, Answer, NoRequest
  <2>3. ASSUME NEW kind \in Kinds, request' = [request EXCEPT !["other"] = New(kind, t)]
        PROVE  RequestInv'
    BY <1>2, <2>3 DEF DoorInv, RequestInv, New, Slots
  <2>. QED
    BY <2>1, <2>2, <2>3
<1>4. DeviceInv'
  BY <1>1, <1>2 DEF DoorInv, DeviceInv, deviceVars
<1>5. ListInv'
  BY DEF DoorInv, ListInv, AsNewAsHeard, Usable, deviceVars
<1>. QED
  BY <1>3, <1>4, <1>5 DEF DoorInv

LEMMA ServerKeeps ==
  ASSUME DoorInv, NEW s \in Slots, ServerNext(s)
  PROVE  DoorInv'
<1>1. CASE Look(s)
  BY <1>1, LookKeeps
<1>2. CASE Act(s)
  <2>. DEFINE t == request[s].of
  <2>1. t \in Tickets /\ request[s].kind # "none" /\ UNCHANGED deviceVars
    BY <1>2 DEF Act, DoorInv, RequestInv
  <2>2. /\ Entered(t) \/ Left(t) \/ Unmoved
        /\ \E says \in {"done", "no"}, in \in BOOLEAN : Answer(s, says, in)
    BY <1>2 DEF Act, StorePhoto, LetOut, LetIn
  <2>. HIDE DEF t
  <2>. QED
    BY <2>1, <2>2, MoveKeeps
<1>. QED
  BY <1>1, <1>2 DEF ServerNext

LEMMA ElsewhereKeeps ==
  ASSUME DoorInv,
         \/ OthersNext({"scan", "photo", "toggle", "link"}) \/ Elsewhere(Tickets)
         \/ UNCHANGED <<doorVars, deviceVars>>
  PROVE  DoorInv'
<1>1. CASE ServerNext("other")
  BY <1>1, ServerKeeps DEF Slots
<1>2. ASSUME NEW t \in Tickets, NEW kind \in Kinds, OtherDesk(t, kind)
      PROVE  DoorInv'
  BY <1>2, MoveKeeps DEF OtherDesk, Unmoved
<1>3. ASSUME NEW t \in Tickets,
             \/ AdminCheckIn(t) \/ AdminCheckOut(t) \/ Pay(t) \/ Unpay(t) \/ Bar(t) \/ Unbar(t) \/ OwnPhoto(t)
      PROVE  DoorInv'
  <2>1. (Entered(t) \/ Left(t) \/ Unmoved) /\ UNCHANGED <<request, deviceVars>>
    BY <1>3 DEF AdminCheckIn, AdminCheckOut, Pay, Unpay, Bar, Unbar, OwnPhoto, Unmoved
  <2>. QED
    BY <2>1, MoveKeeps
<1>4. CASE UNCHANGED <<doorVars, deviceVars>>
  BY <1>4 DEF doorVars, deviceVars, DoorInv, RequestInv, DeviceInv, ListInv, AsNewAsHeard, Usable
<1>. QED
  BY <1>1, <1>2, <1>3, <1>4 DEF OthersNext, Elsewhere

LEMMA DeviceKeeps ==
  ASSUME DoorInv,
         \/ \E t \in Tickets : Scan(t) \/ Press(t)
         \/ TakePhoto \/ ChoosePhoto \/ CancelPhoto \/ PauseEnds
  PROVE  DoorInv'
<1>. UNCHANGED <<present, changes, shown, loads, listed, heard>>
  BY DEF Scan, Press, TakePhoto, ChoosePhoto, CancelPhoto, PauseEnds, doorVars
<1>1. RequestInv' /\ pending' \in Tickets \cup {NoTicket}
  <2>1. ASSUME NEW t \in Tickets, NEW kind \in Kinds, Sent(kind, t)
        PROVE  RequestInv' /\ pending' \in Tickets \cup {NoTicket}
    BY <2>1 DEF Sent, New, DoorInv, RequestInv, Slots
  <2>2. CASE UNCHANGED request /\ pending' \in {pending, NoTicket}
    BY <2>2 DEF DoorInv, RequestInv, DeviceInv
  <2>. QED
    BY <2>1, <2>2 DEF Scan, Press, TakePhoto, ChoosePhoto, CancelPhoto, PauseEnds, doorVars,
                      DoorInv, DeviceInv
<1>2. DeviceInv' /\ ListInv'
  BY <1>1 DEF DoorInv, DeviceInv, ListInv, AsNewAsHeard, Usable
<1>. QED
  BY <1>1, <1>2 DEF DoorInv

(* An answer is heard: every load under way is aborted, the new one comes    *)
(* after it.                                                                 *)
LEMMA LoadingKeeps ==
  ASSUME DoorInv, Loading
  PROVE  loads' \subseteq Loads /\ ~listed' /\ \A l \in loads' : ~Usable(l)
<1>1. ASSUME NEW l \in loads
      PROVE  [l EXCEPT !.current = FALSE] \in Loads /\ ~[l EXCEPT !.current = FALSE].current
  <2>1. l \in Loads
    BY DEF DoorInv, DeviceInv
  <2>. QED
    BY <2>1 DEF Loads
<1>2. NewLoad \in Loads /\ ~NewLoad.served
  BY DEF NewLoad, NoList, List, Loads, Lists
<1>3. ASSUME NEW l \in loads'
      PROVE  l \in Loads /\ (~l.current \/ ~l.served)
  BY <1>1, <1>2 DEF Loading, Aborted
<1>. QED
  BY <1>3 DEF Loading, Usable

LEMMA ReplyKeeps ==
  ASSUME DoorInv, Reply \/ Unconfirmed
  PROVE  DoorInv'
<1>. UNCHANGED <<present, changes>>
  BY DEF Reply, Unconfirmed
<1>1. RequestInv'
  BY DEF Reply, Unconfirmed, Busy, NoRequest, DoorInv, RequestInv, Slots
<1>2. pending' \in Tickets \cup {NoTicket}
  BY DEF Reply, Unconfirmed, Busy, NoRequest, DoorInv, RequestInv, Slots
<1>3. /\ heard' \in [Tickets -> Nat] /\ \A t \in Tickets : heard'[t] <= changes[t]
      /\ ListInv' /\ loads' \subseteq Loads
  <2>1. CASE Reply /\ request["device"].says = "done"
    <3>1. heard' = [heard EXCEPT ![request["device"].of] = request["device"].age] /\ Loading
      BY <2>1 DEF Reply
    <3>2. request["device"].of \in Tickets /\ request["device"].age \in Nat
          /\ request["device"].age <= changes[request["device"].of]
      BY <2>1 DEF Reply, Busy, NoRequest, DoorInv, RequestInv, Slots
    <3>. QED
      BY <3>1, <3>2, LoadingKeeps DEF DoorInv, DeviceInv, ListInv, Usable
  <2>2. CASE Reply /\ request["device"].says # "done"
    BY <2>2 DEF Reply, DoorInv, DeviceInv, ListInv, AsNewAsHeard, Usable
  <2>3. CASE Unconfirmed
    BY <2>3, LoadingKeeps DEF Unconfirmed, DoorInv, DeviceInv, ListInv, Usable
  <2>. QED
    BY <2>1, <2>2, <2>3
<1>4. DeviceInv'
  BY <1>2, <1>3 DEF DoorInv, DeviceInv
<1>. QED
  BY <1>1, <1>3, <1>4 DEF DoorInv

LEMMA ListKeeps ==
  ASSUME DoorInv, Search \/ \E l \in loads : ServeList(l) \/ ShowList(l)
  PROVE  DoorInv'
<1>. UNCHANGED <<request, present, changes, pending, heard>>
  BY DEF Search, ServeList, ShowList, doorVars
<1>1. RequestInv'
  BY DEF DoorInv, RequestInv
<1>2. CASE Search
  BY <1>1, <1>2, LoadingKeeps DEF Search, DoorInv, DeviceInv, ListInv, Usable
<1>3. ASSUME NEW l \in loads, ServeList(l)
      PROVE  DoorInv'
  <2>. DEFINE seen == IF Told = Here THEN List(present, changes) ELSE NoList
              new == [l EXCEPT !.served = TRUE, !.list = seen]
  <2>1. UNCHANGED <<shown, listed>> /\ loads' = (loads \ {l}) \cup {new}
    BY <1>3 DEF ServeList
  <2>2. AsNewAsHeard(seen)
    BY DEF AsNewAsHeard, List, DoorInv, DeviceInv
  <2>3. new \in Loads /\ new.list = seen
    <3>1. l \in Loads
      BY DEF DoorInv, DeviceInv
    <3>2. seen \in Lists
      BY DEF DoorInv, DeviceInv, Lists, List, NoList
    <3>. QED
      BY <3>1, <3>2 DEF Loads
  <2>. HIDE DEF new, seen
  <2>4. ListInv'
    BY <2>1, <2>2, <2>3 DEF DoorInv, ListInv, AsNewAsHeard, Usable
  <2>5. DeviceInv'
    BY <1>3, <2>1, <2>3 DEF ServeList, doorVars, DoorInv, DeviceInv
  <2>. QED
    BY <1>1, <2>4, <2>5 DEF DoorInv
<1>4. ASSUME NEW l \in loads, ShowList(l)
      PROVE  DoorInv'
  BY <1>1, <1>4 DEF ShowList, DoorInv, DeviceInv, ListInv, AsNewAsHeard, Usable
<1>. QED
  BY <1>2, <1>3, <1>4

LEMMA NextDoor ==
  ASSUME NEW statuses
  PROVE  DoorInv /\ [EntranceNext(statuses)]_entranceVars => DoorInv'
<1>. SUFFICES ASSUME DoorInv, [EntranceNext(statuses)]_entranceVars PROVE DoorInv'
  OBVIOUS
<1>1. CASE \/ OthersNext({"scan", "photo", "toggle", "link"}) \/ Elsewhere(Tickets)
           \/ UNCHANGED <<doorVars, deviceVars>>
  BY <1>1, ElsewhereKeeps
<1>2. CASE \/ \E t \in Tickets : Scan(t) \/ Press(t)
           \/ TakePhoto \/ ChoosePhoto \/ CancelPhoto \/ PauseEnds
  BY <1>2, DeviceKeeps
<1>3. CASE Reply \/ Unconfirmed
  BY <1>3, ReplyKeeps
<1>4. CASE Search \/ \E l \in loads : ServeList(l) \/ ShowList(l)
  BY <1>4, ListKeeps
<1>5. CASE ServerNext("device") \/ ServerNext("lost")
  BY <1>5, ServerKeeps DEF Slots
<1>. QED
  BY <1>1, <1>2, <1>3, <1>4, <1>5 DEF EntranceNext, DeviceNext, entranceVars

-----------------------------------------------------------------------------
(* Who comes in.                                                             *)

Rightly ==
  /\ \A t \in present' \ present :
       /\ t \in paid \ barred /\ events[Here].status # "CANCELLED" /\ ~Finished
       /\ extended => t \in photo'
  /\ \A s \in Slots : ActsNow(s) =>
       /\ present' \ present # {} /\ request[s].kind # "link" => request[s].own
       /\ present \ present' # {} => request[s].kind = "toggle" /\ request[s].in
       /\ photo' \subseteq photo \cup present'

LEMMA NobodyMoves ==
  ASSUME UNCHANGED <<present, photo>>
  PROVE  Rightly
BY DEF Rightly

LEMMA ActRightly ==
  ASSUME DoorInv, NEW s \in Slots, Act(s)
  PROVE  Rightly
<1>. DEFINE r == request[s]
<1>1. \A x \in Slots : ActsNow(x) => x = s
  BY DEF Act, StorePhoto, LetIn, LetOut, Answer, ActsNow, DoorInv, RequestInv
<1>2. r.kind \in Kinds /\ (r.kind # "link" => r.own)
  BY DEF Act, DoorInv, RequestInv
<1>3. CASE r.kind = "photo"
  BY <1>1, <1>2, <1>3 DEF Act, StorePhoto, Welcome, Entered, Unmoved, Rightly
<1>4. CASE r.kind = "toggle" /\ r.in
  BY <1>1, <1>2, <1>4 DEF Act, LetOut, Left, Rightly
<1>5. CASE r.kind # "photo" /\ ~(r.kind = "toggle" /\ r.in)
  BY <1>1, <1>2, <1>5 DEF Act, LetIn, Admissible, CanComeIn, Welcome, Pictured, Entered, Unmoved, Rightly
<1>. QED
  BY <1>3, <1>4, <1>5

LEMMA NextRightly ==
  ASSUME NEW statuses
  PROVE  DoorInv /\ [EntranceNext(statuses)]_entranceVars => [Rightly]_entranceVars
<1>. SUFFICES ASSUME DoorInv, EntranceNext(statuses) PROVE Rightly
  BY DEF entranceVars
<1>1. ASSUME NEW s \in Slots, ServerNext(s)
      PROVE  Rightly
  BY <1>1, NobodyMoves, ActRightly DEF ServerNext, Look, Unmoved
<1>2. CASE Elsewhere(Tickets)
  <2>1. UNCHANGED request
    BY <1>2 DEF Elsewhere, AdminCheckIn, AdminCheckOut, Pay, Unpay, Bar, Unbar, OwnPhoto
  <2>2. ASSUME NEW t \in present' \ present
        PROVE  /\ t \in paid \ barred /\ events[Here].status # "CANCELLED" /\ ~Finished
               /\ extended => t \in photo'
    BY <1>2 DEF Elsewhere, AdminCheckIn, AdminCheckOut, Pay, Unpay, Bar, Unbar, OwnPhoto,
                Entered, Left, Unmoved, CanComeIn, Welcome, Pictured
  <2>. QED
    BY <2>1, <2>2 DEF Rightly, ActsNow
<1>3. CASE \/ \E t \in Tickets : Scan(t) \/ Press(t)
           \/ TakePhoto \/ ChoosePhoto \/ CancelPhoto \/ PauseEnds \/ Reply \/ Unconfirmed \/ Search
           \/ \E l \in loads : ServeList(l) \/ ShowList(l)
           \/ \E t \in Tickets, kind \in Kinds : OtherDesk(t, kind)
           \/ DeskNext(statuses) /\ UNCHANGED <<doorVars, deviceVars>>
  BY <1>3, NobodyMoves DEF Scan, Press, TakePhoto, ChoosePhoto, CancelPhoto, PauseEnds, Reply,
     Unconfirmed, Search, ServeList, ShowList, OtherDesk, doorVars
<1>. QED
  BY <1>1, <1>2, <1>3 DEF EntranceNext, DeviceNext, OthersNext, Slots

LEMMA Door ==
  ASSUME NEW first, NEW statuses, NEW begun
  PROVE  EntranceSpec(first, statuses, begun) => []DoorInv
<1>1. DoorInv /\ [EntranceNext(statuses)]_entranceVars => DoorInv'
  BY NextDoor
<1>. QED
  BY <1>1, InitDoor, PTL DEF EntranceSpec

LEMMA CatchesUp == DoorInv => ListCatchesUp
BY DEF DoorInv, ListInv, AsNewAsHeard, ListCatchesUp

(* Whatever desks, links, the administration, payments, bans, photos and     *)
(* saves of the event do between the look of a request and its act, only     *)
(* guests who may come in do, to the event that the desk works for, and      *)
(* nobody goes out by mistake (check_in, check_out and their views).         *)
THEOREM GuestsAdmittedRightly ==
  ASSUME NEW first, NEW statuses, NEW begun
  PROVE  EntranceSpec(first, statuses, begun) => AdmittedRightly
<1>1. DoorInv /\ [EntranceNext(statuses)]_entranceVars => [Rightly]_entranceVars
  BY NextRightly
<1>. QED
  BY <1>1, Door, PTL DEF EntranceSpec, AdmittedRightly, Rightly

(* The list of a device is as new as every answer it heard, in whatever      *)
(* order answers and lists arrive (checkin-scanner.js).                      *)
THEOREM ListsCatchUp ==
  ASSUME NEW first, NEW statuses, NEW begun
  PROVE  EntranceSpec(first, statuses, begun) => []ListCatchesUp
BY Door, CatchesUp, PTL

-----------------------------------------------------------------------------
(* All together. *)

(* Every step of the venue is one of the seats and one of the entrance, or   *)
(* leaves them alone, and so is every step of the entrance for the events.   *)
LEMMA VenueSteps ==
  ASSUME NEW statuses, NEW some, some \subseteq statuses, NEW ts, ts \subseteq Tickets,
         [VenueNext(statuses, some, ts)]_venueVars
  PROVE  [RivalNext]_vars /\ [EntranceNext(statuses)]_entranceVars
<1>. USE DEF entranceVars
<1>1. CASE SeatsMove
  BY <1>1 DEF SeatsMove, RivalNext
<1>2. CASE EventsMove(statuses)
  BY <1>2 DEF EventsMove, EntranceNext, DeskNext
<1>3. CASE DoorMove(some, ts)
  <2>1. \A w \in Organisers : SaveNext(w, some) => SaveNext(w, statuses)
    BY DEF SaveNext
  <2>2. Elsewhere(ts) => Elsewhere(Tickets)
    BY DEF Elsewhere
  <2>. QED
    BY <1>3, <2>1, <2>2 DEF DoorMove, EntranceNext, DeskNext
<1>4. CASE DeviceMove
  BY <1>4 DEF DeviceMove, EntranceNext, OthersNext
<1>5. CASE UNCHANGED venueVars
  BY <1>5 DEF venueVars
<1>. QED
  BY <1>1, <1>2, <1>3, <1>4, <1>5 DEF VenueNext

LEMMA DeskSteps ==
  ASSUME NEW statuses, [EntranceNext(statuses)]_entranceVars
  PROVE  [DeskNext(statuses)]_deskVars
<1>1. CASE \/ \E t \in Tickets, kind \in Kinds : OtherDesk(t, kind)
           \/ \E s \in Slots : Act(s)
           \/ \E t \in Tickets : AdminCheckOut(t) \/ Pay(t) \/ Unpay(t) \/ Bar(t) \/ Unbar(t) \/ OwnPhoto(t)
           \/ \E t \in Tickets : Scan(t) \/ Press(t)
           \/ TakePhoto \/ ChoosePhoto \/ CancelPhoto \/ PauseEnds \/ Reply \/ Unconfirmed \/ Search
           \/ \E l \in loads : ShowList(l)
           \/ UNCHANGED entranceVars
  BY <1>1 DEF OtherDesk, Act, AdminCheckOut, Pay, Unpay, Bar, Unbar, OwnPhoto, Scan, Press,
     TakePhoto, ChoosePhoto, CancelPhoto, PauseEnds, Reply, Unconfirmed, Search, ShowList,
     entranceVars
<1>2. CASE \/ \E s \in Slots : Look(s) \/ \E t \in Tickets : AdminCheckIn(t)
           \/ \E l \in loads : ServeList(l)
  BY <1>2 DEF Look, AdminCheckIn, ServeList, DeskNext, Asked
<1>. QED
  BY <1>1, <1>2 DEF EntranceNext, DeviceNext, OthersNext, Elsewhere, ServerNext, Slots

(* What seats, events and door promise one by one, the venue promises as a   *)
(* whole.                                                                    *)
THEOREM VenueIsSafe ==
  ASSUME NEW statuses, statuses \subseteq Statuses, NEW some, some \subseteq statuses,
         NEW ts, ts \subseteq Tickets
  PROVE  VenueSpec(statuses, some, ts) =>
           /\ []CapacityKept /\ []TicketsAndSeats /\ []InsideAndSeated
           /\ ClanProtection /\ WorkerSparesPaid
           /\ EventsInOrder /\ AdmittedRightly /\ []ListCatchesUp
<1>. DEFINE V == [VenueNext(statuses, some, ts)]_venueVars
<1>1. V => [RivalNext]_vars /\ [EntranceNext(statuses)]_entranceVars
  BY VenueSteps
<1>2. V => [DeskNext(statuses)]_deskVars
  BY <1>1, DeskSteps
<1>3. VenueInit(statuses) => Init /\ EntranceInit /\ DeskInv
  <2>1. {"REGISTRATION_OPEN", "DRAFT"} \subseteq Statuses
    BY DEF Statuses
  <2>. QED
    BY <2>1, InitDesk DEF VenueInit
<1>4. VenueSpec(statuses, some, ts) => RivalSpec
  BY <1>1, <1>3, PTL DEF VenueSpec, RivalSpec
<1>5. VenueSpec(statuses, some, ts) => [](DoorInv /\ DeskInv)
  <2>1. DoorInv /\ V => DoorInv'
    BY <1>1, NextDoor
  <2>2. DeskInv /\ V => DeskInv'
    BY <1>2, NextKeepsDesk
  <2>. QED
    BY <1>3, <2>1, <2>2, InitDoor, PTL DEF VenueSpec
<1>6. DoorInv /\ V => [Rightly]_entranceVars
  BY <1>1, NextRightly
<1>7. DeskInv /\ V => [\A w \in Organisers : Undisturbed(w)]_deskVars
  BY <1>2, NextKeepsDesk
<1>8. DeskInv => OneActive
  BY DEF DeskInv
<1>9. VenueSpec(statuses, some, ts) => EventsInOrder
  BY <1>5, <1>7, <1>8, PTL DEF VenueSpec, EventsInOrder
<1>10. VenueSpec(statuses, some, ts) => AdmittedRightly /\ []ListCatchesUp
  BY <1>5, <1>6, CatchesUp, PTL DEF VenueSpec, AdmittedRightly, Rightly
<1>. QED
  BY <1>4, <1>9, <1>10, CapacityNeverExceeded, TicketsAndSeatsAgree, OnlyPaidGuestsInside,
     ClanSeatsProtected, WorkerLooksAgain, PTL
=============================================================================
