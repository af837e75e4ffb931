----------------------------- MODULE EventDesk -----------------------------
(* The events themselves: which of them is the active one, who may open,     *)
(* finish or edit them, and what the site is told from the cache             *)
(* (src/events/models.py, services.py, admin.py, src/configuration/cache.py).*)
(*                                                                           *)
(* Opening and finishing lock the row of their event before they look at it; *)
(* the form of the administration and the payment check look at it unlocked  *)
(* and only lock what they write. The database lets one event be active: a   *)
(* second activation waits for the first and fails or, when it began to      *)
(* write later, deactivates the other event. A save that fails is a save     *)
(* that was never made, and left out.                                        *)
EXTENDS Integers, FiniteSets

CONSTANTS
  Events, NoEvent,
  Organisers,  \* bound: each has one save under way at most
  Passing      \* bound: the events whose clock moves

ASSUME EventsAssumption == NoEvent \notin Events /\ Passing \subseteq Events

VARIABLES
  events,  \* status and is_active of each event
  phase,   \* its dates: ahead, on, past
  cached,  \* active_main_event_id: unset, none (0) or an event
  filling, \* what a request found active and has not put into the cache yet
  save     \* the save of each organiser

deskVars == <<events, phase, cached, filling, save>>

Statuses == {"DRAFT", "REGISTRATION_OPEN", "RUNNING", "FINISHED", "CANCELLED"}

NoSave == [what |-> "none"]

(* first: the event that may be active already; begun: the events that are on. *)
DeskInit(first, statuses, begun) ==
  /\ events \in [Events -> [status : statuses, active : BOOLEAN]]
  /\ \A e \in Events :
       events[e].active => e = first /\ events[e].status = "REGISTRATION_OPEN"
  /\ phase = [e \in Events |-> IF e \in begun THEN "on" ELSE "ahead"]
  /\ cached = "unset" /\ filling = "unset"
  /\ save = [w \in Organisers |-> NoSave]

Idle(w) == save[w] = NoSave

-----------------------------------------------------------------------------
(* EventManager.get_active *)

Active(e) == events[e].active
ActiveEvent ==
  IF \E e \in Events : Active(e) THEN CHOOSE e \in Events : Active(e) ELSE NoEvent

(* The cache answers: with nothing, or with an event that is still active.   *)
Hit == cached = "none" \/ (cached \in Events /\ Active(cached))

Told == IF ~Hit THEN ActiveEvent ELSE IF cached = "none" THEN NoEvent ELSE cached

(* A miss reads the database; the answer goes into the cache afterwards.     *)
Entry(e) == IF e = NoEvent THEN "none" ELSE e

AskCache == cached' = (IF Hit THEN cached ELSE Entry(ActiveEvent)) /\ UNCHANGED filling

(* Any page: what it found is cached later, when all may be different.       *)
ReadThrough ==
  /\ ~Hit /\ filling = "unset" /\ filling' = Entry(ActiveEvent)
  /\ cached' = "unset" /\ UNCHANGED <<events, phase, save>>

FillCache ==
  /\ filling # "unset" /\ cached' = filling /\ filling' = "unset"
  /\ UNCHANGED <<events, phase, save>>

(* The entry lives for 300 seconds.                                          *)
CacheExpires ==
  /\ cached # "unset" /\ cached' = "unset" /\ UNCHANGED <<events, phase, filling, save>>

-----------------------------------------------------------------------------
(* The saves: look, write, commit. *)

(* The rows a save has locked. *)
Rows(w) ==
  IF Idle(w) THEN {}
  ELSE save[w].off \cup
       (IF save[w].what \in {"open", "finish"} \/ save[w].written THEN {save[w].of} ELSE {})

Locked(w, e) == \E v \in Organisers \ {w} : e \in Rows(v)

Others(e) == {x \in Events \ {e} : Active(x)}

(* crossed: another save was committed since this one looked.                *)
Started(w, what, e, status, active) ==
  /\ Idle(w)
  /\ save' = [save EXCEPT ![w] = [what |-> what, of |-> e, status |-> status,
                                  active |-> active, written |-> FALSE, off |-> {},
                                  crossed |-> FALSE]]
  /\ UNCHANGED <<events, phase, cached, filling>>

(* Mutant: the readiness report forgets the other event. *)
ReadyAlone(e) == events[e].status = "DRAFT" /\ phase[e] = "ahead"

(* registration_readiness: what only depends on the event's own details and  *)
(* on the settings is taken to be in order.                                  *)
Ready(e) == events[e].status = "DRAFT" /\ phase[e] = "ahead" /\ Others(e) = {}

OpenRegistration(w, e) ==
  /\ ~Locked(w, e) /\ Ready(e)
  /\ Started(w, "open", e, "REGISTRATION_OPEN", TRUE)

(* finish_event, its tournaments being over. *)
FinishEvent(w, e) ==
  /\ ~Locked(w, e) /\ events[e].status \notin {"DRAFT", "CANCELLED"}
  /\ events[e].status # "FINISHED" \/ Active(e)
  /\ Started(w, "finish", e, "FINISHED", FALSE)

(* clean_status and clean of EventAdminForm, clean of Event, and the check   *)
(* of the constraint only_one_active_event.                                  *)
FormValid(e, status, active) ==
  /\ status = "REGISTRATION_OPEN" => events[e].status = "REGISTRATION_OPEN"
  /\ (status = "FINISHED") <=> (events[e].status = "FINISHED")
  /\ active => status \notin {"FINISHED", "DRAFT"} /\ Others(e) = {}

SaveForm(w, e, status, active) ==
  /\ FormValid(e, status, active) /\ [status |-> status, active |-> active] # events[e]
  /\ Started(w, "form", e, status, active)

(* action_set_payment_check_now: one update, which waits for the row.        *)
SetPaymentCheckNow(e) ==
  /\ \A v \in Organisers : e \notin Rows(v)
  /\ cached' = "unset" /\ UNCHANGED <<events, phase, filling, save>>

(* The actions of the event list. *)
ListAction(w, e) == OpenRegistration(w, e) \/ FinishEvent(w, e) \/ SetPaymentCheckNow(e)

(* update_payment_check_api saves one field of an object it has read.        *)
UpdatePaymentCheck(w, e) ==
  Started(w, "check", e, events[e].status, Active(e))

(* Event.save: the others are deactivated, the row is written, and the cache *)
(* is emptied, all before the commit.                                        *)
Write(w) ==
  LET s == save[w]
      off == IF s.active THEN Others(s.of) ELSE {}
  IN  /\ ~Idle(w) /\ ~s.written
      /\ \A e \in off \cup {s.of} : ~Locked(w, e)
      /\ s.active => \A v \in Organisers \ {w} :
           ~Idle(v) /\ save[v].written => ~save[v].active \/ save[v].of = s.of
      /\ save' = [save EXCEPT ![w].written = TRUE, ![w].off = off]
      /\ cached' = "unset" /\ UNCHANGED <<events, phase, filling>>

Outcome(s) ==
  [e \in Events |->
     IF e \in s.off THEN [events[e] EXCEPT !.active = FALSE]
     ELSE IF e = s.of /\ s.what # "check" THEN [status |-> s.status, active |-> s.active]
     ELSE events[e]]

Commit(w) ==
  /\ ~Idle(w) /\ save[w].written
  /\ events' = Outcome(save[w])
  /\ save' = [v \in Organisers |->
                IF v = w THEN NoSave
                ELSE IF Idle(v) \/ events' = events THEN save[v]
                ELSE [save[v] EXCEPT !.crossed = TRUE]]
  /\ cached' = IF save[w].what = "check" THEN "unset" ELSE cached
  /\ UNCHANGED <<phase, filling>>

TimePasses(e) ==
  /\ \/ phase[e] = "ahead" /\ phase' = [phase EXCEPT ![e] = "on"]
     \/ phase[e] = "on" /\ phase' = [phase EXCEPT ![e] = "past"]
  /\ UNCHANGED <<events, cached, filling, save>>

SaveNext(w, statuses) ==
  \/ \E e \in Events :
       \/ ListAction(w, e) \/ UpdatePaymentCheck(w, e)
       \/ \E status \in statuses, active \in BOOLEAN : SaveForm(w, e, status, active)
  \/ Write(w) \/ Commit(w)

Clock == \E e \in Passing : TimePasses(e)

(* Views of other parts that ask for the active event on their way.          *)
Asked == AskCache /\ UNCHANGED <<events, phase, save>>

Pages == ReadThrough \/ FillCache \/ CacheExpires

DeskNext(statuses) ==
  Clock \/ Pages \/ Asked \/ \E w \in Organisers : SaveNext(w, statuses)

DeskSpec(first, statuses, begun) ==
  DeskInit(first, statuses, begun) /\ [][DeskNext(statuses)]_deskVars

-----------------------------------------------------------------------------
OneActive == \A d, e \in Events : Active(d) /\ Active(e) => d = e

(* Only saves that crossed can have an effect nobody asked for: a save that  *)
(* was alone between its look and its commit deactivates no event but its    *)
(* own and never takes a finished event back (open_registration,             *)
(* finish_event, EventAdminForm and update_payment_check_api, which all end  *)
(* in Event.save); and however they cross, one event is active at most.      *)
Undisturbed(w) ==
  ~Idle(w) /\ save'[w] = NoSave /\ ~save[w].crossed =>
    \A e \in Events :
      /\ e # save[w].of => events'[e] = events[e]
      /\ events[e].status = "FINISHED" => events'[e].status = "FINISHED"

EventsInOrder == [](OneActive) /\ [][\A w \in Organisers : Undisturbed(w)]_deskVars

(* The comment of get_active: the cache is emptied when an event changes. So *)
(* with no save and no page under way it does not hide the active event.     *)
CacheFollows ==
  (\A w \in Organisers : Idle(w)) /\ filling = "unset" /\ cached = "none" =>
    ActiveEvent = NoEvent
=============================================================================
