---------------------------- MODULE MCEventDesk ----------------------------
(* One event, one organiser, and the pages that ask which event is active.   *)
EXTENDS EventDesk

CONSTANTS e1

Init == DeskInit(e1, {"DRAFT", "REGISTRATION_OPEN"}, {})
Next == (\E w \in Organisers : SaveNext(w, {})) \/ Pages
Spec == Init /\ [][Next]_deskVars
=============================================================================
