------------------------------ MODULE MCPortal ------------------------------
(* Three members, of whom the third is registered only later when the        *)
(* accounts are in focus; photos belong to the first. The first two are in   *)
(* a clan when teams are in focus, for a game of two players at one event,   *)
(* or of one player at two events, one of them a Swiss tournament; the first  *)
(* event may end.                                                            *)
EXTENDS Portal, TLC

CONSTANTS u1, u2, u3, m1, m2, m3, e1, e2, duo, one

MCSize == duo :> 2 @@ one :> 1
MCCups == {<<e1, duo>>, <<e1, one>>, <<e2, one>>}
MCRule == [c \in MCCups |-> IF EventOf(c) = e1 THEN "BY_START" ELSE "STRICT"]
MCSwiss == {<<e1, one>>}
MCPlaces == [c \in MCCups |-> 2]
MCClan == u1 :> Row("admin", "accepted", 0) @@ u2 :> Row("member", "accepted", 1)

Init == PortalInit(u1 :> m1 @@ u2 :> m2 @@ u3 :> m3, MCClan, e1)
Next == PortalNext({u1}, {m1, m3}, {e1})
Spec == Init /\ [][Next]_portalVars
=============================================================================
