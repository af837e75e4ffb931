------------------------------ MODULE MCVenue ------------------------------
(* Three users, two of them in one clan, and one seat; two events with two   *)
(* organisers.                                                               *)
EXTENDS Venue, TLC

CONSTANTS Members   \* the users with an accepted membership, all of one clan

MCClanOf ==
  [u \in Users |-> IF u \in Members THEN CHOOSE k \in Clans : TRUE ELSE NoClan]

MCSymmetry == Permutations(Cells) \cup Permutations(Members) \cup Permutations(Organisers)

MCSpec ==
  /\ VenueInit(Statuses)
  /\ [][VenueNext(Statuses, {"CANCELLED"}, Tickets)]_venueVars
=============================================================================
