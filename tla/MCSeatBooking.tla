--------------------------- MODULE MCSeatBooking ---------------------------
(* Instances of SeatBooking for TLC. *)
EXTENDS SeatBooking

CONSTANTS Members   \* the users with an accepted membership, all of one clan

MCClanOf ==
  [u \in Users |-> IF u \in Members THEN CHOOSE k \in Clans : TRUE ELSE NoClan]
=============================================================================
