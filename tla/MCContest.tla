----------------------------- MODULE MCContest -----------------------------
(* Instances of Contest for TLC. *)
EXTENDS Contest, TLC

CONSTANTS k1, t1, t2, t3

(* Swiss: the teams in the order of their registration; two rounds with      *)
(* draws, three without.                                                     *)
MCShuffles == {[i \in 1..MaxTeams |-> i]}
MCRules == {<<2, TRUE>>, <<3, FALSE>>}

(* Four teams at most are drawn, of which two may be of one clan. *)
MCSeedPlans == {[t \in Candidates |-> IF t = 2 THEN 1 ELSE 0]}
MCCaptainClan == [t \in Candidates |-> IF t \in {1, 4} THEN k1 ELSE NoClan]
MCClanChoices == {[t \in Candidates |-> IF t \in {1, 2} THEN k1 ELSE NoClan]}
MCExplored == {<<3, 1, 4, 2>>, <<4, 2, 1, 3>>}
MCStarters == <<1, 2, 3>>

(* Results of a match of all: the first or the second wins, a place is       *)
(* shared, one is disqualified, or has no place without that.                *)
Sheet(a, b, c, out) ==
  t1 :> [rank |-> a, dq |-> t1 \in out] @@ t2 :> [rank |-> b, dq |-> t2 \in out] @@ t3 :> [rank |-> c, dq |-> t3 \in out]
MCSheets == {Sheet(1, 2, 2, {}), Sheet(2, 1, 0, {t3}), Sheet(0, 1, 2, {t1}), Sheet(2, 1, 0, {})}
=============================================================================
