---------------------------- MODULE ContestProofs ----------------------------
(* Proofs about the match of all teams in Contest, for all sets of teams,    *)
(* organisers and results, and about its rounds in the Swiss system, for any *)
(* number of teams and rounds.                                               *)
EXTENDS Contest, TLAPS, FiniteSetTheorems, SequenceTheorems

Races ==
  [status : {"open", "running", "review", "finished", "cancelled"},
   match : {"none", "ready", "playing", "done"}, winner : Racers \cup {NoWinner},
   places : UNION {[P -> Places] : P \in SUBSET Racers}]

RaceTypeOK ==
  /\ race \in Races
  /\ enrolled \subseteq Racers

(* PlacesComplete speaks of the review and after it; what leads there is that *)
(* a match is done only in a tournament that has left "running".             *)
DoneIsReviewed == race.match = "done" => race.status \in {"review", "finished", "cancelled"}

RaceInv == RaceTypeOK /\ PlacesComplete /\ DoneIsReviewed

LEMMA RaceParts ==
  ASSUME RaceTypeOK
  PROVE  /\ Participants \subseteq Racers
         /\ race.places \in [Participants -> Places]
         /\ race.winner \in Racers \cup {NoWinner}
<1>1. PICK P \in SUBSET Racers : race.places \in [P -> Places]
  BY DEF RaceTypeOK, Races
<1>2. Participants = P
  BY <1>1 DEF Participants
<1>. QED
  BY <1>1, <1>2 DEF RaceTypeOK, Races

LEMMA InitRace == ASSUME RaceInit PROVE RaceInv
<1>1. <<>> \in [{} -> Places]
  OBVIOUS
<1>2. <<>> \in UNION {[P -> Places] : P \in SUBSET Racers}
  BY <1>1
<1>. QED
  BY <1>2 DEF RaceInit, RaceInv, RaceTypeOK, Races, PlacesComplete, DoneIsReviewed

(* A result that is scored is complete: update_ffa_scores refuses partial   *)
(* ones, and counts who is first.                                            *)
LEMMA EnterKeeps ==
  ASSUME RaceInv, NEW s \in Stewards, NEW sheet \in Sheets, EnterPlaces(s, sheet)
  PROVE  RaceInv'
<1> DEFINE scored == [t \in Participants |-> [rank |-> sheet[t].rank, dq |-> sheet[t].dq \/ t \in quit]]
           first == {t \in Participants : scored[t].rank = 1 /\ ~scored[t].dq}
<1>1. /\ \A t \in Participants : scored[t].rank = 0 => scored[t].dq
      /\ Cardinality(first) = 1
      /\ race' = [status |-> "review", match |-> "done",
                  winner |-> CHOOSE t \in first : TRUE, places |-> scored]
      /\ late' = {} /\ enrolled' = enrolled /\ quit' = quit
  BY DEF EnterPlaces
<1>2. Participants \subseteq Racers
  BY RaceParts DEF RaceInv
<1>3. \A t \in Racers : sheet[t] \in Places
  BY SheetsAssumption
<1>4. scored \in [Participants -> Places]
  BY <1>2, <1>3 DEF Places
<1>5. scored \in UNION {[P -> Places] : P \in SUBSET Racers}
  BY <1>2, <1>4
<1>6. first \subseteq Participants
  OBVIOUS
<1>7. IsFiniteSet(first)
  BY <1>2, <1>6, RacersAssumption, FS_Subset
<1>8. PICK w : first = {w}
  BY <1>1, <1>7, FS_Singleton
<1>9. (CHOOSE t \in first : TRUE) = w
  BY <1>8
<1>10. w \in Participants /\ w \in Racers /\ scored[w].rank = 1 /\ ~scored[w].dq
  BY <1>8, <1>2
<1>11. /\ Participants' = Participants /\ race'.places = scored
       /\ race'.winner = w /\ race'.match = "done" /\ race'.status = "review"
  BY <1>1, <1>9, <1>4 DEF Participants
<1>12. RaceTypeOK'
  BY <1>1, <1>5, <1>9, <1>10 DEF RaceInv, RaceTypeOK, Races
<1>13. Placed' = {t \in Participants : scored[t].rank # 0 /\ ~scored[t].dq}
  BY <1>11 DEF Placed
<1>14. \A t \in Participants : t \in quit => scored[t].dq
  OBVIOUS
<1>15. \A t, u \in Placed' : race'.places[t].rank = 1 /\ race'.places[u].rank = 1 => t = u
  <2>1. \A t \in Placed' : race'.places[t].rank = 1 => t \in first
    BY <1>11, <1>13
  <2>. QED
    BY <2>1, <1>8
<1>16. /\ (Participants \ Placed)' \subseteq {t \in Participants' : race'.places[t].dq}
       /\ (Placed \cap quit)' \subseteq late'
       /\ w \in Placed'
  <2>. HIDE DEF scored
  <2>. QED
    BY <1>1, <1>11, <1>13, <1>14, <1>10
<1>17. race'.winner # NoWinner
  BY <1>10, <1>11, RacersAssumption
<1>18. race'.places[race'.winner].rank = 1
  BY <1>10, <1>11
<1>. QED
  <2>. HIDE DEF scored, first
  <2>. QED
    BY <1>11, <1>12, <1>15, <1>16, <1>17, <1>18 DEF RaceInv, PlacesComplete, DoneIsReviewed

(* A team that goes takes its place with it, and as the winner too: the      *)
(* others keep theirs.                                                       *)
LEMMA DeleteKeepsRace ==
  ASSUME RaceInv, NEW t \in Leavers, DeleteRacer(t)
  PROVE  RaceInv'
<1> DEFINE left == [u \in Participants \ {t} |-> race.places[u]]
<1>1. /\ Participants \subseteq Racers /\ race.places \in [Participants -> Places]
      /\ race.winner \in Racers \cup {NoWinner}
  BY RaceParts DEF RaceInv
<1>2. race \in Races
  BY DEF RaceInv, RaceTypeOK
<1>3. /\ race'.status = race.status /\ race'.match = race.match /\ race'.places = left
      /\ race'.winner = (IF race.winner = t THEN NoWinner ELSE race.winner)
      /\ enrolled' = enrolled \ {t} /\ late' = late \cup {t} /\ quit' = quit
  BY <1>2 DEF DeleteRacer, Races
<1>4. left \in [Participants \ {t} -> Places]
  BY <1>1
<1>5. left \in UNION {[P -> Places] : P \in SUBSET Racers}
  BY <1>1, <1>4
<1>6. race' \in Races
  BY <1>2, <1>5, <1>1 DEF DeleteRacer, Races
<1>7. Participants' = Participants \ {t}
  BY <1>3, <1>4 DEF Participants
<1>8. \A u \in Participants \ {t} : race'.places[u] = race.places[u]
  BY <1>3
<1>9. Placed' = Placed \ {t}
  BY <1>7, <1>8 DEF Placed
<1>10. ASSUME race'.status \in {"review", "finished"}
       PROVE  PlacesComplete'
  <2>1. /\ race.match = "done"
        /\ race.winner # NoWinner => race.winner \in Placed /\ race.places[race.winner].rank = 1
        /\ \A v, u \in Placed : race.places[v].rank = 1 /\ race.places[u].rank = 1 => v = u
        /\ Participants \ Placed \subseteq {u \in Participants : race.places[u].dq}
        /\ Placed \cap quit \subseteq late
        /\ race.winner = NoWinner => late # {}
    BY <1>10, <1>3 DEF RaceInv, PlacesComplete, DoneIsReviewed
  <2>2. Placed \subseteq Participants
    BY DEF Placed
  <2>3. race'.winner # NoWinner => race'.winner \in Placed' /\ race'.places[race'.winner].rank = 1
    BY <2>1, <2>2, <1>3, <1>8, <1>9
  <2>4. race'.winner = NoWinner => late' # {}
    BY <2>1, <1>3
  <2>5. \A v, u \in Placed' : race'.places[v].rank = 1 /\ race'.places[u].rank = 1 => v = u
    BY <2>1, <2>2, <1>8, <1>9
  <2>6. (Participants \ Placed)' \subseteq {u \in Participants' : race'.places[u].dq}
    BY <2>1, <1>7, <1>8, <1>9
  <2>7. (Placed \cap quit)' \subseteq late'
    BY <2>1, <1>9, <1>3
  <2>. QED
    BY <2>1, <2>3, <2>4, <2>5, <2>6, <2>7, <1>3 DEF PlacesComplete
<1>. QED
  BY <1>6, <1>3, <1>10 DEF RaceInv, RaceTypeOK, PlacesComplete, DoneIsReviewed

(* A withdrawal of a match that is played disqualifies; one that is done     *)
(* keeps its places, and the team is among those that went since.            *)
LEMMA QuitKeeps ==
  ASSUME RaceInv, NEW t \in Leavers, QuitRace(t)
  PROVE  RaceInv'
<1>1. CASE t \in DOMAIN race.places /\ race.match # "done"
  <2>1. race' = [race EXCEPT !.places[t].dq = TRUE] /\ enrolled' = enrolled
    BY <1>1 DEF QuitRace, AfterQuit
  <2>2. PICK P \in SUBSET Racers : race.places \in [P -> Places]
    BY DEF RaceInv, RaceTypeOK, Races
  <2>3. [race.places EXCEPT ![t].dq = TRUE] \in [P -> Places]
    BY <2>2, <1>1 DEF Places
  <2>4. race' \in Races
    BY <2>1, <2>2, <2>3 DEF RaceInv, RaceTypeOK, Races
  <2>5. race'.status = race.status
    BY <2>1 DEF RaceInv, RaceTypeOK, Races
  <2>. QED
    BY <1>1, <2>1, <2>4, <2>5 DEF RaceInv, RaceTypeOK, PlacesComplete, DoneIsReviewed
<1>2. CASE ~(t \in DOMAIN race.places /\ race.match # "done")
  BY <1>2 DEF QuitRace, AfterQuit, RaceInv, RaceTypeOK, PlacesComplete, DoneIsReviewed, Participants, Placed
<1>. QED
  BY <1>1, <1>2

LEMMA StartKeepsRace ==
  ASSUME RaceInv, StartRace
  PROVE  RaceInv'
<1> DEFINE drawn == [t \in Competitors |-> [rank |-> 0, dq |-> FALSE]]
<1>1. Competitors \subseteq Racers
  BY DEF Competitors, RaceInv, RaceTypeOK
<1>2. drawn \in [Competitors -> Places]
  BY DEF Places
<1>3. drawn \in UNION {[P -> Places] : P \in SUBSET Racers}
  BY <1>1, <1>2
<1>. QED
  BY <1>3 DEF StartRace, RaceInv, RaceTypeOK, Races, PlacesComplete, DoneIsReviewed

LEMMA OtherRaceSteps ==
  ASSUME RaceInv,
         \/ \E t \in Leavers : Enroll(t)
         \/ \E s \in Stewards : OpenPage(s) \/ StartPlay(s) \/ ConfirmPlaces(s)
         \/ ResetRace \/ CancelRace
         \/ UNCHANGED raceVars
  PROVE  RaceInv'
<1>1. ASSUME NEW t \in Leavers, Enroll(t) PROVE RaceInv'
  BY <1>1, RacersAssumption DEF Enroll, RaceInv, RaceTypeOK, PlacesComplete, DoneIsReviewed
<1>2. ASSUME NEW s \in Stewards, StartPlay(s) PROVE RaceInv'
  BY <1>2 DEF StartPlay, RaceInv, RaceTypeOK, Races, PlacesComplete, DoneIsReviewed
<1>3. ASSUME NEW s \in Stewards, ConfirmPlaces(s) PROVE RaceInv'
  <2>1. race' = [race EXCEPT !.status = "finished"] /\ race.status \in {"running", "review"}
        /\ race.match = "done" /\ UNCHANGED <<enrolled, quit, late>>
    BY <1>3 DEF ConfirmPlaces, RaceRuns
  <2>2. race' \in Races
    BY <2>1 DEF RaceInv, RaceTypeOK, Races
  <2>. QED
    BY <2>1, <2>2 DEF RaceInv, RaceTypeOK, Races, PlacesComplete, DoneIsReviewed, Participants, Placed
<1>4. ASSUME ResetRace PROVE RaceInv'
  <2>1. <<>> \in [{} -> Places]
    OBVIOUS
  <2>2. <<>> \in UNION {[P -> Places] : P \in SUBSET Racers}
    BY <2>1
  <2>. QED
    BY <1>4, <2>2 DEF ResetRace, RaceInv, RaceTypeOK, Races, PlacesComplete, DoneIsReviewed
<1>5. ASSUME CancelRace PROVE RaceInv'
  BY <1>5 DEF CancelRace, RaceInv, RaceTypeOK, Races, PlacesComplete, DoneIsReviewed
<1>6. ASSUME NEW s \in Stewards, OpenPage(s) PROVE RaceInv'
  BY <1>6 DEF OpenPage, RaceInv, RaceTypeOK, PlacesComplete, DoneIsReviewed, Participants, Placed
<1>7. ASSUME UNCHANGED raceVars PROVE RaceInv'
  BY <1>7 DEF raceVars, RaceInv, RaceTypeOK, PlacesComplete, DoneIsReviewed, Participants, Placed
<1>. QED
  BY <1>1, <1>2, <1>3, <1>4, <1>5, <1>6, <1>7

LEMMA RaceStepKeeps == ASSUME RaceInv, [RaceNext]_raceVars PROVE RaceInv'
BY EnterKeeps, DeleteKeepsRace, QuitKeeps, StartKeepsRace, OtherRaceSteps DEF RaceNext

-----------------------------------------------------------------------------
(* What a step may do to the places.                                         *)
AsSeen ==
  /\ race.match = "done" /\ race'.match = "done" /\ Participants = DOMAIN race'.places
       => \/ race'.places = race.places
          \/ race.status # "finished" /\ \E s \in Stewards : page[s].places = race.places
  /\ race'.status = "finished" /\ race.status # "finished"
       => \E s \in Stewards : page[s].match = "done" /\ page[s].places = race.places

(* A page that is up to date shows the places: they are in match_version.    *)
LEMMA UpToDateShows ==
  ASSUME NEW s \in Stewards, UpToDate(s)
  PROVE  page[s].places = race.places /\ page[s].match = race.match
BY DEF UpToDate, Version

LEMMA RaceStepsAsSeen == ASSUME RaceInv, [RaceNext]_raceVars PROVE AsSeen
<1>1. race \in Races
  BY DEF RaceInv, RaceTypeOK
<1>2. ASSUME NEW s \in Stewards, NEW sheet \in Sheets, EnterPlaces(s, sheet) PROVE AsSeen
  BY <1>2, UpToDateShows DEF EnterPlaces, RaceRuns, AsSeen
<1>3. ASSUME NEW s \in Stewards, ConfirmPlaces(s) PROVE AsSeen
  BY <1>1, <1>3, UpToDateShows DEF ConfirmPlaces, AsSeen, Races
<1>4. ASSUME NEW t \in Leavers, DeleteRacer(t) PROVE AsSeen
  <2> DEFINE left == [u \in Participants \ {t} |-> race.places[u]]
  <2>1. race'.places = left /\ race'.status = race.status
    BY <1>1, <1>4 DEF DeleteRacer, Races
  <2>2. DOMAIN race'.places = Participants \ {t}
    BY <2>1
  <2>3. race.places \in [Participants -> Places]
    BY RaceParts DEF RaceInv
  <2>4. Participants = DOMAIN race'.places => left = race.places
    BY <2>2, <2>3
  <2>. QED
    BY <2>1, <2>4 DEF AsSeen
<1>5. ASSUME NEW t \in Leavers, QuitRace(t) PROVE AsSeen
  <2>1. race.match = "done" => race' = race
    BY <1>5 DEF QuitRace, AfterQuit
  <2>2. race'.status = race.status
    BY <1>1, <1>5 DEF QuitRace, AfterQuit, Races
  <2>. QED
    BY <2>1, <2>2 DEF AsSeen
<1>6. ASSUME \/ StartRace \/ ResetRace \/ CancelRace \/ UNCHANGED raceVars
             \/ \E t \in Leavers : Enroll(t)
             \/ \E s \in Stewards : OpenPage(s) \/ StartPlay(s)
      PROVE  /\ race'.places = race.places \/ race'.match # "done"
             /\ race'.status = "finished" => race.status = "finished"
  BY <1>1, <1>6 DEF StartRace, ResetRace, CancelRace, raceVars, Enroll, OpenPage, StartPlay, Races
<1>. QED
  BY <1>2, <1>3, <1>4, <1>5, <1>6 DEF RaceNext, AsSeen

(* The results of a match of all stand, whatever organisers with pages of    *)
(* different ages enter, correct and confirm, and whoever withdraws or is    *)
(* deleted: they are complete, with one winner, and only who has seen them   *)
(* changes or confirms them (update_ffa_scores, confirm_results in           *)
(* tournaments/services).                                                    *)
THEOREM RacePlacesStand == ContestSpec => PlacesStand
<1>1. ContestInit => RaceInv
  BY InitRace DEF ContestInit
<1>2. RaceInv /\ [ContestNext]_contestVars => RaceInv' /\ [AsSeen]_raceVars
  <2>1. [ContestNext]_contestVars => [RaceNext]_raceVars
    BY DEF ContestNext, DrawsMove, SwissMove, RaceMove, contestVars
  <2>. QED
    BY <2>1, RaceStepKeeps, RaceStepsAsSeen
<1>3. RaceInv => PlacesComplete
  BY DEF RaceInv
<1>4. ContestSpec => []RaceInv /\ [][AsSeen]_raceVars
  BY <1>1, <1>2, PTL DEF ContestSpec
<1>5. PlacesAsSeen <=> [][AsSeen]_raceVars
  BY PTL DEF PlacesAsSeen, AsSeen
<1>. QED
  BY <1>3, <1>4, <1>5, PTL DEF PlacesStand

-----------------------------------------------------------------------------
(* Induction by sets of numbers.  The library's induction theorems take an   *)
(* operator; that a set of numbers has a least element does not, and it says *)
(* the same.                                                                 *)
LEMMA LeastNumber ==
  ASSUME NEW S \in SUBSET Nat, S # {}
  PROVE  \E m \in S : \A k \in S : m <= k
<1> DEFINE R == {ss \in Nat \X Nat : ss[1] < ss[2]}
<1>1. IsWellFoundedOn(R, Nat)
  BY NatLessThanWellFounded DEF OpToRel
<1>2. \E m \in S : \A k \in S : ~ (<<k, m>> \in R)
  <2>. HIDE DEF R
  <2>. QED
    BY <1>1, WFMin
<1>3. PICK m \in S : \A k \in S : ~ (<<k, m>> \in R)
  BY <1>2
<1>4. \A k \in S : m <= k
  <2>. TAKE k \in S
  <2>1. <<k, m>> \in Nat \X Nat /\ ~ (<<k, m>> \in R)
    BY <1>3
  <2>2. ~ (k < m)
    BY <2>1
  <2>. QED
    BY <2>2
<1>. QED
  BY <1>4

LEMMA InductionBySet ==
  ASSUME NEW P \in SUBSET Nat, 0 \in P, \A n \in P : n + 1 \in P
  PROVE  P = Nat
<1>1. SUFFICES ASSUME Nat \ P # {} PROVE FALSE
  OBVIOUS
<1>2. PICK m \in Nat \ P : \A k \in Nat \ P : m <= k
  BY <1>1, LeastNumber
<1>3. m # 0 /\ m - 1 \in Nat /\ m - 1 \notin Nat \ P
  BY <1>2
<1>. QED
  BY <1>2, <1>3

(* A sum over a finite function is what its recursion says.                  *)
AnyOf(s) == CHOOSE y \in s : TRUE
SumStep(f, D, g) == [s \in SUBSET D |-> IF s = {} THEN 0 ELSE f[AnyOf(s)] + g[s \ {AnyOf(s)}]]

LEMMA SumRecursion ==
  ASSUME NEW f, NEW D, IsFiniteSet(D), f \in [D -> Nat]
  PROVE  \E g \in [SUBSET D -> Nat] : g = SumStep(f, D, g)
<1> DEFINE Upto(n) == {s \in SUBSET D : Cardinality(s) <= n}
           Good(n, g) == /\ g \in [Upto(n) -> Nat]
                         /\ \A s \in Upto(n) : g[s] = IF s = {} THEN 0 ELSE f[AnyOf(s)] + g[s \ {AnyOf(s)}]
           P == {n \in Nat : \E g : Good(n, g)}
<1>1. \A s \in SUBSET D : /\ IsFiniteSet(s) /\ Cardinality(s) \in Nat
                          /\ s # {} => /\ AnyOf(s) \in s /\ s \ {AnyOf(s)} \in SUBSET D
                                       /\ Cardinality(s \ {AnyOf(s)}) = Cardinality(s) - 1
                          /\ Cardinality(s) = 0 <=> s = {}
  <2>. TAKE s \in SUBSET D
  <2>1. IsFiniteSet(s) /\ Cardinality(s) \in Nat
    BY FS_Subset, FS_CardinalityType
  <2>2. s # {} => AnyOf(s) \in s
    BY DEF AnyOf
  <2>3. s # {} => Cardinality(s \ {AnyOf(s)}) = Cardinality(s) - 1
    <3>. QED
      BY <2>1, <2>2, FS_RemoveElement
  <2>. QED
    BY <2>1, <2>2, <2>3, FS_EmptySet
<1>2. 0 \in P
  <2> DEFINE g == [s \in Upto(0) |-> 0]
  <2>1. \A s \in Upto(0) : s = {}
    <3>. TAKE s \in Upto(0)
    <3>1. s \in SUBSET D /\ Cardinality(s) <= 0
      OBVIOUS
    <3>2. Cardinality(s) \in Nat /\ (Cardinality(s) = 0 <=> s = {})
      BY <1>1, <3>1
    <3>. QED
      BY <3>1, <3>2
  <2>2. g \in [Upto(0) -> Nat]
    OBVIOUS
  <2>3. \A s \in Upto(0) : g[s] = 0
    OBVIOUS
  <2>4. Good(0, g)
    <3>. HIDE DEF Upto, g
    <3>. QED
      BY <2>1, <2>2, <2>3
  <2>. QED
    BY <2>4
<1>3. ASSUME NEW n \in P PROVE n + 1 \in P
  <2>1. PICK g : Good(n, g)
    OBVIOUS
  <2> DEFINE h == [s \in Upto(n + 1) |-> IF s = {} THEN 0 ELSE f[AnyOf(s)] + g[s \ {AnyOf(s)}]]
  <2>2. \A s \in Upto(n + 1) : s # {} => AnyOf(s) \in D /\ s \ {AnyOf(s)} \in Upto(n)
    BY <1>1
  <2>3. \A s \in Upto(n) : s \in Upto(n + 1)
    <3>. TAKE s \in Upto(n)
    <3>1. s \in SUBSET D /\ Cardinality(s) <= n
      OBVIOUS
    <3>2. Cardinality(s) \in Nat /\ n \in Nat
      BY <1>1, <3>1
    <3>. QED
      BY <3>1, <3>2
  <2>. HIDE DEF Upto
  <2>4. h \in [Upto(n + 1) -> Nat]
    <3>. SUFFICES ASSUME NEW s \in Upto(n + 1)
                  PROVE  (IF s = {} THEN 0 ELSE f[AnyOf(s)] + g[s \ {AnyOf(s)}]) \in Nat
      OBVIOUS
    <3>. QED
      BY <2>1, <2>2
  <2>5. \A s \in Upto(n) : h[s] = g[s]
    BY <2>1, <2>3
  <2>6. \A s \in Upto(n + 1) : h[s] = IF s = {} THEN 0 ELSE f[AnyOf(s)] + h[s \ {AnyOf(s)}]
    <3>. TAKE s \in Upto(n + 1)
    <3>1. h[s] = IF s = {} THEN 0 ELSE f[AnyOf(s)] + g[s \ {AnyOf(s)}]
      OBVIOUS
    <3>. HIDE DEF h
    <3>. QED
      BY <3>1, <2>2, <2>5
  <2>7. Good(n + 1, h)
    <3>. HIDE DEF h
    <3>. QED
      BY <2>4, <2>6
  <2>8. n + 1 \in Nat
    OBVIOUS
  <2>. QED
    <3>. HIDE DEF Good
    <3>. QED
      BY <2>7, <2>8
<1>4. P = Nat
  <2>. HIDE DEF P
  <2>1. P \in SUBSET Nat
    BY DEF P
  <2>. QED
    BY <1>2, <1>3, <2>1, InductionBySet
<1>5. Cardinality(D) \in Nat
  BY <1>1
<1>6. PICK g : Good(Cardinality(D), g)
  BY <1>4, <1>5
<1>7. Upto(Cardinality(D)) = SUBSET D
  BY FS_Subset
<1>8. g \in [SUBSET D -> Nat] /\ \A s \in SUBSET D : g[s] = IF s = {} THEN 0 ELSE f[AnyOf(s)] + g[s \ {AnyOf(s)}]
  <2>. HIDE DEF Upto
  <2>. QED
    BY <1>6, <1>7
<1>9. g = SumStep(f, D, g)
  BY <1>8 DEF SumStep
<1>. QED
  BY <1>8, <1>9

LEMMA SumIsNat ==
  ASSUME NEW f, NEW D, IsFiniteSet(D), f \in [D -> Nat]
  PROVE  SumFunction(f) \in Nat
<1> DEFINE it == CHOOSE g : g = SumStep(f, D, g)
           Bad == {s \in SUBSET D : it[s] \notin Nat}
           Sizes == {Cardinality(s) : s \in Bad}
<1>1. SumFunction(f) = it[D]
  BY DEF SumFunction, SumFunctionOnSet, FoldFunctionOnSet, MapThenFoldSet, SumStep, AnyOf
<1>2. it = SumStep(f, D, it)
  BY SumRecursion
<1>3. \A s \in SUBSET D : it[s] = IF s = {} THEN 0 ELSE f[AnyOf(s)] + it[s \ {AnyOf(s)}]
  <2>. HIDE DEF it
  <2>. QED
    BY <1>2 DEF SumStep
<1>. HIDE DEF it
<1>4. \A s \in SUBSET D : IsFiniteSet(s) /\ Cardinality(s) \in Nat
  BY FS_Subset, FS_CardinalityType
<1>5. ASSUME Bad # {} PROVE FALSE
  <2>1. Sizes \in SUBSET Nat /\ Sizes # {}
    BY <1>4, <1>5
  <2>2. PICK m \in Sizes : \A k \in Sizes : m <= k
    <3>. HIDE DEF Sizes
    <3>. QED
      BY <2>1, LeastNumber
  <2>3. PICK s \in Bad : Cardinality(s) = m
    BY <2>2
  <2>4. s # {} /\ AnyOf(s) \in s
    BY <1>3, <2>3 DEF AnyOf
  <2>5. s \ {AnyOf(s)} \in SUBSET D /\ Cardinality(s \ {AnyOf(s)}) = Cardinality(s) - 1
    BY <1>4, <2>3, <2>4, FS_RemoveElement
  <2>6. s \ {AnyOf(s)} \notin Bad
    BY <1>4, <2>2, <2>3, <2>5
  <2>7. it[s \ {AnyOf(s)}] \in Nat /\ f[AnyOf(s)] \in Nat
    BY <2>4, <2>5, <2>6
  <2>8. it[s] = f[AnyOf(s)] + it[s \ {AnyOf(s)}] /\ it[s] \notin Nat
    BY <1>3, <2>3, <2>4
  <2>. QED
    BY <2>7, <2>8
<1>. QED
  BY <1>1, <1>5

-----------------------------------------------------------------------------
(* The least weights.  Weights are lists of n numbers in the order of a      *)
(* dictionary, which is well-founded.                                        *)
LEMMA LightestExists ==
  ASSUME NEW n \in Nat, NEW M, M # {}, NEW w \in [M -> [1..n -> Nat]]
  PROVE  Lightest(w) # {}
<1> DEFINE R == {ss \in Nat \X Nat : ss[1] < ss[2]}
           Lex == LexProductOrdering(R, Nat, n)
           W == {w[x] : x \in M}
<1>1. IsWellFoundedOn(R, Nat)
  BY NatLessThanWellFounded DEF OpToRel
<1>2. IsWellFoundedOn(Lex, [1..n -> Nat])
  <2>. HIDE DEF R
  <2>. QED
    BY <1>1, WFLexProductOrdering
<1>3. PICK m \in W : \A v \in W : ~ (<<v, m>> \in Lex)
  <2>1. W \subseteq [1..n -> Nat] /\ W # {}
    OBVIOUS
  <2>. HIDE DEF Lex, W
  <2>. QED
    BY <1>2, <2>1, WFMin
<1>4. PICK x \in M : w[x] = m
  OBVIOUS
<1>5. ASSUME NEW y \in M PROVE ~ Before(w[y], w[x])
  <2>1. w[y] \in [1..n -> Nat] /\ w[x] \in [1..n -> Nat]
    OBVIOUS
  <2>2. ~ (<<w[y], w[x]>> \in Lex)
    BY <1>3, <1>4
  <2>3. ASSUME Before(w[y], w[x]) PROVE FALSE
    <3>1. PICK i \in 1..n : w[y][i] < w[x][i] /\ \A j \in 1..(i - 1) : w[y][j] = w[x][j]
      BY <2>1, <2>3 DEF Before
    <3>2. w[y][i] \in Nat /\ w[x][i] \in Nat
      BY <2>1
    <3>3. <<w[y][i], w[x][i]>> \in R
      BY <3>1, <3>2
    <3>. HIDE DEF R
    <3>. QED
      BY <2>1, <2>2, <3>1, <3>3 DEF LexProductOrdering
  <2>. QED
    BY <2>3
<1>6. x \in Lightest(w)
  BY <1>5 DEF Lightest
<1>. QED
  BY <1>6

LEMMA LightestOf ==
  ASSUME NEW w
  PROVE  Lightest(w) \subseteq DOMAIN w
BY DEF Lightest

-----------------------------------------------------------------------------
(* The order of the table: by five numbers, the last of which is the team.   *)
Five == [1..5 -> Int]

LEMMA BeforeOnFive ==
  ASSUME NEW k \in Five, NEW l \in Five
  PROVE  Before(k, l) <=>
           \/ k[1] < l[1]
           \/ k[1] = l[1] /\ k[2] < l[2]
           \/ k[1] = l[1] /\ k[2] = l[2] /\ k[3] < l[3]
           \/ k[1] = l[1] /\ k[2] = l[2] /\ k[3] = l[3] /\ k[4] < l[4]
           \/ k[1] = l[1] /\ k[2] = l[2] /\ k[3] = l[3] /\ k[4] = l[4] /\ k[5] < l[5]
<1>1. DOMAIN k = 1..5
  BY DEF Five
<1>2. 1..5 = {1, 2, 3, 4, 5} /\ 1..(1 - 1) = {} /\ 1..(2 - 1) = {1} /\ 1..(3 - 1) = {1, 2}
      /\ 1..(4 - 1) = {1, 2, 3} /\ 1..(5 - 1) = {1, 2, 3, 4}
  OBVIOUS
<1> DEFINE First(i) == k[i] < l[i] /\ \A j \in 1..(i - 1) : k[j] = l[j]
<1>3. Before(k, l) <=> First(1) \/ First(2) \/ First(3) \/ First(4) \/ First(5)
  <2>1. Before(k, l) <=> \E i \in {1, 2, 3, 4, 5} : First(i)
    BY <1>1, <1>2 DEF Before
  <2>. HIDE DEF First
  <2>. QED
    BY <2>1
<1>4. First(1) <=> k[1] < l[1]
  BY <1>2
<1>5. First(2) <=> k[1] = l[1] /\ k[2] < l[2]
  BY <1>2
<1>6. First(3) <=> k[1] = l[1] /\ k[2] = l[2] /\ k[3] < l[3]
  BY <1>2
<1>7. First(4) <=> k[1] = l[1] /\ k[2] = l[2] /\ k[3] = l[3] /\ k[4] < l[4]
  BY <1>2
<1>8. First(5) <=> k[1] = l[1] /\ k[2] = l[2] /\ k[3] = l[3] /\ k[4] = l[4] /\ k[5] < l[5]
  BY <1>2
<1>. QED
  <2>. HIDE DEF First
  <2>. QED
    BY <1>3, <1>4, <1>5, <1>6, <1>7, <1>8

Kinds == {"PLAYED", "BYE", "WALKOVER", "DOUBLE_FORFEIT"}
Results == [winner : Teams \cup {NoTeam}, loser : Teams \cup {NoTeam}, kind : Kinds, done : BOOLEAN]
Rows == [points : Nat, buchholz : Nat, berger : Nat, withdrawn : BOOLEAN]

LEMMA AheadOrders ==
  ASSUME NEW S \in SUBSET Teams, NEW rows \in [S -> Rows], NEW seeds \in [Teams -> Nat]
  PROVE  /\ \A t, u \in S : Ahead(rows, seeds, t, u) => ~ Ahead(rows, seeds, u, t)
         /\ \A t, u \in S : t # u => Ahead(rows, seeds, t, u) \/ Ahead(rows, seeds, u, t)
         /\ \A t, u, v \in S : Ahead(rows, seeds, t, u) /\ Ahead(rows, seeds, u, v) => Ahead(rows, seeds, t, v)
<1> DEFINE key(t) == SortKey(rows, seeds, t)
<1>1. Teams \subseteq Int
  BY DEF Teams
<1>2. ASSUME NEW t \in S PROVE key(t) \in Five /\ key(t)[5] = t
  <2>1. rows[t] \in Rows /\ seeds[t] \in Nat /\ t \in Int
    BY <1>1
  <2>2. -rows[t].points \in Int /\ -rows[t].buchholz \in Int /\ -rows[t].berger \in Int
    BY <2>1 DEF Rows
  <2>. QED
    BY <2>1, <2>2 DEF SortKey, Five
<1>3. \A t, u \in S : Ahead(rows, seeds, t, u) <=> Before(key(t), key(u))
  BY DEF Ahead
<1>4. \A t \in S : key(t)[1] \in Int /\ key(t)[2] \in Int /\ key(t)[3] \in Int /\ key(t)[4] \in Int /\ key(t)[5] \in Int
  BY <1>2 DEF Five
<1>. HIDE DEF key
<1>5. \A t, u \in S : Ahead(rows, seeds, t, u) => ~ Ahead(rows, seeds, u, t)
  BY <1>2, <1>3, <1>4, BeforeOnFive
<1>6. \A t, u \in S : t # u => Ahead(rows, seeds, t, u) \/ Ahead(rows, seeds, u, t)
  BY <1>2, <1>3, <1>4, BeforeOnFive
<1>7. \A t, u, v \in S : Ahead(rows, seeds, t, u) /\ Ahead(rows, seeds, u, v) => Ahead(rows, seeds, t, v)
  BY <1>2, <1>3, <1>4, BeforeOnFive
<1>. QED
  BY <1>5, <1>6, <1>7

LEMMA TeamsFinite ==
  /\ IsFiniteSet(Teams) /\ Teams \subseteq Nat \ {0} /\ NoTeam \notin Teams
  /\ \A S \in SUBSET Teams : IsFiniteSet(S) /\ Cardinality(S) \in Nat
<1>1. IsFiniteSet(Teams)
  <2>1. 1 \in Int /\ MaxTeams \in Int
    BY BoundAssumption
  <2>2. IsFiniteSet(1..MaxTeams)
    BY <2>1, FS_Interval
  <2>. QED
    BY <2>2 DEF Teams
<1>2. \A S \in SUBSET Teams : IsFiniteSet(S) /\ Cardinality(S) \in Nat
  BY <1>1, FS_Subset, FS_CardinalityType
<1>. QED
  BY <1>1, <1>2 DEF Teams, NoTeam

(* Some team of a set is behind all others.                                  *)
LEMMA LastExists ==
  ASSUME NEW S \in SUBSET Teams, NEW rows \in [S -> Rows], NEW seeds \in [Teams -> Nat],
         NEW T \in SUBSET S, T # {}
  PROVE  \E t \in T : \A u \in T \ {t} : Ahead(rows, seeds, u, t)
<1> DEFINE Has(U) == \E t \in U : \A u \in U \ {t} : Ahead(rows, seeds, u, t)
           P == {n \in Nat : \A U \in SUBSET S : Cardinality(U) = n + 1 => Has(U)}
<1>1. \A U \in SUBSET S : IsFiniteSet(U) /\ Cardinality(U) \in Nat
  BY TeamsFinite
<1>2. 0 \in P
  <2>1. ASSUME NEW U \in SUBSET S, Cardinality(U) = 1 PROVE Has(U)
    <3>1. PICK t : U = {t}
      BY <1>1, <2>1, FS_Singleton
    <3>. QED
      BY <3>1
  <2>. QED
    <3>. HIDE DEF Has
    <3>. QED
      BY <2>1
<1>3. ASSUME NEW n \in P PROVE n + 1 \in P
  <2>1. ASSUME NEW U \in SUBSET S, Cardinality(U) = n + 2 PROVE Has(U)
    <3>1. n \in Nat /\ U # {}
      BY <2>1, FS_EmptySet
    <3>2. PICK a \in U : TRUE
      BY <3>1
    <3>3. U \ {a} \in SUBSET S /\ Cardinality(U \ {a}) = n + 1
      BY <1>1, <2>1, <3>1, <3>2, FS_RemoveElement
    <3>4. Has(U \ {a})
      <4>. HIDE DEF Has
      <4>. QED
        BY <3>3
    <3>5. PICK t \in U \ {a} : \A u \in (U \ {a}) \ {t} : Ahead(rows, seeds, u, t)
      BY <3>4
    <3>6. CASE Ahead(rows, seeds, a, t)
      BY <3>5, <3>6
    <3>7. CASE ~ Ahead(rows, seeds, a, t)
      <4>1. a \in S /\ t \in S /\ a # t
        BY <3>2, <3>5
      <4>2. Ahead(rows, seeds, t, a)
        BY <3>7, <4>1, AheadOrders
      <4>3. \A u \in U \ {a} : Ahead(rows, seeds, u, a)
        <5>. TAKE u \in U \ {a}
        <5>1. u = t \/ Ahead(rows, seeds, u, t)
          BY <3>5
        <5>. QED
          BY <4>1, <4>2, <5>1, AheadOrders
      <4>. QED
        BY <3>2, <4>3
    <3>. QED
      BY <3>6, <3>7
  <2>2. n + 1 \in Nat /\ (n + 1) + 1 = n + 2
    OBVIOUS
  <2>. QED
    <3>. HIDE DEF Has
    <3>. QED
      BY <2>1, <2>2
<1>4. P = Nat
  <2>1. P \in SUBSET Nat
    OBVIOUS
  <2>. HIDE DEF P
  <2>. QED
    BY <1>2, <1>3, <2>1, InductionBySet
<1>5. Cardinality(T) \in Nat /\ Cardinality(T) # 0
  BY <1>1, FS_EmptySet
<1>6. Cardinality(T) - 1 \in P /\ (Cardinality(T) - 1) + 1 = Cardinality(T)
  BY <1>4, <1>5
<1>7. Has(T)
  <2>. HIDE DEF Has
  <2>. QED
    BY <1>6
<1>. QED
  BY <1>7

-----------------------------------------------------------------------------
(* Pairs and matchings.                                                      *)
LEMMA PairIs ==
  ASSUME NEW p \in SUBSET Teams, Cardinality(p) = 2
  PROVE  \E a, b \in Teams : a # b /\ p = {a, b}
<1>1. IsFiniteSet(p) /\ p # {}
  BY TeamsFinite, FS_EmptySet
<1>2. PICK a \in p : TRUE
  BY <1>1
<1>3. IsFiniteSet(p \ {a}) /\ Cardinality(p \ {a}) = 1
  BY <1>1, <1>2, FS_RemoveElement
<1>4. PICK b : p \ {a} = {b}
  BY <1>3, FS_Singleton
<1>. QED
  BY <1>2, <1>4

LEMMA PairHasTwo ==
  ASSUME NEW a, NEW b, a # b
  PROVE  Cardinality({a, b}) = 2
<1>1. IsFiniteSet({a}) /\ Cardinality({a}) = 1
  BY FS_Singleton
<1>2. Cardinality({a} \cup {b}) = 2
  BY <1>1, FS_AddElement
<1>3. {a} \cup {b} = {a, b}
  OBVIOUS
<1>. QED
  BY <1>2, <1>3

LEMMA MatchingIs ==
  ASSUME NEW S \in SUBSET Teams, NEW m \in Matchings[S]
  PROVE  /\ \A p \in m : p \in SUBSET S /\ Cardinality(p) = 2
         /\ \A p, o \in m : p \cap o # {} => p = o
         /\ UNION m = S
         /\ IsFiniteSet(m) /\ Cardinality(m) \in Nat
<1>1. m \in SUBSET kSubset(2, S) /\ \A t \in S : \E p \in m : \A o \in m : t \in o <=> o = p
  BY DEF Matchings
<1>2. \A p \in m : p \in SUBSET S /\ Cardinality(p) = 2
  BY <1>1 DEF kSubset
<1>3. \A p, o \in m : p \cap o # {} => p = o
  <2>. SUFFICES ASSUME NEW p \in m, NEW o \in m, NEW t \in p \cap o PROVE p = o
    OBVIOUS
  <2>1. t \in S
    BY <1>2
  <2>. QED
    BY <1>1, <2>1
<1>4. UNION m = S
  <2>1. ASSUME NEW t \in S PROVE t \in UNION m
    BY <1>1
  <2>. QED
    BY <1>2, <2>1
<1>5. IsFiniteSet(m)
  <2>1. m \in SUBSET SUBSET S
    BY <1>2
  <2>2. IsFiniteSet(SUBSET S)
    BY TeamsFinite, FS_SUBSET
  <2>. QED
    BY <2>1, <2>2, FS_Subset
<1>. QED
  BY <1>2, <1>3, <1>4, <1>5, FS_CardinalityType

LEMMA MatchingExists ==
  ASSUME NEW S \in SUBSET Teams, Cardinality(S) % 2 = 0
  PROVE  Matchings[S] # {}
<1> DEFINE P == {n \in Nat : \A U \in SUBSET Teams : Cardinality(U) = 2 * n => Matchings[U] # {}}
<1>1. 0 \in P
  <2>1. ASSUME NEW U \in SUBSET Teams, Cardinality(U) = 0 PROVE Matchings[U] # {}
    <3>1. U = {}
      BY <2>1, TeamsFinite, FS_EmptySet
    <3>2. {} \in Matchings[U]
      BY <3>1 DEF Matchings
    <3>. QED
      BY <3>2
  <2>. QED
    BY <2>1
<1>2. ASSUME NEW n \in P PROVE n + 1 \in P
  <2>1. ASSUME NEW U \in SUBSET Teams, Cardinality(U) = 2 * n + 2 PROVE Matchings[U] # {}
    <3>1. IsFiniteSet(U) /\ U # {} /\ n \in Nat
      BY <2>1, TeamsFinite, FS_EmptySet
    <3>2. PICK a \in U : TRUE
      BY <3>1
    <3>3. IsFiniteSet(U \ {a}) /\ Cardinality(U \ {a}) = 2 * n + 1
      BY <2>1, <3>1, <3>2, FS_RemoveElement
    <3>4. PICK b \in U \ {a} : TRUE
      BY <3>1, <3>3, FS_EmptySet
    <3>5. Cardinality((U \ {a}) \ {b}) = 2 * n
      <4>1. Cardinality((U \ {a}) \ {b}) = Cardinality(U \ {a}) - 1
        BY <3>3, <3>4, FS_RemoveElement
      <4>. QED
        BY <3>1, <3>3, <4>1
    <3> DEFINE V == (U \ {a}) \ {b}
    <3>6. Matchings[V] # {}
      BY <3>5
    <3>7. PICK m \in Matchings[V] : TRUE
      BY <3>6
    <3>8. V \in SUBSET Teams
      OBVIOUS
    <3>9. /\ m \in SUBSET kSubset(2, V)
          /\ \A t \in V : \E p \in m : \A o \in m : t \in o <=> o = p
      BY <3>7, <3>8 DEF Matchings
    <3>10. {a, b} \in kSubset(2, U)
      BY <3>2, <3>4, PairHasTwo DEF kSubset
    <3>11. m \cup {{a, b}} \in SUBSET kSubset(2, U)
      BY <3>9, <3>10 DEF kSubset
    <3>12. \A o \in m : a \notin o /\ b \notin o
      BY <3>9 DEF kSubset
    <3>13. \A t \in U : \E p \in m \cup {{a, b}} : \A o \in m \cup {{a, b}} : t \in o <=> o = p
      <4>. TAKE t \in U
      <4>1. CASE t \in {a, b}
        <5>1. \A o \in m : t \notin o /\ o # {a, b}
          BY <3>12, <4>1
        <5>2. \A o \in m \cup {{a, b}} : t \in o <=> o = {a, b}
          BY <4>1, <5>1
        <5>. QED
          BY <5>2
      <4>2. CASE t \notin {a, b}
        <5>1. PICK p \in m : \A o \in m : t \in o <=> o = p
          BY <3>9, <4>2
        <5>2. {a, b} # p
          BY <3>12
        <5>. QED
          BY <4>2, <5>1, <5>2
      <4>. QED
        BY <4>1, <4>2
    <3>14. m \cup {{a, b}} \in Matchings[U]
      BY <3>11, <3>13 DEF Matchings
    <3>. QED
      BY <3>14
  <2>2. n + 1 \in Nat /\ 2 * (n + 1) = 2 * n + 2
    OBVIOUS
  <2>. QED
    BY <2>1, <2>2
<1>3. P = Nat
  <2>1. P \in SUBSET Nat
    OBVIOUS
  <2>. HIDE DEF P
  <2>. QED
    BY <1>1, <1>2, <2>1, InductionBySet
<1>4. PICK n \in Nat : Cardinality(S) = 2 * n
  <2>1. Cardinality(S) \in Nat
    BY TeamsFinite
  <2>2. Cardinality(S) \div 2 \in Nat /\ Cardinality(S) = 2 * (Cardinality(S) \div 2)
    BY <2>1
  <2>. QED
    BY <2>2
<1>5. n \in P
  BY <1>3
<1>. QED
  BY <1>4, <1>5

-----------------------------------------------------------------------------
(* The numbers of the table are natural numbers.                             *)
Slates == UNION {[K -> Results] : K \in SUBSET SUBSET Teams}
Tables == UNION {[S -> Rows] : S \in SUBSET Teams}
Rounds == [match : Slates, table : Tables]

LEMMA SlateIs ==
  ASSUME NEW x \in Slates
  PROVE  DOMAIN x \in SUBSET SUBSET Teams /\ x \in [DOMAIN x -> Results]
<1>1. PICK K \in SUBSET SUBSET Teams : x \in [K -> Results]
  BY DEF Slates
<1>. QED
  BY <1>1

LEMMA TableIs ==
  ASSUME NEW x \in Tables
  PROVE  DOMAIN x \in SUBSET Teams /\ x \in [DOMAIN x -> Rows]
<1>1. PICK S \in SUBSET Teams : x \in [S -> Rows]
  BY DEF Tables
<1>. QED
  BY <1>1

LEMMA MatchesOf ==
  ASSUME NEW rs \in Seq(Rounds)
  PROVE  /\ IsFiniteSet(Matches(rs))
         /\ \A q \in Matches(rs) :
              /\ q[1] \in 1..Len(rs) /\ q[2] \in SUBSET Teams /\ q = <<q[1], q[2]>>
              /\ q[2] \in DOMAIN rs[q[1]].match
              /\ At(rs, q) \in Results
         /\ \A n \in 1..Len(rs) : \A p \in DOMAIN rs[n].match :
              p \in SUBSET Teams /\ <<n, p>> \in Matches(rs) /\ At(rs, <<n, p>>) = rs[n].match[p]
<1>1. Len(rs) \in Nat /\ DOMAIN rs = 1..Len(rs) /\ \A n \in 1..Len(rs) : rs[n] \in Rounds
  BY LenProperties
<1>2. IsFiniteSet((1..Len(rs)) \X SUBSET Teams)
  <2>1. 1 \in Int /\ Len(rs) \in Int
    BY <1>1
  <2>2. IsFiniteSet(1..Len(rs))
    BY <2>1, FS_Interval
  <2>3. IsFiniteSet(SUBSET Teams)
    BY FS_SUBSET, TeamsFinite
  <2>. QED
    BY <2>2, <2>3, FS_Product
<1>3. Matches(rs) \in SUBSET ((1..Len(rs)) \X SUBSET Teams)
  BY <1>1 DEF Matches
<1>4. IsFiniteSet(Matches(rs))
  BY <1>2, <1>3, FS_Subset
<1>5. \A n \in 1..Len(rs) : rs[n].match \in Slates
  BY <1>1 DEF Rounds
<1>6. ASSUME NEW q \in Matches(rs)
      PROVE  /\ q[1] \in 1..Len(rs) /\ q[2] \in SUBSET Teams /\ q = <<q[1], q[2]>>
             /\ q[2] \in DOMAIN rs[q[1]].match
             /\ At(rs, q) \in Results
  <2>1. q[1] \in 1..Len(rs) /\ q[2] \in SUBSET Teams /\ q = <<q[1], q[2]>> /\ q[2] \in DOMAIN rs[q[1]].match
    BY <1>1 DEF Matches
  <2>2. rs[q[1]].match \in [DOMAIN rs[q[1]].match -> Results]
    BY <1>5, <2>1, SlateIs
  <2>. QED
    BY <2>1, <2>2 DEF At
<1>7. ASSUME NEW n \in 1..Len(rs), NEW p \in DOMAIN rs[n].match
      PROVE  p \in SUBSET Teams /\ <<n, p>> \in Matches(rs) /\ At(rs, <<n, p>>) = rs[n].match[p]
  <2>1. p \in SUBSET Teams
    BY <1>5, SlateIs
  <2>. QED
    BY <1>1, <2>1 DEF Matches, At
<1>. QED
  BY <1>4, <1>6, <1>7

LEMMA DecidedOf ==
  ASSUME NEW rs \in Seq(Rounds), NEW t
  PROVE  IsFiniteSet(Decided(rs, t)) /\ Cardinality(Decided(rs, t)) \in Nat
         /\ Decided(rs, t) \subseteq Matches(rs)
<1>1. Decided(rs, t) \in SUBSET Matches(rs)
  BY DEF Decided
<1>. QED
  BY <1>1, MatchesOf, FS_Subset, FS_CardinalityType

LEMMA EarnedIsNat == ASSUME NEW m, NEW t PROVE Earned(m, t) \in Nat
BY DEF Earned

LEMMA LeastIsNat == ASSUME NEW a \in Nat, NEW b \in Nat PROVE Least(a, b) \in Nat /\ Least(a, b) <= a
BY DEF Least

LEMMA GapIsNat == ASSUME NEW a \in Nat, NEW b \in Nat PROVE Gap(a, b) \in Nat /\ Gap(a, b) = Gap(b, a) /\ Gap(a, a) = 0
BY DEF Gap

LEMMA AdjustedIsNat ==
  ASSUME NEW rs \in Seq(Rounds), NEW gone, NEW t
  PROVE  Points(rs, t) \in Nat /\ Adjusted(rs, gone, t) \in Nat
<1>1. Points(rs, t) \in Nat
  <2> DEFINE f == [q \in Decided(rs, t) |-> Earned(At(rs, q), t)]
  <2>1. f \in [Decided(rs, t) -> Nat]
    BY EarnedIsNat
  <2>2. Points(rs, t) = SumFunction(f)
    BY DEF Points
  <2>. HIDE DEF f
  <2>. QED
    BY <2>1, <2>2, DecidedOf, SumIsNat
<1>2. Missed(rs, t) \in Nat
  <2>1. Len(rs) \in Nat /\ Cardinality(Decided(rs, t)) \in Nat
    BY LenProperties, DecidedOf
  <2>2. Least(Len(rs), Cardinality(Decided(rs, t))) \in Nat
        /\ Least(Len(rs), Cardinality(Decided(rs, t))) <= Len(rs)
    BY <2>1, LeastIsNat
  <2>. QED
    BY <2>1, <2>2 DEF Missed
<1>. QED
  BY <1>1, <1>2 DEF Adjusted

LEMMA StrengthIsNat ==
  ASSUME NEW rs \in Seq(Rounds), NEW gone, NEW q, NEW t, NEW limit \in Nat, NEW own \in Nat
  PROVE  Strength(limit, rs, gone, q, t, own) \in Nat
<1> DEFINE cap == IF q[2] = {t} THEN limit ELSE Adjusted(rs, gone, Opponent(q[2], t))
<1>1. cap \in Nat
  BY AdjustedIsNat
<1>2. Strength(limit, rs, gone, q, t, own) = IF At(rs, q).kind = "PLAYED" THEN cap ELSE Least(own, cap)
  BY DEF Strength
<1>. HIDE DEF cap
<1>. QED
  BY <1>1, <1>2, LeastIsNat

LEMMA RowIs ==
  ASSUME NEW rs \in Seq(Rounds), NEW gone, NEW t, NEW limit \in Nat, NEW own \in Nat
  PROVE  RowOf(limit, rs, gone, t, own) \in Rows
<1> DEFINE f == [q \in Decided(rs, t) |-> Strength(limit, rs, gone, q, t, own)]
           g == [q \in Decided(rs, t) |-> Strength(limit, rs, gone, q, t, own) * Earned(At(rs, q), t)]
<1>1. \A q \in Decided(rs, t) : /\ Strength(limit, rs, gone, q, t, own) \in Nat
                                /\ Earned(At(rs, q), t) \in Nat
  BY StrengthIsNat, EarnedIsNat
<1>2. f \in [Decided(rs, t) -> Nat]
  BY <1>1
<1>3. g \in [Decided(rs, t) -> Nat]
  <2>1. \A a, b \in Nat : a * b \in Nat
    OBVIOUS
  <2>. QED
    BY <1>1, <2>1
<1>4. Buchholz(limit, rs, gone, t, own) = SumFunction(f) /\ SonnebornBerger(limit, rs, gone, t, own) = SumFunction(g)
  BY DEF Buchholz, SonnebornBerger
<1>. HIDE DEF f, g
<1>5. Buchholz(limit, rs, gone, t, own) \in Nat
  BY <1>2, <1>4, DecidedOf, SumIsNat
<1>6. SonnebornBerger(limit, rs, gone, t, own) \in Nat
  BY <1>3, <1>4, DecidedOf, SumIsNat
<1>. QED
  BY <1>5, <1>6 DEF RowOf, Rows

LEMMA StandingsIs ==
  ASSUME NEW rs \in Seq(Rounds), NEW gone, NEW S \in SUBSET Teams, NEW limit \in Nat
  PROVE  Standings(limit, rs, gone, S) \in [S -> Rows]
BY AdjustedIsNat, RowIs DEF Standings

-----------------------------------------------------------------------------
(* The weights of a matching.                                                *)
LEMMA ApartIsNat ==
  ASSUME NEW pair \in SUBSET Teams, Cardinality(pair) = 2, NEW f, \A t \in pair : f[t] \in Nat
  PROVE  Apart(f, pair) \in Nat
<1>1. PICK a, b \in Teams : a # b /\ pair = {a, b}
  BY PairIs
<1> DEFINE g == Gap(f[a], f[b])
           G == {Gap(f[t], f[u]) : t, u \in pair}
<1>2. g \in Nat /\ Gap(f[b], f[a]) = g /\ Gap(f[a], f[a]) = 0 /\ Gap(f[b], f[b]) = 0
  BY <1>1, GapIsNat
<1>3. G = {0, g}
  BY <1>1, <1>2
<1>4. Apart(f, pair) = CHOOSE x \in {0, g} : \A y \in {0, g} : x >= y
  BY <1>3 DEF Apart, Max
<1>. HIDE DEF g, G
<1>5. \E x \in {0, g} : \A y \in {0, g} : x >= y
  BY <1>2
<1>6. (CHOOSE x \in {0, g} : \A y \in {0, g} : x >= y) \in {0, g}
  BY <1>5
<1>. QED
  BY <1>2, <1>4, <1>6

(* A draw as the pairing takes it, for the teams S.                          *)
DrawFor(d, S) ==
  /\ S \in SUBSET Teams
  /\ d.seeds \in [Teams -> Nat]
  /\ \E T \in SUBSET Teams : S \subseteq T /\ d.rows \in [T -> Rows]

LEMMA WeightIs ==
  ASSUME NEW d, NEW S, DrawFor(d, S), NEW U \in SUBSET S, NEW m \in Matchings[U]
  PROVE  Weight(d, m) \in [1..3 -> Nat]
<1>1. /\ S \in SUBSET Teams /\ U \in SUBSET Teams
      /\ \A t \in S : d.seeds[t] \in Nat /\ d.rows[t].points \in Nat
  BY DEF DrawFor, Rows
<1>2. /\ \A p \in m : p \in SUBSET U /\ Cardinality(p) = 2
      /\ IsFiniteSet(m) /\ Cardinality(m) \in Nat
  BY <1>1, MatchingIs
<1>3. Cardinality(m \cap d.met) \in Nat
  <2>1. IsFiniteSet(m \cap d.met)
    BY <1>2, FS_Intersection
  <2>. QED
    BY <2>1, FS_CardinalityType
<1>4. SumFunction([pair \in m |-> Distance(d, pair)]) \in Nat
  <2>1. ASSUME NEW pair \in m PROVE Distance(d, pair) \in Nat
    <3> DEFINE f == [t \in pair |-> d.rows[t].points]
    <3>1. \A t \in pair : f[t] \in Nat
      BY <1>1, <1>2
    <3>2. Distance(d, pair) = Apart(f, pair)
      BY DEF Distance
    <3>. HIDE DEF f
    <3>. QED
      BY <1>1, <1>2, <3>1, <3>2, ApartIsNat
  <2>2. [pair \in m |-> Distance(d, pair)] \in [m -> Nat]
    BY <2>1
  <2>. QED
    BY <1>2, <2>2, SumIsNat
<1>5. SumFunction([pair \in m |-> SeedGap(d, pair, 2 * Cardinality(m))]) \in Nat
  <2>1. ASSUME NEW pair \in m PROVE SeedGap(d, pair, 2 * Cardinality(m)) \in Nat
    <3> DEFINE k == IF 2 * Cardinality(m) < 4 THEN 1 ELSE (2 * Cardinality(m)) \div 2
    <3>1. Apart(d.seeds, pair) \in Nat
      BY <1>1, <1>2, ApartIsNat
    <3>2. k \in Nat
      BY <1>2
    <3>3. SeedGap(d, pair, 2 * Cardinality(m)) = Gap(Apart(d.seeds, pair), k)
      BY DEF SeedGap
    <3>. HIDE DEF k
    <3>. QED
      BY <3>1, <3>2, <3>3, GapIsNat
  <2>2. [pair \in m |-> SeedGap(d, pair, 2 * Cardinality(m))] \in [m -> Nat]
    BY <2>1
  <2>. QED
    BY <1>2, <2>2, SumIsNat
<1>. QED
  BY <1>3, <1>4, <1>5 DEF Weight

-----------------------------------------------------------------------------
(* What the pairing of the teams S gives.                                    *)
EvenField(S) == Cardinality(S) % 2 = 0

(* Every team that may have the bye leaves a field that can only be paired   *)
(* with a repetition, and so does nobody when all play.                      *)
NoFreshRound(d, S) ==
  \A b \in IF EvenField(S) THEN {NoTeam} ELSE S \ d.byes :
    \A m \in Matchings[S \ {b}] : m \cap d.met # {}

PlanFor(d, S, plan) ==
  /\ IF EvenField(S) THEN plan.bye = NoTeam ELSE plan.bye \in S
  /\ plan.pairs \in Matchings[S \ {plan.bye}]

LEMMA PlansForIs ==
  ASSUME NEW d, NEW S, DrawFor(d, S), NEW bye, bye \in S \/ (EvenField(S) /\ bye = NoTeam)
  PROVE  /\ \A plan \in PlansFor(d, S, bye) :
              plan.bye = bye /\ plan.pairs \in Matchings[S \ {bye}] /\ plan.pairs \cap d.met = {}
         /\ Fresh(d, S \ {bye}) # {} => PlansFor(d, S, bye) # {}
<1> DEFINE w == [f \in Fresh(d, S \ {bye}) |-> Weight(d, f)]
<1>1. ASSUME NEW plan \in PlansFor(d, S, bye)
      PROVE  plan.bye = bye /\ plan.pairs \in Matchings[S \ {bye}] /\ plan.pairs \cap d.met = {}
  <2>1. PICK m \in Lightest(w) : plan = Plan(bye, m)
    BY DEF PlansFor
  <2>2. m \in Fresh(d, S \ {bye})
    BY <2>1, LightestOf
  <2>. QED
    BY <2>1, <2>2 DEF Plan, Fresh
<1>2. ASSUME Fresh(d, S \ {bye}) # {} PROVE PlansFor(d, S, bye) # {}
  <2>1. \A f \in Fresh(d, S \ {bye}) : Weight(d, f) \in [1..3 -> Nat]
    <3>1. S \ {bye} \in SUBSET S
      OBVIOUS
    <3>. QED
      BY <3>1, WeightIs DEF Fresh
  <2>2. w \in [Fresh(d, S \ {bye}) -> [1..3 -> Nat]]
    BY <2>1
  <2>3. Lightest(w) # {}
    <3>. HIDE DEF w
    <3>. QED
      BY <1>2, <2>2, LightestExists
  <2>. QED
    BY <2>3 DEF PlansFor
<1>. QED
  BY <1>1, <1>2

(* Without repetitions: a bye for the last that may have one.                *)
LEMMA StrictIs ==
  ASSUME NEW d, NEW S, DrawFor(d, S), NoTeam \notin d.byes
  PROVE  /\ \A plan \in Strict(d, S) :
              /\ PlanFor(d, S, plan) /\ ~ Repeats(d, plan)
              /\ \A t \in S \ d.byes :
                   plan.bye # NoTeam /\ Ahead(d.rows, d.seeds, plan.bye, t)
                     => \A m \in Matchings[S \ {t}] : m \cap d.met # {}
         /\ Strict(d, S) = {} => NoFreshRound(d, S)
<1> DEFINE able == {t \in S \ d.byes : Fresh(d, S \ {t}) # {}}
           last == {t \in able : \A u \in able \ {t} : Ahead(d.rows, d.seeds, u, t)}
<1>1. S \in SUBSET Teams /\ NoTeam \notin S
  BY TeamsFinite DEF DrawFor
<1>2. PICK T \in SUBSET Teams : S \subseteq T /\ d.rows \in [T -> Rows] /\ d.seeds \in [Teams -> Nat]
  BY DEF DrawFor
<1>3. CASE EvenField(S)
  <2>1. Strict(d, S) = PlansFor(d, S, NoTeam)
    BY <1>3 DEF Strict, EvenField
  <2>2. /\ \A plan \in PlansFor(d, S, NoTeam) :
             plan.bye = NoTeam /\ plan.pairs \in Matchings[S \ {NoTeam}] /\ plan.pairs \cap d.met = {}
        /\ Fresh(d, S \ {NoTeam}) # {} => PlansFor(d, S, NoTeam) # {}
    BY <1>3, PlansForIs
  <2>3. \A plan \in Strict(d, S) : PlanFor(d, S, plan) /\ ~ Repeats(d, plan) /\ plan.bye = NoTeam
    BY <1>3, <2>1, <2>2 DEF PlanFor, Repeats
  <2>4. Strict(d, S) = {} => Fresh(d, S \ {NoTeam}) = {}
    BY <2>1, <2>2
  <2>. QED
    BY <1>3, <2>3, <2>4 DEF NoFreshRound, Fresh
<1>4. CASE ~ EvenField(S)
  <2>1. Strict(d, S) = UNION {PlansFor(d, S, t) : t \in last}
    BY <1>4 DEF Strict, EvenField
  <2>2. ASSUME NEW plan \in Strict(d, S)
        PROVE  /\ PlanFor(d, S, plan) /\ ~ Repeats(d, plan)
               /\ \A t \in S \ d.byes :
                    plan.bye # NoTeam /\ Ahead(d.rows, d.seeds, plan.bye, t)
                      => \A m \in Matchings[S \ {t}] : m \cap d.met # {}
    <3>1. PICK b \in last : plan \in PlansFor(d, S, b)
      BY <2>1
    <3>2. b \in S /\ b \notin d.byes /\ \A u \in able \ {b} : Ahead(d.rows, d.seeds, u, b)
      OBVIOUS
    <3>3. plan.bye = b /\ plan.pairs \in Matchings[S \ {b}] /\ plan.pairs \cap d.met = {}
      BY <3>1, <3>2, PlansForIs
    <3>4. ASSUME NEW t \in S \ d.byes, Ahead(d.rows, d.seeds, b, t)
          PROVE  \A m \in Matchings[S \ {t}] : m \cap d.met # {}
      <4>1. b \in T /\ t \in T
        BY <1>2, <3>2
      <4>2. ~ Ahead(d.rows, d.seeds, t, b)
        BY <1>2, <3>4, <4>1, AheadOrders
      <4>3. ~ Ahead(d.rows, d.seeds, b, b)
        BY <1>2, <4>1, AheadOrders
      <4>4. t # b
        BY <3>4, <4>3
      <4>5. t \notin able
        BY <3>2, <4>2, <4>4
      <4>. QED
        BY <4>5 DEF Fresh
    <3>. QED
      BY <1>4, <3>2, <3>3, <3>4 DEF PlanFor, Repeats
  <2>3. ASSUME Strict(d, S) = {} PROVE NoFreshRound(d, S)
    <3>1. ASSUME able # {} PROVE FALSE
      <4>1. able \in SUBSET T
        BY <1>2
      <4>2. \E b \in able : \A u \in able \ {b} : Ahead(d.rows, d.seeds, u, b)
        <5>. HIDE DEF able
        <5>. QED
          BY <1>2, <3>1, <4>1, LastExists
      <4>3. PICK b \in last : TRUE
        BY <4>2
      <4>4. PlansFor(d, S, b) # {}
        BY <4>3, PlansForIs
      <4>. QED
        BY <2>1, <2>3, <4>3, <4>4
    <3>. QED
      BY <1>4, <3>1 DEF NoFreshRound, Fresh
  <2>. QED
    BY <2>2, <2>3
<1>. QED
  BY <1>3, <1>4

(* With repetitions there is always a way.                                   *)
LEMMA RelaxedIs ==
  ASSUME NEW d, NEW S, DrawFor(d, S), Cardinality(S) >= 2
  PROVE  /\ \A plan \in Relaxed(d, S) : PlanFor(d, S, plan)
         /\ Relaxed(d, S) # {}
<1> DEFINE byes == IF EvenField(S) THEN {NoTeam} ELSE S
           plans == UNION {{Plan(b, m) : m \in Matchings[S \ {b}]} : b \in byes}
           c == [plan \in plans |-> Cost(d, plan)]
<1>1. S \in SUBSET Teams /\ NoTeam \notin S /\ IsFiniteSet(S) /\ Cardinality(S) \in Nat
  BY TeamsFinite DEF DrawFor
<1>2. Relaxed(d, S) = Lightest(c)
  BY DEF Relaxed, EvenField
<1>3. ASSUME NEW plan \in plans
      PROVE  PlanFor(d, S, plan) /\ Cost(d, plan) \in [1..4 -> Nat]
  <2>1. PICK b \in byes : \E m \in Matchings[S \ {b}] : plan = Plan(b, m)
    OBVIOUS
  <2>2. PICK m \in Matchings[S \ {b}] : plan = Plan(b, m)
    BY <2>1
  <2>3. plan.bye = b /\ plan.pairs = m
    BY <2>2 DEF Plan
  <2>4. Weight(d, m) \in [1..3 -> Nat]
    BY WeightIs
  <2>5. Cost(d, plan) \in [1..4 -> Nat]
    <3>1. Weight(d, m)[1] \in Nat /\ Weight(d, m)[2] \in Nat /\ Weight(d, m)[3] \in Nat
      BY <2>4
    <3>2. Cost(d, plan) = <<IF plan.bye \in d.byes THEN 1 ELSE 0, Weight(d, m)[1], Weight(d, m)[2], Weight(d, m)[3]>>
      BY <2>3 DEF Cost
    <3>. QED
      BY <3>1, <3>2
  <2>. QED
    BY <2>1, <2>3, <2>5 DEF PlanFor
<1>4. plans # {}
  <2>1. \E b \in byes : Cardinality(S \ {b}) % 2 = 0
    <3>1. CASE EvenField(S)
      <4>1. S \ {NoTeam} = S
        BY <1>1
      <4>. QED
        BY <3>1, <4>1 DEF EvenField
    <3>2. CASE ~ EvenField(S)
      <4>1. PICK b \in S : TRUE
        BY <3>2, FS_EmptySet DEF EvenField
      <4>2. Cardinality(S \ {b}) = Cardinality(S) - 1
        BY <1>1, FS_RemoveElement
      <4>3. Cardinality(S \ {b}) % 2 = 0
        BY <1>1, <3>2, <4>2 DEF EvenField
      <4>. QED
        BY <3>2, <4>3
    <3>. QED
      BY <3>1, <3>2
  <2>2. PICK b \in byes : Matchings[S \ {b}] # {}
    BY <1>1, <2>1, MatchingExists
  <2>3. PICK m \in Matchings[S \ {b}] : TRUE
    BY <2>2
  <2>4. Plan(b, m) \in {Plan(b, f) : f \in Matchings[S \ {b}]}
    BY <2>3
  <2>5. {Plan(b, f) : f \in Matchings[S \ {b}]} \subseteq plans
    BY Zenon
  <2>. QED
    BY <2>4, <2>5
<1>5. c \in [plans -> [1..4 -> Nat]]
  BY <1>3
<1>6. Lightest(c) # {} /\ Lightest(c) \subseteq plans
  <2>1. DOMAIN c = plans
    OBVIOUS
  <2>. HIDE DEF c, plans
  <2>. QED
    BY <1>4, <1>5, <2>1, LightestExists, LightestOf
<1>. QED
  <2>. HIDE DEF c, plans
  <2>. QED
    BY <1>2, <1>3, <1>6

LEMMA PairIsSound ==
  ASSUME NEW d, NEW S, DrawFor(d, S), NoTeam \notin d.byes, NEW allow \in BOOLEAN, NEW plan \in Pair(d, S, allow)
  PROVE  /\ Cardinality(S) >= 2
         /\ PlanFor(d, S, plan)
         /\ Repeats(d, plan) => NoFreshRound(d, S)
         /\ \A t \in S \ d.byes :
              plan.bye \in S \ d.byes /\ Ahead(d.rows, d.seeds, plan.bye, t)
                => \A m \in Matchings[S \ {t}] : m \cap d.met # {}
<1>1. Cardinality(S) \in Nat /\ NoTeam \notin S
  BY TeamsFinite DEF DrawFor
<1>2. Cardinality(S) >= 2
  BY <1>1 DEF Pair
<1>3. CASE plan \in Strict(d, S)
  BY <1>1, <1>2, <1>3, StrictIs
<1>4. CASE Strict(d, S) = {} /\ plan \in Relaxed(d, S)
  <2>1. PlanFor(d, S, plan) /\ NoFreshRound(d, S)
    BY <1>2, <1>4, StrictIs, RelaxedIs
  <2>2. ASSUME NEW t \in S \ d.byes, plan.bye \in S
        PROVE  \A m \in Matchings[S \ {t}] : m \cap d.met # {}
    <3>1. ~ EvenField(S)
      BY <1>1, <2>1, <2>2 DEF PlanFor
    <3>. QED
      BY <2>1, <2>2, <3>1 DEF NoFreshRound
  <2>. QED
    BY <1>2, <2>1, <2>2
<1>. QED
  BY <1>2, <1>3, <1>4 DEF Pair

LEMMA PairExists ==
  ASSUME NEW d, NEW S, DrawFor(d, S), NoTeam \notin d.byes, Cardinality(S) >= 2
  PROVE  Pair(d, S, TRUE) # {}
<1>1. Cardinality(S) \in Nat
  BY TeamsFinite DEF DrawFor
<1>. QED
  BY <1>1, RelaxedIs DEF Pair

-----------------------------------------------------------------------------
(* The matches of a round: a bye is decided from the beginning, whoever did  *)
(* not play has no result, and a win without a game has a winner.            *)
MatchOK(p, m) ==
  \/ \E t \in Teams : p = {t} /\ m = FreeWin(t)
  \/ /\ Cardinality(p) = 2 /\ m.kind # "BYE"
     /\ m.winner \in p \cup {NoTeam} /\ m.loser \in p \cup {NoTeam}
     /\ m.winner # NoTeam => m.winner # m.loser
     /\ m.kind = "WALKOVER" => m.winner \in p
     /\ m.kind = "DOUBLE_FORFEIT" => m.winner = NoTeam
     /\ m.done \/ m = Unplayed

SlateOK(x) ==
  /\ x \in Slates
  /\ \A p \in DOMAIN x : MatchOK(p, x[p])
  /\ \A p, o \in DOMAIN x : p \cap o # {} => p = o
  /\ \A p, o \in DOMAIN x : Cardinality(p) = 1 /\ Cardinality(o) = 1 => p = o
  /\ \E p \in DOMAIN x : Cardinality(p) = 2

History == {rs \in Seq(Rounds) : \A n \in 1..Len(rs) : SlateOK(rs[n].match)}

LEMMA SingleIs ==
  ASSUME NEW t PROVE Cardinality({t}) = 1 /\ Cardinality({t}) # 2
<1>1. Cardinality({t}) = 1
  BY FS_Singleton
<1>. QED
  BY <1>1

LEMMA WinnersOf ==
  ASSUME NEW rs \in History
  PROVE  /\ NoTeam \notin ByeWinners(rs)
         /\ \A t \in Teams : t \in FreeWins(rs) => t \in ByeWinners(rs)
         /\ ByeWinners(rs) \subseteq FreeWins(rs)
<1>1. rs \in Seq(Rounds) /\ \A n \in 1..Len(rs) : SlateOK(rs[n].match)
  BY DEF History
<1>2. ASSUME NEW q \in Matches(rs)
      PROVE  /\ At(rs, q) \in Results /\ q[2] \in SUBSET Teams
             /\ MatchOK(q[2], At(rs, q))
  BY <1>1, MatchesOf DEF SlateOK, At
<1>3. NoTeam \notin Teams
  BY TeamsFinite
<1>4. ASSUME NEW q \in Matches(rs), At(rs, q).done, At(rs, q).kind \in {"BYE", "WALKOVER"}
      PROVE  At(rs, q).winner \in Teams
  BY <1>2, <1>3, <1>4 DEF MatchOK, FreeWin, Unplayed
<1>5. ASSUME NEW q \in Matches(rs), At(rs, q).kind # "PLAYED", At(rs, q).winner \in Teams
      PROVE  At(rs, q).done /\ At(rs, q).kind \in {"BYE", "WALKOVER"}
  <2>1. At(rs, q).kind \in Kinds
    BY <1>2 DEF Results
  <2>2. At(rs, q).winner # NoTeam
    BY <1>3, <1>5
  <2>. QED
    BY <1>2, <1>5, <2>1, <2>2 DEF MatchOK, FreeWin, Unplayed, Kinds
<1>6. NoTeam \notin ByeWinners(rs)
  BY <1>3, <1>4 DEF ByeWinners
<1>7. ASSUME NEW t \in Teams, t \in FreeWins(rs) PROVE t \in ByeWinners(rs)
  <2>1. PICK q \in Matches(rs) : At(rs, q).kind # "PLAYED" /\ At(rs, q).winner = t
    BY <1>7 DEF FreeWins
  <2>2. At(rs, q).done /\ At(rs, q).kind \in {"BYE", "WALKOVER"}
    BY <1>5, <2>1
  <2>. QED
    BY <2>1, <2>2 DEF ByeWinners
<1>8. ByeWinners(rs) \subseteq FreeWins(rs)
  <2>. SUFFICES ASSUME NEW q \in Matches(rs), At(rs, q).done, At(rs, q).kind \in {"BYE", "WALKOVER"}
                PROVE  At(rs, q).winner \in FreeWins(rs)
    BY DEF ByeWinners
  <2>1. At(rs, q).kind # "PLAYED"
    OBVIOUS
  <2>. QED
    BY <2>1 DEF FreeWins
<1>. QED
  BY <1>6, <1>7, <1>8

(* What a draw depends on.                                                   *)
Bases == [entered : SUBSET Teams, withdrawn : SUBSET Teams, seed : [Teams -> Nat], rounds : Seq(Rounds)]

LEMMA DrawOfIs ==
  ASSUME NEW b \in Bases, b.rounds \in History, NEW limit \in Nat
  PROVE  /\ DrawFor(DrawOf(limit, b), b.entered \ b.withdrawn)
         /\ NoTeam \notin DrawOf(limit, b).byes
         /\ DrawOf(limit, b).rows = Standings(limit, b.rounds, b.withdrawn, b.entered)
         /\ DrawOf(limit, b).rows \in [b.entered -> Rows]
         /\ DrawOf(limit, b).seeds = b.seed
         /\ DrawOf(limit, b).met = Met(b.rounds)
         /\ DrawOf(limit, b).byes = ByeWinners(b.rounds)
<1>1. /\ DrawOf(limit, b).rows = Standings(limit, b.rounds, b.withdrawn, b.entered)
      /\ DrawOf(limit, b).seeds = b.seed
      /\ DrawOf(limit, b).met = Met(b.rounds)
      /\ DrawOf(limit, b).byes = ByeWinners(b.rounds)
  BY DEF DrawOf
<1>2. b.entered \in SUBSET Teams /\ b.seed \in [Teams -> Nat] /\ b.rounds \in Seq(Rounds)
  BY DEF Bases
<1>3. DrawOf(limit, b).rows \in [b.entered -> Rows]
  <2>1. Standings(limit, b.rounds, b.withdrawn, b.entered) \in [b.entered -> Rows]
    BY <1>2, StandingsIs
  <2>. QED
    BY <1>1, <2>1
<1>. QED
  BY <1>1, <1>2, <1>3, WinnersOf DEF DrawFor

(* The round made of a plan for the teams S.                                 *)
LEMMA ListedIs ==
  ASSUME NEW d, NEW S \in SUBSET Teams, NEW plan, PlanFor(d, S, plan), Cardinality(S) >= 2
  PROVE  /\ SlateOK(Listed(plan))
         /\ UNION DOMAIN Listed(plan) = S
         /\ \E p \in DOMAIN Listed(plan) : ~ Listed(plan)[p].done
         /\ {p \in DOMAIN Listed(plan) : Cardinality(p) = 2} = plan.pairs
         /\ UNION {p \in DOMAIN Listed(plan) : Cardinality(p) = 1} = {plan.bye} \ {NoTeam}
<1> DEFINE K == plan.pairs \cup ({{plan.bye}} \ {{NoTeam}})
           U == S \ {plan.bye}
<1>1. IsFiniteSet(S) /\ Cardinality(S) \in Nat /\ NoTeam \notin S /\ NoTeam \notin Teams
  BY TeamsFinite
<1>2. /\ \A p \in plan.pairs : p \in SUBSET U /\ Cardinality(p) = 2
      /\ \A p, o \in plan.pairs : p \cap o # {} => p = o
      /\ UNION plan.pairs = U
  BY MatchingIs DEF PlanFor
<1>3. plan.bye = NoTeam \/ plan.bye \in S
  BY DEF PlanFor
<1>4. DOMAIN Listed(plan) = K
  BY DEF Listed
<1>5. \A p \in K : Listed(plan)[p] = IF p = {plan.bye} THEN FreeWin(plan.bye) ELSE Unplayed
  BY DEF Listed
<1>6. K \in SUBSET SUBSET Teams
  BY <1>2, <1>3
<1>7. Listed(plan) \in Slates
  <2>1. ASSUME NEW p \in K PROVE Listed(plan)[p] \in Results
    <3>1. Unplayed \in Results
      BY DEF Unplayed, Results, Kinds
    <3>2. p = {plan.bye} => FreeWin(plan.bye) \in Results
      BY <1>3 DEF FreeWin, Results, Kinds
    <3>. QED
      BY <1>5, <3>1, <3>2
  <2>2. Listed(plan) = [p \in K |-> IF p = {plan.bye} THEN FreeWin(plan.bye) ELSE Unplayed]
    BY DEF Listed
  <2>3. Listed(plan) \in [K -> Results]
    BY <1>5, <2>1, <2>2
  <2>. HIDE DEF K
  <2>. QED
    BY <1>6, <2>3 DEF Slates
<1>8. \A p \in K : p \in plan.pairs \/ (p = {plan.bye} /\ plan.bye \in S /\ Cardinality(p) = 1)
  BY <1>3, SingleIs
<1>9. \A p \in K : /\ Cardinality(p) = 2 <=> p \in plan.pairs
                   /\ Cardinality(p) = 1 <=> p \notin plan.pairs
                   /\ p \in plan.pairs => plan.bye \notin p
                   /\ p \notin plan.pairs => p = {plan.bye}
  <2>1. \A p \in plan.pairs : Cardinality(p) = 2 /\ Cardinality(p) # 1 /\ plan.bye \notin p
    BY <1>2
  <2>2. \A p \in K : p \notin plan.pairs => p = {plan.bye} /\ Cardinality(p) = 1 /\ Cardinality(p) # 2
    BY <1>8
  <2>. HIDE DEF K
  <2>. QED
    BY <2>1, <2>2
<1>10. ASSUME NEW p \in K PROVE MatchOK(p, Listed(plan)[p])
  <2>1. CASE p \in plan.pairs
    <3>1. p # {plan.bye} /\ Cardinality(p) = 2
      BY <1>2, <2>1, SingleIs
    <3>2. Listed(plan)[p] = Unplayed
      BY <1>5, <3>1
    <3>. QED
      BY <3>1, <3>2 DEF MatchOK, Unplayed
  <2>2. CASE p = {plan.bye} /\ plan.bye \in S
    BY <1>5, <2>2 DEF MatchOK
  <2>. QED
    BY <1>8, <2>1, <2>2
<1>11. \A p, o \in K : p \cap o # {} => p = o
  <2>. SUFFICES ASSUME NEW p \in K, NEW o \in K, NEW t \in p \cap o PROVE p = o
    OBVIOUS
  <2>. HIDE DEF K
  <2>1. CASE p \in plan.pairs /\ o \in plan.pairs
    BY <1>2, <2>1
  <2>2. CASE p \notin plan.pairs /\ o \notin plan.pairs
    BY <1>9, <2>2
  <2>3. CASE p \in plan.pairs /\ o \notin plan.pairs
    <3>1. t = plan.bye /\ plan.bye \notin p
      BY <1>9, <2>3
    <3>. QED
      BY <3>1
  <2>4. CASE p \notin plan.pairs /\ o \in plan.pairs
    <3>1. t = plan.bye /\ plan.bye \notin o
      BY <1>9, <2>4
    <3>. QED
      BY <3>1
  <2>. QED
    BY <2>1, <2>2, <2>3, <2>4
<1>12. \A p, o \in K : Cardinality(p) = 1 /\ Cardinality(o) = 1 => p = o
  <2>. HIDE DEF K
  <2>. TAKE p, o \in K
  <2>1. Cardinality(p) = 1 => p = {plan.bye}
    BY <1>9
  <2>2. Cardinality(o) = 1 => o = {plan.bye}
    BY <1>9
  <2>. QED
    BY <2>1, <2>2
<1>13. PICK p \in plan.pairs : TRUE
  <2>1. U # {}
    <3>1. Cardinality(U) = IF plan.bye \in S THEN Cardinality(S) - 1 ELSE Cardinality(S)
      BY <1>1, FS_RemoveElement
    <3>2. Cardinality(U) # 0
      BY <1>1, <3>1
    <3>. QED
      BY <3>2, FS_EmptySet
  <2>. QED
    BY <1>2, <2>1
<1>14. p \in K /\ Cardinality(p) = 2 /\ ~ Listed(plan)[p].done
  <2>1. p # {plan.bye}
    BY <1>2
  <2>. QED
    BY <1>2, <1>5, <1>13, <2>1 DEF Unplayed
<1>15. UNION K = S
  <2>1. CASE plan.bye = NoTeam
    <3>1. K = plan.pairs /\ U = S
      BY <1>1, <2>1
    <3>. QED
      BY <1>2, <3>1
  <2>2. CASE plan.bye \in S
    <3>1. K = plan.pairs \cup {{plan.bye}}
      BY <1>1, <2>2
    <3>2. UNION K = (UNION plan.pairs) \cup {plan.bye}
      BY <3>1
    <3>. QED
      BY <1>2, <2>2, <3>2
  <2>. QED
    BY <1>3, <2>1, <2>2
<1>16. UNION {o \in K : Cardinality(o) = 1} = {plan.bye} \ {NoTeam}
  <2>1. CASE plan.bye = NoTeam
    <3>1. \A o \in K : Cardinality(o) # 1
      BY <1>8, <1>9, <2>1, <1>1
    <3>2. {o \in K : Cardinality(o) = 1} = {}
      BY <3>1
    <3>. QED
      BY <2>1, <3>2
  <2>2. CASE plan.bye \in S
    <3>1. \A o \in K : Cardinality(o) = 1 <=> o = {plan.bye}
      <4>. HIDE DEF K
      <4>. TAKE o \in K
      <4>1. Cardinality(o) = 1 => o = {plan.bye}
        BY <1>9
      <4>2. o = {plan.bye} => Cardinality(o) = 1
        BY SingleIs
      <4>. QED
        BY <4>1, <4>2
    <3>2. {plan.bye} \in K
      BY <1>1, <2>2
    <3>3. {o \in K : Cardinality(o) = 1} = {{plan.bye}}
      <4>. HIDE DEF K
      <4>. QED
        BY <3>1, <3>2
    <3>. QED
      BY <1>1, <2>2, <3>3
  <2>. QED
    BY <1>3, <2>1, <2>2
<1>17. {o \in K : Cardinality(o) = 2} = plan.pairs
  <2>1. plan.pairs \subseteq K
    OBVIOUS
  <2>. HIDE DEF K
  <2>. QED
    BY <1>9, <2>1
<1>. QED
  <2>. HIDE DEF K
  <2>. QED
    BY <1>4, <1>7, <1>10, <1>11, <1>12, <1>14, <1>15, <1>16, <1>17 DEF SlateOK

-----------------------------------------------------------------------------
(* What RoundsConsistent says of a round, from its teams, its table and the  *)
(* rounds before it.                                                         *)
NoneFresh(past, F) == \A m \in Matchings[F] : m \cap Met(past) # {}

SoundRound(limit, seeds, past, K, table, later) ==
  LET field == UNION K
      byes == UNION {p \in K : Cardinality(p) = 1}
  IN /\ byes \cap FreeWins(past) # {} \/ {p \in K : Cardinality(p) = 2} \cap Met(past) # {}
          => \A b \in IF EvenField(field) THEN {NoTeam} ELSE field \ FreeWins(past) : NoneFresh(past, field \ {b})
     /\ later => \A b \in byes, t \in field :
          b \notin FreeWins(past) /\ t \notin FreeWins(past) /\ Ahead(table, seeds, b, t)
            => NoneFresh(past, field \ {t})
     /\ table = Standings(limit, past, GoneIn(table), DOMAIN table)

SoundIn(limit, seeds, rs) ==
  \A n \in 1..Len(rs) :
    SoundRound(limit, seeds, SubSeq(rs, 1, n - 1), DOMAIN rs[n].match, rs[n].table, n > 1)

LEMMA PrefixSame ==
  ASSUME NEW R, NEW r \in Seq(R), NEW s \in Seq(R), NEW k \in Nat, k <= Len(r), k <= Len(s),
         \A i \in 1..k : r[i] = s[i]
  PROVE  SubSeq(r, 1, k) = SubSeq(s, 1, k)
<1>1. \A i \in 1..k : r[i] \in R /\ s[i] \in R
  BY ElementOfSeq, LenProperties
<1>2. /\ SubSeq(r, 1, k) \in Seq(R) /\ SubSeq(s, 1, k) \in Seq(R)
      /\ Len(SubSeq(r, 1, k)) = k /\ Len(SubSeq(s, 1, k)) = k
      /\ \A i \in 1..k : SubSeq(r, 1, k)[i] = r[i] /\ SubSeq(s, 1, k)[i] = s[i]
  BY <1>1, SubSeqProperties
<1>. QED
  BY <1>2, SeqEqual

LEMMA HistoryIs ==
  ASSUME NEW rs \in History
  PROVE  /\ rs \in Seq(Rounds) /\ Len(rs) \in Nat /\ DOMAIN rs = 1..Len(rs)
         /\ \A n \in 1..Len(rs) : /\ rs[n] \in Rounds /\ SlateOK(rs[n].match) /\ rs[n].table \in Tables
                                  /\ rs[n] = [match |-> rs[n].match, table |-> rs[n].table]
<1>1. rs \in Seq(Rounds) /\ \A n \in 1..Len(rs) : SlateOK(rs[n].match)
  BY DEF History
<1>2. Len(rs) \in Nat /\ DOMAIN rs = 1..Len(rs) /\ \A n \in 1..Len(rs) : rs[n] \in Rounds
  BY <1>1, LenProperties
<1>. QED
  BY <1>1, <1>2 DEF Rounds

(* Results that change in the last round only leave all rounds sound.        *)
LEMMA SoundInPlace ==
  ASSUME NEW limit, NEW seeds, NEW rs \in History, NEW new \in History,
         SoundIn(limit, seeds, rs), Len(new) = Len(rs),
         \A n \in 1..Len(rs) : /\ DOMAIN new[n].match = DOMAIN rs[n].match
                               /\ new[n].table = rs[n].table
                               /\ n < Len(rs) => new[n] = rs[n]
  PROVE  SoundIn(limit, seeds, new)
<1>1. ASSUME NEW n \in 1..Len(rs) PROVE SubSeq(new, 1, n - 1) = SubSeq(rs, 1, n - 1)
  <2>1. n - 1 \in Nat /\ n - 1 <= Len(rs) /\ n - 1 <= Len(new) /\ \A i \in 1..(n - 1) : i \in 1..Len(rs) /\ i < Len(rs)
    BY HistoryIs
  <2>2. \A i \in 1..(n - 1) : new[i] = rs[i]
    BY <2>1
  <2>. QED
    BY <2>1, <2>2, HistoryIs, PrefixSame
<1>. QED
  BY <1>1 DEF SoundIn

LEMMA SoundAppend ==
  ASSUME NEW limit, NEW seeds, NEW rs \in History, NEW round \in Rounds,
         SoundIn(limit, seeds, rs), SlateOK(round.match),
         SoundRound(limit, seeds, rs, DOMAIN round.match, round.table, rs # <<>>)
  PROVE  /\ SoundIn(limit, seeds, Append(rs, round)) /\ Append(rs, round) \in History
         /\ Len(Append(rs, round)) = Len(rs) + 1
         /\ Append(rs, round)[Len(rs) + 1] = round
         /\ \A n \in 1..Len(rs) : Append(rs, round)[n] = rs[n]
<1> DEFINE new == Append(rs, round)
<1>1. rs \in Seq(Rounds) /\ Len(rs) \in Nat /\ \A n \in 1..Len(rs) : SlateOK(rs[n].match)
  BY HistoryIs
<1>2. /\ new \in Seq(Rounds) /\ Len(new) = Len(rs) + 1
      /\ \A n \in 1..Len(rs) : new[n] = rs[n]
      /\ new[Len(rs) + 1] = round
  BY <1>1, AppendProperties
<1>3. \A n \in 1..Len(new) : n \in 1..Len(rs) \/ n = Len(rs) + 1
  BY <1>1, <1>2
<1>. HIDE DEF new
<1>4. new \in History
  BY <1>1, <1>2, <1>3 DEF History
<1>5. ASSUME NEW n \in 1..Len(rs)
      PROVE  SoundRound(limit, seeds, SubSeq(new, 1, n - 1), DOMAIN new[n].match, new[n].table, n > 1)
  <2>1. n - 1 \in Nat /\ n - 1 <= Len(rs) /\ n - 1 <= Len(new) /\ \A i \in 1..(n - 1) : i \in 1..Len(rs)
    BY <1>1, <1>2
  <2>2. SubSeq(new, 1, n - 1) = SubSeq(rs, 1, n - 1)
    BY <1>1, <1>2, <2>1, PrefixSame
  <2>. QED
    BY <1>2, <2>2 DEF SoundIn
<1>6. SoundRound(limit, seeds, SubSeq(new, 1, Len(rs)), DOMAIN new[Len(rs) + 1].match, new[Len(rs) + 1].table, Len(rs) + 1 > 1)
  <2>1. SubSeq(new, 1, Len(rs)) = SubSeq(rs, 1, Len(rs))
    <3>1. Len(rs) <= Len(rs) /\ Len(rs) <= Len(new)
      BY <1>1, <1>2
    <3>. QED
      BY <1>1, <1>2, <3>1, PrefixSame
  <2>2. SubSeq(rs, 1, Len(rs)) = rs
    BY <1>1, SubSeqFull
  <2>3. (Len(rs) + 1 > 1) <=> rs # <<>>
    BY <1>1, EmptySeq
  <2>. QED
    BY <1>2, <2>1, <2>2, <2>3 DEF SoundRound
<1>7. SoundIn(limit, seeds, new)
  <2>1. (Len(rs) + 1) - 1 = Len(rs)
    BY <1>1
  <2>. QED
    BY <1>3, <1>5, <1>6, <2>1 DEF SoundIn
<1>. QED
  BY <1>2, <1>4, <1>7 DEF new

(* A round from a plan of the pairing is sound.                              *)
LEMMA SoundNew ==
  ASSUME NEW b \in Bases, b.rounds \in History, b.withdrawn \subseteq b.entered, NEW limit \in Nat,
         NEW allow \in BOOLEAN, NEW plan \in PlansOf(limit, b, allow), NEW later
  PROVE  LET round == RoundOf(DrawOf(limit, b), plan)
         IN /\ round \in Rounds /\ SlateOK(round.match) /\ ~ Complete(round)
            /\ UNION DOMAIN round.match = b.entered \ b.withdrawn
            /\ PairsShown(round, plan)
            /\ SoundRound(limit, b.seed, b.rounds, DOMAIN round.match, round.table, later)
<1> DEFINE d == DrawOf(limit, b)
           S == b.entered \ b.withdrawn
           round == RoundOf(d, plan)
           K == DOMAIN round.match
<1>1. /\ DrawFor(d, S) /\ NoTeam \notin d.byes
      /\ d.rows = Standings(limit, b.rounds, b.withdrawn, b.entered)
      /\ d.rows \in [b.entered -> Rows]
      /\ d.seeds = b.seed /\ d.met = Met(b.rounds) /\ d.byes = ByeWinners(b.rounds)
  BY DrawOfIs
<1>2. plan \in Pair(d, S, allow)
  BY DEF PlansOf
<1>3. round.match = Listed(plan) /\ round.table = d.rows
  BY DEF RoundOf
<1>4. round = [match |-> round.match, table |-> round.table]
  BY DEF RoundOf
<1>5. b.entered \in SUBSET Teams /\ S \in SUBSET Teams
  BY DEF Bases
<1>. HIDE DEF d, round, K
<1>6. /\ Cardinality(S) >= 2
      /\ PlanFor(d, S, plan)
      /\ Repeats(d, plan) => NoFreshRound(d, S)
      /\ \A t \in S \ d.byes :
           plan.bye \in S \ d.byes /\ Ahead(d.rows, d.seeds, plan.bye, t)
             => \A m \in Matchings[S \ {t}] : m \cap d.met # {}
  <2>. HIDE DEF S
  <2>. QED
    BY <1>1, <1>2, PairIsSound
<1>7. /\ SlateOK(round.match)
      /\ UNION K = S
      /\ \E p \in K : ~ round.match[p].done
      /\ {p \in K : Cardinality(p) = 2} = plan.pairs
      /\ UNION {p \in K : Cardinality(p) = 1} = {plan.bye} \ {NoTeam}
  <2>. HIDE DEF S
  <2>. QED
    BY <1>3, <1>5, <1>6, ListedIs DEF K
<1>8. round \in Rounds
  <2>1. d.rows \in Tables
    BY <1>1, <1>5 DEF Tables
  <2>2. round.match \in Slates
    BY <1>7 DEF SlateOK
  <2>. QED
    BY <1>3, <1>4, <2>1, <2>2 DEF Rounds
<1>9. ~ Complete(round)
  BY <1>7 DEF Complete, K
<1>10. PairsShown(round, plan)
  BY <1>7 DEF PairsShown, PairsOf, ByesOf, K
<1>11. \A t \in S : t \in FreeWins(b.rounds) <=> t \in d.byes
  BY <1>1, <1>5, WinnersOf
<1>12. \A F : NoneFresh(b.rounds, F) <=> \A m \in Matchings[F] : m \cap d.met # {}
  BY <1>1 DEF NoneFresh
<1>13. plan.bye \in S \/ plan.bye = NoTeam
  BY <1>6 DEF PlanFor
<1>14. NoTeam \notin S
  BY <1>5, TeamsFinite
<1>. HIDE DEF S
<1>15. ASSUME \/ (UNION {p \in K : Cardinality(p) = 1}) \cap FreeWins(b.rounds) # {}
              \/ {p \in K : Cardinality(p) = 2} \cap Met(b.rounds) # {}
       PROVE  \A t \in IF EvenField(S) THEN {NoTeam} ELSE S \ FreeWins(b.rounds) : NoneFresh(b.rounds, S \ {t})
  <2>1. Repeats(d, plan)
    <3>1. ASSUME NEW t \in (UNION {p \in K : Cardinality(p) = 1}) \cap FreeWins(b.rounds)
          PROVE  plan.bye \in d.byes
      BY <1>7, <1>11, <1>13
    <3>. QED
      BY <1>1, <1>7, <1>15, <3>1 DEF Repeats
  <2>2. NoFreshRound(d, S)
    BY <1>6, <2>1
  <2>. QED
    BY <1>11, <1>12, <2>2 DEF NoFreshRound
<1>16. ASSUME NEW u \in UNION {p \in K : Cardinality(p) = 1}, NEW t \in S,
              u \notin FreeWins(b.rounds), t \notin FreeWins(b.rounds), Ahead(round.table, b.seed, u, t)
       PROVE  NoneFresh(b.rounds, S \ {t})
  <2>1. u = plan.bye /\ plan.bye \in S
    BY <1>7, <1>13
  <2>2. plan.bye \in S \ d.byes /\ t \in S \ d.byes
    BY <1>11, <1>16, <2>1
  <2>3. Ahead(d.rows, d.seeds, plan.bye, t)
    BY <1>1, <1>3, <1>16, <2>1
  <2>. QED
    BY <1>6, <1>12, <2>2, <2>3
<1>17. round.table = Standings(limit, b.rounds, GoneIn(round.table), DOMAIN round.table)
  <2>1. DOMAIN round.table = b.entered
    BY <1>1, <1>3
  <2>2. \A t \in b.entered : round.table[t].withdrawn = (t \in b.withdrawn)
    BY <1>1, <1>3 DEF Standings, RowOf
  <2>3. GoneIn(round.table) = b.withdrawn
    BY <2>1, <2>2 DEF GoneIn
  <2>. QED
    BY <1>1, <1>3, <2>1, <2>3
<1>18. SoundRound(limit, b.seed, b.rounds, K, round.table, later)
  BY <1>7, <1>15, <1>16, <1>17 DEF SoundRound
<1>. QED
  BY <1>7, <1>8, <1>9, <1>10, <1>18 DEF S, K, d, round

-----------------------------------------------------------------------------
(* The inductive invariant.                                                  *)
SwissTypes ==
  /\ rules \in Rules
  /\ status \in {"REGISTRATION_OPEN", "IN_PROGRESS", "RESULTS_REVIEW", "FINISHED", "CANCELLED"}
  /\ withdrawn \subseteq entered /\ entered \subseteq Teams
  /\ seed \in [Teams -> Nat]
  /\ rounds \in History /\ Len(rounds) <= SwissRounds
  /\ \A n \in 1..Len(rounds) : UNION DOMAIN rounds[n].match \subseteq entered
  /\ status = "REGISTRATION_OPEN" => rounds = <<>>
  /\ Running => rounds # <<>>

OpenTeams ==
  Running => \A n \in 1..Len(rounds) : \A p \in DOMAIN rounds[n].match :
               ~ rounds[n].match[p].done => p \subseteq Active

GameDecided(rs) == \E n \in 1..Len(rs) : \E p \in DOMAIN rs[n].match :
                rs[n].match[p].done /\ rs[n].match[p].kind # "BYE"

(* A preview that is held shows a plan for what was there; since then rounds *)
(* and their tables only came to it, for a game has been decided and the     *)
(* tournament is not reset any more.                                         *)
TokenOK ==
  \/ token = NoToken
  \/ /\ token.held = TRUE /\ token.allow \in BOOLEAN /\ token.basis \in Bases
     /\ token.plan \in PlansOf(SwissRounds, token.basis, token.allow)
     /\ Running /\ GameDecided(rounds)
     /\ Len(token.basis.rounds) <= Len(rounds)
     /\ \A n \in 1..Len(token.basis.rounds) :
          token.basis.rounds[n] = [match |-> token.basis.rounds[n].match, table |-> rounds[n].table]

SwissInv == SwissTypes /\ SoundIn(SwissRounds, seed, rounds) /\ ReviewExact /\ OpenTeams /\ TokenOK

LEMMA RulesAre == ASSUME rules \in Rules PROVE SwissRounds \in Nat \ {0} /\ SwissRounds \in Nat
<1>1. rules \in (Nat \ {0}) \X BOOLEAN
  BY BoundAssumption
<1>. QED
  BY <1>1 DEF SwissRounds

LEMMA InitSwiss == ASSUME Init PROVE SwissInv
<1>1. <<>> \in History /\ Len(<<>>) = 0
  <2>1. <<>> \in Seq(Rounds) /\ Len(<<>>) = 0
    BY EmptySeq
  <2>. QED
    BY <2>1 DEF History
<1>2. SwissRounds \in Nat
  BY RulesAre DEF Init
<1>3. SwissTypes
  BY <1>1, <1>2 DEF Init, SwissTypes, Running
<1>4. SoundIn(SwissRounds, seed, rounds)
  BY <1>1 DEF Init, SoundIn
<1>5. ReviewExact /\ OpenTeams /\ TokenOK
  BY DEF Init, ReviewExact, OpenTeams, TokenOK, Running
<1>. QED
  BY <1>3, <1>4, <1>5 DEF SwissInv

(* The rounds stay.                                                          *)
LEMMA SoundStays ==
  ASSUME SwissInv, rounds' = rounds, rules' = rules, seed' = seed \/ rounds = <<>>
  PROVE  SoundIn(SwissRounds, seed, rounds)'
<1>1. SwissRounds' = SwissRounds /\ SoundIn(SwissRounds, seed, rounds)
  BY DEF SwissRounds, SwissInv
<1>2. CASE seed' = seed
  BY <1>1, <1>2
<1>3. CASE rounds = <<>>
  <2>1. Len(rounds') = 0
    BY <1>3, EmptySeq
  <2>. QED
    BY <2>1 DEF SoundIn
<1>. QED
  BY <1>2, <1>3

LEMMA RegistrationKeeps ==
  ASSUME SwissInv, NEW t \in Teams, Register(t) \/ Unregister(t)
  PROVE  SwissInv'
<1>1. /\ rounds = <<>> /\ rounds' = rounds /\ rules' = rules /\ status' = status /\ token' = token
      /\ entered' \subseteq Teams /\ withdrawn' \subseteq entered' /\ seed' \in [Teams -> Nat]
  BY DEF SwissInv, SwissTypes, Register, Unregister, Generated
<1>2. ~ Running /\ token = NoToken
  <2>1. ~ Running
    BY <1>1 DEF SwissInv, SwissTypes
  <2>. QED
    BY <2>1 DEF SwissInv, TokenOK
<1>3. SoundIn(SwissRounds, seed, rounds)'
  BY <1>1, SoundStays
<1>4. Len(rounds) = 0 /\ SwissRounds' = SwissRounds /\ (Running' <=> Running)
  BY <1>1, EmptySeq DEF SwissRounds, Running
<1>5. SwissTypes'
  BY <1>1, <1>2, <1>4 DEF SwissInv, SwissTypes
<1>6. (ReviewExact /\ OpenTeams /\ TokenOK)'
  <2>1. ReviewOf(rounds)' = ReviewOf(rounds)
    BY <1>1 DEF ReviewOf, SwissRounds
  <2>2. ReviewExact'
    BY <1>1, <1>2, <1>4, <2>1 DEF SwissInv, ReviewExact
  <2>. QED
    BY <1>1, <1>2, <1>4, <2>2 DEF OpenTeams, TokenOK
<1>. QED
  BY <1>3, <1>5, <1>6 DEF SwissInv

(* Steps that change the status or the token.                                *)
LEMMA FrameKeeps ==
  ASSUME SwissInv, UNCHANGED <<rules, status, entered, withdrawn, seed, rounds>>, TokenOK'
  PROVE  SwissInv'
<1>1. SoundIn(SwissRounds, seed, rounds)'
  BY SoundStays
<1>2. SwissTypes'
  BY DEF SwissInv, SwissTypes, Running, SwissRounds
<1>3. ReviewExact'
  BY DEF SwissInv, ReviewExact, ReviewOf, Running, SwissRounds
<1>4. OpenTeams'
  BY DEF SwissInv, OpenTeams, Running, Active
<1>. QED
  BY <1>1, <1>2, <1>3, <1>4 DEF SwissInv

LEMMA DiscardKeeps == ASSUME SwissInv, Discard \/ UNCHANGED vars PROVE SwissInv'
<1>1. CASE Discard
  BY <1>1, FrameKeeps DEF Discard, TokenOK
<1>2. CASE UNCHANGED vars
  <2>1. TokenOK'
    BY <1>2 DEF vars, SwissInv, TokenOK, Running, SwissRounds
  <2>. QED
    BY <1>2, <2>1, FrameKeeps DEF vars
<1>. QED
  BY <1>1, <1>2

LEMMA EndKeeps == ASSUME SwissInv, ConfirmResults \/ CancelTournament PROVE SwissInv'
<1>1. /\ UNCHANGED <<rules, entered, withdrawn, seed, rounds>> /\ token' = NoToken
      /\ status' \in {"FINISHED", "CANCELLED"}
      /\ status' = "FINISHED" => ReviewOf(rounds) = "RESULTS_REVIEW"
  BY DEF ConfirmResults, CancelTournament
<1>2. SoundIn(SwissRounds, seed, rounds)'
  BY <1>1, SoundStays
<1>3. ~ Running'
  BY <1>1 DEF Running
<1>4. SwissTypes'
  BY <1>1, <1>3 DEF SwissInv, SwissTypes, SwissRounds
<1>5. ReviewOf(rounds)' = ReviewOf(rounds)
  BY <1>1 DEF ReviewOf, SwissRounds
<1>6. ReviewExact'
  BY <1>1, <1>3, <1>5 DEF SwissInv, ReviewExact
<1>. QED
  BY <1>1, <1>2, <1>3, <1>4, <1>6 DEF SwissInv, OpenTeams, TokenOK

LEMMA BasisIs ==
  ASSUME SwissInv
  PROVE  /\ Basis \in Bases /\ Basis.rounds \in History /\ Basis.withdrawn \subseteq Basis.entered
         /\ Basis.rounds = rounds /\ Basis.entered \ Basis.withdrawn = Active
         /\ Basis.seed = seed
         /\ SwissRounds \in Nat
<1>1. rounds \in History /\ rounds \in Seq(Rounds)
  BY DEF SwissInv, SwissTypes, History
<1>2. SwissRounds \in Nat
  BY RulesAre DEF SwissInv, SwissTypes
<1>. QED
  BY <1>1, <1>2 DEF SwissInv, SwissTypes, Basis, Bases, Active

LEMMA PreviewKeeps ==
  ASSUME SwissInv, NEW allow \in BOOLEAN, Preview(allow)
  PROVE  SwissInv'
<1>1. PICK plan \in PlansOf(SwissRounds, Basis, allow) :
        token' = [held |-> TRUE, allow |-> allow, basis |-> Basis, plan |-> plan]
  BY DEF Preview
<1>2. UNCHANGED <<rules, status, entered, withdrawn, seed, rounds>> /\ Generated /\ NextRound
  BY DEF Preview
<1>3. rounds \in History
  BY DEF SwissInv, SwissTypes
<1>4. GameDecided(rounds)
  <2>1. Len(rounds) \in 1..Len(rounds) /\ Complete(rounds[Len(rounds)])
    BY <1>2, <1>3, EmptySeq, HistoryIs DEF Generated, NextRound
  <2>2. SlateOK(rounds[Len(rounds)].match)
    BY <1>3, <2>1, HistoryIs
  <2>3. PICK p \in DOMAIN rounds[Len(rounds)].match : Cardinality(p) = 2
    BY <2>2 DEF SlateOK
  <2>4. rounds[Len(rounds)].match[p].kind # "BYE"
    BY <2>2, <2>3, SingleIs DEF SlateOK, MatchOK
  <2>. QED
    BY <2>1, <2>3, <2>4 DEF GameDecided, Complete
<1>5. Running
  BY <1>2 DEF NextRound, Running
<1>6. SwissRounds' = SwissRounds /\ Running' = Running
  BY <1>2 DEF SwissRounds, Running
<1>7. \A n \in 1..Len(rounds) : rounds[n] = [match |-> rounds[n].match, table |-> rounds[n].table]
  BY <1>3, HistoryIs
<1>8. Len(rounds) <= Len(rounds)
  BY <1>3, HistoryIs
<1>9. TokenOK'
  <2>1. /\ token'.held = TRUE /\ token'.allow = allow /\ token'.basis = Basis /\ token'.plan = plan
    BY <1>1
  <2>2. /\ token'.held = TRUE /\ token'.allow \in BOOLEAN /\ token'.basis \in Bases
        /\ token'.plan \in PlansOf(SwissRounds, token'.basis, token'.allow)
        /\ token'.basis.rounds = rounds
    BY <2>1, <1>1, BasisIs
  <2>3. GameDecided(rounds') /\ Running'
    BY <1>2, <1>4, <1>5, <1>6
  <2>. QED
    BY <1>2, <1>6, <1>7, <1>8, <2>2, <2>3 DEF TokenOK
<1>. QED
  BY <1>2, <1>9, FrameKeeps

(* The digest covers all that a plan depends on, as long as the rounds of    *)
(* the preview keep their tables.                                            *)
LEMMA DigestDecides ==
  ASSUME SwissInv, token # NoToken, Digest(Basis) = Digest(token.basis)
  PROVE  token.basis = Basis
<1> DEFINE b == token.basis
<1>1. /\ b \in Bases
      /\ Len(b.rounds) <= Len(rounds)
      /\ \A n \in 1..Len(b.rounds) : b.rounds[n] = [match |-> b.rounds[n].match, table |-> rounds[n].table]
  BY DEF SwissInv, TokenOK
<1>2. /\ Digest(b).entered = b.entered /\ Digest(b).withdrawn = b.withdrawn /\ Digest(b).seed = b.seed
      /\ Digest(b).rounds = [n \in DOMAIN b.rounds |-> b.rounds[n].match]
  <2>. HIDE DEF b
  <2>. QED
    BY <1>1 DEF Digest, Bases
<1>3. /\ Digest(Basis).entered = entered /\ Digest(Basis).withdrawn = withdrawn /\ Digest(Basis).seed = seed
      /\ Digest(Basis).rounds = [n \in DOMAIN rounds |-> rounds[n].match]
  BY DEF Digest, Basis
<1>4. b = [entered |-> b.entered, withdrawn |-> b.withdrawn, seed |-> b.seed, rounds |-> b.rounds]
  <2>. HIDE DEF b
  <2>. QED
    BY <1>1 DEF Bases
<1>5. /\ [n \in DOMAIN b.rounds |-> b.rounds[n].match] = [n \in DOMAIN rounds |-> rounds[n].match]
      /\ b.entered = entered /\ b.withdrawn = withdrawn /\ b.seed = seed
  BY <1>2, <1>3
<1>. HIDE DEF b
<1>6. rounds \in History /\ rounds \in Seq(Rounds) /\ b.rounds \in Seq(Rounds)
  BY <1>1 DEF SwissInv, SwissTypes, History, Bases
<1>7. DOMAIN b.rounds = DOMAIN rounds /\ \A n \in DOMAIN rounds : b.rounds[n].match = rounds[n].match
  BY <1>5
<1>8. /\ DOMAIN b.rounds = 1..Len(b.rounds) /\ DOMAIN rounds = 1..Len(rounds)
      /\ Len(b.rounds) \in Nat /\ Len(rounds) \in Nat
      /\ \A n \in 1..Len(rounds) : rounds[n] = [match |-> rounds[n].match, table |-> rounds[n].table]
  BY <1>6, LenProperties, HistoryIs
<1>9. Len(b.rounds) = Len(rounds)
  <2>1. ASSUME Len(b.rounds) < Len(rounds) PROVE FALSE
    <3>1. Len(rounds) \in 1..Len(rounds) /\ Len(rounds) \notin 1..Len(b.rounds)
      BY <1>8, <2>1
    <3>. QED
      BY <1>7, <1>8, <3>1
  <2>. QED
    BY <1>1, <1>8, <2>1
<1>10. \A n \in 1..Len(rounds) : b.rounds[n] = rounds[n]
  BY <1>1, <1>7, <1>8, <1>9
<1>11. b.rounds = rounds
  BY <1>6, <1>9, <1>10, SeqEqual
<1>12. b = Basis
  BY <1>4, <1>5, <1>11 DEF Basis
<1>. QED
  BY <1>12 DEF b

(* A new round comes behind the others.                                      *)
LEMMA NewRoundKeeps ==
  ASSUME SwissInv, NEW b \in Bases, b.rounds = rounds, b.entered = entered, b.withdrawn = withdrawn,
         NEW allow \in BOOLEAN, NEW plan \in PlansOf(SwissRounds, b, allow),
         rounds' = Append(rounds, RoundOf(DrawOf(SwissRounds, b), plan)),
         SoundIn(SwissRounds, b.seed, rounds), Len(rounds) < SwissRounds,
         \A n \in 1..Len(rounds) : Complete(rounds[n]),
         rules' = rules, entered' = entered, withdrawn' = withdrawn, seed' = b.seed,
         status' = "IN_PROGRESS", token' = token \/ token' = NoToken,
         token # NoToken => status' = status
  PROVE  /\ SwissInv'
         /\ Len(rounds') = Len(rounds) + 1
         /\ PairsShown(rounds'[Len(rounds')], plan)
<1> DEFINE round == RoundOf(DrawOf(SwissRounds, b), plan)
<1>1. /\ rounds \in History /\ withdrawn \subseteq entered /\ entered \subseteq Teams
      /\ Len(rounds) \in Nat /\ rules \in Rules /\ SwissRounds \in Nat
  BY BasisIs, HistoryIs DEF SwissInv, SwissTypes
<1>2. /\ round \in Rounds /\ SlateOK(round.match) /\ ~ Complete(round)
      /\ UNION DOMAIN round.match = entered \ withdrawn
      /\ PairsShown(round, plan)
      /\ SoundRound(SwissRounds, b.seed, rounds, DOMAIN round.match, round.table, rounds # <<>>)
  <2>1. b.rounds \in History /\ b.withdrawn \subseteq b.entered
    BY <1>1
  <2>. QED
    BY <1>1, <2>1, SoundNew
<1>. HIDE DEF round
<1>3. /\ SoundIn(SwissRounds, b.seed, rounds') /\ rounds' \in History
      /\ Len(rounds') = Len(rounds) + 1
      /\ rounds'[Len(rounds) + 1] = round
      /\ \A n \in 1..Len(rounds) : rounds'[n] = rounds[n]
  BY <1>1, <1>2, SoundAppend DEF round
<1>4. \A n \in 1..Len(rounds') : n \in 1..Len(rounds) \/ n = Len(rounds) + 1
  BY <1>1, <1>3
<1>5. SwissRounds' = SwissRounds /\ Running' /\ rounds' # <<>>
  <2>1. rounds' # <<>>
    BY <1>1, <1>3, EmptySeq
  <2>. QED
    BY <2>1 DEF SwissRounds, Running
<1>6. SwissTypes'
  <2>1. \A n \in 1..Len(rounds') : UNION DOMAIN rounds'[n].match \subseteq entered
    <3>. TAKE n \in 1..Len(rounds')
    <3>1. CASE n \in 1..Len(rounds)
      <4>1. UNION DOMAIN rounds[n].match \subseteq entered
        BY <3>1 DEF SwissInv, SwissTypes
      <4>. QED
        BY <1>3, <3>1, <4>1
    <3>2. CASE n = Len(rounds) + 1
      BY <1>2, <1>3, <3>2
    <3>. QED
      BY <1>4, <3>1, <3>2
  <2>2. Len(rounds') <= SwissRounds /\ seed' \in [Teams -> Nat]
    BY <1>1, <1>3 DEF Bases
  <2>. QED
    BY <1>1, <1>3, <1>5, <2>1, <2>2 DEF SwissTypes
<1>7. ReviewExact'
  <2>1. \A n \in 1..Len(rounds) : Complete(rounds'[n])
    BY <1>3
  <2>2. ~ Complete(rounds'[Len(rounds) + 1]) /\ DOMAIN rounds' = 1..Len(rounds')
    BY <1>2, <1>3, HistoryIs
  <2>3. \A n \in DOMAIN rounds' : n < Len(rounds') => Complete(rounds'[n])
    BY <1>1, <1>3, <1>4, <2>1, <2>2
  <2>4. Len(rounds) + 1 \in DOMAIN rounds'
    BY <1>1, <1>3, <2>2
  <2>5. ReviewOf(rounds)' = "IN_PROGRESS"
    BY <2>2, <2>4 DEF ReviewOf
  <2>. QED
    BY <2>3, <2>5 DEF ReviewExact
<1>8. OpenTeams'
  <2>. SUFFICES ASSUME NEW n \in 1..Len(rounds'), NEW p \in DOMAIN rounds'[n].match,
                       ~ rounds'[n].match[p].done
                PROVE  p \subseteq entered \ withdrawn
    BY DEF OpenTeams, Active
  <2>1. n = Len(rounds) + 1
    BY <1>3, <1>4 DEF Complete
  <2>. QED
    BY <1>2, <1>3, <2>1
<1>9. TokenOK'
  <2>1. CASE token' = NoToken
    BY <2>1 DEF TokenOK
  <2>2. CASE token # NoToken /\ token' = token
    <3>1. Len(token.basis.rounds) \in Nat
      BY <2>2, LenProperties DEF SwissInv, TokenOK, Bases
    <3>2. Len(token.basis.rounds) <= Len(rounds)
      BY <2>2 DEF SwissInv, TokenOK
    <3>3. Len(token.basis.rounds) <= Len(rounds') /\ \A n \in 1..Len(token.basis.rounds) : n \in 1..Len(rounds)
      BY <1>1, <1>3, <3>1, <3>2
    <3>4. GameDecided(rounds')
      <4>1. PICK n \in 1..Len(rounds) : \E p \in DOMAIN rounds[n].match :
                rounds[n].match[p].done /\ rounds[n].match[p].kind # "BYE"
        BY <2>2 DEF SwissInv, TokenOK, GameDecided
      <4>2. n \in 1..Len(rounds')
        BY <1>1, <1>3
      <4>. QED
        BY <1>3, <4>1, <4>2 DEF GameDecided
    <3>5. \A n \in 1..Len(token.basis.rounds) :
            token.basis.rounds[n] = [match |-> token.basis.rounds[n].match, table |-> rounds'[n].table]
      BY <1>3, <2>2, <3>3 DEF SwissInv, TokenOK
    <3>6. token.held = TRUE /\ token.allow \in BOOLEAN /\ token.basis \in Bases
          /\ token.plan \in PlansOf(SwissRounds, token.basis, token.allow)
      BY <2>2 DEF SwissInv, TokenOK
    <3>. QED
      BY <1>5, <2>2, <3>3, <3>4, <3>5, <3>6 DEF TokenOK
  <2>. QED
    BY <2>1, <2>2
<1>10. SoundIn(SwissRounds, seed, rounds)'
  BY <1>3, <1>5
<1>11. PairsShown(rounds'[Len(rounds')], plan)
  BY <1>2, <1>3
<1>. QED
  BY <1>3, <1>6, <1>7, <1>8, <1>9, <1>10, <1>11 DEF SwissInv

LEMMA PublishKeeps ==
  ASSUME SwissInv, NEW approve \in BOOLEAN, Publish(approve)
  PROVE  SwissInv' /\ token.basis = Basis /\ token.held /\ PairsShown(rounds'[Len(rounds')], token.plan)
<1>1. /\ token.held /\ Generated /\ NextRound /\ Digest(Basis) = Digest(token.basis)
      /\ token' = NoToken /\ UNCHANGED <<rules, status, entered, withdrawn, seed>>
  BY DEF Publish
<1>2. token # NoToken
  BY <1>1 DEF NoToken
<1>3. token.basis = Basis
  BY <1>1, <1>2, DigestDecides
<1>4. PICK plan \in {token.plan} : Published(DrawOf(SwissRounds, Basis), plan, approve)
  BY <1>3 DEF Publish
<1>5. rounds' = Append(rounds, RoundOf(DrawOf(SwissRounds, Basis), token.plan))
  BY <1>4 DEF Published
<1>6. token.plan \in PlansOf(SwissRounds, Basis, token.allow) /\ token.allow \in BOOLEAN
  BY <1>2, <1>3 DEF SwissInv, TokenOK
<1>7. \A n \in 1..Len(rounds) : Complete(rounds[n])
  <2>1. rounds \in History
    BY DEF SwissInv, SwissTypes
  <2>2. DOMAIN rounds = 1..Len(rounds) /\ Len(rounds) \in Nat
    BY <2>1, HistoryIs
  <2>. QED
    BY <1>1, <2>2 DEF NextRound, SwissInv, ReviewExact
<1>8. /\ Basis \in Bases /\ Basis.rounds = rounds /\ Basis.entered = entered /\ Basis.withdrawn = withdrawn
      /\ Basis.seed = seed
  BY BasisIs DEF Basis
<1>9. Len(rounds) < SwissRounds /\ status = "IN_PROGRESS" /\ SoundIn(SwissRounds, seed, rounds)
  BY <1>1 DEF NextRound, SwissInv
<1>10. SwissInv' /\ PairsShown(rounds'[Len(rounds')], token.plan)
  BY <1>1, <1>5, <1>6, <1>7, <1>8, <1>9, NewRoundKeeps
<1>. QED
  BY <1>1, <1>3, <1>10

LEMMA StartKeeps ==
  ASSUME SwissInv, NEW shuffle \in Shuffles, Start(shuffle)
  PROVE  SwissInv'
<1> DEFINE b == [Basis EXCEPT !.seed = SeedsOf(shuffle)]
<1>1. /\ status = "REGISTRATION_OPEN" /\ rounds = <<>> /\ token = NoToken
  BY DEF Start, SwissInv, SwissTypes, TokenOK, Running
<1>2. PICK plan \in PlansOf(SwissRounds, b, FALSE) : Published(DrawOf(SwissRounds, b), plan, FALSE)
  BY DEF Start
<1>3. seed' = b.seed /\ status' = "IN_PROGRESS" /\ UNCHANGED <<rules, entered, withdrawn, token>>
  BY DEF Start
<1>4. SeedsOf(shuffle) \in [Teams -> Nat]
  <2>1. IsFiniteSet(Active) /\ IsFiniteSet(entered) /\ Cardinality(entered) \in Nat
    BY TeamsFinite DEF SwissInv, SwissTypes, Active
  <2>2. ASSUME NEW t \in Teams PROVE 1 + Cardinality({u \in Active : Earlier(shuffle, u, t)}) \in Nat
    <3>1. {u \in Active : Earlier(shuffle, u, t)} \in SUBSET Active
      OBVIOUS
    <3>2. Cardinality({u \in Active : Earlier(shuffle, u, t)}) \in Nat
      BY <2>1, <3>1, FS_Subset, FS_CardinalityType
    <3>. QED
      BY <3>2
  <2>3. \A t \in Teams : Cardinality(entered) + t \in Nat /\ 0 \in Nat
    BY <2>1, TeamsFinite
  <2>. QED
    BY <2>2, <2>3 DEF SeedsOf
<1>5. b \in Bases /\ b.rounds = rounds /\ b.entered = entered /\ b.withdrawn = withdrawn
  BY <1>4, BasisIs DEF Basis, Bases
<1>. HIDE DEF b
<1>6. Len(rounds) = 0 /\ Len(rounds) < SwissRounds
  BY <1>1, EmptySeq, RulesAre DEF SwissInv, SwissTypes
<1>7. SoundIn(SwissRounds, b.seed, rounds) /\ \A n \in 1..Len(rounds) : Complete(rounds[n])
  BY <1>6 DEF SoundIn
<1>8. rounds' = Append(rounds, RoundOf(DrawOf(SwissRounds, b), plan))
  BY <1>2 DEF Published
<1>9. FALSE \in BOOLEAN
  OBVIOUS
<1>. QED
  BY <1>1, <1>3, <1>5, <1>6, <1>7, <1>8, <1>9, NewRoundKeeps

(* Results of the last round are entered, corrected or forfeited: nothing    *)
(* behind it changes, and what was decided by a game stays decided.          *)
LEMMA InPlaceKeeps ==
  ASSUME SwissInv, Running, NEW new \in [1..Len(rounds) -> Rounds], rounds' = new,
         \A n \in 1..Len(rounds) :
           /\ SlateOK(new[n].match)
           /\ DOMAIN new[n].match = DOMAIN rounds[n].match
           /\ new[n].table = rounds[n].table
           /\ n < Len(rounds) => new[n] = rounds[n]
           /\ \A p \in DOMAIN rounds[n].match :
                /\ rounds[n].match[p].done /\ rounds[n].match[p].kind # "BYE"
                     => new[n].match[p].done /\ new[n].match[p].kind # "BYE"
                /\ ~ new[n].match[p].done => p \subseteq entered \ withdrawn',
         UNCHANGED <<rules, entered, seed, token>>, withdrawn' \subseteq entered,
         status' = ReviewOf(new)
  PROVE  SwissInv'
<1>1. rounds \in History /\ Len(rounds) \in Nat /\ DOMAIN rounds = 1..Len(rounds) /\ rounds # <<>>
  BY HistoryIs DEF SwissInv, SwissTypes
<1>2. new \in Seq(Rounds) /\ Len(new) = Len(rounds) /\ DOMAIN new = 1..Len(rounds)
  BY <1>1
<1>3. new \in History
  BY <1>2 DEF History
<1>4. SwissRounds' = SwissRounds /\ status' \in {"IN_PROGRESS", "RESULTS_REVIEW"} /\ Running'
  BY DEF SwissRounds, ReviewOf, Running
<1>5. SoundIn(SwissRounds, seed, rounds)'
  <2>1. SoundIn(SwissRounds, seed, rounds)
    BY DEF SwissInv
  <2>2. SoundIn(SwissRounds, seed, new)
    BY <1>1, <1>2, <1>3, <2>1, SoundInPlace
  <2>. QED
    BY <1>4, <2>2
<1>6. new # <<>>
  <2>1. Len(rounds) # 0
    BY <1>1, EmptySeq DEF History
  <2>. QED
    BY <1>2, <2>1, EmptySeq
<1>7. SwissTypes'
  BY <1>2, <1>3, <1>4, <1>6 DEF SwissInv, SwissTypes
<1>8. ReviewExact'
  <2>1. \A n \in 1..Len(rounds) : n < Len(rounds) => Complete(new[n])
    BY <1>1 DEF SwissInv, ReviewExact
  <2>2. ReviewOf(rounds)' = ReviewOf(new)
    BY <1>4 DEF ReviewOf
  <2>. QED
    BY <1>2, <1>4, <2>1, <2>2 DEF ReviewExact
<1>9. OpenTeams'
  BY <1>2 DEF OpenTeams, Active
<1>10. TokenOK'
  <2>1. CASE token = NoToken
    BY <2>1 DEF TokenOK
  <2>2. CASE token # NoToken
    <3>1. /\ token.held = TRUE /\ token.allow \in BOOLEAN /\ token.basis \in Bases
          /\ token.plan \in PlansOf(SwissRounds, token.basis, token.allow)
          /\ GameDecided(rounds)
          /\ Len(token.basis.rounds) <= Len(rounds)
          /\ \A n \in 1..Len(token.basis.rounds) :
               token.basis.rounds[n] = [match |-> token.basis.rounds[n].match, table |-> rounds[n].table]
      BY <2>2 DEF SwissInv, TokenOK
    <3>2. Len(token.basis.rounds) \in Nat
      BY <3>1, LenProperties DEF Bases
    <3>3. \A n \in 1..Len(token.basis.rounds) : n \in 1..Len(rounds)
      BY <1>1, <3>1, <3>2
    <3>4. \A n \in 1..Len(token.basis.rounds) :
            token.basis.rounds[n] = [match |-> token.basis.rounds[n].match, table |-> new[n].table]
      BY <3>1, <3>3
    <3>5. GameDecided(new)
      BY <1>2, <3>1 DEF GameDecided
    <3>. QED
      BY <1>2, <1>4, <3>1, <3>4, <3>5 DEF TokenOK
  <2>. QED
    BY <2>1, <2>2
<1>. QED
  BY <1>5, <1>7, <1>8, <1>9, <1>10 DEF SwissInv

LEMMA OpponentIs ==
  ASSUME NEW p \in SUBSET Teams, Cardinality(p) = 2, NEW t \in p
  PROVE  Opponent(p, t) \in p /\ Opponent(p, t) # t /\ Opponent(p, t) # NoTeam
<1>1. \E o \in p : o # t
  BY PairIs
<1>2. Opponent(p, t) \in p /\ Opponent(p, t) # t
  BY <1>1 DEF Opponent
<1>. QED
  BY <1>2, TeamsFinite

(* A result of the last round.                                               *)
LEMMA ScoreKeeps ==
  ASSUME SwissInv, NEW q \in Matches(rounds), NEW t \in q[2] \cup {NoTeam},
         NEW kind \in {"PLAYED", "WALKOVER"}, ScoreMatch(q, t, kind)
  PROVE  SwissInv'
<1> DEFINE L == Len(rounds)
           p == q[2]
           result == [winner |-> t, loser |-> IF t = NoTeam THEN NoTeam ELSE Opponent(p, t),
                      kind |-> kind, done |-> TRUE]
           new == [rounds EXCEPT ![q[1]].match[q[2]] = result]
<1>1. /\ Running /\ ~ Automatic(At(rounds, q), withdrawn) /\ q[1] = L
      /\ t = NoTeam => kind = "PLAYED"
      /\ rounds' = new /\ status' = ReviewOf(rounds')
      /\ UNCHANGED <<rules, entered, withdrawn, seed, token>>
  BY DEF ScoreMatch, Editable
<1>2. /\ rounds \in History /\ rounds \in Seq(Rounds) /\ L \in Nat /\ L \in 1..L /\ DOMAIN rounds = 1..L
      /\ \A n \in 1..L : rounds[n] \in Rounds /\ SlateOK(rounds[n].match)
  <2>1. rounds \in History
    BY DEF SwissInv, SwissTypes
  <2>2. rounds \in Seq(Rounds) /\ q[1] \in 1..Len(rounds)
    BY <2>1, HistoryIs, MatchesOf
  <2>. QED
    BY <1>1, <2>1, <2>2, HistoryIs
<1>3. p \in DOMAIN rounds[L].match /\ At(rounds, q) = rounds[L].match[p] /\ p \in SUBSET Teams
  BY <1>1, <1>2, MatchesOf DEF At
<1>4. MatchOK(p, rounds[L].match[p])
  BY <1>2, <1>3 DEF SlateOK
<1>5. Cardinality(p) = 2 /\ rounds[L].match[p].kind # "BYE"
  <2>1. At(rounds, q).kind # "BYE"
    BY <1>1 DEF Automatic
  <2>2. rounds[L].match[p].kind # "BYE"
    BY <1>3, <2>1
  <2> DEFINE m == rounds[L].match[p]
  <2>3. MatchOK(p, m) /\ m.kind # "BYE"
    BY <1>4, <2>2
  <2>. HIDE DEF m, p
  <2>4. Cardinality(p) = 2
    BY <2>3 DEF MatchOK, FreeWin
  <2>. QED
    BY <2>2, <2>4
<1>6. t # NoTeam => t \in p /\ Opponent(p, t) \in p /\ Opponent(p, t) # t
  BY <1>3, <1>5, OpponentIs
<1>7. result \in Results /\ MatchOK(p, result)
  <2>1. result \in Results
    BY <1>3, <1>6 DEF Results, Kinds
  <2>2. MatchOK(p, result)
    BY <1>1, <1>5, <1>6 DEF MatchOK
  <2>. QED
    BY <2>1, <2>2
<1>. HIDE DEF result
<1>8. rounds[L].match \in Slates /\ DOMAIN rounds[L].match \in SUBSET SUBSET Teams
      /\ rounds[L].match \in [DOMAIN rounds[L].match -> Results]
  BY <1>2, SlateIs DEF Rounds
<1> DEFINE slate == [rounds[L].match EXCEPT ![p] = result]
<1>9. /\ DOMAIN slate = DOMAIN rounds[L].match /\ slate[p] = result
      /\ \A o \in DOMAIN rounds[L].match : o # p => slate[o] = rounds[L].match[o]
      /\ slate \in [DOMAIN rounds[L].match -> Results]
  BY <1>3, <1>7, <1>8
<1>10. new = [rounds EXCEPT ![L] = [rounds[L] EXCEPT !.match = slate]]
  BY <1>1
<1>. HIDE DEF slate, new, p
<1>11. slate \in Slates
  BY <1>8, <1>9 DEF Slates
<1>12. SlateOK(slate)
  <2>1. \A o \in DOMAIN slate : MatchOK(o, slate[o])
    BY <1>2, <1>7, <1>9 DEF SlateOK
  <2>. QED
    BY <1>2, <1>9, <1>11, <2>1 DEF SlateOK
<1>13. /\ [rounds[L] EXCEPT !.match = slate] \in Rounds
       /\ [rounds[L] EXCEPT !.match = slate].match = slate
       /\ [rounds[L] EXCEPT !.match = slate].table = rounds[L].table
  BY <1>2, <1>11 DEF Rounds
<1>14. /\ new \in [1..L -> Rounds]
       /\ new[L] = [rounds[L] EXCEPT !.match = slate]
       /\ \A n \in 1..L : n # L => new[n] = rounds[n]
  BY <1>2, <1>10, <1>13
<1>15. ASSUME NEW n \in 1..L
       PROVE  /\ SlateOK(new[n].match)
              /\ DOMAIN new[n].match = DOMAIN rounds[n].match
              /\ new[n].table = rounds[n].table
              /\ n < L => new[n] = rounds[n]
              /\ \A o \in DOMAIN rounds[n].match :
                   /\ rounds[n].match[o].done /\ rounds[n].match[o].kind # "BYE"
                        => new[n].match[o].done /\ new[n].match[o].kind # "BYE"
                   /\ ~ new[n].match[o].done => o \subseteq entered \ withdrawn'
  <2>1. \A o \in DOMAIN rounds[n].match : ~ rounds[n].match[o].done => o \subseteq entered \ withdrawn'
    BY <1>1 DEF SwissInv, OpenTeams, Active
  <2>2. result.done /\ result.kind # "BYE"
    BY DEF result
  <2>3. CASE n = L
    <3>1. new[n].match = slate /\ new[n].table = rounds[n].table /\ ~ (n < L)
      <4>1. new[L].match = slate /\ new[L].table = rounds[L].table
        BY <1>13, <1>14
      <4>2. ~ (L < L)
        BY <1>2
      <4>. QED
        BY <2>3, <4>1, <4>2
    <3>2. \A o \in DOMAIN rounds[n].match :
             /\ slate[o] = result \/ slate[o] = rounds[n].match[o]
      BY <1>9, <2>3
    <3>3. DOMAIN slate = DOMAIN rounds[n].match
      BY <1>9, <2>3
    <3>4. \A o \in DOMAIN rounds[n].match :
            /\ rounds[n].match[o].done /\ rounds[n].match[o].kind # "BYE" => slate[o].done /\ slate[o].kind # "BYE"
            /\ ~ slate[o].done => o \subseteq entered \ withdrawn'
      BY <2>1, <2>2, <3>2
    <3>. QED
      BY <1>12, <3>1, <3>3, <3>4
  <2>4. CASE n # L
    BY <1>2, <1>14, <2>1, <2>4
  <2>. QED
    BY <2>3, <2>4
<1>16. withdrawn' \subseteq entered
  BY <1>1 DEF SwissInv, SwissTypes
<1>. QED
  BY <1>1, <1>14, <1>15, <1>16, InPlaceKeeps

(* A match that is forfeited.                                                *)
LEMMA ForfeitedIs ==
  ASSUME NEW p \in SUBSET Teams, NEW m \in Results, MatchOK(p, m), NEW t \in Teams, NEW gone
  PROVE  /\ Forfeited(p, m, t, gone) \in Results
         /\ MatchOK(p, Forfeited(p, m, t, gone))
         /\ m.done => Forfeited(p, m, t, gone) = m
         /\ ~ Forfeited(p, m, t, gone).done => t \notin p /\ ~ m.done
<1> DEFINE o == Opponent(p, t)
           f == Forfeited(p, m, t, gone)
<1>1. CASE m.done \/ t \notin p
  <2>1. f = m
    BY <1>1 DEF Forfeited
  <2>. QED
    BY <1>1, <2>1
<1>2. CASE ~ m.done /\ t \in p
  <2>1. Cardinality(p) = 2 /\ m = Unplayed
    BY <1>2 DEF MatchOK, FreeWin
  <2>2. o \in p /\ o # t /\ o # NoTeam
    BY <1>2, <2>1, OpponentIs
  <2>. HIDE DEF o
  <2>3. CASE o \in gone
    <3>1. f = [m EXCEPT !.done = TRUE, !.kind = "DOUBLE_FORFEIT"]
      BY <1>2, <2>3 DEF Forfeited, o
    <3>2. f = [winner |-> NoTeam, loser |-> NoTeam, kind |-> "DOUBLE_FORFEIT", done |-> TRUE]
      <4>. HIDE DEF f
      <4>. QED
        BY <2>1, <3>1 DEF Unplayed
    <3>. HIDE DEF f
    <3>3. f \in Results /\ f.done
      BY <3>2 DEF Results, Kinds
    <3>4. MatchOK(p, f)
      BY <2>1, <3>2 DEF MatchOK
    <3>. QED
      BY <1>2, <3>3, <3>4 DEF f
  <2>4. CASE o \notin gone
    <3>1. f = [winner |-> o, loser |-> t, kind |-> "WALKOVER", done |-> TRUE]
      BY <1>2, <2>4 DEF Forfeited, o
    <3>. HIDE DEF f
    <3>2. f \in Results /\ f.done
      BY <2>2, <3>1 DEF Results, Kinds
    <3>3. MatchOK(p, f)
      BY <1>2, <2>1, <2>2, <3>1 DEF MatchOK
    <3>. QED
      BY <1>2, <3>2, <3>3 DEF f
  <2>. QED
    BY <2>3, <2>4
<1>. QED
  BY <1>1, <1>2

LEMMA WithdrawKeeps ==
  ASSUME SwissInv, NEW t \in Teams, Withdraw(t)
  PROVE  SwissInv'
<1>1. /\ t \in entered /\ status \notin {"FINISHED", "CANCELLED"}
      /\ withdrawn' = withdrawn \cup {t} /\ UNCHANGED <<rules, entered, seed, token>>
  BY DEF Withdraw
<1>2. withdrawn' \subseteq entered
  BY <1>1 DEF SwissInv, SwissTypes
<1>3. CASE ~ (Generated /\ status = "IN_PROGRESS")
  <2>1. UNCHANGED <<rounds, status>>
    BY <1>3 DEF Withdraw
  <2>2. SoundIn(SwissRounds, seed, rounds)'
    BY <1>1, <2>1, SoundStays
  <2>3. SwissRounds' = SwissRounds /\ Running' = Running /\ ReviewOf(rounds)' = ReviewOf(rounds)
    BY <1>1, <2>1 DEF SwissRounds, Running, ReviewOf
  <2>4. SwissTypes'
    BY <1>1, <1>2, <2>1, <2>3 DEF SwissInv, SwissTypes
  <2>5. ReviewExact'
    BY <2>1, <2>3 DEF SwissInv, ReviewExact
  <2>6. TokenOK'
    BY <1>1, <2>1, <2>3 DEF SwissInv, TokenOK
  <2>7. ASSUME Running
        PROVE  \A n \in 1..Len(rounds) : \A p \in DOMAIN rounds[n].match : rounds[n].match[p].done
    <3>1. status = "RESULTS_REVIEW"
      BY <1>3, <2>7 DEF SwissInv, SwissTypes, Generated, Running
    <3>2. ReviewOf(rounds) = "RESULTS_REVIEW"
      BY <2>7, <3>1 DEF SwissInv, ReviewExact
    <3>3. DOMAIN rounds = 1..Len(rounds)
      BY HistoryIs DEF SwissInv, SwissTypes
    <3>. QED
      BY <3>2, <3>3 DEF ReviewOf, Complete
  <2>8. OpenTeams'
    BY <2>1, <2>3, <2>7 DEF OpenTeams
  <2>. QED
    BY <2>2, <2>4, <2>5, <2>6, <2>8 DEF SwissInv
<1>4. CASE Generated /\ status = "IN_PROGRESS"
  <2> DEFINE slate(n) == [p \in DOMAIN rounds[n].match |-> Forfeited(p, rounds[n].match[p], t, withdrawn)]
             new == [n \in DOMAIN rounds |-> [rounds[n] EXCEPT !.match = slate(n)]]
  <2>1. rounds' = new /\ status' = ReviewOf(new) /\ Running
    BY <1>4 DEF Withdraw, Synced, Running
  <2>2. /\ rounds \in History /\ Len(rounds) \in Nat /\ DOMAIN rounds = 1..Len(rounds)
        /\ \A n \in 1..Len(rounds) : /\ rounds[n] \in Rounds /\ SlateOK(rounds[n].match)
                                     /\ rounds[n] = [match |-> rounds[n].match, table |-> rounds[n].table]
    BY HistoryIs DEF SwissInv, SwissTypes
  <2>3. ASSUME NEW n \in 1..Len(rounds)
        PROVE  /\ DOMAIN rounds[n].match \in SUBSET SUBSET Teams
               /\ rounds[n].match \in [DOMAIN rounds[n].match -> Results]
               /\ \A p \in DOMAIN rounds[n].match : MatchOK(p, rounds[n].match[p])
    <3>1. rounds[n].match \in Slates
      BY <2>2 DEF SlateOK
    <3>. QED
      BY <2>2, <3>1, SlateIs DEF SlateOK
  <2>4. ASSUME NEW n \in 1..Len(rounds), NEW p \in DOMAIN rounds[n].match
        PROVE  /\ slate(n)[p] \in Results /\ MatchOK(p, slate(n)[p])
               /\ rounds[n].match[p].done => slate(n)[p] = rounds[n].match[p]
               /\ ~ slate(n)[p].done => t \notin p /\ ~ rounds[n].match[p].done
    <3>1. p \in SUBSET Teams /\ rounds[n].match[p] \in Results /\ MatchOK(p, rounds[n].match[p])
      BY <2>3
    <3>. QED
      BY <3>1, ForfeitedIs
  <2>5. ASSUME NEW n \in 1..Len(rounds)
        PROVE  slate(n) \in Slates /\ DOMAIN slate(n) = DOMAIN rounds[n].match
    <3>1. slate(n) \in [DOMAIN rounds[n].match -> Results]
      BY <2>4
    <3>2. DOMAIN slate(n) = DOMAIN rounds[n].match
      OBVIOUS
    <3>. HIDE DEF slate
    <3>. QED
      BY <2>3, <3>1, <3>2 DEF Slates
  <2>6. ASSUME NEW n \in 1..Len(rounds), n < Len(rounds)
        PROVE  slate(n) = rounds[n].match
    <3>1. \A p \in DOMAIN rounds[n].match : rounds[n].match[p].done
      BY <2>2, <2>6 DEF SwissInv, ReviewExact, Complete
    <3>2. \A p \in DOMAIN rounds[n].match : slate(n)[p] = rounds[n].match[p]
      BY <2>4, <3>1
    <3>3. slate(n) = [p \in DOMAIN rounds[n].match |-> rounds[n].match[p]]
      BY <3>2
    <3>. QED
      BY <2>3, <3>3
  <2>. HIDE DEF slate
  <2>7. ASSUME NEW n \in 1..Len(rounds)
        PROVE  /\ new[n] \in Rounds /\ new[n] = [match |-> slate(n), table |-> rounds[n].table]
               /\ new[n].match = slate(n) /\ new[n].table = rounds[n].table
    <3>1. new[n] = [rounds[n] EXCEPT !.match = slate(n)]
      BY <2>2
    <3>. HIDE DEF new
    <3>. QED
      BY <2>2, <2>5, <3>1 DEF Rounds
  <2>8. new \in [1..Len(rounds) -> Rounds]
    <3>1. DOMAIN new = 1..Len(rounds) /\ new = [n \in DOMAIN new |-> new[n]]
      BY <2>2
    <3>. HIDE DEF new
    <3>. QED
      BY <2>7, <3>1
  <2>. HIDE DEF new
  <2>9. ASSUME NEW n \in 1..Len(rounds)
        PROVE  /\ SlateOK(new[n].match)
               /\ DOMAIN new[n].match = DOMAIN rounds[n].match
               /\ new[n].table = rounds[n].table
               /\ n < Len(rounds) => new[n] = rounds[n]
               /\ \A p \in DOMAIN rounds[n].match :
                    /\ rounds[n].match[p].done /\ rounds[n].match[p].kind # "BYE"
                         => new[n].match[p].done /\ new[n].match[p].kind # "BYE"
                    /\ ~ new[n].match[p].done => p \subseteq entered \ withdrawn'
    <3>1. new[n].match = slate(n) /\ new[n].table = rounds[n].table
      BY <2>7
    <3>2. SlateOK(slate(n))
      BY <2>2, <2>4, <2>5 DEF SlateOK
    <3>3. n < Len(rounds) => new[n] = rounds[n]
      BY <2>2, <2>6, <2>7
    <3>4. \A p \in DOMAIN rounds[n].match : ~ rounds[n].match[p].done => p \subseteq entered \ withdrawn
      BY <2>1 DEF SwissInv, OpenTeams, Active
    <3>5. \A p \in DOMAIN rounds[n].match : ~ slate(n)[p].done => p \subseteq entered \ withdrawn'
      BY <1>1, <2>4, <3>4
    <3>. QED
      BY <2>4, <2>5, <3>1, <3>2, <3>3, <3>5
  <2>. QED
    BY <1>1, <1>2, <2>1, <2>8, <2>9, InPlaceKeeps
<1>. QED
  BY <1>3, <1>4

LEMMA ResetKeeps == ASSUME SwissInv, ResetBracket PROVE SwissInv'
<1>1. /\ Running /\ rounds' = <<>> /\ status' = "REGISTRATION_OPEN"
      /\ UNCHANGED <<rules, entered, withdrawn, seed, token>>
  BY DEF ResetBracket
<1>2. token = NoToken
  <2>1. ASSUME GameDecided(rounds) PROVE FALSE
    <3>0. PICK n \in 1..Len(rounds) : \E p \in DOMAIN rounds[n].match :
                rounds[n].match[p].done /\ rounds[n].match[p].kind # "BYE"
      BY <2>1 DEF GameDecided
    <3>1. PICK p \in DOMAIN rounds[n].match :
                rounds[n].match[p].done /\ rounds[n].match[p].kind # "BYE"
      BY <3>0
    <3>2. rounds \in Seq(Rounds)
      BY HistoryIs DEF SwissInv, SwissTypes
    <3>3. <<n, p>> \in Matches(rounds) /\ At(rounds, <<n, p>>) = rounds[n].match[p]
      BY <3>2, MatchesOf
    <3>. QED
      BY <3>1, <3>3 DEF ResetBracket
  <2>. QED
    BY <2>1 DEF SwissInv, TokenOK
<1>3. <<>> \in History /\ Len(<<>>) = 0
  <2>1. <<>> \in Seq(Rounds) /\ Len(<<>>) = 0
    BY EmptySeq
  <2>. QED
    BY <2>1 DEF History
<1>4. SwissRounds' = SwissRounds /\ SwissRounds \in Nat /\ ~ Running'
  BY <1>1, RulesAre DEF SwissRounds, Running, SwissInv, SwissTypes
<1>5. SwissTypes'
  BY <1>1, <1>3, <1>4 DEF SwissInv, SwissTypes
<1>6. SoundIn(SwissRounds, seed, rounds)'
  BY <1>1, <1>3 DEF SoundIn
<1>7. (ReviewExact /\ OpenTeams /\ TokenOK)'
  <2>1. ReviewExact'
    BY <1>1, <1>4 DEF ReviewExact
  <2>. QED
    BY <1>1, <1>2, <1>4, <2>1 DEF OpenTeams, TokenOK
<1>. QED
  BY <1>5, <1>6, <1>7 DEF SwissInv

LEMMA SwissStepKeeps == ASSUME SwissInv, [Next]_vars PROVE SwissInv'
<1>1. Leaving \subseteq Teams /\ Moving \subseteq Teams
  BY BoundAssumption
<1>. QED
  BY <1>1, RegistrationKeeps, WithdrawKeeps, StartKeeps, PreviewKeeps, PublishKeeps, DiscardKeeps,
     ScoreKeeps, EndKeeps, ResetKeeps DEF Next

-----------------------------------------------------------------------------
(* What the invariant says.                                                  *)
LEMMA SwissInvSound == ASSUME SwissInv PROVE RoundsConsistent
<1>1. /\ rounds \in History /\ DOMAIN rounds = 1..Len(rounds) /\ Len(rounds) \in Nat
      /\ rounds \in Seq(Rounds)
      /\ \A n \in 1..Len(rounds) : rounds[n] \in Rounds /\ SlateOK(rounds[n].match)
  BY HistoryIs DEF SwissInv, SwissTypes
<1>2. \A n \in 1..Len(rounds) :
        SoundRound(SwissRounds, seed, Past(n), DOMAIN rounds[n].match, rounds[n].table, n > 1)
  BY DEF SwissInv, SoundIn, Past
<1>3. TypeOK
  <2>1. ASSUME NEW n \in 1..Len(rounds)
        PROVE  /\ \A p, o \in DOMAIN rounds[n].match : p \cap o # {} => p = o
               /\ \A t, u \in ByesOf(rounds[n]) : t = u
    <3>1. /\ \A p, o \in DOMAIN rounds[n].match : p \cap o # {} => p = o
          /\ \A p, o \in DOMAIN rounds[n].match : Cardinality(p) = 1 /\ Cardinality(o) = 1 => p = o
      BY <1>1 DEF SlateOK
    <3>2. ASSUME NEW t \in ByesOf(rounds[n]), NEW u \in ByesOf(rounds[n]) PROVE t = u
      <4>1. PICK p \in DOMAIN rounds[n].match : Cardinality(p) = 1 /\ t \in p
        BY DEF ByesOf
      <4>2. PICK o \in DOMAIN rounds[n].match : Cardinality(o) = 1 /\ u \in o
        BY DEF ByesOf
      <4>3. p = o /\ p \in SUBSET Teams
        <5>1. rounds[n].match \in Slates
          BY <1>1 DEF SlateOK
        <5>. QED
          BY <3>1, <4>1, <4>2, <5>1, SlateIs
      <4>4. PICK x : p = {x}
        BY <4>1, <4>3, TeamsFinite, FS_Singleton
      <4>. QED
        BY <4>1, <4>2, <4>3, <4>4
    <3>. QED
      BY <3>1, <3>2
  <2>2. ASSUME NEW n \in 1..Len(rounds), NEW p \in DOMAIN rounds[n].match
        PROVE  LET m == rounds[n].match[p]
               IN /\ p \subseteq entered /\ Cardinality(p) \in {1, 2}
                  /\ m.winner \in p \cup {NoTeam} /\ m.loser \in p \cup {NoTeam}
                  /\ m.kind \in {"PLAYED", "BYE", "WALKOVER", "DOUBLE_FORFEIT"}
                  /\ m.winner # NoTeam => m.winner # m.loser
    <3> DEFINE m == rounds[n].match[p]
    <3>1. MatchOK(p, m)
      BY <1>1 DEF SlateOK
    <3>2. m \in Results
      <4>1. rounds[n].match \in Slates
        BY <1>1 DEF SlateOK
      <4>. QED
        BY <4>1, SlateIs
    <3>3. p \subseteq entered
      BY DEF SwissInv, SwissTypes
    <3>4. NoTeam \notin Teams
      BY TeamsFinite
    <3>. HIDE DEF m
    <3>5. CASE \E t \in Teams : p = {t} /\ m = FreeWin(t)
      <4>1. PICK t \in Teams : p = {t} /\ m = FreeWin(t)
        BY <3>5
      <4>2. Cardinality(p) = 1
        BY <4>1, SingleIs
      <4>3. m.winner = t /\ m.loser = NoTeam /\ m.kind = "BYE" /\ t # NoTeam
        BY <3>4, <4>1 DEF FreeWin
      <4>. QED
        BY <3>3, <4>1, <4>2, <4>3 DEF m
    <3>6. CASE /\ Cardinality(p) = 2 /\ m.winner \in p \cup {NoTeam} /\ m.loser \in p \cup {NoTeam}
               /\ m.winner # NoTeam => m.winner # m.loser
      BY <3>2, <3>3, <3>6 DEF Results, Kinds, m
    <3>. QED
      BY <3>1, <3>5, <3>6 DEF MatchOK
  <2>. QED
    BY <1>1, <2>1, <2>2 DEF SwissInv, SwissTypes, TypeOK
<1>4. RepeatsUnavoidable
  <2>. SUFFICES ASSUME NEW n \in 1..Len(rounds),
                       ByesOf(rounds[n]) \cap FreeWins(Past(n)) # {} \/ PairsOf(rounds[n]) \cap Met(Past(n)) # {}
                PROVE  Unavoidable(n, Past(n))
    BY <1>1 DEF RepeatsUnavoidable
  <2>. QED
    BY <1>2 DEF SoundRound, ByesOf, PairsOf, Unavoidable, Field, NoneFresh, EvenField
<1>5. ByeForTheLast
  BY <1>1, <1>2 DEF ByeForTheLast, SoundRound, ByesOf, Field, NoneFresh
<1>6. SnapshotStands
  BY <1>1, <1>2 DEF SnapshotStands, SoundRound
<1>7. OpenHaveTeams
  <2>. SUFFICES ASSUME Running, NEW q \in Matches(rounds), ~ At(rounds, q).done
                PROVE  q[2] \subseteq Active
    BY DEF OpenHaveTeams
  <2>1. q[1] \in 1..Len(rounds) /\ q[2] \in DOMAIN rounds[q[1]].match
    BY <1>1, MatchesOf
  <2>. QED
    BY <2>1 DEF SwissInv, OpenTeams, At
<1>8. NeverStuck
  <2>. SUFFICES ASSUME Cardinality(Active) >= 2 PROVE PlansOf(SwissRounds, Basis, TRUE) # {}
    BY DEF NeverStuck
  <2>1. /\ DrawFor(DrawOf(SwissRounds, Basis), Active)
        /\ NoTeam \notin DrawOf(SwissRounds, Basis).byes
    BY BasisIs, DrawOfIs
  <2>. QED
    BY <2>1, BasisIs, PairExists DEF PlansOf
<1>9. ReviewExact
  BY DEF SwissInv
<1>. QED
  BY <1>3, <1>4, <1>5, <1>6, <1>7, <1>8, <1>9 DEF RoundsConsistent

AsShown ==
  Len(rounds') > Len(rounds) /\ Generated =>
    /\ token.held
    /\ PairsShown(rounds'[Len(rounds')], token.plan)
    /\ token.basis = Basis

LEMMA SwissStepsAsShown == ASSUME SwissInv, [Next]_vars PROVE AsShown
<1>1. rounds \in History /\ Len(rounds) \in Nat /\ DOMAIN rounds = 1..Len(rounds)
  BY HistoryIs DEF SwissInv, SwissTypes
<1>2. ASSUME NEW approve \in BOOLEAN, Publish(approve) PROVE AsShown
  BY <1>2, PublishKeeps DEF AsShown
<1>3. ASSUME NEW shuffle \in Shuffles, Start(shuffle) PROVE ~ Generated
  BY <1>3 DEF Start, SwissInv, SwissTypes, Generated
<1>4. ASSUME NEW q \in Matches(rounds), NEW t \in q[2] \cup {NoTeam},
             NEW kind \in {"PLAYED", "WALKOVER"}, ScoreMatch(q, t, kind)
      PROVE  Len(rounds') = Len(rounds)
  <2> DEFINE m == [winner |-> t, loser |-> IF t = NoTeam THEN NoTeam ELSE Opponent(q[2], t),
                   kind |-> kind, done |-> TRUE]
  <2>1. rounds' = [rounds EXCEPT ![q[1]].match[q[2]] = m]
    BY <1>4 DEF ScoreMatch
  <2>. HIDE DEF m
  <2>2. DOMAIN rounds' = 1..Len(rounds) /\ Len(rounds') = Len(rounds)
    BY <1>1, <2>1 DEF History
  <2>. QED
    BY <2>2
<1>5. ASSUME NEW t \in Moving, Withdraw(t) PROVE Len(rounds') = Len(rounds)
  BY <1>1, <1>5 DEF Withdraw
<1>6. ASSUME \/ \E t \in Teams : Register(t)
             \/ \E t \in Leaving : Unregister(t)
             \/ \E allow \in BOOLEAN : Preview(allow)
             \/ Discard \/ ConfirmResults \/ CancelTournament \/ UNCHANGED vars
      PROVE  rounds' = rounds
  BY <1>6 DEF Register, Unregister, Preview, Discard, ConfirmResults, CancelTournament, vars
<1>7. ASSUME ResetBracket PROVE Len(rounds') = 0
  BY <1>7, EmptySeq DEF ResetBracket
<1>. QED
  BY <1>1, <1>2, <1>3, <1>4, <1>5, <1>6, <1>7 DEF Next, AsShown

(* However results, corrections, withdrawals, previews and publications      *)
(* follow each other, a round repeats an encounter or a free win only when   *)
(* no other pairing was there, the bye goes to the last team that may have   *)
(* it, the published tables stay what the rounds before them say, the review *)
(* begins exactly when all is decided, no open match waits for a team that   *)
(* has withdrawn, and there is always a next round to be found               *)
(* (SwissPairingService.pair, SwissRoundService, sync_review).               *)
THEOREM SwissRoundsAreConsistent == ContestSpec => []RoundsConsistent
<1>1. ContestInit => SwissInv
  BY InitSwiss DEF ContestInit
<1>2. SwissInv /\ [ContestNext]_contestVars => SwissInv'
  <2>1. [ContestNext]_contestVars => [Next]_vars
    BY DEF ContestNext, DrawsMove, SwissMove, RaceMove, contestVars
  <2>. QED
    BY <2>1, SwissStepKeeps
<1>3. SwissInv => RoundsConsistent
  BY SwissInvSound
<1>. QED
  BY <1>1, <1>2, <1>3, PTL DEF ContestSpec

(* Between the preview and the publication anything may happen; what is      *)
(* published is exactly what the organiser saw, drawn from what is there,    *)
(* because the digest decides it (SwissRoundService.publish).                *)
THEOREM SwissPublishedAsShown == ContestSpec => PublishedAsShown
<1>1. ContestInit => SwissInv
  BY InitSwiss DEF ContestInit
<1>2. SwissInv /\ [ContestNext]_contestVars => SwissInv' /\ [AsShown]_vars
  <2>1. [ContestNext]_contestVars => [Next]_vars
    BY DEF ContestNext, DrawsMove, SwissMove, RaceMove, contestVars
  <2>. QED
    BY <2>1, SwissStepKeeps, SwissStepsAsShown
<1>3. ContestSpec => [][AsShown]_vars
  BY <1>1, <1>2, PTL DEF ContestSpec
<1>4. PublishedAsShown <=> [][AsShown]_vars
  BY PTL DEF PublishedAsShown, AsShown
<1>. QED
  BY <1>3, <1>4, PTL
=============================================================================
