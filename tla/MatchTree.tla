----------------------------- MODULE MatchTree -----------------------------
(***************************************************************************)
(* The tree of the knockout matches of one tournament, and what a result   *)
(* does to it: check_and_advance_match and update_match_score              *)
(* (tournaments/services/matches.py), the repair of a correction           *)
(* (services/results.py) and the walkovers of a withdrawal                 *)
(* (services/forfeits.py).  Bracket hangs the trees of single and double   *)
(* elimination into it, GroupStage the playoffs of a group stage.          *)
(*                                                                         *)
(* A match is named <<bracket_type, round_number, match_number>>.          *)
(***************************************************************************)
EXTENDS Integers, FiniteSets, Sequences, SequencesExt

NoTeam == 0

\* The two matches whose type alone the services ask for.
Grand == <<"GRAND_FINAL", 1, 1>>
GrandReset == <<"GRAND_FINAL_RESET", 2, 1>>

\* The graph in the forms the services read it, from the matches in an order in
\* which each follows its feeders and the targets <<of its winner, of its loser>>
\* of each: the feeders of a slot, and the matches behind a match (descendants),
\* where the reset of the grand final hangs behind the grand final.
Linked(order, out) ==
  LET ids == {order[i] : i \in DOMAIN order}
      behind(S) == {x[1] : x \in UNION {out[m][1] \cup out[m][2] : m \in S}}
                   \cup (IF Grand \in S THEN {GrandReset} ELSE {})
      below(m) ==
        LET go[i \in Nat] == IF i = 0 THEN {} ELSE behind(go[i - 1] \cup {m})
        IN go[Len(order)]
  IN [order |-> order,
      out   |-> out,
      feeds |-> [m \in ids |-> [s \in {1, 2} |->
                  {f \in ids \X {1, 2} : <<m, s>> \in out[f[1]][f[2]]}]],
      below |-> [m \in ids |-> below(m)]]

\* x is what the services know besides the matches: the tree and the set gone
\* of the withdrawn teams.  out = 1 is the winner's way, 2 the loser's.
Out(x, m, out) == x.tree.out[m][out]
Feeds(x, m, s) == x.tree.feeds[m][s]
Below(x, m) == x.tree.below[m]

-----------------------------------------------------------------------------
(***************************************************************************)
(* What a result does to the tree.  b is the bracket: the matches by name.  *)
(***************************************************************************)

Open == [team |-> <<NoTeam, NoTeam>>, winner |-> NoTeam, loser |-> NoTeam,
         status |-> "PENDING", kind |-> "PLAYED"]

Completed(b, m) == b[m].status = "COMPLETED"
Over(rec, kind, up, down) ==
  [rec EXCEPT !.kind = kind, !.winner = up, !.loser = down, !.status = "COMPLETED"]

\* is_automatic_result: byes and what a withdrawal decided.  A walkover given
\* by hand becomes one the day its loser withdraws or is deleted.
Automatic(x, b, m) ==
  \/ b[m].kind \in {"BYE", "DOUBLE_FORFEIT"}
  \/ b[m].kind = "WALKOVER" /\ b[m].loser \in x.gone \cup {NoTeam}

\* evaluate_slot: what stands, or will stand, in slot s of match m.
SlotOf(x, b, m, s) ==
  LET present(t) == [state |-> IF t \in x.gone THEN "FORFEITED" ELSE "FILLED", team |-> t]
      up   == {b[f[1]].winner : f \in {g \in Feeds(x, m, s) : g[2] = 1}} \ {NoTeam}
      down == {b[f[1]].loser : f \in {g \in Feeds(x, m, s) : g[2] = 2}}
              \ (x.gone \cup {NoTeam})
  IN CASE b[m].team[s] # NoTeam -> present(b[m].team[s])
       [] b[m].team[s] = NoTeam /\ \E f \in Feeds(x, m, s) : ~Completed(b, f[1]) ->
            [state |-> "PENDING", team |-> NoTeam]
       [] OTHER ->
            IF up \cup down = {} THEN [state |-> "EMPTY", team |-> NoTeam]
            ELSE present(CHOOSE t \in up \cup down : TRUE)

\* A withdrawn team that can have no opponent counts as nobody.
Settled(slot) ==
  LET alone(s) == slot[s].state = "FORFEITED" /\ slot[3 - s].state = "EMPTY"
  IN [s \in {1, 2} |-> IF alone(s) THEN slot[3 - s] ELSE slot[s]]

Slots(x, b, m) == Settled([s \in {1, 2} |-> SlotOf(x, b, m, s)])

\* The body of check_and_advance_match: the match with its slots e filled in
\* and, when both are settled, made ready or decided without a game.
DecidedBy(rec, e) ==
  LET states == {e[1].state, e[2].state}
      teams(state) == {e[s].team : s \in {t \in {1, 2} : e[t].state = state}}
      the(state) == IF teams(state) = {} THEN NoTeam
                    ELSE CHOOSE t \in teams(state) : TRUE
      here == [rec EXCEPT !.team = <<e[1].team, e[2].team>>]
  IN CASE states = {"FILLED"} ->
            IF rec.status = "PENDING" \/ here # rec
            THEN [here EXCEPT !.status = "READY"] ELSE here
       [] "PENDING" \in states -> here
       [] states = {"FILLED", "FORFEITED"} ->
            Over(here, "WALKOVER", the("FILLED"), the("FORFEITED"))
       [] states = {"FORFEITED"} -> Over(here, "DOUBLE_FORFEIT", NoTeam, NoTeam)
       [] OTHER -> Over(here, "BYE", the("FILLED"), NoTeam)

Decided(x, b, m) == DecidedBy(b[m], Slots(x, b, m))

Put(b, to, t) ==
  IF t = NoTeam THEN b ELSE [b EXCEPT ![to[1]].team[to[2]] = t]

\* check_and_advance_match with its recursion written as a stack: seen is the
\* set `visited` that one call hands down, and a team is put into its next slot
\* when the code reaches the match, before it looks at visited.
Step(x, run) ==
  LET job == Head(run.todo)
      b == Put(run.match, job.to, job.team)
      m == job.to[1]
      skip == m \in run.seen \/ Completed(b, m)
      now == Decided(x, b, m)
      next(out, t) == {[to |-> to, team |-> t] : to \in Out(x, m, out)}
      onward == IF skip \/ now.status # "COMPLETED" THEN <<>>
                ELSE SetToSeq(next(1, now.winner)) \o SetToSeq(next(2, NoTeam))
  IN [match |-> IF skip THEN b ELSE [b EXCEPT ![m] = now],
      seen  |-> run.seen \cup {m},
      todo  |-> onward \o Tail(run.todo)]

\* A run ends: every match is decided once at most, and sends on to two others.
Start(b, m) == [match |-> b, seen |-> {}, todo |-> <<[to |-> <<m, 1>>, team |-> NoTeam]>>]
Onward(x, run) == IF run.todo = <<>> THEN run ELSE Step(x, run)

Runs(x, b, m) ==
  LET run[i \in Nat] == IF i = 0 THEN Start(b, m) ELSE Onward(x, run[i - 1])
  IN run

CheckAndAdvance(x, b, m) == Runs(x, b, m)[3 * Cardinality(Below(x, m)) + 4].match

\* The same for the matches of a set S, in the order of the tree.
Checks(x, b, S) ==
  LET order == x.tree.order
      upTo[i \in 0..Len(order)] ==
        IF i = 0 THEN b
        ELSE IF order[i] \in S THEN CheckAndAdvance(x, upTo[i - 1], order[i])
        ELSE upTo[i - 1]
  IN upTo

CheckAll(x, b, S) == Checks(x, b, S)[Len(x.tree.order)]

\* Mutant: a started match behind the correction is blanked like a waiting one.
RepairableStarted(x, b, m) ==
  \A d \in Below(x, m) \cap DOMAIN b : Completed(b, d) => Automatic(x, b, d)

\* Mutant: a correction only rewrites the next slots.
RepairedNothing(x, b, m) == b

\* repair_descendants: every match behind m is blanked, the reset of the grand
\* final removed, and the rest rebuilt from its feeders, feeders first.
Repairable(x, b, m) ==
  \A d \in Below(x, m) \cap DOMAIN b :
    /\ b[d].status # "IN_PROGRESS"
    /\ Completed(b, d) => Automatic(x, b, d)

Repaired(x, b, m) ==
  LET affected == (Below(x, m) \cap DOMAIN b) \ {GrandReset}
      kept == DOMAIN b \ (Below(x, m) \cap {GrandReset})
      blank == [i \in kept |-> IF i \in affected THEN Open ELSE b[i]]
  IN CheckAll(x, blank, affected)

\* Steps 5 and 6 of update_match_score: a team that is not withdrawn moves into
\* its next slot, and the next match is looked at either way.
Sent(x, b, to, t) ==
  LET moved == IF t \in x.gone THEN b ELSE Put(b, to, t)
      both == moved[to[1]].team[1] # NoTeam /\ moved[to[1]].team[2] # NoTeam
      ready == IF both /\ t \notin x.gone \cup {NoTeam} /\ moved[to[1]].status = "PENDING"
               THEN [moved EXCEPT ![to[1]].status = "READY"] ELSE moved
  IN CheckAndAdvance(x, ready, to[1])

SentOn(x, b, m, out, t) ==
  IF Out(x, m, out) = {} THEN b
  ELSE Sent(x, b, CHOOSE to \in Out(x, m, out) : TRUE, t)

\* Mutant: one grand final decides, whoever wins it.
AfterGrandFinalOnce(b) == b

\* Step 7: the winner of the loser bracket has to win the grand final twice.
AfterGrandFinal(b) ==
  IF b[Grand].winner = b[Grand].team[1]
  THEN [i \in {j \in DOMAIN b : j # GrandReset
                 \/ b[j].status \in {"IN_PROGRESS", "COMPLETED"}} |-> b[i]]
  ELSE IF GrandReset \in DOMAIN b THEN b
  ELSE [i \in DOMAIN b \cup {GrandReset} |->
          IF i # GrandReset THEN b[i]
          ELSE [Open EXCEPT !.team = b[Grand].team, !.status = "READY"]]

\* update_match_score: slot s of match m wins.
Corrects(b, m, s) == Completed(b, m) /\ b[m].winner # b[m].team[s]

Scored(x, b, m, s, kind) ==
  LET rec == Over(b[m], kind, b[m].team[s], b[m].team[3 - s])
      set == [b EXCEPT ![m] = rec]
      fixed == IF Corrects(b, m, s) THEN Repaired(x, set, m) ELSE set
      up == SentOn(x, fixed, m, 1, rec.winner)
      down == SentOn(x, up, m, 2, rec.loser)
  IN IF Completed(b, m) /\ ~Corrects(b, m, s) THEN set
     ELSE IF m = Grand THEN AfterGrandFinal(down) ELSE down

\* forfeit_team_in_active_tournaments on one tournament: the opponent wins
\* every open match of the team, or the match waits for its opponent.
OpenOf(b, t) == {m \in DOMAIN b : ~Completed(b, m) /\ t \in {b[m].team[1], b[m].team[2]}}

Lose(x, b, m, t) ==
  LET other == IF b[m].team[1] = t THEN 2 ELSE 1
  IN IF Completed(b, m) THEN b
     ELSE IF b[m].team[other] = NoTeam THEN CheckAndAdvance(x, b, m)
     ELSE Scored(x, b, m, other, "WALKOVER")

Forfeits(x, b, t) ==
  LET order == x.tree.order
      upTo[i \in 0..Len(order)] ==
        IF i = 0 THEN b
        ELSE IF order[i] \in OpenOf(b, t) THEN Lose(x, upTo[i - 1], order[i], t)
        ELSE upTo[i - 1]
  IN upTo

Forfeited(x, b, t) == Forfeits(x, b, t)[Len(x.tree.order)]

\* sync_review: the status follows the matches until the result is confirmed.
AllCompleted(b) == \A m \in DOMAIN b : Completed(b, m)
Reviewed(b) == IF AllCompleted(b) THEN "RESULTS_REVIEW" ELSE "IN_PROGRESS"
=============================================================================
