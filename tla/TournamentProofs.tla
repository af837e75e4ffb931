--------------------------- MODULE TournamentProofs ---------------------------
(***************************************************************************)
(* Proofs about the knockout trees of Tournament, for any number of teams, *)
(* in both modes: what holds of one match and of its slots, of a run of    *)
(* check_and_advance, of the teams' ways through the tree, of results,     *)
(* corrections and withdrawals, of the tree that Linked makes from the     *)
(* bracket's arithmetic, of the seeding, of what every operation keeps of  *)
(* the teams' stories, of how often a team can have lost in the upper and  *)
(* in the lower half, and so of every action.                              *)
(***************************************************************************)
EXTENDS Tournament, TLAPS, FiniteSetTheorems, SequenceTheorems, NaturalsInduction, WellFoundedInduction


(***************************************************************************)
(* The tree of x: its matches, and what is true of every tree that Linked  *)
(* makes.  rank is a number that grows on every way through the tree.      *)
(***************************************************************************)
Ids(x) == DOMAIN x.tree.out
Ways == {1, 2}
SlotsOf(x) == Ids(x) \X Ways

Leads(x, rank) ==
  \A m \in Ids(x), w \in Ways :
    /\ \A to \in Out(x, m, w) : to \in SlotsOf(x) /\ to[1] # GrandReset /\ rank[m] < rank[to[1]]
    /\ \A to, at \in Out(x, m, w) : to = at
    /\ m \in {Grand, GrandReset} => Out(x, m, w) = {}

\* Each slot has one feeder at most, and Feeds knows it.
Fed(x) ==
  /\ \A m \in Ids(x), s \in Ways : \A f \in Feeds(x, m, s) : f \in SlotsOf(x) /\ <<m, s>> \in Out(x, f[1], f[2])
  /\ \A f \in SlotsOf(x) : \A to \in Out(x, f[1], f[2]) : f \in Feeds(x, to[1], to[2])
  /\ \A m \in Ids(x), s \in Ways : \A f, g \in Feeds(x, m, s) : f = g

Behind(x) ==
  \A m \in Ids(x) :
    /\ m \notin Below(x, m)
    /\ \A d \in Below(x, m) \cup {m}, w \in Ways : \A to \in Out(x, d, w) : to[1] \in Below(x, m)
    /\ Grand \in Below(x, m) \cup {m} => GrandReset \in Below(x, m)

Shape(x, rank) ==
  /\ IsFiniteSet(Ids(x)) /\ rank \in [Ids(x) -> Nat]
  /\ x.tree.order \in Seq(Ids(x)) /\ \A m \in Ids(x) : \E i \in 1..Len(x.tree.order) : x.tree.order[i] = m
  /\ \A m \in Ids(x) : Below(x, m) \subseteq Ids(x)
  /\ Leads(x, rank) /\ Fed(x) /\ Behind(x)

(***************************************************************************)
(* A bracket b in the tree of x, of the teams E.                           *)
(***************************************************************************)
Places(E) == E \cup {NoTeam}
Records(E) ==
  [team : Places(E) \X Places(E), winner : Places(E), loser : Places(E),
   status : {"PENDING", "READY", "IN_PROGRESS", "COMPLETED"},
   kind : {"PLAYED", "BYE", "WALKOVER", "DOUBLE_FORFEIT"}]

Sends(b, f, w) == IF w = 1 THEN b[f].winner ELSE b[f].loser
At(b, m, s) == b[m].team[s]

\* A match by itself.
Fair(r) ==
  /\ r.status # "COMPLETED" => r.winner = NoTeam /\ r.loser = NoTeam /\ r.kind = "PLAYED"
  /\ {r.winner, r.loser} \subseteq {r.team[1], r.team[2], NoTeam}
  /\ r.winner = r.loser => r.winner = NoTeam
  /\ r.status = "COMPLETED" /\ r.kind = "PLAYED" /\ NoTeam \notin {r.team[1], r.team[2]}
       => NoTeam \notin {r.winner, r.loser}

\* A slot holds what its feeder sends, and a match is decided after its feeders; what an
\* active team won has arrived, but in the slots D of matches that are open.
Flows(x, b, D, f, w, to) ==
  /\ At(b, to[1], to[2]) # NoTeam => Completed(b, f) /\ At(b, to[1], to[2]) = Sends(b, f, w)
  /\ Sends(b, f, w) \notin x.gone \cup {NoTeam} =>
       At(b, to[1], to[2]) = Sends(b, f, w) \/ (to \in D /\ ~Completed(b, to[1]))
  /\ Completed(b, to[1]) => Completed(b, f)

Follows(x, b, D) ==
  \A f \in DOMAIN b, w \in Ways : \A to \in Out(x, f, w) : Flows(x, b, D, f, w, to)

\* Nobody begins in two places.
Unfed(x, p) == p \in SlotsOf(x) /\ p[1] # GrandReset /\ Feeds(x, p[1], p[2]) = {}
Begins(x, b) ==
  \A p, q : /\ Unfed(x, p) /\ Unfed(x, q)
            /\ At(b, p[1], p[2]) = At(b, q[1], q[2]) /\ At(b, p[1], p[2]) # NoTeam
            => p = q

\* The second grand final comes after the first, with its teams.
Reset(b) ==
  GrandReset \in DOMAIN b =>
    /\ Grand \in DOMAIN b /\ Completed(b, Grand)
    /\ \A s \in Ways : At(b, GrandReset, s) \in {At(b, Grand, s), NoTeam}

Hung(x, E, b) ==
  /\ DOMAIN b \subseteq Ids(x) /\ Ids(x) \ {GrandReset} \subseteq DOMAIN b
  /\ b \in [DOMAIN b -> Records(E)]
  /\ \A m \in DOMAIN b : Fair(b[m])

Sound(x, E, b, D) == Hung(x, E, b) /\ Follows(x, b, D) /\ Begins(x, b) /\ Reset(b)

\* A match of the first round: no other match comes before it.
Early(m) == m[1] \in {"WINNERS", "FINAL"} /\ m[2] = 1

\* Nothing leads to the first round, and to the second grand final only the first.
Nested(x) ==
  \A m \in Ids(x) : \A d \in Below(x, m) :
    /\ ~Early(d)
    /\ d = GrandReset => Grand \in Below(x, m) \cup {m}

\* A team that is still in the tournament.
Plays(x, t) == t \notin x.gone \cup {NoTeam}

\* Every team began in the first round, and won or lost what it has played.
Begun(x, E, b) ==
  \A t \in E \ x.gone : \E m \in DOMAIN b, s \in Ways : Early(m) /\ At(b, m, s) = t

Honest(x, b) ==
  \A m \in DOMAIN b, s \in Ways :
    Completed(b, m) /\ Plays(x, At(b, m, s)) => At(b, m, s) \in {b[m].winner, b[m].loser}

\* The team from the winner bracket is beaten in the grand final exactly when
\* there is a second one, of the same two teams.
Twice(x, b) ==
  Grand \in DOMAIN b /\ Completed(b, Grand) =>
    /\ GrandReset \in DOMAIN b => \A s \in Ways : Plays(x, At(b, Grand, s)) =>
         At(b, GrandReset, s) = At(b, Grand, s) /\ Sends(b, Grand, 3 - s) = At(b, Grand, s)
    /\ GrandReset \notin DOMAIN b /\ Plays(x, At(b, Grand, 1)) => b[Grand].winner = At(b, Grand, 1)

\* What the results tell of every team that did not withdraw.
Told(x, E, b) == Begun(x, E, b) /\ Honest(x, b) /\ Twice(x, b)

\* One tournament: its tree of 2^k places, the results b in it, the teams E that
\* are registered and those of them, w, that have withdrawn.
TreeOf(md, st, k, b, E, w) ==
  /\ md \in Modes /\ k \in Sizes \cup {0}
  /\ st \in {"REGISTRATION_OPEN", "IN_PROGRESS", "RESULTS_REVIEW", "FINISHED", "CANCELLED"}
  /\ w \subseteq E /\ E \subseteq Teams
  /\ k = 0 => DOMAIN b = {}
  /\ k # 0 => Sound(Known(md, k, w), E, b, {}) /\ Told(Known(md, k, w), E, b)
  /\ st = "REGISTRATION_OPEN" => k = 0
  /\ st \in {"IN_PROGRESS", "RESULTS_REVIEW"} => k # 0 /\ st = Reviewed(b)
  /\ st = "FINISHED" => AllCompleted(b)

TreeInv == TreeOf(mode, status, size, match, entered, withdrawn)

\* Nobody is none, and who is withdrawn is entered.
World(x, rank, E) == Shape(x, rank) /\ NoTeam \notin E /\ x.gone \subseteq E

-----------------------------------------------------------------------------
(***************************************************************************)
(* What check_and_advance_match does to one match.                         *)
(***************************************************************************)

SlotStates == {"FILLED", "FORFEITED", "PENDING", "EMPTY"}

\* A slot as evaluate_slot sees it.
Seen(E, G, slot) ==
  /\ slot \in [state : SlotStates, team : Places(E)]
  /\ slot.team # NoTeam <=> slot.state \in {"FILLED", "FORFEITED"}
  /\ slot.state = "FILLED" => slot.team \notin G
  /\ slot.state = "FORFEITED" => slot.team \in G

Kinds == {"PLAYED", "BYE", "WALKOVER", "DOUBLE_FORFEIT"}

LEMMA OverIs ==
  ASSUME NEW E, NEW rec \in Records(E), NEW kind \in Kinds, NEW up \in Places(E), NEW down \in Places(E)
  PROVE  LET r == Over(rec, kind, up, down)
         IN /\ r \in Records(E) /\ r.team = rec.team /\ r.status = "COMPLETED"
            /\ r.kind = kind /\ r.winner = up /\ r.loser = down
BY DEF Over, Records, Kinds

LEMMA DecidedByIs ==
  ASSUME NEW E, NoTeam \notin E, NEW G, NoTeam \notin G, NEW rec \in Records(E), Fair(rec), rec.status # "COMPLETED",
         NEW e, Seen(E, G, e[1]), Seen(E, G, e[2])
  PROVE  LET r == DecidedBy(rec, e)
         IN /\ r \in Records(E) /\ Fair(r)
            /\ r.team = <<e[1].team, e[2].team>>
            /\ r.status = "COMPLETED" =>
                 /\ e[1].state # "PENDING" /\ e[2].state # "PENDING"
                 /\ e[1].state # "FILLED" \/ e[2].state # "FILLED"
                 /\ r.winner \notin G /\ r.loser \in G \cup {NoTeam}
                 /\ \A s \in Ways : e[s].state = "FILLED" => r.winner = e[s].team
            /\ r.status # "COMPLETED" =>
                 /\ e[1].state = "PENDING" \/ e[2].state = "PENDING" \/ (e[1].state = "FILLED" /\ e[2].state = "FILLED")
                 /\ r.status \in {rec.status, "READY"}
                 /\ rec.status # "PENDING" /\ rec.team = r.team => r.status = rec.status
                 /\ r.status = "READY" /\ rec.status # "READY" => r.team[1] # NoTeam /\ r.team[2] # NoTeam
<1> DEFINE states == {e[1].state, e[2].state}
           teams(state) == {e[s].team : s \in {t \in {1, 2} : e[t].state = state}}
           the(state) == IF teams(state) = {} THEN NoTeam ELSE CHOOSE t \in teams(state) : TRUE
           here == [rec EXCEPT !.team = <<e[1].team, e[2].team>>]
           r == DecidedBy(rec, e)
<1>0. /\ e[1].team \in Places(E) /\ e[2].team \in Places(E)
      /\ e[1].state \in SlotStates /\ e[2].state \in SlotStates
  BY DEF Seen
<1>1. /\ here \in Records(E) /\ here.team = <<e[1].team, e[2].team>> /\ here.status = rec.status
      /\ here.winner = NoTeam /\ here.loser = NoTeam /\ here.kind = "PLAYED"
      /\ here = rec => rec.team = here.team
      /\ here.team = rec.team => here = rec
  BY <1>0 DEF Records, Fair
<1>2. \A state : the(state) \in {e[1].team, e[2].team, NoTeam} /\ (the(state) # NoTeam => the(state) \in teams(state))
  <2>. TAKE state
  <2>1. CASE teams(state) = {}
    BY <2>1
  <2>2. CASE teams(state) # {}
    <3>1. (CHOOSE t \in teams(state) : TRUE) \in teams(state)
      BY <2>2
    <3>2. the(state) \in teams(state)
      BY <2>2, <3>1
    <3>3. teams(state) \subseteq {e[1].team, e[2].team}
      OBVIOUS
    <3>. QED
      BY <3>2, <3>3
  <2>. QED
    BY <2>1, <2>2
<1>f. ASSUME NEW s \in Ways, e[s].state = "FILLED", e[1].state # "FILLED" \/ e[2].state # "FILLED"
      PROVE  the("FILLED") = e[s].team
  <2>1. e[s].team \in teams("FILLED") /\ teams("FILLED") \subseteq {e[s].team}
    BY <1>f DEF Ways
  <2>. HIDE DEF teams
  <2>2. the("FILLED") \in teams("FILLED")
    BY <2>1
  <2>. QED
    BY <2>1, <2>2
<1>3. the("FILLED") \notin G
  BY <1>2 DEF Seen
<1>4. the("FORFEITED") \in G \cup {NoTeam}
  BY <1>2 DEF Seen
<1>5. r = CASE states = {"FILLED"} ->
                 IF rec.status = "PENDING" \/ here # rec
                 THEN [here EXCEPT !.status = "READY"] ELSE here
            [] "PENDING" \in states -> here
            [] states = {"FILLED", "FORFEITED"} ->
                 Over(here, "WALKOVER", the("FILLED"), the("FORFEITED"))
            [] states = {"FORFEITED"} -> Over(here, "DOUBLE_FORFEIT", NoTeam, NoTeam)
            [] OTHER -> Over(here, "BYE", the("FILLED"), NoTeam)
  BY DEF DecidedBy
<1>6. /\ the("FILLED") \in {e[1].team, e[2].team, NoTeam} /\ the("FORFEITED") \in {e[1].team, e[2].team, NoTeam}
      /\ the("FILLED") \in Places(E) /\ the("FORFEITED") \in Places(E) /\ NoTeam \in Places(E)
  BY <1>0, <1>2 DEF Places
<1>7. /\ states = {e[1].state, e[2].state}
      /\ "PENDING" \in states <=> e[1].state = "PENDING" \/ e[2].state = "PENDING"
      /\ states = {"FILLED"} <=> e[1].state = "FILLED" /\ e[2].state = "FILLED"
      /\ \A s \in Ways : e[s].state \in states
  BY DEF Ways
<1>. HIDE DEF states, the, r
<1>. SUFFICES /\ r \in Records(E) /\ Fair(r)
              /\ r.team = <<e[1].team, e[2].team>>
              /\ r.status = "COMPLETED" =>
                   /\ "PENDING" \notin states /\ states # {"FILLED"}
                   /\ r.winner \notin G /\ r.loser \in G \cup {NoTeam}
                   /\ "FILLED" \in states => r.winner = the("FILLED")
              /\ r.status # "COMPLETED" =>
                   /\ "PENDING" \in states \/ states = {"FILLED"}
                   /\ r.status \in {rec.status, "READY"}
                   /\ rec.status # "PENDING" /\ rec.team = r.team => r.status = rec.status
                   /\ r.status = "READY" /\ rec.status # "READY" => r.team[1] # NoTeam /\ r.team[2] # NoTeam
  BY <1>7, <1>f DEF r
<1>8. CASE states = {"FILLED"}
  <2>1. r = IF rec.status = "PENDING" \/ here # rec THEN [here EXCEPT !.status = "READY"] ELSE here
    BY <1>5, <1>8
  <2>2. e[1].state = "FILLED" /\ e[2].state = "FILLED" /\ NoTeam \notin {e[1].team, e[2].team}
    BY <1>7, <1>8 DEF Seen
  <2>. HIDE DEF here
  <2>3. CASE rec.status = "PENDING" \/ here # rec
    <3>1. /\ r \in Records(E) /\ r.team = here.team /\ r.status = "READY"
          /\ r.winner = NoTeam /\ r.loser = NoTeam /\ r.kind = "PLAYED"
      BY <2>1, <2>3, <1>1 DEF Records
    <3>2. Fair(r)
      BY <3>1 DEF Fair
    <3>. QED
      BY <3>1, <3>2, <2>2, <2>3, <1>1, <1>8
  <2>4. CASE ~(rec.status = "PENDING" \/ here # rec)
    BY <2>1, <2>2, <2>4, <1>1, <1>8
  <2>. QED
    BY <2>3, <2>4
<1>9. CASE "PENDING" \in states
  <2>. HIDE DEF here
  <2>1. r = here /\ states # {"FILLED"}
    BY <1>5, <1>9
  <2>2. Fair(r)
    BY <2>1, <1>1, <1>6 DEF Fair
  <2>. QED
    BY <2>1, <2>2, <1>1, <1>9
<1>10. CASE "PENDING" \notin states /\ states # {"FILLED"}
  <2>. HIDE DEF here
  <2>1. PICK kind \in Kinds \ {"PLAYED"}, up \in {the("FILLED"), NoTeam}, down \in {the("FORFEITED"), NoTeam} :
          r = Over(here, kind, up, down) /\ ("FILLED" \in states => up = the("FILLED"))
    BY <1>5, <1>10 DEF Kinds
  <2>2. /\ r \in Records(E) /\ r.team = here.team /\ r.status = "COMPLETED"
        /\ r.kind = kind /\ r.winner = up /\ r.loser = down
    BY <2>1, <1>1, <1>6, OverIs
  <2>3. up \notin G /\ down \in G \cup {NoTeam}
    BY <1>3, <1>4
  <2>4. Fair(r)
    <3>1. {r.winner, r.loser} \subseteq {r.team[1], r.team[2], NoTeam}
      BY <2>2, <1>1, <1>6
    <3>2. r.winner = r.loser => r.winner = NoTeam
      BY <2>2, <2>3
    <3>. QED
      BY <2>2, <3>1, <3>2 DEF Fair
  <2>. QED
    BY <2>1, <2>2, <2>3, <2>4, <1>1, <1>10
<1>. QED
  BY <1>8, <1>9, <1>10

LEMMA FeederOf ==
  ASSUME NEW x, NEW rank, Shape(x, rank), NEW m \in Ids(x), NEW s \in Ways, NEW f \in Feeds(x, m, s)
  PROVE  /\ f \in SlotsOf(x) /\ f[1] \in Ids(x) /\ f[2] \in Ways /\ f[1] # GrandReset
         /\ <<m, s>> \in Out(x, f[1], f[2]) /\ \A g \in Feeds(x, m, s) : g = f
<1>1. f \in SlotsOf(x) /\ <<m, s>> \in Out(x, f[1], f[2]) /\ \A g \in Feeds(x, m, s) : g = f
  BY DEF Shape, Fed
<1>2. f[1] \in Ids(x) /\ f[2] \in Ways
  BY <1>1 DEF SlotsOf
<1>3. f[1] # GrandReset
  BY <1>1, <1>2 DEF Shape, Leads
<1>. QED
  BY <1>1, <1>2, <1>3

\* A slot of an open match as evaluate_slot sees it.
SlotSeen(x, E, b, m, s, e) ==
  LET own == At(b, m, s)
      done(f) == Completed(b, f[1])
      sent(f) == Sends(b, f[1], f[2])
  IN /\ Seen(E, x.gone, e)
     /\ own # NoTeam => e.team = own
     /\ own = NoTeam /\ e.team # NoTeam => \E f \in Feeds(x, m, s) : done(f) /\ e.team = sent(f)
     /\ own = NoTeam => (e.state = "PENDING" <=> \E f \in Feeds(x, m, s) : ~done(f))
     /\ own = NoTeam => \A f \in Feeds(x, m, s) : done(f) /\ sent(f) \notin x.gone \cup {NoTeam} => e.team = sent(f)

LEMMA SlotOfIs ==
  ASSUME NEW x, NEW rank, NEW E, NEW b, World(x, rank, E), Hung(x, E, b),
         NEW m \in DOMAIN b, NEW s \in Ways
  PROVE  SlotSeen(x, E, b, m, s, SlotOf(x, b, m, s))
<1> DEFINE present(t) == [state |-> IF t \in x.gone THEN "FORFEITED" ELSE "FILLED", team |-> t]
           F == Feeds(x, m, s)
           up   == {b[f[1]].winner : f \in {g \in F : g[2] = 1}} \ {NoTeam}
           down == {b[f[1]].loser : f \in {g \in F : g[2] = 2}} \ (x.gone \cup {NoTeam})
           own == At(b, m, s)
           e == SlotOf(x, b, m, s)
<1>1. e = CASE own # NoTeam -> present(own)
            [] own = NoTeam /\ \E f \in F : ~Completed(b, f[1]) -> [state |-> "PENDING", team |-> NoTeam]
            [] OTHER -> IF up \cup down = {} THEN [state |-> "EMPTY", team |-> NoTeam]
                        ELSE present(CHOOSE t \in up \cup down : TRUE)
  BY DEF SlotOf, At
<1>2. \A t \in E : Seen(E, x.gone, present(t)) /\ present(t).team = t /\ present(t).state # "PENDING"
  BY DEF World, Seen, Places, SlotStates
<1>3. b[m] \in Records(E) /\ own \in E \cup {NoTeam} /\ m \in Ids(x) /\ Shape(x, rank)
  BY DEF Hung, Records, Places, Ways, At, World
<1>4. \A f \in F : /\ f[1] \in DOMAIN b /\ b[f[1]] \in Records(E) /\ (\A g \in F : g = f) /\ f[2] \in {1, 2}
                   /\ Sends(b, f[1], f[2]) \in E \cup {NoTeam}
  <2>. TAKE f \in F
  <2>1. f[1] \in Ids(x) /\ f[1] # GrandReset /\ (\A g \in F : g = f) /\ f[2] \in Ways
    BY <1>3, FeederOf
  <2>2. f[1] \in DOMAIN b /\ b[f[1]] \in Records(E)
    BY <2>1 DEF Hung
  <2>. QED
    BY <2>1, <2>2 DEF Sends, Records, Places, Ways
<1>5. \A f \in F : up \cup down = {Sends(b, f[1], f[2])} \ (IF f[2] = 1 THEN {NoTeam} ELSE x.gone \cup {NoTeam})
  <2>. TAKE f \in F
  <2>1. F = {f} /\ f[2] \in {1, 2}
    BY <1>4
  <2>2. CASE f[2] = 1
    <3>1. up = {b[f[1]].winner} \ {NoTeam} /\ down = {}
      BY <2>1, <2>2
    <3>. QED
      BY <3>1, <2>2 DEF Sends
  <2>3. CASE f[2] = 2
    <3>1. up = {} /\ down = {b[f[1]].loser} \ (x.gone \cup {NoTeam})
      BY <2>1, <2>3
    <3>. QED
      BY <3>1, <2>3 DEF Sends
  <2>. QED
    BY <2>1, <2>2, <2>3
<1>6. up \cup down # {} => \E f \in F : (CHOOSE t \in up \cup down : TRUE) = Sends(b, f[1], f[2])
                                        /\ Sends(b, f[1], f[2]) \in E
  <2>. HAVE up \cup down # {}
  <2>1. PICK f : f \in F
    OBVIOUS
  <2>2. (CHOOSE t \in up \cup down : TRUE) \in up \cup down
    OBVIOUS
  <2>3. Sends(b, f[1], f[2]) \in E \cup {NoTeam}
    BY <1>4, <2>1
  <2>4. up \cup down \subseteq {Sends(b, f[1], f[2])} \ {NoTeam}
    BY <1>5, <2>1
  <2>. HIDE DEF up, down, F
  <2>. QED
    BY <2>1, <2>2, <2>3, <2>4
<1>. HIDE DEF e, up, down, own, F, present
<1>. SUFFICES /\ Seen(E, x.gone, e)
              /\ own # NoTeam => e.team = own
              /\ own = NoTeam /\ e.team # NoTeam =>
                   \E f \in F : Completed(b, f[1]) /\ e.team = Sends(b, f[1], f[2])
              /\ own = NoTeam => (e.state = "PENDING" <=> \E f \in F : ~Completed(b, f[1]))
              /\ own = NoTeam => \A f \in F :
                   Completed(b, f[1]) /\ Sends(b, f[1], f[2]) \notin x.gone \cup {NoTeam}
                     => e.team = Sends(b, f[1], f[2])
  BY DEF e, own, F, SlotSeen
<1>7. CASE own # NoTeam
  <2>1. e = present(own)
    BY <1>1, <1>7
  <2>. QED
    BY <1>2, <1>3, <1>7, <2>1
<1>8. CASE own = NoTeam /\ \E f \in F : ~Completed(b, f[1])
  <2>1. e = [state |-> "PENDING", team |-> NoTeam]
    BY <1>1, <1>8
  <2>2. Seen(E, x.gone, e)
    BY <2>1 DEF Seen, Places, SlotStates
  <2>3. \A f \in F : ~Completed(b, f[1])
    BY <1>4, <1>8
  <2>. QED
    BY <1>8, <2>1, <2>2, <2>3
<1>9. CASE own = NoTeam /\ ~\E f \in F : ~Completed(b, f[1])
  <2>1. CASE up \cup down = {}
    <3>1. e = [state |-> "EMPTY", team |-> NoTeam]
      BY <1>1, <1>9, <2>1
    <3>2. Seen(E, x.gone, e)
      BY <3>1 DEF Seen, Places, SlotStates
    <3>3. \A f \in F : ~(Sends(b, f[1], f[2]) \notin x.gone \cup {NoTeam})
      BY <1>5, <2>1
    <3>. QED
      BY <1>9, <3>1, <3>2, <3>3
  <2>2. CASE up \cup down # {}
    <3> DEFINE t == CHOOSE u \in up \cup down : TRUE
    <3>1. e = present(t)
      BY <1>1, <1>9, <2>2
    <3>2. PICK f \in F : t = Sends(b, f[1], f[2]) /\ t \in E
      BY <1>6, <2>2
    <3>. HIDE DEF t
    <3>3. \A g \in F : g = f
      BY <1>4
    <3>. QED
      BY <1>2, <1>9, <3>1, <3>2, <3>3
  <2>. QED
    BY <2>1, <2>2
<1>. QED
  BY <1>7, <1>8, <1>9

LEMMA SettledIs ==
  ASSUME NEW E, NEW G, NoTeam \notin G, NEW slot \in [Ways -> [state : SlotStates, team : Places(E)]],
         \A s \in Ways : Seen(E, G, slot[s])
  PROVE  LET e == Settled(slot)
         IN /\ Seen(E, G, e[1]) /\ Seen(E, G, e[2])
            /\ \A s \in Ways : e[s] = slot[s] \/ (/\ slot[s].team \in G /\ slot[3 - s].state = "EMPTY"
                                                 /\ e[1].state = "EMPTY" /\ e[2].state = "EMPTY")
<1> DEFINE e == Settled(slot)
           alone(s) == slot[s].state = "FORFEITED" /\ slot[3 - s].state = "EMPTY"
<1>1. /\ e[1] = IF alone(1) THEN slot[2] ELSE slot[1]
      /\ e[2] = IF alone(2) THEN slot[1] ELSE slot[2]
  BY DEF Settled
<1>2. Seen(E, G, slot[1]) /\ Seen(E, G, slot[2])
  BY DEF Ways
<1>3. \A s \in Ways : slot[s].state = "FORFEITED" => slot[s].team \in G
  BY DEF Seen
<1>4. Seen(E, G, e[1]) /\ Seen(E, G, e[2])
  <2>. HIDE DEF e
  <2>. QED
    BY <1>1, <1>2
<1>5. e[1] = slot[1] \/ (slot[1].team \in G /\ slot[2].state = "EMPTY" /\ e[1].state = "EMPTY" /\ e[2].state = "EMPTY")
  <2>. HIDE DEF e
  <2>. QED
    BY <1>1, <1>3 DEF Ways
<1>6. e[2] = slot[2] \/ (slot[2].team \in G /\ slot[1].state = "EMPTY" /\ e[1].state = "EMPTY" /\ e[2].state = "EMPTY")
  <2>. HIDE DEF e
  <2>. QED
    BY <1>1, <1>3 DEF Ways
<1>. HIDE DEF e
<1>7. \A s \in Ways : e[s] = slot[s] \/ (/\ slot[s].team \in G /\ slot[3 - s].state = "EMPTY"
                                        /\ e[1].state = "EMPTY" /\ e[2].state = "EMPTY")
  BY <1>5, <1>6 DEF Ways
<1>. QED
  BY <1>4, <1>7 DEF e

Own(b, m) == {At(b, m, 1), At(b, m, 2)}

\* What becomes of slot s of an open match m when it is decided as r.
SlotKept(x, b, m, r, s) ==
  LET own == At(b, m, s)
      done(f) == Completed(b, f[1])
      sent(f) == Sends(b, f[1], f[2])
  IN /\ r.team[s] \in {own, NoTeam} \/ (own = NoTeam /\ \E f \in Feeds(x, m, s) : done(f) /\ r.team[s] = sent(f))
     /\ own # NoTeam => \/ r.team[s] = own
                        \/ own \in x.gone /\ r.status = "COMPLETED" /\ At(b, m, 3 - s) = NoTeam
     /\ own = NoTeam => \A f \in Feeds(x, m, s) :
          /\ done(f) /\ sent(f) \notin x.gone \cup {NoTeam} => r.team[s] = sent(f)
          /\ r.status = "COMPLETED" => done(f)

\* A match that was decided without a game: an active team is its winner.
Wins(x, r) == \A s \in Ways : r.team[s] \notin x.gone \cup {NoTeam} => r.winner = r.team[s]

\* What becomes of an open match m when it is decided as r.
Ruled(x, E, b, m, r) ==
  /\ r \in Records(E) /\ Fair(r)
  /\ \A s \in Ways : SlotKept(x, b, m, r, s)
  /\ r.status = "COMPLETED" => r.winner \notin x.gone /\ r.loser \in x.gone \cup {NoTeam} /\ Wins(x, r)
  /\ NoTeam \notin Own(b, m) =>
       /\ r.team = b[m].team
       /\ r.status # "COMPLETED" /\ b[m].status # "PENDING" => r.status = b[m].status
  /\ r.status = "IN_PROGRESS" => b[m].status = "IN_PROGRESS"
  /\ Own(b, m) \cap (x.gone \cup {NoTeam}) = {} => r.status # "COMPLETED"

LEMMA DecidedIs ==
  ASSUME NEW x, NEW rank, NEW E, NEW b, World(x, rank, E), Hung(x, E, b),
         NEW m \in DOMAIN b, ~Completed(b, m)
  PROVE  Ruled(x, E, b, m, Decided(x, b, m))
<1> DEFINE slot == [s \in {1, 2} |-> SlotOf(x, b, m, s)]
           e == Settled(slot)
           r == Decided(x, b, m)
           G == x.gone
<1>1. b[m] \in Records(E) /\ b[m].status # "COMPLETED" /\ NoTeam \notin E /\ NoTeam \notin G /\ Fair(b[m])
  BY DEF Hung, Completed, World
<1>2. \A s \in Ways : SlotSeen(x, E, b, m, s, slot[s])
  BY SlotOfIs DEF Ways
<1>3. slot \in [Ways -> [state : SlotStates, team : Places(E)]] /\ \A s \in Ways : Seen(E, G, slot[s])
  <2>1. DOMAIN slot = Ways /\ slot = [s \in DOMAIN slot |-> slot[s]]
    BY DEF Ways
  <2>. HIDE DEF slot
  <2>2. \A s \in Ways : Seen(E, G, slot[s])
    BY <1>2 DEF SlotSeen
  <2>. QED
    BY <2>1, <2>2 DEF Seen
<1>5. r = DecidedBy(b[m], e)
  BY DEF Decided, Slots
<1>. HIDE DEF slot
<1>6. /\ Seen(E, G, e[1]) /\ Seen(E, G, e[2])
      /\ \A s \in Ways : e[s] = slot[s] \/ (/\ slot[s].team \in G /\ slot[3 - s].state = "EMPTY"
                                           /\ e[1].state = "EMPTY" /\ e[2].state = "EMPTY")
  BY <1>1, <1>3, SettledIs
<1>. HIDE DEF e, r, G
<1>7. /\ r \in Records(E) /\ Fair(r)
      /\ r.team = <<e[1].team, e[2].team>>
      /\ r.status = "COMPLETED" =>
           /\ e[1].state # "PENDING" /\ e[2].state # "PENDING"
           /\ e[1].state # "FILLED" \/ e[2].state # "FILLED"
           /\ r.winner \notin G /\ r.loser \in G \cup {NoTeam}
           /\ \A s \in Ways : e[s].state = "FILLED" => r.winner = e[s].team
      /\ r.status # "COMPLETED" =>
           /\ e[1].state = "PENDING" \/ e[2].state = "PENDING" \/ (e[1].state = "FILLED" /\ e[2].state = "FILLED")
           /\ r.status \in {b[m].status, "READY"}
           /\ b[m].status # "PENDING" /\ b[m].team = r.team => r.status = b[m].status
  <2>1. /\ b[m] \in Records(E) /\ Fair(b[m]) /\ b[m].status # "COMPLETED" /\ NoTeam \notin E /\ NoTeam \notin G
        /\ Seen(E, G, e[1]) /\ Seen(E, G, e[2])
    BY <1>1, <1>6
  <2>. QED
    BY <1>5, <2>1, DecidedByIs
<1>8. \A s \in Ways : r.team[s] = e[s].team
  BY <1>7 DEF Ways
<1>9. \A s \in Ways : 3 - s \in Ways /\ 3 - (3 - s) = s
  BY DEF Ways
<1>10. \A s \in Ways : slot[s].state = "EMPTY" => At(b, m, s) = NoTeam /\ slot[s].team = NoTeam
  BY <1>2, <1>3 DEF Seen, SlotSeen
<1>11. ASSUME NEW s \in Ways PROVE SlotKept(x, b, m, r, s)
  <2>1. SlotSeen(x, E, b, m, s, slot[s])
    BY <1>2
  <2>5. CASE e[s] = slot[s]
    <3>1. r.team[s] = slot[s].team
      BY <1>8, <2>5
    <3>2. r.status = "COMPLETED" => slot[s].state # "PENDING"
      BY <1>7, <2>5 DEF Ways
    <3>. QED
      BY <2>1, <3>1, <3>2 DEF SlotKept, SlotSeen
  <2>6. CASE e[s] # slot[s]
    <3>1. slot[s].team \in G /\ slot[3 - s].state = "EMPTY" /\ e[1].state = "EMPTY" /\ e[2].state = "EMPTY"
      BY <1>6, <2>6
    <3>2. r.team[s] = NoTeam /\ r.status = "COMPLETED"
      BY <1>6, <1>7, <1>8, <3>1 DEF Seen, Ways
    <3>3. At(b, m, 3 - s) = NoTeam
      BY <1>9, <1>10, <3>1
    <3>4. slot[s].state # "PENDING" /\ slot[s].team # NoTeam
      BY <1>1, <1>3, <3>1 DEF Seen
    <3>. QED
      BY <2>1, <3>1, <3>2, <3>3, <3>4 DEF SlotKept, SlotSeen, G
  <2>. QED
    BY <2>5, <2>6
<1>12. ASSUME NoTeam \notin Own(b, m)
       PROVE  /\ r.team = b[m].team
              /\ r.status # "COMPLETED" /\ b[m].status # "PENDING" => r.status = b[m].status
              /\ e[1] = slot[1] /\ e[2] = slot[2]
              /\ e[1].team = At(b, m, 1) /\ e[2].team = At(b, m, 2)
  <2>1. At(b, m, 1) # NoTeam /\ At(b, m, 2) # NoTeam
    BY <1>12 DEF Own
  <2>2. slot[1].state # "EMPTY" /\ slot[2].state # "EMPTY"
    BY <1>10, <2>1 DEF Ways
  <2>3. e[1] = slot[1] /\ e[2] = slot[2]
    BY <1>6, <2>2 DEF Ways
  <2>4. e[1].team = At(b, m, 1) /\ e[2].team = At(b, m, 2)
    BY <1>2, <2>1, <2>3 DEF Ways, SlotSeen
  <2>5. b[m].team = <<At(b, m, 1), At(b, m, 2)>>
    BY <1>1 DEF Records, At
  <2>6. r.team = b[m].team
    BY <1>7, <2>4, <2>5
  <2>. QED
    BY <1>7, <2>3, <2>4, <2>6
<1>13. ASSUME Own(b, m) \cap (G \cup {NoTeam}) = {}
       PROVE  r.status # "COMPLETED"
  <2>1. NoTeam \notin Own(b, m) /\ At(b, m, 1) \notin G \cup {NoTeam} /\ At(b, m, 2) \notin G \cup {NoTeam}
    BY <1>13 DEF Own
  <2>2. e[1].team = At(b, m, 1) /\ e[2].team = At(b, m, 2)
    BY <1>12, <2>1
  <2>3. e[1].state = "FILLED" /\ e[2].state = "FILLED"
    BY <1>6, <2>1, <2>2 DEF Seen
  <2>. QED
    BY <1>7, <2>3
<1>14. r.status = "IN_PROGRESS" => b[m].status = "IN_PROGRESS"
  BY <1>7
<1>15. r.status = "COMPLETED" => Wins(x, r)
  <2>1. \A s \in Ways : r.team[s] \notin G \cup {NoTeam} => e[s].state = "FILLED"
    BY <1>6, <1>8 DEF Seen, Ways
  <2>. QED
    BY <1>7, <1>8, <2>1 DEF Wins, G
<1>. QED
  BY <1>7, <1>11, <1>12, <1>13, <1>14, <1>15 DEF r, G, Ruled

-----------------------------------------------------------------------------
(***************************************************************************)
(* One step of check_and_advance_match keeps the tree sound.               *)
(***************************************************************************)

\* No active team loses its place in what a run makes of b, nor a match it did not play.
Spares(x, b, c) ==
  \A m \in DOMAIN b :
    /\ \A s \in Ways : At(b, m, s) \notin x.gone \cup {NoTeam} => At(c, m, s) = At(b, m, s)
    /\ ~Completed(b, m) /\ Completed(c, m) => Wins(x, c[m])

\* What a run leaves of a bracket b when it has made it c.
Keeps(x, b, c) ==
  /\ DOMAIN c = DOMAIN b /\ Spares(x, b, c)
  /\ \A m \in DOMAIN b :
       /\ Completed(b, m) => c[m] = b[m]
       /\ ~Completed(c, m) => \A s \in Ways : At(b, m, s) # NoTeam => At(c, m, s) = At(b, m, s)
       /\ ~Completed(b, m) /\ Own(b, m) \cap (x.gone \cup {NoTeam}) = {} => ~Completed(c, m)
       /\ NoTeam \notin Own(b, m) =>
            /\ c[m].team = b[m].team
            /\ b[m].status = "IN_PROGRESS" => c[m].status \in {"IN_PROGRESS", "COMPLETED"}
       /\ c[m].status = "IN_PROGRESS" => b[m].status = "IN_PROGRESS"

LEMMA SparesTransitive ==
  ASSUME NEW x, NEW b, NEW c, NEW d, DOMAIN c = DOMAIN b, Spares(x, b, c), Spares(x, c, d),
         \A m \in DOMAIN c : Completed(c, m) => d[m] = c[m]
  PROVE  Spares(x, b, d)
<1>. SUFFICES ASSUME NEW m \in DOMAIN b
     PROVE  /\ \A s \in Ways : At(b, m, s) \notin x.gone \cup {NoTeam} => At(d, m, s) = At(b, m, s)
            /\ ~Completed(b, m) /\ Completed(d, m) => Wins(x, d[m])
  BY DEF Spares
<1>1. \A s \in Ways : At(b, m, s) \notin x.gone \cup {NoTeam} => At(d, m, s) = At(b, m, s)
  BY DEF Spares
<1>2. ASSUME ~Completed(b, m), Completed(d, m) PROVE Wins(x, d[m])
  <2>1. CASE Completed(c, m)
    BY <1>2, <2>1 DEF Spares
  <2>2. CASE ~Completed(c, m)
    BY <1>2, <2>2 DEF Spares
  <2>. QED
    BY <2>1, <2>2
<1>. QED
  BY <1>1, <1>2

LEMMA SparesReflexive ==
  ASSUME NEW x, NEW b
  PROVE  Spares(x, b, b)
BY DEF Spares

LEMMA KeepsTransitive ==
  ASSUME NEW x, NEW b, NEW c, NEW d, Keeps(x, b, c), Keeps(x, c, d)
  PROVE  Keeps(x, b, d)
<1>1. DOMAIN c = DOMAIN b /\ DOMAIN d = DOMAIN b /\ Spares(x, b, d)
  <2>1. /\ DOMAIN c = DOMAIN b /\ DOMAIN d = DOMAIN c /\ Spares(x, b, c) /\ Spares(x, c, d)
        /\ \A m \in DOMAIN c : Completed(c, m) => d[m] = c[m]
    BY DEF Keeps
  <2>. QED
    BY <2>1, SparesTransitive
<1>. SUFFICES ASSUME NEW m \in DOMAIN b
     PROVE  /\ Completed(b, m) => d[m] = b[m]
            /\ ~Completed(d, m) => \A s \in Ways : At(b, m, s) # NoTeam => At(d, m, s) = At(b, m, s)
            /\ ~Completed(b, m) /\ Own(b, m) \cap (x.gone \cup {NoTeam}) = {} => ~Completed(d, m)
            /\ NoTeam \notin Own(b, m) =>
                 /\ d[m].team = b[m].team
                 /\ b[m].status = "IN_PROGRESS" => d[m].status \in {"IN_PROGRESS", "COMPLETED"}
            /\ d[m].status = "IN_PROGRESS" => b[m].status = "IN_PROGRESS"
  BY <1>1 DEF Keeps
<1>2. /\ Completed(b, m) => c[m] = b[m]
      /\ ~Completed(c, m) => \A s \in Ways : At(b, m, s) # NoTeam => At(c, m, s) = At(b, m, s)
      /\ ~Completed(b, m) /\ Own(b, m) \cap (x.gone \cup {NoTeam}) = {} => ~Completed(c, m)
      /\ NoTeam \notin Own(b, m) =>
           /\ c[m].team = b[m].team
           /\ b[m].status = "IN_PROGRESS" => c[m].status \in {"IN_PROGRESS", "COMPLETED"}
      /\ c[m].status = "IN_PROGRESS" => b[m].status = "IN_PROGRESS"
  BY DEF Keeps
<1>3. /\ Completed(c, m) => d[m] = c[m]
      /\ ~Completed(d, m) => \A s \in Ways : At(c, m, s) # NoTeam => At(d, m, s) = At(c, m, s)
      /\ ~Completed(c, m) /\ Own(c, m) \cap (x.gone \cup {NoTeam}) = {} => ~Completed(d, m)
      /\ NoTeam \notin Own(c, m) =>
           /\ d[m].team = c[m].team
           /\ c[m].status = "IN_PROGRESS" => d[m].status \in {"IN_PROGRESS", "COMPLETED"}
      /\ d[m].status = "IN_PROGRESS" => c[m].status = "IN_PROGRESS"
  BY <1>1 DEF Keeps
<1>4. Completed(c, m) => Completed(d, m)
  BY <1>3 DEF Completed
<1>5. NoTeam \notin Own(b, m) => Own(c, m) = Own(b, m)
  BY <1>2 DEF Own, At
<1>6. Completed(b, m) => Completed(c, m)
  BY <1>2 DEF Completed
<1>7. Own(b, m) \cap (x.gone \cup {NoTeam}) = {} => NoTeam \notin Own(b, m)
  OBVIOUS
<1>8. c[m].status = "COMPLETED" => d[m].status = "COMPLETED"
  BY <1>4 DEF Completed
<1>9. ~Completed(d, m) => \A s \in Ways : At(b, m, s) # NoTeam => At(d, m, s) = At(b, m, s)
  BY <1>2, <1>3, <1>4
<1>10. ~Completed(b, m) /\ Own(b, m) \cap (x.gone \cup {NoTeam}) = {} => ~Completed(d, m)
  BY <1>2, <1>3, <1>5, <1>7
<1>11. Completed(b, m) => d[m] = b[m]
  BY <1>2, <1>3, <1>6
<1>12. NoTeam \notin Own(b, m) =>
                 /\ d[m].team = b[m].team
                 /\ b[m].status = "IN_PROGRESS" => d[m].status \in {"IN_PROGRESS", "COMPLETED"}
  BY <1>2, <1>3, <1>5, <1>8
<1>. QED
  BY <1>2, <1>3, <1>9, <1>10, <1>11, <1>12

LEMMA KeepsReflexive ==
  ASSUME NEW x, NEW b
  PROVE  Keeps(x, b, b)
BY SparesReflexive DEF Keeps

LEMMA PutIs ==
  ASSUME NEW E, NEW b, b \in [DOMAIN b -> Records(E)], NEW to \in (DOMAIN b) \X Ways, NEW t \in E, t # NoTeam
  PROVE  LET c == Put(b, to, t)
         IN /\ DOMAIN c = DOMAIN b /\ c \in [DOMAIN b -> Records(E)]
            /\ \A m \in DOMAIN b :
                 /\ m # to[1] => c[m] = b[m]
                 /\ c[m].status = b[m].status /\ c[m].winner = b[m].winner
                 /\ c[m].loser = b[m].loser /\ c[m].kind = b[m].kind
                 /\ \A s \in Ways : At(c, m, s) = IF <<m, s>> = to THEN t ELSE At(b, m, s)
            /\ At(b, to[1], to[2]) = t => c = b
<1> DEFINE m == to[1]
           c == Put(b, to, t)
           r == [b[m] EXCEPT !.team = [@ EXCEPT ![to[2]] = t]]
<1>0. to = <<to[1], to[2]>> /\ to[1] \in DOMAIN b /\ to[2] \in {1, 2}
  <2>1. to = <<to[1], to[2]>> /\ to[1] \in DOMAIN b /\ to[2] \in Ways
    OBVIOUS
  <2>. QED
    BY <2>1 DEF Ways
<1>1. c = [b EXCEPT ![m] = r]
  BY DEF Put
<1>2. /\ b[m] \in Records(E) /\ b[m].team \in Places(E) \X Places(E)
      /\ b[m].team = <<b[m].team[1], b[m].team[2]>>
  BY <1>0 DEF Records
<1>3. [b[m].team EXCEPT ![to[2]] = t] = <<IF to[2] = 1 THEN t ELSE b[m].team[1], IF to[2] = 2 THEN t ELSE b[m].team[2]>>
  BY <1>0, <1>2
<1>4. r = [b[m] EXCEPT !.team = <<IF to[2] = 1 THEN t ELSE b[m].team[1], IF to[2] = 2 THEN t ELSE b[m].team[2]>>]
  BY <1>3
<1>. HIDE DEF c, r
<1>5. /\ r \in Records(E) /\ r.status = b[m].status /\ r.winner = b[m].winner /\ r.loser = b[m].loser /\ r.kind = b[m].kind
      /\ \A s \in Ways : r.team[s] = IF s = to[2] THEN t ELSE b[m].team[s]
      /\ b[m].team[to[2]] = t => r = b[m]
  <2> DEFINE tt == <<IF to[2] = 1 THEN t ELSE b[m].team[1], IF to[2] = 2 THEN t ELSE b[m].team[2]>>
  <2>1. tt \in Places(E) \X Places(E) /\ tt[1] = (IF to[2] = 1 THEN t ELSE b[m].team[1]) /\ tt[2] = IF to[2] = 2 THEN t ELSE b[m].team[2]
    BY <1>2 DEF Places
  <2>2. b[m].team[to[2]] = t => tt = b[m].team
    BY <1>0, <1>2
  <2>. HIDE DEF tt
  <2>3. r = [b[m] EXCEPT !.team = tt]
    BY <1>4 DEF tt
  <2>. QED
    BY <1>0, <1>2, <2>1, <2>2, <2>3 DEF Records, Ways
<1>6. /\ DOMAIN c = DOMAIN b /\ c \in [DOMAIN b -> Records(E)] /\ c[m] = r
      /\ \A n \in DOMAIN b : n # m => c[n] = b[n]
  BY <1>0, <1>1, <1>5
<1>7. ASSUME NEW n \in DOMAIN b
      PROVE  /\ n # m => c[n] = b[n]
             /\ c[n].status = b[n].status /\ c[n].winner = b[n].winner
             /\ c[n].loser = b[n].loser /\ c[n].kind = b[n].kind
             /\ \A s \in Ways : At(c, n, s) = IF <<n, s>> = to THEN t ELSE At(b, n, s)
  <2>1. \A s \in Ways : <<n, s>> = to <=> n = m /\ s = to[2]
    BY <1>0
  <2>. QED
    BY <1>5, <1>6, <2>1 DEF At
<1>8. At(b, to[1], to[2]) = t => c = b
  <2>. HAVE At(b, to[1], to[2]) = t
  <2>1. r = b[m]
    BY <1>5 DEF At
  <2>. QED
    BY <1>0, <1>1, <2>1
<1>. QED
  BY <1>6, <1>7, <1>8 DEF c

LEMMA PutSound ==
  ASSUME NEW x, NEW rank, NEW E, NEW b, NEW D, World(x, rank, E), Sound(x, E, b, D),
         NEW f \in SlotsOf(x), NEW to \in Out(x, f[1], f[2]), Completed(b, f[1]), f[1] \in DOMAIN b,
         Sends(b, f[1], f[2]) \notin x.gone \cup {NoTeam}
  PROVE  LET c == Put(b, to, Sends(b, f[1], f[2]))
         IN Sound(x, E, c, D \ {to}) /\ Keeps(x, b, c)
            /\ \A m \in DOMAIN b : c[m].status = b[m].status /\ (Completed(b, m) => c[m] = b[m])
<1> DEFINE t == Sends(b, f[1], f[2])
           c == Put(b, to, t)
<1>1. /\ f[1] \in Ids(x) /\ f[2] \in Ways /\ to \in SlotsOf(x) /\ to[1] # GrandReset /\ f \in Feeds(x, to[1], to[2])
      /\ to[1] \in Ids(x) /\ to[2] \in Ways /\ to = <<to[1], to[2]>>
  <2>1. Shape(x, rank) /\ f[1] \in Ids(x) /\ f[2] \in Ways
    BY DEF World, SlotsOf
  <2>2. to \in SlotsOf(x) /\ to[1] # GrandReset
    BY <2>1 DEF Shape, Leads
  <2>3. f \in Feeds(x, to[1], to[2])
    BY <2>1 DEF Shape, Fed
  <2>4. to[1] \in Ids(x) /\ to[2] \in Ways /\ to = <<to[1], to[2]>>
    BY <2>2 DEF SlotsOf
  <2>. QED
    BY <2>1, <2>2, <2>3, <2>4
<1>2. Hung(x, E, b) /\ Follows(x, b, D) /\ Begins(x, b) /\ Reset(b) /\ Shape(x, rank)
  BY DEF Sound, World
<1>3. to \in (DOMAIN b) \X Ways /\ b \in [DOMAIN b -> Records(E)]
  <2>1. to[1] \in DOMAIN b /\ b \in [DOMAIN b -> Records(E)]
    BY <1>1, <1>2 DEF Hung
  <2>2. <<to[1], to[2]>> \in (DOMAIN b) \X Ways
    BY <1>1, <2>1
  <2>. QED
    BY <1>1, <2>1, <2>2
<1>4. t \in E /\ t # NoTeam
  <2>1. b[f[1]] \in Records(E)
    BY <1>3
  <2>. QED
    BY <2>1 DEF Sends, Records, Places
<1>5. Flows(x, b, D, f[1], f[2], to)
  BY <1>1, <1>2 DEF Follows
<1>6. /\ DOMAIN c = DOMAIN b /\ c \in [DOMAIN b -> Records(E)]
      /\ \A m \in DOMAIN b :
           /\ m # to[1] => c[m] = b[m]
           /\ c[m].status = b[m].status /\ c[m].winner = b[m].winner
           /\ c[m].loser = b[m].loser /\ c[m].kind = b[m].kind
           /\ \A s \in Ways : At(c, m, s) = IF <<m, s>> = to THEN t ELSE At(b, m, s)
      /\ At(b, to[1], to[2]) = t => c = b
  BY <1>3, <1>4, PutIs
<1>. HIDE DEF t, c
<1>7. \A m \in DOMAIN b : Completed(b, m) => c[m] = b[m]
  <2>. TAKE m \in DOMAIN b
  <2>. HAVE Completed(b, m)
  <2>1. m = to[1] => At(b, to[1], to[2]) = t
    BY <1>4, <1>5 DEF Flows, t
  <2>. QED
    BY <1>6, <2>1
<1>8. \A m \in DOMAIN b : (Completed(c, m) <=> Completed(b, m)) /\ \A w : Sends(c, m, w) = Sends(b, m, w)
  BY <1>6 DEF Completed, Sends
<1>9. Hung(x, E, c)
  <2>1. \A m \in DOMAIN c : Fair(c[m])
    <3>. TAKE m \in DOMAIN c
    <3>1. Fair(b[m]) /\ m \in DOMAIN b
      BY <1>2, <1>6 DEF Hung
    <3>2. CASE Completed(b, m)
      BY <1>7, <3>1, <3>2
    <3>3. CASE ~Completed(b, m)
      BY <1>6, <3>1, <3>3 DEF Fair, Completed
    <3>. QED
      BY <3>2, <3>3
  <2>. QED
    BY <1>2, <1>6, <2>1 DEF Hung
<1>10. Follows(x, c, D \ {to})
  <2>. SUFFICES ASSUME NEW g \in DOMAIN c, NEW w \in Ways, NEW at \in Out(x, g, w)
       PROVE  Flows(x, c, D \ {to}, g, w, at)
    BY DEF Follows
  <2>1. g \in DOMAIN b /\ g \in Ids(x) /\ Flows(x, b, D, g, w, at)
    BY <1>2, <1>6 DEF Follows, Hung
  <2>2. at \in SlotsOf(x) /\ at[1] # GrandReset
    BY <1>2, <2>1 DEF Shape, Leads
  <2>3. at[1] \in DOMAIN b /\ at[2] \in Ways /\ at = <<at[1], at[2]>>
    BY <1>2, <2>2 DEF SlotsOf, Hung
  <2>4. At(c, at[1], at[2]) = IF at = to THEN t ELSE At(b, at[1], at[2])
    BY <1>6, <2>3
  <2>5. CASE at # to
    <3>1. At(c, at[1], at[2]) = At(b, at[1], at[2])
      BY <2>4, <2>5
    <3>. QED
      BY <1>8, <2>1, <2>3, <2>5, <3>1 DEF Flows
  <2>6. CASE at = to
    <3>1. <<g, w>> \in SlotsOf(x) /\ <<g, w>> \in Feeds(x, to[1], to[2])
      BY <1>2, <2>1, <2>6 DEF Shape, Fed, SlotsOf
    <3>2. <<g, w>> = f
      BY <1>1, <1>2, <3>1 DEF Shape, Fed
    <3>3. g = f[1] /\ w = f[2]
      BY <3>2
    <3>4. At(c, at[1], at[2]) = Sends(c, g, w) /\ Completed(c, g)
      BY <1>8, <2>1, <2>4, <2>6, <3>3 DEF t
    <3>. QED
      BY <3>4 DEF Flows
  <2>. QED
    BY <2>5, <2>6
<1>11. Begins(x, c)
  <2>1. \A p : Unfed(x, p) => At(c, p[1], p[2]) = At(b, p[1], p[2])
    <3>. SUFFICES ASSUME NEW p, Unfed(x, p) PROVE At(c, p[1], p[2]) = At(b, p[1], p[2])
      OBVIOUS
    <3>1. p # to /\ p[1] \in DOMAIN b /\ p[2] \in Ways /\ <<p[1], p[2]>> = p
      BY <1>1, <1>2 DEF Unfed, Hung, SlotsOf
    <3>. QED
      BY <1>6, <3>1
  <2>. QED
    BY <1>2, <2>1 DEF Begins
<1>12. Reset(c)
  <2>. SUFFICES ASSUME GrandReset \in DOMAIN b
       PROVE  /\ Grand \in DOMAIN c /\ Completed(c, Grand)
              /\ \A s \in Ways : At(c, GrandReset, s) \in {At(c, Grand, s), NoTeam}
    BY <1>6 DEF Reset
  <2>1. /\ Grand \in DOMAIN b /\ Completed(b, Grand)
        /\ \A s \in Ways : At(b, GrandReset, s) \in {At(b, Grand, s), NoTeam}
    BY <1>2 DEF Reset
  <2>2. c[Grand] = b[Grand] /\ c[GrandReset] = b[GrandReset]
    BY <1>1, <1>6, <1>7, <2>1
  <2>. QED
    BY <1>6, <2>1, <2>2 DEF At, Completed
<1>13. Keeps(x, b, c)
  <2>1. \A m \in DOMAIN b, s \in Ways : At(b, m, s) # NoTeam => At(c, m, s) = At(b, m, s)
    <3>. TAKE m \in DOMAIN b, s \in Ways
    <3>1. <<m, s>> = to => m = to[1] /\ s = to[2]
      BY <1>1
    <3>. QED
      BY <1>5, <1>6, <3>1 DEF Flows, t
  <2>2. \A m \in DOMAIN b : NoTeam \notin Own(b, m) => c[m].team = b[m].team
    <3>. TAKE m \in DOMAIN b
    <3>. HAVE NoTeam \notin Own(b, m)
    <3>1. At(c, m, 1) = At(b, m, 1) /\ At(c, m, 2) = At(b, m, 2)
      BY <2>1 DEF Own, Ways
    <3>2. c[m] \in Records(E) /\ b[m] \in Records(E)
      BY <1>3, <1>6
    <3>. QED
      BY <3>1, <3>2 DEF At, Records
  <2>3. Spares(x, b, c)
    BY <1>8, <2>1 DEF Spares
  <2>. QED
    BY <1>6, <1>7, <1>8, <2>1, <2>2, <2>3 DEF Keeps
<1>. QED
  BY <1>6, <1>7, <1>9, <1>10, <1>11, <1>12, <1>13 DEF Sound, c, t

LEMMA NothingBehindReset ==
  ASSUME NEW x, NEW rank, Shape(x, rank), NEW s \in Ways, GrandReset \in Ids(x)
  PROVE  Feeds(x, GrandReset, s) = {}
<1>1. SUFFICES ASSUME NEW f \in Feeds(x, GrandReset, s) PROVE FALSE
  OBVIOUS
<1>2. f[1] \in Ids(x) /\ f[2] \in Ways /\ <<GrandReset, s>> \in Out(x, f[1], f[2])
  BY <1>1, FeederOf
<1>3. <<GrandReset, s>>[1] # GrandReset
  BY <1>2 DEF Shape, Leads
<1>. QED
  BY <1>3

LEMMA SlotsInside ==
  ASSUME NEW x, NEW rank, NEW E, NEW b, Shape(x, rank), Hung(x, E, b),
         NEW f \in DOMAIN b, NEW w \in Ways, NEW to \in Out(x, f, w)
  PROVE  to[1] \in DOMAIN b /\ to[2] \in Ways /\ to[1] # GrandReset /\ to[1] # f
<1>1. f \in Ids(x) /\ <<f, w>> \in SlotsOf(x)
  BY DEF Hung, SlotsOf
<1>2. to \in SlotsOf(x) /\ to[1] # GrandReset /\ rank[f] < rank[to[1]] /\ rank[f] \in Nat
  BY <1>1 DEF Shape, Leads
<1>3. to[1] \in Ids(x) /\ to[2] \in Ways
  BY <1>2 DEF SlotsOf
<1>. QED
  BY <1>1, <1>2, <1>3 DEF Hung

LEMMA SlotsAreThere ==
  ASSUME NEW x, NEW rank, NEW E, NEW b, Shape(x, rank), Hung(x, E, b),
         NEW f \in DOMAIN b, NEW w \in Ways, NEW to \in Out(x, f, w)
  PROVE  /\ to \in SlotsOf(x) /\ to = <<to[1], to[2]>> /\ to[1] \in DOMAIN b /\ to[2] \in Ways /\ to[1] # GrandReset
         /\ f \in Ids(x) /\ to[1] # f
         /\ \A g \in Feeds(x, to[1], to[2]) : g = <<f, w>>
         /\ <<f, w>> \in Feeds(x, to[1], to[2])
<1>1. f \in Ids(x) /\ <<f, w>> \in SlotsOf(x)
  BY DEF Hung, SlotsOf
<1>2. to \in SlotsOf(x) /\ to[1] # GrandReset /\ rank[f] < rank[to[1]] /\ rank[f] \in Nat
  BY <1>1 DEF Shape, Leads
<1>3. to = <<to[1], to[2]>> /\ to[1] \in Ids(x) /\ to[2] \in Ways
  BY <1>2 DEF SlotsOf
<1>4. <<f, w>> \in Feeds(x, to[1], to[2])
  BY <1>1 DEF Shape, Fed
<1>5. \A g \in Feeds(x, to[1], to[2]) : g = <<f, w>>
  BY <1>3, <1>4 DEF Shape, Fed
<1>. QED
  BY <1>1, <1>2, <1>3, <1>4, <1>5 DEF Hung

\* The slots that wait when m is decided as r.
Cut(D, m) == D \ ({m} \X Ways)
DueAfter(x, D, m, r) == Cut(D, m) \cup {to \in Out(x, m, 1) : r.winner # NoTeam}

LEMMA DecideSound ==
  ASSUME NEW x, NEW rank, NEW E, NEW b, NEW D, World(x, rank, E), Sound(x, E, b, D),
         NEW m \in DOMAIN b, ~Completed(b, m)
  PROVE  LET r == Decided(x, b, m)
             c == [b EXCEPT ![m] = r]
         IN /\ Sound(x, E, c, DueAfter(x, D, m, r))
            /\ Keeps(x, b, c)
            /\ r.winner \notin x.gone /\ (r.winner # NoTeam => r.status = "COMPLETED")
<1> DEFINE r == Decided(x, b, m)
           c == [b EXCEPT ![m] = r]
           D2 == DueAfter(x, D, m, r)
<1>1. Hung(x, E, b) /\ Follows(x, b, D) /\ Begins(x, b) /\ Reset(b) /\ Shape(x, rank) /\ NoTeam \notin x.gone
  BY DEF Sound, World
<1>2. Ruled(x, E, b, m, r)
  BY <1>1, DecidedIs
<1>3. b \in [DOMAIN b -> Records(E)] /\ m \in Ids(x)
  BY <1>1 DEF Hung
<1>. HIDE DEF r
<1>4. r \in Records(E) /\ Fair(r) /\ (r.status # "COMPLETED" => r.winner = NoTeam /\ r.loser = NoTeam)
      /\ r.winner \notin x.gone /\ r.loser \in x.gone \cup {NoTeam}
  BY <1>1, <1>2 DEF Ruled, Fair
<1>5. DOMAIN c = DOMAIN b /\ c \in [DOMAIN b -> Records(E)] /\ c[m] = r /\ \A n \in DOMAIN b : n # m => c[n] = b[n]
  BY <1>3, <1>4
<1>. HIDE DEF c
<1>6. Hung(x, E, c)
  BY <1>1, <1>4, <1>5 DEF Hung
<1>7. \A s \in Ways : At(c, m, s) = r.team[s]
  BY <1>5 DEF At
<1>8. \A n \in DOMAIN b : n # m => /\ \A s : At(c, n, s) = At(b, n, s) /\ Sends(c, n, s) = Sends(b, n, s)
                                   /\ Completed(c, n) = Completed(b, n)
  BY <1>5 DEF At, Sends, Completed
<1>9. \A s \in Ways : SlotKept(x, b, m, r, s)
  BY <1>2 DEF Ruled
<1>10. \A to \in D : to[1] # m => to \in D2
  <2>. TAKE to \in D
  <2>. HAVE to[1] # m
  <2>1. to \notin {m} \X Ways
    OBVIOUS
  <2>. QED
    BY <2>1 DEF DueAfter, Cut
<1>11. \A to \in Out(x, m, 1) : r.winner # NoTeam => to \in D2
  BY DEF DueAfter
<1>. HIDE DEF D2
<1>12. Follows(x, c, D2)
  <2>. SUFFICES ASSUME NEW g \in DOMAIN b, NEW w \in Ways, NEW at \in Out(x, g, w)
       PROVE  Flows(x, c, D2, g, w, at)
    BY <1>5 DEF Follows
  <2>1. Flows(x, b, D, g, w, at)
    BY <1>1 DEF Follows
  <2>2. /\ at[1] \in DOMAIN b /\ at[2] \in Ways /\ at[1] # g
        /\ \A f \in Feeds(x, at[1], at[2]) : f = <<g, w>>
        /\ <<g, w>> \in Feeds(x, at[1], at[2])
    BY <1>1, SlotsAreThere
  <2>3. CASE g = m
    <3>1. At(b, at[1], at[2]) = NoTeam /\ ~Completed(b, at[1])
      BY <2>1, <2>3 DEF Flows
    <3>2. At(c, at[1], at[2]) = NoTeam /\ ~Completed(c, at[1])
      BY <1>8, <2>2, <2>3, <3>1
    <3>3. Sends(c, g, w) \notin x.gone \cup {NoTeam} => at \in D2
      <4>1. CASE w = 1
        BY <1>5, <1>11, <2>3, <4>1 DEF Sends
      <4>2. CASE w = 2
        BY <1>4, <1>5, <2>3, <4>2 DEF Sends
      <4>. QED
        BY <4>1, <4>2 DEF Ways
    <3>. QED
      BY <3>2, <3>3 DEF Flows
  <2>4. CASE at[1] = m
    <3> DEFINE own == At(b, m, at[2])
    <3>1. SlotKept(x, b, m, r, at[2]) /\ At(c, at[1], at[2]) = r.team[at[2]]
      BY <1>7, <1>9, <2>2, <2>4
    <3>2. Sends(c, g, w) = Sends(b, g, w) /\ Completed(c, g) = Completed(b, g)
      BY <1>8, <2>2, <2>4
    <3>3. <<g, w>>[1] = g /\ <<g, w>>[2] = w
      OBVIOUS
    <3>4. own # NoTeam => Completed(b, g) /\ own = Sends(b, g, w)
      BY <2>1, <2>4 DEF Flows
    <3>5. /\ r.team[at[2]] \in {own, NoTeam} \/ (own = NoTeam /\ Completed(b, g) /\ r.team[at[2]] = Sends(b, g, w))
          /\ own # NoTeam => r.team[at[2]] = own \/ own \in x.gone
          /\ own = NoTeam => /\ Completed(b, g) /\ Sends(b, g, w) \notin x.gone \cup {NoTeam} => r.team[at[2]] = Sends(b, g, w)
                             /\ r.status = "COMPLETED" => Completed(b, g)
      BY <2>2, <2>4, <3>1, <3>3 DEF SlotKept
    <3>6. Sends(b, g, w) # NoTeam => Completed(b, g)
      BY <1>1 DEF Hung, Fair, Sends, Completed
    <3>7. Completed(c, at[1]) => r.status = "COMPLETED"
      BY <1>5, <2>4 DEF Completed
    <3>. HIDE DEF own
    <3>. QED
      BY <3>1, <3>2, <3>4, <3>5, <3>6, <3>7 DEF Flows
  <2>5. CASE g # m /\ at[1] # m
    BY <1>8, <1>10, <2>1, <2>2, <2>5 DEF Flows
  <2>. QED
    BY <2>3, <2>4, <2>5
<1>13. Begins(x, c)
  <2>1. \A p : Unfed(x, p) => At(c, p[1], p[2]) \in {At(b, p[1], p[2]), NoTeam}
    <3>. SUFFICES ASSUME NEW p, Unfed(x, p) PROVE At(c, p[1], p[2]) \in {At(b, p[1], p[2]), NoTeam}
      OBVIOUS
    <3>1. p[1] \in DOMAIN b /\ p[2] \in Ways /\ Feeds(x, p[1], p[2]) = {}
      BY <1>1 DEF Unfed, Hung, SlotsOf
    <3>2. CASE p[1] = m
      BY <1>7, <1>9, <3>1, <3>2 DEF SlotKept
    <3>3. CASE p[1] # m
      BY <1>8, <3>1, <3>3
    <3>. QED
      BY <3>2, <3>3
  <2>. QED
    BY <1>1, <2>1 DEF Begins
<1>14. Reset(c)
  <2>. SUFFICES ASSUME GrandReset \in DOMAIN b
       PROVE  /\ Grand \in DOMAIN c /\ Completed(c, Grand)
              /\ \A s \in Ways : At(c, GrandReset, s) \in {At(c, Grand, s), NoTeam}
    BY <1>5 DEF Reset
  <2>1. /\ Grand \in DOMAIN b /\ Completed(b, Grand)
        /\ \A s \in Ways : At(b, GrandReset, s) \in {At(b, Grand, s), NoTeam}
    BY <1>1 DEF Reset
  <2>2. Grand # m /\ Completed(c, Grand) /\ \A s \in Ways : At(c, Grand, s) = At(b, Grand, s)
    BY <1>8, <2>1
  <2>3. CASE GrandReset # m
    BY <1>5, <1>8, <2>1, <2>2, <2>3
  <2>4. CASE GrandReset = m
    <3>1. \A s \in Ways : Feeds(x, m, s) = {}
      BY <1>1, <1>3, <2>4, NothingBehindReset
    <3>2. \A s \in Ways : At(c, m, s) \in {At(b, m, s), NoTeam}
      BY <1>7, <1>9, <3>1 DEF SlotKept
    <3>. QED
      BY <1>5, <2>1, <2>2, <2>4, <3>2
  <2>. QED
    BY <2>3, <2>4
<1>15. Keeps(x, b, c)
  <2>1. Own(b, m) \cap (x.gone \cup {NoTeam}) = {} => ~Completed(c, m)
    BY <1>2, <1>5 DEF Ruled, Completed
  <2>2. ~Completed(c, m) => \A s \in Ways : At(b, m, s) # NoTeam => At(c, m, s) = At(b, m, s)
    BY <1>5, <1>7, <1>9 DEF SlotKept, Completed
  <2>3. NoTeam \notin Own(b, m) =>
            /\ c[m].team = b[m].team
            /\ b[m].status = "IN_PROGRESS" => c[m].status \in {"IN_PROGRESS", "COMPLETED"}
    BY <1>2, <1>5 DEF Ruled
  <2>4. c[m].status = "IN_PROGRESS" => b[m].status = "IN_PROGRESS"
    BY <1>2, <1>5 DEF Ruled
  <2>s. Spares(x, b, c)
    <3>. SUFFICES ASSUME NEW n \in DOMAIN b
         PROVE  /\ \A s \in Ways : At(b, n, s) \notin x.gone \cup {NoTeam} => At(c, n, s) = At(b, n, s)
                /\ ~Completed(b, n) /\ Completed(c, n) => Wins(x, c[n])
      BY DEF Spares
    <3>1. CASE n # m
      BY <1>5, <1>8, <3>1
    <3>2. CASE n = m
      BY <1>2, <1>5, <1>7, <1>9, <3>2 DEF SlotKept, Ruled, Completed
    <3>. QED
      BY <3>1, <3>2
  <2>. SUFFICES ASSUME NEW n \in DOMAIN b
       PROVE /\ Completed(b, n) => c[n] = b[n]
             /\ ~Completed(c, n) => \A s \in Ways : At(b, n, s) # NoTeam => At(c, n, s) = At(b, n, s)
             /\ ~Completed(b, n) /\ Own(b, n) \cap (x.gone \cup {NoTeam}) = {} => ~Completed(c, n)
             /\ NoTeam \notin Own(b, n) =>
                  /\ c[n].team = b[n].team
                  /\ b[n].status = "IN_PROGRESS" => c[n].status \in {"IN_PROGRESS", "COMPLETED"}
             /\ c[n].status = "IN_PROGRESS" => b[n].status = "IN_PROGRESS"
    BY <1>5, <2>s DEF Keeps
  <2>5. CASE n # m
    BY <1>5, <1>8, <2>5
  <2>6. CASE n = m
    BY <2>1, <2>2, <2>3, <2>4, <2>6
  <2>. QED
    BY <2>5, <2>6
<1>. QED
  BY <1>4, <1>6, <1>12, <1>13, <1>14, <1>15 DEF Sound, c, r, D2

\* A slot of a decided match waits for nothing.
LEMMA DecidedWaitsNot ==
  ASSUME NEW x, NEW rank, NEW E, NEW b, NEW D, World(x, rank, E), Sound(x, E, b, D), NEW m, Completed(b, m)
  PROVE  Sound(x, E, b, Cut(D, m))
<1>. SUFFICES ASSUME NEW g \in DOMAIN b, NEW w \in Ways, NEW at \in Out(x, g, w)
     PROVE  Flows(x, b, Cut(D, m), g, w, at)
  BY DEF Sound, Follows
<1>1. Flows(x, b, D, g, w, at)
  BY DEF Sound, Follows
<1>2. ~Completed(b, at[1]) => at \notin {m} \X Ways
  OBVIOUS
<1>. QED
  BY <1>1, <1>2 DEF Flows, Cut

LEMMA SoundWeaker ==
  ASSUME NEW x, NEW E, NEW b, NEW D, NEW D2, Sound(x, E, b, D), D \subseteq D2
  PROVE  Sound(x, E, b, D2)
<1>. SUFFICES ASSUME NEW g \in DOMAIN b, NEW w \in Ways, NEW at \in Out(x, g, w)
     PROVE  Flows(x, b, D2, g, w, at)
  BY DEF Sound, Follows
<1>1. Flows(x, b, D, g, w, at)
  BY DEF Sound, Follows
<1>. QED
  BY <1>1 DEF Flows

-----------------------------------------------------------------------------
(***************************************************************************)
(* Recursion and sequences.                                                *)
(***************************************************************************)

LEMMA LeastNumber ==
  ASSUME NEW S \in SUBSET Nat, S # {}
  PROVE  \E m \in S : \A k \in S : m <= k
<1> DEFINE R == {ss \in Nat \X Nat : ss[1] < ss[2]}
<1>1. IsWellFoundedOn(R, Nat)
  BY NatLessThanWellFounded DEF OpToRel
<1>2. \E m \in S : \A k \in S : ~ (<<k, m>> \in R)
  <2>. HIDE DEF R
  <2>. QED
    BY <1>1, WFMin
<1>3. PICK m \in S : \A k \in S : ~ (<<k, m>> \in R)
  BY <1>2
<1>4. \A k \in S : m <= k
  <2>. TAKE k \in S
  <2>1. <<k, m>> \in Nat \X Nat /\ ~ (<<k, m>> \in R)
    BY <1>3
  <2>2. ~ (k < m)
    BY <2>1
  <2>. QED
    BY <2>2
<1>. QED
  BY <1>4

LEMMA InductionBySet ==
  ASSUME NEW P \in SUBSET Nat, 0 \in P, \A n \in P : n + 1 \in P
  PROVE  P = Nat
<1>1. SUFFICES ASSUME Nat \ P # {} PROVE FALSE
  OBVIOUS
<1>2. PICK m \in Nat \ P : \A k \in Nat \ P : m <= k
  BY <1>1, LeastNumber
<1>3. m # 0 /\ m - 1 \in Nat /\ m - 1 \notin Nat \ P
  BY <1>2
<1>. QED
  BY <1>2, <1>3

Partial(X, a, G, n, g) ==
  g \in [0..n -> X] /\ g[0] = a /\ \A i \in 0..n : i # n => g[i + 1] = G[<<i, g[i]>>]

LEMMA PartialsAgree ==
  ASSUME NEW X, NEW a, NEW G, NEW n \in Nat, NEW k \in Nat, NEW g, NEW h,
         Partial(X, a, G, n, g), Partial(X, a, G, k, h), NEW j \in 0..n, j <= k
  PROVE  g[j] = h[j]
<1> DEFINE P == {i \in Nat : i <= n /\ i <= k => g[i] = h[i]}
<1>1. 0 \in P
  BY DEF Partial
<1>2. ASSUME NEW i \in P PROVE i + 1 \in P
  <2>1. SUFFICES ASSUME i + 1 <= n, i + 1 <= k PROVE g[i + 1] = h[i + 1]
    BY <1>2
  <2>2. i \in 0..n /\ i \in 0..k /\ i # n /\ i # k /\ g[i] = h[i]
    BY <1>2, <2>1
  <2>3. g[i + 1] = G[<<i, g[i]>>] /\ h[i + 1] = G[<<i, h[i]>>]
    BY <2>2 DEF Partial
  <2>. QED
    BY <2>2, <2>3
<1>3. P = Nat
  <2>. HIDE DEF P
  <2>1. P \subseteq Nat
    BY DEF P
  <2>. QED
    BY <1>1, <1>2, <2>1, InductionBySet
<1>4. j \in P
  BY <1>3
<1>. QED
  BY <1>4

Stepping(X, G) == \A i \in Nat, y \in X : G[<<i, y>>] \in X
Iterates(X, a, G, f) == f \in [Nat -> X] /\ f[0] = a /\ \A n \in Nat : f[n + 1] = G[<<n, f[n]>>]

LEMMA Recursion ==
  ASSUME NEW X, NEW a \in X, NEW G, Stepping(X, G)
  PROVE  \E f : Iterates(X, a, G, f)
<1> DEFINE P == {n \in Nat : \E g : Partial(X, a, G, n, g)}
           part(n) == CHOOSE g : Partial(X, a, G, n, g)
           f == [n \in Nat |-> part(n)[n]]
<1>0. \A i \in Nat, y \in X : G[<<i, y>>] \in X
  BY DEF Stepping
<1>1. 0 \in P
  <2>1. Partial(X, a, G, 0, [i \in 0..0 |-> a])
    BY DEF Partial
  <2>. QED
    BY <2>1
<1>2. ASSUME NEW n \in P PROVE n + 1 \in P
  <2>1. PICK g : Partial(X, a, G, n, g)
    BY <1>2
  <2> DEFINE h == [i \in 0..(n + 1) |-> IF i = n + 1 THEN G[<<n, g[n]>>] ELSE g[i]]
  <2>2. n \in Nat /\ g \in [0..n -> X] /\ g[n] \in X /\ g[0] = a
    BY <1>2, <2>1 DEF Partial
  <2>3. h \in [0..(n + 1) -> X]
    <3>1. G[<<n, g[n]>>] \in X
      BY <1>0, <2>2
    <3>2. ASSUME NEW i \in 0..(n + 1), i # n + 1 PROVE i \in 0..n
      BY <2>2, <3>2
    <3>. QED
      BY <2>2, <3>1, <3>2
  <2>4. ASSUME NEW i \in 0..(n + 1), i # n + 1 PROVE h[i + 1] = G[<<i, h[i]>>]
    <3>1. i \in 0..n /\ h[i] = g[i] /\ i + 1 \in 0..(n + 1)
      BY <2>2, <2>4
    <3>2. CASE i = n
      BY <2>2, <3>1, <3>2
    <3>3. CASE i # n
      <4>1. h[i + 1] = g[i + 1]
        BY <2>2, <3>1, <3>3
      <4>. QED
        BY <2>1, <3>1, <3>3, <4>1 DEF Partial
    <3>. QED
      BY <3>2, <3>3
  <2>5. h[0] = a
    BY <2>2
  <2>6. Partial(X, a, G, n + 1, h)
    <3>. HIDE DEF h
    <3>. QED
      BY <2>3, <2>4, <2>5 DEF Partial
  <2>. QED
    BY <2>2, <2>6
<1>3. P = Nat
  <2>. HIDE DEF P
  <2>1. P \subseteq Nat
    BY DEF P
  <2>. QED
    BY <1>1, <1>2, <2>1, InductionBySet
<1>4. \A n \in Nat : Partial(X, a, G, n, part(n))
  <2>. TAKE n \in Nat
  <2>1. n \in P
    BY <1>3
  <2>. QED
    BY <2>1
<1>. HIDE DEF part
<1>5. f \in [Nat -> X]
  <2>1. \A n \in Nat : part(n)[n] \in X
    BY <1>4 DEF Partial
  <2>. QED
    BY <2>1
<1>6. f[0] = a
  BY <1>4 DEF Partial
<1>7. ASSUME NEW n \in Nat PROVE f[n + 1] = G[<<n, f[n]>>]
  <2>1. part(n + 1)[n + 1] = G[<<n, part(n + 1)[n]>>]
    <3>1. Partial(X, a, G, n + 1, part(n + 1)) /\ n \in 0..(n + 1) /\ n # n + 1
      BY <1>4
    <3>. QED
      BY <3>1 DEF Partial
  <2>2. part(n + 1)[n] = part(n)[n]
    <3>1. Partial(X, a, G, n + 1, part(n + 1)) /\ Partial(X, a, G, n, part(n)) /\ n \in 0..(n + 1) /\ n <= n /\ n + 1 \in Nat
      BY <1>4
    <3>. HIDE DEF f
    <3>. QED
      BY ONLY <3>1, PartialsAgree, n \in Nat
  <2>. QED
    BY <2>1, <2>2
<1>. HIDE DEF f
<1>. QED
  BY <1>5, <1>6, <1>7 DEF Iterates

RangeOf(s) == {s[i] : i \in 1..Len(s)}

LEMMA RangeOfConcat ==
  ASSUME NEW S, NEW s \in Seq(S), NEW t \in Seq(S)
  PROVE  /\ RangeOf(s \o t) = RangeOf(s) \cup RangeOf(t)
         /\ s \o t \in Seq(S) /\ Len(s \o t) = Len(s) + Len(t)
<1>1. /\ s \o t \in Seq(S) /\ Len(s \o t) = Len(s) + Len(t) /\ Len(s) \in Nat /\ Len(t) \in Nat
      /\ \A i \in 1..(Len(s) + Len(t)) : (s \o t)[i] = IF i <= Len(s) THEN s[i] ELSE t[i - Len(s)]
  BY ConcatProperties, LenProperties
<1>2. ASSUME NEW y \in RangeOf(s \o t) PROVE y \in RangeOf(s) \cup RangeOf(t)
  <2>1. PICK i \in 1..(Len(s) + Len(t)) : y = (s \o t)[i]
    BY <1>1 DEF RangeOf
  <2>2. CASE i <= Len(s)
    BY <1>1, <2>1, <2>2 DEF RangeOf
  <2>3. CASE ~(i <= Len(s))
    <3>1. i - Len(s) \in 1..Len(t) /\ y = t[i - Len(s)]
      BY <1>1, <2>1, <2>3
    <3>. QED
      BY <3>1 DEF RangeOf
  <2>. QED
    BY <2>2, <2>3
<1>3. ASSUME NEW i \in 1..Len(s) PROVE s[i] \in RangeOf(s \o t)
  <2>1. i \in 1..(Len(s) + Len(t)) /\ (s \o t)[i] = s[i]
    BY <1>1
  <2>. QED
    BY <1>1, <2>1 DEF RangeOf
<1>4. ASSUME NEW i \in 1..Len(t) PROVE t[i] \in RangeOf(s \o t)
  <2>1. i + Len(s) \in 1..(Len(s) + Len(t)) /\ (s \o t)[i + Len(s)] = t[i]
    BY <1>1
  <2>. QED
    BY <1>1, <2>1 DEF RangeOf
<1>5. RangeOf(s) \cup RangeOf(t) \subseteq RangeOf(s \o t)
  BY <1>3, <1>4 DEF RangeOf
<1>. QED
  BY <1>1, <1>2, <1>5

LEMMA RangeOfTail ==
  ASSUME NEW S, NEW s \in Seq(S), s # <<>>
  PROVE  /\ RangeOf(s) = {Head(s)} \cup RangeOf(Tail(s)) /\ Head(s) \in S
         /\ Tail(s) \in Seq(S) /\ Len(Tail(s)) = Len(s) - 1 /\ Len(s) \in Nat \ {0}
<1>1. /\ Tail(s) \in Seq(S) /\ Len(Tail(s)) = Len(s) - 1 /\ Len(s) \in Nat \ {0}
      /\ \A i \in 1..(Len(s) - 1) : Tail(s)[i] = s[i + 1]
      /\ Head(s) = s[1] /\ Head(s) \in S
  <2>1. Len(s) \in Nat \ {0} /\ Head(s) = s[1] /\ s[1] \in S
    BY LenProperties, EmptySeq, ElementOfSeq
  <2>2. Tail(s) \in Seq(S) /\ Len(Tail(s)) = Len(s) - 1 /\ \A i \in 1..(Len(s) - 1) : Tail(s)[i] = s[i + 1]
    BY HeadTailProperties
  <2>. QED
    BY <2>1, <2>2
<1>2. ASSUME NEW i \in 1..Len(s) PROVE s[i] \in {Head(s)} \cup RangeOf(Tail(s))
  <2>1. CASE i = 1
    BY <1>1, <2>1
  <2>2. CASE i # 1
    <3>1. i - 1 \in 1..Len(Tail(s)) /\ Tail(s)[i - 1] = s[i]
      BY <1>1, <2>2
    <3>. QED
      BY <3>1 DEF RangeOf
  <2>. QED
    BY <2>1, <2>2
<1>3. Head(s) \in RangeOf(s)
  BY <1>1 DEF RangeOf
<1>4. ASSUME NEW i \in 1..Len(Tail(s)) PROVE Tail(s)[i] \in RangeOf(s)
  <2>1. i + 1 \in 1..Len(s) /\ Tail(s)[i] = s[i + 1]
    BY <1>1
  <2>. QED
    BY <2>1 DEF RangeOf
<1>5. RangeOf(s) \subseteq {Head(s)} \cup RangeOf(Tail(s))
  BY <1>2 DEF RangeOf
<1>6. RangeOf(Tail(s)) \subseteq RangeOf(s)
  BY <1>4 DEF RangeOf
<1>. QED
  BY <1>1, <1>3, <1>5, <1>6

LEMMA OneToSeq ==
  ASSUME NEW S, \A p, q \in S : p = q
  PROVE  SetToSeq(S) \in Seq(S) /\ RangeOf(SetToSeq(S)) = S /\ Len(SetToSeq(S)) <= 1
<1>1. CASE S = {}
  <2>1. Cardinality(S) = 0
    BY <1>1, FS_EmptySet
  <2>2. <<>> \in [1..0 -> S] /\ IsInjective(<<>>)
    BY DEF IsInjective
  <2>3. SetToSeq(S) \in [1..0 -> S]
    BY <2>1, <2>2 DEF SetToSeq
  <2>4. SetToSeq(S) = <<>>
    BY <2>3
  <2>5. <<>> \in Seq(S) /\ Len(<<>>) = 0 /\ RangeOf(<<>>) = {}
    BY EmptySeq DEF RangeOf
  <2>6. 0 <= 1
    OBVIOUS
  <2>. QED
    BY <1>1, <2>4, <2>5, <2>6, Zenon
<1>2. CASE S # {}
  <2>1. PICK e : S = {e}
    BY <1>2
  <2>2. Cardinality(S) = 1
    BY <2>1, FS_Singleton
  <2>3. <<e>> \in [1..1 -> S] /\ IsInjective(<<e>>)
    BY <2>1 DEF IsInjective
  <2>4. SetToSeq(S) \in [1..1 -> S]
    BY <2>2, <2>3 DEF SetToSeq
  <2>5. SetToSeq(S) = <<e>>
    BY <2>1, <2>4
  <2>6. <<e>> \in Seq(S) /\ Len(<<e>>) = 1
    BY <2>1
  <2>7. RangeOf(<<e>>) = {e}
    BY <2>6 DEF RangeOf
  <2>8. 1 <= 1
    OBVIOUS
  <2>. QED
    BY <2>1, <2>5, <2>6, <2>7, <2>8, Zenon
<1>. QED
  BY <1>1, <1>2

-----------------------------------------------------------------------------
(***************************************************************************)
(* A run of check_and_advance_match from match m of b, in which the slots  *)
(* D wait to be filled.                                                    *)
(***************************************************************************)
Jobs(x, E) == [to : SlotsOf(x), team : Places(E)]

RunType(x, E, S) == [match : [S -> Records(E)], seen : SUBSET Ids(x), todo : Seq(Jobs(x, E))]

\* A team on its way comes from a decided match.
Brings(x, b, j) ==
  j.team # NoTeam =>
    \E f \in SlotsOf(x) : /\ f[1] \in DOMAIN b /\ Completed(b, f[1]) /\ j.to \in Out(x, f[1], f[2])
                          /\ j.team = Sends(b, f[1], f[2]) /\ j.team \notin x.gone

Awaited(todo) == {j.to : j \in {i \in RangeOf(todo) : i.team # NoTeam}}
Due(run, D) == (D \ (run.seen \X Ways)) \cup Awaited(run.todo)

Reach(x, m) == Below(x, m) \cup {m}

RunInv(x, E, b, D, m, run) ==
  /\ run \in RunType(x, E, DOMAIN b)
  /\ Sound(x, E, run.match, Due(run, D)) /\ Keeps(x, b, run.match)
  /\ run.seen \subseteq Reach(x, m)
  /\ \A j \in RangeOf(run.todo) : j.to[1] \in Reach(x, m) /\ j.to[1] \in DOMAIN b /\ Brings(x, run.match, j)
  /\ m \in run.seen \/ \E j \in RangeOf(run.todo) : j.to[1] = m

\* What a run can still do.
Left(x, m, run) == 3 * Cardinality(Reach(x, m) \ run.seen) + Len(run.todo)

LEMMA BringsStays ==
  ASSUME NEW x, NEW b, NEW c, DOMAIN c = DOMAIN b, \A m \in DOMAIN b : Completed(b, m) => c[m] = b[m],
         NEW j, Brings(x, b, j)
  PROVE  Brings(x, c, j)
<1>. SUFFICES ASSUME j.team # NoTeam PROVE Brings(x, c, j)
  BY DEF Brings
<1>1. PICK f \in SlotsOf(x) : /\ f[1] \in DOMAIN b /\ Completed(b, f[1]) /\ j.to \in Out(x, f[1], f[2])
                              /\ j.team = Sends(b, f[1], f[2]) /\ j.team \notin x.gone
  BY DEF Brings
<1>2. c[f[1]] = b[f[1]]
  BY <1>1
<1>3. Completed(c, f[1]) /\ Sends(c, f[1], f[2]) = Sends(b, f[1], f[2])
  BY <1>1, <1>2 DEF Completed, Sends
<1>. QED
  BY <1>1, <1>3 DEF Brings

\* The slots that wait when job j is taken up.
DueFrom(D, j) == IF j.team = NoTeam THEN D ELSE D \ {j.to}

LEMMA PutOnTheWay ==
  ASSUME NEW x, NEW rank, NEW E, NEW b, NEW D, World(x, rank, E), Sound(x, E, b, D), NEW j, Brings(x, b, j)
  PROVE  LET c == Put(b, j.to, j.team)
         IN Sound(x, E, c, DueFrom(D, j)) /\ Keeps(x, b, c)
<1>1. CASE j.team = NoTeam
  <2>1. Put(b, j.to, j.team) = b /\ DueFrom(D, j) = D
    BY <1>1 DEF Put, DueFrom
  <2>. QED
    BY <2>1, KeepsReflexive
<1>2. CASE j.team # NoTeam
  <2>1. PICK f \in SlotsOf(x) : /\ f[1] \in DOMAIN b /\ Completed(b, f[1]) /\ j.to \in Out(x, f[1], f[2])
                                /\ j.team = Sends(b, f[1], f[2]) /\ j.team \notin x.gone
    BY <1>2 DEF Brings
  <2>2. Sends(b, f[1], f[2]) \notin x.gone \cup {NoTeam} /\ DueFrom(D, j) = D \ {j.to}
    BY <1>2, <2>1 DEF DueFrom
  <2> DEFINE to == j.to
             t == Sends(b, f[1], f[2])
  <2>3. to \in Out(x, f[1], f[2])
    BY <2>1
  <2>. HIDE DEF to
  <2>4. Sound(x, E, Put(b, to, t), D \ {to}) /\ Keeps(x, b, Put(b, to, t))
    BY <2>1, <2>2, <2>3, PutSound
  <2>. HIDE DEF t
  <2>. QED
    BY <2>1, <2>2, <2>4 DEF to, t
<1>. QED
  BY <1>1, <1>2

LEMMA AwaitedIs ==
  ASSUME NEW S, NEW s \in Seq(S), s # <<>>
  PROVE  Awaited(s) = Awaited(Tail(s)) \cup (IF Head(s).team # NoTeam THEN {Head(s).to} ELSE {})
BY RangeOfTail DEF Awaited

Passed(x, m, w, t) == {[to |-> to, team |-> t] : to \in Out(x, m, w)}

LEMMA OnwardIs ==
  ASSUME NEW x, NEW rank, NEW E, World(x, rank, E), NEW m \in Ids(x), NEW t \in Places(E)
  PROVE  LET q == SetToSeq(Passed(x, m, 1, t)) \o SetToSeq(Passed(x, m, 2, NoTeam))
         IN /\ q \in Seq(Jobs(x, E)) /\ Len(q) \in 0..2
            /\ RangeOf(q) = Passed(x, m, 1, t) \cup Passed(x, m, 2, NoTeam)
<1> DEFINE A == Passed(x, m, 1, t)
           B == Passed(x, m, 2, NoTeam)
           q == SetToSeq(A) \o SetToSeq(B)
<1>1. A \subseteq Jobs(x, E) /\ B \subseteq Jobs(x, E)
  <2>1. \A w \in Ways : \A to \in Out(x, m, w) : to \in SlotsOf(x)
    BY DEF World, Shape, Leads
  <2>. QED
    BY <2>1 DEF Jobs, Places, Ways, Passed
<1>2. (\A p, r \in A : p = r) /\ (\A p, r \in B : p = r)
  <2>1. \A w \in Ways : \A to, at \in Out(x, m, w) : to = at
    BY DEF World, Shape, Leads
  <2>. QED
    BY <2>1 DEF Ways, Passed
<1>. HIDE DEF A, B
<1>3. SetToSeq(A) \in Seq(A) /\ RangeOf(SetToSeq(A)) = A /\ Len(SetToSeq(A)) <= 1
  BY <1>2, OneToSeq
<1>4. SetToSeq(B) \in Seq(B) /\ RangeOf(SetToSeq(B)) = B /\ Len(SetToSeq(B)) <= 1
  BY <1>2, OneToSeq
<1>5. SetToSeq(A) \in Seq(Jobs(x, E)) /\ SetToSeq(B) \in Seq(Jobs(x, E))
  BY <1>1, <1>3, <1>4, SeqMonotonic
<1>6. Len(SetToSeq(A)) \in Nat /\ Len(SetToSeq(B)) \in Nat
  BY <1>5, LenProperties
<1>7. q \in Seq(Jobs(x, E)) /\ Len(q) = Len(SetToSeq(A)) + Len(SetToSeq(B)) /\ RangeOf(q) = A \cup B
  BY <1>3, <1>4, <1>5, RangeOfConcat
<1>. HIDE DEF q
<1>8. Len(q) \in 0..2
  BY <1>3, <1>4, <1>6, <1>7
<1>. QED
  BY <1>7, <1>8 DEF A, B, q

LEMMA StepRuns ==
  ASSUME NEW x, NEW rank, NEW E, NEW b, NEW D, NEW m \in DOMAIN b, World(x, rank, E),
         NEW run, RunInv(x, E, b, D, m, run), run.todo # <<>>
  PROVE  RunInv(x, E, b, D, m, Step(x, run)) /\ Left(x, m, Step(x, run)) < Left(x, m, run)
<1> DEFINE job == Head(run.todo)
           rest == Tail(run.todo)
           b1 == Put(run.match, job.to, job.team)
           n == job.to[1]
           skip == n \in run.seen \/ Completed(b1, n)
           now == Decided(x, b1, n)
           onward == IF skip \/ now.status # "COMPLETED" THEN <<>>
                     ELSE SetToSeq(Passed(x, n, 1, now.winner)) \o SetToSeq(Passed(x, n, 2, NoTeam))
           c == IF skip THEN b1 ELSE [b1 EXCEPT ![n] = now]
           seen == run.seen \cup {n}
           todo == onward \o rest
           D1 == (D \ (run.seen \X Ways)) \cup Awaited(rest)
<1>1. Step(x, run) = [match |-> c, seen |-> seen, todo |-> todo]
  BY DEF Step, Passed
<1>2. /\ run.todo \in Seq(Jobs(x, E)) /\ run.match \in [DOMAIN b -> Records(E)] /\ run.seen \in SUBSET Ids(x)
      /\ Sound(x, E, run.match, Due(run, D)) /\ Keeps(x, b, run.match) /\ DOMAIN run.match = DOMAIN b
      /\ run.seen \subseteq Reach(x, m)
      /\ \A j \in RangeOf(run.todo) : j.to[1] \in Reach(x, m) /\ j.to[1] \in DOMAIN b /\ Brings(x, run.match, j)
      /\ m \in run.seen \/ \E j \in RangeOf(run.todo) : j.to[1] = m
      /\ Shape(x, rank)
  BY DEF RunInv, RunType, World
<1>3. /\ RangeOf(run.todo) = {job} \cup RangeOf(rest) /\ job \in Jobs(x, E)
      /\ rest \in Seq(Jobs(x, E)) /\ Len(rest) = Len(run.todo) - 1 /\ Len(run.todo) \in Nat \ {0}
  BY <1>2, RangeOfTail
<1>4. n \in DOMAIN b /\ n \in Ids(x) /\ n \in Reach(x, m) /\ Brings(x, run.match, job)
  BY <1>2, <1>3 DEF Sound, Hung
<1>5. /\ Sound(x, E, b1, D1) /\ Keeps(x, run.match, b1)
      /\ \A k \in DOMAIN b : Completed(run.match, k) => b1[k] = run.match[k]
  <2>1. Awaited(run.todo) = Awaited(rest) \cup (IF job.team # NoTeam THEN {job.to} ELSE {})
    BY <1>2, AwaitedIs
  <2>2. DueFrom(Due(run, D), job) \subseteq D1
    BY <2>1 DEF Due, DueFrom
  <2>3. Sound(x, E, b1, DueFrom(Due(run, D), job)) /\ Keeps(x, run.match, b1)
    <3>. HIDE DEF job
    <3>. QED
      BY <1>2, <1>4, PutOnTheWay
  <2>. HIDE DEF D1, b1
  <2>4. Sound(x, E, b1, D1)
    BY <2>2, <2>3, SoundWeaker
  <2>. QED
    BY <1>2, <2>3, <2>4 DEF Keeps
<1>6. DOMAIN b1 = DOMAIN b
  BY <1>2, <1>5 DEF Keeps
<1>. HIDE DEF b1
<1>7. \A j \in RangeOf(rest) : j.to[1] \in Reach(x, m) /\ j.to[1] \in DOMAIN b /\ Brings(x, b1, j)
  <2>. TAKE j \in RangeOf(rest)
  <2>1. j.to[1] \in Reach(x, m) /\ j.to[1] \in DOMAIN b /\ Brings(x, run.match, j)
    BY <1>2, <1>3
  <2>2. Brings(x, b1, j)
    BY <1>2, <1>5, <1>6, <2>1, BringsStays
  <2>. QED
    BY <2>1, <2>2
<1>8. ~skip => /\ Sound(x, E, c, DueAfter(x, D1, n, now))
               /\ Keeps(x, b1, c) /\ c[n] = now
               /\ now.winner \notin x.gone /\ (now.winner # NoTeam => now.status = "COMPLETED")
  <2>. HAVE ~skip
  <2>1. ~Completed(b1, n) /\ c = [b1 EXCEPT ![n] = now]
    OBVIOUS
  <2>2. World(x, rank, E) /\ Sound(x, E, b1, D1) /\ n \in DOMAIN b1 /\ b1 \in [DOMAIN b1 -> Records(E)] /\ now = Decided(x, b1, n)
    BY <1>4, <1>5, <1>6 DEF Sound, Hung
  <2>. HIDE DEF D1, now, c, n
  <2>3. /\ Sound(x, E, [b1 EXCEPT ![n] = now], DueAfter(x, D1, n, now))
        /\ Keeps(x, b1, [b1 EXCEPT ![n] = now])
        /\ now.winner \notin x.gone /\ (now.winner # NoTeam => now.status = "COMPLETED")
    BY <2>1, <2>2, DecideSound
  <2>4. c[n] = now
    BY <2>1, <2>2
  <2>. QED
    BY <2>1, <2>3, <2>4
<1>9. skip => Sound(x, E, c, Cut(D1, n)) \/ n \in run.seen
  <2>. HAVE skip
  <2>. HIDE DEF D1
  <2>. QED
    BY <1>5, DecidedWaitsNot
<1>. HIDE DEF now
<1>10. /\ Keeps(x, b1, c) /\ DOMAIN c = DOMAIN b /\ (~skip => now \in Records(E) /\ now.winner \in Places(E))
       /\ c \in [DOMAIN b -> Records(E)]
  <2>1. Keeps(x, b1, c)
    BY <1>8, KeepsReflexive
  <2>2. Hung(x, E, c)
    BY <1>5, <1>8 DEF Sound
  <2>3. DOMAIN c = DOMAIN b
    BY <1>6, <2>1 DEF Keeps
  <2>4. c \in [DOMAIN b -> Records(E)]
    BY <2>2, <2>3 DEF Hung
  <2>5. ~skip => now \in Records(E)
    BY <1>4, <1>8, <2>4
  <2>. QED
    BY <2>1, <2>3, <2>4, <2>5 DEF Records
<1>11. Keeps(x, b, c)
  BY <1>2, <1>5, <1>10, KeepsTransitive
<1>. HIDE DEF c
<1>12. /\ todo \in Seq(Jobs(x, E)) /\ RangeOf(todo) = RangeOf(onward) \cup RangeOf(rest)
       /\ Len(todo) = Len(onward) + Len(rest) /\ Len(onward) \in 0..2 /\ (skip => Len(onward) = 0)
       /\ RangeOf(onward) = IF skip \/ now.status # "COMPLETED" THEN {} ELSE Passed(x, n, 1, now.winner) \cup Passed(x, n, 2, NoTeam)
  <2>1. /\ onward \in Seq(Jobs(x, E)) /\ Len(onward) \in 0..2 /\ (skip => Len(onward) = 0)
        /\ RangeOf(onward) = IF skip \/ now.status # "COMPLETED" THEN {} ELSE Passed(x, n, 1, now.winner) \cup Passed(x, n, 2, NoTeam)
    <3>1. CASE skip \/ now.status # "COMPLETED"
      <4>1. onward = <<>>
        BY <3>1
      <4>2. <<>> \in Seq(Jobs(x, E)) /\ Len(<<>>) = 0 /\ RangeOf(<<>>) = {}
        BY EmptySeq DEF RangeOf
      <4>. HIDE DEF onward, skip
      <4>. QED
        BY <3>1, <4>1, <4>2
    <3>2. CASE ~(skip \/ now.status # "COMPLETED")
      <4>1. onward = SetToSeq(Passed(x, n, 1, now.winner)) \o SetToSeq(Passed(x, n, 2, NoTeam)) /\ ~skip
        BY <3>2
      <4>2. n \in Ids(x) /\ now.winner \in Places(E)
        BY <1>4, <1>10, <4>1
      <4>. HIDE DEF onward, skip, n
      <4>3. /\ onward \in Seq(Jobs(x, E)) /\ Len(onward) \in 0..2
            /\ RangeOf(onward) = Passed(x, n, 1, now.winner) \cup Passed(x, n, 2, NoTeam)
        BY <4>1, <4>2, OnwardIs
      <4>. QED
        BY <3>2, <4>1, <4>3
    <3>. QED
      BY <3>1, <3>2
  <2>. HIDE DEF onward, rest
  <2>2. todo \in Seq(Jobs(x, E)) /\ RangeOf(todo) = RangeOf(onward) \cup RangeOf(rest) /\ Len(todo) = Len(onward) + Len(rest)
    BY <1>3, <2>1, RangeOfConcat
  <2>. HIDE DEF todo
  <2>. QED
    BY <2>1, <2>2
<1>. HIDE DEF onward, todo
<1>13. Awaited(todo) = Awaited(rest) \cup Awaited(onward)
  BY <1>12 DEF Awaited
<1>14. ~skip => {to \in Out(x, n, 1) : now.winner # NoTeam} \subseteq Awaited(onward)
  <2>. HAVE ~skip
  <2>. SUFFICES ASSUME NEW to \in Out(x, n, 1), now.winner # NoTeam PROVE to \in Awaited(onward)
    OBVIOUS
  <2>1. [to |-> to, team |-> now.winner] \in RangeOf(onward)
    BY <1>8, <1>12 DEF Passed
  <2>2. [to |-> to, team |-> now.winner].team # NoTeam /\ [to |-> to, team |-> now.winner].to = to
    OBVIOUS
  <2>. QED
    BY <2>1, <2>2 DEF Awaited
<1>15. Sound(x, E, c, (D \ (seen \X Ways)) \cup Awaited(todo))
  <2> DEFINE D2 == (D \ (seen \X Ways)) \cup Awaited(todo)
  <2>1. Cut(D1, n) \subseteq D2
    BY <1>13 DEF Cut
  <2>2. n \in run.seen => D1 \subseteq D2
    BY <1>13
  <2>3. CASE ~skip
    <3>1. DueAfter(x, D1, n, now) \subseteq D2
      BY <1>13, <1>14, <2>1, <2>3 DEF DueAfter
    <3>. HIDE DEF D1, D2, skip
    <3>2. Sound(x, E, c, D2)
      BY <1>8, <2>3, <3>1, SoundWeaker
    <3>. QED
      BY <3>2 DEF D2
  <2>4. CASE skip
    <3>1. c = b1
      BY <2>4 DEF c
    <3>. HIDE DEF D1, D2, skip
    <3>2. Sound(x, E, c, D2)
      BY <1>5, <1>9, <2>1, <2>2, <2>4, <3>1, SoundWeaker
    <3>. QED
      BY <3>2 DEF D2
  <2>. QED
    BY <2>3, <2>4
<1>16. \A j \in RangeOf(todo) : j.to[1] \in Reach(x, m) /\ j.to[1] \in DOMAIN b /\ Brings(x, c, j)
  <2>. TAKE j \in RangeOf(todo)
  <2>1. CASE j \in RangeOf(rest)
    <3>1. \A k \in DOMAIN b1 : Completed(b1, k) => c[k] = b1[k]
      BY <1>10 DEF Keeps
    <3>. QED
      BY <1>6, <1>7, <1>10, <2>1, <3>1, BringsStays
  <2>2. CASE j \in RangeOf(onward)
    <3>1. ~skip /\ now.status = "COMPLETED" /\ j \in Passed(x, n, 1, now.winner) \cup Passed(x, n, 2, NoTeam)
      BY <1>12, <2>2
    <3>0. PICK w \in Ways : \E to \in Out(x, n, w) : j.to = to /\ j.team = (IF w = 1 THEN now.winner ELSE NoTeam)
      BY <3>1 DEF Ways, Passed
    <3>2. PICK to \in Out(x, n, w) : j.to = to /\ j.team = (IF w = 1 THEN now.winner ELSE NoTeam)
      BY <3>0
    <3>3. to[1] \in DOMAIN b1
      <4>1. Shape(x, rank) /\ Hung(x, E, b1) /\ n \in DOMAIN b1
        BY <1>2, <1>4, <1>5, <1>6 DEF Sound
      <4>. HIDE DEF n
      <4>. QED
        BY <4>1, SlotsAreThere
    <3>4. to[1] \in Reach(x, m)
      BY <1>2, <1>4, <3>2 DEF Reach, Shape, Behind, Hung, Sound
    <3>5. Brings(x, c, j)
      <4>1. SUFFICES ASSUME j.team # NoTeam PROVE Brings(x, c, j)
        BY DEF Brings
      <4>2. w = 1 /\ j.team = now.winner
        BY <3>2, <4>1
      <4>3. <<n, w>> \in SlotsOf(x) /\ <<n, w>>[1] = n /\ <<n, w>>[2] = w
        BY <1>4 DEF SlotsOf
      <4>4. Completed(c, n) /\ Sends(c, n, 1) = now.winner /\ now.winner \notin x.gone
        BY <1>8, <3>1 DEF Completed, Sends
      <4>. QED
        BY <1>4, <1>10, <3>2, <4>2, <4>3, <4>4 DEF Brings
    <3>. QED
      BY <1>6, <3>2, <3>3, <3>4, <3>5
  <2>. QED
    BY <1>12, <2>1, <2>2
<1>17. m \in seen \/ \E j \in RangeOf(todo) : j.to[1] = m
  BY <1>2, <1>3, <1>12
<1>18. RunInv(x, E, b, D, m, Step(x, run))
  <2>1. Step(x, run) \in RunType(x, E, DOMAIN b)
    BY <1>1, <1>2, <1>4, <1>10, <1>12 DEF RunType
  <2>2. seen \subseteq Reach(x, m)
    BY <1>2, <1>4
  <2>3. /\ Step(x, run).match = c /\ Step(x, run).seen = seen /\ Step(x, run).todo = todo
        /\ Due(Step(x, run), D) = (D \ (seen \X Ways)) \cup Awaited(todo)
    BY <1>1 DEF Due
  <2>. HIDE DEF seen, todo, skip
  <2>. QED
    BY <1>11, <1>15, <1>16, <1>17, <2>1, <2>2, <2>3 DEF RunInv
<1>19. Left(x, m, Step(x, run)) < Left(x, m, run)
  <2> DEFINE U == Reach(x, m) \ run.seen
             V == Reach(x, m) \ seen
  <2>1. IsFiniteSet(U) /\ Cardinality(U) \in Nat
    <3>1. m \in Ids(x) /\ IsFiniteSet(Ids(x)) /\ Reach(x, m) \subseteq Ids(x)
      BY <1>2, <1>5, <1>6 DEF Shape, Reach, Sound, Hung
    <3>2. U \subseteq Ids(x)
      BY <3>1
    <3>. QED
      BY <3>1, <3>2, FS_Subset, FS_CardinalityType
  <2>2. Left(x, m, Step(x, run)) = 3 * Cardinality(V) + Len(todo) /\ Left(x, m, run) = 3 * Cardinality(U) + Len(run.todo)
    BY <1>1 DEF Left
  <2>3. CASE n \in run.seen
    <3>1. V = U /\ Len(onward) = 0
      BY <1>12, <2>3
    <3>. HIDE DEF U, V
    <3>. QED
      BY <1>3, <1>12, <2>1, <2>2, <3>1
  <2>4. CASE n \notin run.seen
    <3>1. V = U \ {n} /\ n \in U
      BY <1>4, <2>4
    <3>2. Cardinality(V) = Cardinality(U) - 1
      <4>. HIDE DEF U, V
      <4>. QED
        BY <2>1, <3>1, FS_RemoveElement
    <3>3. Len(todo) = Len(onward) + Len(run.todo) - 1 /\ Len(onward) \in 0..2 /\ Len(run.todo) \in Nat
      BY <1>3, <1>12
    <3>4. ASSUME NEW u \in Nat, NEW l \in Nat, NEW o \in 0..2 PROVE 3 * (u - 1) + (o + l - 1) < 3 * u + l
      OBVIOUS
    <3>. HIDE DEF U, V
    <3>. QED
      BY <2>1, <2>2, <3>2, <3>3, <3>4
  <2>. QED
    BY <2>3, <2>4
<1>. QED
  BY <1>18, <1>19

LEMMA RunsIs ==
  ASSUME NEW x, NEW b, NEW m, NEW X, Start(b, m) \in X, \A run \in X : Onward(x, run) \in X
  PROVE  /\ Runs(x, b, m)[0] = Start(b, m)
         /\ \A n \in Nat : Runs(x, b, m)[n] \in X /\ Runs(x, b, m)[n + 1] = Onward(x, Runs(x, b, m)[n])
<1> DEFINE G == [p \in Nat \X X |-> Onward(x, p[2])]
           a == Start(b, m)
           run == Runs(x, b, m)
<1>1. \A i \in Nat, y \in X : G[<<i, y>>] = Onward(x, y) /\ G[<<i, y>>] \in X
  OBVIOUS
<1>a. a \in X
  OBVIOUS
<1>. HIDE DEF G, a
<1>b. Stepping(X, G)
  BY <1>1 DEF Stepping
<1>c. PICK f : Iterates(X, a, G, f)
  BY <1>a, <1>b, Recursion
<1>2. f \in [Nat -> X] /\ f[0] = a /\ \A n \in Nat : f[n + 1] = G[<<n, f[n]>>]
  BY <1>c DEF Iterates
<1>3. \A i \in Nat : f[i] = IF i = 0 THEN a ELSE Onward(x, f[i - 1])
  <2>. TAKE i \in Nat
  <2>1. CASE i = 0
    BY <1>2, <2>1
  <2>2. CASE i # 0
    <3>1. i - 1 \in Nat /\ (i - 1) + 1 = i
      BY <2>2
    <3>. QED
      BY <1>1, <1>2, <2>2, <3>1
  <2>. QED
    BY <2>1, <2>2
<1>4. f = [i \in Nat |-> IF i = 0 THEN a ELSE Onward(x, f[i - 1])]
  <2>1. f \in [Nat -> X]
    BY <1>2
  <2>2. f = [i \in Nat |-> f[i]]
    BY <2>1
  <2>. QED
    BY <1>3, <2>2
<1>5. run = CHOOSE g : g = [i \in Nat |-> IF i = 0 THEN a ELSE Onward(x, g[i - 1])]
  BY DEF Runs, a
<1>. HIDE DEF run
<1>6. run = [i \in Nat |-> IF i = 0 THEN a ELSE Onward(x, run[i - 1])]
  BY <1>4, <1>5
<1>7. run[0] = a /\ \A n \in Nat : run[n + 1] = Onward(x, run[n])
  BY <1>6
<1> DEFINE P == {n \in Nat : run[n] \in X}
<1>8. 0 \in P /\ \A n \in P : n + 1 \in P
  BY <1>7 DEF a
<1>9. P = Nat
  <2>. HIDE DEF P
  <2>1. P \subseteq Nat
    BY DEF P
  <2>. QED
    BY <1>8, <2>1, InductionBySet
<1>. QED
  BY <1>7, <1>9 DEF run, a

LEMMA StartRuns ==
  ASSUME NEW x, NEW rank, NEW E, NEW b, NEW D, NEW m \in DOMAIN b, World(x, rank, E), Sound(x, E, b, D)
  PROVE  RunInv(x, E, b, D, m, Start(b, m)) /\ Left(x, m, Start(b, m)) = 3 * Cardinality(Below(x, m)) + 4
                                            /\ Cardinality(Below(x, m)) \in Nat
<1> DEFINE j == [to |-> <<m, 1>>, team |-> NoTeam]
           run == Start(b, m)
<1>1. run.match = b /\ run.seen = {} /\ run.todo = <<j>> /\ run = [match |-> b, seen |-> {}, todo |-> <<j>>]
  BY DEF Start
<1>2. m \in Ids(x) /\ b \in [DOMAIN b -> Records(E)]
  BY DEF Sound, Hung
<1>3. j \in Jobs(x, E) /\ j.to[1] = m /\ j.team = NoTeam
  BY <1>2 DEF Jobs, SlotsOf, Ways, Places
<1>. HIDE DEF j
<1>4. <<j>> \in Seq(Jobs(x, E)) /\ Len(<<j>>) = 1
  BY <1>3
<1>5. RangeOf(<<j>>) = {j}
  BY <1>4 DEF RangeOf
<1>6. Brings(x, b, j)
  BY <1>3 DEF Brings
<1>7. Due(run, D) = D
  <2>1. Awaited(run.todo) = {}
    BY <1>1, <1>3, <1>5 DEF Awaited
  <2>. QED
    BY <1>1, <2>1 DEF Due
<1>8. m \in Reach(x, m)
  BY DEF Reach
<1>9. run \in RunType(x, E, DOMAIN b)
  BY <1>1, <1>2, <1>4 DEF RunType
<1>. HIDE DEF run
<1>10. RunInv(x, E, b, D, m, run)
  BY <1>1, <1>3, <1>5, <1>6, <1>7, <1>8, <1>9, KeepsReflexive DEF RunInv
<1>11. /\ IsFiniteSet(Below(x, m)) /\ m \notin Below(x, m)
  <2>1. Below(x, m) \subseteq Ids(x) /\ IsFiniteSet(Ids(x)) /\ m \notin Below(x, m)
    BY <1>2 DEF World, Shape, Behind
  <2>. QED
    BY <2>1, FS_Subset
<1>12. Cardinality(Below(x, m)) \in Nat /\ Cardinality(Reach(x, m)) = Cardinality(Below(x, m)) + 1
  BY <1>11, FS_CardinalityType, FS_AddElement DEF Reach
<1>13. Left(x, m, run) = 3 * Cardinality(Reach(x, m)) + 1
  <2>1. Reach(x, m) \ run.seen = Reach(x, m)
    BY <1>1
  <2>. QED
    BY <1>1, <1>4, <2>1 DEF Left
<1>14. Left(x, m, run) = 3 * Cardinality(Below(x, m)) + 4
  BY <1>12, <1>13
<1>. QED
  BY <1>10, <1>12, <1>14 DEF run

LEMMA AdvanceSound ==
  ASSUME NEW x, NEW rank, NEW E, NEW b, NEW D, NEW m \in DOMAIN b, World(x, rank, E), Sound(x, E, b, D)
  PROVE  Sound(x, E, CheckAndAdvance(x, b, m), Cut(D, m)) /\ Keeps(x, b, CheckAndAdvance(x, b, m))
<1> DEFINE X == {run \in RunType(x, E, DOMAIN b) : RunInv(x, E, b, D, m, run)}
           run == Runs(x, b, m)
           N == 3 * Cardinality(Below(x, m)) + 4
           P == {n \in Nat : run[n].todo = <<>> \/ Left(x, m, run[n]) + n <= N}
<1>1. \A y : y \in X <=> RunInv(x, E, b, D, m, y)
  BY DEF RunInv
<1>. HIDE DEF X
<1>2. Start(b, m) \in X
  BY <1>1, StartRuns
<1>3. \A y \in X : Onward(x, y) \in X
  BY <1>1, StepRuns DEF Onward
<1>4. run[0] = Start(b, m) /\ \A n \in Nat : run[n] \in X /\ run[n + 1] = Onward(x, run[n])
  BY <1>2, <1>3, RunsIs
<1>5. \A y \in X : /\ Left(x, m, y) \in Nat /\ y.todo \in Seq(Jobs(x, E)) /\ Len(y.todo) \in Nat
                   /\ Left(x, m, y) = 0 => y.todo = <<>>
  <2>. TAKE y \in X
  <2>1. y.todo \in Seq(Jobs(x, E)) /\ y.seen \subseteq Reach(x, m)
    BY <1>1 DEF RunInv, RunType
  <2>2. Len(y.todo) \in Nat /\ (Len(y.todo) = 0 => y.todo = <<>>)
    BY <2>1, LenProperties, EmptySeq
  <2>3. Cardinality(Reach(x, m) \ y.seen) \in Nat
    <3>1. m \in Ids(x) /\ IsFiniteSet(Ids(x)) /\ Reach(x, m) \subseteq Ids(x)
      BY DEF Shape, World, Reach, Sound, Hung
    <3>2. Reach(x, m) \ y.seen \subseteq Ids(x)
      BY <3>1
    <3>. QED
      BY <3>1, <3>2, FS_Subset, FS_CardinalityType
  <2>. QED
    BY <2>1, <2>2, <2>3 DEF Left
<1>. HIDE DEF run
<1>a. Left(x, m, Start(b, m)) = 3 * Cardinality(Below(x, m)) + 4 /\ Cardinality(Below(x, m)) \in Nat
  BY StartRuns
<1>6. N \in Nat /\ Left(x, m, run[0]) = N
  <2>1. N \in Nat
    BY <1>a
  <2>. QED
    BY <1>4, <1>a, <2>1
<1>. HIDE DEF N
<1>7. 0 \in P
  BY <1>6
<1>8. ASSUME NEW n \in P PROVE n + 1 \in P
  <2>1. n \in Nat /\ run[n] \in X /\ run[n + 1] \in X /\ run[n + 1] = Onward(x, run[n])
    BY <1>4
  <2>2. CASE run[n].todo = <<>>
    BY <2>1, <2>2 DEF Onward
  <2>3. CASE run[n].todo # <<>>
    <3>1. run[n + 1] = Step(x, run[n])
      BY <2>1, <2>3 DEF Onward
    <3>2. Left(x, m, Step(x, run[n])) < Left(x, m, run[n])
      BY <1>1, <2>1, <2>3, StepRuns
    <3>3. Left(x, m, run[n]) + n <= N
      BY <2>3
    <3>4. Left(x, m, run[n + 1]) + (n + 1) <= N
      BY <1>5, <1>6, <2>1, <3>1, <3>2, <3>3
    <3>. QED
      BY <2>1, <3>4
  <2>. QED
    BY <2>2, <2>3
<1>9. P = Nat
  <2>. HIDE DEF P
  <2>1. P \subseteq Nat
    BY DEF P
  <2>. QED
    BY <1>7, <1>8, <2>1, InductionBySet
<1>10. run[N].todo = <<>>
  <2>1. N \in P /\ run[N] \in X
    BY <1>4, <1>6, <1>9
  <2>2. run[N].todo = <<>> \/ Left(x, m, run[N]) + N <= N
    BY <2>1
  <2>. HIDE DEF P
  <2>. QED
    BY <1>5, <1>6, <2>1, <2>2
<1>11. CheckAndAdvance(x, b, m) = run[N].match
  BY DEF CheckAndAdvance, run, N
<1>12. RunInv(x, E, b, D, m, run[N])
  BY <1>1, <1>4, <1>6
<1>13. /\ Sound(x, E, run[N].match, Due(run[N], D)) /\ Keeps(x, b, run[N].match)
       /\ m \in run[N].seen
  BY <1>10, <1>12 DEF RunInv, RangeOf
<1>14. Due(run[N], D) \subseteq Cut(D, m)
  <2>1. Awaited(run[N].todo) = {}
    BY <1>10 DEF Awaited, RangeOf
  <2>. QED
    BY <1>13, <2>1 DEF Due, Cut
<1>15. Sound(x, E, run[N].match, Cut(D, m))
  BY <1>13, <1>14, SoundWeaker
<1>. QED
  BY <1>11, <1>13, <1>15

-----------------------------------------------------------------------------
(***************************************************************************)
(* A row of checks (CheckAll).                                             *)
(***************************************************************************)
IteratesTo(X, a, L, G, f) ==
  f \in [0..L -> X] /\ f[0] = a /\ \A i \in 1..L : f[i] = G[<<i, f[i - 1]>>]

LEMMA RecursionTo ==
  ASSUME NEW X, NEW a \in X, NEW L \in Nat, NEW G, Stepping(X, G)
  PROVE  \E f : IteratesTo(X, a, L, G, f)
<1> DEFINE H == [p \in Nat \X X |-> G[<<p[1] + 1, p[2]>>]]
<1>1. \A i \in Nat, y \in X : H[<<i, y>>] = G[<<i + 1, y>>] /\ H[<<i, y>>] \in X
  <2>. TAKE i \in Nat, y \in X
  <2>1. i + 1 \in Nat
    OBVIOUS
  <2>2. G[<<i + 1, y>>] \in X
    BY <2>1 DEF Stepping
  <2>. QED
    BY <2>2
<1>. HIDE DEF H
<1>2. Stepping(X, H)
  BY <1>1 DEF Stepping
<1>3. PICK g : Iterates(X, a, H, g)
  BY <1>2, Recursion
<1>4. g \in [Nat -> X] /\ g[0] = a /\ \A n \in Nat : g[n + 1] = H[<<n, g[n]>>]
  BY <1>3 DEF Iterates
<1> DEFINE f == [i \in 0..L |-> g[i]]
<1>5. f \in [0..L -> X] /\ f[0] = a
  BY <1>4
<1>6. ASSUME NEW i \in 1..L PROVE f[i] = G[<<i, f[i - 1]>>]
  <2>1. i - 1 \in Nat /\ (i - 1) + 1 = i /\ i \in 0..L /\ i - 1 \in 0..L
    OBVIOUS
  <2>2. f[i] = g[i] /\ f[i - 1] = g[i - 1] /\ g[i - 1] \in X
    BY <1>4, <2>1
  <2>3. g[i] = H[<<i - 1, g[i - 1]>>]
    BY <1>4, <2>1
  <2>4. H[<<i - 1, g[i - 1]>>] = G[<<i, g[i - 1]>>]
    BY <1>1, <2>1, <2>2
  <2>. HIDE DEF f
  <2>. QED
    BY <2>2, <2>3, <2>4
<1>. HIDE DEF f
<1>7. IteratesTo(X, a, L, G, f)
  BY <1>5, <1>6 DEF IteratesTo
<1>. QED
  BY <1>7

LEMMA ChecksAre ==
  ASSUME NEW x, NEW rank, NEW E, NEW b, NEW D, NEW S, World(x, rank, E), Sound(x, E, b, D), S \subseteq DOMAIN b
  PROVE  /\ Checks(x, b, S)[0] = b
         /\ \A i \in 1..Len(x.tree.order) :
              Checks(x, b, S)[i] =
                IF x.tree.order[i] \in S THEN CheckAndAdvance(x, Checks(x, b, S)[i - 1], x.tree.order[i])
                ELSE Checks(x, b, S)[i - 1]
<1> DEFINE order == x.tree.order
           L == Len(order)
           X == {c \in [DOMAIN b -> Records(E)] : Sound(x, E, c, D)}
           Body(i, y) == IF order[i] \in S THEN CheckAndAdvance(x, y, order[i]) ELSE y
           G == [p \in Nat \X X |-> Body(p[1], p[2])]
           c == Checks(x, b, S)
<1>0. \A y : y \in X <=> Sound(x, E, y, D) /\ DOMAIN y = DOMAIN b
  <2>1. \A y : Sound(x, E, y, D) => y \in [DOMAIN y -> Records(E)]
    BY DEF Sound, Hung
  <2>. QED
    BY <2>1
<1>1. b \in X /\ L \in Nat
  BY <1>0, LenProperties DEF World, Shape
<1>2. \A i, y : y \in X => Body(i, y) \in X
  <2>. SUFFICES ASSUME NEW i, NEW y \in X, order[i] \in S PROVE CheckAndAdvance(x, y, order[i]) \in X
    OBVIOUS
  <2>1. order[i] \in DOMAIN y /\ Sound(x, E, y, D)
    BY <1>0
  <2>. HIDE DEF X, order
  <2> DEFINE m == order[i]
  <2>. HIDE DEF m
  <2>2. m \in DOMAIN y
    BY <2>1 DEF m
  <2>3. Sound(x, E, CheckAndAdvance(x, y, m), Cut(D, m)) /\ Keeps(x, y, CheckAndAdvance(x, y, m))
    BY <2>1, <2>2, AdvanceSound
  <2>4. Cut(D, m) \subseteq D
    BY DEF Cut
  <2>5. Sound(x, E, CheckAndAdvance(x, y, m), D) /\ DOMAIN CheckAndAdvance(x, y, m) = DOMAIN y
    BY <2>3, <2>4, SoundWeaker DEF Keeps
  <2>. QED
    BY <1>0, <2>5 DEF m
<1>3. \A i \in Nat, y \in X : G[<<i, y>>] = Body(i, y) /\ G[<<i, y>>] \in X
  <2>. HIDE DEF Body, X
  <2>. QED
    BY <1>2
<1>. HIDE DEF G, X
<1>4. Stepping(X, G)
  BY <1>3 DEF Stepping
<1>5. PICK f : IteratesTo(X, b, L, G, f)
  <2>. HIDE DEF L
  <2>. QED
    BY <1>1, <1>4, RecursionTo
<1>6. f \in [0..L -> X] /\ f[0] = b /\ \A i \in 1..L : f[i] = G[<<i, f[i - 1]>>]
  BY <1>5 DEF IteratesTo
<1>7. \A i \in 0..L : f[i] = IF i = 0 THEN b ELSE Body(i, f[i - 1])
  <2>. TAKE i \in 0..L
  <2>1. CASE i = 0
    BY <1>6, <2>1
  <2>2. CASE i # 0
    <3>1. i \in 1..L /\ i \in Nat /\ i - 1 \in 0..L
      BY <1>1, <2>2
    <3>2. f[i] = G[<<i, f[i - 1]>>] /\ f[i - 1] \in X
      BY <1>6, <3>1
    <3>. HIDE DEF Body
    <3>. QED
      BY <1>3, <2>2, <3>1, <3>2
  <2>. QED
    BY <2>1, <2>2
<1>8. f = [i \in 0..L |-> IF i = 0 THEN b ELSE Body(i, f[i - 1])]
  <2>1. f = [i \in 0..L |-> f[i]]
    BY <1>6
  <2>. HIDE DEF Body, L
  <2>. QED
    BY <1>7, <2>1
<1>9. c = CHOOSE g : g = [i \in 0..L |-> IF i = 0 THEN b
                                         ELSE IF order[i] \in S THEN CheckAndAdvance(x, g[i - 1], order[i])
                                         ELSE g[i - 1]]
  BY DEF Checks
<1>. HIDE DEF c
<1>10. c = [i \in 0..L |-> IF i = 0 THEN b
                           ELSE IF order[i] \in S THEN CheckAndAdvance(x, c[i - 1], order[i])
                           ELSE c[i - 1]]
  BY <1>8, <1>9
<1>11. c[0] = b
  BY <1>1, <1>10
<1>12. ASSUME NEW i \in 1..L
       PROVE  c[i] = IF order[i] \in S THEN CheckAndAdvance(x, c[i - 1], order[i]) ELSE c[i - 1]
  <2>1. i \in 0..L /\ i # 0
    OBVIOUS
  <2>. QED
    BY <1>10, <2>1
<1>. QED
  BY <1>11, <1>12 DEF c

\* The slots whose match comes after place i of the order.
After(x, D, i) == {to \in D : \A j \in 1..i : x.tree.order[j] # to[1]}

LEMMA CheckAllSound ==
  ASSUME NEW x, NEW rank, NEW E, NEW b, NEW D, NEW S, World(x, rank, E), Sound(x, E, b, D), S \subseteq DOMAIN b,
         \A to \in D : to[1] \in S /\ to \in S \X Ways
  PROVE  Sound(x, E, CheckAll(x, b, S), {}) /\ Keeps(x, b, CheckAll(x, b, S))
<1> DEFINE order == x.tree.order
           L == Len(order)
           c == Checks(x, b, S)
           Fine(i) == Sound(x, E, c[i], After(x, D, i)) /\ Keeps(x, b, c[i])
           P == {i \in Nat : i <= L => Fine(i)}
<1>1. c[0] = b /\ \A i \in 1..L : c[i] = IF order[i] \in S THEN CheckAndAdvance(x, c[i - 1], order[i]) ELSE c[i - 1]
  BY ChecksAre
<1>2. L \in Nat /\ S \subseteq Ids(x) /\ \A m \in S : \E i \in 1..L : order[i] = m
  BY LenProperties DEF World, Shape, Sound, Hung
<1>. HIDE DEF c, order, L
<1>3. 0 \in P
  <2>1. After(x, D, 0) = D
    BY DEF After
  <2>. QED
    BY <1>1, <2>1, KeepsReflexive
<1>4. ASSUME NEW n \in P PROVE n + 1 \in P
  <2>. SUFFICES ASSUME n + 1 <= L PROVE Fine(n + 1)
    OBVIOUS
  <2> DEFINE m == order[n + 1]
             D1 == After(x, D, n)
             y == c[n]
             z == c[n + 1]
  <2>1. n \in Nat /\ n + 1 \in 1..L /\ (n + 1) - 1 = n
    BY <1>2
  <2>2. Sound(x, E, y, D1) /\ Keeps(x, b, y) /\ DOMAIN y = DOMAIN b
    BY <1>4, <2>1, <1>2 DEF Keeps
  <2>3. z = IF m \in S THEN CheckAndAdvance(x, y, m) ELSE y
    BY <1>1, <2>1
  <2>4. After(x, D, n + 1) = {to \in D1 : m # to[1]}
    <3>1. 1..(n + 1) = (1..n) \cup {n + 1}
      BY <2>1
    <3>. QED
      BY <3>1 DEF After, order
  <2>. HIDE DEF P, D1, y, z, m
  <2>5. CASE m \in S
    <3>1. m \in DOMAIN y
      BY <2>2, <2>5
    <3>2. Sound(x, E, CheckAndAdvance(x, y, m), Cut(D1, m)) /\ Keeps(x, y, CheckAndAdvance(x, y, m))
      BY <2>2, <3>1, AdvanceSound
    <3>3. Cut(D1, m) \subseteq After(x, D, n + 1)
      <4>1. \A to \in D1 : to \in S \X Ways
        BY DEF D1, After
      <4>2. \A to \in D1 : to[1] = m => to \in {m} \X Ways
        BY <4>1
      <4>. QED
        BY <2>4, <4>2 DEF Cut
    <3>4. Sound(x, E, z, After(x, D, n + 1)) /\ Keeps(x, y, z)
      BY <2>3, <2>5, <3>2, <3>3, SoundWeaker
    <3>. QED
      BY <2>2, <3>4, KeepsTransitive DEF z
  <2>6. CASE m \notin S
    <3>1. D1 \subseteq After(x, D, n + 1)
      BY <2>4, <2>6 DEF D1, After
    <3>. QED
      BY <2>2, <2>3, <2>6, <3>1, SoundWeaker DEF z
  <2>. QED
    BY <2>5, <2>6
<1>5. P = Nat
  <2>. HIDE DEF Fine
  <2>1. P \subseteq Nat
    OBVIOUS
  <2>. HIDE DEF P
  <2>. QED
    BY <1>3, <1>4, <2>1, InductionBySet
<1>6. Fine(L)
  BY <1>2, <1>5
<1>7. After(x, D, L) = {}
  BY <1>2 DEF After, order
<1>. QED
  BY <1>6, <1>7 DEF CheckAll, c, L, order

-----------------------------------------------------------------------------
(***************************************************************************)
(* The way of a team through a sound tree.                                 *)
(***************************************************************************)
Holds(x, b, p, t) == p \in SlotsOf(x) /\ p[1] \in DOMAIN b /\ p[1] # GrandReset /\ At(b, p[1], p[2]) = t

\* t left the match of slot p, decided, on its way to slot q.
Goes(x, rank, b, p, q, t) ==
  /\ Feeds(x, q[1], q[2]) # {} /\ Completed(b, p[1]) /\ rank[p[1]] < rank[q[1]]
  /\ \E w \in Ways : Sends(b, p[1], w) = t /\ \E r \in Out(x, p[1], w) : r = q \/ rank[r[1]] < rank[q[1]]

LEMMA SendsOnce ==
  ASSUME NEW x, NEW E, NEW b, Hung(x, E, b), NEW m \in DOMAIN b, NEW w \in Ways, NEW v \in Ways,
         Sends(b, m, w) = Sends(b, m, v), Sends(b, m, w) # NoTeam
  PROVE  w = v
<1>1. Fair(b[m])
  BY DEF Hung
<1>. QED
  BY <1>1 DEF Fair, Sends, Ways

LEMMA CameFrom ==
  ASSUME NEW x, NEW rank, NEW E, NEW b, NEW D, World(x, rank, E), Sound(x, E, b, D),
         NEW q, NEW t, t # NoTeam, Holds(x, b, q, t), NEW f \in Feeds(x, q[1], q[2])
  PROVE  /\ f[1] \in DOMAIN b /\ f[2] \in Ways /\ Completed(b, f[1]) /\ Sends(b, f[1], f[2]) = t
         /\ Out(x, f[1], f[2]) = {q} /\ rank[f[1]] < rank[q[1]]
         /\ \E s \in Ways : Holds(x, b, <<f[1], s>>, t)
<1>1. q[1] \in Ids(x) /\ q[2] \in Ways /\ q = <<q[1], q[2]>> /\ Shape(x, rank) /\ Hung(x, E, b)
  BY DEF Holds, SlotsOf, World, Sound
<1>2. /\ f \in SlotsOf(x) /\ f[1] \in Ids(x) /\ f[2] \in Ways /\ f[1] # GrandReset
      /\ q \in Out(x, f[1], f[2])
  BY <1>1, FeederOf
<1>3. f[1] \in DOMAIN b
  BY <1>1, <1>2 DEF Hung
<1>4. Flows(x, b, D, f[1], f[2], q)
  BY <1>2, <1>3 DEF Sound, Follows
<1>5. Completed(b, f[1]) /\ Sends(b, f[1], f[2]) = t
  BY <1>4 DEF Flows, Holds
<1>6. Out(x, f[1], f[2]) = {q} /\ rank[f[1]] < rank[q[1]]
  <2>1. Leads(x, rank)
    BY <1>1 DEF Shape
  <2>2. /\ \A to \in Out(x, f[1], f[2]) : to \in SlotsOf(x) /\ to[1] # GrandReset /\ rank[f[1]] < rank[to[1]]
        /\ \A to, at \in Out(x, f[1], f[2]) : to = at
    BY <1>2, <2>1 DEF Leads
  <2>. QED
    BY <1>2, <2>2
<1>7. \E s \in Ways : At(b, f[1], s) = t
  <2>1. Fair(b[f[1]])
    BY <1>1, <1>3 DEF Hung
  <2>2. t \in {b[f[1]].team[1], b[f[1]].team[2]}
    BY <1>5, <2>1 DEF Fair, Sends
  <2>. QED
    BY <2>2 DEF At, Ways
<1>8. \E s \in Ways : Holds(x, b, <<f[1], s>>, t)
  BY <1>2, <1>3, <1>7 DEF Holds, SlotsOf
<1>. QED
  BY <1>2, <1>3, <1>5, <1>6, <1>8

\* One step back on the way, from the chain of what is nearer.
LEMMA ChainStep ==
  ASSUME NEW x, NEW rank, NEW E, NEW b, NEW D, World(x, rank, E), Sound(x, E, b, D),
         NEW t, t # NoTeam, NEW n \in Nat,
         \A p, q : /\ Holds(x, b, p, t) /\ Holds(x, b, q, t) /\ p # q
                   /\ rank[p[1]] <= rank[q[1]] /\ rank[p[1]] + rank[q[1]] < n
                   => Goes(x, rank, b, p, q, t),
         NEW p, NEW q, Holds(x, b, p, t), Holds(x, b, q, t), p # q,
         rank[p[1]] <= rank[q[1]], rank[p[1]] + rank[q[1]] = n
  PROVE  Goes(x, rank, b, p, q, t)
<1>1. /\ p[1] \in Ids(x) /\ p[2] \in Ways /\ q[1] \in Ids(x) /\ q[2] \in Ways
      /\ p = <<p[1], p[2]>> /\ q = <<q[1], q[2]>>
  BY DEF Holds, SlotsOf
<1>2. Shape(x, rank) /\ rank \in [Ids(x) -> Nat] /\ Hung(x, E, b)
  BY DEF World, Shape, Sound
<1>3. rank[p[1]] \in Nat /\ rank[q[1]] \in Nat
  BY <1>1, <1>2
<1>4. CASE Feeds(x, q[1], q[2]) = {}
  <2>1. Unfed(x, q)
    BY <1>4 DEF Unfed, Holds
  <2>2. Feeds(x, p[1], p[2]) # {}
    <3>. SUFFICES ASSUME Feeds(x, p[1], p[2]) = {} PROVE FALSE
      OBVIOUS
    <3>1. Unfed(x, p)
      BY DEF Unfed, Holds
    <3>2. At(b, p[1], p[2]) = At(b, q[1], q[2]) /\ At(b, p[1], p[2]) # NoTeam
      BY DEF Holds
    <3>. QED
      BY <2>1, <3>1, <3>2 DEF Sound, Begins
  <2>3. PICK f \in Feeds(x, p[1], p[2]) : TRUE
    BY <2>2
  <2>4. rank[f[1]] < rank[p[1]] /\ f[1] \in DOMAIN b /\ \E s \in Ways : Holds(x, b, <<f[1], s>>, t)
    BY <2>3, CameFrom
  <2>5. PICK s \in Ways : Holds(x, b, <<f[1], s>>, t)
    BY <2>4
  <2> DEFINE r == <<f[1], s>>
  <2>6. r[1] = f[1] /\ Holds(x, b, r, t) /\ r[1] \in Ids(x)
    BY <2>5 DEF Holds, SlotsOf
  <2>. HIDE DEF r
  <2>7. rank[r[1]] \in Nat /\ rank[r[1]] < rank[p[1]]
    BY <1>2, <2>4, <2>6
  <2>8. rank[r[1]] <= rank[q[1]] /\ rank[r[1]] + rank[q[1]] < n /\ r # q
    BY <1>3, <2>7
  <2>9. Goes(x, rank, b, r, q, t)
    BY <2>6, <2>8
  <2>. QED
    BY <1>4, <2>9 DEF Goes
<1>5. CASE Feeds(x, q[1], q[2]) # {}
  <2>1. PICK f \in Feeds(x, q[1], q[2]) : TRUE
    BY <1>5
  <2>2. /\ f[1] \in DOMAIN b /\ f[2] \in Ways /\ Completed(b, f[1]) /\ Sends(b, f[1], f[2]) = t
        /\ Out(x, f[1], f[2]) = {q} /\ rank[f[1]] < rank[q[1]]
        /\ \E s \in Ways : Holds(x, b, <<f[1], s>>, t)
    BY <2>1, CameFrom
  <2>3. PICK s \in Ways : Holds(x, b, <<f[1], s>>, t)
    BY <2>2
  <2> DEFINE r == <<f[1], s>>
  <2>4. r[1] = f[1] /\ Holds(x, b, r, t) /\ r[1] \in Ids(x)
    BY <2>3 DEF Holds, SlotsOf
  <2>. HIDE DEF r
  <2>5. rank[r[1]] \in Nat /\ rank[r[1]] < rank[q[1]]
    BY <1>2, <2>2, <2>4
  <2>6. CASE r = p
    BY <1>5, <2>2, <2>4, <2>5, <2>6 DEF Goes
  <2>7. CASE r # p /\ rank[p[1]] <= rank[r[1]]
    <3>1. rank[p[1]] + rank[r[1]] < n
      BY <1>3, <2>5
    <3>2. Goes(x, rank, b, p, r, t)
      BY <2>4, <2>7, <3>1
    <3>3. PICK w \in Ways : Sends(b, p[1], w) = t /\ \E to \in Out(x, p[1], w) : to = r \/ rank[to[1]] < rank[r[1]]
      BY <3>2 DEF Goes
    <3>4. PICK to \in Out(x, p[1], w) : to = r \/ rank[to[1]] < rank[r[1]]
      BY <3>3
    <3>5. p[1] \in DOMAIN b /\ to[1] \in Ids(x)
      <4>1. p[1] \in DOMAIN b
        BY DEF Holds
      <4>2. to[1] \in DOMAIN b /\ to \in SlotsOf(x)
        BY <1>2, <3>4, <4>1, SlotsAreThere
      <4>. QED
        BY <1>2, <4>1, <4>2 DEF Hung
    <3>6. rank[to[1]] \in Nat
      BY <1>2, <3>5
    <3>7. rank[to[1]] < rank[q[1]]
      BY <1>3, <2>5, <3>4, <3>6
    <3>8. rank[p[1]] < rank[q[1]] /\ Completed(b, p[1])
      BY <1>3, <2>5, <3>2 DEF Goes
    <3>. QED
      BY <1>5, <3>3, <3>4, <3>7, <3>8 DEF Goes
  <2>8. CASE r # p /\ rank[r[1]] < rank[p[1]]
    <3>1. rank[r[1]] + rank[p[1]] < n /\ rank[r[1]] <= rank[p[1]]
      BY <1>3, <2>5, <2>8
    <3>2. Goes(x, rank, b, r, p, t)
      BY <2>4, <2>8, <3>1
    <3>3. PICK w \in Ways : Sends(b, r[1], w) = t /\ \E to \in Out(x, r[1], w) : to = p \/ rank[to[1]] < rank[p[1]]
      BY <3>2 DEF Goes
    <3>4. w = f[2]
      <4>1. Sends(b, f[1], w) = t /\ Sends(b, f[1], f[2]) = t
        BY <2>2, <2>4, <3>3
      <4>. QED
        BY <1>2, <2>2, <4>1, SendsOnce
    <3>5. q = p \/ rank[q[1]] < rank[p[1]]
      BY <2>2, <2>4, <3>3, <3>4
    <3>. QED
      BY <1>3, <3>5
  <2>. QED
    BY <1>3, <2>5, <2>6, <2>7, <2>8
<1>. QED
  BY <1>4, <1>5

\* Of two slots with one team the earlier is in a decided match, and sends it on.
LEMMA Chain ==
  ASSUME NEW x, NEW rank, NEW E, NEW b, NEW D, World(x, rank, E), Sound(x, E, b, D),
         NEW t, t # NoTeam, NEW p, NEW q, Holds(x, b, p, t), Holds(x, b, q, t), p # q,
         rank[p[1]] <= rank[q[1]]
  PROVE  Goes(x, rank, b, p, q, t)
<1> DEFINE Near(n) == \A i, j : /\ Holds(x, b, i, t) /\ Holds(x, b, j, t) /\ i # j
                                /\ rank[i[1]] <= rank[j[1]] /\ rank[i[1]] + rank[j[1]] < n
                                => Goes(x, rank, b, i, j, t)
           P == {n \in Nat : Near(n)}
<1>0. \A i : Holds(x, b, i, t) => rank[i[1]] \in Nat
  <2>1. rank \in [Ids(x) -> Nat]
    BY DEF World, Shape
  <2>2. \A i : Holds(x, b, i, t) => i[1] \in Ids(x)
    BY DEF Holds, SlotsOf
  <2>. QED
    BY <2>1, <2>2
<1>1. 0 \in P
  BY <1>0
<1>2. ASSUME NEW n \in P PROVE n + 1 \in P
  <2>1. n \in Nat /\ Near(n)
    OBVIOUS
  <2>2. ASSUME NEW i, NEW j, Holds(x, b, i, t), Holds(x, b, j, t), i # j,
               rank[i[1]] <= rank[j[1]], rank[i[1]] + rank[j[1]] < n + 1
        PROVE  Goes(x, rank, b, i, j, t)
    <3>1. rank[i[1]] + rank[j[1]] < n \/ rank[i[1]] + rank[j[1]] = n
      BY <1>0, <2>1, <2>2
    <3>2. CASE rank[i[1]] + rank[j[1]] < n
      BY <2>1, <2>2, <3>2
    <3>3. CASE rank[i[1]] + rank[j[1]] = n
      <4>. HIDE DEF P
      <4>. QED
        BY <2>1, <2>2, <3>3, ChainStep
    <3>. QED
      BY <3>1, <3>2, <3>3
  <2>. QED
    BY <2>1, <2>2
<1>3. P = Nat
  <2>. HIDE DEF Near
  <2>1. P \subseteq Nat
    OBVIOUS
  <2>. HIDE DEF P
  <2>. QED
    BY <1>1, <1>2, <2>1, InductionBySet
<1>4. rank[p[1]] + rank[q[1]] + 1 \in Nat /\ rank[p[1]] + rank[q[1]] < rank[p[1]] + rank[q[1]] + 1
  BY <1>0
<1>. QED
  BY <1>3, <1>4

-----------------------------------------------------------------------------
(***************************************************************************)
(* Where a team can stand: once in a match, and in one open match at most. *)
(***************************************************************************)
LEMMA InTheTree ==
  ASSUME NEW x, NEW E, NEW b, Hung(x, E, b), NEW m \in DOMAIN b, m # GrandReset, NEW s \in Ways
  PROVE  Holds(x, b, <<m, s>>, At(b, m, s))
BY DEF Hung, Holds, SlotsOf

LEMMA OnceInTheTree ==
  ASSUME NEW x, NEW rank, NEW E, NEW b, NEW D, World(x, rank, E), Sound(x, E, b, D),
         NEW m \in DOMAIN b, m # GrandReset, At(b, m, 1) # NoTeam
  PROVE  At(b, m, 1) # At(b, m, 2)
<1>. SUFFICES ASSUME At(b, m, 1) = At(b, m, 2) PROVE FALSE
  OBVIOUS
<1> DEFINE p == <<m, 1>>
           q == <<m, 2>>
           t == At(b, m, 1)
<1>1. Hung(x, E, b) /\ m \in Ids(x) /\ rank \in [Ids(x) -> Nat]
  BY DEF Sound, Hung, World, Shape
<1>2. Holds(x, b, p, t) /\ Holds(x, b, q, t)
  BY <1>1, InTheTree DEF Ways
<1>3. p # q /\ p[1] = m /\ q[1] = m /\ rank[m] \in Nat
  BY <1>1
<1>. HIDE DEF p, q, t
<1>4. rank[p[1]] <= rank[q[1]] /\ t # NoTeam
  BY <1>3 DEF t
<1>5. Goes(x, rank, b, p, q, t)
  BY <1>2, <1>3, <1>4, Chain
<1>. QED
  BY <1>3, <1>5 DEF Goes

LEMMA TwoTeams ==
  ASSUME NEW x, NEW rank, NEW E, NEW b, NEW D, World(x, rank, E), Sound(x, E, b, D),
         NEW m \in DOMAIN b, At(b, m, 1) # NoTeam
  PROVE  At(b, m, 1) # At(b, m, 2)
<1>1. CASE m # GrandReset
  BY <1>1, OnceInTheTree
<1>2. CASE m = GrandReset
  <2>1. Grand \in DOMAIN b /\ \A s \in Ways : At(b, m, s) \in {At(b, Grand, s), NoTeam}
    BY <1>2 DEF Sound, Reset
  <2>2. At(b, m, 1) = At(b, Grand, 1) /\ At(b, m, 2) \in {At(b, Grand, 2), NoTeam}
    BY <2>1 DEF Ways
  <2>3. Grand # GrandReset
    BY DEF Grand, GrandReset
  <2>4. At(b, Grand, 1) # At(b, Grand, 2)
    BY <2>1, <2>2, <2>3, OnceInTheTree
  <2>. QED
    BY <2>2, <2>4
<1>. QED
  BY <1>1, <1>2

LEMMA OpenWithReset ==
  ASSUME NEW x, NEW rank, NEW E, NEW b, NEW D, World(x, rank, E), Sound(x, E, b, D),
         GrandReset \in DOMAIN b, NEW m \in DOMAIN b, m # GrandReset, ~Completed(b, m),
         NEW s \in Ways, NEW v \in Ways, At(b, m, s) # NoTeam
  PROVE  At(b, m, s) # At(b, GrandReset, v)
<1>. SUFFICES ASSUME At(b, m, s) = At(b, GrandReset, v) PROVE FALSE
  OBVIOUS
<1> DEFINE p == <<m, s>>
           q == <<Grand, v>>
           t == At(b, m, s)
<1>1. Hung(x, E, b) /\ m \in Ids(x) /\ Grand \in Ids(x) /\ rank \in [Ids(x) -> Nat]
  BY DEF Sound, Hung, World, Shape, Reset
<1>2. Grand \in DOMAIN b /\ Grand # GrandReset /\ Completed(b, Grand) /\ At(b, Grand, v) = t
  BY DEF Sound, Reset, Grand, GrandReset
<1>3. Holds(x, b, p, t) /\ Holds(x, b, q, t)
  BY <1>1, <1>2, InTheTree
<1>4. p[1] = m /\ q[1] = Grand /\ rank[m] \in Nat /\ rank[Grand] \in Nat /\ m # Grand
  BY <1>1, <1>2
<1>. HIDE DEF p, q, t
<1>5. p # q /\ t # NoTeam
  BY <1>4 DEF t
<1>6. CASE rank[m] <= rank[Grand]
  <2>1. Goes(x, rank, b, p, q, t)
    BY <1>3, <1>4, <1>5, <1>6, Chain
  <2>. QED
    BY <1>4, <2>1 DEF Goes
<1>7. CASE rank[Grand] <= rank[m]
  <2>1. Goes(x, rank, b, q, p, t)
    BY <1>3, <1>4, <1>5, <1>7, Chain
  <2>2. \A w \in Ways : Out(x, Grand, w) = {}
    BY <1>1 DEF World, Shape, Leads
  <2>. QED
    BY <1>4, <2>1, <2>2 DEF Goes
<1>. QED
  BY <1>4, <1>6, <1>7

LEMMA OneOpen ==
  ASSUME NEW x, NEW rank, NEW E, NEW b, NEW D, World(x, rank, E), Sound(x, E, b, D),
         NEW m \in DOMAIN b, NEW n \in DOMAIN b, ~Completed(b, m), ~Completed(b, n),
         NEW s \in Ways, NEW v \in Ways, At(b, m, s) # NoTeam, At(b, m, s) = At(b, n, v)
  PROVE  m = n
<1>. SUFFICES ASSUME m # n PROVE FALSE
  OBVIOUS
<1>1. CASE m = GrandReset
  BY <1>1, OpenWithReset
<1>2. CASE n = GrandReset
  BY <1>2, OpenWithReset
<1>3. CASE m # GrandReset /\ n # GrandReset
  <2> DEFINE p == <<m, s>>
             q == <<n, v>>
             t == At(b, m, s)
  <2>1. Hung(x, E, b) /\ m \in Ids(x) /\ n \in Ids(x) /\ rank \in [Ids(x) -> Nat]
    BY DEF Sound, Hung, World, Shape
  <2>2. Holds(x, b, p, t) /\ Holds(x, b, q, t)
    BY <1>3, <2>1, InTheTree
  <2>3. p[1] = m /\ q[1] = n /\ rank[m] \in Nat /\ rank[n] \in Nat
    BY <2>1
  <2>. HIDE DEF p, q, t
  <2>4. p # q /\ t # NoTeam
    BY <2>3 DEF t
  <2>5. CASE rank[m] <= rank[n]
    <3>1. Goes(x, rank, b, p, q, t)
      BY <2>2, <2>3, <2>4, <2>5, Chain
    <3>. QED
      BY <2>3, <3>1 DEF Goes
  <2>6. CASE rank[n] <= rank[m]
    <3>1. Goes(x, rank, b, q, p, t)
      BY <2>2, <2>3, <2>4, <2>6, Chain
    <3>. QED
      BY <2>3, <3>1 DEF Goes
  <2>. QED
    BY <2>3, <2>5, <2>6
<1>. QED
  BY <1>1, <1>2, <1>3

-----------------------------------------------------------------------------
(***************************************************************************)
(* A result moves its teams on (Sent).                                     *)
(***************************************************************************)
\* As Keeps, where a match has been decided by hand and the reset added.
Stays(b, c) ==
  /\ DOMAIN b \subseteq DOMAIN c
  /\ \A m \in DOMAIN b :
       /\ Completed(b, m) => c[m] = b[m]
       /\ ~Completed(c, m) => \A s \in Ways : At(b, m, s) # NoTeam => At(c, m, s) = At(b, m, s)
       /\ NoTeam \notin Own(b, m) =>
            /\ c[m].team = b[m].team
            /\ b[m].status = "IN_PROGRESS" => c[m].status \in {"IN_PROGRESS", "COMPLETED"}
  /\ \A m \in DOMAIN c : c[m].status = "IN_PROGRESS" => m \in DOMAIN b /\ b[m].status = "IN_PROGRESS"

LEMMA KeepsStays ==
  ASSUME NEW x, NEW b, NEW c, Keeps(x, b, c)
  PROVE  Stays(b, c)
BY DEF Keeps, Stays

LEMMA StaysReflexive ==
  ASSUME NEW b
  PROVE  Stays(b, b)
BY DEF Stays

LEMMA StaysTransitive ==
  ASSUME NEW b, NEW c, NEW d, Stays(b, c), Stays(c, d)
  PROVE  Stays(b, d)
<1>1. DOMAIN b \subseteq DOMAIN c /\ DOMAIN c \subseteq DOMAIN d /\ DOMAIN b \subseteq DOMAIN d
  BY DEF Stays
<1>2. ASSUME NEW m \in DOMAIN b
      PROVE  /\ Completed(b, m) => d[m] = b[m]
             /\ ~Completed(d, m) => \A s \in Ways : At(b, m, s) # NoTeam => At(d, m, s) = At(b, m, s)
             /\ NoTeam \notin Own(b, m) =>
                  /\ d[m].team = b[m].team
                  /\ b[m].status = "IN_PROGRESS" => d[m].status \in {"IN_PROGRESS", "COMPLETED"}
  <2>1. m \in DOMAIN c
    BY <1>1
  <2>2. Completed(b, m) => c[m] = b[m] /\ d[m] = c[m]
    BY <2>1 DEF Stays, Completed
  <2>3. Completed(c, m) => d[m] = c[m]
    BY <2>1 DEF Stays
  <2>4. ~Completed(d, m) => ~Completed(c, m)
    BY <2>3 DEF Completed
  <2>5. ~Completed(d, m) => \A s \in Ways : At(b, m, s) # NoTeam => At(d, m, s) = At(b, m, s)
    BY <2>1, <2>4 DEF Stays
  <2>6. NoTeam \notin Own(b, m) =>
          /\ d[m].team = b[m].team
          /\ b[m].status = "IN_PROGRESS" => d[m].status \in {"IN_PROGRESS", "COMPLETED"}
    <3>. SUFFICES ASSUME NoTeam \notin Own(b, m)
         PROVE  /\ d[m].team = b[m].team
                /\ b[m].status = "IN_PROGRESS" => d[m].status \in {"IN_PROGRESS", "COMPLETED"}
      OBVIOUS
    <3>1. /\ c[m].team = b[m].team
          /\ b[m].status = "IN_PROGRESS" => c[m].status \in {"IN_PROGRESS", "COMPLETED"}
      BY DEF Stays
    <3>2. NoTeam \notin Own(c, m)
      BY <3>1 DEF Own, At
    <3>3. /\ d[m].team = c[m].team
          /\ c[m].status = "IN_PROGRESS" => d[m].status \in {"IN_PROGRESS", "COMPLETED"}
      BY <2>1, <3>2 DEF Stays
    <3>. QED
      BY <2>3, <3>1, <3>3 DEF Completed
  <2>. QED
    BY <2>2, <2>5, <2>6
<1>3. ASSUME NEW m \in DOMAIN d, d[m].status = "IN_PROGRESS" PROVE m \in DOMAIN b /\ b[m].status = "IN_PROGRESS"
  BY <1>3 DEF Stays
<1>. QED
  BY <1>1, <1>2, <1>3 DEF Stays

\* A slot that no active team is due in does not wait.
LEMMA NotDue ==
  ASSUME NEW x, NEW rank, NEW E, NEW b, NEW D, World(x, rank, E), Sound(x, E, b, D),
         NEW f \in SlotsOf(x), f[1] \in DOMAIN b, NEW to \in Out(x, f[1], f[2]),
         Sends(b, f[1], f[2]) \in x.gone \cup {NoTeam}
  PROVE  Sound(x, E, b, D \ {to})
<1>1. Shape(x, rank) /\ Hung(x, E, b)
  BY DEF World, Sound
<1>2. ASSUME NEW g \in DOMAIN b, NEW w \in Ways, NEW at \in Out(x, g, w) PROVE Flows(x, b, D \ {to}, g, w, at)
  <2>1. Flows(x, b, D, g, w, at)
    BY DEF Sound, Follows
  <2>2. CASE at # to
    BY <2>1, <2>2 DEF Flows
  <2>3. CASE at = to
    <3>1. <<g, w>> \in Feeds(x, at[1], at[2])
      BY <1>1, SlotsAreThere
    <3>2. f = <<f[1], f[2]>> /\ f[1] \in DOMAIN b /\ f[2] \in Ways
      BY DEF SlotsOf
    <3>3. \A h \in Feeds(x, to[1], to[2]) : h = <<f[1], f[2]>>
      BY <1>1, <3>2, SlotsAreThere
    <3>4. g = f[1] /\ w = f[2]
      BY <2>3, <3>1, <3>3
    <3>. QED
      BY <2>1, <3>4 DEF Flows
  <2>. QED
    BY <2>2, <2>3
<1>. QED
  BY <1>2 DEF Sound, Follows

\* To make a waiting match ready changes nothing of this.
Readied(b, m) == IF b[m].status = "PENDING" THEN [b EXCEPT ![m].status = "READY"] ELSE b

LEMMA ReadiedSound ==
  ASSUME NEW x, NEW rank, NEW E, NEW b, NEW D, World(x, rank, E), Sound(x, E, b, D), NEW m \in DOMAIN b
  PROVE  Sound(x, E, Readied(b, m), D) /\ Keeps(x, b, Readied(b, m)) /\ DOMAIN Readied(b, m) = DOMAIN b
<1> DEFINE c == Readied(b, m)
<1>1. CASE b[m].status # "PENDING"
  BY <1>1, KeepsReflexive DEF Readied
<1>2. CASE b[m].status = "PENDING"
  <2>0. Hung(x, E, b) /\ b \in [DOMAIN b -> Records(E)]
    BY DEF Sound, Hung
  <2>1. c = [b EXCEPT ![m] = [b[m] EXCEPT !.status = "READY"]]
    BY <1>2, <2>0 DEF Readied
  <2>2. DOMAIN c = DOMAIN b /\ \A n \in DOMAIN b : n # m => c[n] = b[n]
    BY <2>1
  <2>3. c[m] = [b[m] EXCEPT !.status = "READY"] /\ b[m] \in Records(E)
    BY <2>0, <2>1
  <2>4. /\ c[m] \in Records(E) /\ c[m].team = b[m].team /\ c[m].winner = b[m].winner /\ c[m].loser = b[m].loser
        /\ c[m].kind = b[m].kind /\ c[m].status = "READY"
    BY <2>3 DEF Records
  <2>. HIDE DEF c
  <2>5. \A n \in DOMAIN b : /\ Completed(c, n) <=> Completed(b, n)
                            /\ \A s \in Ways : At(c, n, s) = At(b, n, s) /\ Sends(c, n, s) = Sends(b, n, s)
                            /\ c[n] \in Records(E) /\ Fair(c[n])
    <3>1. ASSUME NEW n \in DOMAIN b, n # m
          PROVE  /\ Completed(c, n) <=> Completed(b, n)
                 /\ \A s \in Ways : At(c, n, s) = At(b, n, s) /\ Sends(c, n, s) = Sends(b, n, s)
                 /\ c[n] \in Records(E) /\ Fair(c[n])
      BY <2>0, <2>2, <3>1 DEF Completed, At, Sends, Hung
    <3>2. /\ Completed(c, m) <=> Completed(b, m)
          /\ \A s \in Ways : At(c, m, s) = At(b, m, s) /\ Sends(c, m, s) = Sends(b, m, s)
      BY <1>2, <2>4 DEF Completed, At, Sends
    <3>3. Fair(c[m])
      <4>1. Fair(b[m])
        BY <2>0 DEF Hung
      <4>. QED
        BY <1>2, <2>4, <4>1 DEF Fair
    <3>. QED
      BY <2>4, <3>1, <3>2, <3>3
  <2>6. Keeps(x, b, c)
    <3>1. c[m].status = "READY" /\ ~Completed(b, m) /\ ~Completed(c, m) /\ c[m].team = b[m].team
      BY <1>2, <2>4 DEF Completed
    <3>2. ASSUME NEW n \in DOMAIN b
          PROVE  /\ Completed(b, n) => c[n] = b[n]
                 /\ ~Completed(c, n) => \A s \in Ways : At(b, n, s) # NoTeam => At(c, n, s) = At(b, n, s)
                 /\ ~Completed(b, n) /\ Own(b, n) \cap (x.gone \cup {NoTeam}) = {} => ~Completed(c, n)
                 /\ NoTeam \notin Own(b, n) =>
                      /\ c[n].team = b[n].team
                      /\ b[n].status = "IN_PROGRESS" => c[n].status \in {"IN_PROGRESS", "COMPLETED"}
                 /\ c[n].status = "IN_PROGRESS" => b[n].status = "IN_PROGRESS"
      <4>1. CASE n = m
        BY <1>2, <2>5, <3>1, <4>1
      <4>2. CASE n # m
        BY <2>2, <2>5, <4>2
      <4>. QED
        BY <4>1, <4>2
    <3>3. Spares(x, b, c)
      BY <2>5 DEF Spares
    <3>. QED
      BY <2>2, <3>2, <3>3 DEF Keeps
  <2>7. Hung(x, E, c)
    <3>1. c \in [DOMAIN b -> Records(E)]
      <4>1. c = [n \in DOMAIN b |-> c[n]]
        BY <2>1, <2>2 DEF c
      <4>. QED
        BY <2>5, <4>1
    <3>. QED
      BY <2>0, <2>2, <2>5, <3>1 DEF Hung
  <2>8. Follows(x, c, D)
    <3>. SUFFICES ASSUME NEW f \in DOMAIN b, NEW w \in Ways, NEW to \in Out(x, f, w) PROVE Flows(x, c, D, f, w, to)
      BY <2>2 DEF Follows
    <3>1. to[1] \in DOMAIN b /\ to[2] \in Ways
      BY <2>0, SlotsAreThere DEF World
    <3>2. Flows(x, b, D, f, w, to)
      BY DEF Sound, Follows
    <3>. QED
      BY <2>5, <3>1, <3>2 DEF Flows
  <2>9. Begins(x, c)
    <3>1. \A p : Unfed(x, p) => p[1] \in DOMAIN b /\ p[2] \in Ways
      BY <2>0 DEF Unfed, SlotsOf, Hung
    <3>. QED
      BY <2>5, <3>1 DEF Sound, Begins
  <2>10. Reset(c)
    <3>1. Reset(b)
      BY DEF Sound
    <3>. QED
      BY <2>2, <2>5, <3>1 DEF Reset
  <2>. QED
    BY <2>2, <2>6, <2>7, <2>8, <2>9, <2>10 DEF Sound, c
<1>. QED
  BY <1>1, <1>2

LEMMA SentSound ==
  ASSUME NEW x, NEW rank, NEW E, NEW b, NEW D, World(x, rank, E), Sound(x, E, b, D),
         NEW f \in SlotsOf(x), f[1] \in DOMAIN b, Completed(b, f[1]), NEW to \in Out(x, f[1], f[2])
  PROVE  LET c == Sent(x, b, to, Sends(b, f[1], f[2]))
         IN Sound(x, E, c, D \ {to}) /\ Keeps(x, b, c)
<1> DEFINE t == Sends(b, f[1], f[2])
           moved == IF t \in x.gone THEN b ELSE Put(b, to, t)
           both == moved[to[1]].team[1] # NoTeam /\ moved[to[1]].team[2] # NoTeam
           ready == IF both /\ t \notin x.gone \cup {NoTeam} /\ moved[to[1]].status = "PENDING"
                    THEN [moved EXCEPT ![to[1]].status = "READY"] ELSE moved
           D1 == D \ {to}
<1>1. Sound(x, E, moved, D1) /\ Keeps(x, b, moved)
  <2>1. CASE t \in x.gone \cup {NoTeam}
    <3>1. moved = b
      BY <2>1 DEF Put
    <3>. HIDE DEF moved
    <3>. QED
      BY <2>1, <3>1, NotDue, KeepsReflexive
  <2>2. CASE t \notin x.gone \cup {NoTeam}
    <3>1. moved = Put(b, to, t)
      BY <2>2
    <3>. HIDE DEF moved
    <3>. QED
      BY <2>2, <3>1, PutSound
  <2>. QED
    BY <2>1, <2>2
<1>2. ready \in {moved, Readied(moved, to[1])}
  BY DEF Readied
<1>3. to[1] \in DOMAIN b /\ DOMAIN moved = DOMAIN b
  <2>1. f[2] \in Ways
    BY DEF SlotsOf
  <2>2. to[1] \in DOMAIN b
    <3>1. Shape(x, rank) /\ Hung(x, E, b)
      BY DEF World, Sound
    <3> DEFINE m == f[1]
               w == f[2]
    <3>2. m \in DOMAIN b /\ w \in Ways /\ to \in Out(x, m, w)
      BY <2>1
    <3>. HIDE DEF m, w, t, moved
    <3>. QED
      BY <3>1, <3>2, SlotsAreThere
  <2>. HIDE DEF moved
  <2>. QED
    BY <1>1, <2>2 DEF Keeps
<1>4. Sent(x, b, to, t) = CheckAndAdvance(x, ready, to[1])
  BY DEF Sent
<1>. HIDE DEF moved, D1
<1>5. Sound(x, E, Readied(moved, to[1]), D1) /\ Keeps(x, moved, Readied(moved, to[1]))
  BY <1>1, <1>3, ReadiedSound
<1>6. Sound(x, E, ready, D1) /\ Keeps(x, moved, ready)
  <2>. HIDE DEF ready
  <2>. QED
    BY <1>1, <1>2, <1>5, KeepsReflexive
<1>. HIDE DEF ready
<1> DEFINE m == to[1]
           c == CheckAndAdvance(x, ready, m)
<1>. HIDE DEF m
<1>7. m \in DOMAIN ready
  BY <1>3, <1>6 DEF Keeps, m
<1>8. Sound(x, E, c, Cut(D1, m)) /\ Keeps(x, ready, c)
  BY <1>6, <1>7, AdvanceSound
<1>. HIDE DEF c
<1>9. Cut(D1, m) \subseteq D1
  BY DEF Cut
<1>10. Sound(x, E, c, D1) /\ Keeps(x, b, c)
  BY <1>1, <1>6, <1>8, <1>9, SoundWeaker, KeepsTransitive
<1>. QED
  BY <1>4, <1>10 DEF c, m, D1

LEMMA SentOnSound ==
  ASSUME NEW x, NEW rank, NEW E, NEW b, NEW D, World(x, rank, E), Sound(x, E, b, D),
         NEW m \in DOMAIN b, Completed(b, m), NEW w \in Ways
  PROVE  LET c == SentOn(x, b, m, w, Sends(b, m, w))
         IN Sound(x, E, c, D \ Out(x, m, w)) /\ Keeps(x, b, c)
<1>1. CASE Out(x, m, w) = {}
  <2>1. SentOn(x, b, m, w, Sends(b, m, w)) = b /\ D \subseteq D \ Out(x, m, w)
    BY <1>1 DEF SentOn
  <2>. QED
    BY <2>1, SoundWeaker, KeepsReflexive
<1>2. CASE Out(x, m, w) # {}
  <2> DEFINE to == CHOOSE i \in Out(x, m, w) : TRUE
             f == <<m, w>>
             t == Sends(b, m, w)
  <2>1. to \in Out(x, m, w)
    BY <1>2
  <2>2. SentOn(x, b, m, w, t) = Sent(x, b, to, t)
    BY <1>2 DEF SentOn
  <2>. HIDE DEF to
  <2>3. m \in Ids(x)
    BY DEF Sound, Hung
  <2>4. f \in SlotsOf(x) /\ f[1] = m /\ f[2] = w
    BY <2>3 DEF SlotsOf
  <2>5. Out(x, m, w) = {to}
    <3>1. Leads(x, rank)
      BY DEF World, Shape
    <3>2. \A i, j \in Out(x, m, w) : i = j
      BY <2>3, <3>1 DEF Leads
    <3>. QED
      BY <2>1, <3>2
  <2>. HIDE DEF f
  <2>6. Sound(x, E, Sent(x, b, to, t), D \ {to}) /\ Keeps(x, b, Sent(x, b, to, t))
    BY <2>1, <2>4, SentSound
  <2>. QED
    BY <2>2, <2>5, <2>6
<1>. QED
  BY <1>1, <1>2

-----------------------------------------------------------------------------
(***************************************************************************)
(* The first result of a match (Scored).                                   *)
(***************************************************************************)
LEMMA AfterGrandFinalSound ==
  ASSUME NEW x, NEW rank, NEW E, NEW b, NEW D, World(x, rank, E), Sound(x, E, b, D),
         Grand \in DOMAIN b, Completed(b, Grand), GrandReset \notin DOMAIN b
  PROVE  Sound(x, E, AfterGrandFinal(b), D) /\ Stays(b, AfterGrandFinal(b))
<1> DEFINE c == AfterGrandFinal(b)
           new == [Open EXCEPT !.team = b[Grand].team, !.status = "READY"]
           S == DOMAIN b \cup {GrandReset}
           more == [i \in S |-> IF i # GrandReset THEN b[i] ELSE new]
<1>1. c \in {b, more}
  <2>1. {j \in DOMAIN b : j # GrandReset \/ b[j].status \in {"IN_PROGRESS", "COMPLETED"}} = DOMAIN b
    OBVIOUS
  <2>2. [i \in DOMAIN b |-> b[i]] = b
    BY DEF Sound, Hung
  <2>. QED
    BY <2>1, <2>2 DEF AfterGrandFinal
<1>2. CASE c = b
  BY <1>2, StaysReflexive
<1>3. CASE c = more
  <2>0. Hung(x, E, b) /\ Shape(x, rank) /\ b \in [DOMAIN b -> Records(E)]
    BY DEF World, Sound, Hung
  <2>1. DOMAIN more = S /\ \A n \in DOMAIN b : more[n] = b[n]
    OBVIOUS
  <2>2. more[GrandReset] = new
    OBVIOUS
  <2>3. b[Grand] \in Records(E)
    BY <2>0
  <2>4. /\ new \in Records(E) /\ new.team = b[Grand].team /\ new.status = "READY" /\ new.winner = NoTeam
        /\ new.loser = NoTeam /\ new.kind = "PLAYED"
    BY <2>3 DEF Records, Open, Places
  <2>. HIDE DEF new
  <2>5. more \in [S -> Records(E)]
    BY <2>0, <2>4
  <2>6. GrandReset \in Ids(x)
    <3>1. Grand \in Ids(x)
      BY <2>0 DEF Hung
    <3>. QED
      BY <2>0, <3>1 DEF Shape, Behind
  <2>. HIDE DEF more, c
  <2>7. Fair(more[GrandReset])
    BY <2>2, <2>4 DEF Fair
  <2>8. Hung(x, E, more)
    <3>1. \A n \in S : Fair(more[n])
      BY <2>0, <2>1, <2>7 DEF Hung
    <3>. QED
      BY <2>0, <2>1, <2>5, <2>6, <3>1 DEF Hung
  <2>9. \A n \in DOMAIN b : /\ Completed(more, n) <=> Completed(b, n)
                            /\ \A s \in Ways : At(more, n, s) = At(b, n, s) /\ Sends(more, n, s) = Sends(b, n, s)
    BY <2>1 DEF Completed, At, Sends
  <2>10. Follows(x, more, D)
    <3>. SUFFICES ASSUME NEW f \in S, NEW w \in Ways, NEW to \in Out(x, f, w) PROVE Flows(x, more, D, f, w, to)
      BY <2>1 DEF Follows
    <3>1. f # GrandReset
      BY <2>0, <2>6 DEF Shape, Leads
    <3>2. f \in DOMAIN b
      BY <3>1
    <3>3. to[1] \in DOMAIN b /\ to[2] \in Ways
      BY <2>0, <3>2, SlotsAreThere
    <3>4. Flows(x, b, D, f, w, to)
      BY <3>2 DEF Sound, Follows
    <3>. QED
      BY <2>9, <3>2, <3>3, <3>4 DEF Flows
  <2>11. Begins(x, more)
    <3>1. \A p : Unfed(x, p) => p[1] \in DOMAIN b /\ p[2] \in Ways
      BY <2>0 DEF Unfed, SlotsOf, Hung
    <3>. QED
      BY <2>9, <3>1 DEF Sound, Begins
  <2>12. Reset(more)
    <3>1. \A s \in Ways : At(more, GrandReset, s) = At(more, Grand, s)
      BY <2>1, <2>2, <2>4 DEF At
    <3>. QED
      BY <2>1, <2>9, <3>1 DEF Reset
  <2>13. Stays(b, more)
    <3>1. \A m \in S : more[m].status = "IN_PROGRESS" => m \in DOMAIN b /\ b[m].status = "IN_PROGRESS"
      BY <2>1, <2>2, <2>4
    <3>. QED
      BY <2>1, <2>9, <3>1 DEF Stays
  <2>. QED
    BY <1>3, <2>8, <2>10, <2>11, <2>12, <2>13 DEF Sound, c
<1>. QED
  BY <1>1, <1>2, <1>3

\* What update_match_score writes into the match itself.
Written(b, m, s, kind) == [b EXCEPT ![m] = Over(b[m], kind, b[m].team[s], b[m].team[3 - s])]

LEMMA WrittenIs ==
  ASSUME NEW x, NEW rank, NEW E, NEW b, NEW D, World(x, rank, E), Sound(x, E, b, D),
         NEW m \in DOMAIN b, NoTeam \notin Own(b, m), NEW s \in Ways, NEW kind \in {"PLAYED", "WALKOVER"}
  PROVE  LET c == Written(b, m, s, kind)
         IN /\ DOMAIN c = DOMAIN b /\ c \in [DOMAIN b -> Records(E)]
            /\ \A n \in DOMAIN b : n # m => c[n] = b[n]
            /\ Completed(c, m) /\ c[m].team = b[m].team /\ c[m].kind = kind
            /\ Sends(c, m, 1) = At(b, m, s) /\ Sends(c, m, 2) = At(b, m, 3 - s)
            /\ At(b, m, s) # At(b, m, 3 - s) /\ Fair(c[m])
<1> DEFINE c == Written(b, m, s, kind)
           r == Over(b[m], kind, b[m].team[s], b[m].team[3 - s])
<1>1. b \in [DOMAIN b -> Records(E)] /\ b[m] \in Records(E)
  BY DEF Sound, Hung
<1>2. At(b, m, 1) # At(b, m, 2)
  <2>1. At(b, m, 1) # NoTeam
    BY DEF Own
  <2>. QED
    BY <2>1, TwoTeams
<1>3. s \in {1, 2} /\ 3 - s \in {1, 2} /\ s # 3 - s
  BY DEF Ways
<1>4. b[m].team[s] \in Places(E) /\ b[m].team[3 - s] \in Places(E)
  BY <1>1, <1>3 DEF Records
<1>5. /\ r \in Records(E) /\ r.team = b[m].team /\ r.status = "COMPLETED"
      /\ r.kind = kind /\ r.winner = b[m].team[s] /\ r.loser = b[m].team[3 - s]
  <2>1. kind \in Kinds
    BY DEF Kinds
  <2> DEFINE up == b[m].team[s]
             down == b[m].team[3 - s]
             rec == b[m]
  <2>2. up \in Places(E) /\ down \in Places(E) /\ rec \in Records(E) /\ r = Over(rec, kind, up, down)
    BY <1>1, <1>4
  <2>. HIDE DEF up, down, rec, r
  <2>3. /\ r \in Records(E) /\ r.team = rec.team /\ r.status = "COMPLETED"
        /\ r.kind = kind /\ r.winner = up /\ r.loser = down
    BY <2>1, <2>2, OverIs
  <2>. QED
    BY <2>3 DEF up, down, rec
<1>6. c = [b EXCEPT ![m] = r]
  BY DEF Written
<1>. HIDE DEF r, c
<1>7. DOMAIN c = DOMAIN b /\ c \in [DOMAIN b -> Records(E)] /\ c[m] = r /\ \A n \in DOMAIN b : n # m => c[n] = b[n]
  BY <1>1, <1>5, <1>6
<1>8. At(b, m, s) # At(b, m, 3 - s)
  BY <1>2, <1>3
<1>9. Fair(c[m])
  <2>1. {b[m].team[s], b[m].team[3 - s]} = {b[m].team[1], b[m].team[2]} /\ NoTeam \notin {b[m].team[s], b[m].team[3 - s]}
    BY <1>3 DEF Own, At
  <2>. QED
    BY <1>5, <1>7, <1>8, <2>1 DEF Fair, At
<1>. QED
  BY <1>5, <1>7, <1>8, <1>9 DEF c, Completed, Sends, At

LEMMA WrittenSound ==
  ASSUME NEW x, NEW rank, NEW E, NEW b, World(x, rank, E), Sound(x, E, b, {}),
         NEW m \in DOMAIN b, ~Completed(b, m), NoTeam \notin Own(b, m),
         NEW s \in Ways, NEW kind \in {"PLAYED", "WALKOVER"}
  PROVE  LET c == Written(b, m, s, kind)
         IN Sound(x, E, c, Out(x, m, 1) \cup Out(x, m, 2)) /\ Stays(b, c)
<1> DEFINE c == Written(b, m, s, kind)
           D == Out(x, m, 1) \cup Out(x, m, 2)
<1>2. Hung(x, E, b) /\ Shape(x, rank)
  BY DEF World, Sound
<1>0. \A f \in DOMAIN b, w \in Ways : \A to \in Out(x, f, w) : to[1] \in DOMAIN b /\ to[2] \in Ways /\ to[1] # f
  <2>. HIDE DEF c, D
  <2>. TAKE f \in DOMAIN b, w \in Ways
  <2>. TAKE to \in Out(x, f, w)
  <2>. QED
    BY <1>2, SlotsInside
<1>1. /\ DOMAIN c = DOMAIN b /\ c \in [DOMAIN b -> Records(E)]
      /\ \A n \in DOMAIN b : n # m => c[n] = b[n]
      /\ Completed(c, m) /\ c[m].team = b[m].team /\ Fair(c[m])
  BY WrittenIs
<1>. HIDE DEF c, D
<1>3. Hung(x, E, c)
  BY <1>1, <1>2 DEF Hung
<1>4. \A n \in DOMAIN b : /\ \A v \in Ways : At(c, n, v) = At(b, n, v)
                          /\ n # m => (Completed(c, n) <=> Completed(b, n)) /\ \A v \in Ways : Sends(c, n, v) = Sends(b, n, v)
  BY <1>1 DEF At, Completed, Sends
<1>5. Follows(x, c, D)
  <2>. SUFFICES ASSUME NEW f \in DOMAIN b, NEW w \in Ways, NEW to \in Out(x, f, w) PROVE Flows(x, c, D, f, w, to)
    BY <1>1 DEF Follows
  <2>1. to[1] \in DOMAIN b /\ to[2] \in Ways /\ to[1] # f
    BY <1>0
  <2>2. Flows(x, b, {}, f, w, to)
    BY DEF Sound, Follows
  <2>3. CASE f = m
    <3>1. to \in D
      BY <2>3 DEF D, Ways
    <3>2. At(b, to[1], to[2]) = NoTeam /\ ~Completed(b, to[1])
      BY <2>2, <2>3 DEF Flows
    <3>. QED
      BY <1>1, <1>4, <2>1, <2>3, <3>1, <3>2 DEF Flows
  <2>4. CASE f # m
    <3>1. Completed(c, f) <=> Completed(b, f)
      BY <1>4, <2>4
    <3>2. Sends(c, f, w) = Sends(b, f, w) /\ At(c, to[1], to[2]) = At(b, to[1], to[2])
      BY <1>4, <2>1, <2>4
    <3>3. Completed(c, to[1]) => Completed(c, f)
      <4>1. CASE to[1] = m
        <5>1. At(b, to[1], to[2]) # NoTeam
          BY <2>1, <4>1 DEF Own, Ways
        <5>. QED
          BY <2>2, <3>1, <5>1 DEF Flows
      <4>2. CASE to[1] # m
        BY <1>4, <2>1, <2>2, <3>1, <4>2 DEF Flows
      <4>. QED
        BY <4>1, <4>2
    <3>. QED
      BY <2>2, <3>1, <3>2, <3>3 DEF Flows
  <2>. QED
    BY <2>3, <2>4
<1>6. Begins(x, c)
  <2>1. \A p : Unfed(x, p) => p[1] \in DOMAIN b /\ p[2] \in Ways
    BY <1>2 DEF Unfed, SlotsOf, Hung
  <2>. QED
    BY <1>4, <2>1 DEF Sound, Begins
<1>7. Reset(c)
  <2>1. Reset(b)
    BY DEF Sound
  <2>. QED
    BY <1>1, <1>4, <2>1 DEF Reset
<1>8. Stays(b, c)
  <2>1. c[m].status = "COMPLETED"
    BY <1>1 DEF Completed
  <2>. QED
    BY <1>1, <1>4, <2>1 DEF Stays, Completed
<1>. QED
  BY <1>3, <1>5, <1>6, <1>7, <1>8 DEF Sound, c, D

LEMMA MovedOn ==
  ASSUME NEW x, NEW rank, NEW E, NEW b, NEW D, World(x, rank, E), Sound(x, E, b, D),
         NEW m \in DOMAIN b, Completed(b, m), D \subseteq Out(x, m, 1) \cup Out(x, m, 2)
  PROVE  LET c == SentOn(x, SentOn(x, b, m, 1, Sends(b, m, 1)), m, 2, Sends(b, m, 2))
         IN Sound(x, E, c, {}) /\ Keeps(x, b, c)
<1> DEFINE up == SentOn(x, b, m, 1, Sends(b, m, 1))
           c == SentOn(x, up, m, 2, Sends(b, m, 2))
           D1 == D \ Out(x, m, 1)
<1>1. Sound(x, E, up, D1) /\ Keeps(x, b, up)
  BY SentOnSound DEF Ways
<1>. HIDE DEF up, D1
<1>2. m \in DOMAIN up /\ Completed(up, m) /\ Sends(up, m, 2) = Sends(b, m, 2)
  BY <1>1 DEF Keeps, Completed, Sends
<1>3. Sound(x, E, SentOn(x, up, m, 2, Sends(up, m, 2)), D1 \ Out(x, m, 2)) /\ Keeps(x, up, SentOn(x, up, m, 2, Sends(up, m, 2)))
  BY <1>1, <1>2, SentOnSound DEF Ways
<1>4. Sound(x, E, c, D1 \ Out(x, m, 2)) /\ Keeps(x, up, c)
  BY <1>2, <1>3
<1>. HIDE DEF c
<1>5. D1 \ Out(x, m, 2) \subseteq {}
  BY DEF D1
<1>6. Sound(x, E, c, {})
  BY <1>4, <1>5, SoundWeaker
<1>7. Keeps(x, b, c)
  BY <1>1, <1>4, KeepsTransitive
<1>. QED
  BY <1>6, <1>7 DEF c, up

Finished(b, m) == IF m = Grand THEN AfterGrandFinal(b) ELSE b

LEMMA FinishedSound ==
  ASSUME NEW x, NEW rank, NEW E, NEW b, World(x, rank, E), Sound(x, E, b, {}),
         NEW m \in DOMAIN b, Completed(b, m), m = Grand => GrandReset \notin DOMAIN b
  PROVE  Sound(x, E, Finished(b, m), {}) /\ Stays(b, Finished(b, m))
<1>1. CASE m = Grand
  BY <1>1, AfterGrandFinalSound DEF Finished
<1>2. CASE m # Grand
  BY <1>2, StaysReflexive DEF Finished
<1>. QED
  BY <1>1, <1>2

\* Scored in the words of these lemmas.
MovedFrom(x, b, m) == SentOn(x, SentOn(x, b, m, 1, b[m].winner), m, 2, b[m].loser)

LEMMA ScoredIs ==
  ASSUME NEW x, NEW b, NEW m \in DOMAIN b, NEW s \in Ways, NEW kind
  PROVE  LET set == Written(b, m, s, kind)
             fixed == IF Corrects(b, m, s) THEN Repaired(x, set, m) ELSE set
         IN /\ Completed(b, m) /\ ~Corrects(b, m, s) => Scored(x, b, m, s, kind) = set
            /\ ~Completed(b, m) \/ Corrects(b, m, s) =>
                 (fixed[m] = set[m] => Scored(x, b, m, s, kind) = Finished(MovedFrom(x, fixed, m), m))
<1> DEFINE rec == Over(b[m], kind, b[m].team[s], b[m].team[3 - s])
           set == [b EXCEPT ![m] = rec]
           fixed == IF Corrects(b, m, s) THEN Repaired(x, set, m) ELSE set
           up == SentOn(x, fixed, m, 1, rec.winner)
           down == SentOn(x, up, m, 2, rec.loser)
<1>1. set = Written(b, m, s, kind) /\ set[m] = rec
  BY DEF Written
<1>2. Scored(x, b, m, s, kind) =
        IF Completed(b, m) /\ ~Corrects(b, m, s) THEN set
        ELSE IF m = Grand THEN AfterGrandFinal(down) ELSE down
  BY DEF Scored
<1>3. fixed[m] = set[m] => down = MovedFrom(x, fixed, m)
  <2>. HIDE DEF fixed, rec, set
  <2>. QED
    BY <1>1 DEF MovedFrom
<1>. HIDE DEF down, rec, set
<1>. QED
  BY <1>1, <1>2, <1>3 DEF Finished

LEMMA FirstResult ==
  ASSUME NEW x, NEW rank, NEW E, NEW b, World(x, rank, E), Sound(x, E, b, {}),
         NEW m \in DOMAIN b, ~Completed(b, m), NoTeam \notin Own(b, m),
         NEW s \in Ways, NEW kind \in {"PLAYED", "WALKOVER"}
  PROVE  LET c == Scored(x, b, m, s, kind)
         IN Sound(x, E, c, {}) /\ Stays(b, c) /\ Completed(c, m)
<1> DEFINE set == Written(b, m, s, kind)
           D == Out(x, m, 1) \cup Out(x, m, 2)
           down == MovedFrom(x, set, m)
           c == Scored(x, b, m, s, kind)
<1>1. /\ DOMAIN set = DOMAIN b /\ Completed(set, m)
  BY WrittenIs
<1>2. Sound(x, E, set, D) /\ Stays(b, set)
  BY WrittenSound
<1>3. c = Finished(down, m)
  <2>1. ~Corrects(b, m, s)
    BY DEF Corrects
  <2>. HIDE DEF c, set
  <2>. QED
    BY <2>1, ScoredIs DEF c, set
<1>. HIDE DEF set, c
<1>4. down = SentOn(x, SentOn(x, set, m, 1, Sends(set, m, 1)), m, 2, Sends(set, m, 2))
  BY DEF MovedFrom, Sends
<1>. HIDE DEF down
<1>5. Sound(x, E, down, {}) /\ Keeps(x, set, down)
  <2>1. D \subseteq Out(x, m, 1) \cup Out(x, m, 2) /\ m \in DOMAIN set
    BY <1>1
  <2>. HIDE DEF D
  <2>. QED
    BY <1>1, <1>2, <1>4, <2>1, MovedOn
<1>6. DOMAIN down = DOMAIN b /\ Completed(down, m)
  BY <1>1, <1>5 DEF Keeps, Completed
<1>7. m = Grand => GrandReset \notin DOMAIN down
  BY <1>6 DEF Sound, Reset
<1>8. Sound(x, E, Finished(down, m), {}) /\ Stays(down, Finished(down, m))
  BY <1>5, <1>6, <1>7, FinishedSound
<1>9. Stays(b, c)
  BY <1>2, <1>3, <1>5, <1>8, KeepsStays, StaysTransitive
<1>10. Completed(c, m)
  BY <1>3, <1>6, <1>8 DEF Stays, Completed
<1>. QED
  BY <1>3, <1>8, <1>9, <1>10 DEF c

-----------------------------------------------------------------------------
(***************************************************************************)
(* A corrected result (Repaired).                                          *)
(***************************************************************************)
Affected(x, b, m) == (Below(x, m) \cap DOMAIN b) \ {GrandReset}
Kept(x, b, m) == DOMAIN b \ (Below(x, m) \cap {GrandReset})
Blank(x, b, m) == [i \in Kept(x, b, m) |-> IF i \in Affected(x, b, m) THEN Open ELSE b[i]]

WaysOf(A) == A \X Ways

LEMMA BlankSound ==
  ASSUME NEW x, NEW rank, NEW E, NEW b, World(x, rank, E), Sound(x, E, b, {}),
         NEW m \in DOMAIN b, Completed(b, m), NoTeam \notin Own(b, m),
         NEW s \in Ways, NEW kind \in {"PLAYED", "WALKOVER"}
  PROVE  LET set == Written(b, m, s, kind)
             A == Affected(x, set, m)
             c == Blank(x, set, m)
         IN /\ Sound(x, E, c, WaysOf(A)) /\ A \subseteq DOMAIN c
            /\ m \in DOMAIN c /\ c[m] = set[m] /\ (m = Grand => GrandReset \notin DOMAIN c)
<1> DEFINE set == Written(b, m, s, kind)
           A == Affected(x, set, m)
           K == Kept(x, set, m)
           c == Blank(x, set, m)
           D == WaysOf(A)
<1>0. Hung(x, E, b) /\ Shape(x, rank) /\ b \in [DOMAIN b -> Records(E)] /\ DOMAIN b \subseteq Ids(x)
  BY DEF World, Sound, Hung
<1>f. \A f \in DOMAIN b, w \in Ways : \A to \in Out(x, f, w) :
        to[1] \in DOMAIN b /\ to[2] \in Ways /\ to[1] # f /\ to[1] # GrandReset
  <2>. TAKE f \in DOMAIN b, w \in Ways
  <2>. TAKE to \in Out(x, f, w)
  <2>. HIDE DEF set, A, K, c, D
  <2>. QED
    BY <1>0, SlotsInside
<1>1. /\ DOMAIN set = DOMAIN b /\ set \in [DOMAIN b -> Records(E)]
      /\ \A n \in DOMAIN b : n # m => set[n] = b[n]
      /\ Completed(set, m) /\ set[m].team = b[m].team /\ Fair(set[m])
  BY WrittenIs
<1>. HIDE DEF set
<1>2. A = (Below(x, m) \cap DOMAIN b) \ {GrandReset} /\ K = DOMAIN b \ (Below(x, m) \cap {GrandReset})
  BY <1>1 DEF Affected, Kept
<1>3. A \subseteq K /\ K \subseteq DOMAIN b /\ m \notin Below(x, m) /\ m \in K /\ m \notin A
      /\ Ids(x) \ {GrandReset} \subseteq K
  BY <1>0, <1>2 DEF Shape, Behind, Hung
<1>4. DOMAIN c = K /\ \A i \in K : c[i] = IF i \in A THEN Open ELSE set[i]
  BY DEF Blank
<1>5. Open \in Records(E) /\ Fair(Open) /\ Open.status # "COMPLETED" /\ Open.team = <<NoTeam, NoTeam>>
  BY DEF Open, Records, Fair, Places
<1>6. c \in [K -> Records(E)]
  <2>1. \A i \in K : c[i] \in Records(E)
    BY <1>1, <1>3, <1>4, <1>5
  <2>2. c = [i \in K |-> c[i]]
    BY <1>4 DEF Blank
  <2>. HIDE DEF c, K, A
  <2>. QED
    BY <2>1, <2>2
<1>. HIDE DEF c, K, A
<1>7. Hung(x, E, c)
  <2>1. \A i \in K : Fair(c[i])
    BY <1>0, <1>1, <1>3, <1>4, <1>5 DEF Hung
  <2>. QED
    BY <1>0, <1>3, <1>4, <1>6, <2>1 DEF Hung
<1>8. \A i \in A : ~Completed(c, i) /\ \A v \in Ways : At(c, i, v) = NoTeam
  BY <1>3, <1>4, <1>5 DEF Completed, At, Ways
<1>9. \A i \in K \ A : /\ \A v \in Ways : At(c, i, v) = At(b, i, v)
                       /\ Completed(c, i) <=> Completed(b, i)
                       /\ i # m => c[i] = b[i] /\ \A v \in Ways : Sends(c, i, v) = Sends(b, i, v)
  BY <1>1, <1>3, <1>4 DEF Completed, At, Sends
<1>10. \A d \in Below(x, m) \cup {m}, w \in Ways : d \in DOMAIN b => \A to \in Out(x, d, w) : to[1] \in A
  <2>. SUFFICES ASSUME NEW d \in Below(x, m) \cup {m}, NEW w \in Ways, d \in DOMAIN b, NEW to \in Out(x, d, w)
       PROVE  to[1] \in A
    OBVIOUS
  <2>1. to[1] \in Below(x, m)
    BY <1>0 DEF Shape, Behind
  <2>. QED
    BY <1>2, <1>f, <2>1
<1>11. Follows(x, c, D)
  <2>. SUFFICES ASSUME NEW f \in K, NEW w \in Ways, NEW to \in Out(x, f, w) PROVE Flows(x, c, D, f, w, to)
    BY <1>4 DEF Follows
  <2>1. to[1] \in DOMAIN b /\ to[2] \in Ways /\ to[1] # f /\ to[1] # GrandReset /\ f \in DOMAIN b
    BY <1>3, <1>f
  <2>2. to[1] \in K
    BY <1>2, <2>1
  <2>3. CASE to[1] \in A
    <3>1. At(c, to[1], to[2]) = NoTeam /\ ~Completed(c, to[1])
      BY <1>8, <2>1, <2>3
    <3>2. to \in D
      <4>1. to \in SlotsOf(x)
        BY <1>0, <2>1 DEF Shape, Leads
      <4>. QED
        BY <2>3, <4>1 DEF SlotsOf, WaysOf
    <3>. QED
      BY <3>1, <3>2 DEF Flows
  <2>4. CASE to[1] \notin A
    <3>1. f \notin Below(x, m) /\ f # m
      BY <1>10, <2>1, <2>4
    <3>2. f \in K \ A
      BY <1>2, <3>1
    <3>3. Flows(x, b, {}, f, w, to)
      BY <2>1 DEF Sound, Follows
    <3>. QED
      BY <1>9, <2>1, <2>2, <2>4, <3>1, <3>2, <3>3 DEF Flows
  <2>. QED
    BY <2>3, <2>4
<1>12. Begins(x, c)
  <2>. SUFFICES ASSUME NEW p, NEW q, Unfed(x, p), Unfed(x, q),
                       At(c, p[1], p[2]) = At(c, q[1], q[2]), At(c, p[1], p[2]) # NoTeam
       PROVE  p = q
    BY DEF Begins
  <2>1. p[1] \in K /\ p[2] \in Ways /\ q[1] \in K /\ q[2] \in Ways
    BY <1>3 DEF Unfed, SlotsOf
  <2>2. At(c, p[1], p[2]) = At(b, p[1], p[2]) /\ At(c, q[1], q[2]) = At(b, q[1], q[2])
    BY <1>8, <1>9, <2>1
  <2>. QED
    BY <2>2 DEF Sound, Begins
<1>13. Reset(c)
  <2>. SUFFICES ASSUME GrandReset \in K
       PROVE  /\ Grand \in K /\ Completed(c, Grand)
              /\ \A v \in Ways : At(c, GrandReset, v) \in {At(c, Grand, v), NoTeam}
    BY <1>4 DEF Reset
  <2>1. GrandReset \notin Below(x, m)
    BY <1>2
  <2>2. Grand \notin Below(x, m)
    BY <1>0, <2>1 DEF Shape, Behind
  <2>3. Reset(b)
    BY DEF Sound
  <2>4. Grand \in DOMAIN b /\ Completed(b, Grand) /\ \A v \in Ways : At(b, GrandReset, v) \in {At(b, Grand, v), NoTeam}
    BY <1>3, <2>3 DEF Reset
  <2>5. Grand \in K \ A /\ GrandReset \in K \ A
    BY <1>2, <2>1, <2>2, <2>4
  <2>. QED
    BY <1>9, <2>4, <2>5
<1>14. m = Grand => GrandReset \notin K
  BY <1>0, <1>2 DEF Shape, Behind
<1>15. Sound(x, E, c, D)
  BY <1>7, <1>11, <1>12, <1>13 DEF Sound
<1>. QED
  BY <1>3, <1>4, <1>14, <1>15 DEF set, A, c

LEMMA CorrectedResult ==
  ASSUME NEW x, NEW rank, NEW E, NEW b, World(x, rank, E), Sound(x, E, b, {}),
         NEW m \in DOMAIN b, Completed(b, m), NoTeam \notin Own(b, m),
         NEW s \in Ways, NEW kind \in {"PLAYED", "WALKOVER"}, Corrects(b, m, s)
  PROVE  Sound(x, E, Scored(x, b, m, s, kind), {}) /\ Stays(Blank(x, Written(b, m, s, kind), m), Scored(x, b, m, s, kind))
<1> DEFINE set == Written(b, m, s, kind)
           A == Affected(x, set, m)
           blank == Blank(x, set, m)
           fixed == CheckAll(x, blank, A)
           down == MovedFrom(x, fixed, m)
           c == Scored(x, b, m, s, kind)
<1>1. /\ Sound(x, E, blank, WaysOf(A)) /\ A \subseteq DOMAIN blank
      /\ m \in DOMAIN blank /\ blank[m] = set[m] /\ (m = Grand => GrandReset \notin DOMAIN blank)
  BY BlankSound
<1>2. Completed(set, m)
  BY WrittenIs
<1>3. fixed = Repaired(x, set, m)
  BY DEF Repaired, Blank, Affected, Kept
<1>4. \A to \in WaysOf(A) : to[1] \in A /\ to \in A \X Ways
  BY DEF WaysOf
<1>. HIDE DEF A, blank
<1>5. Sound(x, E, fixed, {}) /\ Keeps(x, blank, fixed)
  <2> DEFINE D == WaysOf(A)
  <2>1. Sound(x, E, blank, D) /\ \A to \in D : to[1] \in A /\ to \in A \X Ways
    BY <1>1, <1>4
  <2>. HIDE DEF D
  <2>. QED
    BY <1>1, <2>1, CheckAllSound
<1>. HIDE DEF fixed
<1>6. /\ DOMAIN fixed = DOMAIN blank /\ m \in DOMAIN fixed /\ fixed[m] = set[m] /\ Completed(fixed, m)
      /\ m = Grand => GrandReset \notin DOMAIN fixed
  <2>1. Completed(blank, m)
    BY <1>1, <1>2 DEF Completed
  <2>2. DOMAIN fixed = DOMAIN blank /\ fixed[m] = blank[m]
    BY <1>1, <1>5, <2>1 DEF Keeps
  <2>. QED
    BY <1>1, <2>1, <2>2 DEF Completed
<1>7. c = Finished(down, m)
  <2> DEFINE fix == IF Corrects(b, m, s) THEN Repaired(x, set, m) ELSE set
  <2>1. fix = fixed /\ fix[m] = set[m]
    BY <1>3, <1>6
  <2>2. fix[m] = set[m] => Scored(x, b, m, s, kind) = Finished(MovedFrom(x, fix, m), m)
    BY ScoredIs
  <2>. HIDE DEF fix, set
  <2>. QED
    BY <2>1, <2>2
<1>. HIDE DEF set, c
<1>8. down = SentOn(x, SentOn(x, fixed, m, 1, Sends(fixed, m, 1)), m, 2, Sends(fixed, m, 2))
  BY DEF MovedFrom, Sends
<1>. HIDE DEF down
<1>9. Sound(x, E, down, {}) /\ Keeps(x, fixed, down)
  <2> DEFINE D == {}
  <2>1. D \subseteq Out(x, m, 1) \cup Out(x, m, 2) /\ Sound(x, E, fixed, D)
    BY <1>5
  <2>. HIDE DEF D
  <2>. QED
    BY <1>6, <1>8, <2>1, MovedOn
<1>10. DOMAIN down = DOMAIN fixed /\ Completed(down, m)
  BY <1>6, <1>9 DEF Keeps, Completed
<1>11. Sound(x, E, Finished(down, m), {}) /\ Stays(down, Finished(down, m))
  BY <1>6, <1>9, <1>10, FinishedSound
<1>12. Stays(blank, c)
  <2>1. Stays(blank, fixed) /\ Stays(fixed, down)
    BY <1>5, <1>9, KeepsStays
  <2>2. Stays(blank, down)
    BY <2>1, StaysTransitive
  <2>. QED
    BY <1>7, <1>11, <2>2, StaysTransitive
<1>. QED
  BY <1>7, <1>11, <1>12 DEF c, blank, set

\* The same winner again: what the match sends on stays as it is.
LEMMA SameResult ==
  ASSUME NEW x, NEW rank, NEW E, NEW b, World(x, rank, E), Sound(x, E, b, {}),
         NEW m \in DOMAIN b, Completed(b, m), NoTeam \notin Own(b, m), ~Automatic(x, b, m),
         NEW s \in Ways, NEW kind \in {"PLAYED", "WALKOVER"}, ~Corrects(b, m, s)
  PROVE  Sound(x, E, Scored(x, b, m, s, kind), {})
<1> DEFINE c == Written(b, m, s, kind)
<1>0. Hung(x, E, b) /\ Shape(x, rank) /\ b \in [DOMAIN b -> Records(E)]
  BY DEF World, Sound, Hung
<1>f. \A f \in DOMAIN b, w \in Ways : \A to \in Out(x, f, w) : to[1] \in DOMAIN b /\ to[2] \in Ways
  <2>. TAKE f \in DOMAIN b, w \in Ways
  <2>. TAKE to \in Out(x, f, w)
  <2>. HIDE DEF c
  <2>. QED
    BY <1>0, SlotsInside
<1>1. /\ DOMAIN c = DOMAIN b /\ c \in [DOMAIN b -> Records(E)]
      /\ \A n \in DOMAIN b : n # m => c[n] = b[n]
      /\ Completed(c, m) /\ c[m].team = b[m].team /\ Fair(c[m])
      /\ Sends(c, m, 1) = At(b, m, s) /\ Sends(c, m, 2) = At(b, m, 3 - s) /\ At(b, m, s) # At(b, m, 3 - s)
  BY WrittenIs
<1>2. Scored(x, b, m, s, kind) = c
  BY ScoredIs
<1>. HIDE DEF c
<1>3. b[m].winner = At(b, m, s)
  BY DEF Corrects, At
<1>4. b[m].loser = At(b, m, 3 - s)
  <2>1. Fair(b[m]) /\ b[m] \in Records(E)
    BY <1>0 DEF Hung
  <2>2. b[m].loser # NoTeam
    <3>1. b[m].kind \in {"PLAYED", "WALKOVER"}
      BY <2>1 DEF Automatic, Records
    <3>2. CASE b[m].kind = "WALKOVER"
      BY <3>2 DEF Automatic
    <3>3. CASE b[m].kind = "PLAYED"
      BY <2>1, <3>3 DEF Fair, Completed, Own, At
    <3>. QED
      BY <3>1, <3>2, <3>3
  <2>3. b[m].loser \in {b[m].team[1], b[m].team[2]} /\ b[m].loser # b[m].winner
    BY <2>1, <2>2 DEF Fair
  <2>. QED
    BY <1>3, <2>3 DEF At, Ways
<1>5. \A n \in DOMAIN b : /\ Completed(c, n) <=> Completed(b, n)
                          /\ \A v \in Ways : At(c, n, v) = At(b, n, v) /\ Sends(c, n, v) = Sends(b, n, v)
  <2>1. ASSUME NEW n \in DOMAIN b, n # m
        PROVE  /\ Completed(c, n) <=> Completed(b, n)
               /\ \A v \in Ways : At(c, n, v) = At(b, n, v) /\ Sends(c, n, v) = Sends(b, n, v)
    BY <1>1, <2>1 DEF Completed, At, Sends
  <2>2. \A v \in Ways : At(c, m, v) = At(b, m, v) /\ Sends(c, m, v) = Sends(b, m, v)
    <3>1. Sends(b, m, 1) = At(b, m, s) /\ Sends(b, m, 2) = At(b, m, 3 - s)
      BY <1>3, <1>4 DEF Sends
    <3>2. \A v \in Ways : At(c, m, v) = At(b, m, v)
      BY <1>1 DEF At
    <3>3. Sends(c, m, 1) = Sends(b, m, 1) /\ Sends(c, m, 2) = Sends(b, m, 2)
      BY <1>1, <3>1
    <3>. QED
      BY <3>2, <3>3 DEF Ways
  <2>. QED
    BY <1>1, <2>1, <2>2
<1>6. Hung(x, E, c)
  <2>1. \A n \in DOMAIN b : Fair(c[n])
    BY <1>0, <1>1 DEF Hung
  <2>. QED
    BY <1>0, <1>1, <2>1 DEF Hung
<1>7. Follows(x, c, {})
  <2>. SUFFICES ASSUME NEW f \in DOMAIN b, NEW w \in Ways, NEW to \in Out(x, f, w) PROVE Flows(x, c, {}, f, w, to)
    BY <1>1 DEF Follows
  <2>1. Flows(x, b, {}, f, w, to)
    BY DEF Sound, Follows
  <2>. QED
    BY <1>5, <1>f, <2>1 DEF Flows
<1>8. Begins(x, c)
  <2>1. \A p : Unfed(x, p) => p[1] \in DOMAIN b /\ p[2] \in Ways
    BY <1>0 DEF Unfed, SlotsOf, Hung
  <2>. QED
    BY <1>5, <2>1 DEF Sound, Begins
<1>9. Reset(c)
  <2>1. Reset(b)
    BY DEF Sound
  <2>. QED
    BY <1>1, <1>5, <2>1 DEF Reset
<1>. QED
  BY <1>2, <1>6, <1>7, <1>8, <1>9 DEF Sound

LEMMA ScoredSound ==
  ASSUME NEW x, NEW rank, NEW E, NEW b, World(x, rank, E), Sound(x, E, b, {}),
         NEW m \in DOMAIN b, NoTeam \notin Own(b, m), ~Automatic(x, b, m),
         NEW s \in Ways, NEW kind \in {"PLAYED", "WALKOVER"}
  PROVE  Sound(x, E, Scored(x, b, m, s, kind), {})
<1>1. CASE ~Completed(b, m)
  BY <1>1, FirstResult
<1>2. CASE Completed(b, m) /\ Corrects(b, m, s)
  BY <1>2, CorrectedResult
<1>3. CASE Completed(b, m) /\ ~Corrects(b, m, s)
  BY <1>3, SameResult
<1>. QED
  BY <1>1, <1>2, <1>3

-----------------------------------------------------------------------------
(***************************************************************************)
(* A withdrawal (Forfeited) and a deletion (Without).                      *)
(***************************************************************************)
LEMMA LoseSound ==
  ASSUME NEW x, NEW rank, NEW E, NEW b, World(x, rank, E), Sound(x, E, b, {}),
         NEW m \in DOMAIN b, NEW t, t # NoTeam, ~Completed(b, m) => t \in Own(b, m)
  PROVE  /\ Sound(x, E, Lose(x, b, m, t), {}) /\ Stays(b, Lose(x, b, m, t))
         /\ NoTeam \notin Own(b, m) => Completed(Lose(x, b, m, t), m)
<1> DEFINE other == IF b[m].team[1] = t THEN 2 ELSE 1
<1>0. Lose(x, b, m, t) = IF Completed(b, m) THEN b
                         ELSE IF b[m].team[other] = NoTeam THEN CheckAndAdvance(x, b, m)
                         ELSE Scored(x, b, m, other, "WALKOVER")
  BY DEF Lose
<1>1. other \in Ways
  BY DEF Ways
<1>2. CASE Completed(b, m)
  BY <1>0, <1>2, StaysReflexive
<1>3. CASE ~Completed(b, m) /\ b[m].team[other] = NoTeam
  <2>0. NoTeam \in Own(b, m)
    BY <1>3 DEF Own, At
  <2>1. Lose(x, b, m, t) = CheckAndAdvance(x, b, m)
    BY <1>0, <1>3
  <2> DEFINE D == {}
             c == CheckAndAdvance(x, b, m)
  <2>2. Sound(x, E, b, D)
    OBVIOUS
  <2>. HIDE DEF D, c
  <2>3. Sound(x, E, c, Cut(D, m)) /\ Keeps(x, b, c)
    BY <2>2, AdvanceSound DEF c
  <2>4. Cut(D, m) = {}
    BY DEF Cut, D
  <2>. QED
    BY <2>0, <2>1, <2>3, <2>4, KeepsStays DEF c
<1>4. CASE ~Completed(b, m) /\ b[m].team[other] # NoTeam
  <2>1. NoTeam \notin Own(b, m)
    <3>1. t \in {b[m].team[1], b[m].team[2]}
      BY <1>4 DEF Own, At
    <3>. QED
      BY <1>4, <3>1 DEF Own, At
  <2>2. Lose(x, b, m, t) = Scored(x, b, m, other, "WALKOVER")
    BY <1>0, <1>4
  <2>. HIDE DEF other
  <2>. QED
    BY <1>1, <1>4, <2>1, <2>2, FirstResult
<1>. QED
  BY <1>2, <1>3, <1>4

\* A team more is withdrawn.
LEMMA MoreGone ==
  ASSUME NEW x, NEW y, NEW E, NEW b, NEW D, Sound(x, E, b, D), y.tree = x.tree, x.gone \subseteq y.gone
  PROVE  Sound(y, E, b, D)
<1>1. Ids(y) = Ids(x) /\ SlotsOf(y) = SlotsOf(x)
  BY DEF Ids, SlotsOf
<1>2. \A m, w : Out(y, m, w) = Out(x, m, w) /\ Feeds(y, m, w) = Feeds(x, m, w)
  BY DEF Out, Feeds
<1>3. Hung(y, E, b)
  BY <1>1 DEF Sound, Hung
<1>4. Follows(y, b, D)
  <2>. SUFFICES ASSUME NEW f \in DOMAIN b, NEW w \in Ways, NEW to \in Out(x, f, w) PROVE Flows(y, b, D, f, w, to)
    BY <1>2 DEF Follows
  <2>1. Flows(x, b, D, f, w, to)
    BY DEF Sound, Follows
  <2>. QED
    BY <2>1 DEF Flows
<1>5. Begins(y, b)
  <2>1. \A p : Unfed(y, p) => Unfed(x, p)
    BY <1>1, <1>2 DEF Unfed
  <2>. QED
    BY <2>1 DEF Sound, Begins
<1>. QED
  BY <1>3, <1>4, <1>5 DEF Sound

\* Without in the words of these lemmas.
Un(v, t) == IF v = t THEN NoTeam ELSE v

Emptied(E, b, c, t) ==
  /\ DOMAIN c = DOMAIN b /\ c \in [DOMAIN b -> Records(E \ {t})]
  /\ \A m \in DOMAIN b : /\ c[m].status = b[m].status /\ c[m].kind = b[m].kind
                         /\ c[m].winner = Un(b[m].winner, t) /\ c[m].loser = Un(b[m].loser, t)
                         /\ c[m].team[1] = Un(b[m].team[1], t) /\ c[m].team[2] = Un(b[m].team[2], t)

LEMMA WithoutIs ==
  ASSUME NEW E, NEW b, NEW t, t # NoTeam, b \in [DOMAIN b -> Records(E)]
  PROVE  Emptied(E, b, Without(b, t), t)
<1> DEFINE c == Without(b, t)
           R(m) == [b[m] EXCEPT !.team = <<Un(b[m].team[1], t), Un(b[m].team[2], t)>>,
                                !.winner = Un(b[m].winner, t), !.loser = Un(b[m].loser, t)]
<1>1. c = [m \in DOMAIN b |-> R(m)]
  BY DEF Without, Un
<1>2. \A v \in Places(E) : Un(v, t) \in Places(E \ {t})
  BY DEF Un, Places
<1>3. ASSUME NEW m \in DOMAIN b
      PROVE  /\ R(m) \in Records(E \ {t})
             /\ R(m).status = b[m].status /\ R(m).kind = b[m].kind
             /\ R(m).winner = Un(b[m].winner, t) /\ R(m).loser = Un(b[m].loser, t)
             /\ R(m).team[1] = Un(b[m].team[1], t) /\ R(m).team[2] = Un(b[m].team[2], t)
  <2>1. b[m] \in Records(E)
    OBVIOUS
  <2> DEFINE r == b[m]
             a1 == Un(b[m].team[1], t)
             a2 == Un(b[m].team[2], t)
             up == Un(b[m].winner, t)
             down == Un(b[m].loser, t)
  <2>2. a1 \in Places(E \ {t}) /\ a2 \in Places(E \ {t}) /\ up \in Places(E \ {t}) /\ down \in Places(E \ {t})
    BY <1>2, <2>1 DEF Records
  <2>3. R(m) = [r EXCEPT !.team = <<a1, a2>>, !.winner = up, !.loser = down]
    OBVIOUS
  <2>4. r \in Records(E)
    BY <2>1
  <2>. HIDE DEF r, a1, a2, up, down, R
  <2>5. R(m) \in Records(E \ {t})
    <3> DEFINE pair == <<a1, a2>>
               F == Places(E \ {t})
    <3>1. pair \in F \X F /\ up \in F /\ down \in F
      BY <2>2
    <3>2. R(m) = [r EXCEPT !.team = pair, !.winner = up, !.loser = down]
      BY <2>3
    <3>3. r \in [team : Places(E) \X Places(E), winner : Places(E), loser : Places(E),
                 status : {"PENDING", "READY", "IN_PROGRESS", "COMPLETED"},
                 kind : {"PLAYED", "BYE", "WALKOVER", "DOUBLE_FORFEIT"}]
      BY <2>4 DEF Records
    <3>. HIDE DEF pair, F
    <3>4. R(m) = [team |-> pair, winner |-> up, loser |-> down, status |-> r.status, kind |-> r.kind]
      BY <3>2, <3>3
    <3>5. R(m) \in [team : F \X F, winner : F, loser : F,
                 status : {"PENDING", "READY", "IN_PROGRESS", "COMPLETED"},
                 kind : {"PLAYED", "BYE", "WALKOVER", "DOUBLE_FORFEIT"}]
      BY <3>1, <3>3, <3>4
    <3>. QED
      BY <3>5 DEF Records, F
  <2>6. /\ R(m).status = r.status /\ R(m).kind = r.kind
        /\ R(m).winner = up /\ R(m).loser = down /\ R(m).team = <<a1, a2>>
    BY <2>3, <2>4 DEF Records
  <2>. QED
    BY <2>5, <2>6 DEF r, a1, a2, up, down
<1>. HIDE DEF R, c
<1>4. \A m \in DOMAIN b : c[m] = R(m)
  BY <1>1
<1>5. DOMAIN c = DOMAIN b /\ c \in [DOMAIN b -> Records(E \ {t})]
  BY <1>1, <1>3
<1>. QED
  BY <1>3, <1>4, <1>5 DEF c, Emptied

LEMMA WithoutSound ==
  ASSUME NEW x, NEW y, NEW E, NEW b, NEW t, t # NoTeam, NoTeam \notin E, NEW rank, Shape(x, rank), Sound(x, E, b, {}),
         y.tree = x.tree, y.gone = x.gone \ {t}
  PROVE  Sound(y, E \ {t}, Without(b, t), {}) /\ DOMAIN Without(b, t) = DOMAIN b
           /\ \A m \in DOMAIN b : Completed(Without(b, t), m) <=> Completed(b, m)
<1> DEFINE c == Without(b, t)
<1>0. Hung(x, E, b) /\ b \in [DOMAIN b -> Records(E)]
  BY DEF Sound, Hung
<1>f. \A f \in DOMAIN b, w \in Ways : \A to \in Out(x, f, w) : to[1] \in DOMAIN b /\ to[2] \in Ways
  <2>. TAKE f \in DOMAIN b, w \in Ways
  <2>. TAKE to \in Out(x, f, w)
  <2>. HIDE DEF c
  <2>. QED
    BY <1>0, SlotsInside
<1>1. /\ DOMAIN c = DOMAIN b /\ c \in [DOMAIN b -> Records(E \ {t})]
      /\ \A m \in DOMAIN b : /\ c[m].status = b[m].status /\ c[m].kind = b[m].kind
                             /\ c[m].winner = Un(b[m].winner, t) /\ c[m].loser = Un(b[m].loser, t)
                             /\ c[m].team[1] = Un(b[m].team[1], t) /\ c[m].team[2] = Un(b[m].team[2], t)
  <2>. HIDE DEF c
  <2>1. Emptied(E, b, c, t)
    BY <1>0, WithoutIs DEF c
  <2>. QED
    BY <2>1 DEF Emptied
<1>. HIDE DEF c
<1>2. Ids(y) = Ids(x) /\ SlotsOf(y) = SlotsOf(x)
  BY DEF Ids, SlotsOf
<1>3. \A m, w : Out(y, m, w) = Out(x, m, w) /\ Feeds(y, m, w) = Feeds(x, m, w)
  BY DEF Out, Feeds
<1>4. \A m \in DOMAIN b : /\ Completed(c, m) <=> Completed(b, m)
                          /\ \A w \in Ways : At(c, m, w) = Un(At(b, m, w), t) /\ Sends(c, m, w) = Un(Sends(b, m, w), t)
  BY <1>1 DEF Completed, At, Sends, Ways
<1>5. \A m \in DOMAIN b : Fair(c[m])
  <2>. SUFFICES ASSUME NEW m \in DOMAIN b PROVE Fair(c[m])
    OBVIOUS
  <2>1. Fair(b[m])
    BY <1>0 DEF Hung
  <2>2. /\ c[m].status = b[m].status /\ c[m].kind = b[m].kind
        /\ c[m].winner = Un(b[m].winner, t) /\ c[m].loser = Un(b[m].loser, t)
        /\ c[m].team[1] = Un(b[m].team[1], t) /\ c[m].team[2] = Un(b[m].team[2], t)
    BY <1>1
  <2>. QED
    BY <2>1, <2>2 DEF Fair, Un
<1>6. Hung(y, E \ {t}, c)
  BY <1>0, <1>1, <1>2, <1>5 DEF Hung
<1>7. Follows(y, c, {})
  <2>. SUFFICES ASSUME NEW f \in DOMAIN b, NEW w \in Ways, NEW to \in Out(x, f, w) PROVE Flows(y, c, {}, f, w, to)
    BY <1>1, <1>3 DEF Follows
  <2>1. Flows(x, b, {}, f, w, to)
    BY DEF Sound, Follows
  <2>2. to[1] \in DOMAIN b /\ to[2] \in Ways
    BY <1>f
  <2>3. /\ At(c, to[1], to[2]) = Un(At(b, to[1], to[2]), t) /\ Sends(c, f, w) = Un(Sends(b, f, w), t)
        /\ Completed(c, f) <=> Completed(b, f)
        /\ Completed(c, to[1]) <=> Completed(b, to[1])
    BY <1>4, <2>2
  <2>. QED
    BY <2>1, <2>3 DEF Flows, Un
<1>8. Begins(y, c)
  <2>. SUFFICES ASSUME NEW p, NEW q, Unfed(y, p), Unfed(y, q),
                       At(c, p[1], p[2]) = At(c, q[1], q[2]), At(c, p[1], p[2]) # NoTeam
       PROVE  p = q
    BY DEF Begins
  <2>1. Unfed(x, p) /\ Unfed(x, q)
    BY <1>2, <1>3 DEF Unfed
  <2>2. p[1] \in DOMAIN b /\ p[2] \in Ways /\ q[1] \in DOMAIN b /\ q[2] \in Ways
    BY <1>0, <2>1 DEF Unfed, SlotsOf, Hung
  <2>3. At(b, p[1], p[2]) = At(b, q[1], q[2]) /\ At(b, p[1], p[2]) # NoTeam
    BY <1>4, <2>2 DEF Un
  <2>. QED
    BY <2>1, <2>3 DEF Sound, Begins
<1>9. Reset(c)
  <2>. SUFFICES ASSUME GrandReset \in DOMAIN b
       PROVE  /\ Grand \in DOMAIN b /\ Completed(c, Grand)
              /\ \A s \in Ways : At(c, GrandReset, s) \in {At(c, Grand, s), NoTeam}
    BY <1>1 DEF Reset
  <2>1. Grand \in DOMAIN b /\ Completed(b, Grand) /\ \A s \in Ways : At(b, GrandReset, s) \in {At(b, Grand, s), NoTeam}
    BY DEF Sound, Reset
  <2>. QED
    BY <1>4, <2>1 DEF Un
<1>. QED
  BY <1>1, <1>4, <1>6, <1>7, <1>8, <1>9 DEF Sound, c

-----------------------------------------------------------------------------
(***************************************************************************)
(* What Linked makes of matches in an order and their targets.             *)
(***************************************************************************)
Way(out, m, w) == out[m][w]

Wired(ids, order, out, rank) ==
  /\ order \in Seq(ids) /\ ids = RangeOf(order) /\ rank \in [ids -> Nat]
  /\ \A m \in ids, w \in Ways :
       /\ \A to \in Way(out, m, w) : to \in ids \X Ways /\ to[1] # GrandReset /\ rank[m] < rank[to[1]]
       /\ \A to, at \in Way(out, m, w) : to = at
       /\ m \in {Grand, GrandReset} => Way(out, m, w) = {}
  /\ \A f, g \in ids \X Ways : \A to :
       to \in Way(out, f[1], f[2]) /\ to \in Way(out, g[1], g[2]) => f = g
  /\ Grand \in ids => GrandReset \in ids /\ rank[Grand] < rank[GrandReset]

\* The matches one step behind a set, and the sets Linked grows.
Ahead(out, S) ==
  {i[1] : i \in UNION {out[m][1] \cup out[m][2] : m \in S}} \cup (IF Grand \in S THEN {GrandReset} ELSE {})
Grown(out, m) ==
  CHOOSE g : g = [i \in Nat |-> IF i = 0 THEN {} ELSE Ahead(out, g[i - 1] \cup {m})]

LEMMA AheadIs ==
  ASSUME NEW out, NEW S
  PROVE  /\ \A d \in S, w \in Ways : \A to \in Way(out, d, w) : to[1] \in Ahead(out, S)
         /\ Grand \in S => GrandReset \in Ahead(out, S)
         /\ \A n \in Ahead(out, S) : \/ \E d \in S, w \in Ways : \E to \in Way(out, d, w) : n = to[1]
                                     \/ n = GrandReset /\ Grand \in S
<1>1. ASSUME NEW d \in S, NEW w \in Ways, NEW to \in Way(out, d, w) PROVE to[1] \in Ahead(out, S)
  <2>1. to \in out[d][1] \cup out[d][2]
    BY DEF Way, Ways
  <2>. QED
    BY <2>1 DEF Ahead
<1>2. ASSUME NEW n \in Ahead(out, S)
      PROVE  \/ \E d \in S, w \in Ways : \E to \in Way(out, d, w) : n = to[1]
             \/ n = GrandReset /\ Grand \in S
  <2>1. CASE n \in {i[1] : i \in UNION {out[m][1] \cup out[m][2] : m \in S}}
    <3>1. PICK i \in UNION {out[m][1] \cup out[m][2] : m \in S} : n = i[1]
      BY <2>1
    <3>2. PICK d \in S : i \in out[d][1] \cup out[d][2]
      BY <3>1
    <3>3. i \in Way(out, d, 1) \/ i \in Way(out, d, 2)
      BY <3>2 DEF Way
    <3>. QED
      BY <3>1, <3>3 DEF Ways
  <2>2. CASE n \in (IF Grand \in S THEN {GrandReset} ELSE {})
    BY <2>2
  <2>. QED
    BY <2>1, <2>2 DEF Ahead
<1>3. Grand \in S => GrandReset \in Ahead(out, S)
  BY DEF Ahead
<1>. QED
  BY <1>1, <1>2, <1>3

LEMMA AheadStays ==
  ASSUME NEW ids, NEW order, NEW out, NEW rank, Wired(ids, order, out, rank), NEW S \in SUBSET ids
  PROVE  Ahead(out, S) \in SUBSET ids
<1>. SUFFICES ASSUME NEW n \in Ahead(out, S) PROVE n \in ids
  OBVIOUS
<1>1. CASE \E d \in S, w \in Ways : \E to \in Way(out, d, w) : n = to[1]
  <2>1. PICK d \in S, w \in Ways : \E to \in Way(out, d, w) : n = to[1]
    BY <1>1
  <2>2. PICK to \in Way(out, d, w) : n = to[1]
    BY <2>1
  <2>3. to \in ids \X Ways
    BY DEF Wired
  <2>. QED
    BY <2>2, <2>3
<1>2. CASE n = GrandReset /\ Grand \in S
  BY <1>2 DEF Wired
<1>. QED
  BY <1>1, <1>2, AheadIs

LEMMA AheadGrows ==
  ASSUME NEW out, NEW S, NEW T, S \subseteq T
  PROVE  Ahead(out, S) \subseteq Ahead(out, T)
<1>. SUFFICES ASSUME NEW n \in Ahead(out, S) PROVE n \in Ahead(out, T)
  OBVIOUS
<1>1. CASE \E d \in S, w \in Ways : \E to \in Way(out, d, w) : n = to[1]
  BY <1>1, AheadIs
<1>2. CASE n = GrandReset /\ Grand \in S
  BY <1>2, AheadIs
<1>. QED
  BY <1>1, <1>2, AheadIs

LEMMA GrownIs ==
  ASSUME NEW ids, NEW order, NEW out, NEW rank, Wired(ids, order, out, rank), NEW m \in ids
  PROVE  /\ Grown(out, m)[0] = {}
         /\ \A n \in Nat : /\ Grown(out, m)[n] \in SUBSET ids
                           /\ Grown(out, m)[n + 1] = Ahead(out, Grown(out, m)[n] \cup {m})
<1> DEFINE X == SUBSET ids
           G == [p \in Nat \X X |-> Ahead(out, p[2] \cup {m})]
           run == Grown(out, m)
<1>1. \A i \in Nat, y \in X : G[<<i, y>>] = Ahead(out, y \cup {m}) /\ G[<<i, y>>] \in X
  <2>1. \A y \in X : y \cup {m} \in SUBSET ids
    OBVIOUS
  <2>2. \A y \in X : Ahead(out, y \cup {m}) \in X
    BY <2>1, AheadStays
  <2>. QED
    BY <2>2
<1>2. {} \in X
  OBVIOUS
<1> DEFINE a == {}
<1>. HIDE DEF G, X, a
<1>3. Stepping(X, G)
  BY <1>1 DEF Stepping
<1>4. PICK f : Iterates(X, a, G, f)
  <2>1. a \in X
    BY <1>2 DEF a
  <2>. QED
    BY <1>3, <2>1, Recursion
<1>5. f \in [Nat -> X] /\ f[0] = a /\ \A n \in Nat : f[n + 1] = G[<<n, f[n]>>]
  BY <1>4 DEF Iterates
<1>6. \A i \in Nat : f[i] = IF i = 0 THEN a ELSE Ahead(out, f[i - 1] \cup {m})
  <2>. TAKE i \in Nat
  <2>1. CASE i = 0
    BY <1>5, <2>1
  <2>2. CASE i # 0
    <3>1. i - 1 \in Nat /\ (i - 1) + 1 = i
      BY <2>2
    <3>2. f[i] = G[<<i - 1, f[i - 1]>>] /\ f[i - 1] \in X
      BY <1>5, <3>1
    <3>. QED
      BY <1>1, <2>2, <3>1, <3>2
  <2>. QED
    BY <2>1, <2>2
<1>7. f = [i \in Nat |-> IF i = 0 THEN a ELSE Ahead(out, f[i - 1] \cup {m})]
  <2>1. f = [i \in Nat |-> f[i]]
    BY <1>5
  <2>. QED
    BY <1>6, <2>1
<1>8. run = CHOOSE g : g = [i \in Nat |-> IF i = 0 THEN a ELSE Ahead(out, g[i - 1] \cup {m})]
  BY DEF Grown, a
<1>. HIDE DEF run
<1>9. run = [i \in Nat |-> IF i = 0 THEN a ELSE Ahead(out, run[i - 1] \cup {m})]
  BY <1>7, <1>8
<1>10. run[0] = a
  BY <1>9
<1>11. \A n \in Nat : run[n + 1] = Ahead(out, run[n] \cup {m})
  <2>. TAKE n \in Nat
  <2>1. n + 1 \in Nat /\ n + 1 # 0 /\ (n + 1) - 1 = n
    OBVIOUS
  <2>2. run[n + 1] = Ahead(out, run[(n + 1) - 1] \cup {m})
    BY <1>9, <2>1
  <2>. QED
    BY <2>1, <2>2
<1> DEFINE P == {n \in Nat : run[n] \in X}
<1>12. 0 \in P
  BY <1>2, <1>10 DEF a
<1>13. ASSUME NEW n \in P PROVE n + 1 \in P
  <2>1. n \in Nat /\ run[n] \in X
    OBVIOUS
  <2>2. Ahead(out, run[n] \cup {m}) \in X
    BY <1>1, <2>1
  <2>. QED
    BY <1>11, <2>1, <2>2
<1>14. P = Nat
  <2>1. P \subseteq Nat
    OBVIOUS
  <2>. HIDE DEF P
  <2>. QED
    BY <1>12, <1>13, <2>1, InductionBySet
<1>. QED
  BY <1>10, <1>11, <1>14 DEF run, a, X

\* As many steps as there are matches reach every match behind m.
LEMMA GrownEnds ==
  ASSUME NEW ids, NEW order, NEW out, NEW rank, Wired(ids, order, out, rank), NEW m \in ids
  PROVE  /\ IsFiniteSet(ids) /\ Len(order) \in Nat
         /\ Grown(out, m)[Len(order)] \in SUBSET ids
         /\ Ahead(out, Grown(out, m)[Len(order)] \cup {m}) \subseteq Grown(out, m)[Len(order)]
<1> DEFINE run == Grown(out, m)
           L == Len(order)
<1>1. run[0] = {} /\ \A n \in Nat : run[n] \in SUBSET ids /\ run[n + 1] = Ahead(out, run[n] \cup {m})
  BY GrownIs
<1>2. L \in Nat /\ IsFiniteSet(ids) /\ Cardinality(ids) \in Nat /\ Cardinality(ids) <= L
  <2>1. order \in Seq(ids) /\ ids = RangeOf(order)
    BY DEF Wired
  <2>2. L \in Nat
    BY <2>1, LenProperties
  <2> DEFINE S == 1..L
  <2>3. IsFiniteSet(S) /\ Cardinality(S) = L
    <3>. HIDE DEF L
    <3>1. L \in Int /\ 1 \in Int /\ (IF 1 > L THEN 0 ELSE L - 1 + 1) = L
      BY <2>2
    <3>. QED
      BY <3>1, FS_Interval
  <2> DEFINE f == [i \in S |-> order[i]]
  <2>4. f \in Surjection(S, ids)
    <3>1. \A i \in S : order[i] \in ids
      BY <2>1, ElementOfSeq
    <3>2. \A y \in ids : \E i \in S : y = order[i]
      BY <2>1 DEF RangeOf
    <3>3. f \in [S -> ids] /\ \A y \in ids : \E i \in S : f[i] = y
      BY <3>1, <3>2
    <3>. QED
      BY <3>3 DEF Surjection
  <2>. HIDE DEF f, S
  <2>5. IsFiniteSet(ids) /\ Cardinality(ids) <= Cardinality(S)
    BY <2>3, <2>4, FS_Surjection
  <2>. QED
    BY <2>2, <2>3, <2>5, FS_CardinalityType
<1>. HIDE DEF run, L
<1>3. \A n \in Nat : IsFiniteSet(run[n]) /\ Cardinality(run[n]) \in Nat /\ Cardinality(run[n]) <= Cardinality(ids)
  <2>. TAKE n \in Nat
  <2>1. run[n] \in SUBSET ids
    BY <1>1
  <2>. QED
    BY <1>2, <2>1, FS_Subset, FS_CardinalityType
<1> DEFINE Fine(n) == run[n] \subseteq run[n + 1] /\ (run[n + 1] = run[n] \/ Cardinality(run[n]) >= n)
           P == {n \in Nat : Fine(n)}
<1>4. 0 \in P
  BY <1>1, <1>3
<1>5. ASSUME NEW n \in P PROVE n + 1 \in P
  <2> DEFINE a == run[n]
             b == run[n + 1]
             c == run[(n + 1) + 1]
  <2>1. n \in Nat /\ n + 1 \in Nat /\ a \subseteq b /\ (b = a \/ Cardinality(a) >= n)
    OBVIOUS
  <2>2. b = Ahead(out, a \cup {m}) /\ c = Ahead(out, b \cup {m})
    BY <1>1, <2>1
  <2>3. /\ IsFiniteSet(a) /\ Cardinality(a) \in Nat /\ a \in SUBSET b
        /\ IsFiniteSet(b) /\ Cardinality(b) \in Nat
    BY <1>3, <2>1
  <2>. HIDE DEF P, a, b, c
  <2>4. b \subseteq c
    <3>1. a \cup {m} \subseteq b \cup {m}
      BY <2>1
    <3>. QED
      BY <2>2, <3>1, AheadGrows
  <2>5. c = b \/ Cardinality(b) >= n + 1
    <3>1. CASE b = a
      BY <2>2, <3>1
    <3>2. CASE b # a
      <4>1. Cardinality(a) <= Cardinality(b) /\ Cardinality(a) # Cardinality(b)
        BY <2>3, <3>2, FS_Subset
      <4>. QED
        BY <2>1, <2>3, <3>2, <4>1
    <3>. QED
      BY <3>1, <3>2
  <2>. QED
    BY <2>1, <2>4, <2>5 DEF P, b, c
<1>6. P = Nat
  <2>. HIDE DEF Fine
  <2>1. P \subseteq Nat
    OBVIOUS
  <2>. HIDE DEF P
  <2>. QED
    BY <1>4, <1>5, <2>1, InductionBySet
<1>7. Fine(L)
  BY <1>2, <1>6
<1>8. run[L + 1] = Ahead(out, run[L] \cup {m}) /\ run[L] \in SUBSET ids /\ run[L + 1] \in SUBSET ids
  <2>1. L \in Nat /\ L + 1 \in Nat
    BY <1>2
  <2>. QED
    BY <1>1, <2>1
<1>9. run[L + 1] \subseteq run[L]
  <2>1. CASE run[L + 1] = run[L]
    BY <2>1
  <2>2. CASE Cardinality(run[L]) >= L
    <3>1. Cardinality(run[L]) = Cardinality(ids)
      BY <1>2, <1>3, <2>2
    <3>2. run[L] = ids
      BY <1>2, <1>8, <3>1, FS_Subset
    <3>. QED
      BY <1>8, <3>2
  <2>. QED
    BY <1>7, <2>1, <2>2
<1>. QED
  BY <1>2, <1>8, <1>9 DEF run, L

LEMMA GrownLater ==
  ASSUME NEW ids, NEW order, NEW out, NEW rank, Wired(ids, order, out, rank), NEW m \in ids, NEW n \in Nat
  PROVE  \A d \in Grown(out, m)[n] : rank[m] < rank[d]
<1> DEFINE run == Grown(out, m)
           P == {i \in Nat : \A d \in run[i] : rank[m] < rank[d]}
<1>1. run[0] = {} /\ \A i \in Nat : run[i] \in SUBSET ids /\ run[i + 1] = Ahead(out, run[i] \cup {m})
  BY GrownIs
<1>. HIDE DEF run
<1>2. 0 \in P
  BY <1>1
<1>3. ASSUME NEW i \in P PROVE i + 1 \in P
  <2>1. i \in Nat /\ (\A d \in run[i] : rank[m] < rank[d]) /\ run[i] \in SUBSET ids
    BY <1>1
  <2> DEFINE S == run[i] \cup {m}
  <2>2. S \subseteq ids /\ run[i + 1] = Ahead(out, S) /\ \A d \in S : rank[m] <= rank[d]
    <3>1. rank[m] \in Nat
      BY DEF Wired
    <3>2. \A d \in run[i] : rank[d] \in Nat
      BY <2>1 DEF Wired
    <3>. QED
      BY <1>1, <2>1, <3>1, <3>2
  <2>. HIDE DEF S
  <2>3. ASSUME NEW n0 \in Ahead(out, S) PROVE rank[m] < rank[n0]
    <3>0. rank \in [ids -> Nat]
      BY DEF Wired
    <3>1. CASE \E d \in S, w \in Ways : \E to \in Way(out, d, w) : n0 = to[1]
      <4>1. PICK d \in S, w \in Ways : \E to \in Way(out, d, w) : n0 = to[1]
        BY <3>1
      <4>2. PICK to \in Way(out, d, w) : n0 = to[1]
        BY <4>1
      <4>3. to \in ids \X Ways /\ rank[d] < rank[to[1]] /\ d \in ids
        BY <2>2 DEF Wired
      <4>4. rank[m] <= rank[d] /\ rank[m] \in Nat /\ rank[d] \in Nat /\ rank[n0] \in Nat /\ rank[d] < rank[n0]
        BY <2>2, <3>0, <4>2, <4>3
      <4>. QED
        BY <4>4
    <3>2. CASE n0 = GrandReset /\ Grand \in S
      <4>1. rank[Grand] < rank[GrandReset] /\ Grand \in ids /\ GrandReset \in ids
        BY <2>2, <3>2 DEF Wired
      <4>2. rank[m] <= rank[Grand] /\ rank[m] \in Nat /\ rank[Grand] \in Nat /\ rank[GrandReset] \in Nat
        BY <2>2, <3>0, <3>2, <4>1
      <4>. QED
        BY <3>2, <4>1, <4>2
    <3>. QED
      BY <3>1, <3>2, AheadIs
  <2>. QED
    BY <2>1, <2>2, <2>3
<1>4. P = Nat
  <2>1. P \subseteq Nat
    OBVIOUS
  <2>. HIDE DEF P
  <2>. QED
    BY <1>2, <1>3, <2>1, InductionBySet
<1>. QED
  BY <1>4 DEF run

\* The second grand final lies behind a match only with the first.
LEMMA GrownWithGrand ==
  ASSUME NEW ids, NEW order, NEW out, NEW rank, Wired(ids, order, out, rank), NEW m \in ids, NEW n \in Nat
  PROVE  GrandReset \in Grown(out, m)[n] => Grand \in Grown(out, m)[n] \cup {m}
<1> DEFINE run == Grown(out, m)
           P == {i \in Nat : run[i] \subseteq run[i + 1]}
<1>1. run[0] = {} /\ \A i \in Nat : run[i] \in SUBSET ids /\ run[i + 1] = Ahead(out, run[i] \cup {m})
  BY GrownIs
<1>. HIDE DEF run
<1>2. 0 \in P
  BY <1>1
<1>3. ASSUME NEW i \in P PROVE i + 1 \in P
  <2>1. i \in Nat /\ i + 1 \in Nat /\ run[i] \cup {m} \subseteq run[i + 1] \cup {m}
    OBVIOUS
  <2>2. Ahead(out, run[i] \cup {m}) \subseteq Ahead(out, run[i + 1] \cup {m})
    BY <2>1, AheadGrows
  <2>3. run[i + 1] = Ahead(out, run[i] \cup {m}) /\ run[(i + 1) + 1] = Ahead(out, run[i + 1] \cup {m})
    BY <1>1, <2>1
  <2>4. run[i + 1] \subseteq run[(i + 1) + 1]
    BY <2>2, <2>3
  <2>. QED
    BY <2>1, <2>4
<1>4. P = Nat
  <2>1. P \subseteq Nat
    OBVIOUS
  <2>. HIDE DEF P
  <2>. QED
    BY <1>2, <1>3, <2>1, InductionBySet
<1>5. n = 0 => GrandReset \notin run[n]
  BY <1>1
<1>6. ASSUME n # 0, GrandReset \in run[n] PROVE Grand \in run[n] \cup {m}
  <2> DEFINE i == n - 1
             S == run[i] \cup {m}
  <2>1. i \in Nat /\ i + 1 = n /\ run[i] \subseteq run[n]
    <3>1. i \in Nat /\ i + 1 = n
      BY <1>6
    <3>2. i \in P
      BY <1>4, <3>1
    <3>. QED
      BY <3>1, <3>2
  <2>. HIDE DEF i
  <2>2. GrandReset \in Ahead(out, S) /\ S \subseteq ids
    BY <1>1, <1>6, <2>1
  <2>3. S \subseteq run[n] \cup {m}
    BY <2>1
  <2>. HIDE DEF S
  <2>4. \A d \in S, w \in Ways : \A to \in Way(out, d, w) : to[1] # GrandReset
    BY <2>2 DEF Wired
  <2>. QED
    BY <2>2, <2>3, <2>4, AheadIs
<1>. QED
  BY <1>5, <1>6 DEF run

LEMMA LinkedIs ==
  ASSUME NEW ids, NEW order, NEW out, NEW rank, Wired(ids, order, out, rank), out = [m \in ids |-> out[m]], NEW gone
  PROVE  LET x == [tree |-> Linked(order, out), gone |-> gone]
         IN /\ Ids(x) = ids /\ x.tree.order = order /\ x.gone = gone
            /\ \A m \in ids, w \in Ways : Out(x, m, w) = Way(out, m, w)
            /\ \A m \in ids, s \in Ways : \A f : f \in Feeds(x, m, s) <=> f \in ids \X Ways /\ <<m, s>> \in Way(out, f[1], f[2])
            /\ \A m \in ids : Below(x, m) = Grown(out, m)[Len(order)]
<1> DEFINE x == [tree |-> Linked(order, out), gone |-> gone]
           feeds == [m \in ids |-> [s \in {1, 2} |-> {f \in ids \X {1, 2} : <<m, s>> \in out[f[1]][f[2]]}]]
           below == [m \in ids |-> Grown(out, m)[Len(order)]]
           T == Linked(order, out)
<1>0. order \in Seq(ids) /\ ids = RangeOf(order)
  BY DEF Wired
<1>1. {order[i] : i \in DOMAIN order} = ids
  <2>1. DOMAIN order = 1..Len(order)
    BY <1>0, LenProperties
  <2>. QED
    BY <1>0, <2>1 DEF RangeOf
<1>2. T = [order |-> order, out |-> out, feeds |-> feeds, below |-> below]
  <2> DEFINE I == {order[i] : i \in DOMAIN order}
  <2>1. T = [order |-> order, out |-> out,
             feeds |-> [m \in I |-> [s \in {1, 2} |-> {f \in I \X {1, 2} : <<m, s>> \in out[f[1]][f[2]]}]],
             below |-> [m \in I |-> Grown(out, m)[Len(order)]]]
    BY DEF Linked, Grown, Ahead
  <2>2. I = ids
    BY <1>1
  <2>. HIDE DEF I, T
  <2>. QED
    BY <2>1, <2>2
<1>. HIDE DEF T
<1>3. x.tree = T /\ x.gone = gone
  BY DEF T
<1>. HIDE DEF x
<1>4. T.order = order /\ T.out = out /\ T.feeds = feeds /\ T.below = below
  <2>. HIDE DEF feeds, below
  <2>. QED
    BY <1>2
<1>5. Ids(x) = ids
  BY <1>3, <1>4 DEF Ids
<1>6. \A m \in ids, w \in Ways : Out(x, m, w) = Way(out, m, w)
  BY <1>3, <1>4 DEF Out, Way
<1>7. ASSUME NEW m \in ids, NEW s \in Ways, NEW f
      PROVE  f \in Feeds(x, m, s) <=> f \in ids \X Ways /\ <<m, s>> \in Way(out, f[1], f[2])
  <2>1. Feeds(x, m, s) = {g \in ids \X {1, 2} : <<m, s>> \in out[g[1]][g[2]]}
    <3>1. Feeds(x, m, s) = feeds[m][s]
      BY <1>3, <1>4 DEF Feeds
    <3>2. s \in {1, 2}
      BY DEF Ways
    <3>. QED
      BY <3>1, <3>2
  <2>. QED
    BY <2>1 DEF Way, Ways
<1>8. \A m \in ids : Below(x, m) = Grown(out, m)[Len(order)]
  BY <1>3, <1>4 DEF Below
<1>. QED
  BY <1>3, <1>4, <1>5, <1>6, <1>7, <1>8 DEF x

Deepens(x, rank) ==
  \A m \in Ids(x) : \A d \in Below(x, m) :
    rank[m] < rank[d] /\ (d = GrandReset => Grand \in Below(x, m) \cup {m})

LEMMA LinkedShape ==
  ASSUME NEW ids, NEW order, NEW out, NEW rank, Wired(ids, order, out, rank), out = [m \in ids |-> out[m]], NEW gone
  PROVE  LET x == [tree |-> Linked(order, out), gone |-> gone]
         IN Shape(x, rank) /\ Deepens(x, rank)
<1> DEFINE x == [tree |-> Linked(order, out), gone |-> gone]
<1>1. /\ Ids(x) = ids /\ x.tree.order = order
      /\ \A m \in ids, w \in Ways : Out(x, m, w) = Way(out, m, w)
      /\ \A m \in ids, s \in Ways : \A f : f \in Feeds(x, m, s) <=> f \in ids \X Ways /\ <<m, s>> \in Way(out, f[1], f[2])
      /\ \A m \in ids : Below(x, m) = Grown(out, m)[Len(order)]
  BY LinkedIs
<1>. HIDE DEF x
<1>2. /\ order \in Seq(ids) /\ ids = RangeOf(order) /\ rank \in [ids -> Nat]
      /\ \A m \in ids, w \in Ways :
           /\ \A to \in Way(out, m, w) : to \in ids \X Ways /\ to[1] # GrandReset /\ rank[m] < rank[to[1]]
           /\ \A to, at \in Way(out, m, w) : to = at
           /\ m \in {Grand, GrandReset} => Way(out, m, w) = {}
      /\ \A f, g \in ids \X Ways : \A to :
           to \in Way(out, f[1], f[2]) /\ to \in Way(out, g[1], g[2]) => f = g
  BY DEF Wired
<1>3. SlotsOf(x) = ids \X Ways
  BY <1>1 DEF SlotsOf
<1>4. Leads(x, rank)
  <2>. SUFFICES ASSUME NEW m \in ids, NEW w \in Ways
       PROVE  /\ \A to \in Out(x, m, w) : to \in SlotsOf(x) /\ to[1] # GrandReset /\ rank[m] < rank[to[1]]
              /\ \A to, at \in Out(x, m, w) : to = at
              /\ m \in {Grand, GrandReset} => Out(x, m, w) = {}
    BY <1>1 DEF Leads
  <2>1. Out(x, m, w) = Way(out, m, w)
    BY <1>1
  <2>2. \A to \in Way(out, m, w) : to \in ids \X Ways /\ to[1] # GrandReset /\ rank[m] < rank[to[1]]
    BY <1>2
  <2>3. \A to, at \in Way(out, m, w) : to = at
    BY <1>2
  <2>4. m \in {Grand, GrandReset} => Way(out, m, w) = {}
    BY <1>2
  <2>. QED
    BY <1>3, <2>1, <2>2, <2>3, <2>4
<1>5. Fed(x)
  <2>1. \A m \in Ids(x), s \in Ways : \A f \in Feeds(x, m, s) : f \in SlotsOf(x) /\ <<m, s>> \in Out(x, f[1], f[2])
    <3>. SUFFICES ASSUME NEW m \in ids, NEW s \in Ways, NEW f \in Feeds(x, m, s)
         PROVE  f \in SlotsOf(x) /\ <<m, s>> \in Out(x, f[1], f[2])
      BY <1>1
    <3>1. f \in ids \X Ways /\ <<m, s>> \in Way(out, f[1], f[2])
      BY <1>1
    <3>2. f[1] \in ids /\ f[2] \in Ways
      BY <3>1
    <3>3. Out(x, f[1], f[2]) = Way(out, f[1], f[2])
      BY <1>1, <3>2
    <3>. QED
      BY <1>3, <3>1, <3>3
  <2>2. ASSUME NEW f \in SlotsOf(x), NEW to \in Out(x, f[1], f[2]) PROVE f \in Feeds(x, to[1], to[2])
    <3>1. f \in ids \X Ways /\ f[1] \in ids /\ f[2] \in Ways
      BY <1>3
    <3>2. to \in Way(out, f[1], f[2])
      BY <1>1, <3>1
    <3>3. to \in ids \X Ways
      BY <1>2, <3>1, <3>2
    <3>4. to[1] \in ids /\ to[2] \in Ways /\ to = <<to[1], to[2]>>
      BY <3>3
    <3>5. <<to[1], to[2]>> \in Way(out, f[1], f[2])
      BY <3>2, <3>4
    <3>. QED
      BY <1>1, <3>1, <3>4, <3>5
  <2>3. ASSUME NEW m \in Ids(x), NEW s \in Ways, NEW f \in Feeds(x, m, s), NEW g \in Feeds(x, m, s)
        PROVE  f = g
    <3>1. /\ f \in ids \X Ways /\ <<m, s>> \in Way(out, f[1], f[2])
          /\ g \in ids \X Ways /\ <<m, s>> \in Way(out, g[1], g[2])
      BY <1>1
    <3>. QED
      BY <1>2, <3>1
  <2>. QED
    BY <2>1, <2>2, <2>3 DEF Fed
<1>6. \A m \in ids : /\ IsFiniteSet(ids) /\ Len(order) \in Nat /\ Below(x, m) \in SUBSET ids
                     /\ Ahead(out, Below(x, m) \cup {m}) \subseteq Below(x, m)
                     /\ \A d \in Below(x, m) : rank[m] < rank[d]
                     /\ GrandReset \in Below(x, m) => Grand \in Below(x, m) \cup {m}
  <2>. TAKE m \in ids
  <2>1. /\ IsFiniteSet(ids) /\ Len(order) \in Nat
        /\ Grown(out, m)[Len(order)] \in SUBSET ids
        /\ Ahead(out, Grown(out, m)[Len(order)] \cup {m}) \subseteq Grown(out, m)[Len(order)]
    BY GrownEnds
  <2> DEFINE L == Len(order)
  <2>2. L \in Nat
    BY <2>1
  <2>. HIDE DEF L
  <2>3. \A d \in Grown(out, m)[L] : rank[m] < rank[d]
    BY <2>2, GrownLater
  <2>4. GrandReset \in Grown(out, m)[L] => Grand \in Grown(out, m)[L] \cup {m}
    BY <2>2, GrownWithGrand
  <2>. QED
    BY <1>1, <2>1, <2>3, <2>4 DEF L
<1>7. Behind(x)
  <2>. SUFFICES ASSUME NEW m \in ids
       PROVE  /\ m \notin Below(x, m)
              /\ \A d \in Below(x, m) \cup {m}, w \in Ways : \A to \in Out(x, d, w) : to[1] \in Below(x, m)
              /\ Grand \in Below(x, m) \cup {m} => GrandReset \in Below(x, m)
    BY <1>1 DEF Behind
  <2> DEFINE B == Below(x, m)
             S == B \cup {m}
  <2>1. B \in SUBSET ids /\ Ahead(out, S) \subseteq B /\ \A d \in B : rank[m] < rank[d]
    BY <1>6
  <2>2. m \notin B
    <3>1. rank[m] \in Nat
      BY <1>2
    <3>. QED
      BY <2>1, <3>1
  <2>. HIDE DEF B
  <2>3. S \subseteq ids
    BY <2>1
  <2>. HIDE DEF S
  <2>4. \A d \in S, w \in Ways : \A to \in Out(x, d, w) : to[1] \in B
    <3>1. \A d \in S, w \in Ways : \A to \in Way(out, d, w) : to[1] \in Ahead(out, S)
      BY AheadIs
    <3>. QED
      BY <1>1, <2>1, <2>3, <3>1
  <2>5. Grand \in S => GrandReset \in B
    BY <2>1, AheadIs
  <2>. QED
    BY <2>2, <2>4, <2>5 DEF B, S
<1>8. \A m \in ids : \E i \in 1..Len(order) : order[i] = m
  BY <1>2 DEF RangeOf
<1>9. IsFiniteSet(ids)
  <2>1. CASE ids = {}
    BY <2>1, FS_EmptySet
  <2>2. CASE ids # {}
    BY <1>6, <2>2
  <2>. QED
    BY <2>1, <2>2
<1>10. Deepens(x, rank)
  BY <1>1, <1>6 DEF Deepens
<1>. QED
  BY <1>1, <1>2, <1>4, <1>5, <1>6, <1>7, <1>8, <1>9, <1>10 DEF Shape, x

-----------------------------------------------------------------------------
(***************************************************************************)
(* The numbers of the tree.                                                *)
(***************************************************************************)
LEMMA PowerIs ==
  /\ Power[0] = 1
  /\ \A n \in Nat : Power[n] \in Nat \ {0} /\ Power[n + 1] = 2 * Power[n]
<1> DEFINE X == Nat \ {0}
           G == [p \in Nat \X X |-> 2 * p[2]]
           run == Power
<1>1. \A i \in Nat, y \in X : G[<<i, y>>] = 2 * y /\ G[<<i, y>>] \in X
  OBVIOUS
<1>2. 1 \in X
  OBVIOUS
<1>. HIDE DEF G, X
<1>3. Stepping(X, G)
  BY <1>1 DEF Stepping
<1>4. PICK f : Iterates(X, 1, G, f)
  BY <1>2, <1>3, Recursion
<1>5. f \in [Nat -> X] /\ f[0] = 1 /\ \A n \in Nat : f[n + 1] = G[<<n, f[n]>>]
  BY <1>4 DEF Iterates
<1>6. \A i \in Nat : f[i] = IF i = 0 THEN 1 ELSE 2 * f[i - 1]
  <2>. TAKE i \in Nat
  <2>1. CASE i = 0
    BY <1>5, <2>1
  <2>2. CASE i # 0
    <3>1. i - 1 \in Nat /\ (i - 1) + 1 = i
      BY <2>2
    <3>2. f[i] = G[<<i - 1, f[i - 1]>>] /\ f[i - 1] \in X
      BY <1>5, <3>1
    <3>. QED
      BY <1>1, <2>2, <3>1, <3>2
  <2>. QED
    BY <2>1, <2>2
<1>7. f = [i \in Nat |-> IF i = 0 THEN 1 ELSE 2 * f[i - 1]]
  <2>1. f = [i \in Nat |-> f[i]]
    BY <1>5
  <2>. QED
    BY <1>6, <2>1
<1>8. run = CHOOSE g : g = [i \in Nat |-> IF i = 0 THEN 1 ELSE 2 * g[i - 1]]
  BY DEF Power
<1>. HIDE DEF run
<1>9. run = [i \in Nat |-> IF i = 0 THEN 1 ELSE 2 * run[i - 1]]
  BY <1>7, <1>8
<1>10. run[0] = 1
  BY <1>9
<1>11. \A n \in Nat : run[n + 1] = 2 * run[n]
  <2>. TAKE n \in Nat
  <2>1. n + 1 \in Nat /\ n + 1 # 0 /\ (n + 1) - 1 = n
    OBVIOUS
  <2>2. run[n + 1] = 2 * run[(n + 1) - 1]
    BY <1>9, <2>1
  <2>. QED
    BY <2>1, <2>2
<1> DEFINE P == {n \in Nat : run[n] \in Nat \ {0}}
<1>12. 0 \in P
  BY <1>10
<1>13. ASSUME NEW n \in P PROVE n + 1 \in P
  BY <1>11
<1>14. P = Nat
  <2>1. P \subseteq Nat
    OBVIOUS
  <2>. HIDE DEF P
  <2>. QED
    BY <1>12, <1>13, <2>1, InductionBySet
<1>. QED
  BY <1>10, <1>11, <1>14 DEF run

LEMMA HalfIs ==
  ASSUME NEW n \in Nat \ {0}
  PROVE  /\ Half(n) \in Nat \ {0} /\ Side(n) \in {1, 2} /\ n = 2 * Half(n) - 2 + Side(n)
         /\ n % 2 = 1 => Half(n + 1) = Half(n) /\ n + 1 = 2 * Half(n)
         /\ n % 2 # 1 => Half(n + 1) = Half(n) + 1 /\ n = 2 * Half(n)
<1>1. n % 2 \in {0, 1} /\ n = 2 * (n \div 2) + (n % 2) /\ n \div 2 \in Nat
  OBVIOUS
<1>2. (n + 1) \div 2 = (n \div 2) + (n % 2)
  BY <1>1
<1>3. (n + 1 + 1) \div 2 = (n \div 2) + 1
  BY <1>1
<1>. QED
  BY <1>1, <1>2, <1>3 DEF Half, Side

LEMMA HalfDouble ==
  ASSUME NEW n \in Nat \ {0}
  PROVE  Half(2 * n) = n /\ (2 * n) % 2 # 1 /\ (2 * n) \div 2 = n
BY DEF Half

LEMMA PowerAt ==
  ASSUME NEW i \in Nat \ {0}
  PROVE  Power[i] = 2 * Power[i - 1] /\ Power[i] \in Nat \ {0} /\ Power[i - 1] \in Nat \ {0}
<1>1. i - 1 \in Nat /\ (i - 1) + 1 = i
  OBVIOUS
<1>. QED
  BY <1>1, PowerIs

-----------------------------------------------------------------------------
(***************************************************************************)
(* The matches of the tree of mode md with 2^k places, how deep they lie,  *)
(* and what fills a slot.                                                  *)
(***************************************************************************)
Spot(md, k, m) ==
  \/ \E r \in 1..k : \E n \in 1..Power[k - r] : m = Wb(md, k, r, n)
  \/ md = "DOUBLE" /\ \E r \in 1..LbRounds(k) : \E n \in 1..LbCount(k, r) : m = Lb(r, n)
  \/ md = "DOUBLE" /\ m \in {Grand, GrandReset}
  \/ md = "SINGLE" /\ ThirdPlace /\ k >= 2 /\ m = Bronze(k)

Depth(k, m) ==
  IF m[1] \in {"WINNERS", "FINAL"} THEN 2 * m[2]
  ELSE IF m[1] = "LOSERS" THEN 2 * m[2] + 3
  ELSE IF m[1] = "GRAND_FINAL_RESET" THEN 4 * k + 11 ELSE 4 * k + 10

From(md, k, to) ==
  LET type == to[1][1]
      r == to[1][2]
      n == to[1][3]
      s == to[2]
  IN IF type \in {"WINNERS", "FINAL"} THEN <<Wb(md, k, r - 1, 2 * n - 2 + s), 1>>
     ELSE IF type = "THIRD_PLACE" THEN <<Wb(md, k, k - 1, s), 2>>
     ELSE IF type = "LOSERS"
     THEN IF r = 1 THEN <<Wb(md, k, 1, 2 * n - 2 + s), 2>>
          ELSE IF r % 2 = 1 THEN <<Lb(r - 1, 2 * n - 2 + s), 1>>
          ELSE IF s = 1 THEN <<Lb(r - 1, n), 1>>
          ELSE <<Wb(md, k, (r \div 2) + 1, Power[k - ((r \div 2) + 1)] + 1 - n), 2>>
     ELSE IF s = 1 THEN <<Wb(md, k, k, 1), 1>>
     ELSE IF k = 1 THEN <<Wb(md, k, 1, 1), 2>>
     ELSE <<Lb(LbRounds(k), 1), 1>>

Lands(md, k, m, w, to) ==
  /\ Spot(md, k, to[1]) /\ to[1] # GrandReset /\ to = <<to[1], to[2]>> /\ to[2] \in Ways
  /\ Depth(k, m) < Depth(k, to[1]) /\ From(md, k, to) = <<m, w>>

WbType(md, k, r) == IF md = "SINGLE" /\ r = k THEN "FINAL" ELSE "WINNERS"

LEMMA WbIs ==
  ASSUME NEW md, NEW k, NEW r, NEW n
  PROVE  LET m == Wb(md, k, r, n)
         IN /\ m[1] = WbType(md, k, r) /\ m[2] = r /\ m[3] = n /\ m = <<WbType(md, k, r), r, n>>
            /\ m[1] \in {"WINNERS", "FINAL"} /\ m \notin {Grand, GrandReset}
            /\ Depth(k, m) = 2 * r
BY DEF Wb, WbType, Grand, GrandReset, Depth

LEMMA LbIs ==
  ASSUME NEW k, NEW r, NEW n
  PROVE  LET m == Lb(r, n)
         IN /\ m[1] = "LOSERS" /\ m[2] = r /\ m[3] = n /\ m \notin {Grand, GrandReset}
            /\ Depth(k, m) = 2 * r + 3
BY DEF Lb, Grand, GrandReset, Depth

LEMMA WinnerWayUp ==
  ASSUME NEW md \in {"SINGLE", "DOUBLE"}, NEW k \in Nat \ {0}, NEW r \in 1..k, NEW n \in 1..Power[k - r],
         NEW to \in WinnerTo(md, k, Wb(md, k, r, n))
  PROVE  Lands(md, k, Wb(md, k, r, n), 1, to)
<1> DEFINE m == Wb(md, k, r, n)
<1>1. m[1] = WbType(md, k, r) /\ m[2] = r /\ m[3] = n /\ Depth(k, m) = 2 * r
  BY WbIs
<1>. HIDE DEF m
<1>2. CASE r < k
  <2>1. to = <<Wb(md, k, r + 1, Half(n)), Side(n)>>
    BY <1>1, <1>2 DEF WinnerTo, WbType, m
  <2> DEFINE q == Wb(md, k, r + 1, Half(n))
  <2>2. /\ q[1] \in {"WINNERS", "FINAL"} /\ q[2] = r + 1 /\ q[3] = Half(n) /\ q # GrandReset
        /\ Depth(k, q) = 2 * (r + 1)
    BY WbIs
  <2>3. to[1] = q /\ to[2] = Side(n) /\ to = <<to[1], to[2]>>
    BY <2>1
  <2>4. k - r \in Nat \ {0} /\ (k - r) - 1 = k - (r + 1) /\ r + 1 \in 1..k
    BY <1>2
  <2>5. Power[k - r] = 2 * Power[k - (r + 1)] /\ Power[k - r] \in Nat /\ Power[k - (r + 1)] \in Nat
    BY <2>4, PowerAt
  <2>6. n \in Nat \ {0} /\ n <= 2 * Power[k - (r + 1)]
    BY <2>5
  <2>7. Half(n) \in Nat \ {0} /\ Side(n) \in {1, 2} /\ n = 2 * Half(n) - 2 + Side(n)
    BY <2>6, HalfIs
  <2>8. Half(n) \in 1..Power[k - (r + 1)]
    BY <2>5, <2>6, <2>7
  <2>. HIDE DEF q
  <2>9. Spot(md, k, q)
    BY <2>4, <2>8 DEF Spot, q
  <2>10. From(md, k, to) = <<m, 1>>
    <3>1. From(md, k, to) = <<Wb(md, k, (r + 1) - 1, 2 * Half(n) - 2 + Side(n)), 1>>
      BY <2>2, <2>3 DEF From
    <3>2. (r + 1) - 1 = r
      OBVIOUS
    <3>. QED
      BY <2>7, <3>1, <3>2 DEF m
  <2>11. Depth(k, m) < Depth(k, q)
    BY <1>1, <2>2
  <2>. QED
    BY <2>2, <2>3, <2>7, <2>9, <2>10, <2>11 DEF Lands, Ways, m
<1>3. CASE r = k
  <2>1. n = 1
    <3>1. k - r = 0
      BY <1>3
    <3>. QED
      BY <3>1, PowerIs
  <2>2. md = "DOUBLE" /\ to = <<Grand, 1>>
    BY <1>1, <1>3 DEF WinnerTo, WbType, m
  <2>3. Spot(md, k, Grand) /\ Grand # GrandReset
    BY <2>2 DEF Spot, Grand, GrandReset
  <2>4. Depth(k, Grand) = 4 * k + 10 /\ Grand[1] = "GRAND_FINAL"
    BY DEF Depth, Grand
  <2>5. to[1] = Grand /\ to[2] = 1 /\ to = <<to[1], to[2]>>
    BY <2>2
  <2>6. From(md, k, to) = <<m, 1>>
    <3>1. From(md, k, to) = <<Wb(md, k, k, 1), 1>>
      BY <2>4, <2>5 DEF From
    <3>. QED
      BY <1>3, <2>1, <3>1 DEF m
  <2>7. Depth(k, m) < Depth(k, Grand)
    BY <1>1, <1>3, <2>4
  <2>. QED
    BY <2>3, <2>5, <2>6, <2>7 DEF Lands, Ways, m
<1>. QED
  BY <1>2, <1>3

LEMMA LoserWayDown ==
  ASSUME NEW md \in {"SINGLE", "DOUBLE"}, NEW k \in Nat \ {0}, NEW r \in 1..k, NEW n \in 1..Power[k - r],
         NEW to \in LoserTo(md, k, Wb(md, k, r, n))
  PROVE  Lands(md, k, Wb(md, k, r, n), 2, to)
<1> DEFINE m == Wb(md, k, r, n)
<1>1. m[1] = WbType(md, k, r) /\ m[2] = r /\ m[3] = n /\ Depth(k, m) = 2 * r
  BY WbIs
<1>. HIDE DEF m
<1>0. k - r \in Nat /\ Power[k - r] \in Nat \ {0}
  BY PowerIs
<1>2. CASE md = "SINGLE"
  <2>1. ThirdPlace /\ k >= 2 /\ r = k - 1 /\ to = <<Bronze(k), n>>
    BY <1>1, <1>2 DEF LoserTo, m
  <2>2. n \in {1, 2}
    <3>1. k - r = 1 /\ Power[1] = 2 * Power[0]
      BY <2>1, PowerIs
    <3>. QED
      BY <3>1, PowerIs
  <2>3. Bronze(k)[1] = "THIRD_PLACE" /\ Bronze(k) # GrandReset /\ Depth(k, Bronze(k)) = 4 * k + 10
    BY DEF Bronze, GrandReset, Depth
  <2>4. to[1] = Bronze(k) /\ to[2] = n /\ to = <<to[1], to[2]>>
    BY <2>1
  <2>5. Spot(md, k, Bronze(k))
    BY <1>2, <2>1 DEF Spot
  <2>6. From(md, k, to) = <<m, 2>>
    <3>1. From(md, k, to) = <<Wb(md, k, k - 1, n), 2>>
      BY <2>3, <2>4 DEF From
    <3>. QED
      BY <2>1, <3>1 DEF m
  <2>7. Depth(k, m) < Depth(k, Bronze(k))
    BY <1>1, <2>3
  <2>. QED
    BY <2>2, <2>3, <2>4, <2>5, <2>6, <2>7 DEF Lands, Ways, m
<1>3. CASE md = "DOUBLE" /\ k = 1
  <2>1. r = 1 /\ n = 1 /\ to = <<Grand, 2>>
    <3>1. r = 1 /\ k - r = 0
      BY <1>3
    <3>2. n = 1
      BY <3>1, PowerIs
    <3>3. m[1] = "WINNERS"
      BY <1>1, <1>3 DEF WbType
    <3>. QED
      BY <1>3, <3>1, <3>2, <3>3 DEF LoserTo, m
  <2>2. Spot(md, k, Grand) /\ Grand # GrandReset /\ Depth(k, Grand) = 4 * k + 10 /\ Grand[1] = "GRAND_FINAL"
    BY <1>3 DEF Spot, Grand, GrandReset, Depth
  <2>3. to[1] = Grand /\ to[2] = 2 /\ to = <<to[1], to[2]>>
    BY <2>1
  <2>4. From(md, k, to) = <<m, 2>>
    BY <1>3, <2>1, <2>2, <2>3 DEF From, m
  <2>5. Depth(k, m) < Depth(k, Grand)
    BY <1>1, <1>3, <2>2
  <2>. QED
    BY <2>2, <2>3, <2>4, <2>5 DEF Lands, Ways, m
<1>4. CASE md = "DOUBLE" /\ k > 1 /\ r = 1
  <2>1. to = <<Lb(1, Half(n)), Side(n)>>
    <3>1. m[1] = "WINNERS"
      BY <1>1, <1>4 DEF WbType
    <3>. QED
      BY <1>1, <1>4, <3>1 DEF LoserTo, m
  <2> DEFINE q == Lb(1, Half(n))
  <2>2. q[1] = "LOSERS" /\ q[2] = 1 /\ q[3] = Half(n) /\ q # GrandReset /\ Depth(k, q) = 2 * 1 + 3
    BY LbIs
  <2>3. to[1] = q /\ to[2] = Side(n) /\ to = <<to[1], to[2]>>
    BY <2>1
  <2>4. 1 \in 1..LbRounds(k) /\ LbCount(k, 1) = Power[(k - 1) - 1]
    <3>1. Half(1) = 1
      BY DEF Half
    <3>. QED
      BY <1>4, <3>1 DEF LbRounds, LbCount
  <2>5. Power[k - 1] = 2 * Power[(k - 1) - 1] /\ Power[(k - 1) - 1] \in Nat
    <3>1. k - 1 \in Nat \ {0}
      BY <1>4
    <3>. QED
      BY <3>1, PowerAt
  <2>6. n \in Nat \ {0} /\ n <= 2 * Power[(k - 1) - 1]
    BY <1>4, <1>0, <2>5
  <2>7. Half(n) \in Nat \ {0} /\ Side(n) \in {1, 2} /\ n = 2 * Half(n) - 2 + Side(n)
    BY <2>6, HalfIs
  <2>8. Half(n) \in 1..LbCount(k, 1)
    BY <2>4, <2>5, <2>6, <2>7
  <2>. HIDE DEF q
  <2>9. Spot(md, k, q)
    BY <1>4, <2>4, <2>8 DEF Spot, q
  <2>10. From(md, k, to) = <<m, 2>>
    <3>1. From(md, k, to) = <<Wb(md, k, 1, 2 * Half(n) - 2 + Side(n)), 2>>
      BY <2>2, <2>3 DEF From
    <3>. QED
      BY <1>4, <2>7, <3>1 DEF m
  <2>11. Depth(k, m) < Depth(k, q)
    BY <1>1, <1>4, <2>2
  <2>. QED
    BY <2>2, <2>3, <2>7, <2>9, <2>10, <2>11 DEF Lands, Ways, m
<1>5. CASE md = "DOUBLE" /\ k > 1 /\ r > 1
  <2> DEFINE v == 2 * (r - 1)
             j == Power[k - r] + 1 - n
             q == Lb(v, j)
  <2>1. to = <<q, 2>>
    <3>1. m[1] = "WINNERS"
      BY <1>1, <1>5 DEF WbType
    <3>. QED
      BY <1>1, <1>5, <3>1 DEF LoserTo, m
  <2>2. q[1] = "LOSERS" /\ q[2] = v /\ q[3] = j /\ q # GrandReset /\ Depth(k, q) = 2 * v + 3
    BY LbIs
  <2>3. to[1] = q /\ to[2] = 2 /\ to = <<to[1], to[2]>>
    BY <2>1
  <2>4. r - 1 \in Nat \ {0}
    BY <1>5
  <2>5. Half(v) = r - 1 /\ v % 2 # 1 /\ v \div 2 = r - 1
    BY <2>4, HalfDouble
  <2>6. v \in 1..LbRounds(k) /\ LbCount(k, v) = Power[k - r]
    <3>1. (k - 1) - (r - 1) = k - r
      OBVIOUS
    <3>. QED
      BY <1>5, <2>5, <3>1 DEF LbRounds, LbCount
  <2>7. j \in 1..LbCount(k, v)
    BY <1>0, <2>6
  <2>. HIDE DEF q
  <2>8. Spot(md, k, q)
    BY <1>5, <2>6, <2>7 DEF Spot, q
  <2>9. From(md, k, to) = <<m, 2>>
    <3>1. v # 1
      BY <2>4
    <3>. HIDE DEF v, j
    <3>2. From(md, k, to) = <<Wb(md, k, (v \div 2) + 1, Power[k - ((v \div 2) + 1)] + 1 - j), 2>>
      BY <2>2, <2>3, <2>5, <3>1 DEF From
    <3>3. (v \div 2) + 1 = r
      BY <2>4, <2>5
    <3>4. Power[k - r] + 1 - j = n
      BY <1>0 DEF j
    <3>. QED
      BY <3>2, <3>3, <3>4 DEF m
  <2>10. Depth(k, m) < Depth(k, q)
    BY <1>1, <1>5, <2>2
  <2>. QED
    BY <2>2, <2>3, <2>8, <2>9, <2>10 DEF Lands, Ways, m
<1>. QED
  BY <1>2, <1>3, <1>4, <1>5

LEMMA WinnerWayOn ==
  ASSUME NEW k \in Nat \ {0}, NEW r \in 1..LbRounds(k), NEW n \in 1..LbCount(k, r),
         NEW to \in WinnerTo("DOUBLE", k, Lb(r, n))
  PROVE  Lands("DOUBLE", k, Lb(r, n), 1, to)
<1> DEFINE m == Lb(r, n)
           md == "DOUBLE"
<1>1. m[1] = "LOSERS" /\ m[2] = r /\ m[3] = n /\ Depth(k, m) = 2 * r + 3
  BY LbIs
<1>. HIDE DEF m
<1>2. LbRounds(k) = 2 * (k - 1) /\ k >= 2 /\ k - 1 \in Nat \ {0} /\ r \in Nat \ {0} /\ r <= 2 * (k - 1)
  BY DEF LbRounds
<1>3. /\ Half(r) \in Nat \ {0}
      /\ r % 2 = 1 => Half(r + 1) = Half(r) /\ r + 1 = 2 * Half(r)
      /\ r % 2 # 1 => Half(r + 1) = Half(r) + 1 /\ r = 2 * Half(r)
      /\ r % 2 = 1 => (r + 1) % 2 # 1
      /\ r % 2 # 1 => (r + 1) % 2 = 1
  <2>1. r % 2 = 1 => (r + 1) % 2 # 1
    BY <1>2
  <2>2. r % 2 # 1 => (r + 1) % 2 = 1
    BY <1>2
  <2>. QED
    BY <1>2, <2>1, <2>2, HalfIs
<1>4. CASE r = LbRounds(k)
  <2>1. Half(r) = k - 1
    BY <1>2, <1>4, HalfDouble
  <2>2. LbCount(k, r) = Power[0]
    <3>1. (k - 1) - Half(r) = 0
      BY <1>2, <2>1
    <3>. QED
      BY <3>1 DEF LbCount
  <2>3. n = 1
    BY <2>2, PowerIs
  <2>4. to = <<Grand, 2>>
    BY <1>1, <1>4 DEF WinnerTo, m
  <2>5. Spot(md, k, Grand) /\ Grand # GrandReset /\ Depth(k, Grand) = 4 * k + 10 /\ Grand[1] = "GRAND_FINAL"
    BY DEF Spot, Grand, GrandReset, Depth
  <2>6. to[1] = Grand /\ to[2] = 2 /\ to = <<to[1], to[2]>>
    BY <2>4
  <2>7. From(md, k, to) = <<m, 1>>
    <3>1. From(md, k, to) = <<Lb(LbRounds(k), 1), 1>>
      BY <1>2, <2>5, <2>6 DEF From
    <3>. QED
      BY <1>4, <2>3, <3>1 DEF m
  <2>8. Depth(k, m) < Depth(k, Grand)
    BY <1>1, <1>2, <2>5
  <2>. QED
    BY <2>5, <2>6, <2>7, <2>8 DEF Lands, Ways, m
<1>5. CASE r < LbRounds(k) /\ r % 2 = 1
  <2> DEFINE q == Lb(r + 1, n)
  <2>1. to = <<q, 1>>
    BY <1>1, <1>5 DEF WinnerTo, m
  <2>2. q[1] = "LOSERS" /\ q[2] = r + 1 /\ q[3] = n /\ q # GrandReset /\ Depth(k, q) = 2 * (r + 1) + 3
    BY LbIs
  <2>3. to[1] = q /\ to[2] = 1 /\ to = <<to[1], to[2]>>
    BY <2>1
  <2>4. r + 1 \in 1..LbRounds(k) /\ LbCount(k, r + 1) = LbCount(k, r)
    <3>1. r + 1 \in 1..LbRounds(k)
      BY <1>2, <1>5
    <3>2. Half(r + 1) = Half(r)
      BY <1>3, <1>5
    <3>. QED
      BY <3>1, <3>2 DEF LbCount
  <2>. HIDE DEF q
  <2>5. Spot(md, k, q)
    BY <2>4 DEF Spot, q
  <2>6. From(md, k, to) = <<m, 1>>
    <3> DEFINE v == r + 1
    <3>1. v # 1 /\ v % 2 # 1 /\ v - 1 = r
      BY <1>2, <1>3, <1>5
    <3>2. q[2] = v
      BY <2>2
    <3>. HIDE DEF v
    <3>3. From(md, k, to) = <<Lb(v - 1, n), 1>>
      BY <2>2, <2>3, <3>1, <3>2 DEF From
    <3>. QED
      BY <3>1, <3>3 DEF m
  <2>7. Depth(k, m) < Depth(k, q)
    BY <1>1, <1>2, <2>2
  <2>. QED
    BY <2>2, <2>3, <2>5, <2>6, <2>7 DEF Lands, Ways, m
<1>6. CASE r < LbRounds(k) /\ r % 2 # 1
  <2> DEFINE q == Lb(r + 1, Half(n))
  <2>1. to = <<q, Side(n)>>
    BY <1>1, <1>6 DEF WinnerTo, m
  <2>2. q[1] = "LOSERS" /\ q[2] = r + 1 /\ q[3] = Half(n) /\ q # GrandReset /\ Depth(k, q) = 2 * (r + 1) + 3
    BY LbIs
  <2>3. to[1] = q /\ to[2] = Side(n) /\ to = <<to[1], to[2]>>
    BY <2>1
  <2>4. r + 1 \in 1..LbRounds(k) /\ LbCount(k, r) = 2 * LbCount(k, r + 1) /\ LbCount(k, r + 1) \in Nat
    <3>1. r + 1 \in 1..LbRounds(k)
      BY <1>2, <1>6
    <3>2. Half(r + 1) = Half(r) + 1 /\ r = 2 * Half(r) /\ Half(r) \in Nat
      BY <1>3, <1>6
    <3> DEFINE i == (k - 1) - Half(r)
    <3>3. i \in Nat \ {0} /\ i - 1 = (k - 1) - Half(r + 1)
      BY <1>2, <1>6, <3>2
    <3>4. LbCount(k, r) = Power[i] /\ LbCount(k, r + 1) = Power[i - 1]
      BY <3>3 DEF LbCount
    <3>. HIDE DEF i
    <3>5. Power[i] = 2 * Power[i - 1] /\ Power[i - 1] \in Nat
      BY <3>3, PowerAt
    <3>. QED
      BY <3>1, <3>4, <3>5
  <2>5. n \in Nat \ {0} /\ n <= 2 * LbCount(k, r + 1)
    BY <2>4
  <2>6. Half(n) \in Nat \ {0} /\ Side(n) \in {1, 2} /\ n = 2 * Half(n) - 2 + Side(n)
    BY <2>5, HalfIs
  <2>7. Half(n) \in 1..LbCount(k, r + 1)
    BY <2>4, <2>5, <2>6
  <2>. HIDE DEF q
  <2>8. Spot(md, k, q)
    BY <2>4, <2>7 DEF Spot, q
  <2>9. From(md, k, to) = <<m, 1>>
    <3> DEFINE v == r + 1
    <3>1. v # 1 /\ v % 2 = 1 /\ v - 1 = r
      BY <1>2, <1>3, <1>6
    <3>2. q[2] = v
      BY <2>2
    <3>. HIDE DEF v
    <3>3. From(md, k, to) = <<Lb(v - 1, 2 * Half(n) - 2 + Side(n)), 1>>
      BY <2>2, <2>3, <3>1, <3>2 DEF From
    <3>. QED
      BY <2>6, <3>1, <3>3 DEF m
  <2>10. Depth(k, m) < Depth(k, q)
    BY <1>1, <1>2, <2>2
  <2>. QED
    BY <2>2, <2>3, <2>6, <2>8, <2>9, <2>10 DEF Lands, Ways, m
<1>. QED
  BY <1>2, <1>4, <1>5, <1>6

To(md, k, m, w) == IF w = 1 THEN WinnerTo(md, k, m) ELSE LoserTo(md, k, m)

LEMMA EveryWayLands ==
  ASSUME NEW md \in {"SINGLE", "DOUBLE"}, NEW k \in Nat \ {0}, NEW m, Spot(md, k, m), NEW w \in Ways,
         NEW to \in To(md, k, m, w)
  PROVE  Lands(md, k, m, w, to)
<1>0. w \in {1, 2}
  BY DEF Ways
<1>1. CASE \E r \in 1..k : \E n \in 1..Power[k - r] : m = Wb(md, k, r, n)
  <2>1. PICK r \in 1..k : \E n \in 1..Power[k - r] : m = Wb(md, k, r, n)
    BY <1>1
  <2>2. PICK n \in 1..Power[k - r] : m = Wb(md, k, r, n)
    BY <2>1
  <2>3. CASE w = 1
    <3>1. to \in WinnerTo(md, k, Wb(md, k, r, n))
      BY <2>2, <2>3 DEF To
    <3>2. Lands(md, k, Wb(md, k, r, n), 1, to)
      BY <3>1, WinnerWayUp
    <3>. QED
      BY <2>2, <2>3, <3>2
  <2>4. CASE w = 2
    <3>1. to \in LoserTo(md, k, Wb(md, k, r, n))
      BY <2>2, <2>4 DEF To
    <3>2. Lands(md, k, Wb(md, k, r, n), 2, to)
      BY <3>1, LoserWayDown
    <3>. QED
      BY <2>2, <2>4, <3>2
  <2>. QED
    BY <1>0, <2>3, <2>4
<1>2. CASE md = "DOUBLE" /\ \E r \in 1..LbRounds(k) : \E n \in 1..LbCount(k, r) : m = Lb(r, n)
  <2>1. PICK r \in 1..LbRounds(k) : \E n \in 1..LbCount(k, r) : m = Lb(r, n)
    BY <1>2
  <2>2. PICK n \in 1..LbCount(k, r) : m = Lb(r, n)
    BY <2>1
  <2>3. CASE w = 1
    <3>1. to \in WinnerTo("DOUBLE", k, Lb(r, n))
      BY <1>2, <2>2, <2>3 DEF To
    <3>2. Lands("DOUBLE", k, Lb(r, n), 1, to)
      BY <3>1, WinnerWayOn
    <3>. QED
      BY <1>2, <2>2, <2>3, <3>2
  <2>4. CASE w = 2
    <3>1. m[1] = "LOSERS"
      BY <2>2 DEF Lb
    <3>. QED
      BY <1>2, <2>4, <3>1 DEF To, LoserTo
  <2>. QED
    BY <1>0, <2>3, <2>4
<1>3. CASE md = "DOUBLE" /\ m \in {Grand, GrandReset}
  <2>1. m[1] \in {"GRAND_FINAL", "GRAND_FINAL_RESET"}
    BY <1>3 DEF Grand, GrandReset
  <2>. QED
    BY <1>0, <1>3, <2>1 DEF To, WinnerTo, LoserTo
<1>4. CASE md = "SINGLE" /\ m = Bronze(k)
  <2>1. m[1] = "THIRD_PLACE" /\ m[2] = k
    BY <1>4 DEF Bronze
  <2>2. k # k - 1
    OBVIOUS
  <2>. QED
    BY <1>0, <1>4, <2>1, <2>2 DEF To, WinnerTo, LoserTo
<1>. QED
  BY <1>1, <1>2, <1>3, <1>4 DEF Spot

LEMMA OneWay ==
  ASSUME NEW md \in {"SINGLE", "DOUBLE"}, NEW k \in Nat \ {0}, NEW m, NEW w \in Ways,
         NEW p \in To(md, k, m, w), NEW q \in To(md, k, m, w)
  PROVE  p = q
<1>1. CASE w = 1
  BY <1>1 DEF To, WinnerTo
<1>2. CASE w # 1
  BY <1>2 DEF To, LoserTo
<1>. QED
  BY <1>1, <1>2

LEMMA GrandEnds ==
  ASSUME NEW md \in {"SINGLE", "DOUBLE"}, NEW k \in Nat \ {0}, NEW m \in {Grand, GrandReset}, Spot(md, k, m), NEW w \in Ways
  PROVE  To(md, k, m, w) = {} /\ md = "DOUBLE"
<1>1. m[1] \in {"GRAND_FINAL", "GRAND_FINAL_RESET"}
  BY DEF Grand, GrandReset
<1>2. md = "DOUBLE"
  <2>1. \A r \in 1..k : \A n \in 1..Power[k - r] : m # Wb(md, k, r, n)
    BY <1>1, WbIs
  <2>2. m # Bronze(k)
    BY <1>1 DEF Bronze
  <2>. QED
    BY <2>1, <2>2 DEF Spot
<1>. QED
  BY <1>1, <1>2 DEF To, WinnerTo, LoserTo

LEMMA DepthIs ==
  ASSUME NEW md \in {"SINGLE", "DOUBLE"}, NEW k \in Nat \ {0}, NEW m, Spot(md, k, m)
  PROVE  Depth(k, m) \in Nat /\ Depth(k, m) >= 2
<1>1. CASE \E r \in 1..k : \E n \in 1..Power[k - r] : m = Wb(md, k, r, n)
  <2>1. PICK r \in 1..k : \E n \in 1..Power[k - r] : m = Wb(md, k, r, n)
    BY <1>1
  <2>2. Depth(k, m) = 2 * r
    BY <2>1, WbIs
  <2>. QED
    BY <2>2
<1>2. CASE \E r \in 1..LbRounds(k) : \E n \in 1..LbCount(k, r) : m = Lb(r, n)
  <2>1. PICK r \in 1..LbRounds(k) : \E n \in 1..LbCount(k, r) : m = Lb(r, n)
    BY <1>2
  <2>2. Depth(k, m) = 2 * r + 3
    BY <2>1, LbIs
  <2>. QED
    BY <2>2 DEF LbRounds
<1>3. CASE m \in {Grand, GrandReset}
  BY <1>3 DEF Depth, Grand, GrandReset
<1>4. CASE m = Bronze(k)
  BY <1>4 DEF Depth, Bronze
<1>. QED
  BY <1>1, <1>2, <1>3, <1>4 DEF Spot

-----------------------------------------------------------------------------
(***************************************************************************)
(* The order of the tree (Rounds) holds its matches.                       *)
(***************************************************************************)
WbRow(md, k, r) == IF r > k THEN <<>> ELSE [n \in 1..Power[k - r] |-> Wb(md, k, r, n)]
LbRow(md, k, r) ==
  IF md = "SINGLE" \/ r = 0 \/ r > LbRounds(k) THEN <<>> ELSE [n \in 1..LbCount(k, r) |-> Lb(r, n)]
RowsTo(md, k) ==
  CHOOSE g : g = [r \in Nat |-> IF r = 0 THEN <<>> ELSE g[r - 1] \o WbRow(md, k, r) \o LbRow(md, k, r - 1)]
Names == {"WINNERS", "FINAL", "LOSERS", "THIRD_PLACE", "GRAND_FINAL", "GRAND_FINAL_RESET"} \X Nat \X Nat

InWb(md, k, r, m) == r <= k /\ \E n \in 1..Power[k - r] : m = Wb(md, k, r, n)
InLb(md, k, r, m) == md = "DOUBLE" /\ r \in 1..LbRounds(k) /\ \E n \in 1..LbCount(k, r) : m = Lb(r, n)
RowOf(N, S) == [1..N -> S]

LEMMA RowIs ==
  ASSUME NEW N \in Nat, NEW S, NEW s \in RowOf(N, S)
  PROVE  s \in Seq(S) /\ Len(s) = N /\ \A y : y \in RangeOf(s) <=> \E n \in 1..N : y = s[n]
<1>1. s \in [1..N -> S]
  BY DEF RowOf
<1>2. s \in Seq(S)
  BY <1>1
<1>3. Len(s) = N
  BY <1>1, <1>2, LenProperties
<1>. QED
  BY <1>2, <1>3 DEF RangeOf

LEMMA NoRow ==
  ASSUME NEW S
  PROVE  <<>> \in Seq(S) /\ RangeOf(<<>>) = {}
BY DEF RangeOf

LEMMA WbRowIs ==
  ASSUME NEW md \in {"SINGLE", "DOUBLE"}, NEW k \in Nat \ {0}, NEW r \in Nat \ {0}
  PROVE  /\ WbRow(md, k, r) \in Seq(Names)
         /\ \A m : m \in RangeOf(WbRow(md, k, r)) <=> InWb(md, k, r, m)
<1>1. CASE r > k
  BY <1>1, NoRow DEF WbRow, InWb
<1>2. CASE r <= k
  <2> DEFINE N == Power[k - r]
             s == [n \in 1..N |-> Wb(md, k, r, n)]
  <2>1. WbRow(md, k, r) = s
    BY <1>2 DEF WbRow
  <2>2. N \in Nat
    BY <1>2, PowerIs
  <2>3. \A n \in 1..N : s[n] = Wb(md, k, r, n) /\ s[n] \in Names
    BY DEF Wb, Names
  <2>4. s \in RowOf(N, Names)
    BY <2>3 DEF RowOf
  <2>. HIDE DEF s, N
  <2>5. s \in Seq(Names) /\ \A y : y \in RangeOf(s) <=> \E n \in 1..N : y = s[n]
    BY <2>2, <2>4, RowIs
  <2>. QED
    BY <1>2, <2>1, <2>3, <2>5 DEF N, InWb
<1>. QED
  BY <1>1, <1>2

LEMMA LbRowIs ==
  ASSUME NEW md \in {"SINGLE", "DOUBLE"}, NEW k \in Nat \ {0}, NEW r \in Nat
  PROVE  /\ LbRow(md, k, r) \in Seq(Names)
         /\ \A m : m \in RangeOf(LbRow(md, k, r)) <=> InLb(md, k, r, m)
<1>0. LbRounds(k) \in Nat
  BY DEF LbRounds
<1>1. CASE md = "SINGLE" \/ r = 0 \/ r > LbRounds(k)
  BY <1>0, <1>1, NoRow DEF LbRow, InLb
<1>2. CASE ~ (md = "SINGLE" \/ r = 0 \/ r > LbRounds(k))
  <2> DEFINE N == LbCount(k, r)
             s == [n \in 1..N |-> Lb(r, n)]
  <2>1. LbRow(md, k, r) = s /\ r \in 1..LbRounds(k) /\ md = "DOUBLE"
    BY <1>0, <1>2 DEF LbRow
  <2>2. N \in Nat
    <3>0. r \in Nat \ {0}
      BY <1>2
    <3>1. /\ Half(r) \in Nat
          /\ r % 2 = 1 => r + 1 = 2 * Half(r)
          /\ r % 2 # 1 => r = 2 * Half(r)
      BY <3>0, HalfIs
    <3>2. r <= 2 * (k - 1)
      BY <2>1 DEF LbRounds
    <3>3. Half(r) <= k - 1
      BY <3>1, <3>2
    <3>4. (k - 1) - Half(r) \in Nat
      BY <3>1, <3>3
    <3>. QED
      BY <3>4, PowerIs DEF LbCount
  <2>3. \A n \in 1..N : s[n] = Lb(r, n) /\ s[n] \in Names
    BY DEF Lb, Names
  <2>4. s \in RowOf(N, Names)
    BY <2>3 DEF RowOf
  <2>. HIDE DEF s, N
  <2>5. s \in Seq(Names) /\ \A y : y \in RangeOf(s) <=> \E n \in 1..N : y = s[n]
    BY <2>2, <2>4, RowIs
  <2>. QED
    BY <2>1, <2>3, <2>5 DEF N, InLb
<1>. QED
  BY <1>1, <1>2

LEMMA RowsAre ==
  ASSUME NEW md \in {"SINGLE", "DOUBLE"}, NEW k \in Nat \ {0}
  PROVE  /\ RowsTo(md, k)[0] = <<>>
         /\ \A n \in Nat : /\ RowsTo(md, k)[n] \in Seq(Names)
                           /\ RowsTo(md, k)[n + 1] = RowsTo(md, k)[n] \o WbRow(md, k, n + 1) \o LbRow(md, k, n)
<1> DEFINE X == Seq(Names)
           Row(i, y) == y \o WbRow(md, k, i) \o LbRow(md, k, i - 1)
           G == [p \in Nat \X X |-> Row(p[1] + 1, p[2])]
           run == RowsTo(md, k)
           a == <<>>
<1>1. \A i \in Nat, y \in X : G[<<i, y>>] = Row(i + 1, y) /\ G[<<i, y>>] \in X
  <2>. TAKE i \in Nat, y \in X
  <2>1. i + 1 \in Nat \ {0} /\ (i + 1) - 1 = i
    OBVIOUS
  <2>2. WbRow(md, k, i + 1) \in Seq(Names) /\ LbRow(md, k, i) \in Seq(Names)
    BY <2>1, WbRowIs, LbRowIs
  <2>3. Row(i + 1, y) \in X
    BY <2>1, <2>2, ConcatProperties
  <2>. QED
    BY <2>3
<1>2. a \in X
  OBVIOUS
<1>. HIDE DEF G, X, a, Row
<1>3. Stepping(X, G)
  BY <1>1 DEF Stepping
<1>4. PICK f : Iterates(X, a, G, f)
  BY <1>2, <1>3, Recursion
<1>5. f \in [Nat -> X] /\ f[0] = a /\ \A n \in Nat : f[n + 1] = G[<<n, f[n]>>]
  BY <1>4 DEF Iterates
<1>6. \A i \in Nat : f[i] = IF i = 0 THEN a ELSE Row(i, f[i - 1])
  <2>. TAKE i \in Nat
  <2>1. CASE i = 0
    BY <1>5, <2>1
  <2>2. CASE i # 0
    <3>1. i - 1 \in Nat /\ (i - 1) + 1 = i
      BY <2>2
    <3>2. f[i] = G[<<i - 1, f[i - 1]>>] /\ f[i - 1] \in X
      BY <1>5, <3>1
    <3>. QED
      BY <1>1, <2>2, <3>1, <3>2
  <2>. QED
    BY <2>1, <2>2
<1>7. f = [i \in Nat |-> IF i = 0 THEN a ELSE Row(i, f[i - 1])]
  <2>1. f = [i \in Nat |-> f[i]]
    BY <1>5
  <2>. QED
    BY <1>6, <2>1
<1>8. run = CHOOSE g : g = [i \in Nat |-> IF i = 0 THEN a ELSE Row(i, g[i - 1])]
  BY DEF RowsTo, Row, a
<1>. HIDE DEF run
<1>9. run = [i \in Nat |-> IF i = 0 THEN a ELSE Row(i, run[i - 1])]
  BY <1>7, <1>8
<1>10. run[0] = a
  BY <1>9
<1>11. \A n \in Nat : run[n + 1] = Row(n + 1, run[n])
  <2>. TAKE n \in Nat
  <2>1. n + 1 \in Nat /\ n + 1 # 0 /\ (n + 1) - 1 = n
    OBVIOUS
  <2>2. run[n + 1] = Row(n + 1, run[(n + 1) - 1])
    BY <1>9, <2>1
  <2>. QED
    BY <2>1, <2>2
<1> DEFINE P == {n \in Nat : run[n] \in X}
<1>12. 0 \in P
  BY <1>2, <1>10
<1>13. ASSUME NEW n \in P PROVE n + 1 \in P
  <2>1. n \in Nat /\ run[n] \in X
    OBVIOUS
  <2>2. Row(n + 1, run[n]) \in X
    BY <1>1, <2>1
  <2>. QED
    BY <1>11, <2>1, <2>2
<1>14. P = Nat
  <2>1. P \subseteq Nat
    OBVIOUS
  <2>. HIDE DEF P
  <2>. QED
    BY <1>12, <1>13, <2>1, InductionBySet
<1>15. ASSUME NEW n \in Nat
       PROVE  run[n] \in X /\ run[n + 1] = run[n] \o WbRow(md, k, n + 1) \o LbRow(md, k, n)
  <2>1. (n + 1) - 1 = n
    OBVIOUS
  <2>2. n \in P
    BY <1>14
  <2>3. run[n + 1] = run[n] \o WbRow(md, k, n + 1) \o LbRow(md, k, (n + 1) - 1)
    BY <1>11 DEF Row
  <2>. QED
    BY <2>1, <2>2, <2>3
<1>. QED
  BY <1>10, <1>15 DEF run, a, X

InRows(md, k, n, m) ==
  \/ \E r \in 1..n : m \in RangeOf(WbRow(md, k, r))
  \/ \E r \in 0..(n - 1) : m \in RangeOf(LbRow(md, k, r))

LEMMA RowsHold ==
  ASSUME NEW md \in {"SINGLE", "DOUBLE"}, NEW k \in Nat \ {0}, NEW n \in Nat
  PROVE  \A m : m \in RangeOf(RowsTo(md, k)[n]) <=> InRows(md, k, n, m)
<1> DEFINE run == RowsTo(md, k)
           P == {i \in Nat : \A m : m \in RangeOf(run[i]) <=> InRows(md, k, i, m)}
<1>. HIDE DEF run
<1>1. run[0] = <<>> /\ \A i \in Nat : run[i] \in Seq(Names) /\ run[i + 1] = run[i] \o WbRow(md, k, i + 1) \o LbRow(md, k, i)
  BY RowsAre DEF run
<1>2. 0 \in P
  <2>1. RangeOf(run[0]) = {}
    BY <1>1, NoRow
  <2>. QED
    BY <2>1 DEF InRows
<1>3. ASSUME NEW i \in P PROVE i + 1 \in P
  <2>1. i \in Nat /\ \A m : m \in RangeOf(run[i]) <=> InRows(md, k, i, m)
    OBVIOUS
  <2>2. i + 1 \in Nat \ {0}
    BY <2>1
  <2>3. WbRow(md, k, i + 1) \in Seq(Names) /\ LbRow(md, k, i) \in Seq(Names)
    BY <2>1, <2>2, WbRowIs, LbRowIs
  <2> DEFINE u == run[i] \o WbRow(md, k, i + 1)
  <2>4. u \in Seq(Names) /\ RangeOf(u) = RangeOf(run[i]) \cup RangeOf(WbRow(md, k, i + 1))
    <3>1. run[i] \in Seq(Names)
      BY <1>1, <2>1
    <3>. QED
      BY <2>3, <3>1, RangeOfConcat
  <2>5. run[i + 1] = u \o LbRow(md, k, i)
    BY <1>1, <2>1
  <2>. HIDE DEF u
  <2>6. RangeOf(run[i + 1]) = RangeOf(u) \cup RangeOf(LbRow(md, k, i))
    BY <2>3, <2>4, <2>5, RangeOfConcat
  <2>7. ASSUME NEW m
        PROVE  InRows(md, k, i + 1, m) <=>
                 InRows(md, k, i, m) \/ m \in RangeOf(WbRow(md, k, i + 1)) \/ m \in RangeOf(LbRow(md, k, i))
    <3>1. 1..(i + 1) = 1..i \cup {i + 1} /\ 0..((i + 1) - 1) = 0..(i - 1) \cup {i}
      BY <2>1
    <3>. QED
      BY <3>1 DEF InRows
  <2>. QED
    BY <2>1, <2>2, <2>4, <2>6, <2>7
<1>4. P = Nat
  <2>1. P \subseteq Nat
    OBVIOUS
  <2>. HIDE DEF P
  <2>. QED
    BY <1>2, <1>3, <2>1, InductionBySet
<1>. QED
  BY <1>4 DEF run

LEMMA RoundsHold ==
  ASSUME NEW md \in {"SINGLE", "DOUBLE"}, NEW k \in Nat \ {0}
  PROVE  Rounds(md, k) \in Seq(Names) /\ \A m : m \in RangeOf(Rounds(md, k)) <=> Spot(md, k, m)
<1> DEFINE rest == IF md = "DOUBLE" THEN <<Grand, GrandReset>> ELSE IF ThirdPlace /\ k >= 2 THEN <<Bronze(k)>> ELSE <<>>
           rows == RowsTo(md, k)[2 * k]
<1>1. Rounds(md, k) = rows \o rest
  BY DEF Rounds, RowsTo, WbRow, LbRow
<1>2. 2 * k \in Nat
  OBVIOUS
<1>3. rows \in Seq(Names) /\ \A m : m \in RangeOf(rows) <=> InRows(md, k, 2 * k, m)
  BY <1>2, RowsAre, RowsHold
<1>4. rest \in Seq(Names) /\ \A m : m \in RangeOf(rest) <=>
         \/ md = "DOUBLE" /\ m \in {Grand, GrandReset}
         \/ md = "SINGLE" /\ ThirdPlace /\ k >= 2 /\ m = Bronze(k)
  <2>1. CASE md = "DOUBLE"
    <3>1. rest = <<Grand, GrandReset>> /\ Grand \in Names /\ GrandReset \in Names
      BY <2>1 DEF Grand, GrandReset, Names
    <3>2. rest \in Seq(Names) /\ Len(rest) = 2 /\ rest[1] = Grand /\ rest[2] = GrandReset
      BY <3>1
    <3>3. 1..2 = {1, 2}
      OBVIOUS
    <3>. QED
      BY <2>1, <3>2, <3>3 DEF RangeOf
  <2>2. CASE md = "SINGLE" /\ ThirdPlace /\ k >= 2
    <3>1. rest = <<Bronze(k)>> /\ Bronze(k) \in Names
      BY <2>2 DEF Bronze, Names
    <3>2. rest \in Seq(Names) /\ Len(rest) = 1 /\ rest[1] = Bronze(k)
      <4>. HIDE DEF rest
      <4>. QED
        BY <3>1
    <3>3. 1..1 = {1}
      OBVIOUS
    <3>. QED
      BY <2>2, <3>2, <3>3 DEF RangeOf
  <2>3. CASE md = "SINGLE" /\ ~ (ThirdPlace /\ k >= 2)
    <3>1. rest = <<>>
      BY <2>3
    <3>. QED
      BY <2>3, <3>1, NoRow
  <2>. QED
    BY <2>1, <2>2, <2>3
<1>5. ASSUME NEW m
      PROVE  InRows(md, k, 2 * k, m) <=>
               \/ \E r \in 1..k : \E n \in 1..Power[k - r] : m = Wb(md, k, r, n)
               \/ md = "DOUBLE" /\ \E r \in 1..LbRounds(k) : \E n \in 1..LbCount(k, r) : m = Lb(r, n)
  <2>1. (\E r \in 1..(2 * k) : m \in RangeOf(WbRow(md, k, r))) <=> \E r \in 1..k : \E n \in 1..Power[k - r] : m = Wb(md, k, r, n)
    <3>1. \A r \in 1..(2 * k) : m \in RangeOf(WbRow(md, k, r)) <=> InWb(md, k, r, m)
      <4>. TAKE r \in 1..(2 * k)
      <4>1. r \in Nat \ {0}
        OBVIOUS
      <4>. QED
        BY <4>1, WbRowIs
    <3>2. \A r : r \in 1..(2 * k) /\ r <= k <=> r \in 1..k
      OBVIOUS
    <3>. QED
      BY <3>1, <3>2 DEF InWb
  <2>2. (\E r \in 0..(2 * k - 1) : m \in RangeOf(LbRow(md, k, r))) <=>
          md = "DOUBLE" /\ \E r \in 1..LbRounds(k) : \E n \in 1..LbCount(k, r) : m = Lb(r, n)
    <3>1. \A r \in 0..(2 * k - 1) : m \in RangeOf(LbRow(md, k, r)) <=> InLb(md, k, r, m)
      <4>. TAKE r \in 0..(2 * k - 1)
      <4>1. r \in Nat
        OBVIOUS
      <4>. QED
        BY <4>1, LbRowIs
    <3>2. \A r : r \in 0..(2 * k - 1) /\ r \in 1..LbRounds(k) <=> r \in 1..LbRounds(k)
      BY DEF LbRounds
    <3>. QED
      BY <3>1, <3>2 DEF InLb
  <2>. QED
    BY <2>1, <2>2 DEF InRows
<1>. HIDE DEF rest, rows
<1>6. rows \o rest \in Seq(Names) /\ RangeOf(rows \o rest) = RangeOf(rows) \cup RangeOf(rest)
  BY <1>3, <1>4, RangeOfConcat, ConcatProperties
<1>. QED
  BY <1>1, <1>3, <1>4, <1>5, <1>6 DEF Spot

-----------------------------------------------------------------------------
(***************************************************************************)
(* The trees of Bracket are trees.                                         *)
(***************************************************************************)
Exits(md, k, ids) == [m \in ids |-> <<WinnerTo(md, k, m), LoserTo(md, k, m)>>]
Deep(k, ids) == [m \in ids |-> Depth(k, m)]

LEMMA RoundsWired ==
  ASSUME NEW md \in {"SINGLE", "DOUBLE"}, NEW k \in Nat \ {0}
  PROVE  LET ids == RangeOf(Rounds(md, k))
         IN Wired(ids, Rounds(md, k), Exits(md, k, ids), Deep(k, ids))
<1> DEFINE order == Rounds(md, k)
           ids == RangeOf(order)
           out == Exits(md, k, ids)
           rank == Deep(k, ids)
<1>1. order \in Seq(Names) /\ \A m : m \in ids <=> Spot(md, k, m)
  BY RoundsHold
<1>2. order \in Seq(ids)
  <2>1. DOMAIN order = 1..Len(order) /\ Len(order) \in Nat /\ order \in [1..Len(order) -> Names]
    BY <1>1, LenProperties
  <2>2. \A i \in 1..Len(order) : order[i] \in ids
    BY DEF RangeOf
  <2>3. order \in [1..Len(order) -> ids]
    <3>. HIDE DEF order, ids
    <3>. QED
      BY <2>1, <2>2
  <2>. HIDE DEF order, ids
  <2>. QED
    BY <2>1, <2>3
<1>3. \A m \in ids, w \in Ways : Way(out, m, w) = To(md, k, m, w)
  BY DEF Way, Exits, To, Ways
<1>4. \A m \in ids : rank[m] = Depth(k, m)
  BY DEF Deep
<1>5. rank \in [ids -> Nat]
  <2>1. \A m \in ids : Depth(k, m) \in Nat
    BY <1>1, DepthIs
  <2>. QED
    BY <2>1 DEF Deep
<1>. HIDE DEF order, ids, out, rank
<1>6. ASSUME NEW m \in ids, NEW w \in Ways, NEW to \in Way(out, m, w)
      PROVE  Lands(md, k, m, w, to) /\ to \in ids \X Ways
  <2>1. Spot(md, k, m) /\ to \in To(md, k, m, w)
    BY <1>1, <1>3
  <2>2. Lands(md, k, m, w, to)
    BY <2>1, EveryWayLands
  <2>3. to[1] \in ids /\ to[2] \in Ways /\ to = <<to[1], to[2]>>
    BY <1>1, <2>2 DEF Lands
  <2>. QED
    BY <2>2, <2>3
<1>7. ASSUME NEW m \in ids, NEW w \in Ways
      PROVE  /\ \A to \in Way(out, m, w) : to \in ids \X Ways /\ to[1] # GrandReset /\ rank[m] < rank[to[1]]
             /\ \A to, at \in Way(out, m, w) : to = at
             /\ m \in {Grand, GrandReset} => Way(out, m, w) = {}
  <2>1. ASSUME NEW to \in Way(out, m, w)
        PROVE  to \in ids \X Ways /\ to[1] # GrandReset /\ rank[m] < rank[to[1]]
    <3>1. Lands(md, k, m, w, to) /\ to \in ids \X Ways
      BY <1>6
    <3>2. to[1] \in ids
      BY <3>1
    <3>3. rank[m] = Depth(k, m) /\ rank[to[1]] = Depth(k, to[1])
      BY <1>4, <3>2
    <3>. QED
      BY <3>1, <3>3 DEF Lands
  <2>2. \A to, at \in Way(out, m, w) : to = at
    BY <1>3, OneWay
  <2>3. m \in {Grand, GrandReset} => Way(out, m, w) = {}
    BY <1>1, <1>3, GrandEnds
  <2>. QED
    BY <2>1, <2>2, <2>3
<1>8. ASSUME NEW f \in ids \X Ways, NEW g \in ids \X Ways, NEW to, to \in Way(out, f[1], f[2]), to \in Way(out, g[1], g[2])
      PROVE  f = g
  <2>1. f[1] \in ids /\ f[2] \in Ways /\ f = <<f[1], f[2]>> /\ g[1] \in ids /\ g[2] \in Ways /\ g = <<g[1], g[2]>>
    OBVIOUS
  <2>0. \A m \in ids, w \in Ways : to \in Way(out, m, w) => Lands(md, k, m, w, to)
    BY <1>6
  <2>2. Lands(md, k, f[1], f[2], to)
    BY <1>8, <2>0, <2>1
  <2>3. Lands(md, k, g[1], g[2], to)
    BY <1>8, <2>0, <2>1
  <2>. QED
    BY <2>1, <2>2, <2>3 DEF Lands
<1>9. ASSUME Grand \in ids PROVE GrandReset \in ids /\ rank[Grand] < rank[GrandReset]
  <2>1. Spot(md, k, Grand)
    BY <1>1, <1>9
  <2>2. md = "DOUBLE"
    <3>1. 1 \in Ways /\ Grand \in {Grand, GrandReset}
      BY DEF Ways
    <3>. QED
      BY <2>1, <3>1, GrandEnds
  <2>3. GrandReset \in ids
    BY <1>1, <2>2 DEF Spot
  <2>4. Depth(k, Grand) = 4 * k + 10 /\ Depth(k, GrandReset) = 4 * k + 11
    BY DEF Depth, Grand, GrandReset
  <2>. QED
    BY <1>4, <1>9, <2>3, <2>4
<1>10. ids = RangeOf(order)
  BY DEF ids
<1>11. Wired(ids, order, out, rank)
  BY <1>2, <1>5, <1>7, <1>8, <1>9, <1>10 DEF Wired
<1>. QED
  BY <1>11 DEF order, ids, out, rank

RankOf(md, k) == Deep(k, RangeOf(Rounds(md, k)))

LEMMA KnownShape ==
  ASSUME NEW md \in Modes, NEW k \in Sizes, NEW w
  PROVE  /\ Shape(Known(md, k, w), RankOf(md, k)) /\ Deepens(Known(md, k, w), RankOf(md, k))
         /\ \A m : m \in Ids(Known(md, k, w)) <=> Spot(md, k, m)
         /\ \A m \in Ids(Known(md, k, w)), v \in Ways : Out(Known(md, k, w), m, v) = To(md, k, m, v)
         /\ Known(md, k, w).gone = w
         /\ Known(md, k, w).tree = Tree[md][k] /\ Tree[md][k].order = Rounds(md, k)
<1> DEFINE order == Rounds(md, k)
           ids == RangeOf(order)
           out == Exits(md, k, ids)
           rank == Deep(k, ids)
           x == [tree |-> Linked(order, out), gone |-> w]
<1>0. md \in {"SINGLE", "DOUBLE"} /\ k \in Nat \ {0}
  BY BoundAssumption DEF Sizes
<1>1. Wired(ids, order, out, rank)
  BY <1>0, RoundsWired
<1>2. order \in Seq(Names) /\ \A m : m \in ids <=> Spot(md, k, m)
  BY <1>0, RoundsHold
<1>3. {order[i] : i \in DOMAIN order} = ids
  <2>1. DOMAIN order = 1..Len(order)
    BY <1>2, LenProperties
  <2>. QED
    BY <2>1 DEF RangeOf
<1>4. Tree[md][k] = Linked(order, out)
  <2> DEFINE I == {order[i] : i \in DOMAIN order}
  <2>1. Tree[md][k] = Linked(order, Exits(md, k, I))
    BY DEF Tree, Exits
  <2>2. I = ids
    BY <1>3
  <2>. HIDE DEF I, ids
  <2>. QED
    BY <2>1, <2>2
<1>5. Known(md, k, w) = x
  BY <1>4 DEF Known
<1>6. out = [m \in ids |-> out[m]]
  BY DEF Exits
<1>7. \A m \in ids, v \in Ways : Way(out, m, v) = To(md, k, m, v)
  BY DEF Way, Exits, To, Ways
<1>. HIDE DEF order, ids, out, rank
<1>8. Shape(x, rank) /\ Deepens(x, rank)
  BY <1>1, <1>6, LinkedShape
<1>9. /\ Ids(x) = ids /\ x.tree.order = order /\ x.gone = w
      /\ \A m \in ids, v \in Ways : Out(x, m, v) = Way(out, m, v)
  BY <1>1, <1>6, LinkedIs
<1>10. x.tree = Tree[md][k]
  BY <1>4
<1>. HIDE DEF x
<1>. QED
  BY <1>2, <1>5, <1>7, <1>8, <1>9, <1>10 DEF RankOf, rank, ids, order

-----------------------------------------------------------------------------
(***************************************************************************)
(* The size of the bracket, and the order in which its places are filled.  *)
(***************************************************************************)
LEMMA PowerGrows == \A n \in Nat : Power[n] > n
<1> DEFINE P == {n \in Nat : Power[n] > n}
<1>1. 0 \in P
  BY PowerIs
<1>2. ASSUME NEW n \in P PROVE n + 1 \in P
  <2>1. n \in Nat /\ Power[n] > n
    OBVIOUS
  <2>2. Power[n + 1] = 2 * Power[n] /\ Power[n] \in Nat
    BY <2>1, PowerIs
  <2>3. Power[n + 1] > n + 1
    BY <2>1, <2>2
  <2>. QED
    BY <2>1, <2>3
<1>3. P = Nat
  <2>1. P \subseteq Nat
    OBVIOUS
  <2>. HIDE DEF P
  <2>. QED
    BY <1>1, <1>2, <2>1, InductionBySet
<1>. QED
  BY <1>3

LEMMA SizeForIs ==
  ASSUME NEW n \in 2..MaxTeams
  PROVE  LET k == SizeFor(n)
         IN k \in Sizes /\ k \in Nat \ {0} /\ Power[k] >= n /\ Power[k - 1] < n
<1>0. MaxTeams \in Nat \ {0, 1} /\ n \in Nat
  BY BoundAssumption
<1> DEFINE S == {k \in Nat \ {0} : Power[k] >= n}
<1>1. n \in S
  BY <1>0, PowerGrows, PowerIs
<1>2. PICK k \in S : \A j \in S : k <= j
  <2>1. S \subseteq Nat /\ S # {}
    BY <1>1
  <2>. HIDE DEF S
  <2>. QED
    BY <2>1, LeastNumber
<1>3. k \in Nat \ {0} /\ Power[k] >= n /\ k <= n
  BY <1>1, <1>2
<1>4. k = 1 \/ Power[k - 1] < n
  <2>1. CASE k = 1
    BY <2>1
  <2>2. CASE k # 1
    <3>1. k - 1 \in Nat \ {0}
      BY <1>3, <2>2
    <3>2. k - 1 \notin S
      BY <1>2, <1>3
    <3>3. Power[k - 1] \in Nat
      BY <3>1, PowerIs
    <3>4. ~ (Power[k - 1] >= n)
      BY <3>1, <3>2
    <3>. QED
      BY <1>0, <3>3, <3>4
  <2>. QED
    BY <2>1, <2>2
<1>5. k \in Sizes
  <2>1. k \in 1..MaxTeams
    BY <1>0, <1>3
  <2>2. k = 1 \/ Power[k - 1] < MaxTeams
    <3>1. CASE k = 1
      BY <3>1
    <3>2. CASE k # 1
      <4>1. k - 1 \in Nat
        BY <1>3
      <4>2. Power[k - 1] \in Nat /\ Power[k - 1] < n
        BY <1>4, <3>2, <4>1, PowerIs
      <4>. QED
        BY <1>0, <4>2
    <3>. QED
      BY <3>1, <3>2
  <2>. QED
    BY <2>1, <2>2 DEF Sizes
<1> DEFINE z == SizeFor(n)
<1>6. z \in Sizes /\ Power[z] >= n /\ (z = 1 \/ Power[z - 1] < n)
  BY <1>3, <1>4, <1>5 DEF SizeFor
<1>7. z \in Nat \ {0}
  BY <1>0, <1>6 DEF Sizes
<1>8. Power[z - 1] < n
  <2>1. CASE z = 1
    <3>1. z - 1 = 0 /\ Power[0] = 1
      BY <2>1, PowerIs
    <3>. QED
      BY <3>1
  <2>2. CASE z # 1
    BY <1>6, <2>2
  <2>. QED
    BY <2>1, <2>2
<1>. QED
  BY <1>6, <1>7, <1>8

\* What is said of the order of 2^k places.
Ordered(k, o) ==
  /\ o \in [1..Power[k] -> 1..Power[k]]
  /\ \A i, j \in 1..Power[k] : o[i] = o[j] => i = j
  /\ \A n \in 1..Power[k - 1] : o[2 * n - 1] \in 1..Power[k - 1] /\ o[2 * n] = Power[k] + 1 - o[2 * n - 1]
  /\ o[1] = 1 /\ (k > 1 => o[3] = Power[k - 1])
  /\ \A v \in 1..Power[k] : \E i \in 1..Power[k] : o[i] = v
Doubled(k, o) ==
  IF k <= 1 THEN <<1, 2>>
  ELSE [i \in 1..Power[k] |-> IF i % 2 = 1 THEN o[Half(i)] ELSE Power[k] + 1 - o[Half(i)]]

LEMMA FirstOrder == Ordered(1, <<1, 2>>)
<1>1. Power[0] = 1 /\ Power[1] = 2
  BY PowerIs
<1>2. 1..2 = {1, 2} /\ 1..1 = {1}
  OBVIOUS
<1> DEFINE o == <<1, 2>>
<1>3. o[1] = 1 /\ o[2] = 2 /\ o = [i \in 1..2 |-> o[i]]
  OBVIOUS
<1>. HIDE DEF o
<1>4. o \in [1..2 -> 1..2]
  BY <1>2, <1>3
<1>5. Ordered(1, o)
  BY <1>1, <1>2, <1>3, <1>4 DEF Ordered
<1>. QED
  BY <1>5 DEF o

LEMMA OddEven ==
  ASSUME NEW n \in Nat \ {0}
  PROVE  /\ Half(2 * n - 1) = n /\ (2 * n - 1) % 2 = 1 /\ Half(2 * n) = n /\ (2 * n) % 2 = 0
         /\ Side(2 * n - 1) = 1 /\ Side(2 * n) = 2
<1>1. (2 * n - 1) % 2 = 1 /\ (2 * n) % 2 = 0
  OBVIOUS
<1>2. ((2 * n - 1) + 1) \div 2 = n /\ (2 * n + 1) \div 2 = n
  OBVIOUS
<1>. QED
  BY <1>1, <1>2 DEF Half, Side

LEMMA OrderDoubles ==
  ASSUME NEW k \in Nat \ {0, 1}, NEW o, Ordered(k - 1, o)
  PROVE  Ordered(k, Doubled(k, o))
<1> DEFINE P == Power[k]
           H == Power[k - 1]
           d == Doubled(k, o)
<1>0. k - 1 \in Nat \ {0} /\ P = 2 * H /\ P \in Nat \ {0} /\ H \in Nat \ {0}
  BY PowerAt
<1>1. /\ o \in [1..H -> 1..H]
      /\ \A i, j \in 1..H : o[i] = o[j] => i = j
      /\ \A n \in 1..Power[k - 1 - 1] : o[2 * n] = H + 1 - o[2 * n - 1]
      /\ o[1] = 1
  BY DEF Ordered
<1>a. \A v \in 1..H : \E i \in 1..H : o[i] = v
  BY DEF Ordered
<1>2. \A i \in 1..P : d[i] = IF i % 2 = 1 THEN o[Half(i)] ELSE P + 1 - o[Half(i)]
  BY DEF Doubled
<1>3. d = [i \in 1..P |-> d[i]]
  <2> DEFINE e == [i \in 1..P |-> IF i % 2 = 1 THEN o[Half(i)] ELSE P + 1 - o[Half(i)]]
  <2>1. d = e
    BY DEF Doubled
  <2>2. e = [i \in 1..P |-> e[i]]
    OBVIOUS
  <2>. HIDE DEF d, e, P
  <2>. QED
    BY <2>1, <2>2
<1>. HIDE DEF d, P, H
<1>4. ASSUME NEW i \in 1..P
      PROVE  Half(i) \in 1..H /\ o[Half(i)] \in 1..H /\ i = 2 * Half(i) - 2 + Side(i) /\ Side(i) \in {1, 2} /\ (Side(i) = 1 <=> i % 2 = 1)
  <2>1. i \in Nat \ {0}
    BY <1>0
  <2>2. Half(i) \in Nat \ {0} /\ Side(i) \in {1, 2} /\ i = 2 * Half(i) - 2 + Side(i)
    BY <2>1, HalfIs
  <2>3. Side(i) = 1 <=> i % 2 = 1
    BY DEF Side
  <2>4. Half(i) \in 1..H
    BY <1>0, <2>1, <2>2
  <2>. QED
    BY <1>1, <2>2, <2>3, <2>4
<1>5. ASSUME NEW i \in 1..P
      PROVE  /\ d[i] \in 1..P
             /\ i % 2 = 1 <=> d[i] <= H
  <2>1. o[Half(i)] \in 1..H
    BY <1>4
  <2>2. CASE i % 2 = 1
    BY <1>0, <1>2, <2>1, <2>2
  <2>3. CASE i % 2 # 1
    <3>1. d[i] = P + 1 - o[Half(i)]
      BY <1>2, <2>3
    <3>. QED
      BY <1>0, <2>1, <2>3, <3>1
  <2>. QED
    BY <2>2, <2>3
<1>6. d \in [1..P -> 1..P]
  BY <1>3, <1>5
<1>7. ASSUME NEW i \in 1..P, NEW j \in 1..P, d[i] = d[j]
      PROVE  i = j
  <2>1. i % 2 = 1 <=> j % 2 = 1
    BY <1>5, <1>7
  <2>2. o[Half(i)] \in 1..H /\ o[Half(j)] \in 1..H
    BY <1>4
  <2>3. o[Half(i)] = o[Half(j)]
    <3>1. CASE i % 2 = 1
      BY <1>2, <1>7, <2>1, <3>1
    <3>2. CASE i % 2 # 1
      <4>1. d[i] = P + 1 - o[Half(i)] /\ d[j] = P + 1 - o[Half(j)]
        BY <1>2, <2>1, <3>2
      <4>2. P + 1 - o[Half(i)] = P + 1 - o[Half(j)]
        BY <1>7, <4>1
      <4>3. \A u, v \in 1..H : P + 1 - u = P + 1 - v => u = v
        BY <1>0
      <4>. QED
        BY <2>2, <4>2, <4>3
    <3>. QED
      BY <3>1, <3>2
  <2>4. Half(i) = Half(j)
    BY <1>1, <1>4, <2>3
  <2>5. Side(i) = Side(j)
    BY <2>1 DEF Side
  <2>6. i = 2 * Half(i) - 2 + Side(i) /\ j = 2 * Half(j) - 2 + Side(j)
    BY <1>4
  <2>. QED
    BY <2>4, <2>5, <2>6
<1>8. ASSUME NEW n \in 1..H
      PROVE  d[2 * n - 1] = o[n] /\ d[2 * n] = P + 1 - o[n] /\ o[n] \in 1..H
  <2>1. n \in Nat \ {0} /\ 2 * n - 1 \in 1..P /\ 2 * n \in 1..P
    BY <1>0
  <2>2. /\ Half(2 * n - 1) = n /\ (2 * n - 1) % 2 = 1 /\ Half(2 * n) = n /\ (2 * n) % 2 = 0
    BY <2>1, OddEven
  <2>3. d[2 * n - 1] = IF (2 * n - 1) % 2 = 1 THEN o[Half(2 * n - 1)] ELSE P + 1 - o[Half(2 * n - 1)]
    BY <1>2, <2>1
  <2>4. d[2 * n] = IF (2 * n) % 2 = 1 THEN o[Half(2 * n)] ELSE P + 1 - o[Half(2 * n)]
    BY <1>2, <2>1
  <2>. QED
    BY <1>1, <2>2, <2>3, <2>4
<1>9. d[1] = 1 /\ d[3] = H
  <2>1. 1 \in 1..H /\ 2 * 1 - 1 = 1 /\ d[2 * 1 - 1] = o[1]
    BY <1>0, <1>8
  <2>2. k - 1 - 1 \in Nat
    BY <1>0
  <2>3. Power[k - 1 - 1] \in Nat \ {0} /\ H = 2 * Power[k - 1 - 1]
    BY <1>0, PowerAt DEF H
  <2>4. 1 \in 1..Power[k - 1 - 1] /\ 2 \in 1..H
    BY <2>3
  <2>5. o[2] = H
    <3>1. o[2 * 1] = H + 1 - o[2 * 1 - 1]
      BY <1>1, <2>4
    <3>2. 2 * 1 = 2 /\ 2 * 1 - 1 = 1
      OBVIOUS
    <3>. QED
      BY <1>0, <1>1, <3>1, <3>2
  <2>6. 2 * 2 - 1 = 3 /\ d[2 * 2 - 1] = o[2]
    BY <1>8, <2>4
  <2>. QED
    BY <1>1, <2>1, <2>5, <2>6
<1>10. \A n \in 1..H : d[2 * n - 1] \in 1..H /\ d[2 * n] = P + 1 - d[2 * n - 1]
  BY <1>8
<1>11. ASSUME NEW v \in 1..P
       PROVE  \E i \in 1..P : d[i] = v
  <2>1. CASE v <= H
    <3>1. PICK n \in 1..H : o[n] = v
      BY <1>a, <2>1
    <3>2. d[2 * n - 1] = v /\ 2 * n - 1 \in 1..P
      BY <1>0, <1>8, <3>1
    <3>. QED
      BY <3>2
  <2>2. CASE ~ (v <= H)
    <3>1. P + 1 - v \in 1..H
      BY <1>0, <2>2
    <3>2. PICK n \in 1..H : o[n] = P + 1 - v
      BY <1>a, <3>1
    <3>3. d[2 * n] = P + 1 - (P + 1 - v) /\ 2 * n \in 1..P
      BY <1>0, <1>8, <3>2
    <3>4. P + 1 - (P + 1 - v) = v
      BY <1>0
    <3>. QED
      BY <3>3, <3>4
  <2>. QED
    BY <2>1, <2>2
<1>12. Ordered(k, d)
  BY <1>6, <1>7, <1>9, <1>10, <1>11 DEF Ordered, P, H
<1>. QED
  BY <1>12 DEF d

LEMMA SeedOrderIs == \A k \in Nat \ {0} : Ordered(k, SeedOrder[k])
<1> DEFINE X == UNION {[1..Power[k] -> 1..Power[k]] : k \in Nat}
           G == [p \in Nat \X X |-> IF p[1] = 0 \/ ~ Ordered(p[1], p[2]) THEN <<1, 2>> ELSE Doubled(p[1] + 1, p[2])]
           run == SeedOrder
           a == <<1, 2>>
<1>1. \A k \in Nat : \A o : Ordered(k, o) => o \in X
  BY DEF Ordered
<1>2. a \in X
  BY <1>1, FirstOrder
<1>3. \A i \in Nat, y \in X :
        G[<<i, y>>] = IF i = 0 \/ ~ Ordered(i, y) THEN a ELSE Doubled(i + 1, y)
  OBVIOUS
<1>. HIDE DEF G, X, a
<1>4. Stepping(X, G)
  <2>1. ASSUME NEW i \in Nat, NEW y \in X PROVE G[<<i, y>>] \in X
    <3>1. CASE i = 0 \/ ~ Ordered(i, y)
      BY <1>2, <1>3, <3>1
    <3>2. CASE ~ (i = 0 \/ ~ Ordered(i, y))
      <4>1. i + 1 \in Nat \ {0, 1} /\ (i + 1) - 1 = i
        BY <3>2
      <4>2. Ordered((i + 1) - 1, y)
        BY <3>2, <4>1
      <4>3. Ordered(i + 1, Doubled(i + 1, y))
        BY <4>1, <4>2, OrderDoubles
      <4>. QED
        BY <1>1, <1>3, <3>2, <4>1, <4>3
    <3>. QED
      BY <3>1, <3>2
  <2>. QED
    BY <2>1 DEF Stepping
<1>5. PICK f : Iterates(X, a, G, f)
  BY <1>2, <1>4, Recursion
<1>6. f \in [Nat -> X] /\ f[0] = a /\ \A n \in Nat : f[n + 1] = G[<<n, f[n]>>]
  BY <1>5 DEF Iterates
<1>7. f[1] = a
  <2>1. f[0 + 1] = G[<<0, f[0]>>] /\ 0 + 1 = 1 /\ f[0] \in X
    BY <1>6
  <2>. QED
    BY <1>3, <2>1
<1> DEFINE Q == {n \in Nat : Ordered(n + 1, f[n + 1])}
<1>8. 0 \in Q
  <2>1. 0 + 1 = 1
    OBVIOUS
  <2>. QED
    BY <1>7, <2>1, FirstOrder DEF a
<1>9. ASSUME NEW n \in Q PROVE n + 1 \in Q
  <2>1. n \in Nat /\ Ordered(n + 1, f[n + 1])
    OBVIOUS
  <2> DEFINE i == n + 1
  <2>2. i \in Nat \ {0} /\ i + 1 \in Nat \ {0, 1} /\ (i + 1) - 1 = i
    BY <2>1
  <2>3. f[i + 1] = G[<<i, f[i]>>] /\ f[i] \in X /\ Ordered(i, f[i])
    BY <1>6, <2>1, <2>2
  <2>. HIDE DEF i
  <2>4. f[i + 1] = Doubled(i + 1, f[i])
    BY <1>3, <2>2, <2>3
  <2>5. Ordered((i + 1) - 1, f[i])
    BY <2>2, <2>3
  <2>6. Ordered(i + 1, Doubled(i + 1, f[i]))
    BY <2>2, <2>5, OrderDoubles
  <2>. QED
    BY <2>1, <2>4, <2>6 DEF i
<1>10. Q = Nat
  <2>1. Q \subseteq Nat
    OBVIOUS
  <2>. HIDE DEF Q
  <2>. QED
    BY <1>8, <1>9, <2>1, InductionBySet
<1>11. \A k \in Nat \ {0} : Ordered(k, f[k])
  <2>. TAKE k \in Nat \ {0}
  <2>1. k - 1 \in Nat /\ (k - 1) + 1 = k
    OBVIOUS
  <2>2. k - 1 \in Q
    BY <1>10, <2>1
  <2>. QED
    BY <2>1, <2>2
<1>12. \A k \in Nat : f[k] = Doubled(k, f[k - 1])
  <2>. TAKE k \in Nat
  <2>1. CASE k <= 1
    <3>1. k = 0 \/ k = 1
      BY <2>1
    <3>2. f[k] = a
      BY <1>6, <1>7, <3>1
    <3>. QED
      BY <2>1, <3>2 DEF a, Doubled
  <2>2. CASE ~ (k <= 1)
    <3>1. k - 1 \in Nat \ {0} /\ (k - 1) + 1 = k
      BY <2>2
    <3>2. f[k] = G[<<k - 1, f[k - 1]>>] /\ f[k - 1] \in X /\ Ordered(k - 1, f[k - 1])
      BY <1>6, <1>11, <3>1
    <3>. QED
      BY <1>3, <3>1, <3>2
  <2>. QED
    BY <2>1, <2>2
<1>13. f = [k \in Nat |-> Doubled(k, f[k - 1])]
  <2>1. f = [k \in Nat |-> f[k]]
    BY <1>6
  <2>. QED
    BY <1>12, <2>1
<1>14. run = CHOOSE g : g = [k \in Nat |-> Doubled(k, g[k - 1])]
  BY DEF SeedOrder, Doubled
<1>. HIDE DEF run
<1>15. run = [k \in Nat |-> Doubled(k, run[k - 1])]
  BY <1>13, <1>14
<1> DEFINE R == {n \in Nat : run[n] = f[n]}
<1>16. 0 \in R
  <2>1. run[0] = Doubled(0, run[0 - 1])
    BY <1>15
  <2>. QED
    BY <1>6, <2>1 DEF Doubled, a
<1>17. ASSUME NEW n \in R PROVE n + 1 \in R
  <2>1. n \in Nat /\ run[n] = f[n] /\ n + 1 \in Nat /\ (n + 1) - 1 = n
    OBVIOUS
  <2>2. run[n + 1] = Doubled(n + 1, run[(n + 1) - 1]) /\ f[n + 1] = Doubled(n + 1, f[(n + 1) - 1])
    BY <1>12, <1>15, <2>1
  <2>. QED
    BY <2>1, <2>2
<1>18. R = Nat
  <2>1. R \subseteq Nat
    OBVIOUS
  <2>. HIDE DEF R
  <2>. QED
    BY <1>16, <1>17, <2>1, InductionBySet
<1>. QED
  BY <1>11, <1>18 DEF run

-----------------------------------------------------------------------------
(***************************************************************************)
(* The teams that are drawn: each active team once.                        *)
(***************************************************************************)
LineTo == CHOOSE g : g = [i \in 0..MaxTeams |-> IF i = 0 THEN <<>>
                                             ELSE IF i \in entered \ withdrawn THEN Append(g[i - 1], i) ELSE g[i - 1]]
Line(A, i, s) ==
  /\ s \in Seq(Teams) /\ Len(s) <= i
  /\ \A j \in 1..Len(s) : s[j] \in A /\ s[j] <= i
  /\ \A j, l \in 1..Len(s) : s[j] = s[l] => j = l
  /\ \A t \in A : t <= i => \E j \in 1..Len(s) : s[j] = t

LEMMA LineGrows ==
  ASSUME NEW A \in SUBSET Teams, NEW i \in Nat \ {0}, i \in Teams, NEW s, Line(A, i - 1, s)
  PROVE  (i \notin A => Line(A, i, s)) /\ (i \in A => Line(A, i, Append(s, i)))
<1>1. /\ s \in Seq(Teams) /\ Len(s) <= i - 1 /\ Len(s) \in Nat
      /\ \A j \in 1..Len(s) : s[j] \in A /\ s[j] <= i - 1 /\ s[j] \in Nat
      /\ \A j, l \in 1..Len(s) : s[j] = s[l] => j = l
  <2>1. s \in Seq(Teams) /\ Len(s) <= i - 1 /\ \A j \in 1..Len(s) : s[j] \in A /\ s[j] <= i - 1
    BY DEF Line
  <2>2. \A j \in 1..Len(s) : s[j] \in Teams
    BY <2>1, ElementOfSeq
  <2>. QED
    BY <2>1, <2>2, LenProperties, BoundAssumption DEF Line, Teams
<1>a. /\ \A t \in A : t <= i - 1 => \E j \in 1..Len(s) : s[j] = t
      /\ \A t \in A : t <= i => t = i \/ t <= i - 1
  BY BoundAssumption DEF Line, Teams
<1>2. ASSUME i \notin A PROVE Line(A, i, s)
  BY <1>1, <1>2, <1>a DEF Line
<1>3. ASSUME i \in A PROVE Line(A, i, Append(s, i))
  <2> DEFINE t == Append(s, i)
  <2>1. t \in Seq(Teams) /\ Len(t) = Len(s) + 1 /\ t[Len(s) + 1] = i /\ \A j \in 1..Len(s) : t[j] = s[j]
    BY <1>1, AppendProperties
  <2>. HIDE DEF t
  <2>2. \A j \in 1..Len(t) : j \in 1..Len(s) \/ j = Len(s) + 1
    BY <1>1, <2>1
  <2>3. \A j \in 1..Len(s) : t[j] # i
    BY <1>1, <2>1
  <2>4. \A j \in 1..Len(t) : t[j] \in A /\ t[j] <= i
    BY <1>1, <1>3, <2>1, <2>2
  <2>5. ASSUME NEW j \in 1..Len(t), NEW l \in 1..Len(t), t[j] = t[l]
        PROVE  j = l
    BY <1>1, <2>1, <2>2, <2>3, <2>5
  <2>x. ASSUME NEW v \in A, v <= i PROVE \E j \in 1..Len(t) : t[j] = v
    <3>1. CASE v = i
      <4>1. Len(s) + 1 \in 1..Len(t)
        BY <1>1, <2>1
      <4>. QED
        BY <2>1, <3>1, <4>1
    <3>2. CASE v # i
      <4>1. PICK j \in 1..Len(s) : s[j] = v
        BY <1>a, <2>x, <3>2
      <4>2. j \in 1..Len(t)
        BY <1>1, <2>1
      <4>. QED
        BY <2>1, <4>1, <4>2
    <3>. QED
      BY <3>1, <3>2
  <2>6. Line(A, i, t)
    BY <1>1, <2>1, <2>4, <2>5, <2>x DEF Line
  <2>. QED
    BY <2>6 DEF t
<1>. QED
  BY <1>2, <1>3

LEMMA LineupIs ==
  ASSUME entered \in SUBSET Teams
  PROVE  Line(entered \ withdrawn, MaxTeams, Lineup)
<1> DEFINE A == entered \ withdrawn
           L == MaxTeams
           X == Seq(Teams)
           Body(i, y) == IF i \in A THEN Append(y, i) ELSE y
           G == [p \in Nat \X X |-> IF p[1] \in Teams THEN Body(p[1], p[2]) ELSE p[2]]
           run == LineTo
           a == <<>>
<1>0. /\ L \in Nat /\ (\A i \in 1..L : i \in Teams) /\ A \in SUBSET Teams
      /\ \A t \in A : ~ (t <= 0)
  <2>1. L \in Nat /\ \A i \in 1..L : i \in Teams
    BY BoundAssumption DEF Teams
  <2>2. \A t \in Teams : ~ (t <= 0)
    BY <2>1 DEF Teams
  <2>. QED
    BY <2>1, <2>2
<1>1. \A i \in Nat, y \in X : G[<<i, y>>] = (IF i \in Teams THEN Body(i, y) ELSE y) /\ G[<<i, y>>] \in X
  <2>. TAKE i \in Nat, y \in X
  <2>1. i \in Teams => Append(y, i) \in X
    BY AppendProperties
  <2>. QED
    BY <2>1
<1>2. a \in X
  OBVIOUS
<1>. HIDE DEF G, X, a, A, L, Body
<1>3. Stepping(X, G)
  BY <1>1 DEF Stepping
<1>4. PICK f : IteratesTo(X, a, L, G, f)
  BY <1>0, <1>2, <1>3, RecursionTo
<1>5. f \in [0..L -> X] /\ f[0] = a /\ \A i \in 1..L : f[i] = G[<<i, f[i - 1]>>]
  BY <1>4 DEF IteratesTo
<1>6. \A i \in 0..L : f[i] = IF i = 0 THEN a ELSE Body(i, f[i - 1])
  <2>. TAKE i \in 0..L
  <2>1. CASE i = 0
    BY <1>5, <2>1
  <2>2. CASE i # 0
    <3>1. i \in 1..L /\ i - 1 \in 0..L /\ i \in Nat
      BY <1>0, <2>2
    <3>2. f[i] = G[<<i, f[i - 1]>>] /\ f[i - 1] \in X /\ i \in Teams
      BY <1>0, <1>5, <3>1
    <3>. QED
      BY <1>1, <2>2, <3>1, <3>2
  <2>. QED
    BY <2>1, <2>2
<1>7. f = [i \in 0..L |-> IF i = 0 THEN a ELSE Body(i, f[i - 1])]
  <2>1. f = [i \in 0..L |-> f[i]]
    BY <1>5
  <2>. QED
    BY <1>6, <2>1
<1>8. run = CHOOSE g : g = [i \in 0..L |-> IF i = 0 THEN a ELSE Body(i, g[i - 1])]
  BY DEF LineTo, Body, A, L, a
<1>9. Lineup = run[L]
  BY DEF Lineup, LineTo, L
<1>. HIDE DEF run
<1>10. run = [i \in 0..L |-> IF i = 0 THEN a ELSE Body(i, run[i - 1])]
  BY <1>7, <1>8
<1> DEFINE P == {i \in Nat : i <= L => Line(A, i, run[i])}
<1>11. 0 \in P
  <2>1. 0 \in 0..L
    BY <1>0
  <2>2. run[0] = a
    BY <1>10, <2>1
  <2>3. Len(a) = 0 /\ 1..0 = {}
    BY DEF a
  <2>4. Line(A, 0, a)
    BY <1>0, <1>2, <2>3 DEF Line, X
  <2>. QED
    BY <2>2, <2>4
<1>12. ASSUME NEW n \in P PROVE n + 1 \in P
  <2>1. n \in Nat /\ n + 1 \in Nat \ {0} /\ (n + 1) - 1 = n
    OBVIOUS
  <2>2. SUFFICES ASSUME n + 1 <= L PROVE Line(A, n + 1, run[n + 1])
    BY <2>1
  <2>3. n + 1 \in 1..L /\ n + 1 \in 0..L /\ n <= L /\ n + 1 \in Teams
    BY <1>0, <2>1, <2>2
  <2>4. Line(A, (n + 1) - 1, run[n])
    BY <2>1, <2>3
  <2>5. run[n + 1] = Body(n + 1, run[n])
    BY <1>10, <2>1, <2>3
  <2>6. /\ n + 1 \notin A => Line(A, n + 1, run[n])
        /\ n + 1 \in A => Line(A, n + 1, Append(run[n], n + 1))
    BY <1>0, <2>1, <2>3, <2>4, LineGrows
  <2>. QED
    BY <2>5, <2>6 DEF Body
<1>13. P = Nat
  <2>1. P \subseteq Nat
    OBVIOUS
  <2>. HIDE DEF P
  <2>. QED
    BY <1>11, <1>12, <2>1, InductionBySet
<1>14. L \in P /\ L <= L
  BY <1>0, <1>13
<1>15. Line(A, L, run[L])
  BY <1>14
<1>. QED
  BY <1>9, <1>15 DEF A, L

-----------------------------------------------------------------------------
(***************************************************************************)
(* The first round: every place of the draw holds its team.                *)
(***************************************************************************)
Drawn(md, k, A, teams) ==
  /\ md \in Modes /\ k \in Sizes /\ A \subseteq Teams
  /\ Line(A, MaxTeams, teams) /\ Len(teams) >= 2 /\ Power[k - 1] < Len(teams) /\ Len(teams) <= Power[k]
Place(k, teams, i) == IF SeedOrder[k][i] <= Len(teams) THEN teams[SeedOrder[k][i]] ELSE NoTeam
First(md, k, m) == \E n \in 1..Power[k - 1] : m = Wb(md, k, 1, n)

LEMMA PlaceIs ==
  ASSUME NEW md, NEW k, NEW A, NEW teams, Drawn(md, k, A, teams)
  PROVE  /\ k \in Nat \ {0} /\ Power[k] = 2 * Power[k - 1] /\ Power[k - 1] \in Nat \ {0} /\ NoTeam \notin A
         /\ \A i \in 1..Power[k] : Place(k, teams, i) \in A \cup {NoTeam}
         /\ \A i, j \in 1..Power[k] : Place(k, teams, i) = Place(k, teams, j) /\ Place(k, teams, i) # NoTeam => i = j
         /\ \A n \in 1..Power[k - 1] : Place(k, teams, 2 * n - 1) \in A
         /\ \E n \in 1..Power[k - 1] : Place(k, teams, 2 * n) \in A
         /\ \A t \in A : \E i \in 1..Power[k] : Place(k, teams, i) = t
<1> DEFINE o == SeedOrder[k]
           P == Power[k]
           H == Power[k - 1]
           N == Len(teams)
<1>1. k \in Nat \ {0}
  BY BoundAssumption DEF Drawn, Sizes
<1>2. P = 2 * H /\ P \in Nat \ {0} /\ H \in Nat \ {0}
  BY <1>1, PowerAt
<1>3. NoTeam \notin A
  BY DEF Drawn, Teams, NoTeam
<1>4. Ordered(k, o)
  BY <1>1, SeedOrderIs
<1>5. /\ \A i \in 1..P : o[i] \in 1..P
      /\ \A i, j \in 1..P : o[i] = o[j] => i = j
      /\ \A n \in 1..H : o[2 * n - 1] \in 1..H /\ o[2 * n] = P + 1 - o[2 * n - 1]
      /\ o[1] = 1 /\ (k > 1 => o[3] = H)
      /\ \A v \in 1..P : \E i \in 1..P : o[i] = v
  BY <1>4 DEF Ordered
<1>6. N \in Nat /\ N >= 2 /\ H < N /\ N <= P
  BY LenProperties DEF Drawn, Line
<1>7. (\A j \in 1..N : teams[j] \in A) /\ \A j, l \in 1..N : teams[j] = teams[l] => j = l
  BY DEF Drawn, Line
<1>a. \A t \in A : \E j \in 1..N : teams[j] = t
  BY BoundAssumption DEF Drawn, Line, Teams
<1>8. \A i : Place(k, teams, i) = IF o[i] <= N THEN teams[o[i]] ELSE NoTeam
  BY DEF Place
<1>. HIDE DEF o, P, H, N
<1>9. \A i \in 1..P : o[i] <= N => o[i] \in 1..N /\ Place(k, teams, i) = teams[o[i]] /\ Place(k, teams, i) \in A
  BY <1>2, <1>5, <1>6, <1>7, <1>8
<1>10. \A i \in 1..P : Place(k, teams, i) # NoTeam => o[i] <= N
  BY <1>8
<1>11. \A i \in 1..P : Place(k, teams, i) \in A \cup {NoTeam}
  BY <1>8, <1>9
<1>12. ASSUME NEW i \in 1..P, NEW j \in 1..P, Place(k, teams, i) = Place(k, teams, j), Place(k, teams, i) # NoTeam
       PROVE  i = j
  <2>1. o[i] \in 1..N /\ o[j] \in 1..N /\ teams[o[i]] = teams[o[j]]
    BY <1>9, <1>10, <1>12
  <2>2. o[i] = o[j]
    BY <1>7, <2>1
  <2>. QED
    BY <1>5, <2>2
<1>13. ASSUME NEW n \in 1..H PROVE Place(k, teams, 2 * n - 1) \in A
  <2>1. 2 * n - 1 \in 1..P /\ o[2 * n - 1] <= N
    BY <1>2, <1>5, <1>6
  <2>. QED
    BY <1>9, <2>1
<1>14. \E n \in 1..H : Place(k, teams, 2 * n) \in A
  <2>1. CASE k = 1
    <3>1. H = 1 /\ P = 2
      BY <1>2, <2>1, PowerIs DEF H
    <3>2. 1 \in 1..H /\ 2 * 1 - 1 = 1 /\ 2 * 1 \in 1..P
      BY <3>1
    <3>3. o[2 * 1] = P + 1 - o[2 * 1 - 1]
      BY <1>5, <3>2
    <3>4. o[2 * 1] <= N
      BY <1>5, <1>6, <3>1, <3>2, <3>3
    <3>. QED
      BY <1>9, <3>2, <3>4
  <2>2. CASE k # 1
    <3>1. k > 1 /\ k - 1 \in Nat \ {0}
      BY <1>1, <2>2
    <3>2. H = 2 * Power[k - 1 - 1] /\ Power[k - 1 - 1] \in Nat \ {0}
      BY <3>1, PowerAt DEF H
    <3>3. 2 \in 1..H /\ 2 * 2 - 1 = 3 /\ 2 * 2 \in 1..P
      BY <1>2, <3>2
    <3>4. o[2 * 2] = P + 1 - o[2 * 2 - 1]
      BY <1>5, <3>3
    <3>5. o[2 * 2] <= N
      BY <1>2, <1>5, <1>6, <3>1, <3>3, <3>4
    <3>. QED
      BY <1>9, <3>3, <3>5
  <2>. QED
    BY <2>1, <2>2
<1>15. ASSUME NEW t \in A PROVE \E i \in 1..P : Place(k, teams, i) = t
  <2>1. PICK j \in 1..N : teams[j] = t
    BY <1>a
  <2>2. j \in 1..P /\ j <= N
    BY <1>2, <1>6
  <2>3. PICK i \in 1..P : o[i] = j
    BY <1>5, <2>2
  <2>. QED
    BY <1>8, <2>1, <2>2, <2>3
<1>. QED
  BY <1>1, <1>2, <1>3, <1>11, <1>12, <1>13, <1>14, <1>15 DEF P, H

PairOf(t, u) == [Open EXCEPT !.team = <<t, u>>]
ByeOf(t, u) == Over(PairOf(t, u), "BYE", t, NoTeam)
ReadyOf(t, u) == [PairOf(t, u) EXCEPT !.status = "READY"]

LEMMA FirstRoundIs ==
  ASSUME NEW md, NEW k, NEW A, NEW teams, Drawn(md, k, A, teams), NEW w
  PROVE  LET b == FirstRound(md, k, teams)
             x == Known(md, k, w)
         IN /\ b = [m \in DOMAIN b |-> b[m]]
            /\ \A m : m \in DOMAIN b <=> m \in Ids(x) /\ m # GrandReset
            /\ \A m \in DOMAIN b : ~ First(md, k, m) => b[m] = Open
            /\ \A n \in 1..Power[k - 1] :
                 LET m == Wb(md, k, 1, n)
                     t == Place(k, teams, 2 * n - 1)
                     u == Place(k, teams, 2 * n)
                 IN m \in DOMAIN b /\ b[m] = IF u = NoTeam THEN ByeOf(t, u) ELSE ReadyOf(t, u)
<1> DEFINE b == FirstRound(md, k, teams)
           x == Known(md, k, w)
           pair(n) == [Open EXCEPT !.team = <<Place(k, teams, 2 * n - 1), Place(k, teams, 2 * n)>>]
           order == Tree[md][k].order
           ids == {order[i] : i \in DOMAIN order} \ {GrandReset}
           body(m) == IF m \notin {Wb(md, k, 1, n) : n \in 1..Power[k - 1]} THEN Open
                      ELSE IF pair(m[3]).team[2] = NoTeam
                      THEN Over(pair(m[3]), "BYE", pair(m[3]).team[1], NoTeam)
                      ELSE [pair(m[3]) EXCEPT !.status = "READY"]
<1>0. md \in Modes /\ k \in Sizes /\ k \in Nat \ {0}
  BY BoundAssumption DEF Drawn, Sizes
<1>1. b = [m \in ids |-> body(m)]
  BY DEF FirstRound, Place
<1>2. order = Rounds(md, k) /\ \A m : m \in Ids(x) <=> Spot(md, k, m)
  BY <1>0, KnownShape
<1>3. order \in Seq(Names) /\ \A m : m \in RangeOf(order) <=> Spot(md, k, m)
  <2>1. md \in {"SINGLE", "DOUBLE"}
    BY <1>0, BoundAssumption
  <2>. QED
    BY <1>0, <1>2, <2>1, RoundsHold
<1>4. \A m : m \in ids <=> m \in Ids(x) /\ m # GrandReset
  <2>1. DOMAIN order = 1..Len(order)
    BY <1>3, LenProperties
  <2>2. {order[i] : i \in DOMAIN order} = RangeOf(order)
    BY <2>1 DEF RangeOf
  <2>. HIDE DEF order, x
  <2>. QED
    BY <1>2, <1>3, <2>2
<1>. HIDE DEF b, ids, x
<1>5. DOMAIN b = ids /\ \A m \in ids : b[m] = body(m)
  <2>. HIDE DEF body
  <2>. QED
    BY <1>1
<1>6. \A m \in DOMAIN b : ~ First(md, k, m) => b[m] = Open
  BY <1>5 DEF First
<1>7. ASSUME NEW n \in 1..Power[k - 1]
      PROVE  LET m == Wb(md, k, 1, n)
                 t == Place(k, teams, 2 * n - 1)
                 u == Place(k, teams, 2 * n)
             IN m \in DOMAIN b /\ b[m] = IF u = NoTeam THEN ByeOf(t, u) ELSE ReadyOf(t, u)
  <2> DEFINE m == Wb(md, k, 1, n)
  <2>1. m[3] = n /\ m # GrandReset
    BY WbIs
  <2>2. 1 \in 1..k
    BY <1>0
  <2>3. Spot(md, k, m)
    BY <2>2 DEF Spot
  <2>4. m \in ids
    BY <1>2, <1>4, <2>1, <2>3
  <2>5. m \in {Wb(md, k, 1, j) : j \in 1..Power[k - 1]}
    OBVIOUS
  <2>6. pair(n).team[1] = Place(k, teams, 2 * n - 1) /\ pair(n).team[2] = Place(k, teams, 2 * n)
    BY DEF Open
  <2>. HIDE DEF m
  <2>7. b[m] = IF pair(n).team[2] = NoTeam
               THEN Over(pair(n), "BYE", pair(n).team[1], NoTeam)
               ELSE [pair(n) EXCEPT !.status = "READY"]
    BY <1>5, <2>1, <2>4, <2>5
  <2>. HIDE DEF pair
  <2>8. b[m] = IF Place(k, teams, 2 * n) = NoTeam THEN Over(pair(n), "BYE", Place(k, teams, 2 * n - 1), NoTeam)
               ELSE [pair(n) EXCEPT !.status = "READY"]
    BY <2>6, <2>7
  <2>. QED
    BY <1>5, <2>4, <2>8 DEF pair, m, PairOf, ByeOf, ReadyOf
<1>8. b = [m \in DOMAIN b |-> b[m]]
  <2>. HIDE DEF body
  <2>. QED
    BY <1>1, <1>5
<1>. QED
  BY <1>4, <1>5, <1>6, <1>7, <1>8 DEF b, x

\* What the first round is made of: its matches hold the teams A, the others are open.
Opening(md, k, A, b) ==
  /\ b = [m \in DOMAIN b |-> b[m]]
  /\ \A m \in DOMAIN b :
       /\ b[m] \in Records(A) /\ Fair(b[m]) /\ b[m].loser = NoTeam /\ b[m].status # "IN_PROGRESS"
       /\ Completed(b, m) => b[m].kind = "BYE" /\ b[m].winner \in A /\ b[m].winner = At(b, m, 1) /\ At(b, m, 2) = NoTeam
       /\ ~ Completed(b, m) => b[m].kind = "PLAYED" /\ b[m].winner = NoTeam
       /\ ~ First(md, k, m) => At(b, m, 1) = NoTeam /\ At(b, m, 2) = NoTeam /\ ~ Completed(b, m)

LEMMA OpenIs ==
  ASSUME NEW A, NoTeam \notin A, NEW t \in A, NEW u \in A \cup {NoTeam}
  PROVE  LET bye == ByeOf(t, u)
             ready == ReadyOf(t, u)
         IN /\ Open \in Records(A) /\ Fair(Open) /\ Open.winner = NoTeam /\ Open.loser = NoTeam /\ Open.kind = "PLAYED"
            /\ Open.status = "PENDING" /\ Open.team[1] = NoTeam /\ Open.team[2] = NoTeam
            /\ u = NoTeam => bye \in Records(A) /\ Fair(bye)
            /\ bye.loser = NoTeam /\ bye.winner = t /\ bye.kind = "BYE" /\ bye.status = "COMPLETED"
            /\ bye.team[1] = t /\ bye.team[2] = u
            /\ ready \in Records(A) /\ Fair(ready) /\ ready.winner = NoTeam /\ ready.loser = NoTeam
            /\ ready.kind = "PLAYED" /\ ready.status = "READY" /\ ready.team[1] = t /\ ready.team[2] = u
<1> DEFINE pair == PairOf(t, u)
           bye == Over(pair, "BYE", t, NoTeam)
           ready == [pair EXCEPT !.status = "READY"]
<1>1. /\ Open \in Records(A) /\ Fair(Open) /\ Open.winner = NoTeam /\ Open.loser = NoTeam /\ Open.kind = "PLAYED"
      /\ Open.status = "PENDING" /\ Open.team[1] = NoTeam /\ Open.team[2] = NoTeam
  BY DEF Open, Records, Places, Fair
<1>2. /\ pair \in Records(A) /\ pair.team = <<t, u>> /\ pair.winner = NoTeam /\ pair.loser = NoTeam
      /\ pair.kind = "PLAYED"
  BY DEF Open, Records, Places, PairOf
<1>. HIDE DEF pair
<1>3. /\ bye \in Records(A) /\ bye.team = <<t, u>> /\ bye.status = "COMPLETED"
      /\ bye.kind = "BYE" /\ bye.winner = t /\ bye.loser = NoTeam
  <2>1. "BYE" \in Kinds /\ t \in Places(A) /\ NoTeam \in Places(A)
    BY DEF Kinds, Places
  <2>2. pair.team = <<t, u>>
    BY <1>2
  <2>. QED
    BY <1>2, <2>1, <2>2, OverIs
<1>4. /\ ready \in Records(A) /\ ready.team = <<t, u>> /\ ready.winner = NoTeam /\ ready.loser = NoTeam
      /\ ready.kind = "PLAYED" /\ ready.status = "READY"
  BY <1>2 DEF Records
<1>. HIDE DEF bye, ready
<1>5. /\ u = NoTeam => bye \in Records(A) /\ Fair(bye)
      /\ bye.loser = NoTeam /\ bye.winner = t /\ bye.kind = "BYE" /\ bye.status = "COMPLETED"
      /\ bye.team[1] = t /\ bye.team[2] = u
  BY <1>3 DEF Fair
<1>6. /\ ready \in Records(A) /\ Fair(ready) /\ ready.winner = NoTeam /\ ready.loser = NoTeam
      /\ ready.kind = "PLAYED" /\ ready.status = "READY" /\ ready.team[1] = t /\ ready.team[2] = u
  BY <1>4 DEF Fair
<1>. QED
  BY <1>1, <1>5, <1>6 DEF pair, bye, ready, ByeOf, ReadyOf

LEMMA FirstRoundOpens ==
  ASSUME NEW md, NEW k, NEW A, NEW teams, Drawn(md, k, A, teams), NEW w
  PROVE  LET b == FirstRound(md, k, teams)
             x == Known(md, k, w)
         IN /\ Opening(md, k, A, b)
            /\ \A m : m \in DOMAIN b <=> m \in Ids(x) /\ m # GrandReset
            /\ \A n \in 1..Power[k - 1] :
                 LET m == Wb(md, k, 1, n)
                 IN /\ m \in DOMAIN b
                    /\ At(b, m, 1) = Place(k, teams, 2 * n - 1) /\ At(b, m, 2) = Place(k, teams, 2 * n)
                    /\ Completed(b, m) => At(b, m, 2) = NoTeam
<1> DEFINE b == FirstRound(md, k, teams)
           x == Known(md, k, w)
           p(i) == Place(k, teams, i)
<1>1. /\ b = [m \in DOMAIN b |-> b[m]]
      /\ \A m : m \in DOMAIN b <=> m \in Ids(x) /\ m # GrandReset
      /\ \A m \in DOMAIN b : ~ First(md, k, m) => b[m] = Open
      /\ \A n \in 1..Power[k - 1] :
           LET m == Wb(md, k, 1, n)
               t == p(2 * n - 1)
               u == p(2 * n)
           IN m \in DOMAIN b /\ b[m] = IF u = NoTeam THEN ByeOf(t, u) ELSE ReadyOf(t, u)
  BY FirstRoundIs
<1>2. /\ k \in Nat \ {0} /\ Power[k] = 2 * Power[k - 1] /\ Power[k - 1] \in Nat \ {0} /\ NoTeam \notin A
      /\ \A i \in 1..Power[k] : p(i) \in A \cup {NoTeam}
      /\ \A n \in 1..Power[k - 1] : p(2 * n - 1) \in A
  BY PlaceIs
<1>. HIDE DEF b, x, p
<1>3. \A n \in 1..Power[k - 1] : 2 * n \in 1..Power[k]
  BY <1>2
<1> DEFINE Good(m) ==
       /\ b[m] \in Records(A) /\ Fair(b[m]) /\ b[m].loser = NoTeam /\ b[m].status # "IN_PROGRESS"
       /\ Completed(b, m) => b[m].kind = "BYE" /\ b[m].winner \in A /\ b[m].winner = At(b, m, 1) /\ At(b, m, 2) = NoTeam
       /\ ~ Completed(b, m) => b[m].kind = "PLAYED" /\ b[m].winner = NoTeam
<1>4. ASSUME NEW n \in 1..Power[k - 1]
      PROVE  LET m == Wb(md, k, 1, n)
             IN /\ m \in DOMAIN b /\ Good(m)
                /\ At(b, m, 1) = p(2 * n - 1) /\ At(b, m, 2) = p(2 * n)
                /\ Completed(b, m) => At(b, m, 2) = NoTeam
  <2> DEFINE m == Wb(md, k, 1, n)
             t == p(2 * n - 1)
             u == p(2 * n)
             bye == ByeOf(t, u)
             ready == ReadyOf(t, u)
  <2>1. m \in DOMAIN b /\ b[m] = IF u = NoTeam THEN bye ELSE ready
    BY <1>1
  <2>2. t \in A /\ u \in A \cup {NoTeam}
    BY <1>2, <1>3
  <2>. HIDE DEF m, t, u
  <2>3. /\ u = NoTeam => bye \in Records(A) /\ Fair(bye)
        /\ bye.loser = NoTeam /\ bye.winner = t /\ bye.kind = "BYE" /\ bye.status = "COMPLETED"
        /\ bye.team[1] = t /\ bye.team[2] = u
        /\ ready \in Records(A) /\ Fair(ready) /\ ready.winner = NoTeam /\ ready.loser = NoTeam
        /\ ready.kind = "PLAYED" /\ ready.status = "READY" /\ ready.team[1] = t /\ ready.team[2] = u
    BY <1>2, <2>2, OpenIs
  <2>. HIDE DEF bye, ready
  <2>4. Good(m) /\ At(b, m, 1) = t /\ At(b, m, 2) = u /\ (Completed(b, m) => At(b, m, 2) = NoTeam)
    <3>1. CASE u = NoTeam
      BY <2>1, <2>2, <2>3, <3>1 DEF Completed, At
    <3>2. CASE u # NoTeam
      BY <2>1, <2>2, <2>3, <3>2 DEF Completed, At
    <3>. QED
      BY <3>1, <3>2
  <2>. QED
    BY <2>1, <2>4 DEF m, t, u
<1>5. ASSUME NEW m \in DOMAIN b
      PROVE  Good(m) /\ (~ First(md, k, m) => At(b, m, 1) = NoTeam /\ At(b, m, 2) = NoTeam /\ ~ Completed(b, m))
  <2>1. CASE First(md, k, m)
    <3>1. PICK n \in 1..Power[k - 1] : m = Wb(md, k, 1, n)
      BY <2>1 DEF First
    <3>2. Good(Wb(md, k, 1, n))
      BY <1>4
    <3>. HIDE DEF Good
    <3>. QED
      BY <2>1, <3>1, <3>2
  <2>2. CASE ~ First(md, k, m)
    <3>1. b[m] = Open
      BY <1>1, <2>2
    <3>2. PICK t : t \in A
      <4>1. 1 \in 1..Power[k - 1]
        BY <1>2
      <4>. QED
        BY <1>2, <4>1
    <3>3. /\ Open \in Records(A) /\ Fair(Open) /\ Open.winner = NoTeam /\ Open.loser = NoTeam /\ Open.kind = "PLAYED"
          /\ Open.status = "PENDING" /\ Open.team[1] = NoTeam /\ Open.team[2] = NoTeam
      BY <1>2, <3>2, OpenIs
    <3>. QED
      BY <3>1, <3>3 DEF Completed, At
  <2>. QED
    BY <2>1, <2>2
<1>6. Opening(md, k, A, b)
  <2>. HIDE DEF Good
  <2>1. b = [m \in DOMAIN b |-> b[m]]
    BY <1>1
  <2>2. \A m \in DOMAIN b : Good(m) /\ (~ First(md, k, m) => At(b, m, 1) = NoTeam /\ At(b, m, 2) = NoTeam /\ ~ Completed(b, m))
    BY <1>5
  <2>. QED
    BY <2>1, <2>2 DEF Opening, Good
<1>. QED
  BY <1>1, <1>4, <1>6 DEF b, x, p

-----------------------------------------------------------------------------
(***************************************************************************)
(* The byes move on.                                                       *)
(***************************************************************************)
Arrives(md, k, b, m, s) ==
  {b[f].winner : f \in {g \in DOMAIN b : b[g].kind = "BYE" /\ <<m, s>> \in Tree[md][k].out[g][1]}}
Arrived(md, k, b, m) ==
  [s \in {1, 2} |-> IF Arrives(md, k, b, m, s) = {} THEN b[m].team[s] ELSE CHOOSE t \in Arrives(md, k, b, m, s) : TRUE]

LEMMA ArrivesIs ==
  ASSUME NEW md \in Modes, NEW k \in Sizes, NEW w, NEW b, NEW m, NEW s
  PROVE  \A v : v \in Arrives(md, k, b, m, s) <=>
           \E g \in DOMAIN b : b[g].kind = "BYE" /\ <<m, s>> \in Out(Known(md, k, w), g, 1) /\ v = b[g].winner
BY DEF Arrives, Out, Known

LEMMA PairIs ==
  ASSUME NEW S, NEW f, f = [s \in {1, 2} |-> f[s]], f[1] \in S, f[2] \in S
  PROVE  f \in S \X S
<1>1. 1..2 = {1, 2}
  OBVIOUS
<1>2. f = <<f[1], f[2]>>
  BY <1>1
<1>. QED
  BY <1>2

LEMMA ByesMovedIs ==
  ASSUME NEW md \in Modes, NEW k \in Sizes, NEW A, NEW b, Opening(md, k, A, b),
         \A m \in DOMAIN b, s \in Ways : Arrives(md, k, b, m, s) \subseteq A
  PROVE  LET c == ByesMoved(md, k, b)
         IN /\ DOMAIN c = DOMAIN b /\ c = [m \in DOMAIN c |-> c[m]]
            /\ \A m \in DOMAIN b :
                 /\ c[m] \in Records(A) /\ c[m].winner = b[m].winner /\ c[m].loser = b[m].loser /\ c[m].kind = b[m].kind
                 /\ Completed(c, m) <=> Completed(b, m)
                 /\ c[m].status # "IN_PROGRESS"
                 /\ \A s \in Ways : At(c, m, s) = Arrived(md, k, b, m)[s]
<1> DEFINE c == ByesMoved(md, k, b)
           body(m) ==
             [b[m] EXCEPT !.team = Arrived(md, k, b, m),
                          !.status = IF md = "DOUBLE" /\ b[m].status = "PENDING"
                                        /\ NoTeam \notin {Arrived(md, k, b, m)[1], Arrived(md, k, b, m)[2]}
                                     THEN "READY" ELSE b[m].status]
<1>1. c = [m \in DOMAIN b |-> body(m)]
  BY DEF ByesMoved, Arrives, Arrived
<1>2. ASSUME NEW m \in DOMAIN b
      PROVE  Arrived(md, k, b, m) \in Places(A) \X Places(A)
  <2> DEFINE f == Arrived(md, k, b, m)
  <2>1. f = [s \in {1, 2} |-> f[s]]
    BY DEF Arrived
  <2>2. b[m] \in Records(A)
    BY DEF Opening
  <2>3. b[m].team \in Places(A) \X Places(A)
    BY <2>2 DEF Records
  <2>4. b[m].team[1] \in Places(A) /\ b[m].team[2] \in Places(A)
    BY <2>3
  <2>5. ASSUME NEW s \in {1, 2} PROVE f[s] \in Places(A)
    <3>1. f[s] = IF Arrives(md, k, b, m, s) = {} THEN b[m].team[s] ELSE CHOOSE t \in Arrives(md, k, b, m, s) : TRUE
      BY DEF Arrived
    <3>2. CASE Arrives(md, k, b, m, s) = {}
      BY <2>4, <3>1, <3>2
    <3>3. CASE Arrives(md, k, b, m, s) # {}
      <4>1. f[s] \in Arrives(md, k, b, m, s)
        BY <3>1, <3>3
      <4>. QED
        BY <4>1 DEF Places, Ways
    <3>. QED
      BY <3>2, <3>3
  <2>6. f[1] \in Places(A) /\ f[2] \in Places(A)
    BY <2>5
  <2>. HIDE DEF f
  <2>7. f \in Places(A) \X Places(A)
    BY <2>1, <2>6, PairIs
  <2>. QED
    BY <2>7 DEF f
<1>3. ASSUME NEW m \in DOMAIN b
      PROVE  /\ body(m) \in Records(A) /\ body(m).winner = b[m].winner /\ body(m).loser = b[m].loser /\ body(m).kind = b[m].kind
             /\ body(m).team = Arrived(md, k, b, m)
             /\ body(m).status = "COMPLETED" <=> b[m].status = "COMPLETED"
             /\ body(m).status # "IN_PROGRESS"
  <2> DEFINE r == b[m]
             v == Arrived(md, k, b, m)
             st == IF md = "DOUBLE" /\ b[m].status = "PENDING" /\ NoTeam \notin {v[1], v[2]}
                   THEN "READY" ELSE b[m].status
  <2>1. r \in Records(A)
    BY DEF Opening
  <2>2. v \in Places(A) \X Places(A)
    BY <1>2
  <2>3. /\ st \in {"PENDING", "READY", "IN_PROGRESS", "COMPLETED"} /\ st # "IN_PROGRESS"
        /\ st = "COMPLETED" <=> r.status = "COMPLETED"
    BY <2>1 DEF Records, Opening
  <2>4. body(m) = [r EXCEPT !.team = v, !.status = st]
    OBVIOUS
  <2>. HIDE DEF r, v, st, body
  <2>. QED
    BY <2>1, <2>2, <2>3, <2>4 DEF Records, r, v
<1>. HIDE DEF body, c
<1>4. DOMAIN c = DOMAIN b /\ (\A m \in DOMAIN b : c[m] = body(m)) /\ c = [m \in DOMAIN c |-> c[m]]
  BY <1>1
<1>5. ASSUME NEW m \in DOMAIN b
      PROVE  /\ c[m] \in Records(A) /\ c[m].winner = b[m].winner /\ c[m].loser = b[m].loser /\ c[m].kind = b[m].kind
             /\ Completed(c, m) <=> Completed(b, m)
             /\ c[m].status # "IN_PROGRESS"
             /\ \A s \in Ways : At(c, m, s) = Arrived(md, k, b, m)[s]
  <2>1. c[m] = body(m)
    BY <1>4
  <2>. QED
    BY <1>3, <2>1 DEF Completed, At
<1>. QED
  BY <1>4, <1>5 DEF c

LEMMA GeneratedSound ==
  ASSUME NEW md, NEW k, NEW E \in SUBSET Teams, NEW w \in SUBSET E, NEW teams, Drawn(md, k, E \ w, teams)
  PROVE  LET x == Known(md, k, w)
             c == ByesMoved(md, k, FirstRound(md, k, teams))
         IN /\ World(x, RankOf(md, k), E) /\ Sound(x, E, c, {}) /\ Told(x, E, c)
            /\ \E m \in DOMAIN c : ~ Completed(c, m) /\ Own(c, m) \cap (x.gone \cup {NoTeam}) = {}
            /\ \A m \in DOMAIN c : c[m].status # "IN_PROGRESS"
<1> DEFINE x == Known(md, k, w)
           rank == RankOf(md, k)
           b == FirstRound(md, k, teams)
           c == ByesMoved(md, k, b)
           A == E \ w
<1>0. md \in Modes /\ k \in Sizes /\ md \in {"SINGLE", "DOUBLE"} /\ k \in Nat \ {0}
  BY BoundAssumption DEF Drawn, Sizes
<1>1. /\ Shape(x, rank)
      /\ \A m : m \in Ids(x) <=> Spot(md, k, m)
      /\ \A m \in Ids(x), v \in Ways : Out(x, m, v) = To(md, k, m, v)
      /\ x.gone = w
  BY <1>0, KnownShape
<1>2. /\ Opening(md, k, A, b)
      /\ \A m : m \in DOMAIN b <=> m \in Ids(x) /\ m # GrandReset
      /\ \A n \in 1..Power[k - 1] :
           LET m == Wb(md, k, 1, n)
           IN /\ m \in DOMAIN b
              /\ At(b, m, 1) = Place(k, teams, 2 * n - 1) /\ At(b, m, 2) = Place(k, teams, 2 * n)
              /\ Completed(b, m) => At(b, m, 2) = NoTeam
  BY FirstRoundOpens
<1>3. \A m, s : \A v : v \in Arrives(md, k, b, m, s) <=>
           \E g \in DOMAIN b : b[g].kind = "BYE" /\ <<m, s>> \in Out(x, g, 1) /\ v = b[g].winner
  BY <1>0, ArrivesIs
<1>4. World(x, rank, E)
  BY <1>1 DEF World, Teams, NoTeam
<1>. HIDE DEF x, rank, b
<1>5. \A m \in DOMAIN b : b[m].kind = "BYE" => Completed(b, m) /\ b[m].winner \in A
  BY <1>2 DEF Opening
<1>6. ASSUME NEW m \in DOMAIN b, NEW s \in Ways
      PROVE  Arrives(md, k, b, m, s) \subseteq A
  <2>1. ASSUME NEW u \in Arrives(md, k, b, m, s) PROVE u \in A
    <3>1. \E g \in DOMAIN b : b[g].kind = "BYE" /\ <<m, s>> \in Out(x, g, 1) /\ u = b[g].winner
      BY <1>3, <2>1
    <3>. QED
      BY <1>5, <3>1
  <2>. QED
    BY <2>1
<1>7. /\ DOMAIN c = DOMAIN b /\ c = [m \in DOMAIN c |-> c[m]]
      /\ \A m \in DOMAIN b :
           /\ c[m] \in Records(A) /\ c[m].winner = b[m].winner /\ c[m].loser = b[m].loser /\ c[m].kind = b[m].kind
           /\ Completed(c, m) <=> Completed(b, m)
           /\ c[m].status # "IN_PROGRESS"
           /\ \A s \in Ways : At(c, m, s) = Arrived(md, k, b, m)[s]
  BY <1>0, <1>2, <1>6, ByesMovedIs
<1>8. \A m \in DOMAIN b : \A s \in Ways :
        /\ Arrives(md, k, b, m, s) = {} => At(c, m, s) = At(b, m, s)
        /\ Arrives(md, k, b, m, s) # {} => At(c, m, s) \in Arrives(md, k, b, m, s)
  <2>. TAKE m \in DOMAIN b
  <2>. TAKE s \in Ways
  <2>1. Arrived(md, k, b, m)[s] =
          IF Arrives(md, k, b, m, s) = {} THEN b[m].team[s] ELSE CHOOSE t \in Arrives(md, k, b, m, s) : TRUE
    BY DEF Arrived, Ways
  <2>. QED
    BY <1>7, <2>1 DEF At
<1>. HIDE DEF c
\* What a way leads to.
<1>9. ASSUME NEW f \in DOMAIN b, NEW v \in Ways, NEW to \in Out(x, f, v)
      PROVE  to[1] \in DOMAIN b /\ to[2] \in Ways /\ to = <<to[1], to[2]>> /\ ~ First(md, k, to[1])
  <2>1. f \in Ids(x)
    BY <1>2
  <2>2. to \in SlotsOf(x) /\ to[1] # GrandReset
    BY <1>1, <2>1 DEF Shape, Leads
  <2>3. to[1] \in Ids(x) /\ to[2] \in Ways /\ to = <<to[1], to[2]>>
    BY <2>2 DEF SlotsOf
  <2>4. Spot(md, k, f) /\ to \in To(md, k, f, v)
    BY <1>1, <2>1
  <2>5. Lands(md, k, f, v, to)
    BY <1>0, <2>4, EveryWayLands
  <2>6. Depth(k, f) \in Nat /\ Depth(k, f) >= 2 /\ Depth(k, f) < Depth(k, to[1])
    BY <1>0, <2>4, <2>5, DepthIs DEF Lands
  <2>7. ~ First(md, k, to[1])
    <3>1. SUFFICES ASSUME First(md, k, to[1]) PROVE FALSE
      OBVIOUS
    <3>2. PICK n \in 1..Power[k - 1] : to[1] = Wb(md, k, 1, n)
      BY <3>1 DEF First
    <3>3. Depth(k, to[1]) = 2 * 1
      BY <3>2, WbIs
    <3>. QED
      BY <2>6, <3>3
  <2>. QED
    BY <1>2, <2>2, <2>3, <2>7
<1>10. ASSUME NEW f \in DOMAIN b, NEW v \in Ways, NEW to \in Out(x, f, v),
              NEW g \in DOMAIN b, to \in Out(x, g, 1)
       PROVE  f = g /\ v = 1
  <2>1. f \in Ids(x) /\ g \in Ids(x) /\ 1 \in Ways
    BY <1>2 DEF Ways
  <2>2. to[1] \in Ids(x) /\ to[2] \in Ways
    BY <1>2, <1>9
  <2>3. <<f, v>> \in SlotsOf(x) /\ <<g, 1>> \in SlotsOf(x)
    BY <2>1 DEF SlotsOf
  <2>4. <<f, v>> \in Feeds(x, to[1], to[2])
    <3>1. \A h \in SlotsOf(x) : \A at \in Out(x, h[1], h[2]) : h \in Feeds(x, at[1], at[2])
      BY <1>1 DEF Shape, Fed
    <3>2. <<f, v>>[1] = f /\ <<f, v>>[2] = v
      OBVIOUS
    <3>. QED
      BY <2>3, <3>1, <3>2
  <2>5. <<g, 1>> \in Feeds(x, to[1], to[2])
    <3>1. \A h \in SlotsOf(x) : \A at \in Out(x, h[1], h[2]) : h \in Feeds(x, at[1], at[2])
      BY <1>1 DEF Shape, Fed
    <3>2. <<g, 1>>[1] = g /\ <<g, 1>>[2] = 1
      OBVIOUS
    <3>. QED
      BY <1>10, <2>3, <3>1, <3>2
  <2>6. <<f, v>> = <<g, 1>>
    BY <1>1, <2>2, <2>4, <2>5 DEF Shape, Fed
  <2>. QED
    BY <2>6
<1>11. ASSUME NEW f \in DOMAIN b, NEW v \in Ways, NEW to \in Out(x, f, v)
       PROVE  At(c, to[1], to[2]) = IF v = 1 /\ b[f].kind = "BYE" THEN b[f].winner ELSE NoTeam
  <2>1. to[1] \in DOMAIN b /\ to[2] \in Ways /\ to = <<to[1], to[2]>> /\ ~ First(md, k, to[1])
    BY <1>9
  <2>2. At(b, to[1], to[2]) = NoTeam
    BY <1>2, <2>1 DEF Opening, Ways
  <2> DEFINE V == Arrives(md, k, b, to[1], to[2])
  <2>3. \A u : u \in V => v = 1 /\ b[f].kind = "BYE" /\ u = b[f].winner
    <3>. TAKE u
    <3>1. SUFFICES ASSUME u \in V PROVE v = 1 /\ b[f].kind = "BYE" /\ u = b[f].winner
      OBVIOUS
    <3>2. PICK g \in DOMAIN b : b[g].kind = "BYE" /\ <<to[1], to[2]>> \in Out(x, g, 1) /\ u = b[g].winner
      BY <1>3, <3>1
    <3>3. to \in Out(x, g, 1)
      BY <2>1, <3>2
    <3>4. f = g /\ v = 1
      BY <1>10, <3>3
    <3>. QED
      BY <3>2, <3>4
  <2>4. v = 1 /\ b[f].kind = "BYE" => b[f].winner \in V
    BY <1>3, <2>1
  <2>5. (V = {} => At(c, to[1], to[2]) = At(b, to[1], to[2])) /\ (V # {} => At(c, to[1], to[2]) \in V)
    BY <1>8, <2>1
  <2>. HIDE DEF V
  <2>. QED
    BY <2>2, <2>3, <2>4, <2>5
<1>12. ASSUME NEW p, Unfed(x, p)
       PROVE  p[1] \in DOMAIN b /\ p[2] \in Ways /\ p = <<p[1], p[2]>> /\ At(c, p[1], p[2]) = At(b, p[1], p[2])
  <2>1. p \in SlotsOf(x) /\ p[1] # GrandReset /\ Feeds(x, p[1], p[2]) = {}
    BY <1>12 DEF Unfed
  <2>2. p[1] \in DOMAIN b /\ p[2] \in Ways /\ p = <<p[1], p[2]>>
    BY <1>2, <2>1 DEF SlotsOf
  <2>3. Arrives(md, k, b, p[1], p[2]) = {}
    <3>1. SUFFICES ASSUME NEW g \in DOMAIN b, p \in Out(x, g, 1) PROVE FALSE
      BY <1>3, <2>2
    <3>2. <<g, 1>> \in SlotsOf(x) /\ <<g, 1>>[1] = g /\ <<g, 1>>[2] = 1
      BY <1>2 DEF SlotsOf, Ways
    <3>3. \A h \in SlotsOf(x) : \A at \in Out(x, h[1], h[2]) : h \in Feeds(x, at[1], at[2])
      BY <1>1 DEF Shape, Fed
    <3>4. <<g, 1>> \in Feeds(x, p[1], p[2])
      BY <3>1, <3>2, <3>3
    <3>. QED
      BY <2>1, <3>4
  <2>. QED
    BY <1>8, <2>2, <2>3
<1>13. ASSUME NEW m \in DOMAIN b, First(md, k, m), NEW s \in Ways
       PROVE  At(c, m, s) = At(b, m, s)
  <2>1. Arrives(md, k, b, m, s) = {}
    <3>1. SUFFICES ASSUME NEW g \in DOMAIN b, <<m, s>> \in Out(x, g, 1) PROVE FALSE
      BY <1>3
    <3>2. 1 \in Ways /\ <<m, s>>[1] = m
      BY DEF Ways
    <3>. QED
      BY <1>9, <1>13, <3>1, <3>2
  <2>. QED
    BY <1>8, <2>1
<1>14. Hung(x, E, c)
  <2>1. DOMAIN c \subseteq Ids(x) /\ Ids(x) \ {GrandReset} \subseteq DOMAIN c
    BY <1>2, <1>7
  <2>2. \A m \in DOMAIN c : c[m] \in Records(E)
    <3>1. \A r : r \in Records(A) => r \in Records(E)
      BY DEF Records, Places
    <3>. QED
      BY <1>7, <3>1
  <2>3. ASSUME NEW m \in DOMAIN c PROVE Fair(c[m])
    <3>1. Fair(b[m]) /\ b[m].loser = NoTeam
      BY <1>2, <1>7 DEF Opening
    <3>2. CASE Completed(b, m)
      <4>1. First(md, k, m) /\ b[m].kind = "BYE"
        BY <1>2, <1>7, <3>2 DEF Opening
      <4>2. At(c, m, 1) = At(b, m, 1) /\ At(c, m, 2) = At(b, m, 2)
        BY <1>7, <1>13, <4>1 DEF Ways
      <4>3. c[m].winner = b[m].winner /\ c[m].loser = b[m].loser /\ c[m].kind = "BYE" /\ c[m].status = "COMPLETED"
        BY <1>7, <3>2, <4>1 DEF Completed
      <4>. QED
        BY <3>1, <4>2, <4>3 DEF Fair, At
    <3>3. CASE ~ Completed(b, m)
      <4>1. b[m].kind = "PLAYED" /\ b[m].winner = NoTeam
        BY <1>2, <1>7, <3>3 DEF Opening
      <4>2. c[m].winner = NoTeam /\ c[m].loser = NoTeam /\ c[m].kind = "PLAYED" /\ c[m].status # "COMPLETED"
        BY <1>7, <3>1, <3>3, <4>1 DEF Completed
      <4>. QED
        BY <4>2 DEF Fair
    <3>. QED
      BY <3>2, <3>3
  <2>. QED
    BY <1>7, <2>1, <2>2, <2>3 DEF Hung
<1>15. Follows(x, c, {})
  <2>1. ASSUME NEW f \in DOMAIN b, NEW v \in Ways, NEW to \in Out(x, f, v)
        PROVE  Flows(x, c, {}, f, v, to)
    <3>1. At(c, to[1], to[2]) = IF v = 1 /\ b[f].kind = "BYE" THEN b[f].winner ELSE NoTeam
      BY <1>11
    <3>2. to[1] \in DOMAIN b /\ ~ First(md, k, to[1])
      BY <1>9
    <3>3. ~ Completed(c, to[1])
      BY <1>2, <1>7, <3>2 DEF Opening
    <3>4. /\ Completed(c, f) <=> Completed(b, f)
          /\ b[f].kind = "BYE" => Completed(b, f)
          /\ Completed(b, f) => b[f].kind = "BYE"
          /\ ~ Completed(b, f) => b[f].winner = NoTeam
          /\ b[f].loser = NoTeam /\ c[f].winner = b[f].winner /\ c[f].loser = b[f].loser
      BY <1>2, <1>5, <1>7 DEF Opening
    <3>5. Sends(c, f, v) = IF v = 1 THEN b[f].winner ELSE NoTeam
      BY <3>4 DEF Sends
    <3>. QED
      BY <3>1, <3>3, <3>4, <3>5 DEF Flows
  <2>. QED
    BY <1>7, <2>1 DEF Follows
<1>16. Begins(x, c)
  <2>1. ASSUME NEW p, Unfed(x, p), At(c, p[1], p[2]) # NoTeam
        PROVE  \E n \in 1..Power[k - 1] : /\ p = <<Wb(md, k, 1, n), p[2]>> /\ p[2] \in Ways
                                         /\ At(c, p[1], p[2]) = Place(k, teams, 2 * n - 2 + p[2])
    <3>1. p[1] \in DOMAIN b /\ p[2] \in Ways /\ p = <<p[1], p[2]>> /\ At(c, p[1], p[2]) = At(b, p[1], p[2])
      BY <1>12, <2>1
    <3>2. First(md, k, p[1])
      BY <1>2, <2>1, <3>1 DEF Opening, Ways
    <3>3. PICK n \in 1..Power[k - 1] : p[1] = Wb(md, k, 1, n)
      BY <3>2 DEF First
    <3>4. At(b, p[1], 1) = Place(k, teams, 2 * n - 1) /\ At(b, p[1], 2) = Place(k, teams, 2 * n)
      BY <1>2, <3>3
    <3>5. 2 * n - 2 + 1 = 2 * n - 1 /\ 2 * n - 2 + 2 = 2 * n
      OBVIOUS
    <3>6. At(b, p[1], p[2]) = Place(k, teams, 2 * n - 2 + p[2])
      BY <3>1, <3>4, <3>5 DEF Ways
    <3>. QED
      BY <3>1, <3>3, <3>6
  <2>2. ASSUME NEW p, NEW q, Unfed(x, p), Unfed(x, q), At(c, p[1], p[2]) = At(c, q[1], q[2]), At(c, p[1], p[2]) # NoTeam
        PROVE  p = q
    <3>1. PICK n \in 1..Power[k - 1] : /\ p = <<Wb(md, k, 1, n), p[2]>> /\ p[2] \in Ways
                                      /\ At(c, p[1], p[2]) = Place(k, teams, 2 * n - 2 + p[2])
      BY <2>1, <2>2
    <3>2. PICK l \in 1..Power[k - 1] : /\ q = <<Wb(md, k, 1, l), q[2]>> /\ q[2] \in Ways
                                      /\ At(c, q[1], q[2]) = Place(k, teams, 2 * l - 2 + q[2])
      BY <2>1, <2>2
    <3>3. p[2] \in 1..2 /\ q[2] \in 1..2
      BY <3>1, <3>2 DEF Ways
    <3>4. Power[k] = 2 * Power[k - 1] /\ Power[k - 1] \in Nat \ {0}
      BY PlaceIs
    <3>5. \A i \in 1..Power[k - 1], s \in 1..2 : 2 * i - 2 + s \in 1..Power[k]
      BY <3>4
    <3>6. 2 * n - 2 + p[2] = 2 * l - 2 + q[2]
      <4>1. 2 * n - 2 + p[2] \in 1..Power[k] /\ 2 * l - 2 + q[2] \in 1..Power[k]
        BY <3>3, <3>5
      <4>2. \A i, j \in 1..Power[k] : Place(k, teams, i) = Place(k, teams, j) /\ Place(k, teams, i) # NoTeam => i = j
        BY PlaceIs
      <4>3. Place(k, teams, 2 * n - 2 + p[2]) = Place(k, teams, 2 * l - 2 + q[2]) /\ Place(k, teams, 2 * n - 2 + p[2]) # NoTeam
        BY <2>2, <3>1, <3>2
      <4>. QED
        BY <4>1, <4>2, <4>3
    <3>7. \A i, j \in 1..Power[k - 1], s, t \in 1..2 : 2 * i - 2 + s = 2 * j - 2 + t => i = j /\ s = t
      BY <3>4
    <3>8. n = l /\ p[2] = q[2]
      BY <3>3, <3>6, <3>7
    <3>. QED
      BY <3>1, <3>2, <3>8
  <2>. QED
    BY <2>2 DEF Begins
<1>17. Reset(c)
  BY <1>2, <1>7 DEF Reset
<1>18. \E m \in DOMAIN c : ~ Completed(c, m) /\ Own(c, m) \cap (x.gone \cup {NoTeam}) = {}
  <2>1. PICK n \in 1..Power[k - 1] : Place(k, teams, 2 * n) \in A
    BY PlaceIs
  <2>2. Place(k, teams, 2 * n - 1) \in A /\ NoTeam \notin A
    BY PlaceIs
  <2> DEFINE m == Wb(md, k, 1, n)
  <2>3. /\ m \in DOMAIN b /\ First(md, k, m)
        /\ At(b, m, 1) = Place(k, teams, 2 * n - 1) /\ At(b, m, 2) = Place(k, teams, 2 * n)
        /\ Completed(b, m) => At(b, m, 2) = NoTeam
    BY <1>2 DEF First
  <2>. HIDE DEF m
  <2>4. At(c, m, 1) = At(b, m, 1) /\ At(c, m, 2) = At(b, m, 2)
    BY <1>13, <2>3 DEF Ways
  <2>5. ~ Completed(c, m) /\ m \in DOMAIN c
    BY <1>7, <2>1, <2>2, <2>3
  <2>6. Own(c, m) \cap (x.gone \cup {NoTeam}) = {}
    BY <1>1, <2>1, <2>2, <2>3, <2>4 DEF Own
  <2>. QED
    BY <2>5, <2>6
<1>19. Sound(x, E, c, {})
  BY <1>14, <1>15, <1>16, <1>17 DEF Sound
\* Every team begins in the first round.
<1>20. Begun(x, E, c)
  <2>. SUFFICES ASSUME NEW t \in E \ x.gone
       PROVE  \E m \in DOMAIN c, s \in Ways : Early(m) /\ At(c, m, s) = t
    BY DEF Begun
  <2>1. PICK i \in 1..Power[k] : Place(k, teams, i) = t
    BY <1>1, PlaceIs
  <2>2. Power[k] = 2 * Power[k - 1] /\ Power[k - 1] \in Nat \ {0}
    BY PlaceIs
  <2>3. i \in Nat \ {0}
    BY <2>2
  <2>4. Half(i) \in Nat \ {0} /\ Side(i) \in {1, 2} /\ i = 2 * Half(i) - 2 + Side(i)
    BY <2>3, HalfIs
  <2> DEFINE n == Half(i)
             s == Side(i)
             m == Wb(md, k, 1, n)
  <2>. HIDE DEF n, s
  <2>5. n \in 1..Power[k - 1] /\ s \in Ways /\ (s = 1 => i = 2 * n - 1) /\ (s = 2 => i = 2 * n)
    BY <2>2, <2>4 DEF n, s, Ways
  <2>6. m \in DOMAIN b /\ At(b, m, 1) = Place(k, teams, 2 * n - 1) /\ At(b, m, 2) = Place(k, teams, 2 * n)
    BY <1>2, <2>5
  <2>7. First(md, k, m)
    BY <2>5 DEF First
  <2>8. At(b, m, s) = t
    BY <2>1, <2>5, <2>6 DEF Ways
  <2>9. At(c, m, s) = t
    BY <1>13, <2>5, <2>6, <2>7, <2>8
  <2>10. Early(m)
    BY <1>0 DEF Early, Wb
  <2>. HIDE DEF m
  <2>. QED
    BY <1>7, <2>5, <2>6, <2>9, <2>10
<1>21. ASSUME NEW m \in DOMAIN c, Completed(c, m)
       PROVE  First(md, k, m) /\ c[m].winner = At(c, m, 1) /\ At(c, m, 2) = NoTeam
  <2>1. First(md, k, m) /\ b[m].winner = At(b, m, 1) /\ At(b, m, 2) = NoTeam
    BY <1>2, <1>7, <1>21 DEF Opening
  <2>. QED
    BY <1>7, <1>13, <1>21, <2>1 DEF Ways
<1>22. Honest(x, c)
  BY <1>21 DEF Honest, Plays, Ways
<1>23. Twice(x, c)
  <2>1. SUFFICES ASSUME Grand \in DOMAIN c, Completed(c, Grand) PROVE FALSE
    BY DEF Twice
  <2>2. PICK n \in 1..Power[k - 1] : Grand = Wb(md, k, 1, n)
    BY <1>21, <2>1 DEF First
  <2>3. Early(Wb(md, k, 1, n))
    BY <1>0 DEF Early, Wb
  <2>. QED
    BY <2>2, <2>3 DEF Early, Grand
<1>24. Told(x, E, c)
  BY <1>20, <1>22, <1>23 DEF Told
<1>25. \A m \in DOMAIN c : c[m].status # "IN_PROGRESS"
  BY <1>7
<1>. QED
  BY <1>4, <1>18, <1>19, <1>24, <1>25 DEF x, rank, b, c

-----------------------------------------------------------------------------
(***************************************************************************)
(* Told: what has been told of the teams stays told, by every operation on *)
(* the tree.                                                               *)
(***************************************************************************)
LEMMA KeepsTells ==
  ASSUME NEW x, NEW E, NEW b, NEW c, NoTeam \notin E, Reset(b), Keeps(x, b, c), Begun(x, E, b), Honest(x, b)
  PROVE  Begun(x, E, c) /\ Honest(x, c) /\ (Twice(x, b) => Twice(x, c))
<1>1. DOMAIN c = DOMAIN b /\ \A m \in DOMAIN b : Completed(b, m) => c[m] = b[m]
  BY DEF Keeps
<1>2. \A m \in DOMAIN b, s \in Ways : Plays(x, At(b, m, s)) => At(c, m, s) = At(b, m, s)
  BY DEF Keeps, Spares, Plays
<1>3. \A m \in DOMAIN b : ~Completed(b, m) /\ Completed(c, m) =>
        \A s \in Ways : Plays(x, At(c, m, s)) => c[m].winner = At(c, m, s)
  BY DEF Keeps, Spares, Plays, Wins, At
<1>4. Begun(x, E, c)
  <2>. SUFFICES ASSUME NEW t \in E \ x.gone
       PROVE  \E m \in DOMAIN c, s \in Ways : Early(m) /\ At(c, m, s) = t
    BY DEF Begun
  <2>1. PICK m \in DOMAIN b, s \in Ways : Early(m) /\ At(b, m, s) = t
    BY DEF Begun
  <2>2. Plays(x, At(b, m, s))
    BY <2>1 DEF Plays
  <2>. QED
    BY <1>1, <1>2, <2>1, <2>2
<1>5. Honest(x, c)
  <2>. SUFFICES ASSUME NEW m \in DOMAIN c, NEW s \in Ways, Completed(c, m), Plays(x, At(c, m, s))
       PROVE  At(c, m, s) \in {c[m].winner, c[m].loser}
    BY DEF Honest
  <2>1. CASE Completed(b, m)
    <3>1. c[m] = b[m] /\ At(c, m, s) = At(b, m, s)
      BY <1>1, <2>1 DEF At
    <3>. QED
      BY <1>1, <2>1, <3>1 DEF Honest
  <2>2. CASE ~Completed(b, m)
    BY <1>1, <1>3, <2>2
  <2>. QED
    BY <2>1, <2>2
<1>6. ASSUME Twice(x, b), Grand \in DOMAIN b, Completed(c, Grand)
      PROVE  /\ GrandReset \in DOMAIN c => \A s \in Ways : Plays(x, At(c, Grand, s)) =>
                  At(c, GrandReset, s) = At(c, Grand, s) /\ Sends(c, Grand, 3 - s) = At(c, Grand, s)
             /\ GrandReset \notin DOMAIN c /\ Plays(x, At(c, Grand, 1)) => c[Grand].winner = At(c, Grand, 1)
  <2>1. CASE Completed(b, Grand)
    <3>1. c[Grand] = b[Grand] /\ \A s \in Ways : At(c, Grand, s) = At(b, Grand, s) /\ Sends(c, Grand, 3 - s) = Sends(b, Grand, 3 - s)
      BY <1>1, <1>6, <2>1 DEF At, Sends
    <3>2. ASSUME GrandReset \in DOMAIN b, NEW s \in Ways, Plays(x, At(b, Grand, s))
          PROVE  At(c, GrandReset, s) = At(b, Grand, s) /\ Sends(b, Grand, 3 - s) = At(b, Grand, s)
      <4>1. At(b, GrandReset, s) = At(b, Grand, s) /\ Sends(b, Grand, 3 - s) = At(b, Grand, s)
        BY <1>6, <2>1, <3>2 DEF Twice
      <4>. QED
        BY <1>2, <3>2, <4>1
    <3>3. GrandReset \notin DOMAIN b /\ Plays(x, At(b, Grand, 1)) => b[Grand].winner = At(b, Grand, 1)
      BY <1>6, <2>1 DEF Twice
    <3>4. 1 \in Ways
      BY DEF Ways
    <3>. QED
      BY <1>1, <3>1, <3>2, <3>3, <3>4
  <2>2. CASE ~Completed(b, Grand)
    <3>1. GrandReset \notin DOMAIN b
      BY <2>2 DEF Reset
    <3>. QED
      BY <1>1, <1>3, <1>6, <2>2, <3>1 DEF Ways
  <2>. QED
    BY <2>1, <2>2
<1>7. Twice(x, b) => Twice(x, c)
  <2>. SUFFICES ASSUME Twice(x, b), Grand \in DOMAIN c, Completed(c, Grand)
       PROVE  /\ GrandReset \in DOMAIN c => \A s \in Ways : Plays(x, At(c, Grand, s)) =>
                  At(c, GrandReset, s) = At(c, Grand, s) /\ Sends(c, Grand, 3 - s) = At(c, Grand, s)
              /\ GrandReset \notin DOMAIN c /\ Plays(x, At(c, Grand, 1)) => c[Grand].winner = At(c, Grand, 1)
    BY DEF Twice
  <2>1. Grand \in DOMAIN b
    BY <1>1
  <2>. QED
    BY <1>6, <2>1
<1>. QED
  BY <1>4, <1>5, <1>7

LEMMA WrittenTells ==
  ASSUME NEW x, NEW rank, NEW E, NEW b, World(x, rank, E), Sound(x, E, b, {}), Told(x, E, b),
         NEW m \in DOMAIN b, NoTeam \notin Own(b, m),
         NEW s \in Ways, NEW kind \in {"PLAYED", "WALKOVER"}
  PROVE  LET c == Written(b, m, s, kind)
         IN Begun(x, E, c) /\ Honest(x, c) /\ (m # Grand => Twice(x, c))
<1> DEFINE c == Written(b, m, s, kind)
<1>1. /\ DOMAIN c = DOMAIN b /\ \A n \in DOMAIN b : n # m => c[n] = b[n]
      /\ Completed(c, m) /\ c[m].team = b[m].team
      /\ Sends(c, m, 1) = At(b, m, s) /\ Sends(c, m, 2) = At(b, m, 3 - s)
  <2> DEFINE D == {}
  <2>1. Sound(x, E, b, D)
    OBVIOUS
  <2>. HIDE DEF D
  <2>. QED
    BY <2>1, WrittenIs
<1>. HIDE DEF c
<1>2. \A n \in DOMAIN b, v \in Ways : At(c, n, v) = At(b, n, v)
  BY <1>1 DEF At
<1>3. Begun(x, E, c)
  BY <1>1, <1>2 DEF Told, Begun
<1>4. Honest(x, c)
  <2>. SUFFICES ASSUME NEW n \in DOMAIN b, NEW v \in Ways, Completed(c, n), Plays(x, At(c, n, v))
       PROVE  At(c, n, v) \in {c[n].winner, c[n].loser}
    BY <1>1 DEF Honest
  <2>1. CASE n = m
    <3>1. c[m].winner = At(b, m, s) /\ c[m].loser = At(b, m, 3 - s)
      BY <1>1 DEF Sends
    <3>2. v = s \/ v = 3 - s
      BY DEF Ways
    <3>. QED
      BY <1>2, <2>1, <3>1, <3>2
  <2>2. CASE n # m
    <3>1. c[n] = b[n] /\ Completed(b, n)
      BY <1>1, <2>2 DEF Completed
    <3>. QED
      BY <1>2, <3>1 DEF Told, Honest
  <2>. QED
    BY <2>1, <2>2
<1>5. m # Grand => Twice(x, c)
  <2>. SUFFICES ASSUME m # Grand, Grand \in DOMAIN b, Completed(c, Grand)
       PROVE  /\ GrandReset \in DOMAIN b => \A v \in Ways : Plays(x, At(c, Grand, v)) =>
                  At(c, GrandReset, v) = At(c, Grand, v) /\ Sends(c, Grand, 3 - v) = At(c, Grand, v)
              /\ GrandReset \notin DOMAIN b /\ Plays(x, At(c, Grand, 1)) => c[Grand].winner = At(c, Grand, 1)
    BY <1>1 DEF Twice
  <2>1. c[Grand] = b[Grand] /\ Completed(b, Grand) /\ \A v : Sends(c, Grand, v) = Sends(b, Grand, v)
    BY <1>1 DEF Completed, Sends
  <2>2. Twice(x, b) /\ 1 \in Ways
    BY DEF Told, Ways
  <2>. QED
    BY <1>2, <2>1, <2>2 DEF Twice
<1>. QED
  BY <1>3, <1>4, <1>5 DEF c

LEMMA BlankTells ==
  ASSUME NEW x, NEW E, NEW b, DOMAIN b \subseteq Ids(x), Nested(x), Begun(x, E, b), Honest(x, b),
         NEW m \in DOMAIN b
  PROVE  LET c == Blank(x, b, m)
         IN Begun(x, E, c) /\ Honest(x, c) /\ (m # Grand /\ Twice(x, b) => Twice(x, c))
<1> DEFINE A == Affected(x, b, m)
           K == Kept(x, b, m)
           c == Blank(x, b, m)
<1>1. DOMAIN c = K /\ \A i \in K : c[i] = IF i \in A THEN Open ELSE b[i]
  BY DEF Blank
<1>2. \A d \in Below(x, m) : ~Early(d) /\ (d = GrandReset => Grand \in Below(x, m) \cup {m})
  BY DEF Nested
<1>3. A = (Below(x, m) \cap DOMAIN b) \ {GrandReset} /\ K = DOMAIN b \ (Below(x, m) \cap {GrandReset})
  BY DEF Affected, Kept
<1>4. Open.status # "COMPLETED"
  BY DEF Open
<1>. HIDE DEF A, K, c
<1>5. \A i \in K : Completed(c, i) => c[i] = b[i] /\ Completed(b, i) /\ i \notin A
  BY <1>1, <1>4 DEF Completed
<1>6. Begun(x, E, c)
  <2>. SUFFICES ASSUME NEW t \in E \ x.gone
       PROVE  \E n \in DOMAIN c, s \in Ways : Early(n) /\ At(c, n, s) = t
    BY DEF Begun
  <2>1. PICK n \in DOMAIN b, s \in Ways : Early(n) /\ At(b, n, s) = t
    BY DEF Begun
  <2>2. n \notin Below(x, m)
    BY <1>2, <2>1
  <2>3. n \in K /\ n \notin A
    BY <1>3, <2>2
  <2>4. At(c, n, s) = t
    BY <1>1, <2>1, <2>3 DEF At
  <2>. QED
    BY <1>1, <2>1, <2>3, <2>4
<1>7. Honest(x, c)
  <2>. SUFFICES ASSUME NEW n \in K, NEW s \in Ways, Completed(c, n), Plays(x, At(c, n, s))
       PROVE  At(c, n, s) \in {c[n].winner, c[n].loser}
    BY <1>1 DEF Honest
  <2>1. c[n] = b[n] /\ Completed(b, n) /\ n \in DOMAIN b
    BY <1>3, <1>5
  <2>2. At(c, n, s) = At(b, n, s)
    BY <2>1 DEF At
  <2>. QED
    BY <2>1, <2>2 DEF Honest
<1>8. ASSUME m # Grand, Twice(x, b), Grand \in K, Completed(c, Grand)
      PROVE  /\ GrandReset \in K => \A v \in Ways : Plays(x, At(c, Grand, v)) =>
                  At(c, GrandReset, v) = At(c, Grand, v) /\ Sends(c, Grand, 3 - v) = At(c, Grand, v)
             /\ GrandReset \notin K /\ Plays(x, At(c, Grand, 1)) => c[Grand].winner = At(c, Grand, 1)
  <2>1. c[Grand] = b[Grand] /\ Completed(b, Grand) /\ Grand \notin A /\ Grand \in DOMAIN b
    BY <1>3, <1>5, <1>8
  <2>2. Grand \notin Below(x, m)
    <3>1. Grand # GrandReset
      BY DEF Grand, GrandReset
    <3>. QED
      BY <1>3, <2>1, <3>1
  <2>3. GrandReset \notin Below(x, m)
    BY <1>2, <1>8, <2>2
  <2>4. (GrandReset \in K <=> GrandReset \in DOMAIN b) /\ (GrandReset \in K => c[GrandReset] = b[GrandReset])
    BY <1>1, <1>3, <2>3
  <2>5. \A v : At(c, Grand, v) = At(b, Grand, v) /\ Sends(c, Grand, v) = Sends(b, Grand, v)
               /\ (GrandReset \in K => At(c, GrandReset, v) = At(b, GrandReset, v))
    BY <2>1, <2>4 DEF At, Sends
  <2>. QED
    BY <1>8, <2>1, <2>4, <2>5 DEF Twice
<1>9. m # Grand /\ Twice(x, b) => Twice(x, c)
  BY <1>1, <1>8 DEF Twice
<1>. QED
  BY <1>6, <1>7, <1>9 DEF c

LEMMA FinishedTells ==
  ASSUME NEW x, NEW E, NEW b, b = [i \in DOMAIN b |-> b[i]], Begun(x, E, b), Honest(x, b), NEW m \in DOMAIN b,
         m # Grand => Twice(x, b),
         NEW s \in Ways, Completed(b, m), b[m].winner = At(b, m, s), b[m].loser = At(b, m, 3 - s),
         m = Grand => GrandReset \notin DOMAIN b
  PROVE  Told(x, E, Finished(b, m))
<1>1. CASE m # Grand
  BY <1>1 DEF Finished, Told
<1>2. CASE m = Grand
  <2> DEFINE c == AfterGrandFinal(b)
             new == [Open EXCEPT !.team = b[Grand].team, !.status = "READY"]
             S == DOMAIN b \cup {GrandReset}
             more == [i \in S |-> IF i # GrandReset THEN b[i] ELSE new]
  <2>0. Finished(b, m) = c
    BY <1>2 DEF Finished
  <2>1. CASE b[Grand].winner = b[Grand].team[1]
    <3>1. c = b
      <4>1. {j \in DOMAIN b : j # GrandReset \/ b[j].status \in {"IN_PROGRESS", "COMPLETED"}} = DOMAIN b
        BY <1>2
      <4>. QED
        BY <2>1, <4>1 DEF AfterGrandFinal
    <3>2. Twice(x, b)
      BY <1>2, <2>1 DEF Twice, At
    <3>. HIDE DEF c
    <3>. QED
      BY <2>0, <3>1, <3>2 DEF Told
  <2>2. CASE b[Grand].winner # b[Grand].team[1]
    <3>1. c = more
      BY <1>2, <2>2 DEF AfterGrandFinal
    <3>2. DOMAIN more = S /\ more[GrandReset] = new /\ \A n \in DOMAIN b : more[n] = b[n]
      BY <1>2
    <3>3. new.team = b[Grand].team /\ new.status # "COMPLETED"
      BY DEF Open
    <3>. HIDE DEF c, more, new
    <3>4. /\ \A n \in DOMAIN b, v \in Ways : At(more, n, v) = At(b, n, v) /\ Sends(more, n, v) = Sends(b, n, v)
          /\ \A n \in DOMAIN b : Completed(more, n) <=> Completed(b, n)
          /\ ~Completed(more, GrandReset)
          /\ \A v \in Ways : At(more, GrandReset, v) = At(b, Grand, v)
      BY <3>2, <3>3 DEF At, Sends, Completed
    <3>5. Begun(x, E, more)
      BY <3>2, <3>4 DEF Begun
    <3>6. Honest(x, more)
      <4>. SUFFICES ASSUME NEW n \in S, NEW v \in Ways, Completed(more, n), Plays(x, At(more, n, v))
           PROVE  At(more, n, v) \in {more[n].winner, more[n].loser}
        BY <3>2 DEF Honest
      <4>1. n \in DOMAIN b /\ more[n] = b[n]
        BY <3>2, <3>4
      <4>. QED
        BY <3>4, <4>1 DEF Honest
    <3>7. s = 2
      BY <1>2, <2>2 DEF Ways, At
    <3>8. Sends(b, Grand, 1) = At(b, Grand, 2) /\ Sends(b, Grand, 2) = At(b, Grand, 1)
      BY <1>2, <3>7 DEF Sends
    <3>9. \A v \in Ways : Sends(b, Grand, 3 - v) = At(b, Grand, v) /\ 3 - v \in Ways
      BY <3>8 DEF Ways
    <3>10. Grand \in DOMAIN b /\ GrandReset \in S
      BY <1>2
    <3>11. Twice(x, more)
      BY <3>2, <3>4, <3>9, <3>10 DEF Twice
    <3>. QED
      BY <2>0, <3>1, <3>5, <3>6, <3>11 DEF Told
  <2>. QED
    BY <2>1, <2>2
<1>. QED
  BY <1>1, <1>2

\* From the match as it is written to the end of update_match_score.
LEMMA MovedTells ==
  ASSUME NEW x, NEW rank, NEW E, NEW b, NEW D, World(x, rank, E), Sound(x, E, b, D), Begun(x, E, b), Honest(x, b),
         NEW m \in DOMAIN b, m # Grand => Twice(x, b), D \subseteq Out(x, m, 1) \cup Out(x, m, 2),
         NEW s \in Ways, Completed(b, m), b[m].winner = At(b, m, s), b[m].loser = At(b, m, 3 - s),
         m = Grand => GrandReset \notin DOMAIN b
  PROVE  Told(x, E, Finished(MovedFrom(x, b, m), m))
<1> DEFINE down == MovedFrom(x, b, m)
<1>1. down = SentOn(x, SentOn(x, b, m, 1, Sends(b, m, 1)), m, 2, Sends(b, m, 2))
  BY DEF MovedFrom, Sends
<1>. HIDE DEF down
<1>2. Sound(x, E, down, {}) /\ Keeps(x, b, down)
  BY <1>1, MovedOn
<1>3. NoTeam \notin E /\ Reset(b)
  BY DEF World, Sound
<1>4. Begun(x, E, down) /\ Honest(x, down) /\ (Twice(x, b) => Twice(x, down))
  BY <1>2, <1>3, KeepsTells
<1>5. /\ DOMAIN down = DOMAIN b /\ down[m] = b[m] /\ Completed(down, m)
      /\ \A v : At(down, m, v) = At(b, m, v)
  BY <1>2 DEF Keeps, Completed, At
<1>6. down = [i \in DOMAIN down |-> down[i]]
  <2>1. down \in [DOMAIN down -> Records(E)]
    BY <1>2 DEF Sound, Hung
  <2>. QED
    BY <2>1
<1>7. Told(x, E, Finished(down, m))
  BY <1>4, <1>5, <1>6, FinishedTells
<1>. QED
  BY <1>7 DEF down

LEMMA FirstTells ==
  ASSUME NEW x, NEW rank, NEW E, NEW b, World(x, rank, E), Sound(x, E, b, {}), Told(x, E, b),
         NEW m \in DOMAIN b, ~Completed(b, m), NoTeam \notin Own(b, m),
         NEW s \in Ways, NEW kind \in {"PLAYED", "WALKOVER"}
  PROVE  Told(x, E, Scored(x, b, m, s, kind))
<1> DEFINE set == Written(b, m, s, kind)
           D == Out(x, m, 1) \cup Out(x, m, 2)
           c == Scored(x, b, m, s, kind)
<1>1. /\ DOMAIN set = DOMAIN b /\ Completed(set, m) /\ set[m].team = b[m].team
      /\ Sends(set, m, 1) = At(b, m, s) /\ Sends(set, m, 2) = At(b, m, 3 - s)
  <2> DEFINE G == {}
  <2>1. Sound(x, E, b, G)
    OBVIOUS
  <2>. HIDE DEF G
  <2>. QED
    BY <2>1, WrittenIs
<1>2. Sound(x, E, set, D)
  BY WrittenSound
<1>3. Begun(x, E, set) /\ Honest(x, set) /\ (m # Grand => Twice(x, set))
  BY WrittenTells
<1>4. c = Finished(MovedFrom(x, set, m), m)
  <2>1. ~Corrects(b, m, s)
    BY DEF Corrects
  <2>. HIDE DEF c, set
  <2>. QED
    BY <2>1, ScoredIs DEF c, set
<1>. HIDE DEF set, c
<1>5. set[m].winner = At(set, m, s) /\ set[m].loser = At(set, m, 3 - s)
  BY <1>1 DEF Sends, At
<1>6. m = Grand => GrandReset \notin DOMAIN set
  BY <1>1 DEF Sound, Reset
<1>7. D \subseteq Out(x, m, 1) \cup Out(x, m, 2) /\ m \in DOMAIN set
  BY <1>1
<1>. HIDE DEF D
<1>8. Told(x, E, c)
  BY <1>1, <1>2, <1>3, <1>4, <1>5, <1>6, <1>7, MovedTells
<1>. QED
  BY <1>8 DEF c

LEMMA CorrectedTells ==
  ASSUME NEW x, NEW rank, NEW E, NEW b, World(x, rank, E), Nested(x), Sound(x, E, b, {}), Told(x, E, b),
         NEW m \in DOMAIN b, Completed(b, m), NoTeam \notin Own(b, m),
         NEW s \in Ways, NEW kind \in {"PLAYED", "WALKOVER"}, Corrects(b, m, s)
  PROVE  Told(x, E, Scored(x, b, m, s, kind))
<1> DEFINE set == Written(b, m, s, kind)
           A == Affected(x, set, m)
           blank == Blank(x, set, m)
           fixed == CheckAll(x, blank, A)
           c == Scored(x, b, m, s, kind)
<1>1. /\ Sound(x, E, blank, WaysOf(A)) /\ A \subseteq DOMAIN blank
      /\ m \in DOMAIN blank /\ blank[m] = set[m] /\ (m = Grand => GrandReset \notin DOMAIN blank)
  BY BlankSound
<1>2. /\ DOMAIN set = DOMAIN b /\ Completed(set, m) /\ set[m].team = b[m].team
      /\ Sends(set, m, 1) = At(b, m, s) /\ Sends(set, m, 2) = At(b, m, 3 - s)
  <2> DEFINE G == {}
  <2>1. Sound(x, E, b, G)
    OBVIOUS
  <2>. HIDE DEF G
  <2>. QED
    BY <2>1, WrittenIs
<1>3. fixed = Repaired(x, set, m)
  BY DEF Repaired, Blank, Affected, Kept
<1>4. Begun(x, E, set) /\ Honest(x, set) /\ (m # Grand => Twice(x, set))
  BY WrittenTells
<1>5. \A to \in WaysOf(A) : to[1] \in A /\ to \in A \X Ways
  BY DEF WaysOf
<1>6. Begun(x, E, blank) /\ Honest(x, blank) /\ (m # Grand => Twice(x, blank))
  <2>1. DOMAIN set \subseteq Ids(x) /\ m \in DOMAIN set
    BY <1>2 DEF Sound, Hung
  <2>. HIDE DEF set
  <2>. QED
    BY <1>4, <2>1, BlankTells
<1>. HIDE DEF A, blank, set
<1>7. Sound(x, E, fixed, {}) /\ Keeps(x, blank, fixed)
  <2> DEFINE D == WaysOf(A)
  <2>1. Sound(x, E, blank, D) /\ \A to \in D : to[1] \in A /\ to \in A \X Ways
    BY <1>1, <1>5
  <2>. HIDE DEF D
  <2>. QED
    BY <1>1, <2>1, CheckAllSound
<1>. HIDE DEF fixed
<1>8. Begun(x, E, fixed) /\ Honest(x, fixed) /\ (m # Grand => Twice(x, fixed))
  <2>1. NoTeam \notin E /\ Reset(blank)
    BY <1>1 DEF World, Sound
  <2>. QED
    BY <1>6, <1>7, <2>1, KeepsTells
<1>9. /\ DOMAIN fixed = DOMAIN blank /\ m \in DOMAIN fixed /\ fixed[m] = set[m] /\ Completed(fixed, m)
      /\ m = Grand => GrandReset \notin DOMAIN fixed
  <2>1. Completed(blank, m)
    BY <1>1, <1>2 DEF Completed
  <2>2. DOMAIN fixed = DOMAIN blank /\ fixed[m] = blank[m]
    BY <1>1, <1>7, <2>1 DEF Keeps
  <2>. QED
    BY <1>1, <2>1, <2>2 DEF Completed
<1>10. c = Finished(MovedFrom(x, fixed, m), m)
  <2> DEFINE fix == IF Corrects(b, m, s) THEN Repaired(x, set, m) ELSE set
  <2>1. fix = fixed /\ fix[m] = set[m]
    BY <1>3, <1>9
  <2>2. fix[m] = set[m] => Scored(x, b, m, s, kind) = Finished(MovedFrom(x, fix, m), m)
    BY ScoredIs DEF set
  <2>. HIDE DEF fix
  <2>. QED
    BY <2>1, <2>2
<1>11. fixed[m].winner = At(fixed, m, s) /\ fixed[m].loser = At(fixed, m, 3 - s)
  BY <1>2, <1>9 DEF Sends, At
<1>. HIDE DEF c
<1>12. Told(x, E, c)
  <2> DEFINE D == {}
  <2>1. D \subseteq Out(x, m, 1) \cup Out(x, m, 2) /\ Sound(x, E, fixed, D)
    BY <1>7
  <2>. HIDE DEF D
  <2>. QED
    BY <1>8, <1>9, <1>10, <1>11, <2>1, MovedTells
<1>. QED
  BY <1>12 DEF c

LEMMA SameTells ==
  ASSUME NEW x, NEW rank, NEW E, NEW b, World(x, rank, E), Sound(x, E, b, {}), Told(x, E, b),
         NEW m \in DOMAIN b, Completed(b, m), NoTeam \notin Own(b, m),
         NEW s \in Ways, NEW kind \in {"PLAYED", "WALKOVER"}, ~Corrects(b, m, s)
  PROVE  Told(x, E, Scored(x, b, m, s, kind))
<1> DEFINE c == Written(b, m, s, kind)
<1>1. /\ DOMAIN c = DOMAIN b /\ \A n \in DOMAIN b : n # m => c[n] = b[n]
      /\ c[m].team = b[m].team
      /\ Sends(c, m, 1) = At(b, m, s) /\ Sends(c, m, 2) = At(b, m, 3 - s) /\ At(b, m, s) # At(b, m, 3 - s)
  <2> DEFINE G == {}
  <2>1. Sound(x, E, b, G)
    OBVIOUS
  <2>. HIDE DEF G
  <2>. QED
    BY <2>1, WrittenIs
<1>2. Scored(x, b, m, s, kind) = c
  BY ScoredIs
<1>3. Begun(x, E, c) /\ Honest(x, c) /\ (m # Grand => Twice(x, c))
  BY WrittenTells
<1>4. b[m].winner = At(b, m, s)
  BY DEF Corrects, At
<1>. HIDE DEF c
<1>5. ASSUME m = Grand PROVE Twice(x, c)
  <2>1. \A n \in DOMAIN b, v \in Ways : At(c, n, v) = At(b, n, v)
    BY <1>1 DEF At
  <2>2. Sends(b, Grand, 1) = At(b, Grand, s) /\ Sends(c, Grand, 1) = At(b, Grand, s) /\ Sends(c, Grand, 2) = At(b, Grand, 3 - s)
    BY <1>1, <1>4, <1>5 DEF Sends
  <2>3. GrandReset \notin DOMAIN b /\ Plays(x, At(b, Grand, 1)) => c[Grand].winner = At(b, Grand, 1)
    BY <1>5, <2>2 DEF Told, Twice, Sends
  <2>4. ASSUME GrandReset \in DOMAIN b, NEW v \in Ways, Plays(x, At(b, Grand, v))
        PROVE  At(b, GrandReset, v) = At(b, Grand, v) /\ Sends(c, Grand, 3 - v) = At(b, Grand, v)
    <3>1. At(b, GrandReset, v) = At(b, Grand, v) /\ Sends(b, Grand, 3 - v) = At(b, Grand, v)
      BY <1>5, <2>4 DEF Told, Twice
    <3>2. CASE v = 2
      BY <2>2, <3>1, <3>2
    <3>3. CASE v = 1
      <4>1. s = 2
        <5>1. CASE s = 1
          <6>1. Sends(b, Grand, 1) = At(b, Grand, 1) /\ Sends(b, Grand, 2) = At(b, Grand, 1)
            BY <2>2, <3>1, <3>3, <5>1
          <6>2. Fair(b[Grand]) /\ At(b, Grand, 1) # NoTeam
            BY <1>5, <2>4, <3>3 DEF Sound, Hung, Plays
          <6>. QED
            BY <6>1, <6>2 DEF Fair, Sends
        <5>. QED
          BY <5>1 DEF Ways
      <4>. QED
        BY <2>2, <3>1, <3>3, <4>1
    <3>. QED
      BY <3>2, <3>3 DEF Ways
  <2>5. GrandReset \in DOMAIN b \/ GrandReset \notin DOMAIN b
    OBVIOUS
  <2>6. 1 \in Ways /\ Grand \in DOMAIN b
    BY <1>5 DEF Ways
  <2>. QED
    BY <1>1, <2>1, <2>3, <2>4, <2>6 DEF Twice
<1>. QED
  BY <1>2, <1>3, <1>5 DEF Told

LEMMA ScoredTells ==
  ASSUME NEW x, NEW rank, NEW E, NEW b, World(x, rank, E), Nested(x), Sound(x, E, b, {}), Told(x, E, b),
         NEW m \in DOMAIN b, NoTeam \notin Own(b, m), NEW s \in Ways, NEW kind \in {"PLAYED", "WALKOVER"}
  PROVE  Told(x, E, Scored(x, b, m, s, kind))
<1>1. CASE ~Completed(b, m)
  BY <1>1, FirstTells
<1>2. CASE Completed(b, m) /\ Corrects(b, m, s)
  BY <1>2, CorrectedTells
<1>3. CASE Completed(b, m) /\ ~Corrects(b, m, s)
  BY <1>3, SameTells
<1>. QED
  BY <1>1, <1>2, <1>3

LEMMA LoseTells ==
  ASSUME NEW x, NEW rank, NEW E, NEW b, World(x, rank, E), Sound(x, E, b, {}), Told(x, E, b),
         NEW m \in DOMAIN b, NEW t, t # NoTeam, ~Completed(b, m) => t \in Own(b, m)
  PROVE  Told(x, E, Lose(x, b, m, t))
<1> DEFINE other == IF b[m].team[1] = t THEN 2 ELSE 1
<1>0. Lose(x, b, m, t) = IF Completed(b, m) THEN b
                         ELSE IF b[m].team[other] = NoTeam THEN CheckAndAdvance(x, b, m)
                         ELSE Scored(x, b, m, other, "WALKOVER")
  BY DEF Lose
<1>1. other \in Ways
  BY DEF Ways
<1>2. CASE Completed(b, m)
  BY <1>0, <1>2
<1>3. CASE ~Completed(b, m) /\ b[m].team[other] = NoTeam
  <2>1. Lose(x, b, m, t) = CheckAndAdvance(x, b, m)
    BY <1>0, <1>3
  <2> DEFINE D == {}
             c == CheckAndAdvance(x, b, m)
  <2>2. Sound(x, E, b, D)
    OBVIOUS
  <2>. HIDE DEF D, c
  <2>3. Keeps(x, b, c)
    BY <2>2, AdvanceSound DEF c
  <2>4. NoTeam \notin E /\ Reset(b)
    BY DEF World, Sound
  <2>5. Told(x, E, c)
    BY <2>3, <2>4, KeepsTells DEF Told
  <2>. QED
    BY <2>1, <2>5 DEF c
<1>4. CASE ~Completed(b, m) /\ b[m].team[other] # NoTeam
  <2>1. NoTeam \notin Own(b, m)
    <3>1. t \in {b[m].team[1], b[m].team[2]}
      BY <1>4 DEF Own, At
    <3>. QED
      BY <1>4, <3>1 DEF Own, At
  <2>2. Lose(x, b, m, t) = Scored(x, b, m, other, "WALKOVER")
    BY <1>0, <1>4
  <2>. HIDE DEF other
  <2>. QED
    BY <1>1, <1>4, <2>1, <2>2, FirstTells
<1>. QED
  BY <1>2, <1>3, <1>4

\* A team more is withdrawn, or one is deleted.
LEMMA MoreGoneTells ==
  ASSUME NEW x, NEW y, NEW E, NEW b, Told(x, E, b), x.gone \subseteq y.gone
  PROVE  Told(y, E, b)
<1>1. \A t : Plays(y, t) => Plays(x, t)
  BY DEF Plays
<1>2. Begun(y, E, b)
  BY DEF Told, Begun
<1>3. Honest(y, b)
  BY <1>1 DEF Told, Honest
<1>4. Twice(y, b)
  BY <1>1 DEF Told, Twice
<1>. QED
  BY <1>2, <1>3, <1>4 DEF Told

LEMMA WithoutTells ==
  ASSUME NEW x, NEW y, NEW E, NEW b, NEW t, t # NoTeam, NoTeam \notin E, b \in [DOMAIN b -> Records(E)], Told(x, E, b),
         y.gone = x.gone \ {t}
  PROVE  Told(y, E \ {t}, Without(b, t))
<1> DEFINE c == Without(b, t)
<1>1. /\ DOMAIN c = DOMAIN b
      /\ \A m \in DOMAIN b : /\ c[m].status = b[m].status
                             /\ c[m].winner = Un(b[m].winner, t) /\ c[m].loser = Un(b[m].loser, t)
                             /\ c[m].team[1] = Un(b[m].team[1], t) /\ c[m].team[2] = Un(b[m].team[2], t)
  <2>. HIDE DEF c
  <2>1. Emptied(E, b, c, t)
    BY WithoutIs DEF c
  <2>. QED
    BY <2>1 DEF Emptied
<1>. HIDE DEF c
<1>2. \A m \in DOMAIN b : /\ Completed(c, m) <=> Completed(b, m)
                          /\ \A w \in Ways : At(c, m, w) = Un(At(b, m, w), t) /\ Sends(c, m, w) = Un(Sends(b, m, w), t)
                          /\ c[m].winner = Un(b[m].winner, t) /\ c[m].loser = Un(b[m].loser, t)
  BY <1>1 DEF Completed, At, Sends, Ways
<1>3. \A v : Plays(y, Un(v, t)) => Un(v, t) = v /\ Plays(x, v)
  BY DEF Un, Plays
<1>4. Begun(y, E \ {t}, c)
  <2>. SUFFICES ASSUME NEW u \in (E \ {t}) \ y.gone
       PROVE  \E n \in DOMAIN c, s \in Ways : Early(n) /\ At(c, n, s) = u
    BY DEF Begun
  <2>1. PICK n \in DOMAIN b, s \in Ways : Early(n) /\ At(b, n, s) = u
    BY DEF Told, Begun
  <2>2. At(c, n, s) = u
    BY <1>2, <2>1 DEF Un
  <2>. QED
    BY <1>1, <2>1, <2>2
<1>5. Honest(y, c)
  <2>. SUFFICES ASSUME NEW n \in DOMAIN b, NEW s \in Ways, Completed(c, n), Plays(y, At(c, n, s))
       PROVE  At(c, n, s) \in {c[n].winner, c[n].loser}
    BY <1>1 DEF Honest
  <2>1. At(c, n, s) = At(b, n, s) /\ Plays(x, At(b, n, s)) /\ Completed(b, n)
    BY <1>2, <1>3
  <2>2. At(b, n, s) \in {b[n].winner, b[n].loser}
    BY <2>1 DEF Told, Honest
  <2>. QED
    BY <1>2, <2>1, <2>2
<1>6. Twice(y, c)
  <2>. SUFFICES ASSUME Grand \in DOMAIN b, Completed(c, Grand)
       PROVE  /\ GrandReset \in DOMAIN b => \A v \in Ways : Plays(y, At(c, Grand, v)) =>
                  At(c, GrandReset, v) = At(c, Grand, v) /\ Sends(c, Grand, 3 - v) = At(c, Grand, v)
              /\ GrandReset \notin DOMAIN b /\ Plays(y, At(c, Grand, 1)) => c[Grand].winner = At(c, Grand, 1)
    BY <1>1 DEF Twice
  <2>1. Completed(b, Grand) /\ Twice(x, b)
    BY <1>2 DEF Told
  <2>2. ASSUME GrandReset \in DOMAIN b, NEW v \in Ways, Plays(y, At(c, Grand, v))
        PROVE  At(c, GrandReset, v) = At(c, Grand, v) /\ Sends(c, Grand, 3 - v) = At(c, Grand, v)
    <3>1. At(c, Grand, v) = At(b, Grand, v) /\ Plays(x, At(b, Grand, v)) /\ Un(At(b, Grand, v), t) = At(b, Grand, v)
      BY <1>2, <1>3, <2>2
    <3>2. At(b, GrandReset, v) = At(b, Grand, v) /\ Sends(b, Grand, 3 - v) = At(b, Grand, v)
      BY <2>1, <2>2, <3>1 DEF Twice
    <3>3. 3 - v \in Ways
      BY DEF Ways
    <3>. QED
      BY <1>2, <2>2, <3>1, <3>2, <3>3
  <2>3. ASSUME GrandReset \notin DOMAIN b, Plays(y, At(c, Grand, 1)) PROVE c[Grand].winner = At(c, Grand, 1)
    <3>1. At(c, Grand, 1) = At(b, Grand, 1) /\ Plays(x, At(b, Grand, 1)) /\ Un(At(b, Grand, 1), t) = At(b, Grand, 1)
      BY <1>2, <1>3, <2>3 DEF Ways
    <3>. QED
      BY <1>2, <2>1, <2>3, <3>1 DEF Twice
  <2>. QED
    BY <2>2, <2>3
<1>. QED
  BY <1>4, <1>5, <1>6 DEF c, Told

LEMMA ForfeitedTells ==
  ASSUME NEW x, NEW rank, NEW E, NEW b, World(x, rank, E), Sound(x, E, b, {}), NEW t, t # NoTeam
  PROVE  /\ Sound(x, E, Forfeited(x, b, t), {}) /\ Stays(b, Forfeited(x, b, t))
         /\ Told(x, E, b) => Told(x, E, Forfeited(x, b, t))
         /\ \A m \in OpenOf(b, t) : NoTeam \notin Own(b, m) => Completed(Forfeited(x, b, t), m)
<1> DEFINE order == x.tree.order
           L == Len(order)
           S == OpenOf(b, t)
           Good(c) == Sound(x, E, c, {}) /\ Stays(b, c) /\ (Told(x, E, b) => Told(x, E, c))
           X == {c \in UNION {[K -> Records(E)] : K \in SUBSET Ids(x)} : Good(c)}
           Body(i, y) == IF order[i] \in S THEN Lose(x, y, order[i], t) ELSE y
           G == [p \in Nat \X X |-> Body(p[1], p[2])]
           c == Forfeits(x, b, t)
<1>0. \A y : y \in X <=> Sound(x, E, y, {}) /\ Stays(b, y) /\ (Told(x, E, b) => Told(x, E, y))
  <2>1. \A y : Sound(x, E, y, {}) => y \in [DOMAIN y -> Records(E)] /\ DOMAIN y \in SUBSET Ids(x)
    BY DEF Sound, Hung
  <2>. QED
    BY <2>1
<1>1. b \in X /\ L \in Nat
  <2>. HIDE DEF X
  <2>. QED
    BY <1>0, LenProperties, StaysReflexive DEF World, Shape
<1>s. \A m \in S : m \in DOMAIN b /\ ~Completed(b, m) /\ t \in Own(b, m)
  BY DEF OpenOf, Own, At
<1>o. \A m \in S : \E i \in 1..L : order[i] = m
  BY <1>s DEF World, Shape, Sound, Hung
<1>. HIDE DEF X, S
<1>y. \A i, y : y \in X /\ order[i] \in S =>
          /\ Lose(x, y, order[i], t) \in X
          /\ Stays(y, Lose(x, y, order[i], t))
          /\ NoTeam \notin Own(b, order[i]) => Completed(Lose(x, y, order[i], t), order[i])
  <2>. SUFFICES ASSUME NEW i, NEW y \in X, order[i] \in S
       PROVE  /\ Lose(x, y, order[i], t) \in X /\ Stays(y, Lose(x, y, order[i], t))
              /\ NoTeam \notin Own(b, order[i]) => Completed(Lose(x, y, order[i], t), order[i])
    OBVIOUS
  <2> DEFINE m == order[i]
  <2>. HIDE DEF m
  <2>1. Sound(x, E, y, {}) /\ Stays(b, y) /\ (Told(x, E, b) => Told(x, E, y)) /\ m \in S
    BY <1>0 DEF m
  <2>2. m \in DOMAIN y /\ (~Completed(y, m) => t \in Own(y, m))
    <3>1. m \in DOMAIN b /\ t \in Own(b, m)
      BY <1>s, <2>1
    <3>2. PICK v \in Ways : t = At(b, m, v)
      BY <3>1 DEF Own, Ways
    <3>3. ~Completed(y, m) => At(y, m, v) = t
      BY <2>1, <3>1, <3>2 DEF Stays
    <3>4. At(y, m, v) \in Own(y, m)
      BY DEF Own, Ways
    <3>. QED
      BY <2>1, <3>1, <3>3, <3>4 DEF Stays
  <2>3. /\ Sound(x, E, Lose(x, y, m, t), {}) /\ Stays(y, Lose(x, y, m, t))
        /\ NoTeam \notin Own(y, m) => Completed(Lose(x, y, m, t), m)
    BY <2>1, <2>2, LoseSound
  <2>a. NoTeam \notin Own(b, m) => NoTeam \notin Own(y, m)
    BY <1>s, <2>1 DEF Stays, Own, At
  <2>4. Told(x, E, y) => Told(x, E, Lose(x, y, m, t))
    BY <2>1, <2>2, LoseTells
  <2>5. Lose(x, y, m, t) \in X
    BY <1>0, <2>1, <2>3, <2>4, StaysTransitive
  <2>. QED
    BY <2>3, <2>5, <2>a DEF m
<1>2. \A i, y : y \in X => Body(i, y) \in X
  BY <1>y
<1>3. \A i \in Nat, y \in X : G[<<i, y>>] = Body(i, y) /\ G[<<i, y>>] \in X
  <2>. HIDE DEF Body
  <2>. QED
    BY <1>2
<1>. HIDE DEF G
<1>4. Stepping(X, G)
  BY <1>3 DEF Stepping
<1>5. PICK f : IteratesTo(X, b, L, G, f)
  <2>. HIDE DEF L
  <2>. QED
    BY <1>1, <1>4, RecursionTo
<1>6. f \in [0..L -> X] /\ f[0] = b /\ \A i \in 1..L : f[i] = G[<<i, f[i - 1]>>]
  BY <1>5 DEF IteratesTo
<1>7. \A i \in 0..L : f[i] = IF i = 0 THEN b ELSE Body(i, f[i - 1])
  <2>. TAKE i \in 0..L
  <2>1. CASE i = 0
    BY <1>6, <2>1
  <2>2. CASE i # 0
    <3>1. i \in 1..L /\ i \in Nat /\ i - 1 \in 0..L
      BY <1>1, <2>2
    <3>2. f[i] = G[<<i, f[i - 1]>>] /\ f[i - 1] \in X
      BY <1>6, <3>1
    <3>. HIDE DEF Body
    <3>. QED
      BY <1>3, <2>2, <3>1, <3>2
  <2>. QED
    BY <2>1, <2>2
<1>8. f = [i \in 0..L |-> IF i = 0 THEN b ELSE Body(i, f[i - 1])]
  <2>1. f = [i \in 0..L |-> f[i]]
    BY <1>6
  <2>. HIDE DEF Body, L
  <2>. QED
    BY <1>7, <2>1
<1>9. c = CHOOSE g : g = [i \in 0..L |-> IF i = 0 THEN b
                                         ELSE IF order[i] \in S THEN Lose(x, g[i - 1], order[i], t)
                                         ELSE g[i - 1]]
  BY DEF Forfeits, S
<1>. HIDE DEF c
<1>10. c = [i \in 0..L |-> IF i = 0 THEN b ELSE Body(i, c[i - 1])]
  BY <1>8, <1>9
<1> DEFINE Ends(i, y) == \A j \in 1..i : order[j] \in S /\ NoTeam \notin Own(b, order[j]) => Completed(y, order[j])
           P == {i \in Nat : i <= L => c[i] \in X /\ Ends(i, c[i])}
<1>11. 0 \in P
  BY <1>1, <1>10
<1>12. ASSUME NEW n \in P PROVE n + 1 \in P
  <2>. SUFFICES ASSUME n + 1 <= L PROVE c[n + 1] \in X /\ Ends(n + 1, c[n + 1])
    OBVIOUS
  <2>1. n \in Nat /\ n + 1 \in 0..L /\ (n + 1) - 1 = n /\ n + 1 # 0 /\ c[n] \in X /\ Ends(n, c[n])
    BY <1>1
  <2>2. c[n + 1] = Body(n + 1, c[n])
    <3>. HIDE DEF Body, P, Ends
    <3>. QED
      BY <1>10, <2>1
  <2>3. c[n + 1] \in X
    <3>. HIDE DEF Body, P, Ends
    <3>. QED
      BY <1>2, <2>1, <2>2
  <2>. HIDE DEF P, order
  <2>4. Stays(c[n], c[n + 1])
    BY <1>y, <2>1, <2>2, StaysReflexive
  <2>5. ASSUME NEW j \in 1..(n + 1), order[j] \in S, NoTeam \notin Own(b, order[j])
        PROVE  Completed(c[n + 1], order[j])
    <3>1. CASE j = n + 1
      BY <1>y, <2>1, <2>2, <2>5, <3>1
    <3>2. CASE j # n + 1
      <4>1. j \in 1..n
        BY <2>1, <3>2
      <4>2. Completed(c[n], order[j])
        BY <2>1, <2>5, <4>1
      <4>3. order[j] \in DOMAIN c[n]
        BY <1>0, <1>s, <2>1, <2>5 DEF Stays
      <4>. QED
        BY <2>4, <4>2, <4>3 DEF Stays, Completed
    <3>. QED
      BY <3>1, <3>2
  <2>. QED
    BY <2>3, <2>5
<1>13. P = Nat
  <2>1. P \subseteq Nat
    OBVIOUS
  <2>. HIDE DEF P
  <2>. QED
    BY <1>11, <1>12, <2>1, InductionBySet
<1>14. c[L] \in X /\ Ends(L, c[L])
  BY <1>1, <1>13
<1>15. \A m \in S : NoTeam \notin Own(b, m) => Completed(c[L], m)
  BY <1>14, <1>o
<1>16. Forfeited(x, b, t) = c[L]
  BY DEF Forfeited, c, L, order
<1>. HIDE DEF c, L, order
<1>. QED
  BY <1>0, <1>14, <1>15, <1>16 DEF S


-----------------------------------------------------------------------------
(***************************************************************************)
(* The two sides of a tree: what leads up, and what leads down.            *)
(***************************************************************************)
Up(m) == m[1] \in {"WINNERS", "FINAL"}
Low(m) == m[1] = "LOSERS"
Third(m) == m[1] = "THIRD_PLACE"
Upper(p) == Up(p[1]) \/ p = <<Grand, 1>>
Lower(p) == Low(p[1]) \/ p = <<Grand, 2>>
LastOf(k) == <<"FINAL", k, 1>>

\* Only those who win stay in the upper half.
Sides(x) ==
  /\ \A m \in Ids(x) : Up(m) => \A to \in Out(x, m, 1) : Upper(to)
  /\ \A m \in Ids(x), w \in Ways : \A to \in Out(x, m, w) : Upper(to) => Up(m) /\ w = 1

Doubles(x) ==
  /\ Grand \in Ids(x)
  /\ \A m \in Ids(x) : Up(m) \/ Low(m) \/ m \in {Grand, GrandReset}
  /\ \A m \in Ids(x) : Up(m) => (\E to \in Out(x, m, 1) : Upper(to)) /\ (\E to \in Out(x, m, 2) : Lower(to))
  /\ \A m \in Ids(x) : Low(m) => (\E to \in Out(x, m, 1) : Lower(to)) /\ Out(x, m, 2) = {}

Singles(x, k) ==
  /\ LastOf(k) \in Ids(x) /\ Out(x, LastOf(k), 1) = {}
  /\ \A m \in Ids(x) : Up(m) \/ Third(m)
  /\ \A m \in Ids(x) : Up(m) => m = LastOf(k) \/ \E to \in Out(x, m, 1) : Up(to[1])
  /\ \A m \in Ids(x) : Up(m) => \A to \in Out(x, m, 2) : Third(to[1])
  /\ \A m \in Ids(x), w \in Ways : Third(m) => Out(x, m, w) = {}

LEMMA WbWays ==
  ASSUME NEW md \in {"SINGLE", "DOUBLE"}, NEW k \in Nat \ {0}, NEW r \in 1..k, NEW n
  PROVE  LET m == Wb(md, k, r, n)
         IN /\ Up(m)
            /\ md = "DOUBLE" => (\E to \in To(md, k, m, 1) : Upper(to)) /\ (\E to \in To(md, k, m, 2) : Lower(to))
            /\ md = "SINGLE" => /\ IF r = k THEN m = <<"FINAL", k, n>> /\ To(md, k, m, 1) = {}
                                   ELSE \E to \in To(md, k, m, 1) : Up(to[1])
                                /\ \A to \in To(md, k, m, 2) : Third(to[1])
<1> DEFINE m == Wb(md, k, r, n)
<1>1. m[1] = WbType(md, k, r) /\ m[2] = r /\ m[3] = n /\ m = <<WbType(md, k, r), r, n>>
  BY WbIs
<1>2. \A i, j : Up(Wb(md, k, i, j)) /\ Low(Lb(i, j))
  BY DEF Wb, Lb, Up, Low
<1>3. Up(m)
  BY <1>2
<1>. HIDE DEF m
<1>4. To(md, k, m, 1) = WinnerTo(md, k, m) /\ To(md, k, m, 2) = LoserTo(md, k, m)
  BY DEF To
<1>5. CASE md = "DOUBLE"
  <2>1. m[1] = "WINNERS"
    BY <1>1, <1>5 DEF WbType
  <2>2. \E to \in WinnerTo(md, k, m) : Upper(to)
    <3>1. CASE r < k
      <4> DEFINE q == Wb(md, k, r + 1, Half(n))
      <4>1. WinnerTo(md, k, m) = {<<q, Side(n)>>}
        BY <1>1, <2>1, <3>1 DEF WinnerTo
      <4>2. Up(q)
        BY <1>2
      <4>. HIDE DEF q
      <4>. QED
        BY <4>1, <4>2 DEF Upper
    <3>2. CASE r = k
      <4>1. WinnerTo(md, k, m) = {<<Grand, 1>>}
        BY <1>1, <2>1, <3>2 DEF WinnerTo
      <4>. QED
        BY <4>1 DEF Upper
    <3>. QED
      BY <3>1, <3>2
  <2>3. \E to \in LoserTo(md, k, m) : Lower(to)
    <3>1. CASE k = 1
      <4>1. LoserTo(md, k, m) = {<<Grand, 2>>}
        BY <1>1, <1>5, <2>1, <3>1 DEF LoserTo
      <4>. QED
        BY <4>1 DEF Lower
    <3>2. CASE k > 1 /\ r = 1
      <4> DEFINE q == Lb(1, Half(n))
      <4>1. LoserTo(md, k, m) = {<<q, Side(n)>>}
        BY <1>1, <1>5, <2>1, <3>2 DEF LoserTo
      <4>2. Low(q)
        BY <1>2
      <4>. HIDE DEF q
      <4>. QED
        BY <4>1, <4>2 DEF Lower
    <3>3. CASE k > 1 /\ r > 1
      <4> DEFINE q == Lb(2 * (r - 1), Power[k - r] + 1 - n)
      <4>1. LoserTo(md, k, m) = {<<q, 2>>}
        BY <1>1, <1>5, <2>1, <3>3 DEF LoserTo
      <4>2. Low(q)
        BY <1>2
      <4>. HIDE DEF q
      <4>. QED
        BY <4>1, <4>2 DEF Lower
    <3>. QED
      BY <3>1, <3>2, <3>3
  <2>. QED
    BY <1>3, <1>4, <1>5, <2>2, <2>3 DEF m
<1>6. CASE md = "SINGLE"
  <2>1. \A to \in LoserTo(md, k, m) : Third(to[1])
    BY <1>6 DEF LoserTo, Third, Bronze
  <2>2. CASE r = k
    <3>1. m[1] = "FINAL" /\ m = <<"FINAL", k, n>>
      BY <1>1, <1>6, <2>2 DEF WbType
    <3>2. WinnerTo(md, k, m) = {}
      BY <3>1 DEF WinnerTo
    <3>. QED
      BY <1>3, <1>4, <1>6, <2>1, <2>2, <3>1, <3>2 DEF m
  <2>3. CASE r # k
    <3> DEFINE q == Wb(md, k, r + 1, Half(n))
    <3>1. m[1] = "WINNERS" /\ r < k
      BY <1>1, <1>6, <2>3 DEF WbType
    <3>2. WinnerTo(md, k, m) = {<<q, Side(n)>>}
      BY <1>1, <3>1 DEF WinnerTo
    <3>3. Up(q)
      BY <1>2
    <3>. HIDE DEF q
    <3>4. \E to \in WinnerTo(md, k, m) : Up(to[1])
      BY <3>2, <3>3
    <3>. QED
      BY <1>3, <1>4, <1>6, <2>1, <2>3, <3>4 DEF m
  <2>. QED
    BY <2>2, <2>3
<1>. QED
  BY <1>5, <1>6

LEMMA LbWays ==
  ASSUME NEW md \in {"DOUBLE"}, NEW k \in Nat \ {0}, NEW r \in 1..LbRounds(k), NEW n
  PROVE  LET m == Lb(r, n)
         IN Low(m) /\ (\E to \in To(md, k, m, 1) : Lower(to)) /\ To(md, k, m, 2) = {}
<1> DEFINE m == Lb(r, n)
<1>1. m[1] = "LOSERS" /\ m[2] = r /\ m[3] = n
  BY LbIs
<1>2. \A i, j : Low(Lb(i, j))
  BY DEF Lb, Low
<1>3. LbRounds(k) \in Nat
  BY DEF LbRounds
<1>. HIDE DEF m
<1>4. CASE r = LbRounds(k)
  <2>1. WinnerTo(md, k, m) = {<<Grand, 2>>}
    BY <1>1, <1>4 DEF WinnerTo
  <2>. QED
    BY <1>1, <2>1 DEF Lower, Low, To, LoserTo, m
<1>5. CASE r # LbRounds(k)
  <2> DEFINE a == Lb(r + 1, n)
             c == Lb(r + 1, Half(n))
  <2>1. r < LbRounds(k)
    BY <1>3, <1>5
  <2>2. WinnerTo(md, k, m) = {IF r % 2 = 1 THEN <<a, 1>> ELSE <<c, Side(n)>>}
    BY <1>1, <1>5, <2>1 DEF WinnerTo
  <2>3. Low(a) /\ Low(c)
    BY <1>2
  <2>. HIDE DEF a, c
  <2>4. \E to \in WinnerTo(md, k, m) : Lower(to)
    BY <2>2, <2>3 DEF Lower
  <2>. QED
    BY <1>1, <2>4 DEF Low, To, LoserTo, m
<1>. QED
  BY <1>4, <1>5

LEMMA SpotIs ==
  ASSUME NEW md \in {"SINGLE", "DOUBLE"}, NEW k \in Nat \ {0}, NEW m, Spot(md, k, m)
  PROVE  /\ Depth(k, m) \in 2..(4 * k + 11) /\ (Early(m) => Depth(k, m) = 2)
         /\ md = "DOUBLE" => Up(m) \/ Low(m) \/ m \in {Grand, GrandReset}
         /\ md = "SINGLE" => Up(m) \/ Third(m)
         /\ Up(m) => \E r \in 1..k : \E n \in 1..Power[k - r] : m = Wb(md, k, r, n)
         /\ Low(m) => md = "DOUBLE" /\ \E r \in 1..LbRounds(k) : \E n \in 1..LbCount(k, r) : m = Lb(r, n)
         /\ Third(m) => m = Bronze(k)
<1>0. ~Up(Grand) /\ ~Up(GrandReset) /\ ~Low(Grand) /\ ~Low(GrandReset) /\ ~Third(Grand) /\ ~Third(GrandReset)
  BY DEF Up, Low, Third, Grand, GrandReset
<1>1. CASE \E r \in 1..k : \E n \in 1..Power[k - r] : m = Wb(md, k, r, n)
  <2>r. PICK r \in 1..k : \E n \in 1..Power[k - r] : m = Wb(md, k, r, n)
    BY <1>1
  <2>1. PICK n \in 1..Power[k - r] : m = Wb(md, k, r, n)
    BY <2>r
  <2>2. m[1] \in {"WINNERS", "FINAL"} /\ m[2] = r /\ Depth(k, m) = 2 * r
    BY <2>1, WbIs
  <2>3. Depth(k, m) \in 2..(4 * k + 11) /\ (Early(m) => Depth(k, m) = 2)
    BY <2>2 DEF Early
  <2>4. Up(m) /\ ~Low(m) /\ ~Third(m)
    BY <2>2 DEF Up, Low, Third
  <2>. QED
    BY <1>1, <2>3, <2>4
<1>2. CASE md = "DOUBLE" /\ \E r \in 1..LbRounds(k) : \E n \in 1..LbCount(k, r) : m = Lb(r, n)
  <2>r. PICK r \in 1..LbRounds(k) : \E n \in 1..LbCount(k, r) : m = Lb(r, n)
    BY <1>2
  <2>1. PICK n \in 1..LbCount(k, r) : m = Lb(r, n)
    BY <2>r
  <2>2. m[1] = "LOSERS" /\ Depth(k, m) = 2 * r + 3
    BY <2>1, LbIs
  <2>3. Depth(k, m) \in 2..(4 * k + 11) /\ ~Early(m)
    BY <2>2 DEF Early, LbRounds
  <2>4. ~Up(m) /\ Low(m) /\ ~Third(m)
    BY <2>2 DEF Up, Low, Third
  <2>. QED
    BY <1>2, <2>3, <2>4
<1>3. CASE md = "DOUBLE" /\ m \in {Grand, GrandReset}
  <2>1. Depth(k, m) \in {4 * k + 10, 4 * k + 11} /\ ~Early(m)
    BY <1>3 DEF Depth, Early, Grand, GrandReset
  <2>2. Depth(k, m) \in 2..(4 * k + 11)
    BY <2>1
  <2>. QED
    BY <1>0, <1>3, <2>1, <2>2
<1>4. CASE md = "SINGLE" /\ m = Bronze(k)
  <2>1. Third(m) /\ ~Up(m) /\ ~Low(m) /\ ~Early(m) /\ Depth(k, m) = 4 * k + 10
    BY <1>4 DEF Third, Up, Low, Early, Bronze, Depth
  <2>2. Depth(k, m) \in 2..(4 * k + 11)
    BY <2>1
  <2>. QED
    BY <1>4, <2>1, <2>2
<1>. QED
  BY <1>1, <1>2, <1>3, <1>4 DEF Spot

LEMMA KnownSides ==
  ASSUME NEW md \in Modes, NEW k \in Sizes, NEW w
  PROVE  LET x == Known(md, k, w)
         IN /\ Nested(x) /\ \A m \in Ids(x) : RankOf(md, k)[m] <= 4 * k + 11
            /\ md = "DOUBLE" => Doubles(x)
            /\ md = "SINGLE" => Singles(x, k)
<1> DEFINE x == Known(md, k, w)
           rank == RankOf(md, k)
<1>0. md \in {"SINGLE", "DOUBLE"} /\ k \in Nat \ {0}
  BY BoundAssumption DEF Sizes
<1>1. /\ Shape(x, rank) /\ Deepens(x, rank)
      /\ \A m : m \in Ids(x) <=> Spot(md, k, m)
      /\ \A m \in Ids(x), v \in Ways : Out(x, m, v) = To(md, k, m, v)
  BY KnownShape
<1>2. \A m \in Ids(x) : rank[m] = Depth(k, m)
  <2>1. \A m : m \in RangeOf(Rounds(md, k)) <=> Spot(md, k, m)
    BY <1>0, RoundsHold
  <2>2. \A m \in RangeOf(Rounds(md, k)) : rank[m] = Depth(k, m)
    BY DEF RankOf, Deep
  <2>. QED
    BY <1>1, <2>1, <2>2
<1>. HIDE DEF x, rank
<1>3. \A m \in Ids(x) :
        /\ rank[m] \in 2..(4 * k + 11) /\ (Early(m) => rank[m] = 2)
        /\ md = "DOUBLE" => Up(m) \/ Low(m) \/ m \in {Grand, GrandReset}
        /\ md = "SINGLE" => Up(m) \/ Third(m)
        /\ Up(m) => \E r \in 1..k : \E n \in 1..Power[k - r] : m = Wb(md, k, r, n)
        /\ Low(m) => md = "DOUBLE" /\ \E r \in 1..LbRounds(k) : \E n \in 1..LbCount(k, r) : m = Lb(r, n)
        /\ Third(m) => m = Bronze(k)
  BY <1>0, <1>1, <1>2, SpotIs
<1>4. 1 \in Ways /\ 2 \in Ways
  BY DEF Ways
<1>5. Nested(x)
  <2>. SUFFICES ASSUME NEW m \in Ids(x), NEW d \in Below(x, m)
       PROVE  ~Early(d) /\ (d = GrandReset => Grand \in Below(x, m) \cup {m})
    BY DEF Nested
  <2>1. d \in Ids(x) /\ rank[m] < rank[d] /\ (d = GrandReset => Grand \in Below(x, m) \cup {m})
    BY <1>1 DEF Shape, Deepens
  <2>2. rank[m] \in 2..(4 * k + 11) /\ rank[d] \in 2..(4 * k + 11) /\ (Early(d) => rank[d] = 2)
    BY <1>3, <2>1
  <2>. QED
    BY <2>1, <2>2
<1>6. \A m \in Ids(x) : rank[m] <= 4 * k + 11
  BY <1>0, <1>3
<1>7. ASSUME md = "DOUBLE" PROVE Doubles(x)
  <2>1. Grand \in Ids(x)
    BY <1>1, <1>7 DEF Spot
  <2>2. ASSUME NEW m \in Ids(x), Up(m)
        PROVE  (\E to \in Out(x, m, 1) : Upper(to)) /\ (\E to \in Out(x, m, 2) : Lower(to))
    <3>r. PICK r \in 1..k : \E n \in 1..Power[k - r] : m = Wb(md, k, r, n)
      BY <1>3, <2>2
    <3>1. PICK n \in 1..Power[k - r] : m = Wb(md, k, r, n)
      BY <3>r
    <3>2. (\E to \in To(md, k, m, 1) : Upper(to)) /\ (\E to \in To(md, k, m, 2) : Lower(to))
      BY <1>0, <1>7, <3>1, WbWays
    <3>. QED
      BY <1>1, <1>4, <3>2
  <2>3. ASSUME NEW m \in Ids(x), Low(m)
        PROVE  (\E to \in Out(x, m, 1) : Lower(to)) /\ Out(x, m, 2) = {}
    <3>r. PICK r \in 1..LbRounds(k) : \E n \in 1..LbCount(k, r) : m = Lb(r, n)
      BY <1>3, <2>3
    <3>1. PICK n \in 1..LbCount(k, r) : m = Lb(r, n)
      BY <3>r
    <3>2. (\E to \in To(md, k, m, 1) : Lower(to)) /\ To(md, k, m, 2) = {}
      BY <1>0, <1>7, <3>1, LbWays
    <3>. QED
      BY <1>1, <1>4, <3>2
  <2>. QED
    BY <1>3, <1>7, <2>1, <2>2, <2>3 DEF Doubles
<1>8. ASSUME md = "SINGLE" PROVE Singles(x, k)
  <2>0. Power[0] = 1 /\ k - k = 0 /\ k \in 1..k
    BY <1>0, PowerIs
  <2>1. LastOf(k) = Wb(md, k, k, 1)
    BY <1>8 DEF Wb, LastOf
  <2>2. LastOf(k) \in Ids(x)
    <3>1. 1 \in 1..Power[k - k]
      BY <2>0
    <3>2. Spot(md, k, LastOf(k))
      BY <2>0, <2>1, <3>1 DEF Spot
    <3>. QED
      BY <1>1, <3>2
  <2>3. Out(x, LastOf(k), 1) = {}
    <3>1. To(md, k, LastOf(k), 1) = {}
      BY <1>0, <1>8, <2>0, <2>1, WbWays
    <3>. QED
      BY <1>1, <1>4, <2>2, <3>1
  <2>4. ASSUME NEW m \in Ids(x), Up(m)
        PROVE  /\ m = LastOf(k) \/ \E to \in Out(x, m, 1) : Up(to[1])
               /\ \A to \in Out(x, m, 2) : Third(to[1])
    <3>r. PICK r \in 1..k : \E n \in 1..Power[k - r] : m = Wb(md, k, r, n)
      BY <1>3, <2>4
    <3>1. PICK n \in 1..Power[k - r] : m = Wb(md, k, r, n)
      BY <3>r
    <3>2. /\ IF r = k THEN m = <<"FINAL", k, n>> ELSE \E to \in To(md, k, m, 1) : Up(to[1])
          /\ \A to \in To(md, k, m, 2) : Third(to[1])
      BY <1>0, <1>8, <3>1, WbWays
    <3>3. r = k => n = 1
      BY <2>0
    <3>. QED
      BY <1>1, <1>4, <3>2, <3>3 DEF LastOf
  <2>5. ASSUME NEW m \in Ids(x), NEW v \in Ways, Third(m) PROVE Out(x, m, v) = {}
    <3>1. m[1] = "THIRD_PLACE" /\ m[2] = k
      BY <1>3, <2>5 DEF Bronze
    <3>2. k # k - 1
      BY <1>0
    <3>3. To(md, k, m, v) = {}
      BY <1>8, <3>1, <3>2 DEF To, WinnerTo, LoserTo
    <3>. QED
      BY <1>1, <3>3
  <2>. QED
    BY <1>3, <1>8, <2>2, <2>3, <2>4, <2>5 DEF Singles
<1>. QED
  BY <1>5, <1>6, <1>7, <1>8 DEF x, rank

LEMMA DoubleSides ==
  ASSUME NEW x, NEW rank, Leads(x, rank), Doubles(x)
  PROVE  Sides(x)
<1>0. 1 \in Ways /\ 2 \in Ways
  BY DEF Ways
<1>1. \A m \in Ids(x), w \in Ways : /\ \A to, at \in Out(x, m, w) : to = at
                                    /\ m \in {Grand, GrandReset} => Out(x, m, w) = {}
  BY DEF Leads
<1>2. \A p : Lower(p) => ~Upper(p)
  BY DEF Lower, Upper, Low, Up, Grand
<1>3. ASSUME NEW m \in Ids(x), Up(m), NEW to \in Out(x, m, 1) PROVE Upper(to)
  BY <1>0, <1>1, <1>3 DEF Doubles
<1>4. ASSUME NEW m \in Ids(x), NEW w \in Ways, NEW to \in Out(x, m, w), Upper(to) PROVE Up(m) /\ w = 1
  <2>1. m \notin {Grand, GrandReset}
    BY <1>1
  <2>2. ~Low(m)
    <3>. SUFFICES ASSUME Low(m) PROVE FALSE
      OBVIOUS
    <3>1. PICK at \in Out(x, m, 1) : Lower(at)
      BY DEF Doubles
    <3>2. Out(x, m, 2) = {}
      BY DEF Doubles
    <3>3. w = 1
      BY <3>2 DEF Ways
    <3>. QED
      BY <1>0, <1>1, <1>2, <1>4, <3>1, <3>3
  <2>3. Up(m)
    BY <2>1, <2>2 DEF Doubles
  <2>4. w # 2
    <3>1. PICK at \in Out(x, m, 2) : Lower(at)
      BY <2>3 DEF Doubles
    <3>. QED
      BY <1>0, <1>1, <1>2, <1>4, <3>1
  <2>. QED
    BY <2>3, <2>4 DEF Ways
<1>. QED
  BY <1>3, <1>4 DEF Sides

LEMMA SingleSides ==
  ASSUME NEW x, NEW rank, Leads(x, rank), NEW k, Singles(x, k)
  PROVE  Sides(x)
<1>0. 1 \in Ways /\ 2 \in Ways
  BY DEF Ways
<1>1. \A m \in Ids(x), w \in Ways : \A to \in Out(x, m, w) : to[1] \in Ids(x) /\ \A at \in Out(x, m, w) : to = at
  BY DEF Leads, SlotsOf
<1>2. \A m \in Ids(x) : Up(m) \/ Third(m)
  BY DEF Singles
<1>3. Grand \notin Ids(x)
  BY <1>2 DEF Up, Third, Grand
<1>4. \A m \in Ids(x) : Third(m) => ~Up(m)
  BY DEF Third, Up
<1>5. ASSUME NEW m \in Ids(x), Up(m), NEW to \in Out(x, m, 1) PROVE Upper(to)
  <2>1. m # LastOf(k)
    BY <1>5 DEF Singles
  <2>2. PICK at \in Out(x, m, 1) : Up(at[1])
    BY <1>5, <2>1 DEF Singles
  <2>. QED
    BY <1>0, <1>1, <2>2 DEF Upper
<1>6. ASSUME NEW m \in Ids(x), NEW w \in Ways, NEW to \in Out(x, m, w), Upper(to) PROVE Up(m) /\ w = 1
  <2>1. to[1] \in Ids(x) /\ Up(to[1])
    <3>1. to[1] \in Ids(x)
      BY <1>1
    <3>2. to # <<Grand, 1>>
      BY <1>3, <3>1
    <3>. QED
      BY <1>6, <3>1, <3>2 DEF Upper
  <2>2. ~Third(m)
    BY DEF Singles
  <2>3. w # 2
    BY <1>2, <1>4, <2>1, <2>2 DEF Singles
  <2>. QED
    BY <1>2, <2>2, <2>3 DEF Ways
<1>. QED
  BY <1>5, <1>6 DEF Sides

-----------------------------------------------------------------------------
(***************************************************************************)
(* How often an active team can have lost.                                 *)
(***************************************************************************)
Won(b, p, t) == Up(p[1]) /\ Completed(b, p[1]) /\ b[p[1]].winner = t

LEMMA LostIn ==
  ASSUME NEW x, NEW E, NEW b, Hung(x, E, b), NEW m \in DOMAIN b, NEW t, t # NoTeam, b[m].loser = t
  PROVE  /\ Completed(b, m) /\ b[m].winner # t /\ Sends(b, m, 2) = t /\ 2 \in Ways
         /\ \E s \in Ways : At(b, m, s) = t /\ (m # GrandReset => Holds(x, b, <<m, s>>, t))
<1>1. Fair(b[m]) /\ b \in [DOMAIN b -> Records(E)]
  BY DEF Hung
<1>2. Completed(b, m) /\ b[m].winner # t /\ Sends(b, m, 2) = t
  BY <1>1 DEF Fair, Completed, Sends
<1>3. \E s \in Ways : At(b, m, s) = t
  BY <1>1 DEF Fair, At, Ways
<1>4. \A s \in Ways : m # GrandReset => Holds(x, b, <<m, s>>, At(b, m, s))
  BY InTheTree
<1>5. 2 \in Ways
  BY DEF Ways
<1>. QED
  BY <1>2, <1>3, <1>4, <1>5

\* Who is out after a match stands nowhere later.
LEMMA LastStand ==
  ASSUME NEW x, NEW rank, NEW E, NEW b, NEW D, World(x, rank, E), Sound(x, E, b, D),
         NEW t, t # NoTeam, NEW p, NEW q, Holds(x, b, p, t), Holds(x, b, q, t),
         \A w \in Ways : Sends(b, p[1], w) = t => Out(x, p[1], w) = {}
  PROVE  q = p \/ rank[q[1]] < rank[p[1]]
<1>. SUFFICES ASSUME q # p, ~(rank[q[1]] < rank[p[1]]) PROVE FALSE
  OBVIOUS
<1>1. rank[p[1]] \in Nat /\ rank[q[1]] \in Nat
  <2>1. rank \in [Ids(x) -> Nat]
    BY DEF World, Shape
  <2>2. p[1] \in Ids(x) /\ q[1] \in Ids(x)
    BY DEF Holds, SlotsOf
  <2>. QED
    BY <2>1, <2>2
<1>2. rank[p[1]] <= rank[q[1]] /\ p # q
  BY <1>1
<1>3. Goes(x, rank, b, p, q, t)
  BY <1>2, Chain
<1>4. PICK w \in Ways : Sends(b, p[1], w) = t /\ \E r \in Out(x, p[1], w) : r = q \/ rank[r[1]] < rank[q[1]]
  BY <1>3 DEF Goes
<1>. QED
  BY <1>4

LEMMA WonStep ==
  ASSUME NEW x, NEW rank, NEW E, NEW b, NEW D, World(x, rank, E), Sound(x, E, b, D), Sides(x),
         NEW t, t # NoTeam, NEW p, NEW q, Holds(x, b, p, t), Holds(x, b, q, t), Upper(q), p # q,
         rank[p[1]] <= rank[q[1]],
         \A j : /\ Holds(x, b, j, t) /\ Upper(j) /\ p # j
                /\ rank[p[1]] <= rank[j[1]] /\ rank[j[1]] < rank[q[1]]
                => Won(b, p, t)
  PROVE  Won(b, p, t)
<1>0. rank[p[1]] \in Nat /\ rank[q[1]] \in Nat /\ Hung(x, E, b)
  <2>1. rank \in [Ids(x) -> Nat]
    BY DEF World, Shape
  <2>2. p[1] \in Ids(x) /\ q[1] \in Ids(x)
    BY DEF Holds, SlotsOf
  <2>. QED
    BY <2>1, <2>2 DEF Sound
<1>1. Feeds(x, q[1], q[2]) # {}
  <2>1. Goes(x, rank, b, p, q, t)
    BY Chain
  <2>. QED
    BY <2>1 DEF Goes
<1>2. PICK f : f \in Feeds(x, q[1], q[2])
  BY <1>1
<1>3. /\ f[1] \in DOMAIN b /\ f[2] \in Ways /\ Completed(b, f[1]) /\ Sends(b, f[1], f[2]) = t
      /\ Out(x, f[1], f[2]) = {q} /\ rank[f[1]] < rank[q[1]]
      /\ \E s \in Ways : Holds(x, b, <<f[1], s>>, t)
  BY <1>2, CameFrom
<1>4. PICK s \in Ways : Holds(x, b, <<f[1], s>>, t)
  BY <1>3
<1>5. f[1] \in Ids(x) /\ rank[f[1]] \in Nat
  <2>1. rank \in [Ids(x) -> Nat] /\ DOMAIN b \subseteq Ids(x)
    BY <1>0 DEF World, Shape, Hung
  <2>. QED
    BY <1>3, <2>1
<1>6. Up(f[1]) /\ f[2] = 1
  BY <1>3, <1>5 DEF Sides
<1>7. b[f[1]].winner = t
  BY <1>3, <1>6 DEF Sends
<1>8. CASE p[1] = f[1]
  BY <1>3, <1>6, <1>7, <1>8 DEF Won
<1>9. CASE p[1] # f[1]
  <2> DEFINE j == <<f[1], s>>
  <2>1. j[1] = f[1] /\ Holds(x, b, j, t) /\ Upper(j) /\ p # j
    BY <1>4, <1>6, <1>9 DEF Upper
  <2>. HIDE DEF j
  <2>2. CASE rank[p[1]] <= rank[f[1]]
    BY <1>3, <2>1, <2>2
  <2>3. CASE ~(rank[p[1]] <= rank[f[1]])
    <3>1. rank[j[1]] <= rank[p[1]] /\ j # p
      BY <1>0, <1>5, <2>1, <2>3
    <3>2. Goes(x, rank, b, j, p, t)
      BY <2>1, <3>1, Chain
    <3>3. PICK w \in Ways : Sends(b, j[1], w) = t /\ \E r \in Out(x, j[1], w) : r = p \/ rank[r[1]] < rank[p[1]]
      BY <3>2 DEF Goes
    <3>4. w = f[2]
      BY <1>0, <1>3, <2>1, <3>3, SendsOnce
    <3>. QED
      BY <1>0, <1>3, <2>1, <3>3, <3>4
  <2>. QED
    BY <2>2, <2>3
<1>. QED
  BY <1>8, <1>9

\* Whoever comes to stand in the upper half has won all before.
LEMMA WonBefore ==
  ASSUME NEW x, NEW rank, NEW E, NEW b, NEW D, World(x, rank, E), Sound(x, E, b, D), Sides(x),
         NEW t, t # NoTeam, NEW p, NEW q, Holds(x, b, p, t), Holds(x, b, q, t), Upper(q), p # q,
         rank[p[1]] <= rank[q[1]]
  PROVE  Won(b, p, t)
<1> DEFINE Near(n) == \A j : /\ Holds(x, b, j, t) /\ Upper(j) /\ p # j
                             /\ rank[p[1]] <= rank[j[1]] /\ rank[j[1]] < n
                             => Won(b, p, t)
           P == {n \in Nat : Near(n)}
<1>0. \A j : Holds(x, b, j, t) => rank[j[1]] \in Nat
  <2>1. rank \in [Ids(x) -> Nat]
    BY DEF World, Shape
  <2>. QED
    BY <2>1 DEF Holds, SlotsOf
<1>1. 0 \in P
  <2>1. \A j : Holds(x, b, j, t) => ~(rank[j[1]] < 0)
    BY <1>0
  <2>. QED
    BY <2>1
<1>2. ASSUME NEW n \in P PROVE n + 1 \in P
  <2>1. n \in Nat /\ Near(n)
    OBVIOUS
  <2>2. ASSUME NEW j, Holds(x, b, j, t), Upper(j), p # j, rank[p[1]] <= rank[j[1]], rank[j[1]] < n + 1
        PROVE  Won(b, p, t)
    <3>1. \A i : /\ Holds(x, b, i, t) /\ Upper(i) /\ p # i
                 /\ rank[p[1]] <= rank[i[1]] /\ rank[i[1]] < rank[j[1]]
                 => Won(b, p, t)
      <4>. TAKE i
      <4>1. Holds(x, b, i, t) /\ rank[i[1]] < rank[j[1]] => rank[i[1]] < n
        BY <1>0, <2>1, <2>2
      <4>. QED
        BY <2>1, <4>1
    <3>. QED
      BY <2>2, <3>1, WonStep
  <2>. QED
    BY <2>1, <2>2
<1>3. P = Nat
  <2>. HIDE DEF Near
  <2>1. P \subseteq Nat
    OBVIOUS
  <2>. HIDE DEF P
  <2>. QED
    BY <1>1, <1>2, <2>1, InductionBySet
<1>4. rank[q[1]] + 1 \in P /\ rank[q[1]] < rank[q[1]] + 1
  BY <1>0, <1>3
<1>. QED
  BY <1>4

LEMMA UpperLoss ==
  ASSUME NEW x, NEW rank, NEW E, NEW b, NEW D, World(x, rank, E), Sound(x, E, b, D), Sides(x),
         NEW t, t # NoTeam, NEW m \in DOMAIN b, m # GrandReset, b[m].loser = t, NEW q, Holds(x, b, q, t), Upper(q)
  PROVE  q[1] = m \/ rank[q[1]] < rank[m]
<1>. SUFFICES ASSUME q[1] # m, ~(rank[q[1]] < rank[m]) PROVE FALSE
  OBVIOUS
<1>1. Hung(x, E, b)
  BY DEF Sound
<1>2. PICK s \in Ways : Holds(x, b, <<m, s>>, t)
  BY <1>1, LostIn
<1> DEFINE p == <<m, s>>
<1>3. Holds(x, b, p, t) /\ p[1] = m /\ p # q
  BY <1>2
<1>. HIDE DEF p
<1>4. rank[p[1]] <= rank[q[1]]
  <2>1. rank \in [Ids(x) -> Nat]
    BY DEF World, Shape
  <2>2. p[1] \in Ids(x) /\ q[1] \in Ids(x)
    BY <1>3 DEF Holds, SlotsOf
  <2>. QED
    BY <1>3, <2>1, <2>2
<1>5. Won(b, p, t)
  BY <1>3, <1>4, WonBefore
<1>6. b[m].winner # t
  BY <1>1, LostIn
<1>. QED
  BY <1>3, <1>5, <1>6 DEF Won

LEMMA OneUpperLoss ==
  ASSUME NEW x, NEW rank, NEW E, NEW b, NEW D, World(x, rank, E), Sound(x, E, b, D), Sides(x),
         NEW t, t # NoTeam, NEW m \in DOMAIN b, NEW n \in DOMAIN b, Up(m), Up(n), b[m].loser = t, b[n].loser = t
  PROVE  m = n
<1>. SUFFICES ASSUME m # n PROVE FALSE
  OBVIOUS
<1>1. Hung(x, E, b) /\ m # GrandReset /\ n # GrandReset
  BY DEF Sound, Up, GrandReset
<1>2. PICK s \in Ways : Holds(x, b, <<m, s>>, t)
  BY <1>1, LostIn
<1>3. PICK v \in Ways : Holds(x, b, <<n, v>>, t)
  BY <1>1, LostIn
<1>4. Upper(<<m, s>>) /\ Upper(<<n, v>>)
  BY DEF Upper
<1>5. rank[n] < rank[m]
  <2> DEFINE q == <<n, v>>
  <2>1. Holds(x, b, q, t) /\ Upper(q) /\ q[1] = n
    BY <1>3, <1>4
  <2>. HIDE DEF q
  <2>. QED
    BY <1>1, <2>1, UpperLoss
<1>6. rank[m] < rank[n]
  <2> DEFINE q == <<m, s>>
  <2>1. Holds(x, b, q, t) /\ Upper(q) /\ q[1] = m
    BY <1>2, <1>4
  <2>. HIDE DEF q
  <2>. QED
    BY <1>1, <2>1, UpperLoss
<1>7. rank[m] \in Nat /\ rank[n] \in Nat
  <2>1. rank \in [Ids(x) -> Nat] /\ DOMAIN b \subseteq Ids(x)
    BY <1>1 DEF World, Shape, Hung
  <2>. QED
    BY <2>1
<1>. QED
  BY <1>5, <1>6, <1>7

\* A match that sends its loser nowhere beats nobody who stands elsewhere later,
\* and nobody who stands in the grand final.
LEMMA OneEnd ==
  ASSUME NEW x, NEW rank, NEW E, NEW b, NEW D, World(x, rank, E), Sound(x, E, b, D),
         NEW t, t # NoTeam, NEW m \in DOMAIN b, m # GrandReset, b[m].loser = t, Out(x, m, 2) = {},
         NEW q, Holds(x, b, q, t), \A w \in Ways : Sends(b, q[1], w) = t => Out(x, q[1], w) = {}
  PROVE  q[1] = m
<1>. SUFFICES ASSUME q[1] # m PROVE FALSE
  OBVIOUS
<1>1. Hung(x, E, b)
  BY DEF Sound
<1>2. Sends(b, m, 2) = t /\ 2 \in Ways /\ \E s \in Ways : Holds(x, b, <<m, s>>, t)
  BY <1>1, LostIn
<1>3. PICK s \in Ways : Holds(x, b, <<m, s>>, t)
  BY <1>2
<1> DEFINE p == <<m, s>>
<1>4. Holds(x, b, p, t) /\ p[1] = m /\ p # q
  BY <1>3
<1>. HIDE DEF p
<1>5. \A w \in Ways : Sends(b, p[1], w) = t => Out(x, p[1], w) = {}
  <2>1. \A w \in Ways : Sends(b, m, w) = t => w = 2
    BY <1>1, <1>2, SendsOnce
  <2>. QED
    BY <1>4, <2>1
<1>6. rank[q[1]] < rank[p[1]]
  BY <1>4, <1>5, LastStand
<1>7. rank[p[1]] < rank[q[1]]
  BY <1>4, LastStand
<1>8. rank[p[1]] \in Nat /\ rank[q[1]] \in Nat
  <2>1. rank \in [Ids(x) -> Nat]
    BY DEF World, Shape
  <2>2. p[1] \in Ids(x) /\ q[1] \in Ids(x)
    BY <1>4 DEF Holds, SlotsOf
  <2>. QED
    BY <2>1, <2>2
<1>. QED
  BY <1>6, <1>7, <1>8

\* What a team of the tournament sends on has arrived.
LEMMA HasArrived ==
  ASSUME NEW x, NEW rank, NEW E, NEW b, World(x, rank, E), Sound(x, E, b, {}),
         NEW t, Plays(x, t), NEW m \in DOMAIN b, NEW w \in Ways, Sends(b, m, w) = t, NEW to \in Out(x, m, w)
  PROVE  Holds(x, b, to, t) /\ rank[m] < rank[to[1]]
<1>1. m \in Ids(x) /\ Ids(x) \ {GrandReset} \subseteq DOMAIN b
  BY DEF Sound, Hung
<1>2. to \in SlotsOf(x) /\ to[1] # GrandReset /\ rank[m] < rank[to[1]]
  BY <1>1 DEF World, Shape, Leads
<1>3. Flows(x, b, {}, m, w, to)
  BY DEF Sound, Follows
<1>4. At(b, to[1], to[2]) = t
  BY <1>3 DEF Flows, Plays
<1>5. to[1] \in DOMAIN b
  BY <1>1, <1>2 DEF SlotsOf
<1>. QED
  BY <1>2, <1>4, <1>5 DEF Holds

\* A way that always goes on among the slots S ends in Z.
LEMMA WayEnds ==
  ASSUME NEW x, NEW rank, NEW E, NEW b, World(x, rank, E), NEW N \in Nat, \A m \in Ids(x) : rank[m] <= N,
         NEW t, NEW S, NEW Z,
         \A q \in S : Holds(x, b, q, t) => q \in Z \/ \E to \in S : Holds(x, b, to, t) /\ rank[q[1]] < rank[to[1]],
         NEW p \in S, Holds(x, b, p, t)
  PROVE  \E z \in Z : Holds(x, b, z, t)
<1> DEFINE Near(n) == \A q \in S : Holds(x, b, q, t) /\ N - rank[q[1]] < n => \E z \in Z : Holds(x, b, z, t)
           P == {n \in Nat : Near(n)}
<1>0. \A q : Holds(x, b, q, t) => rank[q[1]] \in Nat /\ rank[q[1]] <= N
  <2>1. rank \in [Ids(x) -> Nat]
    BY DEF World, Shape
  <2>. QED
    BY <2>1 DEF Holds, SlotsOf
<1>1. 0 \in P
  BY <1>0
<1>2. ASSUME NEW n \in P PROVE n + 1 \in P
  <2>1. n \in Nat /\ Near(n)
    OBVIOUS
  <2>2. ASSUME NEW q \in S, Holds(x, b, q, t), N - rank[q[1]] < n + 1
        PROVE  \E z \in Z : Holds(x, b, z, t)
    <3>1. CASE q \in Z
      BY <2>2, <3>1
    <3>2. CASE q \notin Z
      <4>1. PICK to \in S : Holds(x, b, to, t) /\ rank[q[1]] < rank[to[1]]
        BY <2>2, <3>2
      <4>2. N - rank[to[1]] < n
        BY <1>0, <2>1, <2>2, <4>1
      <4>. QED
        BY <2>1, <4>1, <4>2
    <3>. QED
      BY <3>1, <3>2
  <2>. QED
    BY <2>1, <2>2
<1>3. P = Nat
  <2>. HIDE DEF Near
  <2>1. P \subseteq Nat
    OBVIOUS
  <2>. HIDE DEF P
  <2>. QED
    BY <1>1, <1>2, <2>1, InductionBySet
<1>4. (N - rank[p[1]]) + 1 \in P /\ N - rank[p[1]] < (N - rank[p[1]]) + 1
  BY <1>0, <1>3
<1>. QED
  BY <1>4

\* Without a loss in the upper half an active team wins it.
LEMMA WinsUpper ==
  ASSUME NEW x, NEW rank, NEW E, NEW b, World(x, rank, E), Sound(x, E, b, {}), Sides(x), Told(x, E, b),
         NEW N \in Nat, \A m \in Ids(x) : rank[m] <= N, \A m \in DOMAIN b : Completed(b, m),
         NEW t \in E \ x.gone, \A m \in DOMAIN b : Up(m) => b[m].loser # t
  PROVE  \E q : Holds(x, b, q, t) /\ Upper(q) /\ (Up(q[1]) => Out(x, q[1], 1) = {} /\ b[q[1]].winner = t)
<1> DEFINE S == {q \in SlotsOf(x) : Upper(q)}
           Z == {q \in S : Up(q[1]) => Out(x, q[1], 1) = {} /\ b[q[1]].winner = t}
<1>1. Plays(x, t) /\ t # NoTeam /\ Hung(x, E, b)
  BY DEF Plays, World, Sound
<1>2. PICK m \in DOMAIN b, s \in Ways : Early(m) /\ At(b, m, s) = t
  BY DEF Told, Begun
<1>3. ASSUME NEW q \in S, Holds(x, b, q, t)
      PROVE  q \in Z \/ \E to \in S : Holds(x, b, to, t) /\ rank[q[1]] < rank[to[1]]
  <2>1. CASE ~Up(q[1])
    BY <2>1
  <2>2. CASE Up(q[1])
    <3>1. q[1] \in DOMAIN b /\ q[1] \in Ids(x) /\ q[2] \in Ways /\ At(b, q[1], q[2]) = t
      BY <1>3 DEF Holds, SlotsOf
    <3>2. t \in {b[q[1]].winner, b[q[1]].loser}
      BY <1>1, <3>1 DEF Told, Honest
    <3>3. b[q[1]].winner = t /\ Sends(b, q[1], 1) = t /\ 1 \in Ways
      BY <2>2, <3>1, <3>2 DEF Sends, Ways
    <3>4. CASE Out(x, q[1], 1) = {}
      BY <3>3, <3>4
    <3>5. CASE Out(x, q[1], 1) # {}
      <4>1. PICK to : to \in Out(x, q[1], 1)
        BY <3>5
      <4>2. Holds(x, b, to, t) /\ rank[q[1]] < rank[to[1]]
        BY <1>1, <3>1, <3>3, <4>1, HasArrived
      <4>3. Upper(to) /\ to \in SlotsOf(x)
        BY <2>2, <3>1, <4>1, <4>2 DEF Sides, Holds
      <4>. QED
        BY <4>2, <4>3
    <3>. QED
      BY <3>4, <3>5
  <2>. QED
    BY <2>1, <2>2
<1> DEFINE p == <<m, s>>
<1>4. p \in S /\ Holds(x, b, p, t)
  <2>1. Up(m) /\ m # GrandReset
    BY <1>2 DEF Early, Up, GrandReset
  <2>2. Holds(x, b, p, t)
    BY <1>1, <1>2, <2>1, InTheTree
  <2>. QED
    BY <2>1, <2>2 DEF Upper, Holds
<1>. HIDE DEF p, S, Z
<1>5. \E z \in Z : Holds(x, b, z, t)
  BY <1>3, <1>4, WayEnds
<1>. QED
  BY <1>5 DEF Z, S

\* In the loser bracket an active team loses, or comes to the grand final.
LEMMA WinsLower ==
  ASSUME NEW x, NEW rank, NEW E, NEW b, World(x, rank, E), Sound(x, E, b, {}), Doubles(x), Told(x, E, b),
         NEW N \in Nat, \A m \in Ids(x) : rank[m] <= N, \A m \in DOMAIN b : Completed(b, m),
         NEW t \in E \ x.gone, \A m \in DOMAIN b : Low(m) => b[m].loser # t,
         NEW p, Holds(x, b, p, t), Lower(p)
  PROVE  Holds(x, b, <<Grand, 2>>, t)
<1> DEFINE S == {q \in SlotsOf(x) : Lower(q)}
           Z == {<<Grand, 2>>}
<1>1. Plays(x, t) /\ t # NoTeam
  BY DEF Plays, World
<1>3. ASSUME NEW q \in S, Holds(x, b, q, t)
      PROVE  q \in Z \/ \E to \in S : Holds(x, b, to, t) /\ rank[q[1]] < rank[to[1]]
  <2>1. CASE ~Low(q[1])
    BY <2>1 DEF Lower
  <2>2. CASE Low(q[1])
    <3>1. q[1] \in DOMAIN b /\ q[1] \in Ids(x) /\ q[2] \in Ways /\ At(b, q[1], q[2]) = t
      BY <1>3 DEF Holds, SlotsOf
    <3>2. t \in {b[q[1]].winner, b[q[1]].loser}
      BY <1>1, <3>1 DEF Told, Honest
    <3>3. Sends(b, q[1], 1) = t /\ 1 \in Ways
      BY <2>2, <3>1, <3>2 DEF Sends, Ways
    <3>4. PICK to \in Out(x, q[1], 1) : Lower(to)
      BY <2>2, <3>1 DEF Doubles
    <3>5. Holds(x, b, to, t) /\ rank[q[1]] < rank[to[1]]
      BY <1>1, <3>1, <3>3, HasArrived
    <3>6. to \in SlotsOf(x)
      BY <3>5 DEF Holds
    <3>. QED
      BY <3>4, <3>5, <3>6
  <2>. QED
    BY <2>1, <2>2
<1>4. p \in S
  BY DEF Holds
<1>. HIDE DEF S
<1>5. \E z \in Z : Holds(x, b, z, t)
  <2>. HIDE DEF Z
  <2>. QED
    BY <1>3, <1>4, WayEnds
<1>. QED
  BY <1>5

\* The grand finals of an active team that stands in slot v of the first.
LEMMA GrandStory ==
  ASSUME NEW x, NEW E, NEW b, Hung(x, E, b), Reset(b), Told(x, E, b),
         \A m \in DOMAIN b : Completed(b, m), Grand \in DOMAIN b, NEW t, Plays(x, t), NEW v \in Ways, At(b, Grand, v) = t
  PROVE  LET last == IF GrandReset \in DOMAIN b THEN GrandReset ELSE Grand
             G == {m \in DOMAIN b : m \in {Grand, GrandReset} /\ b[m].loser = t}
         IN /\ v = 1 => IF t = b[last].winner THEN G \in {{}, {Grand}} ELSE G = {Grand, GrandReset}
            /\ v = 2 => IF t = b[last].winner THEN G = {} ELSE G \in {{Grand}, {GrandReset}}
<1> DEFINE last == IF GrandReset \in DOMAIN b THEN GrandReset ELSE Grand
           G == {m \in DOMAIN b : m \in {Grand, GrandReset} /\ b[m].loser = t}
<1>1. t # NoTeam /\ Completed(b, Grand) /\ Honest(x, b) /\ Twice(x, b)
  BY DEF Plays, Told
<1>2. \A m \in DOMAIN b : b[m].loser = t => b[m].winner # t
  BY <1>1, LostIn
<1>3. t \in {b[Grand].winner, b[Grand].loser}
  BY <1>1 DEF Honest
<1>4. CASE GrandReset \notin DOMAIN b
  <2>1. G = IF b[Grand].loser = t THEN {Grand} ELSE {}
    BY <1>4
  <2>2. v = 1 => b[Grand].winner = t
    BY <1>1, <1>4 DEF Twice
  <2>3. last = Grand
    BY <1>4
  <2>. HIDE DEF G, last
  <2>. QED
    BY <1>2, <1>3, <2>1, <2>2, <2>3 DEF G, last, Ways
<1>5. CASE GrandReset \in DOMAIN b
  <2>1. At(b, GrandReset, v) = t /\ Sends(b, Grand, 3 - v) = t
    BY <1>1, <1>5 DEF Twice
  <2>2. t \in {b[GrandReset].winner, b[GrandReset].loser}
    BY <1>1, <1>5, <2>1 DEF Honest
  <2>3. (v = 1 => b[Grand].loser = t) /\ (v = 2 => b[Grand].winner = t)
    BY <2>1 DEF Sends
  <2>4. G = (IF b[Grand].loser = t THEN {Grand} ELSE {}) \cup (IF b[GrandReset].loser = t THEN {GrandReset} ELSE {})
    BY <1>5
  <2>5. last = GrandReset
    BY <1>5
  <2>6. b[GrandReset].loser = t <=> b[GrandReset].winner # t
    BY <1>2, <1>5, <2>2
  <2>7. v = 2 => b[Grand].loser # t
    BY <1>2, <2>3
  <2>. HIDE DEF G, last
  <2>8. v = 1 => IF t = b[last].winner THEN G = {Grand} ELSE G = {Grand, GrandReset}
    BY <2>3, <2>4, <2>5, <2>6
  <2>9. v = 2 => IF t = b[last].winner THEN G = {} ELSE G = {GrandReset}
    BY <2>4, <2>5, <2>6, <2>7
  <2>. QED
    BY <2>8, <2>9 DEF G, last
<1>. QED
  BY <1>4, <1>5

LEMMA CountUp ==
  ASSUME NEW S
  PROVE  /\ S = {} => Cardinality(S) = 0
         /\ \A m : S = {m} => Cardinality(S) = 1
         /\ \A m, n : S = {m, n} /\ m # n => Cardinality(S) = 2
<1>1. S = {} => Cardinality(S) = 0
  BY FS_EmptySet
<1>2. \A m : IsFiniteSet({m}) /\ Cardinality({m}) = 1
  BY FS_Singleton
<1>3. ASSUME NEW m, NEW n, m # n, S = {m, n} PROVE Cardinality(S) = 2
  <2> DEFINE T == {m}
  <2>1. IsFiniteSet(T) /\ Cardinality(T) = 1 /\ n \notin T
    BY <1>2, <1>3
  <2>2. S = T \cup {n}
    BY <1>3
  <2>. HIDE DEF T
  <2>3. Cardinality(T \cup {n}) = Cardinality(T) + 1
    BY <2>1, FS_AddElement
  <2>. QED
    BY <2>1, <2>2, <2>3
<1>. QED
  BY <1>1, <1>2, <1>3

Counted(b, t) == {m \in DOMAIN b : b[m].loser = t /\ m[1] # "THIRD_PLACE"}

LEMMA DoubleCounts ==
  ASSUME NEW x, NEW rank, NEW E, NEW b, World(x, rank, E), Sound(x, E, b, {}), Doubles(x), Told(x, E, b),
         NEW N \in Nat, \A m \in Ids(x) : rank[m] <= N, \A m \in DOMAIN b : Completed(b, m), NEW t \in E \ x.gone
  PROVE  LET last == IF GrandReset \in DOMAIN b THEN GrandReset ELSE Grand
         IN IF t = b[last].winner THEN Cardinality(Counted(b, t)) < 2 ELSE Cardinality(Counted(b, t)) = 2
<1> DEFINE last == IF GrandReset \in DOMAIN b THEN GrandReset ELSE Grand
           L == Counted(b, t)
           U == {m \in DOMAIN b : Up(m) /\ b[m].loser = t}
           W == {m \in DOMAIN b : Low(m) /\ b[m].loser = t}
           G == {m \in DOMAIN b : m \in {Grand, GrandReset} /\ b[m].loser = t}
<1>0. /\ Plays(x, t) /\ t # NoTeam /\ Hung(x, E, b) /\ Reset(b) /\ Leads(x, rank)
      /\ DOMAIN b \subseteq Ids(x) /\ Ids(x) \ {GrandReset} \subseteq DOMAIN b
  BY DEF Plays, World, Sound, Hung, Shape
<1>1. Sides(x)
  BY <1>0, DoubleSides
<1>2. Grand \in DOMAIN b /\ Grand \in Ids(x) /\ Grand # GrandReset
  BY <1>0 DEF Doubles, Grand, GrandReset
<1>3. L = U \cup W \cup G
  <2>1. \A m \in DOMAIN b : Up(m) \/ Low(m) \/ m \in {Grand, GrandReset}
    BY <1>0 DEF Doubles
  <2>2. \A m : Up(m) \/ Low(m) \/ m \in {Grand, GrandReset} => m[1] # "THIRD_PLACE"
    BY DEF Up, Low, Grand, GrandReset
  <2>. QED
    BY <2>1, <2>2 DEF Counted
<1>4. \A m \in DOMAIN b : /\ m \in U <=> Up(m) /\ b[m].loser = t
                          /\ m \in W <=> Low(m) /\ b[m].loser = t
                          /\ m \in G <=> m \in {Grand, GrandReset} /\ b[m].loser = t
  OBVIOUS
<1>5. U \subseteq DOMAIN b /\ W \subseteq DOMAIN b /\ G \subseteq DOMAIN b
  OBVIOUS
<1>6. ~Up(Grand) /\ ~Up(GrandReset) /\ ~Low(Grand) /\ ~Low(GrandReset) /\ \A m : Up(m) => ~Low(m)
  BY DEF Up, Low, Grand, GrandReset
<1>7. \A v \in Ways : At(b, Grand, v) = t =>
        /\ v = 1 => IF t = b[last].winner THEN G \in {{}, {Grand}} ELSE G = {Grand, GrandReset}
        /\ v = 2 => IF t = b[last].winner THEN G = {} ELSE G \in {{Grand}, {GrandReset}}
  BY <1>0, <1>2, GrandStory
<1>8. last \in DOMAIN b /\ last \in {Grand, GrandReset}
  BY <1>2
<1>. HIDE DEF last, L, U, W, G
<1>9. \A m, n \in U : m = n
  BY <1>0, <1>1, <1>4, <1>5, OneUpperLoss
\* Who stands in the grand final did not lose in the loser bracket.
<1>10. ASSUME NEW v \in Ways, At(b, Grand, v) = t PROVE W = {}
  <2>. SUFFICES ASSUME NEW m \in W PROVE FALSE
    OBVIOUS
  <2> DEFINE q == <<Grand, v>>
  <2>1. m \in DOMAIN b /\ m \in Ids(x) /\ Low(m) /\ b[m].loser = t /\ m # GrandReset /\ m # Grand
    BY <1>0, <1>4, <1>5, <1>6
  <2>2. Holds(x, b, q, t) /\ q[1] = Grand
    BY <1>0, <1>2, <1>10, InTheTree
  <2>3. \A w \in Ways : Out(x, Grand, w) = {}
    BY <1>0, <1>2 DEF Leads
  <2>4. Out(x, m, 2) = {}
    BY <2>1 DEF Doubles
  <2>. HIDE DEF q
  <2>5. q[1] = m
    BY <1>0, <2>1, <2>2, <2>3, <2>4, OneEnd
  <2>. QED
    BY <2>1, <2>2, <2>5
<1>11. \A m, n \in W : m = n
  <2>. SUFFICES ASSUME NEW m \in W, NEW n \in W PROVE n = m
    OBVIOUS
  <2>1. /\ m \in DOMAIN b /\ Low(m) /\ b[m].loser = t /\ m # GrandReset /\ Out(x, m, 2) = {}
        /\ n \in DOMAIN b /\ Low(n) /\ b[n].loser = t /\ n # GrandReset /\ Out(x, n, 2) = {}
    BY <1>0, <1>4, <1>5, <1>6 DEF Doubles
  <2>2. Sends(b, n, 2) = t /\ 2 \in Ways /\ \E s \in Ways : Holds(x, b, <<n, s>>, t)
    BY <1>0, <2>1, LostIn
  <2>3. PICK s \in Ways : Holds(x, b, <<n, s>>, t)
    BY <2>2
  <2>4. \A w \in Ways : Sends(b, n, w) = t => Out(x, n, w) = {}
    <3>1. \A w \in Ways : Sends(b, n, w) = t => w = 2
      BY <1>0, <2>1, <2>2, SendsOnce
    <3>. QED
      BY <2>1, <3>1
  <2> DEFINE q == <<n, s>>
  <2>5. Holds(x, b, q, t) /\ q[1] = n
    BY <2>3
  <2>. HIDE DEF q
  <2>6. q[1] = m
    BY <1>0, <2>1, <2>4, <2>5, OneEnd
  <2>. QED
    BY <2>5, <2>6
\* Without a loss in the winner bracket it is there as its winner.
<1>12. CASE U = {}
  <2>1. \A m \in DOMAIN b : Up(m) => b[m].loser # t
    BY <1>4, <1>12
  <2>2. PICK q : Holds(x, b, q, t) /\ Upper(q) /\ (Up(q[1]) => Out(x, q[1], 1) = {})
    BY <1>1, <2>1, WinsUpper
  <2>3. q = <<Grand, 1>>
    <3>1. q[1] \in Ids(x)
      BY <2>2 DEF Holds, SlotsOf
    <3>2. ~Up(q[1])
      BY <2>2, <3>1 DEF Doubles
    <3>. QED
      BY <2>2, <3>2 DEF Upper
  <2>4. At(b, Grand, 1) = t /\ 1 \in Ways
    BY <2>2, <2>3 DEF Holds, Ways
  <2>5. L = G
    BY <1>3, <1>10, <1>12, <2>4
  <2>6. IF t = b[last].winner THEN L \in {{}, {Grand}} ELSE L = {Grand, GrandReset}
    BY <1>7, <2>4, <2>5
  <2>7. CASE t = b[last].winner
    <3>1. Cardinality(L) \in {0, 1}
      BY <2>6, <2>7, CountUp
    <3>. QED
      BY <2>7, <3>1 DEF L, last
  <2>8. CASE t # b[last].winner
    <3>1. Cardinality(L) = 2
      BY <1>2, <2>6, <2>8, CountUp
    <3>. QED
      BY <2>8, <3>1 DEF L, last
  <2>. QED
    BY <2>7, <2>8
<1>13. ASSUME NEW u \in U, W = {}
       PROVE  IF t = b[last].winner THEN Cardinality(L) < 2 ELSE Cardinality(L) = 2
  <2>1. u \in DOMAIN b /\ u \in Ids(x) /\ Up(u) /\ b[u].loser = t /\ u # Grand /\ u # GrandReset
    BY <1>0, <1>4, <1>5, <1>6
  <2>2. PICK to \in Out(x, u, 2) : Lower(to)
    BY <2>1 DEF Doubles
  <2>3. Sends(b, u, 2) = t /\ 2 \in Ways
    BY <2>1 DEF Sends, Ways
  <2>4. Holds(x, b, to, t)
    BY <1>0, <2>1, <2>2, <2>3, HasArrived
  <2>5. Holds(x, b, <<Grand, 2>>, t)
    <3>1. \A m \in DOMAIN b : Low(m) => b[m].loser # t
      BY <1>4, <1>13
    <3>. QED
      BY <2>2, <2>4, <3>1, WinsLower
  <2>6. At(b, Grand, 2) = t
    BY <2>5 DEF Holds
  <2>7. L = {u} \cup G
    BY <1>3, <1>9, <1>13
  <2>8. IF t = b[last].winner THEN G = {} ELSE G \in {{Grand}, {GrandReset}}
    BY <1>7, <2>3, <2>6
  <2>9. CASE t = b[last].winner
    <3>1. L = {u}
      BY <2>7, <2>8, <2>9
    <3>2. Cardinality(L) = 1
      BY <3>1, CountUp
    <3>. QED
      BY <2>9, <3>2
  <2>10. CASE t # b[last].winner
    <3>1. PICK g \in {Grand, GrandReset} : G = {g}
      BY <2>8, <2>10
    <3>2. L = {u, g} /\ u # g
      BY <2>1, <2>7, <3>1
    <3>3. Cardinality(L) = 2
      BY <3>2, CountUp
    <3>. QED
      BY <2>10, <3>3
  <2>. QED
    BY <2>9, <2>10
<1>14. ASSUME NEW u \in U, NEW n \in W
       PROVE  IF t = b[last].winner THEN Cardinality(L) < 2 ELSE Cardinality(L) = 2
  <2>1. \A v \in Ways : At(b, Grand, v) # t
    BY <1>10, <1>14
  <2>2. ASSUME GrandReset \in DOMAIN b, NEW v \in Ways PROVE At(b, GrandReset, v) # t
    BY <1>0, <2>1, <2>2 DEF Reset
  <2>3. \A m \in DOMAIN b : m \in {Grand, GrandReset} => b[m].winner # t /\ b[m].loser # t
    <3>. SUFFICES ASSUME NEW m \in DOMAIN b, m \in {Grand, GrandReset} PROVE b[m].winner # t /\ b[m].loser # t
      OBVIOUS
    <3>1. Fair(b[m])
      BY <1>0 DEF Hung
    <3>2. b[m].team[1] # t /\ b[m].team[2] # t
      BY <2>1, <2>2 DEF At, Ways
    <3>. QED
      BY <1>0, <3>1, <3>2 DEF Fair
  <2>4. G = {}
    BY <1>4, <1>5, <2>3
  <2>5. t # b[last].winner
    BY <1>8, <2>3
  <2>6. L = {u, n} /\ u # n
    BY <1>3, <1>4, <1>5, <1>6, <1>9, <1>11, <1>14, <2>4
  <2>7. Cardinality(L) = 2
    BY <2>6, CountUp
  <2>. QED
    BY <2>5, <2>7
<1>15. CASE U # {}
  <2>1. PICK u : u \in U
    BY <1>15
  <2>2. CASE W = {}
    BY <1>13, <2>1, <2>2 DEF L, last
  <2>3. CASE W # {}
    BY <1>14, <2>1, <2>3 DEF L, last
  <2>. QED
    BY <2>2, <2>3
<1>. QED
  BY <1>12, <1>15

LEMMA SingleCounts ==
  ASSUME NEW x, NEW rank, NEW E, NEW b, NEW k, World(x, rank, E), Sound(x, E, b, {}), Singles(x, k), Told(x, E, b),
         NEW N \in Nat, \A m \in Ids(x) : rank[m] <= N, \A m \in DOMAIN b : Completed(b, m), NEW t \in E \ x.gone
  PROVE  IF t = b[LastOf(k)].winner THEN Cardinality(Counted(b, t)) < 1 ELSE Cardinality(Counted(b, t)) = 1
<1> DEFINE L == Counted(b, t)
           F == LastOf(k)
<1>0. /\ Plays(x, t) /\ t # NoTeam /\ Hung(x, E, b) /\ Leads(x, rank)
      /\ DOMAIN b \subseteq Ids(x) /\ Ids(x) \ {GrandReset} \subseteq DOMAIN b
  BY DEF Plays, World, Sound, Hung, Shape
<1>1. Sides(x)
  BY <1>0, SingleSides
<1>2. F \in DOMAIN b /\ F \in Ids(x) /\ F # GrandReset /\ Up(F) /\ Out(x, F, 1) = {}
  BY <1>0 DEF Singles, LastOf, GrandReset, Up
<1>3. \A m \in DOMAIN b : m \in L <=> Up(m) /\ b[m].loser = t
  <2>1. \A m \in DOMAIN b : Up(m) \/ Third(m)
    BY <1>0 DEF Singles
  <2>. QED
    BY <2>1 DEF Counted, Up, Third
<1>4. L \subseteq DOMAIN b
  BY DEF Counted
<1>. HIDE DEF L, F
<1>5. \A m, n \in L : m = n
  BY <1>0, <1>1, <1>3, <1>4, OneUpperLoss
<1>6. CASE L = {}
  <2>1. PICK q : Holds(x, b, q, t) /\ Upper(q) /\ (Up(q[1]) => Out(x, q[1], 1) = {} /\ b[q[1]].winner = t)
    BY <1>1, <1>3, <1>6, WinsUpper
  <2>2. q[1] \in Ids(x) /\ q[1] \in DOMAIN b
    BY <2>1 DEF Holds, SlotsOf
  <2>3. Up(q[1])
    <3>1. Up(q[1]) \/ Third(q[1])
      BY <2>2 DEF Singles
    <3>. QED
      BY <2>1, <3>1 DEF Upper, Third, Grand
  <2>4. q[1] = F
    BY <2>1, <2>2, <2>3 DEF Singles, F
  <2>5. b[F].winner = t
    BY <2>1, <2>3, <2>4
  <2>6. Cardinality(L) = 0
    BY <1>6, CountUp
  <2>. QED
    BY <2>5, <2>6 DEF L, F
<1>7. CASE L # {}
  <2>1. PICK m : m \in L
    BY <1>7
  <2>2. m \in DOMAIN b /\ Up(m) /\ b[m].loser = t /\ m # GrandReset /\ L = {m}
    BY <1>3, <1>4, <1>5, <2>1 DEF Up, GrandReset
  <2>3. b[F].winner # t
    <3>. SUFFICES ASSUME b[F].winner = t PROVE FALSE
      OBVIOUS
    <3>1. F # m
      BY <1>0, <2>2, LostIn
    <3>2. PICK s \in Ways : At(b, F, s) = t
      <4>1. Fair(b[F])
        BY <1>0, <1>2 DEF Hung
      <4>. QED
        BY <1>0, <4>1 DEF Fair, At, Ways
    <3>3. PICK v \in Ways : Holds(x, b, <<m, v>>, t)
      BY <1>0, <2>2, LostIn
    <3> DEFINE q == <<F, s>>
               p == <<m, v>>
    <3>4. Holds(x, b, q, t) /\ q[1] = F /\ Upper(q) /\ Holds(x, b, p, t) /\ p[1] = m
      BY <1>0, <1>2, <3>2, <3>3, InTheTree DEF Upper
    <3>. HIDE DEF p, q
    <3>5. rank[F] < rank[m]
      BY <1>0, <1>1, <2>2, <3>1, <3>4, UpperLoss
    <3>6. \A w \in Ways : Sends(b, q[1], w) = t => Out(x, q[1], w) = {}
      <4>1. Sends(b, F, 1) = t /\ 1 \in Ways
        BY DEF Sends, Ways
      <4>2. \A w \in Ways : Sends(b, F, w) = t => w = 1
        BY <1>0, <1>2, <4>1, SendsOnce
      <4>. QED
        BY <1>2, <3>4, <4>2
    <3>7. rank[m] < rank[F]
      BY <1>0, <3>1, <3>4, <3>6, LastStand
    <3>8. rank[m] \in Nat /\ rank[F] \in Nat
      <4>1. rank \in [Ids(x) -> Nat]
        BY DEF World, Shape
      <4>. QED
        BY <1>0, <1>2, <2>2, <4>1
    <3>. QED
      BY <3>5, <3>7, <3>8
  <2>4. Cardinality(L) = 1
    BY <2>2, CountUp
  <2>. QED
    BY <2>3, <2>4 DEF L, F
<1>. QED
  BY <1>6, <1>7

-----------------------------------------------------------------------------
(***************************************************************************)
(* The actions.                                                            *)
(***************************************************************************)
LEMMA TreeWorld ==
  ASSUME NEW md \in Modes, NEW k \in Sizes, NEW E \in SUBSET Teams, NEW w \in SUBSET E
  PROVE  /\ World(Known(md, k, w), RankOf(md, k), E)
         /\ \A b, D : Sound(Known(md, k, w), E, b, D) => DOMAIN b # {}
<1>1. /\ Shape(Known(md, k, w), RankOf(md, k)) /\ Known(md, k, w).gone = w
      /\ \A m : m \in Ids(Known(md, k, w)) <=> Spot(md, k, m)
  BY KnownShape
<1>2. World(Known(md, k, w), RankOf(md, k), E)
  BY <1>1 DEF World, Teams, NoTeam
<1>3. k \in Nat \ {0}
  BY BoundAssumption DEF Sizes
<1>4. Wb(md, k, 1, 1) # GrandReset /\ Spot(md, k, Wb(md, k, 1, 1))
  <2>1. Power[k - 1] \in Nat \ {0}
    BY <1>3, PowerAt
  <2>2. 1 \in 1..k /\ 1 \in 1..Power[k - 1]
    BY <1>3, <2>1
  <2>3. Wb(md, k, 1, 1) # GrandReset
    BY WbIs
  <2>. QED
    BY <2>2, <2>3 DEF Spot
<1>5. ASSUME NEW b, NEW D, Sound(Known(md, k, w), E, b, D) PROVE DOMAIN b # {}
  BY <1>1, <1>4, <1>5 DEF Sound, Hung
<1>. QED
  BY <1>2, <1>5

\* After a result the status is that of the review.
LEMMA TreeReviewed ==
  ASSUME NEW md \in Modes, NEW k \in Sizes, NEW E \in SUBSET Teams, NEW w \in SUBSET E, NEW b,
         Sound(Known(md, k, w), E, b, {}), Told(Known(md, k, w), E, b)
  PROVE  TreeOf(md, Reviewed(b), k, b, E, w)
<1>1. k # 0
  BY BoundAssumption DEF Sizes
<1>2. Reviewed(b) \in {"IN_PROGRESS", "RESULTS_REVIEW"}
  BY DEF Reviewed
<1>. QED
  BY <1>1, <1>2 DEF TreeOf

LEMMA NotGenerated ==
  ASSUME TreeInv
  PROVE  Generated <=> size # 0
<1>1. CASE size = 0
  BY <1>1 DEF TreeInv, TreeOf, Generated
<1>2. CASE size # 0
  <2>1. size \in Sizes /\ mode \in Modes /\ entered \in SUBSET Teams /\ withdrawn \in SUBSET entered
    BY <1>2 DEF TreeInv, TreeOf
  <2>2. Sound(Known(mode, size, withdrawn), entered, match, {})
    BY <1>2 DEF TreeInv, TreeOf
  <2>3. DOMAIN match # {}
    BY <2>1, <2>2, TreeWorld
  <2>. QED
    BY <1>2, <2>3 DEF Generated
<1>. QED
  BY <1>1, <1>2

LEMMA RegisterTree ==
  ASSUME TreeInv, NEW t \in Teams, Register(t)
  PROVE  TreeInv'
BY DEF TreeInv, TreeOf, Register

LEMMA UnregisterTree ==
  ASSUME TreeInv, NEW t \in Teams, Unregister(t)
  PROVE  TreeInv'
<1>1. size = 0
  BY NotGenerated DEF Unregister
<1>. QED
  BY <1>1 DEF TreeInv, TreeOf, Unregister

LEMMA WithdrawTree ==
  ASSUME TreeInv, NEW t \in Moving, Withdraw(t)
  PROVE  TreeInv'
<1>1. /\ mode \in Modes /\ entered \in SUBSET Teams /\ withdrawn \in SUBSET entered
      /\ t \in entered /\ withdrawn' = withdrawn \cup {t} /\ entered' = entered /\ mode' = mode /\ size' = size
      /\ withdrawn' \in SUBSET entered /\ t # NoTeam
  BY DEF TreeInv, TreeOf, Withdraw, Teams, NoTeam
<1>2. CASE Generated
  <2>1. /\ size \in Sizes /\ Sound(Known(mode, size, withdrawn), entered, match, {})
        /\ Told(Known(mode, size, withdrawn), entered, match)
    BY <1>2, NotGenerated DEF TreeInv, TreeOf
  <2> DEFINE x == Known(mode, size, withdrawn)
             y == Known(mode, size, withdrawn')
             b == Forfeited(y, match, t)
  <2>2. y.tree = x.tree /\ x.gone \subseteq y.gone
    BY <1>1 DEF Known
  <2>3. World(y, RankOf(mode, size), entered)
    BY <1>1, <2>1, TreeWorld
  <2>4. match' = b /\ status' = Reviewed(match')
    BY <1>1, <1>2 DEF Withdraw
  <2>. HIDE DEF x, y
  <2>5. Sound(y, entered, match, {}) /\ Told(y, entered, match)
    BY <2>1, <2>2, MoreGone, MoreGoneTells DEF x
  <2>6. Sound(y, entered, b, {}) /\ Told(y, entered, b)
    BY <1>1, <2>3, <2>5, ForfeitedTells
  <2>7. Sound(Known(mode, size, withdrawn'), entered, match', {}) /\ Told(Known(mode, size, withdrawn'), entered, match')
    BY <2>4, <2>6 DEF y
  <2>8. TreeOf(mode, Reviewed(match'), size, match', entered, withdrawn')
    BY <1>1, <2>1, <2>7, TreeReviewed
  <2>. QED
    BY <1>1, <2>4, <2>8 DEF TreeInv
<1>3. CASE ~ Generated
  <2>1. size = 0
    BY <1>3, NotGenerated
  <2>2. match' = match /\ status' = status
    BY <1>3 DEF Withdraw
  <2>. QED
    BY <1>1, <2>1, <2>2 DEF TreeInv, TreeOf
<1>. QED
  BY <1>2, <1>3

LEMMA DeleteTree ==
  ASSUME TreeInv, NEW t \in Moving, DeleteTeam(t)
  PROVE  TreeInv'
<1> DEFINE y == Known(mode, size, withdrawn \cup {t})
           z == Known(mode, size, withdrawn \ {t})
           left == IF Generated /\ status \notin {"FINISHED", "CANCELLED"} THEN Forfeited(y, match, t) ELSE match
<1>1. /\ mode \in Modes /\ entered \in SUBSET Teams /\ withdrawn \in SUBSET entered
      /\ t \in entered /\ withdrawn \cup {t} \in SUBSET entered /\ t # NoTeam /\ NoTeam \notin entered
      /\ withdrawn \ {t} \in SUBSET (entered \ {t}) /\ entered \ {t} \in SUBSET Teams
  BY DEF TreeInv, TreeOf, DeleteTeam, Teams, NoTeam
<1>2. /\ match' = Without(left, t) /\ status' = (IF Generated /\ Running THEN Reviewed(left) ELSE status)
      /\ entered' = entered \ {t} /\ withdrawn' = withdrawn \ {t} /\ mode' = mode /\ size' = size
  BY DEF DeleteTeam
<1>3. CASE Generated
  <2>1. /\ size \in Sizes /\ size # 0 /\ Sound(Known(mode, size, withdrawn), entered, match, {})
        /\ Told(Known(mode, size, withdrawn), entered, match)
    BY <1>3, NotGenerated DEF TreeInv, TreeOf
  <2>2. y.tree = Known(mode, size, withdrawn).tree /\ Known(mode, size, withdrawn).gone \subseteq y.gone
    BY DEF Known
  <2>3. World(y, RankOf(mode, size), entered) /\ Shape(y, RankOf(mode, size))
    BY <1>1, <2>1, TreeWorld DEF World
  <2>4. z.tree = y.tree /\ z.gone = y.gone \ {t}
    BY DEF Known
  <2>. HIDE DEF y, z
  <2>5. Sound(y, entered, match, {}) /\ Told(y, entered, match)
    BY <2>1, <2>2, MoreGone, MoreGoneTells
  <2>6. Sound(y, entered, Forfeited(y, match, t), {}) /\ Told(y, entered, Forfeited(y, match, t))
    BY <1>1, <2>3, <2>5, ForfeitedTells
  <2>7. Sound(y, entered, left, {}) /\ Told(y, entered, left)
    BY <2>5, <2>6
  <2>8. left = match \/ ~ (status \in {"FINISHED", "CANCELLED"})
    OBVIOUS
  <2>. HIDE DEF left
  <2>9. /\ Sound(z, entered \ {t}, Without(left, t), {}) /\ DOMAIN Without(left, t) = DOMAIN left
        /\ \A m \in DOMAIN left : Completed(Without(left, t), m) <=> Completed(left, m)
    BY <1>1, <2>3, <2>4, <2>7, WithoutSound
  <2>a. Told(z, entered \ {t}, Without(left, t))
    <3>1. left \in [DOMAIN left -> Records(entered)]
      BY <2>7 DEF Sound, Hung
    <3>. QED
      BY <1>1, <2>4, <2>7, <3>1, WithoutTells
  <2>10. (AllCompleted(match') <=> AllCompleted(left)) /\ Reviewed(match') = Reviewed(left)
    BY <1>2, <2>9 DEF AllCompleted, Reviewed
  <2>11. Sound(Known(mode, size, withdrawn'), entered', match', {}) /\ Told(Known(mode, size, withdrawn'), entered', match')
    BY <1>2, <2>9, <2>a DEF z
  <2>12. CASE Running
    <3>1. status' = Reviewed(match')
      BY <1>2, <1>3, <2>10, <2>12
    <3>2. TreeOf(mode, Reviewed(match'), size, match', entered', withdrawn')
      BY <1>1, <1>2, <2>1, <2>11, TreeReviewed
    <3>. QED
      BY <1>2, <3>1, <3>2 DEF TreeInv
  <2>13. CASE ~ Running
    <3>1. status' = status
      BY <1>2, <2>13
    <3>2. status \in {"FINISHED", "CANCELLED"}
      BY <2>1, <2>13 DEF TreeInv, TreeOf, Running
    <3>3. status = "FINISHED" => AllCompleted(match)
      BY DEF TreeInv, TreeOf
    <3>4. status = "FINISHED" => AllCompleted(match')
      BY <2>8, <2>10, <3>2, <3>3
    <3>. QED
      BY <1>1, <1>2, <2>1, <2>11, <3>1, <3>2, <3>4 DEF TreeInv, TreeOf
  <2>. QED
    BY <2>12, <2>13
<1>4. CASE ~ Generated
  <2>1. size = 0 /\ DOMAIN match = {}
    BY <1>4, NotGenerated DEF Generated
  <2>2. left = match /\ status' = status
    BY <1>2, <1>4
  <2>3. DOMAIN match' = {}
    BY <1>2, <2>1, <2>2 DEF Without
  <2>4. AllCompleted(match')
    BY <2>3 DEF AllCompleted
  <2>5. status \notin {"IN_PROGRESS", "RESULTS_REVIEW"} /\ status \in {"REGISTRATION_OPEN", "IN_PROGRESS", "RESULTS_REVIEW", "FINISHED", "CANCELLED"}
    BY <2>1 DEF TreeInv, TreeOf
  <2>. HIDE DEF left, y, z
  <2>. QED
    BY <1>1, <1>2, <2>1, <2>2, <2>3, <2>4, <2>5 DEF TreeInv, TreeOf
<1>. QED
  BY <1>3, <1>4

LEMMA SameRecord ==
  ASSUME NEW E, NEW r \in Records(E), NEW o \in Records(E), r.team = o.team, r.winner = o.winner, r.loser = o.loser,
         r.status = o.status, r.kind = o.kind
  PROVE  r = o
BY DEF Records

LEMMA StartedSound ==
  ASSUME NEW x, NEW rank, NEW E, NEW b, World(x, rank, E), Sound(x, E, b, {}), NEW m \in DOMAIN b, b[m].status = "READY"
  PROVE  LET c == [b EXCEPT ![m].status = "IN_PROGRESS"]
         IN /\ Sound(x, E, c, {}) /\ DOMAIN c = DOMAIN b /\ \A n \in DOMAIN b : Completed(c, n) <=> Completed(b, n)
            /\ Told(x, E, b) => Told(x, E, c)
<1> DEFINE c == [b EXCEPT ![m].status = "IN_PROGRESS"]
           r == [b[m] EXCEPT !.status = "IN_PROGRESS"]
<1>1. b \in [DOMAIN b -> Records(E)] /\ \A n \in DOMAIN b : Fair(b[n])
  BY DEF Sound, Hung
<1>2. b[m] \in Records(E) /\ Fair(b[m])
  BY <1>1
<1>3. /\ r \in Records(E) /\ Fair(r) /\ r.team = b[m].team /\ r.winner = b[m].winner /\ r.loser = b[m].loser
      /\ r.status = "IN_PROGRESS"
  BY <1>2 DEF Records, Fair
<1>4. DOMAIN c = DOMAIN b /\ c = [n \in DOMAIN b |-> c[n]] /\ \A n \in DOMAIN b : c[n] = IF n = m THEN r ELSE b[n]
  BY <1>1
<1>. HIDE DEF c, r
<1>5. \A n \in DOMAIN b :
        /\ c[n] \in Records(E) /\ Fair(c[n]) /\ c[n].winner = b[n].winner /\ c[n].loser = b[n].loser
        /\ Completed(c, n) <=> Completed(b, n)
        /\ \A s \in Ways : At(c, n, s) = At(b, n, s)
  BY <1>1, <1>3, <1>4 DEF Completed, At
<1>6. \A n \in DOMAIN b : \A w : Sends(c, n, w) = Sends(b, n, w)
  BY <1>5 DEF Sends
<1>7. Hung(x, E, c)
  <2>1. c \in [DOMAIN c -> Records(E)]
    BY <1>4, <1>5
  <2>. QED
    BY <1>4, <1>5, <2>1 DEF Sound, Hung
<1>8. Follows(x, c, {})
  <2>1. ASSUME NEW f \in DOMAIN b, NEW w \in Ways, NEW to \in Out(x, f, w)
        PROVE  Flows(x, c, {}, f, w, to)
    <3>1. Flows(x, b, {}, f, w, to)
      BY <2>1 DEF Sound, Follows
    <3>2. to[1] \in DOMAIN b /\ to[2] \in Ways
      BY <2>1, SlotsInside DEF World, Sound
    <3>. QED
      BY <1>5, <1>6, <3>1, <3>2 DEF Flows
  <2>. QED
    BY <1>4, <2>1 DEF Follows
<1>9. Begins(x, c)
  <2>1. \A p : Unfed(x, p) => p[1] \in DOMAIN b /\ p[2] \in Ways
    BY DEF Unfed, SlotsOf, Sound, Hung
  <2>2. \A p : Unfed(x, p) => At(c, p[1], p[2]) = At(b, p[1], p[2])
    BY <1>5, <2>1
  <2>. QED
    BY <2>2 DEF Sound, Begins
<1>10. Reset(c)
  <2>1. Reset(b)
    BY DEF Sound
  <2>. QED
    BY <1>4, <1>5, <2>1 DEF Reset
<1>11. ASSUME Told(x, E, b) PROVE Told(x, E, c)
  <2>1. Begun(x, E, c)
    BY <1>4, <1>5, <1>11 DEF Told, Begun
  <2>2. Honest(x, c)
    BY <1>4, <1>5, <1>11 DEF Told, Honest
  <2>3. Twice(x, c)
    <3>1. Twice(x, b) /\ Reset(b)
      BY <1>11 DEF Told, Sound
    <3>2. 1 \in Ways
      BY DEF Ways
    <3>. QED
      BY <1>4, <1>5, <1>6, <3>1, <3>2 DEF Twice
  <2>. QED
    BY <2>1, <2>2, <2>3 DEF Told
<1>. QED
  BY <1>4, <1>5, <1>7, <1>8, <1>9, <1>10, <1>11 DEF Sound, c

LEMMA RunningTree ==
  ASSUME TreeInv, Running
  PROVE  /\ mode \in Modes /\ size \in Sizes /\ entered \in SUBSET Teams /\ withdrawn \in SUBSET entered
         /\ World(Now, RankOf(mode, size), entered) /\ Sound(Now, entered, match, {}) /\ status = Reviewed(match)
         /\ Told(Now, entered, match) /\ Nested(Now)
<1>1. size # 0 /\ status = Reviewed(match)
  BY DEF TreeInv, TreeOf, Running
<1>2. /\ mode \in Modes /\ size \in Sizes /\ entered \in SUBSET Teams /\ withdrawn \in SUBSET entered
      /\ Sound(Now, entered, match, {}) /\ Told(Now, entered, match)
  BY <1>1 DEF TreeInv, TreeOf, Now
<1>3. World(Now, RankOf(mode, size), entered) /\ Nested(Now)
  BY <1>2, TreeWorld, KnownSides DEF Now
<1>. QED
  BY <1>1, <1>2, <1>3

LEMMA StartTree ==
  ASSUME TreeInv, NEW m \in DOMAIN match, StartMatch(m)
  PROVE  TreeInv'
<1>1. /\ Running /\ match[m].status = "READY" /\ match' = [match EXCEPT ![m].status = "IN_PROGRESS"]
      /\ mode' = mode /\ status' = status /\ size' = size /\ entered' = entered /\ withdrawn' = withdrawn
  BY DEF StartMatch, Editable
<1>2. /\ mode \in Modes /\ size \in Sizes /\ entered \in SUBSET Teams /\ withdrawn \in SUBSET entered
      /\ World(Now, RankOf(mode, size), entered) /\ Sound(Now, entered, match, {}) /\ status = Reviewed(match)
      /\ Told(Now, entered, match)
  BY <1>1, RunningTree
<1> DEFINE c == [match EXCEPT ![m].status = "IN_PROGRESS"]
<1>3. /\ Sound(Now, entered, c, {}) /\ DOMAIN c = DOMAIN match /\ \A n \in DOMAIN match : Completed(c, n) <=> Completed(match, n)
      /\ Told(Now, entered, c)
  BY <1>1, <1>2, StartedSound
<1>. HIDE DEF c
<1>4. Reviewed(c) = Reviewed(match)
  BY <1>3 DEF Reviewed, AllCompleted
<1>5. TreeOf(mode, Reviewed(c), size, c, entered, withdrawn)
  BY <1>2, <1>3, TreeReviewed DEF Now
<1>6. match' = c
  BY <1>1 DEF c
<1>. QED
  BY <1>1, <1>2, <1>4, <1>5, <1>6 DEF TreeInv

LEMMA ScoreTree ==
  ASSUME TreeInv, NEW m \in DOMAIN match, NEW s \in Winners, NEW n \in BOOLEAN, ScoreMatch(m, s, n)
  PROVE  TreeInv'
<1> DEFINE kind == IF n THEN "WALKOVER" ELSE "PLAYED"
<1>1. /\ Editable(m) /\ match' = Scored(Now, match, m, s, kind) /\ status' = Reviewed(match')
      /\ mode' = mode /\ size' = size /\ entered' = entered /\ withdrawn' = withdrawn
  BY DEF ScoreMatch
<1>2. Running /\ NoTeam \notin Own(match, m) /\ ~ Automatic(Now, match, m)
  BY <1>1 DEF Editable, Own, At
<1>3. /\ mode \in Modes /\ size \in Sizes /\ entered \in SUBSET Teams /\ withdrawn \in SUBSET entered
      /\ World(Now, RankOf(mode, size), entered) /\ Sound(Now, entered, match, {})
      /\ Told(Now, entered, match) /\ Nested(Now)
  BY <1>2, RunningTree
<1>4. s \in Ways /\ kind \in {"PLAYED", "WALKOVER"}
  BY BoundAssumption DEF Ways
<1>. HIDE DEF kind
<1>5. Sound(Now, entered, Scored(Now, match, m, s, kind), {})
  BY <1>2, <1>3, <1>4, ScoredSound
<1>a. Told(Now, entered, Scored(Now, match, m, s, kind))
  BY <1>2, <1>3, <1>4, ScoredTells
<1>6. Sound(Known(mode, size, withdrawn), entered, match', {}) /\ Told(Known(mode, size, withdrawn), entered, match')
  BY <1>1, <1>5, <1>a DEF Now
<1>7. TreeOf(mode, Reviewed(match'), size, match', entered, withdrawn)
  BY <1>3, <1>6, TreeReviewed
<1>. QED
  BY <1>1, <1>7 DEF TreeInv

\* The registrations that count, in the smallest tree that holds them.
LEMMA LineupDrawn ==
  ASSUME mode \in Modes, entered \in SUBSET Teams, withdrawn \in SUBSET entered, Len(Lineup) >= 2
  PROVE  LET k == SizeFor(Len(Lineup)) IN k \in Sizes /\ Drawn(mode, k, entered \ withdrawn, Lineup)
<1> DEFINE k == SizeFor(Len(Lineup))
<1>1. Line(entered \ withdrawn, MaxTeams, Lineup)
  BY LineupIs
<1>2. Len(Lineup) \in 2..MaxTeams
  <2>1. Len(Lineup) \in Nat /\ Len(Lineup) <= MaxTeams
    BY <1>1, LenProperties DEF Line
  <2>. QED
    BY <2>1, BoundAssumption
<1>3. k \in Sizes /\ Power[k - 1] < Len(Lineup)
  BY <1>2, SizeForIs
<1>4. Len(Lineup) <= Power[k]
  <2>1. k \in Nat \ {0} /\ Power[k] >= Len(Lineup) /\ Len(Lineup) \in Nat
    BY <1>2, SizeForIs
  <2>. HIDE DEF k
  <2>2. Power[k] \in Nat
    BY <2>1, PowerAt
  <2>. QED
    BY <2>1, <2>2
<1>. HIDE DEF k
<1>5. Drawn(mode, k, entered \ withdrawn, Lineup)
  BY <1>1, <1>3, <1>4 DEF Drawn
<1>. QED
  BY <1>3, <1>5 DEF k

LEMMA GenerateTree ==
  ASSUME TreeInv, Generate
  PROVE  TreeInv'
<1> DEFINE k == SizeFor(Len(Lineup))
           x == Known(mode, k, withdrawn)
           first == ByesMoved(mode, k, FirstRound(mode, k, Lineup))
           due == {m \in DOMAIN first : Rechecked(mode, k, m)}
           c == CheckAll(x, first, due)
<1>1. /\ Len(Lineup) >= 2 /\ size' = k /\ match' = c /\ status' = "IN_PROGRESS"
      /\ mode' = mode /\ entered' = entered /\ withdrawn' = withdrawn
  BY DEF Generate
<1>2. mode \in Modes /\ entered \in SUBSET Teams /\ withdrawn \in SUBSET entered
  BY DEF TreeInv, TreeOf
<1>6. k \in Sizes /\ Drawn(mode, k, entered \ withdrawn, Lineup)
  BY <1>1, <1>2, LineupDrawn
<1>. HIDE DEF k
<1>7. /\ World(x, RankOf(mode, k), entered) /\ Sound(x, entered, first, {}) /\ Told(x, entered, first)
      /\ \E m \in DOMAIN first : ~ Completed(first, m) /\ Own(first, m) \cap (x.gone \cup {NoTeam}) = {}
  BY <1>2, <1>6, GeneratedSound
<1>8. due \subseteq DOMAIN first
  OBVIOUS
<1>. HIDE DEF x, first, due
<1>9. Sound(x, entered, c, {}) /\ Keeps(x, first, c)
  BY <1>7, <1>8, CheckAllSound
<1>b. Told(x, entered, c)
  <2>1. NoTeam \notin entered /\ Reset(first)
    BY <1>7 DEF World, Sound
  <2>. QED
    BY <1>7, <1>9, <2>1, KeepsTells DEF Told
<1>10. ~ AllCompleted(c)
  <2>1. PICK m \in DOMAIN first : ~ Completed(first, m) /\ Own(first, m) \cap (x.gone \cup {NoTeam}) = {}
    BY <1>7
  <2>2. m \in DOMAIN c /\ ~ Completed(c, m)
    BY <1>9, <2>1 DEF Keeps
  <2>. QED
    BY <2>2 DEF AllCompleted
<1>. HIDE DEF c
<1>11. Reviewed(c) = "IN_PROGRESS"
  BY <1>10 DEF Reviewed
<1>12. TreeOf(mode, Reviewed(c), k, c, entered, withdrawn)
  BY <1>2, <1>6, <1>9, <1>b, TreeReviewed DEF x
<1>. QED
  BY <1>1, <1>11, <1>12 DEF TreeInv

LEMMA ConfirmTree ==
  ASSUME TreeInv, ConfirmResults
  PROVE  TreeInv'
<1>1. AllCompleted(match)
  BY DEF ConfirmResults, Reviewed
<1>2. status' = "FINISHED" /\ size # 0
  BY DEF ConfirmResults, TreeInv, TreeOf, Running
<1>. QED
  BY <1>1, <1>2 DEF TreeInv, TreeOf, ConfirmResults

LEMMA CancelTree ==
  ASSUME TreeInv, CancelTournament
  PROVE  TreeInv'
BY DEF TreeInv, TreeOf, CancelTournament

LEMMA ResetTree ==
  ASSUME TreeInv, ResetBracket
  PROVE  TreeInv'
<1>1. DOMAIN match' = {} /\ size' = 0 /\ status' = "REGISTRATION_OPEN"
  BY DEF ResetBracket
<1>. QED
  BY <1>1 DEF TreeInv, TreeOf, ResetBracket

LEMMA NextTree ==
  ASSUME TreeInv, Next
  PROVE  TreeInv'
<1>1. CASE \E t \in Teams : Register(t) \/ Unregister(t)
  BY <1>1, RegisterTree, UnregisterTree
<1>2. CASE \E t \in Moving : Withdraw(t) \/ DeleteTeam(t)
  BY <1>2, WithdrawTree, DeleteTree
<1>3. CASE \E m \in DOMAIN match : StartMatch(m)
  BY <1>3, StartTree
<1>4. CASE \E m \in DOMAIN match, s \in Winners, n \in BOOLEAN : ScoreMatch(m, s, n)
  BY <1>4, ScoreTree
<1>5. CASE Generate
  BY <1>5, GenerateTree
<1>6. CASE ConfirmResults \/ CancelTournament \/ ResetBracket
  BY <1>6, ConfirmTree, CancelTree, ResetTree
<1>. QED
  BY <1>1, <1>2, <1>3, <1>4, <1>5, <1>6 DEF Next

\* What the invariant says to the reader of the model.
LEMMA TreeOpens ==
  ASSUME TreeInv
  PROVE  TypeOK /\ TreeConsistent
<1>1. /\ mode \in Modes /\ size \in Sizes \cup {0} /\ withdrawn \subseteq entered /\ entered \subseteq Teams
      /\ status \in {"REGISTRATION_OPEN", "IN_PROGRESS", "RESULTS_REVIEW", "FINISHED", "CANCELLED"}
      /\ entered \in SUBSET Teams /\ withdrawn \in SUBSET entered
  BY DEF TreeInv, TreeOf
<1>2. ReviewExact
  BY DEF TreeInv, TreeOf, ReviewExact, Running
<1>3. CASE size = 0
  <2>1. Matches = {}
    BY <1>3 DEF TreeInv, TreeOf, Matches
  <2>2. TypeOK
    BY <1>1, <1>3, <2>1 DEF TypeOK
  <2>3. SlotsFollowResults
    BY <2>1 DEF SlotsFollowResults
  <2>4. OneOpenMatch
    <3>1. ASSUME NEW t \in Teams PROVE Cardinality({m \in Matches : Opened(m) /\ Stands(m, t)}) <= 1
      <4>1. {m \in Matches : Opened(m) /\ Stands(m, t)} = {}
        BY <2>1
      <4>. QED
        BY <4>1, FS_EmptySet
    <3>. QED
      BY <3>1 DEF OneOpenMatch
  <2>. QED
    BY <1>2, <2>2, <2>3, <2>4 DEF TreeConsistent
<1>4. CASE size # 0
  <2>1. size \in Sizes /\ Sound(Now, entered, match, {})
    BY <1>1, <1>4 DEF TreeInv, TreeOf, Now
  <2>2. World(Now, RankOf(mode, size), entered) /\ DOMAIN match # {}
    BY <1>1, <2>1, TreeWorld DEF Now
  <2>3. /\ \A m \in Matches : match[m] \in Records(entered) /\ Fair(match[m])
        /\ Now.gone = withdrawn /\ Matches = DOMAIN match /\ 0 \notin Sizes
    BY <2>1, BoundAssumption DEF Sound, Hung, Matches, Now, Known, Sizes
  <2>4. TypeOK
    <3>1. ASSUME NEW m \in Matches
          PROVE  /\ match[m].team \in (Teams \cup {NoTeam}) \X (Teams \cup {NoTeam})
                 /\ match[m].winner \in Teams \cup {NoTeam}
                 /\ match[m].loser \in Teams \cup {NoTeam}
                 /\ match[m].status \in {"PENDING", "READY", "IN_PROGRESS", "COMPLETED"}
                 /\ match[m].kind \in {"PLAYED", "BYE", "WALKOVER", "DOUBLE_FORFEIT"}
                 /\ Opened(m) => [match[m] EXCEPT !.team = Open.team, !.status = "PENDING"] = Open
      <4> DEFINE r == match[m]
      <4>1. r \in Records(entered) /\ Fair(r)
        BY <2>3
      <4>2. /\ r.team \in (Teams \cup {NoTeam}) \X (Teams \cup {NoTeam})
            /\ r.winner \in Teams \cup {NoTeam} /\ r.loser \in Teams \cup {NoTeam}
            /\ r.status \in {"PENDING", "READY", "IN_PROGRESS", "COMPLETED"}
            /\ r.kind \in {"PLAYED", "BYE", "WALKOVER", "DOUBLE_FORFEIT"}
        BY <1>1, <4>1 DEF Records, Places
      <4>3. Opened(m) => r.winner = NoTeam /\ r.loser = NoTeam /\ r.kind = "PLAYED"
        BY <4>1 DEF Fair, Opened, Completed
      <4>4. r = [team |-> r.team, winner |-> r.winner, loser |-> r.loser, status |-> r.status, kind |-> r.kind]
        BY <4>1 DEF Records
      <4>. HIDE DEF r
      <4>5. Opened(m) => [r EXCEPT !.team = Open.team, !.status = "PENDING"] = Open
        <5>1. SUFFICES ASSUME Opened(m) PROVE [r EXCEPT !.team = Open.team, !.status = "PENDING"] = Open
          OBVIOUS
        <5> DEFINE v == [r EXCEPT !.team = Open.team, !.status = "PENDING"]
        <5>2. Open.team = <<NoTeam, NoTeam>> /\ Open.winner = NoTeam /\ Open.loser = NoTeam /\ Open.status = "PENDING"
              /\ Open.kind = "PLAYED" /\ Open \in Records(entered) /\ Open.team \in Places(entered) \X Places(entered)
          BY DEF Open, Records, Places
        <5>3. /\ v \in Records(entered) /\ v.team = Open.team /\ v.winner = r.winner /\ v.loser = r.loser
              /\ v.status = "PENDING" /\ v.kind = r.kind
          BY <4>1, <5>2 DEF Records, r
        <5>. HIDE DEF v
        <5>4. v = Open
          BY <4>3, <5>1, <5>2, <5>3, SameRecord
        <5>. QED
          BY <5>4 DEF v
      <4>. QED
        BY <4>2, <4>5 DEF r
    <3>. QED
      BY <1>1, <1>4, <2>1, <2>2, <2>3, <3>1 DEF TypeOK, Matches
  <2>5. SlotsFollowResults
    <3>1. ASSUME NEW f \in Matches, NEW w \in {1, 2}, NEW to \in Out(Now, f, w)
          PROVE  LET there == match[to[1]].team[to[2]]
                     sent == <<match[f].winner, match[f].loser>>[w]
                 IN /\ there # NoTeam => Completed(match, f) /\ there = sent
                    /\ sent \in Active => there = sent
      <4>1. Flows(Now, match, {}, f, w, to)
        BY <2>1 DEF Sound, Follows, Matches, Ways
      <4>2. <<match[f].winner, match[f].loser>>[w] = Sends(match, f, w)
        BY DEF Sends
      <4>3. \A t \in Active : t \notin Now.gone \cup {NoTeam}
        BY <1>1, <2>3 DEF Active, Teams, NoTeam
      <4>. QED
        BY <4>1, <4>2, <4>3 DEF Flows, At
    <3>. QED
      BY <3>1 DEF SlotsFollowResults
  <2>6. OneOpenMatch
    <3>1. ASSUME NEW t \in Teams PROVE Cardinality({m \in Matches : Opened(m) /\ Stands(m, t)}) <= 1
      <4> DEFINE S == {m \in Matches : Opened(m) /\ Stands(m, t)}
      <4>1. ASSUME NEW m \in S, NEW n \in S PROVE m = n
        <5>1. m \in DOMAIN match /\ n \in DOMAIN match /\ ~ Completed(match, m) /\ ~ Completed(match, n)
          BY DEF Matches, Opened
        <5>2. PICK s \in Ways : At(match, m, s) = t
          BY DEF Stands, At, Ways
        <5>3. PICK v \in Ways : At(match, n, v) = t
          BY DEF Stands, At, Ways
        <5>4. t # NoTeam
          BY DEF Teams, NoTeam
        <5>. QED
          BY <2>1, <2>2, <5>1, <5>2, <5>3, <5>4, OneOpen
      <4>. HIDE DEF S
      <4>2. CASE S = {}
        BY <4>2, FS_EmptySet DEF S
      <4>3. CASE S # {}
        <5>1. PICK m : m \in S
          BY <4>3
        <5>2. S = {m}
          BY <4>1, <5>1
        <5>3. Cardinality({m}) = 1
          BY FS_Singleton
        <5>. QED
          BY <5>2, <5>3 DEF S
      <4>. QED
        BY <4>2, <4>3
    <3>. QED
      BY <3>1 DEF OneOpenMatch
  <2>. QED
    BY <1>2, <2>4, <2>5, <2>6 DEF TreeConsistent
<1>. QED
  BY <1>3, <1>4

-----------------------------------------------------------------------------
(***************************************************************************)
(* The specification.                                                      *)
(***************************************************************************)

\* The group modes never become a knockout mode.
LEMMA StageKeepsMode ==
  ASSUME Stage!Next
  PROVE  mode' = mode
<1>1. CASE \E t \in Stage!Teams : Stage!Register(t) \/ Stage!Unregister(t)
  BY <1>1 DEF Stage!Register, Stage!Unregister
<1>2. CASE \E t \in StageMoving : Stage!Withdraw(t)
  BY <1>2 DEF Stage!Withdraw
<1>3. CASE \E t \in Deletable : Stage!DeleteTeam(t)
  BY <1>3 DEF Stage!DeleteTeam
<1>4. CASE \E m \in DOMAIN match : Stage!StartMatch(m)
  BY <1>4 DEF Stage!StartMatch
<1>5. CASE \E m \in Stage!GroupMatches(match), r \in Results :
             Stage!ScoreGroupMatch(m, r, Stage!Qualification(Stage!Now(withdrawn)))
  BY <1>5 DEF Stage!ScoreGroupMatch
<1>6. CASE \E m \in Stage!Playoffs(match), s \in {1, 2} : Stage!ScorePlayoff(m, s)
  BY <1>6 DEF Stage!ScorePlayoff
<1>7. CASE Stage!Generate
  BY <1>7 DEF Stage!Generate
<1>8. CASE Stage!ReleasePlayoffs \/ Stage!ConfirmResults \/ Stage!CancelTournament \/ Stage!ResetBracket
  BY <1>8 DEF Stage!ReleasePlayoffs, Stage!ConfirmResults, Stage!CancelTournament, Stage!ResetBracket
<1>. QED
  BY <1>1, <1>2, <1>3, <1>4, <1>5, <1>6, <1>7, <1>8 DEF Stage!Next

LEMMA InitTree ==
  ASSUME TournamentInit, Knockout
  PROVE  TreeInv
<1>1. /\ mode \in Modes /\ status = "REGISTRATION_OPEN" /\ size = 0 /\ DOMAIN match = {}
      /\ entered = {} /\ withdrawn = {}
  <2>1. CASE Init
    BY <2>1 DEF Init
  <2>2. CASE Stage!Init /\ size = 0
    BY <2>2 DEF Stage!Init, Knockout
  <2>. QED
    BY <2>1, <2>2 DEF TournamentInit
<1>. QED
  BY <1>1 DEF TreeInv, TreeOf

LEMMA TreesStay ==
  ASSUME Knockout => TreeInv, [TournamentNext]_tournamentVars
  PROVE  (Knockout => TreeInv)'
<1>. SUFFICES ASSUME Knockout' PROVE TreeInv'
  OBVIOUS
<1>1. CASE KnockoutMove
  BY <1>1, NextTree DEF KnockoutMove
<1>2. CASE StageMove
  <2>1. ~ Knockout /\ mode' = mode
    BY <1>2, StageKeepsMode DEF StageMove
  <2>. QED
    BY <2>1 DEF Knockout
<1>3. CASE UNCHANGED tournamentVars
  BY <1>3 DEF tournamentVars, vars, Knockout, TreeInv
<1>. QED
  BY <1>1, <1>2, <1>3 DEF TournamentNext

\* In every state of a knockout tournament of any number of teams, in both
\* modes, the tree is sound: however results, corrections, withdrawals and
\* deletions interleave, its slots follow its results, no team has two matches
\* to play, and the tournament is in review exactly while all is decided.
THEOREM TreesSound == TournamentSpec => []TreeSound
<1>1. TournamentInit => (Knockout => TreeInv)
  BY InitTree
<1>2. (Knockout => TreeInv) /\ [TournamentNext]_tournamentVars => (Knockout => TreeInv)'
  BY TreesStay
<1>3. (Knockout => TreeInv) => TreeSound
  BY TreeOpens DEF TreeSound
<1>. QED
  BY <1>1, <1>2, <1>3, PTL DEF TournamentSpec

\* Who is out of a finished tree has lost as often as the mode asks for.
LEMMA TreeLives ==
  ASSUME TreeInv
  PROVE  LossesDecide
<1>. SUFFICES ASSUME Generated, AllCompleted(match), NEW t \in Active
     PROVE  IF t = Champion THEN Losses(t) < (IF mode = "SINGLE" THEN 1 ELSE 2)
            ELSE Losses(t) = IF mode = "SINGLE" THEN 1 ELSE 2
  BY DEF LossesDecide
<1>1. /\ mode \in Modes /\ size \in Sizes /\ entered \in SUBSET Teams /\ withdrawn \in SUBSET entered
      /\ Sound(Now, entered, match, {}) /\ Told(Now, entered, match)
  BY NotGenerated DEF TreeInv, TreeOf, Now
<1>2. World(Now, RankOf(mode, size), entered)
  BY <1>1, TreeWorld DEF Now
<1>3. Now.gone = withdrawn /\ t \in entered \ Now.gone
  BY <1>1 DEF Now, Known, Active
<1>4. \A m \in DOMAIN match : Completed(match, m)
  BY DEF AllCompleted
<1>5. Matches = DOMAIN match /\ Losses(t) = Cardinality(Counted(match, t))
  BY DEF Matches, Losses, Counted
<1> DEFINE N == 4 * size + 11
<1>6. N \in Nat
  BY <1>1, BoundAssumption DEF Sizes
<1>7. /\ \A m \in Ids(Now) : RankOf(mode, size)[m] <= N
      /\ mode = "DOUBLE" => Doubles(Now)
      /\ mode = "SINGLE" => Singles(Now, size)
  BY <1>1, KnownSides DEF Now
<1>. HIDE DEF N
<1>8. CASE mode = "DOUBLE"
  <2>1. LET last == IF GrandReset \in DOMAIN match THEN GrandReset ELSE Grand
        IN IF t = match[last].winner THEN Cardinality(Counted(match, t)) < 2 ELSE Cardinality(Counted(match, t)) = 2
    BY <1>1, <1>2, <1>3, <1>4, <1>6, <1>7, <1>8, DoubleCounts
  <2>2. Champion = match[IF GrandReset \in DOMAIN match THEN GrandReset ELSE Grand].winner
    BY <1>5, <1>8 DEF Champion
  <2>. QED
    BY <1>5, <1>8, <2>1, <2>2
<1>9. CASE mode = "SINGLE"
  <2>1. IF t = match[LastOf(size)].winner THEN Cardinality(Counted(match, t)) < 1 ELSE Cardinality(Counted(match, t)) = 1
    BY <1>1, <1>2, <1>3, <1>4, <1>6, <1>7, <1>9, SingleCounts
  <2>2. Champion = match[LastOf(size)].winner
    BY <1>9 DEF Champion, LastOf
  <2>. QED
    BY <1>5, <1>9, <2>1, <2>2
<1>. QED
  BY <1>1, <1>8, <1>9, BoundAssumption

\* However results, corrections, withdrawals and deletions interleave, once all
\* matches of a knockout tournament are decided every team that did not withdraw
\* has lost once in single elimination and twice in double, and the champion
\* less often.
THEOREM LivesAreCounted == TournamentSpec => []LivesCounted
<1>1. TournamentInit => (Knockout => TreeInv)
  BY InitTree
<1>2. (Knockout => TreeInv) /\ [TournamentNext]_tournamentVars => (Knockout => TreeInv)'
  BY TreesStay
<1>3. (Knockout => TreeInv) => LivesCounted
  BY TreeLives DEF LivesCounted
<1>. QED
  BY <1>1, <1>2, <1>3, PTL DEF TournamentSpec
-----------------------------------------------------------------------------
(***************************************************************************)
(* What was started or played stays (PlayedStaysInTrees).                  *)
(***************************************************************************)
\* A match that is being played has both its teams.
Paired(b) == \A m \in DOMAIN b : b[m].status = "IN_PROGRESS" => NoTeam \notin Own(b, m)

\* TreeInv, and that of the matches of a tournament that runs: a cancelled one
\* may lose a team in the middle of a match.
PlayInv == TreeInv /\ (Running => Paired(match))

Underway(b, m) == Completed(b, m) \/ (b[m].status = "IN_PROGRESS" /\ NoTeam \notin Own(b, m))

\* KeptAsPlayed of any two brackets, where the teams E are those that are left.
Upheld(E, b, c, m) ==
  /\ m \in DOMAIN c =>
       /\ c[m].status \in {b[m].status, "COMPLETED"}
       /\ \A s \in {1, 2} : c[m].team[s] = IF b[m].team[s] \in E THEN b[m].team[s] ELSE NoTeam
  /\ Completed(b, m) => m \in DOMAIN c

\* What every step has to show: the invariant, and that no match is undone.
NothingUndone == (Running' => Paired(match')) /\ \A m \in DOMAIN match : ByHand(m) => Upheld(entered', match, match', m)

LEMMA StaysPaired ==
  ASSUME NEW b, NEW c, Stays(b, c), Paired(b)
  PROVE  Paired(c)
<1>. SUFFICES ASSUME NEW m \in DOMAIN c, c[m].status = "IN_PROGRESS" PROVE NoTeam \notin Own(c, m)
  BY DEF Paired
<1>1. m \in DOMAIN b /\ b[m].status = "IN_PROGRESS"
  BY DEF Stays
<1>2. NoTeam \notin Own(b, m)
  BY <1>1 DEF Paired
<1>3. c[m].team = b[m].team
  BY <1>1, <1>2 DEF Stays
<1>. QED
  BY <1>2, <1>3 DEF Own, At

\* Whoever stands in a match is entered.
LEMMA EnteredStands ==
  ASSUME NEW E, NEW b, b \in [DOMAIN b -> Records(E)], NEW m \in DOMAIN b, NEW s \in {1, 2}
  PROVE  b[m].team[s] = IF b[m].team[s] \in E THEN b[m].team[s] ELSE NoTeam
<1>1. b[m].team \in Places(E) \X Places(E)
  BY DEF Records
<1>2. b[m].team[s] \in Places(E)
  BY <1>1
<1>. QED
  BY <1>2 DEF Places

LEMMA StaysUpheld ==
  ASSUME NEW E, NEW b, NEW c, Stays(b, c), b \in [DOMAIN b -> Records(E)], NEW m \in DOMAIN b, Underway(b, m)
  PROVE  Upheld(E, b, c, m)
<1>1. m \in DOMAIN c
  BY DEF Stays
<1>2. c[m].team = b[m].team /\ c[m].status \in {b[m].status, "COMPLETED"}
  BY DEF Stays, Underway
<1>3. \A s \in {1, 2} : b[m].team[s] = IF b[m].team[s] \in E THEN b[m].team[s] ELSE NoTeam
  BY EnteredStands
<1>. QED
  BY <1>1, <1>2, <1>3 DEF Upheld

\* The same of the tournament, when an operation writes the bracket b.
LEMMA StaysPlayed ==
  ASSUME PlayInv, Running, NEW b, Stays(match, b)
  PROVE  Paired(b) /\ \A m \in DOMAIN match : ByHand(m) => Upheld(entered, match, b, m)
<1>1. Paired(match)
  BY DEF PlayInv
<1>2. match \in [DOMAIN match -> Records(entered)]
  BY RunningTree DEF PlayInv, Sound, Hung
<1>3. ASSUME NEW m \in DOMAIN match, ByHand(m) PROVE Upheld(entered, match, b, m)
  <2>1. Underway(match, m)
    BY <1>1, <1>3 DEF ByHand, Underway, Paired
  <2>. QED
    BY <1>2, <2>1, StaysUpheld
<1>. QED
  BY <1>1, <1>3, StaysPaired

\* Before the generation there is nothing to lose.
LEMMA NothingPlayed ==
  ASSUME TreeInv, size = 0
  PROVE  DOMAIN match = {} /\ ~Running
BY DEF TreeInv, TreeOf, Running

LEMMA RegistrationPlays ==
  ASSUME PlayInv, NEW t \in Teams, Register(t) \/ Unregister(t)
  PROVE  NothingUndone
<1>1. size = 0
  BY NotGenerated DEF PlayInv, TreeInv, TreeOf, Register, Unregister
<1>2. DOMAIN match = {} /\ ~Running
  BY <1>1, NothingPlayed DEF PlayInv
<1>3. status' = status
  BY DEF Register, Unregister
<1>. QED
  BY <1>2, <1>3 DEF NothingUndone, Running

LEMMA WithdrawPlays ==
  ASSUME PlayInv, NEW t \in Moving, Withdraw(t)
  PROVE  NothingUndone
<1>1. /\ mode \in Modes /\ entered \in SUBSET Teams /\ withdrawn \in SUBSET entered
      /\ withdrawn \cup {t} \in SUBSET entered /\ entered' = entered /\ t # NoTeam
  BY DEF PlayInv, TreeInv, TreeOf, Withdraw, Teams, NoTeam
<1>2. CASE Generated
  <2>1. size \in Sizes /\ size # 0 /\ Sound(Known(mode, size, withdrawn), entered, match, {})
    BY <1>2, NotGenerated DEF PlayInv, TreeInv, TreeOf
  <2>2. Running
    BY <2>1 DEF PlayInv, TreeInv, TreeOf, Withdraw, Running
  <2> DEFINE x == Known(mode, size, withdrawn)
             y == Known(mode, size, withdrawn \cup {t})
             b == Forfeited(y, match, t)
  <2>3. y.tree = x.tree /\ x.gone \subseteq y.gone
    BY DEF Known
  <2>4. World(y, RankOf(mode, size), entered)
    BY <1>1, <2>1, TreeWorld
  <2>5. match' = b
    BY <1>2 DEF Withdraw
  <2>. HIDE DEF x, y
  <2>6. Sound(y, entered, match, {})
    BY <2>1, <2>3, MoreGone DEF x
  <2>7. Stays(match, b)
    BY <1>1, <2>4, <2>6, ForfeitedTells
  <2>. HIDE DEF b
  <2>. QED
    BY <1>1, <2>2, <2>5, <2>7, StaysPlayed DEF NothingUndone
<1>3. CASE ~Generated
  <2>1. DOMAIN match = {} /\ ~Running
    BY <1>3, NotGenerated, NothingPlayed DEF PlayInv
  <2>2. status' = status
    BY <1>3 DEF Withdraw
  <2>. QED
    BY <2>1, <2>2 DEF NothingUndone, Running
<1>. QED
  BY <1>2, <1>3

\* A deletion empties the places of its team, and nobody else's.
LEMMA EmptiedUpheld ==
  ASSUME NEW E, NEW b, NEW c, NEW t, NEW d, NoTeam \notin E, NEW m \in DOMAIN b, Upheld(E, b, c, m), Emptied(E, c, d, t)
  PROVE  Upheld(E \ {t}, b, d, m)
<1>1. DOMAIN d = DOMAIN c
  BY DEF Emptied
<1>2. ASSUME m \in DOMAIN d
      PROVE  /\ d[m].status \in {b[m].status, "COMPLETED"}
             /\ \A s \in {1, 2} : d[m].team[s] = IF b[m].team[s] \in E \ {t} THEN b[m].team[s] ELSE NoTeam
  <2>1. m \in DOMAIN c /\ d[m].status = c[m].status
    BY <1>1, <1>2 DEF Emptied
  <2>2. \A s \in {1, 2} : d[m].team[s] = Un(c[m].team[s], t)
    BY <2>1 DEF Emptied
  <2>3. /\ c[m].status \in {b[m].status, "COMPLETED"}
        /\ \A s \in {1, 2} : c[m].team[s] = IF b[m].team[s] \in E THEN b[m].team[s] ELSE NoTeam
    BY <2>1 DEF Upheld
  <2>4. ASSUME NEW s \in {1, 2} PROVE d[m].team[s] = IF b[m].team[s] \in E \ {t} THEN b[m].team[s] ELSE NoTeam
    <3>1. CASE b[m].team[s] = t
      BY <2>2, <2>3, <3>1 DEF Un
    <3>2. CASE b[m].team[s] # t
      BY <2>2, <2>3, <3>2 DEF Un
    <3>. QED
      BY <3>1, <3>2
  <2>. QED
    BY <2>1, <2>3, <2>4
<1>. QED
  BY <1>1, <1>2 DEF Upheld

LEMMA DeletePlays ==
  ASSUME PlayInv, NEW t \in Moving, DeleteTeam(t)
  PROVE  NothingUndone
<1> DEFINE y == Known(mode, size, withdrawn \cup {t})
           left == IF Generated /\ status \notin {"FINISHED", "CANCELLED"} THEN Forfeited(y, match, t) ELSE match
<1>1. /\ mode \in Modes /\ entered \in SUBSET Teams /\ withdrawn \in SUBSET entered
      /\ withdrawn \cup {t} \in SUBSET entered /\ t # NoTeam /\ NoTeam \notin entered
  BY DEF PlayInv, TreeInv, TreeOf, DeleteTeam, Teams, NoTeam
<1>2. /\ match' = Without(left, t) /\ status' = (IF Generated /\ Running THEN Reviewed(left) ELSE status)
      /\ entered' = entered \ {t}
  BY DEF DeleteTeam
<1>3. CASE ~Generated
  <2>1. DOMAIN match = {} /\ ~Running
    BY <1>3, NotGenerated, NothingPlayed DEF PlayInv
  <2>2. status' = status
    BY <1>2, <1>3
  <2>. QED
    BY <2>1, <2>2 DEF NothingUndone, Running
<1>4. CASE Generated
  <2>1. size \in Sizes /\ size # 0 /\ Sound(Known(mode, size, withdrawn), entered, match, {})
    BY <1>4, NotGenerated DEF PlayInv, TreeInv, TreeOf
  <2>2. match \in [DOMAIN match -> Records(entered)]
    BY <2>1 DEF Sound, Hung
  <2>3. Running <=> status \notin {"FINISHED", "CANCELLED"}
    BY <2>1 DEF PlayInv, TreeInv, TreeOf, Running
  <2>4. CASE Running
    <3>1. left = Forfeited(y, match, t)
      BY <1>4, <2>3, <2>4
    <3>2. y.tree = Known(mode, size, withdrawn).tree /\ Known(mode, size, withdrawn).gone \subseteq y.gone
      BY DEF Known
    <3>3. World(y, RankOf(mode, size), entered)
      BY <1>1, <2>1, TreeWorld
    <3>. HIDE DEF y, left
    <3>4. Sound(y, entered, match, {})
      BY <2>1, <3>2, MoreGone
    <3>5. /\ Sound(y, entered, left, {}) /\ Stays(match, left)
          /\ \A m \in OpenOf(match, t) : NoTeam \notin Own(match, m) => Completed(left, m)
      BY <1>1, <3>1, <3>3, <3>4, ForfeitedTells
    <3>6. Paired(left) /\ \A m \in DOMAIN match : ByHand(m) => Upheld(entered, match, left, m)
      BY <2>4, <3>5, StaysPlayed
    <3>7. left \in [DOMAIN left -> Records(entered)]
      BY <3>5 DEF Sound, Hung
    <3>8. Emptied(entered, left, match', t)
      BY <1>1, <1>2, <3>7, WithoutIs
    <3>9. \A m \in DOMAIN match : ByHand(m) => Upheld(entered', match, match', m)
      BY <1>1, <1>2, <3>6, <3>8, EmptiedUpheld
    <3>10. ASSUME NEW m \in DOMAIN match', match'[m].status = "IN_PROGRESS" PROVE NoTeam \notin Own(match', m)
      <4>1. /\ m \in DOMAIN left /\ left[m].status = "IN_PROGRESS"
            /\ match'[m].team[1] = Un(left[m].team[1], t) /\ match'[m].team[2] = Un(left[m].team[2], t)
        BY <3>8, <3>10 DEF Emptied
      <4>2. m \in DOMAIN match /\ match[m].status = "IN_PROGRESS" /\ NoTeam \notin Own(left, m)
        BY <3>5, <3>6, <4>1 DEF Stays, Paired
      <4>3. NoTeam \notin Own(match, m)
        BY <2>4, <4>2 DEF PlayInv, Paired
      <4>4. left[m].team = match[m].team
        BY <3>5, <4>2, <4>3 DEF Stays
      <4>5. t \notin Own(match, m)
        BY <3>5, <4>1, <4>2, <4>3 DEF OpenOf, Own, At, Completed
      <4>. QED
        BY <4>1, <4>3, <4>4, <4>5 DEF Own, At, Un
    <3>. QED
      BY <3>9, <3>10 DEF NothingUndone, Paired
  <2>5. CASE ~Running
    <3>1. left = match
      BY <2>3, <2>5
    <3>2. status' = status
      BY <1>2, <2>5
    <3>. HIDE DEF left
    <3>3. Emptied(entered, match, match', t)
      BY <1>1, <1>2, <2>2, <3>1, WithoutIs
    <3>4. \A m \in DOMAIN match : Upheld(entered, match, match, m)
      BY <2>2, EnteredStands DEF Upheld
    <3>5. \A m \in DOMAIN match : Upheld(entered', match, match', m)
      BY <1>1, <1>2, <3>3, <3>4, EmptiedUpheld
    <3>. QED
      BY <2>5, <3>2, <3>5 DEF NothingUndone, Running
  <2>. QED
    BY <2>4, <2>5
<1>. QED
  BY <1>3, <1>4

LEMMA StartPlays ==
  ASSUME PlayInv, NEW m \in DOMAIN match, StartMatch(m)
  PROVE  NothingUndone
<1>1. /\ Running /\ match[m].status = "READY" /\ match' = [match EXCEPT ![m].status = "IN_PROGRESS"]
      /\ entered' = entered /\ NoTeam \notin Own(match, m)
  BY DEF StartMatch, Editable, Own, At
<1>2. match \in [DOMAIN match -> Records(entered)] /\ Paired(match)
  BY <1>1, RunningTree DEF PlayInv, Sound, Hung
<1>3. match[m] \in Records(entered)
  BY <1>2
<1>4. match'[m].team = match[m].team
  BY <1>1, <1>3 DEF Records
<1>5. DOMAIN match' = DOMAIN match /\ \A n \in DOMAIN match : n # m => match'[n] = match[n]
  BY <1>1
<1>6. Paired(match')
  BY <1>1, <1>2, <1>4, <1>5 DEF Paired, Own, At
<1>7. ASSUME NEW n \in DOMAIN match, ByHand(n) PROVE Upheld(entered', match, match', n)
  <2>1. n # m
    BY <1>1, <1>7 DEF ByHand, Completed
  <2>2. \A s \in {1, 2} : match[n].team[s] = IF match[n].team[s] \in entered THEN match[n].team[s] ELSE NoTeam
    BY <1>2, EnteredStands
  <2>. QED
    BY <1>1, <1>5, <2>1, <2>2 DEF Upheld
<1>. QED
  BY <1>6, <1>7 DEF NothingUndone

\* A correction leaves what is being played, or was decided by hand, where it is.
LEMMA CorrectionSpares ==
  ASSUME NEW x, NEW rank, NEW E, NEW b, World(x, rank, E), Sound(x, E, b, {}), Paired(b),
         NEW m \in DOMAIN b, Completed(b, m), NoTeam \notin Own(b, m), ~Automatic(x, b, m),
         NEW s \in Ways, NEW kind \in {"PLAYED", "WALKOVER"}, Corrects(b, m, s),
         Repairable(x, Written(b, m, s, kind), m)
  PROVE  LET c == Scored(x, b, m, s, kind)
         IN /\ Paired(c)
            /\ \A n \in DOMAIN b : (b[n].status = "IN_PROGRESS" \/ (Completed(b, n) /\ ~Automatic(x, b, n)))
                 => Upheld(E, b, c, n)
<1> DEFINE c == Scored(x, b, m, s, kind)
           set == Written(b, m, s, kind)
           blank == Blank(x, set, m)
<1>1. /\ DOMAIN set = DOMAIN b /\ Completed(set, m) /\ set[m].team = b[m].team
      /\ \A n \in DOMAIN b : n # m => set[n] = b[n]
  BY WrittenIs
<1>2. Stays(blank, c)
  BY CorrectedResult
<1>3. /\ DOMAIN blank = Kept(x, set, m)
      /\ \A n \in Kept(x, set, m) : blank[n] = IF n \in Affected(x, set, m) THEN Open ELSE set[n]
  BY DEF Blank
<1>4. \A d \in Below(x, m) \cap DOMAIN set : set[d].status # "IN_PROGRESS" /\ (Completed(set, d) => Automatic(x, set, d))
  BY DEF Repairable
<1>5. m \in DOMAIN b /\ m \notin Below(x, m) /\ b \in [DOMAIN b -> Records(E)]
  BY DEF World, Shape, Behind, Sound, Hung
<1>. HIDE DEF c, set, blank
<1>6. ASSUME NEW n \in DOMAIN b, b[n].status = "IN_PROGRESS" \/ (Completed(b, n) /\ ~Automatic(x, b, n))
      PROVE  n \in DOMAIN blank /\ blank[n] = set[n] /\ n \notin Below(x, m)
  <2>1. CASE n = m
    BY <1>1, <1>3, <1>5, <2>1 DEF Kept, Affected
  <2>2. CASE n # m
    <3>1. set[n] = b[n] /\ n \in DOMAIN set
      BY <1>1, <2>2
    <3>2. n \notin Below(x, m)
      BY <1>4, <1>6, <3>1 DEF Automatic, Completed
    <3>. QED
      BY <1>3, <3>1, <3>2 DEF Kept, Affected
  <2>. QED
    BY <2>1, <2>2
<1>7. Paired(blank)
  <2>. SUFFICES ASSUME NEW n \in DOMAIN blank, blank[n].status = "IN_PROGRESS" PROVE NoTeam \notin Own(blank, n)
    BY DEF Paired
  <2>1. blank[n] = set[n] /\ n \in DOMAIN set
    <3>1. Open.status = "PENDING"
      BY DEF Open
    <3>. QED
      BY <1>3, <3>1 DEF Kept
  <2>2. n # m /\ blank[n] = b[n] /\ n \in DOMAIN b
    BY <1>1, <2>1 DEF Completed
  <2>. QED
    BY <2>2 DEF Paired, Own, At
<1>8. Paired(c)
  BY <1>2, <1>7, StaysPaired
<1>9. ASSUME NEW n \in DOMAIN b, b[n].status = "IN_PROGRESS" \/ (Completed(b, n) /\ ~Automatic(x, b, n))
      PROVE  Upheld(E, b, c, n)
  <2>1. n \in DOMAIN blank /\ blank[n] = set[n]
    BY <1>6, <1>9
  <2>2. blank[n].team = b[n].team /\ blank[n].status = b[n].status
    <3>1. CASE n = m
      BY <1>1, <2>1, <3>1 DEF Completed
    <3>2. CASE n # m
      BY <1>1, <2>1, <3>2
    <3>. QED
      BY <3>1, <3>2
  <2>3. CASE Completed(b, n)
    <3>1. Completed(blank, n)
      BY <2>2, <2>3 DEF Completed
    <3>2. n \in DOMAIN c /\ c[n] = blank[n]
      BY <1>2, <2>1, <3>1 DEF Stays
    <3>3. \A v \in {1, 2} : b[n].team[v] = IF b[n].team[v] \in E THEN b[n].team[v] ELSE NoTeam
      BY <1>5, EnteredStands
    <3>. QED
      BY <2>2, <3>2, <3>3 DEF Upheld
  <2>4. CASE b[n].status = "IN_PROGRESS"
    <3>1. NoTeam \notin Own(b, n)
      BY <2>4 DEF Paired
    <3>2. NoTeam \notin Own(blank, n)
      BY <2>2, <3>1 DEF Own, At
    <3>3. n \in DOMAIN c /\ c[n].team = b[n].team /\ c[n].status \in {"IN_PROGRESS", "COMPLETED"}
      BY <1>2, <2>1, <2>2, <2>4, <3>2 DEF Stays
    <3>4. \A v \in {1, 2} : b[n].team[v] = IF b[n].team[v] \in E THEN b[n].team[v] ELSE NoTeam
      BY <1>5, EnteredStands
    <3>. QED
      BY <2>4, <3>3, <3>4 DEF Upheld
  <2>. QED
    BY <1>9, <2>3, <2>4
<1>. QED
  BY <1>8, <1>9 DEF c

LEMMA ScorePlays ==
  ASSUME PlayInv, NEW m \in DOMAIN match, NEW s \in Winners, NEW n \in BOOLEAN, ScoreMatch(m, s, n)
  PROVE  NothingUndone
<1> DEFINE kind == IF n THEN "WALKOVER" ELSE "PLAYED"
           c == Scored(Now, match, m, s, kind)
<1>1. /\ Editable(m) /\ match' = c /\ entered' = entered
      /\ Corrects(match, m, s) => Repairable(Now, Written(match, m, s, kind), m)
  BY DEF ScoreMatch, Written
<1>2. Running /\ NoTeam \notin Own(match, m) /\ ~Automatic(Now, match, m)
  BY <1>1 DEF Editable, Own, At
<1>3. /\ World(Now, RankOf(mode, size), entered) /\ Sound(Now, entered, match, {})
      /\ match \in [DOMAIN match -> Records(entered)] /\ Paired(match)
  BY <1>2, RunningTree DEF PlayInv, Sound, Hung
<1>4. s \in Ways /\ kind \in {"PLAYED", "WALKOVER"}
  BY BoundAssumption DEF Ways
<1>. HIDE DEF kind
<1>5. CASE ~Completed(match, m)
  <2>1. Stays(match, c)
    BY <1>2, <1>3, <1>4, <1>5, FirstResult
  <2>. HIDE DEF c
  <2>. QED
    BY <1>1, <1>2, <2>1, StaysPlayed DEF NothingUndone
<1>6. CASE Completed(match, m) /\ Corrects(match, m, s)
  <2>1. /\ Paired(c)
        /\ \A i \in DOMAIN match : (match[i].status = "IN_PROGRESS" \/ (Completed(match, i) /\ ~Automatic(Now, match, i)))
             => Upheld(entered, match, c, i)
    BY <1>1, <1>2, <1>3, <1>4, <1>6, CorrectionSpares
  <2>. HIDE DEF c
  <2>. QED
    BY <1>1, <2>1 DEF NothingUndone, ByHand
<1>7. CASE Completed(match, m) /\ ~Corrects(match, m, s)
  <2>1. c = Written(match, m, s, kind)
    BY <1>4, <1>7, ScoredIs
  <2>. HIDE DEF c
  <2>2. /\ DOMAIN c = DOMAIN match /\ Completed(c, m) /\ c[m].team = match[m].team
        /\ \A i \in DOMAIN match : i # m => c[i] = match[i]
    BY <1>2, <1>3, <1>4, <2>1, WrittenIs
  <2>3. \A i \in DOMAIN match : c[i].team = match[i].team /\ c[i].status = match[i].status
    BY <1>7, <2>2 DEF Completed
  <2>4. Paired(c)
    BY <1>3, <2>2, <2>3 DEF Paired, Own, At
  <2>5. ASSUME NEW i \in DOMAIN match PROVE Upheld(entered, match, c, i)
    <3>1. \A v \in {1, 2} : match[i].team[v] = IF match[i].team[v] \in entered THEN match[i].team[v] ELSE NoTeam
      BY <1>3, EnteredStands
    <3>. QED
      BY <2>2, <2>3, <3>1 DEF Upheld
  <2>. QED
    BY <1>1, <2>4, <2>5 DEF NothingUndone
<1>. QED
  BY <1>5, <1>6, <1>7

LEMMA GeneratePlays ==
  ASSUME PlayInv, Generate
  PROVE  NothingUndone
<1> DEFINE k == SizeFor(Len(Lineup))
           x == Known(mode, k, withdrawn)
           first == ByesMoved(mode, k, FirstRound(mode, k, Lineup))
           due == {m \in DOMAIN first : Rechecked(mode, k, m)}
           c == CheckAll(x, first, due)
<1>1. match' = c /\ Len(Lineup) >= 2 /\ status = "REGISTRATION_OPEN"
  BY DEF Generate
<1>2. DOMAIN match = {}
  BY <1>1 DEF PlayInv, TreeInv, TreeOf
<1>3. mode \in Modes /\ entered \in SUBSET Teams /\ withdrawn \in SUBSET entered
  BY DEF PlayInv, TreeInv, TreeOf
<1>4. Drawn(mode, k, entered \ withdrawn, Lineup)
  BY <1>1, <1>3, LineupDrawn
<1>5. /\ World(x, RankOf(mode, k), entered) /\ Sound(x, entered, first, {})
      /\ \A m \in DOMAIN first : first[m].status # "IN_PROGRESS"
  BY <1>3, <1>4, GeneratedSound
<1>6. due \subseteq DOMAIN first
  OBVIOUS
<1>. HIDE DEF k, x, first, due
<1>7. Stays(first, c)
  <2>1. Sound(x, entered, c, {}) /\ Keeps(x, first, c)
    BY <1>5, <1>6, CheckAllSound
  <2>. HIDE DEF c
  <2>. QED
    BY <2>1, KeepsStays
<1>. HIDE DEF c
<1>8. Paired(c)
  BY <1>5, <1>7 DEF Stays, Paired
<1>. QED
  BY <1>1, <1>2, <1>8 DEF NothingUndone

LEMMA ClosingPlays ==
  ASSUME PlayInv, ConfirmResults \/ CancelTournament \/ ResetBracket
  PROVE  NothingUndone
<1>1. CASE ConfirmResults \/ CancelTournament
  <2>1. match' = match /\ entered' = entered /\ ~Running'
    BY <1>1 DEF ConfirmResults, CancelTournament, Running
  <2>2. ASSUME NEW m \in DOMAIN match PROVE Upheld(entered, match, match, m)
    <3>1. size # 0 /\ Sound(Known(mode, size, withdrawn), entered, match, {})
      BY <2>2 DEF PlayInv, TreeInv, TreeOf
    <3>2. match \in [DOMAIN match -> Records(entered)]
      BY <3>1 DEF Sound, Hung
    <3>. QED
      BY <3>2, EnteredStands DEF Upheld
  <2>. QED
    BY <2>1, <2>2 DEF NothingUndone
<1>2. CASE ResetBracket
  <2>1. DOMAIN match' = {} /\ ~Running'
    BY <1>2 DEF ResetBracket, Running
  <2>2. \A m \in DOMAIN match : Completed(match, m) => Automatic(Now, match, m)
    BY <1>2 DEF ResetBracket, Automatic
  <2>3. ASSUME NEW m \in DOMAIN match, ByHand(m) PROVE ~Completed(match, m)
    BY <2>2, <2>3 DEF ByHand, Completed
  <2>. QED
    BY <2>1, <2>3 DEF NothingUndone, Upheld
<1>. QED
  BY <1>1, <1>2

LEMMA NextPlays ==
  ASSUME PlayInv, Next
  PROVE  PlayInv' /\ PlayedStaysInTrees
<1>1. NothingUndone
  <2>1. CASE \E t \in Teams : Register(t) \/ Unregister(t)
    BY <2>1, RegistrationPlays
  <2>2. CASE \E t \in Moving : Withdraw(t) \/ DeleteTeam(t)
    BY <2>2, WithdrawPlays, DeletePlays
  <2>3. CASE \E m \in DOMAIN match : StartMatch(m)
    BY <2>3, StartPlays
  <2>4. CASE \E m \in DOMAIN match, s \in Winners, n \in BOOLEAN : ScoreMatch(m, s, n)
    BY <2>4, ScorePlays
  <2>5. CASE Generate
    BY <2>5, GeneratePlays
  <2>6. CASE ConfirmResults \/ CancelTournament \/ ResetBracket
    BY <2>6, ClosingPlays
  <2>. QED
    BY <2>1, <2>2, <2>3, <2>4, <2>5, <2>6 DEF Next
<1>2. TreeInv'
  BY NextTree DEF PlayInv
<1>3. \A m \in DOMAIN match : Upheld(entered', match, match', m) => KeptAsPlayed(m)
  BY DEF Upheld, KeptAsPlayed
<1>. QED
  BY <1>1, <1>2, <1>3 DEF NothingUndone, PlayInv, PlayedStaysInTrees, Matches

\* No step of a knockout tournament of any number of teams, in both modes, takes
\* back a match that was started or decided by hand, or gives it to other teams:
\* not a result, a correction or a withdrawal elsewhere in the tree, not the
\* deletion of another team.  A deleted team leaves an empty place, and only the
\* reset of a tree without results removes a started match.
THEOREM PlayedMatchesStand == TournamentSpec => [][PlayedStaysInTrees]_tournamentVars
<1>1. TournamentInit => (Knockout => PlayInv)
  BY InitTree DEF TournamentInit, Init, Stage!Init, PlayInv, Running
<1>2. (Knockout => PlayInv) /\ [TournamentNext]_tournamentVars =>
        (Knockout => PlayInv)' /\ [PlayedStaysInTrees]_tournamentVars
  <2>. SUFFICES ASSUME Knockout => PlayInv, [TournamentNext]_tournamentVars
       PROVE  (Knockout => PlayInv)' /\ [PlayedStaysInTrees]_tournamentVars
    OBVIOUS
  <2>1. CASE KnockoutMove
    BY <2>1, NextPlays DEF KnockoutMove
  <2>2. CASE StageMove
    <3>1. ~Knockout /\ mode' = mode
      BY <2>2, StageKeepsMode DEF StageMove
    <3>2. ~Knockout'
      BY <3>1 DEF Knockout
    <3>. QED
      BY <3>1, <3>2 DEF PlayedStaysInTrees
  <2>3. CASE UNCHANGED tournamentVars
    <3>1. (Knockout => PlayInv)'
      BY <2>3 DEF tournamentVars, vars, Knockout, PlayInv, TreeInv, Running
    <3>. QED
      BY <2>3, <3>1
  <2>. QED
    BY <2>1, <2>2, <2>3 DEF TournamentNext
<1>. QED
  BY <1>1, <1>2, PTL DEF TournamentSpec
=============================================================================
