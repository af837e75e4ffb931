-------------------------------- MODULE Draws --------------------------------
(* The draw of a tournament before its start (tournaments/services/draws.py) *)
(* and its new editions (services/restart.py). Both go through a signed form *)
(* that shows the state and is posted later, perhaps twice, perhaps after    *)
(* another one: entries, seeds, rosters and clans may have changed by then.  *)
EXTENDS Integers, Sequences, FiniteSets, FiniteSetsExt, SequencesExt

CONSTANTS
  Candidates,        \* the teams
  Coming,       \* bound: teams that register or withdraw
  Frail,        \* bound: teams that lose a player
  SeedPlans,    \* bound: the seeds that staff set: functions from Candidates to Nat
  Chosen,       \* bound: the clans that organisers choose for the draw
  CaptainClan,  \* the clan of each team's captain, or NoClan
  NoClan,
  Explored,     \* bound: the orders of the teams that a shuffle is seen to end in
  Swaps,        \* bound: the pairs of teams that are swapped by hand
  MaxCopies     \* bound: new editions

VARIABLES
  drawing,  \* the tournament: mode (KNOCKOUT for both eliminations, which have the
            \* same first round), status (open before the start) and the
            \* registrations in the order of their keys
  fit,      \* whether each team's roster may start
  banished, \* deleted clans
  opening,  \* the first round: pairs of teams, or the team alone with a bye
  drafts,   \* the signed draft of the organiser, if any; when it is published it is logged
            \* as a TournamentDraw, with the reason for its conflicts
  copyForm, \* the signed preview of a new edition, or NoCopyForm
  copies    \* the new editions, by the form that made them

drawVars == <<drawing, fit, banished, opening, drafts, copyForm, copies>>

NoCopyForm == [posted |-> TRUE]

DrawInit(modes, starters) ==
  /\ drawing \in [mode : modes, status : {"open"},
                  entries : {[i \in DOMAIN starters |->
                                [team |-> starters[i], seed |-> 0, clan |-> NoClan, out |-> FALSE]]}]
  /\ fit = [t \in Candidates |-> TRUE]
  /\ banished = {} /\ opening = {} /\ drafts = {}
  /\ copyForm = NoCopyForm /\ copies = <<>>

-----------------------------------------------------------------------------
(* Positions. The pairs of the first round are read off the order of the     *)
(* teams by the draft, and again by the generators that write the matches.   *)

\* generate_standard_seed_order, by the number of rounds.
StandardSeeds ==
  LET of[r \in 1..3] ==
        IF r = 1 THEN <<1, 2>>
        ELSE [i \in 1..(2 ^ r) |-> IF i % 2 = 1 THEN of[r - 1][(i + 1) \div 2]
                                   ELSE 2 ^ r + 1 - of[r - 1][i \div 2]]
  IN of

RoundsFor(n) == Min({r \in 1..3 : 2 ^ r >= n})

\* _group_positions
GroupPlaces(n) == << SelectSeq([i \in 1..n |-> i], LAMBDA i : i % 4 \in {0, 1}),
                     SelectSeq([i \in 1..n |-> i], LAMBDA i : i % 4 \in {2, 3}) >>

\* generate_round_robin_schedule: the first round, the fixed place first.
FirstMatchday(s) ==
  LET full == IF Len(s) % 2 = 0 THEN s ELSE Append(s, 0)
      ends == {<<full[i], full[Len(full) + 1 - i]>> : i \in 1..(Len(full) \div 2)}
  IN {p \in ends : 0 \notin {p[1], p[2]}}

\* _position_pairs; 0 stands for nobody.
PositionPairs(mode, n) ==
  CASE mode = "FFA" -> {}
    [] mode = "LEAGUE" ->
         IF n % 2 = 0 THEN {<<i, n + 1 - i>> : i \in 1..(n \div 2)}
         ELSE {<<i + 1, n + 1 - i>> : i \in 1..(n \div 2)} \cup {<<1, 0>>}
    [] mode = "SWISS" ->
         {<<i, i + n \div 2>> : i \in 1..(n \div 2)} \cup (IF n % 2 = 0 THEN {} ELSE {<<n, 0>>})
    [] mode = "GROUP_STAGE" -> UNION {FirstMatchday(GroupPlaces(n)[g]) : g \in {1, 2}}
    [] OTHER ->
         LET slot(i) == LET s == StandardSeeds[RoundsFor(n)][i] IN IF s <= n THEN s ELSE 0
         IN {<<slot(2 * i - 1), slot(2 * i)>> : i \in 1..(2 ^ (RoundsFor(n) - 1))}

TeamsAt(order, pair) == {order[i] : i \in {pair[1], pair[2]} \ {0}}
PairsDrafted(mode, order) == {TeamsAt(order, p) : p \in PositionPairs(mode, Len(order))}

\* What the generators write as the first round; nobody plays in an empty place.
WrittenTree(order) ==
  LET seeds == StandardSeeds[RoundsFor(Len(order))]
      seeded(s) == IF s <= Len(order) THEN {order[s]} ELSE {}
  IN {seeded(seeds[2 * i - 1]) \cup seeded(seeds[2 * i]) : i \in 1..(Len(seeds) \div 2)}

WrittenDay(teams) == {{p[1], p[2]} : p \in FirstMatchday(teams)}

WrittenGroups(order) ==
  UNION {WrittenDay([i \in DOMAIN places |-> order[places[i]]]) : places \in ToSet(GroupPlaces(Len(order)))}

\* A Swiss round is written as the draft shows it; free for all has no pairs.
WrittenRound(mode, order) ==
  CASE mode = "KNOCKOUT" -> WrittenTree(order)
    [] mode = "LEAGUE" -> WrittenDay(order)
    [] mode = "GROUP_STAGE" -> WrittenGroups(order)
    [] OTHER -> PairsDrafted(mode, order)

-----------------------------------------------------------------------------
(* Drafts.                                                                  *)

Competing == SelectSeq(drawing.entries, LAMBDA r : ~r.out)
TeamsOfDraw == {Competing[i].team : i \in DOMAIN Competing}
EntryOf(t) == CHOOSE r \in ToSet(drawing.entries) : r.team = t
SeededTeams == {t \in TeamsOfDraw : EntryOf(t).seed # 0}
SeedsDistinct == \A t, u \in SeededTeams : EntryOf(t).seed = EntryOf(u).seed => t = u

\* _base_order: by seed, then in the order of registration.
BaseOrder ==
  SetToSortSeq(SeededTeams, LAMBDA t, u : EntryOf(t).seed < EntryOf(u).seed)
    \o SelectSeq([i \in DOMAIN Competing |-> Competing[i].team], LAMBDA t : t \notin SeededTeams)

DraftBasis == [drawing |-> drawing, fit |-> fit]

\* Mutant: the digest covers the registrations without their seeds.
DigestOfTeams(b) == [i \in DOMAIN b.drawing.entries |-> b.drawing.entries[i].team]

\* _source: what the digest of a draft covers.
SourceDigest(b) == b

InItsPlace(order, t) == \A i \in DOMAIN BaseOrder : BaseOrder[i] = t => order[i] = t

\* _editable, the minimum, _validate_plan.
Drawable == drawing.status = "open"
Enough == Len(Competing) >= IF drawing.mode = "GROUP_STAGE" THEN 4 ELSE 2
PlanHolds(d) ==
  /\ SourceDigest(d.basis) = SourceDigest(DraftBasis)
  /\ \A t \in TeamsOfDraw : d.clans[t] \notin banished
  /\ SeedsDistinct
  /\ d.respect => \A t \in SeededTeams : InItsPlace(d.order, t)
  /\ drawing.mode = "FFA" => d.respect /\ ~d.avoid

\* The encounters that _describe counts.
CountedPairs(order) ==
  IF drawing.mode = "GROUP_STAGE"
  THEN UNION {kSubset(2, {order[i] : i \in ToSet(GroupPlaces(Len(order))[g])}) : g \in {1, 2}}
  ELSE {p \in PairsDrafted(drawing.mode, order) : Cardinality(p) = 2}

Conflicts(d) == {p \in CountedPairs(d.order) : \E k \in Chosen : \A t \in p : d.clans[t] = k}

\* _shuffle_pairs, _shuffle_groups: any order with as few conflicts as the seeds allow.
Orders(d) ==
  {o \in SetToSeqs(TeamsOfDraw) : d.respect => \A t \in SeededTeams : InItsPlace(o, t)}
Reshuffled(d) ==
  LET conflicts(o) == Cardinality(Conflicts([d EXCEPT !.order = o]))
      all == Orders(d)
      seen == {SelectSeq(o, LAMBDA t : t \in TeamsOfDraw) : o \in Explored}
  IN {o \in all \cap seen : d.avoid => \A p \in all : conflicts(o) <= conflicts(p)}

Swapped(order, pair) ==
  [i \in DOMAIN order |-> IF order[i] \in pair THEN CHOOSE t \in pair : t # order[i] ELSE order[i]]

\* preview. Bound: an organiser prepares a draw or a new edition at a time.
PrepareDraw ==
  /\ copyForm = NoCopyForm
  /\ Drawable /\ Enough /\ SeedsDistinct
  /\ drafts' = {[order |-> BaseOrder, clans |-> [t \in TeamsOfDraw |-> EntryOf(t).clan], respect |-> TRUE,
                 avoid |-> drawing.mode # "FFA", basis |-> DraftBasis, posted |-> FALSE, reason |-> FALSE]}
  /\ UNCHANGED <<drawing, fit, banished, opening, copyForm, copies>>

\* revise: the options first, then shuffle, swap, suggest or nothing. Bound: the
\* draft it was made from, valid for as long, is forgotten.
ReviseDraw(d, clans, respect, avoid) ==
  LET chosen == [d EXCEPT !.order = IF respect /\ ~d.respect THEN BaseOrder ELSE @,
                          !.clans = clans, !.respect = respect, !.avoid = avoid, !.posted = FALSE, !.reason = FALSE]
      result ==
        {[chosen EXCEPT !.clans = [t \in TeamsOfDraw |->
                                     IF clans[t] = NoClan /\ CaptainClan[t] \notin banished THEN CaptainClan[t] ELSE clans[t]]],
         chosen}
        \cup (IF drawing.mode = "FFA" THEN {}
              ELSE {[chosen EXCEPT !.order = o] : o \in Reshuffled(chosen)}
                   \cup {[chosen EXCEPT !.order = Swapped(@, p)] : p \in {q \in Swaps : q \subseteq TeamsOfDraw}})
  IN
  /\ Drawable /\ PlanHolds(d) /\ PlanHolds(chosen)
  /\ \E new \in result : PlanHolds(new) /\ drafts' = {new}
  /\ UNCHANGED <<drawing, fit, banished, opening, copyForm, copies>>

\* needs_approval
Approved(d, reason) == d.avoid /\ Conflicts(d) # {} => reason

\* The entries of a started draw: the clans of the draft; a Swiss round writes the
\* seeds it was drawn with, behind them those that withdrew.
DrawnEntry(i, d) ==
  LET r == drawing.entries[i]
      place == CHOOSE p \in DOMAIN d.order : d.order[p] = r.team
  IN [r EXCEPT !.clan = IF r.out THEN @ ELSE d.clans[r.team],
               !.seed = IF drawing.mode # "SWISS" THEN @
                        ELSE IF r.out THEN Len(drawing.entries) + r.team ELSE place]

\* publish: a draft that is logged starts nothing again.
PublishDraw(d, reason) ==
  /\ ~d.posted
  /\ Drawable /\ PlanHolds(d) /\ Approved(d, reason)
  /\ \A t \in TeamsOfDraw : fit[t]
  /\ Enough
  /\ opening' = WrittenRound(drawing.mode, d.order)
  /\ drawing' = [drawing EXCEPT !.status = "running",
                                !.entries = [i \in DOMAIN @ |-> DrawnEntry(i, d)]]
  /\ drafts' = {[d EXCEPT !.posted = TRUE, !.reason = reason]}
  /\ UNCHANGED <<fit, banished, copyForm, copies>>

-----------------------------------------------------------------------------
(* What happens between a preview and its form.                             *)

\* register_team, a withdrawal; seeds set by staff. Bound: nothing is taken back.
SignUp(t) ==
  /\ Drawable /\ \A r \in ToSet(drawing.entries) : r.team # t
  /\ drawing' = [drawing EXCEPT !.entries =
                   Append(@, [team |-> t, seed |-> 0, clan |-> NoClan, out |-> FALSE])]
  /\ UNCHANGED <<fit, banished, opening, drafts, copyForm, copies>>

WithdrawEntry(t) ==
  /\ drawing.status # "over"
  /\ drawing' = [drawing EXCEPT !.entries =
                   [i \in DOMAIN @ |-> IF @[i].team = t THEN [@[i] EXCEPT !.out = TRUE] ELSE @[i]]]
  /\ UNCHANGED <<fit, banished, opening, drafts, copyForm, copies>>

SetSeeds(seeds) ==
  /\ Drawable /\ SeededTeams = {}
  /\ drawing' = [drawing EXCEPT !.entries = [i \in DOMAIN @ |-> LET r == @[i] IN [r EXCEPT !.seed = seeds[r.team]]]]
  /\ UNCHANGED <<fit, banished, opening, drafts, copyForm, copies>>

\* A team loses a player; not while it plays.
LosePlayer(t) ==
  /\ drawing.status = "running" => \A r \in ToSet(drawing.entries) : r.team # t
  /\ fit' = [fit EXCEPT ![t] = FALSE]
  /\ UNCHANGED <<drawing, banished, opening, drafts, copyForm, copies>>

\* draw_clan is set to NULL by the deletion of a clan.
ClanDeleted(k) ==
  /\ k \notin banished
  /\ banished' = banished \cup {k}
  /\ drawing' = [drawing EXCEPT !.entries =
                   [i \in DOMAIN @ |-> [@[i] EXCEPT !.clan = IF @ = k THEN NoClan ELSE @]]]
  /\ UNCHANGED <<fit, opening, drafts, copyForm, copies>>

\* reset_bracket leaves updated_at alone: a draft of the time before may hold again.
ResetDraw ==
  /\ drawing.status = "running"
  /\ drawing' = [drawing EXCEPT !.status = "open"]
  /\ opening' = {}
  /\ UNCHANGED <<fit, banished, drafts, copyForm, copies>>

\* It is over or called off: no draft is of use any more.
EndDraw ==
  /\ drawing.status # "over"
  /\ drawing' = [drawing EXCEPT !.status = "over"]
  /\ drafts' = {}
  /\ UNCHANGED <<fit, banished, opening, copyForm, copies>>

-----------------------------------------------------------------------------
(* New editions.                                                            *)

PreviewCopy ==
  /\ drafts = {}
  /\ copyForm' = [posted |-> FALSE, basis |-> drawing]
  /\ UNCHANGED <<drawing, fit, banished, opening, drafts, copies>>

\* create: the teams that are selected, fresh, with their seeds if asked; a form that
\* is posted again makes nothing.
CreateCopy(selected, seeded, cancel) ==
  LET fresh(r) == [r EXCEPT !.out = FALSE, !.seed = IF seeded THEN @ ELSE 0]
      rows == SelectSeq(drawing.entries, LAMBDA r : r.team \in selected)
  IN
  /\ ~copyForm.posted
  /\ copyForm.basis = drawing
  /\ cancel => drawing.status # "over"
  /\ Len(copies) < MaxCopies
  /\ copies' = Append(copies, [i \in DOMAIN rows |-> fresh(rows[i])])
  /\ copyForm' = [copyForm EXCEPT !.posted = TRUE]
  /\ drawing' = IF cancel THEN [drawing EXCEPT !.status = "over"] ELSE drawing
  /\ UNCHANGED <<fit, banished, opening, drafts>>

\* restart_view: the form, or what it posted.
RestartPage(selections) ==
  \/ PreviewCopy
  \/ \E selected \in selections, seeded, cancel \in BOOLEAN : CreateCopy(selected, seeded, cancel)

DrawNext(clanChoices) ==
  \/ PrepareDraw
  \/ \E d \in drafts, clans \in clanChoices, respect, avoid \in BOOLEAN:
       ReviseDraw(d, [t \in DOMAIN d.clans |-> clans[t]], respect, avoid)
  \/ \E d \in drafts, reason \in BOOLEAN : PublishDraw(d, reason)
  \/ \E t \in Coming : SignUp(t) \/ WithdrawEntry(t)
  \/ \E seeds \in SeedPlans : SetSeeds(seeds)
  \/ \E t \in Frail : LosePlayer(t)
  \/ \E k \in Chosen : ClanDeleted(k)
  \/ ResetDraw \/ EndDraw
  \/ RestartPage({Candidates, Candidates \ Coming})

-----------------------------------------------------------------------------

(* A tournament starts only from a draft whose state nobody changed since it *)
(* was shown, with the pairs it showed, every team once, the seeds where the *)
(* organiser left them and every encounter of a clan approved; a draft or a  *)
(* form that is posted again changes nothing, and a new edition holds the    *)
(* entries that its preview listed. The draft and the generator read the     *)
(* same pairs off the order of the teams, whatever their number.             *)
Played(mode, pairs) == {p \in pairs : mode = "LEAGUE" => Cardinality(p) = 2}

StartsAs(d) ==
  /\ ~d.posted /\ d.basis = DraftBasis
  /\ ToSet(d.order) = TeamsOfDraw /\ Len(d.order) = Cardinality(TeamsOfDraw)
  /\ opening' = Played(drawing.mode, PairsDrafted(drawing.mode, d.order))
  /\ \E l \in drafts' : l.posted /\ l.order = d.order /\ (l.avoid /\ Conflicts(l) # {} => l.reason)
  /\ d.respect => \A t \in SeededTeams : InItsPlace(d.order, t)

CopiedFrom(entries, r) ==
  ~r.out /\ \E s \in ToSet(entries) : s.team = r.team /\ s.clan = r.clan /\ r.seed \in {s.seed, 0}

PairsAgree ==
  \A mode \in {"KNOCKOUT", "LEAGUE", "GROUP_STAGE", "SWISS"}, n \in 4..8 :
    LET order == [i \in 1..n |-> i]
    IN Played(mode, PairsDrafted(mode, order)) = WrittenRound(mode, order)

DrawsAsApproved ==
  [][/\ PairsAgree
     /\ drawing.status # "running" /\ drawing'.status = "running" => \E d \in drafts : StartsAs(d)
     /\ copies' # copies => /\ ~copyForm.posted /\ copyForm.basis = drawing
                            /\ \A r \in ToSet(Last(copies')) : CopiedFrom(copyForm.basis.entries, r)]_drawVars
=============================================================================
