---------------------------- MODULE ChannelLineup ----------------------------
(* What a linear channel plays: the rules an owner writes, their preview, the  *)
(* checks a save makes, the dayparts that split a day, and the orderings that  *)
(* choose the programme of a slot from a count kept per part of the day.       *)
(*                                                                             *)
(* stream/search/linear_channel.go and linear_scheduler.go.  A text is the set *)
(* of its parts, so that "contains" is \subseteq and blank is {}; a day has    *)
(* DayLength minutes.  The seeded shuffle is any permutation, drawn once.      *)
EXTENDS Integers, Sequences, FiniteSets, Lines

CONSTANTS Programmes,   \* [show, episode, genres, year, runs] of the source libraries
          Drafts,       \* the channels an owner may write
          DayLength,    \* minutes of a day (1440)
          Week,         \* days of a week
          Rounds,       \* bound: the deals after which a shuffle repeats itself
          MaxSlots      \* bound: programmes placed

ASSUME LineupAssumption ==
    /\ IsFiniteSet(Programmes) /\ DayLength \in Nat \ {0}
    /\ \A p \in Programmes : p.show \in Int /\ p.episode \in Nat \ {0}
    /\ \A p, q \in Programmes : p.show = q.show /\ p.episode = q.episode => p = q
    /\ \A c \in Drafts : /\ c.block \in Int
                        /\ c.parts \in Seq({c.parts[i] : i \in DOMAIN c.parts})
    /\ Rounds \in Nat \ {0} /\ MaxSlots \in Nat

VARIABLES draft,    \* the channel in the editor
          promised, \* what its preview said it can schedule, or NoPreview
          saved,    \* the channel went through SaveChannel
          deals,    \* the order of the shows in a round, per part: the seed
          cursor,   \* linearCursor: programmes placed, per part
          aired     \* of each show, in each part: its turns so far and its last episode
lineupVars == <<draft, promised, saved, deals, cursor, aired>>

NoPreview == -1
ShowIds == {p.show : p \in Programmes}
Plain == {"RANDOM", "CYCLIC", "CYCLIC_SHUFFLE", "BLOCK", "BLOCK_CYCLIC"}
Partitioned == {"TIME_BASED", "DAY_BASED"}
DefaultBlock == 2

(***************************************************************************)
(* Rules.                                                                  *)
(***************************************************************************)
OnYear(rule, year) ==
    CASE rule.op = "between" -> /\ rule.min = 0 \/ year >= rule.min
                                /\ rule.max = 0 \/ year <= rule.max
      [] rule.op = "gte"   -> year >= rule.min \/ (rule.min = 0 /\ year >= rule.value)
      [] rule.op = "lte"   -> IF rule.max # 0 THEN year <= rule.max ELSE year <= rule.value
      [] rule.op = "is"    -> year = rule.value
      [] rule.op = "isNot" -> year # rule.value
      [] rule.op = "in"    -> year \in rule.values
      [] rule.op = "notIn" -> year \notin rule.values
      [] OTHER             -> FALSE

OnTexts(rule, texts) ==
    CASE rule.op = "is"          -> rule.value \in texts
      [] rule.op = "isNot"       -> rule.value \notin texts
      [] rule.op = "contains"    -> \E t \in texts : rule.value \subseteq t
      [] rule.op = "notContains" -> ~ \E t \in texts : rule.value \subseteq t
      [] rule.op = "in"          -> rule.values \cap texts # {}
      [] rule.op = "notIn"       -> rule.values \cap texts = {}
      [] OTHER                   -> FALSE

Satisfies(p, rule) ==
    IF rule.field = "year" THEN OnYear(rule, p.year) ELSE OnTexts(rule, p.genres)

\* LinearRule.Validate.
RuleStands(rule) ==
    CASE rule.field \notin {"year", "genre"}  -> FALSE
      [] rule.op \in {"in", "notIn"}          -> rule.values # {}
      [] rule.op = "between"                  -> /\ rule.field = "year"
                                                 /\ rule.max # 0 => rule.min <= rule.max
      [] rule.op \in {"gte", "lte"}           -> rule.field = "year"
      [] rule.op \in {"is", "isNot", "contains", "notContains"} ->
             rule.field = "year" \/ rule.value # {}
      [] OTHER                                -> FALSE

\* A group without rules is the whole library; any means OR, everything else AND.
Joined(group, verdicts) ==
    LET met == IF verdicts = {} THEN TRUE
               ELSE IF group.match = "any" THEN TRUE \in verdicts
               ELSE FALSE \notin verdicts
    IN  met # group.negate
InGroup(p, group) == Joined(group, {Satisfies(p, rule) : rule \in group.rules})
Meets(p, rules) ==
    Joined(rules, {Satisfies(p, rule) : rule \in rules.rules}
                  \cup {InGroup(p, group) : group \in rules.groups})

GroupStands(group) == /\ group.match \in {"", "all", "any"}
                      /\ \A rule \in group.rules : RuleStands(rule)
RulesStand(rules) == /\ GroupStands(rules)
                     /\ \A group \in rules.groups : GroupStands(group)

Selected(pool, rules) == {p \in pool : Meets(p, rules)}
Schedulable(pool) == {p \in pool : p.runs > 0}

(***************************************************************************)
(* The channel: what normalise fills in and Validate refuses.              *)
(***************************************************************************)
StrategyOf(c) == IF c.strategy = "" THEN "CYCLIC_SHUFFLE" ELSE c.strategy
BlockOf(c) == IF c.block <= 0 THEN DefaultBlock ELSE c.block

PartStands(part) ==
    /\ StrategyOf(part) \in Plain /\ RulesStand(part.rules)
    /\ part.from \in 0..(DayLength - 1) /\ part.to \in 0..DayLength

ChannelStands(c) ==
    /\ StrategyOf(c) \in Plain \cup Partitioned
    /\ RulesStand(c.rules)
    /\ StrategyOf(c) \in Partitioned => c.parts # <<>>
    /\ \A i \in DOMAIN c.parts : PartStands(c.parts[i])

(***************************************************************************)
(* Orderings: the programmes the n'th turn of a part may play.             *)
(***************************************************************************)
Before == {pq \in Programmes \X Programmes :
             LET p == pq[1]  q == pq[2]
             IN  p.show < q.show \/ (p.show = q.show /\ p.episode < q.episode)}
InOrder(pool) == InLine(pool, Before)
EpisodesOf(pool, show) == InOrder({p \in pool : p.show = show})
Cycled(list, n) == list[(n % Len(list)) + 1]
ByName == {st \in ShowIds \X ShowIds : st[1] < st[2]}
ShowsIn(pool) == InLine({p.show : p \in pool}, ByName)

\* linearPermutation: the shows of a pool in the order dealt for a round.
Dealt(pool, who, round) ==
    LET deal == deals[who][round % Rounds]
    IN  InLine({p.show : p \in pool}, {st \in ShowIds \X ShowIds : deal[st[1]] < deal[st[2]]})

ShuffledTurn(pool, who, n) ==
    LET shows == ShowsIn(pool)  round == n \div Len(shows)
    IN  Cycled(EpisodesOf(pool, Cycled(Dealt(pool, who, round), n)), round)

\* A slip: the block starts over at the show's first episode every round.
BlockTurnAnew(pool, who, n, size, shuffled) ==
    LET shows == ShowsIn(pool)  block == n \div size  round == block \div Len(shows)
        order == IF shuffled THEN Dealt(pool, who, round) ELSE shows
    IN  Cycled(EpisodesOf(pool, Cycled(order, block)), n % size)

BlockTurn(pool, who, n, size, shuffled) ==
    LET shows == ShowsIn(pool)  block == n \div size  round == block \div Len(shows)
        order == IF shuffled THEN Dealt(pool, who, round) ELSE shows
    IN  Cycled(EpisodesOf(pool, Cycled(order, block)), round * size + (n % size))

Turn(strategy, pool, who, n, size) ==
    IF pool = {} THEN {}
    ELSE CASE strategy = "RANDOM"         -> pool
           [] strategy = "CYCLIC"         -> {Cycled(InOrder(pool), n)}
           [] strategy = "CYCLIC_SHUFFLE" -> {ShuffledTurn(pool, who, n)}
           [] strategy = "BLOCK"          -> {BlockTurn(pool, who, n, size, TRUE)}
           [] strategy = "BLOCK_CYCLIC"   -> {BlockTurn(pool, who, n, size, FALSE)}

(***************************************************************************)
(* Parts of the day.  A part that wraps midnight starts after it ends.     *)
(***************************************************************************)
Covers(part, byWeekday, day, minute) ==
    /\ part.days = {} \/ day \in part.days
    /\ \/ byWeekday
       \/ part.from = 0 /\ part.to \in {0, DayLength}
       \/ part.from <= part.to /\ minute >= part.from /\ minute < part.to
       \/ part.from > part.to /\ (minute >= part.from \/ minute < part.to)

\* An unnamed part is counted under its number, a named one under its name.
KeyOf(c, i) == IF c.parts[i].name = "" THEN <<"part", i>> ELSE <<"name", c.parts[i].name>>
Fallback == <<"fallback", 0>>
Whole == <<"ordinal", 0>>

OnOffer(c) == Schedulable(Selected(Programmes, c.rules))
PartPool(c, i) == Selected(OnOffer(c), c.parts[i].rules)

\* The part whose turn it is: the first that covers the slot, if it has anything
\* to play; the whole pool (0) otherwise.
PartAt(c, day, minute) ==
    LET covering == {i \in DOMAIN c.parts :
                       Covers(c.parts[i], StrategyOf(c) = "DAY_BASED", day, minute)}
        first == CHOOSE i \in covering : \A j \in covering : i <= j
    IN  IF covering = {} \/ PartPool(c, first) = {} THEN 0 ELSE first

\* linearBuildPicker and pick: whose turn it is, the count that advances, and
\* what that turn may play.  Part 0 is the whole pool.
Slot(c, day, minute) ==
    LET i == IF StrategyOf(c) \in Plain THEN 0 ELSE PartAt(c, day, minute)
        plays(key, strategy, pool) ==
            [part |-> i, key |-> key, strategy |-> strategy,
             is |-> Turn(strategy, pool, i, cursor[key], BlockOf(c))]
    IN  IF StrategyOf(c) \in Plain THEN plays(Whole, StrategyOf(c), OnOffer(c))
        ELSE IF i = 0 THEN plays(Fallback, "CYCLIC_SHUFFLE", OnOffer(c))
        ELSE plays(KeyOf(c, i), StrategyOf(c.parts[i]), PartPool(c, i))

(***************************************************************************)
(* The owner and the fill.                                                 *)
(***************************************************************************)
Preview ==
    /\ ~saved /\ promised = NoPreview /\ RulesStand(draft.rules)
    /\ promised' = Cardinality(OnOffer(draft))
    /\ UNCHANGED <<draft, saved, deals, cursor, aired>>

Save == /\ ~saved /\ ChannelStands(draft)
        /\ saved' = TRUE
        /\ UNCHANGED <<draft, promised, deals, cursor, aired>>

\* The turns so far, of every count.
Placed == UNION {{key} \X (1..cursor[key]) : key \in DOMAIN cursor}

PlaceAt(day, minute) ==
    /\ saved /\ Cardinality(Placed) < MaxSlots
    /\ LET slot == Slot(draft, day, minute)
       IN  \E p \in slot.is :
              /\ cursor' = [cursor EXCEPT ![slot.key] = @ + 1]
              /\ aired' = [aired EXCEPT ![slot.part][p.show] =
                             [turns |-> @.turns + 1,
                              last |-> IF slot.strategy = "RANDOM" THEN 0 ELSE p.episode]]
    /\ UNCHANGED <<draft, promised, saved, deals>>

Keys(c) == {Whole, Fallback} \cup {KeyOf(c, i) : i \in DOMAIN c.parts}
Deals == {d \in [ShowIds -> 1..Cardinality(ShowIds)] :
             \A s, t \in ShowIds : d[s] = d[t] => s = t}

LineupInit ==
    /\ draft \in Drafts /\ promised = NoPreview /\ saved = FALSE
    /\ deals \in [0..Len(draft.parts) -> [0..(Rounds - 1) -> Deals]]
    /\ cursor = [k \in Keys(draft) |-> 0]
    /\ aired = [i \in 0..Len(draft.parts) |-> [s \in ShowIds |-> [turns |-> 0, last |-> 0]]]

LineupNext == \/ Preview \/ Save
              \/ \E day \in Week, minute \in 0..(DayLength - 1) : PlaceAt(day, minute)

LineupSpec == LineupInit /\ [][LineupNext]_lineupVars

LineupTypeOK ==
    /\ draft \in Drafts /\ saved \in BOOLEAN
    /\ promised \in {NoPreview} \cup 0..Cardinality(Programmes)
    /\ cursor \in [Keys(draft) -> 0..MaxSlots]
    /\ \A i \in DOMAIN aired, s \in ShowIds :
          /\ aired[i][s].turns \in 0..MaxSlots
          /\ aired[i][s].last \in {0} \cup {p.episode : p \in Programmes}

(***************************************************************************)
(* However a day is cut and the shows are dealt, each part goes through a  *)
(* show in order, one episode after the other and round again: no part     *)
(* moves another's rotation along (linear_scheduler.go:103-105, "a quiet   *)
(* daypart does not have its rotation dragged forward by a busy one").     *)
(***************************************************************************)
PoolOf(c, i) == IF i = 0 THEN OnOffer(c) ELSE PartPool(c, i)
NextAfter(pool, show, episode, next) ==
    LET list == EpisodesOf(pool, show)
    IN  \E i \in DOMAIN list : /\ list[i].episode = episode
                               /\ Cycled(list, i).episode = next
EpisodesComeInOrder ==
    [][\A i \in DOMAIN aired, show \in ShowIds :
          LET before == aired[i][show]  after == aired'[i][show]
          IN  after.turns # before.turns /\ before.last # 0 /\ after.last # 0
              => NextAfter(PoolOf(draft, i), show, before.last, after.last)]_lineupVars
================================================================================
