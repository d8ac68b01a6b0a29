------------------------- MODULE LinearEngineProofs -------------------------
(***************************************************************************)
(* For every set of channels, readers, rules and pools, and every day,     *)
(* horizon, past buffer and grid: the engine's state is well typed, no     *)
(* schedule, in memory or on disk, ever holds two overlapping programmes,  *)
(* the engine keeps the promise of SharedGuide, and edits survive; without *)
(* a grid and without edits, what was asked for is on air.                 *)
(***************************************************************************)
EXTENDS LinearEngine, TLAPS

USE DEF memory, files, counts

-----------------------------------------------------------------------------
(* Operators on programme lists and on time.                               *)

\* A list stays in order when a later list is put after it.
LEMMA OrderedConcat ==
    ASSUME NEW s \in Seq(Program), NEW t \in Seq(Program),
           Ordered(s), Ordered(t), ~Overtaken(s, t)
    PROVE  s \o t \in Seq(Program) /\ Ordered(s \o t)
<1>1. s \o t \in Seq(Program)
  OBVIOUS
<1>2. Len(s \o t) = Len(s) + Len(t)
  OBVIOUS
<1>3. \A i \in 1..Len(s \o t) :
        (s \o t)[i] = IF i <= Len(s) THEN s[i] ELSE t[i - Len(s)]
  OBVIOUS
<1>4. \A i \in 1..Len(s) : s[i] \in Program
  OBVIOUS
<1>5. \A i \in 1..Len(t) : t[i] \in Program
  OBVIOUS
<1>6. ASSUME NEW i \in 1..Len(s), NEW j \in 1..Len(t)
      PROVE  s[i].end <= t[j].start
  <2>1. Len(s) \in 1..Len(s) /\ 1 \in 1..Len(t) /\ s # <<>> /\ t # <<>>
    BY <1>6
  <2>2. /\ s[i].end \in Nat /\ s[Len(s)].end \in Nat /\ t[1].start \in Nat
        /\ t[1].end \in Nat /\ t[j].start \in Nat /\ s[Len(s)].start \in Nat
    BY <1>4, <1>5, <1>6, <2>1 DEF Program
  <2>3. s[Len(s)].end <= t[1].start
    BY <2>1, <2>2 DEF Overtaken, LastEnd
  <2>4. s[i].end <= s[Len(s)].end
    BY <1>6, <2>1, <2>2 DEF Ordered
  <2>5. t[1].start <= t[j].start
    BY <1>6, <2>1, <2>2 DEF Ordered
  <2> QED BY <2>2, <2>3, <2>4, <2>5
<1>7. \A i \in 1..Len(s \o t) : (s \o t)[i].start < (s \o t)[i].end
  BY <1>2, <1>3 DEF Ordered
<1>8. ASSUME NEW i \in 1..Len(s \o t), NEW j \in 1..Len(s \o t), i < j
      PROVE  (s \o t)[i].end <= (s \o t)[j].start
  <2>1. CASE j <= Len(s)
    BY <1>2, <1>3, <1>8, <2>1 DEF Ordered
  <2>2. CASE i <= Len(s) /\ j > Len(s)
    BY <1>2, <1>3, <1>6, <1>8, <2>2
  <2>3. CASE i > Len(s)
    BY <1>2, <1>3, <1>8, <2>3 DEF Ordered
  <2> QED BY <2>1, <2>2, <2>3, <1>8
<1> QED BY <1>1, <1>7, <1>8 DEF Ordered

\* A stretch of a list in order is in order.
LEMMA OrderedSubSeq ==
    ASSUME NEW s \in Seq(Program), NEW m \in 1..Len(s)+1, NEW n \in 0..Len(s),
           Ordered(s)
    PROVE  SubSeq(s, m, n) \in Seq(Program) /\ Ordered(SubSeq(s, m, n))
<1>1. SubSeq(s, m, n) \in Seq(Program)
  OBVIOUS
<1>2. Len(SubSeq(s, m, n)) = IF m <= n THEN n - m + 1 ELSE 0
  OBVIOUS
<1>3. \A i \in 1..Len(SubSeq(s, m, n)) : SubSeq(s, m, n)[i] = s[m + i - 1]
  OBVIOUS
<1> QED BY <1>1, <1>2, <1>3 DEF Ordered

\* One more programme at the end of a list that ends by where it starts.
LEMMA OrderedAppend ==
    ASSUME NEW s \in Seq(Program), NEW p \in Program, Ordered(s),
           p.start < p.end, \A i \in 1..Len(s) : s[i].end <= p.start
    PROVE  /\ Append(s, p) \in Seq(Program)
           /\ Ordered(Append(s, p))
           /\ \A i \in 1..Len(Append(s, p)) : Append(s, p)[i].end <= p.end
<1>1. Append(s, p) \in Seq(Program) /\ Len(Append(s, p)) = Len(s) + 1
  OBVIOUS
<1>2. \A i \in 1..Len(s)+1 :
        Append(s, p)[i] = IF i <= Len(s) THEN s[i] ELSE p
  OBVIOUS
<1>3. ASSUME NEW i \in 1..Len(s)
      PROVE  s[i].start \in Nat /\ s[i].end \in Nat /\ s[i].end <= p.start
  <2>1. s[i] \in Program
    OBVIOUS
  <2> QED BY <2>1 DEF Program
<1>4. p.start \in Nat /\ p.end \in Nat
  BY DEF Program
<1>5. Ordered(Append(s, p))
  BY <1>1, <1>2 DEF Ordered
<1> QED BY <1>1, <1>2, <1>3, <1>4, <1>5

\* Midnight is a moment of the clock, and the grid never shortens a programme.
LEMMA GenesisType == \A t \in Nat : Genesis(t) \in Nat /\ Genesis(t) <= t
<1> SUFFICES ASSUME NEW t \in Nat PROVE Genesis(t) \in Nat /\ Genesis(t) <= t
  OBVIOUS
<1>1. t % Day \in 0..t
  BY ConstantsAssumption
<1> QED BY <1>1 DEF Genesis

LEMMA AdvanceCovers ==
    \A d \in Nat \ {0} : Advance(d) \in Nat /\ d <= Advance(d)
<1> SUFFICES ASSUME NEW d \in Nat \ {0}
             PROVE  Advance(d) \in Nat /\ d <= Advance(d)
  OBVIOUS
<1>1. Grid \in Nat
  BY ConstantsAssumption
<1>2. Grid # 0 => d % Grid \in 0..Grid-1
  BY <1>1
<1> QED BY <1>1, <1>2 DEF Advance

-----------------------------------------------------------------------------
(* The locals of a request.                                                *)

LEMMA OrderedEmpty == Ordered(<<>>)
BY DEF Ordered

LEMMA FreshType ==
    ASSUME NEW c \in Channels, NEW d \in Definition, NEW t \in Nat
    PROVE  /\ Fresh(c, d, t) \in Request
           /\ \A step \in Steps \ {"fill"} : RequestInOrder(step, Fresh(c, d, t))
<1>1. Fresh(c, d, t).added = <<>> /\ Fresh(c, d, t).doc = None
  BY DEF Fresh
<1>2. Fresh(c, d, t) \in Request
  BY DEF Fresh, Request
<1> QED BY <1>1, <1>2, OrderedEmpty DEF RequestInOrder

LEMMA NoRequestType ==
    /\ NoRequest \in Request /\ RequestInOrder("idle", NoRequest)
    /\ Idle \in OwnerState
<1>1. (CHOOSE c \in Channels : TRUE) \in Channels
  BY ConstantsAssumption
<1>2. [rules |-> CHOOSE x \in Rules : TRUE, enabled |-> FALSE] \in Definition
  BY ConstantsAssumption DEF Definition
<1>3. NoRequest \in Request /\ RequestInOrder("idle", NoRequest)
  BY <1>1, <1>2, FreshType DEF NoRequest, Steps
<1>4. NoChannels \in ChannelList
  BY DEF NoChannels, ChannelList
<1> QED BY <1>1, <1>3, <1>4 DEF Idle, OwnerState

LEMMA IdleIsDone == Idle.step = "idle" /\ ~Idle.alone
BY DEF Idle

LEMMA ProgramsType ==
    ASSUME TypeOK, NEW c \in Channels
    PROVE  Programs(c) \in Seq(Program)
BY DEF TypeOK, Programs, Schedule

-----------------------------------------------------------------------------
(* What one request does to its own locals leaves the others' alone.       *)

LEMMA RequestStep ==
    ASSUME EngineInvariant, NEW r \in Readers, NEW q \in Request,
           NEW label \in Steps, Goto(r, label), SetLocals(r, q),
           RequestInOrder(label, q)
    PROVE  /\ pc' \in [Readers -> Steps] /\ req' \in [Readers -> Request]
           /\ \A x \in Readers : RequestInOrder(pc[x], req[x])'
<1>1. pc' \in [Readers -> Steps] /\ req' \in [Readers -> Request]
  BY DEF EngineInvariant, TypeOK, Goto, SetLocals
<1>2. ASSUME NEW x \in Readers
      PROVE  RequestInOrder(pc[x], req[x])'
  <2>1. CASE x = r
    <3>1. pc'[x] = label /\ req'[x] = q
      BY <2>1 DEF EngineInvariant, TypeOK, Goto, SetLocals
    <3> QED BY <3>1 DEF RequestInOrder
  <2>2. CASE x # r
    <3>1. pc'[x] = pc[x] /\ req'[x] = req[x] /\ RequestInOrder(pc[x], req[x])
      BY <2>2 DEF EngineInvariant, TypeOK, Goto, SetLocals
    <3> QED BY <3>1 DEF RequestInOrder
  <2> QED BY <2>1, <2>2
<1> QED BY <1>1, <1>2

\* A step of a request that leaves schedules and files alone.
LEMMA LocalStep ==
    ASSUME EngineInvariant, NEW r \in Readers, NEW q \in Request,
           NEW label \in Steps, Goto(r, label), SetLocals(r, q),
           RequestInOrder(label, q),
           UNCHANGED <<now, memory, owner, files, counts>>, wedged' \in BOOLEAN
    PROVE  EngineInvariant'
<1>1. TypeOK'
  BY RequestStep DEF EngineInvariant, TypeOK
<1>2. ScheduleOrdered'
  BY DEF EngineInvariant, ScheduleOrdered, Programs
<1> QED BY <1>1, <1>2, RequestStep DEF EngineInvariant

LEMMA RequestType ==
    ASSUME EngineInvariant, NEW r \in Readers
    PROVE  /\ req[r] \in Request /\ RequestInOrder(pc[r], req[r])
           /\ req[r].chan \in Channels /\ req[r].def \in Definition
           /\ req[r].asked \in Nat /\ req[r].slot \in Nat
           /\ req[r].cursor \in Nat /\ req[r].lineup \in Seq(Nat \ {0})
           /\ req[r].added \in Seq(Program)
BY DEF EngineInvariant, TypeOK, Request

LEMMA PanicStep ==
    ASSUME EngineInvariant, NEW r \in Readers, PanicHoldingLock(r)
    PROVE  EngineInvariant'
BY LocalStep, NoRequestType DEF PanicHoldingLock, Steps

LEMMA LeaveStep ==
    ASSUME EngineInvariant, NEW r \in Readers, LeaveAsIs(r)
    PROVE  EngineInvariant'
<1>1. /\ Fresh(req[r].chan, req[r].def, req[r].asked) \in Request
      /\ RequestInOrder("answer", Fresh(req[r].chan, req[r].def, req[r].asked))
  BY FreshType, RequestType DEF Steps
<1> QED BY <1>1, LocalStep DEF LeaveAsIs, Steps, EngineInvariant, TypeOK

LEMMA ReadDefinitionStep ==
    ASSUME EngineInvariant, NEW r \in Readers, NEW c \in Channels,
           ReadDefinition(r, c)
    PROVE  EngineInvariant'
<1>1. channels[c] \in Definition /\ now \in Nat /\ wedged' \in BOOLEAN
  BY DEF EngineInvariant, TypeOK, ReadDefinition, ChannelList
<1>2. /\ Fresh(c, channels[c], now) \in Request
      /\ RequestInOrder("examine", Fresh(c, channels[c], now))
  BY <1>1, FreshType DEF Steps
<1> QED BY <1>1, <1>2, LocalStep DEF ReadDefinition, Steps

LEMMA FetchPoolStep ==
    ASSUME EngineInvariant, NEW r \in Readers, FetchPool(r)
    PROVE  EngineInvariant'
<1>1. PICK lineup \in Lineups[req[r].def.rules] :
         SetLocals(r, [req[r] EXCEPT !.lineup = lineup])
  BY DEF FetchPool
<1>2. lineup \in Seq(Nat \ {0})
  BY <1>1, RequestType, ConstantsAssumption DEF Definition
<1> DEFINE q == [req[r] EXCEPT !.lineup = lineup]
<1>3. /\ q \in Request /\ q.added = req[r].added /\ q.slot = req[r].slot
      /\ q.doc = req[r].doc
  BY <1>2, RequestType DEF Request
<1> HIDE DEF q
<1>4. SetLocals(r, q)
  BY <1>1 DEF q
<1>5. RequestInOrder("plan", q)
  BY <1>3, RequestType DEF RequestInOrder, FetchPool, Reading
<1> QED BY <1>3, <1>4, <1>5, LocalStep
        DEF FetchPool, Steps, EngineInvariant, TypeOK

LEMMA PlanStep ==
    ASSUME EngineInvariant, NEW r \in Readers, Plan(r)
    PROVE  EngineInvariant'
<1> DEFINE c == req[r].chan
           from == IF Programs(c) = <<>> THEN Genesis(req[r].asked)
                   ELSE Later(Genesis(req[r].asked), LastEnd(Programs(c)))
           q == [req[r] EXCEPT !.slot = from, !.cursor = schedules[c].cursor]
<1>1. CASE PanicHoldingLock(r)
  BY <1>1, PanicStep
<1>2. CASE LeaveAsIs(r)
  BY <1>2, LeaveStep
<1>3. CASE /\ schedules[c] # None /\ req[r].lineup # <<>>
           /\ Goto(r, "fill") /\ SetLocals(r, q)
           /\ UNCHANGED <<now, memory, wedged, owner, files, counts>>
  <2>1. schedules[c] \in Schedule /\ Programs(c) \in Seq(Program)
    BY <1>3, RequestType, ProgramsType DEF EngineInvariant, TypeOK
  <2>2. Programs(c) # <<>> => LastEnd(Programs(c)) \in Nat
    <3> SUFFICES ASSUME Programs(c) # <<>> PROVE LastEnd(Programs(c)) \in Nat
      OBVIOUS
    <3>1. Programs(c)[Len(Programs(c))] \in Program
      BY <2>1
    <3> QED BY <3>1 DEF LastEnd, Program
  <2>3. from \in Nat
    BY <2>2, GenesisType, RequestType DEF Later
  <2>4. schedules[c].cursor \in Nat
    BY <2>1 DEF Schedule
  <2> HIDE DEF from, c
  <2>5. /\ q \in Request /\ q.added = req[r].added /\ q.slot = from
        /\ q.doc = req[r].doc /\ q.lineup = req[r].lineup
    BY <2>3, <2>4, RequestType DEF Request
  <2>6. RequestInOrder("fill", q)
    BY <1>3, <2>5, RequestType DEF RequestInOrder, Plan, Reading
  <2> HIDE DEF q
  <2> QED BY <1>3, <2>5, <2>6, LocalStep DEF Steps, EngineInvariant, TypeOK
<1> QED BY <1>1, <1>2, <1>3 DEF Plan

LEMMA FillSlotStep ==
    ASSUME EngineInvariant, NEW r \in Readers, FillSlot(r)
    PROVE  EngineInvariant'
<1> DEFINE old == req[r]
           duration == old.lineup[(old.cursor % Len(old.lineup)) + 1]
           programme == [start |-> old.slot, end |-> old.slot + duration,
                         rules |-> old.def.rules, ord |-> old.cursor]
           q == [old EXCEPT !.added = Append(@, programme),
                            !.cursor = @ + 1, !.slot = @ + Advance(duration)]
<1>1. /\ pc[r] = "fill" /\ old.lineup # <<>> /\ old.lineup \in Seq(Nat \ {0})
      /\ old.slot \in Nat /\ old.cursor \in Nat /\ old.added \in Seq(Program)
      /\ old.def.rules \in Rules
  BY RequestType DEF FillSlot, Reading, RequestInOrder, Definition
<1>2. duration \in Nat \ {0}
  <2> DEFINE n == Len(old.lineup)
  <2>1. n \in Nat \ {0}
    BY <1>1
  <2>2. old.cursor % n \in 0..n-1
    BY <1>1, <2>1
  <2>3. (old.cursor % n) + 1 \in 1..n
    BY <2>1, <2>2
  <2> HIDE DEF old
  <2> QED BY <1>1, <2>3
<1> HIDE DEF duration
<1>3. Advance(duration) \in Nat /\ duration <= Advance(duration)
  BY <1>2, AdvanceCovers
<1>4. programme \in Program /\ programme.start < programme.end
  BY <1>1, <1>2 DEF Program
<1>5. /\ Append(old.added, programme) \in Seq(Program)
      /\ Ordered(Append(old.added, programme))
      /\ \A i \in 1..Len(Append(old.added, programme)) :
            Append(old.added, programme)[i].end <= old.slot + Advance(duration)
  <2>1. \A i \in 1..Len(old.added) : old.added[i].end <= programme.start
    BY RequestType DEF RequestInOrder
  <2>2. Ordered(old.added)
    BY RequestType DEF RequestInOrder
  <2> HIDE DEF programme
  <2>3. /\ Append(old.added, programme) \in Seq(Program)
        /\ Ordered(Append(old.added, programme))
        /\ \A i \in 1..Len(Append(old.added, programme)) :
              Append(old.added, programme)[i].end <= programme.end
    BY <1>1, <1>4, <2>1, <2>2, OrderedAppend
  <2>4. programme.end <= old.slot + Advance(duration) /\ programme.end \in Nat
    BY <1>1, <1>2, <1>3 DEF programme
  <2>5. ASSUME NEW i \in 1..Len(Append(old.added, programme))
        PROVE  Append(old.added, programme)[i].end <= old.slot + Advance(duration)
    <3>1. Append(old.added, programme)[i] \in Program
      BY <2>3
    <3>2. Append(old.added, programme)[i].end \in Nat
      BY <3>1 DEF Program
    <3>3. Append(old.added, programme)[i].end <= programme.end
      BY <2>3
    <3>4. old.slot + Advance(duration) \in Nat
      BY <1>1, <1>3
    <3> DEFINE e == Append(old.added, programme)[i].end
    <3> HIDE DEF e, old
    <3> QED BY <2>4, <3>2, <3>3, <3>4 DEF e
  <2> QED BY <2>3, <2>5
<1> HIDE DEF programme
<1>6. /\ q \in Request /\ q.added = Append(old.added, programme)
      /\ q.slot = old.slot + Advance(duration) /\ q.doc = old.doc
      /\ q.lineup = old.lineup
  <2>1. /\ old \in Request /\ old.cursor + 1 \in Nat
        /\ old.slot + Advance(duration) \in Nat
    BY <1>1, <1>3, RequestType
  <2> HIDE DEF old
  <2> QED BY <1>5, <2>1 DEF Request
<1>7. Goto(r, "fill") /\ SetLocals(r, q)
  BY <1>1 DEF FillSlot, Goto, EngineInvariant, TypeOK, programme, duration
<1> HIDE DEF q
<1>8. RequestInOrder("fill", q)
  BY <1>1, <1>5, <1>6, RequestType DEF RequestInOrder
<1> QED BY <1>6, <1>7, <1>8, LocalStep
        DEF FillSlot, Steps, EngineInvariant, TypeOK

LEMMA FillDoneStep ==
    ASSUME EngineInvariant, NEW r \in Readers, FillDone(r)
    PROVE  EngineInvariant'
<1>1. SetLocals(r, req[r]) /\ RequestInOrder("commit", req[r])
  BY RequestType
     DEF FillDone, SetLocals, RequestInOrder, Reading, EngineInvariant, TypeOK
<1> QED BY <1>1, LocalStep, RequestType
        DEF FillDone, Steps, EngineInvariant, TypeOK

LEMMA SnapshotForDiskStep ==
    ASSUME EngineInvariant, NEW r \in Readers, SnapshotForDisk(r)
    PROVE  EngineInvariant'
<1> DEFINE st == schedules[req[r].chan]
           q == [req[r] EXCEPT !.doc = st]
           label == IF st = None THEN "answer" ELSE "write"
<1>1. /\ st \in Schedule \cup {None}
      /\ st # None => Ordered(st.programs)
  BY RequestType DEF EngineInvariant, TypeOK, ScheduleOrdered, Programs
<1>2. q \in Request /\ q.doc = st /\ q.added = req[r].added /\ q.slot = req[r].slot
  BY <1>1, RequestType DEF Request
<1>3. RequestInOrder(label, q)
  BY <1>1, <1>2, RequestType DEF RequestInOrder, SnapshotForDisk, Reading
<1> QED BY <1>2, <1>3, LocalStep
        DEF SnapshotForDisk, Steps, EngineInvariant, TypeOK

LEMMA AnswerStep ==
    ASSUME EngineInvariant, NEW r \in Readers, Answer(r)
    PROVE  EngineInvariant'
BY LocalStep, NoRequestType DEF Answer, Steps, EngineInvariant, TypeOK

-----------------------------------------------------------------------------
(* Steps that change a schedule or a file.                                 *)

LEMMA ScheduleStep ==
    ASSUME EngineInvariant, NEW c \in Channels, NEW st \in Schedule \cup {None},
           st # None => Ordered(st.programs),
           schedules' = [schedules EXCEPT ![c] = st], UNCHANGED schedFile
    PROVE  /\ schedules' \in [Channels -> Schedule \cup {None}]
           /\ ScheduleOrdered'
<1>1. schedules' \in [Channels -> Schedule \cup {None}]
  BY DEF EngineInvariant, TypeOK
<1>2. ASSUME NEW x \in Channels
      PROVE  Ordered(Programs(x)')
  <2>1. CASE x = c
    <3>1. schedules'[x] = st
      BY <2>1 DEF EngineInvariant, TypeOK
    <3> QED BY <3>1, OrderedEmpty DEF Programs
  <2>2. CASE x # c
    <3>1. schedules'[x] = schedules[x]
      BY <2>2 DEF EngineInvariant, TypeOK
    <3> QED BY <3>1 DEF Programs, EngineInvariant, ScheduleOrdered
  <2> QED BY <2>1, <2>2
<1> QED BY <1>1, <1>2 DEF EngineInvariant, ScheduleOrdered

LEMMA ExamineStep ==
    ASSUME EngineInvariant, NEW r \in Readers, Examine(r)
    PROVE  EngineInvariant'
<1> DEFINE c == req[r].chan
           d == req[r].def
           st == IF schedules[c] = None
                 THEN [revision |-> d.rules, cursor |-> 0, programs |-> <<>>]
                 ELSE [schedules[c] EXCEPT !.revision = d.rules]
           label == IF Covered(st.programs, req[r].asked) THEN "tidy"
                    ELSE IF d.enabled THEN "pool" ELSE "answer"
<1>1. c \in Channels /\ d.rules \in Rules
  BY RequestType DEF Definition
<1>2. st \in Schedule /\ Ordered(st.programs)
  <2>1. CASE schedules[c] = None
    BY <1>1, <2>1, OrderedEmpty DEF Schedule
  <2>2. CASE schedules[c] # None
    <3>1. schedules[c] \in Schedule /\ Ordered(schedules[c].programs)
      BY <1>1, <2>2 DEF EngineInvariant, TypeOK, ScheduleOrdered, Programs
    <3> QED BY <1>1, <2>2, <3>1 DEF Schedule
  <2> QED BY <2>1, <2>2
<1>3. schedules' = [schedules EXCEPT ![c] = st] /\ UNCHANGED schedFile
  BY DEF Examine
<1>4. Goto(r, label) /\ pc[r] = "examine"
  BY DEF Examine, Reading
<1> HIDE DEF st, c
<1>5. schedules' \in [Channels -> Schedule \cup {None}] /\ ScheduleOrdered'
  BY <1>1, <1>2, <1>3, ScheduleStep DEF c
<1>6. label \in {"tidy", "pool", "answer"}
  OBVIOUS
<1> HIDE DEF label
<1>7. SetLocals(r, req[r]) /\ RequestInOrder(label, req[r])
  BY <1>4, <1>6, RequestType
     DEF Examine, SetLocals, RequestInOrder, EngineInvariant, TypeOK
<1> QED BY <1>4, <1>5, <1>6, <1>7, RequestStep, RequestType
        DEF Examine, Steps, EngineInvariant, TypeOK

LEMMA CommitStep ==
    ASSUME EngineInvariant, NEW r \in Readers, Commit(r)
    PROVE  EngineInvariant'
<1> DEFINE c == req[r].chan
           q == req[r]
<1>1. CASE PanicHoldingLock(r)
  BY <1>1, PanicStep
<1>2. CASE LeaveAsIs(r)
  BY <1>2, LeaveStep
<1>3. CASE /\ schedules[c] # None
           /\ ~Overtaken(Programs(c), q.added)
           /\ schedules' = [schedules EXCEPT ![c].programs = @ \o q.added,
                                             ![c].cursor = q.cursor]
           /\ Goto(r, "prune")
           /\ SetLocals(r, Fresh(c, q.def, q.asked))
           /\ UNCHANGED <<now, channels, wedged, owner, files, counts>>
  <2> DEFINE st == [schedules[c] EXCEPT !.programs = @ \o q.added,
                                        !.cursor = q.cursor]
  <2>1. /\ schedules[c] \in Schedule /\ Programs(c) = schedules[c].programs
        /\ Ordered(Programs(c)) /\ Programs(c) \in Seq(Program)
    BY <1>3, RequestType, ProgramsType
       DEF EngineInvariant, TypeOK, ScheduleOrdered, Programs
  <2>2. q.added \in Seq(Program) /\ Ordered(q.added) /\ q.cursor \in Nat
    BY RequestType DEF RequestInOrder
  <2>3. /\ Programs(c) \o q.added \in Seq(Program)
        /\ Ordered(Programs(c) \o q.added)
    BY <1>3, <2>1, <2>2, OrderedConcat
  <2>4. st \in Schedule /\ st.programs = Programs(c) \o q.added
    BY <2>1, <2>2, <2>3 DEF Schedule
  <2>5. schedules' = [schedules EXCEPT ![c] = st]
    BY <1>3, <2>1, RequestType DEF EngineInvariant, TypeOK, Schedule
  <2> HIDE DEF st
  <2>6. schedules' \in [Channels -> Schedule \cup {None}] /\ ScheduleOrdered'
    BY <1>3, <2>3, <2>4, <2>5, RequestType, ScheduleStep
  <2>7. /\ Fresh(c, q.def, q.asked) \in Request
        /\ RequestInOrder("prune", Fresh(c, q.def, q.asked))
    BY FreshType, RequestType DEF Steps
  <2> QED BY <1>3, <2>6, <2>7, RequestStep DEF Steps, EngineInvariant, TypeOK
<1> QED BY <1>1, <1>2, <1>3 DEF Commit

LEMMA PruneStep ==
    ASSUME EngineInvariant, NEW r \in Readers, Prune(r)
    PROVE  EngineInvariant'
<1> DEFINE c == req[r].chan
<1>1. PICK k \in 0..Len(Programs(c)) :
         /\ schedules' = IF k = 0 THEN schedules ELSE
                [schedules EXCEPT ![c].programs = SubSeq(@, k + 1, Len(@))]
         /\ Goto(r, IF pc[r] = "prune" \/ k > 0 THEN "persist" ELSE "answer")
  BY DEF Prune
<1> DEFINE label == IF pc[r] = "prune" \/ k > 0 THEN "persist" ELSE "answer"
<1>2. schedules' \in [Channels -> Schedule \cup {None}] /\ ScheduleOrdered'
  <2>1. CASE k = 0
    BY <1>1, <2>1
       DEF Prune, EngineInvariant, TypeOK, ScheduleOrdered, Programs
  <2>2. CASE k # 0
    <3> DEFINE s == Programs(c)
               st == [schedules[c] EXCEPT !.programs = SubSeq(@, k + 1, Len(@))]
    <3>1. s \in Seq(Program) /\ Ordered(s)
      BY RequestType, ProgramsType DEF EngineInvariant, ScheduleOrdered
    <3>2. /\ schedules[c] \in Schedule /\ s = schedules[c].programs
      <4>1. s # <<>>
        BY <2>2, <3>1
      <4> QED BY <4>1, RequestType DEF Programs, EngineInvariant, TypeOK
    <3>3. k + 1 \in 1..Len(s)+1 /\ Len(s) \in 0..Len(s)
      BY <3>1
    <3>4. /\ SubSeq(s, k + 1, Len(s)) \in Seq(Program)
          /\ Ordered(SubSeq(s, k + 1, Len(s)))
      BY <3>1, <3>3, OrderedSubSeq
    <3>5. st \in Schedule /\ st.programs = SubSeq(s, k + 1, Len(s))
      BY <3>2, <3>4 DEF Schedule
    <3>6. schedules' = [schedules EXCEPT ![c] = st] /\ UNCHANGED schedFile
      BY <1>1, <2>2, RequestType DEF Prune, EngineInvariant, TypeOK
    <3> HIDE DEF st, s
    <3> QED BY <3>4, <3>5, <3>6, RequestType, ScheduleStep
  <2> QED BY <2>1, <2>2
<1>3. label \in {"persist", "answer"}
  OBVIOUS
<1>4. Goto(r, label)
  BY <1>1
<1> HIDE DEF label
<1>5. SetLocals(r, req[r]) /\ RequestInOrder(label, req[r])
  BY <1>3, RequestType
     DEF Prune, SetLocals, RequestInOrder, EngineInvariant, TypeOK
<1> QED BY <1>2, <1>3, <1>4, <1>5, RequestStep, RequestType
        DEF Prune, Steps, EngineInvariant, TypeOK

LEMMA WriteScheduleStep ==
    ASSUME EngineInvariant, NEW r \in Readers, WriteSchedule(r)
    PROVE  EngineInvariant'
<1> DEFINE c == req[r].chan
           q == [req[r] EXCEPT !.doc = None]
<1>1. PICK content \in {req[r].doc, schedFile[c], Torn} :
         schedFile' = [schedFile EXCEPT ![c] = content]
  BY DEF WriteSchedule
<1>2. /\ content \in Schedule \cup {None, Torn}
      /\ content \notin {None, Torn} => Ordered(content.programs)
  BY <1>1, RequestType
     DEF EngineInvariant, TypeOK, ScheduleOrdered, RequestInOrder, Request
<1>3. schedFile' \in [Channels -> Schedule \cup {None, Torn}]
  BY <1>1, <1>2 DEF EngineInvariant, TypeOK
<1>4. ScheduleOrdered'
  <2>1. ASSUME NEW x \in Channels, schedFile'[x] \notin {None, Torn}
        PROVE  Ordered(schedFile'[x].programs)
    BY <1>1, <1>2, <2>1 DEF EngineInvariant, TypeOK, ScheduleOrdered
  <2> QED BY <2>1 DEF WriteSchedule, EngineInvariant, ScheduleOrdered, Programs
<1>5. /\ q \in Request /\ q.doc = None /\ q.added = req[r].added
      /\ q.slot = req[r].slot
  BY RequestType DEF Request
<1>6. RequestInOrder("answer", q)
  BY <1>5, RequestType DEF RequestInOrder, WriteSchedule
<1> HIDE DEF q
<1>7. Goto(r, "answer") /\ SetLocals(r, q)
  BY DEF WriteSchedule, q
<1> QED BY <1>3, <1>4, <1>5, <1>6, <1>7, RequestStep
        DEF WriteSchedule, Steps, EngineInvariant, TypeOK

\* The owner's side of an edit: the request is under way, and nothing is settled.
LEMMA EditsStep ==
    ASSUME EngineInvariant, NEW o \in Owners, NEW c \in Channels,
           NEW removes \in BOOLEAN, Edits(o, c, removes)
    PROVE  /\ owner' \in [Owners -> OwnerState] /\ edits' \in Nat
           /\ settled' \in [Channels -> Definition \cup {None, Unsure}]
           /\ UNCHANGED <<now, wedged, pc, req, channelsFile, schedFile, restarts>>
<1>1. [Idle EXCEPT !.step = "list", !.chan = c, !.deletes = removes] \in OwnerState
  BY NoRequestType DEF OwnerState
<1> QED BY <1>1 DEF Edits, EngineInvariant, TypeOK

LEMMA SaveChannelStep ==
    ASSUME EngineInvariant, NEW c \in Channels, NEW d \in Definition,
           NEW o \in Owners, SaveChannel(o, c, d)
    PROVE  EngineInvariant'
<1>1. PICK kept \in 0..Len(Programs(c)) :
         schedules' = [schedules EXCEPT ![c] = Edited(@, d, kept)]
  BY DEF SaveChannel
<1> DEFINE st == Edited(schedules[c], d, kept)
<1>2. st \in Schedule \cup {None} /\ (st # None => Ordered(st.programs))
  <2>1. CASE schedules[c] = None
    BY <2>1 DEF Edited
  <2>2. CASE schedules[c] # None
    <3>1. /\ schedules[c] \in Schedule /\ Programs(c) = schedules[c].programs
          /\ Programs(c) \in Seq(Program) /\ Ordered(Programs(c))
      BY <2>2, ProgramsType DEF EngineInvariant, TypeOK, ScheduleOrdered, Programs
    <3>2. /\ SubSeq(Programs(c), 1, kept) \in Seq(Program)
          /\ Ordered(SubSeq(Programs(c), 1, kept))
      <4>1. 1 \in 1..Len(Programs(c)) + 1
        BY <3>1
      <4> QED BY <3>1, <4>1, OrderedSubSeq
    <3> QED BY <2>2, <3>1, <3>2 DEF Edited, Schedule, Definition
  <2> QED BY <2>1, <2>2
<1>3. schedules' = [schedules EXCEPT ![c] = st] /\ UNCHANGED schedFile
  BY <1>1, EditsStep DEF SaveChannel
<1> HIDE DEF st
<1>4. schedules' \in [Channels -> Schedule \cup {None}] /\ ScheduleOrdered'
  BY <1>2, <1>3, ScheduleStep
<1>5. channels' \in ChannelList
  BY DEF SaveChannel, EngineInvariant, TypeOK, ChannelList
<1> QED BY <1>4, <1>5, EditsStep DEF SaveChannel, EngineInvariant, TypeOK

LEMMA DeleteChannelStep ==
    ASSUME EngineInvariant, NEW o \in Owners, NEW c \in Channels,
           DeleteChannel(o, c)
    PROVE  EngineInvariant'
<1>1. UNCHANGED schedFile
  BY EditsStep DEF DeleteChannel
<1>2. schedules' \in [Channels -> Schedule \cup {None}] /\ ScheduleOrdered'
  BY <1>1, ScheduleStep DEF DeleteChannel
<1>3. channels' \in ChannelList
  BY DEF DeleteChannel, EngineInvariant, TypeOK, ChannelList
<1> QED BY <1>2, <1>3, EditsStep DEF DeleteChannel, EngineInvariant, TypeOK

LEMMA ListChannelsStep ==
    ASSUME EngineInvariant, NEW o \in Owners, ListChannels(o)
    PROVE  EngineInvariant'
<1>1. channels \in ChannelList /\ \A p \in Owners : owner[p] \in OwnerState
  BY DEF EngineInvariant, TypeOK
<1>2. /\ [owner[o] EXCEPT !.step = "write", !.list = channels,
                           !.alone = Holders = {}] \in OwnerState
      /\ \A p \in Owners : [owner[p] EXCEPT !.alone = FALSE] \in OwnerState
  BY <1>1 DEF OwnerState
<1>3. owner' \in [Owners -> OwnerState]
  BY <1>2 DEF ListChannels
<1> QED BY <1>3
        DEF ListChannels, EngineInvariant, TypeOK, ScheduleOrdered, Programs

LEMMA WriteChannelsStep ==
    ASSUME EngineInvariant, NEW o \in Owners, WriteChannels(o)
    PROVE  EngineInvariant'
<1>1. \A p \in Owners : owner[p] \in OwnerState /\ owner[p].list \in ChannelList
  BY DEF EngineInvariant, TypeOK, OwnerState
<1>2. [Idle EXCEPT !.step = "remove", !.chan = owner[o].chan] \in OwnerState
  BY <1>1, NoRequestType DEF OwnerState
<1>3. owner' \in [Owners -> OwnerState]
  BY <1>2, NoRequestType DEF WriteChannels, EngineInvariant, TypeOK
<1>4. /\ channelsFile' \in ChannelList \cup {Torn}
      /\ settled' \in [Channels -> Definition \cup {None, Unsure}]
  <2>1. CASE WriteSucceeds(o)
    BY <1>1, <2>1 DEF WriteSucceeds, ChannelList
  <2>2. CASE WriteFails(o)
    BY <2>2 DEF WriteFails, EngineInvariant, TypeOK
  <2>3. CASE WritesOverlap(o)
    BY <1>1, <2>3 DEF WritesOverlap, Holders, EngineInvariant, TypeOK
  <2> QED BY <2>1, <2>2, <2>3 DEF WriteChannels
<1> QED BY <1>3, <1>4
        DEF WriteChannels, EngineInvariant, TypeOK, ScheduleOrdered, Programs

LEMMA RemoveScheduleFileStep ==
    ASSUME EngineInvariant, NEW o \in Owners, RemoveScheduleFile(o)
    PROVE  EngineInvariant'
<1>1. owner' \in [Owners -> OwnerState] /\ owner[o].chan \in Channels
  BY NoRequestType DEF RemoveScheduleFile, EngineInvariant, TypeOK, OwnerState
<1>2. schedFile' \in [Channels -> Schedule \cup {None, Torn}]
  BY DEF RemoveScheduleFile, EngineInvariant, TypeOK
<1>3. ScheduleOrdered'
  BY <1>1 DEF RemoveScheduleFile, EngineInvariant, TypeOK, ScheduleOrdered, Programs
<1> QED BY <1>1, <1>2, <1>3 DEF RemoveScheduleFile, EngineInvariant, TypeOK

LEMMA RestartStep ==
    ASSUME EngineInvariant, Restart
    PROVE  EngineInvariant'
<1>1. ASSUME NEW c \in Channels
      PROVE  /\ Loaded(c) \in Schedule \cup {None}
             /\ Loaded(c) # None => Ordered(Loaded(c).programs)
  BY <1>1 DEF Loaded, EngineInvariant, TypeOK, ScheduleOrdered
<1>2. schedules' \in [Channels -> Schedule \cup {None}]
  BY <1>1 DEF Restart
<1>3. ASSUME NEW c \in Channels
      PROVE  Ordered(Programs(c)')
  <2>1. schedules'[c] = Loaded(c)
    BY DEF Restart
  <2> QED BY <1>1, <2>1, OrderedEmpty DEF Programs
<1>4. ScheduleOrdered'
  BY <1>3 DEF Restart, EngineInvariant, ScheduleOrdered
<1>5. TypeOK'
  <2>1. pc' \in [Readers -> Steps] /\ req' \in [Readers -> Request]
    BY NoRequestType DEF Restart, Steps
  <2>2. owner' \in [Owners -> OwnerState] /\ restarts' \in Nat
    BY NoRequestType DEF Restart, EngineInvariant, TypeOK
  <2>3. channels' \in ChannelList
    BY DEF Restart, LoadedChannels, NoChannels, ChannelList, EngineInvariant, TypeOK
  <2> QED BY <1>2, <2>1, <2>2, <2>3 DEF Restart, EngineInvariant, TypeOK
<1>6. ASSUME NEW r \in Readers
      PROVE  RequestInOrder(pc[r], req[r])'
  <2>1. pc'[r] = "idle" /\ req'[r] = NoRequest
    BY DEF Restart
  <2> QED BY <2>1, NoRequestType
<1> QED BY <1>4, <1>5, <1>6 DEF EngineInvariant

LEMMA TickStep ==
    ASSUME EngineInvariant, Tick
    PROVE  EngineInvariant'
BY DEF Tick, EngineInvariant, TypeOK, ScheduleOrdered, Programs

-----------------------------------------------------------------------------
(* The theorems. *)

LEMMA InvariantHoldsInitially == Init => EngineInvariant
<1> SUFFICES ASSUME Init PROVE EngineInvariant
  OBVIOUS
<1>1. TypeOK
  BY NoRequestType DEF Init, TypeOK, Steps, NoChannels, ChannelList
<1>2. ScheduleOrdered
  BY OrderedEmpty DEF Init, ScheduleOrdered, Programs
<1>3. ASSUME NEW r \in Readers
      PROVE  RequestInOrder(pc[r], req[r])
  BY NoRequestType DEF Init
<1> QED BY <1>1, <1>2, <1>3 DEF EngineInvariant

LEMMA InvariantIsInductive == EngineInvariant /\ [Next]_vars => EngineInvariant'
<1> SUFFICES ASSUME EngineInvariant, [Next]_vars PROVE EngineInvariant'
  OBVIOUS
<1>1. CASE Tick
  BY <1>1, TickStep
<1>2. ASSUME NEW r \in Readers, ReaderStep(r) PROVE EngineInvariant'
  BY <1>2, ExamineStep, FetchPoolStep, PlanStep, FillSlotStep, FillDoneStep,
     CommitStep, PruneStep, SnapshotForDiskStep, WriteScheduleStep, AnswerStep
     DEF ReaderStep
<1>3. ASSUME NEW r \in Readers, NEW c \in Channels, ReadDefinition(r, c)
      PROVE  EngineInvariant'
  BY <1>3, ReadDefinitionStep
<1>4. ASSUME NEW o \in Owners, NEW c \in Channels, OwnerRequest(o, c)
      PROVE  EngineInvariant'
  BY <1>4, SaveChannelStep, DeleteChannelStep DEF OwnerRequest
<1>5. ASSUME NEW o \in Owners, OwnerStep(o) PROVE EngineInvariant'
  BY <1>5, ListChannelsStep, WriteChannelsStep, RemoveScheduleFileStep DEF OwnerStep
<1>6. CASE Restart
  BY <1>6, RestartStep
<1>7. CASE UNCHANGED vars
  BY <1>7 DEF vars, EngineInvariant, TypeOK, ScheduleOrdered, Programs
<1> QED BY <1>1, <1>2, <1>3, <1>4, <1>5, <1>6, <1>7 DEF Next

\* linear_epg.go as a whole: the inductive invariant holds of every behaviour.
THEOREM InvariantHolds == Spec => []EngineInvariant
BY InvariantHoldsInitially, InvariantIsInductive, PTL DEF Spec

\* Every variable of the engine keeps its type, through every interleaving.
THEOREM TypeCorrect == Spec => []TypeOK
<1>1. EngineInvariant => TypeOK
  BY DEF EngineInvariant
<1> QED BY <1>1, InvariantHolds, PTL

\* The re-check of ensureWindow and the ordering check of load are enough: no
\* channel, in memory or on disk, ever has two programmes at the same moment.
THEOREM SchedulesStayOrdered == Spec => []ScheduleOrdered
<1>1. EngineInvariant => ScheduleOrdered
  BY DEF EngineInvariant
<1> QED BY <1>1, InvariantHolds, PTL

-----------------------------------------------------------------------------
(* The abstract guide.                                                     *)

\* A request was made no later than now: what it prunes, it prunes by a moment
\* that is past.
AskedInThePast == \A r \in Readers : req[r].asked <= now

LEMMA AskedInitially == Init => AskedInThePast
<1>1. NoRequest.asked = 0
  BY DEF NoRequest, Fresh
<1> QED BY <1>1 DEF Init, AskedInThePast

\* What a reader's step leaves of the moment it was made.
LEMMA AskedKept ==
    ASSUME EngineInvariant, NEW r \in Readers, ReaderStep(r)
    PROVE  /\ now' = now
           /\ \A q \in Readers : req'[q].asked \in {req[q].asked, 0}
<1>1. now' = now
  BY DEF ReaderStep, Examine, FetchPool, Plan, PanicHoldingLock, LeaveAsIs, FillSlot,
         FillDone, Commit, Prune, SnapshotForDisk, WriteSchedule, Answer
<1>2. PICK old : old = req[r] /\ old \in Request
  BY RequestType
<1>3. NoRequest.asked = 0
  BY DEF NoRequest, Fresh
<1>4. ASSUME NEW c, NEW d PROVE Fresh(c, d, old.asked).asked = old.asked
  BY DEF Fresh
<1>5. ASSUME NEW new, SetLocals(r, new), new.asked \in {old.asked, 0}
      PROVE  \A q \in Readers : req'[q].asked \in {req[q].asked, 0}
  <2>1. req'[r] = new /\ \A q \in Readers : q # r => req'[q] = req[q]
    BY <1>5 DEF SetLocals, EngineInvariant, TypeOK
  <2> QED BY <1>2, <1>5, <2>1
<1>6. CASE UNCHANGED req
  BY <1>1, <1>6
<1>7. CASE PanicHoldingLock(r) \/ LeaveAsIs(r) \/ Answer(r)
  <2>1. SetLocals(r, NoRequest) \/ SetLocals(r, Fresh(old.chan, old.def, old.asked))
    BY <1>2, <1>7 DEF PanicHoldingLock, LeaveAsIs, Answer
  <2> QED BY <1>1, <1>3, <1>4, <1>5, <2>1
<1>8. CASE FetchPool(r)
  <2>1. PICK lineup : SetLocals(r, [old EXCEPT !.lineup = lineup])
    BY <1>2, <1>8 DEF FetchPool
  <2>2. [old EXCEPT !.lineup = lineup].asked = old.asked
    BY <1>2 DEF Request
  <2> QED BY <1>1, <1>5, <2>1, <2>2
<1>9. CASE Plan(r) /\ ~PanicHoldingLock(r) /\ ~LeaveAsIs(r)
  <2>1. PICK from, cursor : SetLocals(r, [old EXCEPT !.slot = from, !.cursor = cursor])
    BY <1>2, <1>9 DEF Plan
  <2>2. [old EXCEPT !.slot = from, !.cursor = cursor].asked = old.asked
    BY <1>2 DEF Request
  <2> QED BY <1>1, <1>5, <2>1, <2>2
<1>10. CASE FillSlot(r)
  <2>1. PICK added, cursor, slot :
           SetLocals(r, [old EXCEPT !.added = added, !.cursor = cursor, !.slot = slot])
    BY <1>2, <1>10 DEF FillSlot
  <2>2. [old EXCEPT !.added = added, !.cursor = cursor, !.slot = slot].asked = old.asked
    BY <1>2 DEF Request
  <2> QED BY <1>1, <1>5, <2>1, <2>2
<1>11. CASE Commit(r) /\ ~PanicHoldingLock(r) /\ ~LeaveAsIs(r)
  <2>1. SetLocals(r, Fresh(old.chan, old.def, old.asked))
    BY <1>2, <1>11 DEF Commit
  <2> QED BY <1>1, <1>4, <1>5, <2>1
<1>12. CASE SnapshotForDisk(r) \/ WriteSchedule(r)
  <2>1. PICK doc : SetLocals(r, [old EXCEPT !.doc = doc])
    BY <1>2, <1>12 DEF SnapshotForDisk, WriteSchedule
  <2>2. [old EXCEPT !.doc = doc].asked = old.asked
    BY <1>2 DEF Request
  <2> QED BY <1>1, <1>5, <2>1, <2>2
<1>13. CASE Examine(r) \/ FillDone(r) \/ Prune(r)
  BY <1>6, <1>13 DEF Examine, FillDone, Prune
<1> QED BY <1>7, <1>8, <1>9, <1>10, <1>11, <1>12, <1>13 DEF ReaderStep

LEMMA AskedStays ==
    ASSUME EngineInvariant, AskedInThePast, [Next]_vars
    PROVE  AskedInThePast'
<1>1. now \in Nat /\ \A r \in Readers : req[r].asked \in Nat
  BY RequestType DEF EngineInvariant, TypeOK
<1>2. ASSUME NEW r \in Readers, ReaderStep(r) PROVE AskedInThePast'
  BY <1>1, <1>2, AskedKept DEF AskedInThePast
<1>3. ASSUME NEW r \in Readers, NEW c \in Channels, ReadDefinition(r, c)
      PROVE  AskedInThePast'
  <2>1. PICK new : new = Fresh(c, channels[c], now)
    OBVIOUS
  <2>2. new.asked = now
    BY <2>1 DEF Fresh
  <2>3. /\ now' = now /\ req'[r] = new
        /\ \A q \in Readers : q # r => req'[q] = req[q]
    BY <1>3, <2>1 DEF ReadDefinition, SetLocals, EngineInvariant, TypeOK
  <2> QED BY <1>1, <2>2, <2>3 DEF AskedInThePast
<1>4. CASE Restart
  <2>1. NoRequest.asked = 0
    BY DEF NoRequest, Fresh
  <2> QED BY <1>1, <1>4, <2>1 DEF Restart, AskedInThePast
<1>5. CASE Tick
  BY <1>1, <1>5 DEF Tick, AskedInThePast
<1>6. CASE UNCHANGED <<now, req>>
  BY <1>6 DEF AskedInThePast
<1> QED BY <1>2, <1>3, <1>4, <1>5, <1>6
        DEF Next, vars, OwnerRequest, OwnerStep, SaveChannel, DeleteChannel, Edits,
            ListChannels, WriteChannels, RemoveScheduleFile

\* What readers see of one channel, as its schedule changes.
LEMMA ListedAgain ==
    ASSUME EngineInvariant, EngineInvariant', NEW c \in Channels,
           \A x \in Channels \ {c} : schedules'[x] = schedules[x]
    PROVE  /\ Listed' = [Listed EXCEPT ![c] = Programs(c)']
           /\ Listed[c] = Programs(c) /\ Listed'[c] = Programs(c)'
           /\ Programs(c) \in Seq(Program) /\ Programs(c)' \in Seq(Program)
           /\ Ordered(Programs(c)) /\ Ordered(Programs(c)')
<1>1. \A x \in Channels \ {c} : Programs(x)' = Programs(x)
  BY DEF Programs
<1>2. /\ Programs(c) \in Seq(Program) /\ Ordered(Programs(c))
  BY ProgramsType DEF EngineInvariant, ScheduleOrdered
<1>3. Programs(c)' \in Seq(Program) /\ Ordered(Programs(c)')
  BY DEF EngineInvariant, TypeOK, ScheduleOrdered, Programs, Schedule
<1> QED BY <1>1, <1>2, <1>3 DEF Listed

LEMMA ListedUnchanged ==
    ASSUME UNCHANGED schedules
    PROVE  UNCHANGED Listed
BY DEF Listed, Programs

LEMMA ScheduleIsThere ==
    ASSUME NEW old \in Schedule, NEW programs \in Seq(Program), NEW cursor \in Nat
    PROVE  /\ [old EXCEPT !.programs = programs, !.cursor = cursor] # None
           /\ [old EXCEPT !.programs = programs] # None
<1>1. /\ [old EXCEPT !.programs = programs, !.cursor = cursor] \in Schedule
      /\ [old EXCEPT !.programs = programs] \in Schedule
  BY DEF Schedule
<1> QED BY <1>1, ConstantsAssumption

LEMMA CommitExtends ==
    ASSUME EngineInvariant, EngineInvariant', NEW r \in Readers, Commit(r)
    PROVE  [Guide!Next]_<<now, restarts, Listed>>
<1>0. PICK c \in Channels : c = req[r].chan
  BY RequestType
<1>1. UNCHANGED <<now, restarts>>
  BY DEF Commit, PanicHoldingLock, LeaveAsIs
<1>2. CASE PanicHoldingLock(r) \/ LeaveAsIs(r)
  BY <1>1, <1>2, ListedUnchanged DEF PanicHoldingLock, LeaveAsIs
<1>3. CASE ~PanicHoldingLock(r) /\ ~LeaveAsIs(r)
  <2>1. PICK added : added = req[r].added /\ added \in Seq(Program)
    BY RequestType
  <2>2. /\ schedules[c] # None
        /\ schedules' = [schedules EXCEPT ![c].programs = @ \o added,
                                          ![c].cursor = req[r].cursor]
    BY <1>0, <1>3, <2>1 DEF Commit
  <2>3. schedules[c] \in Schedule
    BY <1>1, <2>2 DEF EngineInvariant, TypeOK
  <2>4. schedules'[c] = [schedules[c] EXCEPT !.programs = @ \o added,
                                             !.cursor = req[r].cursor]
    BY <1>1, <2>2 DEF EngineInvariant, TypeOK
  <2>5. schedules'[c].programs = schedules[c].programs \o added
    BY <2>3, <2>4 DEF Schedule
  <2>6. schedules'[c] # None
    <3>1. PICK before \in Seq(Program) : before = schedules[c].programs
      BY <2>3 DEF Schedule
    <3>2. before \o added \in Seq(Program)
      BY <2>1
    <3>3. PICK programs \in Seq(Program), cursor \in Nat :
             programs = before \o added /\ cursor = req[r].cursor
      BY <3>2, RequestType
    <3>4. schedules'[c] = [schedules[c] EXCEPT !.programs = programs, !.cursor = cursor]
      BY <2>4, <3>1, <3>3
    <3>5. [schedules[c] EXCEPT !.programs = programs, !.cursor = cursor] # None
      BY <2>3, ScheduleIsThere
    <3> QED BY <3>4, <3>5
  <2>7. \A x \in Channels \ {c} : schedules'[x] = schedules[x]
    BY <2>2 DEF EngineInvariant, TypeOK
  <2>8. PICK old, new : /\ old = Programs(c) /\ new = Programs(c)'
                        /\ old \in Seq(Program) /\ new \in Seq(Program) /\ Ordered(new)
                        /\ new = old \o added
                        /\ Listed[c] = old /\ Listed'[c] = new
                        /\ Listed' = [Listed EXCEPT ![c] = new]
    <3>1. Programs(c) = schedules[c].programs /\ Programs(c)' = schedules'[c].programs
      BY <2>2, <2>6 DEF Programs
    <3>2. /\ Listed' = [Listed EXCEPT ![c] = Programs(c)']
          /\ Listed[c] = Programs(c) /\ Listed'[c] = Programs(c)'
          /\ Programs(c) \in Seq(Program) /\ Programs(c)' \in Seq(Program)
          /\ Ordered(Programs(c)')
      BY <2>7, ListedAgain
    <3>3. Programs(c)' = Programs(c) \o added
      BY <2>5, <3>1
    <3> QED BY <3>2, <3>3
  <2>9. Len(old) <= Len(new) /\ SubSeq(new, 1, Len(old)) = old
    BY <2>1, <2>8
  <2> QED BY <1>1, <2>8, <2>9 DEF Guide!Next, Guide!Extend, Guide!Becomes, Guide!Ordered, Ordered
<1> QED BY <1>2, <1>3

LEMMA PruneForgets ==
    ASSUME EngineInvariant, EngineInvariant', AskedInThePast, NEW r \in Readers, Prune(r)
    PROVE  [Guide!Next]_<<now, restarts, Listed>>
<1>0. PICK c \in Channels : c = req[r].chan
  BY RequestType
<1>1. UNCHANGED <<now, restarts>>
  BY DEF Prune
<1>2. PICK k \in 0..Len(Programs(c)) :
         /\ PrunedAt(Programs(c), k, req[r].asked)
         /\ schedules' = IF k = 0 THEN schedules ELSE
                [schedules EXCEPT ![c].programs = SubSeq(@, k + 1, Len(@))]
  BY <1>0 DEF Prune
<1>3. CASE k = 0
  BY <1>1, <1>2, <1>3, ListedUnchanged
<1>4. CASE k # 0
  <2>1. Programs(c) \in Seq(Program) /\ Programs(c) # <<>>
    BY <1>1, <1>2, <1>4, ProgramsType DEF EngineInvariant
  <2>2. schedules[c] # None /\ schedules[c] \in Schedule
        /\ Programs(c) = schedules[c].programs
    BY <1>1, <2>1 DEF Programs, EngineInvariant, TypeOK
  <2>3. schedules'[c] = [schedules[c] EXCEPT !.programs = SubSeq(@, k + 1, Len(@))]
    BY <1>1, <1>2, <1>4 DEF EngineInvariant, TypeOK
  <2>4. schedules'[c].programs = SubSeq(Programs(c), k + 1, Len(Programs(c)))
    BY <2>2, <2>3 DEF Schedule
  <2>5. schedules'[c] # None
    <3>1. PICK programs \in Seq(Program) :
             programs = SubSeq(schedules[c].programs, k + 1, Len(schedules[c].programs))
      <4>1. k + 1 \in 1..Len(Programs(c))+1 /\ Len(Programs(c)) \in 0..Len(Programs(c))
        BY <1>2, <2>1
      <4>2. Ordered(Programs(c))
        BY DEF EngineInvariant, ScheduleOrdered
      <4> QED BY <2>1, <2>2, <4>1, <4>2, OrderedSubSeq
    <3> QED BY <2>2, <2>3, <3>1, ScheduleIsThere
  <2>6. \A x \in Channels \ {c} : schedules'[x] = schedules[x]
    BY <1>2 DEF EngineInvariant, TypeOK
  <2>7. PICK old, new : /\ old = Programs(c) /\ new = Programs(c)'
                        /\ old \in Seq(Program)
                        /\ new = SubSeq(old, k + 1, Len(old))
                        /\ Listed[c] = old
                        /\ Listed' = [Listed EXCEPT ![c] = new]
    BY <1>1, <2>4, <2>5, <2>6, ListedAgain DEF Programs
  <2>8. ASSUME NEW i \in 1..k PROVE old[i].end + Past <= now
    <3>1. old[i].end \in Nat
      <4>1. old[i] \in Program
        BY <1>2, <2>7
      <4> QED BY <4>1 DEF Program
    <3>2. old[i].end + Past <= req[r].asked /\ req[r].asked <= now
      BY <1>2, <2>7 DEF PrunedAt, AskedInThePast
    <3>3. Past \in Nat /\ req[r].asked \in Nat /\ now \in Nat
      BY ConstantsAssumption, RequestType DEF EngineInvariant, TypeOK
    <3> QED BY <3>1, <3>2, <3>3
  <2> QED BY <1>1, <1>2, <2>7, <2>8 DEF Guide!Next, Guide!Forget, Guide!Becomes
<1> QED BY <1>3, <1>4

\* Creating a schedule, or stamping its revision, shows readers nothing new.
LEMMA ExamineListsTheSame ==
    ASSUME EngineInvariant, EngineInvariant', NEW r \in Readers, Examine(r)
    PROVE  UNCHANGED <<now, restarts, Listed>>
<1>0. PICK c \in Channels, d \in Definition : c = req[r].chan /\ d = req[r].def
  BY RequestType
<1>1. d.rules \in Rules /\ UNCHANGED <<now, restarts>>
  BY DEF Definition, Examine
<1>2. PICK st : /\ st = IF schedules[c] = None
                        THEN [revision |-> d.rules, cursor |-> 0, programs |-> <<>>]
                        ELSE [schedules[c] EXCEPT !.revision = d.rules]
                /\ schedules' = [schedules EXCEPT ![c] = st]
  BY <1>0 DEF Examine
<1>3. schedules'[c] = st /\ \A x \in Channels \ {c} : schedules'[x] = schedules[x]
  BY <1>1, <1>2 DEF EngineInvariant, TypeOK
<1>4. st.programs = Programs(c)
  BY <1>1, <1>2 DEF Programs, EngineInvariant, TypeOK, Schedule
<1>5. st # None
  <2>1. schedules[c] \in Schedule \cup {None}
    BY DEF EngineInvariant, TypeOK
  <2>2. st \in Schedule
    BY <1>1, <1>2, <2>1 DEF Schedule
  <2> QED BY <2>2, ConstantsAssumption
<1>6. Programs(c)' = Programs(c)
  BY <1>3, <1>4, <1>5 DEF Programs
<1>7. \A x \in Channels \ {c} : Programs(x)' = Programs(x)
  BY <1>3 DEF Programs
<1> QED BY <1>1, <1>6, <1>7 DEF Listed

LEMMA SaveEdits ==
    ASSUME EngineInvariant, EngineInvariant', NEW c \in Channels, NEW d \in Definition,
           NEW o \in Owners, SaveChannel(o, c, d)
    PROVE  [Guide!Next]_<<now, restarts, Listed>>
<1>1. PICK kept \in 0..Len(Programs(c)) :
         /\ StartedUpTo(Programs(c), kept, now)
         /\ schedules' = [schedules EXCEPT ![c] = Edited(@, d, kept)]
  BY DEF SaveChannel
<1>2. UNCHANGED <<now, restarts>>
  BY DEF SaveChannel, Edits
<1>3. /\ schedules'[c] = Edited(schedules[c], d, kept)
      /\ \A x \in Channels \ {c} : schedules'[x] = schedules[x]
  BY <1>1 DEF EngineInvariant, TypeOK
<1>4. CASE schedules[c] = None \/ schedules[c].revision = d.rules
  <2>1. schedules' = schedules
    BY <1>1, <1>3, <1>4 DEF Edited, EngineInvariant, TypeOK
  <2> QED BY <1>2, <2>1, ListedUnchanged
<1>5. CASE ~(schedules[c] = None \/ schedules[c].revision = d.rules)
  <2>1. /\ schedules'[c] = [revision |-> d.rules, cursor |-> 0,
                            programs |-> SubSeq(schedules[c].programs, 1, kept)]
        /\ Programs(c) = schedules[c].programs
    BY <1>3, <1>5 DEF Edited, Programs
  <2>2. SubSeq(Programs(c), 1, kept) \in Seq(Program)
    BY <1>1, ProgramsType DEF EngineInvariant
  <2>3. schedules'[c] \in Schedule
    BY <2>1, <2>2 DEF Schedule, Definition
  <2>4. schedules'[c] # None
    BY <2>3, ConstantsAssumption
  <2>5. PICK old, new : /\ old = Programs(c) /\ new = Programs(c)'
                        /\ old \in Seq(Program)
                        /\ new = SubSeq(old, 1, kept)
                        /\ Listed[c] = old
                        /\ Listed' = [Listed EXCEPT ![c] = new]
    BY <1>3, <2>1, <2>4, ListedAgain DEF Programs
  <2> QED BY <1>1, <1>2, <2>5 DEF StartedUpTo, Guide!Next, Guide!Edit, Guide!Becomes
<1> QED BY <1>4, <1>5

LEMMA DeleteRemoves ==
    ASSUME EngineInvariant, EngineInvariant', NEW o \in Owners, NEW c \in Channels,
           DeleteChannel(o, c)
    PROVE  [Guide!Next]_<<now, restarts, Listed>>
<1>1. /\ schedules'[c] = None /\ \A x \in Channels \ {c} : schedules'[x] = schedules[x]
      /\ UNCHANGED <<now, restarts>>
  BY DEF DeleteChannel, Edits, EngineInvariant, TypeOK
<1>2. Programs(c)' = <<>>
  BY <1>1 DEF Programs
<1>3. Listed' = [Listed EXCEPT ![c] = <<>>]
  BY <1>1, <1>2, ListedAgain
<1> QED BY <1>1, <1>3 DEF Guide!Next, Guide!Remove, Guide!Becomes

LEMMA RestartRestarts ==
    ASSUME EngineInvariant, EngineInvariant', Restart
    PROVE  Guide!Next
<1>1. /\ now' = now /\ restarts' = restarts + 1
      /\ Listed' = [c \in Channels |-> Listed'[c]]
      /\ \A c \in Channels : Ordered(Listed'[c])
  BY DEF Restart, Listed, EngineInvariant, ScheduleOrdered
<1> QED BY <1>1 DEF Guide!Next, Guide!Restart, Guide!Ordered, Ordered

LEMMA EveryStepIsTheGuides ==
    ASSUME EngineInvariant, EngineInvariant', AskedInThePast, [Next]_vars
    PROVE  [Guide!Next]_<<now, restarts, Listed>>
<1>1. CASE UNCHANGED <<now, restarts, schedules>>
  BY <1>1, ListedUnchanged
<1>2. CASE Tick
  <2>1. now' = now + 1 /\ UNCHANGED <<restarts, schedules>>
    BY <1>2 DEF Tick
  <2> QED BY <2>1, ListedUnchanged DEF Guide!Next, Guide!Tick
<1>3. ASSUME NEW r \in Readers, ReaderStep(r) PROVE [Guide!Next]_<<now, restarts, Listed>>
  <2>1. CASE Examine(r)
    BY <2>1, ExamineListsTheSame
  <2>2. CASE Commit(r)
    BY <2>2, CommitExtends
  <2>3. CASE Prune(r)
    BY <2>3, PruneForgets
  <2>4. CASE FetchPool(r) \/ Plan(r) \/ FillSlot(r) \/ FillDone(r)
    BY <1>1, <2>4 DEF FetchPool, Plan, FillSlot, FillDone, PanicHoldingLock, LeaveAsIs
  <2>5. CASE SnapshotForDisk(r) \/ WriteSchedule(r) \/ Answer(r)
    BY <1>1, <2>5 DEF SnapshotForDisk, WriteSchedule, Answer
  <2> QED BY <1>3, <2>1, <2>2, <2>3, <2>4, <2>5 DEF ReaderStep
<1>4. ASSUME NEW r \in Readers, NEW c \in Channels, ReadDefinition(r, c)
      PROVE  [Guide!Next]_<<now, restarts, Listed>>
  BY <1>1, <1>4 DEF ReadDefinition
<1>5. ASSUME NEW o \in Owners, OwnerStep(o) PROVE [Guide!Next]_<<now, restarts, Listed>>
  BY <1>1, <1>5 DEF OwnerStep, ListChannels, WriteChannels, RemoveScheduleFile
<1>6. ASSUME NEW o \in Owners, NEW c \in Channels, OwnerRequest(o, c)
      PROVE  [Guide!Next]_<<now, restarts, Listed>>
  BY <1>6, SaveEdits, DeleteRemoves DEF OwnerRequest
<1>7. CASE UNCHANGED vars
  BY <1>1, <1>7 DEF vars
<1> QED BY <1>2, <1>3, <1>4, <1>5, <1>6, <1>7, RestartRestarts DEF Next

\* linear_epg.go, header comment: one schedule per channel, extended and never
\* rebuilt.  However requests interleave, a listing only grows at its end, and
\* loses programmes at its front a whole past buffer after they ended; an edit
\* cuts it to the programmes that have started.  Only a deletion empties it, and
\* only a restart puts another list in its place, which is in order again.
THEOREM GuidePromiseKept == Spec => KeepsGuidePromise
<1>1. Init => Guide!Init
  BY DEF Init, Guide!Init, Listed, Programs
<1>2. EngineInvariant /\ AskedInThePast /\ [Next]_vars =>
         EngineInvariant' /\ AskedInThePast' /\ [Guide!Next]_<<now, restarts, Listed>>
  BY InvariantIsInductive, AskedStays, EveryStepIsTheGuides
<1> QED BY <1>1, <1>2, InvariantHoldsInitially, AskedInitially, PTL
        DEF Spec, KeepsGuidePromise, Guide!Spec, Guide!vars

-----------------------------------------------------------------------------
(* The owner's edits.                                                      *)

\* Edit requests in flight on a channel, before they have listed and before they
\* have written.
Unlisted(c)  == \E p \in Owners : owner[p].step = "list" /\ owner[p].chan = c
Unwritten(c) == \E p \in Owners : owner[p].step \in {"list", "write"} /\ owner[p].chan = c

\* A request that writes alone is the only one that holds a list, and its list
\* differs from memory only where another edit has not listed yet.
LoneWriter(o) ==
    /\ Holders = {o}
    /\ \A c \in Channels : owner[o].list[c] # channels[c] => Unlisted(c)

\* What is settled is in memory and on disk, and no request is about to change it.
SettledOnDisk(c) ==
    /\ channels[c] = settled[c]
    /\ channelsFile # Torn /\ channelsFile[c] = settled[c]
    /\ ~Unwritten(c)

EditsWritten ==
    /\ \A o \in Owners : owner[o].alone => LoneWriter(o)
    /\ \A c \in Channels : settled[c] # Unsure => SettledOnDisk(c)

LEMMA EditUnsettles ==
    ASSUME EngineInvariant, EditsWritten, NEW o \in Owners, NEW c \in Channels,
           OwnerRequest(o, c)
    PROVE  EditsWritten'
<1>1. /\ owner[o].step = "idle" /\ UNCHANGED channelsFile
      /\ settled' = [settled EXCEPT ![c] = Unsure]
      /\ \A x \in Channels \ {c} : channels'[x] = channels[x]
  BY DEF OwnerRequest, SaveChannel, DeleteChannel, Edits, EngineInvariant, TypeOK,
         ChannelList
<1>2. /\ owner'[o].step = "list" /\ owner'[o].chan = c /\ ~owner'[o].alone
      /\ \A p \in Owners \ {o} : owner'[p] = owner[p]
  <2>1. PICK new \in OwnerState : /\ owner' = [owner EXCEPT ![o] = new]
                                 /\ new.step = "list" /\ new.chan = c /\ ~new.alone
    <3>1. PICK removes \in BOOLEAN : Edits(o, c, removes)
      BY DEF OwnerRequest, SaveChannel, DeleteChannel
    <3>2. PICK new : new = [Idle EXCEPT !.step = "list", !.chan = c, !.deletes = removes]
      OBVIOUS
    <3>3. new \in OwnerState /\ new.step = "list" /\ new.chan = c /\ ~new.alone
      BY <3>2 DEF Idle, OwnerState, NoChannels, ChannelList
    <3> QED BY <3>1, <3>2, <3>3 DEF Edits
  <2> QED BY <2>1 DEF EngineInvariant, TypeOK
<1>3. Holders' = Holders
  BY <1>1, <1>2 DEF Holders
<1>4. ASSUME NEW x \in Channels PROVE /\ Unlisted(x) => Unlisted(x)'
                                      /\ Unwritten(x)' => x = c \/ Unwritten(x)
  BY <1>1, <1>2 DEF Unlisted, Unwritten
<1>5. Unlisted(c)'
  BY <1>2 DEF Unlisted
<1>6. ASSUME NEW p \in Owners, owner'[p].alone PROVE LoneWriter(p)'
  <2>1. p # o /\ owner'[p] = owner[p] /\ LoneWriter(p)
    BY <1>2, <1>6 DEF EditsWritten
  <2> QED BY <1>1, <1>3, <1>4, <1>5, <2>1 DEF LoneWriter
<1>7. ASSUME NEW x \in Channels, settled'[x] # Unsure PROVE SettledOnDisk(x)'
  <2>1. x # c /\ settled'[x] = settled[x]
    BY <1>1, <1>7 DEF EngineInvariant, TypeOK
  <2> QED BY <1>1, <1>4, <1>7, <2>1 DEF EditsWritten, SettledOnDisk
<1> QED BY <1>6, <1>7 DEF EditsWritten

LEMMA ListingAgrees ==
    ASSUME EngineInvariant, EditsWritten, NEW o \in Owners, ListChannels(o)
    PROVE  EditsWritten'
<1>1. owner[o].step = "list" /\ UNCHANGED <<channels, channelsFile, settled>>
  BY DEF ListChannels
<1>2. /\ owner'[o].step = "write" /\ owner'[o].list = channels
      /\ owner'[o].alone = (Holders = {}) /\ owner'[o].chan = owner[o].chan
  <2>1. owner'[o] = [owner[o] EXCEPT !.step = "write", !.list = channels,
                                     !.alone = Holders = {}]
    BY DEF ListChannels
  <2>2. owner[o] \in OwnerState
    BY DEF EngineInvariant, TypeOK
  <2> QED BY <2>1, <2>2 DEF OwnerState
<1>3. ASSUME NEW p \in Owners \ {o}
      PROVE  /\ owner'[p].step = owner[p].step /\ owner'[p].chan = owner[p].chan
             /\ ~owner'[p].alone
  <2>1. owner'[p] = [owner[p] EXCEPT !.alone = FALSE] /\ owner[p] \in OwnerState
    BY DEF ListChannels, EngineInvariant, TypeOK
  <2> QED BY <2>1 DEF OwnerState
<1>4. Holders' = Holders \cup {o}
  BY <1>2, <1>3 DEF Holders
<1>5. ASSUME NEW p \in Owners, owner'[p].alone PROVE LoneWriter(p)'
  <2>1. p = o /\ Holders = {}
    BY <1>2, <1>3, <1>5
  <2> QED BY <1>1, <1>2, <1>4, <2>1 DEF LoneWriter
<1>6. ASSUME NEW x \in Channels, settled'[x] # Unsure PROVE SettledOnDisk(x)'
  <2>1. SettledOnDisk(x)
    BY <1>1, <1>6 DEF EditsWritten
  <2>2. Unwritten(x)' => Unwritten(x)
    BY <1>1, <1>2, <1>3 DEF Unwritten
  <2> QED BY <1>1, <2>1, <2>2 DEF SettledOnDisk
<1> QED BY <1>5, <1>6 DEF EditsWritten

LEMMA WritingSettles ==
    ASSUME EngineInvariant, EditsWritten, NEW o \in Owners, WriteChannels(o)
    PROVE  EditsWritten'
<1>1. /\ owner[o].step = "write" /\ UNCHANGED channels
      /\ \A p \in Owners \ {o} : owner'[p] = owner[p]
  BY DEF WriteChannels, EngineInvariant, TypeOK
<1>2. owner'[o].step \in {"idle", "remove"} /\ ~owner'[o].alone
  <2>1. PICK new : new = [Idle EXCEPT !.step = "remove", !.chan = owner[o].chan]
    OBVIOUS
  <2>2. new.step = "remove" /\ ~new.alone /\ Idle.step = "idle" /\ ~Idle.alone
    BY <2>1, IdleIsDone DEF Idle
  <2>3. owner'[o] \in {new, Idle}
    BY <2>1 DEF WriteChannels, EngineInvariant, TypeOK
  <2> QED BY <2>2, <2>3
<1>3. Holders' = Holders \ {o}
  BY <1>1, <1>2 DEF Holders
<1>4. ASSUME NEW x \in Channels
      PROVE  Unlisted(x)' = Unlisted(x) /\ (Unwritten(x)' => Unwritten(x))
  BY <1>1, <1>2 DEF Unlisted, Unwritten
<1>5. ASSUME NEW p \in Owners, owner'[p].alone PROVE LoneWriter(p)'
  <2>1. p # o /\ owner'[p] = owner[p] /\ LoneWriter(p)
    BY <1>1, <1>2, <1>5 DEF EditsWritten
  <2>2. o \in Holders
    BY <1>1 DEF Holders
  <2> QED BY <2>1, <2>2 DEF LoneWriter
<1>6. ASSUME NEW x \in Channels, settled'[x] # Unsure PROVE SettledOnDisk(x)'
  <2>1. CASE WriteSucceeds(o)
    <3>1. LoneWriter(o) /\ channelsFile' = owner[o].list
      BY <2>1 DEF WriteSucceeds, EditsWritten
    <3>2. /\ ~\E p \in Owners \ {o} : owner[p].step = "list" /\ owner[p].chan = x
          /\ settled'[x] = owner[o].list[x]
      BY <1>6, <2>1 DEF WriteSucceeds
    <3>3. ~Unlisted(x)
      BY <1>1, <3>2 DEF Unlisted
    <3>4. owner[o].list[x] = channels[x]
      BY <3>1, <3>3 DEF LoneWriter
    <3>5. ~Unwritten(x)'
      BY <1>1, <1>2, <3>1, <3>3 DEF Unwritten, Unlisted, LoneWriter, Holders
    <3>6. channelsFile' # Torn
      <4>1. owner[o].list \in ChannelList
        BY DEF EngineInvariant, TypeOK, OwnerState
      <4> QED BY <3>1, <4>1, ConstantsAssumption
    <3> QED BY <1>1, <3>1, <3>2, <3>4, <3>5, <3>6 DEF SettledOnDisk
  <2>2. CASE WriteFails(o)
    <3>1. SettledOnDisk(x)
      BY <1>6, <2>2 DEF WriteFails, EditsWritten
    <3> QED BY <1>1, <1>4, <2>2, <3>1 DEF WriteFails, SettledOnDisk
  <2>3. CASE WritesOverlap(o)
    BY <1>6, <2>3 DEF WritesOverlap
  <2> QED BY <2>1, <2>2, <2>3 DEF WriteChannels
<1> QED BY <1>5, <1>6 DEF EditsWritten

LEMMA RemovingSettlesNothing ==
    ASSUME EngineInvariant, EditsWritten, NEW o \in Owners, RemoveScheduleFile(o)
    PROVE  EditsWritten'
<1>1. /\ owner[o].step = "remove" /\ UNCHANGED <<channels, channelsFile, settled>>
      /\ owner'[o].step = "idle" /\ ~owner'[o].alone
      /\ \A p \in Owners \ {o} : owner'[p] = owner[p]
  BY IdleIsDone DEF RemoveScheduleFile, EngineInvariant, TypeOK
<1>2. Holders' = Holders
  BY <1>1 DEF Holders
<1>3. ASSUME NEW x \in Channels
      PROVE  Unlisted(x)' = Unlisted(x) /\ Unwritten(x)' = Unwritten(x)
  BY <1>1 DEF Unlisted, Unwritten
<1>4. ASSUME NEW p \in Owners, owner'[p].alone PROVE LoneWriter(p)'
  <2>1. owner'[p] = owner[p] /\ LoneWriter(p)
    BY <1>1, <1>4 DEF EditsWritten
  <2> QED BY <1>1, <1>2, <1>3, <2>1 DEF LoneWriter
<1>5. ASSUME NEW x \in Channels, settled'[x] # Unsure PROVE SettledOnDisk(x)'
  BY <1>1, <1>3, <1>5 DEF EditsWritten, SettledOnDisk
<1> QED BY <1>4, <1>5 DEF EditsWritten

LEMMA RestartLoadsWhatIsSettled ==
    ASSUME EngineInvariant, EditsWritten, Restart
    PROVE  EditsWritten'
<1>1. \A o \in Owners : owner'[o].step = "idle" /\ ~owner'[o].alone
  BY IdleIsDone DEF Restart
<1>2. ASSUME NEW x \in Channels, settled'[x] # Unsure PROVE SettledOnDisk(x)'
  <2>1. SettledOnDisk(x) /\ UNCHANGED <<channelsFile, settled>>
    BY <1>2 DEF Restart, EditsWritten
  <2>2. channels' = channelsFile
    BY <2>1 DEF Restart, LoadedChannels, SettledOnDisk
  <2> QED BY <1>1, <2>1, <2>2 DEF SettledOnDisk, Unwritten
<1> QED BY <1>1, <1>2 DEF EditsWritten

\* SaveChannel, DeleteChannel, persist and load, with any number of the owner's
\* requests at once, writes that fail and restarts anywhere: what a write that
\* nobody overlapped has brought to disk is what memory holds and a restart finds.
THEOREM EditsSurvive == Spec => []AcknowledgedEditsAreOnDisk
<1>1. Init => EditsWritten
  <2>1. NoChannels # Torn
    BY NoRequestType, ConstantsAssumption DEF NoChannels, ChannelList
  <2> QED BY <2>1, IdleIsDone DEF Init, EditsWritten, SettledOnDisk, Unwritten
<1>2. EngineInvariant /\ EditsWritten /\ [Next]_vars => EditsWritten'
  <2> SUFFICES ASSUME EngineInvariant, EditsWritten, [Next]_vars PROVE EditsWritten'
    OBVIOUS
  <2>1. CASE UNCHANGED <<owner, channels, channelsFile, settled>>
    BY <2>1 DEF EditsWritten, LoneWriter, SettledOnDisk, Holders, Unlisted, Unwritten
  <2>2. ASSUME NEW r \in Readers, ReaderStep(r) PROVE EditsWritten'
    BY <2>1, <2>2
       DEF ReaderStep, Examine, FetchPool, Plan, PanicHoldingLock, LeaveAsIs, FillSlot,
           FillDone, Commit, Prune, SnapshotForDisk, WriteSchedule, Answer
  <2>3. ASSUME NEW r \in Readers, NEW c \in Channels, ReadDefinition(r, c)
        PROVE  EditsWritten'
    BY <2>1, <2>3 DEF ReadDefinition
  <2>4. ASSUME NEW o \in Owners, OwnerStep(o) PROVE EditsWritten'
    BY <2>4, ListingAgrees, WritingSettles, RemovingSettlesNothing DEF OwnerStep
  <2>5. CASE Tick \/ UNCHANGED vars
    BY <2>1, <2>5 DEF Tick, vars
  <2> QED BY <2>2, <2>3, <2>4, <2>5, EditUnsettles, RestartLoadsWhatIsSettled DEF Next
<1>3. EditsWritten => AcknowledgedEditsAreOnDisk
  BY DEF EditsWritten, SettledOnDisk, AcknowledgedEditsAreOnDisk
<1> QED BY <1>1, <1>2, <1>3, InvariantHolds, PTL DEF Spec

-----------------------------------------------------------------------------
(* Something is on air.                                                    *)

\* There is no gap in a list from one moment to another.
Airs(s, from, to) == \A t \in from..to-1 : AiringAt(s, t) # {}

\* At moment t there is no gap ahead in a list, up to where it ends.
Upcoming(s, t) == s # <<>> => Airs(s, t, LastEnd(s))

\* Moment e is past, or the list reaches it.
ReachedBy(e, t, s) == e <= t \/ (s # <<>> /\ e <= LastEnd(s))

\* What a request has filled so far has no gap, and begins by now or by where the
\* schedule s ends.
FilledFrom(q) == IF q.added = <<>> THEN q.slot ELSE q.added[1].start
Joins(q, t, s) ==
    /\ Airs(q.added, FilledFrom(q), q.slot)
    /\ q.added # <<>> => LastEnd(q.added) = q.slot
    /\ Genesis(q.asked) + Len(q.added) <= q.slot
    /\ ReachedBy(FilledFrom(q), t, s)

\* What a request at a step has made sure of: the fill reaches its horizon, and
\* the schedule does from the commit on, unless that horizon is past.
NoHole(step, q, t, s) ==
    /\ step \in {"fill", "commit"} => Joins(q, t, s)
    /\ step = "commit" => Horizon(q.asked) <= q.slot
    /\ step \in {"prune", "tidy", "persist", "write"} => ReachedBy(Horizon(q.asked), t, s)
    /\ q.doc # None => Upcoming(q.doc.programs, t)

\* Before the first edit there is nothing at all.
NothingYet ==
    /\ \A c \in Channels : /\ channels[c] = None /\ schedules[c] = None
                           /\ schedFile[c] = None
    /\ channelsFile = NoChannels
    /\ \A r \in Readers : pc[r] = "idle"
    /\ \A o \in Owners : owner[o].step = "idle"

OnAirInvariant ==
    /\ \A c \in Channels : Upcoming(Listed[c], now)
    /\ \A c \in Channels :
          schedFile[c] \notin {None, Torn} => Upcoming(schedFile[c].programs, now)
    /\ \A r \in Readers : NoHole(pc[r], req[r], now, Listed[req[r].chan])
    /\ edits = 0 => NothingYet

LEMMA LastEndIsTime ==
    ASSUME NEW s \in Seq(Program), s # <<>>
    PROVE  LastEnd(s) \in Nat /\ Len(s) \in 1..Len(s)
<1>1. Len(s) \in 1..Len(s)
  OBVIOUS
<1>2. s[Len(s)] \in Program
  BY <1>1
<1> QED BY <1>1, <1>2 DEF LastEnd, Program

LEMMA AiringInConcat ==
    ASSUME NEW s \in Seq(Program), NEW p \in Seq(Program), NEW t \in Nat,
           AiringAt(s, t) # {} \/ AiringAt(p, t) # {}
    PROVE  AiringAt(s \o p, t) # {}
<1>1. /\ Len(s \o p) = Len(s) + Len(p)
      /\ \A i \in 1..Len(s) : (s \o p)[i] = s[i] /\ i \in 1..Len(s \o p)
      /\ \A i \in 1..Len(p) : (s \o p)[i + Len(s)] = p[i] /\ i + Len(s) \in 1..Len(s \o p)
  OBVIOUS
<1>2. CASE AiringAt(s, t) # {}
  <2>1. PICK i \in 1..Len(s) : s[i].start <= t /\ t < s[i].end
    BY <1>2 DEF AiringAt
  <2>2. i \in AiringAt(s \o p, t)
    BY <1>1, <2>1 DEF AiringAt
  <2> QED BY <2>2
<1>3. CASE AiringAt(p, t) # {}
  <2>1. PICK i \in 1..Len(p) : p[i].start <= t /\ t < p[i].end
    BY <1>3 DEF AiringAt
  <2>2. i + Len(s) \in AiringAt(s \o p, t)
    BY <1>1, <2>1 DEF AiringAt
  <2> QED BY <2>2
<1> QED BY <1>2, <1>3

LEMMA AiringInSuffix ==
    ASSUME NEW s \in Seq(Program), NEW k \in 0..Len(s), NEW t \in Nat,
           \A i \in 1..k : s[i].end <= t, AiringAt(s, t) # {}
    PROVE  AiringAt(SubSeq(s, k + 1, Len(s)), t) # {}
<1>1. PICK i \in 1..Len(s) : s[i].start <= t /\ t < s[i].end
  BY DEF AiringAt
<1>2. \A j \in 1..Len(s) : s[j].end \in Nat
  <2>1. \A j \in 1..Len(s) : s[j] \in Program
    OBVIOUS
  <2> QED BY <2>1 DEF Program
<1>3. i > k
  BY <1>1, <1>2
<1>4. PICK rest : rest = SubSeq(s, k + 1, Len(s))
  OBVIOUS
<1>5. Len(rest) = Len(s) - k /\ i - k \in 1..Len(rest) /\ rest[i - k] = s[i]
  BY <1>3, <1>4
<1>6. i - k \in AiringAt(rest, t)
  BY <1>1, <1>5 DEF AiringAt
<1> QED BY <1>4, <1>6

\* A list goes on from s at moment t to p at moment u: nothing that was reached is
\* lost, and there is no gap ahead.
Onward(s, t, p, u) ==
    /\ t <= u
    /\ Upcoming(p, u)
    /\ \A e \in Nat : ReachedBy(e, t, s) => ReachedBy(e, u, p)

LEMMA TimePasses ==
    ASSUME NEW s \in Seq(Program), NEW t \in Nat, NEW u \in Nat, t <= u, Upcoming(s, t)
    PROVE  Onward(s, t, s, u)
<1>1. s # <<>> => LastEnd(s) \in Nat
  BY LastEndIsTime
<1>2. Upcoming(s, u)
  BY <1>1 DEF Upcoming, Airs
<1> QED BY <1>1, <1>2 DEF Onward, ReachedBy

LEMMA NoHoleLater ==
    ASSUME NEW step, NEW q \in Request, NEW t \in Nat, NEW u \in Nat,
           NEW s \in Seq(Program), NEW p \in Seq(Program),
           NoHole(step, q, t, s), Onward(s, t, p, u)
    PROVE  NoHole(step, q, u, p)
<1>1. FilledFrom(q) \in Nat
  <2>1. CASE q.added = <<>>
    BY <2>1 DEF FilledFrom, Request
  <2>2. CASE q.added # <<>>
    <3>1. q.added \in Seq(Program)
      BY DEF Request
    <3>2. q.added[1] \in Program
      BY <2>2, <3>1
    <3> QED BY <2>2, <3>2 DEF FilledFrom, Program
  <2> QED BY <2>1, <2>2
<1>2. Horizon(q.asked) \in Nat
  BY ConstantsAssumption DEF Horizon, Request
<1>3. Joins(q, t, s) => Joins(q, u, p)
  BY <1>1 DEF Joins, Onward
<1>4. q.doc # None => Upcoming(q.doc.programs, u)
  <2> SUFFICES ASSUME q.doc # None PROVE Upcoming(q.doc.programs, u)
    OBVIOUS
  <2>1. q.doc.programs \in Seq(Program)
    BY DEF Request, Schedule
  <2>2. Upcoming(q.doc.programs, t) /\ t <= u
    BY DEF NoHole, Onward
  <2> QED BY <2>1, <2>2, TimePasses DEF Onward
<1> QED BY <1>2, <1>3, <1>4 DEF NoHole, Onward

-----------------------------------------------------------------------------
(* What a commit and a prune do to a list.                                 *)

LEMMA CommitOnward ==
    ASSUME NEW s \in Seq(Program), NEW q \in Request, NEW t \in Nat,
           Ordered(q.added), ~Overtaken(s, q.added),
           Upcoming(s, t), Joins(q, t, s), Horizon(q.asked) <= q.slot
    PROVE  /\ Onward(s, t, s \o q.added, t)
           /\ ReachedBy(Horizon(q.asked), t, s \o q.added)
<1>1. PICK added \in Seq(Program), slot \in Nat : added = q.added /\ slot = q.slot
  BY DEF Request
<1>2. Horizon(q.asked) \in Nat
  BY ConstantsAssumption DEF Horizon, Request
<1>3. CASE added = <<>>
  <2>1. s \o added = s /\ FilledFrom(q) = slot
    BY <1>1, <1>3 DEF FilledFrom
  <2>2. ReachedBy(slot, t, s)
    BY <2>1 DEF Joins
  <2>3. s # <<>> => LastEnd(s) \in Nat
    BY LastEndIsTime
  <2>4. ReachedBy(Horizon(q.asked), t, s)
    BY <1>1, <1>2, <2>2, <2>3 DEF ReachedBy
  <2> QED BY <1>1, <2>1, <2>4, TimePasses
<1>4. CASE added # <<>>
  <2>1. PICK p : p = s \o added
    OBVIOUS
  <2>2. p \in Seq(Program) /\ p # <<>> /\ LastEnd(p) = LastEnd(added)
    <3>1. Len(p) = Len(s) + Len(added) /\ p[Len(p)] = added[Len(added)] /\ p \in Seq(Program)
      BY <1>4, <2>1
    <3> QED BY <1>4, <3>1 DEF LastEnd
  <2>3. LastEnd(p) = slot
    BY <1>1, <1>4, <2>2 DEF Joins
  <2>4. PICK from \in Nat : from = FilledFrom(q) /\ from = added[1].start
    <3>1. added[1] \in Program
      BY <1>4
    <3> QED BY <1>1, <1>4, <3>1 DEF FilledFrom, Program
  <2>5. Airs(added, from, slot) /\ ReachedBy(from, t, s)
    BY <1>1, <2>4 DEF Joins
  <2>6. s # <<>> => LastEnd(s) \in Nat
    BY LastEndIsTime
  <2>7. ASSUME NEW x \in t..slot-1 PROVE AiringAt(p, x) # {}
    <3>1. x \in Nat
      OBVIOUS
    <3>2. CASE from <= x
      <4>1. AiringAt(added, x) # {}
        BY <2>5, <2>7, <3>2 DEF Airs
      <4> QED BY <2>1, <3>1, <4>1, AiringInConcat
    <3>3. CASE ~(from <= x)
      <4>1. s # <<>> /\ x < LastEnd(s)
        BY <2>5, <2>6, <2>7, <3>3 DEF ReachedBy
      <4>2. AiringAt(s, x) # {}
        BY <2>6, <2>7, <4>1 DEF Upcoming, Airs
      <4> QED BY <2>1, <3>1, <4>2, AiringInConcat
    <3> QED BY <3>2, <3>3
  <2>8. Upcoming(p, t)
    BY <2>3, <2>7 DEF Upcoming, Airs
  <2>9. ASSUME s # <<>> PROVE LastEnd(s) <= slot
    <3>1. LastEnd(s) <= from
      BY <1>1, <1>4, <2>4, <2>6, <2>9 DEF Overtaken
    <3>2. PICK n \in 1..Len(added) : n = Len(added)
      BY <1>4, LastEndIsTime
    <3>3. added[1] \in Program /\ added[n] \in Program
      BY <1>4
    <3>4. /\ added[1].start \in Nat /\ added[1].end \in Nat
          /\ added[n].start \in Nat /\ added[n].end \in Nat
      BY <3>3 DEF Program
    <3>5. added[1].start < added[1].end /\ added[n].start < added[n].end
          /\ (1 < n => added[1].end <= added[n].start)
      BY <1>1, <3>2 DEF Ordered
    <3>6. added[n].end = slot
      BY <1>1, <1>4, <3>2 DEF Joins, LastEnd
    <3> QED BY <2>4, <2>6, <2>9, <3>1, <3>2, <3>4, <3>5, <3>6
  <2>10. \A e \in Nat : ReachedBy(e, t, s) => ReachedBy(e, t, p)
    BY <2>2, <2>3, <2>6, <2>9 DEF ReachedBy
  <2>11. ReachedBy(Horizon(q.asked), t, p)
    BY <1>1, <2>2, <2>3 DEF ReachedBy
  <2> QED BY <1>1, <2>1, <2>8, <2>10, <2>11 DEF Onward
<1> QED BY <1>3, <1>4

LEMMA PruneOnward ==
    ASSUME NEW s \in Seq(Program), NEW k \in 0..Len(s), NEW asked \in Nat, NEW t \in Nat,
           PrunedAt(s, k, asked), asked <= t, Upcoming(s, t)
    PROVE  Onward(s, t, SubSeq(s, k + 1, Len(s)), t)
<1>1. PICK p : p = SubSeq(s, k + 1, Len(s))
  OBVIOUS
<1>2. \A i \in 1..Len(s) : s[i].end \in Nat
  <2>1. \A j \in 1..Len(s) : s[j] \in Program
    OBVIOUS
  <2> QED BY <2>1 DEF Program
<1>3. \A i \in 1..k : s[i].end <= t
  BY <1>2, ConstantsAssumption DEF PrunedAt
<1>4. CASE k = Len(s)
  <2>1. p = <<>>
    BY <1>1, <1>4
  <2>2. s # <<>> => LastEnd(s) <= t
    BY <1>3, <1>4 DEF LastEnd
  <2>3. s # <<>> => LastEnd(s) \in Nat
    BY LastEndIsTime
  <2> QED BY <1>1, <2>1, <2>2, <2>3 DEF Onward, Upcoming, ReachedBy
<1>5. CASE k < Len(s)
  <2>1. p \in Seq(Program) /\ Len(p) = Len(s) - k /\ p[Len(p)] = s[Len(s)]
    <3>1. k + 1 \in 1..Len(s) /\ Len(s) \in 1..Len(s) /\ Len(s) - k \in 1..Len(s)
      BY <1>5
    <3>2. p \in Seq(Program)
      BY <1>1, <3>1
    <3>3. Len(p) = Len(s) - k
      BY <1>1, <3>1
    <3>4. p[Len(s) - k] = s[Len(s)]
      BY <1>1, <3>1, <3>3
    <3> QED BY <3>2, <3>3, <3>4
  <2>2. p # <<>> /\ s # <<>> /\ LastEnd(p) = LastEnd(s)
    BY <1>5, <2>1 DEF LastEnd
  <2>3. LastEnd(s) \in Nat
    BY <2>2, LastEndIsTime
  <2>4. ASSUME NEW x \in t..LastEnd(p)-1 PROVE AiringAt(p, x) # {}
    <3>1. AiringAt(s, x) # {} /\ x \in Nat
      BY <2>2, <2>3, <2>4 DEF Upcoming, Airs
    <3>2. \A i \in 1..k : s[i].end <= x
      BY <1>2, <1>3, <2>2, <2>3, <2>4
    <3> QED BY <1>1, <3>1, <3>2, AiringInSuffix
  <2>5. Upcoming(p, t)
    BY <2>4 DEF Upcoming, Airs
  <2> QED BY <1>1, <2>2, <2>5 DEF Onward, ReachedBy
<1> QED BY <1>4, <1>5

-----------------------------------------------------------------------------
(* Every step of a request, and of the rest.                               *)

LEMMA ListedType ==
    ASSUME EngineInvariant, NEW c \in Channels
    PROVE  /\ Listed[c] = Programs(c) /\ Listed[c] \in Seq(Program) /\ Ordered(Listed[c])
           /\ now \in Nat
BY ProgramsType DEF Listed, EngineInvariant, ScheduleOrdered, TypeOK

LEMMA ListedAfter ==
    ASSUME EngineInvariant', NEW c \in Channels
    PROVE  Listed'[c] \in Seq(Program) /\ now' \in Nat
BY DEF EngineInvariant, TypeOK, Listed, Programs, Schedule

LEMMA FilesStay ==
    ASSUME EngineInvariant, EngineInvariant', OnAirInvariant, UNCHANGED schedFile,
           now <= now'
    PROVE  \A c \in Channels :
              schedFile'[c] \notin {None, Torn} => Upcoming(schedFile'[c].programs, now')
<1> SUFFICES ASSUME NEW c \in Channels, schedFile[c] \notin {None, Torn}
             PROVE  Upcoming(schedFile[c].programs, now')
  OBVIOUS
<1>1. PICK s \in Seq(Program) : s = schedFile[c].programs
  BY DEF EngineInvariant, TypeOK, Schedule
<1>2. Upcoming(s, now)
  BY <1>1 DEF OnAirInvariant
<1>3. now \in Nat /\ now' \in Nat
  BY DEF EngineInvariant, TypeOK
<1> QED BY <1>1, <1>2, <1>3, TimePasses DEF Onward

LEMMA RequestOnAir ==
    ASSUME EngineInvariant, EngineInvariant', OnAirInvariant, NEW r \in Readers,
           NEW q \in Request, NEW label \in Steps, Goto(r, label), SetLocals(r, q),
           \A c \in Channels : Onward(Listed[c], now, Listed'[c], now'),
           NoHole(label, q, now', Listed'[q.chan]),
           \A c \in Channels :
              schedFile'[c] \notin {None, Torn} => Upcoming(schedFile'[c].programs, now'),
           edits # 0, edits' = edits
    PROVE  OnAirInvariant'
<1>1. \A c \in Channels : Upcoming(Listed'[c], now')
  BY DEF Onward
<1>2. ASSUME NEW x \in Readers
      PROVE  NoHole(pc'[x], req'[x], now', Listed'[req'[x].chan])
  <2>1. CASE x = r
    <3>1. pc'[x] = label /\ req'[x] = q
      BY <2>1 DEF EngineInvariant, TypeOK, Goto, SetLocals
    <3> QED BY <3>1
  <2>2. CASE x # r
    <3>1. pc'[x] = pc[x] /\ req'[x] = req[x]
      BY <2>2 DEF EngineInvariant, TypeOK, Goto, SetLocals
    <3>2. PICK c \in Channels : c = req[x].chan
      BY RequestType
    <3>3. /\ req[x] \in Request /\ now \in Nat /\ now' \in Nat
          /\ Listed[c] \in Seq(Program) /\ Listed'[c] \in Seq(Program)
      BY RequestType, ListedType, ListedAfter
    <3>4. NoHole(pc[x], req[x], now, Listed[c])
      BY <3>2 DEF OnAirInvariant
    <3>5. NoHole(pc[x], req[x], now', Listed'[c])
      BY <3>3, <3>4, NoHoleLater
    <3> QED BY <3>1, <3>2, <3>5
  <2> QED BY <2>1, <2>2
<1> QED BY <1>1, <1>2 DEF OnAirInvariant

\* A step that shows readers the same schedules and writes no file.
LEMMA QuietRequestOnAir ==
    ASSUME EngineInvariant, EngineInvariant', OnAirInvariant, NEW r \in Readers,
           NEW q \in Request, NEW label \in Steps, Goto(r, label), SetLocals(r, q),
           UNCHANGED <<now, Listed, schedFile, edits>>, edits # 0,
           NoHole(label, q, now, Listed[q.chan])
    PROVE  OnAirInvariant'
<1>1. now \in Nat
  BY DEF EngineInvariant, TypeOK
<1>2. ASSUME NEW c \in Channels PROVE Onward(Listed[c], now, Listed'[c], now')
  <2>1. Listed[c] \in Seq(Program) /\ Upcoming(Listed[c], now)
    BY ListedType DEF OnAirInvariant
  <2> QED BY <1>1, <2>1, TimePasses
<1>3. \A c \in Channels :
         schedFile'[c] \notin {None, Torn} => Upcoming(schedFile'[c].programs, now')
  BY <1>1, FilesStay
<1>4. NoHole(label, q, now', Listed'[q.chan])
  OBVIOUS
<1> QED BY <1>2, <1>3, <1>4, RequestOnAir

\* A request beyond ensureWindow, without anything to write.
LEMMA PlainNoHole ==
    ASSUME NEW label \in {"idle", "examine", "pool", "plan", "answer"},
           NEW q, NEW t, NEW s, q.doc = None \/ Upcoming(q.doc.programs, t)
    PROVE  NoHole(label, q, t, s)
BY DEF NoHole

LEMMA FreshHasNoDoc == \A c, d, t : Fresh(c, d, t).doc = None /\ NoRequest.doc = None
BY DEF Fresh, NoRequest

LEMMA SomethingWasEdited ==
    ASSUME OnAirInvariant, NEW r \in Readers,
           pc[r] # "idle" \/ \E c \in Channels : channels[c] # None
    PROVE  edits # 0
BY DEF OnAirInvariant, NothingYet

LEMMA AnswersOnAir ==
    ASSUME EngineInvariant, EngineInvariant', OnAirInvariant, NEW r \in Readers,
           pc[r] # "idle", PanicHoldingLock(r) \/ LeaveAsIs(r) \/ Answer(r)
    PROVE  OnAirInvariant'
<1>1. edits # 0
  BY SomethingWasEdited
<1>2. UNCHANGED <<now, Listed, schedFile, edits>>
  BY ListedUnchanged DEF PanicHoldingLock, LeaveAsIs, Answer
<1>3. CASE PanicHoldingLock(r) \/ Answer(r)
  <2>1. Goto(r, "idle") /\ SetLocals(r, NoRequest)
    BY <1>3 DEF PanicHoldingLock, Answer
  <2>2. NoHole("idle", NoRequest, now, Listed[NoRequest.chan])
    BY PlainNoHole, FreshHasNoDoc
  <2> QED BY <1>1, <1>2, <2>1, <2>2, QuietRequestOnAir, NoRequestType DEF Steps
<1>4. CASE LeaveAsIs(r)
  <2>1. PICK q \in Request : q = Fresh(req[r].chan, req[r].def, req[r].asked)
    BY FreshType, RequestType
  <2>2. Goto(r, "answer") /\ SetLocals(r, q)
    BY <1>4, <2>1 DEF LeaveAsIs
  <2>3. NoHole("answer", q, now, Listed[q.chan])
    BY <2>1, PlainNoHole, FreshHasNoDoc
  <2> QED BY <1>1, <1>2, <2>2, <2>3, QuietRequestOnAir DEF Steps
<1> QED BY <1>3, <1>4

LEMMA ReadDefinitionOnAir ==
    ASSUME EngineInvariant, EngineInvariant', OnAirInvariant, NEW r \in Readers,
           NEW c \in Channels, ReadDefinition(r, c)
    PROVE  OnAirInvariant'
<1>1. edits # 0
  BY SomethingWasEdited DEF ReadDefinition
<1>2. UNCHANGED <<now, Listed, schedFile, edits>>
  BY ListedUnchanged DEF ReadDefinition
<1>3. channels[c] \in Definition /\ now \in Nat
  BY DEF EngineInvariant, TypeOK, ReadDefinition, ChannelList
<1>4. PICK q \in Request : q = Fresh(c, channels[c], now)
  BY <1>3, FreshType
<1>5. Goto(r, "examine") /\ SetLocals(r, q)
  BY <1>4 DEF ReadDefinition
<1>6. NoHole("examine", q, now, Listed[q.chan])
  BY <1>4, PlainNoHole, FreshHasNoDoc
<1> QED BY <1>1, <1>2, <1>5, <1>6, QuietRequestOnAir DEF Steps

LEMMA ExamineOnAir ==
    ASSUME EngineInvariant, EngineInvariant', OnAirInvariant, NEW r \in Readers, Examine(r)
    PROVE  OnAirInvariant'
<1>0. PICK c \in Channels, q \in Request : q = req[r] /\ c = q.chan /\ q.asked \in Nat
  BY RequestType
<1>1. edits # 0
  BY SomethingWasEdited DEF Examine, Reading
<1>2. UNCHANGED <<now, Listed, schedFile, edits>>
  BY ExamineListsTheSame DEF Examine
<1>3. PICK s \in Seq(Program) : s = Listed[c] /\ s = Programs(c)
  BY ListedType
<1>4. PICK label \in {"tidy", "pool", "answer"} :
         Goto(r, label) /\ (label = "tidy" => Covered(s, q.asked))
  <2>1. PICK st : /\ st = IF schedules[c] = None
                          THEN [revision |-> q.def.rules, cursor |-> 0, programs |-> <<>>]
                          ELSE [schedules[c] EXCEPT !.revision = q.def.rules]
                  /\ Goto(r, IF Covered(st.programs, q.asked) THEN "tidy"
                             ELSE IF q.def.enabled THEN "pool" ELSE "answer")
    BY <1>0 DEF Examine
  <2>2. schedules[c] \in Schedule \cup {None}
    BY DEF EngineInvariant, TypeOK
  <2>3. st.programs = s
    BY <1>3, <2>1, <2>2 DEF Programs, Schedule
  <2> QED BY <2>1, <2>3
<1>5. SetLocals(r, q)
  BY <1>0 DEF Examine, SetLocals, EngineInvariant, TypeOK
<1>6. NoHole(pc[r], q, now, s)
  BY <1>0, <1>3 DEF OnAirInvariant
<1>7. NoHole(label, q, now, s)
  BY <1>4, <1>6 DEF NoHole, Covered, ReachedBy
<1> QED BY <1>0, <1>1, <1>2, <1>3, <1>4, <1>5, <1>7, QuietRequestOnAir DEF Steps

LEMMA FetchPoolOnAir ==
    ASSUME EngineInvariant, EngineInvariant', OnAirInvariant, NEW r \in Readers, FetchPool(r)
    PROVE  OnAirInvariant'
<1>0. PICK old \in Request : old = req[r]
  BY RequestType
<1>1. edits # 0
  BY SomethingWasEdited DEF FetchPool, Reading
<1>2. UNCHANGED <<now, Listed, schedFile, edits>>
  BY ListedUnchanged DEF FetchPool
<1>3. PICK lineup \in Seq(Nat \ {0}) : SetLocals(r, [old EXCEPT !.lineup = lineup])
  BY <1>0, RequestType, ConstantsAssumption DEF FetchPool, Definition
<1>4. PICK q \in Request : q = [old EXCEPT !.lineup = lineup] /\ q.doc = old.doc
  <2>1. /\ [old EXCEPT !.lineup = lineup] \in Request
        /\ [old EXCEPT !.lineup = lineup].doc = old.doc
    BY DEF Request
  <2> QED BY <2>1
<1>5. NoHole("plan", q, now, Listed[q.chan])
  BY <1>0, <1>4, PlainNoHole DEF OnAirInvariant, NoHole
<1>6. Goto(r, "plan")
  BY DEF FetchPool
<1> QED BY <1>1, <1>2, <1>3, <1>4, <1>5, <1>6, QuietRequestOnAir DEF Steps

LEMMA PlanOnAir ==
    ASSUME EngineInvariant, EngineInvariant', AskedInThePast, OnAirInvariant,
           NEW r \in Readers, Plan(r)
    PROVE  OnAirInvariant'
<1>0. PICK old \in Request, c \in Channels :
         old = req[r] /\ c = old.chan /\ old.asked \in Nat /\ old.added = <<>>
  BY RequestType DEF Plan, Reading, RequestInOrder
<1>1. edits # 0 /\ pc[r] # "idle"
  BY SomethingWasEdited DEF Plan, Reading
<1>2. CASE PanicHoldingLock(r) \/ LeaveAsIs(r)
  BY <1>1, <1>2, AnswersOnAir
<1>3. CASE ~PanicHoldingLock(r) /\ ~LeaveAsIs(r)
  <2>1. PICK s \in Seq(Program) : s = Listed[c] /\ s = Programs(c)
    BY ListedType
  <2>2. PICK from : from = IF s = <<>> THEN Genesis(old.asked)
                           ELSE Later(Genesis(old.asked), LastEnd(s))
    OBVIOUS
  <2>3. Genesis(old.asked) \in Nat /\ Genesis(old.asked) <= old.asked
    BY <1>0, GenesisType
  <2>4. s # <<>> => LastEnd(s) \in Nat
    BY LastEndIsTime
  <2>5. from \in Nat /\ Genesis(old.asked) <= from /\ ReachedBy(from, now, s)
    <3>1. old.asked <= now /\ now \in Nat
      BY <1>0 DEF AskedInThePast, EngineInvariant, TypeOK
    <3> QED BY <1>0, <2>2, <2>3, <2>4, <3>1 DEF Later, ReachedBy
  <2>6. /\ Goto(r, "fill") /\ UNCHANGED <<now, schedules, schedFile, edits>>
        /\ schedules[c] # None
        /\ SetLocals(r, [old EXCEPT !.slot = from, !.cursor = schedules[c].cursor])
    BY <1>0, <1>3, <2>1, <2>2 DEF Plan
  <2>7. PICK cursor \in Nat : cursor = schedules[c].cursor
    BY <2>6 DEF EngineInvariant, TypeOK, Schedule
  <2>8. PICK q \in Request :
           /\ q = [old EXCEPT !.slot = from, !.cursor = cursor]
           /\ q.doc = old.doc /\ q.slot = from /\ q.added = <<>>
           /\ q.asked = old.asked /\ q.chan = c
    <3>1. PICK q : q = [old EXCEPT !.slot = from, !.cursor = cursor]
      OBVIOUS
    <3>2. q \in Request
      BY <2>5, <3>1 DEF Request
    <3>3. /\ q.doc = old.doc /\ q.slot = from /\ q.added = <<>>
          /\ q.asked = old.asked /\ q.chan = c
      BY <1>0, <3>1 DEF Request
    <3> QED BY <3>1, <3>2, <3>3
  <2>9. Joins(q, now, s)
    <3>1. FilledFrom(q) = from /\ Len(q.added) = 0
      BY <2>8 DEF FilledFrom
    <3> QED BY <2>3, <2>5, <2>8, <3>1 DEF Joins, Airs
  <2>10. NoHole("fill", q, now, Listed[q.chan])
    BY <1>0, <2>1, <2>8, <2>9 DEF NoHole, OnAirInvariant
  <2>11. UNCHANGED <<now, Listed, schedFile, edits>>
    BY <2>6, ListedUnchanged
  <2> QED BY <1>1, <2>6, <2>7, <2>8, <2>10, <2>11, QuietRequestOnAir DEF Steps
<1> QED BY <1>2, <1>3

\* One more item, laid where the fill has come to.
LEMMA AiringInAppend ==
    ASSUME NEW s \in Seq(Program), NEW p \in Program, NEW t \in Nat,
           AiringAt(s, t) # {} \/ (p.start <= t /\ t < p.end)
    PROVE  AiringAt(Append(s, p), t) # {}
<1>1. /\ Len(Append(s, p)) = Len(s) + 1 /\ Append(s, p)[Len(s) + 1] = p
      /\ \A i \in 1..Len(s) : Append(s, p)[i] = s[i] /\ i \in 1..Len(s)+1
      /\ Len(s) + 1 \in 1..Len(s)+1
  OBVIOUS
<1>2. CASE AiringAt(s, t) # {}
  <2>1. PICK i \in 1..Len(s) : s[i].start <= t /\ t < s[i].end
    BY <1>2 DEF AiringAt
  <2>2. i \in AiringAt(Append(s, p), t)
    BY <1>1, <2>1 DEF AiringAt
  <2> QED BY <2>2
<1>3. CASE p.start <= t /\ t < p.end
  <2>1. Len(s) + 1 \in AiringAt(Append(s, p), t)
    BY <1>1, <1>3 DEF AiringAt
  <2> QED BY <2>1
<1> QED BY <1>2, <1>3

LEMMA FillJoins ==
    ASSUME NEW q \in Request, NEW new \in Request, NEW d \in Nat \ {0}, NEW p \in Program,
           NEW t \in Nat, NEW s \in Seq(Program),
           Joins(q, t, s), p.start = q.slot, p.end = q.slot + d,
           new.added = Append(q.added, p), new.slot = q.slot + d, new.asked = q.asked
    PROVE  Joins(new, t, s)
<1>1. PICK added \in Seq(Program), slot \in Nat : added = q.added /\ slot = q.slot
  BY DEF Request
<1>2. PICK more \in Seq(Program) :
         /\ more = Append(added, p) /\ more # <<>> /\ Len(more) = Len(added) + 1
         /\ more[Len(more)] = p /\ (added = <<>> => more[1] = p)
         /\ (added # <<>> => more[1] = added[1])
  <2>1. PICK more : more = Append(added, p)
    OBVIOUS
  <2>2. more \in Seq(Program) /\ Len(more) = Len(added) + 1
    BY <2>1
  <2>3. more[Len(added) + 1] = p /\ (Len(added) >= 1 => more[1] = added[1])
    BY <2>1
  <2>4. added = <<>> => Len(added) = 0
    OBVIOUS
  <2>5. added # <<>> => Len(added) >= 1
    OBVIOUS
  <2>6. more # <<>>
    BY <2>2
  <2>7. more[Len(more)] = p /\ (added = <<>> => more[1] = p)
    BY <2>2, <2>3, <2>4
  <2>8. added # <<>> => more[1] = added[1]
    BY <2>3, <2>5
  <2> QED BY <2>1, <2>2, <2>6, <2>7, <2>8
<1>3. FilledFrom(new) = FilledFrom(q)
  BY <1>1, <1>2 DEF FilledFrom
<1>4. PICK from \in Nat : from = FilledFrom(q)
  <2>1. CASE added = <<>>
    BY <1>1, <2>1 DEF FilledFrom
  <2>2. CASE added # <<>>
    <3>1. added[1] \in Program
      BY <2>2
    <3> QED BY <1>1, <2>2, <3>1 DEF FilledFrom, Program
  <2> QED BY <2>1, <2>2
<1>5. ASSUME NEW x \in from..slot+d-1 PROVE AiringAt(more, x) # {}
  <2>1. x \in Nat
    OBVIOUS
  <2>2. CASE x < slot
    <3>1. Airs(added, from, slot)
      BY <1>1, <1>4 DEF Joins
    <3>2. x \in from..slot-1
      BY <1>5, <2>2
    <3>3. AiringAt(added, x) # {}
      BY <3>1, <3>2 DEF Airs
    <3> QED BY <1>2, <2>1, <3>3, AiringInAppend
  <2>3. CASE ~(x < slot)
    <3>1. p.start <= x /\ x < p.end
      BY <1>1, <1>5, <2>1, <2>3
    <3>2. AiringAt(Append(added, p), x) # {}
      BY <2>1, <3>1, AiringInAppend
    <3> QED BY <1>2, <3>2
  <2> QED BY <2>2, <2>3
<1>6. Airs(new.added, FilledFrom(new), new.slot)
  BY <1>1, <1>2, <1>3, <1>4, <1>5 DEF Airs
<1>7. LastEnd(new.added) = new.slot
  BY <1>1, <1>2 DEF LastEnd
<1>8. Genesis(new.asked) + Len(new.added) <= new.slot
  <2>1. Genesis(q.asked) \in Nat
    BY GenesisType DEF Request
  <2>2. Genesis(q.asked) + Len(added) <= slot
    BY <1>1 DEF Joins
  <2> QED BY <1>1, <1>2, <2>1, <2>2
<1> QED BY <1>3, <1>6, <1>7, <1>8 DEF Joins

LEMMA DurationType ==
    ASSUME EngineInvariant, NEW r \in Readers, FillSlot(r)
    PROVE  req[r].lineup[(req[r].cursor % Len(req[r].lineup)) + 1] \in Nat \ {0}
<1>1. PICK lineup \in Seq(Nat \ {0}), cursor \in Nat :
         lineup = req[r].lineup /\ cursor = req[r].cursor /\ lineup # <<>>
  BY RequestType DEF FillSlot, Reading, RequestInOrder
<1>2. PICK n \in Nat \ {0} : n = Len(lineup)
  BY <1>1
<1>3. cursor % n \in 0..n-1
  BY <1>1, <1>2
<1>4. (cursor % n) + 1 \in 1..n
  BY <1>2, <1>3
<1> QED BY <1>1, <1>2, <1>4

LEMMA FillSlotOnAir ==
    ASSUME EngineInvariant, EngineInvariant', OnAirInvariant, Grid = 0,
           NEW r \in Readers, FillSlot(r)
    PROVE  OnAirInvariant'
<1>0. PICK old \in Request, c \in Channels : old = req[r] /\ c = old.chan
  BY RequestType
<1>1. edits # 0
  BY SomethingWasEdited DEF FillSlot, Reading
<1>2. UNCHANGED <<now, Listed, schedFile, edits>>
  BY ListedUnchanged DEF FillSlot
<1>3. PICK s \in Seq(Program) : s = Listed[c]
  BY ListedType
<1>4. PICK d \in Nat \ {0} : d = old.lineup[(old.cursor % Len(old.lineup)) + 1]
  BY <1>0, DurationType
<1>5. Advance(d) = d
  BY DEF Advance
<1>6. PICK p \in Program : /\ p = [start |-> old.slot, end |-> old.slot + d,
                                   rules |-> old.def.rules, ord |-> old.cursor]
                           /\ p.start = old.slot /\ p.end = old.slot + d
  <2>1. /\ old.slot \in Nat /\ old.slot + d \in Nat /\ old.cursor \in Nat
        /\ old.def.rules \in Rules
    BY DEF Request, Definition
  <2>2. PICK p : p = [start |-> old.slot, end |-> old.slot + d,
                      rules |-> old.def.rules, ord |-> old.cursor]
    OBVIOUS
  <2>3. p \in Program /\ p.start = old.slot /\ p.end = old.slot + d
    BY <2>1, <2>2 DEF Program
  <2> QED BY <2>2, <2>3
<1>7. PICK q : q = [old EXCEPT !.added = Append(@, p), !.cursor = @ + 1, !.slot = @ + d]
  OBVIOUS
<1>8. /\ q \in Request /\ q.added = Append(old.added, p) /\ q.slot = old.slot + d
      /\ q.asked = old.asked /\ q.doc = old.doc /\ q.chan = c
  <2>1. /\ Append(old.added, p) \in Seq(Program) /\ old.cursor + 1 \in Nat
        /\ old.slot + d \in Nat
    BY DEF Request
  <2> QED BY <1>0, <1>7, <2>1 DEF Request
<1>9. SetLocals(r, q)
  BY <1>0, <1>4, <1>5, <1>6, <1>7 DEF FillSlot
<1>10. Goto(r, "fill") /\ pc[r] = "fill"
  BY DEF FillSlot, Reading, Goto, EngineInvariant, TypeOK
<1>11. NoHole("fill", old, now, s)
  BY <1>0, <1>3, <1>10 DEF OnAirInvariant
<1>12. now \in Nat
  BY DEF EngineInvariant, TypeOK
<1>13. Joins(q, now, s)
  BY <1>6, <1>8, <1>11, <1>12, FillJoins DEF NoHole
<1>14. NoHole("fill", q, now, Listed[q.chan])
  BY <1>3, <1>8, <1>11, <1>13 DEF NoHole
<1> QED BY <1>1, <1>2, <1>8, <1>9, <1>10, <1>14, QuietRequestOnAir DEF Steps

LEMMA FillDoneOnAir ==
    ASSUME EngineInvariant, EngineInvariant', OnAirInvariant, Day + EPG <= MaxSlots,
           NEW r \in Readers, FillDone(r)
    PROVE  OnAirInvariant'
<1>0. PICK q \in Request : q = req[r]
  BY RequestType
<1>1. edits # 0
  BY SomethingWasEdited DEF FillDone, Reading
<1>2. UNCHANGED <<now, Listed, schedFile, edits>>
  BY ListedUnchanged DEF FillDone
<1>3. Goto(r, "commit") /\ SetLocals(r, q) /\ pc[r] = "fill"
  BY <1>0 DEF FillDone, Reading, SetLocals, EngineInvariant, TypeOK
<1>4. NoHole("fill", q, now, Listed[q.chan])
  BY <1>0, <1>3 DEF OnAirInvariant
<1>5. Horizon(q.asked) <= q.slot
  <2>1. PICK asked \in Nat, slot \in Nat, n \in Nat :
           asked = q.asked /\ slot = q.slot /\ n = Len(q.added)
    <3>1. q.asked \in Nat /\ q.slot \in Nat /\ q.added \in Seq(Program)
      BY DEF Request
    <3> QED BY <3>1
  <2>2. Genesis(asked) + n <= slot
    BY <1>4, <2>1 DEF NoHole, Joins
  <2>3. PICK m \in 0..Day-1 : m = asked % Day
    <3>1. asked % Day \in 0..Day-1
      BY ConstantsAssumption
    <3> QED BY <3>1
  <2>4. Genesis(asked) = asked - m
    BY <2>3 DEF Genesis
  <2>5. Horizon(asked) <= slot \/ MaxSlots <= n
    <3>1. ~MoreToFill(q)
      BY <1>0 DEF FillDone
    <3> QED BY <2>1, <3>1, ConstantsAssumption DEF MoreToFill, Horizon
  <2>6. Day \in Nat /\ EPG \in Nat /\ MaxSlots \in Nat
    BY ConstantsAssumption
  <2>7. MaxSlots <= n => asked + EPG <= slot
    BY <2>2, <2>3, <2>4, <2>6
  <2> QED BY <2>1, <2>5, <2>7 DEF Horizon
<1>6. NoHole("commit", q, now, Listed[q.chan])
  BY <1>4, <1>5 DEF NoHole
<1> QED BY <1>1, <1>2, <1>3, <1>6, QuietRequestOnAir DEF Steps

LEMMA SnapshotOnAir ==
    ASSUME EngineInvariant, EngineInvariant', OnAirInvariant, NEW r \in Readers,
           SnapshotForDisk(r)
    PROVE  OnAirInvariant'
<1>0. PICK old \in Request, c \in Channels : old = req[r] /\ c = old.chan
  BY RequestType
<1>1. edits # 0
  BY SomethingWasEdited DEF SnapshotForDisk, Reading
<1>2. UNCHANGED <<now, Listed, schedFile, edits>>
  BY ListedUnchanged DEF SnapshotForDisk
<1>3. PICK st \in Schedule \cup {None} : st = schedules[c]
  BY DEF EngineInvariant, TypeOK
<1>4. PICK q : q = [old EXCEPT !.doc = st]
  OBVIOUS
<1>5. q \in Request /\ q.doc = st /\ q.asked = old.asked /\ q.chan = c
  BY <1>0, <1>4 DEF Request
<1>6. PICK label \in {"answer", "write"} : Goto(r, label)
  BY DEF SnapshotForDisk
<1>7. SetLocals(r, q) /\ pc[r] = "persist"
  BY <1>0, <1>3, <1>4 DEF SnapshotForDisk, Reading
<1>8. NoHole("persist", old, now, Listed[c])
  BY <1>0, <1>7 DEF OnAirInvariant
<1>9. st # None => Upcoming(st.programs, now)
  <2>1. Listed[c] = Programs(c) /\ Upcoming(Listed[c], now)
    BY ListedType DEF OnAirInvariant
  <2> QED BY <1>3, <2>1 DEF Programs
<1>10. NoHole(label, q, now, Listed[q.chan])
  BY <1>5, <1>8, <1>9 DEF NoHole
<1> QED BY <1>1, <1>2, <1>5, <1>6, <1>7, <1>10, QuietRequestOnAir DEF Steps

\* A step of a request about channel c that leaves the other channels alone.
LEMMA ChannelOnAir ==
    ASSUME EngineInvariant, EngineInvariant', OnAirInvariant, NEW r \in Readers,
           NEW c \in Channels, NEW q \in Request, NEW label \in Steps,
           Goto(r, label), SetLocals(r, q),
           \A x \in Channels \ {c} : schedules'[x] = schedules[x],
           UNCHANGED <<now, schedFile, edits>>, edits # 0,
           Onward(Listed[c], now, Listed'[c], now),
           NoHole(label, q, now, Listed'[q.chan])
    PROVE  OnAirInvariant'
<1>1. now \in Nat
  BY DEF EngineInvariant, TypeOK
<1>2. ASSUME NEW x \in Channels PROVE Onward(Listed[x], now, Listed'[x], now')
  <2>1. CASE x = c
    BY <2>1
  <2>2. CASE x # c
    <3>1. Listed'[x] = Listed[x]
      BY <2>2 DEF Listed, Programs
    <3>2. Listed[x] \in Seq(Program) /\ Upcoming(Listed[x], now)
      BY ListedType DEF OnAirInvariant
    <3> QED BY <1>1, <3>1, <3>2, TimePasses
  <2> QED BY <2>1, <2>2
<1>3. \A x \in Channels :
         schedFile'[x] \notin {None, Torn} => Upcoming(schedFile'[x].programs, now')
  BY <1>1, FilesStay
<1>4. NoHole(label, q, now', Listed'[q.chan])
  OBVIOUS
<1> QED BY <1>2, <1>3, <1>4, RequestOnAir

LEMMA CommitOnAir ==
    ASSUME EngineInvariant, EngineInvariant', OnAirInvariant, NEW r \in Readers, Commit(r)
    PROVE  OnAirInvariant'
<1>0. PICK old \in Request, c \in Channels : old = req[r] /\ c = old.chan
  BY RequestType
<1>1. edits # 0 /\ pc[r] = "commit"
  BY SomethingWasEdited DEF Commit, Reading
<1>2. CASE PanicHoldingLock(r) \/ LeaveAsIs(r)
  BY <1>1, <1>2, AnswersOnAir
<1>3. CASE ~PanicHoldingLock(r) /\ ~LeaveAsIs(r)
  <2>1. PICK s \in Seq(Program) : s = Listed[c] /\ s = Programs(c) /\ Upcoming(s, now)
    BY ListedType DEF OnAirInvariant
  <2>2. /\ Goto(r, "prune") /\ UNCHANGED <<now, schedFile, edits>>
        /\ SetLocals(r, Fresh(c, old.def, old.asked))
        /\ ~Overtaken(s, old.added)
        /\ schedules[c] # None
        /\ schedules' = [schedules EXCEPT ![c].programs = @ \o old.added,
                                          ![c].cursor = old.cursor]
    BY <1>0, <1>3, <2>1 DEF Commit
  <2>3. \A x \in Channels \ {c} : schedules'[x] = schedules[x]
    BY <2>2 DEF EngineInvariant, TypeOK
  <2>4. Listed'[c] = s \o old.added
    <3>1. schedules[c] \in Schedule /\ s = schedules[c].programs
      BY <2>1, <2>2 DEF EngineInvariant, TypeOK, Programs
    <3>2. schedules'[c] = [schedules[c] EXCEPT !.programs = @ \o old.added,
                                               !.cursor = old.cursor]
      BY <2>2 DEF EngineInvariant, TypeOK
    <3>3. PICK programs \in Seq(Program), cursor \in Nat :
             programs = s \o old.added /\ cursor = old.cursor
      <4>1. PICK added \in Seq(Program) : added = old.added
        BY DEF Request
      <4>2. s \o added \in Seq(Program)
        OBVIOUS
      <4>3. old.cursor \in Nat
        BY DEF Request
      <4> QED BY <4>1, <4>2, <4>3
    <3>4. schedules'[c] = [schedules[c] EXCEPT !.programs = programs, !.cursor = cursor]
      BY <3>1, <3>2, <3>3
    <3>5. schedules'[c] # None
      <4>1. [schedules[c] EXCEPT !.programs = programs, !.cursor = cursor] # None
        BY <3>1, ScheduleIsThere
      <4> QED BY <3>4, <4>1
    <3>6. schedules'[c].programs = programs
      BY <3>1, <3>4 DEF Schedule
    <3> QED BY <3>3, <3>5, <3>6 DEF Listed, Programs
  <2>5. /\ Joins(old, now, s) /\ Horizon(old.asked) <= old.slot
        /\ Ordered(old.added) /\ now \in Nat
    <3>1. NoHole("commit", old, now, s)
      BY <1>0, <1>1, <2>1 DEF OnAirInvariant
    <3> QED BY <1>0, <3>1, RequestType DEF NoHole, RequestInOrder, EngineInvariant, TypeOK
  <2>6. /\ Onward(s, now, s \o old.added, now)
        /\ ReachedBy(Horizon(old.asked), now, s \o old.added)
    BY <2>1, <2>2, <2>5, CommitOnward
  <2>7. PICK q \in Request : q = Fresh(c, old.def, old.asked)
    BY FreshType DEF Request
  <2>8. q.chan = c /\ q.asked = old.asked /\ q.doc = None
    BY <2>7 DEF Fresh
  <2>9. NoHole("prune", q, now, Listed'[q.chan])
    BY <2>4, <2>6, <2>8 DEF NoHole
  <2>10. Onward(Listed[c], now, Listed'[c], now)
    BY <2>1, <2>4, <2>6
  <2>11. SetLocals(r, q) /\ "prune" \in Steps
    BY <2>2, <2>7 DEF Steps
  <2> QED BY <1>1, <2>2, <2>3, <2>9, <2>10, <2>11, ChannelOnAir
<1> QED BY <1>2, <1>3

LEMMA PruneOnAir ==
    ASSUME EngineInvariant, EngineInvariant', AskedInThePast, OnAirInvariant,
           NEW r \in Readers, Prune(r)
    PROVE  OnAirInvariant'
<1>0. PICK q \in Request, c \in Channels : q = req[r] /\ c = q.chan /\ q.asked \in Nat
  BY RequestType
<1>1. /\ edits # 0 /\ pc[r] \in {"prune", "tidy"} /\ UNCHANGED <<now, schedFile, edits>>
      /\ SetLocals(r, q)
  BY <1>0, SomethingWasEdited DEF Prune, SetLocals, EngineInvariant, TypeOK
<1>2. PICK s \in Seq(Program) : s = Listed[c] /\ s = Programs(c) /\ Upcoming(s, now)
  BY ListedType DEF OnAirInvariant
<1>3. PICK k \in 0..Len(s) :
         /\ PrunedAt(s, k, q.asked)
         /\ schedules' = IF k = 0 THEN schedules ELSE
                [schedules EXCEPT ![c].programs = SubSeq(@, k + 1, Len(@))]
         /\ Goto(r, IF pc[r] = "prune" \/ k > 0 THEN "persist" ELSE "answer")
  BY <1>0, <1>2 DEF Prune
<1>4. PICK label \in {"persist", "answer"} : Goto(r, label)
  BY <1>3
<1>5. q.asked <= now /\ now \in Nat
  BY <1>0 DEF AskedInThePast, EngineInvariant, TypeOK
<1>6. Onward(s, now, SubSeq(s, k + 1, Len(s)), now)
  BY <1>0, <1>2, <1>3, <1>5, PruneOnward
<1>7. Listed'[c] = SubSeq(s, k + 1, Len(s))
  <2>1. CASE k = 0
    <3>1. SubSeq(s, 1, Len(s)) = s
      OBVIOUS
    <3> QED BY <1>2, <1>3, <2>1, <3>1 DEF Listed, Programs
  <2>2. CASE k # 0
    <3>1. s # <<>>
      BY <1>3, <2>2
    <3>2. schedules[c] \in Schedule /\ s = schedules[c].programs
      BY <1>2, <3>1 DEF Programs, EngineInvariant, TypeOK
    <3>3. schedules'[c] = [schedules[c] EXCEPT !.programs = SubSeq(@, k + 1, Len(@))]
      BY <1>3, <2>2 DEF EngineInvariant, TypeOK
    <3>4. PICK programs \in Seq(Program) : programs = SubSeq(s, k + 1, Len(s))
      <4>1. k + 1 \in 1..Len(s)+1 /\ Len(s) \in 0..Len(s)
        BY <1>3
      <4>2. Ordered(s)
        BY <1>2, ListedType
      <4> QED BY <4>1, <4>2, OrderedSubSeq
    <3>5. schedules'[c] = [schedules[c] EXCEPT !.programs = programs]
      BY <3>2, <3>3, <3>4
    <3>6. schedules'[c] # None /\ schedules'[c].programs = programs
      BY <3>2, <3>5, ScheduleIsThere DEF Schedule
    <3> QED BY <3>4, <3>6 DEF Listed, Programs
  <2> QED BY <2>1, <2>2
<1>8. \A x \in Channels \ {c} : schedules'[x] = schedules[x]
  BY <1>3 DEF EngineInvariant, TypeOK
<1>9. NoHole(label, q, now, Listed'[q.chan])
  <2>1. NoHole(pc[r], q, now, s)
    BY <1>0, <1>2 DEF OnAirInvariant
  <2>2. Horizon(q.asked) \in Nat
    BY <1>0, ConstantsAssumption DEF Horizon
  <2>3. ReachedBy(Horizon(q.asked), now, Listed'[c])
    BY <1>1, <1>6, <1>7, <2>1, <2>2 DEF NoHole, Onward
  <2> QED BY <1>0, <2>1, <2>3 DEF NoHole
<1>10. Onward(Listed[c], now, Listed'[c], now)
  BY <1>2, <1>6, <1>7
<1>11. label \in Steps
  BY DEF Steps
<1> QED BY <1>1, <1>4, <1>8, <1>9, <1>10, <1>11, ChannelOnAir

LEMMA WriteOnAir ==
    ASSUME EngineInvariant, EngineInvariant', OnAirInvariant, NEW r \in Readers,
           WriteSchedule(r)
    PROVE  OnAirInvariant'
<1>0. PICK old \in Request, c \in Channels : old = req[r] /\ c = old.chan
  BY RequestType
<1>1. /\ edits # 0 /\ Goto(r, "answer") /\ UNCHANGED <<now, schedules, edits>>
      /\ pc[r] = "write"
  BY SomethingWasEdited DEF WriteSchedule
<1>2. PICK q : q = [old EXCEPT !.doc = None]
  OBVIOUS
<1>3. q \in Request /\ q.doc = None
  BY <1>2 DEF Request
<1>4. SetLocals(r, q)
  BY <1>0, <1>2 DEF WriteSchedule
<1>5. UNCHANGED Listed
  BY <1>1, ListedUnchanged
<1>6. now \in Nat /\ now' = now
  BY <1>1 DEF EngineInvariant, TypeOK
<1>7. ASSUME NEW x \in Channels PROVE Onward(Listed[x], now, Listed'[x], now')
  <2>1. Listed[x] \in Seq(Program) /\ Upcoming(Listed[x], now)
    BY ListedType DEF OnAirInvariant
  <2> QED BY <1>5, <1>6, <2>1, TimePasses
<1>8. ASSUME NEW x \in Channels, schedFile'[x] \notin {None, Torn}
      PROVE  Upcoming(schedFile'[x].programs, now')
  <2>1. PICK content \in {old.doc, schedFile[c], Torn} :
           schedFile' = [schedFile EXCEPT ![c] = content]
    BY <1>0 DEF WriteSchedule
  <2>2. NoHole("write", old, now, Listed[c])
    BY <1>0, <1>1 DEF OnAirInvariant
  <2>3. content \notin {None, Torn} => Upcoming(content.programs, now)
    BY <2>1, <2>2 DEF NoHole, OnAirInvariant
  <2>4. schedFile'[x] = IF x = c THEN content ELSE schedFile[x]
    BY <2>1 DEF EngineInvariant, TypeOK
  <2> QED BY <1>6, <1>8, <2>3, <2>4 DEF OnAirInvariant
<1>9. NoHole("answer", q, now', Listed'[q.chan])
  BY <1>3, PlainNoHole
<1>10. "answer" \in Steps
  BY DEF Steps
<1> QED BY <1>1, <1>3, <1>4, <1>7, <1>8, <1>9, <1>10, RequestOnAir

LEMMA TheRestOnAir ==
    ASSUME EngineInvariant, EngineInvariant', OnAirInvariant,
           Tick \/ (\E o \in Owners : OwnerStep(o)) \/ UNCHANGED vars
    PROVE  OnAirInvariant'
<1>1. now \in Nat /\ now' \in Nat /\ now <= now' /\ UNCHANGED <<schedules, pc, req, edits>>
  <2>1. now \in Nat
    BY DEF EngineInvariant, TypeOK
  <2>2. CASE Tick
    BY <2>1, <2>2 DEF Tick
  <2>3. ASSUME NEW o \in Owners, OwnerStep(o)
        PROVE  UNCHANGED <<now, schedules, pc, req, edits>>
    BY <2>3 DEF OwnerStep, ListChannels, WriteChannels, RemoveScheduleFile
  <2>4. CASE UNCHANGED <<now, schedules, pc, req, edits>>
    BY <2>1, <2>4
  <2> QED BY <2>2, <2>3, <2>4 DEF vars
<1>2. UNCHANGED Listed
  BY <1>1, ListedUnchanged
<1>3. ASSUME NEW c \in Channels PROVE Onward(Listed[c], now, Listed[c], now')
  <2>1. Listed[c] \in Seq(Program) /\ Upcoming(Listed[c], now)
    BY ListedType DEF OnAirInvariant
  <2> QED BY <1>1, <2>1, TimePasses
<1>4. \A c \in Channels : Upcoming(Listed'[c], now')
  BY <1>2, <1>3 DEF Onward
<1>5. ASSUME NEW c \in Channels, schedFile'[c] \notin {None, Torn}
      PROVE  Upcoming(schedFile'[c].programs, now')
  <2>1. schedFile'[c] = schedFile[c]
    BY <1>5 DEF Tick, OwnerStep, ListChannels, WriteChannels, RemoveScheduleFile, vars,
                EngineInvariant, TypeOK
  <2>2. PICK s \in Seq(Program) : s = schedFile[c].programs
    BY <1>5, <2>1 DEF EngineInvariant, TypeOK, Schedule
  <2>3. Upcoming(s, now)
    BY <1>5, <2>1, <2>2 DEF OnAirInvariant
  <2> QED BY <1>1, <2>1, <2>2, <2>3, TimePasses DEF Onward
<1>6. ASSUME NEW r \in Readers
      PROVE  NoHole(pc'[r], req'[r], now', Listed'[req'[r].chan])
  <2>1. PICK c \in Channels : c = req[r].chan
    BY RequestType
  <2>2. /\ req[r] \in Request /\ Listed[c] \in Seq(Program)
        /\ NoHole(pc[r], req[r], now, Listed[c])
    BY <2>1, RequestType, ListedType DEF OnAirInvariant
  <2>3. NoHole(pc[r], req[r], now', Listed[c])
    BY <1>1, <1>3, <2>2, NoHoleLater
  <2> QED BY <1>1, <1>2, <2>1, <2>3
<1>7. edits' = 0 => NothingYet'
  <2> SUFFICES ASSUME edits = 0 PROVE NothingYet'
    BY <1>1
  <2>1. NothingYet
    BY DEF OnAirInvariant
  <2>2. UNCHANGED <<channels, schedFile, channelsFile, owner>>
    BY <2>1 DEF NothingYet, Tick, OwnerStep, ListChannels, WriteChannels,
                RemoveScheduleFile, vars
  <2> QED BY <1>1, <2>1, <2>2 DEF NothingYet
<1> QED BY <1>4, <1>5, <1>6, <1>7 DEF OnAirInvariant

LEMMA FirstEditOnAir ==
    ASSUME EngineInvariant, EngineInvariant', OnAirInvariant, MaxEdits <= 1,
           NEW o \in Owners, NEW c \in Channels, OwnerRequest(o, c)
    PROVE  OnAirInvariant'
<1>1. /\ edits < MaxEdits /\ edits' = edits + 1 /\ edits \in Nat
      /\ UNCHANGED <<now, pc, req, schedFile>>
  BY DEF OwnerRequest, SaveChannel, DeleteChannel, Edits, EngineInvariant, TypeOK
<1>2. NothingYet /\ edits' # 0
  BY <1>1, ConstantsAssumption DEF OnAirInvariant
<1>3. schedules' = schedules
  <2>1. schedules[c] = None
    BY <1>2 DEF NothingYet
  <2>2. schedules' = [schedules EXCEPT ![c] = None]
    BY <2>1 DEF OwnerRequest, SaveChannel, DeleteChannel, Edited
  <2> QED BY <2>1, <2>2 DEF EngineInvariant, TypeOK
<1>4. UNCHANGED Listed
  BY <1>3, ListedUnchanged
<1> QED BY <1>1, <1>2, <1>4 DEF OnAirInvariant

LEMMA RestartOnAir ==
    ASSUME EngineInvariant, EngineInvariant', OnAirInvariant, Restart
    PROVE  OnAirInvariant'
<1>1. ASSUME NEW c \in Channels PROVE Upcoming(Listed'[c], now')
  <2>1. schedules'[c] = Loaded(c) /\ now' = now
    BY DEF Restart
  <2>2. CASE Loaded(c) = None
    <3>1. Listed'[c] = <<>>
      BY <2>1, <2>2 DEF Listed, Programs
    <3> QED BY <3>1 DEF Upcoming
  <2>3. CASE Loaded(c) # None
    <3>1. schedFile[c] \notin {None, Torn} /\ Loaded(c) = schedFile[c]
      BY <2>3 DEF Loaded
    <3>2. Listed'[c] = schedFile[c].programs
      BY <2>1, <2>3, <3>1 DEF Listed, Programs
    <3> QED BY <2>1, <3>1, <3>2 DEF OnAirInvariant
  <2> QED BY <2>2, <2>3
<1>2. \A c \in Channels :
         schedFile'[c] \notin {None, Torn} => Upcoming(schedFile'[c].programs, now')
  BY DEF Restart, OnAirInvariant
<1>3. ASSUME NEW r \in Readers
      PROVE  NoHole(pc'[r], req'[r], now', Listed'[req'[r].chan])
  <2>1. pc'[r] = "idle" /\ req'[r] = NoRequest
    BY DEF Restart
  <2>2. NoHole("idle", NoRequest, now', Listed'[NoRequest.chan])
    BY PlainNoHole, FreshHasNoDoc
  <2> QED BY <2>1, <2>2
<1>4. edits' = 0 => NothingYet'
  <2> SUFFICES ASSUME edits = 0 PROVE NothingYet'
    BY DEF Restart
  <2>1. NothingYet
    BY DEF OnAirInvariant
  <2>2. LoadedChannels = NoChannels
    BY <2>1 DEF NothingYet, LoadedChannels
  <2>3. \A o \in Owners : owner'[o].step = "idle"
    BY IdleIsDone DEF Restart
  <2> QED BY <2>1, <2>2, <2>3 DEF NothingYet, Restart, Loaded, NoChannels
<1> QED BY <1>1, <1>2, <1>3, <1>4 DEF OnAirInvariant

LEMMA OnAirInitially == Init => OnAirInvariant
<1> SUFFICES ASSUME Init PROVE OnAirInvariant
  OBVIOUS
<1>1. ASSUME NEW r \in Readers
      PROVE  NoHole(pc[r], req[r], now, Listed[req[r].chan])
  <2>1. pc[r] = "idle" /\ req[r] = NoRequest
    BY DEF Init
  <2>2. NoHole("idle", NoRequest, now, Listed[NoRequest.chan])
    BY PlainNoHole, FreshHasNoDoc
  <2> QED BY <2>1, <2>2
<1>2. \A c \in Channels : Upcoming(Listed[c], now)
  BY DEF Init, Listed, Programs, Upcoming
<1>3. NothingYet
  BY IdleIsDone DEF Init, NothingYet, NoChannels
<1>4. \A c \in Channels : schedFile[c] = None
  BY DEF Init
<1> QED BY <1>1, <1>2, <1>3, <1>4 DEF OnAirInvariant

LEMMA OnAirStays ==
    ASSUME EngineInvariant, AskedInThePast, OnAirInvariant, [Next]_vars,
           Grid = 0, MaxEdits <= 1, Day + EPG <= MaxSlots
    PROVE  OnAirInvariant'
<1>1. EngineInvariant'
  BY InvariantIsInductive
<1>2. ASSUME NEW r \in Readers, ReaderStep(r) PROVE OnAirInvariant'
  <2>1. CASE Answer(r)
    BY <1>1, <2>1, AnswersOnAir DEF Answer, Reading
  <2> QED BY <1>1, <1>2, <2>1, ExamineOnAir, FetchPoolOnAir, PlanOnAir, FillSlotOnAir,
             FillDoneOnAir, CommitOnAir, PruneOnAir, SnapshotOnAir, WriteOnAir
          DEF ReaderStep
<1>3. ASSUME NEW r \in Readers, NEW c \in Channels, ReadDefinition(r, c)
      PROVE  OnAirInvariant'
  BY <1>1, <1>3, ReadDefinitionOnAir
<1>4. ASSUME NEW o \in Owners, NEW c \in Channels, OwnerRequest(o, c)
      PROVE  OnAirInvariant'
  BY <1>1, <1>4, FirstEditOnAir
<1> QED BY <1>1, <1>2, <1>3, <1>4, RestartOnAir, TheRestOnAir DEF Next

\* ensureWindow, on a channel without a slot grid that is not edited again and
\* whose fill is not cut short by linearMaxSlots: whoever extended it, and however
\* many asked at once, an answer that follows a fill has a programme on air.
THEOREM SomethingIsOnAir ==
    ASSUME Grid = 0, MaxEdits <= 1, Day + EPG <= MaxSlots
    PROVE  Spec => []SomethingOnAir
<1>1. EngineInvariant /\ AskedInThePast /\ OnAirInvariant /\ [Next]_vars =>
         AskedInThePast' /\ OnAirInvariant'
  BY AskedStays, OnAirStays
<1>2. EngineInvariant /\ OnAirInvariant => SomethingOnAir
  <2> SUFFICES ASSUME EngineInvariant, OnAirInvariant, NEW r \in Readers,
                      pc[r] \in {"persist", "write"}, now < Horizon(req[r].asked)
               PROVE  AiringAt(Programs(req[r].chan), now) # {}
    BY DEF SomethingOnAir
  <2>1. PICK c \in Channels : c = req[r].chan /\ req[r].asked \in Nat
    BY RequestType
  <2>2. PICK s \in Seq(Program) : s = Listed[c] /\ s = Programs(c) /\ now \in Nat
    BY ListedType
  <2>3. Horizon(req[r].asked) \in Nat
    BY <2>1, ConstantsAssumption DEF Horizon
  <2>4. ReachedBy(Horizon(req[r].asked), now, s) /\ Upcoming(s, now)
    BY <2>1, <2>2 DEF OnAirInvariant, NoHole
  <2>5. s # <<>> /\ now < LastEnd(s)
    BY <2>2, <2>3, <2>4, LastEndIsTime DEF ReachedBy
  <2>6. AiringAt(s, now) # {}
    BY <2>2, <2>4, <2>5, LastEndIsTime DEF Upcoming, Airs
  <2> QED BY <2>1, <2>2, <2>6
<1> QED BY <1>1, <1>2, AskedInitially, OnAirInitially, InvariantHolds, PTL DEF Spec
=============================================================================
