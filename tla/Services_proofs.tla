---------------------------- MODULE Services_proofs ----------------------------
(***************************************************************************)
(* Proofs about components of the server and the bot that MCServices       *)
(* checks as parts of one state space: for each, an inductive invariant of *)
(* the component alone, for every value of its constants, and at the end   *)
(* what follows for the composition.                                       *)
(***************************************************************************)
EXTENDS MCServices, FiniteSetTheorems, TLAPS

-----------------------------------------------------------------------------
(* The scheduled shutdown.  The invariant ties the request on its way to    *)
(* the check that let it go: it was built with the lead and the allowance    *)
(* to spare, and it has been on its way no longer than that.                 *)

\* A timestamp is a number whatever the schedule.
LEMMA ScheduleTargetIsTime ==
    ASSUME Schedule!ScheduleConstants, NEW s \in Schedule!Schedules, NEW t \in Nat
    PROVE  /\ Schedule!Target(s, t) \in Int /\ s.at \in Nat /\ s.at * Minute \in Nat
           /\ Lead * Minute \in Nat /\ Minute \in Nat \ {0} /\ Lead \in Nat \ {0}
           /\ Allowance \in Nat \ {0} /\ Allowance <= Minute
           /\ s.mode \in {"after_minutes", "today", "tomorrow", "absolute"}
<1>1. Minute \in Nat \ {0} /\ ScheduleDay \in Nat \ {0} /\ Allowance \in Nat \ {0}
        /\ Lead \in Nat \ {0}
      /\ Allowance <= Minute /\ ScheduleHorizon \in Nat
  BY DEF Schedule!ScheduleConstants
<1>2. ScheduleDay * Minute \in Nat \ {0} /\ ScheduleHorizon \div Minute \in Int
        /\ Lead * Minute \in Nat
  BY <1>1
<1>3. s.at \in Nat /\ s.mode \in {"after_minutes", "today", "tomorrow", "absolute"}
  BY <1>1, <1>2 DEF Schedule!Schedules
<1>4. s.at * Minute \in Nat /\ (ScheduleDay + s.at) * Minute \in Nat
  BY <1>1, <1>3
<1>5. Schedule!Midnight(t) \in Int
  BY <1>2 DEF Schedule!Midnight
<1>6. Schedule!Target(s, t) \in Int
  BY <1>1, <1>3, <1>4, <1>5 DEF Schedule!Target
<1> QED
  BY <1>1, <1>2, <1>3, <1>4, <1>6

\* The invariant: the request on its way, and the card before it.
ScheduleInTime ==
    /\ schedulePc = "inflight" =>
        /\ final >= sent + Lead * Minute + Allowance
        /\ scheduleClock <= sent + Allowance
    /\ schedulePc # "rejected"
    /\ Schedule!ShortestDelayHolds

LEMMA ScheduleTypeInit == Schedule!ScheduleConstants /\ Schedule!Init => Schedule!TypeOK
BY DEF Schedule!ScheduleConstants, Schedule!Init, Schedule!TypeOK, Schedule!Schedules,
   Schedule!None

LEMMA ScheduleTypeStep ==
    Schedule!ScheduleConstants /\ Schedule!TypeOK /\ [Schedule!Next]_(Schedule!vars)
      => Schedule!TypeOK'
<1> SUFFICES ASSUME Schedule!ScheduleConstants, Schedule!TypeOK, [Schedule!Next]_(Schedule!vars)
    PROVE Schedule!TypeOK'
  OBVIOUS
<1>1. scheduleClock \in Nat /\ schedule \in Schedule!Schedules
  BY DEF Schedule!TypeOK, Schedule!ScheduleConstants
<1>2. Schedule!Target(schedule, scheduleClock) \in Int
  BY <1>1, ScheduleTargetIsTime
<1>3. CASE Schedule!Tick
  BY <1>1, <1>3 DEF Schedule!Tick, Schedule!TypeOK, Schedule!ScheduleConstants
<1>4. ASSUME NEW s \in Schedule!Schedules, Schedule!Propose(s) PROVE Schedule!TypeOK'
  BY <1>4 DEF Schedule!Propose, Schedule!TypeOK
<1>5. CASE Schedule!Draft
  BY <1>2, <1>5 DEF Schedule!Draft, Schedule!TypeOK
<1>6. CASE Schedule!Approve
  BY <1>6 DEF Schedule!Approve, Schedule!TypeOK
<1>7. CASE Schedule!Finalize
  BY <1>2, <1>7 DEF Schedule!Finalize, Schedule!TypeOK
<1>8. CASE Schedule!Arrive
  BY <1>8 DEF Schedule!Arrive, Schedule!TypeOK
<1>9. CASE UNCHANGED Schedule!vars
  BY <1>9 DEF Schedule!vars, Schedule!TypeOK
<1> QED
  BY <1>3, <1>4, <1>5, <1>6, <1>7, <1>8, <1>9 DEF Schedule!Next

\* A longer delay than the minimum leaves the allowance to spare, and the minimum is padded by it.
LEMMA ScheduleDelayResolves ==
    ASSUME Schedule!ScheduleConstants, NEW s \in Schedule!Schedules, NEW t \in Nat,
           s.mode = "after_minutes", s.at >= Lead
    PROVE  Schedule!Resolves(s, t)
<1>1. Schedule!Target(s, t) = t + s.at * Minute + (IF s.at = Lead THEN Allowance ELSE 0)
  BY DEF Schedule!Target
<1>2. CASE s.at = Lead
  BY <1>1, <1>2, ScheduleTargetIsTime DEF Schedule!Resolves
<1>3. CASE s.at # Lead
  <2>1. PICK n \in Nat : s.at = Lead + 1 + n
    <3>1. s.at - Lead - 1 \in Nat /\ s.at = Lead + 1 + (s.at - Lead - 1)
      BY <1>3, ScheduleTargetIsTime
    <3> QED
      BY <3>1
  <2>2. s.at * Minute = Lead * Minute + Minute + n * Minute /\ n * Minute \in Nat
    BY <2>1, ScheduleTargetIsTime
  <2>3. s.at * Minute >= Lead * Minute + Allowance
    BY <2>2, ScheduleTargetIsTime
  <2> QED
    BY <1>1, <1>3, <2>3, ScheduleTargetIsTime DEF Schedule!Resolves
<1> QED
  BY <1>2, <1>3

LEMMA ScheduleInTimeStep ==
    Schedule!ScheduleConstants /\ Schedule!TypeOK /\ ScheduleInTime
      /\ [Schedule!Next]_(Schedule!vars) => ScheduleInTime'
<1> SUFFICES ASSUME Schedule!ScheduleConstants, Schedule!TypeOK, ScheduleInTime,
      [Schedule!Next]_(Schedule!vars) PROVE ScheduleInTime'
  OBVIOUS
<1>1. /\ scheduleClock \in Nat /\ schedule \in Schedule!Schedules /\ sent \in Int /\ final \in Int
      /\ Allowance \in Nat /\ Lead * Minute \in Nat
  BY ScheduleTargetIsTime DEF Schedule!TypeOK, Schedule!ScheduleConstants
<1>2. schedule.mode = "after_minutes" /\ schedule.at >= Lead
        => Schedule!Resolves(schedule, scheduleClock)
  BY <1>1, ScheduleDelayResolves
<1>3. schedule.at \in Nat /\ Lead \in Nat
  BY <1>1, ScheduleTargetIsTime
<1>4. CASE Schedule!Tick
  BY <1>1, <1>4 DEF Schedule!Tick, ScheduleInTime, Schedule!ShortestDelayHolds
<1>5. ASSUME NEW s \in Schedule!Schedules, Schedule!Propose(s) PROVE ScheduleInTime'
  <2>1. s.mode = "after_minutes" /\ s.at >= Lead => Schedule!Resolves(s, scheduleClock)
    BY <1>1, ScheduleDelayResolves
  <2>2. s.at \in Nat
    BY <1>1, ScheduleTargetIsTime
  <2> QED
    BY <1>3, <1>5, <2>1, <2>2 DEF Schedule!Propose, ScheduleInTime, Schedule!ShortestDelayHolds
<1>6. CASE Schedule!Draft
  BY <1>2, <1>3, <1>6 DEF Schedule!Draft, ScheduleInTime, Schedule!ShortestDelayHolds
<1>7. CASE Schedule!Approve
  BY <1>7 DEF Schedule!Approve, ScheduleInTime, Schedule!ShortestDelayHolds
<1>8. CASE Schedule!Finalize
  BY <1>1, <1>2, <1>3, <1>8
    DEF Schedule!Finalize, ScheduleInTime, Schedule!ShortestDelayHolds, Schedule!Resolves
<1>9. CASE Schedule!Arrive
  BY <1>1, <1>9 DEF Schedule!Arrive, ScheduleInTime, Schedule!ShortestDelayHolds
<1>10. CASE UNCHANGED Schedule!vars
  BY <1>10 DEF Schedule!vars, ScheduleInTime, Schedule!ShortestDelayHolds
<1> QED
  BY <1>4, <1>5, <1>6, <1>7, <1>8, <1>9, <1>10 DEF Schedule!Next

\* A request the program let go is accepted upstream, if it is not longer on its way than the
\* allowance.
THEOREM ScheduleAccepted ==
    ASSUME Schedule!ScheduleConstants
    PROVE  Schedule!Spec => []Schedule!UpstreamAccepts
<1>1. Schedule!Init => Schedule!TypeOK /\ ScheduleInTime
  BY ScheduleTypeInit DEF Schedule!Init, ScheduleInTime, Schedule!ShortestDelayHolds
<1>2. Schedule!TypeOK /\ ScheduleInTime /\ [Schedule!Next]_(Schedule!vars)
        => Schedule!TypeOK' /\ ScheduleInTime'
  BY ScheduleTypeStep, ScheduleInTimeStep
<1>3. ScheduleInTime => Schedule!UpstreamAccepts
  BY DEF ScheduleInTime, Schedule!UpstreamAccepts
<1> QED
  BY <1>1, <1>2, <1>3, PTL DEF Schedule!Spec

\* A delay of at least the minimum is refused at no point of the workflow.
THEOREM ScheduleShortestDelayAccepted ==
    ASSUME Schedule!ScheduleConstants
    PROVE  Schedule!Spec => []Schedule!ShortestDelayHolds
<1>1. Schedule!Init => Schedule!TypeOK /\ ScheduleInTime
  BY ScheduleTypeInit DEF Schedule!Init, ScheduleInTime, Schedule!ShortestDelayHolds
<1>2. Schedule!TypeOK /\ ScheduleInTime /\ [Schedule!Next]_(Schedule!vars)
        => Schedule!TypeOK' /\ ScheduleInTime'
  BY ScheduleTypeStep, ScheduleInTimeStep
<1>3. ScheduleInTime => Schedule!ShortestDelayHolds
  BY DEF ScheduleInTime
<1> QED
  BY <1>1, <1>2, <1>3, PTL DEF Schedule!Spec

\* The variables keep their types.
THEOREM ScheduleTypeCorrect ==
    ASSUME Schedule!ScheduleConstants
    PROVE  Schedule!Spec => []Schedule!TypeOK
<1>1. Schedule!Init => Schedule!TypeOK
  BY ScheduleTypeInit
<1>2. Schedule!TypeOK /\ [Schedule!Next]_(Schedule!vars) => Schedule!TypeOK'
  BY ScheduleTypeStep
<1> QED
  BY <1>1, <1>2, PTL DEF Schedule!Spec

-----------------------------------------------------------------------------
(* What a schedule means survives the wait for the approval.                 *)

LEMMA ScheduleRemainderOfSum ==
    ASSUME NEW P \in Nat \ {0}, NEW q \in Int, NEW a \in 0..(P - 1)
    PROVE  (q * P + a) % P = a
<1> DEFINE x == q * P + a
<1>1. q * P \in Int /\ x \in Int /\ x = q * P + a
  OBVIOUS
<1> HIDE DEF x
<1>2. x % P \in 0..(P - 1) /\ x \div P \in Int
  BY <1>1
<1>3. x = P * (x \div P) + (x % P)
  BY <1>1
<1>4. PICK d \in Int : d = (x \div P) - q /\ P * (x \div P) = P * q + P * d
  BY <1>2
<1>5. P * d = a - (x % P)
  BY <1>1, <1>2, <1>3, <1>4
<1>6. d = 0
  <2>1. CASE d >= 1
    <3>1. P * d >= P
      BY <2>1
    <3> QED
      BY <1>2, <1>5, <3>1
  <2>2. CASE d <= -1
    <3>1. P * d <= -P
      BY <2>2
    <3> QED
      BY <1>2, <1>5, <3>1
  <2> QED
    BY <2>1, <2>2
<1> QED
  BY <1>2, <1>5, <1>6 DEF x

\* Midnight is a whole number of days.
LEMMA ScheduleMidnightIsWhole ==
    ASSUME NEW P \in Nat \ {0}, NEW t \in Nat
    PROVE  \E q \in Int : t - (t % P) = q * P
<1>1. t \div P \in Int /\ t % P \in Int
  OBVIOUS
<1>2. t = P * (t \div P) + (t % P)
  OBVIOUS
<1>3. t - (t % P) = (t \div P) * P
  BY <1>1, <1>2
<1> QED
  BY <1>1, <1>3

\* A time of day resolves to that time of day.
LEMMA ScheduleTimeOfDay ==
    ASSUME Schedule!ScheduleConstants, NEW s \in Schedule!Schedules, NEW t \in Nat,
      s.mode \in {"today", "tomorrow"}
    PROVE  Schedule!Target(s, t) % (ScheduleDay * Minute) = s.at * Minute
<1> DEFINE P == ScheduleDay * Minute
           a == s.at * Minute
<1>1. ScheduleDay \in Nat \ {0} /\ Minute \in Nat \ {0} /\ s.at \in 0..(ScheduleDay - 1)
  BY DEF Schedule!ScheduleConstants, Schedule!Schedules
<1>2. P \in Nat \ {0} /\ a \in 0..(P - 1)
  <2>1. PICK n \in Nat : ScheduleDay = s.at + 1 + n
    <3>1. ScheduleDay - s.at - 1 \in Nat /\ ScheduleDay = s.at + 1 + (ScheduleDay - s.at - 1)
      BY <1>1
    <3> QED
      BY <3>1
  <2>2. P = a + Minute + n * Minute /\ a \in Nat /\ n * Minute \in Nat
    BY <1>1, <2>1
  <2> QED
    BY <1>1, <2>2
<1>3. PICK q \in Int : Schedule!Midnight(t) = q * P
  BY <1>2, ScheduleMidnightIsWhole DEF Schedule!Midnight
<1>4. CASE s.mode = "today"
  BY <1>2, <1>3, <1>4, ScheduleRemainderOfSum DEF Schedule!Target
<1>5. CASE s.mode = "tomorrow"
  <2>1. Schedule!Target(s, t) = q * P + (ScheduleDay + s.at) * Minute
    BY <1>3, <1>5 DEF Schedule!Target
  <2>2. (ScheduleDay + s.at) * Minute = P + a
    BY <1>1
  <2>3. q * P + P = (q + 1) * P
    BY <1>2
  <2> HIDE DEF P, a
  <2>4. Schedule!Target(s, t) = (q + 1) * P + a
    <3>1. q * P \in Int /\ P \in Int /\ a \in Int
      BY <1>2
    <3> QED
      BY <2>1, <2>2, <2>3, <3>1
  <2>5. q + 1 \in Int
    OBVIOUS
  <2>6. ((q + 1) * P + a) % P = a
    BY <1>2, <2>5, ScheduleRemainderOfSum
  <2>7. Schedule!Target(s, t) % P = a
    BY <2>4, <2>6
  <2> QED
    BY <2>7 DEF P, a
<1> QED
  BY <1>4, <1>5

ScheduleMeant ==
    /\ schedulePc \in {"asking", "approved", "inflight", "set"} /\ schedule.mode = "absolute" =>
        preview = schedule.at * Minute
    /\ schedulePc = "approved" => approved <= scheduleClock
    /\ Schedule!KeepsItsMeaning

LEMMA ScheduleMeantStep ==
    Schedule!ScheduleConstants /\ Schedule!TypeOK /\ ScheduleMeant
      /\ [Schedule!Next]_(Schedule!vars) => ScheduleMeant'
<1> SUFFICES ASSUME Schedule!ScheduleConstants, Schedule!TypeOK, ScheduleMeant,
      [Schedule!Next]_(Schedule!vars) PROVE ScheduleMeant'
  OBVIOUS
<1>1. /\ scheduleClock \in Nat /\ schedule \in Schedule!Schedules /\ approved \in Int
      /\ Allowance \in Nat
      /\ schedule.mode \in {"after_minutes", "today", "tomorrow", "absolute"}
      /\ schedule.at * Minute \in Nat
  BY ScheduleTargetIsTime DEF Schedule!TypeOK, Schedule!ScheduleConstants
<1>2. CASE Schedule!Tick
  BY <1>1, <1>2 DEF Schedule!Tick, ScheduleMeant, Schedule!KeepsItsMeaning
<1>3. ASSUME NEW s \in Schedule!Schedules, Schedule!Propose(s) PROVE ScheduleMeant'
  BY <1>3 DEF Schedule!Propose, ScheduleMeant, Schedule!KeepsItsMeaning
<1>4. CASE Schedule!Draft
  BY <1>1, <1>4 DEF Schedule!Draft, Schedule!Target, ScheduleMeant, Schedule!KeepsItsMeaning
<1>5. CASE Schedule!Approve
  BY <1>1, <1>5 DEF Schedule!Approve, ScheduleMeant, Schedule!KeepsItsMeaning
<1>6. CASE Schedule!Finalize
  <2>1. CASE schedulePc' = "refused"
    BY <1>6, <2>1 DEF Schedule!Finalize, ScheduleMeant, Schedule!KeepsItsMeaning
  <2>2. CASE schedulePc' = "inflight"
    <3>1. /\ final' = Schedule!Target(schedule, scheduleClock) /\ sent' = scheduleClock
          /\ approved' = approved
          /\ preview' = preview /\ schedule' = schedule /\ approved <= scheduleClock
      BY <1>6, <2>2 DEF Schedule!Finalize, ScheduleMeant
    <3>2. CASE schedule.mode = "after_minutes"
      <4>1. final' - schedule.at * Minute \in approved..(scheduleClock + Allowance)
        BY <1>1, <3>1, <3>2 DEF Schedule!Target
      <4> QED
        BY <2>2, <3>1, <3>2, <4>1 DEF ScheduleMeant, Schedule!KeepsItsMeaning
    <3>3. CASE schedule.mode = "absolute"
      <4>1. preview = schedule.at * Minute
        BY <1>6, <3>3 DEF Schedule!Finalize, ScheduleMeant
      <4> QED
        BY <2>2, <3>1, <3>3, <4>1 DEF Schedule!Target, ScheduleMeant, Schedule!KeepsItsMeaning
    <3>4. CASE schedule.mode \in {"today", "tomorrow"}
      <4>1. final' % (ScheduleDay * Minute) = schedule.at * Minute
        BY <1>1, <3>1, <3>4, ScheduleTimeOfDay
      <4> QED
        BY <2>2, <3>1, <3>4, <4>1 DEF ScheduleMeant, Schedule!KeepsItsMeaning
    <3> QED
      BY <1>1, <3>2, <3>3, <3>4
  <2> QED
    BY <1>6, <2>1, <2>2 DEF Schedule!Finalize
<1>7. CASE Schedule!Arrive
  BY <1>7 DEF Schedule!Arrive, ScheduleMeant, Schedule!KeepsItsMeaning
<1>8. CASE UNCHANGED Schedule!vars
  BY <1>8 DEF Schedule!vars, ScheduleMeant, Schedule!KeepsItsMeaning
<1> QED
  BY <1>2, <1>3, <1>4, <1>5, <1>6, <1>7, <1>8 DEF Schedule!Next

\* However long the card is open, the request means what the card meant.
THEOREM ScheduleMeaningKept ==
    ASSUME Schedule!ScheduleConstants
    PROVE  Schedule!Spec => []Schedule!KeepsItsMeaning
<1>1. Schedule!Init => Schedule!TypeOK /\ ScheduleMeant
  BY ScheduleTypeInit DEF Schedule!Init, ScheduleMeant, Schedule!KeepsItsMeaning
<1>2. Schedule!TypeOK /\ ScheduleMeant /\ [Schedule!Next]_(Schedule!vars)
        => Schedule!TypeOK' /\ ScheduleMeant'
  BY ScheduleTypeStep, ScheduleMeantStep
<1>3. ScheduleMeant => Schedule!KeepsItsMeaning
  BY DEF ScheduleMeant
<1> QED
  BY <1>1, <1>2, <1>3, PTL DEF Schedule!Spec

-----------------------------------------------------------------------------
(* The shutdown of the server.  The invariant counts the turns under way     *)
(* and orders the stages of the drain: nothing is closed before it is idle.  *)

DrainServing(c) == conn[c] \in {"reading", "preparing", "leaving", "closing"}

\* A connection, its turn and its channel agree.
DrainOrdered ==
  \A c \in Conns :
    /\ c \in active <=> DrainServing(c)
    /\ turn[c] # "none" => DrainServing(c) \/ conn[c] = "gone"
    /\ closed[c] => Drain!TurnOver(c) /\ conn[c] \in {"closing", "gone"}
    /\ conn[c] = "closing" => closed[c]
    /\ conn[c] = "gone" /\ turn[c] # "none" => closed[c]

\* The drain waits for everyone there is to wait for.
DrainAccounted ==
  /\ draining <=> server # "serving"
  /\ server = "draining" => \A c \in Conns : DrainServing(c) => c \in awaited \/ closed[c]
  /\ server \notin {"serving", "draining"} /\ ~late => \A c \in Conns : DrainServing(c) => closed[c]
  /\ ~queueOpen => server \notin {"serving", "draining", "drained"}
  /\ crashed => late

LEMMA DrainTypeInit == Drain!DrainConstants /\ Drain!Init => Drain!TypeOK
<1> SUFFICES ASSUME Drain!DrainConstants, Drain!Init PROVE Drain!TypeOK
  OBVIOUS
<1>1. /\ draining \in BOOLEAN /\ late \in BOOLEAN /\ queueOpen \in BOOLEAN /\ dbOpen \in BOOLEAN
      /\ crashed \in BOOLEAN
  BY Zenon DEF Drain!Init
<1>2. traces \in 0..TraceQueue
  BY DEF Drain!Init, Drain!DrainConstants
<1>3. /\ conn \in [Conns -> {"none"}] /\ turn \in [Conns -> {"none"}]
      /\ cancelled \in [Conns -> BOOLEAN] /\ closed \in [Conns -> BOOLEAN]
  BY DEF Drain!Init
<1>4. active \subseteq Conns /\ awaited \subseteq Conns /\ server = "serving"
  BY DEF Drain!Init
<1> QED
  BY <1>1, <1>2, <1>3, <1>4 DEF Drain!TypeOK

LEMMA DrainTypeStep ==
    Drain!DrainConstants /\ Drain!TypeOK /\ [Drain!Next]_(Drain!vars) => Drain!TypeOK'
<1> SUFFICES ASSUME Drain!DrainConstants, Drain!TypeOK, [Drain!Next]_(Drain!vars)
    PROVE Drain!TypeOK'
  OBVIOUS
<1> USE DEF Drain!handler, Drain!shutdown, Drain!sink
<1>1. ASSUME NEW c \in Conns, Drain!Handler(c) PROVE Drain!TypeOK'
  <2>1. CASE Drain!Register(c)
    BY <2>1 DEF Drain!TypeOK, Drain!Register, Drain!Registers, Drain!At
  <2>2. ASSUME NEW ok \in BOOLEAN, Drain!Prepared(c, ok) PROVE Drain!TypeOK'
    BY <2>2 DEF Drain!TypeOK, Drain!Prepared, Drain!At
  <2>3. CASE Drain!ReadEnds(c) \/ Drain!CloseDone(c) \/ Drain!Unregister(c)
    BY <2>3 DEF Drain!TypeOK, Drain!ReadEnds, Drain!CloseDone, Drain!Unregister, Drain!At
  <2> QED
    BY <1>1, <2>1, <2>2, <2>3 DEF Drain!Handler
<1>2. ASSUME NEW c \in Conns, Drain!Turn(c) PROVE Drain!TypeOK'
  <2>1. CASE Drain!FinishTrace(c)
    <3>1. traces' \in 0..TraceQueue
      BY <2>1 DEF Drain!TypeOK, Drain!FinishTrace, Drain!DrainConstants
    <3>2. crashed' \in BOOLEAN
      BY <2>1, Zenon DEF Drain!TypeOK, Drain!FinishTrace
    <3> QED
      BY <2>1, <3>1, <3>2 DEF Drain!TypeOK, Drain!FinishTrace, Drain!TurnIs, Drain!Saving
  <2>2. CASE Drain!PersistAssistant(c) \/ Drain!PersistTranscript(c) \/ Drain!PersistState(c)
          \/ Drain!Report(c)
    BY <2>2
      DEF Drain!TypeOK, Drain!PersistAssistant, Drain!PersistTranscript, Drain!PersistState,
         Drain!Report, Drain!TurnIs, Drain!Saving, Drain!Saved
  <2> QED
    BY <1>2, <2>1, <2>2 DEF Drain!Turn
<1>3. ASSUME NEW c \in Conns, Drain!Environment(c) PROVE Drain!TypeOK'
  BY <1>3 DEF Drain!TypeOK, Drain!Environment, Drain!Upgrade, Drain!Prepare, Drain!Leave, Drain!At
<1>4. CASE Drain!Main
  BY <1>4
    DEF Drain!TypeOK, Drain!Main, Drain!CancelOne, Drain!Awaited, Drain!Drained, Drain!CloseQueue,
       Drain!WriterClosed, Drain!CloseDB, Drain!Exit
<1>5. CASE Drain!Signal \/ Drain!DrainExpires
  BY <1>5 DEF Drain!TypeOK, Drain!Signal, Drain!DrainExpires
<1>6. CASE Drain!Flush
  BY <1>6 DEF Drain!TypeOK, Drain!Flush, Drain!DrainConstants
<1>7. CASE UNCHANGED Drain!vars
  BY <1>7 DEF Drain!TypeOK, Drain!vars
<1> QED
  BY <1>1, <1>2, <1>3, <1>4, <1>5, <1>6, <1>7 DEF Drain!Next

LEMMA DrainOrderedStep ==
    Drain!TypeOK /\ DrainOrdered /\ [Drain!Next]_(Drain!vars) => DrainOrdered'
<1> SUFFICES ASSUME Drain!TypeOK, DrainOrdered, [Drain!Next]_(Drain!vars) PROVE DrainOrdered'
  OBVIOUS
<1> USE
    DEF Drain!handler, Drain!shutdown, Drain!sink, Drain!TypeOK, DrainOrdered, DrainServing,
       Drain!TurnOver
<1>1. ASSUME NEW c \in Conns, Drain!Handler(c) PROVE DrainOrdered'
  <2>1. CASE Drain!Register(c)
    BY <2>1 DEF Drain!Register, Drain!Registers, Drain!At
  <2>2. ASSUME NEW ok \in BOOLEAN, Drain!Prepared(c, ok) PROVE DrainOrdered'
    BY <2>2 DEF Drain!Prepared, Drain!At
  <2>3. CASE Drain!ReadEnds(c)
    BY <2>3 DEF Drain!ReadEnds, Drain!At
  <2>4. CASE Drain!CloseDone(c)
    BY <2>4 DEF Drain!CloseDone, Drain!At
  <2>5. CASE Drain!Unregister(c)
    BY <2>5 DEF Drain!Unregister, Drain!At
  <2> QED
    BY <1>1, <2>1, <2>2, <2>3, <2>4, <2>5 DEF Drain!Handler
<1>2. ASSUME NEW c \in Conns, Drain!Turn(c) PROVE DrainOrdered'
  <2>1. /\ UNCHANGED <<conn, closed, active>>
        /\ turn[c] \in {"running", "saved", "unsaved"} \cup Drain!Saving
        /\ \E s \in Drain!Saving \cup Drain!Saved : turn' = [turn EXCEPT ![c] = s]
    BY <1>2
      DEF Drain!Turn, Drain!FinishTrace, Drain!PersistAssistant, Drain!PersistTranscript,
         Drain!PersistState, Drain!Report, Drain!TurnIs,
                Drain!Saving, Drain!Saved
  <2> QED
    BY <2>1 DEF Drain!Saving, Drain!Saved
<1>3. ASSUME NEW c \in Conns, Drain!Environment(c) PROVE DrainOrdered'
  BY <1>3 DEF Drain!Environment, Drain!Upgrade, Drain!Prepare, Drain!Leave, Drain!At
<1>4. CASE Drain!Main \/ Drain!Signal \/ Drain!DrainExpires \/ Drain!Flush \/ UNCHANGED Drain!vars
  <2>1. UNCHANGED <<conn, turn, closed, active>>
    BY <1>4
      DEF Drain!Main, Drain!CancelOne, Drain!Awaited, Drain!Drained, Drain!CloseQueue,
         Drain!WriterClosed, Drain!CloseDB, Drain!Exit, Drain!Signal,
                Drain!DrainExpires, Drain!Flush, Drain!vars
  <2> QED
    BY <2>1
<1> QED
  BY <1>1, <1>2, <1>3, <1>4 DEF Drain!Next

LEMMA DrainAccountedStep ==
    Drain!TypeOK /\ DrainOrdered /\ DrainAccounted /\ [Drain!Next]_(Drain!vars) => DrainAccounted'
<1> SUFFICES ASSUME Drain!TypeOK, DrainOrdered, DrainAccounted, [Drain!Next]_(Drain!vars)
    PROVE DrainAccounted'
  OBVIOUS
<1> USE DEF Drain!handler, Drain!shutdown, Drain!sink, Drain!TypeOK, DrainAccounted, DrainServing
<1>1. ASSUME NEW c \in Conns, Drain!Handler(c) PROVE DrainAccounted'
  <2>1. CASE Drain!Register(c)
    BY <2>1 DEF Drain!Register, Drain!Registers, Drain!At
  <2>2. ASSUME NEW ok \in BOOLEAN, Drain!Prepared(c, ok) PROVE DrainAccounted'
    BY <2>2 DEF Drain!Prepared, Drain!At
  <2>3. CASE Drain!ReadEnds(c)
    BY <2>3 DEF Drain!ReadEnds, Drain!At
  <2>4. CASE Drain!CloseDone(c)
    BY <2>4 DEF Drain!CloseDone, Drain!At
  <2>5. CASE Drain!Unregister(c)
    BY <2>5 DEF Drain!Unregister, Drain!At
  <2> QED
    BY <1>1, <2>1, <2>2, <2>3, <2>4, <2>5 DEF Drain!Handler
<1>2. ASSUME NEW c \in Conns, Drain!FinishTrace(c) PROVE DrainAccounted'
  <2>1. turn[c] = "running"
    BY <1>2 DEF Drain!FinishTrace
  <2>2. ~closed[c] /\ (DrainServing(c) \/ conn[c] = "gone") /\ conn[c] # "gone"
    BY <2>1 DEF DrainOrdered, Drain!TurnOver
  <2>3. crashed' => late
    BY <1>2, <2>2 DEF Drain!FinishTrace
  <2> QED
    BY <1>2, <2>3 DEF Drain!FinishTrace
<1>3. ASSUME NEW c \in Conns, Drain!Turn(c) /\ ~Drain!FinishTrace(c) PROVE DrainAccounted'
  BY <1>3
    DEF Drain!Turn, Drain!PersistAssistant, Drain!PersistTranscript, Drain!PersistState,
       Drain!Report
<1>4. ASSUME NEW c \in Conns, Drain!Environment(c) PROVE DrainAccounted'
  BY <1>4 DEF Drain!Environment, Drain!Upgrade, Drain!Prepare, Drain!Leave, Drain!At
<1>5. CASE Drain!Main
  BY <1>5
    DEF Drain!Main, Drain!CancelOne, Drain!Awaited, Drain!Drained, Drain!CloseQueue,
       Drain!WriterClosed, Drain!CloseDB, Drain!Exit
<1>6. CASE Drain!Signal
  BY <1>6 DEF Drain!Signal, DrainOrdered
<1>7. CASE Drain!DrainExpires
  BY <1>7 DEF Drain!DrainExpires
<1>8. CASE Drain!Flush \/ UNCHANGED Drain!vars
  BY <1>8 DEF Drain!Flush, Drain!vars
<1> QED
  BY <1>1, <1>2, <1>3, <1>4, <1>5, <1>6, <1>7, <1>8 DEF Drain!Next

LEMMA DrainInvInit == Drain!Init => DrainOrdered /\ DrainAccounted
<1>1. Drain!Init => DrainOrdered
  BY DEF Drain!Init, DrainOrdered, DrainServing, Drain!TurnOver
<1>2. Drain!Init => DrainAccounted
  BY DEF Drain!Init, DrainAccounted, DrainServing, Drain!TurnOver
<1> QED
  BY <1>1, <1>2

\* A drain that met its deadline leaves no turn running and crashes none.
THEOREM DrainNoTurnLeft ==
    ASSUME Drain!DrainConstants
    PROVE  Drain!Spec => []Drain!DrainLeavesNoTurn
<1>1. Drain!Init => Drain!TypeOK /\ DrainOrdered /\ DrainAccounted
  BY DrainTypeInit, DrainInvInit
<1>2. Drain!TypeOK /\ DrainOrdered /\ DrainAccounted /\ [Drain!Next]_(Drain!vars)
        => Drain!TypeOK' /\ DrainOrdered' /\ DrainAccounted'
  BY DrainTypeStep, DrainOrderedStep, DrainAccountedStep
<1>3. DrainOrdered /\ DrainAccounted => Drain!DrainLeavesNoTurn
  BY DEF DrainOrdered, DrainAccounted, Drain!TurnOver, Drain!DrainLeavesNoTurn
<1> QED
  BY <1>1, <1>2, <1>3, PTL DEF Drain!Spec

\* The variables keep their types.
THEOREM DrainTypeCorrect ==
    ASSUME Drain!DrainConstants
    PROVE  Drain!Spec => []Drain!TypeOK
<1>1. Drain!Init => Drain!TypeOK
  BY DrainTypeInit
<1>2. Drain!TypeOK /\ [Drain!Next]_(Drain!vars) => Drain!TypeOK'
  BY DrainTypeStep
<1> QED
  BY <1>1, <1>2, PTL DEF Drain!Spec

-----------------------------------------------------------------------------
(* The rate limiter.  The invariant charges every admitted call to the       *)
(* burst it started with or to the time that has passed since, time that a   *)
(* clock reading took back included.                                         *)

\* The smaller of two numbers.
LEMMA LimiterMinOfTwo ==
    ASSUME NEW a \in Nat, NEW b \in Nat
    PROVE  /\ Limiter!Min({a, b}) \in Nat
           /\ Limiter!Min({a, b}) <= a /\ Limiter!Min({a, b}) <= b
           /\ Limiter!Min({a, b}) = a \/ Limiter!Min({a, b}) = b
<1>1. \E x \in {a, b} : \A y \in {a, b} : x <= y
  OBVIOUS
<1>2. Limiter!Min({a, b}) \in {a, b} /\ \A y \in {a, b} : Limiter!Min({a, b}) <= y
  BY <1>1 DEF Limiter!Min
<1> QED
  BY <1>2

\* A refill stays within the bucket and gives no more than the time earned.
LEMMA LimiterRefillIsEarned ==
    ASSUME Limiter!LimiterConstants, NEW t \in Limiter!Times, tokens \in 0..Qps,
      last \in Limiter!Times
    PROVE  /\ Limiter!Refilled(t) \in 0..Qps
           /\ known /\ t > last => Limiter!Refilled(t) <= tokens + (t - last)
           /\ known /\ t <= last => Limiter!Refilled(t) = tokens
<1>1. Qps \in Nat /\ t \in Nat /\ last \in Nat
  BY DEF Limiter!LimiterConstants, Limiter!Times
<1>2. CASE known /\ t > last
  <2>1. tokens + (t - last) \in Nat
    BY <1>1, <1>2
  <2>2. Limiter!Refilled(t) = Limiter!Min({Qps, tokens + (t - last)})
    BY <1>2 DEF Limiter!Refilled
  <2> QED
    BY <1>1, <1>2, <2>1, <2>2, LimiterMinOfTwo
<1>3. CASE ~(known /\ t > last)
  BY <1>1, <1>3 DEF Limiter!Refilled
<1> QED
  BY <1>2, <1>3

\* The count of the day is a part of what the date admitted since it was last turned to.
LimiterBudgeted ==
  /\ ~known => granted = 0 /\ \A d \in Limiter!Dates : admitted[d] = 0 /\ reopened[d] = 0
  /\ Qps > 0 /\ known => granted + tokens + first <= Qps + last + rewound
  /\ Daily > 0 =>
       /\ count <= Daily
       /\ \A d \in Limiter!Dates : admitted[d] <= Daily * reopened[d]
       /\ known => admitted[date] + Daily <= Daily * reopened[date] + count

LEMMA LimiterTypeInit == Limiter!LimiterConstants /\ Limiter!Init => Limiter!TypeOK
<1> SUFFICES ASSUME Limiter!LimiterConstants, Limiter!Init PROVE Limiter!TypeOK
  OBVIOUS
<1>1. 0 \in Limiter!Times /\ LimiterHorizon \in Nat /\ LimiterDay \in Nat \ {0}
  BY DEF Limiter!LimiterConstants, Limiter!Times
<1>2. Limiter!Date(0) = 0
  BY <1>1 DEF Limiter!Date
<1>3. 0 \in Limiter!Dates
  BY <1>1, <1>2 DEF Limiter!Dates
<1>4. stamp \in [Callers -> Limiter!Times \cup {Limiter!NoTime}] /\ known \in BOOLEAN
  BY DEF Limiter!Init
<1>5. reopened \in [Limiter!Dates -> Nat] /\ admitted \in [Limiter!Dates -> Nat]
  BY DEF Limiter!Init
<1>6. tokens \in 0..Qps
  BY DEF Limiter!Init, Limiter!LimiterConstants
<1> QED
  BY <1>1, <1>3, <1>4, <1>5, <1>6 DEF Limiter!Init, Limiter!TypeOK

\* What Allow is called with, and what it leaves.
LEMMA LimiterTypeStep ==
    Limiter!LimiterConstants /\ Limiter!TypeOK /\ [Limiter!Next]_(Limiter!vars) => Limiter!TypeOK'
<1> SUFFICES ASSUME Limiter!LimiterConstants, Limiter!TypeOK, [Limiter!Next]_(Limiter!vars)
    PROVE Limiter!TypeOK'
  OBVIOUS
<1>1. CASE Limiter!Tick
  BY <1>1
    DEF Limiter!Tick, Limiter!TypeOK, Limiter!Times, Limiter!counter, Limiter!history,
       Limiter!LimiterConstants
<1>2. ASSUME NEW c \in Callers, Limiter!Read(c) PROVE Limiter!TypeOK'
  BY <1>2 DEF Limiter!Read, Limiter!TypeOK, Limiter!counter, Limiter!history
<1>3. ASSUME NEW c \in Callers, Limiter!Allow(c) PROVE Limiter!TypeOK'
  <2> DEFINE t == stamp[c]
  <2>1. t \in Limiter!Times
    BY <1>3 DEF Limiter!Allow, Limiter!TypeOK
  <2>2. Limiter!Date(t) \in Limiter!Dates
    BY <2>1 DEF Limiter!Dates
  <2>3. Limiter!Refilled(t) \in 0..Qps
    BY <2>1, LimiterRefillIsEarned DEF Limiter!TypeOK
  <2>4. Limiter!CountOf(t) \in Nat
    BY DEF Limiter!CountOf, Limiter!TypeOK
  <2>5. tokens' \in 0..Qps
    BY <1>3, <2>3 DEF Limiter!Allow, Limiter!Empty, Limiter!LimiterConstants
  <2>6. /\ rewound' \in Nat /\ granted' \in Nat /\ count' \in Nat
    BY <1>3, <2>1, <2>4 DEF Limiter!Allow, Limiter!TypeOK, Limiter!Times, Limiter!LimiterConstants
  <2>7. reopened' \in [Limiter!Dates -> Nat] /\ admitted' \in [Limiter!Dates -> Nat]
    BY <1>3, <2>2 DEF Limiter!Allow, Limiter!TypeOK
  <2>8. /\ clock' \in Limiter!Times /\ known' \in BOOLEAN /\ last' \in Limiter!Times
        /\ date' \in Limiter!Dates
        /\ first' \in Limiter!Times /\ stamp' \in [Callers -> Limiter!Times \cup {Limiter!NoTime}]
    BY <1>3, <2>1, <2>2 DEF Limiter!Allow, Limiter!TypeOK, Limiter!LastRefill
  <2> QED
    BY <2>5, <2>6, <2>7, <2>8 DEF Limiter!TypeOK
<1>4. CASE UNCHANGED Limiter!vars
  BY <1>4 DEF Limiter!vars, Limiter!counter, Limiter!history, Limiter!TypeOK
<1> QED
  BY <1>1, <1>2, <1>3, <1>4 DEF Limiter!Next

LEMMA LimiterBudgetedStep ==
    Limiter!LimiterConstants /\ Limiter!TypeOK /\ LimiterBudgeted
      /\ [Limiter!Next]_(Limiter!vars) => LimiterBudgeted'
<1> SUFFICES ASSUME Limiter!LimiterConstants, Limiter!TypeOK, LimiterBudgeted,
      [Limiter!Next]_(Limiter!vars) PROVE LimiterBudgeted'
  OBVIOUS
<1>1. CASE UNCHANGED <<Limiter!counter, Limiter!history>>
  BY <1>1 DEF LimiterBudgeted, Limiter!counter, Limiter!history
<1>2. ASSUME NEW c \in Callers, Limiter!Allow(c) PROVE LimiterBudgeted'
  <2> DEFINE t == stamp[c]
             d == Limiter!Date(t)
             ok == ~Limiter!Full(t) /\ ~Limiter!Empty(t)
  <2>1. t \in Limiter!Times /\ t \in Nat /\ last \in Nat /\ Qps \in Nat /\ Daily \in Nat
    BY <1>2 DEF Limiter!Allow, Limiter!TypeOK, Limiter!Times, Limiter!LimiterConstants
  <2>2. d \in Limiter!Dates
    BY <2>1 DEF Limiter!Dates
  <2>3. known' /\ date' = d /\ last' = t
    BY <1>2 DEF Limiter!Allow, Limiter!LastRefill
  <2>4. Qps > 0 => granted' + tokens' + first' <= Qps + last' + rewound'
    <3> SUFFICES ASSUME Qps > 0 PROVE granted' + tokens' + first' <= Qps + last' + rewound'
      OBVIOUS
    <3>1. granted' + tokens' = granted + Limiter!Refilled(t)
      BY <1>2, <2>1, LimiterRefillIsEarned DEF Limiter!Allow, Limiter!Empty, Limiter!TypeOK
    <3>2. Limiter!Refilled(t) \in 0..Qps
      BY <2>1, LimiterRefillIsEarned DEF Limiter!TypeOK
    <3>3. CASE ~known
      BY <1>2, <2>1, <2>3, <3>1, <3>2, <3>3 DEF Limiter!Allow, Limiter!TypeOK, LimiterBudgeted
    <3>4. CASE known /\ t > last
      <4>1. first' = first /\ rewound' = rewound /\ Limiter!Refilled(t) <= tokens + (t - last)
        BY <1>2, <2>1, <3>4, LimiterRefillIsEarned DEF Limiter!Allow, Limiter!TypeOK
      <4> QED
        BY <2>1, <2>3, <3>1, <3>2, <3>4, <4>1 DEF Limiter!TypeOK, LimiterBudgeted, Limiter!Times
    <3>5. CASE known /\ t <= last
      <4>1. first' = first /\ rewound' + t = rewound + last /\ Limiter!Refilled(t) = tokens
        BY <1>2, <2>1, <3>5, LimiterRefillIsEarned DEF Limiter!Allow, Limiter!TypeOK
      <4>2. rewound' \in Nat /\ first \in Nat /\ tokens \in Nat /\ granted \in Nat
              /\ rewound \in Nat
        BY <1>2, <2>1 DEF Limiter!Allow, Limiter!TypeOK, Limiter!Times
      <4>3. granted' + tokens' = granted + tokens
        BY <3>1, <4>1
      <4>4. granted + tokens + first <= Qps + last + rewound
        BY <3>5 DEF LimiterBudgeted
      <4>5. granted' + tokens' + first <= Qps + t + rewound'
        BY <2>1, <4>1, <4>2, <4>3, <4>4
      <4> QED
        BY <2>3, <4>1, <4>5
    <3> QED
      BY <2>1, <3>3, <3>4, <3>5
  <2>5. ASSUME Daily > 0
        PROVE  /\ count' <= Daily
               /\ \A e \in Limiter!Dates : admitted'[e] <= Daily * reopened'[e]
               /\ admitted'[d] + Daily <= Daily * reopened'[d] + count'
    <3>1. Limiter!CountOf(t) \in Nat /\ Limiter!CountOf(t) <= Daily
            /\ (ok => Limiter!CountOf(t) < Daily)
      BY <2>1, <2>5 DEF Limiter!CountOf, Limiter!Full, LimiterBudgeted, Limiter!TypeOK
    <3>2. count' = Limiter!CountOf(t) + (IF ok THEN 1 ELSE 0) /\ count' <= Daily
      BY <1>2, <2>1, <3>1 DEF Limiter!Allow
    <3>3. /\ admitted \in [Limiter!Dates -> Nat] /\ reopened \in [Limiter!Dates -> Nat]
          /\ admitted'[d] = admitted[d] + (IF ok THEN 1 ELSE 0)
          /\ \A e \in Limiter!Dates \ {d} : admitted'[e] = admitted[e] /\ reopened'[e] = reopened[e]
      BY <1>2, <2>2 DEF Limiter!Allow, Limiter!TypeOK
    <3>4. admitted'[d] + Daily <= Daily * reopened'[d] + count'
      <4>1. CASE known /\ date = d
        <5>1. reopened'[d] = reopened[d] /\ Limiter!CountOf(t) = count /\ count \in Nat
          BY <1>2, <4>1 DEF Limiter!Allow, Limiter!CountOf, Limiter!TypeOK
        <5>2. admitted[d] + Daily <= Daily * reopened[d] + count
          BY <2>5, <4>1 DEF LimiterBudgeted
        <5>3. Daily * reopened[d] \in Nat
          BY <2>1, <2>2, <3>3
        <5> QED
          BY <2>1, <2>2, <3>2, <3>3, <5>1, <5>2, <5>3
      <4>2. CASE ~(known /\ date = d)
        <5>1. reopened'[d] = reopened[d] + 1 /\ Limiter!CountOf(t) = 0
          BY <1>2, <2>2, <3>3, <4>2 DEF Limiter!Allow, Limiter!CountOf
        <5>2. Daily * reopened'[d] = Daily * reopened[d] + Daily /\ Daily * reopened[d] \in Nat
          BY <2>1, <2>2, <3>3, <5>1
        <5>3. admitted[d] <= Daily * reopened[d]
          BY <2>2, <2>5 DEF LimiterBudgeted
        <5> QED
          BY <2>1, <2>2, <3>2, <3>3, <5>1, <5>2, <5>3
      <4> QED
        BY <4>1, <4>2
    <3>5. admitted'[d] \in Nat /\ reopened'[d] \in Nat
      BY <1>2, <2>2, <3>3 DEF Limiter!Allow
    <3>6. Daily * reopened'[d] \in Nat /\ count' \in Nat
      BY <2>1, <3>1, <3>2, <3>5
    <3>7. admitted'[d] <= Daily * reopened'[d]
      BY <2>1, <3>2, <3>4, <3>5, <3>6
    <3>8. \A e \in Limiter!Dates \ {d} : admitted'[e] <= Daily * reopened'[e]
      BY <2>5, <3>3 DEF LimiterBudgeted
    <3> QED
      BY <3>2, <3>4, <3>7, <3>8
  <2> QED
    BY <2>3, <2>4, <2>5 DEF LimiterBudgeted
<1> QED
  BY <1>1, <1>2
    DEF Limiter!Next, Limiter!Tick, Limiter!Read, Limiter!vars, Limiter!counter, Limiter!history

LEMMA LimiterBudgetedInit == Limiter!LimiterConstants /\ Limiter!Init => LimiterBudgeted
<1> SUFFICES ASSUME Limiter!LimiterConstants, Limiter!Init PROVE LimiterBudgeted
  OBVIOUS
<1>1. Daily \in Nat /\ Daily * 0 = 0
  BY DEF Limiter!LimiterConstants
<1> QED
  BY <1>1 DEF Limiter!Init, LimiterBudgeted

THEOREM LimiterBudgetKept ==
    ASSUME Limiter!LimiterConstants
    PROVE  Limiter!Spec => []Limiter!WithinBudget
<1>1. Limiter!Init => Limiter!TypeOK /\ LimiterBudgeted
  BY LimiterTypeInit, LimiterBudgetedInit
<1>2. Limiter!TypeOK /\ LimiterBudgeted /\ [Limiter!Next]_(Limiter!vars)
        => Limiter!TypeOK' /\ LimiterBudgeted'
  BY LimiterTypeStep, LimiterBudgetedStep
<1>3. LimiterBudgeted => Limiter!WithinBudget
  BY DEF LimiterBudgeted, Limiter!WithinBudget
<1> QED
  BY <1>1, <1>2, <1>3, PTL DEF Limiter!Spec

-----------------------------------------------------------------------------
(* The Feishu bot.  The invariant puts a message in one place, gives a       *)
(* worker at work on a topic its lock, and counts how often a message asked. *)

BotStages == {"idle", "waiting", "session", "creating", "ask", "reply"}
BotAsking == {"session", "creating", "ask"}
BotHolds(w) == botStage[w] \in BotAsking \cup {"reply"}

BotTyped ==
  /\ inbox \in Seq(Messages) /\ seen \subseteq Messages
  /\ job \in [Workers -> Messages \cup {Bot!None}] /\ botStage \in [Workers -> BotStages]
  /\ retried \in [Workers -> BOOLEAN]
  /\ locked \in [Topics -> Workers \cup {Bot!None}]
  /\ sessions \in [Topics -> Nat] /\ opened \in Nat
  /\ lineage \in [Topics -> {0, 1}]
  /\ asks \in [Messages -> Nat]

\* A worker has a message unless it is idle, and the lock of its topic from then on.
BotLocks ==
  \A w \in Workers :
    /\ job[w] = Bot!None <=> botStage[w] = "idle"
    /\ BotHolds(w) => locked[Bot!Topic(w)] = w

\* A message is in one place at most: in the queue once, or with one worker.
BotPlaced ==
  /\ \A i, j \in 1..Len(inbox) : inbox[i] = inbox[j] => i = j
  /\ \A i \in 1..Len(inbox) : inbox[i] \in seen
  /\ \A w \in Workers : job[w] # Bot!None
     => job[w] \in seen /\ \A i \in 1..Len(inbox) : inbox[i] # job[w]
  /\ \A v, w \in Workers : job[v] # Bot!None /\ job[v] = job[w] => v = w

\* A topic has a session exactly when one was opened and not lost.
BotLineage ==
  /\ \A t \in Topics : lineage[t] = 0 <=> sessions[t] = 0
  /\ \A w \in Workers : /\ botStage[w] = "creating" => sessions[Bot!Topic(w)] = 0
                        /\ botStage[w] = "ask" => sessions[Bot!Topic(w)] # 0

\* A message is asked for the first time by the worker that has it, and once more after a limit.
BotCounted ==
  /\ \A m \in Messages : asks[m] <= 2 /\ (m \notin seen => asks[m] = 0)
  /\ \A i \in 1..Len(inbox) : asks[inbox[i]] = 0
  /\ \A w \in Workers :
       /\ botStage[w] \in {"idle", "waiting"} => ~retried[w]
       /\ botStage[w] = "waiting" => asks[job[w]] = 0
       /\ botStage[w] \in BotAsking => asks[job[w]] <= IF retried[w] THEN 1 ELSE 0

BotInv == BotTyped /\ BotLocks /\ BotPlaced /\ BotLineage /\ BotCounted

\* The topic of a worker's message.
LEMMA BotTopicTyped ==
    ASSUME Bot!BotConstants, BotTyped, BotLocks, NEW w \in Workers, botStage[w] # "idle"
    PROVE  job[w] \in Messages /\ Bot!Topic(w) \in Topics /\ Bot!Topic(w) = TopicOf[job[w]]
BY DEF Bot!BotConstants, BotTyped, BotLocks, Bot!Topic, Bot!None

\* Two workers that hold their locks are in different topics.
LEMMA BotTopicsDiffer ==
    ASSUME Bot!BotConstants, BotTyped, BotLocks, NEW v \in Workers, NEW w \in Workers,
      BotHolds(v), BotHolds(w), v # w
    PROVE  Bot!Topic(v) # Bot!Topic(w)
BY DEF BotLocks

LEMMA BotInvInit == Bot!BotConstants /\ Bot!Init => BotInv
<1> SUFFICES ASSUME Bot!BotConstants, Bot!Init PROVE BotInv
  OBVIOUS
<1>1. BotTyped
  BY DEF Bot!Init, BotTyped, BotStages
<1>2. BotLocks /\ BotPlaced /\ BotLineage /\ BotCounted
  BY DEF Bot!Init, BotLocks, BotPlaced, BotLineage, BotCounted, BotHolds, BotAsking
<1> QED
  BY <1>1, <1>2 DEF BotInv

\* The head of the queue leaves, and the rest moves up.
LEMMA BotTailOfQueue ==
    ASSUME NEW S, NEW q \in Seq(S), q # <<>>
    PROVE  /\ Head(q) \in S /\ Head(q) = q[1] /\ 1 \in 1..Len(q)
           /\ Tail(q) \in Seq(S) /\ Len(Tail(q)) = Len(q) - 1 /\ Len(q) \in Nat
           /\ \A i \in 1..Len(Tail(q)) : Tail(q)[i] = q[i + 1] /\ i + 1 \in 1..Len(q)
OBVIOUS

LEMMA BotTypedStep == Bot!BotConstants /\ BotInv /\ [Bot!Next]_(Bot!vars) => BotTyped'
<1> SUFFICES ASSUME Bot!BotConstants, BotInv, [Bot!Next]_(Bot!vars) PROVE BotTyped'
  OBVIOUS
<1> USE DEF Bot!inbox, Bot!worker, Bot!agent, Bot!Goto, Bot!Assign
<1>1. ASSUME NEW m \in Messages, Bot!Deliver(m) PROVE BotTyped'
  BY <1>1 DEF BotInv, BotTyped, Bot!Deliver, Bot!Sees
<1>2. ASSUME NEW w \in Workers, Bot!Take(w) PROVE BotTyped'
  <2>1. Head(inbox) \in Messages /\ Tail(inbox) \in Seq(Messages)
    BY <1>2, BotTailOfQueue DEF BotInv, BotTyped, Bot!Take
  <2> QED
    BY <1>2, <2>1 DEF BotInv, BotTyped, Bot!Take, BotStages
<1>3. ASSUME NEW w \in Workers,
        Bot!Lock(w) \/ Bot!Reuse(w) \/ Bot!Create(w) \/ Bot!CreateFails(w) \/ Bot!Reply(w)
      PROVE BotTyped'
  BY <1>3
    DEF BotInv, BotTyped, Bot!Lock, Bot!Reuse, Bot!Create, Bot!CreateFails, Bot!Reply, BotStages
<1>4. ASSUME NEW w \in Workers, Bot!Created(w) PROVE BotTyped'
  <2>1. Bot!Topic(w) \in Topics
    BY <1>4, BotTopicTyped DEF Bot!Created, BotInv
  <2>2. lineage[Bot!Topic(w)] = 0
    BY <1>4, <2>1 DEF Bot!Created, BotInv, BotLineage
  <2>3. lineage' \in [Topics -> {0, 1}]
    BY <1>4, <2>1, <2>2 DEF BotInv, BotTyped, Bot!Created
  <2>4. sessions' \in [Topics -> Nat] /\ opened' \in Nat
    BY <1>4, <2>1 DEF BotInv, BotTyped, Bot!Created
  <2>5. botStage' \in [Workers -> BotStages]
    BY <1>4 DEF BotInv, BotTyped, Bot!Created, BotStages
  <2> QED
    BY <1>4, <2>3, <2>4, <2>5 DEF BotInv, BotTyped, Bot!Created
<1>5. ASSUME NEW w \in Workers, Bot!Answer(w) PROVE BotTyped'
  <2>1. job[w] \in Messages
    BY <1>5, BotTopicTyped DEF Bot!Answer, BotInv
  <2>2. asks' = [asks EXCEPT ![job[w]] = @ + 1] /\ asks[job[w]] + 1 \in Nat
    BY <1>5, <2>1 DEF BotInv, BotTyped, Bot!Answer
  <2>3. botStage' = [botStage EXCEPT ![w] = "reply"] /\ "reply" \in BotStages
    BY <1>5 DEF Bot!Answer, BotStages
  <2>4. asks' \in [Messages -> Nat] /\ botStage' \in [Workers -> BotStages]
    BY <2>2, <2>3 DEF BotInv, BotTyped
  <2>5. sessions' \in [Topics -> Nat] /\ opened' \in Nat /\ lineage' \in [Topics -> {0, 1}]
    <3>1. lineage' = lineage /\ (\/ sessions' = sessions /\ opened' = opened
                               \/ /\ opened' = opened + 1
                                  /\ sessions' = [sessions EXCEPT ![Bot!Topic(w)] = opened + 1])
      BY <1>5 DEF Bot!Answer
    <3>2. opened + 1 \in Nat
      BY DEF BotInv, BotTyped
    <3> QED
      BY <3>1, <3>2 DEF BotInv, BotTyped
  <2> QED
    BY <1>5, <2>4, <2>5 DEF BotInv, BotTyped, Bot!Answer
<1>6. ASSUME NEW w \in Workers, Bot!LimitReached(w) PROVE BotTyped'
  <2>1. job[w] \in Messages /\ Bot!Topic(w) \in Topics
    BY <1>6, BotTopicTyped DEF Bot!LimitReached, BotInv
  <2>2. lineage[Bot!Topic(w)] = 1
    BY <1>6, <2>1 DEF Bot!LimitReached, BotInv, BotLineage, BotTyped
  <2>3. asks' \in [Messages -> Nat] /\ botStage' \in [Workers -> BotStages]
    <3>1. asks' = [asks EXCEPT ![job[w]] = @ + 1] /\ asks[job[w]] + 1 \in Nat
      BY <1>6, <2>1 DEF BotInv, BotTyped, Bot!LimitReached
    <3>2. \E s \in BotStages : botStage' = [botStage EXCEPT ![w] = s]
      BY <1>6 DEF Bot!LimitReached, BotStages
    <3> QED
      BY <3>1, <3>2 DEF BotInv, BotTyped
  <2>4. CASE retried[w]
    BY <1>6, <2>3, <2>4 DEF BotInv, BotTyped, Bot!LimitReached
  <2>5. CASE ~retried[w]
    <3>1. lineage' = [lineage EXCEPT ![Bot!Topic(w)] = 0]
      BY <1>6, <2>2, <2>5 DEF Bot!LimitReached
    <3>2. sessions' = [sessions EXCEPT ![Bot!Topic(w)] = 0]
            /\ retried' = [retried EXCEPT ![w] = TRUE]
      BY <1>6, <2>5 DEF Bot!LimitReached
    <3>3. lineage' \in [Topics -> {0, 1}] /\ sessions' \in [Topics -> Nat]
      BY <3>1, <3>2 DEF BotInv, BotTyped
    <3>4. retried' \in [Workers -> BOOLEAN]
      BY <3>2 DEF BotInv, BotTyped
    <3> QED
      BY <1>6, <2>3, <3>3, <3>4 DEF BotInv, BotTyped, Bot!LimitReached
  <2> QED
    BY <2>4, <2>5
<1>7. CASE UNCHANGED Bot!vars
  BY <1>7 DEF Bot!vars, BotInv, BotTyped
<1> QED
  BY <1>1, <1>2, <1>3, <1>4, <1>5, <1>6, <1>7 DEF Bot!Next, Bot!Work

LEMMA BotLocksStep == Bot!BotConstants /\ BotInv /\ [Bot!Next]_(Bot!vars) => BotLocks'
<1> SUFFICES ASSUME Bot!BotConstants, BotInv, [Bot!Next]_(Bot!vars) PROVE BotLocks'
  OBVIOUS
<1> USE DEF Bot!inbox, Bot!worker, Bot!agent, Bot!Goto, BotHolds, BotAsking
<1>1. CASE UNCHANGED <<Bot!worker, locked>>
  BY <1>1 DEF BotInv, BotLocks, Bot!Topic
<1>2. ASSUME NEW w \in Workers, Bot!Take(w) PROVE BotLocks'
  <2>1. Head(inbox) \in Messages
    BY <1>2, BotTailOfQueue DEF BotInv, BotTyped, Bot!Take
  <2> QED
    BY <1>2, <2>1
      DEF BotInv, BotTyped, BotLocks, Bot!Take, Bot!Topic, Bot!BotConstants, Bot!None, BotStages
<1>3. ASSUME NEW w \in Workers, Bot!Lock(w) PROVE BotLocks'
  <2>1. Bot!Topic(w) \in Topics /\ locked[Bot!Topic(w)] = Bot!None
    BY <1>3, BotTopicTyped DEF Bot!Lock, Bot!Unlocked, BotInv
  <2> QED
    BY <1>3, <2>1
      DEF BotInv, BotTyped, BotLocks, Bot!Lock, Bot!Topic, Bot!BotConstants, Bot!None, BotStages
<1>4. ASSUME NEW w \in Workers,
             Bot!Reuse(w) \/ Bot!Create(w) \/ Bot!Created(w) \/ Bot!CreateFails(w)
               \/ Bot!Answer(w) \/ Bot!LimitReached(w)
      PROVE BotLocks'
  <2>1. /\ UNCHANGED <<job, locked>> /\ botStage[w] \in BotAsking
        /\ \E s \in BotAsking \cup {"reply"} : botStage' = [botStage EXCEPT ![w] = s]
    BY <1>4 DEF Bot!Reuse, Bot!Create, Bot!Created, Bot!CreateFails, Bot!Answer, Bot!LimitReached
  <2> QED
    BY <2>1 DEF BotInv, BotTyped, BotLocks, Bot!Topic, BotStages
<1>5. ASSUME NEW w \in Workers, Bot!Reply(w) PROVE BotLocks'
  <2>1. botStage[w] = "reply" /\ locked[Bot!Topic(w)] = w /\ Bot!Topic(w) \in Topics
    BY <1>5, BotTopicTyped DEF Bot!Reply, BotInv, BotLocks
  <2>2. ASSUME NEW v \in Workers, v # w, BotHolds(v) PROVE Bot!Topic(v) # Bot!Topic(w)
    BY <2>1, <2>2, BotTopicsDiffer DEF BotInv
  <2>3. ASSUME NEW v \in Workers, v # w PROVE job'[v] = job[v] /\ botStage'[v] = botStage[v]
    BY <1>5, <2>3 DEF Bot!Reply, BotInv, BotTyped
  <2>4. job'[w] = Bot!None /\ botStage'[w] = "idle"
    BY <1>5 DEF Bot!Reply, BotInv, BotTyped
  <2>5. ASSUME NEW v \in Workers, v # w, BotHolds(v)
        PROVE locked'[Bot!Topic(v)] = locked[Bot!Topic(v)]
    BY <1>5, <2>1, <2>2, <2>5 DEF Bot!Reply, BotInv, BotTyped
  <2> QED
    BY <2>3, <2>4, <2>5 DEF BotInv, BotLocks, Bot!Topic
<1> QED
  BY <1>1, <1>2, <1>3, <1>4, <1>5 DEF Bot!Next, Bot!Work, Bot!Deliver, Bot!vars

LEMMA BotPlacedStep == Bot!BotConstants /\ BotInv /\ [Bot!Next]_(Bot!vars) => BotPlaced'
<1> SUFFICES ASSUME Bot!BotConstants, BotInv, [Bot!Next]_(Bot!vars) PROVE BotPlaced'
  OBVIOUS
<1> USE DEF Bot!inbox, Bot!worker, Bot!agent
<1>1. CASE UNCHANGED <<inbox, seen, job>>
  BY <1>1 DEF BotInv, BotPlaced
<1>2. ASSUME NEW m \in Messages, Bot!Deliver(m) PROVE BotPlaced'
  <2>1. CASE m \notin seen /\ inbox' = Append(inbox, m)
    <3>1. /\ Len(inbox') = Len(inbox) + 1 /\ inbox'[Len(inbox) + 1] = m /\ Len(inbox) \in Nat
          /\ \A i \in 1..Len(inbox) : inbox'[i] = inbox[i]
      BY <2>1 DEF BotInv, BotTyped
    <3>2. seen' = seen \cup {m} /\ job' = job
      BY <1>2 DEF Bot!Deliver, Bot!Sees
    <3>3. \A i \in 1..Len(inbox') : i \in 1..Len(inbox) \/ i = Len(inbox) + 1
      BY <3>1
    <3>4. /\ \A i \in 1..Len(inbox) : inbox[i] # m
          /\ \A w \in Workers : job[w] # Bot!None => job[w] # m
      BY <2>1 DEF BotInv, BotPlaced
    <3>5. \A i, j \in 1..Len(inbox') : inbox'[i] = inbox'[j] => i = j
      BY <3>1, <3>3, <3>4 DEF BotInv, BotPlaced
    <3>6. \A i \in 1..Len(inbox') : inbox'[i] \in seen'
      BY <3>1, <3>2, <3>3 DEF BotInv, BotPlaced
    <3>7. \A w \in Workers : job'[w] # Bot!None =>
             job'[w] \in seen' /\ \A i \in 1..Len(inbox') : inbox'[i] # job'[w]
      BY <3>1, <3>2, <3>3, <3>4 DEF BotInv, BotPlaced
    <3> QED
      BY <3>2, <3>5, <3>6, <3>7 DEF BotInv, BotPlaced
  <2>2. CASE inbox' = inbox
    BY <1>2, <2>2 DEF Bot!Deliver, Bot!Sees, BotInv, BotPlaced
  <2> QED
    BY <1>2, <2>1, <2>2 DEF Bot!Deliver
<1>3. ASSUME NEW w \in Workers, Bot!Take(w) PROVE BotPlaced'
  <2>1. inbox \in Seq(Messages) /\ inbox # <<>> /\ inbox' = Tail(inbox) /\ seen' = seen
    BY <1>3 DEF Bot!Take, BotInv, BotTyped
  <2>2. /\ inbox[1] \in seen /\ \A i \in 1..Len(inbox') : inbox'[i] # inbox[1]
        /\ \A v \in Workers : job[v] # Bot!None => job[v] # inbox[1]
    BY <2>1, BotTailOfQueue DEF BotInv, BotPlaced
  <2>3. job'[w] = inbox[1] /\ \A v \in Workers \ {w} : job'[v] = job[v]
    BY <1>3, <2>1, BotTailOfQueue DEF Bot!Take, BotInv, BotTyped
  <2>4. \A i \in 1..Len(inbox') : inbox'[i] = inbox[i + 1] /\ i + 1 \in 1..Len(inbox) /\ i \in Nat
    BY <2>1, BotTailOfQueue
  <2>5. \A i, j \in 1..Len(inbox') : inbox'[i] = inbox'[j] => i = j
    BY SMTT(30), <2>4 DEF BotInv, BotPlaced
  <2>6. \A i \in 1..Len(inbox') : inbox'[i] \in seen'
    BY <2>1, <2>4 DEF BotInv, BotPlaced
  <2>7. \A v \in Workers : job'[v] # Bot!None =>
           job'[v] \in seen' /\ \A i \in 1..Len(inbox') : inbox'[i] # job'[v]
    <3>1. ASSUME NEW v \in Workers, job'[v] # Bot!None, v # w
          PROVE  job'[v] \in seen' /\ \A i \in 1..Len(inbox') : inbox'[i] # job'[v]
      <4>1. job'[v] = job[v] /\ job[v] # Bot!None
        BY <2>3, <3>1
      <4>2. job[v] \in seen /\ \A i \in 1..Len(inbox) : inbox[i] # job[v]
        BY <4>1 DEF BotInv, BotPlaced
      <4> QED
        BY <2>1, <2>4, <4>1, <4>2
    <3> QED
      BY <2>1, <2>2, <2>3, <3>1
  <2>8. \A u, v \in Workers : job'[u] # Bot!None /\ job'[u] = job'[v] => u = v
    BY <2>2, <2>3 DEF BotInv, BotPlaced
  <2> QED
    BY <2>5, <2>6, <2>7, <2>8 DEF BotPlaced
<1>4. ASSUME NEW w \in Workers, Bot!Reply(w) PROVE BotPlaced'
  <2>1. job'[w] = Bot!None /\ (\A v \in Workers \ {w} : job'[v] = job[v]) /\ UNCHANGED <<inbox,
                                                                                         seen>>
    BY <1>4 DEF Bot!Reply, BotInv, BotTyped
  <2> QED
    BY <2>1 DEF BotInv, BotPlaced
<1> QED
  BY <1>1, <1>2, <1>3, <1>4
  DEF Bot!Next, Bot!Work, Bot!Lock, Bot!Reuse, Bot!Create, Bot!Created, Bot!CreateFails,
     Bot!Answer, Bot!LimitReached, Bot!vars

LEMMA BotLineageStep == Bot!BotConstants /\ BotInv /\ [Bot!Next]_(Bot!vars) => BotLineage'
<1> SUFFICES ASSUME Bot!BotConstants, BotInv, [Bot!Next]_(Bot!vars) PROVE BotLineage'
  OBVIOUS
<1> USE DEF Bot!inbox, Bot!worker, Bot!agent, Bot!Goto, Bot!Assign
<1>1. CASE UNCHANGED <<sessions, lineage, botStage, job>>
  BY <1>1 DEF BotInv, BotLineage, Bot!Topic
<1>2. ASSUME NEW w \in Workers, Bot!Take(w) PROVE BotLineage'
  BY <1>2 DEF Bot!Take, BotInv, BotTyped, BotLineage, Bot!Topic, BotStages
<1>3. ASSUME NEW w \in Workers, Bot!Lock(w) \/ Bot!Reuse(w) \/ Bot!Create(w) \/ Bot!CreateFails(w)
      PROVE BotLineage'
  <2>1. /\ UNCHANGED <<sessions, lineage, job>>
        /\ \E s \in BotStages : /\ botStage' = [botStage EXCEPT ![w] = s]
                                /\ s = "ask" => sessions[Bot!Topic(w)] # 0
                                /\ s = "creating" => sessions[Bot!Topic(w)] = 0
    BY <1>3 DEF Bot!Lock, Bot!Reuse, Bot!Create, Bot!CreateFails, BotStages
  <2> QED
    BY <2>1 DEF BotInv, BotTyped, BotLineage, Bot!Topic
<1>4. ASSUME NEW w \in Workers, Bot!Reply(w) PROVE BotLineage'
  <2>1. /\ UNCHANGED <<sessions, lineage>> /\ botStage'[w] = "idle"
        /\ \A v \in Workers \ {w} : botStage'[v] = botStage[v] /\ job'[v] = job[v]
    BY <1>4 DEF Bot!Reply, BotInv, BotTyped
  <2> QED
    BY <2>1 DEF BotInv, BotLineage, Bot!Topic
<1>5. ASSUME NEW w \in Workers, Bot!Created(w) \/ Bot!Answer(w) \/ Bot!LimitReached(w)
      PROVE BotLineage'
  <2>1. botStage[w] \in {"creating", "ask"} /\ BotHolds(w) /\ Bot!Topic(w) \in Topics
    BY <1>5, BotTopicTyped
      DEF Bot!Created, Bot!Answer, Bot!LimitReached, BotHolds, BotAsking, BotInv
  <2>2. \A v \in Workers \ {w} : botStage[v] \in {"creating", "ask"}
          => Bot!Topic(v) # Bot!Topic(w) /\ Bot!Topic(v) \in Topics
    BY <2>1, BotTopicsDiffer, BotTopicTyped DEF BotHolds, BotAsking, BotInv
  <2>3. /\ job' = job /\ \A v \in Workers \ {w} : botStage'[v] = botStage[v]
        /\ \A t \in Topics \ {Bot!Topic(w)} : sessions'[t] = sessions[t] /\ lineage'[t] = lineage[t]
    BY <1>5 DEF Bot!Created, Bot!Answer, Bot!LimitReached, BotInv, BotTyped
  <2>4. botStage'[w] \in {"ask", "reply", "session"}
    BY <1>5 DEF Bot!Created, Bot!Answer, Bot!LimitReached, BotInv, BotTyped
  <2>5. /\ lineage'[Bot!Topic(w)] = 0 <=> sessions'[Bot!Topic(w)] = 0
        /\ botStage'[w] = "ask" => sessions'[Bot!Topic(w)] # 0
    <3>1. CASE Bot!Created(w)
      <4>1. sessions'[Bot!Topic(w)] = opened + 1 /\ lineage[Bot!Topic(w)] \in {0, 1}
            /\ lineage'[Bot!Topic(w)] = lineage[Bot!Topic(w)] + 1
        BY <2>1, <3>1 DEF Bot!Created, BotInv, BotTyped
      <4> QED
        BY <4>1 DEF BotInv, BotTyped
    <3>2. CASE Bot!Answer(w)
      <4>1. botStage[w] = "ask" /\ botStage'[w] = "reply" /\ lineage' = lineage
        BY <3>2 DEF Bot!Answer, BotInv, BotTyped
      <4>2. sessions' = sessions \/ sessions'[Bot!Topic(w)] = opened + 1
        BY <2>1, <3>2 DEF Bot!Answer, BotInv, BotTyped
      <4>3. sessions[Bot!Topic(w)] # 0 /\ lineage[Bot!Topic(w)] # 0
        BY <2>1, <4>1 DEF BotInv, BotLineage
      <4> QED
        BY <4>1, <4>2, <4>3 DEF BotInv, BotTyped
    <3>3. CASE Bot!LimitReached(w)
      <4>1. botStage[w] = "ask" /\ botStage'[w] # "ask"
        BY <3>3 DEF Bot!LimitReached, BotInv, BotTyped
      <4>2. lineage[Bot!Topic(w)] = 1
        BY <2>1, <4>1 DEF BotInv, BotTyped, BotLineage
      <4>3. \/ sessions' = sessions /\ lineage' = lineage
            \/ sessions'[Bot!Topic(w)] = 0 /\ lineage'[Bot!Topic(w)] = lineage[Bot!Topic(w)] - 1
        BY <2>1, <3>3 DEF Bot!LimitReached, BotInv, BotTyped
      <4> QED
        BY <2>1, <4>1, <4>2, <4>3 DEF BotInv, BotLineage
    <3> QED
      BY <1>5, <3>1, <3>2, <3>3
  <2> QED
    BY <2>1, <2>2, <2>3, <2>4, <2>5 DEF BotInv, BotLineage, Bot!Topic
<1> QED
  BY <1>1, <1>2, <1>3, <1>4, <1>5 DEF Bot!Next, Bot!Work, Bot!Deliver, Bot!vars

LEMMA BotCountedStep == Bot!BotConstants /\ BotInv /\ [Bot!Next]_(Bot!vars) => BotCounted'
<1> SUFFICES ASSUME Bot!BotConstants, BotInv, [Bot!Next]_(Bot!vars) PROVE BotCounted'
  OBVIOUS
<1> USE DEF Bot!inbox, Bot!worker, Bot!agent, Bot!Goto, BotAsking
<1>1. CASE UNCHANGED Bot!vars
  BY <1>1 DEF Bot!vars, BotInv, BotCounted
<1>2. ASSUME NEW m \in Messages, Bot!Deliver(m) PROVE BotCounted'
  <2>1. UNCHANGED <<Bot!worker, asks>> /\ seen' = seen \cup {m}
    BY <1>2 DEF Bot!Deliver, Bot!Sees
  <2>2. \A i \in 1..Len(inbox') : asks[inbox'[i]] = 0
    <3>1. CASE m \notin seen /\ inbox' = Append(inbox, m)
      <4>1. \A i \in 1..Len(inbox') : inbox'[i] = m \/ (i \in 1..Len(inbox) /\ inbox'[i] = inbox[i])
        BY <3>1 DEF BotInv, BotTyped
      <4> QED
        BY <3>1, <4>1 DEF BotInv, BotCounted
    <3>2. CASE inbox' = inbox
      BY <3>2 DEF BotInv, BotCounted
    <3> QED
      BY <1>2, <3>1, <3>2 DEF Bot!Deliver
  <2> QED
    BY <2>1, <2>2 DEF BotInv, BotCounted
<1>3. ASSUME NEW w \in Workers, Bot!Take(w) PROVE BotCounted'
  <2>1. inbox \in Seq(Messages) /\ inbox # <<>> /\ inbox' = Tail(inbox)
          /\ UNCHANGED <<seen, asks, retried>>
    BY <1>3 DEF Bot!Take, BotInv, BotTyped
  <2>2. /\ job'[w] = inbox[1] /\ botStage'[w] = "waiting" /\ botStage[w] = "idle"
        /\ \A v \in Workers \ {w} : job'[v] = job[v] /\ botStage'[v] = botStage[v]
    BY <1>3, <2>1, BotTailOfQueue DEF Bot!Take, BotInv, BotTyped
  <2>3. asks[inbox[1]] = 0 /\ \A i \in 1..Len(inbox') : asks[inbox'[i]] = 0
    BY <2>1, BotTailOfQueue DEF BotInv, BotCounted
  <2> QED
    BY <2>1, <2>2, <2>3 DEF BotInv, BotCounted
<1>4. ASSUME NEW w \in Workers,
        Bot!Lock(w) \/ Bot!Reuse(w) \/ Bot!Create(w) \/ Bot!Created(w) \/ Bot!CreateFails(w)
      PROVE BotCounted'
  <2>1. /\ UNCHANGED <<inbox, seen, job, retried, asks>>
        /\ botStage[w] \in BotAsking \cup {"waiting"}
        /\ \E s \in BotAsking \cup {"reply"} : botStage' = [botStage EXCEPT ![w] = s]
    BY <1>4 DEF Bot!Lock, Bot!Reuse, Bot!Create, Bot!Created, Bot!CreateFails
  <2>2. \A v \in Workers : botStage'[v] # botStage[v]
          => v = w /\ botStage'[v] \in BotAsking \cup {"reply"}
    BY <2>1 DEF BotInv, BotTyped
  <2>3. asks[job[w]] <= IF retried[w] THEN 1 ELSE 0
    BY <2>1 DEF BotInv, BotCounted
  <2> QED
    BY <2>1, <2>2, <2>3 DEF BotInv, BotCounted
<1>5. ASSUME NEW w \in Workers, Bot!Answer(w) \/ Bot!LimitReached(w) PROVE BotCounted'
  <2>1. job[w] \in Messages /\ botStage[w] = "ask" /\ job[w] # Bot!None
    BY <1>5, BotTopicTyped DEF Bot!Answer, Bot!LimitReached, BotInv, BotLocks
  <2>2. /\ asks'[job[w]] = asks[job[w]] + 1 /\ UNCHANGED <<inbox, seen, job>>
        /\ \A m \in Messages \ {job[w]} : asks'[m] = asks[m]
    BY <1>5, <2>1 DEF Bot!Answer, Bot!LimitReached, BotInv, BotTyped
  <2>3. \A v \in Workers \ {w} : /\ botStage'[v] = botStage[v] /\ retried'[v] = retried[v]
                                 /\ job[v] # job[w]
    BY <1>5, <2>1 DEF Bot!Answer, Bot!LimitReached, BotInv, BotTyped, BotPlaced
  <2>4. \/ botStage'[w] = "reply" /\ retried' = retried
        \/ botStage'[w] = "session" /\ ~retried[w] /\ retried'[w]
    BY <1>5 DEF Bot!Answer, Bot!LimitReached, BotInv, BotTyped
  <2>5. asks[job[w]] \in Nat /\ asks[job[w]] <= IF retried[w] THEN 1 ELSE 0
    BY <2>1 DEF BotInv, BotCounted, BotTyped
  <2>6. job[w] \in seen /\ \A i \in 1..Len(inbox) : inbox[i] # job[w] /\ inbox[i] \in Messages
    BY <2>1 DEF BotInv, BotPlaced, BotTyped
  <2>7. \A m \in Messages : asks'[m] <= 2 /\ (m \notin seen' => asks'[m] = 0)
    BY <2>1, <2>2, <2>5, <2>6 DEF BotInv, BotCounted
  <2>8. \A i \in 1..Len(inbox') : asks'[inbox'[i]] = 0
    BY <2>2, <2>6 DEF BotInv, BotCounted
  <2>9. \A v \in Workers \ {w} : botStage[v] # "idle" => job[v] \in Messages
    BY BotTopicTyped DEF BotInv
  <2>10. ASSUME NEW v \in Workers, v # w
         PROVE  /\ botStage'[v] \in {"idle", "waiting"} => ~retried'[v]
                /\ botStage'[v] = "waiting" => asks'[job'[v]] = 0
                /\ botStage'[v] \in BotAsking => asks'[job'[v]] <= IF retried'[v] THEN 1 ELSE 0
    BY <2>2, <2>3, <2>9, <2>10 DEF BotInv, BotCounted
  <2>11. /\ botStage'[w] \notin {"idle", "waiting"}
         /\ botStage'[w] \in BotAsking => asks'[job'[w]] <= IF retried'[w] THEN 1 ELSE 0
    BY <2>2, <2>4, <2>5
  <2> QED
    BY <2>7, <2>8, <2>10, <2>11 DEF BotCounted
<1>6. ASSUME NEW w \in Workers, Bot!Reply(w) PROVE BotCounted'
  <2>1. /\ UNCHANGED <<inbox, seen, asks>> /\ botStage'[w] = "idle" /\ retried'[w] = FALSE
        /\ \A v \in Workers \ {w} : botStage'[v] = botStage[v] /\ job'[v] = job[v] /\ retried'[v] = retried[v]
    BY <1>6 DEF Bot!Reply, BotInv, BotTyped
  <2> QED
    BY <2>1 DEF BotInv, BotCounted
<1> QED
  BY <1>1, <1>2, <1>3, <1>4, <1>5, <1>6 DEF Bot!Next, Bot!Work

\* Workers with one message are one worker.
LEMMA BotInvImplies == Bot!BotConstants /\ BotInv => Bot!OneSessionPerTopic
<1> SUFFICES ASSUME Bot!BotConstants, BotInv PROVE Bot!OneSessionPerTopic
  OBVIOUS
<1>1. \A t \in Topics : lineage[t] <= 1
  <2>1. \A t \in Topics : lineage[t] \in {0, 1}
    BY DEF BotInv, BotTyped
  <2> QED
    BY <2>1
<1>2. \A v, w \in Workers : v # w /\ botStage[v] = "ask" /\ botStage[w] = "ask"
        => Bot!Topic(v) # Bot!Topic(w)
  BY BotTopicsDiffer DEF BotInv, BotHolds, BotAsking
<1>3. ASSUME NEW m \in Messages
      PROVE  asks[m] <= 2 /\ \A v, w \in Workers : job[v] = m /\ job[w] = m => v = w
  <2>1. m # Bot!None
    BY DEF Bot!BotConstants, Bot!None
  <2>2. asks[m] <= 2
    BY DEF BotInv, BotCounted
  <2> QED
    BY <2>1, <2>2 DEF BotInv, BotPlaced
<1> QED
  BY <1>1, <1>2, <1>3 DEF Bot!OneSessionPerTopic

THEOREM BotTopicsKeepTheirSession ==
    ASSUME Bot!BotConstants
    PROVE  Bot!Spec => []Bot!OneSessionPerTopic
<1>1. Bot!Init => BotInv
  BY BotInvInit
<1>2. BotInv /\ [Bot!Next]_(Bot!vars) => BotInv'
  BY BotTypedStep, BotLocksStep, BotPlacedStep, BotLineageStep, BotCountedStep DEF BotInv
<1>3. BotInv => Bot!OneSessionPerTopic
  BY BotInvImplies
<1> QED
  BY <1>1, <1>2, <1>3, PTL DEF Bot!Spec

-----------------------------------------------------------------------------
(* The requests to the model.  The invariant counts the requests of a call   *)
(* by its slot, its pass without usage and its degraded pass.                *)

ModelSent == [tier : Nat, usage : BOOLEAN, forced : BOOLEAN]

ModelFlags == forced \in BOOLEAN /\ usage \in BOOLEAN /\ degraded \in BOOLEAN

ModelTyped ==
  /\ tiers \in Nat \ {0}
  /\ phase \in {"send", "stream", "failed", "backoff", "done"}
  /\ slot \in Nat
  /\ requests \in Seq(ModelSent) /\ buffer \in Seq(Nat) /\ textShown \in Seq(Nat)
  /\ attemptsSeen \in Seq({"success", "retried", "failed"})
  /\ result \in {"none", "error", "response", "degraded"}

\* The current request says what the call has found out so far, and the buffer holds its text.
ModelCurrent ==
  /\ degraded => forced
  /\ phase # "send" =>
       /\ requests # <<>>
       /\ requests[Len(requests)].forced = (forced /\ ~degraded)
       /\ \A n \in 1..Len(buffer) : buffer[n] = Len(requests)

\* Text is shown with the response it belongs to.
ModelShown ==
  /\ result # "none" <=> phase = "done"
  /\ textShown = IF result \in {"response", "degraded"} THEN buffer ELSE <<>>
  /\ result = "response" => ~degraded
  /\ result = "degraded" => degraded

\* Every request but the one under way is accounted for; each but the first of them cost a slot or
\* a feature.
ModelCounted ==
  /\ Len(attemptsSeen) = Len(requests) - (IF phase \in {"stream", "failed", "backoff"} THEN 1 ELSE 0)
  /\ \A n \in 1..Len(attemptsSeen) :
       attemptsSeen[n] = "retried" <=> (phase # "done" \/ n < Len(requests))
  /\ Len(requests) = slot + (IF usage THEN 0 ELSE 1) + (IF degraded THEN 1 ELSE 0)
                          + (IF phase = "send" THEN 0 ELSE 1)
  /\ slot < Model!Budget
  /\ phase = "backoff" => slot + 1 < Model!Budget

ModelInv == ModelFlags /\ ModelTyped /\ ModelCurrent /\ ModelShown /\ ModelCounted

LEMMA ModelBudgetTyped ==
    Model!ModelConstants /\ ModelTyped => Model!Budget \in Nat \ {0} /\ MinAttempts \in Nat
BY DEF Model!ModelConstants, ModelTyped, Model!Budget

LEMMA ModelInvInit == Model!ModelConstants /\ Model!Init => ModelInv
<1> SUFFICES ASSUME Model!ModelConstants, Model!Init PROVE ModelInv
  OBVIOUS
<1>1. ModelTyped
  BY DEF Model!ModelConstants, Model!Init, ModelTyped, ModelSent
<1>2. 0 < Model!Budget
  BY <1>1, ModelBudgetTyped
<1>3. ModelFlags
  BY Zenon DEF Model!Init, ModelFlags
<1>4. ModelCurrent /\ ModelShown /\ ModelCounted
  BY <1>2 DEF Model!Init, ModelCurrent, ModelShown, ModelCounted
<1> QED
  BY <1>1, <1>3, <1>4 DEF ModelInv

\* One element more at the end.
LEMMA ModelAppended ==
    ASSUME NEW S, NEW s \in Seq(S), NEW x \in S
    PROVE  /\ Append(s, x) \in Seq(S) /\ Len(Append(s, x)) = Len(s) + 1 /\ Len(s) \in Nat
           /\ Append(s, x)[Len(s) + 1] = x
           /\ \A n \in 1..Len(s) : Append(s, x)[n] = s[n]
OBVIOUS

LEMMA ModelFlagsStep == ModelFlags /\ [Model!Next]_(Model!vars) => ModelFlags'
<1> SUFFICES ASSUME ModelFlags, [Model!Next]_(Model!vars) PROVE ModelFlags'
  OBVIOUS
<1>1. CASE Model!Narrow
  BY <1>1, Zenon DEF ModelFlags, Model!Narrow, Model!given
<1>2. UNCHANGED <<Model!given, Model!shape>> \/ Model!Narrow
  BY Zenon
    DEF Model!Next, Model!Send, Model!Chunk, Model!Finish, Model!Fail, Model!GiveUp, Model!Retry,
       Model!Resume, Model!Abandon, Model!Cancel, Model!vars
<1> QED
  BY <1>1, <1>2, Zenon DEF ModelFlags, Model!given, Model!shape

\* The rest of the invariant.
ModelRest == ModelTyped /\ ModelCurrent /\ ModelShown /\ ModelCounted

LEMMA ModelRestStep == Model!ModelConstants /\ ModelInv /\ [Model!Next]_(Model!vars) => ModelRest'
<1> SUFFICES ASSUME Model!ModelConstants, ModelInv, [Model!Next]_(Model!vars) PROVE ModelRest'
  OBVIOUS
<1>0. Model!Budget \in Nat \ {0} /\ (UNCHANGED tiers => Model!Budget' = Model!Budget)
  BY ModelBudgetTyped DEF ModelInv, Model!Budget
<1> USE DEF Model!given, Model!shape
<1>1. CASE Model!Send
  <2> DEFINE r == [tier |-> Model!TierOf(slot), usage |-> usage, forced |-> forced /\ ~degraded]
  <2>1. Model!TierOf(slot) \in Nat
    BY DEF Model!TierOf, ModelInv, ModelTyped
  <2>2. r \in ModelSent
    <3>1. usage \in BOOLEAN /\ (forced /\ ~degraded) \in BOOLEAN
      BY Zenon DEF ModelInv, ModelFlags
    <3> QED
      BY <2>1, <3>1, Zenon DEF ModelSent
  <2>3. requests' = Append(requests, r) /\ phase = "send" /\ phase' = "stream" /\ buffer' = <<>>
        /\ UNCHANGED <<tiers, forced, usage, degraded, slot, attemptsSeen, textShown, result>>
    BY <1>1 DEF Model!Send
  <2>4. /\ requests' \in Seq(ModelSent) /\ Len(requests') = Len(requests) + 1
        /\ Len(requests) \in Nat
        /\ requests'[Len(requests')] = r
    BY <2>2, <2>3, ModelAppended DEF ModelInv, ModelTyped
  <2>5. ModelTyped'
    BY <2>3, <2>4 DEF ModelInv, ModelTyped
  <2>6. ModelCurrent'
    BY <2>3, <2>4 DEF ModelInv, ModelCurrent
  <2>7. ModelShown'
    BY <2>3 DEF ModelInv, ModelShown, ModelTyped
  <2>8. ModelCounted'
    BY <1>0, <2>3, <2>4 DEF ModelInv, ModelCounted, ModelTyped
  <2> QED
    BY <2>5, <2>6, <2>7, <2>8 DEF ModelRest
<1>2. CASE Model!Chunk
  <2>1. /\ buffer' = Append(buffer, Len(requests)) /\ phase = "stream" /\ Len(requests) \in Nat
        /\ UNCHANGED <<tiers, forced, usage, degraded, phase, slot, requests, attemptsSeen,
                       textShown, result>>
    BY <1>2 DEF Model!Chunk, ModelInv, ModelTyped
  <2>2. buffer' \in Seq(Nat) /\ \A n \in 1..Len(buffer') :
           buffer'[n] = Len(requests) \/ (n \in 1..Len(buffer) /\ buffer'[n] = buffer[n])
    BY <2>1, ModelAppended DEF ModelInv, ModelTyped
  <2>3. ModelTyped' /\ ModelCurrent'
    BY <2>1, <2>2 DEF ModelInv, ModelTyped, ModelCurrent
  <2>4. ModelShown'
    BY <2>1 DEF ModelInv, ModelShown
  <2>5. ModelCounted'
    BY <1>0, <2>1 DEF ModelInv, ModelCounted
  <2> QED
    BY <2>3, <2>4, <2>5 DEF ModelRest
<1>3. CASE Model!Finish
  <2>1. /\ phase = "stream" /\ phase' = "done" /\ attemptsSeen' = Append(attemptsSeen, "success")
        /\ textShown' = textShown \o buffer
        /\ result' = IF degraded THEN "degraded" ELSE "response"
        /\ UNCHANGED <<tiers, forced, usage, degraded, slot, requests, buffer>>
    BY <1>3 DEF Model!Finish, Model!Records, Model!Returns
  <2>2. textShown = <<>> /\ textShown' = buffer
    BY <2>1 DEF ModelInv, ModelShown, ModelTyped
  <2>3. ModelTyped' /\ ModelCurrent' /\ ModelShown'
    BY <2>1, <2>2 DEF ModelInv, ModelTyped, ModelCurrent, ModelShown
  <2>4. /\ Len(attemptsSeen') = Len(attemptsSeen) + 1
        /\ attemptsSeen'[Len(attemptsSeen) + 1] = "success"
        /\ Len(attemptsSeen) \in Nat /\ Len(requests) \in Nat
        /\ \A n \in 1..Len(attemptsSeen) : attemptsSeen'[n] = attemptsSeen[n]
    BY <2>1, ModelAppended DEF ModelInv, ModelTyped
  <2>5. Len(attemptsSeen) + 1 = Len(requests)
    BY <2>1, <2>4 DEF ModelInv, ModelCounted
  <2>6. \A n \in 1..Len(attemptsSeen') : n \in 1..Len(attemptsSeen) \/ n = Len(requests)
    BY <2>4, <2>5
  <2>7. \A n \in 1..Len(attemptsSeen') : attemptsSeen'[n] = "retried" <=> n < Len(requests)
    BY <2>1, <2>4, <2>5, <2>6 DEF ModelInv, ModelCounted
  <2>8. ModelCounted'
    BY <1>0, <2>1, <2>4, <2>5, <2>7 DEF ModelInv, ModelCounted
  <2> QED
    BY <2>3, <2>8 DEF ModelRest
<1>4. CASE Model!Fail
  <2>1. /\ phase = "stream" /\ phase' = "failed"
        /\ UNCHANGED <<tiers, forced, usage, degraded, slot, requests, buffer, attemptsSeen,
                       textShown, result>>
    BY <1>4 DEF Model!Fail
  <2>2. ModelTyped' /\ ModelCurrent' /\ ModelShown'
    BY <2>1 DEF ModelInv, ModelTyped, ModelCurrent, ModelShown
  <2>3. ModelCounted'
    BY <1>0, <2>1 DEF ModelInv, ModelCounted
  <2> QED
    BY <2>2, <2>3 DEF ModelRest
<1>5. ASSUME phase \in {"failed", "backoff"}, phase' = "send",
        attemptsSeen' = Append(attemptsSeen, "retried"),
             UNCHANGED <<tiers, forced, requests, buffer, textShown, result>>,
             slot' \in Nat, slot' < Model!Budget,
             degraded' => forced,
             slot' + (IF usage' THEN 0 ELSE 1) + (IF degraded' THEN 1 ELSE 0) =
               slot + (IF usage THEN 0 ELSE 1) + (IF degraded THEN 1 ELSE 0) + 1
      PROVE  ModelRest'
  <2>1. ModelTyped' /\ ModelCurrent' /\ ModelShown'
    BY <1>5 DEF ModelInv, ModelTyped, ModelCurrent, ModelShown
  <2>2. /\ Len(attemptsSeen') = Len(attemptsSeen) + 1
        /\ attemptsSeen'[Len(attemptsSeen) + 1] = "retried"
        /\ Len(attemptsSeen) \in Nat /\ Len(requests) \in Nat
        /\ \A n \in 1..Len(attemptsSeen) : attemptsSeen'[n] = attemptsSeen[n]
    BY <1>5, ModelAppended DEF ModelInv, ModelTyped
  <2>3. Len(attemptsSeen) + 1 = Len(requests)
    BY <1>5, <2>2 DEF ModelInv, ModelCounted
  <2>4. \A n \in 1..Len(attemptsSeen') : attemptsSeen'[n] = "retried"
    <3>1. \A n \in 1..Len(attemptsSeen') : n \in 1..Len(attemptsSeen) \/ n = Len(attemptsSeen) + 1
      BY <2>2
    <3> QED
      BY <1>5, <2>2, <3>1 DEF ModelInv, ModelCounted
  <2>5. Len(requests) = slot' + (IF usage' THEN 0 ELSE 1) + (IF degraded' THEN 1 ELSE 0)
    BY <1>5, <2>2 DEF ModelInv, ModelCounted
  <2>6. ModelCounted'
    BY <1>0, <1>5, <2>2, <2>3, <2>4, <2>5 DEF ModelCounted
  <2> QED
    BY <2>1, <2>6 DEF ModelRest
<1>6. CASE Model!Narrow
  <2>1. \/ failure = "usage" /\ usage /\ ~usage' /\ degraded' = degraded
        \/ failure = "forcing" /\ forced /\ ~degraded /\ degraded' /\ usage' = usage
    <3>1. CASE failure = "usage"
      BY <1>6, <3>1, Zenon DEF Model!Narrow, Model!Narrows, ModelInv, ModelFlags
    <3>2. CASE failure # "usage"
      BY <1>6, <3>2, Zenon DEF Model!Narrow, Model!Narrows, ModelInv, ModelFlags
    <3> QED
      BY <3>1, <3>2
  <2>2. /\ phase = "failed" /\ phase' = "send" /\ attemptsSeen' = Append(attemptsSeen, "retried")
        /\ UNCHANGED <<tiers, forced, slot, requests, buffer, textShown, result>>
    BY <1>6 DEF Model!Narrow, Model!Records, ModelInv, ModelTyped
  <2>3. slot \in Nat /\ slot < Model!Budget /\ (degraded => forced)
    BY DEF ModelInv, ModelTyped, ModelCounted, ModelCurrent
  <2> QED
    BY <1>5, <2>1, <2>2, <2>3
<1>7. ASSUME phase \in {"failed", "backoff"}, attemptsSeen' = Append(attemptsSeen, "failed"),
        result' = "error",
             phase' = "done", UNCHANGED <<tiers, forced, usage, degraded, slot, requests, buffer,
                                          textShown>>
      PROVE  ModelRest'
  <2>1. ModelTyped' /\ ModelCurrent' /\ ModelShown'
    BY <1>7 DEF ModelInv, ModelTyped, ModelCurrent, ModelShown
  <2>2. /\ Len(attemptsSeen') = Len(attemptsSeen) + 1
        /\ attemptsSeen'[Len(attemptsSeen) + 1] = "failed"
        /\ Len(attemptsSeen) \in Nat /\ Len(requests) \in Nat
        /\ \A n \in 1..Len(attemptsSeen) : attemptsSeen'[n] = attemptsSeen[n]
    BY <1>7, ModelAppended DEF ModelInv, ModelTyped
  <2>3. Len(attemptsSeen) + 1 = Len(requests)
    BY <1>7, <2>2 DEF ModelInv, ModelCounted
  <2>4. \A n \in 1..Len(attemptsSeen') : n \in 1..Len(attemptsSeen) \/ n = Len(requests)
    BY <2>2, <2>3
  <2>5. \A n \in 1..Len(attemptsSeen') : attemptsSeen'[n] = "retried" <=> n < Len(requests)
    BY <1>7, <2>2, <2>3, <2>4 DEF ModelInv, ModelCounted
  <2>6. ModelCounted'
    BY <1>0, <1>7, <2>2, <2>3, <2>5 DEF ModelInv, ModelCounted
  <2> QED
    BY <2>1, <2>6 DEF ModelRest
<1>8. CASE Model!GiveUp \/ Model!Abandon
  BY <1>7, <1>8 DEF Model!GiveUp, Model!Abandon, Model!Records, Model!Returns
<1>9. CASE Model!Retry
  <2>1. CASE Model!Waits
    <3>1. /\ phase = "failed" /\ phase' = "backoff" /\ slot + 1 < Model!Budget
          /\ UNCHANGED <<tiers, forced, usage, degraded, slot, requests, buffer, attemptsSeen,
                         textShown, result>>
      BY <1>9, <2>1 DEF Model!Retry
    <3>2. ModelTyped' /\ ModelCurrent' /\ ModelShown'
      BY <3>1 DEF ModelInv, ModelTyped, ModelCurrent, ModelShown
    <3>3. ModelCounted'
      BY <1>0, <3>1 DEF ModelInv, ModelCounted
    <3> QED
      BY <3>2, <3>3 DEF ModelRest
  <2>2. CASE ~Model!Waits
    <3>1. /\ phase = "failed" /\ phase' = "send"
          /\ attemptsSeen' = Append(attemptsSeen, "retried")
          /\ slot' = slot + 1 /\ slot + 1 < Model!Budget
          /\ UNCHANGED <<tiers, forced, usage, degraded, requests, buffer, textShown, result>>
      BY <1>9, <2>2 DEF Model!Retry, Model!Proceed, Model!Records
    <3>2. slot + 1 \in Nat /\ slot \in Nat /\ (degraded => forced)
      BY DEF ModelInv, ModelTyped, ModelCurrent
    <3> QED
      BY <1>5, <3>1, <3>2
  <2> QED
    BY <2>1, <2>2
<1>10. CASE Model!Resume
  <2>1. /\ phase = "backoff" /\ phase' = "send" /\ attemptsSeen' = Append(attemptsSeen, "retried")
        /\ slot' = slot + 1
        /\ UNCHANGED <<tiers, forced, usage, degraded, requests, buffer, textShown, result>>
    BY <1>10 DEF Model!Resume, Model!Proceed, Model!Records
  <2>2. slot + 1 \in Nat /\ slot \in Nat /\ (degraded => forced) /\ slot + 1 < Model!Budget
       
    BY <2>1 DEF ModelInv, ModelTyped, ModelCurrent, ModelCounted
  <2> QED
    BY <1>5, <2>1, <2>2
<1>11. CASE Model!Cancel \/ UNCHANGED Model!vars
  <2>1. UNCHANGED <<tiers, forced, phase, slot, usage, degraded, requests, buffer, attemptsSeen,
                    textShown, result>>
    BY <1>11 DEF Model!Cancel, Model!vars
  <2>2. ModelTyped' /\ ModelCurrent' /\ ModelShown'
    BY <2>1 DEF ModelInv, ModelTyped, ModelCurrent, ModelShown
  <2>3. ModelCounted'
    BY <1>0, <2>1 DEF ModelInv, ModelCounted
  <2> QED
    BY <2>2, <2>3 DEF ModelRest
<1> QED
  BY <1>1, <1>2, <1>3, <1>4, <1>6, <1>8, <1>9, <1>10, <1>11 DEF Model!Next

LEMMA ModelInvImplies == Model!ModelConstants /\ ModelInv => Model!RetriesAreTold
<1> SUFFICES ASSUME Model!ModelConstants, ModelInv PROVE Model!RetriesAreTold
  OBVIOUS
<1>1. Model!ShownIsReturned
  <2>1. \A n \in DOMAIN textShown : textShown[n] = Len(requests)
    BY DEF ModelInv, ModelTyped, ModelCurrent, ModelShown
  <2>2. result = "response" => requests[Len(requests)].forced = forced
    <3> SUFFICES ASSUME result = "response" PROVE requests[Len(requests)].forced = forced
      OBVIOUS
    <3>1. ~degraded /\ requests[Len(requests)].forced = (forced /\ ~degraded)
      BY DEF ModelInv, ModelCurrent, ModelShown
    <3>2. forced \in BOOLEAN
      BY Zenon DEF ModelInv, ModelFlags
    <3> QED
      BY <3>1, <3>2, Zenon
  <2>3. result = "degraded" => forced /\ ~requests[Len(requests)].forced
    BY DEF ModelInv, ModelCurrent, ModelShown
  <2> QED
    BY <2>1, <2>2, <2>3 DEF Model!ShownIsReturned, ModelInv, ModelShown
<1>2. Model!AttemptsAreAccounted
  <2>1. Model!Budget \in Nat /\ Len(requests) \in Nat /\ Len(attemptsSeen) \in Nat /\ slot \in Nat
        /\ DOMAIN attemptsSeen = 1..Len(attemptsSeen)
    BY ModelBudgetTyped DEF ModelInv, ModelTyped
  <2>2. phase = "done" => Len(attemptsSeen) = Len(requests)
    BY <2>1 DEF ModelInv, ModelCounted
  <2>3. Len(requests) <= Model!Budget + (IF forced THEN 2 ELSE 1)
    BY <2>1 DEF ModelInv, ModelCounted, ModelCurrent
  <2>4. \A n \in DOMAIN attemptsSeen :
          (attemptsSeen[n] = "retried") = (n < Len(requests) \/ (n = Len(requests) /\ phase = "send"))
    <3> SUFFICES ASSUME NEW n \in 1..Len(attemptsSeen)
                 PROVE  (attemptsSeen[n] = "retried") <=>
                          (n < Len(requests) \/ (n = Len(requests) /\ phase = "send"))
      BY <2>1
    <3>1. attemptsSeen[n] = "retried" <=> (phase # "done" \/ n < Len(requests))
      BY DEF ModelInv, ModelCounted
    <3>2. n <= Len(attemptsSeen)
      BY <2>1
    <3> QED
      BY <2>1, <3>1, <3>2 DEF ModelInv, ModelCounted, ModelTyped
  <2> QED
    BY <2>2, <2>3, <2>4 DEF Model!AttemptsAreAccounted
<1> QED
  BY <1>1, <1>2 DEF Model!RetriesAreTold

THEOREM ModelRetriesTold ==
    ASSUME Model!ModelConstants
    PROVE  Model!Spec => []Model!RetriesAreTold
<1>1. Model!Init => ModelInv
  BY ModelInvInit
<1>2. ModelInv /\ [Model!Next]_(Model!vars) => ModelInv'
  BY ModelFlagsStep, ModelRestStep DEF ModelInv, ModelRest
<1>3. ModelInv => Model!RetriesAreTold
  BY ModelInvImplies
<1> QED
  BY <1>1, <1>2, <1>3, PTL DEF Model!Spec

-----------------------------------------------------------------------------
(* The background job.  The invariant says where launcher, wrapper and the  *)
(* job's files can be at once, what a poll that is half through has read    *)
(* that still holds, and how far into the log its readers are.              *)

\* What is in the job's directory, and what runs, at each stage of the launcher.
RemotePlaces ==
  /\ launcher \in {"none", "asked"} => wrapper = "none" /\ ~directory
  /\ launcher = "made" => wrapper = "none"
  /\ launcher = "forked" => wrapper # "none"
  /\ launcher \in {"made", "forked"} => directory
  /\ pid \/ status # "none" => wrapper # "none"
  /\ ~directory => ~Remote!Alive
  /\ wiped => ~Remote!Alive /\ launcher \in {"recorded", "stopped"}

\* What the poll has read is still so when it is told.
RemoteRead ==
  /\ pollCall # "none" => tracked
  /\ state \in Remote!Terminal => ~tracked
  /\ verdict # "not_found" /\ (pollCall = "log" <=> verdict # "none")
  /\ readStatus = "zero" \/ verdict = "succeeded" \/ state = "succeeded"
       => status = "zero" \/ wiped
  /\ readStatus = "other" \/ verdict = "failed" \/ state = "failed"
       => status = "other" \/ wiped
  /\ verdict = "interrupted" \/ state = "interrupted" => wrapper = "ended" \/ early
  /\ pollCall \in {"process", "identity"} => wrapper # "none"
  /\ state = "not_found" => early \/ wiped \/ (~directory /\ launcher # "asked")

\* The harness reads on from where the model of this run was shown the log.
RemoteShown ==
  /\ state = "none" => offset = Remote!Unread /\ accounted = 0
  /\ ~misread /\ ~wiped =>
       /\ faithful /\ accounted <= log
       /\ tracked => accounted = (IF offset = Remote!Unread THEN 0 ELSE offset)

RemoteInv ==
  Remote!TypeOK /\ RemotePlaces /\ RemoteRead /\ RemoteShown /\ Remote!HandleOutlivesJob

LEMMA RemoteInvInit == Remote!JobConstants /\ Remote!Init => RemoteInv
<1> SUFFICES ASSUME Remote!JobConstants, Remote!Init PROVE RemoteInv
  OBVIOUS
<1> USE DEF Remote!Init, Remote!Terminal, Remote!Unread
<1>1. Remote!TypeOK
  <2>1. LogLimit \in Nat /\ JobFaultLimit \in Nat
    BY DEF Remote!JobConstants
  <2>2. 0 \in 0..LogLimit /\ 0 \in 0..JobFaultLimit /\ -1 \in -1..LogLimit
    BY <2>1
  <2> QED
    BY <2>2, Zenon DEF Remote!TypeOK
<1>2. RemotePlaces /\ Remote!HandleOutlivesJob
  BY DEF RemotePlaces, Remote!Alive, Remote!HandleOutlivesJob, Remote!Pending
<1>3. RemoteRead /\ RemoteShown
  BY DEF RemoteRead, RemoteShown
<1> QED
  BY <1>1, <1>2, <1>3 DEF RemoteInv

LEMMA RemoteTypedStep ==
    ASSUME Remote!JobConstants, Remote!TypeOK, [Remote!Next]_(Remote!vars)
    PROVE  Remote!TypeOK'
<1> USE DEF Remote!TypeOK, Remote!Terminal, Remote!Unread, Remote!job, Remote!poll,
        Remote!answer, Remote!history, Remote!Tell, Remote!Fault, Remote!Alive
<1>1. LogWindow \in Nat /\ LogLimit \in Nat /\ JobFaultLimit \in Nat
  BY DEF Remote!JobConstants
<1>2. CASE Remote!Guest
  <2>1. UNCHANGED <<tracked, pollCall, readStatus, verdict, state, offset, accounted, faithful>>
    BY <1>2 DEF Remote!Guest
  <2> DEFINE Calm == UNCHANGED <<early, wiped, misread, jobFaults>>
  <2>2. CASE Remote!MakeDirectory /\ Calm
    BY <1>1, <2>1, <2>2 DEF Remote!MakeDirectory
  <2>3. CASE Remote!Fork /\ Calm
    BY <1>1, <2>1, <2>3 DEF Remote!Fork
  <2>4. CASE Remote!WritePid /\ Calm
    BY <1>1, <2>1, <2>4 DEF Remote!WritePid
  <2>5. CASE Remote!Announce /\ Calm
    BY <1>1, <2>1, <2>5 DEF Remote!Announce
  <2>6. CASE Remote!Complete /\ Calm
    BY <1>1, <2>1, <2>6 DEF Remote!Complete
  <2>7. CASE Remote!End /\ Calm
    BY <1>1, <2>1, <2>7 DEF Remote!End
  <2>8. CASE Remote!Reuse /\ Calm
    BY <1>1, <2>1, <2>8 DEF Remote!Reuse
  <2>9. CASE Remote!Dies
    BY <1>1, <2>1, <2>9 DEF Remote!Dies, Remote!Ended, Remote!Stopped
  <2>10. CASE Remote!Reboot
    <3>1. jobFaults' \in 0..JobFaultLimit /\ log' \in 0..LogLimit
      BY <1>1, <2>10 DEF Remote!Reboot
    <3>2. /\ directory' \in BOOLEAN /\ pid' \in BOOLEAN /\ reused' \in BOOLEAN
          /\ early' \in BOOLEAN /\ wiped' \in BOOLEAN /\ misread' \in BOOLEAN
      BY <2>10, Zenon DEF Remote!Reboot
    <3>3. launcher' \in {launcher, "stopped"} /\ wrapper' \in {wrapper, "ended"}
          /\ status' \in {status, "none"}
      BY <2>10 DEF Remote!Reboot, Remote!Ended, Remote!Stopped
    <3> QED
      BY <2>1, <3>1, <3>2, <3>3
  <2>11. CASE Remote!Mark /\ Calm
    BY <1>1, <2>1, <2>11 DEF Remote!Mark
  <2> QED
    BY <1>2, <2>2, <2>3, <2>4, <2>5, <2>6, <2>7, <2>8, <2>9, <2>10, <2>11
       DEF Remote!Guest
<1>3. CASE Remote!Harness
  <2>1. CASE Remote!Launch
    BY <1>1, <2>1 DEF Remote!Launch
  <2>2. CASE Remote!Unreached
    <3>1. jobFaults' \in 0..JobFaultLimit
      BY <1>1, <2>2 DEF Remote!Unreached
    <3>2. tracked' \in BOOLEAN
      BY <2>2, Zenon DEF Remote!Unreached
    <3> QED
      BY <2>2, <3>1, <3>2 DEF Remote!Unreached
  <2>3. CASE Remote!Started
    BY <1>1, <2>3 DEF Remote!Started
  <2>4. CASE Remote!StartUnknown
    BY <1>1, <2>4 DEF Remote!StartUnknown
  <2>5. CASE Remote!EndRun
    BY <1>1, <2>5 DEF Remote!EndRun
  <2>6. CASE Remote!Poll
    <3>1. early' \in BOOLEAN
      BY <2>6, Zenon DEF Remote!Poll
    <3> QED
      BY <1>1, <2>6, <3>1 DEF Remote!Poll
  <2>7. CASE Remote!PollFails
    BY <1>1, <2>7 DEF Remote!PollFails
  <2>8. CASE Remote!ReadDirectory
    <3>1. offset' \in Remote!Unread..LogLimit
      BY <1>1, <2>8 DEF Remote!ReadDirectory
    <3>2. tracked' \in BOOLEAN /\ early' \in BOOLEAN
      BY <2>8, Zenon DEF Remote!ReadDirectory
    <3> QED
      BY <2>8, <3>1, <3>2 DEF Remote!ReadDirectory
  <2>9. CASE Remote!ReadStatus
    BY <1>1, <2>9 DEF Remote!ReadStatus
  <2>10. CASE Remote!ReadPid
    <3>1. pollCall' \in {"process", "log"}
          /\ verdict' \in {verdict, "succeeded", "failed", "unknown"}
      BY <2>10 DEF Remote!ReadPid, Remote!Concludes, Remote!WithoutPid
    <3> QED
      BY <2>10, <3>1 DEF Remote!ReadPid
  <2>11. CASE Remote!ReadProcess
    BY <1>1, <2>11 DEF Remote!ReadProcess, Remote!Concludes
  <2>12. CASE Remote!ReadIdentity
    BY <1>1, <2>12 DEF Remote!ReadIdentity, Remote!Concludes
  <2>13. CASE Remote!Unreadable
    BY <1>1, <2>13 DEF Remote!Unreadable, Remote!Concludes
  <2>14. CASE Remote!ReadLog
    BY <1>1, <2>14 DEF Remote!ReadLog, Remote!Answers
  <2>15. CASE Remote!LogUnreadable
    BY <1>1, <2>15 DEF Remote!LogUnreadable, Remote!Answers
  <2> QED
    BY <1>3, <2>1, <2>2, <2>3, <2>4, <2>5, <2>6, <2>7, <2>8,
       <2>9, <2>10, <2>11, <2>12, <2>13, <2>14, <2>15
       DEF Remote!Harness
<1>4. CASE UNCHANGED Remote!vars
  BY SMTT(30), <1>4 DEF Remote!vars
<1> QED
  BY <1>2, <1>3, <1>4 DEF Remote!Next

\* A step of the guest: the launcher, the wrapper, a death or a reboot.
LEMMA RemoteGuestStep ==
    ASSUME Remote!JobConstants, RemoteInv, Remote!Guest
    PROVE  (RemotePlaces /\ RemoteRead /\ RemoteShown /\ Remote!HandleOutlivesJob)'
<1> USE DEF Remote!JobConstants, RemoteInv, Remote!TypeOK, RemotePlaces, RemoteRead, RemoteShown,
        Remote!HandleOutlivesJob, Remote!Pending, Remote!Alive, Remote!Terminal, Remote!Unread, Remote!poll,
        Remote!answer, Remote!history
<1>1. /\ UNCHANGED <<tracked, pollCall, readStatus, verdict, state, offset, accounted, faithful>>
  BY DEF Remote!Guest
<1> DEFINE Calm == UNCHANGED <<early, wiped, misread, jobFaults>>
<1>2. CASE Remote!MakeDirectory /\ Calm
  BY <1>1, <1>2 DEF Remote!MakeDirectory
<1>3. CASE Remote!Fork /\ Calm
  BY <1>1, <1>3 DEF Remote!Fork
<1>4. CASE Remote!WritePid /\ Calm
  <2>1. RemotePlaces'
    BY <1>1, <1>4 DEF Remote!WritePid
  <2>2. RemoteRead'
    BY <1>1, <1>4 DEF Remote!WritePid
  <2>3. RemoteShown'
    BY <1>1, <1>4 DEF Remote!WritePid
  <2>4. Remote!HandleOutlivesJob'
    BY <1>1, <1>4 DEF Remote!WritePid
  <2> QED
    BY <2>1, <2>2, <2>3, <2>4
<1>5. CASE Remote!Announce /\ Calm
  BY <1>1, <1>5 DEF Remote!Announce
<1>6. CASE Remote!Complete /\ Calm
  BY <1>1, <1>6 DEF Remote!Complete
<1>7. CASE Remote!End /\ Calm
  BY <1>1, <1>7 DEF Remote!End
<1>8. CASE Remote!Reuse /\ Calm
  BY <1>1, <1>8 DEF Remote!Reuse
<1>9. CASE Remote!Dies
  BY <1>1, <1>9 DEF Remote!Dies, Remote!Ended, Remote!Stopped, Remote!Fault
<1>10. CASE Remote!Reboot
  <2>1. RemotePlaces'
    BY <1>1, <1>10 DEF Remote!Reboot, Remote!Ended, Remote!Stopped, Remote!Fault
  <2>2. RemoteRead'
    BY <1>1, <1>10 DEF Remote!Reboot, Remote!Ended, Remote!Stopped, Remote!Fault
  <2>3. RemoteShown'
    BY <1>1, <1>10 DEF Remote!Reboot, Remote!Ended, Remote!Stopped, Remote!Fault
  <2>4. Remote!HandleOutlivesJob'
    BY SMTT(30), <1>1, <1>10 DEF Remote!Reboot, Remote!Ended, Remote!Stopped, Remote!Fault
  <2> QED
    BY <2>1, <2>2, <2>3, <2>4
<1>11. CASE Remote!Mark /\ Calm
  BY <1>1, <1>11 DEF Remote!Mark
<1> QED
  BY <1>2, <1>3, <1>4, <1>5, <1>6, <1>7, <1>8, <1>9, <1>10, <1>11 DEF Remote!Guest

\* A step of the harness: it starts the job, polls it, fails to, or is started anew.
LEMMA RemoteHarnessStep ==
    ASSUME Remote!JobConstants, RemoteInv, Remote!Harness
    PROVE  (RemotePlaces /\ RemoteRead /\ RemoteShown /\ Remote!HandleOutlivesJob)'
<1> USE DEF Remote!JobConstants, RemoteInv, Remote!TypeOK, RemotePlaces, RemoteRead, RemoteShown,
        Remote!HandleOutlivesJob, Remote!Pending, Remote!Alive, Remote!Terminal, Remote!Unread, Remote!job,
        Remote!poll, Remote!answer, Remote!history, Remote!Tell, Remote!Fault
<1>1. CASE Remote!Launch
  BY <1>1 DEF Remote!Launch
<1>2. CASE Remote!Unreached
  <2>1. RemotePlaces'
    BY <1>2 DEF Remote!Unreached
  <2>2. RemoteRead'
    BY <1>2 DEF Remote!Unreached
  <2>3. RemoteShown'
    BY <1>2 DEF Remote!Unreached
  <2>4. Remote!HandleOutlivesJob'
    BY <1>2 DEF Remote!Unreached
  <2> QED
    BY <2>1, <2>2, <2>3, <2>4
<1>3. CASE Remote!Started
  BY <1>3 DEF Remote!Started
<1>4. CASE Remote!StartUnknown
  BY <1>4 DEF Remote!StartUnknown
<1>5. CASE Remote!EndRun
  BY <1>5 DEF Remote!EndRun
<1>6. CASE Remote!Poll
  BY <1>6 DEF Remote!Poll
<1>7. CASE Remote!PollFails
  BY <1>7 DEF Remote!PollFails
<1>8. CASE Remote!ReadDirectory
  <2>1. RemotePlaces'
    BY <1>8 DEF Remote!ReadDirectory
  <2>2. RemoteRead'
    BY <1>8 DEF Remote!ReadDirectory
  <2>3. RemoteShown'
    BY <1>8 DEF Remote!ReadDirectory
  <2>4. Remote!HandleOutlivesJob'
    BY <1>8 DEF Remote!ReadDirectory
  <2> QED
    BY <2>1, <2>2, <2>3, <2>4
<1>9. CASE Remote!ReadStatus
  BY <1>9 DEF Remote!ReadStatus
<1>10. CASE Remote!ReadPid
  <2>1. RemotePlaces'
    BY <1>10 DEF Remote!ReadPid, Remote!Concludes, Remote!WithoutPid
  <2>2. RemoteRead'
    BY <1>10 DEF Remote!ReadPid, Remote!Concludes, Remote!WithoutPid
  <2>3. RemoteShown'
    BY <1>10 DEF Remote!ReadPid, Remote!Concludes, Remote!WithoutPid
  <2>4. Remote!HandleOutlivesJob'
    BY <1>10 DEF Remote!ReadPid, Remote!Concludes, Remote!WithoutPid
  <2> QED
    BY <2>1, <2>2, <2>3, <2>4
<1>11. CASE Remote!ReadProcess
  BY <1>11 DEF Remote!ReadProcess, Remote!Concludes
<1>12. CASE Remote!ReadIdentity
  BY <1>12 DEF Remote!ReadIdentity, Remote!Concludes
<1>13. CASE Remote!Unreadable
  BY <1>13 DEF Remote!Unreadable, Remote!Concludes
<1>14. CASE Remote!ReadLog
  <2>1. RemotePlaces'
    BY <1>14 DEF Remote!ReadLog, Remote!Answers, Remote!From, Remote!Cut, Remote!Since
  <2>2. RemoteRead'
    BY <1>14 DEF Remote!ReadLog, Remote!Answers, Remote!From, Remote!Cut, Remote!Since
  <2>3. RemoteShown'
    BY <1>14 DEF Remote!ReadLog, Remote!Answers, Remote!From, Remote!Cut, Remote!Since
  <2>4. Remote!HandleOutlivesJob'
    BY <1>14 DEF Remote!ReadLog, Remote!Answers, Remote!From, Remote!Cut, Remote!Since
  <2> QED
    BY <2>1, <2>2, <2>3, <2>4
<1>15. CASE Remote!LogUnreadable
  <2>1. RemotePlaces'
    BY <1>15 DEF Remote!LogUnreadable, Remote!Answers
  <2>2. RemoteRead'
    BY <1>15 DEF Remote!LogUnreadable, Remote!Answers
  <2>3. RemoteShown'
    BY <1>15 DEF Remote!LogUnreadable, Remote!Answers
  <2>4. Remote!HandleOutlivesJob'
    BY <1>15 DEF Remote!LogUnreadable, Remote!Answers
  <2> QED
    BY <2>1, <2>2, <2>3, <2>4
<1> QED
  BY <1>1, <1>2, <1>3, <1>4, <1>5, <1>6, <1>7, <1>8, <1>9, <1>10, <1>11, <1>12, <1>13, <1>14,
     <1>15 DEF Remote!Harness

\* The handle of a job goes only with the job, its end is told as it was and its log is shown
\* once, whatever polls, launches and answers are lost (harness.py, remote_job.py).
THEOREM RemoteJobsFollowed ==
    ASSUME Remote!JobConstants
    PROVE  Remote!Spec => []Remote!JobsAreFollowed
<1>1. Remote!Init => RemoteInv
  BY RemoteInvInit
<1>2. RemoteInv /\ [Remote!Next]_(Remote!vars) => RemoteInv'
  <2>1. RemoteInv /\ UNCHANGED Remote!vars => RemoteInv'
    BY DEF RemoteInv, Remote!TypeOK, RemotePlaces, RemoteRead, RemoteShown,
           Remote!HandleOutlivesJob, Remote!Pending, Remote!Alive, Remote!Terminal, Remote!vars, Remote!job,
           Remote!poll, Remote!answer, Remote!history
  <2> QED
    BY <2>1, RemoteTypedStep, RemoteGuestStep, RemoteHarnessStep DEF Remote!Next, RemoteInv
<1>3. RemoteInv => Remote!JobsAreFollowed
  BY DEF RemoteInv, RemotePlaces, RemoteRead, RemoteShown, Remote!JobsAreFollowed,
         Remote!VerdictIsTrue, Remote!LogIsShownOnce, Remote!Terminal, Remote!TypeOK
<1> QED
  BY <1>1, <1>2, <1>3, PTL DEF Remote!Spec

-----------------------------------------------------------------------------
(* The trace of a turn.  The invariant knows the stack of calls, which of    *)
(* them an entry waits for, and, once the trace is finished, that it was     *)
(* derived from facts that have not changed since.                           *)

RecorderFrame == [frame : Recorder!Frames, call : Nat]
RecorderEntry == [key : Recorder!Keys, of : Nat, by : Nat]

\* A high-level read makes calls of the platform, a workflow makes steps; nothing else nests.
RecorderStack ==
  /\ calling \in Seq(RecorderFrame) /\ made \in Nat
  /\ Len(calling) <= 2
  /\ Len(calling) = 1 => calling[1].frame \notin {"api", "step"}
  /\ Len(calling) = 2 => \/ calling[1].frame = "read" /\ calling[2].frame = "api"
                         \/ calling[1].frame = "flow" /\ calling[2].frame = "step"

\* An entry that waits is of its key; no more than one does, and it is that of the call under way.
RecorderWaiting ==
  /\ entries \in Seq(RecorderEntry)
  /\ waiting \in [Recorder!Keys -> Seq(Nat)]
  /\ forsaken \subseteq {"propose"}
  /\ \A k \in Recorder!Keys : \A j \in 1..Len(waiting[k]) :
       waiting[k][j] \in 1..Len(entries) /\ entries[waiting[k][j]].key = k
  /\ \A k \in Recorder!Keys \ forsaken : Len(waiting[k]) > 0 =>
       /\ Len(waiting[k]) = 1
       /\ \E d \in 1..Len(calling) :
            calling[d].frame = k /\ calling[d].call = entries[waiting[k][1]].of

RecorderMatched ==
  \A i \in 1..Len(entries) :
    entries[i].key \notin forsaken => entries[i].by \in {0, entries[i].of}

\* The trace and the row were made of what is still known of the turn.
RecorderEnds ==
  /\ settledCards \in Seq(Recorder!Settlements)
  /\ ended \in Recorder!Endings \cup {"no"} /\ ceiling \in BOOLEAN /\ reply \in BOOLEAN
  /\ chatErr \in {"none", "model", "canceled", "deadline"}
  /\ transport \in {"none", "canceled", "deadline"}
  /\ traceStage \in {"running", "returned", "traced", "done"}
  /\ traceStage # "running" => ended # "no" /\ (ended = "error" => chatErr # "none")
  /\ traceStage \in {"traced", "done"} =>
       /\ traceOutcome = [terminatedBy |-> Recorder!TerminatedBy,
                          cause |-> Recorder!AbortCause(Recorder!TerminatedBy)]
       /\ turnRow = Recorder!Branch

RecorderInv == RecorderStack /\ RecorderWaiting /\ RecorderMatched /\ RecorderEnds

LEMMA RecorderInvInit == Recorder!Init => RecorderInv
<1> SUFFICES ASSUME Recorder!Init PROVE RecorderInv
  OBVIOUS
<1>1. /\ calling = <<>> /\ made = 0 /\ entries = <<>> /\ forsaken = {} /\ settledCards = <<>>
      /\ waiting = [k \in Recorder!Keys |-> <<>>]
  BY DEF Recorder!Init
<1>2. RecorderStack
  BY <1>1 DEF RecorderStack
<1>3. RecorderWaiting
  BY <1>1 DEF RecorderWaiting
<1>4. RecorderMatched
  BY <1>1 DEF RecorderMatched
<1>5. RecorderEnds
  <2>1. settledCards \in Seq(Recorder!Settlements)
    BY <1>1
  <2>2. ended = "no" /\ ceiling = FALSE /\ reply = FALSE /\ chatErr = "none" /\ transport = "none"
        /\ traceStage = "running"
    BY DEF Recorder!Init
  <2> QED
    BY <2>1, <2>2, Zenon DEF RecorderEnds
<1> QED
  BY <1>2, <1>3, <1>4, <1>5 DEF RecorderInv

\* What is innermost, and the stack without it.
LEMMA RecorderLast ==
    ASSUME RecorderStack, NEW f, Recorder!Within(f)
    PROVE  /\ Len(calling) \in {1, 2} /\ calling[Len(calling)].frame = f
           /\ Recorder!Last(calling) = calling[Len(calling)]
           /\ Recorder!Last(calling).call \in Nat
           /\ Recorder!Front(calling) \in Seq(RecorderFrame)
           /\ Len(Recorder!Front(calling)) = Len(calling) - 1
           /\ Len(calling) = 2 => Recorder!Front(calling)[1] = calling[1]
<1>1. calling \in Seq(RecorderFrame) /\ Len(calling) <= 2
  BY DEF RecorderStack
<1>2. calling # <<>> /\ Recorder!Last(calling).frame = f
  BY DEF Recorder!Within
<1>3. Len(calling) \in {1, 2}
  <2>1. Len(calling) \in Nat /\ Len(calling) # 0
    BY <1>1, <1>2
  <2>2. Len(calling) <= 2
    BY <1>1
  <2>3. \A n \in Nat : n # 0 /\ n <= 2 => n \in {1, 2}
    OBVIOUS
  <2> QED
    BY <2>1, <2>2, <2>3, Zenon
<1>4. Recorder!Last(calling) = calling[Len(calling)]
  BY DEF Recorder!Last
<1>5. /\ Recorder!Front(calling) \in Seq(RecorderFrame)
      /\ Len(Recorder!Front(calling)) = Len(calling) - 1
      /\ Len(calling) = 2 => Recorder!Front(calling)[1] = calling[1]
  BY <1>1, <1>3 DEF Recorder!Front
<1>6. calling[Len(calling)] \in RecorderFrame
  BY <1>1, <1>3
<1>7. calling[Len(calling)].call \in Nat
  BY <1>6 DEF RecorderFrame
<1> QED
  BY <1>2, <1>3, <1>4, <1>5, <1>7

\* A completion goes to the entry of its call, if the oldest that waits is that one.
LEMMA RecorderCompletes ==
    ASSUME RecorderWaiting, RecorderMatched,
           NEW k \in Recorder!Keys, NEW n \in Nat, Recorder!Completed(k, n),
           UNCHANGED forsaken,
           k \notin forsaken /\ Len(waiting[k]) > 0 => entries[waiting[k][1]].of = n
    PROVE  /\ entries' \in Seq(RecorderEntry)
           /\ Len(entries') >= Len(entries)
           /\ \A i \in 1..Len(entries) :
                entries'[i].key = entries[i].key /\ entries'[i].of = entries[i].of
           /\ waiting' \in [Recorder!Keys -> Seq(Nat)]
           /\ \A x \in Recorder!Keys \ {k} : waiting'[x] = waiting[x]
           /\ k \notin forsaken => Len(waiting'[k]) = 0
           /\ \A j \in 1..Len(waiting'[k]) : \E h \in 1..Len(waiting[k]) :
                waiting'[k][j] = waiting[k][h]
           /\ RecorderMatched'
<1> USE DEF RecorderWaiting
<1>1. CASE waiting[k] # <<>>
  <2>1. Len(waiting[k]) > 0 /\ waiting[k] \in Seq(Nat) /\ Head(waiting[k]) = waiting[k][1]
    BY <1>1
  <2> DEFINE h == waiting[k][1]
  <2>2. h \in 1..Len(entries) /\ entries[h].key = k
    <3>1. 1 \in 1..Len(waiting[k])
      BY <2>1
    <3> QED
      BY <3>1
  <2>3. entries' = [entries EXCEPT ![h].by = n]
    BY <1>1, <2>1 DEF Recorder!Completed
  <2>4. waiting' = [waiting EXCEPT ![k] = Tail(waiting[k])]
    BY <1>1 DEF Recorder!Completed
  <2> HIDE DEF h
  <2>5. /\ entries' \in Seq(RecorderEntry)
        /\ Len(entries') = Len(entries)
    <3>1. entries[h] \in RecorderEntry
      BY <2>2
    <3>2. [entries[h] EXCEPT !.by = n] \in RecorderEntry
      BY <3>1 DEF RecorderEntry
    <3> QED
      BY <2>2, <2>3, <3>2
  <2>6. \A i \in 1..Len(entries) :
          /\ entries'[i].key = entries[i].key /\ entries'[i].of = entries[i].of
          /\ entries'[i].by = IF i = h THEN n ELSE entries[i].by
    <3> SUFFICES ASSUME NEW i \in 1..Len(entries)
                 PROVE  /\ entries'[i].key = entries[i].key /\ entries'[i].of = entries[i].of
                        /\ entries'[i].by = IF i = h THEN n ELSE entries[i].by
      OBVIOUS
    <3>1. entries[i] \in RecorderEntry
      OBVIOUS
    <3>2. entries' = [entries EXCEPT ![h] = [entries[h] EXCEPT !.by = n]]
      BY <2>3
    <3>3. CASE i = h
      <4>1. entries'[i] = [entries[i] EXCEPT !.by = n]
        BY <2>2, <3>2, <3>3
      <4> QED
        BY <3>1, <3>3, <4>1 DEF RecorderEntry
    <3>4. CASE i # h
      <4>1. entries'[i] = entries[i]
        BY <2>2, <3>2, <3>4
      <4> QED
        BY <3>4, <4>1
    <3> QED
      BY <3>3, <3>4
  <2>7. /\ waiting' \in [Recorder!Keys -> Seq(Nat)]
        /\ \A x \in Recorder!Keys \ {k} : waiting'[x] = waiting[x]
        /\ waiting'[k] = Tail(waiting[k])
    BY <2>1, <2>4
  <2>8. /\ Len(waiting'[k]) = Len(waiting[k]) - 1
        /\ \A j \in 1..Len(waiting'[k]) : waiting'[k][j] = waiting[k][j + 1]
    BY <2>1, <2>7
  <2>9. RecorderMatched'
    <3> SUFFICES ASSUME NEW i \in 1..Len(entries'), entries'[i].key \notin forsaken
                 PROVE  entries'[i].by \in {0, entries'[i].of}
      BY DEF RecorderMatched
    <3>1. i \in 1..Len(entries) /\ entries[i].key \notin forsaken
      BY <2>5, <2>6
    <3>2. CASE i = h
      <4>1. entries[h].of = n
        BY <2>1, <2>2, <3>1, <3>2 DEF h
      <4> QED
        BY <2>6, <3>1, <3>2, <4>1
    <3>3. CASE i # h
      BY <2>6, <3>1, <3>3 DEF RecorderMatched
    <3> QED
      BY <3>2, <3>3
  <2>10. \A j \in 1..Len(waiting'[k]) : \E g \in 1..Len(waiting[k]) :
           waiting'[k][j] = waiting[k][g]
    <3> SUFFICES ASSUME NEW j \in 1..Len(waiting'[k])
                 PROVE  \E g \in 1..Len(waiting[k]) : waiting'[k][j] = waiting[k][g]
      OBVIOUS
    <3>1. j + 1 \in 1..Len(waiting[k])
      BY <2>1, <2>8
    <3> QED
      BY <2>8, <3>1
  <2>11. k \notin forsaken => Len(waiting'[k]) = 0
    BY <2>1, <2>8
  <2> QED
    BY <2>5, <2>6, <2>7, <2>9, <2>10, <2>11
<1>2. CASE waiting[k] = <<>>
  <2> DEFINE e == [key |-> k, of |-> n, by |-> n]
  <2>1. entries' = Append(entries, e) /\ waiting' = waiting
    BY <1>2 DEF Recorder!Completed
  <2>0. e \in RecorderEntry /\ e.of = n /\ e.by = n
    BY DEF RecorderEntry
  <2> HIDE DEF e
  <2>2. /\ entries' \in Seq(RecorderEntry)
        /\ Len(entries') = Len(entries) + 1
        /\ \A i \in 1..Len(entries) : entries'[i] = entries[i]
        /\ entries'[Len(entries) + 1] = e
    BY <2>0, <2>1
  <2>3. RecorderMatched'
    <3> SUFFICES ASSUME NEW i \in 1..Len(entries'), entries'[i].key \notin forsaken
                 PROVE  entries'[i].by \in {0, entries'[i].of}
      BY DEF RecorderMatched
    <3>1. i \in 1..Len(entries) => entries'[i] = entries[i]
      BY <2>2
    <3> QED
      BY <2>0, <2>2, <3>1 DEF RecorderMatched
  <2> QED
    BY <1>2, <2>1, <2>2, <2>3
<1> QED
  BY <1>1, <1>2

\* What none of these steps touches stays as it was.
LEMMA RecorderStackStep ==
    ASSUME RecorderStack, [Recorder!Next]_(Recorder!vars)
    PROVE  RecorderStack'
<1> DEFINE Frame(f, n) == [frame |-> f, call |-> n]
<1>1. ASSUME NEW f \in Recorder!Frames \ {"api", "step"}, NEW n \in Nat,
             calling' = <<Frame(f, n)>>, made' \in Nat
      PROVE  RecorderStack'
  <2>1. Frame(f, n) \in RecorderFrame
    BY DEF RecorderFrame
  <2>2. Frame(f, n).frame = f
    OBVIOUS
  <2> HIDE DEF Frame
  <2>3. calling' \in Seq(RecorderFrame) /\ Len(calling') = 1 /\ calling'[1] = Frame(f, n)
    BY <1>1, <2>1
  <2> QED
    BY <1>1, <2>2, <2>3 DEF RecorderStack
<1>2. ASSUME calling' = <<>>, made' \in Nat PROVE RecorderStack'
  <2>1. calling' \in Seq(RecorderFrame) /\ Len(calling') = 0
    BY <1>2
  <2> QED
    BY <1>2, <2>1 DEF RecorderStack
<1>3. ASSUME UNCHANGED calling, made' \in Nat PROVE RecorderStack'
  BY <1>3 DEF RecorderStack
<1>4. made \in Nat /\ made + 1 \in Nat
  BY DEF RecorderStack
<1>5. ASSUME NEW k \in Recorder!Keys, Recorder!Call(k) PROVE RecorderStack'
  <2>1. calling' = Append(calling, Frame(k, made + 1)) /\ made' = made + 1
    BY <1>5 DEF Recorder!Call
  <2>2. Frame(k, made + 1) \in RecorderFrame /\ Frame(k, made + 1).frame = k
    BY <1>4 DEF RecorderFrame, Recorder!Frames
  <2> DEFINE f == Frame(k, made + 1)
  <2>3. calling \in Seq(RecorderFrame) /\ f \in RecorderFrame /\ f.frame = k
    BY <2>2 DEF RecorderStack
  <2>4. CASE k = "api" \/ k = "step"
    <3>1. Recorder!Within(IF k = "api" THEN "read" ELSE "flow")
      BY <1>5, <2>4 DEF Recorder!Call, Recorder!MayCall
    <3>2. Len(calling) \in {1, 2} /\ calling[Len(calling)].frame = IF k = "api" THEN "read" ELSE "flow"
      BY <3>1, RecorderLast
    <3>3. Len(calling) = 1
      BY <3>2 DEF RecorderStack
    <3> HIDE DEF Frame, f
    <3>4. calling' = Append(calling, f)
      BY <2>1 DEF f
    <3>5. calling' \in Seq(RecorderFrame) /\ Len(calling') = 2 /\ calling'[1] = calling[1]
          /\ calling'[2] = f
      <4>1. /\ Append(calling, f) \in Seq(RecorderFrame)
            /\ Len(Append(calling, f)) = Len(calling) + 1
            /\ \A i \in 1..Len(calling) : Append(calling, f)[i] = calling[i]
            /\ Append(calling, f)[Len(calling) + 1] = f
        BY <2>3
      <4>2. 1 \in 1..Len(calling) /\ Len(calling) + 1 = 2
        BY <3>3
      <4> QED
        BY <3>4, <4>1, <4>2, Zenon
    <3> QED
      BY <1>4, <2>1, <2>3, <2>4, <3>2, <3>3, <3>5 DEF RecorderStack
  <2>5. CASE k \notin {"api", "step"}
    <3>1. calling = <<>>
      BY <1>5, <2>5 DEF Recorder!Call, Recorder!MayCall
    <3>2. calling' = <<Frame(k, made + 1)>>
      <4> HIDE DEF Frame
      <4> QED
        BY <2>1, <3>1
    <3> QED
      BY <1>1, <1>4, <2>1, <2>5, <3>2 DEF Recorder!Frames
  <2> QED
    BY <2>4, <2>5
<1>6. ASSUME NEW k \in Recorder!Keys, Recorder!Complete(k) PROVE RecorderStack'
  <2>1. Recorder!Within(k) /\ calling' = Recorder!Front(calling) /\ made' = made
    BY <1>6 DEF Recorder!Complete
  <2>2. /\ Len(calling) \in {1, 2} /\ calling' \in Seq(RecorderFrame)
        /\ Len(calling') = Len(calling) - 1
        /\ Len(calling) = 2 => calling'[1] = calling[1]
    BY <2>1, RecorderLast
  <2>3. Len(calling') <= 1 /\ (Len(calling') = 1 => Len(calling) = 2)
    BY <2>2
  <2>4. Len(calling') = 1 => calling'[1].frame \notin {"api", "step"}
    BY <2>2, <2>3 DEF RecorderStack
  <2>5. Len(calling') # 2 /\ Len(calling') <= 2
    <3>1. \A n \in {1, 2} : n - 1 # 2 /\ n - 1 <= 2
      OBVIOUS
    <3> QED
      BY <2>2, <3>1, Zenon
  <2> QED
    BY <1>4, <2>1, <2>2, <2>4, <2>5 DEF RecorderStack
<1>7. CASE Recorder!Accept \/ Recorder!FlowEnds \/ Recorder!GiveBack
  <2>1. made' = made
    BY <1>7 DEF Recorder!Accept, Recorder!FlowEnds, Recorder!GiveBack
  <2>2. calling' \in {<<>>, <<Frame("flow", 0)>>, <<Frame("over", 0)>>}
    BY <1>7, Zenon DEF Recorder!Accept, Recorder!FlowEnds, Recorder!GiveBack
  <2> QED
    BY <1>1, <1>2, <1>4, <2>1, <2>2 DEF Recorder!Frames
<1>8. ASSUME NEW s, Recorder!Settle(s) PROVE RecorderStack'
  <2>1. made' = made /\ (calling' = calling \/ calling' = <<Frame("over", 0)>>)
    BY <1>8 DEF Recorder!Settle
  <2> QED
    BY <1>1, <1>3, <1>4, <2>1 DEF Recorder!Frames
<1>9. ASSUME NEW k, Recorder!Refuse(k) PROVE RecorderStack'
  BY <1>3, <1>4, <1>9 DEF Recorder!Refuse
<1>10. CASE Recorder!Report
  BY <1>3, <1>4, <1>10 DEF Recorder!Report
<1>11. CASE Recorder!Deny
  BY <1>3, <1>4, <1>11 DEF Recorder!Deny, Recorder!engine
<1>12. ASSUME NEW e, Recorder!TransportEnds(e) PROVE RecorderStack'
  BY <1>3, <1>4, <1>12 DEF Recorder!TransportEnds, Recorder!engine
<1>13. ASSUME NEW e, NEW said, NEW over, Recorder!Return(e, said, over) PROVE RecorderStack'
  BY <1>3, <1>4, <1>13 DEF Recorder!Return
<1>14. CASE Recorder!FinishTrace \/ Recorder!Persist \/ UNCHANGED Recorder!vars
  BY <1>3, <1>4, <1>14 DEF Recorder!FinishTrace, Recorder!Persist, Recorder!vars, Recorder!engine
<1> QED
  BY <1>5, <1>6, <1>7, <1>8, <1>9, <1>10, <1>11, <1>12, <1>13, <1>14 DEF Recorder!Next

LEMMA RecorderLatestCard ==
    ASSUME RecorderEnds
    PROVE  Recorder!LatestCard \in Recorder!Settlements \cup {"none"}
<1>1. CASE settledCards = <<>>
  BY <1>1 DEF Recorder!LatestCard
<1>2. CASE settledCards # <<>>
  <2>1. settledCards[Len(settledCards)] \in Recorder!Settlements
    BY <1>2 DEF RecorderEnds
  <2> QED
    BY <1>2, <2>1 DEF Recorder!LatestCard, Recorder!Last
<1> QED
  BY <1>1, <1>2

\* Nothing the trace was derived from changes once it is finished.
LEMMA RecorderEndsStep ==
    ASSUME RecorderEnds, [Recorder!Next]_(Recorder!vars)
    PROVE  RecorderEnds'
<1> DEFINE Told == /\ traceOutcome = [terminatedBy |-> Recorder!TerminatedBy,
                                      cause |-> Recorder!AbortCause(Recorder!TerminatedBy)]
                   /\ turnRow = Recorder!Branch
           Facts == <<settledCards, ended, ceiling, reply, chatErr, transport>>
<1>1. ASSUME UNCHANGED <<Facts, traceStage>>,
             UNCHANGED <<denied, traceOutcome, turnRow>> \/ traceStage = "running"
      PROVE  RecorderEnds'
  <2>1. UNCHANGED <<denied, traceOutcome, turnRow>> => Told' = Told
    BY <1>1 DEF Recorder!TerminatedBy, Recorder!AbortCause, Recorder!Branch, Recorder!Cancelled,
       Recorder!Failed, Recorder!LatestCard, Recorder!TerminalErr, Recorder!GenuineBlock,
       Recorder!BudgetExhausted
  <2> HIDE DEF Told
  <2> QED
    BY <1>1, <2>1 DEF RecorderEnds, Told
<1>2. CASE traceStage = "running" /\ UNCHANGED <<Facts, traceStage>>
  BY <1>1, <1>2
<1>3. ASSUME NEW s \in Recorder!Settlements, Recorder!Settle(s) PROVE RecorderEnds'
  <2>1. settledCards' \in Seq(Recorder!Settlements) /\ traceStage = "running"
        /\ UNCHANGED <<ended, ceiling, reply, chatErr, transport, traceStage>>
    BY <1>3 DEF RecorderEnds, Recorder!Settle, Recorder!Running
  <2> QED
    BY <2>1 DEF RecorderEnds
<1>4. ASSUME NEW e \in {"canceled", "deadline"}, Recorder!TransportEnds(e) PROVE RecorderEnds'
  <2>1. /\ traceStage \in {"running", "returned"} /\ transport' = e
        /\ UNCHANGED <<settledCards, ended, ceiling, reply, chatErr, traceStage>>
    BY <1>4 DEF Recorder!TransportEnds, Recorder!facts, Recorder!engine
  <2> QED
    BY <2>1 DEF RecorderEnds
<1>5. ASSUME NEW e \in Recorder!Endings, NEW said \in BOOLEAN, NEW over \in BOOLEAN,
             Recorder!Return(e, said, over)
      PROVE  RecorderEnds'
  <2>1. /\ ended' = e /\ ceiling' = over /\ traceStage' = "returned"
        /\ UNCHANGED <<settledCards, transport>>
    BY <1>5 DEF Recorder!Return, Recorder!facts
  <2>2. reply' \in BOOLEAN
    BY <1>5, Zenon DEF Recorder!Return
  <2>3. PICK err \in {"model", "deadline", transport} \ {"none"} :
          chatErr' = IF e = "error" THEN err ELSE transport
    BY <1>5, Zenon DEF Recorder!Return
  <2>4. chatErr' \in {"none", "model", "canceled", "deadline"} /\ (e = "error" => chatErr' # "none")
    BY <2>3 DEF RecorderEnds
  <2>5. e # "no" /\ e \in Recorder!Endings \cup {"no"}
    BY DEF Recorder!Endings
  <2> QED
    BY <2>1, <2>2, <2>4, <2>5 DEF RecorderEnds
<1>6. CASE Recorder!FinishTrace
  <2>1. /\ traceStage = "returned" /\ traceStage' = "traced"
        /\ UNCHANGED Facts
        /\ traceOutcome' = [terminatedBy |-> Recorder!TerminatedBy,
                            cause |-> Recorder!AbortCause(Recorder!TerminatedBy)]
        /\ turnRow' = Recorder!Branch
    BY <1>6 DEF Recorder!FinishTrace, Recorder!facts, Recorder!engine
  <2>2. Told'
    BY <2>1 DEF Recorder!TerminatedBy, Recorder!AbortCause, Recorder!Branch, Recorder!Cancelled,
       Recorder!Failed, Recorder!LatestCard, Recorder!TerminalErr, Recorder!GenuineBlock,
       Recorder!BudgetExhausted
  <2> QED
    BY <2>1, <2>2 DEF RecorderEnds
<1>7. CASE Recorder!Persist
  <2>1. /\ traceStage = "traced" /\ traceStage' = "done"
        /\ UNCHANGED Facts /\ UNCHANGED <<traceOutcome, turnRow>>
    BY <1>7 DEF Recorder!Persist, Recorder!facts, Recorder!engine
  <2>2. Told => Told'
    BY <2>1 DEF Recorder!TerminatedBy, Recorder!AbortCause, Recorder!Branch, Recorder!Cancelled,
       Recorder!Failed, Recorder!LatestCard, Recorder!TerminalErr, Recorder!GenuineBlock,
       Recorder!BudgetExhausted
  <2> QED
    BY <2>1, <2>2 DEF RecorderEnds
<1>8. CASE UNCHANGED Recorder!vars
  BY <1>1, <1>8 DEF Recorder!vars, Recorder!facts, Recorder!engine
<1>9. ASSUME NEW k \in Recorder!Keys, Recorder!Call(k) \/ Recorder!Refuse(k) \/ Recorder!Complete(k)
      PROVE  RecorderEnds'
  BY <1>2, <1>9 DEF Recorder!Call, Recorder!Refuse, Recorder!Complete, Recorder!Others,
     Recorder!Running
<1>10. CASE Recorder!Accept \/ Recorder!GiveBack \/ Recorder!FlowEnds \/ Recorder!Report
  BY <1>2, <1>10 DEF Recorder!Accept, Recorder!GiveBack, Recorder!FlowEnds, Recorder!Report,
     Recorder!Others, Recorder!Running
<1>11. CASE Recorder!Deny
  BY <1>2, <1>11 DEF Recorder!Deny, Recorder!engine, Recorder!Running
<1> QED
  BY <1>3, <1>4, <1>5, <1>6, <1>7, <1>8, <1>9, <1>10, <1>11 DEF Recorder!Next
\* Frames of a stack have different names: those below the innermost have another.
LEMMA RecorderInnermost ==
    ASSUME RecorderStack, NEW f, Recorder!Within(f),
           NEW d \in 1..Len(calling), calling[d].frame = f
    PROVE  d = Len(calling)
<1>1. Len(calling) \in {1, 2} /\ calling[Len(calling)].frame = f
  BY RecorderLast
<1>2. CASE Len(calling) = 1
  BY <1>2
<1>3. CASE Len(calling) = 2
  <2>1. d \in {1, 2}
    BY <1>3
  <2>2. calling[1].frame # calling[2].frame
    BY <1>3 DEF RecorderStack
  <2> QED
    BY <1>1, <1>3, <2>1, <2>2
<1> QED
  BY <1>1, <1>2, <1>3

LEMMA RecorderAtTheBottom ==
    ASSUME RecorderStack, NEW f, f \notin {"api", "step"}, Recorder!Within(f)
    PROVE  Len(calling) = 1 /\ calling[1].frame = f
<1>1. Len(calling) \in {1, 2} /\ calling[Len(calling)].frame = f
  BY RecorderLast
<1>2. Len(calling) # 2
  BY <1>1 DEF RecorderStack
<1> QED
  BY <1>1, <1>2

\* No entry waits for a call that is not under way.
LEMMA RecorderNoneWaits ==
    ASSUME RecorderStack, RecorderWaiting, NEW k \in Recorder!Keys \ forsaken,
           \A d \in 1..Len(calling) : calling[d].frame # k
    PROVE  Len(waiting[k]) = 0
<1>1. Len(waiting[k]) \in Nat
  BY DEF RecorderWaiting
<1>2. ~(Len(waiting[k]) > 0)
  BY DEF RecorderWaiting
<1> QED
  BY <1>1, <1>2

\* The entry that waits under the key of the innermost call is that call's.
LEMMA RecorderHeadIsOwn ==
    ASSUME RecorderStack, RecorderWaiting, NEW k \in Recorder!Keys, Recorder!Within(k),
           k \notin forsaken, Len(waiting[k]) > 0
    PROVE  entries[waiting[k][1]].of = Recorder!Last(calling).call
<1>1. PICK d \in 1..Len(calling) :
        calling[d].frame = k /\ calling[d].call = entries[waiting[k][1]].of
  BY DEF RecorderWaiting
<1>2. d = Len(calling)
  BY <1>1, RecorderInnermost
<1> QED
  BY <1>1, <1>2, RecorderLast

\* After a completion, the entries that wait under the other keys still have their calls.
LEMMA RecorderCompletedWaiting ==
    ASSUME RecorderWaiting, RecorderMatched,
           NEW k \in Recorder!Keys, NEW n \in Nat, Recorder!Completed(k, n),
           UNCHANGED forsaken,
           k \notin forsaken /\ Len(waiting[k]) > 0 => entries[waiting[k][1]].of = n,
           \A x \in Recorder!Keys \ forsaken : x # k /\ Len(waiting[x]) > 0 =>
             \E d \in 1..Len(calling') :
               calling'[d].frame = x /\ calling'[d].call = entries[waiting[x][1]].of
    PROVE  RecorderWaiting' /\ RecorderMatched'
<1>1. /\ entries' \in Seq(RecorderEntry)
      /\ Len(entries') >= Len(entries)
      /\ \A i \in 1..Len(entries) :
           entries'[i].key = entries[i].key /\ entries'[i].of = entries[i].of
      /\ waiting' \in [Recorder!Keys -> Seq(Nat)]
      /\ \A x \in Recorder!Keys \ {k} : waiting'[x] = waiting[x]
      /\ k \notin forsaken => Len(waiting'[k]) = 0
      /\ \A j \in 1..Len(waiting'[k]) : \E h \in 1..Len(waiting[k]) :
           waiting'[k][j] = waiting[k][h]
      /\ RecorderMatched'
  BY RecorderCompletes
<1>2. \A x \in Recorder!Keys : \A j \in 1..Len(waiting'[x]) :
        waiting'[x][j] \in 1..Len(entries') /\ entries'[waiting'[x][j]].key = x
  <2> SUFFICES ASSUME NEW x \in Recorder!Keys, NEW j \in 1..Len(waiting'[x])
               PROVE  waiting'[x][j] \in 1..Len(entries') /\ entries'[waiting'[x][j]].key = x
    OBVIOUS
  <2>1. \E h \in 1..Len(waiting[x]) : waiting'[x][j] = waiting[x][h]
    <3>1. CASE x = k
      BY <1>1, <3>1
    <3>2. CASE x # k
      <4>1. waiting'[x] = waiting[x]
        BY <1>1, <3>2
      <4> QED
        BY <4>1
    <3> QED
      BY <3>1, <3>2
  <2>2. waiting'[x][j] \in 1..Len(entries) /\ entries[waiting'[x][j]].key = x
    BY <2>1 DEF RecorderWaiting
  <2>3. Len(entries) \in Nat /\ Len(entries') \in Nat
    BY <1>1 DEF RecorderWaiting
  <2>4. \A i \in 1..Len(entries) : i \in 1..Len(entries')
    BY <1>1, <2>3
  <2> QED
    BY <1>1, <2>2, <2>4, Zenon
<1>3. \A x \in Recorder!Keys \ forsaken : Len(waiting'[x]) > 0 =>
        /\ Len(waiting'[x]) = 1
        /\ \E d \in 1..Len(calling') :
             calling'[d].frame = x /\ calling'[d].call = entries'[waiting'[x][1]].of
  <2> SUFFICES ASSUME NEW x \in Recorder!Keys \ forsaken, Len(waiting'[x]) > 0
               PROVE  /\ Len(waiting'[x]) = 1
                      /\ \E d \in 1..Len(calling') :
                           calling'[d].frame = x /\ calling'[d].call = entries'[waiting'[x][1]].of
    OBVIOUS
  <2>1. x # k
    BY <1>1
  <2>2. waiting'[x] = waiting[x]
    BY <1>1, <2>1
  <2>3. Len(waiting[x]) = 1
    BY <2>2 DEF RecorderWaiting
  <2>4. 1 \in 1..Len(waiting[x])
    BY <2>3
  <2>5. waiting[x][1] \in 1..Len(entries)
    BY <2>4 DEF RecorderWaiting
  <2>6. entries'[waiting[x][1]].of = entries[waiting[x][1]].of
    BY <1>1, <2>5
  <2>7. PICK d \in 1..Len(calling') :
          calling'[d].frame = x /\ calling'[d].call = entries[waiting[x][1]].of
    BY <2>1, <2>2
  <2> QED
    BY <2>2, <2>3, <2>6, <2>7
<1> QED
  BY <1>1, <1>2, <1>3 DEF RecorderWaiting

LEMMA RecorderWaitingStep ==
    ASSUME RecorderStack, RecorderWaiting, RecorderMatched, [Recorder!Next]_(Recorder!vars)
    PROVE  RecorderWaiting' /\ RecorderMatched'
<1>1. ASSUME UNCHANGED <<calling, entries, waiting, forsaken>>
      PROVE  RecorderWaiting' /\ RecorderMatched'
  BY <1>1 DEF RecorderWaiting, RecorderMatched
<1>2. ASSUME UNCHANGED <<entries, waiting>>, forsaken \subseteq forsaken',
             forsaken' \subseteq {"propose"},
             \A x \in Recorder!Keys \ forsaken' : Len(waiting[x]) = 0
      PROVE  RecorderWaiting' /\ RecorderMatched'
  <2>1. RecorderMatched'
    BY <1>2 DEF RecorderMatched
  <2>2. \A x \in Recorder!Keys \ forsaken' : ~(Len(waiting'[x]) > 0)
    BY <1>2
  <2>3. /\ entries' \in Seq(RecorderEntry) /\ waiting' \in [Recorder!Keys -> Seq(Nat)]
        /\ \A k \in Recorder!Keys : \A j \in 1..Len(waiting'[k]) :
             waiting'[k][j] \in 1..Len(entries') /\ entries'[waiting'[k][j]].key = k
    BY <1>2 DEF RecorderWaiting
  <2> QED
    BY <1>2, <2>1, <2>2, <2>3 DEF RecorderWaiting
<1>3. made + 1 \in Nat /\ made \in Nat
  BY DEF RecorderStack
<1>4. ASSUME NEW k \in Recorder!Keys, Recorder!Call(k)
      PROVE  RecorderWaiting' /\ RecorderMatched'
  <2> DEFINE e == [key |-> k, of |-> made + 1, by |-> 0]
             f == [frame |-> k, call |-> made + 1]
             top == Len(entries) + 1
  <2>1. /\ entries' = Append(entries, e) /\ calling' = Append(calling, f)
        /\ waiting' = [waiting EXCEPT ![k] = Append(waiting[k], top)]
        /\ forsaken' = forsaken
    BY <1>4 DEF Recorder!Call, Recorder!Opened, Recorder!Others
  <2>2. e \in RecorderEntry /\ e.key = k /\ e.of = made + 1 /\ e.by = 0
        /\ f \in RecorderFrame /\ f.frame = k /\ f.call = made + 1
    BY <1>3 DEF RecorderEntry, RecorderFrame, Recorder!Frames
  <2> HIDE DEF e, f
  <2>3. /\ entries' \in Seq(RecorderEntry) /\ Len(entries') = top
        /\ \A i \in 1..Len(entries) : entries'[i] = entries[i]
        /\ entries'[top] = e
    BY <2>1, <2>2 DEF RecorderWaiting
  <2>4. /\ Len(calling') = Len(calling) + 1 /\ calling'[Len(calling) + 1] = f
        /\ \A d \in 1..Len(calling) : calling'[d] = calling[d]
    BY <2>1, <2>2 DEF RecorderStack
  <2>5. Len(entries) \in Nat /\ Len(calling) \in Nat /\ top \in Nat /\ waiting[k] \in Seq(Nat)
        /\ Len(calling) + 1 \in 1..(Len(calling) + 1)
    BY DEF RecorderWaiting, RecorderStack
  <2>6. k \notin forsaken => Len(waiting[k]) = 0
    <3>1. ASSUME NEW d \in 1..Len(calling) PROVE calling[d].frame # k
      <4>1. CASE k = "api" \/ k = "step"
        <5>1. Recorder!Within(IF k = "api" THEN "read" ELSE "flow")
          BY <1>4, <4>1 DEF Recorder!Call, Recorder!MayCall
        <5>2. Len(calling) = 1
          BY <5>1, RecorderAtTheBottom
        <5> QED
          BY <4>1, <5>2 DEF RecorderStack
      <4>2. CASE k \notin {"api", "step"}
        <5>1. calling = <<>>
          BY <1>4, <4>2 DEF Recorder!Call, Recorder!MayCall
        <5> QED
          BY <5>1
      <4> QED
        BY <4>1, <4>2
    <3> QED
      BY <3>1, RecorderNoneWaits
  <2>7. /\ waiting' \in [Recorder!Keys -> Seq(Nat)]
        /\ waiting'[k] = Append(waiting[k], top)
        /\ \A x \in Recorder!Keys \ {k} : waiting'[x] = waiting[x]
    BY <2>1, <2>5 DEF RecorderWaiting
  <2>8. /\ Len(waiting'[k]) = Len(waiting[k]) + 1 /\ waiting'[k][Len(waiting[k]) + 1] = top
        /\ \A j \in 1..Len(waiting[k]) : waiting'[k][j] = waiting[k][j]
    BY <2>5, <2>7
  <2>9. RecorderMatched'
    <3> SUFFICES ASSUME NEW i \in 1..Len(entries'), entries'[i].key \notin forsaken
                 PROVE  entries'[i].by \in {0, entries'[i].of}
      BY <2>1 DEF RecorderMatched
    <3>1. i \in 1..Len(entries) \/ i = top
      BY <2>3, <2>5
    <3> QED
      BY <2>2, <2>3, <3>1 DEF RecorderMatched
  <2>10. \A x \in Recorder!Keys : \A j \in 1..Len(waiting'[x]) :
           waiting'[x][j] \in 1..Len(entries') /\ entries'[waiting'[x][j]].key = x
    <3> SUFFICES ASSUME NEW x \in Recorder!Keys, NEW j \in 1..Len(waiting'[x])
                 PROVE  waiting'[x][j] \in 1..Len(entries') /\ entries'[waiting'[x][j]].key = x
      OBVIOUS
    <3>1. CASE x = k /\ j = Len(waiting[k]) + 1
      BY <2>2, <2>3, <2>5, <2>8, <3>1
    <3>2. CASE ~(x = k /\ j = Len(waiting[k]) + 1)
      <4>1. j \in 1..Len(waiting[x]) /\ waiting'[x][j] = waiting[x][j]
        <5>1. CASE x = k
          <6>1. Len(waiting[k]) \in Nat
            BY <2>5
          <6> QED
            BY <2>8, <3>2, <5>1, <6>1
        <5>2. CASE x # k
          BY <2>7, <5>2
        <5> QED
          BY <5>1, <5>2
      <4>2. waiting[x][j] \in 1..Len(entries) /\ entries[waiting[x][j]].key = x
        BY <4>1 DEF RecorderWaiting
      <4> QED
        BY <2>3, <2>5, <4>1, <4>2
    <3> QED
      BY <3>1, <3>2
  <2>11. \A x \in Recorder!Keys \ forsaken : Len(waiting'[x]) > 0 =>
           /\ Len(waiting'[x]) = 1
           /\ \E d \in 1..Len(calling') :
                calling'[d].frame = x /\ calling'[d].call = entries'[waiting'[x][1]].of
    <3> SUFFICES ASSUME NEW x \in Recorder!Keys \ forsaken, Len(waiting'[x]) > 0
                 PROVE  /\ Len(waiting'[x]) = 1
                        /\ \E d \in 1..Len(calling') :
                             calling'[d].frame = x /\ calling'[d].call = entries'[waiting'[x][1]].of
      OBVIOUS
    <3>1. CASE x = k
      <4>1. Len(waiting'[x]) = 1 /\ waiting'[x][1] = top
        <5>1. Len(waiting[k]) = 0
          BY <2>6, <3>1
        <5> QED
          BY <2>8, <3>1, <5>1
      <4>2. entries'[waiting'[x][1]].of = made + 1
        BY <2>2, <2>3, <4>1
      <4> QED
        BY <2>2, <2>4, <2>5, <3>1, <4>1, <4>2
    <3>2. CASE x # k
      <4>1. waiting'[x] = waiting[x]
        BY <2>7, <3>2
      <4>2. Len(waiting[x]) = 1
        BY <4>1 DEF RecorderWaiting
      <4>3. 1 \in 1..Len(waiting[x])
        BY <4>2
      <4>4. waiting[x][1] \in 1..Len(entries)
        BY <4>3 DEF RecorderWaiting
      <4>5. PICK d \in 1..Len(calling) :
              calling[d].frame = x /\ calling[d].call = entries[waiting[x][1]].of
        BY <4>1 DEF RecorderWaiting
      <4>6. d \in 1..Len(calling') /\ calling'[d] = calling[d]
        BY <2>4, <2>5
      <4> QED
        BY <2>3, <4>1, <4>2, <4>4, <4>5, <4>6
    <3> QED
      BY <3>1, <3>2
  <2> QED
    BY <2>1, <2>3, <2>7, <2>9, <2>10, <2>11 DEF RecorderWaiting
<1>5. ASSUME NEW k \in Recorder!Keys \ {"propose"}, Recorder!Complete(k)
      PROVE  RecorderWaiting' /\ RecorderMatched'
  <2> DEFINE n == Recorder!Last(calling).call
  <2>1. /\ Recorder!Within(k) /\ calling' = Recorder!Front(calling) /\ Recorder!Completed(k, n)
        /\ forsaken' = forsaken
    BY <1>5 DEF Recorder!Complete, Recorder!Others
  <2>2. /\ Len(calling) \in {1, 2} /\ n \in Nat /\ Len(calling') = Len(calling) - 1
        /\ Len(calling) = 2 => calling'[1] = calling[1]
    BY <2>1, RecorderLast
  <2>3. Len(waiting[k]) > 0 /\ k \notin forsaken => entries[waiting[k][1]].of = n
    BY <2>1, RecorderHeadIsOwn
  <2>4. ASSUME NEW x \in Recorder!Keys \ forsaken, x # k, Len(waiting[x]) > 0
        PROVE  \E d \in 1..Len(calling') :
                 calling'[d].frame = x /\ calling'[d].call = entries[waiting[x][1]].of
    <3>1. PICK d \in 1..Len(calling) :
            calling[d].frame = x /\ calling[d].call = entries[waiting[x][1]].of
      BY <2>4 DEF RecorderWaiting
    <3>2. d # Len(calling)
      BY <2>1, <2>4, <3>1, RecorderLast
    <3>3. Len(calling) = 2 /\ d = 1 /\ d \in 1..Len(calling')
      BY <2>2, <3>2
    <3> QED
      BY <2>2, <3>1, <3>3
  <2> HIDE DEF n
  <2> QED
    BY <2>1, <2>2, <2>3, <2>4, RecorderCompletedWaiting
<1>6. ASSUME NEW k \in Recorder!Keys, Recorder!Refuse(k)
      PROVE  RecorderWaiting' /\ RecorderMatched'
  <2>1. /\ calling = <<>> /\ Recorder!Completed(k, made + 1) /\ UNCHANGED <<calling, forsaken>>
    BY <1>6 DEF Recorder!Refuse, Recorder!MayCall, Recorder!Others
  <2>2. \A x \in Recorder!Keys \ forsaken : Len(waiting[x]) = 0
    BY <2>1, RecorderNoneWaits
  <2>3. \A x \in Recorder!Keys \ forsaken : ~(Len(waiting[x]) > 0)
    BY <2>2
  <2> QED
    BY <1>3, <2>1, <2>3, RecorderCompletedWaiting
<1>7. CASE Recorder!Accept
  <2> DEFINE n == Recorder!Last(calling).call
  <2>1. Recorder!Within("propose") /\ Recorder!Completed("propose", n) /\ forsaken' = forsaken
        /\ "propose" \in Recorder!Keys
    BY <1>7 DEF Recorder!Accept, Recorder!Others, Recorder!Keys
  <2>2. n \in Nat /\ Len(calling) = 1 /\ calling[1].frame = "propose"
    BY <2>1, RecorderLast, RecorderAtTheBottom
  <2>3. "propose" \notin forsaken /\ Len(waiting["propose"]) > 0
          => entries[waiting["propose"][1]].of = n
    BY <2>1, RecorderHeadIsOwn
  <2>4. \A x \in Recorder!Keys \ forsaken : x # "propose" => Len(waiting[x]) = 0
    BY <2>2, RecorderNoneWaits
  <2>5. \A x \in Recorder!Keys \ forsaken : x # "propose" => ~(Len(waiting[x]) > 0)
    BY <2>4
  <2> HIDE DEF n
  <2> QED
    BY <2>1, <2>2, <2>3, <2>5, RecorderCompletedWaiting
<1>8. CASE Recorder!GiveBack
  <2>1. /\ Recorder!Within("propose") /\ UNCHANGED <<entries, waiting>>
        /\ forsaken' = forsaken \cup {"propose"}
    BY <1>8 DEF Recorder!GiveBack, Recorder!Unrecorded
  <2>2. Len(calling) = 1 /\ calling[1].frame = "propose"
    BY <2>1, RecorderAtTheBottom
  <2>3. \A x \in Recorder!Keys \ forsaken' : Len(waiting[x]) = 0
    BY <2>1, <2>2, RecorderNoneWaits
  <2>4. forsaken \subseteq forsaken' /\ forsaken' \subseteq {"propose"}
    BY <2>1 DEF RecorderWaiting
  <2> QED
    BY <1>2, <2>1, <2>3, <2>4
<1>9. ASSUME Recorder!Within("flow"), UNCHANGED <<entries, waiting, forsaken>>
      PROVE  RecorderWaiting' /\ RecorderMatched'
  <2>1. Len(calling) = 1 /\ calling[1].frame = "flow"
    BY <1>9, RecorderAtTheBottom
  <2>2. \A x \in Recorder!Keys \ forsaken' : Len(waiting[x]) = 0
    BY <1>9, <2>1, RecorderNoneWaits DEF Recorder!Keys
  <2>3. forsaken \subseteq forsaken' /\ forsaken' \subseteq {"propose"}
    BY <1>9 DEF RecorderWaiting
  <2> QED
    BY <1>2, <1>9, <2>2, <2>3
<1>10. CASE Recorder!FlowEnds
  BY <1>9, <1>10 DEF Recorder!FlowEnds, Recorder!Unrecorded, Recorder!Others
<1>11. ASSUME NEW s, Recorder!Settle(s) PROVE RecorderWaiting' /\ RecorderMatched'
  <2>1. UNCHANGED <<entries, waiting, forsaken>>
        /\ (Recorder!Within("flow") \/ UNCHANGED calling)
    BY <1>11 DEF Recorder!Settle
  <2> QED
    BY <1>1, <1>9, <2>1
<1>12. CASE Recorder!Report
  <2> DEFINE n == Recorder!Last(calling).call
  <2>1. Recorder!Within("guest") /\ Recorder!Completed("guest", n) /\ UNCHANGED <<calling, forsaken>>
        /\ "guest" \in Recorder!Keys
    BY <1>12 DEF Recorder!Report, Recorder!Others, Recorder!Keys
  <2>2. n \in Nat
    BY <2>1, RecorderLast
  <2>3. "guest" \notin forsaken /\ Len(waiting["guest"]) > 0
          => entries[waiting["guest"][1]].of = n
    BY <2>1, RecorderHeadIsOwn
  <2>4. \A x \in Recorder!Keys \ forsaken : Len(waiting[x]) > 0 =>
          \E d \in 1..Len(calling') :
            calling'[d].frame = x /\ calling'[d].call = entries[waiting[x][1]].of
    BY <2>1 DEF RecorderWaiting
  <2> HIDE DEF n
  <2> QED
    BY <2>1, <2>2, <2>3, <2>4, RecorderCompletedWaiting
<1>13. CASE Recorder!Deny
  BY <1>1, <1>13 DEF Recorder!Deny, Recorder!engine
<1>14. ASSUME NEW e, Recorder!TransportEnds(e) PROVE RecorderWaiting' /\ RecorderMatched'
  BY <1>1, <1>14 DEF Recorder!TransportEnds, Recorder!facts, Recorder!engine
<1>15. ASSUME NEW e, NEW said, NEW over, Recorder!Return(e, said, over)
       PROVE  RecorderWaiting' /\ RecorderMatched'
  BY <1>1, <1>15 DEF Recorder!Return, Recorder!facts
<1>16. CASE Recorder!FinishTrace \/ Recorder!Persist \/ UNCHANGED Recorder!vars
  BY <1>1, <1>16 DEF Recorder!FinishTrace, Recorder!Persist, Recorder!vars, Recorder!facts,
     Recorder!engine
<1> QED
  BY <1>4, <1>5, <1>6, <1>7, <1>8, <1>10, <1>11, <1>12, <1>13, <1>14, <1>15, <1>16
     DEF Recorder!Next

LEMMA RecorderInvImplies == RecorderInv => Recorder!TraceTellsTheTurn
<1> SUFFICES ASSUME RecorderInv PROVE Recorder!TraceTellsTheTurn
  OBVIOUS
<1>1. \A i \in DOMAIN entries : entries[i].key \notin forsaken =>
        entries[i].by \in {0, entries[i].of}
  <2>1. DOMAIN entries = 1..Len(entries)
    BY DEF RecorderInv, RecorderWaiting
  <2> QED
    BY <2>1 DEF RecorderInv, RecorderMatched
<1>2. ASSUME traceStage = "done"
      PROVE  /\ (Recorder!Status = "success") <=>
                  (turnRow = "ok" /\ ended = "answer" /\ reply /\ ~ceiling
                   /\ Recorder!LatestCard \in {"none", "confirmed"})
             /\ traceOutcome.cause = "disconnect" =>
                  turnRow = "aborted" \/ Recorder!LatestCard = "disconnect"
             /\ traceOutcome.cause \in {"declined", "timeout"} =>
                  Recorder!LatestCard = traceOutcome.cause
  <2>1. /\ ended \in Recorder!Endings /\ (ended = "error" => chatErr # "none")
        /\ chatErr \in {"none", "model", "canceled", "deadline"}
        /\ transport \in {"none", "canceled", "deadline"}
        /\ traceOutcome = [terminatedBy |-> Recorder!TerminatedBy,
                           cause |-> Recorder!AbortCause(Recorder!TerminatedBy)]
        /\ turnRow = Recorder!Branch
    BY <1>2 DEF RecorderInv, RecorderEnds
  <2>2. Recorder!LatestCard \in Recorder!Settlements \cup {"none"}
    BY RecorderLatestCard DEF RecorderInv
  <2>3. /\ traceOutcome.terminatedBy = Recorder!TerminatedBy
        /\ traceOutcome.cause = Recorder!AbortCause(Recorder!TerminatedBy)
    BY <2>1
  <2>4. Recorder!Status = "success" <=> Recorder!TerminatedBy = "done"
    BY <2>3 DEF Recorder!Status
  <2>5. (Recorder!TerminatedBy = "done") <=>
          (turnRow = "ok" /\ ended = "answer" /\ reply /\ ~ceiling
           /\ Recorder!LatestCard \in {"none", "confirmed"})
    BY <2>1, <2>2 DEF Recorder!TerminatedBy, Recorder!GenuineBlock, Recorder!Cancelled,
       Recorder!Failed, Recorder!TerminalErr, Recorder!BudgetExhausted, Recorder!Branch,
       Recorder!Endings, Recorder!Settlements
  <2>6. traceOutcome.cause = "disconnect" =>
          turnRow = "aborted" \/ Recorder!LatestCard = "disconnect"
    <3> SUFFICES ASSUME traceOutcome.cause = "disconnect", Recorder!LatestCard # "disconnect"
                 PROVE  turnRow = "aborted"
      OBVIOUS
    <3>1. Recorder!TerminatedBy = "user_cancel" /\ ~Recorder!Cancelled
      BY <2>3 DEF Recorder!AbortCause
    <3>2. Recorder!TerminalErr = "canceled"
      BY <3>1 DEF Recorder!TerminatedBy
    <3>3. chatErr = "canceled" \/ transport # "none"
      BY <3>2 DEF Recorder!TerminalErr
    <3>4. Recorder!Branch = "aborted"
      BY <3>3 DEF Recorder!Branch
    <3> QED
      BY <2>1, <3>4, Zenon
  <2>7. traceOutcome.cause \in {"declined", "timeout"} =>
          Recorder!LatestCard = traceOutcome.cause
    BY <2>3 DEF Recorder!AbortCause, Recorder!Cancelled
  <2> QED
    BY <2>4, <2>5, <2>6, <2>7
<1> QED
  BY <1>1, <1>2 DEF Recorder!TraceTellsTheTurn

\* However the calls of a turn nest, the trace gives a completion to the call it belongs to, and
\* trace and stored row agree on whether, and by whose doing, the turn failed (turn_trace.go).
THEOREM RecorderTellsTheTurn == Recorder!Spec => []Recorder!TraceTellsTheTurn
<1>1. Recorder!Init => RecorderInv
  BY RecorderInvInit
<1>2. RecorderInv /\ [Recorder!Next]_(Recorder!vars) => RecorderInv'
  BY RecorderStackStep, RecorderWaitingStep, RecorderEndsStep DEF RecorderInv
<1>3. RecorderInv => Recorder!TraceTellsTheTurn
  BY RecorderInvImplies
<1> QED
  BY <1>1, <1>2, <1>3, PTL DEF Recorder!Spec

-----------------------------------------------------------------------------
(* The sink of the traces.  The invariant says where a trace that was sent  *)
(* waits, which counter has seen it, and, as long as no statement has       *)
(* failed, whose row stands for it.                                         *)

\* What is in the queue and in the batch was sent once and has not left yet.
WriterPlaced ==
  /\ writerQueue \in Seq(SinkTraces) /\ batch \in Seq(SinkTraces)
  /\ \A i, j \in DOMAIN writerQueue : writerQueue[i] = writerQueue[j] => i = j
  /\ \A i, j \in DOMAIN batch : batch[i] = batch[j] => i = j
  /\ \A i \in DOMAIN writerQueue, j \in DOMAIN batch : writerQueue[i] # batch[j]
  /\ \A t \in Writer!Waiting : Writer!Sent(t)

\* The worker ends only behind a closed queue that it has emptied.
WriterEnds ==
  /\ worker \in {"last", "done"} => closing /\ writerQueue = <<>>
  /\ worker = "done" => batch = <<>>
  /\ closer = "closed" => worker = "done"

\* Each counter counts the traces whose sender or whose statement has reached it.
WriterStages    == {"none", "counted", "sent", "refused", "accepted", "dropped"}
WriterAttempted == WriterStages \ {"none"}
WriterHanded    == {"sent", "accepted"}
WriterSenders(f, S) == {t \in SinkTraces : f[t] \in S}
WriterCounted ==
  /\ sender \in [SinkTraces -> WriterStages]
  /\ malformed \in Nat /\ failed \in Nat /\ succeeded \in Nat /\ writerFaults \in Nat
  /\ attempts = Cardinality(WriterSenders(sender, WriterAttempted))
  /\ accepted = Cardinality(WriterSenders(sender, {"accepted"}))
  /\ dropped = Cardinality(WriterSenders(sender, {"dropped"}))
  /\ malformed + failed + succeeded + Cardinality(Writer!Waiting)
       = Cardinality(WriterSenders(sender, WriterHanded))

\* The rows, and what a statement that was given up may still add.
WriterRowOf(t) == \E u \in table \cup swept : SinkRequestOf[u] = SinkRequestOf[t]
WriterDistinct(S) == \A t, u \in S : SinkRequestOf[t] = SinkRequestOf[u] => t = u
WriterRows ==
  /\ WriterDistinct(table)
  /\ \A ts \in lateInserts : WriterDistinct(ts)
  /\ writerFaults = 0 =>
       \A t \in SinkTraces : Writer!Sent(t) /\ t \notin Writer!Waiting \cup SinkMalformed =>
         WriterRowOf(t)

WriterInv == WriterPlaced /\ WriterEnds /\ WriterCounted /\ WriterRows

\* A set of numbers that is not empty has a least one.
LEMMA LeastNumber ==
    ASSUME NEW S \in SUBSET Nat, S # {}
    PROVE  \E m \in S : \A k \in S : m <= k
<1> DEFINE R == {ss \in Nat \X Nat : ss[1] < ss[2]}
<1>1. IsWellFoundedOn(R, Nat)
  BY NatLessThanWellFounded DEF OpToRel
<1>2. PICK m \in S : \A k \in S : ~(<<k, m>> \in R)
  <2> HIDE DEF R
  <2> QED
    BY <1>1, WFMin
<1>3. \A k \in S : ~(k < m)
  BY <1>2
<1> QED
  BY <1>3

\* The sequences the worker moves traces between.
LEMMA WriterSequences ==
    ASSUME NEW S, NEW q \in Seq(S)
    PROVE  /\ Len(q) \in Nat /\ DOMAIN q = 1..Len(q) /\ \A i \in DOMAIN q : q[i] \in S
           /\ \A t \in S : /\ Append(q, t) \in Seq(S) /\ Len(Append(q, t)) = Len(q) + 1
                           /\ DOMAIN Append(q, t) = 1..Len(q) + 1
                           /\ \A i \in DOMAIN q : Append(q, t)[i] = q[i]
                           /\ Append(q, t)[Len(q) + 1] = t
           /\ q # <<>> => /\ 1 \in DOMAIN q /\ Head(q) = q[1] /\ Tail(q) \in Seq(S)
                          /\ DOMAIN Tail(q) = 1..Len(q) - 1
                          /\ \A i \in DOMAIN Tail(q) : i + 1 \in DOMAIN q /\ Tail(q)[i] = q[i + 1]
                          /\ \A i \in DOMAIN q : i = 1 \/ i - 1 \in DOMAIN Tail(q)
<1>1. Len(q) \in Nat /\ DOMAIN q = 1..Len(q) /\ \A i \in DOMAIN q : q[i] \in S
  OBVIOUS
<1>2. ASSUME NEW t \in S
      PROVE  /\ Append(q, t) \in Seq(S) /\ Len(Append(q, t)) = Len(q) + 1
             /\ DOMAIN Append(q, t) = 1..Len(q) + 1
             /\ \A i \in DOMAIN q : Append(q, t)[i] = q[i]
             /\ Append(q, t)[Len(q) + 1] = t
  OBVIOUS
<1>3. ASSUME q # <<>>
      PROVE  /\ 1 \in DOMAIN q /\ Head(q) = q[1] /\ Tail(q) \in Seq(S)
             /\ DOMAIN Tail(q) = 1..Len(q) - 1
             /\ \A i \in DOMAIN Tail(q) : i + 1 \in DOMAIN q /\ Tail(q)[i] = q[i + 1]
             /\ \A i \in DOMAIN q : i = 1 \/ i - 1 \in DOMAIN Tail(q)
  BY <1>3
<1> QED
  BY <1>1, <1>2, <1>3

LEMMA WriterLists == \A q : Writer!ToSet(q) = {q[i] : i \in DOMAIN q}
  BY DEF Writer!ToSet

LEMMA WriterSizes == \A S : Writer!Cardinality(S) = Cardinality(S)
  BY DEF Writer!Cardinality, Cardinality

LEMMA WriterFinite ==
    ASSUME Writer!WriterConstants, NEW S \in SUBSET SinkTraces
    PROVE  IsFiniteSet(S) /\ Cardinality(S) \in Nat
<1>1. \A T : Writer!IsFiniteSet(T) = IsFiniteSet(T)
  BY DEF Writer!IsFiniteSet, IsFiniteSet
<1>2. IsFiniteSet(SinkTraces)
  BY <1>1 DEF Writer!WriterConstants
<1> QED
  BY <1>2, FS_Subset, FS_CardinalityType

LEMMA WriterInvInit == Writer!Init => WriterInv
<1> SUFFICES ASSUME Writer!Init PROVE WriterInv
  OBVIOUS
<1> USE DEF Writer!Init
<1>1. Writer!Waiting = {}
  BY WriterLists DEF Writer!Waiting
<1>2. WriterPlaced
  BY <1>1 DEF WriterPlaced
<1>3. \A S : "none" \notin S => WriterSenders(sender, S) = {}
  BY DEF WriterSenders
<1> USE DEF WriterAttempted, WriterHanded, WriterStages
<1>4. WriterCounted
  <2>1. /\ Cardinality(WriterSenders(sender, WriterAttempted)) = 0
        /\ Cardinality(WriterSenders(sender, {"accepted"})) = 0
        /\ Cardinality(WriterSenders(sender, {"dropped"})) = 0
        /\ Cardinality(WriterSenders(sender, WriterHanded)) = 0
        /\ Cardinality(Writer!Waiting) = 0
    BY <1>1, <1>3, FS_EmptySet
  <2>2. sender \in [SinkTraces -> WriterStages]
    OBVIOUS
  <2> QED
    BY <2>1, <2>2 DEF WriterCounted
<1> QED
  BY <1>2, <1>4 DEF WriterInv, WriterEnds, WriterRows, WriterDistinct, Writer!Sent

\* What a step does to the traces that wait.
LEMMA WriterSend ==
    ASSUME WriterPlaced, WriterCounted, NEW t \in SinkTraces, Writer!Send(t), ~closing,
           Len(writerQueue) < SinkQueue
    PROVE  /\ WriterPlaced' /\ Writer!Waiting' = Writer!Waiting \cup {t} /\ t \notin Writer!Waiting
           /\ sender[t] = "counted" /\ sender' = [sender EXCEPT ![t] = "sent"]
<1>1. /\ sender[t] = "counted" /\ sender' = [sender EXCEPT ![t] = "sent"]
      /\ writerQueue' = Append(writerQueue, t) /\ batch' = batch
  BY DEF Writer!Send, Writer!Sends
<1>2. t \notin Writer!Waiting
  BY <1>1 DEF WriterPlaced, Writer!Sent
<1> DEFINE n == Len(writerQueue) + 1
<1>3. /\ n \in Nat /\ DOMAIN writerQueue = 1..Len(writerQueue) /\ writerQueue' \in Seq(SinkTraces)
      /\ DOMAIN writerQueue' = 1..n /\ writerQueue'[n] = t
      /\ \A i \in DOMAIN writerQueue : writerQueue'[i] = writerQueue[i]
      /\ Len(writerQueue) \in Nat
  BY <1>1, WriterSequences DEF WriterPlaced
<1>4. \A i \in DOMAIN writerQueue' : i = n \/ i \in DOMAIN writerQueue
  BY <1>3
<1>5. \A i \in DOMAIN writerQueue : i \in DOMAIN writerQueue'
  BY <1>3
<1>6. n \in DOMAIN writerQueue'
  BY <1>3
<1> HIDE DEF n
<1>7. Writer!ToSet(writerQueue') = Writer!ToSet(writerQueue) \cup {t}
  BY <1>3, <1>4, <1>5, <1>6, WriterLists
<1>8. Writer!Waiting' = Writer!Waiting \cup {t}
  BY <1>1, <1>7 DEF Writer!Waiting
<1>9. /\ \A i \in DOMAIN writerQueue : writerQueue[i] # t
      /\ \A i \in DOMAIN batch : batch[i] # t
  BY <1>2, WriterLists DEF Writer!Waiting
<1>10. \A i, j \in DOMAIN writerQueue' : writerQueue'[i] = writerQueue'[j] => i = j
  BY <1>3, <1>4, <1>9 DEF WriterPlaced
<1>11. \A i \in DOMAIN writerQueue', j \in DOMAIN batch : writerQueue'[i] # batch[j]
  BY <1>3, <1>4, <1>9 DEF WriterPlaced
<1>12. \A u \in Writer!Waiting \cup {t} : u \in SinkTraces /\ Writer!Sent(u)'
  BY <1>1, WriterLists, WriterSequences
     DEF Writer!Waiting, WriterPlaced, WriterCounted, Writer!Sent
<1> QED
  BY <1>1, <1>2, <1>3, <1>8, <1>10, <1>11, <1>12 DEF WriterPlaced

LEMMA WriterTake ==
    ASSUME WriterPlaced, Writer!Take
    PROVE  WriterPlaced' /\ Writer!Waiting' = Writer!Waiting /\ sender' = sender
<1>1. /\ writerQueue # <<>> /\ sender' = sender
      /\ batch' = Append(batch, Head(writerQueue)) /\ writerQueue' = Tail(writerQueue)
  BY DEF Writer!Take
<1> DEFINE t == writerQueue[1]
           n == Len(batch) + 1
<1>2. /\ 1 \in DOMAIN writerQueue /\ Head(writerQueue) = t /\ writerQueue' \in Seq(SinkTraces)
      /\ \A i \in DOMAIN writerQueue' : i \in Nat \ {0} /\ i + 1 \in DOMAIN writerQueue
                                     /\ writerQueue'[i] = writerQueue[i + 1]
      /\ \A i \in DOMAIN writerQueue : i \in Int /\ (i = 1 \/ i - 1 \in DOMAIN writerQueue')
      /\ t \in SinkTraces
  BY <1>1, WriterSequences DEF WriterPlaced
<1>3. /\ batch' = Append(batch, t) /\ batch' \in Seq(SinkTraces) /\ Len(batch) \in Nat
      /\ DOMAIN batch = 1..Len(batch) /\ DOMAIN batch' = 1..n /\ batch'[n] = t
      /\ \A i \in DOMAIN batch : batch'[i] = batch[i]
  BY <1>1, <1>2, WriterSequences DEF WriterPlaced
<1>4. /\ \A i \in DOMAIN batch' : i = n \/ i \in DOMAIN batch
      /\ \A i \in DOMAIN batch : i \in DOMAIN batch'
      /\ n \in DOMAIN batch'
  BY <1>3
<1>5. Writer!ToSet(batch') = Writer!ToSet(batch) \cup {t}
  <2> HIDE DEF t, n
  <2> QED
    BY <1>3, <1>4, WriterLists
<1>6. Writer!ToSet(writerQueue) = Writer!ToSet(writerQueue') \cup {t}
  <2>1. \A u \in Writer!ToSet(writerQueue) : u \in Writer!ToSet(writerQueue') \cup {t}
    <3> SUFFICES ASSUME NEW i \in DOMAIN writerQueue
                 PROVE  writerQueue[i] \in Writer!ToSet(writerQueue') \cup {t}
      BY WriterLists
    <3>1. CASE i = 1
      BY <3>1
    <3>2. CASE i # 1
      <4>1. i - 1 \in DOMAIN writerQueue' /\ writerQueue'[i - 1] = writerQueue[(i - 1) + 1]
              /\ (i - 1) + 1 = i
        BY <1>2, <3>2
      <4> QED
        BY <4>1, WriterLists
    <3> QED
      BY <3>1, <3>2
  <2>2. \A u \in Writer!ToSet(writerQueue') \cup {t} : u \in Writer!ToSet(writerQueue)
    BY <1>2, WriterLists
  <2> QED
    BY <2>1, <2>2
<1>7. Writer!Waiting' = Writer!Waiting
  BY <1>5, <1>6 DEF Writer!Waiting
<1>8. \A i, j \in DOMAIN writerQueue' : writerQueue'[i] = writerQueue'[j] => i = j
  <2> SUFFICES ASSUME NEW i \in DOMAIN writerQueue', NEW j \in DOMAIN writerQueue',
                      writerQueue'[i] = writerQueue'[j]
               PROVE  i = j
    OBVIOUS
  <2>1. i \in Nat /\ j \in Nat /\ i + 1 = j + 1
    BY <1>2 DEF WriterPlaced
  <2> QED
    BY <2>1
<1>9. \A i \in DOMAIN batch : batch[i] # t
  BY <1>2 DEF WriterPlaced
<1>10. \A i, j \in DOMAIN batch' : batch'[i] = batch'[j] => i = j
  <2> HIDE DEF t, n
  <2> QED
    BY <1>3, <1>4, <1>9 DEF WriterPlaced
<1>11. \A i \in DOMAIN writerQueue', j \in DOMAIN batch' : writerQueue'[i] # batch'[j]
  <2> SUFFICES ASSUME NEW i \in DOMAIN writerQueue', NEW j \in DOMAIN batch'
               PROVE  writerQueue'[i] # batch'[j]
    OBVIOUS
  <2>1. i + 1 \in DOMAIN writerQueue /\ writerQueue'[i] = writerQueue[i + 1] /\ i + 1 # 1
    BY <1>2
  <2>2. CASE j = n
    BY <1>2, <1>3, <2>1, <2>2 DEF WriterPlaced
  <2>3. CASE j \in DOMAIN batch
    BY <1>3, <2>1, <2>3 DEF WriterPlaced
  <2> QED
    BY <1>4, <2>2, <2>3
<1>12. \A u \in Writer!Waiting : Writer!Sent(u)'
  BY <1>1 DEF WriterPlaced, Writer!Sent
<1> QED
  BY <1>1, <1>2, <1>3, <1>7, <1>8, <1>10, <1>11, <1>12 DEF WriterPlaced

LEMMA WriterFlush ==
    ASSUME Writer!WriterConstants, WriterPlaced,
           NEW how \in {"ok", "error", "timeout"}, Writer!Flush(how)
    PROVE  /\ WriterPlaced' /\ Writer!Waiting' = Writer!Waiting \ Writer!ToSet(batch)
           /\ Writer!ToSet(batch) \subseteq Writer!Waiting
           /\ Len(batch) \in Nat /\ Cardinality(Writer!ToSet(batch)) = Len(batch)
           /\ sender' = sender
<1>1. batch' = <<>> /\ writerQueue' = writerQueue /\ sender' = sender
  BY DEF Writer!Flush
<1>2. Writer!ToSet(batch') = {}
  BY <1>1, WriterLists
<1>3. Writer!ToSet(batch) \cap Writer!ToSet(writerQueue) = {}
  BY WriterLists DEF WriterPlaced
<1>4. Writer!Waiting' = Writer!Waiting \ Writer!ToSet(batch)
  BY <1>1, <1>2, <1>3 DEF Writer!Waiting
<1>5. Writer!ToSet(batch) \subseteq Writer!Waiting
  BY DEF Writer!Waiting
<1>6. Len(batch) \in Nat /\ DOMAIN batch = 1..Len(batch)
  BY WriterSequences DEF WriterPlaced
<1>7. Cardinality(Writer!ToSet(batch)) = Len(batch)
  <2>1. batch \in Bijection(1..Len(batch), Writer!ToSet(batch))
    <3>1. batch \in [1..Len(batch) -> Writer!ToSet(batch)]
      BY <1>6, WriterLists DEF WriterPlaced
    <3>2. batch \in Injection(1..Len(batch), Writer!ToSet(batch))
      BY <1>6, <3>1 DEF WriterPlaced, Injection, IsInjective
    <3>3. batch \in Surjection(1..Len(batch), Writer!ToSet(batch))
      BY <1>6, <3>1, WriterLists DEF Surjection
    <3> QED
      BY <3>2, <3>3 DEF Bijection
  <2> QED
    BY <1>6, <2>1, FS_CountingElements DEF ExistsBijection
<1>8. WriterPlaced'
  BY <1>1, <1>4 DEF WriterPlaced, Writer!Sent
<1> QED
  BY <1>1, <1>4, <1>5, <1>6, <1>7, <1>8

\* Every other step leaves the traces that wait, and their counters, alone.
WriterRefused(t) == Writer!Send(t) /\ (closing \/ ~(Len(writerQueue) < SinkQueue))
WriterQuiet ==
  \/ Writer!Tick \/ Writer!Drained \/ Writer!SweepDue \/ Writer!Expire \/ Writer!Close
  \/ Writer!Closed \/ Writer!GiveUp \/ UNCHANGED Writer!vars
  \/ \E t \in SinkTraces : Writer!Attempt(t) \/ Writer!Count(t) \/ WriterRefused(t)
WriterRoom(t) == Writer!Send(t) /\ ~closing /\ Len(writerQueue) < SinkQueue

LEMMA WriterCases ==
    ASSUME Writer!Next \/ UNCHANGED Writer!vars
    PROVE  \/ WriterQuiet \/ Writer!Take \/ (\E t \in SinkTraces : WriterRoom(t))
           \/ (\E how \in {"ok", "error", "timeout"} : Writer!Flush(how))
           \/ (\E ok \in BOOLEAN : Writer!Sweep(ok))
           \/ (\E ts \in lateInserts : Writer!LateCommit(ts))
<1>1. ASSUME NEW t \in SinkTraces, Writer!Attempt(t) \/ Writer!Send(t) \/ Writer!Count(t)
      PROVE  WriterQuiet \/ WriterRoom(t)
  <2>1. Writer!Send(t) => WriterRefused(t) \/ WriterRoom(t)
    BY Zenon DEF WriterRefused, WriterRoom
  <2>2. WriterRefused(t) \/ Writer!Attempt(t) \/ Writer!Count(t) => WriterQuiet
    BY DEF WriterQuiet
  <2> QED
    BY <1>1, <2>1, <2>2
<1>2. CASE \E t \in SinkTraces : Writer!Attempt(t) \/ Writer!Send(t) \/ Writer!Count(t)
  BY <1>1, <1>2
<1>3. CASE ~(\E t \in SinkTraces : Writer!Attempt(t) \/ Writer!Send(t) \/ Writer!Count(t))
  BY <1>3 DEF Writer!Next, WriterQuiet
<1> QED
  BY <1>2, <1>3

LEMMA WriterOthers ==
    ASSUME WriterPlaced, WriterCounted,
           \/ WriterQuiet \/ (\E ok \in BOOLEAN : Writer!Sweep(ok))
           \/ (\E ts \in lateInserts : Writer!LateCommit(ts))
    PROVE  /\ UNCHANGED <<writerQueue, batch, malformed, failed, succeeded>>
           /\ Writer!Waiting' = Writer!Waiting
           /\ \A t \in SinkTraces : Writer!Sent(t)' <=> Writer!Sent(t)
<1>1. ASSUME NEW t \in SinkTraces,
             Writer!Attempt(t) \/ Writer!Count(t) \/ WriterRefused(t)
      PROVE  /\ UNCHANGED <<writerQueue, batch, malformed, failed, succeeded>>
             /\ \A u \in SinkTraces : Writer!Sent(u)' <=> Writer!Sent(u)
  <2>1. CASE Writer!Attempt(t)
    BY <2>1 DEF Writer!Attempt, Writer!Sends, Writer!Sent, WriterCounted
  <2>2. CASE WriterRefused(t)
    BY <2>2 DEF WriterRefused, Writer!Send, Writer!Sends, Writer!Sent, Writer!counters,
                WriterCounted
  <2>3. CASE Writer!Count(t)
    BY <2>3 DEF Writer!Count, Writer!Sends, Writer!Sent, WriterCounted
  <2> QED
    BY <1>1, <2>1, <2>2, <2>3
<1>2. ASSUME \/ Writer!Tick \/ Writer!Drained \/ Writer!SweepDue \/ Writer!Expire \/ Writer!Close
             \/ Writer!Closed \/ Writer!GiveUp \/ (\E ok \in BOOLEAN : Writer!Sweep(ok))
             \/ (\E ts \in lateInserts : Writer!LateCommit(ts)) \/ UNCHANGED Writer!vars
      PROVE  /\ UNCHANGED <<writerQueue, batch, malformed, failed, succeeded>>
             /\ \A t \in SinkTraces : Writer!Sent(t)' <=> Writer!Sent(t)
  BY <1>2 DEF Writer!Tick, Writer!Drained, Writer!SweepDue, Writer!Expire, Writer!Close,
              Writer!Closed, Writer!GiveUp, Writer!Sweep, Writer!LateCommit, Writer!counters,
              Writer!Sent, Writer!vars
<1>3. /\ UNCHANGED <<writerQueue, batch, malformed, failed, succeeded>>
      /\ \A t \in SinkTraces : Writer!Sent(t)' <=> Writer!Sent(t)
  BY <1>1, <1>2 DEF WriterQuiet
<1> QED
  BY <1>3 DEF Writer!Waiting

LEMMA WriterPlacedStep ==
    ASSUME Writer!WriterConstants, WriterPlaced, WriterCounted,
           Writer!Next \/ UNCHANGED Writer!vars
    PROVE  WriterPlaced'
<1>1. CASE Writer!Take
  BY <1>1, WriterTake
<1>2. CASE \E t \in SinkTraces : WriterRoom(t)
  BY <1>2, WriterSend DEF WriterRoom
<1>3. CASE \E how \in {"ok", "error", "timeout"} : Writer!Flush(how)
  BY <1>3, WriterFlush
<1>4. CASE \/ WriterQuiet \/ (\E ok \in BOOLEAN : Writer!Sweep(ok))
           \/ (\E ts \in lateInserts : Writer!LateCommit(ts))
  <2>1. Writer!Waiting \subseteq SinkTraces
    BY WriterLists, WriterSequences DEF Writer!Waiting, WriterPlaced
  <2> QED
    BY <1>4, <2>1, WriterOthers DEF WriterPlaced
<1> QED
  BY <1>1, <1>2, <1>3, <1>4, WriterCases

LEMMA WriterEndsStep ==
    ASSUME WriterPlaced, WriterEnds, Writer!Next \/ UNCHANGED Writer!vars
    PROVE  WriterEnds'
<1>1. CASE \E t \in SinkTraces : Writer!Attempt(t) \/ Writer!Send(t) \/ Writer!Count(t)
  BY <1>1 DEF WriterEnds, Writer!Attempt, Writer!Send, Writer!Count
<1>2. CASE Writer!Take \/ Writer!Tick \/ Writer!Drained
  BY <1>2 DEF WriterEnds, Writer!Take, Writer!Tick, Writer!Drained, Writer!Works, Writer!LastBatch
<1>3. CASE \E how \in {"ok", "error", "timeout"} : Writer!Flush(how)
  BY <1>3 DEF WriterEnds, Writer!Flush, Writer!Works
<1>4. CASE \/ Writer!SweepDue \/ (\E ok \in BOOLEAN : Writer!Sweep(ok))
           \/ (\E ts \in lateInserts : Writer!LateCommit(ts)) \/ Writer!Expire
           \/ UNCHANGED Writer!vars
  BY <1>4 DEF WriterEnds, Writer!SweepDue, Writer!Sweep, Writer!LateCommit, Writer!Expire,
              Writer!Works, Writer!vars
<1>5. CASE Writer!Close \/ Writer!Closed \/ Writer!GiveUp
  BY <1>5 DEF WriterEnds, Writer!Close, Writer!Closed, Writer!GiveUp
<1> QED
  BY <1>1, <1>2, <1>3, <1>4, <1>5 DEF Writer!Next

\* A sender that moves on joins the sets it moves into.
LEMMA WriterMoves ==
    ASSUME Writer!WriterConstants, NEW f, NEW g, NEW t \in SinkTraces, NEW S,
           \A u \in SinkTraces : u # t => g[u] = f[u]
    PROVE  /\ g[t] \in S /\ f[t] \notin S => Cardinality(WriterSenders(g, S))
                                        = Cardinality(WriterSenders(f, S)) + 1
           /\ (g[t] \in S <=> f[t] \in S) =>
                WriterSenders(g, S) = WriterSenders(f, S)
<1>1. WriterSenders(g, S)
        = (WriterSenders(f, S) \ {t}) \cup (IF g[t] \in S THEN {t} ELSE {})
  BY DEF WriterSenders
<1>2. IsFiniteSet(WriterSenders(f, S))
  BY WriterFinite DEF WriterSenders
<1>3. t \in WriterSenders(f, S) <=> f[t] \in S
  BY DEF WriterSenders
<1>4. ASSUME g[t] \in S, f[t] \notin S
      PROVE  Cardinality(WriterSenders(g, S))
               = Cardinality(WriterSenders(f, S)) + 1
  <2>1. WriterSenders(g, S) = WriterSenders(f, S) \cup {t}
    BY <1>1, <1>3, <1>4
  <2>2. Cardinality(WriterSenders(f, S) \cup {t}) = Cardinality(WriterSenders(f, S)) + 1
    BY <1>2, <1>3, <1>4, FS_AddElement
  <2> QED
    BY <2>1, <2>2
<1>5. ASSUME g[t] \in S <=> f[t] \in S
      PROVE  WriterSenders(g, S) = WriterSenders(f, S)
  BY <1>1, <1>3, <1>5
<1> QED
  BY <1>4, <1>5

LEMMA WriterCountedStep ==
    ASSUME Writer!WriterConstants, WriterPlaced, WriterCounted,
           Writer!Next \/ UNCHANGED Writer!vars
    PROVE  WriterCounted'
<1>0. sender \in [SinkTraces -> WriterStages]
  BY DEF WriterCounted, WriterStages
<1>1. \A S : Cardinality(WriterSenders(sender, S)) \in Nat
  BY WriterFinite DEF WriterSenders
<1>2. /\ Writer!Waiting \subseteq SinkTraces
      /\ IsFiniteSet(Writer!Waiting) /\ Cardinality(Writer!Waiting) \in Nat
  <2>1. Writer!Waiting \subseteq SinkTraces
    BY WriterLists, WriterSequences DEF Writer!Waiting, WriterPlaced
  <2> QED
    BY <2>1, WriterFinite
<1>3. ASSUME UNCHANGED <<writerQueue, batch>>
      PROVE  Writer!Waiting' = Writer!Waiting
  BY <1>3 DEF Writer!Waiting
<1>4. CASE \E t \in SinkTraces : Writer!Attempt(t)
  <2>1. PICK t \in SinkTraces : Writer!Attempt(t)
    BY <1>4
  <2>2. /\ sender[t] = "none" /\ sender' = [sender EXCEPT ![t] = "counted"]
        /\ attempts' = attempts + 1
        /\ UNCHANGED <<accepted, dropped, malformed, failed, succeeded, writerQueue, batch,
                       writerFaults>>
    BY <2>1 DEF Writer!Attempt, Writer!Sends
  <2>3. /\ \A u \in SinkTraces : u # t => sender'[u] = sender[u]
       /\ sender'[t] = "counted" /\ sender' \in [SinkTraces -> WriterStages]
    BY <1>0, <2>2 DEF WriterStages
  <2>4. /\ WriterSenders(sender', {"accepted"}) = WriterSenders(sender, {"accepted"})
       /\ WriterSenders(sender', {"dropped"}) = WriterSenders(sender, {"dropped"})
       /\ WriterSenders(sender', WriterHanded) = WriterSenders(sender, WriterHanded)
    BY <2>3, <2>2 DEF WriterSenders, WriterAttempted, WriterHanded, WriterStages
  <2>5. sender'[t] \in WriterAttempted /\ sender[t] \notin WriterAttempted
    BY <2>3, <2>2 DEF WriterAttempted, WriterHanded, WriterStages
  <2>6. Cardinality(WriterSenders(sender', WriterAttempted))
          = Cardinality(WriterSenders(sender, WriterAttempted)) + 1
    BY <2>3, <2>5, WriterMoves
  <2> QED
    BY <1>3, <2>2, <2>3, <2>4, <2>6 DEF WriterCounted
<1>5. CASE \E t \in SinkTraces : Writer!Send(t)
  <2>1. PICK t \in SinkTraces : Writer!Send(t)
    BY <1>5
  <2>2. /\ sender[t] = "counted" /\ batch' = batch
        /\ UNCHANGED <<attempts, accepted, dropped, malformed, failed, succeeded, writerFaults>>
    BY <2>1 DEF Writer!Send, Writer!counters
  <2>3. CASE ~closing /\ Len(writerQueue) < SinkQueue
    <3>1. /\ sender' = [sender EXCEPT ![t] = "sent"] /\ t \notin Writer!Waiting
          /\ Writer!Waiting' = Writer!Waiting \cup {t}
      BY <2>1, <2>3, WriterSend
    <3>2. Cardinality(Writer!Waiting)' = Cardinality(Writer!Waiting) + 1
      BY <1>2, <3>1, FS_AddElement
    <3>3. /\ \A u \in SinkTraces : u # t => sender'[u] = sender[u]
         /\ sender'[t] = "sent" /\ sender' \in [SinkTraces -> WriterStages]
      BY <1>0, <2>2, <3>1 DEF WriterStages
    <3>4. /\ WriterSenders(sender', WriterAttempted) = WriterSenders(sender, WriterAttempted)
         /\ WriterSenders(sender', {"accepted"}) = WriterSenders(sender, {"accepted"})
         /\ WriterSenders(sender', {"dropped"}) = WriterSenders(sender, {"dropped"})
      BY <3>3, <2>2, <3>1 DEF WriterSenders, WriterAttempted, WriterHanded, WriterStages
    <3>5. sender'[t] \in WriterHanded /\ sender[t] \notin WriterHanded
      BY <3>3, <2>2, <3>1 DEF WriterAttempted, WriterHanded, WriterStages
    <3>6. Cardinality(WriterSenders(sender', WriterHanded))
            = Cardinality(WriterSenders(sender, WriterHanded)) + 1
      BY <3>3, <3>5, WriterMoves
    <3> QED
      BY <1>1, <1>2, <2>2, <3>2, <3>3, <3>4, <3>6 DEF WriterCounted
  <2>4. CASE ~closing /\ ~(Len(writerQueue) < SinkQueue)
    <3>1. sender' = [sender EXCEPT ![t] = "refused"] /\ writerQueue' = writerQueue
      BY <2>1, <2>4 DEF Writer!Send, Writer!Sends
    <3>2. /\ \A u \in SinkTraces : u # t => sender'[u] = sender[u]
         /\ sender'[t] = "refused" /\ sender' \in [SinkTraces -> WriterStages]
      BY <1>0, <2>2, <3>1 DEF WriterStages
    <3>3. /\ WriterSenders(sender', WriterAttempted) = WriterSenders(sender, WriterAttempted)
         /\ WriterSenders(sender', {"accepted"}) = WriterSenders(sender, {"accepted"})
         /\ WriterSenders(sender', {"dropped"}) = WriterSenders(sender, {"dropped"})
         /\ WriterSenders(sender', WriterHanded) = WriterSenders(sender, WriterHanded)
      BY <3>2, <2>2, <3>1 DEF WriterSenders, WriterAttempted, WriterHanded, WriterStages
    <3> QED
      BY <1>3, <2>2, <3>1, <3>2, <3>3 DEF WriterCounted
  <2>5. CASE closing
    <3>1. sender' = sender /\ writerQueue' = writerQueue
      BY <2>1, <2>5 DEF Writer!Send
    <3> QED
      BY <1>3, <2>2, <3>1 DEF WriterCounted
  <2> QED
    BY <2>3, <2>4, <2>5
<1>6. CASE \E t \in SinkTraces : Writer!Count(t)
  <2>1. PICK t \in SinkTraces : Writer!Count(t)
    BY <1>6
  <2>2. /\ UNCHANGED <<writerQueue, batch, attempts, malformed, failed, succeeded, writerFaults>>
        /\ sender[t] \in {"sent", "refused"}
    BY <2>1 DEF Writer!Count
  <2>3. CASE sender[t] = "sent"
    <3>1. /\ sender' = [sender EXCEPT ![t] = "accepted"] /\ accepted' = accepted + 1
          /\ dropped' = dropped
      BY <2>1, <2>3 DEF Writer!Count, Writer!Sends
    <3>2. /\ \A u \in SinkTraces : u # t => sender'[u] = sender[u]
         /\ sender'[t] = "accepted" /\ sender' \in [SinkTraces -> WriterStages]
      BY <1>0, <2>3, <3>1 DEF WriterStages
    <3>3. /\ WriterSenders(sender', WriterAttempted) = WriterSenders(sender, WriterAttempted)
         /\ WriterSenders(sender', {"dropped"}) = WriterSenders(sender, {"dropped"})
         /\ WriterSenders(sender', WriterHanded) = WriterSenders(sender, WriterHanded)
      BY <3>2, <2>3, <3>1 DEF WriterSenders, WriterAttempted, WriterHanded, WriterStages
    <3>4. sender'[t] \in {"accepted"} /\ sender[t] \notin {"accepted"}
      BY <3>2, <2>3, <3>1 DEF WriterAttempted, WriterHanded, WriterStages
    <3>5. Cardinality(WriterSenders(sender', {"accepted"}))
            = Cardinality(WriterSenders(sender, {"accepted"})) + 1
      BY <3>2, <3>4, WriterMoves
    <3> QED
      BY <1>3, <2>2, <3>1, <3>2, <3>3, <3>5 DEF WriterCounted
  <2>4. CASE sender[t] = "refused"
    <3>1. /\ sender' = [sender EXCEPT ![t] = "dropped"] /\ dropped' = dropped + 1
          /\ accepted' = accepted
      BY <2>1, <2>4 DEF Writer!Count, Writer!Sends
    <3>2. /\ \A u \in SinkTraces : u # t => sender'[u] = sender[u]
         /\ sender'[t] = "dropped" /\ sender' \in [SinkTraces -> WriterStages]
      BY <1>0, <2>4, <3>1 DEF WriterStages
    <3>3. /\ WriterSenders(sender', WriterAttempted) = WriterSenders(sender, WriterAttempted)
         /\ WriterSenders(sender', {"accepted"}) = WriterSenders(sender, {"accepted"})
         /\ WriterSenders(sender', WriterHanded) = WriterSenders(sender, WriterHanded)
      BY <3>2, <2>4, <3>1 DEF WriterSenders, WriterAttempted, WriterHanded, WriterStages
    <3>4. sender'[t] \in {"dropped"} /\ sender[t] \notin {"dropped"}
      BY <3>2, <2>4, <3>1 DEF WriterAttempted, WriterHanded, WriterStages
    <3>5. Cardinality(WriterSenders(sender', {"dropped"}))
            = Cardinality(WriterSenders(sender, {"dropped"})) + 1
      BY <3>2, <3>4, WriterMoves
    <3> QED
      BY <1>3, <2>2, <3>1, <3>2, <3>3, <3>5 DEF WriterCounted
  <2> QED
    BY <2>2, <2>3, <2>4
<1>7. CASE Writer!Take
  <2>1. Writer!Waiting' = Writer!Waiting /\ sender' = sender
    BY <1>7, WriterTake
  <2>2. UNCHANGED <<attempts, accepted, dropped, malformed, failed, succeeded, writerFaults>>
    BY <1>7 DEF Writer!Take, Writer!counters
  <2> QED
    BY <2>1, <2>2 DEF WriterCounted
<1>8. CASE \E how \in {"ok", "error", "timeout"} : Writer!Flush(how)
  <2>1. PICK how \in {"ok", "error", "timeout"} : Writer!Flush(how)
    BY <1>8
  <2> DEFINE B == Writer!ToSet(batch)
  <2>2. /\ Writer!Waiting' = Writer!Waiting \ B /\ B \subseteq Writer!Waiting
        /\ Len(batch) \in Nat /\ Cardinality(B) = Len(batch) /\ sender' = sender
    BY <2>1, WriterFlush
  <2>3. Cardinality(Writer!Waiting') = Cardinality(Writer!Waiting) - Len(batch)
    <3> HIDE DEF B
    <3>1. Writer!Waiting \cap B = B
      BY <2>2
    <3>2. Cardinality(Writer!Waiting \ B)
            = Cardinality(Writer!Waiting) - Cardinality(Writer!Waiting \cap B)
      BY <1>2, FS_Difference
    <3> QED
      BY <2>2, <3>1, <3>2
  <2>4. /\ Writer!Candidates \subseteq B /\ Cardinality(Writer!Candidates) \in Nat
        /\ Cardinality(Writer!Candidates) <= Len(batch)
    <3>1. Writer!Candidates \subseteq B
      BY DEF Writer!Candidates
    <3>2. IsFiniteSet(B)
      BY <1>2, <2>2, WriterFinite
    <3> QED
      BY <2>2, <3>1, <3>2, FS_Subset, FS_CardinalityType
  <2>5. /\ malformed' = malformed + Len(batch) - Cardinality(Writer!Candidates)
        /\ \/ /\ succeeded' = succeeded + Cardinality(Writer!Candidates)
              /\ failed' = failed
           \/ /\ failed' = failed + Cardinality(Writer!Candidates)
              /\ succeeded' = succeeded
        /\ writerFaults' \in {writerFaults, writerFaults + 1}
        /\ UNCHANGED <<attempts, accepted, dropped>>
    BY <2>1, WriterSizes DEF Writer!Flush
  <2> HIDE DEF B
  <2> DEFINE c == Cardinality(Writer!Candidates)
             n == Len(batch)
  <2>6. /\ malformed' + failed' + succeeded' = malformed + failed + succeeded + n
        /\ malformed' \in Nat /\ failed' \in Nat /\ succeeded' \in Nat /\ writerFaults' \in Nat
    <3>1. n \in Nat /\ c \in Nat /\ c <= n
      BY <2>2, <2>4
    <3>2. malformed' = malformed + n - c
      BY <2>5
    <3>3. \/ succeeded' = succeeded + c /\ failed' = failed
          \/ failed' = failed + c /\ succeeded' = succeeded
      BY <2>5
    <3>4. /\ malformed \in Nat /\ failed \in Nat /\ succeeded \in Nat
          /\ writerFaults \in Nat /\ writerFaults' \in {writerFaults, writerFaults + 1}
      BY <2>5 DEF WriterCounted
    <3> HIDE DEF n, c
    <3> QED
      BY <3>1, <3>2, <3>3, <3>4
  <2>7. malformed' + failed' + succeeded' + Cardinality(Writer!Waiting')
          = malformed + failed + succeeded + Cardinality(Writer!Waiting)
    BY SMTT(30), <1>2, <2>2, <2>3, <2>6 DEF WriterCounted
  <2> QED
    BY <2>2, <2>5, <2>6, <2>7 DEF WriterCounted
<1>9. CASE \/ Writer!Tick \/ Writer!Drained \/ Writer!SweepDue \/ Writer!Expire \/ Writer!Close
           \/ Writer!Closed \/ Writer!GiveUp \/ (\E ok \in BOOLEAN : Writer!Sweep(ok))
           \/ (\E ts \in lateInserts : Writer!LateCommit(ts)) \/ UNCHANGED Writer!vars
  <2>1. /\ UNCHANGED <<writerQueue, batch, sender, attempts, accepted, dropped, malformed, failed,
                       succeeded>>
        /\ writerFaults' \in {writerFaults, writerFaults + 1}
    BY <1>9 DEF Writer!Tick, Writer!Drained, Writer!SweepDue, Writer!Expire, Writer!Close,
                Writer!Closed, Writer!GiveUp, Writer!Sweep, Writer!LateCommit, Writer!counters,
                Writer!vars
  <2> QED
    BY <1>3, <2>1 DEF WriterCounted
<1> QED
  BY <1>4, <1>5, <1>6, <1>7, <1>8, <1>9 DEF Writer!Next

\* A statement leaves one row for each request it was given, and no second one.
LEMMA WriterInserts ==
    ASSUME WriterPlaced, WriterDistinct(table), NEW ts \in SUBSET Writer!ToSet(batch)
    PROVE  /\ WriterDistinct(Writer!Inserted(ts)) /\ WriterDistinct(table \cup Writer!Inserted(ts))
           /\ \A t \in ts : \E u \in table \cup Writer!Inserted(ts) :
                SinkRequestOf[u] = SinkRequestOf[t]
<1> DEFINE free == {t \in ts : \A u \in table : SinkRequestOf[u] # SinkRequestOf[t]}
           Before(u, t) == \E i, j \in DOMAIN batch : i < j /\ batch[i] = u /\ batch[j] = t
<1>1. Writer!Inserted(ts)
        = {t \in free : ~\E u \in free : SinkRequestOf[u] = SinkRequestOf[t] /\ Before(u, t)}
  BY DEF Writer!Inserted
<1>2. \A t \in ts : \E i \in DOMAIN batch : batch[i] = t
  BY WriterLists
<1>3. Len(batch) \in Nat /\ DOMAIN batch = 1..Len(batch)
  BY WriterSequences DEF WriterPlaced
<1>4. WriterDistinct(Writer!Inserted(ts))
  <2> SUFFICES ASSUME NEW t \in Writer!Inserted(ts), NEW u \in Writer!Inserted(ts), t # u,
                      SinkRequestOf[t] = SinkRequestOf[u]
               PROVE  FALSE
    BY DEF WriterDistinct
  <2>1. t \in free /\ u \in free /\ ~Before(u, t) /\ ~Before(t, u)
    BY <1>1
  <2>2. PICK i \in DOMAIN batch : batch[i] = t
    BY <1>2, <2>1
  <2>3. PICK j \in DOMAIN batch : batch[j] = u
    BY <1>2, <2>1
  <2>4. i < j \/ j < i
    BY <1>3, <2>2, <2>3
  <2> QED
    BY <2>1, <2>2, <2>3, <2>4
<1>5. WriterDistinct(table \cup Writer!Inserted(ts))
  <2>1. \A t \in Writer!Inserted(ts), u \in table : SinkRequestOf[u] # SinkRequestOf[t]
    BY <1>1
  <2> HIDE DEF free, Before
  <2> QED
    BY <1>4, <2>1 DEF WriterDistinct
<1>6. ASSUME NEW t \in ts
      PROVE  \E u \in table \cup Writer!Inserted(ts) : SinkRequestOf[u] = SinkRequestOf[t]
  <2>1. CASE t \notin free
    BY <2>1
  <2>2. CASE t \in free
    <3> DEFINE same == {i \in DOMAIN batch : batch[i] \in free
                                          /\ SinkRequestOf[batch[i]] = SinkRequestOf[t]}
    <3>1. same \subseteq Nat /\ same # {}
      BY <1>2, <1>3, <2>2
    <3>2. PICK m \in same : \A k \in same : m <= k
      <4> HIDE DEF same
      <4> QED
        BY <3>1, LeastNumber
    <3>3. m \in DOMAIN batch /\ batch[m] \in free /\ SinkRequestOf[batch[m]] = SinkRequestOf[t]
      BY <3>2
    <3>4. ASSUME NEW u \in free, SinkRequestOf[u] = SinkRequestOf[batch[m]], Before(u, batch[m])
          PROVE  FALSE
      <4>1. PICK i \in DOMAIN batch, j \in DOMAIN batch :
                   i < j /\ batch[i] = u /\ batch[j] = batch[m]
        BY <3>4
      <4>2. j = m
        BY <3>3, <4>1 DEF WriterPlaced
      <4>3. i \in same
        BY <3>3, <3>4, <4>1
      <4>4. i \in Nat /\ m \in Nat /\ m <= i
        BY <3>1, <3>2, <4>3
      <4> QED
        BY <4>1, <4>2, <4>4
    <3>5. batch[m] \in Writer!Inserted(ts)
      BY <1>1, <3>3, <3>4
    <3> QED
      BY <3>3, <3>5
  <2> QED
    BY <2>1, <2>2
<1> QED
  BY <1>4, <1>5, <1>6

LEMMA WriterRowsStep ==
    ASSUME Writer!WriterConstants, WriterPlaced, WriterCounted, WriterRows,
           Writer!Next \/ UNCHANGED Writer!vars
    PROVE  WriterRows'
<1>1. CASE WriterQuiet
  <2>1. UNCHANGED <<table, swept, lateInserts, writerFaults>>
    BY <1>1 DEF WriterQuiet, WriterRefused, Writer!Tick, Writer!Drained, Writer!SweepDue,
                Writer!Expire,
                Writer!Close, Writer!Closed, Writer!GiveUp, Writer!Attempt, Writer!Count,
                Writer!Send, Writer!vars, Writer!rows
  <2> QED
    BY <1>1, <2>1, WriterOthers DEF WriterRows, WriterDistinct, WriterRowOf
<1>2. CASE Writer!Take
  <2>1. UNCHANGED <<table, swept, lateInserts, writerFaults>>
    BY <1>2 DEF Writer!Take, Writer!rows
  <2> QED
    BY <1>2, <2>1, WriterTake DEF WriterRows, WriterDistinct, WriterRowOf, Writer!Sent
<1>3. CASE \E t \in SinkTraces : WriterRoom(t)
  <2>1. PICK t \in SinkTraces : WriterRoom(t)
    BY <1>3
  <2>2. UNCHANGED <<table, swept, lateInserts, writerFaults>>
    BY <2>1 DEF WriterRoom, Writer!Send, Writer!rows
  <2>3. /\ Writer!Waiting' = Writer!Waiting \cup {t}
        /\ sender' = [sender EXCEPT ![t] = "sent"]
    BY <2>1, WriterSend DEF WriterRoom
  <2>4. \A u \in SinkTraces : Writer!Sent(u)' => u = t \/ Writer!Sent(u)
    BY <2>3 DEF WriterCounted, Writer!Sent
  <2> QED
    BY <2>2, <2>3, <2>4 DEF WriterRows, WriterDistinct, WriterRowOf
<1>4. CASE \E how \in {"ok", "error", "timeout"} : Writer!Flush(how)
  <2>1. PICK how \in {"ok", "error", "timeout"} : Writer!Flush(how)
    BY <1>4
  <2> DEFINE ts == Writer!Candidates
  <2>2. /\ Writer!Waiting' = Writer!Waiting \ Writer!ToSet(batch) /\ sender' = sender
    BY <2>1, WriterFlush
  <2>3. /\ WriterDistinct(Writer!Inserted(ts)) /\ WriterDistinct(table \cup Writer!Inserted(ts))
        /\ \A t \in ts : \E u \in table \cup Writer!Inserted(ts) :
             SinkRequestOf[u] = SinkRequestOf[t]
    BY WriterInserts DEF Writer!Candidates, WriterRows
  <2>4. /\ table' \in {table, table \cup Writer!Inserted(ts)} /\ swept' = swept
        /\ lateInserts' \in {lateInserts, lateInserts \cup {Writer!Inserted(ts)}}
        /\ IF how = "ok" THEN table' = table \cup Writer!Inserted(ts)
                             ELSE writerFaults' = writerFaults + 1
        /\ how = "ok" => writerFaults' = writerFaults
    BY <2>1 DEF Writer!Flush
  <2>5. WriterDistinct(table') /\ \A us \in lateInserts' : WriterDistinct(us)
    BY <2>3, <2>4 DEF WriterRows
  <2>6. ASSUME writerFaults' = 0, NEW t \in SinkTraces, Writer!Sent(t)',
               t \notin Writer!Waiting' \cup SinkMalformed
        PROVE  WriterRowOf(t)'
    <3>1. how = "ok" /\ writerFaults = 0
      BY <2>4, <2>6 DEF WriterCounted
    <3>2. CASE t \in ts
      BY <2>3, <2>4, <3>1, <3>2 DEF WriterRowOf
    <3>3. CASE t \notin ts
      <4>1. t \notin Writer!Waiting \cup SinkMalformed
        BY <2>2, <2>6, <3>3 DEF Writer!Candidates
      <4>2. WriterRowOf(t)
        BY <2>2, <2>6, <3>1, <4>1 DEF WriterRows, Writer!Sent
      <4> QED
        BY <2>4, <3>1, <4>2 DEF WriterRowOf
    <3> QED
      BY <3>2, <3>3
  <2> QED
    BY <2>5, <2>6 DEF WriterRows, WriterDistinct
<1>5. CASE \E ok \in BOOLEAN : Writer!Sweep(ok)
  <2>1. /\ table' \subseteq table /\ table' \cup swept' = table \cup swept
        /\ lateInserts' = lateInserts /\ writerFaults' \in {writerFaults, writerFaults + 1}
    BY <1>5 DEF Writer!Sweep
  <2>2. writerFaults' = 0 => writerFaults = 0
    BY <2>1 DEF WriterCounted
  <2> QED
    BY <1>5, <2>1, <2>2, WriterOthers DEF WriterRows, WriterDistinct, WriterRowOf
<1>6. CASE \E ts \in lateInserts : Writer!LateCommit(ts)
  <2>1. PICK ts \in lateInserts : Writer!LateCommit(ts)
    BY <1>6
  <2> DEFINE new == {t \in ts : \A u \in table : SinkRequestOf[u] # SinkRequestOf[t]}
  <2>2. /\ table' = table \cup new /\ lateInserts' \subseteq lateInserts
        /\ swept' = swept /\ writerFaults' = writerFaults
    BY <2>1 DEF Writer!LateCommit
  <2>3. WriterDistinct(new) /\ \A t \in new, u \in table : SinkRequestOf[u] # SinkRequestOf[t]
    BY DEF WriterRows, WriterDistinct
  <2>4. WriterDistinct(table')
    <3> HIDE DEF new
    <3> QED
      BY <2>2, <2>3 DEF WriterRows, WriterDistinct
  <2> HIDE DEF new
  <2> QED
    BY <1>6, <2>2, <2>4, WriterOthers DEF WriterRows, WriterDistinct, WriterRowOf
<1> QED
  BY <1>1, <1>2, <1>3, <1>4, <1>5, <1>6, WriterCases

\* Once Close has seen the worker end, every outcome is counted under one heading.
LEMMA WriterInvImplies ==
    ASSUME Writer!WriterConstants, WriterInv
    PROVE  Writer!TracesAreAccounted
<1> USE DEF WriterInv
<1>1. {t \in SinkTraces : Writer!Sent(t)} = WriterSenders(sender, WriterHanded)
  BY DEF Writer!Sent, WriterSenders, WriterHanded
<1>2. malformed + failed + succeeded + Cardinality(Writer!Waiting)
        = Cardinality({t \in SinkTraces : Writer!Sent(t)})
  BY <1>1 DEF WriterCounted
<1>3. ASSUME closer = "closed", \A t \in SinkTraces : sender[t] \in {"none", "accepted", "dropped"}
      PROVE  /\ Writer!Waiting = {} /\ attempts = accepted + dropped
             /\ accepted = malformed + failed + succeeded
  <2>1. Writer!Waiting = {} /\ Cardinality(Writer!Waiting) = 0
    BY <1>3, WriterLists, FS_EmptySet DEF WriterEnds, Writer!Waiting
  <2> DEFINE A == WriterSenders(sender, {"accepted"})
             D == WriterSenders(sender, {"dropped"})
  <2>2. WriterSenders(sender, WriterAttempted) = A \cup D /\ A \cap D = {}
    BY <1>3 DEF WriterSenders, WriterAttempted, WriterStages
  <2>3. WriterSenders(sender, WriterHanded) = A
    BY <1>3 DEF WriterSenders, WriterHanded
  <2>4. IsFiniteSet(A) /\ IsFiniteSet(D) /\ Cardinality(A) \in Nat /\ Cardinality(D) \in Nat
    BY WriterFinite DEF WriterSenders
  <2> HIDE DEF A, D
  <2>5. Cardinality(A \cup D) = Cardinality(A) + Cardinality(D) - Cardinality(A \cap D)
    BY <2>4, FS_Union
  <2>6. Cardinality(A \cup D) = Cardinality(A) + Cardinality(D)
    BY <2>2, <2>4, <2>5, FS_EmptySet
  <2>7. /\ attempts = Cardinality(A \cup D) /\ accepted = Cardinality(A)
        /\ dropped = Cardinality(D)
        /\ malformed + failed + succeeded + Cardinality(Writer!Waiting) = Cardinality(A)
        /\ malformed \in Nat /\ failed \in Nat /\ succeeded \in Nat
    BY <2>2, <2>3 DEF WriterCounted, A, D
  <2> QED
    BY <2>1, <2>6, <2>7
<1>4. \A t, u \in table : SinkRequestOf[t] = SinkRequestOf[u] => t = u
  BY DEF WriterRows, WriterDistinct
<1>5. writerFaults = 0 =>
        \A t \in SinkTraces : Writer!Sent(t) /\ t \notin Writer!Waiting \cup SinkMalformed =>
          \E u \in table \cup swept : SinkRequestOf[u] = SinkRequestOf[t]
  BY DEF WriterRows, WriterRowOf
<1> QED
  BY <1>2, <1>3, <1>4, <1>5, WriterSizes DEF Writer!TracesAreAccounted

\* Whatever fails, is given up or comes late, the counters of the sink add up, a request has one
\* row at most, and a trace not counted as lost has its row (mysql_writer.go).
THEOREM WriterAccountsForTraces ==
    ASSUME Writer!WriterConstants
    PROVE  Writer!Spec => []Writer!TracesAreAccounted
<1>1. Writer!Init => WriterInv
  BY WriterInvInit
<1>2. WriterInv /\ [Writer!Next]_(Writer!vars) => WriterInv'
  BY WriterPlacedStep, WriterEndsStep, WriterCountedStep, WriterRowsStep DEF WriterInv
<1>3. WriterInv => Writer!TracesAreAccounted
  BY WriterInvImplies
<1> QED
  BY <1>1, <1>2, <1>3, PTL DEF Writer!Spec

-----------------------------------------------------------------------------
(* The file edits.  The invariant ties what lies beside the target to the    *)
(* plan of each edit, and says which texts cannot be in place yet.           *)

FilesStages == {"idle", "approved", "backup", "temporary", "rename", "verify", "rollback",
                "readback", "clean", "sweep", "done"}
FilesTyped ==
  /\ target \in Files!Files \cup {Files!Absent, Files!Other}
  /\ temp \in [FileEdits -> Files!Files \cup {Files!Absent, Files!Partial}]
  /\ backup \in [FileEdits -> Files!Files \cup {Files!Absent, Files!Partial}]
  /\ plan \in [FileEdits -> Files!Files \cup {Files!Absent}]
  /\ editStage \in [FileEdits -> FilesStages]
  /\ report \in [FileEdits -> {"none", "refused", "ok", "unchanged", "changed"}]

\* An edit is one text, in the target only from its rename on.
FilesUnseen ==
  /\ \A e, f \in FileEdits : editStage[e] \in {"idle", "approved", "backup", "temporary", "rename"} =>
       ~Files!Shows(target, e) /\ plan[f].text # e
  /\ \A e \in FileEdits : plan[e].text # e

\* What was planned, and what of it has been written beside the target.
FilesPlanned ==
  \A e \in FileEdits :
    /\ editStage[e] = "idle" => plan[e] = Files!Absent /\ backup[e] = Files!Absent
                                /\ temp[e] = Files!Absent
    /\ editStage[e] \notin {"idle", "done"} =>
         IF e \in FileCreates THEN plan[e] = Files!Absent ELSE plan[e] \in Files!Files
    /\ editStage[e] = "rename" => temp[e] = Files!New(e)
    /\ editStage[e] \in {"temporary", "rename", "verify", "rollback", "readback"}
         /\ e \notin FileCreates => backup[e] = plan[e]
    /\ editStage[e] = "rollback" => e \notin FileCreates

\* The replaced file can be had back; before a sweep, its replacement was seen to be gone.
FilesKept ==
  \A e \in FileEdits \ FileCreates :
    /\ Files!HasBackup(e)
    /\ editStage[e] = "sweep" =>
         ~Files!Shows(target, e) \/ \E f \in FileEdits : plan[f].text = e

FilesInv == FilesTyped /\ FilesUnseen /\ FilesPlanned /\ FilesKept

\* The files an edit makes, and the texts that are none's.
LEMMA FilesTexts ==
    ASSUME Files!FileConstants
    PROVE  /\ FileCreates \subseteq FileEdits
           /\ \A t \in FileTexts : t \notin FileEdits
           /\ \A f \in Files!Files : /\ f = [text |-> f.text, meta |-> f.meta] /\ f.meta \in FileMetas
                                   /\ f.text \in FileTexts \cup FileEdits
           /\ "absent" \notin FileEdits /\ "other" \notin FileEdits
           /\ Files!Absent.text = "absent" /\ Files!Other.text = "other"
           /\ Files!Absent \notin Files!Files /\ Files!Other \notin Files!Files
           /\ Files!Partial \notin Files!Files
           /\ Files!PlanMeta \in FileMetas
<1>1. FileMetas # {} /\ FileCreates \subseteq FileEdits /\ FileEdits \cap FileTexts = {}
        /\ {"absent", "other", "partial"} \cap (FileEdits \cup FileTexts) = {}
  BY DEF Files!FileConstants
<1>2. Files!PlanMeta \in FileMetas
  BY <1>1 DEF Files!PlanMeta
<1>3. \A f \in Files!Files : /\ f = [text |-> f.text, meta |-> f.meta] /\ f.meta \in FileMetas
                           /\ f.text \in FileTexts \cup FileEdits
  BY DEF Files!Files
<1>4. /\ Files!Absent.text = "absent" /\ Files!Other.text = "other" /\ Files!Partial.text = "partial"
  BY DEF Files!Absent, Files!Other, Files!Partial, Files!NoFile
<1> QED
  BY <1>1, <1>2, <1>3, <1>4

\* What an edit leaves is a file with its text; whoever shows it is one.
LEMMA FilesNew ==
    ASSUME Files!FileConstants, FilesTyped, FilesPlanned, NEW e \in FileEdits,
           editStage[e] \notin {"idle", "done"}
    PROVE  Files!New(e) \in Files!Files /\ Files!New(e).text = e
<1>1. CASE e \in FileCreates
  BY <1>1, FilesTexts DEF Files!New, Files!Files
<1>2. CASE e \notin FileCreates
  <2>1. plan[e].meta \in FileMetas
    BY <1>2, FilesTexts DEF FilesPlanned
  <2> QED
    BY <1>2, <2>1 DEF Files!New, Files!Files
<1> QED
  BY <1>1, <1>2

LEMMA FilesInvInit == Files!FileConstants /\ Files!Init => FilesInv
<1> SUFFICES ASSUME Files!FileConstants, Files!Init PROVE FilesInv
  OBVIOUS
<1> USE DEF Files!Init
<1>1. FilesTyped
  BY DEF FilesTyped, FilesStages
<1>2. \A e \in FileEdits : ~Files!Shows(target, e)
  BY FilesTexts DEF Files!Shows
<1>3. \A e, f \in FileEdits : plan[f].text # e
  BY FilesTexts
<1>4. FilesUnseen
  BY <1>2, <1>3 DEF FilesUnseen
<1>5. FilesPlanned
  BY DEF FilesPlanned
<1>6. FilesKept
  BY <1>2 DEF FilesKept, Files!HasBackup
<1> QED
  BY <1>1, <1>4, <1>5, <1>6 DEF FilesInv

LEMMA FilesTypedStep ==
    ASSUME Files!FileConstants, FilesTyped, FilesPlanned, Files!Next
    PROVE  FilesTyped'
<1>1. CASE Files!Touch
  <2>1. target' \in Files!Files \cup {Files!Absent, Files!Other}
    <3>1. CASE target' \in {f \in Files!Files : f.text \in FileTexts} \cup {Files!Absent, Files!Other}
      BY <3>1
    <3>2. CASE target \in Files!Files /\ \E m \in FileMetas : target' = [target EXCEPT !.meta = m]
      BY <3>2 DEF Files!Files
    <3> QED
      BY <1>1, <3>1, <3>2 DEF Files!Touch
  <2> QED
    BY <1>1, <2>1 DEF Files!Touch, FilesTyped
<1>2. ASSUME NEW e \in FileEdits, Files!Step(e)
      PROVE  FilesTyped'
  <2> USE DEF Files!At, Files!Goto, Files!Says
  <2>1. CASE Files!Prepare(e)
    <3>1. plan' = plan \/ (plan' = [plan EXCEPT ![e] = target]
                             /\ target \in Files!Files \cup {Files!Absent})
      BY <2>1 DEF Files!Prepare
    <3>2. /\ UNCHANGED <<target, temp, backup>>
          /\ \/ editStage' = [editStage EXCEPT ![e] = "approved"] /\ report' = report
             \/ editStage' = [editStage EXCEPT ![e] = "done"]
                /\ report' = [report EXCEPT ![e] = "refused"]
      BY <2>1 DEF Files!Prepare
    <3>3. plan' \in [FileEdits -> Files!Files \cup {Files!Absent}]
      BY <3>1 DEF FilesTyped
    <3> QED
      BY <3>2, <3>3 DEF FilesTyped, FilesStages
  <2>2. CASE Files!Recheck(e)
    BY <2>2 DEF Files!Recheck, FilesTyped, FilesStages
  <2>3. CASE Files!StoreBackup(e)
    BY <2>3 DEF Files!StoreBackup, FilesTyped, FilesStages
  <2>4. CASE Files!StoreTemporary(e)
    <3>1. Files!New(e) \in Files!Files
      BY <2>4, FilesNew DEF Files!StoreTemporary
    <3> QED
      BY <2>4, <3>1 DEF Files!StoreTemporary, FilesTyped, FilesStages
  <2>5. CASE Files!Rename(e)
    <3>1. temp[e] \in Files!Files
      BY <2>5, FilesNew DEF Files!Rename, FilesPlanned
    <3> QED
      BY <2>5, <3>1 DEF Files!Rename, FilesTyped, FilesStages
  <2>6. CASE Files!Verify(e)
    BY <2>6 DEF Files!Verify, FilesTyped, FilesStages
  <2>7. CASE Files!Rollback(e)
    <3>1. backup[e] \in Files!Files
      BY <2>7 DEF Files!Rollback, FilesPlanned
    <3> QED
      BY <2>7, <3>1 DEF Files!Rollback, FilesTyped, FilesStages
  <2>8. CASE Files!ReadBack(e)
    BY <2>8 DEF Files!ReadBack, FilesTyped, FilesStages
  <2>9. CASE Files!Clean(e)
    BY <2>9 DEF Files!Clean, FilesTyped, FilesStages
  <2>10. CASE Files!Kill(e)
    BY <2>10 DEF Files!Kill, FilesTyped, FilesStages
  <2> QED
    BY <1>2, <2>1, <2>2, <2>3, <2>4, <2>5, <2>6, <2>7, <2>8, <2>9, <2>10 DEF Files!Step
<1> QED
  BY <1>1, <1>2 DEF Files!Next

LEMMA FilesPlannedStep ==
    ASSUME Files!FileConstants, FilesTyped, FilesPlanned, Files!Next
    PROVE  FilesPlanned'
<1>1. CASE Files!Touch
  BY <1>1 DEF Files!Touch, FilesPlanned, Files!New
<1>2. ASSUME NEW e \in FileEdits, Files!Step(e)
      PROVE  FilesPlanned'
  <2> USE DEF Files!At, Files!Goto, Files!Says
  <2>1. \A f \in FileEdits \ {e} : /\ plan'[f] = plan[f] /\ temp'[f] = temp[f]
                                  /\ backup'[f] = backup[f] /\ editStage'[f] = editStage[f]
    BY <1>2 DEF Files!Step, Files!Prepare, Files!Recheck, Files!StoreBackup, Files!StoreTemporary,
                Files!Rename, Files!Verify, Files!Rollback, Files!ReadBack, Files!Clean,
                Files!Kill, FilesTyped
  <2> DEFINE Own ==
        /\ editStage'[e] # "idle"
        /\ editStage'[e] \notin {"idle", "done"} =>
             IF e \in FileCreates THEN plan'[e] = Files!Absent ELSE plan'[e] \in Files!Files
        /\ editStage'[e] = "rename" => temp'[e] = Files!New(e)'
        /\ editStage'[e] \in {"temporary", "rename", "verify", "rollback", "readback"}
             /\ e \notin FileCreates => backup'[e] = plan'[e]
        /\ editStage'[e] = "rollback" => e \notin FileCreates
  <2>2. Own
    <3>1. CASE Files!Prepare(e)
      BY <3>1 DEF Files!Prepare, FilesTyped
    <3>2. CASE Files!Recheck(e)
      BY <3>2 DEF Files!Recheck, FilesTyped, FilesPlanned
    <3>3. CASE Files!StoreBackup(e)
      BY <3>3 DEF Files!StoreBackup, FilesTyped, FilesPlanned
    <3>4. CASE Files!StoreTemporary(e)
      BY <3>4 DEF Files!StoreTemporary, FilesTyped, FilesPlanned, Files!New
    <3>5. CASE Files!Rename(e)
      BY <3>5 DEF Files!Rename, FilesTyped, FilesPlanned
    <3>6. CASE Files!Verify(e)
      BY <3>6 DEF Files!Verify, FilesTyped, FilesPlanned
    <3>7. CASE Files!Rollback(e)
      BY <3>7 DEF Files!Rollback, FilesTyped, FilesPlanned
    <3>8. CASE Files!ReadBack(e)
      BY <3>8 DEF Files!ReadBack, FilesTyped, FilesPlanned
    <3>9. CASE Files!Clean(e)
      BY <3>9 DEF Files!Clean, FilesTyped, FilesPlanned
    <3>10. CASE Files!Kill(e)
      BY <3>10 DEF Files!Kill, FilesTyped, FilesPlanned
    <3> QED
      BY <1>2, <3>1, <3>2, <3>3, <3>4, <3>5, <3>6, <3>7, <3>8, <3>9, <3>10 DEF Files!Step
  <2> QED
    BY <2>1, <2>2 DEF FilesPlanned, Files!New
<1> QED
  BY <1>1, <1>2 DEF Files!Next

\* What a step may put in place of the target.
LEMMA FilesTargets ==
    ASSUME Files!FileConstants, FilesTyped, FilesPlanned, Files!Next,
           NEW e \in FileEdits, Files!Shows(target, e)'
    PROVE  \/ Files!Shows(target, e)
           \/ Files!Rename(e) /\ target' = temp[e] /\ editStage'[e] \in {"verify", "readback"}
           \/ \E f \in FileEdits : plan[f].text = e
<1>1. target' \in Files!Files /\ target'.text = e
  BY DEF Files!Shows
<1>2. CASE Files!Touch
  <2>1. CASE target' \in {f \in Files!Files : f.text \in FileTexts} \cup {Files!Absent, Files!Other}
    BY <1>1, <2>1, FilesTexts
  <2>2. CASE target \in Files!Files /\ \E m \in FileMetas : target' = [target EXCEPT !.meta = m]
    BY <1>1, <2>2 DEF Files!Files, Files!Shows
  <2> QED
    BY <1>2, <2>1, <2>2 DEF Files!Touch
<1>3. ASSUME NEW f \in FileEdits, Files!Rename(f), target' # target
      PROVE  Files!Rename(e) /\ target' = temp[e] /\ editStage'[e] \in {"verify", "readback"}
  <2>1. target' = temp[f] /\ temp[f] = Files!New(f) /\ editStage[f] = "rename"
    BY <1>3 DEF Files!Rename, FilesPlanned, Files!At
  <2>2. target'.text = f
    BY <2>1, FilesNew
  <2>3. editStage'[f] \in {"verify", "readback"}
    BY <1>3 DEF Files!Rename, Files!Goto, FilesTyped
  <2> QED
    BY <1>1, <1>3, <2>1, <2>2, <2>3
<1>4. ASSUME NEW f \in FileEdits, Files!Rollback(f), target' # target
      PROVE  plan[f].text = e
  BY <1>1, <1>4 DEF Files!Rollback, FilesPlanned, Files!At
<1>5. CASE target' = target
  BY <1>1, <1>5 DEF Files!Shows
<1>6. ASSUME NEW f \in FileEdits, Files!Step(f), ~Files!Rename(f), ~Files!Rollback(f)
      PROVE  target' = target
  BY <1>6 DEF Files!Step, Files!Prepare, Files!Recheck, Files!StoreBackup, Files!StoreTemporary,
              Files!Verify, Files!ReadBack, Files!Clean, Files!Kill
<1> QED
  BY <1>2, <1>3, <1>4, <1>5, <1>6 DEF Files!Next, Files!Step

\* A plan is made once, of the target.
LEMMA FilesPlans ==
    ASSUME FilesTyped, FilesPlanned, Files!Next, NEW f \in FileEdits
    PROVE  \/ plan'[f] = plan[f]
           \/ Files!Prepare(f) /\ plan'[f] = target /\ plan[f] = Files!Absent
<1>1. CASE Files!Touch
  BY <1>1 DEF Files!Touch
<1>2. ASSUME NEW e \in FileEdits, Files!Step(e), ~Files!Prepare(e)
      PROVE  plan' = plan
  BY <1>2 DEF Files!Step, Files!Recheck, Files!StoreBackup, Files!StoreTemporary, Files!Rename,
              Files!Verify, Files!Rollback, Files!ReadBack, Files!Clean, Files!Kill
<1>3. ASSUME NEW e \in FileEdits, Files!Prepare(e)
      PROVE  \/ plan'[f] = plan[f]
             \/ Files!Prepare(f) /\ plan'[f] = target /\ plan[f] = Files!Absent
  BY <1>3 DEF Files!Prepare, FilesTyped, FilesPlanned, Files!At
<1> QED
  BY <1>1, <1>2, <1>3 DEF Files!Next

LEMMA FilesUnseenStep ==
    ASSUME Files!FileConstants, FilesTyped, FilesUnseen, FilesPlanned, Files!Next
    PROVE  FilesUnseen'
<1> DEFINE Before == {"idle", "approved", "backup", "temporary", "rename"}
<1>1. ASSUME NEW e \in FileEdits, editStage'[e] \in Before
      PROVE  editStage[e] \in Before
  <2>1. CASE Files!Touch
    BY <1>1, <2>1 DEF Files!Touch
  <2>2. ASSUME NEW f \in FileEdits, Files!Step(f)
        PROVE  editStage[e] \in Before
    BY <1>1, <2>2 DEF Files!Step, Files!Prepare, Files!Recheck, Files!StoreBackup,
         Files!StoreTemporary, Files!Rename, Files!Verify, Files!Rollback, Files!ReadBack,
         Files!Clean, Files!Kill, Files!At, Files!Goto, FilesTyped
  <2> QED
    BY <2>1, <2>2 DEF Files!Next
<1>2. ASSUME NEW e \in FileEdits, editStage'[e] \in Before
      PROVE  ~Files!Shows(target, e)'
  <2>1. ~Files!Shows(target, e) /\ \A f \in FileEdits : plan[f].text # e
    BY <1>1, <1>2 DEF FilesUnseen
  <2> QED
    BY <1>2, <2>1, FilesTargets
<1>3. ASSUME NEW e \in FileEdits, NEW f \in FileEdits, editStage[e] \in Before,
             plan'[f].text = e
      PROVE  FALSE
  <2>1. ~Files!Shows(target, e) /\ plan[f].text # e
    BY <1>3 DEF FilesUnseen
  <2>2. plan'[f] = target /\ Files!Prepare(f)
    BY <1>3, <2>1, FilesPlans
  <2>3. target = Files!Absent \/ target \in Files!Files \/ target = Files!Other
    BY DEF FilesTyped
  <2> QED
    BY <1>3, <2>1, <2>2, <2>3, FilesTexts DEF Files!Shows
<1>4. ASSUME NEW e \in FileEdits
      PROVE  plan'[e].text # e
  <2>1. CASE plan'[e] = plan[e]
    BY <2>1 DEF FilesUnseen
  <2>2. CASE Files!Prepare(e)
    BY <1>3, <2>2 DEF Files!Prepare, Files!At
  <2> QED
    BY <2>1, <2>2, FilesPlans
<1> QED
  BY <1>1, <1>2, <1>3, <1>4 DEF FilesUnseen

\* No step loses the way back to a file whose replacement is in place.
LEMMA FilesKeptStep ==
    ASSUME Files!FileConstants, FilesTyped, FilesUnseen, FilesPlanned, FilesKept, Files!Next
    PROVE  FilesKept'
<1> SUFFICES ASSUME NEW e \in FileEdits \ FileCreates, Files!Shows(target, e)',
                    \A f \in FileEdits : plan'[f].text # e
             PROVE  backup'[e] = plan'[e] /\ editStage'[e] # "sweep"
  BY DEF FilesKept, Files!HasBackup
<1> USE DEF Files!At, Files!Goto
<1>1. \A f \in FileEdits : plan[f].text # e
  BY FilesPlans, FilesTexts
<1>2. \/ Files!Shows(target, e)
      \/ Files!Rename(e) /\ editStage'[e] \in {"verify", "readback"}
  BY <1>1, FilesTargets
<1>3. CASE Files!Rename(e) /\ editStage'[e] \in {"verify", "readback"}
  BY <1>3 DEF Files!Rename, FilesPlanned
<1>4. CASE Files!Shows(target, e)
  <2>1. /\ editStage[e] \notin {"idle", "approved", "backup", "temporary", "rename", "sweep"}
        /\ backup[e] = plan[e] /\ plan[e].text # e
    BY <1>1, <1>4 DEF FilesUnseen, FilesKept, Files!HasBackup
  <2>2. CASE Files!Touch
    BY <2>1, <2>2 DEF Files!Touch
  <2>3. ASSUME NEW f \in FileEdits, Files!Step(f), f # e
        PROVE  backup'[e] = backup[e] /\ plan'[e] = plan[e] /\ editStage'[e] = editStage[e]
    BY <2>3 DEF Files!Step, Files!Prepare, Files!Recheck, Files!StoreBackup, Files!StoreTemporary,
                Files!Rename, Files!Verify, Files!Rollback, Files!ReadBack, Files!Clean,
                Files!Kill, FilesTyped
  <2>4. CASE Files!Step(e)
    <3>1. CASE Files!Verify(e)
      BY <2>1, <3>1 DEF Files!Verify, FilesTyped
    <3>2. CASE Files!Rollback(e)
      BY <2>1, <3>2 DEF Files!Rollback, FilesTyped, Files!Shows
    <3>3. CASE Files!ReadBack(e)
      BY <1>4, <2>1, <3>3 DEF Files!ReadBack, FilesTyped, Files!Shows
    <3>4. CASE Files!Clean(e)
      BY <2>1, <3>4 DEF Files!Clean, FilesTyped
    <3>5. CASE Files!Kill(e)
      BY <2>1, <3>5 DEF Files!Kill, FilesTyped
    <3> QED
      BY <2>1, <2>4, <3>1, <3>2, <3>3, <3>4, <3>5
      DEF Files!Step, Files!Prepare, Files!Recheck, Files!StoreBackup, Files!StoreTemporary,
          Files!Rename
  <2> QED
    BY <2>1, <2>2, <2>3, <2>4 DEF Files!Next
<1> QED
  BY <1>2, <1>3, <1>4

\* What a step says of an edit is so once it is said.
LEMMA FilesReports ==
    ASSUME Files!FileConstants, FilesTyped, FilesUnseen, FilesPlanned, Files!Next,
           NEW e \in FileEdits, report'[e] # report[e]
    PROVE  /\ report'[e] = "ok" => Files!Shows(target, e)'
           /\ report'[e] \in {"unchanged", "refused"} => ~Files!Shows(target, e)'
<1> USE DEF Files!At, Files!Goto, Files!Says
<1>1. Files!Step(e)
  <2>1. ~Files!Touch
    BY DEF Files!Touch
  <2>2. ASSUME NEW f \in FileEdits, Files!Step(f), f # e
        PROVE  report'[e] = report[e]
    BY <2>2 DEF Files!Step, Files!Prepare, Files!Recheck, Files!StoreBackup, Files!StoreTemporary,
                Files!Rename, Files!Verify, Files!Rollback, Files!ReadBack, Files!Clean,
                Files!Kill, FilesTyped
  <2> QED
    BY <2>1, <2>2 DEF Files!Next
<1>2. plan[e].text # e
  BY DEF FilesUnseen
<1>3. CASE editStage[e] \in {"idle", "approved", "backup", "temporary", "rename"}
  <2>1. ~Files!Shows(target, e)
    BY <1>3 DEF FilesUnseen
  <2>2. target' = target \/ Files!Rename(e)
    BY <1>1, <1>3 DEF Files!Step, Files!Prepare, Files!Recheck, Files!StoreBackup,
         Files!StoreTemporary, Files!Verify, Files!Rollback, Files!ReadBack, Files!Clean,
         Files!Kill
  <2>3. ~Files!Rename(e)
    BY DEF Files!Rename
  <2>4. report'[e] # "ok"
    BY <1>1, <1>3 DEF Files!Step, Files!Prepare, Files!Recheck, Files!StoreBackup,
         Files!StoreTemporary, Files!Rename, Files!Verify, Files!Rollback, Files!ReadBack,
         Files!Clean, Files!Kill, FilesTyped
  <2> QED
    BY <2>1, <2>2, <2>3, <2>4 DEF Files!Shows
<1>4. CASE Files!Verify(e)
  BY <1>4 DEF Files!Verify, Files!Holds, Files!Shows, FilesTyped
<1>5. CASE Files!Rollback(e)
  BY <1>2, <1>5 DEF Files!Rollback, Files!Shows, FilesPlanned, FilesTyped
<1>6. CASE Files!ReadBack(e)
  <2>1. Files!New(e) \in Files!Files /\ Files!New(e).text = e
    BY <1>6, FilesNew DEF Files!ReadBack
  <2>2. target' = target /\ report'[e] \in {"ok", "unchanged", "changed"}
    BY <1>6 DEF Files!ReadBack, FilesTyped
  <2>3. report'[e] = "ok" => target = Files!New(e)
    BY <1>6 DEF Files!ReadBack, FilesTyped
  <2>4. report'[e] = "unchanged" => target = plan[e] \/ target = Files!Other
    BY <1>6 DEF Files!ReadBack, FilesTyped
  <2> QED
    BY <1>2, <2>1, <2>2, <2>3, <2>4, FilesTexts DEF Files!Shows
<1> QED
  BY <1>1, <1>3, <1>4, <1>5, <1>6
  DEF Files!Step, Files!Prepare, Files!Recheck, Files!StoreBackup, Files!StoreTemporary,
      Files!Rename, Files!Clean, Files!Kill

LEMMA FilesInvStep ==
    ASSUME Files!FileConstants, FilesInv, [Files!Next]_(Files!vars)
    PROVE  FilesInv'
<1>1. CASE Files!Next
  BY <1>1, FilesTypedStep, FilesUnseenStep, FilesPlannedStep, FilesKeptStep DEF FilesInv
<1>2. CASE UNCHANGED Files!vars
  <2>1. FilesTyped'
    BY <1>2 DEF FilesInv, FilesTyped, Files!vars
  <2>2. FilesUnseen'
    BY <1>2 DEF FilesInv, FilesUnseen, Files!vars, Files!Shows
  <2>3. FilesPlanned'
    BY <1>2 DEF FilesInv, FilesPlanned, Files!vars, Files!New
  <2>4. FilesKept'
    BY <1>2 DEF FilesInv, FilesKept, Files!vars, Files!HasBackup, Files!Shows
  <2> QED
    BY <2>1, <2>2, <2>3, <2>4 DEF FilesInv
<1> QED
  BY <1>1, <1>2

\* What the model is told of an edit of a guest's file is so when it is told, and as long as the
\* edit is in place the file it replaced can be had back (atomic_file.py).
THEOREM FilesHonest == ASSUME Files!FileConstants PROVE Files!Spec => Files!EditsAreHonest
<1>1. Files!Init => FilesInv
  BY FilesInvInit
<1>2. FilesInv /\ [Files!Next]_(Files!vars) => FilesInv'
  BY FilesInvStep
<1>3. FilesInv /\ FilesInv' /\ [Files!Next]_(Files!vars) =>
        [\A e \in FileEdits : report'[e] # report[e] =>
           /\ report'[e] = "ok" => Files!Shows(target', e)
           /\ report'[e] \in {"unchanged", "refused"} => ~Files!Shows(target', e)]_(Files!vars)
  BY FilesReports DEF FilesInv, Files!Shows
<1>4. FilesInv' => \A e \in FileEdits \ FileCreates : Files!HasBackup(e)'
  BY DEF FilesInv, FilesKept
<1> QED
  BY <1>1, <1>2, <1>3, <1>4, PTL
  DEF Files!Spec, Files!EditsAreHonest, Files!FileReportIsTrue, Files!ReviewedFileIsKept

-----------------------------------------------------------------------------
(* The delegated token.  The invariant says which copy of the rotating token *)
(* is the one to use, and where its successor is while it is on its way.     *)

GrantTokens  == Nat \X Nat
GrantRecords == [token : GrantTokens, expires : Nat, until : Nat]

GrantTyped ==
  /\ grantClock \in Nat /\ secret \in Nat /\ sentAt \in Nat
  /\ grants \in Seq([next : Nat, own : BOOLEAN, full : BOOLEAN])
  /\ bootstrap \in GrantTokens /\ deskFile \in GrantTokens
  /\ grantRow \in [record : GrantRecords, under : Nat]
  /\ grantMemory \in GrantRecords /\ tokenReply \in GrantRecords
  /\ grantStage \in {"idle", "check", "load", "exchange", "sent", "save"}
  /\ desk \in {"idle", "listening", "exchange", "write"}
  /\ astray \in BOOLEAN

\* A token that is kept comes from a grant of all scopes that answered this command.
GrantProper(token) ==
  token # Grant!NoToken =>
    token[1] \in DOMAIN grants /\ grants[token[1]].own /\ grants[token[1]].full

GrantDesk ==
  /\ \A c \in code : c.own \in BOOLEAN /\ c.full \in BOOLEAN /\ c.own
  /\ GrantProper(deskFile) /\ GrantProper(bootstrap) /\ GrantProper(Grant!Used)
  /\ desk = "write" =>
       /\ Len(grants) > 0 /\ grants[Len(grants)].own /\ grants[Len(grants)].full
       /\ astray \/ grants[Len(grants)].next = 1
       /\ deskFile[1] < Len(grants) /\ bootstrap[1] < Len(grants)
       /\ Grant!Used[1] < Len(grants)

\* What the process remembers is what the next start would use, in the store or deployed.
GrantRemembered ==
  /\ \/ grantMemory = Grant!NoRecord
     \/ grantRow # Grant!NoRow /\ grantMemory = grantRow.record
     \/ grantRow = Grant!NoRow /\ grantMemory = Grant!Record(bootstrap, 0, 0)
  /\ grantStage = "exchange" => grantMemory.token = Grant!Used
  /\ grantRow.record.expires # 0 =>
       grantRow.record.expires <= grantRow.record.until + GrantTimeout

\* The successor on its way from the platform to the store.
GrantOnItsWay ==
  Grant!InFlight =>
    /\ Grant!Used # Grant!NoToken
    /\ tokenReply.token = <<Grant!Used[1], Grant!Used[2] + 1>>
    /\ sentAt <= grantClock /\ grantClock <= sentAt + GrantTimeout
    /\ tokenReply.until = sentAt + GrantLife
    /\ grantStage = "save" => tokenReply.expires = grantClock + GrantLife
    /\ ~astray => Grant!Taken(tokenReply.token)

\* Nothing was lost: the platform takes what the next start would use.
GrantLive ==
  ~astray /\ ~Grant!InFlight =>
    /\ Grant!Used = Grant!NoToken \/ (Grant!Taken(Grant!Used) /\ grantRow.under \in {0, secret})
    /\ grantRow = Grant!NoRow => deskFile = Grant!NoToken \/ Grant!Taken(deskFile)

\* Who exchanges a token is a process that runs and holds its mutex.
GrantHeld == grantStage # "idle" => process # "down" /\ holder # Grant!Nobody

GrantGiven == given.until > given.at /\ given.stored

GrantInv ==
  /\ GrantTyped /\ GrantDesk /\ GrantRemembered /\ GrantHeld
  /\ GrantOnItsWay /\ GrantLive /\ GrantGiven

GrantStates == [next : Nat, own : BOOLEAN, full : BOOLEAN]

LEMMA GrantTurned ==
    ASSUME NEW s \in Seq(GrantStates), NEW g \in DOMAIN s, NEW n \in Nat
    PROVE  /\ [s EXCEPT ![g].next = n] \in Seq(GrantStates)
           /\ Len([s EXCEPT ![g].next = n]) = Len(s)
           /\ \A h \in 1..Len(s) :
                /\ [s EXCEPT ![g].next = n][h].own = s[h].own
                /\ [s EXCEPT ![g].next = n][h].full = s[h].full
                /\ [s EXCEPT ![g].next = n][h].next = IF h = g THEN n ELSE s[h].next
<1> DEFINE t == [s EXCEPT ![g].next = n]
<1>1. DOMAIN s = 1..Len(s) /\ Len(s) \in Nat
  OBVIOUS
<1>2. \A h \in 1..Len(s) : s[h] \in GrantStates
  OBVIOUS
<1>3. t = [h \in 1..Len(s) |-> IF h = g THEN [s[g] EXCEPT !.next = n] ELSE s[h]]
  BY <1>1
<1>4. [s[g] EXCEPT !.next = n] \in GrantStates
  BY <1>1, <1>2 DEF GrantStates
<1>5. t \in Seq(GrantStates) /\ Len(t) = Len(s)
  BY <1>1, <1>2, <1>3, <1>4
<1>6. \A h \in 1..Len(s) :
                /\ t[h].own = s[h].own
                /\ t[h].full = s[h].full
                /\ t[h].next = IF h = g THEN n ELSE s[h].next
  BY <1>1, <1>2, <1>3 DEF GrantStates
<1> QED
  BY <1>5, <1>6

\* What a step does to the authorizations: one more, or another token for one of them.
LEMMA GrantGrants ==
    ASSUME GrantTyped, GrantDesk, Grant!Next
    PROVE  /\ grants' \in Seq(GrantStates)
           /\ \/ Len(grants') = Len(grants)
              \/ /\ Grant!ExchangeCode /\ Len(grants') = Len(grants) + 1
                 /\ grants'[Len(grants')].next = 1 /\ grants'[Len(grants')].own
                 /\ desk' = "write" => grants'[Len(grants')].full
           /\ \A g \in 1..Len(grants) :
                /\ grants'[g].own = grants[g].own /\ grants'[g].full = grants[g].full
                /\ \/ grants'[g].next = grants[g].next
                   \/ Grant!Revoke
                   \/ Grant!Exchange /\ g = grantMemory.token[1]
<1> USE DEF GrantTyped
<1>0. grants \in Seq(GrantStates)
  BY DEF GrantStates
<1>1. CASE Grant!ExchangeCode
  <2>1. PICK c \in code :
          /\ grants' = Append(grants, [next |-> 1, own |-> c.own, full |-> c.full])
          /\ desk' \in (IF c.full THEN {"write"} ELSE {}) \cup {"idle"}
    BY <1>1 DEF Grant!ExchangeCode
  <2>2. [next |-> 1, own |-> c.own, full |-> c.full] \in GrantStates /\ c.own
    BY DEF GrantDesk, GrantStates
  <2>3. desk' = "write" => c.full
    BY <2>1
  <2> QED
    BY <1>0, <1>1, <2>1, <2>2, <2>3
<1>2. CASE Grant!Exchange
  <2>1. grantMemory.token[1] \in DOMAIN grants
    BY <1>2 DEF Grant!Exchange, Grant!Taken
  <2> DEFINE g == grantMemory.token[1]
  <2>2. grants' = [grants EXCEPT ![g].next = grants[g].next + 1]
    BY <1>2 DEF Grant!Exchange
  <2>3. grants[g] \in GrantStates
    BY <1>0, <2>1
  <2>4. grants[g].next + 1 \in Nat
    BY <2>3 DEF GrantStates
  <2> HIDE DEF g
  <2>5. /\ grants' \in Seq(GrantStates) /\ Len(grants') = Len(grants)
        /\ \A h \in 1..Len(grants) :
             /\ grants'[h].own = grants[h].own /\ grants'[h].full = grants[h].full
             /\ h = g \/ grants'[h].next = grants[h].next
    BY <1>0, <2>1, <2>2, <2>4, GrantTurned DEF g
  <2> QED
    BY <1>2, <2>5 DEF g
<1>3. CASE Grant!Revoke
  <2>1. PICK g \in DOMAIN grants : grants' = [grants EXCEPT ![g].next = 0]
    BY <1>3 DEF Grant!Revoke
  <2> DEFINE none == 0
  <2>2. none \in Nat /\ grants' = [grants EXCEPT ![g].next = none]
    BY <2>1
  <2> HIDE DEF none
  <2> QED
    BY <1>0, <1>3, <2>2, GrantTurned
<1>4. CASE grants' = grants
  BY <1>0, <1>4
<1> QED
  BY <1>1, <1>2, <1>3, <1>4
  DEF Grant!Next, Grant!Tick, Grant!Authorize, Grant!Callback, Grant!Select, Grant!WriteBootstrap,
      Grant!Deploy, Grant!Crash, Grant!Start, Grant!Acquire, Grant!Check, Grant!Load,
      Grant!LoadFails, Grant!Refused, Grant!Answered, Grant!AnswerLost, Grant!Save,
      Grant!SaveFails, Grant!Rotate, Grant!platform

\* Where a step may put a refresh token: the store, the deployment, the desk.
LEMMA GrantStores ==
    ASSUME GrantTyped, Grant!Next
    PROVE  /\ \/ grantRow' = grantRow /\ bootstrap' = bootstrap
              \/ /\ Grant!Save /\ grantRow' = [record |-> tokenReply, under |-> secret]
                 /\ bootstrap' = bootstrap
              \/ (Grant!Deploy \/ Grant!Rotate) /\ grantRow' = grantRow /\ bootstrap' = deskFile
           /\ \/ deskFile' = deskFile
              \/ Grant!WriteBootstrap /\ deskFile' = <<Len(grants), 1>>
           /\ astray => astray'
<1> USE DEF Grant!platform, Grant!command, Grant!provider
<1>0. astray \in BOOLEAN
  BY DEF GrantTyped
<1>1. CASE Grant!Tick \/ Grant!Authorize \/ Grant!Callback \/ Grant!Select \/ Grant!ExchangeCode
  BY <1>1 DEF Grant!Tick, Grant!Authorize, Grant!Callback, Grant!Select, Grant!ExchangeCode
<1>2. CASE Grant!WriteBootstrap
  BY <1>2 DEF Grant!WriteBootstrap
<1>3. CASE Grant!Deploy \/ Grant!Rotate
  BY <1>0, <1>3 DEF Grant!Deploy, Grant!Rotate
<1>4. CASE Grant!Crash \/ Grant!Start \/ \E c \in GrantCallers : Grant!Acquire(c)
  BY <1>0, <1>4 DEF Grant!Crash, Grant!Start, Grant!Acquire
<1>5. CASE Grant!Check \/ Grant!Load \/ Grant!LoadFails \/ Grant!Refused
  <2>1. CASE Grant!Check
    BY <2>1 DEF Grant!Check
  <2>2. CASE Grant!Load
    <3>1. grantRow' = grantRow /\ bootstrap' = bootstrap /\ deskFile' = deskFile /\ astray' = astray
      BY <2>2 DEF Grant!Load
    <3> QED
      BY <3>1
  <2>3. CASE Grant!LoadFails \/ Grant!Refused
    BY <2>3 DEF Grant!LoadFails, Grant!Refused
  <2> QED
    BY <1>5, <2>1, <2>2, <2>3
<1>6. CASE Grant!Exchange \/ Grant!Answered \/ Grant!AnswerLost \/ Grant!SaveFails \/ Grant!Revoke
  BY <1>6 DEF Grant!Exchange, Grant!Answered, Grant!AnswerLost, Grant!SaveFails, Grant!Revoke
<1>7. CASE Grant!Save
  BY <1>7 DEF Grant!Save
<1> QED
  BY <1>1, <1>2, <1>3, <1>4, <1>5, <1>6, <1>7 DEF Grant!Next

LEMMA GrantFails ==
    ASSUME NEW why, Grant!Fails(why)
    PROVE  /\ grantMemory' \in {grantMemory, Grant!NoRecord} /\ tokenReply' = Grant!NoRecord
           /\ sentAt' \in {0, sentAt} /\ grantStage' = "idle" /\ given' = given
BY DEF Grant!Fails, Grant!Ended

LEMMA GrantEmpty ==
    /\ Grant!NoToken \in GrantTokens /\ Grant!NoRecord \in GrantRecords
    /\ Grant!NoRow \in [record : GrantRecords, under : Nat]
    /\ Grant!NoRow.record.token = Grant!NoToken /\ Grant!NoRow.under = 0
    /\ Grant!NoRecord.token = Grant!NoToken /\ Grant!NoRecord.expires = 0
    /\ Grant!NoRow.record = Grant!NoRecord
    /\ Grant!NoToken[1] = 0 /\ Grant!NoToken[2] = 0
    /\ \A token \in GrantTokens : /\ Grant!Record(token, 0, 0) \in GrantRecords
                                  /\ Grant!Record(token, 0, 0).token = token
                                  /\ Grant!Record(token, 0, 0).expires = 0
BY DEF Grant!NoToken, Grant!NoRecord, Grant!NoRow, Grant!Record, GrantTokens, GrantRecords

LEMMA GrantTypedStep ==
    ASSUME Grant!GrantConstants, GrantTyped, GrantDesk, Grant!Next
    PROVE  GrantTyped'
<1> USE DEF Grant!platform, Grant!command, Grant!provider
<1>0. grants' \in Seq([next : Nat, own : BOOLEAN, full : BOOLEAN])
  BY GrantGrants DEF GrantStates
<1> USE DEF GrantTyped
<1>1. CASE Grant!Tick
  BY <1>1 DEF Grant!Tick
<1>2. CASE Grant!Authorize \/ Grant!Callback \/ Grant!Select
  BY <1>2 DEF Grant!Authorize, Grant!Callback, Grant!Select
<1>3. CASE Grant!ExchangeCode
  BY <1>0, <1>3 DEF Grant!ExchangeCode
<1>4. CASE Grant!WriteBootstrap
  <2>1. <<Len(grants), 1>> \in GrantTokens
    BY DEF GrantTokens
  <2> QED
    BY <1>4, <2>1 DEF Grant!WriteBootstrap
<1>5. CASE Grant!Deploy \/ Grant!Crash \/ Grant!Rotate
  <2>1. Grant!Ended /\ UNCHANGED <<grantClock, grants, grantRow, deskFile, desk>>
    BY <1>5 DEF Grant!Deploy, Grant!Crash, Grant!Rotate
  <2>2. secret' \in {secret, secret + 1} /\ bootstrap' \in {bootstrap, deskFile}
    BY <1>5 DEF Grant!Deploy, Grant!Crash, Grant!Rotate
  <2>3. astray' \in BOOLEAN
    BY <1>5 DEF Grant!Deploy, Grant!Crash, Grant!Rotate
  <2> QED
    BY <2>1, <2>2, <2>3, GrantEmpty DEF Grant!Ended
<1>6. CASE Grant!Start \/ \E c \in GrantCallers : Grant!Acquire(c)
  BY <1>6 DEF Grant!Start, Grant!Acquire
<1>7. CASE Grant!Check
  BY <1>7 DEF Grant!Check, Grant!HandOut
<1>8. CASE Grant!Load
  <2>1. /\ grantMemory' \in {grantMemory, grantRow.record, Grant!Record(bootstrap, 0, 0), Grant!NoRecord}
        /\ tokenReply' \in {tokenReply, Grant!NoRecord}
        /\ grantStage' \in {"idle", "exchange"} /\ sentAt' \in {0, sentAt}
    BY <1>8, GrantFails DEF Grant!Load, Grant!HandOut
  <2> QED
    BY <1>8, <2>1, GrantEmpty DEF Grant!Load
<1>9. CASE Grant!LoadFails \/ Grant!Refused
  <2>1. Grant!Fails("database") \/ Grant!Fails("refused")
    BY <1>9 DEF Grant!LoadFails, Grant!Refused
  <2> QED
    BY <1>9, <2>1, GrantFails, GrantEmpty DEF Grant!LoadFails, Grant!Refused
<1>10. CASE Grant!AnswerLost \/ Grant!SaveFails
  <2>1. Grant!Fails("database") \/ Grant!Fails("lost")
    BY <1>10 DEF Grant!AnswerLost, Grant!SaveFails
  <2> QED
    BY <1>10, <2>1, GrantFails, GrantEmpty DEF Grant!AnswerLost, Grant!SaveFails
<1>11. CASE Grant!Exchange
  <2>1. tokenReply' \in GrantRecords
    <3>1. grantMemory.token[1] \in Nat /\ grantMemory.token[2] + 1 \in Nat
            /\ grantClock + GrantLife \in Nat
      <4>1. grantMemory.token \in Nat \X Nat
        BY DEF GrantRecords, GrantTokens
      <4>2. grantClock + GrantLife \in Nat
        BY DEF Grant!GrantConstants
      <4> QED
        BY <4>1, <4>2
    <3>2. tokenReply' = [token |-> <<grantMemory.token[1], grantMemory.token[2] + 1>>,
                         expires |-> 0, until |-> grantClock + GrantLife]
      BY <1>11 DEF Grant!Exchange, Grant!Record
    <3> QED
      BY <3>1, <3>2 DEF GrantRecords, GrantTokens
  <2> QED
    BY <1>0, <1>11, <2>1 DEF Grant!Exchange
<1>12. CASE Grant!Answered
  <2>1. tokenReply' \in GrantRecords
    <3>1. grantClock + GrantLife \in Nat
      BY DEF Grant!GrantConstants
    <3>2. tokenReply' = [tokenReply EXCEPT !.expires = grantClock + GrantLife]
      BY <1>12 DEF Grant!Answered
    <3> QED
      BY <3>1, <3>2 DEF GrantRecords
  <2> QED
    BY <1>12, <2>1 DEF Grant!Answered
<1>13. CASE Grant!Save
  BY <1>13, GrantEmpty DEF Grant!Save, Grant!HandOut
<1>14. CASE Grant!Revoke
  BY <1>0, <1>14 DEF Grant!Revoke
<1> QED
  BY <1>1, <1>2, <1>3, <1>4, <1>5, <1>6, <1>7, <1>8, <1>9, <1>10, <1>11, <1>12, <1>13, <1>14
  DEF Grant!Next

LEMMA GrantDeskStep ==
    ASSUME GrantTyped, GrantDesk, GrantRemembered, GrantOnItsWay, Grant!Next
    PROVE  GrantDesk'
<1> USE DEF Grant!platform, Grant!command, Grant!provider
<1>1. ASSUME NEW c \in code'
      PROVE  c.own \in BOOLEAN /\ c.full \in BOOLEAN /\ c.own
  <2>1. CASE code' \subseteq code
    BY <1>1, <2>1 DEF GrantDesk
  <2>2. CASE Grant!Callback
    BY <1>1, <2>2 DEF Grant!Callback, GrantDesk
  <2>3. Grant!Callback \/ code' = code \/ code' = {}
    BY DEF Grant!Next, Grant!Tick, Grant!Authorize, Grant!Select, Grant!ExchangeCode,
        Grant!WriteBootstrap, Grant!Deploy, Grant!Crash, Grant!Start, Grant!Acquire, Grant!Check,
        Grant!Load, Grant!LoadFails, Grant!Exchange, Grant!Refused, Grant!Answered,
        Grant!AnswerLost, Grant!Save, Grant!SaveFails, Grant!Revoke, Grant!Rotate
  <2> QED
    BY <1>1, <2>1, <2>2, <2>3
<1>2. Len(grants) \in Nat /\ Len(grants') \in Nat /\ Len(grants) <= Len(grants')
        /\ DOMAIN grants = 1..Len(grants) /\ DOMAIN grants' = 1..Len(grants')
  <2>1. grants \in Seq(GrantStates) /\ grants' \in Seq(GrantStates)
    BY GrantGrants DEF GrantTyped, GrantStates
  <2>2. Len(grants') = Len(grants) \/ Len(grants') = Len(grants) + 1
    BY GrantGrants
  <2> QED
    BY <2>1, <2>2
<1>3. ASSUME NEW token \in GrantTokens, GrantProper(token)
      PROVE  /\ token # Grant!NoToken => /\ token[1] \in DOMAIN grants'
                                         /\ grants'[token[1]].own /\ grants'[token[1]].full
             /\ token[1] <= Len(grants)
  <2>1. CASE token = Grant!NoToken
    BY <1>2, <2>1, GrantEmpty
  <2>2. CASE token # Grant!NoToken
    <3>1. token[1] \in 1..Len(grants) /\ grants[token[1]].own /\ grants[token[1]].full
      BY <1>2, <1>3, <2>2 DEF GrantProper
    <3>2. token[1] \in 1..Len(grants')
      BY <1>2, <3>1
    <3>3. grants'[token[1]].own /\ grants'[token[1]].full
      BY <3>1, GrantGrants
    <3> QED
      BY <1>2, <3>1, <3>2, <3>3
  <2> QED
    BY <2>1, <2>2
<1>4. /\ deskFile \in GrantTokens /\ bootstrap \in GrantTokens /\ Grant!Used \in GrantTokens
      /\ tokenReply.token \in GrantTokens
  BY DEF GrantTyped, Grant!Used, GrantRecords
<1>5. GrantProper(deskFile)'
  <2>1. CASE deskFile' = deskFile
    BY <1>3, <1>4, <2>1 DEF GrantDesk, GrantProper
  <2>2. CASE Grant!WriteBootstrap /\ deskFile' = <<Len(grants), 1>>
    BY <1>2, <2>2 DEF Grant!WriteBootstrap, GrantDesk, GrantProper
  <2> QED
    BY <2>1, <2>2, GrantStores
<1>6. GrantProper(bootstrap)'
  BY <1>3, <1>4, GrantStores DEF GrantDesk, GrantProper
<1>7. Grant!Save => GrantProper(tokenReply.token) /\ tokenReply.token[1] = Grant!Used[1]
  BY <1>4 DEF Grant!Save, Grant!InFlight, GrantOnItsWay, GrantDesk, GrantProper
<1>8. Grant!Used' \in {Grant!Used, bootstrap, deskFile} \/ (Grant!Save /\ Grant!Used' = tokenReply.token)
  <2>1. CASE grantRow' = grantRow
    BY <2>1, GrantStores DEF Grant!Used, Grant!NoRow
  <2>2. CASE Grant!Save /\ grantRow' = [record |-> tokenReply, under |-> secret] /\ bootstrap' = bootstrap
    BY <2>2 DEF Grant!Used
  <2> QED
    BY <2>1, <2>2, GrantStores
<1>9. GrantProper(Grant!Used)'
  BY <1>3, <1>4, <1>7, <1>8 DEF GrantDesk, GrantProper
<1>10. ASSUME desk' = "write"
       PROVE  /\ Len(grants') > 0 /\ grants'[Len(grants')].own /\ grants'[Len(grants')].full
              /\ astray' \/ grants'[Len(grants')].next = 1
              /\ deskFile'[1] < Len(grants') /\ bootstrap'[1] < Len(grants')
              /\ Grant!Used'[1] < Len(grants')
  <2>1. ~Grant!WriteBootstrap /\ deskFile' = deskFile
    BY <1>10, GrantStores DEF Grant!WriteBootstrap
  <2>2. CASE Grant!ExchangeCode
    <3>1. /\ Len(grants') = Len(grants) + 1 /\ Len(grants') # Len(grants) /\ ~Grant!Save
          /\ bootstrap' = bootstrap /\ grantRow' = grantRow
      <4>1. PICK c \in code :
              grants' = Append(grants, [next |-> 1, own |-> c.own, full |-> c.full])
        BY <2>2 DEF Grant!ExchangeCode
      <4>2. Len(grants') = Len(grants) + 1 /\ Len(grants') # Len(grants)
        BY <4>1 DEF GrantTyped
      <4>3. ~Grant!Save
        BY <2>2 DEF Grant!ExchangeCode, Grant!Save, Grant!HandOut
      <4> QED
        BY <2>2, <4>2, <4>3 DEF Grant!ExchangeCode
    <3>2. grants'[Len(grants')].next = 1 /\ grants'[Len(grants')].own /\ grants'[Len(grants')].full
      BY <1>10, <3>1, GrantGrants
    <3>3. Grant!Used' = Grant!Used
      BY <3>1 DEF Grant!Used, Grant!NoRow
    <3>4. deskFile[1] <= Len(grants) /\ bootstrap[1] <= Len(grants) /\ Grant!Used[1] <= Len(grants)
      BY <1>3, <1>4 DEF GrantDesk
    <3>5. deskFile[1] \in Nat /\ bootstrap[1] \in Nat /\ Grant!Used[1] \in Nat
      BY <1>4 DEF GrantTokens
    <3> QED
      <4>1. Len(grants) \in Nat
        BY DEF GrantTyped
      <4>2. /\ Len(grants') > 0 /\ deskFile[1] < Len(grants') /\ bootstrap[1] < Len(grants')
            /\ Grant!Used[1] < Len(grants')
        BY <3>1, <3>4, <3>5, <4>1
      <4> QED
        BY <2>1, <3>1, <3>2, <3>3, <4>2
  <2>3. CASE ~Grant!ExchangeCode
    <3>1. desk = "write" /\ Len(grants') = Len(grants)
      BY <1>10, <2>3, GrantGrants
      DEF Grant!Next, Grant!Tick, Grant!Authorize, Grant!Callback, Grant!Select,
        Grant!WriteBootstrap, Grant!Deploy, Grant!Crash, Grant!Start, Grant!Acquire, Grant!Check,
        Grant!Load, Grant!LoadFails, Grant!Exchange, Grant!Refused, Grant!Answered,
        Grant!AnswerLost, Grant!Save, Grant!SaveFails, Grant!Revoke, Grant!Rotate
    <3>2. deskFile'[1] < Len(grants') /\ bootstrap'[1] < Len(grants')
      BY <2>1, <3>1, GrantStores DEF GrantDesk
    <3>3. Grant!Used'[1] < Len(grants')
      BY <1>7, <1>8, <3>1 DEF GrantDesk
    <3>4. grants'[Len(grants)].next = grants[Len(grants)].next \/ astray'
      <4>1. Grant!Revoke => astray'
        BY DEF Grant!Revoke
      <4>2. Grant!Exchange => grantMemory.token[1] # Len(grants)
        BY <1>2, <3>1 DEF Grant!Exchange, GrantRemembered, GrantDesk
      <4> QED
        BY <1>2, <3>1, <4>1, <4>2, GrantGrants DEF GrantDesk
    <3> QED
      BY <1>2, <3>1, <3>2, <3>3, <3>4, GrantGrants, GrantStores DEF GrantDesk
  <2> QED
    BY <2>2, <2>3
<1> QED
  BY <1>1, <1>5, <1>6, <1>9, <1>10 DEF GrantDesk

LEMMA GrantRememberedStep ==
    ASSUME Grant!GrantConstants, GrantTyped, GrantRemembered, GrantOnItsWay, Grant!Next
    PROVE  GrantRemembered'
<1> USE DEF Grant!platform, Grant!command, Grant!provider
<1> DEFINE Empty  == grantMemory = Grant!NoRecord
           Stored == grantRow # Grant!NoRow /\ grantMemory = grantRow.record
           Seeded == grantRow = Grant!NoRow /\ grantMemory = Grant!Record(bootstrap, 0, 0)
           Bound  == grantRow.record.expires # 0 =>
                       grantRow.record.expires <= grantRow.record.until + GrantTimeout
<1>0. /\ Empty \/ Stored \/ Seeded
      /\ grantStage = "exchange" => grantMemory.token = Grant!Used
      /\ Bound
  BY DEF GrantRemembered
<1> SUFFICES /\ Empty' \/ Stored' \/ Seeded'
             /\ grantStage' = "exchange" => grantMemory'.token = Grant!Used'
             /\ Bound'
  BY DEF GrantRemembered
<1>1. CASE UNCHANGED <<grantRow, bootstrap, grantMemory>>
             /\ (grantStage' = grantStage \/ grantStage' # "exchange")
  BY <1>0, <1>1 DEF Grant!Used
<1>2. CASE UNCHANGED grantRow /\ grantMemory' = Grant!NoRecord /\ grantStage' # "exchange"
  BY <1>0, <1>2
<1>3. CASE Grant!Check
  <2>1. UNCHANGED <<grantRow, bootstrap, grantMemory>>
    BY <1>3 DEF Grant!Check
  <2>2. grantStage' = "exchange" => grantMemory.token # Grant!NoToken
    BY <1>3 DEF Grant!Check, Grant!HandOut
  <2>3. grantMemory.token # Grant!NoToken => grantMemory.token = Grant!Used
    BY <1>0, GrantEmpty DEF Grant!Used, GrantTyped
  <2> QED
    BY <1>0, <2>1, <2>2, <2>3 DEF Grant!Used
<1>4. CASE Grant!Load
  <2>1. UNCHANGED <<grantRow, bootstrap>>
    BY <1>4 DEF Grant!Load
  <2>2. \/ grantRow # Grant!NoRow /\ grantMemory' = grantRow.record
        \/ grantRow = Grant!NoRow /\ grantMemory' = Grant!Record(bootstrap, 0, 0)
        \/ Grant!Fails("unreadable") \/ Grant!Fails("no token")
    BY <1>4 DEF Grant!Load
  <2>3. ASSUME NEW why, Grant!Fails(why)
        PROVE  (grantMemory' = grantMemory \/ grantMemory' = Grant!NoRecord) /\ grantStage' = "idle"
    BY <2>3, GrantFails
  <2>4. CASE Grant!Fails("unreadable") \/ Grant!Fails("no token")
    BY <1>1, <1>2, <2>1, <2>3, <2>4
  <2>5. CASE \/ grantRow # Grant!NoRow /\ grantMemory' = grantRow.record
             \/ grantRow = Grant!NoRow /\ grantMemory' = Grant!Record(bootstrap, 0, 0)
    BY <1>0, <2>1, <2>5, GrantEmpty DEF Grant!Used, GrantTyped
  <2> QED
    BY <2>2, <2>4, <2>5
<1>5. CASE Grant!Save
  <2>1. /\ grantRow' = [record |-> tokenReply, under |-> secret] /\ grantMemory' = tokenReply
        /\ grantStage' = "idle" /\ grantStage = "save"
    BY <1>5 DEF Grant!Save, Grant!HandOut
  <2>2. /\ tokenReply.token = <<Grant!Used[1], Grant!Used[2] + 1>>
        /\ sentAt <= grantClock /\ grantClock <= sentAt + GrantTimeout
        /\ tokenReply.until = sentAt + GrantLife /\ tokenReply.expires = grantClock + GrantLife
    BY <2>1 DEF GrantOnItsWay, Grant!InFlight
  <2>3. Grant!Used[2] \in Nat
    BY DEF Grant!Used, GrantTyped, GrantRecords, GrantTokens
  <2>4. tokenReply.token # Grant!NoToken
    BY <2>2, <2>3, GrantEmpty
  <2>5. grantRow' # Grant!NoRow /\ grantMemory' = grantRow'.record
    BY <2>1, <2>4, GrantEmpty
  <2>6. tokenReply.expires <= tokenReply.until + GrantTimeout
    BY <2>2 DEF GrantTyped, Grant!GrantConstants
  <2> QED
    BY <2>1, <2>5, <2>6
<1>6. ASSUME NEW why, Grant!Fails(why), UNCHANGED <<grantRow, bootstrap>>
      PROVE  \/ /\ UNCHANGED <<grantRow, bootstrap, grantMemory>>
                /\ (grantStage' = grantStage \/ grantStage' # "exchange")
             \/ UNCHANGED grantRow /\ grantMemory' = Grant!NoRecord /\ grantStage' # "exchange"
  BY <1>6, GrantFails
<1>7. CASE Grant!LoadFails \/ Grant!Refused \/ Grant!AnswerLost \/ Grant!SaveFails
  <2>1. UNCHANGED <<grantRow, bootstrap>> /\ \E why : Grant!Fails(why)
    BY <1>7 DEF Grant!LoadFails, Grant!Refused, Grant!AnswerLost, Grant!SaveFails
  <2> QED
    BY <1>1, <1>2, <1>6, <2>1
<1>8. CASE Grant!Deploy \/ Grant!Crash \/ Grant!Rotate
  BY <1>2, <1>8 DEF Grant!Deploy, Grant!Crash, Grant!Rotate, Grant!Ended
<1>9. CASE Grant!Tick \/ Grant!Authorize \/ Grant!Callback \/ Grant!Select \/ Grant!ExchangeCode
             \/ Grant!WriteBootstrap \/ Grant!Revoke
  BY <1>1, <1>9 DEF Grant!Tick, Grant!Authorize, Grant!Callback, Grant!Select, Grant!ExchangeCode,
       Grant!WriteBootstrap, Grant!Revoke
<1>10. CASE Grant!Start \/ (\E c \in GrantCallers : Grant!Acquire(c)) \/ Grant!Exchange \/ Grant!Answered
  BY <1>1, <1>10 DEF Grant!Start, Grant!Acquire, Grant!Exchange, Grant!Answered
<1> QED
  BY <1>3, <1>4, <1>5, <1>7, <1>8, <1>9, <1>10 DEF Grant!Next

LEMMA GrantOnItsWayStep ==
    ASSUME Grant!GrantConstants, GrantTyped, GrantDesk, GrantRemembered, GrantOnItsWay, GrantLive,
           Grant!Next, Grant!InFlight'
    PROVE  /\ Grant!Used' # Grant!NoToken
           /\ tokenReply'.token = <<Grant!Used'[1], Grant!Used'[2] + 1>>
           /\ sentAt' <= grantClock' /\ grantClock' <= sentAt' + GrantTimeout
           /\ tokenReply'.until = sentAt' + GrantLife
           /\ grantStage' = "save" => tokenReply'.expires = grantClock' + GrantLife
           /\ ~astray' => Grant!Taken(tokenReply.token)'
<1> USE DEF Grant!platform, Grant!command, Grant!provider
<1>0. grantStage' \in {"sent", "save"}
  BY DEF Grant!InFlight
<1>1. DOMAIN grants = 1..Len(grants) /\ DOMAIN grants' = 1..Len(grants') /\ Len(grants) \in Nat
        /\ Len(grants') \in Nat /\ Len(grants) <= Len(grants')
  <2>1. grants \in Seq(GrantStates) /\ grants' \in Seq(GrantStates)
    BY GrantGrants DEF GrantTyped, GrantStates
  <2>2. Len(grants') = Len(grants) \/ Len(grants') = Len(grants) + 1
    BY GrantGrants
  <2> QED
    BY <2>1, <2>2
<1>2. CASE Grant!Exchange
  <2> DEFINE token == grantMemory.token
  <2>1. /\ token = Grant!Used /\ Grant!Used' = Grant!Used /\ grantStage' = "sent"
        /\ Grant!Taken(token) /\ token \in GrantTokens
        /\ sentAt' = grantClock /\ grantClock' = grantClock
        /\ tokenReply' = Grant!Record(<<token[1], token[2] + 1>>, 0, grantClock + GrantLife)
    BY <1>2 DEF Grant!Exchange, GrantRemembered, Grant!Used, GrantTyped, GrantRecords
  <2>2. tokenReply'.token = <<token[1], token[2] + 1>> /\ tokenReply'.until = grantClock + GrantLife
    BY <2>1 DEF Grant!Record
  <2>3. token # Grant!NoToken
    BY <1>1, <2>1, GrantEmpty DEF Grant!Taken
  <2>4. Grant!Taken(tokenReply.token)'
    <3>1. token[1] \in 1..Len(grants) /\ grants[token[1]].next = token[2]
      BY <1>1, <2>1 DEF Grant!Taken
    <3>2. grants[token[1]] \in GrantStates
      <4>1. grants \in Seq(GrantStates)
        BY DEF GrantTyped, GrantStates
      <4> QED
        BY <3>1, <4>1
    <3>3. grants' = [grants EXCEPT ![token[1]] = [grants[token[1]] EXCEPT !.next = grants[token[1]].next + 1]]
      BY <1>2 DEF Grant!Exchange
    <3>4. grants'[token[1]].next = grants[token[1]].next + 1
      BY <1>1, <3>1, <3>2, <3>3 DEF GrantStates
    <3>5. token[1] \in DOMAIN grants'
      BY <1>1, <3>1
    <3> QED
      BY <2>2, <3>1, <3>4, <3>5 DEF Grant!Taken
  <2>5. grantClock \in Nat /\ GrantTimeout \in Nat
    BY DEF GrantTyped, Grant!GrantConstants
  <2> HIDE DEF token
  <2> QED
    BY <2>1, <2>2, <2>3, <2>4, <2>5
<1>3. ASSUME ~Grant!Exchange
      PROVE  Grant!InFlight
  <2>1. ASSUME NEW why, Grant!Fails(why)
        PROVE  FALSE
    BY <1>0, <2>1, GrantFails
  <2>2. CASE Grant!LoadFails \/ Grant!Refused \/ Grant!AnswerLost \/ Grant!SaveFails
    BY <2>1, <2>2 DEF Grant!LoadFails, Grant!Refused, Grant!AnswerLost, Grant!SaveFails
  <2>3. CASE Grant!Deploy \/ Grant!Crash \/ Grant!Rotate
    BY <1>0, <2>3 DEF Grant!Deploy, Grant!Crash, Grant!Rotate, Grant!Ended
  <2>4. CASE Grant!Check
    BY <1>0, <2>4 DEF Grant!Check, Grant!HandOut
  <2>5. CASE Grant!Load
    BY <1>0, <2>1, <2>5 DEF Grant!Load, Grant!HandOut
  <2>6. CASE Grant!Save
    BY <1>0, <2>6 DEF Grant!Save, Grant!HandOut
  <2>7. CASE Grant!Start \/ (\E c \in GrantCallers : Grant!Acquire(c)) \/ Grant!Answered
    BY <1>0, <2>7 DEF Grant!Start, Grant!Acquire, Grant!Answered, Grant!InFlight
  <2>8. CASE Grant!Tick \/ Grant!Authorize \/ Grant!Callback \/ Grant!Select \/ Grant!ExchangeCode
               \/ Grant!WriteBootstrap \/ Grant!Revoke
    BY <1>0, <2>8 DEF Grant!Tick, Grant!Authorize, Grant!Callback, Grant!Select,
         Grant!ExchangeCode, Grant!WriteBootstrap, Grant!Revoke, Grant!InFlight
  <2> QED
    BY <1>3, <2>2, <2>3, <2>4, <2>5, <2>6, <2>7, <2>8 DEF Grant!Next
<1>4. ASSUME ~Grant!Exchange
      PROVE  /\ UNCHANGED <<grantRow, bootstrap, sentAt>>
             /\ tokenReply'.token = tokenReply.token /\ tokenReply'.until = tokenReply.until
             /\ \/ /\ Grant!Answered /\ grantStage = "sent" /\ grantStage' = "save"
                   /\ grantClock' = grantClock /\ tokenReply'.expires = grantClock + GrantLife
                \/ /\ grantStage' = grantStage /\ tokenReply' = tokenReply
                   /\ \/ grantClock' = grantClock
                      \/ /\ grantStage = "sent" /\ grantClock < sentAt + GrantTimeout
                         /\ grantClock' = grantClock + 1
  <2>1. grantStage \in {"sent", "save"}
    BY <1>3, <1>4 DEF Grant!InFlight
  <2>2. CASE Grant!Answered
    BY <2>2 DEF Grant!Answered, GrantTyped, GrantRecords
  <2>3. CASE Grant!Tick
    BY <2>1, <2>3 DEF Grant!Tick
  <2>4. CASE Grant!Authorize \/ Grant!Callback \/ Grant!Select \/ Grant!ExchangeCode
               \/ Grant!WriteBootstrap \/ Grant!Revoke
    BY <2>4 DEF Grant!Authorize, Grant!Callback, Grant!Select, Grant!ExchangeCode,
                Grant!WriteBootstrap, Grant!Revoke
  <2>5. ~Grant!Check /\ ~Grant!Load /\ ~Grant!LoadFails /\ ~Grant!Refused
    BY <2>1 DEF Grant!Check, Grant!Load, Grant!LoadFails, Grant!Refused
  <2>6. ~Grant!AnswerLost /\ ~Grant!SaveFails /\ ~Grant!Save
    BY <1>0, GrantFails DEF Grant!AnswerLost, Grant!SaveFails, Grant!Save, Grant!HandOut
  <2>7. ~Grant!Deploy /\ ~Grant!Crash /\ ~Grant!Rotate /\ ~Grant!Start
          /\ ~\E c \in GrantCallers : Grant!Acquire(c)
    BY <1>0 DEF Grant!Deploy, Grant!Crash, Grant!Rotate, Grant!Ended, Grant!Start, Grant!Acquire
  <2> QED
    BY <1>4, <2>2, <2>3, <2>4, <2>5, <2>6, <2>7 DEF Grant!Next
<1>5. CASE ~Grant!Exchange
  <2>1. /\ Grant!Used # Grant!NoToken
        /\ tokenReply.token = <<Grant!Used[1], Grant!Used[2] + 1>>
        /\ sentAt <= grantClock /\ grantClock <= sentAt + GrantTimeout
        /\ tokenReply.until = sentAt + GrantLife
        /\ grantStage = "save" => tokenReply.expires = grantClock + GrantLife
        /\ ~astray => Grant!Taken(tokenReply.token)
    BY <1>3, <1>5 DEF GrantOnItsWay
  <2>2. Grant!Used' = Grant!Used
    BY <1>4, <1>5 DEF Grant!Used
  <2>3. /\ sentAt' <= grantClock' /\ grantClock' <= sentAt' + GrantTimeout
        /\ grantStage' = "save" => tokenReply'.expires = grantClock' + GrantLife
    BY <1>4, <1>5, <2>1 DEF GrantTyped, Grant!GrantConstants
  <2>4. ASSUME ~astray'
        PROVE  Grant!Taken(tokenReply.token)'
    <3>1. ~astray /\ ~Grant!Revoke
      BY <2>4, GrantStores DEF Grant!Revoke
    <3>2. tokenReply.token[1] \in 1..Len(grants)
            /\ grants[tokenReply.token[1]].next = tokenReply.token[2]
      BY <1>1, <2>1, <3>1 DEF Grant!Taken
    <3>3. grants'[tokenReply.token[1]].next = grants[tokenReply.token[1]].next
      BY <1>5, <3>1, <3>2, GrantGrants
    <3>4. tokenReply.token[1] \in DOMAIN grants'
      BY <1>1, <3>2
    <3> QED
      BY <1>4, <1>5, <3>2, <3>3, <3>4 DEF Grant!Taken
  <2> QED
    BY <1>4, <1>5, <2>1, <2>2, <2>3, <2>4
<1> QED
  BY <1>2, <1>5

LEMMA GrantHeldStep ==
    ASSUME Grant!GrantConstants, GrantTyped, GrantHeld, Grant!Next
    PROVE  GrantHeld'
<1> USE DEF Grant!platform, Grant!command, Grant!provider
<1>1. CASE UNCHANGED <<grantStage, process, holder>> \/ grantStage' = "idle"
  BY <1>1 DEF GrantHeld
<1>2. CASE grantStage # "idle" /\ UNCHANGED <<process, holder>>
  BY <1>2 DEF GrantHeld
<1>3. ASSUME NEW why, Grant!Fails(why)
      PROVE  grantStage' = "idle"
  BY <1>3, GrantFails
<1>4. CASE Grant!Check
  BY <1>1, <1>2, <1>4 DEF Grant!Check, Grant!HandOut
<1>5. CASE Grant!Load
  BY <1>1, <1>2, <1>3, <1>5 DEF Grant!Load, Grant!HandOut
<1>6. CASE Grant!LoadFails \/ Grant!Refused \/ Grant!AnswerLost \/ Grant!SaveFails
  BY <1>1, <1>3, <1>6 DEF Grant!LoadFails, Grant!Refused, Grant!AnswerLost, Grant!SaveFails
<1>7. CASE Grant!Exchange \/ Grant!Answered
  BY <1>2, <1>7 DEF Grant!Exchange, Grant!Answered
<1>8. CASE Grant!Save
  BY <1>1, <1>8 DEF Grant!Save, Grant!HandOut
<1>9. CASE Grant!Start
  BY <1>9 DEF Grant!Start, GrantHeld, Grant!Starter, Grant!Nobody
<1>10. ASSUME NEW c \in GrantCallers, Grant!Acquire(c)
       PROVE  GrantHeld'
  BY <1>10 DEF Grant!Acquire, GrantHeld, Grant!GrantConstants
<1>11. CASE Grant!Deploy \/ Grant!Crash \/ Grant!Rotate
  BY <1>1, <1>11 DEF Grant!Deploy, Grant!Crash, Grant!Rotate, Grant!Ended
<1>12. CASE Grant!Tick \/ Grant!Authorize \/ Grant!Callback \/ Grant!Select \/ Grant!ExchangeCode
              \/ Grant!WriteBootstrap \/ Grant!Revoke
  BY <1>1, <1>12 DEF Grant!Tick, Grant!Authorize, Grant!Callback, Grant!Select,
       Grant!ExchangeCode, Grant!WriteBootstrap, Grant!Revoke
<1> QED
  BY <1>4, <1>5, <1>6, <1>7, <1>8, <1>9, <1>10, <1>11, <1>12 DEF Grant!Next

LEMMA GrantLiveStep ==
    ASSUME Grant!GrantConstants, GrantTyped, GrantDesk, GrantRemembered, GrantHeld, GrantOnItsWay,
           GrantLive, Grant!Next, ~astray', ~Grant!InFlight'
    PROVE  /\ \/ Grant!Used' = Grant!NoToken
              \/ Grant!Taken(Grant!Used)' /\ grantRow'.under \in {0, secret'}
           /\ grantRow' = Grant!NoRow => deskFile' = Grant!NoToken \/ Grant!Taken(deskFile)'
<1> USE DEF Grant!platform, Grant!command, Grant!provider
<1>1. DOMAIN grants = 1..Len(grants) /\ DOMAIN grants' = 1..Len(grants')
        /\ 1..Len(grants) \subseteq 1..Len(grants')
  <2>1. grants \in Seq(GrantStates) /\ grants' \in Seq(GrantStates)
    BY GrantGrants DEF GrantTyped, GrantStates
  <2>2. Len(grants') = Len(grants) \/ Len(grants') = Len(grants) + 1
    BY GrantGrants
  <2> QED
    BY <2>1, <2>2
<1>2. ~astray /\ ~Grant!Revoke /\ ~Grant!Rotate
  BY GrantStores DEF Grant!Revoke, Grant!Rotate
<1>3. ~Grant!Exchange
  BY DEF Grant!Exchange, Grant!InFlight
<1>4. ASSUME NEW token, Grant!Taken(token)
      PROVE  token[1] \in DOMAIN grants' /\ grants'[token[1]].next = token[2]
  <2>1. token[1] \in 1..Len(grants) /\ grants[token[1]].next = token[2]
    BY <1>1, <1>4 DEF Grant!Taken
  <2>2. grants'[token[1]].next = grants[token[1]].next
    BY <1>2, <1>3, <2>1, GrantGrants
  <2> QED
    BY <1>1, <2>1, <2>2
<1>5. CASE Grant!Save
  <2>1. /\ grantRow' = [record |-> tokenReply, under |-> secret] /\ secret' = secret
        /\ Grant!InFlight
    BY <1>5 DEF Grant!Save, Grant!InFlight
  <2>2. Grant!Taken(tokenReply.token) /\ tokenReply.token = <<Grant!Used[1], Grant!Used[2] + 1>>
    BY <1>2, <2>1 DEF GrantOnItsWay
  <2>3. Grant!Used[2] \in Nat
    BY DEF Grant!Used, GrantTyped, GrantRecords, GrantTokens
  <2>4. tokenReply.token # Grant!NoToken
    BY <2>2, <2>3, GrantEmpty
  <2>5. grantRow' # Grant!NoRow /\ Grant!Used' = tokenReply.token /\ grantRow'.under = secret'
    BY <2>1, <2>4, GrantEmpty DEF Grant!Used
  <2> QED
    BY <1>4, <2>2, <2>5 DEF Grant!Taken
<1>6. ASSUME ~Grant!Save
      PROVE  ~Grant!InFlight
  <2>1. CASE Grant!AnswerLost \/ Grant!SaveFails
    BY <2>1 DEF Grant!AnswerLost, Grant!SaveFails
  <2>2. CASE Grant!Deploy \/ Grant!Crash
    BY <2>2 DEF Grant!Deploy, Grant!Crash
  <2>3. CASE Grant!Tick \/ Grant!Authorize \/ Grant!Callback \/ Grant!Select \/ Grant!ExchangeCode
               \/ Grant!WriteBootstrap
    BY <2>3 DEF Grant!Tick, Grant!Authorize, Grant!Callback, Grant!Select, Grant!ExchangeCode,
                Grant!WriteBootstrap, Grant!InFlight
  <2>4. Grant!Check \/ Grant!Load \/ Grant!LoadFails \/ Grant!Refused => ~Grant!InFlight
    BY DEF Grant!Check, Grant!Load, Grant!LoadFails, Grant!Refused, Grant!InFlight
  <2>5. ~Grant!Answered
    BY DEF Grant!Answered, Grant!InFlight
  <2>6. Grant!Start \/ (\E c \in GrantCallers : Grant!Acquire(c)) => ~Grant!InFlight
    BY DEF Grant!Start, Grant!Acquire, Grant!InFlight, GrantHeld
  <2> QED
    BY <1>2, <1>3, <1>6, <2>1, <2>2, <2>3, <2>4, <2>5, <2>6 DEF Grant!Next
<1>7. CASE ~Grant!Save
  <2>1. /\ Grant!Used = Grant!NoToken \/ (Grant!Taken(Grant!Used) /\ grantRow.under \in {0, secret})
        /\ grantRow = Grant!NoRow => deskFile = Grant!NoToken \/ Grant!Taken(deskFile)
    BY <1>2, <1>6, <1>7 DEF GrantLive
  <2>2. grantRow' = grantRow /\ secret' = secret
    <3>1. grantRow' = grantRow
      BY <1>7, GrantStores
    <3>2. secret' = secret
      BY <1>2 DEF Grant!Next, Grant!Tick, Grant!Authorize, Grant!Callback, Grant!Select,
        Grant!ExchangeCode, Grant!WriteBootstrap, Grant!Deploy, Grant!Crash, Grant!Start,
        Grant!Acquire, Grant!Check, Grant!Load, Grant!LoadFails, Grant!Exchange, Grant!Refused,
        Grant!Answered, Grant!AnswerLost, Grant!Save, Grant!SaveFails
    <3> QED
      BY <3>1, <3>2
  <2>3. \/ Grant!Used' = Grant!Used
        \/ grantRow = Grant!NoRow /\ Grant!Used' = deskFile
    BY <1>7, <2>2, GrantStores DEF Grant!Used, Grant!NoRow
  <2>4. Grant!NoRow.under = 0
    BY GrantEmpty
  <2>5. deskFile' = deskFile \/ Grant!Taken(deskFile)'
    <3>1. CASE Grant!WriteBootstrap /\ deskFile' = <<Len(grants), 1>>
      <4>1. Len(grants) > 0 /\ grants[Len(grants)].next = 1 /\ grants' = grants
        BY <1>2, <3>1 DEF Grant!WriteBootstrap, GrantDesk
      <4>2. Len(grants) \in DOMAIN grants
        BY <1>1, <4>1 DEF GrantTyped
      <4> QED
        BY <3>1, <4>1, <4>2 DEF Grant!Taken
    <3> QED
      BY <3>1, GrantStores
  <2>6. \/ Grant!Used' = Grant!NoToken
        \/ Grant!Taken(Grant!Used)' /\ grantRow'.under \in {0, secret'}
    BY <1>4, <2>1, <2>2, <2>3, <2>4 DEF Grant!Taken
  <2> QED
    BY <1>4, <2>1, <2>2, <2>5, <2>6 DEF Grant!Taken
<1> QED
  BY <1>5, <1>7

LEMMA GrantGivenStep ==
    ASSUME Grant!GrantConstants, GrantTyped, GrantRemembered, GrantOnItsWay, GrantGiven, Grant!Next
    PROVE  GrantGiven'
<1> USE DEF Grant!platform, Grant!command, Grant!provider
<1>1. CASE given' = given
  BY <1>1 DEF GrantGiven
<1>2. ASSUME NEW record \in GrantRecords, Grant!Fresh(record),
             record.expires # 0 => record.expires <= record.until + GrantTimeout
      PROVE  record.until > grantClock
  BY <1>2 DEF Grant!Fresh, Grant!GrantConstants, GrantTyped, GrantRecords
<1>3. CASE Grant!Check
  <2>1. CASE Grant!Fresh(grantMemory)
    <3>1. grantMemory.expires # 0
      BY <2>1 DEF Grant!Fresh
    <3>2. grantMemory = grantRow.record
      BY <3>1, GrantEmpty DEF GrantRemembered, GrantTyped
    <3>3. given' = [until |-> grantMemory.until, at |-> grantClock, stored |-> TRUE]
      BY <1>3, <2>1, <3>2 DEF Grant!Check, Grant!HandOut
    <3>4. grantMemory.until > grantClock
      BY <1>2, <2>1, <3>2 DEF GrantRemembered, GrantTyped
    <3> QED
      BY <3>3, <3>4 DEF GrantGiven
  <2>2. CASE ~Grant!Fresh(grantMemory)
    BY <1>1, <1>3, <2>2 DEF Grant!Check
  <2> QED
    BY <2>1, <2>2
<1>4. CASE Grant!Load
  <2>1. CASE Grant!Fresh(grantRow.record) /\ Grant!HandOut(grantRow.record, TRUE)
    <3>1. given' = [until |-> grantRow.record.until, at |-> grantClock, stored |-> TRUE]
      BY <2>1 DEF Grant!HandOut
    <3>2. grantRow.record.until > grantClock
      BY <1>2, <2>1 DEF GrantRemembered, GrantTyped
    <3> QED
      BY <3>1, <3>2 DEF GrantGiven
  <2>2. CASE Grant!Fails("unreadable") \/ Grant!Fails("no token")
    BY <1>1, <2>2, GrantFails
  <2> QED
    BY <1>1, <1>4, <2>1, <2>2 DEF Grant!Load
<1>5. CASE Grant!Save
  <2>1. given' = [until |-> tokenReply.until, at |-> grantClock, stored |-> TRUE]
    BY <1>5 DEF Grant!Save, Grant!HandOut
  <2>2. grantClock <= sentAt + GrantTimeout /\ tokenReply.until = sentAt + GrantLife
    BY <1>5 DEF Grant!Save, GrantOnItsWay, Grant!InFlight
  <2>3. tokenReply.until > grantClock
    BY <2>2 DEF Grant!GrantConstants, GrantTyped
  <2> QED
    BY <2>1, <2>3 DEF GrantGiven
<1>6. CASE Grant!LoadFails \/ Grant!Refused \/ Grant!AnswerLost \/ Grant!SaveFails
  <2>1. \E why : Grant!Fails(why)
    BY <1>6 DEF Grant!LoadFails, Grant!Refused, Grant!AnswerLost, Grant!SaveFails
  <2> QED
    BY <1>1, <2>1, GrantFails
<1> QED
  BY <1>1, <1>3, <1>4, <1>5, <1>6
  DEF Grant!Next, Grant!Tick, Grant!Authorize, Grant!Callback, Grant!Select, Grant!ExchangeCode,
      Grant!WriteBootstrap, Grant!Deploy, Grant!Crash, Grant!Start, Grant!Acquire,
      Grant!Exchange, Grant!Answered, Grant!Revoke, Grant!Rotate

LEMMA GrantInvInit == Grant!Init => GrantInv
<1> SUFFICES ASSUME Grant!Init PROVE GrantInv
  OBVIOUS
<1> USE DEF Grant!Init
<1>1. GrantTyped
  <2>1. grants \in Seq([next : Nat, own : BOOLEAN, full : BOOLEAN])
    OBVIOUS
  <2> QED
    BY <2>1, GrantEmpty DEF GrantTyped
<1>2. Grant!Used = Grant!NoToken
  BY DEF Grant!Used
<1>3. GrantDesk
  BY <1>2 DEF GrantDesk, GrantProper
<1>4. GrantRemembered
  BY GrantEmpty DEF GrantRemembered
<1>5. GrantOnItsWay /\ GrantLive /\ GrantGiven /\ GrantHeld
  BY <1>2 DEF GrantHeld, GrantOnItsWay, GrantLive, GrantGiven, Grant!InFlight
<1> QED
  BY <1>1, <1>3, <1>4, <1>5 DEF GrantInv

LEMMA GrantInvStep ==
    ASSUME Grant!GrantConstants, GrantInv, [Grant!Next]_(Grant!vars)
    PROVE  GrantInv'
<1>1. CASE Grant!Next
  <2>1. GrantOnItsWay'
    BY <1>1, GrantOnItsWayStep DEF GrantInv, GrantOnItsWay, Grant!InFlight
  <2>2. GrantLive'
    BY <1>1, GrantLiveStep DEF GrantInv, GrantLive, Grant!InFlight
  <2> QED
    BY <1>1, <2>1, <2>2, GrantTypedStep, GrantDeskStep, GrantRememberedStep, GrantHeldStep,
       GrantGivenStep
    DEF GrantInv
<1>2. CASE UNCHANGED Grant!vars
  <2> USE DEF Grant!vars, Grant!platform, Grant!command, Grant!provider, Grant!Used
  <2>1. GrantTyped' /\ GrantGiven' /\ GrantHeld'
    BY <1>2 DEF GrantInv, GrantTyped, GrantGiven, GrantHeld
  <2>2. GrantDesk'
    BY <1>2 DEF GrantInv, GrantDesk, GrantProper
  <2>3. GrantRemembered'
    BY <1>2 DEF GrantInv, GrantRemembered
  <2>4. GrantOnItsWay'
    BY <1>2 DEF GrantInv, GrantOnItsWay, Grant!InFlight, Grant!Taken
  <2>5. GrantLive'
    BY <1>2 DEF GrantInv, GrantLive, Grant!InFlight, Grant!Taken
  <2> QED
    BY <2>1, <2>2, <2>3, <2>4, <2>5 DEF GrantInv
<1> QED
  BY <1>1, <1>2

LEMMA GrantInvKeeps == ASSUME GrantInv PROVE Grant!GrantIsKept
<1>1. ~astray => IF Grant!InFlight
                   THEN Grant!Taken(tokenReply.token) /\ tokenReply.token[1] = Grant!Used[1]
                   ELSE \/ Grant!Used = Grant!NoToken
                        \/ Grant!Taken(Grant!Used) /\ grantRow.under \in {0, secret}
  BY DEF GrantInv, GrantOnItsWay, GrantLive
<1>2. given.until > given.at /\ given.stored
  BY DEF GrantInv, GrantGiven
<1>3. \A token \in {deskFile, bootstrap, Grant!Used} \ {Grant!NoToken} :
        grants[token[1]].own /\ grants[token[1]].full
  BY DEF GrantInv, GrantDesk, GrantProper
<1> QED
  BY <1>1, <1>2, <1>3 DEF Grant!GrantIsKept

\* The bot's rotating refresh token is never lost track of, whichever callers, restarts and
\* deployments come between, and what is handed out is valid and has its successor stored
\* (feishu/oauth.go).
THEOREM GrantKept == ASSUME Grant!GrantConstants PROVE Grant!Spec => []Grant!GrantIsKept
<1>1. Grant!Init => GrantInv
  BY GrantInvInit
<1>2. GrantInv /\ [Grant!Next]_(Grant!vars) => GrantInv'
  BY GrantInvStep
<1>3. GrantInv => Grant!GrantIsKept
  BY GrantInvKeeps
<1> QED
  BY <1>1, <1>2, <1>3, PTL DEF Grant!Spec

-----------------------------------------------------------------------------
(* The way into an instance, for any instances and bounds.  The invariant    *)
(* says what a run may have done at the stage it has reached, and why the    *)
(* notice that is not told yet cannot get lost: at work in this turn, its    *)
(* report is among those the host's reply contains.                          *)

EntryOutside == {"called", "found", "routed", "ready"}
EntryTyped ==
  /\ policy \in Entry!Policies /\ settled \in Nat /\ begun \in Nat /\ connected \in BOOLEAN
  /\ included \in BOOLEAN

\* What a run has done before the harness starts, and that its connection was seen.
EntryWork ==
  /\ entryStage \in EntryOutside => begun = 0 /\ settled = 0
  /\ connected => settled > 0
  /\ entryStage = "between" => entryTold = Entry!Silent

\* During a turn, what was interrupted at work and is not told yet was reported in it.
EntryHeard == entryStage # "between" => untold = Entry!None \/ untold.run \in reports

\* The address is chosen once, and the facts are those of the last report.
EntryRouted == host # "none" => entryStage \in {"routed", "ready"}
EntryFacts  == entryStage = "ready" => found \in Entry!Found /\ facts = Entry!Facts(found)

EntryInv ==
  /\ EntryTyped /\ EntryWork /\ EntryHeard /\ EntryRouted /\ EntryFacts
  /\ Entry!BoundaryIsTrue /\ Entry!InterruptionIsTold /\ Entry!RouteIsPrivate

LEMMA EntryStarts == Entry!Init => EntryInv
<1> SUFFICES ASSUME Entry!Init
             PROVE  EntryInv
  OBVIOUS
<1>1. /\ policy \in Entry!Policies /\ settled = 0 /\ begun = 0 /\ connected = FALSE
      /\ included = FALSE /\ entryStage = "loop" /\ untold = Entry!None /\ host = "none"
      /\ entryTold = Entry!Silent
  BY DEF Entry!Init
<1> QED
  BY <1>1 DEF EntryInv, EntryTyped, EntryWork, EntryOutside, EntryHeard, EntryRouted, EntryFacts,
              Entry!BoundaryIsTrue, Entry!Boundaries, Entry!Silent, Entry!InterruptionIsTold,
              Entry!RouteIsPrivate

\* A result that names a boundary was an error that names it; a run that is told by how far it
\* got has one of four results.
LEMMA EntryCodes ==
    ASSUME NEW err, NEW reached
    PROVE  /\ Entry!Code(err, reached) \in Entry!Boundaries => err = Entry!Code(err, reached)
           /\ Entry!Code(err, reached) \in {"not started", "timeout, not started"} => ~reached
           /\ Entry!Code(err, reached) \in {"timeout", "interrupted"} => reached
           /\ Entry!Code(err, reached) \notin {"complete", "agent failed"}
  BY DEF Entry!Code, Entry!Boundaries

\* The end of a run that broke off, wherever it broke off.
LEMMA EntryBreaks ==
    ASSUME EntryInv, NEW err, Entry!Breaks(err), err \in Entry!Boundaries => begun = 0,
           entryStage \in EntryOutside \cup {"inside"}
    PROVE  EntryInv'
<1> DEFINE left == IF err = "not found" THEN jobs \ {entered} ELSE jobs
           there == entered \in left
           reached == connected \/ settled > 0 \/ there
           answer == Entry!Code(err, reached)
           own == answer \in {"timeout", "interrupted"}
<1>1. /\ jobs' = left
      /\ entryTold' = [code |-> answer, steps |-> IF own THEN settled ELSE 0]
      /\ reports' = IF own THEN reports \cup {run} ELSE reports
      /\ notice' = IF Entry!Recorded(there) THEN Entry!Account ELSE notice
      /\ untold' = IF own THEN [run |-> run, steps |-> settled]
                   ELSE IF Entry!Recorded(there) THEN Entry!None ELSE untold
      /\ UNCHANGED <<run, entered, policy, begun, settled, connected>>
      /\ host' = "none"
  BY DEF Entry!Breaks, Entry!request, Entry!work
<1>2. /\ entryStage' \in {"loop", "closing"}
      /\ included' = included \/ included' \in BOOLEAN
  BY DEF Entry!Breaks
<1>3. /\ answer \in Entry!Boundaries => err = answer
      /\ answer \in {"not started", "timeout, not started"} => ~reached
      /\ own => reached
      /\ answer \notin {"complete", "agent failed"}
  BY EntryCodes
<1>4. there = (entered \in jobs')
  BY <1>1
<1>5. err = "not found" => ~there
  OBVIOUS
<1> HIDE DEF left, there
<1>6. settled \in Nat /\ (connected => settled > 0)
  BY DEF EntryInv, EntryTyped, EntryWork
<1>7. ~reached => settled = 0 /\ ~there
  BY <1>6
<1>8. reached => Entry!Recorded(there)
  BY <1>6 DEF Entry!Recorded
<1> HIDE DEF reached, answer
<1>9. Entry!BoundaryIsTrue'
  <2>1. entryTold'.code = answer /\ entryTold'.steps = IF own THEN settled ELSE 0
    BY <1>1
  <2>2. answer \in Entry!Boundaries => begun' = 0
    BY <1>1, <1>3
  <2>3. answer = "not found" => entered' \notin jobs'
    BY <1>1, <1>3, <1>4, <1>5 DEF Entry!Boundaries
  <2>4. answer \in {"not started", "timeout, not started"} => settled' = 0 /\ entered' \notin jobs'
    BY <1>1, <1>3, <1>4, <1>7
  <2>5. answer \in {"interrupted", "timeout", "complete", "agent failed"}
          => entryTold'.steps = settled'
    BY <1>1, <1>3, <2>1
  <2> QED
    BY <2>1, <2>2, <2>3, <2>4, <2>5 DEF Entry!BoundaryIsTrue
<1>10. Entry!InterruptionIsTold'
  <2>1. CASE own
    BY <2>1, <1>1, <1>3, <1>8 DEF Entry!InterruptionIsTold, Entry!Account
  <2>2. CASE ~own /\ Entry!Recorded(there)
    BY <2>2, <1>1 DEF Entry!InterruptionIsTold
  <2>3. CASE ~own /\ ~Entry!Recorded(there)
    BY <2>3, <1>1 DEF EntryInv, Entry!InterruptionIsTold
  <2> QED
    BY <2>1, <2>2, <2>3
<1>11. EntryHeard'
  <2>1. untold = Entry!None \/ untold.run \in reports
    BY DEF EntryInv, EntryHeard, EntryOutside
  <2>2. CASE own
    BY <2>2, <1>1 DEF EntryHeard
  <2>3. CASE ~own
    BY <2>1, <2>3, <1>1 DEF EntryHeard
  <2> QED
    BY <2>2, <2>3
<1>12. EntryTyped' /\ EntryWork'
  BY <1>1, <1>2, <1>6 DEF EntryInv, EntryTyped, EntryWork, EntryOutside
<1>13. EntryRouted' /\ EntryFacts' /\ Entry!RouteIsPrivate'
  BY <1>1, <1>2 DEF EntryRouted, EntryFacts, Entry!RouteIsPrivate
<1> QED
  BY <1>9, <1>10, <1>11, <1>12, <1>13 DEF EntryInv

\* A step on the way in that neither ends the run nor begins the work.
LEMMA EntryGoesOn ==
    ASSUME EntryInv, entryStage \in EntryOutside, entryStage' \in EntryOutside \cup {"inside"},
           UNCHANGED <<Entry!request, Entry!work, jobs, Entry!record, untold>>,
           EntryRouted', EntryFacts', Entry!RouteIsPrivate'
    PROVE  EntryInv'
<1>1. /\ EntryTyped /\ begun = 0 /\ settled = 0 /\ (connected => settled > 0)
      /\ untold = Entry!None \/ untold.run \in reports
      /\ Entry!InterruptionIsTold
  BY DEF EntryInv, EntryWork, EntryHeard, EntryOutside
<1>2. UNCHANGED <<policy, begun, settled, connected, included, reports, entryTold, notice, untold>>
  BY DEF Entry!request, Entry!work, Entry!record
<1>3. Entry!BoundaryIsTrue'
  BY DEF Entry!BoundaryIsTrue, EntryOutside
<1>4. EntryTyped' /\ EntryWork' /\ EntryHeard' /\ Entry!InterruptionIsTold'
  BY <1>1, <1>2 DEF EntryTyped, EntryWork, EntryHeard, EntryOutside, Entry!InterruptionIsTold
<1> QED
  BY <1>3, <1>4 DEF EntryInv

LEMMA EntryCallKeeps ==
    ASSUME EntryInv, NEW i \in Entered, Entry!Call(i)
    PROVE  EntryInv'
<1>1. /\ entryStage = "loop" /\ entryStage' = "called" /\ begun' = 0 /\ settled' = 0
      /\ connected' = FALSE
      /\ UNCHANGED <<policy, advertised, host, reports, notice, included, untold>>
  BY DEF Entry!Call, Entry!lookup
<1>2. host = "none" /\ (untold = Entry!None \/ untold.run \in reports)
  BY <1>1 DEF EntryInv, EntryRouted, EntryHeard
<1> QED
  BY <1>1, <1>2 DEF EntryInv, EntryTyped, EntryWork, EntryOutside, EntryHeard, EntryRouted,
                    EntryFacts, Entry!BoundaryIsTrue, Entry!InterruptionIsTold, Entry!RouteIsPrivate

LEMMA EntryDescribeKeeps ==
    ASSUME EntryInv, Entry!Describe
    PROVE  EntryInv'
<1>1. entryStage = "called" /\ begun = 0 /\ host = "none"
  BY DEF Entry!Describe, EntryInv, EntryWork, EntryOutside, EntryRouted
<1>2. \/ \E err : Entry!Breaks(err)
      \/ /\ entryStage' = "found"
         /\ UNCHANGED <<Entry!request, host, Entry!work, jobs, Entry!record, untold>>
  BY DEF Entry!Describe
<1>3. CASE \E err : Entry!Breaks(err)
  BY <1>1, <1>3, EntryBreaks DEF EntryOutside
<1>4. CASE /\ entryStage' = "found"
           /\ UNCHANGED <<Entry!request, host, Entry!work, jobs, Entry!record, untold>>
  <2>1. EntryRouted' /\ EntryFacts' /\ Entry!RouteIsPrivate'
    BY <1>1, <1>4 DEF EntryRouted, EntryFacts, Entry!RouteIsPrivate
  <2> QED
    BY <1>1, <1>4, <2>1, EntryGoesOn DEF EntryOutside
<1> QED
  BY <1>2, <1>3, <1>4

\* What is dialled among the candidates is one of them.
EntryReachable(inner, open) ==
  {k \in DOMAIN Entry!Candidates(inner) : Entry!Candidates(inner)[k] \in open}
EntryFirst(inner, open) ==
  Entry!Candidates(inner)[CHOOSE k \in EntryReachable(inner, open) :
                            \A j \in EntryReachable(inner, open) : k <= j]

LEMMA EntryDialled ==
    ASSUME NEW inner, NEW open \in SUBSET {"internal", "public6"}, EntryReachable(inner, open) # {}
    PROVE  EntryFirst(inner, open) \in {"internal", "public6"}
<1> DEFINE S == EntryReachable(inner, open)
           k == CHOOSE m \in S : \A j \in S : m <= j
<1>1. DOMAIN Entry!Candidates(inner) \subseteq Nat
  <2> DEFINE s == IF inner = "address" THEN <<"internal">> ELSE <<>>
  <2>1. s \in Seq({"internal", "public6"}) /\ <<"public6">> \in Seq({"internal", "public6"})
    OBVIOUS
  <2> HIDE DEF s
  <2>2. s \o <<"public6">> \in Seq({"internal", "public6"})
    BY <2>1
  <2>3. DOMAIN (s \o <<"public6">>) \subseteq Nat
    BY <2>2
  <2> QED
    BY <2>3 DEF Entry!Candidates, s
<1>2. S \in SUBSET Nat
  BY <1>1 DEF EntryReachable
<1> HIDE DEF S
<1>3. \E m \in S : \A j \in S : m <= j
  BY <1>2, LeastNumber DEF S
<1>4. k \in S
  BY <1>3
<1> HIDE DEF k
<1>5. Entry!Candidates(inner)[k] \in open
  BY <1>4 DEF S, EntryReachable
<1> QED
  BY <1>5 DEF EntryFirst, k, S

LEMMA EntryRouteKeeps ==
    ASSUME EntryInv, Entry!Route
    PROVE  EntryInv'
<1>1. entryStage = "found" /\ begun = 0 /\ policy \in Entry!Policies
  BY DEF Entry!Route, EntryInv, EntryTyped, EntryWork, EntryOutside
<1>2. \/ \E err : Entry!Breaks(err)
      \/ \E h : /\ Entry!Dials(h)
                /\ h = "advertised" /\ advertised = "ip" => policy \in {"advertised", "internal"}
  <2>1. CASE Entry!KeepsHost /\ Entry!Dials("advertised")
    BY <2>1 DEF Entry!KeepsHost
  <2>2. ASSUME NEW inner, NEW open \in SUBSET {"internal", "public6"},
               IF policy = "prefix"
               THEN IF EntryReachable(inner, open) = {} THEN Entry!Breaks("unreachable")
                    ELSE Entry!Dials(EntryFirst(inner, open))
               ELSE IF inner = "error" THEN Entry!Breaks("address")
               ELSE Entry!Dials(IF inner = "nothing" THEN "advertised" ELSE "internal")
        PROVE  \/ \E err : Entry!Breaks(err)
               \/ \E h : /\ Entry!Dials(h)
                         /\ h = "advertised" /\ advertised = "ip"
                            => policy \in {"advertised", "internal"}
    <3>1. CASE policy = "prefix" /\ EntryReachable(inner, open) # {}
      <4> DEFINE h == EntryFirst(inner, open)
      <4>1. h \in {"internal", "public6"}
        BY <2>2, <3>1, EntryDialled
      <4>2. Entry!Dials(h)
        BY <2>2, <3>1
      <4> HIDE DEF h
      <4> QED
        BY <4>1, <4>2
    <3>2. CASE policy = "prefix" /\ EntryReachable(inner, open) = {}
      BY <2>2, <3>2
    <3>3. CASE policy # "prefix"
      BY <2>2, <3>3, <1>1 DEF Entry!Policies
    <3> QED
      BY <3>1, <3>2, <3>3
  <2> QED
    BY <2>1, <2>2 DEF Entry!Route, EntryReachable, EntryFirst
<1>3. CASE \E err : Entry!Breaks(err)
  BY <1>1, <1>3, EntryBreaks DEF EntryOutside
<1>4. ASSUME NEW h, Entry!Dials(h),
             h = "advertised" /\ advertised = "ip" => policy \in {"advertised", "internal"}
      PROVE  EntryInv'
  <2>1. /\ host' = h /\ entryStage' = "routed" /\ advertised' = advertised /\ policy' = policy
        /\ UNCHANGED <<Entry!request, Entry!work, jobs, Entry!record, untold>>
    BY <1>4 DEF Entry!Dials, Entry!request
  <2>2. EntryRouted' /\ EntryFacts' /\ Entry!RouteIsPrivate'
    BY <1>4, <2>1 DEF EntryRouted, EntryFacts, Entry!RouteIsPrivate
  <2> QED
    BY <1>1, <2>1, <2>2, EntryGoesOn DEF EntryOutside
<1> QED
  BY <1>2, <1>3, <1>4

LEMMA EntryEnrichKeeps ==
    ASSUME EntryInv, Entry!Enrich
    PROVE  EntryInv'
<1>1. /\ entryStage = "routed" /\ entryStage' = "ready"
      /\ found' \in Entry!Found /\ facts' = Entry!Facts(found')
      /\ UNCHANGED <<Entry!request, advertised, host, policy, Entry!work, jobs, Entry!record, untold>>
  BY DEF Entry!Enrich, Entry!lookup, Entry!request
<1>2. EntryRouted' /\ EntryFacts' /\ Entry!RouteIsPrivate'
  BY <1>1 DEF EntryInv, EntryRouted, EntryFacts, Entry!RouteIsPrivate, Entry!Facts, Entry!Keys,
              Entry!Entries
<1> QED
  BY <1>1, <1>2, EntryGoesOn DEF EntryOutside

LEMMA EntryBeginKeeps ==
    ASSUME EntryInv, Entry!Begin
    PROVE  EntryInv'
<1>1. /\ entryStage = "ready" /\ entryStage' = "inside" /\ host' = "none"
      /\ UNCHANGED <<Entry!request, Entry!work, jobs, Entry!record, untold>>
  BY DEF Entry!Begin
<1>2. EntryRouted' /\ EntryFacts' /\ Entry!RouteIsPrivate'
  BY <1>1 DEF EntryRouted, EntryFacts, Entry!RouteIsPrivate
<1> QED
  BY <1>1, <1>2, EntryGoesOn DEF EntryOutside

\* The run inside: what is told of it is decided when it ends.
LEMMA EntryInsideKeeps ==
    ASSUME EntryInv, Entry!Start \/ Entry!Settle \/ Entry!Launch
    PROVE  EntryInv'
<1>1. /\ entryStage = "inside" /\ entryStage' = "inside"
      /\ UNCHANGED <<policy, host, advertised, reports, notice, included, untold>>
  BY DEF Entry!Start, Entry!Settle, Entry!Launch, Entry!request, Entry!lookup, Entry!record
<1>2. EntryTyped
  BY DEF EntryInv
<1>3. begun' \in Nat /\ settled' \in Nat /\ connected' \in BOOLEAN /\ (connected' => settled' > 0)
  <2>1. begun \in Nat /\ settled \in Nat /\ connected \in BOOLEAN /\ (connected => settled > 0)
    BY DEF EntryInv, EntryTyped, EntryWork
  <2>2. CASE Entry!Start
    BY <2>1, <2>2 DEF Entry!Start
  <2>3. CASE Entry!Settle
    BY <2>1, <2>3 DEF Entry!Settle
  <2>4. CASE Entry!Launch
    BY <2>1, <2>4 DEF Entry!Launch, Entry!work
  <2> QED
    BY <2>2, <2>3, <2>4
<1>4. EntryTyped' /\ EntryWork'
  BY <1>1, <1>2, <1>3 DEF EntryTyped, EntryWork, EntryOutside
<1>5. EntryHeard' /\ EntryRouted' /\ Entry!InterruptionIsTold' /\ Entry!RouteIsPrivate'
  BY <1>1 DEF EntryInv, EntryHeard, EntryRouted, Entry!InterruptionIsTold, Entry!RouteIsPrivate
<1>6. EntryFacts' /\ Entry!BoundaryIsTrue'
  BY <1>1 DEF EntryFacts, Entry!BoundaryIsTrue
<1> QED
  BY <1>4, <1>5, <1>6 DEF EntryInv

LEMMA EntryVerdictKeeps ==
    ASSUME EntryInv, Entry!Verdict
    PROVE  EntryInv'
<1>1. /\ entryStage = "inside" /\ entryStage' = "loop"
      /\ entryTold' \in {[code |-> c, steps |-> settled] : c \in {"complete", "agent failed"}}
      /\ reports' = reports \cup {run}
      /\ UNCHANGED <<policy, begun, settled, connected, host, advertised, notice, included, untold>>
  BY DEF Entry!Verdict, Entry!request, Entry!lookup, Entry!work
<1>2. entryTold'.code \in {"complete", "agent failed"} /\ entryTold'.steps = settled
  <2>1. PICK c \in {"complete", "agent failed"} : entryTold' = [code |-> c, steps |-> settled]
    BY <1>1
  <2> QED
    BY <2>1
<1>3. Entry!BoundaryIsTrue'
  BY <1>1, <1>2 DEF Entry!BoundaryIsTrue, Entry!Boundaries
<1>4. EntryTyped' /\ EntryWork' /\ EntryHeard' /\ EntryRouted' /\ EntryFacts'
  BY <1>1 DEF EntryInv, EntryTyped, EntryWork, EntryOutside, EntryHeard, EntryRouted, EntryFacts
<1>5. Entry!InterruptionIsTold' /\ Entry!RouteIsPrivate'
  BY <1>1 DEF EntryInv, Entry!InterruptionIsTold, Entry!RouteIsPrivate
<1> QED
  BY <1>3, <1>4, <1>5 DEF EntryInv

\* The end of the turn, which leaves the notice or settles it with what it is the notice of.
LEMMA EntryEnds ==
    ASSUME EntryInv, entryStage \in {"loop", "closing"}, Entry!Between, included' \in BOOLEAN,
           Entry!InterruptionIsTold'
    PROVE  EntryInv'
<1>1. /\ entryStage' = "between" /\ entryTold' = Entry!Silent
      /\ begun' = 0 /\ settled' = 0 /\ connected' = FALSE
      /\ UNCHANGED <<policy, host, advertised>>
  BY DEF Entry!Between, Entry!lookup
<1>2. EntryTyped' /\ EntryWork' /\ EntryHeard' /\ EntryRouted' /\ EntryFacts'
  BY <1>1 DEF EntryInv, EntryTyped, EntryWork, EntryOutside, EntryHeard, EntryRouted, EntryFacts
<1>3. Entry!BoundaryIsTrue' /\ Entry!RouteIsPrivate'
  BY <1>1 DEF EntryInv, Entry!BoundaryIsTrue, Entry!RouteIsPrivate
<1> QED
  BY <1>2, <1>3 DEF EntryInv

LEMMA EntryAnswerKeeps ==
    ASSUME EntryInv, Entry!Answer
    PROVE  EntryInv'
<1>1. entryStage = "loop" /\ Entry!Between /\ UNCHANGED <<notice, included, untold>>
  BY DEF Entry!Answer
<1>2. Entry!InterruptionIsTold' /\ included' \in BOOLEAN
  BY <1>1 DEF EntryInv, EntryTyped, Entry!InterruptionIsTold
<1> QED
  BY <1>1, <1>2, EntryEnds

\* A reply that contains the reports of the turn settles every notice of the turn with its own.
LEMMA EntryDeliverKeeps ==
    ASSUME EntryInv, NEW sure \in BOOLEAN, Entry!Deliver(sure)
    PROVE  EntryInv'
<1>1. /\ entryStage = "closing" /\ Entry!Between
      /\ untold' = IF sure THEN Entry!Heard(reports) ELSE untold
      /\ notice' = IF included /\ sure THEN Entry!None ELSE notice
      /\ included' = IF included /\ sure THEN FALSE ELSE included
  BY DEF Entry!Deliver, Entry!Acknowledges
<1>2. /\ untold = Entry!None \/ untold.run \in reports
      /\ untold = Entry!None \/ notice = untold
      /\ included \in BOOLEAN
  BY <1>1 DEF EntryInv, EntryTyped, EntryHeard, Entry!InterruptionIsTold
<1>3. CASE sure
  <2>1. untold' = Entry!None
    BY <1>1, <1>2, <1>3 DEF Entry!Heard
  <2> QED
    BY <1>1, <1>2, <2>1, EntryEnds DEF Entry!InterruptionIsTold
<1>4. CASE ~sure
  BY <1>1, <1>2, <1>4, EntryEnds DEF Entry!InterruptionIsTold
<1> QED
  BY <1>3, <1>4

LEMMA EntryAbortKeeps ==
    ASSUME EntryInv, NEW sure \in BOOLEAN, Entry!Abort(sure)
    PROVE  EntryInv'
<1>1. /\ entryStage \in {"loop", "closing"} /\ Entry!Between
      /\ untold' = IF sure THEN Entry!Heard({notice.run}) ELSE untold
      /\ notice' = notice /\ included' = included
  BY DEF Entry!Abort
<1>2. untold' \in {untold, Entry!None}
  BY <1>1 DEF Entry!Heard
<1>3. included' \in BOOLEAN /\ Entry!InterruptionIsTold'
  BY <1>1, <1>2 DEF EntryInv, EntryTyped, Entry!InterruptionIsTold
<1> QED
  BY <1>1, <1>3, EntryEnds

LEMMA EntryRecoverKeeps ==
    ASSUME EntryInv, Entry!Recover
    PROVE  EntryInv'
<1>1. /\ entryStage = "loop" /\ entryStage' = "closing"
      /\ included' = (included \/ notice # Entry!None)
      /\ UNCHANGED <<policy, entered, run, begun, settled, connected, host, advertised, jobs, reports,
                     entryTold, notice, untold>>
  BY DEF Entry!Recover, Entry!request, Entry!lookup, Entry!work
<1>2. included' \in BOOLEAN
  BY <1>1
<1>3. EntryTyped' /\ EntryWork' /\ EntryHeard' /\ EntryRouted' /\ EntryFacts'
  BY <1>1, <1>2 DEF EntryInv, EntryTyped, EntryWork, EntryOutside, EntryHeard, EntryRouted, EntryFacts
<1>4. Entry!BoundaryIsTrue' /\ Entry!InterruptionIsTold' /\ Entry!RouteIsPrivate'
  BY <1>1 DEF EntryInv, Entry!BoundaryIsTrue, Entry!InterruptionIsTold, Entry!RouteIsPrivate
<1> QED
  BY <1>3, <1>4 DEF EntryInv

LEMMA EntryRehydrateKeeps ==
    ASSUME EntryInv, Entry!Rehydrate
    PROVE  EntryInv'
<1>1. /\ entryStage = "between" /\ untold' = Entry!None
      /\ UNCHANGED <<policy, entryStage, begun, settled, connected, host, advertised, included,
                     entryTold>>
  BY DEF Entry!Rehydrate, Entry!request, Entry!lookup, Entry!work
<1>2. EntryTyped' /\ EntryWork' /\ EntryHeard' /\ EntryRouted' /\ EntryFacts'
  BY <1>1 DEF EntryInv, EntryTyped, EntryWork, EntryOutside, EntryHeard, EntryRouted, EntryFacts
<1>3. Entry!BoundaryIsTrue' /\ Entry!InterruptionIsTold' /\ Entry!RouteIsPrivate'
  BY <1>1 DEF EntryInv, Entry!BoundaryIsTrue, Entry!InterruptionIsTold, Entry!RouteIsPrivate
<1> QED
  BY <1>2, <1>3 DEF EntryInv

\* The next turn gives the user the notice, and with it what it is the notice of.
LEMMA EntryNextTurnKeeps ==
    ASSUME EntryInv, Entry!NextTurn
    PROVE  EntryInv'
<1>1. /\ entryStage = "between" /\ entryStage' = "loop"
      /\ untold' = Entry!Heard({notice.run}) /\ included' = FALSE
      /\ UNCHANGED <<policy, begun, settled, connected, host, advertised, entryTold>>
  BY DEF Entry!NextTurn, Entry!lookup, Entry!work
<1>2. untold' = Entry!None
  BY <1>1 DEF EntryInv, Entry!InterruptionIsTold, Entry!Heard
<1>3. entryTold' = Entry!Silent
  BY <1>1 DEF EntryInv, EntryWork
<1>4. EntryTyped' /\ EntryWork' /\ EntryHeard' /\ EntryRouted' /\ EntryFacts'
  BY <1>1, <1>2 DEF EntryInv, EntryTyped, EntryWork, EntryOutside, EntryHeard, EntryRouted, EntryFacts
<1>5. Entry!BoundaryIsTrue' /\ Entry!InterruptionIsTold' /\ Entry!RouteIsPrivate'
  BY <1>1, <1>2, <1>3 DEF EntryInv, Entry!BoundaryIsTrue, Entry!Boundaries, Entry!Silent,
                          Entry!InterruptionIsTold, Entry!RouteIsPrivate
<1> QED
  BY <1>4, <1>5 DEF EntryInv

LEMMA EntryStep == EntryInv /\ [Entry!Next]_(Entry!vars) => EntryInv'
<1> SUFFICES ASSUME EntryInv, [Entry!Next]_(Entry!vars)
             PROVE  EntryInv'
  OBVIOUS
<1>1. ASSUME NEW i \in Entered, Entry!Call(i)
      PROVE  EntryInv'
  BY <1>1, EntryCallKeeps
<1>2. CASE Entry!Limited \/ Entry!NoPassword \/ Entry!AuditFails
  <2>1. entryStage \in EntryOutside /\ Entry!Breaks("failed")
    BY <1>2 DEF Entry!Limited, Entry!NoPassword, Entry!AuditFails, EntryOutside
  <2> QED
    BY <2>1, EntryBreaks DEF Entry!Boundaries
<1>3. CASE Entry!Describe
  BY <1>3, EntryDescribeKeeps
<1>4. CASE Entry!Route
  BY <1>4, EntryRouteKeeps
<1>5. CASE Entry!Enrich
  BY <1>5, EntryEnrichKeeps
<1>6. CASE Entry!Begin
  BY <1>6, EntryBeginKeeps
<1>7. CASE Entry!Start \/ Entry!Settle \/ Entry!Launch
  BY <1>7, EntryInsideKeeps
<1>8. CASE Entry!Dies
  <2>1. PICK err \in {"failed", "timeout"} : Entry!Breaks(err)
    BY <1>8 DEF Entry!Dies
  <2>2. entryStage \in EntryOutside \cup {"inside"} /\ err \notin Entry!Boundaries
    BY <1>8, <2>1 DEF Entry!Dies, Entry!Boundaries
  <2> QED
    BY <2>1, <2>2, EntryBreaks
<1>9. CASE Entry!Verdict
  BY <1>9, EntryVerdictKeeps
<1>10. CASE Entry!Answer
  BY <1>10, EntryAnswerKeeps
<1>11. CASE Entry!Recover
  BY <1>11, EntryRecoverKeeps
<1>12. CASE Entry!Rehydrate
  BY <1>12, EntryRehydrateKeeps
<1>13. CASE Entry!NextTurn
  BY <1>13, EntryNextTurnKeeps
<1>14. ASSUME NEW sure \in BOOLEAN, Entry!Deliver(sure)
       PROVE  EntryInv'
  BY <1>14, EntryDeliverKeeps
<1>15. ASSUME NEW sure \in BOOLEAN, Entry!Abort(sure)
       PROVE  EntryInv'
  BY <1>15, EntryAbortKeeps
<1>16. CASE UNCHANGED Entry!vars
  BY <1>16 DEF Entry!vars, Entry!request, Entry!lookup, Entry!context, Entry!work, Entry!record,
               EntryInv, EntryTyped, EntryWork, EntryOutside, EntryHeard, EntryRouted, EntryFacts,
               Entry!BoundaryIsTrue, Entry!InterruptionIsTold, Entry!RouteIsPrivate
<1> QED
  BY <1>1, <1>2, <1>3, <1>4, <1>5, <1>6, <1>7, <1>8, <1>9, <1>10, <1>11, <1>12, <1>13, <1>14, <1>15,
     <1>16 DEF Entry!Next

\* What is made of a report of the platform claims no more than the report.
LEMMA EntryFactsObserved == EntryInv => Entry!FactsAreObserved
<1> SUFFICES ASSUME EntryInv, entryStage = "ready"
             PROVE  /\ facts.known \subseteq facts.coverage
                    /\ "expected" \in facts.coverage =>
                         /\ facts.catalog # {} /\ facts.catalog \subseteq found.software
                         /\ "software" \in facts.known
                    /\ "metrics" \in facts.known => found.monitor = "points"
  BY DEF Entry!FactsAreObserved
<1>1. found \in Entry!Found /\ facts = Entry!Facts(found)
  BY DEF EntryInv, EntryFacts
<1>2. /\ facts.known = Entry!Keys(found) /\ facts.catalog = Entry!Entries(found)
      /\ facts.coverage = Entry!Keys(found) \cup {"state"}
           \cup {IF found.software = {} THEN "region" ELSE "expected" : e \in Entry!Entries(found)}
  BY <1>1 DEF Entry!Facts
<1>3. found.fields \subseteq {"gpu"}
  BY <1>1 DEF Entry!Found
<1>4. /\ "expected" \notin Entry!Keys(found)
      /\ "metrics" \in Entry!Keys(found) => found.monitor = "points"
      /\ found.software # {} => "software" \in Entry!Keys(found)
  BY <1>3 DEF Entry!Keys
<1>5. ASSUME "expected" \in facts.coverage
      PROVE  found.software # {} /\ Entry!Entries(found) # {}
  BY <1>2, <1>4, <1>5
<1> QED
  BY <1>2, <1>4, <1>5 DEF Entry!Entries

\* The result of a run is true of how far it got, an interruption is told, no deployment dials an
\* address it may not, and the harness is told what was observed (instance_ops).
LEMMA EntryTold == Entry!Spec => []Entry!GuestEntryIsTold
<1>1. EntryInv => Entry!GuestEntryIsTold
  BY EntryFactsObserved DEF EntryInv, Entry!GuestEntryIsTold
<1> QED
  BY <1>1, EntryStarts, EntryStep, PTL DEF Entry!Spec

-----------------------------------------------------------------------------
(* The composition: a step of MCServices is a step of the chosen part, and   *)
(* leaves the variables of every other part alone.                           *)

LEMMA ScheduleAlone ==
    /\ ServicesInit => Schedule!Init
    /\ [ServicesNext]_allVars => [Schedule!Next]_(Schedule!vars)
<1>1. ServicesInit => Schedule!Init
  BY DEF ServicesInit
<1>2. ServicesNext \/ UNCHANGED allVars => Schedule!Next \/ UNCHANGED scheduleVars
  BY DEF ServicesNext, CardStep, ServerStep, TraceStep, FeishuStep, GuestStep, Step, allVars,
         serverVars
<1>3. UNCHANGED scheduleVars => UNCHANGED Schedule!vars
  BY DEF scheduleVars, Schedule!vars
<1> QED
  BY <1>1, <1>2, <1>3

LEMMA DrainAlone ==
    /\ ServicesInit => Drain!Init
    /\ [ServicesNext]_allVars => [Drain!Next]_(Drain!vars)
<1>1. ServicesInit => Drain!Init
  BY DEF ServicesInit
<1>2. ServicesNext \/ UNCHANGED allVars => Drain!Next \/ UNCHANGED drainVars
  BY DEF ServicesNext, CardStep, ServerStep, TraceStep, FeishuStep, GuestStep, Step, allVars,
         serverVars
<1>3. UNCHANGED drainVars => UNCHANGED Drain!vars
  BY DEF drainVars, Drain!vars, Drain!handler, Drain!shutdown, Drain!sink
<1> QED
  BY <1>1, <1>2, <1>3

LEMMA LimiterAlone ==
    /\ ServicesInit => Limiter!Init
    /\ [ServicesNext]_allVars => [Limiter!Next]_(Limiter!vars)
<1>1. ServicesInit => Limiter!Init
  BY DEF ServicesInit
<1>2. ServicesNext \/ UNCHANGED allVars => Limiter!Next \/ UNCHANGED limiterVars
  BY DEF ServicesNext, CardStep, ServerStep, TraceStep, FeishuStep, GuestStep, Step, allVars,
         serverVars
<1>3. UNCHANGED limiterVars => UNCHANGED Limiter!vars
  BY DEF limiterVars, Limiter!vars, Limiter!counter, Limiter!history
<1> QED
  BY <1>1, <1>2, <1>3

LEMMA BotAlone ==
    /\ ServicesInit => Bot!Init
    /\ [ServicesNext]_allVars => [Bot!Next]_(Bot!vars)
<1>1. ServicesInit => Bot!Init
  BY DEF ServicesInit
<1>2. ServicesNext \/ UNCHANGED allVars => Bot!Next \/ UNCHANGED botVars
  BY DEF ServicesNext, CardStep, ServerStep, TraceStep, FeishuStep, GuestStep, Step, allVars,
         feishuVars
<1>3. UNCHANGED botVars => UNCHANGED Bot!vars
  BY DEF botVars, Bot!vars, Bot!inbox, Bot!worker, Bot!agent
<1> QED
  BY <1>1, <1>2, <1>3

LEMMA ModelAlone ==
    /\ ServicesInit => Model!Init
    /\ [ServicesNext]_allVars => [Model!Next]_(Model!vars)
<1>1. ServicesInit => Model!Init
  BY DEF ServicesInit
<1>2. ServicesNext \/ UNCHANGED allVars => Model!Next \/ UNCHANGED modelVars
  BY DEF ServicesNext, CardStep, ServerStep, TraceStep, FeishuStep, GuestStep, Step, allVars,
         serverVars
<1>3. UNCHANGED modelVars => UNCHANGED Model!vars
  BY DEF modelVars, Model!vars, Model!given, Model!shape
<1> QED
  BY <1>1, <1>2, <1>3

LEMMA RemoteAlone ==
    /\ ServicesInit => Remote!Init
    /\ [ServicesNext]_allVars => [Remote!Next]_(Remote!vars)
<1>1. ServicesInit => Remote!Init
  BY DEF ServicesInit
<1>2. ServicesNext \/ UNCHANGED allVars => Remote!Next \/ UNCHANGED remoteVars
  BY DEF ServicesNext, CardStep, ServerStep, TraceStep, FeishuStep, GuestStep, Step, allVars,
         guestVars
<1>3. UNCHANGED remoteVars => UNCHANGED Remote!vars
  BY DEF remoteVars, Remote!vars, Remote!job, Remote!poll, Remote!answer, Remote!history
<1> QED
  BY <1>1, <1>2, <1>3

LEMMA GrantAlone ==
    /\ ServicesInit => Grant!Init
    /\ [ServicesNext]_allVars => [Grant!Next]_(Grant!vars)
<1>1. ServicesInit => Grant!Init
  BY DEF ServicesInit
<1>2. ServicesNext \/ UNCHANGED allVars => Grant!Next \/ UNCHANGED grantVars
  BY DEF ServicesNext, CardStep, ServerStep, TraceStep, FeishuStep, GuestStep, Step, allVars,
         feishuVars
<1>3. UNCHANGED grantVars => UNCHANGED Grant!vars
  BY DEF grantVars, Grant!vars, Grant!platform, Grant!command, Grant!provider
<1> QED
  BY <1>1, <1>2, <1>3

LEMMA EntryAlone ==
    /\ ServicesInit => Entry!Init
    /\ [ServicesNext]_allVars => [Entry!Next]_(Entry!vars)
<1>1. ServicesInit => Entry!Init
  BY DEF ServicesInit
<1>2. ServicesNext \/ UNCHANGED allVars => Entry!Next \/ UNCHANGED entryVars
  BY DEF ServicesNext, CardStep, ServerStep, TraceStep, FeishuStep, GuestStep, Step, allVars,
         guestVars
<1>3. UNCHANGED entryVars => UNCHANGED Entry!vars
  BY DEF entryVars, Entry!vars, Entry!request, Entry!lookup, Entry!context, Entry!work, Entry!record
<1> QED
  BY <1>1, <1>2, <1>3

LEMMA FilesAlone ==
    /\ ServicesInit => Files!Init
    /\ [ServicesNext]_allVars => [Files!Next]_(Files!vars)
<1>1. ServicesInit => Files!Init
  BY DEF ServicesInit
<1>2. ServicesNext \/ UNCHANGED allVars => Files!Next \/ UNCHANGED fileVars
  BY DEF ServicesNext, CardStep, ServerStep, TraceStep, FeishuStep, GuestStep, Step, allVars,
         guestVars
<1>3. UNCHANGED fileVars => UNCHANGED Files!vars
  BY DEF fileVars, Files!vars
<1> QED
  BY <1>1, <1>2, <1>3

LEMMA RecorderAlone ==
    /\ ServicesInit => Recorder!Init
    /\ [ServicesNext]_allVars => [Recorder!Next]_(Recorder!vars)
<1>1. ServicesInit => Recorder!Init
  BY DEF ServicesInit
<1>2. ServicesNext \/ UNCHANGED allVars => Recorder!Next \/ UNCHANGED recorderVars
  BY DEF ServicesNext, CardStep, ServerStep, TraceStep, FeishuStep, GuestStep, Step, allVars,
         traceVars
<1>3. UNCHANGED recorderVars => UNCHANGED Recorder!vars
  BY DEF recorderVars, Recorder!vars, Recorder!facts, Recorder!engine
<1> QED
  BY <1>1, <1>2, <1>3

LEMMA WriterAlone ==
    /\ ServicesInit => Writer!Init
    /\ [ServicesNext]_allVars => [Writer!Next]_(Writer!vars)
<1>1. ServicesInit => Writer!Init
  BY DEF ServicesInit
<1>2. ServicesNext \/ UNCHANGED allVars => Writer!Next \/ UNCHANGED writerVars
  BY DEF ServicesNext, CardStep, ServerStep, TraceStep, FeishuStep, GuestStep, Step, allVars,
         traceVars
<1>3. UNCHANGED writerVars => UNCHANGED Writer!vars
  BY DEF writerVars, Writer!vars, Writer!counters, Writer!rows
<1> QED
  BY <1>1, <1>2, <1>3

\* Every shutdown request the program lets go reaches an upstream that accepts it, if it is on
\* its way no longer than the allowance (scheduler.go).
THEOREM ShutdownsAreAccepted == ServicesSpec => []UpstreamAccepts
<1>1. ServicesSpec => Schedule!Spec
  BY ScheduleAlone, PTL DEF ServicesSpec, allVars, Schedule!Spec
<1>2. Schedule!Spec => []Schedule!UpstreamAccepts
  BY ServicesAssumption, ScheduleAccepted DEF ServicesAssumption
<1> QED
  BY <1>1, <1>2, PTL DEF UpstreamAccepts

\* A drain that meets its deadline cuts off no turn before its rows are written (shutdown.go).
THEOREM DrainsCutNothingOff == ServicesSpec => []Drain!DrainLeavesNoTurn
<1>1. ServicesSpec => Drain!Spec
  BY DrainAlone, PTL DEF ServicesSpec, allVars, Drain!Spec
<1>2. Drain!Spec => []Drain!DrainLeavesNoTurn
  BY ServicesAssumption, DrainNoTurnLeft DEF ServicesAssumption
<1> QED
  BY <1>1, <1>2, PTL

\* However readings of the clock and turns at the mutex are ordered, a caller gets no more than
\* its burst, its rate and its day allow (ratelimit.go).
THEOREM CallersKeepTheirBudget == ServicesSpec => []WithinBudget
<1>1. ServicesSpec => Limiter!Spec
  BY LimiterAlone, PTL DEF ServicesSpec, allVars, Limiter!Spec
<1>2. Limiter!Spec => []Limiter!WithinBudget
  BY ServicesAssumption, LimiterBudgetKept DEF ServicesAssumption
<1> QED
  BY <1>1, <1>2, PTL DEF WithinBudget

\* The messages of a topic are asked in one session, one at a time and none twice, whatever is
\* delivered again (service.go).
THEOREM TopicsHaveOneSession == ServicesSpec => []OneSessionPerTopic
<1>1. ServicesSpec => Bot!Spec
  BY BotAlone, PTL DEF ServicesSpec, allVars, Bot!Spec
<1>2. Bot!Spec => []Bot!OneSessionPerTopic
  BY ServicesAssumption, BotTopicsKeepTheirSession DEF ServicesAssumption
<1> QED
  BY <1>1, <1>2, PTL DEF OneSessionPerTopic

\* What the caller is shown and told of the attempts at the model is what was sent (llm).
THEOREM AttemptsAreTold == ServicesSpec => []RetriesAreTold
<1>1. ServicesSpec => Model!Spec
  BY ModelAlone, PTL DEF ServicesSpec, allVars, Model!Spec
<1>2. Model!Spec => []Model!RetriesAreTold
  BY ServicesAssumption, ModelRetriesTold DEF ServicesAssumption
<1> QED
  BY <1>1, <1>2, PTL DEF RetriesAreTold

\* The handle of a guest's job goes only with the job, what ends it is told as it was, and its
\* log is shown once, whatever is lost in between (harness.py, remote_job.py).
THEOREM JobsStayFollowed == ServicesSpec => []JobsAreFollowed
<1>1. ServicesSpec => Remote!Spec
  BY RemoteAlone, PTL DEF ServicesSpec, allVars, Remote!Spec
<1>2. Remote!Spec => []Remote!JobsAreFollowed
  BY ServicesAssumption, RemoteJobsFollowed DEF ServicesAssumption
<1> QED
  BY <1>1, <1>2, PTL DEF JobsAreFollowed

\* As long as nothing is lost on the way, the platform takes the refresh token the bot would use
\* next; what it hands out is valid, its successor stored, and granted in full (feishu/oauth.go).
THEOREM GrantStaysKept == ServicesSpec => []GrantIsKept
<1>1. ServicesSpec => Grant!Spec
  BY GrantAlone, PTL DEF ServicesSpec, allVars, Grant!Spec
<1>2. Grant!Spec => []Grant!GrantIsKept
  BY ServicesAssumption, GrantKept DEF ServicesAssumption
<1> QED
  BY <1>1, <1>2, PTL DEF GrantIsKept

\* The result of a run is true of how far it got, and one that was interrupted at work is told of
\* or its notice waits; only the addresses and facts that the deployment and the platform give
\* reach the harness (executeInstanceOps, resolveDialHost, enrichInstanceOpsContext).
THEOREM EntriesStayTold == ServicesSpec => []GuestEntryIsTold
<1>1. ServicesSpec => Entry!Spec
  BY EntryAlone, PTL DEF ServicesSpec, allVars, Entry!Spec
<1>2. Entry!Spec => []Entry!GuestEntryIsTold
  BY EntryTold
<1> QED
  BY <1>1, <1>2, PTL DEF GuestEntryIsTold

\* What is said of an edit of a guest's file is so when it is said, and the file it replaced can
\* be had back while the edit is in place, whatever else writes to the path (atomic_file.py).
THEOREM EditsStayHonest == ServicesSpec => EditsAreHonest
<1>1. ServicesSpec => Files!Spec
  BY FilesAlone, PTL DEF ServicesSpec, allVars, Files!Spec
<1>2. Files!Spec => Files!EditsAreHonest
  BY ServicesAssumption, FilesHonest DEF ServicesAssumption
<1> QED
  BY <1>1, <1>2 DEF EditsAreHonest

\* What is known of a turn afterwards: a drain in time cuts none off, the trace tells how it
\* ended, and the sink accounts for every trace (shutdown.go, turn_trace.go, mysql_writer.go).
THEOREM TurnsStayAccounted == ServicesSpec => []TurnsAreAccounted
<1>1. ServicesSpec => Recorder!Spec /\ Writer!Spec
  BY RecorderAlone, WriterAlone, PTL DEF ServicesSpec, allVars, Recorder!Spec, Writer!Spec
<1>2. Recorder!Spec => []Recorder!TraceTellsTheTurn
  BY RecorderTellsTheTurn
<1>3. Writer!Spec => []Writer!TracesAreAccounted
  BY ServicesAssumption, WriterAccountsForTraces DEF ServicesAssumption
<1> QED
  BY <1>1, <1>2, <1>3, DrainsCutNothingOff, PTL DEF TurnsAreAccounted
=============================================================================
