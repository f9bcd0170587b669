------------------------------ MODULE MCServices ------------------------------
(***************************************************************************)
(* Components of the server, the bot and the guest runs, that share        *)
(* nothing, each checked in a part of one state space: `part` is chosen at *)
(* the start, the steps are those of that component, and the variables of  *)
(* the others keep their first value.  The module extends the              *)
(* confirmation broker, which is the part "card".                          *)
(***************************************************************************)
EXTENDS ConfirmBroker, Sequences, FiniteSets, TLC

CONSTANTS Minute, Lead, Allowance, ScheduleDay, ScheduleHorizon,
          Conns, TraceQueue,
          Callers, Qps, Daily, LimiterDay, LimiterHorizon,
          Messages, Topics, TopicOf, Workers, InboxSize, MaxDeliveries, MaxSessions,
          MaxTiers, MinAttempts, MaxChunks,
          LogWindow, LogLimit, JobFaultLimit,
          CallLimit, CardLimit,
          SinkTraces, SinkRequestOf, SinkMalformed, SinkQueue, SinkBatch, SinkFaults,
          GrantCallers, GrantLife, GrantSkew, GrantTimeout, GrantHorizon, GrantLimit, TokenLimit,
          GrantFaults, CallbackLimit,
          FileEdits, FileCreates, FileTexts, FileMetas, TouchLimit,
          Entered, EntryTurns, EntryRuns, EntrySteps, EntryFeed

\* The topics of the messages: two of the three share one.
MCMessages == {"m1", "m2", "m3"}
MCTopicOf  == [m \in MCMessages |-> IF m = "m3" THEN "t2" ELSE "t1"]

\* The requests of the traces: two of the three share one.
MCSinkTraces    == {"x", "y", "z"}
MCSinkRequestOf == [t \in MCSinkTraces |-> IF t = "z" THEN "y" ELSE t]

VARIABLES part,
  scheduleClock, schedulePc, schedule, preview, approved, final, sent, stored,
  conn, turn, cancelled, closed, active, draining, server, awaited, late,
  traces, queueOpen, dbOpen, crashed,
  deliveries, seen, inbox, job, botStage, botAsked, retried, locked, sessions,
  opened, lineage, asks,
  clock, stamp, known, tokens, last, date, count, first, rewound, reopened, granted, admitted,
  tiers, forced, phase, slot, usage, degraded, requests, buffer, failure, attemptsSeen,
  textShown, result, abandoned,
  policy, entryTurn, entryStage, run, entered, advertised, host, found, facts, begun, settled,
  feed, connected, jobs, reports, entryTold, notice, included, untold,
  target, temp, backup, plan, editStage, report, touches,
  grantClock, grants, secret, grantRow, bootstrap, deskFile, desk, code, mishap, calls, process,
  grantMemory, holder, grantStage, tokenReply, sentAt, given, startFailure, astray, faults,
  launcher, directory, pid, status, wrapper, reused, log, tracked, pollCall, readStatus, verdict,
  state, offset, accounted, faithful, early, wiped, misread, jobFaults,
  calling, made, entries, waiting, forsaken, settledCards, denied, ended, ceiling, reply, chatErr,
  transport, traceStage, traceOutcome, turnRow,
  sender, attempts, accepted, dropped, malformed, failed, succeeded, writerQueue, batch, worker,
  table, expired, swept, lateInserts, closing, closer, writerCrashed, writerFaults

Schedule == INSTANCE ShutdownSchedule WITH now <- scheduleClock, pc <- schedulePc,
              Day <- ScheduleDay, Horizon <- ScheduleHorizon
Drain    == INSTANCE ServerDrain WITH queue <- traces, QueueSize <- TraceQueue
Bot      == INSTANCE FeishuBot WITH queue <- inbox, stage <- botStage, asked <- botAsked,
              QueueSize <- InboxSize
Limiter  == INSTANCE RateLimiter WITH Day <- LimiterDay, Horizon <- LimiterHorizon
Model    == INSTANCE ModelCalls WITH cancelled <- abandoned, records <- attemptsSeen,
              shown <- textShown
Grant    == INSTANCE FeishuGrant WITH clock <- grantClock, row <- grantRow, file <- deskFile,
              memory <- grantMemory, stage <- grantStage, reply <- tokenReply,
              failure <- startFailure,
              Callers <- GrantCallers, Life <- GrantLife, Skew <- GrantSkew,
              Timeout <- GrantTimeout, Horizon <- GrantHorizon, MaxGrants <- GrantLimit,
              MaxTokens <- TokenLimit, MaxFaults <- GrantFaults, MaxCalls <- CallbackLimit
Entry    == INSTANCE GuestEntry WITH turn <- entryTurn, stage <- entryStage, target <- entered,
              told <- entryTold, pending <- notice,
              Instances <- Entered, MaxTurns <- EntryTurns, MaxRuns <- EntryRuns,
              MaxSteps <- EntrySteps, MaxFeed <- EntryFeed
Remote   == INSTANCE RemoteJob WITH call <- pollCall, found <- readStatus, told <- state,
              faults <- jobFaults,
              Window <- LogWindow, MaxLog <- LogLimit, MaxFaults <- JobFaultLimit
Recorder == INSTANCE TurnTrace WITH open <- calling, pending <- waiting, cards <- settledCards,
              stage <- traceStage, outcome <- traceOutcome, row <- turnRow,
              MaxCalls <- CallLimit, MaxCards <- CardLimit
Writer   == INSTANCE TraceWriter WITH queue <- writerQueue, late <- lateInserts,
              crashed <- writerCrashed, faults <- writerFaults,
              Traces <- SinkTraces, Malformed <- SinkMalformed, RequestOf <- SinkRequestOf,
              QueueSize <- SinkQueue, BatchSize <- SinkBatch, MaxFaults <- SinkFaults
Files    == INSTANCE GuestFiles WITH stage <- editStage,
              Edits <- FileEdits, Creates <- FileCreates, Texts <- FileTexts, Metas <- FileMetas,
              MaxTouches <- TouchLimit

ASSUME ServicesAssumption ==
  Schedule!ScheduleConstants /\ Drain!DrainConstants /\ Limiter!LimiterConstants
  /\ Bot!BotConstants /\ Model!ModelConstants /\ Files!FileConstants
  /\ Grant!GrantConstants /\ Writer!WriterConstants /\ Remote!JobConstants
  /\ Recorder!RecorderConstants

scheduleVars == <<scheduleClock, schedulePc, schedule, preview, approved, final, sent, stored>>
drainVars    == <<conn, turn, cancelled, closed, active, draining, server, awaited, late,
                  traces, queueOpen, dbOpen, crashed>>
botVars      == <<deliveries, seen, inbox, job, botStage, botAsked, retried, locked,
                  sessions, opened, lineage, asks>>
limiterVars  == <<clock, stamp, known, tokens, last, date, count, first, rewound,
                  reopened, granted, admitted>>
modelVars    == <<tiers, forced, phase, slot, usage, degraded, requests, buffer, failure,
                  attemptsSeen, textShown, result, abandoned>>
grantVars    == <<grantClock, grants, secret, grantRow, bootstrap, deskFile, desk, code, mishap,
                  calls, process, grantMemory, holder, grantStage, tokenReply, sentAt, given,
                  startFailure, astray, faults>>
entryVars    == <<policy, entryTurn, entryStage, run, entered, advertised, host, found, facts, begun,
                  settled, feed, connected, jobs, reports, entryTold, notice, included, untold>>
fileVars     == <<target, temp, backup, plan, editStage, report, touches>>

remoteVars   == <<launcher, directory, pid, status, wrapper, reused, log, tracked, pollCall,
                  readStatus, verdict, state, offset, accounted, faithful, early, wiped, misread,
                  jobFaults>>

recorderVars == <<calling, made, entries, waiting, forsaken, settledCards, denied, ended, ceiling,
                  reply, chatErr, transport, traceStage, traceOutcome, turnRow>>
writerVars   == <<sender, attempts, accepted, dropped, malformed, failed, succeeded, writerQueue,
                  batch, worker, table, expired, swept, lateInserts, closing, closer,
                  writerCrashed, writerFaults>>

serverVars   == <<scheduleVars, drainVars, limiterVars, modelVars>>
traceVars    == <<recorderVars, writerVars>>
feishuVars   == <<botVars, grantVars>>
guestVars    == <<entryVars, fileVars, remoteVars>>
allVars      == <<part, vars, serverVars, traceVars, feishuVars, guestVars>>

Parts == {"card", "schedule", "drain", "limiter", "model", "bot", "grant", "entry", "files",
          "remote", "recorder", "writer"}

\* The parts that are not chosen start in one of their initial states.
ServicesInit ==
  /\ part \in Parts
  /\ Init /\ Schedule!Init /\ Drain!Init /\ Limiter!Init /\ Model!Init
  /\ Bot!Init /\ Grant!Init /\ Entry!Init /\ Files!Init /\ Remote!Init
  /\ Recorder!Init /\ Writer!Init
  /\ part = "model" \/ (tiers = 1 /\ forced)
  /\ part = "entry" \/ policy = "prefix"
  /\ part = "files" \/ target = Files!Absent

\* The steps of the chosen part, `theirs`, leave the variables of every other alone.
Step(p, mine, theirs) == part = p /\ mine /\ UNCHANGED <<part, theirs>>

CardStep == Step("card", Next, <<serverVars, traceVars, feishuVars, guestVars>>)

ServerStep ==
  /\ \/ Step("schedule", Schedule!Next, <<drainVars, limiterVars, modelVars>>)
     \/ Step("drain", Drain!Next, <<scheduleVars, limiterVars, modelVars>>)
     \/ Step("limiter", Limiter!Next, <<scheduleVars, drainVars, modelVars>>)
     \/ Step("model", Model!Next, <<scheduleVars, drainVars, limiterVars>>)
  /\ UNCHANGED <<vars, traceVars, feishuVars, guestVars>>

TraceStep ==
  /\ \/ Step("recorder", Recorder!Next, writerVars)
     \/ Step("writer", Writer!Next, recorderVars)
  /\ UNCHANGED <<vars, serverVars, feishuVars, guestVars>>

FeishuStep ==
  /\ \/ Step("bot", Bot!Next, grantVars)
     \/ Step("grant", Grant!Next, botVars)
  /\ UNCHANGED <<vars, serverVars, traceVars, guestVars>>

GuestStep ==
  /\ \/ Step("entry", Entry!Next, <<fileVars, remoteVars>>)
     \/ Step("files", Files!Next, <<entryVars, remoteVars>>)
     \/ Step("remote", Remote!Next, <<entryVars, fileVars>>)
  /\ UNCHANGED <<vars, serverVars, traceVars, feishuVars>>

ServicesNext == CardStep \/ ServerStep \/ TraceStep \/ FeishuStep \/ GuestStep

ServicesSpec == ServicesInit /\ [][ServicesNext]_allVars

\* Owners and cards only differ by identity, and nothing orders them.
IdSymmetry == Permutations(Owners) \cup Permutations(Cards)

-----------------------------------------------------------------------------
(* The properties of the parts: see their modules.                         *)

UpstreamAccepts    == Schedule!UpstreamAccepts
OneSessionPerTopic == Bot!OneSessionPerTopic
WithinBudget       == Limiter!WithinBudget
RetriesAreTold     == Model!RetriesAreTold
GrantIsKept        == Grant!GrantIsKept
GuestEntryIsTold   == Entry!GuestEntryIsTold
EditsAreHonest     == Files!EditsAreHonest
JobsAreFollowed    == Remote!JobsAreFollowed

(* What is known of a turn afterwards: a drain that meets its deadline     *)
(* cuts off no turn before its rows are written, the trace of a turn tells *)
(* how it ended, and the sink accounts for every trace it was handed.      *)
TurnsAreAccounted ==
  Drain!DrainLeavesNoTurn /\ Recorder!TraceTellsTheTurn /\ Writer!TracesAreAccounted
=============================================================================
