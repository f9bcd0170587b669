--------------------------- MODULE ShutdownSchedule ---------------------------
(***************************************************************************)
(* The scheduled stop of an instance (internal/workflow/scheduler.go): a   *)
(* typed schedule is resolved against the live clock when it is proposed,  *)
(* when its card is drawn up, and once more at the write edge, after the   *)
(* approval; the upstream repeats the check of the lead on its own clock   *)
(* while the request is in flight.                                         *)
(*                                                                         *)
(* Time is counted in units of the transport allowance; a clock reading    *)
(* (minutes, HH:MM, a timestamp) is a number of minutes.                   *)
(***************************************************************************)
EXTENDS Integers

CONSTANTS Minute,     \* units of time in a minute
          Lead,       \* shutdownMinimumLead, in minutes
          Allowance,  \* shutdownTransportAllowance
          Day,        \* minutes in a day
          Horizon     \* bound: the clock stops there

ScheduleConstants ==
    /\ Minute \in Nat \ {0} /\ Lead \in Nat \ {0} /\ Day \in Nat \ {0} /\ Horizon \in Nat
    /\ Allowance \in 1..Minute

VARIABLES now,        \* the clock
          pc,
          schedule,   \* Params["Schedule"]
          preview,    \* the timestamp of the card
          approved,   \* history variable: when the card was approved
          final,      \* SchedulerStopTime of the request
          sent,       \* when the request was built
          stored      \* the stop the upstream holds

vars == <<now, pc, schedule, preview, approved, final, sent, stored>>

None == -1
Schedules == [mode : {"after_minutes"}, at : 0..Day]
             \cup [mode : {"today", "tomorrow"}, at : 0..(Day - 1)]
             \cup [mode : {"absolute"}, at : 0..(Horizon \div Minute)]

TypeOK ==
    /\ now \in 0..Horizon
    /\ pc \in {"idle", "proposed", "asking", "approved", "inflight", "set", "refused", "rejected"}
    /\ schedule \in Schedules
    /\ preview \in Int /\ approved \in Int /\ final \in Int /\ sent \in Int /\ stored \in Int

Init ==
    /\ now = 0 /\ pc = "idle"
    /\ schedule = [mode |-> "absolute", at |-> 0]
    /\ preview = None /\ approved = None /\ final = None /\ sent = None /\ stored = None

-----------------------------------------------------------------------------

Midnight(t) == t - (t % (Day * Minute))

\* resolveShutdownTime: the timestamp a schedule stands for at time t.
Target(s, t) ==
    CASE s.mode = "after_minutes" -> t + s.at * Minute + (IF s.at = Lead THEN Allowance ELSE 0)
      [] s.mode = "today"         -> Midnight(t) + s.at * Minute
      [] s.mode = "tomorrow"      -> Midnight(t) + (Day + s.at) * Minute
      [] s.mode = "absolute"      -> s.at * Minute

\* MUTANT: the check at the write edge is the upstream's own.
ResolvesJustInTime(s, t) ==
    /\ s.mode = "after_minutes" => s.at >= Lead
    /\ Target(s, t) >= t + Lead * Minute

\* resolveShutdownTime has no error: the target is far enough for the request to travel.
Resolves(s, t) ==
    /\ s.mode = "after_minutes" => s.at >= Lead
    /\ Target(s, t) >= t + Lead * Minute + Allowance

\* Time passes while the card is open; a request is not longer on its way than the allowance.
Tick ==
    /\ now < Horizon
    /\ pc = "inflight" => now < sent + Allowance
    /\ now' = now + 1
    /\ UNCHANGED <<pc, schedule, preview, approved, final, sent, stored>>

\* ValidateShutdownSchedule: the gate of the catalog.
Propose(s) ==
    /\ pc = "idle"
    /\ schedule' = s
    /\ pc' = IF Resolves(s, now) THEN "proposed" ELSE "refused"
    /\ UNCHANGED <<now, preview, approved, final, sent, stored>>

\* stepResolveSchedulerDraft, and the card drawn from its result.
Draft ==
    /\ pc = "proposed"
    /\ IF Resolves(schedule, now)
       THEN pc' = "asking" /\ preview' = Target(schedule, now)
       ELSE pc' = "refused" /\ preview' = preview
    /\ UNCHANGED <<now, schedule, approved, final, sent, stored>>

Approve ==
    /\ pc = "asking"
    /\ pc' = "approved" /\ approved' = now
    /\ UNCHANGED <<now, schedule, preview, final, sent, stored>>

\* stepFinalizeSchedulerAfterConfirm, and the request stepSetStopScheduler builds from it.
Finalize ==
    /\ pc = "approved"
    /\ IF Resolves(schedule, now)
       THEN pc' = "inflight" /\ final' = Target(schedule, now) /\ sent' = now
       ELSE pc' = "refused" /\ UNCHANGED <<final, sent>>
    /\ UNCHANGED <<now, schedule, preview, approved, stored>>

\* The upstream checks the lead on its own clock.
Arrive ==
    /\ pc = "inflight"
    /\ IF final >= now + Lead * Minute
       THEN pc' = "set" /\ stored' = final
       ELSE pc' = "rejected" /\ stored' = stored
    /\ UNCHANGED <<now, schedule, preview, approved, final, sent>>

Next == Tick \/ (\E s \in Schedules : Propose(s)) \/ Draft \/ Approve \/ Finalize \/ Arrive

Spec == Init /\ [][Next]_vars

-----------------------------------------------------------------------------

\* A stop the program found valid at its write edge is still valid when the upstream looks, however
\* long the card was open, provided the request takes no longer than the allowance
\* (scheduler.go:18-21, 205-209).
UpstreamAccepts == pc # "rejected"

\* A delay is counted from the approval, not from the card, and an absolute time is the one of the
\* card (scheduler.go:205-209).
KeepsItsMeaning ==
    pc \in {"inflight", "set"} =>
        CASE schedule.mode = "after_minutes" ->
                final - schedule.at * Minute \in approved..(sent + Allowance)
          [] schedule.mode = "absolute" -> final = preview
          [] OTHER -> final % (Day * Minute) = schedule.at * Minute

\* A delay of at least the minimum is never refused, whenever it is looked at: the shortest one is
\* padded by the very allowance the check asks for (scheduler.go:72-74, 97).
ShortestDelayHolds == pc = "refused" /\ schedule.mode = "after_minutes" => schedule.at < Lead
=============================================================================
