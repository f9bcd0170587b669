----------------------------- MODULE RateLimiter -----------------------------
(***************************************************************************)
(* One counter of InMemoryRateLimiter (src/internal/governance/            *)
(* ratelimit.go): a token bucket and a count of the day for one subject    *)
(* and class.  Allow reads the clock before it takes the mutex, so the     *)
(* counter may meet an earlier time after a later one, also across         *)
(* midnight.                                                               *)
(*                                                                         *)
(* A tick is the time that earns one token; a limit of 0 is not enforced.  *)
(***************************************************************************)
EXTENDS Naturals, FiniteSetsExt

CONSTANTS Callers,  \* goroutines that call Allow
          Qps,      \* tokens the bucket holds
          Daily,    \* admissions a day
          Day,      \* ticks from one midnight to the next
          Horizon   \* bound: last tick of the clock

LimiterConstants == Qps \in Nat /\ Daily \in Nat /\ Day \in Nat \ {0} /\ Horizon \in Nat

NoTime == Horizon + 1
Times  == 0..Horizon
Date(t) == t \div Day
Dates   == {Date(t) : t \in Times}

VARIABLES clock,     \* the wall clock
          stamp,     \* the time a caller has read, NoTime when it is not in Allow
          known,     \* the counter exists
          tokens, last, date, count,   \* counterState
          first,     \* history: the time the counter was made at
          rewound,   \* history: ticks lastRefill was set back by, in all
          granted,   \* history: admissions in all
          reopened,  \* history: times the count was reset for a date
          admitted   \* history: admissions by the date of the caller's time

counter == <<known, tokens, last, date, count>>
history == <<first, rewound, granted, reopened, admitted>>
vars    == <<clock, stamp, counter, history>>

TypeOK ==
  /\ clock \in Times /\ stamp \in [Callers -> Times \cup {NoTime}]
  /\ known \in BOOLEAN /\ tokens \in 0..Qps /\ last \in Times
  /\ date \in Dates /\ count \in Nat
  /\ first \in Times /\ rewound \in Nat /\ granted \in Nat
  /\ reopened \in [Dates -> Nat] /\ admitted \in [Dates -> Nat]

Init ==
  /\ clock = 0 /\ stamp = [c \in Callers |-> NoTime]
  /\ known = FALSE /\ tokens = 0 /\ last = 0 /\ date = 0 /\ count = 0
  /\ first = 0 /\ rewound = 0 /\ granted = 0
  /\ reopened = [d \in Dates |-> 0] /\ admitted = [d \in Dates |-> 0]

Tick == clock < Horizon /\ clock' = clock + 1 /\ UNCHANGED <<stamp, counter, history>>

Read(c) ==
  /\ stamp[c] = NoTime
  /\ stamp' = [stamp EXCEPT ![c] = clock]
  /\ UNCHANGED <<clock, counter, history>>

(* refill: a time before the last one earns nothing and becomes the last.  *)
Refilled(t) ==
  IF ~known THEN Qps
  ELSE IF t > last THEN Min({Qps, tokens + (t - last)}) ELSE tokens

\* MUTANT: the later of two refills is not kept.
LastRefillForgotten(t) == IF known THEN last ELSE t

LastRefill(t) == t

(* resetDateIfNeeded: any other date starts a count of its own.            *)
CountOf(t) == IF known /\ date = Date(t) THEN count ELSE 0

Full(t)  == Daily > 0 /\ CountOf(t) >= Daily
Empty(t) == Qps > 0 /\ Refilled(t) < 1

(* Allow under the mutex.                                                  *)
Allow(c) ==
  LET t  == stamp[c]
      ok == ~Full(t) /\ ~Empty(t)
  IN /\ t # NoTime
     /\ stamp' = [stamp EXCEPT ![c] = NoTime]
     /\ known' = TRUE
     /\ date' = Date(t)
     /\ last' = LastRefill(t)
     /\ count' = CountOf(t) + (IF ok THEN 1 ELSE 0)
     /\ tokens' = IF ok /\ Qps > 0 THEN Refilled(t) - 1 ELSE Refilled(t)
     /\ first' = IF known THEN first ELSE t
     /\ rewound' = IF known /\ t < last THEN rewound + (last - t) ELSE rewound
     /\ granted' = granted + (IF ok THEN 1 ELSE 0)
     /\ reopened' = IF known /\ date = Date(t) THEN reopened
                    ELSE [reopened EXCEPT ![Date(t)] = @ + 1]
     /\ admitted' = IF ok THEN [admitted EXCEPT ![Date(t)] = @ + 1] ELSE admitted
     /\ UNCHANGED clock

Next == Tick \/ \E c \in Callers : Read(c) \/ Allow(c)

Spec == Init /\ [][Next]_vars

(* However the callers' clock readings and their turns at the mutex are    *)
(* interleaved, the admissions since the counter was made never exceed a   *)
(* full bucket and what the time since then, and the time counted twice    *)
(* after a step back, can earn; and a date admits at most its daily limit  *)
(* each time the counter turns to it.                                      *)
WithinBudget ==
  /\ Qps > 0 /\ known => granted + tokens + first <= Qps + last + rewound
  /\ Daily > 0 => \A d \in Dates : admitted[d] <= Daily * reopened[d]
=============================================================================
