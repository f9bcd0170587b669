--------------------------- MODULE TargetResolution ---------------------------
(***************************************************************************)
(* What a session says of the instances of its account.  A read resolves   *)
(* the ids and names it was given against the session's registry           *)
(* (entity/registry.go), lists the account page by page when the registry  *)
(* may not deny them (capability/read_targets.go), and asks the platform   *)
(* for the ids that remain (capability/read_resource.go).  A write proves  *)
(* that its target exists (engine/target_evidence.go), resolves the rest   *)
(* of the proposal (actionresolver/resolver.go) and shows a card           *)
(* (engine/action_proposal.go).  The account changes meanwhile, between    *)
(* two pages of a listing too, and the registry is a cache with a life of  *)
(* Ttl.                                                                    *)
(***************************************************************************)
EXTENDS Integers, Sequences, FiniteSets

CONSTANTS
  Instances, Names,
  Accounts,    \* what may exist at first
  Tiers,       \* name -> the sets it may match: exact, by id in the text, fuzzy
  DiskOf,      \* disk -> the instance that has it
  Reads,       \* sequences of references [type, value]
  Proposals,   \* [op, host, disk, slots]: what the model proposes
  Required, Collectable, \* slots an operation needs, and those a form can collect
  Ttl, PageSize, MaxPages,
  Horizon, MaxChanges, MaxOps  \* bounds of the model

Never == -1
NoInstance == 0

TargetConstants ==
  /\ Ttl \in Nat /\ PageSize \in Nat \ {0}
  /\ \A list \in Accounts : /\ list \in Seq(Instances)
                             /\ \A j, k \in DOMAIN list : list[j] = list[k] => j = k
  /\ \A refs \in Reads :
       /\ Len(refs) \in Nat /\ DOMAIN refs = 1..Len(refs)
       /\ \A k \in DOMAIN refs : refs[k].type = "id" => refs[k].value \in Instances
  /\ \A p \in Proposals : p.host \in Instances \cup {NoInstance}

VARIABLES
  account,    \* the instances that exist, in the order the platform lists them
  clock, changes, ops,
  absentAt, presentAt, \* when each instance was last seen missing, and existing, by nobody but the platform
  made,       \* the instances whose creation was acknowledged to this session
  registry,   \* [known, at, failed, truncated, invalid], and what is wrong of the known
  turnAt,     \* when the turn began
  evidence,   \* instances a response echoed during this turn
  stage,      \* idle, warm, list, query, verify, disk, resolve, card
  asked,      \* [refs, ids, reason, now]: the read in progress
  listing,    \* [seen, page, total]: the listing in progress, and how the account moved since
              \* its first page
  proposal, verdict, judgedAt, \* the write in progress, what is known of its target, and since when
  said        \* [absent, denied, card, at, standing]: the last thing that was asserted

vars == <<account, clock, changes, ops, absentAt, presentAt, made, registry, turnAt, evidence,
          stage, asked, listing, proposal, verdict, judgedAt, said>>

world  == <<account, clock, changes, absentAt, presentAt>>
NoRead == [refs |-> <<>>, ids |-> {}, reason |-> "none", now |-> 0]
NoList == [seen |-> {}, page |-> 0, total |-> 0, moved |-> {}]
Nothing == [absent |-> {}, card |-> NoInstance, at |-> 0, standing |-> {}]
NoProposal == [op |-> "none", host |-> NoInstance, disk |-> "none", slots |-> [s \in {} |-> "ok"]]

Holds == {account[k] : k \in DOMAIN account}

-----------------------------------------------------------------------------
(* The registry.                                                           *)

Cold == [known |-> {}, at |-> Never, failed |-> FALSE, truncated |-> FALSE, invalid |-> FALSE,
         wrong |-> {}]

\* MUTANT: a write of this session does not end the life of the registry.
FreshUntilTtl(r, at) ==
  r.at # Never /\ ~ r.failed /\ at - r.at <= Ttl

\* Neither stale, nor failed, nor changed by a write of this session since.
Fresh(r, at) == r.at # Never /\ ~ r.invalid /\ ~ r.failed /\ at - r.at <= Ttl

CanAssertAbsence(r, at) == Fresh(r, at) /\ ~ r.truncated

\* A listing counts what it saw, and the account has lost one instance and gained another
\* since its first page: it may look complete and have missed an instance, or hold one too many.
Torn == listing.moved = {"gained", "lost"}

Synced(seen, total) ==
  [known |-> seen, at |-> clock, failed |-> FALSE, truncated |-> total > Cardinality(seen),
   invalid |-> FALSE, wrong |-> IF Torn THEN (seen \ Holds) \cup (Holds \ seen) ELSE {}]

\* A name matches in the first tier that has a known instance.
Matches(n, r) ==
  LET hits == {k \in DOMAIN Tiers[n] : Tiers[n][k] \cap r.known # {}}
  IN  IF hits = {} THEN {}
      ELSE Tiers[n][CHOOSE k \in hits : \A j \in hits : k <= j] \cap r.known

Problem(ref, r, now) ==
  IF ref.type = "id"
  THEN IF ref.value \notin r.known /\ CanAssertAbsence(r, now) THEN "unresolved" ELSE "none"
  ELSE IF Matches(ref.value, r) = {} THEN "unresolved"
  ELSE IF Cardinality(Matches(ref.value, r)) > 1 THEN "ambiguous" ELSE "none"

\* The first reference that does not resolve decides.
Failing(refs, r, now) == {k \in DOMAIN refs : Problem(refs[k], r, now) # "none"}
Reason(refs, r, now) ==
  IF Failing(refs, r, now) = {} THEN "none"
  ELSE Problem(refs[CHOOSE k \in Failing(refs, r, now) : \A j \in Failing(refs, r, now) : k <= j], r, now)
Ids(refs, r) ==
  UNION {IF refs[k].type = "id" THEN {refs[k].value} ELSE Matches(refs[k].value, r) : k \in DOMAIN refs}

\* The id a refusal denies; a name that matches nothing is no claim about an id.
Denied(refs, r, now) ==
  LET k == CHOOSE j \in Failing(refs, r, now) : \A i \in Failing(refs, r, now) : j <= i
  IN  IF refs[k].type = "id" THEN {refs[k].value} ELSE {}

Init ==
  /\ account \in Accounts
  /\ clock = 0 /\ changes = 0 /\ ops = 0
  /\ presentAt = [i \in Instances |-> IF i \in Holds THEN 0 ELSE Never]
  /\ absentAt  = [i \in Instances |-> IF i \in Holds THEN Never ELSE 0]
  /\ made = {}
  /\ registry = Cold
  /\ turnAt = 0
  /\ evidence = {}
  /\ stage = "idle"
  /\ asked = NoRead
  /\ listing = NoList
  /\ proposal = NoProposal
  /\ verdict = "none" /\ judgedAt = 0
  /\ said = Nothing

Quiet == said' = Nothing

\* The account becomes `new`, for whatever reason.
Becomes(new) ==
  LET there == {new[k] : k \in DOMAIN new}
  IN  /\ account' = new
      /\ presentAt' = [i \in Instances |-> IF i \in there THEN clock ELSE presentAt[i]]
      /\ absentAt'  = [i \in Instances |-> IF i \in there THEN absentAt[i] ELSE clock]

Tick ==
  /\ clock < Horizon
  /\ clock' = clock + 1
  /\ presentAt' = [i \in Instances |-> IF i \in Holds THEN clock + 1 ELSE presentAt[i]]
  /\ absentAt'  = [i \in Instances |-> IF i \in Holds THEN absentAt[i] ELSE clock + 1]
  /\ UNCHANGED <<account, changes, ops, made, registry, turnAt, evidence, stage, asked, listing,
                 proposal, verdict, judgedAt>>
  /\ Quiet

\* The platform gives an id once: what existed never comes back.
Unused(i) == presentAt[i] = Never

Without(list, k) == SubSeq(list, 1, k - 1) \o SubSeq(list, k + 1, Len(list))

Moves(how) ==
  listing' = IF listing.page > 0 THEN [listing EXCEPT !.moved = @ \cup {how}] ELSE listing

\* Somebody else changes the account, also while it is listed.
Elsewhere ==
  /\ changes < MaxChanges
  /\ \/ /\ \E i \in Instances :
            Unused(i) /\ (Becomes(Append(account, i)) \/ Becomes(<<i>> \o account))
        /\ Moves("gained")
     \/ /\ \E k \in DOMAIN account : Becomes(Without(account, k))
        /\ Moves("lost")
  /\ changes' = changes + 1
  /\ UNCHANGED <<clock, ops, made, registry, turnAt, evidence, stage, asked, proposal, verdict, judgedAt>>
  /\ Quiet

\* The evidence of a turn ends with it, the registry does not.
NewTurn ==
  /\ stage = "idle" /\ turnAt < clock
  /\ turnAt' = clock
  /\ evidence' = {}
  /\ UNCHANGED <<world, ops, made, registry, stage, asked, listing, proposal, verdict, judgedAt>>
  /\ Quiet

Says(absent, card) ==
  said' = [absent |-> absent, card |-> card,
           at |-> IF verdict = "none" THEN clock ELSE judgedAt, standing |-> made \cap Holds]
Rests == stage' = "idle" /\ asked' = NoRead /\ listing' = NoList

-----------------------------------------------------------------------------
(* Reads.                                                                  *)

\* The command line loads the registry once: one page, or a failure on record.
LoadRegistry ==
  /\ stage = "idle" /\ ops = 0 /\ registry = Cold
  /\ ops' = 1
  /\ \/ registry' = Synced({account[k] : k \in {j \in DOMAIN account : j <= PageSize}}, Len(account))
     \/ registry' = [registry EXCEPT !.failed = TRUE]
  /\ UNCHANGED <<world, made, turnAt, evidence, stage, asked, listing, proposal, verdict, judgedAt>>
  /\ Quiet

StartRead(refs) ==
  /\ stage = "idle" /\ ops < MaxOps
  /\ ops' = ops + 1
  /\ LET reason == Reason(refs, registry, clock)
         read   == [refs |-> refs, ids |-> Ids(refs, registry), reason |-> reason, now |-> clock]
     IN  \/ refs = <<>> /\ stage' = "list" /\ asked' = read /\ Quiet
         \/ refs # <<>> /\ reason = "none" /\ stage' = "query" /\ asked' = read /\ Quiet
         \/ /\ reason # "none" /\ CanAssertAbsence(registry, clock)
            /\ Says(Denied(refs, registry, clock), NoInstance) /\ UNCHANGED <<stage, asked>>
         \/ /\ reason # "none" /\ ~ CanAssertAbsence(registry, clock)
            /\ stage' = "warm" /\ asked' = read /\ Quiet
  /\ UNCHANGED <<world, made, registry, turnAt, evidence, listing, proposal, verdict, judgedAt>>

\* What a complete listing is used for.
Listed(seen, total) ==
  LET r      == Synced(seen, total)
      reason == Reason(asked.refs, r, asked.now)
  IN  /\ registry' = r
      /\ listing' = NoList
      /\ IF stage = "list"
         THEN evidence' = evidence \cup seen /\ stage' = "idle" /\ asked' = NoRead /\ Says({}, NoInstance)
         ELSE IF reason = "none"
         THEN /\ stage' = "query"
              /\ asked' = [asked EXCEPT !.ids = Ids(asked.refs, r), !.reason = "none"]
              /\ UNCHANGED evidence
              /\ Quiet
         ELSE /\ stage' = "idle" /\ asked' = NoRead
              /\ Says(Denied(asked.refs, r, asked.now), NoInstance)
              /\ UNCHANGED evidence

Page ==
  /\ stage \in {"warm", "list"}
  /\ LET rows  == SubSeq(account, listing.page * PageSize + 1,
                         IF (listing.page + 1) * PageSize > Len(account) THEN Len(account)
                         ELSE (listing.page + 1) * PageSize)
         seen  == listing.seen \cup {rows[k] : k \in DOMAIN rows}
         total == IF Len(account) > listing.total THEN Len(account) ELSE listing.total
     IN  IF Cardinality(seen) >= total \/ seen = listing.seen \/ listing.page + 1 = MaxPages
         THEN Listed(seen, IF total > Cardinality(seen) THEN total ELSE Cardinality(seen))
         ELSE /\ listing' = [listing EXCEPT !.seen = seen, !.page = @ + 1, !.total = total]
              /\ UNCHANGED <<registry, evidence, stage, asked>> /\ Quiet
  /\ UNCHANGED <<world, ops, made, turnAt, proposal, verdict, judgedAt>>

\* A page that fails ends the listing: what was known before stands.
PageFails ==
  /\ stage \in {"warm", "list"}
  /\ Rests
  /\ Says(IF stage = "warm" THEN Denied(asked.refs, registry, asked.now) ELSE {}, NoInstance)
  /\ UNCHANGED <<world, ops, made, registry, turnAt, evidence, proposal, verdict, judgedAt>>

\* The platform may return more than it was asked for; only what it echoes counts.
Query ==
  /\ stage = "query"
  /\ \E rows \in {Holds, Holds \cap asked.ids} :
       /\ evidence' = evidence \cup (rows \cap asked.ids)
       /\ Says(asked.ids \ rows, NoInstance)
  /\ Rests
  /\ UNCHANGED <<world, ops, made, registry, turnAt, proposal, verdict, judgedAt>>
QueryFails ==
  /\ stage = "query"
  /\ Rests /\ Says({}, NoInstance)
  /\ UNCHANGED <<world, ops, made, registry, turnAt, evidence, proposal, verdict, judgedAt>>

-----------------------------------------------------------------------------
(* Writes.                                                                 *)

\* What the turn or the registry knows of a host without asking.
Known(i) ==
  IF i \in evidence THEN "verified"
  ELSE IF ~ CanAssertAbsence(registry, clock) THEN "unknown"
  ELSE IF i \in registry.known THEN "verified" ELSE "notFound"

StartWrite(p) ==
  /\ stage = "idle" /\ ops < MaxOps
  /\ ops' = ops + 1
  /\ proposal' = p
  /\ judgedAt' = clock
  /\ verdict' = IF p.host = NoInstance THEN "verified" ELSE Known(p.host)
  /\ stage' = IF verdict' = "unknown" THEN "verify" ELSE IF p.disk # "none" THEN "disk" ELSE "resolve"
  /\ UNCHANGED <<world, made, registry, turnAt, evidence, asked, listing>>
  /\ Quiet

PointQuery ==
  /\ stage = "verify"
  /\ \/ \E rows \in {Holds, Holds \cap {proposal.host}} :
          verdict' = IF proposal.host \in rows THEN "verified" ELSE "notFound"
     \/ verdict' = "unavailable"
  /\ judgedAt' = clock
  /\ stage' = IF proposal.disk # "none" THEN "disk" ELSE "resolve"
  /\ UNCHANGED <<world, ops, made, registry, turnAt, evidence, asked, listing, proposal>>
  /\ Quiet

\* A disk exists in the listing of its instance and nowhere else; both must stand.
QueryDisk ==
  /\ stage = "disk"
  /\ \/ verdict' = IF proposal.host \in Holds /\ DiskOf[proposal.disk] = proposal.host
                   THEN verdict ELSE IF verdict = "unavailable" THEN verdict ELSE "diskNotFound"
     \/ verdict' = IF verdict = "verified" THEN "unavailable" ELSE verdict
  /\ stage' = "resolve"
  /\ UNCHANGED <<world, ops, made, registry, turnAt, evidence, asked, listing, proposal, judgedAt>>
  /\ Quiet

\* Each slot of a proposal was accepted ("ok"), left out, or is a problem of a kind.
Slots(kinds)    == {s \in DOMAIN proposal.slots : proposal.slots[s] \in kinds}
Missing         == Slots({"absent"}) \cap Required[proposal.op]
Conflicts       == Slots({"ambiguous", "conflict"})
Unavailable     == Slots({"unavailable"}) # {} \/ verdict = "unavailable"
Structural      == Slots({"unknown"}) # {} \/ verdict \in {"notFound", "diskNotFound"}
Invalid         == Slots({"invalid"})
ReadyForConfirmation ==
  Missing = {} /\ Conflicts = {} /\ Invalid = {} /\ ~ Unavailable /\ ~ Structural
ReadyForIntake ==
  /\ ~ ReadyForConfirmation /\ proposal.op = "create"
  /\ ~ Unavailable /\ ~ Structural
  /\ Missing \cup Conflicts \cup Invalid \subseteq Collectable

\* A resolved proposal goes to its card, one that a form can complete to the form,
\* whose last step is the card; anything else goes back to the model.
Resolve ==
  /\ stage = "resolve"
  /\ IF ReadyForConfirmation \/ ReadyForIntake
     THEN /\ stage' = "card"
          /\ Says({}, proposal.host)
          /\ UNCHANGED <<proposal, verdict, judgedAt>>
     ELSE /\ Says(IF verdict = "notFound" THEN {proposal.host} ELSE {}, NoInstance)
          /\ proposal' = NoProposal /\ verdict' = "none" /\ judgedAt' = 0 /\ stage' = "idle"
  /\ UNCHANGED <<world, ops, made, registry, turnAt, evidence, asked, listing>>

Ends == stage' = "idle" /\ proposal' = NoProposal /\ verdict' = "none" /\ judgedAt' = 0

Decline ==
  /\ stage = "card"
  /\ Ends
  /\ UNCHANGED <<world, ops, made, registry, turnAt, evidence, asked, listing>>
  /\ Quiet

\* A committed write invalidates the registry.
Commit ==
  /\ stage = "card"
  /\ Ends
  /\ registry' = [registry EXCEPT !.invalid = TRUE]
  /\ IF proposal.op = "create"
     THEN \E i \in Instances :
            /\ Unused(i) /\ Becomes(<<i>> \o account)
            /\ made' = made \cup {i}
     ELSE UNCHANGED <<account, presentAt, absentAt, made>>
  /\ UNCHANGED <<clock, changes, ops, turnAt, evidence, asked, listing>>
  /\ Quiet

\* A failure after the confirmation: a creation may have taken effect, and its
\* reply leaves the registry as it is; a readback of the others invalidates it.
Fail ==
  /\ stage = "card"
  /\ Ends
  /\ IF proposal.op = "create"
     THEN /\ UNCHANGED registry
          /\ \/ \E i \in Instances : Unused(i) /\ Becomes(<<i>> \o account)
             \/ UNCHANGED <<account, presentAt, absentAt>>
     ELSE /\ \/ registry' = [registry EXCEPT !.invalid = TRUE]
             \/ UNCHANGED registry
          /\ UNCHANGED <<account, presentAt, absentAt>>
  /\ UNCHANGED <<clock, changes, ops, made, turnAt, evidence, asked, listing>>
  /\ Quiet

Next ==
  \/ Tick \/ Elsewhere \/ NewTurn \/ LoadRegistry
  \/ \E refs \in Reads : StartRead(refs)
  \/ Page \/ PageFails \/ Query \/ QueryFails
  \/ \E p \in Proposals : StartWrite(p)
  \/ PointQuery \/ QueryDisk \/ Resolve \/ Decline \/ Commit \/ Fail

Spec == Init /\ [][Next]_vars

-----------------------------------------------------------------------------
(* Properties.                                                             *)

\* The registry is the trace of a torn listing that was wrong about the instance.
Misled(i) == i \in registry.wrong /\ CanAssertAbsence(registry, said.at)

(* What is said of an instance rests on the account.  An id is only denied   *)
(* when the instance was missing within the life of the registry, and never  *)
(* when this session created it and it is still there; a card only names an  *)
(* instance that existed within that life or during the turn.  The exception *)
(* is a listing between whose pages the account both lost and gained an      *)
(* instance: it can count as complete (describe_instances.go:85) and be      *)
(* wrong about the instances it has too many or too few.                     *)
TargetIsEvidenced ==
  /\ \A i \in said.absent :
       Misled(i) \/ (absentAt[i] >= said.at - Ttl /\ i \notin said.standing)
  /\ said.card # NoInstance =>
       \/ Misled(said.card)
       \/ presentAt[said.card] >= said.at - Ttl
       \/ presentAt[said.card] >= turnAt
=============================================================================
