------------------------------- MODULE MCActions -------------------------------
(***************************************************************************)
(* What leads to a write, in parts that share nothing here: the workflow   *)
(* engine, which this module extends, with the registered definitions; the *)
(* calls it makes, with their credentials; the cards of a guided creation; *)
(* the stock that is reported; and the targets an action is resolved to.   *)
(* `part` is chosen at the start, the steps are those of that component,   *)
(* and the variables of the others keep their first value.                 *)
(***************************************************************************)
EXTENDS WorkflowDefinitions, TLC

CONSTANTS c1, c2,
          Calls, CallRequests, CallTimeout, RefreshBefore, Lifetimes, CallHorizon,
          Instances, Accounts, Tiers, DiskOf, Reads, Proposals, Required, Collectable,
          Ttl, PageSize, TargetPages, TargetHorizon, MaxChanges, MaxOps,
          OrderRows, OrderPods, OrderImages, OrderNames, OrderRelated, OrderRequests,
          OrderSells, OrderProbes, OrderCapacities,
          StockModels, StockZones, StockPods, StockRequests, StockCatalogs, StockZoneLists,
          StockInventories, StockMaxPages, StockPages

MCChoices == {c1, c2}

\* The definition of TestRun_SealTamperFailsBeforeMutatingStep.
tamper == << confirm, normalizing, mutation >>

\* The definition of TestRun_SealTamperInsideTheWriteStepBlocksThatWrite.
tamperInside == << confirm, [mutation EXCEPT !.rewrites = TRUE] >>

\* A range of revalidation in which a batch may be skipped or fail quietly.
adaptive == << [skippable(optional(query), 1) EXCEPT !.type = "batch"],
               [confirm EXCEPT !.mode = "edit", !.from = 1], mutation >>

MCDefinitions == registeredWorkflows \cup {guided, tamper, tamperInside, adaptive}

\* The calls of the platform: a read and a write by the model, a write by a workflow, one forbidden.
MCCallRequests ==
  { [origin |-> "model", class |-> "read", zone |-> "lenient", zoneGiven |-> TRUE],
    [origin |-> "workflow", class |-> "mutating", zone |-> "strict", zoneGiven |-> FALSE],
    [origin |-> "model", class |-> "mutating", zone |-> "strict", zoneGiven |-> TRUE],
    [origin |-> "model", class |-> "destructive", zone |-> "none", zoneGiven |-> FALSE] }

(* The catalogues of the guided creation: one GPU sold in a VM zone and in a *)
(* container zone by the card or by two, one sold by the card; images of     *)
(* every source, that run on one GPU, on both or name none, in a zone or in  *)
(* both, one of them not on the first page of its list.                      *)
MCRows ==
  { [gpu |-> o[1], zone |-> o[2], count |-> o[3], spec |-> o[4]] :
      o \in {<<1, 1, 1, 1>>, <<1, 1, 2, 1>>, <<1, 2, 1, 1>>, <<1, 2, 2, 1>>, <<1, 1, 1, 2>>,
             <<2, 1, 1, 1>>, <<2, 1, 1, 2>>, <<2, 2, 1, 2>>} }
MCImages ==
  { [id |-> o[1], source |-> o[2], family |-> o[3], facets |-> o[4], box |-> o[5],
     gpus |-> o[6], zones |-> o[7], listed |-> o[8]] :
      o \in { <<"i1", "platform", "f1", {"app"}, TRUE, {}, {1, 2}, TRUE>>,
              <<"i2", "platform", "f2", {}, FALSE, {1}, {1}, TRUE>>,
              <<"i3", "community", "f3", {"app"}, TRUE, {1}, {1, 2}, TRUE>>,
              <<"i4", "community", "f3", {}, FALSE, {2}, {1, 2}, TRUE>>,
              <<"i5", "community", "f4", {"app"}, TRUE, {1, 2}, {1}, FALSE>>,
              <<"i6", "custom", "f5", {}, FALSE, {}, {1, 2}, TRUE>> } }
MCRelated == [near |-> {"i1", "i3", "i5"}, far |-> {}]

Order(source, name, image, verified, hardware, charge) ==
  [source |-> source, name |-> name, image |-> image, verified |-> verified,
   facet |-> "none", family |-> "none", charge |-> charge, disk |-> charge = "spot",
   gpu |-> hardware[1], zone |-> hardware[2], count |-> hardware[3], spec |-> hardware[4]]
MCNothing  == Order("platform", "none", "none", TRUE, <<0, 0, 0, 0>>, "exclusive")
MCRequests ==
  { Order(o[1], o[2], o[3], o[4], h, c) :
      o \in { <<"platform", "none", "none", TRUE>>, <<"community", "near", "none", TRUE>>,
              <<"community", "far", "none", TRUE>>, <<"community", "none", "i5", FALSE>>,
              <<"platform", "none", "i2", TRUE>>, <<"custom", "none", "i6", TRUE>> },
      h \in {<<0, 0, 0, 0>>, <<1, 1, 1, 1>>, <<1, 2, 2, 1>>, <<2, 0, 1, 2>>, <<0, 1, 2, 2>>},
      c \in {"exclusive", "spot"} }

Combos    == {1, 2} \X {1, 2}
Replied(yes(_), no(_), S) ==
  [c \in S |-> IF yes(c) THEN "yes" ELSE IF no(c) THEN "no" ELSE "unknown"]
PoolCombos == {1, 2} \X {1, 2} \X {"exclusive", "spot"}
MCSells ==
  { Replied(LAMBDA c : c[3] = "exclusive" /\ c[2] = 1, LAMBDA c : c[2] = z, PoolCombos) :
      z \in {1, 2} }
  \cup { Replied(LAMBDA c : c[3] # no, LAMBDA c : c[3] = no, PoolCombos) :
           no \in {"spot", "exclusive"} }
MCProbes ==
  { Replied(LAMBDA c : FALSE, LAMBDA c : FALSE, Combos),
    Replied(LAMBDA c : FALSE, LAMBDA c : TRUE, Combos),
    Replied(LAMBDA c : c[2] = 2, LAMBDA c : c[2] = 1, Combos),
    Replied(LAMBDA c : c[1] = 2, LAMBDA c : c[1] = 1, Combos) }
MCCapacities ==
  { Replied(LAMBDA c : FALSE, LAMBDA c : FALSE, Combos),
    Replied(LAMBDA c : FALSE, LAMBDA c : TRUE, Combos),
    Replied(LAMBDA c : c[1] = c[2], LAMBDA c : c[1] # c[2], Combos),
    Replied(LAMBDA c : c[1] = 2, LAMBDA c : c[1] = 1, Combos) }

(* The stock read: two models, a VM zone and a container zone, one of which  *)
(* may be missing from the zone catalogue; inventories that answer for both  *)
(* zones, for one pool, or with no rows.                                     *)
StockOf(gpu, zones, pool, image) == [gpu |-> gpu, zones |-> zones, pool |-> pool, image |-> image]
MCStockRequests ==
  { StockOf(g, z, "any", "none") : g \in {"none", "g1", "g2"}, z \in {{}, {1}, {2}} }
  \cup { StockOf("g1", z, p, "none") : z \in {{}, {2}}, p \in {"exclusive", "spot"} }
  \cup { StockOf("g9", {}, "any", "none"), StockOf("g1", {1, 9}, "any", "none"),
         StockOf("none", {9}, "any", "none"), StockOf("g1", {2}, "spot", "custom") }
MCStockCatalogs ==
  { <<>>, << <<"g1", 1, "normal">>, <<"g1", 2, "normal">>, <<"g2", 1, "soldout">> >>,
    << <<"g2", 1, "soldout">>, <<"g2", 2, "normal">>, <<"g1", 1, "normal">> >>,
    << <<"g1", 0, "normal">> >> }
Inventory(rows, noSpot) == [came |-> TRUE, rows |-> rows, noSpot |-> noSpot]
MCZoneLists == {{1, 2}, {1}}
MCInventories ==
  { Inventory([c \in {} |-> 0], {"g1"}),
    Inventory([c \in {"exclusive", "spot"} \X {1, 2} \X {"g1", "g2"} |->
                 CASE c[3] = "g1" /\ c[1] = "spot" -> 0 [] c[2] = 2 -> 1 [] OTHER -> 0], {}),
    Inventory([c \in {"exclusive"} \X {1, 2} \X {"g1"} |-> 1], {"g1"}) }

(* The resolution of targets: name 11 matches two instances exactly, name 12 *)
(* one by its id in the text; a creation that a form completes, a write that *)
(* needs nothing more, one without its zone and on a disk of another host.   *)
Id(i) == [type |-> "id", value |-> i]
Nm(n) == [type |-> "name", value |-> n]
MCAccounts == {<<3, 1>>}
MCReads == {<<>>, <<Id(2), Nm(11)>>, <<Nm(12)>>}
MCTiers == 11 :> <<{1, 2}, {}, {1, 2, 3}>> @@ 12 :> <<{}, {3}, {1}>>
Propose(op, host, disk, slots) == [op |-> op, host |-> host, disk |-> disk, slots |-> slots]
MCDiskOf == [d1 |-> 1]
MCRequired == [create |-> {"zone", "image"}, stop |-> {}, resize |-> {"zone"}]
MCProposals ==
  { Propose("create", 0, "none", [zone |-> "absent", image |-> "conflict"]),
    Propose("stop", 1, "none", [zone |-> "ok"]),
    Propose("resize", 2, "d1", [zone |-> "absent"]) }

VARIABLES part,
  mutating, req, callStage, tries, consulted, zoneId, since, held, sends, callOutcome,
  givenUp, cache, flight, woken, callClock,
  cardStep, request, orderParams, catalog, sells, probe, capacity, answers, stood, ordered,
  orderEnd, endReason,
  stockStage, wish, offers, listed, replies, source, left, checks, reply,
  account, time, changes, ops, absentAt, presentAt, made, registry, turnAt, evidence,
  readStage, reading, listing, proposal, verdict, judgedAt, said

Cloud    == INSTANCE CloudCalls WITH stage <- callStage, asked <- consulted,
              outcome <- callOutcome, cancelled <- givenUp, now <- callClock,
              Requests <- CallRequests, Timeout <- CallTimeout, Horizon <- CallHorizon
Guided   == INSTANCE GuidedCreate WITH step <- cardStep, outcome <- orderEnd,
              draft <- ordered, params <- orderParams, reason <- endReason,
              Rows <- OrderRows, Pods <- OrderPods, Images <- OrderImages, Names <- OrderNames,
              Related <- OrderRelated, Requests <- OrderRequests, Sells <- OrderSells,
              Probes <- OrderProbes, Capacities <- OrderCapacities
Stock    == INSTANCE StockRead WITH stage <- stockStage, req <- wish, catalog <- offers,
              answers <- replies,
              Models <- StockModels, Zones <- StockZones, Pods <- StockPods,
              Requests <- StockRequests, Catalogs <- StockCatalogs,
              ZoneLists <- StockZoneLists, Inventories <- StockInventories,
              MaxPages <- StockMaxPages, Pages <- StockPages, None <- "none"
Target   == INSTANCE TargetResolution WITH clock <- time, stage <- readStage, asked <- reading,
              Names <- DOMAIN Tiers, MaxPages <- TargetPages, Horizon <- TargetHorizon

ASSUME ActionsAssumption ==
  /\ Cloud!CallsConstants /\ Target!TargetConstants
  /\ Stock!StockConstants /\ Guided!OrderConstants

cloudVars    == <<mutating, req, callStage, tries, consulted, zoneId, since, held, sends,
                  callOutcome, givenUp, cache, flight, woken, callClock>>
createVars   == <<cardStep, request, orderParams, catalog, sells, probe, capacity, answers, stood,
                  ordered, orderEnd, endReason>>
stockVars    == <<stockStage, wish, offers, listed, replies, source, left, checks, reply>>
targetVars   == <<account, time, changes, ops, absentAt, presentAt, made, registry, turnAt,
                  evidence, readStage, reading, listing, proposal, verdict, judgedAt, said>>
partVars     == <<cloudVars, createVars, stockVars, targetVars>>
allVars      == <<part, vars, partVars>>

\* The parts that are not chosen start in one of their initial states.
ActionsInit ==
  /\ part \in {"workflow", "cloud", "create", "stock", "target"}
  /\ Init /\ Cloud!Init /\ Guided!Init /\ Stock!Init /\ Target!Init
  /\ part = "workflow" \/ (def = StopInstanceDef /\ params.choice = c1)
  /\ part = "cloud" \/ mutating
  /\ part = "create" \/ request = MCNothing
  /\ part = "stock" \/ wish = StockOf("none", {}, "any", "none")
  /\ part = "target" \/ account = <<3, 1>>

\* The steps of the chosen part, `theirs`, leave the variables of every other alone.
Step(p, mine, theirs) == part = p /\ mine /\ UNCHANGED <<part, theirs>>

ActionsNext ==
  \/ Step("workflow", Next, partVars)
  \/ Step("cloud", Cloud!Next, <<vars, createVars, stockVars, targetVars>>)
  \/ Step("create", Guided!Next, <<vars, cloudVars, stockVars, targetVars>>)
  \/ Step("stock", Stock!Next, <<vars, cloudVars, createVars, targetVars>>)
  \/ Step("target", Target!Next, <<vars, cloudVars, createVars, stockVars>>)

ActionsSpec == ActionsInit /\ [][ActionsNext]_allVars

\* Calls only differ by identity, and nothing orders them.
CallSymmetry == Permutations(Calls)

-----------------------------------------------------------------------------
(* The properties of the parts: see their modules.                         *)

SentAsAgreed        == Cloud!SentAsAgreed
OneFlight           == Cloud!OneFlight
CardsDecideTheDraft == Guided!CardsDecideTheDraft
NoInventedShortage  == Stock!NoInventedShortage
TargetIsEvidenced   == Target!TargetIsEvidenced
=============================================================================
