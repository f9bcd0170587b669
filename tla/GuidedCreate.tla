----------------------------- MODULE GuidedCreate -----------------------------
(***************************************************************************)
(* The guided creation of an instance (CreateInstanceGuidedDef,            *)
(* internal/workflow/create_instance*.go): a request fills what it can,    *)
(* cards ask for the image, the charge type, the GPU, the zone, the number *)
(* of cards and the CPU and memory, each offering what the answers before  *)
(* it and the platform's replies leave; a draft is resolved from the       *)
(* answers, refused by the create gate or checked, priced, confirmed and   *)
(* created.  SealedWorkflow has the run itself (gates, seals, failures of  *)
(* calls); here is what its cards offer and what becomes of the answers.   *)
(*                                                                         *)
(* GPUs, zones, numbers of cards and CPU/memory specifications are numbers *)
(* in the order of the instance catalog; 0 stands for one not chosen.  The *)
(* type, category and tag cards, which narrow one list in the same way,    *)
(* are one card here.  An image is a record of what the cards ask of it.   *)
(***************************************************************************)
EXTENDS Naturals, FiniteSets, FiniteSetsExt

CONSTANTS Rows,      \* [gpu, zone, count, spec] the instance catalog has on sale
          Pods,      \* the container zones
          Images,    \* [id, source, family, facets, box, gpus, zones, listed]
          Names,     \* image names a request may give
          Related,   \* the ids of the images a name is similar to
          Requests,  \* what the request fills, as params
          Sells,     \* replies of the inventory: [gpu, zone, pool] -> yes, no, unknown
          Probes,    \* replies of the capacity probe: [gpu, zone] -> yes, no, unknown
          Capacities \* replies about the zone chosen: [count, spec] -> yes, no, unknown

Gpus   == {r.gpu : r \in Rows}
Zones  == {r.zone : r \in Rows}
Counts == {r.count : r \in Rows}
Specs  == {r.spec : r \in Rows}
Pools  == {"exclusive", "spot"}
None   == "none"
Tenant == {"custom"}        \* the sources that are a tenant's own list
IdsOf(S) == {i.id : i \in S}
Image(id) == CHOOSE i \in Images : i.id = id

VARIABLES step,     \* the step that is next
          request,  \* Context.InitialParams
          params,   \* Context.Params
          catalog,  \* the result of the image query
          sells,    \* the snapshot of the GPU inventory
          probe,    \* the result of the capacity probe
          capacity, \* the result of the query for the zone chosen
          answers,  \* what the cards were answered, as params (GuidedReachedOrder)
          stood,    \* the zone card had to offer zones it knows to be refused
          draft,    \* the params the draft was resolved from, or NoDraft
          outcome, reason

vars == <<step, request, params, catalog, sells, probe, capacity, answers, stood, draft,
          outcome, reason>>
replies == <<catalog, sells, probe, capacity>>
ending  == <<draft, outcome, reason>>

\* What a request fills, and the cards change.
IsOrder(p) ==
  p = [source |-> p.source, name |-> p.name, image |-> p.image, verified |-> p.verified,
       facet |-> p.facet, family |-> p.family, charge |-> p.charge, disk |-> p.disk,
       gpu |-> p.gpu, zone |-> p.zone, count |-> p.count, spec |-> p.spec]

\* Nothing on sale is 0, no image has no name, and an id is of one image.
OrderConstants ==
  /\ \A r \in Rows : {r.gpu, r.zone, r.count, r.spec} \subseteq Nat \ {0}
  /\ \A i \in Images : None \notin {i.id, i.family} /\ \A j \in Images : i.id = j.id => i = j
  /\ \A r \in Requests : IsOrder(r)

NoDraft == [gpu |-> 0]
Unknown == [c \in Counts \X Specs |-> "unknown"]
Unprobed == [c \in Gpus \X Zones |-> "unknown"]

Unanswered == [source |-> None, family |-> None, image |-> None, charge |-> None,
               gpu |-> 0, zone |-> 0, count |-> 0, spec |-> 0]

TypeOK ==
  /\ request \in Requests
  /\ params.image \in IdsOf(Images) \cup {None}
  /\ params.gpu \in Gpus \cup {0} /\ params.zone \in Zones \cup {0}
  /\ params.count \in Counts \cup {0} /\ params.spec \in Specs \cup {0}
  /\ params.charge \in Pools
  /\ catalog \subseteq Images
  /\ probe \in [Gpus \X Zones -> {"yes", "no", "unknown"}]
  /\ capacity \in [Counts \X Specs -> {"yes", "no", "unknown"}]
  /\ DOMAIN answers = DOMAIN Unanswered /\ stood \in BOOLEAN
  /\ outcome \in {"none", "dead end", "refused", "failed", "cancelled", "created"}

Init ==
  /\ step = "images"
  /\ request \in Requests
  /\ params = request
  /\ catalog = {} /\ sells = [c \in Gpus \X Zones \X Pools |-> "unknown"]
  /\ probe = Unprobed /\ capacity = Unknown
  /\ answers = Unanswered /\ stood = FALSE
  /\ draft = NoDraft /\ outcome = "none" /\ reason = "none"

-----------------------------------------------------------------------------
(* The image catalog.                                                      *)

Listed(source) == {i \in Images : i.source = source /\ i.listed}
Named(name)    == {i \in Images : i.id \in Related[name]}

\* createImageResult: the query's rows and the image the request was verified for.
Catalog ==
  catalog \cup {i \in Images : i.id = params.image /\ request.verified /\ i.source = params.source}

\* stepQueryImages: by id or, for the community, by name; else the first page.
FirstReply ==
  IF params.image # None /\ params.source \notin Tenant
  THEN {i \in Images : i.id = params.image /\ i.source = params.source}
  ELSE IF params.source = "community" /\ params.name # None
       THEN {i \in Named(params.name) : i.source = "community"}
       ELSE Listed(params.source)

QueryImages ==
  /\ step = "images"
  /\ catalog' = FirstReply
  /\ step' = "inventory"
  /\ UNCHANGED <<request, params, sells, probe, capacity, answers, stood, ending>>

(* The query repeats for another source.  Upstream's names of the platform *)
(* are case sensitive: a name may miss.                                    *)
OtherReplies ==
  IF params.source \in Tenant \/ params.name = None THEN {Listed(params.source)}
  ELSE LET named == {i \in Named(params.name) : i.source = params.source}
       IN  IF params.source = "community" THEN {named} ELSE {{}, named}

Requery ==
  /\ step = "requery"
  /\ IF params.image # None \/ params.source = request.source
     THEN UNCHANGED catalog
     ELSE catalog' \in OtherReplies
  /\ step' = "browse"
  /\ UNCHANGED <<request, params, sells, probe, capacity, answers, stood, ending>>

\* stepBrowseCommunityWhenNameMatchedNothing
Browse ==
  /\ step = "browse"
  /\ IF params.source = "community" /\ params.name # None /\ catalog = {}
     THEN catalog' = Listed("community")
     ELSE UNCHANGED catalog
  /\ step' = "facets"
  /\ UNCHANGED <<request, params, sells, probe, capacity, answers, stood, ending>>

-----------------------------------------------------------------------------
(* The candidates every image card is a projection of.                     *)

\* viableEntries: a container zone asked for takes container images only.
Viable(i) == params.zone \in Pods => i.box

\* RankImages: a name keeps what it is similar to, and what supports the GPU asked for.
Ranks(i) ==
  \/ params.name = None
  \/ i.id \in Related[params.name]
  \/ params.gpu \in i.gpus

Base  == {i \in Catalog : Viable(i) /\ (Ranks(i) \/ i.id = params.image)}
Final == {i \in Base : /\ params.facet # None => params.facet \in i.facets
                       /\ params.family # None => i.family = params.family}

Explicit == params.image # None \/ params.name # None

\* An image with no list of GPUs is not known to refuse one.
Fits(i, g) == i.gpus # {} => g \in i.gpus
Families   == {i.family : i \in Final}
Members(f) == {i \in Final : i.family = f}

-----------------------------------------------------------------------------
(* The hardware.                                                           *)

\* stepQueryInstanceTypes asks for the zone of the request only.
Offers == {r \in Rows : request.zone \in {0, r.zone}}
ZonesOf(g)      == {r.zone : r \in {r \in Offers : r.gpu = g}}
CountsOf(g, z)  == {r.count : r \in {r \in Offers : r.gpu = g /\ r.zone = z}}
SpecsOf(g, z, n) == {r.spec : r \in {r \in Offers : r.gpu = g /\ r.zone = z /\ r.count = n}}

\* createInventoryPoolSupportFor: known to be refused, not merely unknown.
PoolRefused(g, z, pool) == sells[<<g, z, pool>>] = "no"

Supported == IF params.image = None \/ params.image \notin IdsOf(Catalog) THEN {}
             ELSE Image(params.image).gpus

\* gpuModelCreatable: zones in order, an unanswered one ends the search.
SurelyCreatable(g) ==
  \E z \in ZonesOf(g) : probe[<<g, z>>] = "yes" /\ \A y \in ZonesOf(g) : y < z => probe[<<g, y>>] = "no"
SurelyNot(g) == \A z \in ZonesOf(g) : probe[<<g, z>>] = "no"

\* A GPU the request names leaves itself and those its image supports.
GpuChoices == {g \in {r.gpu : r \in Offers} :
                 request.gpu # 0 => g = params.gpu \/ g \in Supported}

GpuEnabled ==
  {g \in GpuChoices :
     /\ Supported # {} => g \in Supported
     /\ ~\A z \in ZonesOf(g) : PoolRefused(g, z, params.charge)
     /\ ~(SurelyNot(g) /\ \E h \in GpuChoices : SurelyCreatable(h))}

\* imageContainerFitForZone
Unboxed(z) == z \in Pods /\ params.image \in IdsOf(Catalog) /\ ~Image(params.image).box

\* MUTANT: a zone that does not sell the pool is offered.
ZonesForgetPool(g) == {z \in ZonesOf(g) : probe[<<g, z>>] # "no" /\ ~Unboxed(z)}

ZoneFree(g) ==
  {z \in ZonesOf(g) : probe[<<g, z>>] # "no" /\ ~PoolRefused(g, z, params.charge) /\ ~Unboxed(z)}

\* With every zone refused the card stands down and offers them all.
ZoneEnabled(g) == IF ZoneFree(g) = {} THEN ZonesOf(g) ELSE ZoneFree(g)

Known(n)  == \E s \in Specs : capacity[<<n, s>>] # "unknown"
Enough(n) == \E s \in Specs : capacity[<<n, s>>] = "yes"

CountEnabled(z) ==
  LET all  == CountsOf(params.gpu, z)
      free == {n \in all : Known(n) => Enough(n)}
  IN IF free = {} THEN all ELSE free

SpecEnabled(z, n) ==
  LET all  == SpecsOf(params.gpu, z, n)
      free == {s \in all : capacity[<<n, s>>] # "no"}
  IN IF free = {} THEN all ELSE free

ChargeEnabled ==
  {c \in Pools : \E r \in Offers : ~PoolRefused(r.gpu, r.zone, c)}

-----------------------------------------------------------------------------
(* A card: answered with one of its options, and without one a dead end.   *)

Goto(s) == step' = s
Stops(o, r) == outcome' = o /\ reason' = r /\ step' = "done"
Kept == UNCHANGED <<request, replies, stood, ending>>

Answer(card, value, p, next) ==
  /\ answers' = [answers EXCEPT ![card] = value]
  /\ params' = p
  /\ Goto(next) /\ Kept

Skip(next) == Goto(next) /\ UNCHANGED <<params, answers>> /\ Kept

DeadEnd(options) ==
  /\ options = {}
  /\ Stops("dead end", step)
  /\ UNCHANGED <<request, params, replies, answers, stood, draft>>

\* Another source drops what was derived from the one before it.
FromSource(s) ==
  IF s = params.source THEN params
  ELSE [params EXCEPT !.source = s, !.facet = None, !.family = None, !.image = None]

ChooseSource ==
  /\ step = "source"
  /\ \/ params.image # None /\ Skip("requery")
     \/ /\ params.image = None
        /\ \E s \in {i.source : i \in Images} : Answer("source", s, FromSource(s), "requery")

\* The cards that narrow a public catalog, unless an image is asked for.
FacetsOf(S) == UNION {i.facets : i \in S}

ChooseFacets ==
  /\ step = "facets"
  /\ IF params.source \in Tenant \/ Explicit \/ FacetsOf(Base) = {}
     THEN Skip("family")
     ELSE \E f \in FacetsOf(Base) \cup {None} :
            /\ params' = [params EXCEPT !.facet = f, !.family = None]
            /\ Goto("family") /\ UNCHANGED answers /\ Kept

\* A family is asked for where there is a choice, and one has versions.
AsksFamily == ~Explicit /\ Cardinality(Families) > 1 /\ \E f \in Families : Cardinality(Members(f)) > 1
FamilyEnabled == {f \in Families : params.gpu # 0 => \E i \in Members(f) : Fits(i, params.gpu)}

FromFamily(f) ==
  [params EXCEPT !.family = f,
                 !.image = IF Cardinality(Members(f)) = 1 THEN (CHOOSE i \in Members(f) : TRUE).id
                           ELSE None]

ChooseFamily ==
  /\ step = "family"
  /\ IF AsksFamily
     THEN \/ \E f \in FamilyEnabled : Answer("family", f, FromFamily(f), "image")
          \/ DeadEnd(FamilyEnabled)
     ELSE Skip("image")

\* An image picked before the GPU is not held against the GPU asked for.
ImageEnabled ==
  {i \in Final : params.image = None /\ params.gpu # 0 => Fits(i, params.gpu)}

ChooseImage ==
  /\ step = "image"
  /\ IF params.image # None /\ answers.family # None
     THEN Skip("charge")
     ELSE \/ \E i \in ImageEnabled :
               Answer("image", i.id, [params EXCEPT !.image = i.id], "charge")
          \/ DeadEnd(ImageEnabled)

ChooseCharge ==
  /\ step = "charge"
  /\ IF params.charge = "spot" /\ ChargeEnabled = {"spot"}
     THEN Skip("probe")
     ELSE \/ \E c \in ChargeEnabled : Answer("charge", c, [params EXCEPT !.charge = c], "probe")
          \/ DeadEnd(ChargeEnabled)

\* Skipped only if the request settles the GPU, and everything after it.
SkipGpu ==
  /\ request.gpu # 0 /\ GpuEnabled = {params.gpu} /\ params.gpu \in Supported
  /\ request.zone # 0 /\ request.count # 0 /\ request.spec # 0

\* Another GPU than the card's default drops what was chosen for it.
FromGpu(g) ==
  IF g = IF params.gpu = 0 THEN Min(GpuEnabled) ELSE params.gpu
  THEN [params EXCEPT !.gpu = g]
  ELSE [params EXCEPT !.gpu = g, !.zone = 0, !.count = 0, !.spec = 0,
                      !.image = IF Supported # {} /\ g \notin Supported THEN None ELSE @]

ChooseGpu ==
  /\ step = "gpu"
  /\ IF SkipGpu THEN Skip("zone")
     ELSE \/ \E g \in GpuEnabled : Answer("gpu", g, FromGpu(g), "zone")
          \/ DeadEnd(GpuEnabled)

SkipZone == request.zone # 0 /\ params.gpu # 0 /\ ZoneEnabled(params.gpu) = {params.zone}

\* ensureGuidedZone: the default is written before the card is shown.
Default(current, enabled) == IF current \in enabled THEN current ELSE Min(enabled)

FromZone(z) ==
  IF z = Default(params.zone, ZoneEnabled(params.gpu))
  THEN [params EXCEPT !.zone = z]
  ELSE [params EXCEPT !.zone = z, !.count = 0, !.spec = 0]

ChooseZone ==
  /\ step = "zone"
  /\ stood' = (ZoneFree(params.gpu) = {})
  /\ IF SkipZone
     THEN UNCHANGED <<params, answers, outcome, reason>> /\ Goto("capacity")
     ELSE \/ \E z \in ZoneEnabled(params.gpu) :
               /\ answers' = [answers EXCEPT !.zone = z]
               /\ params' = FromZone(z)
               /\ Goto("capacity") /\ UNCHANGED <<outcome, reason>>
          \/ /\ ZoneEnabled(params.gpu) = {}
             /\ Stops("dead end", step) /\ UNCHANGED <<params, answers>>
  /\ UNCHANGED <<request, replies, draft>>

\* Each card writes the defaults of those before it once more.
ZoneNow  == Default(params.zone, ZoneEnabled(params.gpu))
CountNow == Default(params.count, CountEnabled(ZoneNow))

SkipCount == request.count # 0 /\ CountEnabled(params.zone) = {params.count}

FromCount(n) ==
  IF n = CountNow
  THEN [params EXCEPT !.zone = ZoneNow, !.count = n]
  ELSE [params EXCEPT !.zone = ZoneNow, !.count = n, !.spec = 0]

ChooseCount ==
  /\ step = "count"
  /\ IF SkipCount THEN Skip("spec")
     ELSE \/ \E n \in CountEnabled(ZoneNow) : Answer("count", n, FromCount(n), "spec")
          \/ DeadEnd(CountEnabled(ZoneNow))

\* MUTANT: any value of the request skips its card.
SkipsPrefilled == request.spec # 0 /\ params.spec # 0

SkipSpec == request.spec # 0 /\ SpecEnabled(params.zone, params.count) = {params.spec}

FromSpec(s) == [params EXCEPT !.zone = ZoneNow, !.count = CountNow, !.spec = s]

ChooseSpec ==
  /\ step = "spec"
  /\ IF SkipSpec THEN Skip("draft")
     ELSE \/ \E s \in SpecEnabled(ZoneNow, CountNow) : Answer("spec", s, FromSpec(s), "draft")
          \/ DeadEnd(SpecEnabled(ZoneNow, CountNow))

(* The user cancels at a card.                                             *)
Cancel ==
  /\ step \in {"source", "facets", "family", "image", "charge", "gpu", "zone", "count", "spec", "confirm"}
  /\ Stops("cancelled", step)
  /\ UNCHANGED <<request, params, replies, answers, stood, draft>>

-----------------------------------------------------------------------------
(* The queries about hardware, each of which may go unanswered.            *)

QueryInventory ==
  /\ step = "inventory"
  /\ sells' \in Sells
  /\ Goto("source")
  /\ UNCHANGED <<request, params, catalog, probe, capacity, answers, stood, ending>>

\* A data disk cannot be had in a container zone.
Disks(z) == z \in Pods => ~params.disk

Probed ==
  {c \in Gpus \X Zones :
     /\ c[2] \in ZonesOf(c[1]) /\ Disks(c[2])
     /\ IF SkipGpu THEN c[1] = params.gpu ELSE Supported # {} => c[1] \in Supported}

Probe ==
  /\ step = "probe"
  /\ IF SkipGpu /\ SkipZone THEN UNCHANGED probe
     ELSE \E f \in Probes : probe' = [c \in Gpus \X Zones |-> IF c \in Probed THEN f[c] ELSE "unknown"]
  /\ Goto("gpu")
  /\ UNCHANGED <<request, params, catalog, sells, capacity, answers, stood, ending>>

\* resolveTargetSpec: a specification of the catalog, of one card by default.
Resolves ==
  LET legal == SpecsOf(params.gpu, params.zone, IF params.count = 0 THEN 1 ELSE params.count)
  IN legal # {} /\ (params.spec # 0 => params.spec \in legal)

QueryCapacity ==
  /\ step = "capacity"
  /\ IF Resolves /\ Disks(params.zone)
     THEN capacity' \in {[c \in Counts \X Specs |->
                            IF c[2] \in SpecsOf(params.gpu, params.zone, c[1]) THEN f[c] ELSE "unknown"]
                         : f \in Capacities}
     ELSE UNCHANGED capacity
  /\ Goto("count")
  /\ UNCHANGED <<request, params, catalog, sells, probe, answers, stood, ending>>

-----------------------------------------------------------------------------
(* materializeCreateDraft: the first rule the answers break, in its order. *)

Refusal ==
  LET z == params.zone IN
  IF ~Resolves THEN "spec"
  ELSE IF params.image \notin IdsOf(Catalog) THEN "image"
  ELSE IF PoolRefused(params.gpu, z, params.charge) THEN "pool"
  ELSE IF Unboxed(z) THEN "container"
  ELSE IF z \notin Image(params.image).zones THEN "type"
  ELSE IF ~Fits(Image(params.image), params.gpu) THEN "gpu"
  ELSE IF ~Disks(z) THEN "disk" ELSE None

ResolveDraft ==
  /\ step = "draft"
  /\ IF Refusal = None
     THEN draft' = params /\ Goto("check") /\ UNCHANGED <<outcome, reason>>
     ELSE Stops("refused", Refusal) /\ UNCHANGED draft
  /\ UNCHANGED <<request, params, replies, answers, stood>>

(* checkExactCreateCapacity and the price: the draft's own specification   *)
(* has to be listed and in stock, and a card needs a price.                *)
Check ==
  /\ step = "check"
  /\ \/ Goto("confirm") /\ UNCHANGED <<outcome, reason>>
     \/ \E r \in {"sold out", "not listed", "no price"} : Stops("failed", r)
  /\ UNCHANGED <<request, params, replies, answers, stood, draft>>

(* The last card edits nothing: its yes creates what the draft says.       *)
Create ==
  /\ step = "confirm"
  /\ Stops("created", "none")
  /\ UNCHANGED <<request, params, replies, answers, stood, draft>>

Next ==
  \/ QueryImages \/ QueryInventory \/ ChooseSource \/ Requery \/ Browse
  \/ ChooseFacets \/ ChooseFamily \/ ChooseImage \/ ChooseCharge \/ Probe
  \/ ChooseGpu \/ ChooseZone \/ QueryCapacity \/ ChooseCount \/ ChooseSpec
  \/ ResolveDraft \/ Check \/ Create \/ Cancel

Spec == Init /\ [][Next]_vars

-----------------------------------------------------------------------------
(* "A card must never offer a mode the gate will refuse": once every card  *)
(* is answered, the gate refuses only what no card asks about -- the type  *)
(* of the image in the zone, a data disk in a container zone -- or a zone  *)
(* of a card that stood down because nothing it had left was free.         *)
CardsForeseeRefusals ==
  outcome = "refused" =>
    reason \in {"type", "disk"} \/ (stood /\ reason \in {"pool", "container"})

(* The draft is what the user chose.  Each value of the hardware is the last *)
(* answer to its card, or the request's where the card had nothing else to *)
(* offer.  The image is of the source that was settled, has what the cards  *)
(* narrowed the list to, and is among what that source lists, answers for  *)
(* the name, or was asked for exactly and verified.  Defaults are written  *)
(* before a card is shown and dependants cleared after it, and the catalog *)
(* is fetched up to three times and replaced as the source changes: a later *)
(* card could replace what an earlier one was answered.                    *)
DraftIsChosen ==
  draft # NoDraft =>
    LET settled(card, enabled) ==
          IF answers[card] # 0 THEN draft[card] = answers[card]
          ELSE draft[card] = request[card] /\ enabled = {draft[card]}
        i == Image(draft.image)
    IN /\ settled("gpu", GpuEnabled) /\ settled("zone", ZoneEnabled(draft.gpu))
       /\ settled("count", CountEnabled(draft.zone))
       /\ settled("spec", SpecEnabled(draft.zone, draft.count))
       /\ answers.image \in {draft.image, None}
       /\ answers.charge \in {draft.charge, None}
       /\ i.source = draft.source
       /\ answers.source \in {draft.source, None}
       /\ draft.facet # None => draft.facet \in i.facets
       /\ draft.family # None => i.family = draft.family
       /\ i.listed \/ i.id = request.image \/ request.name # None

(* Both: the cards lead to what was chosen, and not to a late refusal.     *)
CardsDecideTheDraft == CardsForeseeRefusals /\ DraftIsChosen
=============================================================================
