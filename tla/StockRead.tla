------------------------------- MODULE StockRead -------------------------------
(***************************************************************************)
(* The stock capability (capability/read_stock.go) and the inventory       *)
(* snapshot it merges (deployment/gpu_inventory.go): one read of what is   *)
(* sold, in which zones, in which numbers and with what spare capacity,    *)
(* assembled from the answers of six upstream actions, any of which may    *)
(* fail or answer for a part only.                                         *)
(*                                                                         *)
(* The inventory has two backends: the official one answers for the VM     *)
(* zones and the Pod one for the container zones, and each may return rows *)
(* about zones that are not its own.  An answer is a record of rows        *)
(* <<pool, zone, model>> -> cards and of the models without a spot pool; a *)
(* catalogue is a sequence of rows <<model, zone, status>>.                *)
(***************************************************************************)
EXTENDS Naturals, Sequences

CONSTANTS
  Models, Zones, Pods,
  Requests,      \* [gpu, zones, pool, image]; an image is the catalogue that has it
  Catalogs,      \* answers of DescribeAvailableCompShareInstanceTypes
  ZoneLists,     \* answers of DescribeCompShareSupportZone
  Inventories,   \* answers of DescribeCompShareGpuInventory, with came |-> TRUE
  MaxPages, Pages, \* bound of FetchAll, pages of the tenant's image list
  None

NoZone == 0      \* a row without a zone, a claim about every zone
Pools  == {"exclusive", "spot"}
Statuses == {"normal", "soldout"}
Results  == {"enough", "short", "empty", "failed"}
ImageSources == <<"platform", "community", "custom", "sharing">>

VARIABLES
  stage,    \* what is asked next
  req,      \* the request
  catalog,  \* the rows of the instance type catalogue
  listed,   \* the zones of the zone catalogue, {} when it could not be read
  answers,  \* the answer of each inventory backend, NoAnswer when there is none
  source,   \* which image catalogue is asked, and how many of its pages were read
  left,     \* the rows still to be checked for capacity, by their place
  checks,   \* the capacity checks made: [model, zone, result]
  reply     \* the status of the read and the claims it makes

vars == <<stage, req, catalog, listed, answers, source, left, checks, reply>>

\* What the read may be given: a zone is never NoZone, and rows are what they say.
StockConstants ==
  /\ NoZone \notin Zones
  /\ \A r \in Requests : r.pool \in Pools \cup {"any"} /\ NoZone \notin r.zones
  /\ Catalogs \subseteq Seq(Models \X (Zones \cup {NoZone}) \X Statuses)
  /\ ZoneLists \subseteq SUBSET Zones
  /\ \A a \in Inventories :
       /\ a.came
       /\ \A c \in DOMAIN a.rows : c \in Pools \X Zones \X Models /\ a.rows[c] \in Nat

NoAnswer == [came |-> FALSE, rows |-> [c \in {} |-> 0], noSpot |-> {}]
Silent == [status |-> "none", claims |-> {}]

Init ==
  /\ stage = "catalog"
  /\ req \in Requests
  /\ catalog = <<>>
  /\ listed = {}
  /\ answers = [official |-> NoAnswer, pod |-> NoAnswer]
  /\ source = [at |-> 1, page |-> 0]
  /\ left = {}
  /\ checks = {}
  /\ reply = Silent

-----------------------------------------------------------------------------
(* What the catalogue says.                                                *)

Names   == {catalog[i][1] : i \in DOMAIN catalog}
Matched == Names \cap {req.gpu}

\* The rows on sale of the model that was asked for, by their place; a row is taken once.
Entries ==
  {i \in DOMAIN catalog : /\ catalog[i][1] \in Matched /\ catalog[i][3] = "normal"
                          /\ \A j \in 1..(i - 1) : catalog[j] # catalog[i]}
InZones == {i \in Entries : req.zones = {} \/ catalog[i][2] \in req.zones}
Unmatched == req.zones \ listed

\* The listing shows a model once, with the status of its first row.
FirstStatus(m) ==
  catalog[CHOOSE i \in DOMAIN catalog :
            catalog[i][1] = m /\ \A j \in 1..(i - 1) : catalog[j][1] # m][3]

-----------------------------------------------------------------------------
(* The merged inventory.                                                   *)

Answered(z) == z \in listed /\ (IF z \in Pods THEN answers.pod ELSE answers.official).came

\* MUTANT: rows of the other backend's zones are kept.
MergeForeign(answer, own) ==
  [c \in {d \in DOMAIN answer.rows : d[2] \in listed} |-> answer.rows[c]]

\* Rows of the backend that is not the zone's own are dropped when it is merged.
Merge(answer, own) ==
  [c \in {d \in DOMAIN answer.rows : d[2] \in own \cap listed} |-> answer.rows[c]]

Counts ==
  LET o == Merge(answers.official, Zones \ Pods)
      p == Merge(answers.pod, Pods)
  IN  [c \in DOMAIN o \cup DOMAIN p |-> IF c \in DOMAIN p THEN p[c] ELSE o[c]]

Present(p, z, m) == Answered(z) /\ <<p, z, m>> \in DOMAIN Counts
Cards(p, z, m)   == IF Present(p, z, m) THEN Counts[<<p, z, m>>] ELSE 0

\* Whether the zone sells the model from the pool: "yes", "no" or "unknown".
PoolSupported(z, m, p) ==
  IF ~ Answered(z) THEN "unknown"
  ELSE IF z \notin Pods THEN
         IF p = "spot" /\ m \in answers.official.noSpot THEN "no" ELSE "yes"
  ELSE IF Present(p, z, m) THEN "yes"
  ELSE IF \E q \in Pools : Present(q, z, m) THEN "no"
  ELSE "unknown"

Claim(kind, m, z, p) == [kind |-> kind, model |-> m, zone |-> z, pool |-> p]

Numbers(z, m) ==
  IF Cards("exclusive", z, m) + Cards("spot", z, m) > 0 THEN "cards" ELSE "zero"

\* The rows of the raw snapshot, of the pool that was asked for or of both.
InventoryRow(z, m) ==
  Claim(IF ~ Answered(z) THEN "down"
        ELSE IF req.pool \in Pools
             THEN IF PoolSupported(z, m, req.pool) = "no" THEN "unsupported"
                  ELSE IF ~ Present(req.pool, z, m) THEN "noRow"
                  ELSE IF Cards(req.pool, z, m) = 0 THEN "zero" ELSE "cards"
             ELSE IF \E p \in Pools : Present(p, z, m) THEN Numbers(z, m) ELSE "noRow",
        m, z, req.pool)
InventoryRows(models) ==
  LET shown == IF req.zones = {} THEN listed ELSE listed \cap req.zones
  IN  IF req.zones = {} /\ ~ answers.official.came /\ ~ answers.pod.came THEN {}
      ELSE {InventoryRow(z, m) : z \in shown, m \in models}

\* The quantity on a line of the plain listing: the sum over the zones that answered.
Totals(m) ==
  LET told == {z \in listed : \E p \in Pools : Present(p, z, m)}
  IN  IF told = {} THEN {}
      ELSE {Claim(IF \E z \in told : Numbers(z, m) = "cards" THEN "cards" ELSE "zero", m, NoZone, "any")}

-----------------------------------------------------------------------------
(* The replies.                                                            *)

Ends(status, claims) ==
  /\ stage' = "done"
  /\ reply' = [status |-> status, claims |-> claims]

Listing ==
  LET shown == IF Matched = {} THEN Names ELSE Matched
  IN  (IF Matched = {} /\ req.gpu # None THEN {Claim("notFound", req.gpu, NoZone, "any")} ELSE {})
      \cup {Claim(FirstStatus(m), m, NoZone, "any") : m \in shown}
      \cup UNION {Totals(m) : m \in shown}

ScopedListing ==
  InventoryRows({catalog[i][1] : i \in {j \in DOMAIN catalog :
                   catalog[j][3] = "normal" /\ catalog[j][2] \in req.zones}})

\* One line for each check, one for all of them.
Summary(made) ==
  { Claim("passed", c.model, c.zone, req.pool) : c \in {d \in made : d.result = "enough"} }
  \cup { Claim("notPassed", c.model, c.zone, req.pool) : c \in {d \in made : d.result = "short"} }
  \cup { Claim("incomplete", c.model, c.zone, req.pool) : c \in {d \in made : d.result \in {"failed", "empty"}} }
  \cup { Claim(IF \E d \in made : d.result = "enough" THEN "creatable"
                ELSE IF \A d \in made : d.result \in {"failed", "empty"} THEN "onSale"
                ELSE "sampleNegative", m, NoZone, req.pool) : m \in {c.model : c \in made} }

\* A model's first row among those that were to be checked.
FirstZoneOf(m) ==
  catalog[CHOOSE i \in InZones :
            catalog[i][1] = m /\ \A j \in InZones : catalog[j][1] = m => i <= j][2]
NotRun ==
  Summary({[model |-> m, zone |-> FirstZoneOf(m), result |-> "failed"] :
             m \in {catalog[i][1] : i \in InZones}})

\* The pool that was asked for: pairs that do not sell from it are taken out.
PoolRow(z, m) ==
  Claim(IF PoolSupported(z, m, req.pool) = "no" THEN "unsupported"
        ELSE IF PoolSupported(z, m, req.pool) = "unknown" THEN "unconfirmed"
        ELSE IF ~ Present(req.pool, z, m) THEN "noRow"
        ELSE IF Cards(req.pool, z, m) = 0 THEN "zero" ELSE "cards", m, z, req.pool)
Eligible(made) == {c \in made : PoolSupported(c.zone, c.model, req.pool) # "no"}
Beside(made) ==
  { Claim(Numbers(c.zone, c.model), c.model, c.zone, "any") :
      c \in {d \in made : d.result = "enough" /\ \E p \in Pools : Present(p, d.zone, d.model)} }
Checked(made) ==
  IF req.pool \in Pools
  THEN Summary(Eligible(made)) \cup {PoolRow(c.zone, c.model) : c \in made}
  ELSE Summary(made) \cup Beside(made)

-----------------------------------------------------------------------------
(* The steps of stockHandle.                                               *)

AskCatalog ==
  /\ stage = "catalog"
  /\ \/ \E c \in Catalogs :
          /\ catalog' = c
          /\ IF c = <<>> THEN Ends("empty", {}) ELSE stage' = "zones" /\ UNCHANGED reply
     \/ Ends("failure", {}) /\ UNCHANGED catalog
  /\ UNCHANGED <<req, listed, answers, source, left, checks>>

\* An empty zone catalogue counts as one that could not be read.  A request that
\* names no zone and matches nothing on sale goes on without it.
AskZones ==
  /\ stage = "zones"
  /\ \E zs \in ZoneLists \cup {{}} :
       /\ listed' = zs
       /\ IF zs = {}
          THEN IF Entries # {} \/ req.zones # {} THEN Ends("failure", {})
               ELSE stage' = "inventoried" /\ UNCHANGED reply
          ELSE IF req.zones \ zs # {} /\ Entries # {} THEN Ends("needsInput", {})
               ELSE stage' = "official" /\ UNCHANGED reply
  /\ UNCHANGED <<req, catalog, answers, source, left, checks>>

\* Any zone of the Pod backend selects it; without one it is not asked.
AskOfficial ==
  /\ stage = "official"
  /\ \E a \in Inventories \cup {NoAnswer} : answers' = [answers EXCEPT !.official = a]
  /\ stage' = IF listed \cap Pods # {} THEN "pod" ELSE "inventoried"
  /\ UNCHANGED <<req, catalog, listed, source, left, checks, reply>>

AskPod ==
  /\ stage = "pod"
  /\ \E a \in Inventories \cup {NoAnswer} : answers' = [answers EXCEPT !.pod = a]
  /\ stage' = "inventoried"
  /\ UNCHANGED <<req, catalog, listed, source, left, checks, reply>>

\* Nothing on sale matches: a listing, of the zones that were named or of all.
AnswerListing ==
  /\ stage = "inventoried" /\ Entries = {}
  /\ IF Unmatched # {} THEN Ends("needsInput", {})
     ELSE IF req.zones # {} /\ req.gpu = None THEN Ends("handled", ScopedListing)
     ELSE Ends("handled", Listing)
  /\ UNCHANGED <<req, catalog, listed, answers, source, left, checks>>

Precheck ==
  /\ stage = "inventoried" /\ Entries # {}
  /\ IF InZones = {}
     THEN /\ Ends("handled", {Claim("notOffered", req.gpu, z, req.pool) : z \in req.zones}
                             \cup InventoryRows(Matched))
          /\ UNCHANGED left
     ELSE stage' = "image" /\ left' = InZones /\ UNCHANGED reply
  /\ UNCHANGED <<req, catalog, listed, answers, source, checks>>

\* Without an image there is no check; the snapshot is shown beside that.
NoImage == Ends("handled", NotRun \cup InventoryRows(Matched))

\* Any available system image serves as the sample of a request that names none.
SampleImage ==
  /\ stage = "image" /\ req.image = None
  /\ \/ stage' = "check" /\ UNCHANGED reply
     \/ NoImage
  /\ UNCHANGED <<req, catalog, listed, answers, source, left, checks>>

\* An image that is named is looked for in one catalogue after the other; a
\* failure of one is passed over.  The two lists of the tenant are read page by
\* page, whole or not at all.
NextSource ==
  IF source.at = Len(ImageSources) THEN NoImage /\ UNCHANGED source
  ELSE source' = [at |-> source.at + 1, page |-> 0] /\ UNCHANGED <<stage, reply>>
FindImage ==
  /\ stage = "image" /\ req.image # None
  /\ LET name  == ImageSources[source.at]
         paged == name \in {"custom", "sharing"}
         here  == req.image = name
     IN  \/ NextSource
         \/ /\ ~ paged \/ source.page + 1 = Pages
            /\ here
            /\ stage' = "check" /\ UNCHANGED <<source, reply>>
         \/ /\ paged /\ source.page + 1 < Pages /\ source.page + 1 < MaxPages
            /\ source' = [source EXCEPT !.page = @ + 1]
            /\ UNCHANGED <<stage, reply>>
  /\ UNCHANGED <<req, catalog, listed, answers, left, checks>>

\* One check for each row with a zone.  With an image that is named, a row whose
\* system disk is unknown is not checked.
CheckNext ==
  /\ stage = "check"
  /\ \E i \in left :
       /\ \A j \in left : i <= j
       /\ left' = left \ {i}
       /\ IF catalog[i][2] = NoZone THEN UNCHANGED checks
          ELSE \E r \in Results :
                 checks' = checks \cup {[model |-> catalog[i][1], zone |-> catalog[i][2], result |-> r]}
  /\ UNCHANGED <<stage, req, catalog, listed, answers, source, reply>>

AnswerChecks ==
  /\ stage = "check" /\ left = {}
  /\ IF checks = {}
     THEN Ends("handled", NotRun \cup InventoryRows(Matched))
     ELSE Ends("handled", Checked(checks))
  /\ UNCHANGED <<req, catalog, listed, answers, source, left, checks>>

Next ==
  \/ AskCatalog \/ AskZones \/ AskOfficial \/ AskPod \/ AnswerListing \/ Precheck
  \/ SampleImage \/ FindImage \/ CheckNext \/ AnswerChecks

Spec == Init /\ [][Next]_vars

-----------------------------------------------------------------------------
(* Properties.                                                             *)

\* What the backend that owns the zone returned about the pair, by pool; the
\* pools it left out are missing.
Told(z, m) ==
  LET a == IF z \in Pods THEN answers.pod ELSE answers.official
  IN  {<<p, a.rows[<<p, z, m>>]>> : p \in {q \in Pools : <<q, z, m>> \in DOMAIN a.rows}}
About(c) == IF c.zone = NoZone THEN UNION {Told(z, c.model) : z \in listed} ELSE Told(c.zone, c.model)
OfPool(c) == {t \in About(c) : c.pool \in {t[1], "any"}}

Grounded(c) ==
  /\ c.kind = "zero"  => OfPool(c) # {} /\ \A t \in OfPool(c) : t[2] = 0
  /\ c.kind = "cards" => \E t \in OfPool(c) : t[2] > 0
  /\ c.kind = "unsupported" =>
       IF c.zone \in Pods THEN About(c) # {} /\ OfPool(c) = {}
       ELSE answers.official.came /\ c.model \in answers.official.noSpot /\ c.pool = "spot"
  /\ c.kind = "passed"    => [model |-> c.model, zone |-> c.zone, result |-> "enough"] \in checks
  /\ c.kind = "notPassed" => [model |-> c.model, zone |-> c.zone, result |-> "short"] \in checks
  /\ c.kind = "notOffered" => \A i \in DOMAIN catalog : catalog[i] # <<c.model, c.zone, "normal">>
  /\ c.kind = "notFound"   => \A i \in DOMAIN catalog : catalog[i][1] # c.model

Scoped(c) == req.zones = {} \/ c.zone \in req.zones \cup {NoZone}

(* No shortage is invented: a number, a zero or a pool that is not sold is   *)
(* what the backend that owns the zone answered in this read, a check is     *)
(* reported as passed or not as it ended, and what is said to be missing     *)
(* from the catalogue is; about the zones that were asked for and no other,  *)
(* and not at all when one of them is unknown.                               *)
NoInventedShortage ==
  /\ \A c \in reply.claims : Grounded(c) /\ Scoped(c)
  /\ Unmatched # {} /\ stage = "done" => reply.claims = {}
=============================================================================
