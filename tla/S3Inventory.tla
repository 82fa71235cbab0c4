----------------------------- MODULE S3Inventory -----------------------------
(***************************************************************************)
(* The S3 inventory: for each bucket the init container lists the current  *)
(* objects and then all versions, and aws_s3_finops_collector.py publishes *)
(* what it counts and what a lifecycle policy would cost.  The objects go  *)
(* on changing while they are listed.  Days are counted, and costs are in  *)
(* prices of a byte and a day.                                             *)
(***************************************************************************)
EXTENDS Integers, Sequences, FiniteSetsExt, Functions

CONSTANTS BUCKETS,          \* in the order of the loop
          BucketOf,         \* BucketOf[key]
          Incoming,         \* the keys with the prefix of the quarantine bucket
          Sizes,
          STANDARD_IA_DAYS, GLACIER_IR_DAYS, MIN_BILLABLE_BYTES, PRICES, HORIZONS,
          MAX_VERSIONS,     \* bound on the versions ever made
          LAST_DAY          \* bound on the days

Keys == DOMAIN BucketOf
Classes == {"Standard", "StandardIA", "GlacierIR"}
Policies == {"disabled", "enabled"}

ASSUME InventoryConstants ==
  /\ BUCKETS \in Seq(STRING) \ {<<>>}
  /\ \A k \in Keys : \E b \in DOMAIN BUCKETS : BUCKETS[b] = BucketOf[k]
  /\ Sizes \subseteq Nat /\ MIN_BILLABLE_BYTES \in Nat
  /\ STANDARD_IA_DAYS \in Nat /\ GLACIER_IR_DAYS \in Nat
  /\ STANDARD_IA_DAYS <= GLACIER_IR_DAYS
  /\ PRICES \in [Classes -> Nat]
  /\ HORIZONS \subseteq Nat /\ 0 \in HORIZONS
  /\ MAX_VERSIONS \in Nat /\ LAST_DAY \in Nat

Marker == -1    \* in the place of the size: a delete marker
NotPublished == [at |-> -1]

VARIABLES store,      \* the versions and delete markers of all buckets
          made,       \* how many were ever made
          day,
          stage,      \* what the attempt does next: "idle", "current", "versions", "collect"
          place,      \* the bucket it is at
          current,    \* what it has listed, the files of its emptyDir
          noncurrent,
          published,  \* the group of the inventory in the Pushgateway
          throughout, \* the versions that are there since the attempt began
          ever,       \* those that were there at some time since
          madeBefore  \* how many had been made when it began

attempt == <<stage, place, current, noncurrent>>
history == <<throughout, ever, madeBefore>>
vars == <<store, made, day, attempt, published, history>>

Init == /\ store = {} /\ made = 0 /\ day = 0
        /\ stage = "idle" /\ place = 1 /\ current = {} /\ noncurrent = {}
        /\ published = NotPublished
        /\ throughout = {} /\ ever = {} /\ madeBefore = 0

-----------------------------------------------------------------------------
(* The buckets, with versioning and lifecycle rules. *)

IsLatest(v) == \A w \in store : w.key = v.key => w.id <= v.id

Store(objects) == /\ store' = objects
                  /\ IF stage = "idle" THEN UNCHANGED <<throughout, ever>>
                     ELSE throughout' = throughout \cap objects /\ ever' = ever \cup objects
                  /\ UNCHANGED <<day, attempt, published, madeBefore>>

\* An upload, or with Marker a deletion.
Put(key, size) ==
  /\ made < MAX_VERSIONS
  /\ size = Marker => \E v \in store : v.key = key /\ IsLatest(v) /\ v.size # Marker
  /\ made' = made + 1
  /\ Store(store \cup {[id |-> made', key |-> key, size |-> size, born |-> day]})

ExpireNoncurrent(v) == /\ v \in store
                       /\ ~IsLatest(v)
                       /\ Store(store \ {v})
                       /\ UNCHANGED made

Tick == /\ day < LAST_DAY
        /\ day' = day + 1
        /\ UNCHANGED <<store, made, attempt, published, history>>

-----------------------------------------------------------------------------
(* The attempt: one Pod of the CronJob, with an emptyDir of its own. *)

Start == /\ stage = "idle"
         /\ stage' = "current"
         /\ throughout' = store /\ ever' = store /\ madeBefore' = made
         /\ UNCHANGED <<store, made, day, place, current, noncurrent, published>>

\* The Pod is gone, and its files with it.
End == /\ stage' = "idle" /\ place' = 1 /\ current' = {} /\ noncurrent' = {}
       /\ throughout' = {} /\ ever' = {} /\ madeBefore' = 0
       /\ UNCHANGED <<store, made, day>>

Objects == {v \in store : v.size # Marker /\ BucketOf[v.key] = BUCKETS[place]}

Contents == {v \in Objects : IsLatest(v)}

\* The older versions of what the other list has.
MutantVersions == {v \in Objects : ~IsLatest(v) /\ \E c \in current : c.key = v.key}
MutantAllVersions == Objects

Versions == {v \in Objects : ~IsLatest(v)}

ListCurrent == /\ stage = "current"
               /\ current' = current \cup Contents
               /\ stage' = "versions"
               /\ UNCHANGED <<store, made, day, place, noncurrent, published, history>>

ListVersions == /\ stage = "versions"
                /\ noncurrent' = noncurrent \cup Versions
                /\ IF place < Len(BUCKETS) THEN stage' = "current" /\ place' = place + 1
                                           ELSE stage' = "collect" /\ UNCHANGED place
                /\ UNCHANGED <<store, made, day, current, published, history>>

\* A failed request, a bad file or a PUT that is refused, at any place; nothing
\* is pushed then.  The Job's next Pod, or the next Job, begins again.
PodFails == /\ stage # "idle"
            /\ End
            /\ UNCHANGED published

-----------------------------------------------------------------------------
(* The what-if of the lifecycle policy. *)

BillableBytes(size, class) ==
  IF class \in {"StandardIA", "GlacierIR"} THEN Max({size, MIN_BILLABLE_BYTES}) ELSE size

TargetClass(age, policy) == IF policy = "disabled" THEN "Standard"
                            ELSE IF age >= GLACIER_IR_DAYS THEN "GlacierIR"
                            ELSE IF age >= STANDARD_IA_DAYS THEN "StandardIA"
                            ELSE "Standard"

\* The price of the cohort's bytes for a day in one class.
CohortPrice(cohort, class) ==
  PRICES[class] * SumFunction([v \in cohort |-> BillableBytes(v.size, class)])

MutantCost(cohort, policy, horizon) ==
  LET In(class) == {v \in cohort : TargetClass(horizon, policy) = class}
  IN SumFunction([class \in Classes |-> CohortPrice(In(class), class)])

\* whatif_monthly_cost, as the price of one of its days.
Cost(cohort, policy, horizon) ==
  LET In(class) == {v \in cohort : TargetClass(day - v.born + horizon, policy) = class}
  IN SumFunction([class \in Classes |-> CohortPrice(In(class), class)])

MutantClassDays(horizon) ==
  [Standard   |-> Min({horizon, STANDARD_IA_DAYS}),
   StandardIA |-> Max({Min({horizon, GLACIER_IR_DAYS}) - STANDARD_IA_DAYS, 0}),
   GlacierIR  |-> Max({horizon - STANDARD_IA_DAYS, 0})]

ClassDays(horizon) ==
  [Standard   |-> Min({horizon, STANDARD_IA_DAYS}),
   StandardIA |-> Max({Min({horizon, GLACIER_IR_DAYS}) - STANDARD_IA_DAYS, 0}),
   GlacierIR  |-> Max({horizon - GLACIER_IR_DAYS, 0})]

\* cumulative_cohort_storage_cost, for a cohort made on day zero.
CumulativeCost(cohort, policy, horizon) ==
  IF policy = "disabled" THEN horizon * CohortPrice(cohort, "Standard")
  ELSE SumFunction([class \in Classes |-> ClassDays(horizon)[class] * CohortPrice(cohort, class)])

Cohort(listed) == {v \in listed : v.key \in Incoming}

InventoryMetrics ==
  [at         |-> day,
   current    |-> current,
   noncurrent |-> noncurrent,
   cost       |-> [p \in Policies |-> [h \in HORIZONS |-> Cost(Cohort(current), p, h)]],
   cumulative |-> [p \in Policies |-> [h \in HORIZONS |-> CumulativeCost(Cohort(current), p, h)]]]

\* The PUT replaces the group; when its answer is lost, the next Pod repeats it.
Publish == /\ stage = "collect"
           /\ published' = InventoryMetrics
           /\ End

RestartGateway == /\ published' = NotPublished
                  /\ UNCHANGED <<store, made, day, attempt, history>>

Next == \/ \E k \in Keys, size \in Sizes \cup {Marker} : Put(k, size)
        \/ \E v \in store : ExpireNoncurrent(v)
        \/ Tick
        \/ Start \/ ListCurrent \/ ListVersions \/ Publish \/ PodFails
        \/ RestartGateway

Spec == Init /\ [][Next]_vars
-----------------------------------------------------------------------------
(* Properties. *)

\* Two lists of two moments, bucket after bucket, are published as one inventory:
\* it has every version that was there all along, whatever was uploaded, deleted
\* and expired meanwhile, and no version that was not there in this attempt.
WholeInventory ==
  [][published' # NotPublished =>
       LET counted == published'.current \cup published'.noncurrent
       IN {v \in throughout : v.size # Marker} \subseteq counted /\ counted \subseteq ever]_published

\* A version is counted as current and as noncurrent only if it was replaced
\* between the two lists, by an upload or a deletion during the attempt.
CountedOnce ==
  [][published' # NotPublished =>
       \A v \in published'.current \cap published'.noncurrent :
         \E w \in ever : w.key = v.key /\ w.id > madeBefore]_published

\* The forecast comes true: if the cohort does not change for as many days as a
\* horizon has, the cost published then is the cost forecast for that horizon.
ForecastHolds ==
  [][LET elapsed == published'.at - published.at
     IN published # NotPublished /\ published' # NotPublished /\ elapsed \in HORIZONS
          /\ Cohort(published.current) = Cohort(published'.current) =>
        \A p \in Policies : published'.cost[p][0] = published.cost[p][elapsed]]_published

\* The cumulative cost, computed from the days in each class, is the sum of what
\* every day of the horizon costs by the rule for the class of that day.
CumulativeIsDaily ==
  published # NotPublished =>
    LET cohort == Cohort(published.current)
    IN \A p \in Policies, h \in HORIZONS :
         published.cumulative[p][h] =
           SumFunction([age \in 0 .. h - 1 |-> CohortPrice(cohort, TargetClass(age, p))])
=============================================================================
