-------------------------- MODULE S3InventoryProofs --------------------------
(***************************************************************************)
(* What an inventory of two lists promises, for all buckets, objects,      *)
(* prices and bounds.                                                      *)
(***************************************************************************)
EXTENDS S3Inventory, SumTheorems

Attempting == stage # "idle"

IdInv == /\ made \in Nat /\ madeBefore \in Nat /\ madeBefore <= made
         /\ \A v \in store \cup ever : v.id \in Nat /\ v.id <= made
         /\ \A v \in store : v.key \in Keys

PlaceInv == /\ place \in DOMAIN BUCKETS
            /\ stage \in {"idle", "current", "versions", "collect"}
            /\ stage = "collect" => place = Len(BUCKETS)
            /\ ~Attempting => place = 1 /\ current = {} /\ noncurrent = {}

SeenInv == /\ current \cup noncurrent \subseteq ever
           /\ Attempting => throughout \subseteq store /\ store \subseteq ever

\* The buckets behind the place are listed, and of the bucket at the place what
\* is not in the first list is, and stays, a matter of the second.
Behind(v) == \E b \in DOMAIN BUCKETS : /\ BUCKETS[b] = BucketOf[v.key]
                                       /\ b < place \/ stage = "collect"
ListInv ==
  Attempting => \A v \in throughout : v.size # Marker =>
    /\ Behind(v) => v \in current \cup noncurrent
    /\ stage = "versions" /\ BucketOf[v.key] = BUCKETS[place] => v \in current \/ ~IsLatest(v)

\* What replaces a listed current version was made during the attempt, and a
\* noncurrent version is never current again.
Replaced(v) == \E w \in ever : w.key = v.key /\ w.id > madeBefore
OnceInv == /\ \A v \in current, w \in store : w.key = v.key /\ w.id > v.id => w.id > madeBefore
           /\ \A v \in noncurrent : v \in store => ~IsLatest(v)
           /\ \A v \in current \cap noncurrent : Replaced(v)

IInv == IdInv /\ PlaceInv /\ SeenInv /\ ListInv /\ OnceInv

-----------------------------------------------------------------------------
LEMMA Places == /\ DOMAIN BUCKETS = 1 .. Len(BUCKETS)
                /\ Len(BUCKETS) \in Nat \ {0}
BY InventoryConstants DEF InventoryConstants

LEMMA InitInv == Init => IInv
BY Places
   DEF Init, IInv, IdInv, PlaceInv, SeenInv, ListInv, OnceInv, Attempting

\* Uploads, deletions and expiry.
ChangesStore == \/ \E k \in Keys, size \in Sizes \cup {Marker} : Put(k, size)
                \/ \E v \in store : ExpireNoncurrent(v)

LEMMA StoreChange ==
  ASSUME IInv, ChangesStore
  PROVE  /\ UNCHANGED <<day, attempt, published, madeBefore>>
         /\ made' \in Nat /\ made <= made'
         /\ \A w \in store' : w \in store \/ (w.id = made + 1 /\ w.id = made' /\ w.key \in Keys)
         /\ Attempting => throughout' = throughout \cap store' /\ ever' = ever \cup store'
         /\ ~Attempting => UNCHANGED <<throughout, ever>>
<1>0. made \in Nat
  BY DEF IInv, IdInv
<1>1. /\ UNCHANGED <<day, attempt, published, madeBefore>>
      /\ Attempting => throughout' = throughout \cap store' /\ ever' = ever \cup store'
      /\ ~Attempting => UNCHANGED <<throughout, ever>>
  BY DEF ChangesStore, Put, ExpireNoncurrent, Store, Attempting
<1>2. ASSUME NEW k \in Keys, NEW size \in Sizes \cup {Marker}, Put(k, size)
      PROVE  /\ made' = made + 1
             /\ \A w \in store' : w \in store \/ (w.id = made' /\ w.key = k)
  <2> DEFINE new == [id |-> made', key |-> k, size |-> size, born |-> day]
  <2>1. made' = made + 1 /\ store' = store \cup {new}
    BY <1>2 DEF Put, Store
  <2>2. new.id = made' /\ new.key = k
    OBVIOUS
  <2> HIDE DEF new
  <2> QED BY <2>1, <2>2
<1>3. ASSUME NEW v \in store, ExpireNoncurrent(v)
      PROVE  made' = made /\ store' \subseteq store
  BY <1>3 DEF ExpireNoncurrent, Store
<1>4. /\ made' \in {made, made + 1}
      /\ \A w \in store' : w \in store \/ (w.id = made + 1 /\ w.id = made' /\ w.key \in Keys)
  <2>1. CASE \E k \in Keys, size \in Sizes \cup {Marker} : Put(k, size)
    BY <1>2, <2>1
  <2>2. CASE \E v \in store : ExpireNoncurrent(v)
    BY <1>3, <2>2
  <2> QED BY <2>1, <2>2 DEF ChangesStore
<1> QED BY <1>0, <1>1, <1>4

\* Once a version is not the latest, it never is again.
LEMMA NeverLatestAgain ==
  ASSUME IInv, ChangesStore, NEW v, v.id \in Nat, ~IsLatest(v)
  PROVE  ~IsLatest(v)'
<1>1. PICK w \in store : w.key = v.key /\ ~(w.id <= v.id)
  BY DEF IsLatest
<1>2. w.id \in Nat
  BY DEF IInv, IdInv
<1>3. CASE \E k \in Keys, size \in Sizes \cup {Marker} : Put(k, size)
  BY <1>1, <1>3 DEF Put, Store, IsLatest
<1>4. ASSUME NEW u \in store, ExpireNoncurrent(u) PROVE ~IsLatest(v)'
  <2>1. store' = store \ {u} /\ ~IsLatest(u)
    BY <1>4 DEF ExpireNoncurrent, Store
  <2>2. CASE w # u
    BY <1>1, <2>1, <2>2 DEF IsLatest
  <2>3. CASE w = u
    <3>1. PICK x \in store : x.key = u.key /\ ~(x.id <= u.id)
      BY <2>1 DEF IsLatest
    <3>2. x.id \in Nat
      BY DEF IInv, IdInv
    <3>3. x # u /\ x.key = v.key /\ ~(x.id <= v.id)
      BY <1>1, <1>2, <2>3, <3>1, <3>2
    <3> QED BY <2>1, <3>3 DEF IsLatest
  <2> QED BY <2>2, <2>3
<1> QED BY <1>3, <1>4 DEF ChangesStore

LEMMA StoreKeeps ==
  ASSUME IInv, ChangesStore
  PROVE  IInv'
<1> USE StoreChange DEF attempt
<1>1. IdInv'
  BY DEF IInv, IdInv, SeenInv, Attempting
<1>2. PlaceInv'
  BY DEF IInv, PlaceInv, Attempting
<1>3. SeenInv'
  BY DEF IInv, SeenInv, Attempting
<1>4. ListInv'
  <2> SUFFICES ASSUME Attempting', NEW v \in throughout', v.size # Marker
               PROVE  /\ Behind(v)' => v \in current' \cup noncurrent'
                      /\ (stage = "versions" /\ BucketOf[v.key] = BUCKETS[place])' =>
                           v \in current' \/ ~IsLatest(v)'
    BY DEF ListInv
  <2>1. Attempting /\ v \in throughout /\ v \in store
    BY DEF Attempting, IInv, SeenInv
  <2>2. v.id \in Nat
    BY <2>1 DEF IInv, IdInv
  <2>3. Behind(v)' <=> Behind(v)
    BY DEF Behind
  <2> QED BY <2>1, <2>2, <2>3, NeverLatestAgain DEF IInv, ListInv
<1>5. OnceInv'
  <2>1. \A v \in current', w \in store' : w.key = v.key /\ w.id > v.id => w.id > madeBefore'
    BY DEF IInv, OnceInv, IdInv
  <2>2. ASSUME NEW v \in noncurrent', v \in store' PROVE ~IsLatest(v)'
    <3>1. Attempting /\ v \in noncurrent
      BY <2>2 DEF IInv, PlaceInv
    <3>2. v \in ever /\ v.id \in Nat /\ v.id <= made
      BY <3>1 DEF IInv, SeenInv, IdInv
    <3>3. v \in store \/ v.id = made + 1
      BY <2>2
    <3>4. CASE v \in store
      BY <3>1, <3>2, <3>4, NeverLatestAgain DEF IInv, OnceInv
    <3> QED BY <3>2, <3>3, <3>4 DEF IInv, IdInv
  <2>3. ASSUME NEW v \in current' \cap noncurrent' PROVE Replaced(v)'
    BY <2>3 DEF IInv, OnceInv, Replaced, Attempting
  <2> QED BY <2>1, <2>2, <2>3 DEF OnceInv
<1> QED BY <1>1, <1>2, <1>3, <1>4, <1>5 DEF IInv

-----------------------------------------------------------------------------
LEMMA StartKeeps ==
  ASSUME IInv, Start
  PROVE  IInv'
<1>1. /\ stage = "idle" /\ stage' = "current"
      /\ throughout' = store /\ ever' = store /\ madeBefore' = made
      /\ UNCHANGED <<store, made, place, current, noncurrent>>
      /\ current = {} /\ noncurrent = {}
  BY DEF Start, IInv, PlaceInv, Attempting
<1>2. place = 1
  BY <1>1 DEF IInv, PlaceInv, Attempting
<1>3. IdInv' /\ PlaceInv' /\ SeenInv'
  BY <1>1, <1>2, Places DEF IInv, IdInv, PlaceInv, SeenInv, Attempting
<1>4. ListInv'
  BY <1>1, <1>2, Places DEF ListInv, Behind
<1>5. OnceInv'
  BY <1>1 DEF OnceInv
<1> QED BY <1>3, <1>4, <1>5 DEF IInv

LEMMA ListCurrentKeeps ==
  ASSUME IInv, ListCurrent
  PROVE  IInv'
<1>1. /\ stage = "current" /\ stage' = "versions" /\ current' = current \cup Contents
      /\ UNCHANGED <<store, made, day, place, noncurrent, published, history>>
  BY DEF ListCurrent
<1>2. Contents \subseteq store /\ \A v \in Contents : IsLatest(v)
  BY DEF Contents, Objects
<1>3. store \subseteq ever /\ throughout \subseteq store
  BY <1>1 DEF IInv, SeenInv, Attempting
<1>4. IdInv' /\ PlaceInv' /\ SeenInv'
  BY <1>1, <1>2, <1>3 DEF IInv, IdInv, PlaceInv, SeenInv, Attempting, history
<1>5. ListInv'
  <2> SUFFICES ASSUME NEW v \in throughout, v.size # Marker
               PROVE  /\ Behind(v)' => v \in current' \cup noncurrent'
                      /\ (stage = "versions" /\ BucketOf[v.key] = BUCKETS[place])' =>
                           v \in current' \/ ~IsLatest(v)'
    BY <1>1 DEF ListInv, history
  <2>1. Behind(v)' => Behind(v)
    BY <1>1 DEF Behind
  <2>2. Behind(v) => v \in current \cup noncurrent
    BY <1>1 DEF IInv, ListInv, Attempting
  <2>3. BucketOf[v.key] = BUCKETS[place] => v \in Contents \/ ~IsLatest(v)
    BY <1>3 DEF Contents, Objects
  <2>4. IsLatest(v)' <=> IsLatest(v)
    BY <1>1 DEF IsLatest
  <2> QED BY <1>1, <2>1, <2>2, <2>3, <2>4
<1>6. OnceInv'
  <2>1. ASSUME NEW v \in current', NEW w \in store', w.key = v.key, w.id > v.id
        PROVE  w.id > madeBefore'
    <3>1. v \notin Contents
      <4> SUFFICES ASSUME v \in Contents PROVE FALSE
        OBVIOUS
      <4>1. w.id <= v.id /\ w.id \in Nat /\ v.id \in Nat
        BY <1>1, <1>2, <2>1 DEF IsLatest, IInv, IdInv
      <4> QED BY <2>1, <4>1
    <3> QED BY <1>1, <2>1, <3>1 DEF IInv, OnceInv, history
  <2>2. \A v : IsLatest(v)' <=> IsLatest(v)
    BY <1>1 DEF IsLatest
  <2>3. \A v \in noncurrent' : v \in store' => ~IsLatest(v)'
    BY <1>1, <2>2 DEF IInv, OnceInv
  <2>4. current' \cap noncurrent' \subseteq current \cap noncurrent
    BY <1>1, <1>2 DEF IInv, OnceInv
  <2>5. \A v \in current' \cap noncurrent' : Replaced(v)'
    BY <1>1, <2>4 DEF IInv, OnceInv, Replaced, history
  <2> QED BY <2>1, <2>3, <2>5 DEF OnceInv
<1> QED BY <1>4, <1>5, <1>6 DEF IInv

LEMMA ListVersionsKeeps ==
  ASSUME IInv, ListVersions
  PROVE  IInv'
<1>1. /\ stage = "versions" /\ noncurrent' = noncurrent \cup Versions
      /\ UNCHANGED <<store, made, day, current, published, history>>
      /\ \/ place < Len(BUCKETS) /\ stage' = "current" /\ place' = place + 1
         \/ ~(place < Len(BUCKETS)) /\ stage' = "collect" /\ place' = place
  BY DEF ListVersions
<1>2. Versions \subseteq store /\ \A v \in Versions : ~IsLatest(v)
  BY DEF Versions, Objects
<1>3. store \subseteq ever /\ throughout \subseteq store
  BY <1>1 DEF IInv, SeenInv, Attempting
<1>4. place \in 1 .. Len(BUCKETS)
  BY Places DEF IInv, PlaceInv
<1>5. IdInv'
  BY <1>1 DEF IInv, IdInv, history
<1>6. PlaceInv'
  BY <1>1, <1>4, Places DEF PlaceInv, Attempting
<1>7. SeenInv'
  BY <1>1, <1>2, <1>3 DEF IInv, SeenInv, Attempting, history
<1>8. ListInv'
  <2> SUFFICES ASSUME NEW v \in throughout, v.size # Marker, Behind(v)'
               PROVE  v \in current \cup noncurrent'
    BY <1>1 DEF ListInv, history
  <2>1. PICK b \in DOMAIN BUCKETS : BUCKETS[b] = BucketOf[v.key] /\ (b < place' \/ stage' = "collect")
    BY DEF Behind
  <2>2. b < place \/ b = place
    BY <1>1, <1>4, <2>1, Places
  <2>3. CASE b < place
    BY <1>1, <2>1, <2>3 DEF IInv, ListInv, Behind, Attempting
  <2>4. CASE b = place
    <3>1. v \in current \/ ~IsLatest(v)
      BY <1>1, <2>1, <2>4 DEF IInv, ListInv, Attempting
    <3>2. ~IsLatest(v) => v \in Versions
      BY <1>3, <2>1, <2>4 DEF Versions, Objects
    <3> QED BY <1>1, <3>1, <3>2
  <2> QED BY <2>2, <2>3, <2>4
<1>9. OnceInv'
  <2>1. \A v : IsLatest(v)' <=> IsLatest(v)
    BY <1>1 DEF IsLatest
  <2>2. \A v \in noncurrent' : v \in store' => ~IsLatest(v)'
    BY <1>1, <1>2, <2>1 DEF IInv, OnceInv
  <2>3. ASSUME NEW v \in current, v \in Versions PROVE Replaced(v)
    <3>1. PICK w \in store : w.key = v.key /\ ~(w.id <= v.id)
      BY <1>2, <2>3 DEF IsLatest
    <3>2. w.id \in Nat /\ v.id \in Nat /\ w \in ever
      BY <1>2, <1>3, <2>3 DEF IInv, IdInv
    <3>3. w.id > madeBefore
      BY <2>3, <3>1, <3>2 DEF IInv, OnceInv
    <3> QED BY <3>1, <3>2, <3>3 DEF Replaced
  <2>4. \A v \in current' \cap noncurrent' : Replaced(v)'
    BY <1>1, <2>3 DEF IInv, OnceInv, Replaced, history
  <2> QED BY <1>1, <2>2, <2>4 DEF IInv, OnceInv, history
<1> QED BY <1>5, <1>6, <1>7, <1>8, <1>9 DEF IInv

LEMMA EndKeeps ==
  ASSUME IInv, End
  PROVE  IInv'
BY Places
   DEF End, IInv, IdInv, PlaceInv, SeenInv, ListInv, OnceInv, Attempting

LEMMA OthersKeep ==
  ASSUME IInv, UNCHANGED <<store, made, attempt, history>>
  PROVE  IInv'
<1>1. \A v : (IsLatest(v)' <=> IsLatest(v)) /\ (Behind(v)' <=> Behind(v)) /\ (Replaced(v)' <=> Replaced(v))
  BY DEF IsLatest, Behind, Replaced, attempt, history
<1>2. IdInv' /\ PlaceInv' /\ SeenInv'
  BY DEF IInv, IdInv, PlaceInv, SeenInv, Attempting, attempt, history
<1>3. ListInv'
  BY <1>1 DEF IInv, ListInv, Attempting, attempt, history
<1>4. OnceInv'
  BY <1>1 DEF IInv, OnceInv, attempt, history
<1> QED BY <1>2, <1>3, <1>4 DEF IInv

LEMMA StepKeeps == IInv /\ [Next]_vars => IInv'
<1> SUFFICES ASSUME IInv, [Next]_vars PROVE IInv'
  OBVIOUS
<1>1. CASE ChangesStore
  BY <1>1, StoreKeeps
<1>2. CASE Start
  BY <1>2, StartKeeps
<1>3. CASE ListCurrent
  BY <1>3, ListCurrentKeeps
<1>4. CASE ListVersions
  BY <1>4, ListVersionsKeeps
<1>5. CASE Publish \/ PodFails
  BY <1>5, EndKeeps DEF Publish, PodFails
<1>6. CASE Tick \/ RestartGateway \/ UNCHANGED vars
  BY <1>6, OthersKeep DEF Tick, RestartGateway, vars
<1> QED BY <1>1, <1>2, <1>3, <1>4, <1>5, <1>6 DEF Next, ChangesStore

-----------------------------------------------------------------------------
\* Only the end of an attempt publishes, and it publishes its two lists.
LEMMA PublishedLists ==
  ASSUME IInv, [Next]_vars, published' # published, published' # NotPublished
  PROVE  /\ stage = "collect"
         /\ published'.current = current /\ published'.noncurrent = noncurrent
<1>1. Publish
  BY DEF Next, Put, ExpireNoncurrent, Store, Tick, Start, ListCurrent, ListVersions, PodFails,
         RestartGateway, vars
<1> QED BY <1>1 DEF Publish, InventoryMetrics

LEMMA WholeStep ==
  ASSUME IInv, [Next]_vars, published' # published, published' # NotPublished
  PROVE  LET counted == published'.current \cup published'.noncurrent
         IN {v \in throughout : v.size # Marker} \subseteq counted /\ counted \subseteq ever
<1>1. /\ stage = "collect" /\ Attempting
      /\ published'.current = current /\ published'.noncurrent = noncurrent
  BY PublishedLists DEF Attempting
<1>2. ASSUME NEW v \in throughout, v.size # Marker PROVE v \in current \cup noncurrent
  <2>1. v.key \in Keys
    BY <1>1 DEF IInv, SeenInv, IdInv
  <2>2. Behind(v)
    BY <1>1, <2>1, InventoryConstants DEF InventoryConstants, Behind
  <2> QED BY <1>1, <1>2, <2>2 DEF IInv, ListInv
<1>3. current \cup noncurrent \subseteq ever
  BY DEF IInv, SeenInv
<1> QED BY <1>1, <1>2, <1>3

\* For all buckets, objects and bounds: an inventory has every version that was
\* there during the whole attempt and none that was not there at all.
THEOREM WholeInventoryAlways == Spec => WholeInventory
<1>1. IInv /\ [Next]_vars =>
        [published' # NotPublished =>
           LET counted == published'.current \cup published'.noncurrent
           IN {v \in throughout : v.size # Marker} \subseteq counted
                /\ counted \subseteq ever]_published
  BY WholeStep
<1> QED BY <1>1, InitInv, StepKeeps, PTL DEF Spec, WholeInventory

\* For all buckets, objects and bounds: a version is counted twice only if it was
\* replaced during the attempt.
THEOREM CountedOnceAlways == Spec => CountedOnce
<1>1. IInv /\ [Next]_vars =>
        [published' # NotPublished =>
           \A v \in published'.current \cap published'.noncurrent :
             \E w \in ever : w.key = v.key /\ w.id > madeBefore]_published
  BY PublishedLists DEF IInv, OnceInv, Replaced
<1> QED BY <1>1, InitInv, StepKeeps, PTL DEF Spec, CountedOnce

-----------------------------------------------------------------------------
LEMMA LargerSmaller ==
  ASSUME NEW a \in Int, NEW b \in Int
  PROVE  /\ Max({a, b}) = IF a >= b THEN a ELSE b
         /\ Min({a, b}) = IF a <= b THEN a ELSE b
<1>1. Max({a, b}) = IF a >= b THEN a ELSE b
  <2> DEFINE m == IF a >= b THEN a ELSE b
  <2>1. m \in {a, b} /\ \A y \in {a, b} : m >= y
    OBVIOUS
  <2>2. \A x \in {a, b} : (\A y \in {a, b} : x >= y) => x = m
    OBVIOUS
  <2> QED BY <2>1, <2>2 DEF Max
<1>2. Min({a, b}) = IF a <= b THEN a ELSE b
  <2> DEFINE m == IF a <= b THEN a ELSE b
  <2>1. m \in {a, b} /\ \A y \in {a, b} : m <= y
    OBVIOUS
  <2>2. \A x \in {a, b} : (\A y \in {a, b} : x <= y) => x = m
    OBVIOUS
  <2> QED BY <2>1, <2>2 DEF Min
<1> QED BY <1>1, <1>2

LEMMA IntervalSize ==
  ASSUME NEW a \in Int, NEW b \in Int
  PROVE  Cardinality(a .. b - 1) = IF b - a >= 0 THEN b - a ELSE 0
<1>1. b - 1 \in Int
  OBVIOUS
<1>2. Cardinality(a .. b - 1) = IF a > b - 1 THEN 0 ELSE (b - 1) - a + 1
  BY <1>1, FS_Interval
<1> QED BY <1>2

\* The days cumulative_cohort_storage_cost puts in each class are, for every horizon
\* and all transition days, the days on which target_class has that class.
THEOREM ClassDaysAreDays ==
  ASSUME NEW horizon \in Nat, NEW class \in Classes
  PROVE  ClassDays(horizon)[class] =
           Cardinality({age \in 0 .. horizon - 1 : TargetClass(age, "enabled") = class})
<1> DEFINE Days(c) == {age \in 0 .. horizon - 1 : TargetClass(age, "enabled") = c}
<1>1. /\ STANDARD_IA_DAYS \in Nat /\ GLACIER_IR_DAYS \in Nat
      /\ STANDARD_IA_DAYS <= GLACIER_IR_DAYS
  BY InventoryConstants DEF InventoryConstants
<1>2. CASE class = "Standard"
  <2> DEFINE last == Min({horizon, STANDARD_IA_DAYS})
  <2>1. last = IF horizon <= STANDARD_IA_DAYS THEN horizon ELSE STANDARD_IA_DAYS
    BY <1>1, LargerSmaller
  <2>2. Days("Standard") = 0 .. last - 1
    BY <1>1, <2>1 DEF TargetClass
  <2>3. ClassDays(horizon)["Standard"] = last
    BY DEF ClassDays
  <2>4. Cardinality(0 .. last - 1) = last
    <3>1. last \in Nat
      BY <1>1, <2>1
    <3> HIDE DEF last
    <3> QED BY <3>1, IntervalSize
  <2> QED BY <1>2, <2>2, <2>3, <2>4
<1>3. CASE class = "StandardIA"
  <2> DEFINE end == Min({horizon, GLACIER_IR_DAYS})
  <2>1. end = IF horizon <= GLACIER_IR_DAYS THEN horizon ELSE GLACIER_IR_DAYS
    BY <1>1, LargerSmaller
  <2>2. Days("StandardIA") = STANDARD_IA_DAYS .. end - 1
    BY <1>1, <2>1 DEF TargetClass
  <2>3. ClassDays(horizon)["StandardIA"] =
          IF end - STANDARD_IA_DAYS >= 0 THEN end - STANDARD_IA_DAYS ELSE 0
    <3>1. end - STANDARD_IA_DAYS \in Int
      BY <1>1, <2>1
    <3>2. ClassDays(horizon)["StandardIA"] = Max({end - STANDARD_IA_DAYS, 0})
      BY DEF ClassDays
    <3> HIDE DEF end
    <3> QED BY <3>1, <3>2, LargerSmaller
  <2>4. Cardinality(STANDARD_IA_DAYS .. end - 1) =
          IF end - STANDARD_IA_DAYS >= 0 THEN end - STANDARD_IA_DAYS ELSE 0
    <3>1. end \in Int
      BY <1>1, <2>1
    <3> HIDE DEF end
    <3> QED BY <1>1, <3>1, IntervalSize
  <2> QED BY <1>3, <2>2, <2>3, <2>4
<1>4. CASE class = "GlacierIR"
  <2>1. Days("GlacierIR") = GLACIER_IR_DAYS .. horizon - 1
    BY <1>1 DEF TargetClass
  <2>2. ClassDays(horizon)["GlacierIR"] =
          IF horizon - GLACIER_IR_DAYS >= 0 THEN horizon - GLACIER_IR_DAYS ELSE 0
    <3>1. horizon - GLACIER_IR_DAYS \in Int
      BY <1>1
    <3>2. Max({horizon - GLACIER_IR_DAYS, 0}) =
            IF horizon - GLACIER_IR_DAYS >= 0 THEN horizon - GLACIER_IR_DAYS ELSE 0
      BY <3>1, LargerSmaller
    <3> QED BY <3>2 DEF ClassDays
  <2>3. Cardinality(GLACIER_IR_DAYS .. horizon - 1) =
          IF horizon - GLACIER_IR_DAYS >= 0 THEN horizon - GLACIER_IR_DAYS ELSE 0
    BY <1>1, IntervalSize
  <2> QED BY <1>4, <2>1, <2>2, <2>3
<1> QED BY <1>2, <1>3, <1>4 DEF Classes

-----------------------------------------------------------------------------
(* What is published: the objects listed, their cost on that day, and the  *)
(* cumulative cost.                                                        *)

\* The cost as it would be computed on some day.
CostOn(d, cohort, policy, horizon) ==
  LET In(class) == {v \in cohort : TargetClass(d - v.born + horizon, policy) = class}
  IN SumFunction([class \in Classes |-> CohortPrice(In(class), class)])

Listed(objects) == IsFiniteSet(objects) /\ \A v \in objects : v.born \in Nat /\ v.size \in Sizes

StoreInv == /\ day \in Nat
            /\ IsFiniteSet(store)
            /\ \A v \in store : v.born \in Nat /\ v.size \in Sizes \cup {Marker}
            /\ Listed(current)

Right(inventory) ==
  /\ inventory.at \in Nat
  /\ Listed(inventory.current)
  /\ \A p \in Policies, h \in HORIZONS :
       /\ inventory.cost[p][h] = CostOn(inventory.at, Cohort(inventory.current), p, h)
       /\ inventory.cumulative[p][h] = CumulativeCost(Cohort(inventory.current), p, h)

PublishedInv == published # NotPublished => Right(published)

MetricsInv == StoreInv /\ PublishedInv

LEMMA InitMetrics == Init => MetricsInv
BY FS_EmptySet DEF Init, MetricsInv, StoreInv, PublishedInv, Listed

LEMMA StoreInvKeeps ==
  ASSUME StoreInv, [Next]_vars
  PROVE  StoreInv'
<1> USE DEF StoreInv, attempt, history
<1>1. ASSUME NEW k \in Keys, NEW size \in Sizes \cup {Marker}, Put(k, size)
      PROVE  StoreInv'
  <2> DEFINE new == [id |-> made', key |-> k, size |-> size, born |-> day]
  <2>1. store' = store \cup {new} /\ day' = day /\ current' = current
    BY <1>1 DEF Put, Store
  <2>2. new.born \in Nat /\ new.size \in Sizes \cup {Marker}
    OBVIOUS
  <2> HIDE DEF new
  <2>3. IsFiniteSet(store')
    BY <2>1, FS_AddElement
  <2> QED BY <2>1, <2>2, <2>3
<1>2. ASSUME NEW v \in store, ExpireNoncurrent(v) PROVE StoreInv'
  <2>1. store' = store \ {v} /\ day' = day /\ current' = current
    BY <1>2 DEF ExpireNoncurrent, Store
  <2>2. IsFiniteSet(store')
    BY <2>1, FS_RemoveElement
  <2> QED BY <2>1, <2>2
<1>3. CASE Tick
  BY <1>3 DEF Tick
<1>4. CASE ListCurrent
  <2>1. current' = current \cup Contents /\ UNCHANGED <<store, day>>
    BY <1>4 DEF ListCurrent
  <2>2. Contents \subseteq store /\ \A v \in Contents : v.size # Marker
    BY DEF Contents, Objects
  <2>3. IsFiniteSet(current \cup Contents)
    BY <2>2, FS_Subset, FS_Union DEF Listed
  <2> QED BY <2>1, <2>2, <2>3 DEF Listed
<1>5. CASE PodFails \/ Publish
  <2>1. current' = {} /\ UNCHANGED <<store, day>>
    BY <1>5 DEF PodFails, Publish, End
  <2> QED BY <2>1, FS_EmptySet DEF Listed
<1>6. CASE Start \/ ListVersions \/ RestartGateway \/ UNCHANGED vars
  BY <1>6 DEF Start, ListVersions, RestartGateway, vars
<1> QED BY <1>1, <1>2, <1>3, <1>4, <1>5, <1>6 DEF Next

\* Only Publish and the gateway's restart change what is published.
LEMMA PublishedBy ==
  ASSUME [Next]_vars, published' # published, published' # NotPublished
  PROVE  Publish
BY DEF Next, Put, ExpireNoncurrent, Store, Tick, Start, ListCurrent, ListVersions, PodFails,
       RestartGateway, vars

LEMMA PublishIsRight == ASSUME StoreInv, Publish
                        PROVE  published' = InventoryMetrics /\ Right(InventoryMetrics)
<1>1. /\ InventoryMetrics.at = day /\ InventoryMetrics.current = current
      /\ InventoryMetrics.cost =
           [p \in Policies |-> [h \in HORIZONS |-> Cost(Cohort(current), p, h)]]
      /\ InventoryMetrics.cumulative =
           [p \in Policies |-> [h \in HORIZONS |-> CumulativeCost(Cohort(current), p, h)]]
  BY DEF InventoryMetrics
<1>2. \A p \in Policies, h \in HORIZONS :
        Cost(Cohort(current), p, h) = CostOn(day, Cohort(current), p, h)
  BY Zenon DEF Cost, CostOn
<1>3. Right(InventoryMetrics)
  BY <1>1, <1>2 DEF Right, StoreInv
<1> QED BY <1>3 DEF Publish

LEMMA PublishedInvKeeps ==
  ASSUME MetricsInv, [Next]_vars
  PROVE  PublishedInv'
<1>1. ASSUME published' = published PROVE PublishedInv'
  BY <1>1, Zenon DEF MetricsInv, PublishedInv
<1>2. ASSUME published' # published, published' # NotPublished PROVE PublishedInv'
  <2>1. published' = InventoryMetrics /\ Right(InventoryMetrics)
    BY <1>2, PublishedBy, PublishIsRight DEF MetricsInv
  <2> QED BY <2>1, Zenon DEF PublishedInv
<1> QED BY <1>1, <1>2 DEF PublishedInv

LEMMA MetricsStep == MetricsInv /\ [Next]_vars => MetricsInv'
BY StoreInvKeeps, PublishedInvKeeps DEF MetricsInv

-----------------------------------------------------------------------------
\* Some days later, an object is in the class it was forecast for.
LEMMA SameCost ==
  ASSUME NEW cohort, \A v \in cohort : v.born \in Nat,
         NEW at \in Nat, NEW later \in Nat, NEW p \in Policies
  PROVE  CostOn(later, cohort, p, 0) = CostOn(at, cohort, p, later - at)
<1> DEFINE Now(class) == {v \in cohort : TargetClass(later - v.born + 0, p) = class}
           Then(class) == {v \in cohort : TargetClass(at - v.born + (later - at), p) = class}
<1>1. \A v \in cohort : later - v.born + 0 = at - v.born + (later - at)
  OBVIOUS
<1>2. \A class \in Classes : Now(class) = Then(class)
  BY <1>1
<1>3. CostOn(later, cohort, p, 0) = SumFunction([class \in Classes |-> CohortPrice(Now(class), class)])
  BY Zenon DEF CostOn
<1>4. CostOn(at, cohort, p, later - at) =
        SumFunction([class \in Classes |-> CohortPrice(Then(class), class)])
  BY Zenon DEF CostOn
<1> HIDE DEF Now, Then
<1>5. [class \in Classes |-> CohortPrice(Now(class), class)] =
        [class \in Classes |-> CohortPrice(Then(class), class)]
  BY <1>2
<1> QED BY <1>3, <1>4, <1>5

LEMMA ForecastStep ==
  ASSUME MetricsInv, [Next]_vars, published' # published,
         published # NotPublished, published' # NotPublished,
         published'.at - published.at \in HORIZONS,
         Cohort(published.current) = Cohort(published'.current),
         NEW p \in Policies
  PROVE  published'.cost[p][0] = published.cost[p][published'.at - published.at]
<1> DEFINE cohort == Cohort(published.current)
<1>1. /\ published'.at = day
      /\ published'.cost[p][0] = CostOn(day, cohort, p, 0)
  <2>1. 0 \in HORIZONS
    BY InventoryConstants DEF InventoryConstants
  <2>2. published' = InventoryMetrics /\ Right(InventoryMetrics)
    BY PublishedBy, PublishIsRight DEF MetricsInv
  <2>3. InventoryMetrics.at = day
    BY DEF InventoryMetrics
  <2> QED BY <2>1, <2>2, <2>3 DEF Right
<1>2. /\ published.at \in Nat /\ day \in Nat
      /\ published.cost[p][day - published.at] = CostOn(published.at, cohort, p, day - published.at)
      /\ \A v \in cohort : v.born \in Nat
  BY <1>1 DEF MetricsInv, StoreInv, PublishedInv, Right, Listed, Cohort
<1> HIDE DEF cohort
<1> QED BY <1>1, <1>2, SameCost

\* For all buckets, prices and transition days: the cost an attempt publishes is the
\* one that was forecast for that many days when the cohort has not changed.
THEOREM ForecastAlwaysHolds == Spec => ForecastHolds
<1>1. MetricsInv /\ [Next]_vars =>
        [LET elapsed == published'.at - published.at
         IN published # NotPublished /\ published' # NotPublished /\ elapsed \in HORIZONS
              /\ Cohort(published.current) = Cohort(published'.current) =>
            \A p \in Policies : published'.cost[p][0] = published.cost[p][elapsed]]_published
  BY ForecastStep
<1> QED BY <1>1, InitMetrics, MetricsStep, PTL DEF Spec, ForecastHolds

-----------------------------------------------------------------------------
\* A day more is a day more in the class of that day.
LEMMA ClassDayStep ==
  ASSUME NEW horizon \in Nat, NEW class \in Classes
  PROVE  /\ ClassDays(0)[class] = 0 /\ ClassDays(horizon)[class] \in Nat
         /\ ClassDays(horizon + 1)[class] =
              ClassDays(horizon)[class] + (IF TargetClass(horizon, "enabled") = class THEN 1 ELSE 0)
<1>1. /\ STANDARD_IA_DAYS \in Nat /\ GLACIER_IR_DAYS \in Nat
      /\ STANDARD_IA_DAYS <= GLACIER_IR_DAYS
  BY InventoryConstants DEF InventoryConstants
<1> DEFINE Less(a, b) == IF a <= b THEN a ELSE b
           Over(n) == IF n >= 0 THEN n ELSE 0
<1>2. ASSUME NEW h \in Nat
      PROVE  /\ ClassDays(h)["Standard"] = Less(h, STANDARD_IA_DAYS)
             /\ ClassDays(h)["StandardIA"] = Over(Less(h, GLACIER_IR_DAYS) - STANDARD_IA_DAYS)
             /\ ClassDays(h)["GlacierIR"] = Over(h - GLACIER_IR_DAYS)
  <2>1. /\ Min({h, STANDARD_IA_DAYS}) = Less(h, STANDARD_IA_DAYS)
        /\ Min({h, GLACIER_IR_DAYS}) = Less(h, GLACIER_IR_DAYS)
    BY <1>1, LargerSmaller
  <2>2. /\ Less(h, GLACIER_IR_DAYS) - STANDARD_IA_DAYS \in Int
        /\ h - GLACIER_IR_DAYS \in Int
    BY <1>1
  <2> HIDE DEF Less
  <2>3. /\ Max({Less(h, GLACIER_IR_DAYS) - STANDARD_IA_DAYS, 0}) =
             Over(Less(h, GLACIER_IR_DAYS) - STANDARD_IA_DAYS)
        /\ Max({h - GLACIER_IR_DAYS, 0}) = Over(h - GLACIER_IR_DAYS)
    BY <2>2, LargerSmaller
  <2> HIDE DEF Over
  <2> QED BY <2>1, <2>3 DEF ClassDays
<1>3. /\ TargetClass(horizon, "enabled") = "Standard" <=> horizon < STANDARD_IA_DAYS
      /\ TargetClass(horizon, "enabled") = "GlacierIR" <=> horizon >= GLACIER_IR_DAYS
      /\ TargetClass(horizon, "enabled") = "StandardIA" <=>
           horizon >= STANDARD_IA_DAYS /\ horizon < GLACIER_IR_DAYS
  BY <1>1 DEF TargetClass
<1>4. horizon + 1 \in Nat /\ 0 \in Nat
  OBVIOUS
<1>5. CASE class = "Standard"
  BY <1>1, <1>2, <1>3, <1>4, <1>5
<1>6. CASE class = "StandardIA"
  BY <1>1, <1>2, <1>3, <1>4, <1>6
<1>7. CASE class = "GlacierIR"
  BY <1>1, <1>2, <1>3, <1>4, <1>7
<1> QED BY <1>5, <1>6, <1>7 DEF Classes

LEMMA SumOfClasses ==
  ASSUME NEW f \in [Classes -> Nat]
  PROVE  SumFunction(f) = f["Standard"] + (f["StandardIA"] + f["GlacierIR"])
<1> DEFINE two == {"GlacierIR", "StandardIA"}
<1>1. /\ IsFiniteSet({"GlacierIR"}) /\ IsFiniteSet(two) /\ IsFiniteSet({})
      /\ Classes = two \cup {"Standard"} /\ two = {"GlacierIR"} \cup {"StandardIA"}
      /\ {} \cup {"GlacierIR"} = {"GlacierIR"}
  <2>1. IsFiniteSet({"GlacierIR"}) /\ IsFiniteSet({})
    BY FS_Singleton, FS_EmptySet
  <2>2. two = {"GlacierIR"} \cup {"StandardIA"}
    OBVIOUS
  <2>3. IsFiniteSet({"GlacierIR"} \cup {"StandardIA"})
    BY <2>1, FS_AddElement
  <2>4. Classes = two \cup {"Standard"} /\ {} \cup {"GlacierIR"} = {"GlacierIR"}
    BY DEF Classes
  <2> HIDE DEF two
  <2> QED BY <2>1, <2>2, <2>3, <2>4
<1>2. /\ "Standard" \notin two /\ "StandardIA" \notin {"GlacierIR"}
      /\ f["Standard"] \in Nat /\ f["StandardIA"] \in Nat /\ f["GlacierIR"] \in Nat
  BY DEF Classes
<1>3. \A y \in Classes : f[y] \in Nat
  OBVIOUS
<1>4. SumFunction(f) = SumFunctionOnSet(f, Classes)
  BY DEF SumFunction
<1>5. SumFunctionOnSet(f, {"GlacierIR"}) = f["GlacierIR"] + SumFunctionOnSet(f, {})
  <2>1. \A y \in {} \cup {"GlacierIR"} : f[y] \in Nat
    BY <1>2
  <2>2. SumFunctionOnSet(f, {} \cup {"GlacierIR"}) = f["GlacierIR"] + SumFunctionOnSet(f, {})
    BY <1>1, <2>1, SumAdds
  <2> QED BY <1>1, <2>2
<1>6. SumFunctionOnSet(f, two) = f["StandardIA"] + SumFunctionOnSet(f, {"GlacierIR"})
  <2>1. \A y \in {"GlacierIR"} \cup {"StandardIA"} : f[y] \in Nat
    BY <1>2
  <2>2. SumFunctionOnSet(f, {"GlacierIR"} \cup {"StandardIA"}) =
          f["StandardIA"] + SumFunctionOnSet(f, {"GlacierIR"})
    BY <1>1, <1>2, <2>1, SumAdds
  <2> QED BY <1>1, <2>2
<1> HIDE DEF two
<1>7. SumFunctionOnSet(f, Classes) = f["Standard"] + SumFunctionOnSet(f, two)
  <2>1. \A y \in two \cup {"Standard"} : f[y] \in Nat
    BY <1>1, <1>3
  <2>2. SumFunctionOnSet(f, two \cup {"Standard"}) = f["Standard"] + SumFunctionOnSet(f, two)
    BY <1>1, <1>2, <2>1, SumAdds
  <2> QED BY <1>1, <2>2
<1> QED BY <1>2, <1>4, <1>5, <1>6, <1>7, SumEmpty

LEMMA PriceType ==
  ASSUME NEW cohort, Listed(cohort), NEW class \in Classes
  PROVE  CohortPrice(cohort, class) \in Nat
<1> DEFINE bytes == [v \in cohort |-> BillableBytes(v.size, class)]
<1>1. \A v \in cohort : bytes[v] \in Nat
  <2> SUFFICES ASSUME NEW v \in cohort PROVE BillableBytes(v.size, class) \in Nat
    OBVIOUS
  <2>1. v.size \in Nat /\ MIN_BILLABLE_BYTES \in Nat
    BY InventoryConstants DEF InventoryConstants, Listed
  <2>2. Max({v.size, MIN_BILLABLE_BYTES}) \in Nat
    BY <2>1, LargerSmaller
  <2> QED BY <2>1, <2>2 DEF BillableBytes
<1>2. SumFunction(bytes) \in Nat
  <2>1. DOMAIN bytes = cohort /\ IsFiniteSet(cohort)
    BY DEF Listed
  <2> HIDE DEF bytes
  <2> QED BY <1>1, <2>1, SumType DEF SumFunction
<1>3. PRICES[class] \in Nat
  BY InventoryConstants DEF InventoryConstants
<1>4. CohortPrice(cohort, class) = PRICES[class] * SumFunction(bytes)
  BY Zenon DEF CohortPrice
<1> HIDE DEF bytes
<1> QED BY <1>2, <1>3, <1>4

LEMMA OneMore == ASSUME NEW a \in Nat, NEW b \in Nat
                 PROVE  a * b \in Nat /\ (a + 1) * b = a * b + b /\ (a + 0) * b = a * b /\ 0 * b = 0
OBVIOUS

\* One horizon day after the other, the cumulative cost grows by the price of that day.
LEMMA CumulativeStep ==
  ASSUME NEW cohort, Listed(cohort), NEW p \in Policies, NEW h \in Nat
  PROVE  /\ CumulativeCost(cohort, p, 0) = 0 /\ CumulativeCost(cohort, p, h) \in Nat
         /\ TargetClass(h, p) \in Classes
         /\ CumulativeCost(cohort, p, h + 1) =
              CumulativeCost(cohort, p, h) + CohortPrice(cohort, TargetClass(h, p))
<1> DEFINE Price(class) == CohortPrice(cohort, class)
           Days(n) == [class \in Classes |-> ClassDays(n)[class] * Price(class)]
<1>1. \A class \in Classes : Price(class) \in Nat
  BY PriceType
<1> HIDE DEF Price
<1>2. CASE p = "disabled"
  <2>1. \A n : CumulativeCost(cohort, p, n) = n * Price("Standard")
    BY <1>2 DEF CumulativeCost, Price
  <2>2. TargetClass(h, p) = "Standard" /\ "Standard" \in Classes
    BY <1>2 DEF TargetClass, Classes
  <2> QED BY <1>1, <2>1, <2>2, OneMore DEF Price
<1>3. CASE p = "enabled"
  <2>1. ASSUME NEW n \in Nat
        PROVE  /\ CumulativeCost(cohort, p, n) =
                    ClassDays(n)["Standard"] * Price("Standard")
                      + (ClassDays(n)["StandardIA"] * Price("StandardIA")
                          + ClassDays(n)["GlacierIR"] * Price("GlacierIR"))
               /\ \A class \in Classes : ClassDays(n)[class] * Price(class) \in Nat
    <3>1. CumulativeCost(cohort, p, n) = SumFunction(Days(n))
      BY <1>3 DEF CumulativeCost, Price
    <3>2. \A class \in Classes : ClassDays(n)[class] * Price(class) \in Nat
      BY <1>1, ClassDayStep, OneMore
    <3>3. Days(n) \in [Classes -> Nat]
      BY <3>2
    <3>4. /\ Days(n)["Standard"] = ClassDays(n)["Standard"] * Price("Standard")
          /\ Days(n)["StandardIA"] = ClassDays(n)["StandardIA"] * Price("StandardIA")
          /\ Days(n)["GlacierIR"] = ClassDays(n)["GlacierIR"] * Price("GlacierIR")
      BY DEF Classes
    <3> HIDE DEF Days
    <3> QED BY <3>1, <3>2, <3>3, <3>4, SumOfClasses
  <2> HIDE DEF Days
  <2> DEFINE today == TargetClass(h, p)
  <2>2. today \in Classes
    BY DEF TargetClass, Classes
  <2>3. ASSUME NEW class \in Classes
        PROVE  /\ ClassDays(0)[class] * Price(class) = 0
               /\ ClassDays(h + 1)[class] * Price(class) =
                    ClassDays(h)[class] * Price(class) + (IF today = class THEN Price(class) ELSE 0)
    <3>1. /\ ClassDays(0)[class] = 0 /\ ClassDays(h)[class] \in Nat
          /\ ClassDays(h + 1)[class] = ClassDays(h)[class] + (IF today = class THEN 1 ELSE 0)
      BY <1>3, ClassDayStep
    <3> HIDE DEF today
    <3>2. Price(class) \in Nat /\ 0 * Price(class) = 0
      BY <1>1, OneMore
    <3>3. (ClassDays(h)[class] + 1) * Price(class) = ClassDays(h)[class] * Price(class) + Price(class)
          /\ ClassDays(h)[class] * Price(class) \in Nat
      BY <3>1, <3>2, OneMore
    <3>4. CASE today = class
      BY <3>1, <3>2, <3>3, <3>4
    <3>5. CASE today # class
      <4>1. ClassDays(h + 1)[class] = ClassDays(h)[class]
        BY <3>1, <3>5
      <4> QED BY <3>1, <3>2, <3>3, <3>5, <4>1
    <3> QED BY <3>4, <3>5
  <2>4. h + 1 \in Nat /\ 0 \in Nat
    OBVIOUS
  <2>5. CumulativeCost(cohort, p, 0) = 0
    BY <2>1, <2>3, <2>4 DEF Classes
  <2>6. CumulativeCost(cohort, p, h) \in Nat
    <3>1. \A class \in Classes : ClassDays(h)[class] * Price(class) \in Nat
      BY <2>1
    <3>2. /\ ClassDays(h)["Standard"] * Price("Standard") \in Nat
          /\ ClassDays(h)["StandardIA"] * Price("StandardIA") \in Nat
          /\ ClassDays(h)["GlacierIR"] * Price("GlacierIR") \in Nat
      BY <3>1 DEF Classes
    <3> QED BY <2>1, <3>2
  <2>7. CumulativeCost(cohort, p, h + 1) = CumulativeCost(cohort, p, h) + Price(today)
    <3> DEFINE Now(class) == ClassDays(h)[class] * Price(class)
               Next1(class) == ClassDays(h + 1)[class] * Price(class)
    <3>1. \A class \in Classes :
            /\ Now(class) \in Nat /\ Price(class) \in Nat
            /\ Next1(class) = Now(class) + (IF today = class THEN Price(class) ELSE 0)
      BY <1>1, <2>1, <2>3
    <3>2. /\ CumulativeCost(cohort, p, h) = Now("Standard") + (Now("StandardIA") + Now("GlacierIR"))
          /\ CumulativeCost(cohort, p, h + 1) =
               Next1("Standard") + (Next1("StandardIA") + Next1("GlacierIR"))
      BY <2>1, <2>4
    <3> HIDE DEF Now, Next1, today
    <3> QED BY <2>2, <3>1, <3>2 DEF Classes
  <2> QED BY <2>2, <2>5, <2>6, <2>7 DEF Price
<1> QED BY <1>2, <1>3 DEF Policies

\* cumulative_cohort_storage_cost adds up the days, for every cohort and horizon.
THEOREM CumulativeIsTheDays ==
  ASSUME NEW cohort, Listed(cohort), NEW p \in Policies, NEW h \in Nat
  PROVE  CumulativeCost(cohort, p, h) =
           SumFunction([age \in 0 .. h - 1 |-> CohortPrice(cohort, TargetClass(age, p))])
<1> DEFINE daily == [age \in Nat |-> CohortPrice(cohort, TargetClass(age, p))]
           total == [n \in Nat |-> CumulativeCost(cohort, p, n)]
<1>1. total \in [Nat -> Nat] /\ total[0] = 0
  BY CumulativeStep
<1>2. daily \in [Nat -> Nat]
  BY CumulativeStep, PriceType
<1>3. \A n \in Nat : total[n + 1] = total[n] + daily[n]
  BY CumulativeStep
<1>4. /\ total[h] = CumulativeCost(cohort, p, h)
      /\ \A age \in 0 .. h - 1 : daily[age] = CohortPrice(cohort, TargetClass(age, p))
  OBVIOUS
<1> HIDE DEF daily, total
<1>5. SumFunction([age \in 0 .. h - 1 |-> daily[age]]) = total[h]
  BY <1>1, <1>2, <1>3, SumOfDays
<1>6. [age \in 0 .. h - 1 |-> daily[age]] =
        [age \in 0 .. h - 1 |-> CohortPrice(cohort, TargetClass(age, p))]
  BY <1>4
<1> QED BY <1>4, <1>5, <1>6

\* For all cohorts, prices, transition days and horizons: the cumulative cost that is
\* published is the sum of the days' costs.
THEOREM CumulativeAlwaysDaily == Spec => []CumulativeIsDaily
<1>1. ASSUME MetricsInv, published # NotPublished, NEW p \in Policies, NEW h \in HORIZONS
      PROVE  published.cumulative[p][h] =
               SumFunction([age \in 0 .. h - 1 |->
                 CohortPrice(Cohort(published.current), TargetClass(age, p))])
  <2>1. Right(published) /\ h \in Nat
    BY <1>1, InventoryConstants DEF InventoryConstants, MetricsInv, PublishedInv
  <2>2. Listed(Cohort(published.current))
    BY <2>1, FS_Subset DEF Right, Listed, Cohort
  <2>3. published.cumulative[p][h] = CumulativeCost(Cohort(published.current), p, h)
    BY <2>1 DEF Right
  <2> QED BY <2>1, <2>2, <2>3, CumulativeIsTheDays
<1>2. MetricsInv => CumulativeIsDaily
  BY <1>1 DEF CumulativeIsDaily
<1> QED BY <1>2, InitMetrics, MetricsStep, PTL DEF Spec
=============================================================================
