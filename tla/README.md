# A formal model of the cantaloupe FinOps machinery

This repository is mostly manifests. Its programs are Python scripts that run in
Kubernetes Jobs and CronJobs, a few shell scripts inside manifests, and rules that
scripts generate for Prometheus. They share one idea: *measure what a workload costs,
and publish the measurement so that a decision can rest on it*. A wrong measurement
here is silent. It does not crash anything; it moves a cost figure or a right-sizing
advice. This directory models those programs in TLA+, checks the models with TLC on
small instances and proves the results that matter most with TLAPS for all sizes.

Paths below are relative to the repository root. `runner.py` is the script inside
`src/apps/audio/loadtest/runner-configmap.yaml`, `collector.py` the one inside
`src/apps/audio/loadtest/collector-configmap.yaml`; line numbers are those of the
manifest. `GP` is `src/platform/gcp/monitoring-foundation/`.

## 1. The system: inventory

### Programs with state, modelled

**Load Runner** (`runner.py`, Jobs of `loadtest/cronjobs.yaml`).
State: the upload futures, the tracker futures and their pool, the lists of items and
errors, the counters, the cached token, the deadline of each track.
Operations: create a session, PUT the object, complete; poll until terminal or
timed out; push the progress; print the result; exit.
Interacts with the audio API, S3, Keycloak, the Pushgateway (a PUT replaces the run's
group), and through the Job's status and its log with the Collector.
Hard: two thread pools and the main thread, exceptions inside a `try` that has already
changed state, a deadline that runs while a track waits for a thread, the Job killed
between the result line and the exit. Correct if every requested track is accounted
for, a clean exit means that every track is READY, the progress is never ahead of the
truth, and every run ends.

**Result Collector** (`collector.py`, a CronJob).
State: none of its own; it re-reads Jobs, Pods, logs and Prometheus in each cycle and
replaces groups of the Pushgateway.
Operations: list the Jobs, find the log of the newest Pod, take the result line or make
one up for a failed Job, wait for the collection delay, compute the metrics, PUT.
Hard: Pods, Jobs and the Pushgateway's memory disappear at any time; a request that
raises ends the whole cycle; the Runner writes the same groups; the evaluation of an
old run is repeated over an ever longer history; CloudWatch is late and has gaps.
Correct if `run_info = 1` is only ever said of a run that did its work, what was
published stays, every run is reported unless a request about it or about a Job before it in
the list is refused for good, and the node time and the queue
verdicts of a run are its own.

**Pushgateway** (`GP/gcp-recommender-collector.yaml`, first half).
State: groups of metrics, in memory. A PUT replaces a group, a restart empties all.

**GCP Recommender collector** (`GP/gcp_recommender_collector.py`) and
**AWS Compute Optimizer collector** (`GP/aws_compute_optimizer_collector.py` with the
init container of its manifest).
State: none of their own between attempts; the groups `recommendations` and
`collector`. Operations: read nodes, list page by page and zone by zone (GCP) or in four
CLI calls that end at the first error (AWS), PUT the recommendations, PUT the status.
Hard: the world changes while it is listed, two PUTs that are not one, lost answers,
kills and retries. Correct if what is published is one whole listing, the status counts
it, attempts catch up with the provider, and an outage is visible.

**S3 FinOps collector** (`GP/aws_s3_finops_collector.py`, its manifest).
State: the files of one Pod's `emptyDir`, the group `inventory`.
Hard: four lists of four moments; two formulas for one policy. Correct if the inventory
misses nothing that was there all along, double counting is limited to what was replaced
meanwhile, and the two formulas agree with the policy and with the future.

**On-prem right-sizing rules** (`src/platform/gcp/opencost/generate_onprem_rightsizing.py`)
and **Workload right-sizing rules** (`GP/finops-recording-rules.yaml`).
State: the time series of Prometheus. Operations: a scrape of kube-state-metrics or of the
kubelet, which may fail, and an evaluation of the rules: the recommendation, the decision, and
the guardrails of a review (hours observed, Requests that fit, OOM kills, MemoryPressure).
Hard: ties between profiles, four signals that must be one decision, signals of the past
joined with the present, reasons *against* a review that vanish when their series do. Correct
if a node gets one decision, the policy's; advice that is followed ends; an OOM blocks as long
as it should; no failed scrape makes a node safe to review; and a node is released by the
lookback once nothing current speaks against it.

**CI resource policy** (`src/tools/ci/render_finops_targets.py` and the workflows
`finops-resource-policy.yaml` and `finops-resource-policy-feedback.yaml`).
State: the clones a rendering made, the rendered manifests; the label and the comments of the
pull request, the queue of feedbacks. Operations: render each source of each Application,
evaluate the rendered manifests, end or cancel a run when a commit is pushed, and for every
run that ended set or remove the label and create or update one comment.
Hard: a source that is skipped is silently never judged; two revisions of one repository
share a clone; feedbacks of two runs may overlap and end in either order; a request to GitHub may
fail after the ones before it. Correct if, whenever no feedback is under way, the label says
what the workflow found of the commit (unless a request failed or feedbacks overlapped), there is
one comment, and a violation in a rendered manifest ends up as a label.

### Programs and parts that are not modelled yet, or will not be

| Part | Why |
|---|---|
| VPA recommendation collector | planned; one listing and one PUT, a smaller `ProviderExport` |
| Decisions of the container right-sizing rules | planned; only their OOM record (`OomGuardrail`) is modelled |
| OpenSearch ISM and alerting apply Jobs | planned (`IsmApply`, `AlertingApply`): conditional requests that may stop anywhere and are run again |
| Transcode workers, KEDA, Karpenter | planned (`BurstScaling`); the worker's own code is not in this repository |
| Log pipeline (Fluent Bit) | the normalisation is planned as a function; the rest is Fluent Bit's |
| Pricing generator | pure arithmetic over a table; planned as an operator |
| Alert rules, ingress, WAF, policies, Argo CD, Keycloak, dashboards | declarations for third-party controllers; no code of this repository runs |

`PROJECT.json` lists every part with its files, and the hazards of the code at their lines.

## 2. Modules, and how they correspond to the code

| Module | Code | Uses |
|---|---|---|
| `RunResult` | the result line and its two verdicts: `main()` of `runner.py`, `result_samples` and `failed_job_result` of `collector.py` | |
| `LoadRun` | abstract: what one load Job promises | `RunResult` |
| `LoadRunner` | `main`, `upload_one`, `poll_ready`, `push_progress` with their threads | `RunResult`; implements `LoadRun` |
| `TokenCache` | `access_token` and its lock | |
| `ResultCollector` | `main` of `collector.py` over several Jobs, the Pushgateway, the calendar | `RunResult`; its Jobs are `LoadRun`s |
| `NodeWindow` | `karpenter_node_metrics`, `integrate_step_series` | |
| `QueueEvidence` | `queue_metrics`, the recording rule and the lag of the SQS exporter | |
| `ProviderExport` | the two groups and two PUTs both provider collectors have | |
| `GcpRecommender` | `gcp_recommender_collector.py` | `ProviderExport` |
| `ComputeOptimizer` | the init container and `aws_compute_optimizer_collector.py` | `ProviderExport` |
| `OnpremRightSizing` | the decision rules the generator writes | |
| `OomGuardrail` | `oom_expr` of the generator and the container OOM rules | |
| `RightSizingReview` | `safe_review_expr` and the guardrails around the decision: the review of one node under scrapes that fail | extends `OnpremRightSizing`; an instance of `OomGuardrail` |
| `ResourcePolicy` | the renderer and what the policy says of a rendered commit | |
| `PolicyFeedback` | the two workflows on a pull request | `ResourcePolicy` |
| `S3Inventory` | the init container and the inventory mode of `aws_s3_finops_collector.py` | |
| `MC...` | finite instances for TLC | their module |
| `...Proofs` | theorems and proofs | their module; `EvidenceProofs` is about `NodeWindow` and `QueueEvidence`, `LoadRunnerProofs` also about `LoadRun` and `TokenCache`, `GcpRecommenderProofs` also about `ComputeOptimizer` |
| `SumTheorems` | what is true of every sum over a finite set | |

The composition along the load test is: `LoadRunner` implements `LoadRun` (checked as
the property `ImplementsLoadRun` and proved), and `ResultCollector` runs over Jobs of
which the property `JobsAreLoadRuns` says that each behaves as a `LoadRun`. So what the
Collector's model relies on is what the Runner's model delivers.

**LoadRunner.** One state per future: `up[i]` follows the three requests of `upload_one`,
`track[i]` that of `poll_ready`; `waiting` is the queue of the tracker pool. A request
either succeeds or raises, and when it raises the service may have carried it out. A push
either replaces the group or raises, and when it raises the group may have been replaced.
`TakeItem` keeps the order of the `try` block at line 348: the tracker is submitted and
counted *before* the push, so a raising push leaves a track both tracked and recorded as
an upload error. `Expire` is the deadline, which runs from the end of the upload, so a
track can time out without having been polled. `Kill` is possible before any step. A poll
that sees no terminal status changes nothing and is no step.

**ResultCollector.** `listed` is the cycle's list of Jobs as it was read, with what was
then known of each, and `position` the place of the loop; everything else changes between
two iterations. One iteration (log, result, metrics, PUT) is one step: between its reads
and its PUT only evidence of Prometheus is read, which is nondeterministic. `Settle` stands
for the collection delay: of the time of a run the loop uses only whether the delay has
passed. `AbortCycle` is a request that raises or a Pod that is ended. Two kinds of requests
are refused in every cycle: `MuteLog(j)` is the log of a failed Job whose Pod has none (a
container that never started), and `Age(j)` is a run whose start is so long ago that the range
of the node query has more than the 11 000 points Prometheus answers. `main` catches neither, so
with `LogRefused` or `RangeRefused` the only step at that place is `AbortCycle`.

**NodeWindow.** `points` is the history that the range query returns, one sample per step;
each cycle evaluates all of it. **QueueEvidence.** `queue` is the real queue, `visible` and
`inflight` what was scraped of it: late by `LAG`, with gaps, and held for `HOLD` minutes by
the recording rule. Its behaviours are `QueueSpec`, and those of `TokenCache` are `CacheSpec`:
each is proved about in one module with another specification, `Spec`.

**GcpRecommender.** `LISTING` is the order in which the API lists, `cursor` the place for
which the page token stands; a page is any part of what is left. `throughout` and `ever`
are history: the recommendations that were there all the time, and at some time, since the
attempt began. **ComputeOptimizer.** The four CLI calls are four steps; `set -eu` is
`InitFails`, after which nothing is pushed.

**S3Inventory.** Two lists for each bucket, in the order of the shell loop, then one step
that computes and pushes. Versions are numbered; a deletion makes a delete marker. Days are
integers; costs are in prices of a byte and a day, so the sums are exact where the code has
floating-point divisions by 30 and 1024^3. Sums, here and over the Requests of a node, are
the folds of the community modules.

**OnpremRightSizing.** One operator for each recorded expression, the load and the node's
profile as variables. **OomGuardrail.** Ages of samples instead of timestamps: an age counts
evaluations up to the lookback `WINDOW`. `answered` and `shown` are the last scrape, which is
empty if it failed: the series end, their past does not. `kept` and `known` are history
variables for the properties. **RightSizingReview.** `usage` is the set of ages of the
kubelet's samples, so `Observed` counts samples and not time, as `count_over_time` does;
`pressure` is the MemoryPressure of the last scrape. `Published` is whether the node has a
recommendation at all: without a scrape there are no labels to filter by.

**ResourcePolicy.** A commit is a sequence of Applications and the world around it (what a
reference resolves to); `Rendering` is a recursive function over its targets, with the clones
and the documents made so far in its value, in the order of `main` of the renderer. Helm,
Kustomize and Kyverno are external: a manifest either violates the policy or does not. **PolicyFeedback.** `Push`
cancels the run of the commit before (`cancel-in-progress`), `End` ends a run, and each ended
run has a feedback of three requests that may each fail (`GiveUp`). `due`, `labelled`
and `overlapped` are history variables: what the label should be, who set it, and whether two
feedbacks were ever under way at once.

`RunResult.WellFormed` is the one definition without lines of its own: it is the contract
between the two programs, and `ImplementsLoadRun` shows that the Runner keeps it.

## 3. What is checked

All runs are in `PROJECT.json`; every property has a mutant there, a plausible bug in a
modelled definition under which TLC finds the property violated. The passing
runs have between 8 533 and three million distinct states and take at most three and a half
minutes with two workers.

| Run | Shows | Bounds, and why they suffice |
|---|---|---|
| `runner_pool` | a pooled run, every request, push and poll failing at will, the Job killed anywhere: accounting, clean exits, verdicts, progress, termination, the refinement of `LoadRun` | 3 tracks asked for, cap 2, pools of 2: the cap, full pools and two tracks at different stages occur; a full queue of the tracker pool is in the proofs, for all sizes (with `MAX_WORKERS = 1` the run passes too) |
| `token_cache` | fresh tokens, bounded requests, the lock | 3 threads: one fetches, two wait; lifetimes at the minimum and above; 8 units of time are two expirations |
| `node_window` | the node time of a run is that of one whole episode and settles | every history of up to 7 samples of 0 to 2 nodes with the finish at 3: tails, returns to zero before, at and after the finish, later episodes |
| `queue` | the verdicts on the queue agree, an observed drain is an upper bound | 4 minutes, of which the run's window has the last 3, with a lag and a hold of 1; each scrape of each series answered or not: drains, refills, gaps that are held over and gaps that are not, samples from before the window |
| `collector` | `run_info`, what is kept, that it is reported, that its Jobs are the contract's | two Jobs of one track, one with a `RUN_ID` and one without; a clean line and one with a `TIMEOUT`; every loss, restart, abort and refused request |
| `gcp_recommender` | whole listings, counts, catching up, the visible outage | a node with two recommendations and a VM that is no node between them: up to three pages, repeats and dropped items |
| `compute_optimizer` | counts, catching up with sizes | one node, two types, findings with and without an option |
| `compute_optimizer_outage` | *violation*: see section 6 | the same |
| `rightsizing_review` | the decision is the policy's, one recommendation, advice settles; an OOM blocks for the lookback; safe is safe, and a node whose kills are forgotten becomes safe | three profiles, two of them equal in cost and vCPUs, and three loads between which all four decisions occur; two Pods of one workload, two nodes, a lookback of 2 evaluations: a kill, its successor, a move and an age that runs out |
| `policy_feedback` | the label is the commit's, one comment, a violation is labelled | 15 commits of up to two sources: rendered, ignored, skipped, a second revision of a repository, a failing fetch; 3 pushes: two feedbacks overlap while a third run is under way |
| `s3_inventory` | whole inventory, double counting, the two formulas | two incoming objects and one of the other bucket, 3 versions, sizes below and above the billed minimum, 3 days across both transitions |
| `node_window_empty` | *violation*: see section 6 | as `node_window` |

Every module with an assumption on its constants is evaluated by one of these runs.

Deadlock is not checked in five runs, where the system stops for good reason: a load Job
has ended (`runner_pool`), nobody pushes any more (`policy_feedback`), or the bound on
the history is reached and nothing is left to evaluate (`node_window`, `node_window_empty`, `queue`).

Symmetry is used in `token_cache` (the threads) and in `s3_inventory` (the keys with the
prefix of the quarantine bucket): no definition tells these apart, and both runs check
safety only.

### Fairness

* `LoadRunner`: weak fairness for each step of `main` and of each thread. The interpreter
  runs runnable threads and every `urlopen` has a timeout. `Transcode` is *not* fair:
  `RunEnds` must hold when the service never finishes a track, and the deadline
  (`Expire`) is what makes it hold.
* `ResultCollector`: cycles start (a CronJob) and end (`activeDeadlineSeconds`, hence weak
  fairness of `AbortCycle`), and strong fairness for each place of the loop: a request that
  *can* be answered and is repeated in every cycle is answered in one of them. Nothing is
  promised of a request that is refused: the actions are not enabled while it is. Two refusals
  are permanent and modelled as such, a log that cannot be read and a range that is too long;
  `ResultsReported` names them, for the Job itself *and for each Job before it in the list*,
  and is violated without that exception. `RestartGateway`, `LosePod`, `MuteLog`, `Age` and
  `DeleteJob` are not fair and may happen for ever in between.
* `GcpRecommender`, `ComputeOptimizer`: attempts start and end; strong fairness for each
  request, as above, though only in behaviours in which the API answers: the actions are
  not enabled while it does not. `CatchesUp` assumes in its statement that provider and
  cluster stop changing.
* `RightSizingReview`: the rules are evaluated for ever, as Prometheus does; the fair action is
  the evaluation that leaves the kubelet's newest sample as it is (`Evaluate(usage \cap {0})`),
  so fairness promises neither an answer of kube-state-metrics nor one of the kubelet. Those are
  in the premise of `QuietNodeIsReleased`, with `KillsForgotten`: of no Pod that exists the last
  termination was an OOM. That is a real restriction (section 6): the property shows that the
  series of Pods that are gone or moved, and hours without samples, block no longer than the
  lookback, not that an OOM of a Pod that runs on does.
* `PolicyFeedback`: a run ends and a feedback takes its steps (GitHub's runners have time-outs).
  `Push`, and the failures `GiveUp`, `KeepLabel` and `Break`, are not fair.
* The other modules have safety properties only and no fairness.

## 4. What is proved

The proofs hold for every value of the constants that satisfies the named assumption of
the module. Each safety theorem follows the same argument: an inductive invariant `IInv`,
`Init => IInv`, `IInv /\ [Next]_vars => IInv'`, and the property from it.

| Module | Theorems | The inductive invariant, and why the property alone is not enough |
|---|---|---|
| `LoadRunnerProofs` | `TypeCorrect`, `AccountedAlways`, `CleanExitCorrect`, `ProgressAlwaysSound`, `ProgressNeverBack`, `VerdictsAlwaysAgree`, `RunnerImplementsLoadRun` | `TypeOK`, `TrackPlaces`, `CountersExact`, `GaugeBehind`, `LineFinal`: which state of an upload goes with which state of its tracker, that the counters are the sizes of the sets they count, that the group is behind the counters, and that the printed line is the final one. A counter is only known to be sound because it equals a set. |
| | `SuccessCorrect`, `RunnerSuccessCorrect` | `LineBehindService`: the READY tracks of the line are READY in the service; that this makes *each* track READY is a count of a subset. It is an invariant of the contract `LoadRun`, and the Runner has it by the refinement. |
| | `LockCorrect`, `TokensAlwaysBounded`, `AlwaysHandedOutFresh` | `CacheIsEarly`, `OneAsks`, `Spaced`: the cache's own expiry is before the token's, one thread asks at a time, and `issued * FLOOR` never passes the cached expiry |
| `ResultCollectorProofs` | `InfoCorrect`, `SuccessNeverTakenBack`, `JobsRunAsPromised` | `Types`, `LinesBehindService`, `ListIsTrue`, `GroupIsTrue`: what the cycle remembers of a Job remains true of it, because statuses and lines never change once set; a functional group has the clean line of its Job. `JobsRunAsPromised` is a refinement: a step of the Collector's world is, for every Job, a step of `LoadRun` or a stutter (`JobStepIsLoadRun`) |
| `EvidenceProofs` | `NodeTimeNeverChanges`, `NodeTimeAlwaysWhole` | `Evaluated`: what is published was computed from some prefix of the history, not shorter than the finish; the first return to zero of a prefix is that of every longer history, and what lies between the finish and that return adds up |
| | `DrainVerdictsAlwaysAgree`, `BurstAlwaysNeedsDrain`, `DrainAlwaysUpperBound` | `QueueInv`: the series are as long as time, and each sample is the queue of `LAG` minutes before or is missing. The verdicts are about a least and a largest point of the merged window (`DrainedAtIsFirst`, `DrainMeaning`) |
| `GcpRecommenderProofs` | `SuccessCountsAll`, `WholeListingAlways`, `AwsSuccessCountsAll` | `WorldInv`, `ListInv`, `CountInv`: what lies before the cursor and was there all along has been read (`ReadOnce`); between the two PUTs the group is what was parsed (`AwsCount` for AWS) |
| `OnpremRightSizingProofs` | `DecisionIsAlwaysPolicy`, `OneRecommendationAlways`, `ResizeAlwaysSettles`, `ReviewIsRightSizing` | the order `Before` is total and well founded on a finite catalog, so a feasible profile has a first one (`FirstProfile`) and it is a cheapest one; the review implements the rules, so the first three hold of it too |
| | `ResidentOomAlwaysBlocks`, `WorkloadOomAlwaysKept`, `SafeIsAlwaysSafe` | `GuardTypes`, `SeriesKept`, `KeptIsResident`, `KeptIsShown`: what is kept of a Pod is not younger than its series, and a Pod with something kept is in the last answered scrape, at the node where it still is. A safe node's Requests are sums over the Pods shown, and those of the Pods still there are a part of them (`FewerFit`) |
| `PolicyFeedbackProofs` | `CheckIsComplete` | `RenderInv`, an invariant of the renderer's loop: after each target, the documents are those of the sources seen, each from its own commit, or it has raised |
| | `OneCommentAlways`, `LabelAlwaysTheCommit` | `Lengths`, `Verdict`, `Labelled`, `Comments`: the conclusion of the newest run is the verdict on the newest commit, the label is what its last writer made of its conclusion, and the feedback under way has found every comment there is |
| `S3InventoryProofs` | `WholeInventoryAlways`, `CountedOnceAlways` | `IdInv`, `PlaceInv`, `SeenInv`, `ListInv`, `OnceInv`: of the bucket at the place, what the first list misses is noncurrent and stays so until the second; what replaces a listed version is new |
| | `ForecastAlwaysHolds`, `CumulativeAlwaysDaily`, `CumulativeIsTheDays`, `ClassDaysAreDays` | `StoreInv`, `Right`: what is published was listed, and its costs are those of the day it was published. The cost of a later day is the forecast because the classes of all objects are the same; the cumulative cost grows from one horizon to the next by the price of that day (`CumulativeStep`) |
| `SumTheorems` | lemmas only, about every sum over a finite set, whatever the code does: `SumEmpty`, `SumSame`, `SumType`, `SumAdds`, `SumGrows`, `SumOfDays` | the fold chooses its elements in some order; the sum is the same in any (`AnyOrder`) |

Assumptions on constants, in the modules that declare them: `RunnerConstants`,
`CollectorConstants` (no two Jobs have one `RUN_ID`, as `EXPERIMENT.md` demands of every
reviewed run; a line has at most two upload errors for each track, as `runner.py` records at
most two), `WindowConstants`, `EvidenceConstants`, `RecommenderConstants`, `PolicyConstants`,
`ReviewConstants` (the hours of a review are within the lookback, the Pods are finitely many),
`TokenConstants` (`FLOOR + MARGIN <= MINLIFE`, `MARGIN + TIMEOUT < MINLIFE`, and Keycloak's
lifetimes are not shorter than the 60 s the code reckons with), `InventoryConstants`
(the transition days are in order, and 0 is a horizon), `CommitsAreYaml` (a commit has a list of
Applications). `CheckIsComplete` assumes that no two sources of a commit share a path or
a clone at two revisions (`Distinct`, see section 6).

Some cases are covered by the proofs only: `INTERVAL` (uploads one by one on the main
thread), pools smaller than the number of tracks by more than one, several zones of the
Recommender, other catalogs than the one that is run. Liveness has no proofs, so it is shown for
the instances of the runs only: two zones of the Recommender, for one, are not in `CatchesUp`.

The proofs need induction over data in several places: sums over sets, the renderer's loop, the
cumulative cost from one horizon to the next. The library's induction theorems take an operator,
which the installed provers cannot instantiate, so each induction is written as a least
counterexample: the set of the sizes, lengths or days for which the claim fails has a least
element (`LeastNat`, from the well-founded order of the naturals), and the step before it gives
the contradiction. `SumTheorems` does so once for all sums, including the existence of the
recursive function that a fold is.

Every safety invariant and action property that a passing run checks is now proved. Only
model-checked: liveness (`RunEnds`, `ResultsReported`, `CatchesUp`, `OutageIsShown`,
`QuietNodeIsReleased`, `ViolationIsLabelled`), because fairness and `ENABLED` are out of the
provers' reach, and the two violations of section 6.

## 5. Abstractions that matter

* A PUT is applied when it is sent or never, and then its answer arrives or is lost. A PUT
  that the Pushgateway applies *later*, after the client gave up, is not modelled.
* `MuteLog` may befall any failed Job whose Pod has printed and finished nothing, and `BecomeReady`
  any track of a Job that runs: more than can happen. A log that a kubelet cannot deliver for a
  while is the failure of one cycle.
* One attempt of a provider collector at a time: `concurrencyPolicy: Forbid` holds within a
  CronJob; an operator's one-off Job beside it is a hazard that is not modelled.
* A page token is a place in the order of the API's listing, and recommendations keep their
  places in it. One list call on one S3 bucket is atomic, although the CLI reads pages.
* Reading the token and checking its expiry is one step, as it is under the lock.
* Noncurrent versions are removed only by expiry; a version is not deleted by its id, and
  objects are in the Standard class.
* Metrics that no state or verdict depends on (CPU, memory, latency, worker cost, wording,
  labels) are not in the models. Nor are the on-prem confidence, savings and alert, which only read what
  the modelled rules record.
* A type invariant is stated where it carries something (`LoadRunner`) or a proof
  (`TokenCache`, the invariants in the `...Proofs`); elsewhere it would say no more than the
  other properties do.
* `ResourcePolicy` covers what the renderer does with a source, not what Helm makes of it. As
  in the code, value files without `$values/` are ignored, a source with both `ref` and `path`
  is not rendered, and a manifest without a namespace matches no rule. Pull requests from forks
  get no feedback, and manual re-runs of a workflow are not modelled. Nor is the `paths` filter
  of `finops-resource-policy.yaml` (lines 5 to 11): in the model every push starts a run. In the
  code a pull request that touches none of these paths has no run and no feedback, and a push
  that takes the last such change back leaves the label as it is.
* Values are small integers where only their order counts; the code's floating point enters
  in costs only, and the models' costs are exact.

## 6. Findings

Two places where a comment or a document says something else than the code does; each has a
run of its own that TLC violates, and is quoted in `PROJECT.json`.

1. `compute_optimizer_outage`: `FINOPS.md` promises that a failed collection is told apart
   and that AWS keeps the same contract of metrics as GCP. The API is called in the init
   container under `set -eu`; when it fails, the Python program that would report the failure
   does not run, and the last success is shown for as long as the outage lasts.
2. `node_window_empty`: the comment in `karpenter_node_metrics` says that the window closes so
   that nodes of later runs do not mix in. A run that started no node has no step at which its
   window closes; as soon as a later run starts a node, the next evaluation charges that
   run's node time to the earlier one.

Noticed while modelling, and stated here without a run of their own:

* The query for the nodes goes from the start of a run to now in steps of 15 s. When the run
  started more than about 46 h ago, Prometheus refuses it (more than 11 000 points) with a status
  that `collector.py` does not catch, in every cycle: neither that run nor any Job after it in
  the list is collected until the Job is gone, although `EXPERIMENT.md` (lines 102 to 104) says
  that the collection is retried every ten minutes during the experiment. A failed Job whose Pod has no log does the same. Without its
  last disjunct `ResultsReported` is violated: one Job fails and ages, each cycle ends at it, and
  the other is never reported.
* `karpenter_nodes_max` (line 262) is the maximum over the whole history up to now, also
  after the run's window has closed.
* The two queue series are merged by timestamp, and a sample that one of them lacks counts as
  zero: a run can be complete with half of the queue unseen for some minutes.
* Without a `RUN_ID` the Runner's group has the name of its Pod and the made-up result that
  of its Job (`runner.py:43`, `collector.py:354`), so such a run has two groups.
* A failed run whose true result line was published loses it to the made-up one once its Pod
  is gone; a succeeded run whose Pod is gone before its first due cycle is never published.
* A type that is missing from `instance-types.json` is published with zero vCPUs and zero
  memory (`GP/aws_compute_optimizer_collector.py:142`).
* The node rule joins an OOM of the past with where the Pod is now: the signal of a node is
  lost when the killed Pod moves (`generate_onprem_rightsizing.py:150`). The other way round,
  kube-state-metrics repeats the last termination as long as the container lives, so a Pod that
  was killed once and has run on for weeks still blocks its node, although
  `RIGHTSIZING-METHODOLOGY.md` speaks of the last seven days. `QuietNodeIsReleased` assumes
  `KillsForgotten` for this reason and is violated when kills are only assumed to have stopped.
* The Requests of Pods that have completed still count for a node.
* `OnPremRightSizingBlockedByRequests` also fires for a node without any Request, because the
  rule that it negates has no series then.
* A comment of `GP/finops-recording-rules.yaml` (line 729) speaks of the age of a continuously
  exported series; the rule takes the age of the oldest sample of seven days, over any gap.
* Four keys of the on-prem policy are read by nothing: `blockOnOOMKilled`,
  `blockOnMemoryPressure`, `minimumMonthlySavingsUSD`, `requireCheaperProfile`.
* The feedback's comment of a success is written also when the label could not be removed
  (`.github/workflows/finops-resource-policy-feedback.yaml:41`), and a run that was cancelled or
  whose runner failed is reported like a violation.
* The feedback of an older run may end last; `labelled` in `LabelIsTheCommit` and
  `ViolationIsLabelled` excludes exactly that, and the hazard list names it.
* The renderer judges an Application by its destination namespace only, and a second revision
  of a repository is rendered from the clone of the first (`Distinct` is what it relies on).
* The governance README (lines 54, 63 and 81) says `Audit` where `require-resource-limits.yaml:13`
  enforces.

## 7. Plan

Written so far, in this order: the result line and the Runner, its abstract contract and the
refinement; the node window and the queue evidence; the Collector over the contract; the
provider collectors over what they share; the right-sizing rules; the token cache; the S3
inventory; the review of a node over the rules and the OOM guardrail; the resource policy and its
feedback. What comes next, most important first:

1. `BurstScaling`: the queue with its visibility timeout (900 s) and a worker's two hours,
   KEDA's two triggers, cooldown and Karpenter's nodes. Properties: no message is lost, a
   message that is delivered again while it is transcoded is visible as a retry, the burst
   nodes return to zero. It would feed `NodeWindow` and `QueueEvidence` with queues that a
   scaler produces instead of all queues.
2. `IsmApply` and `AlertingApply`: the conditional PUT with `_seq_no`, and search then create
   or update, each stopped anywhere and run again, two syncs at once. Properties: a rerun
   converges, one monitor for each name.
3. Two attempts of a provider collector at once, and a PUT that is applied late, in
   `ProviderExport`; `SuccessCounts` and `CatchesUp` under both.
4. The policy mode of the S3 collector, the VPA collector, the decisions of the container
   rules, and the pricing generator and Fluent Bit's normalisation as operators checked against
   a reference definition.

Proofs worth having next: `WholeListing` for `ComputeOptimizer`, which no run states yet; the
safety half of the liveness properties (each step of a cycle decreases a measure, so that only
the fairness of the steps is left to TLC); and of the modules of this plan the same as of the
others, an inductive invariant for each.

## 8. Reproducing

In this directory, with the TLA+ tools, the community modules and TLAPS installed:

    tlc -workers 2 -config LoadRunnerPool.cfg LoadRunner.tla
    tlapm LoadRunnerProofs.tla

`PROJECT.json` names the module and the configuration of each run.
