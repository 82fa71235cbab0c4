------------------------ MODULE ResultCollectorProofs ------------------------
(***************************************************************************)
(* What the Pushgateway says of the runs, for every list of Jobs, every    *)
(* number of tracks and every set of result lines.                         *)
(***************************************************************************)
EXTENDS ResultCollector, FiniteSetTheorems, TLAPS

Status == {"active", "succeeded", "failed"}

\* The part of the type invariant that the arguments below need.
Types == /\ status \in [Jobs -> Status]
         /\ line \in [Jobs -> RunLines \cup {NoLine}]
         /\ ready \in [Jobs -> SUBSET Index]
         /\ DOMAIN groups = GroupIds

\* A result line never runs ahead of the service.
LinesBehindService ==
  \A j \in Jobs : line[j] # NoLine => WellFormed(line[j], COUNT, Cardinality(ready[j]))

\* The cycle's list is one of terminal Jobs, and says truly which of them failed.
ListIsTrue ==
  \A e \in listed : /\ e.job \in Jobs
                    /\ status[e.job] \in {"succeeded", "failed"}
                    /\ e.failed \in BOOLEAN
                    /\ e.failed <=> status[e.job] = "failed"

\* A group that claims success repeats what the log of its own run said.
GroupIsTrue(g) ==
  groups[g] # NoGroup =>
    /\ groups[g].job \in Jobs
    /\ groups[g].functional => /\ line[groups[g].job] # NoLine
                               /\ FunctionalSuccess(line[groups[g].job])
                               /\ g = RunId(groups[g].job)
    /\ groups[g].info => groups[g].functional /\ status[groups[g].job] = "succeeded"

IInv == /\ Types
        /\ LinesBehindService
        /\ ListIsTrue
        /\ \A g \in GroupIds : GroupIsTrue(g)

-----------------------------------------------------------------------------
LEMMA Ids == ASSUME NEW j \in Jobs PROVE RunId(j) \in GroupIds /\ SyntheticId(j) \in GroupIds
BY DEF RunId, SyntheticId, GroupIds

\* Distinct Jobs never share a run_id, nor does the made-up one of one Job hit the
\* run_id of another.
LEMMA IdsDiffer ==
  ASSUME NEW j \in Jobs, NEW k \in Jobs
  PROVE  /\ RunId(j) = RunId(k) => j = k
         /\ SyntheticId(j) = RunId(k) => j = k
<1>1. RUN_ID[j] # Unset /\ RUN_ID[j] = RUN_ID[k] => j = k
  BY CollectorConstants
<1> QED BY <1>1 DEF RunId, SyntheticId

LEMMA IndexFinite == IsFiniteSet(Index) /\ Cardinality(Index) = COUNT
BY CollectorConstants, FS_Interval DEF Index

\* The made-up result of a failed Job is never a functional success.
LEMMA FailedJobResultFails == ~FunctionalSuccess(FailedJobResult(COUNT))
<1>1. FailedJobResult(COUNT).submitted = 0 /\ FailedJobResult(COUNT).requested = COUNT
  BY DEF FailedJobResult
<1>2. COUNT # 0
  BY CollectorConstants
<1> QED BY <1>1, <1>2 DEF FunctionalSuccess

\* A functional success, with the line behind the service, is one of every track.
LEMMA SuccessIsComplete ==
  ASSUME NEW r \in Result, NEW s \in SUBSET Index,
         WellFormed(r, COUNT, Cardinality(s)), FunctionalSuccess(r)
  PROVE  s = Index
<1>1. COUNT <= Cardinality(s)
  <2>1. Ready(r) = COUNT /\ Ready(r) <= Cardinality(s)
    BY DEF WellFormed, FunctionalSuccess
  <2> QED BY <2>1
<1>2. Cardinality(s) \in Nat /\ Cardinality(s) <= COUNT
  BY IndexFinite, FS_Subset, FS_CardinalityType
<1>3. Cardinality(s) = Cardinality(Index)
  BY <1>1, <1>2, IndexFinite, CollectorConstants
<1> QED BY <1>3, IndexFinite, FS_Subset

\* A line stays well-formed while more tracks become READY.
LEMMA ReadyGrows ==
  ASSUME NEW r \in Result, NEW s \in SUBSET Index, NEW t \in SUBSET Index, s \subseteq t,
         WellFormed(r, COUNT, Cardinality(s))
  PROVE  WellFormed(r, COUNT, Cardinality(t))
<1>1. Cardinality(s) \in Nat /\ Cardinality(t) \in Nat /\ Cardinality(s) <= Cardinality(t)
  BY IndexFinite, FS_Subset, FS_CardinalityType
<1>2. Ready(r) \in Nat
  BY DEF Ready, Result, StatusKey, FinalStatus, TerminalStatus
<1>3. Ready(r) <= Cardinality(t)
  <2>1. Ready(r) <= Cardinality(s)
    BY DEF WellFormed
  <2> QED BY <1>1, <1>2, <2>1
<1> QED BY <1>3 DEF WellFormed

-----------------------------------------------------------------------------
\* What a step of a Job cannot undo.
Kept == /\ \A j \in Jobs : line[j] # NoLine => line'[j] = line[j]
        /\ \A j \in Jobs : status[j] \in {"succeeded", "failed"} => status'[j] = status[j]

\* Only the Jobs' own steps change them, and never back.
JobsMoveOn == /\ Types' /\ LinesBehindService' /\ Kept

LEMMA JobsUnchanged ==
  ASSUME IInv, UNCHANGED jobVars, DOMAIN groups' = GroupIds
  PROVE  JobsMoveOn
<1>1. UNCHANGED <<status, line, ready>>
  BY DEF jobVars
<1>2. Types'
  BY <1>1 DEF IInv, Types
<1>3. LinesBehindService'
  BY <1>1 DEF IInv, LinesBehindService
<1> QED BY <1>1, <1>2, <1>3 DEF JobsMoveOn, Kept

LEMMA JobStepMovesOn == ASSUME IInv, NEW j \in Jobs, JobStep(j) PROVE JobsMoveOn
<1> USE DEF IInv, Types, Status
<1>1. ASSUME NEW i \in Index, BecomeReady(j, i) PROVE JobsMoveOn
  <2>1. /\ UNCHANGED <<status, line, groups>>
        /\ ready' = [ready EXCEPT ![j] = @ \cup {i}]
    BY <1>1 DEF BecomeReady
  <2>2. Types'
    BY <2>1
  <2>3. \A k \in Jobs : ready[k] \subseteq ready'[k]
    BY <2>1
  <2>4. ASSUME NEW k \in Jobs, line'[k] # NoLine
        PROVE  WellFormed(line'[k], COUNT, Cardinality(ready'[k]))
    <3>1. line'[k] = line[k] /\ line[k] \in Result
      BY <2>1, <2>4, CollectorConstants
    <3>2. WellFormed(line[k], COUNT, Cardinality(ready[k]))
      BY <2>4, <3>1 DEF LinesBehindService
    <3>3. ready[k] \in SUBSET Index /\ ready'[k] \in SUBSET Index
      BY <2>2
    <3> QED BY <2>3, <3>1, <3>2, <3>3, ReadyGrows
  <2>5. LinesBehindService'
    BY <2>4 DEF LinesBehindService
  <2> QED BY <2>1, <2>2, <2>5 DEF JobsMoveOn, Kept
<1>2. CASE PushProgress(j)
  BY <1>2, JobsUnchanged DEF PushProgress, Replace
<1>3. CASE Report(j)
  <2>1. /\ UNCHANGED <<status, ready, groups>>
        /\ line[j] = NoLine
    BY <1>3 DEF Report
  <2>2. PICK r \in RunLines : /\ WellFormed(r, COUNT, Cardinality(ready[j]))
                              /\ line' = [line EXCEPT ![j] = r]
    BY <1>3 DEF Report
  <2>3. Types'
    BY <2>1, <2>2
  <2>4. ASSUME NEW k \in Jobs, line'[k] # NoLine
        PROVE  WellFormed(line'[k], COUNT, Cardinality(ready'[k]))
    <3>1. CASE k = j
      BY <2>1, <2>2, <3>1
    <3>2. CASE k # j
      BY <2>1, <2>2, <2>4, <3>2 DEF LinesBehindService
    <3> QED BY <3>1, <3>2
  <2>5. LinesBehindService'
    BY <2>4 DEF LinesBehindService
  <2>6. Kept
    BY <2>1, <2>2 DEF Kept
  <2> QED BY <2>3, <2>5, <2>6 DEF JobsMoveOn
<1>4. ASSUME status[j] = "active",
             \E s \in {"succeeded", "failed"} : status' = [status EXCEPT ![j] = s],
             UNCHANGED <<line, ready, groups>>
      PROVE  JobsMoveOn
  <2>1. Types'
    BY <1>4
  <2>2. LinesBehindService'
    BY <1>4 DEF LinesBehindService
  <2>3. Kept
    BY <1>4 DEF Kept
  <2> QED BY <2>1, <2>2, <2>3 DEF JobsMoveOn
<1>5. CASE Succeed(j) \/ Fail(j)
  BY <1>4, <1>5 DEF Succeed, Fail
<1>6. ASSUME UNCHANGED <<status, line, ready, groups>> PROVE JobsMoveOn
  <2>1. Types' /\ LinesBehindService'
    BY <1>6 DEF LinesBehindService
  <2> QED BY <1>6, <2>1 DEF JobsMoveOn, Kept
<1>7. CASE LosePod(j) \/ MuteLog(j) \/ Settle(j) \/ Age(j) \/ DeleteJob(j)
  BY <1>6, <1>7 DEF LosePod, MuteLog, Settle, Age, DeleteJob
<1> QED BY <1>1, <1>2, <1>3, <1>5, <1>7 DEF JobStep

\* A list that was true stays true, and so does a group that is not replaced.
LEMMA TruthIsKept ==
  ASSUME IInv, JobsMoveOn
  PROVE  /\ listed' \subseteq listed => ListIsTrue'
         /\ \A g \in GroupIds : groups'[g] = groups[g] => GroupIsTrue(g)'
<1>1. listed' \subseteq listed => ListIsTrue'
  BY DEF IInv, ListIsTrue, JobsMoveOn, Kept
<1>2. ASSUME NEW g \in GroupIds, groups'[g] = groups[g] PROVE GroupIsTrue(g)'
  <2> SUFFICES ASSUME groups[g] # NoGroup PROVE GroupIsTrue(g)'
    BY <1>2 DEF GroupIsTrue
  <2> DEFINE j == groups[g].job
  <2>1. j \in Jobs /\ GroupIsTrue(g)
    BY DEF IInv, GroupIsTrue
  <2>2. groups[g].functional => line'[j] = line[j]
    BY <2>1 DEF GroupIsTrue, JobsMoveOn, Kept
  <2>3. groups[g].info => status'[j] = "succeeded"
    BY <2>1 DEF GroupIsTrue, JobsMoveOn, Kept
  <2> QED BY <1>2, <2>1, <2>2, <2>3 DEF GroupIsTrue
<1> QED BY <1>1, <1>2

-----------------------------------------------------------------------------
\* The group a publication writes says what the run's log said.
LEMMA PublishedIsTrue ==
  ASSUME IInv, NEW e \in listed, ~MissingLog(e)
  PROVE  /\ e.job \in Jobs
         /\ FunctionalSuccess(ResultOf(e)) => /\ ~Synthetic(e)
                                              /\ line[e.job] # NoLine
                                              /\ ResultOf(e) = line[e.job]
         /\ ~e.failed => status[e.job] = "succeeded"
<1>1. e.job \in Jobs /\ (~e.failed => status[e.job] = "succeeded")
  BY DEF IInv, ListIsTrue
<1>2. Synthetic(e) => ~FunctionalSuccess(ResultOf(e))
  BY FailedJobResultFails DEF ResultOf
<1>3. ~Synthetic(e) => LogResult(e.job) # NoLine /\ ResultOf(e) = LogResult(e.job)
  BY DEF MissingLog, ResultOf
<1>4. LogResult(e.job) # NoLine => LogResult(e.job) = line[e.job]
  BY DEF LogResult
<1> QED BY <1>1, <1>2, <1>3, <1>4

\* One publication, to the group `id` of its Job.
LEMMA PublishStep ==
  ASSUME IInv, NEW e \in listed, NEW evidence \in BOOLEAN, ~MissingLog(e),
         UNCHANGED jobVars, UNCHANGED listed,
         Replace(IF Synthetic(e) THEN SyntheticId(e.job) ELSE RunId(e.job),
                 [job        |-> e.job,
                  by         |-> IF Synthetic(e) THEN "synthetic" ELSE "collector",
                  functional |-> FunctionalSuccess(ResultOf(e)),
                  info       |-> Valid(e, evidence)])
  PROVE  IInv'
<1> DEFINE id == IF Synthetic(e) THEN SyntheticId(e.job) ELSE RunId(e.job)
           sample == [job        |-> e.job,
                      by         |-> IF Synthetic(e) THEN "synthetic" ELSE "collector",
                      functional |-> FunctionalSuccess(ResultOf(e)),
                      info       |-> Valid(e, evidence)]
<1>1. groups' = [groups EXCEPT ![id] = sample] /\ DOMAIN groups' = GroupIds
  BY DEF Replace, IInv, Types
<1>2. JobsMoveOn
  BY <1>1, JobsUnchanged
<1>3. ListIsTrue'
  BY <1>2, TruthIsKept
<1>4. /\ sample.job = e.job
      /\ sample.functional = FunctionalSuccess(ResultOf(e))
      /\ sample.info = Valid(e, evidence)
  OBVIOUS
<1> HIDE DEF sample
<1>5. ASSUME NEW g \in GroupIds, g = id PROVE GroupIsTrue(g)'
  <2>1. groups'[g] = sample
    BY <1>1, <1>5 DEF IInv, Types
  <2>2. UNCHANGED <<line, status>>
    BY DEF jobVars
  <2>3. FunctionalSuccess(ResultOf(e)) => g = RunId(e.job)
    BY <1>5, PublishedIsTrue
  <2>4. FunctionalSuccess(ResultOf(e)) => /\ line[e.job] # NoLine
                                          /\ FunctionalSuccess(line[e.job])
    BY PublishedIsTrue
  <2>5. Valid(e, evidence) => FunctionalSuccess(ResultOf(e)) /\ status[e.job] = "succeeded"
    BY PublishedIsTrue DEF Valid
  <2> HIDE DEF id
  <2> QED BY <1>4, <2>1, <2>2, <2>3, <2>4, <2>5, PublishedIsTrue DEF GroupIsTrue
<1>6. ASSUME NEW g \in GroupIds, g # id PROVE GroupIsTrue(g)'
  <2>1. groups'[g] = groups[g]
    BY <1>1, <1>6 DEF IInv, Types
  <2> QED BY <1>2, <2>1, TruthIsKept
<1> QED BY <1>2, <1>3, <1>5, <1>6 DEF IInv, JobsMoveOn

LEMMA JobStepInv == ASSUME IInv, NEW j \in Jobs, JobStep(j) PROVE IInv'
<1>1. JobsMoveOn
  BY JobStepMovesOn
<1>2. UNCHANGED listed
  BY DEF JobStep, BecomeReady, PushProgress, Report, Succeed, Fail, LosePod, MuteLog,
         Settle, Age, DeleteJob, cycle
<1>3. ListIsTrue'
  BY <1>1, <1>2, TruthIsKept
<1>4. ASSUME NEW g \in GroupIds PROVE GroupIsTrue(g)'
  <2>1. CASE groups'[g] = groups[g]
    BY <1>1, <2>1, TruthIsKept
  <2>2. CASE groups'[g] # groups[g]
    <3>1. PushProgress(j)
      BY <2>2 DEF JobStep, BecomeReady, Report, Succeed, Fail, LosePod, MuteLog, Settle, Age,
                 DeleteJob
    <3>2. groups'[g] = [job |-> j, by |-> "runner", functional |-> FALSE, info |-> FALSE]
      BY <2>2, <3>1 DEF PushProgress, Replace, IInv, Types
    <3>3. groups'[g].job = j /\ ~groups'[g].functional /\ ~groups'[g].info
      BY <3>2
    <3> QED BY <3>3 DEF GroupIsTrue
  <2> QED BY <2>1, <2>2
<1> QED BY <1>1, <1>3, <1>4 DEF IInv, JobsMoveOn

LEMMA InvStep == IInv /\ [Next]_vars => IInv'
<1> SUFFICES ASSUME IInv, [Next]_vars PROVE IInv'
  OBVIOUS
<1>1. ASSUME NEW j \in Jobs, JobStep(j) PROVE IInv'
  BY <1>1, JobStepInv
<1>2. ASSUME UNCHANGED jobVars, UNCHANGED groups, listed' \subseteq listed PROVE IInv'
  <2>1. JobsMoveOn
    BY <1>2, JobsUnchanged DEF IInv, Types
  <2> QED BY <1>2, <2>1, TruthIsKept DEF IInv, JobsMoveOn
<1>3. CASE RestartGateway
  <2>1. UNCHANGED jobVars /\ UNCHANGED listed /\ groups' = [g \in GroupIds |-> NoGroup]
    BY <1>3 DEF RestartGateway, cycle
  <2>2. JobsMoveOn
    BY <2>1, JobsUnchanged
  <2>3. \A g \in GroupIds : GroupIsTrue(g)'
    BY <2>1 DEF GroupIsTrue
  <2> QED BY <2>1, <2>2, <2>3, TruthIsKept DEF IInv, JobsMoveOn
<1>4. CASE PassEndDate \/ SkipActive \/ SkipListed \/ EndCycle \/ AbortCycle \/ UNCHANGED vars
  BY <1>2, <1>4 DEF PassEndDate, SkipActive, SkipListed, EndCycle, AbortCycle, Advance, cycle, vars
<1>5. CASE StartCycle
  <2>1. UNCHANGED jobVars /\ UNCHANGED groups
        /\ listed' = {Entry(j) : j \in {k \in Jobs : Terminal(k)}}
    BY <1>5 DEF StartCycle
  <2>2. JobsMoveOn
    BY <2>1, JobsUnchanged DEF IInv, Types
  <2>3. ASSUME NEW e \in listed'
        PROVE  /\ e.job \in Jobs
               /\ status'[e.job] \in {"succeeded", "failed"}
               /\ e.failed \in BOOLEAN
               /\ e.failed <=> status'[e.job] = "failed"
    <3>1. PICK j \in Jobs : Terminal(j) /\ e = Entry(j)
      BY <2>1
    <3>2. e.job = j /\ e.failed = (status[j] = "failed") /\ status' = status
      BY <2>1, <3>1 DEF Entry, jobVars
    <3> QED BY <3>1, <3>2 DEF Terminal
  <2>4. ListIsTrue'
    BY <2>3 DEF ListIsTrue
  <2> QED BY <2>1, <2>2, <2>4, TruthIsKept DEF IInv, JobsMoveOn
<1>6. CASE Publish
  BY <1>6, PublishStep DEF Publish, Advance
<1> QED BY <1>1, <1>3, <1>4, <1>5, <1>6 DEF Next, Handle

\* The inductive invariant.
LEMMA Invariance == Spec => []IInv
<1>1. Init => IInv
  <2> SUFFICES ASSUME Init PROVE IInv
    OBVIOUS
  <2>1. Types
    BY DEF Init, Types, Status
  <2>2. LinesBehindService /\ ListIsTrue /\ \A g \in GroupIds : GroupIsTrue(g)
    BY DEF Init, LinesBehindService, ListIsTrue, GroupIsTrue
  <2> QED BY <2>1, <2>2 DEF IInv
<1> QED BY <1>1, InvStep, PTL DEF Spec

-----------------------------------------------------------------------------
\* run_info = 1 is only ever published for a run whose Job succeeded and whose
\* tracks are all READY in the service.
THEOREM InfoCorrect == Spec => []InfoMeansAllReady
<1>1. IInv => InfoMeansAllReady
  <2> SUFFICES ASSUME IInv, NEW g \in GroupIds, groups[g] # NoGroup, groups[g].info
               PROVE  status[groups[g].job] = "succeeded" /\ ready[groups[g].job] = Index
    BY DEF InfoMeansAllReady
  <2> DEFINE j == groups[g].job
  <2>1. /\ j \in Jobs
        /\ status[j] = "succeeded"
        /\ line[j] # NoLine
        /\ FunctionalSuccess(line[j])
    BY DEF IInv, GroupIsTrue
  <2>2. WellFormed(line[j], COUNT, Cardinality(ready[j])) /\ line[j] \in Result
    BY <2>1, CollectorConstants DEF IInv, LinesBehindService, Types
  <2>3. ready[j] \in SUBSET Index
    BY <2>1 DEF IInv, Types
  <2> QED BY <2>1, <2>2, <2>3, SuccessIsComplete
<1> QED BY <1>1, Invariance, PTL

\* A step that writes the group of a succeeded run writes a success of that run.
LEMMA SuccessKeptStep ==
  ASSUME IInv, Next, NEW g \in GroupIds,
         groups[g] # NoGroup, groups[g].functional, status[groups[g].job] = "succeeded",
         groups'[g] # NoGroup, groups'[g] # groups[g]
  PROVE  groups'[g].functional /\ groups'[g].job = groups[g].job
<1> DEFINE k == groups[g].job
<1>1. /\ k \in Jobs
      /\ line[k] # NoLine
      /\ FunctionalSuccess(line[k])
      /\ g = RunId(k)
  BY DEF IInv, GroupIsTrue
<1>2. CASE \E j \in Jobs : JobStep(j)
  <2>1. PICK j \in Jobs : JobStep(j)
    BY <1>2
  <2>2. PushProgress(j)
    BY <2>1 DEF JobStep, BecomeReady, Report, Succeed, Fail, LosePod, MuteLog, Settle, Age,
                 DeleteJob
  <2>3. g = RunId(j)
    BY <2>2 DEF PushProgress, Replace, IInv, Types
  <2>4. j = k
    BY <1>1, <2>3, IdsDiffer
  <2> QED BY <2>2, <2>4 DEF PushProgress
<1>3. CASE RestartGateway
  BY <1>3 DEF RestartGateway
<1>4. CASE PassEndDate \/ StartCycle \/ SkipActive \/ SkipListed \/ EndCycle \/ AbortCycle
  BY <1>4 DEF PassEndDate, StartCycle, SkipActive, SkipListed, EndCycle, AbortCycle
<1>5. CASE Publish
  <2>1. PICK e \in listed, evidence \in BOOLEAN :
           /\ ~MissingLog(e)
           /\ Replace(IF Synthetic(e) THEN SyntheticId(e.job) ELSE RunId(e.job),
                      [job        |-> e.job,
                       by         |-> IF Synthetic(e) THEN "synthetic" ELSE "collector",
                       functional |-> FunctionalSuccess(ResultOf(e)),
                       info       |-> Valid(e, evidence)])
    BY <1>5 DEF Publish
  <2> DEFINE id == IF Synthetic(e) THEN SyntheticId(e.job) ELSE RunId(e.job)
  <2>2. g = id
    BY <2>1 DEF Replace, IInv, Types
  <2>3. /\ groups'[g].job = e.job
        /\ groups'[g].functional = FunctionalSuccess(ResultOf(e))
    BY <2>1, <2>2 DEF Replace, IInv, Types
  <2>4. e.job = k
    BY <1>1, <2>1, <2>2, IdsDiffer, PublishedIsTrue
  <2>5. ~e.failed
    BY <2>4 DEF IInv, ListIsTrue
  <2>6. ~Synthetic(e)
    BY <2>5 DEF Synthetic
  <2>7. ResultOf(e) = line[k]
    BY <2>1, <2>4, <2>6 DEF ResultOf, MissingLog, LogResult
  <2> QED BY <1>1, <2>3, <2>4, <2>7
<1> QED BY <1>2, <1>3, <1>4, <1>5 DEF Next, Handle

\* No push of any program takes a succeeded run's functional success back.
THEOREM SuccessNeverTakenBack == Spec => SuccessIsKept
<1> DEFINE Keeps == \A g \in GroupIds :
                      /\ groups[g] # NoGroup /\ groups[g].functional
                      /\ status[groups[g].job] = "succeeded"
                      /\ groups'[g] # NoGroup
                      => groups'[g].functional /\ groups'[g].job = groups[g].job
<1>1. IInv /\ [Next]_vars => [Keeps]_groups
  <2> SUFFICES ASSUME IInv, Next PROVE Keeps \/ UNCHANGED groups
    BY DEF vars
  <2>1. ASSUME NEW g \in GroupIds,
               groups[g] # NoGroup, groups[g].functional,
               status[groups[g].job] = "succeeded", groups'[g] # NoGroup
        PROVE  groups'[g].functional /\ groups'[g].job = groups[g].job
    BY <2>1, SuccessKeptStep
  <2> QED BY <2>1
<1> QED BY <1>1, Invariance, PTL DEF Spec, SuccessIsKept

-----------------------------------------------------------------------------
(* The Jobs as the Collector knows them are load runs. *)

\* The instance speaks of results in the same words as this module.
LEMMA SameVocabulary ==
  ASSUME NEW j \in Jobs
  PROVE  /\ LoadJob(j)!StatusKey = StatusKey
         /\ LoadJob(j)!NoLine = NoLine
         /\ LoadJob(j)!Index = Index
         /\ \A S : LoadJob(j)!Cardinality(S) = Cardinality(S)
         /\ \A r : LoadJob(j)!ExitClean(r) <=> ExitClean(r)
         /\ \A r, c, d : LoadJob(j)!WellFormed(r, c, d) <=> WellFormed(r, c, d)
<1>1. LoadJob(j)!StatusKey = StatusKey /\ LoadJob(j)!NoLine = NoLine /\ LoadJob(j)!Index = Index
  BY DEF LoadJob!StatusKey, LoadJob!FinalStatus, LoadJob!TerminalStatus, StatusKey, FinalStatus,
         TerminalStatus, LoadJob!NoLine, NoLine, LoadJob!Index, Index
<1>2. \A S : LoadJob(j)!Cardinality(S) = Cardinality(S)
  BY DEF LoadJob!Cardinality, Cardinality
<1>3. \A r : LoadJob(j)!Ready(r) = Ready(r) /\ LoadJob(j)!NotReady(r) = NotReady(r)
  BY DEF LoadJob!Ready, Ready, LoadJob!NotReady, NotReady
<1> QED BY <1>1, <1>2, <1>3 DEF LoadJob!ExitClean, ExitClean, LoadJob!WellFormed, WellFormed

\* The numbers of a line that accounts for every track are within those of LoadRun.
LEMMA LineInRange ==
  ASSUME NEW j \in Jobs, NEW r \in RunLines, NEW d \in Nat, WellFormed(r, COUNT, d)
  PROVE  r \in LoadJob(j)!Lines
<1> DEFINE n == r.status_counts
<1>1. /\ r \in Result /\ r.upload_errors <= 2 * COUNT /\ COUNT \in Nat
  BY CollectorConstants
<1>2. /\ r.submitted \in Nat /\ r.upload_errors \in Nat /\ n \in [StatusKey -> Nat]
      /\ r = [requested |-> r.requested, submitted |-> r.submitted,
              upload_errors |-> r.upload_errors, status_counts |-> n]
  BY <1>1 DEF Result
<1> HIDE DEF n
<1>3. StatusKey = {"READY", "FAILED", "REJECTED", "TIMEOUT", "JOB_FAILED"}
  BY DEF StatusKey, FinalStatus, TerminalStatus
<1>4. /\ r.requested = COUNT /\ r.submitted <= COUNT /\ n["JOB_FAILED"] = 0
      /\ n["READY"] + (n["FAILED"] + n["REJECTED"] + n["TIMEOUT"] + n["JOB_FAILED"])
           <= r.submitted
  BY DEF WellFormed, Ready, NotReady, n
<1>5. ASSUME NEW s \in StatusKey PROVE n[s] \in 0 .. COUNT
  <2>1. /\ n["READY"] \in Nat /\ n["FAILED"] \in Nat /\ n["REJECTED"] \in Nat
        /\ n["TIMEOUT"] \in Nat
    BY <1>2, <1>3
  <2>2. \/ s = "READY" \/ s = "FAILED" \/ s = "REJECTED" \/ s = "TIMEOUT" \/ s = "JOB_FAILED"
    BY <1>3
  <2>3. /\ n["READY"] <= COUNT /\ n["FAILED"] <= COUNT /\ n["REJECTED"] <= COUNT
        /\ n["TIMEOUT"] <= COUNT
    BY <1>1, <1>2, <1>4, <2>1
  <2> QED BY <1>1, <1>4, <2>1, <2>2, <2>3
<1>6. n \in [StatusKey -> 0 .. COUNT]
  BY <1>2, <1>5
<1>7. r.submitted \in 0 .. COUNT /\ r.upload_errors \in 0 .. 2 * COUNT
  BY <1>1, <1>2, <1>4
<1> QED BY <1>2, <1>4, <1>6, <1>7, SameVocabulary DEF LoadJob!Lines

\* What happens to one Job leaves the others, and is a step of its load run.
LEMMA JobStepIsLoadRun ==
  ASSUME IInv, NEW k \in Jobs, JobStep(k), NEW j \in Jobs
  PROVE  [LoadJob(j)!Next]_(LoadJob(j)!vars)
<1>1. status \in [Jobs -> Status] /\ line \in [Jobs -> RunLines \cup {NoLine}]
      /\ ready \in [Jobs -> SUBSET Index]
  BY DEF IInv, Types
<1> DEFINE Step(x, y, z) == status'[j] = x /\ line'[j] = y /\ ready'[j] = z
<1>2. Step(status[j], line[j], ready[j]) => UNCHANGED LoadJob(j)!vars
  BY DEF LoadJob!vars
<1>3. CASE j # k
  <2>1. Step(status[j], line[j], ready[j])
    BY <1>1, <1>3 DEF JobStep, BecomeReady, PushProgress, Report, Succeed, Fail, LosePod, MuteLog,
                      Settle, Age, DeleteJob, jobVars
  <2> QED BY <1>2, <2>1
<1>4. CASE j = k
  <2>1. ASSUME NEW i \in Index, BecomeReady(j, i) PROVE LoadJob(j)!Next
    <3>1. Step(status[j], line[j], ready[j] \cup {i})
      BY <1>1, <2>1 DEF BecomeReady
    <3>2. LoadJob(j)!BecomeReady(i)
      BY <3>1 DEF LoadJob!BecomeReady
    <3> QED BY <3>2, SameVocabulary DEF LoadJob!Next
  <2>2. ASSUME Report(j) PROVE LoadJob(j)!Next
    <3>1. PICK r \in RunLines : /\ WellFormed(r, COUNT, Cardinality(ready[j]))
                                /\ line' = [line EXCEPT ![j] = r]
      BY <2>2 DEF Report
    <3>2. Step(status[j], r, ready[j]) /\ status[j] = "active" /\ line[j] = NoLine
      BY <1>1, <2>2, <3>1 DEF Report
    <3>3. Cardinality(ready[j]) \in Nat
      <4>1. ready[j] \in SUBSET Index
        BY <1>1
      <4> QED BY <4>1, IndexFinite, FS_Subset, FS_CardinalityType
    <3>4. r \in LoadJob(j)!Lines
      BY <3>1, <3>3, LineInRange
    <3>5. LoadJob(j)!Report
      BY <3>1, <3>2, <3>4, SameVocabulary DEF LoadJob!Report
    <3> QED BY <3>5 DEF LoadJob!Next
  <2>3. ASSUME Succeed(j) PROVE LoadJob(j)!Next
    <3>1. Step("succeeded", line[j], ready[j])
      BY <1>1, <2>3 DEF Succeed
    <3>2. /\ status[j] = "active"
          /\ \/ line[j] = NoLine /\ ready[j] = {}
             \/ line[j] # NoLine /\ ExitClean(line[j])
      BY <2>3 DEF Succeed
    <3>3. LoadJob(j)!Succeed
      BY <3>1, <3>2, SameVocabulary DEF LoadJob!Succeed
    <3> QED BY <3>3 DEF LoadJob!Next
  <2>4. ASSUME Fail(j) PROVE LoadJob(j)!Next
    <3>1. Step("failed", line[j], ready[j]) /\ status[j] = "active"
      BY <1>1, <2>4 DEF Fail
    <3>2. LoadJob(j)!Fail
      BY <3>1 DEF LoadJob!Fail
    <3> QED BY <3>2 DEF LoadJob!Next
  <2>5. ASSUME \/ PushProgress(j) \/ LosePod(j) \/ MuteLog(j)
               \/ Settle(j) \/ Age(j) \/ DeleteJob(j)
        PROVE  Step(status[j], line[j], ready[j])
    BY <2>5 DEF PushProgress, LosePod, MuteLog, Settle, Age, DeleteJob, jobVars
  <2> QED BY <1>2, <1>4, <2>1, <2>2, <2>3, <2>4, <2>5 DEF JobStep
<1> QED BY <1>3, <1>4

\* What the Collector sees of every Job is a run of LoadRun, which LoadRunner
\* implements: the Runner's promise is all that the Collector relies on.
THEOREM JobsRunAsPromised == Spec => JobsAreLoadRuns
<1>1. Init => \A j \in Jobs : LoadJob(j)!Init
  BY SameVocabulary DEF Init, LoadJob!Init
<1>2. IInv /\ [Next]_vars => [\A j \in Jobs : [LoadJob(j)!Next]_(LoadJob(j)!vars)]_jobVars
  <2> SUFFICES ASSUME IInv, Next, ~UNCHANGED jobVars, NEW j \in Jobs
               PROVE  [LoadJob(j)!Next]_(LoadJob(j)!vars)
    BY DEF vars
  <2>1. \E k \in Jobs : JobStep(k)
    BY DEF Next, Handle, RestartGateway, PassEndDate, StartCycle, SkipActive, SkipListed,
           Publish, EndCycle, AbortCycle
  <2> QED BY <2>1, JobStepIsLoadRun
<1> QED BY <1>1, <1>2, Invariance, PTL DEF Spec, JobsAreLoadRuns
=============================================================================
