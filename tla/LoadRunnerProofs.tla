-------------------------- MODULE LoadRunnerProofs --------------------------
(***************************************************************************)
(* Proofs about LoadRunner for every number of tracks and every pool size, *)
(* and about the token its threads share, for every number of them.        *)
(***************************************************************************)
EXTENDS LoadRunner, TokenCache, FiniteSetTheorems, TLAPS

LEMMA CountType == COUNT \in Nat
  BY RunnerConstants DEF COUNT, Least

\* A subset of the tracks is finite, and there are COUNT tracks.
LEMMA IndexFinite ==
  /\ IsFiniteSet(Index)
  /\ Cardinality(Index) = COUNT
  /\ \A S \in SUBSET Index : /\ IsFiniteSet(S)
                             /\ Cardinality(S) \in Nat
                             /\ Cardinality(S) <= COUNT
<1>1. IsFiniteSet(Index) /\ Cardinality(Index) = COUNT
  BY CountType, FS_Interval DEF Index
<1>2. QED
  BY <1>1, FS_Subset, FS_CardinalityType

\* One element more is one more.
LEMMA OneMore ==
  ASSUME NEW S \in SUBSET Index, NEW i \in Index, i \notin S
  PROVE  Cardinality(S \cup {i}) = Cardinality(S) + 1
  BY IndexFinite, FS_AddElement

LEMMA DisjointUnion ==
  ASSUME NEW S \in SUBSET Index, NEW T \in SUBSET Index, S \cap T = {}
  PROVE  Cardinality(S \cup T) = Cardinality(S) + Cardinality(T)
<1>1. Cardinality(S \cup T) = Cardinality(S) + Cardinality(T) - Cardinality({})
  BY IndexFinite, FS_Union
<1>2. QED
  BY <1>1, IndexFinite, FS_EmptySet

\* The errors list holds at most one entry for each track and stage.
LEMMA ErrorsFinite ==
  ASSUME NEW E \in SUBSET (Index \X Stage)
  PROVE  /\ IsFiniteSet(E)
         /\ Cardinality(E) \in Nat
         /\ Cardinality(E) <= 2 * COUNT
<1>1. IsFiniteSet(Stage) /\ Cardinality(Stage) = 2
  <2>1. Stage = {"upload"} \cup {"tracking"}
    BY DEF Stage
  <2>2. IsFiniteSet({"upload"}) /\ Cardinality({"upload"}) = 1
    BY FS_Singleton
  <2>3. QED
    BY <2>1, <2>2, FS_AddElement
<1>2. IsFiniteSet(Index \X Stage) /\ Cardinality(Index \X Stage) = COUNT * 2
  BY <1>1, IndexFinite, FS_Product
<1>3. QED
  BY <1>2, CountType, FS_Subset, FS_CardinalityType

-----------------------------------------------------------------------------
LEMMA InitType == Init => TypeOK
<1> SUFFICES ASSUME Init PROVE TypeOK
  OBVIOUS
<1>1. waiting \in Seq(Index)
  BY DEF Init
<1>2. errors \subseteq Index \X Stage
  BY Zenon DEF Init
<1>3. up \in [Index -> UploadState] /\ track \in [Index -> TrackState]
  BY DEF Init, UploadState, TrackState
<1>4. audio \in [Index -> AudioState] /\ final \in [Index -> FinalStatus \cup {NoStatus}]
  BY DEF Init, AudioState
<1>5. gauge \in Gauge \cup {NoGroup} /\ line \in Result \cup {NoLine}
  BY Zenon DEF Init
<1>6. QED
  BY <1>1, <1>2, <1>3, <1>4, <1>5 DEF Init, TypeOK

USE DEF mainVars

LEMMA NextType == TypeOK /\ [Next]_vars => TypeOK'
<1> SUFFICES ASSUME TypeOK, [Next]_vars PROVE TypeOK'
  OBVIOUS
<1> USE DEF TypeOK
<1>1. CASE SkipEndDate
  BY <1>1 DEF SkipEndDate
<1>2. CASE Start
  BY <1>2 DEF Start, PushOk, PushRaises, Progress, Gauge
<1>3. CASE PrintResult
  <2>1. \A s \in StatusKey : Count(s) \in Nat
    <3>1. \A s \in StatusKey : {i \in items : final[i] = s} \in SUBSET Index
      OBVIOUS
    <3>2. QED
      BY <3>1, IndexFinite DEF Count
  <2>2. Tracked \in SUBSET Index
    BY DEF Tracked
  <2>3. ResultLine \in Result
    BY <2>1, <2>2, CountType, IndexFinite, ErrorsFinite DEF ResultLine, Result
  <2>4. QED
    BY <1>3, <2>3 DEF PrintResult
<1>4. CASE Exit
  BY <1>4 DEF Exit
<1>5. CASE Kill
  BY <1>5 DEF Kill
<1>6. ASSUME NEW i \in Index, Upload(i) PROVE TypeOK'
  <2>1. CASE StartUpload(i)
    BY <2>1 DEF StartUpload, UploadState
  <2>2. CASE CreateSession(i)
    BY <2>2 DEF CreateSession, UploadRequest, UploadState, AudioState
  <2>3. CASE PutObject(i)
    BY <2>3 DEF PutObject, UploadRequest, UploadState, AudioState
  <2>4. CASE Complete(i)
    BY <2>4 DEF Complete, UploadRequest, UploadState, AudioState
  <2>5. QED
    BY <1>6, <2>1, <2>2, <2>3, <2>4 DEF Upload
<1>7. ASSUME NEW i \in Index, Poll(i) PROVE TypeOK'
  <2>1. CASE StartTracker(i)
    BY <2>1 DEF StartTracker, TrackState
  <2>2. CASE PollTerminal(i)
    BY <2>2 DEF PollTerminal, TrackState, FinalStatus
  <2>3. CASE PollRaises(i)
    BY <2>3 DEF PollRaises, TrackState
  <2>4. CASE PollTimeout(i)
    BY <2>4 DEF PollTimeout, TrackState, FinalStatus
  <2>5. QED
    BY <1>7, <2>1, <2>2, <2>3, <2>4 DEF Poll
<1>8. ASSUME NEW i \in Index, Take(i) PROVE TypeOK'
  <2>1. CASE TakeItem(i)
    BY <2>1 DEF TakeItem, PushOk, PushRaises, Progress, Gauge, UploadState, TrackState, Stage
  <2>2. CASE TakeUploadError(i)
    BY <2>2 DEF TakeUploadError, UploadState, Stage
  <2>3. CASE TakeTerminal(i)
    BY <2>3 DEF TakeTerminal, PushOk, PushRaises, Progress, Gauge, TrackState, Stage
  <2>4. CASE TakeTrackingError(i)
    BY <2>4 DEF TakeTrackingError, TrackState, Stage
  <2>5. QED
    BY <1>8, <2>1, <2>2, <2>3, <2>4 DEF Take
<1>9. ASSUME NEW i \in Index, Expire(i) PROVE TypeOK'
  BY <1>9 DEF Expire
<1>10. ASSUME NEW i \in Index, Transcode(i) PROVE TypeOK'
  BY <1>10 DEF Transcode, AudioState
<1>11. CASE UNCHANGED vars
  BY <1>11 DEF vars
<1>12. QED
  BY <1>1, <1>2, <1>3, <1>4, <1>5, <1>6, <1>7, <1>8, <1>9, <1>10, <1>11 DEF Next

\* The Runner's state stays within its types, for every pool size and count.
THEOREM TypeCorrect == Spec => []TypeOK
  BY InitType, NextType, PTL DEF Spec

-----------------------------------------------------------------------------
(***************************************************************************)
(* The inductive invariant.  EveryRequestAccounted and CleanExitMeansReady *)
(* say something only once the line is printed; what makes them true is    *)
(* kept by the threads long before: where each track is between the two    *)
(* pools, which of its outcomes main() has taken, and what the service     *)
(* knew of it at that moment.                                              *)
(***************************************************************************)
Accepted == {"accepted"} \cup TerminalStatus

\* Each track's place in the two pools, against errors, items and the service.
TrackPlaces ==
  \A i \in Index :
    /\ up[i] \in {"queued", "create"} => audio[i] = "none"
    /\ up[i] = "put" => audio[i] = "session"
    /\ up[i] = "complete" => audio[i] = "stored"
    /\ up[i] = "item" => audio[i] \in Accepted
    /\ up[i] = "handled" /\ track[i] = "none" => <<i, "upload">> \in errors
    /\ track[i] # "none" => up[i] = "handled" /\ audio[i] \in Accepted
    /\ track[i] = "done" => final[i] \in FinalStatus
    /\ final[i] # NoStatus => track[i] \in {"done", "handled"}
    /\ final[i] = "READY" => audio[i] = "READY"
    /\ i \in items => track[i] = "handled" /\ final[i] \in FinalStatus
    /\ track[i] = "handled" => i \in items \/ <<i, "tracking">> \in errors

ReadyItems == {i \in items : final[i] = "READY"}
OtherItems == {i \in items : final[i] # "READY"}

\* main()'s counters are the sizes of what they count.
CountersExact ==
  /\ submitted = Cardinality(Tracked)
  /\ ready_count = Cardinality(ReadyItems)
  /\ failed_count = Cardinality(OtherItems)

\* The group in the gateway is some earlier value of the counters.
GaugeBehind ==
  gauge # NoGroup => /\ gauge.submitted <= submitted
                     /\ gauge.ready <= ready_count
                     /\ gauge.failed <= failed_count
                     /\ gauge.ready + gauge.failed <= gauge.submitted

\* The line is printed once, when every future has been taken.
LineFinal ==
  /\ pc \in {"start", "running"} => line = NoLine
  /\ pc = "start" => \A i \in Index : up[i] = "queued"
  /\ pc = "printed" => line # NoLine
  /\ line # NoLine => /\ line = ResultLine
                      /\ \A i \in Index : up[i] = "handled"
                      /\ \A i \in Tracked : track[i] = "handled"
  /\ pc = "exit0" /\ line # NoLine => ExitClean(line)

IInv == TypeOK /\ TrackPlaces /\ CountersExact /\ GaugeBehind /\ LineFinal

-----------------------------------------------------------------------------
LEMMA InitInv == Init => IInv
<1> SUFFICES ASSUME Init PROVE IInv
  OBVIOUS
<1>1. TypeOK
  BY InitType
<1>2. TrackPlaces
  <2>1. \A i \in Index : /\ up[i] = "queued" /\ track[i] = "none" /\ audio[i] = "none"
                         /\ final[i] = NoStatus /\ i \notin items
    BY DEF Init
  <2>2. QED
    BY <2>1 DEF TrackPlaces, NoStatus
<1>3. CountersExact
  <2>1. Tracked = {} /\ ReadyItems = {} /\ OtherItems = {}
    BY Zenon DEF Init, Tracked, ReadyItems, OtherItems
  <2>2. QED
    BY <2>1, FS_EmptySet DEF Init, CountersExact
<1>4. GaugeBehind /\ LineFinal
  BY Zenon DEF Init, GaugeBehind, LineFinal
<1>5. QED
  BY <1>1, <1>2, <1>3, <1>4 DEF IInv

LEMMA TrackPlacesStep == TypeOK /\ TrackPlaces /\ LineFinal /\ [Next]_vars => TrackPlaces'
<1> SUFFICES ASSUME TypeOK, TrackPlaces, LineFinal, [Next]_vars PROVE TrackPlaces'
  OBVIOUS
<1> USE DEF TrackPlaces, Accepted, Tracked
<1>1. CASE SkipEndDate \/ Start \/ PrintResult \/ Exit \/ Kill \/ UNCHANGED vars
  BY <1>1 DEF SkipEndDate, Start, PrintResult, Exit, Kill, vars
<1>2. ASSUME NEW i \in Index, Upload(i) PROVE TrackPlaces'
  <2> USE DEF TypeOK
  <2>1. CASE StartUpload(i)
    BY <2>1 DEF StartUpload
  <2>2. CASE CreateSession(i)
    BY <2>2 DEF CreateSession, UploadRequest
  <2>3. CASE PutObject(i)
    BY <2>3 DEF PutObject, UploadRequest
  <2>4. CASE Complete(i)
    BY <2>4 DEF Complete, UploadRequest
  <2>5. QED
    BY <1>2, <2>1, <2>2, <2>3, <2>4 DEF Upload
<1>3. ASSUME NEW i \in Index, Poll(i) PROVE TrackPlaces'
  <2> USE DEF TypeOK
  <2>1. CASE StartTracker(i)
    BY <2>1 DEF StartTracker
  <2>2. CASE PollTerminal(i)
    BY <2>2 DEF PollTerminal, FinalStatus, TerminalStatus
  <2>3. CASE PollRaises(i)
    BY <2>3 DEF PollRaises
  <2>4. CASE PollTimeout(i)
    BY <2>4 DEF PollTimeout, FinalStatus
  <2>5. QED
    BY <1>3, <2>1, <2>2, <2>3, <2>4 DEF Poll
<1>4. ASSUME NEW i \in Index, Take(i) PROVE TrackPlaces'
  <2> USE DEF TypeOK
  <2>1. CASE TakeItem(i)
    BY <2>1 DEF TakeItem
  <2>2. CASE TakeUploadError(i)
    BY <2>2 DEF TakeUploadError
  <2>3. CASE TakeTerminal(i)
    BY <2>3 DEF TakeTerminal
  <2>4. CASE TakeTrackingError(i)
    BY <2>4 DEF TakeTrackingError
  <2>5. QED
    BY <1>4, <2>1, <2>2, <2>3, <2>4 DEF Take
<1>5. ASSUME NEW i \in Index, Expire(i) PROVE TrackPlaces'
  BY <1>5 DEF Expire
<1>6. ASSUME NEW i \in Index, Transcode(i) PROVE TrackPlaces'
  BY <1>6 DEF Transcode, TerminalStatus, TypeOK
<1>7. QED
  BY <1>1, <1>2, <1>3, <1>4, <1>5, <1>6 DEF Next

LEMMA CountersStep ==
  TypeOK /\ TrackPlaces /\ CountersExact /\ [Next]_vars => CountersExact'
<1> SUFFICES ASSUME TypeOK, TrackPlaces, CountersExact, [Next]_vars PROVE CountersExact'
  OBVIOUS
<1> USE DEF CountersExact
<1>1. Tracked \in SUBSET Index /\ ReadyItems \in SUBSET Index /\ OtherItems \in SUBSET Index
  BY DEF Tracked, ReadyItems, OtherItems, TypeOK
<1>2. CASE UNCHANGED <<track, final, mainVars>>
  BY <1>2 DEF Tracked, ReadyItems, OtherItems
<1>3. ASSUME NEW i \in Index, Poll(i) PROVE CountersExact'
  <2>1. UNCHANGED mainVars /\ track[i] \in {"pending", "polling"} /\ track'[i] # "none"
    BY <1>3 DEF Poll, StartTracker, PollTerminal, PollRaises, PollTimeout, TypeOK
  <2>2. \A j \in Index : j # i => track'[j] = track[j] /\ final'[j] = final[j]
    BY <1>3 DEF Poll, StartTracker, PollTerminal, PollRaises, PollTimeout, TypeOK
  <2>3. i \notin items
    BY <2>1 DEF TrackPlaces
  <2>4. Tracked' = Tracked /\ ReadyItems' = ReadyItems /\ OtherItems' = OtherItems
    BY <2>1, <2>2, <2>3 DEF Tracked, ReadyItems, OtherItems, TypeOK
  <2>5. QED
    BY <2>1, <2>4
<1>4. ASSUME NEW i \in Index, TakeItem(i) PROVE CountersExact'
  <2>1. i \notin Tracked
    BY <1>4 DEF TakeItem, TrackPlaces, Tracked
  <2>2. Tracked' = Tracked \cup {i} /\ submitted' = submitted + 1
    BY <1>4 DEF TakeItem, Tracked, TypeOK
  <2>3. ReadyItems' = ReadyItems /\ OtherItems' = OtherItems
        /\ UNCHANGED <<ready_count, failed_count>>
    BY <1>4 DEF TakeItem, ReadyItems, OtherItems
  <2>4. QED
    BY <1>1, <2>1, <2>2, <2>3, OneMore
<1>5. ASSUME NEW i \in Index, TakeUploadError(i) PROVE CountersExact'
  BY <1>5 DEF TakeUploadError, Tracked, ReadyItems, OtherItems
<1>6. ASSUME NEW i \in Index, TakeTerminal(i) PROVE CountersExact'
  <2>1. i \notin items
    BY <1>6 DEF TakeTerminal, TrackPlaces
  <2>2. Tracked' = Tracked /\ UNCHANGED <<submitted, final>> /\ items' = items \cup {i}
    BY <1>6 DEF TakeTerminal, Tracked, TypeOK
  <2>3. CASE final[i] = "READY"
    <3>1. ReadyItems' = ReadyItems \cup {i} /\ OtherItems' = OtherItems /\ i \notin ReadyItems
      BY <2>1, <2>2, <2>3 DEF ReadyItems, OtherItems
    <3>2. ready_count' = ready_count + 1 /\ failed_count' = failed_count
      BY <1>6, <2>3 DEF TakeTerminal
    <3>3. QED
      BY <1>1, <2>2, <3>1, <3>2, OneMore
  <2>4. CASE final[i] # "READY"
    <3>1. ReadyItems' = ReadyItems /\ OtherItems' = OtherItems \cup {i} /\ i \notin OtherItems
      BY <2>1, <2>2, <2>4 DEF ReadyItems, OtherItems
    <3>2. ready_count' = ready_count /\ failed_count' = failed_count + 1
      BY <1>6, <2>4 DEF TakeTerminal
    <3>3. QED
      BY <1>1, <2>2, <3>1, <3>2, OneMore
  <2>5. QED
    BY <2>3, <2>4
<1>7. ASSUME NEW i \in Index, TakeTrackingError(i) PROVE CountersExact'
  BY <1>7 DEF TakeTrackingError, Tracked, ReadyItems, OtherItems, TypeOK
<1>8. QED
  BY <1>2, <1>3, <1>4, <1>5, <1>6, <1>7
     DEF Next, vars, SkipEndDate, Start, PrintResult, Exit, Kill, Upload, StartUpload,
         CreateSession, PutObject, Complete, UploadRequest, Take, Expire, Transcode

\* No more tracks are terminal than were submitted.
LEMMA TerminalWereSubmitted ==
  TypeOK /\ TrackPlaces /\ CountersExact => ready_count + failed_count <= submitted
<1> SUFFICES ASSUME TypeOK, TrackPlaces, CountersExact
             PROVE  ready_count + failed_count <= submitted
  OBVIOUS
<1>1. /\ ReadyItems \in SUBSET Index /\ OtherItems \in SUBSET Index
      /\ Tracked \in SUBSET Index /\ items \in SUBSET Index
  BY DEF TypeOK, ReadyItems, OtherItems, Tracked
<1>2. ReadyItems \cup OtherItems = items /\ ReadyItems \cap OtherItems = {}
  BY DEF ReadyItems, OtherItems
<1>3. Cardinality(items) = Cardinality(ReadyItems) + Cardinality(OtherItems)
  BY <1>1, <1>2, DisjointUnion
<1>4. items \subseteq Tracked
  BY <1>1 DEF TrackPlaces, Tracked
<1>5. Cardinality(items) <= Cardinality(Tracked)
  BY <1>1, <1>4, IndexFinite, FS_Subset
<1>6. QED
  BY <1>3, <1>5 DEF CountersExact

\* Every push of main() carries its current counters.
LEMMA GaugeStep ==
  TypeOK /\ GaugeBehind /\ [Next]_vars /\ TypeOK' /\ TrackPlaces' /\ CountersExact'
    => GaugeBehind'
<1> SUFFICES ASSUME TypeOK, GaugeBehind, [Next]_vars, TypeOK', TrackPlaces', CountersExact'
             PROVE  GaugeBehind'
  OBVIOUS
<1> USE DEF GaugeBehind
<1>1. CASE UNCHANGED <<gauge, submitted, ready_count, failed_count>>
  BY <1>1
<1>2. CASE Start
  BY <1>2 DEF Start, PushOk, PushRaises, Progress, TypeOK
<1>3. (ready_count + failed_count <= submitted)'
  BY TerminalWereSubmitted, PTL
<1>4. ASSUME NEW i \in Index, TakeItem(i) \/ TakeTerminal(i) PROVE GaugeBehind'
  <2>1. /\ submitted <= submitted' /\ ready_count <= ready_count'
        /\ failed_count <= failed_count'
    BY <1>4 DEF TakeItem, TakeTerminal, TypeOK
  <2>2. gauge' = gauge \/ gauge' = Progress(submitted', ready_count', failed_count')
    BY <1>4 DEF TakeItem, TakeTerminal, PushOk, PushRaises
  <2>3. CASE gauge' = gauge
    BY <2>1, <2>3 DEF TypeOK, Gauge
  <2>4. CASE gauge' = Progress(submitted', ready_count', failed_count')
    <3>1. /\ gauge'.submitted = submitted' /\ gauge'.ready = ready_count'
          /\ gauge'.failed = failed_count'
      BY <2>4 DEF Progress
    <3>2. /\ submitted' \in Nat /\ ready_count' \in Nat /\ failed_count' \in Nat
      BY DEF TypeOK
    <3>3. ready_count' + failed_count' <= submitted'
      BY <1>3
    <3>4. /\ gauge'.submitted <= submitted' /\ gauge'.ready <= ready_count'
          /\ gauge'.failed <= failed_count'
      BY <3>1, <3>2 DEF TypeOK
    <3>5. gauge'.ready + gauge'.failed <= gauge'.submitted
      BY <3>1, <3>3
    <3>6. QED
      BY <3>4, <3>5
  <2>5. QED
    BY <2>2, <2>3, <2>4
<1>5. QED
  BY <1>1, <1>2, <1>4
     DEF Next, vars, SkipEndDate, PrintResult, Exit, Kill, Upload, StartUpload, CreateSession,
         PutObject, Complete, UploadRequest, Poll, StartTracker, PollTerminal, PollRaises,
         PollTimeout, Take, TakeUploadError, TakeTrackingError, Expire, Transcode

LEMMA LineStep == TypeOK /\ LineFinal /\ [Next]_vars => LineFinal'
<1> SUFFICES ASSUME TypeOK, LineFinal, [Next]_vars PROVE LineFinal'
  OBVIOUS
<1> USE DEF LineFinal
<1>1. CASE PrintResult
  <2>1. ResultLine' = ResultLine /\ Tracked' = Tracked
    BY <1>1 DEF PrintResult, ResultLine, Count, Tracked
  <2>2. ResultLine # NoLine
    BY CountType DEF ResultLine, NoLine
  <2>3. QED
    BY <1>1, <2>1, <2>2 DEF PrintResult, AllTaken, UploadsTaken
<1>2. CASE SkipEndDate \/ Start \/ Exit \/ Kill \/ UNCHANGED vars
  <2>1. ResultLine' = ResultLine /\ Tracked' = Tracked
    BY <1>2 DEF SkipEndDate, Start, Exit, Kill, vars, ResultLine, Count, Tracked
  <2>2. QED
    BY <1>2, <2>1 DEF SkipEndDate, Start, Exit, Kill, vars, Ended
<1>3. ASSUME NEW i \in Index, Upload(i) \/ Poll(i) \/ Take(i) \/ Expire(i) PROVE LineFinal'
  BY <1>3 DEF Upload, StartUpload, CreateSession, PutObject, Complete, UploadRequest,
     Poll, StartTracker, PollTerminal, PollRaises, PollTimeout, UploadsTaken,
     Take, TakeItem, TakeUploadError, TakeTerminal, TakeTrackingError, Expire
<1>4. ASSUME NEW i \in Index, Transcode(i) PROVE LineFinal'
  <2>1. ResultLine' = ResultLine /\ Tracked' = Tracked
    BY <1>4 DEF Transcode, ResultLine, Count, Tracked
  <2>2. QED
    BY <1>4, <2>1 DEF Transcode
<1>5. QED
  BY <1>1, <1>2, <1>3, <1>4 DEF Next

\* The invariant is inductive, so it holds in every reachable state.
THEOREM Invariance == Spec => []IInv
<1>1. IInv /\ [Next]_vars => IInv'
  BY NextType, TrackPlacesStep, CountersStep, GaugeStep, LineStep DEF IInv
<1>2. QED
  BY <1>1, InitInv, PTL DEF Spec

-----------------------------------------------------------------------------
\* Whatever fails in whichever thread, the printed result accounts for every
\* requested track.
THEOREM AccountedAlways == Spec => []EveryRequestAccounted
<1>1. IInv => EveryRequestAccounted
  BY DEF IInv, TrackPlaces, LineFinal, EveryRequestAccounted, Tracked, Stage
<1>2. QED
  BY <1>1, Invariance, PTL

\* What READY says: items with that status are READY in the service.
LEMMA ReadyItemsAreReady ==
  TypeOK /\ TrackPlaces => Cardinality(ReadyItems) <= Cardinality(ReadyTracks)
<1> SUFFICES ASSUME TypeOK, TrackPlaces
             PROVE  Cardinality(ReadyItems) <= Cardinality(ReadyTracks)
  OBVIOUS
<1>1. ReadyItems \subseteq ReadyTracks /\ ReadyTracks \in SUBSET Index
  BY DEF TypeOK, TrackPlaces, ReadyItems, ReadyTracks
<1>2. QED
  BY <1>1, IndexFinite, FS_Subset

\* A set of COUNT tracks is all of them.
LEMMA FullSet ==
  ASSUME NEW S \in SUBSET Index, Cardinality(S) = COUNT
  PROVE  S = Index
  BY IndexFinite, FS_Subset

\* Exit code 0 with a result means that the service has every track READY.
THEOREM CleanExitCorrect == Spec => []CleanExitMeansReady
<1>1. IInv => CleanExitMeansReady
  <2> SUFFICES ASSUME IInv, pc = "exit0", line # NoLine
               PROVE  \A i \in Index : audio[i] = "READY"
    BY DEF CleanExitMeansReady
  <2>1. Cardinality(ReadyItems) = COUNT
    BY DEF IInv, LineFinal, ExitClean, Ready, ResultLine, Count, ReadyItems, StatusKey,
       FinalStatus, TerminalStatus
  <2>2. ReadyItems = Index
    BY <2>1, FullSet DEF IInv, TypeOK, ReadyItems
  <2>3. QED
    BY <2>2 DEF IInv, TrackPlaces, ReadyItems
<1>2. QED
  BY <1>1, Invariance, PTL

\* The progress gauges never claim more than the service has accepted or made
\* READY.
THEOREM ProgressAlwaysSound == Spec => []ProgressSound
<1>1. IInv => ProgressSound
  <2> SUFFICES ASSUME IInv, gauge # NoGroup PROVE ProgressSound
    BY DEF ProgressSound
  <2> DEFINE A == {i \in Index : audio[i] \in {"accepted"} \cup TerminalStatus}
  <2>1. gauge \in Gauge
    BY DEF IInv, TypeOK
  <2>2. Cardinality(ReadyItems) <= Cardinality(ReadyTracks)
    BY ReadyItemsAreReady DEF IInv
  <2>3. Cardinality(Tracked) <= Cardinality(A)
    <3>1. Tracked \subseteq A /\ A \in SUBSET Index
      BY DEF IInv, TrackPlaces, Tracked, Accepted
    <3>2. QED
      BY <3>1, IndexFinite, FS_Subset
  <2>4. gauge.submitted <= Cardinality(A) /\ gauge.ready <= Cardinality(ReadyTracks)
    <3>1. ReadyTracks \in SUBSET Index /\ A \in SUBSET Index
      BY DEF ReadyTracks
    <3> HIDE DEF A
    <3>2. Cardinality(ReadyTracks) \in Nat /\ Cardinality(A) \in Nat
      BY <3>1, IndexFinite
    <3>3. QED
      BY <2>1, <2>2, <2>3, <3>2 DEF IInv, GaugeBehind, CountersExact, TypeOK, Gauge
  <2>5. QED
    BY <2>4 DEF IInv, GaugeBehind, ProgressSound, ReadyTracks
<1>2. QED
  BY <1>1, Invariance, PTL

\* Whatever a push does, the published progress never goes back: the group is
\* always some earlier value of counters that only grow.
THEOREM ProgressNeverBack == Spec => ProgressMonotone
<1> DEFINE Grows == gauge # NoGroup => /\ gauge'.submitted >= gauge.submitted
                                       /\ gauge'.ready >= gauge.ready
                                       /\ gauge'.failed >= gauge.failed
<1>1. IInv /\ IInv' /\ [Next]_vars => [Grows]_gauge
  <2> SUFFICES ASSUME IInv, IInv', [Next]_vars, gauge' # gauge, gauge # NoGroup
               PROVE  Grows
    OBVIOUS
  <2>1. gauge \in Gauge /\ gauge.submitted <= submitted /\ gauge.ready <= ready_count
        /\ gauge.failed <= failed_count
    BY DEF IInv, TypeOK, GaugeBehind
  <2>2. /\ submitted \in Nat /\ ready_count \in Nat /\ failed_count \in Nat
        /\ submitted' \in Nat /\ ready_count' \in Nat /\ failed_count' \in Nat
    BY DEF IInv, TypeOK
  <2>3. CASE Start
    <3>1. gauge' = Progress(0, 0, 0)
      BY <2>3 DEF Start, PushOk, PushRaises
    <3>2. submitted = 0 /\ ready_count = 0 /\ failed_count = 0
      <4>1. Tracked = {} /\ ReadyItems = {} /\ OtherItems = {}
        BY <2>3 DEF Start, IInv, LineFinal, TrackPlaces, Tracked, ReadyItems, OtherItems, TypeOK
      <4>2. QED
        BY <4>1, FS_EmptySet DEF IInv, CountersExact
    <3>3. gauge.submitted = 0 /\ gauge.ready = 0 /\ gauge.failed = 0
      BY <2>1, <3>2 DEF Gauge
    <3>4. QED
      BY <3>1, <3>3 DEF Progress
  <2>4. ASSUME NEW i \in Index, TakeItem(i) \/ TakeTerminal(i) PROVE Grows
    <3>1. gauge' = Progress(submitted', ready_count', failed_count')
      BY <2>4 DEF TakeItem, TakeTerminal, PushOk, PushRaises
    <3>2. /\ submitted <= submitted' /\ ready_count <= ready_count'
          /\ failed_count <= failed_count'
      BY <2>2, <2>4 DEF TakeItem, TakeTerminal
    <3>3. /\ gauge'.submitted = submitted' /\ gauge'.ready = ready_count'
          /\ gauge'.failed = failed_count'
      BY <3>1 DEF Progress
    <3>4. QED
      BY <2>1, <2>2, <3>2, <3>3 DEF Gauge
  <2>5. QED
    BY <2>3, <2>4
       DEF Next, vars, SkipEndDate, PrintResult, Exit, Kill, Upload, StartUpload, CreateSession,
           PutObject, Complete, UploadRequest, Poll, StartTracker, PollTerminal, PollRaises,
           PollTimeout, Take, TakeUploadError, TakeTrackingError, Expire, Transcode
<1>2. QED
  BY <1>1, Invariance, PTL DEF Spec, ProgressMonotone

-----------------------------------------------------------------------------
(***************************************************************************)
(* The line the Runner prints, and the contract LoadRun makes of it.       *)
(***************************************************************************)

\* A line that no track enters twice and no track is missing from gets the
\* same verdict from the Runner and from the Collector.
LEMMA WellFormedVerdicts ==
  ASSUME NEW r \in Result, NEW c \in Nat, NEW d \in Nat, WellFormed(r, c, d)
  PROVE  ExitClean(r) <=> FunctionalSuccess(r)
<1> DEFINE R == r.status_counts["READY"]
           N == r.status_counts["FAILED"] + r.status_counts["REJECTED"]
                + r.status_counts["TIMEOUT"] + r.status_counts["JOB_FAILED"]
           S == r.submitted
           E == r.upload_errors
<1>1. R \in Nat /\ N \in Nat /\ S \in Nat /\ E \in Nat
  BY DEF Result, StatusKey, FinalStatus, TerminalStatus
<1>2. r.requested = c /\ S <= c /\ R + N <= S
  BY DEF WellFormed, Ready, NotReady
<1>3. ExitClean(r) <=> (E = 0 /\ R = c)
  BY <1>2 DEF ExitClean, Ready
<1>4. FunctionalSuccess(r) <=> (E + N = 0 /\ S = c /\ R = c)
  BY <1>2 DEF FunctionalSuccess, Failed, NotReady, Ready
<1> HIDE DEF R, N, S, E
<1>5. QED
  BY <1>1, <1>2, <1>3, <1>4

WithStatus(s) == {i \in items : final[i] = s}

\* Each item has exactly one final status, so the counts add up to the items.
LEMMA CountsAddUp ==
  ASSUME TypeOK, TrackPlaces
  PROVE  /\ Count("READY") + Count("FAILED") + Count("REJECTED") + Count("TIMEOUT")
              = Cardinality(items)
         /\ Count("JOB_FAILED") = 0
<1> DEFINE A == WithStatus("READY") \cup WithStatus("FAILED")
           B == WithStatus("REJECTED") \cup WithStatus("TIMEOUT")
<1>1. \A s \in StatusKey : WithStatus(s) \in SUBSET Index /\ Count(s) = Cardinality(WithStatus(s))
  BY DEF WithStatus, TypeOK, Count
<1>2. \A i \in items : final[i] \in FinalStatus
  BY DEF TypeOK, TrackPlaces
<1>3. items = A \cup B /\ A \cap B = {}
  BY <1>2 DEF WithStatus, FinalStatus, TerminalStatus
<1>4. /\ WithStatus("READY") \cap WithStatus("FAILED") = {}
      /\ WithStatus("REJECTED") \cap WithStatus("TIMEOUT") = {}
      /\ WithStatus("JOB_FAILED") = {}
  BY <1>2 DEF WithStatus, FinalStatus, TerminalStatus
<1>5. /\ {"READY", "FAILED", "REJECTED", "TIMEOUT", "JOB_FAILED"} \subseteq StatusKey
      /\ A \in SUBSET Index /\ B \in SUBSET Index
  BY <1>1 DEF StatusKey, FinalStatus, TerminalStatus
<1>6. Cardinality(items) = Cardinality(A) + Cardinality(B)
  BY <1>3, <1>5, DisjointUnion
<1>7. /\ Cardinality(A) = Count("READY") + Count("FAILED")
      /\ Cardinality(B) = Count("REJECTED") + Count("TIMEOUT")
  BY <1>1, <1>4, <1>5, DisjointUnion
<1>8. Count("JOB_FAILED") = 0
  BY <1>1, <1>4, <1>5, FS_EmptySet
<1>9. \A s \in StatusKey : Count(s) \in Nat
  BY <1>1, IndexFinite
<1> HIDE DEF A, B
<1>10. QED
  BY <1>5, <1>6, <1>7, <1>8, <1>9

\* The tracks with an error are no more than the errors.
LEMMA ErrorsCoverTracks ==
  ASSUME NEW E \in SUBSET (Index \X Stage),
         NEW S \in SUBSET Index,
         \A i \in S : \E s \in Stage : <<i, s>> \in E
  PROVE  Cardinality(S) <= Cardinality(E)
<1> DEFINE F == {e[1] : e \in E}
           f == [e \in E |-> e[1]]
<1>1. IsFiniteSet(E)
  BY ErrorsFinite
<1>2. f \in Surjection(E, F)
  BY DEF Surjection
<1>3. IsFiniteSet(F) /\ Cardinality(F) <= Cardinality(E)
  BY <1>1, <1>2, FS_Surjection DEF ExistsSurjection
<1>4. S \subseteq F
  <2> SUFFICES ASSUME NEW i \in S PROVE i \in F
    OBVIOUS
  <2>1. PICK s \in Stage : <<i, s>> \in E
    OBVIOUS
  <2>2. <<i, s>>[1] = i
    OBVIOUS
  <2>3. QED
    BY <2>1, <2>2
<1>5. Cardinality(S) <= Cardinality(F) /\ Cardinality(S) \in Nat
  BY <1>3, <1>4, FS_Subset, IndexFinite
<1>6. Cardinality(F) \in Nat /\ Cardinality(E) \in Nat
  BY <1>1, <1>3, FS_CardinalityType
<1> HIDE DEF F
<1>7. QED
  BY <1>3, <1>5, <1>6

\* The instance speaks of results in the same words as this module.
LEMMA SameVocabulary ==
  /\ Run!StatusKey = StatusKey
  /\ Run!NoLine = NoLine
  /\ Run!Index = Index
  /\ \A r : Run!Ready(r) = Ready(r)
  /\ \A S : Run!Cardinality(S) = Cardinality(S)
  /\ \A r : Run!ExitClean(r) <=> ExitClean(r)
  /\ \A r, c, d : Run!WellFormed(r, c, d) <=> WellFormed(r, c, d)
<1>1. Run!StatusKey = StatusKey /\ Run!NoLine = NoLine /\ Run!Index = Index
  BY DEF Run!StatusKey, Run!FinalStatus, Run!TerminalStatus, StatusKey, FinalStatus,
         TerminalStatus, Run!NoLine, NoLine, Run!Index, Index
<1>2. \A S : Run!Cardinality(S) = Cardinality(S)
  BY DEF Run!Cardinality, Cardinality
<1>3. \A r : Run!Ready(r) = Ready(r) /\ Run!NotReady(r) = NotReady(r)
  BY DEF Run!Ready, Ready, Run!NotReady, NotReady
<1>4. QED
  BY <1>1, <1>2, <1>3 DEF Run!ExitClean, ExitClean, Run!WellFormed, WellFormed

\* Once every future has been taken, the result is one LoadRun may print.
LEMMA ResultIsWellFormed ==
  ASSUME TypeOK, TrackPlaces,
         \A i \in Index : up[i] = "handled",
         \A i \in Tracked : track[i] = "handled"
  PROVE  /\ ResultLine \in Run!Lines
         /\ WellFormed(ResultLine, COUNT, Cardinality(ReadyTracks))
<1> DEFINE Erred == {i \in Index : \E s \in Stage : <<i, s>> \in errors}
           N == Count("READY") + Count("FAILED") + Count("REJECTED") + Count("TIMEOUT")
<1>1. /\ items \in SUBSET Index /\ Tracked \in SUBSET Index /\ Erred \in SUBSET Index
      /\ errors \in SUBSET (Index \X Stage)
  BY DEF TypeOK, Tracked
<1>2. \A s \in StatusKey : Count(s) \in 0 .. COUNT
  <2>1. \A s \in StatusKey : {i \in items : final[i] = s} \in SUBSET Index
    BY <1>1
  <2>2. QED
    BY <2>1, IndexFinite DEF Count
<1>3. N = Cardinality(items) /\ Count("JOB_FAILED") = 0
  BY CountsAddUp
<1>4. Cardinality(items) <= Cardinality(Tracked) /\ Cardinality(Tracked) <= COUNT
  <2>1. items \subseteq Tracked
    BY <1>1 DEF TrackPlaces, Tracked
  <2>2. QED
    BY <1>1, <2>1, IndexFinite, FS_Subset
<1>5. COUNT <= Cardinality(items) + Cardinality(errors)
  <2>1. Index = items \cup (Index \ items) /\ items \cap (Index \ items) = {}
    BY <1>1
  <2>2. COUNT = Cardinality(items) + Cardinality(Index \ items)
    BY <1>1, <2>1, IndexFinite, DisjointUnion
  <2>3. \A i \in Index \ items : \E s \in Stage : <<i, s>> \in errors
    BY DEF TrackPlaces, Tracked, Stage
  <2>4. Cardinality(Index \ items) <= Cardinality(errors)
    BY <1>1, <2>3, ErrorsCoverTracks
  <2>5. QED
    BY <1>1, <2>2, <2>4, IndexFinite, ErrorsFinite
<1>6. Count("READY") <= Cardinality(ReadyTracks)
  BY ReadyItemsAreReady DEF Count, ReadyItems
<1>7. /\ Cardinality(errors) \in 0 .. 2 * COUNT /\ Cardinality(Tracked) \in 0 .. COUNT
      /\ Cardinality(items) \in Nat
  BY <1>1, ErrorsFinite, IndexFinite, CountType
<1>8. ResultLine \in Run!Lines
  BY <1>2, <1>7, SameVocabulary DEF ResultLine, Run!Lines
<1>9. /\ ResultLine.requested = COUNT
      /\ ResultLine.submitted = Cardinality(Tracked)
      /\ ResultLine.upload_errors = Cardinality(errors)
      /\ \A s \in StatusKey : ResultLine.status_counts[s] = Count(s)
  BY DEF ResultLine
<1>10. {"READY", "FAILED", "REJECTED", "TIMEOUT", "JOB_FAILED"} \subseteq StatusKey
  BY DEF StatusKey, FinalStatus, TerminalStatus
<1>11. Ready(ResultLine) = Count("READY") /\ Ready(ResultLine) + NotReady(ResultLine) = N
  BY <1>2, <1>3, <1>9, <1>10 DEF Ready, NotReady
<1> HIDE DEF N
<1>12. QED
  BY <1>3, <1>4, <1>5, <1>6, <1>7, <1>8, <1>9, <1>10, <1>11, CountType DEF WellFormed

\* The Runner's exit code and the Collector's functional_success agree on
\* every line that is ever printed.
THEOREM VerdictsAlwaysAgree == Spec => []VerdictsAgree
<1>1. IInv => VerdictsAgree
  <2> SUFFICES ASSUME IInv, line # NoLine PROVE ExitClean(line) <=> FunctionalSuccess(line)
    BY DEF VerdictsAgree
  <2>1. line = ResultLine /\ WellFormed(line, COUNT, Cardinality(ReadyTracks))
    BY ResultIsWellFormed DEF IInv, LineFinal
  <2>2. line \in Result
    BY DEF IInv, TypeOK
  <2>3. ReadyTracks \in SUBSET Index
    BY DEF ReadyTracks
  <2>4. Cardinality(ReadyTracks) \in Nat
    BY <2>3, IndexFinite
  <2>5. QED
    BY <2>1, <2>2, <2>4, CountType, WellFormedVerdicts
<1>2. QED
  BY <1>1, Invariance, PTL

-----------------------------------------------------------------------------
\* Every step of the Runner, of its Job or of the service is a step of LoadRun
\* or leaves the Job, its line and the READY tracks as they are.
LEMMA RefinementStep == IInv /\ IInv' /\ [Next]_vars => [Run!Next]_Run!vars
<1> SUFFICES ASSUME IInv, IInv', [Next]_vars PROVE [Run!Next]_Run!vars
  OBVIOUS
<1> USE DEF Run!vars
<1>1. CASE SkipEndDate
  <2>1. line = NoLine /\ ReadyTracks = {} /\ JobState = "active"
    BY <1>1 DEF SkipEndDate, IInv, LineFinal, TrackPlaces, ReadyTracks, JobState
  <2>2. JobState' = "succeeded" /\ UNCHANGED <<line, ReadyTracks>>
    BY <1>1 DEF SkipEndDate, JobState, ReadyTracks
  <2>3. QED
    BY <2>1, <2>2, SameVocabulary DEF Run!Next, Run!Succeed
<1>2. CASE Start
  <2>1. UNCHANGED <<line, ReadyTracks>> /\ JobState = "active" /\ JobState' \in {"active", "failed"}
    BY <1>2 DEF Start, ReadyTracks, JobState
  <2>2. QED
    BY <2>1 DEF Run!Next, Run!Fail
<1>3. CASE PrintResult
  <2>1. /\ JobState = "active" /\ line = NoLine
        /\ UNCHANGED <<JobState, ReadyTracks>>
    BY <1>3 DEF PrintResult, AllTaken, UploadsTaken, IInv, LineFinal, JobState, ReadyTracks
  <2>2. /\ ResultLine \in Run!Lines
        /\ WellFormed(ResultLine, COUNT, Cardinality(ReadyTracks))
    BY <1>3, ResultIsWellFormed DEF PrintResult, AllTaken, UploadsTaken, IInv
  <2>3. line' = ResultLine
    BY <1>3 DEF PrintResult
  <2>4. Run!Report
    BY <2>1, <2>2, <2>3, SameVocabulary DEF Run!Report
  <2>5. QED
    BY <2>4 DEF Run!Next
<1>4. CASE Exit
  <2>1. line # NoLine /\ JobState = "active" /\ UNCHANGED <<line, ReadyTracks>>
    BY <1>4 DEF Exit, IInv, LineFinal, JobState, ReadyTracks
  <2>2. JobState' = IF ExitClean(line) THEN "succeeded" ELSE "failed"
    BY <1>4 DEF Exit, JobState
  <2>3. QED
    BY <2>1, <2>2, SameVocabulary DEF Run!Next, Run!Succeed, Run!Fail
<1>5. CASE Kill
  <2>1. UNCHANGED <<line, ReadyTracks>> /\ JobState = "active" /\ JobState' = "failed"
    BY <1>5 DEF Kill, Ended, ReadyTracks, JobState
  <2>2. QED
    BY <2>1 DEF Run!Next, Run!Fail
<1>6. ASSUME NEW i \in Index, Upload(i) \/ Poll(i) \/ Take(i) \/ Expire(i)
      PROVE  UNCHANGED Run!vars
  <2>1. UNCHANGED <<pc, line>>
    BY <1>6 DEF Upload, StartUpload, CreateSession, PutObject, Complete, UploadRequest,
       Poll, StartTracker, PollTerminal, PollRaises, PollTimeout,
       Take, TakeItem, TakeUploadError, TakeTerminal, TakeTrackingError, Expire
  <2>2. \A j \in Index : audio'[j] = "READY" <=> audio[j] = "READY"
    BY <1>6 DEF Upload, StartUpload, CreateSession, PutObject, Complete, UploadRequest,
       Poll, StartTracker, PollTerminal, PollRaises, PollTimeout,
       Take, TakeItem, TakeUploadError, TakeTerminal, TakeTrackingError, Expire,
       IInv, TypeOK, TrackPlaces
  <2>3. QED
    BY <2>1, <2>2 DEF JobState, ReadyTracks
<1>7. ASSUME NEW i \in Index, Transcode(i) PROVE [Run!Next]_Run!vars
  <2>1. JobState' = JobState /\ line' = line
    BY <1>7 DEF Transcode, JobState
  <2>2. ReadyTracks' = ReadyTracks \/ ReadyTracks' = ReadyTracks \cup {i}
    BY <1>7 DEF Transcode, ReadyTracks, IInv, TypeOK
  <2>3. QED
    BY <2>1, <2>2 DEF Run!Next, Run!BecomeReady, Run!Index, Index
<1>8. CASE UNCHANGED vars
  BY <1>8 DEF vars, JobState, ReadyTracks
<1>9. QED
  BY <1>1, <1>2, <1>3, <1>4, <1>5, <1>6, <1>7, <1>8 DEF Next

\* The threaded Runner implements the contract the Collector relies on.
THEOREM RunnerImplementsLoadRun == Spec => ImplementsLoadRun
<1>1. Init => Run!Init
  BY DEF Init, Run!Init, JobState, ReadyTracks, Run!NoLine, NoLine
<1>2. QED
  BY <1>1, RefinementStep, Invariance, PTL DEF Spec, ImplementsLoadRun, Run!Spec
-----------------------------------------------------------------------------
\* What LoadRun promises.  A clean line fixes how many tracks are READY, and READY
\* is never undone.
LineBehindService ==
  /\ Run!TypeOK
  /\ line # NoLine => /\ line.requested = COUNT
                      /\ Ready(line) <= Cardinality(ReadyTracks)
  /\ JobState = "succeeded" /\ line # NoLine => ExitClean(line)

LEMMA LineReady ==
  ASSUME NEW r \in Run!Lines
  PROVE  Ready(r) \in Nat
<1>1. "READY" \in StatusKey
  BY DEF StatusKey, FinalStatus, TerminalStatus
<1>2. r.status_counts \in [StatusKey -> 0 .. COUNT]
  BY SameVocabulary DEF Run!Lines
<1>3. QED
  BY <1>1, <1>2, CountType DEF Ready

LEMMA LineBehindServiceStep ==
  LineBehindService /\ [Run!Next]_Run!vars => LineBehindService'
<1> SUFFICES ASSUME LineBehindService, [Run!Next]_Run!vars PROVE LineBehindService'
  OBVIOUS
<1> USE SameVocabulary DEF LineBehindService, Run!TypeOK
<1>1. ASSUME NEW i \in Run!Index, Run!BecomeReady(i) PROVE LineBehindService'
  <2>1. /\ ReadyTracks' \subseteq Index /\ ReadyTracks \subseteq ReadyTracks'
        /\ JobState' = JobState /\ line' = line
    BY <1>1 DEF Run!BecomeReady
  <2> DEFINE after == ReadyTracks'
  <2> HIDE DEF after
  <2>2. /\ Cardinality(ReadyTracks) <= Cardinality(after)
        /\ Cardinality(after) \in Nat /\ Cardinality(ReadyTracks) \in Nat
    <3>1. after \in SUBSET Index /\ ReadyTracks \subseteq after
      BY <2>1 DEF after
    <3>2. QED
      BY <3>1, IndexFinite, FS_Subset
  <2>3. line # NoLine => Ready(line) \in Nat
    BY LineReady
  <2>4. QED
    BY <2>1, <2>2, <2>3 DEF Ready, after
<1>2. CASE Run!Report
  <2>1. /\ line' \in Run!Lines /\ JobState = "active" /\ JobState' = JobState
        /\ WellFormed(line', COUNT, Cardinality(ReadyTracks))
        /\ ReadyTracks' = ReadyTracks
    BY <1>2 DEF Run!Report
  <2>2. line'.requested = COUNT /\ Ready(line') <= Cardinality(ReadyTracks')
    BY <2>1 DEF WellFormed
  <2>3. QED
    BY <2>1, <2>2 DEF Ready
<1>3. CASE Run!Succeed
  BY <1>3 DEF Run!Succeed, Ready, ExitClean
<1>4. CASE Run!Fail
  BY <1>4 DEF Run!Fail, Ready
<1>5. CASE UNCHANGED Run!vars
  BY <1>5 DEF Run!vars, Ready, ExitClean
<1>6. QED
  BY <1>1, <1>2, <1>3, <1>4, <1>5 DEF Run!Next

\* A Job that succeeded with a result left every requested track READY: LoadRun
\* promises it, and so does the Runner, which implements LoadRun.
THEOREM SuccessCorrect == Run!Spec => []Run!SuccessMeansAllReady
<1>1. Run!Init => LineBehindService
  BY SameVocabulary DEF Run!Init, LineBehindService, Run!TypeOK
<1>2. LineBehindService => Run!SuccessMeansAllReady
  <2> SUFFICES ASSUME LineBehindService, JobState = "succeeded", line # NoLine
               PROVE  ReadyTracks = Index
    BY SameVocabulary DEF Run!SuccessMeansAllReady
  <2>1. COUNT <= Cardinality(ReadyTracks) /\ ReadyTracks \subseteq Index
    BY SameVocabulary DEF LineBehindService, Run!TypeOK, ExitClean
  <2>2. Cardinality(ReadyTracks) = Cardinality(Index)
    BY <2>1, IndexFinite, CountType
  <2>3. QED
    BY <2>1, <2>2, IndexFinite, FS_Subset
<1>3. QED
  BY <1>1, <1>2, LineBehindServiceStep, PTL DEF Run!Spec

\* The Runner with its threads keeps that promise (main() of runner.py).
THEOREM RunnerSuccessCorrect == Spec => []Run!SuccessMeansAllReady
  BY RunnerImplementsLoadRun, SuccessCorrect, PTL DEF ImplementsLoadRun

-----------------------------------------------------------------------------
(***************************************************************************)
(* The shared token is fresh and asked for once, for every number of       *)
(* threads.                                                                *)
(***************************************************************************)

\* The cache gives a token up MARGIN before Keycloak does.
CacheIsEarly == token.expires_at > 0 => token.expires_at + MARGIN <= token.dies

\* Who asks Keycloak does so alone, within the timeout, and since a moment at
\* which the cached token was given up.
OneAsks == /\ \A s, t \in Threads : stage[s] = "fetching" /\ stage[t] = "fetching" => s = t
           /\ \A t \in Threads : stage[t] = "fetching" =>
                /\ read[t] <= now /\ now <= read[t] + TIMEOUT
                /\ token.expires_at <= read[t]

\* Each token has been cached for FLOOR at least before the next is asked for.
Spaced == issued * FLOOR <= token.expires_at

CacheInv == CacheTypeOK /\ CacheIsEarly /\ OneAsks /\ Spaced /\ TokensBounded

\* A token is given up within its life, and not before FLOOR is over.
LEMMA ExpiresWithin ==
  ASSUME NEW asked \in Nat, NEW life \in Lifetimes
  PROVE  /\ ExpiresAt(asked, life) \in Nat
         /\ ExpiresAt(asked, life) >= asked + FLOOR
         /\ ExpiresAt(asked, life) + MARGIN <= asked + life
  BY TokenConstants DEF ExpiresAt, Larger

\* What Fetched does, with the token's lifetime and time of issue named.
LEMMA FetchedToken ==
  ASSUME CacheInv, NEW t \in Threads, Fetched(t)
  PROVE  /\ token'.expires_at \in Nat /\ token'.dies \in Nat
         /\ token' \in [expires_at : Nat, dies : Nat]
         /\ token'.expires_at >= read[t] + FLOOR
         /\ token'.expires_at + MARGIN <= token'.dies
         /\ token'.dies > now + MARGIN
         /\ dies' = [dies EXCEPT ![t] = token'.dies]
<1>1. PICK life \in Lifetimes, at \in read[t] .. now :
        /\ token' = [expires_at |-> ExpiresAt(read[t], life), dies |-> at + life]
        /\ dies' = [dies EXCEPT ![t] = at + life]
  BY DEF Fetched
<1>2. read[t] \in Nat /\ now \in Nat /\ now <= read[t] + TIMEOUT
  BY DEF CacheInv, CacheTypeOK, OneAsks, Fetched
<1>3. life \in Nat /\ life >= MINLIFE
  BY TokenConstants
<1>4. at \in Nat /\ at >= read[t]
  BY <1>2
<1>5. at + life > now + MARGIN
  BY <1>2, <1>3, <1>4, TokenConstants
<1>6. /\ ExpiresAt(read[t], life) \in Nat
      /\ ExpiresAt(read[t], life) >= read[t] + FLOOR
      /\ ExpiresAt(read[t], life) + MARGIN <= read[t] + life
  BY <1>2, ExpiresWithin
<1>7. at + life \in Nat /\ ExpiresAt(read[t], life) + MARGIN <= at + life
  BY <1>2, <1>3, <1>4, <1>6, TokenConstants
<1>8. token'.expires_at = ExpiresAt(read[t], life) /\ token'.dies = at + life
  BY <1>1
<1> QED
  BY <1>1, <1>5, <1>6, <1>7, <1>8

LEMMA InitCacheInv == CacheInit => CacheInv
<1> SUFFICES ASSUME CacheInit PROVE CacheInv
  OBVIOUS
<1>1. CacheTypeOK
  BY DEF CacheInit, CacheTypeOK
<1>2. CacheIsEarly /\ OneAsks /\ TokensBounded
  BY DEF CacheInit, CacheIsEarly, OneAsks, TokensBounded
<1>3. Spaced
  BY TokenConstants DEF CacheInit, Spaced
<1> QED
  BY <1>1, <1>2, <1>3 DEF CacheInv

\* One more token, FLOOR later.
LEMMA OneMoreToken ==
  ASSUME NEW n \in Nat, NEW f \in Nat
  PROVE  (n + 1) * f = n * f + f /\ ((n + 1) - 1) * f = n * f /\ n * f \in Nat
  BY Z3

LEMMA CacheInvStep == CacheInv /\ [CacheNext]_cacheVars => CacheInv'
<1> SUFFICES ASSUME CacheInv, [CacheNext]_cacheVars PROVE CacheInv'
  OBVIOUS
<1> USE TokenConstants
<1>1. CASE Tick
  <2>1. CacheTypeOK'
    BY <1>1 DEF Tick, CacheInv, CacheTypeOK
  <2>2. OneAsks'
    <3>1. ASSUME NEW t \in Threads, stage[t] = "fetching"
          PROVE  read[t] <= now + 1 /\ now + 1 <= read[t] + TIMEOUT
      BY <1>1, <3>1 DEF Tick, CacheInv, CacheTypeOK, OneAsks
    <3> QED
      BY <1>1, <3>1 DEF Tick, CacheInv, OneAsks
  <2>3. TokensBounded'
    <3>1. issued * FLOOR \in Nat /\ (issued - 1) * FLOOR \in Int
      BY DEF CacheInv, CacheTypeOK
    <3> QED
      BY <1>1, <3>1 DEF Tick, CacheInv, CacheTypeOK, TokensBounded
  <2>4. CacheIsEarly' /\ Spaced'
    BY <1>1 DEF Tick, CacheInv, CacheIsEarly, Spaced
  <2> QED
    BY <2>1, <2>2, <2>3, <2>4 DEF CacheInv
<1>2. ASSUME NEW t \in Threads, Ask(t) \/ UseCached(t) \/ Finish(t)
      PROVE  CacheInv'
  <2>1. /\ UNCHANGED <<now, token, holder, read, issued>>
        /\ stage[t] # "fetching"
        /\ \E s \in {"waiting", "sending", "working"} : stage' = [stage EXCEPT ![t] = s]
    BY <1>2 DEF Ask, UseCached, Finish
  <2>2. \A s \in Threads : stage'[s] = "fetching" <=> stage[s] = "fetching"
    BY <2>1 DEF CacheInv, CacheTypeOK
  <2>3. dies' \in [Threads -> Nat]
    BY <1>2 DEF Ask, UseCached, Finish, CacheInv, CacheTypeOK
  <2>4. CacheTypeOK'
    BY <2>1, <2>2, <2>3 DEF CacheInv, CacheTypeOK
  <2>5. OneAsks'
    BY <2>1, <2>2 DEF CacheInv, OneAsks
  <2> QED
    BY <2>1, <2>4, <2>5 DEF CacheInv, CacheIsEarly, Spaced, TokensBounded
<1>3. ASSUME NEW t \in Threads, StartFetch(t)
      PROVE  CacheInv'
  <2>1. UNCHANGED <<now, token, dies, issued>> /\ stage' = [stage EXCEPT ![t] = "fetching"]
    BY <1>3 DEF StartFetch, Fetch
  <2>2. holder' = {t} /\ holder = {} /\ read' = [read EXCEPT ![t] = now]
    BY <1>3 DEF StartFetch, Fetch
  <2>3. \A s \in Threads : stage'[s] = "fetching" <=> s = t
    BY <2>1, <2>2 DEF CacheInv, CacheTypeOK
  <2>4. CacheTypeOK'
    BY <2>1, <2>2, <2>3 DEF CacheInv, CacheTypeOK
  <2>5. read'[t] = now /\ token.expires_at <= now
    BY <1>3, <2>2 DEF StartFetch, Fetch, Cached, CacheInv, CacheTypeOK
  <2>6. OneAsks'
    BY <2>1, <2>3, <2>5 DEF OneAsks, CacheInv, CacheTypeOK
  <2> QED
    BY <2>1, <2>4, <2>6 DEF CacheInv, CacheIsEarly, Spaced, TokensBounded
<1>4. ASSUME NEW t \in Threads, Fetched(t)
      PROVE  CacheInv'
  <2>1. /\ token' \in [expires_at : Nat, dies : Nat]
        /\ token'.expires_at \in Nat /\ token'.dies \in Nat
        /\ token'.expires_at >= read[t] + FLOOR
        /\ token'.expires_at + MARGIN <= token'.dies
        /\ dies' = [dies EXCEPT ![t] = token'.dies]
    BY <1>4, FetchedToken
  <2>2. /\ stage[t] = "fetching" /\ stage' = [stage EXCEPT ![t] = "sending"]
        /\ holder' = holder \ {t} /\ issued' = issued + 1
        /\ now' = now /\ read' = read
    BY <1>4 DEF Fetched
  <2>3. \A s \in Threads : stage'[s] # "fetching"
    BY <2>2 DEF CacheInv, CacheTypeOK, OneAsks
  <2>4. holder' = {}
    BY <2>2 DEF CacheInv, CacheTypeOK, OneAsks
  <2>5. CacheTypeOK'
    BY <2>1, <2>2, <2>3, <2>4 DEF CacheInv, CacheTypeOK
  <2>6. CacheIsEarly' /\ OneAsks'
    BY <2>1, <2>3 DEF CacheIsEarly, OneAsks
  <2>7. issued * FLOOR <= read[t] /\ read[t] <= now /\ read[t] \in Nat /\ now \in Nat
    <3>1. token.expires_at \in Nat /\ read[t] \in Nat /\ now \in Nat /\ issued * FLOOR \in Nat
      BY DEF CacheInv, CacheTypeOK
    <3> QED
      BY <2>2, <3>1 DEF CacheInv, OneAsks, Spaced
  <2>8. /\ issued' * FLOOR = issued * FLOOR + FLOOR
        /\ (issued' - 1) * FLOOR = issued * FLOOR
        /\ issued * FLOOR \in Nat
    BY <2>2, OneMoreToken DEF CacheInv, CacheTypeOK
  <2>9. Spaced'
    BY <2>1, <2>7, <2>8 DEF Spaced
  <2>10. TokensBounded'
    BY <2>2, <2>7, <2>8 DEF TokensBounded
  <2> QED
    BY <2>5, <2>6, <2>9, <2>10 DEF CacheInv
<1>5. ASSUME NEW t \in Threads, FetchFails(t)
      PROVE  CacheInv'
  <2>1. UNCHANGED <<now, token, read, dies, issued>> /\ holder' = holder \ {t}
        /\ stage[t] = "fetching" /\ stage' = [stage EXCEPT ![t] = "working"]
    BY <1>5 DEF FetchFails
  <2>2. \A s \in Threads : stage'[s] # "fetching"
    BY <2>1 DEF CacheInv, CacheTypeOK, OneAsks
  <2>3. holder' = {}
    BY <2>1 DEF CacheInv, CacheTypeOK, OneAsks
  <2>4. CacheTypeOK'
    BY <2>1, <2>2, <2>3 DEF CacheInv, CacheTypeOK
  <2>5. OneAsks'
    BY <2>2 DEF OneAsks
  <2> QED
    BY <2>1, <2>4, <2>5 DEF CacheInv, CacheIsEarly, Spaced, TokensBounded
<1>6. CASE UNCHANGED cacheVars
  BY <1>6 DEF cacheVars, CacheInv, CacheTypeOK, CacheIsEarly, OneAsks, Spaced, TokensBounded
<1> QED
  BY <1>1, <1>2, <1>3, <1>4, <1>5, <1>6 DEF CacheNext

LEMMA CacheInvariance == CacheSpec => []CacheInv
<1>1. CacheInit => CacheInv
  BY InitCacheInv
<1>2. CacheInv /\ [CacheNext]_cacheVars => CacheInv'
  BY CacheInvStep
<1> QED
  BY <1>1, <1>2, PTL DEF CacheSpec

\* TOKEN_LOCK is held exactly while its one holder asks Keycloak: a token request
\* that fails gives it back (access_token).
THEOREM LockCorrect == CacheSpec => []CacheTypeOK
<1>1. CacheInv => CacheTypeOK
  BY DEF CacheInv
<1> QED
  BY <1>1, CacheInvariance, PTL

\* However many threads share it, the Job is given one token per FLOOR.
THEOREM TokensAlwaysBounded == CacheSpec => []TokensBounded
<1>1. CacheInv => TokensBounded
  BY DEF CacheInv
<1> QED
  BY <1>1, CacheInvariance, PTL

Fresh == \A t \in Threads : stage[t] # "sending" /\ stage'[t] = "sending"
                              => dies'[t] > now + MARGIN

LEMMA StepFresh == CacheInv /\ [CacheNext]_cacheVars => [Fresh]_cacheVars
<1> SUFFICES ASSUME CacheInv, CacheNext PROVE Fresh
  OBVIOUS
<1> SUFFICES ASSUME NEW t \in Threads, stage[t] # "sending", stage'[t] = "sending"
             PROVE  dies'[t] > now + MARGIN
  BY DEF Fresh
<1>1. CASE Tick
  BY <1>1 DEF Tick
<1>2. ASSUME NEW s \in Threads, Ask(s) \/ StartFetch(s) \/ FetchFails(s) \/ Finish(s)
      PROVE  FALSE
  BY <1>2 DEF Ask, StartFetch, Fetch, FetchFails, Finish, CacheInv, CacheTypeOK
<1>3. ASSUME NEW s \in Threads, UseCached(s)
      PROVE  dies'[t] > now + MARGIN
  <2>1. s = t
    BY <1>3 DEF UseCached, CacheInv, CacheTypeOK
  <2>2. dies'[t] = token.dies
    BY <1>3, <2>1 DEF UseCached, CacheInv, CacheTypeOK
  <2>3. token.expires_at \in Nat /\ token.dies \in Nat /\ now \in Nat
    BY DEF CacheInv, CacheTypeOK
  <2>4. now < token.expires_at
    BY <1>3 DEF UseCached, Cached
  <2> QED
    BY <2>2, <2>3, <2>4, TokenConstants DEF CacheInv, CacheIsEarly
<1>4. ASSUME NEW s \in Threads, Fetched(s)
      PROVE  dies'[t] > now + MARGIN
  <2>1. s = t
    BY <1>4 DEF Fetched, CacheInv, CacheTypeOK
  <2>2. token'.dies > now + MARGIN /\ dies' = [dies EXCEPT ![t] = token'.dies]
    BY <1>4, <2>1, FetchedToken
  <2> QED
    BY <2>2 DEF CacheInv, CacheTypeOK
<1> QED
  BY <1>1, <1>2, <1>3, <1>4 DEF CacheNext

\* Every request starts with a token that is good for MARGIN more.
THEOREM AlwaysHandedOutFresh == CacheSpec => HandedOutFresh
<1>1. CacheInv /\ [CacheNext]_cacheVars => [Fresh]_cacheVars
  BY StepFresh
<1>2. CacheSpec => [][Fresh]_cacheVars
  BY <1>1, CacheInvariance, PTL DEF CacheSpec
<1> QED
  BY <1>2 DEF HandedOutFresh, Fresh
=============================================================================
