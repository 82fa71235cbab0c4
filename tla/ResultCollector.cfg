SPECIFICATION FairSpec
CONSTANTS
  JobList <- TwoJobs
  RUN_ID <- OneNamed
  COUNT = 1
  RunLines <- MCRunLines
  Unset = Unset
INVARIANTS InfoMeansAllReady
PROPERTIES SuccessIsKept JobsAreLoadRuns ResultsReported
