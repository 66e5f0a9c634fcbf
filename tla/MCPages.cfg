SPECIFICATION Spec
CONSTANTS
  Artifacts = {a1, a2}
  Cases = {c1, c2}
  Forms = {f1}
  Matching = {a1}
  NoAnswer = NoAnswer
  ReportIds = {r1, r2}
  MaxAsks = 3
  MaxUploads = 1
  MaxVisits = 2
SYMMETRY Symmetric
CONSTRAINT Apart
INVARIANTS
  ListShowsItsCase
  DetailShowsItsArtifact
  VerdictOfLastSubmission
  LedgerShowsItsCase
  UploadOutcomeTrue
  UploadWasAllowed
  ReportOnRecordIsBacked
  VerdictUnderItsReport
  GeneratedIsListed
  SpinnerHasItsRequest
CHECK_DEADLOCK FALSE
