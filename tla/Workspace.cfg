SPECIFICATION Spec
CONSTANTS
  Handlers = {h1, h2}
  KeyNames = {k1, k2}
  MaxEntries = 4
  Nothing = Nothing
  Members = {m1, m2}
  Clients = {c1, c2}
  MaxInvites = 2
  Users = {u1}
  Drafts <- MCDrafts
  Extractions <- MCExtractions
  Cards = {1, 2, 3}
  Recruiters = {u1}
  JobRuns = {1, 2}
  TopScore = 2
  CohortSize = 2
  Scorecard <- MCScorecard
  Skills = {"sql", "java"}
  Eligibilities = {"us", "sponsorship"}
  Titles = {1, 2}
  Level <- MCLevel
  Histories <- MCHistories
  Today = 12
  TitleLists <- MCTitleLists
  IndustryLists <- MCIndustryLists
  QueryLimits = {1, 3, 8, 20}
SYMMETRY Symmetric
INVARIANTS
  WorkspaceTypeOK
  MembershipsAgree
  EditsBuildOnWhatTheySaw
  ScorecardsAreHonest
  ActivitiesTellTheStage
  ExportMissesNone
  PlansCoverInOrder
PROPERTIES
  OldInvitationsAreVoid
  AcceptanceIsSound
  MatchesAreSound
CHECK_DEADLOCK FALSE
