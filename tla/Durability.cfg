CONSTANTS
  Thread = {session, shutdown}
  MaxCommits = 4
  MaxFailures = 2
SPECIFICATION Spec
INVARIANTS FsyncedSurvives RecoversPrefix
