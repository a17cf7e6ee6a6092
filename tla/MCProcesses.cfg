SPECIFICATION FairSpec
CONSTANTS
  Process = {scheduler, executor, migrate}
  Engine = {scheduler}
  Worker = {executor}
  Migrator = {migrate}
  LastVersion = 2
  BatchSize = 1
  MaxStarts = 3
CHECK_DEADLOCK FALSE
INVARIANTS
  TypeOK
  NothingCutOff
  StopsClaiming
  AppliedExactlyOnce
  SchemaOfFiles
PROPERTY
  EndsAfterSignal
