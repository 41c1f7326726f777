SPECIFICATION FairSpec

CONSTANTS
  Config <- MCConfig
  Default <- MCDefault
  Values = {"1", "2", ""}
  Databases <- MCDatabases
  MaxFaults = 3

INVARIANT TypeOK
INVARIANT ServesMigrated
PROPERTY SchemaAllOrNothing
PROPERTY StartKeepsSettings
PROPERTY MigratedBoots
PROPERTY Recovers
CHECK_DEADLOCK FALSE
