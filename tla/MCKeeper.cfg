CONSTANTS
  Repositories = {"pg/db"}
  UserNames = {"pg_db", "pg/db"}
  UnknownHandle = "cache"
  EnvKeys = {k1}
  MaxCompositions = 3
  MaxInjections = 2

SPECIFICATION Spec

INVARIANTS
  TypeOK
  HandleResolution
  InjectionResolvesToFinalNames
  SortRestoresInsertionOrder
