SPECIFICATION SchemaSpec
CONSTANTS
  Databases <- SomeDatabases
  MaxFaults = 1
  MaxRestarts = 1
INVARIANTS
  SchemaInv
  ReadyFindsSchema
PROPERTIES
  OnlyAdminEndsAndOnlyFirst
CHECK_DEADLOCK FALSE
