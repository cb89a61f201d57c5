\* Deployments, migrations and the encrypted rows among them.
SPECIFICATION EncryptionSpec
CONSTANTS
  Databases <- AllDatabases
  Accounts <- MCAccounts
  Handlers = {"h"}
INVARIANTS
  SchemaMatchesJournal
  RevertPossible
  TextSurvives
PROPERTIES
  NeverMigratedFromScratch
