SPECIFICATION PermissionsSpec
CONSTANTS
  Calls <- MCCalls
  Queries <- MCQueries
  Foreign <- MCForeign
  Me <- MCMe
  Company <- MCCompany
  EuContext <- MCEuContext
  PageSize = 2
  MaxGrants = 1
  MaxRevokes = 1
  MaxOthers = 1
INVARIANTS
  PermissionsTypeOK
  ConfirmedIsInForce
PROPERTIES
  ListsWhatWasAsked
  OnlyForeignScopesBreakAPage
