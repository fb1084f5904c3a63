SPECIFICATION Spec
CONSTANTS
  Owner = owner
  Helpers = {helper}
  Items <- MCItems
  Category <- MCCategory
  Malformed <- MCMalformed
  MaxOps = 3
INVARIANTS
  NothingIsForgotten
  LeftBehindIsLogged
