SPECIFICATION Spec
CONSTANTS
  Sessions = {"pay", "back", "retry", "spend"}
  Accounts = {1, 2, 3}
  Opening <- MCOpening
  Request <- MCUnknownSource
INVARIANT MoneyConserved
