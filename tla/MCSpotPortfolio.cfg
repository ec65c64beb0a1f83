\* Edits and resets stay within the funds; backtesting fills may slip.
CONSTANTS
  N = 2
  Quantities = {1, 2}
  Prices = {1, 2}
  Scale = 2
  MakerRate = 0
  TakerRate = 1
  Amounts = {3}
  StartingPortfolio <- MCStartingPortfolio
  PreviousPortfolios = {}
  Backtesting = TRUE
  FundedEdits = TRUE
  FundedResets = TRUE
  MaxTotal = 8
SPECIFICATION Spec
INVARIANTS
  TypeOK
  NonNegative
  Reconciled
PROPERTIES
  SettlesBothAssets
