\* Edits may ask for more than the portfolio holds.
CONSTANTS
  N = 1
  Quantities = {1, 2}
  Prices = {1, 2}
  Scale = 2
  MakerRate = 0
  TakerRate = 1
  Amounts = {3}
  StartingPortfolio <- MCFullPortfolio
  PreviousPortfolios = {}
  Backtesting = TRUE
  FundedEdits = FALSE
  FundedResets = TRUE
  MaxTotal = 8
SPECIFICATION Spec
INVARIANTS
  AvailableWithinTotal
