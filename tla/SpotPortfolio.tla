--------------------------- MODULE SpotPortfolio ---------------------------
(***************************************************************************)
(* The spot portfolio of the trading simulator, and of a real trader whose *)
(* portfolio is not synchronized with the exchange: how opening, editing,  *)
(* cancelling and filling an order, a deposit, a withdrawal and a history  *)
(* reset move the available and total amounts of the two assets of a       *)
(* trading pair.                                                           *)
(*                                                                         *)
(* Every operation runs between two suspension points of the event loop,   *)
(* so it is one action; an operation that raises PortfolioNegativeValue-   *)
(* Error half way leaves behind what it had already applied.  Amounts are  *)
(* integers counted in 1/Scale of a tradable step, so that fees, a         *)
(* fraction MakerRate/Scale or TakerRate/Scale of the trade, are integers. *)
(* A currency that the portfolio dict does not list has zero amounts until *)
(* something reads or updates it, and its first update is not checked.     *)
(***************************************************************************)
EXTENDS Integers, PartialSums

CONSTANTS
  N,                  \* orders are 1 .. N, each created at most once
  Quantities, Prices, \* what an order can be created with or edited to
  Scale, MakerRate, TakerRate,
  Amounts,            \* of a deposit or a withdrawal
  StartingPortfolio,  \* the configured simulated portfolio: amounts of some assets
  PreviousPortfolios, \* what earlier sessions may have ended with, likewise
  Backtesting,        \* fills are clipped to the current candle
  FundedEdits,        \* editors only ask for what the portfolio can lock
  FundedResets,       \* the history is only reset when StartingPortfolio covers the locked funds
  MaxTotal            \* bound on deposits (model checking only)

Assets == {"base", "quote"}
Sides == {"buy", "sell"}
\* Stop losses and take profits do not lock funds in the simulator.
Kinds == {"limit", "stop"}
Statuses == {"none", "refused", "open", "filled", "canceled"}

ASSUME SizesAssumption ==
  /\ N \in Nat
  /\ Quantities \subseteq Nat \ {0}
  /\ Prices \subseteq Nat \ {0}
  /\ Amounts \subseteq Nat \ {0}
  /\ MaxTotal \in Nat
ASSUME RatesAssumption ==
  /\ Scale \in Nat \ {0}
  /\ MakerRate \in 0 .. TakerRate
  /\ TakerRate \in 0 .. Scale - 1
\* A backtesting loads no previous session.
ASSUME PortfolioAssumption ==
  /\ \A p \in {StartingPortfolio} \cup PreviousPortfolios :
       DOMAIN p \subseteq Assets /\ \A a \in DOMAIN p : p[a] \in Nat
  /\ Backtesting => PreviousPortfolios = {}
ASSUME ModesAssumption ==
  /\ Backtesting \in BOOLEAN
  /\ FundedEdits \in BOOLEAN
  /\ FundedResets \in BOOLEAN

VARIABLES
  portfolio, \* Portfolio.portfolio: the SpotAsset of each currency
  listed,    \* the keys of that dict
  order,     \* the orders: their status and the attributes the portfolio reads
  slippage,  \* history: what fills below the limit price left locked in each asset
  overdrawn  \* history: the assets whose entry was created by a debit

vars == <<portfolio, listed, order, slippage, overdrawn>>

SpotAsset == [available : Int, total : Int]

Order == [status : Statuses, side : Sides, kind : Kinds, feeAsset : Assets,
          quantity : Quantities, price : Prices, filledPrice : Prices \cup {0}]

NoOrder == [status |-> "none"]
-----------------------------------------------------------------------------
\* The currency an order spends: order.market for a buy, order.currency for a sell.
Spent(o) == IF o.side = "buy" THEN "quote" ELSE "base"
Received(o) == IF o.side = "buy" THEN "base" ELSE "quote"

\* get_computed_fee: a share of the quantity, valued at the price when paid in quote.
ComputedFee(o, rate, price) ==
  IF o.feeAsset = "quote" THEN o.quantity * price * rate ELSE o.quantity * rate

FeeIn(o, asset, rate, price) ==
  IF o.feeAsset = asset THEN ComputedFee(o, rate, price) ELSE 0

\* The fees forecast while the order is open are taker fees at its own price.
ForecastFeeIn(o, asset) == FeeIn(o, asset, TakerRate, o.price)

\* get_order_locked_amount
LockedAmount(o) ==
  (IF o.side = "buy" THEN o.quantity * o.price ELSE o.quantity) * Scale
    + ForecastFeeIn(o, Spent(o))

IsCountedInAvailableFunds(o) == o.kind = "limit"
-----------------------------------------------------------------------------
\* An update of some assets under way: the amounts and keys reached so far and whether
\* PortfolioNegativeValueError was raised, after which nothing more is applied.
Start(p, keys) == [amounts |-> p, listed |-> keys, raised |-> FALSE]

Current == Start(portfolio, listed)

Moved(p, asset, available, total) ==
  [p EXCEPT ![asset] = [available |-> @.available + available, total |-> @.total + total]]

\* What _ensure_update_validity refuses.
Negative(a) == a.available < 0 \/ a.total < 0

\* Mutant of Update: without _ensure_update_validity.
UpdateUnchecked(r, asset, available, total) ==
  [r EXCEPT !.amounts = Moved(@, asset, available, total), !.listed = @ \cup {asset}]

\* _update_portfolio_data: a listed currency is updated by SpotAsset.update, which leaves
\* it as it was when it raises; for a missing one the raw deltas become its first amounts.
Update(r, asset, available, total) ==
  LET moved == Moved(r.amounts, asset, available, total)
      refused == /\ asset \in r.listed
                 /\ available # 0 \/ total # 0
                 /\ Negative(moved[asset])
  IN  IF r.raised \/ refused
      THEN [r EXCEPT !.raised = TRUE]
      ELSE [r EXCEPT !.amounts = moved, !.listed = @ \cup {asset}]

\* What an operation leaves in the portfolio, whether it raised or not.
Apply(r) ==
  /\ portfolio' = r.amounts
  /\ listed' = r.listed
  /\ overdrawn' = overdrawn \cup {a \in r.listed \ listed : Negative(r.amounts[a])}

\* update_portfolio_available_from_order for a new order, then for a closed one.
Lock(r, o) == Update(r, Spent(o), -LockedAmount(o), 0)
Release(r, o) == Update(r, Spent(o), LockedAmount(o), 0)

\* Mutant of ReleaseIfCounted: the canceled order's kind is not looked at.
ReleaseAny(r, o) == Release(r, o)

\* update_portfolio_available: orders that do not lock funds are skipped.
LockIfCounted(r, o) == IF IsCountedInAvailableFunds(o) THEN Lock(r, o) ELSE r
ReleaseIfCounted(r, o) == IF IsCountedInAvailableFunds(o) THEN Release(r, o) ELSE r

\* update_portfolio_data_from_order: base first, then quote.
UpdateFromFill(r, o, rate, filledPrice) ==
  LET filled == o.quantity * Scale
      baseFees == FeeIn(o, "base", rate, filledPrice)
      quoteFees == FeeIn(o, "quote", rate, filledPrice)
      bought == Update(r, "base", filled - baseFees, filled - baseFees)
      sold == Update(r, "base", ForecastFeeIn(o, "base") - baseFees, -filled - baseFees)
  IN  IF o.side = "buy"
      THEN Update(bought, "quote", ForecastFeeIn(o, "quote") - quoteFees,
                  -(filled * filledPrice) - quoteFees)
      ELSE Update(sold, "quote", filled * filledPrice - quoteFees,
                  filled * filledPrice - quoteFees)

\* Mutant of FillUpdate: a filled stop is settled without locking its funds first.
FillUpdateUnlocked(o, rate, filledPrice) == UpdateFromFill(Current, o, rate, filledPrice)

\* update_portfolio_from_filled_order: a stop locks its funds only now.
FillUpdate(o, rate, filledPrice) ==
  LET r == Current
  IN  UpdateFromFill(IF IsCountedInAvailableFunds(o) THEN r ELSE Lock(r, o), o, rate, filledPrice)

\* Mutant of PossibleFilledPrices: the sides of the clipping are swapped.
PossibleFilledPricesSwapped(o) ==
  IF o.filledPrice # 0 THEN {o.filledPrice}
  ELSE {p \in Prices : IF o.side = "buy" THEN p >= o.price ELSE p <= o.price}

\* update_order_filled_values: an edited price is kept as the filled price; a
\* backtesting fill never buys above, or sells below, the current candle.
PossibleFilledPrices(o) ==
  IF o.filledPrice # 0 THEN {o.filledPrice}
  ELSE IF ~Backtesting THEN {o.price}
  ELSE {p \in Prices : IF o.side = "buy" THEN p <= o.price ELSE p >= o.price}

\* A stop is filled as a taker; a limit order as either.
PossibleRates(o) == IF o.kind = "stop" THEN {TakerRate} ELSE {MakerRate, TakerRate}
-----------------------------------------------------------------------------
AmountIn(p, asset) == IF asset \in DOMAIN p THEN p[asset] ELSE 0

\* _load_portfolio: the configured portfolio, or all that a previous session ended with.
Init ==
  /\ \E p \in {StartingPortfolio} \cup PreviousPortfolios :
       /\ portfolio = [a \in Assets |-> [available |-> AmountIn(p, a), total |-> AmountIn(p, a)]]
       /\ listed = DOMAIN p
  /\ order = [i \in 1 .. N |-> NoOrder]
  /\ slippage = [a \in Assets |-> 0]
  /\ overdrawn = {}

\* OpenOrderState.initialize_impl: an order whose funds cannot be locked raises out
\* of its creation and never reaches the orders manager.
Open(i, o) ==
  LET r == LockIfCounted(Current, o)
  IN  /\ order[i] = NoOrder
      /\ Apply(r)
      /\ order' = [order EXCEPT ![i] = [o EXCEPT !.status = IF r.raised THEN "refused" ELSE "open"]]
      /\ UNCHANGED slippage

\* Order.update with an edited quantity and price, 0 for a value that is not edited.
\* The edited price is also given as filled price.
Edited(o, quantity, price) ==
  [o EXCEPT !.quantity = IF quantity = 0 THEN @ ELSE quantity,
            !.price = IF price = 0 THEN @ ELSE price,
            !.filledPrice = IF price = 0 THEN @ ELSE price]

\* Trader.edit_order on a simulated order: release with the old values, update the
\* order, lock with the new ones.  When the last step raises, the first two stay.
Edit(i, quantity, price) ==
  LET o == order[i]
      edited == Edited(o, quantity, price)
      released == ReleaseIfCounted(Current, o)
      relocked == LockIfCounted(released, edited)
  IN  /\ o.status = "open"
      /\ FundedEdits => ~relocked.raised
      /\ Apply(relocked)
      /\ order' = IF released.raised THEN order ELSE [order EXCEPT ![i] = edited]
      /\ UNCHANGED slippage

\* CancelOrderState.terminate; the error of a failed release is logged and dropped.
Cancel(i) ==
  /\ order[i].status = "open"
  /\ Apply(ReleaseIfCounted(Current, order[i]))
  /\ order' = [order EXCEPT ![i].status = "canceled"]
  /\ UNCHANGED slippage

\* What a fill at filledPrice leaves locked although the order is gone: the funds of
\* a buy are locked at its limit price and debited at the filled price.
Slipped(o, filledPrice) ==
  IF o.side = "buy" THEN o.quantity * Scale * (o.price - filledPrice) ELSE 0

\* FillOrderState.terminate, as far as the portfolio goes; the error is dropped.
Fill(i, rate, filledPrice) ==
  LET o == order[i]
      r == FillUpdate(o, rate, filledPrice)
  IN  /\ o.status = "open"
      /\ Apply(r)
      /\ order' = [order EXCEPT ![i] = [@ EXCEPT !.status = "filled", !.filledPrice = filledPrice]]
      /\ slippage' = IF r.raised THEN slippage
                     ELSE [slippage EXCEPT !["quote"] = @ + Slipped(o, filledPrice)]

Deposit(asset, amount) ==
  /\ portfolio[asset].total + amount <= MaxTotal
  /\ Apply(Update(Current, asset, amount, amount))
  /\ UNCHANGED <<order, slippage>>

Withdraw(asset, amount) ==
  LET r == Update(Current, asset, -amount, -amount)
  IN  /\ ~r.raised
      /\ Apply(r)
      /\ UNCHANGED <<order, slippage>>

\* get_currency_portfolio, which readers of the portfolio call at any time.
Look(asset) ==
  /\ asset \notin listed
  /\ listed' = listed \cup {asset}
  /\ UNCHANGED <<portfolio, order, slippage, overdrawn>>

Unavailable(asset) == portfolio[asset].total - portfolio[asset].available

\* restore_unavailable_from_other: no check that what is left is not negative.
Restored(asset) ==
  LET starting == AmountIn(StartingPortfolio, asset)
  IN  [available |-> starting - (IF Unavailable(asset) > 0 THEN Unavailable(asset) ELSE 0),
       total |-> starting]

\* PortfolioManager.reset_history: reload the configured portfolio, then take the
\* previously unavailable amounts away from it; what it does not list is forgotten.
ResetHistory ==
  /\ FundedResets => \A a \in Assets : Unavailable(a) <= AmountIn(StartingPortfolio, a)
  /\ listed' = DOMAIN StartingPortfolio
  /\ portfolio' = [a \in Assets |-> IF a \in listed' THEN Restored(a)
                                    ELSE [available |-> 0, total |-> 0]]
  /\ slippage' = [a \in Assets |-> IF a \in listed' THEN slippage[a] ELSE 0]
  /\ UNCHANGED <<order, overdrawn>>

NewOrders == {o \in Order : o.status = "none" /\ o.filledPrice = 0}

Next ==
  \/ \E i \in 1 .. N : \E o \in NewOrders : Open(i, o)
  \/ \E i \in 1 .. N, q \in Quantities \cup {0}, p \in Prices \cup {0} : Edit(i, q, p)
  \/ \E i \in 1 .. N : Cancel(i)
  \/ \E i \in 1 .. N : \E rate \in {MakerRate, TakerRate}, p \in Prices :
       /\ order[i].status = "open"
       /\ rate \in PossibleRates(order[i])
       /\ p \in PossibleFilledPrices(order[i])
       /\ Fill(i, rate, p)
  \/ \E a \in Assets, amount \in Amounts : Deposit(a, amount)
  \/ \E a \in Assets, amount \in Amounts : Withdraw(a, amount)
  \/ \E a \in Assets : Look(a)
  \/ ResetHistory

Spec == Init /\ [][Next]_vars
-----------------------------------------------------------------------------
\* Amounts are integers of any sign, orders have the attributes their creation and
\* edits can give them, and no fill pays more than the limit price locked.
TypeOK ==
  /\ portfolio \in [Assets -> SpotAsset]
  /\ listed \in SUBSET Assets
  /\ order \in [1 .. N -> Order \cup {NoOrder}]
  /\ slippage \in [Assets -> Nat]
  /\ overdrawn \in SUBSET Assets

\* Neither amount of an asset is ever negative (Asset._ensure_update_validity), whatever
\* the order of locks, releases, fills and resets, except for an asset whose entry was
\* created by a debit: the first lock or withdrawal of a missing currency is not checked
\* (Portfolio._update_portfolio_data).
NonNegative ==
  \A a \in Assets \ overdrawn : portfolio[a].available >= 0 /\ portfolio[a].total >= 0

\* What order i keeps locked in an asset.
LockOf(o, asset) ==
  IF o.status = "open" /\ IsCountedInAvailableFunds(o) /\ Spent(o) = asset
  THEN LockedAmount(o) ELSE 0

Locks(asset) == [i \in 1 .. N |-> LockOf(order[i], asset)]

\* What an asset's amounts and the open orders account for.
Accounted(asset) == portfolio[asset].available + SumTo(Locks(asset), N) + slippage[asset]

\* The available amount of an asset is its total minus what the open orders lock (as
\* get_orders_locked_amounts_by_asset computes it from the orders) and what backtesting
\* fills below their limit price never gave back: no order leaks funds, none releases
\* more than it locked, and no operation loses track of a lock.  Once an asset was
\* overdrawn, fills that fail half way may leave locks behind, and still nothing is ever
\* released or available in excess.
Reconciled ==
  \A a \in Assets :
    /\ Accounted(a) <= portfolio[a].total
    /\ overdrawn = {} => Accounted(a) = portfolio[a].total

\* An asset never has more available than it holds, even when an edit or a reset
\* goes beyond the funds: releases never exceed the funds that were locked.
AvailableWithinTotal ==
  \A a \in Assets : portfolio[a].available <= portfolio[a].total

\* A fill is applied to both assets or, for a stop whose funds are gone, to none: the
\* error the second of the two updates could raise never leaves the first alone, as long
\* as no entry of the two assets was created by a debit.
SettlesBothAssets ==
  [][\A i \in 1 .. N :
       order[i].status = "open" /\ order'[i].status = "filled" /\ overdrawn' = {} =>
         LET o == order[i]
         IN  \/ /\ portfolio'[Spent(o)].total < portfolio[Spent(o)].total
                /\ portfolio'[Received(o)].total > portfolio[Received(o)].total
             \/ o.kind = "stop" /\ portfolio' = portfolio]_vars
=============================================================================
