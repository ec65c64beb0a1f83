------------------------ MODULE SpotPortfolioProofs ------------------------
(***************************************************************************)
(* The accounting of SpotPortfolio, proved for any number of orders, any   *)
(* quantities, prices and fee rates, from any starting portfolio: as long  *)
(* as edits and resets stay within the funds, only the entry of an asset   *)
(* that a debit created is ever negative, and as long as there is none,    *)
(* every asset is reconciled with the open orders.                         *)
(***************************************************************************)
EXTENDS SpotPortfolio, PartialSumsProofs

\* The filled price an open order holds, if any, comes from an edit of its price.
EditedPrices ==
  \A i \in 1 .. N : order[i].status = "open" => order[i].filledPrice \in {0, order[i].price}

Nothing == [available |-> 0, total |-> 0]

\* A currency that is not in the dict has no amounts.
Unlisted == \A a \in Assets \ listed : portfolio[a] = Nothing

\* The inductive invariant: a fill can only be settled because the totals cover the
\* locks, can only slip downwards because edited prices are the order's own, and can
\* only overdraw an asset that had no entry.
Inv == TypeOK /\ NonNegative /\ Reconciled /\ EditedPrices /\ Unlisted

\* The two facts about what users ask for that the accounting depends on.
Funded == FundedEdits /\ FundedResets

\* What a fill debits from the asset an order spends, and credits to the other one,
\* before fees.
Cost(o, price) == IF o.side = "buy" THEN o.quantity * Scale * price ELSE o.quantity * Scale
Proceeds(o, price) == IF o.side = "buy" THEN o.quantity * Scale ELSE o.quantity * Scale * price
-----------------------------------------------------------------------------
LEMMA TimesNat == \A x, y \in Nat : x * y \in Nat
OBVIOUS

LEMMA TimesPositive == \A x, y \in Nat \ {0} : x * y \in Nat \ {0}
OBVIOUS

LEMMA TimesMonotonic ==
  ASSUME NEW x \in Nat, NEW y \in Nat, NEW z \in Nat, x <= y
  PROVE  x * z <= y * z /\ z * x <= z * y
OBVIOUS

LEMMA TimesStrict ==
  ASSUME NEW x \in Nat, NEW y \in Nat, NEW z \in Nat \ {0}, x < y
  PROVE  z * x < z * y
OBVIOUS

\* Fees are natural numbers, smaller than what they are paid from, and never more
\* than forecast; a lock is the cost at the order's price plus the forecast fees.
LEMMA FillArithmetic ==
  ASSUME NEW o \in Order, NEW rate \in 0 .. TakerRate, NEW p \in Prices,
         o.side = "buy" => p <= o.price
  PROVE  /\ Cost(o, p) \in Nat \ {0}
         /\ Proceeds(o, p) \in Nat \ {0}
         /\ \A a \in Assets : /\ ForecastFeeIn(o, a) \in Nat
                              /\ FeeIn(o, a, rate, p) \in Nat
         /\ FeeIn(o, Spent(o), rate, p) <= ForecastFeeIn(o, Spent(o))
         /\ FeeIn(o, Received(o), rate, p) < Proceeds(o, p)
         /\ LockedAmount(o) \in Nat
         /\ Slipped(o, p) \in Nat
         /\ LockedAmount(o) = Cost(o, p) + Slipped(o, p) + ForecastFeeIn(o, Spent(o))
<1> DEFINE q == o.quantity
<1>1. /\ q \in Nat \ {0} /\ p \in Nat \ {0} /\ o.price \in Nat \ {0}
      /\ Scale \in Nat \ {0} /\ TakerRate \in Nat /\ rate \in Nat
      /\ rate <= TakerRate /\ rate < Scale
      /\ o.feeAsset \in Assets /\ o.side \in Sides
  <2>1. Scale \in Nat \ {0} /\ TakerRate \in Nat /\ TakerRate < Scale
    BY RatesAssumption
  <2>2. rate \in Nat /\ rate <= TakerRate /\ rate < Scale
    BY <2>1
  <2>3. q \in Nat \ {0} /\ p \in Nat \ {0} /\ o.price \in Nat \ {0}
    BY SizesAssumption DEF Order
  <2>4. o.feeAsset \in Assets /\ o.side \in Sides
    BY DEF Order
  <2>5. QED BY <2>1, <2>2, <2>3, <2>4
<1> HIDE DEF q
<1>2. /\ q * Scale \in Nat \ {0} /\ q * Scale * p \in Nat \ {0}
      /\ q * rate \in Nat /\ q * TakerRate \in Nat
      /\ q * p \in Nat \ {0} /\ q * o.price \in Nat \ {0}
      /\ q * p * rate \in Nat /\ q * o.price * TakerRate \in Nat
  BY <1>1, TimesNat, TimesPositive
<1>3. q * rate <= q * TakerRate /\ q * rate < q * Scale
  BY <1>1, TimesMonotonic, TimesStrict
<1>4. q * p * rate < q * Scale * p
  <2>1. (q * p) * rate < (q * p) * Scale
    BY <1>1, <1>2, TimesStrict
  <2>2. (q * p) * Scale = q * Scale * p
    BY <1>1
  <2>3. QED BY <2>1, <2>2
<1>5. p <= o.price => q * p * rate <= q * o.price * TakerRate
  <2>1. SUFFICES ASSUME p <= o.price PROVE q * p * rate <= q * o.price * TakerRate
    OBVIOUS
  <2>2. q * p <= q * o.price
    BY <1>1, <2>1, TimesMonotonic
  <2>3. (q * p) * rate <= (q * o.price) * rate
    BY <1>1, <1>2, <2>2, TimesMonotonic
  <2>4. (q * o.price) * rate <= (q * o.price) * TakerRate
    BY <1>1, <1>2, TimesMonotonic
  <2>5. (q * o.price) * rate \in Nat
    BY <1>1, <1>2, TimesNat
  <2>6. QED BY <2>3, <2>4, <2>5, <1>2
<1>6. q * o.price * Scale = q * Scale * p + q * Scale * (o.price - p)
  BY <1>1
<1>7. p <= o.price => q * Scale * (o.price - p) \in Nat
  BY <1>1, <1>2, TimesNat
<1>8. CASE o.side = "buy"
  BY <1>1, <1>2, <1>3, <1>4, <1>5, <1>6, <1>7, <1>8
  DEF q, Cost, Proceeds, ForecastFeeIn, FeeIn, ComputedFee, Spent, Received, LockedAmount,
      Slipped, Assets
<1>9. CASE o.side = "sell"
  BY <1>1, <1>2, <1>3, <1>4, <1>9
  DEF q, Cost, Proceeds, ForecastFeeIn, FeeIn, ComputedFee, Spent, Received, LockedAmount,
      Slipped, Assets
<1>10. QED BY <1>1, <1>8, <1>9 DEF Sides
-----------------------------------------------------------------------------
LEMMA MovedType ==
  ASSUME NEW p \in [Assets -> SpotAsset], NEW a \in Assets, NEW da \in Int, NEW dt \in Int
  PROVE  /\ Moved(p, a, da, dt) \in [Assets -> SpotAsset]
         /\ Moved(p, a, da, dt)[a].available = p[a].available + da
         /\ Moved(p, a, da, dt)[a].total = p[a].total + dt
         /\ \A b \in Assets \ {a} : Moved(p, a, da, dt)[b] = p[b]
BY DEF Moved, SpotAsset

LEMMA MovedAvailable ==
  ASSUME NEW p \in [Assets -> SpotAsset], NEW a \in Assets, NEW da \in Int
  PROVE  /\ Moved(p, a, da, 0) \in [Assets -> SpotAsset]
         /\ Moved(p, a, da, 0)[a].available = p[a].available + da
         /\ Moved(p, a, da, 0)[a].total = p[a].total
         /\ \A b \in Assets \ {a} : Moved(p, a, da, 0)[b] = p[b]
<1>1. p[a].total \in Int /\ 0 \in Int
  BY DEF SpotAsset
<1>2. QED BY <1>1, MovedType

\* What an update that raised leaves.
Raised(p, keys) == [amounts |-> p, listed |-> keys, raised |-> TRUE]

\* An update is applied, and is then only negative if the asset was not listed, or raises
\* and changes nothing.
LEMMA UpdateOutcome ==
  ASSUME NEW p \in [Assets -> SpotAsset], NEW keys \in SUBSET Assets, NEW a \in Assets,
         NEW da \in Int, NEW dt \in Int
  PROVE  \/ /\ Update(Start(p, keys), a, da, dt) = Start(Moved(p, a, da, dt), keys \cup {a})
            /\ a \in keys /\ (da # 0 \/ dt # 0)
                 => p[a].available + da >= 0 /\ p[a].total + dt >= 0
         \/ /\ Update(Start(p, keys), a, da, dt) = Raised(p, keys)
            /\ a \in keys
            /\ ~ (p[a].available + da >= 0 /\ p[a].total + dt >= 0)
<1> DEFINE moved == Moved(p, a, da, dt)
           refused == a \in keys /\ (da # 0 \/ dt # 0) /\ Negative(moved[a])
<1>1. /\ moved[a].available = p[a].available + da
      /\ moved[a].total = p[a].total + dt
      /\ p[a].available \in Int /\ p[a].total \in Int
  BY MovedType DEF SpotAsset
<1>2. Update(Start(p, keys), a, da, dt)
        = IF refused THEN [Start(p, keys) EXCEPT !.raised = TRUE]
          ELSE [Start(p, keys) EXCEPT !.amounts = moved, !.listed = keys \cup {a}]
  BY DEF Update, Start
<1> HIDE DEF moved
<1>3. CASE refused
  <2>1. Update(Start(p, keys), a, da, dt) = Raised(p, keys)
    BY <1>2, <1>3 DEF Start, Raised
  <2>2. QED BY <2>1, <1>1, <1>3 DEF Negative
<1>4. CASE ~ refused
  <2>1. Update(Start(p, keys), a, da, dt) = Start(moved, keys \cup {a})
    BY <1>2, <1>4 DEF Start
  <2>2. QED BY <2>1, <1>1, <1>4 DEF Negative, moved
<1>5. QED BY <1>3, <1>4

\* An update that leaves both amounts of its asset non negative is applied.
LEMMA UpdateApplied ==
  ASSUME NEW p \in [Assets -> SpotAsset], NEW keys \in SUBSET Assets, NEW a \in Assets,
         NEW da \in Int, NEW dt \in Int,
         p[a].available + da >= 0, p[a].total + dt >= 0
  PROVE  Update(Start(p, keys), a, da, dt) = Start(Moved(p, a, da, dt), keys \cup {a})
BY UpdateOutcome

\* A lock or a release is applied, or raises and changes nothing.
LEMMA AvailableOutcome ==
  ASSUME NEW p \in [Assets -> SpotAsset], NEW keys \in SUBSET Assets, NEW a \in Assets,
         NEW da \in Int
  PROVE  \/ Update(Start(p, keys), a, da, 0) = Start(Moved(p, a, da, 0), keys \cup {a})
         \/ /\ Update(Start(p, keys), a, da, 0) = Raised(p, keys)
            /\ ~ (p[a].available + da >= 0 /\ p[a].total >= 0)
<1>1. 0 \in Int /\ p[a].total + 0 = p[a].total
  BY DEF SpotAsset
<1> DEFINE u == Update(Start(p, keys), a, da, 0)
<1>2. \/ u = Start(Moved(p, a, da, 0), keys \cup {a})
      \/ u = Raised(p, keys) /\ ~ (p[a].available + da >= 0 /\ p[a].total + 0 >= 0)
  BY <1>1, UpdateOutcome
<1> HIDE DEF u
<1>3. \/ u = Start(Moved(p, a, da, 0), keys \cup {a})
      \/ u = Raised(p, keys) /\ ~ (p[a].available + da >= 0 /\ p[a].total >= 0)
  BY <1>1, <1>2
<1>4. QED BY <1>3 DEF u

\* After an error nothing more is applied.
LEMMA UpdateAfterError ==
  ASSUME NEW p, NEW keys, NEW a, NEW da, NEW dt
  PROVE  Update(Raised(p, keys), a, da, dt) = Raised(p, keys)
BY DEF Update, Raised

\* Updates under way: only the entries they create, and those that were overdrawn before,
\* are negative; the currencies they did not reach are missing as they were.
Sound(r) ==
  /\ r \in [amounts : [Assets -> SpotAsset], listed : SUBSET Assets, raised : BOOLEAN]
  /\ listed \subseteq r.listed
  /\ \A a \in Assets \ r.listed : r.amounts[a] = Nothing
  /\ \A a \in listed \ overdrawn : ~ Negative(r.amounts[a])

LEMMA CurrentSound ==
  ASSUME Inv
  PROVE  Sound(Current)
<1>1. /\ portfolio \in [Assets -> SpotAsset] /\ listed \in SUBSET Assets
      /\ \A a \in Assets \ listed : portfolio[a] = Nothing
  BY DEF Inv, TypeOK, Unlisted
<1>2. \A a \in Assets \ overdrawn : ~ Negative(portfolio[a])
  BY <1>1 DEF Inv, NonNegative, Negative, SpotAsset
<1>3. QED BY <1>1, <1>2 DEF Sound, Current, Start

LEMMA UpdateSound ==
  ASSUME NEW r, Sound(r), NEW a \in Assets, NEW da \in Int, NEW dt \in Int
  PROVE  Sound(Update(r, a, da, dt))
<1> DEFINE moved == Moved(r.amounts, a, da, dt)
           refused == a \in r.listed /\ (da # 0 \/ dt # 0) /\ Negative(moved[a])
<1>1. /\ r.amounts \in [Assets -> SpotAsset] /\ r.listed \in SUBSET Assets
      /\ listed \subseteq r.listed /\ r.raised \in BOOLEAN
  BY DEF Sound
<1>2. /\ moved \in [Assets -> SpotAsset]
      /\ moved[a].available = r.amounts[a].available + da
      /\ moved[a].total = r.amounts[a].total + dt
      /\ \A b \in Assets \ {a} : moved[b] = r.amounts[b]
  BY <1>1, MovedType
<1>3. Update(r, a, da, dt)
        = IF r.raised \/ refused THEN [r EXCEPT !.raised = TRUE]
          ELSE [r EXCEPT !.amounts = moved, !.listed = r.listed \cup {a}]
  BY DEF Update, Sound
<1> HIDE DEF moved
<1>4. CASE r.raised \/ refused
  BY <1>3, <1>4 DEF Sound
<1>5. CASE ~ (r.raised \/ refused)
  <2> DEFINE u == [r EXCEPT !.amounts = moved, !.listed = r.listed \cup {a}]
  <2>1. /\ u \in [amounts : [Assets -> SpotAsset], listed : SUBSET Assets, raised : BOOLEAN]
        /\ u.amounts = moved /\ u.listed = r.listed \cup {a}
    BY <1>1, <1>2 DEF Sound
  <2>2. \A b \in Assets \ (r.listed \cup {a}) : moved[b] = Nothing
    BY <1>2 DEF Sound
  <2>3. \A b \in listed \ overdrawn : ~ Negative(moved[b])
    <3>1. SUFFICES ASSUME NEW b \in listed \ overdrawn PROVE ~ Negative(moved[b])
      OBVIOUS
    <3>2. b \in Assets /\ ~ Negative(r.amounts[b])
      BY <1>1 DEF Sound
    <3>3. CASE b # a
      BY <3>2, <3>3, <1>2
    <3>4. CASE b = a /\ (da # 0 \/ dt # 0)
      BY <3>4, <1>1, <1>5
    <3>5. CASE b = a /\ da = 0 /\ dt = 0
      <4>1. r.amounts[a].available \in Int /\ r.amounts[a].total \in Int
        BY <1>1 DEF SpotAsset
      <4>2. moved[a].available = r.amounts[a].available /\ moved[a].total = r.amounts[a].total
        BY <4>1, <3>5, <1>2
      <4>3. QED BY <4>2, <3>2, <3>5 DEF Negative
    <3>6. QED BY <3>3, <3>4, <3>5
  <2>4. Update(r, a, da, dt) = u
    BY <1>3, <1>5
  <2> HIDE DEF u
  <2>5. Sound(u)
    BY <2>1, <2>2, <2>3, <1>1 DEF Sound
  <2>6. QED BY <2>4, <2>5
<1>6. QED BY <1>4, <1>5

\* Whatever updates leave behind is typed, and negative only where it was overdrawn.
LEMMA ApplySound ==
  ASSUME Inv, NEW r, Sound(r), Apply(r)
  PROVE  /\ portfolio' \in [Assets -> SpotAsset] /\ listed' \in SUBSET Assets
         /\ overdrawn' \in SUBSET Assets /\ overdrawn \subseteq overdrawn'
         /\ NonNegative' /\ Unlisted'
<1>1. /\ r.amounts \in [Assets -> SpotAsset] /\ r.listed \in SUBSET Assets
      /\ portfolio' = r.amounts /\ listed' = r.listed
      /\ overdrawn' = overdrawn \cup {a \in r.listed \ listed : Negative(r.amounts[a])}
      /\ overdrawn \in SUBSET Assets
  BY DEF Sound, Apply, Inv, TypeOK
<1>2. NonNegative'
  <2>1. SUFFICES ASSUME NEW a \in Assets \ overdrawn' PROVE ~ Negative(r.amounts[a])
    BY <1>1 DEF NonNegative, Negative, SpotAsset
  <2>2. CASE a \notin r.listed
    <3>1. r.amounts[a] = Nothing
      BY <2>2 DEF Sound
    <3>2. QED BY <3>1 DEF Nothing, Negative
  <2>3. CASE a \in r.listed
    BY <2>3, <1>1 DEF Sound
  <2>4. QED BY <2>2, <2>3
<1>3. Unlisted'
  BY <1>1 DEF Sound, Unlisted
<1>4. QED BY <1>1, <1>2, <1>3

\* As long as no entry was created by a debit, all amounts are natural numbers.
LEMMA AmountsTyped ==
  ASSUME Inv, NEW a \in Assets
  PROVE  /\ portfolio[a].available \in Int /\ portfolio[a].total \in Int
         /\ slippage[a] \in Nat
         /\ overdrawn = {} => portfolio[a].available \in Nat /\ portfolio[a].total \in Nat
<1>1. portfolio[a].available \in Int /\ portfolio[a].total \in Int /\ slippage[a] \in Nat
  BY DEF Inv, TypeOK, SpotAsset
<1>2. overdrawn = {} => portfolio[a].available >= 0 /\ portfolio[a].total >= 0
  BY DEF Inv, NonNegative
<1>3. QED BY <1>1, <1>2
-----------------------------------------------------------------------------
LEMMA LockOfType ==
  ASSUME NEW o \in Order \cup {NoOrder}, NEW a \in Assets
  PROVE  LockOf(o, a) \in Nat
<1>1. CASE o \in Order
  <2>1. \A p \in Prices : p \in Nat
    BY SizesAssumption
  <2>2. o.price \in Prices /\ o.price <= o.price
    BY <1>1, <2>1 DEF Order
  <2>3. 0 \in 0 .. TakerRate
    BY RatesAssumption
  <2>4. LockedAmount(o) \in Nat
    BY <1>1, <2>2, <2>3, FillArithmetic
  <2>5. QED BY <2>4 DEF LockOf
<1>2. CASE o = NoOrder
  BY <1>2 DEF LockOf, NoOrder
<1>3. QED BY <1>1, <1>2

LEMMA LocksType ==
  ASSUME TypeOK, NEW a \in Assets
  PROVE  Locks(a) \in [1 .. N -> Nat]
BY LockOfType DEF Locks, TypeOK

\* When only order k changes, and for each asset the change of what order k locks
\* accounts for the change of the amounts, or leaves some of them locked once an asset was
\* overdrawn, the portfolio stays reconciled.
LEMMA ReconciledStep ==
  ASSUME TypeOK, TypeOK', Reconciled, NEW k \in 1 .. N, overdrawn \subseteq overdrawn',
         \A i \in (1 .. N) \ {k} : order'[i] = order[i],
         \A a \in Assets :
           LET before == portfolio[a].available + LockOf(order[k], a) + slippage[a]
                           - portfolio[a].total
               after == portfolio'[a].available + LockOf(order'[k], a) + slippage'[a]
                          - portfolio'[a].total
           IN  after <= before /\ (overdrawn' = {} => after = before)
  PROVE  Reconciled'
<1>1. SUFFICES ASSUME NEW a \in Assets
               PROVE  /\ portfolio'[a].available + SumTo(Locks(a)', N) + slippage'[a]
                           <= portfolio'[a].total
                      /\ overdrawn' = {} =>
                           portfolio'[a].available + SumTo(Locks(a)', N) + slippage'[a]
                             = portfolio'[a].total
  BY DEF Reconciled, Accounted
<1>2. Locks(a) \in [1 .. N -> Nat] /\ Locks(a)' \in [1 .. N -> Nat]
  <2>1. Locks(a)' \in [1 .. N -> Nat]
    BY LockOfType DEF Locks, TypeOK
  <2>2. QED BY <2>1, LocksType
<1>3. Locks(a) \in [1 .. N -> Int] /\ Locks(a)' \in [1 .. N -> Int]
  BY <1>2
<1>4. \A i \in (1 .. N) \ {k} : Locks(a)'[i] = Locks(a)[i]
  BY DEF Locks
<1>5. Locks(a)[k] = LockOf(order[k], a) /\ Locks(a)'[k] = LockOf(order'[k], a)
  BY DEF Locks
<1>6. N \in Nat
  BY SizesAssumption
<1>7. SumTo(Locks(a)', N) = SumTo(Locks(a), N) + (Locks(a)'[k] - Locks(a)[k])
  BY <1>3, <1>4, <1>6, SumToUpdate
<1>8. SumTo(Locks(a), N) \in Int /\ Locks(a)[k] \in Int /\ Locks(a)'[k] \in Int
  BY <1>3, <1>6, SumToType
<1>9. /\ portfolio[a].available \in Int /\ portfolio[a].total \in Int
      /\ portfolio'[a].available \in Int /\ portfolio'[a].total \in Int
      /\ slippage[a] \in Int /\ slippage'[a] \in Int
  BY DEF TypeOK, SpotAsset
<1>10. /\ portfolio[a].available + SumTo(Locks(a), N) + slippage[a] <= portfolio[a].total
       /\ overdrawn' = {} =>
            portfolio[a].available + SumTo(Locks(a), N) + slippage[a] = portfolio[a].total
  BY DEF Reconciled, Accounted
<1> DEFINE before == portfolio[a].available + Locks(a)[k] + slippage[a] - portfolio[a].total
           after == portfolio'[a].available + Locks(a)'[k] + slippage'[a] - portfolio'[a].total
<1>11. after <= before /\ (overdrawn' = {} => after = before)
  BY <1>5
<1>12. QED
  BY <1>7, <1>8, <1>9, <1>10, <1>11

\* A reconciled asset holds what is available and what any one order locks.
LEMMA TotalCoversLock ==
  ASSUME Inv, NEW k \in 1 .. N, NEW a \in Assets
  PROVE  /\ portfolio[a].available \in Int /\ portfolio[a].total \in Int /\ slippage[a] \in Nat
         /\ LockOf(order[k], a) \in Nat
         /\ portfolio[a].available + LockOf(order[k], a) <= portfolio[a].total
<1>1. N \in Nat
  BY SizesAssumption
<1>2. Locks(a) \in [1 .. N -> Nat]
  BY LocksType DEF Inv
<1>3. Locks(a)[k] <= SumTo(Locks(a), N) /\ SumTo(Locks(a), N) \in Nat
  BY <1>1, <1>2, SumToAtLeast, SumToNat
<1>4. Locks(a)[k] = LockOf(order[k], a) /\ Locks(a)[k] \in Nat
  BY <1>2 DEF Locks
<1>5. portfolio[a].available \in Int /\ portfolio[a].total \in Int /\ slippage[a] \in Nat
  BY AmountsTyped
<1>6. portfolio[a].available + SumTo(Locks(a), N) + slippage[a] <= portfolio[a].total
  BY DEF Inv, Reconciled, Accounted
<1>7. QED
  BY <1>3, <1>4, <1>5, <1>6
-----------------------------------------------------------------------------
LEMMA SpentReceived ==
  ASSUME NEW o \in Order
  PROVE  /\ Spent(o) \in Assets /\ Received(o) \in Assets /\ Spent(o) # Received(o)
         /\ Assets = {Spent(o), Received(o)}
BY DEF Spent, Received, Assets

\* What an open order locks, by the asset it spends.
LEMMA OpenLock ==
  ASSUME NEW o \in Order, o.status = "open"
  PROVE  /\ LockOf(o, Received(o)) = 0
         /\ LockOf(o, Spent(o)) = IF IsCountedInAvailableFunds(o) THEN LockedAmount(o) ELSE 0
BY SpentReceived DEF LockOf

LEMMA LockedAmountType ==
  ASSUME NEW o \in Order
  PROVE  LockedAmount(o) \in Nat
<1>1. o.price \in Prices /\ o.price <= o.price
  <2>1. \A p \in Prices : p \in Nat
    BY SizesAssumption
  <2>2. QED BY <2>1 DEF Order
<1>2. 0 \in 0 .. TakerRate
  BY RatesAssumption
<1>3. QED BY <1>1, <1>2, FillArithmetic

\* A lock is never empty.
LEMMA LockedAmountPositive ==
  ASSUME NEW o \in Order
  PROVE  LockedAmount(o) \in Nat \ {0}
<1>1. o.price \in Prices /\ o.price <= o.price /\ 0 \in 0 .. TakerRate
  <2>1. \A p \in Prices : p \in Nat
    BY SizesAssumption
  <2>2. QED BY <2>1, RatesAssumption DEF Order
<1>2. /\ LockedAmount(o) = Cost(o, o.price) + Slipped(o, o.price) + ForecastFeeIn(o, Spent(o))
      /\ Cost(o, o.price) \in Nat \ {0} /\ Slipped(o, o.price) \in Nat
      /\ ForecastFeeIn(o, Spent(o)) \in Nat
  BY <1>1, FillArithmetic, SpentReceived
<1>3. QED BY <1>2

LEMMA LockSound ==
  ASSUME NEW r, Sound(r), NEW o \in Order
  PROVE  /\ Sound(Lock(r, o)) /\ Sound(Release(r, o))
         /\ Sound(LockIfCounted(r, o)) /\ Sound(ReleaseIfCounted(r, o))
<1>1. Spent(o) \in Assets /\ LockedAmount(o) \in Int /\ -LockedAmount(o) \in Int /\ 0 \in Int
  BY SpentReceived, LockedAmountType
<1>2. Sound(Lock(r, o)) /\ Sound(Release(r, o))
  BY <1>1, UpdateSound DEF Lock, Release
<1>3. QED BY <1>2 DEF LockIfCounted, ReleaseIfCounted
-----------------------------------------------------------------------------
LEMMA InitInv ==
  ASSUME Init
  PROVE  Inv
<1>1. PICK p \in {StartingPortfolio} \cup PreviousPortfolios :
        /\ portfolio = [a \in Assets |-> [available |-> AmountIn(p, a), total |-> AmountIn(p, a)]]
        /\ listed = DOMAIN p
  BY DEF Init
<1>2. DOMAIN p \in SUBSET Assets /\ \A a \in Assets : AmountIn(p, a) \in Nat
  BY PortfolioAssumption DEF AmountIn
<1>3. \A a \in Assets : portfolio[a] = [available |-> AmountIn(p, a), total |-> AmountIn(p, a)]
  BY <1>1
<1> DEFINE starting(a) == AmountIn(p, a)
<1>4. \A a \in Assets : portfolio[a] = [available |-> starting(a), total |-> starting(a)]
  BY <1>3
<1>5. \A a \in Assets : starting(a) \in Nat
  BY <1>2
<1> HIDE DEF starting
<1>6. \A a \in Assets : /\ portfolio[a].available = starting(a) /\ portfolio[a].total = starting(a)
                        /\ starting(a) \in Nat
  <2> TAKE a \in Assets
  <2>1. portfolio[a] = [available |-> starting(a), total |-> starting(a)]
    BY <1>4
  <2>2. QED BY <2>1, <1>5
<1>7. TypeOK
  BY <1>1, <1>2 DEF Init, TypeOK, SpotAsset
<1>8. NonNegative
  BY <1>6 DEF NonNegative
<1>9. Reconciled
  <2>1. SUFFICES ASSUME NEW a \in Assets
                 PROVE  /\ Accounted(a) = portfolio[a].total /\ portfolio[a].total \in Nat
    BY DEF Reconciled
  <2>2. N \in Nat
    BY SizesAssumption
  <2>3. \A i \in 1 .. N : LockOf(order[i], a) = 0
    BY DEF Init, LockOf, NoOrder
  <2>4. Locks(a) \in [1 .. N -> Int] /\ \A i \in 1 .. N : Locks(a)[i] = 0
    BY <2>3 DEF Locks
  <2>5. SumTo(Locks(a), N) = 0
    BY <2>2, <2>4, SumToZero
  <2>6. slippage[a] = 0
    BY DEF Init
  <2>7. /\ portfolio[a].available = portfolio[a].total /\ portfolio[a].total \in Nat
    BY <1>6
  <2>8. QED BY <2>5, <2>6, <2>7 DEF Accounted
<1>10. EditedPrices
  BY DEF Init, EditedPrices, NoOrder
<1>11. Unlisted
  BY <1>1, <1>3 DEF Unlisted, AmountIn, Nothing
<1>12. QED BY <1>7, <1>8, <1>9, <1>10, <1>11 DEF Inv

\* The orders are those of the type invariant; an open one has all its attributes.
LEMMA OpenOrder ==
  ASSUME Inv, NEW k \in 1 .. N, order[k].status = "open"
  PROVE  order[k] \in Order
<1>1. order[k] \in Order \cup {NoOrder}
  BY DEF Inv, TypeOK
<1>2. QED BY <1>1 DEF NoOrder

LEMMA OpenStep ==
  ASSUME Inv, NEW k \in 1 .. N, NEW o \in NewOrders, Open(k, o)
  PROVE  Inv'
<1> DEFINE opened == [o EXCEPT !.status = "open"]
           refused == [o EXCEPT !.status = "refused"]
           r == LockIfCounted(Current, o)
<1>1. o \in Order /\ o.filledPrice = 0 /\ opened \in Order /\ refused \in Order
  BY DEF NewOrders, Order, Statuses
<1>2. /\ Spent(opened) = Spent(o) /\ LockedAmount(opened) = LockedAmount(o)
      /\ IsCountedInAvailableFunds(opened) = IsCountedInAvailableFunds(o)
  BY <1>1 DEF Order, Spent, LockedAmount, ForecastFeeIn, FeeIn, ComputedFee,
              IsCountedInAvailableFunds
<1>3. Spent(o) \in Assets /\ LockedAmount(o) \in Nat /\ -LockedAmount(o) \in Int
  BY <1>1, SpentReceived, LockedAmountType
<1>4. /\ portfolio \in [Assets -> SpotAsset] /\ listed \in SUBSET Assets
      /\ portfolio[Spent(o)].available \in Int /\ portfolio[Spent(o)].total \in Int
      /\ order[k] = NoOrder /\ slippage' = slippage
  BY <1>3, AmountsTyped DEF Inv, TypeOK, Open
<1>5. \A a \in Assets : LockOf(order[k], a) = 0 /\ LockOf(refused, a) = 0
  BY <1>4, <1>1 DEF LockOf, NoOrder, Order
<1>6. \A a \in Assets : LockOf(opened, a)
        = IF a = Spent(o) /\ IsCountedInAvailableFunds(o) THEN LockedAmount(o) ELSE 0
  <2>1. opened.status = "open"
    BY <1>1 DEF Order
  <2>2. QED BY <1>2, <2>1 DEF LockOf
<1> DEFINE moved == Moved(portfolio, Spent(o), -LockedAmount(o), 0)
<1>7. /\ Sound(r) /\ Apply(r)
      /\ order' = [order EXCEPT ![k] = IF r.raised THEN refused ELSE opened]
  <2>1. Sound(r)
    BY <1>1, CurrentSound, LockSound
  <2>2. QED BY <2>1, Zenon DEF Open
<1>8. \/ /\ ~ IsCountedInAvailableFunds(o)
         /\ portfolio' = portfolio /\ order' = [order EXCEPT ![k] = opened]
      \/ /\ IsCountedInAvailableFunds(o)
         /\ portfolio' = moved /\ order' = [order EXCEPT ![k] = opened]
      \/ portfolio' = portfolio /\ order' = [order EXCEPT ![k] = refused]
  <2>1. CASE ~ IsCountedInAvailableFunds(o)
    <3>1. r = Start(portfolio, listed)
      BY <2>1 DEF LockIfCounted, Current
    <3> HIDE DEF r, opened, refused
    <3>2. QED BY <3>1, <2>1, <1>7 DEF Start, Apply
  <2>2. CASE IsCountedInAvailableFunds(o)
    <3>1. r = Update(Start(portfolio, listed), Spent(o), -LockedAmount(o), 0)
      BY <2>2 DEF LockIfCounted, Lock, Current
    <3> HIDE DEF r
    <3>2. \/ r = Start(moved, listed \cup {Spent(o)})
          \/ r = Raised(portfolio, listed)
      BY <3>1, <1>3, <1>4, AvailableOutcome
    <3> HIDE DEF moved, opened, refused
    <3>3. CASE r = Start(moved, listed \cup {Spent(o)})
      <4>1. r.amounts = moved /\ ~ r.raised
        BY <3>3 DEF Start
      <4>2. QED BY <4>1, <2>2, <1>7 DEF Apply
    <3>4. CASE r = Raised(portfolio, listed)
      <4>1. r.amounts = portfolio /\ r.raised
        BY <3>4 DEF Raised
      <4>2. QED BY <4>1, <1>7 DEF Apply
    <3>5. QED BY <3>2, <3>3, <3>4
  <2>3. QED BY <2>1, <2>2
<1>9. /\ moved \in [Assets -> SpotAsset]
      /\ moved[Spent(o)].available = portfolio[Spent(o)].available - LockedAmount(o)
      /\ moved[Spent(o)].total = portfolio[Spent(o)].total
      /\ \A b \in Assets \ {Spent(o)} : moved[b] = portfolio[b]
  <2>1. /\ moved \in [Assets -> SpotAsset]
        /\ moved[Spent(o)].available = portfolio[Spent(o)].available + (-LockedAmount(o))
        /\ moved[Spent(o)].total = portfolio[Spent(o)].total
        /\ \A b \in Assets \ {Spent(o)} : moved[b] = portfolio[b]
    BY <1>3, <1>4, MovedAvailable
  <2> HIDE DEF moved
  <2>2. QED BY <2>1, <1>3, <1>4
<1> HIDE DEF moved, opened, refused, r
<1>10. /\ portfolio' \in [Assets -> SpotAsset] /\ listed' \in SUBSET Assets
       /\ overdrawn' \in SUBSET Assets /\ overdrawn \subseteq overdrawn'
       /\ NonNegative' /\ Unlisted'
  BY <1>7, ApplySound
<1>11. TypeOK'
  BY <1>1, <1>4, <1>8, <1>10 DEF Inv, TypeOK
<1>12. Reconciled'
  <2>1. \A i \in (1 .. N) \ {k} : order'[i] = order[i]
    BY <1>8 DEF Inv, TypeOK
  <2>2. \A a \in Assets :
          portfolio'[a].available + LockOf(order'[k], a) + slippage'[a] - portfolio'[a].total
            = portfolio[a].available + LockOf(order[k], a) + slippage[a] - portfolio[a].total
    <3>2. SUFFICES ASSUME NEW a \in Assets
                   PROVE portfolio'[a].available + LockOf(order'[k], a) + slippage'[a]
                           - portfolio'[a].total
                         = portfolio[a].available + LockOf(order[k], a) + slippage[a]
                           - portfolio[a].total
      OBVIOUS
    <3>3. /\ portfolio[a].available \in Int /\ portfolio[a].total \in Int
          /\ slippage[a] \in Int /\ slippage'[a] = slippage[a]
      BY <1>4, AmountsTyped
    <3>4. CASE portfolio' = portfolio /\ order'[k] = refused
      BY <3>3, <3>4, <1>5
    <3>5. CASE portfolio' = portfolio /\ order'[k] = opened /\ ~ IsCountedInAvailableFunds(o)
      BY <3>3, <3>5, <1>5, <1>6
    <3>6. CASE portfolio' = moved /\ order'[k] = opened /\ IsCountedInAvailableFunds(o)
      <4>1. CASE a = Spent(o)
        BY <4>1, <3>3, <3>6, <1>3, <1>5, <1>6, <1>9
      <4>2. CASE a # Spent(o)
        BY <4>2, <3>3, <3>6, <1>5, <1>6, <1>9
      <4>3. QED BY <4>1, <4>2
    <3>7. /\ order[k] = NoOrder
          /\ order' = [order EXCEPT ![k] = opened] => order'[k] = opened
          /\ order' = [order EXCEPT ![k] = refused] => order'[k] = refused
      BY <1>4 DEF Inv, TypeOK
    <3>8. QED BY <1>8, <3>4, <3>5, <3>6, <3>7
  <2>3. \A a \in Assets :
          /\ portfolio'[a].available + LockOf(order'[k], a) + slippage'[a] - portfolio'[a].total
               \in Int
    <3>1. order'[k] \in Order \cup {NoOrder}
      BY <1>11 DEF TypeOK
    <3>2. \A a \in Assets : LockOf(order'[k], a) \in Nat
      BY <3>1, LockOfType
    <3>3. QED BY <3>2, <1>11 DEF TypeOK, SpotAsset
  <2>4. QED BY <2>1, <2>2, <2>3, <1>10, <1>11, ReconciledStep DEF Inv
<1>13. EditedPrices'
  <2>1. opened.filledPrice = 0 /\ refused.filledPrice = 0
    BY <1>1 DEF opened, refused, Order
  <2>2. SUFFICES ASSUME NEW i \in 1 .. N, order'[i].status = "open"
                 PROVE  order'[i].filledPrice \in {0, order'[i].price}
    BY DEF EditedPrices
  <2>3. order'[i] \in {order[i], opened, refused}
    BY <1>8 DEF Inv, TypeOK
  <2>4. QED BY <2>1, <2>2, <2>3 DEF Inv, EditedPrices
<1>14. QED BY <1>10, <1>11, <1>12, <1>13 DEF Inv

LEMMA CancelStep ==
  ASSUME Inv, NEW k \in 1 .. N, Cancel(k)
  PROVE  Inv'
<1> DEFINE o == order[k]
           canceled == [order[k] EXCEPT !.status = "canceled"]
           moved == Moved(portfolio, Spent(o), LockedAmount(o), 0)
           r == ReleaseIfCounted(Current, o)
<1>1. o \in Order /\ canceled \in Order /\ o.status = "open" /\ canceled.status = "canceled"
  BY OpenOrder DEF Cancel, Order, Statuses
<1>2. /\ Spent(o) \in Assets /\ LockedAmount(o) \in Nat
      /\ LockOf(o, Received(o)) = 0 /\ Assets = {Spent(o), Received(o)}
      /\ Received(o) # Spent(o)
      /\ LockOf(o, Spent(o)) = IF IsCountedInAvailableFunds(o) THEN LockedAmount(o) ELSE 0
  BY <1>1, SpentReceived, LockedAmountType, OpenLock
<1>3. /\ portfolio \in [Assets -> SpotAsset] /\ listed \in SUBSET Assets
      /\ portfolio[Spent(o)].available \in Int /\ portfolio[Spent(o)].total \in Int
      /\ order' = [order EXCEPT ![k] = canceled] /\ slippage' = slippage
  BY <1>2, AmountsTyped DEF Inv, TypeOK, Cancel
<1>4. \A a \in Assets : LockOf(canceled, a) = 0
  BY <1>1 DEF LockOf
<1>5. /\ moved \in [Assets -> SpotAsset]
      /\ moved[Spent(o)].available = portfolio[Spent(o)].available + LockedAmount(o)
      /\ moved[Spent(o)].total = portfolio[Spent(o)].total
      /\ moved[Received(o)] = portfolio[Received(o)]
  <2>1. LockedAmount(o) \in Int /\ Spent(o) \in Assets /\ Received(o) \in Assets \ {Spent(o)}
    BY <1>2
  <2>2. /\ moved \in [Assets -> SpotAsset]
        /\ moved[Spent(o)].available = portfolio[Spent(o)].available + LockedAmount(o)
        /\ moved[Spent(o)].total = portfolio[Spent(o)].total
        /\ \A b \in Assets \ {Spent(o)} : moved[b] = portfolio[b]
    BY <2>1, <1>3, MovedAvailable
  <2>3. QED BY <2>1, <2>2
<1>6. Sound(r) /\ Apply(r)
  <2>1. Sound(r)
    BY <1>1, CurrentSound, LockSound
  <2>2. QED BY <2>1 DEF Cancel
<1>7. \/ portfolio' = IF IsCountedInAvailableFunds(o) THEN moved ELSE portfolio
      \/ portfolio' = portfolio /\ overdrawn # {}
  <2>1. CASE IsCountedInAvailableFunds(o)
    <3> HIDE DEF o
    <3>1. r = Update(Start(portfolio, listed), Spent(o), LockedAmount(o), 0)
      BY <2>1 DEF ReleaseIfCounted, Release, Current
    <3> HIDE DEF r
    <3>2. \/ r = Start(moved, listed \cup {Spent(o)})
          \/ /\ r = Raised(portfolio, listed)
             /\ ~ (/\ portfolio[Spent(o)].available + LockedAmount(o) >= 0
                   /\ portfolio[Spent(o)].total >= 0)
      <4>1. LockedAmount(o) \in Int
        BY <1>2
      <4>2. QED BY <4>1, <3>1, <1>2, <1>3, AvailableOutcome
    <3>3. overdrawn = {} => /\ portfolio[Spent(o)].available \in Nat
                            /\ portfolio[Spent(o)].total \in Nat
      BY <1>2, AmountsTyped
    <3> HIDE DEF moved
    <3>4. r = Start(moved, listed \cup {Spent(o)}) => portfolio' = moved
      BY <1>6 DEF Start, Apply
    <3>5. r = Raised(portfolio, listed) => portfolio' = portfolio
      BY <1>6 DEF Raised, Apply
    <3>6. QED BY <3>2, <3>3, <3>4, <3>5, <2>1, <1>2
  <2>2. CASE ~ IsCountedInAvailableFunds(o)
    <3>1. r = Start(portfolio, listed)
      BY <2>2 DEF ReleaseIfCounted, Current
    <3> HIDE DEF r
    <3>2. QED BY <3>1, <2>2, <1>6 DEF Start, Apply
  <2>3. QED BY <2>1, <2>2
<1> HIDE DEF moved, canceled, r
<1>8. /\ portfolio' \in [Assets -> SpotAsset] /\ listed' \in SUBSET Assets
      /\ overdrawn' \in SUBSET Assets /\ overdrawn \subseteq overdrawn'
      /\ NonNegative' /\ Unlisted'
  BY <1>6, ApplySound
<1>9. TypeOK'
  BY <1>1, <1>3, <1>8 DEF Inv, TypeOK
<1>10. Reconciled'
  <2>1. order'[k] = canceled /\ \A i \in (1 .. N) \ {k} : order'[i] = order[i]
    BY <1>3 DEF Inv, TypeOK
  <2>2. \A a \in Assets : /\ portfolio[a].available \in Int /\ portfolio[a].total \in Int
                          /\ slippage[a] \in Int
    BY AmountsTyped
  <2>3. CASE portfolio' = IF IsCountedInAvailableFunds(o) THEN moved ELSE portfolio
    <3>1. \A a \in Assets :
            LET before == portfolio[a].available + LockOf(order[k], a) + slippage[a]
                            - portfolio[a].total
                after == portfolio'[a].available + LockOf(order'[k], a) + slippage'[a]
                           - portfolio'[a].total
            IN  after <= before /\ (overdrawn' = {} => after = before)
      BY <2>1, <2>2, <2>3, <1>2, <1>3, <1>4, <1>5
    <3>2. QED BY <3>1, <2>1, <1>8, <1>9, ReconciledStep DEF Inv
  <2>4. CASE portfolio' = portfolio /\ overdrawn # {}
    <3>1. \A a \in Assets :
            LET before == portfolio[a].available + LockOf(order[k], a) + slippage[a]
                            - portfolio[a].total
                after == portfolio'[a].available + LockOf(order'[k], a) + slippage'[a]
                           - portfolio'[a].total
            IN  after <= before /\ (overdrawn' = {} => after = before)
      BY <2>1, <2>2, <2>4, <1>2, <1>3, <1>4, <1>8
    <3>2. QED BY <3>1, <2>1, <1>8, <1>9, ReconciledStep DEF Inv
  <2>5. QED BY <2>3, <2>4, <1>7
<1>11. EditedPrices'
  BY <1>1, <1>3 DEF Inv, EditedPrices, TypeOK
<1>12. QED BY <1>8, <1>9, <1>10, <1>11 DEF Inv

LEMMA EditStep ==
  ASSUME Inv, FundedEdits, NEW k \in 1 .. N,
         NEW q \in Quantities \cup {0}, NEW p \in Prices \cup {0}, Edit(k, q, p)
  PROVE  Inv'
<1> DEFINE o == order[k]
           edited == Edited(order[k], q, p)
           released == Moved(portfolio, Spent(o), LockedAmount(o), 0)
           relocked == Moved(released, Spent(o), -LockedAmount(edited), 0)
           r1 == ReleaseIfCounted(Current, o)
           r2 == LockIfCounted(r1, edited)
<1>1. /\ o \in Order /\ o.status = "open"
      /\ edited \in Order /\ edited.status = "open" /\ edited.side = o.side
      /\ edited.kind = o.kind /\ edited.filledPrice \in {0, edited.price}
  <2>1. o \in Order /\ o.status = "open" /\ o.filledPrice \in {0, o.price}
    BY OpenOrder DEF Edit, Inv, EditedPrices
  <2>2. QED BY <2>1 DEF Edited, Order
<1>2. /\ ~ r2.raised /\ Apply(r2)
      /\ order' = IF r1.raised THEN order ELSE [order EXCEPT ![k] = edited]
  BY DEF Edit
<1> HIDE DEF edited
<1>3. Sound(r1) /\ Sound(r2)
  BY <1>1, CurrentSound, LockSound
<1>4. /\ Spent(edited) = Spent(o)
      /\ IsCountedInAvailableFunds(edited) = IsCountedInAvailableFunds(o)
      /\ Received(edited) = Received(o)
  BY <1>1 DEF Spent, Received, IsCountedInAvailableFunds
<1>5. /\ Spent(o) \in Assets /\ LockedAmount(o) \in Nat /\ LockedAmount(edited) \in Nat
      /\ Assets = {Spent(o), Received(o)} /\ Received(o) # Spent(o)
      /\ LockOf(o, Received(o)) = 0 /\ LockOf(edited, Received(o)) = 0
      /\ LockOf(o, Spent(o)) = IF IsCountedInAvailableFunds(o) THEN LockedAmount(o) ELSE 0
      /\ LockOf(edited, Spent(o))
           = IF IsCountedInAvailableFunds(o) THEN LockedAmount(edited) ELSE 0
  BY <1>1, <1>4, SpentReceived, LockedAmountType, OpenLock
<1>6. /\ portfolio \in [Assets -> SpotAsset] /\ listed \in SUBSET Assets
      /\ portfolio[Spent(o)].available \in Int /\ portfolio[Spent(o)].total \in Int
      /\ slippage' = slippage
  BY <1>5, AmountsTyped DEF Inv, TypeOK, Edit
<1>7. /\ released \in [Assets -> SpotAsset]
      /\ released[Spent(o)].available = portfolio[Spent(o)].available + LockedAmount(o)
      /\ released[Spent(o)].total = portfolio[Spent(o)].total
      /\ released[Received(o)] = portfolio[Received(o)]
  <2>1. LockedAmount(o) \in Int /\ Spent(o) \in Assets /\ Received(o) \in Assets \ {Spent(o)}
    BY <1>5
  <2>2. /\ released \in [Assets -> SpotAsset]
        /\ released[Spent(o)].available = portfolio[Spent(o)].available + LockedAmount(o)
        /\ released[Spent(o)].total = portfolio[Spent(o)].total
        /\ \A b \in Assets \ {Spent(o)} : released[b] = portfolio[b]
    BY <2>1, <1>6, MovedAvailable
  <2>3. QED BY <2>1, <2>2
<1> HIDE DEF released
<1>8. /\ relocked \in [Assets -> SpotAsset]
      /\ relocked[Spent(o)].available
           = portfolio[Spent(o)].available + LockedAmount(o) - LockedAmount(edited)
      /\ relocked[Spent(o)].total = portfolio[Spent(o)].total
      /\ relocked[Received(o)] = portfolio[Received(o)]
  <2>1. /\ -LockedAmount(edited) \in Int /\ Spent(o) \in Assets
        /\ Received(o) \in Assets \ {Spent(o)}
    BY <1>5
  <2>2. /\ relocked \in [Assets -> SpotAsset]
        /\ relocked[Spent(o)].available = released[Spent(o)].available + (-LockedAmount(edited))
        /\ relocked[Spent(o)].total = released[Spent(o)].total
        /\ \A b \in Assets \ {Spent(o)} : relocked[b] = released[b]
    BY <2>1, <1>7, MovedAvailable
  <2> HIDE DEF relocked
  <2>3. QED BY <2>1, <2>2, <1>5, <1>6, <1>7
<1> HIDE DEF relocked
<1>9. /\ order' = [order EXCEPT ![k] = edited]
      /\ portfolio' = IF IsCountedInAvailableFunds(o) THEN relocked ELSE portfolio
  <2>1. CASE ~ IsCountedInAvailableFunds(o)
    <3>1. r1 = Start(portfolio, listed) /\ r2 = Start(portfolio, listed)
      BY <2>1, <1>4 DEF ReleaseIfCounted, LockIfCounted, Current
    <3> HIDE DEF r1, r2
    <3>2. QED BY <3>1, <2>1, <1>2 DEF Start, Apply
  <2>2. CASE IsCountedInAvailableFunds(o)
    <3> DEFINE keys == listed \cup {Spent(o)}
    <3>1. r1 = Update(Start(portfolio, listed), Spent(o), LockedAmount(o), 0)
      BY <2>2 DEF ReleaseIfCounted, Release, Current
    <3>2. r2 = Update(r1, Spent(o), -LockedAmount(edited), 0)
      BY <2>2, <1>4 DEF LockIfCounted, Lock
    <3> HIDE DEF r1, r2, o
    <3>3. r1 = Start(released, keys) \/ r1 = Raised(portfolio, listed)
      <4>1. LockedAmount(o) \in Int
        BY <1>5
      <4>2. QED BY <4>1, <3>1, <1>5, <1>6, AvailableOutcome DEF released
    <3>4. r1 # Raised(portfolio, listed)
      <4>1. SUFFICES ASSUME r1 = Raised(portfolio, listed) PROVE FALSE
        OBVIOUS
      <4>2. r2 = Raised(portfolio, listed)
        BY <4>1, <3>2, UpdateAfterError
      <4>3. QED BY <4>2, <1>2 DEF Raised
    <3>5. r1 = Start(released, keys)
      BY <3>3, <3>4
    <3>6. \/ r2 = Start(relocked, keys \cup {Spent(o)})
          \/ r2 = Raised(released, keys)
      <4>1. -LockedAmount(edited) \in Int /\ keys \in SUBSET Assets
        BY <1>5, <1>6
      <4> HIDE DEF keys
      <4>2. QED BY <4>1, <3>2, <3>5, <1>5, <1>7, AvailableOutcome DEF relocked
    <3> HIDE DEF keys
    <3>7. r2 = Start(relocked, keys \cup {Spent(o)})
      BY <3>6, <1>2 DEF Raised
    <3>8. QED BY <3>5, <3>7, <2>2, <1>2 DEF Start, Apply
  <2>3. QED BY <2>1, <2>2
<1> HIDE DEF r1, r2
<1>10. /\ portfolio' \in [Assets -> SpotAsset] /\ listed' \in SUBSET Assets
       /\ overdrawn' \in SUBSET Assets /\ overdrawn \subseteq overdrawn'
       /\ NonNegative' /\ Unlisted'
  BY <1>2, <1>3, ApplySound
<1>11. TypeOK'
  BY <1>1, <1>6, <1>9, <1>10 DEF Inv, TypeOK
<1>12. Reconciled'
  <2>1. order'[k] = edited /\ \A i \in (1 .. N) \ {k} : order'[i] = order[i]
    BY <1>9 DEF Inv, TypeOK
  <2>2. \A a \in Assets : /\ portfolio[a].available \in Int /\ portfolio[a].total \in Int
                          /\ slippage[a] \in Int
    BY AmountsTyped
  <2>3. \A a \in Assets :
          LET before == portfolio[a].available + LockOf(order[k], a) + slippage[a]
                          - portfolio[a].total
              after == portfolio'[a].available + LockOf(order'[k], a) + slippage'[a]
                         - portfolio'[a].total
          IN  after <= before /\ (overdrawn' = {} => after = before)
    BY <2>1, <2>2, <1>5, <1>6, <1>8, <1>9
  <2>4. QED BY <2>1, <2>3, <1>10, <1>11, ReconciledStep DEF Inv
<1>13. EditedPrices'
  BY <1>1, <1>9 DEF Inv, EditedPrices, TypeOK
<1>14. QED BY <1>10, <1>11, <1>12, <1>13 DEF Inv

\* What Next lets a fill choose is what FillArithmetic and FillOutcome ask for.
LEMMA FillChoices ==
  ASSUME Inv, NEW k \in 1 .. N, order[k].status = "open",
         NEW rate \in {MakerRate, TakerRate}, NEW p \in Prices,
         p \in PossibleFilledPrices(order[k])
  PROVE  /\ rate \in 0 .. TakerRate
         /\ order[k].side = "buy" => p <= order[k].price
<1>1. rate \in 0 .. TakerRate
  BY RatesAssumption
<1>2. order[k].filledPrice \in {0, order[k].price}
  BY DEF Inv, EditedPrices
<1>3. p \in Nat /\ order[k].price \in Nat
  BY OpenOrder, SizesAssumption DEF Order
<1>4. order[k].side = "buy" => p <= order[k].price
  BY <1>2, <1>3 DEF PossibleFilledPrices
<1>5. QED BY <1>1, <1>4

\* Two updates of different assets: both are applied, and certainly so when no amount gets
\* negative, or the first one only, or none.
LEMMA TwoUpdates ==
  ASSUME NEW p \in [Assets -> SpotAsset], NEW keys \in SUBSET Assets,
         NEW a \in Assets, NEW b \in Assets, a # b,
         NEW da \in Int, NEW dt \in Int, NEW db \in Int, NEW et \in Int
  PROVE  LET first == Moved(p, a, da, dt)
             u == Update(Update(Start(p, keys), a, da, dt), b, db, et)
         IN  /\ keys \subseteq u.listed
             /\ \/ ~ u.raised /\ u.amounts = Moved(first, b, db, et)
                \/ /\ u.raised /\ u.amounts \in {p, first}
                   /\ ~ (/\ p[a].available + da >= 0 /\ p[a].total + dt >= 0
                         /\ p[b].available + db >= 0 /\ p[b].total + et >= 0)
<1> DEFINE first == Moved(p, a, da, dt)
           u1 == Update(Start(p, keys), a, da, dt)
           u == Update(u1, b, db, et)
<1>1. first \in [Assets -> SpotAsset] /\ first[b] = p[b] /\ keys \cup {a} \in SUBSET Assets
  BY MovedType
<1>2. \/ u1 = Start(first, keys \cup {a})
      \/ /\ u1 = Raised(p, keys)
         /\ ~ (p[a].available + da >= 0 /\ p[a].total + dt >= 0)
  BY UpdateOutcome
<1> HIDE DEF first, u1
<1>3. CASE u1 = Start(first, keys \cup {a})
  <2>1. \/ u = Start(Moved(first, b, db, et), keys \cup {a} \cup {b})
        \/ /\ u = Raised(first, keys \cup {a})
           /\ ~ (first[b].available + db >= 0 /\ first[b].total + et >= 0)
    BY <1>1, <1>3, UpdateOutcome
  <2> HIDE DEF u
  <2>2. QED BY <2>1, <1>1 DEF Start, Raised, first, u, u1
<1>4. CASE /\ u1 = Raised(p, keys)
           /\ ~ (p[a].available + da >= 0 /\ p[a].total + dt >= 0)
  <2>1. u = Raised(p, keys)
    BY <1>4, UpdateAfterError
  <2> HIDE DEF u
  <2>2. QED BY <2>1, <1>4 DEF Raised, first, u, u1
<1>5. QED BY <1>2, <1>3, <1>4

LEMMA MovedBoth ==
  ASSUME NEW p \in [Assets -> SpotAsset], NEW a \in Assets, NEW b \in Assets, a # b,
         NEW da \in Int, NEW dt \in Int, NEW db \in Int, NEW et \in Int
  PROVE  Moved(Moved(p, a, da, dt), b, db, et) = Moved(Moved(p, b, db, et), a, da, dt)
BY DEF Moved

Fees(o, rate, p) == FeeIn(o, Spent(o), rate, p)
Gain(o, rate, p) == Proceeds(o, p) - FeeIn(o, Received(o), rate, p)

\* The steps of a fill: the lock of a stop, then the two assets.
LockedBy(o) ==
  IF IsCountedInAvailableFunds(o) THEN portfolio
  ELSE Moved(portfolio, Spent(o), -LockedAmount(o), 0)
Debited(p, o, rate, price) ==
  Moved(p, Spent(o), ForecastFeeIn(o, Spent(o)) - Fees(o, rate, price),
        -Cost(o, price) - Fees(o, rate, price))
Credited(p, o, rate, price) ==
  Moved(p, Received(o), Gain(o, rate, price), Gain(o, rate, price))

LEMMA FillTypes ==
  ASSUME NEW o \in Order, NEW rate \in 0 .. TakerRate, NEW p \in Prices,
         o.side = "buy" => p <= o.price
  PROVE  /\ Cost(o, p) \in Nat \ {0} /\ Fees(o, rate, p) \in Nat
         /\ ForecastFeeIn(o, Spent(o)) \in Nat
         /\ Fees(o, rate, p) <= ForecastFeeIn(o, Spent(o))
         /\ Gain(o, rate, p) \in Nat \ {0}
         /\ Slipped(o, p) \in Nat /\ LockedAmount(o) \in Nat
         /\ LockedAmount(o) = Cost(o, p) + Slipped(o, p) + ForecastFeeIn(o, Spent(o))
         /\ Spent(o) \in Assets /\ Received(o) \in Assets /\ Spent(o) # Received(o)
         /\ Assets = {Spent(o), Received(o)}
<1>1. /\ Spent(o) \in Assets /\ Received(o) \in Assets /\ Spent(o) # Received(o)
      /\ Assets = {Spent(o), Received(o)}
  BY SpentReceived
<1>2. /\ Cost(o, p) \in Nat \ {0} /\ Proceeds(o, p) \in Nat \ {0}
      /\ \A a \in Assets : ForecastFeeIn(o, a) \in Nat /\ FeeIn(o, a, rate, p) \in Nat
      /\ Fees(o, rate, p) <= ForecastFeeIn(o, Spent(o))
      /\ FeeIn(o, Received(o), rate, p) < Proceeds(o, p)
      /\ LockedAmount(o) \in Nat /\ Slipped(o, p) \in Nat
      /\ LockedAmount(o) = Cost(o, p) + Slipped(o, p) + ForecastFeeIn(o, Spent(o))
  BY FillArithmetic DEF Fees
<1>3. Gain(o, rate, p) \in Nat \ {0} /\ Fees(o, rate, p) \in Nat
  BY <1>1, <1>2 DEF Gain, Fees
<1>4. QED BY <1>1, <1>2, <1>3

\* The amounts after each of the steps of a fill.
LEMMA FillMoves ==
  ASSUME NEW q \in [Assets -> SpotAsset], NEW o \in Order, NEW rate \in 0 .. TakerRate,
         NEW p \in Prices, o.side = "buy" => p <= o.price
  PROVE  /\ Debited(q, o, rate, p) \in [Assets -> SpotAsset]
         /\ Debited(q, o, rate, p)[Spent(o)].available
              = q[Spent(o)].available + (ForecastFeeIn(o, Spent(o)) - Fees(o, rate, p))
         /\ Debited(q, o, rate, p)[Spent(o)].total
              = q[Spent(o)].total + (-Cost(o, p) - Fees(o, rate, p))
         /\ Debited(q, o, rate, p)[Received(o)] = q[Received(o)]
         /\ Credited(q, o, rate, p) \in [Assets -> SpotAsset]
         /\ Credited(q, o, rate, p)[Received(o)].available
              = q[Received(o)].available + Gain(o, rate, p)
         /\ Credited(q, o, rate, p)[Received(o)].total
              = q[Received(o)].total + Gain(o, rate, p)
         /\ Credited(q, o, rate, p)[Spent(o)] = q[Spent(o)]
<1>1. /\ ForecastFeeIn(o, Spent(o)) - Fees(o, rate, p) \in Int
      /\ -Cost(o, p) - Fees(o, rate, p) \in Int
      /\ Gain(o, rate, p) \in Int
      /\ Spent(o) \in Assets \ {Received(o)} /\ Received(o) \in Assets \ {Spent(o)}
  BY FillTypes
<1>2. QED BY <1>1, MovedType DEF Debited, Credited

\* The outcome of a fill.  It is settled in both assets; or, for a stop that finds nothing
\* left to lock in a listed currency, not applied at all; or it raises half way, and an
\* entry was or is created by a debit.
LEMMA FillShape ==
  ASSUME Inv, NEW k \in 1 .. N, order[k].status = "open",
         NEW rate \in 0 .. TakerRate, NEW p \in Prices,
         order[k].side = "buy" => p <= order[k].price
  PROVE  LET o == order[k]
             r == FillUpdate(o, rate, p)
             locked == LockedBy(o)
         IN  /\ Sound(r)
             /\ \/ ~ r.raised /\ r.amounts = Credited(Debited(locked, o, rate, p), o, rate, p)
                \/ r.raised /\ ~ IsCountedInAvailableFunds(o) /\ r.amounts = portfolio
                \/ /\ r.raised
                   /\ r.amounts \in {locked, Debited(locked, o, rate, p),
                                     Credited(locked, o, rate, p)}
                   /\ overdrawn = {} => \E a \in r.listed \ listed : Negative(r.amounts[a])
<1> DEFINE o == order[k]
           locked == LockedBy(o)
           debited == Debited(locked, o, rate, p)
           credited == Credited(locked, o, rate, p)
           da == ForecastFeeIn(o, Spent(o)) - Fees(o, rate, p)
           dt == -Cost(o, p) - Fees(o, rate, p)
           gain == Gain(o, rate, p)
           funded == IF IsCountedInAvailableFunds(o) THEN Current ELSE Lock(Current, o)
           r == FillUpdate(o, rate, p)
<1>1. o \in Order /\ portfolio \in [Assets -> SpotAsset] /\ listed \in SUBSET Assets
  BY OpenOrder DEF Inv, TypeOK
<1>2. /\ Cost(o, p) \in Nat \ {0} /\ Fees(o, rate, p) \in Nat
      /\ ForecastFeeIn(o, Spent(o)) \in Nat
      /\ Fees(o, rate, p) <= ForecastFeeIn(o, Spent(o))
      /\ gain \in Nat \ {0}
      /\ Slipped(o, p) \in Nat /\ LockedAmount(o) \in Nat
      /\ LockedAmount(o) = Cost(o, p) + Slipped(o, p) + ForecastFeeIn(o, Spent(o))
      /\ Spent(o) \in Assets /\ Received(o) \in Assets /\ Spent(o) # Received(o)
  BY <1>1, FillTypes
<1>3. da \in Int /\ dt \in Int /\ gain \in Int /\ -LockedAmount(o) \in Int /\ 0 \in Int
  BY <1>2
<1>4. ASSUME NEW s
      PROVE  UpdateFromFill(s, o, rate, p)
               = IF o.side = "buy"
                 THEN Update(Update(s, Received(o), gain, gain), Spent(o), da, dt)
                 ELSE Update(Update(s, Spent(o), da, dt), Received(o), gain, gain)
  BY DEF UpdateFromFill, Spent, Received, Cost, Proceeds, Gain, Fees
<1>5. r = UpdateFromFill(funded, o, rate, p)
  BY DEF FillUpdate
<1>6. Sound(r)
  <2>1. Sound(funded)
    BY <1>1, CurrentSound, LockSound
  <2> HIDE DEF funded, da, dt, gain, o, r
  <2>2. CASE o.side = "buy"
    <3>1. Sound(Update(funded, Received(o), gain, gain))
      BY <2>1, <1>2, <1>3, UpdateSound
    <3>2. Sound(Update(Update(funded, Received(o), gain, gain), Spent(o), da, dt))
      BY <3>1, <1>2, <1>3, UpdateSound
    <3>3. QED BY <3>2, <2>2, <1>4, <1>5
  <2>3. CASE o.side # "buy"
    <3>1. Sound(Update(funded, Spent(o), da, dt))
      BY <2>1, <1>2, <1>3, UpdateSound
    <3>2. Sound(Update(Update(funded, Spent(o), da, dt), Received(o), gain, gain))
      BY <3>1, <1>2, <1>3, UpdateSound
    <3>3. QED BY <3>2, <2>3, <1>4, <1>5
  <2>4. QED BY <2>2, <2>3
<1> HIDE DEF o
<1>7. /\ portfolio[Spent(o)].available \in Int /\ portfolio[Spent(o)].total \in Int
      /\ portfolio[Received(o)].available \in Int /\ portfolio[Received(o)].total \in Int
      /\ portfolio[Spent(o)].available + LockOf(o, Spent(o)) <= portfolio[Spent(o)].total
      /\ LockOf(o, Spent(o)) = IF IsCountedInAvailableFunds(o) THEN LockedAmount(o) ELSE 0
      /\ overdrawn = {} => /\ portfolio[Spent(o)].available >= 0
                           /\ portfolio[Received(o)].available >= 0
                           /\ portfolio[Received(o)].total >= 0
  <2>1. /\ portfolio[Spent(o)].available + LockOf(o, Spent(o)) <= portfolio[Spent(o)].total
        /\ LockOf(o, Spent(o)) = IF IsCountedInAvailableFunds(o) THEN LockedAmount(o) ELSE 0
    BY <1>1, <1>2, TotalCoversLock, OpenLock DEF o
  <2>2. QED BY <2>1, <1>2, AmountsTyped
<1>8. /\ locked \in [Assets -> SpotAsset]
      /\ locked[Spent(o)].available
           = portfolio[Spent(o)].available
               + (IF IsCountedInAvailableFunds(o) THEN 0 ELSE -LockedAmount(o))
      /\ locked[Spent(o)].total = portfolio[Spent(o)].total
      /\ locked[Received(o)] = portfolio[Received(o)]
  <2>1. CASE IsCountedInAvailableFunds(o)
    BY <2>1, <1>1, <1>7 DEF LockedBy
  <2>2. CASE ~ IsCountedInAvailableFunds(o)
    <3>1. Received(o) \in Assets \ {Spent(o)}
      BY <1>2
    <3>2. QED BY <2>2, <3>1, <1>1, <1>2, <1>3, MovedAvailable DEF LockedBy
  <2>3. QED BY <2>1, <2>2
<1>9. \/ /\ \E keys \in SUBSET Assets :
              /\ funded = Start(locked, keys) /\ listed \subseteq keys
              /\ ~ IsCountedInAvailableFunds(o) => Spent(o) \in keys
         /\ overdrawn = {} =>
              \/ locked[Spent(o)].available >= 0
              \/ ~ IsCountedInAvailableFunds(o) /\ Spent(o) \notin listed
      \/ ~ IsCountedInAvailableFunds(o) /\ funded = Raised(portfolio, listed)
  <2>1. CASE IsCountedInAvailableFunds(o)
    <3>1. funded = Start(locked, listed)
      BY <2>1 DEF Current, LockedBy
    <3>2. QED BY <3>1, <2>1, <1>1, <1>7, <1>8
  <2>2. CASE ~ IsCountedInAvailableFunds(o)
    <3>1. \/ /\ funded = Start(locked, listed \cup {Spent(o)})
             /\ Spent(o) \in listed /\ -LockedAmount(o) # 0
                  => portfolio[Spent(o)].available + (-LockedAmount(o)) >= 0
          \/ funded = Raised(portfolio, listed)
      BY <2>2, <1>1, <1>2, <1>3, UpdateOutcome DEF Lock, Current, LockedBy
    <3>2. -LockedAmount(o) # 0
      BY <1>2
    <3>3. listed \cup {Spent(o)} \in SUBSET Assets
      BY <1>1, <1>2
    <3> HIDE DEF funded, locked
    <3>4. QED BY <3>1, <3>2, <3>3, <2>2, <1>8
  <2>3. QED BY <2>1, <2>2
<1> HIDE DEF funded, r
<1>10. CASE ~ IsCountedInAvailableFunds(o) /\ funded = Raised(portfolio, listed)
  <2>1. r = Raised(portfolio, listed)
    BY <1>4, <1>5, <1>10, UpdateAfterError
  <2>2. QED BY <2>1, <1>6, <1>10 DEF Raised, r, o
<1>11. CASE /\ \E keys \in SUBSET Assets :
                 /\ funded = Start(locked, keys) /\ listed \subseteq keys
                 /\ ~ IsCountedInAvailableFunds(o) => Spent(o) \in keys
            /\ overdrawn = {} =>
                 \/ locked[Spent(o)].available >= 0
                 \/ ~ IsCountedInAvailableFunds(o) /\ Spent(o) \notin listed
  <2>1. PICK keys \in SUBSET Assets :
          /\ funded = Start(locked, keys) /\ listed \subseteq keys
          /\ ~ IsCountedInAvailableFunds(o) => Spent(o) \in keys
    BY <1>11
  <2> DEFINE fits == /\ locked[Spent(o)].available + da >= 0
                     /\ locked[Spent(o)].total + dt >= 0
                     /\ locked[Received(o)].available + gain >= 0
                     /\ locked[Received(o)].total + gain >= 0
  <2>2. /\ keys \subseteq r.listed
        /\ \/ ~ r.raised /\ r.amounts = Credited(debited, o, rate, p)
           \/ r.raised /\ r.amounts \in {locked, debited, credited} /\ ~ fits
    <3>1. debited = Moved(locked, Spent(o), da, dt) /\ credited = Moved(locked, Received(o), gain, gain)
      BY DEF Debited, Credited
    <3>2. Credited(debited, o, rate, p) = Moved(debited, Received(o), gain, gain)
      BY DEF Credited
    <3> HIDE DEF locked, debited, credited, da, dt, gain
    <3>3. CASE o.side = "buy"
      <4>1. r = Update(Update(Start(locked, keys), Received(o), gain, gain), Spent(o), da, dt)
        BY <3>3, <2>1, <1>4, <1>5
      <4>2. Moved(credited, Spent(o), da, dt) = Moved(debited, Received(o), gain, gain)
        BY <3>1, <1>2, <1>3, <1>8, MovedBoth
      <4>3. /\ keys \subseteq r.listed
            /\ \/ ~ r.raised /\ r.amounts = Moved(Moved(locked, Received(o), gain, gain), Spent(o), da, dt)
               \/ /\ r.raised /\ r.amounts \in {locked, Moved(locked, Received(o), gain, gain)}
                  /\ ~ fits
        BY <4>1, <1>2, <1>3, <1>8, TwoUpdates
      <4>4. QED BY <4>2, <4>3, <3>1, <3>2
    <3>4. CASE o.side # "buy"
      <4>1. r = Update(Update(Start(locked, keys), Spent(o), da, dt), Received(o), gain, gain)
        BY <3>4, <2>1, <1>4, <1>5
      <4>2. /\ keys \subseteq r.listed
            /\ \/ ~ r.raised /\ r.amounts = Moved(Moved(locked, Spent(o), da, dt), Received(o), gain, gain)
               \/ /\ r.raised /\ r.amounts \in {locked, Moved(locked, Spent(o), da, dt)}
                  /\ ~ fits
        BY <4>1, <1>2, <1>3, <1>8, TwoUpdates
      <4>3. QED BY <4>2, <3>1, <3>2
    <3>5. QED BY <3>3, <3>4
  <2>3. ASSUME overdrawn = {}, ~ fits, r.amounts \in {locked, debited, credited}
        PROVE  \E a \in r.listed \ listed : Negative(r.amounts[a])
    <3>1. locked[Spent(o)].available < 0
      <4>1. SUFFICES ASSUME locked[Spent(o)].available >= 0 PROVE fits
        BY <2>3, <1>2, <1>7, <1>8
      <4>2. Cost(o, p) + Fees(o, rate, p) <= portfolio[Spent(o)].total
        BY <4>1, <1>2, <1>7, <1>8
      <4>3. locked[Received(o)].available >= 0 /\ locked[Received(o)].total >= 0
        BY <2>3, <1>7, <1>8
      <4>4. locked[Spent(o)].total = portfolio[Spent(o)].total /\ locked[Spent(o)].available \in Int
        BY <1>2, <1>7, <1>8
      <4> HIDE DEF locked
      <4>5. QED BY <4>1, <4>2, <4>3, <4>4, <1>2, <1>7, <1>8
    <3>2. ~ IsCountedInAvailableFunds(o) /\ Spent(o) \notin listed
      BY <3>1, <2>3, <1>2, <1>7, <1>8, <1>11
    <3>3. Spent(o) \in r.listed \ listed
      BY <3>2, <2>1, <2>2
    <3>4. portfolio[Spent(o)].total = 0
      BY <3>2, <1>2 DEF Inv, Unlisted, Nothing
    <3>5. /\ debited[Spent(o)].total = locked[Spent(o)].total + dt
          /\ credited[Spent(o)] = locked[Spent(o)]
      BY <1>1, <1>8, FillMoves DEF o
    <3>6. debited[Spent(o)].total < 0
      BY <3>4, <3>5, <1>2, <1>8
    <3> HIDE DEF locked, debited, credited
    <3>7. Negative(r.amounts[Spent(o)])
      BY <3>1, <3>5, <3>6, <2>3 DEF Negative
    <3>8. QED BY <3>3, <3>7
  <2> HIDE DEF fits, debited, credited, locked
  <2>4. QED BY <2>2, <2>3, <1>6 DEF r, o, locked, debited, credited
<1>12. QED BY <1>9, <1>10, <1>11

\* What a fill does to the amounts: both assets are settled, or a stop finds nothing left
\* to lock, or an entry created by a debit is involved and never less stays locked than
\* the order had locked.
LEMMA FillChange ==
  ASSUME Inv, NEW k \in 1 .. N, order[k].status = "open",
         NEW rate \in 0 .. TakerRate, NEW p \in Prices,
         order[k].side = "buy" => p <= order[k].price,
         Fill(k, rate, p)
  PROVE  LET o == order[k]
             lock == IF IsCountedInAvailableFunds(o) THEN 0 ELSE LockedAmount(o)
         IN  \/ /\ portfolio'[Spent(o)].available = portfolio[Spent(o)].available - lock
                     + (ForecastFeeIn(o, Spent(o)) - Fees(o, rate, p))
                /\ portfolio'[Spent(o)].total
                     = portfolio[Spent(o)].total - Cost(o, p) - Fees(o, rate, p)
                /\ portfolio'[Received(o)].available
                     = portfolio[Received(o)].available + Gain(o, rate, p)
                /\ portfolio'[Received(o)].total
                     = portfolio[Received(o)].total + Gain(o, rate, p)
                /\ slippage' = [slippage EXCEPT !["quote"] = @ + Slipped(o, p)]
             \/ /\ ~ IsCountedInAvailableFunds(o)
                /\ portfolio' = portfolio /\ slippage' = slippage
             \/ /\ overdrawn' # {} /\ slippage' = slippage
                /\ portfolio'[Spent(o)].available - portfolio'[Spent(o)].total
                     <= portfolio[Spent(o)].available - portfolio[Spent(o)].total
                          + LockOf(o, Spent(o))
                /\ portfolio'[Received(o)].available - portfolio'[Received(o)].total
                     = portfolio[Received(o)].available - portfolio[Received(o)].total
<1> DEFINE o == order[k]
           lock == IF IsCountedInAvailableFunds(o) THEN 0 ELSE LockedAmount(o)
           locked == LockedBy(o)
           debited == Debited(locked, o, rate, p)
           credited == Credited(locked, o, rate, p)
           settled == Credited(debited, o, rate, p)
           r == FillUpdate(o, rate, p)
<1>1. o \in Order /\ o.status = "open" /\ portfolio \in [Assets -> SpotAsset]
  BY OpenOrder DEF Inv, TypeOK
<1>2. /\ Cost(o, p) \in Nat \ {0} /\ Fees(o, rate, p) \in Nat
      /\ ForecastFeeIn(o, Spent(o)) \in Nat
      /\ Fees(o, rate, p) <= ForecastFeeIn(o, Spent(o))
      /\ Gain(o, rate, p) \in Nat \ {0}
      /\ Slipped(o, p) \in Nat /\ LockedAmount(o) \in Nat
      /\ LockedAmount(o) = Cost(o, p) + Slipped(o, p) + ForecastFeeIn(o, Spent(o))
      /\ Spent(o) \in Assets /\ Received(o) \in Assets /\ Spent(o) # Received(o)
  BY <1>1, FillTypes
<1>3. /\ portfolio[Spent(o)].available \in Int /\ portfolio[Spent(o)].total \in Int
      /\ portfolio[Received(o)].available \in Int /\ portfolio[Received(o)].total \in Int
      /\ LockOf(o, Spent(o)) = IF IsCountedInAvailableFunds(o) THEN LockedAmount(o) ELSE 0
  BY <1>1, <1>2, AmountsTyped, OpenLock
<1>4. /\ locked \in [Assets -> SpotAsset]
      /\ locked[Spent(o)].available = portfolio[Spent(o)].available - lock
      /\ locked[Spent(o)].total = portfolio[Spent(o)].total
      /\ locked[Received(o)] = portfolio[Received(o)]
  <2>1. CASE IsCountedInAvailableFunds(o)
    BY <2>1, <1>1, <1>3 DEF LockedBy
  <2>2. CASE ~ IsCountedInAvailableFunds(o)
    <3> DEFINE moved == Moved(portfolio, Spent(o), -LockedAmount(o), 0)
    <3>1. -LockedAmount(o) \in Int
      BY <1>2
    <3>2. /\ moved \in [Assets -> SpotAsset]
          /\ moved[Spent(o)].available = portfolio[Spent(o)].available + (-LockedAmount(o))
          /\ moved[Spent(o)].total = portfolio[Spent(o)].total
          /\ \A b \in Assets \ {Spent(o)} : moved[b] = portfolio[b]
      BY <3>1, <1>1, <1>2, MovedAvailable
    <3>3. locked = moved
      BY <2>2 DEF LockedBy
    <3> HIDE DEF moved, locked
    <3>4. QED BY <3>2, <3>3, <2>2, <1>2, <1>3
  <2>3. QED BY <2>1, <2>2
<1>5. /\ debited \in [Assets -> SpotAsset]
      /\ debited[Spent(o)].available
           = locked[Spent(o)].available + (ForecastFeeIn(o, Spent(o)) - Fees(o, rate, p))
      /\ debited[Spent(o)].total = locked[Spent(o)].total + (-Cost(o, p) - Fees(o, rate, p))
      /\ debited[Received(o)] = locked[Received(o)]
      /\ credited[Received(o)].available = locked[Received(o)].available + Gain(o, rate, p)
      /\ credited[Received(o)].total = locked[Received(o)].total + Gain(o, rate, p)
      /\ credited[Spent(o)] = locked[Spent(o)]
  BY <1>1, <1>4, FillMoves
<1>6. /\ settled[Received(o)].available = debited[Received(o)].available + Gain(o, rate, p)
      /\ settled[Received(o)].total = debited[Received(o)].total + Gain(o, rate, p)
      /\ settled[Spent(o)] = debited[Spent(o)]
  BY <1>1, <1>5, FillMoves
<1>7. /\ portfolio' = r.amounts
      /\ overdrawn' = overdrawn \cup {a \in r.listed \ listed : Negative(r.amounts[a])}
      /\ slippage' = IF r.raised THEN slippage
                     ELSE [slippage EXCEPT !["quote"] = @ + Slipped(o, p)]
  BY DEF Fill, Apply
<1>8. \/ ~ r.raised /\ r.amounts = settled
      \/ r.raised /\ ~ IsCountedInAvailableFunds(o) /\ r.amounts = portfolio
      \/ /\ r.raised /\ r.amounts \in {locked, debited, credited}
         /\ overdrawn = {} => \E a \in r.listed \ listed : Negative(r.amounts[a])
  BY FillShape
<1> HIDE DEF r, locked, debited, credited, settled
<1>9. CASE ~ r.raised /\ r.amounts = settled
  BY <1>2, <1>3, <1>4, <1>5, <1>6, <1>7, <1>9
<1>10. CASE r.raised /\ ~ IsCountedInAvailableFunds(o) /\ r.amounts = portfolio
  BY <1>7, <1>10
<1>11. CASE /\ r.raised /\ r.amounts \in {locked, debited, credited}
            /\ overdrawn = {} => \E a \in r.listed \ listed : Negative(r.amounts[a])
  <2>1. overdrawn' # {} /\ slippage' = slippage
    BY <1>7, <1>11
  <2>2. portfolio' \in {locked, debited, credited}
    BY <1>7, <1>11
  <2>3. /\ portfolio'[Spent(o)].available - portfolio'[Spent(o)].total
             <= portfolio[Spent(o)].available - portfolio[Spent(o)].total + LockOf(o, Spent(o))
        /\ portfolio'[Received(o)].available - portfolio'[Received(o)].total
             = portfolio[Received(o)].available - portfolio[Received(o)].total
    BY <2>2, <1>2, <1>3, <1>4, <1>5
  <2>4. QED BY <2>1, <2>3
<1>12. QED BY <1>8, <1>9, <1>10, <1>11

LEMMA FillStep ==
  ASSUME Inv, NEW k \in 1 .. N, order[k].status = "open",
         NEW rate \in 0 .. TakerRate, NEW p \in Prices,
         order[k].side = "buy" => p <= order[k].price,
         Fill(k, rate, p)
  PROVE  Inv'
<1> DEFINE o == order[k]
           filled == [order[k] EXCEPT !.status = "filled", !.filledPrice = p]
           lock == IF IsCountedInAvailableFunds(o) THEN 0 ELSE LockedAmount(o)
           forecast == ForecastFeeIn(o, Spent(o))
           fees == Fees(o, rate, p)
           gain == Gain(o, rate, p)
           slipped == Slipped(o, p)
<1>1. /\ o \in Order /\ o.status = "open" /\ filled \in Order /\ filled.status = "filled"
      /\ order' = [order EXCEPT ![k] = filled]
  BY OpenOrder DEF Fill, Order, Statuses
<1>2. /\ Cost(o, p) \in Nat \ {0} /\ fees \in Nat /\ forecast \in Nat /\ fees <= forecast
      /\ gain \in Nat \ {0} /\ LockedAmount(o) \in Nat /\ slipped \in Nat
      /\ LockedAmount(o) = Cost(o, p) + slipped + forecast
      /\ Spent(o) \in Assets /\ Received(o) \in Assets /\ Spent(o) # Received(o)
      /\ Assets = {Spent(o), Received(o)}
  BY <1>1, FillTypes
<1>3. /\ LockOf(o, Received(o)) = 0
      /\ LockOf(o, Spent(o)) = IF IsCountedInAvailableFunds(o) THEN LockedAmount(o) ELSE 0
  BY <1>1, OpenLock
<1>4. \A a \in Assets : LockOf(filled, a) = 0
  BY <1>1 DEF LockOf
<1>5. \A a \in Assets : /\ portfolio[a].available \in Int /\ portfolio[a].total \in Int
                        /\ slippage[a] \in Nat
  BY AmountsTyped
<1>6. \/ /\ portfolio'[Spent(o)].available = portfolio[Spent(o)].available - lock
                                                + (forecast - fees)
         /\ portfolio'[Spent(o)].total = portfolio[Spent(o)].total - Cost(o, p) - fees
         /\ portfolio'[Received(o)].available = portfolio[Received(o)].available + gain
         /\ portfolio'[Received(o)].total = portfolio[Received(o)].total + gain
         /\ slippage' = [slippage EXCEPT !["quote"] = @ + slipped]
      \/ /\ ~ IsCountedInAvailableFunds(o)
         /\ portfolio' = portfolio /\ slippage' = slippage
      \/ /\ overdrawn' # {} /\ slippage' = slippage
         /\ portfolio'[Spent(o)].available - portfolio'[Spent(o)].total
              <= portfolio[Spent(o)].available - portfolio[Spent(o)].total + LockOf(o, Spent(o))
         /\ portfolio'[Received(o)].available - portfolio'[Received(o)].total
              = portfolio[Received(o)].available - portfolio[Received(o)].total
  BY FillChange
<1>7. /\ Spent(o) # "quote" => slipped = 0
      /\ slippage \in [Assets -> Nat]
      /\ "quote" \in Assets
  BY DEF Spent, Slipped, Inv, TypeOK, Assets
<1>8. /\ portfolio' \in [Assets -> SpotAsset] /\ listed' \in SUBSET Assets
      /\ overdrawn' \in SUBSET Assets /\ overdrawn \subseteq overdrawn'
      /\ NonNegative' /\ Unlisted'
  <2>1. Sound(FillUpdate(o, rate, p))
    BY FillShape
  <2>2. QED BY <2>1, ApplySound DEF Fill
<1> HIDE DEF o, filled, fees, gain, lock, forecast, slipped
<1>9. TypeOK'
  <2>1. slippage' \in [Assets -> Nat]
    BY <1>2, <1>5, <1>6, <1>7
  <2>2. QED BY <2>1, <1>1, <1>8 DEF Inv, TypeOK
<1>10. \A a \in Assets : portfolio'[a].available \in Int /\ portfolio'[a].total \in Int
  BY <1>8 DEF SpotAsset
<1>11. Reconciled'
  <2> DEFINE Before(a) == portfolio[a].available + LockOf(o, a) + slippage[a]
                            - portfolio[a].total
             After(a) == portfolio'[a].available + LockOf(filled, a) + slippage'[a]
                           - portfolio'[a].total
  <2>1. order'[k] = filled /\ order[k] = o /\ \A i \in (1 .. N) \ {k} : order'[i] = order[i]
    BY <1>1 DEF Inv, TypeOK, o
  <2>2. SUFFICES \A a \in Assets : After(a) <= Before(a) /\ (overdrawn' = {} => After(a) = Before(a))
    BY <2>1, <1>8, <1>9, ReconciledStep DEF Inv
  <2>3. CASE /\ ~ IsCountedInAvailableFunds(o)
             /\ portfolio' = portfolio /\ slippage' = slippage
    BY <2>3, <1>2, <1>3, <1>4, <1>5
  <2>4. CASE /\ overdrawn' # {} /\ slippage' = slippage
             /\ portfolio'[Spent(o)].available - portfolio'[Spent(o)].total
                  <= portfolio[Spent(o)].available - portfolio[Spent(o)].total
                       + LockOf(o, Spent(o))
             /\ portfolio'[Received(o)].available - portfolio'[Received(o)].total
                  = portfolio[Received(o)].available - portfolio[Received(o)].total
    <3>1. LockOf(o, Spent(o)) \in Nat
      BY <1>2, <1>3
    <3>2. After(Spent(o)) <= Before(Spent(o))
      BY <2>4, <3>1, <1>2, <1>4, <1>5, <1>10
    <3>3. After(Received(o)) <= Before(Received(o))
      BY <2>4, <1>2, <1>3, <1>4, <1>5, <1>10
    <3>4. QED BY <3>2, <3>3, <2>4, <1>2
  <2>5. CASE /\ portfolio'[Spent(o)].available = portfolio[Spent(o)].available - lock
                                                   + (forecast - fees)
             /\ portfolio'[Spent(o)].total = portfolio[Spent(o)].total - Cost(o, p) - fees
             /\ portfolio'[Received(o)].available = portfolio[Received(o)].available + gain
             /\ portfolio'[Received(o)].total = portfolio[Received(o)].total + gain
             /\ slippage' = [slippage EXCEPT !["quote"] = @ + slipped]
    <3>1. slippage'[Spent(o)] = slippage[Spent(o)] + slipped
          /\ slippage'[Received(o)] = slippage[Received(o)]
      <4>1. CASE Spent(o) = "quote"
        BY <4>1, <2>5, <1>2, <1>7
      <4>2. CASE Spent(o) # "quote"
        <5>1. slipped = 0 /\ slippage' = slippage
          BY <4>2, <2>5, <1>5, <1>7
        <5>2. QED BY <5>1, <1>2, <1>5
      <4>3. QED BY <4>1, <4>2
    <3>2. After(Spent(o)) = Before(Spent(o)) /\ After(Spent(o)) \in Int
      <4>1. LockOf(filled, Spent(o)) = 0 /\ LockOf(o, Spent(o)) + lock = LockedAmount(o)
            /\ LockOf(o, Spent(o)) \in Nat /\ lock \in Nat
        BY <1>2, <1>3, <1>4 DEF lock
      <4>2. /\ portfolio[Spent(o)].available \in Int /\ portfolio[Spent(o)].total \in Int
            /\ slippage[Spent(o)] \in Int /\ Cost(o, p) \in Int /\ fees \in Int
            /\ forecast \in Int /\ slipped \in Int
            /\ LockedAmount(o) = Cost(o, p) + slipped + forecast
        BY <1>2, <1>5
      <4>3. /\ portfolio'[Spent(o)].available
                 = portfolio[Spent(o)].available - lock + (forecast - fees)
            /\ portfolio'[Spent(o)].total = portfolio[Spent(o)].total - Cost(o, p) - fees
        BY <2>5
      <4>4. QED BY <4>1, <4>2, <4>3, <3>1
    <3>3. After(Received(o)) = Before(Received(o)) /\ After(Received(o)) \in Int
      BY <3>1, <2>5, <1>2, <1>3, <1>4, <1>5
    <3>4. QED BY <3>2, <3>3, <1>2
  <2>6. QED BY <2>3, <2>4, <2>5, <1>6
<1>12. EditedPrices'
  BY <1>1 DEF Inv, EditedPrices, TypeOK, o
<1>13. QED BY <1>8, <1>9, <1>11, <1>12 DEF Inv
-----------------------------------------------------------------------------
\* What leaves the orders alone and moves both amounts of an asset together keeps the
\* portfolio reconciled.
LEMMA ReconciledWithoutOrders ==
  ASSUME Inv, TypeOK', UNCHANGED <<order, slippage>>, overdrawn \subseteq overdrawn',
         \A a \in Assets : portfolio'[a].available - portfolio'[a].total
                            = portfolio[a].available - portfolio[a].total
  PROVE  Reconciled'
<1>1. SUFFICES ASSUME NEW a \in Assets
               PROVE  /\ portfolio'[a].available + SumTo(Locks(a)', N) + slippage'[a]
                           <= portfolio'[a].total
                      /\ overdrawn' = {} =>
                           portfolio'[a].available + SumTo(Locks(a)', N) + slippage'[a]
                             = portfolio'[a].total
  BY DEF Reconciled, Accounted
<1>2. Locks(a)' = Locks(a)
  BY DEF Locks
<1> DEFINE available == portfolio[a].available
           available2 == portfolio'[a].available
           total == portfolio[a].total
           total2 == portfolio'[a].total
           locks == SumTo(Locks(a), N)
           slipped == slippage[a]
<1>3. locks \in Int
  BY LocksType, SumToNat, SizesAssumption DEF Inv
<1>4. /\ available \in Int /\ available2 \in Int /\ total \in Int /\ total2 \in Int
      /\ slipped \in Int
  BY DEF Inv, TypeOK, SpotAsset
<1>5. /\ available + locks + slipped <= total
      /\ overdrawn = {} => available + locks + slipped = total
  BY DEF Inv, Reconciled, Accounted
<1>6. available2 - total2 = available - total
  OBVIOUS
<1>7. SumTo(Locks(a)', N) = locks /\ slippage'[a] = slipped
  BY <1>2
<1> HIDE DEF available, available2, total, total2, locks, slipped
<1>8. /\ available2 + locks + slipped <= total2
      /\ overdrawn' = {} => available2 + locks + slipped = total2
  BY <1>3, <1>4, <1>5, <1>6
<1>9. QED BY <1>7, <1>8 DEF available2, total2

\* Both amounts of an asset moved by the same, or nothing at all.
LEMMA TransferStep ==
  ASSUME Inv, NEW a \in Assets, NEW d \in Int, UNCHANGED <<order, slippage>>,
         Apply(Update(Current, a, d, d))
  PROVE  Inv'
<1> DEFINE moved == Moved(portfolio, a, d, d)
           r == Update(Current, a, d, d)
<1>1. portfolio \in [Assets -> SpotAsset] /\ listed \in SUBSET Assets
  BY DEF Inv, TypeOK
<1>2. /\ moved \in [Assets -> SpotAsset]
      /\ moved[a].available = portfolio[a].available + d
      /\ moved[a].total = portfolio[a].total + d
      /\ \A b \in Assets \ {a} : moved[b] = portfolio[b]
  BY <1>1, MovedType
<1>3. Sound(r)
  BY CurrentSound, UpdateSound
<1>4. r = Start(moved, listed \cup {a}) \/ r = Raised(portfolio, listed)
  BY <1>1, UpdateOutcome DEF Current
<1> HIDE DEF r, moved
<1>5. /\ portfolio' \in [Assets -> SpotAsset] /\ listed' \in SUBSET Assets
      /\ overdrawn' \in SUBSET Assets /\ overdrawn \subseteq overdrawn'
      /\ NonNegative' /\ Unlisted'
  BY <1>3, ApplySound DEF r
<1>6. portfolio' \in {moved, portfolio}
  BY <1>4 DEF Apply, Start, Raised, r
<1>7. \A b \in Assets : portfolio'[b].available - portfolio'[b].total
                          = portfolio[b].available - portfolio[b].total
  <2>1. \A b \in Assets : portfolio[b].available \in Int /\ portfolio[b].total \in Int
    BY AmountsTyped
  <2>2. QED BY <2>1, <1>2, <1>6
<1>8. TypeOK'
  BY <1>5 DEF Inv, TypeOK
<1>9. Reconciled'
  BY <1>5, <1>7, <1>8, ReconciledWithoutOrders
<1>10. EditedPrices'
  BY DEF Inv, EditedPrices
<1>11. QED BY <1>5, <1>8, <1>9, <1>10 DEF Inv

\* What is unavailable covers the locks of the open orders and what fills left behind.
LEMMA UnavailableCovers ==
  ASSUME Inv, NEW a \in Assets
  PROVE  /\ Unavailable(a) \in Int
         /\ SumTo(Locks(a), N) \in Nat /\ slippage[a] \in Nat
         /\ SumTo(Locks(a), N) + slippage[a] <= Unavailable(a)
         /\ overdrawn = {} => SumTo(Locks(a), N) + slippage[a] = Unavailable(a)
<1>1. SumTo(Locks(a), N) \in Nat
  BY LocksType, SumToNat, SizesAssumption DEF Inv
<1>2. /\ portfolio[a].available \in Int /\ portfolio[a].total \in Int /\ slippage[a] \in Nat
  BY AmountsTyped
<1>3. /\ portfolio[a].available + SumTo(Locks(a), N) + slippage[a] <= portfolio[a].total
      /\ overdrawn = {} =>
           portfolio[a].available + SumTo(Locks(a), N) + slippage[a] = portfolio[a].total
  BY DEF Inv, Reconciled, Accounted
<1>4. QED BY <1>1, <1>2, <1>3 DEF Unavailable

LEMMA ResetStep ==
  ASSUME Funded, Inv, ResetHistory
  PROVE  Inv'
<1> DEFINE kept == DOMAIN StartingPortfolio
<1>1. /\ kept \in SUBSET Assets /\ listed' = kept
      /\ \A a \in Assets : AmountIn(StartingPortfolio, a) \in Nat
      /\ \A a \in Assets \ kept : AmountIn(StartingPortfolio, a) = 0
  BY PortfolioAssumption DEF ResetHistory, AmountIn
<1>2. \A a \in Assets : Unavailable(a) <= AmountIn(StartingPortfolio, a)
  BY DEF Funded, ResetHistory
<1>3. \A a \in Assets :
        /\ a \in kept =>
             /\ portfolio'[a].available = AmountIn(StartingPortfolio, a) - Unavailable(a)
             /\ portfolio'[a].total = AmountIn(StartingPortfolio, a)
             /\ portfolio'[a] \in SpotAsset
             /\ slippage'[a] = slippage[a]
        /\ a \notin kept => portfolio'[a] = Nothing /\ slippage'[a] = 0
  <2>1. SUFFICES ASSUME NEW a \in Assets
                 PROVE  /\ a \in kept =>
                             /\ portfolio'[a].available
                                  = AmountIn(StartingPortfolio, a) - Unavailable(a)
                             /\ portfolio'[a].total = AmountIn(StartingPortfolio, a)
                             /\ portfolio'[a] \in SpotAsset
                             /\ slippage'[a] = slippage[a]
                        /\ a \notin kept => portfolio'[a] = Nothing /\ slippage'[a] = 0
    OBVIOUS
  <2>2. Unavailable(a) \in Nat
    BY UnavailableCovers
  <2>3. portfolio'[a] = (IF a \in kept THEN Restored(a) ELSE Nothing)
    BY <1>1 DEF ResetHistory, Nothing
  <2>4. Restored(a) = [available |-> AmountIn(StartingPortfolio, a) - Unavailable(a),
                       total |-> AmountIn(StartingPortfolio, a)]
    <3>1. (IF Unavailable(a) > 0 THEN Unavailable(a) ELSE 0) = Unavailable(a)
      BY <2>2
    <3>2. QED BY <3>1 DEF Restored
  <2>5. AmountIn(StartingPortfolio, a) \in Nat
    BY <1>1
  <2>6. Restored(a) \in SpotAsset
    BY <2>2, <2>4, <2>5 DEF SpotAsset
  <2>7. slippage'[a] = IF a \in kept THEN slippage[a] ELSE 0
    BY <1>1 DEF ResetHistory
  <2>8. QED BY <2>3, <2>4, <2>6, <2>7
<1>4. /\ order' = order /\ overdrawn' = overdrawn
      /\ portfolio' = [a \in Assets |-> portfolio'[a]]
      /\ slippage' = [a \in Assets |-> slippage'[a]]
  BY DEF ResetHistory
<1>5. TypeOK'
  <2>1. \A a \in Assets : portfolio'[a] \in SpotAsset /\ slippage'[a] \in Nat
    BY <1>3, AmountsTyped DEF Nothing, SpotAsset
  <2>2. portfolio' \in [Assets -> SpotAsset] /\ slippage' \in [Assets -> Nat]
    BY <2>1, <1>4
  <2>3. QED BY <2>2, <1>1, <1>4 DEF Inv, TypeOK
<1>6. NonNegative'
  <2>1. SUFFICES ASSUME NEW a \in Assets
                 PROVE portfolio'[a].available >= 0 /\ portfolio'[a].total >= 0
    BY DEF NonNegative
  <2>2. Unavailable(a) \in Int
    BY UnavailableCovers
  <2>3. QED BY <2>2, <1>1, <1>2, <1>3 DEF Nothing
<1>7. Reconciled'
  <2>1. SUFFICES ASSUME NEW a \in Assets
                 PROVE  /\ portfolio'[a].available + SumTo(Locks(a)', N) + slippage'[a]
                             <= portfolio'[a].total
                        /\ overdrawn' = {} =>
                             portfolio'[a].available + SumTo(Locks(a)', N) + slippage'[a]
                               = portfolio'[a].total
    BY DEF Reconciled, Accounted
  <2> DEFINE locks == SumTo(Locks(a), N)
             unavailable == Unavailable(a)
             starting == AmountIn(StartingPortfolio, a)
  <2>2. SumTo(Locks(a)', N) = locks
    <3>1. Locks(a)' = Locks(a)
      BY <1>4 DEF Locks
    <3>2. QED BY <3>1
  <2>3. /\ unavailable \in Int /\ locks \in Nat /\ slippage[a] \in Nat
        /\ locks + slippage[a] <= unavailable /\ unavailable <= starting /\ starting \in Nat
        /\ overdrawn = {} => locks + slippage[a] = unavailable
    BY <1>1, <1>2, UnavailableCovers
  <2> HIDE DEF locks, unavailable, starting
  <2>4. CASE a \in kept
    <3>1. /\ portfolio'[a].available = starting - unavailable /\ portfolio'[a].total = starting
          /\ slippage'[a] = slippage[a]
      BY <2>4, <1>3 DEF starting, unavailable
    <3>2. QED BY <3>1, <2>2, <2>3, <1>4
  <2>5. CASE a \notin kept
    <3>1. starting = 0
      BY <2>5, <1>1 DEF starting
    <3>2. locks = 0
      BY <3>1, <2>3
    <3>3. portfolio'[a].available = 0 /\ portfolio'[a].total = 0 /\ slippage'[a] = 0
      BY <2>5, <1>3 DEF Nothing
    <3>4. QED BY <3>2, <3>3, <2>2
  <2>6. QED BY <2>4, <2>5
<1>8. EditedPrices' /\ Unlisted'
  BY <1>1, <1>3, <1>4 DEF Inv, EditedPrices, Unlisted
<1>9. QED BY <1>5, <1>6, <1>7, <1>8 DEF Inv

LEMMA LookStep ==
  ASSUME Inv, NEW a \in Assets, Look(a)
  PROVE  Inv'
<1>1. TypeOK' /\ NonNegative' /\ EditedPrices' /\ Unlisted'
  BY DEF Look, Inv, TypeOK, NonNegative, EditedPrices, Unlisted
<1>2. Reconciled'
  BY <1>1, ReconciledWithoutOrders DEF Look
<1>3. QED BY <1>1, <1>2 DEF Inv
-----------------------------------------------------------------------------
LEMMA NextStep ==
  ASSUME Funded, Inv, [Next]_vars
  PROVE  Inv'
<1>1. CASE \E i \in 1 .. N : \E o \in NewOrders : Open(i, o)
  BY <1>1, OpenStep
<1>2. CASE \E i \in 1 .. N, q \in Quantities \cup {0}, p \in Prices \cup {0} : Edit(i, q, p)
  BY <1>2, EditStep DEF Funded
<1>3. CASE \E i \in 1 .. N : Cancel(i)
  BY <1>3, CancelStep
<1>4. CASE \E i \in 1 .. N : \E rate \in {MakerRate, TakerRate}, p \in Prices :
             /\ order[i].status = "open"
             /\ rate \in PossibleRates(order[i])
             /\ p \in PossibleFilledPrices(order[i])
             /\ Fill(i, rate, p)
  <2>1. PICK i \in 1 .. N, rate \in {MakerRate, TakerRate}, p \in Prices :
          /\ order[i].status = "open"
          /\ p \in PossibleFilledPrices(order[i])
          /\ Fill(i, rate, p)
    BY <1>4
  <2>2. /\ rate \in 0 .. TakerRate
        /\ order[i].side = "buy" => p <= order[i].price
    BY <2>1, FillChoices
  <2>3. QED BY <2>1, <2>2, FillStep
<1>5. CASE \E a \in Assets, amount \in Amounts : Deposit(a, amount)
  <2>1. PICK a \in Assets, amount \in Amounts : Deposit(a, amount)
    BY <1>5
  <2>2. amount \in Int
    BY SizesAssumption
  <2>3. QED BY <2>1, <2>2, TransferStep DEF Deposit
<1>6. CASE \E a \in Assets, amount \in Amounts : Withdraw(a, amount)
  <2>1. PICK a \in Assets, amount \in Amounts : Withdraw(a, amount)
    BY <1>6
  <2>2. -amount \in Int
    BY SizesAssumption
  <2>3. QED BY <2>1, <2>2, TransferStep DEF Withdraw
<1>7. CASE \E a \in Assets : Look(a)
  BY <1>7, LookStep
<1>8. CASE ResetHistory
  BY <1>8, ResetStep
<1>9. CASE UNCHANGED vars
  BY <1>9 DEF vars, Inv, TypeOK, NonNegative, Reconciled, Accounted, Locks, EditedPrices, Unlisted
<1>10. QED BY <1>1, <1>2, <1>3, <1>4, <1>5, <1>6, <1>7, <1>8, <1>9 DEF Next

\* The invariant holds in every state, whatever the orders and their prices.
THEOREM Invariance == Funded => (Spec => []Inv)
<1>1. SUFFICES ASSUME Funded PROVE Spec => []Inv
  OBVIOUS
<1>2. Init => Inv
  BY InitInv
<1>3. Inv /\ [Next]_vars => Inv'
  BY <1>1, NextStep
<1>4. QED BY <1>2, <1>3, PTL DEF Spec

\* Every amount, order and slippage keeps its type.
THEOREM TypeCorrect == Funded => (Spec => []TypeOK)
<1>1. Inv => TypeOK
  BY DEF Inv
<1>2. QED BY <1>1, Invariance, PTL

\* Neither the available nor the total amount of an asset is ever negative, unless the
\* first update of its entry was a debit, which _update_portfolio_data does not check.
THEOREM NeverNegative == Funded => (Spec => []NonNegative)
<1>1. Inv => NonNegative
  BY DEF Inv
<1>2. QED BY <1>1, Invariance, PTL

\* What is not available is at least what open orders lock and what fills left behind, and
\* exactly that as long as no entry was created by a debit.
THEOREM AlwaysReconciled == Funded => (Spec => []Reconciled)
<1>1. Inv => Reconciled
  BY DEF Inv
<1>2. QED BY <1>1, Invariance, PTL
-----------------------------------------------------------------------------
\* Only the fill of an order takes it from open to filled.
LEMMA OnlyFillFills ==
  ASSUME Inv, Next, NEW k \in 1 .. N, order[k].status = "open", order'[k].status = "filled"
  PROVE  \E rate \in {MakerRate, TakerRate}, p \in Prices :
           p \in PossibleFilledPrices(order[k]) /\ Fill(k, rate, p)
<1>1. order[k] \in Order /\ order \in [1 .. N -> Order \cup {NoOrder}]
  BY OpenOrder DEF Inv, TypeOK
<1>2. ASSUME NEW i \in 1 .. N, NEW o \in NewOrders, Open(i, o) PROVE FALSE
  <2>1. i # k
    BY <1>1, <1>2 DEF Open, NoOrder
  <2>2. order'[k] = order[k]
    BY <1>1, <1>2, <2>1 DEF Open
  <2>3. QED BY <2>2
<1>3. ASSUME NEW i \in 1 .. N, NEW q \in Quantities \cup {0}, NEW p \in Prices \cup {0},
             Edit(i, q, p)
      PROVE  FALSE
  <2>1. order[i] \in Order
    BY <1>3, OpenOrder DEF Edit
  <2>2. Edited(order[i], q, p).status = order[i].status
    BY <2>1 DEF Edited, Order
  <2>3. order' = order \/ order' = [order EXCEPT ![i] = Edited(order[i], q, p)]
    BY <1>3 DEF Edit
  <2>4. QED BY <1>1, <2>2, <2>3
<1>4. ASSUME NEW i \in 1 .. N, Cancel(i) PROVE FALSE
  <2>1. order' = [order EXCEPT ![i] = [order[i] EXCEPT !.status = "canceled"]]
    BY <1>4 DEF Cancel
  <2>2. CASE i = k
    <3>1. order'[k] = [order[k] EXCEPT !.status = "canceled"]
      BY <1>1, <2>1, <2>2
    <3>2. order'[k].status = "canceled"
      BY <1>1, <3>1 DEF Order
    <3>3. QED BY <3>2
  <2>3. CASE i # k
    BY <1>1, <2>1, <2>3
  <2>4. QED BY <2>2, <2>3
<1>5. ASSUME NEW i \in 1 .. N, NEW rate \in {MakerRate, TakerRate}, NEW p \in Prices,
             p \in PossibleFilledPrices(order[i]), Fill(i, rate, p)
      PROVE  i = k
  BY <1>1, <1>5 DEF Fill
<1>6. ASSUME UNCHANGED order PROVE FALSE
  BY <1>6
<1>7. QED
  BY <1>2, <1>3, <1>4, <1>5, <1>6 DEF Next, Deposit, Withdraw, Look, ResetHistory

\* A fill moves both assets, or neither for a stop that finds nothing left to lock.
LEMMA SettlementStep ==
  ASSUME Inv, Next, NEW k \in 1 .. N, order[k].status = "open", order'[k].status = "filled",
         overdrawn' = {}
  PROVE  LET o == order[k]
         IN  \/ /\ portfolio'[Spent(o)].total < portfolio[Spent(o)].total
                /\ portfolio'[Received(o)].total > portfolio[Received(o)].total
             \/ o.kind = "stop" /\ portfolio' = portfolio
<1> DEFINE o == order[k]
<1>1. PICK rate \in {MakerRate, TakerRate}, p \in Prices :
        p \in PossibleFilledPrices(o) /\ Fill(k, rate, p)
  BY OnlyFillFills
<1>2. rate \in 0 .. TakerRate /\ (o.side = "buy" => p <= o.price)
  BY <1>1, FillChoices
<1>3. \/ /\ portfolio'[Spent(o)].total
              = portfolio[Spent(o)].total - Cost(o, p) - Fees(o, rate, p)
         /\ portfolio'[Received(o)].total = portfolio[Received(o)].total + Gain(o, rate, p)
      \/ ~ IsCountedInAvailableFunds(o) /\ portfolio' = portfolio
  BY <1>1, <1>2, FillChange
<1>4. o \in Order
  BY OpenOrder
<1>5. /\ Cost(o, p) \in Nat \ {0} /\ Fees(o, rate, p) \in Nat /\ Gain(o, rate, p) \in Nat \ {0}
      /\ Spent(o) \in Assets /\ Received(o) \in Assets
  BY <1>2, <1>4, FillTypes
<1>6. portfolio[Spent(o)].total \in Int /\ portfolio[Received(o)].total \in Int
  BY <1>5, AmountsTyped
<1>7. ~ IsCountedInAvailableFunds(o) => o.kind = "stop"
  BY <1>4 DEF IsCountedInAvailableFunds, Order, Kinds
<1> HIDE DEF o
<1>8. \/ /\ portfolio'[Spent(o)].total < portfolio[Spent(o)].total
         /\ portfolio'[Received(o)].total > portfolio[Received(o)].total
      \/ o.kind = "stop" /\ portfolio' = portfolio
  BY <1>3, <1>5, <1>6, <1>7
<1>9. QED BY <1>8 DEF o

\* As long as no entry was created by a debit, no fill is applied to one of its two assets
\* only.
THEOREM FillsSettle == Funded => (Spec => SettlesBothAssets)
<1>1. SUFFICES ASSUME Funded PROVE Spec => SettlesBothAssets
  OBVIOUS
<1> DEFINE Settles ==
      \A i \in 1 .. N :
        order[i].status = "open" /\ order'[i].status = "filled" /\ overdrawn' = {} =>
          LET o == order[i]
          IN  \/ /\ portfolio'[Spent(o)].total < portfolio[Spent(o)].total
                 /\ portfolio'[Received(o)].total > portfolio[Received(o)].total
              \/ o.kind = "stop" /\ portfolio' = portfolio
<1>2. Inv /\ [Next]_vars => [Settles]_vars
  BY SettlementStep
<1>3. Spec => []Inv
  BY <1>1, Invariance
<1>4. QED BY <1>2, <1>3, PTL DEF Spec, SettlesBothAssets
=============================================================================
