------------------------------- MODULE MacroModel -------------------------------
(***************************************************************************)
(* contracts/macroModel: the simulation of the LUSD market that the fees   *)
(* were designed with.  A period runs through the functions of the script  *)
(* in turn; every random shock, and with it the LUSD price and what        *)
(* depends on it alone (how many troves open and close, the demand for     *)
(* LUSD), is a choice.  Ratios and rates are percentages, amounts whole    *)
(* numbers; ether is rounded up, because a float does not round to zero.   *)
(*                                                                         *)
(* The price of LUSD falls as more is offered: it is above the ceiling     *)
(* while less than atCeiling is in the liquidity pool and below the floor  *)
(* while there is more than atFloor.                                       *)
(***************************************************************************)
EXTENDS Integers, FiniteSets, Sequences, SequencesExt

CONSTANTS
    EtherPrices, EtherQuantities, CollateralRatios, Inattentions,   \* draws
    OpenCounts, CloseCounts,      \* troves that open and close in a period
    StabilityGrowths,             \* of the stability pool, in percent
    AtCeiling, AtFloor,           \* demand for LUSD at the two prices
    RedemptionRatios,             \* of the liquidity pool, in percent
    initial_open, MaxPeriods, MaxSimulated   \* bounds: periods and troves

VARIABLES
    policy,          \* whether the rates are the base rate
    simulated,       \* the troves: [quantity, initial, supply, inattention, current]
    phase,           \* the function that is next, or how the script ended
    index_,          \* the period
    price_ether,     \* price_ether_current
    stability_pool,  \* of this period, once it is updated
    row,             \* the last row of data
    base_rate        \* base_rate_current

macroVars == <<policy, simulated, phase, index_, price_ether, stability_pool, row, base_rate>>

divUp(x, y) == (x + y - 1) \div y

totalSupply(list) == FoldLeft(LAMBDA sum, t : sum + t.supply, 0, list)
ratioOf(t, at) == (at * t.quantity * 100) \div t.supply

newTrove(at, quantity, ratio, inattention) ==
    [quantity |-> quantity, initial |-> ratio, supply |-> (at * quantity * 100) \div ratio,
     inattention |-> inattention, current |-> ratio]
drawnTroves(at) ==
    {newTrove(at, q, r, i) : q \in EtherQuantities, r \in CollateralRatios, i \in Inattentions}

\* The first row: half of the supply is in the stability pool.
MacroInit ==
    /\ policy \in BOOLEAN /\ phase = "liquidate" /\ index_ = 1 /\ base_rate = 0
    /\ price_ether \in EtherPrices /\ stability_pool = 0
    /\ \E first \in drawnTroves(price_ether) :
          simulated = [i \in 1..initial_open |-> first]
    /\ row = [supply |-> totalSupply(simulated), stability |-> totalSupply(simulated) \div 2,
              liquidity |-> totalSupply(simulated) \div 2, redemption |-> 0]

\* The return of the stability pool is one of the shocks; what is liquidated is
\* not taken out of the pool.
liquidate_troves ==
    /\ phase = "liquidate" /\ phase' = "close"
    /\ simulated' = SelectSeq([i \in DOMAIN simulated |->
                                 [simulated[i] EXCEPT !.current = ratioOf(simulated[i], price_ether)]],
                              LAMBDA t : t.current >= 110)
    /\ UNCHANGED <<policy, index_, price_ether, stability_pool, row, base_rate>>

\* random.sample raises a ValueError when there are too few.
close_troves(number_closetroves) ==
    /\ phase = "close"
    /\ IF number_closetroves > Len(simulated)
       THEN phase' = "ValueError" /\ UNCHANGED simulated
       ELSE /\ phase' = "adjust"
            /\ \E drops \in SUBSET DOMAIN simulated :
                  /\ Cardinality(drops) = number_closetroves
                  /\ simulated' = [i \in 1..Len(simulated) - number_closetroves |->
                        simulated[CHOOSE j \in DOMAIN simulated \ drops :
                                     Cardinality({k \in DOMAIN simulated \ drops : k <= j}) = i]]
    /\ UNCHANGED <<policy, index_, price_ether, stability_pool, row, base_rate>>

\* The ratio fell by more than the inattention, or rose by twice that.
noticed(t) ==
    \/ 100 * (t.current - t.initial) < -(t.initial * t.inattention)
    \/ 100 * (t.current - t.initial) > 2 * t.initial * t.inattention

\* The debt or the collateral is set for the initial ratio; CR_current is not.
adjusted(t, byDebt) ==
    IF ~noticed(t) THEN t
    ELSE IF byDebt THEN [t EXCEPT !.supply = (price_ether * t.quantity * 100) \div t.initial]
    ELSE [t EXCEPT !.quantity = divUp(t.initial * t.supply, 100 * price_ether)]

adjust_troves ==
    /\ phase = "adjust" /\ phase' = "open"
    /\ \E byDebt \in SUBSET DOMAIN simulated :
          simulated' = [i \in DOMAIN simulated |-> adjusted(simulated[i], i \in byDebt)]
    /\ UNCHANGED <<policy, index_, price_ether, stability_pool, row, base_rate>>

open_troves(number_opentroves) ==
    /\ phase = "open" /\ phase' = "stability"
    /\ Len(simulated) + number_opentroves <= MaxSimulated
    /\ \E new \in drawnTroves(price_ether) : simulated' = simulated \o [i \in 1..number_opentroves |-> new]
    /\ UNCHANGED <<policy, index_, price_ether, stability_pool, row, base_rate>>

stability_update(growth) ==
    /\ phase = "stability" /\ phase' = "price"
    /\ stability_pool' = (row.stability * growth) \div 100
    /\ UNCHANGED <<policy, simulated, index_, price_ether, row, base_rate>>

--------------------------------------------------------------------------------
(***************************************************************************)
(* price_stabilizer.                                                       *)
(***************************************************************************)
supply == totalSupply(simulated)
liquidity_pool == supply - stability_pool

\* A row of data, and the next period: its ether price and, with the policy
\* function, its base rate.
recordPeriod(liquidity, redemption_pool) ==
    /\ row' = [supply |-> totalSupply(simulated'), stability |-> stability_pool, liquidity |-> liquidity,
               redemption |-> redemption_pool]
    /\ index_' = index_ + 1
    /\ phase' = IF index_ < MaxPeriods THEN "liquidate" ELSE "done"
    /\ price_ether' \in EtherPrices
    /\ base_rate' = IF policy THEN (98 * base_rate) \div 100 + (50 * redemption_pool) \div totalSupply(simulated')
                    ELSE base_rate
    /\ UNCHANGED <<policy, stability_pool>>

\* Nothing is recorded when the stability pool is larger than the supply.
simulationBreaks ==
    /\ phase = "price" /\ liquidity_pool < 0
    /\ phase' = "broken"
    /\ UNCHANGED <<policy, simulated, index_, price_ether, stability_pool, row, base_rate>>

priceWithinBounds(atCeiling, atFloor) ==
    /\ phase = "price" /\ liquidity_pool >= atCeiling /\ liquidity_pool <= atFloor
    /\ UNCHANGED simulated
    /\ recordPeriod(liquidity_pool, 0)

\* An arbitrageur opens a trove with the lowest ratio for what is missing.
ceilingArbitrageurs(atCeiling) ==
    /\ phase = "price" /\ liquidity_pool >= 0 /\ liquidity_pool < atCeiling
    /\ Len(simulated) < MaxSimulated
    /\ LET supply_trove == atCeiling - liquidity_pool
       IN  simulated' = Append(simulated,
                          [quantity |-> divUp(supply_trove * 110, 100 * price_ether), initial |-> 110,
                           supply |-> supply_trove, inattention |-> 10, current |-> 110])
    /\ recordPeriod(atCeiling, 0)

\* Mutated form: a trove of just the amount left to redeem is kept, empty.
fullyRedeemed_Kept(list, redemption_pool) ==
    CHOOSE k \in 0..Len(list) :
       /\ totalSupply(SubSeq(list, 1, k)) < redemption_pool \/ k = 0
       /\ k = Len(list) \/ totalSupply(SubSeq(list, 1, k + 1)) >= redemption_pool
\* How many troves the loop shuts down: as long as the first ones do not exceed
\* the pool.
fullyRedeemed(list, redemption_pool) ==
    CHOOSE k \in 0..Len(list) :
       /\ totalSupply(SubSeq(list, 1, k)) <= redemption_pool
       /\ k = Len(list) \/ totalSupply(SubSeq(list, 1, k + 1)) > redemption_pool

\* The residual is taken from the next one.
afterRedemption(list, redemption_pool) ==
    LET k == fullyRedeemed(list, redemption_pool)
        residual == redemption_pool - totalSupply(SubSeq(list, 1, k))
        t == list[k + 1]
        left == [t EXCEPT !.supply = @ - residual, !.quantity = @ - residual \div price_ether]
    IN  <<[left EXCEPT !.current = IF left.supply = 0 THEN 0 ELSE ratioOf(left, price_ether)]>>
        \o SubSeq(list, k + 2, Len(list))

\* Riskiest first, as of the last computation of CR_current.  The liquidity pool
\* is recorded as it was before.  The loop raises an IndexError when no trove is
\* left, and a base rate of one stops redemptions.
floorArbitrageurs(atFloor, ratio) ==
    /\ phase = "price" /\ liquidity_pool > atFloor /\ base_rate < 100
    /\ LET supply_diff == liquidity_pool - atFloor
           most == (ratio * liquidity_pool) \div 100
           redemption_pool == IF supply_diff < most THEN supply_diff ELSE most
           sorted == SortSeq(simulated, LAMBDA t, u : t.current < u.current)
       IN  IF fullyRedeemed(sorted, redemption_pool) = Len(sorted)
           THEN /\ phase' = "IndexError"
                /\ UNCHANGED <<policy, simulated, index_, price_ether, stability_pool, row, base_rate>>
           ELSE /\ simulated' = afterRedemption(sorted, redemption_pool)
                /\ recordPeriod(liquidity_pool, redemption_pool)

\* With such a base rate the price is left where it is.
floorNotDefended(atFloor) ==
    /\ phase = "price" /\ liquidity_pool > atFloor /\ base_rate >= 100
    /\ UNCHANGED simulated
    /\ recordPeriod(liquidity_pool, 0)

period ==
    \/ liquidate_troves \/ adjust_troves \/ simulationBreaks
    \/ \E n \in CloseCounts : close_troves(n)
    \/ \E n \in OpenCounts : open_troves(n)
    \/ \E growth \in StabilityGrowths : stability_update(growth)
    \/ \E c \in AtCeiling : ceilingArbitrageurs(c)
    \/ \E c \in AtCeiling, f \in AtFloor : c <= f /\ priceWithinBounds(c, f)
    \/ \E f \in AtFloor :
          floorNotDefended(f) \/ \E ratio \in RedemptionRatios : floorArbitrageurs(f, ratio)

\* The two simulations: with a fixed base rate, and with the policy function.
simulationProcess == ~policy /\ period
simulationWithPolicy == policy /\ period

MacroNext == simulationProcess \/ simulationWithPolicy

--------------------------------------------------------------------------------
\* The books of the simulation: a redemption never runs out of troves, whatever
\* liquidations and closures have left, and leaves none without debt, by which
\* the next period would divide.  What is recorded of a period adds up: the
\* supply is that of the troves, and it is the two pools less what was redeemed
\* (the liquidity pool is recorded as it was before the redemption).
SimulationBalances ==
    /\ phase # "IndexError"
    /\ \A i \in DOMAIN simulated : simulated[i].supply > 0 /\ simulated[i].quantity > 0
    /\ phase \in {"liquidate", "done"} =>
          /\ row.supply = totalSupply(simulated) /\ row.supply > 0
          /\ row.supply - row.stability - row.liquidity + row.redemption \in 0..1
================================================================================
