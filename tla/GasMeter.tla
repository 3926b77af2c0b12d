-------------------------------- MODULE GasMeter --------------------------------
(***************************************************************************)
(* core/contracts/GasMeter.ts: what was used of gas, refunds of what was not,    *)
(* the discounts of a sender with a contract, and a price that follows recent       *)
(* usage.  A transaction recorded again is in the history twice and its refund is    *)
(* replaced; recorded without one it keeps the old.  New limits do not move the       *)
(* price, only the adjustments after them do.  Prices are in hundredths, a twentieth   *)
(* of one rounded down to them.  Of the list of discounts only what is in it matters.  *)
(***************************************************************************)
EXTENDS Integers, Sequences, Maps

CONSTANTS
    Transactions,
    GasLimit,
    GasAmounts,     \* what they use
    Prices,         \* what they pay
    NewPrices,      \* what the price is set to
    Limits,         \* {<<baseGasPrice, maxGasPrice>>}
    HistoryLimit,   \* 10000 in the code
    RecentLimit,    \* 100 in the code
    ContractFunctions, \* of the ABI: [inputs, gasLimit, writes, creates]
    Discounts       \* {[condition, percentage]}

VARIABLES
    limits, gasRefundEnabled,  \* config
    gasUsageHistory,           \* <<[tx, gas, price, refunded]>>
    currentGasPrice,
    gasRefunds,                \* transaction -> amount
    gasDiscounts               \* of one sender with one contract

gasVars == <<limits, gasRefundEnabled, gasUsageHistory, currentGasPrice, gasRefunds, gasDiscounts>>

Init ==
    /\ limits \in Limits /\ gasRefundEnabled = TRUE
    /\ gasUsageHistory = <<>> /\ currentGasPrice = limits[1]
    /\ gasRefunds = Empty /\ gasDiscounts = {}

-----------------------------------------------------------------------------
\* calculateFunctionGas and estimateStorageGas: an input costs 32, a function
\* with a limit at least that, a storage write 20000 and a read 200 per input.
GasOf(f) ==
    21000 + Max({700 + 32 * f.inputs, f.gasLimit})
          + (IF f.writes THEN 20000 ELSE 200) * f.inputs + (IF f.creates THEN 32000 ELSE 0)

\* getApplicableDiscount
BestDiscount == Max({0} \cup {d.percentage : d \in gasDiscounts})

\* estimateGas, rounded at a half, and its cost at the current price.
EstimateGas(f) == (GasOf(f) * (100 - BestDiscount) + 50) \div 100
CalculateGasCost(gas, price) == gas * price

\* generateGasWarnings, of the gas before the discount.
Warnings(f) ==
    (IF GasOf(f) > 10000000 THEN {"over the transaction's maximum"} ELSE {})
    \cup (IF f.gasLimit > 0 /\ GasOf(f) > f.gasLimit THEN {"over the function's limit"} ELSE {})
    \cup (IF GasOf(f) > 1000000 THEN {"high"} ELSE {})
    \cup (IF GasOf(f) < 50000 /\ f.writes THEN {"low"} ELSE {})

-----------------------------------------------------------------------------
\* processGasRefund: half of what was not used, rounded at a half.
RefundOf(gas) == ((GasLimit - gas) * 50 + 50) \div 100

\* recordGasUsage
RecordGasUsage(tx, gas, price) ==
    LET refunded == gasRefundEnabled /\ gas < GasLimit
        history == Append(gasUsageHistory, [tx |-> tx, gas |-> gas, price |-> price, refunded |-> refunded])
    IN  /\ gasUsageHistory' = SubSeq(history, IF Len(history) > HistoryLimit THEN 2 ELSE 1, Len(history))
        /\ gasRefunds' = IF refunded THEN Put(gasRefunds, tx, RefundOf(gas)) ELSE gasRefunds
        /\ UNCHANGED <<limits, gasRefundEnabled, currentGasPrice, gasDiscounts>>

\* updateGasPrice, every 30 seconds: a step up when the recent average is a tenth
\* above the price, down when it is a tenth below.
Recent == SubSeq(gasUsageHistory, IF Len(gasUsageHistory) > RecentLimit THEN Len(gasUsageHistory) - RecentLimit + 1 ELSE 1,
                 Len(gasUsageHistory))
RecentlyPaid == Sum([i \in DOMAIN Recent |-> Recent[i].price])
Risen == 10 * RecentlyPaid > 11 * currentGasPrice * Len(Recent)
Fallen == 10 * RecentlyPaid < 9 * currentGasPrice * Len(Recent)

UpdateGasPrice ==
    /\ Recent # <<>>
    /\ currentGasPrice' = IF Risen THEN Min({(currentGasPrice * 21) \div 20, limits[2]})
                          ELSE IF Fallen THEN Max({(currentGasPrice * 19) \div 20, limits[1]})
                          ELSE currentGasPrice
    /\ UNCHANGED <<limits, gasRefundEnabled, gasUsageHistory, gasRefunds, gasDiscounts>>

\* setGasPrice, with one it does not refuse.
SetGasPrice(price) ==
    /\ limits[1] <= price /\ price <= limits[2]
    /\ currentGasPrice' = price
    /\ UNCHANGED <<limits, gasRefundEnabled, gasUsageHistory, gasRefunds, gasDiscounts>>

AddGasDiscount(discount) ==
    /\ gasDiscounts' = gasDiscounts \cup {discount}
    /\ UNCHANGED <<limits, gasRefundEnabled, gasUsageHistory, currentGasPrice, gasRefunds>>

RemoveGasDiscount(condition) ==
    /\ gasDiscounts' = {d \in gasDiscounts : d.condition # condition}
    /\ UNCHANGED <<limits, gasRefundEnabled, gasUsageHistory, currentGasPrice, gasRefunds>>

UpdateConfig(newLimits, refunds) ==
    /\ limits' = newLimits /\ gasRefundEnabled' = refunds
    /\ UNCHANGED <<gasUsageHistory, currentGasPrice, gasRefunds, gasDiscounts>>

\* The discounts go too.
ClearHistory ==
    /\ gasUsageHistory' = <<>> /\ gasRefunds' = Empty /\ gasDiscounts' = {}
    /\ UNCHANGED <<limits, gasRefundEnabled, currentGasPrice>>

Next ==
    \/ \E tx \in Transactions : \E gas \in GasAmounts : \E price \in Prices : RecordGasUsage(tx, gas, price)
    \/ UpdateGasPrice
    \/ \E price \in NewPrices : SetGasPrice(price)
    \/ \E discount \in Discounts : AddGasDiscount(discount) \/ RemoveGasDiscount(discount.condition)
    \/ \E newLimits \in Limits : \E refunds \in BOOLEAN : UpdateConfig(newLimits, refunds)
    \/ ClearHistory

Spec == Init /\ [][Next]_gasVars

-----------------------------------------------------------------------------
TypeOK ==
    /\ limits \in Limits /\ gasRefundEnabled \in BOOLEAN /\ currentGasPrice \in Nat
    /\ Len(gasUsageHistory) <= HistoryLimit
    /\ \A i \in DOMAIN gasUsageHistory :
          gasUsageHistory[i] \in [tx : Transactions, gas : GasAmounts, price : Prices, refunded : BOOLEAN]
    /\ IsMap(gasRefunds, Transactions, Nat)
    /\ gasDiscounts \subseteq Discounts

\* However the limits were changed, the price stays between the lowest and the
\* highest there ever were; no estimate costs more than the plain one or less
\* than nothing, and one of a function with a limit always warns that it is
\* exceeded, for the limit is part of the estimate.
PriceIsLimited ==
    /\ \E low \in Limits, high \in Limits : low[1] <= currentGasPrice /\ currentGasPrice <= high[2]
    /\ \A f \in ContractFunctions :
          /\ CalculateGasCost(EstimateGas(f), currentGasPrice) \in 0..CalculateGasCost(GasOf(f), currentGasPrice)
          /\ f.gasLimit > 0 => "over the function's limit" \in Warnings(f)

\* A transaction with a refunded record in the history has the refund of the last
\* such record, whatever was recorded of it later and whatever was dropped since;
\* and whatever it was recorded for, no refund is more than half its limit.
RefundIsOfLastRecord ==
    /\ \A i \in DOMAIN gasUsageHistory :
          gasUsageHistory[i].refunded
          /\ (\A j \in DOMAIN gasUsageHistory : gasUsageHistory[j].refunded /\ gasUsageHistory[j].tx = gasUsageHistory[i].tx => j <= i)
          => /\ gasUsageHistory[i].tx \in DOMAIN gasRefunds
             /\ gasRefunds[gasUsageHistory[i].tx] = RefundOf(gasUsageHistory[i].gas)
    /\ \A tx \in DOMAIN gasRefunds : 2 * gasRefunds[tx] <= GasLimit
=============================================================================
