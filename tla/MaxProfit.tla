------------------------------ MODULE MaxProfit ------------------------------
(***************************************************************************)
(* cjunk/practice/financialAnalysis.cc: Solution::maxProfit, the best gain *)
(* of one purchase and one later sale, in a single pass over the prices.   *)
(***************************************************************************)
EXTENDS Integers

CONSTANTS
  Price,       \* prices: of type int, and not negative
  IntMax,      \* the largest int
  MaxDays      \* bound: length of the vector

ASSUME PriceAssumption ==
  IntMax \in Nat /\ Price \subseteq 0 .. IntMax /\ MaxDays \in Nat

VARIABLES pc, n, prices, i, min_price, max_profit

profitVars == <<pc, n, prices, i, min_price, max_profit>>

ProfitInit ==
  /\ n \in 0 .. MaxDays /\ prices \in [0 .. n - 1 -> Price]
  /\ pc = "enter" /\ i = 0 /\ min_price = 0 /\ max_profit = 0

\* The test for no prices, and what precedes the loop.
Enter ==
  /\ pc = "enter"
  /\ \/ n = 0 /\ pc' = "return" /\ UNCHANGED <<i, min_price>>
     \/ n # 0 /\ pc' = "loop" /\ min_price' = prices[0] /\ i' = 1
  /\ UNCHANGED <<n, prices, max_profit>>

\* Slip: the price of the day is compared after the cheapest was updated to it.
LoopGreedy ==
  /\ pc = "loop" /\ i < n
  /\ min_price' = prices[i]
  /\ max_profit' = IF prices[i] - min_price > max_profit THEN prices[i] - min_price
                   ELSE max_profit
  /\ i' = i + 1
  /\ UNCHANGED <<pc, n, prices>>

\* One turn of the loop.
Loop ==
  /\ pc = "loop" /\ i < n
  /\ \/ /\ prices[i] < min_price
        /\ min_price' = prices[i] /\ UNCHANGED max_profit
     \/ /\ prices[i] >= min_price
        /\ max_profit' = IF prices[i] - min_price > max_profit THEN prices[i] - min_price
                         ELSE max_profit
        /\ UNCHANGED min_price
  /\ i' = i + 1
  /\ UNCHANGED <<pc, n, prices>>

Return ==
  /\ pc = "loop" /\ i >= n /\ pc' = "return"
  /\ UNCHANGED <<n, prices, i, min_price, max_profit>>

Done == pc = "return" /\ UNCHANGED profitVars

ProfitNext == Enter \/ Loop \/ Return \/ Done

ProfitSpec == ProfitInit /\ [][ProfitNext]_profitVars

-----------------------------------------------------------------------------
\* max_profit is what a purchase and a later sale among the first k prices can
\* gain at most, and gains, or 0 if none gains anything.
Best(k) ==
  /\ \A s \in 0 .. k - 1, b \in 0 .. k - 1 : b < s => prices[s] - prices[b] <= max_profit
  /\ \/ max_profit = 0
     \/ \E s \in 0 .. k - 1, b \in 0 .. k - 1 : b < s /\ max_profit = prices[s] - prices[b]

\* maxProfit returns the best gain over all pairs of days.
ReturnsBest == pc = "return" => Best(n)

\* The loop's invariant: the best gain and the cheapest price so far, both of
\* them ints, so that no subtraction overflows.
LoopInvariant ==
  /\ pc \in {"enter", "loop", "return"}
  /\ n \in Nat /\ prices \in [0 .. n - 1 -> Price]
  /\ i \in Nat /\ min_price \in 0 .. IntMax /\ max_profit \in 0 .. IntMax
  /\ pc = "enter" => max_profit = 0
  /\ pc = "loop" => /\ i \in 1 .. n /\ Best(i)
                    /\ \A k \in 0 .. i - 1 : min_price <= prices[k]
                    /\ \E k \in 0 .. i - 1 : min_price = prices[k]
  /\ pc = "return" => Best(n)
=============================================================================
