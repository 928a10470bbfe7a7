------------------------------- MODULE MCChain -------------------------------
(* A finite instance of Chain for TLC: a payment whose total is of high value *)
(* although its amount is not, and one that is of high value already.         *)
EXTENDS Chain, TLC

FixtureRequired == (Settle :> {"amount", "currency"})
SettleRoutes == << [key |-> "POST /settle", action |-> Settle,
                    type |-> Name("acct", "wallet"), props |-> {"amount", "currency"}] >>

W(aal, amount, total) == [aal |-> aal, amount |-> amount, total |-> total]
Users == { W("AAL2", "low", "high"), W("AAL2", "high", "high") }

\* The instance is one the theorems about the chain speak of.
ASSUME InstanceAssumption == Deployed
=============================================================================
