------------------------------ MODULE MCFinance ------------------------------
(* Small instances of Finance for TLC.                                       *)
EXTENDS Finance

CONSTANTS o, p, r, b1, b2, c1, c2

MCTotal == [x \in {o} |-> 2]
MCPays == [x \in {p} |-> [order |-> o, amount |-> 2]]
MCRefunded == [x \in {r} |-> 1]

Row(type, ref, amount) == [type |-> type, ref |-> ref, amount |-> amount, currency |-> "INR"]
MCEntry == <<Row("payment", p, 2), Row("cod_collection", p, 1), Row("refund", r, -1),
             Row("fee", None, 1)>>

\* The second batch repeats an entry of the first.
MCPayload == [b \in {b1, b2} |-> IF b = b1 THEN <<1, 3, 4>> ELSE <<2, 3>>]
MCCurrency == [b \in {b1, b2} |-> "INR"]
MCExpected == [t \in {"courier_charge"} |-> 1]
=============================================================================
