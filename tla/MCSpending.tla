----------------------------- MODULE MCSpending -----------------------------
(* Calls, coins and offers for checking Spending.                          *)
EXTENDS Spending

Call(kind) == [kind |-> kind, amount |-> 4000, outs |-> 1, memo |-> "none",
               broadcast |-> TRUE, sweep |-> FALSE, valid |-> TRUE, coins |-> FALSE, given |-> 0]

Locks == {"produceSimpleTime", "produceMultiTimeMultisig", "producePaymentChannel",
          "produceSimpleTimeCurrency", "produceMultiTimeMultisigCurrency",
          "satoriDistribution"}
Claims == {"simpleTimeTransaction", "multiTimeNotMultisigTransaction",
           "paymentChannelRecallTransaction", "simpleTimeCurrencyTransaction",
           "multiTimeNotMultisigCurrencyTransaction",
           "paymentChannelRecallCurrencyTransaction"}

MCRequests ==
    {[Call(k) EXCEPT !.outs = IF k = "producePaymentChannel" THEN 1 ELSE n,
                     !.memo = m, !.broadcast = b] :
        k \in Locks, n \in {1, 2}, m \in {"fits", "lost"}, b \in BOOLEAN}
    \cup {[Call(k) EXCEPT !.outs = IF k \in {"paymentChannelRecallTransaction",
                                            "paymentChannelRecallCurrencyTransaction"}
                                   THEN 2 ELSE 1,
                         !.amount = a, !.broadcast = b] :
        k \in Claims, a \in {3000, 9000}, b \in BOOLEAN}
    \cup {[Call("currencyTransaction") EXCEPT !.broadcast = b] : b \in BOOLEAN}
    \cup {Call("satoriTransaction"), Call("satoriAndCurrencyTransaction"),
          Call("sendAllTransaction"),
          [Call("satoriTransaction") EXCEPT !.valid = FALSE]}
    \cup {[Call(k) EXCEPT !.outs = 2, !.coins = c, !.given = g, !.amount = 14000] :
          k \in {"paymentChannelMultisig", "paymentChannelMultisigCurrency"},
          c \in BOOLEAN, g \in {935, 10000}}
    \cup {Call("paymentChannelTransaction")}
    \cup {[Call("typicalNeuronTransaction") EXCEPT !.sweep = s, !.amount = a] :
          s \in BOOLEAN, a \in {3000, 4000}}
    \cup {[Call("typicalNeuronBridgeTransaction") EXCEPT !.amount = a] : a \in {3000, 7000}}

(* One big coin, several, dust that costs more than it brings or only just *)
(* carries its own fee, dust before a big coin, a purse that is as large   *)
(* as its estimated fee, and change that comes to nothing.                 *)
Ascending(p) == \A i, j \in DOMAIN p : i < j => p[i] <= p[j]
MCPurses ==
    {p \in UNION {[1..n -> {1100, 1700, 6134, 30000}] : n \in 0..2} : Ascending(p)}
    \cup {[i \in 1..n |-> v] : n \in {8, 11}, v \in {1100, 1650, 2000}}
    \cup {<<100, 100, 100, 13000>>, [i \in 1..15 |-> 1700], [i \in 1..18 |-> 1700]}
MCLaterPurses == {<<>>, <<1100, 6134, 6134>>, <<30000>>}
MCHoldings == {<<>>, <<4000>>, <<1000, 2500, 9000>>}
MCOffers ==
    {[reserved |-> r, feeSats |-> f, satoriFee |-> s] :
        r \in {0, 6000, 1000000}, f \in {0, 2900}, s \in {0, 10, 25}}
=============================================================================
