------------------------------- MODULE Spending -------------------------------
(***************************************************************************)
(* How the wallet spends (satorilib/wallet/wallet.py and evrmore/          *)
(* wallet.py): one call of one transaction function, from the selection of *)
(* coins to the answer of the node.                                        *)
(*                                                                         *)
(* A transaction function gathers coins for an estimated fee, builds and   *)
(* signs the transaction, and only then knows its size, and so the fee the *)
(* network requires.  If the fee paid is not within 1% under and 25% over  *)
(* the required one it calls itself with the required fee as feeOverride.  *)
(* Another thread may refresh the wallet's coins between two such calls.   *)
(* A wallet without EVR for the fee sends through Mundo, a server that     *)
(* adds one of its own coins and is paid in SATORI.                        *)
(*                                                                         *)
(* Currency is counted in units of 100 sats, so that every fee the code    *)
(* computes is a whole number; sizes are in bytes.                         *)
(***************************************************************************)
EXTENDS Integers, Sequences, FiniteSets, SequencesExt

CONSTANTS
    Requests,    \* the calls considered: records, see IsCall
    Purses,      \* the wallet's currency coins: ascending sequences of values
    LaterPurses, \* those that a refresh may find
    Holdings,    \* the wallet's SATORI coins: ascending sequences of values
    Offers,      \* Mundo's answers to a request for a partial transaction
    Reserve,     \* Wallet.reserve
    MundoFee,    \* Wallet.mundoFee, in SATORI
    BridgeFee,   \* Wallet.bridgeFee, in SATORI
    MaxBridge,   \* Wallet.maxBridgeAmount
    MaxRefreshes \* bound on the refreshes of the wallet during the call

(* What a call may be: a lock, a distribution or a recall is given one     *)
(* script, address or locked output at least, the other functions pay      *)
(* once; the functions of a neuron always broadcast.                       *)
Repeating == {"produceSimpleTime", "produceMultiTimeMultisig", "satoriDistribution",
              "produceSimpleTimeCurrency", "produceMultiTimeMultisigCurrency",
              "paymentChannelRecallTransaction", "paymentChannelRecallCurrencyTransaction",
              "paymentChannelMultisig", "paymentChannelMultisigCurrency"}
Neuron == {"typicalNeuronTransaction", "typicalNeuronBridgeTransaction"}
Single == {"producePaymentChannel", "satoriTransaction", "currencyTransaction",
           "satoriAndCurrencyTransaction", "simpleTimeTransaction",
           "multiTimeNotMultisigTransaction", "simpleTimeCurrencyTransaction",
           "multiTimeNotMultisigCurrencyTransaction", "sendAllTransaction",
           "multiTimeMultisigTransactionStart", "multiTimeMultisigCurrencyTransactionStart",
           "paymentChannelTransaction", "producePaymentChannelCurrency"}
IsCall(call) ==
    /\ call \in [kind : Repeating \cup Neuron \cup Single, amount : Nat, outs : Nat \ {0},
                 memo : {"none", "fits", "lost"}, broadcast : BOOLEAN, sweep : BOOLEAN,
                 valid : BOOLEAN, coins : BOOLEAN, given : Nat]
    /\ call.kind \notin Repeating => call.outs = 1
    /\ call.kind \in Neuron => call.broadcast

ASSUME SpendingAssumption ==
    /\ \A call \in Requests : IsCall(call)
    /\ Purses \cup LaterPurses \cup Holdings \subseteq Seq(Nat)
    /\ Offers \subseteq [reserved : Nat, feeSats : Nat, satoriFee : Nat]
    /\ {Reserve, MundoFee, BridgeFee, MaxBridge, MaxRefreshes} \subseteq Nat /\ Reserve > 0

PerByte    == 11        \* TxUtils.feeRate
PerItem    == 1500      \* the fee per input or output of estimatedFee
DefaultFee == 2500      \* TxUtils.defaultFee
Coin       == 1000000   \* one EVR

(* Sizes in a serialized transaction.  A signature is 71 or 72 bytes long. *)
BaseSize  == 10
InSize    == 148
ClaimSize == 260
OutSize   == 34
AssetSize == 59
MemoSize  == 60

VARIABLES
    task,       \* the arguments of the call
    purse,      \* self.unspentCurrency
    assets,     \* self.unspentAssets
    balance,    \* self.balance and self.currency
    refreshes,  \* refreshes begun
    refreshing, \* getUnspents has cleared the assets and awaits the new ones
    override,   \* feeOverride of the current call, 0 for None
    sending,    \* the argument broadcast of the current call
    retries,    \* how often the function has called itself
    stage,      \* where the call is
    tx,         \* the transaction last built
    offer,      \* Mundo's answer
    reserved,   \* Mundo still holds the coin it promised
    reported,   \* the OFAC report was accepted
    relayed,    \* the transactions the node took
    outcome     \* how the call ended
vars == <<task, purse, assets, balance, refreshes, refreshing, override, sending,
          retries, stage, tx, offer, reserved, reported, relayed, outcome>>
wallet == <<purse, assets, balance, refreshes, refreshing>>

(* The sums of the first 0, 1, ... values of a sequence, and of them all.  *)
Sums(values) ==
    LET sum[n \in 0..Len(values)] == IF n = 0 THEN 0 ELSE sum[n - 1] + values[n] IN sum
Total(values) == Sums(values)[Len(values)]
Values(outs, asset) ==
    Total([i \in DOMAIN outs |-> IF outs[i].asset = asset THEN outs[i].value ELSE 0])

(* An output; slot says for which of a lock's scripts it is.               *)
Output(asset, to, value) == [asset |-> asset, to |-> to, slot |-> 0, value |-> value]
Satori(to, value)   == Output("satori", to, value)
Currency(to, value) == Output("currency", to, value)

-----------------------------------------------------------------------------
(* What each transaction function puts in its transaction *)

(* memoCount counts a memo that is given; _compileMemoOutput drops one     *)
(* that is shorter than five characters or longer than 79.                 *)
MemoCount == IF task.memo = "none" THEN 0 ELSE 1
Memo == IF task.memo = "fits" THEN <<Output("memo", "nobody", 0)>> ELSE <<>>

(* A plan: the outputs that pay someone, what is passed to the two fee     *)
(* estimates, the P2SH outputs claimed, and which coins are gathered.      *)
Plan == [satori |-> <<>>, currency |-> <<>>, memo |-> Memo, claims |-> 0,
         gathers |-> {"satori", "currency"}, bump |-> 0, expects |-> 0,
         counts |-> 0, first |-> 0, settles |-> TRUE]

Each(make(_, _)) ==
    [i \in 1..task.outs |-> [make("script", task.amount) EXCEPT !.slot = i]]

produceSimpleTime ==
    [Plan EXCEPT !.satori = Each(Satori), !.expects = task.outs + 2 + MemoCount,
                 !.counts = task.outs + 2 + MemoCount]
produceMultiTimeMultisig == produceSimpleTime
producePaymentChannel ==
    [Plan EXCEPT !.satori = Each(Satori), !.expects = 3 + MemoCount,
                 !.counts = 3 + MemoCount]
produceSimpleTimeCurrency ==
    [Plan EXCEPT !.currency = Each(Currency), !.gathers = {"currency"}, !.bump = 1,
                 !.expects = task.outs + 1 + MemoCount, !.counts = task.outs + 1 + MemoCount]
produceMultiTimeMultisigCurrency == produceSimpleTimeCurrency

satoriDistribution == [produceSimpleTime EXCEPT !.settles = FALSE]
satoriTransaction ==
    [Plan EXCEPT !.satori = <<Satori("payee", task.amount)>>, !.memo = <<>>,
                 !.expects = 3, !.counts = 3]
currencyTransaction ==
    [Plan EXCEPT !.currency = <<Currency("payee", task.amount)>>, !.memo = <<>>,
                 !.gathers = {"currency"}, !.expects = 1, !.counts = 2]
satoriAndCurrencyTransaction ==
    [Plan EXCEPT !.satori = <<Satori("payee", task.amount)>>, !.memo = <<>>,
                 !.currency = <<Currency("payee", task.amount)>>,
                 !.expects = 4, !.counts = 4]

(* Claims: the P2SH outputs hold what is paid out.  A claim of SATORI      *)
(* gathers currency for the fee, a claim of currency takes the fee out of  *)
(* what it claims.                                                         *)
ClaimSatori(n) ==
    [Plan EXCEPT !.satori = <<Satori("payee", n * task.amount)>>, !.claims = n,
                 !.gathers = {"currency"}, !.first = DefaultFee]
ClaimCurrency(n) ==
    LET left == n * task.amount - (IF override > 0 THEN override ELSE DefaultFee) IN
    [Plan EXCEPT !.currency = IF left = 0 THEN <<>> ELSE <<Currency("payee", left)>>,
                 !.claims = n, !.gathers = {}, !.first = DefaultFee]

simpleTimeTransaction                   == ClaimSatori(1)
multiTimeNotMultisigTransaction         == ClaimSatori(1)
paymentChannelRecallTransaction         == ClaimSatori(task.outs)
simpleTimeCurrencyTransaction           == ClaimCurrency(1)
multiTimeNotMultisigCurrencyTransaction == ClaimCurrency(1)
paymentChannelRecallCurrencyTransaction == ClaimCurrency(task.outs)

PlanOf(kind) ==
    CASE kind = "produceSimpleTime"                -> produceSimpleTime
      [] kind = "produceMultiTimeMultisig"         -> produceMultiTimeMultisig
      [] kind = "producePaymentChannel"            -> producePaymentChannel
      [] kind = "produceSimpleTimeCurrency"        -> produceSimpleTimeCurrency
      [] kind = "produceMultiTimeMultisigCurrency" -> produceMultiTimeMultisigCurrency
      [] kind = "satoriDistribution"               -> satoriDistribution
      [] kind = "satoriTransaction"                -> satoriTransaction
      [] kind = "currencyTransaction"              -> currencyTransaction
      [] kind = "satoriAndCurrencyTransaction"     -> satoriAndCurrencyTransaction
      [] kind = "simpleTimeTransaction"            -> simpleTimeTransaction
      [] kind = "multiTimeNotMultisigTransaction"  -> multiTimeNotMultisigTransaction
      [] kind = "paymentChannelRecallTransaction"  -> paymentChannelRecallTransaction
      [] kind = "simpleTimeCurrencyTransaction"    -> simpleTimeCurrencyTransaction
      [] kind = "multiTimeNotMultisigCurrencyTransaction"
                                        -> multiTimeNotMultisigCurrencyTransaction
      [] kind = "paymentChannelRecallCurrencyTransaction"
                                        -> paymentChannelRecallCurrencyTransaction
      [] kind = "typicalNeuronTransaction"         -> satoriTransaction
      [] kind = "typicalNeuronBridgeTransaction"   ->
            [satoriDistribution EXCEPT
                !.satori = <<Satori("bridge", BridgeFee), Satori("burn", task.amount)>>,
                !.expects = 5, !.counts = 5, !.memo = <<Output("memo", "nobody", 0)>>]

-----------------------------------------------------------------------------
(* Choosing coins and building the transaction *)

(* The first coins of a sequence that reach what is needed, which depends  *)
(* on their number; the whole sequence if it never does.                   *)
Enough(coins, need) ==
    LET sums == Sums(coins) IN {n \in 0..Len(coins) : sums[n] >= need[n]}
Taken(coins, need) == SubSeq(coins, 1, Min(Enough(coins, need) \cup {Len(coins)}))

(* _gatherCurrencyUnspents: smallest first; if the fees of so much dust    *)
(* outgrow it, largest first instead.                                      *)
GatherCurrency(need) ==
    IF Enough(purse, need) # {} THEN Taken(purse, need) ELSE Taken(Reverse(purse), need)
GatherSatori(sats) == Taken(assets, [n \in 0..Len(assets) |-> sats])

FirstFee(plan) == IF override > 0 THEN override ELSE plan.first
Fee(plan, ins) == IF FirstFee(plan) > 0 THEN FirstFee(plan) ELSE PerItem * (ins + plan.counts)

(* The change outputs: none for exactly nothing, an exception if the fee   *)
(* cannot be paid.                                                         *)
Change(asset, value) == IF value > 0 THEN <<Output(asset, "self", value)>> ELSE <<>>

Tx(satoriIn, currencyIn, ins, claims, outs) ==
    [satoriIn |-> satoriIn, currencyIn |-> currencyIn, ins |-> ins, claims |-> claims,
     outs |-> outs]
NoTx == Tx(0, 0, 0, 0, <<>>)

(* The order of the outputs: a lock finds its funds by their position.     *)
ChangeFirst(plan, change) == change \o plan.satori \o plan.currency \o plan.memo
Outputs(plan, change) == plan.satori \o plan.currency \o change \o plan.memo

(* The part that is common to every function with a plan.                  *)
Draft(plan) ==
    LET s      == IF "satori" \in plan.gathers
                  THEN GatherSatori(Values(plan.satori, "satori")) ELSE <<>>
        sats   == Values(plan.currency, "currency")
        need   == [n \in 0..Len(purse) |->
                      sats + IF FirstFee(plan) > 0 THEN FirstFee(plan)
                             ELSE PerItem * (Len(s) + plan.bump + n + plan.expects)]
        g      == IF "currency" \in plan.gathers THEN GatherCurrency(need) ELSE <<>>
        fee    == Fee(plan, Len(s) + Len(g))
        left   == IF g # <<>> THEN Total(g) - sats - fee ELSE 0
        over   == IF s # <<>> THEN Total(s) - Values(plan.satori, "satori") ELSE 0
        poor   == \/ /\ "satori" \in plan.gathers
                     /\ Total(assets) < Values(plan.satori, "satori")
                  \/ /\ "currency" \in plan.gathers
                     /\ Total(purse) < sats + IF FirstFee(plan) > 0 THEN FirstFee(plan)
                                              ELSE Reserve
        claimed(asset) == IF plan.claims = 0 THEN 0
                          ELSE IF asset = "satori" THEN Values(plan.satori, "satori")
                          ELSE IF plan.gathers = {} THEN task.amount * plan.claims ELSE 0
    IN  [raises  |-> poor \/ left < 0,
         fee     |-> fee,
         settles |-> plan.settles,
         tx      |-> Tx(Total(s) + claimed("satori"), Total(g) + claimed("currency"),
                        Len(s) + Len(g), plan.claims,
                        Outputs(plan, Change("satori", over) \o Change("currency", left)))]

(* sendAllTransaction sweeps every coin, and takes the SATORI it sends     *)
(* from the balance.                                                       *)
sendAllTransaction ==
    LET fee  == IF override > 0 THEN override
                ELSE PerItem * (Len(assets) + Len(purse) + 2)
        left == Total(purse) - fee
    IN  [raises  |-> balance.currency < Reserve \/ left < 0,
         fee     |-> fee,
         settles |-> TRUE,
         tx      |-> Tx(Total(assets), Total(purse), Len(assets) + Len(purse), 0,
                        (IF assets # <<>> THEN <<Satori("payee", balance.satori)>> ELSE <<>>)
                        \o (IF left > 0 THEN <<Currency("payee", left)>> ELSE <<>>))]

(* Spending a payment channel with both parties' signatures.  The locked   *)
(* amounts are compared with the amount to send, in coins, and with its    *)
(* sats: the change only comes out if they are given in sats.  The SATORI  *)
(* version returns the rest to the channel; the currency version takes the *)
(* fee from the payment and again from the change.                         *)
MultisigFee == 4 * DefaultFee
Locked == task.outs * task.amount
paymentChannelMultisigTransactionStart ==
    LET g == GatherCurrency([n \in 0..Len(purse) |-> MultisigFee])
    IN  [raises  |-> Total(purse) < MultisigFee \/ task.coins,
         fee     |-> MultisigFee,
         settles |-> FALSE,
         tx      |-> Tx(Locked, Total(g), Len(g), task.outs,
                        <<Satori("payee", task.amount)>>
                        \o Change("currency", Total(g) - MultisigFee)
                        \o (IF Locked > task.amount
                            THEN <<Satori("channel", Locked - task.amount)>> ELSE <<>>)
                        \o Memo)]
paymentChannelMultisigCurrencyTransactionStart ==
    LET left == Locked - task.amount - MultisigFee
    IN  [raises  |-> task.coins \/ left < 0,
         fee     |-> MultisigFee,
         settles |-> FALSE,
         tx      |-> Tx(0, Locked, 0, task.outs,
                        (IF task.amount = MultisigFee THEN <<>>
                         ELSE <<Currency("payee", task.amount - MultisigFee)>>)
                        \o Change("currency", left) \o Memo)]

(* The other multisig entry points pass arguments that the functions they  *)
(* call do not have: they raise before anything is built.                  *)
Misdirected == {"multiTimeMultisigTransactionStart", "multiTimeMultisigCurrencyTransactionStart",
                "paymentChannelTransaction", "producePaymentChannelCurrency"}

Sweeps == \/ task.kind = "sendAllTransaction"
          \/ task.kind = "typicalNeuronTransaction" /\ task.sweep
Bridges == task.kind = "typicalNeuronBridgeTransaction"
Multisigs == task.kind \in {"paymentChannelMultisig", "paymentChannelMultisigCurrency"}
Drafted == IF Sweeps THEN sendAllTransaction
           ELSE IF task.kind = "paymentChannelMultisig"
           THEN paymentChannelMultisigTransactionStart
           ELSE IF task.kind = "paymentChannelMultisigCurrency"
           THEN paymentChannelMultisigCurrencyTransactionStart
           ELSE Draft(PlanOf(task.kind))

(* getTxFee of the serialized transaction, whose signatures may each be a  *)
(* byte shorter.                                                           *)
OutputSize(out) ==
    CASE out.asset = "satori" -> AssetSize
      [] out.asset = "currency" -> OutSize
      [] out.asset = "memo" -> MemoSize
Size(t, shorter) ==
    BaseSize + InSize * t.ins + ClaimSize * t.claims - shorter
        + Total([i \in DOMAIN t.outs |-> OutputSize(t.outs[i])])
RequiredFee(t, shorter) == PerByte * Size(t, shorter)
Fits(fee, required) == 99 * required < 100 * fee /\ 100 * fee < 125 * required

-----------------------------------------------------------------------------
(* The call *)

NoOffer == [reserved |-> 0, feeSats |-> 0, satoriFee |-> 0]

Init ==
    /\ task \in Requests
    /\ purse \in Purses
    /\ assets \in Holdings
    /\ balance = [satori |-> Total(assets), currency |-> Total(purse)]
    /\ refreshes = 0 /\ refreshing = FALSE
    /\ override = 0
    /\ sending = task.broadcast
    /\ retries = 0
    /\ stage = "called"
    /\ tx = NoTx
    /\ offer = NoOffer
    /\ reserved = FALSE /\ reported = FALSE
    /\ relayed = {}
    /\ outcome = "none"

End(how) == stage' = "ended" /\ outcome' = how

(* typicalNeuronTransaction and typicalNeuronBridgeTransaction first see   *)
(* whether the wallet can pay the fee itself.                              *)
Validate ==
    /\ stage = "called"
    /\ IF ~ task.valid \/ task.kind \in Misdirected THEN End("refused")
       ELSE IF task.kind \notin {"typicalNeuronTransaction", "typicalNeuronBridgeTransaction"}
       THEN stage' = "building" /\ UNCHANGED outcome
       ELSE IF \/ ~ Sweeps /\ ~ Bridges /\ task.amount > balance.satori
               \/ Bridges /\ (task.amount > MaxBridge
                               \/ balance.satori < task.amount + BridgeFee)
       THEN End("refused")
       ELSE /\ stage' = IF balance.currency < Reserve THEN "requesting" ELSE "building"
            /\ UNCHANGED outcome
    /\ UNCHANGED <<task, wallet, override, sending, retries, tx, offer, reserved, reported, relayed>>

(* One call of the function raises: it cannot pay.                         *)
BuildRaises ==
    /\ stage = "building"
    /\ Drafted.raises
    /\ End("funds")
    /\ UNCHANGED <<task, wallet, override, sending, retries, tx, offer, reserved, reported, relayed>>

(* Mutants: a repeated call is not checked again; the fee of the next call *)
(* is the difference, or is added to the fee of this one.                  *)
AcceptRetried ==
    /\ stage = "building"
    /\ \E draft \in {Drafted} :
        /\ ~ draft.raises
        /\ \E shorter \in {0, draft.tx.ins + draft.tx.claims} :
               draft.settles => retries > 0 \/ Fits(draft.fee, RequiredFee(draft.tx, shorter))
        /\ tx' = draft.tx
    /\ IF Bridges THEN stage' = "reporting" /\ UNCHANGED outcome
       ELSE IF Multisigs THEN stage' = "signing" /\ UNCHANGED outcome
       ELSE IF sending THEN stage' = "sending" /\ UNCHANGED outcome
       ELSE End("returned")
    /\ UNCHANGED <<task, wallet, override, sending, retries, offer, reserved, reported, relayed>>
RetryWith(NextFee(_, _)) ==
    /\ stage = "building"
    /\ \E draft \in {Drafted} :
        /\ ~ draft.raises /\ draft.settles
        /\ \E required \in {RequiredFee(draft.tx, 0)} :
            /\ ~ Fits(draft.fee, required)
            /\ override' = NextFee(draft.fee, required)
    /\ retries' = retries + 1
    /\ UNCHANGED <<task, wallet, sending, stage, tx, offer, reserved, reported, relayed, outcome>>
RetryDifference == RetryWith(LAMBDA fee, required : required - fee)
RetryAdds       == RetryWith(LAMBDA fee, required : required + fee)

(* It builds a transaction whose fee fits its size: it is broadcast, or    *)
(* returned.  The bridge reports it before it is broadcast.                *)
Accept ==
    /\ stage = "building"
    /\ \E draft \in {Drafted} :
        /\ ~ draft.raises
        /\ \E shorter \in {0, draft.tx.ins + draft.tx.claims} :
               draft.settles => Fits(draft.fee, RequiredFee(draft.tx, shorter))
        /\ tx' = draft.tx
    /\ IF Bridges THEN stage' = "reporting" /\ UNCHANGED outcome
       ELSE IF Multisigs THEN stage' = "signing" /\ UNCHANGED outcome
       ELSE IF sending THEN stage' = "sending" /\ UNCHANGED outcome
       ELSE End("returned")
    /\ UNCHANGED <<task, wallet, override, sending, retries, offer, reserved, reported, relayed>>

(* It does not: the function calls itself with the fee that would have     *)
(* fitted.  currencyTransaction forgets the argument broadcast there.      *)
Retry ==
    /\ stage = "building"
    /\ \E draft \in {Drafted} :
        /\ ~ draft.raises /\ draft.settles
        /\ \E shorter \in {0, draft.tx.ins + draft.tx.claims} :
            /\ ~ Fits(draft.fee, RequiredFee(draft.tx, shorter))
            /\ override' = RequiredFee(draft.tx, shorter)
    /\ sending' = (sending \/ task.kind = "currencyTransaction")
    /\ retries' = retries + 1
    /\ UNCHANGED <<task, wallet, stage, tx, offer, reserved, reported, relayed, outcome>>

(* The other party's signatures are in.  The function ...End compares the  *)
(* required fee with a number its caller gives, not with the fee the       *)
(* transaction pays.                                                       *)
MultisigEnd ==
    /\ stage = "signing"
    /\ \E shorter \in {0, tx.ins + tx.claims} :
        IF task.given < RequiredFee(tx, shorter) THEN End("feeTooLow")
        ELSE IF sending THEN stage' = "sending" /\ UNCHANGED outcome
        ELSE End("returned")
    /\ UNCHANGED <<task, wallet, override, sending, retries, tx, offer, reserved, reported, relayed>>

(* The node takes a transaction only if it has outputs and creates no      *)
(* money.                                                                  *)
Sound(t) ==
    /\ t.outs # <<>>
    /\ t.satoriIn = Values(t.outs, "satori")
    /\ t.currencyIn >= Values(t.outs, "currency")
    /\ \A i \in DOMAIN t.outs : t.outs[i].value >= 0

(* Wallet.broadcast: an error and a missing answer both raise, whether the *)
(* node took the transaction or not.                                       *)
Broadcast ==
    /\ stage = "sending"
    /\ \/ Sound(tx) /\ relayed' = relayed \cup {tx} /\ End("sent")
       \/ Sound(tx) /\ relayed' = relayed \cup {tx} /\ End("lost")
       \/ relayed' = relayed /\ End("rejected")
    /\ UNCHANGED <<task, wallet, override, sending, retries, tx, offer, reserved, reported>>

-----------------------------------------------------------------------------
(* Through Mundo *)

(* requestSimplePartialFn.  Mundo may be out of reach or have no coin to   *)
(* spare.                                                                  *)
RequestPartial ==
    /\ stage = "requesting"
    /\ \/ /\ End(IF Bridges THEN "raised" ELSE "failed")
          /\ UNCHANGED <<offer, reserved>>
       \/ \E o \in Offers :
            /\ offer' = o
            /\ reserved' = (o.reserved > 0)
            /\ IF o.reserved = 0 THEN End(IF Bridges THEN "tryagain" ELSE "failed")
               ELSE stage' = "drafting" /\ UNCHANGED outcome
    /\ UNCHANGED <<task, wallet, override, sending, retries, tx, reported, relayed>>

(* The fee in SATORI, and the currency that goes back to Mundo: computed   *)
(* from Mundo's fee if it gave one, else from an estimate.                 *)
SatoriFee == IF offer.satoriFee > 0 /\ ~ Bridges THEN offer.satoriFee ELSE MundoFee
Returned(ins, outs) ==
    offer.reserved - IF offer.feeSats > 0 /\ ~ Bridges THEN offer.feeSats
                     ELSE PerItem * (ins + outs)

PartialBackLast(s, currencyIns, outs, counted, last) ==
    LET ins  == Len(s) + Len(currencyIns)
        back == Returned(ins, counted)
    IN  [raises |-> Total(s) < Values(outs, "satori") \/ back <= 0,
         fee    |-> offer.reserved - back,
         tx     |-> Tx(Total(s), Total(currencyIns), ins, 0,
                       outs \o last \o <<Currency("mundo", back)>>)]
Partial(s, currencyIns, outs, counted, last) ==
    LET ins  == Len(s) + Len(currencyIns)
        back == Returned(ins, counted)
    IN  [raises |-> Total(s) < Values(outs, "satori") \/ back <= 0,
         fee    |-> offer.reserved - back,
         tx     |-> Tx(Total(s), Total(currencyIns), ins, 0,
                       outs \o <<Currency("mundo", back)>> \o last)]

satoriOnlyPartialSimple ==
    LET pulled == task.amount + SatoriFee > balance.satori
        amount == IF pulled THEN task.amount - SatoriFee ELSE task.amount
        s      == GatherSatori(amount + SatoriFee)
        over   == Change("satori", Total(s) - amount - SatoriFee)
    IN  Partial(s, <<>>,
                <<Satori("payee", amount)>> \o over \o <<Satori("mundo", SatoriFee)>>,
                3 + Len(over), <<>>)

sendAllPartialSimple ==
    LET swept == (IF purse # <<>> THEN <<Currency("payee", Total(purse))>> ELSE <<>>)
                    \o <<Satori("payee", balance.satori - SatoriFee)>>
        draft == Partial(assets, purse, swept \o <<Satori("mundo", SatoriFee)>>,
                         Len(swept) + 2, <<>>)
    IN  [draft EXCEPT !.raises =
            balance.satori < SatoriFee \/ Returned(Len(assets) + Len(purse), Len(swept) + 2) <= 0]

satoriOnlyBridgePartialSimple ==
    LET total == task.amount + MundoFee + BridgeFee
        s     == GatherSatori(total)
        over  == Change("satori", Total(s) - total)
        draft == Partial(s, <<>>,
                         <<Satori("burn", task.amount)>> \o over
                            \o <<Satori("mundo", MundoFee), Satori("bridge", BridgeFee)>>,
                         5 + Len(over), <<Output("memo", "nobody", 0)>>)
    IN  [draft EXCEPT !.raises = @ \/ balance.satori < total]

PartialDrafted ==
    IF Bridges THEN satoriOnlyBridgePartialSimple
    ELSE IF task.sweep THEN sendAllPartialSimple ELSE satoriOnlyPartialSimple

(* An exception of the bridge's functions leaves typicalNeuronBridge-      *)
(* Transaction; the other one turns it into a result.                      *)
DraftPartial ==
    /\ stage = "drafting"
    /\ \E draft \in {PartialDrafted} :
        IF draft.raises
        THEN End(IF Bridges THEN "raised" ELSE "failed") /\ UNCHANGED tx
        ELSE /\ tx' = draft.tx
             /\ stage' = IF Bridges THEN "reporting" ELSE "completing"
             /\ UNCHANGED outcome
    /\ UNCHANGED <<task, wallet, override, sending, retries, offer, reserved, reported, relayed>>

(* ofacReportedFn. *)
Report ==
    /\ stage = "reporting"
    /\ \/ /\ reported' = TRUE
          /\ stage' = IF offer = NoOffer THEN "sending" ELSE "completing"
          /\ UNCHANGED outcome
       \/ reported' = FALSE /\ End("failed")
    /\ UNCHANGED <<task, wallet, override, sending, retries, tx, offer, reserved, relayed>>

FromEnd(n) == tx.outs[Len(tx.outs) - n]
ReportedFee == offer.reserved - FromEnd(IF Bridges THEN 1 ELSE 0).value

(* The checks of satoriOnlyCompleterSimple, in Mundo's wallet.             *)
Verified ==
    LET back  == FromEnd(IF Bridges THEN 1 ELSE 0)
        claim == FromEnd(IF Bridges THEN 3 ELSE 1)
        pays(fee) == \E i \in DOMAIN tx.outs :
                        tx.outs[i].asset = "satori" /\ tx.outs[i].value = fee
    IN  /\ ReportedFee < Coin /\ ReportedFee < offer.reserved
        /\ back.asset = "currency" /\ back.to = "mundo"
        /\ claim.to = "mundo"
        /\ pays(MundoFee)
        /\ Bridges => pays(BridgeFee)

Completed == [tx EXCEPT !.currencyIn = @ + offer.reserved, !.ins = @ + 1]

(* Mundo adds its coin.  It broadcasts a bridge transaction itself; the    *)
(* wallet broadcasts the other, and makes of any failure a result.         *)
Complete ==
    /\ stage = "completing"
    /\ IF ~ (Verified /\ reserved) THEN End("failed") /\ UNCHANGED <<tx, relayed>>
       ELSE /\ tx' = Completed
            /\ \/ /\ Sound(Completed)
                  /\ relayed' = relayed \cup {Completed}
                  /\ \/ End("sent")
                     \/ End(IF Bridges THEN "raised" ELSE "failed")
               \/ relayed' = relayed /\ End("failed")
    /\ UNCHANGED <<task, wallet, override, sending, retries, offer, reserved, reported>>

(* Mundo spends the coin elsewhere, or the call to it fails.               *)
ForgetReserved ==
    /\ stage \in {"drafting", "reporting", "completing"}
    /\ reserved /\ reserved' = FALSE
    /\ UNCHANGED <<task, wallet, override, sending, retries, stage, tx, offer, reported, relayed, outcome>>

-----------------------------------------------------------------------------
(* Another thread refreshes the wallet *)

RefreshBalance ==
    /\ stage # "ended" /\ ~ refreshing /\ refreshes < MaxRefreshes
    /\ \E p \in LaterPurses, h \in Holdings :
         balance' = [satori |-> Total(h), currency |-> Total(p)]
    /\ refreshes' = refreshes + 1
    /\ UNCHANGED <<task, purse, assets, refreshing, override, sending, retries, stage, tx,
                   offer, reserved, reported, relayed, outcome>>

(* getUnspents replaces the currency coins and empties the list of assets  *)
(* before it asks for the new ones.                                        *)
RefreshCoins ==
    /\ stage # "ended" /\ ~ refreshing /\ refreshes < MaxRefreshes
    /\ \E p \in LaterPurses : purse' = p
    /\ assets' = <<>>
    /\ refreshing' = TRUE
    /\ refreshes' = refreshes + 1
    /\ UNCHANGED <<task, balance, override, sending, retries, stage, tx,
                   offer, reserved, reported, relayed, outcome>>

RefreshAssets ==
    /\ refreshing
    /\ \E h \in Holdings : assets' = h
    /\ refreshing' = FALSE
    /\ UNCHANGED <<task, purse, balance, refreshes, override, sending, retries, stage, tx,
                   offer, reserved, reported, relayed, outcome>>

Step == \/ Validate \/ BuildRaises \/ Accept \/ Retry \/ MultisigEnd \/ Broadcast
        \/ RequestPartial \/ DraftPartial \/ Report \/ Complete
Next == Step \/ ForgetReserved \/ RefreshBalance \/ RefreshCoins \/ RefreshAssets

Spec == Init /\ [][Next]_vars

-----------------------------------------------------------------------------
(* Properties *)

Stages == {"called", "building", "sending", "requesting", "drafting", "reporting",
           "completing", "signing", "ended"}
Outcomes == {"none", "refused", "funds", "returned", "sent", "lost", "rejected",
             "failed", "raised", "tryagain", "feeTooLow"}

(* Every variable keeps its type; in particular no fee is negative.        *)
TypeOK ==
    /\ task \in Requests
    /\ \A i \in DOMAIN purse : purse[i] \in Nat
    /\ \A i \in DOMAIN assets : assets[i] \in Nat
    /\ refreshes \in 0..MaxRefreshes
    /\ {refreshing, sending, reserved, reported} \subseteq BOOLEAN
    /\ override \in Nat /\ retries \in Nat
    /\ stage \in Stages /\ outcome \in Outcomes
    /\ tx.ins \in Nat /\ tx.currencyIn \in Nat /\ tx.satoriIn \in Nat
    /\ offer \in Offers \cup {NoOffer}

Paid(t) == t.currencyIn - Values(t.outs, "currency")
Settling == task.kind # "satoriDistribution" /\ ~ Bridges /\ ~ Multisigs

(* The fee that a relayed transaction really leaves to the miners, its     *)
(* inputs less its outputs, fits the transaction's size to within the 1%   *)
(* and 25% the functions aim at, whatever coins the last of the repeated   *)
(* calls gathered.  (A distribution is sent with the estimate, a multi-    *)
(* signature transaction with a fixed fee.)                                *)
FeeFits ==
    \A t \in relayed : Settling /\ offer = NoOffer =>
        \E shorter \in 0..(t.ins + t.claims) : Fits(Paid(t), RequiredFee(t, shorter))

(* What a relayed transaction pays to others is what the call asked for,   *)
(* no more and no less: the rest of both assets comes back as change, but  *)
(* for the currency fee.  A lock's script finds its funds at its own       *)
(* position among the outputs (funding_vout).                              *)
Asked(t, i) ==
    LET out == t.outs[i] IN
    CASE out.to = "self"   -> TRUE
      [] out.to = "nobody" -> out.value = 0
      [] out.to = "payee"  ->
            \/ out.value = task.amount
            \/ out.value = task.amount * t.claims
            \/ t.claims > 0 /\ out.value = task.amount * t.claims - Paid(t)
            \/ Sweeps
            \/ Multisigs /\ out.value = task.amount - MultisigFee
            \/ offer # NoOffer /\ out.value = task.amount - SatoriFee
      [] out.to = "mundo"  -> out.asset = "satori" => out.value = SatoriFee
      [] out.to = "bridge" -> out.value = BridgeFee
      [] out.to = "channel" -> out.value = Locked - task.amount
      [] out.to = "burn"   -> out.value = task.amount
      [] out.to = "script" -> out.slot = i /\ out.value = task.amount
AsAsked ==
    \A t \in relayed :
        /\ \A i \in DOMAIN t.outs : Asked(t, i)
        /\ Cardinality({i \in DOMAIN t.outs : t.outs[i].to \notin {"self", "nobody", "mundo"}})
              >= IF Sweeps THEN 1
                 ELSE IF t.claims > 0 THEN 0 ELSE task.outs

(* A call puts at most one transaction on the chain however often it calls *)
(* itself, and none when it was called with broadcast=False, nor before    *)
(* the report of a bridge transaction was accepted.                        *)
OnlyWhenAsked ==
    /\ Cardinality(relayed) <= 1
    /\ relayed # {} /\ task.kind # "currencyTransaction" => task.broadcast
    /\ relayed # {} /\ Bridges => reported

(* The chain sees what the call asked for, once, and nothing else.         *)
SentAsAsked == AsAsked /\ OnlyWhenAsked

(* Once a call could pay the estimated fee, calling itself with the        *)
(* required one does not fail for want of money, unless another thread     *)
(* changed the coins in between.  (A claim starts from a fixed fee, and    *)
(* may well find that it needs more than there is.)  It does fail in a     *)
(* wallet with dust, which the estimate avoids and the next call, whose    *)
(* need is fixed, gathers; and with many coins, since one costs more to    *)
(* spend than the estimate has for it.                                     *)
Dusty == \E i \in DOMAIN purse : purse[i] < PerByte * InSize
ManyCoins == Len(purse) + Len(assets) > 16
RetryPays ==
    outcome = "funds" /\ retries > 0 =>
        \/ refreshes > 0 \/ Dusty \/ ManyCoins
        \/ ~ Sweeps /\ PlanOf(task.kind).claims > 0

(* A partial transaction that the wallet drafts from an offer with Mundo's *)
(* usual fee passes every check of the wallet that completes it, and the   *)
(* completer gives up no more currency than it was told.                   *)
Completable ==
    stage = "completing" /\ offer.satoriFee \in {0, MundoFee} =>
        /\ Verified
        /\ Paid(Completed) = ReportedFee

(* The functions do not call themselves for ever: with coins that nobody   *)
(* changes, each call but two gathers a coin more than the one before.     *)
FewRetries == refreshes = 0 => retries <= Len(purse) + 2

(* A function's calls of itself lead to a transaction that can be paid.    *)
RetriesSettle == RetryPays /\ FewRetries
=============================================================================
