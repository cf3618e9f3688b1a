---------------------------- MODULE LockedFunds ----------------------------
(***************************************************************************)
(* Funds that a wallet locks under one script (P2SH), from the funding     *)
(* transaction to the claim: the chain, the parties that claim with the    *)
(* wallet's claim functions, and the wallet's record of the script         *)
(* (wallet/wallet.py, saveScript to _handleP2SHNotification), which is     *)
(* kept in memory and in a file and survives a crash of the wallet.        *)
(*                                                                         *)
(* The record belongs to the application's thread, which saves it after a  *)
(* broadcast, and to the handler of a notification, which works on the     *)
(* object it found before it asked the server.                             *)
(***************************************************************************)
EXTENDS LockScripts

CONSTANTS
    MaxCoins,   \* bound on the outputs locked under the script
    MaxHeight,  \* bound on the blocks
    MaxTime,    \* bound on the chain's median time
    MaxFaults   \* bound on crashes, failed queries and failed writes

ASSUME LockedFundsAssumption == {MaxCoins, MaxHeight, MaxTime, MaxFaults} \subseteq Nat

VARIABLES
    kind,     \* which script
    unit,     \* its moments are in "blocks" or in "time"
    height,   \* of the chain's last block
    time,     \* the median time of its last blocks
    coins,    \* the outputs: confirmed (0 in the mempool), spent (how, or Unspent)
    record,   \* self.scripts[address]
    object,   \* which dict object it is: saveScript and a restart make a new one
    file,     \* the entry in scripts.json
    pending,  \* the output that was broadcast and is not recorded yet, 0 for none
    check,    \* the handler between its queries and its update, or NoCheck
    faults,   \* faults so far
    failures  \* history: the kinds of faults there were
vars == <<kind, unit, height, time, coins, record, object, file, pending, check,
          faults, failures>>
walletVars == <<record, object, file, pending, check>>
chainVars  == <<kind, unit, height, time>>

Unspent  == [signers |-> <<>>, height |-> 0, time |-> 0]
NotKnown == -1
NoScript == [status |-> "none", coin |-> 0, confirmed |-> NotKnown]
NoCheck  == [object |-> 0, script |-> NoScript, present |-> FALSE, height |-> 0]
Statuses == {"funded", "active", "spent"}
Channel  == kind \in {"paymentChannel", "paymentChannelExpiring"}

Init ==
    /\ kind \in Kinds /\ unit \in Units
    /\ height = 0 /\ time = 0
    /\ coins = <<>>
    /\ record = NoScript /\ file = NoScript /\ object = 1
    /\ pending = 0 /\ check = NoCheck
    /\ faults = 0 /\ failures = {}

Fault(what) ==
    /\ faults < MaxFaults
    /\ faults' = faults + 1
    /\ failures' = failures \cup {what}
NoFault == UNCHANGED <<faults, failures>>

-----------------------------------------------------------------------------
(* The chain *)

(* A transaction's lock is over when the next block may hold it.           *)
Past(lock) ==
    IF lock.kind = "blocks" THEN lock.n <= height ELSE lock.n < time

NextBlock ==
    /\ height < MaxHeight
    /\ height' = height + 1
    /\ time' \in {t \in {time, time + 1, time + 2} : t <= MaxTime}
    /\ \E mined \in SUBSET {i \in DOMAIN coins : coins[i].confirmed = 0} :
         coins' = [i \in DOMAIN coins |->
                    IF i \in mined THEN [coins[i] EXCEPT !.confirmed = height + 1] ELSE coins[i]]
    /\ NoFault /\ UNCHANGED <<kind, unit, walletVars>>

(* The transaction that claims an output: _compileClaimOnP2SH.  A date     *)
(* sets the lock time, version 2 and the input's sequence number, which    *)
(* is otherwise final.                                                     *)
NoDate == Moment("blocks", 0)
Sequence(date) == IF date = NoDate THEN "final" ELSE "open"
UndatedTx(date) == [lock |-> NoDate, version |-> 1, relative |-> 0]
ClaimTx(date) == [lock |-> date, version |-> IF date = NoDate THEN 1 ELSE 2, relative |-> 0]

Opens(k, u, date, params) == Unlocks(params, Script(k, u), ClaimTx(date), Sequence(date))

(* What the parties may sign, with whatever parameters.                    *)
Singles == {<<k>> : k \in {"immediate", "delayed1", "delayed2", "delayed3", "sender", "receiver"}}
Signers ==
    Singles \cup {Committee, SubSeq(Committee, 1, 4), Parties, Reverse(Parties),
                  <<"sender", "sender">>, <<"receiver", "receiver">>}
Params(who) ==
    {multisig2Of2(who)}
    \cup (IF Len(who) <= 2 THEN {unlockPaymentChannel(who)} ELSE {})
    \cup {unlockSimpleTime(who[1], r) : r \in {0, 1}}
    \cup {unlockMultiTime(who[1], r) : r \in 0..3}
    \cup {unlockMultiTimeMultisig(who, r) : r \in 0..3}
Dates == {NoDate} \cup {Moment(u, n) : u \in Units, n \in {Early, Middle, Late}}

(* Who can claim, and with which date once that is past.                   *)
Takers ==
    UNION {{<<k, u, who, date>> : params \in {p \in Params(who) : Opens(k, u, date, p)}} :
                k \in Kinds, u \in Units, who \in Signers, date \in Dates}
TakersOf(k, u) == {<<claim[3], claim[4]>> : claim \in {c \in Takers : c[1] = k /\ c[2] = u}}

(* A claim.  With both signatures a channel may pay a part and return the  *)
(* rest to its own address.                                                *)
Claim ==
    \E c \in DOMAIN coins, claim \in TakersOf(kind, unit) :
        LET who  == claim[1]
            date == claim[2]
        IN
        /\ coins[c].spent = Unspent
        /\ Past(ClaimTx(date).lock)
        /\ \E rest \in {<<>>} \cup (IF Channel /\ Len(who) = 2 /\ Len(coins) < MaxCoins
                                    THEN {<<[confirmed |-> 0, spent |-> Unspent]>>} ELSE {}) :
             coins' = [coins EXCEPT ![c].spent =
                            [signers |-> who, height |-> height, time |-> time]] \o rest
        /\ NoFault /\ UNCHANGED <<chainVars, walletVars>>

-----------------------------------------------------------------------------
(* The wallet *)

(* produceSimpleTime, producePaymentChannel, ...: the funding transaction  *)
(* is broadcast.  If the answer is lost the function raises, and nothing   *)
(* is recorded.  A channel may be loaded again.                            *)
Produce ==
    /\ pending = 0
    /\ Len(coins) < MaxCoins
    /\ coins # <<>> => Channel
    /\ coins' = Append(coins, [confirmed |-> 0, spent |-> Unspent])
    /\ \/ pending' = Len(coins) + 1 /\ NoFault
       \/ pending' = 0 /\ Fault("answer")
    /\ UNCHANGED <<chainVars, record, object, file, check>>

(* saveScript merges the payload into a new object: what is known of an    *)
(* earlier funding stays but for the output and the status.                *)
MergedUnfunded == [record EXCEPT !.coin = pending]
Merged == [status |-> "funded", coin |-> pending, confirmed |-> record.confirmed]
SaveScript ==
    /\ pending # 0
    /\ record' = Merged
    /\ object' = object + 1
    /\ \/ file' = record' /\ NoFault
       \/ file' = file /\ Fault("disk")
    /\ pending' = 0
    /\ UNCHANGED <<chainVars, coins, check>>

(* _handleP2SHNotification, up to the answers of its queries.  An answer   *)
(* of None is taken for an empty list.                                     *)
CheckBegins ==
    /\ check = NoCheck
    /\ record # NoScript
    /\ \/ /\ check' = [object |-> object, script |-> record,
                       present |-> coins[record.coin].spent = Unspent,
                       height |-> coins[record.coin].confirmed]
          /\ NoFault
       \/ /\ check' = [object |-> object, script |-> record, present |-> FALSE, height |-> 0]
          /\ Fault("query")
    /\ UNCHANGED <<chainVars, coins, record, object, file, pending>>

UpdatedUnconfirmed(c) ==
    IF ~ c.present THEN [c.script EXCEPT !.status = "spent"]
    ELSE IF c.script.status = "funded"
    THEN [c.script EXCEPT !.status = "active", !.confirmed = c.height]
    ELSE c.script
Updated(c) ==
    IF ~ c.present THEN [c.script EXCEPT !.status = "spent"]
    ELSE IF c.script.status = "funded"
    THEN [c.script EXCEPT !.status = "active",
                          !.confirmed = IF c.height > 0 THEN c.height ELSE @]
    ELSE c.script

(* The rest of it: the update goes to the object the handler holds, and    *)
(* the scripts are saved if the status changed.                            *)
CheckEndsLate ==
    /\ check # NoCheck
    /\ record' = [record EXCEPT !.status = Updated(check).status]
    /\ file' = record'
    /\ check' = NoCheck
    /\ NoFault
    /\ UNCHANGED <<chainVars, coins, object, pending>>
CheckEnds ==
    /\ check # NoCheck
    /\ record' = IF check.object = object THEN Updated(check) ELSE record
    /\ IF Updated(check).status = check.script.status THEN file' = file /\ NoFault
       ELSE \/ file' = record' /\ NoFault
            \/ file' = file /\ Fault("disk")
    /\ check' = NoCheck
    /\ UNCHANGED <<chainVars, coins, object, pending>>

(* The wallet stops at any point and loads the file when it starts again.  *)
Crash ==
    /\ Fault("crash")
    /\ record' = file
    /\ object' = object + 1
    /\ pending' = 0 /\ check' = NoCheck
    /\ UNCHANGED <<chainVars, coins, file>>

Next == NextBlock \/ Claim \/ Produce \/ SaveScript \/ CheckBegins \/ CheckEnds \/ Crash

Spec == Init /\ [][Next]_vars

-----------------------------------------------------------------------------
(* Properties *)

TypeOK ==
    /\ kind \in Kinds /\ unit \in Units
    /\ height \in 0..MaxHeight /\ time \in 0..MaxTime
    /\ Len(coins) <= MaxCoins
    /\ \A i \in DOMAIN coins : coins[i].confirmed \in 0..height
    /\ {record, file} \subseteq
          {NoScript} \cup [status : Statuses, coin : DOMAIN coins, confirmed : {NotKnown} \cup 0..height]
    /\ pending \in {0} \cup DOMAIN coins
    /\ faults \in 0..MaxFaults

(* Who may take the funds, and from when on: the docstrings of the lock    *)
(* functions.                                                              *)
Share(who, release, date) == [who |-> who, release |-> release, date |-> date]
Shares(k, u) ==
    CASE k = "simpleTime" ->
            {Share(<<"immediate">>, 0, NoDate), Share(<<"delayed1">>, 1, Moment(u, Middle))}
      [] k = "multiTime" ->
            {Share(<<"immediate">>, 0, NoDate), Share(<<"delayed1">>, 1, Moment(u, Early)),
             Share(<<"delayed2">>, 2, Moment(u, Middle)),
             Share(<<"delayed3">>, 3, Moment(u, Late))}
      [] k = "multiTimeMultisig" ->
            {Share(<<"immediate">>, 0, NoDate), Share(Committee, 1, NoDate),
             Share(<<"delayed1">>, 2, Moment(u, Early)),
             Share(<<"delayed2">>, 3, Moment(u, Late))}
      [] k = "paymentChannelExpiring" ->
            {Share(Parties, 0, NoDate), Share(<<"sender">>, 0, Moment(u, Late))}
      [] k \in {"paymentChannel", "basicMultisig"} -> {Share(Parties, 0, NoDate)}
ParamsOf(k, share) ==
    CASE k = "simpleTime" -> unlockSimpleTime(share.who[1], share.release)
      [] k = "multiTime" -> unlockMultiTime(share.who[1], share.release)
      [] k = "multiTimeMultisig" -> unlockMultiTimeMultisig(share.who, share.release)
      [] k \in {"paymentChannel", "paymentChannelExpiring"} -> unlockPaymentChannel(share.who)
      [] k = "basicMultisig" -> multisig2Of2(share.who)
Served ==
    UNION {{<<k, u, share>> : share \in {s \in Shares(k, u) :
                Opens(k, u, s.date, ParamsOf(k, s))}} : k \in Kinds, u \in Units}

(* Whoever took an output had a share in it, and its moment had come:      *)
(* with whatever parameters, signatures and lock times the parties tried.  *)
DelayRespected ==
    \A i \in DOMAIN coins : coins[i].spent # Unspent =>
        \E share \in Shares(kind, unit) :
            /\ \A k \in DOMAIN share.who : \E j \in DOMAIN coins[i].spent.signers :
                    coins[i].spent.signers[j] = share.who[k]
            /\ \/ share.date.kind = "blocks" /\ share.date.n <= coins[i].spent.height
               \/ share.date.kind = "time" /\ share.date.n < coins[i].spent.time

(* Whoever has a share gets it when its moment has come, with the          *)
(* parameters that the unlock module makes for it and the moment as the    *)
(* date of the claim: no funds are locked for good.  (The recall of a      *)
(* paymentChannel is no share here: see RecallWorks.)                      *)
ClaimsWork ==
    \A share \in Shares(kind, unit) :
        Past(share.date) =>
            <<kind, unit, share>> \in Served /\ Past(ClaimTx(share.date).lock)

(* An output that the wallet calls spent is spent, although the status is  *)
(* written by a handler that asked before another thread recorded a new    *)
(* funding, or before a restart; unless a query failed.                    *)
SpentMeansGone ==
    record.status = "spent" /\ "query" \notin failures => coins[record.coin].spent # Unspent

(* What is recorded survives a crash at any point, unless the file could   *)
(* not be written: the file is never behind the record.                    *)
SurvivesCrash == "disk" \notin failures => file = record

(* The record, in memory and in the file, tells what is on the chain.      *)
RecordIsTrue == SpentMeansGone /\ SurvivesCrash

(* isRecallAvailable for a lock in blocks.                                 *)
RecallAvailable ==
    CASE kind = "paymentChannel" ->
            record.confirmed # NotKnown /\ height >= record.confirmed + Delay
      [] kind = "paymentChannelExpiring" ->
            record # NoScript /\ unit = "blocks" /\ height >= Late
      [] kind \notin {"paymentChannel", "paymentChannelExpiring"} -> FALSE

(* When the wallet says that the sender can recall a channel, the lock is  *)
(* over on the chain, for the output it has recorded; unless the channel   *)
(* was loaded more than once.                                              *)
LockOver ==
    IF kind = "paymentChannel"
    THEN coins[record.coin].confirmed # 0 /\ height + 1 >= coins[record.coin].confirmed + Delay
    ELSE Past(Moment(unit, Late))
RecallWindow == RecallAvailable /\ record.coin = 1 => LockOver

(* "check if the sender recall path is spendable for a script"             *)
(* (wallet.py:428): while an output is there, the sender's signature and   *)
(* one of the dates a claim can be given are enough.                       *)
RecallWorks ==
    RecallAvailable /\ coins[record.coin].spent = Unspent =>
        \E date \in Dates :
            Past(ClaimTx(date).lock) /\ Opens(kind, unit, date, unlockPaymentChannel(<<"sender">>))
=============================================================================
