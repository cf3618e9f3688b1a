---------------------------- MODULE LockScripts ----------------------------
(***************************************************************************)
(* The locking scripts of satorilib/wallet/evrmore/scripts and the         *)
(* parameters that unlock them, with as much of the chain's script         *)
(* machine as they use.                                                    *)
(*                                                                         *)
(* A script is a sequence of steps, its data are numbers, keys and         *)
(* signatures.  A signature is valid: it stands for the key that made it,  *)
(* and for the one transaction that carries it.                            *)
(***************************************************************************)
EXTENDS Integers, Sequences, FiniteSets, SequencesExt

CONSTANTS
    Early, Middle, Late,  \* three moments, each in blocks and in time
    Delay                 \* the relative lock of a channel, in blocks

ASSUME MomentsAscend == {Early, Middle, Late, Delay} \subseteq Nat /\ 0 < Early
                            /\ Early < Middle /\ Middle < Late /\ 0 < Delay

-----------------------------------------------------------------------------
(* Scripts *)

Datum(type, of, n) == [op |-> "push", kind |-> type, of |-> of, n |-> n]
Num(n)   == Datum("num", "nobody", n)
Key(who) == Datum("key", who, 0)
Sig(who) == Datum("sig", who, 0)
Moment(u, n) == Datum(u, "nobody", n)
Units == {"blocks", "time"}
Op(name) == [op |-> name, kind |-> "none", of |-> "nobody", n |-> 0]

TRUE1  == Num(1)
FALSE0 == Num(0)

If(then, else) == <<Op("IF")>> \o then \o <<Op("ELSE")>> \o else \o <<Op("ENDIF")>>
Signed(who)    == <<Key(who), Op("CHECKSIG")>>
After(u, n, who) == <<Moment(u, n), Op("CLTV"), Op("DROP")>> \o Signed(who)
AllOf(who) ==
    <<Num(Len(who))>> \o [i \in DOMAIN who |-> Key(who[i])]
        \o <<Num(Len(who)), Op("CHECKMULTISIG")>>

(* scripts/mining/lock.py; u says whether use_blocks was given.         *)
simpleTime(u) == If(After(u, Middle, "delayed1"), Signed("immediate"))
multiTimeSwapped(u) ==
    If(If(After(u, Late, "delayed3"), After(u, Early, "delayed2")),
       If(After(u, Middle, "delayed1"), Signed("immediate")))
multiTime(u) ==
    If(If(After(u, Late, "delayed3"), After(u, Middle, "delayed2")),
       If(After(u, Early, "delayed1"), Signed("immediate")))
Committee == <<"multi1", "multi2", "multi3", "multi4", "multi5">>
multiTimeMultisig(u) ==
    If(If(After(u, Late, "delayed2"), After(u, Early, "delayed1")),
       If(AllOf(Committee), Signed("immediate")))

(* scripts/channels/lock.py.                                               *)
Parties == <<"sender", "receiver">>
paymentChannel ==
    If(AllOf(Parties), <<Num(Delay), Op("CSV"), Op("DROP")>> \o Signed("sender"))
paymentChannelExpiring(u) == If(AllOf(Parties), After(u, Late, "sender"))

(* scripts/multisig/lock.py.                                               *)
basicMultisig == AllOf(Parties)

Kinds == {"simpleTime", "multiTime", "multiTimeMultisig", "paymentChannel",
          "paymentChannelExpiring", "basicMultisig"}
Script(k, u) ==
    CASE k = "simpleTime"             -> simpleTime(u)
      [] k = "multiTime"              -> multiTime(u)
      [] k = "multiTimeMultisig"      -> multiTimeMultisig(u)
      [] k = "paymentChannel"         -> paymentChannel
      [] k = "paymentChannelExpiring" -> paymentChannelExpiring(u)
      [] k = "basicMultisig"          -> basicMultisig

-----------------------------------------------------------------------------
(* What unlocks them: scripts/mining/unlock.py, scripts/channels/unlock.py *)
(* and scripts/multisig/unlock.py                                          *)

Sigs(who) == [i \in DOMAIN who |-> Sig(who[i])]

unlockSimpleTime(who, timedRelease) ==
    <<Sig(who)>> \o IF timedRelease = 1 THEN <<TRUE1>> ELSE <<FALSE0>>
unlockMultiTime(who, timedRelease) ==
    <<Sig(who)>> \o CASE timedRelease = 3 -> <<TRUE1, TRUE1>>
                      [] timedRelease = 2 -> <<FALSE0, TRUE1>>
                      [] timedRelease = 1 -> <<TRUE1, FALSE0>>
                      [] timedRelease = 0 -> <<FALSE0, FALSE0>>
unlockMultiTimeMultisig(who, timedRelease) ==
    CASE timedRelease = 3 -> <<Sig(who[1]), TRUE1, TRUE1>>
      [] timedRelease = 2 -> <<Sig(who[1]), FALSE0, TRUE1>>
      [] timedRelease = 1 -> <<Num(0)>> \o Sigs(who) \o <<TRUE1, FALSE0>>
      [] timedRelease = 0 -> <<Sig(who[1]), FALSE0, FALSE0>>
unlockPaymentChannel(who) ==
    IF Len(who) = 2 THEN <<Num(0)>> \o Sigs(who) \o <<TRUE1>> ELSE <<Sig(who[1]), FALSE0>>
multisig2Of2(who) == <<Num(0)>> \o Sigs(who)

-----------------------------------------------------------------------------
(* The script machine.  stack grows to the right; taking holds, for each   *)
(* IF that is open, whether its current branch is executed.                *)

Top(s, k)  == s[Len(s) - k]
Pop(s, k)  == SubSeq(s, 1, Len(s) - k)
Truthy(d)  == d.kind # "num" \/ d.n # 0
Bool(b)    == IF b THEN TRUE1 ELSE FALSE0
Fails(m)   == [m EXCEPT !.ok = FALSE]
Running(m) == \A i \in DOMAIN m.taking : m.taking[i]

(* Signatures are matched with keys in the order of the script; every      *)
(* script here asks for as many as it has keys.                            *)
InOrder(sigs, keys) ==
    /\ Len(sigs) = Len(keys)
    /\ \A i \in DOMAIN sigs : sigs[i].kind = "sig" /\ sigs[i].of = keys[i].of

CheckMultisig(m) ==
    LET n    == Top(m.stack, 0).n
        q    == Top(m.stack, n + 1).n
        keys == SubSeq(m.stack, Len(m.stack) - n, Len(m.stack) - 1)
        sigs == SubSeq(m.stack, Len(m.stack) - n - 1 - q, Len(m.stack) - n - 2)
    IN  IF Len(m.stack) < n + 2 \/ Len(m.stack) < n + q + 3 THEN Fails(m)
        ELSE [m EXCEPT !.stack = Pop(@, n + q + 3) \o <<Bool(InOrder(sigs, keys))>>]

(* One step of a script, in the input of a transaction that has a lock     *)
(* time and, in this input, a sequence number: "final" (0xFFFFFFFF),       *)
(* "open" (0xFFFFFFFE), or [the number of blocks of a relative lock].      *)
Execute(m, step, tx, sequence) ==
    CASE step.op = "IF" /\ ~ Running(m) -> [m EXCEPT !.taking = Append(@, FALSE)]
      [] step.op = "IF" /\ Running(m) ->
            IF m.stack = <<>> THEN Fails(m)
            ELSE [m EXCEPT !.taking = Append(@, Truthy(Top(m.stack, 0))),
                           !.stack = Pop(@, 1)]
      [] step.op = "ELSE" -> [m EXCEPT !.taking[Len(m.taking)] = ~ @]
      [] step.op = "ENDIF" -> [m EXCEPT !.taking = Pop(@, 1)]
      [] step.op \notin {"IF", "ELSE", "ENDIF"} /\ ~ Running(m) -> m
      [] step.op = "push" /\ Running(m) -> [m EXCEPT !.stack = Append(@, step)]
      [] step.op = "DROP" /\ Running(m) ->
            IF m.stack = <<>> THEN Fails(m) ELSE [m EXCEPT !.stack = Pop(@, 1)]
      [] step.op = "CLTV" /\ Running(m) ->
            IF /\ sequence # "final"
               /\ tx.lock.kind = Top(m.stack, 0).kind /\ tx.lock.n >= Top(m.stack, 0).n
            THEN m ELSE Fails(m)
      [] step.op = "CSV" /\ Running(m) ->
            IF tx.version >= 2 /\ sequence = "relative" /\ tx.relative >= Top(m.stack, 0).n
            THEN m ELSE Fails(m)
      [] step.op = "CHECKSIG" /\ Running(m) ->
            IF Len(m.stack) < 2 THEN Fails(m)
            ELSE [m EXCEPT !.stack = Pop(@, 2) \o
                    <<Bool(Top(m.stack, 1).kind = "sig" /\ Top(m.stack, 1).of = Top(m.stack, 0).of)>>]
      [] step.op = "CHECKMULTISIG" /\ Running(m) -> CheckMultisig(m)

(* After a step that fails nothing happens.                                *)
Advance(m, step, tx, sequence) == IF m.ok THEN Execute(m, step, tx, sequence) ELSE m
Run(m, script, tx, sequence) ==
    LET ran[i \in 0..Len(script)] ==
            IF i = 0 THEN m ELSE Advance(ran[i - 1], script[i], tx, sequence)
    IN  ran[Len(script)]

(* The unlocking parameters are pushed, then the script runs; it succeeds  *)
(* with one true value left.                                               *)
Unlocks(params, script, tx, sequence) ==
    LET end == Run([stack |-> params, taking |-> <<>>, ok |-> TRUE], script, tx, sequence)
    IN  end.ok /\ Len(end.stack) = 1 /\ Truthy(Top(end.stack, 0))
=============================================================================
