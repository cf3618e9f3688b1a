------------------------------ MODULE History ------------------------------
(***************************************************************************)
(* The table of one stream in the SQLite store (sqlite/sqlite_manager.py): *)
(* rows, keyed by their time, each with a hash over the hash before it and *)
(* the row.  A hash is the sequence of the times that went into it; the    *)
(* value of a row is left out, since a row is named by its time.           *)
(***************************************************************************)
EXTENDS Integers, Sequences, FiniteSets

CONSTANT Times

ASSUME TimesAreNumbers == Times \subseteq Nat \ {0} /\ IsFiniteSet(Times)

NoHash == <<0>>  \* the hash column is missing
Empty  == [t \in {} |-> <<>>]

hashIt(prior, t) == Append(prior, t)

InOrder(times) ==
    CHOOSE order \in [1..Cardinality(times) -> times] :
        \A i, j \in DOMAIN order : i < j => order[i] < order[j]

(* The table that a node has whose rows came in order, one by one.         *)
Chained(times) == [t \in times |-> InOrder({s \in times : s <= t})]

Latest(rows) == CHOOSE t \in DOMAIN rows : \A s \in DOMAIN rows : s <= t
getLastHash(rows) == IF rows = Empty THEN <<>> ELSE rows[Latest(rows)]

(* _addSubDataToDatabase: ts is the primary key, so a second row with its  *)
(* time is refused and nothing is left to broadcast.  A row without a hash *)
(* is chained to the row that is the latest then.                          *)
HashFor(rows, t, hash) == IF hash = NoHash THEN hashIt(getLastHash(rows), t) ELSE hash
With(rows, t, hash) == [s \in DOMAIN rows \cup {t} |-> IF s = t THEN hash ELSE rows[s]]
IsNew(rows, t) == t \notin DOMAIN rows
AddSub(rows, t, hash) == With(rows, t, HashFor(rows, t, hash))

(* _addDataframeToDatabase: a row that is there already is skipped; one    *)
(* whose time is taken by another fails, and the whole frame is rolled     *)
(* back, as is one without the required columns.                           *)
Fits(rows, frame) == \A t \in DOMAIN frame \cap DOMAIN rows : frame[t] = rows[t]
AddFrame(rows, frame) ==
    IF Fits(rows, frame) /\ \A t \in DOMAIN frame : frame[t] # NoHash
    THEN [t \in DOMAIN rows \cup DOMAIN frame |->
            IF t \in DOMAIN rows THEN rows[t] ELSE frame[t]]
    ELSE rows

(* blindMerge: the rows of both, of two with one time the new one, all     *)
(* hashed again from the first.                                            *)
blindMergeAppended(rows, times) ==
    [t \in DOMAIN rows \cup times |->
        IF t \in DOMAIN rows THEN rows[t] ELSE hashIt(getLastHash(rows), t)]
blindMerge(rows, times) == Chained(DOMAIN rows \cup times)

(* editTable and deleteTable.                                              *)
Without(rows, times) == [t \in DOMAIN rows \ times |-> rows[t]]

(* Every hash is over the row before it.                                   *)
Valid(rows) == rows = Chained(DOMAIN rows)
=============================================================================
