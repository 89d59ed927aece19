---------------------------- MODULE PaymentHistory ----------------------------
(***************************************************************************)
(* The two histories a user is shown, as functions of what a call returns: *)
(* getUserFiatTransactions of transactions.service.ts on one page of a     *)
(* scan of the transaction table, and getUserTransactions of               *)
(* offramp.service.ts on the transfers the chain's indexer lists.  Both    *)
(* take their input as a sequence in the order it was received.            *)
(***************************************************************************)
EXTENDS Integers, Sequences, FiniteSets

(* The values of s at the indexes D, sorted by key: an index takes the     *)
(* place that counts those up to it.  Equal keys keep their order, as they *)
(* do in Array.prototype.sort.                                             *)
UpTo(i, D, key) == {j \in D : key[j] < key[i] \/ (key[j] = key[i] /\ j <= i)}

SortBy(s, D, key) ==
    LET places == {<<i, Cardinality(UpTo(i, D, key))>> : i \in D}
    IN  [k \in 1..Cardinality(D) |-> s[CHOOSE i \in D : <<i, k>> \in places]]

Filter(s, D) == SortBy(s, D, [i \in D |-> 0])
OldestFirst(s, D) == SortBy(s, D, [i \in D |-> s[i].at])
NewestFirst(s, D) == SortBy(s, D, [i \in D |-> -s[i].at])

-----------------------------------------------------------------------------
(* new Map(items.map(item => [item.txId, item])): a transaction keeps the  *)
(* place of its first item and takes the value of its last.                *)
SameTx(a, b) == a.txId = b.txId
MapPlaces(items) ==
    {i \in DOMAIN items : ~\E j \in DOMAIN items : j < i /\ SameTx(items[j], items[i])}
LastOf(items, i) ==
    CHOOSE l \in DOMAIN items :
        /\ SameTx(items[l], items[i])
        /\ ~\E j \in DOMAIN items : j > l /\ SameTx(items[j], items[i])
MapValues(items) == [i \in DOMAIN items |-> items[LastOf(items, i)]]

OfUser(page, user) == {i \in DOMAIN page : page[i].user = user}

(* Faulty variant: the items are not sorted before the map is built.       *)
getUserFiatTransactionsUnsorted(page, user) ==
    LET items == Filter(page, OfUser(page, user))
    IN  NewestFirst(MapValues(items), MapPlaces(items))

getUserFiatTransactions(page, user) ==
    LET items == OldestFirst(page, OfUser(page, user))
    IN  NewestFirst(MapValues(items), MapPlaces(items))

-----------------------------------------------------------------------------
(* What the first transfer of a transaction on the chain is shown as: its  *)
(* direction and the address at its other end (the code reads no other).   *)
(* For one of nothing the code returns undefined: see getUserTransactions. *)
returnCryptoTxn(item) ==
    [hash    |-> item.hash,
     type    |-> IF item.dir = "IN" THEN "DEPOSIT" ELSE "WITHDRAW",
     address |-> item.peer,
     at      |-> item.at]

ToDepositAddress(txn, address) == txn.type = "WITHDRAW" /\ txn.address = address

(* Faulty variant: the user's view keeps the deposits only.                *)
InViewByType(txn, view, address) ==
    IF view = "withdrawal" THEN ToDepositAddress(txn, address) ELSE txn.type = "DEPOSIT"

InView(txn, view, address) == ToDepositAddress(txn, address) <=> view = "withdrawal"

(* The transfers of something in one view, newest first.  address is the   *)
(* user's deposit address as this call was told it, or unknown when the    *)
(* partner's answer has none or is an error: then the view is not filtered.*)
(* The code filters the sorted list, which keeps its order.                *)
getUserTransactions(page, view, address, unknown) ==
    LET txns == [i \in DOMAIN page |-> returnCryptoTxn(page[i])]
    IN  NewestFirst(txns, {i \in DOMAIN page :
            /\ page[i].delta > 0
            /\ address = unknown \/ InView(txns[i], view, address)})
=============================================================================
