-------------------------- MODULE TransactionStore --------------------------
(***************************************************************************)
(* The DynamoDB table <env>-Transaction-Status and the lookups that        *)
(* transactions.service.ts runs on it.  The table is keyed by the pair     *)
(* (txId, createdAt): every status change of a transaction is a new item,  *)
(* and the current status is whatever item is newest.  A PutItem whose     *)
(* key exists replaces that item, which happens when two writers stamp the *)
(* same transaction within one millisecond.  Reads are eventually          *)
(* consistent: replica is a copy of the table that may lag behind rows.    *)
(***************************************************************************)
EXTENDS Naturals

CONSTANTS
    TxIds,      \* identifiers the clients generate, one per redeem order
    Hashes,     \* hashes of on-chain deposit transactions
    Sales,      \* identifiers the partner gives the fiat sales it accepts
    None,       \* the DynamoDB NULL or an absent attribute; also "no item"
    Advance,    \* milliseconds that may pass between two readings of the clock
    Lag         \* TRUE when a read may miss recent writes

CryptoCompleted == "CRYPTO_COMPLETED"
AmlFailed       == "AML_FAILED"
FiatInit        == "FIAT_INIT"
FiatCompleted   == "FIAT_COMPLETED"
FiatFailed      == "FIAT_FAILED"

Statuses == {CryptoCompleted, AmlFailed, FiatInit, FiatCompleted, FiatFailed}

Row == [txId   : TxIds,
        hash   : Hashes \cup {None},
        bank   : Sales \cup {None},
        status : Statuses,
        at     : Nat]

ASSUME StoreAssumption ==
    /\ None \notin TxIds \cup Hashes \cup Sales \cup Row
    /\ Advance \subseteq Nat
    /\ Lag \in BOOLEAN

VARIABLES
    rows,       \* the items of the table
    replica,    \* the items an eventually consistent read may still be served
    clock       \* the last value Date.now() returned

storeVars == <<rows, replica, clock>>

StoreTypeOK ==
    /\ rows \subseteq Row
    /\ replica \subseteq Row
    /\ clock \in Nat

StoreInit ==
    /\ rows = {}
    /\ replica = {}
    /\ clock = 0

-----------------------------------------------------------------------------
(* Faulty variant: the table keyed by txId alone, one item per order.      *)
PutByTxId(table, row) ==
    {r \in table : r.txId # row.txId} \cup {row}

Put(table, row) ==
    {r \in table : r.txId # row.txId \/ r.at # row.at} \cup {row}

(* Date.now(): the values the next reading of the clock may return.        *)
Now == {clock + d : d \in Advance}

PutItem(row) ==
    /\ rows' = Put(rows, row)
    /\ replica' = IF Lag THEN replica ELSE Put(replica, row)

(* One written item reaches the replica the reads are served from.         *)
Replicate ==
    /\ \E r \in rows \ replica : replica' = Put(replica, r)
    /\ UNCHANGED <<rows, clock>>

(* What a scan may return before its filter: the items of each transaction *)
(* come from one of the two copies.                                        *)
Views ==
    {{r \in rows : r.txId \in fresh} \cup {r \in replica : r.txId \notin fresh} :
        fresh \in SUBSET TxIds}

-----------------------------------------------------------------------------
(* Faulty variant: sorted the wrong way round.                             *)
Oldest(items) == {r \in items : \A q \in items : r.at <= q.at}

(* .sort((a, b) => b.createdAt - a.createdAt)[0]: any of the newest items, *)
(* since the order in which a scan returns equal stamps is not defined.    *)
Latest(items) == {r \in items : \A q \in items : q.at <= r.at}

(* The result of a lookup over the filtered items, None standing for {}.   *)
Lookup(items) == IF items = {} THEN {None} ELSE Latest(items)

getTransactionByTxnHash(table, hash) == Lookup({r \in table : r.hash = hash})

getTransactionByBankTxnId(table, bank) == Lookup({r \in table : r.bank = bank})
=============================================================================
