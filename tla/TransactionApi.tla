---------------------------- MODULE TransactionApi ----------------------------
(***************************************************************************)
(* The REST interface of transactions.controller.ts over the transaction   *)
(* table: a client creates its transaction, updates it, and a webhook      *)
(* reports any status of it.  None of the three reads the table: each      *)
(* stamps a new item and awaits its write.  The status of an item is       *)
(* abstracted to the operation that wrote it.  The user and the hash are   *)
(* whatever the payload names: nothing compares them with the items there  *)
(* are.  A payload that lacks an attribute makes marshall throw before     *)
(* anything is sent; the answer is success: false and no state changes,    *)
(* so it is no action here.                                                *)
(***************************************************************************)
EXTENDS TransactionStore

CONSTANTS
    Users,
    Writers     \* requests that may be in progress at once

Item == [txId   : TxIds,
         user   : Users \cup {None},
         hash   : Hashes \cup {None},
         status : {"created", "updated", "reported"},
         at     : Nat]

ASSUME ApiAssumption == None \notin Users \cup Item

VARIABLES
    write,      \* the item each request has sent and awaits, or None
    late        \* the items sent by requests whose caller waits no longer

apiVars == <<rows, replica, clock, write, late>>

ApiTypeOK ==
    /\ rows \subseteq Item
    /\ replica \subseteq Item
    /\ clock \in Nat
    /\ write \in [Writers -> Item \cup {None}]
    /\ late \subseteq Item

ApiInit == StoreInit /\ write = [w \in Writers |-> None] /\ late = {}

Post(w, item) ==
    /\ write[w] = None
    /\ \E now \in Now :
        /\ clock' = now
        /\ write' = [write EXCEPT ![w] = [item EXCEPT !.at = now]]
    /\ UNCHANGED <<rows, replica, late>>

createUserTransaction(w, txId, user, hash) ==
    Post(w, [txId |-> txId, user |-> user, hash |-> hash, status |-> "created", at |-> 0])

(* A new item with the payload's attributes, initTime excepted.            *)
updateTransaction(w, txId, user, hash) ==
    Post(w, [txId |-> txId, user |-> user, hash |-> hash, status |-> "updated", at |-> 0])

(* Three attributes: the item names neither user nor hash.                 *)
sendTransactionStatus(w, txId) ==
    Post(w, [txId |-> txId, user |-> None, hash |-> None,
             status |-> "reported", at |-> 0])

Written(w) ==
    /\ write[w] # None
    /\ PutItem(write[w])
    /\ write' = [write EXCEPT ![w] = None]
    /\ UNCHANGED <<clock, late>>

(* The write is rejected, or the process restarts before it is sent.       *)
WriteFails(w) ==
    /\ write[w] # None
    /\ write' = [write EXCEPT ![w] = None]
    /\ UNCHANGED <<rows, replica, clock, late>>

(* The caller gives up, or its answer is lost, and the write goes on.      *)
Forsaken(w) ==
    /\ write[w] # None
    /\ late' = late \cup {write[w]}
    /\ write' = [write EXCEPT ![w] = None]
    /\ UNCHANGED <<rows, replica, clock>>

WrittenLate(item) ==
    /\ item \in late
    /\ PutItem(item)
    /\ late' = late \ {item}
    /\ UNCHANGED <<clock, write>>
=============================================================================
