------------------------------- MODULE Payments -------------------------------
(***************************************************************************)
(* A payment from end to end: the client asks the gas tank for gas, sends  *)
(* tokens from the user's wallet on the chain (or has a relayer send them, *)
(* gaslessTxn), records the transfer under a transaction id of its own,    *)
(* and updates the record; a webhook reports statuses at any time, and the *)
(* user looks at both histories.  The client is not in the repository: its *)
(* order of calls is the one the endpoints document.  Each client stands   *)
(* for one payment, and its name is the payment's transaction id.          *)
(***************************************************************************)
EXTENDS GasTank, TransactionApi, PaymentHistory, SequencesExt

CONSTANTS
    Hooks,          \* webhook requests, one status report each
    Addresses,      \* the other ends of the transfers on the chain
    Payees,         \* those the payments go to
    DepositAddress, \* the user's address at the partner, or None if unknown
    Earlier,        \* the transfers that precede the payments, oldest first
    PageSize,       \* how many items a page of a scan reads
    MaxFailures     \* bound: calls that throw, writes rejected or given up

Transfer == [wallet : Wallets, dir : {"IN", "OUT"}, peer : Addresses,
             delta  : {0, 1}, hash : Hashes, at : Nat]

ASSUME PaymentsAssumption ==
    /\ IsFiniteSet(Clients) /\ Earlier \in Seq(Transfer)
    /\ TxIds = Clients /\ Wallets = Users
    /\ Writers = Clients \cup Hooks /\ Clients \cap Hooks = {}
    /\ Hashes = 1 .. Cardinality(Clients) + Len(Earlier)
    /\ \A i \in DOMAIN Earlier : Earlier[i].hash = i  \* the indexer lists each hash once
    /\ DepositAddress \in Addresses \cup {None}
    /\ Payees \subseteq Addresses /\ None \notin Addresses
    /\ PageSize \in Nat \ {0} /\ MaxFailures \in Nat

VARIABLES
    phase,      \* how far each client, and each webhook request, is
    hashOf,     \* the hash of each client's transfer
    chain,      \* the token transfers of all users, oldest first
    failures    \* how many calls have failed

vars == <<gasVars, apiVars, phase, hashOf, chain, failures>>

TypeOK ==
    /\ GasTypeOK
    /\ ApiTypeOK
    /\ phase \in [Writers -> {"transfer", "create", "creating", "update", "updating", "done"}]
    /\ hashOf \in [Clients -> Hashes \cup {None}]
    /\ chain \in Seq(Transfer)
    /\ failures \in 0..MaxFailures

Init ==
    /\ GasInit
    /\ ApiInit
    /\ phase = [w \in Writers |-> IF w \in Clients THEN "transfer" ELSE "update"]
    /\ hashOf = [c \in Clients |-> None]
    /\ chain = Earlier
    /\ failures = 0

-----------------------------------------------------------------------------
Moves(w, from, to) == phase[w] = from /\ phase' = [phase EXCEPT ![w] = to]

Failure == failures < MaxFailures /\ failures' = failures + 1

(* Blocks follow one another, so no two transfers have the same time.      *)
Transferred(c, peer) ==
    /\ chain' = Append(chain, [wallet |-> WalletOf[c], dir |-> "OUT", peer |-> peer,
                               delta |-> 1, hash |-> Len(chain) + 1, at |-> Len(chain) + 1])
    /\ hashOf' = [hashOf EXCEPT ![c] = Len(chain) + 1]

AskForGas(c) ==
    /\ phase[c] = "transfer"
    /\ \/ GasStep(c) /\ UNCHANGED failures
       \/ GasCallThrows(c) /\ Failure
    /\ UNCHANGED <<apiVars, phase, hashOf, chain>>

TankMines == Mine /\ UNCHANGED <<apiVars, phase, hashOf, chain, failures>>

(* The wallet pays for its transfer.                                       *)
Pay(c, peer) ==
    /\ Moves(c, "transfer", "create")
    /\ Spend(c)
    /\ Transferred(c, peer)
    /\ UNCHANGED <<apiVars, failures>>

(* gaslessTxn: the request is forwarded and the relayer pays, for a client *)
(* that has no gas of its own.                                             *)
gaslessTxn(c, peer) ==
    /\ Moves(c, "transfer", "create")
    /\ ~Asking(c) /\ ~Granted(c)
    /\ Transferred(c, peer)
    /\ UNCHANGED <<gasVars, apiVars, failures>>

Create(c) ==
    /\ Moves(c, "create", "creating")
    /\ createUserTransaction(c, c, WalletOf[c], hashOf[c])
    /\ UNCHANGED <<gasVars, hashOf, chain, failures>>

Update(c) ==
    /\ Moves(c, "update", "updating")
    /\ updateTransaction(c, c, WalletOf[c], hashOf[c])
    /\ UNCHANGED <<gasVars, hashOf, chain, failures>>

(* A webhook reports a transfer there is.                                  *)
Report(h, c) ==
    /\ phase[c] # "transfer"
    /\ Moves(h, "update", "updating")
    /\ sendTransactionStatus(h, c)
    /\ UNCHANGED <<gasVars, hashOf, chain, failures>>

Acknowledged(w) ==
    /\ Moves(w, "creating", "update") \/ Moves(w, "updating", "done")
    /\ Written(w)
    /\ UNCHANGED <<gasVars, hashOf, chain, failures>>

(* An answer of success: false or none in time, after which the request is *)
(* made again; without an answer the first may still be carried out.       *)
Refused(w) ==
    /\ Moves(w, "creating", "create") \/ Moves(w, "updating", "update")
    /\ WriteFails(w) \/ Forsaken(w)
    /\ Failure
    /\ UNCHANGED <<gasVars, hashOf, chain>>

ArrivesLate ==
    /\ \E item \in late : WrittenLate(item)
    /\ UNCHANGED <<gasVars, phase, hashOf, chain, failures>>

Next ==
    \/ \E c \in Clients :
        \/ AskForGas(c) \/ Create(c) \/ Update(c)
        \/ \E a \in Payees : Pay(c, a) \/ gaslessTxn(c, a)
    \/ \E h \in Hooks, c \in Clients : Report(h, c)
    \/ \E w \in Writers : Acknowledged(w) \/ Refused(w)
    \/ TankMines \/ ArrivesLate

Spec == Init /\ [][Next]_vars

-----------------------------------------------------------------------------
(* What one page of a scan may hold: the whole table while it fits.        *)
Pages == IF Cardinality(rows) <= PageSize THEN {rows} ELSE kSubset(PageSize, rows)

(* getUserFiatTransactions answers, whatever the page and the order of its *)
(* items, each of the user's transactions in the page once, as its newest  *)
(* item there that names the user, and the newest transaction first.       *)
HistoryFaithful ==
    \A page \in Pages, user \in Users :
        LET mine    == {r \in page : r.user = user}
            answers == {getUserFiatTransactions(items, user) : items \in SetToSeqs(page)}
        IN  \A history \in answers :
                /\ ToSet(history) =
                        {r \in mine : \A q \in mine : q.txId = r.txId => q.at <= r.at}
                /\ Len(history) = Cardinality({r.txId : r \in mine})
                /\ \A i, j \in DOMAIN history : i < j => history[i].at >= history[j].at

(* What getTransactionStatusByTxnHash polls.  Once a client's creation has *)
(* been acknowledged, the lookup by the hash of its transfer finds its own *)
(* transaction, and once its update has been, the update: status reports,  *)
(* retries and writes that arrive late, in whatever order, hide neither.   *)
(* The scan is taken to see what was written: one served by a replica that *)
(* lags may miss it, and a write stamped in the same millisecond replaces  *)
(* an item (Advance has no 0).                                             *)
AcknowledgedShown ==
    \A c \in Clients : phase[c] \in {"update", "updating", "done"} =>
        \A r \in getTransactionByTxnHash(rows, hashOf[c]) :
            /\ r # None
            /\ r.txId = c /\ r.user = WalletOf[c]
            /\ phase[c] = "done" => r.status = "updated"

(* A user asks for the two views of its transfers in two calls, each of    *)
(* which asks the partner for the deposit address and shows everything     *)
(* when it gets none.  Whatever each is told, no transfer of something is  *)
(* missing from both views; each view shows a transfer once, the newest    *)
(* first; and no transfer is in both when both calls were told.  When only *)
(* one was, or neither, a transfer may be in both: the code allows it.     *)
ViewsComplete ==
    \A w \in Wallets :
        LET mine == Filter(chain, {i \in DOMAIN chain : chain[i].wallet = w})
            answers(kind) == {[told |-> address,
                               txns |-> getUserTransactions(mine, kind, address, None)] :
                                   address \in {DepositAddress, None}}
        IN  \A trade \in answers("user"), redeem \in answers("withdrawal") :
                /\ ToSet(trade.txns) \cup ToSet(redeem.txns) =
                        {returnCryptoTxn(t) : t \in {t \in ToSet(mine) : t.delta > 0}}
                /\ None \notin {trade.told, redeem.told} =>
                        ToSet(trade.txns) \cap ToSet(redeem.txns) = {}
                /\ \A txns \in {trade.txns, redeem.txns} :
                        /\ Len(txns) = Cardinality(ToSet(txns))
                        /\ \A i, j \in DOMAIN txns : i < j => txns[i].at >= txns[j].at
=============================================================================
