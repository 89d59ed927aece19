------------------------------ MODULE Offramp -------------------------------
(***************************************************************************)
(* The off-ramp pipeline of offramp.service.ts.  A user deposits crypto    *)
(* on-chain and posts the deposit's hash (sellCrypto); the partner screens *)
(* the deposit and notifies the webhook; the webhook sells the crypto for  *)
(* fiat at the partner; the partner settles the sale and notifies the      *)
(* webhook again.  Each HTTP request is a job of the one Node process, and *)
(* jobs interleave wherever the code awaits a call: the pc of a job names  *)
(* the call it is about to make or to return from.                         *)
(*   The REST interface of transactions.controller.ts writes this table,   *)
(* too, and accepts any status of any transaction (TransactionApi), and so *)
(* does the Lambda (OfframpLambda).  They are not part of this module:     *)
(* what is shown here supposes that nothing but the pipeline writes items  *)
(* of the pipeline's transactions.                                         *)
(***************************************************************************)
EXTENDS TransactionStore

CONSTANTS
    Handlers,   \* requests the process may have in progress at once
    Requests,   \* the redeem orders clients post: records of a txId and a hash
    Faults,     \* what may go wrong, a subset of FaultKinds
    MaxPosts,   \* bound: how often a client posts the same order
    MaxMishaps  \* bound: how many faults other than overlaps happen

(* overlap: a deposit is notified again while a notification of it is      *)
(* still being handled.  crash: the process restarts and forgets its jobs. *)
(* lostResponse: the partner sells but its answer never arrives.           *)
(* putError: DynamoDB rejects a write.  staleRead: a scan misses an item.   *)
FaultKinds == {"overlap", "crash", "lostResponse", "putError", "staleRead"}

(* What the partner decides of a deposit or a sale, in the words of        *)
(* TransactionStatus: COMPLETED, FAILED, and CANCELLED or EXPIRED, which   *)
(* the handlers know no branch for; CREATED and PROCESSING are pending.    *)
Verdicts == {"completed", "failed", "cancelled"}

ASSUME OfframpAssumption ==
    /\ Requests \subseteq [txId : TxIds, hash : Hashes]
    /\ MaxPosts \in Nat
    /\ MaxMishaps \in Nat
    /\ Faults \subseteq FaultKinds

VARIABLES
    job,        \* the request each handler is working on
    posts,      \* how often each order was posted
    mishaps,    \* how many faults have happened
    screening,  \* the partner's verdict on each deposit
    stage,      \* the partner's state of each sale
    origin      \* the item whose reading led to the sale (history)

partnerVars == <<screening, stage, origin>>
vars == <<rows, replica, clock, job, posts, mishaps, screening, stage, origin>>

Idle == [kind |-> "none", pc |-> "idle", hash |-> None, verdict |-> "none",
         snap |-> None, sale |-> None, row |-> None]

Job == [kind    : {"none", "post", "deposit", "fiat"},
        pc      : {"idle", "read", "amlFailed", "balance", "details", "sell",
                   "sold", "settle", "put"},
        hash    : Hashes \cup {None},
        verdict : Verdicts \cup {"none", "pending"},
        snap    : Row \cup {None},
        sale    : Sales \cup {None},
        row     : Row \cup {None}]

TypeOK ==
    /\ StoreTypeOK
    /\ job \in [Handlers -> Job]
    /\ posts \in [Requests -> 0..MaxPosts]
    /\ mishaps \in 0..MaxMishaps
    /\ screening \in [Hashes -> Verdicts \cup {"pending"}]
    /\ stage \in [Sales -> Verdicts \cup {"unsold", "pending"}]
    /\ origin \in [Sales -> Row \cup {None}]

Init ==
    /\ StoreInit
    /\ job = [h \in Handlers |-> Idle]
    /\ posts = [q \in Requests |-> 0]
    /\ mishaps = 0
    /\ screening = [x \in Hashes |-> "pending"]
    /\ stage = [s \in Sales |-> "unsold"]
    /\ origin = [s \in Sales |-> None]

-----------------------------------------------------------------------------
(* The end of a request: an answer or an exception, both of which leave    *)
(* nothing behind in the process.                                          *)
Answer(h) == job' = [job EXCEPT ![h] = Idle]

Mishap(kind) ==
    /\ kind \in Faults
    /\ mishaps < MaxMishaps
    /\ mishaps' = mishaps + 1

(* A scan served by the current items, or, as a fault, by an older copy.   *)
Scan(view) ==
    \/ view = rows /\ UNCHANGED mishaps
    \/ view \in Views \ {rows} /\ Mishap("staleRead")

At(h, kind, pc) == job[h].kind = kind /\ job[h].pc = pc

(* createUserTransaction up to its await: the item is stamped and sent.    *)
Send(h, item) ==
    \E now \in Now :
        /\ clock' = now
        /\ job' = [job EXCEPT ![h].pc = "put",
                              ![h].row = [item EXCEPT !.at = now]]
        /\ UNCHANGED <<rows, replica, posts, mishaps, partnerVars>>

(* The PutItem takes effect in the table and the request is answered.      *)
Commit(h) ==
    /\ job[h].pc = "put"
    /\ PutItem(job[h].row)
    /\ Answer(h)
    /\ UNCHANGED <<clock, posts, mishaps, partnerVars>>

(* The PutItem is rejected: the exception ends the request.                *)
PutError(h) ==
    /\ job[h].pc = "put"
    /\ Mishap("putError")
    /\ Answer(h)
    /\ UNCHANGED <<storeVars, posts, partnerVars>>

-----------------------------------------------------------------------------
(* sellCrypto, in production: the order's first item.                      *)
SellCrypto(h, q) ==
    /\ job[h] = Idle
    /\ posts[q] < MaxPosts
    /\ posts' = [posts EXCEPT ![q] = @ + 1]
    /\ \E now \in Now :
        /\ clock' = now
        /\ job' = [job EXCEPT ![h] =
                    [Idle EXCEPT !.kind = "post", !.pc = "put",
                        !.row = [txId |-> q.txId, hash |-> q.hash, bank |-> None,
                                 status |-> CryptoCompleted, at |-> now]]]
    /\ UNCHANGED <<rows, replica, mishaps, partnerVars>>

-----------------------------------------------------------------------------
(* The deposit webhook: webhookHandler, then cryptoTransactionHandler.     *)

Selling(g, x) == job[g].kind = "deposit" /\ job[g].hash = x

ReceiveDeposit(h, x) ==
    /\ job[h] = Idle
    /\ "overlap" \in Faults \/ \A g \in Handlers : ~Selling(g, x)
    /\ job' = [job EXCEPT ![h] =
                [Idle EXCEPT !.kind = "deposit", !.pc = "read",
                             !.hash = x, !.verdict = screening[x]]]
    /\ UNCHANGED <<storeVars, posts, mishaps, partnerVars>>

(* Faulty variant: the status of the item found is not looked at.          *)
OrderAwaitsAnyStatus(item) == item # None

OrderAwaits(item) == item # None /\ item.status = CryptoCompleted

(* getTransactionByTxnHash returns and the handler chooses its branch: 404 *)
(* when there is no item, nothing when the item or the notification has    *)
(* another status.                                                         *)
ReadByHash(h) ==
    /\ At(h, "deposit", "read")
    /\ \E view \in Views : \E item \in getTransactionByTxnHash(view, job[h].hash) :
        /\ Scan(view)
        /\ \/ /\ ~OrderAwaits(item) \/ job[h].verdict \in {"pending", "cancelled"}
              /\ Answer(h)
           \/ /\ OrderAwaits(item)
              /\ job[h].verdict = "failed"
              /\ job' = [job EXCEPT ![h].pc = "amlFailed", ![h].snap = item]
           \/ /\ OrderAwaits(item)
              /\ job[h].verdict = "completed"
              /\ job' = [job EXCEPT ![h].pc = "balance", ![h].snap = item]
    /\ UNCHANGED <<storeVars, posts, partnerVars>>

RecordAmlFailed(h) ==
    /\ At(h, "deposit", "amlFailed")
    /\ Send(h, [job[h].snap EXCEPT !.status = AmlFailed])

BalanceSuffices(h) ==
    /\ At(h, "deposit", "balance")
    /\ job' = [job EXCEPT ![h].pc = "details"]
    /\ UNCHANGED <<storeVars, posts, mishaps, partnerVars>>

DetailsFound(h) ==
    /\ At(h, "deposit", "details")
    /\ job' = [job EXCEPT ![h].pc = "sell"]
    /\ UNCHANGED <<storeVars, posts, mishaps, partnerVars>>

(* The partner accepts the sale and its answer reaches the handler, or is  *)
(* lost on the way.                                                        *)
SaleAccepted(h) ==
    /\ At(h, "deposit", "sell")
    /\ \E s \in Sales :
        /\ stage[s] = "unsold"
        /\ stage' = [stage EXCEPT ![s] = "pending"]
        /\ origin' = [origin EXCEPT ![s] = job[h].snap]
        /\ \/ /\ job' = [job EXCEPT ![h].pc = "sold", ![h].sale = s]
              /\ UNCHANGED mishaps
           \/ /\ Mishap("lostResponse")
              /\ Answer(h)
    /\ UNCHANGED <<storeVars, posts, screening>>

(* A sale answered with success = false leaves bankTransaction empty, and  *)
(* the handler goes on.                                                    *)
SaleRefused(h) ==
    /\ At(h, "deposit", "sell")
    /\ job' = [job EXCEPT ![h].pc = "sold"]
    /\ UNCHANGED <<storeVars, posts, mishaps, partnerVars>>

(* An insufficient balance is answered without a write, and a failing call *)
(* throws.  The order keeps the status it has.                             *)
GiveUp(h) ==
    /\ job[h].kind = "deposit"
    /\ job[h].pc \in {"balance", "details", "sell"}
    /\ Answer(h)
    /\ UNCHANGED <<storeVars, posts, mishaps, partnerVars>>

(* Faulty variant: the FIAT_INIT item does not carry the sale's id.        *)
SaleItemWithoutBank(j) ==
    [txId |-> j.snap.txId, hash |-> j.hash, bank |-> None,
     status |-> FiatInit, at |-> j.snap.at]

SaleItem(j) ==
    [txId |-> j.snap.txId, hash |-> j.hash, bank |-> j.sale,
     status |-> FiatInit, at |-> j.snap.at]

(* Faulty variant: marshall is told to leave undefined attributes out.     *)
MarshallsAny(item) == TRUE

(* marshall throws on an undefined attribute, and an empty bankTransaction *)
(* leaves the sale's id undefined.                                         *)
Marshalls(item) == item.bank # None

RecordSale(h) ==
    /\ At(h, "deposit", "sold")
    /\ \/ /\ Marshalls(SaleItem(job[h]))
          /\ Send(h, SaleItem(job[h]))
       \/ /\ ~Marshalls(SaleItem(job[h]))
          /\ Answer(h)
          /\ UNCHANGED <<storeVars, posts, mishaps, partnerVars>>

-----------------------------------------------------------------------------
(* The fiat webhook: webhookHandler, then fiatTransactionHandler.          *)

ReceiveFiat(h, s) ==
    /\ job[h] = Idle
    /\ stage[s] # "unsold"
    /\ job' = [job EXCEPT ![h] =
                [Idle EXCEPT !.kind = "fiat", !.pc = "read",
                             !.sale = s, !.verdict = stage[s]]]
    /\ UNCHANGED <<storeVars, posts, mishaps, partnerVars>>

SaleAwaits(item) == item # None /\ item.status = FiatInit

(* getTransactionByBankTxnId returns.  A notification that finds no        *)
(* FIAT_INIT item, or tells neither success nor failure, is dropped.       *)
ReadByBank(h) ==
    /\ At(h, "fiat", "read")
    /\ \E view \in Views : \E item \in getTransactionByBankTxnId(view, job[h].sale) :
        /\ Scan(view)
        /\ \/ /\ ~SaleAwaits(item) \/ job[h].verdict \in {"pending", "cancelled"}
              /\ Answer(h)
           \/ /\ SaleAwaits(item)
              /\ job[h].verdict \in {"completed", "failed"}
              /\ job' = [job EXCEPT ![h].pc = "settle", ![h].snap = item]
    /\ UNCHANGED <<storeVars, posts, partnerVars>>

(* Faulty variants: every notification is taken for a success, and the     *)
(* partner's word is stored as it came.                                    *)
AlwaysCompleted(verdict) == FiatCompleted
PartnerWord(verdict) == verdict

FiatOutcome(verdict) ==
    IF verdict = "completed" THEN FiatCompleted ELSE FiatFailed

RecordOutcome(h) ==
    /\ At(h, "fiat", "settle")
    /\ Send(h, [job[h].snap EXCEPT !.status = FiatOutcome(job[h].verdict)])

-----------------------------------------------------------------------------
(* The partner and the process around the handlers.                        *)

Screen(x) ==
    /\ screening[x] = "pending"
    /\ \E verdict \in Verdicts :
        screening' = [screening EXCEPT ![x] = verdict]
    /\ UNCHANGED <<storeVars, job, posts, mishaps, stage, origin>>

Settle(s) ==
    /\ stage[s] = "pending"
    /\ \E verdict \in Verdicts :
        stage' = [stage EXCEPT ![s] = verdict]
    /\ UNCHANGED <<storeVars, job, posts, mishaps, screening, origin>>

(* The task is restarted: requests in progress are forgotten.  A PutItem   *)
(* already sent may land, which is a Commit just before the crash.         *)
Crash ==
    /\ Mishap("crash")
    /\ job' = [h \in Handlers |-> Idle]
    /\ UNCHANGED <<storeVars, posts, partnerVars>>

ReplicaCatchesUp == Replicate /\ UNCHANGED <<job, posts, mishaps, partnerVars>>

(* What the process does next for a request in progress.                   *)
Step(h) ==
    \/ Commit(h)
    \/ PutError(h)
    \/ ReadByHash(h)
    \/ RecordAmlFailed(h)
    \/ BalanceSuffices(h)
    \/ DetailsFound(h)
    \/ SaleAccepted(h)
    \/ SaleRefused(h)
    \/ GiveUp(h)
    \/ RecordSale(h)
    \/ ReadByBank(h)
    \/ RecordOutcome(h)

Next ==
    \/ \E h \in Handlers :
        \/ Step(h)
        \/ \E q \in Requests : SellCrypto(h, q)
        \/ \E x \in Hashes : ReceiveDeposit(h, x)
        \/ \E s \in Sales : ReceiveFiat(h, s)
    \/ \E x \in Hashes : Screen(x)
    \/ \E s \in Sales : Settle(s)
    \/ Crash
    \/ ReplicaCatchesUp

Spec == Init /\ [][Next]_vars
-----------------------------------------------------------------------------
(* Properties.                                                             *)

Sold(s) == stage[s] # "unsold"

(* A sale is recorded when an item carries its id, and held while the      *)
(* handler that made it has yet to write that item.                        *)
Recorded(s) == \E r \in rows : r.bank = s
Held(s) == \E h \in Handlers : job[h].kind = "deposit" /\ job[h].sale = s

(* Whatever faults and interleavings occurred, the table never lies about  *)
(* the partner: an item with a sale's id is of the order that was sold, a  *)
(* final status is the partner's own verdict, and an AML failure is a      *)
(* deposit the partner rejected.                                           *)
RowTruthful(r) ==
    /\ r.bank = None <=> r.status \in {CryptoCompleted, AmlFailed}
    /\ r.status = AmlFailed => screening[r.hash] = "failed"
    /\ r.bank # None =>
        /\ Sold(r.bank)
        /\ origin[r.bank].txId = r.txId
        /\ origin[r.bank].hash = r.hash
        /\ screening[r.hash] = "completed"
    /\ r.status = FiatCompleted => stage[r.bank] = "completed"
    /\ r.status = FiatFailed => stage[r.bank] = "failed"

RowsTruthful == \A r \in rows : RowTruthful(r)

(* Every sale the partner accepted is in the table or about to be written. *)
(* Without faults no money leaves without a trace of it: the window        *)
(* between the sale and its FIAT_INIT item is all there is.                *)
SalesAccounted == \A s \in Sales : Sold(s) => Recorded(s) \/ Held(s)

(* A sale starts from a CRYPTO_COMPLETED item, and one such item leads to  *)
(* one sale: of two sales made from the same item, one was never recorded  *)
(* (its handler crashed, or its answer or its write was lost).  So an      *)
(* order is sold at most once per post.  The handler's only defence is the *)
(* status it read three awaits before it sells, so this needs deposits     *)
(* notified one at a time and reads that see every write.                  *)
NoDoubleSale ==
    /\ \A s \in Sales : Sold(s) => origin[s].status = CryptoCompleted
    /\ \A s, t \in Sales :
        s # t /\ Sold(s) /\ Sold(t) /\ origin[s] = origin[t]
            => \/ ~Recorded(s) /\ ~Held(s)
               \/ ~Recorded(t) /\ ~Held(t)

(* An order that is posted once is paid once: of two sales of one deposit, *)
(* one was never recorded and is not about to be, whichever items they     *)
(* were made from.                                                         *)
OneSalePerOrder ==
    \A s, t \in Sales :
        s # t /\ Sold(s) /\ Sold(t) /\ origin[s].hash = origin[t].hash
            => \/ ~Recorded(s) /\ ~Held(s)
               \/ ~Recorded(t) /\ ~Held(t)

(* The table is a history: while no two items of a transaction are stamped *)
(* in the same millisecond, no item is ever replaced or removed.           *)
AppendOnly == [][rows \subseteq rows']_vars

(* The status by hash, as getTransactionStatusByTxnHash reports it.        *)
CurrentStatuses(x) == {r.status : r \in Latest({q \in rows : q.hash = x})}

Rank == [st \in Statuses |->
            CASE st = CryptoCompleted -> 1
              [] st = FiatInit -> 2
              [] OTHER -> 3]

(* When an order is posted once, what the user sees never goes backwards:  *)
(* from CRYPTO_COMPLETED to FIAT_INIT to a final status, or to AML_FAILED. *)
StatusNeverRegresses ==
    [][\A x \in Hashes :
        \A before \in CurrentStatuses(x), after \in CurrentStatuses(x)' :
            before = after \/ Rank[before] < Rank[after]]_vars

(* Every await settles (the event loop runs and calls answer), the partner *)
(* keeps notifying what it decided, and each check it keeps being asked    *)
(* succeeds in the end.                                                    *)
Fairness ==
    /\ \A h \in Handlers :
        /\ WF_vars(Step(h))
        /\ SF_vars(BalanceSuffices(h))
        /\ SF_vars(DetailsFound(h))
        /\ SF_vars(SaleAccepted(h))
    /\ \A x \in Hashes :
        /\ WF_vars(Screen(x))
        /\ SF_vars(\E h \in Handlers : ReceiveDeposit(h, x))
    /\ \A s \in Sales :
        /\ WF_vars(Settle(s))
        /\ SF_vars(\E h \in Handlers : ReceiveFiat(h, s))

FairSpec == Spec /\ Fairness

(* The partner cancelled the deposit, or a sale that the table shows for   *)
(* it.  No handler records that: such an order stays at CRYPTO_COMPLETED,  *)
(* or at FIAT_INIT, however often it is notified.                          *)
Cancelled(x) ==
    \/ screening[x] = "cancelled"
    \/ \E r \in rows : r.hash = x /\ r.bank # None /\ stage[r.bank] = "cancelled"

(* Whatever state the requests before it left behind, an order in the      *)
(* table reaches a final status unless the partner cancelled it, as long   *)
(* as the partner repeats its notifications.  The code answers one that it *)
(* drops with success, so the repetition is the assumption to question.    *)
OrdersSettle ==
    \A x \in Hashes :
        (\E r \in rows : r.hash = x)
            ~> \/ CurrentStatuses(x) \cap {AmlFailed, FiatCompleted, FiatFailed} # {}
               \/ Cancelled(x)
=============================================================================
