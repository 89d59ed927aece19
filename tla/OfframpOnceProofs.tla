------------------------- MODULE OfframpOnceProofs --------------------------
(***************************************************************************)
(* Proofs of the properties that need assumptions about the environment:   *)
(* a clock that moves between two stamps, and, for NoDoubleSale, deposits  *)
(* notified one at a time and reads that see every write.                  *)
(***************************************************************************)
EXTENDS OfframpProofs

StrictClock == 0 \notin Advance
OneAtATime == "overlap" \notin Faults /\ "staleRead" \notin Faults
NoFaults == Faults = {}

(* Every step stamps an item, commits one, or does neither.                *)
StampStep ==
    \E h \in Handlers : \E now \in Now :
        /\ clock' = now
        /\ rows' = rows
        /\ job'[h].pc = "put"
        /\ job'[h].row.at = now
        /\ \A g \in Handlers \ {h} : job'[g] = job[g]

QuietStep ==
    /\ clock' = clock
    /\ rows' = rows
    /\ \A g \in Handlers : job'[g].pc = "put" => job'[g] = job[g]

LEMMA SendStamps ==
    ASSUME TypeOK, NEW h \in Handlers, NEW item \in Row, Send(h, item)
    PROVE  StampStep
<1>1. PICK now \in Now :
        /\ clock' = now
        /\ job' = [job EXCEPT ![h].pc = "put",
                              ![h].row = [item EXCEPT !.at = now]]
        /\ UNCHANGED <<rows, replica, posts, mishaps, partnerVars>>
    BY DEF Send
<1>2. job[h] \in Job
    BY DEF TypeOK
<1>3. job'[h] = [job[h] EXCEPT !.pc = "put", !.row = [item EXCEPT !.at = now]]
    BY <1>1 DEF TypeOK
<1>4. job'[h].pc = "put" /\ job'[h].row = [item EXCEPT !.at = now]
    BY <1>2, <1>3 DEF Job
<1>5. job'[h].row.at = now
    BY <1>4 DEF Row
<1>6. \A g \in Handlers \ {h} : job'[g] = job[g]
    BY <1>1 DEF TypeOK
<1> QED
    BY <1>1, <1>4, <1>5, <1>6 DEF StampStep

LEMMA StepKinds ==
    ASSUME TruthInv, [Next]_vars
    PROVE  StampStep \/ QuietStep \/ \E h \in Handlers : Commit(h)
<1> USE DEF TruthInv
<1>1. ASSUME NEW h \in Handlers, NEW q \in Requests, SellCrypto(h, q)
      PROVE  StampStep
    <2>1. PICK now \in Now :
            /\ clock' = now
            /\ job' = [job EXCEPT ![h] =
                    [Idle EXCEPT !.kind = "post", !.pc = "put",
                        !.row = [txId |-> q.txId, hash |-> q.hash, bank |-> None,
                                 status |-> CryptoCompleted, at |-> now]]]
        BY <1>1 DEF SellCrypto
    <2>2. job'[h].pc = "put" /\ job'[h].row.at = now
        BY <2>1 DEF TypeOK, Idle
    <2>3. \A g \in Handlers \ {h} : job'[g] = job[g]
        BY <2>1 DEF TypeOK
    <2> QED
        BY <1>1, <2>1, <2>2, <2>3 DEF StampStep, SellCrypto
<1>2. ASSUME NEW h \in Handlers, RecordAmlFailed(h)
      PROVE  StampStep
    <2>1. [job[h].snap EXCEPT !.status = AmlFailed] \in Row
        BY <1>2 DEF RecordAmlFailed, At, TypeOK, JobTruthful, DepositTruthful,
            Idle, GoodRow, Row, Statuses
    <2> QED
        BY <1>2, <2>1, SendStamps DEF RecordAmlFailed
<1>5. ASSUME NEW h \in Handlers, Answer(h), UNCHANGED <<rows, clock>>
      PROVE  QuietStep
    BY <1>5 DEF Answer, QuietStep, TypeOK, Idle
<1>3. ASSUME NEW h \in Handlers, RecordSale(h)
      PROVE  StampStep \/ QuietStep
    <2>1. SaleItem(job[h]) \in Row
        BY <1>3 DEF RecordSale, At, TypeOK, JobTruthful, DepositTruthful,
            Idle, GoodRow, SaleItem, Job, Row, Statuses
    <2> QED
        BY <1>3, <1>5, <2>1, SendStamps DEF RecordSale, storeVars
<1>4. ASSUME NEW h \in Handlers, RecordOutcome(h)
      PROVE  StampStep
    <2>1. [job[h].snap EXCEPT !.status = FiatOutcome(job[h].verdict)] \in Row
        BY <1>4 DEF RecordOutcome, At, TypeOK, JobTruthful, FiatTruthful,
            FiatOutcome, Idle, GoodRow, Row, Statuses
    <2> QED
        BY <1>4, <2>1, SendStamps DEF RecordOutcome
<1>6. ASSUME NEW h \in Handlers, NEW j \in Job, j.pc # "put",
             job' = [job EXCEPT ![h] = j], UNCHANGED <<rows, clock>>
      PROVE  QuietStep
    BY <1>6 DEF QuietStep, TypeOK
<1>7. ASSUME NEW h \in Handlers, NEW x \in Hashes, ReceiveDeposit(h, x)
      PROVE  QuietStep
    BY <1>7 DEF ReceiveDeposit, QuietStep, TypeOK, Idle, storeVars
<1>8. ASSUME NEW h \in Handlers, NEW s \in Sales, ReceiveFiat(h, s)
      PROVE  QuietStep
    BY <1>8 DEF ReceiveFiat, QuietStep, TypeOK, Idle, storeVars
<1>9. ASSUME NEW h \in Handlers,
             BalanceSuffices(h) \/ DetailsFound(h) \/ SaleRefused(h)
      PROVE  QuietStep
    BY <1>9 DEF BalanceSuffices, DetailsFound, SaleRefused, QuietStep, TypeOK, Job,
        storeVars
<1>10. ASSUME NEW h \in Handlers, ReadByHash(h)
       PROVE  QuietStep
    BY <1>10 DEF ReadByHash, Answer, QuietStep, TypeOK, Job, Idle, storeVars
<1>11. ASSUME NEW h \in Handlers, ReadByBank(h)
       PROVE  QuietStep
    BY <1>11 DEF ReadByBank, Answer, QuietStep, TypeOK, Job, Idle, storeVars
<1>12. ASSUME NEW h \in Handlers, SaleAccepted(h)
       PROVE  QuietStep
    BY <1>12 DEF SaleAccepted, Answer, QuietStep, TypeOK, Job, Idle, storeVars
<1>13. ASSUME NEW h \in Handlers, GiveUp(h) \/ PutError(h)
       PROVE  QuietStep
    BY <1>5, <1>13 DEF GiveUp, PutError, storeVars
<1>14. CASE \/ \E x \in Hashes : Screen(x)
            \/ \E s \in Sales : Settle(s)
            \/ Crash
            \/ ReplicaCatchesUp
            \/ UNCHANGED vars
    BY <1>14 DEF Screen, Settle, Crash, ReplicaCatchesUp, Replicate, vars,
        QuietStep, Idle, storeVars
<1> QED
    BY <1>1, <1>2, <1>3, <1>4, <1>7, <1>8, <1>9, <1>10, <1>11, <1>12, <1>13, <1>14
    DEF Next, Step

-----------------------------------------------------------------------------
(* Stamps.                                                                 *)

LEMMA StampedRow ==
    ASSUME TruthInv, NEW h \in Handlers, Stamped(h)
    PROVE  job[h].row \in Row /\ GoodRow(job[h].row)
BY DEF TruthInv, Stamped, JobTruthful, PostTruthful, DepositTruthful, FiatTruthful,
    Idle, GoodRow

LEMMA CommitEffect ==
    ASSUME TruthInv, NEW h \in Handlers, Commit(h)
    PROVE  /\ Stamped(h)
           /\ job[h].row \in rows'
           /\ rows' \subseteq rows \cup {job[h].row}
           /\ clock' = clock
           /\ job'[h] = Idle
           /\ \A g \in Handlers \ {h} : job'[g] = job[g]
BY DEF Commit, PutItem, Put, Answer, Stamped, TruthInv, TypeOK

LEMMA StampsInit == Init => StampsDistinct
BY DEF Init, StoreInit, StampsDistinct, Stamped, Idle

LEMMA StampsNext ==
    ASSUME StrictClock, TruthInv, StampsDistinct, [Next]_vars
    PROVE  StampsDistinct'
<1>1. clock \in Nat /\ \A r \in rows : r \in Row
    BY DEF TruthInv, TypeOK, StoreTypeOK
<1>2. CASE StampStep
    <2>1. PICK h \in Handlers, now \in Now :
            /\ clock' = now
            /\ rows' = rows
            /\ job'[h].pc = "put"
            /\ job'[h].row.at = now
            /\ \A g \in Handlers \ {h} : job'[g] = job[g]
        BY <1>2 DEF StampStep
    <2>2. now \in Nat /\ clock < now
        <3>1. PICK d \in Advance : now = clock + d
            BY DEF Now
        <3>2. d \in Nat /\ d # 0
            BY StoreAssumption DEF StoreAssumption, StrictClock
        <3> QED
            BY <1>1, <3>1, <3>2
    <2>3. \A r \in rows : r.at \in Nat /\ r.at <= clock
        BY <1>1 DEF StampsDistinct, Row
    <2>4. \A g \in Handlers : Stamped(g) => job[g].row.at \in Nat /\ job[g].row.at <= clock
        BY StampedRow DEF StampsDistinct, Row
    <2>5. \A g \in Handlers \ {h} : Stamped(g)' => Stamped(g) /\ job'[g].row = job[g].row
        BY <2>1 DEF Stamped
    <2> QED
        BY <1>1, <2>1, <2>2, <2>3, <2>4, <2>5 DEF StampsDistinct
<1>3. CASE QuietStep
    <2>1. \A g \in Handlers : Stamped(g)' => Stamped(g) /\ job'[g].row = job[g].row
        BY <1>3 DEF QuietStep, Stamped
    <2> QED
        BY <1>3, <2>1 DEF QuietStep, StampsDistinct
<1>4. ASSUME NEW h \in Handlers, Commit(h)
      PROVE  StampsDistinct'
    <2>1. ~Stamped(h)'
        BY <1>4, CommitEffect DEF Stamped, Idle
    <2>2. \A g \in Handlers : Stamped(g)' => g # h /\ Stamped(g) /\ job'[g].row = job[g].row
        BY <1>4, <2>1, CommitEffect DEF Stamped
    <2> QED
        BY <1>4, <2>1, <2>2, CommitEffect DEF StampsDistinct
<1> QED
    BY <1>2, <1>3, <1>4, StepKinds

(* With distinct stamps a PutItem never meets an item of its own key.      *)
LEMMA CommitKeepsRows ==
    ASSUME TruthInv, StampsDistinct, NEW h \in Handlers, Commit(h)
    PROVE  rows' = rows \cup {job[h].row}
BY DEF StampsDistinct, Stamped, Commit, PutItem, Put

LEMMA RowsKept ==
    ASSUME TruthInv, StampsDistinct, [Next]_vars
    PROVE  rows \subseteq rows'
BY StepKinds, CommitKeepsRows DEF StampStep, QuietStep

THEOREM Stamps ==
    ASSUME StrictClock
    PROVE  Spec => [](TruthInv /\ StampsDistinct)
<1>1. Init => TruthInv /\ StampsDistinct
    BY TruthInit, StampsInit
<1>2. TruthInv /\ StampsDistinct /\ [Next]_vars => (TruthInv /\ StampsDistinct)'
    BY TruthNext, StampsNext
<1> QED
    BY <1>1, <1>2, PTL DEF Spec

(* The table is a history when the clock moves between stamps, with any    *)
(* faults and any concurrency: no status change is ever overwritten.       *)
THEOREM HistoryKept ==
    ASSUME StrictClock
    PROVE  Spec => AppendOnly
<1>1. TruthInv /\ StampsDistinct /\ [Next]_vars => [rows \subseteq rows']_vars
    BY RowsKept
<1> QED
    BY <1>1, Stamps, PTL DEF Spec, AppendOnly

-----------------------------------------------------------------------------
(* How requests in progress change.                                        *)

(* A step of one request, seen through the fields the proofs use.          *)
LEMMA JobChanges ==
    ASSUME TypeOK, [Next]_vars, NEW g \in Handlers
    PROVE  \/ job'[g] = job[g]
           \/ Crash /\ job'[g] = Idle
           \/ Step(g)
           \/ \E q \in Requests : SellCrypto(g, q)
           \/ \E x \in Hashes : ReceiveDeposit(g, x)
           \/ \E s \in Sales : ReceiveFiat(g, s)
<1>1. ASSUME NEW h \in Handlers, h # g,
             \/ Step(h)
             \/ \E q \in Requests : SellCrypto(h, q)
             \/ \E x \in Hashes : ReceiveDeposit(h, x)
             \/ \E s \in Sales : ReceiveFiat(h, s)
      PROVE  job'[g] = job[g]
    BY <1>1 DEF TypeOK, Step, Commit, PutError, ReadByHash, RecordAmlFailed, Send,
        BalanceSuffices, DetailsFound, SaleRefused, SaleAccepted, GiveUp, RecordSale,
        ReadByBank, RecordOutcome, SellCrypto, ReceiveDeposit, ReceiveFiat, Answer
<1>2. CASE \/ \E x \in Hashes : Screen(x)
           \/ \E s \in Sales : Settle(s)
           \/ Crash
           \/ ReplicaCatchesUp
           \/ UNCHANGED vars
    BY <1>2 DEF Screen, Settle, Crash, ReplicaCatchesUp, vars
<1> QED
    BY <1>1, <1>2 DEF Next

(* Sending an item changes nothing else of a request.                      *)
LEMMA SendShape ==
    ASSUME TypeOK, NEW g \in Handlers, NEW item, Send(g, item)
    PROVE  /\ job'[g].kind = job[g].kind
           /\ job'[g].hash = job[g].hash
           /\ job'[g].pc = "put"
           /\ job'[g].snap = job[g].snap
           /\ job'[g].sale = job[g].sale
<1>1. PICK now \in Now :
        job' = [job EXCEPT ![g].pc = "put", ![g].row = [item EXCEPT !.at = now]]
    BY DEF Send
<1>2. job'[g] = [job[g] EXCEPT !.pc = "put", !.row = [item EXCEPT !.at = now]]
    BY <1>1 DEF TypeOK
<1> QED
    BY <1>2 DEF TypeOK, Job

(* What a request's own step does to it, by the fields the proofs use.     *)
LEMMA StepShape ==
    ASSUME TypeOK, NEW g \in Handlers, Step(g)
    PROVE  \/ job'[g] = Idle
           \/ /\ job'[g].kind = job[g].kind
              /\ job'[g].hash = job[g].hash
              /\ \/ /\ ReadByHash(g)
                    /\ job[g].kind = "deposit"
                    /\ job[g].pc = "read"
                    /\ job'[g].sale = job[g].sale
                 \/ /\ ReadByBank(g)
                    /\ job[g].kind = "fiat"
                    /\ job[g].pc = "read"
                    /\ job'[g].sale = job[g].sale
                 \/ /\ SaleAccepted(g)
                    /\ job[g].kind = "deposit"
                    /\ job[g].pc = "sell"
                    /\ job'[g].pc = "sold"
                    /\ job'[g].snap = job[g].snap
                    /\ stage[job'[g].sale] = "unsold"
                 \/ /\ job[g].kind = "deposit"
                    /\ \/ job[g].pc \in {"balance", "details"}
                       \/ job[g].pc = "sell" /\ job'[g].pc = "sold"
                    /\ job'[g].snap = job[g].snap
                    /\ job'[g].sale = job[g].sale
                 \/ /\ job[g].pc \in {"amlFailed", "sold", "settle"}
                    /\ job'[g].pc = "put"
                    /\ job'[g].snap = job[g].snap
                    /\ job'[g].sale = job[g].sale
<1>1. job[g] \in Job
    BY DEF TypeOK
<1>2. CASE Answer(g)
    BY <1>2 DEF Answer, TypeOK
<1>3. CASE Commit(g) \/ PutError(g) \/ GiveUp(g)
    BY <1>2, <1>3 DEF Commit, PutError, GiveUp
<1>4. CASE ReadByHash(g)
    BY <1>1, <1>2, <1>4 DEF ReadByHash, At, TypeOK, Job
<1>5. CASE ReadByBank(g)
    BY <1>1, <1>2, <1>5 DEF ReadByBank, At, TypeOK, Job
<1>6. CASE BalanceSuffices(g) \/ DetailsFound(g) \/ SaleRefused(g)
    BY <1>1, <1>6 DEF BalanceSuffices, DetailsFound, SaleRefused, At, TypeOK, Job
<1>7. CASE SaleAccepted(g)
    <2>1. PICK s \in Sales :
            /\ stage[s] = "unsold"
            /\ \/ job' = [job EXCEPT ![g].pc = "sold", ![g].sale = s]
               \/ Answer(g)
        BY <1>7 DEF SaleAccepted
    <2>2. CASE job' = [job EXCEPT ![g].pc = "sold", ![g].sale = s]
        <3>1. job'[g] = [job[g] EXCEPT !.pc = "sold", !.sale = s]
            BY <2>2 DEF TypeOK
        <3> QED
            BY <1>1, <1>7, <2>1, <3>1 DEF SaleAccepted, At, Job
    <2> QED
        BY <1>2, <2>1, <2>2
<1>8. CASE RecordAmlFailed(g) \/ RecordSale(g) \/ RecordOutcome(g)
    BY SendShape, <1>2, <1>8 DEF RecordAmlFailed, RecordSale, RecordOutcome, At
<1> QED
    BY <1>3, <1>4, <1>5, <1>6, <1>7, <1>8 DEF Step

(* A deposit notification keeps its hash, and is sent with the sale it     *)
(* made.                                                                   *)
LEMMA DepositKept ==
    ASSUME TypeOK, [Next]_vars, NEW g \in Handlers, job'[g].kind = "deposit"
    PROVE  \/ /\ job[g].kind = "deposit"
              /\ job'[g].hash = job[g].hash
           \/ \E x \in Hashes : ReceiveDeposit(g, x) /\ job'[g].hash = x
<1>1. job[g] \in Job
    BY DEF TypeOK
<1>2. CASE Step(g)
    BY <1>1, <1>2, StepShape DEF Idle
<1>3. CASE \E q \in Requests : SellCrypto(g, q)
    BY <1>3 DEF SellCrypto, TypeOK, Idle
<1>4. CASE \E x \in Hashes : ReceiveDeposit(g, x)
    <2>1. PICK x \in Hashes : ReceiveDeposit(g, x)
        BY <1>4
    <2>2. job'[g] = [Idle EXCEPT !.kind = "deposit", !.pc = "read",
                                 !.hash = x, !.verdict = screening[x]]
        BY <2>1 DEF ReceiveDeposit, TypeOK
    <2>3. job'[g].hash = x
        BY <2>2 DEF Idle
    <2> QED
        BY <2>1, <2>3
<1>5. CASE \E s \in Sales : ReceiveFiat(g, s)
    BY <1>5 DEF ReceiveFiat, TypeOK, Idle
<1>6. CASE job'[g] = Idle
    BY <1>6 DEF Idle
<1> QED
    BY <1>2, <1>3, <1>4, <1>5, <1>6, JobChanges

LEMMA HeldKept ==
    ASSUME TypeOK, [Next]_vars, NEW g \in Handlers, NEW s \in Sales,
           job'[g].kind = "deposit", job'[g].sale = s
    PROVE  \/ job[g].kind = "deposit" /\ job[g].sale = s
           \/ SaleAccepted(g) /\ stage[s] = "unsold"
<1>1. job[g] \in Job /\ s # None
    BY StoreAssumption DEF TypeOK, StoreAssumption
<1>2. CASE Step(g)
    BY <1>1, <1>2, StepShape DEF Idle
<1>3. CASE \E q \in Requests : SellCrypto(g, q)
    BY <1>3 DEF SellCrypto, TypeOK, Idle
<1>4. CASE \E x \in Hashes : ReceiveDeposit(g, x)
    BY <1>1, <1>4 DEF ReceiveDeposit, TypeOK, Idle
<1>5. CASE \E x \in Sales : ReceiveFiat(g, x)
    BY <1>5 DEF ReceiveFiat, TypeOK, Idle
<1>6. CASE job'[g] = Idle
    BY <1>6 DEF Idle
<1> QED
    BY <1>2, <1>3, <1>4, <1>5, <1>6, JobChanges

(* Whatever item a request holds, it held before or has just read.         *)
LEMMA SnapKept ==
    ASSUME TypeOK, [Next]_vars, NEW g \in Handlers, HasRead(g)'
    PROVE  \/ HasRead(g) /\ job'[g].snap = job[g].snap /\ job'[g].kind = job[g].kind
           \/ ReadByHash(g) /\ job[g].kind = "deposit"
           \/ ReadByBank(g) /\ job[g].kind = "fiat"
<1>1. job[g] \in Job
    BY DEF TypeOK
<1>2. CASE Step(g)
    BY <1>1, <1>2, StepShape DEF HasRead, Idle
<1>3. CASE \E q \in Requests : SellCrypto(g, q)
    BY <1>3 DEF HasRead, SellCrypto, TypeOK, Idle
<1>4. CASE \E x \in Hashes : ReceiveDeposit(g, x)
    BY <1>4 DEF HasRead, ReceiveDeposit, TypeOK, Idle
<1>5. CASE \E x \in Sales : ReceiveFiat(g, x)
    BY <1>5 DEF HasRead, ReceiveFiat, TypeOK, Idle
<1>6. CASE job'[g] = Idle
    BY <1>6 DEF HasRead, Idle
<1>7. CASE job'[g] = job[g]
    BY <1>7 DEF HasRead
<1> QED
    BY <1>2, <1>3, <1>4, <1>5, <1>6, <1>7, JobChanges

(* A notification about to sell was about to sell before, or has just read *)
(* the item.                                                               *)
AboutToSell(g) ==
    job[g].kind = "deposit" /\ job[g].pc \in {"balance", "details", "sell"}

LEMMA AboutToSellKept ==
    ASSUME TypeOK, [Next]_vars, NEW g \in Handlers, AboutToSell(g)'
    PROVE  \/ AboutToSell(g) /\ job'[g].snap = job[g].snap /\ ~SaleAccepted(g)
           \/ ReadByHash(g)
<1>1. job[g] \in Job
    BY DEF TypeOK
<1>2. CASE Step(g)
    BY <1>1, <1>2, StepShape DEF AboutToSell, SaleAccepted, At, Idle
<1>3. CASE \E q \in Requests : SellCrypto(g, q)
    BY <1>3 DEF AboutToSell, SellCrypto, TypeOK, Idle
<1>4. CASE \E x \in Hashes : ReceiveDeposit(g, x)
    BY <1>4 DEF AboutToSell, ReceiveDeposit, TypeOK, Idle
<1>5. CASE \E x \in Sales : ReceiveFiat(g, x)
    BY <1>5 DEF AboutToSell, ReceiveFiat, TypeOK, Idle
<1>6. CASE job'[g] = Idle
    BY <1>6 DEF AboutToSell, Idle
<1>7. CASE job'[g] = job[g] /\ ~Step(g)
    BY <1>7 DEF AboutToSell, Step
<1> QED
    BY <1>2, <1>3, <1>4, <1>5, <1>6, <1>7, JobChanges

-----------------------------------------------------------------------------
(* The parts of OnceInv.                                                   *)

LEMMA OneSellerNext ==
    ASSUME OneAtATime, TypeOK, OneSeller, [Next]_vars
    PROVE  OneSeller'
<1> SUFFICES ASSUME NEW g \in Handlers, NEW h \in Handlers, g # h,
                    job'[g].kind = "deposit", job'[h].kind = "deposit"
             PROVE  job'[g].hash # job'[h].hash
    BY DEF OneSeller
<1>1. ASSUME NEW a \in Handlers, NEW b \in Handlers, a # b, NEW x \in Hashes,
             ReceiveDeposit(a, x), job'[b].kind = "deposit"
      PROVE  job'[b].hash # x
    <2>1. job'[b] = job[b]
        BY <1>1 DEF ReceiveDeposit, TypeOK
    <2>2. ~Selling(b, x)
        BY <1>1 DEF ReceiveDeposit, OneAtATime
    <2> QED
        BY <1>1, <2>1, <2>2 DEF Selling
<1> QED
    BY <1>1, DepositKept DEF OneSeller

(* A scan that is not stale finds the newest item of the table.            *)
LEMMA ReadCurrent ==
    ASSUME OneAtATime, NEW view, Scan(view)
    PROVE  view = rows
BY DEF OneAtATime, Scan, Mishap

LEMMA ReadByHashFinds ==
    ASSUME OneAtATime, TypeOK, NEW h \in Handlers, ReadByHash(h), HasRead(h)'
    PROVE  /\ job'[h].snap \in rows
           /\ job'[h].snap.hash = job[h].hash
           /\ \A q \in rows : q.hash = job[h].hash => q.at <= job'[h].snap.at
<1>1. PICK view \in Views : \E item \in getTransactionByTxnHash(view, job[h].hash) :
        /\ Scan(view)
        /\ \/ Answer(h)
           \/ /\ OrderAwaits(item)
              /\ \E pc \in {"amlFailed", "balance"} :
                    job' = [job EXCEPT ![h].pc = pc, ![h].snap = item]
    BY DEF ReadByHash
<1>2. PICK item \in getTransactionByTxnHash(view, job[h].hash) :
        /\ Scan(view)
        /\ \/ Answer(h)
           \/ /\ OrderAwaits(item)
              /\ \E pc \in {"amlFailed", "balance"} :
                    job' = [job EXCEPT ![h].pc = pc, ![h].snap = item]
    BY <1>1
<1>3. ~Answer(h)
    BY DEF Answer, TypeOK, HasRead, Idle
<1>4. view = rows /\ item # None
    BY <1>2, <1>3, ReadCurrent DEF OrderAwaits
<1>5. /\ item \in {r \in rows : r.hash = job[h].hash}
      /\ \A q \in {r \in rows : r.hash = job[h].hash} : q.at <= item.at
    BY <1>2, <1>4, LookupNewest DEF getTransactionByTxnHash
<1>6. job'[h].snap = item
    BY <1>2, <1>3 DEF TypeOK, Job
<1> QED
    BY <1>5, <1>6

LEMMA ReadByBankFinds ==
    ASSUME OneAtATime, TypeOK, NEW h \in Handlers, ReadByBank(h), HasRead(h)'
    PROVE  job'[h].snap \in rows
<1>1. PICK view \in Views : \E item \in getTransactionByBankTxnId(view, job[h].sale) :
        /\ Scan(view)
        /\ \/ Answer(h)
           \/ SaleAwaits(item) /\ job' = [job EXCEPT ![h].pc = "settle", ![h].snap = item]
    BY DEF ReadByBank
<1>2. PICK item \in getTransactionByBankTxnId(view, job[h].sale) :
        /\ Scan(view)
        /\ \/ Answer(h)
           \/ SaleAwaits(item) /\ job' = [job EXCEPT ![h].pc = "settle", ![h].snap = item]
    BY <1>1
<1>3. ~Answer(h)
    BY DEF Answer, TypeOK, HasRead, Idle
<1>4. view = rows /\ item # None
    BY <1>2, <1>3, ReadCurrent DEF SaleAwaits
<1>5. item \in {r \in rows : r.bank = job[h].sale}
    BY <1>2, <1>4, LookupNewest DEF getTransactionByBankTxnId
<1>6. job'[h].snap = item
    BY <1>2, <1>3 DEF TypeOK, Job
<1> QED
    BY <1>5, <1>6

LEMMA SnapsKeptNext ==
    ASSUME OneAtATime, TruthInv, StampsDistinct, SnapsKept, [Next]_vars
    PROVE  SnapsKept'
<1> SUFFICES ASSUME NEW g \in Handlers, HasRead(g)'
             PROVE  job'[g].snap \in rows'
    BY DEF SnapsKept
<1>1. rows \subseteq rows'
    BY RowsKept
<1>2. TypeOK
    BY DEF TruthInv
<1> QED
    BY <1>1, <1>2, SnapKept, ReadByHashFinds, ReadByBankFinds DEF SnapsKept

(* A sale that was made before is not recorded or held by a step anew.     *)
LEMMA AccountedShrinks ==
    ASSUME TruthInv, SnapsKept, [Next]_vars, NEW s \in Sales, Sold(s), Accounted(s)'
    PROVE  Accounted(s)
<1>1. TypeOK /\ s # None
    BY StoreAssumption DEF StoreAssumption, TruthInv
<1>2. CASE Held(s)'
    BY <1>1, <1>2, HeldKept DEF Held, Sold, Accounted
<1>3. CASE Recorded(s)'
    <2>1. PICK r \in rows' : r.bank = s
        BY <1>3 DEF Recorded
    <2>2. CASE r \in rows
        BY <2>1, <2>2 DEF Recorded, Accounted
    <2>3. ASSUME r \notin rows
          PROVE  \E h \in Handlers : Commit(h) /\ r = job[h].row
        BY <2>1, <2>3, StepKinds, CommitEffect DEF StampStep, QuietStep
    <2>4. ASSUME NEW h \in Handlers, Commit(h), r = job[h].row
          PROVE  Accounted(s)
        <3>1. JobTruthful(job[h]) /\ job[h].pc = "put"
            BY <2>4 DEF TruthInv, Commit
        <3>2. CASE job[h].kind = "deposit"
            BY <1>1, <2>1, <2>4, <3>1, <3>2
            DEF JobTruthful, DepositTruthful, Idle, Held, Accounted
        <3>3. CASE job[h].kind = "fiat"
            <4>1. job[h].snap \in rows /\ job[h].snap.bank = s
                BY <2>1, <2>4, <3>1, <3>3
                DEF JobTruthful, FiatTruthful, Idle, SnapsKept, HasRead
            <4> QED
                BY <4>1 DEF Recorded, Accounted
        <3>4. CASE job[h].kind = "post"
            BY <1>1, <2>1, <2>4, <3>1, <3>4 DEF JobTruthful, PostTruthful, Idle
        <3> QED
            BY <3>1, <3>2, <3>3, <3>4 DEF JobTruthful, Idle
    <2> QED
        BY <2>2, <2>3, <2>4
<1> QED
    BY <1>2, <1>3 DEF Accounted

(* Before a sale is made nothing carries its id.                           *)
LEMMA UnsoldUnaccounted ==
    ASSUME TruthInv, NEW s \in Sales, Accounted(s)
    PROVE  Sold(s)
<1>1. s # None
    BY StoreAssumption DEF StoreAssumption
<1>2. CASE Recorded(s)
    BY <1>1, <1>2 DEF Recorded, TruthInv, GoodRow, RowTruthful
<1>3. CASE Held(s)
    BY <1>1, <1>3 DEF Held, TruthInv, JobTruthful, DepositTruthful, Idle
<1> QED
    BY <1>2, <1>3 DEF Accounted

(* Sales change only when one is accepted.                                 *)
LEMMA SaleChanges ==
    ASSUME TypeOK, [Next]_vars, NEW s \in Sales, Sold(s)'
    PROVE  \/ Sold(s) /\ origin'[s] = origin[s]
           \/ \E h \in Handlers :
                /\ SaleAccepted(h)
                /\ ~Sold(s)
                /\ origin'[s] = job[h].snap
                /\ \A t \in Sales \ {s} : Sold(t)' => Sold(t) /\ origin'[t] = origin[t]
<1>1. CASE Sold(s)
    BY <1>1, NextMonotone DEF PartnerMonotone, Sold
<1>2. ASSUME NEW h \in Handlers, SaleAccepted(h), ~Sold(s)
      PROVE  /\ origin'[s] = job[h].snap
             /\ \A t \in Sales \ {s} : Sold(t)' => Sold(t) /\ origin'[t] = origin[t]
    BY <1>2 DEF SaleAccepted, Sold, TypeOK
<1>3. CASE stage' = stage \/ \E t \in Sales : Settle(t)
    BY <1>1, <1>3 DEF Sold, Settle, TypeOK
<1>4. ASSUME NEW h \in Handlers, Step(h), ~SaleAccepted(h)
      PROVE  stage' = stage
    BY <1>4 DEF Step, Commit, PutError, ReadByHash, RecordAmlFailed, Send,
        BalanceSuffices, DetailsFound, SaleRefused, GiveUp, RecordSale, ReadByBank,
        RecordOutcome, partnerVars
<1>5. ASSUME NEW h \in Handlers,
             \/ \E q \in Requests : SellCrypto(h, q)
             \/ \E x \in Hashes : ReceiveDeposit(h, x)
             \/ \E t \in Sales : ReceiveFiat(h, t)
      PROVE  stage' = stage
    BY <1>5 DEF SellCrypto, ReceiveDeposit, ReceiveFiat, partnerVars
<1>6. CASE \/ \E x \in Hashes : Screen(x)
           \/ Crash
           \/ ReplicaCatchesUp
           \/ UNCHANGED vars
    BY <1>3, <1>6 DEF Screen, Crash, ReplicaCatchesUp, vars, partnerVars
<1> QED
    BY <1>1, <1>2, <1>3, <1>4, <1>5, <1>6 DEF Next

LEMMA OriginKept ==
    ASSUME TypeOK, [Next]_vars, NEW s \in Sales, Sold(s)
    PROVE  origin'[s] = origin[s]
BY NextMonotone DEF PartnerMonotone, Sold

LEMMA BankSold ==
    ASSUME NEW r, GoodRow(r), r.bank # None
    PROVE  r.bank \in Sales /\ Sold(r.bank)
BY DEF GoodRow, RowTruthful, Row

LEMMA RecordsLaterNext ==
    ASSUME StrictClock, TruthInv, StampsDistinct, RecordsLater,
           TruthInv', SnapsKept', [Next]_vars
    PROVE  RecordsLater'
<1>1. TypeOK /\ clock \in Nat /\ \A r \in rows : r \in Row /\ GoodRow(r)
    BY DEF TruthInv, TypeOK, StoreTypeOK
<1>2. ASSUME NEW r, GoodRow(r), r.bank # None
      PROVE  origin'[r.bank] = origin[r.bank]
    BY <1>1, <1>2, BankSold, OriginKept
<1>3. ASSUME NEW r \in rows', r.bank # None
      PROVE  origin'[r.bank].at < r.at
    <2>1. CASE r \in rows
        BY <1>1, <1>2, <1>3, <2>1 DEF RecordsLater
    <2>2. ASSUME NEW h \in Handlers, Stamped(h), r = job[h].row
          PROVE  origin'[r.bank].at < r.at
        BY <1>2, <1>3, <2>2, StampedRow DEF RecordsLater
    <2> QED
        BY <2>1, <2>2, StepKinds, CommitEffect DEF StampStep, QuietStep
<1>4. ASSUME NEW g \in Handlers, Stamped(g), job'[g].row = job[g].row, job[g].row.bank # None
      PROVE  origin'[job'[g].row.bank].at < job'[g].row.at
    BY <1>2, <1>4, StampedRow DEF RecordsLater
<1>5. ASSUME NEW g \in Handlers, Stamped(g)', job'[g].row.bank # None, StampStep
      PROVE  origin'[job'[g].row.bank].at < job'[g].row.at
    <2>1. PICK h \in Handlers, now \in Now :
            /\ clock' = now
            /\ rows' = rows
            /\ job'[h].row.at = now
            /\ \A k \in Handlers \ {h} : job'[k] = job[k]
        BY <1>5 DEF StampStep
    <2>2. CASE g # h
        BY <1>4, <1>5, <2>1, <2>2 DEF Stamped
    <2>3. CASE g = h
        <3>1. clock < now /\ now \in Nat
            <4>1. PICK d \in Advance : now = clock + d
                BY DEF Now
            <4>2. d \in Nat /\ d # 0
                BY StoreAssumption DEF StoreAssumption, StrictClock
            <4> QED
                BY <1>1, <4>1, <4>2
        <3>2. \A r \in rows : r.at \in Nat /\ r.at < now
            BY <1>1, <3>1 DEF StampsDistinct, Row
        <3>3. JobTruthful(job[g])' /\ job'[g].pc = "put"
            BY <1>5 DEF TruthInv, Stamped
        <3>4. CASE job'[g].kind = "deposit"
            <4>1. origin'[job'[g].row.bank] = job'[g].snap /\ job'[g].snap \in rows
                BY <1>5, <2>1, <3>3, <3>4
                DEF JobTruthful, DepositTruthful, Idle, SnapsKept, HasRead
            <4> QED
                BY <2>1, <2>3, <3>2, <4>1
        <3>5. CASE job'[g].kind = "fiat"
            <4>1. job'[g].snap \in rows /\ job'[g].snap.bank = job'[g].row.bank
                BY <1>5, <2>1, <3>3, <3>5
                DEF JobTruthful, FiatTruthful, Idle, SnapsKept, HasRead
            <4>2. origin'[job'[g].row.bank].at < job'[g].snap.at
                BY <1>3, <1>5, <2>1, <4>1
            <4>3. origin'[job'[g].row.bank].at \in Nat
                <5>1. job'[g].row.bank \in Sales /\ Sold(job'[g].row.bank)
                    BY <1>1, <1>5, <4>1, BankSold
                <5> QED
                    BY <1>1, <5>1, OriginKept DEF RecordsLater, Row
            <4> QED
                BY <2>1, <2>3, <3>1, <3>2, <4>1, <4>2, <4>3
        <3>6. CASE job'[g].kind = "post"
            BY <1>5, <3>3, <3>6 DEF JobTruthful, PostTruthful, Idle
        <3> QED
            BY <3>3, <3>4, <3>5, <3>6 DEF JobTruthful, Idle
    <2> QED
        BY <2>2, <2>3
<1>6. ASSUME NEW g \in Handlers, Stamped(g)', job'[g].row.bank # None, ~StampStep
      PROVE  Stamped(g) /\ job'[g].row = job[g].row
    BY <1>6, StepKinds, CommitEffect DEF QuietStep, Stamped, Idle
<1>7. ASSUME NEW s \in Sales, Sold(s)'
      PROVE  origin'[s] \in Row
    <2>1. ASSUME NEW h \in Handlers, SaleAccepted(h)
          PROVE  job[h].snap \in Row
        BY <2>1 DEF SaleAccepted, At, TruthInv, JobTruthful, DepositTruthful, GoodRow, Idle
    <2> QED
        BY <1>1, <1>7, <2>1, SaleChanges DEF RecordsLater
<1> QED
    BY <1>3, <1>4, <1>5, <1>6, <1>7 DEF RecordsLater

LEMMA ReadUnspent ==
    ASSUME OneAtATime, TruthInv, OneSeller, RecordsLater, NEW g \in Handlers,
           ReadByHash(g), HasRead(g)',
           NEW s \in Sales, Sold(s), origin[s] = job'[g].snap
    PROVE  ~Accounted(s)
<1>1. TypeOK /\ s # None
    BY StoreAssumption DEF StoreAssumption, TruthInv
<1>2. /\ origin[s] \in rows
      /\ origin[s].hash = job[g].hash
      /\ \A q \in rows : q.hash = job[g].hash => q.at <= origin[s].at
    BY <1>1, ReadByHashFinds
<1>3. \A r \in rows : r.at \in Nat
    BY <1>1 DEF TypeOK, StoreTypeOK, Row
<1>4. ASSUME NEW r \in rows, r.bank = s
      PROVE  FALSE
    <2>1. GoodRow(r)
        BY DEF TruthInv
    <2>2. r.hash = origin[s].hash
        BY <1>1, <1>4, <2>1 DEF GoodRow, RowTruthful
    <2>3. origin[s].at < r.at
        BY <1>1, <1>4 DEF RecordsLater
    <2> QED
        BY <1>2, <1>3, <2>2, <2>3
<1>5. ASSUME NEW k \in Handlers, job[k].kind = "deposit", job[k].sale = s
      PROVE  FALSE
    <2>1. DepositTruthful(job[k])
        BY <1>5 DEF TruthInv, JobTruthful, Idle
    <2>2. job[k].pc # "read" /\ job[k].hash = origin[s].hash
        BY <1>1, <1>5, <2>1 DEF DepositTruthful
    <2>3. job[g].kind = "deposit" /\ job[g].pc = "read"
        BY DEF ReadByHash, At
    <2> QED
        BY <1>2, <1>5, <2>2, <2>3 DEF OneSeller
<1> QED
    BY <1>4, <1>5 DEF Accounted, Recorded, Held

LEMMA UnspentNext ==
    ASSUME OneAtATime, TruthInv, OnceInv, [Next]_vars, NEW g \in Handlers
    PROVE  Unspent(g)'
<1> SUFFICES ASSUME AboutToSell(g)', NEW s \in Sales, Sold(s)',
                    origin'[s] = job'[g].snap, Accounted(s)'
             PROVE  FALSE
    BY DEF Unspent, AboutToSell
<1>1. TypeOK
    BY DEF TruthInv
<1>2. CASE Sold(s) /\ origin'[s] = origin[s]
    <2>1. Accounted(s)
        BY <1>2, AccountedShrinks DEF OnceInv
    <2>2. CASE AboutToSell(g) /\ job'[g].snap = job[g].snap
        BY <1>2, <2>1, <2>2 DEF OnceInv, Unspent, AboutToSell
    <2>3. CASE ReadByHash(g)
        <3>1. HasRead(g)'
            BY DEF HasRead, AboutToSell
        <3> QED
            BY <1>2, <2>1, <2>3, <3>1, ReadUnspent DEF OnceInv
    <2> QED
        BY <1>1, <2>2, <2>3, AboutToSellKept
<1>3. ASSUME NEW h \in Handlers, SaleAccepted(h), origin'[s] = job[h].snap, ~Sold(s)
      PROVE  FALSE
    <2>1. ~ReadByHash(g)
        <3>1. stage' # stage
            BY <1>1, <1>3 DEF Sold, SaleAccepted, TypeOK
        <3> QED
            BY <3>1 DEF ReadByHash, partnerVars
    <2>2. AboutToSell(g) /\ job'[g].snap = job[g].snap /\ g # h
        BY <1>1, <1>3, <2>1, AboutToSellKept
    <2>3. DepositTruthful(job[g]) /\ DepositTruthful(job[h]) /\ At(h, "deposit", "sell")
        BY <1>3, <2>2 DEF TruthInv, JobTruthful, Idle, AboutToSell, SaleAccepted, At
    <2>4. job[g].hash = job[h].hash
        BY <1>3, <2>2, <2>3 DEF DepositTruthful, AboutToSell, At
    <2> QED
        BY <2>2, <2>3, <2>4 DEF OnceInv, OneSeller, AboutToSell, At
<1> QED
    BY <1>1, <1>2, <1>3, SaleChanges

LEMMA NoDoubleSaleNext ==
    ASSUME OneAtATime, TruthInv, OnceInv, [Next]_vars
    PROVE  NoDoubleSale'
<1>1. TypeOK
    BY DEF TruthInv
<1>a. ASSUME NEW s \in Sales, Sold(s)'
      PROVE  origin'[s].status = CryptoCompleted
    <2>1. ASSUME NEW h \in Handlers, SaleAccepted(h)
          PROVE  job[h].snap.status = CryptoCompleted
        BY <2>1 DEF SaleAccepted, At, TruthInv, JobTruthful, DepositTruthful, Idle
    <2> QED
        BY <1>a, <1>1, <2>1, SaleChanges DEF OnceInv, NoDoubleSale
<1> SUFFICES ASSUME NEW s \in Sales, NEW t \in Sales, s # t, Sold(s)', Sold(t)',
                    origin'[s] = origin'[t], Accounted(s)', Accounted(t)'
             PROVE  FALSE
    BY <1>a DEF NoDoubleSale, Accounted
<1>2. ASSUME NEW a \in Sales, NEW b \in Sales, a # b, Accounted(b)',
             NEW h \in Handlers, SaleAccepted(h), origin'[a] = job[h].snap,
             Sold(b), origin'[b] = origin[b], origin'[a] = origin'[b]
      PROVE  FALSE
    <2>1. Accounted(b)
        BY <1>2, AccountedShrinks DEF OnceInv
    <2> QED
        BY <1>2, <2>1 DEF OnceInv, Unspent, SaleAccepted, At
<1>3. CASE Sold(s) /\ origin'[s] = origin[s] /\ Sold(t) /\ origin'[t] = origin[t]
    <2>1. Accounted(s) /\ Accounted(t)
        BY <1>3, AccountedShrinks DEF OnceInv
    <2> QED
        BY <1>3, <2>1 DEF OnceInv, NoDoubleSale, Accounted
<1> QED
    BY <1>1, <1>2, <1>3, SaleChanges

LEMMA OnceInit == Init => OnceInv
BY StampsInit DEF Init, StoreInit, OnceInv, OneSeller, SnapsKept, HasRead, RecordsLater,
    Stamped, Unspent, NoDoubleSale, Sold, Idle

LEMMA OnceNext ==
    ASSUME StrictClock, OneAtATime, TruthInv, OnceInv, [Next]_vars
    PROVE  OnceInv'
<1>1. StampsDistinct'
    BY StampsNext DEF OnceInv
<1>2. OneSeller'
    BY OneSellerNext DEF OnceInv, TruthInv
<1>3. SnapsKept'
    BY SnapsKeptNext DEF OnceInv
<1>4. RecordsLater'
    BY <1>3, TruthNext, RecordsLaterNext DEF OnceInv
<1>5. \A h \in Handlers : Unspent(h)'
    BY UnspentNext
<1>6. NoDoubleSale'
    BY NoDoubleSaleNext
<1> QED
    BY <1>1, <1>2, <1>3, <1>4, <1>5, <1>6 DEF OnceInv

(* When deposits are notified one at a time, reads see every write and the *)
(* clock moves, every stored item that a request has read is still there,  *)
(* and at most one request is on its way to sell it.                       *)
THEOREM OnceHeld ==
    ASSUME StrictClock, OneAtATime
    PROVE  Spec => []OnceInv
<1>1. Init => TruthInv /\ OnceInv
    BY TruthInit, OnceInit
<1>2. TruthInv /\ OnceInv /\ [Next]_vars => (TruthInv /\ OnceInv)'
    BY TruthNext, OnceNext
<1> QED
    BY <1>1, <1>2, PTL DEF Spec

(* One redeem order, one sale: with deposits notified one at a time, reads *)
(* that see every write and a clock that moves, no CRYPTO_COMPLETED item   *)
(* leads to two sales that are both recorded, whatever crashes, responses  *)
(* or writes are lost in between.                                          *)
THEOREM SoldOnce ==
    ASSUME StrictClock, OneAtATime
    PROVE  Spec => []NoDoubleSale
<1>1. OnceInv => NoDoubleSale
    BY DEF OnceInv
<1> QED
    BY <1>1, OnceHeld, PTL

-----------------------------------------------------------------------------
(* Without faults.                                                         *)

LEMMA AccountedInit == Init => SalesAccounted
BY DEF Init, SalesAccounted, Sold

LEMMA AccountedNext ==
    ASSUME StrictClock, NoFaults, TruthInv, StampsDistinct, SalesAccounted, [Next]_vars
    PROVE  SalesAccounted'
<1> SUFFICES ASSUME NEW s \in Sales, Sold(s)'
             PROVE  Recorded(s)' \/ Held(s)'
    BY DEF SalesAccounted
<1>1. TypeOK /\ s # None
    BY StoreAssumption DEF StoreAssumption, TruthInv
<1>2. rows \subseteq rows'
    BY RowsKept
<1>3. CASE Recorded(s)
    BY <1>2, <1>3 DEF Recorded
<1>4. ASSUME NEW h \in Handlers, job[h].kind = "deposit", job[h].sale = s
      PROVE  Recorded(s)' \/ Held(s)'
    <2>1. DepositTruthful(job[h]) /\ job[h].pc \in {"sold", "put"}
        BY <1>1, <1>4 DEF TruthInv, JobTruthful, DepositTruthful, Idle
    <2>2. CASE Commit(h)
        BY <1>4, <2>1, <2>2, CommitEffect DEF Commit, DepositTruthful, Recorded
    <2>3. CASE RecordSale(h)
        BY <1>1, <1>4, <2>3, SendShape DEF RecordSale, Marshalls, SaleItem, Held
    <2>4. CASE job'[h] = job[h]
        BY <1>4, <2>4 DEF Held
    <2>5. ASSUME ~Commit(h), ~RecordSale(h)
          PROVE  job'[h] = job[h]
        <3>1. ~Crash /\ ~PutError(h)
            BY DEF NoFaults, Crash, PutError, Mishap
        <3>2. ~Step(h)
            BY <1>4, <2>1, <2>5, <3>1 DEF Step, ReadByHash, RecordAmlFailed,
                BalanceSuffices, DetailsFound, SaleRefused, SaleAccepted, GiveUp,
                ReadByBank, RecordOutcome, At
        <3>3. job[h] # Idle
            BY <1>4 DEF Idle
        <3> QED
            BY <1>1, <3>1, <3>2, <3>3, JobChanges DEF SellCrypto, ReceiveDeposit, ReceiveFiat
    <2> QED
        BY <2>2, <2>3, <2>4, <2>5
<1>5. ASSUME NEW h \in Handlers, SaleAccepted(h), ~Sold(s)
      PROVE  Held(s)'
    <2>1. PICK t \in Sales :
            /\ stage' = [stage EXCEPT ![t] = "pending"]
            /\ \/ job' = [job EXCEPT ![h].pc = "sold", ![h].sale = t]
               \/ Mishap("lostResponse")
        BY <1>5 DEF SaleAccepted
    <2>2. t = s
        BY <1>1, <1>5, <2>1 DEF Sold, TypeOK
    <2>3. job' = [job EXCEPT ![h].pc = "sold", ![h].sale = s]
        BY <2>1, <2>2 DEF NoFaults, Mishap
    <2>4. job'[h] = [job[h] EXCEPT !.pc = "sold", !.sale = s]
        BY <1>1, <2>3 DEF TypeOK
    <2>5. job'[h].kind = "deposit" /\ job'[h].sale = s
        BY <1>1, <1>5, <2>4 DEF SaleAccepted, At, TypeOK, Job
    <2> QED
        BY <2>5 DEF Held
<1> QED
    BY <1>1, <1>3, <1>4, <1>5, SaleChanges DEF SalesAccounted, Held

(* Without faults every sale is in the table or about to be written to it. *)
THEOREM AllAccounted ==
    ASSUME StrictClock, NoFaults
    PROVE  Spec => []SalesAccounted
<1>1. Init => SalesAccounted
    BY AccountedInit
<1>2. TruthInv /\ StampsDistinct /\ SalesAccounted /\ [Next]_vars => SalesAccounted'
    BY AccountedNext
<1> QED
    BY <1>1, <1>2, Stamps, PTL DEF Spec
=============================================================================
