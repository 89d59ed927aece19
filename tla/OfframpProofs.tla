--------------------------- MODULE OfframpProofs ----------------------------
(***************************************************************************)
(* Proofs about Offramp for every set of orders, hashes, sales and         *)
(* requests in progress.                                                   *)
(***************************************************************************)
EXTENDS OfframpInvariants, TLAPS

(* The partner never takes back what it decided.                           *)
PartnerMonotone ==
    /\ \A x \in Hashes : screening[x] # "pending" => screening'[x] = screening[x]
    /\ \A s \in Sales :
        /\ stage[s] # "unsold" => stage'[s] # "unsold" /\ origin'[s] = origin[s]
        /\ stage[s] \in {"completed", "failed"} => stage'[s] = stage[s]

(* Put only adds the item it is given.                                     *)
LEMMA PutAdds ==
    ASSUME NEW table, NEW row
    PROVE  Put(table, row) \subseteq table \cup {row}
BY DEF Put

(* The clock reads natural numbers that never decrease.                    *)
LEMMA NowNat ==
    ASSUME StoreTypeOK, NEW now \in Now
    PROVE  now \in Nat /\ clock <= now
<1>1. PICK d \in Advance : now = clock + d
    BY DEF Now
<1>2. d \in Nat /\ clock \in Nat
    BY StoreAssumption DEF StoreAssumption, StoreTypeOK
<1> QED
    BY <1>1, <1>2

(* A lookup returns None or the newest of the items it was given.          *)
LEMMA LookupNewest ==
    ASSUME NEW items, NEW item \in Lookup(items), item # None
    PROVE  item \in items /\ \A q \in items : q.at <= item.at
BY DEF Lookup, Latest

(* A scan returns items of one of the two copies of the table.             *)
LEMMA ViewsKnown ==
    ASSUME NEW view \in Views
    PROVE  view \subseteq rows \cup replica
BY DEF Views

LEMMA NextMonotone ==
    ASSUME TypeOK, [Next]_vars
    PROVE  PartnerMonotone
<1> USE DEF PartnerMonotone, TypeOK
<1>1. CASE UNCHANGED vars
    BY <1>1 DEF vars
<1>2. CASE \E x \in Hashes : Screen(x)
    BY <1>2 DEF Screen
<1>3. CASE \E s \in Sales : Settle(s)
    BY <1>3 DEF Settle, Verdicts
<1>4. ASSUME NEW h \in Handlers, SaleAccepted(h)
      PROVE  PartnerMonotone
    BY <1>4 DEF SaleAccepted
<1>5. CASE UNCHANGED partnerVars
    BY <1>5 DEF partnerVars
<1>6. ASSUME NEW h \in Handlers, Step(h), ~SaleAccepted(h)
      PROVE  UNCHANGED partnerVars
    BY <1>6 DEF Step, Commit, PutError, ReadByHash, RecordAmlFailed, Send,
        BalanceSuffices, DetailsFound, SaleRefused, GiveUp, RecordSale, ReadByBank,
        RecordOutcome
<1>7. ASSUME NEW h \in Handlers,
             \/ \E q \in Requests : SellCrypto(h, q)
             \/ \E x \in Hashes : ReceiveDeposit(h, x)
             \/ \E s \in Sales : ReceiveFiat(h, s)
      PROVE  UNCHANGED partnerVars
    BY <1>7 DEF SellCrypto, ReceiveDeposit, ReceiveFiat
<1>8. CASE Crash \/ ReplicaCatchesUp
    BY <1>5, <1>8 DEF Crash, ReplicaCatchesUp
<1> QED
    BY <1>1, <1>2, <1>3, <1>4, <1>5, <1>6, <1>7, <1>8 DEF Next

(* What was true of the partner stays true.                                *)
LEMMA GoodRowStable ==
    ASSUME TypeOK, PartnerMonotone, NEW r, GoodRow(r)
    PROVE  GoodRow(r)'
BY DEF TypeOK, PartnerMonotone, GoodRow, RowTruthful, Sold, Row, Statuses,
    CryptoCompleted, AmlFailed, FiatInit, FiatCompleted, FiatFailed

LEMMA JobStable ==
    ASSUME TypeOK, PartnerMonotone, NEW j \in Job, JobTruthful(j)
    PROVE  JobTruthful(j)'
<1>1. CASE j = Idle
    BY <1>1 DEF JobTruthful
<1>2. CASE j.kind = "post" /\ PostTruthful(j)
    BY <1>2, GoodRowStable DEF JobTruthful, PostTruthful
<1>3. CASE j.kind = "deposit" /\ DepositTruthful(j)
    <2>1. GoodRow(j.snap) => GoodRow(j.snap)'
        BY GoodRowStable
    <2>2. GoodRow(j.row) => GoodRow(j.row)'
        BY GoodRowStable
    <2>3. j.sale # None => j.sale \in Sales
        BY DEF Job
    <2> QED
    BY <1>3, <2>1, <2>2, <2>3 DEF JobTruthful, DepositTruthful, Sold, PartnerMonotone, TypeOK
<1>4. CASE j.kind = "fiat" /\ FiatTruthful(j)
    <2>1. GoodRow(j.snap) => GoodRow(j.snap)'
        BY GoodRowStable
    <2>2. GoodRow(j.row) => GoodRow(j.row)'
        BY GoodRowStable
    <2> QED
    BY <1>4, <2>1, <2>2 DEF JobTruthful, FiatTruthful, Sold, PartnerMonotone, TypeOK
<1> QED
    BY <1>1, <1>2, <1>3, <1>4 DEF JobTruthful

(* One request moves: the others, and the table, keep what they knew.      *)
LEMMA OneJobMoves ==
    ASSUME TruthInv, PartnerMonotone, NEW h \in Handlers,
           \A g \in Handlers \ {h} : job'[g] = job[g],
           JobTruthful(job[h])'
    PROVE  \A g \in Handlers : JobTruthful(job[g])'
<1> SUFFICES ASSUME NEW g \in Handlers, g # h
             PROVE  JobTruthful(job[g])'
    OBVIOUS
<1>1. JobTruthful(job[g])
    BY DEF TruthInv
<1>2. job'[g] = job[g]
    OBVIOUS
<1> QED
    BY <1>1, <1>2, JobStable DEF TruthInv, TypeOK

(* A step that leaves the table alone and moves one request to a truthful  *)
(* state keeps the invariant.                                              *)
LEMMA TruthAfterJobMove ==
    ASSUME TruthInv, PartnerMonotone, NEW h \in Handlers,
           NEW j \in Job, job' = [job EXCEPT ![h] = j], JobTruthful(j)',
           UNCHANGED <<rows, replica>>, TypeOK'
    PROVE  TruthInv'
<1>1. \A g \in Handlers : JobTruthful(job[g])'
    <2>1. job'[h] = j /\ \A g \in Handlers \ {h} : job'[g] = job[g]
        BY DEF TruthInv, TypeOK
    <2>2. JobTruthful(job[h])'
        BY <2>1
    <2> QED
        BY <2>1, <2>2, OneJobMoves
<1>2. \A r \in rows' \cup replica' : GoodRow(r)'
    BY GoodRowStable DEF TruthInv
<1> QED
    BY <1>1, <1>2 DEF TruthInv

LEMMA IdleIsJob == Idle \in Job /\ JobTruthful(Idle)
BY DEF Idle, Job, JobTruthful

LEMMA IdleTruthful == JobTruthful(Idle)'
BY DEF JobTruthful

(* The types of the variables a request's step may change.                 *)
LEMMA TypeAfterJobMove ==
    ASSUME TypeOK, NEW h \in Handlers, NEW j \in Job, job' = [job EXCEPT ![h] = j],
           UNCHANGED <<rows, replica, posts, partnerVars>>,
           clock' \in Nat, mishaps' \in 0..MaxMishaps
    PROVE  TypeOK'
BY DEF TypeOK, StoreTypeOK, partnerVars

LEMMA TruthInit == Init => TruthInv
BY IdleIsJob, OfframpAssumption
    DEF Init, StoreInit, TruthInv, TypeOK, StoreTypeOK, OfframpAssumption

LEMMA MishapBounded ==
    ASSUME TypeOK, NEW kind, Mishap(kind)
    PROVE  mishaps' \in 0..MaxMishaps
BY OfframpAssumption DEF TypeOK, Mishap

(* Stamping and sending an item.                                           *)
LEMMA SendKeepsTruth ==
    ASSUME TruthInv, PartnerMonotone, NEW h \in Handlers, NEW item \in Row,
           Send(h, item), job[h].kind \in {"deposit", "fiat"},
           \A now \in Nat : JobTruthful([job[h] EXCEPT !.pc = "put",
                                !.row = [item EXCEPT !.at = now]])
    PROVE  TruthInv'
<1>1. PICK now \in Now :
        /\ clock' = now
        /\ job' = [job EXCEPT ![h].pc = "put",
                              ![h].row = [item EXCEPT !.at = now]]
        /\ UNCHANGED <<rows, replica, posts, mishaps, partnerVars>>
    BY DEF Send
<1>2. now \in Nat
    BY NowNat DEF TruthInv, TypeOK
<1> DEFINE j == [job[h] EXCEPT !.pc = "put", !.row = [item EXCEPT !.at = now]]
<1>3. job[h] \in Job
    BY DEF TruthInv, TypeOK
<1>4. j \in Job
    BY <1>2, <1>3 DEF Job, Row
<1>5. job' = [job EXCEPT ![h] = j]
    BY <1>1 DEF TruthInv, TypeOK
<1>6. JobTruthful(j)
    BY <1>2
<1> HIDE DEF j
<1>7. TypeOK'
    BY <1>1, <1>2, <1>4, <1>5, TypeAfterJobMove DEF TruthInv, TypeOK
<1>8. \A k \in Job : JobTruthful(k) => JobTruthful(k)'
    BY JobStable DEF TruthInv
<1> QED
    BY <1>1, <1>4, <1>5, <1>6, <1>7, <1>8, TruthAfterJobMove

(* The type obligations of a step that leaves the partner and clock alone. *)
LEMMA MoveKeepsTruth ==
    ASSUME TruthInv, PartnerMonotone, NEW h \in Handlers, NEW j \in Job,
           job' = [job EXCEPT ![h] = j], JobTruthful(j),
           UNCHANGED <<rows, replica, posts, partnerVars>>,
           clock' \in Nat, mishaps' \in 0..MaxMishaps
    PROVE  TruthInv'
<1>1. TypeOK'
    BY TypeAfterJobMove DEF TruthInv
<1>2. JobTruthful(j)'
    BY JobStable DEF TruthInv
<1> QED
    BY <1>1, <1>2, TruthAfterJobMove

(* The request's item reaches the table.                                   *)
LEMMA CommitKeepsTruth ==
    ASSUME TruthInv, PartnerMonotone, NEW h \in Handlers, Commit(h)
    PROVE  TruthInv'
<1> DEFINE item == job[h].row
<1>1. JobTruthful(job[h]) /\ job[h].pc = "put"
    BY DEF TruthInv, Commit
<1>2. GoodRow(item)
    BY <1>1 DEF JobTruthful, PostTruthful, DepositTruthful, FiatTruthful, Idle
<1>3. rows' \subseteq rows \cup {item} /\ replica' \subseteq replica \cup {item}
    BY PutAdds DEF Commit, PutItem
<1>4. \A r \in rows' \cup replica' : GoodRow(r)'
    BY <1>2, <1>3, GoodRowStable DEF TruthInv
<1>5. TypeOK'
    BY <1>2, <1>3, IdleIsJob
    DEF Commit, Answer, TruthInv, TypeOK, StoreTypeOK, GoodRow, partnerVars
<1>6. \A g \in Handlers : JobTruthful(job[g])'
    <2>1. job'[h] = Idle /\ \A g \in Handlers \ {h} : job'[g] = job[g]
        BY DEF Commit, Answer, TruthInv, TypeOK
    <2>2. JobTruthful(job[h])'
        BY <2>1, IdleTruthful
    <2> QED
        BY <2>1, <2>2, OneJobMoves
<1> QED
    BY <1>4, <1>5, <1>6 DEF TruthInv

LEMMA ReadByHashKeepsTruth ==
    ASSUME TruthInv, PartnerMonotone, NEW h \in Handlers, ReadByHash(h)
    PROVE  TruthInv'
<1>0. PICK view \in Views : \E item \in getTransactionByTxnHash(view, job[h].hash) :
        /\ Scan(view)
        /\ \/ Answer(h)
           \/ /\ OrderAwaits(item)
              /\ job[h].verdict = "failed"
              /\ job' = [job EXCEPT ![h].pc = "amlFailed", ![h].snap = item]
           \/ /\ OrderAwaits(item)
              /\ job[h].verdict = "completed"
              /\ job' = [job EXCEPT ![h].pc = "balance", ![h].snap = item]
    BY DEF ReadByHash
<1>1. PICK item \in getTransactionByTxnHash(view, job[h].hash) :
        /\ Scan(view)
        /\ \/ Answer(h)
           \/ /\ OrderAwaits(item)
              /\ job[h].verdict = "failed"
              /\ job' = [job EXCEPT ![h].pc = "amlFailed", ![h].snap = item]
           \/ /\ OrderAwaits(item)
              /\ job[h].verdict = "completed"
              /\ job' = [job EXCEPT ![h].pc = "balance", ![h].snap = item]
    BY <1>0
<1>2. UNCHANGED <<rows, replica, clock, posts, partnerVars>>
    BY DEF ReadByHash, storeVars
<1>3. mishaps' \in 0..MaxMishaps
    BY <1>1, MishapBounded DEF Scan, TruthInv, TypeOK
<1>4. clock' \in Nat
    BY <1>2 DEF TruthInv, TypeOK, StoreTypeOK
<1>5. job[h] \in Job /\ JobTruthful(job[h]) /\ At(h, "deposit", "read")
    BY DEF TruthInv, TypeOK, ReadByHash
<1>6. CASE Answer(h)
    BY <1>2, <1>3, <1>4, <1>6, IdleIsJob, MoveKeepsTruth DEF Answer
<1>7. ASSUME OrderAwaits(item)
      PROVE  GoodRow(item) /\ item.hash = job[h].hash /\ item.status = CryptoCompleted
    <2>1. item \in view /\ item.hash = job[h].hash
        BY <1>7, LookupNewest DEF getTransactionByTxnHash, OrderAwaits
    <2> QED
        BY <1>7, <2>1, ViewsKnown DEF OrderAwaits, TruthInv
<1>8. ASSUME NEW pc \in {"amlFailed", "balance"}, OrderAwaits(item),
             job[h].verdict = (IF pc = "balance" THEN "completed" ELSE "failed"),
             job' = [job EXCEPT ![h].pc = pc, ![h].snap = item]
      PROVE  TruthInv'
    <2> DEFINE j == [job[h] EXCEPT !.pc = pc, !.snap = item]
    <2>1. job' = [job EXCEPT ![h] = j]
        BY <1>8 DEF TruthInv, TypeOK
    <2>2. j \in Job
        BY <1>5, <1>7, <1>8 DEF Job, GoodRow
    <2>3. JobTruthful(j)
        <3>1. job[h].kind = "deposit" /\ DepositTruthful(job[h])
            BY <1>5 DEF At, JobTruthful, Idle
        <3>2. DepositTruthful(j)
            BY <1>5, <1>7, <1>8, <3>1 DEF DepositTruthful, At, Job
        <3> QED
            BY <1>5, <3>1, <3>2 DEF JobTruthful, Job
    <2> HIDE DEF j
    <2> QED
        BY <1>2, <1>3, <1>4, <2>1, <2>2, <2>3, MoveKeepsTruth
<1> QED
    BY <1>1, <1>6, <1>8

LEMMA ReadByBankKeepsTruth ==
    ASSUME TruthInv, PartnerMonotone, NEW h \in Handlers, ReadByBank(h)
    PROVE  TruthInv'
<1>0. PICK view \in Views : \E item \in getTransactionByBankTxnId(view, job[h].sale) :
        /\ Scan(view)
        /\ \/ Answer(h)
           \/ /\ SaleAwaits(item)
              /\ job[h].verdict \in {"completed", "failed"}
              /\ job' = [job EXCEPT ![h].pc = "settle", ![h].snap = item]
    BY DEF ReadByBank
<1>1. PICK item \in getTransactionByBankTxnId(view, job[h].sale) :
        /\ Scan(view)
        /\ \/ Answer(h)
           \/ /\ SaleAwaits(item)
              /\ job[h].verdict \in {"completed", "failed"}
              /\ job' = [job EXCEPT ![h].pc = "settle", ![h].snap = item]
    BY <1>0
<1>2. UNCHANGED <<rows, replica, clock, posts, partnerVars>>
    BY DEF ReadByBank, storeVars
<1>3. mishaps' \in 0..MaxMishaps
    BY <1>1, MishapBounded DEF Scan, TruthInv, TypeOK
<1>4. clock' \in Nat
    BY <1>2 DEF TruthInv, TypeOK, StoreTypeOK
<1>5. job[h] \in Job /\ JobTruthful(job[h]) /\ At(h, "fiat", "read")
    BY DEF TruthInv, TypeOK, ReadByBank
<1>6. CASE Answer(h)
    BY <1>2, <1>3, <1>4, <1>6, IdleIsJob, MoveKeepsTruth DEF Answer
<1>7. ASSUME SaleAwaits(item),
             job[h].verdict \in {"completed", "failed"},
             job' = [job EXCEPT ![h].pc = "settle", ![h].snap = item]
      PROVE  TruthInv'
    <2> DEFINE j == [job[h] EXCEPT !.pc = "settle", !.snap = item]
    <2>1. GoodRow(item) /\ item.bank = job[h].sale /\ item.status = FiatInit
        <3>1. item \in view /\ item.bank = job[h].sale
            BY <1>7, LookupNewest DEF getTransactionByBankTxnId, SaleAwaits
        <3> QED
            BY <1>7, <3>1, ViewsKnown DEF SaleAwaits, TruthInv
    <2>2. job' = [job EXCEPT ![h] = j]
        BY <1>7 DEF TruthInv, TypeOK
    <2>3. j \in Job
        BY <1>5, <2>1 DEF Job, GoodRow
    <2>4. JobTruthful(j)
        <3>1. job[h].kind = "fiat" /\ FiatTruthful(job[h])
            BY <1>5 DEF At, JobTruthful, Idle
        <3>2. job[h].verdict \in {"completed", "failed"}
            BY <1>5, <1>7, <3>1 DEF FiatTruthful, Job, At
        <3>3. FiatTruthful(j)
            BY <1>5, <1>7, <2>1, <3>1, <3>2 DEF FiatTruthful, At, Job
        <3> QED
            BY <1>5, <3>1, <3>3 DEF JobTruthful, Job
    <2> HIDE DEF j
    <2> QED
        BY <1>2, <1>3, <1>4, <2>2, <2>3, <2>4, MoveKeepsTruth
<1> QED
    BY <1>1, <1>6, <1>7

LEMMA RecordAmlFailedKeepsTruth ==
    ASSUME TruthInv, PartnerMonotone, NEW h \in Handlers, RecordAmlFailed(h)
    PROVE  TruthInv'
<1> DEFINE item == [job[h].snap EXCEPT !.status = AmlFailed]
<1>1. job[h] \in Job /\ JobTruthful(job[h]) /\ At(h, "deposit", "amlFailed")
    BY DEF TruthInv, TypeOK, RecordAmlFailed
<1>2. DepositTruthful(job[h])
    BY <1>1 DEF At, JobTruthful, Idle
<1>3. GoodRow(job[h].snap) /\ job[h].snap.bank = None /\ job[h].sale = None
    BY <1>1, <1>2 DEF At, DepositTruthful, GoodRow, RowTruthful
<1>4. screening[job[h].hash] = "failed"
    BY <1>1, <1>2 DEF At, DepositTruthful
<1>5. item \in Row
    BY <1>3 DEF GoodRow, Row, Statuses
<1>6. ASSUME NEW now \in Nat
      PROVE  JobTruthful([job[h] EXCEPT !.pc = "put", !.row = [item EXCEPT !.at = now]])
    <2> DEFINE r == [item EXCEPT !.at = now]
    <2>1. GoodRow(r) /\ r.bank = None /\ r.hash = job[h].hash
        BY <1>1, <1>2, <1>3, <1>4
        DEF GoodRow, RowTruthful, Row, Statuses, DepositTruthful, At,
            CryptoCompleted, AmlFailed, FiatInit, FiatCompleted, FiatFailed
    <2> HIDE DEF r
    <2>2. JobTruthful([job[h] EXCEPT !.pc = "put", !.row = r])
        BY <1>1, <1>2, <1>3, <2>1 DEF JobTruthful, DepositTruthful, At, Job
    <2> QED
        BY <2>2 DEF r
<1> HIDE DEF item
<1>7. Send(h, item)
    BY DEF RecordAmlFailed, item
<1> QED
    BY <1>1, <1>5, <1>6, <1>7, SendKeepsTruth DEF At

LEMMA RecordSaleKeepsTruth ==
    ASSUME TruthInv, PartnerMonotone, NEW h \in Handlers, RecordSale(h)
    PROVE  TruthInv'
<1> DEFINE item == SaleItem(job[h])
<1>1. job[h] \in Job /\ JobTruthful(job[h]) /\ At(h, "deposit", "sold")
    BY DEF TruthInv, TypeOK, RecordSale
<1>2. DepositTruthful(job[h])
    BY <1>1 DEF At, JobTruthful, Idle
<1>7. CASE Answer(h) /\ UNCHANGED <<storeVars, posts, mishaps, partnerVars>>
    BY <1>7, IdleIsJob, MoveKeepsTruth DEF Answer, TruthInv, TypeOK, StoreTypeOK, storeVars
<1> SUFFICES ASSUME Marshalls(item), Send(h, item)
             PROVE  TruthInv'
    BY <1>7 DEF RecordSale
<1>3. /\ GoodRow(job[h].snap)
      /\ job[h].snap.hash = job[h].hash
      /\ job[h].sale \in Sales
      /\ Sold(job[h].sale)
      /\ origin[job[h].sale] = job[h].snap
      /\ screening[job[h].hash] = "completed"
    <2>1. job[h].sale # None
        BY DEF Marshalls, SaleItem
    <2> QED
        BY <1>1, <1>2, <2>1 DEF At, DepositTruthful, Job
<1>4. item \in Row
    BY <1>3 DEF SaleItem, GoodRow, Row, Statuses
<1>5. ASSUME NEW now \in Nat
      PROVE  JobTruthful([job[h] EXCEPT !.pc = "put", !.row = [item EXCEPT !.at = now]])
    <2> DEFINE r == [item EXCEPT !.at = now]
    <2>1. GoodRow(r) /\ r.bank = job[h].sale /\ r.hash = job[h].hash
        BY <1>3, StoreAssumption
        DEF SaleItem, GoodRow, RowTruthful, Row, Statuses, StoreAssumption,
            CryptoCompleted, AmlFailed, FiatInit, FiatCompleted, FiatFailed
    <2> HIDE DEF r
    <2>2. JobTruthful([job[h] EXCEPT !.pc = "put", !.row = r])
        BY <1>1, <1>2, <1>3, <2>1 DEF JobTruthful, DepositTruthful, At, Job
    <2> QED
        BY <2>2 DEF r
<1> HIDE DEF item
<1> QED
    BY <1>1, <1>4, <1>5, SendKeepsTruth DEF At

LEMMA RecordOutcomeKeepsTruth ==
    ASSUME TruthInv, PartnerMonotone, NEW h \in Handlers, RecordOutcome(h)
    PROVE  TruthInv'
<1> DEFINE item == [job[h].snap EXCEPT !.status = FiatOutcome(job[h].verdict)]
<1>1. job[h] \in Job /\ JobTruthful(job[h]) /\ At(h, "fiat", "settle")
    BY DEF TruthInv, TypeOK, RecordOutcome
<1>2. FiatTruthful(job[h])
    BY <1>1 DEF At, JobTruthful, Idle
<1>3. /\ GoodRow(job[h].snap)
      /\ job[h].snap.status = FiatInit
      /\ job[h].snap.bank = job[h].sale
      /\ job[h].sale \in Sales
      /\ job[h].verdict \in {"completed", "failed"}
      /\ stage[job[h].sale] = job[h].verdict
    BY <1>1, <1>2 DEF At, FiatTruthful
<1>4. item \in Row
    BY <1>3 DEF FiatOutcome, GoodRow, Row, Statuses
<1>5. ASSUME NEW now \in Nat
      PROVE  JobTruthful([job[h] EXCEPT !.pc = "put", !.row = [item EXCEPT !.at = now]])
    <2> DEFINE r == [item EXCEPT !.at = now]
    <2>1. GoodRow(r) /\ r.bank = job[h].sale
        BY <1>3, StoreAssumption
        DEF FiatOutcome, GoodRow, RowTruthful, Row, Statuses, StoreAssumption,
            CryptoCompleted, AmlFailed, FiatInit, FiatCompleted, FiatFailed
    <2> HIDE DEF r
    <2>2. JobTruthful([job[h] EXCEPT !.pc = "put", !.row = r])
        BY <1>1, <1>2, <1>3, <2>1 DEF JobTruthful, FiatTruthful, At, Job
    <2> QED
        BY <2>2 DEF r
<1> HIDE DEF item
<1>6. Send(h, item)
    BY DEF RecordOutcome, item
<1> QED
    BY <1>1, <1>4, <1>5, <1>6, SendKeepsTruth DEF At

LEMMA SellCryptoKeepsTruth ==
    ASSUME TruthInv, PartnerMonotone, NEW h \in Handlers, NEW q \in Requests,
           SellCrypto(h, q)
    PROVE  TruthInv'
<1>1. PICK now \in Now :
        /\ clock' = now
        /\ job' = [job EXCEPT ![h] =
                    [Idle EXCEPT !.kind = "post", !.pc = "put",
                        !.row = [txId |-> q.txId, hash |-> q.hash, bank |-> None,
                                 status |-> CryptoCompleted, at |-> now]]]
    BY DEF SellCrypto
<1> DEFINE r == [txId |-> q.txId, hash |-> q.hash, bank |-> None,
                 status |-> CryptoCompleted, at |-> now]
           j == [Idle EXCEPT !.kind = "post", !.pc = "put", !.row = r]
<1>2. now \in Nat
    BY NowNat DEF TruthInv, TypeOK
<1>3. q.txId \in TxIds /\ q.hash \in Hashes
    BY OfframpAssumption DEF OfframpAssumption
<1>4. GoodRow(r) /\ r \in Row /\ r.bank = None
    BY <1>2, <1>3
    DEF GoodRow, RowTruthful, Row, Statuses,
        CryptoCompleted, AmlFailed, FiatInit, FiatCompleted, FiatFailed
<1> HIDE DEF r
<1>5. j \in Job /\ JobTruthful(j)
    BY <1>4 DEF Job, Idle, JobTruthful, PostTruthful
<1>6. job' = [job EXCEPT ![h] = j]
    BY <1>1 DEF r
<1> HIDE DEF j
<1>7. TypeOK'
    <2>1. posts' \in [Requests -> 0..MaxPosts]
        BY OfframpAssumption DEF OfframpAssumption, SellCrypto, TruthInv, TypeOK
    <2>2. job' \in [Handlers -> Job]
        BY <1>5, <1>6 DEF TruthInv, TypeOK
    <2> QED
        BY <1>1, <1>2, <2>1, <2>2
        DEF TruthInv, TypeOK, StoreTypeOK, SellCrypto, partnerVars
<1>8. JobTruthful(j)'
    BY <1>5, JobStable DEF TruthInv
<1> QED
    BY <1>5, <1>6, <1>7, <1>8, TruthAfterJobMove DEF SellCrypto

LEMMA ReceiveDepositKeepsTruth ==
    ASSUME TruthInv, PartnerMonotone, NEW h \in Handlers, NEW x \in Hashes,
           ReceiveDeposit(h, x)
    PROVE  TruthInv'
<1> DEFINE j == [Idle EXCEPT !.kind = "deposit", !.pc = "read",
                             !.hash = x, !.verdict = screening[x]]
<1>1. j \in Job
    BY DEF Job, Idle, TruthInv, TypeOK
<1>2. JobTruthful(j)
    BY DEF Idle, JobTruthful, DepositTruthful
<1>3. job' = [job EXCEPT ![h] = j]
    BY DEF ReceiveDeposit
<1> HIDE DEF j
<1>4. UNCHANGED <<rows, replica, clock, posts, mishaps, partnerVars>>
    BY DEF ReceiveDeposit, storeVars
<1> QED
    BY <1>1, <1>2, <1>3, <1>4, MoveKeepsTruth DEF TruthInv, TypeOK, StoreTypeOK

LEMMA ReceiveFiatKeepsTruth ==
    ASSUME TruthInv, PartnerMonotone, NEW h \in Handlers, NEW s \in Sales,
           ReceiveFiat(h, s)
    PROVE  TruthInv'
<1> DEFINE j == [Idle EXCEPT !.kind = "fiat", !.pc = "read",
                             !.sale = s, !.verdict = stage[s]]
<1>1. stage[s] \in Verdicts \cup {"pending"}
    BY DEF ReceiveFiat, TruthInv, TypeOK
<1>2. j \in Job
    BY <1>1 DEF Job, Idle
<1>3. JobTruthful(j)
    BY <1>1 DEF Idle, JobTruthful, FiatTruthful, Sold, Verdicts
<1>4. job' = [job EXCEPT ![h] = j]
    BY DEF ReceiveFiat
<1> HIDE DEF j
<1>5. UNCHANGED <<rows, replica, clock, posts, mishaps, partnerVars>>
    BY DEF ReceiveFiat, storeVars
<1> QED
    BY <1>2, <1>3, <1>4, <1>5, MoveKeepsTruth DEF TruthInv, TypeOK, StoreTypeOK

(* The steps between the scan and the sale's item, and the ways out.       *)
LEMMA QuoteKeepsTruth ==
    ASSUME TruthInv, PartnerMonotone, NEW h \in Handlers,
           BalanceSuffices(h) \/ DetailsFound(h) \/ SaleRefused(h)
    PROVE  TruthInv'
<1>1. job[h] \in Job /\ JobTruthful(job[h]) /\ job[h].kind = "deposit"
    BY DEF TruthInv, TypeOK, BalanceSuffices, DetailsFound, SaleRefused, At
<1>2. DepositTruthful(job[h]) /\ job[h].pc \in {"balance", "details", "sell"}
    BY <1>1 DEF JobTruthful, Idle, BalanceSuffices, DetailsFound, SaleRefused, At
<1>3. PICK pc \in {"details", "sell", "sold"} : job' = [job EXCEPT ![h].pc = pc]
    BY DEF BalanceSuffices, DetailsFound, SaleRefused
<1> DEFINE j == [job[h] EXCEPT !.pc = pc]
<1>4. j \in Job /\ JobTruthful(j)
    BY <1>1, <1>2 DEF Job, JobTruthful, DepositTruthful
<1>5. job' = [job EXCEPT ![h] = j]
    BY <1>3 DEF TruthInv, TypeOK
<1> HIDE DEF j
<1>6. UNCHANGED <<rows, replica, clock, posts, mishaps, partnerVars>>
    BY DEF BalanceSuffices, DetailsFound, SaleRefused, storeVars
<1> QED
    BY <1>4, <1>5, <1>6, MoveKeepsTruth DEF TruthInv, TypeOK, StoreTypeOK

LEMMA DroppedKeepsTruth ==
    ASSUME TruthInv, PartnerMonotone, NEW h \in Handlers, GiveUp(h) \/ PutError(h)
    PROVE  TruthInv'
<1>1. UNCHANGED <<rows, replica, clock, posts, partnerVars>> /\ Answer(h)
    BY DEF GiveUp, PutError, storeVars
<1>2. mishaps' \in 0..MaxMishaps
    BY MishapBounded DEF GiveUp, PutError, TruthInv, TypeOK
<1> QED
    BY <1>1, <1>2, IdleIsJob, MoveKeepsTruth DEF Answer, TruthInv, TypeOK, StoreTypeOK

LEMMA SaleAcceptedKeepsTruth ==
    ASSUME TruthInv, PartnerMonotone, NEW h \in Handlers, SaleAccepted(h)
    PROVE  TruthInv'
<1>1. job[h] \in Job /\ JobTruthful(job[h]) /\ At(h, "deposit", "sell")
    BY DEF TruthInv, TypeOK, SaleAccepted
<1>2. DepositTruthful(job[h]) /\ GoodRow(job[h].snap)
    BY <1>1 DEF At, JobTruthful, Idle, DepositTruthful
<1>3. PICK s \in Sales :
        /\ stage[s] = "unsold"
        /\ stage' = [stage EXCEPT ![s] = "pending"]
        /\ origin' = [origin EXCEPT ![s] = job[h].snap]
        /\ \/ /\ job' = [job EXCEPT ![h].pc = "sold", ![h].sale = s]
              /\ UNCHANGED mishaps
           \/ /\ Mishap("lostResponse")
              /\ Answer(h)
    BY DEF SaleAccepted
<1>4. UNCHANGED <<rows, replica, clock, posts, screening>>
    BY DEF SaleAccepted, storeVars
<1>5. mishaps' \in 0..MaxMishaps
    BY <1>3, MishapBounded DEF TruthInv, TypeOK
<1>6. job[h].snap \in Row
    BY <1>2 DEF GoodRow
<1>7. ASSUME NEW j \in Job, job' = [job EXCEPT ![h] = j], JobTruthful(j)'
      PROVE  TruthInv'
    <2>1. TypeOK'
        BY <1>3, <1>4, <1>5, <1>6, <1>7 DEF TruthInv, TypeOK, StoreTypeOK
    <2> QED
        BY <1>4, <1>7, <2>1, TruthAfterJobMove
<1>8. CASE Answer(h)
    BY <1>7, <1>8, IdleIsJob, IdleTruthful DEF Answer
<1>9. CASE job' = [job EXCEPT ![h].pc = "sold", ![h].sale = s]
    <2>1. PICK k \in Job : k = job[h]
        BY <1>1
    <2> DEFINE j == [k EXCEPT !.pc = "sold", !.sale = s]
    <2>2. j \in Job
        BY DEF Job
    <2>3. job' = [job EXCEPT ![h] = j]
        BY <1>9, <2>1 DEF TruthInv, TypeOK
    <2>4. stage'[s] = "pending" /\ origin'[s] = k.snap
        BY <1>3, <2>1 DEF TruthInv, TypeOK
    <2>5. DepositTruthful(k)'
        BY <1>1, <2>1, JobStable DEF At, JobTruthful, Idle, TruthInv
    <2>6. JobTruthful(j)'
        <3>1. s # None
            BY StoreAssumption DEF StoreAssumption
        <3>2. DepositTruthful(j)'
            BY <1>1, <2>1, <2>4, <2>5, <3>1 DEF At, Job, DepositTruthful, Sold
        <3> QED
            BY <1>1, <2>1, <3>2 DEF At, Job, JobTruthful
    <2> HIDE DEF j
    <2> QED
        BY <1>7, <2>2, <2>3, <2>6
<1> QED
    BY <1>3, <1>8, <1>9

(* Steps outside the handlers.                                             *)
LEMMA WorldKeepsTruth ==
    ASSUME TruthInv, PartnerMonotone,
           \/ \E x \in Hashes : Screen(x)
           \/ \E s \in Sales : Settle(s)
           \/ Crash
           \/ ReplicaCatchesUp
           \/ UNCHANGED vars
    PROVE  TruthInv'
<1>1. TypeOK' /\ rows' = rows /\ (replica' = replica \/ Replicate)
    <2>1. CASE \E x \in Hashes : Screen(x)
        BY <2>1 DEF Screen, TruthInv, TypeOK, StoreTypeOK, storeVars
    <2>2. CASE \E s \in Sales : Settle(s)
        BY <2>2 DEF Settle, TruthInv, TypeOK, StoreTypeOK, storeVars
    <2>3. CASE Crash
        <3>1. mishaps' \in 0..MaxMishaps
            BY <2>3, MishapBounded DEF Crash, TruthInv
        <3>2. job' \in [Handlers -> Job]
            BY <2>3, IdleIsJob DEF Crash
        <3> QED
            BY <2>3, <3>1, <3>2
            DEF Crash, TruthInv, TypeOK, StoreTypeOK, storeVars, partnerVars
    <2>4. CASE ReplicaCatchesUp
        <3>1. replica' \subseteq Row
            BY <2>4, PutAdds DEF ReplicaCatchesUp, Replicate, TruthInv, TypeOK, StoreTypeOK
        <3> QED
            BY <2>4, <3>1
            DEF ReplicaCatchesUp, Replicate, TruthInv, TypeOK, StoreTypeOK, partnerVars
    <2>5. CASE UNCHANGED vars
        BY <2>5 DEF vars, TruthInv, TypeOK, StoreTypeOK
    <2> QED
        BY <2>1, <2>2, <2>3, <2>4, <2>5
<1>2. replica' \subseteq rows \cup replica
    BY <1>1, PutAdds DEF Replicate
<1>3. \A r \in rows' \cup replica' : GoodRow(r)'
    BY <1>1, <1>2, GoodRowStable DEF TruthInv
<1>4. ASSUME NEW h \in Handlers
      PROVE  JobTruthful(job[h])'
    <2>1. job'[h] \in {job[h], Idle}
        BY DEF Screen, Settle, Crash, ReplicaCatchesUp, vars
    <2>2. JobTruthful(job[h]) /\ job[h] \in Job
        BY DEF TruthInv, TypeOK
    <2>3. PICK k \in Job : k = job[h]
        BY <2>2
    <2>4. JobTruthful(k)' /\ JobTruthful(Idle)'
        BY <2>2, <2>3, IdleTruthful, JobStable DEF TruthInv
    <2> QED
        BY <2>1, <2>3, <2>4
<1> QED
    BY <1>1, <1>3, <1>4 DEF TruthInv

LEMMA TruthNext ==
    ASSUME TruthInv, [Next]_vars
    PROVE  TruthInv'
<1>1. PartnerMonotone
    BY NextMonotone DEF TruthInv
<1>2. ASSUME NEW h \in Handlers, Step(h)
      PROVE  TruthInv'
    BY <1>1, <1>2, CommitKeepsTruth, DroppedKeepsTruth, ReadByHashKeepsTruth,
        RecordAmlFailedKeepsTruth, QuoteKeepsTruth, SaleAcceptedKeepsTruth,
        RecordSaleKeepsTruth, ReadByBankKeepsTruth, RecordOutcomeKeepsTruth
    DEF Step
<1>3. ASSUME NEW h \in Handlers,
             \/ \E q \in Requests : SellCrypto(h, q)
             \/ \E x \in Hashes : ReceiveDeposit(h, x)
             \/ \E s \in Sales : ReceiveFiat(h, s)
      PROVE  TruthInv'
    BY <1>1, <1>3, SellCryptoKeepsTruth, ReceiveDepositKeepsTruth, ReceiveFiatKeepsTruth
<1> QED
    BY <1>1, <1>2, <1>3, WorldKeepsTruth DEF Next

(* The strengthened invariant, for every environment: any faults, any      *)
(* clock, any number of concurrent requests.                               *)
THEOREM Truth == Spec => []TruthInv
<1>1. Init => TruthInv
    BY TruthInit
<1>2. TruthInv /\ [Next]_vars => TruthInv'
    BY TruthNext
<1> QED
    BY <1>1, <1>2, PTL DEF Spec

(* Every variable keeps its type: no request holds a half-built item, and  *)
(* no status outside the pipeline's own reaches the table.                 *)
THEOREM TypeCorrect == Spec => []TypeOK
<1>1. TruthInv => TypeOK
    BY DEF TruthInv
<1> QED
    BY <1>1, Truth, PTL

(* The table never contradicts the partner, whatever goes wrong.           *)
THEOREM TableTruthful == Spec => []RowsTruthful
<1>1. TruthInv => RowsTruthful
    BY DEF TruthInv, RowsTruthful, GoodRow
<1> QED
    BY <1>1, Truth, PTL
=============================================================================
