-------------------------- MODULE OfframpLegProofs --------------------------
(***************************************************************************)
(* Offramp implements FiatLeg, for any faults, any concurrency and any lag *)
(* of the reads, as long as the clock moves between two stamps: the        *)
(* newest item of a sale is a register that is opened once and closed at   *)
(* most once.  LegInv is the inductive invariant; a step of Offramp opens  *)
(* or closes the register of a sale when it commits the first FIAT_INIT or *)
(* the first outcome item of the sale, and is a stutter otherwise.  The    *)
(* last part is about orders that are posted once and notified one at a    *)
(* time: StatusNeverRegresses, OneSalePerOrder and the refinement of       *)
(* OrderLife, from LegInv, OnceInv and OrderInv.                           *)
(***************************************************************************)
EXTENDS OfframpOnceProofs, OfframpRefinement

-----------------------------------------------------------------------------
(* What a step does to the lagging copy and to the item about to be        *)
(* written.                                                                *)

LEMMA ReplicaChanges ==
    ASSUME [Next]_vars
    PROVE  \/ replica' = replica
           \/ ReplicaCatchesUp
           \/ \E h \in Handlers : Commit(h)
<1>1. ASSUME NEW h \in Handlers, Step(h), ~Commit(h)
      PROVE  replica' = replica
    BY <1>1 DEF Step, PutError, ReadByHash, RecordAmlFailed, Send, BalanceSuffices,
        DetailsFound, SaleRefused, SaleAccepted, GiveUp, RecordSale, ReadByBank, RecordOutcome,
        storeVars
<1>2. ASSUME NEW h \in Handlers,
             \/ \E q \in Requests : SellCrypto(h, q)
             \/ \E x \in Hashes : ReceiveDeposit(h, x)
             \/ \E s \in Sales : ReceiveFiat(h, s)
      PROVE  replica' = replica
    BY <1>2 DEF SellCrypto, ReceiveDeposit, ReceiveFiat, storeVars
<1>3. CASE \/ \E x \in Hashes : Screen(x)
           \/ \E s \in Sales : Settle(s)
           \/ Crash
           \/ UNCHANGED vars
    BY <1>3 DEF Screen, Settle, Crash, vars, storeVars
<1> QED
    BY <1>1, <1>2, <1>3 DEF Next

LEMMA ReplicaKeptNext ==
    ASSUME TruthInv, StampsDistinct, ReplicaKept, [Next]_vars
    PROVE  ReplicaKept'
<1>1. rows \subseteq rows'
    BY RowsKept
<1>2. ASSUME NEW h \in Handlers, Commit(h)
      PROVE  replica' \subseteq rows'
    <2>1. rows' = rows \cup {job[h].row}
        BY <1>2, CommitKeepsRows
    <2>2. replica' \subseteq replica \cup {job[h].row}
        BY <1>2, PutAdds DEF Commit, PutItem
    <2> QED
        BY <2>1, <2>2 DEF ReplicaKept
<1>3. CASE ReplicaCatchesUp
    <2>1. PICK r \in rows : replica' = Put(replica, r)
        BY <1>3 DEF ReplicaCatchesUp, Replicate
    <2> QED
        BY <1>1, <2>1, PutAdds DEF ReplicaKept
<1> QED
    BY <1>1, <1>2, <1>3, ReplicaChanges DEF ReplicaKept

(* An item about to be written was already, or has just been stamped.      *)
LEMMA PutChanges ==
    ASSUME TypeOK, [Next]_vars, NEW g \in Handlers, Stamped(g)'
    PROVE  \/ Stamped(g) /\ job'[g] = job[g]
           \/ job'[g].kind = "post"
           \/ RecordAmlFailed(g)
           \/ RecordSale(g)
           \/ RecordOutcome(g)
<1>1. job[g] \in Job
    BY DEF TypeOK
<1>2. CASE Commit(g) \/ PutError(g) \/ GiveUp(g)
    BY <1>2 DEF Commit, PutError, GiveUp, Answer, TypeOK, Stamped, Idle
<1>3. CASE ReadByHash(g) \/ ReadByBank(g)
    BY <1>1, <1>3 DEF ReadByHash, ReadByBank, Answer, TypeOK, Stamped, Idle, Job
<1>4. CASE \/ BalanceSuffices(g) \/ DetailsFound(g)
           \/ SaleAccepted(g) \/ SaleRefused(g)
    BY <1>1, <1>4 DEF BalanceSuffices, DetailsFound, SaleRefused, SaleAccepted, Answer,
        TypeOK, Stamped, Idle, Job
<1>5. CASE \E q \in Requests : SellCrypto(g, q)
    BY <1>5 DEF SellCrypto, TypeOK, Idle
<1>6. CASE \/ \E x \in Hashes : ReceiveDeposit(g, x)
           \/ \E s \in Sales : ReceiveFiat(g, s)
    BY <1>6 DEF ReceiveDeposit, ReceiveFiat, TypeOK, Stamped, Idle
<1>7. CASE job'[g] = Idle \/ job'[g] = job[g]
    BY <1>7 DEF Stamped, Idle
<1> QED
    BY <1>2, <1>3, <1>4, <1>5, <1>6, <1>7, JobChanges DEF Step

(* A fiat notification goes on with an item of the table.                  *)
LEMMA ReadByBankKnown ==
    ASSUME TypeOK, ReplicaKept, NEW h \in Handlers, ReadByBank(h), HasRead(h)'
    PROVE  job'[h].snap \in rows /\ ~Stamped(h)'
<1>1. PICK view \in Views : \E item \in getTransactionByBankTxnId(view, job[h].sale) :
        \/ Answer(h)
        \/ SaleAwaits(item) /\ job' = [job EXCEPT ![h].pc = "settle", ![h].snap = item]
    BY DEF ReadByBank
<1>2. PICK item \in getTransactionByBankTxnId(view, job[h].sale) :
        \/ Answer(h)
        \/ SaleAwaits(item) /\ job' = [job EXCEPT ![h].pc = "settle", ![h].snap = item]
    BY <1>1
<1>3. ~Answer(h)
    BY DEF Answer, TypeOK, HasRead, Idle
<1>4. item # None
    BY <1>2, <1>3 DEF SaleAwaits
<1>5. item \in view
    BY <1>2, <1>4, LookupNewest DEF getTransactionByBankTxnId
<1>6. job'[h].snap = item /\ job'[h].pc = "settle"
    BY <1>2, <1>3 DEF TypeOK, Job
<1> QED
    BY <1>5, <1>6, ViewsKnown DEF ReplicaKept, Stamped

(* The item a commit adds, by the request that commits it.                 *)
LEMMA CommittedItem ==
    ASSUME TruthInv, HeldOnce, OutcomesLater, NEW h \in Handlers, Commit(h),
           job[h].row.bank # None
    PROVE  /\ GoodRow(job[h].row)
           /\ \/ /\ job[h].kind = "deposit"
                 /\ job[h].row.bank = job[h].sale
                 /\ job[h].row.status = FiatInit
                 /\ ~Recorded(job[h].row.bank)
              \/ /\ job[h].kind = "fiat"
                 /\ job[h].snap \in rows
                 /\ job[h].snap.bank = job[h].row.bank
                 /\ job[h].snap.status = FiatInit
                 /\ job[h].row.status \in FinalStatuses
                 /\ job[h].snap.at < job[h].row.at
<1>1. JobTruthful(job[h]) /\ job[h].pc = "put"
    BY DEF TruthInv, Commit
<1>2. CASE job[h].kind = "deposit"
    BY <1>1, <1>2 DEF JobTruthful, DepositTruthful, Idle, HeldOnce, Stamped
<1>3. CASE job[h].kind = "fiat"
    BY <1>1, <1>3 DEF JobTruthful, FiatTruthful, Idle, OutcomesLater, Stamped
<1>4. CASE job[h].kind = "post"
    BY <1>1, <1>4 DEF JobTruthful, PostTruthful, Idle
<1> QED
    BY <1>1, <1>2, <1>3, <1>4 DEF JobTruthful, Idle

-----------------------------------------------------------------------------
(* The parts of LegInv.                                                    *)

LEMMA HeldOnceNext ==
    ASSUME TruthInv, LegInv, [Next]_vars, TruthInv'
    PROVE  HeldOnce'
<1> USE DEF LegInv
<1>1. TypeOK /\ TypeOK'
    BY DEF TruthInv
<1>a. \A h \in Handlers : job'[h].sale # None => job'[h].sale \in Sales
    BY <1>1 DEF TypeOK, Job
<1> SUFFICES ASSUME NEW h \in Handlers, job'[h].kind = "deposit",
                    NEW s \in Sales, job'[h].sale = s
             PROVE  /\ ~Recorded(s)'
                    /\ \A g \in Handlers \ {h} :
                        job'[g].kind = "deposit" => job'[g].sale # s
                    /\ Stamped(h)' => job'[h].row.status = FiatInit
    BY <1>a DEF HeldOnce
<1>2. s # None
    BY StoreAssumption DEF StoreAssumption
<1>3. ASSUME Stamped(h)'
      PROVE  job'[h].row.status = FiatInit
    <2>1. CASE Stamped(h) /\ job'[h] = job[h]
        BY <1>2, <2>1 DEF HeldOnce
    <2>2. CASE RecordAmlFailed(h)
        <3>1. job[h].sale = None
            BY <2>2 DEF RecordAmlFailed, At, TruthInv, JobTruthful, DepositTruthful, Idle
        <3> QED
            BY <1>1, <1>2, <2>2, <3>1, SendShape DEF RecordAmlFailed
    <2>3. CASE RecordSale(h)
        <3>1. PICK now : job' = [job EXCEPT ![h].pc = "put",
                                            ![h].row = [SaleItem(job[h]) EXCEPT !.at = now]]
            BY <1>1, <1>3, <2>3 DEF RecordSale, Send, Answer, Stamped, Idle, TypeOK
        <3>2. job'[h] = [job[h] EXCEPT !.pc = "put", !.row = [SaleItem(job[h]) EXCEPT !.at = now]]
            BY <1>1, <3>1 DEF TypeOK
        <3>3. job'[h].row = [SaleItem(job[h]) EXCEPT !.at = now]
            BY <1>1, <3>2 DEF TypeOK, Job
        <3> QED
            BY <3>3 DEF SaleItem
    <2>4. CASE RecordOutcome(h)
        BY <1>1, <2>4, SendShape DEF RecordOutcome, At
    <2> QED
        BY <1>1, <1>3, <2>1, <2>2, <2>3, <2>4, PutChanges
<1>4. CASE job[h].kind = "deposit" /\ job[h].sale = s
    <2>1. /\ ~Recorded(s)
          /\ \A g \in Handlers \ {h} : job[g].kind = "deposit" => job[g].sale # s
        BY <1>2, <1>4 DEF HeldOnce
    <2>2. Sold(s)
        BY <1>2, <1>4 DEF TruthInv, JobTruthful, DepositTruthful, Idle
    <2>3. ASSUME NEW g \in Handlers \ {h}, job'[g].kind = "deposit", job'[g].sale = s
          PROVE  FALSE
        BY <1>1, <2>1, <2>2, <2>3, HeldKept DEF Sold
    <2>4. ASSUME NEW k \in Handlers, Commit(k), job[k].row.bank = s
          PROVE  FALSE
        <3>1. k # h
            BY <1>1, <2>4 DEF Commit, Answer, TypeOK, Idle
        <3> QED
            BY <1>2, <2>1, <2>4, <3>1, CommittedItem DEF Recorded
    <2>5. ~Recorded(s)'
        BY <2>1, <2>4, StepKinds, CommitEffect DEF StampStep, QuietStep, Recorded
    <2> QED
        BY <1>3, <2>3, <2>5
<1>5. CASE SaleAccepted(h) /\ stage[s] = "unsold"
    <2>1. ~Recorded(s) /\ ~Held(s)
        BY <1>5, UnsoldUnaccounted DEF Accounted, Sold
    <2>2. rows' = rows /\ \A g \in Handlers \ {h} : job'[g] = job[g]
        BY <1>1, <1>5 DEF SaleAccepted, Answer, storeVars, TypeOK
    <2> QED
        BY <1>3, <2>1, <2>2 DEF Recorded, Held
<1> QED
    BY <1>1, <1>4, <1>5, HeldKept

LEMMA OutcomesLaterNext ==
    ASSUME StrictClock, TruthInv, LegInv, [Next]_vars
    PROVE  OutcomesLater'
<1> USE DEF LegInv
<1>1. TypeOK /\ rows \subseteq rows' /\ clock \in Nat /\ \A r \in rows : r \in Row
    BY RowsKept DEF TruthInv, TypeOK, StoreTypeOK
<1> SUFFICES ASSUME NEW h \in Handlers, job'[h].kind = "fiat", job'[h].pc # "read"
             PROVE  /\ job'[h].snap \in rows'
                    /\ Stamped(h)' =>
                        /\ job'[h].row.status \in FinalStatuses
                        /\ job'[h].snap.at < job'[h].row.at
    BY DEF OutcomesLater
<1>2. HasRead(h)'
    BY DEF HasRead
<1>3. CASE ReadByBank(h)
    BY <1>1, <1>2, <1>3, ReadByBankKnown
<1>4. CASE HasRead(h) /\ job'[h].snap = job[h].snap /\ job'[h].kind = job[h].kind
    <2>1. job[h].kind = "fiat" /\ job[h].pc # "read" /\ job[h].snap \in rows
        BY <1>4 DEF HasRead, OutcomesLater
    <2>2. CASE Stamped(h) /\ job'[h] = job[h]
        BY <1>1, <2>1, <2>2 DEF OutcomesLater
    <2>3. CASE RecordOutcome(h)
        <3>. DEFINE item == [job[h].snap EXCEPT !.status = FiatOutcome(job[h].verdict)]
        <3>1. PICK now \in Now : job' = [job EXCEPT ![h].pc = "put",
                                            ![h].row = [item EXCEPT !.at = now]]
            BY <2>3 DEF RecordOutcome, Send
        <3>2. now \in Nat /\ clock < now
            <4>1. PICK d \in Advance : now = clock + d
                BY <3>1 DEF Now
            <4>2. d \in Nat /\ d # 0
                BY StoreAssumption DEF StoreAssumption, StrictClock
            <4> QED
                BY <1>1, <4>1, <4>2
        <3>3. job'[h] = [job[h] EXCEPT !.pc = "put", !.row = [item EXCEPT !.at = now]]
            BY <1>1, <3>1 DEF TypeOK
        <3>4. job'[h].row = [item EXCEPT !.at = now]
            BY <1>1, <3>3 DEF TypeOK, Job
        <3>5. job[h].snap \in Row /\ job[h].snap.at <= clock
            BY <1>1, <2>1 DEF StampsDistinct
        <3>6. item \in [txId : TxIds, hash : Hashes \cup {None}, bank : Sales \cup {None},
                        status : {FiatOutcome(job[h].verdict)}, at : Nat]
            BY <3>5 DEF Row
        <3>7. job'[h].row.at = now /\ job'[h].row.status = FiatOutcome(job[h].verdict)
            BY <3>4, <3>6
        <3>8. job[h].snap.at < now
            BY <1>1, <3>2, <3>5 DEF Row
        <3> QED
            BY <1>1, <1>4, <2>1, <3>7, <3>8 DEF FiatOutcome, FinalStatuses
    <2>4. CASE RecordAmlFailed(h) \/ RecordSale(h)
        BY <2>1, <2>4 DEF RecordAmlFailed, RecordSale, At
    <2> QED
        BY <1>1, <1>4, <2>1, <2>2, <2>3, <2>4, PutChanges
<1>5. CASE ReadByHash(h) /\ job[h].kind = "deposit"
    BY <1>1, <1>5, StepShape DEF Step, Idle
<1> QED
    BY <1>1, <1>2, <1>3, <1>4, <1>5, SnapKept

LEMMA OpenedOnceNext ==
    ASSUME TruthInv, LegInv, [Next]_vars
    PROVE  OpenedOnce'
<1> USE DEF LegInv
<1>1. CASE rows' = rows
    BY <1>1 DEF OpenedOnce
<1>2. ASSUME NEW h \in Handlers, Commit(h)
      PROVE  OpenedOnce'
    <2>. DEFINE x == job[h].row
    <2>1. rows' = rows \cup {x} /\ GoodRow(x) /\ \A r \in rows : GoodRow(r)
        BY <1>2, CommitKeepsRows, StampedRow, CommitEffect DEF TruthInv
    <2>2. FiatInit \notin FinalStatuses
        BY DEF FinalStatuses, FiatInit, FiatCompleted, FiatFailed
    <2>3. \A r \in rows \cup {x} : r.status = FiatInit => r.bank # None
        BY <2>1 DEF GoodRow, RowTruthful, FiatInit, CryptoCompleted, AmlFailed
    <2>4. ASSUME NEW r \in rows \cup {x}, NEW q \in rows \cup {x},
                 r.bank = q.bank, r.status = FiatInit
          PROVE  /\ q.status = FiatInit => q = r
                 /\ q.status \in FinalStatuses => r.at < q.at
        <3>1. CASE r \in rows /\ q \in rows
            BY <2>4, <3>1 DEF OpenedOnce
        <3>2. CASE r = x /\ q = x
            BY <2>2, <2>4, <3>2
        <3>3. CASE r = x /\ q \in rows
            <4>1. Recorded(x.bank)
                BY <2>4, <3>3 DEF Recorded
            <4> QED
                BY <1>2, <2>2, <2>3, <2>4, <3>3, <4>1, CommittedItem
        <3>4. CASE r \in rows /\ q = x
            <4>1. Recorded(x.bank)
                BY <2>4, <3>4 DEF Recorded
            <4>2. /\ job[h].snap \in rows
                  /\ job[h].snap.bank = x.bank
                  /\ job[h].snap.status = FiatInit
                  /\ x.status \in FinalStatuses
                  /\ job[h].snap.at < x.at
                BY <1>2, <2>3, <2>4, <3>4, <4>1, CommittedItem
            <4>3. job[h].snap = r
                BY <2>4, <3>4, <4>2 DEF OpenedOnce
            <4> QED
                BY <2>2, <3>4, <4>2, <4>3
        <3> QED
            BY <3>1, <3>2, <3>3, <3>4
    <2> QED
        BY <2>1, <2>4 DEF OpenedOnce
<1> QED
    BY <1>1, <1>2, StepKinds DEF StampStep, QuietStep

LEMMA NewestKeptNext ==
    ASSUME TruthInv, LegInv, [Next]_vars
    PROVE  NewestKept'
<1> USE DEF LegInv
<1>1. CASE rows' = rows
    BY <1>1 DEF NewestKept, Recorded
<1>2. ASSUME NEW h \in Handlers, Commit(h)
      PROVE  NewestKept'
    <2>. DEFINE x == job[h].row
    <2>1. /\ rows' = rows \cup {x}
          /\ x.at \in Nat
          /\ \A r \in rows : r.at \in Nat
        BY <1>2, CommitKeepsRows, StampedRow, CommitEffect
        DEF TruthInv, TypeOK, StoreTypeOK, Row
    <2>2. ASSUME NEW s \in Sales, Recorded(s)'
          PROVE  \E n \in rows' : n.bank = s /\ \A q \in rows' : q.bank = s => q.at <= n.at
        <3>1. CASE Recorded(s)
            <4>1. PICK n \in rows : n.bank = s /\ \A q \in rows : q.bank = s => q.at <= n.at
                BY <3>1 DEF NewestKept, Latest
            <4>2. CASE x.bank = s /\ n.at <= x.at
                BY <2>1, <4>1, <4>2
            <4>3. CASE x.bank # s \/ ~(n.at <= x.at)
                BY <2>1, <4>1, <4>3
            <4> QED
                BY <4>2, <4>3
        <3>2. CASE ~Recorded(s)
            BY <2>1, <2>2, <3>2 DEF Recorded
        <3> QED
            BY <3>1, <3>2
    <2>3. ASSUME NEW s \in Sales, NEW n \in rows', n.bank = s,
                 \A q \in rows' : q.bank = s => q.at <= n.at
          PROVE  n \in Latest({r \in rows' : r.bank = s})
        BY <2>3 DEF Latest
    <2>4. ASSUME NEW s \in Sales, Recorded(s)'
          PROVE  Latest({r \in rows' : r.bank = s}) # {}
        BY <2>2, <2>3, <2>4
    <2> QED
        BY <2>4 DEF NewestKept
<1> QED
    BY <1>1, <1>2, StepKinds DEF StampStep, QuietStep

LEMMA LegInit == Init => LegInv
BY StampsInit DEF Init, StoreInit, LegInv, ReplicaKept, HeldOnce, OutcomesLater,
    OpenedOnce, NewestKept, Recorded, Idle

LEMMA LegNext ==
    ASSUME StrictClock, TruthInv, LegInv, [Next]_vars
    PROVE  LegInv'
<1>1. StampsDistinct' /\ ReplicaKept'
    BY StampsNext, ReplicaKeptNext DEF LegInv
<1>2. HeldOnce'
    BY TruthNext, HeldOnceNext
<1>3. OutcomesLater' /\ OpenedOnce' /\ NewestKept'
    BY OutcomesLaterNext, OpenedOnceNext, NewestKeptNext
<1> QED
    BY <1>1, <1>2, <1>3 DEF LegInv

(* Every sale has at most one FIAT_INIT item, held or in the table, and    *)
(* every outcome item is newer than it, whatever faults occur.             *)
THEOREM LegHeld ==
    ASSUME StrictClock
    PROVE  Spec => [](TruthInv /\ LegInv)
<1>1. Init => TruthInv /\ LegInv
    BY TruthInit, LegInit
<1>2. TruthInv /\ LegInv /\ [Next]_vars => (TruthInv /\ LegInv)'
    BY TruthNext, LegNext
<1> QED
    BY <1>1, <1>2, PTL DEF Spec
-----------------------------------------------------------------------------
(* The refinement mapping, step by step.                                   *)

(* What the register of a sale shows of its items.                         *)
Shown(items) ==
    IF items = {} THEN "NONE" ELSE (CHOOSE r \in Latest(items) : TRUE).status

LEMMA LegShown == \A s : LegOf(s) = Shown({r \in rows : r.bank = s})
BY DEF LegOf, Shown

LEMMA LegShownNext == \A s : LegOf(s)' = Shown({r \in rows' : r.bank = s})
BY DEF LegOf, Shown

LEMMA LegUnrecorded ==
    ASSUME NEW s \in Sales, ~Recorded(s)
    PROVE  LegOf(s) = "NONE"
BY DEF LegOf, Recorded

(* The register of a recorded sale shows its newest item.                  *)
LEMMA NewestShown ==
    ASSUME NEW items, items # {}, Latest(items) # {}
    PROVE  \E n \in items : Shown(items) = n.status /\ \A q \in items : q.at <= n.at
<1>1. (CHOOSE r \in Latest(items) : TRUE) \in Latest(items)
    OBVIOUS
<1> QED
    BY <1>1 DEF Latest, Shown

LEMMA VerdictKept ==
    ASSUME TypeOK, [Next]_vars
    PROVE  \/ \A s \in Sales : VerdictOf(s)' = VerdictOf(s)
           \/ rows' = rows /\ \E t \in Sales : Settle(t)
<1>1. ASSUME NEW h \in Handlers, SaleAccepted(h)
      PROVE  \A s \in Sales : VerdictOf(s)' = VerdictOf(s)
    BY <1>1 DEF SaleAccepted, VerdictOf, TypeOK
<1>2. CASE UNCHANGED stage
    BY <1>2 DEF VerdictOf
<1>3. ASSUME NEW h \in Handlers, Step(h), ~SaleAccepted(h)
      PROVE  UNCHANGED stage
    BY <1>3 DEF Step, Commit, PutError, ReadByHash, RecordAmlFailed, Send,
        BalanceSuffices, DetailsFound, SaleRefused, GiveUp, RecordSale, ReadByBank,
        RecordOutcome, partnerVars
<1>4. ASSUME NEW h \in Handlers,
             \/ \E q \in Requests : SellCrypto(h, q)
             \/ \E x \in Hashes : ReceiveDeposit(h, x)
             \/ \E t \in Sales : ReceiveFiat(h, t)
      PROVE  UNCHANGED stage
    BY <1>4 DEF SellCrypto, ReceiveDeposit, ReceiveFiat, partnerVars
<1>5. CASE \/ \E x \in Hashes : Screen(x)
           \/ Crash
           \/ ReplicaCatchesUp
           \/ UNCHANGED vars
    BY <1>2, <1>5 DEF Screen, Crash, ReplicaCatchesUp, vars, partnerVars
<1>6. ASSUME NEW t \in Sales, Settle(t)
      PROVE  rows' = rows
    BY <1>6 DEF Settle, storeVars
<1> QED
    BY <1>1, <1>2, <1>3, <1>4, <1>5, <1>6 DEF Next

(* The partner's verdict on a sale is the abstract decision.               *)
LEMMA SettleDecides ==
    ASSUME TypeOK, NEW t \in Sales, Settle(t)
    PROVE  Leg!Decide(t)
<1>1. PICK v \in Verdicts : stage' = [stage EXCEPT ![t] = v]
    BY DEF Settle
<1>2. stage[t] = "pending" /\ rows' = rows
    BY DEF Settle, storeVars
<1>3. \A s \in Sales : LegOf(s)' = LegOf(s)
    BY <1>2 DEF LegOf
<1>4. VerdictOf(t) = "open"
    BY <1>2 DEF VerdictOf
<1>5. \A s \in Sales : VerdictOf(s)' = IF s = t THEN v ELSE VerdictOf(s)
    BY <1>1 DEF VerdictOf, TypeOK, Verdicts
<1>6. [s \in Sales |-> VerdictOf(s)]' = [[s \in Sales |-> VerdictOf(s)] EXCEPT ![t] = v]
    BY <1>5
<1>7. [s \in Sales |-> LegOf(s)]' = [s \in Sales |-> LegOf(s)]
    BY <1>3
<1>8. [s \in Sales |-> VerdictOf(s)][t] = "open"
    BY <1>4
<1> QED
    BY <1>6, <1>7, <1>8 DEF Leg!Decide, Verdicts

(* A committed item without a sale is not seen by the registers.           *)
LEMMA OthersKept ==
    ASSUME TruthInv, StampsDistinct, NEW h \in Handlers, Commit(h), NEW s \in Sales,
           job[h].row.bank # s
    PROVE  LegOf(s)' = LegOf(s)
<1>1. rows' = rows \cup {job[h].row}
    BY CommitKeepsRows
<1>2. {r \in rows' : r.bank = s} = {r \in rows : r.bank = s}
    BY <1>1
<1> QED
    BY <1>2, LegShown, LegShownNext

(* Committing the item of a held sale opens its register.                  *)
LEMMA FirstItemOpens ==
    ASSUME TruthInv, LegInv, NEW h \in Handlers, Commit(h),
           NEW s \in Sales, job[h].row.bank = s,
           ~Recorded(s), job[h].row.status = FiatInit
    PROVE  LegOf(s) = "NONE" /\ LegOf(s)' = "FIAT_INIT"
<1>. DEFINE x == job[h].row
<1>1. rows' = rows \cup {x} /\ x.at \in Nat
    BY CommitKeepsRows, StampedRow, CommitEffect DEF LegInv, Row
<1>2. {r \in rows' : r.bank = s} = {x}
    BY <1>1 DEF Recorded
<1>3. Latest({x}) = {x}
    BY <1>1 DEF Latest
<1>4. LegOf(s)' = x.status
    BY <1>2, <1>3 DEF LegOf
<1> QED
    BY <1>4, LegUnrecorded DEF FiatInit

(* Committing an outcome closes the register of the sale with the          *)
(* partner's verdict, or finds it closed with that verdict.                *)
LEMMA OutcomeCloses ==
    ASSUME TruthInv, LegInv, LegInv', NEW h \in Handlers, Commit(h),
           TruthInv', NEW s \in Sales, job[h].row.bank = s,
           job[h].snap \in rows, job[h].snap.bank = s, job[h].snap.status = FiatInit,
           job[h].row.status \in FinalStatuses,
           job[h].snap.at < job[h].row.at
    PROVE  /\ LegOf(s) \in {FiatInit, LegOf(s)'}
           /\ \/ LegOf(s)' = FiatCompleted /\ VerdictOf(s) = "completed"
              \/ LegOf(s)' = FiatFailed /\ VerdictOf(s) = "failed"
<1>. DEFINE x == job[h].row
            items == {r \in rows : r.bank = s}
            later == {r \in rows' : r.bank = s}
<1>1. rows' = rows \cup {x} /\ stage' = stage
    BY CommitKeepsRows DEF LegInv, Commit, partnerVars
<1>2. items # {} /\ later # {} /\ x \in later /\ job[h].snap \in later
    BY <1>1
<1>3. Latest(items) # {} /\ Latest(later) # {}
    BY <1>2 DEF LegInv, NewestKept, Recorded
<1>4. PICK old \in items : Shown(items) = old.status
    BY <1>2, <1>3, NewestShown
<1>5. PICK new \in later : Shown(later) = new.status /\ x.at <= new.at
    BY <1>2, <1>3, NewestShown
<1>a. LegOf(s) = old.status /\ LegOf(s)' = new.status
    BY <1>4, <1>5, LegShown, LegShownNext
<1>6. s # None
    BY StoreAssumption DEF StoreAssumption
<1>7. \A r \in later : /\ r \in Row
                       /\ r.status = FiatCompleted => stage[s] = "completed"
                       /\ r.status = FiatFailed => stage[s] = "failed"
                       /\ r.status \in {FiatInit, FiatCompleted, FiatFailed}
    <2>1. \A r \in rows : GoodRow(r)
        BY DEF TruthInv
    <2>2. GoodRow(x)
        BY StampedRow, CommitEffect
    <2>3. \A r \in later : GoodRow(r) /\ r.bank = s
        BY <1>1, <2>1, <2>2
    <2> QED
        BY <1>6, <2>3 DEF GoodRow, RowTruthful, Row, Statuses
<1>8. new.status \in {FiatCompleted, FiatFailed}
    <2> SUFFICES ASSUME new.status = FiatInit
                 PROVE  FALSE
        BY <1>7
    <2>1. FiatInit \notin FinalStatuses
        BY DEF FinalStatuses, FiatInit, FiatCompleted, FiatFailed
    <2>2. new \in rows /\ new.bank = s
        BY <1>1, <2>1
    <2>3. new = job[h].snap
        BY <2>2 DEF LegInv, OpenedOnce
    <2>4. job[h].snap.at \in Nat /\ x.at \in Nat
        BY <1>2, <1>7 DEF Row
    <2> QED
        BY <1>5, <2>3, <2>4
<1>9. old \in later
    BY <1>1
<1>10. FiatCompleted # FiatFailed /\ "completed" # "failed"
    BY DEF FiatCompleted, FiatFailed
<1>11. \/ new.status = FiatCompleted /\ stage[s] = "completed"
       \/ new.status = FiatFailed /\ stage[s] = "failed"
    BY <1>7, <1>8
<1>12. old.status \in {FiatInit, new.status}
    BY <1>7, <1>9, <1>10, <1>11
<1> QED
    BY <1>a, <1>11, <1>12 DEF VerdictOf

LEMMA CommitRefines ==
    ASSUME StrictClock, TruthInv, LegInv, NEW h \in Handlers, Commit(h),
           [Next]_vars
    PROVE  [Leg!Next]_Leg!legVars
<1>. DEFINE leg == [t \in Sales |-> LegOf(t)]
<1>1. TruthInv' /\ LegInv'
    BY TruthNext, LegNext
<1>2. \A t \in Sales : job[h].row.bank # t => LegOf(t)' = LegOf(t)
    BY OthersKept DEF LegInv
<1>3. [t \in Sales |-> VerdictOf(t)]' = [t \in Sales |-> VerdictOf(t)]
    <2>1. stage' = stage
        BY DEF Commit, partnerVars
    <2>2. \A t \in Sales : VerdictOf(t)' = VerdictOf(t)
        BY <2>1 DEF VerdictOf
    <2> QED
        BY <2>2
<1>4. CASE job[h].row.bank \notin Sales
    <2>2. leg' = leg
        BY <1>2, <1>4
    <2> QED
        BY <1>3, <2>2 DEF Leg!legVars
<1>5. ASSUME NEW s \in Sales, job[h].row.bank = s
      PROVE  [Leg!Next]_Leg!legVars
    <2>1. s # None
        BY <1>5, StoreAssumption DEF StoreAssumption
    <2>2. leg' = [leg EXCEPT ![s] = LegOf(s)']
        BY <1>2, <1>5
    <2>3. CASE ~Recorded(s) /\ job[h].row.status = FiatInit
        <3>1. LegOf(s) = "NONE" /\ LegOf(s)' = "FIAT_INIT"
            BY <1>5, <2>3, FirstItemOpens
        <3>2. leg[s] = "NONE" /\ leg' = [leg EXCEPT ![s] = "FIAT_INIT"]
            BY <1>5, <2>2, <3>1
        <3>3. Leg!Open(s)
            BY <1>3, <3>2 DEF Leg!Open
        <3> QED
            BY <1>5, <3>3 DEF Leg!Next
    <2>4. CASE /\ job[h].snap \in rows
               /\ job[h].snap.bank = s
               /\ job[h].snap.status = FiatInit
               /\ job[h].row.status \in FinalStatuses
               /\ job[h].snap.at < job[h].row.at
        <3>1. /\ LegOf(s) \in {FiatInit, LegOf(s)'}
              /\ \/ LegOf(s)' = FiatCompleted /\ VerdictOf(s) = "completed"
                 \/ LegOf(s)' = FiatFailed /\ VerdictOf(s) = "failed"
            BY <1>1, <1>5, <2>4, OutcomeCloses
        <3>2. CASE LegOf(s)' = LegOf(s)
            <4>1. leg' = leg
                BY <1>2, <1>5, <3>2
            <4> QED
                BY <1>3, <4>1 DEF Leg!legVars
        <3>3. CASE LegOf(s) = FiatInit
            <4>1. leg[s] = "FIAT_INIT"
                BY <1>5, <3>3 DEF FiatInit
            <4>2. [t \in Sales |-> VerdictOf(t)][s] = VerdictOf(s)
                BY <1>5
            <4>3. Leg!Close(s)
                BY <1>3, <2>2, <3>1, <4>1, <4>2
                DEF Leg!Close, FiatCompleted, FiatFailed
            <4> QED
                BY <1>5, <4>3 DEF Leg!Next
        <3> QED
            BY <3>1, <3>2, <3>3
    <2> QED
        BY <1>5, <2>1, <2>3, <2>4, CommittedItem DEF LegInv
<1> QED
    BY <1>4, <1>5

LEMMA StepRefines ==
    ASSUME StrictClock, TruthInv, LegInv, [Next]_vars
    PROVE  [Leg!Next]_Leg!legVars
<1>1. TypeOK
    BY DEF TruthInv
<1>2. ASSUME NEW t \in Sales, Settle(t)
      PROVE  Leg!Next
    BY <1>1, <1>2, SettleDecides DEF Leg!Next
<1>3. CASE rows' = rows /\ \A s \in Sales : VerdictOf(s)' = VerdictOf(s)
    <2>1. \A s \in Sales : LegOf(s)' = LegOf(s)
        BY <1>3 DEF LegOf
    <2> QED
        BY <1>3, <2>1 DEF Leg!legVars
<1>4. rows' = rows \/ \E h \in Handlers : Commit(h)
    BY StepKinds DEF StampStep, QuietStep
<1> QED
    BY <1>1, <1>2, <1>3, <1>4, VerdictKept, CommitRefines

LEMMA InitRefines == Init => Leg!Init
<1> SUFFICES ASSUME Init
             PROVE  Leg!Init
    OBVIOUS
<1>1. \A s \in Sales : LegOf(s) = "NONE"
    BY DEF Init, StoreInit, LegOf
<1>2. \A s \in Sales : VerdictOf(s) = "open"
    BY DEF Init, VerdictOf
<1> QED
    BY <1>1, <1>2 DEF Leg!Init

(* The fiat leg of every order is opened once and closed at most once,     *)
(* with the partner's verdict: Offramp implements FiatLeg whatever is      *)
(* notified twice, late or concurrently, read stale or lost in a crash.    *)
THEOREM LegImplemented ==
    ASSUME StrictClock
    PROVE  Spec => ImplementsFiatLeg
<1>1. Init => Leg!Init
    BY InitRefines
<1>2. TruthInv /\ LegInv /\ [Next]_vars => [Leg!Next]_Leg!legVars
    BY StepRefines
<1> QED
    BY <1>1, <1>2, LegHeld, PTL DEF Spec, ImplementsFiatLeg, Leg!Spec

-----------------------------------------------------------------------------
(* What a user sees of an order.                                           *)

(* Every order is posted once, and no two orders are of one deposit.       *)
OnePost ==
    /\ MaxPosts = 1
    /\ \A q, s \in Requests : q.hash = s.hash => q = s

LEMMA PostChanges ==
    ASSUME TruthInv, [Next]_vars, NEW g \in Handlers, Posting(g)'
    PROVE  \/ Posting(g) /\ job'[g] = job[g]
           \/ \E q \in Requests : /\ SellCrypto(g, q) /\ posts[q] < MaxPosts /\ posts'[q] # 0
                                  /\ job'[g].row.hash = q.hash
                                  /\ job'[g].row.status = CryptoCompleted
<1>1. TypeOK /\ (Posting(g) => job[g].pc = "put")
    BY DEF TruthInv, JobTruthful, PostTruthful, DepositTruthful, FiatTruthful, Posting, Idle
<1>2. CASE Step(g)
    BY <1>1, <1>2, StepShape DEF Posting, Idle
<1>3. ASSUME NEW q \in Requests, SellCrypto(g, q)
      PROVE  /\ posts[q] < MaxPosts /\ posts'[q] # 0
             /\ job'[g].row.hash = q.hash /\ job'[g].row.status = CryptoCompleted
    <2>1. posts[q] < MaxPosts /\ posts'[q] = posts[q] + 1 /\ posts[q] \in Nat
        BY <1>1, <1>3, OfframpAssumption DEF SellCrypto, TypeOK, OfframpAssumption
    <2>2. PICK now \in Now :
            job' = [job EXCEPT ![g] =
                    [Idle EXCEPT !.kind = "post", !.pc = "put",
                        !.row = [txId |-> q.txId, hash |-> q.hash, bank |-> None,
                                 status |-> CryptoCompleted, at |-> now]]]
        BY <1>3 DEF SellCrypto
    <2>3. job'[g].row = [txId |-> q.txId, hash |-> q.hash, bank |-> None,
                         status |-> CryptoCompleted, at |-> now]
        BY <1>1, <2>2 DEF TypeOK, Idle
    <2> QED
        BY <2>1, <2>3
<1>4. CASE \E y \in Hashes : ReceiveDeposit(g, y)
    BY <1>1, <1>4 DEF ReceiveDeposit, TypeOK, Idle, Posting
<1>5. CASE \E s \in Sales : ReceiveFiat(g, s)
    BY <1>1, <1>5 DEF ReceiveFiat, TypeOK, Idle, Posting
<1>6. CASE job'[g] = Idle \/ job'[g] = job[g]
    BY <1>6 DEF Idle, Posting
<1> QED
    BY <1>1, <1>2, <1>3, <1>4, <1>5, <1>6, JobChanges

LEMMA PostsGrow ==
    ASSUME TypeOK, [Next]_vars, NEW q \in Requests, posts'[q] = 0
    PROVE  posts[q] = 0
<1>1. posts[q] \in Nat /\ MaxPosts \in Nat
    BY OfframpAssumption DEF TypeOK, OfframpAssumption
<1>2. ASSUME NEW h \in Handlers, NEW p \in Requests, SellCrypto(h, p)
      PROVE  posts[q] = 0
    BY <1>1, <1>2 DEF SellCrypto, TypeOK
<1>3. ASSUME NEW h \in Handlers,
             \/ Step(h)
             \/ \E x \in Hashes : ReceiveDeposit(h, x)
             \/ \E s \in Sales : ReceiveFiat(h, s)
      PROVE  posts' = posts
    BY <1>3 DEF Step, Commit, PutError, ReadByHash, RecordAmlFailed, Send, BalanceSuffices,
        DetailsFound, SaleRefused, SaleAccepted, GiveUp, RecordSale, ReadByBank, RecordOutcome,
        ReceiveDeposit, ReceiveFiat
<1>4. CASE \/ \E x \in Hashes : Screen(x)
           \/ \E s \in Sales : Settle(s)
           \/ Crash
           \/ ReplicaCatchesUp
           \/ UNCHANGED vars
    BY <1>4 DEF Screen, Settle, Crash, ReplicaCatchesUp, vars
<1> QED
    BY <1>2, <1>3, <1>4 DEF Next

(* The item a commit adds to its deposit's.                                *)
LEMMA OrderItem ==
    ASSUME TruthInv, OnceInv, LegInv, OrderInv, NEW h \in Handlers, Commit(h)
    PROVE  LET x == job[h].row
           IN  \/ /\ Posting(h) /\ x.status = CryptoCompleted
                  /\ \A r \in rows : r.hash # x.hash
               \/ /\ job[h].kind = "deposit" /\ x.hash = job[h].hash
                  /\ job[h].snap \in rows /\ job[h].snap.hash = x.hash
                  /\ job[h].snap.status = CryptoCompleted /\ x.status # CryptoCompleted
                  /\ job[h].snap.at < x.at
                  /\ \A r \in rows : r.hash = x.hash => r = job[h].snap
               \/ /\ job[h].kind = "fiat"
                  /\ job[h].snap \in rows /\ job[h].snap.hash = x.hash
                  /\ job[h].snap.bank = x.bank /\ x.bank # None
                  /\ job[h].snap.status = FiatInit /\ x.status \in FinalStatuses
                  /\ job[h].snap.at < x.at
<1>1. JobTruthful(job[h]) /\ job[h].pc = "put"
    BY DEF TruthInv, Commit
<1>2. CASE job[h].kind = "deposit"
    <2>1. DepositTruthful(job[h])
        BY <1>1, <1>2 DEF JobTruthful, Idle
    <2>2. job[h].snap \in rows
        BY <1>1, <1>2 DEF OnceInv, SnapsKept, HasRead
    <2> QED
        BY <1>1, <1>2, <2>1, <2>2 DEF DepositTruthful, OrderInv, OnlyItem, Stamped
<1>3. CASE job[h].kind = "fiat"
    <2>1. FiatTruthful(job[h])
        BY <1>1, <1>3 DEF JobTruthful, Idle
    <2>2. job[h].sale # None
        BY <2>1, StoreAssumption DEF FiatTruthful, StoreAssumption
    <2>3. /\ job[h].snap \in rows /\ job[h].row.status \in FinalStatuses
          /\ job[h].snap.at < job[h].row.at
        BY <1>1, <1>3 DEF LegInv, OutcomesLater, Stamped
    <2>4. job[h].snap.hash = job[h].row.hash
        BY <1>1, <2>1, <2>2 DEF FiatTruthful, GoodRow, RowTruthful
    <2> QED
        BY <1>1, <1>3, <2>1, <2>2, <2>3, <2>4 DEF FiatTruthful
<1>4. CASE job[h].kind = "post"
    BY <1>4 DEF OrderInv, PostedOnce, Posting
<1> QED
    BY <1>1, <1>2, <1>3, <1>4 DEF JobTruthful, Idle

(* An item of the table was there or has just been committed.              *)
LEMMA NewItem ==
    ASSUME TruthInv, StampsDistinct, [Next]_vars, NEW r \in rows'
    PROVE  r \in rows \/ \E h \in Handlers : Commit(h) /\ r = job[h].row /\ job'[h] = Idle
<1>1. \A h \in Handlers : Commit(h) => job'[h] = Idle /\ rows' = rows \cup {job[h].row}
    BY CommitEffect, CommitKeepsRows
<1> QED
    BY <1>1, StepKinds DEF StampStep, QuietStep

LEMMA PostedOnceNext ==
    ASSUME OnePost, TruthInv, OnceInv, LegInv, OrderInv, [Next]_vars
    PROVE  PostedOnce'
<1>1. TypeOK /\ StampsDistinct
    BY DEF TruthInv, OnceInv
<1>2. \A q \in Requests : posts[q] \in Nat /\ (posts[q] < MaxPosts => posts[q] = 0)
    BY <1>1, OfframpAssumption DEF TypeOK, OnePost, OfframpAssumption
(* A committed item is of a deposit that was posted or is being posted.    *)
<1>3. ASSUME NEW r \in rows'
      PROVE  \/ \E o \in rows : o.hash = r.hash
             \/ \E h \in Handlers : Posting(h) /\ job[h].row.hash = r.hash /\ ~Posting(h)'
    BY <1>1, <1>3, NewItem, OrderItem DEF Posting, Idle
<1>4. ASSUME NEW q \in Requests, posts'[q] = 0
      PROVE  /\ \A r \in rows' : r.hash # q.hash
             /\ \A h \in Handlers : Posting(h)' => job'[h].row.hash # q.hash
    <2>1. posts[q] = 0
        BY <1>1, <1>4, PostsGrow
    <2>2. /\ \A r \in rows : r.hash # q.hash
          /\ \A h \in Handlers : Posting(h) => job[h].row.hash # q.hash
        BY <2>1 DEF OrderInv, PostedOnce
    <2>3. \A r \in rows' : r.hash # q.hash
        BY <1>3, <2>2
    <2>4. ASSUME NEW h \in Handlers, Posting(h)' PROVE job'[h].row.hash # q.hash
        BY <1>4, <2>2, <2>4, PostChanges DEF OnePost
    <2> QED
        BY <2>3, <2>4
<1>5. ASSUME NEW h \in Handlers, Posting(h)'
      PROVE  /\ job'[h].row.status = CryptoCompleted
             /\ \A r \in rows' : r.hash # job'[h].row.hash
             /\ \A g \in Handlers \ {h} : Posting(g)' => job'[g].row.hash # job'[h].row.hash
    <2>1. CASE Posting(h) /\ job'[h] = job[h]
        <3>1. /\ job[h].row.status = CryptoCompleted
              /\ \A r \in rows : r.hash # job[h].row.hash
              /\ \A g \in Handlers \ {h} : Posting(g) => job[g].row.hash # job[h].row.hash
            BY <2>1 DEF OrderInv, PostedOnce
        <3>2. \A r \in rows' : r.hash # job[h].row.hash
            BY <1>3, <1>5, <3>1
        <3>3. ASSUME NEW g \in Handlers \ {h}, Posting(g)'
              PROVE  job'[g].row.hash # job[h].row.hash
            <4>1. \A q \in Requests : posts[q] < MaxPosts => job[h].row.hash # q.hash
                BY <1>2, <2>1 DEF OrderInv, PostedOnce
            <4> QED
                BY <3>1, <3>3, <4>1, PostChanges
        <3> QED
            BY <2>1, <3>1, <3>2, <3>3
    <2>2. ASSUME NEW q \in Requests, SellCrypto(h, q), posts[q] < MaxPosts,
                 job'[h].row.hash = q.hash, job'[h].row.status = CryptoCompleted
          PROVE  /\ job'[h].row.status = CryptoCompleted
                 /\ \A r \in rows' : r.hash # job'[h].row.hash
                 /\ \A g \in Handlers \ {h} : Posting(g)' => job'[g].row.hash # job'[h].row.hash
        <3>1. /\ \A r \in rows : r.hash # q.hash
              /\ \A g \in Handlers : Posting(g) => job[g].row.hash # q.hash
            BY <1>2, <2>2 DEF OrderInv, PostedOnce
        <3>2. rows' = rows /\ \A g \in Handlers \ {h} : job'[g] = job[g]
            BY <1>1, <2>2 DEF SellCrypto, TypeOK
        <3> QED
            BY <2>2, <3>1, <3>2 DEF Posting
    <2> QED
        BY <1>5, <2>1, <2>2, PostChanges
<1> QED
    BY <1>4, <1>5 DEF PostedOnce

LEMMA OnlyItemNext ==
    ASSUME StrictClock, OneAtATime, TruthInv, OnceInv, LegInv, OrderInv, [Next]_vars,
           TruthInv'
    PROVE  OnlyItem'
<1>1. TypeOK /\ StampsDistinct /\ clock \in Nat /\ \A r \in rows : r \in Row /\ r.at \in Nat
    BY DEF TruthInv, OnceInv, TypeOK, StoreTypeOK, Row
<1> SUFFICES ASSUME NEW h \in Handlers, job'[h].kind = "deposit", job'[h].pc # "read"
             PROVE  /\ \A r \in rows' : r.hash = job'[h].hash => r = job'[h].snap
                    /\ Stamped(h)' =>
                        /\ job'[h].row.status # CryptoCompleted
                        /\ job'[h].snap.at < job'[h].row.at
    BY DEF OnlyItem
<1>2. HasRead(h)' /\ job'[h] # Idle
    BY DEF HasRead, Idle
<1>3. CASE HasRead(h) /\ job'[h].snap = job[h].snap /\ job'[h].kind = job[h].kind
    <2>1. job[h].kind = "deposit" /\ job[h].pc # "read" /\ job[h].snap \in rows
        BY <1>3 DEF HasRead, OnceInv, SnapsKept
    <2>2. DepositTruthful(job[h]) /\ job[h].snap.hash = job[h].hash
          /\ job[h].snap.status = CryptoCompleted
        BY <2>1 DEF TruthInv, JobTruthful, DepositTruthful, Idle
    <2>3. job'[h].hash = job[h].hash
        <3>1. \A x \in Hashes : ~ReceiveDeposit(h, x)
            BY <2>1 DEF ReceiveDeposit, Idle
        <3> QED
            BY <1>1, <3>1, DepositKept
    <2>4. \A r \in rows : r.hash = job[h].hash => r = job[h].snap
        BY <2>1 DEF OrderInv, OnlyItem
    <2>5. ASSUME NEW k \in Handlers, Commit(k), job[k].row.hash = job[h].hash, job'[k] = Idle
          PROVE  FALSE
        <3>1. k # h
            BY <1>2, <2>5
        <3> QED
            BY <2>1, <2>2, <2>4, <2>5, <3>1, OrderItem
                DEF OnceInv, OneSeller, FiatInit, CryptoCompleted
    <2>6. \A r \in rows' : r.hash = job'[h].hash => r = job'[h].snap
        BY <1>1, <1>3, <2>3, <2>4, <2>5, NewItem
    <2>7. ASSUME Stamped(h)'
          PROVE  job'[h].row.status # CryptoCompleted /\ job'[h].snap.at < job'[h].row.at
        <3>1. CASE Stamped(h) /\ job'[h] = job[h]
            BY <2>1, <3>1 DEF OrderInv, OnlyItem
        <3>2. ASSUME NEW item \in Row, Send(h, item), item.status # CryptoCompleted
              PROVE  job'[h].row.status # CryptoCompleted /\ job'[h].snap.at < job'[h].row.at
            <4>1. PICK now \in Now :
                    job' = [job EXCEPT ![h].pc = "put", ![h].row = [item EXCEPT !.at = now]]
                BY <3>2 DEF Send
            <4>2. now \in Nat /\ clock < now
                <5>1. PICK d \in Advance : now = clock + d
                    BY <4>1 DEF Now
                <5>2. d \in Nat /\ d # 0
                    BY StoreAssumption DEF StoreAssumption, StrictClock
                <5> QED
                    BY <1>1, <5>1, <5>2
            <4>3. job'[h] = [job[h] EXCEPT !.pc = "put", !.row = [item EXCEPT !.at = now]]
                BY <1>1, <4>1 DEF TypeOK
            <4>4. job'[h].row = [item EXCEPT !.at = now]
                BY <1>1, <4>3 DEF TypeOK, Job
            <4>5. job'[h].row.at = now /\ job'[h].row.status = item.status
                BY <3>2, <4>4 DEF Row
            <4>6. job[h].snap.at \in Nat /\ job[h].snap.at <= clock
                BY <1>1, <2>1 DEF StampsDistinct
            <4> QED
                BY <1>1, <1>3, <3>2, <4>2, <4>5, <4>6
        <3>3. CASE RecordAmlFailed(h)
            <4> DEFINE item == [job[h].snap EXCEPT !.status = AmlFailed]
            <4>1. item \in Row /\ item.status = AmlFailed
                BY <1>1, <2>1 DEF Row, Statuses
            <4>2. Send(h, item)
                BY <3>3 DEF RecordAmlFailed
            <4> QED
                BY <3>2, <4>1, <4>2 DEF AmlFailed, CryptoCompleted
        <3>4. CASE RecordSale(h)
            <4>1. SaleItem(job[h]) \in Row /\ SaleItem(job[h]).status = FiatInit
                BY <1>1, <2>1, <2>2 DEF SaleItem, Row, Statuses, TypeOK, Job, DepositTruthful
            <4>2. Send(h, SaleItem(job[h]))
                BY <1>1, <2>7, <3>4 DEF RecordSale, Answer, Stamped, Idle, TypeOK
            <4> QED
                BY <3>2, <4>1, <4>2 DEF FiatInit, CryptoCompleted
        <3>5. ~RecordOutcome(h) /\ job'[h].kind # "post"
            BY <2>1 DEF RecordOutcome, At
        <3> QED
            BY <1>1, <2>7, <3>1, <3>3, <3>4, <3>5, PutChanges
    <2> QED
        BY <2>6, <2>7
<1>4. CASE ReadByHash(h)
    <2>1. /\ job'[h].snap \in rows /\ job'[h].snap.hash = job[h].hash
          /\ \A q \in rows : q.hash = job[h].hash => q.at <= job'[h].snap.at
        BY <1>1, <1>2, <1>4, ReadByHashFinds
    <2>2. job'[h].snap.status = CryptoCompleted
        BY DEF TruthInv, JobTruthful, DepositTruthful, Idle
    <2>3. PICK snap \in rows : snap = job'[h].snap
        BY <2>1
    <2>4. \A r \in rows : r.hash = job[h].hash => r = snap
        <3>1. \A r \in rows : r.hash = job[h].hash => r = snap \/ snap.at < r.at
            BY <2>1, <2>2, <2>3 DEF OrderInv, OneCourse
        <3> QED
            BY <1>1, <2>1, <2>3, <3>1
    <2>5. rows' = rows
        BY <1>4 DEF ReadByHash, storeVars
    <2>6. job'[h].hash = job[h].hash /\ ~Stamped(h)'
        <3>1. Step(h) /\ job[h].kind = "deposit" /\ job[h].pc = "read"
            BY <1>4 DEF Step, ReadByHash, At
        <3>2. job'[h].hash = job[h].hash
            BY <1>1, <1>2, <3>1, StepShape
        <3>3. ~Stamped(h)'
            BY <1>1, <1>4, <3>1, PutChanges
                DEF Stamped, RecordAmlFailed, RecordSale, RecordOutcome, At
        <3> QED
            BY <3>2, <3>3
    <2> QED
        BY <2>3, <2>4, <2>5, <2>6
<1>5. ~(ReadByBank(h) /\ job[h].kind = "fiat")
    BY <1>1, <1>2, StepShape DEF Step
<1> QED
    BY <1>1, <1>2, <1>3, <1>4, <1>5, SnapKept

LEMMA OneCourseNext ==
    ASSUME TruthInv, OnceInv, LegInv, OrderInv, [Next]_vars
    PROVE  OneCourse'
<1>1. TypeOK /\ StampsDistinct /\ \A r \in rows : r.at \in Nat
    BY DEF TruthInv, OnceInv, TypeOK, StoreTypeOK, Row
<1>2. CASE rows' = rows
    BY <1>2 DEF OrderInv, OneCourse
<1>3. ASSUME NEW h \in Handlers, Commit(h) PROVE OneCourse'
    <2> DEFINE x == job[h].row
    <2>1. rows' = rows \cup {x} /\ x.at \in Nat
        BY <1>1, <1>3, CommitKeepsRows, StampedRow, CommitEffect DEF Row
    <2>2. FiatInit # CryptoCompleted /\ CryptoCompleted \notin FinalStatuses
        BY DEF FinalStatuses, FiatInit, CryptoCompleted, FiatCompleted, FiatFailed
    <2>3. \A r \in rows : r.hash = x.hash =>
            /\ x.status # CryptoCompleted
            /\ r.status = CryptoCompleted => r.at < x.at
            /\ r.status # CryptoCompleted => r.bank = x.bank
        <3>1. CASE Posting(h) /\ \A r \in rows : r.hash # x.hash
            BY <3>1
        <3>2. CASE /\ job[h].snap.status = CryptoCompleted /\ x.status # CryptoCompleted
                   /\ job[h].snap.at < x.at
                   /\ \A r \in rows : r.hash = x.hash => r = job[h].snap
            BY <3>2
        <3>3. CASE /\ job[h].snap \in rows /\ job[h].snap.hash = x.hash
                   /\ job[h].snap.bank = x.bank
                   /\ job[h].snap.status = FiatInit /\ x.status \in FinalStatuses
                   /\ job[h].snap.at < x.at
            <4>1. ASSUME NEW r \in rows, r.hash = x.hash
                  PROVE  /\ r.status = CryptoCompleted => r.at < job[h].snap.at
                         /\ r.status # CryptoCompleted => r.bank = x.bank
                BY <2>2, <3>3, <4>1 DEF OrderInv, OneCourse
            <4> QED
                BY <1>1, <2>1, <2>2, <3>3, <4>1
        <3> QED
            BY <1>3, <3>1, <3>2, <3>3, OrderItem
    <2> HIDE DEF x
    <2> QED
        BY <2>1, <2>3 DEF OrderInv, OneCourse
<1> QED
    BY <1>2, <1>3, StepKinds DEF StampStep, QuietStep

LEMMA NewestSeenNext ==
    ASSUME TruthInv, OnceInv, OrderInv, [Next]_vars
    PROVE  NewestSeen'
<1>1. CASE rows' = rows
    BY <1>1 DEF OrderInv, NewestSeen
<1>2. ASSUME NEW h \in Handlers, Commit(h)
      PROVE  NewestSeen'
    <2> DEFINE x == job[h].row
    <2>1. /\ rows' = rows \cup {x}
          /\ x.at \in Nat
          /\ \A r \in rows : r.at \in Nat
        BY <1>2, CommitKeepsRows, StampedRow, CommitEffect
        DEF OnceInv, TruthInv, TypeOK, StoreTypeOK, Row
    <2> HIDE DEF x
    <2>2. ASSUME NEW y \in Hashes, NEW o \in rows', o.hash = y
          PROVE  \E n \in rows' : n.hash = y /\ \A q \in rows' : q.hash = y => q.at <= n.at
        <3>1. CASE \E r \in rows : r.hash = y
            <4>1. PICK n \in rows : n.hash = y /\ \A q \in rows : q.hash = y => q.at <= n.at
                BY <3>1 DEF OrderInv, NewestSeen, Latest
            <4>2. CASE x.hash = y /\ n.at <= x.at
                BY <2>1, <4>1, <4>2
            <4>3. CASE x.hash # y \/ ~(n.at <= x.at)
                BY <2>1, <4>1, <4>3
            <4> QED
                BY <4>2, <4>3
        <3>2. CASE ~\E r \in rows : r.hash = y
            BY <2>1, <2>2, <3>2
        <3> QED
            BY <3>1, <3>2
    <2>3. ASSUME NEW y \in Hashes, NEW n \in rows', n.hash = y,
                 \A q \in rows' : q.hash = y => q.at <= n.at
          PROVE  n \in Latest({r \in rows' : r.hash = y})
        BY <2>3 DEF Latest
    <2>4. ASSUME NEW y \in Hashes, \E r \in rows' : r.hash = y
          PROVE  Latest({r \in rows' : r.hash = y}) # {}
        BY <2>2, <2>3, <2>4
    <2> QED
        BY <2>4 DEF NewestSeen
<1> QED
    BY <1>1, <1>2, StepKinds DEF StampStep, QuietStep

LEMMA OriginStoredNext ==
    ASSUME TruthInv, OnceInv, OrderInv, [Next]_vars
    PROVE  OriginStored'
<1> SUFFICES ASSUME NEW s \in Sales, Sold(s)'
             PROVE  origin'[s] \in rows'
    BY DEF OriginStored
<1>1. rows \subseteq rows'
    BY RowsKept DEF OnceInv
<1>2. CASE Sold(s) /\ origin'[s] = origin[s]
    BY <1>1, <1>2 DEF OrderInv, OriginStored
<1>3. ASSUME NEW h \in Handlers, SaleAccepted(h), origin'[s] = job[h].snap
      PROVE  origin'[s] \in rows'
    <2>1. HasRead(h)
        BY <1>3 DEF SaleAccepted, At, HasRead
    <2> QED
        BY <1>1, <1>3, <2>1 DEF OnceInv, SnapsKept
<1> QED
    BY <1>2, <1>3, SaleChanges DEF TruthInv

LEMMA OrderInit == Init => OrderInv
<1> SUFFICES ASSUME Init
             PROVE  OrderInv
    OBVIOUS
<1>1. rows = {} /\ \A h \in Handlers : job[h] = Idle
    BY DEF Init, StoreInit
<1>2. \A s \in Sales : ~Sold(s)
    BY DEF Init, Sold
<1> QED
    BY <1>1, <1>2 DEF OrderInv, PostedOnce, OnlyItem, OneCourse, NewestSeen, OriginStored,
        Posting, Idle

LEMMA OrderNext ==
    ASSUME StrictClock, OneAtATime, OnePost,
           TruthInv, OnceInv, LegInv, OrderInv, [Next]_vars
    PROVE  OrderInv'
<1>1. TruthInv'
    BY TruthNext
<1>2. PostedOnce'
    BY PostedOnceNext
<1>3. OnlyItem'
    BY <1>1, OnlyItemNext
<1>4. OneCourse'
    BY OneCourseNext
<1>5. NewestSeen' /\ OriginStored'
    BY NewestSeenNext, OriginStoredNext
<1> QED
    BY <1>2, <1>3, <1>4, <1>5 DEF OrderInv

(* While every order is posted once and deposits are notified one at a     *)
(* time, a deposit's items tell of one course of events: the post, then an *)
(* AML failure or one sale.                                                *)
THEOREM OrderHeld ==
    ASSUME StrictClock, OneAtATime, OnePost
    PROVE  Spec => [](TruthInv /\ OnceInv /\ LegInv /\ OrderInv)
<1> DEFINE IInv == TruthInv /\ OnceInv /\ LegInv /\ OrderInv
<1>1. Init => IInv
    BY TruthInit, OnceInit, LegInit, OrderInit
<1>2. IInv /\ [Next]_vars => IInv'
    BY TruthNext, OnceNext, LegNext, OrderNext
<1> QED
    BY <1>1, <1>2, PTL DEF Spec

(* When an outcome is committed, the newest item of its order is of the    *)
(* same sale: its first item, or the same outcome.                         *)
LEMMA NewestOfSale ==
    ASSUME TruthInv, OnceInv, LegInv, OrderInv, NEW h \in Handlers, Commit(h),
           job[h].snap \in rows, job[h].snap.hash = job[h].row.hash,
           job[h].snap.bank = job[h].row.bank, job[h].row.bank # None,
           job[h].snap.status = FiatInit, job[h].row.status \in FinalStatuses,
           NEW b \in rows, b.hash = job[h].row.hash,
           \A r \in rows : r.hash = b.hash => r.at <= b.at
    PROVE  b.bank = job[h].row.bank /\ b.status \in {FiatInit, job[h].row.status}
<1> DEFINE x == job[h].row
<1>1. GoodRow(x) /\ GoodRow(b)
    BY StampedRow DEF Commit, Stamped, TruthInv
<1>2. b.status \in Statuses /\ b.at \in Nat
    BY <1>1 DEF GoodRow, Row
<1>3. job[h].snap.at <= b.at /\ job[h].snap.at \in Nat /\ FiatInit # CryptoCompleted
    BY DEF TruthInv, GoodRow, Row, FiatInit, CryptoCompleted
<1>4. b.status # CryptoCompleted
    BY <1>2, <1>3 DEF OrderInv, OneCourse
<1>5. b.bank = x.bank
    BY <1>3, <1>4 DEF OrderInv, OneCourse
<1>6. b.status \in {FiatInit, FiatCompleted, FiatFailed}
    BY <1>1, <1>2, <1>4, <1>5 DEF GoodRow, RowTruthful, Statuses
<1>7. b.status \in FinalStatuses => b.status = x.status
    BY <1>1, <1>5 DEF GoodRow, RowTruthful, FinalStatuses, FiatCompleted, FiatFailed
<1> QED
    BY <1>5, <1>6, <1>7 DEF FinalStatuses

(* A newer item of a deposit has a higher rank than the newest before it,  *)
(* or the same status: an outcome is recorded twice only as the same one.  *)
LEMMA CommitForward ==
    ASSUME TruthInv, OnceInv, LegInv, OrderInv, NEW h \in Handlers, Commit(h),
           NEW b \in rows, b.hash = job[h].row.hash,
           \A r \in rows : r.hash = b.hash => r.at <= b.at
    PROVE  \/ b.status = job[h].row.status
           \/ Rank[b.status] < Rank[job[h].row.status]
<1> DEFINE x == job[h].row
<1>1. Stamped(h) /\ GoodRow(x) /\ GoodRow(b)
    BY StampedRow DEF Commit, Stamped, TruthInv
<1>2. b.status \in Statuses /\ x.status \in Statuses /\ b.at \in Nat
    BY <1>1 DEF GoodRow, Row
<1>3. \A st \in Statuses :
        Rank[st] = IF st = CryptoCompleted THEN 1 ELSE IF st = FiatInit THEN 2 ELSE 3
    BY DEF Rank, Statuses, CryptoCompleted, AmlFailed, FiatInit, FiatCompleted, FiatFailed
<1>4. CASE Posting(h) /\ \A r \in rows : r.hash # x.hash
    BY <1>4
<1>5. CASE /\ job[h].snap.status = CryptoCompleted /\ x.status # CryptoCompleted
           /\ \A r \in rows : r.hash = x.hash => r = job[h].snap
    BY <1>2, <1>3, <1>5
<1>6. CASE /\ job[h].snap \in rows /\ job[h].snap.hash = x.hash
           /\ job[h].snap.bank = x.bank /\ x.bank # None
           /\ job[h].snap.status = FiatInit /\ x.status \in FinalStatuses
    <2>1. b.status \in {FiatInit, x.status}
        BY <1>6, NewestOfSale
    <2> QED
        BY <1>2, <1>3, <1>6, <2>1
            DEF FinalStatuses, FiatInit, FiatCompleted, FiatFailed, CryptoCompleted
<1> QED
    BY <1>4, <1>5, <1>6, OrderItem

LEMMA StepForward ==
    ASSUME TruthInv, OnceInv, LegInv, OrderInv, [Next]_vars, StampsDistinct',
           NEW x \in Hashes, NEW before \in CurrentStatuses(x),
           NEW after \in CurrentStatuses(x)'
    PROVE  before = after \/ Rank[before] < Rank[after]
<1>1. PICK b \in rows : /\ b.hash = x /\ b.status = before
                        /\ \A r \in rows : r.hash = x => r.at <= b.at
    BY DEF CurrentStatuses, Latest
<1>2. PICK a \in rows' : /\ a.hash = x /\ a.status = after
                         /\ \A r \in rows' : r.hash = x => r.at <= a.at
    BY DEF CurrentStatuses, Latest
<1>3. StampsDistinct /\ rows \subseteq rows'
    BY RowsKept DEF OnceInv
<1>4. CASE a \in rows
    <2>1. b.at \in Nat /\ a.at \in Nat
        BY <1>4 DEF TruthInv, GoodRow, Row
    <2>2. b.at = a.at
        BY <1>1, <1>2, <1>3, <1>4, <2>1
    <2> QED
        BY <1>1, <1>2, <1>3, <1>4, <2>2 DEF StampsDistinct
<1>5. CASE a \notin rows
    <2>1. PICK h \in Handlers : Commit(h) /\ a = job[h].row
        BY <1>3, <1>5, NewItem
    <2> QED
        BY <1>1, <1>2, <2>1, CommitForward
<1> QED
    BY <1>4, <1>5

(* What the user sees of an order never goes backwards, whatever is        *)
(* lost, rejected or forgotten, as long as the order is posted once, its   *)
(* deposit is notified one at a time and reads see every write.            *)
THEOREM StatusForward ==
    ASSUME StrictClock, OneAtATime, OnePost
    PROVE  Spec => StatusNeverRegresses
<1> DEFINE IInv == TruthInv /\ OnceInv /\ LegInv /\ OrderInv
<1>1. Spec => []IInv
    BY OrderHeld
<1>2. ASSUME IInv, IInv', [Next]_vars
      PROVE  \A x \in Hashes :
                \A before \in CurrentStatuses(x), after \in CurrentStatuses(x)' :
                    before = after \/ Rank[before] < Rank[after]
    BY <1>2, StepForward DEF OnceInv
<1> QED
    BY <1>1, <1>2, PTL DEF Spec, StatusNeverRegresses

(* An order that is posted once is paid once, whatever is lost, rejected   *)
(* or forgotten: the items of its sales are one and the same post.         *)
THEOREM OrderPaidOnce ==
    ASSUME StrictClock, OneAtATime, OnePost
    PROVE  Spec => []OneSalePerOrder
<1>1. OnceInv /\ OrderInv => OneSalePerOrder
    <2> SUFFICES ASSUME OnceInv, OrderInv,
                        NEW s \in Sales, NEW t \in Sales, s # t, Sold(s), Sold(t),
                        origin[s].hash = origin[t].hash
                 PROVE  \/ ~Recorded(s) /\ ~Held(s)
                        \/ ~Recorded(t) /\ ~Held(t)
        BY DEF OneSalePerOrder
    <2>1. origin[s] \in rows /\ origin[t] \in rows
        BY DEF OrderInv, OriginStored
    <2>2. origin[s].status = CryptoCompleted /\ origin[t].status = CryptoCompleted
        BY DEF OnceInv, NoDoubleSale
    <2>3. origin[s] = origin[t]
        BY <2>1, <2>2 DEF OrderInv, OneCourse
    <2> QED
        BY <2>3 DEF OnceInv, NoDoubleSale
<1> QED
    BY <1>1, OrderHeld, PTL

-----------------------------------------------------------------------------
(* The life of an order, step by step.                                     *)

LEMMA NewestIs ==
    ASSUME NEW items, NEW n \in items,
           \A q \in items : q.at \in Nat /\ q.at <= n.at /\ (q.at = n.at => q = n)
    PROVE  Newest(items) = n
<1>1. Latest(items) = {n}
    BY DEF Latest
<1> QED
    BY <1>1 DEF Newest

(* What a user sees is the newest item.                                    *)
LEMMA ShownNewest ==
    ASSUME StampsDistinct, NEW x, NEW n \in rows, n.hash = x,
           \A q \in rows : q.at \in Nat /\ (q.hash = x => q.at <= n.at)
    PROVE  ShownOf(x) = n.status /\ PaidOf(x) = n.bank
<1>1. n \in ItemsOf(x) /\ ItemsOf(x) \subseteq rows
    BY DEF ItemsOf
<1>2. \A q \in ItemsOf(x) : q.at \in Nat /\ q.at <= n.at /\ (q.at = n.at => q = n)
    BY <1>1 DEF ItemsOf, StampsDistinct
<1>3. Newest(ItemsOf(x)) = n
    BY <1>1, <1>2, NewestIs
<1> QED
    BY <1>1, <1>3 DEF ShownOf, PaidOf

LEMMA ShownNewestNext ==
    ASSUME StampsDistinct', NEW x, NEW n \in rows', n.hash = x,
           \A q \in rows' : q.at \in Nat /\ (q.hash = x => q.at <= n.at)
    PROVE  ShownOf(x)' = n.status /\ PaidOf(x)' = n.bank
<1> DEFINE items == {q \in rows' : q.hash = x}
<1>1. n \in items
    OBVIOUS
<1>2. \A q \in items : q.at \in Nat /\ q.at <= n.at /\ (q.at = n.at => q = n)
    BY <1>1 DEF StampsDistinct
<1>3. Newest(items) = n
    BY <1>1, <1>2, NewestIs
<1>4. ItemsOf(x)' = items
    BY DEF ItemsOf
<1>5. /\ ShownOf(x)' = IF items = {} THEN "NONE" ELSE Newest(items).status
      /\ PaidOf(x)' = IF items = {} THEN None ELSE Newest(items).bank
    BY <1>4 DEF ShownOf, PaidOf, Newest, Latest
<1> QED
    BY <1>1, <1>3, <1>5

LEMMA ShownNothing ==
    ASSUME NEW x, \A r \in rows : r.hash # x
    PROVE  ShownOf(x) = "NONE" /\ PaidOf(x) = None
BY DEF ShownOf, PaidOf, ItemsOf

(* A commit is seen in its own order only.                                 *)
LEMMA OrdersKept ==
    ASSUME TruthInv, StampsDistinct, NEW h \in Handlers, Commit(h), NEW y,
           job[h].row.hash # y
    PROVE  ShownOf(y)' = ShownOf(y) /\ PaidOf(y)' = PaidOf(y)
<1>1. rows' = rows \cup {job[h].row}
    BY CommitKeepsRows
<1>2. {r \in rows' : r.hash = y} = {r \in rows : r.hash = y}
    BY <1>1
<1>3. ItemsOf(y)' = ItemsOf(y)
    BY <1>2 DEF ItemsOf
<1> QED
    BY <1>3 DEF ShownOf, PaidOf, Newest, Latest

(* The item committed by a request is its order's first one, follows the   *)
(* deposit, follows the sale's first item, or repeats the outcome.         *)
LEMMA CommitShows ==
    ASSUME TruthInv, OnceInv, LegInv, OrderInv, StampsDistinct',
           NEW h \in Handlers, Commit(h),
           NEW x, x = job[h].row, NEW y, y = x.hash
    PROVE  \/ /\ ShownOf(y) = "NONE" /\ PaidOf(y) = None
              /\ ShownOf(y)' = CryptoCompleted /\ PaidOf(y)' = None
           \/ /\ ShownOf(y) = CryptoCompleted /\ PaidOf(y) = None
              /\ ShownOf(y)' = x.status /\ PaidOf(y)' = x.bank
              /\ \/ x.status = AmlFailed /\ x.bank = None
                 \/ x.status = FiatInit /\ x.bank # None /\ ~Recorded(x.bank)
           \/ /\ ShownOf(y) = FiatInit /\ PaidOf(y) = x.bank
              /\ ShownOf(y)' = x.status /\ PaidOf(y)' = x.bank
              /\ x.bank # None /\ x.status \in FinalStatuses
           \/ ShownOf(y)' = ShownOf(y) /\ PaidOf(y)' = PaidOf(y)
<1>1. rows' = rows \cup {x} /\ GoodRow(x) /\ x.at \in Nat
    BY CommitKeepsRows, StampedRow, CommitEffect DEF OnceInv, GoodRow, Row
<1>2. \A r \in rows : GoodRow(r) /\ r.at \in Nat
    BY DEF TruthInv, GoodRow, Row
<1>3. StampsDistinct
    BY DEF OnceInv
<1>4. ASSUME \A r \in rows : r.hash = y => r.at <= x.at
      PROVE  ShownOf(y)' = x.status /\ PaidOf(y)' = x.bank
    <2>1. x \in rows' /\ \A r \in rows' : r.at \in Nat /\ (r.hash = y => r.at <= x.at)
        BY <1>1, <1>2, <1>4
    <2> QED
        BY <2>1, ShownNewestNext
<1>5. CASE x.status = CryptoCompleted /\ \A r \in rows : r.hash # y
    <2>1. x.bank = None
        BY <1>1, <1>5 DEF GoodRow, RowTruthful
    <2>2. ShownOf(y) = "NONE" /\ PaidOf(y) = None
        BY <1>5, ShownNothing
    <2> QED
        BY <1>4, <1>5, <2>1, <2>2
<1>6. CASE /\ job[h].kind = "deposit"
           /\ job[h].snap \in rows /\ job[h].snap.hash = y
           /\ job[h].snap.status = CryptoCompleted /\ x.status # CryptoCompleted
           /\ job[h].snap.at < x.at
           /\ \A r \in rows : r.hash = y => r = job[h].snap
    <2>1. PICK b \in rows : b = job[h].snap
        BY <1>6
    <2>2. ShownOf(y) = CryptoCompleted /\ PaidOf(y) = None
        <3>1. b.bank = None
            BY <1>2, <1>6, <2>1 DEF GoodRow, RowTruthful
        <3>2. b.hash = y /\ b.status = CryptoCompleted /\ \A r \in rows : r.hash = y => r.at <= b.at
            BY <1>2, <1>6, <2>1
        <3> QED
            BY <1>2, <1>3, <3>1, <3>2, ShownNewest
    <2>3. ShownOf(y)' = x.status /\ PaidOf(y)' = x.bank
        BY <1>1, <1>2, <1>4, <1>6, <2>1
    <2>4. CASE x.bank = None
        BY <1>1, <1>6, <2>2, <2>3, <2>4 DEF GoodRow, RowTruthful
    <2>5. CASE x.bank # None
        BY <1>6, <2>2, <2>3, <2>5, CommittedItem DEF LegInv
    <2> QED
        BY <2>4, <2>5
<1>7. CASE /\ job[h].snap \in rows /\ job[h].snap.hash = y
           /\ job[h].snap.bank = x.bank /\ x.bank # None
           /\ job[h].snap.status = FiatInit /\ x.status \in FinalStatuses
           /\ job[h].snap.at < x.at
    <2>1. PICK b \in rows : b.hash = y /\ \A r \in rows : r.hash = y => r.at <= b.at
        BY <1>1, <1>7 DEF OrderInv, NewestSeen, Latest, GoodRow
    <2>2. b.bank = x.bank /\ b.status \in {FiatInit, x.status}
        BY <1>1, <1>2, <1>7, <2>1, NewestOfSale
    <2>3. ShownOf(y) = b.status /\ PaidOf(y) = b.bank
        BY <1>2, <1>3, <2>1, ShownNewest
    <2>4. CASE b.at <= x.at
        <3>1. \A r \in rows : r.hash = y => r.at <= x.at
            BY <1>1, <1>2, <2>1, <2>4
        <3> QED
            BY <1>4, <1>7, <2>2, <2>3, <3>1
    <2>5. CASE ~(b.at <= x.at)
        <3>1. b.status = x.status
            BY <1>1, <1>2, <1>7, <2>1, <2>2, <2>5 DEF LegInv, OpenedOnce
        <3>2. \A r \in rows' : r.at \in Nat /\ (r.hash = y => r.at <= b.at)
            BY <1>1, <1>2, <2>1, <2>5
        <3>3. ShownOf(y)' = b.status /\ PaidOf(y)' = b.bank
            BY <1>1, <2>1, <3>2, ShownNewestNext
        <3> QED
            BY <2>3, <3>3
    <2> QED
        BY <2>4, <2>5
<1> QED
    BY <1>5, <1>6, <1>7, OrderItem

(* A sale that is not recorded is shown with no order.                     *)
LEMMA PaidElsewhere ==
    ASSUME NewestSeen, NEW s, s # None, ~Recorded(s), NEW y \in Hashes
    PROVE  PaidOf(y) # s
<1>1. CASE ItemsOf(y) = {}
    BY <1>1 DEF PaidOf
<1>2. CASE ItemsOf(y) # {}
    <2>1. Latest(ItemsOf(y)) # {} /\ Latest(ItemsOf(y)) \subseteq rows
        BY <1>2 DEF NewestSeen, ItemsOf, Latest
    <2>2. Newest(ItemsOf(y)) \in rows
        BY <2>1 DEF Newest
    <2> QED
        BY <1>2, <2>2 DEF PaidOf, Recorded
<1> QED
    BY <1>1, <1>2

LEMMA CommitLives ==
    ASSUME TruthInv, OnceInv, LegInv, OrderInv, StampsDistinct',
           NEW h \in Handlers, Commit(h)
    PROVE  [Life!Next]_Life!lifeVars
<1> DEFINE shown == [z \in Hashes |-> ShownOf(z)]
           paid == [z \in Hashes |-> PaidOf(z)]
           verdict == [t \in Sales |-> VerdictOf(t)]
<1>1. PICK x : x = job[h].row
    OBVIOUS
<1>2. PICK y : y = x.hash
    OBVIOUS
<1>3. GoodRow(x) /\ y \in Hashes /\ x \in Row
    BY <1>1, <1>2, StampedRow, CommitEffect DEF GoodRow
<1>4. UNCHANGED <<screening, verdict>>
    <2>1. stage' = stage /\ screening' = screening
        BY DEF Commit, partnerVars
    <2>2. \A t \in Sales : VerdictOf(t)' = VerdictOf(t)
        BY <2>1 DEF VerdictOf
    <2> QED
        BY <2>1, <2>2
<1>5. \A z \in Hashes : z # y => ShownOf(z)' = ShownOf(z) /\ PaidOf(z)' = PaidOf(z)
    BY <1>1, <1>2, OrdersKept DEF OnceInv
<1>6. /\ shown' = [shown EXCEPT ![y] = ShownOf(y)']
      /\ paid' = [paid EXCEPT ![y] = PaidOf(y)']
      /\ shown[y] = ShownOf(y) /\ paid[y] = PaidOf(y)
    BY <1>3, <1>5
<1>7. PaidOf(y)' = PaidOf(y) => paid' = paid
    BY <1>3, <1>5
<1>8. CASE /\ ShownOf(y) = "NONE" /\ PaidOf(y) = None
           /\ ShownOf(y)' = CryptoCompleted /\ PaidOf(y)' = None
    <2>1. Life!Arrive(y)
        BY <1>4, <1>6, <1>7, <1>8 DEF Life!Arrive, Life!Shows, CryptoCompleted
    <2> QED
        BY <1>3, <2>1 DEF Life!Next
<1>9. CASE /\ ShownOf(y) = CryptoCompleted /\ PaidOf(y) = None
           /\ ShownOf(y)' = x.status /\ PaidOf(y)' = x.bank
           /\ x.status = AmlFailed /\ x.bank = None
    <2>1. screening[y] = "failed"
        BY <1>2, <1>3, <1>9 DEF GoodRow, RowTruthful
    <2>2. Life!Reject(y)
        BY <1>4, <1>6, <1>7, <1>9, <2>1 DEF Life!Reject, Life!Shows, CryptoCompleted, AmlFailed
    <2> QED
        BY <1>3, <2>2 DEF Life!Next
<1>10. CASE /\ ShownOf(y) = CryptoCompleted /\ PaidOf(y) = None
            /\ ShownOf(y)' = x.status /\ PaidOf(y)' = x.bank
            /\ x.status = FiatInit /\ x.bank # None /\ ~Recorded(x.bank)
    <2>1. screening[y] = "completed" /\ x.bank \in Sales
        BY <1>2, <1>3, <1>10 DEF GoodRow, RowTruthful, Row
    <2>2. \A z \in Hashes : paid[z] # x.bank
        BY <1>10, PaidElsewhere DEF OrderInv
    <2>3. Life!Sell(y, x.bank)
        BY <1>4, <1>6, <1>10, <2>1, <2>2 DEF Life!Sell, Life!Shows, CryptoCompleted, FiatInit
    <2> QED
        BY <1>3, <2>1, <2>3 DEF Life!Next
<1>11. CASE /\ ShownOf(y) = FiatInit /\ PaidOf(y) = x.bank
            /\ ShownOf(y)' = x.status /\ PaidOf(y)' = x.bank
            /\ x.bank # None /\ x.status \in FinalStatuses
    <2>1. /\ x.bank \in Sales
          /\ x.status = FiatCompleted => stage[x.bank] = "completed"
          /\ x.status = FiatFailed => stage[x.bank] = "failed"
        BY <1>3, <1>11 DEF GoodRow, RowTruthful, Row
    <2>2. /\ x.status = FiatCompleted => verdict[x.bank] = "completed"
          /\ x.status = FiatFailed => verdict[x.bank] = "failed"
        BY <2>1 DEF VerdictOf
    <2>3. Life!End(y)
        BY <1>4, <1>6, <1>7, <1>11, <2>2
            DEF Life!End, Life!Shows, FinalStatuses, FiatInit, FiatCompleted, FiatFailed
    <2> QED
        BY <1>3, <2>3 DEF Life!Next
<1>12. CASE ShownOf(y)' = ShownOf(y) /\ PaidOf(y)' = PaidOf(y)
    <2>1. shown' = shown /\ paid' = paid
        BY <1>3, <1>5, <1>12
    <2> QED
        BY <1>4, <2>1 DEF Life!lifeVars
<1> QED
    BY <1>1, <1>2, <1>8, <1>9, <1>10, <1>11, <1>12, CommitShows

(* The partner screens a deposit, settles a sale, or has said nothing new. *)
LEMMA PartnerChanges ==
    ASSUME TypeOK, [Next]_vars
    PROVE  \/ screening' = screening
           \/ rows' = rows /\ stage' = stage /\ \E x \in Hashes : Screen(x)
<1>1. ASSUME NEW h \in Handlers, Step(h)
      PROVE  UNCHANGED screening
    BY <1>1 DEF Step, Commit, PutError, ReadByHash, RecordAmlFailed, Send,
        BalanceSuffices, DetailsFound, SaleRefused, SaleAccepted, GiveUp, RecordSale,
        ReadByBank, RecordOutcome, partnerVars
<1>2. ASSUME NEW h \in Handlers,
             \/ \E q \in Requests : SellCrypto(h, q)
             \/ \E x \in Hashes : ReceiveDeposit(h, x)
             \/ \E t \in Sales : ReceiveFiat(h, t)
      PROVE  UNCHANGED screening
    BY <1>2 DEF SellCrypto, ReceiveDeposit, ReceiveFiat, partnerVars
<1>3. CASE \/ \E t \in Sales : Settle(t)
           \/ Crash
           \/ ReplicaCatchesUp
           \/ UNCHANGED vars
    BY <1>3 DEF Settle, Crash, ReplicaCatchesUp, vars, partnerVars
<1>4. ASSUME NEW x \in Hashes, Screen(x)
      PROVE  rows' = rows /\ stage' = stage
    BY <1>4 DEF Screen, storeVars
<1> QED
    BY <1>1, <1>2, <1>3, <1>4 DEF Next

LEMMA StillLives ==
    ASSUME TruthInv, OnceInv, rows' = rows, [Next]_vars
    PROVE  [Life!Next]_Life!lifeVars
<1> DEFINE shown == [z \in Hashes |-> ShownOf(z)]
           paid == [z \in Hashes |-> PaidOf(z)]
           verdict == [t \in Sales |-> VerdictOf(t)]
<1>1. TypeOK
    BY DEF TruthInv
<1>2. shown' = shown /\ paid' = paid
    <2>1. ASSUME NEW z
          PROVE  ShownOf(z)' = ShownOf(z) /\ PaidOf(z)' = PaidOf(z)
        <3>1. ItemsOf(z)' = ItemsOf(z)
            BY DEF ItemsOf
        <3> QED
            BY <3>1 DEF ShownOf, PaidOf, Newest, Latest
    <2> QED
        BY <2>1
<1>3. ASSUME NEW x \in Hashes, Screen(x)
      PROVE  Life!Next
    <2>1. verdict' = verdict
        <3>1. \A t \in Sales : VerdictOf(t)' = VerdictOf(t)
            BY <1>3 DEF VerdictOf, Screen
        <3> QED
            BY <3>1
    <2>2. Life!Screen(x)
        BY <1>2, <1>3, <2>1 DEF Screen, Life!Screen, Verdicts
    <2> QED
        BY <2>2 DEF Life!Next
<1>4. ASSUME NEW t \in Sales, Settle(t)
      PROVE  Life!Next
    <2>1. Leg!Decide(t)
        BY <1>1, <1>4, SettleDecides
    <2>2. Life!Decide(t)
        BY <1>2, <1>4, <2>1 DEF Leg!Decide, Life!Decide, Settle
    <2> QED
        BY <2>2 DEF Life!Next
<1>5. CASE screening' = screening /\ \A t \in Sales : VerdictOf(t)' = VerdictOf(t)
    <2>1. verdict' = verdict
        BY <1>5
    <2> QED
        BY <1>2, <1>5, <2>1 DEF Life!lifeVars
<1> QED
    BY <1>1, <1>3, <1>4, <1>5, PartnerChanges, VerdictKept

LEMMA StepLives ==
    ASSUME TruthInv, OnceInv, LegInv, OrderInv, StampsDistinct', [Next]_vars
    PROVE  [Life!Next]_Life!lifeVars
<1>1. rows' = rows \/ \E h \in Handlers : Commit(h)
    BY StepKinds DEF StampStep, QuietStep, TruthInv
<1> QED
    BY <1>1, CommitLives, StillLives

LEMMA InitLives == Init => Life!Init
<1> SUFFICES ASSUME Init
             PROVE  Life!Init
    OBVIOUS
<1>1. \A x \in Hashes : ShownOf(x) = "NONE" /\ PaidOf(x) = None
    BY DEF Init, StoreInit, ShownOf, PaidOf, ItemsOf
<1>2. \A s \in Sales : VerdictOf(s) = "open"
    BY DEF Init, VerdictOf
<1>3. screening = [x \in Hashes |-> "pending"]
    BY DEF Init
<1> QED
    BY <1>1, <1>2, <1>3 DEF Life!Init

(* An order that is posted once lives once: Offramp implements OrderLife,  *)
(* whatever is lost, rejected or forgotten, while deposits are notified    *)
(* one at a time and reads see every write.                                *)
THEOREM OrderImplemented ==
    ASSUME StrictClock, OneAtATime, OnePost
    PROVE  Spec => ImplementsOrderLife
<1> DEFINE IInv == TruthInv /\ OnceInv /\ LegInv /\ OrderInv
<1>1. Init => Life!Init
    BY InitLives
<1>2. IInv /\ IInv' /\ [Next]_vars => [Life!Next]_Life!lifeVars
    BY StepLives DEF OnceInv
<1>3. Spec => []IInv
    BY OrderHeld
<1> QED
    BY <1>1, <1>2, <1>3, PTL DEF Spec, ImplementsOrderLife, Life!Spec
=============================================================================
