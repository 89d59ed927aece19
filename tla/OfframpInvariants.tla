------------------------- MODULE OfframpInvariants --------------------------
(* The strengthenings that make the safety properties of Offramp           *)
(* inductive: what a request in progress remembers is still true of the    *)
(* table and of the partner when it is used.                               *)
EXTENDS Offramp

(* An item that is truthful and was posted with a hash.                    *)
GoodRow(r) == r \in Row /\ r.hash \in Hashes /\ RowTruthful(r)

(* What a deposit notification knows, by the call it is about to make.     *)
DepositTruthful(j) ==
    /\ j.hash \in Hashes
    /\ j.verdict \in {"completed", "failed"} => screening[j.hash] = j.verdict
    /\ j.pc \in {"read", "amlFailed", "balance", "details", "sell", "sold", "put"}
    /\ j.pc # "read" =>
        /\ GoodRow(j.snap)
        /\ j.snap.status = CryptoCompleted
        /\ j.snap.hash = j.hash
        /\ j.verdict \in {"completed", "failed"}
    /\ j.pc = "amlFailed" => j.verdict = "failed"
    /\ j.pc \in {"balance", "details", "sell", "sold"} => j.verdict = "completed"
    /\ j.pc \in {"read", "amlFailed", "balance", "details", "sell"} => j.sale = None
    /\ j.sale # None => Sold(j.sale) /\ origin[j.sale] = j.snap
    /\ j.pc = "put" => GoodRow(j.row) /\ j.row.bank = j.sale /\ j.row.hash = j.hash

(* What a fiat notification knows.                                         *)
FiatTruthful(j) ==
    /\ j.sale \in Sales
    /\ Sold(j.sale)
    /\ j.verdict # "none"
    /\ j.verdict \in {"completed", "failed"} => stage[j.sale] = j.verdict
    /\ j.pc \in {"read", "settle", "put"}
    /\ j.pc # "read" =>
        /\ GoodRow(j.snap)
        /\ j.snap.status = FiatInit
        /\ j.snap.bank = j.sale
        /\ j.verdict \in {"completed", "failed"}
    /\ j.pc = "put" => GoodRow(j.row) /\ j.row.bank = j.sale

PostTruthful(j) ==
    /\ j.pc = "put"
    /\ GoodRow(j.row)
    /\ j.row.bank = None

JobTruthful(j) ==
    \/ j = Idle
    \/ j.kind = "post" /\ PostTruthful(j)
    \/ j.kind = "deposit" /\ DepositTruthful(j)
    \/ j.kind = "fiat" /\ FiatTruthful(j)

(* Nothing the table, its lagging copy or a request in progress holds      *)
(* contradicts the partner.                                                *)
TruthInv ==
    /\ TypeOK
    /\ \A r \in rows \cup replica : GoodRow(r)
    /\ \A h \in Handlers : JobTruthful(job[h])

-----------------------------------------------------------------------------
(* No two stamps are equal, and the clock has passed them all.             *)
Stamped(h) == job[h].pc = "put"

StampsDistinct ==
    /\ \A r \in rows : r.at <= clock
    /\ \A h \in Handlers : Stamped(h) => job[h].row.at <= clock
    /\ \A r, q \in rows : r.at = q.at => r = q
    /\ \A h \in Handlers, r \in rows : Stamped(h) => job[h].row.at # r.at
    /\ \A g, h \in Handlers :
        g # h /\ Stamped(g) /\ Stamped(h) => job[g].row.at # job[h].row.at

(* At most one notification of a deposit is being handled.                 *)
OneSeller ==
    \A g, h \in Handlers :
        g # h /\ job[g].kind = "deposit" /\ job[h].kind = "deposit"
            => job[g].hash # job[h].hash

(* The item a request read is still in the table.                          *)
HasRead(h) == \/ job[h].kind = "deposit" /\ job[h].pc # "read"
              \/ job[h].kind = "fiat" /\ job[h].pc # "read"

SnapsKept == \A h \in Handlers : HasRead(h) => job[h].snap \in rows

(* What records a sale is newer than the item it was made from.            *)
RecordsLater ==
    /\ \A s \in Sales : Sold(s) => origin[s] \in Row
    /\ \A r \in rows : r.bank # None => origin[r.bank].at < r.at
    /\ \A h \in Handlers :
        Stamped(h) /\ job[h].row.bank # None
            => origin[job[h].row.bank].at < job[h].row.at

Accounted(s) == Recorded(s) \/ Held(s)

(* The item a notification is about to sell from has not been sold from.   *)
Unspent(h) ==
    job[h].kind = "deposit" /\ job[h].pc \in {"balance", "details", "sell"}
        => \A s \in Sales : Sold(s) /\ origin[s] = job[h].snap => ~Accounted(s)

OnceInv ==
    /\ StampsDistinct
    /\ OneSeller
    /\ SnapsKept
    /\ RecordsLater
    /\ \A h \in Handlers : Unspent(h)
    /\ NoDoubleSale

-----------------------------------------------------------------------------
(* The register of a sale: its newest item.                                *)
FinalStatuses == {FiatCompleted, FiatFailed}

(* A read is served items of the table only.                               *)
ReplicaKept == replica \subseteq rows

(* A sale is held by one request and is not recorded yet, and that request *)
(* writes its first item.                                                  *)
HeldOnce ==
    \A h \in Handlers :
        job[h].kind = "deposit" /\ job[h].sale # None =>
            /\ ~Recorded(job[h].sale)
            /\ \A g \in Handlers \ {h} :
                job[g].kind = "deposit" => job[g].sale # job[h].sale
            /\ Stamped(h) => job[h].row.status = FiatInit

(* An outcome is newer than the item it was made from.                     *)
OutcomesLater ==
    \A h \in Handlers :
        job[h].kind = "fiat" /\ job[h].pc # "read" =>
            /\ job[h].snap \in rows
            /\ Stamped(h) =>
                /\ job[h].row.status \in FinalStatuses
                /\ job[h].snap.at < job[h].row.at

(* A sale has one FIAT_INIT item, and it is older than every outcome.      *)
OpenedOnce ==
    \A r, q \in rows :
        r.bank = q.bank /\ r.status = FiatInit =>
            /\ q.status = FiatInit => q = r
            /\ q.status \in FinalStatuses => r.at < q.at

(* The items of a recorded sale have a newest one.                         *)
NewestKept == \A s \in Sales : Recorded(s) => Latest({r \in rows : r.bank = s}) # {}

LegInv ==
    /\ StampsDistinct
    /\ ReplicaKept
    /\ HeldOnce
    /\ OutcomesLater
    /\ OpenedOnce
    /\ NewestKept
-----------------------------------------------------------------------------
(* The items of orders that are posted once, one per deposit.              *)
Posting(h) == job[h].kind = "post"

(* Nothing is known of a deposit until its order is posted, and one        *)
(* request posts it.                                                       *)
PostedOnce ==
    /\ \A q \in Requests : posts[q] = 0 =>
        /\ \A r \in rows : r.hash # q.hash
        /\ \A h \in Handlers : Posting(h) => job[h].row.hash # q.hash
    /\ \A h \in Handlers : Posting(h) =>
        /\ job[h].row.status = CryptoCompleted
        /\ \A r \in rows : r.hash # job[h].row.hash
        /\ \A g \in Handlers \ {h} : Posting(g) => job[g].row.hash # job[h].row.hash

(* A notification of a deposit that goes on has read its only item, and    *)
(* writes a newer one.                                                     *)
OnlyItem ==
    \A h \in Handlers : job[h].kind = "deposit" /\ job[h].pc # "read" =>
        /\ \A r \in rows : r.hash = job[h].hash => r = job[h].snap
        /\ Stamped(h) =>
            /\ job[h].row.status # CryptoCompleted
            /\ job[h].snap.at < job[h].row.at

(* Of a deposit's items the post is the oldest, and the others tell of one *)
(* course of events: an AML failure or one sale.                           *)
OneCourse ==
    \A r, q \in rows : r.hash = q.hash =>
        /\ r.status = CryptoCompleted =>
            q = r \/ (q.status # CryptoCompleted /\ r.at < q.at)
        /\ r.status # CryptoCompleted /\ q.status # CryptoCompleted => r.bank = q.bank

(* The items of a deposit have a newest one.                               *)
NewestSeen ==
    \A x \in Hashes :
        (\E r \in rows : r.hash = x) => Latest({r \in rows : r.hash = x}) # {}

(* A sale was made from an item of the table.                              *)
OriginStored == \A s \in Sales : Sold(s) => origin[s] \in rows

OrderInv == PostedOnce /\ OnlyItem /\ OneCourse /\ NewestSeen /\ OriginStored
=============================================================================

