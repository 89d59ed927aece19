--------------------------- MODULE OfframpLambda ----------------------------
(***************************************************************************)
(* The event-driven off-ramp of infrastructure/lambdas/offramp.  The API   *)
(* puts a SELL event on the bus, a rule copies it into an SQS queue, and a *)
(* Lambda function takes one message at a time from the queue.  SQS        *)
(* removes a message when the invocation that received it returns, and     *)
(* delivers it again when the invocation fails.  The function records the  *)
(* lineage of each message in the transaction table, one item per status.  *)
(***************************************************************************)
EXTENDS Naturals, Sequences

CONSTANTS
    Messages,   \* SELL messages, each with a txId of its own
    Users,
    UserOf,     \* the user_id of each message
    Workers,    \* concurrent invocations of the function
    Faults,     \* what may go wrong, a subset of FaultKinds
    MaxMishaps, \* bound: how many faults happen
    MaxCredits, \* bound: how many deposits a user makes
    MaxLineage  \* bound: the length of a lineage with which a message is
                \* still received

(* putError: DynamoDB rejects a write.  lostResponse: the partner sells    *)
(* but its answer never arrives.  die: an invocation times out or is       *)
(* killed.  duplicate: a message is received again while an invocation     *)
(* still works on it (the queue is a standard queue, and its visibility    *)
(* timeout is shorter than the function's timeout).                        *)
FaultKinds == {"putError", "lostResponse", "die", "duplicate"}

ASSUME LambdaAssumption ==
    /\ UserOf \in [Messages -> Users]
    /\ Faults \subseteq FaultKinds
    /\ MaxMishaps \in Nat
    /\ MaxCredits \in Nat
    /\ MaxLineage \in Nat

VARIABLES
    queue,      \* where each message is
    run,        \* what each invocation is doing
    lineage,    \* the statuses recorded for each message
    critical,   \* messages recorded as unknown_<messageId>
    balance,    \* each user's balance at the partner, in amounts of a sale
    credits,    \* how many deposits each user made
    verified,   \* the users whose KYC the partner verified
    sold,       \* how often the partner accepted the sale of a message
    severed,    \* messages an invocation of which failed after their sale
                \* (history)
    mishaps     \* how many faults have happened

recordVars == <<lineage, critical>>
partnerVars == <<balance, credits, verified, sold>>
vars == <<queue, run, lineage, critical, balance, credits, verified, sold, severed,
          mishaps>>

LineageStatuses == {"PENDING", "KYC_ERROR", "CRITICAL_ERROR", "ALL_OK"}

Free == [pc |-> "free"]

(* The call an invocation waits for, and the status it will report.        *)
PCs == {"record", "balance", "details", "sell", "report", "critical", "done"}

Busy == [pc     : PCs,
         msg    : Messages,
         report : LineageStatuses]

TypeOK ==
    /\ queue \in [Messages -> {"unsent", "queued", "deleted"}]
    /\ run \in [Workers -> {Free} \cup Busy]
    /\ lineage \in [Messages -> Seq(LineageStatuses)]
    /\ critical \subseteq Messages
    /\ balance \in [Users -> Nat]
    /\ credits \in [Users -> 0..MaxCredits]
    /\ verified \subseteq Users
    /\ sold \in [Messages -> Nat]
    /\ severed \subseteq Messages
    /\ mishaps \in 0..MaxMishaps

Init ==
    /\ queue = [m \in Messages |-> "unsent"]
    /\ run = [w \in Workers |-> Free]
    /\ lineage = [m \in Messages |-> <<>>]
    /\ critical = {}
    /\ balance = [u \in Users |-> 0]
    /\ credits = [u \in Users |-> 0]
    /\ verified = {}
    /\ sold = [m \in Messages |-> 0]
    /\ severed = {}
    /\ mishaps = 0

-----------------------------------------------------------------------------
Mishap(kind) ==
    /\ kind \in Faults
    /\ mishaps < MaxMishaps
    /\ mishaps' = mishaps + 1

At(w, pc) == run[w].pc = pc
Client(w) == UserOf[run[w].msg]

Goto(w, pc) == run' = [run EXCEPT ![w].pc = pc] /\ UNCHANGED severed
ToReport(w, status) ==
    /\ run' = [run EXCEPT ![w].pc = "report", ![w].report = status]
    /\ UNCHANGED severed

(* The invocation ends with an exception: the message stays in the queue.  *)
Fail(w) ==
    /\ run' = [run EXCEPT ![w] = Free]
    /\ severed' = severed \cup {m \in Messages : run[w].msg = m /\ sold[m] > 0}

(* Faulty variants: no catch, so the invocation fails with the message     *)
(* still in the queue, and a catch that only logs.                         *)
Uncaught(w) == Fail(w)
Swallowed(w) == Goto(w, "done")

(* The catch clause of the handler: whatever threw, recordCritical is next.*)
Caught(w) == Goto(w, "critical")

sendOffRampMessage(m) ==
    /\ queue[m] = "unsent"
    /\ queue' = [queue EXCEPT ![m] = "queued"]
    /\ UNCHANGED <<run, recordVars, partnerVars, severed, mishaps>>

(* Only a mishap puts a message back, so MaxLineage = 2 * MaxMishaps + 1   *)
(* never holds a message up: an invocation records two statuses at most.   *)
Receive(w, m) ==
    /\ At(w, "free")
    /\ queue[m] = "queued"
    /\ Len(lineage[m]) < MaxLineage
    /\ IF \E v \in Workers : run[v] # Free /\ run[v].msg = m
       THEN Mishap("duplicate")
       ELSE UNCHANGED mishaps
    /\ run' = [run EXCEPT ![w] = [pc |-> "record", msg |-> m, report |-> "PENDING"]]
    /\ UNCHANGED <<queue, recordVars, partnerVars, severed>>

(* recordLineage: one more item of the message.  The item spreads the      *)
(* message over the computed fields, so it is stored under the txId that a *)
(* SELL message carries in place of the txn_hash given as its key; two     *)
(* items of one message are taken never to have the same createdAt, which  *)
(* would replace the first.                                                *)
recordLineage(w, status) ==
    /\ lineage' = [lineage EXCEPT ![run[w].msg] = Append(@, status)]
    /\ UNCHANGED <<queue, critical, partnerVars, mishaps>>

RecordPending(w) ==
    /\ At(w, "record")
    /\ recordLineage(w, "PENDING")
    /\ Goto(w, "balance")

(* handleTXMsg, one action per call to the partner.                        *)
getWithdrawalBalance(w) ==
    /\ At(w, "balance")
    /\ IF balance[Client(w)] > 0 THEN Goto(w, "details") ELSE ToReport(w, "PENDING")
    /\ UNCHANGED <<queue, recordVars, partnerVars, mishaps>>

getUserDetails(w) ==
    /\ At(w, "details")
    /\ IF Client(w) \in verified THEN Goto(w, "sell") ELSE ToReport(w, "KYC_ERROR")
    /\ UNCHANGED <<queue, recordVars, partnerVars, mishaps>>

(* Faulty variants: failure_code is not looked at, and it is recorded in   *)
(* place of a status.                                                      *)
OutcomeUnchecked(accepted) == "ALL_OK"
ProviderCode(accepted) == IF accepted THEN "ALL_OK" ELSE "PROVIDER_ERROR"

Outcome(accepted) == IF accepted THEN "ALL_OK" ELSE "CRITICAL_ERROR"

(* The partner refuses a sale (failure_code), or accepts it while the      *)
(* balance lasts; its answer may get lost.                                 *)
offrampFiatSell(w) ==
    /\ At(w, "sell")
    /\ \/ /\ ToReport(w, Outcome(FALSE))
          /\ UNCHANGED <<balance, sold, mishaps>>
       \/ /\ balance[Client(w)] > 0
          /\ balance' = [balance EXCEPT ![Client(w)] = @ - 1]
          /\ sold' = [sold EXCEPT ![run[w].msg] = @ + 1]
          /\ \/ ToReport(w, Outcome(TRUE)) /\ UNCHANGED mishaps
             \/ Caught(w) /\ Mishap("lostResponse")
    /\ UNCHANGED <<queue, recordVars, credits, verified>>

(* A call throws: the connection fails, or the partner answers with        *)
(* success = false, or a verified user has no bank account.                *)
CallThrows(w) ==
    /\ run[w].pc \in {"balance", "details", "sell"}
    /\ Caught(w)
    /\ UNCHANGED <<queue, recordVars, partnerVars, mishaps>>

Report(w) ==
    /\ At(w, "report")
    /\ recordLineage(w, run[w].report)
    /\ Goto(w, "done")

recordCritical(w) ==
    /\ At(w, "critical")
    /\ critical' = critical \cup {run[w].msg}
    /\ Goto(w, "done")
    /\ UNCHANGED <<queue, lineage, partnerVars, mishaps>>

(* A lineage write that fails is caught; when recordCritical fails too,    *)
(* the invocation fails and the message stays in the queue.                *)
PutError(w) ==
    /\ Mishap("putError")
    /\ \/ run[w].pc \in {"record", "report"} /\ Caught(w)
       \/ At(w, "critical") /\ Fail(w)
    /\ UNCHANGED <<queue, recordVars, partnerVars>>

(* The invocation returns and SQS removes the message.                     *)
Return(w) ==
    /\ At(w, "done")
    /\ queue' = [queue EXCEPT ![run[w].msg] = "deleted"]
    /\ run' = [run EXCEPT ![w] = Free]
    /\ UNCHANGED <<recordVars, partnerVars, severed, mishaps>>

Die(w) ==
    /\ ~At(w, "free")
    /\ Mishap("die")
    /\ Fail(w)
    /\ UNCHANGED <<queue, recordVars, partnerVars>>

-----------------------------------------------------------------------------
(* The users, at the partner.                                              *)

Credit(u) ==
    /\ credits[u] < MaxCredits
    /\ credits' = [credits EXCEPT ![u] = @ + 1]
    /\ balance' = [balance EXCEPT ![u] = @ + 1]
    /\ UNCHANGED <<queue, run, recordVars, verified, sold, severed, mishaps>>

Verify(u) ==
    /\ u \notin verified
    /\ verified' = verified \cup {u}
    /\ UNCHANGED <<queue, run, recordVars, balance, credits, sold, severed, mishaps>>

Step(w) ==
    \/ RecordPending(w)
    \/ getWithdrawalBalance(w)
    \/ getUserDetails(w)
    \/ offrampFiatSell(w)
    \/ CallThrows(w)
    \/ Report(w)
    \/ recordCritical(w)
    \/ PutError(w)
    \/ Return(w)

Next ==
    \/ \E w \in Workers :
        \/ Step(w)
        \/ Die(w)
        \/ \E m \in Messages : Receive(w, m)
    \/ \E m \in Messages : sendOffRampMessage(m)
    \/ \E u \in Users : Credit(u) \/ Verify(u)

Spec == Init /\ [][Next]_vars
-----------------------------------------------------------------------------
(* Properties.                                                             *)

Deleted(m) == queue[m] = "deleted"
Reported(m) == {lineage[m][i] : i \in 1..Len(lineage[m])}

(* "Let's try our best to not loose data": a message leaves the queue only *)
(* with a lineage or a critical item behind, whatever writes fail and      *)
(* whichever invocations die or run twice.                                 *)
NothingLost == \A m \in Messages : Deleted(m) => Reported(m) # {} \/ m \in critical

(* ALL_OK is recorded only for a message whose sale the partner accepted,  *)
(* even when another invocation of the same message met a refusal.         *)
LineageTruthful == \A m \in Messages : "ALL_OK" \in Reported(m) => sold[m] > 0

(* No single failing write and no single lost answer sells a message       *)
(* twice: the handler never lets a message it may have sold go back to     *)
(* the queue.                                                              *)
OneSalePerMessage == \A m \in Messages : sold[m] <= 1

(* A sale no invocation is working on any more has left ALL_OK or the      *)
(* critical item an administrator looks at, unless an invocation failed    *)
(* after the sale: it died, or both its writes were rejected.  That loses  *)
(* the sale for good: the redelivered message may find the balance spent,  *)
(* and then it is recorded as PENDING and leaves the queue.  So no lost    *)
(* answer and no single rejected write loses a sale; one crash does.       *)
SalesTraced ==
    \A m \in Messages :
        sold[m] > 0 /\ (\A w \in Workers : run[w] = Free \/ run[w].msg # m)
            => "ALL_OK" \in Reported(m) \/ m \in critical \/ m \in severed

(* Lambda polls the queue and runs each invocation to its end.             *)
Fairness ==
    /\ \A w \in Workers : WF_vars(Step(w))
    /\ \A m \in Messages : WF_vars(\E w \in Workers : Receive(w, m))

FairSpec == Spec /\ Fairness

(* No message stays in the queue for good: one that makes the handler      *)
(* throw is recorded and removed instead of being delivered over and over  *)
(* (the queue has no dead-letter queue).                                   *)
MessagesConsumed ==
    \A m \in Messages : queue[m] = "queued" ~> queue[m] = "deleted"

(* "For low balance error, we just mark the TX as pending to retry later": *)
(* a message marked PENDING is tried again once its user has a balance.    *)
Waiting(m) ==
    /\ Deleted(m)
    /\ m \notin critical
    /\ lineage[m][Len(lineage[m])] = "PENDING"
    /\ UserOf[m] \in verified
    /\ balance[UserOf[m]] > 0

RetriedLater == \A m \in Messages : Waiting(m) ~> ~Waiting(m)
=============================================================================
