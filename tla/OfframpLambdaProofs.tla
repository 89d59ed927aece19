------------------------ MODULE OfframpLambdaProofs -------------------------
(* Proofs about OfframpLambda for every number of messages, users,         *)
(* invocations and faults.                                                 *)
EXTENDS OfframpLambda, SequenceTheorems, TLAPS

(* A message has left a record once some item names it.                    *)
OnRecord(m) == lineage[m] # <<>> \/ m \in critical

(* What each invocation knows of its message, which makes NothingLost and  *)
(* LineageTruthful inductive: it is done only with the message on record,  *)
(* and reports ALL_OK only of a sale.                                      *)
RunHonest(w) ==
    run[w] # Free =>
        /\ run[w].pc = "done" => OnRecord(run[w].msg)
        /\ run[w].report = "ALL_OK" => sold[run[w].msg] > 0

SaleBehind(m) ==
    \A i \in 1..Len(lineage[m]) : lineage[m][i] = "ALL_OK" => sold[m] > 0

LambdaInv ==
    /\ TypeOK
    /\ \A w \in Workers : RunHonest(w)
    /\ \A m \in Messages : Deleted(m) => OnRecord(m)
    /\ \A m \in Messages : SaleBehind(m)

(* Records and sales are never taken back.                                 *)
Grows ==
    \A m \in Messages :
        /\ OnRecord(m) => OnRecord(m)'
        /\ sold[m] > 0 => sold'[m] > 0

LEMMA RunShape ==
    ASSUME TypeOK, NEW w \in Workers, ~At(w, "free")
    PROVE  run[w] \in Busy /\ run[w] # Free /\ run[w].msg \in Messages
BY DEF TypeOK, At, Free, Busy

LEMMA AppendNonEmpty ==
    ASSUME NEW S, NEW s \in Seq(S), NEW e \in S
    PROVE  Append(s, e) # <<>>
<1>1. Len(Append(s, e)) = Len(s) + 1 /\ Len(s) \in Nat
    BY AppendProperties
<1>2. Len(<<>>) = 0
    BY EmptySeq
<1> QED
    BY <1>1, <1>2

LEMMA RunUpdate ==
    ASSUME run \in [Workers -> {Free} \cup Busy], NEW w \in Workers, run[w] \in Busy
    PROVE  /\ [run EXCEPT ![w] = Free] \in [Workers -> {Free} \cup Busy]
           /\ \A pc \in PCs :
                [run EXCEPT ![w].pc = pc] \in [Workers -> {Free} \cup Busy]
           /\ \A status \in LineageStatuses :
                [run EXCEPT ![w].pc = "report", ![w].report = status]
                    \in [Workers -> {Free} \cup Busy]
<1>1. ASSUME NEW pc \in PCs
      PROVE  [run EXCEPT ![w].pc = pc] \in [Workers -> {Free} \cup Busy]
    <2>1. [run[w] EXCEPT !.pc = pc] \in Busy
        BY DEF Busy
    <2> QED
        BY <2>1
<1>2. ASSUME NEW status \in LineageStatuses
      PROVE  [run EXCEPT ![w].pc = "report", ![w].report = status]
                \in [Workers -> {Free} \cup Busy]
    <2>1. [run[w] EXCEPT !.pc = "report", !.report = status] \in Busy
        BY DEF Busy, PCs
    <2> QED
        BY <2>1
<1> QED
    BY <1>1, <1>2

LEMMA TypeInductive ==
    ASSUME TypeOK, [Next]_vars
    PROVE  TypeOK'
<1> USE LambdaAssumption DEF LambdaAssumption, TypeOK
<1>1. CASE UNCHANGED vars
    BY <1>1 DEF vars
<1>2. ASSUME NEW w \in Workers, NEW m \in Messages, Receive(w, m)
      PROVE  TypeOK'
    <2>1. [pc |-> "record", msg |-> m, report |-> "PENDING"] \in Busy
        BY DEF Busy, LineageStatuses, PCs
    <2> QED
        BY <1>2, <2>1 DEF Receive, Mishap, recordVars, partnerVars
<1>3. ASSUME NEW m \in Messages, sendOffRampMessage(m)
      PROVE  TypeOK'
    BY <1>3 DEF sendOffRampMessage, recordVars, partnerVars
<1>4. ASSUME NEW u \in Users, Credit(u)
      PROVE  TypeOK'
    BY <1>4 DEF Credit, recordVars
<1>5. ASSUME NEW u \in Users, Verify(u)
      PROVE  TypeOK'
    BY <1>5 DEF Verify, recordVars
<1>6. ASSUME NEW w \in Workers, Step(w) \/ Die(w)
      PROVE  TypeOK'
    <2>1. ~At(w, "free")
        BY <1>6 DEF Step, RecordPending, getWithdrawalBalance, getUserDetails,
            offrampFiatSell, CallThrows, Report, recordCritical, PutError,
            Return, Die, At
    <2>2. run[w] \in Busy /\ run[w].msg \in Messages /\ Client(w) \in Users
        BY <2>1, RunShape DEF Client
    <2>3. ASSUME Step(w) \/ Die(w)
          PROVE  run' \in [Workers -> {Free} \cup Busy]
        <3>1. \/ run' = [run EXCEPT ![w] = Free]
              \/ \E pc \in PCs :
                    run' = [run EXCEPT ![w].pc = pc]
              \/ \E status \in LineageStatuses :
                    run' = [run EXCEPT ![w].pc = "report", ![w].report = status]
            BY <2>3 DEF Step, RecordPending, getWithdrawalBalance, getUserDetails,
                offrampFiatSell, CallThrows, Report, recordCritical, PutError,
                Return, Die, Goto, ToReport, Caught, Fail, Uncaught, Outcome,
                LineageStatuses, PCs
        <3>2. /\ [run EXCEPT ![w] = Free] \in [Workers -> {Free} \cup Busy]
              /\ \A pc \in PCs :
                    [run EXCEPT ![w].pc = pc] \in [Workers -> {Free} \cup Busy]
              /\ \A status \in LineageStatuses :
                    [run EXCEPT ![w].pc = "report", ![w].report = status]
                        \in [Workers -> {Free} \cup Busy]
            BY <2>2, RunUpdate
        <3> QED
            BY <3>1, <3>2, Zenon
    <2>12. severed' \subseteq Messages
        BY <1>6 DEF Step, RecordPending, getWithdrawalBalance, getUserDetails,
            offrampFiatSell, CallThrows, Report, recordCritical, PutError,
            Return, Die, Goto, ToReport, Caught, Fail
    <2>4. ASSUME NEW status \in LineageStatuses, recordLineage(w, status)
          PROVE  lineage' \in [Messages -> Seq(LineageStatuses)]
        BY <2>2, <2>4 DEF recordLineage
    <2>5. CASE RecordPending(w)
        BY <1>6, <2>3, <2>4, <2>5, <2>12 DEF RecordPending, recordLineage,
            LineageStatuses, partnerVars
    <2>6. CASE Report(w)
        BY <1>6, <2>2, <2>3, <2>4, <2>6, <2>12 DEF Report, recordLineage, Busy, partnerVars
    <2>7. CASE offrampFiatSell(w)
        <3>1. run' \in [Workers -> {Free} \cup Busy]
            BY <1>6, <2>3
        <3>2. balance' \in [Users -> Nat] /\ sold' \in [Messages -> Nat]
            <4>1. CASE UNCHANGED <<balance, sold>>
                BY <4>1
            <4>2. CASE /\ balance[Client(w)] > 0
                       /\ balance' = [balance EXCEPT ![Client(w)] = @ - 1]
                       /\ sold' = [sold EXCEPT ![run[w].msg] = @ + 1]
                BY <4>2, <2>2
            <4> QED
                BY <4>1, <4>2, <2>7 DEF offrampFiatSell
        <3>3. UNCHANGED mishaps \/ Mishap("lostResponse")
            BY <2>7 DEF offrampFiatSell
        <3>4. mishaps' \in 0..MaxMishaps
            BY <3>3 DEF Mishap
        <3>5. UNCHANGED <<queue, lineage, critical, credits, verified>>
            BY <2>7 DEF offrampFiatSell, recordVars
        <3> QED
            BY <3>1, <3>2, <3>4, <3>5, <2>12
    <2>8. CASE recordCritical(w)
        BY <1>6, <2>2, <2>3, <2>8, <2>12 DEF recordCritical, partnerVars
    <2>9. CASE Return(w)
        BY <1>6, <2>2, <2>3, <2>9, <2>12 DEF Return, recordVars, partnerVars
    <2>10. CASE getWithdrawalBalance(w) \/ getUserDetails(w) \/ CallThrows(w)
        BY <1>6, <2>3, <2>10, <2>12 DEF getWithdrawalBalance, getUserDetails,
            CallThrows, recordVars, partnerVars
    <2>11. CASE PutError(w) \/ Die(w)
        BY <1>6, <2>3, <2>11, <2>12 DEF PutError, Die, Mishap, recordVars, partnerVars
    <2> QED
        BY <1>6, <2>5, <2>6, <2>7, <2>8, <2>9, <2>10, <2>11 DEF Step
<1> QED
    BY <1>1, <1>2, <1>3, <1>4, <1>5, <1>6 DEF Next

LEMMA GrowsAlways ==
    ASSUME TypeOK, [Next]_vars
    PROVE  Grows
<1> USE DEF Grows, OnRecord, TypeOK
<1>1. CASE UNCHANGED <<lineage, critical, sold>>
    BY <1>1
<1>2. ASSUME NEW w \in Workers, NEW status \in LineageStatuses,
             ~At(w, "free"), recordLineage(w, status)
      PROVE  Grows
    <2>1. run[w].msg \in Messages
        BY <1>2, RunShape
    <2>2. ASSUME NEW s \in Seq(LineageStatuses)
          PROVE  Append(s, status) # <<>>
        BY AppendNonEmpty
    <2>3. \A m \in Messages : lineage[m] # <<>> => lineage'[m] # <<>>
        BY <1>2, <2>1, <2>2 DEF recordLineage
    <2> QED
        BY <1>2, <2>3 DEF recordLineage, partnerVars
<1>3. ASSUME NEW w \in Workers, recordCritical(w)
      PROVE  Grows
    BY <1>3 DEF recordCritical, partnerVars
<1>4. ASSUME NEW w \in Workers, offrampFiatSell(w)
      PROVE  Grows
    <2>1. run[w].msg \in Messages
        BY <1>4, RunShape DEF offrampFiatSell, At
    <2>2. UNCHANGED <<lineage, critical>>
        BY <1>4 DEF offrampFiatSell, recordVars
    <2>3. UNCHANGED sold \/ sold' = [sold EXCEPT ![run[w].msg] = @ + 1]
        BY <1>4 DEF offrampFiatSell
    <2>4. ASSUME NEW m \in Messages, sold[m] > 0
          PROVE  sold'[m] > 0
        <3>1. sold[m] \in Nat /\ sold'[m] \in {sold[m], sold[m] + 1}
            BY <2>1, <2>3
        <3> QED
            BY <2>4, <3>1
    <2> QED
        BY <2>2, <2>4
<1>5. ASSUME NEW w \in Workers, RecordPending(w) \/ Report(w)
      PROVE  \E status \in LineageStatuses : ~At(w, "free") /\ recordLineage(w, status)
    <2>1. ~At(w, "free")
        BY <1>5 DEF RecordPending, Report, At
    <2>2. run[w].report \in LineageStatuses /\ "PENDING" \in LineageStatuses
        BY <2>1, RunShape DEF Busy, LineageStatuses
    <2> QED
        BY <1>5, <2>1, <2>2 DEF RecordPending, Report
<1>6. ASSUME NEW w \in Workers,
             \/ getWithdrawalBalance(w) \/ getUserDetails(w) \/ CallThrows(w)
             \/ PutError(w) \/ Return(w) \/ Die(w)
             \/ \E m \in Messages : Receive(w, m)
      PROVE  UNCHANGED <<lineage, critical, sold>>
    BY <1>6 DEF getWithdrawalBalance, getUserDetails, CallThrows, PutError, Return,
        Die, Receive, recordVars, partnerVars
<1>7. ASSUME NEW m \in Messages, sendOffRampMessage(m)
      PROVE  UNCHANGED <<lineage, critical, sold>>
    BY <1>7 DEF sendOffRampMessage, recordVars, partnerVars
<1>8. ASSUME NEW u \in Users, Credit(u) \/ Verify(u)
      PROVE  UNCHANGED <<lineage, critical, sold>>
    BY <1>8 DEF Credit, Verify, recordVars
<1> QED
    BY <1>1, <1>2, <1>3, <1>4, <1>5, <1>6, <1>7, <1>8 DEF Next, Step, vars

(* An item appended to the lineage of a message is behind a sale when it   *)
(* is not ALL_OK, or when the sale has been made.                          *)
LEMMA AppendBehind ==
    ASSUME TypeOK, NEW w \in Workers, ~At(w, "free"),
           NEW status \in LineageStatuses, recordLineage(w, status),
           \A m \in Messages : SaleBehind(m),
           status = "ALL_OK" => sold[run[w].msg] > 0
    PROVE  \A m \in Messages : SaleBehind(m)'
<1> SUFFICES ASSUME NEW m \in Messages
             PROVE  SaleBehind(m)'
    OBVIOUS
<1>1. run[w].msg \in Messages /\ lineage \in [Messages -> Seq(LineageStatuses)]
    BY RunShape DEF TypeOK
<1>2. UNCHANGED sold
    BY DEF recordLineage, partnerVars
<1>3. CASE m # run[w].msg
    BY <1>1, <1>2, <1>3 DEF recordLineage, SaleBehind
<1>4. CASE m = run[w].msg
    <2>1. lineage'[m] = Append(lineage[m], status)
        BY <1>1, <1>4 DEF recordLineage
    <2>2. /\ Len(lineage'[m]) = Len(lineage[m]) + 1
          /\ \A i \in 1..Len(lineage[m]) : lineage'[m][i] = lineage[m][i]
          /\ lineage'[m][Len(lineage[m]) + 1] = status
        BY <1>1, <2>1, AppendProperties
    <2>3. Len(lineage[m]) \in Nat
        BY <1>1
    <2>4. ASSUME NEW i \in 1..Len(lineage'[m]), lineage'[m][i] = "ALL_OK"
          PROVE  sold'[m] > 0
        <3>1. CASE i = Len(lineage[m]) + 1
            BY <1>2, <1>4, <2>2, <2>4, <3>1
        <3>2. CASE i \in 1..Len(lineage[m])
            BY <1>2, <2>2, <2>4, <3>2 DEF SaleBehind
        <3> QED
            BY <2>2, <2>3, <3>1, <3>2
    <2> QED
        BY <2>4 DEF SaleBehind
<1> QED
    BY <1>3, <1>4

LEMMA InvInductive ==
    ASSUME LambdaInv, [Next]_vars
    PROVE  LambdaInv'
<1> USE DEF LambdaInv
<1>1. TypeOK' /\ Grows
    BY TypeInductive, GrowsAlways
<1>2. ASSUME NEW w \in Workers
      PROVE  RunHonest(w)'
    <2>1. CASE run'[w] = run[w]
        <3>1. run[w] # Free => run[w].msg \in Messages
            BY RunShape DEF At, TypeOK, Busy
        <3> QED
            BY <1>1, <2>1, <3>1 DEF RunHonest, Grows
    <2>2. CASE run'[w] = Free
        BY <2>2 DEF RunHonest
    <2>3. CASE \E m \in Messages : Receive(w, m)
        BY <2>3 DEF Receive, RunHonest, TypeOK
    <2>4. CASE Step(w)
        <3>1. /\ run[w] \in Busy /\ run[w].msg \in Messages /\ run[w] # Free
              /\ run \in [Workers -> {Free} \cup Busy]
            BY <2>4, RunShape DEF Step, RecordPending, getWithdrawalBalance, getUserDetails,
                offrampFiatSell, CallThrows, Report, recordCritical, PutError, Return,
                At, TypeOK
        <3>. DEFINE j == run[w]
        <3>2. ASSUME NEW pc \in PCs, Goto(w, pc),
                     pc = "done" => lineage'[j.msg] # <<>> \/ j.msg \in critical'
              PROVE  RunHonest(w)'
            <4>1. run'[w] = [j EXCEPT !.pc = pc]
                BY <3>1, <3>2 DEF Goto
            <4>2. run'[w].pc = pc /\ run'[w].msg = j.msg /\ run'[w].report = j.report
                BY <3>1, <4>1 DEF Busy
            <4>3. j.report = "ALL_OK" => sold'[j.msg] > 0
                BY <1>1, <3>1, RunShape DEF RunHonest, Grows
            <4> QED
                BY <3>2, <4>2, <4>3 DEF RunHonest, OnRecord
        <3>4. CASE \E status \in LineageStatuses :
                    /\ ToReport(w, status)
                    /\ status = "ALL_OK" => sold'[j.msg] > 0
            <4>1. PICK status \in LineageStatuses :
                    /\ ToReport(w, status)
                    /\ status = "ALL_OK" => sold'[j.msg] > 0
                BY <3>4
            <4>2. run'[w] = [j EXCEPT !.pc = "report", !.report = status]
                BY <3>1, <4>1 DEF ToReport
            <4>3. run'[w].pc = "report" /\ run'[w].msg = j.msg /\ run'[w].report = status
                BY <3>1, <4>2 DEF Busy
            <4> QED
                BY <4>1, <4>3 DEF RunHonest
        <3>5. CASE RecordPending(w) \/ CallThrows(w) \/ PutError(w)
            BY <3>2, <3>5, <2>2, <3>1 DEF RecordPending, CallThrows, PutError, Caught,
                Fail, PCs
        <3>6. CASE getWithdrawalBalance(w) \/ getUserDetails(w)
            BY <3>2, <3>4, <3>6 DEF getWithdrawalBalance, getUserDetails, PCs,
                LineageStatuses
        <3>7. CASE offrampFiatSell(w)
            <4>1. CASE Caught(w)
                BY <3>2, <4>1 DEF Caught, PCs
            <4>2. CASE ToReport(w, Outcome(FALSE))
                BY <3>4, <4>2 DEF Outcome, LineageStatuses
            <4>3. CASE ToReport(w, Outcome(TRUE)) /\ sold' = [sold EXCEPT ![j.msg] = @ + 1]
                <5>1. sold'[j.msg] = sold[j.msg] + 1 /\ sold[j.msg] \in Nat
                    BY <3>1, <4>3 DEF TypeOK
                <5>2. sold'[j.msg] > 0
                    BY <5>1
                <5> QED
                    BY <3>4, <4>3, <5>2 DEF Outcome, LineageStatuses
            <4> QED
                BY <3>7, <4>1, <4>2, <4>3 DEF offrampFiatSell
        <3>8. CASE Report(w)
            <4>1. j.report \in LineageStatuses
                BY <3>1 DEF Busy
            <4>2. lineage'[j.msg] = Append(lineage[j.msg], j.report)
                BY <3>1, <3>8 DEF Report, recordLineage, TypeOK
            <4>3. lineage[j.msg] \in Seq(LineageStatuses)
                BY <3>1 DEF TypeOK
            <4>4. lineage'[j.msg] # <<>>
                BY <4>1, <4>2, <4>3, AppendNonEmpty
            <4> QED
                BY <3>2, <3>8, <4>4 DEF Report, PCs
        <3>9. CASE recordCritical(w)
            BY <3>2, <3>9, <3>1 DEF recordCritical, PCs
        <3>10. CASE Return(w)
            BY <3>10, <2>2, <3>1 DEF Return
        <3> QED
            BY <2>4, <3>5, <3>6, <3>7, <3>8, <3>9, <3>10 DEF Step
    <2>5. \/ run'[w] = run[w]
          \/ run'[w] = Free
          \/ Step(w)
          \/ \E m \in Messages : Receive(w, m)
        <3>1. ASSUME NEW v \in Workers, Step(v) \/ Die(v) \/ \E m \in Messages : Receive(v, m)
              PROVE  \E r : run' = [run EXCEPT ![v] = r]
            BY <3>1 DEF Step, RecordPending, getWithdrawalBalance, getUserDetails,
                offrampFiatSell, CallThrows, Report, recordCritical, PutError, Return,
                Die, Receive, Goto, ToReport, Caught, Fail
        <3>2. CASE UNCHANGED run
            BY <3>2
        <3>3. ASSUME NEW v \in Workers, v # w,
                     Step(v) \/ Die(v) \/ \E m \in Messages : Receive(v, m)
              PROVE  run'[w] = run[w]
            BY <3>1, <3>3 DEF TypeOK
        <3>4. CASE Die(w)
            BY <3>4 DEF Die, Fail, TypeOK
        <3>5. ASSUME NEW m \in Messages, sendOffRampMessage(m)
              PROVE  UNCHANGED run
            BY <3>5 DEF sendOffRampMessage
        <3>6. ASSUME NEW u \in Users, Credit(u) \/ Verify(u)
              PROVE  UNCHANGED run
            BY <3>6 DEF Credit, Verify
        <3> QED
            BY <3>2, <3>3, <3>4, <3>5, <3>6 DEF Next, vars
    <2> QED
        BY <2>1, <2>2, <2>3, <2>4, <2>5
<1>3. ASSUME NEW m \in Messages, Deleted(m)'
      PROVE  OnRecord(m)'
    <2>1. CASE Deleted(m)
        BY <1>1, <2>1 DEF Grows
    <2>2. CASE ~Deleted(m)
        <3>1. PICK w \in Workers : Return(w) /\ run[w].msg = m
            <4>1. ASSUME NEW w \in Workers, Return(w)
                  PROVE  run[w].msg = m
                <5>1. queue' = [queue EXCEPT ![run[w].msg] = "deleted"]
                    BY <4>1 DEF Return
                <5> QED
                    BY <5>1, <2>2, <1>3 DEF Deleted, TypeOK
            <4>2. ASSUME NEW x \in Messages, sendOffRampMessage(x)
                  PROVE  FALSE
                <5>1. queue' = [queue EXCEPT ![x] = "queued"]
                    BY <4>2 DEF sendOffRampMessage
                <5> QED
                    BY <5>1, <2>2, <1>3 DEF Deleted, TypeOK
            <4>3. queue' # queue
                BY <2>2, <1>3 DEF Deleted
            <4> QED
                BY <4>1, <4>2, <4>3 DEF Next, Step, vars, Receive, Die, RecordPending,
                    getWithdrawalBalance, getUserDetails, offrampFiatSell, CallThrows,
                    Report, recordLineage, recordCritical, PutError, Credit, Verify
        <3>2. run[w] # Free /\ run[w].pc = "done"
            BY <3>1, RunShape DEF Return, At
        <3>3. OnRecord(m)
            BY <3>1, <3>2 DEF RunHonest
        <3> QED
            BY <1>1, <3>3 DEF Grows
    <2> QED
        BY <2>1, <2>2
<1>4. \A m \in Messages : SaleBehind(m)'
    <2>1. ASSUME NEW w \in Workers, RecordPending(w)
          PROVE  \A m \in Messages : SaleBehind(m)'
        BY <2>1, AppendBehind DEF RecordPending, At, LineageStatuses
    <2>2. ASSUME NEW w \in Workers, Report(w)
          PROVE  \A m \in Messages : SaleBehind(m)'
        <3>1. ~At(w, "free") /\ run[w].report \in LineageStatuses /\ run[w] # Free
            BY <2>2, RunShape DEF Report, At, Busy
        <3>2. run[w].report = "ALL_OK" => sold[run[w].msg] > 0
            BY <3>1 DEF RunHonest
        <3> QED
            BY <2>2, <3>1, <3>2, AppendBehind DEF Report
    <2>3. CASE UNCHANGED lineage
        BY <1>1, <2>3 DEF Grows, SaleBehind
    <2>4. \/ UNCHANGED lineage
          \/ \E w \in Workers : RecordPending(w) \/ Report(w)
        BY DEF Next, Step, vars, recordVars, sendOffRampMessage, Receive, Die,
            getWithdrawalBalance, getUserDetails, offrampFiatSell, CallThrows,
            recordCritical, PutError, Return, Credit, Verify
    <2> QED
        BY <2>1, <2>2, <2>3, <2>4
<1> QED
    BY <1>1, <1>2, <1>3, <1>4

THEOREM LambdaInvariant == Spec => []LambdaInv
<1>1. Init => LambdaInv
    <2> SUFFICES ASSUME Init
                 PROVE  LambdaInv
        OBVIOUS
    <2>1. TypeOK
        BY LambdaAssumption DEF LambdaAssumption, Init, TypeOK
    <2>2. ASSUME NEW m \in Messages
          PROVE  SaleBehind(m)
        BY DEF Init, SaleBehind
    <2> QED
        BY <2>1, <2>2 DEF LambdaInv, Init, RunHonest, Deleted
<1>2. LambdaInv /\ [Next]_vars => LambdaInv'
    BY InvInductive
<1> QED
    BY <1>1, <1>2, PTL DEF Spec

(* Every variable of the Lambda keeps its type: no invocation is in an     *)
(* undefined place and no other status reaches the lineage.                *)
THEOREM LambdaTyped == Spec => []TypeOK
<1>1. LambdaInv => TypeOK
    BY DEF LambdaInv
<1> QED
    BY <1>1, LambdaInvariant, PTL

(* No message leaves the queue without an item that names it, however many *)
(* writes fail, invocations die and messages are received twice.           *)
THEOREM NeverLost == Spec => []NothingLost
<1>1. LambdaInv => NothingLost
    <2> SUFFICES ASSUME LambdaInv, NEW m \in Messages, Deleted(m), m \notin critical
                 PROVE  Reported(m) # {}
        BY DEF NothingLost
    <2>1. lineage[m] # <<>> /\ lineage[m] \in Seq(LineageStatuses)
        BY DEF LambdaInv, OnRecord, TypeOK
    <2>2. Len(lineage[m]) \in Nat \ {0}
        BY <2>1, EmptySeq
    <2>3. 1 \in 1..Len(lineage[m])
        BY <2>2
    <2> QED
        BY <2>3 DEF Reported
<1> QED
    BY <1>1, LambdaInvariant, PTL

(* ALL_OK is never recorded without a sale.                                *)
THEOREM LineageHonest == Spec => []LineageTruthful
<1>1. LambdaInv => LineageTruthful
    BY DEF LambdaInv, SaleBehind, LineageTruthful, Reported
<1> QED
    BY <1>1, LambdaInvariant, PTL

-----------------------------------------------------------------------------
(***************************************************************************)
(* What a single failing write or a single lost answer cannot do: sell a   *)
(* message twice.  It rests on the second write the handler makes after a  *)
(* failure: a message goes back to the queue only when recordCritical      *)
(* fails too, and by then the one fault has been spent before the sale.    *)
(***************************************************************************)

(* One fault at most, and no invocation dies or overlaps with another of   *)
(* its message.                                                            *)
OneFault ==
    /\ MaxMishaps <= 1
    /\ Faults \subseteq {"putError", "lostResponse"}

Traced(m) == "ALL_OK" \in Reported(m) \/ m \in critical

Holds(w, m) == run[w] # Free /\ run[w].msg = m

(* A message is worked on by one invocation, and is in the queue while it  *)
(* is worked on.                                                           *)
Exclusive ==
    \A v, w \in Workers : \A m \in Messages : Holds(v, m) /\ Holds(w, m) => v = w

StillQueued ==
    \A w \in Workers : \A m \in Messages : Holds(w, m) => queue[m] = "queued"

(* An invocation that sold goes on to record it: the sale, or, once the    *)
(* one fault has happened, the critical item.                              *)
AfterSale(w, m) ==
    \/ run[w].pc = "report" /\ run[w].report = "ALL_OK"
    \/ run[w].pc = "critical" /\ mishaps = MaxMishaps
    \/ run[w].pc = "done" /\ Traced(m)

Handled(m) ==
    \/ Deleted(m) /\ Traced(m)
    \/ \E w \in Workers : Holds(w, m) /\ AfterSale(w, m)

SalesHandled ==
    \A m \in Messages : sold[m] \in {0, 1} /\ (sold[m] > 0 => Handled(m))

RetryInv ==
    /\ TypeOK
    /\ Exclusive
    /\ StillQueued
    /\ SalesHandled

-----------------------------------------------------------------------------
(* What a step may change.                                                 *)

LEMMA HolderBusy ==
    ASSUME TypeOK, NEW w \in Workers, NEW m \in Messages, Holds(w, m)
    PROVE  run[w] \in Busy /\ ~At(w, "free")
BY DEF TypeOK, Holds, At, Busy, PCs, Free

LEMMA FreeRun ==
    ASSUME TypeOK, NEW w \in Workers, At(w, "free")
    PROVE  run[w] = Free
BY DEF TypeOK, At, Busy, PCs, Free

(* Only the invocation that takes a step changes.                          *)
LEMMA OthersStill ==
    ASSUME TypeOK, NEW w \in Workers, NEW v \in Workers \ {w},
           Step(w) \/ Die(w) \/ \E m \in Messages : Receive(w, m)
    PROVE  run'[v] = run[v]
BY DEF TypeOK, Step, RecordPending, getWithdrawalBalance, getUserDetails, offrampFiatSell,
    CallThrows, Report, recordCritical, PutError, Return, Die, Receive, Goto, ToReport,
    Caught, Fail

LEMMA RunChanges ==
    ASSUME TypeOK, [Next]_vars, NEW w \in Workers
    PROVE  \/ run'[w] = run[w]
           \/ Step(w)
           \/ Die(w)
           \/ \E m \in Messages : Receive(w, m)
<1>1. ASSUME NEW m \in Messages, sendOffRampMessage(m)
      PROVE  run'[w] = run[w]
    BY <1>1 DEF sendOffRampMessage
<1>2. ASSUME NEW u \in Users, Credit(u) \/ Verify(u)
      PROVE  run'[w] = run[w]
    BY <1>2 DEF Credit, Verify
<1>3. ASSUME NEW v \in Workers,
             Step(v) \/ Die(v) \/ \E m \in Messages : Receive(v, m)
      PROVE  v = w \/ run'[w] = run[w]
    BY <1>3, OthersStill
<1> QED
    BY <1>1, <1>2, <1>3 DEF Next, vars

(* A step of an invocation leaves it with its message or free.             *)
LEMMA StepKeepsMsg ==
    ASSUME TypeOK, NEW w \in Workers, Step(w) \/ Die(w)
    PROVE  /\ ~At(w, "free")
           /\ run'[w] = Free \/ run'[w].msg = run[w].msg
<1>1. ~At(w, "free")
    BY DEF Step, RecordPending, getWithdrawalBalance, getUserDetails, offrampFiatSell,
        CallThrows, Report, recordCritical, PutError, Return, Die, At
<1>2. run[w] \in Busy
    BY <1>1, RunShape
<1>3. \/ run' = [run EXCEPT ![w] = Free]
      \/ \E pc : Goto(w, pc)
      \/ \E status : ToReport(w, status)
    BY DEF Step, RecordPending, getWithdrawalBalance, getUserDetails, offrampFiatSell,
        CallThrows, Report, recordCritical, PutError, Return, Die, Caught, Fail
<1>4. CASE run' = [run EXCEPT ![w] = Free]
    BY <1>1, <1>4 DEF TypeOK
<1>5. ASSUME NEW pc, Goto(w, pc)
      PROVE  run'[w].msg = run[w].msg
    <2>1. run'[w] = [run[w] EXCEPT !.pc = pc]
        BY <1>5 DEF Goto, TypeOK
    <2> QED
        BY <1>2, <2>1 DEF Busy
<1>6. ASSUME NEW status, ToReport(w, status)
      PROVE  run'[w].msg = run[w].msg
    <2>1. run'[w] = [run[w] EXCEPT !.pc = "report", !.report = status]
        BY <1>6 DEF ToReport, TypeOK
    <2> QED
        BY <1>2, <2>1 DEF Busy
<1> QED
    BY <1>1, <1>3, <1>4, <1>5, <1>6

(* Who holds a message held it before, or has just received it.            *)
LEMMA HoldsKept ==
    ASSUME TypeOK, [Next]_vars, NEW w \in Workers, NEW m \in Messages, Holds(w, m)'
    PROVE  \/ Holds(w, m)
           \/ Receive(w, m)
<1>1. CASE run'[w] = run[w]
    BY <1>1 DEF Holds
<1>2. CASE Step(w) \/ Die(w)
    <2>1. run[w] # Free /\ run'[w].msg = run[w].msg
        BY <1>2, StepKeepsMsg DEF Holds, At, Free
    <2> QED
        BY <2>1 DEF Holds
<1>3. ASSUME NEW n \in Messages, Receive(w, n)
      PROVE  n = m
    BY <1>3 DEF Receive, TypeOK, Holds
<1> QED
    BY <1>1, <1>2, <1>3, RunChanges

LEMMA QueueChanges ==
    ASSUME TypeOK, [Next]_vars, NEW m \in Messages
    PROVE  \/ queue'[m] = queue[m]
           \/ queue[m] = "unsent" /\ queue'[m] = "queued"
           \/ \E w \in Workers : Return(w) /\ Holds(w, m) /\ queue'[m] = "deleted"
<1>1. ASSUME NEW w \in Workers, Return(w)
      PROVE  \/ queue'[m] = queue[m]
             \/ Holds(w, m) /\ queue'[m] = "deleted"
    <2>1. run[w] # Free
        BY <1>1 DEF Return, At, Free
    <2> QED
        BY <1>1, <2>1 DEF Return, Holds, TypeOK
<1>2. ASSUME NEW x \in Messages, sendOffRampMessage(x)
      PROVE  \/ queue'[m] = queue[m]
             \/ queue[m] = "unsent" /\ queue'[m] = "queued"
    BY <1>2 DEF sendOffRampMessage, TypeOK
<1>3. ASSUME NEW w \in Workers, Step(w), ~Return(w)
      PROVE  queue' = queue
    BY <1>3 DEF Step, RecordPending, getWithdrawalBalance, getUserDetails, offrampFiatSell,
        CallThrows, Report, recordLineage, recordCritical, PutError
<1>4. ASSUME NEW w \in Workers, Die(w) \/ \E x \in Messages : Receive(w, x)
      PROVE  queue' = queue
    BY <1>4 DEF Die, Receive
<1>5. ASSUME NEW u \in Users, Credit(u) \/ Verify(u)
      PROVE  queue' = queue
    BY <1>5 DEF Credit, Verify
<1> QED
    BY <1>1, <1>2, <1>3, <1>4, <1>5 DEF Next, vars

LEMMA MishapsChange ==
    ASSUME [Next]_vars
    PROVE  mishaps' = mishaps \/ \E kind : Mishap(kind)
<1>1. ASSUME NEW w \in Workers, Step(w)
      PROVE  mishaps' = mishaps \/ \E kind : Mishap(kind)
    BY <1>1 DEF Step, RecordPending, getWithdrawalBalance, getUserDetails, offrampFiatSell,
        CallThrows, Report, recordLineage, recordCritical, PutError, Return
<1>2. ASSUME NEW w \in Workers, Die(w) \/ \E m \in Messages : Receive(w, m)
      PROVE  mishaps' = mishaps \/ \E kind : Mishap(kind)
    BY <1>2 DEF Die, Receive
<1>3. ASSUME NEW m \in Messages, sendOffRampMessage(m)
      PROVE  mishaps' = mishaps
    BY <1>3 DEF sendOffRampMessage
<1>4. ASSUME NEW u \in Users, Credit(u) \/ Verify(u)
      PROVE  mishaps' = mishaps
    BY <1>4 DEF Credit, Verify
<1> QED
    BY <1>1, <1>2, <1>3, <1>4 DEF Next, vars

(* With one fault at most, a step that meets it meets the last one.        *)
LEMMA LastFault ==
    ASSUME OneFault, TypeOK, NEW kind, Mishap(kind)
    PROVE  mishaps # MaxMishaps /\ mishaps' = MaxMishaps
<1>1. MaxMishaps \in Nat
    BY LambdaAssumption DEF LambdaAssumption
<1> QED
    BY <1>1 DEF OneFault, TypeOK, Mishap

LEMMA SpentKept ==
    ASSUME OneFault, TypeOK, [Next]_vars, mishaps = MaxMishaps
    PROVE  mishaps' = MaxMishaps
BY MishapsChange, LastFault

(* An appended status joins those already reported.                        *)
LEMMA AppendReports ==
    ASSUME TypeOK, NEW w \in Workers, ~At(w, "free"),
           NEW status \in LineageStatuses, recordLineage(w, status)
    PROVE  /\ \A m \in Messages : run[w].msg = m => status \in Reported(m)'
           /\ \A m \in Messages : Reported(m) \subseteq Reported(m)'
<1>1. PICK n \in Messages : n = run[w].msg
    BY RunShape
<1>2. lineage \in [Messages -> Seq(LineageStatuses)]
    BY DEF TypeOK
<1>3. lineage' = [lineage EXCEPT ![n] = Append(lineage[n], status)]
    BY <1>1 DEF recordLineage
<1>4. /\ Len(lineage'[n]) = Len(lineage[n]) + 1
      /\ \A i \in 1..Len(lineage[n]) : lineage'[n][i] = lineage[n][i]
      /\ lineage'[n][Len(lineage[n]) + 1] = status
      /\ Len(lineage[n]) \in Nat
    BY <1>1, <1>2, <1>3, AppendProperties
<1>5. Reported(n)' = {lineage'[n][i] : i \in 1..Len(lineage'[n])}
    BY DEF Reported
<1>6. status \in Reported(n)'
    <2>1. Len(lineage[n]) + 1 \in 1..Len(lineage'[n])
        BY <1>4
    <2> QED
        BY <1>4, <1>5, <2>1
<1>7. Reported(n) \subseteq Reported(n)'
    BY <1>4, <1>5 DEF Reported
<1>8. \A m \in Messages \ {n} : Reported(m)' = Reported(m)
    BY <1>2, <1>3 DEF Reported
<1> QED
    BY <1>1, <1>6, <1>7, <1>8

(* What is on record of a message stays on record.                         *)
LEMMA TracedKept ==
    ASSUME TypeOK, [Next]_vars, NEW m \in Messages, Traced(m)
    PROVE  Traced(m)'
<1>1. CASE UNCHANGED <<lineage, critical>>
    BY <1>1 DEF Traced, Reported
<1>2. ASSUME NEW w \in Workers, RecordPending(w) \/ Report(w)
      PROVE  Traced(m)'
    <2>1. ~At(w, "free")
        BY <1>2 DEF RecordPending, Report, At
    <2>2. run[w].report \in LineageStatuses /\ "PENDING" \in LineageStatuses
        BY <2>1, RunShape DEF Busy, LineageStatuses
    <2>3. PICK status \in LineageStatuses : recordLineage(w, status)
        BY <1>2, <2>2 DEF RecordPending, Report
    <2>4. Reported(m) \subseteq Reported(m)' /\ critical' = critical
        BY <2>1, <2>3, AppendReports DEF recordLineage
    <2> QED
        BY <2>4 DEF Traced
<1>3. ASSUME NEW w \in Workers, recordCritical(w)
      PROVE  Traced(m)'
    BY <1>3 DEF recordCritical, Traced, Reported
<1>4. ASSUME NEW w \in Workers,
             \/ getWithdrawalBalance(w) \/ getUserDetails(w) \/ offrampFiatSell(w)
             \/ CallThrows(w) \/ PutError(w) \/ Return(w) \/ Die(w)
             \/ \E x \in Messages : Receive(w, x)
      PROVE  UNCHANGED <<lineage, critical>>
    BY <1>4 DEF getWithdrawalBalance, getUserDetails, offrampFiatSell, CallThrows,
        PutError, Return, Die, Receive, recordVars
<1>5. ASSUME NEW x \in Messages, sendOffRampMessage(x)
      PROVE  UNCHANGED <<lineage, critical>>
    BY <1>5 DEF sendOffRampMessage, recordVars
<1>6. ASSUME NEW u \in Users, Credit(u) \/ Verify(u)
      PROVE  UNCHANGED <<lineage, critical>>
    BY <1>6 DEF Credit, Verify, recordVars
<1> QED
    BY <1>1, <1>2, <1>3, <1>4, <1>5, <1>6 DEF Next, Step, vars

(* A message is sold by an invocation that is about to sell it, and that   *)
(* then reports the sale or has lost the answer.                           *)
LEMMA SoldChanges ==
    ASSUME TypeOK, [Next]_vars, NEW m \in Messages
    PROVE  \/ sold'[m] = sold[m]
           \/ \E w \in Workers :
                /\ Holds(w, m) /\ At(w, "sell")
                /\ sold'[m] = sold[m] + 1
                /\ \/ ToReport(w, "ALL_OK")
                   \/ Caught(w) /\ Mishap("lostResponse")
<1>1. ASSUME NEW w \in Workers, offrampFiatSell(w), sold'[m] # sold[m]
      PROVE  /\ Holds(w, m) /\ At(w, "sell")
             /\ sold'[m] = sold[m] + 1
             /\ \/ ToReport(w, "ALL_OK")
                \/ Caught(w) /\ Mishap("lostResponse")
    <2>1. sold' = [sold EXCEPT ![run[w].msg] = @ + 1]
        BY <1>1 DEF offrampFiatSell
    <2>2. run[w].msg = m
        BY <1>1, <2>1 DEF TypeOK
    <2>3. run[w] # Free /\ At(w, "sell")
        BY <1>1 DEF offrampFiatSell, At, Free
    <2>4. sold'[m] = sold[m] + 1
        BY <2>1, <2>2 DEF TypeOK
    <2>5. sold' # sold
        BY <1>1
    <2> QED
        BY <1>1, <2>2, <2>3, <2>4, <2>5 DEF offrampFiatSell, Holds, Outcome
<1>2. ASSUME NEW w \in Workers, Step(w), ~offrampFiatSell(w)
      PROVE  sold' = sold
    BY <1>2 DEF Step, RecordPending, getWithdrawalBalance, getUserDetails, CallThrows,
        Report, recordLineage, recordCritical, PutError, Return, partnerVars
<1>3. ASSUME NEW w \in Workers, Die(w) \/ \E x \in Messages : Receive(w, x)
      PROVE  sold' = sold
    BY <1>3 DEF Die, Receive, partnerVars
<1>4. ASSUME NEW x \in Messages, sendOffRampMessage(x)
      PROVE  sold' = sold
    BY <1>4 DEF sendOffRampMessage, partnerVars
<1>5. ASSUME NEW u \in Users, Credit(u) \/ Verify(u)
      PROVE  sold' = sold
    BY <1>5 DEF Credit, Verify
<1>6. CASE UNCHANGED vars
    BY <1>6 DEF vars
<1> QED
    BY <1>1, <1>2, <1>3, <1>4, <1>5, <1>6 DEF Next

-----------------------------------------------------------------------------
(* The parts of RetryInv.                                                  *)

LEMMA ExclusiveNext ==
    ASSUME OneFault, TypeOK, Exclusive, [Next]_vars
    PROVE  Exclusive'
<1> SUFFICES ASSUME NEW v \in Workers, NEW w \in Workers, NEW m \in Messages,
                    Holds(v, m)', Holds(w, m)', v # w
             PROVE  FALSE
    BY DEF Exclusive
<1>1. ASSUME NEW a \in Workers, NEW b \in Workers \ {a}, Holds(b, m)', Receive(a, m)
      PROVE  FALSE
    <2>1. Holds(b, m)
        BY <1>1, OthersStill DEF Holds
    <2>2. Mishap("duplicate")
        BY <1>1, <2>1 DEF Receive, Holds
    <2> QED
        BY <2>2 DEF Mishap, OneFault
<1> QED
    BY <1>1, HoldsKept DEF Exclusive

LEMMA StillQueuedNext ==
    ASSUME TypeOK, Exclusive, StillQueued, [Next]_vars
    PROVE  StillQueued'
<1> SUFFICES ASSUME NEW w \in Workers, NEW m \in Messages, Holds(w, m)'
             PROVE  queue'[m] = "queued"
    BY DEF StillQueued
<1>1. queue[m] = "queued"
    BY HoldsKept DEF Receive, StillQueued
<1>2. ASSUME NEW v \in Workers, Return(v), Holds(v, m)
      PROVE  FALSE
    <2>1. run'[v] = Free
        BY <1>2 DEF Return, TypeOK
    <2>2. v # w
        BY <2>1 DEF Holds
    <2>3. run'[w] = run[w]
        BY <1>2, <2>2, OthersStill DEF Step
    <2>4. Holds(w, m)
        BY <2>3 DEF Holds
    <2> QED
        BY <1>2, <2>2, <2>4 DEF Exclusive
<1> QED
    BY <1>1, <1>2, QueueChanges

(* A message that is about to be sold has not been sold.                   *)
LEMMA SellsUnsold ==
    ASSUME RetryInv, NEW w \in Workers, NEW m \in Messages, Holds(w, m), At(w, "sell")
    PROVE  sold[m] = 0
<1> SUFFICES ASSUME Handled(m)
             PROVE  FALSE
    BY DEF RetryInv, SalesHandled
<1>1. ~Deleted(m)
    BY DEF RetryInv, StillQueued, Deleted
<1>2. PICK v \in Workers : Holds(v, m) /\ AfterSale(v, m)
    BY <1>1 DEF Handled
<1>3. v = w
    BY <1>2 DEF RetryInv, Exclusive
<1> QED
    BY <1>2, <1>3 DEF AfterSale, At

(* A sale that has just been made is about to be recorded.                 *)
LEMMA SaleStarts ==
    ASSUME OneFault, TypeOK, NEW w \in Workers, NEW m \in Messages, Holds(w, m),
           \/ ToReport(w, "ALL_OK")
           \/ Caught(w) /\ Mishap("lostResponse")
    PROVE  Holds(w, m)' /\ AfterSale(w, m)'
<1>1. run[w] \in Busy /\ run[w].msg = m
    BY HolderBusy DEF Holds
<1>2. CASE ToReport(w, "ALL_OK")
    <2>1. run'[w] = [run[w] EXCEPT !.pc = "report", !.report = "ALL_OK"]
        BY <1>2 DEF ToReport, TypeOK
    <2>2. run'[w].pc = "report" /\ run'[w].report = "ALL_OK" /\ run'[w].msg = m
        BY <1>1, <2>1 DEF Busy
    <2>3. run'[w] # Free
        BY <2>2 DEF Free
    <2> QED
        BY <2>2, <2>3 DEF Holds, AfterSale
<1>3. CASE Caught(w) /\ Mishap("lostResponse")
    <2>1. run'[w] = [run[w] EXCEPT !.pc = "critical"]
        BY <1>3 DEF Caught, Goto, TypeOK
    <2>2. run'[w].pc = "critical" /\ run'[w].msg = m
        BY <1>1, <2>1 DEF Busy
    <2>3. run'[w] # Free
        BY <2>2 DEF Free
    <2> QED
        BY <1>3, <2>2, <2>3, LastFault DEF Holds, AfterSale
<1> QED
    BY <1>2, <1>3

(* An invocation that sold records the sale before it returns.             *)
LEMMA SaleProceeds ==
    ASSUME OneFault, TypeOK, [Next]_vars, NEW w \in Workers, NEW m \in Messages,
           Holds(w, m), AfterSale(w, m)
    PROVE  Handled(m)'
<1>1. run[w] \in Busy /\ run[w].msg = m /\ ~At(w, "free")
    BY HolderBusy DEF Holds
<1>2. ASSUME NEW pc \in {"critical", "done"}, Goto(w, pc)
      PROVE  Holds(w, m)' /\ run'[w].pc = pc
    <2>1. run'[w] = [run[w] EXCEPT !.pc = pc]
        BY <1>2 DEF Goto, TypeOK
    <2>2. run'[w].pc = pc /\ run'[w].msg = m
        BY <1>1, <2>1 DEF Busy
    <2>3. run'[w] # Free
        BY <2>2 DEF Free
    <2> QED
        BY <2>2, <2>3 DEF Holds
<1>3. CASE run'[w] = run[w]
    BY <1>3, SpentKept, TracedKept DEF Handled, AfterSale, Holds
<1>4. CASE Report(w)
    <2>1. run[w].report \in LineageStatuses
        BY <1>1 DEF Busy
    <2>2. run[w].report \in Reported(m)'
        BY <1>1, <1>4, <2>1, AppendReports DEF Report
    <2>3. run[w].report = "ALL_OK"
        BY <1>4 DEF Report, AfterSale, At
    <2>4. Traced(m)'
        BY <2>2, <2>3 DEF Traced
    <2> QED
        BY <1>2, <1>4, <2>4 DEF Report, Handled, AfterSale
<1>5. CASE PutError(w)
    <2>1. mishaps # MaxMishaps /\ mishaps' = MaxMishaps
        BY <1>5, LastFault DEF PutError
    <2>2. Caught(w)
        BY <1>5, <2>1 DEF PutError, AfterSale, At
    <2> QED
        BY <1>2, <2>1, <2>2 DEF Caught, Handled, AfterSale
<1>6. CASE recordCritical(w)
    <2>1. Traced(m)'
        BY <1>1, <1>6 DEF recordCritical, Traced
    <2> QED
        BY <1>2, <1>6, <2>1 DEF recordCritical, Handled, AfterSale
<1>7. CASE Return(w)
    <2>1. Traced(m)'
        BY <1>7, TracedKept DEF Return, AfterSale, At
    <2>2. queue'[m] = "deleted"
        BY <1>1, <1>7 DEF Return, TypeOK
    <2> QED
        BY <2>1, <2>2 DEF Handled, Deleted
<1>8. CASE Die(w) \/ \E x \in Messages : Receive(w, x)
    BY <1>1, <1>8 DEF Die, Mishap, OneFault, Receive
<1>9. ASSUME Step(w)
      PROVE  Report(w) \/ PutError(w) \/ recordCritical(w) \/ Return(w)
    BY <1>9 DEF Step, AfterSale, RecordPending, getWithdrawalBalance, getUserDetails,
        offrampFiatSell, CallThrows, At
<1> QED
    BY <1>3, <1>4, <1>5, <1>6, <1>7, <1>8, <1>9, RunChanges

LEMMA SalesHandledNext ==
    ASSUME OneFault, RetryInv, [Next]_vars
    PROVE  SalesHandled'
<1> USE DEF RetryInv
<1> SUFFICES ASSUME NEW m \in Messages
             PROVE  sold'[m] \in {0, 1} /\ (sold'[m] > 0 => Handled(m)')
    BY DEF SalesHandled
<1>1. ASSUME Handled(m)
      PROVE  Handled(m)'
    <2>1. CASE Deleted(m) /\ Traced(m)
        <3>1. ASSUME NEW w \in Workers, Holds(w, m)
              PROVE  FALSE
            BY <2>1, <3>1 DEF StillQueued, Deleted
        <3>2. Deleted(m)'
            BY <2>1, <3>1, QueueChanges DEF Deleted
        <3> QED
            BY <2>1, <3>2, TracedKept DEF Handled
    <2> QED
        BY <1>1, <2>1, SaleProceeds DEF Handled
<1>2. CASE sold'[m] = sold[m]
    BY <1>1, <1>2 DEF SalesHandled
<1>3. ASSUME NEW w \in Workers, Holds(w, m), At(w, "sell"), sold'[m] = sold[m] + 1,
             \/ ToReport(w, "ALL_OK")
             \/ Caught(w) /\ Mishap("lostResponse")
      PROVE  sold'[m] = 1 /\ Handled(m)'
    <2>1. sold[m] = 0
        BY <1>3, SellsUnsold
    <2>2. Holds(w, m)' /\ AfterSale(w, m)'
        BY <1>3, SaleStarts
    <2> QED
        BY <1>3, <2>1, <2>2 DEF Handled
<1> QED
    BY <1>2, <1>3, SoldChanges

(* With one fault at most, an invocation that sold its message is the only *)
(* one to work on it and records the sale or the critical item before it   *)
(* returns.                                                                *)
THEOREM RetryHeld ==
    ASSUME OneFault
    PROVE  Spec => []RetryInv
<1>1. Init => RetryInv
    BY LambdaAssumption DEF LambdaAssumption, Init, RetryInv, TypeOK, Exclusive, Holds,
        StillQueued, SalesHandled
<1>2. RetryInv /\ [Next]_vars => RetryInv'
    BY TypeInductive, ExclusiveNext, StillQueuedNext, SalesHandledNext DEF RetryInv
<1> QED
    BY <1>1, <1>2, PTL DEF Spec

(* No single failing write and no single lost answer sells a message       *)
(* twice: what goes back to the queue has not been sold.                   *)
THEOREM SoldOncePerMessage ==
    ASSUME OneFault
    PROVE  Spec => []OneSalePerMessage
<1>1. RetryInv => OneSalePerMessage
    <2> SUFFICES ASSUME RetryInv, NEW m \in Messages
                 PROVE  sold[m] <= 1
        BY DEF OneSalePerMessage
    <2>1. sold[m] = 0 \/ sold[m] = 1
        BY DEF RetryInv, SalesHandled
    <2> QED
        BY <2>1
<1> QED
    BY <1>1, RetryHeld, PTL

-----------------------------------------------------------------------------
(***************************************************************************)
(* What becomes of a sale, whatever happens and however often: it is on    *)
(* record, or an invocation that will put it on record is at work, or an   *)
(* invocation failed after it was made.                                    *)
(***************************************************************************)

(* An invocation about to record the sale, or the critical item for it.    *)
Telling(w, m) ==
    /\ Holds(w, m)
    /\ \/ run[w].pc = "report" /\ run[w].report = "ALL_OK"
       \/ run[w].pc = "critical"

Told(m) == Traced(m) \/ m \in severed \/ \E w \in Workers : Telling(w, m)

TraceInv == TypeOK /\ \A m \in Messages : sold[m] > 0 => Told(m)

LEMMA SeveredKept ==
    ASSUME [Next]_vars
    PROVE  severed \subseteq severed'
<1>1. ASSUME NEW w \in Workers, Step(w) \/ Die(w)
      PROVE  severed \subseteq severed'
    BY <1>1 DEF Step, RecordPending, getWithdrawalBalance, getUserDetails, offrampFiatSell,
        CallThrows, Report, recordCritical, PutError, Return, Die, Goto, ToReport,
        Caught, Fail
<1>2. ASSUME NEW w \in Workers, NEW m \in Messages, Receive(w, m)
      PROVE  severed \subseteq severed'
    BY <1>2 DEF Receive
<1>3. ASSUME NEW m \in Messages, sendOffRampMessage(m)
      PROVE  severed \subseteq severed'
    BY <1>3 DEF sendOffRampMessage
<1>4. ASSUME NEW u \in Users, Credit(u) \/ Verify(u)
      PROVE  severed \subseteq severed'
    BY <1>4 DEF Credit, Verify
<1> QED
    BY <1>1, <1>2, <1>3, <1>4 DEF Next, vars

(* An invocation that has a sale to tell of tells of it, or fails.         *)
LEMMA TellingProceeds ==
    ASSUME TypeOK, [Next]_vars, NEW w \in Workers, NEW m \in Messages,
           Telling(w, m), sold[m] > 0
    PROVE  Told(m)'
<1>1. run[w] \in Busy /\ run[w].msg = m /\ ~At(w, "free")
    BY HolderBusy DEF Telling, Holds
<1>2. CASE run'[w] = run[w]
    BY <1>2 DEF Told, Telling, Holds
<1>3. CASE Report(w)
    <2>1. run[w].report = "ALL_OK" /\ "ALL_OK" \in LineageStatuses
        BY <1>3 DEF Report, At, Telling, LineageStatuses
    <2>2. "ALL_OK" \in Reported(m)'
        BY <1>1, <1>3, <2>1, AppendReports DEF Report
    <2> QED
        BY <2>2 DEF Told, Traced
<1>4. CASE recordCritical(w)
    <2>1. Traced(m)'
        BY <1>1, <1>4 DEF recordCritical, Traced
    <2> QED
        BY <2>1 DEF Told
<1>5. CASE Fail(w)
    <2>1. m \in severed'
        BY <1>1, <1>5 DEF Fail
    <2> QED
        BY <2>1 DEF Told
<1>6. CASE Caught(w)
    <2>1. run'[w] = [run[w] EXCEPT !.pc = "critical"]
        BY <1>6 DEF Caught, Goto, TypeOK
    <2>2. run'[w].pc = "critical" /\ run'[w].msg = m
        BY <1>1, <2>1 DEF Busy
    <2>3. run'[w] # Free
        BY <2>2 DEF Free
    <2> QED
        BY <2>2, <2>3 DEF Told, Telling, Holds
<1>7. CASE Step(w)
    <2>1. Report(w) \/ recordCritical(w) \/ Caught(w) \/ Fail(w)
        BY <1>7 DEF Step, Telling, RecordPending, getWithdrawalBalance, getUserDetails,
            offrampFiatSell, CallThrows, PutError, Return, At
    <2> QED
        BY <1>3, <1>4, <1>5, <1>6, <2>1
<1>8. CASE Die(w)
    BY <1>5, <1>8 DEF Die
<1>9. ~\E x \in Messages : Receive(w, x)
    BY <1>1 DEF Receive
<1> QED
    BY <1>2, <1>7, <1>8, <1>9, RunChanges

(* An invocation that sells its message has the sale to tell of.           *)
LEMMA SaleTold ==
    ASSUME TypeOK, NEW w \in Workers, NEW m \in Messages, Holds(w, m),
           ToReport(w, "ALL_OK") \/ Caught(w)
    PROVE  Telling(w, m)'
<1>1. run[w] \in Busy /\ run[w].msg = m
    BY HolderBusy DEF Holds
<1>2. CASE ToReport(w, "ALL_OK")
    <2>1. run'[w] = [run[w] EXCEPT !.pc = "report", !.report = "ALL_OK"]
        BY <1>2 DEF ToReport, TypeOK
    <2>2. run'[w].pc = "report" /\ run'[w].report = "ALL_OK" /\ run'[w].msg = m
        BY <1>1, <2>1 DEF Busy
    <2>3. run'[w] # Free
        BY <2>2 DEF Free
    <2> QED
        BY <2>2, <2>3 DEF Telling, Holds
<1>3. CASE Caught(w)
    <2>1. run'[w] = [run[w] EXCEPT !.pc = "critical"]
        BY <1>3 DEF Caught, Goto, TypeOK
    <2>2. run'[w].pc = "critical" /\ run'[w].msg = m
        BY <1>1, <2>1 DEF Busy
    <2>3. run'[w] # Free
        BY <2>2 DEF Free
    <2> QED
        BY <2>2, <2>3 DEF Telling, Holds
<1> QED
    BY <1>2, <1>3

LEMMA TraceNext ==
    ASSUME TraceInv, [Next]_vars
    PROVE  TraceInv'
<1> USE DEF TraceInv
<1>1. TypeOK'
    BY TypeInductive
<1>2. ASSUME NEW m \in Messages, sold'[m] > 0
      PROVE  Told(m)'
    <2>1. CASE sold'[m] = sold[m]
        <3>1. CASE Traced(m) \/ m \in severed
            BY <3>1, TracedKept, SeveredKept DEF Told
        <3> QED
            BY <1>2, <2>1, <3>1, TellingProceeds DEF Told
    <2>2. ASSUME NEW w \in Workers, Holds(w, m), ToReport(w, "ALL_OK") \/ Caught(w)
          PROVE  Told(m)'
        BY <2>2, SaleTold DEF Told
    <2> QED
        BY <2>1, <2>2, SoldChanges
<1> QED
    BY <1>1, <1>2

(* A sale no invocation is working on is on record, as ALL_OK or as a      *)
(* critical item, unless an invocation failed after it: for any faults, in *)
(* any number.  A lost answer, a rejected write, a duplicate do not lose a *)
(* sale; a crash between the sale and its record does.                     *)
THEOREM SaleNeverLost == Spec => []SalesTraced
<1>1. Init => TraceInv
    <2>1. Init => TypeOK
        BY LambdaAssumption DEF LambdaAssumption, Init, TypeOK
    <2> QED
        BY <2>1 DEF TraceInv, Init
<1>2. TraceInv /\ [Next]_vars => TraceInv'
    BY TraceNext
<1>3. TraceInv => SalesTraced
    BY DEF TraceInv, Told, Telling, Holds, Traced, SalesTraced
<1> QED
    BY <1>1, <1>2, <1>3, PTL DEF Spec
=============================================================================
