----------------------------- MODULE GasTankProofs -----------------------------
(***************************************************************************)
(* What the gas tank promises, for any number of clients and wallets and   *)
(* any amounts: a granted request has its gas (GasGranted), and a wallet   *)
(* that is asked for one request at a time is never filled beyond its      *)
(* bound (NeverOverfunded).                                                *)
(***************************************************************************)
EXTENDS GasTank, SequenceTheorems, TLAPS

GasNext ==
    \/ \E c \in Clients : GasStep(c) \/ GasCallThrows(c) \/ Spend(c)
    \/ Mine

GasSpec == GasInit /\ [][GasNext]_gasVars

-----------------------------------------------------------------------------
(* All that a wallet has ever held: spending moves it, nothing takes it.   *)
Received(w) == gas[w] + spent[w]

(* What a wallet must have received for its client to find the estimate.   *)
Due(c) == fund[c].estimate + fund[c].base

(* What a request knows of its wallet at each of its steps: its top-up     *)
(* fills the gap it saw, is the transaction under its nonce once it was    *)
(* broadcast, and the gap is closed when that one is mined.                *)
Sufficient(c) ==
    LET w == WalletOf[c]
    IN  /\ Asking(c) => fund[c].answer = "none"
        /\ fund[c].base <= spent[w]
        /\ fund[c].pc \in {"populate", "broadcast"} =>
                Due(c) <= Received(w) + fund[c].value
        /\ fund[c].pc = "wait" =>
            /\ fund[c].nonce < Len(sent)
            /\ sent[fund[c].nonce + 1] = [to |-> w, value |-> fund[c].value]
            /\ Due(c) <= Received(w) + (IF fund[c].nonce < mined THEN 0 ELSE fund[c].value)
        /\ Granted(c) =>
            \/ Due(c) <= Received(w)
            \/ MaxGasAllowed + fund[c].base <= Received(w)

GrantInv == \A c \in Clients : Sufficient(c)

(* The top-ups of a wallet that wait to be mined.                          *)
Pending(w) == {n \in mined + 1 .. Len(sent) : sent[n].to = w}

Preparing(c) == fund[c].pc \in {"price", "balance", "populate", "broadcast"}

(* Nobody but its one client is about to change the wallet, and only while *)
(* no top-up is on its way: the balance that client read is the wallet's   *)
(* still, but for what was spent.                                          *)
OneAtATime(w) ==
    /\ \A c, d \in Clients :
        WalletOf[c] = w /\ WalletOf[d] = w /\ Asking(c) /\ Asking(d) => c = d
    /\ \A c \in Clients : WalletOf[c] = w /\ Preparing(c) => Pending(w) = {}
    /\ \A m, n \in Pending(w) : m = n
    /\ \A c \in Clients :
        WalletOf[c] = w /\ fund[c].pc \in {"populate", "broadcast"} =>
            gas[w] + fund[c].value <= fund[c].estimate

(* NeverOverfunded of one wallet.                                          *)
Bounded(w) ==
    \E bound \in Estimates \cup Balances :
        /\ gas[w] <= bound
        /\ \A n \in Pending(w) : gas[w] + sent[n].value <= bound

Estimated ==
    \A c \in Clients : fund[c].pc \in {"balance", "populate", "broadcast"} =>
        fund[c].estimate \in Estimates

TurnInv ==
    /\ Estimated
    /\ \A w \in Wallets \ raced : OneAtATime(w) /\ Bounded(w)

-----------------------------------------------------------------------------
(* Types.                                                                  *)

LEMMA QuietTyped ==
    ASSUME NEW tries \in 0..MaxTries
    PROVE  Quiet(tries) \in Request
  BY DEF Quiet, Request

LEMMA RequestFields ==
    ASSUME NEW r \in Request
    PROVE  /\ r.tries \in Nat /\ r.estimate \in Nat /\ r.value \in Nat
           /\ r.nonce \in Nat /\ r.base \in Nat
<1>0. r.tries \in 0..MaxTries
  BY DEF Request
<1>1. r.estimate \in Estimates \cup {0}
  BY Zenon DEF Request
<1>2. r.value \in Nat /\ r.nonce \in Nat /\ r.base \in Nat
  BY DEF Request
<1>3. Estimates \subseteq Nat /\ MaxTries \in Nat
  BY GasTankAssumption DEF GasTankAssumption
<1>4. r.tries \in Nat
  BY <1>0, <1>3
<1>5. r.estimate \in Nat
  <2>1. CASE r.estimate \in Estimates
    BY <2>1, <1>3
  <2>2. CASE r.estimate = 0
    BY <2>2
  <2> QED BY <1>1, <2>1, <2>2
<1> QED BY <1>2, <1>4, <1>5

(* One request moves, and the rest of the state stays.                     *)
LEMMA RequestTyped ==
    ASSUME GasTypeOK, NEW c \in Clients, NEW r \in Request,
           fund' = [fund EXCEPT ![c] = r], UNCHANGED <<gas, sent, mined, spent, raced>>
    PROVE  GasTypeOK'
  BY DEF GasTypeOK

LEMMA GasTypeInit == GasInit => GasTypeOK
<1> SUFFICES ASSUME GasInit PROVE GasTypeOK
  OBVIOUS
<1>1. gas \in [Wallets -> Nat]
  BY GasTankAssumption DEF GasInit, GasTankAssumption
<1>2. sent \in Seq([to : Wallets, value : Nat]) /\ mined \in 0..Len(sent)
  BY DEF GasInit
<1>3. fund \in [Clients -> Request]
  <2>1. Quiet(0) \in Request
    BY QuietTyped, GasTankAssumption DEF GasTankAssumption
  <2> QED BY <2>1 DEF GasInit
<1>4. spent \in [Wallets -> Nat] /\ raced \subseteq Wallets
  BY DEF GasInit
<1> QED BY <1>1, <1>2, <1>3, <1>4 DEF GasTypeOK

LEMMA GasTypeStep == GasTypeOK /\ [GasNext]_gasVars => GasTypeOK'
<1> SUFFICES ASSUME GasTypeOK, [GasNext]_gasVars PROVE GasTypeOK'
  OBVIOUS
<1>fund. ASSUME NEW c \in Clients
         PROVE  /\ fund[c] \in Request
                /\ Quiet(fund[c].tries) \in Request
                /\ WalletOf[c] \in Wallets
  <2>1. fund[c] \in Request
    BY DEF GasTypeOK
  <2>2. fund[c].tries \in 0..MaxTries
    BY <2>1 DEF Request
  <2> QED BY <2>1, <2>2, QuietTyped, GasTankAssumption DEF GasTankAssumption
<1>1. ASSUME NEW c \in Clients, getGasForTxn(c) PROVE GasTypeOK'
  <2>1. fund[c] \in Request /\ WalletOf[c] \in Wallets
    BY <1>fund
  <2>2. fund' = [fund EXCEPT ![c] = [fund[c] EXCEPT !.pc = "price", !.tries = @ + 1]]
    BY <1>1 DEF getGasForTxn
  <2>3. [fund[c] EXCEPT !.pc = "price", !.tries = @ + 1] \in Request
    <3>1. fund[c].tries \in Nat /\ fund[c].tries < MaxTries /\ MaxTries \in Nat
      BY <2>1, <1>1, RequestFields, GasTankAssumption DEF getGasForTxn, GasTankAssumption
    <3>2. fund[c].tries + 1 \in 0..MaxTries
      BY <3>1
    <3> QED BY <2>1, <3>2 DEF Request
  <2>4. raced' \subseteq Wallets
    BY <1>1, <2>1 DEF getGasForTxn, GasTypeOK
  <2> QED BY <1>1, <2>2, <2>3, <2>4 DEF getGasForTxn, GasTypeOK
<1>2. ASSUME NEW c \in Clients, ReadPrice(c) PROVE GasTypeOK'
  <2>1. PICK e \in Estimates :
          fund' = [fund EXCEPT ![c] = [fund[c] EXCEPT !.pc = "balance", !.estimate = e]]
    BY <1>2 DEF ReadPrice
  <2>2. [fund[c] EXCEPT !.pc = "balance", !.estimate = e] \in Request
    BY <1>fund DEF Request
  <2> QED BY <1>2, <2>1, <2>2, RequestTyped DEF ReadPrice
<1>3. ASSUME NEW c \in Clients, ReadBalance(c) PROVE GasTypeOK'
  <2> DEFINE w == WalletOf[c]
  <2>1. fund[c] \in Request /\ gas[w] \in Nat /\ spent[w] \in Nat
    BY <1>fund DEF GasTypeOK
  <2>2. fund[c].estimate \in Nat
    BY <2>1, RequestFields
  <2>3. CASE gas[w] < fund[c].estimate /\ gas[w] < MaxGasAllowed
    <3> DEFINE r == [fund[c] EXCEPT !.pc = "populate", !.value = fund[c].estimate - gas[w],
                                    !.base = spent[w]]
    <3>1. fund' = [fund EXCEPT ![c] = r]
      BY <1>3, <2>3 DEF ReadBalance, TopUp
    <3>2. fund[c].estimate - gas[w] \in Nat
      BY <2>1, <2>2, <2>3
    <3>3. r \in Request
      BY <2>1, <3>2 DEF Request
    <3> QED BY <1>3, <3>1, <3>3, RequestTyped DEF ReadBalance
  <2>4. CASE ~(gas[w] < fund[c].estimate /\ gas[w] < MaxGasAllowed)
    <3> DEFINE r == [fund[c] EXCEPT !.pc = "idle", !.answer = "sufficient",
                                    !.base = spent[w]]
    <3>1. fund' = [fund EXCEPT ![c] = r]
      BY <1>3, <2>4 DEF ReadBalance
    <3>3. r \in Request
      BY <2>1 DEF Request
    <3> QED BY <1>3, <3>1, <3>3, RequestTyped DEF ReadBalance
  <2> QED BY <2>3, <2>4
<1>4. ASSUME NEW c \in Clients, Populate(c) PROVE GasTypeOK'
  <2>1. fund' = [fund EXCEPT ![c] = [fund[c] EXCEPT !.pc = "broadcast", !.nonce = Len(sent)]]
    BY <1>4 DEF Populate
  <2>2. Len(sent) \in Nat
    BY DEF GasTypeOK
  <2>3. [fund[c] EXCEPT !.pc = "broadcast", !.nonce = Len(sent)] \in Request
    BY <2>2, <1>fund DEF Request
  <2> QED BY <1>4, <2>1, <2>3, RequestTyped DEF Populate
<1>5. ASSUME NEW c \in Clients, Broadcast(c) PROVE GasTypeOK'
  <2>1. fund[c] \in Request /\ Quiet(fund[c].tries) \in Request /\ WalletOf[c] \in Wallets
    BY <1>fund
  <2>2. CASE fund[c].nonce = Len(sent)
    <3>1. fund' = [fund EXCEPT ![c] = [fund[c] EXCEPT !.pc = "wait"]]
      BY <1>5, <2>2 DEF Broadcast, AwaitReceipt
    <3>2. [fund[c] EXCEPT !.pc = "wait"] \in Request
      BY <2>1 DEF Request
    <3>3. [to |-> WalletOf[c], value |-> fund[c].value] \in [to : Wallets, value : Nat]
      BY <2>1 DEF Request
    <3>4. sent' \in Seq([to : Wallets, value : Nat]) /\ Len(sent') = Len(sent) + 1
      <4>1. sent \in Seq([to : Wallets, value : Nat])
        BY DEF GasTypeOK
      <4>2. sent' = Append(sent, [to |-> WalletOf[c], value |-> fund[c].value])
        BY <1>5, <2>2 DEF Broadcast
      <4> QED BY <4>1, <4>2, <3>3, AppendProperties
    <3>5. mined' \in 0..Len(sent')
      BY <1>5, <3>4 DEF Broadcast, GasTypeOK
    <3>6. fund' \in [Clients -> Request]
      BY <3>1, <3>2 DEF GasTypeOK
    <3> QED BY <1>5, <3>4, <3>5, <3>6 DEF Broadcast, GasTypeOK
  <2>3. CASE fund[c].nonce # Len(sent)
    <3>1. fund' = [fund EXCEPT ![c] = Quiet(fund[c].tries)]
      BY <1>5, <2>3 DEF Broadcast, Failed
    <3> QED BY <1>5, <2>1, <2>3, <3>1, RequestTyped DEF Broadcast
  <2> QED BY <2>2, <2>3
<1>6. ASSUME NEW c \in Clients, Receipt(c) PROVE GasTypeOK'
  <2> DEFINE r == [fund[c] EXCEPT !.pc = "idle", !.answer = "receipt", !.value = 0, !.nonce = 0]
  <2>1. fund' = [fund EXCEPT ![c] = r]
    BY <1>6 DEF Receipt, Answered
  <2>2. r \in Request
    BY <1>fund DEF Request
  <2> QED BY <1>6, <2>1, <2>2, RequestTyped DEF Receipt
<1>7. ASSUME NEW c \in Clients, GasCallThrows(c) PROVE GasTypeOK'
  <2>1. fund' = [fund EXCEPT ![c] = Quiet(fund[c].tries)]
    BY <1>7 DEF GasCallThrows, Failed
  <2> QED BY <1>7, <2>1, <1>fund, RequestTyped DEF GasCallThrows
<1>8. ASSUME NEW c \in Clients, Spend(c) PROVE GasTypeOK'
  <2>1. WalletOf[c] \in Wallets /\ Quiet(fund[c].tries) \in Request
    BY <1>fund
  <2>2. gas' \in [Wallets -> Nat] /\ spent' \in [Wallets -> Nat]
    BY <1>8, <2>1 DEF Spend, GasTypeOK
  <2>3. fund' \in [Clients -> Request]
    BY <1>8, <2>1 DEF Spend, GasTypeOK
  <2> QED BY <1>8, <2>2, <2>3 DEF Spend, GasTypeOK
<1>9. ASSUME Mine PROVE GasTypeOK'
  <2>1. mined + 1 \in 1..Len(sent)
    BY <1>9 DEF Mine, GasTypeOK
  <2>2. sent[mined + 1] \in [to : Wallets, value : Nat]
    BY <2>1, ElementOfSeq DEF GasTypeOK
  <2>3. gas' \in [Wallets -> Nat]
    BY <1>9, <2>2 DEF Mine, GasTypeOK
  <2> QED BY <1>9, <2>1, <2>3 DEF Mine, GasTypeOK
<1>10. CASE UNCHANGED gasVars
  BY <1>10 DEF gasVars, GasTypeOK
<1> QED
  BY <1>1, <1>2, <1>3, <1>4, <1>5, <1>6, <1>7, <1>8, <1>9, <1>10 DEF GasNext, GasStep


-----------------------------------------------------------------------------
(* Granted requests have their gas.                                        *)

(* A request that does not move itself still knows what it knew.           *)
LEMMA SufficientKept ==
    ASSUME GasTypeOK, GasTypeOK', NEW d \in Clients, Sufficient(d),
           fund'[d] = fund[d], mined' = mined,
           spent[WalletOf[d]] <= spent'[WalletOf[d]],
           Received(WalletOf[d]) <= Received(WalletOf[d])',
           \A n \in 1..Len(sent) : n \in 1..Len(sent') /\ sent'[n] = sent[n]
    PROVE  Sufficient(d)'
<1> DEFINE w == WalletOf[d]
<1>1. fund[d] \in Request /\ w \in Wallets
  BY GasTankAssumption DEF GasTypeOK, GasTankAssumption
<1>2. /\ fund[d].estimate \in Nat /\ fund[d].value \in Nat
      /\ fund[d].nonce \in Nat /\ fund[d].base \in Nat /\ mined \in Nat
  BY <1>1, RequestFields DEF GasTypeOK
<1>3. /\ gas[w] \in Nat /\ spent[w] \in Nat /\ gas'[w] \in Nat /\ spent'[w] \in Nat
  BY <1>1 DEF GasTypeOK
<1>4. Due(d)' = Due(d) /\ Due(d) \in Nat
  BY <1>2 DEF Due
<1>5. Received(w) \in Nat /\ Received(w)' \in Nat
  BY <1>3 DEF Received
<1>6. (Asking(d) => fund[d].answer = "none")' /\ fund'[d].base <= spent'[w]
  BY <1>2, <1>3 DEF Sufficient, Asking
<1>7. fund'[d].pc \in {"populate", "broadcast"} => Due(d)' <= Received(w)' + fund'[d].value
  BY <1>2, <1>4, <1>5 DEF Sufficient
<1>8. ASSUME fund'[d].pc = "wait"
      PROVE  /\ fund'[d].nonce < Len(sent')
             /\ sent'[fund'[d].nonce + 1] = [to |-> w, value |-> fund'[d].value]
             /\ Due(d)' <= Received(w)' + (IF fund'[d].nonce < mined' THEN 0 ELSE fund'[d].value)
  <2>1. /\ fund[d].nonce < Len(sent)
        /\ sent[fund[d].nonce + 1] = [to |-> w, value |-> fund[d].value]
        /\ Due(d) <= Received(w) + (IF fund[d].nonce < mined THEN 0 ELSE fund[d].value)
    BY <1>8 DEF Sufficient
  <2>2. Len(sent) \in Nat /\ Len(sent') \in Nat
    BY DEF GasTypeOK
  <2>3. fund[d].nonce + 1 \in 1..Len(sent)
    BY <1>2, <2>1, <2>2
  <2>4. fund[d].nonce + 1 \in 1..Len(sent') /\ sent'[fund[d].nonce + 1] = sent[fund[d].nonce + 1]
    BY <2>3
  <2>5. fund[d].nonce < Len(sent')
    BY <1>2, <2>2, <2>4
  <2>6. Due(d)' <= Received(w)' + (IF fund[d].nonce < mined THEN 0 ELSE fund[d].value)
    BY <1>2, <1>4, <1>5, <2>1
  <2> QED BY <2>1, <2>4, <2>5, <2>6
<1>9. Granted(d)' => \/ Due(d)' <= Received(w)'
                     \/ MaxGasAllowed + fund'[d].base <= Received(w)'
  <2>1. SUFFICES ASSUME Granted(d)
                 PROVE  \/ Due(d)' <= Received(w)'
                        \/ MaxGasAllowed + fund'[d].base <= Received(w)'
    BY DEF Granted
  <2>2. \/ Due(d) <= Received(w)
        \/ MaxGasAllowed + fund[d].base <= Received(w)
    BY <2>1 DEF Sufficient
  <2>3. MaxGasAllowed \in Nat
    BY GasTankAssumption DEF GasTankAssumption
  <2> QED BY <2>2, <2>3, <1>2, <1>4, <1>5
<1> QED BY <1>6, <1>7, <1>8, <1>9 DEF Sufficient

(* Whatever one request does, another one's wallet and top-up stay.        *)
LEMMA OthersSufficient ==
    ASSUME GasTypeOK, GasTypeOK', NEW c \in Clients, NEW d \in Clients \ {c},
           Sufficient(d), GasStep(c) \/ GasCallThrows(c) \/ Spend(c)
    PROVE  Sufficient(d)'
<1> DEFINE w == WalletOf[d]
<1>1. fund'[d] = fund[d] /\ mined' = mined
  BY DEF GasTypeOK, GasStep, getGasForTxn, ReadPrice, ReadBalance, Populate, Broadcast,
         AwaitReceipt, Failed, Receipt, Answered, GasCallThrows, Spend
<1>2. \A n \in 1..Len(sent) : n \in 1..Len(sent') /\ sent'[n] = sent[n]
  <2>1. CASE sent' = sent
    BY <2>1
  <2>2. CASE sent' = Append(sent, [to |-> WalletOf[c], value |-> fund[c].value])
    <3>1. Len(sent') = Len(sent) + 1 /\ \A n \in 1..Len(sent) : sent'[n] = sent[n]
      BY <2>2 DEF GasTypeOK
    <3>2. Len(sent) \in Nat
      BY DEF GasTypeOK
    <3> QED BY <3>1, <3>2
  <2>3. \/ sent' = sent
        \/ sent' = Append(sent, [to |-> WalletOf[c], value |-> fund[c].value])
    BY DEF GasStep, getGasForTxn, ReadPrice, ReadBalance, Populate, Broadcast,
           Receipt, GasCallThrows, Spend
  <2> QED BY <2>1, <2>2, <2>3
<1>3. spent[w] <= spent'[w] /\ Received(w) <= Received(w)'
  <2>1. w \in Wallets /\ WalletOf[c] \in Wallets
    BY GasTankAssumption DEF GasTankAssumption
  <2>2. gas[w] \in Nat /\ spent[w] \in Nat
    BY <2>1 DEF GasTypeOK
  <2>3. CASE Spend(c)
    <3>1. CASE WalletOf[c] = w
      <4>1. gas'[w] = gas[w] - 1 /\ spent'[w] = spent[w] + 1
        BY <2>1, <2>3, <3>1 DEF Spend, GasTypeOK
      <4> QED BY <2>2, <4>1 DEF Received
    <3>2. CASE WalletOf[c] # w
      <4>1. gas'[w] = gas[w] /\ spent'[w] = spent[w]
        BY <2>1, <2>3, <3>2 DEF Spend, GasTypeOK
      <4> QED BY <2>2, <4>1 DEF Received
    <3> QED BY <3>1, <3>2
  <2>4. CASE UNCHANGED <<gas, spent>>
    BY <2>2, <2>4 DEF Received
  <2>5. Spend(c) \/ UNCHANGED <<gas, spent>>
    BY DEF GasStep, getGasForTxn, ReadPrice, ReadBalance, Populate, Broadcast,
           Receipt, GasCallThrows
  <2> QED BY <2>3, <2>4, <2>5
<1> QED BY <1>1, <1>2, <1>3, SufficientKept


(* What is known of a request before its step.                             *)
LEMMA RequestKnown ==
    ASSUME GasTypeOK, NEW c \in Clients
    PROVE  /\ fund[c] \in Request /\ WalletOf[c] \in Wallets
           /\ gas[WalletOf[c]] \in Nat /\ spent[WalletOf[c]] \in Nat
           /\ fund[c].estimate \in Nat /\ fund[c].value \in Nat
           /\ fund[c].nonce \in Nat /\ fund[c].base \in Nat
           /\ mined \in Nat /\ Len(sent) \in Nat /\ mined <= Len(sent)
<1>1. fund[c] \in Request /\ WalletOf[c] \in Wallets
  BY GasTankAssumption DEF GasTypeOK, GasTankAssumption
<1>2. gas[WalletOf[c]] \in Nat /\ spent[WalletOf[c]] \in Nat
  BY <1>1 DEF GasTypeOK
<1>3. mined \in Nat /\ Len(sent) \in Nat /\ mined <= Len(sent)
  BY DEF GasTypeOK
<1> QED BY <1>1, <1>2, <1>3, RequestFields

LEMMA QuietSufficient ==
    ASSUME GasTypeOK', NEW c \in Clients, NEW tries, fund'[c] = Quiet(tries)
    PROVE  Sufficient(c)'
<1>1. spent'[WalletOf[c]] \in Nat
  BY GasTankAssumption DEF GasTypeOK, GasTankAssumption
<1> QED BY <1>1 DEF Sufficient, Quiet, Asking, Granted

LEMMA OwnSufficient ==
    ASSUME GasTypeOK, GasTypeOK', NEW c \in Clients, Sufficient(c),
           GasStep(c) \/ GasCallThrows(c) \/ Spend(c)
    PROVE  Sufficient(c)'
<1> DEFINE w == WalletOf[c]
<1>0. /\ fund[c] \in Request /\ w \in Wallets
      /\ gas[w] \in Nat /\ spent[w] \in Nat
      /\ fund[c].estimate \in Nat /\ fund[c].value \in Nat
      /\ fund[c].nonce \in Nat /\ fund[c].base \in Nat
      /\ mined \in Nat /\ Len(sent) \in Nat /\ mined <= Len(sent)
  BY RequestKnown
<1>1. CASE getGasForTxn(c)
  <2>1. fund'[c] = [fund[c] EXCEPT !.pc = "price", !.tries = @ + 1] /\ spent' = spent
    BY <1>1 DEF getGasForTxn, GasTypeOK
  <2>2. fund[c].answer = "none"
    BY <1>0, <1>1 DEF getGasForTxn, Granted, Request
  <2>3. /\ fund'[c].pc = "price" /\ fund'[c].answer = "none"
        /\ fund'[c].base <= spent'[w]
    BY <1>0, <2>1, <2>2 DEF Sufficient, Request
  <2> QED BY <2>3 DEF Sufficient, Asking, Granted
<1>2. CASE ReadPrice(c)
  <2>1. PICK e \in Estimates :
          fund'[c] = [fund[c] EXCEPT !.pc = "balance", !.estimate = e] /\ spent' = spent
    BY <1>2 DEF ReadPrice, GasTypeOK
  <2>2. fund[c].answer = "none"
    BY <1>2 DEF ReadPrice, Sufficient, Asking
  <2>3. /\ fund'[c].pc = "balance" /\ fund'[c].answer = "none"
        /\ fund'[c].base <= spent'[w]
    BY <1>0, <2>1, <2>2 DEF Sufficient, Request
  <2> QED BY <2>3 DEF Sufficient, Asking, Granted
<1>3. CASE ReadBalance(c)
  <2>1. fund[c].answer = "none" /\ UNCHANGED <<gas, spent>>
    BY <1>3 DEF ReadBalance, Sufficient, Asking
  <2>2. CASE gas[w] < fund[c].estimate /\ gas[w] < MaxGasAllowed
    <3>1. fund'[c] = [fund[c] EXCEPT !.pc = "populate", !.value = fund[c].estimate - gas[w],
                                     !.base = spent[w]]
      BY <1>3, <2>2 DEF ReadBalance, TopUp, GasTypeOK
    <3>2. /\ fund'[c].pc = "populate" /\ fund'[c].answer = "none"
          /\ fund'[c].base = spent[w] /\ fund'[c].value = fund[c].estimate - gas[w]
          /\ fund'[c].estimate = fund[c].estimate
      BY <1>0, <2>1, <3>1 DEF Request
    <3>3. Due(c)' = fund[c].estimate + spent[w] /\ Received(w)' = gas[w] + spent[w]
      BY <2>1, <3>2 DEF Due, Received
    <3>4. Due(c)' <= Received(w)' + fund'[c].value
      BY <1>0, <3>2, <3>3
    <3>5. fund'[c].base <= spent'[w]
      BY <1>0, <2>1, <3>2
    <3> QED BY <3>2, <3>4, <3>5 DEF Sufficient, Asking, Granted
  <2>3. CASE ~(gas[w] < fund[c].estimate /\ gas[w] < MaxGasAllowed)
    <3>1. fund'[c] = [fund[c] EXCEPT !.pc = "idle", !.answer = "sufficient",
                                     !.base = spent[w]]
      BY <1>3, <2>3 DEF ReadBalance, GasTypeOK
    <3>2. /\ fund'[c].pc = "idle" /\ fund'[c].base = spent[w]
          /\ fund'[c].estimate = fund[c].estimate
      BY <1>0, <3>1 DEF Request
    <3>3. Due(c)' = fund[c].estimate + spent[w] /\ Received(w)' = gas[w] + spent[w]
      BY <2>1, <3>2 DEF Due, Received
    <3>4. MaxGasAllowed \in Nat
      BY GasTankAssumption DEF GasTankAssumption
    <3>5. Due(c)' <= Received(w)' \/ MaxGasAllowed + fund'[c].base <= Received(w)'
      BY <1>0, <2>3, <3>2, <3>3, <3>4
    <3>6. fund'[c].base <= spent'[w]
      BY <1>0, <2>1, <3>2
    <3> QED BY <3>2, <3>5, <3>6 DEF Sufficient, Asking
  <2> QED BY <2>2, <2>3
<1>4. CASE Populate(c)
  <2>1. /\ fund'[c] = [fund[c] EXCEPT !.pc = "broadcast", !.nonce = Len(sent)]
        /\ UNCHANGED <<gas, spent>> /\ fund[c].pc = "populate"
    BY <1>4 DEF Populate, GasTypeOK
  <2>2. /\ fund'[c].pc = "broadcast" /\ fund'[c].answer = fund[c].answer
        /\ fund'[c].base = fund[c].base /\ fund'[c].value = fund[c].value
        /\ fund'[c].estimate = fund[c].estimate
    BY <1>0, <2>1 DEF Request
  <2>3. Due(c)' = Due(c) /\ Received(w)' = Received(w)
    BY <2>1, <2>2 DEF Due, Received
  <2>4. /\ fund[c].answer = "none" /\ fund[c].base <= spent[w]
        /\ Due(c) <= Received(w) + fund[c].value
    BY <2>1 DEF Sufficient, Asking
  <2>5. Due(c)' <= Received(w)' + fund'[c].value
    BY <2>2, <2>3, <2>4
  <2>6. fund'[c].base <= spent'[w]
    BY <2>1, <2>2, <2>4
  <2> QED BY <2>2, <2>4, <2>5, <2>6 DEF Sufficient, Asking, Granted
<1>5. CASE Broadcast(c)
  <2>1. CASE fund[c].nonce = Len(sent)
    <3>1. /\ fund'[c] = [fund[c] EXCEPT !.pc = "wait"] /\ mined' = mined
          /\ UNCHANGED <<gas, spent>> /\ fund[c].pc = "broadcast"
          /\ sent' = Append(sent, [to |-> w, value |-> fund[c].value])
      BY <1>5, <2>1 DEF Broadcast, AwaitReceipt, GasTypeOK
    <3>2. /\ fund'[c].pc = "wait" /\ fund'[c].answer = fund[c].answer
          /\ fund'[c].base = fund[c].base /\ fund'[c].value = fund[c].value
          /\ fund'[c].estimate = fund[c].estimate /\ fund'[c].nonce = Len(sent)
      BY <1>0, <2>1, <3>1 DEF Request
    <3>3. Due(c)' = Due(c) /\ Received(w)' = Received(w)
      BY <3>1, <3>2 DEF Due, Received
    <3>4. /\ fund[c].answer = "none" /\ fund[c].base <= spent[w]
          /\ Due(c) <= Received(w) + fund[c].value
      BY <3>1 DEF Sufficient, Asking
    <3>5. ~(fund'[c].nonce < mined')
      BY <1>0, <3>1, <3>2
    <3>6. Due(c)' <= Received(w)' + (IF fund'[c].nonce < mined' THEN 0 ELSE fund'[c].value)
      BY <3>2, <3>3, <3>4, <3>5
    <3>7. /\ fund'[c].nonce < Len(sent')
          /\ sent'[fund'[c].nonce + 1] = [to |-> w, value |-> fund'[c].value]
      BY <1>0, <3>1, <3>2 DEF GasTypeOK
    <3>8. fund'[c].base <= spent'[w]
      BY <3>1, <3>2, <3>4
    <3> QED BY <3>2, <3>4, <3>6, <3>7, <3>8 DEF Sufficient, Asking, Granted
  <2>2. CASE fund[c].nonce # Len(sent)
    <3>1. fund'[c] = Quiet(fund[c].tries)
      BY <1>5, <2>2 DEF Broadcast, Failed, GasTypeOK
    <3> QED BY <3>1, QuietSufficient
  <2> QED BY <2>1, <2>2
<1>6. CASE Receipt(c)
  <2>1. /\ fund'[c] = [fund[c] EXCEPT !.pc = "idle", !.answer = "receipt", !.value = 0, !.nonce = 0]
        /\ UNCHANGED <<gas, spent>> /\ fund[c].pc = "wait" /\ fund[c].nonce < mined
    BY <1>6 DEF Receipt, Answered, GasTypeOK
  <2>2. /\ fund'[c].pc = "idle" /\ fund'[c].base = fund[c].base
        /\ fund'[c].estimate = fund[c].estimate
    BY <1>0, <2>1 DEF Request
  <2>3. Due(c)' = Due(c) /\ Received(w)' = Received(w)
    BY <2>1, <2>2 DEF Due, Received
  <2>4. fund[c].base <= spent[w] /\ Due(c) <= Received(w) + 0
    BY <2>1 DEF Sufficient
  <2>5. Received(w) \in Nat
    BY <1>0 DEF Received
  <2>6. Due(c)' <= Received(w)'
    BY <2>3, <2>4, <2>5
  <2>7. fund'[c].base <= spent'[w]
    BY <2>1, <2>2, <2>4
  <2> QED BY <2>2, <2>6, <2>7 DEF Sufficient, Asking
<1>7. CASE GasCallThrows(c) \/ Spend(c)
  <2>1. fund'[c] = Quiet(fund[c].tries)
    BY <1>7 DEF GasCallThrows, Failed, Spend, GasTypeOK
  <2> QED BY <2>1, QuietSufficient
<1> QED BY <1>1, <1>2, <1>3, <1>4, <1>5, <1>6, <1>7 DEF GasStep

LEMMA MineSufficient ==
    ASSUME GasTypeOK, GasTypeOK', NEW c \in Clients, Sufficient(c), Mine
    PROVE  Sufficient(c)'
<1> DEFINE w == WalletOf[c]
           t == sent[mined + 1]
<1>0. /\ w \in Wallets /\ gas[w] \in Nat /\ spent[w] \in Nat
      /\ fund[c].estimate \in Nat /\ fund[c].value \in Nat
      /\ fund[c].nonce \in Nat /\ fund[c].base \in Nat
      /\ mined \in Nat /\ Len(sent) \in Nat /\ mined <= Len(sent)
  BY RequestKnown
<1>1. t \in [to : Wallets, value : Nat]
  <2>1. mined + 1 \in 1..Len(sent)
    BY <1>0 DEF Mine
  <2> QED BY <2>1, ElementOfSeq DEF GasTypeOK
<1>2. /\ UNCHANGED <<sent, fund, spent>> /\ mined' = mined + 1
      /\ gas'[w] = IF t.to = w THEN gas[w] + t.value ELSE gas[w]
  BY <1>0, <1>1 DEF Mine, GasTypeOK
<1>3. Received(w)' = Received(w) + (IF t.to = w THEN t.value ELSE 0) /\ Received(w) \in Nat
  BY <1>0, <1>1, <1>2 DEF Received
<1>4. Received(w) <= Received(w)' /\ Received(w)' \in Nat
  BY <1>1, <1>3
<1>5. Due(c)' = Due(c) /\ Due(c) \in Nat
  BY <1>0, <1>2 DEF Due
<1>6. (Asking(c) => fund[c].answer = "none")' /\ fund'[c].base <= spent'[w]
  BY <1>2 DEF Sufficient, Asking
<1>7. fund'[c].pc \in {"populate", "broadcast"} => Due(c)' <= Received(w)' + fund'[c].value
  BY <1>0, <1>2, <1>3, <1>4, <1>5 DEF Sufficient
<1>8. ASSUME fund'[c].pc = "wait"
      PROVE  /\ fund'[c].nonce < Len(sent')
             /\ sent'[fund'[c].nonce + 1] = [to |-> w, value |-> fund'[c].value]
             /\ Due(c)' <= Received(w)' + (IF fund'[c].nonce < mined' THEN 0 ELSE fund'[c].value)
  <2>1. /\ fund[c].nonce < Len(sent)
        /\ sent[fund[c].nonce + 1] = [to |-> w, value |-> fund[c].value]
        /\ Due(c) <= Received(w) + (IF fund[c].nonce < mined THEN 0 ELSE fund[c].value)
    BY <1>2, <1>8 DEF Sufficient
  <2>2. CASE fund[c].nonce = mined
    <3>1. t.to = w /\ t.value = fund[c].value
      BY <2>1, <2>2
    <3>2. Due(c) <= Received(w) + fund[c].value
      BY <1>0, <2>1, <2>2
    <3>3. Received(w)' = Received(w) + fund[c].value
      BY <1>3, <3>1
    <3>4. fund[c].nonce < mined'
      BY <1>0, <1>2, <2>2
    <3>5. Due(c)' <= Received(w)' + (IF fund'[c].nonce < mined' THEN 0 ELSE fund'[c].value)
      BY <1>2, <1>4, <1>5, <3>2, <3>3, <3>4
    <3> QED BY <1>2, <2>1, <3>5
  <2>3. CASE fund[c].nonce # mined
    <3>1. fund[c].nonce < mined' <=> fund[c].nonce < mined
      BY <1>0, <1>2, <2>3
    <3>2. Due(c)' <= Received(w)' + (IF fund'[c].nonce < mined' THEN 0 ELSE fund'[c].value)
      BY <1>0, <1>2, <1>3, <1>4, <1>5, <2>1, <3>1
    <3> QED BY <1>2, <2>1, <3>2
  <2> QED BY <2>2, <2>3
<1>9. Granted(c)' => \/ Due(c)' <= Received(w)'
                     \/ MaxGasAllowed + fund'[c].base <= Received(w)'
  <2>1. SUFFICES ASSUME Granted(c)
                 PROVE  \/ Due(c)' <= Received(w)'
                        \/ MaxGasAllowed + fund'[c].base <= Received(w)'
    BY <1>2 DEF Granted
  <2>2. \/ Due(c) <= Received(w)
        \/ MaxGasAllowed + fund[c].base <= Received(w)
    BY <2>1 DEF Sufficient
  <2>3. MaxGasAllowed \in Nat
    BY GasTankAssumption DEF GasTankAssumption
  <2> QED BY <2>2, <2>3, <1>0, <1>2, <1>3, <1>4, <1>5
<1> QED BY <1>6, <1>7, <1>8, <1>9 DEF Sufficient

LEMMA GrantInit == GasInit /\ GasTypeOK => GrantInv
<1> SUFFICES ASSUME GasInit, GasTypeOK, NEW c \in Clients PROVE Sufficient(c)
  BY DEF GrantInv
<1>1. fund[c] = Quiet(0)
  BY DEF GasInit
<1>2. spent[WalletOf[c]] \in Nat
  BY RequestKnown
<1> QED BY <1>1, <1>2 DEF Sufficient, Quiet, Asking, Granted

LEMMA GrantStep == GasTypeOK /\ GasTypeOK' /\ GrantInv /\ [GasNext]_gasVars => GrantInv'
<1> SUFFICES ASSUME GasTypeOK, GasTypeOK', GrantInv, [GasNext]_gasVars, NEW d \in Clients
             PROVE  Sufficient(d)'
  BY DEF GrantInv
<1>1. Sufficient(d)
  BY DEF GrantInv
<1>2. ASSUME NEW c \in Clients, GasStep(c) \/ GasCallThrows(c) \/ Spend(c)
      PROVE  Sufficient(d)'
  <2>1. CASE d = c
    BY <1>1, <1>2, <2>1, OwnSufficient
  <2>2. CASE d # c
    BY <1>1, <1>2, <2>2, OthersSufficient
  <2> QED BY <2>1, <2>2
<1>3. CASE Mine
  BY <1>1, <1>3, MineSufficient
<1>4. CASE UNCHANGED gasVars
  BY <1>1, <1>4 DEF gasVars, Sufficient, Asking, Granted, Due, Received
<1> QED BY <1>2, <1>3, <1>4 DEF GasNext

LEMMA GrantGas == GasTypeOK /\ GrantInv => GasGranted
<1> SUFFICES ASSUME GasTypeOK, GrantInv, NEW c \in Clients, Granted(c)
             PROVE  LET had == gas[WalletOf[c]] + (spent[WalletOf[c]] - fund[c].base)
                    IN  had >= fund[c].estimate \/ had >= MaxGasAllowed
  BY DEF GasGranted
<1> DEFINE w == WalletOf[c]
<1>1. /\ gas[w] \in Nat /\ spent[w] \in Nat
      /\ fund[c].estimate \in Nat /\ fund[c].base \in Nat /\ MaxGasAllowed \in Nat
  BY RequestKnown, GasTankAssumption DEF GasTankAssumption
<1>2. \/ fund[c].estimate + fund[c].base <= gas[w] + spent[w]
      \/ MaxGasAllowed + fund[c].base <= gas[w] + spent[w]
  BY DEF GrantInv, Sufficient, Due, Received
<1>3. \/ gas[w] + (spent[w] - fund[c].base) >= fund[c].estimate
      \/ gas[w] + (spent[w] - fund[c].base) >= MaxGasAllowed
  BY <1>1, <1>2
<1> QED BY <1>3


-----------------------------------------------------------------------------
(* No wallet is filled beyond its bound.                                   *)

LEMMA EstimatedStep == GasTypeOK /\ Estimated /\ [GasNext]_gasVars => Estimated'
<1> SUFFICES ASSUME GasTypeOK, Estimated, [GasNext]_gasVars, NEW d \in Clients,
                    fund'[d].pc \in {"balance", "populate", "broadcast"}
             PROVE  fund'[d].estimate \in Estimates
  BY DEF Estimated
<1>0. fund[d] \in Request /\ fund \in [Clients -> Request]
  BY DEF GasTypeOK
<1>1. CASE fund'[d] = fund[d]
  BY <1>1 DEF Estimated
<1>2. CASE getGasForTxn(d)
  BY <1>0, <1>2 DEF getGasForTxn, Request
<1>3. CASE ReadPrice(d)
  <2>1. PICK e \in Estimates :
          fund'[d] = [fund[d] EXCEPT !.pc = "balance", !.estimate = e]
    BY <1>0, <1>3 DEF ReadPrice
  <2> QED BY <1>0, <2>1 DEF Request
<1>4. CASE ReadBalance(d)
  <2>1. fund[d].pc = "balance" /\ fund'[d].estimate = fund[d].estimate
    BY <1>0, <1>4 DEF ReadBalance, Request
  <2> QED BY <2>1 DEF Estimated
<1>5. CASE Populate(d)
  <2>1. fund[d].pc = "populate" /\ fund'[d].estimate = fund[d].estimate
    BY <1>0, <1>5 DEF Populate, Request
  <2> QED BY <2>1 DEF Estimated
<1>6. CASE Broadcast(d)
  BY <1>0, <1>6 DEF Broadcast, AwaitReceipt, Failed, Quiet, Request
<1>7. CASE Receipt(d)
  BY <1>0, <1>7 DEF Receipt, Answered, Request
<1>8. CASE GasCallThrows(d) \/ Spend(d)
  BY <1>0, <1>8 DEF GasCallThrows, Failed, Spend, Quiet
<1>9. ASSUME NEW c \in Clients \ {d}, GasStep(c) \/ GasCallThrows(c) \/ Spend(c)
      PROVE  fund'[d] = fund[d]
  BY <1>0, <1>9
  DEF GasStep, getGasForTxn, ReadPrice, ReadBalance, Populate, Broadcast,
      AwaitReceipt, Failed, Receipt, Answered, GasCallThrows, Spend
<1>10. CASE Mine \/ UNCHANGED gasVars
  BY <1>1, <1>10 DEF Mine, gasVars
<1> QED BY <1>1, <1>2, <1>3, <1>4, <1>5, <1>6, <1>7, <1>8, <1>9, <1>10 DEF GasNext, GasStep

(* What concerns other wallets does not disturb this one.                  *)
LEMMA TurnKept ==
    ASSUME GasTypeOK, NEW w \in Wallets, OneAtATime(w), Bounded(w),
           \A d \in Clients : WalletOf[d] = w => fund'[d] = fund[d],
           gas'[w] = gas[w], Pending(w)' = Pending(w),
           \A n \in Pending(w) : sent'[n] = sent[n]
    PROVE  OneAtATime(w)' /\ Bounded(w)'
<1>1. OneAtATime(w)'
  BY DEF OneAtATime, Asking, Preparing
<1>2. Bounded(w)'
  BY DEF Bounded
<1> QED BY <1>1, <1>2

LEMMA OthersTurn ==
    ASSUME GasTypeOK, NEW w \in Wallets, OneAtATime(w), Bounded(w),
           NEW c \in Clients, WalletOf[c] # w,
           GasStep(c) \/ GasCallThrows(c) \/ Spend(c)
    PROVE  OneAtATime(w)' /\ Bounded(w)'
<1>1. \A d \in Clients : WalletOf[d] = w => fund'[d] = fund[d]
  BY DEF GasTypeOK, GasStep, getGasForTxn, ReadPrice, ReadBalance, Populate, Broadcast,
         AwaitReceipt, Failed, Receipt, Answered, GasCallThrows, Spend
<1>2. gas'[w] = gas[w] /\ mined' = mined
  BY DEF GasTypeOK, GasStep, getGasForTxn, ReadPrice, ReadBalance, Populate, Broadcast,
         Receipt, GasCallThrows, Spend
<1>3. Pending(w)' = Pending(w) /\ \A n \in Pending(w) : sent'[n] = sent[n]
  <2>1. CASE sent' = sent
    BY <1>2, <2>1 DEF Pending
  <2>2. CASE sent' = Append(sent, [to |-> WalletOf[c], value |-> fund[c].value])
    <3>1. /\ Len(sent) \in Nat /\ mined \in Nat /\ Len(sent') = Len(sent) + 1
          /\ sent'[Len(sent) + 1].to # w
          /\ \A n \in 1..Len(sent) : sent'[n] = sent[n]
      BY <2>2 DEF GasTypeOK
    <3>2. \A n \in mined + 1 .. Len(sent') : n \in mined + 1 .. Len(sent) \/ n = Len(sent) + 1
      BY <3>1
    <3>3. \A n \in mined + 1 .. Len(sent) : n \in 1..Len(sent) /\ n \in mined + 1 .. Len(sent')
      BY <3>1
    <3> QED BY <1>2, <3>1, <3>2, <3>3 DEF Pending
  <2>3. \/ sent' = sent
        \/ sent' = Append(sent, [to |-> WalletOf[c], value |-> fund[c].value])
    BY DEF GasStep, getGasForTxn, ReadPrice, ReadBalance, Populate, Broadcast,
           Receipt, GasCallThrows, Spend
  <2> QED BY <2>1, <2>2, <2>3
<1> QED BY <1>1, <1>2, <1>3, TurnKept

(* The wallet's client moves, and the chain does not.                      *)
LEMMA OwnTurn ==
    ASSUME GasTypeOK, NEW c \in Clients, NEW w \in Wallets, WalletOf[c] = w,
           OneAtATime(w), Bounded(w), NEW r,
           fund' = [fund EXCEPT ![c] = r], UNCHANGED <<gas, sent, mined>>,
           r.pc # "idle" => \A d \in Clients : WalletOf[d] = w /\ Asking(d) => d = c,
           r.pc \in {"price", "balance", "populate", "broadcast"} => Pending(w) = {},
           r.pc \in {"populate", "broadcast"} => gas[w] + r.value <= r.estimate
    PROVE  OneAtATime(w)' /\ Bounded(w)'
<1>1. fund'[c] = r /\ \A d \in Clients \ {c} : fund'[d] = fund[d]
  BY DEF GasTypeOK
<1>2. Pending(w)' = Pending(w)
  BY DEF Pending
<1>3. \A a, b \in Clients :
        WalletOf[a] = w /\ WalletOf[b] = w /\ Asking(a)' /\ Asking(b)' => a = b
  BY <1>1 DEF OneAtATime, Asking
<1>4. \A d \in Clients : WalletOf[d] = w /\ Preparing(d)' => Pending(w)' = {}
  BY <1>1, <1>2 DEF OneAtATime, Preparing
<1>5. \A m, n \in Pending(w)' : m = n
  BY <1>2 DEF OneAtATime
<1>6. \A d \in Clients :
        WalletOf[d] = w /\ fund'[d].pc \in {"populate", "broadcast"} =>
            gas'[w] + fund'[d].value <= fund'[d].estimate
  BY <1>1 DEF OneAtATime
<1>7. Bounded(w)'
  BY <1>2 DEF Bounded
<1> QED BY <1>3, <1>4, <1>5, <1>6, <1>7 DEF OneAtATime

(* While a request is at work, no other is.                                *)
LEMMA SoleClient ==
    ASSUME NEW w, OneAtATime(w), NEW c \in Clients, WalletOf[c] = w, Asking(c)
    PROVE  \A d \in Clients : WalletOf[d] = w /\ Asking(d) => d = c
  BY DEF OneAtATime


LEMMA BroadcastTurn ==
    ASSUME GasTypeOK, Estimated, NEW c \in Clients, NEW w \in Wallets, WalletOf[c] = w,
           OneAtATime(w), Bounded(w), Broadcast(c), fund[c].nonce = Len(sent)
    PROVE  OneAtATime(w)' /\ Bounded(w)'
<1> DEFINE last == Len(sent) + 1
<1>0. /\ fund[c] \in Request /\ gas[w] \in Nat /\ fund[c].value \in Nat
      /\ mined \in Nat /\ Len(sent) \in Nat /\ mined <= Len(sent)
      /\ fund[c].estimate \in Nat
  BY RequestKnown
<1>1. /\ fund[c].pc = "broadcast" /\ UNCHANGED <<gas, mined>>
      /\ fund' = [fund EXCEPT ![c] = [fund[c] EXCEPT !.pc = "wait"]]
      /\ sent' = Append(sent, [to |-> w, value |-> fund[c].value])
  BY DEF Broadcast, AwaitReceipt
<1>2. Pending(w) = {}
  BY <1>1 DEF OneAtATime, Preparing
<1>3. /\ Len(sent') = last /\ sent'[last] = [to |-> w, value |-> fund[c].value]
      /\ \A n \in 1..Len(sent) : sent'[n] = sent[n]
  BY <1>1 DEF GasTypeOK
<1>4. Pending(w)' = {last}
  <2>1. ASSUME NEW n \in mined + 1 .. Len(sent'), sent'[n].to = w PROVE n = last
    <3>1. n # last => n \in mined + 1 .. Len(sent) /\ n \in 1..Len(sent)
      BY <1>0, <1>3
    <3>2. n # last => n \in Pending(w)
      BY <1>3, <2>1, <3>1 DEF Pending
    <3> QED BY <1>2, <3>2
  <2>2. last \in mined + 1 .. Len(sent') /\ sent'[last].to = w
    BY <1>0, <1>3
  <2> QED BY <1>1, <2>1, <2>2 DEF Pending
<1>5. fund'[c].pc = "wait" /\ \A d \in Clients \ {c} : fund'[d] = fund[d]
  BY <1>0, <1>1 DEF GasTypeOK, Request
<1>6. \A d \in Clients : WalletOf[d] = w /\ Asking(d) => d = c
  BY <1>1, SoleClient DEF Asking
<1>7. OneAtATime(w)'
  <2>1. \A a, b \in Clients :
          WalletOf[a] = w /\ WalletOf[b] = w /\ Asking(a)' /\ Asking(b)' => a = b
    BY <1>5, <1>6 DEF Asking
  <2>2. \A d \in Clients : WalletOf[d] = w => fund'[d].pc \in {"idle", "wait"}
    BY <1>5, <1>6 DEF Asking
  <2> QED BY <1>4, <2>1, <2>2 DEF OneAtATime, Preparing
<1>8. Bounded(w)'
  <2>1. gas[w] + fund[c].value <= fund[c].estimate /\ fund[c].estimate \in Estimates
    BY <1>1 DEF OneAtATime, Estimated
  <2>2. gas'[w] <= fund[c].estimate
    BY <1>0, <1>1, <2>1
  <2>3. \A n \in Pending(w)' : gas'[w] + sent'[n].value <= fund[c].estimate
    BY <1>1, <1>3, <1>4, <2>1
  <2> QED BY <2>1, <2>2, <2>3 DEF Bounded
<1> QED BY <1>7, <1>8

LEMMA SpendTurn ==
    ASSUME GasTypeOK, NEW c \in Clients, NEW w \in Wallets, WalletOf[c] = w,
           OneAtATime(w), Bounded(w), Spend(c)
    PROVE  OneAtATime(w)' /\ Bounded(w)'
<1>0. gas[w] \in Nat /\ gas'[w] = gas[w] - 1 /\ UNCHANGED <<sent, mined>>
  BY DEF Spend, GasTypeOK
<1>1. Pending(w)' = Pending(w)
  BY <1>0 DEF Pending
<1>2. fund'[c].pc = "idle" /\ \A d \in Clients \ {c} : fund'[d] = fund[d]
  BY DEF Spend, Quiet, GasTypeOK
<1>3. OneAtATime(w)'
  <2>1. ASSUME NEW d \in Clients, WalletOf[d] = w, fund'[d].pc \in {"populate", "broadcast"}
        PROVE  gas'[w] + fund'[d].value <= fund'[d].estimate
    <3>1. fund'[d] = fund[d] /\ gas[w] + fund[d].value <= fund[d].estimate
      BY <1>2, <2>1 DEF OneAtATime
    <3>2. fund[d].value \in Nat /\ fund[d].estimate \in Nat
      BY RequestKnown
    <3> QED BY <1>0, <3>1, <3>2
  <2> QED BY <1>1, <1>2, <2>1 DEF OneAtATime, Asking, Preparing
<1>4. Bounded(w)'
  <2>1. PICK bound \in Estimates \cup Balances :
          /\ gas[w] <= bound
          /\ \A n \in Pending(w) : gas[w] + sent[n].value <= bound
    BY DEF Bounded
  <2>2. bound \in Nat
    BY GasTankAssumption DEF GasTankAssumption
  <2>3. \A n \in Pending(w) : sent[n].value \in Nat
    <3>1. \A n \in Pending(w) : n \in 1..Len(sent)
      BY DEF GasTypeOK, Pending
    <3>2. \A n \in 1..Len(sent) : sent[n] \in [to : Wallets, value : Nat]
      BY ElementOfSeq DEF GasTypeOK
    <3> QED BY <3>1, <3>2
  <2>4. gas'[w] <= bound
    BY <1>0, <2>1, <2>2
  <2>5. \A n \in Pending(w) : gas'[w] + sent[n].value <= bound
    BY <1>0, <2>1, <2>2, <2>3
  <2> QED BY <1>0, <1>1, <2>4, <2>5 DEF Bounded
<1> QED BY <1>3, <1>4

LEMMA MineTurn ==
    ASSUME GasTypeOK, NEW w \in Wallets, OneAtATime(w), Bounded(w), Mine
    PROVE  OneAtATime(w)' /\ Bounded(w)'
<1> DEFINE next == mined + 1
<1>0. /\ mined \in Nat /\ Len(sent) \in Nat /\ next \in 1..Len(sent)
      /\ next \in mined + 1 .. Len(sent)
      /\ mined' = next /\ UNCHANGED <<sent, fund>> /\ gas[w] \in Nat
  BY DEF Mine, GasTypeOK
<1>1. sent[next] \in [to : Wallets, value : Nat]
  BY <1>0, ElementOfSeq DEF GasTypeOK
<1>2. Pending(w)' = Pending(w) \ {next}
  <2>1. \A n : n \in mined' + 1 .. Len(sent) <=> n \in mined + 1 .. Len(sent) /\ n # next
    BY <1>0
  <2> QED BY <1>0, <2>1 DEF Pending
<1>3. CASE sent[next].to # w
  <2>1. gas'[w] = gas[w]
    BY <1>1, <1>3 DEF Mine, GasTypeOK
  <2>2. next \notin Pending(w)
    BY <1>3 DEF Pending
  <2> QED BY <1>0, <1>2, <2>1, <2>2, TurnKept
<1>4. CASE sent[next].to = w
  <2>1. next \in Pending(w)
    BY <1>0, <1>4 DEF Pending
  <2>2. Pending(w)' = {}
    BY <1>2, <2>1 DEF OneAtATime
  <2>3. \A d \in Clients : WalletOf[d] = w => ~Preparing(d)
    BY <2>1 DEF OneAtATime
  <2>4. OneAtATime(w)'
    BY <1>0, <2>2, <2>3 DEF OneAtATime, Preparing, Asking
  <2>5. gas'[w] = gas[w] + sent[next].value
    BY <1>1, <1>4 DEF Mine, GasTypeOK
  <2>6. Bounded(w)'
    BY <2>1, <2>2, <2>5 DEF Bounded
  <2> QED BY <2>4, <2>6
<1> QED BY <1>3, <1>4

(* A wallet that is not raced is asked for when nothing is under way.      *)
LEMMA AskedInTurn ==
    ASSUME NEW c \in Clients, NEW w, WalletOf[c] = w, getGasForTxn(c), w \notin raced'
    PROVE  /\ \A d \in Clients : WalletOf[d] = w => ~Asking(d)
           /\ Pending(w) = {}
<1>1. ~UnderWay(w)
  BY DEF getGasForTxn
<1> QED BY <1>1 DEF UnderWay, Pending

LEMMA ClientTurn ==
    ASSUME GasTypeOK, Estimated, NEW c \in Clients, NEW w \in Wallets \ raced',
           WalletOf[c] = w, OneAtATime(w), Bounded(w),
           GasStep(c) \/ GasCallThrows(c) \/ Spend(c)
    PROVE  OneAtATime(w)' /\ Bounded(w)'
<1>0. /\ fund[c] \in Request /\ gas[w] \in Nat /\ fund[c].value \in Nat
      /\ fund[c].estimate \in Nat
  BY RequestKnown
<1>1. CASE getGasForTxn(c)
  <2> DEFINE r == [fund[c] EXCEPT !.pc = "price", !.tries = @ + 1]
  <2>1. fund' = [fund EXCEPT ![c] = r] /\ UNCHANGED <<gas, sent, mined>>
    BY <1>1 DEF getGasForTxn
  <2>2. r.pc = "price"
    BY <1>0 DEF Request
  <2>3. Pending(w) = {} /\ \A d \in Clients : WalletOf[d] = w /\ Asking(d) => d = c
    BY <1>1, AskedInTurn
  <2> QED BY <2>1, <2>2, <2>3, OwnTurn
<1>2. CASE ReadPrice(c)
  <2>1. PICK e \in Estimates :
          fund' = [fund EXCEPT ![c] = [fund[c] EXCEPT !.pc = "balance", !.estimate = e]]
    BY <1>2 DEF ReadPrice
  <2> DEFINE r == [fund[c] EXCEPT !.pc = "balance", !.estimate = e]
  <2>2. fund[c].pc = "price" /\ r.pc = "balance" /\ UNCHANGED <<gas, sent, mined>>
    BY <1>0, <1>2 DEF ReadPrice, Request
  <2>3. Pending(w) = {} /\ \A d \in Clients : WalletOf[d] = w /\ Asking(d) => d = c
    BY <2>2 DEF OneAtATime, Preparing, Asking
  <2> QED BY <2>1, <2>2, <2>3, OwnTurn
<1>3. CASE ReadBalance(c)
  <2>1. fund[c].pc = "balance" /\ UNCHANGED <<gas, sent, mined>>
    BY <1>3 DEF ReadBalance
  <2>2. Pending(w) = {} /\ \A d \in Clients : WalletOf[d] = w /\ Asking(d) => d = c
    BY <2>1 DEF OneAtATime, Preparing, Asking
  <2>3. CASE gas[w] < fund[c].estimate /\ gas[w] < MaxGasAllowed
    <3> DEFINE r == [fund[c] EXCEPT !.pc = "populate", !.value = fund[c].estimate - gas[w],
                                    !.base = spent[w]]
    <3>1. fund' = [fund EXCEPT ![c] = r]
      BY <1>3, <2>3 DEF ReadBalance, TopUp
    <3>2. r.pc = "populate" /\ r.value = fund[c].estimate - gas[w] /\ r.estimate = fund[c].estimate
      BY <1>0 DEF Request
    <3>3. gas[w] + r.value <= r.estimate
      BY <1>0, <3>2
    <3> QED BY <2>1, <2>2, <3>1, <3>3, OwnTurn
  <2>4. CASE ~(gas[w] < fund[c].estimate /\ gas[w] < MaxGasAllowed)
    <3> DEFINE r == [fund[c] EXCEPT !.pc = "idle", !.answer = "sufficient", !.base = spent[w]]
    <3>1. fund' = [fund EXCEPT ![c] = r]
      BY <1>3, <2>4 DEF ReadBalance
    <3>2. r.pc = "idle"
      BY <1>0 DEF Request
    <3> QED BY <2>1, <2>2, <3>1, <3>2, OwnTurn
  <2> QED BY <2>3, <2>4
<1>4. CASE Populate(c)
  <2> DEFINE r == [fund[c] EXCEPT !.pc = "broadcast", !.nonce = Len(sent)]
  <2>1. /\ fund[c].pc = "populate" /\ UNCHANGED <<gas, sent, mined>>
        /\ fund' = [fund EXCEPT ![c] = r]
    BY <1>4 DEF Populate
  <2>2. r.pc = "broadcast" /\ r.value = fund[c].value /\ r.estimate = fund[c].estimate
    BY <1>0 DEF Request
  <2>3. Pending(w) = {} /\ \A d \in Clients : WalletOf[d] = w /\ Asking(d) => d = c
    BY <2>1 DEF OneAtATime, Preparing, Asking
  <2>4. gas[w] + r.value <= r.estimate
    BY <2>1, <2>2 DEF OneAtATime
  <2> QED BY <2>1, <2>3, <2>4, OwnTurn
<1>5. CASE Broadcast(c)
  <2>1. CASE fund[c].nonce = Len(sent)
    BY <1>5, <2>1, BroadcastTurn
  <2>2. CASE fund[c].nonce # Len(sent)
    <3>1. fund' = [fund EXCEPT ![c] = Quiet(fund[c].tries)] /\ UNCHANGED <<gas, sent, mined>>
      BY <1>5, <2>2 DEF Broadcast, Failed
    <3>2. Quiet(fund[c].tries).pc = "idle"
      BY DEF Quiet
    <3> QED BY <3>1, <3>2, OwnTurn
  <2> QED BY <2>1, <2>2
<1>6. CASE Receipt(c)
  <2> DEFINE r == [fund[c] EXCEPT !.pc = "idle", !.answer = "receipt", !.value = 0, !.nonce = 0]
  <2>1. fund' = [fund EXCEPT ![c] = r] /\ UNCHANGED <<gas, sent, mined>>
    BY <1>6 DEF Receipt, Answered
  <2>2. r.pc = "idle"
    BY <1>0 DEF Request
  <2> QED BY <2>1, <2>2, OwnTurn
<1>7. CASE GasCallThrows(c)
  <2>1. fund' = [fund EXCEPT ![c] = Quiet(fund[c].tries)] /\ UNCHANGED <<gas, sent, mined>>
    BY <1>7 DEF GasCallThrows, Failed
  <2>2. Quiet(fund[c].tries).pc = "idle"
    BY DEF Quiet
  <2> QED BY <2>1, <2>2, OwnTurn
<1>8. CASE Spend(c)
  BY <1>8, SpendTurn
<1> QED BY <1>1, <1>2, <1>3, <1>4, <1>5, <1>6, <1>7, <1>8 DEF GasStep

LEMMA TurnInit == GasInit => TurnInv
<1> SUFFICES ASSUME GasInit PROVE TurnInv
  OBVIOUS
<1>1. \A c \in Clients : fund[c].pc = "idle"
  BY DEF GasInit, Quiet
<1>2. ASSUME NEW w \in Wallets PROVE OneAtATime(w) /\ Bounded(w)
  <2>1. Pending(w) = {}
    BY DEF GasInit, Pending
  <2>2. gas[w] \in Balances
    BY DEF GasInit
  <2>3. gas[w] \in Nat
    BY <2>2, GasTankAssumption DEF GasTankAssumption
  <2>4. gas[w] <= gas[w]
    BY <2>3
  <2> QED BY <1>1, <2>1, <2>2, <2>4 DEF OneAtATime, Asking, Preparing, Bounded
<1>3. Estimated
  BY <1>1 DEF Estimated
<1> QED BY <1>2, <1>3 DEF TurnInv

LEMMA TurnStep == GasTypeOK /\ TurnInv /\ [GasNext]_gasVars => TurnInv'
<1> SUFFICES ASSUME GasTypeOK, TurnInv, [GasNext]_gasVars PROVE TurnInv'
  OBVIOUS
<1>1. Estimated'
  BY EstimatedStep DEF TurnInv
<1>2. raced \subseteq raced'
  BY DEF GasNext, GasStep, getGasForTxn, ReadPrice, ReadBalance, Populate, Broadcast,
         Receipt, GasCallThrows, Spend, Mine, gasVars
<1>3. ASSUME NEW w \in Wallets \ raced' PROVE OneAtATime(w)' /\ Bounded(w)'
  <2>1. Estimated /\ OneAtATime(w) /\ Bounded(w)
    BY <1>2, <1>3 DEF TurnInv
  <2>2. ASSUME NEW c \in Clients, GasStep(c) \/ GasCallThrows(c) \/ Spend(c)
        PROVE  OneAtATime(w)' /\ Bounded(w)'
    <3>1. CASE WalletOf[c] = w
      BY <1>3, <2>1, <2>2, <3>1, ClientTurn
    <3>2. CASE WalletOf[c] # w
      BY <1>3, <2>1, <2>2, <3>2, OthersTurn
    <3> QED BY <3>1, <3>2
  <2>3. CASE Mine
    BY <1>3, <2>1, <2>3, MineTurn
  <2>4. CASE UNCHANGED gasVars
    <3>1. Pending(w)' = Pending(w)
      BY <2>4 DEF gasVars, Pending
    <3> QED BY <1>3, <2>1, <2>4, <3>1, TurnKept DEF gasVars
  <2> QED BY <2>2, <2>3, <2>4 DEF GasNext
<1>4. Wallets' = Wallets
  OBVIOUS
<1> QED BY <1>1, <1>3, <1>4 DEF TurnInv

LEMMA TurnBounds == TurnInv => NeverOverfunded
<1> SUFFICES ASSUME TurnInv, NEW w \in Wallets \ raced
             PROVE  \E bound \in Estimates \cup Balances :
                        /\ gas[w] <= bound
                        /\ \A n \in mined + 1 .. Len(sent) :
                            sent[n].to = w => gas[w] + sent[n].value <= bound
  BY DEF NeverOverfunded
<1>1. Bounded(w)
  BY DEF TurnInv
<1> QED BY <1>1 DEF Bounded, Pending

-----------------------------------------------------------------------------
(* Every reachable state of the gas tank is well typed, knows what its     *)
(* requests know, and prepares one top-up of a wallet at a time.           *)
THEOREM GasHeld == GasSpec => [](GasTypeOK /\ GrantInv /\ TurnInv)
<1>1. GasInit => GasTypeOK /\ GrantInv /\ TurnInv
  BY GasTypeInit, GrantInit, TurnInit
<1>2. GasTypeOK /\ GrantInv /\ TurnInv /\ [GasNext]_gasVars
        => (GasTypeOK /\ GrantInv /\ TurnInv)'
  BY GasTypeStep, GrantStep, TurnStep
<1> QED BY <1>1, <1>2, PTL DEF GasSpec

(* A client that is told its gas was sent, or suffices, has it, however    *)
(* many clients share the tank and the wallet (getGasForTxn).              *)
THEOREM GasIsGranted == GasSpec => []GasGranted
<1>1. GasTypeOK /\ GrantInv /\ TurnInv => GasGranted
  BY GrantGas
<1> QED BY <1>1, GasHeld, PTL

(* Requests for a wallet one after the other, failed and repeated ones     *)
(* included, never fill it beyond one estimate or its first balance.       *)
THEOREM WalletsBounded == GasSpec => []NeverOverfunded
<1>1. GasTypeOK /\ GrantInv /\ TurnInv => NeverOverfunded
  BY TurnBounds
<1> QED BY <1>1, GasHeld, PTL
=============================================================================
