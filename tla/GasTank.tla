------------------------------- MODULE GasTank --------------------------------
(***************************************************************************)
(* getGasForTxn of offramp.service.ts: before a user transfers tokens, the *)
(* client asks for gas, and the one gas-tank account tops the user's       *)
(* wallet up to an estimate.  The balance is read before the top-up is     *)
(* signed with the tank's next nonce, broadcast, and mined later.  Amounts *)
(* are in units of the gas one transfer costs.                             *)
(***************************************************************************)
EXTENDS Naturals, Sequences

CONSTANTS
    Clients,        \* the requests for gas: each stands for one payment
    Wallets,        \* the users' wallets
    WalletOf,       \* the wallet of each client
    Estimates,      \* what maxPriorityFeePerGas * 646250 may amount to
    Balances,       \* what a wallet may hold at first
    MaxGasAllowed,  \* 0.1 ether
    MaxTries        \* bound: how often a client asks for gas

ASSUME GasTankAssumption ==
    /\ WalletOf \in [Clients -> Wallets]
    /\ Estimates \subseteq Nat /\ Balances \subseteq Nat
    /\ MaxGasAllowed \in Nat /\ MaxTries \in Nat

VARIABLES
    gas,        \* the balance of each wallet on the chain
    sent,       \* the tank's transactions, by nonce
    mined,      \* how many of them are mined
    fund,       \* each client's request for gas
    spent,      \* the gas each wallet has used (history)
    raced       \* wallets asked for while a top-up was under way (history)

gasVars == <<gas, sent, mined, fund, spent, raced>>

Request == [pc       : {"idle", "price", "balance", "populate", "broadcast", "wait"},
            tries    : 0..MaxTries,
            estimate : Estimates \cup {0},
            value    : Nat,
            nonce    : Nat,
            base     : Nat,   \* what the wallet had spent when its balance was read
            answer   : {"none", "receipt", "sufficient"}]

(* No request, after so many tries.                                        *)
Quiet(tries) == [pc |-> "idle", tries |-> tries, estimate |-> 0, value |-> 0,
                 nonce |-> 0, base |-> 0, answer |-> "none"]

GasTypeOK ==
    /\ gas \in [Wallets -> Nat]
    /\ sent \in Seq([to : Wallets, value : Nat])
    /\ mined \in 0..Len(sent)
    /\ fund \in [Clients -> Request]
    /\ spent \in [Wallets -> Nat]
    /\ raced \subseteq Wallets

GasInit ==
    /\ gas \in [Wallets -> Balances]
    /\ sent = <<>>
    /\ mined = 0
    /\ fund = [c \in Clients |-> Quiet(0)]
    /\ spent = [w \in Wallets |-> 0]
    /\ raced = {}

-----------------------------------------------------------------------------
Asking(c) == fund[c].pc # "idle"

Granted(c) == fund[c].answer \in {"receipt", "sufficient"}

(* The request ends with an answer, and its local variables with it.       *)
Answered(c, answer) ==
    fund' = [fund EXCEPT ![c].pc = "idle", ![c].answer = answer,
                         ![c].value = 0, ![c].nonce = 0]

Failed(c) == fund' = [fund EXCEPT ![c] = Quiet(@.tries)]

(* A top-up of the wallet is being prepared or waits to be mined.          *)
UnderWay(w) ==
    \/ \E c \in Clients : WalletOf[c] = w /\ Asking(c)
    \/ \E n \in mined + 1 .. Len(sent) : sent[n].to = w

(* A client asks for gas, again if it has no answer or an error.            *)
getGasForTxn(c) ==
    /\ ~Asking(c) /\ ~Granted(c)
    /\ fund[c].tries < MaxTries
    /\ fund' = [fund EXCEPT ![c].pc = "price", ![c].tries = @ + 1]
    /\ raced' = raced \cup {w \in {WalletOf[c]} : UnderWay(w)}
    /\ UNCHANGED <<gas, sent, mined, spent>>

(* The gas station's price fixes the estimate.                             *)
ReadPrice(c) ==
    /\ fund[c].pc = "price"
    /\ \E e \in Estimates :
        fund' = [fund EXCEPT ![c].pc = "balance", ![c].estimate = e]
    /\ UNCHANGED <<gas, sent, mined, spent, raced>>

(* Faulty variant: the wallet is given the whole estimate.                 *)
WholeEstimate(estimate, balance) == estimate

(* Faulty variant: the operands are swapped.                               *)
Reversed(estimate, balance) == balance - estimate

TopUp(estimate, balance) == estimate - balance

ReadBalance(c) ==
    /\ fund[c].pc = "balance"
    /\ LET balance  == gas[WalletOf[c]]
           estimate == fund[c].estimate
       IN  IF balance < estimate /\ balance < MaxGasAllowed
             THEN fund' = [fund EXCEPT ![c].pc = "populate",
                                       ![c].value = TopUp(estimate, balance),
                                       ![c].base = spent[WalletOf[c]]]
             ELSE fund' = [fund EXCEPT ![c].pc = "idle", ![c].answer = "sufficient",
                                       ![c].base = spent[WalletOf[c]]]
    /\ UNCHANGED <<gas, sent, mined, spent, raced>>

(* sendTransaction: the nonce is the number of transactions the node knows.*)
Populate(c) ==
    /\ fund[c].pc = "populate"
    /\ fund' = [fund EXCEPT ![c].pc = "broadcast", ![c].nonce = Len(sent)]
    /\ UNCHANGED <<gas, sent, mined, spent, raced>>

(* Faulty variant: the client is answered before the top-up is mined.      *)
AnswerAtOnce(c) == Answered(c, "receipt")

AwaitReceipt(c) == fund' = [fund EXCEPT ![c].pc = "wait"]

(* A nonce that is taken by now makes the node refuse the transaction.  (A *)
(* node may instead let a higher fee replace the one that is pending, and  *)
(* wait() then throws for the request replaced: it is told of a failure,   *)
(* as the refused one is here.)                                            *)
Broadcast(c) ==
    /\ fund[c].pc = "broadcast"
    /\ IF fund[c].nonce = Len(sent)
         THEN /\ sent' = Append(sent, [to |-> WalletOf[c], value |-> fund[c].value])
              /\ AwaitReceipt(c)
         ELSE Failed(c) /\ UNCHANGED sent
    /\ UNCHANGED <<gas, mined, spent, raced>>

(* txnResponse.wait().                                                     *)
Receipt(c) ==
    /\ fund[c].pc = "wait"
    /\ fund[c].nonce < mined
    /\ Answered(c, "receipt")
    /\ UNCHANGED <<gas, sent, mined, spent, raced>>

(* A call throws, or the process restarts; a transaction already sent      *)
(* stays with the node.                                                    *)
GasCallThrows(c) ==
    /\ Asking(c)
    /\ Failed(c)
    /\ UNCHANGED <<gas, sent, mined, spent, raced>>

(* The chain mines the tank's transactions in the order of their nonces.   *)
Mine ==
    /\ mined < Len(sent)
    /\ mined' = mined + 1
    /\ gas' = [gas EXCEPT ![sent[mined + 1].to] = @ + sent[mined + 1].value]
    /\ UNCHANGED <<sent, fund, spent, raced>>

(* A client that was granted its gas transfers tokens, for one unit.       *)
Spend(c) ==
    /\ Granted(c)
    /\ gas[WalletOf[c]] > 0
    /\ gas' = [gas EXCEPT ![WalletOf[c]] = @ - 1]
    /\ spent' = [spent EXCEPT ![WalletOf[c]] = @ + 1]
    /\ fund' = [fund EXCEPT ![c] = Quiet(@.tries)]
    /\ UNCHANGED <<sent, mined, raced>>

GasStep(c) ==
    \/ getGasForTxn(c) \/ ReadPrice(c) \/ ReadBalance(c) \/ Populate(c)
    \/ Broadcast(c) \/ Receipt(c)

-----------------------------------------------------------------------------
(* No wallet is filled, or about to be, beyond the largest estimate or     *)
(* what it held at first, unless a client asks while a top-up of its       *)
(* wallet is under way (getGasForTxn does not look for one): a request     *)
(* that failed, or whose nonce was taken, and the request that repeats it  *)
(* never add up, and neither do the payments of one wallet one by one.     *)
NeverOverfunded ==
    \A w \in Wallets \ raced :
        \E bound \in Estimates \cup Balances :
            /\ gas[w] <= bound
            /\ \A n \in mined + 1 .. Len(sent) :
                sent[n].to = w => gas[w] + sent[n].value <= bound

(* A client told that its gas was sent, or suffices, has it: the wallet    *)
(* holds the estimate, or the cap for estimates beyond it, but for what it *)
(* has spent since its balance was read.                                   *)
GasGranted ==
    \A c \in Clients : Granted(c) =>
        LET had == gas[WalletOf[c]] + (spent[WalletOf[c]] - fund[c].base)
        IN  had >= fund[c].estimate \/ had >= MaxGasAllowed
=============================================================================
